# Verification of the embedded energy monitoring system

This directory holds TLA+ specifications of the repository's concurrent and
distributed parts, the TLC configurations that check them on small instances,
and proofs of their central properties that TLAPS checks for every value of the
constants. Paths in this file are relative to the repository's root.

1. [The system](#1-the-system)
2. [Modules and how they correspond to the code](#2-modules)
3. [Runs, bounds and what they show](#3-runs)
4. [Fairness](#4-fairness)
5. [Proofs](#5-proofs)
6. [Where code and documentation disagree](#6-disagreements)
7. [What is not modelled](#7-not-modelled)
8. [Plan](#8-plan)

To repeat everything: `tlc -config X.cfg M.tla` for the pairs of section 3 and
`tlapm M_proofs.tla` for each proof module.

## 1. The system

Devices measure and control three zones of a building. C programs on Linux (and
a PIC16F877A demo board) send fixed-size binary packets over TCP to a Python
gateway, which stores them in PostgreSQL; a Spring Boot backend serves the
tables to a React dashboard. MQTT is a second way from devices to gateway.

```
 sensor, occupancy_sensor --TCP V1--+            +--> PostgreSQL <-- Backend <-- dashboards
 power_meter --------------TCP V1--+             |        ^             |
    | shared memory + semaphore    +--> Gateway -+        | system_mode | ECS API
 hvac_controller ----------TCP V2--+     ^   |  (one DBWriter,          v
 PIC board --serial--> Bridge -----+     |   |   many threads)    ECS sensor service
 all devices ------------- MQTT ---------+   +-- analytics thread
```

### Inventory

| Component | Source | State it keeps | Operations | Hard behaviour | What makes it correct | Modelled |
|---|---|---|---|---|---|---|
| DBWriter and its callers | `Gateway/db_writer.py`, `network.py`, `mqtt_subscriber.py`, `analytics.py`, `gateway_server.py` | one connection, one cursor, `connected`, zone cache, lock | connect, reconnect, cache reload, six writes, disconnect | four kinds of threads on one cursor, partly locked; outages between any two round trips | locked sections exclude each other, a registered device is known, the connection comes back | `DBWriter` |
| HVAC shared memory | `Embedded/ipc.c`, `hvac_controller.c`, `power_meter.c` | region, semaphore, their names | create, open, store, read, unlink | processes stopped or killed anywhere, objects that outlive them | one process inside, whole commands, no hang | `HvacIpc`, `SnapshotRegister` |
| Packet transport | `Gateway/network.py`, `protocol.py`, devices' send loops | stream position, packet being assembled | connect, send, recv, detect version, parse | recv in pieces, broken connections, version guessed from data | each packet passed on whole and once | `TcpFraming` |
| Mode switch | `SystemModeService.java`, `SystemModeController.java`, `Dashboard.jsx` | row `system_mode`, ECS `desiredCount`, what dashboards show | poll, switch | two calls without transaction, concurrent requests, answers late or lost | row and service agree, dashboards show them | `SystemMode` |
| MQTT transport | `Gateway/mqtt_subscriber.py`, `Embedded/mqtt_client.c` | connected, thread | connect, subscribe, publish, handle | broker absent at start, reconnects, session without memory | what is published under a subscription is handled; subscriptions come back | `MqttLink`; handlers in `DBWriter` |
| Sensors | `Embedded/sensor*.c`, `occupancy*.c`, `main.c` | reading, count, socket | read, send, stop | lost connections | what is sent is a whole packet | sending in `TcpFraming`, `UartLink`, `MqttLink` |
| HVAC control | `Embedded/hvac_controller.c`, `pid.c`, `config.c` | integral, last error, temperature | compute, drive, simulate | integral wound up, clamped output | outputs within 0..100, the room stays near the setpoint | `PidControl`; publishing in `HvacIpc` |
| Power meter | `Embedded/power_meter.c` | attached region, socket | read, compute, send, reconnect | controller that restarts | reports the current load | `HvacIpc`, `TcpFraming` |
| UART link | `Embedded/uart_sim.c`, `Gateway/uart_reader.py` | FIFO, position | write marker and data, find marker, read | half-written packets, false markers, names removed and made again | skips no whole packet, finds the FIFO again | `UartLink`, `PacketChannel` |
| Serial bridge | `Bridge/serial_bridge.py` | byte buffer, two links | read, cut, forward, reopen | shifted stream, failed sends | loses and repeats nothing itself | `SerialBridge`, `PacketChannel` |
| Process manager | `Gateway/process_manager.py` | two child processes, restart counts | spawn, kill, monitor | child dies at any time or does not react to SIGTERM | no orphan, calls return, nothing left at the end | `ProcessManager`, `HvacSystem` |
| Orchestration rules | `Gateway/orchestration_config.py`, `network.py` | thresholds | decide per temperature | hysteresis | rows written per decision | rows in `DBWriter` |
| Circular buffer, analytics | `Gateway/analytics.py` | last 1000 packets | add, statistics, report | threads | each method atomic under its own lock | its writes in `DBWriter` |
| PIC firmware | `Embedded/pic_demo/*.c` | three zones | key, mode, LEDs, send | limits | LEDs follow the mode, values in range | its sending in `SerialBridge` |
| Backend REST, security | `Backend/src/main/java/com/energy` | none of its own | queries | – | – | not modelled, except the mode switch |
| Frontend pages | `Frontend/src` | polled values, token | poll, show | overlapping polls | shows the latest | `ModeToggle` only |
| Schema, deployment | `Database/`, `Terraform/`, `scripts/`, `docker-compose.yml` | – | – | – | – | constraints where a row is written |

## 2. Modules

| Module | Kind | What it models |
|---|---|---|
| `DBWriter` | detailed | every thread of the gateway that uses the writer, one round trip or access to a shared attribute per step |
| `MCDBWriter` | instance | two handlers, MQTT, analytics; a registered temperature device and an unregistered occupancy device |
| `DBWriter_proofs` | proofs | |
| `SnapshotRegister` | abstract | what the shared memory promises: an atomic register of whole commands |
| `HvacIpc` | detailed | controller incarnations, meters, and kernel objects with their names |
| `MCHvacIpc` | instance | two meters |
| `HvacIpc_proofs` | proofs | the refinement of `SnapshotRegister` among them |
| `TcpFraming` | detailed | one device, its connections, one handler thread per connection; small enough to be run directly |
| `TcpFraming_proofs` | proofs | the refinement of `PacketChannel` among them |
| `SystemMode` | detailed | dashboards, backend requests, the row and the ECS service |
| `MCSystemMode` | instance | two dashboards, one with two requests under way at once |
| `SystemMode_proofs` | proofs | |
| `PacketChannel` | abstract | what a link to the gateway promises: whole packets, none twice, in order on each stream |
| `SerialBridge` | detailed | the serial line, the bridge's buffer and its TCP connections; run directly |
| `SerialBridge_proofs` | proofs | the refinement of `PacketChannel` among them |
| `UartLink` | detailed | FIFO files and their name, sensors that write, the gateway's reader; run directly |
| `UartLink_proofs` | proofs | the refinement of `PacketChannel` among them |
| `MqttLink` | detailed | publishers with their library, the broker, the subscriber |
| `MCMqttLink` | instance | two topics, a publisher for the second |
| `MqttLink_proofs` | proofs | |
| `ProcessManager` | detailed | the gateway's manager and the processes it starts |
| `PidControl` | algorithm | control law and simulated room, in fixed-point numbers |
| `HvacSystem` | composition | `ProcessManager` with `PidControl` in the controller it runs |
| `HvacSystem_proofs` | proofs | |

### DBWriter

All threads share `self.conn`, `self.cursor`, `self.connected`,
`self._zone_cache` and `self.lock` (`link`, `cursor`, `connected`, `cache`,
`lock`). `pc[t]` says where thread `t` is; the steps follow `write_packet`:
`Gate` (the `connected` check), `CheckCache`, `Select`/`Fetch`/`Assign` (a cache
reload, three steps because another thread can run between them), `GetZone`,
`Acquire`, `HealthCheck`, `Write`, and `Return`, which continues with the
orchestration rows of a temperature packet. A failed health check goes through
`MarkLost`, then `connect()`: `ConnectFails`, or `InstallConn`, `SetAutocommit`,
`InstallCursor`, `MarkConnected`, one assignment each, since unlocked threads and
the shutdown run between them; an exception that `connect()` does not catch goes
through `Escape`. The shutdown is `disconnect()`'s three unlocked accesses:
`CloseCursor`, `CloseConn`, `MarkDisconnected`. MQTT messages skip the gate and
the lock, as the code does; so does `write_hvac_state_direct`, which has a cursor
of its own (`DirectInsert`) and commits the connection it finds afterwards
(`DirectCommit`).

psycopg2 is modelled by what the code relies on: the first statement on a dead
session fails and closes the connection, `fetchall` without a result raises, a
cursor of a replaced connection is of no use, and a connection is `"manual"` until
its autocommit is set, which is refused once a transaction is `"begun"` (`txn`).
`ClosedCheck` leaves open whether reading `isolation_level` on a closed connection
raises, which depends on the psycopg2 release. `log` and `overlapped` are history
variables: what became of each packet, and whether one thread's `SELECT` of the
devices ever fell between another's `SELECT` and its `fetchall`. Rows of
`write_hvac_state_direct` are not in the log.

### HvacIpc and SnapshotRegister

Kernel objects are named by the controller incarnation that made them; `shmName`
and `semName` say which one a name leads to. The controller goes through
`Start`, `CreateSem`, `CreateShm`, `Truncate`, the clearing `Store`s, then
`Compute`, `Wait`, `Store` cell by cell in any order, `Post`. `Terminate` is the
signal handler at any point (`UnlinkShm`, `UnlinkSem`), `Crash` is SIGKILL. A
meter opens semaphore and region in two steps with retries, then loops `MCheck`
(`is_valid`, outside the lock), `MWait`, `MRead`, `MReread`, `MPost`; it has no
handler, so `MKill` loses the token if it is inside. `SnapshotRegister` is the
abstract view: publishing and sampling a command are single steps.

### TcpFraming

A V1 packet is 5 words of 4 bytes, a V2 packet 8. A handler asks for 5 words,
may take the packet for V2 and ask for 3 more (`Longer`), and then passes it on
or drops it (`Take`). The model keeps positions instead of bytes: `start[c]`,
`got[c]`, `sent[c]`. What bytes 12 and 13 of a block can be follows from where
in a packet they lie (`CanLookV2`), and a checksum over something that is no
packet may come out either way. `SendFails` covers the devices' different
reactions: `power_meter` reconnects, a sensor stops and is started again,
`hvac_controller` goes on without (then `Connect` is never taken again).

### SystemMode

A request (`req`) is followed through the backend's calls: for a switch
`UpdateService`, then `SaveMode`; for a poll `ReadMode`, then `DescribeService`;
then `Answer`. Calls fail (`ServiceFails`, where ECS may or may not have taken
the update, `SaveFails`, `GetFails`), answers are lost (`LoseAnswer`), pages are
left (`Leave`) and the ECS task ends by itself (`TaskStops`). `Converge` is the
ECS scheduler. `disturbed` is a history variable: a switch failed after its
first call, or made its first call while another was between its two, and none
has made its first call since while no other was half done.

### PacketChannel, SerialBridge and UartLink

`PacketChannel` has two variables, the number of packets sent and what arrived
on each stream. Three links implement it, `TcpFraming` and these two; in each,
what arrives that is no packet and passes the checksum by chance is left out of
the mapping (`Passed`).

`SerialBridge` numbers the bytes of all packets. `SendByte` is the PIC's
`uart_send_byte`; `LoseByte` and `Reopen` (a `SerialException` closes the port,
the buffer survives) take bytes off the line. `Read`, `Cut`, `SendAll` are
`run_bridge`: at most a packet's length is read at a time, blocks are cut at the
front, the block is out of the buffer before `sendall`. `SendFails` covers an
exception with the block taken by the kernel, wholly or not, on a connection
that may still deliver earlier blocks.

`UartLink` models the FIFO as files with an optional name, since `unlink` and
`mkfifo` make a new one under the old name while the reader may hold the old:
`SOpen` (tries without blocking; a missing reader is ENXIO), the two writes
`SMarker` and `SData`, each refused when there is no room, `SDie` (killed, or
SIGPIPE after the reader left), `SClose` and `SUnlink` at the end of a sensor.
The reader waits for the name (`RLook`), opens (`ROpen`), scans for a marker
(`RScan`), reads a body (`RBody`), perhaps twelve bytes more (`RLonger`,
`RMore`), and goes on (`RNext`) or ends at a short read (`REnd`). A block taken
for a packet is handled (`Handle`); when the database raises there, the file is
closed with what was read ahead, although the packet was whole. A byte is
known by its packet and place, and whether it may look like a marker or a
version by what the field can hold.

### MqttLink

A publisher is `mqtt_init` (`PStart`), the connect (`PConnect`), the wait of
five seconds (`PWaited`), `mqtt_publish_*` (`Publish`) and `mqtt_disconnect` or
a kill (`PExit`); libmosquitto's thread is `PLink`, `Transmit`, `Ack`. QoS 1
means that `Unlink` leaves what was not acknowledged in `out`, to be sent again.
The subscriber tries its first connect once (`SConnect`), is reconnected by
paho (`SLink`), subscribes topic after topic (`Subscribe`) and handles messages;
its sessions are clean, so `SessionEnds` drops subscriptions and messages. A
thread whose first connect failed is over (`Deaf`).

### PidControl, ProcessManager and HvacSystem

`PidControl` is `run_hvac_loop` once per second with `pid_compute` and
`simulate_temperature_physics`; temperatures are differences from the setpoint.
A float is an integer number of 1/`Degree` degrees, and a power the number of
such units it heats in a second, so `Degree` is 100%. Where the code divides
floats, `\div` rounds down; the precision `Degree` is a parameter, and the
proofs hold for every one from a fiftieth of a degree on.

`ProcessManager` follows each call through its steps (`pc`, and `next` for what
`cleanup_all` does afterwards): a kill signals (`KillHvac`, `KillMeter`) and
waits (`WaitHvac`, `WaitMeter`), and in between processes end (`Die`) or not.
`HvacSystem` ties the two: the loop goes around while the controller's process
is up and was not sent SIGTERM; its state is gone with it.

## 3. Runs

Times are for two workers on a small machine.

| Run | Module, cfg | Bounds | Result |
|---|---|---|---|
| `db_writer` | `MCDBWriter`, `DBWriter.cfg` | 2 handlers, MQTT, 2 packets, 2 outages, 2 retries | `TypeOK`, `LockedSectionsExclusive`, `ReloadsKeepCache`, `GaveUpIsFinal` hold |
| `db_writer_live` | `MCDBWriter`, `DBWriterLive.cfg` | 1 handler, analytics, 2 packets, 2 outages, 2 retries | `LockReleased` holds |
| `db_restart` | `MCDBWriter`, `DBWriterRestart.cfg` | 2 handlers, MQTT, analytics, 2 packets, 1 outage | `ResilientToDbRestart` is violated |
| `hvac_ipc` | `MCHvacIpc`, `HvacIpc.cfg` | 2 incarnations, 1 kill, 2 meters, 3 levels | `TypeOK`, `OneInside`, `WholeCommands`, `DetachedIsFrozen` hold |
| `hvac_ipc_register` | `MCHvacIpc`, `HvacIpcRegister.cfg` | 1 incarnation, 1 kill, 2 meters | `SemaphoreServes`, `IsRegister` hold |
| `tcp_framing` | `TcpFraming`, `TcpFraming.cfg` | 2 connections, 3 packets | `TypeOK`, `WholeUntilMisread`, `NeverRealigns`, `IsChannel`, `ArrivedIsPassedOn` hold |
| `tcp_framing_v2` | `TcpFraming`, `TcpFramingV2.cfg` | 1 connection, 2 packets | `VersionDetected` is violated |
| `system_mode` | `MCSystemMode`, `SystemMode.cfg` | 2 dashboards, 3 requests at once, 3 switches, 1 trouble | `TypeOK`, `AgreeUnlessDisturbed`, `ButtonsWaitForSwitch`, `EventuallyShown` hold |
| `serial_bridge` | `SerialBridge`, `SerialBridge.cfg` | 3 packets of 3 bytes, 3 connections, 3 faults | `TypeOK`, `EveryByteOnce`, `InStepIffWhole`, `IsChannel`, `ForwardedOrFailed` hold |
| `uart_link` | `UartLink`, `UartLink.cfg` | 3 packets, 3 sensors, FIFO of 46 bytes, 2 tries to open | `TypeOK`, `LossIsExplained`, `IsChannel`, `PendingIsRead`, `FindsFifo` hold |
| `mqtt_link` | `MCMqttLink`, `MqttLink.cfg` | 1 publisher started twice, 3 readings, 2 losses | `TypeOK`, `BackOncePerLoss`, `ComesBack`, `PublishedIsHandled` hold |
| `hvac_system` | `HvacSystem`, `HvacSystem.cfg` | 4 processes, 3 restarts, 1/100 degree | `TypeOK`, `NoOrphan`, `LeavesOnlyHung`, `CallsReturn`, `StaysNear`, `WindupDrivesBoth` hold |

Why the bounds are enough:

- *DBWriter.* Two handlers can hold and wait for the lock while MQTT runs
  unlocked statements. Analytics, which reloads the cache without the lock and
  writes with it as a handler does, runs beside a handler in the liveness run.
  Two packets let a thread pass the gate before and after an outage; the first
  outage covers noticing it, retrying and giving up, the second one in the middle
  of a reconnection; with two retries both the last and an earlier attempt exist.
  The shutdown begins anywhere. The registered and the unregistered device
  separate "known" from "unknown" traffic.
- *HvacIpc.* A second incarnation is where objects of two incarnations meet; a
  kill leaves names behind and a handled signal removes them. Two meters compete
  with the controller and with each other. Of three levels one is zero, as a cleared
  cell is, and two are not: a mixture of two commands differs from one command with
  cleared cells. The second incarnation is what reuses the first one's semaphore.
- *TcpFraming.* Three packets are 15 words: after a misread block of 8 the
  handler still reads a block out of step. Two connections let an old handler
  run beside a new one.
- *SystemMode.* Two switches in opposite directions need a first one that both
  dashboards have seen, hence three. Two requests of one dashboard can be answered
  out of order.

- *SerialBridge.* Packets of three bytes tell a shift of one from a shift of
  two and of none; three lost bytes bring the bridge back into step, and blocks
  that are no packet lie before and after. The third connection lets one fail
  after another has.
- *UartLink.* 46 bytes hold two frames and the marker of a third, so that a
  marker goes in and its data does not; the frame has its real length, since the
  reader's 2, 20 and 32 bytes decide what a false start uses up. Three sensors
  make three files: the reader can be on the second while the third is made.
- *MqttLink.* Each topic is independent of the others in the code, and the
  subscription to one that is published to comes after that of another. Two
  losses let the broker or a connection go again during the recovery; two starts
  let a publisher go on without MQTT and come back.
- *HvacSystem.* Four processes are two controllers with their meters, or one
  meter that hangs beside two more controllers; the trajectory of the room is run
  through to its cycle, which no bound cuts.

`CHECK_DEADLOCK FALSE` is set where the bounds on packets, incarnations,
connections or outages stop the system, and where it may really stop: the
gateway ends in `HvacSystem`, and publishers and subscriber in `MqttLink`; `SystemMode` never stops, since
dashboards poll forever, and is checked for deadlock.

### What the properties say

- `LockedSectionsExclusive`: whoever is between the start and end of a `with
  self.lock` block owns the lock, through reconnection and cache reload.
- `ReloadsKeepCache`: reloads that do not overlap lose no device registered at the
  start and drop none of its readings as unknown, although other threads execute
  statements on the cursor that is being read, or replace it in mid-reload.
- `GaveUpIsFinal`: once `connect()` has failed, by its last retry or by an
  exception, and all packets past the gate are through, the shared cursor is dead;
  nothing makes it live again and nothing is stored. A shutdown may leave it live:
  a handler installs a new connection between `disconnect()`'s closing of the old
  one and its clearing of `connected`. No packet is stored then either, but the
  MQTT thread, which does not look at `connected`, goes on storing.
- `LockReleased`: the lock is held through retries, but not forever.
- `OneInside`: each semaphore's single token is free, with one process, or lost
  with one that died; never duplicated, although a restarted controller reuses a
  semaphore another process may hold.
- `WholeCommands`: a meter that uses region and semaphore of one incarnation
  reads cells of one command only. After a kill the next controller may clear the
  region while the meter reads, so that some cells are zero; without one the
  command is whole.
- `DetachedIsFrozen`: a meter whose region's name is gone reads the same
  load forever.
- `SemaphoreServes`: who waits gets the semaphore, unless somebody died inside.
- `IsRegister`: with one incarnation the protocol implements an atomic register.
- `WholeUntilMisread`, `ArrivedIsPassedOn`: packets of a V1 device are passed on
  whole, in order, without gaps, and in the end, until one is taken for V2.
- `NeverRealigns`: after that, never again on this connection.
- `AgreeUnlessDisturbed`: row and service agree outside a switch, and within it
  the service is already where the switch wants it. Two switches that meet, or one
  that fails half way, may set them apart, but no longer than until the next switch
  that makes its first call while no other is half done.
- `ButtonsWaitForSwitch`: the buttons are disabled exactly while the page waits.
- `EventuallyShown`: all dashboards come to show what is the case.

- `EveryByteOnce`: the bridge itself loses, repeats and reorders no byte, through
  partial reads, ports opened again and failing connections.
- `InStepIffWhole`: a block is a packet exactly if what was lost before it adds
  up to whole packets' lengths and nothing of it is missing.
- `IsChannel` of the three links: each implements `PacketChannel`. No failed `send` or
  `sendall`, misread or half-written frame makes a packet arrive twice or out of order.
- `ForwardedOrFailed`: a packet on an undisturbed line reaches the gateway without
  waiting for another, unless its own sending failed.
- `LossIsExplained`: scanning for a marker never skips a whole packet; one is lost
  only to a block that is no packet or to a closed file.
- `PendingIsRead`: what is in the FIFO is read without a later packet's help,
  except by a reader that took it for a V2 packet.
- `FindsFifo`: the reader finds each new FIFO unless it is stranded on an
  old one, and then it is so for good.
- `BackOncePerLoss`: the readings handled go back at most once per loss of the
  publisher's connection, and losses of the subscriber's add nothing.
- `ComesBack`: a subscriber in its loop gets all its topics again after any loss;
  only a failed first connect ends its thread without `stop()`, and a thread so
  ended has handled nothing and never will.
- `PublishedIsHandled`: a reading published under a subscription is handled,
  through losses of the publisher's connection.
- `NoOrphan`: each running process is one the manager has a handle of, so there
  are never two controllers.
- `LeavesOnlyHung`: the gateway leaves behind at most meters that ignored SIGTERM.
- `CallsReturn`: every call of the manager returns, though a process may hang.
- `StaysNear`: once at the setpoint the room stays within 0.6 degrees of it.
- `WindupDrivesBoth`: there the integral that heating wound up is never used up,
  and heater or cooler always runs at a quarter of its power or more.

Each of these fails for a plausible mutation of the code; the mutated operators
stand before the originals in the modules, named in a comment "Mutant of".

## 4. Fairness

- `DBWriter!FairSpec`: weak fairness of each thread's next step. A socket call
  returns or fails and Python schedules every thread. A thread that waits for the lock is
  not promised it, the server is not promised to come back, and clients need not send.
- `HvacIpc!FairSpec`: weak fairness of each process's loop, strong fairness of
  `sem_wait`: every process sleeps a second per iteration, so a free semaphore
  is free for long. Starts, signals and kills need not happen.
- `TcpFraming!FairSpec`: weak fairness of each handler; TCP delivers what a
  living connection has taken. The device need not send.
- `SystemMode!FairSpec`: weak fairness of polls (`setInterval`), of the
  backend's calls, of answers and of the ECS scheduler. Nobody need press a button.
- `SerialBridge!FairSpec`: the bridge's loop runs (its calls have time-outs) and
  TCP delivers on what is not broken. The board need not send and the gateway
  need not be there.
- `UartLink!FairSpec`: the reader's thread runs. Sensors need not do anything, and
  an open without a writer blocks.
- `MqttLink!FairSpec`: the threads of libmosquitto and paho run while their
  broker is there. Broker and publishers promise nothing.
- `HvacSystem!FairSpec`: a call that has begun goes on, since its waits end after
  five seconds. Processes need not end and calls need not be made.

## 5. Proofs

TLAPS proves the following for all values of the constants allowed by the named
assumptions, thus for any number of threads, devices, meters, packets,
connections, retries, kills and requests.

| Module | Theorem | Property |
|---|---|---|
| `DBWriter_proofs` | `TypeCorrect`, `LockedSectionsAreExclusive`, `CacheIsKept`, `GivingUpIsFinal` | `TypeOK`, `LockedSectionsExclusive`, `ReloadsKeepCache`, `GaveUpIsFinal` |
| `HvacIpc_proofs` | `TypeCorrect`, `OneProcessInside`, `ReadsAreWholeCommands`, `DetachedStaysFrozen`, `IpcImplementsRegister` | `TypeOK`, `OneInside`, `WholeCommands`, `DetachedIsFrozen`, `IsRegister` |
| `TcpFraming_proofs` | `TypeCorrect`, `PacketsAreWhole`, `RealignmentNeverHappens`, `TcpIsChannel` | `TypeOK`, `WholeUntilMisread`, `NeverRealigns`, `IsChannel` |
| `TcpFraming_proofs` | `PacketsArePassedOnOnce` | no packet is in the handlers' logs twice (`AtMostOnce`) |
| `SystemMode_proofs` | `TypeCorrect`, `ModeAgrees`, `ButtonsAreEnabledAgain` | `TypeOK`, `AgreeUnlessDisturbed`, `ButtonsWaitForSwitch` |
| `SerialBridge_proofs` | `TypeCorrect`, `BytesAreKept`, `InStepOrSkipped`, `BridgeIsChannel` | `TypeOK`, `EveryByteOnce`, `InStepIffWhole`, `IsChannel` |
| `UartLink_proofs` | `TypeCorrect`, `NoPacketIsSkipped`, `FifoIsChannel` | `TypeOK`, `LossIsExplained`, `IsChannel` |
| `MqttLink_proofs` | `TypeCorrect`, `BackAtMostOncePerLoss` | `TypeOK`, `BackOncePerLoss` |
| `HvacSystem_proofs` | `TypeCorrect`, `NoProcessIsOrphaned`, `OnlyHungMetersRemain` | `TypeOK`, `NoOrphan`, `LeavesOnlyHung` |
| `HvacSystem_proofs` | `RoomStaysNear` | `StaysNear` |
| `HvacSystem_proofs` | `OvershootsHalfADegree`, `WindupStays` | the room never gets more than half a degree above the setpoint; the integral is never unwound (first half of `WindupDrivesBoth`) |
| `DBWriter_proofs` | `LockHoldIsBounded` | safety half of `LockReleased` |
| `HvacIpc_proofs` | `SectionIsLeft`, `OrphanedForGood` | safety half of `SemaphoreServes`; a lost semaphore is lost for good |
| `TcpFraming_proofs` | `ArrivalsArePassedOn` | safety half of `ArrivedIsPassedOn` |
| `HvacSystem_proofs` | `CallsAreBounded` | safety half of `CallsReturn` |
| `MqttLink_proofs` | `EndedForGood` | safety half of `ComesBack`: a thread that ended at its first connect is over for good, and the only one that ends without `stop()` |
| `UartLink_proofs` | `StrandedForGood` | second half of `FindsFifo`: a stranded reader is stranded for good, and the link with it |

The inductive invariants:

- *DBWriter.* `IInv` = types, `LockInv` (which `pc` imply owning the lock, and
  that the owner is at one of them), `LinkInv` and `SlotInv` (a thread's entry
  of the log exists and is its own while it works on it). `LinkInv` is what
  `GaveUpIsFinal` needs: who replaces the connection found it closed, the cursor is
  of no use until it is replaced as well, and until the shutdown begins a live
  cursor under a cleared `connected` belongs to a handler just before it sets the
  flag, which is past the gate. For the cache `CacheInv` adds why no reload comes
  back with too little: without overlap at most one thread is between its `SELECT`
  and its `fetchall`, and it finds its own rows, or none because another thread
  executed something; then its reload fails as a whole and leaves the cache.
- *HvacIpc.* `IInv` = types, `HandleInv` (who can hold a handle to which
  object), `FreshInv` (objects of later incarnations are untouched) and
  `OneInside`, which is inductive with these. Whole commands need `PairInv`:
  without a kill an incarnation uses the two objects it made itself. After a kill
  they need `GuardInv` (the region that has the name is guarded by the semaphore
  that has the name, or its own was never made), `RemainsInv` (cells of two
  commands are in a region only while one is being stored, or where that was cut
  short and the semaphore is lost, or where no semaphore of the same incarnation
  is known to anyone) and `SawInv` (what a meter inside has seen so far is of one
  command). The
  refinement maps `published` to the region as it will be when the stores that
  are under way are done, so it changes at the first store of a command.
- *TcpFraming.* `Streams` orders `start <= got <= sent`, `Numbers` says that the
  packets of successive connections have increasing numbers, `Alignment` where
  in a packet a handler can start after a misread (offset 3 of a V1 packet, from
  which byte 12 is again a letter of the name, so that it never shifts again),
  `Recorded` what the log can contain. At most once follows from the numbers being disjoint
  between connections and increasing on each. So does the refinement, with
  `PassedInv`, which ties the mapped packets to the frames of the logs.
- *SystemMode.* `IInv` adds to the three invariants only that `updateService` is
  called for a switch and the service is described for a read.
- *SerialBridge.* `Underway` (a block to be sent is whole and there is a
  connection for it) makes the types inductive. `ByteInv` says that the blocks cut,
  the buffer and the line, joined, are the bytes sent without the missing ones, in
  order; `EveryByteOnce` is a part of it. `BlockInv` places each block at a
  multiple of the packet's size in that sequence. A byte's number minus its place
  is the number of bytes lost before it, so a block is in step exactly if that is
  a multiple of the size. For the refinement `OrderInv` says that what the
  connections were given goes up along each and from one to the next, and that
  what is buffered is higher still: a block given to a connection is never
  given again. `ArrivedInv` ties the mapped variable to the blocks.
- *UartLink.* `FileInv` says who can have which file open, `ByteInv` that the
  bytes on their way go up and belong to packets up to the present one. The bytes
  read ahead and those in the FIFO are treated as one sequence `T`, of which
  every step takes a prefix away, adds to the end, or forgets a part whose
  packets are then `harmed`. `FrameInv` is what `LossIsExplained` lacks to be
  inductive: a packet not harmed or handled is in `T` in one piece, and its
  marker is directly before it unless the reader has just read that. A scan that
  drops a byte then never drops one of a marker. `PassedInv`: the packets
  handled come before every byte on its way.
- *MqttLink.* `TypeInv` adds `Linked` (no connection before the first
  connect) and `Known` (what the broker holds has been read) to the types.
  `BackOncePerLoss` counts descents of a sequence and is not inductive.
  `EpochInv` says that each handled reading and each one in `inbox` can be given
  an epoch, a number of losses of its publisher, such that readings go up
  within an epoch, epochs never go down, and what is still to be sent comes
  after everything of the present epoch. A loss opens a new epoch, and a descent
  takes a change of epoch, of which there are at most `lost`.

- *HvacSystem.* `IInv` = types, `NoOrphan` and `PhaseInv`, which says what the
  place of a call means: the meter is only dealt with once the controller's
  handle is given up, and whoever is past the meter's wait has no meter or one
  that was told (`Told`). That is what `LeavesOnlyHung` needs at the end, where
  nothing of the calls before is visible any more. `NoOrphan` is inductive
  with the types. `TypeOK` includes the clamps of `pid_compute`.
  `OvershootsHalfADegree` needs `HalfAbove`: the heater is off from the setpoint
  on, and below it heats no more per second than half a degree plus what is
  missing, whatever the integral is, because the proportional part shrinks with
  the distance and integral and derivative are bounded.
  `RoomStaysNear` needs the other direction, `NearInv`. A room that comes back to
  the setpoint has a heater stronger than the natural cooling, and only an
  integral of three degrees makes it so (`PowerBound`). The integral then falls
  by no more than the room's distance above the setpoint, at most a 199th of
  what is above three degrees, so three degrees are left for ever (`Wound`). With them the
  heater wins over the natural cooling two fifths of a degree below the setpoint at
  the latest (`Heats`), and the turn of the cooler that leads there is half a
  degree at most. The invariant was model-checked for `Degree` 50, 51, 56, 99,
  100 and 149 before it was proved.

Liveness under fairness is beyond the prover, but most of what makes these
properties true is not: for four of them the proofs give the number of steps
that are left (`OwnerRank`, `CRank` and `MRank`, `PassRank`, `CallRank`), that
it is bounded, that each step of the process that has to act lowers it, and that
no step of anyone else raises it. What remains to the run is that such a step is
enabled and that fairness makes it happen. `StrandedForGood` is of another kind:
`Stranded` is stable, so it is proved as the temporal formula `[](Stranded =>
[]Stranded)`, and so is `Deaf` in `EndedForGood` until `stop()` is called.

Assumptions are the named `ASSUME`s of the modules: bounds are natural numbers,
a packet has a positive size, sets of threads and topics are as declared.

Model-checked only:

- The liveness properties (`LockReleased`, `SemaphoreServes`, `ArrivedIsPassedOn`,
  `EventuallyShown`, `ForwardedOrFailed`, `PendingIsRead`, `FindsFifo`, `ComesBack`,
  `PublishedIsHandled`, `CallsReturn`), since liveness under fairness and `ENABLED`
  are beyond the prover; of six of them a part is proved as said above.
- The second half of `WindupDrivesBoth`: one of heater and cooler always runs at a
  quarter of its power. That needs an integral of some fifty degrees for ever,
  which depends on a slow drift within a cycle of two turns that is no larger than
  the rounding: no linear bound between integral, temperature and
  powers is known that is inductive. The first half is `WindupStays`.

`FlattenSeq` is a recursive function of the library. The induction theorems take
an operator as a parameter and cannot be used, so the lemmas about it look at the
least argument at which they would be false (`LeastElement`).

## 6. Disagreements

Two runs show a documented claim violated:

1. `db_restart`: "resilient to DB restart" (`db_writer.py:11`) holds only for
   outages shorter than one `connect()`. Afterwards `write_packet` returns before the reconnect.
2. `tcp_framing_v2`: the only V2 packets sent have type 4, which the detection
   (`network.py:59`) does not accept; they are cut as V1 packets.

Other disagreements show in the exceptions that the checked properties need:

- `_load_zone_cache` runs on the shared cursor without the lock. Two reloads at
  once can leave an empty cache and a registered device is dropped as unknown,
  against the docstring at `db_writer.py:140`; hence the condition of
  `ReloadsKeepCache`.
- `connect()` ends by an exception, without a retry, when the autocommit of the
  connection it has just made cannot be set, because an unlocked
  `write_hvac_state_direct` has begun a transaction on it, or the shutdown has
  closed it: the writer then stays disconnected although the server is up
  (`SetAutocommit`, `GaveUpIsFinal`).
- After a shutdown `connected` can be cleared over a connection a handler made
  meanwhile; hence the exception in `GaveUpIsFinal`.
- "Protected by semaphore" (`ipc.h`) is not true while a restarted controller
  clears or stores in a region that a meter reads under another semaphore, or
  under none; hence the zeros and the matching pair in `WholeCommands`.
- A meter that dies inside the section stops the controller's updates for good;
  hence the exception of `SemaphoreServes`.
- Two switches in opposite directions leave row and service apart although every
  call succeeded, until somebody switches again; hence `disturbed` in
  `AgreeUnlessDisturbed`.
- "Reconnects automatically if FIFO is recreated" (`uart_reader.py:75`) fails
  when the reader opened the old file between its close and its removal
  (`Stranded` in `FindsFifo`).
- "Attempting restart" (`process_manager.py:146`) is counted and not made:
  `MonitorHealth` changes nothing but the count.
- "Ziegler-Nichols tuned, anti-windup" (`README.md:31`): the clamp of 100 is not
  reached on the way to the setpoint, so what heating has wound up drives the
  cooler as well, and the steady state of `hvac_controller.c:294` is never
  reached (`WindupDrivesBoth`).
- A device whose first MQTT connect takes longer than five seconds goes on
  without MQTT for good, although its library may connect later (`PWaited`).
- The subscriber has a topic for power, and no program publishes to it.

## 7. What is not modelled

- Floating-point formulas (sensor physics, power, statistics): data, not control.
- REST queries, security and configuration of the backend: stateless.
- Live updates over WebSocket: the publisher has no caller.
- LCD driver, console output, Terraform, CI, `gateway_old.py`.
- `Terraform/lambda/package`: third-party libraries. They are by far the largest
  part of the repository's Python lines, and the only code of the system that
  uses them is a loader that is run once by hand.
- `Gateway/analytics.py` beyond its writes: each method holds the buffer's own
  lock for its whole body, so there is nothing to interleave.
- The PIC board's zones, keypad and LEDs: one thread, no interrupts, state of its
  own; a unit test reaches it.
- `uart_open_read` and `uart_read`, the FIFO's reader in C: nothing calls them.
- In the modelled parts: contents of rows other than the device and its fate,
  timestamps, wording; the gateway's start without a database (then no thread
  ever has a writer); more than one thread inside psycopg2's C code (psycopg2
  serialises calls on one connection).

## 8. Plan

Done, in the order of what each adds: `DBWriter` (the gateway's only persistent
effect, the most concurrency), `HvacIpc` with `SnapshotRegister` (crash recovery,
refinement), `TcpFraming` (unreliable delivery), `SystemMode` (partial failure,
several users), `SerialBridge` and `UartLink` with `PacketChannel` (streams that
resynchronise or do not), `MqttLink` (reconnects), `ProcessManager` and
`PidControl`, composed in `HvacSystem`.

Left:

1. Proofs: that a packet of `SerialBridge` is missing only for a lost byte or a
   failed send, and how much heater and cooler work against each other once the
   integral is wound up.
2. `ProcessManager` composed with `HvacIpc`, so that the manager's kills are the
   crashes of the shared memory's processes.
3. The circular buffer's eviction against the statistics over it, and the PIC
   board's zones, if they get more than one thread.
