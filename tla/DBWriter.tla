------------------------------ MODULE DBWriter ------------------------------
(***************************************************************************)
(* The gateway's PostgreSQL writer (Gateway/db_writer.py) together with    *)
(* every thread of the gateway that calls it: the TCP client handlers      *)
(* (network.py), the MQTT subscriber (mqtt_subscriber.py) and the          *)
(* analytics engine (analytics.py).                                        *)
(*                                                                         *)
(* All of them share one psycopg2 connection, ONE cursor, one zone cache   *)
(* and one lock.  Only three of the writer's methods take the lock; zone   *)
(* lookups, the subscriber's writes and write_hvac_state_direct do not.    *)
(* A step of the model is what runs between two points at which another    *)
(* thread can be scheduled: one round trip to the server, or one read or   *)
(* assignment of a shared attribute.                                       *)
(*                                                                         *)
(* The server and psycopg2 are external: they are modelled by what         *)
(* db_writer.py relies on.  A zone id is a fixed function of the device,   *)
(* so the cache is the set of device ids it holds.                         *)
(***************************************************************************)
EXTENDS Naturals, Sequences

CONSTANTS
    Handlers,       \* ClientHandler threads, one per TCP client
    Subscribers,    \* the MQTT network thread
    Analysts,       \* the analytics thread
    Devices,        \* every device id that sends or is looked up
    Registered,     \* rows of the devices table when the gateway starts
    KindOf,         \* the packet type a device sends
    ZoneADevice,    \* 'TEMP_A', which analytics looks up for its zone
    MaxRetries,     \* MAX_RETRIES, 10 in the code
    ClosedCheck,    \* can conn.isolation_level raise on a closed connection?
    MaxPackets,     \* bound: packets and messages received
    MaxOutages,     \* bound: server outages
    NoThread        \* the lock's owner when it is free

Kinds == {"temp", "occ", "power", "hvac"}
Threads == Handlers \cup Subscribers \cup Analysts

ASSUME ThreadAssumption ==
    /\ Handlers \cap Subscribers = {}
    /\ Handlers \cap Analysts = {}
    /\ Subscribers \cap Analysts = {}
    /\ NoThread \notin Threads

ASSUME DeviceAssumption ==
    /\ Registered \subseteq Devices
    /\ ZoneADevice \in Registered
    /\ KindOf \in [Devices -> Kinds]

ASSUME BoundAssumption ==
    /\ MaxRetries \in Nat \ {0}
    /\ MaxPackets \in Nat
    /\ MaxOutages \in Nat
    /\ ClosedCheck \in SUBSET BOOLEAN /\ ClosedCheck # {}

VARIABLES
    dbUp,       \* the server accepts connections
    outages,    \* outages so far
    devices,    \* the devices table
    link,       \* self.conn: "ok", "stale" (server gone, unnoticed), "closed"
    txn,        \* its mode: "auto", "manual", "begun" (a transaction is open)
    cursor,     \* self.cursor: is it open, and its pending result
    connected,  \* self.connected
    cache,      \* self._zone_cache
    lock,       \* self.lock
    seen,       \* the packet types in the circular buffer
    log,        \* what became of each packet or message, in order of arrival
    pc,         \* where each thread is
    job,        \* which write the thread is performing
    dev,        \* the device it is performed for
    slot,       \* the entry of log it is performed for
    loaded,     \* rows fetched, not yet assigned to the cache
    attempt,    \* connect()'s attempt counter
    closing,    \* what the main thread does next in disconnect()
    overlapped, \* history: a SELECT of the cache overtook another's fetch
    todo        \* types the analytics report has still to persist

vars == <<dbUp, outages, devices, link, txn, cursor, connected, cache, lock,
          seen, log, pc, job, dev, slot, loaded, attempt, closing, overlapped,
          todo>>

dbVars == <<dbUp, outages, devices>>
connVars == <<link, txn, cursor, connected>>
auxVars == <<closing, overlapped>>
localVars == <<dev, slot, loaded, attempt, todo>>

(***************************************************************************)
(* psycopg2.  A cursor holds no result set (after an INSERT, an error, or  *)
(* when new) or the rows of its last SELECT that are not fetched yet.      *)
(* fetchall() raises in the first case and leaves no row in the second.    *)
(* A cursor that was closed, or belongs to a connection that was closed    *)
(* and replaced, raises before anything is sent.                           *)
(***************************************************************************)
NoResult == [open |-> TRUE, has |-> FALSE, rows |-> {}]
Rows(S) == [open |-> TRUE, has |-> TRUE, rows |-> S]
Unusable == [open |-> FALSE, has |-> FALSE, rows |-> {}]

\* The connection after a statement was sent on it: the first statement on a
\* dead session fails, and marks the connection closed.
AfterSend == IF link = "stale" THEN "closed" ELSE link

\* self.cursor.execute(), which leaves the given result if it succeeds.
Execute(result) ==
    IF cursor.open
    THEN /\ link' = AfterSend
         /\ cursor' = IF link = "ok" THEN result ELSE NoResult
    ELSE UNCHANGED <<link, cursor>>

PCs == {"idle", "gate", "check", "select", "fetch", "assign", "get",
        "acquire", "health", "lost", "connect", "autocommit", "cursor",
        "flag", "write", "commit", "report"}
Jobs == {"packet", "message", "direct", "event", "snapshot"}
Fates == {"pending", "stored", "unknown", "offline", "lost"}

\* The writes that are made while holding the lock.
LockedJobs == {"packet", "event", "snapshot"}

Init ==
    /\ dbUp = TRUE
    /\ outages = 0
    /\ devices = Registered
    /\ link = "ok"
    /\ txn = "auto"
    /\ cursor = Rows({})          \* the preload's SELECT, fetched
    /\ connected = TRUE
    /\ cache = Registered
    /\ lock = NoThread
    /\ seen = {}
    /\ log = <<>>
    /\ pc = [t \in Threads |-> "idle"]
    /\ job = [t \in Threads |-> "packet"]
    /\ dev = [t \in Threads |-> ZoneADevice]
    /\ slot = [t \in Threads |-> 0]
    /\ loaded = [t \in Threads |-> {}]
    /\ attempt = [t \in Threads |-> 0]
    /\ closing = "no"
    /\ overlapped = FALSE
    /\ todo = [t \in Threads |-> {}]

Goto(t, l) == pc' = [pc EXCEPT ![t] = l]
Settle(t, fate) == log' = [log EXCEPT ![slot[t]].fate = fate]

\* The method performing job[t] returns to its caller, whether it wrote,
\* skipped or swallowed an exception.  A handler goes on from write_packet to
\* _check_temperature_and_trigger when the packet is a temperature, and there
\* from the state row to the event unless the temperature is in the stable
\* band; the analytics thread goes on to the next packet type.
Return(t) ==
    \/ /\ job[t] = "packet"
       /\ KindOf[dev[t]] = "temp"
       /\ job' = [job EXCEPT ![t] = "direct"]
       /\ Goto(t, "check")
    \/ /\ job[t] = "packet"
       /\ KindOf[dev[t]] # "temp"
       /\ Goto(t, "idle")
       /\ UNCHANGED job
    \/ /\ job[t] \in {"message", "event"}
       /\ Goto(t, "idle")
       /\ UNCHANGED job
    \/ /\ job[t] = "snapshot"
       /\ Goto(t, "report")
       /\ UNCHANGED job

----------------------------------------------------------------------------
(* Arrivals *)

\* ClientHandler.handle: a parsed packet is added to the circular buffer and
\* handed to write_packet.
ReceivePacket(t, d) ==
    /\ pc[t] = "idle"
    /\ t \in Handlers
    /\ Len(log) < MaxPackets
    /\ seen' = seen \cup {KindOf[d]}
    /\ log' = Append(log, [dev |-> d, fate |-> "pending"])
    /\ slot' = [slot EXCEPT ![t] = Len(log) + 1]
    /\ dev' = [dev EXCEPT ![t] = d]
    /\ job' = [job EXCEPT ![t] = "packet"]
    /\ Goto(t, "gate")
    /\ UNCHANGED <<dbVars, auxVars, connVars, cache, lock, loaded, attempt, todo>>

\* MQTTSubscriber._on_message: straight to the zone lookup, without the
\* connected check and without the circular buffer.
ReceiveMessage(t, d) ==
    /\ pc[t] = "idle"
    /\ t \in Subscribers
    /\ Len(log) < MaxPackets
    /\ log' = Append(log, [dev |-> d, fate |-> "pending"])
    /\ slot' = [slot EXCEPT ![t] = Len(log) + 1]
    /\ dev' = [dev EXCEPT ![t] = d]
    /\ job' = [job EXCEPT ![t] = "message"]
    /\ Goto(t, "check")
    /\ UNCHANGED <<dbVars, auxVars, connVars, cache, lock, seen, loaded, attempt, todo>>

\* AnalyticsEngine._generate_report: the statistics of the buffered types.
StartReport(t) ==
    /\ pc[t] = "idle"
    /\ t \in Analysts
    /\ seen # {}
    /\ closing = "no"             \* analytics.stop() comes before disconnect()
    /\ todo' = [todo EXCEPT ![t] = seen]
    /\ Goto(t, "report")
    /\ UNCHANGED <<dbVars, auxVars, connVars, cache, lock, seen, log, job, dev, slot,
                   loaded, attempt>>

\* One turn of the report's loop: _get_zone_a_id looks TEMP_A up when the
\* cache is not empty, else the type is skipped.
ReportNext(t) ==
    /\ pc[t] = "report"
    /\ IF todo[t] = {}
       THEN /\ Goto(t, "idle")
            /\ UNCHANGED <<job, dev, todo>>
       ELSE \E k \in todo[t] :
            /\ todo' = [todo EXCEPT ![t] = @ \ {k}]
            /\ job' = [job EXCEPT ![t] = "snapshot"]
            /\ dev' = [dev EXCEPT ![t] = ZoneADevice]
            /\ Goto(t, IF cache = {} THEN "report" ELSE "check")
    /\ UNCHANGED <<dbVars, auxVars, connVars, cache, lock, seen, log, slot, loaded,
                   attempt>>

----------------------------------------------------------------------------
(* Zone lookup: _get_zone_id and _load_zone_cache, without the lock *)

\* Mutant of Gate: the connected check is dropped.
GateOpen(t) ==
    /\ pc[t] = "gate"
    /\ Goto(t, IF job[t] = "packet" THEN "check" ELSE "acquire")
    /\ UNCHANGED <<dbVars, auxVars, connVars, cache, lock, seen, log, job, localVars>>

\* `if not self.connected: return`, read before the lock is taken.
Gate(t) ==
    /\ pc[t] = "gate"
    /\ IF connected
       THEN /\ Goto(t, IF job[t] = "packet" THEN "check" ELSE "acquire")
            /\ UNCHANGED <<job, log>>
       ELSE /\ IF job[t] = "packet" THEN Settle(t, "offline") ELSE UNCHANGED log
            /\ Return(t)
    /\ UNCHANGED <<dbVars, auxVars, connVars, cache, lock, seen, dev, slot, loaded,
                   attempt, todo>>

\* `if device_id not in self._zone_cache`.
CheckCache(t) ==
    /\ pc[t] = "check"
    /\ Goto(t, IF dev[t] \in cache THEN "get" ELSE "select")
    /\ UNCHANGED <<dbVars, auxVars, connVars, cache, lock, seen, log, job, localVars>>

\* Where _load_zone_cache returns to: it is called under the lock by connect()
\* alone, which write_packet continues with the write; else by _get_zone_id.
AfterLoad(t) == IF lock = t THEN "write" ELSE "get"

\* self.cursor.execute("SELECT device_id, zone_id FROM devices").
Select(t) ==
    /\ pc[t] = "select"
    /\ Execute(Rows(devices))
    /\ Goto(t, IF cursor.open /\ link = "ok" THEN "fetch" ELSE AfterLoad(t))
    /\ overlapped' = (overlapped \/ \E u \in Threads \ {t} : pc[u] = "fetch")
    /\ UNCHANGED <<dbVars, closing, txn, connected, cache, lock, seen, log, job,
                   localVars>>

\* Mutant of Fetch: a failed load yields no rows instead of leaving the cache.
FetchOrEmpty(t) ==
    /\ pc[t] = "fetch"
    /\ loaded' = [loaded EXCEPT ![t] = IF cursor.has THEN cursor.rows ELSE {}]
    /\ cursor' = Rows({})
    /\ Goto(t, "assign")
    /\ UNCHANGED <<dbVars, auxVars, link, txn, connected, cache, lock, seen, log,
                   job, dev, slot, attempt, todo>>

\* self.cursor.fetchall(): whatever the shared cursor holds by now.
Fetch(t) ==
    /\ pc[t] = "fetch"
    /\ IF link # "closed" /\ cursor.has
       THEN /\ loaded' = [loaded EXCEPT ![t] = cursor.rows]
            /\ cursor' = Rows({})
            /\ Goto(t, "assign")
       ELSE /\ Goto(t, AfterLoad(t))
            /\ UNCHANGED <<loaded, cursor>>
    /\ UNCHANGED <<dbVars, auxVars, link, txn, connected, cache, lock, seen, log,
                   job, dev, slot, attempt, todo>>

\* Mutant of Assign: the rows are kept as they come, not as a dict by device.
AssignRows(t) ==
    /\ pc[t] = "assign"
    /\ cache' = {<<d, d>> : d \in loaded[t]}
    /\ loaded' = [loaded EXCEPT ![t] = {}]
    /\ Goto(t, AfterLoad(t))
    /\ UNCHANGED <<dbVars, auxVars, connVars, lock, seen, log, job, dev, slot, attempt,
                   todo>>

\* self._zone_cache = {...}.
Assign(t) ==
    /\ pc[t] = "assign"
    /\ cache' = loaded[t]
    /\ loaded' = [loaded EXCEPT ![t] = {}]
    /\ Goto(t, AfterLoad(t))
    /\ UNCHANGED <<dbVars, auxVars, connVars, lock, seen, log, job, dev, slot,
                   attempt, todo>>

\* `return self._zone_cache.get(device_id)` and the caller's test of it.
GetZone(t) ==
    /\ pc[t] = "get"
    /\ IF dev[t] \in cache
       THEN /\ Goto(t, CASE job[t] = "packet"   -> "acquire"
                         [] job[t] = "snapshot" -> "gate"
                         [] OTHER               -> "write")
            /\ UNCHANGED <<job, log>>
       ELSE /\ IF job[t] \in {"packet", "message"}
               THEN Settle(t, "unknown") ELSE UNCHANGED log
            /\ IF job[t] = "direct"
               THEN Goto(t, "idle") /\ UNCHANGED job
               ELSE Return(t)
    /\ UNCHANGED <<dbVars, auxVars, connVars, cache, lock, seen, localVars>>

----------------------------------------------------------------------------
(* Locked and unlocked writes *)

\* `with self.lock`; only write_packet goes on to _reconnect_if_needed.
Acquire(t) ==
    /\ pc[t] = "acquire"
    /\ lock = NoThread
    /\ lock' = t
    /\ Goto(t, IF job[t] = "packet" THEN "health" ELSE "write")
    /\ UNCHANGED <<dbVars, auxVars, connVars, cache, seen, log, job, localVars>>

\* _reconnect_if_needed: conn.isolation_level makes no round trip, so a dead
\* session that nobody used yet passes.
HealthCheck(t) ==
    /\ pc[t] = "health"
    /\ \E raises \in IF link = "closed" THEN ClosedCheck ELSE {FALSE} :
         Goto(t, IF raises THEN "lost" ELSE "write")
    /\ UNCHANGED <<dbVars, auxVars, connVars, cache, lock, seen, log, job,
                   localVars>>

\* self.connected = False, and the call of connect().
MarkLost(t) ==
    /\ pc[t] = "lost"
    /\ connected' = FALSE
    /\ attempt' = [attempt EXCEPT ![t] = 1]
    /\ Goto(t, "connect")
    /\ UNCHANGED <<dbVars, auxVars, link, txn, cursor, cache, lock, seen, log,
                   job, dev, slot, loaded, todo>>

\* connect(): self.conn = psycopg2.connect().  From here on the unlocked
\* threads use the new connection; the old cursor belongs to the old one.
InstallConn(t) ==
    /\ pc[t] = "connect"
    /\ dbUp
    /\ link' = "ok"
    /\ txn' = "manual"
    /\ cursor' = Unusable
    /\ Goto(t, "autocommit")
    /\ UNCHANGED <<dbVars, auxVars, connected, cache, lock, seen, log, job,
                   localVars>>

\* An exception that is no OperationalError leaves connect() and the `with`
\* block: write_packet swallows it, and the packet is lost.
Escape(t) ==
    /\ Settle(t, "lost")
    /\ lock' = NoThread
    /\ Return(t)

\* self.conn.autocommit = True raises on a connection that disconnect() closed
\* meanwhile, and inside a transaction that a write_hvac_state_direct began.
SetAutocommit(t) ==
    /\ pc[t] = "autocommit"
    /\ IF link = "closed" \/ txn = "begun"
       THEN /\ Escape(t)
            /\ UNCHANGED txn
       ELSE /\ txn' = "auto"
            /\ Goto(t, "cursor")
            /\ UNCHANGED <<lock, log, job>>
    /\ UNCHANGED <<dbVars, auxVars, link, cursor, connected, cache, seen,
                   localVars>>

\* self.cursor = self.conn.cursor(), which raises on a closed connection.
InstallCursor(t) ==
    /\ pc[t] = "cursor"
    /\ IF link = "closed"
       THEN /\ Escape(t)
            /\ UNCHANGED cursor
       ELSE /\ cursor' = NoResult
            /\ Goto(t, "flag")
            /\ UNCHANGED <<lock, log, job>>
    /\ UNCHANGED <<dbVars, auxVars, link, txn, connected, cache, seen, localVars>>

\* self.connected = True, and the call of _load_zone_cache, still under the
\* lock.
MarkConnected(t) ==
    /\ pc[t] = "flag"
    /\ connected' = TRUE
    /\ Goto(t, "select")
    /\ UNCHANGED <<dbVars, auxVars, link, txn, cursor, cache, lock, seen, log,
                   job, localVars>>

\* Mutants of ConnectFails: the lock is given back while connect() sleeps; the
\* attempt counter does not advance.
ConnectFailsUnlocked(t) ==
    /\ pc[t] = "connect"
    /\ ~dbUp
    /\ attempt[t] < MaxRetries
    /\ attempt' = [attempt EXCEPT ![t] = @ + 1]
    /\ lock' = NoThread
    /\ UNCHANGED <<dbVars, auxVars, connVars, cache, seen, log, pc, job, dev, slot,
                   loaded, todo>>

ConnectFailsForever(t) ==
    /\ pc[t] = "connect"
    /\ ~dbUp
    /\ UNCHANGED vars

\* connect(): a failed attempt; after MAX_RETRIES of them it returns False,
\* which _reconnect_if_needed ignores.
ConnectFails(t) ==
    /\ pc[t] = "connect"
    /\ ~dbUp
    /\ IF attempt[t] < MaxRetries
       THEN /\ attempt' = [attempt EXCEPT ![t] = @ + 1]
            /\ UNCHANGED pc
       ELSE /\ Goto(t, "write")
            /\ UNCHANGED attempt
    /\ UNCHANGED <<dbVars, auxVars, connVars, cache, lock, seen, log, job, dev, slot,
                   loaded, todo>>

\* _write_occupancy passes five parameters for four placeholders: execute()
\* raises before anything is sent.
Unsendable(t) ==
    job[t] \in {"packet", "message"} /\ KindOf[dev[t]] = "occ"

\* self.cursor.execute("INSERT ...") and, for a locked job, the end of the
\* `with`.
Write(t) ==
    /\ pc[t] = "write"
    /\ job[t] # "direct"
    /\ IF Unsendable(t) THEN UNCHANGED <<link, cursor>> ELSE Execute(NoResult)
    /\ IF job[t] \in {"packet", "message"}
       THEN Settle(t, IF link = "ok" /\ cursor.open /\ ~Unsendable(t)
                      THEN "stored" ELSE "lost")
       ELSE UNCHANGED log
    /\ lock' = IF job[t] \in LockedJobs THEN NoThread ELSE lock
    /\ Return(t)
    /\ UNCHANGED <<dbVars, auxVars, txn, connected, cache, seen, localVars>>

\* write_hvac_state_direct returns, whether it wrote or swallowed an exception:
\* the event follows unless the temperature is in the stable band.
DirectReturns(t) ==
    \/ /\ job' = [job EXCEPT ![t] = "event"]
       /\ Goto(t, "gate")
    \/ /\ Goto(t, "idle")
       /\ UNCHANGED job

\* write_hvac_state_direct takes no lock and executes on a cursor of its own,
\* which begins a transaction on a connection without autocommit.
DirectInsert(t) ==
    /\ pc[t] = "write"
    /\ job[t] = "direct"
    /\ link' = AfterSend
    /\ IF link = "ok"
       THEN /\ txn' = IF txn = "auto" THEN "auto" ELSE "begun"
            /\ Goto(t, "commit")
            /\ UNCHANGED job
       ELSE /\ DirectReturns(t)
            /\ UNCHANGED txn
    /\ UNCHANGED <<dbVars, auxVars, cursor, connected, cache, lock, seen, log,
                   localVars>>

\* self.conn.commit(): of whatever self.conn is by now; a round trip if a
\* transaction is open.
DirectCommit(t) ==
    /\ pc[t] = "commit"
    /\ IF txn = "begun"
       THEN txn' = "manual" /\ link' = AfterSend
       ELSE UNCHANGED <<txn, link>>
    /\ DirectReturns(t)
    /\ UNCHANGED <<dbVars, auxVars, cursor, connected, cache, lock, seen, log,
                   localVars>>

----------------------------------------------------------------------------
(* The server, the table's owner and the gateway's shutdown *)

DbStops ==
    /\ dbUp
    /\ outages < MaxOutages
    /\ dbUp' = FALSE
    /\ outages' = outages + 1
    /\ link' = IF link = "ok" THEN "stale" ELSE link
    /\ UNCHANGED <<devices, auxVars, txn, cursor, connected, cache, lock, seen,
                   log, pc, job, localVars>>

DbStarts ==
    /\ ~dbUp
    /\ dbUp' = TRUE
    /\ UNCHANGED <<outages, devices, auxVars, connVars, cache, lock, seen, log,
                   pc, job, localVars>>

\* A row is inserted into the devices table (schema.sql or an operator).
Register(d) ==
    /\ d \notin devices
    /\ dbUp
    /\ devices' = devices \cup {d}
    /\ UNCHANGED <<dbUp, outages, auxVars, connVars, cache, lock, seen, log, pc,
                   job, localVars>>

\* DBWriter.disconnect, called by run_gateway's cleanup without the lock while
\* the daemon threads still run: the cursor, the connection, the flag.
CloseCursor ==
    /\ closing = "no"
    /\ closing' = "conn"
    /\ cursor' = Unusable
    /\ UNCHANGED <<dbVars, overlapped, link, txn, connected, cache, lock, seen,
                   log, pc, job, localVars>>

CloseConn ==
    /\ closing = "conn"
    /\ closing' = "flag"
    /\ link' = "closed"
    /\ UNCHANGED <<dbVars, overlapped, txn, cursor, connected, cache, lock, seen,
                   log, pc, job, localVars>>

MarkDisconnected ==
    /\ closing = "flag"
    /\ closing' = "done"
    /\ connected' = FALSE
    /\ UNCHANGED <<dbVars, overlapped, link, txn, cursor, cache, lock, seen, log,
                   pc, job, localVars>>

Step(t) ==
    \/ Gate(t) \/ CheckCache(t) \/ Select(t) \/ Fetch(t) \/ Assign(t)
    \/ GetZone(t) \/ Acquire(t) \/ HealthCheck(t) \/ MarkLost(t)
    \/ InstallConn(t) \/ ConnectFails(t) \/ SetAutocommit(t)
    \/ InstallCursor(t) \/ MarkConnected(t) \/ Write(t) \/ DirectInsert(t)
    \/ DirectCommit(t) \/ ReportNext(t)

Next ==
    \/ \E t \in Threads : Step(t) \/ StartReport(t)
    \/ \E t \in Threads, d \in Devices : ReceivePacket(t, d) \/ ReceiveMessage(t, d)
    \/ \E d \in Devices : Register(d)
    \/ DbStops \/ DbStarts
    \/ CloseCursor \/ CloseConn \/ MarkDisconnected

Spec == Init /\ [][Next]_vars

\* Every thread that can take a step takes it: a socket call to the server ends
\* or fails, and the scheduler runs every thread.  Nothing is assumed of the
\* lock's queue, of the server's return or of the clients.
FairSpec == Spec /\ \A t \in Threads : WF_vars(Step(t))

----------------------------------------------------------------------------
(* Properties *)

\* Type invariant.
TypeOK ==
    /\ dbUp \in BOOLEAN /\ connected \in BOOLEAN /\ overlapped \in BOOLEAN
    /\ closing \in {"no", "conn", "flag", "done"}
    /\ outages \in Nat
    /\ devices \in SUBSET Devices /\ cache \in SUBSET Devices
    /\ link \in {"ok", "stale", "closed"}
    /\ txn \in {"auto", "manual", "begun"}
    /\ cursor \in [open : BOOLEAN, has : BOOLEAN, rows : SUBSET Devices]
    /\ lock \in Threads \cup {NoThread}
    /\ seen \in SUBSET Kinds
    /\ log \in Seq([dev : Devices, fate : Fates])
    /\ pc \in [Threads -> PCs]
    /\ job \in [Threads -> Jobs]
    /\ dev \in [Threads -> Devices]
    /\ slot \in [Threads -> Nat]
    /\ loaded \in [Threads -> SUBSET Devices]
    /\ attempt \in [Threads -> Nat]
    /\ todo \in [Threads -> SUBSET Kinds]

\* Thread t is between the start and the end of a `with self.lock` block.
InLockedSection(t) ==
    \/ pc[t] \in {"health", "lost", "connect", "autocommit", "cursor", "flag"}
    \/ pc[t] = "write" /\ job[t] \in LockedJobs

\* The three locked methods exclude each other: whoever is inside a locked
\* section owns the lock, so no two threads ever are (db_writer.py, the `with
\* self.lock` blocks), through reconnection and cache reload included.
LockedSectionsExclusive ==
    \A t \in Threads : InLockedSection(t) => lock = t

\* A handler that has passed write_packet's connected check and is not through.
PastGate(t) ==
    job[t] = "packet" /\ pc[t] \notin {"idle", "gate", "report"}

\* The writer reads disconnected and no packet is past its connected check.
GaveUp == ~connected /\ \A t \in Threads : ~PastGate(t)

\* A statement on the shared cursor reaches a server, or did so until now.
Live == cursor.open /\ link # "closed"

Stored == {i \in DOMAIN log : log[i].fate = "stored"}

\* Once connect() has used up its retries, or an exception has ended it, and the
\* packets that had passed write_packet's connected check are through, the
\* shared cursor is dead, and no step ever makes it live again or stores a
\* reading, whoever takes it and however often the server comes back: the
\* connected check is made before the only code that could set connected.
\* Shutdown comes to the same end with one exception: when disconnect() closes
\* the old connection, clears connected last, and a handler installed a new
\* connection in between, the writer reads disconnected over a live cursor; no
\* packet is stored then either, but messages still are.
GaveUpIsFinal ==
    /\ [](GaveUp /\ closing = "no" => ~Live)
    /\ [][GaveUp =>
            /\ GaveUp'
            /\ Stored' \ Stored \subseteq {slot[t] : t \in Subscribers}
            /\ ~Live => ~Live' /\ Stored' = Stored]_vars

\* As long as no thread's SELECT of the devices overtook another's fetch, no
\* device registered at the start is ever lost from the zone cache, and none of
\* its readings is dropped as unknown: not by reloads that fail, nor by the
\* INSERTs of other threads on the cursor that is being read, nor by a
\* reconnection in the middle of a reload.
ReloadsKeepCache ==
    ~overlapped =>
        /\ Registered \subseteq cache
        /\ \A i \in DOMAIN log :
             log[i].fate = "unknown" => log[i].dev \notin Registered

\* connect() is called with the lock held and may sleep through an outage, but
\* it gives up in the end: a handler that owns the lock always releases it.
LockReleased == \A t \in Threads : (lock = t) ~> (lock # t)

\* The module's promise "Retry connection on failure (resilient to DB
\* restart)": while the server is up and the gateway is not shutting down, the
\* writer has not given the connection up for good.
ResilientToDbRestart == ~(dbUp /\ closing = "no" /\ GaveUp)
=============================================================================
