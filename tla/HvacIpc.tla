------------------------------- MODULE HvacIpc -------------------------------
(***************************************************************************)
(* The shared memory between hvac_controller (writer) and power_meter      *)
(* (reader): Embedded/ipc.c, hvac_controller.c and power_meter.c.          *)
(*                                                                         *)
(* The kernel objects outlive the processes: a name leads to an object     *)
(* until it is unlinked, an object lives on while it is mapped or open.  A *)
(* controller incarnation creates at most one region and one semaphore,    *)
(* so an object is named by the incarnation that created it, and 0 is no   *)
(* object.  The controller can be stopped by a signal it handles (it       *)
(* unlinks both names) or killed (it does not), a meter has no handler and *)
(* just dies; each at any point, the locked sections included.             *)
(*                                                                         *)
(* The command is its two actuator percentages.  Temperature, setpoint and *)
(* timestamp are stored with them and read by nobody.                      *)
(***************************************************************************)
EXTENDS Naturals

CONSTANTS
    Meters,         \* power_meter processes
    Levels,         \* the outputs of the PID, 0 among them
    OpenRetries,    \* attempts of ipc_open_shm, 5 in the code
    MaxGen,         \* bound: incarnations of the controller
    MaxCrashes      \* bound: times the controller is killed

ASSUME LevelAssumption == Levels \subseteq Nat /\ 0 \in Levels
ASSUME BoundAssumption ==
    OpenRetries \in Nat \ {0} /\ MaxGen \in Nat \ {0} /\ MaxCrashes \in Nat

VARIABLES
    gen,        \* incarnations of the controller so far
    crashes,    \* times the controller was killed
    shmName,    \* the region SHM_NAME leads to
    semName,    \* the semaphore SEM_NAME leads to
    sized,      \* regions that ftruncate has given their size
    region,     \* contents of each region
    sem,        \* value of each semaphore
    orphaned,   \* history: semaphores some process held when it died
    cpc,        \* where the controller is
    cshm,       \* g_shm_state
    csem,       \* g_sem
    image,      \* what the controller is storing
    todo,       \* the cells it has still to store
    mpc,        \* where each meter is
    mshm,       \* shm in the meter's main
    msem,       \* sem in the meter's main
    tries,      \* failed attempts of ipc_open_shm
    pct         \* the load read so far

kernelVars == <<shmName, semName, sized>>
ctrlVars == <<gen, crashes, cpc, cshm, csem, image, todo>>
meterVars == <<mpc, mshm, msem, tries, pct>>
vars == <<kernelVars, region, sem, orphaned, ctrlVars, meterVars>>

Objects == 1..MaxGen

Cells == {"heater", "cooler", "valid"}
Blank == [f \in Cells |-> 0]

\* run_hvac_loop drives one side and sets the other to 0.
Command(h, c) ==
    [f \in Cells |-> IF f = "heater" THEN h ELSE IF f = "cooler" THEN c ELSE 1]
Commands == {Command(u, 0) : u \in Levels} \cup {Command(0, u) : u \in Levels}

\* get_hvac_percentage: the heater's percentage if it runs, else the cooler's.
Load(i) == IF i["heater"] > 0 THEN i["heater"] ELSE i["cooler"]

CtrlPCs == {"down", "create_sem", "create_shm", "truncate", "clear", "compute",
            "wait", "store", "post", "unlink_shm", "unlink_sem"}
MeterPCs == {"off", "open_sem", "open_shm", "check", "wait", "read", "reread",
             "post"}

\* Between sem_wait and sem_post.
CInside == cpc \in {"store", "post"}
MInside(m) == mpc[m] \in {"read", "reread", "post"}

Init ==
    /\ gen = 0 /\ crashes = 0
    /\ shmName = 0 /\ semName = 0
    /\ sized = {}
    /\ region = [r \in Objects |-> Blank]
    /\ sem = [s \in Objects |-> 0]
    /\ orphaned = {}
    /\ cpc = "down" /\ cshm = 0 /\ csem = 0
    /\ image = Blank /\ todo = {}
    /\ mpc = [m \in Meters |-> "off"]
    /\ mshm = [m \in Meters |-> 0]
    /\ msem = [m \in Meters |-> 0]
    /\ tries = [m \in Meters |-> 0]
    /\ pct = [m \in Meters |-> 0]

----------------------------------------------------------------------------
(* hvac_controller *)

\* main, to the first IPC call.
Start ==
    /\ cpc = "down"
    /\ gen < MaxGen
    /\ gen' = gen + 1
    /\ cpc' = "create_sem"
    /\ todo' = {} /\ image' = Blank
    /\ UNCHANGED <<kernelVars, region, sem, crashes, cshm, csem, meterVars, orphaned>>

\* Mutant of CreateSem: the semaphore is set to 1 even when it exists.
CreateSemReset ==
    /\ cpc = "create_sem"
    /\ csem' = IF semName = 0 THEN gen ELSE semName
    /\ semName' = csem'
    /\ sem' = [sem EXCEPT ![csem'] = 1]
    /\ cpc' = "create_shm"
    /\ UNCHANGED <<shmName, sized, region, gen, crashes, cshm, image, todo, meterVars, orphaned>>

\* ipc_create_sem: sem_open(O_CREAT, 1) initialises a new semaphore only.
CreateSem ==
    /\ cpc = "create_sem"
    /\ csem' = IF semName = 0 THEN gen ELSE semName
    /\ semName' = csem'
    /\ sem' = IF semName = 0 THEN [sem EXCEPT ![gen] = 1] ELSE sem
    /\ cpc' = "create_shm"
    /\ UNCHANGED <<shmName, sized, region, gen, crashes, cshm, image, todo, meterVars, orphaned>>

\* ipc_create_shm: shm_open(O_CREAT); a new object is empty.
CreateShm ==
    /\ cpc = "create_shm"
    /\ cshm' = IF shmName = 0 THEN gen ELSE shmName
    /\ shmName' = cshm'
    /\ cpc' = "truncate"
    /\ UNCHANGED <<semName, sized, region, sem, gen, crashes, csem, image, todo, meterVars, orphaned>>

\* ipc_create_shm: ftruncate and mmap.  The memset that follows is not under
\* the semaphore.
Truncate ==
    /\ cpc = "truncate"
    /\ sized' = sized \cup {cshm}
    /\ image' = Blank
    /\ todo' = Cells
    /\ cpc' = "clear"
    /\ UNCHANGED <<shmName, semName, region, sem, gen, crashes, cshm, csem, meterVars, orphaned>>

\* One store of memset, or of the assignments under the semaphore; between two
\* synchronisation points the compiler may order them as it likes.
Store(f) ==
    /\ cpc \in {"clear", "store"}
    /\ f \in todo
    /\ region' = [region EXCEPT ![cshm] = [@ EXCEPT ![f] = image[f]]]
    /\ todo' = todo \ {f}
    /\ cpc' = IF todo' # {} THEN cpc
              ELSE IF cpc = "clear" THEN "compute" ELSE "post"
    /\ UNCHANGED <<kernelVars, sem, gen, crashes, cshm, csem, image, meterVars, orphaned>>

\* run_hvac_loop, an iteration up to sem_wait.
Compute ==
    /\ cpc = "compute"
    /\ image' \in Commands
    /\ cpc' = "wait"
    /\ UNCHANGED <<kernelVars, region, sem, gen, crashes, cshm, csem, todo, meterVars, orphaned>>

Wait ==
    /\ cpc = "wait"
    /\ sem[csem] > 0
    /\ sem' = [sem EXCEPT ![csem] = @ - 1]
    /\ todo' = Cells
    /\ cpc' = "store"
    /\ UNCHANGED <<kernelVars, region, gen, crashes, cshm, csem, image, meterVars, orphaned>>

Post ==
    /\ cpc = "post"
    /\ sem' = [sem EXCEPT ![csem] = @ + 1]
    /\ cpc' = "compute"
    /\ UNCHANGED <<kernelVars, region, gen, crashes, cshm, csem, image, todo, meterVars, orphaned>>

\* handle_signal interrupts the program wherever it is.
Terminate ==
    /\ cpc \notin {"down", "unlink_shm", "unlink_sem"}
    /\ cpc' = "unlink_shm"
    /\ orphaned' = IF CInside THEN orphaned \cup {csem} ELSE orphaned
    /\ UNCHANGED <<kernelVars, region, sem, gen, crashes, cshm, csem, image, todo, meterVars>>

\* ipc_destroy_shm, called by handle_signal: shm_unlink, then sem_unlink, and
\* the process exits.
UnlinkShm ==
    /\ cpc = "unlink_shm"
    /\ shmName' = 0
    /\ cpc' = "unlink_sem"
    /\ UNCHANGED <<semName, sized, region, sem, gen, crashes, cshm, csem, image, todo, meterVars, orphaned>>

\* Mutant of UnlinkSem: the handler returns instead of exiting.
UnlinkSemReturn ==
    /\ cpc = "unlink_sem"
    /\ semName' = 0
    /\ cpc' = IF cshm = 0 THEN "down" ELSE "compute"
    /\ UNCHANGED <<shmName, sized, region, sem, gen, crashes, cshm, csem, image, todo, meterVars, orphaned>>

UnlinkSem ==
    /\ cpc = "unlink_sem"
    /\ semName' = 0
    /\ cpc' = "down"
    /\ cshm' = 0 /\ csem' = 0
    /\ UNCHANGED <<shmName, sized, region, sem, gen, crashes, image, todo, meterVars, orphaned>>

\* The controller is killed (kill_hvac's last resort, or the machine's).
Crash ==
    /\ cpc # "down"
    /\ crashes < MaxCrashes
    /\ crashes' = crashes + 1
    /\ cpc' = "down"
    /\ cshm' = 0 /\ csem' = 0
    /\ orphaned' = IF CInside THEN orphaned \cup {csem} ELSE orphaned
    /\ UNCHANGED <<kernelVars, region, sem, gen, image, todo, meterVars>>

Controller ==
    \/ CreateSem \/ CreateShm \/ Truncate \/ (\E f \in Cells : Store(f))
    \/ Compute \/ Wait \/ Post \/ UnlinkShm \/ UnlinkSem

----------------------------------------------------------------------------
(* power_meter *)

MGoto(m, l) == mpc' = [mpc EXCEPT ![m] = l]

\* main: connected to the gateway.
MStart(m) ==
    /\ mpc[m] = "off"
    /\ MGoto(m, "open_sem")
    /\ UNCHANGED <<kernelVars, region, sem, ctrlVars, mshm, msem, tries, pct, orphaned>>

\* ipc_open_sem: one attempt.
MOpenSem(m) ==
    /\ mpc[m] = "open_sem"
    /\ msem' = [msem EXCEPT ![m] = semName]
    /\ tries' = [tries EXCEPT ![m] = 0]
    /\ MGoto(m, "open_shm")
    /\ UNCHANGED <<kernelVars, region, sem, ctrlVars, mshm, pct, orphaned>>

\* Mutant of MOpenShm: the retries are counted one too far.
MOpenShmAgain(m) ==
    /\ mpc[m] = "open_shm"
    /\ IF shmName = 0 /\ tries[m] <= OpenRetries
       THEN /\ tries' = [tries EXCEPT ![m] = @ + 1]
            /\ UNCHANGED <<mpc, mshm>>
       ELSE /\ mshm' = [mshm EXCEPT ![m] = shmName]
            /\ MGoto(m, "check")
            /\ UNCHANGED tries
    /\ UNCHANGED <<kernelVars, region, sem, ctrlVars, msem, pct, orphaned>>

\* ipc_open_shm: OpenRetries attempts, then NULL.
MOpenShm(m) ==
    /\ mpc[m] = "open_shm"
    /\ IF shmName = 0 /\ tries[m] + 1 < OpenRetries
       THEN /\ tries' = [tries EXCEPT ![m] = @ + 1]
            /\ UNCHANGED <<mpc, mshm>>
       ELSE /\ mshm' = [mshm EXCEPT ![m] = shmName]
            /\ MGoto(m, "check")
            /\ UNCHANGED tries
    /\ UNCHANGED <<kernelVars, region, sem, ctrlVars, msem, pct, orphaned>>

\* The process is gone: its mappings and handles with it.
Gone(m) ==
    /\ MGoto(m, "off")
    /\ mshm' = [mshm EXCEPT ![m] = 0]
    /\ msem' = [msem EXCEPT ![m] = 0]
    /\ tries' = [tries EXCEPT ![m] = 0]
    /\ pct' = [pct EXCEPT ![m] = 0]

\* get_hvac_percentage: is_valid is read before the semaphore is taken.  The
\* fallback touches nothing shared; a region not yet given its size is a bus
\* error.
MCheck(m) ==
    /\ mpc[m] = "check"
    /\ IF mshm[m] = 0 \/ msem[m] = 0
       THEN UNCHANGED meterVars
       ELSE IF mshm[m] \notin sized
       THEN Gone(m)
       ELSE /\ MGoto(m, IF region[mshm[m]]["valid"] = 1 THEN "wait" ELSE "check")
            /\ UNCHANGED <<mshm, msem, tries, pct>>
    /\ UNCHANGED <<kernelVars, region, sem, ctrlVars, orphaned>>

\* Mutant of MWait: the meter reads without waiting.
MWaitNot(m) ==
    /\ mpc[m] = "wait"
    /\ MGoto(m, "read")
    /\ UNCHANGED <<kernelVars, region, sem, ctrlVars, mshm, msem, tries, pct, orphaned>>

MWait(m) ==
    /\ mpc[m] = "wait"
    /\ sem[msem[m]] > 0
    /\ sem' = [sem EXCEPT ![msem[m]] = @ - 1]
    /\ MGoto(m, "read")
    /\ UNCHANGED <<kernelVars, region, ctrlVars, mshm, msem, tries, pct, orphaned>>

\* `shm->heater_pct > 0`.
MRead(m) ==
    /\ mpc[m] = "read"
    /\ pct' = [pct EXCEPT ![m] = region[mshm[m]]["heater"]]
    /\ MGoto(m, "reread")
    /\ UNCHANGED <<kernelVars, region, sem, ctrlVars, mshm, msem, tries, orphaned>>

\* `? shm->heater_pct : shm->cooler_pct`; the compiler may load the heater's
\* percentage again or keep the one it compared.
MReread(m) ==
    /\ mpc[m] = "reread"
    /\ \E v \in IF pct[m] > 0 THEN {pct[m], region[mshm[m]]["heater"]}
                ELSE {region[mshm[m]]["cooler"]} :
         pct' = [pct EXCEPT ![m] = v]
    /\ MGoto(m, "post")
    /\ UNCHANGED <<kernelVars, region, sem, ctrlVars, mshm, msem, tries, orphaned>>

\* Mutant of MPost: the semaphore is not given back.
MPostNot(m) ==
    /\ mpc[m] = "post"
    /\ MGoto(m, "check")
    /\ pct' = [pct EXCEPT ![m] = 0]
    /\ UNCHANGED <<kernelVars, region, sem, ctrlVars, mshm, msem, tries, orphaned>>

\* sem_post; the packet is sent (or the gateway reconnected to) and the loop
\* starts again.
MPost(m) ==
    /\ mpc[m] = "post"
    /\ sem' = [sem EXCEPT ![msem[m]] = @ + 1]
    /\ pct' = [pct EXCEPT ![m] = 0]
    /\ MGoto(m, "check")
    /\ UNCHANGED <<kernelVars, region, ctrlVars, mshm, msem, tries, orphaned>>

\* No handler is installed: SIGTERM, SIGINT, SIGPIPE and SIGKILL all end it.
MKill(m) ==
    /\ mpc[m] # "off"
    /\ Gone(m)
    /\ orphaned' = IF MInside(m) THEN orphaned \cup {msem[m]} ELSE orphaned
    /\ UNCHANGED <<kernelVars, region, sem, ctrlVars>>

Meter(m) ==
    \/ MOpenSem(m) \/ MOpenShm(m) \/ MCheck(m) \/ MWait(m) \/ MRead(m)
    \/ MReread(m) \/ MPost(m)

Next ==
    \/ Start \/ Controller \/ Terminate \/ Crash
    \/ \E m \in Meters : MStart(m) \/ Meter(m) \/ MKill(m)

Spec == Init /\ [][Next]_vars

\* Both processes run, and sleep a second in every iteration, so a semaphore
\* that is free again and again is taken in the end.  Nothing is assumed of
\* starts, signals and crashes.
FairSpec ==
    /\ Spec
    /\ WF_vars(Controller) /\ SF_vars(Wait)
    /\ \A m \in Meters : WF_vars(Meter(m)) /\ SF_vars(MWait(m))

----------------------------------------------------------------------------
(* Properties *)

\* Type invariant.
TypeOK ==
    /\ gen \in 0..MaxGen /\ crashes \in 0..MaxCrashes
    /\ shmName \in 0..MaxGen /\ semName \in 0..MaxGen
    /\ sized \in SUBSET Objects
    /\ region \in [Objects -> [Cells -> Nat]]
    /\ sem \in [Objects -> Nat]
    /\ orphaned \in SUBSET Objects
    /\ cpc \in CtrlPCs
    /\ cshm \in 0..MaxGen /\ csem \in 0..MaxGen
    /\ image \in [Cells -> Nat] /\ todo \in SUBSET Cells
    /\ mpc \in [Meters -> MeterPCs]
    /\ mshm \in [Meters -> 0..MaxGen] /\ msem \in [Meters -> 0..MaxGen]
    /\ tries \in [Meters -> 0..OpenRetries]
    /\ pct \in [Meters -> Nat]

\* The controller, and meter m, are between sem_wait and sem_post of s.
CHolds(s) == CInside /\ csem = s
MHolds(m, s) == MInside(m) /\ msem[m] = s

\* Some process can still use semaphore s.
Known(s) == s = semName \/ s = csem \/ \E m \in Meters : msem[m] = s

\* The one token of semaphore s is its value, or with the one process inside,
\* or was lost with a process that died inside.
OneToken(s) ==
    /\ sem[s] <= 1
    /\ s \in orphaned => sem[s] = 0 /\ ~CHolds(s)
    /\ CHolds(s) => sem[s] = 0
    /\ \A m \in Meters : MHolds(m, s) =>
          /\ sem[s] = 0
          /\ s \notin orphaned
          /\ ~CHolds(s)
          /\ \A n \in Meters \ {m} : ~MHolds(n, s)
    /\ Known(s) /\ sem[s] = 0 =>
          s \in orphaned \/ CHolds(s) \/ \E m \in Meters : MHolds(m, s)

\* A semaphore admits one process at a time into the section it guards and no
\* token is ever duplicated or dropped, whatever is killed, restarted or
\* reopened on the way (ipc_create_sem reuses a semaphore somebody holds).
OneInside == \A s \in Objects : OneToken(s)

\* A meter whose semaphore and region come from the same incarnation reads whole
\* commands: what it is about to report is the load of one command, all of whose
\* cells are in the region, although controllers are stopped in the middle of
\* storing.  Once a controller was killed the next one may clear that region
\* while the meter reads (the memset of ipc_create_shm is not under the
\* semaphore): the meter then finds zeros in the place of some cells of that one
\* command, never cells of two.
WholeCommands ==
    \A m \in Meters :
        mpc[m] = "post" /\ msem[m] = mshm[m] =>
            \E c \in Commands :
                /\ \A f \in Cells : region[mshm[m]][f] \in {c[f], 0}
                /\ pct[m] \in {Load(c), 0}
                /\ crashes = 0 => region[mshm[m]] = c /\ pct[m] = Load(c)

\* A meter that is attached to a region whose name is gone has seen its last
\* update: nobody ever stores in that region again, so its is_valid stays as
\* it is and the meter goes on reporting the same load (power_meter.c attaches
\* once, before its loop).
DetachedIsFrozen ==
    [][\A m \in Meters :
         mshm[m] # 0 /\ mshm[m] # shmName =>
             /\ region'[mshm[m]] = region[mshm[m]]
             /\ shmName' # mshm[m]]_vars

\* A process that waits for the semaphore gets it, or is gone, unless some
\* process died inside the section.
SemaphoreServes ==
    /\ (cpc = "wait") ~> (cpc # "wait" \/ csem \in orphaned)
    /\ \A m \in Meters :
         (mpc[m] = "wait") ~> (mpc[m] # "wait" \/ msem[m] \in orphaned)

(* With one incarnation the region is an atomic register of whole commands: *)
(* what is published is the region as it will be once the stores that are   *)
(* under way are done.                                                      *)
Published ==
    [f \in Cells |-> IF f \in todo THEN image[f] ELSE region[1][f]]

Register == INSTANCE SnapshotRegister WITH
    published <- Published,
    reading <- [m \in Meters |-> IF mpc[m] = "post" THEN {pct[m]} ELSE {}]

\* The controller and its meters implement the register, whoever is stopped or
\* killed, as long as the controller is not started again.
IsRegister == Register!Spec
=============================================================================
