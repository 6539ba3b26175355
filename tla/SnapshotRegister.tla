-------------------------- MODULE SnapshotRegister --------------------------
(***************************************************************************)
(* What the shared memory between hvac_controller and power_meter promises *)
(* (Embedded/ipc.h, "Protected by semaphore to prevent race conditions"):  *)
(* a register holding whole commands.  The controller replaces it in one   *)
(* step, a meter takes the HVAC load of one whole command in one step, and *)
(* nothing can be taken before the first command is published.             *)
(***************************************************************************)
CONSTANTS
    Meters,     \* the reading processes
    Commands,   \* the commands a controller can publish
    Blank,      \* the content of a region nobody has published in
    Load(_)     \* the load a meter computes from a command

VARIABLES
    published,  \* the last command published, or Blank
    reading     \* the load each meter has just read, {} when it has none

Init ==
    /\ published = Blank
    /\ reading = [m \in Meters |-> {}]

Publish(c) ==
    /\ published' = c
    /\ UNCHANGED reading

Sample(m) ==
    /\ published # Blank
    /\ reading' = [reading EXCEPT ![m] = {Load(published)}]
    /\ UNCHANGED published

\* The meter has used its reading, or stopped.
Discard(m) ==
    /\ reading' = [reading EXCEPT ![m] = {}]
    /\ UNCHANGED published

Next ==
    \/ \E c \in Commands : Publish(c)
    \/ \E m \in Meters : Sample(m) \/ Discard(m)

Spec == Init /\ [][Next]_<<published, reading>>
=============================================================================
