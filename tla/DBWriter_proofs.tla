--------------------------- MODULE DBWriter_proofs ---------------------------
(***************************************************************************)
(* Theorems about DBWriter, for any sets of threads and devices, any       *)
(* number of packets, outages and retries, and both behaviours of the      *)
(* connection health check.                                                *)
(***************************************************************************)
EXTENDS DBWriter, SequenceTheorems, TLAPS

Loading == {"select", "fetch", "assign"}

\* The lines of _reconnect_if_needed and connect().
Reconnecting == {"health", "lost", "connect", "autocommit", "cursor", "flag"}

(***************************************************************************)
(* The lock: the locked sections, and what its owner can be doing.  The    *)
(* owner is in a locked section or in the cache reload of connect(); no    *)
(* other thread is in a locked section, though it may be loading the cache *)
(* on its own account.                                                     *)
(***************************************************************************)
LockInv ==
    \A t \in Threads :
        /\ InLockedSection(t) => lock = t
        /\ lock = t => /\ job[t] \in LockedJobs
                       /\ pc[t] \in {"write"} \cup Reconnecting \cup Loading
        /\ pc[t] \in {"gate", "acquire"} => job[t] \in LockedJobs
        /\ pc[t] \in Reconnecting => job[t] = "packet"
        /\ pc[t] \in {"check", "get"} \cup Loading => job[t] # "event"
        /\ job[t] = "message" => t \in Subscribers

(***************************************************************************)
(* The connection.  A thread that replaces it found it closed; from the    *)
(* installation of the new one to that of its cursor the shared cursor is  *)
(* unusable; and until the shutdown begins the writer reads disconnected   *)
(* over a live cursor only just before connect() sets the flag.            *)
(***************************************************************************)
LinkInv ==
    /\ cursor.has => cursor.open
    /\ \A t \in Threads :
         /\ pc[t] \in {"lost", "connect"} => link = "closed"
         /\ pc[t] \in {"autocommit", "cursor"} => ~cursor.open
    /\ closing = "no" /\ ~connected /\ Live => \E t \in Threads : pc[t] = "flag"

\* Thread t has a packet or message whose fate it has not settled.
Open(t) == job[t] \in {"packet", "message"} /\ pc[t] \notin {"idle", "report"}

\* A thread's unsettled entry of the log is its own, and pending.
SlotInv ==
    /\ \A t \in Threads : Open(t) => /\ slot[t] \in DOMAIN log
                                     /\ log[slot[t]].fate = "pending"
                                     /\ log[slot[t]].dev = dev[t]
    /\ \A t, u \in Threads : Open(t) /\ Open(u) /\ t # u => slot[t] # slot[u]

IInv == TypeOK /\ LockInv /\ LinkInv /\ SlotInv

(***************************************************************************)
(* While no SELECT overtook another thread's fetch, at most one thread is  *)
(* between its own SELECT and its fetch.  It finds the rows of that SELECT *)
(* or, when another thread executed something or replaced the cursor, no   *)
(* rows, and then its reload fails as a whole.                             *)
(***************************************************************************)
CacheInv ==
    ~overlapped =>
        /\ Registered \subseteq cache
        /\ Registered \subseteq devices
        /\ \A i \in DOMAIN log : log[i].fate = "unknown" => log[i].dev \notin Registered
        /\ \A t \in Threads :
             /\ pc[t] = "fetch" /\ cursor.has => Registered \subseteq cursor.rows
             /\ pc[t] = "assign" => Registered \subseteq loaded[t]
             /\ \A u \in Threads : pc[t] = "fetch" /\ pc[u] = "fetch" => t = u

----------------------------------------------------------------------------
(* Type correctness *)

\* TypeOK in the parts that are proved separately.
Entry == [dev : Devices, fate : Fates]
FlagType == /\ dbUp \in BOOLEAN /\ connected \in BOOLEAN /\ overlapped \in BOOLEAN
            /\ closing \in {"no", "conn", "flag", "done"}
StoreType == /\ outages \in Nat
             /\ devices \in SUBSET Devices /\ cache \in SUBSET Devices
             /\ link \in {"ok", "stale", "closed"}
             /\ txn \in {"auto", "manual", "begun"}
             /\ lock \in Threads \cup {NoThread}
             /\ seen \in SUBSET Kinds
CursorType == cursor \in [open : BOOLEAN, has : BOOLEAN, rows : SUBSET Devices]
LogType == log \in Seq(Entry)
ProgramType == pc \in [Threads -> PCs] /\ job \in [Threads -> Jobs]
LocalType == /\ dev \in [Threads -> Devices]
             /\ slot \in [Threads -> Nat]
             /\ loaded \in [Threads -> SUBSET Devices]
             /\ attempt \in [Threads -> Nat]
             /\ todo \in [Threads -> SUBSET Kinds]

LEMMA TypeParts ==
    TypeOK <=> /\ FlagType /\ StoreType /\ CursorType
               /\ LogType /\ ProgramType /\ LocalType
  BY DEF TypeOK, FlagType, StoreType, CursorType, LogType, ProgramType,
         LocalType, Entry

\* The results a cursor can hold.
LEMMA CursorValues ==
    \A S \in SUBSET Devices :
        {NoResult, Unusable, Rows(S)}
            \subseteq [open : BOOLEAN, has : BOOLEAN, rows : SUBSET Devices]
  BY DEF NoResult, Unusable, Rows

\* A settled entry keeps its device; the other entries do not change.
LEMMA SettleLog ==
    ASSUME LogType, NEW t \in Threads, NEW fate \in Fates, slot[t] \in Nat,
           Settle(t, fate)
    PROVE  /\ LogType'
           /\ DOMAIN log' = DOMAIN log
           /\ \A i \in DOMAIN log : /\ log'[i].dev = log[i].dev
                                    /\ i # slot[t] => log'[i] = log[i]
           /\ slot[t] \in DOMAIN log => log'[slot[t]].fate = fate
<1> DEFINE i == slot[t]
<1> DEFINE e == [log[i] EXCEPT !.fate = fate]
<1>0. DOMAIN log = 1..Len(log) /\ Len(log) \in Nat
  BY LenProperties DEF LogType
<1>1. CASE i \in DOMAIN log
  <2>1. log[i] \in Entry
    BY <1>0, <1>1, ElementOfSeq DEF LogType
  <2>2. e \in Entry /\ e.dev = log[i].dev /\ e.fate = fate
    BY <2>1 DEF Entry
  <2>3. log' = [log EXCEPT ![i] = e]
    BY DEF Settle
  <2>4. /\ log' \in Seq(Entry) /\ Len(log') = Len(log)
        /\ \A j \in 1..Len(log) : log'[j] = IF j = i THEN e ELSE log[j]
    <3> HIDE DEF e, i
    <3>1. i \in 1..Len(log) /\ log \in Seq(Entry) /\ e \in Entry
      BY <1>0, <1>1, <2>2 DEF LogType
    <3> QED
      BY <2>3, <3>1, ExceptSeq
  <2> QED
    BY <1>0, <1>1, <2>2, <2>4, LenProperties DEF LogType
<1>2. CASE i \notin DOMAIN log
  <2>1. log' = log
    BY <1>2, <1>0 DEF Settle, LogType
  <2> QED
    BY <1>2, <2>1 DEF LogType
<1> QED
  BY <1>1, <1>2

\* An arrival appends an entry.
LEMMA AppendLog ==
    ASSUME LogType, NEW e \in Entry, log' = Append(log, e)
    PROVE  /\ LogType'
           /\ DOMAIN log' = DOMAIN log \cup {Len(log) + 1}
           /\ Len(log) + 1 \notin DOMAIN log
           /\ \A i \in DOMAIN log : log'[i] = log[i]
           /\ log'[Len(log) + 1] = e
<1>1. DOMAIN log = 1..Len(log) /\ Len(log) \in Nat
  BY LenProperties DEF LogType
<1>2. log' \in Seq(Entry) /\ Len(log') = Len(log) + 1
  BY AppendProperties DEF LogType
<1>3. DOMAIN log' = 1..(Len(log) + 1)
  BY <1>2, LenProperties
<1> QED
  BY <1>1, <1>2, <1>3, AppendProperties DEF LogType

LEMMA InitTypes == Init => TypeOK
<1> SUFFICES ASSUME Init PROVE TypeOK
  OBVIOUS
<1> USE DeviceAssumption, ThreadAssumption DEF Init
<1>1. FlagType /\ CursorType
  BY DEF FlagType, CursorType, Rows
<1>2. StoreType
  BY DEF StoreType
<1>3. LogType
  BY EmptySeq DEF LogType
<1>4. ProgramType /\ LocalType
  BY DEF ProgramType, LocalType, PCs, Jobs, Kinds
<1> QED
  BY <1>1, <1>2, <1>3, <1>4, TypeParts


(* Type preservation, part by part *)

LEMMA NextTypes == TypeOK /\ [Next]_vars => TypeOK'
<1> SUFFICES ASSUME TypeOK, [Next]_vars PROVE TypeOK'
  OBVIOUS
<1>0. /\ FlagType /\ StoreType /\ CursorType
      /\ LogType /\ ProgramType /\ LocalType
  BY TypeParts
<1> USE DeviceAssumption, BoundAssumption
<1>u. CASE UNCHANGED vars
  BY <1>u DEF TypeOK, vars
<1>1. ASSUME NEW t \in Threads, Gate(t) PROVE TypeOK'
  <2>1. FlagType'
    BY <1>0, <1>1 DEF FlagType, Gate, dbVars, auxVars, connVars, localVars
  <2>2. CursorType'
    BY <1>0, <1>1 DEF CursorType, Gate, dbVars, auxVars, connVars, localVars
  <2>3. StoreType'
    BY <1>0, <1>1 DEF StoreType, Gate, dbVars, auxVars, connVars, localVars
  <2>4. LogType'
    <3>1. CASE \E fate \in Fates : Settle(t, fate)
      BY <1>0, <3>1, SettleLog DEF LocalType
    <3>2. CASE UNCHANGED log
      BY <1>0, <3>2 DEF LogType
    <3> QED
      BY <1>1, <3>1, <3>2 DEF Gate, Fates
  <2>5. ProgramType'
    BY <1>0, <1>1 DEF ProgramType, Gate, dbVars, auxVars, connVars, localVars, Return, Goto, PCs, Jobs
  <2>6. LocalType'
    BY <1>0, <1>1 DEF LocalType, Gate, dbVars, auxVars, connVars, localVars
  <2> QED
    BY <2>1, <2>2, <2>3, <2>4, <2>5, <2>6 DEF TypeOK, FlagType, StoreType,
       CursorType, LogType, ProgramType, LocalType, Entry
<1>2. ASSUME NEW t \in Threads, CheckCache(t) PROVE TypeOK'
  <2>1. FlagType'
    BY <1>0, <1>2 DEF FlagType, CheckCache, dbVars, auxVars, connVars, localVars
  <2>2. CursorType'
    BY <1>0, <1>2 DEF CursorType, CheckCache, dbVars, auxVars, connVars, localVars
  <2>3. StoreType'
    BY <1>0, <1>2 DEF StoreType, CheckCache, dbVars, auxVars, connVars, localVars
  <2>4. LogType'
    BY <1>0, <1>2 DEF LogType, CheckCache, dbVars, auxVars, connVars, localVars
  <2>5. ProgramType'
    BY <1>0, <1>2 DEF ProgramType, CheckCache, dbVars, auxVars, connVars, localVars, Goto, PCs, Jobs
  <2>6. LocalType'
    BY <1>0, <1>2 DEF LocalType, CheckCache, dbVars, auxVars, connVars, localVars
  <2> QED
    BY <2>1, <2>2, <2>3, <2>4, <2>5, <2>6 DEF TypeOK, FlagType, StoreType,
       CursorType, LogType, ProgramType, LocalType, Entry
<1>3. ASSUME NEW t \in Threads, Select(t) PROVE TypeOK'
  <2>1. FlagType'
    BY <1>0, <1>3 DEF FlagType, Select, dbVars, auxVars, connVars, localVars
  <2>2. CursorType'
    <3>1. cursor' \in {cursor, NoResult, Rows(devices)}
      BY <1>3 DEF Select, Execute
    <3> QED
      BY <1>0, <3>1, CursorValues DEF CursorType, StoreType
  <2>3. StoreType'
    BY <1>0, <1>3 DEF StoreType, Select, dbVars, auxVars, connVars, localVars, Execute, AfterSend
  <2>4. LogType'
    BY <1>0, <1>3 DEF LogType, Select, dbVars, auxVars, connVars, localVars
  <2>5. ProgramType'
    BY <1>0, <1>3 DEF ProgramType, Select, dbVars, auxVars, connVars, localVars, AfterLoad, Goto, PCs, Jobs
  <2>6. LocalType'
    BY <1>0, <1>3 DEF LocalType, Select, dbVars, auxVars, connVars, localVars
  <2> QED
    BY <2>1, <2>2, <2>3, <2>4, <2>5, <2>6 DEF TypeOK, FlagType, StoreType,
       CursorType, LogType, ProgramType, LocalType, Entry
<1>4. ASSUME NEW t \in Threads, Fetch(t) PROVE TypeOK'
  <2>1. FlagType'
    BY <1>0, <1>4 DEF FlagType, Fetch, dbVars, auxVars, connVars, localVars
  <2>2. CursorType'
    <3>1. cursor' \in {cursor, Rows({})}
      BY <1>4 DEF Fetch
    <3> QED
      BY <1>0, <3>1, CursorValues DEF CursorType, StoreType
  <2>3. StoreType'
    BY <1>0, <1>4 DEF StoreType, Fetch, dbVars, auxVars, connVars, localVars
  <2>4. LogType'
    BY <1>0, <1>4 DEF LogType, Fetch, dbVars, auxVars, connVars, localVars
  <2>5. ProgramType'
    BY <1>0, <1>4 DEF ProgramType, Fetch, dbVars, auxVars, connVars, localVars, AfterLoad, Goto, PCs, Jobs
  <2>6. LocalType'
    BY <1>0, <1>4 DEF LocalType, Fetch, dbVars, auxVars, connVars, localVars, CursorType
  <2> QED
    BY <2>1, <2>2, <2>3, <2>4, <2>5, <2>6 DEF TypeOK, FlagType, StoreType,
       CursorType, LogType, ProgramType, LocalType, Entry
<1>5. ASSUME NEW t \in Threads, Assign(t) PROVE TypeOK'
  <2>1. FlagType'
    BY <1>0, <1>5 DEF FlagType, Assign, dbVars, auxVars, connVars, localVars
  <2>2. CursorType'
    BY <1>0, <1>5 DEF CursorType, Assign, dbVars, auxVars, connVars, localVars
  <2>3. StoreType'
    BY <1>0, <1>5 DEF StoreType, Assign, dbVars, auxVars, connVars, localVars, LocalType
  <2>4. LogType'
    BY <1>0, <1>5 DEF LogType, Assign, dbVars, auxVars, connVars, localVars
  <2>5. ProgramType'
    BY <1>0, <1>5 DEF ProgramType, Assign, dbVars, auxVars, connVars, localVars, AfterLoad, Goto, PCs, Jobs
  <2>6. LocalType'
    BY <1>0, <1>5 DEF LocalType, Assign, dbVars, auxVars, connVars, localVars
  <2> QED
    BY <2>1, <2>2, <2>3, <2>4, <2>5, <2>6 DEF TypeOK, FlagType, StoreType,
       CursorType, LogType, ProgramType, LocalType, Entry
<1>6. ASSUME NEW t \in Threads, GetZone(t) PROVE TypeOK'
  <2>1. FlagType'
    BY <1>0, <1>6 DEF FlagType, GetZone, dbVars, auxVars, connVars, localVars
  <2>2. CursorType'
    BY <1>0, <1>6 DEF CursorType, GetZone, dbVars, auxVars, connVars, localVars
  <2>3. StoreType'
    BY <1>0, <1>6 DEF StoreType, GetZone, dbVars, auxVars, connVars, localVars
  <2>4. LogType'
    <3>1. CASE \E fate \in Fates : Settle(t, fate)
      BY <1>0, <3>1, SettleLog DEF LocalType
    <3>2. CASE UNCHANGED log
      BY <1>0, <3>2 DEF LogType
    <3> QED
      BY <1>6, <3>1, <3>2 DEF GetZone, Fates
  <2>5. ProgramType'
    BY <1>0, <1>6 DEF ProgramType, GetZone, dbVars, auxVars, connVars, localVars, Return, Goto, PCs, Jobs
  <2>6. LocalType'
    BY <1>0, <1>6 DEF LocalType, GetZone, dbVars, auxVars, connVars, localVars
  <2> QED
    BY <2>1, <2>2, <2>3, <2>4, <2>5, <2>6 DEF TypeOK, FlagType, StoreType,
       CursorType, LogType, ProgramType, LocalType, Entry
<1>7. ASSUME NEW t \in Threads, Acquire(t) PROVE TypeOK'
  <2>1. FlagType'
    BY <1>0, <1>7 DEF FlagType, Acquire, dbVars, auxVars, connVars, localVars
  <2>2. CursorType'
    BY <1>0, <1>7 DEF CursorType, Acquire, dbVars, auxVars, connVars, localVars
  <2>3. StoreType'
    BY <1>0, <1>7 DEF StoreType, Acquire, dbVars, auxVars, connVars, localVars
  <2>4. LogType'
    BY <1>0, <1>7 DEF LogType, Acquire, dbVars, auxVars, connVars, localVars
  <2>5. ProgramType'
    BY <1>0, <1>7 DEF ProgramType, Acquire, dbVars, auxVars, connVars, localVars, Goto, PCs, Jobs
  <2>6. LocalType'
    BY <1>0, <1>7 DEF LocalType, Acquire, dbVars, auxVars, connVars, localVars
  <2> QED
    BY <2>1, <2>2, <2>3, <2>4, <2>5, <2>6 DEF TypeOK, FlagType, StoreType,
       CursorType, LogType, ProgramType, LocalType, Entry
<1>8. ASSUME NEW t \in Threads, HealthCheck(t) PROVE TypeOK'
  <2>1. FlagType'
    BY <1>0, <1>8 DEF FlagType, HealthCheck, dbVars, auxVars, connVars, localVars
  <2>2. CursorType'
    BY <1>0, <1>8 DEF CursorType, HealthCheck, dbVars, auxVars, connVars, localVars
  <2>3. StoreType'
    BY <1>0, <1>8 DEF StoreType, HealthCheck, dbVars, auxVars, connVars, localVars
  <2>4. LogType'
    BY <1>0, <1>8 DEF LogType, HealthCheck, dbVars, auxVars, connVars, localVars
  <2>5. ProgramType'
    BY <1>0, <1>8 DEF ProgramType, HealthCheck, dbVars, auxVars, connVars, localVars, Goto, PCs, Jobs
  <2>6. LocalType'
    BY <1>0, <1>8 DEF LocalType, HealthCheck, dbVars, auxVars, connVars, localVars
  <2> QED
    BY <2>1, <2>2, <2>3, <2>4, <2>5, <2>6 DEF TypeOK, FlagType, StoreType,
       CursorType, LogType, ProgramType, LocalType, Entry
<1>9. ASSUME NEW t \in Threads, MarkLost(t) PROVE TypeOK'
  <2>1. FlagType'
    BY <1>0, <1>9 DEF FlagType, MarkLost, dbVars, auxVars, connVars, localVars
  <2>2. CursorType'
    BY <1>0, <1>9 DEF CursorType, MarkLost, dbVars, auxVars, connVars, localVars
  <2>3. StoreType'
    BY <1>0, <1>9 DEF StoreType, MarkLost, dbVars, auxVars, connVars, localVars
  <2>4. LogType'
    BY <1>0, <1>9 DEF LogType, MarkLost, dbVars, auxVars, connVars, localVars
  <2>5. ProgramType'
    BY <1>0, <1>9 DEF ProgramType, MarkLost, dbVars, auxVars, connVars, localVars, Goto, PCs, Jobs
  <2>6. LocalType'
    BY <1>0, <1>9 DEF LocalType, MarkLost, dbVars, auxVars, connVars, localVars
  <2> QED
    BY <2>1, <2>2, <2>3, <2>4, <2>5, <2>6 DEF TypeOK, FlagType, StoreType,
       CursorType, LogType, ProgramType, LocalType, Entry
<1>10. ASSUME NEW t \in Threads, InstallConn(t) PROVE TypeOK'
  <2>1. FlagType'
    BY <1>0, <1>10 DEF FlagType, InstallConn, dbVars, auxVars, connVars, localVars
  <2>2. CursorType'
    <3>1. cursor' \in {Unusable}
      BY <1>10 DEF InstallConn
    <3> QED
      BY <1>0, <3>1, CursorValues DEF CursorType, StoreType
  <2>3. StoreType'
    BY <1>0, <1>10 DEF StoreType, InstallConn, dbVars, auxVars, connVars, localVars
  <2>4. LogType'
    BY <1>0, <1>10 DEF LogType, InstallConn, dbVars, auxVars, connVars, localVars
  <2>5. ProgramType'
    BY <1>0, <1>10 DEF ProgramType, InstallConn, dbVars, auxVars, connVars, localVars, Goto, PCs, Jobs
  <2>6. LocalType'
    BY <1>0, <1>10 DEF LocalType, InstallConn, dbVars, auxVars, connVars, localVars
  <2> QED
    BY <2>1, <2>2, <2>3, <2>4, <2>5, <2>6 DEF TypeOK, FlagType, StoreType,
       CursorType, LogType, ProgramType, LocalType, Entry
<1>11. ASSUME NEW t \in Threads, ConnectFails(t) PROVE TypeOK'
  <2>1. FlagType'
    BY <1>0, <1>11 DEF FlagType, ConnectFails, dbVars, auxVars, connVars, localVars
  <2>2. CursorType'
    BY <1>0, <1>11 DEF CursorType, ConnectFails, dbVars, auxVars, connVars, localVars
  <2>3. StoreType'
    BY <1>0, <1>11 DEF StoreType, ConnectFails, dbVars, auxVars, connVars, localVars
  <2>4. LogType'
    BY <1>0, <1>11 DEF LogType, ConnectFails, dbVars, auxVars, connVars, localVars
  <2>5. ProgramType'
    BY <1>0, <1>11 DEF ProgramType, ConnectFails, dbVars, auxVars, connVars, localVars, Goto, PCs, Jobs
  <2>6. LocalType'
    BY <1>0, <1>11 DEF LocalType, ConnectFails, dbVars, auxVars, connVars, localVars
  <2> QED
    BY <2>1, <2>2, <2>3, <2>4, <2>5, <2>6 DEF TypeOK, FlagType, StoreType,
       CursorType, LogType, ProgramType, LocalType, Entry
<1>12. ASSUME NEW t \in Threads, SetAutocommit(t) PROVE TypeOK'
  <2>1. FlagType'
    BY <1>0, <1>12 DEF FlagType, SetAutocommit, dbVars, auxVars, connVars, localVars
  <2>2. CursorType'
    BY <1>0, <1>12 DEF CursorType, SetAutocommit, dbVars, auxVars, connVars, localVars
  <2>3. StoreType'
    BY <1>0, <1>12 DEF StoreType, SetAutocommit, dbVars, auxVars, connVars, localVars, Escape
  <2>4. LogType'
    <3>1. CASE \E fate \in Fates : Settle(t, fate)
      BY <1>0, <3>1, SettleLog DEF LocalType
    <3>2. CASE UNCHANGED log
      BY <1>0, <3>2 DEF LogType
    <3> QED
      BY <1>12, <3>1, <3>2 DEF SetAutocommit, Fates, Escape
  <2>5. ProgramType'
    BY <1>0, <1>12 DEF ProgramType, SetAutocommit, dbVars, auxVars, connVars, localVars, Escape, Return, Goto, PCs, Jobs
  <2>6. LocalType'
    BY <1>0, <1>12 DEF LocalType, SetAutocommit, dbVars, auxVars, connVars, localVars
  <2> QED
    BY <2>1, <2>2, <2>3, <2>4, <2>5, <2>6 DEF TypeOK, FlagType, StoreType,
       CursorType, LogType, ProgramType, LocalType, Entry
<1>13. ASSUME NEW t \in Threads, InstallCursor(t) PROVE TypeOK'
  <2>1. FlagType'
    BY <1>0, <1>13 DEF FlagType, InstallCursor, dbVars, auxVars, connVars, localVars
  <2>2. CursorType'
    <3>1. cursor' \in {cursor, NoResult}
      BY <1>13 DEF InstallCursor
    <3> QED
      BY <1>0, <3>1, CursorValues DEF CursorType, StoreType
  <2>3. StoreType'
    BY <1>0, <1>13 DEF StoreType, InstallCursor, dbVars, auxVars, connVars, localVars, Escape
  <2>4. LogType'
    <3>1. CASE \E fate \in Fates : Settle(t, fate)
      BY <1>0, <3>1, SettleLog DEF LocalType
    <3>2. CASE UNCHANGED log
      BY <1>0, <3>2 DEF LogType
    <3> QED
      BY <1>13, <3>1, <3>2 DEF InstallCursor, Fates, Escape
  <2>5. ProgramType'
    BY <1>0, <1>13 DEF ProgramType, InstallCursor, dbVars, auxVars, connVars, localVars, Escape, Return, Goto, PCs, Jobs
  <2>6. LocalType'
    BY <1>0, <1>13 DEF LocalType, InstallCursor, dbVars, auxVars, connVars, localVars
  <2> QED
    BY <2>1, <2>2, <2>3, <2>4, <2>5, <2>6 DEF TypeOK, FlagType, StoreType,
       CursorType, LogType, ProgramType, LocalType, Entry
<1>14. ASSUME NEW t \in Threads, MarkConnected(t) PROVE TypeOK'
  <2>1. FlagType'
    BY <1>0, <1>14 DEF FlagType, MarkConnected, dbVars, auxVars, connVars, localVars
  <2>2. CursorType'
    BY <1>0, <1>14 DEF CursorType, MarkConnected, dbVars, auxVars, connVars, localVars
  <2>3. StoreType'
    BY <1>0, <1>14 DEF StoreType, MarkConnected, dbVars, auxVars, connVars, localVars
  <2>4. LogType'
    BY <1>0, <1>14 DEF LogType, MarkConnected, dbVars, auxVars, connVars, localVars
  <2>5. ProgramType'
    BY <1>0, <1>14 DEF ProgramType, MarkConnected, dbVars, auxVars, connVars, localVars, Goto, PCs, Jobs
  <2>6. LocalType'
    BY <1>0, <1>14 DEF LocalType, MarkConnected, dbVars, auxVars, connVars, localVars
  <2> QED
    BY <2>1, <2>2, <2>3, <2>4, <2>5, <2>6 DEF TypeOK, FlagType, StoreType,
       CursorType, LogType, ProgramType, LocalType, Entry
<1>15. ASSUME NEW t \in Threads, Write(t) PROVE TypeOK'
  <2>1. FlagType'
    BY <1>0, <1>15 DEF FlagType, Write, dbVars, auxVars, connVars, localVars
  <2>2. CursorType'
    <3>1. cursor' \in {cursor, NoResult}
      BY <1>15 DEF Write, Execute
    <3> QED
      BY <1>0, <3>1, CursorValues DEF CursorType, StoreType
  <2>3. StoreType'
    BY <1>0, <1>15 DEF StoreType, Write, dbVars, auxVars, connVars, localVars, Execute, AfterSend
  <2>4. LogType'
    <3>1. CASE \E fate \in Fates : Settle(t, fate)
      BY <1>0, <3>1, SettleLog DEF LocalType
    <3>2. CASE UNCHANGED log
      BY <1>0, <3>2 DEF LogType
    <3> QED
      BY <1>15, <3>1, <3>2 DEF Write, Fates
  <2>5. ProgramType'
    BY <1>0, <1>15 DEF ProgramType, Write, dbVars, auxVars, connVars, localVars, Return, Goto, PCs, Jobs
  <2>6. LocalType'
    BY <1>0, <1>15 DEF LocalType, Write, dbVars, auxVars, connVars, localVars
  <2> QED
    BY <2>1, <2>2, <2>3, <2>4, <2>5, <2>6 DEF TypeOK, FlagType, StoreType,
       CursorType, LogType, ProgramType, LocalType, Entry
<1>16. ASSUME NEW t \in Threads, DirectInsert(t) PROVE TypeOK'
  <2>1. FlagType'
    BY <1>0, <1>16 DEF FlagType, DirectInsert, dbVars, auxVars, connVars, localVars
  <2>2. CursorType'
    BY <1>0, <1>16 DEF CursorType, DirectInsert, dbVars, auxVars, connVars, localVars
  <2>3. StoreType'
    BY <1>0, <1>16 DEF StoreType, DirectInsert, dbVars, auxVars, connVars, localVars, AfterSend
  <2>4. LogType'
    BY <1>0, <1>16 DEF LogType, DirectInsert, dbVars, auxVars, connVars, localVars
  <2>5. ProgramType'
    BY <1>0, <1>16 DEF ProgramType, DirectInsert, dbVars, auxVars, connVars, localVars, DirectReturns, Goto, PCs, Jobs
  <2>6. LocalType'
    BY <1>0, <1>16 DEF LocalType, DirectInsert, dbVars, auxVars, connVars, localVars
  <2> QED
    BY <2>1, <2>2, <2>3, <2>4, <2>5, <2>6 DEF TypeOK, FlagType, StoreType,
       CursorType, LogType, ProgramType, LocalType, Entry
<1>17. ASSUME NEW t \in Threads, DirectCommit(t) PROVE TypeOK'
  <2>1. FlagType'
    BY <1>0, <1>17 DEF FlagType, DirectCommit, dbVars, auxVars, connVars, localVars
  <2>2. CursorType'
    BY <1>0, <1>17 DEF CursorType, DirectCommit, dbVars, auxVars, connVars, localVars
  <2>3. StoreType'
    BY <1>0, <1>17 DEF StoreType, DirectCommit, dbVars, auxVars, connVars, localVars, AfterSend
  <2>4. LogType'
    BY <1>0, <1>17 DEF LogType, DirectCommit, dbVars, auxVars, connVars, localVars
  <2>5. ProgramType'
    BY <1>0, <1>17 DEF ProgramType, DirectCommit, dbVars, auxVars, connVars, localVars, DirectReturns, Goto, PCs, Jobs
  <2>6. LocalType'
    BY <1>0, <1>17 DEF LocalType, DirectCommit, dbVars, auxVars, connVars, localVars
  <2> QED
    BY <2>1, <2>2, <2>3, <2>4, <2>5, <2>6 DEF TypeOK, FlagType, StoreType,
       CursorType, LogType, ProgramType, LocalType, Entry
<1>18. ASSUME NEW t \in Threads, ReportNext(t) PROVE TypeOK'
  <2>1. FlagType'
    BY <1>0, <1>18 DEF FlagType, ReportNext, dbVars, auxVars, connVars, localVars
  <2>2. CursorType'
    BY <1>0, <1>18 DEF CursorType, ReportNext, dbVars, auxVars, connVars, localVars
  <2>3. StoreType'
    BY <1>0, <1>18 DEF StoreType, ReportNext, dbVars, auxVars, connVars, localVars
  <2>4. LogType'
    BY <1>0, <1>18 DEF LogType, ReportNext, dbVars, auxVars, connVars, localVars
  <2>5. ProgramType'
    BY <1>0, <1>18 DEF ProgramType, ReportNext, dbVars, auxVars, connVars, localVars, Goto, PCs, Jobs
  <2>6. LocalType'
    BY <1>0, <1>18 DEF LocalType, ReportNext, dbVars, auxVars, connVars, localVars
  <2> QED
    BY <2>1, <2>2, <2>3, <2>4, <2>5, <2>6 DEF TypeOK, FlagType, StoreType,
       CursorType, LogType, ProgramType, LocalType, Entry
<1>19. ASSUME NEW t \in Threads, StartReport(t) PROVE TypeOK'
  <2>1. FlagType'
    BY <1>0, <1>19 DEF FlagType, StartReport, dbVars, auxVars, connVars, localVars
  <2>2. CursorType'
    BY <1>0, <1>19 DEF CursorType, StartReport, dbVars, auxVars, connVars, localVars
  <2>3. StoreType'
    BY <1>0, <1>19 DEF StoreType, StartReport, dbVars, auxVars, connVars, localVars
  <2>4. LogType'
    BY <1>0, <1>19 DEF LogType, StartReport, dbVars, auxVars, connVars, localVars
  <2>5. ProgramType'
    BY <1>0, <1>19 DEF ProgramType, StartReport, dbVars, auxVars, connVars, localVars, Goto, PCs, Jobs
  <2>6. LocalType'
    BY <1>0, <1>19 DEF LocalType, StartReport, dbVars, auxVars, connVars, localVars, StoreType
  <2> QED
    BY <2>1, <2>2, <2>3, <2>4, <2>5, <2>6 DEF TypeOK, FlagType, StoreType,
       CursorType, LogType, ProgramType, LocalType, Entry
<1>20. ASSUME NEW t \in Threads, NEW d \in Devices,
               ReceivePacket(t, d) \/ ReceiveMessage(t, d)
        PROVE  TypeOK'
  <2>0. [dev |-> d, fate |-> "pending"] \in Entry
    BY DEF Entry, Fates
  <2>1. FlagType' /\ CursorType'
    BY <1>0, <1>20 DEF ReceivePacket, ReceiveMessage, FlagType, CursorType,
                       dbVars, auxVars, connVars
  <2>2. StoreType'
    BY <1>0, <1>20 DEF ReceivePacket, ReceiveMessage, StoreType, dbVars, auxVars, connVars
  <2>3. LogType'
    BY <1>0, <1>20, <2>0, AppendLog DEF ReceivePacket, ReceiveMessage
  <2>4. ProgramType'
    BY <1>0, <1>20 DEF ReceivePacket, ReceiveMessage, ProgramType, Goto, PCs, Jobs
  <2>5. LocalType'
    <3>1. Len(log) + 1 \in Nat
      BY <1>0, LenProperties DEF LogType
    <3> QED
    BY <1>0, <1>20, <3>1
       DEF ReceivePacket, ReceiveMessage, LocalType, LogType
  <2> QED
    BY <2>1, <2>2, <2>3, <2>4, <2>5 DEF TypeOK, FlagType, StoreType,
       CursorType, LogType, ProgramType, LocalType, Entry
<1>21. CASE \/ DbStops \/ DbStarts \/ CloseCursor \/ CloseConn \/ MarkDisconnected
             \/ \E d \in Devices : Register(d)
  <2> USE DEF DbStops, DbStarts, CloseCursor, CloseConn, MarkDisconnected, Register,
              dbVars, auxVars, connVars, localVars
  <2>1. FlagType'
    BY <1>0, <1>21 DEF FlagType
  <2>2. StoreType'
    BY <1>0, <1>21 DEF StoreType
  <2>3. CursorType'
    <3>1. cursor' \in {cursor, Unusable}
      BY <1>21
    <3> QED
      BY <1>0, <3>1, CursorValues DEF CursorType
  <2>4. LogType' /\ ProgramType' /\ LocalType'
    BY <1>0, <1>21 DEF LogType, ProgramType, LocalType
  <2> QED
    BY <2>1, <2>2, <2>3, <2>4 DEF TypeOK, FlagType, StoreType,
       CursorType, LogType, ProgramType, LocalType, Entry
<1> QED
  BY <1>u, <1>1, <1>2, <1>3, <1>4, <1>5, <1>6, <1>7, <1>8, <1>9, <1>10, <1>11,
     <1>12, <1>13, <1>14, <1>15, <1>16, <1>17, <1>18, <1>19, <1>20, <1>21
     DEF Next, Step

\* Every variable keeps its type.
THEOREM TypeCorrect == Spec => []TypeOK
<1>1. Init => TypeOK
  BY InitTypes
<1>2. TypeOK /\ [Next]_vars => TypeOK'
  BY NextTypes
<1> QED
  BY <1>1, <1>2, PTL DEF Spec

----------------------------------------------------------------------------
(* The lock *)

LEMMA LockNext == TypeOK /\ LockInv /\ [Next]_vars => LockInv'
<1> SUFFICES ASSUME TypeOK, LockInv, [Next]_vars PROVE LockInv'
  OBVIOUS
<1>0. /\ pc \in [Threads -> PCs] /\ job \in [Threads -> Jobs]
      /\ NoThread \notin Threads
  BY ThreadAssumption DEF TypeOK
<1> USE DEF LockInv, InLockedSection, LockedJobs, Reconnecting, Loading
<1>u. CASE UNCHANGED vars
  BY <1>u DEF vars
<1>1. ASSUME NEW t \in Threads, Gate(t) PROVE LockInv'
  BY <1>0, <1>1 DEF Gate, Goto, Return
<1>2. ASSUME NEW t \in Threads, CheckCache(t) PROVE LockInv'
  BY <1>0, <1>2 DEF CheckCache, Goto
<1>3. ASSUME NEW t \in Threads, Select(t) PROVE LockInv'
  BY <1>0, <1>3 DEF Select, Goto, AfterLoad
<1>4. ASSUME NEW t \in Threads, Fetch(t) PROVE LockInv'
  BY <1>0, <1>4 DEF Fetch, Goto, AfterLoad
<1>5. ASSUME NEW t \in Threads, Assign(t) PROVE LockInv'
  BY <1>0, <1>5 DEF Assign, Goto, AfterLoad
<1>6. ASSUME NEW t \in Threads, GetZone(t) PROVE LockInv'
  BY <1>0, <1>6 DEF GetZone, Goto, Return
<1>7. ASSUME NEW t \in Threads, Acquire(t) PROVE LockInv'
  BY <1>0, <1>7 DEF Acquire, Goto
<1>8. ASSUME NEW t \in Threads, HealthCheck(t) PROVE LockInv'
  BY <1>0, <1>8 DEF HealthCheck, Goto
<1>9. ASSUME NEW t \in Threads, MarkLost(t) PROVE LockInv'
  BY <1>0, <1>9 DEF MarkLost, Goto
<1>10. ASSUME NEW t \in Threads, InstallConn(t) PROVE LockInv'
  BY <1>0, <1>10 DEF InstallConn, Goto
<1>11. ASSUME NEW t \in Threads, ConnectFails(t) PROVE LockInv'
  BY <1>0, <1>11 DEF ConnectFails, Goto
<1>12. ASSUME NEW t \in Threads, SetAutocommit(t) PROVE LockInv'
  BY <1>0, <1>12 DEF SetAutocommit, Goto, Escape, Return
<1>13. ASSUME NEW t \in Threads, InstallCursor(t) PROVE LockInv'
  BY <1>0, <1>13 DEF InstallCursor, Goto, Escape, Return
<1>14. ASSUME NEW t \in Threads, MarkConnected(t) PROVE LockInv'
  BY <1>0, <1>14 DEF MarkConnected, Goto
<1>15. ASSUME NEW t \in Threads, Write(t) PROVE LockInv'
  BY <1>0, <1>15 DEF Write, Goto, Return
<1>16. ASSUME NEW t \in Threads, DirectInsert(t) PROVE LockInv'
  BY <1>0, <1>16 DEF DirectInsert, Goto, DirectReturns
<1>17. ASSUME NEW t \in Threads, DirectCommit(t) PROVE LockInv'
  BY <1>0, <1>17 DEF DirectCommit, Goto, DirectReturns
<1>18. ASSUME NEW t \in Threads, ReportNext(t) PROVE LockInv'
  BY <1>0, <1>18 DEF ReportNext, Goto
<1>19. ASSUME NEW t \in Threads, StartReport(t) PROVE LockInv'
  BY <1>0, <1>19 DEF StartReport, Goto
<1>20. ASSUME NEW t \in Threads, NEW d \in Devices,
               ReceivePacket(t, d) \/ ReceiveMessage(t, d)
        PROVE  LockInv'
  BY <1>0, <1>20 DEF ReceivePacket, ReceiveMessage, Goto
<1>21. CASE \/ DbStops \/ DbStarts \/ CloseCursor \/ CloseConn \/ MarkDisconnected
             \/ \E d \in Devices : Register(d)
  BY <1>21 DEF DbStops, DbStarts, CloseCursor, CloseConn, MarkDisconnected, Register
<1> QED
  BY <1>u, <1>1, <1>2, <1>3, <1>4, <1>5, <1>6, <1>7, <1>8, <1>9, <1>10, <1>11,
     <1>12, <1>13, <1>14, <1>15, <1>16, <1>17, <1>18, <1>19, <1>20, <1>21
     DEF Next, Step

----------------------------------------------------------------------------
(* The connection *)

\* The shared cursor does not come back to life.
StaysDead ==
    /\ link = "closed" => link' = "closed"
    /\ cursor'.open => cursor.open
    /\ cursor'.has => cursor'.open

\* Only the installation of a new connection and of its cursor can bring it
\* back.
LEMMA DeadStaysDead ==
    ASSUME [Next]_vars, cursor.has => cursor.open,
           \A t \in Threads : ~InstallConn(t) /\ ~InstallCursor(t)
    PROVE  StaysDead
<1> USE DEF StaysDead
<1>u. CASE UNCHANGED vars
  BY <1>u DEF vars
<1>1. CASE UNCHANGED <<link, cursor>>
  BY <1>1
<1>2. ASSUME NEW t \in Threads, Select(t) \/ Write(t)
      PROVE  StaysDead
  <2>1. \/ UNCHANGED <<link, cursor>>
        \/ \E r \in {NoResult, Rows(devices)} : Execute(r)
    BY <1>2 DEF Select, Write
  <2>2. ASSUME NEW r \in {NoResult, Rows(devices)}, Execute(r) PROVE StaysDead
    BY <2>2 DEF Execute, AfterSend, NoResult, Rows
  <2> QED
    BY <2>1, <2>2
<1>3. ASSUME NEW t \in Threads, Fetch(t) PROVE StaysDead
  BY <1>3 DEF Fetch, Rows
<1>4. ASSUME NEW t \in Threads, DirectInsert(t) \/ DirectCommit(t) PROVE StaysDead
  BY <1>4 DEF DirectInsert, DirectCommit, AfterSend
<1>5. CASE DbStops \/ CloseCursor \/ CloseConn
  BY <1>5 DEF DbStops, CloseCursor, CloseConn, Unusable
<1>6. ASSUME NEW t \in Threads,
             \/ Gate(t) \/ CheckCache(t) \/ Assign(t) \/ GetZone(t) \/ Acquire(t)
             \/ HealthCheck(t) \/ MarkLost(t) \/ ConnectFails(t)
             \/ SetAutocommit(t) \/ MarkConnected(t) \/ ReportNext(t)
             \/ StartReport(t)
      PROVE  UNCHANGED <<link, cursor>>
  BY <1>6 DEF Gate, CheckCache, Assign, GetZone, Acquire, HealthCheck, MarkLost,
              ConnectFails, SetAutocommit, MarkConnected, ReportNext,
              StartReport, connVars
<1>7. ASSUME NEW t \in Threads, NEW d \in Devices,
             ReceivePacket(t, d) \/ ReceiveMessage(t, d)
      PROVE  UNCHANGED <<link, cursor>>
  BY <1>7 DEF ReceivePacket, ReceiveMessage, connVars
<1>8. ASSUME NEW d \in Devices, Register(d) PROVE UNCHANGED <<link, cursor>>
  BY <1>8 DEF Register, connVars
<1>9. CASE DbStarts \/ MarkDisconnected
  BY <1>9 DEF DbStarts, MarkDisconnected, connVars
<1> QED
  BY <1>u, <1>1, <1>2, <1>3, <1>4, <1>5, <1>6, <1>7, <1>8, <1>9 DEF Next, Step

\* What the remaining steps do to the threads inside connect() and to the flag:
\* none enters, and none passes a line of it.
LEMMA OutsideConnect ==
    ASSUME TypeOK, [Next]_vars,
           \A t \in Threads : /\ ~HealthCheck(t) /\ ~MarkLost(t) /\ ~InstallConn(t)
                              /\ ~SetAutocommit(t) /\ ~InstallCursor(t)
                              /\ ~MarkConnected(t)
    PROVE  /\ \A t \in Threads :
                /\ pc'[t] \in Reconnecting \ {"health"} => pc'[t] = pc[t]
                /\ pc[t] = "flag" => pc'[t] = "flag"
           /\ closing' = "no" => closing = "no" /\ connected' = connected
<1>0. pc \in [Threads -> PCs]
  BY DEF TypeOK
<1> USE DEF Reconnecting
<1>u. CASE UNCHANGED vars
  BY <1>u DEF vars
<1> DEFINE Outside == /\ \A t \in Threads :
                           /\ pc'[t] \in Reconnecting \ {"health"} => pc'[t] = pc[t]
                           /\ pc[t] = "flag" => pc'[t] = "flag"
                      /\ closing' = closing /\ connected' = connected
<1>1. ASSUME NEW t \in Threads,
             \/ Gate(t) \/ CheckCache(t) \/ Select(t) \/ Fetch(t) \/ Assign(t)
             \/ GetZone(t) \/ Acquire(t) \/ ConnectFails(t)
      PROVE  Outside
  BY <1>0, <1>1 DEF Gate, CheckCache, Select, Fetch, Assign, GetZone, Acquire,
                    ConnectFails, Goto, Return, AfterLoad, auxVars, connVars
<1>2. ASSUME NEW t \in Threads,
             \/ Write(t) \/ DirectInsert(t) \/ DirectCommit(t)
             \/ ReportNext(t) \/ StartReport(t)
      PROVE  Outside
  BY <1>0, <1>2 DEF Write, DirectInsert, DirectCommit, DirectReturns, ReportNext,
                    StartReport, Goto, Return, auxVars, connVars
<1>3. ASSUME NEW t \in Threads, NEW d \in Devices,
             ReceivePacket(t, d) \/ ReceiveMessage(t, d)
      PROVE  Outside
  BY <1>0, <1>3 DEF ReceivePacket, ReceiveMessage, Goto, auxVars, connVars
<1>4. CASE \/ DbStops \/ DbStarts \/ CloseCursor \/ CloseConn \/ MarkDisconnected
            \/ \E d \in Devices : Register(d)
  BY <1>4 DEF DbStops, DbStarts, CloseCursor, CloseConn, MarkDisconnected, Register,
              auxVars, connVars
<1> QED
  BY <1>u, <1>1, <1>2, <1>3, <1>4 DEF Next, Step

LEMMA LinkNext == TypeOK /\ LockInv /\ LinkInv /\ [Next]_vars => LinkInv'
<1> SUFFICES ASSUME TypeOK, LockInv, LinkInv, [Next]_vars PROVE LinkInv'
  OBVIOUS
<1>0. pc \in [Threads -> PCs]
  BY DEF TypeOK
\* The owner of the lock is the only thread inside connect().
<1>a. \A t, u \in Threads :
        pc[t] \in Reconnecting /\ pc[u] \in Reconnecting => t = u
  BY DEF LockInv, InLockedSection, Reconnecting
<1> USE DEF LinkInv, Live
<1>1. ASSUME NEW t \in Threads, HealthCheck(t) PROVE LinkInv'
  <2>1. UNCHANGED <<link, cursor, connected, closing>>
    BY <1>1 DEF HealthCheck, connVars, auxVars
  <2>2. pc[t] = "health" /\ (pc'[t] = "write" \/ (pc'[t] = "lost" /\ link = "closed"))
    BY <1>0, <1>1 DEF HealthCheck, Goto
  <2>3. \A u \in Threads : u # t => pc'[u] = pc[u]
    BY <1>0, <1>1 DEF HealthCheck, Goto
  <2> QED
    BY <2>1, <2>2, <2>3
<1>2. ASSUME NEW t \in Threads, MarkLost(t) PROVE LinkInv'
  <2>1. /\ UNCHANGED <<link, cursor, closing>>
        /\ pc[t] = "lost" /\ pc'[t] = "connect"
        /\ \A u \in Threads : u # t => pc'[u] = pc[u]
    BY <1>0, <1>2 DEF MarkLost, Goto, auxVars
  <2> QED
    BY <2>1
<1>3. ASSUME NEW t \in Threads, InstallConn(t) PROVE LinkInv'
  <2>1. /\ cursor' = Unusable /\ pc[t] = "connect" /\ pc'[t] = "autocommit"
        /\ \A u \in Threads : u # t => pc'[u] = pc[u]
    BY <1>0, <1>3 DEF InstallConn, Goto
  <2>2. \A u \in Threads : u # t => pc'[u] \notin {"lost", "connect"}
    BY <1>a, <2>1 DEF Reconnecting
  <2> QED
    BY <2>1, <2>2 DEF Unusable
<1>4. ASSUME NEW t \in Threads, SetAutocommit(t) PROVE LinkInv'
  <2>1. UNCHANGED <<link, cursor, connected, closing>>
    BY <1>4 DEF SetAutocommit, auxVars
  <2>2. /\ pc[t] = "autocommit" /\ pc'[t] \in {"cursor", "check", "idle", "report"}
        /\ \A u \in Threads : u # t => pc'[u] = pc[u]
    BY <1>0, <1>4 DEF SetAutocommit, Escape, Return, Goto
  <2> QED
    BY <2>1, <2>2
<1>5. ASSUME NEW t \in Threads, InstallCursor(t) PROVE LinkInv'
  <2>1. /\ UNCHANGED <<link, connected, closing>>
        /\ pc[t] = "cursor"
        /\ \/ cursor' = NoResult /\ pc'[t] = "flag"
           \/ cursor' = cursor /\ pc'[t] \in {"check", "idle", "report"}
        /\ \A u \in Threads : u # t => pc'[u] = pc[u]
    BY <1>0, <1>5 DEF InstallCursor, Escape, Return, Goto, auxVars
  <2>2. \A u \in Threads : u # t => pc'[u] \notin {"autocommit", "cursor"}
    BY <1>a, <2>1 DEF Reconnecting
  <2> QED
    BY <2>1, <2>2 DEF NoResult
<1>6. ASSUME NEW t \in Threads, MarkConnected(t) PROVE LinkInv'
  <2>1. /\ UNCHANGED <<link, cursor, closing>> /\ connected'
        /\ pc[t] = "flag" /\ pc'[t] = "select"
        /\ \A u \in Threads : u # t => pc'[u] = pc[u]
    BY <1>0, <1>6 DEF MarkConnected, Goto, auxVars
  <2> QED
    BY <2>1
<1>7. CASE \A t \in Threads : /\ ~HealthCheck(t) /\ ~MarkLost(t) /\ ~InstallConn(t)
                              /\ ~SetAutocommit(t) /\ ~InstallCursor(t)
                              /\ ~MarkConnected(t)
  <2>1. /\ \A t \in Threads :
             /\ pc'[t] \in Reconnecting \ {"health"} => pc'[t] = pc[t]
             /\ pc[t] = "flag" => pc'[t] = "flag"
        /\ closing' = "no" => closing = "no" /\ connected' = connected
    BY <1>7, OutsideConnect
  <2>2. StaysDead
    BY <1>7, DeadStaysDead
  <2> QED
    BY <2>1, <2>2 DEF StaysDead, Reconnecting
<1> QED
  BY <1>1, <1>2, <1>3, <1>4, <1>5, <1>6, <1>7

----------------------------------------------------------------------------
(* The log *)

\* A step that leaves the log alone and opens no thread.
LEMMA QuietSlots ==
    ASSUME SlotInv, log' = log, slot' = slot,
           \A u \in Threads : Open(u)' => Open(u) /\ dev'[u] = dev[u]
    PROVE  SlotInv'
  BY DEF SlotInv

\* A step that settles the entry of a thread that is through with it.
LEMMA SettleSlots ==
    ASSUME TypeOK, SlotInv, NEW t \in Threads, NEW fate \in Fates,
           Settle(t, fate), slot' = slot, dev' = dev, Return(t), Open(t)
    PROVE  SlotInv'
<1>0. LogType /\ slot[t] \in Nat /\ pc \in [Threads -> PCs] /\ job \in [Threads -> Jobs]
  BY DEF TypeOK, LogType, Entry
<1>1. ~Open(t)' /\ \A u \in Threads : u # t => (Open(u)' => Open(u))
  BY <1>0 DEF Return, Goto, Open
<1>2. /\ DOMAIN log' = DOMAIN log
      /\ \A i \in DOMAIN log : i # slot[t] => log'[i] = log[i]
  BY <1>0, SettleLog
<1> QED
  BY <1>1, <1>2 DEF SlotInv

LEMMA SlotNext == TypeOK /\ LockInv /\ SlotInv /\ [Next]_vars => SlotInv'
<1> SUFFICES ASSUME TypeOK, LockInv, SlotInv, [Next]_vars PROVE SlotInv'
  OBVIOUS
<1>0. pc \in [Threads -> PCs] /\ job \in [Threads -> Jobs]
  BY DEF TypeOK
<1> USE DEF Open
<1>u. CASE UNCHANGED vars
  BY <1>u, QuietSlots DEF vars
<1>1. ASSUME NEW t \in Threads, Gate(t) PROVE SlotInv'
  <2>1. CASE ~connected /\ job[t] = "packet"
    <3>1. Open(t) /\ Settle(t, "offline") /\ Return(t) /\ slot' = slot /\ dev' = dev
      BY <1>1, <2>1 DEF Gate
    <3> QED
      BY <3>1, SettleSlots DEF Fates
  <2>2. CASE connected \/ job[t] # "packet"
    <3>1. \A u \in Threads : Open(u)' => Open(u)
      BY <1>0, <1>1, <2>2 DEF Gate, Return, Goto
    <3> QED
      BY <1>1, <2>2, <3>1, QuietSlots DEF Gate
  <2> QED
    BY <2>1, <2>2
<1>2. ASSUME NEW t \in Threads,
             \/ CheckCache(t) \/ Select(t) \/ Fetch(t) \/ Assign(t)
             \/ Acquire(t) \/ HealthCheck(t) \/ MarkLost(t) \/ InstallConn(t)
             \/ ConnectFails(t) \/ MarkConnected(t)
      PROVE  SlotInv'
  <2>1. job' = job /\ log' = log /\ slot' = slot /\ dev' = dev
    BY <1>2 DEF CheckCache, Select, Fetch, Assign, Acquire, HealthCheck, MarkLost,
                InstallConn, ConnectFails, MarkConnected, localVars
  <2>2. pc[t] \notin {"idle", "report"} /\ \E l \in PCs : Goto(t, l) \/ UNCHANGED pc
    BY <1>2 DEF CheckCache, Select, Fetch, Assign, Acquire, HealthCheck, MarkLost,
                InstallConn, ConnectFails, MarkConnected, AfterLoad, Goto, PCs
  <2>3. \A u \in Threads : Open(u)' => Open(u)
    BY <1>0, <2>1, <2>2 DEF Goto
  <2> QED
    BY <2>1, <2>3, QuietSlots
<1>3. ASSUME NEW t \in Threads, GetZone(t) PROVE SlotInv'
  <2>1. CASE dev[t] \in cache \/ job[t] \notin {"packet", "message"}
    <3>1. \A u \in Threads : Open(u)' => Open(u)
      BY <1>0, <1>3, <2>1 DEF GetZone, Return, Goto
    <3>2. log' = log /\ slot' = slot /\ dev' = dev
      BY <1>3, <2>1 DEF GetZone, localVars
    <3> QED
      BY <3>1, <3>2, QuietSlots
  <2>2. CASE dev[t] \notin cache /\ job[t] \in {"packet", "message"}
    <3>1. Open(t) /\ Settle(t, "unknown") /\ Return(t) /\ slot' = slot /\ dev' = dev
      BY <1>3, <2>2 DEF GetZone, localVars
    <3> QED
      BY <3>1, SettleSlots DEF Fates
  <2> QED
    BY <2>1, <2>2
<1>4. ASSUME NEW t \in Threads, Write(t) PROVE SlotInv'
  <2>1. CASE job[t] \in {"packet", "message"}
    <3>1. /\ Open(t) /\ Return(t) /\ slot' = slot /\ dev' = dev
          /\ Settle(t, "stored") \/ Settle(t, "lost")
      BY <1>4, <2>1 DEF Write, localVars
    <3> QED
      BY <3>1, SettleSlots DEF Fates
  <2>2. CASE job[t] \notin {"packet", "message"}
    <3>1. \A u \in Threads : Open(u)' => Open(u)
      BY <1>0, <1>4, <2>2 DEF Write, Return, Goto
    <3>2. log' = log /\ slot' = slot /\ dev' = dev
      BY <1>4, <2>2 DEF Write, localVars
    <3> QED
      BY <3>1, <3>2, QuietSlots
  <2> QED
    BY <2>1, <2>2
<1>5. ASSUME NEW t \in Threads, SetAutocommit(t) \/ InstallCursor(t) PROVE SlotInv'
  <2>1. pc[t] \in {"autocommit", "cursor"} /\ slot' = slot /\ dev' = dev
    BY <1>5 DEF SetAutocommit, InstallCursor, localVars
  <2>2. Open(t)
    BY <2>1 DEF LockInv, Reconnecting
  <2>3. CASE Escape(t)
    BY <2>1, <2>2, <2>3, SettleSlots DEF Escape, Fates
  <2>4. CASE ~Escape(t)
    <3>1. log' = log /\ job' = job /\ \A u \in Threads : u # t => pc'[u] = pc[u]
      BY <1>0, <1>5, <2>4 DEF SetAutocommit, InstallCursor, Goto
    <3> QED
      BY <2>1, <2>2, <3>1, QuietSlots
  <2> QED
    BY <2>3, <2>4
<1>6. ASSUME NEW t \in Threads, ReportNext(t) \/ StartReport(t) PROVE SlotInv'
  <2>1. \A u \in Threads : Open(u)' => u # t /\ Open(u)
    BY <1>0, <1>6 DEF ReportNext, StartReport, Goto
  <2>2. dev \in [Threads -> Devices]
    BY DEF TypeOK
  <2>3. \A u \in Threads : u # t => dev'[u] = dev[u]
    BY <1>6, <2>2 DEF ReportNext, StartReport
  <2>4. log' = log /\ slot' = slot
    BY <1>6 DEF ReportNext, StartReport
  <2> QED
    BY <2>1, <2>3, <2>4, QuietSlots
<1>7. ASSUME NEW t \in Threads, DirectInsert(t) \/ DirectCommit(t) PROVE SlotInv'
  <2>1. \A u \in Threads : Open(u)' => Open(u)
    BY <1>0, <1>7 DEF DirectInsert, DirectCommit, DirectReturns, Goto
  <2>2. log' = log /\ slot' = slot /\ dev' = dev
    BY <1>7 DEF DirectInsert, DirectCommit, localVars
  <2> QED
    BY <2>1, <2>2, QuietSlots
<1>8. ASSUME NEW t \in Threads, NEW d \in Devices,
             ReceivePacket(t, d) \/ ReceiveMessage(t, d)
      PROVE  SlotInv'
  <2> DEFINE n == Len(log) + 1
             e == [dev |-> d, fate |-> "pending"]
  <2>1. /\ LogType /\ e \in Entry
        /\ slot \in [Threads -> Nat] /\ dev \in [Threads -> Devices]
    BY DEF TypeOK, LogType, Entry, Fates
  <2>2. /\ log' = Append(log, e)
        /\ slot' = [slot EXCEPT ![t] = n] /\ dev' = [dev EXCEPT ![t] = d]
    BY <1>8 DEF ReceivePacket, ReceiveMessage
  <2>3. /\ DOMAIN log' = DOMAIN log \cup {n} /\ n \notin DOMAIN log
        /\ \A i \in DOMAIN log : log'[i] = log[i]
        /\ log'[n] = e
    BY <2>1, <2>2, AppendLog
  <2>4. ~Open(t) /\ \A u \in Threads : u # t => (Open(u)' => Open(u))
    BY <1>0, <1>8 DEF ReceivePacket, ReceiveMessage, Goto
  <2> HIDE DEF n
  <2> QED
    BY <2>1, <2>2, <2>3, <2>4 DEF SlotInv
<1>9. CASE \/ DbStops \/ DbStarts \/ CloseCursor \/ CloseConn \/ MarkDisconnected
            \/ \E d \in Devices : Register(d)
  BY <1>9, QuietSlots DEF DbStops, DbStarts, CloseCursor, CloseConn, MarkDisconnected, Register,
              localVars
<1> QED
  BY <1>u, <1>1, <1>2, <1>3, <1>4, <1>5, <1>6, <1>7, <1>8, <1>9 DEF Next, Step

----------------------------------------------------------------------------
(* The zone cache *)

\* No unknown reading came from a device registered at the start.
UnknownFine == \A i \in DOMAIN log : log[i].fate = "unknown" => log[i].dev \notin Registered

\* Settling an entry otherwise, or as unknown when its device is.
LEMMA SettleKnown ==
    ASSUME TypeOK, SlotInv, NEW t \in Threads, NEW fate \in Fates,
           Open(t), Settle(t, fate), UnknownFine,
           fate = "unknown" => dev[t] \notin Registered
    PROVE  UnknownFine'
<1>1. LogType /\ slot[t] \in Nat
  BY DEF TypeOK, LogType, Entry
<1>2. /\ DOMAIN log' = DOMAIN log
      /\ \A i \in DOMAIN log : /\ log'[i].dev = log[i].dev
                               /\ i # slot[t] => log'[i] = log[i]
      /\ slot[t] \in DOMAIN log => log'[slot[t]].fate = fate
  BY <1>1, SettleLog
<1>3. slot[t] \in DOMAIN log => log[slot[t]].dev = dev[t]
  BY DEF SlotInv
<1> QED
  BY <1>2, <1>3 DEF UnknownFine

\* The part of CacheInv about the threads that are loading.
LoadFine ==
    \A t \in Threads :
        /\ pc[t] = "fetch" /\ cursor.has => Registered \subseteq cursor.rows
        /\ pc[t] = "assign" => Registered \subseteq loaded[t]
        /\ \A u \in Threads : pc[t] = "fetch" /\ pc[u] = "fetch" => t = u

LEMMA CacheParts ==
    CacheInv <=> (~overlapped => /\ Registered \subseteq cache
                                 /\ Registered \subseteq devices
                                 /\ UnknownFine /\ LoadFine)
  BY DEF CacheInv, UnknownFine, LoadFine

\* A step that loads nothing and leaves a cursor as it is or without rows.
LEMMA QuietLoads ==
    ASSUME LoadFine, loaded' = loaded,
           cursor' = cursor \/ ~cursor'.has,
           \A u \in Threads : pc'[u] \in Loading => pc'[u] = pc[u]
    PROVE  LoadFine'
  BY DEF LoadFine, Loading

LEMMA CacheNext ==
    TypeOK /\ LockInv /\ SlotInv /\ CacheInv /\ [Next]_vars => CacheInv'
<1> SUFFICES ASSUME TypeOK, LockInv, SlotInv, CacheInv, [Next]_vars, ~overlapped'
             PROVE  /\ Registered \subseteq cache' /\ Registered \subseteq devices'
                    /\ UnknownFine' /\ LoadFine'
  BY DEF CacheInv, UnknownFine, LoadFine
<1>0. /\ pc \in [Threads -> PCs] /\ job \in [Threads -> Jobs]
      /\ loaded \in [Threads -> SUBSET Devices]
  BY DEF TypeOK
\* The threads whose SELECT has not overlapped another's fetch stay so.
<1>a. overlapped => overlapped'
  <2>1. ASSUME NEW t \in Threads,
               \/ Gate(t) \/ CheckCache(t) \/ Fetch(t) \/ Assign(t) \/ GetZone(t)
               \/ Acquire(t) \/ HealthCheck(t) \/ MarkLost(t) \/ InstallConn(t)
               \/ ConnectFails(t) \/ SetAutocommit(t) \/ InstallCursor(t)
               \/ MarkConnected(t) \/ Write(t) \/ DirectInsert(t) \/ DirectCommit(t)
               \/ ReportNext(t) \/ StartReport(t)
        PROVE  overlapped' = overlapped
    BY <2>1 DEF Gate, CheckCache, Fetch, Assign, GetZone, Acquire, HealthCheck,
                MarkLost, InstallConn, ConnectFails, SetAutocommit, InstallCursor,
                MarkConnected, Write, DirectInsert, DirectCommit, ReportNext,
                StartReport, auxVars
  <2>2. ASSUME NEW t \in Threads, Select(t) PROVE overlapped => overlapped'
    BY <2>2 DEF Select
  <2>3. ASSUME NEW t \in Threads, NEW d \in Devices,
               ReceivePacket(t, d) \/ ReceiveMessage(t, d)
        PROVE  overlapped' = overlapped
    BY <2>3 DEF ReceivePacket, ReceiveMessage, auxVars
  <2>4. CASE \/ DbStops \/ DbStarts \/ CloseCursor \/ CloseConn \/ MarkDisconnected
            \/ \E d \in Devices : Register(d)
    BY <2>4 DEF DbStops, DbStarts, CloseCursor, CloseConn, MarkDisconnected, Register,
                auxVars
  <2>5. CASE UNCHANGED vars
    BY <2>5 DEF vars
  <2> QED
    BY <2>1, <2>2, <2>3, <2>4, <2>5 DEF Next, Step
<1>b. /\ Registered \subseteq cache /\ Registered \subseteq devices
      /\ UnknownFine /\ LoadFine
  BY <1>a, CacheParts
\* What keeps the whole invariant: the same store, and quiet loads.
<1>c. ASSUME cache' = cache, devices' = devices, UnknownFine', LoadFine'
      PROVE  /\ Registered \subseteq cache' /\ Registered \subseteq devices'
             /\ UnknownFine' /\ LoadFine'
  BY <1>b, <1>c
<1> DEFINE Kept == /\ Registered \subseteq cache' /\ Registered \subseteq devices'
                   /\ UnknownFine' /\ LoadFine'
<1>u. CASE UNCHANGED vars
  BY <1>b, <1>u DEF vars, UnknownFine, LoadFine
<1>1. ASSUME NEW t \in Threads,
             Gate(t) \/ Write(t) \/ SetAutocommit(t) \/ InstallCursor(t)
      PROVE  Kept
  <2>1. cache' = cache /\ devices' = devices /\ loaded' = loaded
    BY <1>1 DEF Gate, Write, SetAutocommit, InstallCursor, dbVars, localVars
  <2>2. cursor' = cursor \/ ~cursor'.has
    BY <1>1 DEF Gate, Write, Execute, SetAutocommit, InstallCursor, NoResult, connVars
  <2>3. \A u \in Threads : pc'[u] \in Loading => pc'[u] = pc[u]
    BY <1>0, <1>1 DEF Gate, Write, SetAutocommit, InstallCursor, Escape, Return,
                      Goto, Loading
  <2>4. \/ log' = log
        \/ Open(t) /\ \E fate \in Fates \ {"unknown"} : Settle(t, fate)
    BY <1>1 DEF Gate, Write, SetAutocommit, InstallCursor, Escape, Fates, Open,
                LockInv, Reconnecting
  <2>5. UnknownFine'
    <3>1. CASE log' = log
      BY <1>b, <3>1 DEF UnknownFine
    <3> QED
      BY <1>b, <2>4, <3>1, SettleKnown
  <2> QED
    BY <1>b, <2>1, <2>2, <2>3, <2>5, QuietLoads
<1>2. ASSUME NEW t \in Threads,
             \/ CheckCache(t) \/ Acquire(t) \/ HealthCheck(t) \/ MarkLost(t)
             \/ InstallConn(t) \/ ConnectFails(t) \/ MarkConnected(t)
             \/ DirectInsert(t) \/ DirectCommit(t) \/ ReportNext(t) \/ StartReport(t)
      PROVE  Kept
  <2>1. cache' = cache /\ devices' = devices /\ loaded' = loaded /\ log' = log
    BY <1>2 DEF CheckCache, Acquire, HealthCheck, MarkLost, InstallConn,
                ConnectFails, MarkConnected, DirectInsert, DirectCommit, ReportNext,
                StartReport, dbVars, localVars
  <2>2. cursor' \in {cursor, Unusable}
    BY <1>2 DEF CheckCache, Acquire, HealthCheck, MarkLost, InstallConn,
                ConnectFails, MarkConnected, DirectInsert, DirectCommit, ReportNext,
                StartReport, connVars
  <2>3. \A u \in Threads : pc'[u] \in {"fetch", "assign"} => pc'[u] = pc[u]
    BY <1>0, <1>2 DEF CheckCache, Acquire, HealthCheck, MarkLost, InstallConn,
                ConnectFails, MarkConnected, DirectInsert, DirectCommit,
                DirectReturns, ReportNext, StartReport, Goto
  <2> QED
    BY <1>b, <2>1, <2>2, <2>3 DEF UnknownFine, LoadFine, Unusable
<1>3. ASSUME NEW t \in Threads, Select(t) PROVE Kept
  <2>1. cache' = cache /\ devices' = devices /\ loaded' = loaded /\ log' = log
    BY <1>3 DEF Select, dbVars, localVars
  <2>2. \A u \in Threads \ {t} : pc[u] # "fetch"
    BY <1>3 DEF Select
  <2>3. /\ pc'[t] # "assign" /\ \A u \in Threads \ {t} : pc'[u] = pc[u]
    BY <1>0, <1>3 DEF Select, AfterLoad, Goto
  <2>4. cursor' = Rows(devices) \/ pc'[t] # "fetch"
    BY <1>0, <1>3 DEF Select, Execute, AfterLoad, Goto
  <2> QED
    BY <1>b, <2>1, <2>2, <2>3, <2>4 DEF UnknownFine, LoadFine, Rows
<1>4. ASSUME NEW t \in Threads, Fetch(t) PROVE Kept
  <2>1. cache' = cache /\ devices' = devices /\ log' = log
    BY <1>4 DEF Fetch, dbVars
  <2>2. pc[t] = "fetch" /\ \A u \in Threads \ {t} : pc[u] # "fetch"
    BY <1>4, <1>b DEF Fetch, LoadFine
  <2>3. /\ pc'[t] # "fetch"
        /\ pc'[t] = "assign" => cursor.has /\ loaded'[t] = cursor.rows
        /\ \A u \in Threads \ {t} : pc'[u] = pc[u] /\ loaded'[u] = loaded[u]
    BY <1>0, <1>4 DEF Fetch, AfterLoad, Goto
  <2> QED
    BY <1>b, <2>1, <2>2, <2>3 DEF UnknownFine, LoadFine
<1>5. ASSUME NEW t \in Threads, Assign(t) PROVE Kept
  <2>1. /\ cache' = loaded[t] /\ devices' = devices /\ log' = log
        /\ cursor' = cursor /\ pc[t] = "assign"
    BY <1>5 DEF Assign, dbVars, connVars
  <2>2. /\ pc'[t] \notin Loading
        /\ \A u \in Threads \ {t} : pc'[u] = pc[u] /\ loaded'[u] = loaded[u]
    BY <1>0, <1>5 DEF Assign, AfterLoad, Goto, Loading
  <2> QED
    BY <1>b, <2>1, <2>2 DEF UnknownFine, LoadFine, Loading
<1>6. ASSUME NEW t \in Threads, GetZone(t) PROVE Kept
  <2>1. /\ cache' = cache /\ devices' = devices /\ loaded' = loaded
        /\ cursor' = cursor
    BY <1>6 DEF GetZone, dbVars, connVars, localVars
  <2>2. \A u \in Threads : pc'[u] \in Loading => pc'[u] = pc[u]
    BY <1>0, <1>6 DEF GetZone, Return, Goto, Loading
  <2>3. UnknownFine'
    <3>1. \/ log' = log
          \/ Open(t) /\ Settle(t, "unknown") /\ dev[t] \notin cache
      BY <1>6 DEF GetZone, Open
    <3>2. CASE log' = log
      BY <1>b, <3>2 DEF UnknownFine
    <3> QED
      BY <1>b, <3>1, <3>2, SettleKnown DEF Fates
  <2> QED
    BY <1>b, <2>1, <2>2, <2>3, QuietLoads
<1>7. ASSUME NEW t \in Threads, NEW d \in Devices,
             ReceivePacket(t, d) \/ ReceiveMessage(t, d)
       PROVE  Kept
  <2> DEFINE e == [dev |-> d, fate |-> "pending"]
  <2>1. LogType /\ e \in Entry
    BY DEF TypeOK, LogType, Entry, Fates
  <2>2. /\ log' = Append(log, e)
        /\ cache' = cache /\ devices' = devices /\ loaded' = loaded
        /\ cursor' = cursor
    BY <1>7 DEF ReceivePacket, ReceiveMessage, dbVars, connVars
  <2>3. /\ DOMAIN log' = DOMAIN log \cup {Len(log) + 1}
        /\ \A i \in DOMAIN log : log'[i] = log[i]
        /\ log'[Len(log) + 1] = e
    BY <2>1, <2>2, AppendLog
  <2>4. \A u \in Threads : pc'[u] \in Loading => pc'[u] = pc[u]
    BY <1>0, <1>7 DEF ReceivePacket, ReceiveMessage, Goto, Loading
  <2>5. UnknownFine'
    BY <1>b, <2>3 DEF UnknownFine
  <2> QED
    BY <1>b, <2>2, <2>4, <2>5, QuietLoads
<1>8. CASE \/ DbStops \/ DbStarts \/ CloseCursor \/ CloseConn \/ MarkDisconnected
            \/ \E d \in Devices : Register(d)
  <2>1. /\ cache' = cache /\ devices \subseteq devices' /\ loaded' = loaded
        /\ log' = log /\ pc' = pc
        /\ cursor' = cursor \/ ~cursor'.has
    BY <1>8 DEF DbStops, DbStarts, CloseCursor, CloseConn, MarkDisconnected, Register,
                dbVars, connVars, localVars, Unusable
  <2> QED
    BY <1>b, <2>1, QuietLoads DEF UnknownFine
<1> QED
  BY <1>u, <1>1, <1>2, <1>3, <1>4, <1>5, <1>6, <1>7, <1>8 DEF Next, Step

----------------------------------------------------------------------------
(* The theorems *)

LEMMA InitInv == Init => IInv /\ CacheInv
<1> SUFFICES ASSUME Init PROVE IInv /\ CacheInv
  OBVIOUS
<1>1. TypeOK
  BY InitTypes
<1>2. LockInv
  BY ThreadAssumption DEF Init, LockInv, InLockedSection, Reconnecting, Loading
<1>3. LinkInv /\ SlotInv
  BY DEF Init, LinkInv, SlotInv, Open, Rows
<1>4. CacheInv
  BY DeviceAssumption DEF Init, CacheInv
<1> QED
  BY <1>1, <1>2, <1>3, <1>4 DEF IInv

LEMMA NextInv == IInv /\ CacheInv /\ [Next]_vars => IInv' /\ CacheInv'
  BY NextTypes, LockNext, LinkNext, SlotNext, CacheNext DEF IInv

LEMMA Invariance == Spec => [](IInv /\ CacheInv)
  BY InitInv, NextInv, PTL DEF Spec

\* The `with self.lock` sections of db_writer.py exclude each other, for any
\* number of threads, through every reconnection.
THEOREM LockedSectionsAreExclusive == Spec => []LockedSectionsExclusive
<1>1. IInv => LockedSectionsExclusive
  BY DEF IInv, LockInv, LockedSectionsExclusive
<1> QED
  BY <1>1, Invariance, PTL

\* Until a SELECT of the devices overtakes another thread's fetch, the zone
\* cache keeps every device registered at the start and none of their readings
\* is dropped as unknown.
THEOREM CacheIsKept == Spec => []ReloadsKeepCache
<1>1. CacheInv => ReloadsKeepCache
  BY DEF CacheInv, ReloadsKeepCache
<1> QED
  BY <1>1, Invariance, PTL

\* A step from a state in which the writer gave up.
Final ==
    /\ GaveUp'
    /\ Stored' \ Stored \subseteq {slot[t] : t \in Subscribers}
    /\ ~Live => ~Live' /\ Stored' = Stored

\* A thread that is not past the connected check cannot pass it once the writer
\* reads disconnected, and nobody else installs a connection.
LEMMA GaveUpStep == IInv /\ [Next]_vars /\ GaveUp => Final
<1> SUFFICES ASSUME IInv, [Next]_vars, GaveUp PROVE Final
  OBVIOUS
<1>0. /\ pc \in [Threads -> PCs] /\ job \in [Threads -> Jobs]
      /\ LogType /\ slot \in [Threads -> Nat]
  BY DEF IInv, TypeOK, LogType, Entry
<1>a. ~connected /\ \A t \in Threads : ~PastGate(t)
  BY DEF GaveUp
<1>b. ASSUME NEW t \in Threads
      PROVE  /\ pc[t] \notin Reconnecting
             /\ ~HealthCheck(t) /\ ~MarkLost(t) /\ ~InstallConn(t) /\ ~ConnectFails(t)
             /\ ~SetAutocommit(t) /\ ~InstallCursor(t) /\ ~MarkConnected(t)
  <2>1. pc[t] \notin Reconnecting
    BY <1>a DEF PastGate, IInv, LockInv, Reconnecting
  <2> QED
    BY <2>1 DEF HealthCheck, MarkLost, InstallConn, ConnectFails, SetAutocommit,
                InstallCursor, MarkConnected, Reconnecting
<1>c. ~Live => ~Live'
  BY <1>b, DeadStaysDead DEF Live, StaysDead, IInv, LinkInv
\* The log: what a settled entry adds to the stored ones.
<1>d. ASSUME NEW t \in Threads, NEW fate \in Fates, Settle(t, fate), Open(t)
      PROVE  Stored' = IF fate = "stored" THEN Stored \cup {slot[t]} ELSE Stored
  <2>1. /\ DOMAIN log' = DOMAIN log
        /\ \A i \in DOMAIN log : i # slot[t] => log'[i] = log[i]
        /\ slot[t] \in DOMAIN log
        /\ log'[slot[t]].fate = fate /\ log[slot[t]].fate = "pending"
    BY <1>0, <1>d, SettleLog DEF IInv, SlotInv
  <2> QED
    BY <2>1 DEF Stored
\* What suffices of a step.
<1>e. ASSUME connected' = connected \/ ~connected',
             \A u \in Threads : PastGate(u)' => PastGate(u),
             Stored' = Stored
      PROVE  Final
  BY <1>a, <1>c, <1>e DEF Final, GaveUp
<1>u. CASE UNCHANGED vars
  BY <1>e, <1>u DEF vars, Stored, PastGate
<1>1. ASSUME NEW t \in Threads, Gate(t) PROVE Final
  <2>1. connected' = connected
    BY <1>1 DEF Gate, connVars
  <2>2. \A u \in Threads : PastGate(u)' => PastGate(u)
    BY <1>0, <1>a, <1>1 DEF Gate, Return, Goto, PastGate
  <2>3. log' = log \/ (Settle(t, "offline") /\ Open(t))
    BY <1>a, <1>1 DEF Gate, Open
  <2>4. Stored' = Stored
    <3>1. CASE log' = log
      BY <3>1 DEF Stored
    <3> QED
      BY <2>3, <3>1, <1>d DEF Fates
  <2> QED
    BY <1>e, <2>1, <2>2, <2>4
<1>2. ASSUME NEW t \in Threads, GetZone(t) PROVE Final
  <2>1. connected' = connected
    BY <1>2 DEF GetZone, connVars
  <2>2. \A u \in Threads : PastGate(u)' => PastGate(u)
    BY <1>0, <1>2 DEF GetZone, Return, Goto, PastGate
  <2>3. log' = log \/ (Settle(t, "unknown") /\ Open(t))
    BY <1>2 DEF GetZone, Open
  <2>4. Stored' = Stored
    <3>1. CASE log' = log
      BY <3>1 DEF Stored
    <3> QED
      BY <2>3, <3>1, <1>d DEF Fates
  <2> QED
    BY <1>e, <2>1, <2>2, <2>4
<1>3. ASSUME NEW t \in Threads, Write(t) PROVE Final
  <2>1. connected' = connected
    BY <1>3 DEF Write
  <2>2. \A u \in Threads : PastGate(u)' => PastGate(u)
    BY <1>0, <1>3 DEF Write, Return, Goto, PastGate
  <2>3. \/ log' = log
        \/ Settle(t, "lost") /\ Open(t)
        \/ Settle(t, "stored") /\ Open(t) /\ Live /\ job[t] = "message"
    BY <1>3, <1>a DEF Write, Open, Live, PastGate
  <2>4. CASE log' = log
    BY <1>e, <2>1, <2>2, <2>4 DEF Stored
  <2>5. CASE Settle(t, "lost") /\ Open(t)
    BY <1>d, <1>e, <2>1, <2>2, <2>5 DEF Fates
  <2>6. CASE Settle(t, "stored") /\ Open(t) /\ Live /\ job[t] = "message"
    <3>1. Stored' = Stored \cup {slot[t]}
      BY <1>d, <2>6 DEF Fates
    <3>2. t \in Subscribers
      BY <2>6 DEF IInv, LockInv
    <3> QED
      BY <1>a, <2>1, <2>2, <2>6, <3>1, <3>2 DEF Final, GaveUp
  <2> QED
    BY <2>3, <2>4, <2>5, <2>6
<1>4. ASSUME NEW t \in Threads,
             \/ CheckCache(t) \/ Select(t) \/ Fetch(t) \/ Assign(t)
             \/ Acquire(t) \/ DirectInsert(t) \/ DirectCommit(t)
      PROVE  Final
  <2>1. log' = log /\ connected' = connected
    BY <1>4 DEF CheckCache, Select, Fetch, Assign, Acquire, DirectInsert,
                DirectCommit, connVars
  <2>2. pc[t] \notin {"idle", "gate", "report"}
    BY <1>4 DEF CheckCache, Select, Fetch, Assign, Acquire, DirectInsert,
                DirectCommit
  <2>3. job[t] # "packet"
    BY <1>a, <2>2 DEF PastGate
  <2>4. /\ job'[t] # "packet"
        /\ \A u \in Threads : u # t => pc'[u] = pc[u] /\ job'[u] = job[u]
    BY <1>0, <1>4, <2>3 DEF CheckCache, Select, Fetch, Assign, Acquire, AfterLoad,
                      DirectInsert, DirectCommit, DirectReturns, Goto
  <2> QED
    BY <1>e, <2>1, <2>4 DEF Stored, PastGate
<1>5. ASSUME NEW t \in Threads, ReportNext(t) \/ StartReport(t) PROVE Final
  <2>1. log' = log /\ connected' = connected
    BY <1>5 DEF ReportNext, StartReport, connVars
  <2>2. \A u \in Threads : \/ job'[u] = job[u] /\ pc'[u] = pc[u]
                           \/ job'[u] = "snapshot"
                           \/ pc'[u] \in {"idle", "report"}
    BY <1>0, <1>5 DEF ReportNext, StartReport, Goto
  <2> QED
    BY <1>e, <2>1, <2>2 DEF Stored, PastGate
<1>6. ASSUME NEW t \in Threads, NEW d \in Devices,
             ReceivePacket(t, d) \/ ReceiveMessage(t, d)
      PROVE  Final
  <2> DEFINE e == [dev |-> d, fate |-> "pending"]
  <2>1. e \in Entry /\ log' = Append(log, e)
    BY <1>6 DEF ReceivePacket, ReceiveMessage, Entry, Fates
  <2>2. /\ DOMAIN log' = DOMAIN log \cup {Len(log) + 1}
        /\ \A i \in DOMAIN log : log'[i] = log[i]
        /\ log'[Len(log) + 1] = e
    BY <1>0, <2>1, AppendLog
  <2>3. Stored' = Stored
    BY <2>2 DEF Stored
  <2>4. connected' = connected
    BY <1>6 DEF ReceivePacket, ReceiveMessage, connVars
  <2>5. \A u \in Threads : u # t => pc'[u] = pc[u] /\ job'[u] = job[u]
    BY <1>0, <1>6 DEF ReceivePacket, ReceiveMessage, Goto
  <2>6. \/ job'[t] = "packet" /\ pc'[t] = "gate"
        \/ job'[t] = "message"
    BY <1>0, <1>6 DEF ReceivePacket, ReceiveMessage, Goto
  <2> QED
    BY <1>e, <2>3, <2>4, <2>5, <2>6 DEF PastGate
<1>7. CASE \/ DbStops \/ DbStarts \/ CloseCursor \/ CloseConn \/ MarkDisconnected
            \/ \E d \in Devices : Register(d)
  <2>1. UNCHANGED <<log, pc, job>> /\ (connected' = connected \/ ~connected')
    BY <1>7 DEF DbStops, DbStarts, CloseCursor, CloseConn, MarkDisconnected, Register,
                connVars
  <2> QED
    BY <1>e, <2>1 DEF Stored, PastGate
<1> QED
  BY <1>b, <1>u, <1>1, <1>2, <1>3, <1>4, <1>5, <1>6, <1>7 DEF Next, Step

(***************************************************************************)
(* Giving up is final.  Unless the gateway is shutting down, a writer that *)
(* gave up has a dead cursor; and from then on no step of any thread, nor  *)
(* the server's return, reconnects it, stores a packet or, over the dead   *)
(* cursor, a message.                                                      *)
(***************************************************************************)
THEOREM GivingUpIsFinal == Spec => GaveUpIsFinal
<1>1. IInv => (GaveUp /\ closing = "no" => ~Live)
  BY DEF IInv, LinkInv, LockInv, GaveUp, PastGate, Reconnecting
<1>2. IInv /\ [Next]_vars =>
        [GaveUp => /\ GaveUp'
                   /\ Stored' \ Stored \subseteq {slot[t] : t \in Subscribers}
                   /\ ~Live => ~Live' /\ Stored' = Stored]_vars
  BY GaveUpStep DEF Final
<1> QED
  BY <1>1, <1>2, Invariance, PTL DEF Spec, GaveUpIsFinal

----------------------------------------------------------------------------
(* How long the lock is held *)

\* connect() counts its attempts from one to MAX_RETRIES.
AttemptInv == \A t \in Threads : pc[t] = "connect" => attempt[t] \in 1..MaxRetries

\* The number of steps, at most, until a thread that owns the lock releases it.
OwnerRank(t) ==
    CASE pc[t] = "health"     -> MaxRetries + 9
      [] pc[t] = "lost"       -> MaxRetries + 8
      [] pc[t] = "connect"    -> MaxRetries + 8 - attempt[t]
      [] pc[t] = "autocommit" -> 7
      [] pc[t] = "cursor"     -> 6
      [] pc[t] = "flag"       -> 5
      [] pc[t] = "select"     -> 4
      [] pc[t] = "fetch"      -> 3
      [] pc[t] = "assign"     -> 2
      [] OTHER                -> 1

\* What a step does to a thread that owns the lock: its own releases the lock
\* or brings the release nearer, and any other leaves the owner where it is.
OwnerGoesOn(t) ==
    lock = t =>
      IF Step(t) THEN \/ lock' = NoThread
                      \/ lock' = t /\ OwnerRank(t)' < OwnerRank(t)
                 ELSE lock' = t /\ OwnerRank(t)' = OwnerRank(t)

\* Where each thread is, and how often it has tried, are left alone by the
\* steps that do not belong to it.
LEMMA OthersStay ==
    ASSUME TypeOK, LockInv, [Next]_vars, NEW t \in Threads, lock = t, ~Step(t)
    PROVE  lock' = t /\ pc'[t] = pc[t] /\ attempt'[t] = attempt[t]
<1>0. /\ pc \in [Threads -> PCs] /\ attempt \in [Threads -> Nat]
      /\ pc[t] # "idle" /\ NoThread # t
  BY ThreadAssumption DEF TypeOK, LockInv, Reconnecting, Loading
<1>u. CASE UNCHANGED vars
  BY <1>u DEF vars
<1>1. ASSUME NEW u \in Threads, u # t,
             \/ Gate(u) \/ CheckCache(u) \/ Select(u) \/ Fetch(u) \/ Assign(u)
             \/ GetZone(u) \/ DirectInsert(u) \/ DirectCommit(u) \/ ReportNext(u)
      PROVE  lock' = t /\ pc'[t] = pc[t] /\ attempt'[t] = attempt[t]
  BY <1>0, <1>1 DEF Gate, CheckCache, Select, Fetch, Assign, GetZone, DirectInsert,
                    DirectCommit, DirectReturns, ReportNext, Goto, Return, localVars
<1>2. ASSUME NEW u \in Threads, u # t
      PROVE  /\ ~HealthCheck(u) /\ ~MarkLost(u) /\ ~InstallConn(u) /\ ~ConnectFails(u)
             /\ ~SetAutocommit(u) /\ ~InstallCursor(u) /\ ~MarkConnected(u)
  <2>1. pc[u] \notin Reconnecting
    BY <1>2 DEF LockInv, InLockedSection, Reconnecting
  <2> QED
    BY <2>1 DEF HealthCheck, MarkLost, InstallConn, ConnectFails, SetAutocommit,
                InstallCursor, MarkConnected, Reconnecting
<1>3. ASSUME NEW u \in Threads, u # t, Acquire(u)
      PROVE  FALSE
  BY <1>0, <1>3 DEF Acquire
<1>4. ASSUME NEW u \in Threads, u # t, Write(u)
      PROVE  lock' = t /\ pc'[t] = pc[t] /\ attempt'[t] = attempt[t]
  <2>1. pc[u] = "write" /\ lock # u
    BY <1>4 DEF Write
  <2>2. job[u] \notin LockedJobs
    BY <2>1 DEF LockInv, InLockedSection
  <2>3. lock' = t /\ attempt' = attempt
    BY <1>4, <2>2 DEF Write, localVars
  <2>4. pc'[t] = pc[t]
    BY <1>0, <1>4 DEF Write, Goto, Return
  <2> QED
    BY <2>3, <2>4
<1>5. ASSUME NEW u \in Threads, StartReport(u)
      PROVE  lock' = t /\ pc'[t] = pc[t] /\ attempt'[t] = attempt[t]
  BY <1>0, <1>5 DEF StartReport, Goto
<1>6. ASSUME NEW u \in Threads, NEW d \in Devices,
             ReceivePacket(u, d) \/ ReceiveMessage(u, d)
      PROVE  lock' = t /\ pc'[t] = pc[t] /\ attempt'[t] = attempt[t]
  BY <1>0, <1>6 DEF ReceivePacket, ReceiveMessage, Goto
<1>7. CASE \/ DbStops \/ DbStarts \/ CloseCursor \/ CloseConn \/ MarkDisconnected
            \/ \E d \in Devices : Register(d)
  BY <1>7 DEF DbStops, DbStarts, CloseCursor, CloseConn, MarkDisconnected, Register,
              localVars
<1> QED
  BY <1>u, <1>1, <1>2, <1>3, <1>4, <1>5, <1>6, <1>7 DEF Next, Step

\* A step of the owner releases the lock or goes on to a later line of
\* write_packet, _reconnect_if_needed, connect() or _load_zone_cache.
LEMMA OwnerStep ==
    ASSUME TypeOK, LockInv, AttemptInv, NEW t \in Threads, lock = t, Step(t)
    PROVE  \/ lock' = NoThread
           \/ lock' = t /\ OwnerRank(t)' < OwnerRank(t)
<1>0. /\ pc \in [Threads -> PCs] /\ attempt \in [Threads -> Nat]
      /\ MaxRetries \in Nat \ {0} /\ NoThread # t
      /\ pc[t] \in {"write"} \cup Reconnecting \cup Loading
      /\ job[t] \in LockedJobs
      /\ pc[t] = "connect" => attempt[t] \in 1..MaxRetries
  BY ThreadAssumption, BoundAssumption DEF TypeOK, LockInv, AttemptInv
<1> USE DEF Reconnecting, Loading
<1>1. CASE Select(t) \/ Fetch(t) \/ Assign(t)
  BY <1>0, <1>1 DEF Select, Fetch, Assign, Goto, AfterLoad, OwnerRank
<1>2. CASE HealthCheck(t)
  BY <1>0, <1>2 DEF HealthCheck, Goto, OwnerRank
<1>3. CASE MarkLost(t) \/ InstallConn(t) \/ MarkConnected(t)
  BY <1>0, <1>3 DEF MarkLost, InstallConn, MarkConnected, Goto, OwnerRank
<1>4. CASE ConnectFails(t)
  BY <1>0, <1>4 DEF ConnectFails, Goto, OwnerRank
<1>5. CASE SetAutocommit(t) \/ InstallCursor(t)
  BY <1>0, <1>5 DEF SetAutocommit, InstallCursor, Escape, Goto, OwnerRank
<1>6. CASE Write(t)
  BY <1>0, <1>6 DEF Write
<1>7. ~(\/ Gate(t) \/ CheckCache(t) \/ GetZone(t) \/ Acquire(t) \/ ReportNext(t)
        \/ DirectInsert(t) \/ DirectCommit(t))
  BY <1>0 DEF Gate, CheckCache, GetZone, Acquire, ReportNext, DirectInsert,
              DirectCommit, LockedJobs
<1> QED
  BY <1>1, <1>2, <1>3, <1>4, <1>5, <1>6, <1>7 DEF Step

LEMMA AttemptNext == TypeOK /\ AttemptInv /\ [Next]_vars => AttemptInv'
<1> SUFFICES ASSUME TypeOK, AttemptInv, [Next]_vars, NEW t \in Threads, pc'[t] = "connect"
             PROVE  attempt'[t] \in 1..MaxRetries
  BY DEF AttemptInv
<1>0. /\ pc \in [Threads -> PCs] /\ attempt \in [Threads -> Nat]
      /\ MaxRetries \in Nat \ {0}
      /\ pc[t] = "connect" => attempt[t] \in 1..MaxRetries
  BY BoundAssumption DEF TypeOK, AttemptInv
<1>q. ASSUME pc[t] = "connect", attempt'[t] = attempt[t]
      PROVE  attempt'[t] \in 1..MaxRetries
  BY <1>0, <1>q
<1>u. CASE UNCHANGED vars
  BY <1>q, <1>u DEF vars
<1>1. ASSUME NEW u \in Threads,
             \/ Gate(u) \/ CheckCache(u) \/ Select(u) \/ Fetch(u) \/ Assign(u)
             \/ GetZone(u) \/ Acquire(u) \/ ReportNext(u) \/ StartReport(u)
      PROVE  pc[t] = "connect" /\ attempt'[t] = attempt[t]
  <2>1. attempt' = attempt
    BY <1>1 DEF Gate, CheckCache, Select, Fetch, Assign, GetZone, Acquire,
                ReportNext, StartReport, localVars
  <2>2. pc[t] = "connect"
    BY <1>0, <1>1 DEF Gate, CheckCache, Select, Fetch, Assign, GetZone, Acquire,
                ReportNext, StartReport, Goto, Return, AfterLoad
  <2> QED
    BY <2>1, <2>2
<1>2. ASSUME NEW u \in Threads, MarkLost(u)
      PROVE  attempt'[t] \in 1..MaxRetries
  BY <1>0, <1>2 DEF MarkLost, Goto
<1>3. ASSUME NEW u \in Threads, ConnectFails(u)
      PROVE  attempt'[t] \in 1..MaxRetries
  BY <1>0, <1>3 DEF ConnectFails, Goto
<1>4. ASSUME NEW u \in Threads,
             \/ HealthCheck(u) \/ InstallConn(u) \/ SetAutocommit(u)
             \/ InstallCursor(u) \/ MarkConnected(u)
      PROVE  pc[t] = "connect" /\ attempt'[t] = attempt[t]
  BY <1>0, <1>4 DEF HealthCheck, InstallConn, SetAutocommit, InstallCursor,
                    MarkConnected, Escape, Goto, Return, localVars
<1>5. ASSUME NEW u \in Threads, Write(u) \/ DirectInsert(u) \/ DirectCommit(u)
      PROVE  pc[t] = "connect" /\ attempt'[t] = attempt[t]
  BY <1>0, <1>5 DEF Write, DirectInsert, DirectCommit, DirectReturns, Goto, Return,
                    localVars
<1>6. ASSUME NEW u \in Threads, NEW d \in Devices,
             ReceivePacket(u, d) \/ ReceiveMessage(u, d)
      PROVE  pc[t] = "connect" /\ attempt'[t] = attempt[t]
  BY <1>0, <1>6 DEF ReceivePacket, ReceiveMessage, Goto
<1>7. CASE \/ DbStops \/ DbStarts \/ CloseCursor \/ CloseConn \/ MarkDisconnected
            \/ \E d \in Devices : Register(d)
  BY <1>q, <1>7 DEF DbStops, DbStarts, CloseCursor, CloseConn, MarkDisconnected, Register,
                    localVars
<1> QED
  BY <1>q, <1>u, <1>1, <1>2, <1>3, <1>4, <1>5, <1>6, <1>7 DEF Next, Step

(***************************************************************************)
(* The safety half of LockReleased.  Whoever owns the lock releases it     *)
(* within MAX_RETRIES + 9 steps of its own, whatever the server, the       *)
(* clients and the other threads do in between, for they can neither take  *)
(* the lock away nor set its owner back.  That the owner can always take   *)
(* a step is what remains to the run.                                      *)
(***************************************************************************)
THEOREM LockHoldIsBounded ==
    Spec => /\ [](\A t \in Threads : lock = t => OwnerRank(t) \in 1..MaxRetries + 9)
            /\ [][\A t \in Threads : OwnerGoesOn(t)]_vars
<1>1. Init => AttemptInv
  BY DEF Init, AttemptInv
<1>2. IInv /\ AttemptInv /\ [Next]_vars => AttemptInv'
  BY AttemptNext DEF IInv
<1>3. IInv /\ AttemptInv => \A t \in Threads : lock = t => OwnerRank(t) \in 1..MaxRetries + 9
  <2> SUFFICES ASSUME IInv, AttemptInv, NEW t \in Threads, lock = t
               PROVE  OwnerRank(t) \in 1..MaxRetries + 9
    OBVIOUS
  <2>1. /\ MaxRetries \in Nat \ {0}
        /\ pc[t] \in {"write"} \cup Reconnecting \cup Loading
        /\ pc[t] = "connect" => attempt[t] \in 1..MaxRetries
    BY BoundAssumption DEF IInv, LockInv, AttemptInv
  <2> QED
    BY <2>1 DEF OwnerRank, Reconnecting, Loading
<1>4. IInv /\ AttemptInv /\ [Next]_vars => [\A t \in Threads : OwnerGoesOn(t)]_vars
  <2> SUFFICES ASSUME IInv, AttemptInv, [Next]_vars, NEW t \in Threads, lock = t
               PROVE  OwnerGoesOn(t)
    BY DEF OwnerGoesOn
  <2>1. CASE Step(t)
    BY <2>1, OwnerStep DEF IInv, OwnerGoesOn
  <2>2. CASE ~Step(t)
    <3>1. lock' = t /\ pc'[t] = pc[t] /\ attempt'[t] = attempt[t]
      BY <2>2, OthersStay DEF IInv
    <3> QED
      BY <2>2, <3>1 DEF OwnerGoesOn, OwnerRank
  <2> QED
    BY <2>1, <2>2
<1> QED
  BY <1>1, <1>2, <1>3, <1>4, Invariance, PTL DEF Spec
=============================================================================
