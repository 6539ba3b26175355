--------------------------- MODULE HvacIpc_proofs ---------------------------
(***************************************************************************)
(* Theorems about HvacIpc, for any set of meters, any set of levels and    *)
(* any number of incarnations and crashes.                                 *)
(***************************************************************************)
EXTENDS HvacIpc, FiniteSetTheorems, TLAPS

SemPCs == {"create_shm", "truncate", "clear", "compute", "wait", "store", "post"}
ShmPCs == {"truncate", "clear", "compute", "wait", "store", "post"}
Quiescent ==
    {"create_sem", "create_shm", "truncate", "compute", "wait", "post"}
AtSem(m) == mpc[m] \in {"wait", "read", "reread", "post"}

----------------------------------------------------------------------------
(* The inductive invariant *)

\* The handles that are used are open.
HandleInv ==
    /\ cpc # "down" => gen \in Objects
    /\ cpc \in {"down", "create_sem"} => csem = 0 /\ cshm = 0
    /\ cpc \in SemPCs => csem \in Objects
    /\ cpc \in ShmPCs => cshm \in Objects
    /\ \A m \in Meters : AtSem(m) => msem[m] \in Objects /\ mshm[m] \in Objects
    /\ gen = 0 => crashes = 0

\* The semaphore an incarnation may create has never been seen by anybody.
FreshInv ==
    /\ semName <= gen /\ csem <= gen /\ shmName <= gen /\ cshm <= gen
    /\ \A s \in orphaned : s <= gen
    /\ \A m \in Meters : msem[m] <= gen
    /\ cpc = "create_sem" =>
         /\ semName # gen /\ gen \notin orphaned
         /\ \A m \in Meters : msem[m] # gen

IInv == TypeOK /\ HandleInv /\ FreshInv /\ OneInside

\* No incarnation has found the objects of a killed one.
Calm == crashes = 0 \/ gen <= 1

\* Then an incarnation uses the two objects it created itself.
PairInv ==
    Calm =>
      /\ cpc = "down" => crashes > 0 \/ (shmName = 0 /\ semName = 0)
      /\ cpc = "create_sem" => shmName = 0 /\ semName = 0
      /\ cpc = "create_shm" => shmName = 0 /\ csem = gen
      /\ cpc \in ShmPCs => csem = gen /\ cshm = gen
      /\ cpc = "unlink_sem" => shmName = 0

\* Regions are blank until their first command is being stored.
BlankInv ==
    /\ \A r \in Objects : r > gen => region[r] = Blank
    /\ Calm /\ cpc \in {"create_sem", "create_shm", "truncate", "clear"} =>
         region[gen] = Blank
    /\ cpc = "clear" => image = Blank

\* The progress of the stores.
StoreInv ==
    /\ cpc \in {"wait", "store", "post"} => image \in Commands
    /\ cpc \in Quiescent => todo = {}
    /\ cpc = "store" => \A f \in Cells \ todo : region[cshm][f] = image[f]
    /\ Calm => \A r \in Objects :
         region[r]["valid"] = 1 =>
            \/ region[r] \in Commands
            \/ cpc = "store" /\ cshm = r
            \/ r \in orphaned

\* What a meter has seen of its region.
SeenInv ==
    Calm => \A m \in Meters :
      /\ AtSem(m) => region[mshm[m]]["valid"] = 1
      /\ mpc[m] = "reread" /\ msem[m] = mshm[m] => pct[m] = region[mshm[m]]["heater"]
      /\ mpc[m] = "post" /\ msem[m] = mshm[m] => pct[m] = Load(region[mshm[m]])

JInv == IInv /\ PairInv /\ BlankInv /\ StoreInv /\ SeenInv

\* A name leads to the region in use, which is new to every meter when it is
\* created.
NameInv ==
    /\ cpc \in ShmPCs => shmName = cshm
    /\ \A m \in Meters : mshm[m] <= gen
    /\ cpc \in {"create_sem", "create_shm"} =>
         shmName # gen /\ \A m \in Meters : mshm[m] # gen

\* The region that has the name is guarded by the semaphore that has the name;
\* if the two are not of one incarnation, the region's own semaphore was never
\* made.
GuardInv ==
    /\ semName = 0 \/ cpc = "unlink_sem" => shmName = 0
    /\ cpc \in SemPCs => csem = semName
    /\ shmName # 0 /\ shmName # semName => ~Known(shmName)
    /\ cpc = "create_shm" /\ gen # semName => ~Known(gen)

\* The cells of i are cells of command c or cleared.
Remains(i, c) == \A f \in Cells : i[f] \in {c[f], 0}

\* Cells of two commands are in a region only while one is being stored, or
\* when that was never finished, or where no semaphore of the same incarnation
\* exists.
RemainsInv ==
    /\ cpc = "create_sem" => region[gen] = Blank
    /\ \A r \in Objects :
         \/ \E c \in Commands : Remains(region[r], c)
         \/ cpc = "store" /\ cshm = r
         \/ r \in orphaned
         \/ r <= gen /\ ~Known(r)

\* Meter m has seen cells of command c or cleared ones.
SawOnly(m, c) ==
    /\ Remains(region[mshm[m]], c)
    /\ mpc[m] = "reread" => pct[m] \in {c["heater"], 0}
    /\ mpc[m] = "post" => pct[m] \in {Load(c), 0}

SawInv ==
    \A m \in Meters :
        MInside(m) /\ msem[m] = mshm[m] => \E c \in Commands : SawOnly(m, c)

\* With one incarnation: while stores are pending nobody gets the semaphore,
\* or nothing was ever published.
PendInv ==
    MaxGen = 1 =>
      /\ gen = 0 => todo = {}
      /\ todo # {} => \/ CInside
                      \/ 1 \in orphaned
                      \/ region[1]["valid"] = 0

----------------------------------------------------------------------------
(* Types *)

LEMMA CellFacts ==
    /\ Blank \in [Cells -> Nat]
    /\ Commands \subseteq [Cells -> Nat]
    /\ \A c \in Commands : c["valid"] = 1
    /\ Blank["valid"] = 0
<1> USE LevelAssumption
<1>1. \A h, c \in Nat : Command(h, c) \in [Cells -> Nat] /\ Command(h, c)["valid"] = 1
  BY DEF Command, Cells
<1>2. \A c \in Commands : \E h, k \in Nat : c = Command(h, k)
  BY DEF Commands
<1>3. Blank \in [Cells -> Nat] /\ Blank["valid"] = 0
  BY DEF Blank, Cells
<1>4. ASSUME NEW c \in Commands PROVE c \in [Cells -> Nat] /\ c["valid"] = 1
  BY <1>1, <1>2
<1> QED
  BY <1>3, <1>4

\* The types in four parts, one for each kind of variable.
KernelType ==
    /\ gen \in 0..MaxGen /\ crashes \in 0..MaxCrashes
    /\ shmName \in 0..MaxGen /\ semName \in 0..MaxGen
    /\ sized \in SUBSET Objects
    /\ sem \in [Objects -> Nat]
    /\ orphaned \in SUBSET Objects
CellType ==
    /\ region \in [Objects -> [Cells -> Nat]]
    /\ image \in [Cells -> Nat] /\ todo \in SUBSET Cells
ControllerType == cpc \in CtrlPCs /\ cshm \in 0..MaxGen /\ csem \in 0..MaxGen
MeterType ==
    /\ mpc \in [Meters -> MeterPCs]
    /\ mshm \in [Meters -> 0..MaxGen] /\ msem \in [Meters -> 0..MaxGen]
    /\ tries \in [Meters -> 0..OpenRetries]
    /\ pct \in [Meters -> Nat]

LEMMA TypeParts == TypeOK <=> KernelType /\ CellType /\ ControllerType /\ MeterType
  BY DEF TypeOK, KernelType, CellType, ControllerType, MeterType

LEMMA KernelFrame ==
    ASSUME KernelType,
           UNCHANGED <<shmName, semName, sized, gen, crashes, sem, orphaned>>
    PROVE  KernelType'
BY DEF KernelType

LEMMA KernelTypeStep == TypeOK /\ HandleInv /\ [Next]_vars => KernelType'
<1> SUFFICES ASSUME KernelType, ControllerType, MeterType, HandleInv, [Next]_vars
             PROVE  KernelType'
  BY TypeParts
<1> USE BoundAssumption
<1> USE DEF kernelVars, ctrlVars, meterVars,
         KernelType, ControllerType, MeterType, Objects, HandleInv, SemPCs, ShmPCs, AtSem, CInside, MInside
<1>1. CASE UNCHANGED vars
  BY <1>1 DEF vars
<1>2. CASE Start
  BY <1>2 DEF Start
<1>3. CASE CreateSem
  BY <1>3 DEF CreateSem
<1>4. CASE CreateShm
  BY <1>4 DEF CreateShm
<1>5. CASE Truncate
  BY <1>5 DEF Truncate
<1>6. CASE Compute
  BY <1>6 DEF Compute
<1>7. CASE Wait
  BY <1>7 DEF Wait
<1>8. CASE Post
  BY <1>8 DEF Post
<1>9. CASE Terminate
  BY <1>9 DEF Terminate
<1>10. CASE UnlinkShm
  BY <1>10 DEF UnlinkShm
<1>11. CASE UnlinkSem
  BY <1>11 DEF UnlinkSem
<1>12. CASE Crash
  BY <1>12 DEF Crash
<1>13. ASSUME NEW f \in Cells, Store(f) PROVE KernelType'
  BY <1>13 DEF Store
<1>14. ASSUME NEW m \in Meters, MStart(m) PROVE KernelType'
  BY <1>14 DEF MStart, MGoto
<1>15. ASSUME NEW m \in Meters, MOpenSem(m) PROVE KernelType'
  BY <1>15 DEF MOpenSem, MGoto
<1>16. ASSUME NEW m \in Meters, MOpenShm(m) PROVE KernelType'
  BY <1>16 DEF MOpenShm, MGoto
<1>17. ASSUME NEW m \in Meters, MCheck(m) PROVE KernelType'
  BY <1>17 DEF MCheck, Gone, MGoto
<1>18. ASSUME NEW m \in Meters, MWait(m) PROVE KernelType'
  <2>1. /\ sem' = [sem EXCEPT ![msem[m]] = @ - 1] /\ sem[msem[m]] > 0
        /\ UNCHANGED <<kernelVars, gen, crashes, orphaned>>
    BY <1>18 DEF MWait
  <2>2. sem[msem[m]] \in Nat
    BY <1>18 DEF MWait
  <2>3. sem[msem[m]] - 1 \in Nat
    BY <2>1, <2>2
  <2>4. sem' \in [Objects -> Nat]
    BY <2>1, <2>3
  <2> QED
    BY <2>1, <2>4
<1>19. ASSUME NEW m \in Meters, MRead(m) PROVE KernelType'
  BY <1>19 DEF MRead, MGoto
<1>20. ASSUME NEW m \in Meters, MReread(m) PROVE KernelType'
  <2>1. UNCHANGED <<shmName, semName, sized, gen, crashes, sem, orphaned>>
    <3> HIDE DEF KernelType, ControllerType, MeterType, HandleInv
    <3> QED
      BY <1>20 DEF MReread
  <2> HIDE DEF KernelType, ControllerType, MeterType, HandleInv
  <2> QED
    BY <2>1, KernelFrame
<1>21. ASSUME NEW m \in Meters, MPost(m) PROVE KernelType'
  <2>1. /\ sem' = [sem EXCEPT ![msem[m]] = @ + 1]
        /\ UNCHANGED <<kernelVars, gen, crashes, orphaned>>
    BY <1>21 DEF MPost
  <2>2. sem[msem[m]] + 1 \in Nat
    BY <1>21 DEF MPost
  <2>3. sem' \in [Objects -> Nat]
    BY <2>1, <2>2
  <2> QED
    BY <2>1, <2>3
<1>22. ASSUME NEW m \in Meters, MKill(m) PROVE KernelType'
  BY <1>22 DEF MKill, Gone, MGoto
<1> QED
  BY <1>1, <1>2, <1>3, <1>4, <1>5, <1>6, <1>7, <1>8, <1>9, <1>10, <1>11,
     <1>12, <1>13, <1>14, <1>15, <1>16, <1>17, <1>18, <1>19, <1>20, <1>21, <1>22
  DEF Next, Controller, Meter

LEMMA CellTypeStep == TypeOK /\ HandleInv /\ [Next]_vars => CellType'
<1> SUFFICES ASSUME CellType, HandleInv, [Next]_vars PROVE CellType'
  BY TypeParts
<1> USE CellFacts
<1> USE DEF kernelVars, ctrlVars, meterVars,
         CellType, HandleInv, ShmPCs
<1>1. CASE UNCHANGED vars
  BY <1>1 DEF vars
<1>2. CASE Start
  BY <1>2 DEF Start
<1>3. CASE CreateSem
  BY <1>3 DEF CreateSem
<1>4. CASE CreateShm
  BY <1>4 DEF CreateShm
<1>5. CASE Truncate
  BY <1>5 DEF Truncate
<1>6. CASE Compute
  BY <1>6 DEF Compute
<1>7. CASE Wait
  BY <1>7 DEF Wait
<1>8. CASE Post
  BY <1>8 DEF Post
<1>9. CASE Terminate
  BY <1>9 DEF Terminate
<1>10. CASE UnlinkShm
  BY <1>10 DEF UnlinkShm
<1>11. CASE UnlinkSem
  BY <1>11 DEF UnlinkSem
<1>12. CASE Crash
  BY <1>12 DEF Crash
<1>13. ASSUME NEW f \in Cells, Store(f) PROVE CellType'
  <2>1. region[cshm] \in [Cells -> Nat] /\ image[f] \in Nat
    BY <1>13 DEF Store, CellType, HandleInv, ShmPCs
  <2>2. [region[cshm] EXCEPT ![f] = image[f]] \in [Cells -> Nat]
    BY <2>1
  <2>3. region' = [region EXCEPT ![cshm] = [region[cshm] EXCEPT ![f] = image[f]]]
    BY <1>13 DEF Store
  <2> QED
    BY <1>13, <2>2, <2>3 DEF Store, CellType
<1>14. ASSUME NEW m \in Meters, MStart(m) PROVE CellType'
  BY <1>14 DEF MStart, MGoto
<1>15. ASSUME NEW m \in Meters, MOpenSem(m) PROVE CellType'
  BY <1>15 DEF MOpenSem, MGoto
<1>16. ASSUME NEW m \in Meters, MOpenShm(m) PROVE CellType'
  BY <1>16 DEF MOpenShm, MGoto
<1>17. ASSUME NEW m \in Meters, MCheck(m) PROVE CellType'
  BY <1>17 DEF MCheck, Gone, MGoto
<1>18. ASSUME NEW m \in Meters, MWait(m) PROVE CellType'
  BY <1>18 DEF MWait, MGoto
<1>19. ASSUME NEW m \in Meters, MRead(m) PROVE CellType'
  BY <1>19 DEF MRead, MGoto
<1>20. ASSUME NEW m \in Meters, MReread(m) PROVE CellType'
  BY <1>20 DEF MReread, MGoto
<1>21. ASSUME NEW m \in Meters, MPost(m) PROVE CellType'
  BY <1>21 DEF MPost, MGoto
<1>22. ASSUME NEW m \in Meters, MKill(m) PROVE CellType'
  BY <1>22 DEF MKill, Gone, MGoto
<1> QED
  BY <1>1, <1>2, <1>3, <1>4, <1>5, <1>6, <1>7, <1>8, <1>9, <1>10, <1>11,
     <1>12, <1>13, <1>14, <1>15, <1>16, <1>17, <1>18, <1>19, <1>20, <1>21, <1>22
  DEF Next, Controller, Meter

LEMMA ControllerTypeStep == TypeOK /\ [Next]_vars => ControllerType'
<1> SUFFICES ASSUME KernelType, ControllerType, [Next]_vars PROVE ControllerType'
  BY TypeParts
<1> USE BoundAssumption
<1> USE DEF kernelVars, ctrlVars, meterVars,
         KernelType, ControllerType, CtrlPCs
<1>1. CASE UNCHANGED vars
  BY <1>1 DEF vars
<1>2. CASE Start
  BY <1>2 DEF Start
<1>3. CASE CreateSem
  BY <1>3 DEF CreateSem
<1>4. CASE CreateShm
  BY <1>4 DEF CreateShm
<1>5. CASE Truncate
  BY <1>5 DEF Truncate
<1>6. CASE Compute
  BY <1>6 DEF Compute
<1>7. CASE Wait
  BY <1>7 DEF Wait
<1>8. CASE Post
  BY <1>8 DEF Post
<1>9. CASE Terminate
  BY <1>9 DEF Terminate
<1>10. CASE UnlinkShm
  BY <1>10 DEF UnlinkShm
<1>11. CASE UnlinkSem
  BY <1>11 DEF UnlinkSem
<1>12. CASE Crash
  BY <1>12 DEF Crash
<1>13. ASSUME NEW f \in Cells, Store(f) PROVE ControllerType'
  BY <1>13 DEF Store
<1>14. ASSUME NEW m \in Meters, MStart(m) PROVE ControllerType'
  BY <1>14 DEF MStart, MGoto
<1>15. ASSUME NEW m \in Meters, MOpenSem(m) PROVE ControllerType'
  BY <1>15 DEF MOpenSem, MGoto
<1>16. ASSUME NEW m \in Meters, MOpenShm(m) PROVE ControllerType'
  BY <1>16 DEF MOpenShm, MGoto
<1>17. ASSUME NEW m \in Meters, MCheck(m) PROVE ControllerType'
  BY <1>17 DEF MCheck, Gone, MGoto
<1>18. ASSUME NEW m \in Meters, MWait(m) PROVE ControllerType'
  BY <1>18 DEF MWait, MGoto
<1>19. ASSUME NEW m \in Meters, MRead(m) PROVE ControllerType'
  BY <1>19 DEF MRead, MGoto
<1>20. ASSUME NEW m \in Meters, MReread(m) PROVE ControllerType'
  BY <1>20 DEF MReread, MGoto
<1>21. ASSUME NEW m \in Meters, MPost(m) PROVE ControllerType'
  BY <1>21 DEF MPost, MGoto
<1>22. ASSUME NEW m \in Meters, MKill(m) PROVE ControllerType'
  BY <1>22 DEF MKill, Gone, MGoto
<1> QED
  BY <1>1, <1>2, <1>3, <1>4, <1>5, <1>6, <1>7, <1>8, <1>9, <1>10, <1>11,
     <1>12, <1>13, <1>14, <1>15, <1>16, <1>17, <1>18, <1>19, <1>20, <1>21, <1>22
  DEF Next, Controller, Meter

LEMMA MeterTypeStep == TypeOK /\ HandleInv /\ [Next]_vars => MeterType'
<1> SUFFICES ASSUME KernelType, CellType, MeterType, HandleInv, [Next]_vars
             PROVE  MeterType'
  BY TypeParts
<1> USE BoundAssumption
<1> USE DEF kernelVars, ctrlVars, meterVars,
         KernelType, MeterType, MeterPCs
<1>1. CASE UNCHANGED vars
  BY <1>1 DEF vars
<1>2. CASE Start
  BY <1>2 DEF Start
<1>3. CASE CreateSem
  BY <1>3 DEF CreateSem
<1>4. CASE CreateShm
  BY <1>4 DEF CreateShm
<1>5. CASE Truncate
  BY <1>5 DEF Truncate
<1>6. CASE Compute
  BY <1>6 DEF Compute
<1>7. CASE Wait
  BY <1>7 DEF Wait
<1>8. CASE Post
  BY <1>8 DEF Post
<1>9. CASE Terminate
  BY <1>9 DEF Terminate
<1>10. CASE UnlinkShm
  BY <1>10 DEF UnlinkShm
<1>11. CASE UnlinkSem
  BY <1>11 DEF UnlinkSem
<1>12. CASE Crash
  BY <1>12 DEF Crash
<1>13. ASSUME NEW f \in Cells, Store(f) PROVE MeterType'
  BY <1>13 DEF Store
<1>14. ASSUME NEW m \in Meters, MStart(m) PROVE MeterType'
  BY <1>14 DEF MStart, MGoto
<1>15. ASSUME NEW m \in Meters, MOpenSem(m) PROVE MeterType'
  BY <1>15 DEF MOpenSem, MGoto
<1>16. ASSUME NEW m \in Meters, MOpenShm(m) PROVE MeterType'
  BY <1>16 DEF MOpenShm, MGoto
<1>17. ASSUME NEW m \in Meters, MCheck(m) PROVE MeterType'
  BY <1>17 DEF MCheck, Gone, MGoto
<1>18. ASSUME NEW m \in Meters, MWait(m) PROVE MeterType'
  BY <1>18 DEF MWait, MGoto
<1>19. ASSUME NEW m \in Meters, MRead(m) PROVE MeterType'
  <2>1. region[mshm[m]]["heater"] \in Nat
    BY <1>19 DEF MRead, CellType, HandleInv, AtSem, Cells
  <2> QED
    BY <1>19, <2>1 DEF MRead, MGoto, MeterType, MeterPCs
<1>20. ASSUME NEW m \in Meters, MReread(m) PROVE MeterType'
  <2>1. region[mshm[m]]["heater"] \in Nat /\ region[mshm[m]]["cooler"] \in Nat
    BY <1>20 DEF MReread, CellType, HandleInv, AtSem, Cells
  <2>2. PICK v \in IF pct[m] > 0 THEN {pct[m], region[mshm[m]]["heater"]}
                   ELSE {region[mshm[m]]["cooler"]} :
               pct' = [pct EXCEPT ![m] = v]
    BY <1>20 DEF MReread
  <2>3. v \in Nat
    BY <2>1, <2>2 DEF MeterType
  <2> QED
    BY <1>20, <2>2, <2>3 DEF MReread, MGoto, MeterType, MeterPCs
<1>21. ASSUME NEW m \in Meters, MPost(m) PROVE MeterType'
  BY <1>21 DEF MPost, MGoto
<1>22. ASSUME NEW m \in Meters, MKill(m) PROVE MeterType'
  BY <1>22 DEF MKill, Gone, MGoto
<1> QED
  BY <1>1, <1>2, <1>3, <1>4, <1>5, <1>6, <1>7, <1>8, <1>9, <1>10, <1>11,
     <1>12, <1>13, <1>14, <1>15, <1>16, <1>17, <1>18, <1>19, <1>20, <1>21, <1>22
  DEF Next, Controller, Meter

LEMMA HandleStep == TypeOK /\ HandleInv /\ [Next]_vars => HandleInv'
<1> SUFFICES ASSUME TypeOK, HandleInv, [Next]_vars PROVE HandleInv'
  OBVIOUS
<1> USE BoundAssumption
<1> USE DEF kernelVars, ctrlVars, meterVars,
         TypeOK, Objects, HandleInv, SemPCs, ShmPCs, AtSem
<1>1. CASE UNCHANGED vars
  BY <1>1 DEF vars
<1>2. CASE Start
  BY <1>2 DEF Start
<1>3. CASE CreateSem
  BY <1>3 DEF CreateSem
<1>4. CASE CreateShm
  BY <1>4 DEF CreateShm
<1>5. CASE Truncate
  BY <1>5 DEF Truncate
<1>6. CASE Compute
  BY <1>6 DEF Compute
<1>7. CASE Wait
  BY <1>7 DEF Wait
<1>8. CASE Post
  BY <1>8 DEF Post
<1>9. CASE Terminate
  BY <1>9 DEF Terminate
<1>10. CASE UnlinkShm
  BY <1>10 DEF UnlinkShm
<1>11. CASE UnlinkSem
  BY <1>11 DEF UnlinkSem
<1>12. CASE Crash
  BY <1>12 DEF Crash
<1>13. ASSUME NEW f \in Cells, Store(f) PROVE HandleInv'
  BY <1>13 DEF Store
<1>14. ASSUME NEW m \in Meters, MStart(m) PROVE HandleInv'
  BY <1>14 DEF MStart, MGoto
<1>15. ASSUME NEW m \in Meters, MOpenSem(m) PROVE HandleInv'
  BY <1>15 DEF MOpenSem, MGoto
<1>16. ASSUME NEW m \in Meters, MOpenShm(m) PROVE HandleInv'
  <2>1. mpc[m] = "open_shm" /\ UNCHANGED <<kernelVars, sem, ctrlVars, msem>>
    BY <1>16 DEF MOpenShm
  <2>2. /\ \A n \in Meters : n # m => mpc'[n] = mpc[n] /\ mshm'[n] = mshm[n]
        /\ mpc'[m] \in {"open_shm", "check"}
    BY <1>16 DEF MOpenShm, MGoto
  <2>3. \A n \in Meters : AtSem(n)' =>
          n # m /\ AtSem(n) /\ msem'[n] = msem[n] /\ mshm'[n] = mshm[n]
    BY <2>1, <2>2
  <2>4. \A n \in Meters : AtSem(n)' => msem'[n] \in Objects /\ mshm'[n] \in Objects
    BY <2>3
  <2> QED
    BY <2>1, <2>4
<1>17. ASSUME NEW m \in Meters, MCheck(m) PROVE HandleInv'
  <2>1. UNCHANGED <<gen, crashes, cpc, csem, cshm>>
    BY <1>17 DEF MCheck
  <2>2. \A n \in Meters : n # m =>
          mpc'[n] = mpc[n] /\ mshm'[n] = mshm[n] /\ msem'[n] = msem[n]
    BY <1>17 DEF MCheck, Gone, MGoto
  <2>3. AtSem(m)' => msem'[m] \in Objects /\ mshm'[m] \in Objects
    BY <1>17 DEF MCheck, Gone, MGoto
  <2>4. \A n \in Meters : AtSem(n)' => msem'[n] \in Objects /\ mshm'[n] \in Objects
    BY <2>2, <2>3
  <2> QED
    BY <2>1, <2>4
<1>18. ASSUME NEW m \in Meters, MWait(m) PROVE HandleInv'
  BY <1>18 DEF MWait, MGoto
<1>19. ASSUME NEW m \in Meters, MRead(m) PROVE HandleInv'
  BY <1>19 DEF MRead, MGoto
<1>20. ASSUME NEW m \in Meters, MReread(m) PROVE HandleInv'
  BY <1>20 DEF MReread, MGoto
<1>21. ASSUME NEW m \in Meters, MPost(m) PROVE HandleInv'
  BY <1>21 DEF MPost, MGoto
<1>22. ASSUME NEW m \in Meters, MKill(m) PROVE HandleInv'
  BY <1>22 DEF MKill, Gone, MGoto
<1> QED
  BY <1>1, <1>2, <1>3, <1>4, <1>5, <1>6, <1>7, <1>8, <1>9, <1>10, <1>11,
     <1>12, <1>13, <1>14, <1>15, <1>16, <1>17, <1>18, <1>19, <1>20, <1>21, <1>22
  DEF Next, Controller, Meter

LEMMA FreshStep == TypeOK /\ HandleInv /\ FreshInv /\ [Next]_vars => FreshInv'
<1> SUFFICES ASSUME KernelType, ControllerType, MeterType, HandleInv, FreshInv,
                    [Next]_vars
             PROVE  FreshInv'
  BY TypeParts
<1> USE BoundAssumption
<1> USE DEF kernelVars, ctrlVars, meterVars,
         KernelType, ControllerType, MeterType, Objects, HandleInv, FreshInv, SemPCs, ShmPCs, AtSem, CInside, MInside
<1>1. CASE UNCHANGED vars
  BY <1>1 DEF vars
<1>2. CASE Start
  BY <1>2 DEF Start
<1>3. CASE CreateSem
  BY <1>3 DEF CreateSem
<1>4. CASE CreateShm
  BY <1>4 DEF CreateShm
<1>5. CASE Truncate
  BY <1>5 DEF Truncate
<1>6. CASE Compute
  BY <1>6 DEF Compute
<1>7. CASE Wait
  BY <1>7 DEF Wait
<1>8. CASE Post
  BY <1>8 DEF Post
<1>9. CASE Terminate
  BY <1>9 DEF Terminate
<1>10. CASE UnlinkShm
  BY <1>10 DEF UnlinkShm
<1>11. CASE UnlinkSem
  BY <1>11 DEF UnlinkSem
<1>12. CASE Crash
  BY <1>12 DEF Crash
<1>13. ASSUME NEW f \in Cells, Store(f) PROVE FreshInv'
  BY <1>13 DEF Store
<1>14. ASSUME NEW m \in Meters, MStart(m) PROVE FreshInv'
  BY <1>14 DEF MStart, MGoto
<1>15. ASSUME NEW m \in Meters, MOpenSem(m) PROVE FreshInv'
  BY <1>15 DEF MOpenSem, MGoto
<1>16. ASSUME NEW m \in Meters, MOpenShm(m) PROVE FreshInv'
  BY <1>16 DEF MOpenShm, MGoto
<1>17. ASSUME NEW m \in Meters, MCheck(m) PROVE FreshInv'
  <2>1. \A n \in Meters : msem'[n] = msem[n] \/ msem'[n] = 0
    BY <1>17 DEF MCheck, Gone
  <2>2. /\ gen' = gen /\ shmName' = shmName /\ semName' = semName
        /\ cshm' = cshm /\ csem' = csem /\ cpc' = cpc /\ orphaned' = orphaned
    BY <1>17 DEF MCheck
  <2>3. ASSUME NEW n \in Meters
        PROVE  msem'[n] <= gen /\ (cpc = "create_sem" => msem'[n] # gen)
    <3>1. msem[n] <= gen /\ 0 <= gen /\ (cpc = "create_sem" => msem[n] # gen /\ gen # 0)
      OBVIOUS
    <3> QED
      BY <3>1, <2>1
  <2> QED
    BY <2>2, <2>3
<1>18. ASSUME NEW m \in Meters, MWait(m) PROVE FreshInv'
  BY <1>18 DEF MWait, MGoto
<1>19. ASSUME NEW m \in Meters, MRead(m) PROVE FreshInv'
  BY <1>19 DEF MRead, MGoto
<1>20. ASSUME NEW m \in Meters, MReread(m) PROVE FreshInv'
  BY <1>20 DEF MReread, MGoto
<1>21. ASSUME NEW m \in Meters, MPost(m) PROVE FreshInv'
  BY <1>21 DEF MPost, MGoto
<1>22. ASSUME NEW m \in Meters, MKill(m) PROVE FreshInv'
  <2>1. \A s \in orphaned' : s \in orphaned \/ s = msem[m]
    BY <1>22 DEF MKill
  <2>2. \A n \in Meters : msem'[n] = msem[n] \/ msem'[n] = 0
    BY <1>22 DEF MKill, Gone
  <2>3. /\ gen' = gen /\ shmName' = shmName /\ semName' = semName
        /\ cshm' = cshm /\ csem' = csem /\ cpc' = cpc
    BY <1>22 DEF MKill
  <2>4. ASSUME NEW n \in Meters
        PROVE  msem'[n] <= gen /\ (cpc = "create_sem" => msem'[n] # gen)
    <3>1. msem[n] <= gen /\ 0 <= gen /\ (cpc = "create_sem" => msem[n] # gen /\ gen # 0)
      OBVIOUS
    <3> QED
      BY <3>1, <2>2
  <2>5. \A s \in orphaned' : s <= gen /\ (cpc = "create_sem" => s # gen)
    BY <2>1
  <2> QED
    BY <2>3, <2>4, <2>5
<1> QED
  BY <1>1, <1>2, <1>3, <1>4, <1>5, <1>6, <1>7, <1>8, <1>9, <1>10, <1>11,
     <1>12, <1>13, <1>14, <1>15, <1>16, <1>17, <1>18, <1>19, <1>20, <1>21, <1>22
  DEF Next, Controller, Meter

\* A step that leaves the token of every semaphore where it is.
LEMMA TokenFrame ==
    ASSUME OneInside, sem' = sem, orphaned' = orphaned,
           \A s \in Objects : CHolds(s)' <=> CHolds(s),
           \A n \in Meters, s \in Objects : MHolds(n, s)' <=> MHolds(n, s),
           \A s \in Objects : Known(s)' => Known(s)
    PROVE  OneInside'
<1> SUFFICES ASSUME NEW s \in Objects PROVE OneToken(s)'
  BY DEF OneInside
<1>1. OneToken(s)
  BY DEF OneInside
<1> QED
  BY <1>1 DEF OneToken

LEMMA TokenStep == IInv /\ [Next]_vars => OneInside'
<1> SUFFICES ASSUME KernelType, ControllerType, MeterType, HandleInv, FreshInv,
                    OneInside, [Next]_vars
             PROVE  OneInside'
  BY TypeParts DEF IInv
<1> USE BoundAssumption
<1> USE DEF kernelVars, ctrlVars, meterVars,
         KernelType, ControllerType, MeterType, Objects, HandleInv, FreshInv,
         SemPCs, ShmPCs, AtSem, CInside, MInside
<1>1. CASE UNCHANGED vars
  <2>1. sem' = sem /\ orphaned' = orphaned
    BY <1>1 DEF vars
  <2>2. \A s \in Objects : CHolds(s)' <=> CHolds(s)
    BY <1>1 DEF vars, CHolds
  <2>3. \A n \in Meters, s \in Objects : MHolds(n, s)' <=> MHolds(n, s)
    BY <1>1 DEF vars, MHolds
  <2>4. \A s \in Objects : Known(s)' => Known(s)
    BY <1>1 DEF vars, Known
  <2> QED
    BY <2>1, <2>2, <2>3, <2>4, TokenFrame
<1>2. CASE Start
  <2>1. sem' = sem /\ orphaned' = orphaned
    BY <1>2 DEF Start
  <2>2. \A s \in Objects : CHolds(s)' <=> CHolds(s)
    BY <1>2 DEF Start, CHolds
  <2>3. \A n \in Meters, s \in Objects : MHolds(n, s)' <=> MHolds(n, s)
    BY <1>2 DEF Start, MHolds
  <2>4. \A s \in Objects : Known(s)' => Known(s)
    BY <1>2 DEF Start, Known
  <2> QED
    BY <2>1, <2>2, <2>3, <2>4, TokenFrame
<1>3. CASE CreateSem
  <2> SUFFICES ASSUME NEW s \in Objects PROVE OneToken(s)'
    BY DEF OneInside
  <2>1. OneToken(s)
    BY DEF OneInside
  <2>2. sem'[s] = IF semName = 0 /\ s = gen THEN 1 ELSE sem[s]
    BY <1>3 DEF CreateSem
  <2>3. orphaned' = orphaned /\ (s \in orphaned => s # gen)
    BY <1>3 DEF CreateSem
  <2>4. ~CHolds(s)' /\ ~CHolds(s)
    BY <1>3 DEF CreateSem, CHolds
  <2>5. \A n \in Meters : (MHolds(n, s)' <=> MHolds(n, s)) /\ (MHolds(n, s) => s # gen)
    BY <1>3 DEF CreateSem, MHolds
  <2>6. Known(s)' => Known(s) \/ (semName = 0 /\ s = gen)
    BY <1>3 DEF CreateSem, Known
  <2> QED
    BY <2>1, <2>2, <2>3, <2>4, <2>5, <2>6 DEF OneToken
<1>4. CASE CreateShm
  <2>1. sem' = sem /\ orphaned' = orphaned
    BY <1>4 DEF CreateShm
  <2>2. \A s \in Objects : CHolds(s)' <=> CHolds(s)
    BY <1>4 DEF CreateShm, CHolds
  <2>3. \A n \in Meters, s \in Objects : MHolds(n, s)' <=> MHolds(n, s)
    BY <1>4 DEF CreateShm, MHolds
  <2>4. \A s \in Objects : Known(s)' => Known(s)
    BY <1>4 DEF CreateShm, Known
  <2> QED
    BY <2>1, <2>2, <2>3, <2>4, TokenFrame
<1>5. CASE Truncate
  <2>1. sem' = sem /\ orphaned' = orphaned
    BY <1>5 DEF Truncate
  <2>2. \A s \in Objects : CHolds(s)' <=> CHolds(s)
    BY <1>5 DEF Truncate, CHolds
  <2>3. \A n \in Meters, s \in Objects : MHolds(n, s)' <=> MHolds(n, s)
    BY <1>5 DEF Truncate, MHolds
  <2>4. \A s \in Objects : Known(s)' => Known(s)
    BY <1>5 DEF Truncate, Known
  <2> QED
    BY <2>1, <2>2, <2>3, <2>4, TokenFrame
<1>6. CASE Compute
  <2>1. sem' = sem /\ orphaned' = orphaned
    BY <1>6 DEF Compute
  <2>2. \A s \in Objects : CHolds(s)' <=> CHolds(s)
    BY <1>6 DEF Compute, CHolds
  <2>3. \A n \in Meters, s \in Objects : MHolds(n, s)' <=> MHolds(n, s)
    BY <1>6 DEF Compute, MHolds
  <2>4. \A s \in Objects : Known(s)' => Known(s)
    BY <1>6 DEF Compute, Known
  <2> QED
    BY <2>1, <2>2, <2>3, <2>4, TokenFrame
<1>7. CASE Wait
  <2> SUFFICES ASSUME NEW s \in Objects PROVE OneToken(s)'
    BY DEF OneInside
  <2>1. OneToken(s)
    BY DEF OneInside
  <2>2. sem'[s] = IF s = csem THEN sem[s] - 1 ELSE sem[s]
    BY <1>7 DEF Wait
  <2>3. orphaned' = orphaned /\ (s = csem => sem[s] > 0) /\ sem[s] \in Nat
    BY <1>7 DEF Wait
  <2>4. (CHolds(s)' <=> s = csem) /\ ~CHolds(s)
    BY <1>7 DEF Wait, CHolds
  <2>5. \A n \in Meters : MHolds(n, s)' <=> MHolds(n, s)
    BY <1>7 DEF Wait, MHolds
  <2>6. Known(s)' <=> Known(s)
    BY <1>7 DEF Wait, Known
  <2> QED
    BY <2>1, <2>2, <2>3, <2>4, <2>5, <2>6 DEF OneToken
<1>8. CASE Post
  <2> SUFFICES ASSUME NEW s \in Objects PROVE OneToken(s)'
    BY DEF OneInside
  <2>1. OneToken(s)
    BY DEF OneInside
  <2>2. sem'[s] = IF s = csem THEN sem[s] + 1 ELSE sem[s]
    BY <1>8 DEF Post
  <2>3. orphaned' = orphaned /\ sem[s] \in Nat
    BY <1>8 DEF Post
  <2>4. ~CHolds(s)' /\ (CHolds(s) <=> s = csem)
    BY <1>8 DEF Post, CHolds
  <2>5. \A n \in Meters : MHolds(n, s)' <=> MHolds(n, s)
    BY <1>8 DEF Post, MHolds
  <2>6. Known(s)' <=> Known(s)
    BY <1>8 DEF Post, Known
  <2> QED
    BY <2>1, <2>2, <2>3, <2>4, <2>5, <2>6 DEF OneToken
<1>9. CASE Terminate
  <2> SUFFICES ASSUME NEW s \in Objects PROVE OneToken(s)'
    BY DEF OneInside
  <2>1. OneToken(s)
    BY DEF OneInside
  <2>2. sem' = sem
    BY <1>9 DEF Terminate
  <2>3. s \in orphaned' <=> s \in orphaned \/ CHolds(s)
    BY <1>9 DEF Terminate, CHolds
  <2>4. ~CHolds(s)'
    BY <1>9 DEF Terminate, CHolds
  <2>5. \A n \in Meters : MHolds(n, s)' <=> MHolds(n, s)
    BY <1>9 DEF Terminate, MHolds
  <2>6. Known(s)' => Known(s)
    BY <1>9 DEF Terminate, Known
  <2> QED
    BY <2>1, <2>2, <2>3, <2>4, <2>5, <2>6 DEF OneToken
<1>10. CASE UnlinkShm
  <2>1. sem' = sem /\ orphaned' = orphaned
    BY <1>10 DEF UnlinkShm
  <2>2. \A s \in Objects : CHolds(s)' <=> CHolds(s)
    BY <1>10 DEF UnlinkShm, CHolds
  <2>3. \A n \in Meters, s \in Objects : MHolds(n, s)' <=> MHolds(n, s)
    BY <1>10 DEF UnlinkShm, MHolds
  <2>4. \A s \in Objects : Known(s)' => Known(s)
    BY <1>10 DEF UnlinkShm, Known
  <2> QED
    BY <2>1, <2>2, <2>3, <2>4, TokenFrame
<1>11. CASE UnlinkSem
  <2>1. sem' = sem /\ orphaned' = orphaned
    BY <1>11 DEF UnlinkSem
  <2>2. \A s \in Objects : CHolds(s)' <=> CHolds(s)
    BY <1>11 DEF UnlinkSem, CHolds
  <2>3. \A n \in Meters, s \in Objects : MHolds(n, s)' <=> MHolds(n, s)
    BY <1>11 DEF UnlinkSem, MHolds
  <2>4. \A s \in Objects : Known(s)' => Known(s)
    BY <1>11 DEF UnlinkSem, Known
  <2> QED
    BY <2>1, <2>2, <2>3, <2>4, TokenFrame
<1>12. CASE Crash
  <2> SUFFICES ASSUME NEW s \in Objects PROVE OneToken(s)'
    BY DEF OneInside
  <2>1. OneToken(s)
    BY DEF OneInside
  <2>2. sem' = sem
    BY <1>12 DEF Crash
  <2>3. s \in orphaned' <=> s \in orphaned \/ CHolds(s)
    BY <1>12 DEF Crash, CHolds
  <2>4. ~CHolds(s)'
    BY <1>12 DEF Crash, CHolds
  <2>5. \A n \in Meters : MHolds(n, s)' <=> MHolds(n, s)
    BY <1>12 DEF Crash, MHolds
  <2>6. Known(s)' => Known(s)
    BY <1>12 DEF Crash, Known
  <2> QED
    BY <2>1, <2>2, <2>3, <2>4, <2>5, <2>6 DEF OneToken
<1>13. ASSUME NEW f \in Cells, Store(f) PROVE OneInside'
  <2>1. sem' = sem /\ orphaned' = orphaned
    BY <1>13 DEF Store
  <2>2. \A s \in Objects : CHolds(s)' <=> CHolds(s)
    BY <1>13 DEF Store, CHolds
  <2>3. \A n \in Meters, s \in Objects : MHolds(n, s)' <=> MHolds(n, s)
    BY <1>13 DEF Store, MHolds
  <2>4. \A s \in Objects : Known(s)' => Known(s)
    BY <1>13 DEF Store, Known
  <2> QED
    BY <2>1, <2>2, <2>3, <2>4, TokenFrame
<1>14. ASSUME NEW m \in Meters, MStart(m) PROVE OneInside'
  <2>1. sem' = sem /\ orphaned' = orphaned
    BY <1>14 DEF MStart, MGoto
  <2>2. \A s \in Objects : CHolds(s)' <=> CHolds(s)
    BY <1>14 DEF MStart, MGoto, CHolds
  <2>3. \A n \in Meters, s \in Objects : MHolds(n, s)' <=> MHolds(n, s)
    BY <1>14 DEF MStart, MGoto, MHolds
  <2>4. \A s \in Objects : Known(s)' => Known(s)
    BY <1>14 DEF MStart, MGoto, Known
  <2> QED
    BY <2>1, <2>2, <2>3, <2>4, TokenFrame
<1>15. ASSUME NEW m \in Meters, MOpenSem(m) PROVE OneInside'
  <2>1. sem' = sem /\ orphaned' = orphaned
    BY <1>15 DEF MOpenSem, MGoto
  <2>2. \A s \in Objects : CHolds(s)' <=> CHolds(s)
    BY <1>15 DEF MOpenSem, MGoto, CHolds
  <2>3. \A n \in Meters, s \in Objects : MHolds(n, s)' <=> MHolds(n, s)
    BY <1>15 DEF MOpenSem, MGoto, MHolds
  <2>4. \A s \in Objects : Known(s)' => Known(s)
    BY <1>15 DEF MOpenSem, MGoto, Known
  <2> QED
    BY <2>1, <2>2, <2>3, <2>4, TokenFrame
<1>16. ASSUME NEW m \in Meters, MOpenShm(m) PROVE OneInside'
  <2>1. sem' = sem /\ orphaned' = orphaned
    BY <1>16 DEF MOpenShm, MGoto
  <2>2. \A s \in Objects : CHolds(s)' <=> CHolds(s)
    BY <1>16 DEF MOpenShm, MGoto, CHolds
  <2>3. \A n \in Meters, s \in Objects : MHolds(n, s)' <=> MHolds(n, s)
    BY <1>16 DEF MOpenShm, MGoto, MHolds
  <2>4. \A s \in Objects : Known(s)' => Known(s)
    BY <1>16 DEF MOpenShm, MGoto, Known
  <2> QED
    BY <2>1, <2>2, <2>3, <2>4, TokenFrame
<1>17. ASSUME NEW m \in Meters, MCheck(m) PROVE OneInside'
  <2>1. sem' = sem /\ orphaned' = orphaned
    BY <1>17 DEF MCheck, MGoto, Gone
  <2>2. \A s \in Objects : CHolds(s)' <=> CHolds(s)
    BY <1>17 DEF MCheck, MGoto, Gone, CHolds
  <2>3. \A n \in Meters, s \in Objects : MHolds(n, s)' <=> MHolds(n, s)
    <3>1. /\ \A n \in Meters : n # m => mpc'[n] = mpc[n] /\ msem'[n] = msem[n]
          /\ mpc[m] = "check" /\ mpc'[m] \in {"check", "wait", "off"}
      BY <1>17 DEF MCheck, MGoto, Gone
    <3> QED
      BY <3>1 DEF MHolds, MInside
  <2>4. \A s \in Objects : Known(s)' => Known(s)
    BY <1>17 DEF MCheck, MGoto, Gone, Known
  <2> QED
    BY <2>1, <2>2, <2>3, <2>4, TokenFrame
<1>18. ASSUME NEW m \in Meters, MWait(m) PROVE OneInside'
  <2> SUFFICES ASSUME NEW s \in Objects PROVE OneToken(s)'
    BY DEF OneInside
  <2>1. OneToken(s)
    BY DEF OneInside
  <2>2. sem'[s] = IF s = msem[m] THEN sem[s] - 1 ELSE sem[s]
    BY <1>18 DEF MWait
  <2>3. orphaned' = orphaned /\ (s = msem[m] => sem[s] > 0) /\ sem[s] \in Nat
    BY <1>18 DEF MWait
  <2>4. CHolds(s)' <=> CHolds(s)
    BY <1>18 DEF MWait, CHolds
  <2>5. \A n \in Meters :
          MHolds(n, s)' <=> IF n = m THEN s = msem[m] ELSE MHolds(n, s)
    BY <1>18 DEF MWait, MHolds, MGoto
  <2>6. Known(s)' <=> Known(s)
    BY <1>18 DEF MWait, Known
  <2>7. CASE s = msem[m]
    <3>1. /\ sem[s] = 1 /\ s \notin orphaned /\ ~CHolds(s)
          /\ \A n \in Meters : ~MHolds(n, s)
      BY <2>1, <2>3, <2>7 DEF OneToken
    <3>2. sem'[s] = 0 /\ \A n \in Meters : MHolds(n, s)' <=> n = m
      BY <3>1, <2>2, <2>5, <2>7
    <3> QED
      BY <3>1, <3>2, <2>3, <2>4 DEF OneToken
  <2>8. CASE s # msem[m]
    <3>1. sem'[s] = sem[s] /\ \A n \in Meters : MHolds(n, s)' => MHolds(n, s)
      BY <2>2, <2>5, <2>8
    <3>2. \A n \in Meters : MHolds(n, s) => MHolds(n, s)'
      BY <1>18, <2>5, <2>8 DEF MWait, MHolds
    <3> QED
      BY <2>1, <3>1, <3>2, <2>3, <2>4, <2>6 DEF OneToken
  <2> QED
    BY <2>7, <2>8
<1>19. ASSUME NEW m \in Meters, MRead(m) PROVE OneInside'
  <2>1. sem' = sem /\ orphaned' = orphaned
    BY <1>19 DEF MRead, MGoto
  <2>2. \A s \in Objects : CHolds(s)' <=> CHolds(s)
    BY <1>19 DEF MRead, MGoto, CHolds
  <2>3. \A n \in Meters, s \in Objects : MHolds(n, s)' <=> MHolds(n, s)
    BY <1>19 DEF MRead, MGoto, MHolds
  <2>4. \A s \in Objects : Known(s)' => Known(s)
    BY <1>19 DEF MRead, MGoto, Known
  <2> QED
    BY <2>1, <2>2, <2>3, <2>4, TokenFrame
<1>20. ASSUME NEW m \in Meters, MReread(m) PROVE OneInside'
  <2>1. sem' = sem /\ orphaned' = orphaned
    BY <1>20 DEF MReread, MGoto
  <2>2. \A s \in Objects : CHolds(s)' <=> CHolds(s)
    BY <1>20 DEF MReread, MGoto, CHolds
  <2>3. \A n \in Meters, s \in Objects : MHolds(n, s)' <=> MHolds(n, s)
    BY <1>20 DEF MReread, MGoto, MHolds
  <2>4. \A s \in Objects : Known(s)' => Known(s)
    BY <1>20 DEF MReread, MGoto, Known
  <2> QED
    BY <2>1, <2>2, <2>3, <2>4, TokenFrame
<1>21. ASSUME NEW m \in Meters, MPost(m) PROVE OneInside'
  <2> SUFFICES ASSUME NEW s \in Objects PROVE OneToken(s)'
    BY DEF OneInside
  <2>1. OneToken(s)
    BY DEF OneInside
  <2>2. sem'[s] = IF s = msem[m] THEN sem[s] + 1 ELSE sem[s]
    BY <1>21 DEF MPost
  <2>3. orphaned' = orphaned /\ sem[s] \in Nat /\ (MHolds(m, s) <=> s = msem[m])
    BY <1>21 DEF MPost, MHolds
  <2>4. CHolds(s)' <=> CHolds(s)
    BY <1>21 DEF MPost, CHolds
  <2>5. \A n \in Meters : MHolds(n, s)' <=> n # m /\ MHolds(n, s)
    BY <1>21 DEF MPost, MHolds, MGoto
  <2>6. Known(s)' <=> Known(s)
    BY <1>21 DEF MPost, Known
  <2> QED
    BY <2>1, <2>2, <2>3, <2>4, <2>5, <2>6 DEF OneToken
<1>22. ASSUME NEW m \in Meters, MKill(m) PROVE OneInside'
  <2> SUFFICES ASSUME NEW s \in Objects PROVE OneToken(s)'
    BY DEF OneInside
  <2>1. OneToken(s)
    BY DEF OneInside
  <2>2. sem' = sem
    BY <1>22 DEF MKill
  <2>3. s \in orphaned' <=> s \in orphaned \/ MHolds(m, s)
    BY <1>22 DEF MKill, MHolds
  <2>4. CHolds(s)' <=> CHolds(s)
    BY <1>22 DEF MKill, CHolds
  <2>5. \A n \in Meters : MHolds(n, s)' <=> n # m /\ MHolds(n, s)
    BY <1>22 DEF MKill, MHolds, MGoto, Gone
  <2>6. Known(s)' => Known(s)
    BY <1>22 DEF MKill, Known, Gone
  <2> QED
    BY <2>1, <2>2, <2>3, <2>4, <2>5, <2>6 DEF OneToken
<1> QED
  BY <1>1, <1>2, <1>3, <1>4, <1>5, <1>6, <1>7, <1>8, <1>9, <1>10, <1>11,
     <1>12, <1>13, <1>14, <1>15, <1>16, <1>17, <1>18, <1>19, <1>20, <1>21, <1>22
  DEF Next, Controller, Meter

LEMMA PairStep ==
    TypeOK /\ HandleInv /\ PairInv /\ [Next]_vars => PairInv'
<1> SUFFICES ASSUME KernelType, ControllerType, HandleInv, PairInv, [Next]_vars
             PROVE  PairInv'
  BY TypeParts
<1> USE BoundAssumption
<1> USE DEF kernelVars, ctrlVars, meterVars,
         KernelType, ControllerType, Objects, HandleInv, PairInv, Calm, SemPCs, ShmPCs
<1>1. CASE UNCHANGED vars
  BY <1>1 DEF vars
<1>2. CASE Start
  BY <1>2 DEF Start
<1>3. CASE CreateSem
  BY <1>3 DEF CreateSem
<1>4. CASE CreateShm
  BY <1>4 DEF CreateShm
<1>5. CASE Truncate
  BY <1>5 DEF Truncate
<1>6. CASE Compute
  BY <1>6 DEF Compute
<1>7. CASE Wait
  BY <1>7 DEF Wait
<1>8. CASE Post
  BY <1>8 DEF Post
<1>9. CASE Terminate
  BY <1>9 DEF Terminate
<1>10. CASE UnlinkShm
  BY <1>10 DEF UnlinkShm
<1>11. CASE UnlinkSem
  BY <1>11 DEF UnlinkSem
<1>12. CASE Crash
  BY <1>12 DEF Crash
<1>13. ASSUME NEW f \in Cells, Store(f) PROVE PairInv'
  BY <1>13 DEF Store
<1>14. ASSUME NEW m \in Meters, MStart(m) PROVE PairInv'
  BY <1>14 DEF MStart, MGoto
<1>15. ASSUME NEW m \in Meters, MOpenSem(m) PROVE PairInv'
  BY <1>15 DEF MOpenSem, MGoto
<1>16. ASSUME NEW m \in Meters, MOpenShm(m) PROVE PairInv'
  BY <1>16 DEF MOpenShm, MGoto
<1>17. ASSUME NEW m \in Meters, MCheck(m) PROVE PairInv'
  BY <1>17 DEF MCheck, Gone, MGoto
<1>18. ASSUME NEW m \in Meters, MWait(m) PROVE PairInv'
  BY <1>18 DEF MWait, MGoto
<1>19. ASSUME NEW m \in Meters, MRead(m) PROVE PairInv'
  BY <1>19 DEF MRead, MGoto
<1>20. ASSUME NEW m \in Meters, MReread(m) PROVE PairInv'
  BY <1>20 DEF MReread, MGoto
<1>21. ASSUME NEW m \in Meters, MPost(m) PROVE PairInv'
  BY <1>21 DEF MPost, MGoto
<1>22. ASSUME NEW m \in Meters, MKill(m) PROVE PairInv'
  BY <1>22 DEF MKill, Gone, MGoto
<1> QED
  BY <1>1, <1>2, <1>3, <1>4, <1>5, <1>6, <1>7, <1>8, <1>9, <1>10, <1>11,
     <1>12, <1>13, <1>14, <1>15, <1>16, <1>17, <1>18, <1>19, <1>20, <1>21, <1>22
  DEF Next, Controller, Meter

LEMMA BlankStep ==
    IInv /\ PairInv /\ BlankInv /\ [Next]_vars => BlankInv'
<1> SUFFICES ASSUME KernelType, CellType, ControllerType, HandleInv, FreshInv,
                    PairInv, BlankInv, [Next]_vars
             PROVE  BlankInv'
  BY TypeParts DEF IInv
<1> USE BoundAssumption
<1> USE DEF kernelVars, ctrlVars, meterVars,
         KernelType, CellType, ControllerType, Objects, HandleInv, FreshInv,
         PairInv, BlankInv, Calm, SemPCs, ShmPCs
<1>1. CASE UNCHANGED vars
  BY <1>1 DEF vars
<1>2. CASE Start
  BY <1>2 DEF Start
<1>3. CASE CreateSem
  BY <1>3 DEF CreateSem
<1>4. CASE CreateShm
  BY <1>4 DEF CreateShm
<1>5. CASE Truncate
  BY <1>5 DEF Truncate
<1>6. CASE Compute
  BY <1>6 DEF Compute
<1>7. CASE Wait
  BY <1>7 DEF Wait
<1>8. CASE Post
  BY <1>8 DEF Post
<1>9. CASE Terminate
  BY <1>9 DEF Terminate
<1>10. CASE UnlinkShm
  BY <1>10 DEF UnlinkShm
<1>11. CASE UnlinkSem
  BY <1>11 DEF UnlinkSem
<1>12. CASE Crash
  BY <1>12 DEF Crash
<1>13. ASSUME NEW f \in Cells, Store(f) PROVE BlankInv'
  BY <1>13 DEF Store
<1>14. ASSUME NEW m \in Meters, MStart(m) PROVE BlankInv'
  BY <1>14 DEF MStart, MGoto
<1>15. ASSUME NEW m \in Meters, MOpenSem(m) PROVE BlankInv'
  BY <1>15 DEF MOpenSem, MGoto
<1>16. ASSUME NEW m \in Meters, MOpenShm(m) PROVE BlankInv'
  BY <1>16 DEF MOpenShm, MGoto
<1>17. ASSUME NEW m \in Meters, MCheck(m) PROVE BlankInv'
  BY <1>17 DEF MCheck, Gone, MGoto
<1>18. ASSUME NEW m \in Meters, MWait(m) PROVE BlankInv'
  BY <1>18 DEF MWait, MGoto
<1>19. ASSUME NEW m \in Meters, MRead(m) PROVE BlankInv'
  BY <1>19 DEF MRead, MGoto
<1>20. ASSUME NEW m \in Meters, MReread(m) PROVE BlankInv'
  BY <1>20 DEF MReread, MGoto
<1>21. ASSUME NEW m \in Meters, MPost(m) PROVE BlankInv'
  BY <1>21 DEF MPost, MGoto
<1>22. ASSUME NEW m \in Meters, MKill(m) PROVE BlankInv'
  BY <1>22 DEF MKill, Gone, MGoto
<1> QED
  BY <1>1, <1>2, <1>3, <1>4, <1>5, <1>6, <1>7, <1>8, <1>9, <1>10, <1>11,
     <1>12, <1>13, <1>14, <1>15, <1>16, <1>17, <1>18, <1>19, <1>20, <1>21, <1>22
  DEF Next, Controller, Meter

LEMMA StoreStep ==
    IInv /\ PairInv /\ BlankInv /\ StoreInv /\ [Next]_vars => StoreInv'
<1> SUFFICES ASSUME KernelType, CellType, ControllerType, HandleInv, PairInv,
                    BlankInv, StoreInv, [Next]_vars
             PROVE  StoreInv'
  BY TypeParts DEF IInv
<1> USE BoundAssumption, CellFacts
<1> USE DEF kernelVars, ctrlVars, meterVars,
         KernelType, CellType, ControllerType, Objects, HandleInv,
         PairInv, BlankInv, StoreInv, Calm, SemPCs, ShmPCs, Quiescent, CInside
<1>1. CASE UNCHANGED vars
  BY <1>1 DEF vars
<1>2. CASE Start
  BY <1>2 DEF Start
<1>3. CASE CreateSem
  BY <1>3 DEF CreateSem
<1>4. CASE CreateShm
  BY <1>4 DEF CreateShm
<1>5. CASE Truncate
  BY <1>5 DEF Truncate
<1>6. CASE Compute
  BY <1>6 DEF Compute
<1>7. CASE Wait
  BY <1>7 DEF Wait
<1>8. CASE Post
  BY <1>8 DEF Post
<1>9. CASE Terminate
  BY <1>9 DEF Terminate
<1>10. CASE UnlinkShm
  BY <1>10 DEF UnlinkShm
<1>11. CASE UnlinkSem
  BY <1>11 DEF UnlinkSem
<1>12. CASE Crash
  BY <1>12 DEF Crash
<1>13. ASSUME NEW f \in Cells, Store(f) PROVE StoreInv'
  <2>1. /\ cpc \in {"clear", "store"} /\ todo' = todo \ {f}
        /\ image' = image /\ cshm' = cshm /\ orphaned' = orphaned
        /\ gen' = gen /\ crashes' = crashes /\ cshm \in Objects
        /\ cpc' \in {cpc, IF cpc = "clear" THEN "compute" ELSE "post"}
        /\ cpc' # cpc => todo' = {}
        /\ cpc' = cpc => cpc' \notin Quiescent
    BY <1>13 DEF Store
  <2>2. /\ \A r \in Objects : r # cshm => region'[r] = region[r]
        /\ region'[cshm] \in [Cells -> Nat]
        /\ \A g \in Cells : region'[cshm][g] = IF g = f THEN image[f] ELSE region[cshm][g]
    BY <1>13 DEF Store
  <2>3. cpc = "store" => \A g \in Cells \ todo' : region'[cshm][g] = image[g]
    BY <2>1, <2>2
  <2>4. cpc = "store" /\ todo' = {} => region'[cshm] = image
    BY <2>2, <2>3
  <2>5. cpc = "clear" /\ Calm => region'[cshm]["valid"] = 0
    <3>1. cpc = "clear" /\ Calm => region[cshm] = Blank /\ image = Blank
      OBVIOUS
    <3> QED
      BY <3>1, <2>2 DEF Blank, Cells
  <2>6. Calm => \A r \in Objects :
          region'[r]["valid"] = 1 =>
             \/ region'[r] \in Commands
             \/ cpc' = "store" /\ cshm' = r
             \/ r \in orphaned'
    <3> SUFFICES ASSUME Calm, NEW r \in Objects, region'[r]["valid"] = 1
                 PROVE  \/ region'[r] \in Commands
                        \/ cpc' = "store" /\ cshm' = r
                        \/ r \in orphaned'
      OBVIOUS
    <3>1. CASE r # cshm
      BY <2>1, <2>2, <3>1
    <3>2. CASE r = cshm
      BY <2>1, <2>4, <2>5, <3>2
    <3> QED
      BY <3>1, <3>2
  <2>7. cpc' \in {"wait", "store", "post"} => image' \in Commands
    BY <2>1
  <2>8. cpc' \in Quiescent => todo' = {}
    BY <2>1
  <2>9. cpc' = "store" => \A g \in Cells \ todo' : region'[cshm'][g] = image'[g]
    BY <2>1, <2>3
  <2> QED
    BY <2>1, <2>6, <2>7, <2>8, <2>9
<1>14. ASSUME NEW m \in Meters, MStart(m) PROVE StoreInv'
  BY <1>14 DEF MStart, MGoto
<1>15. ASSUME NEW m \in Meters, MOpenSem(m) PROVE StoreInv'
  BY <1>15 DEF MOpenSem, MGoto
<1>16. ASSUME NEW m \in Meters, MOpenShm(m) PROVE StoreInv'
  BY <1>16 DEF MOpenShm, MGoto
<1>17. ASSUME NEW m \in Meters, MCheck(m) PROVE StoreInv'
  BY <1>17 DEF MCheck, Gone, MGoto
<1>18. ASSUME NEW m \in Meters, MWait(m) PROVE StoreInv'
  BY <1>18 DEF MWait, MGoto
<1>19. ASSUME NEW m \in Meters, MRead(m) PROVE StoreInv'
  BY <1>19 DEF MRead, MGoto
<1>20. ASSUME NEW m \in Meters, MReread(m) PROVE StoreInv'
  BY <1>20 DEF MReread, MGoto
<1>21. ASSUME NEW m \in Meters, MPost(m) PROVE StoreInv'
  BY <1>21 DEF MPost, MGoto
<1>22. ASSUME NEW m \in Meters, MKill(m) PROVE StoreInv'
  BY <1>22 DEF MKill, Gone, MGoto
<1> QED
  BY <1>1, <1>2, <1>3, <1>4, <1>5, <1>6, <1>7, <1>8, <1>9, <1>10, <1>11,
     <1>12, <1>13, <1>14, <1>15, <1>16, <1>17, <1>18, <1>19, <1>20, <1>21, <1>22
  DEF Next, Controller, Meter

LEMMA SeenStep ==
    JInv /\ [Next]_vars => SeenInv'
<1> SUFFICES ASSUME KernelType, CellType, ControllerType, MeterType, HandleInv,
                    OneInside, PairInv, BlankInv, StoreInv, SeenInv, [Next]_vars
             PROVE  SeenInv'
  BY TypeParts DEF JInv, IInv
<1> USE BoundAssumption
<1> USE DEF kernelVars, ctrlVars, meterVars,
         KernelType, MeterType, SeenInv, Calm, AtSem
<1>1. CASE UNCHANGED vars
  BY <1>1 DEF vars
<1>2. CASE Start
  BY <1>2 DEF Start
<1>3. CASE CreateSem
  BY <1>3 DEF CreateSem
<1>4. CASE CreateShm
  BY <1>4 DEF CreateShm
<1>5. CASE Truncate
  BY <1>5 DEF Truncate
<1>6. CASE Compute
  BY <1>6 DEF Compute
<1>7. CASE Wait
  BY <1>7 DEF Wait
<1>8. CASE Post
  BY <1>8 DEF Post
<1>9. CASE Terminate
  BY <1>9 DEF Terminate
<1>10. CASE UnlinkShm
  BY <1>10 DEF UnlinkShm
<1>11. CASE UnlinkSem
  BY <1>11 DEF UnlinkSem
<1>12. CASE Crash
  BY <1>12 DEF Crash
<1>13. ASSUME NEW f \in Cells, Store(f) PROVE SeenInv'
  <2>1. /\ cpc \in {"clear", "store"} /\ cshm \in Objects
        /\ gen' = gen /\ crashes' = crashes
        /\ mpc' = mpc /\ mshm' = mshm /\ msem' = msem /\ pct' = pct
    BY <1>13 DEF Store, HandleInv, ShmPCs
  <2>2. /\ \A r \in Objects : r # cshm => region'[r] = region[r]
        /\ region'[cshm]["valid"] = IF f = "valid" THEN image["valid"] ELSE region[cshm]["valid"]
    BY <1>13, <2>1 DEF Store, Cells, CellType
  <2> SUFFICES ASSUME Calm, NEW m \in Meters, AtSem(m)
               PROVE  /\ region'[mshm[m]]["valid"] = 1
                      /\ MInside(m) /\ msem[m] = mshm[m] => mshm[m] # cshm
    BY <2>1, <2>2 DEF MInside, HandleInv
  <2>3. mshm[m] = cshm => cpc = "store"
    BY <2>1, CellFacts DEF PairInv, ShmPCs, BlankInv
  <2>4. cpc = "store" => image["valid"] = 1
    BY CellFacts DEF StoreInv
  <2>5. MInside(m) /\ msem[m] = mshm[m] => mshm[m] # cshm
    BY <2>1, <2>3 DEF PairInv, ShmPCs, OneInside, OneToken, CHolds, MHolds, CInside
  <2>6. region[mshm[m]]["valid"] = 1 /\ mshm[m] \in Objects
    BY DEF HandleInv
  <2>7. region'[mshm[m]]["valid"] = 1
    BY <2>2, <2>3, <2>4, <2>6
  <2> QED
    BY <2>5, <2>7
<1>14. ASSUME NEW m \in Meters, MStart(m) PROVE SeenInv'
  BY <1>14 DEF MStart, MGoto
<1>15. ASSUME NEW m \in Meters, MOpenSem(m) PROVE SeenInv'
  BY <1>15 DEF MOpenSem, MGoto
<1>16. ASSUME NEW m \in Meters, MOpenShm(m) PROVE SeenInv'
  <2>1. /\ ~AtSem(m) /\ mpc'[m] \in {"open_shm", "check"}
        /\ region' = region /\ gen' = gen /\ crashes' = crashes
        /\ msem' = msem /\ pct' = pct
        /\ \A n \in Meters : n # m => mpc'[n] = mpc[n] /\ mshm'[n] = mshm[n]
    BY <1>16 DEF MOpenShm, MGoto
  <2> QED
    BY <2>1
<1>17. ASSUME NEW m \in Meters, MCheck(m) PROVE SeenInv'
  <2>1. /\ mpc[m] = "check" /\ region' = region /\ gen' = gen /\ crashes' = crashes
        /\ \A n \in Meters : n # m => /\ mpc'[n] = mpc[n] /\ mshm'[n] = mshm[n]
                                      /\ msem'[n] = msem[n] /\ pct'[n] = pct[n]
    BY <1>17 DEF MCheck, MGoto, Gone
  <2>2. \/ mpc'[m] \in {"off", "check"}
        \/ /\ mpc'[m] = "wait" /\ mshm' = mshm
           /\ region[mshm[m]]["valid"] = 1
    BY <1>17 DEF MCheck, MGoto, Gone
  <2> QED
    BY <2>1, <2>2
<1>18. ASSUME NEW m \in Meters, MWait(m) PROVE SeenInv'
  BY <1>18 DEF MWait, MGoto
<1>19. ASSUME NEW m \in Meters, MRead(m) PROVE SeenInv'
  BY <1>19 DEF MRead, MGoto
<1>20. ASSUME NEW m \in Meters, MReread(m) PROVE SeenInv'
  <2>1. /\ mpc[m] = "reread" /\ mpc'[m] = "post"
        /\ region' = region /\ gen' = gen /\ crashes' = crashes
        /\ msem' = msem /\ mshm' = mshm
        /\ \A n \in Meters : n # m => mpc'[n] = mpc[n] /\ pct'[n] = pct[n]
    BY <1>20 DEF MReread, MGoto
  <2>2. pct'[m] \in IF pct[m] > 0 THEN {pct[m], region[mshm[m]]["heater"]}
                    ELSE {region[mshm[m]]["cooler"]}
    BY <1>20 DEF MReread
  <2>3. pct[m] = region[mshm[m]]["heater"] => pct'[m] = Load(region[mshm[m]])
    BY <2>2 DEF Load
  <2> SUFFICES ASSUME Calm, NEW n \in Meters
               PROVE  /\ AtSem(n)' => region[mshm[n]]["valid"] = 1
                      /\ mpc'[n] = "reread" /\ msem[n] = mshm[n] =>
                            pct'[n] = region[mshm[n]]["heater"]
                      /\ mpc'[n] = "post" /\ msem[n] = mshm[n] =>
                            pct'[n] = Load(region[mshm[n]])
    BY <2>1
  <2>4. CASE n = m
    BY <2>1, <2>3, <2>4
  <2>5. CASE n # m
    BY <2>1, <2>5
  <2> QED
    BY <2>4, <2>5
<1>21. ASSUME NEW m \in Meters, MPost(m) PROVE SeenInv'
  BY <1>21 DEF MPost, MGoto
<1>22. ASSUME NEW m \in Meters, MKill(m) PROVE SeenInv'
  BY <1>22 DEF MKill, Gone, MGoto
<1> QED
  BY <1>1, <1>2, <1>3, <1>4, <1>5, <1>6, <1>7, <1>8, <1>9, <1>10, <1>11,
     <1>12, <1>13, <1>14, <1>15, <1>16, <1>17, <1>18, <1>19, <1>20, <1>21, <1>22
  DEF Next, Controller, Meter

LEMMA NameStep ==
    TypeOK /\ HandleInv /\ FreshInv /\ NameInv /\ [Next]_vars => NameInv'
<1> SUFFICES ASSUME KernelType, ControllerType, MeterType, HandleInv, FreshInv,
                    NameInv, [Next]_vars
             PROVE  NameInv'
  BY TypeParts
<1> USE BoundAssumption
<1> USE DEF kernelVars, ctrlVars, meterVars,
         KernelType, ControllerType, MeterType, Objects, HandleInv, FreshInv,
         NameInv, SemPCs, ShmPCs, AtSem
<1>1. CASE UNCHANGED vars
  BY <1>1 DEF vars
<1>2. CASE Start
  BY <1>2 DEF Start
<1>3. CASE CreateSem
  BY <1>3 DEF CreateSem
<1>4. CASE CreateShm
  BY <1>4 DEF CreateShm
<1>5. CASE Truncate
  BY <1>5 DEF Truncate
<1>6. CASE Compute
  BY <1>6 DEF Compute
<1>7. CASE Wait
  BY <1>7 DEF Wait
<1>8. CASE Post
  BY <1>8 DEF Post
<1>9. CASE Terminate
  BY <1>9 DEF Terminate
<1>10. CASE UnlinkShm
  BY <1>10 DEF UnlinkShm
<1>11. CASE UnlinkSem
  BY <1>11 DEF UnlinkSem
<1>12. CASE Crash
  BY <1>12 DEF Crash
<1>13. ASSUME NEW f \in Cells, Store(f) PROVE NameInv'
  BY <1>13 DEF Store
<1>14. ASSUME NEW m \in Meters, MStart(m) PROVE NameInv'
  BY <1>14 DEF MStart, MGoto
<1>15. ASSUME NEW m \in Meters, MOpenSem(m) PROVE NameInv'
  BY <1>15 DEF MOpenSem, MGoto
<1>16. ASSUME NEW m \in Meters, MOpenShm(m) PROVE NameInv'
  BY <1>16 DEF MOpenShm, MGoto
<1>17. ASSUME NEW m \in Meters, MCheck(m) PROVE NameInv'
  <2>1. \A n \in Meters : mshm'[n] = mshm[n] \/ mshm'[n] = 0
    BY <1>17 DEF MCheck, Gone
  <2>2. gen' = gen /\ shmName' = shmName /\ cshm' = cshm /\ cpc' = cpc
    BY <1>17 DEF MCheck
  <2>3. 0 <= gen /\ (cpc \in {"create_sem", "create_shm"} => gen # 0)
    OBVIOUS
  <2>4. ASSUME NEW n \in Meters
        PROVE  mshm'[n] <= gen /\ (cpc \in {"create_sem", "create_shm"} => mshm'[n] # gen)
    BY <2>1, <2>3
  <2> QED
    BY <2>2, <2>4
<1>18. ASSUME NEW m \in Meters, MWait(m) PROVE NameInv'
  BY <1>18 DEF MWait, MGoto
<1>19. ASSUME NEW m \in Meters, MRead(m) PROVE NameInv'
  BY <1>19 DEF MRead, MGoto
<1>20. ASSUME NEW m \in Meters, MReread(m) PROVE NameInv'
  BY <1>20 DEF MReread, MGoto
<1>21. ASSUME NEW m \in Meters, MPost(m) PROVE NameInv'
  BY <1>21 DEF MPost, MGoto
<1>22. ASSUME NEW m \in Meters, MKill(m) PROVE NameInv'
  BY <1>22 DEF MKill, Gone, MGoto
<1> QED
  BY <1>1, <1>2, <1>3, <1>4, <1>5, <1>6, <1>7, <1>8, <1>9, <1>10, <1>11,
     <1>12, <1>13, <1>14, <1>15, <1>16, <1>17, <1>18, <1>19, <1>20, <1>21, <1>22
  DEF Next, Controller, Meter

LEMMA PendStep ==
    JInv /\ PendInv /\ [Next]_vars => PendInv'
<1> SUFFICES ASSUME KernelType, CellType, ControllerType, HandleInv, PairInv,
                    BlankInv, StoreInv, PendInv, [Next]_vars
             PROVE  PendInv'
  BY TypeParts DEF JInv, IInv
<1> USE BoundAssumption, CellFacts
<1> USE DEF kernelVars, ctrlVars, meterVars,
         KernelType, CellType, ControllerType, Objects, HandleInv,
         PairInv, BlankInv, StoreInv, PendInv, Calm, SemPCs, ShmPCs, Quiescent, CInside
<1>1. CASE UNCHANGED vars
  BY <1>1 DEF vars
<1>2. CASE Start
  BY <1>2 DEF Start
<1>3. CASE CreateSem
  BY <1>3 DEF CreateSem
<1>4. CASE CreateShm
  BY <1>4 DEF CreateShm
<1>5. CASE Truncate
  BY <1>5 DEF Truncate
<1>6. CASE Compute
  BY <1>6 DEF Compute
<1>7. CASE Wait
  BY <1>7 DEF Wait
<1>8. CASE Post
  BY <1>8 DEF Post
<1>9. CASE Terminate
  BY <1>9 DEF Terminate
<1>10. CASE UnlinkShm
  BY <1>10 DEF UnlinkShm
<1>11. CASE UnlinkSem
  BY <1>11 DEF UnlinkSem
<1>12. CASE Crash
  BY <1>12 DEF Crash
<1>13. ASSUME NEW f \in Cells, Store(f) PROVE PendInv'
  BY <1>13 DEF Store
<1>14. ASSUME NEW m \in Meters, MStart(m) PROVE PendInv'
  BY <1>14 DEF MStart, MGoto
<1>15. ASSUME NEW m \in Meters, MOpenSem(m) PROVE PendInv'
  BY <1>15 DEF MOpenSem, MGoto
<1>16. ASSUME NEW m \in Meters, MOpenShm(m) PROVE PendInv'
  BY <1>16 DEF MOpenShm, MGoto
<1>17. ASSUME NEW m \in Meters, MCheck(m) PROVE PendInv'
  BY <1>17 DEF MCheck, Gone, MGoto
<1>18. ASSUME NEW m \in Meters, MWait(m) PROVE PendInv'
  BY <1>18 DEF MWait, MGoto
<1>19. ASSUME NEW m \in Meters, MRead(m) PROVE PendInv'
  BY <1>19 DEF MRead, MGoto
<1>20. ASSUME NEW m \in Meters, MReread(m) PROVE PendInv'
  BY <1>20 DEF MReread, MGoto
<1>21. ASSUME NEW m \in Meters, MPost(m) PROVE PendInv'
  BY <1>21 DEF MPost, MGoto
<1>22. ASSUME NEW m \in Meters, MKill(m) PROVE PendInv'
  BY <1>22 DEF MKill, Gone, MGoto
<1> QED
  BY <1>1, <1>2, <1>3, <1>4, <1>5, <1>6, <1>7, <1>8, <1>9, <1>10, <1>11,
     <1>12, <1>13, <1>14, <1>15, <1>16, <1>17, <1>18, <1>19, <1>20, <1>21, <1>22
  DEF Next, Controller, Meter

KInv == JInv /\ NameInv /\ PendInv /\ GuardInv /\ RemainsInv /\ SawInv

\* A meter that does nothing but let go of its semaphore changes none of it.
LEMMA GuardFrame ==
    ASSUME GuardInv, HandleInv, UNCHANGED <<shmName, semName, gen, cpc, csem>>,
           \A k \in Meters : msem'[k] \in {msem[k], 0}
    PROVE  GuardInv'
<1>1. \A s : s # 0 /\ Known(s)' => Known(s)
  BY DEF Known
<1>2. cpc = "create_shm" => gen # 0
  BY DEF HandleInv, Objects
<1> QED
  BY <1>1, <1>2 DEF GuardInv, SemPCs

LEMMA GuardMeterStep ==
    ASSUME GuardInv, HandleInv, MeterType, NEW m \in Meters, MCheck(m) \/ MKill(m)
    PROVE  GuardInv'
<1>1. UNCHANGED <<shmName, semName, gen, cpc, csem>>
  BY DEF MCheck, MKill, kernelVars, ctrlVars
<1>2. \A k \in Meters : msem'[k] \in {msem[k], 0}
  BY DEF MCheck, MKill, Gone, MeterType, meterVars
<1> QED
  BY <1>1, <1>2, GuardFrame

LEMMA GuardStep ==
    TypeOK /\ HandleInv /\ FreshInv /\ NameInv /\ GuardInv /\ [Next]_vars => GuardInv'
<1> SUFFICES ASSUME KernelType, ControllerType, MeterType, HandleInv, FreshInv,
                    NameInv, GuardInv, [Next]_vars
             PROVE  GuardInv'
  BY TypeParts
<1> USE BoundAssumption
<1> USE DEF kernelVars, ctrlVars, meterVars,
         KernelType, ControllerType, MeterType, Objects, HandleInv, FreshInv,
         NameInv, GuardInv, Known, SemPCs, ShmPCs
<1>1. CASE UNCHANGED vars
  BY <1>1 DEF vars
<1>2. CASE Start
  BY <1>2 DEF Start
<1>3. CASE CreateSem
  BY <1>3 DEF CreateSem
<1>4. CASE CreateShm
  BY <1>4 DEF CreateShm
<1>5. CASE Truncate
  BY <1>5 DEF Truncate
<1>6. CASE Compute
  BY <1>6 DEF Compute
<1>7. CASE Wait
  BY <1>7 DEF Wait
<1>8. CASE Post
  BY <1>8 DEF Post
<1>9. CASE Terminate
  BY <1>9 DEF Terminate
<1>10. CASE UnlinkShm
  BY <1>10 DEF UnlinkShm
<1>11. CASE UnlinkSem
  BY <1>11 DEF UnlinkSem
<1>12. CASE Crash
  BY <1>12 DEF Crash
<1>13. ASSUME NEW f \in Cells, Store(f) PROVE GuardInv'
  BY <1>13 DEF Store
<1>14. ASSUME NEW m \in Meters, MStart(m) PROVE GuardInv'
  BY <1>14 DEF MStart, MGoto
<1>15. ASSUME NEW m \in Meters, MOpenSem(m) PROVE GuardInv'
  BY <1>15 DEF MOpenSem, MGoto
<1>16. ASSUME NEW m \in Meters, MOpenShm(m) PROVE GuardInv'
  BY <1>16 DEF MOpenShm, MGoto
<1>17. ASSUME NEW m \in Meters, MCheck(m) PROVE GuardInv'
  BY <1>17, GuardMeterStep
<1>18. ASSUME NEW m \in Meters, MWait(m) PROVE GuardInv'
  BY <1>18 DEF MWait, MGoto
<1>19. ASSUME NEW m \in Meters, MRead(m) PROVE GuardInv'
  BY <1>19 DEF MRead, MGoto
<1>20. ASSUME NEW m \in Meters, MReread(m) PROVE GuardInv'
  BY <1>20 DEF MReread, MGoto
<1>21. ASSUME NEW m \in Meters, MPost(m) PROVE GuardInv'
  BY <1>21 DEF MPost, MGoto
<1>22. ASSUME NEW m \in Meters, MKill(m) PROVE GuardInv'
  BY <1>22, GuardMeterStep
<1> QED
  BY <1>1, <1>2, <1>3, <1>4, <1>5, <1>6, <1>7, <1>8, <1>9, <1>10, <1>11,
     <1>12, <1>13, <1>14, <1>15, <1>16, <1>17, <1>18, <1>19, <1>20, <1>21, <1>22
  DEF Next, Controller, Meter

\* Only a controller makes a semaphore known that was not.
LEMMA KnownBefore ==
    ASSUME TypeOK, HandleInv, [Next]_vars, ~CreateSem, NEW r \in Objects, Known(r)'
    PROVE  Known(r)
<1> SUFFICES ASSUME KernelType, ControllerType, MeterType PROVE Known(r)
  BY TypeParts
<1> USE BoundAssumption
<1>0. r # 0
  BY DEF Objects
<1> USE DEF kernelVars, ctrlVars, meterVars, KernelType, ControllerType, MeterType, Known
<1>1. CASE UNCHANGED vars
  BY <1>0, <1>1 DEF vars
<1>2. CASE Start
  BY <1>0, <1>2 DEF Start
<1>4. CASE CreateShm
  BY <1>0, <1>4 DEF CreateShm
<1>5. CASE Truncate
  BY <1>0, <1>5 DEF Truncate
<1>6. CASE Compute
  BY <1>0, <1>6 DEF Compute
<1>7. CASE Wait
  BY <1>0, <1>7 DEF Wait
<1>8. CASE Post
  BY <1>0, <1>8 DEF Post
<1>9. CASE Terminate
  BY <1>0, <1>9 DEF Terminate
<1>10. CASE UnlinkShm
  BY <1>0, <1>10 DEF UnlinkShm
<1>11. CASE UnlinkSem
  BY <1>0, <1>11 DEF UnlinkSem
<1>12. CASE Crash
  BY <1>0, <1>12 DEF Crash
<1>13. ASSUME NEW f \in Cells, Store(f) PROVE Known(r)
  BY <1>0, <1>13 DEF Store
<1>14. ASSUME NEW m \in Meters, MStart(m) PROVE Known(r)
  BY <1>0, <1>14 DEF MStart, MGoto
<1>15. ASSUME NEW m \in Meters, MOpenSem(m) PROVE Known(r)
  BY <1>0, <1>15 DEF MOpenSem, MGoto
<1>16. ASSUME NEW m \in Meters, MOpenShm(m) PROVE Known(r)
  BY <1>0, <1>16 DEF MOpenShm, MGoto
<1>17. ASSUME NEW m \in Meters, MCheck(m) PROVE Known(r)
  BY <1>0, <1>17 DEF MCheck, Gone, MGoto
<1>18. ASSUME NEW m \in Meters, MWait(m) PROVE Known(r)
  BY <1>0, <1>18 DEF MWait, MGoto
<1>19. ASSUME NEW m \in Meters, MRead(m) PROVE Known(r)
  BY <1>0, <1>19 DEF MRead, MGoto
<1>20. ASSUME NEW m \in Meters, MReread(m) PROVE Known(r)
  BY <1>0, <1>20 DEF MReread, MGoto
<1>21. ASSUME NEW m \in Meters, MPost(m) PROVE Known(r)
  BY <1>0, <1>21 DEF MPost, MGoto
<1>22. ASSUME NEW m \in Meters, MKill(m) PROVE Known(r)
  BY <1>0, <1>22 DEF MKill, Gone, MGoto
<1> QED
  BY <1>1, <1>2, <1>4, <1>5, <1>6, <1>7, <1>8, <1>9, <1>10, <1>11,
     <1>12, <1>13, <1>14, <1>15, <1>16, <1>17, <1>18, <1>19, <1>20, <1>21, <1>22
  DEF Next, Controller, Meter

\* The steps that store nothing and make no semaphore.
LEMMA RemainsFrame ==
    ASSUME TypeOK, HandleInv, RemainsInv, [Next]_vars, ~CreateSem,
           region' = region, gen' = gen, orphaned \subseteq orphaned',
           cpc' = "create_sem" => cpc = "create_sem",
           cpc = "store" => \/ cpc' = "store" /\ cshm' = cshm
                            \/ cshm \in orphaned'
                            \/ cshm <= gen /\ ~Known(cshm)
    PROVE  RemainsInv'
<1> SUFFICES ASSUME NEW r \in Objects
             PROVE  \/ \E c \in Commands : Remains(region[r], c)
                    \/ cpc' = "store" /\ cshm' = r
                    \/ r \in orphaned'
                    \/ r <= gen /\ ~Known(r)'
  BY DEF RemainsInv, Remains
<1>1. Known(r)' => Known(r)
  BY KnownBefore
<1> QED
  BY <1>1 DEF RemainsInv

LEMMA RemainsStep ==
    KInv /\ [Next]_vars => RemainsInv'
<1> SUFFICES ASSUME KInv, [Next]_vars PROVE RemainsInv'
  OBVIOUS
<1>0. /\ TypeOK /\ HandleInv /\ FreshInv /\ BlankInv /\ StoreInv /\ NameInv /\ GuardInv /\ RemainsInv
      /\ KernelType /\ CellType /\ ControllerType
  BY TypeParts DEF KInv, JInv, IInv
<1>1. ASSUME CreateSem PROVE RemainsInv'
  <2>1. /\ cpc = "create_sem" /\ cpc' = "create_shm" /\ gen \in Objects
        /\ UNCHANGED <<region, gen, orphaned, msem>>
        /\ semName' = csem' /\ csem' \in {gen, semName}
    BY <1>0, <1>1 DEF CreateSem, HandleInv, meterVars
  <2>2. \A r \in Objects : r # gen /\ Known(r)' => Known(r)
    BY <2>1 DEF Known
  <2>3. PICK c : c \in Commands
    BY LevelAssumption DEF Commands
  <2>4. Remains(region[gen], c)
    BY <1>0, <2>1 DEF RemainsInv, Remains, Blank, Cells
  <2> QED
    BY <1>0, <2>1, <2>2, <2>3, <2>4 DEF RemainsInv, Remains
<1>2. ASSUME Start PROVE RemainsInv'
  <2>0. gen \in 0..MaxGen /\ MaxGen \in Nat
    BY <1>0, BoundAssumption DEF KernelType
  <2>1. /\ cpc = "down" /\ cpc' = "create_sem" /\ gen' = gen + 1 /\ gen' \in Objects
        /\ UNCHANGED <<region, semName, csem, msem, orphaned>>
    BY <2>0, <1>2 DEF Start, kernelVars, meterVars, Objects
  <2>2. \A r \in Objects : Known(r)' => Known(r)
    BY <2>1 DEF Known
  <2>3. region'[gen'] = Blank
    BY <1>0, <2>0, <2>1 DEF BlankInv, Objects
  <2>4. \A r \in Objects : r <= gen => r <= gen'
    BY <2>0, <2>1 DEF Objects
  <2> QED
    BY <1>0, <2>1, <2>2, <2>3, <2>4 DEF RemainsInv, Remains
<1>3. ASSUME NEW f \in Cells, Store(f) PROVE RemainsInv'
  <2>1. /\ cpc \in {"clear", "store"} /\ cpc' # "create_sem" /\ cshm' = cshm /\ gen' = gen
        /\ UNCHANGED <<image, orphaned, semName, csem, msem>> /\ cshm \in Objects
        /\ todo' = todo \ {f}
        /\ cpc' = cpc \/ todo' = {}
    BY <1>0, <1>3 DEF Store, kernelVars, meterVars, HandleInv, ShmPCs
  <2>2. /\ \A r \in Objects : r # cshm => region'[r] = region[r]
        /\ region'[cshm] \in [Cells -> Nat]
        /\ \A g \in Cells : region'[cshm][g] = IF g = f THEN image[f] ELSE region[cshm][g]
    BY <1>0, <1>3, <2>1 DEF Store, CellType
  <2>3. \A r \in Objects : Known(r)' <=> Known(r)
    BY <2>1 DEF Known
  <2>4. CASE cpc = "clear"
    <3>1. image[f] = 0
      BY <1>0, <2>4 DEF BlankInv, Blank
    <3>2. \A c \in Commands : Remains(region[cshm], c) => Remains(region'[cshm], c)
      BY <2>2, <3>1 DEF Remains
    <3> QED
      BY <1>0, <2>1, <2>2, <2>3, <2>4, <3>2 DEF RemainsInv, Remains
  <2>5. CASE cpc = "store" /\ cpc' = "store"
    BY <1>0, <2>1, <2>2, <2>3, <2>5 DEF RemainsInv, Remains
  <2>6. CASE cpc = "store" /\ cpc' # "store"
    <3>1. todo' = {} /\ image \in Commands
      BY <1>0, <2>1, <2>6 DEF StoreInv
    <3>2. \A g \in Cells : region'[cshm][g] = image[g]
      BY <1>0, <2>1, <2>2, <2>6, <3>1 DEF StoreInv
    <3>3. Remains(region'[cshm], image)
      BY <3>2 DEF Remains
    <3> QED
      BY <1>0, <2>1, <2>2, <2>3, <2>6, <3>1, <3>3 DEF RemainsInv, Remains
  <2> QED
    BY <2>1, <2>4, <2>5, <2>6
<1>4. ASSUME Terminate \/ Crash PROVE RemainsInv'
  <2>1. /\ region' = region /\ gen' = gen /\ cpc' \notin {"create_sem", "store"}
        /\ orphaned' = IF CInside THEN orphaned \cup {csem} ELSE orphaned
    BY <1>4 DEF Terminate, Crash, kernelVars
  <2>2. ASSUME cpc = "store" PROVE cshm \in orphaned' \/ (cshm <= gen /\ ~Known(cshm))
    <3>1. csem = semName /\ shmName = cshm /\ cshm \in Objects /\ cshm <= gen
      BY <1>0, <2>2 DEF GuardInv, NameInv, SemPCs, ShmPCs, HandleInv, FreshInv
    <3>2. cshm # csem => ~Known(cshm)
      BY <1>0, <3>1 DEF GuardInv, Objects
    <3>3. csem \in orphaned'
      BY <2>1, <2>2 DEF CInside
    <3> QED
      BY <3>1, <3>2, <3>3
  <2>3. ~CreateSem
    BY <1>4, <2>1 DEF CreateSem, Terminate, Crash
  <2> QED
    BY <1>0, <2>1, <2>2, <2>3, RemainsFrame
<1>5. ASSUME \/ CreateShm \/ Truncate \/ Compute \/ Wait \/ Post \/ UnlinkShm \/ UnlinkSem
             \/ UNCHANGED vars
             \/ \E m \in Meters : MStart(m) \/ Meter(m) \/ MKill(m)
      PROVE  RemainsInv'
  <2>1. /\ region' = region /\ gen' = gen /\ orphaned \subseteq orphaned'
        /\ cpc' = "create_sem" => cpc = "create_sem"
        /\ cpc = "store" => cpc' = "store" /\ cshm' = cshm
        /\ cpc = "create_sem" => cpc' = "create_sem"
    BY <1>5 DEF CreateShm, Truncate, Compute, Wait, Post, UnlinkShm, UnlinkSem, vars, MStart, Meter,
                MKill, MOpenSem, MOpenShm, MCheck, MWait, MRead, MReread, MPost, kernelVars, ctrlVars
  <2>2. ~CreateSem
    BY <2>1 DEF CreateSem
  <2> QED
    BY <1>0, <2>1, <2>2, RemainsFrame
<1> QED
  BY <1>1, <1>2, <1>3, <1>4, <1>5 DEF Next, Controller

\* What a meter that is inside has seen of the only command there is.
LEMMA ReadRemains ==
    ASSUME NEW c \in Commands, NEW i, Remains(i, c), NEW p, NEW v,
           p \in {c["heater"], 0}, v \in IF p > 0 THEN {p, i["heater"]} ELSE {i["cooler"]}
    PROVE  v \in {Load(c), 0}
<1>1. PICK u \in Levels : c = Command(u, 0) \/ c = Command(0, u)
  BY DEF Commands
<1>2. u \in Nat /\ i["heater"] \in {c["heater"], 0} /\ i["cooler"] \in {c["cooler"], 0}
  BY LevelAssumption DEF Remains, Cells
<1>3. \/ c["heater"] = u /\ c["cooler"] = 0
      \/ c["heater"] = 0 /\ c["cooler"] = u
  BY <1>1 DEF Command, Cells
<1> QED
  BY <1>2, <1>3 DEF Load

LEMMA SawStep ==
    KInv /\ [Next]_vars => SawInv'
<1> SUFFICES ASSUME KInv, [Next]_vars, NEW m \in Meters, MInside(m)', (msem[m] = mshm[m])'
             PROVE  \E c \in Commands : SawOnly(m, c)'
  BY DEF SawInv
<1>0. /\ TypeOK /\ HandleInv /\ OneInside /\ BlankInv /\ StoreInv /\ NameInv /\ GuardInv
      /\ RemainsInv /\ SawInv /\ KernelType /\ CellType /\ ControllerType /\ MeterType
  BY TypeParts DEF KInv, JInv, IInv
<1>1. ASSUME UNCHANGED <<region, mpc[m], mshm[m], msem[m], pct[m]>>
      PROVE  \E c \in Commands : SawOnly(m, c)'
  <2>1. PICK c \in Commands : SawOnly(m, c)
    BY <1>0, <1>1 DEF SawInv, MInside
  <2>2. SawOnly(m, c)'
    BY <1>1, <2>1 DEF SawOnly, Remains
  <2> QED
    BY <2>2
<1>2. ASSUME NEW f \in Cells, Store(f) PROVE \E c \in Commands : SawOnly(m, c)'
  <2>1. /\ cpc \in {"clear", "store"} /\ cshm \in Objects
        /\ mpc' = mpc /\ mshm' = mshm /\ msem' = msem /\ pct' = pct
    BY <1>0, <1>2 DEF Store, HandleInv, ShmPCs, meterVars
  <2>2. /\ \A r \in Objects : r # cshm => region'[r] = region[r]
        /\ \A g \in Cells : region'[cshm][g] = IF g = f THEN image[f] ELSE region[cshm][g]
    BY <1>0, <1>2, <2>1 DEF Store, CellType
  <2>3. MInside(m) /\ msem[m] = mshm[m] /\ mshm[m] \in Objects
    BY <1>0, <2>1 DEF MInside, HandleInv, AtSem
  <2>4. PICK c \in Commands : SawOnly(m, c)
    BY <1>0, <2>3 DEF SawInv
  <2>5. CASE mshm[m] # cshm
    <3>1. SawOnly(m, c)'
      BY <2>1, <2>2, <2>3, <2>4, <2>5 DEF SawOnly, Remains
    <3> QED
      BY <3>1
  <2>6. CASE mshm[m] = cshm /\ cpc = "clear"
    <3>1. image[f] = 0
      BY <1>0, <2>6 DEF BlankInv, Blank
    <3>2. SawOnly(m, c)'
      BY <2>1, <2>2, <2>4, <2>6, <3>1 DEF SawOnly, Remains
    <3> QED
      BY <3>2
  <2>7. CASE mshm[m] = cshm /\ cpc = "store"
    <3>1. csem = semName /\ shmName = cshm /\ Known(cshm) /\ cshm # 0
      BY <1>0, <2>3, <2>7 DEF GuardInv, NameInv, SemPCs, ShmPCs, Known, Objects
    <3>2. csem = cshm
      BY <1>0, <3>1 DEF GuardInv
    <3> QED
      BY <1>0, <2>3, <2>7, <3>2 DEF OneInside, OneToken, CHolds, MHolds, CInside
  <2> QED
    BY <2>1, <2>5, <2>6, <2>7
<1>3. ASSUME MWait(m) PROVE \E c \in Commands : SawOnly(m, c)'
  <2> DEFINE s == mshm[m]
  <2>1. /\ region' = region /\ mshm' = mshm /\ msem' = msem /\ mpc'[m] = "read"
        /\ s \in Objects /\ msem[m] = s /\ sem[s] > 0
    BY <1>0, <1>3 DEF MWait, MGoto, meterVars, HandleInv, AtSem, MeterType
  <2>2. Known(s) /\ s # 0
    BY <2>1 DEF Known, Objects
  <2>3. s \notin orphaned /\ ~CHolds(s)
    BY <1>0, <2>1 DEF OneInside, OneToken
  <2>4. ~(cpc = "store" /\ cshm = s)
    <3> SUFFICES ASSUME cpc = "store", cshm = s PROVE FALSE
      OBVIOUS
    <3>1. csem = semName /\ shmName = s
      BY <1>0 DEF GuardInv, NameInv, SemPCs, ShmPCs
    <3>2. csem = s
      BY <1>0, <2>2, <3>1 DEF GuardInv
    <3> QED
      BY <2>3, <3>2 DEF CHolds, CInside
  <2>5. PICK c \in Commands : Remains(region[s], c)
    BY <1>0, <2>1, <2>2, <2>3, <2>4 DEF RemainsInv
  <2>6. SawOnly(m, c)'
    BY <2>1, <2>5 DEF SawOnly, Remains
  <2> QED
    BY <2>6
<1>4. ASSUME MRead(m) PROVE \E c \in Commands : SawOnly(m, c)'
  <2>1. /\ region' = region /\ mshm' = mshm /\ msem' = msem /\ mpc[m] = "read" /\ mpc'[m] = "reread"
        /\ pct'[m] = region[mshm[m]]["heater"]
    BY <1>0, <1>4 DEF MRead, MGoto, MeterType
  <2>2. PICK c \in Commands : SawOnly(m, c)
    BY <1>0, <2>1 DEF SawInv, MInside
  <2>3. SawOnly(m, c)'
    BY <2>1, <2>2 DEF SawOnly, Remains, Cells
  <2> QED
    BY <2>3
<1>5. ASSUME MReread(m) PROVE \E c \in Commands : SawOnly(m, c)'
  <2>1. /\ region' = region /\ mshm' = mshm /\ msem' = msem /\ mpc[m] = "reread" /\ mpc'[m] = "post"
        /\ pct'[m] \in IF pct[m] > 0 THEN {pct[m], region[mshm[m]]["heater"]}
                       ELSE {region[mshm[m]]["cooler"]}
    BY <1>0, <1>5 DEF MReread, MGoto, MeterType
  <2>2. PICK c \in Commands : SawOnly(m, c)
    BY <1>0, <2>1 DEF SawInv, MInside
  <2>3. pct'[m] \in {Load(c), 0}
    BY <2>1, <2>2, ReadRemains DEF SawOnly
  <2>4. SawOnly(m, c)'
    BY <2>1, <2>2, <2>3 DEF SawOnly, Remains
  <2> QED
    BY <2>4
<1>6. ASSUME MStart(m) \/ MOpenSem(m) \/ MOpenShm(m) \/ MCheck(m) \/ MPost(m) \/ MKill(m) PROVE FALSE
  BY <1>0, <1>6 DEF MStart, MOpenSem, MOpenShm, MCheck, MPost, MKill, Gone, MGoto, MInside, MeterType,
                    meterVars
<1>7. ASSUME NEW n \in Meters, n # m, MStart(n) \/ Meter(n) \/ MKill(n)
      PROVE  UNCHANGED <<region, mpc[m], mshm[m], msem[m], pct[m]>>
  BY <1>0, <1>7 DEF MStart, Meter, MKill, MOpenSem, MOpenShm, MCheck, MWait, MRead, MReread, MPost, Gone,
                    MGoto, MeterType, meterVars
<1>8. ASSUME \/ Start \/ CreateSem \/ CreateShm \/ Truncate \/ Compute \/ Wait \/ Post
             \/ UnlinkShm \/ UnlinkSem \/ Terminate \/ Crash \/ UNCHANGED vars
      PROVE  UNCHANGED <<region, mpc[m], mshm[m], msem[m], pct[m]>>
  BY <1>8 DEF Start, CreateSem, CreateShm, Truncate, Compute, Wait, Post, UnlinkShm, UnlinkSem,
              Terminate, Crash, vars, meterVars
<1> QED
  BY <1>1, <1>2, <1>3, <1>4, <1>5, <1>6, <1>7, <1>8 DEF Next, Controller, Meter

----------------------------------------------------------------------------
(* Theorems *)

LEMMA KInit == Init => KInv
<1> SUFFICES ASSUME Init PROVE KInv
  OBVIOUS
<1> USE BoundAssumption, CellFacts DEF Init
<1>1. TypeOK
  BY DEF TypeOK, Objects, CtrlPCs, MeterPCs
<1>2. HandleInv /\ FreshInv
  BY DEF HandleInv, FreshInv, SemPCs, ShmPCs, AtSem
<1>3. OneInside
  BY DEF OneInside, OneToken, CHolds, MHolds, Known, CInside, MInside, Objects
<1>4. PairInv /\ BlankInv /\ StoreInv
  BY DEF PairInv, BlankInv, StoreInv, ShmPCs, Quiescent, Objects
<1>5. SeenInv /\ NameInv /\ PendInv
  BY DEF SeenInv, NameInv, PendInv, ShmPCs, AtSem
<1>6. GuardInv /\ SawInv
  BY DEF GuardInv, SawInv, SemPCs, MInside
<1>7. RemainsInv
  <2>1. PICK c : c \in Commands
    BY LevelAssumption DEF Commands
  <2>2. \A r \in Objects : Remains(region[r], c)
    BY DEF Remains, Blank, Cells
  <2> QED
    BY <2>1, <2>2 DEF RemainsInv
<1> QED
  BY <1>1, <1>2, <1>3, <1>4, <1>5, <1>6, <1>7 DEF KInv, JInv, IInv

LEMMA KStep == KInv /\ [Next]_vars => KInv'
<1> SUFFICES ASSUME KInv, [Next]_vars PROVE KInv'
  OBVIOUS
<1>1. KernelType' /\ CellType' /\ ControllerType' /\ MeterType'
  BY KernelTypeStep, CellTypeStep, ControllerTypeStep, MeterTypeStep DEF KInv, JInv, IInv
<1>2. TypeOK'
  BY <1>1 DEF TypeOK, KernelType, CellType, ControllerType, MeterType
<1>3. HandleInv' /\ FreshInv' /\ OneInside'
  BY HandleStep, FreshStep, TokenStep DEF KInv, JInv, IInv
<1>4. PairInv' /\ BlankInv' /\ StoreInv' /\ SeenInv'
  BY PairStep, BlankStep, StoreStep, SeenStep DEF KInv, JInv, IInv
<1>5. NameInv' /\ PendInv'
  BY NameStep, PendStep DEF KInv, JInv, IInv
<1>6. GuardInv' /\ RemainsInv' /\ SawInv'
  BY GuardStep, RemainsStep, SawStep DEF KInv, JInv, IInv
<1> QED
  BY <1>2, <1>3, <1>4, <1>5, <1>6 DEF KInv, JInv, IInv

\* The inductive invariant holds in every reachable state.
THEOREM Invariance == Spec => []KInv
<1> QED
  BY KInit, KStep, PTL DEF Spec

\* Type correctness.
THEOREM TypeCorrect == Spec => []TypeOK
<1>1. KInv => TypeOK
  BY DEF KInv, JInv, IInv
<1> QED
  BY <1>1, Invariance, PTL

\* At most one process is between sem_wait and sem_post of a semaphore, and
\* its token is never duplicated or dropped, for any number of meters,
\* restarts and crashes.
THEOREM OneProcessInside == Spec => []OneInside
<1>1. KInv => OneInside
  BY DEF KInv, JInv, IInv
<1> QED
  BY <1>1, Invariance, PTL

\* What a meter inside the section sees is one whole command.
LEMMA InsideSeesCommand ==
    ASSUME KInv, Calm, NEW m \in Meters, MInside(m), msem[m] = mshm[m]
    PROVE  region[mshm[m]] \in Commands
<1>1. mshm[m] \in Objects /\ region[mshm[m]]["valid"] = 1
  BY DEF KInv, JInv, IInv, HandleInv, SeenInv, AtSem, MInside
<1>2. mshm[m] \notin orphaned /\ ~CHolds(mshm[m])
  BY <1>1 DEF KInv, JInv, IInv, OneInside, OneToken, MHolds
<1>3. cpc = "store" /\ cshm = mshm[m] => CHolds(mshm[m])
  BY DEF KInv, JInv, PairInv, ShmPCs, CHolds, CInside
<1> QED
  BY <1>1, <1>2, <1>3 DEF KInv, JInv, StoreInv

\* A meter whose two handles come from one incarnation reports the load of one
\* whole command; once a controller was killed, cells of it may be cleared, but
\* none is of another command.
THEOREM ReadsAreWholeCommands == Spec => []WholeCommands
<1>1. ASSUME KInv, NEW m \in Meters, mpc[m] = "post", msem[m] = mshm[m]
      PROVE  \E c \in Commands :
                /\ \A f \in Cells : region[mshm[m]][f] \in {c[f], 0}
                /\ pct[m] \in {Load(c), 0}
                /\ crashes = 0 => region[mshm[m]] = c /\ pct[m] = Load(c)
  <2>1. CASE crashes = 0
    <3>1. region[mshm[m]] \in Commands /\ pct[m] = Load(region[mshm[m]])
      BY <1>1, <2>1, InsideSeesCommand DEF Calm, MInside, KInv, JInv, SeenInv
    <3> QED
      BY <3>1
  <2>2. CASE crashes # 0
    BY <1>1, <2>2 DEF KInv, SawInv, SawOnly, Remains, MInside
  <2> QED
    BY <2>1, <2>2
<1>2. KInv => WholeCommands
  BY <1>1 DEF WholeCommands
<1> QED
  BY <1>2, Invariance, PTL

LEMMA DetachedStep ==
    ASSUME KInv, [Next]_vars, NEW m \in Meters, mshm[m] # 0, mshm[m] # shmName
    PROVE  region'[mshm[m]] = region[mshm[m]] /\ shmName' # mshm[m]
<1>1. (\E f \in Cells : Store(f)) => region'[mshm[m]] = region[mshm[m]]
  BY DEF KInv, JInv, IInv, TypeOK, NameInv, ShmPCs, Store
<1>2. CreateShm => shmName' # mshm[m]
  BY DEF KInv, NameInv, CreateShm
<1>3. \/ \E f \in Cells : Store(f)
      \/ region' = region
  BY DEF Next, Controller, Meter, vars, Start, CreateSem, CreateShm, Truncate,
         Compute, Wait, Post, Terminate, UnlinkShm, UnlinkSem, Crash, MStart,
         MOpenSem, MOpenShm, MCheck, MWait, MRead, MReread, MPost, MKill
<1>4. shmName' = shmName \/ shmName' = 0 \/ CreateShm
  BY DEF Next, Controller, Meter, vars, kernelVars, Start, CreateSem, Truncate,
         Store, Compute, Wait, Post, Terminate, UnlinkShm, UnlinkSem, Crash,
         MStart, MOpenSem, MOpenShm, MCheck, MWait, MRead, MReread, MPost, MKill
<1> QED
  BY <1>1, <1>2, <1>3, <1>4

\* A meter attached to a region that lost its name has seen its last update.
THEOREM DetachedStaysFrozen == Spec => DetachedIsFrozen
<1>1. KInv /\ [Next]_vars =>
        [\A m \in Meters :
           mshm[m] # 0 /\ mshm[m] # shmName =>
               /\ region'[mshm[m]] = region[mshm[m]]
               /\ shmName' # mshm[m]]_vars
  BY DetachedStep
<1> QED
  BY <1>1, Invariance, PTL DEF Spec, DetachedIsFrozen

----------------------------------------------------------------------------
(* Waiting for the semaphore *)

\* The steps, at most, until the controller, and a meter, leave the section.
CRank == IF cpc = "store" THEN Cardinality(todo) + 1 ELSE 1
MRank(m) == CASE mpc[m] = "read" -> 3 [] mpc[m] = "reread" -> 2 [] OTHER -> 1

\* What a step does to a process inside: its own brings it nearer to sem_post,
\* or makes the semaphore free, and any other leaves it where it is, unless it
\* ends the process there.
CGoesOn ==
    CInside =>
        IF Controller
        THEN \/ CInside' /\ csem' = csem /\ CRank' < CRank
             \/ ~CInside' /\ sem'[csem] = 1
        ELSE csem \in orphaned' \/ (CInside' /\ csem' = csem /\ CRank' = CRank)

MGoesOn(m) ==
    MInside(m) =>
        IF Meter(m)
        THEN \/ MInside(m)' /\ msem'[m] = msem[m] /\ MRank(m)' < MRank(m)
             \/ ~MInside(m)' /\ sem'[msem[m]] = 1
        ELSE \/ msem[m] \in orphaned'
             \/ MInside(m)' /\ msem'[m] = msem[m] /\ MRank(m)' = MRank(m)

\* Who may go on when somebody waits for semaphore s.
Served(s) ==
    \/ sem[s] = 1
    \/ s \in orphaned
    \/ CHolds(s)
    \/ \E m \in Meters : MHolds(m, s)

LEMMA CellsLeft ==
    ASSUME NEW S \in SUBSET Cells
    PROVE  /\ Cardinality(S) \in 0..3
           /\ \A f \in S : Cardinality(S \ {f}) = Cardinality(S) - 1
<1>1. IsFiniteSet(Cells) /\ Cardinality(Cells) = 3
  <2>1. IsFiniteSet({"heater"}) /\ Cardinality({"heater"}) = 1
    BY FS_Singleton
  <2>2. IsFiniteSet({"heater"} \cup {"cooler"}) /\ Cardinality({"heater"} \cup {"cooler"}) = 2
    BY <2>1, FS_AddElement
  <2>3. /\ IsFiniteSet(({"heater"} \cup {"cooler"}) \cup {"valid"})
        /\ Cardinality(({"heater"} \cup {"cooler"}) \cup {"valid"}) = 3
    BY <2>2, FS_AddElement
  <2>4. Cells = ({"heater"} \cup {"cooler"}) \cup {"valid"}
    BY DEF Cells
  <2> QED
    BY <2>3, <2>4
<1>2. IsFiniteSet(S) /\ Cardinality(S) <= 3
  BY <1>1, FS_Subset
<1>3. Cardinality(S) \in Nat
  BY <1>2, FS_CardinalityType
<1> QED
  BY <1>2, <1>3, FS_RemoveElement

LEMMA ControllerGoesOn ==
    ASSUME IInv, [Next]_vars, CInside
    PROVE  CGoesOn
<1>1. /\ csem \in Objects /\ sem \in [Objects -> Nat] /\ sem[csem] = 0
      /\ todo \in SUBSET Cells /\ orphaned \in SUBSET Objects
      /\ cpc \in {"store", "post"}
  BY DEF IInv, TypeOK, HandleInv, OneInside, OneToken, SemPCs, CHolds, CInside
<1>2. ASSUME NEW f \in Cells, Store(f)
      PROVE  CInside' /\ csem' = csem /\ CRank' < CRank
  <2>1. f \in todo /\ todo' = todo \ {f} /\ csem' = csem
        /\ cpc = "store" /\ cpc' = IF todo' # {} THEN "store" ELSE "post"
    BY <1>1, <1>2 DEF Store
  <2>2. Cardinality(todo) \in 0..3 /\ Cardinality(todo') = Cardinality(todo) - 1
    BY <1>1, <2>1, CellsLeft
  <2>3. Cardinality(todo') \in 0..3
    BY <1>1, <2>1, CellsLeft
  <2> QED
    BY <2>1, <2>2, <2>3 DEF CRank, CInside
<1>3. CASE Post
  BY <1>1, <1>3 DEF Post, CInside, CGoesOn, Controller
<1>4. ~(CreateSem \/ CreateShm \/ Truncate \/ Compute \/ Wait \/ UnlinkShm \/ UnlinkSem)
  BY <1>1 DEF CreateSem, CreateShm, Truncate, Compute, Wait, UnlinkShm, UnlinkSem
<1>5. CASE Controller
  BY <1>2, <1>3, <1>4, <1>5 DEF Controller, CGoesOn
<1>6. CASE ~Controller
  <2>1. CASE Terminate \/ Crash
    BY <1>1, <1>6, <2>1 DEF Terminate, Crash, CGoesOn
  <2>2. ~Start
    BY <1>1 DEF Start
  <2>3. ASSUME NEW m \in Meters, MStart(m) \/ Meter(m) \/ MKill(m)
        PROVE  UNCHANGED <<cpc, csem, todo>>
    BY <2>3 DEF MStart, MKill, Meter, MOpenSem, MOpenShm, MCheck, MWait, MRead,
                MReread, MPost, ctrlVars
  <2>4. CASE UNCHANGED <<cpc, csem, todo>>
    BY <1>1, <1>6, <2>4 DEF CGoesOn, CInside, CRank
  <2> QED
    BY <1>6, <2>1, <2>2, <2>3, <2>4 DEF Next, vars, ctrlVars
<1> QED
  BY <1>5, <1>6

LEMMA MeterGoesOn ==
    ASSUME IInv, [Next]_vars, NEW m \in Meters, MInside(m)
    PROVE  MGoesOn(m)
<1>1. /\ msem[m] \in Objects /\ sem \in [Objects -> Nat] /\ sem[msem[m]] = 0
      /\ msem \in [Meters -> 0..MaxGen] /\ mpc \in [Meters -> MeterPCs]
      /\ mpc[m] \in {"read", "reread", "post"} /\ orphaned \in SUBSET Objects
  BY DEF IInv, TypeOK, HandleInv, OneInside, OneToken, AtSem, MHolds, MInside
<1>2. CASE MRead(m) \/ MReread(m)
  BY <1>1, <1>2 DEF MRead, MReread, MGoto, MInside, MGoesOn, MRank, Meter
<1>3. CASE MPost(m)
  BY <1>1, <1>3 DEF MPost, MGoto, MInside, MGoesOn, Meter
<1>4. ~(MOpenSem(m) \/ MOpenShm(m) \/ MCheck(m) \/ MWait(m) \/ MStart(m))
  BY <1>1 DEF MOpenSem, MOpenShm, MCheck, MWait, MStart
<1>5. CASE Meter(m)
  BY <1>2, <1>3, <1>4, <1>5 DEF Meter
<1>6. CASE ~Meter(m)
  <2>1. CASE MKill(m)
    BY <1>1, <1>6, <2>1 DEF MKill, MGoesOn, MInside
  <2>2. CASE mpc'[m] = mpc[m] /\ msem'[m] = msem[m]
    BY <1>1, <1>6, <2>2 DEF MGoesOn, MInside, MRank
  <2>3. ASSUME NEW n \in Meters, n # m, MStart(n) \/ Meter(n) \/ MKill(n)
        PROVE  mpc'[m] = mpc[m] /\ msem'[m] = msem[m]
    BY <1>1, <2>3 DEF MStart, MKill, Meter, MOpenSem, MOpenShm, MCheck, MWait,
                      MRead, MReread, MPost, MGoto, Gone, meterVars
  <2>4. ASSUME Start \/ Controller \/ Terminate \/ Crash \/ UNCHANGED vars
        PROVE  mpc'[m] = mpc[m] /\ msem'[m] = msem[m]
    BY <2>4 DEF Start, Controller, CreateSem, CreateShm, Truncate, Store, Compute,
                Wait, Post, Terminate, UnlinkShm, UnlinkSem, Crash, meterVars, vars
  <2> QED
    BY <1>4, <1>6, <2>1, <2>2, <2>3, <2>4 DEF Next
<1> QED
  BY <1>5, <1>6

(***************************************************************************)
(* The safety half of SemaphoreServes.  Whoever waits finds the semaphore  *)
(* free, or lost, or some process inside; and a process inside leaves the  *)
(* section and frees the semaphore after at most four steps of its own,    *)
(* which no other process can undo, unless it ends inside.                 *)
(***************************************************************************)
THEOREM SectionIsLeft ==
    Spec => /\ []((cpc = "wait" => Served(csem))
                  /\ \A m \in Meters : mpc[m] = "wait" => Served(msem[m]))
            /\ [](CInside => CRank \in 1..4)
            /\ [][CGoesOn /\ \A m \in Meters : MGoesOn(m)]_vars
<1>1. IInv => /\ cpc = "wait" => Served(csem)
              /\ \A m \in Meters : mpc[m] = "wait" => Served(msem[m])
  <2> SUFFICES ASSUME IInv
               PROVE  /\ cpc = "wait" => Served(csem)
                      /\ \A m \in Meters : mpc[m] = "wait" => Served(msem[m])
    OBVIOUS
  <2>1. ASSUME NEW s \in Objects, Known(s) PROVE Served(s)
    <3>1. sem[s] \in Nat /\ sem[s] <= 1
      BY <2>1 DEF IInv, TypeOK, OneInside, OneToken
    <3> QED
      BY <2>1, <3>1 DEF IInv, OneInside, OneToken, Served
  <2>2. cpc = "wait" => csem \in Objects /\ Known(csem)
    BY DEF IInv, HandleInv, SemPCs, Known
  <2>3. \A m \in Meters : mpc[m] = "wait" => msem[m] \in Objects /\ Known(msem[m])
    BY DEF IInv, HandleInv, AtSem, Known
  <2> QED
    BY <2>1, <2>2, <2>3
<1>2. IInv => (CInside => CRank \in 1..4)
  <2> SUFFICES ASSUME IInv, CInside PROVE CRank \in 1..4
    OBVIOUS
  <2>1. Cardinality(todo) \in 0..3
    BY CellsLeft DEF IInv, TypeOK
  <2> QED
    BY <2>1 DEF CRank
<1>3. IInv /\ [Next]_vars => [CGoesOn /\ \A m \in Meters : MGoesOn(m)]_vars
  <2> SUFFICES ASSUME IInv, [Next]_vars PROVE CGoesOn /\ \A m \in Meters : MGoesOn(m)
    OBVIOUS
  <2>1. CGoesOn
    BY ControllerGoesOn DEF CGoesOn
  <2>2. \A m \in Meters : MGoesOn(m)
    BY MeterGoesOn DEF MGoesOn
  <2> QED
    BY <2>1, <2>2
<1>4. KInv => IInv
  BY DEF KInv, JInv
<1> QED
  BY <1>1, <1>2, <1>3, <1>4, Invariance, PTL DEF Spec

(***************************************************************************)
(* A process that dies inside hangs the others for good: the semaphore it  *)
(* held is never free again, although ipc_create_sem of the next controller *)
(* reuses it while its name exists, and whoever waits for it waits until   *)
(* it is stopped or killed itself.                                         *)
(***************************************************************************)
THEOREM OrphanedForGood ==
    Spec => /\ [](\A s \in orphaned : sem[s] = 0)
            /\ [][orphaned \subseteq orphaned']_vars
            /\ [][/\ cpc = "wait" /\ csem \in orphaned =>
                       cpc' \in {"wait", "unlink_shm", "down"}
                  /\ \A m \in Meters : mpc[m] = "wait" /\ msem[m] \in orphaned =>
                       mpc'[m] \in {"wait", "off"}]_vars
<1>1. IInv => \A s \in orphaned : sem[s] = 0
  BY DEF IInv, TypeOK, OneInside, OneToken
<1>2. IInv /\ [Next]_vars => [orphaned \subseteq orphaned']_vars
  <2> SUFFICES ASSUME [Next]_vars PROVE orphaned \subseteq orphaned'
    OBVIOUS
  <2>1. Terminate \/ Crash \/ (\E m \in Meters : MKill(m)) => orphaned \subseteq orphaned'
    BY DEF Terminate, Crash, MKill
  <2>2. \/ Terminate \/ Crash \/ (\E m \in Meters : MKill(m))
        \/ orphaned' = orphaned
    BY DEF Next, Controller, Meter, vars, Start, CreateSem, CreateShm, Truncate,
           Store, Compute, Wait, Post, UnlinkShm, UnlinkSem, MStart,
           MOpenSem, MOpenShm, MCheck, MWait, MRead, MReread, MPost
  <2> QED
    BY <2>1, <2>2
<1>3. ASSUME IInv, [Next]_vars, cpc = "wait", csem \in orphaned
      PROVE  cpc' \in {"wait", "unlink_shm", "down"}
  <2>1. ~Wait
    BY <1>1, <1>3 DEF Wait
  <2> QED
    BY <1>3, <2>1 DEF Next, Controller, Meter, vars, ctrlVars, Start, CreateSem,
           CreateShm, Truncate, Store, Compute, Post, Terminate, UnlinkShm,
           UnlinkSem, Crash, MStart, MOpenSem, MOpenShm, MCheck, MWait, MRead,
           MReread, MPost, MKill
<1>4. ASSUME IInv, [Next]_vars, NEW m \in Meters, mpc[m] = "wait", msem[m] \in orphaned
      PROVE  mpc'[m] \in {"wait", "off"}
  <2>1. ~MWait(m) /\ mpc \in [Meters -> MeterPCs]
    BY <1>1, <1>4 DEF MWait, IInv, TypeOK
  <2>2. ASSUME NEW n \in Meters, MStart(n) \/ Meter(n) \/ MKill(n)
        PROVE  mpc'[m] \in {"wait", "off"}
    BY <1>4, <2>1, <2>2 DEF MStart, MKill, Meter, MOpenSem, MOpenShm, MCheck,
                MWait, MRead, MReread, MPost, MGoto, Gone, meterVars
  <2>3. ASSUME Start \/ Controller \/ Terminate \/ Crash \/ UNCHANGED vars
        PROVE  mpc' = mpc
    BY <2>3 DEF Start, Controller, CreateSem, CreateShm, Truncate, Store, Compute,
                Wait, Post, Terminate, UnlinkShm, UnlinkSem, Crash, meterVars, vars
  <2> QED
    BY <1>4, <2>2, <2>3 DEF Next
<1>5. IInv /\ [Next]_vars =>
        [/\ cpc = "wait" /\ csem \in orphaned =>
              cpc' \in {"wait", "unlink_shm", "down"}
         /\ \A m \in Meters : mpc[m] = "wait" /\ msem[m] \in orphaned =>
              mpc'[m] \in {"wait", "off"}]_vars
  BY <1>3, <1>4
<1>6. KInv => IInv
  BY DEF KInv, JInv
<1> QED
  BY <1>1, <1>2, <1>5, <1>6, Invariance, PTL DEF Spec

----------------------------------------------------------------------------
(* Refinement: one incarnation implements the register *)

Reading == [m \in Meters |-> IF mpc[m] = "post" THEN {pct[m]} ELSE {}]

\* Steps that touch neither the stores nor a meter's reading.
LEMMA StutterStep ==
    ASSUME region' = region, todo' = todo, image' = image \/ todo = {},
           \A m \in Meters : (mpc'[m] = "post") <=> (mpc[m] = "post"),
           \A m \in Meters : mpc[m] = "post" => pct'[m] = pct[m]
    PROVE  UNCHANGED <<Published, Reading>>
  BY DEF Published, Reading

LEMMA RegisterStep ==
    ASSUME MaxGen = 1, KInv, [Next]_vars
    PROVE  [Register!Next]_<<Published, Reading>>
<1> USE DEF kernelVars, ctrlVars, meterVars
<1>0. /\ Objects = {1} /\ gen \in {0, 1} /\ Calm
      /\ region \in [Objects -> [Cells -> Nat]]
      /\ mpc \in [Meters -> MeterPCs] /\ pct \in [Meters -> Nat]
      /\ todo \in SUBSET Cells
  BY DEF KInv, JInv, IInv, TypeOK, Objects, Calm
<1>a. ASSUME NEW m \in Meters, MInside(m)
      PROVE  mshm[m] = 1 /\ msem[m] = 1 /\ todo = {} /\ region[1] \in Commands
  <2>1. mshm[m] = 1 /\ msem[m] = 1
    BY <1>0, <1>a DEF KInv, JInv, IInv, HandleInv, AtSem, MInside
  <2>2. region[1] \in Commands
    BY <1>0, <1>a, <2>1, InsideSeesCommand
  <2>3. 1 \notin orphaned /\ ~CHolds(1)
    BY <1>0, <1>a, <2>1 DEF KInv, JInv, IInv, OneInside, OneToken, MHolds
  <2>4. ~CInside
    BY <1>0, <2>3 DEF KInv, JInv, IInv, HandleInv, SemPCs, CInside, CHolds
  <2>5. region[1]["valid"] = 1
    BY <2>2, CellFacts
  <2> QED
    BY <2>1, <2>2, <2>3, <2>4, <2>5 DEF KInv, PendInv
<1>b. todo = {} => Published = region[1]
  BY <1>0 DEF Published
<1> DEFINE Quiet == UNCHANGED <<Published, Reading>>
           Moves == Register!Next \/ Quiet
<1>1. ASSUME UNCHANGED vars PROVE Moves
  BY <1>0, <1>1, StutterStep DEF vars
<1>2. ASSUME Start PROVE Moves
  <2>1. gen = 0 /\ todo = {} /\ todo' = {} /\ region' = region
    BY <1>0, <1>2 DEF Start, KInv, PendInv
  <2> QED
    BY <1>2, <2>1 DEF Start, Published, Reading
<1>3. ASSUME CreateSem PROVE Moves
  BY <1>0, <1>3, StutterStep DEF CreateSem
<1>4. ASSUME CreateShm PROVE Moves
  BY <1>0, <1>4, StutterStep DEF CreateShm
<1>5. ASSUME Truncate PROVE Moves
  <2>1. region[1] = Blank /\ region' = region /\ image' = Blank /\ todo' = Cells
    BY <1>0, <1>5 DEF Truncate, KInv, JInv, BlankInv, IInv, HandleInv
  <2>2. Published' = Blank
    BY <2>1 DEF Published, Blank
  <2>3. Published = Blank
    BY <1>5, <1>b, <2>1 DEF Truncate, KInv, JInv, StoreInv, Quiescent
  <2> QED
    BY <1>5, <2>2, <2>3 DEF Truncate, Reading
<1>6. ASSUME Compute PROVE Moves
  <2>1. todo = {} /\ todo' = {} /\ region' = region
    BY <1>6 DEF Compute, KInv, JInv, StoreInv, Quiescent
  <2> QED
    BY <1>6, <2>1 DEF Compute, Published, Reading
<1>7. ASSUME Wait PROVE Moves
  <2>1. image \in Commands /\ image' = image /\ todo' = Cells
    BY <1>7 DEF Wait, KInv, JInv, StoreInv
  <2>2. Published' = image
    BY <2>1, CellFacts DEF Published
  <2>3. Reading' = Reading
    BY <1>7 DEF Wait, Reading
  <2>4. Register!Publish(image)
    BY <2>2, <2>3 DEF Register!Publish, Reading
  <2> QED
    BY <2>1, <2>4 DEF Register!Next
<1>8. ASSUME Post PROVE Moves
  BY <1>0, <1>8, StutterStep DEF Post
<1>9. ASSUME Terminate PROVE Moves
  BY <1>0, <1>9, StutterStep DEF Terminate
<1>10. ASSUME UnlinkShm PROVE Moves
  BY <1>0, <1>10, StutterStep DEF UnlinkShm
<1>11. ASSUME UnlinkSem PROVE Moves
  BY <1>0, <1>11, StutterStep DEF UnlinkSem
<1>12. ASSUME Crash PROVE Moves
  BY <1>0, <1>12, StutterStep DEF Crash
<1>13. ASSUME NEW f \in Cells, Store(f) PROVE Moves
  <2>1. cshm = 1 /\ todo' = todo \ {f} /\ image' = image /\ f \in todo
    BY <1>0, <1>13 DEF Store, KInv, JInv, IInv, HandleInv, ShmPCs
  <2>2. \A g \in Cells : region'[1][g] = IF g = f THEN image[f] ELSE region[1][g]
    BY <1>0, <1>13, <2>1 DEF Store
  <2>3. Published' = Published
    BY <2>1, <2>2 DEF Published
  <2> QED
    BY <1>13, <2>3 DEF Store, Reading
<1>14. ASSUME NEW m \in Meters, MStart(m) PROVE Moves
  BY <1>0, <1>14, StutterStep DEF MStart, MGoto
<1>15. ASSUME NEW m \in Meters, MOpenSem(m) PROVE Moves
  BY <1>0, <1>15, StutterStep DEF MOpenSem, MGoto
<1>16. ASSUME NEW m \in Meters, MOpenShm(m) PROVE Moves
  BY <1>0, <1>16, StutterStep DEF MOpenShm, MGoto
<1>17. ASSUME NEW m \in Meters, MCheck(m) PROVE Moves
  BY <1>0, <1>17, StutterStep DEF MCheck, Gone, MGoto
<1>18. ASSUME NEW m \in Meters, MWait(m) PROVE Moves
  BY <1>0, <1>18, StutterStep DEF MWait, MGoto
<1>19. ASSUME NEW m \in Meters, MRead(m) PROVE Moves
  BY <1>0, <1>19, StutterStep DEF MRead, MGoto
<1>20. ASSUME NEW m \in Meters, MReread(m) PROVE Moves
  <2>1. mshm[m] = 1 /\ msem[m] = 1 /\ todo = {} /\ region[1] \in Commands
    BY <1>a, <1>20 DEF MReread, MInside
  <2>2. Published = region[1] /\ Published' = Published
    BY <1>b, <1>20, <2>1 DEF MReread, Published
  <2>3. pct[m] = region[1]["heater"]
    BY <1>0, <1>20, <2>1 DEF MReread, KInv, JInv, SeenInv
  <2>4. PICK v : /\ v \in IF pct[m] > 0 THEN {pct[m], region[1]["heater"]}
                          ELSE {region[1]["cooler"]}
                 /\ pct' = [pct EXCEPT ![m] = v]
    BY <1>20, <2>1 DEF MReread
  <2>5. v = Load(region[1])
    BY <2>3, <2>4 DEF Load
  <2>6. Reading' = [Reading EXCEPT ![m] = {Load(Published)}]
    BY <1>0, <1>20, <2>2, <2>4, <2>5 DEF MReread, MGoto, Reading
  <2>7. Published # Blank
    BY <2>1, <2>2, CellFacts
  <2>8. Register!Sample(m)
    BY <2>2, <2>6, <2>7 DEF Register!Sample, Reading
  <2> QED
    BY <2>8 DEF Register!Next
<1>21. ASSUME NEW m \in Meters, MPost(m) PROVE Moves
  <2>1. Published' = Published
    BY <1>21 DEF MPost, Published
  <2>2. Reading' = [Reading EXCEPT ![m] = {}]
    BY <1>0, <1>21 DEF MPost, MGoto, Reading
  <2>3. Register!Discard(m)
    BY <2>1, <2>2 DEF Register!Discard, Reading
  <2> QED
    BY <2>3 DEF Register!Next
<1>22. ASSUME NEW m \in Meters, MKill(m) PROVE Moves
  <2>1. Published' = Published
    BY <1>22 DEF MKill, Published
  <2>2. Reading' = [Reading EXCEPT ![m] = {}]
    BY <1>0, <1>22 DEF MKill, Gone, MGoto, Reading
  <2>3. Register!Discard(m)
    BY <2>1, <2>2 DEF Register!Discard, Reading
  <2> QED
    BY <2>3 DEF Register!Next
<1>99. Moves
  BY <1>1, <1>2, <1>3, <1>4, <1>5, <1>6, <1>7, <1>8, <1>9, <1>10, <1>11,
     <1>12, <1>13, <1>14, <1>15, <1>16, <1>17, <1>18, <1>19, <1>20, <1>21, <1>22
  DEF Next, Controller, Meter
<1> QED
  BY <1>99 DEF Reading

LEMMA RegisterInit == MaxGen = 1 /\ Init => Register!Init
<1> SUFFICES ASSUME MaxGen = 1, Init PROVE Register!Init
  OBVIOUS
<1>1. region[1] = Blank /\ todo = {}
  BY DEF Init, Objects
<1>2. Published = Blank
  BY <1>1 DEF Published, Blank
<1> QED
  BY <1>2 DEF Init, Register!Init

\* With one incarnation of the controller, any meters and any signals and
\* crashes implement the register of whole commands.
THEOREM IpcImplementsRegister ==
    ASSUME MaxGen = 1 PROVE Spec => IsRegister
<1>1. Init => Register!Init
  BY RegisterInit
<1>2. KInv /\ [Next]_vars => [Register!Next]_<<Published, Reading>>
  BY RegisterStep
<1> QED
  BY <1>1, <1>2, Invariance, PTL DEF Spec, IsRegister, Register!Spec, Reading

=============================================================================
