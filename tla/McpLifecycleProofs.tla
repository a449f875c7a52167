------------------------- MODULE McpLifecycleProofs -------------------------
(***************************************************************************)
(* What holds of McpLifecycle for every set of processes, servers and      *)
(* commands and every number of faults.                                    *)
(***************************************************************************)
EXTENDS McpLifecycle, FiniteSetTheorems, TLAPS

-----------------------------------------------------------------------------
(* The inductive invariant *)

\* A process that goes on with a record has one in memory.
HeldInv ==
  \A p \in Procs :
    pc[p] \in {"save", "probe", "term", "kill", "refused"} => held[p] \in Record

\* A live process whose lock file exists is in the critical section.
LockInv == \A p \in Procs : lock # NoLock /\ lock.by = p => pc[p] \in Holding

\* What a recovery has judged dead is.
JudgeInv == \A p \in Procs : pc[p] = "break" => suspect[p] = Gone

\* The processes inside whose lock file is gone.
Strays == Inside \ {LockHolder}

\* Each was robbed by a recovery of its own.
StrayInv == IsFiniteSet(Strays) /\ Cardinality(Strays) <= overtaken

Published == live \ orphans

Stopping == {"find", "term", "kill", "stopped", "refused"}

NobodyStops == \A p \in Procs : pc[p] \notin Stopping

\* A process on its way to spawn has seen that there is no server.
SpawnerFoundNone ==
  \A p \in Procs : pc[p] \in {"delete", "spawn"} => Published = {}

\* The server of a process that is about to publish it is the only one, and the
\* record knows none.
SaverHasTheOnly ==
  \A p \in Procs :
    pc[p] = "save" => /\ Attachable(held[p]) /\ Published = {held[p].pid}
                      /\ record # NoRecord => record.pid \notin Published

\* A process past the decision goes on with a recorded server that runs.
AttachedRuns ==
  \A p \in Procs :
    pc[p] \in {"release", "load", "probe"} =>
      Attachable(record) /\ record.pid \in Published

ProbeIsCurrent ==
  \A p \in Procs :
    pc[p] = "probe" => Attachable(held[p]) /\ held[p].pid = record.pid

\* Every published server is recorded, or about to be.
PublishedIsRecorded ==
  \A s \in Published :
    \/ Attachable(record) /\ record.pid = s
    \/ \E p \in Procs : pc[p] = "save"

RecordIsNoOrphan == record # NoRecord => record.pid \notin orphans

\* Users only start, no server died and no recovery was overtaken.
Calm == ~disturbed /\ overtaken = 0

StartInv ==
  Calm => /\ NobodyStops /\ SpawnerFoundNone /\ SaverHasTheOnly /\ AttachedRuns
          /\ ProbeIsCurrent /\ PublishedIsRecorded /\ RecordIsNoOrphan

-----------------------------------------------------------------------------
(* Types *)

TypeInv == TypeOK /\ HeldInv

LEMMA TypeInit == Init => TypeInv
<1> SUFFICES ASSUME Init PROVE TypeInv
  OBVIOUS
<1>1. pc \in [Procs -> Phases] /\ HeldInv
  BY DEF Init, Phases, HeldInv
<1>2. suspect \in [Procs -> Procs \cup {Gone}] /\ held \in [Procs -> Record \cup {NoRecord}]
  BY DEF Init
<1>3. faults \in 0..MaxFaults /\ overtaken \in 0..MaxOvertaken
  BY LifecycleAssumption DEF Init
<1>4. QED
  BY <1>1, <1>2, <1>3 DEF Init, TypeInv, TypeOK

LEMMA TypeStart ==
  ASSUME TypeInv, NEW p \in Procs, Start(p) \/ Health(p) \/ Stop(p)
  PROVE  TypeInv'
BY LifecycleAssumption
DEF TypeInv, TypeOK, HeldInv, Phases, Holding, Recovering, Record, Goto, Start, Health, Stop

LEMMA TypeLock ==
  ASSUME TypeInv, NEW p \in Procs,
         CreateLock(p) \/ Publish(p) \/ ReadLock(p) \/ Judge(p) \/ BreakLock(p)
           \/ Retry(p) \/ TimeOut(p) \/ Unlock(p)
  PROVE  TypeInv'
<1>1. CASE CreateLock(p)
  BY <1>1, LifecycleAssumption
  DEF TypeInv, TypeOK, HeldInv, Phases, Holding, Recovering, Record, Goto, CreateLock
<1>2. CASE Publish(p)
  BY <1>2, LifecycleAssumption
  DEF TypeInv, TypeOK, HeldInv, Phases, Holding, Recovering, Record, Goto, Publish
<1>3. CASE ReadLock(p)
  BY <1>3, LifecycleAssumption
  DEF TypeInv, TypeOK, HeldInv, Phases, Holding, Recovering, Record, Goto, ReadLock
<1>4. CASE Judge(p) \/ BreakLock(p) \/ Retry(p)
  <2>1. overtaken' \in 0..MaxOvertaken
    BY <1>4, LifecycleAssumption DEF TypeInv, TypeOK, Judge, BreakLock, Retry
  <2>2. QED
    BY <1>4, <2>1, LifecycleAssumption
    DEF TypeInv, TypeOK, HeldInv, Phases, Holding, Recovering, Record, Goto, Judge, BreakLock,
        Retry
<1>5. CASE TimeOut(p)
  BY <1>5, LifecycleAssumption
  DEF TypeInv, TypeOK, HeldInv, Phases, Holding, Recovering, Record, Ends, TimeOut
<1>6. CASE Unlock(p)
  BY <1>6, LifecycleAssumption
  DEF TypeInv, TypeOK, HeldInv, Phases, Holding, Recovering, Record, Goto, Ends, Unlock
<1>7. QED
  BY <1>1, <1>2, <1>3, <1>4, <1>5, <1>6

LEMMA TypeSpawn ==
  ASSUME TypeInv, NEW p \in Procs,
         Decide(p) \/ DeleteState(p) \/ (\E s \in Servers : Spawn(p, s))
           \/ SpawnFails(p) \/ SaveRunning(p) \/ SaveFails(p)
  PROVE  TypeInv'
<1>1. CASE Decide(p) \/ DeleteState(p)
  BY <1>1, LifecycleAssumption
  DEF TypeInv, TypeOK, HeldInv, Phases, Holding, Recovering, Record, Goto, Decide, DeleteState
<1>2. ASSUME NEW s \in Servers, Spawn(p, s)
      PROVE  TypeInv'
  BY <1>2, LifecycleAssumption
  DEF TypeInv, TypeOK, HeldInv, Phases, Holding, Recovering, Record, Statuses, Goto, Spawn
<1>3. CASE SpawnFails(p)
  BY <1>3, LifecycleAssumption
  DEF TypeInv, TypeOK, HeldInv, Phases, Holding, Recovering, Record, Statuses, Goto, Fault,
      SpawnFails
<1>4. CASE SaveRunning(p)
  BY <1>4, LifecycleAssumption
  DEF TypeInv, TypeOK, HeldInv, Phases, Holding, Recovering, Record, Goto, SaveRunning
<1>5. CASE SaveFails(p)
  BY <1>5, LifecycleAssumption
  DEF TypeInv, TypeOK, HeldInv, Phases, Holding, Recovering, Record, Statuses, Goto, Fault,
      SaveFails
<1>6. QED
  BY <1>1, <1>2, <1>3, <1>4, <1>5

LEMMA TypeProbe ==
  ASSUME TypeInv, NEW p \in Procs,
         Load(p) \/ (\E healthy \in BOOLEAN : SaveProbe(p, healthy))
  PROVE  TypeInv'
<1>1. CASE Load(p)
  BY <1>1, LifecycleAssumption
  DEF TypeInv, TypeOK, HeldInv, Phases, Holding, Recovering, Record, Statuses, Registered, Goto,
      Load
<1>2. ASSUME NEW healthy \in BOOLEAN, SaveProbe(p, healthy)
      PROVE  TypeInv'
  <2>1. held[p] \in Record
    BY <1>2 DEF SaveProbe, TypeInv, HeldInv
  <2>2. record' \in Record
    BY <1>2, <2>1 DEF SaveProbe, Probed, Record, Statuses
  <2>3. QED
    BY <1>2, <2>2, LifecycleAssumption
    DEF TypeInv, TypeOK, HeldInv, Phases, Holding, Recovering, Ends, SaveProbe
<1>3. QED
  BY <1>1, <1>2

LEMMA TypeStop ==
  ASSUME TypeInv, NEW p \in Procs,
         FindServer(p) \/ Terminate(p) \/ Kill(p) \/ KillFails(p) \/ SaveStop(p)
  PROVE  TypeInv'
<1>1. CASE FindServer(p)
  BY <1>1, LifecycleAssumption
  DEF TypeInv, TypeOK, HeldInv, Phases, Holding, Recovering, Record, Goto, FindServer
<1>2. CASE Terminate(p)
  BY <1>2, LifecycleAssumption
  DEF TypeInv, TypeOK, HeldInv, Phases, Holding, Recovering, Record, Goto, Terminate
<1>3. CASE Kill(p)
  BY <1>3, LifecycleAssumption
  DEF TypeInv, TypeOK, HeldInv, Phases, Holding, Recovering, Record, Goto, Kill
<1>4. CASE KillFails(p)
  BY <1>4, LifecycleAssumption
  DEF TypeInv, TypeOK, HeldInv, Phases, Holding, Recovering, Record, Goto, Fault, KillFails
<1>5. CASE SaveStop(p)
  BY <1>5, LifecycleAssumption
  DEF TypeInv, TypeOK, HeldInv, Phases, Holding, Recovering, Record, Statuses, Stopped, Ends,
      SaveStop
<1>6. QED
  BY <1>1, <1>2, <1>3, <1>4, <1>5

LEMMA TypeWorld ==
  ASSUME TypeInv,
         (\E p \in Procs : Crash(p)) \/ (\E s \in Servers : ServerDies(s))
  PROVE  TypeInv'
<1>1. ASSUME NEW p \in Procs, Crash(p)
      PROVE  TypeInv'
  BY <1>1, LifecycleAssumption
  DEF TypeInv, TypeOK, HeldInv, Phases, Holding, Recovering, Record, Fault, Ends, Crash
<1>2. ASSUME NEW s \in Servers, ServerDies(s)
      PROVE  TypeInv'
  BY <1>2, LifecycleAssumption
  DEF TypeInv, TypeOK, HeldInv, Phases, Holding, Recovering, Record, Fault, ServerDies
<1>3. QED
  BY <1>1, <1>2

LEMMA TypeNext == TypeInv /\ [Next]_vars => TypeInv'
<1> SUFFICES ASSUME TypeInv, [Next]_vars PROVE TypeInv'
  OBVIOUS
<1>1. CASE UNCHANGED vars
  BY <1>1 DEF vars, TypeInv, TypeOK, HeldInv
<1>2. CASE Next
  BY <1>2, TypeStart, TypeLock, TypeSpawn, TypeProbe, TypeStop, TypeWorld DEF Next, Step
<1>3. QED
  BY <1>1, <1>2

\* Every value the commands write is one a later command can read.
THEOREM McpTypes == Spec => []TypeOK
<1>1. Spec => []TypeInv
  BY TypeInit, TypeNext, PTL DEF Spec
<1>2. TypeInv => TypeOK
  BY DEF TypeInv
<1>3. QED
  BY <1>1, <1>2, PTL

-----------------------------------------------------------------------------
(* Mutual exclusion *)

ExclusionInv == TypeInv /\ LockInv /\ JudgeInv /\ StrayInv

LockFile == [by : Procs \cup {Gone}, written : BOOLEAN]

LEMMA LockIsFile == ASSUME NEW l \in LockFile PROVE l # NoLock
BY LifecycleAssumption DEF LockFile

LEMMA HolderIs ==
  ASSUME TypeInv
  PROVE  /\ LockHolder \in Procs \cup {Gone, NoLock}
         /\ LockHolder = NoLock <=> lock = NoLock
         /\ LockHolder # NoLock => LockHolder = lock.by
BY LifecycleAssumption DEF LockHolder, TypeInv, TypeOK

\* One process more is one process more.
LEMMA OneMore ==
  ASSUME NEW S, NEW T, NEW x, IsFiniteSet(S), T \subseteq S \cup {x}
  PROVE  IsFiniteSet(T) /\ Cardinality(T) <= Cardinality(S) + 1
<1>1. /\ IsFiniteSet(S \cup {x})
      /\ Cardinality(S \cup {x}) = IF x \in S THEN Cardinality(S) ELSE Cardinality(S) + 1
  BY FS_AddElement
<1>2. IsFiniteSet(T) /\ Cardinality(T) <= Cardinality(S \cup {x})
  BY <1>1, FS_Subset
<1>3. Cardinality(S) \in Nat /\ Cardinality(T) \in Nat /\ Cardinality(S \cup {x}) \in Nat
  BY <1>1, <1>2, FS_CardinalityType
<1>4. QED
  BY <1>1, <1>2, <1>3

\* A stray that takes another's lock along when it leaves.
LEMMA OneForAnother ==
  ASSUME NEW S, NEW T, NEW x, NEW y \in S, IsFiniteSet(S), T \subseteq (S \ {y}) \cup {x}
  PROVE  IsFiniteSet(T) /\ Cardinality(T) <= Cardinality(S)
<1>1. IsFiniteSet(S \ {y}) /\ Cardinality(S \ {y}) = Cardinality(S) - 1
  BY FS_RemoveElement
<1>2. IsFiniteSet(T) /\ Cardinality(T) <= Cardinality(S \ {y}) + 1
  BY <1>1, OneMore
<1>3. Cardinality(S) \in Nat /\ Cardinality(T) \in Nat
  BY <1>2, FS_CardinalityType
<1>4. QED
  BY <1>1, <1>2, <1>3

LEMMA Fewer ==
  ASSUME NEW S, NEW T, IsFiniteSet(S), T \subseteq S
  PROVE  IsFiniteSet(T) /\ Cardinality(T) <= Cardinality(S)
BY FS_Subset

-----------------------------------------------------------------------------
(* What a step does to the lock.  Enters: p creates it; Steals: an overtaken *)
(* recovery; Quits: p leaves or dies; Frees: a dead process's lock goes.     *)

Enters(p) ==
  /\ LockHolder = NoLock /\ p \notin Inside
  /\ LockHolder' = p /\ Inside' = Inside \cup {p} /\ overtaken' = overtaken

Steals ==
  /\ LockHolder \in Inside
  /\ LockHolder' = NoLock /\ Inside' = Inside /\ overtaken' = overtaken + 1

Frees ==
  /\ LockHolder = Gone
  /\ LockHolder' = NoLock /\ Inside' = Inside /\ overtaken' = overtaken

Quits(p, left) ==
  /\ p \in Inside
  /\ LockHolder' = left /\ Inside' = Inside \ {p} /\ overtaken' = overtaken

Keeps == UNCHANGED <<LockHolder, Inside, overtaken>>

LockEvent ==
  \/ Steals \/ Frees \/ Keeps
  \/ \E p \in Procs : \/ Enters(p) \/ Quits(p, NoLock)
                      \/ Quits(p, IF LockHolder = p THEN Gone ELSE LockHolder)

\* The processes inside after p has moved.
LEMMA Moves ==
  ASSUME TypeInv, NEW p \in Procs, NEW to, pc' = [pc EXCEPT ![p] = to]
  PROVE  Inside' = IF to \in Holding THEN Inside \cup {p} ELSE Inside \ {p}
<1>1. Inside' = {q \in Procs : pc'[q] \in Holding}
  BY DEF Inside
<1>2. \A q \in Procs : pc'[q] = IF q = p THEN to ELSE pc[q]
  BY DEF TypeInv, TypeOK
<1>3. QED
  BY <1>1, <1>2 DEF Inside

LEMMA EventOfCreate ==
  ASSUME ExclusionInv, NEW p \in Procs, CreateLock(p)
  PROVE  Enters(p)
<1>1. lock' \in LockFile /\ lock'.by = p /\ lock = NoLock
  BY DEF CreateLock, LockFile
<1>2. LockHolder = NoLock /\ LockHolder' = p
  BY <1>1, LockIsFile DEF LockHolder
<1>3. Inside' = Inside \cup {p} /\ p \notin Inside
  BY Moves DEF CreateLock, Goto, ExclusionInv, Holding, Inside
<1>4. QED
  BY <1>2, <1>3 DEF Enters, CreateLock

LEMMA EventOfPublish ==
  ASSUME ExclusionInv, NEW p \in Procs, Publish(p)
  PROVE  Keeps
<1>1. LockHolder' = LockHolder
  <2>1. CASE lock # NoLock /\ lock.by = p
    <3>1. lock \in LockFile /\ lock' = [lock EXCEPT !.written = TRUE]
      BY <2>1 DEF Publish, ExclusionInv, TypeInv, TypeOK, LockFile
    <3>2. lock' \in LockFile /\ lock'.by = p
      BY <2>1, <3>1 DEF LockFile
    <3>3. QED
      BY <2>1, <3>2, LockIsFile DEF LockHolder
  <2>2. CASE ~(lock # NoLock /\ lock.by = p)
    BY <2>2 DEF Publish, LockHolder
  <2>3. QED
    BY <2>1, <2>2
<1>2. Inside' = Inside
  BY Moves DEF Publish, Goto, ExclusionInv, Holding, Inside
<1>3. QED
  BY <1>1, <1>2 DEF Keeps, Publish

LEMMA EventOfBreak ==
  ASSUME ExclusionInv, NEW p \in Procs, BreakLock(p)
  PROVE  Steals \/ Frees \/ Keeps
<1>1. LockHolder' = NoLock
  BY DEF BreakLock, LockHolder
<1>2. Inside' = Inside
  BY Moves DEF BreakLock, Goto, ExclusionInv, Holding, Inside
<1>3. suspect[p] = Gone
  BY DEF BreakLock, Goto, ExclusionInv, JudgeInv
<1>4. CASE LockHolder = NoLock
  <2>1. ~Overtaken(p)
    BY <1>4, HolderIs DEF Overtaken, ExclusionInv
  <2>2. QED
    BY <1>1, <1>2, <1>4, <2>1 DEF Keeps, BreakLock
<1>5. CASE LockHolder = Gone
  <2>1. ~Overtaken(p)
    BY <1>5, HolderIs DEF Overtaken, ExclusionInv
  <2>2. QED
    BY <1>1, <1>2, <1>5, <2>1 DEF Frees, BreakLock
<1>6. CASE LockHolder \in Procs
  <2>1. lock # NoLock /\ lock.by = LockHolder
    BY <1>6, HolderIs, LifecycleAssumption DEF ExclusionInv
  <2>2. Overtaken(p)
    BY <1>3, <1>6, <2>1, LifecycleAssumption DEF Overtaken
  <2>3. LockHolder \in Inside
    BY <1>6, <2>1 DEF ExclusionInv, LockInv, Inside
  <2>4. QED
    BY <1>1, <1>2, <2>2, <2>3 DEF Steals, BreakLock
<1>7. QED
  BY <1>4, <1>5, <1>6, HolderIs DEF ExclusionInv

LEMMA EventOfUnlock ==
  ASSUME ExclusionInv, NEW p \in Procs, Unlock(p)
  PROVE  Quits(p, NoLock)
<1>1. LockHolder' = NoLock
  BY DEF Unlock, LockHolder
<1>2. p \in Inside
  BY DEF Unlock, Goto, Holding, Inside
<1>3. pc' = [pc EXCEPT ![p] = "idle"] \/ pc' = [pc EXCEPT ![p] = "load"]
  BY DEF Unlock, Goto, Ends
<1>4. Inside' = Inside \ {p}
  BY <1>3, Moves DEF ExclusionInv, Holding
<1>5. QED
  BY <1>1, <1>2, <1>4 DEF Quits, Unlock

LEMMA EventOfCrash ==
  ASSUME ExclusionInv, NEW p \in Procs, Crash(p)
  PROVE  Keeps \/ Quits(p, IF LockHolder = p THEN Gone ELSE LockHolder)
<1>1. LockHolder' = IF LockHolder = p THEN Gone ELSE LockHolder
  <2>1. CASE lock # NoLock /\ lock.by = p
    <3>1. lock \in LockFile /\ lock' = [lock EXCEPT !.by = Gone]
      BY <2>1 DEF Crash, ExclusionInv, TypeInv, TypeOK, LockFile
    <3>2. lock' \in LockFile /\ lock'.by = Gone
      BY <3>1 DEF LockFile
    <3>3. QED
      BY <2>1, <3>2, LockIsFile DEF LockHolder
  <2>2. CASE ~(lock # NoLock /\ lock.by = p)
    <3>1. LockHolder # p
      BY <2>2, HolderIs, LifecycleAssumption DEF ExclusionInv
    <3>2. QED
      BY <2>2, <3>1 DEF Crash, LockHolder
  <2>3. QED
    BY <2>1, <2>2
<1>2. Inside' = Inside \ {p}
  <2>1. pc' = [pc EXCEPT ![p] = "idle"]
    BY DEF Crash, Ends
  <2>2. QED
    BY <2>1, Moves DEF ExclusionInv, Holding
<1>3. overtaken' = overtaken
  BY DEF Crash
<1>4. CASE p \in Inside
  BY <1>1, <1>2, <1>3, <1>4 DEF Quits
<1>5. CASE p \notin Inside
  <2>1. LockHolder # p
    BY <1>5, HolderIs, LifecycleAssumption DEF ExclusionInv, LockInv, Inside
  <2>2. QED
    BY <1>1, <1>2, <1>3, <1>5, <2>1 DEF Keeps
<1>6. QED
  BY <1>4, <1>5

\* A step between two phases on the same side of the lock.
LEMMA EventOfOther ==
  ASSUME ExclusionInv, NEW p \in Procs, NEW to, pc' = [pc EXCEPT ![p] = to],
         pc[p] \in Holding <=> to \in Holding, UNCHANGED <<lock, overtaken>>
  PROVE  Keeps
<1>1. Inside' = Inside
  BY Moves DEF ExclusionInv, Inside
<1>2. LockHolder' = LockHolder
  BY DEF LockHolder
<1>3. QED
  BY <1>1, <1>2 DEF Keeps

LEMMA EventOfHolder ==
  ASSUME ExclusionInv, NEW p \in Procs,
         \/ Decide(p) \/ DeleteState(p) \/ (\E s \in Servers : Spawn(p, s))
         \/ SpawnFails(p) \/ SaveRunning(p) \/ SaveFails(p)
  PROVE  Keeps
<1>1. CASE Decide(p)
  BY <1>1, EventOfOther DEF Decide, Goto, Holding
<1>2. CASE DeleteState(p)
  BY <1>2, EventOfOther DEF DeleteState, Goto, Holding
<1>3. CASE \E s \in Servers : Spawn(p, s)
  BY <1>3, EventOfOther DEF Spawn, Goto, Holding
<1>4. CASE SpawnFails(p)
  BY <1>4, EventOfOther DEF SpawnFails, Goto, Holding
<1>5. CASE SaveRunning(p)
  BY <1>5, EventOfOther DEF SaveRunning, Goto, Holding
<1>6. CASE SaveFails(p)
  BY <1>6, EventOfOther DEF SaveFails, Goto, Holding
<1>7. QED
  BY <1>1, <1>2, <1>3, <1>4, <1>5, <1>6

LEMMA EventOfContender ==
  ASSUME ExclusionInv, NEW p \in Procs,
         Start(p) \/ ReadLock(p) \/ Judge(p) \/ Retry(p) \/ TimeOut(p)
  PROVE  Keeps
<1>1. CASE Start(p)
  BY <1>1, EventOfOther DEF Start, Goto, Holding
<1>2. CASE ReadLock(p)
  BY <1>2, EventOfOther DEF ReadLock, Goto, Holding
<1>3. CASE Judge(p)
  BY <1>3, EventOfOther DEF Judge, Goto, Holding
<1>4. CASE Retry(p)
  BY <1>4, EventOfOther DEF Retry, Goto, Holding
<1>5. CASE TimeOut(p)
  BY <1>5, EventOfOther DEF TimeOut, Ends, Holding
<1>6. QED
  BY <1>1, <1>2, <1>3, <1>4, <1>5

LEMMA EventOfOutsider ==
  ASSUME ExclusionInv, NEW p \in Procs,
         \/ Health(p) \/ Stop(p) \/ Load(p) \/ FindServer(p) \/ Terminate(p) \/ Kill(p)
         \/ KillFails(p) \/ SaveStop(p) \/ (\E healthy \in BOOLEAN : SaveProbe(p, healthy))
  PROVE  Keeps
<1>1. CASE Health(p) \/ Stop(p)
  BY <1>1, EventOfOther DEF Health, Stop, Goto, Holding
<1>2. CASE Load(p)
  BY <1>2, EventOfOther DEF Load, Goto, Holding
<1>3. CASE FindServer(p)
  BY <1>3, EventOfOther DEF FindServer, Goto, Holding
<1>4. CASE Terminate(p)
  BY <1>4, EventOfOther DEF Terminate, Goto, Holding
<1>5. CASE Kill(p) \/ KillFails(p)
  BY <1>5, EventOfOther DEF Kill, KillFails, Goto, Holding
<1>6. CASE SaveStop(p)
  BY <1>6, EventOfOther DEF SaveStop, Ends, Holding
<1>7. CASE \E healthy \in BOOLEAN : SaveProbe(p, healthy)
  BY <1>7, EventOfOther DEF SaveProbe, Ends, Holding
<1>8. QED
  BY <1>1, <1>2, <1>3, <1>4, <1>5, <1>6, <1>7

\* Every step is one of these.
LEMMA EveryEvent ==
  ASSUME ExclusionInv, [Next]_vars
  PROVE  LockEvent
<1> USE DEF LockEvent
<1>1. CASE UNCHANGED vars
  BY <1>1 DEF vars, Keeps, LockHolder, Inside
<1>2. ASSUME NEW s \in Servers, ServerDies(s)
      PROVE  Keeps
  BY <1>2 DEF ServerDies, Keeps, LockHolder, Inside
<1>3. ASSUME NEW p \in Procs,
             \/ Start(p) \/ Health(p) \/ Stop(p) \/ Step(p) \/ TimeOut(p) \/ SpawnFails(p)
             \/ SaveFails(p) \/ KillFails(p) \/ Crash(p)
      PROVE  LockEvent
  BY <1>3, EventOfCreate, EventOfPublish, EventOfBreak, EventOfUnlock, EventOfCrash,
     EventOfHolder, EventOfContender, EventOfOutsider
  DEF Step
<1>4. QED
  BY <1>1, <1>2, <1>3 DEF Next

-----------------------------------------------------------------------------
(* The invariant *)

LEMMA ExclusionInit == Init => ExclusionInv
<1> SUFFICES ASSUME Init PROVE ExclusionInv
  OBVIOUS
<1>1. Strays = {}
  BY DEF Init, Strays, Inside, Holding
<1>2. StrayInv
  BY <1>1, FS_EmptySet DEF StrayInv, Init
<1>3. QED
  BY <1>2, TypeInit DEF Init, ExclusionInv, LockInv, JudgeInv

\* The strays of each event.
LEMMA StrayNext ==
  ASSUME ExclusionInv, LockEvent
  PROVE  StrayInv'
<1> USE DEF ExclusionInv
<1>0. /\ IsFiniteSet(Strays) /\ Cardinality(Strays) \in Nat /\ overtaken \in Nat
      /\ Cardinality(Strays) <= overtaken
      /\ Inside \subseteq Procs
      /\ Strays' = Inside' \ {LockHolder'}
  BY FS_CardinalityType DEF StrayInv, Strays, Inside, TypeInv, TypeOK
<1>1. ASSUME IsFiniteSet(Strays'), Cardinality(Strays') <= Cardinality(Strays),
             overtaken' = overtaken
      PROVE  StrayInv'
  <2>1. Cardinality(Strays') \in Nat
    BY <1>1, FS_CardinalityType
  <2>2. QED
    BY <1>0, <1>1, <2>1 DEF StrayInv
<1>2. CASE Keeps
  <2>1. Strays' = Strays
    BY <1>0, <1>2 DEF Keeps, Strays
  <2>2. QED
    BY <1>0, <1>2, <2>1 DEF Keeps, StrayInv
<1>3. CASE Steals
  <2>1. Strays' \subseteq Strays \cup {LockHolder}
    BY <1>0, <1>3 DEF Steals, Strays
  <2>2. IsFiniteSet(Strays') /\ Cardinality(Strays') <= Cardinality(Strays) + 1
    BY <1>0, <2>1, OneMore
  <2>3. Cardinality(Strays') \in Nat
    BY <2>2, FS_CardinalityType
  <2>4. QED
    BY <1>0, <1>3, <2>2, <2>3 DEF Steals, StrayInv
<1>4. CASE Frees
  <2>1. Strays' \subseteq Strays
    BY <1>0, <1>4, LifecycleAssumption DEF Frees, Strays
  <2>2. QED
    BY <1>0, <1>1, <1>4, <2>1, Fewer DEF Frees
<1>5. ASSUME NEW p \in Procs, Enters(p)
      PROVE  StrayInv'
  <2>1. Strays' \subseteq Strays
    BY <1>0, <1>5, LifecycleAssumption DEF Enters, Strays
  <2>2. QED
    BY <1>0, <1>1, <1>5, <2>1, Fewer DEF Enters
<1>6. ASSUME NEW p \in Procs, Quits(p, NoLock)
      PROVE  StrayInv'
  <2>1. CASE p = LockHolder
    <3>1. Strays' \subseteq Strays
      BY <1>0, <1>6, <2>1 DEF Quits, Strays
    <3>2. QED
      BY <1>0, <1>1, <1>6, <3>1, Fewer DEF Quits
  <2>2. CASE p # LockHolder
    <3>1. p \in Strays /\ Strays' \subseteq (Strays \ {p}) \cup {LockHolder}
      BY <1>0, <1>6, <2>2 DEF Quits, Strays
    <3>2. IsFiniteSet(Strays') /\ Cardinality(Strays') <= Cardinality(Strays)
      BY <1>0, <3>1, OneForAnother
    <3>3. QED
      BY <1>1, <1>6, <3>2 DEF Quits
  <2>3. QED
    BY <2>1, <2>2
<1>7. ASSUME NEW p \in Procs, Quits(p, IF LockHolder = p THEN Gone ELSE LockHolder)
      PROVE  StrayInv'
  <2>1. Strays' \subseteq Strays
    BY <1>0, <1>7 DEF Quits, Strays
  <2>2. QED
    BY <1>0, <1>1, <1>7, <2>1, Fewer DEF Quits
<1>8. QED
  BY <1>2, <1>3, <1>4, <1>5, <1>6, <1>7 DEF LockEvent

\* Whoever the file names comes or stays inside.
LEMMA LockNextInv ==
  ASSUME ExclusionInv, TypeInv', LockEvent
  PROVE  LockInv'
<1>1. LockHolder' \in Procs => LockHolder' \in Inside'
  <2>1. LockHolder \in Procs => LockHolder \in Inside
    BY HolderIs, LifecycleAssumption DEF ExclusionInv, LockInv, Inside
  <2>2. QED
    BY <2>1, LifecycleAssumption DEF LockEvent, Steals, Frees, Keeps, Enters, Quits
<1>2. \A p \in Procs : lock' # NoLock /\ lock'.by = p => LockHolder' = p
  BY DEF LockHolder
<1>3. Inside' = {p \in Procs : pc'[p] \in Holding}
  BY DEF Inside
<1>4. QED
  BY <1>1, <1>2, <1>3 DEF LockInv

LEMMA JudgeNext ==
  ASSUME ExclusionInv, [Next]_vars
  PROVE  JudgeInv'
<1> USE DEF ExclusionInv, TypeInv, TypeOK, JudgeInv, Goto, Ends
<1>1. CASE UNCHANGED vars
  BY <1>1 DEF vars
<1>2. ASSUME NEW s \in Servers, ServerDies(s)
      PROVE  JudgeInv'
  BY <1>2 DEF ServerDies
<1>3. ASSUME NEW p \in Procs,
             \/ Start(p) \/ Health(p) \/ Stop(p) \/ CreateLock(p) \/ Publish(p) \/ ReadLock(p)
             \/ Judge(p) \/ BreakLock(p) \/ Retry(p) \/ Load(p)
      PROVE  JudgeInv'
  BY <1>3 DEF Start, Health, Stop, CreateLock, Publish, ReadLock, Judge, BreakLock, Retry, Load
<1>4. ASSUME NEW p \in Procs,
             \/ TimeOut(p) \/ Unlock(p) \/ SaveStop(p) \/ Crash(p)
             \/ \E healthy \in BOOLEAN : SaveProbe(p, healthy)
      PROVE  JudgeInv'
  BY <1>4 DEF TimeOut, Unlock, SaveStop, Crash, SaveProbe
<1>5. ASSUME NEW p \in Procs,
             \/ Decide(p) \/ DeleteState(p) \/ SpawnFails(p) \/ SaveRunning(p) \/ SaveFails(p)
             \/ \E s \in Servers : Spawn(p, s)
      PROVE  JudgeInv'
  BY <1>5 DEF Decide, DeleteState, SpawnFails, SaveRunning, SaveFails, Spawn
<1>6. ASSUME NEW p \in Procs, FindServer(p) \/ Terminate(p) \/ Kill(p) \/ KillFails(p)
      PROVE  JudgeInv'
  BY <1>6 DEF FindServer, Terminate, Kill, KillFails
<1>7. QED
  BY <1>1, <1>2, <1>3, <1>4, <1>5, <1>6 DEF Next, Step

LEMMA ExclusionNext == ExclusionInv /\ [Next]_vars => ExclusionInv'
BY TypeNext, EveryEvent, StrayNext, LockNextInv, JudgeNext DEF ExclusionInv

\* Nobody is inside but the holder and the strays.
LEMMA InsideIsFew ==
  ASSUME ExclusionInv
  PROVE  IsFiniteSet(Inside) /\ Cardinality(Inside) <= 1 + overtaken
<1>1. Inside \subseteq Strays \cup {LockHolder}
  BY DEF Strays
<1>2. IsFiniteSet(Inside) /\ Cardinality(Inside) <= Cardinality(Strays) + 1
  BY <1>1, OneMore DEF ExclusionInv, StrayInv
<1>3. Cardinality(Inside) \in Nat /\ Cardinality(Strays) \in Nat /\ overtaken \in Nat
  BY <1>2, FS_CardinalityType DEF ExclusionInv, StrayInv, TypeInv, TypeOK
<1>4. QED
  BY <1>2, <1>3 DEF ExclusionInv, StrayInv

\* Every process inside the spawn lock beyond the first was let in by a recovery
\* of its own that unlinked a live process's lock, whoever crashes, however many
\* recoveries there are and whatever order they come in.
THEOREM SpawnLockExcludes == Spec => []OneInsidePerRecovery
<1>1. Spec => []ExclusionInv
  BY ExclusionInit, ExclusionNext, PTL DEF Spec
<1>2. ExclusionInv => OneInsidePerRecovery
  BY InsideIsFew DEF OneInsidePerRecovery
<1>3. QED
  BY <1>1, <1>2, PTL

\* Without overtaken recoveries the one process inside is the holder.
LEMMA OnlyTheHolder ==
  ASSUME ExclusionInv, overtaken = 0, NEW p \in Inside
  PROVE  LockHolder = p
<1>1. Cardinality(Strays) = 0 /\ IsFiniteSet(Strays)
  <2>1. Cardinality(Strays) \in Nat
    BY FS_CardinalityType DEF ExclusionInv, StrayInv
  <2>2. QED
    BY <2>1 DEF ExclusionInv, StrayInv
<1>2. Strays = {}
  BY <1>1, FS_EmptySet
<1>3. QED
  BY <1>2 DEF Strays

LEMMA HoldersAreOne ==
  ASSUME ExclusionInv, Calm, NEW p \in Procs, NEW q \in Procs,
         pc[p] \in Holding, pc[q] \in Holding
  PROVE  p = q
BY OnlyTheHolder DEF Calm, Inside

-----------------------------------------------------------------------------
(* Confirmed stops *)

LEMMA StopNext == TypeInv /\ StopIsConfirmed /\ [Next]_vars => StopIsConfirmed'
<1> SUFFICES ASSUME TypeInv, StopIsConfirmed, [Next]_vars PROVE StopIsConfirmed'
  OBVIOUS
<1> USE DEF TypeInv, TypeOK, StopIsConfirmed, Goto, Ends
<1>1. CASE UNCHANGED vars
  BY <1>1 DEF vars
<1>2. ASSUME NEW p \in Procs,
             \/ Start(p) \/ Health(p) \/ Stop(p) \/ CreateLock(p) \/ Publish(p) \/ ReadLock(p)
             \/ Judge(p) \/ BreakLock(p) \/ Retry(p) \/ Load(p)
      PROVE  StopIsConfirmed'
  BY <1>2 DEF Start, Health, Stop, CreateLock, Publish, ReadLock, Judge, BreakLock, Retry, Load
<1>3. ASSUME NEW p \in Procs,
             \/ TimeOut(p) \/ Unlock(p) \/ SaveStop(p) \/ Crash(p)
             \/ \E healthy \in BOOLEAN : SaveProbe(p, healthy)
      PROVE  StopIsConfirmed'
  BY <1>3 DEF TimeOut, Unlock, SaveStop, Crash, SaveProbe
<1>4. ASSUME NEW p \in Procs,
             \/ Decide(p) \/ DeleteState(p) \/ SpawnFails(p) \/ SaveRunning(p) \/ SaveFails(p)
      PROVE  StopIsConfirmed'
  BY <1>4 DEF Decide, DeleteState, SpawnFails, SaveRunning, SaveFails
<1>5. ASSUME NEW p \in Procs, NEW s \in Servers, Spawn(p, s)
      PROVE  StopIsConfirmed'
  BY <1>5 DEF Spawn, Fresh
<1>6. ASSUME NEW p \in Procs, FindServer(p)
      PROVE  StopIsConfirmed'
  BY <1>6 DEF FindServer
<1>7. ASSUME NEW p \in Procs, Terminate(p) \/ Kill(p) \/ KillFails(p)
      PROVE  StopIsConfirmed'
  BY <1>7 DEF Terminate, Kill, KillFails
<1>8. ASSUME NEW s \in Servers, ServerDies(s)
      PROVE  StopIsConfirmed'
  BY <1>8 DEF ServerDies
<1>9. QED
  BY <1>1, <1>2, <1>3, <1>4, <1>5, <1>6, <1>7, <1>8 DEF Next, Step

\* stop says "stopped" of a dead process only, whatever starts, stops and probes
\* run beside it: a spawn does not take a pid somebody still has in hand.
THEOREM StopsAreConfirmed == Spec => []StopIsConfirmed
<1>1. Init => StopIsConfirmed
  BY DEF Init, StopIsConfirmed
<1>2. QED
  BY <1>1, TypeInit, TypeNext, StopNext, PTL DEF Spec

-----------------------------------------------------------------------------
(* One server for all starts *)

SharedInv == ExclusionInv /\ StartInv

LEMMA StartInit == Init => StartInv
BY DEF Init, StartInv, NobodyStops, SpawnerFoundNone, SaverHasTheOnly, AttachedRuns, ProbeIsCurrent,
    PublishedIsRecorded, RecordIsNoOrphan, Stopping, Published

\* While users only start, nobody is on the way to stop or kill a server.
LEMMA StartNotStopping ==
  ASSUME SharedInv, Calm, NEW p \in Procs
  PROVE  pc[p] \notin {"find", "term", "kill", "stopped", "refused"}
BY DEF SharedInv, StartInv, NobodyStops, Stopping

LEMMA StartLock ==
  ASSUME SharedInv, Calm, NEW p \in Procs,
         \/ Start(p) \/ CreateLock(p) \/ Publish(p) \/ ReadLock(p) \/ Judge(p) \/ BreakLock(p)
         \/ Retry(p) \/ TimeOut(p) \/ Unlock(p)
  PROVE  StartInv'
<1> USE DEF SharedInv, ExclusionInv, TypeInv, TypeOK, StartInv, Stopping, Published, Goto,
    NobodyStops, SpawnerFoundNone, SaverHasTheOnly, AttachedRuns, ProbeIsCurrent,
    PublishedIsRecorded, RecordIsNoOrphan, Ends
<1>1. CASE Start(p) \/ CreateLock(p) \/ Publish(p) \/ ReadLock(p) \/ Judge(p) \/ BreakLock(p)
             \/ Retry(p)
  BY <1>1 DEF Start, CreateLock, Publish, ReadLock, Judge, BreakLock, Retry
<1>2. CASE TimeOut(p)
  BY <1>2 DEF TimeOut
<1>3. CASE Unlock(p)
  BY <1>3 DEF Unlock
<1>4. QED
  BY <1>1, <1>2, <1>3

LEMMA StartDecide ==
  ASSUME SharedInv, Calm, NEW p \in Procs, Decide(p)
  PROVE  StartInv'
<1> USE DEF SharedInv, ExclusionInv, TypeInv, TypeOK, StartInv, Stopping, Published, Goto,
    NobodyStops, SpawnerFoundNone, SaverHasTheOnly, AttachedRuns, ProbeIsCurrent,
    PublishedIsRecorded, RecordIsNoOrphan
<1>1. \A q \in Procs : pc[q] # "save"
  BY HoldersAreOne DEF Decide, Holding
<1>2. pc[p] = "enter" /\ pc'[p] \in {"spawn", "delete", "leave", "release"}
  BY DEF Decide
<1>3. \A q \in Procs \ {p} : pc'[q] = pc[q] /\ held'[q] = held[q]
  BY DEF Decide
<1>4. pc'[p] \in {"spawn", "delete"} => Published = {}
  BY <1>1 DEF Decide
<1>5. pc'[p] = "release" => Attachable(record) /\ record.pid \in Published
  BY DEF Decide, Attachable
<1>6. UNCHANGED <<record, live, orphans, disturbed>>
  BY DEF Decide
<1>7. QED
  BY <1>1, <1>2, <1>3, <1>4, <1>5, <1>6 DEF Attachable

\* A process on its way to spawn is alone: nobody probes a published server.
LEMMA SpawnerIsAlone ==
  ASSUME SharedInv, Calm, NEW p \in Procs, pc[p] \in {"delete", "spawn", "save"},
         NEW q \in Procs
  PROVE  /\ pc[q] \notin {"release", "load", "probe"}
         /\ pc[q] \in {"delete", "spawn", "save"} => q = p
<1>1. pc[q] \in {"delete", "spawn", "save"} => q = p
  BY HoldersAreOne DEF SharedInv, Holding
<1>2. pc[q] \notin {"release", "load", "probe"}
  BY DEF SharedInv, StartInv, SpawnerFoundNone, SaverHasTheOnly, AttachedRuns, Attachable
<1>3. QED
  BY <1>1, <1>2

LEMMA StartSpawn ==
  ASSUME SharedInv, Calm, NEW p \in Procs,
         DeleteState(p) \/ (\E s \in Servers : Spawn(p, s)) \/ SpawnFails(p)
  PROVE  StartInv'
<1> USE DEF SharedInv, ExclusionInv, TypeInv, TypeOK, StartInv, Stopping, Published, Goto,
    NobodyStops, SpawnerFoundNone, SaverHasTheOnly, AttachedRuns, ProbeIsCurrent,
    PublishedIsRecorded, RecordIsNoOrphan
<1>1. CASE DeleteState(p)
  BY <1>1, SpawnerIsAlone DEF DeleteState
<1>2. ASSUME NEW s \in Servers, Spawn(p, s)
      PROVE  StartInv'
  <2>1. pc[p] = "spawn" /\ pc' = [pc EXCEPT ![p] = "save"]
    BY <1>2 DEF Spawn
  <2>2. Published = {} /\ s \notin orphans
    BY <1>2, <2>1 DEF Spawn, Fresh
  <2>3. Published' = {s} /\ held'[p].pid = s
    BY <1>2, <2>2 DEF Spawn
  <2>4. Attachable(held'[p])
    <3>1. held'[p] = [status |-> "running", pid |-> s] /\ held'[p] \in Record
      BY <1>2 DEF Spawn, Record, Statuses
    <3>2. QED
      BY <3>1, LifecycleAssumption DEF Attachable, Record, Statuses
  <2>5. record # NoRecord => record.pid # s
    BY <1>2 DEF Spawn, Fresh
  <2>6. \A q \in Procs : /\ pc'[q] \notin {"release", "load", "probe", "delete", "spawn"}
                         /\ pc'[q] = "save" => q = p
    BY <2>1, SpawnerIsAlone
  <2>7. UNCHANGED <<record, orphans, disturbed>>
    BY <1>2 DEF Spawn
  <2>8. \A q \in Procs : pc'[q] \notin Stopping
    BY <2>1
  <2>9. record # NoRecord => record.pid \notin orphans
    OBVIOUS
  <2>10. SaverHasTheOnly'
    BY <2>3, <2>5, <2>6, <2>7, <2>4 DEF Attachable
  <2>11. PublishedIsRecorded'
    BY <2>1
  <2>12. NobodyStops' /\ SpawnerFoundNone' /\ ProbeIsCurrent'
    BY <2>6, <2>8
  <2>13. AttachedRuns'
    BY <2>6 DEF Attachable
  <2>14. QED
    BY <2>7, <2>9, <2>10, <2>11, <2>12, <2>13
<1>3. CASE SpawnFails(p)
  BY <1>3, SpawnerIsAlone, LifecycleAssumption DEF SpawnFails
<1>4. QED
  BY <1>1, <1>2, <1>3

LEMMA StartSave ==
  ASSUME SharedInv, Calm, NEW p \in Procs, SaveRunning(p) \/ SaveFails(p)
  PROVE  StartInv'
<1> USE DEF SharedInv, ExclusionInv, TypeInv, TypeOK, StartInv, Stopping, Published, Goto,
    NobodyStops, SpawnerFoundNone, SaverHasTheOnly, AttachedRuns, ProbeIsCurrent,
    PublishedIsRecorded, RecordIsNoOrphan
<1>0. pc[p] = "save" /\ held[p] \in Record /\ Published = {held[p].pid}
  BY DEF SaveRunning, SaveFails, HeldInv
<1>1. CASE SaveRunning(p)
  <2>1. pc' = [pc EXCEPT ![p] = "release"] /\ record' = held[p]
        /\ UNCHANGED <<held, live, orphans, disturbed>>
    BY <1>1 DEF SaveRunning
  <2>2. \A q \in Procs : /\ pc'[q] \notin {"delete", "spawn", "save", "load", "probe"}
                         /\ pc'[q] = "release" => q = p
    BY <1>0, <2>1, SpawnerIsAlone
  <2>3. Attachable(record') /\ record'.pid \in Published'
    BY <1>0, <2>1 DEF Attachable
  <2>4. \A s \in Published' : Attachable(record') /\ record'.pid = s
    BY <1>0, <2>1, <2>3 DEF Attachable
  <2>5. \A q \in Procs : pc'[q] \notin Stopping
    BY <2>1
  <2>6. QED
    <3>1. NobodyStops' /\ SpawnerFoundNone' /\ SaverHasTheOnly' /\ ProbeIsCurrent'
      BY <2>2, <2>5
    <3>2. AttachedRuns'
      BY <2>3 DEF Attachable
    <3>3. PublishedIsRecorded'
      <4> SUFFICES ASSUME NEW s \in Published'
                   PROVE  Attachable(record') /\ record'.pid = s
        BY DEF Attachable
      <4>1. QED
        BY <2>4
    <3>4. RecordIsNoOrphan'
      BY <2>3
    <3>5. QED
      BY <3>1, <3>2, <3>3, <3>4
<1>2. CASE SaveFails(p)
  <2>1. /\ pc' = [pc EXCEPT ![p] = "leave"] /\ record' = [status |-> "error", pid |-> NoPid]
        /\ orphans' = orphans \cup ({held[p].pid} \cap live)
        /\ UNCHANGED <<held, live, disturbed>>
    BY <1>2 DEF SaveFails
  <2>2. \A q \in Procs : pc'[q] \notin {"delete", "spawn", "save", "release", "load", "probe"}
    BY <1>0, <2>1, SpawnerIsAlone
  <2>3. Published' = {}
    BY <1>0, <2>1
  <2>4. record'.pid \notin orphans'
    BY <2>1, LifecycleAssumption
  <2>5. \A q \in Procs : pc'[q] \notin Stopping
    BY <2>1
  <2>6. QED
    BY <2>1, <2>2, <2>3, <2>4, <2>5
<1>3. QED
  BY <1>1, <1>2

\* Nobody is on the way to spawn while somebody probes a published server, and
\* so the record it saves is the one it loaded, but for the status.
LEMMA StartProbe ==
  ASSUME SharedInv, Calm, NEW p \in Procs,
         Load(p) \/ (\E healthy \in BOOLEAN : SaveProbe(p, healthy))
  PROVE  StartInv'
<1> USE DEF SharedInv, ExclusionInv, TypeInv, TypeOK, StartInv, Stopping, Published, Goto,
    NobodyStops, SpawnerFoundNone, SaverHasTheOnly, AttachedRuns, ProbeIsCurrent,
    PublishedIsRecorded, RecordIsNoOrphan
<1>1. CASE Load(p)
  <2>1. pc[p] = "load" /\ pc' = [pc EXCEPT ![p] = "probe"]
        /\ UNCHANGED <<record, live, orphans, disturbed>>
    BY <1>1 DEF Load
  <2>2. Attachable(record) /\ record.pid \in Published
    BY <2>1
  <2>3. held' = [held EXCEPT ![p] = record]
    BY <1>1, <2>2 DEF Load, Attachable
  <2>4. QED
    BY <2>1, <2>2, <2>3 DEF Attachable
<1>2. ASSUME NEW healthy \in BOOLEAN, SaveProbe(p, healthy)
      PROVE  StartInv'
  <2>1. /\ pc[p] = "probe" /\ Attachable(record) /\ record.pid \in Published
        /\ Attachable(held[p]) /\ held[p].pid = record.pid /\ held[p] \in Record
    BY <1>2 DEF SaveProbe, HeldInv
  <2>2. /\ pc' = [pc EXCEPT ![p] = "idle"] /\ UNCHANGED <<live, orphans, disturbed>>
        /\ \A q \in Procs \ {p} : held'[q] = held[q]
    BY <1>2 DEF SaveProbe, Ends
  <2>3. /\ record' \in Record /\ record'.pid = record.pid
        /\ record'.status \in {"running", "unhealthy"}
    BY <1>2, <2>1 DEF SaveProbe, Probed, Attachable, Record, Statuses
  <2>4. Attachable(record') /\ record'.pid = record.pid
    BY <2>3, LifecycleAssumption DEF Attachable, Record, Statuses
  <2>5. \A q \in Procs : pc[q] \notin {"delete", "spawn", "save"}
    BY <2>1, SpawnerIsAlone
  <2>6. NobodyStops' /\ SpawnerFoundNone' /\ SaverHasTheOnly'
    BY <2>2, <2>5
  <2>7. AttachedRuns' /\ ProbeIsCurrent'
    BY <2>1, <2>2, <2>4 DEF Attachable
  <2>8. PublishedIsRecorded' /\ RecordIsNoOrphan'
    BY <2>1, <2>2, <2>4, <2>5 DEF Attachable
  <2>9. QED
    BY <2>2, <2>6, <2>7, <2>8
<1>3. QED
  BY <1>1, <1>2

LEMMA StartCrash ==
  ASSUME SharedInv, Calm, NEW p \in Procs, Crash(p)
  PROVE  StartInv'
<1> USE DEF SharedInv, ExclusionInv, TypeInv, TypeOK, StartInv, Stopping, Published, Goto,
    NobodyStops, SpawnerFoundNone, SaverHasTheOnly, AttachedRuns, ProbeIsCurrent,
    PublishedIsRecorded, RecordIsNoOrphan
<1>1. /\ pc' = [pc EXCEPT ![p] = "idle"] /\ UNCHANGED <<record, live, disturbed>>
      /\ \A q \in Procs \ {p} : held'[q] = held[q]
  BY DEF Crash, Ends
<1>2. CASE pc[p] = "save"
  <2>1. held[p] \in Record /\ Published = {held[p].pid} /\ Published' = {}
    BY <1>1, <1>2 DEF HeldInv, Crash
  <2>2. \A q \in Procs : pc'[q] \notin {"delete", "spawn", "save", "release", "load", "probe"}
    BY <1>1, <1>2, SpawnerIsAlone
  <2>3. orphans' = orphans \cup {held[p].pid}
    BY <1>2, <2>1 DEF Crash
  <2>4. RecordIsNoOrphan'
    BY <1>1, <1>2, <2>1, <2>3
  <2>5. NobodyStops' /\ SpawnerFoundNone' /\ SaverHasTheOnly' /\ AttachedRuns'
        /\ ProbeIsCurrent' /\ PublishedIsRecorded'
    BY <1>1, <2>1, <2>2
  <2>6. QED
    BY <2>4, <2>5
<1>3. CASE pc[p] # "save"
  BY <1>1, <1>3 DEF Crash
<1>4. QED
  BY <1>2, <1>3

LEMMA SharedNext == SharedInv /\ [Next]_vars => SharedInv'
<1> SUFFICES ASSUME SharedInv, [Next]_vars PROVE StartInv'
  BY ExclusionNext DEF SharedInv
<1>1. CASE UNCHANGED vars
  BY <1>1
  DEF vars, SharedInv, StartInv, Calm, NobodyStops, SpawnerFoundNone, SaverHasTheOnly,
      AttachedRuns, ProbeIsCurrent, PublishedIsRecorded, RecordIsNoOrphan, Published,
      Attachable
<1>2. CASE ~Calm'
  BY <1>2 DEF StartInv
<1>3. CASE Next /\ Calm'
  <2>1. /\ disturbed \in BOOLEAN /\ disturbed' \in BOOLEAN
        /\ overtaken \in Nat /\ overtaken' \in Nat
    BY TypeNext DEF SharedInv, ExclusionInv, TypeInv, TypeOK
  <2>2. ASSUME NEW p \in Procs, Health(p) \/ Stop(p)
        PROVE  FALSE
    BY <1>3, <2>2 DEF Health, Stop, Calm
  <2>3. ASSUME NEW s \in Servers, ServerDies(s)
        PROVE  FALSE
    BY <1>3, <2>3 DEF ServerDies, Calm
  <2>4. ASSUME NEW p \in Procs, Calm,
               FindServer(p) \/ Terminate(p) \/ Kill(p) \/ KillFails(p) \/ SaveStop(p)
        PROVE  FALSE
    BY <2>4, StartNotStopping DEF FindServer, Terminate, Kill, KillFails, SaveStop, Goto
  <2>5. ~disturbed
    BY <1>3, <2>1, <2>2, <2>3
    DEF Next, Step, Start, CreateLock, Publish, ReadLock, Judge, BreakLock, Retry, TimeOut,
        Decide, DeleteState, Spawn, SpawnFails, SaveRunning, SaveFails, Unlock, Load, SaveProbe,
        FindServer, Terminate, Kill, KillFails, SaveStop, Crash, Calm
  <2>6. overtaken = 0
    <3>1. overtaken' = overtaken \/ overtaken' = overtaken + 1
      BY EveryEvent DEF SharedInv, LockEvent, Steals, Frees, Keeps, Enters, Quits
    <3>2. QED
      BY <1>3, <2>1, <3>1 DEF Calm
  <2>7. Calm
    BY <2>5, <2>6 DEF Calm
  <2>8. QED
    BY <1>3, <2>2, <2>3, <2>4, <2>7, StartLock, StartDecide, StartSpawn, StartSave, StartProbe,
       StartCrash
    DEF Next, Step
<1>4. QED
  BY <1>1, <1>2, <1>3

\* While users only start, no server dies on its own and no recovery is overtaken,
\* every start returns the same server, but for those a crashed or failing spawner
\* could not publish.
THEOREM StartsShare == Spec => []StartsShareOneServer
<1>1. Init => SharedInv
  BY ExclusionInit, StartInit DEF SharedInv
<1>2. Spec => []SharedInv
  BY <1>1, SharedNext, PTL DEF Spec
<1>3. SharedInv => StartsShareOneServer
  <2> SUFFICES ASSUME SharedInv, Calm, NEW s \in Published, NEW t \in Published
               PROVE  s = t
    BY DEF StartsShareOneServer, Published, Calm
  <2>1. CASE \E p \in Procs : pc[p] = "save"
    BY <2>1 DEF SharedInv, StartInv, SaverHasTheOnly
  <2>2. CASE ~ \E p \in Procs : pc[p] = "save"
    BY <2>2 DEF SharedInv, StartInv, PublishedIsRecorded
  <2>3. QED
    BY <2>1, <2>2
<1>4. QED
  BY <1>2, <1>3, PTL

-----------------------------------------------------------------------------
(* The lock file implements the lock *)

LEMMA LockNext ==
  ASSUME ExclusionInv, LockEvent
  PROVE  [Lock!Next]_<<LockHolder, Inside, overtaken>>
<1> USE DEF Lock!Next
<1>0. overtaken \in Nat
  BY DEF ExclusionInv, TypeInv, TypeOK
<1>1. CASE Keeps
  BY <1>1 DEF Keeps
<1>2. CASE Steals
  BY <1>2 DEF Steals, Lock!Steal
<1>3. CASE Frees
  BY <1>3 DEF Frees, Lock!Recover
<1>4. ASSUME NEW p \in Procs, Enters(p)
      PROVE  Lock!Acquire(p)
  <2>1. Inside = {} \/ overtaken > 0
    BY <1>0, <1>4, OnlyTheHolder, LifecycleAssumption DEF Enters, Inside
  <2>2. QED
    BY <1>4, <2>1 DEF Enters, Lock!Acquire
<1>5. ASSUME NEW p \in Procs, NEW left, Quits(p, left)
      PROVE  /\ Lock!Leaves(p)
             /\ LockHolder' = left
  <2>1. LockHolder = p \/ overtaken > 0
    BY <1>0, <1>5, OnlyTheHolder DEF Quits
  <2>2. QED
    BY <1>5, <2>1 DEF Quits, Lock!Leaves
<1>6. ASSUME NEW p \in Procs, Quits(p, NoLock)
      PROVE  Lock!Release(p)
  BY <1>5, <1>6 DEF Lock!Release
<1>7. ASSUME NEW p \in Procs, Quits(p, IF LockHolder = p THEN Gone ELSE LockHolder)
      PROVE  Lock!Die(p)
  BY <1>5, <1>7 DEF Lock!Die
<1>8. QED
  BY <1>1, <1>2, <1>3, <1>4, <1>6, <1>7 DEF LockEvent

\* The spawn lock with its stale-lock recovery is what SpawnLock specifies: thefts
\* are overtaken recoveries and nothing else, each lets one process in, and until
\* the first one the holder alone ends its stay.
THEOREM LockRefines == Spec => ImplementsSpawnLock
<1>1. Init => Lock!Init
  BY DEF Init, Lock!Init, LockHolder, Inside, Holding
<1>2. ExclusionInv /\ [Next]_vars => [Lock!Next]_<<LockHolder, Inside, overtaken>>
  BY EveryEvent, LockNext
<1>3. QED
  BY <1>1, <1>2, ExclusionInit, ExclusionNext, PTL DEF Spec, ImplementsSpawnLock, Lock!Spec

=============================================================================
