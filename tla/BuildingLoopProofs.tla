------------------------- MODULE BuildingLoopProofs -------------------------
(***************************************************************************)
(* Proofs about BuildingLoop for any limits and bounds: the types, that the  *)
(* driver reports completion only of a complete target, that no other exit   *)
(* code hides a completion it could see, and that a tripped breaker is on    *)
(* record.                                                                 *)
(***************************************************************************)
EXTENDS BuildingLoop, EventLogProofs

USE LoopAssumption, TornAssumption, EventLogAssumption

Lines == SessionRecords \cup {Torn}

Completion == Event("sprint_complete", Target)

Active == pc \in {"top", "session", "wait", "judge"}

(* The counters stay below the limits while the run goes on.                *)
Counted ==
  /\ stagnation <= iterations
  /\ pc \in {"session", "wait", "judge"} => iterations < MaxIterations
  /\ Active => waits < MaxIterations
  /\ exit # "none" => pc = "done"

(* Since the run began only an approved target was called complete.         *)
SignalsTrue ==
  Active => \A i \in base + 1..Len(log) : log[i] = Completion => approved

(* What was judged held no completion.                                      *)
NoneMissed ==
  Active \/ (pc = "done" /\ exit \in {"circuit", "max_iterations"}) =>
    \A i \in base + 1..judged : log[i] # Completion

(* As long as nothing failed every line is whole, and the breaker's is there. *)
OnRecord ==
  /\ faults = 0 => ended = TRUE
  /\ exit = "circuit" /\ faults = 0 => Since(base, "circuit_open", Target)

Inv ==
  /\ TypeOK /\ Counted
  /\ CompleteMeansApproved /\ SignalsTrue /\ NoneMissed /\ OnRecord

LEMMA InitInv == Init => Inv
<1> SUFFICES ASSUME Init PROVE Inv
  OBVIOUS
<1>1. log \in Seq(Lines)
  <2>1. Completion \in Lines /\ Event("circuit_open", Target) \in Lines
    BY DEF Lines, SessionRecords, Completion
  <2>2. log = <<>> \/ log = <<Completion>> \/ log = <<Event("circuit_open", Target)>>
    BY DEF Init, Completion
  <2>3. CASE log = <<>>
    BY <2>3
  <2>4. CASE log # <<>>
    <3>1. PICK r \in Lines : log = <<r>>
      BY <2>1, <2>2, <2>4
    <3> QED
      BY <3>1
  <2> QED
    BY <2>3, <2>4
<1>2. Len(log) \in Nat /\ 0 \in 0..Len(log)
  BY <1>1
<1>3. TypeOK
  <2>1. base = 0 /\ before = 0 /\ judged = 0 /\ ended = TRUE /\ 0 \in 0..MaxIterations
        /\ 0 \in 0..MaxRecords /\ 0 \in 0..MaxFaults
    BY DEF Init
  <2> QED
    BY <1>1, <1>2, <2>1 DEF Init, TypeOK, Lines, Exits
<1>4. CompleteMeansApproved /\ Counted /\ OnRecord
  BY DEF Init, CompleteMeansApproved, Counted, Active, OnRecord
<1>5. SignalsTrue /\ NoneMissed
  BY DEF Init, Active, SignalsTrue, NoneMissed
<1> QED
  BY <1>3, <1>4, <1>5 DEF Inv

(***************************************************************************)
(* The log.                                                                *)
(***************************************************************************)

\* What may be said before and after the last approval
Sayable ==
  IF approved THEN SessionRecords ELSE SessionRecords \ {Completion}

(* Whatever happens, the log stays and grows by what may be said.            *)
LEMMA LogStep ==
  ASSUME Inv, [Next]_vars
  PROVE  /\ log' \in Seq(Lines) /\ ended' \in BOOLEAN
         /\ ~ended' => log' # <<>>
         /\ Grows(log', log, ended, Sayable)
         /\ faults' = 0 => faults = 0 /\ ended' = TRUE
         /\ faults' \in 0..MaxFaults
         /\ approved => approved'
<1>0. /\ log \in Seq(Lines) /\ ended \in BOOLEAN /\ (~ended => log # <<>>)
      /\ Torn \in Lines /\ SessionRecords \subseteq Lines
      /\ faults \in 0..MaxFaults /\ approved \in BOOLEAN
  BY DEF Inv, TypeOK, Lines
<1>u. ASSUME log' = log, ended' = ended
      PROVE  /\ log' \in Seq(Lines) /\ ended' \in BOOLEAN
             /\ ~ended' => log' # <<>>
             /\ Grows(log', log, ended, Sayable)
             /\ faults = 0 => ended' = TRUE
  BY <1>0, <1>u DEF Grows, Extends, Inv, OnRecord
<1>m. ASSUME NEW r \in Sayable, Grows(log', log, ended, {r})
      PROVE  Grows(log', log, ended, Sayable)
  BY <1>m DEF Grows
<1>a. ASSUME NEW r \in Sayable, AppendEvent(r)
      PROVE  /\ log' \in Seq(Lines) /\ ended' = TRUE
             /\ Grows(log', log, ended, Sayable)
  <2>1. r \in Lines
    BY <1>0 DEF Sayable
  <2>2. log' \in Seq(Lines) /\ ended' = TRUE /\ Grows(log', log, ended, {r})
    BY <1>0, <1>a, <2>1, AppendEventGrows
  <2> QED
    BY <2>2, <1>m
<1>c. ASSUME NEW r \in Sayable, CutAppend(r)
      PROVE  /\ log' \in Seq(Lines) /\ log' # <<>> /\ ended' = FALSE
             /\ Grows(log', log, ended, Sayable)
  <2>1. r \in Lines
    BY <1>0 DEF Sayable
  <2>2. /\ log' \in Seq(Lines) /\ log' # <<>> /\ ended' = FALSE
        /\ Grows(log', log, ended, {r})
    BY <1>0, <1>c, <2>1, CutAppendGrows
  <2> QED
    BY <2>2, <1>m
<1>f. ASSUME Fault PROVE faults' \in 0..MaxFaults /\ faults' # 0
  BY <1>0, <1>f DEF Fault
<1>s. ASSUME NEW r \in SessionRecords, Utterable(r) PROVE r \in Sayable
  BY <1>s DEF Utterable, Sayable, Completion, Event, Rec
<1>t. Event("circuit_open", Target) \in Sayable
  BY DEF Sayable, SessionRecords, Completion, Event, Rec
<1>1. ASSUME NEW r \in SessionRecords, Say(r)
      PROVE  /\ log' \in Seq(Lines) /\ ended' = TRUE
             /\ Grows(log', log, ended, Sayable)
             /\ faults' = faults /\ approved' = approved
  BY <1>1, <1>s, <1>a DEF Say
<1>2. ASSUME NEW r \in SessionRecords, SessionKilled(r)
      PROVE  /\ log' \in Seq(Lines) /\ log' # <<>> /\ ended' = FALSE
             /\ Grows(log', log, ended, Sayable)
             /\ Fault /\ approved' = approved
  BY <1>2, <1>s, <1>c DEF SessionKilled
<1>3. CASE Judge
  <2>1. CASE Trip
    <3>1. CASE AppendEvent(Event("circuit_open", Target)) /\ UNCHANGED faults
      BY <1>3, <3>1, <1>a, <1>t, <1>0 DEF Judge
    <3>2. CASE Fault /\ UNCHANGED logVars
      BY <1>3, <3>2, <1>u, <1>f, <1>0 DEF Judge, logVars
    <3>3. CASE Fault /\ CutAppend(Event("circuit_open", Target))
      BY <1>3, <3>3, <1>c, <1>t, <1>f, <1>0 DEF Judge
    <3> QED
      BY <2>1, <3>1, <3>2, <3>3 DEF Trip
  <2>2. CASE log' = log /\ ended' = ended /\ faults' = faults
    BY <1>3, <2>2, <1>u, <1>0 DEF Judge
  <2> QED
    BY <1>3, <2>1, <2>2 DEF Judge
<1>4. CASE DriverDies
  BY <1>4, <1>u, <1>f DEF DriverDies
<1>5. CASE ApproveLast
  BY <1>5, <1>u, <1>0 DEF ApproveLast
<1>6. CASE \/ Start \/ Launch \/ Raise \/ RunOut \/ Wait \/ Refuse \/ Commit
           \/ SessionEnds \/ SessionWaits \/ StrayEnds \/ UNCHANGED vars
  <2>1. log' = log /\ ended' = ended /\ faults' = faults /\ approved' = approved
    BY <1>6
    DEF Start, Launch, Raise, RunOut, Wait, Refuse, Commit, SessionEnds,
        SessionWaits, StrayEnds, vars
  <2> QED
    BY <2>1, <1>u, <1>0
<1>7. CASE \E r \in SessionRecords : Say(r)
  BY <1>7, <1>1, <1>0
<1>8. CASE \E r \in SessionRecords : SessionKilled(r)
  BY <1>8, <1>2, <1>f, <1>0
<1> QED
  BY <1>3, <1>4, <1>5, <1>6, <1>7, <1>8 DEF Next, Driver

(* What the log growing means for the lines that are looked at.             *)
LEMMA LineOfStep ==
  ASSUME Inv, [Next]_vars
  PROVE  /\ Len(log) \in Nat /\ Len(log') \in Nat /\ Len(log) <= Len(log')
         /\ \A i \in 1..Len(log') :
              \/ i <= Len(log) /\ log'[i] = log[i]
              \/ log'[i] # Completion
              \/ i > Len(log) /\ approved
         /\ faults' = 0 => \A i \in 1..Len(log) : log'[i] = log[i]
<1>1. /\ log \in Seq(Lines) /\ log' \in Seq(Lines)
      /\ Grows(log', log, ended, Sayable)
      /\ faults' = 0 => faults = 0
  BY LogStep DEF Inv, TypeOK, Lines
<1>2. Len(log) \in Nat /\ Len(log') \in Nat /\ Len(log) <= Len(log')
      /\ DOMAIN log = 1..Len(log) /\ DOMAIN log' = 1..Len(log')
  BY <1>1 DEF Grows, Extends
<1>3. Torn # Completion
  BY DEF SessionRecords, Completion
<1>4. ~approved => Completion \notin Sayable
  BY DEF Sayable
<1>5. ASSUME NEW i \in 1..Len(log')
      PROVE  \/ i <= Len(log) /\ log'[i] = log[i]
             \/ log'[i] # Completion
             \/ i > Len(log) /\ approved
  BY <1>1, <1>2, <1>3, <1>4 DEF Grows
<1>6. ASSUME faults' = 0 PROVE \A i \in 1..Len(log) : log'[i] = log[i]
  <2>1. ended = TRUE
    BY <1>1, <1>6 DEF Inv, OnRecord
  <2> QED
    BY <1>1, <1>2, <2>1 DEF Grows, Extends
<1> QED
  BY <1>2, <1>5, <1>6

(***************************************************************************)
(* The steps.                                                              *)
(***************************************************************************)

LEMMA StepType ==
  ASSUME Inv, [Next]_vars
  PROVE  TypeOK' /\ Counted'
<1> USE DEF Inv
<1>1. /\ log' \in Seq(Lines) /\ ended' \in BOOLEAN /\ (~ended' => log' # <<>>)
      /\ faults' \in 0..MaxFaults
  BY LogStep
<1>2. /\ Len(log) \in Nat /\ Len(log') \in Nat /\ Len(log) <= Len(log')
  BY LineOfStep
<1>3. /\ base \in 0..Len(log') /\ before \in 0..Len(log') /\ judged \in 0..Len(log')
      /\ Len(log) \in 0..Len(log')
  BY <1>2 DEF TypeOK
<1> DEFINE Rest ==
      /\ pc \in {"off", "top", "session", "wait", "judge", "done"}
      /\ exit \in Exits
      /\ moved \in BOOLEAN /\ strays \in BOOLEAN /\ approved \in BOOLEAN
      /\ decodable \in BOOLEAN
      /\ iterations \in 0..MaxIterations /\ stagnation \in 0..MaxIterations
      /\ waits \in 0..MaxIterations
      /\ records \in 0..MaxRecords
<1>4. Rest
  BY DEF TypeOK
<1>5. Rest' /\ base' \in 0..Len(log') /\ before' \in 0..Len(log')
        /\ judged' \in 0..Len(log') => TypeOK'
  BY <1>1 DEF TypeOK, Lines
<1>6. CASE Start
  BY <1>3, <1>4, <1>5, <1>6 DEF Start, Exits, Counted, Active
<1>7. CASE Launch
  BY <1>3, <1>4, <1>5, <1>7 DEF Launch, Counted, Active
<1>8. CASE Raise \/ RunOut \/ Refuse
  BY <1>3, <1>4, <1>5, <1>8 DEF Raise, RunOut, Refuse, Exit, Exits, Counted, Active
<1>9. CASE Wait
  <2>1. pc = "wait" /\ waits < MaxIterations /\ exit = "none"
    BY <1>9 DEF Wait, Counted, Active
  <2>2. waits' \in 0..MaxIterations
    BY <1>4, <1>9, <2>1 DEF Wait
  <2>3. \/ waits' >= MaxIterations /\ pc' = "done" /\ exit' = "max_iterations"
        \/ waits' < MaxIterations /\ pc' = "top" /\ exit' = "none"
    BY <1>9, <2>1, <2>2 DEF Wait, Exit
  <2>4. UNCHANGED <<base, before, judged, moved, strays, approved, decodable,
                    iterations, stagnation, records>>
    BY <1>9 DEF Wait
  <2>5. TypeOK'
    BY <1>3, <1>4, <1>5, <2>2, <2>3, <2>4 DEF Exits
  <2>6. Counted'
    BY <2>3, <2>4 DEF Counted, Active
  <2> QED
    BY <2>5, <2>6
<1>10. CASE Judge
  <2>1. /\ pc = "judge" /\ exit = "none" /\ iterations < MaxIterations
        /\ stagnation <= iterations
    BY <1>10 DEF Judge, Counted, Active
  <2>2. /\ iterations' = iterations + 1 /\ waits' = 0 /\ judged' = Len(log)
        /\ stagnation' = 0 \/ stagnation' = stagnation + 1
        /\ UNCHANGED <<base, before, moved, strays, approved, decodable, records>>
    BY <1>10 DEF Judge
  <2>3. \/ pc' = "done" /\ exit' \in {"complete", "circuit"}
        \/ pc' = "top" /\ exit' = "none"
    BY <1>10, <2>1 DEF Judge, Exit, Trip
  <2>4. TypeOK'
    BY <1>3, <1>4, <1>5, <2>1, <2>2, <2>3 DEF Exits
  <2>5. Counted'
    BY <1>4, <2>1, <2>2, <2>3 DEF Counted, Active
  <2> QED
    BY <2>4, <2>5
<1>11. CASE ApproveLast \/ Commit \/ StrayEnds
  BY <1>3, <1>4, <1>5, <1>11 DEF ApproveLast, Commit, StrayEnds, Counted, Active
<1>12. ASSUME NEW r \in SessionRecords, Say(r) \/ SessionKilled(r)
       PROVE  TypeOK' /\ Counted'
  <2>1. /\ pc' = pc \/ (pc = "session" /\ pc' = "wait")
        /\ UNCHANGED <<exit, base, before, moved, iterations, stagnation, waits,
                       strays, approved, judged>>
        /\ records < MaxRecords /\ records' = records + 1
    <3>1. CASE Say(r)
      BY <3>1 DEF Say, Utterable
    <3>2. CASE SessionKilled(r)
      BY <3>2 DEF SessionKilled, Utterable
    <3> QED
      BY <1>12, <3>1, <3>2
  <2>2. decodable' \in BOOLEAN
    BY <1>4, <1>12 DEF Say, SessionKilled
  <2>3. Rest'
    BY <1>4, <2>1, <2>2
  <2>4. TypeOK'
    BY <1>3, <1>5, <2>1, <2>3
  <2> QED
    BY <2>1, <2>4 DEF Counted, Active
<1>13. CASE SessionEnds \/ SessionWaits
  BY <1>3, <1>4, <1>5, <1>13 DEF SessionEnds, SessionWaits, Counted, Active
<1>14. CASE DriverDies
  BY <1>3, <1>4, <1>5, <1>14 DEF DriverDies, Counted, Active
<1>15. CASE UNCHANGED vars
  BY <1>3, <1>4, <1>5, <1>15 DEF vars, Counted, Active
<1> QED
  BY <1>6, <1>7, <1>8, <1>9, <1>10, <1>11, <1>12, <1>13, <1>14, <1>15
  DEF Next, Driver

(* The completion signal is one record.                                    *)
LEMMA SignalIs ==
  ASSUME TypeOK, NEW n \in Nat
  PROVE  Since(n, "sprint_complete", Target) <=>
           \E i \in n + 1..Len(log) : log[i] = Completion
<1>1. ASSUME NEW r \in SessionRecords, r.event = "sprint_complete", r.detail = Target
      PROVE  r = Completion
  BY <1>1 DEF SessionRecords, Completion, Event, Rec, Target, Card
<1>2. ASSUME NEW i \in n + 1..Len(log), log[i] # Torn
      PROVE  log[i] \in SessionRecords
  BY <1>2 DEF TypeOK
<1>3. /\ Completion.event = "sprint_complete" /\ Completion.detail = Target
      /\ Completion # Torn
  BY DEF Completion, Event, Rec, SessionRecords
<1> HIDE DEF Completion
<1> QED
  BY <1>1, <1>2, <1>3 DEF Since

(* A run begins with its own baseline, and nothing else touches it.         *)
LEMMA RunStep ==
  ASSUME Inv, [Next]_vars
  PROVE  \/ Start \/ Judge
         \/ /\ base' = base /\ judged' = judged
            /\ Active' => Active
            /\ exit' \in {"complete", "circuit"} => exit' = exit
            /\ exit' = "max_iterations" => Active \/ exit' = exit
            /\ pc = "done" => pc' = "done"
<1>1. CASE Launch \/ Raise \/ RunOut \/ Refuse
  BY <1>1 DEF Launch, Raise, RunOut, Refuse, Exit, Active
<1>2. CASE Wait
  BY <1>2 DEF Wait, Exit, Active
<1>3. CASE ApproveLast \/ Commit \/ StrayEnds
  BY <1>3 DEF ApproveLast, Commit, StrayEnds, Active
<1>4. ASSUME NEW r \in SessionRecords, Say(r) \/ SessionKilled(r)
      PROVE  /\ base' = base /\ judged' = judged /\ exit' = exit
             /\ Active' => Active
             /\ pc = "done" => pc' = "done"
  <2>1. CASE Say(r)
    BY <2>1 DEF Say, Active
  <2>2. CASE SessionKilled(r)
    BY <2>2 DEF SessionKilled, Active
  <2> QED
    BY <1>4, <2>1, <2>2
<1>5. CASE SessionEnds \/ SessionWaits \/ DriverDies
  BY <1>5 DEF SessionEnds, SessionWaits, DriverDies, Active
<1>6. CASE UNCHANGED vars
  BY <1>6 DEF vars, Active
<1> QED
  BY <1>1, <1>2, <1>3, <1>4, <1>5, <1>6 DEF Next, Driver

LEMMA StepSignals ==
  ASSUME Inv, [Next]_vars
  PROVE  SignalsTrue' /\ CompleteMeansApproved'
<1> USE DEF Inv
<1>0. base \in Nat /\ Len(log) \in Nat
  BY LineOfStep DEF TypeOK
<1>1. approved => approved'
  BY LogStep
<1>2. CASE Start
  <2>1. base' = Len(log') /\ exit' = "none"
    BY <1>2 DEF Start
  <2> QED
    BY <2>1, LineOfStep DEF SignalsTrue, CompleteMeansApproved
<1>3. ASSUME base' = base, Active' => Active
      PROVE  SignalsTrue'
  BY <1>0, <1>1, <1>3, LineOfStep DEF SignalsTrue
<1>4. CASE Judge
  <2>1. base' = base /\ Active
    BY <1>4 DEF Judge, Active
  <2>2. ASSUME exit' = "complete" PROVE approved
    <3>1. Verdict = "complete"
      BY <1>4, <2>1, <2>2 DEF Judge, Exit, Trip, Counted
    <3>2. \E i \in base + 1..Len(log) : log[i] = Completion
      BY <1>0, <3>1, SignalIs DEF Verdict
    <3> QED
      BY <2>1, <3>2 DEF SignalsTrue
  <2> QED
    BY <1>1, <1>3, <2>1, <2>2 DEF CompleteMeansApproved
<1>5. CASE ~(Start \/ Judge)
  BY <1>1, <1>3, <1>5, RunStep DEF CompleteMeansApproved
<1> QED
  BY <1>2, <1>4, <1>5

LEMMA StepMissed ==
  ASSUME Inv, [Next]_vars
  PROVE  NoneMissed'
<1> USE DEF Inv
<1>0. base \in Nat /\ judged \in 0..Len(log) /\ Len(log) \in Nat
  BY LineOfStep DEF TypeOK
<1>1. CASE Start
  BY <1>0, <1>1 DEF Start, NoneMissed
<1>2. CASE Judge
  <2>1. base' = base /\ judged' = Len(log)
    BY <1>2 DEF Judge
  <2>2. SUFFICES ASSUME exit' # "complete"
                 PROVE  \A i \in base + 1..Len(log) : log'[i] # Completion
    <3>1. ASSUME exit' = "complete" PROVE ~Active' /\ exit' \notin {"circuit", "max_iterations"}
      BY <1>2, <3>1 DEF Judge, Exit, Trip, Active, Counted
    <3> QED
      BY <2>1, <2>2, <3>1 DEF NoneMissed
  <2>3. ~Since(base, "sprint_complete", Target)
    BY <1>2, <2>2 DEF Judge, Exit, Verdict
  <2>4. \A i \in base + 1..Len(log) : log[i] # Completion
    BY <1>0, <2>3, SignalIs
  <2> QED
    BY <1>0, <2>4, LineOfStep
<1>3. CASE ~(Start \/ Judge)
  <2>1. /\ base' = base /\ judged' = judged /\ (Active' => Active)
        /\ exit' = "circuit" => exit' = exit
        /\ exit' = "max_iterations" => Active \/ exit' = exit
    BY <1>3, RunStep
  <2>2. exit \in {"circuit", "max_iterations"} => pc = "done"
    BY DEF Counted
  <2> QED
    BY <1>0, <2>1, <2>2, LineOfStep DEF NoneMissed
<1> QED
  BY <1>1, <1>2, <1>3

LEMMA StepRecord ==
  ASSUME Inv, [Next]_vars
  PROVE  OnRecord'
<1> USE DEF Inv
<1>0. /\ base \in 0..Len(log) /\ Len(log) \in Nat
      /\ log \in Seq(Lines) /\ ended \in BOOLEAN /\ (~ended => log # <<>>)
  BY LineOfStep DEF TypeOK, Lines
<1>1. faults' = 0 => faults = 0 /\ ended' = TRUE
  BY LogStep
<1>2. CASE Start
  BY <1>1, <1>2 DEF Start, OnRecord
<1>3. CASE Judge
  <2>1. base' = base
    BY <1>3 DEF Judge
  <2>2. ASSUME exit' = "circuit", faults' = 0
        PROVE  Since(base, "circuit_open", Target)'
    <3>1. CASE Trip
      <4>1. AppendEvent(Event("circuit_open", Target))
        BY <1>0, <2>2, <3>1 DEF Trip, Fault, TypeOK
      <4>2. ended /\ Event("circuit_open", Target) \in SessionRecords
        BY <1>1, <2>2 DEF OnRecord, SessionRecords
      <4>3. /\ Len(log') = Len(log) + 1
            /\ log'[Len(log) + 1] = Event("circuit_open", Target)
        BY <1>0, <4>1, <4>2, AppendEventGrows DEF Lines
      <4>4. /\ Event("circuit_open", Target) # Torn
            /\ Event("circuit_open", Target).event = "circuit_open"
            /\ Event("circuit_open", Target).detail = Target
        BY <4>2 DEF Event, Rec
      <4>5. Len(log) + 1 \in base' + 1..Len(log')
        BY <1>0, <2>1, <4>3
      <4> QED
        BY <4>3, <4>4, <4>5 DEF Since
    <3>2. CASE ~Trip
      <4>1. Verdict = "circuit" /\ log' = log
        BY <1>3, <2>2, <3>2 DEF Judge, Exit, Counted, Active
      <4>2. Since(base, "circuit_open", Target)
        BY <4>1 DEF Verdict
      <4> QED
        BY <2>1, <4>1, <4>2 DEF Since
    <3> QED
      BY <3>1, <3>2
  <2> QED
    BY <1>1, <2>1, <2>2 DEF OnRecord
<1>4. CASE ~(Start \/ Judge)
  <2>1. /\ base' = base
        /\ exit' = "circuit" => exit = "circuit"
    BY <1>4, RunStep
  <2>2. ASSUME exit' = "circuit", faults' = 0
        PROVE  Since(base, "circuit_open", Target)'
    BY <1>0, <1>1, <2>1, <2>2, LineOfStep DEF OnRecord, Since
  <2> QED
    BY <1>1, <2>1, <2>2 DEF OnRecord
<1> QED
  BY <1>2, <1>3, <1>4

(***************************************************************************)
(* The theorems.                                                           *)
(***************************************************************************)

(* The invariant the theorems below rest on.                                *)
THEOREM Invariance == Spec => []Inv
<1>1. Inv /\ [Next]_vars => Inv'
  BY StepType, StepSignals, StepMissed, StepRecord DEF Inv
<1> QED
  BY <1>1, InitInv, PTL DEF Spec

(* Every variable has its type, and no counter passes its limit.            *)
THEOREM TypesHold == Spec => []TypeOK
<1>1. Inv => TypeOK
  BY DEF Inv
<1> QED
  BY <1>1, Invariance, PTL

(* Completion is reported only of a target all of whose cards are approved:  *)
(* records of earlier runs, or of cards, never pass for the signal.          *)
THEOREM CompletionIsTrue == Spec => []CompleteMeansApproved
<1>1. Inv => CompleteMeansApproved
  BY DEF Inv
<1> QED
  BY <1>1, Invariance, PTL

(* A run that could see the completion signal does not end with the code of  *)
(* a tripped breaker or of exhausted rounds.                                *)
THEOREM CompletionIsHonoured == Spec => []CompletionHonoured
<1>1. Inv => CompletionHonoured
  BY DEF Inv, NoneMissed, CompletionHonoured, Completion
<1> QED
  BY <1>1, Invariance, PTL

(* Unless a write failed, a tripped breaker is in the log.                  *)
THEOREM CircuitIsOnRecord == Spec => []CircuitOnRecord
<1>1. Inv => CircuitOnRecord
  BY DEF Inv, OnRecord, CircuitOnRecord
<1> QED
  BY <1>1, Invariance, PTL

=============================================================================
