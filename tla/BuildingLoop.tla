---------------------------- MODULE BuildingLoop ----------------------------
(***************************************************************************)
(* `cataforge unattended`: a driver that launches one agent session after  *)
(* another until the event log says that the target is complete, or given  *)
(* up, or until it runs out of rounds or of patience.                      *)
(*                                                                         *)
(* A session commits, and appends to the log like everybody else; it ends, *)
(* runs into a rate limit, or is killed by its supervision, perhaps in the *)
(* middle of an append.  Of HEAD the driver only asks whether it moved     *)
(* during the session.  The driver may die at any step; a session that it  *)
(* leaves behind has a process group of its own and goes on.               *)
(***************************************************************************)
EXTENDS EventLog

CONSTANTS
  MaxIterations,        \* max_iterations
  StagnationThreshold,  \* stagnation_threshold
  MaxRecords,           \* bound: records sessions append
  MaxFaults             \* bound: deaths of the driver and cut or failing writes

ASSUME LoopAssumption ==
  /\ MaxIterations \in Nat \ {0} /\ StagnationThreshold \in Nat \ {0}
  /\ MaxRecords \in Nat /\ MaxFaults \in Nat

VARIABLES
  pc,          \* the step of the driver
  exit,        \* its exit code
  base,        \* the lines of the log when it started
  before,      \* the lines of the log when the session was launched
  moved,       \* HEAD moved since the session was launched
  iterations, stagnation, waits,
  strays,      \* a session is left of a driver that died
  approved,    \* every card of the target is approved
  judged,      \* the lines of the log when a session was last judged
  decodable,   \* the log is UTF-8 throughout: no line was cut within a character
  records, faults

vars == <<log, ended, pc, exit, base, before, moved, iterations, stagnation, waits,
          strays, approved, judged, decodable, records, faults>>

\* In the records of the development phase the detail stands for the ref.
Target == "target"
Card == "card"

Event(event, ref) == Rec(event, "development", ref)

SessionRecords ==
  { Event("sprint_complete", Target), Event("sprint_complete", Card),
    Event("circuit_open", Target), Event("circuit_open", Card),
    Event("agent_return", Card) }

ASSUME TornAssumption == Torn \notin SessionRecords

ProgressEvents ==
  {"state_change", "circuit_open", "sprint_complete", "doc_finalize",
   "phase_start", "phase_end"}

Exits == {"none", "complete", "circuit", "max_iterations", "preflight", "raised"}

\* Earlier runs may have left records of the target.
Init ==
  /\ log \in {<<>>, <<Event("sprint_complete", Target)>>, <<Event("circuit_open", Target)>>}
  /\ ended = TRUE
  /\ pc = "off" /\ exit = "none"
  /\ base = 0 /\ before = 0 /\ judged = 0
  /\ moved = FALSE
  /\ iterations = 0 /\ stagnation = 0 /\ waits = 0
  /\ strays = FALSE /\ approved = FALSE /\ decodable = TRUE
  /\ records = 0 /\ faults = 0

Fault == faults < MaxFaults /\ faults' = faults + 1

Exit(code) == pc' = "done" /\ exit' = code

-----------------------------------------------------------------------------
(* The driver *)

\* Mutant: the log is looked at from its beginning.
StartWithoutBaseline ==
  /\ pc = "off"
  /\ pc' = "top" /\ exit' = "none"
  /\ base' = 0 /\ judged' = 0
  /\ iterations' = 0 /\ stagnation' = 0 /\ waits' = 0
  /\ UNCHANGED <<log, ended, before, moved, strays, approved,
                 decodable, records, faults>>

\* On a feature branch the run begins, with what is in the log as its baseline.
Start ==
  /\ pc = "off" /\ decodable
  /\ pc' = "top" /\ exit' = "none"
  /\ base' = Len(log) /\ judged' = Len(log)
  /\ iterations' = 0 /\ stagnation' = 0 /\ waits' = 0
  /\ UNCHANGED <<log, ended, before, moved, strays, approved,
                 decodable, records, faults>>

Refuse ==
  /\ pc = "off"
  /\ Exit("preflight")
  /\ UNCHANGED <<log, ended, base, before, moved, iterations, stagnation, waits, strays,
                 approved, judged, decodable, records, faults>>

Launch ==
  /\ pc = "top" /\ iterations < MaxIterations /\ decodable
  /\ pc' = "session"
  /\ before' = Len(log)
  /\ moved' = FALSE
  /\ UNCHANGED <<log, ended, exit, base, iterations, stagnation, waits, strays, approved,
                 judged, decodable, records, faults>>

\* _event_lines decodes strictly: a cut character ends the run with a traceback.
Raise ==
  /\ ~decodable
  /\ \/ pc \in {"off", "judge"}
     \/ pc = "top" /\ iterations < MaxIterations
  /\ Exit("raised")
  /\ UNCHANGED <<log, ended, base, before, moved, iterations, stagnation, waits, strays,
                 approved, judged, decodable, records, faults>>

RunOut ==
  /\ pc = "top" /\ iterations >= MaxIterations
  /\ Exit("max_iterations")
  /\ UNCHANGED <<log, ended, base, before, moved, iterations, stagnation, waits, strays,
                 approved, judged, decodable, records, faults>>

\* Mutant: every timeout starts the count of waits again.
WaitResetting ==
  /\ pc = "wait"
  /\ \/ waits' = 0
     \/ waits' = IF moved THEN 0 ELSE waits + 1
  /\ IF waits' >= MaxIterations THEN Exit("max_iterations") ELSE pc' = "top" /\ UNCHANGED exit
  /\ UNCHANGED <<log, ended, base, before, moved, iterations, stagnation, strays, approved,
                 judged, decodable, records, faults>>

\* Mutant: no backstop for waits.
WaitForEver ==
  /\ pc = "wait"
  /\ waits' = IF moved THEN 0 ELSE waits + 1
  /\ pc' = "top" /\ UNCHANGED exit
  /\ UNCHANGED <<log, ended, base, before, moved, iterations, stagnation, strays, approved,
                 judged, decodable, records, faults>>

\* After a rate limit or a kill only HEAD is asked for.
Wait ==
  /\ pc = "wait"
  /\ waits' = IF moved THEN 0 ELSE waits + 1
  /\ IF waits' >= MaxIterations THEN Exit("max_iterations") ELSE pc' = "top" /\ UNCHANGED exit
  /\ UNCHANGED <<log, ended, base, before, moved, iterations, stagnation, strays, approved,
                 judged, decodable, records, faults>>

Since(n, event, ref) ==
  \E i \in (n + 1)..Len(log) : log[i] # Torn /\ log[i].event = event /\ log[i].detail = ref

Progressed ==
  \/ moved
  \/ \E i \in (before + 1)..Len(log) : log[i] # Torn /\ log[i].event \in ProgressEvents

\* Mutant: the events of the last session decide.
VerdictOfRound ==
  IF Since(before, "sprint_complete", Target) THEN "complete"
  ELSE IF Since(before, "circuit_open", Target) THEN "circuit"
  ELSE IF stagnation' >= StagnationThreshold THEN "stagnant"
  ELSE "continue"

Verdict ==
  IF Since(base, "sprint_complete", Target) THEN "complete"
  ELSE IF Since(base, "circuit_open", Target) THEN "circuit"
  ELSE IF stagnation' >= StagnationThreshold THEN "stagnant"
  ELSE "continue"

\* Mutant: the breaker trips without a record.
TripSilently ==
  /\ Exit("circuit")
  /\ UNCHANGED <<log, ended, faults>>

\* The breaker's own record is written at best effort.
Trip ==
  /\ Exit("circuit")
  /\ \/ AppendEvent(Event("circuit_open", Target)) /\ UNCHANGED faults
     \/ Fault /\ (UNCHANGED logVars \/ CutAppend(Event("circuit_open", Target)))

\* A session that ended counts: the round, its progress, and every event since
\* the run began.
Judge ==
  /\ pc = "judge" /\ decodable
  /\ iterations' = iterations + 1
  /\ waits' = 0
  /\ stagnation' = IF Progressed THEN 0 ELSE stagnation + 1
  /\ judged' = Len(log)
  /\ \/ Verdict = "complete" /\ Exit("complete") /\ UNCHANGED <<log, ended, faults>>
     \/ Verdict = "circuit" /\ Exit("circuit") /\ UNCHANGED <<log, ended, faults>>
     \/ Verdict = "stagnant" /\ Trip
     \/ Verdict = "continue" /\ pc' = "top" /\ UNCHANGED <<log, ended, exit, faults>>
  /\ UNCHANGED <<base, before, moved, strays, approved, decodable, records>>

-----------------------------------------------------------------------------
(* Sessions: the driver's own, and one that a dead driver left behind *)

Working == pc = "session" \/ strays

\* The last card is approved, and committed.
ApproveLast ==
  /\ Working
  /\ approved' = TRUE
  /\ moved' = TRUE
  /\ UNCHANGED <<log, ended, pc, exit, base, before, iterations, stagnation, waits, strays,
                 judged, decodable, records, faults>>

Commit ==
  /\ Working
  /\ moved' = TRUE
  /\ UNCHANGED <<log, ended, pc, exit, base, before, iterations, stagnation, waits, strays,
                 approved, judged, decodable, records, faults>>

\* What a session may say: complete only after the last approval.
Utterable(r) ==
  /\ Working
  /\ records < MaxRecords /\ records' = records + 1
  /\ r = Event("sprint_complete", Target) => approved

Say(r) ==
  /\ Utterable(r)
  /\ AppendEvent(r)
  /\ UNCHANGED <<pc, exit, base, before, moved, iterations, stagnation, waits, strays,
                 approved, judged, decodable, faults>>

SessionEnds ==
  /\ pc = "session" /\ pc' = "judge"
  /\ UNCHANGED <<log, ended, exit, base, before, moved, iterations, stagnation, waits,
                 strays, approved, judged, decodable, records, faults>>

\* A rate limit, silence, or the total timeout.
SessionWaits ==
  /\ pc = "session" /\ pc' = "wait"
  /\ UNCHANGED <<log, ended, exit, base, before, moved, iterations, stagnation, waits,
                 strays, approved, judged, decodable, records, faults>>

\* The kill falls into an append.
SessionKilled(r) ==
  /\ pc = "session" /\ pc' = "wait"
  /\ Fault
  /\ Utterable(r)
  /\ CutAppend(r)
  /\ decodable' \in {decodable, FALSE}
  /\ UNCHANGED <<exit, base, before, moved, iterations, stagnation, waits, strays,
                 approved, judged>>

StrayEnds ==
  /\ strays /\ strays' = FALSE
  /\ UNCHANGED <<log, ended, pc, exit, base, before, moved, iterations, stagnation, waits,
                 approved, judged, decodable, records, faults>>

DriverDies ==
  /\ Fault
  /\ pc \notin {"off", "done"}
  /\ pc' = "off"
  /\ strays' = (strays \/ pc = "session")
  /\ UNCHANGED <<log, ended, exit, base, before, moved, iterations, stagnation, waits,
                 approved, judged, decodable, records>>

-----------------------------------------------------------------------------
Driver == Start \/ Launch \/ Raise \/ RunOut \/ Wait \/ Judge

Next ==
  \/ Driver \/ Refuse
  \/ ApproveLast \/ Commit
  \/ \E r \in SessionRecords : Say(r) \/ SessionKilled(r)
  \/ SessionEnds \/ SessionWaits
  \/ StrayEnds \/ DriverDies

Spec == Init /\ [][Next]_vars

\* The driver goes on, and is started again when it died; the supervision of a
\* session ends it at the latest after its total timeout.
Fairness == WF_vars(Driver) /\ WF_vars(SessionEnds \/ SessionWaits)

FairSpec == Spec /\ Fairness

-----------------------------------------------------------------------------
(* Properties *)

TypeOK ==
  /\ log \in Seq(SessionRecords \cup {Torn}) /\ ended \in BOOLEAN
  /\ ~ended => log # <<>>
  /\ pc \in {"off", "top", "session", "wait", "judge", "done"}
  /\ exit \in Exits
  /\ base \in 0..Len(log) /\ before \in 0..Len(log) /\ judged \in 0..Len(log)
  /\ moved \in BOOLEAN /\ strays \in BOOLEAN /\ approved \in BOOLEAN
  /\ decodable \in BOOLEAN
  /\ iterations \in 0..MaxIterations /\ stagnation \in 0..MaxIterations
  /\ waits \in 0..MaxIterations
  /\ records \in 0..MaxRecords /\ faults \in 0..MaxFaults

\* The driver reports completion only of a target that is complete: neither the
\* target's records of earlier runs nor a record of the same event for something
\* else than the target pass for the signal ("can't spuriously trip
\* completion").
CompleteMeansApproved == exit = "complete" => approved

\* No run ends with another code after a session it judged could see the signal
\* in the log, whichever session since its start wrote it, a killed one included.
CompletionHonoured ==
  pc = "done" /\ exit \in {"circuit", "max_iterations"} =>
    \A i \in (base + 1)..judged : log[i] # Event("sprint_complete", Target)

\* A tripped breaker is in the log, unless a write failed, for those who read the
\* log and not the exit code.
CircuitOnRecord ==
  exit = "circuit" /\ faults = 0 => Since(base, "circuit_open", Target)

\* The run ends, unless sessions that are killed keep committing: neither idle
\* rounds nor waits go on for ever.
Terminates == <>[](~moved) => <>(pc = "done")

=============================================================================
