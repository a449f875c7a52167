-------------------------- MODULE PhaseTransition --------------------------
(***************************************************************************)
(* `cataforge phase transition`: the chain of gates between two phases of  *)
(* the workflow, run again and again until no gate stops it.               *)
(*                                                                         *)
(* A run goes through its gates in order and ends at the first that stops  *)
(* or fails.  What it leaves behind are records in the event log, one for  *)
(* each decision it was given and four for the transition itself, and the  *)
(* shortened registry of learnings in the instruction file.  Sessions,     *)
(* hooks and other commands write to the log meanwhile, the orchestrator   *)
(* adds learnings, and a run may be killed at any step.                    *)
(*                                                                         *)
(* What a gate finds (another phase in the instruction file, documents     *)
(* that are stale, adrift or inconsistent) is chosen anew in every run.    *)
(***************************************************************************)
EXTENDS EventLog, FiniteSets

CONSTANTS
  Phases,       \* phases one can leave and enter
  NoPhase,      \* the phase of a record no gate asks for the phase of
  FlagSets,     \* the sets of flags the command is run with
  OtherEvents,  \* the events everybody else logs
  MaxRegistry,  \* learnings_registry_max_entries
  MaxRuns,      \* bound: runs of the command
  MaxOthers,    \* bound: steps of everybody else
  MaxFaults     \* bound: crashes and failing writes

Flags == {"ack_stale_deps", "ack_inconsistency", "compact"}

ASSUME TransitionAssumption ==
  /\ NoPhase \notin Phases
  /\ FlagSets \subseteq SUBSET Flags
  /\ "phase_end" \notin OtherEvents
  /\ MaxRegistry \in Nat /\ MaxRuns \in Nat /\ MaxOthers \in Nat /\ MaxFaults \in Nat

VARIABLES
  pc,        \* the gate the run is at, or the step of a gate
  run,       \* the arguments of the run
  waived,    \* what the run was let through in spite of
  held,      \* the lines append_batch read
  registry,  \* the learnings in the instruction file; a higher number is newer
  draft,     \* the learnings the compaction read
  archive,   \* the archive: for each compaction the learnings it moved there
  late,      \* history: the learnings added while a compaction was between its
             \* reading the instruction file and its replacing it
  learned,   \* the number of learnings so far
  runs, others, faults

vars == <<log, ended, pc, run, waived, held, registry, draft, archive, late,
          learned, runs, others, faults>>

Runs == {r \in [from : Phases, to : Phases, flags : FlagSets] : r.from # r.to}

NoRun == [from |-> NoPhase, to |-> NoPhase, flags |-> {}]

\* The details of the records a gate writes when it lets a run pass with a caveat.
Caveats == {"stale", "skipped", "findings", "inconsistent"}

\* What a run is let through in spite of; of a check that could not be run at all
\* the gate warns, and writes no record.
Warnings == Caveats \cup {"unavailable"}

FlowEvents == {"phase_start", "phase_end", "revision_start", "incident"}

\* What everybody else logs: events that move the workflow, and events that do not.
OtherRecords ==
  {Rec(e, p, "other") : e \in OtherEvents \cap FlowEvents, p \in Phases}
    \cup {Rec(e, NoPhase, "other") : e \in OtherEvents \ FlowEvents}

Audit(phase, caveat) == Rec("state_change", phase, caveat)

\* The four records of a transition
Batch(from, to) ==
  << Rec("phase_end", from, "approved"),
     Rec("review_verdict", from, "verdict"),
     Rec("state_change", to, "advance"),
     Rec("phase_start", to, "entered") >>

Audits ==
  [event : {"state_change"}, phase : Phases \cup {NoPhase},
   detail : Caveats \cup {"compacted", "timed out"}]

BatchRecords == {Batch(p, q)[i] : p \in Phases, q \in Phases, i \in 1..4}

Record == OtherRecords \cup Audits \cup BatchRecords

ASSUME TornAssumption == Torn \notin Record

Gates == {"field", "docs", "deps", "reconcile", "consistency", "batch", "hygiene"}

Init ==
  /\ log = <<>> /\ ended = TRUE
  /\ pc = "idle"
  /\ run = NoRun
  /\ waived = {} /\ held = <<>>
  /\ registry = {} /\ draft = {} /\ archive = <<>> /\ late = {} /\ learned = 0
  /\ runs = 0 /\ others = 0 /\ faults = 0

Fault == faults < MaxFaults /\ faults' = faults + 1

Goto(from, to) == pc = from /\ pc' = to

\* Mutant: the arguments are dropped, and the run goes on.
EndsAtGate ==
  /\ pc' = pc /\ run' = NoRun
  /\ waived' = {} /\ held' = <<>> /\ draft' = {}

\* The run ends: with a verdict, by an exception, or killed.
Ends ==
  /\ pc' = "idle" /\ run' = NoRun
  /\ waived' = {} /\ held' = <<>> /\ draft' = {}

-----------------------------------------------------------------------------
(* The gates before the batch *)

\* The phases of the arguments are known and differ.
Begin ==
  /\ pc = "idle"
  /\ runs < MaxRuns /\ runs' = runs + 1
  /\ pc' = "field"
  /\ run' \in Runs
  /\ UNCHANGED <<log, ended, waived, held, registry, draft, archive, late, learned,
                 others, faults>>

\* A gate that finds nothing to object to, or nothing to look at.
Pass ==
  /\ \/ Goto("field", "docs") \/ Goto("docs", "deps")
     \/ Goto("deps", "reconcile") \/ Goto("reconcile", "consistency")
     \/ Goto("consistency", "batch")
  /\ UNCHANGED <<log, ended, run, waived, held, registry, draft, archive, late,
                 learned, runs, others, faults>>

\* The consistency check cannot be run.
Unavailable ==
  /\ Goto("consistency", "batch")
  /\ waived' = waived \cup {"unavailable"}
  /\ UNCHANGED <<log, ended, run, held, registry, draft, archive, late, learned,
                 runs, others, faults>>

\* A gate that needs a decision, or is broken.
Stop ==
  /\ pc \in Gates \ {"batch", "hygiene"}
  /\ Ends
  /\ UNCHANGED <<log, ended, registry, archive, late, learned, runs, others, faults>>

\* Mutant: any earlier record of the same event and phase counts as this one.
LogAuditOnceByPhase(r) ==
  IF \E i \in DOMAIN log : /\ log[i] # Torn
                           /\ log[i].event = r.event
                           /\ log[i].phase = r.phase
  THEN UNCHANGED logVars
  ELSE AppendEvent(r)

\* Mutant: every run writes its audit records.
LogAuditAlways(r) == AppendEvent(r)

LogAuditOnce(r) == IF Recorded(r) THEN UNCHANGED logVars ELSE AppendEvent(r)

\* The gates that let a run pass with a record of the caveat: stale dependencies
\* and inconsistent documents if they are acknowledged, a reconcile that cannot
\* run, and findings that do not block.
Waivable(caveat) ==
  \/ pc = "deps" /\ caveat = "stale" /\ "ack_stale_deps" \in run.flags
  \/ pc = "reconcile" /\ caveat = "skipped"
  \/ pc = "consistency" /\ caveat = "findings"
  \/ pc = "consistency" /\ caveat = "inconsistent" /\ "ack_inconsistency" \in run.flags

After(gate) ==
  CASE gate = "deps" -> "reconcile"
    [] gate = "reconcile" -> "consistency"
    [] gate = "consistency" -> "batch"

Waive(caveat) ==
  /\ Waivable(caveat)
  /\ waived' = waived \cup {caveat}
  /\ LogAuditOnce(Audit(run.from, caveat))
  /\ pc' = After(pc)
  /\ UNCHANGED <<run, held, registry, draft, archive, late, learned, runs, others, faults>>

\* The record cannot be written: the gate warns, and the run goes on.
WaiveUnrecorded(caveat) ==
  /\ Fault
  /\ Waivable(caveat)
  /\ waived' = waived \cup {caveat}
  /\ ~Recorded(Audit(run.from, caveat))
  /\ UNCHANGED logVars \/ CutAppend(Audit(run.from, caveat))
  /\ pc' = After(pc)
  /\ UNCHANGED <<run, held, registry, draft, archive, late, learned, runs, others>>

\* The consistency check runs into its timeout: the runner logs that, under the
\* phase it finds in the instruction file, and the gate fails.
SkillTimesOut ==
  /\ pc = "consistency"
  /\ Ends
  /\ AppendEvent(Audit(NoPhase, "timed out"))
  /\ UNCHANGED <<registry, archive, late, learned, runs, others, faults>>

-----------------------------------------------------------------------------
(* The event-batch gate *)

IsStart(line) == line # Torn /\ line.event = "phase_start"

\* Mutant: the newest phase_start alone decides.
AlreadyLoggedByStart(from, to) ==
  \E n \in DOMAIN log :
    /\ IsStart(log[n]) /\ log[n].phase = to
    /\ \A i \in (n + 1)..Len(log) : ~IsStart(log[i])

\* Mutant: only a log that ends with the phase_start counts.
AlreadyLoggedLast(from, to) ==
  log # <<>> /\ IsStart(Last(log)) /\ Last(log).phase = to

\* The newest phase_start names the target, and the workflow did not go back to
\* the source since.
AlreadyLogged(from, to) ==
  \E n \in DOMAIN log :
    /\ IsStart(log[n]) /\ log[n].phase = to
    /\ \A i \in (n + 1)..Len(log) :
         log[i] # Torn => /\ log[i].event # "phase_start"
                          /\ log[i].event \in FlowEvents => log[i].phase # from

\* The gate decides on the log as it finds it.
SkipBatch ==
  /\ AlreadyLogged(run.from, run.to)
  /\ Goto("batch", "hygiene")
  /\ UNCHANGED <<log, ended, run, waived, held, registry, draft, archive, late,
                 learned, runs, others, faults>>

CheckBatch ==
  /\ ~AlreadyLogged(run.from, run.to)
  /\ Goto("batch", "size")
  /\ UNCHANGED <<log, ended, run, waived, held, registry, draft, archive, late,
                 learned, runs, others, faults>>

\* append_batch asks for the size, and reads the file unless it is too large.
AskSize ==
  /\ Goto("size", IF Oversized THEN "append" ELSE "read")
  /\ UNCHANGED <<log, ended, run, waived, held, registry, draft, archive, late,
                 learned, runs, others, faults>>

ReadLog ==
  /\ Goto("read", "replace")
  /\ held' = log
  /\ UNCHANGED <<log, ended, run, waived, registry, draft, archive, late,
                 learned, runs, others, faults>>

\* Mutant: the records are written one by one, and a crash falls between.
ReplaceLogInTwo ==
  /\ \E n \in {2, 4} : ReplaceWith(held, SubSeq(Batch(run.from, run.to), 1, n))
  /\ Goto("replace", "hygiene")
  /\ held' = <<>>
  /\ UNCHANGED <<run, waived, registry, draft, archive, late, learned, runs, others,
                 faults>>

ReplaceLog ==
  /\ ReplaceWith(held, Batch(run.from, run.to))
  /\ Goto("replace", "hygiene")
  /\ held' = <<>>
  /\ UNCHANGED <<run, waived, registry, draft, archive, late, learned, runs, others,
                 faults>>

\* Mutant: the oversized log is opened for writing, not for appending.
AppendLogTruncating ==
  /\ ReplaceWith(<<>>, Batch(run.from, run.to))
  /\ Goto("append", "hygiene")
  /\ UNCHANGED <<run, waived, held, registry, draft, archive, late, learned, runs,
                 others, faults>>

AppendLog ==
  /\ AppendBatchInPlace(Batch(run.from, run.to))
  /\ Goto("append", "hygiene")
  /\ UNCHANGED <<run, waived, held, registry, draft, archive, late, learned, runs,
                 others, faults>>

\* The batch cannot be written, and the gate fails.  The temporary file of the
\* first kind is removed; what an append wrote stays.
BatchFails ==
  /\ Fault
  /\ \/ pc \in {"size", "read", "replace"} /\ UNCHANGED logVars
     \/ pc = "append" /\ (UNCHANGED logVars \/ CutBatch(Batch(run.from, run.to)))
  /\ Ends
  /\ UNCHANGED <<registry, archive, late, learned, runs, others>>

-----------------------------------------------------------------------------
(* The hygiene gate, and the compaction of the learnings *)

Kept(entries) ==
  {e \in entries : Cardinality({f \in entries : f > e}) < MaxRegistry}

\* Within the limits the run is over; over a limit it stops, unless it may
\* compact and the registry is too long.
Hygiene ==
  /\ pc = "hygiene"
  /\ \/ /\ Ends
        /\ "compact" \in run.flags => Kept(registry) = registry
     \/ /\ "compact" \in run.flags /\ Kept(registry) # registry
        /\ pc' = "archive"
        /\ draft' = registry
        /\ UNCHANGED <<run, waived, held>>
  /\ UNCHANGED <<log, ended, registry, archive, late, learned, runs, others, faults>>

\* Mutant: the instruction file is rewritten first, then the archive.
ArchiveLater ==
  /\ Goto("archive", "rewrite")
  /\ registry' = Kept(draft)
  /\ UNCHANGED <<log, ended, run, waived, held, draft, archive, late, learned,
                 runs, others, faults>>

Archive ==
  /\ Goto("archive", "rewrite")
  /\ archive' = Append(archive, draft \ Kept(draft))
  /\ UNCHANGED <<log, ended, run, waived, held, registry, draft, late, learned,
                 runs, others, faults>>

Rewrite ==
  /\ Goto("rewrite", "audit")
  /\ registry' = Kept(draft)
  /\ UNCHANGED <<log, ended, run, waived, held, draft, archive, late, learned,
                 runs, others, faults>>

\* The record is written whatever the second measurement says, and a failure to
\* write it is only noted; the run is then over, or stops at another limit.
AuditCompaction ==
  /\ pc = "audit"
  /\ Ends
  /\ \/ AppendEvent(Audit(run.to, "compacted")) /\ UNCHANGED faults
     \/ Fault /\ (UNCHANGED logVars \/ CutAppend(Audit(run.to, "compacted")))
  /\ UNCHANGED <<registry, archive, late, learned, runs, others>>

-----------------------------------------------------------------------------
(* Everybody else *)

OtherStep == others < MaxOthers /\ others' = others + 1

OtherAppends(r) ==
  /\ OtherStep
  /\ AppendEvent(r)
  /\ UNCHANGED <<pc, run, waived, held, registry, draft, archive, late, learned,
                 runs, faults>>

OtherIsCut(r) ==
  /\ OtherStep /\ Fault
  /\ CutAppend(r)
  /\ UNCHANGED <<pc, run, waived, held, registry, draft, archive, late, learned, runs>>

\* The orchestrator adds a learning.
Learn ==
  /\ OtherStep
  /\ learned' = learned + 1
  /\ registry' = registry \cup {learned + 1}
  /\ late' = late \cup {n \in {learned + 1} : pc \in {"archive", "rewrite"}}
  /\ UNCHANGED <<log, ended, pc, run, waived, held, draft, archive, runs, faults>>

\* The run is killed between two steps, or while it appends to the log.
Crash ==
  /\ Fault
  /\ pc # "idle"
  /\ Ends
  /\ \/ UNCHANGED logVars
     \/ \E c \in Caveats : /\ Waivable(c) /\ ~Recorded(Audit(run.from, c))
                           /\ CutAppend(Audit(run.from, c))
     \/ pc = "append" /\ CutBatch(Batch(run.from, run.to))
     \/ pc = "audit" /\ CutAppend(Audit(run.to, "compacted"))
  /\ UNCHANGED <<registry, archive, late, learned, runs, others>>

-----------------------------------------------------------------------------
Next ==
  \/ Begin \/ Pass \/ Unavailable \/ Stop
  \/ \E c \in Caveats : Waive(c) \/ WaiveUnrecorded(c)
  \/ SkillTimesOut
  \/ SkipBatch \/ CheckBatch \/ AskSize \/ ReadLog \/ ReplaceLog \/ AppendLog \/ BatchFails
  \/ Hygiene \/ Archive \/ Rewrite \/ AuditCompaction
  \/ \E r \in OtherRecords : OtherAppends(r) \/ OtherIsCut(r)
  \/ Learn \/ Crash

Spec == Init /\ [][Next]_vars

-----------------------------------------------------------------------------
(* Properties *)

TypeOK ==
  /\ log \in Seq(Record \cup {Torn}) /\ ended \in BOOLEAN
  /\ ~ended => log # <<>>
  /\ pc \in Gates \cup {"idle", "size", "read", "replace", "append", "archive",
                       "rewrite", "audit"}
  /\ run \in Runs \cup {NoRun}
  /\ pc # "idle" => run \in Runs
  /\ waived \subseteq Warnings
  /\ held \in Seq(Record \cup {Torn})
  /\ learned \in Nat
  /\ registry \subseteq 1..learned /\ draft \subseteq 1..learned
  /\ archive \in Seq(SUBSET Nat) /\ late \subseteq 1..learned
  /\ runs \in 0..MaxRuns /\ others \in 0..MaxOthers /\ faults \in 0..MaxFaults

\* The lines that open and close a batch, and the batch that opens at line i.
Opens(line) == line # Torn /\ line.event = "phase_end"
Closes(line) == line # Torn /\ line.detail = "entered"

WholeFrom(lines, i) ==
  /\ i + 3 <= Len(lines)
  /\ \E to \in Phases : \A k \in 1..4 : lines[i + k - 1] = Batch(lines[i].phase, to)[k]

\* A transition's four records are in the log all together, one behind the other,
\* or not at all, whoever writes or dies meanwhile, as long as the log is not over
\* its size limit (append_batch).
BatchesWhole ==
  \A i \in DOMAIN log :
    /\ Opens(log[i]) /\ i <= BigLog + 1 => WholeFrom(log, i)
    /\ Closes(log[i]) /\ i <= BigLog + 3 =>
         i > 3 /\ Opens(log[i - 3]) /\ WholeFrom(log, i - 3)

Entered(lines, i) == lines[i + 3].phase

\* Why a second batch of the same transition may follow.
Reopens(line, from, to) ==
  \/ line = Torn
  \/ line.event = "phase_start" /\ line.phase # to
  \/ line.event \in FlowEvents /\ line.phase = from

OncePerPassage(lines) ==
  \A i, j \in DOMAIN lines :
    /\ i < j /\ i <= BigLog + 1 /\ j <= BigLog + 1
    /\ Opens(lines[i]) /\ Opens(lines[j])
    /\ lines[i] = lines[j] /\ Entered(lines, i) = Entered(lines, j)
    => \E k \in (i + 4)..(j - 1) : Reopens(lines[k], lines[i].phase, Entered(lines, i))

\* However often a transition is run again, it is logged again only after the
\* workflow went back or on (_batch_already_logged), although others may write
\* between the gate's look at the log and append_batch's.
OneBatchPerPassage == OncePerPassage(log)

\* The records that say where the workflow stands, as far as leaving a phase goes.
Positions(from) ==
  {i \in DOMAIN log : /\ log[i] # Torn
                      /\ \/ log[i].event = "phase_start"
                         \/ log[i].event \in FlowEvents /\ log[i].phase = from}

StandsIn(from, to) ==
  \E i \in Positions(from) :
    /\ log[i].event = "phase_start" /\ log[i].phase = to
    /\ \A j \in Positions(from) : j <= i

\* A run that gets past the event-batch gate leaves a log that says the workflow
\* is in the target phase, so a transition after a rollback logs its own batch.
PastTheGateIsLogged ==
  [][pc' = "hygiene" /\ pc # "hygiene" => StandsIn(run.from, run.to)']_vars

\* Without failing writes a run that was let through in spite of something has
\* the record of that decision in the log from then on ("a later gate stop can
\* never lose them"), also when its own batch replaces the log.  That the
\* consistency check could not be run is not recorded at all.
WaiversOnRecord ==
  faults = 0 => \A c \in waived \ {"unavailable"} : Recorded(Audit(run.from, c))

Once(lines) ==
  \A i, j \in DOMAIN lines :
    lines[i] = lines[j] /\ lines[i] # Torn /\ lines[i].detail \in Caveats => i = j

\* Runs that earn the same record again do not write it again (_log_audit_once).
AuditsOnce == Once(log)

Archived == UNION Range(archive)

\* A learning is in the instruction file or in the archive, also when a compaction
\* dies in the middle; only one that was added between a compaction's reading the
\* instruction file and its replacing it may be gone.
LearningsKept == 1..learned \subseteq registry \cup Archived \cup late

\* A line goes only when a batch replaces the log, and only if it came after
\* append_batch had read the log: whatever it had read is there again, whoever
\* wrote or died meanwhile.
OnlyLateLinesLost ==
  [][\A i \in DOMAIN log :
       /\ log[i] # Torn /\ (i < Len(log) \/ ended)
       /\ ~(i \in DOMAIN log' /\ log'[i] = log[i])
       => pc = "replace" /\ i > Len(held)]_vars

\* The log is append-only, but for a last line without its newline.
NeverRewritten == [][Extends(log', log, ended)]_vars

=============================================================================
