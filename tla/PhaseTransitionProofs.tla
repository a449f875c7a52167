----------------------- MODULE PhaseTransitionProofs -----------------------
(***************************************************************************)
(* Proofs about PhaseTransition for any phases, flags, limits and bounds:    *)
(* the types, the learnings, the records of caveats, and what a transition   *)
(* leaves in the log.                                                      *)
(***************************************************************************)
EXTENDS PhaseTransition, EventLogProofs

USE TransitionAssumption, TornAssumption, EventLogAssumption

Lines == Record \cup {Torn}

(* Where the run stands, and what it remembers.                            *)
Run ==
  /\ pc = "idle" => waived = {}
  /\ pc = "append" => Oversized
  /\ faults = 0 => ended = TRUE

(* As BatchesWhole; and no line of a batch is without its newline.          *)
Whole(lines, terminated) ==
  \A i \in DOMAIN lines :
    /\ Opens(lines[i]) /\ i <= BigLog + 1 =>
         WholeFrom(lines, i) /\ (terminated \/ i + 3 < Len(lines))
    /\ Closes(lines[i]) /\ i <= BigLog + 3 =>
         i > 3 /\ Opens(lines[i - 3]) /\ WholeFrom(lines, i - 3)

Batches(lines, terminated) == Whole(lines, terminated) /\ OncePerPassage(lines)

(* Every batch of the transition that is there was left behind since.       *)
Reopened(lines, from, to) ==
  \A i \in DOMAIN lines :
    Opens(lines[i]) /\ i <= BigLog + 1 /\ lines[i].phase = from /\ Entered(lines, i) = to
      => \E k \in (i + 4)..Len(lines) : Reopens(lines[k], from, to)

Noted(lines, r) == \E i \in DOMAIN lines : lines[i] = r

(* What the gate found when it looked is still so while append_batch asks    *)
(* for the size, whoever writes.                                           *)
Checked == pc \in {"size", "read"} => Reopened(log, run.from, run.to)

(* What was read is still there, or torn, and is itself a log in order: the  *)
(* batch may follow it.                                                    *)
HeldStands ==
  Len(held) <= Len(log) /\ \A i \in DOMAIN held : log[i] = held[i] \/ log[i] = Torn

HeldGood ==
  /\ Batches(held, TRUE) /\ Reopened(held, run.from, run.to) /\ Once(held)
  /\ faults = 0 => \A c \in waived \ {"unavailable"} : Noted(held, Audit(run.from, c))

Copied == pc = "replace" => HeldStands /\ HeldGood

(* What a compaction read is still in the file; what came since is late.     *)
Drafted ==
  /\ pc \in {"archive", "rewrite"} => draft \subseteq registry /\ registry \ draft \subseteq late
  /\ pc = "rewrite" => draft \ Kept(draft) \subseteq Archived

Inv == TypeOK /\ Run

LogInv == Batches(log, ended) /\ AuditsOnce /\ WaiversOnRecord /\ Checked /\ Copied

LearnInv == Drafted /\ LearningsKept

LEMMA InitInv == Init => Inv /\ LogInv /\ LearnInv
<1> SUFFICES ASSUME Init PROVE Inv /\ LogInv /\ LearnInv
  OBVIOUS
<1>1. <<>> \in Seq(Record \cup {Torn}) /\ DOMAIN <<>> = {} /\ <<>> \in Seq(SUBSET Nat)
  OBVIOUS
<1>2. TypeOK
  BY <1>1 DEF Init, TypeOK, Gates
<1>3. Run /\ Checked /\ Copied /\ Drafted
  BY DEF Init, Run, Checked, Copied, Drafted
<1>4. LearningsKept /\ WaiversOnRecord /\ AuditsOnce /\ Batches(log, ended)
  BY <1>1 DEF Init, LearningsKept, WaiversOnRecord, AuditsOnce, Once, Batches, Whole,
              OncePerPassage
<1> QED
  BY <1>2, <1>3, <1>4 DEF Inv, LogInv, LearnInv

(***************************************************************************)
(* The records, and the steps of the log.                                  *)
(***************************************************************************)

LEMMA TailOfFour ==
  ASSUME NEW S, NEW s \in Seq(S), Len(s) = 4
  PROVE  Tail(s) \in Seq(S) /\ Len(Tail(s)) = 3 /\ Tail(s)[3] = s[4]
<1> DEFINE t == Tail(s)
<1>1. s # <<>>
  OBVIOUS
<1>2. t \in Seq(S) /\ Len(t) = Len(s) - 1 /\ \A i \in 1..Len(t) : t[i] = s[i + 1]
  BY <1>1, HeadTailProperties
<1> HIDE DEF t
<1>3. Len(t) = 3
  BY <1>2
<1>4. ASSUME NEW i \in 1..3, i = 3 PROVE t[i] = s[4]
  <2>1. t[i] = s[i + 1] /\ i + 1 = 4
    BY <1>2, <1>3, <1>4
  <2> QED
    BY <2>1
<1>5. t[3] = s[4]
  BY <1>4
<1> QED
  BY <1>2, <1>3, <1>5 DEF t

LEMMA BatchIs ==
  ASSUME NEW from \in Phases, NEW to \in Phases
  PROVE  LET b == Batch(from, to)
         IN  /\ b \in Seq(Record) /\ b \in Seq(Lines) /\ Len(b) = 4 /\ b # <<>>
             /\ DOMAIN b = 1..4
             /\ \A k \in 1..4 : b[k].detail \notin Caveats
             /\ \A k \in 1..3 : b[k].detail # "entered"
             /\ \A k \in 2..4 : b[k].event # "phase_end"
             /\ b[1].event = "phase_end" /\ b[1].phase = from
             /\ b[4] = Rec("phase_start", to, "entered")
<1> DEFINE b == Batch(from, to)
<1>1. /\ Len(b) = 4 /\ DOMAIN b = 1..4 /\ b # <<>>
      /\ b[1] = Rec("phase_end", from, "approved")
      /\ b[2] = Rec("review_verdict", from, "verdict")
      /\ b[3] = Rec("state_change", to, "advance")
      /\ b[4] = Rec("phase_start", to, "entered")
  BY DEF Batch
<1>2. ASSUME NEW k \in 1..4 PROVE b[k] \in Record
  <2>1. Batch(from, to)[k] \in BatchRecords
    BY DEF BatchRecords
  <2> QED
    BY <2>1 DEF Record
<1>3. b \in Seq(Record) /\ b \in Seq(Lines)
  <2>1. ASSUME NEW S, \A k \in 1..4 : b[k] \in S PROVE b \in Seq(S)
    BY <1>1, <2>1 DEF Batch
  <2> QED
    BY <1>2, <2>1 DEF Lines
<1>4. \A k \in 1..4 : b[k].detail \notin Caveats
  <2>1. \A k \in 1..4 : k = 1 \/ k = 2 \/ k = 3 \/ k = 4
    OBVIOUS
  <2>2. /\ b[1].detail = "approved" /\ b[2].detail = "verdict"
        /\ b[3].detail = "advance" /\ b[4].detail = "entered"
    BY <1>1 DEF Rec
  <2> QED
    BY <2>1, <2>2 DEF Caveats
<1>5. b[1].event = "phase_end" /\ b[1].phase = from
  BY <1>1 DEF Rec
<1>6. \A k \in 1..3 : b[k].detail # "entered"
  <2>1. \A k \in 1..3 : k = 1 \/ k = 2 \/ k = 3
    OBVIOUS
  <2>2. b[1].detail = "approved" /\ b[2].detail = "verdict" /\ b[3].detail = "advance"
    BY <1>1 DEF Rec
  <2> QED
    BY <2>1, <2>2
<1>7. \A k \in 2..4 : b[k].event # "phase_end"
  <2>1. \A k \in 2..4 : k = 2 \/ k = 3 \/ k = 4
    OBVIOUS
  <2>2. /\ b[2].event = "review_verdict" /\ b[3].event = "state_change"
        /\ b[4].event = "phase_start"
    BY <1>1 DEF Rec
  <2> QED
    BY <2>1, <2>2
<1> HIDE DEF b
<1> QED
  BY <1>1, <1>3, <1>4, <1>5, <1>6, <1>7 DEF b

\* The lines that are added are not those of a caveat, or one that is not there.
Adds ==
  \E R \in SUBSET Record :
    /\ Grows(log', log, ended, R)
    /\ \/ \A r \in R : r.detail \notin Caveats
       \/ \E r \in R : R = {r} /\ ~Recorded(r) /\ Len(log') <= Len(log) + 1

LogType == log \in Seq(Lines) /\ ended \in BOOLEAN /\ (~ended => log # <<>>)

LEMMA Unchanged ==
  ASSUME LogType, log' = log, ended' = ended
  PROVE  LogType' /\ Adds
<1>1. Grows(log', log, ended, {})
  BY DEF LogType, Grows, Extends
<1> QED
  BY <1>1 DEF LogType, Adds

LEMMA AppendAdds ==
  ASSUME LogType, NEW r \in Record, AppendEvent(r) \/ CutAppend(r),
         r.detail \notin Caveats \/ ~Recorded(r)
  PROVE  LogType' /\ Adds
<1>1. r \in Lines /\ Torn \in Lines
  BY DEF Lines
<1>2. /\ LogType' /\ Len(log') <= Len(log) + 1
      /\ Grows(log', log, ended, {r})
  <2>1. CASE AppendEvent(r)
    BY <1>1, <2>1, AppendEventGrows DEF LogType
  <2>2. CASE CutAppend(r)
    BY <1>1, <2>2, CutAppendGrows DEF LogType
  <2> QED
    BY <2>1, <2>2
<1>3. {r} \in SUBSET Record
  OBVIOUS
<1> QED
  BY <1>2, <1>3 DEF Adds

LEMMA BatchAdds ==
  ASSUME LogType, NEW from \in Phases, NEW to \in Phases,
         \/ AppendBatchInPlace(Batch(from, to))
         \/ CutBatch(Batch(from, to))
  PROVE  LogType' /\ Adds
<1> DEFINE b == Batch(from, to)
           R == {r \in Record : r.detail \notin Caveats}
<1>1. /\ b \in Seq(Lines) /\ Len(b) = 4 /\ b # <<>> /\ DOMAIN b = 1..4
      /\ \A k \in 1..4 : b[k] \in R
      /\ Torn \in Lines
  BY BatchIs DEF Lines
<1>2. R \in SUBSET Record
  OBVIOUS
<1> HIDE DEF b, R
<1>3. ASSUME Grows(log', log, ended, R) PROVE Adds
  <2>1. \A r \in R : r.detail \notin Caveats
    BY DEF R
  <2> QED
    BY <1>2, <1>3, <2>1 DEF Adds
<1>4. CASE AppendBatchInPlace(b)
  <2>1. /\ InPlace(log, ended, b) \in Seq(Lines)
        /\ Grows(InPlace(log, ended, b), log, ended, R)
    BY <1>1, InPlaceGrows DEF LogType
  <2> QED
    BY <1>3, <1>4, <2>1 DEF AppendBatchInPlace, LogType
<1>5. CASE CutBatch(b)
  <2> PICK n \in 1..Len(b) : \E line \in {b[n], Torn} :
        /\ log' = InPlace(log, ended, SubSeq(b, 1, n - 1) \o <<line>>)
        /\ ended' = FALSE
    BY <1>5 DEF CutBatch
  <2> PICK line \in {b[n], Torn} :
        /\ log' = InPlace(log, ended, SubSeq(b, 1, n - 1) \o <<line>>)
        /\ ended' = FALSE
    OBVIOUS
  <2> DEFINE new == SubSeq(b, 1, n - 1) \o <<line>>
  <2>1. /\ SubSeq(b, 1, n - 1) \in Seq(Lines) /\ Len(SubSeq(b, 1, n - 1)) = n - 1
        /\ \A k \in 1..n - 1 : SubSeq(b, 1, n - 1)[k] = b[k]
    <3>1. n \in 1..4 /\ \A k \in 1..n - 1 : b[k] \in Lines
      BY <1>1 DEF R, Lines
    <3> QED
      BY <3>1, SubSeqProperties, 1 \in Int, n - 1 \in Int
  <2>2. line \in R \cup {Torn} /\ line \in Lines
    BY <1>1 DEF R, Lines
  <2>3. <<line>> \in Seq(Lines) /\ Len(<<line>>) = 1 /\ <<line>>[1] = line
    BY <2>2
  <2>4. /\ new \in Seq(Lines) /\ Len(new) = n
        /\ \A k \in 1..n - 1 + 1 :
             new[k] = IF k <= n - 1 THEN SubSeq(b, 1, n - 1)[k] ELSE <<line>>[k - (n - 1)]
    BY <1>1, <2>1, <2>3, ConcatProperties
  <2>5. n \in 1..4
    BY <1>1
  <2> HIDE DEF new
  <2>6. ASSUME NEW k \in DOMAIN new PROVE new[k] \in R \cup {Torn}
    <3>1. k \in 1..n
      BY <2>4, <2>5
    <3>2. CASE k <= n - 1
      BY <1>1, <2>1, <2>4, <2>5, <3>1, <3>2
    <3>3. CASE k = n
      BY <2>2, <2>3, <2>4, <2>5, <3>3
    <3> QED
      BY <2>5, <3>1, <3>2, <3>3
  <2>7. new # <<>>
    BY <2>4, <2>5
  <2>8. /\ InPlace(log, ended, new) \in Seq(Lines) /\ InPlace(log, ended, new) # <<>>
        /\ Grows(InPlace(log, ended, new), log, ended, R)
    BY <1>1, <2>4, <2>6, <2>7, InPlaceGrows DEF LogType
  <2>9. log' = InPlace(log, ended, new)
    BY DEF new
  <2> QED
    BY <1>3, <2>8, <2>9 DEF LogType
<1> QED
  BY <1>4, <1>5 DEF b

LEMMA OtherIs ==
  ASSUME NEW r \in OtherRecords
  PROVE  r \in Record /\ r.detail = "other" /\ r.detail \notin Caveats
BY DEF OtherRecords, Record, Rec, Caveats

LEMMA AuditIs ==
  ASSUME NEW p \in Phases \cup {NoPhase}
  PROVE  /\ \A c \in Caveats : Audit(p, c) \in Record /\ Audit(p, c).detail = c
         /\ Audit(p, "compacted") \in Record /\ Audit(p, "compacted").detail \notin Caveats
         /\ Audit(p, "timed out") \in Record /\ Audit(p, "timed out").detail \notin Caveats
<1>1. ASSUME NEW c \in Caveats \cup {"compacted", "timed out"}
      PROVE  Audit(p, c) \in Record
  <2>1. Audit(p, c) \in Audits
    BY DEF Audits, Audit, Rec
  <2> QED
    BY <2>1 DEF Record
<1>2. /\ \A c \in Caveats : Audit(p, c).detail = c
      /\ Audit(p, "compacted").detail = "compacted"
      /\ Audit(p, "timed out").detail = "timed out"
  BY DEF Audit, Rec
<1>3. "compacted" \notin Caveats /\ "timed out" \notin Caveats
  BY DEF Caveats
<1> QED
  BY <1>1, <1>2, <1>3

LEMMA RunIs ==
  ASSUME TypeOK
  PROVE  /\ pc # "idle" => run.from \in Phases /\ run.to \in Phases
         /\ LogType
         /\ \A c \in Caveats : Waivable(c) => pc # "idle"
BY DEF TypeOK, Runs, LogType, Lines, Waivable

LEMMA RecordedStep ==
  ASSUME LogType, Adds, NEW r \in Record, Recorded(r), ended = TRUE
  PROVE  Recorded(r)'
<1>1. Extends(log', log, TRUE)
  BY DEF Adds, Grows
<1>2. Len(log) \in Nat /\ DOMAIN log = 1..Len(log)
  BY DEF LogType
<1>3. PICK i \in DOMAIN log : log[i] = r
  BY DEF Recorded
<1> QED
  BY <1>1, <1>2, <1>3 DEF Extends, Recorded

(***************************************************************************)
(* The steps of the log.                                                   *)
(***************************************************************************)

(* As long as nothing fails every line is whole.                            *)
LEMMA FaultStep ==
  ASSUME Inv, [Next]_vars
  PROVE  /\ faults' \in 0..MaxFaults
         /\ faults' = 0 => faults = 0 /\ ended' = TRUE
<1> USE DEF Inv
<1>0. faults \in 0..MaxFaults /\ (faults = 0 => ended = TRUE)
  BY DEF TypeOK, Run
<1>f. ASSUME Fault PROVE faults' \in 0..MaxFaults /\ faults' # 0
  BY <1>0, <1>f DEF Fault
<1>1. ASSUME faults' = faults, ended' = ended \/ ended' = TRUE
      PROVE  /\ faults' \in 0..MaxFaults
             /\ faults' = 0 => faults = 0 /\ ended' = TRUE
  BY <1>0, <1>1
<1>2. CASE Begin \/ Pass \/ Unavailable \/ Stop \/ SkipBatch \/ CheckBatch \/ AskSize
           \/ ReadLog \/ Hygiene \/ Archive
           \/ Rewrite \/ Learn \/ UNCHANGED vars
  BY <1>1, <1>2
  DEF Begin, Pass, Unavailable, Stop, SkipBatch, CheckBatch, AskSize, ReadLog, Hygiene,
      Archive, Rewrite, Learn, vars
<1>3. CASE SkillTimesOut \/ ReplaceLog \/ AppendLog
  BY <1>1, <1>3
  DEF SkillTimesOut, ReplaceLog, AppendLog, AppendEvent, ReplaceWith, AppendBatchInPlace
<1>4. ASSUME NEW c \in Caveats, Waive(c)
      PROVE  faults' = faults /\ (ended' = ended \/ ended' = TRUE)
  BY <1>4 DEF Waive, LogAuditOnce, AppendEvent, logVars
<1>5. ASSUME NEW r \in OtherRecords, OtherAppends(r)
      PROVE  faults' = faults /\ ended' = TRUE
  BY <1>5 DEF OtherAppends, AppendEvent
<1>6. CASE AuditCompaction
  <2>1. CASE AppendEvent(Audit(run.to, "compacted")) /\ UNCHANGED faults
    BY <1>1, <2>1 DEF AppendEvent
  <2>2. CASE Fault
    BY <1>f, <2>2
  <2> QED
    BY <1>6, <2>1, <2>2 DEF AuditCompaction
<1>7. CASE \/ \E c \in Caveats : WaiveUnrecorded(c)
           \/ BatchFails \/ Crash
           \/ \E r \in OtherRecords : OtherIsCut(r)
  BY <1>7, <1>f DEF WaiveUnrecorded, BatchFails, Crash, OtherIsCut
<1> QED
  BY <1>1, <1>2, <1>3, <1>4, <1>5, <1>6, <1>7 DEF Next

(* The log stays a file of lines, and grows, by a batch or by one record,    *)
(* unless a batch replaces it.                                             *)
LEMMA LogStep ==
  ASSUME Inv, [Next]_vars, ~ReplaceLog
  PROVE  LogType' /\ Adds
<1> USE DEF Inv
<1>0. LogType
  BY RunIs
<1>u. ASSUME UNCHANGED logVars PROVE LogType' /\ Adds
  BY <1>0, <1>u, Unchanged DEF logVars
<1>1. CASE Begin \/ Pass \/ Unavailable \/ Stop \/ SkipBatch \/ CheckBatch \/ AskSize
           \/ ReadLog \/ Hygiene \/ Archive
           \/ Rewrite \/ Learn \/ UNCHANGED vars
  BY <1>1, <1>u
  DEF Begin, Pass, Unavailable, Stop, SkipBatch, CheckBatch, AskSize, ReadLog, Hygiene,
      Archive, Rewrite, Learn, vars, logVars
<1>2. ASSUME NEW c \in Caveats, Waivable(c)
      PROVE  /\ Audit(run.from, c) \in Record
             /\ pc # "idle"
  BY <1>2, RunIs, AuditIs
<1>3. ASSUME NEW c \in Caveats, Waive(c) PROVE LogType' /\ Adds
  <2>1. CASE Recorded(Audit(run.from, c))
    BY <1>3, <1>u, <2>1 DEF Waive, LogAuditOnce
  <2>2. CASE ~Recorded(Audit(run.from, c))
    BY <1>0, <1>2, <1>3, <2>2, AppendAdds DEF Waive, LogAuditOnce
  <2> QED
    BY <2>1, <2>2
<1>4. ASSUME NEW c \in Caveats, WaiveUnrecorded(c) PROVE LogType' /\ Adds
  BY <1>0, <1>2, <1>4, <1>u, AppendAdds DEF WaiveUnrecorded
<1>5. CASE SkillTimesOut
  BY <1>0, <1>5, AuditIs, AppendAdds DEF SkillTimesOut
<1>6. CASE AppendLog
  <2>1. run.from \in Phases /\ run.to \in Phases
    BY <1>6, RunIs DEF AppendLog, Goto
  <2> QED
    BY <1>0, <1>6, <2>1, BatchAdds DEF AppendLog, Goto
<1>7. CASE BatchFails
  <2>1. run.from \in Phases /\ run.to \in Phases
    BY <1>7, RunIs DEF BatchFails
  <2> QED
    BY <1>0, <1>7, <1>u, <2>1, BatchAdds DEF BatchFails
<1>8. CASE AuditCompaction
  <2>1. /\ Audit(run.to, "compacted") \in Record
        /\ Audit(run.to, "compacted").detail \notin Caveats
    BY <1>8, RunIs, AuditIs DEF AuditCompaction
  <2> QED
    BY <1>0, <1>8, <1>u, <2>1, AppendAdds DEF AuditCompaction
<1>9. ASSUME NEW r \in OtherRecords, OtherAppends(r) \/ OtherIsCut(r)
      PROVE  LogType' /\ Adds
  BY <1>0, <1>9, OtherIs, AppendAdds DEF OtherAppends, OtherIsCut
<1>10. CASE Crash
  <2>1. run.from \in Phases /\ run.to \in Phases
    BY <1>10, RunIs DEF Crash
  <2>2. /\ Audit(run.to, "compacted") \in Record
        /\ Audit(run.to, "compacted").detail \notin Caveats
    BY <2>1, AuditIs
  <2>3. CASE CutBatch(Batch(run.from, run.to))
    BY <1>0, <2>1, <2>3, BatchAdds
  <2>4. CASE CutAppend(Audit(run.to, "compacted"))
    BY <1>0, <2>2, <2>4, AppendAdds
  <2>5. ASSUME NEW c \in Caveats, Waivable(c), ~Recorded(Audit(run.from, c)),
               CutAppend(Audit(run.from, c))
        PROVE  LogType' /\ Adds
    BY <1>0, <1>2, <2>5, AppendAdds
  <2> QED
    BY <1>10, <1>u, <2>3, <2>4, <2>5 DEF Crash
<1> QED
  BY <1>1, <1>3, <1>4, <1>5, <1>6, <1>7, <1>8, <1>9, <1>10 DEF Next

(***************************************************************************)
(* The steps of the run.                                                   *)
(***************************************************************************)

LEMMA KeptIs ==
  ASSUME NEW entries, NEW S, entries \subseteq S
  PROVE  Kept(entries) \subseteq entries /\ Kept(entries) \subseteq S
BY DEF Kept

\* The variables that say where the run stands.
RunType ==
  /\ pc \in Gates \cup {"idle", "size", "read", "replace", "append", "archive",
                       "rewrite", "audit"}
  /\ run \in Runs \cup {NoRun}
  /\ pc # "idle" => run \in Runs
  /\ waived \subseteq Warnings
  /\ pc = "idle" => waived = {}
  /\ runs \in 0..MaxRuns /\ others \in 0..MaxOthers

\* The learnings
LearningsType ==
  /\ learned \in Nat
  /\ registry \subseteq 1..learned /\ draft \subseteq 1..learned
  /\ archive \in Seq(SUBSET Nat) /\ late \subseteq 1..learned

LEMMA StepRun ==
  ASSUME Inv, [Next]_vars
  PROVE  RunType'
<1> USE DEF Inv
<1>0. RunType
  BY DEF TypeOK, Run, RunType
<1>e. ASSUME Ends, runs' = runs, others' = others PROVE RunType'
  BY <1>0, <1>e DEF Ends, RunType
<1>g. ASSUME pc # "idle",
             pc' \in Gates \cup {"size", "read", "replace", "append", "archive", "rewrite",
                             "audit"},
             run' = run, waived' \subseteq Warnings, runs' = runs, others' = others
      PROVE  RunType'
  BY <1>0, <1>g DEF RunType, Gates
<1>o. ASSUME pc' = pc, run' = run, waived' = waived, runs' = runs,
             others' = others \/ OtherStep
      PROVE  RunType'
  BY <1>0, <1>o DEF RunType, OtherStep
<1>1. CASE Begin
  BY <1>0, <1>1 DEF Begin, RunType, Gates
<1>2. CASE Pass \/ Unavailable
  BY <1>0, <1>2, <1>g DEF Pass, Unavailable, Goto, Gates, RunType, Warnings
<1>3. CASE Stop \/ SkillTimesOut \/ BatchFails \/ AuditCompaction \/ Crash
  BY <1>3, <1>e DEF Stop, SkillTimesOut, BatchFails, AuditCompaction, Crash
<1>4. ASSUME NEW c \in Caveats, Waive(c) \/ WaiveUnrecorded(c)
      PROVE  RunType'
  <2>1. /\ Waivable(c) /\ waived' = waived \cup {c} /\ pc' = After(pc)
        /\ run' = run /\ runs' = runs /\ others' = others
    BY <1>4 DEF Waive, WaiveUnrecorded
  <2>2. pc # "idle" /\ pc' \in Gates
    BY <2>1 DEF Waivable, After, Gates
  <2> QED
    BY <1>0, <1>g, <2>1, <2>2 DEF RunType, Warnings
<1>5. CASE SkipBatch \/ CheckBatch \/ AskSize \/ ReadLog \/ ReplaceLog \/ AppendLog
           \/ Archive \/ Rewrite
  BY <1>0, <1>5, <1>g
  DEF SkipBatch, CheckBatch, AskSize, ReadLog, ReplaceLog, AppendLog, Archive, Rewrite, Goto, Gates, RunType
<1>6. CASE Hygiene
  BY <1>0, <1>6, <1>g, <1>e DEF Hygiene, Gates, RunType
<1>7. ASSUME NEW r \in OtherRecords, OtherAppends(r) \/ OtherIsCut(r)
      PROVE  RunType'
  BY <1>7, <1>o DEF OtherAppends, OtherIsCut
<1>8. CASE Learn
  BY <1>8, <1>o DEF Learn
<1>9. CASE UNCHANGED vars
  BY <1>9, <1>o DEF vars
<1> QED
  BY <1>1, <1>2, <1>3, <1>4, <1>5, <1>6, <1>7, <1>8, <1>9 DEF Next

LEMMA DraftIsNumbers ==
  ASSUME NEW n \in Nat, NEW entries \in SUBSET (1..n)
  PROVE  entries \ Kept(entries) \in SUBSET Nat
<1>1. 1..n \subseteq Nat
  OBVIOUS
<1>2. \A e \in entries \ Kept(entries) : e \in Nat
  BY <1>1
<1> HIDE DEF Kept
<1> QED
  BY <1>2

LEMMA StepLearnings ==
  ASSUME Inv, [Next]_vars
  PROVE  LearningsType'
<1> USE DEF Inv
<1>0. LearningsType
  BY DEF TypeOK, LearningsType
<1>1. ASSUME learned' = learned, registry' = registry, archive' = archive, late' = late,
             draft' = draft \/ draft' = {} \/ draft' = registry
      PROVE  LearningsType'
  BY <1>0, <1>1 DEF LearningsType
<1>2. CASE Archive
  <2>1. draft \ Kept(draft) \in SUBSET Nat
    BY <1>0, DraftIsNumbers DEF LearningsType
  <2>2. Append(archive, draft \ Kept(draft)) \in Seq(SUBSET Nat)
    BY <1>0, <2>1 DEF LearningsType
  <2> QED
    BY <1>0, <1>2, <2>2 DEF Archive, LearningsType
<1>3. CASE Rewrite
  BY <1>0, <1>3, KeptIs DEF Rewrite, LearningsType
<1>4. CASE Learn
  <2>1. 1..learned \subseteq 1..learned + 1 /\ learned + 1 \in 1..learned + 1
    BY <1>0 DEF LearningsType
  <2>2. late' \subseteq late \cup {learned + 1}
    BY <1>4 DEF Learn
  <2>3. /\ learned' = learned + 1 /\ registry' = registry \cup {learned + 1}
        /\ draft' = draft /\ archive' = archive
    BY <1>4 DEF Learn
  <2>4. learned + 1 \in Nat
    BY <1>0 DEF LearningsType
  <2> QED
    BY <1>0, <2>1, <2>2, <2>3, <2>4 DEF LearningsType
<1>5. CASE Begin \/ Pass \/ Unavailable \/ Stop \/ SkillTimesOut \/ SkipBatch
           \/ CheckBatch \/ AskSize \/ ReadLog \/ ReplaceLog \/ AppendLog \/ BatchFails
           \/ AuditCompaction \/ Crash \/ UNCHANGED vars
  BY <1>1, <1>5
  DEF Begin, Pass, Unavailable, Stop, SkillTimesOut, SkipBatch, CheckBatch, AskSize,
      ReadLog, ReplaceLog, AppendLog, BatchFails, AuditCompaction, Crash, Ends, vars
<1>6. CASE Hygiene
  BY <1>1, <1>6 DEF Hygiene, Ends
<1>7. ASSUME NEW c \in Caveats, Waive(c) \/ WaiveUnrecorded(c)
      PROVE  LearningsType'
  BY <1>1, <1>7 DEF Waive, WaiveUnrecorded
<1>8. ASSUME NEW r \in OtherRecords, OtherAppends(r) \/ OtherIsCut(r)
      PROVE  LearningsType'
  BY <1>1, <1>8 DEF OtherAppends, OtherIsCut
<1> QED
  BY <1>2, <1>3, <1>4, <1>5, <1>6, <1>7, <1>8 DEF Next

LEMMA StepInv ==
  ASSUME Inv, [Next]_vars
  PROVE  Inv'
<1>0. LogType /\ held \in Seq(Lines)
  BY RunIs DEF Inv, TypeOK, Lines
<1>1. LogType' /\ (~ReplaceLog => Adds)
  <2>1. CASE ReplaceLog
    <3>1. run.from \in Phases /\ run.to \in Phases
      BY <2>1, RunIs DEF ReplaceLog, Goto, Inv
    <3>2. Batch(run.from, run.to) \in Seq(Lines)
      BY <3>1, BatchIs
    <3>3. held \o Batch(run.from, run.to) \in Seq(Lines)
      BY <1>0, <3>2, ConcatProperties
    <3> QED
      BY <2>1, <3>3 DEF ReplaceLog, ReplaceWith, LogType
  <2>2. CASE ~ReplaceLog
    BY <2>2, LogStep
  <2> QED
    BY <2>1, <2>2
<1>2. held' \in Seq(Lines)
  <2>1. <<>> \in Seq(Lines)
    OBVIOUS
  <2>2. held' = held \/ held' = <<>> \/ held' = log
    <3>1. CASE Begin \/ Pass \/ Unavailable \/ Stop \/ SkillTimesOut \/ SkipBatch
               \/ CheckBatch \/ AskSize \/ ReplaceLog \/ AppendLog \/ BatchFails \/ Hygiene \/ Archive \/ Rewrite
               \/ AuditCompaction \/ Learn \/ Crash \/ UNCHANGED vars
      BY <3>1
      DEF Begin, Pass, Unavailable, Stop, SkillTimesOut, SkipBatch, CheckBatch, AskSize,
          ReplaceLog, AppendLog, BatchFails, Hygiene, Archive, Rewrite, AuditCompaction, Learn, Crash,
          Ends, vars
    <3>2. CASE ReadLog
      BY <3>2 DEF ReadLog
    <3>3. CASE \/ \E c \in Caveats : Waive(c) \/ WaiveUnrecorded(c)
               \/ \E r \in OtherRecords : OtherAppends(r) \/ OtherIsCut(r)
      BY <3>3 DEF Waive, WaiveUnrecorded, OtherAppends, OtherIsCut
    <3> QED
      BY <3>1, <3>2, <3>3 DEF Next
  <2> QED
    BY <1>0, <2>1, <2>2 DEF LogType
<1>3. pc' = "append" => Oversized'
  <2> SUFFICES ASSUME pc' = "append" PROVE Oversized'
    OBVIOUS
  <2>1. (AskSize /\ Oversized) \/ pc = "append"
    <3>1. CASE Begin \/ Pass \/ Unavailable \/ Stop \/ SkillTimesOut \/ SkipBatch
               \/ CheckBatch \/ ReadLog \/ ReplaceLog \/ AppendLog \/ BatchFails \/ Hygiene \/ Archive \/ Rewrite
               \/ AuditCompaction \/ Learn \/ Crash \/ UNCHANGED vars
      BY <3>1
      DEF Begin, Pass, Unavailable, Stop, SkillTimesOut, SkipBatch, CheckBatch, ReadLog,
          ReplaceLog, AppendLog, BatchFails, Hygiene, Archive, Rewrite, AuditCompaction, Learn, Crash,
          Ends, Goto, vars
    <3>2. CASE AskSize
      BY <3>2 DEF AskSize, Goto
    <3>3. ASSUME NEW c \in Caveats, Waive(c) \/ WaiveUnrecorded(c)
          PROVE  FALSE
      BY <3>3 DEF Waive, WaiveUnrecorded, Waivable, After
    <3>4. ASSUME NEW r \in OtherRecords, OtherAppends(r) \/ OtherIsCut(r)
          PROVE  pc = "append"
      BY <3>4 DEF OtherAppends, OtherIsCut
    <3> QED
      BY <3>1, <3>2, <3>3, <3>4 DEF Next
  <2>2. CASE AskSize /\ Oversized
    BY <2>2 DEF AskSize, Oversized
  <2>3. CASE pc = "append"
    <3>1. Len(log) <= Len(log') /\ Len(log) > BigLog
      BY <1>1, <2>3 DEF ReplaceLog, Goto, Adds, Grows, Extends, Inv, Run, Oversized
    <3>2. Len(log) \in Nat /\ Len(log') \in Nat
      BY <1>0, <1>1 DEF LogType
    <3> QED
      BY <3>1, <3>2 DEF Oversized
  <2> QED
    BY <2>1, <2>2, <2>3
<1>4. faults' \in 0..MaxFaults /\ (faults' = 0 => ended' = TRUE)
  BY FaultStep
<1>5. RunType' /\ LearningsType'
  BY StepRun, StepLearnings
<1> QED
  BY <1>1, <1>2, <1>3, <1>4, <1>5
  DEF Inv, TypeOK, Run, LogType, Lines, RunType, LearningsType

(* Past the event-batch gate the log says that the workflow is in the target. *)
LEMMA StepPast ==
  ASSUME Inv, [Next]_vars, pc' = "hygiene", pc # "hygiene"
  PROVE  StandsIn(run.from, run.to)'
<1> USE DEF Inv
<1>0. LogType /\ LogType' /\ held \in Seq(Lines)
  <2>1. LogType /\ held \in Seq(Lines)
    BY RunIs DEF TypeOK, Lines
  <2>2. TypeOK'
    BY StepInv
  <2> QED
    BY <2>1, <2>2 DEF TypeOK, LogType, Lines
<1>1. SkipBatch \/ ReplaceLog \/ AppendLog
  <2>1. ~(Begin \/ Unavailable \/ Stop \/ SkillTimesOut \/ CheckBatch \/ AskSize
           \/ ReadLog \/ BatchFails \/ Hygiene \/ Archive \/ Rewrite \/ AuditCompaction
           \/ Learn \/ Crash \/ UNCHANGED vars)
    BY DEF Begin, Unavailable, Stop, SkillTimesOut, CheckBatch, AskSize, ReadLog, BatchFails, Hygiene, Archive,
           Rewrite, AuditCompaction, Learn, Crash, Ends, Goto, vars
  <2>2. ~Pass
    BY DEF Pass, Goto
  <2>3. \A c \in Caveats : ~Waive(c) /\ ~WaiveUnrecorded(c)
    BY DEF Waive, WaiveUnrecorded, Waivable, After
  <2>4. \A r \in OtherRecords : ~OtherAppends(r) /\ ~OtherIsCut(r)
    BY DEF OtherAppends, OtherIsCut
  <2> QED
    BY <2>1, <2>2, <2>3, <2>4 DEF Next
<1>2. run' = run /\ run.from \in Phases /\ run.to \in Phases
  <2>1. run' = run /\ pc # "idle"
    BY <1>1 DEF SkipBatch, ReplaceLog, AppendLog, Goto
  <2> QED
    BY <2>1, RunIs
\* A log that ends with the record of the target's start
<1>3. ASSUME NEW n \in Nat, n = Len(log'), n > 0, log'[n] = Batch(run.from, run.to)[4]
      PROVE  StandsIn(run.from, run.to)'
  <2>1. DOMAIN log' = 1..n
    BY <1>0, <1>3 DEF LogType
  <2>2. /\ log'[n].event = "phase_start" /\ log'[n].phase = run.to
        /\ log'[n] \in Record
    <3>1. log'[n] = Rec("phase_start", run.to, "entered")
      BY <1>2, <1>3, BatchIs
    <3>2. Batch(run.from, run.to)[4] \in Record
      <4> DEFINE s == Batch(run.from, run.to)
      <4>1. s \in Seq(Record) /\ Len(s) = 4
        BY <1>2, BatchIs
      <4> HIDE DEF s
      <4>2. s[4] \in Record
        <5>1. 4 \in 1..Len(s)
          BY <4>1
        <5> QED
          BY <4>1, <5>1, ElementOfSeq
      <4> QED
        BY <4>2 DEF s
    <3> QED
      BY <1>3, <3>1, <3>2 DEF Rec
  <2>3. n \in Positions(run.from)'
    BY <1>2, <1>3, <2>1, <2>2 DEF Positions
  <2>4. \A j \in Positions(run.from)' : j <= n
    BY <2>1 DEF Positions
  <2> QED
    BY <1>2, <2>2, <2>3, <2>4 DEF StandsIn
<1>4. CASE SkipBatch
  <2>1. log' = log /\ AlreadyLogged(run.from, run.to)
    BY <1>4 DEF SkipBatch
  <2>2. PICK n \in DOMAIN log :
          /\ IsStart(log[n]) /\ log[n].phase = run.to
          /\ \A i \in (n + 1)..Len(log) :
               log[i] # Torn => /\ log[i].event # "phase_start"
                                /\ log[i].event \in FlowEvents => log[i].phase # run.from
    BY <2>1 DEF AlreadyLogged
  <2>3. n \in Positions(run.from)
    BY <2>2 DEF Positions, IsStart
  <2>4. ASSUME NEW j \in Positions(run.from) PROVE j <= n
    <3>1. Len(log) \in Nat /\ n \in 1..Len(log) /\ j \in 1..Len(log)
      BY <1>0 DEF LogType, Positions
    <3>2. j \notin (n + 1)..Len(log)
      BY <2>2 DEF Positions
    <3> QED
      BY <3>1, <3>2
  <2>5. StandsIn(run.from, run.to)
    BY <2>2, <2>3, <2>4 DEF StandsIn, IsStart
  <2> QED
    BY <1>2, <2>1, <2>5 DEF StandsIn, Positions
<1> DEFINE b == Batch(run.from, run.to)
<1>5. b \in Seq(Lines) /\ Len(b) = 4 /\ b # <<>>
  BY <1>2, BatchIs
<1> HIDE DEF b
<1>6. CASE ReplaceLog
  <2>1. log' = held \o b
    BY <1>6 DEF ReplaceLog, ReplaceWith, b
  <2>2. Len(held) \in Nat /\ Len(log') = Len(held) + 4 /\ log'[Len(held) + 4] = b[4]
    <3>1. /\ Len(held \o b) = Len(held) + Len(b)
          /\ \A i \in 1..Len(held) + Len(b) :
               (held \o b)[i] = IF i <= Len(held) THEN held[i] ELSE b[i - Len(held)]
      BY <1>0, <1>5, ConcatProperties
    <3> QED
      BY <1>0, <1>5, <2>1, <3>1
  <2> QED
    BY <1>3, <2>2 DEF b
<1>7. CASE AppendLog
  <2>1. log' = InPlace(log, ended, b)
    BY <1>7 DEF AppendLog, AppendBatchInPlace, b
  <2>2. PICK first \in Seq(Lines), rest \in Seq(Lines) :
          log' = first \o rest /\ Len(rest) > 0 /\ rest[Len(rest)] = b[4]
    <3>1. CASE ended
      <4>1. log' = log \o b /\ Len(b) > 0 /\ b[Len(b)] = b[4]
        BY <1>5, <2>1, <3>1 DEF InPlace
      <4>2. log \in Seq(Lines)
        BY <1>0 DEF LogType
      <4> QED
        BY <1>5, <4>1, <4>2
    <3>2. CASE ~ended
      <4> DEFINE f == Front(log) \o <<Torn>>
                 t == Tail(b)
      <4>0. t \in Seq(Lines) /\ Len(t) = 3 /\ t[3] = b[4]
        BY <1>5, TailOfFour
      <4>1. log' = f \o t
        BY <2>1, <3>2 DEF InPlace
      <4>2. f \in Seq(Lines)
        <5>1. Front(log) \in Seq(Lines)
          <6>1. Len(log) \in Nat /\ \A i \in 1..Len(log) - 1 : log[i] \in Lines
            BY <1>0 DEF LogType
          <6> QED
            BY <6>1, SubSeqProperties, 1 \in Int, Len(log) - 1 \in Int DEF Front
        <5>2. <<Torn>> \in Seq(Lines)
          BY DEF Lines
        <5> QED
          BY <5>1, <5>2, ConcatProperties
      <4> HIDE DEF f, t
      <4>3. Len(t) > 0 /\ t[Len(t)] = b[4]
        BY <4>0
      <4> QED
        BY <4>0, <4>1, <4>2, <4>3
    <3> QED
      BY <3>1, <3>2
  <2>3. /\ Len(first) \in Nat /\ Len(rest) \in Nat /\ Len(log') = Len(first) + Len(rest)
        /\ log'[Len(first) + Len(rest)] = b[4]
    <3>1. /\ Len(first \o rest) = Len(first) + Len(rest)
          /\ \A i \in 1..Len(first) + Len(rest) :
               (first \o rest)[i] = IF i <= Len(first) THEN first[i] ELSE rest[i - Len(first)]
      BY ConcatProperties
    <3> QED
      BY <2>2, <3>1
  <2> QED
    BY <1>3, <2>2, <2>3 DEF b
<1> QED
  BY <1>1, <1>4, <1>6, <1>7

(***************************************************************************)
(* Whole batches.                                                          *)
(***************************************************************************)

(* A batch that is there stays whole.                                      *)
LEMMA WholeStays ==
  ASSUME NEW lines \in Seq(Lines), NEW new \in Seq(Lines), NEW t, NEW u,
         Extends(new, lines, t), u \/ ~t \/ Len(new) > Len(lines),
         NEW i \in DOMAIN lines, WholeFrom(lines, i), t \/ i + 3 < Len(lines)
  PROVE  /\ WholeFrom(new, i) /\ (u \/ i + 3 < Len(new))
         /\ new[i] = lines[i] /\ new[i + 3] = lines[i + 3]
<1>1. /\ Len(lines) \in Nat /\ Len(new) \in Nat /\ Len(lines) <= Len(new)
      /\ DOMAIN lines = 1..Len(lines) /\ i \in 1..Len(lines) /\ i + 3 <= Len(lines)
  BY DEF Extends, WholeFrom
<1>2. ASSUME NEW k \in 1..4 PROVE new[i + k - 1] = lines[i + k - 1]
  <2>1. i + k - 1 \in 1..Len(lines) /\ (i + k - 1 < Len(lines) \/ t)
    BY <1>1
  <2> QED
    BY <1>1, <2>1 DEF Extends
<1>3. new[i] = lines[i] /\ new[i + 3] = lines[i + 3]
  <2>1. i + 1 - 1 = i /\ i + 4 - 1 = i + 3
    BY <1>1
  <2> QED
    BY <1>2, <2>1
<1>4. PICK to \in Phases : \A k \in 1..4 : lines[i + k - 1] = Batch(lines[i].phase, to)[k]
  BY DEF WholeFrom
<1>5. \A k \in 1..4 : new[i + k - 1] = Batch(new[i].phase, to)[k]
  BY <1>2, <1>3, <1>4
<1>6. WholeFrom(new, i)
  BY <1>1, <1>5 DEF WholeFrom
<1>7. u \/ i + 3 < Len(new)
  BY <1>1
<1> QED
  BY <1>3, <1>6, <1>7

(* What is added below the size limit belongs to no batch, or completes one. *)
LEMMA GrowsWhole ==
  ASSUME LogType, LogType', Batches(log, ended), NEW R, Grows(log', log, ended, R),
         ended' \/ ~ended \/ Len(log') > Len(log),
         \A i \in DOMAIN log' \ DOMAIN log :
           /\ Opens(log'[i]) => i > BigLog + 1
           /\ Closes(log'[i]) => i > BigLog + 3
  PROVE  Batches(log', ended')
<1> USE DEF Batches
<1>2. /\ Len(log) \in Nat /\ Len(log') \in Nat /\ Len(log) <= Len(log')
      /\ DOMAIN log = 1..Len(log) /\ DOMAIN log' = 1..Len(log')
  BY DEF LogType, Grows, Extends
<1>s. /\ log \in Seq(Lines) /\ log' \in Seq(Lines)
      /\ Extends(log', log, ended)
  BY DEF LogType, Grows
<1>1. ASSUME NEW i \in DOMAIN log, log'[i] # Torn
      PROVE  log'[i] = log[i]
  <2>1. i \in DOMAIN log'
    BY <1>2
  <2> QED
    BY <1>1, <2>1 DEF Grows
<1>3. ASSUME NEW i \in DOMAIN log', Opens(log'[i]), i <= BigLog + 1
      PROVE  WholeFrom(log', i) /\ (ended' \/ i + 3 < Len(log'))
  <2>1. i \in DOMAIN log
    BY <1>2, <1>3
  <2>2. Opens(log[i])
    BY <1>1, <1>3, <2>1 DEF Opens
  <2> QED
    BY <1>3, <2>1, <2>2, <1>s, WholeStays DEF Whole
<1>4. ASSUME NEW i \in DOMAIN log', Closes(log'[i]), i <= BigLog + 3
      PROVE  i > 3 /\ Opens(log'[i - 3]) /\ WholeFrom(log', i - 3)
  <2>1. i \in DOMAIN log
    BY <1>2, <1>4
  <2>2. Closes(log[i])
    BY <1>1, <1>4, <2>1 DEF Closes
  <2>3. i > 3 /\ Opens(log[i - 3])
    BY <1>4, <2>1, <2>2 DEF Whole
  <2>4. i - 3 \in DOMAIN log /\ i - 3 <= BigLog + 1
    BY <1>2, <1>4, <2>1, <2>3
  <2>5. WholeFrom(log, i - 3) /\ (ended \/ i - 3 + 3 < Len(log))
    BY <2>3, <2>4 DEF Whole
  <2>6. WholeFrom(log', i - 3) /\ log'[i - 3] = log[i - 3]
    BY <2>4, <2>5, <1>s, WholeStays
  <2> QED
    BY <2>3, <2>6 DEF Opens
<1>5. ASSUME NEW i \in DOMAIN log', Opens(log'[i]), i <= BigLog + 1
      PROVE  /\ i \in DOMAIN log /\ Opens(log[i])
             /\ log'[i] = log[i] /\ Entered(log', i) = Entered(log, i)
  <2>1. i \in DOMAIN log
    BY <1>2, <1>5
  <2>2. Opens(log[i])
    BY <1>1, <1>5, <2>1 DEF Opens
  <2>3. log'[i + 3] = log[i + 3]
    BY <1>5, <2>1, <2>2, <1>s, WholeStays DEF Whole
  <2> QED
    BY <1>1, <1>5, <2>1, <2>2, <2>3 DEF Opens, Entered
<1>6. ASSUME NEW k \in Nat, k > 0, k < Len(log) PROVE log'[k] = log[k]
  BY <1>2, <1>6 DEF Grows, Extends
<1>7. OncePerPassage(log')
  <2> SUFFICES ASSUME NEW i \in DOMAIN log', NEW j \in DOMAIN log', i < j,
                      Opens(log'[i]), Opens(log'[j]), i <= BigLog + 1, j <= BigLog + 1,
                      log'[i] = log'[j], Entered(log', i) = Entered(log', j)
               PROVE  \E k \in (i + 4)..(j - 1) : Reopens(log'[k], log'[i].phase, Entered(log', i))
    BY DEF OncePerPassage
  <2>1. /\ i \in DOMAIN log /\ Opens(log[i]) /\ log'[i] = log[i] /\ Entered(log', i) = Entered(log, i)
        /\ j \in DOMAIN log /\ Opens(log[j]) /\ log'[j] = log[j] /\ Entered(log', j) = Entered(log, j)
    BY <1>5
  <2>2. PICK k \in (i + 4)..(j - 1) : Reopens(log[k], log[i].phase, Entered(log, i))
    BY <2>1 DEF OncePerPassage
  <2>3. log'[k] = log[k]
    BY <1>2, <1>6, <2>1
  <2> QED
    BY <2>1, <2>2, <2>3
<1> QED
  BY <1>3, <1>4, <1>7 DEF Whole

(* So does what is added not take back that a transition was left behind.    *)
LEMMA GrowsReopened ==
  ASSUME LogType, LogType', Batches(log, ended), NEW R, Grows(log', log, ended, R),
         NEW from, NEW to, Reopened(log, from, to),
         \A i \in DOMAIN log' \ DOMAIN log : Opens(log'[i]) => i > BigLog + 1
  PROVE  Reopened(log', from, to)
<1>1. /\ Len(log) \in Nat /\ Len(log') \in Nat /\ Len(log) <= Len(log')
      /\ DOMAIN log = 1..Len(log) /\ DOMAIN log' = 1..Len(log')
      /\ Extends(log', log, ended)
  BY DEF LogType, Grows, Extends
<1> SUFFICES ASSUME NEW i \in DOMAIN log', Opens(log'[i]), i <= BigLog + 1,
                    log'[i].phase = from, Entered(log', i) = to
             PROVE  \E k \in (i + 4)..Len(log') : Reopens(log'[k], from, to)
  BY DEF Reopened
<1>2. i \in DOMAIN log /\ log'[i] = log[i]
  <2>1. i \in DOMAIN log /\ log'[i] # Torn
    BY <1>1 DEF Opens
  <2> QED
    BY <2>1 DEF Grows
<1>3. WholeFrom(log, i) /\ (ended \/ i + 3 < Len(log))
  BY <1>2 DEF Batches, Whole
<1>4. log'[i + 3] = log[i + 3]
  <2>1. i + 3 <= Len(log) /\ i \in 1..Len(log)
    BY <1>1, <1>2, <1>3 DEF WholeFrom
  <2>2. i + 3 \in DOMAIN log /\ (i + 3 < Len(log) \/ ended)
    BY <1>1, <1>3, <2>1
  <2> QED
    BY <1>1, <2>2 DEF Extends
<1>5. PICK k \in (i + 4)..Len(log) : Reopens(log[k], from, to)
  BY <1>2, <1>4 DEF Reopened, Entered
<1>6. k \in DOMAIN log /\ k \in (i + 4)..Len(log')
  BY <1>1
<1>7. log'[k] = log[k] \/ log'[k] = Torn
  BY <1>1, <1>6 DEF Grows
<1> QED
  BY <1>5, <1>6, <1>7 DEF Reopens

LEMMA RecordWhole ==
  ASSUME LogType, Batches(log, ended), NEW r \in Record, AppendEvent(r) \/ CutAppend(r),
         r.event # "phase_end", r.detail # "entered"
  PROVE  /\ Batches(log', ended')
         /\ \A from, to : Reopened(log, from, to) => Reopened(log', from, to)
<1>1. r \in Lines /\ Torn \in Lines
  BY DEF Lines
<1>2. LogType' /\ Grows(log', log, ended, {r}) /\ (ended' \/ ~ended \/ Len(log') > Len(log))
  <2>1. CASE AppendEvent(r)
    BY <1>1, <2>1, AppendEventGrows DEF LogType
  <2>2. CASE CutAppend(r)
    <3>1. /\ log' \in Seq(Lines) /\ log' # <<>> /\ ended' = FALSE
          /\ ended => Len(log') = Len(log) + 1
          /\ Grows(log', log, ended, {r})
      BY <1>1, <2>2, CutAppendGrows DEF LogType
    <3>2. ended => Len(log') > Len(log)
      <4>1. Len(log) + 1 > Len(log)
        BY DEF LogType
      <4> QED
        BY <3>1, <4>1
    <3> QED
      BY <3>1, <3>2 DEF LogType
  <2> QED
    BY <2>1, <2>2
<1>3. ASSUME NEW i \in DOMAIN log' \ DOMAIN log PROVE log'[i] = r \/ log'[i] = Torn
  BY <1>2, <1>3 DEF Grows
<1>4. \A i \in DOMAIN log' \ DOMAIN log : ~Opens(log'[i]) /\ ~Closes(log'[i])
  BY <1>3 DEF Opens, Closes
<1> QED
  BY <1>2, <1>4, GrowsWhole, GrowsReopened

\* The lines of a batch that is written in place, the last one perhaps cut
Part(new, b) ==
  /\ new \in Seq(Lines) /\ new # <<>>
  /\ DOMAIN new \subseteq 1..4
  /\ \A k \in DOMAIN new : new[k] = b[k] \/ new[k] = Torn

(* Above the size limit nothing is promised of what is added.               *)
LEMMA PartWhole ==
  ASSUME LogType, Batches(log, ended), Oversized, NEW from \in Phases, NEW to \in Phases,
         NEW new, Part(new, Batch(from, to)),
         log' = InPlace(log, ended, new), ended' \in BOOLEAN
  PROVE  Batches(log', ended')
<1> DEFINE b == Batch(from, to)
           R == {b[k] : k \in 1..4}
<1>1. /\ \A k \in 1..3 : b[k].detail # "entered"
      /\ Torn \in Lines
  BY BatchIs DEF Lines
<1> HIDE DEF b
<1>2. new \in Seq(Lines) /\ new # <<>> /\ DOMAIN new \subseteq 1..4
      /\ \A k \in DOMAIN new : new[k] \in R \cup {Torn}
  BY DEF Part, b
<1> HIDE DEF R
<1>3. /\ log' \in Seq(Lines) /\ log' # <<>> /\ Grows(log', log, ended, R)
      /\ ended => Len(log') = Len(log) + Len(new)
  BY <1>1, <1>2, InPlaceGrows DEF LogType
<1>4. /\ Len(log) \in Nat /\ Len(log') \in Nat /\ Len(new) \in Nat /\ Len(new) > 0
      /\ DOMAIN log = 1..Len(log) /\ DOMAIN log' = 1..Len(log')
      /\ Len(log) > BigLog
  BY <1>2, <1>3 DEF LogType, Oversized
<1>5. AddedFrom(log', log, new)
  BY <1>1, <1>2, InPlaceAdds DEF LogType
<1>6. ASSUME NEW i \in DOMAIN log' \ DOMAIN log
      PROVE  /\ Opens(log'[i]) => i > BigLog + 1
             /\ Closes(log'[i]) => i > BigLog + 3
  <2>1. i \in Nat /\ i > Len(log)
    BY <1>4
  <2>2. PICK k \in DOMAIN new : k <= i - Len(log) + 1 /\ log'[i] = new[k]
    BY <1>5, <2>1 DEF AddedFrom
  <2>3. ASSUME i <= BigLog + 3 PROVE ~Closes(log'[i])
    <3>1. k \in 1..3
      BY <1>2, <1>4, <2>1, <2>2, <2>3
    <3>2. log'[i] = b[k] \/ log'[i] = Torn
      BY <2>2 DEF Part, b
    <3> QED
      BY <1>1, <3>1, <3>2 DEF Closes
  <2>4. i > BigLog + 1
    BY <1>4, <2>1
  <2>5. i > BigLog + 3 \/ i <= BigLog + 3
    BY <2>1
  <2> QED
    BY <2>3, <2>4, <2>5
<1>7. LogType' /\ (ended' \/ ~ended \/ Len(log') > Len(log))
  <2>1. Len(log) + Len(new) > Len(log)
    BY <1>4
  <2>2. ended => Len(log') > Len(log)
    BY <1>3, <2>1
  <2>3. LogType'
    BY <1>3 DEF LogType
  <2> QED
    BY <2>2, <2>3
<1> QED
  BY <1>3, <1>6, <1>7, GrowsWhole

LEMMA BatchInPlaceWhole ==
  ASSUME LogType, Batches(log, ended), Oversized, NEW from \in Phases, NEW to \in Phases,
         AppendBatchInPlace(Batch(from, to)) \/ CutBatch(Batch(from, to))
  PROVE  Batches(log', ended')
<1> DEFINE b == Batch(from, to)
<1>1. /\ b \in Seq(Lines) /\ Len(b) = 4 /\ b # <<>> /\ DOMAIN b = 1..4
      /\ \A k \in 1..4 : b[k] \in Lines
      /\ Torn \in Lines
  <2>1. b \in Seq(Lines) /\ Len(b) = 4 /\ b # <<>> /\ DOMAIN b = 1..4
    BY BatchIs
  <2> HIDE DEF b
  <2>2. ASSUME NEW k \in 1..4 PROVE b[k] \in Lines
    BY <2>1, ElementOfSeq
  <2> QED
    BY <2>1, <2>2 DEF Lines
<1> HIDE DEF b
<1>2. CASE AppendBatchInPlace(b)
  <2>1. Part(b, b)
    BY <1>1 DEF Part
  <2> QED
    BY <1>2, <2>1, PartWhole DEF AppendBatchInPlace, b
<1>3. CASE CutBatch(b)
  <2> PICK n \in 1..Len(b) : \E line \in {b[n], Torn} :
        /\ log' = InPlace(log, ended, SubSeq(b, 1, n - 1) \o <<line>>)
        /\ ended' = FALSE
    BY <1>3 DEF CutBatch
  <2> PICK line \in {b[n], Torn} :
        /\ log' = InPlace(log, ended, SubSeq(b, 1, n - 1) \o <<line>>)
        /\ ended' = FALSE
    OBVIOUS
  <2> DEFINE first == SubSeq(b, 1, n - 1)
             new == first \o <<line>>
  <2>0. n \in 1..4 /\ line \in Lines
    BY <1>1
  <2>1. /\ first \in Seq(Lines) /\ Len(first) = n - 1
        /\ \A k \in 1..n - 1 : first[k] = b[k]
    <3>1. \A k \in 1..n - 1 : b[k] \in Lines
      BY <1>1, <2>0
    <3> QED
      BY <2>0, <3>1, SubSeqProperties, 1 \in Int, n - 1 \in Int
  <2> HIDE DEF first
  <2>2. <<line>> \in Seq(Lines) /\ Len(<<line>>) = 1 /\ <<line>>[1] = line
    BY <2>0
  <2>3. /\ new \in Seq(Lines) /\ Len(new) = n
        /\ \A k \in 1..n - 1 + 1 :
             new[k] = IF k <= n - 1 THEN first[k] ELSE <<line>>[k - (n - 1)]
    BY <2>0, <2>1, <2>2, ConcatProperties
  <2> HIDE DEF new
  <2>4. DOMAIN new = 1..n /\ new # <<>>
    BY <2>0, <2>3
  <2>5. ASSUME NEW k \in DOMAIN new PROVE new[k] = b[k] \/ new[k] = Torn
    <3>1. CASE k <= n - 1
      BY <2>0, <2>1, <2>3, <2>4, <3>1
    <3>2. CASE k = n
      BY <2>0, <2>2, <2>3, <2>4, <3>2
    <3> QED
      BY <2>0, <2>4, <3>1, <3>2
  <2>6. Part(new, b)
    BY <2>0, <2>3, <2>4, <2>5 DEF Part
  <2>7. log' = InPlace(log, ended, new) /\ ended' \in BOOLEAN
    BY DEF new, first
  <2> QED
    BY <2>6, <2>7, PartWhole DEF b
<1> QED
  BY <1>2, <1>3 DEF b

(* A gate that finds the batch not logged finds every older batch of the       *)
(* transition left behind: the workflow went back or on.                     *)
LEMMA NotLoggedIsReopened ==
  ASSUME LogType, Batches(log, ended), NEW from \in Phases, NEW to \in Phases,
         ~AlreadyLogged(from, to)
  PROVE  Reopened(log, from, to)
<1> DEFINE n == Len(log)
<1> SUFFICES ASSUME NEW i \in DOMAIN log, Opens(log[i]), i <= BigLog + 1,
                    log[i].phase = from, Entered(log, i) = to
             PROVE  \E k \in (i + 4)..n : Reopens(log[k], from, to)
  BY DEF Reopened
<1> DEFINE T == {m \in (i + 3)..n : IsStart(log[m]) /\ log[m].phase = to}
<1>z. WholeFrom(log, i) /\ n = Len(log) /\ DOMAIN log = 1..n /\ n \in Nat
  BY DEF Whole, Batches, LogType
<1>1. /\ i \in Nat /\ i + 3 <= n
      /\ \E q \in Phases : \A k \in 1..4 : log[i + k - 1] = Batch(log[i].phase, q)[k]
  BY <1>z DEF WholeFrom
<1>2. i + 3 \in T
  <2>1. PICK q \in Phases : \A k \in 1..4 : log[i + k - 1] = Batch(log[i].phase, q)[k]
    BY <1>1
  <2>2. log[i + 3] = Rec("phase_start", q, "entered")
    <3>1. i + 4 - 1 = i + 3
      BY <1>1
    <3>2. Batch(log[i].phase, q)[4] = Rec("phase_start", q, "entered")
      BY DEF Batch
    <3> QED
      BY <2>1, <3>1, <3>2
  <2>3. log[i + 3] \in Record
    <3> DEFINE s == Batch(from, q)
    <3>1. s \in Seq(Record) /\ Len(s) = 4 /\ s[4] = log[i + 3]
      BY <2>2, BatchIs
    <3> HIDE DEF s
    <3>2. 4 \in 1..Len(s)
      BY <3>1
    <3>3. s[4] \in Record
      BY <3>1, <3>2, ElementOfSeq
    <3> QED
      BY <3>1, <3>3
  <2>4. IsStart(log[i + 3])
    BY <2>2, <2>3 DEF IsStart, Rec
  <2> QED
    BY <1>1, <2>4 DEF Entered
<1>3. T \in SUBSET (0..n) /\ T # {}
  BY <1>1, <1>2
<1>4. PICK m \in T : \A l \in T : l <= m
  <2> HIDE DEF T, n
  <2> QED
    BY <1>z, <1>3, HasGreatest
<1>5. m \in DOMAIN log /\ m \in Nat /\ i + 3 <= m
  BY <1>z, <1>1
<1>6. PICK k \in (m + 1)..n :
        /\ log[k] # Torn
        /\ \/ log[k].event = "phase_start"
           \/ log[k].event \in FlowEvents /\ log[k].phase = from
  BY <1>4, <1>5 DEF AlreadyLogged
<1>7. k \in (i + 4)..n /\ k \in (i + 3)..n /\ ~(k <= m)
  BY <1>1, <1>5
<1>8. log[k].event = "phase_start" => log[k].phase # to
  BY <1>4, <1>6, <1>7 DEF IsStart
<1> QED
  BY <1>6, <1>7, <1>8 DEF Reopens

(* What a batch makes of the lines that were read.                         *)
LEMMA Replaced ==
  ASSUME held \in Seq(Lines), NEW from \in Phases, NEW to \in Phases,
         ReplaceWith(held, Batch(from, to))
  PROVE  /\ log' \in Seq(Lines) /\ ended' = TRUE
         /\ Len(log') = Len(held) + 4 /\ DOMAIN log' = 1..(Len(held) + 4)
         /\ \A i \in 1..Len(held) : log'[i] = held[i]
         /\ \A k \in 1..4 : log'[Len(held) + k] = Batch(from, to)[k]
<1> DEFINE b == Batch(from, to)
           n == Len(held)
<1>1. b \in Seq(Lines) /\ Len(b) = 4
  BY BatchIs
<1>2. log' = held \o b /\ ended' = TRUE
  BY DEF ReplaceWith
<1> HIDE DEF b
<1>3. /\ held \o b \in Seq(Lines) /\ Len(held \o b) = Len(held) + Len(b)
      /\ \A i \in 1..Len(held) + Len(b) :
           (held \o b)[i] = IF i <= Len(held) THEN held[i] ELSE b[i - Len(held)]
  BY <1>1, ConcatProperties
<1>4. n \in Nat /\ n = Len(held)
  OBVIOUS
<1> HIDE DEF n
<1>5. /\ log' \in Seq(Lines) /\ Len(log') = n + 4
      /\ \A i \in 1..n + 4 : log'[i] = IF i <= n THEN held[i] ELSE b[i - n]
  BY <1>1, <1>2, <1>3, <1>4
<1>6. ASSUME NEW k \in 1..4 PROVE log'[n + k] = b[k]
  <2> DEFINE i == n + k
  <2>1. i \in 1..n + 4 /\ ~(i <= n) /\ i - n = k
    BY <1>4
  <2> HIDE DEF i
  <2>2. log'[i] = b[i - n]
    BY <1>5, <2>1
  <2> QED
    BY <2>1, <2>2 DEF i
<1>7. \A i \in 1..n : log'[i] = held[i]
  BY <1>4, <1>5
<1>8. DOMAIN log' = 1..(n + 4)
  BY <1>5
<1> QED
  BY <1>2, <1>4, <1>5, <1>6, <1>7, <1>8 DEF b

(* A batch behind what was read is whole, and no other is touched.           *)
LEMMA ReplaceWhole ==
  ASSUME held \in Seq(Lines), NEW from \in Phases, NEW to \in Phases,
         Batches(held, TRUE), Reopened(held, from, to),
         NEW n \in Nat, n = Len(held),
         ReplaceWith(held, Batch(from, to))
  PROVE  Batches(log', ended')
<1> USE DEF Batches
<1> DEFINE b == Batch(from, to)
<1>1. /\ b \in Seq(Lines) /\ Len(b) = 4 /\ DOMAIN b = 1..4
      /\ \A k \in 1..3 : b[k].detail # "entered"
      /\ \A k \in 2..4 : b[k].event # "phase_end"
      /\ b[1].event = "phase_end" /\ b[1].phase = from
  BY BatchIs
<1>2. b[1] # Torn
  <2>1. b \in Seq(Record) /\ 1 \in 1..Len(b)
    BY BatchIs
  <2> HIDE DEF b
  <2>2. b[1] \in Record
    BY <2>1, ElementOfSeq
  <2> QED
    BY <2>2
<1>3. log' \in Seq(Lines) /\ ended' = TRUE
  BY Replaced
<1>w. \A k \in 1..4 : b[k] = Batch(from, to)[k]
  OBVIOUS
<1> HIDE DEF b
<1>4. n \in Nat /\ DOMAIN held = 1..n /\ held \in Seq(Lines)
  OBVIOUS
<1>6. \A k \in 1..4 : log'[n + k] = b[k]
  BY <1>w, Replaced
<1>5. /\ Len(log') = n + 4 /\ DOMAIN log' = 1..n + 4
      /\ \A i \in 1..n + 4 : log'[i] = IF i <= n THEN held[i] ELSE b[i - n]
  <2>1. /\ Len(log') = n + 4 /\ DOMAIN log' = 1..n + 4
        /\ \A i \in 1..n : log'[i] = held[i]
    BY Replaced
  <2>2. ASSUME NEW i \in 1..n + 4, ~(i <= n) PROVE log'[i] = b[i - n]
    <3>1. i - n \in 1..4 /\ n + (i - n) = i
      BY <1>4, <2>2
    <3> QED
      BY <1>6, <3>1
  <2> QED
    BY <1>4, <2>1, <2>2
<1>7. log'[n + 1] = b[1]
  BY <1>6
<1>8. Extends(log', held, TRUE) /\ log' \in Seq(Lines)
  BY <1>3, <1>4, <1>5 DEF Extends
\* The new batch
<1>9. Opens(log'[n + 1]) /\ WholeFrom(log', n + 1)
  <2>1. log'[n + 1].phase = from /\ log'[n + 1].event = "phase_end" /\ log'[n + 1] # Torn
    BY <1>1, <1>2, <1>7
  <2>2. ASSUME NEW k \in 1..4
        PROVE  log'[n + 1 + k - 1] = Batch(log'[n + 1].phase, to)[k]
    <3>1. n + 1 + k - 1 = n + k
      BY <1>4
    <3> QED
      BY <1>6, <1>w, <2>1, <3>1
  <2>3. n + 1 + 3 <= Len(log')
    BY <1>4, <1>5
  <2> QED
    BY <2>1, <2>2, <2>3 DEF Opens, WholeFrom
<1>10. ASSUME NEW i \in DOMAIN log', ~(i <= n)
       PROVE  /\ Opens(log'[i]) => i = n + 1
              /\ Closes(log'[i]) => i = n + 4
  <2>1. i - n \in 1..4 /\ log'[i] = b[i - n] /\ i \in Nat
    BY <1>4, <1>5, <1>10
  <2>2. Opens(log'[i]) => i - n \notin 2..4
    BY <1>1, <2>1 DEF Opens
  <2>3. Closes(log'[i]) => i - n \notin 1..3
    BY <1>1, <2>1 DEF Closes
  <2> QED
    BY <1>4, <2>1, <2>2, <2>3
<1>11. ASSUME NEW i \in DOMAIN log', i <= n
       PROVE  i \in DOMAIN held /\ log'[i] = held[i]
  BY <1>4, <1>5, <1>11
<1>12. ASSUME NEW i \in DOMAIN log', Opens(log'[i]), i <= BigLog + 1
       PROVE  WholeFrom(log', i) /\ (ended' \/ i + 3 < Len(log'))
  <2>1. CASE i <= n
    <3>1. i \in DOMAIN held /\ Opens(held[i])
      BY <1>11, <1>12, <2>1 DEF Opens
    <3>2. WholeFrom(held, i)
      BY <1>12, <3>1 DEF Whole
    <3> QED
      BY <1>3, <1>8, <3>1, <3>2, WholeStays
  <2>2. CASE ~(i <= n)
    BY <1>3, <1>9, <1>10, <1>12, <2>2
  <2> QED
    BY <2>1, <2>2
<1>13. ASSUME NEW i \in DOMAIN log', Closes(log'[i]), i <= BigLog + 3
       PROVE  i > 3 /\ Opens(log'[i - 3]) /\ WholeFrom(log', i - 3)
  <2>1. CASE i <= n
    <3>1. i \in DOMAIN held /\ Closes(held[i])
      BY <1>11, <1>13, <2>1 DEF Closes
    <3>2. i > 3 /\ Opens(held[i - 3]) /\ i \in Nat
      BY <1>4, <1>13, <3>1 DEF Whole
    <3>3. i - 3 \in DOMAIN held /\ i - 3 <= BigLog + 1
      BY <1>4, <1>13, <3>1, <3>2
    <3>4. WholeFrom(held, i - 3)
      BY <3>2, <3>3 DEF Whole
    <3>5. WholeFrom(log', i - 3) /\ log'[i - 3] = held[i - 3]
      <4> DEFINE k == i - 3
      <4>1. k \in DOMAIN held /\ WholeFrom(held, k)
        BY <3>3, <3>4
      <4> HIDE DEF k
      <4>2. WholeFrom(log', k) /\ log'[k] = held[k]
        <5>1. TRUE \/ ~TRUE \/ Len(log') > Len(held)
          OBVIOUS
        <5>2. TRUE \/ k + 3 < Len(held)
          OBVIOUS
        <5>3. /\ WholeFrom(log', k) /\ (TRUE \/ k + 3 < Len(log'))
              /\ log'[k] = held[k] /\ log'[k + 3] = held[k + 3]
          BY <1>8, <4>1, <5>1, <5>2, WholeStays
        <5> QED
          BY <5>3
      <4> QED
        BY <4>2 DEF k
    <3> QED
      BY <3>2, <3>5 DEF Opens
  <2>2. CASE ~(i <= n)
    <3>1. i = n + 4
      BY <1>10, <1>13, <2>2
    <3>2. i - 3 = n + 1 /\ i > 3
      BY <1>4, <3>1
    <3> QED
      BY <1>9, <3>2
  <2> QED
    BY <2>1, <2>2
<1>14. Entered(log', n + 1) = to
  <2>1. n + 1 + 3 = n + 4 /\ log'[n + 4] = b[4] /\ b[4] = Batch(from, to)[4]
    BY <1>4, <1>6, <1>w
  <2> QED
    BY <2>1 DEF Entered, Batch, Rec
<1>15. log'[n + 1].phase = from
  BY <1>1, <1>7
<1>17. ASSUME NEW i \in DOMAIN log', Opens(log'[i]), i <= BigLog + 1, i <= n
       PROVE  /\ i \in DOMAIN held /\ Opens(held[i]) /\ log'[i] = held[i]
              /\ Entered(log', i) = Entered(held, i)
  <2>1. i \in DOMAIN held /\ log'[i] = held[i] /\ Opens(held[i])
    BY <1>11, <1>17 DEF Opens
  <2>2. i \in Nat /\ i + 3 <= n
    BY <1>4, <1>17, <2>1 DEF Whole, WholeFrom
  <2>3. log'[i + 3] = held[i + 3]
    BY <1>4, <1>5, <2>2
  <2> QED
    BY <2>1, <2>3 DEF Entered
<1>18. OncePerPassage(log')
  <2> SUFFICES ASSUME NEW i \in DOMAIN log', NEW j \in DOMAIN log', i < j,
                      Opens(log'[i]), Opens(log'[j]), i <= BigLog + 1, j <= BigLog + 1,
                      log'[i] = log'[j], Entered(log', i) = Entered(log', j)
               PROVE  \E k \in (i + 4)..(j - 1) : Reopens(log'[k], log'[i].phase, Entered(log', i))
    BY DEF OncePerPassage
  <2>0. i \in 1..n + 4 /\ j \in 1..n + 4
    BY <1>5
  <2>1. CASE j <= n
    <3>1. i <= n
      BY <1>4, <2>0, <2>1
    <3>2. PICK k \in (i + 4)..(j - 1) : Reopens(held[k], held[i].phase, Entered(held, i))
      BY <1>17, <2>1, <3>1 DEF OncePerPassage
    <3>3. log'[k] = held[k]
      BY <1>4, <1>5, <2>0, <2>1
    <3> QED
      BY <1>17, <3>1, <3>2, <3>3
  <2>2. CASE ~(j <= n)
    <3>1. j = n + 1 /\ i <= n
      BY <1>4, <1>10, <2>0, <2>2
    <3>2. held[i].phase = from /\ Entered(held, i) = to /\ i \in DOMAIN held /\ Opens(held[i])
      BY <1>14, <1>15, <1>17, <3>1
    <3>3. PICK k \in (i + 4)..n : Reopens(held[k], from, to)
      BY <3>2 DEF Reopened
    <3>4. k \in (i + 4)..(j - 1) /\ log'[k] = held[k]
      BY <1>4, <1>5, <2>0, <3>1
    <3> QED
      BY <1>17, <3>1, <3>2, <3>3, <3>4
  <2> QED
    BY <2>1, <2>2
<1> QED
  BY <1>12, <1>13, <1>18 DEF Whole

LEMMA OtherEventIs ==
  ASSUME NEW r \in OtherRecords
  PROVE  r.event # "phase_end" /\ r.detail # "entered"
<1>1. \/ \E e \in OtherEvents \cap FlowEvents, p \in Phases : r = Rec(e, p, "other")
      \/ \E e \in OtherEvents \ FlowEvents : r = Rec(e, NoPhase, "other")
  BY DEF OtherRecords
<1> QED
  BY <1>1 DEF Rec

LEMMA AuditEventIs ==
  \A p, c : /\ Audit(p, c).event # "phase_end"
            /\ c # "entered" => Audit(p, c).detail # "entered"
BY DEF Audit, Rec

(* Whoever writes or dies, batches are whole below the size limit.           *)
LEMMA StepWhole ==
  ASSUME Inv, [Next]_vars, Copied, Batches(log, ended)
  PROVE  Batches(log', ended')
<1> USE DEF Inv
<1>0. LogType
  BY RunIs
<1>u. ASSUME UNCHANGED logVars PROVE Batches(log', ended')
  BY <1>u DEF logVars
<1>1. CASE Begin \/ Pass \/ Unavailable \/ Stop \/ SkipBatch \/ CheckBatch \/ AskSize
           \/ ReadLog \/ Hygiene \/ Archive
           \/ Rewrite \/ Learn \/ UNCHANGED vars
  BY <1>1, <1>u
  DEF Begin, Pass, Unavailable, Stop, SkipBatch, CheckBatch, AskSize, ReadLog, Hygiene,
      Archive, Rewrite, Learn, vars, logVars
<1>2. ASSUME NEW c \in Caveats, Waivable(c),
             AppendEvent(Audit(run.from, c)) \/ CutAppend(Audit(run.from, c))
      PROVE  Batches(log', ended')
  <2>1. Audit(run.from, c) \in Record
    BY <1>2, RunIs, AuditIs
  <2>2. c # "entered"
    BY DEF Caveats
  <2>3. Audit(run.from, c).event # "phase_end" /\ Audit(run.from, c).detail # "entered"
    BY <2>2, AuditEventIs
  <2> QED
    BY <1>0, <1>2, <2>1, <2>3, RecordWhole
<1>3. ASSUME NEW c \in Caveats, Waive(c) \/ WaiveUnrecorded(c) PROVE Batches(log', ended')
  BY <1>2, <1>3, <1>u DEF Waive, WaiveUnrecorded, LogAuditOnce
<1>4. CASE SkillTimesOut
  <2>1. Audit(NoPhase, "timed out") \in Record
    BY AuditIs
  <2>2. /\ Audit(NoPhase, "timed out").event # "phase_end"
        /\ Audit(NoPhase, "timed out").detail # "entered"
    BY AuditEventIs
  <2> QED
    BY <1>0, <1>4, <2>1, <2>2, RecordWhole DEF SkillTimesOut
<1>5. CASE ReplaceLog
  <2>1. run.from \in Phases /\ run.to \in Phases
    BY <1>5, RunIs DEF ReplaceLog, Goto
  <2>2. /\ ReplaceWith(held, Batch(run.from, run.to))
        /\ Batches(held, TRUE) /\ Reopened(held, run.from, run.to)
    BY <1>5 DEF ReplaceLog, Goto, Copied, HeldGood
  <2>3. held \in Seq(Lines) /\ Len(held) \in Nat
    BY DEF TypeOK, Lines
  <2> QED
    BY <2>1, <2>2, <2>3, ReplaceWhole
<1>6. ASSUME pc = "append",
             \/ AppendBatchInPlace(Batch(run.from, run.to))
             \/ CutBatch(Batch(run.from, run.to))
      PROVE  Batches(log', ended')
  <2>1. run.from \in Phases /\ run.to \in Phases /\ Oversized
    BY <1>6, RunIs DEF Run
  <2> QED
    BY <1>0, <1>6, <2>1, BatchInPlaceWhole
<1>7. CASE AppendLog
  BY <1>6, <1>7 DEF AppendLog, Goto
<1>8. CASE BatchFails
  BY <1>6, <1>8, <1>u DEF BatchFails
<1>9. ASSUME pc # "idle",
             \/ AppendEvent(Audit(run.to, "compacted"))
             \/ CutAppend(Audit(run.to, "compacted"))
      PROVE  Batches(log', ended')
  <2>1. Audit(run.to, "compacted") \in Record
    BY <1>9, RunIs, AuditIs
  <2>2. /\ Audit(run.to, "compacted").event # "phase_end"
        /\ Audit(run.to, "compacted").detail # "entered"
    BY AuditEventIs
  <2> QED
    BY <1>0, <1>9, <2>1, <2>2, RecordWhole
<1>10. CASE AuditCompaction
  BY <1>9, <1>10, <1>u DEF AuditCompaction
<1>11. CASE Crash
  <2>1. pc # "idle"
    BY <1>11 DEF Crash
  <2> QED
    BY <1>2, <1>6, <1>9, <1>11, <1>u, <2>1 DEF Crash
<1>12. ASSUME NEW r \in OtherRecords, OtherAppends(r) \/ OtherIsCut(r)
       PROVE  Batches(log', ended')
  <2>1. r \in Record
    BY OtherIs
  <2> QED
    BY <1>0, <1>12, <2>1, OtherEventIs, RecordWhole DEF OtherAppends, OtherIsCut
<1> QED
  BY <1>1, <1>3, <1>4, <1>5, <1>7, <1>8, <1>10, <1>11, <1>12 DEF Next

(***************************************************************************)
(* What a command remembers of a file it read.                             *)
(***************************************************************************)

(* Between the gate's look at the log and the batch the others write lines   *)
(* that open no batch.                                                     *)
LEMMA StepChecked ==
  ASSUME Inv, [Next]_vars, Checked, Batches(log, ended)
  PROVE  Checked'
<1> USE DEF Inv
<1>0. LogType
  BY RunIs
<1> SUFFICES ASSUME pc' \in {"size", "read"} PROVE Reopened(log', run'.from, run'.to)
  BY DEF Checked
<1>1. CASE CheckBatch
  <2>1. run.from \in Phases /\ run.to \in Phases
    BY <1>1, RunIs DEF CheckBatch, Goto
  <2>2. Reopened(log, run.from, run.to)
    BY <1>0, <1>1, <2>1, NotLoggedIsReopened DEF CheckBatch
  <2> QED
    BY <1>1, <2>2 DEF CheckBatch
<1>2. CASE AskSize \/ Learn \/ UNCHANGED vars
  BY <1>2 DEF AskSize, Goto, Learn, vars, Checked
<1>3. ASSUME NEW r \in OtherRecords, OtherAppends(r) \/ OtherIsCut(r)
      PROVE  Reopened(log', run'.from, run'.to)
  <2>1. r \in Record /\ r.event # "phase_end" /\ r.detail # "entered"
    BY OtherIs, OtherEventIs
  <2>2. /\ run' = run /\ pc' = pc
        /\ AppendEvent(r) \/ CutAppend(r)
    BY <1>3 DEF OtherAppends, OtherIsCut
  <2>3. Reopened(log, run.from, run.to)
    BY <2>2 DEF Checked
  <2> QED
    BY <1>0, <2>1, <2>2, <2>3, RecordWhole
<1>4. ASSUME NEW c \in Caveats, Waive(c) \/ WaiveUnrecorded(c) PROVE FALSE
  BY <1>4 DEF Waive, WaiveUnrecorded, Waivable, After
<1>5. CASE Begin \/ Pass \/ Unavailable \/ Stop \/ SkillTimesOut \/ SkipBatch \/ ReadLog
           \/ ReplaceLog \/ AppendLog \/ BatchFails \/ Hygiene \/ Archive \/ Rewrite
           \/ AuditCompaction \/ Crash
  BY <1>5
  DEF Begin, Pass, Unavailable, Stop, SkillTimesOut, SkipBatch, ReadLog, ReplaceLog,
      AppendLog, BatchFails, Hygiene, Archive, Rewrite, AuditCompaction, Crash, Ends,
      Goto
<1> QED
  BY <1>1, <1>2, <1>3, <1>4, <1>5 DEF Next

(* What was read stays in the log, or is torn, while others write, and is a  *)
(* log in order as it was when it was read.                                *)
LEMMA StepCopied ==
  ASSUME Inv, [Next]_vars, Checked, Batches(log, ended), AuditsOnce, WaiversOnRecord,
         Copied
  PROVE  Copied'
<1> USE DEF Inv
<1>0. LogType /\ held \in Seq(Lines)
  BY RunIs DEF TypeOK, Lines
<1> SUFFICES ASSUME pc' = "replace" PROVE HeldStands' /\ HeldGood'
  BY DEF Copied
<1>1. CASE ReadLog
  <2>1. /\ held' = log /\ log' = log /\ run' = run /\ waived' = waived
        /\ faults' = faults /\ pc = "read"
    BY <1>1 DEF ReadLog, Goto
  <2>2. Len(log) <= Len(log)
    BY <1>0 DEF LogType
  <2>3. HeldStands'
    BY <2>1, <2>2 DEF HeldStands
  <2>4. Batches(log, TRUE) /\ Reopened(log, run.from, run.to) /\ Once(log)
    BY <2>1 DEF Batches, Whole, Checked, AuditsOnce
  <2>5. faults = 0 => \A c \in waived \ {"unavailable"} : Noted(log, Audit(run.from, c))
    BY DEF WaiversOnRecord, Recorded, Noted
  <2> QED
    BY <2>1, <2>3, <2>4, <2>5 DEF HeldGood, Audit, Rec
<1>s. ASSUME pc = "replace", held' = held, run' = run, waived' = waived,
             faults' = 0 => faults = 0, Len(log) <= Len(log'),
             \A i \in DOMAIN log : log'[i] = log[i] \/ log'[i] = Torn
      PROVE  HeldStands' /\ HeldGood'
  <2>1. HeldStands /\ HeldGood
    BY <1>s DEF Copied
  <2>2. /\ Len(held) \in Nat /\ Len(log) \in Nat /\ Len(log') \in Nat
        /\ DOMAIN held = 1..Len(held) /\ DOMAIN log = 1..Len(log)
    <3>1. TypeOK'
      BY StepInv
    <3> QED
      BY <1>0, <3>1 DEF LogType, TypeOK
  <2>3. HeldStands'
    <3>1. ASSUME NEW i \in DOMAIN held PROVE log'[i] = held[i] \/ log'[i] = Torn
      <4>1. i \in DOMAIN log /\ (log[i] = held[i] \/ log[i] = Torn)
        BY <2>1, <2>2 DEF HeldStands
      <4> QED
        BY <1>s, <4>1
    <3> QED
      BY <1>s, <2>1, <2>2, <3>1 DEF HeldStands
  <2>4. HeldGood'
    BY <1>s, <2>1 DEF HeldGood, Audit, Rec
  <2> QED
    BY <2>3, <2>4
<1>2. CASE Learn \/ UNCHANGED vars
  <2>1. Len(log) <= Len(log)
    BY <1>0 DEF LogType
  <2> QED
    BY <1>2, <1>s, <2>1 DEF Learn, vars
<1>3. ASSUME NEW r \in OtherRecords, OtherAppends(r) \/ OtherIsCut(r)
      PROVE  HeldStands' /\ HeldGood'
  <2>1. /\ pc' = pc /\ held' = held /\ run' = run /\ waived' = waived
    BY <1>3 DEF OtherAppends, OtherIsCut
  <2>2. faults' = 0 => faults = 0
    BY FaultStep
  <2>3. /\ Len(log) <= Len(log')
        /\ \A i \in DOMAIN log : log'[i] = log[i] \/ log'[i] = Torn
    <3>1. ~ReplaceLog
      BY <1>3 DEF OtherAppends, OtherIsCut, OtherStep, ReplaceLog, TypeOK
    <3>2. LogType' /\ Adds
      BY <3>1, LogStep
    <3>3. PICK R : Grows(log', log, ended, R)
      BY <3>2 DEF Adds
    <3>4. DOMAIN log = 1..Len(log) /\ DOMAIN log' = 1..Len(log') /\ Len(log) <= Len(log')
          /\ Len(log) \in Nat /\ Len(log') \in Nat
      BY <1>0, <3>2, <3>3 DEF LogType, Grows, Extends
    <3> QED
      BY <3>3, <3>4 DEF Grows
  <2> QED
    BY <1>s, <2>1, <2>2, <2>3
<1>4. ASSUME NEW c \in Caveats, Waive(c) \/ WaiveUnrecorded(c) PROVE FALSE
  BY <1>4 DEF Waive, WaiveUnrecorded, Waivable, After
<1>5. CASE Begin \/ Pass \/ Unavailable \/ Stop \/ SkillTimesOut \/ SkipBatch
           \/ CheckBatch \/ AskSize \/ ReplaceLog \/ AppendLog \/ BatchFails \/ Hygiene
           \/ Archive \/ Rewrite \/ AuditCompaction \/ Crash
  BY <1>5
  DEF Begin, Pass, Unavailable, Stop, SkillTimesOut, SkipBatch, CheckBatch, AskSize,
      ReplaceLog, AppendLog, BatchFails, Hygiene, Archive, Rewrite, AuditCompaction,
      Crash, Ends, Goto
<1> QED
  BY <1>1, <1>2, <1>3, <1>4, <1>5 DEF Next

LEMMA ArchivedIs ==
  ASSUME NEW entries, archive \in Seq(SUBSET Nat), entries \in SUBSET Nat,
         archive' = Append(archive, entries)
  PROVE  Archived' = Archived \cup entries
<1>1. /\ Len(archive) \in Nat /\ DOMAIN archive = 1..Len(archive)
      /\ DOMAIN archive' = 1..(Len(archive) + 1)
      /\ \A i \in 1..Len(archive) : archive'[i] = archive[i]
      /\ archive'[Len(archive) + 1] = entries
  OBVIOUS
<1>2. Range(archive') = Range(archive) \cup {entries}
  BY <1>1 DEF Range
<1> QED
  BY <1>2 DEF Archived

(* A compaction's draft stays in the instruction file until it is replaced.  *)
LEMMA StepDrafted ==
  ASSUME Inv, [Next]_vars, Drafted
  PROVE  Drafted'
<1> USE DEF Inv
<1>1. CASE Begin \/ Pass \/ Unavailable \/ Stop \/ SkillTimesOut \/ SkipBatch
           \/ CheckBatch \/ AskSize \/ ReadLog \/ ReplaceLog \/ AppendLog \/ BatchFails
           \/ AuditCompaction \/ Crash
  BY <1>1
  DEF Begin, Pass, Unavailable, Stop, SkillTimesOut, SkipBatch, CheckBatch, AskSize,
      ReadLog, ReplaceLog, AppendLog, BatchFails, AuditCompaction, Crash, Ends, Goto,
      Drafted
<1>2. CASE Hygiene
  BY <1>2 DEF Hygiene, Ends, Drafted
<1>3. CASE Archive
  <2>1. draft \ Kept(draft) \in SUBSET Nat /\ archive \in Seq(SUBSET Nat)
    BY DraftIsNumbers DEF TypeOK
  <2>2. Archived' = Archived \cup (draft \ Kept(draft))
    BY <1>3, <2>1, ArchivedIs DEF Archive
  <2>3. /\ pc = "archive" /\ pc' = "rewrite" /\ draft' = draft /\ registry' = registry
        /\ late' = late
    BY <1>3 DEF Archive, Goto
  <2>4. Kept(draft)' = Kept(draft)
    BY <2>3 DEF Kept
  <2> QED
    BY <2>2, <2>3, <2>4 DEF Drafted
<1>4. CASE Rewrite
  BY <1>4 DEF Rewrite, Goto, Drafted
<1>5. ASSUME NEW c \in Caveats, Waive(c) \/ WaiveUnrecorded(c)
      PROVE  Drafted'
  BY <1>5 DEF Waive, WaiveUnrecorded, Waivable, After, Drafted
<1>6. ASSUME NEW r \in OtherRecords, OtherAppends(r) \/ OtherIsCut(r)
      PROVE  Drafted'
  BY <1>6 DEF OtherAppends, OtherIsCut, Drafted, Archived, Kept
<1>7. CASE Learn
  <2>1. /\ pc' = pc /\ draft' = draft /\ archive' = archive
        /\ registry' = registry \cup {learned + 1} /\ late \subseteq late'
        /\ pc \in {"archive", "rewrite"} => learned + 1 \in late'
    BY <1>7 DEF Learn
  <2> QED
    BY <2>1 DEF Drafted, Archived, Kept
<1>8. CASE UNCHANGED vars
  BY <1>8 DEF vars, Drafted, Archived, Kept
<1> QED
  BY <1>1, <1>2, <1>3, <1>4, <1>5, <1>6, <1>7, <1>8 DEF Next

(* A learning leaves the instruction file when the archive has it, or when   *)
(* the compaction that replaces the file never saw it.                       *)
LEMMA StepKept ==
  ASSUME Inv, [Next]_vars, Drafted, LearningsKept
  PROVE  LearningsKept'
<1> USE DEF Inv
<1>1. ASSUME UNCHANGED <<learned, registry, archive, late>>
      PROVE  LearningsKept'
  BY <1>1 DEF LearningsKept, Archived
<1>2. CASE Begin \/ Pass \/ Unavailable \/ Stop \/ SkillTimesOut \/ SkipBatch
           \/ CheckBatch \/ AskSize \/ ReadLog \/ ReplaceLog \/ AppendLog \/ BatchFails
           \/ Hygiene \/ AuditCompaction \/ Crash \/ UNCHANGED vars
  BY <1>1, <1>2
  DEF Begin, Pass, Unavailable, Stop, SkillTimesOut, SkipBatch, CheckBatch, AskSize,
      ReadLog, ReplaceLog, AppendLog, BatchFails, Hygiene, AuditCompaction, Crash, vars
<1>3. CASE Archive
  <2>1. draft \ Kept(draft) \in SUBSET Nat /\ archive \in Seq(SUBSET Nat)
    BY DraftIsNumbers DEF TypeOK
  <2>2. Archived' = Archived \cup (draft \ Kept(draft))
    BY <1>3, <2>1, ArchivedIs DEF Archive
  <2>3. registry' = registry /\ learned' = learned /\ late' = late
    BY <1>3 DEF Archive
  <2> QED
    BY <2>2, <2>3 DEF LearningsKept
<1>4. CASE Rewrite
  <2>1. /\ registry' = Kept(draft) /\ archive' = archive /\ learned' = learned
        /\ late' = late /\ registry \ draft \subseteq late
        /\ draft \ Kept(draft) \subseteq Archived
    BY <1>4 DEF Rewrite, Goto, Drafted
  <2>2. Archived' = Archived
    BY <2>1 DEF Archived
  <2> QED
    BY <2>1, <2>2 DEF LearningsKept
<1>5. CASE Learn
  <2>1. 1..learned + 1 \subseteq 1..learned \cup {learned + 1}
    BY DEF TypeOK
  <2>2. /\ learned' = learned + 1 /\ registry' = registry \cup {learned + 1}
        /\ archive' = archive /\ late \subseteq late'
    BY <1>5 DEF Learn
  <2> QED
    BY <2>1, <2>2 DEF LearningsKept, Archived
<1>6. ASSUME NEW c \in Caveats, Waive(c) \/ WaiveUnrecorded(c) PROVE LearningsKept'
  BY <1>1, <1>6 DEF Waive, WaiveUnrecorded
<1>7. ASSUME NEW r \in OtherRecords, OtherAppends(r) \/ OtherIsCut(r)
      PROVE  LearningsKept'
  BY <1>1, <1>7 DEF OtherAppends, OtherIsCut
<1> QED
  BY <1>2, <1>3, <1>4, <1>5, <1>6, <1>7 DEF Next

(* A caveat's record is in the log before the run goes on, and stays.        *)
LEMMA StepWaivers ==
  ASSUME Inv, [Next]_vars, Copied, WaiversOnRecord
  PROVE  WaiversOnRecord'
<1> SUFFICES ASSUME faults' = 0, NEW c \in waived' \ {"unavailable"}
             PROVE  Recorded(Audit(run.from, c))'
  BY DEF WaiversOnRecord
<1> USE DEF Inv
<1>0. /\ faults = 0 /\ ended = TRUE /\ LogType
      /\ waived \ {"unavailable"} \subseteq Caveats /\ c \in Caveats
  BY FaultStep, RunIs, StepInv DEF Run, TypeOK, Warnings
<1>a. ASSUME ~ReplaceLog PROVE Adds
  BY <1>a, LogStep
<1>1. ASSUME run' = run, c \in waived, ~ReplaceLog PROVE Recorded(Audit(run.from, c))'
  <2>1. Recorded(Audit(run.from, c))
    BY <1>0, <1>1 DEF WaiversOnRecord
  <2>2. pc # "idle"
    BY <1>1 DEF Run
  <2>3. Audit(run.from, c) \in Record
    BY <1>0, <1>1, <2>2, RunIs, AuditIs
  <2> QED
    BY <1>0, <1>1, <1>a, <2>1, <2>3, RecordedStep DEF Audit, Rec
<1>2. ASSUME NEW d \in Caveats, Waive(d) PROVE Recorded(Audit(run.from, c))'
  <2>1. run' = run /\ waived' = waived \cup {d} /\ ~ReplaceLog
    BY <1>2 DEF Waive, Waivable, ReplaceLog, Goto
  <2>2. CASE c \in waived
    BY <1>1, <2>1, <2>2
  <2>3. CASE c = d
    <3>1. CASE Recorded(Audit(run.from, c))
      <4>1. log' = log
        BY <1>2, <2>3, <3>1 DEF Waive, LogAuditOnce, logVars
      <4> QED
        BY <2>1, <3>1, <4>1 DEF Recorded, Audit
    <3>2. CASE ~Recorded(Audit(run.from, c))
      <4>1. AppendEvent(Audit(run.from, c))
        BY <1>2, <2>3, <3>2 DEF Waive, LogAuditOnce
      <4>2. Audit(run.from, c) \in Lines /\ Torn \in Lines
        BY <1>2, <2>3, RunIs, AuditIs DEF Waive, Lines
      <4>3. /\ log' \in Seq(Lines) /\ Len(log') = Len(log) + 1
            /\ log'[Len(log) + 1] = Audit(run.from, c)
        BY <1>0, <4>1, <4>2, AppendEventGrows DEF LogType
      <4>4. Len(log) + 1 \in DOMAIN log'
        BY <1>0, <4>3 DEF LogType
      <4> QED
        BY <2>1, <4>3, <4>4 DEF Recorded, Audit
    <3> QED
      BY <3>1, <3>2
  <2> QED
    BY <2>1, <2>2, <2>3
<1>3. CASE Begin
  BY <1>3 DEF Begin, Run
<1>4. CASE Stop \/ SkillTimesOut \/ BatchFails \/ AuditCompaction \/ Crash
  BY <1>4 DEF Stop, SkillTimesOut, BatchFails, AuditCompaction, Crash, Ends
<1>5. CASE ReplaceLog
  <2>1. /\ pc = "replace" /\ run' = run /\ waived' = waived
        /\ ReplaceWith(held, Batch(run.from, run.to))
    BY <1>5 DEF ReplaceLog, Goto
  <2>2. Noted(held, Audit(run.from, c))
    BY <1>0, <2>1 DEF Copied, HeldGood
  <2>3. held \in Seq(Lines) /\ run.from \in Phases /\ run.to \in Phases
    BY <2>1, RunIs DEF TypeOK, Lines
  <2>4. PICK i \in DOMAIN held : held[i] = Audit(run.from, c)
    BY <2>2 DEF Noted
  <2>5. i \in 1..Len(held) /\ Len(held) \in Nat
    BY <2>3
  <2>6. i \in DOMAIN log' /\ log'[i] = held[i]
    <3>1. DOMAIN log' = 1..(Len(held) + 4) /\ \A k \in 1..Len(held) : log'[k] = held[k]
      BY <2>1, <2>3, Replaced
    <3> QED
      BY <2>5, <3>1
  <2> QED
    BY <2>1, <2>4, <2>6 DEF Recorded, Audit
<1>6. CASE Pass \/ Unavailable \/ SkipBatch \/ CheckBatch \/ AskSize \/ ReadLog
           \/ AppendLog \/ Archive \/ Rewrite \/ Learn \/ UNCHANGED vars
  <2>1. run' = run /\ c \in waived
    BY <1>6
    DEF Pass, Unavailable, SkipBatch, CheckBatch, AskSize, ReadLog, AppendLog, Archive,
        Rewrite, Learn, vars
  <2> QED
    BY <1>1, <1>5, <2>1
<1>9. CASE Hygiene
  BY <1>1, <1>5, <1>9 DEF Hygiene, Ends
<1>7. ASSUME NEW d \in Caveats, WaiveUnrecorded(d) PROVE FALSE
  BY <1>0, <1>7 DEF WaiveUnrecorded, Fault, TypeOK
<1>8. ASSUME NEW r \in OtherRecords, OtherAppends(r) \/ OtherIsCut(r)
      PROVE  Recorded(Audit(run.from, c))'
  BY <1>1, <1>5, <1>8 DEF OtherAppends, OtherIsCut
<1> QED
  BY <1>2, <1>3, <1>4, <1>5, <1>6, <1>7, <1>8, <1>9 DEF Next

(* A step adds no caveat that is there, and none twice.                     *)
LEMMA GrowsOnce ==
  ASSUME Inv, [Next]_vars, AuditsOnce, ~ReplaceLog
  PROVE  Once(log')
<1>0. LogType /\ LogType' /\ Adds
  BY RunIs, LogStep DEF Inv
<1>1. /\ Len(log) \in Nat /\ Len(log') \in Nat /\ Len(log) <= Len(log')
      /\ DOMAIN log = 1..Len(log) /\ DOMAIN log' = 1..Len(log')
  BY <1>0 DEF LogType, Adds, Grows, Extends
<1> SUFFICES ASSUME NEW i \in DOMAIN log', NEW j \in DOMAIN log',
                    log'[i] = log'[j], log'[i] # Torn, log'[i].detail \in Caveats
             PROVE  i = j
  BY DEF Once
<1> PICK R \in SUBSET Record :
      /\ Grows(log', log, ended, R)
      /\ \/ \A r \in R : r.detail \notin Caveats
         \/ \E r \in R : R = {r} /\ ~Recorded(r) /\ Len(log') <= Len(log) + 1
  BY <1>0 DEF Adds
<1>2. ASSUME NEW k \in DOMAIN log', log'[k] = log'[i]
      PROVE  \/ k \in DOMAIN log /\ log[k] = log'[i]
             \/ k \notin DOMAIN log /\ log'[i] \in R
  BY <1>2 DEF Grows
<1>3. CASE i \in DOMAIN log /\ j \in DOMAIN log
  BY <1>2, <1>3 DEF AuditsOnce, Once
<1>4. CASE i \notin DOMAIN log \/ j \notin DOMAIN log
  <2>1. log'[i] \in R
    BY <1>2, <1>4
  <2>2. /\ ~Recorded(log'[i]) /\ Len(log') <= Len(log) + 1
    BY <2>1
  <2>3. i \notin DOMAIN log /\ j \notin DOMAIN log
    BY <1>2, <2>2 DEF Recorded
  <2> QED
    BY <1>1, <2>2, <2>3
<1> QED
  BY <1>3, <1>4

LEMMA ReplaceOnce ==
  ASSUME held \in Seq(Lines), Once(held), NEW from \in Phases, NEW to \in Phases,
         ReplaceWith(held, Batch(from, to))
  PROVE  Once(log')
<1> DEFINE n == Len(held)
<1>0. n \in Nat /\ DOMAIN held = 1..n
  OBVIOUS
<1>1. /\ DOMAIN log' = 1..(n + 4) /\ n \in Nat /\ DOMAIN held = 1..n
      /\ \A i \in 1..n : log'[i] = held[i]
      /\ \A k \in 1..4 : log'[n + k] = Batch(from, to)[k]
  BY <1>0, Replaced
<1>2. \A k \in 1..4 : Batch(from, to)[k].detail \notin Caveats
  BY BatchIs
<1> HIDE DEF n
<1>3. ASSUME NEW i \in DOMAIN log', log'[i].detail \in Caveats
      PROVE  i \in DOMAIN held /\ log'[i] = held[i]
  <2>1. CASE i <= n
    BY <1>1, <2>1
  <2>2. CASE ~(i <= n)
    <3>1. i - n \in 1..4 /\ n + (i - n) = i
      BY <1>1, <2>2
    <3>2. log'[i] = Batch(from, to)[i - n]
      BY <1>1, <3>1
    <3> QED
      BY <1>2, <1>3, <3>1, <3>2
  <2> QED
    BY <2>1, <2>2
<1> QED
  BY <1>3 DEF Once

LEMMA StepOnce ==
  ASSUME Inv, [Next]_vars, Copied, AuditsOnce
  PROVE  AuditsOnce'
<1>1. CASE ReplaceLog
  <2>1. /\ ReplaceWith(held, Batch(run.from, run.to)) /\ Once(held)
        /\ run.from \in Phases /\ run.to \in Phases
    BY <1>1, RunIs DEF ReplaceLog, Goto, Copied, HeldGood, Inv
  <2>2. held \in Seq(Lines)
    BY DEF Inv, TypeOK, Lines
  <2> QED
    BY <2>1, <2>2, ReplaceOnce DEF AuditsOnce
<1>2. CASE ~ReplaceLog
  BY <1>2, GrowsOnce DEF AuditsOnce
<1> QED
  BY <1>1, <1>2

(* Only a batch loses lines, and none of those that were read.               *)
LEMMA StepLost ==
  ASSUME Inv, [Next]_vars, Copied, NEW i \in DOMAIN log,
         log[i] # Torn, i < Len(log) \/ ended, ~(i \in DOMAIN log' /\ log'[i] = log[i])
  PROVE  pc = "replace" /\ i > Len(held)
<1> USE DEF Inv
<1>1. ReplaceLog
  <2> SUFFICES ASSUME ~ReplaceLog PROVE FALSE
    OBVIOUS
  <2>1. LogType /\ LogType' /\ Adds
    BY RunIs, LogStep
  <2>2. Extends(log', log, ended)
    BY <2>1 DEF Adds, Grows
  <2> QED
    BY <2>1, <2>2 DEF LogType, Extends
<1>2. /\ pc = "replace" /\ ReplaceWith(held, Batch(run.from, run.to)) /\ HeldStands
      /\ run.from \in Phases /\ run.to \in Phases /\ held \in Seq(Lines) /\ LogType
  BY <1>1, RunIs DEF ReplaceLog, Goto, Copied, TypeOK, Lines
<1>3. i \in Nat /\ i >= 1 /\ Len(held) \in Nat /\ DOMAIN held = 1..Len(held)
  BY <1>2 DEF LogType
<1>4. ASSUME i <= Len(held) PROVE FALSE
  <2>1. i \in DOMAIN held
    BY <1>3, <1>4
  <2>2. log[i] = held[i]
    BY <1>2, <2>1 DEF HeldStands
  <2>3. DOMAIN log' = 1..(Len(held) + 4) /\ \A k \in 1..Len(held) : log'[k] = held[k]
    BY <1>2, Replaced
  <2>4. i \in DOMAIN log' /\ log'[i] = held[i]
    BY <1>3, <1>4, <2>3
  <2> QED
    BY <2>2, <2>4
<1> QED
  BY <1>2, <1>3, <1>4

(***************************************************************************)
(* The theorems.                                                           *)
(***************************************************************************)

(* The invariant.                                                          *)
THEOREM Invariance == Spec => [](Inv /\ LogInv /\ LearnInv)
<1>1. Inv /\ LogInv /\ LearnInv /\ [Next]_vars => (Inv /\ LogInv /\ LearnInv)'
  <2> SUFFICES ASSUME Inv, LogInv, LearnInv, [Next]_vars
               PROVE  Inv' /\ LogInv' /\ LearnInv'
    OBVIOUS
  <2>1. Inv'
    BY StepInv
  <2>2. LogInv'
    BY StepWhole, StepOnce, StepWaivers, StepChecked, StepCopied DEF LogInv
  <2>3. LearnInv'
    BY StepDrafted, StepKept DEF LearnInv
  <2> QED
    BY <2>1, <2>2, <2>3
<1> QED
  BY <1>1, InitInv, PTL DEF Spec

(* Every variable has its type.                                            *)
THEOREM TypesHold == Spec => []TypeOK
<1>1. Inv => TypeOK
  BY DEF Inv
<1> QED
  BY <1>1, Invariance, PTL

(* No learning is lost, wherever a compaction dies, but one that was added   *)
(* between a compaction's reading the instruction file and its replacing it. *)
THEOREM NoLearningIsLost == Spec => []LearningsKept
<1>1. LearnInv => LearningsKept
  BY DEF LearnInv
<1> QED
  BY <1>1, Invariance, PTL

(* A run that was let through has the record of it, unless a write failed,   *)
(* whoever writes to the log meanwhile.                                     *)
THEOREM WaiversAreOnRecord == Spec => []WaiversOnRecord
<1>1. LogInv => WaiversOnRecord
  BY DEF LogInv
<1> QED
  BY <1>1, Invariance, PTL

(* No run writes a record of a caveat again.                                *)
THEOREM AuditsAreOnce == Spec => []AuditsOnce
<1>1. LogInv => AuditsOnce
  BY DEF LogInv
<1> QED
  BY <1>1, Invariance, PTL

(* A transition's records are in the log all together or not at all, as long *)
(* as the log is not over its size limit.                                   *)
THEOREM BatchesAreWhole == Spec => []BatchesWhole
<1>1. LogInv => BatchesWhole
  BY DEF LogInv, Batches, Whole, BatchesWhole
<1> QED
  BY <1>1, Invariance, PTL

(* Under the same limit a transition that is run again is logged again only  *)
(* after the workflow went back or on.                                      *)
THEOREM TransitionsAreLoggedOnce == Spec => []OneBatchPerPassage
<1>1. LogInv => OneBatchPerPassage
  BY DEF LogInv, Batches, OneBatchPerPassage
<1> QED
  BY <1>1, Invariance, PTL

(* Whoever writes and dies, a line of the log goes only when a batch         *)
(* replaces the log, and only one that came after append_batch had read it.  *)
THEOREM OnlyLateLinesAreLost == Spec => OnlyLateLinesLost
<1> DEFINE Lost ==
      \A i \in DOMAIN log :
        /\ log[i] # Torn /\ (i < Len(log) \/ ended)
        /\ ~(i \in DOMAIN log' /\ log'[i] = log[i])
        => pc = "replace" /\ i > Len(held)
<1>1. Inv /\ LogInv /\ [Next]_vars => [Lost]_vars
  BY StepLost DEF LogInv
<1> QED
  BY <1>1, Invariance, PTL DEF Spec, OnlyLateLinesLost

(* Whoever writes meanwhile, a run that is past the event-batch gate leaves a *)
(* log in which the workflow is in the target phase.                        *)
THEOREM TheTransitionIsLogged == Spec => PastTheGateIsLogged
<1>1. Inv /\ [Next]_vars =>
        [pc' = "hygiene" /\ pc # "hygiene" => StandsIn(run.from, run.to)']_vars
  BY StepPast
<1> QED
  BY <1>1, Invariance, PTL DEF Spec, PastTheGateIsLogged

=============================================================================
