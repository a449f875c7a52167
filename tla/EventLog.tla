----------------------------- MODULE EventLog -----------------------------
(***************************************************************************)
(* docs/EVENT-LOG.jsonl: one file of lines, one record per line, written   *)
(* by every command, hook and session of a project, without a lock.        *)
(*                                                                         *)
(* A single record is appended in place; a writer that dies in the middle  *)
(* leaves a last line without its newline.  A batch reads the file, and    *)
(* replaces it by a copy that ends with the batch, unless the file is over *)
(* its size limit: then the batch, too, is appended in place.  Readers     *)
(* skip the lines that are not a record.                                   *)
(*                                                                         *)
(* The module gives the operations on the file; who performs them, and     *)
(* when, is up to the modules that extend it.                              *)
(***************************************************************************)
EXTENDS Naturals, Sequences, SequencesExt

CONSTANTS
  Torn,   \* a line that is not a record
  BigLog  \* the number of lines above which the log is over its size limit

ASSUME EventLogAssumption == BigLog \in Nat

VARIABLES
  log,   \* the lines
  ended  \* the last line has its newline

logVars == <<log, ended>>

Rec(event, phase, detail) == [event |-> event, phase |-> phase, detail |-> detail]

\* Written behind a line without a newline, the first of the new lines becomes
\* part of it, and neither can be read again.
InPlace(lines, terminated, new) ==
  IF terminated THEN lines \o new ELSE Front(lines) \o <<Torn>> \o Tail(new)

AppendEvent(r) ==
  /\ log' = InPlace(log, ended, <<r>>)
  /\ ended' = TRUE

\* The writer dies, or the disk is full, in the middle of the write: within the
\* record, or before the newline only.
CutAppend(r) ==
  /\ \E line \in {r, Torn} : log' = InPlace(log, ended, <<line>>)
  /\ ended' = FALSE

Oversized == Len(log) > BigLog

\* The copy terminates a last line that has no newline.
ReplaceWith(lines, batch) ==
  /\ log' = lines \o batch
  /\ ended' = TRUE

AppendBatchInPlace(batch) ==
  /\ log' = InPlace(log, ended, batch)
  /\ ended' = TRUE

\* Part of an oversized batch: some of its lines, the last one perhaps cut.
CutBatch(batch) ==
  \E n \in 1..Len(batch) : \E line \in {batch[n], Torn} :
    /\ log' = InPlace(log, ended, SubSeq(batch, 1, n - 1) \o <<line>>)
    /\ ended' = FALSE

Recorded(r) == \E i \in DOMAIN log : log[i] = r

\* Every record that is in the file stays where it is; only a last line without
\* its newline can still change.
Extends(new, old, terminated) ==
  /\ Len(old) <= Len(new)
  /\ \A i \in DOMAIN old : (i < Len(old) \/ terminated) => new[i] = old[i]

=============================================================================
