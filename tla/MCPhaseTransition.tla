------------------------- MODULE MCPhaseTransition -------------------------
(* Small instances of PhaseTransition. *)
EXTENDS PhaseTransition, TLC

CONSTANTS p1, p2

Interchangeable == Permutations({p1, p2})

\* Stale dependencies stop a run; the later gates let it pass with a record, or
\* stop it all the same.
MCFlagSets == {Flags \ {"ack_stale_deps"}}
=============================================================================
