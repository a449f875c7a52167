-------------------------- MODULE MCKgTransaction --------------------------
(* Small instances of KgTransaction for TLC. *)
EXTENDS KgTransaction, TLC

CONSTANTS a, b, c, t

\* Two contents that share their title, so a rewrite removes a quad it adds.
MCContents == {[title |-> t, status |-> "todo"], [title |-> t, status |-> "done"]}

MCTargetSets == {{}, {b}}

\* One entity after the other, each in the order of build_entity_quads.
MCPosition ==
  LET entity == (a :> 0) @@ (b :> 10) @@ (c :> 20)
      slot == [type |-> 1, title |-> 2, content_hash |-> 3, task_status |-> 4, edge |-> 5]
  IN  [q \in Quads |-> entity[q[1]] + slot[q[2]]]
=============================================================================
