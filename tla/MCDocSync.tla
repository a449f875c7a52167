----------------------------- MODULE MCDocSync -----------------------------
(* Small instances of DocSync. *)
EXTENDS DocSync, TLC

CONSTANTS A, B, x, y, d1, d2

Symmetry == Permutations(Docs)

MCRank == [a \in Anchors |-> IF a = A THEN 0 ELSE 1]

Lines(status, form, sequence) ==
  [status |-> status, form |-> form,
   blocks |-> {[anchor |-> sequence[i][1], body |-> sequence[i][2], at |-> i - 1]
                 : i \in 1..Cardinality(DOMAIN sequence)}]

\* A file, the file with its sections moved, and one that revises a section and
\* repeats the heading of the other.
Plain    == Lines("draft", "canon", << <<A, x>>, <<B, x>> >>)
Moved    == Lines("draft", "loose", << <<B, x>>, <<A, x>> >>)
Repeated == Lines("draft", "canon", << <<A, y>>, <<B, x>>, <<A, x>> >>)

MovedTexts == {Plain, Moved, Repeated}

\* One heading: an approved document and a draft.
Approved == Lines("approved", "canon", << <<A, x>> >>)
Revised  == Lines("draft", "loose", << <<A, y>> >>)

BatchTexts == {Approved, Revised}

=============================================================================
