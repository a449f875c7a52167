---------------------------- MODULE DocStructure ----------------------------
(***************************************************************************)
(* How one Markdown document becomes graph nodes and becomes text again.   *)
(*                                                                         *)
(* A text is its frontmatter status, its whitespace form and its level-2   *)
(* blocks, each at an index.  Blocks are level-2 tiles: a deeper heading   *)
(* is part of the body of the tile that embeds it.  In the graph a         *)
(* document is a Document node and one Section node per anchor.  The store *)
(* is written quad by quad, so a node is the quads that are there: a kill  *)
(* leaves a part of it.                                                    *)
(*                                                                         *)
(* Ingest and write-doc absorb a text with Extract and Upsert; the export  *)
(* renders the sections in the order of their stored positions.  A text    *)
(* whose headings repeat, or that only moves unchanged sections, does not  *)
(* come back from the graph as it went in.                                 *)
(***************************************************************************)
EXTENDS Integers, FiniteSets

CONSTANTS
  Anchors,     \* level-2 headings
  Bodies,      \* narrative bodies of a section
  Statuses,    \* frontmatter status values
  AnchorRank   \* the store's order among sections with equal positions

\* What stands for a quad that is not there.
NoBody == "none"
NoStatus == "none"
NoPos == -1

ASSUME StructureAssumption ==
  /\ IsFiniteSet(Anchors)
  /\ NoBody \notin Bodies /\ NoStatus \notin Statuses
  /\ AnchorRank \in [Anchors -> Nat]
  /\ \A a, b \in Anchors : AnchorRank[a] = AnchorRank[b] => a = b

-----------------------------------------------------------------------------
(* Texts *)

\* "canon" is the exporter's whitespace, "loose" any other.
Forms == {"canon", "loose"}

Block == [anchor : Anchors, body : Bodies, at : Nat]

\* The blocks of `blocks` under heading a.
Under(blocks, a) == {k \in blocks : k.anchor = a}

\* k is the first of the blocks that carry its heading.
IsFirst(blocks, k) ==
  /\ k \in blocks
  /\ \A j \in Under(blocks, k.anchor) : k.at <= j.at

BlockSet ==
  {blocks \in SUBSET Block :
     \A k \in blocks : \E j \in blocks :
       j.anchor = k.anchor /\ IsFirst(blocks, j)}

\* A text without frontmatter has no status.
Text == [status : Statuses \cup {NoStatus}, form : Forms, blocks : BlockSet]

\* The first n blocks of t.
Prefix(t, n) == [t EXCEPT !.blocks = {k \in @ : k.at < n}]

\* content_equivalent: equal up to canonical whitespace.
Equivalent(s, t) == s.status = t.status /\ s.blocks = t.blocks

-----------------------------------------------------------------------------
(* Section nodes.  A node is its quads: the content hash (of the body), the  *)
(* body with its level, the position with the source_doc written before it,  *)
(* and the part_of_document that attaches it.                                *)

Section == [hash : Bodies \cup {NoBody}, body : Bodies \cup {NoBody},
            pos : Nat \cup {NoPos}, part : BOOLEAN]

NoSection == [hash |-> NoBody, body |-> NoBody, pos |-> NoPos, part |-> FALSE]

Sections == [Anchors -> Section]

NoSections == [a \in Anchors |-> NoSection]

SectionNode(body, pos) == [hash |-> body, body |-> body, pos |-> pos, part |-> TRUE]

\* Sections attached to the document, and those of them that are rendered.
Attached(secs) == {a \in Anchors : secs[a].part}
Stored(secs) == {a \in Attached(secs) : secs[a].body # NoBody}

\* What is left of s while its quads are removed one by one, in any order.
SectionRemnants(s) ==
  [hash : {s.hash, NoBody}, body : {s.body, NoBody}, pos : {s.pos, NoPos},
   part : {s.part, FALSE}]

\* What is there of s while its quads are added, in the order of
\* build_section_quads: body, content hash, position, part_of_document.
SectionBeginnings(s) ==
  {NoSection, [NoSection EXCEPT !.body = s.body],
   [s EXCEPT !.pos = NoPos, !.part = FALSE], [s EXCEPT !.part = FALSE], s}

\* Sections taken from old to new one after another, with one of them cut.
CutSections(old, new) ==
  LET touched == {a \in Anchors : old[a] # new[a]} IN
  UNION {{[a \in Anchors |-> IF a = at THEN half ELSE IF a \in done THEN new[a] ELSE old[a]]
            : half \in SectionRemnants(old[at]) \cup SectionBeginnings(new[at]),
              done \in SUBSET touched}
         : at \in touched}

\* What old and new agree on: the sections that change are gone.
Bare(old, new) == [a \in Anchors |-> IF old[a] = new[a] THEN old[a] ELSE NoSection]

\* extract_structure keeps the first block under each heading and drops the
\* repeats; a section's position counts the sections kept before it.
FirstBlock(t, a) == CHOOSE k \in t.blocks : k.anchor = a /\ IsFirst(t.blocks, k)

Headings(t) == {a \in Anchors : Under(t.blocks, a) # {}}

Extract(t) ==
  [a \in Anchors |->
     IF a \notin Headings(t) THEN NoSection
     ELSE SectionNode(FirstBlock(t, a).body,
                      Cardinality({b \in Headings(t) :
                                     FirstBlock(t, b).at < FirstBlock(t, a).at}))]

\* A section whose stored content hash matches is skipped: it keeps the
\* position it has, and whatever else is there or missing.
UpsertSection(old, new) == IF old.hash = new.hash THEN old ELSE new

UpsertSections(secs, t) ==
  [a \in Anchors |->
     IF a \in Headings(t) THEN UpsertSection(secs[a], Extract(t)[a]) ELSE secs[a]]

\* Sections of the document that the text no longer has.
Stale(secs, t) == Attached(secs) \ Headings(t)

DropStale(secs, t) == [a \in Anchors |-> IF a \in Stale(secs, t) THEN NoSection ELSE secs[a]]

\* The document's sections after the whole text is absorbed.
Absorb(secs, t) == DropStale(UpsertSections(secs, t), t)

\* max(cf:position) + 1, or 0 for a document without positions.
IsNextPosition(secs, p) ==
  LET positions == {secs[a].pos : a \in Attached(secs)} \cup {NoPos}
  IN  p - 1 \in positions /\ \A q \in positions : q < p

\* add_section of one narrative: nothing for a hash that matches; an existing
\* section keeps its position, a new one takes position p.
PutNarrative(secs, a, body, p) ==
  IF secs[a].hash = body THEN secs
  ELSE [secs EXCEPT ![a] = SectionNode(body, IF @.pos = NoPos THEN p ELSE @.pos)]

-----------------------------------------------------------------------------
(* Rendering *)

\* A section without a position sorts before the others.
Before(secs, a, b) ==
  \/ secs[a].pos < secs[b].pos
  \/ secs[a].pos = secs[b].pos /\ AnchorRank[a] < AnchorRank[b]

RenderBlocks(secs) ==
  {[anchor |-> a,
    body   |-> secs[a].body,
    at     |-> Cardinality({b \in Stored(secs) : Before(secs, b, a)})]
     : a \in Stored(secs)}

Render(status, secs) ==
  [status |-> status, form |-> "canon", blocks |-> RenderBlocks(secs)]

=============================================================================
