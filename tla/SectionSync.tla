----------------------------- MODULE SectionSync -----------------------------
(***************************************************************************)
(* Narrative writes to sections of one document at any heading depth.      *)
(*                                                                         *)
(* Every heading of a document is a section node.  A level-2 node, a tile, *)
(* carries its subsections in its body, and the export joins the tiles;    *)
(* the nodes of the subsections carry the same text once more.             *)
(* CascadeWriter keeps the two apart from diverging: a write is patched    *)
(* into the tile that encloses its heading, and the patched tile is cut    *)
(* into sections again.  The writes of a batch are planned one on top of   *)
(* the other, and flushed as one commit, which also takes over what the    *)
(* rewritten headings define, and removes what they no longer define.      *)
(* The commit is validated afterwards, and may be undone.                  *)
(*                                                                         *)
(* A body is a sequence of lines, the first its own heading.  Blank lines  *)
(* and code blocks are left out, and so is a heading of level 1.           *)
(***************************************************************************)
EXTENDS Naturals, FiniteSets, SequencesExt

CONSTANTS
  Anchors,       \* the texts of headings
  Texts,         \* lines that are not headings
  Entities,
  NoEntity,
  DefinedBy,     \* the entity that a heading defines, or NoEntity
  InitialTexts,  \* documents that were ingested
  Narratives,    \* the bodies one may write; the first line says where
  Tidy,          \* TRUE: headings are distinct, and new ones come where positions allow it
  MaxOps,        \* bound: operations of a batch
  MaxPosition    \* bound: positions at which a batch may still begin

Deepest == 4
NoTile == "none"

Heading(level, a) == [level |-> level, name |-> a]
Line(text) == [level |-> 0, name |-> text]

Lines == [level : {0}, name : Texts] \cup [level : 2..Deepest, name : Anchors]

Body == Seq(Lines)

ASSUME SectionAssumption ==
  /\ IsFiniteSet(Anchors) /\ NoTile \notin Anchors
  /\ DefinedBy \in [Anchors -> Entities \cup {NoEntity}] /\ NoEntity \notin Entities
  /\ \A b \in InitialTexts \cup Narratives : b \in Body /\ b # <<>> /\ b[1].level > 0
  /\ Tidy \in BOOLEAN /\ MaxOps \in Nat \ {0} /\ MaxPosition \in Nat

VARIABLES
  sections,  \* the section nodes
  entities,  \* the entities, each with the section it is defined in and its text
  pc,
  batch,     \* the operations of the command so far
  cascade,   \* its CascadeWriter
  outcome,   \* what its flush found in the store, for the undo
  before,    \* history: the graph that the command began with
  document   \* history: the document, with the writes of the batch so far

vars == <<sections, entities, pc, batch, cascade, outcome, before, document>>

NoSection == [level |-> 0, pos |-> 0, body |-> <<>>]
NoPlan == [level |-> 0, body |-> <<>>]
Nowhere == [home |-> "none", text |-> <<>>]

-----------------------------------------------------------------------------
(* Bodies *)

HeadingsOf(body) == {i \in DOMAIN body : body[i].level > 0}

\* heading_spans: up to the next heading that is not deeper.
SpanEnd(body, i) ==
  Min({j - 1 : j \in {k \in HeadingsOf(body) : k > i /\ body[k].level <= body[i].level}}
        \cup {Len(body)})

Slice(body, i) == SubSeq(body, i, SpanEnd(body, i))

\* The places below the first line where a occurs as a heading.
Places(body, a) == {i \in HeadingsOf(body) : i > 1 /\ body[i].name = a}

Embedded(body) == {body[i].name : i \in {k \in HeadingsOf(body) : k > 1}}

FirstSlice(body, a) == Slice(body, Min(Places(body, a)))

Replaced(body, i, new) ==
  SubSeq(body, 1, i - 1) \o new \o SubSeq(body, SpanEnd(body, i) + 1, Len(body))

-----------------------------------------------------------------------------
(* Section nodes *)

Stored(secs) == {a \in Anchors : secs[a] # NoSection}
Tiles(secs) == {a \in Stored(secs) : secs[a].level = 2}

\* The export joins the tiles in the order of their positions: the bodies, and which
\* of them come before which.
Export(secs) ==
  [body  |-> [t \in Tiles(secs) |-> secs[t].body],
   order |-> {p \in Tiles(secs) \X Tiles(secs) : secs[p[1]].pos < secs[p[2]].pos}]

\* extract_structure: a node for each heading, its position the number of nodes before.
Extracted(text) ==
  LET firsts == {i \in HeadingsOf(text) :
                   \A j \in HeadingsOf(text) : j < i => text[j].name # text[i].name}
      At(a) == CHOOSE i \in firsts : text[i].name = a
  IN  [a \in Anchors |->
         IF \E i \in firsts : text[i].name = a
         THEN [level |-> text[At(a)].level,
               pos   |-> Cardinality({i \in firsts : i < At(a)}),
               body  |-> Slice(text, At(a))]
         ELSE NoSection]

\* _within_tile: by position, behind the tile and before the next one.
Within(secs, a, tile) ==
  /\ tile \in Stored(secs)
  /\ secs[tile].pos < secs[a].pos
  /\ \A next \in Tiles(secs) :
       secs[tile].pos < secs[next].pos => secs[a].pos < secs[next].pos

\* Mutant: the sections are counted.
NextPositionByCount(secs) == Cardinality(Stored(secs))

NextPosition(secs) ==
  IF Stored(secs) = {} THEN 0 ELSE Max({secs[a].pos : a \in Stored(secs)}) + 1

-----------------------------------------------------------------------------
(* Planning *)

NoCascade ==
  [planned |-> [a \in Anchors |-> NoPlan], deletes |-> {},
   tileOf  |-> [a \in Anchors |-> NoTile]]

PlannedIn(c) == {a \in Anchors : c.planned[a] # NoPlan}

\* Mutant: only the tile is planned.
PlanTileOnly(c, tile, body) == [c EXCEPT !.planned[tile] = [level |-> 2, body |-> body]]

\* Mutant: what the tile embeds again stays marked for deletion.
PlanTileDeleting(c, tile, body) ==
  LET kids == {a \in Embedded(body) \ {tile} :
                 sections[a] = NoSection \/ Within(sections, a, tile)}
      members == {a \in Stored(sections) \ {tile} : Within(sections, a, tile)}
  IN  [planned |-> [a \in Anchors |->
                      IF a = tile THEN [level |-> 2, body |-> body]
                      ELSE IF a \in kids
                      THEN [level |-> body[Min(Places(body, a))].level, body |-> FirstSlice(body, a)]
                      ELSE IF a \in members \/ c.tileOf[a] = tile THEN NoPlan
                      ELSE c.planned[a]],
       deletes |-> c.deletes \cup (members \ kids),
       tileOf  |-> [a \in Anchors |-> IF a \in kids THEN tile
                                      ELSE IF a \in members \/ c.tileOf[a] = tile THEN NoTile
                                      ELSE c.tileOf[a]]]

\* _plan_tile: the tile, the sections it now consists of, and those that it no
\* longer embeds; a heading whose node lies in another tile stays with that tile.
PlanTile(c, tile, body) ==
  LET kids == {a \in Embedded(body) \ {tile} :
                 sections[a] = NoSection \/ Within(sections, a, tile)}
      members == {a \in Stored(sections) \ {tile} : Within(sections, a, tile)}
      removed == (members \cup {a \in Anchors \ {tile} : c.tileOf[a] = tile}) \ kids
      Plan(a) ==
        CASE a = tile ->
               [level |-> IF tile \in PlannedIn(c) THEN c.planned[tile].level ELSE 2,
                body  |-> body]
          [] a \in kids ->
               [level |-> body[Min(Places(body, a))].level, body |-> FirstSlice(body, a)]
          [] a \in removed -> NoPlan
          [] OTHER -> c.planned[a]
  IN  [planned |-> [a \in Anchors |-> Plan(a)],
       deletes |-> (c.deletes \cup removed) \ (kids \cup {tile}),
       tileOf  |-> [a \in Anchors |-> IF a \in kids THEN tile
                                      ELSE IF a \in removed THEN NoTile
                                      ELSE c.tileOf[a]]]

\* The level of a heading, as the batch has it so far; 0 for an unknown one.
LevelOf(c, a) == IF a \in PlannedIn(c) THEN c.planned[a].level ELSE sections[a].level

\* _enclosing_tile: as planned, or else the last tile not behind the section.
EnclosingTiles(c, a) ==
  IF c.tileOf[a] # NoTile THEN {c.tileOf[a]}
  ELSE LET upTo == {t \in Tiles(sections) : sections[t].pos <= sections[a].pos}
       IN  {t \in upTo : \A u \in upTo : sections[u].pos <= sections[t].pos}

TileBody(c, tile) ==
  IF tile \in PlannedIn(c) THEN c.planned[tile].body ELSE sections[tile].body

\* What a write comes to: a tile, and its body.  Whole tiles are taken as they are,
\* a new one if the heading is unknown; a deeper section is patched into the tile
\* that encloses it, unless that does not embed it.
Revisions(narrative) ==
  LET a == narrative[1].name
      level == LevelOf(cascade, a)
      enclosing == {t \in EnclosingTiles(cascade, a) : Places(TileBody(cascade, t), a) # {}}
  IN  IF level = 2 \/ (level = 0 /\ narrative[1].level = 2)
      THEN {[tile |-> a, body |-> narrative]}
      ELSE IF level = 0 THEN {}
      ELSE {[tile |-> t,
             body |-> LET old == TileBody(cascade, t)
                      IN  Replaced(old, Min(Places(old, a)), narrative)] : t \in enclosing}

\* The tiles as the batch has them so far.
CurrentTiles(c) ==
  {a \in Anchors : \/ a \in PlannedIn(c) /\ c.planned[a].level = 2
                   \/ a \notin PlannedIn(c) /\ a \in Tiles(sections)}

DefinedIn(body) == {DefinedBy[body[i].name] : i \in HeadingsOf(body)} \ {NoEntity}

\* Distinct headings, which define distinct entities, from one of level 2 on.
IsTidyText(text) ==
  /\ text[1].level = 2
  /\ \A i, j \in HeadingsOf(text) :
       i < j => /\ text[i].name # text[j].name
                /\ \/ DefinedBy[text[i].name] = NoEntity
                   \/ DefinedBy[text[i].name] # DefinedBy[text[j].name]

\* Deeper headings below the first, each of which has its node in this tile, or is
\* new in the last of the tiles; a new tile without any, and alone; and nothing that
\* another tile defines.
IsTidy(tile, body) ==
  /\ IsTidyText(body)
  /\ \A i \in HeadingsOf(body) : i > 1 => body[i].level > 2
  /\ \A a \in Embedded(body) :
       \/ Within(sections, a, tile)
       \/ /\ sections[a] = NoSection
          /\ tile \in Tiles(sections)
          /\ \A t \in CurrentTiles(cascade) :
               t \in Tiles(sections) /\ sections[t].pos <= sections[tile].pos
  /\ \/ tile \in Stored(sections)
     \/ PlannedIn(cascade) \subseteq Stored(sections) \cup {tile}
  /\ \A t \in CurrentTiles(cascade) \ {tile} :
       DefinedIn(TileBody(cascade, t)) \cap DefinedIn(body) = {}

-----------------------------------------------------------------------------
(* The commands: write-narrative, and transact with several writes *)

NoOutcome == [sections |-> <<>>, entities |-> <<>>]

Ends ==
  /\ pc' = "idle"
  /\ batch' = <<>> /\ cascade' = NoCascade /\ outcome' = NoOutcome
  /\ before' = [sections |-> sections', entities |-> entities']
  /\ document' = Export(sections')

Begin ==
  /\ pc = "idle"
  /\ NextPosition(sections) < MaxPosition
  /\ pc' = "writing"
  /\ UNCHANGED <<sections, entities, batch, cascade, outcome, before, document>>

\* One write, as a reader of the document sees it: it replaces a tile or a part of
\* one, or is a new tile behind the others.
Revised(doc, narrative) ==
  LET a == narrative[1].name
      tiles == DOMAIN doc.body
      embedding == {t \in tiles : Places(doc.body[t], a) # {}}
      Patched(body) == Replaced(body, Min(Places(body, a)), narrative)
  IN  IF a \notin tiles /\ embedding # {}
      THEN [doc EXCEPT !.body[CHOOSE t \in embedding : TRUE] = Patched(@)]
      ELSE [body  |-> [t \in tiles \cup {a} |-> IF t = a THEN narrative ELSE doc.body[t]],
            order |-> doc.order \cup (IF a \in tiles THEN {} ELSE tiles \X {a})]

\* The planned section is there after its tile was cut.
Lands(narrative, r) ==
  PlanTile(cascade, r.tile, r.body).planned[narrative[1].name] # NoPlan

Write(narrative) ==
  /\ pc = "writing" /\ Len(batch) < MaxOps
  /\ \E r \in Revisions(narrative) :
       /\ Tidy => IsTidy(r.tile, r.body)
       /\ Lands(narrative, r)
       /\ cascade' = PlanTile(cascade, r.tile, r.body)
  /\ batch' = Append(batch, narrative)
  /\ document' = Revised(document, narrative)
  /\ UNCHANGED <<sections, entities, pc, outcome, before>>

\* The write raises, and with it the command: nothing was staged yet.
Refuse(narrative) ==
  /\ pc = "writing" /\ Len(batch) < MaxOps
  /\ \A r \in Revisions(narrative) : ~Lands(narrative, r)
  /\ UNCHANGED <<sections, entities>>
  /\ Ends

-----------------------------------------------------------------------------
(* The flush *)

Cut == {a \in PlannedIn(cascade) : cascade.planned[a].level = 2}

\* Where the planned tiles define e: each of them is parsed on its own, and one of
\* them wins.
Definitions(e) ==
  UNION {LET body == cascade.planned[t].body
             at == {i \in HeadingsOf(body) : DefinedBy[body[i].name] = e}
         IN  IF at = {} THEN {}
             ELSE {[home |-> body[Min(at)].name, text |-> Slice(body, Min(at))]} : t \in Cut}

Fresh == {e \in Entities : Definitions(e) # {}}

\* Headings that more than one tile embeds say nothing of where an entity is.
Ambiguous ==
  {a \in Anchors :
     \E t, u \in CurrentTiles(cascade) \ {a} :
       /\ t # u
       /\ a \in Embedded(TileBody(cascade, t)) /\ a \in Embedded(TileBody(cascade, u))}

\* Mutant: sections that are deleted keep what they defined.
StaleOfPlanned ==
  {e \in Entities \ Fresh :
     entities[e] # Nowhere /\ entities[e].home \in PlannedIn(cascade) \ Ambiguous}

\* What the rewritten sections and the deleted ones defined, and no longer define.
Stale ==
  {e \in Entities \ Fresh :
     /\ entities[e] # Nowhere
     /\ entities[e].home \in (PlannedIn(cascade) \cup cascade.deletes) \ Ambiguous}

\* Mutant: every written section goes behind the last.
UpsertedAtEnd(a) ==
  LET plan == cascade.planned[a]
  IN  IF sections[a].body = plan.body THEN sections[a]
      ELSE [level |-> plan.level, pos |-> NextPosition(sections), body |-> plan.body]

\* A section whose body is unchanged is skipped; a new one goes behind the last.
Upserted(a) ==
  LET plan == cascade.planned[a]
  IN  IF sections[a].body = plan.body THEN sections[a]
      ELSE [level |-> plan.level,
            pos   |-> IF sections[a] = NoSection THEN NextPosition(sections)
                      ELSE sections[a].pos,
            body  |-> plan.body]

\* Mutant: the undo does not know of the sections that were deleted.
PriorOfPlanned ==
  [sections |-> [a \in PlannedIn(cascade) |-> sections[a]],
   entities |-> [e \in Fresh \cup Stale |-> entities[e]]]

Prior ==
  [sections |-> [a \in PlannedIn(cascade) \cup cascade.deletes |-> sections[a]],
   entities |-> [e \in Fresh \cup Stale |-> entities[e]]]

\* Flush and commit.  Without an entity there is nothing to validate.
Flush ==
  /\ pc = "writing" /\ batch # <<>>
  /\ sections' = [a \in Anchors |-> IF a \in PlannedIn(cascade) THEN Upserted(a)
                                    ELSE IF a \in cascade.deletes THEN NoSection
                                    ELSE sections[a]]
  /\ \E fresh \in [Fresh -> UNION {Definitions(e) : e \in Fresh}] :
       /\ \A e \in Fresh : fresh[e] \in Definitions(e)
       /\ entities' = [e \in Entities |-> IF e \in Fresh THEN fresh[e]
                                          ELSE IF e \in Stale THEN Nowhere
                                          ELSE entities[e]]
  /\ \/ /\ Fresh # {}
        /\ pc' = "committed" /\ outcome' = Prior
        /\ UNCHANGED <<batch, cascade, before, document>>
     \/ /\ Fresh = {}
        /\ Ends

Accept ==
  /\ pc = "committed"
  /\ UNCHANGED <<sections, entities>>
  /\ Ends

\* The undo deletes what was written, and adds what was there.
Reject ==
  /\ pc = "committed"
  /\ sections' = [a \in Anchors |-> IF a \in DOMAIN outcome.sections
                                    THEN outcome.sections[a] ELSE sections[a]]
  /\ entities' = [e \in Entities |-> IF e \in DOMAIN outcome.entities
                                     THEN outcome.entities[e] ELSE entities[e]]
  /\ Ends

-----------------------------------------------------------------------------
Init ==
  \E text \in InitialTexts :
    /\ Tidy => IsTidyText(text)
    /\ sections = Extracted(text)
    /\ entities =
         [e \in Entities |->
            IF \E i \in HeadingsOf(text) : DefinedBy[text[i].name] = e
            THEN LET i == Min({j \in HeadingsOf(text) : DefinedBy[text[j].name] = e})
                 IN  [home |-> text[i].name, text |-> Slice(text, i)]
            ELSE Nowhere]
    /\ pc = "idle"
    /\ batch = <<>> /\ cascade = NoCascade /\ outcome = NoOutcome
    /\ before = [sections |-> sections, entities |-> entities]
    /\ document = Export(sections)

Next ==
  \/ Begin
  \/ \E narrative \in Narratives : Write(narrative) \/ Refuse(narrative)
  \/ Flush \/ Accept \/ Reject

Spec == Init /\ [][Next]_vars

-----------------------------------------------------------------------------
(* Properties *)

TypeOK ==
  /\ sections \in [Anchors -> [level : 0..Deepest, pos : Nat, body : Body]]
  /\ \A a \in Stored(sections) : sections[a].body[1].name = a
  /\ entities \in [Entities -> [home : Anchors \cup {"none"}, text : Body]]
  /\ pc \in {"idle", "writing", "committed"}
  /\ batch \in Seq(Narratives) /\ Len(batch) <= MaxOps
  /\ cascade.planned \in [Anchors -> [level : 0..Deepest, body : Body]]
  /\ cascade.tileOf \in [Anchors -> Anchors \cup {NoTile}]
  /\ cascade.deletes \subseteq Anchors \ PlannedIn(cascade)

\* Every node below level 2 carries the text that a tile embeds under its heading:
\* what sections are read by, and what is exported, never diverge (the module's
\* tile-cover invariant, desynced_tile_sections).
TileCover ==
  \A a \in Stored(sections) \ Tiles(sections) :
    \E t \in Tiles(sections) :
      /\ Places(sections[t].body, a) # {}
      /\ sections[a].body = FirstSlice(sections[t].body, a)

\* Every heading of the export is a node, in whose enclosing tile a write to it lands.
EveryHeadingWritable ==
  \A t \in Tiles(sections) : \A a \in Embedded(sections[t].body) :
    /\ a \in Stored(sections)
    /\ EnclosingTiles(NoCascade, a) = {t}
    /\ Within(sections, a, t)

\* The export is the old one with the writes of the batch applied in their order,
\* and nothing else changed in it.
RevisionsReachExport == [][Flush => Export(sections') = document]_vars

\* The graph has an entity if and only if the document defines it, with the text
\* and the home it has there.
EntitiesFollowText ==
  \A e \in Entities :
    LET defs == UNION {LET body == sections[t].body
                       IN  {[home |-> body[i].name, text |-> Slice(body, i)] :
                              i \in {j \in HeadingsOf(body) : DefinedBy[body[j].name] = e}} :
                         t \in Tiles(sections)}
    IN  IF defs = {} THEN entities[e] = Nowhere ELSE entities[e] \in defs

\* A rejected batch is undone entirely, deleted sections and entities included.
RejectedIsUndone ==
  [][pc = "committed" =>
       \/ UNCHANGED <<sections, entities>>
       \/ before = [sections |-> sections', entities |-> entities']]_vars

=============================================================================
