---------------------------- MODULE DocSyncProofs ----------------------------
(***************************************************************************)
(* DocSync for every set of documents, headings, texts and every number of *)
(* edits, kills, crashes and losses: type correctness, that finalize       *)
(* without --force replaces no edit that nobody absorbed or superseded and *)
(* backs up what it overwrites, that an ingest brings the hash of every    *)
(* file to its nodes, and that the approval gate holds through the batch.  *)
(***************************************************************************)
EXTENDS DocSync, FiniteSetTheorems, TLAPS

-----------------------------------------------------------------------------
(* Nodes whose quads come from one version of the text                       *)

\* The quads there are go with the content hash, if that is there: a node may
\* be cut, it is never mixed from two versions.
VersionSection == {s \in Section : s.hash # NoBody => s.body \in {s.hash, NoBody}}
VersionSections == [Anchors -> VersionSection]

VersionNode ==
  {n \in Node : n.hash \in Text =>
     /\ n.status \in {n.hash.status, NoStatus}
     /\ n.front \in {n.hash.status, NoStatus}}

LEMMA VersionTypes ==
  /\ VersionSection \subseteq Section
  /\ VersionSections \subseteq Sections
  /\ VersionNode \subseteq Node
BY DEF VersionSection, VersionSections, VersionNode, Sections

LEMMA NoSectionVersion == NoSection \in VersionSection
BY DEF NoSection, VersionSection, Section

LEMMA NoSectionsVersion == NoSections \in VersionSections
BY NoSectionVersion DEF NoSections, VersionSections

LEMMA SectionNodeVersion ==
  ASSUME NEW body \in Bodies, NEW p \in Nat
  PROVE  SectionNode(body, p) \in VersionSection
BY DEF SectionNode, VersionSection, Section

\* Removing and adding quads one by one keeps a section of one version.
LEMMA RemnantsVersion ==
  ASSUME NEW s \in VersionSection
  PROVE  SectionRemnants(s) \subseteq VersionSection
<1> SUFFICES ASSUME NEW r \in SectionRemnants(s) PROVE r \in VersionSection
  OBVIOUS
<1>1. /\ s.hash \in Bodies \cup {NoBody} /\ s.body \in Bodies \cup {NoBody}
      /\ s.pos \in Nat \cup {NoPos} /\ s.part \in BOOLEAN
      /\ s.hash # NoBody => s.body \in {s.hash, NoBody}
  BY DEF VersionSection, Section
<1>2. /\ r.hash \in {s.hash, NoBody} /\ r.body \in {s.body, NoBody}
      /\ r.pos \in {s.pos, NoPos} /\ r.part \in {s.part, FALSE}
      /\ r = [hash |-> r.hash, body |-> r.body, pos |-> r.pos, part |-> r.part]
  BY DEF SectionRemnants
<1>3. r \in Section
  BY <1>1, <1>2 DEF Section
<1> QED
  BY <1>1, <1>2, <1>3 DEF VersionSection

LEMMA BeginningsVersion ==
  ASSUME NEW s \in VersionSection
  PROVE  SectionBeginnings(s) \subseteq VersionSection
<1>1. s \in Section /\ NoSection \in Section
  BY NoSectionVersion DEF VersionSection
<1>2. /\ [NoSection EXCEPT !.body = s.body] \in Section
      /\ [NoSection EXCEPT !.body = s.body].hash = NoBody
  BY <1>1 DEF Section, NoSection
<1>3. /\ [s EXCEPT !.pos = NoPos, !.part = FALSE] \in Section
      /\ [s EXCEPT !.pos = NoPos, !.part = FALSE].hash = s.hash
      /\ [s EXCEPT !.pos = NoPos, !.part = FALSE].body = s.body
  BY <1>1 DEF Section
<1>4. /\ [s EXCEPT !.part = FALSE] \in Section
      /\ [s EXCEPT !.part = FALSE].hash = s.hash
      /\ [s EXCEPT !.part = FALSE].body = s.body
  BY <1>1 DEF Section
<1> QED
  BY <1>2, <1>3, <1>4, NoSectionVersion DEF SectionBeginnings, VersionSection

LEMMA CutSectionsVersion ==
  ASSUME NEW old \in VersionSections, NEW new \in VersionSections
  PROVE  CutSections(old, new) \subseteq VersionSections
<1> SUFFICES ASSUME NEW ss \in CutSections(old, new) PROVE ss \in VersionSections
  OBVIOUS
<1>0. PICK at \in Anchors, done \in SUBSET Anchors :
        \E half \in SectionRemnants(old[at]) \cup SectionBeginnings(new[at]) :
          ss = [a \in Anchors |-> IF a = at THEN half ELSE IF a \in done THEN new[a] ELSE old[a]]
  BY DEF CutSections
<1>1. PICK half \in SectionRemnants(old[at]) \cup SectionBeginnings(new[at]) :
        ss = [a \in Anchors |-> IF a = at THEN half ELSE IF a \in done THEN new[a] ELSE old[a]]
  BY <1>0
<1>2. old[at] \in VersionSection /\ new[at] \in VersionSection
  BY DEF VersionSections
<1>3. half \in VersionSection
  BY <1>2, RemnantsVersion, BeginningsVersion
<1> QED
  BY <1>1, <1>3 DEF VersionSections

LEMMA NoDocVersion == NoDoc \in VersionNode
BY SyncAssumption DEF NoDoc, VersionNode, Node, SyncAssumption

LEMMA DocNodeVersion ==
  ASSUME NEW t \in Text
  PROVE  DocNode(t) \in VersionNode
BY DEF DocNode, VersionNode, Node, Text

LEMMA NodeRemnantsVersion ==
  ASSUME NEW n \in VersionNode
  PROVE  NodeRemnants(n) \subseteq VersionNode
<1> SUFFICES ASSUME NEW r \in NodeRemnants(n) PROVE r \in VersionNode
  OBVIOUS
<1>1. /\ n.type \in BOOLEAN /\ n.hash \in Text \cup {MetaHash, NoHash}
      /\ n.status \in Statuses \cup {NoStatus} /\ n.front \in Statuses \cup {NoStatus}
      /\ n.path \in BOOLEAN
      /\ n.hash \in Text => /\ n.status \in {n.hash.status, NoStatus}
                            /\ n.front \in {n.hash.status, NoStatus}
  BY DEF VersionNode, Node
<1>2. /\ r.type \in {n.type, FALSE} /\ r.hash \in {n.hash, NoHash}
      /\ r.status \in {n.status, NoStatus} /\ r.front \in {n.front, NoStatus}
      /\ r.path \in {n.path, FALSE}
      /\ r = [type |-> r.type, hash |-> r.hash, status |-> r.status, front |-> r.front,
              path |-> r.path]
  BY DEF NodeRemnants
<1>3. r \in Node
  BY <1>1, <1>2 DEF Node
<1>4. NoHash \notin Text
  BY SyncAssumption DEF SyncAssumption
<1> QED
  BY <1>1, <1>2, <1>3, <1>4 DEF VersionNode

LEMMA NodeBeginningsVersion ==
  ASSUME NEW t \in Text
  PROVE  NodeBeginnings(DocNode(t)) \subseteq VersionNode
<1>1. DocNode(t) \in Node /\ NoDoc \in Node
  BY NoDocVersion, DocNodeVersion DEF VersionNode
<1>2. DocNode(t).hash = t /\ DocNode(t).status = t.status /\ DocNode(t).front = t.status
  BY DEF DocNode
<1>3. /\ [NoDoc EXCEPT !.type = TRUE] \in Node
      /\ [NoDoc EXCEPT !.type = TRUE].hash = NoHash
  BY <1>1 DEF Node, NoDoc
<1>4. NoHash \notin Text
  BY SyncAssumption DEF SyncAssumption
<1>5. [NoDoc EXCEPT !.type = TRUE] \in VersionNode
  BY <1>3, <1>4 DEF VersionNode
<1> DEFINE n1 == [DocNode(t) EXCEPT !.status = NoStatus, !.front = NoStatus, !.path = FALSE]
           n2 == [DocNode(t) EXCEPT !.front = NoStatus, !.path = FALSE]
           n3 == [DocNode(t) EXCEPT !.path = FALSE]
<1>6. n1 \in Node /\ n1.hash = t /\ n1.status = NoStatus /\ n1.front = NoStatus
  BY <1>1, <1>2 DEF Node
<1>7. n2 \in Node /\ n2.hash = t /\ n2.status = t.status /\ n2.front = NoStatus
  BY <1>1, <1>2 DEF Node
<1>8. n3 \in Node /\ n3.hash = t /\ n3.status = t.status /\ n3.front = t.status
  BY <1>1, <1>2 DEF Node
<1>9. n1 \in VersionNode /\ n2 \in VersionNode /\ n3 \in VersionNode
  BY <1>6, <1>7, <1>8 DEF VersionNode
<1>10. NodeBeginnings(DocNode(t)) = {NoDoc, [NoDoc EXCEPT !.type = TRUE], n1, n2, n3, DocNode(t)}
  BY DEF NodeBeginnings
<1> HIDE DEF n1, n2, n3
<1> QED
  BY <1>5, <1>9, <1>10, NoDocVersion, DocNodeVersion

\* Patching the frontmatter takes the file's content hash away first.
LEMMA MetaVersion ==
  ASSUME NEW n \in VersionNode, NEW status \in Statuses
  PROVE  /\ MetaCuts(n, status) \subseteq VersionNode
         /\ MetaNode(n, status) \in VersionNode
<1> DEFINE front == Patched(n.front, status)
           bare == [n EXCEPT !.front = NoStatus, !.hash = NoHash, !.status = NoStatus]
           n1 == [n EXCEPT !.front = NoStatus]
           n2 == [n EXCEPT !.front = NoStatus, !.hash = NoHash]
           n3 == [bare EXCEPT !.front = front]
           n4 == [bare EXCEPT !.front = front, !.hash = MetaHash]
           n5 == MetaNode(n, status)
<1>1. /\ n \in Node
      /\ n.hash \in Text => /\ n.status \in {n.hash.status, NoStatus}
                            /\ n.front \in {n.hash.status, NoStatus}
  BY DEF VersionNode
<1>2. front \in Statuses \cup {NoStatus}
  BY <1>1 DEF Patched
<1>3. MetaHash \notin Text /\ NoHash \notin Text
  BY SyncAssumption DEF SyncAssumption
<1>4. n1 \in Node /\ n1.hash = n.hash /\ n1.status = n.status /\ n1.front = NoStatus
  BY <1>1 DEF Node
<1>5. n2 \in Node /\ n2.hash = NoHash
  BY <1>1 DEF Node
<1>6. bare \in Node /\ bare.hash = NoHash
  BY <1>1 DEF Node
<1>7. n5 \in Node /\ n5.hash = MetaHash
  BY <1>1, <1>2 DEF Node, MetaNode
<1> HIDE DEF front, bare
<1>8. n3 \in Node /\ n3.hash = NoHash
  BY <1>2, <1>6 DEF Node
<1>9. n4 \in Node /\ n4.hash = MetaHash
  BY <1>2, <1>6 DEF Node
<1>10. MetaCuts(n, status) = {n1, n2, bare, n3, n4}
  BY DEF MetaCuts, bare, front
<1> HIDE DEF n1, n2, n3, n4
<1>11. {n1, n2, bare, n3, n4} \subseteq VersionNode
  BY <1>1, <1>3, <1>4, <1>5, <1>6, <1>8, <1>9 DEF VersionNode
<1> HIDE DEF n5
<1>12. n5 \in VersionNode
  BY <1>3, <1>7 DEF VersionNode
<1> QED
  BY <1>10, <1>11, <1>12 DEF n5

-----------------------------------------------------------------------------
(* What the operators of DocStructure return *)

(* Every heading of a text has a first block, and it belongs to the text. *)
LEMMA FirstBlockExists ==
  ASSUME NEW t \in Text, NEW a \in Headings(t)
  PROVE  /\ FirstBlock(t, a) \in t.blocks
         /\ FirstBlock(t, a) \in Block
         /\ FirstBlock(t, a).anchor = a
         /\ IsFirst(t.blocks, FirstBlock(t, a))
<1>1. t.blocks \in BlockSet
  BY DEF Text
<1>2. PICK k \in t.blocks : k.anchor = a
  BY <1>1 DEF Headings, Under
<1>3. \E j \in t.blocks : j.anchor = a /\ IsFirst(t.blocks, j)
  BY <1>1, <1>2 DEF BlockSet
<1>4. /\ FirstBlock(t, a) \in t.blocks
      /\ FirstBlock(t, a).anchor = a
      /\ IsFirst(t.blocks, FirstBlock(t, a))
  BY <1>3 DEF FirstBlock
<1>5. t.blocks \subseteq Block
  BY <1>1 DEF BlockSet
<1> QED
  BY <1>4, <1>5

(* The counts that serve as positions are natural numbers. *)
LEMMA AnchorCount ==
  ASSUME NEW H \in SUBSET Anchors
  PROVE  IsFiniteSet(H) /\ Cardinality(H) \in Nat
BY StructureAssumption, FS_Subset, FS_CardinalityType DEF StructureAssumption

(* extract_structure turns a text into whole section nodes. *)
LEMMA ExtractVersion ==
  ASSUME NEW t \in Text
  PROVE  Extract(t) \in VersionSections
<1> SUFFICES ASSUME NEW a \in Anchors
             PROVE  Extract(t)[a] \in VersionSection
  BY DEF Extract, VersionSections
<1>1. CASE a \notin Headings(t)
  BY <1>1, NoSectionVersion DEF Extract
<1>2. CASE a \in Headings(t)
  <2> DEFINE H == {b \in Headings(t) : FirstBlock(t, b).at < FirstBlock(t, a).at}
  <2>1. Cardinality(H) \in Nat
    BY AnchorCount DEF Headings
  <2>2. FirstBlock(t, a).body \in Bodies
    BY <1>2, FirstBlockExists DEF Block
  <2>3. Extract(t)[a] = SectionNode(FirstBlock(t, a).body, Cardinality(H))
    BY <1>2 DEF Extract
  <2> HIDE DEF H
  <2> QED
    BY <2>1, <2>2, <2>3, SectionNodeVersion
<1> QED
  BY <1>1, <1>2

(* The graph-side writes of sections keep them sections of one version. *)
LEMMA UpsertVersion ==
  ASSUME NEW ss \in VersionSections, NEW t \in Text
  PROVE  UpsertSections(ss, t) \in VersionSections
<1>1. Extract(t) \in VersionSections
  BY ExtractVersion
<1> QED
  BY <1>1 DEF UpsertSections, UpsertSection, VersionSections

LEMMA DropVersion ==
  ASSUME NEW ss \in VersionSections, NEW t
  PROVE  DropStale(ss, t) \in VersionSections
BY NoSectionVersion DEF DropStale, VersionSections

LEMMA AbsorbVersion ==
  ASSUME NEW ss \in VersionSections, NEW t \in Text
  PROVE  Absorb(ss, t) \in VersionSections
BY UpsertVersion, DropVersion DEF Absorb

LEMMA BareVersion ==
  ASSUME NEW ss \in VersionSections, NEW new
  PROVE  Bare(ss, new) \in VersionSections
BY NoSectionVersion DEF Bare, VersionSections

LEMMA NarrativeVersion ==
  ASSUME NEW ss \in VersionSections, NEW a \in Anchors, NEW body \in Bodies, NEW p \in Nat
  PROVE  PutNarrative(ss, a, body, p) \in VersionSections
<1>1. ss[a].pos \in Nat \cup {NoPos}
  BY DEF VersionSections, VersionSection, Section
<1>2. (IF ss[a].pos = NoPos THEN p ELSE ss[a].pos) \in Nat
  BY <1>1
<1>3. SectionNode(body, IF ss[a].pos = NoPos THEN p ELSE ss[a].pos) \in VersionSection
  BY <1>2, SectionNodeVersion
<1> QED
  BY <1>3 DEF PutNarrative, VersionSections

(* The export of any sections is a text, with one block to a heading. *)
LEMMA RenderBlocksType ==
  ASSUME NEW ss \in Sections
  PROVE  RenderBlocks(ss) \in BlockSet
<1> DEFINE At(a) == Cardinality({b \in Stored(ss) : Before(ss, b, a)})
<1>1. \A a \in Stored(ss) : At(a) \in Nat
  BY AnchorCount DEF Stored, Attached
<1>2. \A a \in Stored(ss) : a \in Anchors /\ ss[a].body \in Bodies
  BY DEF Stored, Attached, Sections, Section
<1>3. RenderBlocks(ss) = {[anchor |-> a, body |-> ss[a].body, at |-> At(a)] : a \in Stored(ss)}
  BY DEF RenderBlocks
<1> HIDE DEF At
<1>4. RenderBlocks(ss) \in SUBSET Block
  BY <1>1, <1>2, <1>3 DEF Block
<1>5. \A k \in RenderBlocks(ss) : IsFirst(RenderBlocks(ss), k)
  <2> SUFFICES ASSUME NEW k \in RenderBlocks(ss), NEW j \in RenderBlocks(ss),
                      j.anchor = k.anchor
               PROVE  k.at <= j.at
    BY DEF IsFirst, Under
  <2>1. k = j
    BY <1>3
  <2>2. k.at \in Nat
    BY <1>4 DEF Block
  <2> QED
    BY <2>1, <2>2
<1> QED
  BY <1>4, <1>5 DEF BlockSet

LEMMA RenderType ==
  ASSUME NEW status \in Statuses \cup {NoStatus}, NEW ss \in Sections
  PROVE  Render(status, ss) \in Text
BY RenderBlocksType DEF Render, Text, Forms

(* What a torn write leaves is a text: a block's predecessors come with it. *)
LEMMA PrefixType ==
  ASSUME NEW t \in Text, NEW n \in Nat
  PROVE  Prefix(t, n) \in Text
<1> DEFINE kept == {k \in t.blocks : k.at < n}
<1>1. t.blocks \in BlockSet
  BY DEF Text
<1>2. kept \in SUBSET Block
  BY <1>1 DEF BlockSet
<1>3. \A k \in kept : \E j \in kept : j.anchor = k.anchor /\ IsFirst(kept, j)
  <2> TAKE k \in kept
  <2>1. PICK j \in t.blocks : j.anchor = k.anchor /\ IsFirst(t.blocks, j)
    BY <1>1 DEF BlockSet
  <2>2. j.at <= k.at /\ k.at < n
    BY <2>1 DEF IsFirst, Under
  <2>3. j \in Block /\ k \in Block
    BY <1>1 DEF BlockSet
  <2>4. j \in kept
    BY <2>2, <2>3 DEF Block
  <2>5. IsFirst(kept, j)
    BY <2>1, <2>4 DEF IsFirst, Under
  <2> QED
    BY <2>1, <2>4, <2>5
<1>4. kept \in BlockSet
  BY <1>2, <1>3 DEF BlockSet
<1>5. Prefix(t, n) = [t EXCEPT !.blocks = kept]
  BY DEF Prefix
<1> HIDE DEF kept
<1> QED
  BY <1>4, <1>5 DEF Text

-----------------------------------------------------------------------------
(* The inductive invariant *)

Writing == {"fin_backup", "fin_write", "fin_base"}

\* A phase of an ingest visits parsed files, a command that writes one document
\* knows which, and finalize backs up a file that was there.
PhaseInv ==
  /\ cmd \in {"ing_sections", "ing_documents", "ing_cleanup"} => todo \subseteq Scanned
  /\ cmd \in {"stamp", "stamp_doc"} \cup Writing => cur \in Docs
  /\ cmd = "fin_backup" => seen # NoFile

\* No node mixes two versions, in the store or in the snapshot.
GraphInv ==
  /\ node \in [Docs -> VersionNode] /\ secs \in [Docs -> VersionSections]
  /\ snap.node \in [Docs -> VersionNode] /\ snap.secs \in [Docs -> VersionSections]

TypeInv == TypeOK /\ PhaseInv /\ GraphInv

\* t may be overwritten: the graph rendered it, absorbed it, or a graph-side
\* write superseded it.
Vouched(d, t) == t \in absorbed[d] \cup superseded[d]

\* A baseline, stored or snapshotted, vouches for the text it is the hash of.
BaselineInv ==
  \A d \in Docs :
    /\ baseline[d] # NoHash => Vouched(d, baseline[d])
    /\ snap.baseline[d] # NoHash => Vouched(d, snap.baseline[d])

\* Between its read and its write finalize holds what the file says, and an
\* unforced finalize goes on only with a file it may overwrite.
SeenInv ==
  cmd \in {"fin_backup", "fin_write"} =>
    /\ seen = disk[cur]
    /\ force \/ Vouched(cur, seen) \/ seen = NoFile \/ Equivalent(seen, RenderOf(cur))

\* What finalize is about to overwrite is already in the backup directory.
BackupInv ==
  /\ cmd = "fin_write" => seen \in backups[cur] \cup {NoFile}

SafeInv == BaselineInv /\ SeenInv /\ BackupInv

-----------------------------------------------------------------------------
(* Type correctness *)

\* Whatever quads a node lacks, its document renders as a text.
LEMMA RenderOfType ==
  ASSUME TypeOK, NEW d \in Docs
  PROVE  RenderOf(d) \in Text
<1>1. node[d].front \in Statuses \cup {NoStatus} /\ secs[d] \in Sections
  BY DEF TypeOK, Node
<1> QED
  BY <1>1, RenderType DEF RenderOf

LEMMA NoSnapshotType ==
  /\ NoSnapshot \in Snapshot
  /\ NoSnapshot.node \in [Docs -> VersionNode]
  /\ NoSnapshot.secs \in [Docs -> VersionSections]
  /\ NoSnapshot.baseline \in [Docs -> Text \cup {NoHash}]
BY NoDocVersion, NoSectionsVersion, VersionTypes DEF NoSnapshot, Snapshot

LEMMA InitType == Init => TypeInv
<1> SUFFICES ASSUME Init PROVE TypeInv
  OBVIOUS
<1>1. GraphInv
  BY NoSnapshotType DEF Init, GraphInv
<1>2. TypeOK
  <2>1. /\ node \in [Docs -> Node]
        /\ secs \in [Docs -> Sections]
        /\ baseline \in [Docs -> Text \cup {NoHash}]
        /\ snap \in Snapshot
    BY <1>1, NoSnapshotType, VersionTypes DEF Init, GraphInv
  <2>2. disk \in [Docs -> Text \cup {NoFile}] /\ faults \in 0..MaxFaults
    BY SyncAssumption DEF Init, SyncAssumption
  <2> QED
    BY <2>1, <2>2 DEF Init, TypeOK, Phases
<1>3. PhaseInv
  BY DEF Init, PhaseInv, Writing
<1> QED
  BY <1>1, <1>2, <1>3 DEF TypeInv

LEMMA ExitType ==
  ASSUME Exit
  PROVE  /\ cmd' \in Phases /\ todo' \subseteq Docs /\ cur' \in Docs \cup {NoDocument}
         /\ seen' \in Text \cup {NoFile} /\ force' \in BOOLEAN
         /\ scan' \in [Docs -> Text \cup {NoFile}]
         /\ backups' \in [Docs -> SUBSET Text]
         /\ PhaseInv'
BY DEF Exit, Phases, PhaseInv, Writing

LEMMA FaultType ==
  ASSUME TypeOK, Fault \/ Faults(2)
  PROVE  faults' \in 0..MaxFaults
BY SyncAssumption DEF TypeOK, Fault, Faults, SyncAssumption

\* A graph whose nodes are each of one version is well typed.
LEMMA GraphType ==
  ASSUME node' \in [Docs -> VersionNode], secs' \in [Docs -> VersionSections]
  PROVE  node' \in [Docs -> Node] /\ secs' \in [Docs -> Sections]
BY VersionTypes

\* What a kill in the middle of a step may do to the document d.
CutOne(d) ==
  /\ Killed
  /\ \E s \in VersionSections : secs' = [secs EXCEPT ![d] = s]
  /\ \E n \in VersionNode : node' = [node EXCEPT ![d] = n]
  /\ \E h \in {baseline[d], NoHash} : baseline' = [baseline EXCEPT ![d] = h]
  /\ UNCHANGED <<disk, durable, absorbed, superseded>>
  /\ faults' \in 0..MaxFaults

LEMMA CutIsOne ==
  ASSUME NEW d \in Docs, NEW sections \in SUBSET VersionSections,
         NEW nodes \in SUBSET VersionNode, NEW hashes \in SUBSET {baseline[d], NoHash},
         Cut(d, sections, nodes, hashes), faults' \in 0..MaxFaults
  PROVE  CutOne(d)
BY DEF Cut, CutOne

LEMMA CutType ==
  ASSUME TypeInv, NEW d \in Docs, CutOne(d)
  PROVE  TypeInv'
<1>1. /\ secs' \in [Docs -> VersionSections] /\ node' \in [Docs -> VersionNode]
      /\ baseline' \in [Docs -> Text \cup {NoHash}]
  BY DEF CutOne, TypeInv, TypeOK, GraphInv
<1>2. GraphInv'
  BY <1>1 DEF CutOne, TypeInv, GraphInv, durable
<1>3. TypeOK'
  BY <1>1, GraphType, ExitType DEF CutOne, Killed, TypeInv, TypeOK, durable
<1>4. PhaseInv'
  BY ExitType DEF CutOne, Killed
<1> QED
  BY <1>2, <1>3, <1>4 DEF TypeInv

LEMMA KillIsCut ==
  ASSUME TypeInv, NEW d \in Docs
  PROVE  /\ KilledInStamp(d) => CutOne(d)
         /\ KilledInIngest(d) => CutOne(d)
         /\ \A t \in Texts : KilledInWriteDoc(d, t) => CutOne(d)
         /\ \A a \in Anchors, b \in Bodies : KilledInNarrative(d, a, b) => CutOne(d)
         /\ \A s \in Statuses : KilledInMeta(d, s) => CutOne(d)
<1>0. /\ node[d] \in VersionNode /\ secs[d] \in VersionSections
      /\ {secs[d]} \in SUBSET VersionSections /\ {node[d]} \in SUBSET VersionNode
      /\ Fault \/ Faults(2) => faults' \in 0..MaxFaults
  BY FaultType DEF TypeInv, GraphInv
<1>1. ASSUME KilledInStamp(d) PROVE CutOne(d)
  BY <1>0, <1>1, CutIsOne DEF KilledInStamp
<1>2. ASSUME KilledInIngest(d) PROVE CutOne(d)
  <2>1. faults' \in 0..MaxFaults /\ scan[d] \in Text
    BY <1>0, <1>2 DEF KilledInIngest, TypeInv, PhaseInv, TypeOK, Scanned
  <2>2. /\ CutSections(secs[d], UpsertSections(secs[d], scan[d])) \in SUBSET VersionSections
        /\ CutSections(secs[d], DropStale(secs[d], scan[d])) \in SUBSET VersionSections
        /\ NodeRemnants(node[d]) \in SUBSET VersionNode
        /\ NodeBeginnings(DocNode(scan[d])) \in SUBSET VersionNode
    BY <1>0, <2>1, CutSectionsVersion, UpsertVersion, DropVersion, NodeRemnantsVersion,
       NodeBeginningsVersion
  <2>3. CASE CutInSections(d, CutSections(secs[d], UpsertSections(secs[d], scan[d])))
    BY <1>0, <2>1, <2>2, <2>3, CutIsOne DEF CutInSections
  <2>4. CASE CutInSections(d, CutSections(secs[d], DropStale(secs[d], scan[d])))
    BY <1>0, <2>1, <2>2, <2>4, CutIsOne DEF CutInSections
  <2>5. CASE Cut(d, {secs[d]}, NodeRemnants(node[d]), {baseline[d], NoHash})
    BY <1>0, <2>1, <2>2, <2>5, CutIsOne
  <2>6. CASE Cut(d, {secs[d]}, NodeBeginnings(DocNode(scan[d])), {NoHash})
    BY <1>0, <2>1, <2>2, <2>6, CutIsOne
  <2> QED
    BY <1>2, <2>3, <2>4, <2>5, <2>6 DEF KilledInIngest
<1>3. ASSUME NEW t \in Texts, KilledInWriteDoc(d, t) PROVE CutOne(d)
  <2> DEFINE kept == DropStale(secs[d], t)
             new == Absorb(secs[d], t)
             bare == Bare(kept, new)
             same == node[d].hash = t
             gone == IF same THEN node[d] ELSE NoDoc
             there == IF same THEN node[d] ELSE DocNode(t)
             after == IF same THEN baseline[d] ELSE NoHash
  <2>1. faults' \in 0..MaxFaults /\ t \in Text
    BY <1>0, <1>3, SyncAssumption DEF KilledInWriteDoc, SyncAssumption
  <2>2. kept \in VersionSections /\ new \in VersionSections /\ bare \in VersionSections
    BY <1>0, <2>1, DropVersion, AbsorbVersion, BareVersion
  <2>3. /\ {gone} \in SUBSET VersionNode /\ {there} \in SUBSET VersionNode
        /\ NodeRemnants(node[d]) \in SUBSET VersionNode
        /\ NodeBeginnings(DocNode(t)) \in SUBSET VersionNode
        /\ {after} \in SUBSET {baseline[d], NoHash}
    BY <1>0, <2>1, NoDocVersion, DocNodeVersion, NodeRemnantsVersion, NodeBeginningsVersion
  <2>4. \/ CutInSections(d, CutSections(secs[d], kept))
        \/ Cut(d, {kept}, NodeRemnants(node[d]), {baseline[d], NoHash})
        \/ Cut(d, CutSections(kept, bare), {gone}, {after})
        \/ Cut(d, {bare}, NodeBeginnings(DocNode(t)), {NoHash})
        \/ Cut(d, CutSections(bare, new), {there}, {after})
    BY <1>3 DEF KilledInWriteDoc
  <2> HIDE DEF kept, new, bare, same, gone, there, after
  <2>5. /\ CutSections(secs[d], kept) \in SUBSET VersionSections
        /\ CutSections(kept, bare) \in SUBSET VersionSections
        /\ CutSections(bare, new) \in SUBSET VersionSections
        /\ {kept} \in SUBSET VersionSections /\ {bare} \in SUBSET VersionSections
    BY <1>0, <2>2, CutSectionsVersion
  <2>6. CASE CutInSections(d, CutSections(secs[d], kept))
    BY <1>0, <2>1, <2>5, <2>6, CutIsOne DEF CutInSections
  <2>7. CASE Cut(d, {kept}, NodeRemnants(node[d]), {baseline[d], NoHash})
    BY <2>1, <2>3, <2>5, <2>7, CutIsOne
  <2>8. CASE Cut(d, CutSections(kept, bare), {gone}, {after})
    BY <2>1, <2>3, <2>5, <2>8, CutIsOne
  <2>9. CASE Cut(d, {bare}, NodeBeginnings(DocNode(t)), {NoHash})
    BY <2>1, <2>3, <2>5, <2>9, CutIsOne
  <2>10. CASE Cut(d, CutSections(bare, new), {there}, {after})
    BY <2>1, <2>3, <2>5, <2>10, CutIsOne
  <2> QED
    BY <2>4, <2>6, <2>7, <2>8, <2>9, <2>10
<1>4. ASSUME NEW a \in Anchors, NEW b \in Bodies, KilledInNarrative(d, a, b) PROVE CutOne(d)
  <2>1. PICK p \in 0..MaxPosition :
          CutInSections(d, CutSections(secs[d], PutNarrative(secs[d], a, b, p)))
    BY <1>4 DEF KilledInNarrative
  <2>2. p \in Nat
    BY SyncAssumption DEF SyncAssumption
  <2>3. CutSections(secs[d], PutNarrative(secs[d], a, b, p)) \in SUBSET VersionSections
    BY <1>0, <2>2, NarrativeVersion, CutSectionsVersion
  <2>4. faults' \in 0..MaxFaults
    BY <1>0, <1>4 DEF KilledInNarrative
  <2> QED
    BY <1>0, <2>1, <2>3, <2>4, CutIsOne DEF CutInSections
<1>5. ASSUME NEW s \in Statuses, KilledInMeta(d, s) PROVE CutOne(d)
  <2>1. MetaCuts(node[d], s) \in SUBSET VersionNode
    BY <1>0, MetaVersion
  <2>2. faults' \in 0..MaxFaults /\ Cut(d, {secs[d]}, MetaCuts(node[d], s), {baseline[d]})
    BY <1>0, <1>5 DEF KilledInMeta
  <2> QED
    BY <1>0, <2>1, <2>2, CutIsOne
<1> QED
  BY <1>1, <1>2, <1>3, <1>4, <1>5

LEMMA WorldType ==
  ASSUME TypeInv
  PROVE  /\ \A d \in Docs, t \in Texts \cup {NoFile} : HumanEdit(d, t) => TypeInv'
         /\ Crash => TypeInv'
         /\ LoseStore => TypeInv'
<1> USE DEF TypeInv, graph, durable, memory, process, history
<1>1. ASSUME NEW d \in Docs, NEW t \in Texts \cup {NoFile}, HumanEdit(d, t)
      PROVE  TypeInv'
  <2>1. TypeOK'
    BY <1>1, SyncAssumption, FaultType DEF HumanEdit, TypeOK, SyncAssumption
  <2>2. PhaseInv' /\ GraphInv'
    BY <1>1 DEF HumanEdit, PhaseInv, GraphInv, Scanned
  <2> QED
    BY <2>1, <2>2
<1>2. ASSUME Crash PROVE TypeInv'
  BY <1>2, ExitType, FaultType DEF Crash, TypeOK, GraphInv
<1>3. ASSUME LoseStore PROVE TypeInv'
  <2>1. GraphInv'
    BY <1>3, NoSnapshotType DEF LoseStore, GraphInv
  <2>2. TypeOK'
    BY <1>3, <2>1, GraphType, NoSnapshotType, FaultType DEF LoseStore, TypeOK, GraphInv
  <2>3. PhaseInv'
    BY <1>3 DEF LoseStore, Ready, PhaseInv, Writing
  <2> QED
    BY <2>1, <2>2, <2>3
<1> QED
  BY <1>1, <1>2, <1>3

\* A torn write leaves a text in the file.
LEMMA TornType ==
  ASSUME TypeInv, cur \in Docs, TornFile
  PROVE  disk' \in [Docs -> Text \cup {NoFile}]
<1>1. PICK k \in RenderOf(cur).blocks :
        disk' = [disk EXCEPT ![cur] = Prefix(RenderOf(cur), k.at)]
  BY DEF TornFile
<1>2. RenderOf(cur) \in Text
  BY RenderOfType DEF TypeInv
<1>3. k.at \in Nat
  BY <1>2 DEF Text, BlockSet, Block
<1>4. Prefix(RenderOf(cur), k.at) \in Text
  BY <1>2, <1>3, PrefixType
<1> QED
  BY <1>1, <1>4 DEF TypeInv, TypeOK

LEMMA KillType ==
  ASSUME TypeInv, Kill
  PROVE  TypeInv'
<1>1. CASE TornWrite
  <2>1. cur \in Docs
    BY <1>1 DEF TornWrite, TypeInv, PhaseInv, Writing
  <2>2. disk' \in [Docs -> Text \cup {NoFile}]
    BY <1>1, <2>1, TornType DEF TornWrite
  <2> QED
    BY <1>1, <2>2, ExitType, FaultType DEF TornWrite, TypeInv, TypeOK, GraphInv, graph,
       durable, history
<1>2. ASSUME NEW d \in Docs, CutOne(d) PROVE TypeInv'
  BY <1>2, CutType
<1> QED
  BY <1>1, <1>2, KillIsCut DEF Kill

LEMMA GraphWriteType ==
  ASSUME TypeInv, NEW d \in Docs
  PROVE  /\ \A t \in Texts : WriteDoc(d, t) => TypeInv'
         /\ \A a \in Anchors, b \in Bodies : WriteNarrative(d, a, b) => TypeInv'
         /\ \A s \in Statuses : WriteMeta(d, s) => TypeInv'
         /\ Stamp => TypeInv'
<1> USE DEF TypeInv, graph, durable, memory, process, history
<1>0. secs[d] \in VersionSections /\ node[d] \in VersionNode
  BY DEF GraphInv
<1>1. ASSUME NEW t \in Texts, WriteDoc(d, t)
      PROVE  TypeInv'
  <2>1. t \in Text
    BY SyncAssumption DEF SyncAssumption
  <2>2. Absorb(secs[d], t) \in VersionSections /\ DocNode(t) \in VersionNode
    BY <1>0, <2>1, AbsorbVersion, DocNodeVersion
  <2>3. GraphInv'
    BY <1>1, <2>2 DEF WriteDoc, GraphInv
  <2>4. baseline' \in [Docs -> Text \cup {NoHash}]
    BY <1>1 DEF WriteDoc, TypeOK
  <2>5. node' \in [Docs -> Node] /\ secs' \in [Docs -> Sections]
    BY <2>3, GraphType DEF GraphInv
  <2>6. TypeOK'
    BY <1>1, <2>4, <2>5, FaultType DEF WriteDoc, TypeOK, Phases
  <2>7. PhaseInv'
    BY <1>1 DEF WriteDoc, PhaseInv, Writing
  <2> QED
    BY <2>3, <2>6, <2>7
<1>2. ASSUME NEW a \in Anchors, NEW b \in Bodies, WriteNarrative(d, a, b)
      PROVE  TypeInv'
  <2>1. PICK p \in 0..MaxPosition : secs' = [secs EXCEPT ![d] = PutNarrative(@, a, b, p)]
    BY <1>2 DEF WriteNarrative
  <2>2. p \in Nat
    BY SyncAssumption DEF SyncAssumption
  <2>3. PutNarrative(secs[d], a, b, p) \in VersionSections
    BY <1>0, <2>2, NarrativeVersion
  <2>4. GraphInv'
    BY <1>2, <2>1, <2>3 DEF WriteNarrative, GraphInv
  <2>5. secs' \in [Docs -> Sections]
    BY <2>4, GraphType DEF GraphInv
  <2>6. TypeOK'
    BY <1>2, <2>5, FaultType DEF WriteNarrative, TypeOK, Phases
  <2>7. PhaseInv'
    BY <1>2 DEF WriteNarrative, PhaseInv, Writing
  <2> QED
    BY <2>4, <2>6, <2>7
<1>3. ASSUME NEW s \in Statuses, WriteMeta(d, s)
      PROVE  TypeInv'
  <2>1. GraphInv'
    BY <1>0, <1>3, MetaVersion DEF WriteMeta, GraphInv
  <2>2. node' \in [Docs -> Node]
    BY <2>1, GraphType DEF GraphInv
  <2>3. TypeOK'
    BY <1>3, <2>2, FaultType DEF WriteMeta, TypeOK, Phases
  <2>4. PhaseInv'
    BY <1>3 DEF WriteMeta, PhaseInv, Writing
  <2> QED
    BY <2>1, <2>3, <2>4
<1>4. ASSUME Stamp PROVE TypeInv'
  <2>1. cur \in Docs /\ (Stamping(cur) => disk[cur] # NoFile)
    BY <1>4 DEF Stamp, Stamping, PhaseInv
  <2>2. /\ baseline' \in [Docs -> Text \cup {NoHash}]
        /\ superseded' \in [Docs -> SUBSET Text]
    BY <1>4, <2>1 DEF Stamp, TypeOK
  <2> QED
    BY <1>4, <2>2, ExitType DEF Stamp, TypeOK, GraphInv
<1> QED
  BY <1>1, <1>2, <1>3, <1>4

LEMMA IngestType ==
  ASSUME TypeInv
  PROVE  /\ Ingest => TypeInv'
         /\ IngestEnd => TypeInv'
         /\ \A d \in Docs : \/ IngestSections(d) \/ IngestDocument(d)
                            \/ IngestCleanup(d) \/ IngestStamp(d)
                            => TypeInv'
<1> USE DEF TypeInv, graph, durable, memory, process, history
<1>1. ASSUME Ingest PROVE TypeInv'
  <2>1. TypeOK' /\ GraphInv'
    BY <1>1 DEF Ingest, TypeOK, GraphInv, Phases, OnDisk
  <2>2. PhaseInv'
    BY <1>1 DEF Ingest, PhaseInv, Writing, Scanned, OnDisk
  <2> QED
    BY <2>1, <2>2
<1>2. ASSUME NEW d \in Docs, IngestSections(d) PROVE TypeInv'
  <2>1. scan[d] \in Text /\ secs[d] \in VersionSections
    BY <1>2 DEF IngestSections, Visited, PhaseInv, Scanned, TypeOK, GraphInv
  <2>2. UpsertSections(secs[d], scan[d]) \in VersionSections
    BY <2>1, UpsertVersion
  <2>3. GraphInv'
    BY <1>2, <2>2 DEF IngestSections, GraphInv
  <2>4. TypeOK'
    BY <1>2, <2>3, GraphType DEF IngestSections, Visited, TypeOK, Phases, Scanned, GraphInv
  <2>5. PhaseInv'
    BY <1>2 DEF IngestSections, Visited, PhaseInv, Writing, Scanned
  <2> QED
    BY <2>3, <2>4, <2>5
<1>3. ASSUME NEW d \in Docs, IngestDocument(d) PROVE TypeInv'
  <2>1. scan[d] \in Text
    BY <1>3 DEF IngestDocument, Visited, PhaseInv, Scanned, TypeOK
  <2>2. GraphInv'
    BY <1>3, <2>1, DocNodeVersion DEF IngestDocument, GraphInv
  <2>3. node' \in [Docs -> Node] /\ baseline' \in [Docs -> Text \cup {NoHash}]
    BY <1>3, <2>2, GraphType DEF IngestDocument, TypeOK, GraphInv
  <2>4. TypeOK'
    BY <1>3, <2>3 DEF IngestDocument, Visited, TypeOK, Phases, Scanned
  <2>5. PhaseInv'
    BY <1>3 DEF IngestDocument, Visited, PhaseInv, Writing, Scanned
  <2> QED
    BY <2>2, <2>4, <2>5
<1>4. ASSUME NEW d \in Docs, IngestCleanup(d) PROVE TypeInv'
  <2>1. secs[d] \in VersionSections
    BY DEF GraphInv
  <2>2. GraphInv'
    BY <1>4, <2>1, DropVersion DEF IngestCleanup, GraphInv
  <2>3. TypeOK'
    BY <1>4, <2>2, GraphType DEF IngestCleanup, Visited, TypeOK, Phases, Documents, GraphInv
  <2>4. PhaseInv'
    BY <1>4 DEF IngestCleanup, Visited, PhaseInv, Writing, Scanned
  <2> QED
    BY <2>2, <2>3, <2>4
<1>5. ASSUME NEW d \in Docs, IngestStamp(d) PROVE TypeInv'
  <2>1. /\ baseline' \in [Docs -> Text \cup {NoHash}]
        /\ absorbed' \in [Docs -> SUBSET Text]
    BY <1>5 DEF IngestStamp, Reproduced, TypeOK
  <2>2. TypeOK'
    BY <1>5, <2>1 DEF IngestStamp, TypeOK
  <2>3. PhaseInv' /\ GraphInv'
    BY <1>5 DEF IngestStamp, PhaseInv, Writing, GraphInv
  <2> QED
    BY <2>2, <2>3
<1>6. ASSUME IngestEnd PROVE TypeInv'
  BY <1>6, ExitType DEF IngestEnd, TypeOK, GraphInv
<1> QED
  BY <1>1, <1>2, <1>3, <1>4, <1>5, <1>6

LEMMA FinalizeType ==
  ASSUME TypeInv
  PROVE  /\ \A forced \in BOOLEAN, scope \in SUBSET Docs : Finalize(forced, scope) => TypeInv'
         /\ \A d \in Docs : FinalizeRead(d) => TypeInv'
         /\ FinalizeBackup => TypeInv'
         /\ FinalizeWrite => TypeInv'
         /\ FinalizeBaseline => TypeInv'
         /\ FinalizeError => TypeInv'
<1> USE DEF TypeInv, graph, durable, memory, process, history
<1>0. cmd \in Writing => cur \in Docs /\ RenderOf(cur) \in Text
  BY RenderOfType DEF PhaseInv
<1>1. ASSUME NEW forced \in BOOLEAN, NEW scope \in SUBSET Docs, Finalize(forced, scope)
      PROVE  TypeInv'
  <2>1. TypeOK' /\ GraphInv'
    BY <1>1 DEF Finalize, TypeOK, Phases, GraphInv
  <2>2. PhaseInv'
    BY <1>1 DEF Finalize, PhaseInv, Writing
  <2> QED
    BY <2>1, <2>2
<1>2. ASSUME NEW d \in Docs, FinalizeRead(d) PROVE TypeInv'
  <2> DEFINE plan == PlanStatus(d, disk[d], force)
  <2>1. plan \in {"new", "unchanged", "update", "blocked"}
    BY DEF PlanStatus
  <2>2. /\ cmd' \in {"fin_read"} \cup Writing
        /\ todo' \subseteq todo /\ cur' \in Docs \cup {NoDocument}
        /\ seen' \in {disk[d], NoFile}
        /\ cmd' \in Writing => cur' \in Docs
        /\ cmd' = "fin_backup" => seen' # NoFile
        /\ UNCHANGED <<disk, graph, durable, force, scan, backups, history, faults>>
    BY <1>2, <2>1 DEF FinalizeRead, NextDoc, PlanStatus, Writing
  <2>3. TypeOK' /\ GraphInv'
    BY <2>2 DEF TypeOK, Phases, Writing, GraphInv
  <2>4. PhaseInv'
    BY <2>2 DEF PhaseInv, Writing
  <2> QED
    BY <2>3, <2>4
<1>3. ASSUME FinalizeBackup PROVE TypeInv'
  <2>1. seen \in Text /\ cur \in Docs
    BY <1>3 DEF FinalizeBackup, PhaseInv, TypeOK, Writing
  <2>2. backups' \in [Docs -> SUBSET Text]
    BY <1>3, <2>1 DEF FinalizeBackup, TypeOK
  <2>3. TypeOK' /\ GraphInv'
    BY <1>3, <2>2 DEF FinalizeBackup, TypeOK, Phases, GraphInv
  <2>4. PhaseInv'
    BY <1>3, <2>1 DEF FinalizeBackup, PhaseInv, Writing
  <2> QED
    BY <2>3, <2>4
<1>4. ASSUME FinalizeWrite PROVE TypeInv'
  <2>1. cur \in Docs /\ RenderOf(cur) \in Text
    BY <1>0, <1>4 DEF FinalizeWrite, Writing
  <2>2. TypeOK' /\ GraphInv'
    BY <1>4, <2>1 DEF FinalizeWrite, TypeOK, Phases, GraphInv
  <2>3. PhaseInv'
    BY <1>4, <2>1 DEF FinalizeWrite, PhaseInv, Writing
  <2> QED
    BY <2>2, <2>3
<1>5. ASSUME FinalizeBaseline PROVE TypeInv'
  <2>1. cur \in Docs /\ RenderOf(cur) \in Text
    BY <1>0, <1>5 DEF FinalizeBaseline, Writing
  <2>2. TypeOK' /\ GraphInv'
    BY <1>5, <2>1 DEF FinalizeBaseline, NextDoc, TypeOK, Phases, GraphInv
  <2>3. PhaseInv'
    BY <1>5 DEF FinalizeBaseline, NextDoc, PhaseInv, Writing
  <2> QED
    BY <2>2, <2>3
<1>6. ASSUME FinalizeError PROVE TypeInv'
  <2>1. cur \in Docs
    BY <1>0, <1>6 DEF FinalizeError, Writing
  <2>2. disk' \in [Docs -> Text \cup {NoFile}] /\ baseline' \in [Docs -> Text \cup {NoHash}]
    BY <1>6, <2>1, TornType DEF FinalizeError, TypeOK
  <2>3. TypeOK' /\ GraphInv'
    BY <1>6, <2>2, FaultType DEF FinalizeError, NextDoc, TypeOK, Phases, GraphInv
  <2>4. PhaseInv'
    BY <1>6 DEF FinalizeError, NextDoc, PhaseInv, Writing
  <2> QED
    BY <2>3, <2>4
<1> QED
  BY <1>1, <1>2, <1>3, <1>4, <1>5, <1>6

LEMMA StoreType ==
  ASSUME TypeInv
  PROVE  /\ SnapshotOpen => TypeInv'
         /\ SnapshotDump => TypeInv'
         /\ SnapshotMeta => TypeInv'
         /\ EnsureStore => TypeInv'
         /\ RestoreAll => TypeInv'
         /\ \A docs \in SUBSET Docs, heads \in [Docs -> SUBSET Anchors] :
              RestorePart(docs, heads) => TypeInv'
<1> USE DEF TypeInv, graph, durable, memory, process, history
<1>0. snap \in Snapshot
  BY DEF TypeOK
<1>1. ASSUME SnapshotOpen PROVE TypeInv'
  BY <1>1 DEF SnapshotOpen, TypeOK, Snapshot, Phases, PhaseInv, GraphInv, Writing
<1>2. ASSUME SnapshotDump PROVE TypeInv'
  <2>1. /\ snap' \in Snapshot
        /\ snap'.node = snap.node /\ snap'.secs = snap.secs
    BY <1>0, <1>2 DEF SnapshotDump, Snapshot
  <2>2. TypeOK' /\ GraphInv'
    BY <1>2, <2>1 DEF SnapshotDump, TypeOK, Phases, GraphInv
  <2>3. PhaseInv'
    BY <1>2 DEF SnapshotDump, PhaseInv, Writing
  <2> QED
    BY <2>2, <2>3
<1>3. ASSUME SnapshotMeta PROVE TypeInv'
  BY <1>3, ExitType DEF SnapshotMeta, TypeOK, GraphInv
<1>4. ASSUME EnsureStore PROVE TypeInv'
  BY <1>4 DEF EnsureStore, TypeOK, Phases, PhaseInv, Writing, GraphInv
<1>5. ASSUME RestoreAll PROVE TypeInv'
  <2>1. GraphInv' /\ baseline' \in [Docs -> Text \cup {NoHash}]
    BY <1>0, <1>5 DEF RestoreAll, GraphInv, Snapshot
  <2>2. TypeOK'
    BY <1>5, <2>1, GraphType DEF RestoreAll, TypeOK, Phases, GraphInv
  <2>3. PhaseInv'
    BY <1>5 DEF RestoreAll, PhaseInv, Writing
  <2> QED
    BY <2>1, <2>2, <2>3
<1>6. ASSUME NEW docs \in SUBSET Docs, NEW heads \in [Docs -> SUBSET Anchors],
             RestorePart(docs, heads)
      PROVE  TypeInv'
  <2> DEFINE loaded == [d \in Docs |-> IF d \in docs THEN snap.node[d] ELSE NoDoc]
             hashes == [d \in Docs |-> IF d \in docs THEN snap.baseline[d] ELSE NoHash]
             sections == [d \in Docs |-> [a \in Anchors |->
                            IF a \in heads[d] THEN snap.secs[d][a] ELSE NoSection]]
  <2>1. loaded \in [Docs -> VersionNode]
    BY NoDocVersion DEF GraphInv
  <2>2. hashes \in [Docs -> Text \cup {NoHash}]
    BY <1>0 DEF Snapshot
  <2>3. \A d \in Docs : sections[d] \in VersionSections
    BY NoSectionVersion DEF GraphInv, VersionSections
  <2>4. sections \in [Docs -> VersionSections]
    BY <2>3
  <2>5. PICK d \in Docs :
          \/ /\ \E n \in NodeRemnants(snap.node[d]) : node' = [loaded EXCEPT ![d] = n]
             /\ \E h \in {snap.baseline[d], NoHash} : baseline' = [hashes EXCEPT ![d] = h]
             /\ secs' = sections
          \/ /\ \E a \in Anchors : \E s \in SectionRemnants(snap.secs[d][a]) :
                  secs' = [sections EXCEPT ![d][a] = s]
             /\ node' = loaded /\ baseline' = hashes
    BY <1>6 DEF RestorePart
  <2>6. /\ faults' \in 0..MaxFaults /\ killed' = TRUE /\ cmd' = "idle"
        /\ UNCHANGED <<disk, durable, todo, memory, absorbed, superseded>>
    BY <1>6, FaultType DEF RestorePart, TypeOK
  <2> HIDE DEF loaded, hashes, sections
  <2>7. /\ node' \in [Docs -> VersionNode] /\ secs' \in [Docs -> VersionSections]
        /\ baseline' \in [Docs -> Text \cup {NoHash}]
    <3>1. CASE /\ \E n \in NodeRemnants(snap.node[d]) : node' = [loaded EXCEPT ![d] = n]
               /\ \E h \in {snap.baseline[d], NoHash} : baseline' = [hashes EXCEPT ![d] = h]
               /\ secs' = sections
      <4>1. NodeRemnants(snap.node[d]) \subseteq VersionNode
        BY NodeRemnantsVersion DEF GraphInv
      <4>2. snap.baseline[d] \in Text \cup {NoHash}
        BY <1>0 DEF Snapshot
      <4> QED
        BY <2>1, <2>2, <2>4, <3>1, <4>1, <4>2
    <3>2. CASE /\ \E a \in Anchors : \E s \in SectionRemnants(snap.secs[d][a]) :
                    secs' = [sections EXCEPT ![d][a] = s]
               /\ node' = loaded /\ baseline' = hashes
      <4>0. PICK a \in Anchors : \E s \in SectionRemnants(snap.secs[d][a]) :
              secs' = [sections EXCEPT ![d][a] = s]
        BY <3>2
      <4>a. snap.secs[d][a] \in VersionSection
        BY DEF GraphInv, VersionSections
      <4>1. PICK s \in VersionSection : secs' = [sections EXCEPT ![d][a] = s]
        BY <4>0, <4>a, RemnantsVersion
      <4>2. sections[d] \in VersionSections
        BY <2>4
      <4>3. [sections[d] EXCEPT ![a] = s] \in VersionSections
        BY <4>2 DEF VersionSections
      <4>4. secs' = [sections EXCEPT ![d] = [sections[d] EXCEPT ![a] = s]]
        BY <4>1
      <4>5. secs' \in [Docs -> VersionSections]
        BY <2>4, <4>3, <4>4
      <4> QED
        BY <2>1, <2>2, <3>2, <4>5
    <3> QED
      BY <2>5, <3>1, <3>2
  <2>8. GraphInv'
    BY <2>6, <2>7 DEF GraphInv
  <2>9. TypeOK'
    BY <2>6, <2>7, GraphType DEF TypeOK, Phases
  <2>10. PhaseInv'
    BY <2>6 DEF PhaseInv, Writing
  <2> QED
    BY <2>8, <2>9, <2>10
<1> QED
  BY <1>1, <1>2, <1>3, <1>4, <1>5, <1>6

LEMMA NextType == TypeInv /\ [Next]_vars => TypeInv'
<1> SUFFICES ASSUME TypeInv, [Next]_vars PROVE TypeInv'
  OBVIOUS
<1>1. CASE UNCHANGED vars
  BY <1>1 DEF vars, graph, durable, memory, process, history, TypeInv, TypeOK,
              PhaseInv, GraphInv, Scanned
<1>2. CASE CommandStep
  <2>1. CASE Stamp
    <3>1. cur \in Docs
      BY <2>1 DEF Stamp, TypeInv, PhaseInv
    <3> QED
      BY <2>1, <3>1, GraphWriteType
  <2> QED
    BY <1>2, <2>1, IngestType, FinalizeType, StoreType DEF CommandStep
<1>3. CASE Next /\ ~CommandStep
  BY <1>3, WorldType, KillType, GraphWriteType, IngestType, FinalizeType, StoreType DEF Next
<1> QED
  BY <1>1, <1>2, <1>3

\* Whatever the documents and the faults, the state keeps its type, and no node
\* of the store or the snapshot mixes two versions.
THEOREM TypeCorrect == Spec => []TypeInv
<1> QED
  BY InitType, NextType, PTL DEF Spec

THEOREM TypeSafe == Spec => []TypeOK
<1>1. TypeInv => TypeOK
  BY DEF TypeInv
<1> QED
  BY TypeCorrect, <1>1, PTL

-----------------------------------------------------------------------------
(* Edits survive *)

\* Histories only grow, so what is vouched for stays so.
Growing == \A d \in Docs : absorbed[d] \subseteq absorbed'[d] /\ superseded[d] \subseteq superseded'[d]

\* A kill leaves the histories and the snapshot, and loses no baseline but that
\* of the document it happens in.
LEMMA KillLeaves ==
  ASSUME TypeInv, Kill
  PROVE  /\ UNCHANGED <<absorbed, superseded, snap>>
         /\ \A d \in Docs : baseline'[d] \in {baseline[d], NoHash}
         /\ cmd' = "idle"
<1> USE DEF graph, durable, memory, process, history
<1>1. CASE TornWrite
  BY <1>1 DEF TornWrite, Exit
<1>2. ASSUME NEW d \in Docs, CutOne(d)
      PROVE  /\ UNCHANGED <<absorbed, superseded, snap>>
             /\ \A e \in Docs : baseline'[e] \in {baseline[e], NoHash}
             /\ cmd' = "idle"
  BY <1>2 DEF CutOne, Killed, Exit, TypeInv, TypeOK
<1> QED
  BY <1>1, <1>2, KillIsCut DEF Kill

LEMMA HistoriesGrow == TypeInv /\ Next => Growing
<1> SUFFICES ASSUME TypeInv, Next PROVE Growing
  OBVIOUS
<1> USE DEF Growing, graph, durable, memory, process, history, TypeInv, TypeOK
<1>1. CASE UNCHANGED <<absorbed, superseded>>
  BY <1>1
<1>2. CASE Stamp
  BY <1>2 DEF Stamp
<1>3. ASSUME NEW d \in Docs, IngestStamp(d) PROVE Growing
  BY <1>3 DEF IngestStamp
<1>4. CASE FinalizeWrite \/ FinalizeBaseline
  BY <1>4 DEF FinalizeWrite, FinalizeBaseline
<1>5. CASE CommandStep
  BY <1>1, <1>2, <1>3, <1>4, <1>5 DEF CommandStep, IngestSections, IngestDocument, IngestCleanup,
     IngestEnd, FinalizeRead, FinalizeBackup, SnapshotOpen, SnapshotDump, SnapshotMeta,
     RestoreAll, RestorePart
<1>6. CASE Kill
  BY <1>1, <1>6, KillLeaves
<1>7. CASE Next /\ ~CommandStep /\ ~Kill
  BY <1>1, <1>7 DEF Next, HumanEdit, WriteDoc, WriteNarrative, WriteMeta, Ingest, Finalize,
     EnsureStore, FinalizeError, Crash, LoseStore
<1> QED
  BY <1>5, <1>6, <1>7

\* How baselines and their snapshot may change without losing what vouches for them.
LEMMA BaselineKept ==
  ASSUME TypeInv, BaselineInv, Growing,
         \A d \in Docs :
           /\ baseline'[d] \in {baseline[d], snap.baseline[d], NoHash}
                               \cup absorbed'[d] \cup superseded'[d]
           /\ snap'.baseline[d] \in {snap.baseline[d], baseline[d]}
  PROVE  BaselineInv'
BY DEF BaselineInv, Vouched, Growing

LEMMA InitSafe == Init => SafeInv
BY DEF Init, SafeInv, BaselineInv, SeenInv, BackupInv, NoSnapshot

LEMMA NextBaseline ==
  ASSUME TypeInv, BaselineInv, Next
  PROVE  BaselineInv'
<1> USE DEF graph, durable, memory, process, history
<1>0. Growing
  BY HistoriesGrow
<1>1. CASE UNCHANGED <<baseline, snap>>
  BY <1>0, <1>1, BaselineKept
<1>2. ASSUME NEW d \in Docs, NEW t \in Texts, WriteDoc(d, t) PROVE BaselineInv'
  BY <1>0, <1>2, BaselineKept DEF WriteDoc, TypeInv, TypeOK
<1>3. CASE Stamp
  <2>1. cur \in Docs /\ baseline \in [Docs -> Text \cup {NoHash}]
        /\ superseded \in [Docs -> SUBSET Text]
    BY <1>3 DEF Stamp, TypeInv, PhaseInv, TypeOK
  <2> QED
    BY <1>0, <1>3, <2>1, BaselineKept DEF Stamp
<1>4. ASSUME NEW d \in Docs, IngestDocument(d) PROVE BaselineInv'
  BY <1>0, <1>4, BaselineKept DEF IngestDocument, TypeInv, TypeOK
<1>5. ASSUME NEW d \in Docs, IngestStamp(d) PROVE BaselineInv'
  <2>1. /\ baseline \in [Docs -> Text \cup {NoHash}]
        /\ absorbed \in [Docs -> SUBSET Text]
    BY DEF TypeInv, TypeOK
  <2> QED
    BY <1>0, <1>5, <2>1, BaselineKept DEF IngestStamp, Reproduced
<1>6. CASE FinalizeBaseline
  <2>1. /\ cur \in Docs /\ baseline \in [Docs -> Text \cup {NoHash}]
        /\ absorbed \in [Docs -> SUBSET Text]
    BY <1>6 DEF FinalizeBaseline, TypeInv, PhaseInv, Writing, TypeOK
  <2> QED
    BY <1>0, <1>6, <2>1, BaselineKept DEF FinalizeBaseline
<1>7. CASE LoseStore
  BY <1>0, <1>7, BaselineKept DEF LoseStore, NoSnapshot
<1>8. CASE SnapshotOpen
  BY <1>0, <1>8, BaselineKept DEF SnapshotOpen
<1>9. CASE SnapshotDump
  <2>1. snap'.baseline = snap.baseline
    BY <1>9 DEF SnapshotDump, TypeInv, TypeOK, Snapshot
  <2> QED
    BY <1>0, <1>9, <2>1, BaselineKept DEF SnapshotDump
<1>10. CASE RestoreAll
  BY <1>0, <1>10, BaselineKept DEF RestoreAll
<1>11. ASSUME NEW docs \in SUBSET Docs, NEW heads \in [Docs -> SUBSET Anchors],
              RestorePart(docs, heads)
       PROVE  BaselineInv'
  <2>1. /\ UNCHANGED snap
        /\ \A d \in Docs : baseline'[d] \in {snap.baseline[d], NoHash}
    BY <1>11 DEF RestorePart
  <2> QED
    BY <1>0, <2>1, BaselineKept
<1>12. CASE FinalizeError
  <2>1. /\ UNCHANGED snap
        /\ \A d \in Docs : baseline'[d] \in {baseline[d], NoHash}
    BY <1>12 DEF FinalizeError, TypeInv, TypeOK
  <2> QED
    BY <1>0, <2>1, BaselineKept
<1>13. CASE Kill
  BY <1>0, <1>13, KillLeaves, BaselineKept
<1>14. CASE CommandStep
  BY <1>1, <1>3, <1>4, <1>5, <1>6, <1>8, <1>9, <1>10, <1>11, <1>14
  DEF CommandStep, IngestSections, IngestCleanup, IngestEnd, FinalizeRead, FinalizeBackup,
      FinalizeWrite, SnapshotMeta
<1>15. CASE Next /\ ~CommandStep /\ ~Kill
  BY <1>1, <1>2, <1>7, <1>12, <1>15 DEF Next, HumanEdit, WriteNarrative, WriteMeta, Ingest,
     Finalize, EnsureStore, Crash
<1> QED
  BY <1>13, <1>14, <1>15

\* Only finalize's own steps and an edit elsewhere happen between its read and
\* its write of a document.
LEMMA NextSeen ==
  ASSUME EditorQuiet, TypeInv, BaselineInv, SeenInv, BackupInv, Next
  PROVE  SeenInv' /\ BackupInv'
<1> USE DEF graph, durable, memory, process, history
<1>0. Growing
  BY HistoriesGrow
<1>1. CASE cmd' \notin {"fin_backup", "fin_write"}
  BY <1>1 DEF SeenInv, BackupInv
<1>2. ASSUME NEW d \in Docs, NEW t \in Texts \cup {NoFile}, HumanEdit(d, t)
      PROVE  SeenInv' /\ BackupInv'
  <2>1. cmd \in {"fin_backup", "fin_write"} => disk'[cur] = disk[cur]
    BY <1>2 DEF HumanEdit, TypeInv, TypeOK
  <2> QED
    BY <1>2, <2>1 DEF HumanEdit, SeenInv, BackupInv, Vouched, RenderOf
<1>3. ASSUME NEW d \in Docs, FinalizeRead(d)
      PROVE  SeenInv' /\ BackupInv'
  <2> DEFINE plan == PlanStatus(d, disk[d], force)
  <2>1. /\ cmd' \in {"fin_backup", "fin_write"} => cur' = d /\ seen' = disk[d]
        /\ force' = force
        /\ RenderOf(d)' = RenderOf(d)
        /\ UNCHANGED <<disk, history>>
        /\ cmd' = "fin_backup" => plan = "update"
        /\ cmd' = "fin_write" => plan = "new"
    BY <1>3 DEF FinalizeRead, NextDoc, PlanStatus, RenderOf
  <2>2. plan = "new" => disk[d] = NoFile
    BY DEF PlanStatus
  <2>3. ASSUME plan = "update"
        PROVE  force \/ Vouched(d, disk[d]) \/ Equivalent(disk[d], RenderOf(d))
    <3>1. disk[d] # NoFile
      BY <2>3 DEF PlanStatus
    <3>2. disk[d] \in Text /\ NoHash \notin Text
      BY <3>1, SyncAssumption DEF TypeInv, TypeOK, SyncAssumption
    <3>3. force \/ disk[d] = baseline[d] \/ Equivalent(disk[d], RenderOf(d))
      BY <2>3 DEF PlanStatus
    <3> QED
      BY <3>2, <3>3 DEF BaselineInv
  <2> HIDE DEF plan
  <2>4. SeenInv'
    BY <2>1, <2>2, <2>3 DEF SeenInv, Vouched, RenderOf
  <2>5. BackupInv'
    BY <2>1, <2>2 DEF BackupInv
  <2> QED
    BY <2>4, <2>5
<1>4. CASE FinalizeBackup
  <2>1. cur \in Docs /\ backups \in [Docs -> SUBSET Text]
    BY <1>4 DEF FinalizeBackup, TypeInv, PhaseInv, Writing, TypeOK
  <2> QED
    BY <1>4, <2>1 DEF FinalizeBackup, SeenInv, BackupInv, Vouched, RenderOf
<1>5. CASE CommandStep
  BY <1>1, <1>3, <1>4, <1>5 DEF CommandStep, Stamp, Exit, IngestSections, IngestDocument,
     IngestCleanup, IngestStamp, IngestEnd, Visited, FinalizeWrite, FinalizeBaseline, NextDoc,
     SnapshotOpen, SnapshotDump, SnapshotMeta, RestoreAll, RestorePart
<1>6. CASE Kill
  BY <1>1, <1>6, KillLeaves
<1>7. CASE Next /\ ~CommandStep /\ ~Kill
  BY <1>1, <1>2, <1>7 DEF Next, WriteDoc, WriteNarrative, WriteMeta, Ingest, Finalize,
     EnsureStore, FinalizeError, NextDoc, Crash, Exit, LoseStore, Ready
<1> QED
  BY <1>5, <1>6, <1>7

LEMMA NextSafe == EditorQuiet /\ TypeInv /\ SafeInv /\ [Next]_vars => SafeInv'
<1> SUFFICES ASSUME EditorQuiet, TypeInv, SafeInv, [Next]_vars PROVE SafeInv'
  OBVIOUS
<1>1. CASE UNCHANGED vars
  BY <1>1 DEF vars, graph, durable, memory, process, history, SafeInv, BaselineInv, SeenInv,
              BackupInv, Vouched, RenderOf
<1>2. CASE Next
  BY <1>2, NextBaseline, NextSeen DEF SafeInv
<1> QED
  BY <1>1, <1>2

LEMMA SafeInvariant == ASSUME EditorQuiet PROVE Spec => [](TypeInv /\ SafeInv)
<1>1. Init => TypeInv /\ SafeInv
  BY InitType, InitSafe
<1>2. TypeInv /\ SafeInv /\ [Next]_vars => (TypeInv /\ SafeInv)'
  BY NextType, NextSafe
<1> QED
  BY <1>1, <1>2, PTL DEF Spec

\* While nobody saves a file between finalize's read and its write of it, an
\* unforced finalize replaces no edit that the graph has not absorbed or a
\* graph-side write superseded, after any crashes, restores and torn writes.
THEOREM EditsSurvive == ASSUME EditorQuiet PROVE Spec => EditsSurviveFinalize
<1>1. TypeInv /\ SafeInv =>
        ((cmd = "fin_write" /\ ~force /\ disk'[cur] # disk[cur]) =>
           \/ disk[cur] \in absorbed[cur] \cup superseded[cur] \cup {NoFile}
           \/ Equivalent(disk[cur], RenderOf(cur)))
  BY DEF SafeInv, SeenInv, Vouched
<1> QED
  BY <1>1, SafeInvariant, PTL DEF EditsSurviveFinalize

\* Under the same condition whatever finalize overwrites, with or without
\* --force, completely or torn, is in the run's backup directory.
THEOREM OverwritesBackedUp == ASSUME EditorQuiet PROVE Spec => OverwritesAreBackedUp
<1>1. TypeInv /\ SafeInv =>
        ((cmd = "fin_write" /\ disk'[cur] # disk[cur]) =>
           disk[cur] \in backups[cur] \cup {NoFile})
  BY DEF SafeInv, SeenInv, BackupInv
<1> QED
  BY <1>1, SafeInvariant, PTL DEF OverwritesAreBackedUp

-----------------------------------------------------------------------------
(* Ingest *)

\* A node that carries its content hash has its other quads.
WholeSection == {s \in VersionSection : s.hash # NoBody => s.part /\ s.body = s.hash}
WholeSections == [Anchors -> WholeSection]
WholeNode == {n \in VersionNode : n.hash \in Text => n = DocNode(n.hash)}

\* Before the first kill in the middle of a node every node is whole.
WholeInv ==
  ~killed => /\ node \in [Docs -> WholeNode] /\ secs \in [Docs -> WholeSections]
             /\ snap.node \in [Docs -> WholeNode] /\ snap.secs \in [Docs -> WholeSections]

\* The sections of d carry the hashes of the file as it was parsed.
BodiesAbsorbed(d) ==
  \A a \in Headings(scan[d]) : secs[d][a].hash = FirstBlock(scan[d], a).body

NodeAbsorbed(d) == node[d].hash = scan[d]

NoneStale(d) == Attached(secs[d]) \subseteq Headings(scan[d])

\* Each phase of an ingest has done its part for the documents it has visited,
\* and the phases before it for all of them.
AbsorbInv ==
  /\ cmd = "ing_sections" => \A d \in Scanned \ todo : BodiesAbsorbed(d)
  /\ cmd = "ing_documents" =>
       /\ \A d \in Scanned : BodiesAbsorbed(d)
       /\ \A d \in Scanned \ todo : NodeAbsorbed(d)
  /\ cmd = "ing_cleanup" =>
       /\ \A d \in Scanned : BodiesAbsorbed(d) /\ NodeAbsorbed(d)
       /\ \A d \in Scanned \ todo : NoneStale(d)
  /\ cmd = "ing_stamp" =>
       \A d \in Scanned : BodiesAbsorbed(d) /\ NodeAbsorbed(d) /\ NoneStale(d)

\* The approval gate of the batch still holds for what the batch has to write.
GateInv ==
  /\ cmd = "ing_sections" => \A d \in Scanned : Replaceable(d, scan[d], FALSE)
  /\ cmd = "ing_documents" => \A d \in todo : Replaceable(d, scan[d], FALSE)

IngestInv == WholeInv /\ AbsorbInv /\ GateInv

LEMMA NothingWhole ==
  /\ NoSection \in WholeSection /\ NoSections \in WholeSections /\ NoDoc \in WholeNode
<1>1. NoSection \in WholeSection
  BY NoSectionVersion DEF WholeSection, NoSection
<1>2. NoSections \in WholeSections
  BY <1>1 DEF NoSections, WholeSections
<1>3. NoDoc.hash \notin Text
  BY SyncAssumption DEF NoDoc, SyncAssumption
<1> QED
  BY <1>1, <1>2, <1>3, NoDocVersion DEF WholeNode

LEMMA InitIngest == Init => IngestInv
BY NothingWhole DEF Init, IngestInv, WholeInv, AbsorbInv, GateInv, NoSnapshot

LEMMA WholeNodes ==
  /\ \A t \in Text : DocNode(t) \in WholeNode
  /\ \A n \in WholeNode, s \in Statuses : MetaNode(n, s) \in WholeNode
<1>1. ASSUME NEW t \in Text PROVE DocNode(t) \in WholeNode
  <2>1. DocNode(t).hash = t
    BY DEF DocNode
  <2> QED
    BY <2>1, DocNodeVersion DEF WholeNode
<1>2. ASSUME NEW n \in WholeNode, NEW s \in Statuses PROVE MetaNode(n, s) \in WholeNode
  <2>1. n \in VersionNode /\ n \in Node
    BY DEF WholeNode, VersionNode
  <2>2. MetaNode(n, s).hash = MetaHash
    BY <2>1 DEF MetaNode, Node
  <2> QED
    BY <2>1, <2>2, MetaVersion, SyncAssumption DEF WholeNode, SyncAssumption
<1> QED
  BY <1>1, <1>2

LEMMA SectionNodeWhole ==
  ASSUME NEW body \in Bodies, NEW p \in Nat
  PROVE  SectionNode(body, p) \in WholeSection
BY SectionNodeVersion DEF SectionNode, WholeSection

LEMMA UpsertWhole ==
  ASSUME NEW ss \in WholeSections, NEW t \in Text
  PROVE  UpsertSections(ss, t) \in WholeSections
<1> SUFFICES ASSUME NEW a \in Headings(t) PROVE Extract(t)[a] \in WholeSection
  BY DEF UpsertSections, UpsertSection, WholeSections
<1> DEFINE H == {b \in Headings(t) : FirstBlock(t, b).at < FirstBlock(t, a).at}
<1>1. Cardinality(H) \in Nat
  BY AnchorCount DEF Headings
<1>2. FirstBlock(t, a).body \in Bodies
  BY FirstBlockExists DEF Block
<1>3. Extract(t)[a] = SectionNode(FirstBlock(t, a).body, Cardinality(H))
  BY DEF Extract, Headings
<1> HIDE DEF H
<1> QED
  BY <1>1, <1>2, <1>3, SectionNodeWhole

LEMMA DropWhole ==
  ASSUME NEW ss \in WholeSections, NEW t
  PROVE  DropStale(ss, t) \in WholeSections
BY NothingWhole DEF DropStale, WholeSections

LEMMA NarrativeWhole ==
  ASSUME NEW ss \in WholeSections, NEW a \in Anchors, NEW body \in Bodies, NEW p \in Nat
  PROVE  PutNarrative(ss, a, body, p) \in WholeSections
<1>1. ss[a].pos \in Nat \cup {NoPos}
  BY DEF WholeSections, WholeSection, VersionSection, Section
<1>2. (IF ss[a].pos = NoPos THEN p ELSE ss[a].pos) \in Nat
  BY <1>1
<1>3. SectionNode(body, IF ss[a].pos = NoPos THEN p ELSE ss[a].pos) \in WholeSection
  BY <1>2, SectionNodeWhole
<1> QED
  BY <1>3 DEF PutNarrative, WholeSections

\* What an upsert and the stale cleanup leave under the headings of the file.
LEMMA UpsertHashes ==
  ASSUME NEW old \in Sections, NEW t \in Text, NEW a \in Headings(t)
  PROVE  UpsertSections(old, t)[a].hash = FirstBlock(t, a).body
<1>1. a \in Anchors
  BY DEF Headings
<1>2. Extract(t)[a].hash = FirstBlock(t, a).body
  BY <1>1 DEF Extract, SectionNode
<1> QED
  BY <1>1, <1>2 DEF UpsertSections, UpsertSection

LEMMA DropLeaves ==
  ASSUME NEW old \in Sections, NEW t \in Text
  PROVE  /\ Attached(DropStale(old, t)) \subseteq Headings(t)
         /\ \A a \in Headings(t) : DropStale(old, t)[a] = old[a]
<1>1. Headings(t) \subseteq Anchors
  BY DEF Headings
<1>2. \A a \in Anchors :
        DropStale(old, t)[a] = IF a \in Stale(old, t) THEN NoSection ELSE old[a]
  BY DEF DropStale
<1>3. NoSection.part = FALSE
  BY DEF NoSection
<1> QED
  BY <1>1, <1>2, <1>3 DEF Attached, Stale

LEMMA NextWhole ==
  ASSUME TypeInv, WholeInv, Next
  PROVE  WholeInv'
<1> USE DEF graph, durable, memory, process, history
<1>1. CASE UNCHANGED <<node, secs, snap, killed>>
  BY <1>1 DEF WholeInv
<1>2. CASE killed'
  BY <1>2 DEF WholeInv
<1>3. ASSUME NEW d \in Docs, NEW t \in Texts, WriteDoc(d, t) PROVE WholeInv'
  <2>1. t \in Text
    BY SyncAssumption DEF SyncAssumption
  <2>2. ASSUME ~killed PROVE Absorb(secs[d], t) \in WholeSections /\ DocNode(t) \in WholeNode
    BY <2>1, <2>2, UpsertWhole, DropWhole, WholeNodes DEF Absorb, WholeInv
  <2> QED
    BY <1>3, <2>2 DEF WriteDoc, WholeInv
<1>4. ASSUME NEW d \in Docs, NEW a \in Anchors, NEW b \in Bodies, WriteNarrative(d, a, b)
      PROVE  WholeInv'
  <2>1. PICK p \in 0..MaxPosition : secs' = [secs EXCEPT ![d] = PutNarrative(@, a, b, p)]
    BY <1>4 DEF WriteNarrative
  <2>2. p \in Nat
    BY SyncAssumption DEF SyncAssumption
  <2>3. ~killed => PutNarrative(secs[d], a, b, p) \in WholeSections
    BY <2>2, NarrativeWhole DEF WholeInv
  <2> QED
    BY <1>4, <2>1, <2>3 DEF WriteNarrative, WholeInv
<1>5. ASSUME NEW d \in Docs, NEW s \in Statuses, WriteMeta(d, s) PROVE WholeInv'
  <2>1. ~killed => MetaNode(node[d], s) \in WholeNode
    BY WholeNodes DEF WholeInv
  <2> QED
    BY <1>5, <2>1 DEF WriteMeta, WholeInv
<1>6. ASSUME NEW d \in Docs, IngestSections(d) PROVE WholeInv'
  <2>1. scan[d] \in Text
    BY <1>6 DEF IngestSections, Visited, TypeInv, PhaseInv, Scanned, TypeOK
  <2>2. ~killed => UpsertSections(secs[d], scan[d]) \in WholeSections
    BY <2>1, UpsertWhole DEF WholeInv
  <2> QED
    BY <1>6, <2>2 DEF IngestSections, WholeInv
<1>7. ASSUME NEW d \in Docs, IngestDocument(d) PROVE WholeInv'
  <2>1. scan[d] \in Text
    BY <1>7 DEF IngestDocument, Visited, TypeInv, PhaseInv, Scanned, TypeOK
  <2> QED
    BY <1>7, <2>1, WholeNodes DEF IngestDocument, WholeInv
<1>8. ASSUME NEW d \in Docs, IngestCleanup(d) PROVE WholeInv'
  <2>1. ~killed => DropStale(secs[d], scan[d]) \in WholeSections
    BY DropWhole DEF WholeInv
  <2> QED
    BY <1>8, <2>1 DEF IngestCleanup, WholeInv
<1>9. CASE LoseStore
  BY <1>9, NothingWhole DEF LoseStore, WholeInv, NoSnapshot
<1>10. CASE SnapshotOpen
  BY <1>10 DEF SnapshotOpen, WholeInv
<1>11. CASE SnapshotDump
  <2>1. snap'.node = snap.node /\ snap'.secs = snap.secs
    BY <1>11 DEF SnapshotDump, TypeInv, TypeOK, Snapshot
  <2> QED
    BY <1>11, <2>1 DEF SnapshotDump, WholeInv
<1>12. CASE RestoreAll
  BY <1>12 DEF RestoreAll, WholeInv
<1>13. CASE CommandStep
  BY <1>1, <1>2, <1>6, <1>7, <1>8, <1>10, <1>11, <1>12, <1>13
  DEF CommandStep, Stamp, IngestStamp, IngestEnd, FinalizeRead,
      FinalizeBackup, FinalizeWrite, FinalizeBaseline, SnapshotMeta, RestorePart
<1>14. CASE Kill
  <2>1. CASE TornWrite
    BY <1>1, <2>1 DEF TornWrite
  <2>2. ASSUME NEW d \in Docs, CutOne(d) PROVE WholeInv'
    BY <1>2, <2>2 DEF CutOne, Killed
  <2> QED
    BY <1>14, <2>1, <2>2, KillIsCut DEF Kill
<1>15. CASE Next /\ ~CommandStep /\ ~Kill
  BY <1>1, <1>3, <1>4, <1>5, <1>9, <1>15 DEF Next, HumanEdit, Ingest, Finalize,
     EnsureStore, FinalizeError, Crash
<1> QED
  BY <1>13, <1>14, <1>15

IngestPhases == {"ing_sections", "ing_documents", "ing_cleanup", "ing_stamp"}

LEMMA NextAbsorb ==
  ASSUME TypeInv, IngestInv, Next
  PROVE  AbsorbInv' /\ GateInv'
<1> USE DEF graph, durable, memory, process, history
<1>1. CASE cmd' \notin IngestPhases
  BY <1>1 DEF AbsorbInv, GateInv, IngestPhases
<1>2. CASE UNCHANGED <<cmd, todo, scan, node, secs>>
  BY <1>2 DEF IngestInv, AbsorbInv, GateInv, Scanned, BodiesAbsorbed, NodeAbsorbed,
              NoneStale, Replaceable
<1>3. CASE Ingest
  BY <1>3 DEF Ingest, IngestAllowed, AbsorbInv, GateInv, Scanned, OnDisk, Replaceable
<1>4. ASSUME NEW d \in Docs, IngestSections(d) PROVE AbsorbInv' /\ GateInv'
  <2>1. /\ cmd = "ing_sections" /\ d \in todo /\ d \in Scanned /\ scan[d] \in Text
        /\ secs[d] \in Sections
    BY <1>4 DEF IngestSections, Visited, TypeInv, TypeOK, PhaseInv, Scanned
  <2>2. UNCHANGED <<scan, node>> /\ Scanned' = Scanned
    BY <1>4 DEF IngestSections, Visited, Scanned
  <2>3. secs' = [secs EXCEPT ![d] = UpsertSections(secs[d], scan[d])]
    BY <1>4 DEF IngestSections
  <2>4. BodiesAbsorbed(d)'
    BY <2>1, <2>2, <2>3, UpsertHashes DEF BodiesAbsorbed, TypeInv, TypeOK
  <2>5. \A e \in Scanned \ todo : BodiesAbsorbed(e)'
    <3> SUFFICES ASSUME NEW e \in Scanned \ todo PROVE BodiesAbsorbed(e)'
      OBVIOUS
    <3>1. e # d /\ BodiesAbsorbed(e)
      BY <2>1 DEF IngestInv, AbsorbInv
    <3>2. secs'[e] = secs[e]
      BY <2>3, <3>1 DEF TypeInv, TypeOK, Scanned
    <3> QED
      BY <2>2, <3>1, <3>2 DEF BodiesAbsorbed
  <2>6. \A e \in Scanned : Replaceable(e, scan[e], FALSE)'
    BY <2>1, <2>2 DEF IngestInv, GateInv, Replaceable
  <2>7. CASE todo = {d}
    BY <1>4, <2>2, <2>4, <2>5, <2>6, <2>7
    DEF IngestSections, Visited, AbsorbInv, GateInv
  <2>8. CASE todo # {d}
    BY <1>4, <2>2, <2>4, <2>5, <2>6, <2>8
    DEF IngestSections, Visited, AbsorbInv, GateInv
  <2> QED
    BY <2>7, <2>8
<1>5. ASSUME NEW d \in Docs, IngestDocument(d) PROVE AbsorbInv' /\ GateInv'
  <2>1. cmd = "ing_documents" /\ d \in todo /\ d \in Scanned /\ scan[d] \in Text
    BY <1>5 DEF IngestDocument, Visited, TypeInv, TypeOK, PhaseInv, Scanned
  <2>2. UNCHANGED <<scan, secs>> /\ Scanned' = Scanned
    BY <1>5 DEF IngestDocument, Visited, Scanned
  <2>3. \A e \in Scanned : BodiesAbsorbed(e)'
    BY <2>1, <2>2 DEF IngestInv, AbsorbInv, BodiesAbsorbed
  <2>4. \A e \in Docs \ {d} : node'[e] = node[e]
    BY <1>5 DEF IngestDocument, TypeInv, TypeOK
  <2>5. NodeAbsorbed(d)'
    BY <1>5, <2>1, <2>2 DEF IngestDocument, NodeAbsorbed, DocNode, TypeInv, TypeOK
  <2>6. \A e \in Scanned \ todo : NodeAbsorbed(e)'
    BY <2>1, <2>2, <2>4 DEF IngestInv, AbsorbInv, NodeAbsorbed, Scanned
  <2>7. \A e \in todo \ {d} : Replaceable(e, scan[e], FALSE)'
    BY <2>1, <2>2, <2>4 DEF IngestInv, GateInv, Replaceable, TypeInv, TypeOK
  <2>8. CASE todo = {d}
    BY <1>5, <2>2, <2>3, <2>5, <2>6, <2>8 DEF IngestDocument, Visited, AbsorbInv, GateInv
  <2>9. CASE todo # {d}
    BY <1>5, <2>2, <2>3, <2>5, <2>6, <2>7, <2>9
    DEF IngestDocument, Visited, AbsorbInv, GateInv
  <2> QED
    BY <2>8, <2>9
<1>6. ASSUME NEW d \in Docs, IngestCleanup(d) PROVE AbsorbInv' /\ GateInv'
  <2>1. /\ cmd = "ing_cleanup" /\ d \in todo /\ d \in Scanned /\ scan[d] \in Text
        /\ secs[d] \in Sections
    BY <1>6 DEF IngestCleanup, Visited, TypeInv, TypeOK, PhaseInv, Scanned
  <2>2. UNCHANGED <<scan, node>> /\ Scanned' = Scanned
    BY <1>6 DEF IngestCleanup, Visited, Scanned
  <2>3. secs' = [secs EXCEPT ![d] = DropStale(secs[d], scan[d])]
    BY <1>6 DEF IngestCleanup
  <2>4. \A e \in Scanned : NodeAbsorbed(e)'
    BY <2>1, <2>2 DEF IngestInv, AbsorbInv, NodeAbsorbed
  <2>5. BodiesAbsorbed(d)
    BY <2>1 DEF IngestInv, AbsorbInv
  <2>6. secs'[d] = DropStale(secs[d], scan[d])
    BY <2>3 DEF TypeInv, TypeOK
  <2>7. BodiesAbsorbed(d)' /\ NoneStale(d)'
    BY <2>1, <2>2, <2>5, <2>6, DropLeaves DEF BodiesAbsorbed, NoneStale
  <2>8. \A e \in Docs \ {d} : secs'[e] = secs[e]
    BY <2>3 DEF TypeInv, TypeOK
  <2>9. \A e \in Scanned : BodiesAbsorbed(e)'
    BY <2>1, <2>2, <2>7, <2>8 DEF IngestInv, AbsorbInv, BodiesAbsorbed, Scanned
  <2>10. \A e \in Scanned \ todo : NoneStale(e)'
    BY <2>1, <2>2, <2>8 DEF IngestInv, AbsorbInv, NoneStale, Scanned
  <2>11. CASE todo = {d}
    BY <1>6, <2>2, <2>4, <2>7, <2>9, <2>10, <2>11
    DEF IngestCleanup, Visited, AbsorbInv, GateInv
  <2>12. CASE todo # {d}
    BY <1>6, <2>2, <2>4, <2>7, <2>9, <2>10, <2>12
    DEF IngestCleanup, Visited, AbsorbInv, GateInv
  <2> QED
    BY <2>11, <2>12
<1>7. ASSUME NEW d \in Docs, IngestStamp(d) PROVE AbsorbInv' /\ GateInv'
  BY <1>7 DEF IngestStamp, IngestInv, AbsorbInv, GateInv, Scanned, BodiesAbsorbed,
              NodeAbsorbed, NoneStale
<1>8. ASSUME NEW d \in Docs, FinalizeRead(d) PROVE AbsorbInv' /\ GateInv'
  <2>1. cmd' \notin IngestPhases
    BY <1>8 DEF FinalizeRead, NextDoc, PlanStatus, IngestPhases
  <2> QED
    BY <1>1, <2>1
<1>9. CASE CommandStep
  BY <1>1, <1>4, <1>5, <1>6, <1>7, <1>8, <1>9
  DEF IngestPhases, CommandStep, Stamp, Exit, IngestEnd, FinalizeBackup, FinalizeWrite,
      FinalizeBaseline, NextDoc, SnapshotOpen, SnapshotDump, SnapshotMeta, RestoreAll,
      RestorePart
<1>10. CASE Kill
  BY <1>1, <1>10, KillLeaves DEF IngestPhases
<1>11. CASE Next /\ ~CommandStep /\ ~Kill
  BY <1>1, <1>2, <1>3, <1>11
  DEF IngestPhases, Next, HumanEdit, WriteDoc, WriteNarrative, WriteMeta, Finalize,
      EnsureStore, FinalizeError, NextDoc, Crash, Exit, LoseStore, Ready
<1> QED
  BY <1>9, <1>10, <1>11

LEMMA IngestInvariant == Spec => [](TypeInv /\ IngestInv)
<1>1. Init => TypeInv /\ IngestInv
  BY InitType, InitIngest
<1>2. TypeInv /\ IngestInv /\ [Next]_vars => (TypeInv /\ IngestInv)'
  <2> SUFFICES ASSUME TypeInv, IngestInv, [Next]_vars PROVE TypeInv' /\ IngestInv'
    OBVIOUS
  <2>1. TypeInv'
    BY NextType
  <2>2. CASE UNCHANGED vars
    <3> USE <2>2 DEF vars, graph, durable, memory, process, history
    <3>1. WholeInv'
      BY DEF IngestInv, WholeInv
    <3>2. AbsorbInv'
      BY DEF IngestInv, AbsorbInv, Scanned, BodiesAbsorbed, NodeAbsorbed, NoneStale
    <3>3. GateInv'
      BY DEF IngestInv, GateInv, Scanned, Replaceable
    <3> QED
      BY <2>1, <3>1, <3>2, <3>3 DEF IngestInv
  <2>3. CASE Next
    <3>1. WholeInv'
      BY <2>3, NextWhole DEF IngestInv
    <3>2. AbsorbInv' /\ GateInv'
      BY <2>3, NextAbsorb
    <3> QED
      BY <2>1, <3>1, <3>2 DEF IngestInv
  <2> QED
    BY <2>1, <2>2, <2>3
<1> QED
  BY <1>1, <1>2, PTL DEF Spec

\* When an ingest reaches its last phase the graph carries the hashes of what the
\* parsed files say, for every batch and whatever kills and losses came before;
\* it says what they say in every node that no kill has cut.
THEOREM IngestAbsorbsFiles == Spec => []IngestAbsorbs
<1>1. TypeInv /\ IngestInv => IngestAbsorbs
  <2> SUFFICES ASSUME TypeInv, IngestInv, cmd = "ing_stamp", NEW d \in Scanned
               PROVE  /\ node[d].hash = scan[d]
                      /\ node[d] = DocNode(scan[d]) \/ (killed /\ HalfDoc(node[d]))
                      /\ Attached(secs[d]) \subseteq Headings(scan[d])
                      /\ \A a \in Headings(scan[d]) :
                           /\ secs[d][a].hash = FirstBlock(scan[d], a).body
                           /\ \/ secs[d][a].part /\ secs[d][a].body = secs[d][a].hash
                              \/ killed /\ HalfSection(secs[d][a])
    BY DEF IngestAbsorbs
  <2>1. /\ d \in Docs /\ scan[d] \in Text
        /\ node[d] \in VersionNode /\ secs[d] \in VersionSections
        /\ killed \in BOOLEAN
    BY DEF Scanned, TypeInv, TypeOK, GraphInv
  <2>2. BodiesAbsorbed(d) /\ NodeAbsorbed(d) /\ NoneStale(d)
    BY DEF IngestInv, AbsorbInv
  <2>3. node[d] = DocNode(scan[d]) \/ (killed /\ HalfDoc(node[d]))
    <3>1. CASE ~killed
      BY <2>1, <2>2, <3>1 DEF IngestInv, WholeInv, WholeNode, NodeAbsorbed
    <3>2. CASE killed /\ ~HalfDoc(node[d])
      <4>1. /\ node[d].type = TRUE /\ node[d].path = TRUE /\ node[d].hash = scan[d]
            /\ node[d].front = scan[d].status /\ node[d].status = scan[d].status
        BY <2>1, <2>2, <3>2 DEF HalfDoc, NodeAbsorbed, VersionNode, Node
      <4>2. node[d] = [type |-> node[d].type, hash |-> node[d].hash, status |-> node[d].status,
                       front |-> node[d].front, path |-> node[d].path]
        BY <2>1 DEF VersionNode, Node
      <4> QED
        BY <4>1, <4>2 DEF DocNode
    <3> QED
      BY <2>1, <3>1, <3>2
  <2>4. ASSUME NEW a \in Headings(scan[d])
        PROVE  /\ secs[d][a].hash = FirstBlock(scan[d], a).body
               /\ \/ secs[d][a].part /\ secs[d][a].body = secs[d][a].hash
                  \/ killed /\ HalfSection(secs[d][a])
    <3>1. a \in Anchors /\ FirstBlock(scan[d], a).body \in Bodies
      BY <2>1, FirstBlockExists DEF Headings, Block
    <3>2. secs[d][a].hash = FirstBlock(scan[d], a).body
      BY <2>2 DEF BodiesAbsorbed
    <3>3. secs[d][a] \in VersionSection /\ secs[d][a].hash # NoBody
      BY <2>1, <3>1, <3>2, StructureAssumption DEF VersionSections, StructureAssumption
    <3>4. CASE ~killed
      <4>1. secs[d][a] \in WholeSection
        BY <2>1, <3>1, <3>4 DEF IngestInv, WholeInv, WholeSections
      <4> QED
        BY <3>2, <3>3, <4>1 DEF WholeSection
    <3>5. CASE killed
      BY <3>2, <3>3, <3>5 DEF HalfSection, VersionSection, Section
    <3> QED
      BY <2>1, <3>4, <3>5
  <2> QED
    BY <2>2, <2>3, <2>4 DEF NodeAbsorbed, NoneStale
<1> QED
  BY <1>1, IngestInvariant, PTL

\* The batch gate, asked before anything is written, protects every approved
\* node until the last document of the batch is written.
THEOREM ApprovedNodes == Spec => ApprovedNodeStands
<1> DEFINE Stands == \A d \in Docs :
      (cmd = "ing_documents" /\ node[d].status = "approved") => node'[d] = node[d]
<1>1. TypeInv /\ IngestInv /\ Next => Stands
  <2> SUFFICES ASSUME TypeInv, IngestInv, Next, cmd = "ing_documents",
                      NEW d \in Docs, node[d].status = "approved"
               PROVE  node'[d] = node[d]
    OBVIOUS
  <2> USE DEF graph, durable, memory, process, history
  <2>1. CASE UNCHANGED node
    BY <2>1
  <2>2. \A e \in todo : e = d => node[e].hash = scan[e]
    BY DEF IngestInv, GateInv, Replaceable
  <2>3. ASSUME NEW e \in Docs, IngestDocument(e) PROVE node'[d] = node[d]
    <3>1. CASE e = d
      <4>1. node[d].hash = scan[d]
        BY <2>2, <2>3, <3>1 DEF IngestDocument, Visited
      <4> QED
        BY <2>3, <3>1, <4>1 DEF IngestDocument
    <3>2. CASE e # d
      BY <2>3, <3>2 DEF IngestDocument, TypeInv, TypeOK
    <3> QED
      BY <3>1, <3>2
  <2>4. ASSUME NEW e \in Docs, KilledInIngest(e) PROVE node'[d] = node[d]
    <3>1. e # d
      BY <2>2, <2>4 DEF KilledInIngest
    <3> QED
      BY <2>4, <3>1, KillIsCut DEF CutOne, TypeInv, TypeOK
  <2>5. CASE CommandStep
    BY <2>1, <2>3, <2>5 DEF CommandStep, Stamp, IngestSections, IngestCleanup, IngestStamp,
       IngestEnd, Visited, FinalizeRead, FinalizeBackup, FinalizeWrite, FinalizeBaseline,
       SnapshotOpen, SnapshotDump, SnapshotMeta, RestoreAll, RestorePart
  <2>6. CASE Kill
    BY <2>1, <2>4, <2>6 DEF Kill, TornWrite, KilledInStamp, Stamping, KilledInWriteDoc,
       KilledInNarrative, KilledInMeta, Ready
  <2>7. CASE Next /\ ~CommandStep /\ ~Kill
    BY <2>1, <2>7 DEF Next, HumanEdit, WriteDoc, WriteNarrative, WriteMeta, Ingest, Finalize,
       EnsureStore, FinalizeError, Crash, LoseStore, Ready
  <2> QED
    BY <2>5, <2>6, <2>7
<1>2. UNCHANGED vars => Stands
  BY DEF vars, graph
<1>3. TypeInv /\ IngestInv => [Stands]_vars \/ ~[Next]_vars
  BY <1>1, <1>2
<1> HIDE DEF Stands
<1>4. Spec => [][Stands]_vars
  BY <1>3, IngestInvariant, PTL DEF Spec
<1> QED
  BY <1>4 DEF ApprovedNodeStands, Stands
=============================================================================
