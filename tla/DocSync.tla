------------------------------ MODULE DocSync ------------------------------
(***************************************************************************)
(* The life of whole documents in graph mode: the Markdown file, its       *)
(* Document and Section nodes, the export baseline and the snapshot, under *)
(* the `context` commands, human edits of the files, crashes and the loss  *)
(* of the store directory.                                                 *)
(*                                                                         *)
(* The on-disk store admits one read-write process, so at most one command *)
(* runs (`cmd`, its phase); a person edits files at any time.  A command   *)
(* is a chain of steps.  No one else sees the store between two steps, so  *)
(* a step writes all its quads at once; a process killed inside a step     *)
(* leaves some of them (the Killed actions), one killed between two steps  *)
(* what the steps had done (Crash).                                        *)
(*                                                                         *)
(* A hash is modelled by the value it is the hash of.                      *)
(***************************************************************************)
EXTENDS DocStructure

CONSTANTS
  Docs,          \* document ids
  Texts,         \* the texts people and agents write
  NoFile,        \* no file at the document's source path
  NoHash,        \* no content hash, no cf:exported_content_hash
  MetaHash,      \* the content hash write-meta computes, never that of a file
  MaxPosition,   \* bound: largest section position
  MaxFaults,     \* bound: edits, graph writes, crashes and store losses
  EditorQuiet    \* TRUE: nobody saves a file between finalize's read and write of it

\* The document of a command that is at work on none.
NoDocument == "none"

ASSUME SyncAssumption ==
  /\ NoDocument \notin Docs
  /\ Texts \subseteq Text
  /\ NoFile \notin Text /\ NoHash \notin Text /\ MetaHash \notin Text
  /\ NoHash # MetaHash
  /\ MaxPosition \in Nat /\ MaxFaults \in Nat
  /\ EditorQuiet \in BOOLEAN

VARIABLES
  disk,       \* document -> the text of its file
  node,       \* document -> the quads of its Document node
  secs,       \* document -> its Section nodes
  baseline,   \* document -> cf:exported_content_hash
  storeUp,    \* the store directory exists and is not empty
  snap,       \* latest.nq: what it was dumped from, and whether the dump ended
  snapMeta,   \* latest.meta.json exists
  cmd,        \* phase of the running command, "idle" when none runs
  todo,       \* documents the phase still has to visit
  cur,        \* document being written
  seen,       \* the bytes finalize read, and is about to overwrite
  force,      \* finalize --force
  scan,       \* the files ingest parsed
  backups,    \* document -> texts in the backup directory of the running finalize
  absorbed,   \* document -> texts the graph has rendered, or rendered equivalently
  superseded, \* document -> texts on disk when a graph-side write was stamped
  killed,     \* a process was killed, or a load stopped, in the middle of a node
  faults      \* edits, graph writes, crashes and losses so far

graph == <<node, secs, baseline>>
durable == <<storeUp, snap, snapMeta>>
memory == <<cur, seen, force, scan, backups>>
process == <<cmd, todo, memory>>
history == <<absorbed, superseded, killed>>
vars == <<disk, graph, durable, process, history, faults>>

\* A Document node is its quads: its rdf:type, the content hash, cf:status, the
\* frontmatter with the status in it, and the source_path, in this order.
Node == [type : BOOLEAN, hash : Text \cup {MetaHash, NoHash},
         status : Statuses \cup {NoStatus}, front : Statuses \cup {NoStatus}, path : BOOLEAN]

NoDoc == [type |-> FALSE, hash |-> NoHash, status |-> NoStatus, front |-> NoStatus,
          path |-> FALSE]

DocNode(t) == [type |-> TRUE, hash |-> t, status |-> t.status, front |-> t.status,
               path |-> TRUE]

\* What is left of n while its quads are removed, in any order, and what is
\* there of it while they are added.
NodeRemnants(n) ==
  [type : {n.type, FALSE}, hash : {n.hash, NoHash}, status : {n.status, NoStatus},
   front : {n.front, NoStatus}, path : {n.path, FALSE}]

NodeBeginnings(n) ==
  {NoDoc, [NoDoc EXCEPT !.type = TRUE],
   [n EXCEPT !.status = NoStatus, !.front = NoStatus, !.path = FALSE],
   [n EXCEPT !.front = NoStatus, !.path = FALSE], [n EXCEPT !.path = FALSE], n}

NoSnapshot == [full |-> FALSE, node |-> [d \in Docs |-> NoDoc],
               secs |-> [d \in Docs |-> NoSections],
               baseline |-> [d \in Docs |-> NoHash]]

-----------------------------------------------------------------------------
(* What the code computes from the state *)

\* _list_documents: a Document node with a source path.
Listed(d) == node[d].type /\ node[d].path
OnDisk == {d \in Docs : disk[d] # NoFile}
Documents == {d \in Docs : Listed(d)}

RenderOf(d) == Render(node[d].front, secs[d])

\* The guard of _stamp_ingested_baselines: the file as it is now.
Reproduced(d) == disk[d] # NoFile /\ Equivalent(RenderOf(d), disk[d])

\* Mutant: an approved incoming text passes without the explicit write.
ReplaceableIfApproved(d, t, explicit) ==
  node[d].status = "approved" => (node[d].hash = t \/ t.status = "approved")

\* ensure_document_replaceable: may text t replace document d?
Replaceable(d, t, explicit) ==
  node[d].status = "approved" =>
    (node[d].hash = t \/ (explicit /\ t.status = "approved"))

\* Mutant: any document that was exported once may be overwritten.
PlanStatusOnceExported(d, t, forced) ==
  IF t = NoFile THEN "new"
  ELSE IF t = RenderOf(d) THEN "unchanged"
  ELSE IF forced \/ baseline[d] # NoHash \/ Equivalent(t, RenderOf(d)) THEN "update"
  ELSE "blocked"

\* The per-file plan of compile_documents for a file that reads as t.
PlanStatus(d, t, forced) ==
  IF t = NoFile THEN "new"
  ELSE IF t = RenderOf(d) THEN "unchanged"
  ELSE IF forced \/ t = baseline[d] \/ Equivalent(t, RenderOf(d)) THEN "update"
  ELSE "blocked"

\* _classify_document_drift
Verdict(d) ==
  IF baseline[d] = NoHash THEN "never_exported"
  ELSE IF disk[d] = NoFile THEN "graph_ahead"
  ELSE CASE disk[d] = baseline[d] /\ RenderOf(d) = baseline[d] -> "in_sync"
         [] disk[d] # baseline[d] /\ RenderOf(d) = baseline[d] -> "human_edit"
         [] disk[d] = baseline[d] /\ RenderOf(d) # baseline[d] -> "graph_ahead"
         [] OTHER -> "conflict"

\* The symmetric diff: the file has more sections the graph lacks than the
\* graph has sections (by source_doc) the file lacks.  One document per doc_type.
MarkdownAhead(d) ==
  LET onFile == IF disk[d] = NoFile THEN {} ELSE Headings(disk[d])
      inGraph == {a \in Anchors : secs[d][a].pos # NoPos}
  IN  Cardinality(onFile \ inGraph) > Cardinality(inGraph \ onFile)

\* ModePolicy.remediation_for, graph mode
Remedy(d) ==
  CASE Verdict(d) = "in_sync" -> "none"
    [] Verdict(d) = "conflict" -> "manual"
    [] Verdict(d) = "never_exported" -> IF MarkdownAhead(d) THEN "ingest" ELSE "export"
    [] Verdict(d) = "graph_ahead" -> "export"
    [] Verdict(d) = "human_edit" -> "ingest"

-----------------------------------------------------------------------------
Init ==
  /\ disk \in [Docs -> Texts \cup {NoFile}]
  /\ node = NoSnapshot.node /\ secs = NoSnapshot.secs /\ baseline = NoSnapshot.baseline
  /\ storeUp = TRUE /\ snap = NoSnapshot /\ snapMeta = FALSE
  /\ cmd = "idle" /\ todo = {} /\ force = FALSE
  /\ cur = NoDocument /\ seen = NoFile /\ scan = [d \in Docs |-> NoFile]
  /\ backups = [d \in Docs |-> {}]
  /\ absorbed = [d \in Docs |-> {}] /\ superseded = [d \in Docs |-> {}]
  /\ killed = FALSE
  /\ faults = 0

Faults(n) == faults + n <= MaxFaults /\ faults' = faults + n

Fault == Faults(1)

\* A command may start.
Ready == cmd = "idle" /\ storeUp

\* A command ends, or its process dies: its memory is gone.
Exit ==
  /\ cmd' = "idle" /\ todo' = {} /\ cur' = NoDocument
  /\ seen' = NoFile /\ force' = FALSE /\ scan' = [d \in Docs |-> NoFile]
  /\ backups' = [d \in Docs |-> {}]

\* The process dies in the middle of a node.
Killed == Exit /\ killed' = TRUE

-----------------------------------------------------------------------------
(* The world *)

HumanEdit(d, t) ==
  /\ Fault
  /\ disk[d] # t
  /\ EditorQuiet => ~(cmd \in {"fin_backup", "fin_write"} /\ cur = d)
  /\ disk' = [disk EXCEPT ![d] = t]
  /\ UNCHANGED <<graph, durable, process, history>>

\* The process dies between two steps; the writes it issued stay.
Crash ==
  /\ Fault
  /\ cmd \notin {"idle", "restore"}
  /\ Exit
  /\ UNCHANGED <<disk, graph, durable, history>>

\* write_bytes truncates the file before it fills it: what stops it in between
\* leaves the first blocks of the export.
TornFile ==
  \E cut \in RenderOf(cur).blocks :
    disk' = [disk EXCEPT ![cur] = Prefix(RenderOf(cur), cut.at)]

TornWrite ==
  /\ Fault
  /\ cmd = "fin_write"
  /\ TornFile
  /\ Exit
  /\ UNCHANGED <<graph, durable, history>>

\* The gitignored store directory is gone (a fresh clone).
LoseStore ==
  /\ Fault
  /\ Ready
  /\ storeUp' = FALSE
  /\ node' = NoSnapshot.node /\ secs' = NoSnapshot.secs
  /\ baseline' = NoSnapshot.baseline
  /\ UNCHANGED <<disk, snap, snapMeta, process, history>>

-----------------------------------------------------------------------------
(* A process killed in the middle of a step leaves one of the section maps,  *)
(* one of the nodes and one of the baselines it may have got to.             *)

Cut(d, sections, nodes, hashes) ==
  /\ Killed
  /\ \E s \in sections : secs' = [secs EXCEPT ![d] = s]
  /\ \E n \in nodes : node' = [node EXCEPT ![d] = n]
  /\ \E h \in hashes : baseline' = [baseline EXCEPT ![d] = h]
  /\ UNCHANGED <<disk, durable, absorbed, superseded>>

CutInSections(d, sections) == Cut(d, sections, {node[d]}, {baseline[d]})

-----------------------------------------------------------------------------
(* Graph-side writes: one transaction, which removes every staged quad and   *)
(* then adds, and the baseline stamp                                         *)

\* author_document.  Replacing the Document node drops every quad of it, the
\* baseline included; a node whose content hash matches is left alone.
WriteDoc(d, t) ==
  /\ Ready /\ Fault
  /\ Replaceable(d, t, TRUE)
  /\ secs' = [secs EXCEPT ![d] = Absorb(@, t)]
  /\ IF node[d].hash = t
     THEN UNCHANGED <<node, baseline>>
     ELSE /\ node' = [node EXCEPT ![d] = DocNode(t)]
          /\ baseline' = [baseline EXCEPT ![d] = NoHash]
  /\ cmd' = "stamp_doc" /\ cur' = d
  /\ UNCHANGED <<disk, durable, todo, seen, force, scan, backups, history>>

\* Stale sections go first, then the Document node, then the sections that
\* change; the node and the sections come back in this order.
KilledInWriteDoc(d, t) ==
  LET kept == DropStale(secs[d], t)
      bare == Bare(kept, Absorb(secs[d], t))
      same == node[d].hash = t
      gone == IF same THEN node[d] ELSE NoDoc
      there == IF same THEN node[d] ELSE DocNode(t)
      after == IF same THEN baseline[d] ELSE NoHash
  IN
  /\ Ready /\ Faults(2)
  /\ Replaceable(d, t, TRUE)
  /\ \/ CutInSections(d, CutSections(secs[d], kept))
     \/ ~same /\ Cut(d, {kept}, NodeRemnants(node[d]), {baseline[d], NoHash})
     \/ Cut(d, CutSections(kept, bare), {gone}, {after})
     \/ ~same /\ Cut(d, {bare}, NodeBeginnings(DocNode(t)), {NoHash})
     \/ Cut(d, CutSections(bare, Absorb(secs[d], t)), {there}, {after})

\* write_narrative: the sections change, the Document node does not, and its
\* status is not asked.
WriteNarrative(d, a, body) ==
  /\ Ready /\ Fault
  /\ \E p \in 0..MaxPosition :
       /\ IsNextPosition(secs[d], p)
       /\ secs' = [secs EXCEPT ![d] = PutNarrative(@, a, body, p)]
  /\ cmd' = "stamp" /\ cur' = d
  /\ UNCHANGED <<disk, node, baseline, durable, todo, seen, force, scan, backups,
                 history>>

KilledInNarrative(d, a, body) ==
  /\ Ready /\ Faults(2)
  /\ \E p \in 0..MaxPosition :
       /\ IsNextPosition(secs[d], p)
       /\ CutInSections(d, CutSections(secs[d], PutNarrative(secs[d], a, body, p)))

\* A frontmatter that is not there is not patched into being.
Patched(front, status) == IF front = NoStatus THEN NoStatus ELSE status

MetaNode(n, status) ==
  [n EXCEPT !.front = Patched(n.front, status), !.hash = MetaHash, !.status = status]

\* update_document_meta: the frontmatter is patched and the content hash
\* recomputed from frontmatter and preamble, not from the file text.
WriteMeta(d, status) ==
  /\ Ready /\ Fault
  /\ node[d].type
  /\ node' = [node EXCEPT ![d] = MetaNode(@, status)]
  /\ cmd' = "stamp" /\ cur' = d
  /\ UNCHANGED <<disk, secs, baseline, durable, todo, seen, force, scan, backups,
                 history>>

\* The frontmatter, the hash and the status are removed in this order, and
\* added again in this order.
MetaCuts(n, status) ==
  LET bare == [n EXCEPT !.front = NoStatus, !.hash = NoHash, !.status = NoStatus]
      front == Patched(n.front, status)
  IN {[n EXCEPT !.front = NoStatus], [n EXCEPT !.front = NoStatus, !.hash = NoHash],
      bare, [bare EXCEPT !.front = front], [bare EXCEPT !.front = front, !.hash = MetaHash]}

KilledInMeta(d, status) ==
  /\ Ready /\ Faults(2)
  /\ node[d].type
  /\ Cut(d, {secs[d]}, MetaCuts(node[d], status), {baseline[d]})

\* The step is about to set the baseline of d: write-doc knows the file of d,
\* the other writes read its source path.
Stamping(d) ==
  \/ cmd = "stamp_doc" /\ d = cur /\ disk[d] # NoFile
  \/ cmd = "stamp" /\ d = cur /\ disk[d] # NoFile /\ node[d].path
  \/ cmd = "ing_stamp" /\ d \in todo /\ Reproduced(d)
  \/ cmd = "fin_base" /\ d = cur

\* set_exported_hash drops the old baseline before it adds the new one.
KilledInStamp(d) ==
  /\ Fault
  /\ Stamping(d)
  /\ Cut(d, {secs[d]}, {node[d]}, {NoHash})

\* Mutant: the is_file check is gone.
StampMissingFile ==
  /\ cmd \in {"stamp", "stamp_doc"}
  /\ Exit
  /\ baseline' = [baseline EXCEPT ![cur] = disk[cur]]
  /\ UNCHANGED <<disk, node, secs, durable, history, faults>>

\* _stamp_absorbed_baseline: whatever the file holds now becomes the baseline.
Stamp ==
  /\ cmd \in {"stamp", "stamp_doc"}
  /\ Exit
  /\ IF Stamping(cur)
     THEN /\ baseline' = [baseline EXCEPT ![cur] = disk[cur]]
          /\ superseded' = [superseded EXCEPT ![cur] = @ \cup {disk[cur]}]
     ELSE UNCHANGED <<baseline, superseded>>
  /\ UNCHANGED <<disk, node, secs, durable, absorbed, killed, faults>>

-----------------------------------------------------------------------------
(* ingest: parse every file, gate the batch, then write sections, documents, *)
(* stale cleanup and baselines, document by document, with no transaction    *)

\* One document of a phase is done; with the last one the next phase starts.
Visited(d, here, next, nextTodo) ==
  /\ cmd = here /\ d \in todo
  /\ IF todo = {d} THEN cmd' = next /\ todo' = nextTodo
                   ELSE cmd' = here /\ todo' = todo \ {d}
  /\ UNCHANGED memory

Scanned == {d \in Docs : scan[d] # NoFile}

IngestAllowed == \A d \in OnDisk : Replaceable(d, disk[d], FALSE)

Ingest ==
  /\ Ready
  /\ OnDisk # {} /\ IngestAllowed
  /\ scan' = disk
  /\ cmd' = "ing_sections" /\ todo' = OnDisk
  /\ UNCHANGED <<disk, graph, durable, cur, seen, force, backups, history, faults>>

\* Mutant: a document whose hash matches is skipped with its sections.
IngestSectionsOfChanged(d) ==
  /\ Visited(d, "ing_sections", "ing_documents", Scanned)
  /\ secs' = IF node[d].hash = scan[d] THEN secs
             ELSE [secs EXCEPT ![d] = UpsertSections(@, scan[d])]
  /\ UNCHANGED <<disk, node, baseline, durable, history, faults>>

IngestSections(d) ==
  /\ Visited(d, "ing_sections", "ing_documents", Scanned)
  /\ secs' = [secs EXCEPT ![d] = UpsertSections(@, scan[d])]
  /\ UNCHANGED <<disk, node, baseline, durable, history, faults>>

IngestDocument(d) ==
  /\ Visited(d, "ing_documents", "ing_cleanup", Scanned)
  /\ IF node[d].hash = scan[d]
     THEN UNCHANGED <<node, baseline>>
     ELSE /\ node' = [node EXCEPT ![d] = DocNode(scan[d])]
          /\ baseline' = [baseline EXCEPT ![d] = NoHash]
  /\ UNCHANGED <<disk, secs, durable, history, faults>>

IngestCleanup(d) ==
  /\ Visited(d, "ing_cleanup", "ing_stamp", Documents)
  /\ secs' = [secs EXCEPT ![d] = DropStale(@, scan[d])]
  /\ UNCHANGED <<disk, node, baseline, durable, history, faults>>

\* _atomic_replace_entity goes quad by quad and node by node.  An exception
\* between two nodes leaves them too: the rollback of phase 5 knows none of
\* the structure writes of a batch that fails.
KilledInIngest(d) ==
  /\ Fault
  /\ d \in todo
  /\ \/ cmd = "ing_sections"
        /\ CutInSections(d, CutSections(secs[d], UpsertSections(secs[d], scan[d])))
     \/ /\ cmd = "ing_documents" /\ node[d].hash # scan[d]
        /\ \/ Cut(d, {secs[d]}, NodeRemnants(node[d]), {baseline[d], NoHash})
           \/ Cut(d, {secs[d]}, NodeBeginnings(DocNode(scan[d])), {NoHash})
     \/ /\ cmd = "ing_cleanup"
        /\ CutInSections(d, CutSections(secs[d], DropStale(secs[d], scan[d])))

IngestStamp(d) ==
  /\ cmd = "ing_stamp" /\ d \in todo
  /\ todo' = todo \ {d}
  /\ baseline' = IF Reproduced(d) THEN [baseline EXCEPT ![d] = disk[d]] ELSE baseline
  /\ absorbed' = IF Reproduced(d) THEN [absorbed EXCEPT ![d] = @ \cup {disk[d]}]
                 ELSE absorbed
  /\ UNCHANGED <<disk, node, secs, durable, cmd, memory, superseded, killed, faults>>

IngestEnd ==
  /\ cmd = "ing_stamp" /\ todo = {}
  /\ Exit
  /\ UNCHANGED <<disk, graph, durable, history, faults>>

-----------------------------------------------------------------------------
(* finalize: compile_documents over `scope`, then the snapshot *)

Finalize(forced, scope) ==
  /\ Ready
  /\ Documents # {}
  /\ force' = forced
  /\ cmd' = "fin_read" /\ todo' = scope \cap Documents
  /\ UNCHANGED <<disk, graph, durable, cur, seen, scan, backups, history, faults>>

\* The loop is done with a document.
NextDoc(d) ==
  /\ cmd' = "fin_read" /\ todo' = todo \ {d}
  /\ cur' = NoDocument /\ seen' = NoFile

\* Mutant: an unchanged file is not stamped.
FinalizeReadSkipping(d) ==
  LET plan == PlanStatus(d, disk[d], force) IN
  /\ cmd = "fin_read" /\ d \in todo
  /\ \/ plan \in {"blocked", "unchanged"} /\ NextDoc(d)
     \/ /\ plan \in {"new", "update"}
        /\ cmd' = IF plan = "new" THEN "fin_write" ELSE "fin_backup"
        /\ seen' = disk[d] /\ cur' = d /\ todo' = todo
  /\ UNCHANGED <<disk, graph, durable, force, scan, backups, history, faults>>

\* Read the file and decide.
FinalizeRead(d) ==
  LET plan == PlanStatus(d, disk[d], force) IN
  /\ cmd = "fin_read" /\ d \in todo
  /\ \/ plan = "blocked" /\ NextDoc(d)
     \/ /\ plan # "blocked"
        /\ cmd' = CASE plan = "unchanged" -> "fin_base"
                    [] plan = "new" -> "fin_write"
                    [] plan = "update" -> "fin_backup"
        /\ seen' = disk[d] /\ cur' = d /\ todo' = todo
  /\ UNCHANGED <<disk, graph, durable, force, scan, backups, history, faults>>

\* Mutant: a file we exported or stamped ourselves is not copied.
FinalizeBackupOfForeign ==
  /\ cmd = "fin_backup"
  /\ cmd' = "fin_write"
  /\ backups' = IF seen = baseline[cur] THEN backups
                ELSE [backups EXCEPT ![cur] = @ \cup {seen}]
  /\ UNCHANGED <<disk, graph, durable, todo, cur, seen, force, scan, history, faults>>

FinalizeBackup ==
  /\ cmd = "fin_backup"
  /\ cmd' = "fin_write"
  /\ backups' = [backups EXCEPT ![cur] = @ \cup {seen}]
  /\ UNCHANGED <<disk, graph, durable, todo, cur, seen, force, scan, history, faults>>

FinalizeWrite ==
  /\ cmd = "fin_write"
  /\ cmd' = "fin_base"
  /\ disk' = [disk EXCEPT ![cur] = RenderOf(cur)]
  /\ absorbed' = [absorbed EXCEPT ![cur] = @ \cup {RenderOf(cur)}]
  /\ UNCHANGED <<graph, durable, todo, memory, superseded, killed, faults>>

FinalizeBaseline ==
  /\ cmd = "fin_base"
  /\ NextDoc(cur)
  /\ baseline' = [baseline EXCEPT ![cur] = RenderOf(cur)]
  /\ absorbed' = [absorbed EXCEPT ![cur] = @ \cup {RenderOf(cur)}]
  /\ UNCHANGED <<disk, node, secs, durable, force, scan, backups, superseded, killed, faults>>

\* An exception on one document is recorded and the next document is taken;
\* it may have come in the middle of the write or of the stamp.
FinalizeError ==
  /\ Fault
  /\ cmd \in {"fin_backup", "fin_write", "fin_base"}
  /\ NextDoc(cur)
  /\ \/ UNCHANGED <<disk, baseline>>
     \/ cmd = "fin_write" /\ TornFile /\ UNCHANGED baseline
     \/ cmd = "fin_base" /\ baseline' = [baseline EXCEPT ![cur] = NoHash] /\ UNCHANGED disk
  /\ UNCHANGED <<node, secs, durable, force, scan, backups, history>>

\* compile_documents has returned.  latest.nq is truncated before the dump fills
\* it; its sidecar follows.
SnapshotOpen ==
  /\ cmd = "fin_read" /\ todo = {}
  /\ cmd' = "snap_dump"
  /\ force' = FALSE /\ backups' = [d \in Docs |-> {}]
  /\ snap' = [full |-> FALSE, node |-> node, secs |-> secs, baseline |-> baseline]
  /\ UNCHANGED <<disk, graph, storeUp, snapMeta, todo, cur, seen, scan, history, faults>>

SnapshotDump ==
  /\ cmd = "snap_dump"
  /\ cmd' = "snap_meta"
  /\ snap' = [snap EXCEPT !.full = TRUE]
  /\ UNCHANGED <<disk, graph, storeUp, snapMeta, todo, memory, history, faults>>

SnapshotMeta ==
  /\ cmd = "snap_meta"
  /\ Exit
  /\ snapMeta' = TRUE
  /\ UNCHANGED <<disk, graph, storeUp, snap, history, faults>>

-----------------------------------------------------------------------------
(* ensure_store: a non-empty directory is left alone *)

EnsureStore ==
  /\ cmd = "idle" /\ ~storeUp
  /\ storeUp' = TRUE
  /\ cmd' = IF snapMeta THEN "restore" ELSE "idle"
  /\ UNCHANGED <<disk, graph, snap, snapMeta, todo, memory, history, faults>>

\* The snapshot loads into the freshly initialised store.
RestoreAll ==
  /\ cmd = "restore" /\ snap.full
  /\ cmd' = "idle"
  /\ node' = snap.node /\ secs' = snap.secs /\ baseline' = snap.baseline
  /\ UNCHANGED <<disk, durable, todo, memory, history, faults>>

\* A torn snapshot stops the load, or the process dies during it: some nodes
\* are loaded and one more is cut (the dump lists the quads by subject).
RestorePart(docs, heads) ==
  LET loaded == [d \in Docs |-> IF d \in docs THEN snap.node[d] ELSE NoDoc]
      hashes == [d \in Docs |-> IF d \in docs THEN snap.baseline[d] ELSE NoHash]
      sections == [d \in Docs |->
                     [a \in Anchors |-> IF a \in heads[d] THEN snap.secs[d][a] ELSE NoSection]]
  IN
  /\ cmd = "restore"
  /\ cmd' = "idle"
  /\ \/ ~snap.full /\ UNCHANGED faults
     \/ snap.full /\ Fault
  /\ \E d \in Docs :
       \/ /\ \E n \in NodeRemnants(snap.node[d]) : node' = [loaded EXCEPT ![d] = n]
          /\ \E h \in {snap.baseline[d], NoHash} : baseline' = [hashes EXCEPT ![d] = h]
          /\ secs' = sections
       \/ /\ \E a \in Anchors : \E s \in SectionRemnants(snap.secs[d][a]) :
               secs' = [sections EXCEPT ![d][a] = s]
          /\ node' = loaded /\ baseline' = hashes
  /\ killed' = TRUE
  /\ UNCHANGED <<disk, durable, todo, memory, absorbed, superseded>>

-----------------------------------------------------------------------------
CommandStep ==
  \/ Stamp \/ IngestEnd
  \/ \E d \in Docs : \/ IngestSections(d) \/ IngestDocument(d)
                     \/ IngestCleanup(d) \/ IngestStamp(d)
                     \/ FinalizeRead(d)
  \/ FinalizeBackup \/ FinalizeWrite \/ FinalizeBaseline
  \/ SnapshotOpen \/ SnapshotDump \/ SnapshotMeta
  \/ RestoreAll
  \/ \E docs \in SUBSET Docs, heads \in [Docs -> SUBSET Anchors] : RestorePart(docs, heads)

\* A process dies in the middle of a step.
Kill ==
  \/ TornWrite
  \/ \E d \in Docs :
       \/ KilledInStamp(d) \/ KilledInIngest(d)
       \/ \E t \in Texts : KilledInWriteDoc(d, t)
       \/ \E a \in Anchors, b \in Bodies : KilledInNarrative(d, a, b)
       \/ \E s \in Statuses : KilledInMeta(d, s)

Next ==
  \/ \E d \in Docs : \/ \E t \in Texts \cup {NoFile} : HumanEdit(d, t)
                     \/ \E t \in Texts : WriteDoc(d, t)
                     \/ \E a \in Anchors, b \in Bodies : WriteNarrative(d, a, b)
                     \/ \E s \in Statuses : WriteMeta(d, s)
  \/ Ingest
  \/ \E forced \in BOOLEAN, scope \in SUBSET Docs : Finalize(forced, scope)
  \/ EnsureStore
  \/ CommandStep
  \/ FinalizeError \/ Kill \/ Crash \/ LoseStore

Spec == Init /\ [][Next]_vars

Blocked(d) == PlanStatus(d, disk[d], FALSE) = "blocked"

\* An operator follows reconcile's advice for a document.  An export that would
\* leave the file untouched is preceded by an ingest; a conflict is decided for
\* the graph.
FollowAdvice(d) ==
  \/ Remedy(d) = "export" /\ ~Blocked(d) /\ Finalize(FALSE, {d})
  \/ Remedy(d) = "export" /\ Blocked(d) /\ Ingest
  \/ Remedy(d) = "ingest" /\ Ingest
  \/ Remedy(d) = "manual" /\ Finalize(TRUE, {d})

\* A running command goes on, a lost store is hydrated, advice is followed.
Fairness ==
  /\ WF_vars(CommandStep)
  /\ WF_vars(EnsureStore)
  /\ \A d \in Docs : SF_vars(Listed(d) /\ FollowAdvice(d))

FairSpec == Spec /\ Fairness

-----------------------------------------------------------------------------
(* Properties *)

Phases == {"idle", "stamp", "stamp_doc", "ing_sections", "ing_documents", "ing_cleanup",
           "ing_stamp", "fin_read", "fin_backup", "fin_write", "fin_base", "snap_dump",
           "snap_meta", "restore"}

Snapshot == [full : BOOLEAN, node : [Docs -> Node],
             secs : [Docs -> Sections], baseline : [Docs -> Text \cup {NoHash}]]

\* The type invariant: every text the code writes or stores is a text.
TypeOK ==
  /\ disk \in [Docs -> Text \cup {NoFile}]
  /\ node \in [Docs -> Node]
  /\ secs \in [Docs -> Sections]
  /\ baseline \in [Docs -> Text \cup {NoHash}]
  /\ storeUp \in BOOLEAN /\ snap \in Snapshot /\ snapMeta \in BOOLEAN
  /\ cmd \in Phases /\ todo \subseteq Docs /\ cur \in Docs \cup {NoDocument}
  /\ seen \in Text \cup {NoFile} /\ force \in BOOLEAN
  /\ scan \in [Docs -> Text \cup {NoFile}]
  /\ backups \in [Docs -> SUBSET Text]
  /\ absorbed \in [Docs -> SUBSET Text] /\ superseded \in [Docs -> SUBSET Text]
  /\ killed \in BOOLEAN
  /\ faults \in 0..MaxFaults

\* finalize without --force replaces a file only when the graph has rendered or
\* absorbed what it says, or a graph-side write made after the edit stamped it:
\* whatever crashes, restores and interrupted commands came before, an edit
\* nobody has looked at survives (the `blocked` status of compile_documents).
EditsSurviveFinalize ==
  [][(cmd = "fin_write" /\ ~force /\ disk'[cur] # disk[cur]) =>
        \/ disk[cur] \in absorbed[cur] \cup superseded[cur] \cup {NoFile}
        \/ Equivalent(disk[cur], RenderOf(cur))]_vars

\* Every file finalize overwrites, forced or not, complete or torn, is in the
\* run's backup directory as it was when it was overwritten.
OverwritesAreBackedUp ==
  [][(cmd = "fin_write" /\ disk'[cur] # disk[cur]) =>
        disk[cur] \in backups[cur] \cup {NoFile}]_vars

\* A kill has left this node with the hash of what it should say and without
\* some other quad of it.
HalfSection(s) == ~s.part \/ s.body = NoBody \/ s.pos = NoPos
HalfDoc(n) == ~n.type \/ ~n.path \/ n.front # n.hash.status \/ n.status # n.hash.status

\* When ingest reaches its last phase every node of the graph carries the hash
\* of what the parsed files say and, unless a kill cut it behind its hash, says
\* it: whatever an interrupted ingest, a skipped section or a narrative written
\* meanwhile had left.  A cut node keeps its hash and is skipped for ever.
IngestAbsorbs ==
  cmd = "ing_stamp" =>
    \A d \in Scanned :
      /\ node[d].hash = scan[d]
      /\ node[d] = DocNode(scan[d]) \/ (killed /\ HalfDoc(node[d]))
      /\ Attached(secs[d]) \subseteq Headings(scan[d])
      /\ \A a \in Headings(scan[d]) :
           LET s == secs[d][a] IN
           /\ s.hash = FirstBlock(scan[d], a).body
           /\ (s.part /\ s.body = s.hash) \/ (killed /\ HalfSection(s))

\* Ingest never replaces the node of an approved document by another text's,
\* at whatever step of the batch (ensure_document_replaceable).
ApprovedNodeStands ==
  [][\A d \in Docs :
       (cmd = "ing_documents" /\ node[d].status = "approved") => node'[d] = node[d]]_vars

\* An ingest of the file would leave a graph that renders it.
Reproducible(d) ==
  LET t == disk[d]
      front == IF node[d].hash = t THEN node[d].front ELSE t.status
  IN  Equivalent(Render(front, Absorb(secs[d], t)), t)

\* Once edits, writes and faults have ended, following reconcile's advice brings
\* every listed document in sync and keeps it so: file, export baseline and
\* graph agree.  Left out is a file that an ingest cannot bring into the graph:
\* one that repeats a heading or only moves unchanged sections, or whose node a
\* kill has cut.  There the advice repeats for ever and the file stays as it is.
Converges ==
  <>[](cmd = "idle" /\ storeUp =>
         \A d \in Documents :
           \/ Verdict(d) = "in_sync"
           \/ /\ Verdict(d) \in {"human_edit", "never_exported"}
              /\ disk[d] # NoFile /\ ~Reproducible(d))

=============================================================================
