--------------------------- MODULE KgTransaction ---------------------------
(***************************************************************************)
(* Entity writes to the knowledge graph: commands stage quads against the  *)
(* store, commit removes before adds, restore what they removed when the   *)
(* store fails, and undo the commit when validation rejects it.  One       *)
(* process at a time has the store open; what can come between two steps   *)
(* is a failing store or the end of the process.                           *)
(***************************************************************************)
EXTENDS Naturals, FiniteSets

\* slot_guard's table; what is not in it is not a status.
TASK_STATUS_TRANSITIONS ==
  [todo        |-> {"in_progress", "blocked", "cancelled"},
   in_progress |-> {"review", "done", "blocked", "todo", "cancelled"},
   review      |-> {"done", "in_progress", "blocked", "cancelled"},
   blocked     |-> {"todo", "in_progress", "cancelled"},
   done        |-> {},
   cancelled   |-> {}]

CONSTANTS
  Ids,          \* entities (of class Task)
  Titles,
  Statuses,     \* the task states in use
  Contents,     \* what a writer may ask an entity to say
  TargetSets,   \* the edges a writer may ask for, as sets of targets
  Kinds,        \* the commands in use
  Keep,         \* a slot an update leaves alone
  Position,     \* quad -> its place in a staged list; equal places in any order
  MaxCommands, MaxOps, MaxFaults  \* bounds

ASSUME AuthoringAssumption ==
  /\ Statuses \subseteq DOMAIN TASK_STATUS_TRANSITIONS
  /\ Contents \subseteq [title : Titles, status : Statuses]
  /\ TargetSets \subseteq SUBSET Ids
  /\ Keep \notin Titles /\ Keep \notin Statuses /\ Keep \notin Contents
  /\ MaxFaults \in Nat

VARIABLES
  store,    \* the quads on disk
  pc,       \* where the command is
  kind,     \* which command it is
  adds, removes, \* TransactionContext._staged_adds, _staged_removes
  todo,     \* what is left of the loop commit is in
  written,  \* the entities the command staged (written_ids, delete_ids)
  restore,  \* prior_quads, restore_quads
  undoing,  \* the transaction is the compensation
  base,     \* history: the store when the transaction was committed
  before,   \* history: the store when the command began
  asked,    \* history: the quads the command was asked to write
  unchecked,\* history: an edge was written without validation of its subject
  commands, ops, faults \* counters for the bounds

local == <<kind, adds, removes, todo, written, restore, undoing, base, before, asked>>
vars == <<store, pc, local, unchecked, commands, ops, faults>>

Phases == {"idle", "staging", "removing", "adding", "restoring", "validate",
           "done", "rejected", "failed"}

-----------------------------------------------------------------------------
(* Quads: <<subject, slot, value>> *)

\* The hash covers title and slots, and is what it is the hash of.
EntityQuads(e, c) ==
  {<<e, "type", "Task">>, <<e, "title", c.title>>, <<e, "task_status", c.status>>,
   <<e, "content_hash", c>>}

Edge(e, f) == <<e, "edge", f>>

IsEdge(q) == q[2] = "edge"

Quads ==
  (Ids \X {"type"} \X {"Task"})
    \cup (Ids \X {"title"} \X Titles)
    \cup (Ids \X {"task_status"} \X Statuses)
    \cup (Ids \X {"content_hash"} \X [title : Titles, status : Statuses])
    \cup (Ids \X {"edge"} \X Ids)

Out(s, e) == {q \in s : q[1] = e}

In(s, e) == {q \in s : IsEdge(q) /\ q[3] = e}

Typed(s, e) == <<e, "type", "Task">> \in s

\* Mutant: the snapshot forgets the edges of others.
PriorOutgoing(e) == Out(store, e)

\* _entity_prior_quads
Prior(e) == Out(store, e) \cup In(store, e)

-----------------------------------------------------------------------------
(* Staging *)

Init ==
  /\ store = {}
  /\ pc = "idle" /\ kind = "none"
  /\ adds = {} /\ removes = {} /\ todo = {}
  /\ written = {} /\ restore = {} /\ undoing = FALSE
  /\ base = {} /\ before = {} /\ asked = {}
  /\ unchecked = FALSE
  /\ commands = 0 /\ ops = 0 /\ faults = 0

Fault == faults < MaxFaults /\ faults' = faults + 1

Begin(k) ==
  /\ pc = "idle" /\ pc' = "staging"
  /\ commands < MaxCommands /\ commands' = commands + 1
  /\ kind' = k
  /\ before' = store
  /\ UNCHANGED <<store, adds, removes, todo, written, restore, undoing, base, asked,
                 unchecked, ops, faults>>

\* A transact runs several operations, the other commands one.
NextOp(kinds) ==
  /\ pc = "staging" /\ kind \in kinds
  /\ ops < IF kind = "transact" THEN MaxOps ELSE 1
  /\ ops' = ops + 1
  /\ UNCHANGED <<store, pc, kind, todo, undoing, base, before, commands, faults>>

\* Mutant: presence is judged against the raw store.
NewEdgesRaw(edges, added, removed) == {q \in edges : q \notin added /\ q \notin store}

\* add_relation: an edge of the store that this transaction removes is added again.
NewEdges(edges, added, removed) ==
  {q \in edges : q \notin added /\ (q \in removed \/ q \notin store)}

\* _stage_entity, kg_add: add_entity, then one add_relation for each target.
StageEntity(e, c, targets) ==
  LET same    == <<e, "content_hash", c>> \in store
      removed == removes \cup IF same THEN {} ELSE Out(store, e)
      added   == adds \cup IF same THEN {} ELSE EntityQuads(e, c)
      edges   == {Edge(e, f) : f \in targets}
  IN  /\ NextOp({"author", "transact", "add"})
      /\ removes' = removed
      /\ adds' = added \cup NewEdges(edges, added, removed)
      /\ written' = written \cup {e}
      /\ restore' = restore \cup Prior(e)
      /\ asked' = asked \cup EntityQuads(e, c) \cup edges
      /\ unchecked' = (unchecked \/ kind = "add")

\* transact's add_relation operation: nobody validates the subject afterwards.
StageRelation(e, f) ==
  /\ NextOp({"transact"})
  /\ adds' = adds \cup NewEdges({Edge(e, f)}, adds, removes)
  /\ asked' = asked \cup {Edge(e, f)}
  /\ unchecked' = TRUE
  /\ UNCHANGED <<removes, written, restore>>

\* check_task_status_transition; of several stored states, the store picks one.
LegalMove(e, new, ack) ==
  LET stored == {s \in Statuses : <<e, "task_status", s>> \in store}
  IN  stored = {} \/ ack \/ \E s \in stored : s = new \/ new \in TASK_STATUS_TRANSITIONS[s]

\* update_entity: only the named slots are rewritten.
StageUpdate(e, title, status, hash, ack) ==
  LET new == {<<e, "title", t>> : t \in {title} \ {Keep}}
               \cup {<<e, "task_status", s>> : s \in {status} \ {Keep}}
               \cup {<<e, "content_hash", h>> : h \in {hash} \ {Keep}}
      same == hash # Keep /\ <<e, "content_hash", hash>> \in store
  IN  /\ NextOp({"update"})
      /\ Typed(store, e)
      /\ new # {}
      /\ status # Keep => LegalMove(e, status, ack)
      /\ adds' = IF same THEN {} ELSE new
      /\ removes' = IF same THEN {} ELSE {q \in Out(store, e) : \E n \in new : q[2] = n[2]}
      /\ UNCHANGED <<written, restore, asked, unchecked>>

\* Mutant: the edges of others are only counted, never removed.
StageDeleteOutgoing(e, cascade) ==
  /\ NextOp({"delete"})
  /\ Typed(store, e)
  /\ In(store, e) # {} => cascade
  /\ removes' = Out(store, e)
  /\ UNCHANGED <<adds, written, restore, asked, unchecked>>

\* delete_entity
StageDelete(e, cascade) ==
  /\ NextOp({"delete"})
  /\ Typed(store, e)
  /\ In(store, e) # {} => cascade
  /\ removes' = In(store, e) \cup Out(store, e)
  /\ UNCHANGED <<adds, written, restore, asked, unchecked>>

\* A bad operation raises: the transaction rolls back and the command ends.
Forget ==
  /\ kind' = "none"
  /\ adds' = {} /\ removes' = {} /\ todo' = {}
  /\ written' = {} /\ restore' = {} /\ undoing' = FALSE
  /\ base' = {} /\ before' = {} /\ asked' = {}
  /\ ops' = 0

Raise ==
  /\ pc = "staging" /\ pc' = "idle"
  /\ Forget
  /\ UNCHANGED <<store, unchecked, commands, faults>>

-----------------------------------------------------------------------------
(* TransactionContext.commit: quad by quad, each durable at once *)

Commit ==
  /\ pc = "staging" /\ pc' = "removing"
  /\ ops > 0
  /\ todo' = removes /\ base' = store
  /\ UNCHANGED <<store, kind, adds, removes, written, restore, undoing, before, asked,
                 unchecked, commands, ops, faults>>

Loop(s) ==
  /\ store' = s
  /\ UNCHANGED <<pc, kind, adds, removes, written, restore, undoing, base, before, asked,
                 unchecked, commands, ops, faults>>

TakesFirst(q) ==
  /\ \A r \in todo : Position[q] <= Position[r]
  /\ todo' = todo \ {q}

RemoveOne(q) ==
  /\ pc = "removing" /\ TakesFirst(q)
  /\ Loop(store \ {q})

Goes(from, to, left) ==
  /\ pc = from /\ pc' = to
  /\ todo = {} /\ todo' = left
  /\ UNCHANGED <<store, kind, adds, removes, written, restore, undoing, base, before, asked,
                 unchecked, commands, ops, faults>>

StartAdding == Goes("removing", "adding", adds)

AddOne(q) ==
  /\ pc = "adding" /\ TakesFirst(q)
  /\ Loop(store \cup {q})

Committed ==
  Goes("adding",
       IF undoing THEN "rejected"
       ELSE IF kind \in {"author", "transact"} THEN "validate" ELSE "done", {})

\* Mutant: what was removed is told from what is left of the loop, in both loops.
StoreFailsRestoringLeft ==
  /\ Fault
  /\ pc \in {"removing", "adding"} /\ todo # {}
  /\ pc' = "restoring" /\ todo' = removes \ todo
  /\ UNCHANGED <<store, kind, adds, removes, written, restore, undoing, base, before, asked,
                 unchecked, commands, ops>>

\* store.remove or store.add raises; `removed` holds what is gone.
StoreFails ==
  /\ Fault
  /\ pc \in {"removing", "adding"} /\ todo # {}
  /\ pc' = "restoring"
  /\ todo' = IF pc = "removing" THEN removes \ todo ELSE removes
  /\ UNCHANGED <<store, kind, adds, removes, written, restore, undoing, base, before, asked,
                 unchecked, commands, ops>>

RestoreOne(q) ==
  /\ pc = "restoring" /\ TakesFirst(q)
  /\ Loop(store \cup {q})

Restored == Goes("restoring", "failed", {})

-----------------------------------------------------------------------------
(* The post-commit validation and its compensation *)

\* validate, as far as the written entities can offend: a typed node needs its
\* required slots, and an edge a typed target.
Offends(e) ==
  \/ Typed(store, e) /\ ~ \E t \in Titles : <<e, "title", t>> \in store
  \/ \E f \in Ids : Edge(e, f) \in store /\ ~Typed(store, f)

Accept ==
  /\ pc = "validate" /\ pc' = "done"
  /\ ~ \E e \in written : Offends(e)
  /\ UNCHANGED <<store, local, unchecked, commands, ops, faults>>

\* The undo deletes what is there of the written nodes, with cascade, and adds
\* the snapshot.  author_entity, unlike transact, expects its node to be there.
Reject ==
  LET gone == UNION {In(store, e) \cup Out(store, e) : e \in {w \in written : Typed(store, w)}}
  IN  /\ pc = "validate" /\ pc' = "removing"
      /\ \E e \in written : Offends(e)
      /\ kind = "author" => \A e \in written : Typed(store, e)
      /\ undoing' = TRUE
      /\ removes' = gone /\ adds' = restore /\ todo' = gone
      /\ base' = store
      /\ UNCHANGED <<store, kind, written, restore, before, asked, unchecked, commands, ops,
                     faults>>

\* delete_entity raises KGEntityNotFoundError, and nothing is undone.
UndoRaises ==
  /\ pc = "validate" /\ pc' = "idle"
  /\ \E e \in written : Offends(e)
  /\ kind = "author" /\ \E e \in written : ~Typed(store, e)
  /\ Forget
  /\ UNCHANGED <<store, unchecked, commands, faults>>

\* Mutant: the transaction object is used again.
EndKeeping ==
  /\ pc \in {"done", "rejected", "failed"} /\ pc' = "idle"
  /\ kind' = "none" /\ ops' = 0
  /\ UNCHANGED <<store, adds, removes, todo, written, restore, undoing, base, before, asked,
                 unchecked, commands, faults>>

End ==
  /\ pc \in {"done", "rejected", "failed"} /\ pc' = "idle"
  /\ Forget
  /\ UNCHANGED <<store, unchecked, commands, faults>>

\* The process is killed, or the store fails again in commit's handler or under
\* validate: nothing more is done, and what the store holds stays.
Crash ==
  /\ Fault
  /\ pc \in {"removing", "adding", "restoring", "validate"} /\ pc' = "idle"
  /\ Forget
  /\ UNCHANGED <<store, unchecked, commands>>

-----------------------------------------------------------------------------
Stage ==
  \/ \E e \in Ids, c \in Contents, targets \in TargetSets : StageEntity(e, c, targets)
  \/ \E e, f \in Ids : StageRelation(e, f)
  \/ \E e \in Ids, title \in Titles \cup {Keep}, status \in Statuses \cup {Keep},
        hash \in Contents \cup {Keep}, ack \in BOOLEAN :
       StageUpdate(e, title, status, hash, ack)
  \/ \E e \in Ids, cascade \in BOOLEAN : StageDelete(e, cascade)

Apply ==
  \/ Commit \/ StartAdding \/ Committed \/ StoreFails \/ Restored
  \/ \E q \in todo : RemoveOne(q) \/ AddOne(q) \/ RestoreOne(q)

Next ==
  \/ \E k \in Kinds : Begin(k)
  \/ Stage \/ Raise \/ Apply \/ Accept \/ Reject \/ UndoRaises \/ End \/ Crash

Spec == Init /\ [][Next]_vars

-----------------------------------------------------------------------------
(* Properties *)

\* Types, and: a command starts with a transaction of its own.
TypeOK ==
  /\ store \subseteq Quads
  /\ pc \in Phases
  /\ kind \in Kinds \cup {"none"}
  /\ adds \subseteq Quads /\ removes \subseteq Quads /\ todo \subseteq Quads
  /\ restore \subseteq Quads /\ written \subseteq Ids
  /\ undoing \in BOOLEAN /\ unchecked \in BOOLEAN
  /\ base \subseteq Quads /\ before \subseteq Quads /\ asked \subseteq Quads
  /\ commands \in Nat /\ ops \in Nat /\ faults \in 0..MaxFaults
  /\ pc = "idle" => adds = {} /\ removes = {} /\ todo = {} /\ ~undoing

\* A commit that fails loses nothing the store had, and adds nothing it was not
\* asked to add, in the command's transaction and in its undo (commit's handler).
FailedCommitLosesNothing ==
  pc = "failed" => base \subseteq store /\ store \subseteq base \cup adds

\* A node whose hash is there is there itself; only commits that were cut short
\* leave other stores behind.
Sound(s) ==
  \A e \in Ids, c \in Contents : <<e, "content_hash", c>> \in s => Typed(s, e)

\* A write that validation rejects takes nothing with it and leaves no node and
\* no slot: every quad is back, whoever it belongs to.  Short of what transact
\* promises ("zero graph residue"), an edge may stay: the undo deletes the
\* entities the batch wrote, and with them their edges, but not an edge that the
\* batch put between two nodes it did not write (author_entity, transact).
RejectedIsUndone ==
  pc = "rejected" /\ Sound(before) =>
    /\ before \subseteq store
    /\ \A q \in store \ before : IsEdge(q) /\ q[1] \notin written /\ q[3] \notin written

Slots(s, e) == {q \in Out(s, e) : ~IsEdge(q)}

\* The stored hash is the hash of what is stored: no update since, and no batch
\* that wrote the entity twice.
HashTells(s, e) ==
  \A c \in Contents : <<e, "content_hash", c>> \in s => Slots(s, e) = EntityQuads(e, c)

\* A single write that succeeds has landed, slots and edges, whatever the entity
\* was before, if its stored hash did not lie (add_entity, add_relation).
AuthoredLands ==
  pc = "done" /\ kind \in {"author", "add"} =>
    \A e \in written :
      HashTells(before, e) =>
        asked \subseteq store /\ Slots(store, e) = {q \in asked : ~IsEdge(q)}

\* Every edge a batch asked for is in the graph when the batch has succeeded.
RequestedEdgesLand ==
  pc = "done" => {q \in asked : IsEdge(q)} \subseteq store

\* Validated writes, updates and deletes together keep every edge's target in
\* the graph, while no commit is cut short.
EdgesHaveTargets ==
  pc = "idle" /\ ~unchecked /\ faults = 0 =>
    \A q \in store : IsEdge(q) => Typed(store, q[3])
=============================================================================
