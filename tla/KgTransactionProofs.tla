------------------------ MODULE KgTransactionProofs ------------------------
(***************************************************************************)
(* What holds of KgTransaction for every set of entities and contents, any *)
(* order of the staged quads, and any number of commands and faults.       *)
(***************************************************************************)
EXTENDS KgTransaction, TLAPS

-----------------------------------------------------------------------------
(* Types *)

LEMMA EntityQuadsAreQuads ==
  ASSUME NEW e \in Ids, NEW c \in Contents
  PROVE  EntityQuads(e, c) \subseteq Quads
BY AuthoringAssumption DEF Quads, EntityQuads

LEMMA EdgesAreQuads ==
  ASSUME NEW e \in Ids, NEW f \in Ids
  PROVE  Edge(e, f) \in Quads
BY DEF Quads, Edge

LEMMA TypeInit == Init => TypeOK
<1> SUFFICES ASSUME Init PROVE TypeOK
  OBVIOUS
<1>1. faults \in 0..MaxFaults /\ commands \in Nat /\ ops \in Nat
  BY AuthoringAssumption DEF Init
<1>2. QED
  BY <1>1 DEF Init, TypeOK, Phases

LEMMA TypeEntity ==
  ASSUME TypeOK, NEW e \in Ids, NEW c \in Contents, NEW targets \in TargetSets,
         StageEntity(e, c, targets)
  PROVE  TypeOK'
<1>1. /\ \A f \in targets : Edge(e, f) \in Quads
      /\ EntityQuads(e, c) \subseteq Quads
  BY EntityQuadsAreQuads, EdgesAreQuads, AuthoringAssumption
<1>2. adds' \subseteq Quads /\ removes' \subseteq Quads /\ restore' \subseteq Quads
        /\ asked' \subseteq Quads /\ written' \subseteq Ids
  BY <1>1 DEF StageEntity, NextOp, TypeOK, Out, In, Prior, NewEdges
<1>3. unchecked' \in BOOLEAN
  BY DEF StageEntity, TypeOK
<1>4. NextOp({"author", "transact", "add"})
  BY DEF StageEntity
<1>5. QED
  BY <1>2, <1>3, <1>4 DEF NextOp, TypeOK

LEMMA TypeStage ==
  ASSUME TypeOK, Stage
  PROVE  TypeOK'
<1>1. ASSUME NEW e \in Ids, NEW f \in Ids, StageRelation(e, f)
      PROVE  TypeOK'
  BY <1>1, EdgesAreQuads DEF StageRelation, NextOp, NewEdges, TypeOK
<1>2. ASSUME NEW e \in Ids, NEW title \in Titles \cup {Keep},
             NEW status \in Statuses \cup {Keep}, NEW hash \in Contents \cup {Keep},
             NEW ack \in BOOLEAN, StageUpdate(e, title, status, hash, ack)
      PROVE  TypeOK'
  <2> DEFINE new == {<<e, "title", t>> : t \in {title} \ {Keep}}
                      \cup {<<e, "task_status", s>> : s \in {status} \ {Keep}}
                      \cup {<<e, "content_hash", h>> : h \in {hash} \ {Keep}}
  <2>1. new \subseteq Quads
    BY AuthoringAssumption DEF Quads
  <2>2. adds' \subseteq Quads /\ removes' \subseteq Quads
    BY <1>2, <2>1 DEF StageUpdate, TypeOK, Out
  <2>3. QED
    BY <1>2, <2>2 DEF StageUpdate, NextOp, TypeOK
<1>3. ASSUME NEW e \in Ids, NEW cascade \in BOOLEAN, StageDelete(e, cascade)
      PROVE  TypeOK'
  BY <1>3 DEF StageDelete, NextOp, TypeOK, In, Out
<1>4. QED
  BY <1>1, <1>2, <1>3, TypeEntity DEF Stage

LEMMA TypeApply ==
  ASSUME TypeOK, Apply
  PROVE  TypeOK'
<1>1. ASSUME Commit
      PROVE  TypeOK'
  BY <1>1 DEF Commit, TypeOK, Phases
<1>2. ASSUME StartAdding \/ Committed \/ Restored
      PROVE  TypeOK'
  BY <1>2 DEF StartAdding, Committed, Restored, Goes, TypeOK, Phases
<1>3. ASSUME NEW q \in todo, RemoveOne(q) \/ AddOne(q) \/ RestoreOne(q)
      PROVE  TypeOK'
  BY <1>3 DEF RemoveOne, AddOne, RestoreOne, TakesFirst, Loop, TypeOK, Phases
<1>4. ASSUME StoreFails
      PROVE  TypeOK'
  <2>1. faults' \in 0..MaxFaults
    BY <1>4, AuthoringAssumption DEF StoreFails, Fault, TypeOK
  <2>2. QED
    BY <1>4, <2>1 DEF StoreFails, TypeOK, Phases
<1>5. QED
  BY <1>1, <1>2, <1>3, <1>4 DEF Apply

LEMMA TypeEnd ==
  ASSUME TypeOK, Raise \/ UndoRaises \/ End \/ Crash
  PROVE  TypeOK'
<1>1. faults' \in 0..MaxFaults
  BY AuthoringAssumption DEF Raise, UndoRaises, End, Crash, Fault, TypeOK
<1>2. Forget /\ pc' = "idle" /\ UNCHANGED <<store, unchecked, commands>>
  BY DEF Raise, UndoRaises, End, Crash
<1>3. QED
  BY <1>1, <1>2 DEF Forget, TypeOK, Phases

LEMMA TypeNext == TypeOK /\ [Next]_vars => TypeOK'
<1> SUFFICES ASSUME TypeOK, [Next]_vars PROVE TypeOK'
  OBVIOUS
<1>1. CASE UNCHANGED vars
  BY <1>1 DEF vars, local, TypeOK
<1>2. ASSUME NEW k \in Kinds, Begin(k)
      PROVE  TypeOK'
  BY <1>2 DEF Begin, TypeOK, Phases
<1>3. CASE Accept
  BY <1>3 DEF Accept, local, TypeOK, Phases
<1>4. CASE Reject
  BY <1>4 DEF Reject, In, Out, TypeOK, Phases
<1>5. QED
  BY <1>1, <1>2, <1>3, <1>4, TypeStage, TypeApply, TypeEnd DEF Next

\* The store holds quads, the transaction stages quads, and a command starts
\* with an empty one (TransactionContext.__init__).
THEOREM AuthoringTypes == Spec => []TypeOK
BY TypeInit, TypeNext, PTL DEF Spec

-----------------------------------------------------------------------------
(* The commit loops *)

\* What each loop of commit has done, told from what is left of it.
LoopInv ==
  /\ pc = "staging" => removes \subseteq store
  /\ pc = "removing" => /\ removes \subseteq base /\ todo \subseteq removes
                        /\ store = base \ (removes \ todo)
  /\ pc = "adding" => /\ removes \subseteq base /\ todo \subseteq adds
                      /\ store = (base \ removes) \cup (adds \ todo)
  /\ pc = "restoring" => /\ base \ todo \subseteq store /\ todo \subseteq base
                         /\ store \subseteq base \cup adds
  /\ pc = "failed" => base \subseteq store /\ store \subseteq base \cup adds
  /\ pc \in {"validate", "done", "rejected"} => store = (base \ removes) \cup adds

LEMMA LoopStage ==
  ASSUME LoopInv, Stage
  PROVE  LoopInv'
<1>1. pc = "staging" /\ pc' = pc /\ store' = store
  <2>1. ASSUME NEW kinds, NextOp(kinds)
        PROVE  pc = "staging" /\ pc' = pc /\ store' = store
    BY <2>1 DEF NextOp
  <2>2. ASSUME NEW e \in Ids, NEW c \in Contents, NEW targets \in TargetSets,
               StageEntity(e, c, targets)
        PROVE  NextOp({"author", "transact", "add"})
    BY <2>2 DEF StageEntity
  <2>3. ASSUME NEW e \in Ids, NEW f \in Ids, StageRelation(e, f)
        PROVE  NextOp({"transact"})
    BY <2>3 DEF StageRelation
  <2>4. ASSUME NEW e \in Ids, NEW title, NEW status, NEW hash, NEW ack,
               StageUpdate(e, title, status, hash, ack)
        PROVE  NextOp({"update"})
    BY <2>4 DEF StageUpdate
  <2>5. ASSUME NEW e \in Ids, NEW cascade, StageDelete(e, cascade)
        PROVE  NextOp({"delete"})
    BY <2>5 DEF StageDelete
  <2>6. QED
    BY <2>1, <2>2, <2>3, <2>4, <2>5 DEF Stage
<1>2. removes' \subseteq store
  <2>1. ASSUME NEW e \in Ids, NEW c \in Contents, NEW targets \in TargetSets,
               StageEntity(e, c, targets)
        PROVE  removes' \subseteq store
    BY <1>1, <2>1 DEF StageEntity, LoopInv, Out
  <2>2. ASSUME NEW e \in Ids, NEW title, NEW status, NEW hash, NEW ack,
               StageUpdate(e, title, status, hash, ack)
        PROVE  removes' \subseteq store
    BY <2>2 DEF StageUpdate, Out
  <2>3. ASSUME NEW e \in Ids, NEW cascade, StageDelete(e, cascade)
        PROVE  removes' \subseteq store
    BY <2>3 DEF StageDelete, In, Out
  <2>4. ASSUME NEW e \in Ids, NEW f \in Ids, StageRelation(e, f)
        PROVE  removes' \subseteq store
    BY <1>1, <2>4 DEF StageRelation, LoopInv
  <2>5. QED
    BY <2>1, <2>2, <2>3, <2>4 DEF Stage
<1>3. QED
  BY <1>1, <1>2 DEF LoopInv

LEMMA LoopApply ==
  ASSUME LoopInv, Apply
  PROVE  LoopInv'
<1> USE DEF LoopInv
<1>1. ASSUME Commit
      PROVE  LoopInv'
  BY <1>1 DEF Commit
<1>2. ASSUME StartAdding
      PROVE  LoopInv'
  BY <1>2 DEF StartAdding, Goes
<1>3. ASSUME Committed
      PROVE  LoopInv'
  BY <1>3 DEF Committed, Goes
<1>4. ASSUME NEW q \in todo, RemoveOne(q)
      PROVE  LoopInv'
  BY <1>4 DEF RemoveOne, TakesFirst, Loop
<1>5. ASSUME NEW q \in todo, AddOne(q)
      PROVE  LoopInv'
  BY <1>5 DEF AddOne, TakesFirst, Loop
<1>6. ASSUME StoreFails
      PROVE  LoopInv'
  BY <1>6 DEF StoreFails
<1>7. ASSUME NEW q \in todo, RestoreOne(q)
      PROVE  LoopInv'
  BY <1>7 DEF RestoreOne, TakesFirst, Loop
<1>8. ASSUME Restored
      PROVE  LoopInv'
  BY <1>8 DEF Restored, Goes
<1>9. QED
  BY <1>1, <1>2, <1>3, <1>4, <1>5, <1>6, <1>7, <1>8 DEF Apply

LEMMA LoopNext == TypeOK /\ LoopInv /\ [Next]_vars => LoopInv'
<1> SUFFICES ASSUME TypeOK, LoopInv, [Next]_vars PROVE LoopInv'
  OBVIOUS
<1>1. CASE UNCHANGED vars
  BY <1>1 DEF vars, local, LoopInv
<1>2. ASSUME NEW k \in Kinds, Begin(k)
      PROVE  LoopInv'
  BY <1>2 DEF Begin, TypeOK, LoopInv
<1>3. CASE Accept
  BY <1>3 DEF Accept, local, LoopInv
<1>4. CASE Reject
  BY <1>4 DEF Reject, In, Out, LoopInv
<1>5. CASE Raise \/ UndoRaises \/ End \/ Crash
  BY <1>5 DEF Raise, UndoRaises, End, Crash, LoopInv
<1>6. QED
  BY <1>1, <1>2, <1>3, <1>4, <1>5, LoopStage, LoopApply DEF Next

LEMMA LoopInit == Init => LoopInv
BY DEF Init, LoopInv

LEMMA LoopsAlways == Spec => [](TypeOK /\ LoopInv)
BY TypeInit, TypeNext, LoopInit, LoopNext, PTL DEF Spec

\* commit's handler: a store that fails in either loop loses nothing it had.
THEOREM FailuresLoseNothing == Spec => []FailedCommitLosesNothing
<1>1. LoopInv => FailedCommitLosesNothing
  BY DEF LoopInv, FailedCommitLosesNothing
<1>2. QED
  BY <1>1, LoopsAlways, PTL

-----------------------------------------------------------------------------
(* Validation and the undo *)

Checked == {"author", "transact"}

Touching(s, W) == {q \in s : q[1] \in W \/ (IsEdge(q) /\ q[3] \in W)}

TypeQuad(e) == <<e, "type", "Task">>

\* What a batch has staged, seen from the store it began with.
Staged ==
  /\ removes \subseteq Touching(before, written)
  /\ \A q \in adds : q[1] \in written \/ IsEdge(q)
  /\ restore = Touching(before, written)
  /\ \A w \in written : \/ \E c \in Contents : <<w, "content_hash", c>> \in before
                        \/ TypeQuad(w) \in adds
  /\ \A w \in written : TypeQuad(w) \in removes => TypeQuad(w) \in adds

\* What the undo stages, seen from the same store.
Compensates ==
  /\ adds = restore /\ restore = Touching(before, written)
  /\ before \subseteq base \cup restore
  /\ \A q \in base \ before : q[1] \in written \/ IsEdge(q)
  /\ Sound(before) => \A w \in written : Typed(base, w)
  /\ removes = Touching(base, {w \in written : Typed(base, w)})

UndoInv ==
  /\ pc = "idle" => written = {} /\ restore = {}
  /\ pc = "staging" => store = before /\ ~undoing
  /\ pc \in {"removing", "adding"} /\ ~undoing => base = before
  /\ pc = "validate" => base = before /\ ~undoing /\ kind \in Checked
  /\ pc = "rejected" => undoing
  /\ pc \in {"staging", "removing", "adding", "validate"} /\ ~undoing /\ kind \in Checked
       => Staged
  /\ pc \in {"removing", "adding", "rejected"} /\ undoing => Compensates

LEMMA UndoEntity ==
  ASSUME TypeOK, UndoInv, NEW e \in Ids, NEW c \in Contents, NEW targets \in TargetSets,
         StageEntity(e, c, targets), kind \in Checked
  PROVE  Staged'
<1> DEFINE same    == <<e, "content_hash", c>> \in store
           removed == removes \cup IF same THEN {} ELSE Out(store, e)
           added   == adds \cup IF same THEN {} ELSE EntityQuads(e, c)
           edges   == {Edge(e, f) : f \in targets}
<1>1. /\ removes' = removed
      /\ adds' = added \cup NewEdges(edges, added, removed)
      /\ written' = written \cup {e}
      /\ restore' = restore \cup Prior(e)
  BY DEF StageEntity
<1>2. NextOp({"author", "transact", "add"})
  BY DEF StageEntity
<1>3. pc = "staging" /\ before' = before
  BY <1>2 DEF NextOp
<1>4. Staged /\ store = before
  BY <1>3 DEF UndoInv
<1>5. removes' \subseteq Touching(before, written \cup {e})
  BY <1>1, <1>4 DEF Staged, Touching, Out
<1>6. \A q \in adds' : q[1] \in written \cup {e} \/ IsEdge(q)
  <2>1. \A q \in EntityQuads(e, c) : q[1] = e
    BY DEF EntityQuads
  <2>2. \A q \in NewEdges(edges, added, removed) : IsEdge(q)
    BY DEF NewEdges, Edge, IsEdge
  <2>3. \A q \in adds' : q \in adds \/ q \in EntityQuads(e, c)
                           \/ q \in NewEdges(edges, added, removed)
    BY <1>1
  <2>4. QED
    BY <2>1, <2>2, <2>3, <1>4 DEF Staged
<1>7. restore' = Touching(before, written \cup {e})
  BY <1>1, <1>4 DEF Staged, Touching, Prior, Out, In
<1>8. ASSUME NEW w \in written \cup {e}
      PROVE  \/ \E d \in Contents : <<w, "content_hash", d>> \in before
             \/ TypeQuad(w) \in adds'
  <2>1. CASE w = e /\ same
    BY <2>1, <1>4
  <2>2. CASE w = e /\ ~same
    BY <2>2, <1>1 DEF EntityQuads, TypeQuad
  <2>3. CASE w \in written
    BY <2>3, <1>1, <1>4 DEF Staged
  <2>4. QED
    BY <2>1, <2>2, <2>3
<1>9. ASSUME NEW w \in written \cup {e}, TypeQuad(w) \in removes'
      PROVE  TypeQuad(w) \in adds'
  <2>1. CASE TypeQuad(w) \in removes
    <3>1. w \in written
      BY <2>1, <1>4 DEF Staged, Touching, TypeQuad, IsEdge
    <3>2. QED
      BY <2>1, <3>1, <1>1, <1>4 DEF Staged
  <2>2. CASE TypeQuad(w) \notin removes
    <3>1. ~same /\ TypeQuad(w) \in Out(store, e)
      BY <2>2, <1>9, <1>1
    <3>2. w = e
      BY <3>1 DEF Out, TypeQuad
    <3>3. QED
      BY <3>1, <3>2, <1>1 DEF EntityQuads, TypeQuad
  <2>3. QED
    BY <2>1, <2>2
<1>10. QED
  BY <1>1, <1>3, <1>5, <1>6, <1>7, <1>8, <1>9 DEF Staged

LEMMA UndoRelation ==
  ASSUME TypeOK, UndoInv, NEW e \in Ids, NEW f \in Ids, StageRelation(e, f), kind \in Checked
  PROVE  Staged'
<1>1. NextOp({"transact"})
  BY DEF StageRelation
<1>2. pc = "staging" /\ before' = before
  BY <1>1 DEF NextOp
<1>3. Staged
  BY <1>2 DEF UndoInv
<1>4. \A q \in NewEdges({Edge(e, f)}, adds, removes) : IsEdge(q)
  BY DEF NewEdges, Edge, IsEdge
<1>5. QED
  BY <1>2, <1>3, <1>4 DEF StageRelation, Staged

LEMMA UndoStage ==
  ASSUME TypeOK, UndoInv, Stage
  PROVE  UndoInv'
<1>1. ASSUME NEW kinds, NextOp(kinds)
      PROVE  /\ pc = "staging" /\ pc' = pc /\ store' = store /\ before' = before
             /\ kind' = kind /\ undoing' = undoing /\ kind \in kinds
  BY <1>1 DEF NextOp
<1>2. ASSUME NEW kinds, NextOp(kinds), kind \in Checked => Staged'
      PROVE  UndoInv'
  BY <1>1, <1>2 DEF UndoInv
<1>3. ASSUME NEW e \in Ids, NEW c \in Contents, NEW targets \in TargetSets,
             StageEntity(e, c, targets)
      PROVE  UndoInv'
  <2>1. NextOp({"author", "transact", "add"})
    BY <1>3 DEF StageEntity
  <2>2. QED
    BY <1>2, <1>3, <2>1, UndoEntity
<1>4. ASSUME NEW e \in Ids, NEW f \in Ids, StageRelation(e, f)
      PROVE  UndoInv'
  <2>1. NextOp({"transact"})
    BY <1>4 DEF StageRelation
  <2>2. QED
    BY <1>2, <1>4, <2>1, UndoRelation
<1>5. ASSUME NEW e \in Ids, NEW title, NEW status, NEW hash, NEW ack,
             StageUpdate(e, title, status, hash, ack)
      PROVE  UndoInv'
  <2>1. NextOp({"update"})
    BY <1>5 DEF StageUpdate
  <2>2. kind \notin Checked
    BY <1>1, <2>1 DEF Checked
  <2>3. QED
    BY <1>2, <2>1, <2>2
<1>6. ASSUME NEW e \in Ids, NEW cascade, StageDelete(e, cascade)
      PROVE  UndoInv'
  <2>1. NextOp({"delete"})
    BY <1>6 DEF StageDelete
  <2>2. kind \notin Checked
    BY <1>1, <2>1 DEF Checked
  <2>3. QED
    BY <1>2, <2>1, <2>2
<1>7. QED
  BY <1>3, <1>4, <1>5, <1>6 DEF Stage

\* A batch that began on a sound store has typed everything it wrote.
LEMMA WrittenAreTyped ==
  ASSUME TypeOK, LoopInv, UndoInv, pc = "validate", Sound(before), NEW w \in written
  PROVE  Typed(store, w)
<1>1. Staged /\ store = (before \ removes) \cup adds
  BY DEF UndoInv, LoopInv
<1>2. CASE TypeQuad(w) \in adds
  BY <1>1, <1>2 DEF Typed, TypeQuad
<1>3. CASE TypeQuad(w) \notin adds
  <2>1. PICK c \in Contents : <<w, "content_hash", c>> \in before
    BY <1>1, <1>3 DEF Staged
  <2>2. w \in Ids
    BY DEF TypeOK
  <2>3. TypeQuad(w) \in before
    BY <2>1, <2>2 DEF Sound, Typed, TypeQuad
  <2>4. TypeQuad(w) \notin removes
    BY <1>1, <1>3 DEF Staged
  <2>5. QED
    BY <2>3, <2>4, <1>1 DEF Typed, TypeQuad
<1>4. QED
  BY <1>2, <1>3

\* The undo's quads, from what the commit did.
LEMMA UndoReject ==
  ASSUME TypeOK, LoopInv, UndoInv, Reject
  PROVE  UndoInv'
<1> DEFINE W == {w \in written : Typed(store, w)}
<1>1. /\ pc = "validate" /\ pc' = "removing" /\ undoing' = TRUE
      /\ removes' = UNION {In(store, e) \cup Out(store, e) : e \in W}
      /\ adds' = restore /\ base' = store
      /\ UNCHANGED <<store, written, restore, before>>
  BY DEF Reject
<1>2. Staged /\ base = before /\ store = (base \ removes) \cup adds
  BY <1>1 DEF UndoInv, LoopInv
<1>3. removes' = Touching(store, W)
  BY <1>1 DEF Touching, In, Out
<1>4. before \subseteq store \cup restore
  BY <1>2 DEF Staged
<1>5. \A q \in store \ before : q[1] \in written \/ IsEdge(q)
  BY <1>2 DEF Staged
<1>6. ASSUME Sound(before), NEW w \in written
      PROVE  Typed(store, w)
  BY <1>1, <1>6, WrittenAreTyped
<1>7. Sound(before') => \A w \in written' : Typed(base', w)
  BY <1>1, <1>6
<1>8. Compensates'
  BY <1>1, <1>2, <1>3, <1>4, <1>5, <1>7 DEF Compensates, Staged
<1>9. QED
  BY <1>1, <1>8 DEF UndoInv

LEMMA UndoApply ==
  ASSUME UndoInv, Apply
  PROVE  UndoInv'
<1> USE DEF UndoInv
<1>1. ASSUME Commit
      PROVE  UndoInv'
  BY <1>1 DEF Commit, Staged, Compensates
<1>2. ASSUME StartAdding
      PROVE  UndoInv'
  BY <1>2 DEF StartAdding, Goes, Staged, Compensates
<1>3. ASSUME Committed
      PROVE  UndoInv'
  BY <1>3 DEF Committed, Goes, Staged, Compensates, Checked
<1>4. ASSUME NEW q \in todo, RemoveOne(q) \/ AddOne(q) \/ RestoreOne(q)
      PROVE  UndoInv'
  <2>1. /\ pc \in {"removing", "adding", "restoring"}
        /\ UNCHANGED <<pc, kind, adds, removes, written, restore, undoing, base, before>>
    BY <1>4 DEF RemoveOne, AddOne, RestoreOne, Loop
  <2>2. Staged' = Staged /\ Compensates' = Compensates
    BY <2>1 DEF Staged, Compensates
  <2>3. QED
    BY <2>1, <2>2
<1>5. ASSUME StoreFails
      PROVE  UndoInv'
  BY <1>5 DEF StoreFails
<1>6. ASSUME Restored
      PROVE  UndoInv'
  BY <1>6 DEF Restored, Goes
<1>7. QED
  BY <1>1, <1>2, <1>3, <1>4, <1>5, <1>6 DEF Apply

LEMMA UndoNext == TypeOK /\ LoopInv /\ UndoInv /\ [Next]_vars => UndoInv'
<1> SUFFICES ASSUME TypeOK, LoopInv, UndoInv, [Next]_vars PROVE UndoInv'
  OBVIOUS
<1>1. CASE UNCHANGED vars
  BY <1>1 DEF vars, local, UndoInv, Staged, Compensates
<1>2. ASSUME NEW k \in Kinds, Begin(k)
      PROVE  UndoInv'
  <2>1. /\ adds = {} /\ removes = {} /\ written = {} /\ restore = {} /\ ~undoing
        /\ pc' = "staging" /\ before' = store /\ store' = store
        /\ UNCHANGED <<adds, removes, written, restore, undoing>>
    BY <1>2 DEF Begin, TypeOK, UndoInv
  <2>2. Staged'
    BY <2>1 DEF Staged, Touching
  <2>3. QED
    BY <2>1, <2>2 DEF UndoInv
<1>3. CASE Accept
  BY <1>3 DEF Accept, local, UndoInv
<1>4. CASE Raise \/ UndoRaises \/ End \/ Crash
  <2>1. Forget /\ pc' = "idle"
    BY <1>4 DEF Raise, UndoRaises, End, Crash
  <2>2. QED
    BY <2>1 DEF Forget, UndoInv
<1>5. QED
  BY <1>1, <1>2, <1>3, <1>4, UndoStage, UndoReject, UndoApply DEF Next

LEMMA UndoInit == Init => UndoInv
BY DEF Init, UndoInv

LEMMA UndoneByCompensation == LoopInv /\ UndoInv => RejectedIsUndone
<1> SUFFICES ASSUME LoopInv, UndoInv, pc = "rejected", Sound(before)
             PROVE  /\ before \subseteq store
                    /\ \A q \in store \ before :
                         IsEdge(q) /\ q[1] \notin written /\ q[3] \notin written
  BY DEF RejectedIsUndone
<1>1. Compensates /\ store = (base \ removes) \cup adds
  BY DEF UndoInv, LoopInv
<1>2. removes = Touching(base, written)
  BY <1>1 DEF Compensates, Touching
<1>3. before \subseteq store
  BY <1>1, <1>2 DEF Compensates, Touching
<1>4. ASSUME NEW q \in store \ before
      PROVE  IsEdge(q) /\ q[1] \notin written /\ q[3] \notin written
  <2>1. q \in base /\ q \notin Touching(base, written)
    BY <1>1, <1>2, <1>4 DEF Compensates, Touching
  <2>2. QED
    BY <2>1, <1>1, <1>4 DEF Compensates, Touching
<1>5. QED
  BY <1>3, <1>4

\* transact, author_entity: a write that validation rejects is undone, and only
\* edges between entities it did not write stay.
THEOREM RejectionsAreUndone == Spec => []RejectedIsUndone
BY UndoneByCompensation, TypeInit, TypeNext, LoopInit, LoopNext, UndoInit, UndoNext, PTL DEF Spec

-----------------------------------------------------------------------------
(* Single writes *)

Single == {"author", "add"}

\* The store a commit without failures makes of the staged lists.
After == (before \ removes) \cup adds

Landed(s) ==
  \A e \in written :
    HashTells(before, e) => asked \subseteq s /\ Slots(s, e) = {q \in asked : ~IsEdge(q)}

LandInv ==
  /\ pc = "idle" => ops = 0
  /\ pc = "idle" \/ (pc = "staging" /\ ops = 0)
       => adds = {} /\ removes = {} /\ written = {} /\ asked = {}
  /\ pc = "staging" => store = before
  /\ pc \in {"idle", "staging", "validate", "done"} => ~undoing
  /\ pc \in {"removing", "adding", "validate", "done"} /\ ~undoing => base = before
  /\ pc \in {"staging", "removing", "adding", "validate", "done"} /\ ~undoing
       /\ kind \in Single => Landed(After)

LEMMA LandEntity ==
  ASSUME TypeOK, LandInv, NEW e \in Ids, NEW c \in Contents, NEW targets \in TargetSets,
         StageEntity(e, c, targets), kind \in Single
  PROVE  Landed(After)'
<1> DEFINE same    == <<e, "content_hash", c>> \in store
           removed == IF same THEN {} ELSE Out(store, e)
           added   == IF same THEN {} ELSE EntityQuads(e, c)
           edges   == {Edge(e, f) : f \in targets}
<1>1. NextOp({"author", "transact", "add"})
  BY DEF StageEntity
<1>2. pc = "staging" /\ ops = 0 /\ before' = before
  BY <1>1 DEF NextOp, Single, TypeOK
<1>3. adds = {} /\ removes = {} /\ written = {} /\ asked = {} /\ store = before
  BY <1>2 DEF LandInv
<1>4. /\ removes' = removed
      /\ adds' = added \cup NewEdges(edges, added, removed)
      /\ written' = {e}
      /\ asked' = EntityQuads(e, c) \cup edges
  BY <1>3 DEF StageEntity
<1>5. /\ \A q \in EntityQuads(e, c) : q[1] = e /\ ~IsEdge(q)
      /\ \A q \in edges : q[1] = e /\ IsEdge(q)
  BY DEF EntityQuads, Edge, IsEdge
<1>6. SUFFICES ASSUME HashTells(before, e)
               PROVE  asked' \subseteq After' /\ Slots(After', e) = {q \in asked' : ~IsEdge(q)}
  BY <1>2, <1>4 DEF Landed
<1>7. edges \subseteq After'
  BY <1>2, <1>3, <1>4 DEF After, NewEdges
<1>8. EntityQuads(e, c) \subseteq After' /\ Slots(After', e) = EntityQuads(e, c)
  <2>1. CASE same
    <3>1. Slots(before, e) = EntityQuads(e, c)
      BY <2>1, <1>3, <1>6 DEF HashTells
    <3>2. After' = before \cup NewEdges(edges, added, removed)
      BY <2>1, <1>2, <1>4 DEF After
    <3>3. \A q \in NewEdges(edges, added, removed) : IsEdge(q)
      BY <1>5 DEF NewEdges
    <3>4. QED
      BY <3>1, <3>2, <3>3 DEF Slots, Out
  <2>2. CASE ~same
    <3>1. After' = (before \ Out(before, e)) \cup EntityQuads(e, c)
                     \cup NewEdges(edges, added, removed)
      BY <2>2, <1>2, <1>3, <1>4 DEF After
    <3>2. \A q \in NewEdges(edges, added, removed) : IsEdge(q)
      BY <1>5 DEF NewEdges
    <3>3. QED
      BY <3>1, <3>2, <1>5 DEF Slots, Out
  <2>3. QED
    BY <2>1, <2>2
<1>9. QED
  BY <1>4, <1>5, <1>7, <1>8

LEMMA LandStage ==
  ASSUME TypeOK, LandInv, Stage
  PROVE  LandInv'
<1>1. ASSUME NEW kinds, NextOp(kinds)
      PROVE  /\ pc = "staging" /\ pc' = pc /\ store' = store /\ before' = before
             /\ kind' = kind /\ undoing' = undoing /\ kind \in kinds /\ ops' # 0
  BY <1>1 DEF NextOp, TypeOK
<1>2. ASSUME NEW kinds, NextOp(kinds), kind \in Single => Landed(After)'
      PROVE  LandInv'
  BY <1>1, <1>2 DEF LandInv
<1>3. ASSUME NEW e \in Ids, NEW c \in Contents, NEW targets \in TargetSets,
             StageEntity(e, c, targets)
      PROVE  LandInv'
  <2>1. NextOp({"author", "transact", "add"})
    BY <1>3 DEF StageEntity
  <2>2. QED
    BY <1>2, <1>3, <2>1, LandEntity
<1>4. ASSUME NEW kinds, NextOp(kinds), kinds \cap Single = {}
      PROVE  LandInv'
  BY <1>1, <1>2, <1>4
<1>5. /\ \A e, f \in Ids : StageRelation(e, f) => NextOp({"transact"})
      /\ \A e, title, status, hash, ack :
           StageUpdate(e, title, status, hash, ack) => NextOp({"update"})
      /\ \A e, cascade : StageDelete(e, cascade) => NextOp({"delete"})
  BY DEF StageRelation, StageUpdate, StageDelete
<1>6. {"transact"} \cap Single = {} /\ {"update"} \cap Single = {}
        /\ {"delete"} \cap Single = {}
  BY DEF Single
<1>7. QED
  BY <1>3, <1>4, <1>5, <1>6 DEF Stage

LEMMA LandNext == TypeOK /\ LandInv /\ [Next]_vars => LandInv'
<1> SUFFICES ASSUME TypeOK, LandInv, [Next]_vars PROVE LandInv'
  OBVIOUS
<1> USE DEF LandInv
<1>1. CASE UNCHANGED vars
  BY <1>1 DEF vars, local, Landed, After
<1>2. ASSUME NEW k \in Kinds, Begin(k)
      PROVE  LandInv'
  BY <1>2 DEF Begin, TypeOK, Landed
<1>3. CASE Commit
  BY <1>3 DEF Commit, Landed, After
<1>4. CASE StartAdding \/ Committed \/ Restored
  <2>1. /\ <<pc, pc'>> \in {<<"removing", "adding">>, <<"adding", "rejected">>,
                            <<"adding", "validate">>, <<"adding", "done">>,
                            <<"restoring", "failed">>}
        /\ pc' \in {"validate", "done"} => ~undoing
        /\ UNCHANGED <<kind, adds, removes, written, undoing, base, before, asked, ops>>
    BY <1>4 DEF StartAdding, Committed, Restored, Goes
  <2>2. Landed(After)' = Landed(After)
    BY <2>1 DEF Landed, After
  <2>3. QED
    BY <2>1, <2>2
<1>5. ASSUME NEW q \in todo, RemoveOne(q) \/ AddOne(q) \/ RestoreOne(q)
      PROVE  LandInv'
  <2>1. /\ pc \in {"removing", "adding", "restoring"}
        /\ UNCHANGED <<pc, kind, adds, removes, written, undoing, base, before, asked, ops>>
    BY <1>5 DEF RemoveOne, AddOne, RestoreOne, Loop
  <2>2. Landed(After)' = Landed(After)
    BY <2>1 DEF Landed, After
  <2>3. QED
    BY <2>1, <2>2
<1>6. CASE StoreFails
  BY <1>6 DEF StoreFails
<1>7. CASE Accept
  BY <1>7 DEF Accept, local, Landed, After
<1>8. CASE Reject
  BY <1>8 DEF Reject
<1>9. CASE Raise \/ UndoRaises \/ End \/ Crash
  <2>1. Forget /\ pc' = "idle"
    BY <1>9 DEF Raise, UndoRaises, End, Crash
  <2>2. QED
    BY <2>1 DEF Forget
<1>10. QED
  BY <1>1, <1>2, <1>3, <1>4, <1>5, <1>6, <1>7, <1>8, <1>9, LandStage DEF Next, Apply

LEMMA LandInit == Init => LandInv
BY DEF Init, LandInv, Landed

\* add_entity and add_relation: a single write that succeeds has landed, slots
\* and edges, unless the hash that was stored lied.
THEOREM WritesLand == Spec => []AuthoredLands
<1>1. LoopInv /\ LandInv => AuthoredLands
  <2> SUFFICES ASSUME LoopInv, LandInv, pc = "done", kind \in Single
               PROVE  Landed(store)
    BY DEF AuthoredLands, Landed, Single
  <2>1. store = After
    BY DEF LoopInv, LandInv, After
  <2>2. QED
    BY <2>1 DEF LandInv
<1>2. QED
  BY <1>1, TypeInit, TypeNext, LoopInit, LoopNext, LandInit, LandNext, PTL DEF Spec

-----------------------------------------------------------------------------
(* Edges and their targets *)

\* What validated commands keep of the store, between commands.
Whole(s) == Sound(s) /\ \A q \in s : IsEdge(q) => Typed(s, q[3])

\* A batch adds edges from what it wrote only, and no hash without the node.
Own ==
  \A q \in adds :
    q[1] \in written /\ (q[2] = "content_hash" => TypeQuad(q[1]) \in adds)

EdgeInv ==
  /\ pc \in {"restoring", "failed"} => faults # 0
  /\ faults = 0 /\ ~unchecked =>
       /\ pc = "idle" => Whole(store)
       /\ pc # "idle" => Whole(before)
       /\ pc = "done" => Whole(store)
       /\ pc \in {"staging", "removing", "adding", "validate"} /\ ~undoing =>
            IF kind \in Checked THEN Own ELSE Whole(After)
       /\ pc \in {"removing", "adding", "rejected"} /\ undoing =>
            \A q \in base \ before : q[1] \in written

LEMMA EdgeUpdate ==
  ASSUME TypeOK, LandInv, Whole(before), NEW e \in Ids,
         NEW title \in Titles \cup {Keep}, NEW status \in Statuses \cup {Keep},
         NEW hash \in Contents \cup {Keep}, NEW ack \in BOOLEAN,
         StageUpdate(e, title, status, hash, ack)
  PROVE  Whole(After)'
<1> DEFINE new == {<<e, "title", t>> : t \in {title} \ {Keep}}
                    \cup {<<e, "task_status", s>> : s \in {status} \ {Keep}}
                    \cup {<<e, "content_hash", h>> : h \in {hash} \ {Keep}}
           same == hash # Keep /\ <<e, "content_hash", hash>> \in store
<1>1. NextOp({"update"})
  BY DEF StageUpdate
<1>2. pc = "staging" /\ before' = before
  BY <1>1 DEF NextOp
<1>3. store = before
  BY <1>2 DEF LandInv
<1>4. /\ Typed(before, e)
      /\ adds' = IF same THEN {} ELSE new
      /\ removes' = IF same THEN {} ELSE {q \in Out(store, e) : \E n \in new : q[2] = n[2]}
  BY <1>3 DEF StageUpdate
<1>5. \A n \in new : n[1] = e /\ n[2] # "type" /\ ~IsEdge(n)
  BY DEF IsEdge
<1>6. \A f : TypeQuad(f) \notin removes'
  BY <1>4, <1>5 DEF TypeQuad
<1>7. \A f : Typed(before, f) => Typed(After', f)
  BY <1>2, <1>6 DEF After, Typed, TypeQuad
<1>8. After' \subseteq before \cup new
  BY <1>2, <1>4 DEF After
<1>9. ASSUME NEW q \in After', IsEdge(q)
      PROVE  Typed(After', q[3])
  BY <1>5, <1>7, <1>8, <1>9 DEF Whole
<1>10. ASSUME NEW f \in Ids, NEW c \in Contents, <<f, "content_hash", c>> \in After'
       PROVE  Typed(After', f)
  <2>1. CASE <<f, "content_hash", c>> \in before
    BY <2>1, <1>7 DEF Whole, Sound
  <2>2. CASE <<f, "content_hash", c>> \in new
    BY <2>2, <1>4, <1>7
  <2>3. QED
    BY <2>1, <2>2, <1>8, <1>10
<1>11. QED
  BY <1>9, <1>10 DEF Whole, Sound

LEMMA EdgeDelete ==
  ASSUME TypeOK, LandInv, Whole(before), NEW e \in Ids, NEW cascade \in BOOLEAN,
         StageDelete(e, cascade)
  PROVE  Whole(After)'
<1>1. NextOp({"delete"})
  BY DEF StageDelete
<1>2. pc = "staging" /\ ops = 0 /\ before' = before
  BY <1>1 DEF NextOp, TypeOK
<1>3. store = before /\ adds = {}
  BY <1>2 DEF LandInv
<1>4. removes' = In(before, e) \cup Out(before, e) /\ adds' = {}
  BY <1>3 DEF StageDelete
<1>5. After' = {q \in before : q[1] # e /\ ~(IsEdge(q) /\ q[3] = e)}
  BY <1>2, <1>4 DEF After, In, Out
<1>6. \A f : f # e /\ Typed(before, f) => Typed(After', f)
  BY <1>5 DEF Typed, IsEdge
<1>7. ASSUME NEW q \in After', IsEdge(q)
      PROVE  Typed(After', q[3])
  BY <1>5, <1>6, <1>7 DEF Whole
<1>8. ASSUME NEW f \in Ids, NEW c \in Contents, <<f, "content_hash", c>> \in After'
      PROVE  Typed(After', f)
  <2>1. <<f, "content_hash", c>> \in before /\ f # e
    BY <1>5, <1>8
  <2>2. QED
    BY <2>1, <1>6 DEF Whole, Sound
<1>9. QED
  BY <1>7, <1>8 DEF Whole, Sound

LEMMA EdgeEntity ==
  ASSUME Own, NEW e \in Ids, NEW c \in Contents, NEW targets \in TargetSets,
         StageEntity(e, c, targets)
  PROVE  Own'
<1> DEFINE same    == <<e, "content_hash", c>> \in store
           removed == removes \cup IF same THEN {} ELSE Out(store, e)
           added   == adds \cup IF same THEN {} ELSE EntityQuads(e, c)
           edges   == {Edge(e, f) : f \in targets}
<1>1. /\ adds' = added \cup NewEdges(edges, added, removed)
      /\ written' = written \cup {e}
  BY DEF StageEntity
<1>2. SUFFICES ASSUME NEW q \in adds'
               PROVE  q[1] \in written' /\ (q[2] = "content_hash" => TypeQuad(q[1]) \in adds')
  BY DEF Own
<1>3. CASE q \in adds
  BY <1>1, <1>3 DEF Own
<1>4. CASE q \in EntityQuads(e, c) /\ ~same
  BY <1>1, <1>4 DEF EntityQuads, TypeQuad
<1>5. CASE q \in NewEdges(edges, added, removed)
  BY <1>1, <1>5 DEF NewEdges, Edge
<1>6. QED
  BY <1>1, <1>3, <1>4, <1>5

LEMMA EdgeStage ==
  ASSUME TypeOK, LandInv, EdgeInv, Stage
  PROVE  EdgeInv'
<1>1. ASSUME NEW kinds, NextOp(kinds)
      PROVE  /\ pc = "staging" /\ pc' = pc /\ store' = store /\ before' = before
             /\ kind' = kind /\ undoing' = undoing /\ faults' = faults /\ kind \in kinds
  BY <1>1 DEF NextOp
<1>2. ASSUME NEW kinds, NextOp(kinds), unchecked => unchecked',
             faults = 0 /\ ~unchecked' /\ Whole(before) /\ ~undoing
               => IF kind \in Checked THEN Own => Own' ELSE Whole(After)'
      PROVE  EdgeInv'
  <2>1. pc = "staging" /\ pc' = pc /\ store' = store /\ before' = before
          /\ kind' = kind /\ undoing' = undoing /\ faults' = faults /\ ~undoing
    BY <1>1, <1>2 DEF LandInv
  <2>2. SUFFICES ASSUME faults = 0, ~unchecked'
                 PROVE  Whole(before) /\ IF kind \in Checked THEN Own' ELSE Whole(After)'
    BY <2>1 DEF EdgeInv, Whole
  <2>3. Whole(before) /\ (kind \in Checked => Own)
    BY <2>1, <2>2, <1>2 DEF EdgeInv
  <2>4. QED
    BY <2>1, <2>2, <2>3, <1>2
<1>3. ASSUME NEW e \in Ids, NEW c \in Contents, NEW targets \in TargetSets,
             StageEntity(e, c, targets)
      PROVE  EdgeInv'
  <2>1. NextOp({"author", "transact", "add"}) /\ unchecked' = (unchecked \/ kind = "add")
    BY <1>3 DEF StageEntity
  <2>2. kind \in {"author", "transact", "add"}
    BY <1>1, <2>1
  <2>3. kind \in Checked \/ kind = "add"
    BY <2>2 DEF Checked
  <2>4. ~unchecked' => kind \in Checked /\ ~unchecked
    BY <2>1, <2>3, Zenon
  <2>5. Own => Own'
    BY <1>3, EdgeEntity
  <2>6. QED
    BY <1>2, <2>1, <2>4, <2>5
<1>4. ASSUME NEW e \in Ids, NEW f \in Ids, StageRelation(e, f)
      PROVE  EdgeInv'
  <2>1. NextOp({"transact"}) /\ unchecked' = TRUE
    BY <1>4 DEF StageRelation
  <2>2. QED
    BY <1>2, <2>1
<1>5. ASSUME NEW e \in Ids, NEW title \in Titles \cup {Keep},
             NEW status \in Statuses \cup {Keep}, NEW hash \in Contents \cup {Keep},
             NEW ack \in BOOLEAN, StageUpdate(e, title, status, hash, ack)
      PROVE  EdgeInv'
  <2>1. NextOp({"update"}) /\ unchecked' = unchecked
    BY <1>5 DEF StageUpdate
  <2>2. kind \notin Checked
    BY <1>1, <2>1 DEF Checked
  <2>3. Whole(before) => Whole(After)'
    BY <1>5, EdgeUpdate
  <2>4. QED
    BY <1>2, <2>1, <2>2, <2>3
<1>6. ASSUME NEW e \in Ids, NEW cascade \in BOOLEAN, StageDelete(e, cascade)
      PROVE  EdgeInv'
  <2>1. NextOp({"delete"}) /\ unchecked' = unchecked
    BY <1>6 DEF StageDelete
  <2>2. kind \notin Checked
    BY <1>1, <2>1 DEF Checked
  <2>3. Whole(before) => Whole(After)'
    BY <1>6, EdgeDelete
  <2>4. QED
    BY <1>2, <2>1, <2>2, <2>3
<1>7. QED
  BY <1>3, <1>4, <1>5, <1>6 DEF Stage

LEMMA EdgeAccept ==
  ASSUME TypeOK, LoopInv, UndoInv, pc = "validate", Whole(before), Own,
         ~ \E e \in written : Offends(e)
  PROVE  Whole(store)
<1>1. Staged /\ store = (before \ removes) \cup adds
  BY DEF UndoInv, LoopInv
<1>2. ASSUME NEW f, Typed(before, f)
      PROVE  Typed(store, f)
  <2>1. CASE TypeQuad(f) \in removes
    <3>1. f \in written
      BY <2>1, <1>1 DEF Staged, Touching, TypeQuad, IsEdge
    <3>2. QED
      BY <2>1, <3>1, <1>1 DEF Staged, Typed, TypeQuad
  <2>2. CASE TypeQuad(f) \notin removes
    BY <2>2, <1>1, <1>2 DEF Typed, TypeQuad
  <2>3. QED
    BY <2>1, <2>2
<1>3. ASSUME NEW q \in store, IsEdge(q)
      PROVE  Typed(store, q[3])
  <2>1. CASE q[1] \in written
    <3>1. q \in Quads
      BY DEF TypeOK
    <3>2. q[3] \in Ids /\ q = Edge(q[1], q[3])
      BY <3>1, <1>3 DEF Quads, IsEdge, Edge
    <3>3. QED
      BY <2>1, <3>2 DEF Offends
  <2>2. CASE q[1] \notin written
    <3>1. q \in before
      BY <2>2, <1>1 DEF Own
    <3>2. QED
      BY <3>1, <1>2, <1>3 DEF Whole
  <2>3. QED
    BY <2>1, <2>2
<1>4. ASSUME NEW e \in Ids, NEW c \in Contents, <<e, "content_hash", c>> \in store
      PROVE  Typed(store, e)
  <2>1. CASE <<e, "content_hash", c>> \in adds
    BY <2>1, <1>1 DEF Own, Typed, TypeQuad
  <2>2. CASE <<e, "content_hash", c>> \notin adds
    BY <2>2, <1>1, <1>2, <1>4 DEF Whole, Sound
  <2>3. QED
    BY <2>1, <2>2
<1>5. QED
  BY <1>3, <1>4 DEF Whole, Sound

\* An undo that knows every edge of its batch leaves the store as it was.
LEMMA EdgeUndone ==
  ASSUME LoopInv, UndoInv, pc = "rejected", Sound(before),
         \A q \in base \ before : q[1] \in written
  PROVE  store = before
<1>1. Compensates /\ store = (base \ removes) \cup adds
  BY DEF UndoInv, LoopInv
<1>2. before \subseteq store /\ \A q \in store \ before : q[1] \notin written
  BY UndoneByCompensation DEF RejectedIsUndone
<1>3. store \ before \subseteq base
  BY <1>1 DEF Compensates, Touching
<1>4. QED
  BY <1>2, <1>3

LEMMA EdgeEnd ==
  ASSUME TypeOK, LoopInv, UndoInv, LandInv, EdgeInv, Raise \/ UndoRaises \/ End \/ Crash
  PROVE  EdgeInv'
<1>1. Forget /\ pc' = "idle" /\ store' = store /\ unchecked' = unchecked
  BY DEF Raise, UndoRaises, End, Crash
<1>2. SUFFICES ASSUME faults' = 0, ~unchecked
               PROVE  Whole(store)
  BY <1>1 DEF EdgeInv
<1>3. CASE Raise
  BY <1>2, <1>3 DEF Raise, LandInv, EdgeInv
<1>4. CASE UndoRaises
  <2>1. pc = "validate" /\ faults = 0 /\ \E e \in written : ~Typed(store, e)
    BY <1>2, <1>4 DEF UndoRaises
  <2>2. Sound(before)
    BY <2>1, <1>2 DEF EdgeInv, Whole
  <2>3. QED
    BY <2>1, <2>2, WrittenAreTyped
<1>5. CASE End
  <2>1. pc \in {"done", "rejected", "failed"} /\ faults = 0
    BY <1>2, <1>5 DEF End
  <2>2. CASE pc = "rejected"
    <3>1. Whole(before) /\ \A q \in base \ before : q[1] \in written
      BY <2>1, <2>2, <1>2 DEF EdgeInv, UndoInv
    <3>2. store = before
      BY <2>2, <3>1, EdgeUndone DEF Whole
    <3>3. QED
      BY <3>1, <3>2
  <2>3. QED
    BY <2>1, <2>2, <1>2 DEF EdgeInv
<1>6. CASE Crash
  BY <1>2, <1>6, AuthoringAssumption DEF Crash, Fault, TypeOK
<1>7. QED
  BY <1>3, <1>4, <1>5, <1>6

LEMMA EdgeApply ==
  ASSUME TypeOK, LoopInv, UndoInv, LandInv, EdgeInv, Apply
  PROVE  EdgeInv'
<1>1. CASE StoreFails
  <2>1. faults' # 0
    BY <1>1, AuthoringAssumption DEF StoreFails, Fault, TypeOK
  <2>2. QED
    BY <2>1, <1>1 DEF EdgeInv
<1>2. ASSUME NEW q \in todo, RemoveOne(q) \/ AddOne(q) \/ RestoreOne(q)
      PROVE  EdgeInv'
  <2>1. /\ pc \in {"removing", "adding", "restoring"}
        /\ UNCHANGED <<pc, kind, adds, removes, written, undoing, base, before, unchecked,
                       faults>>
    BY <1>2 DEF RemoveOne, AddOne, RestoreOne, Loop
  <2>2. Own' = Own /\ After' = After /\ Whole(before)' = Whole(before)
    BY <2>1 DEF Own, After, Whole, Sound, Typed
  <2>3. Whole(After)' = Whole(After)
    BY <2>2 DEF Whole, Sound, Typed
  <2>4. QED
    BY <2>1, <2>2, <2>3 DEF EdgeInv
<1>3. CASE Commit \/ StartAdding \/ Committed \/ Restored
  <2>1. /\ <<pc, pc'>> \in {<<"staging", "removing">>, <<"removing", "adding">>,
                            <<"adding", "rejected">>, <<"adding", "validate">>,
                            <<"adding", "done">>, <<"restoring", "failed">>}
        /\ pc' = "done" => ~undoing /\ kind \notin Checked
        /\ pc' = "rejected" => undoing
        /\ pc = "staging" => base' = store
        /\ pc # "staging" => base' = base
        /\ UNCHANGED <<store, kind, adds, removes, written, undoing, before, unchecked, faults>>
    BY <1>3 DEF Commit, StartAdding, Committed, Restored, Goes, Checked
  <2>2. Own' = Own /\ After' = After /\ Whole(before)' = Whole(before)
          /\ Whole(store)' = Whole(store)
    BY <2>1 DEF Own, After, Whole, Sound, Typed
  <2>3. Whole(After)' = Whole(After)
    BY <2>2 DEF Whole, Sound, Typed
  <2>4. pc' = "done" => store = After
    <3>1. ASSUME pc' = "done"
          PROVE  Committed
      BY <3>1, <1>3 DEF Commit, StartAdding, Restored, Goes
    <3>2. ASSUME pc' = "done"
          PROVE  todo = {} /\ pc = "adding" /\ base = before
      BY <3>1, <3>2, <2>1 DEF Committed, Goes, LandInv
    <3>3. QED
      BY <3>2 DEF LoopInv, After
  <2>5. pc = "staging" => ~undoing
    BY DEF LandInv
  <2>6. QED
    BY <2>1, <2>2, <2>3, <2>4, <2>5 DEF EdgeInv
<1>4. QED
  BY <1>1, <1>2, <1>3 DEF Apply

LEMMA EdgeNext == TypeOK /\ LoopInv /\ UndoInv /\ LandInv /\ EdgeInv /\ [Next]_vars => EdgeInv'
<1> SUFFICES ASSUME TypeOK, LoopInv, UndoInv, LandInv, EdgeInv, [Next]_vars PROVE EdgeInv'
  OBVIOUS
<1>1. CASE UNCHANGED vars
  <2>1. UNCHANGED <<pc, store, kind, adds, removes, written, undoing, base, before, unchecked,
                    faults>>
    BY <1>1 DEF vars, local
  <2>2. QED
    BY <2>1 DEF EdgeInv, Own, Whole, Sound, Typed, After
<1>2. ASSUME NEW k \in Kinds, Begin(k)
      PROVE  EdgeInv'
  <2>1. /\ pc = "idle" /\ pc' = "staging" /\ before' = store /\ store' = store
        /\ adds' = {} /\ removes' = {} /\ UNCHANGED <<unchecked, faults>>
    BY <1>2 DEF Begin, TypeOK
  <2>2. After' = store /\ Own'
    BY <2>1 DEF After, Own
  <2>3. faults = 0 /\ ~unchecked => Whole(store)
    BY <2>1 DEF EdgeInv
  <2>4. QED
    BY <2>1, <2>2, <2>3 DEF EdgeInv
<1>3. CASE Accept
  <2>1. /\ pc = "validate" /\ pc' = "done"
        /\ ~ \E e \in written : Offends(e)
        /\ UNCHANGED <<store, kind, adds, removes, written, undoing, base, before, unchecked,
                       faults>>
    BY <1>3 DEF Accept, local
  <2>2. ASSUME faults = 0, ~unchecked
        PROVE  Whole(before) /\ Whole(store)
    <3>1. Whole(before) /\ Own
      BY <2>1, <2>2 DEF EdgeInv, UndoInv
    <3>2. QED
      BY <2>1, <3>1, EdgeAccept
  <2>3. Whole(before)' = Whole(before) /\ Whole(store)' = Whole(store)
    BY <2>1 DEF Whole, Sound, Typed
  <2>4. QED
    BY <2>1, <2>2, <2>3 DEF EdgeInv
<1>4. CASE Reject
  <2>1. /\ pc = "validate" /\ pc' = "removing" /\ undoing' = TRUE /\ base' = store
        /\ UNCHANGED <<written, before, unchecked, faults>>
    BY <1>4 DEF Reject
  <2>2. store = (before \ removes) \cup adds
    BY <2>1 DEF UndoInv, LoopInv
  <2>3. faults = 0 /\ ~unchecked => Whole(before) /\ Own
    BY <2>1 DEF EdgeInv, UndoInv
  <2>4. faults = 0 /\ ~unchecked => \A q \in store \ before : q[1] \in written
    BY <2>2, <2>3 DEF Own
  <2>5. QED
    BY <2>1, <2>3, <2>4 DEF EdgeInv
<1>5. QED
  BY <1>1, <1>2, <1>3, <1>4, EdgeStage, EdgeApply, EdgeEnd DEF Next

LEMMA EdgeInit == Init => EdgeInv
BY DEF Init, EdgeInv, Whole, Sound

\* Validated writes, updates and cascading deletes keep the target of every edge.
THEOREM TargetsStay == Spec => []EdgesHaveTargets
<1>1. EdgeInv => EdgesHaveTargets
  BY DEF EdgeInv, EdgesHaveTargets, Whole
<1>2. QED
  BY <1>1, TypeInit, TypeNext, LoopInit, LoopNext, UndoInit, UndoNext, LandInit, LandNext,
     EdgeInit, EdgeNext, PTL DEF Spec
=============================================================================
