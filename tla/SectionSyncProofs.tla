-------------------------- MODULE SectionSyncProofs --------------------------
(***************************************************************************)
(* Proofs about SectionSync for any headings, texts, entities, documents,   *)
(* narratives and lengths of a batch.                                      *)
(***************************************************************************)
EXTENDS SectionSync, SequenceTheorems, FiniteSetTheorems, TLAPS

-----------------------------------------------------------------------------
(* Least and greatest numbers *)

(* A set of numbers has a least one: of the initial segments of its members  *)
(* one is minimal, because inclusion is well-founded on finite sets.         *)
LEMMA HasLeast ==
  ASSUME NEW T \in SUBSET Nat, T # {}
  PROVE  \E x \in T : \A y \in T : x <= y
<1> DEFINE F == {0..t : t \in T}
<1>1. F # {}
  OBVIOUS
<1>2. F \subseteq FiniteSubsetsOf(Nat)
  <2>1. ASSUME NEW t \in T PROVE 0..t \in FiniteSubsetsOf(Nat)
    <3>1. t \in Int /\ 0 \in Int /\ 0..t \subseteq Nat
      OBVIOUS
    <3>2. IsFiniteSet(0..t)
      BY <3>1, FS_Interval
    <3> QED
      BY <3>1, <3>2 DEF FiniteSubsetsOf
  <2> QED
    BY <2>1
<1>3. PICK I \in F : \A J \in F : <<J, I>> \notin StrictSubsetOrdering(Nat)
  <2> HIDE DEF F
  <2> QED
    BY <1>1, <1>2, WFMin, FS_StrictSubsetOrderingWellFounded
<1>4. PICK x \in T : I = 0..x
  OBVIOUS
<1>5. ASSUME NEW y \in T, y < x PROVE FALSE
  <2>1. 0..y \subseteq 0..x /\ x \in 0..x /\ x \notin 0..y
    BY <1>5
  <2>2. 0..y \in F
    OBVIOUS
  <2>3. 0..y \in SUBSET Nat /\ 0..x \in SUBSET Nat
    OBVIOUS
  <2>4. <<0..y, 0..x>> \in StrictSubsetOrdering(Nat)
    BY <2>1, <2>3 DEF StrictSubsetOrdering
  <2> QED
    BY <1>3, <1>4, <2>2, <2>4
<1> QED
  BY <1>4, <1>5

LEMMA MinIs ==
  ASSUME NEW T \in SUBSET Nat, T # {}
  PROVE  Min(T) \in T /\ \A y \in T : Min(T) <= y
BY HasLeast DEF Min

(* A finite set of numbers has a greatest one: of its subsets that have none *)
(* one would be minimal, and would get one from a member less.              *)
LEMMA MaxIs ==
  ASSUME NEW T \in SUBSET Nat, T # {}, IsFiniteSet(T)
  PROVE  Max(T) \in T /\ \A y \in T : y <= Max(T)
<1> DEFINE Greatest(U) == \E x \in U : \A y \in U : y <= x
           F == {U \in SUBSET T : U # {} /\ ~Greatest(U)}
<1>1. F = {}
  <2> SUFFICES ASSUME F # {} PROVE FALSE
    OBVIOUS
  <2>1. F \subseteq FiniteSubsetsOf(T)
    <3>1. ASSUME NEW U \in F PROVE U \in SUBSET T /\ IsFiniteSet(U)
      BY FS_Subset
    <3> QED
      BY <3>1 DEF FiniteSubsetsOf
  <2>2. PICK U \in F : \A V \in F : <<V, U>> \notin StrictSubsetOrdering(T)
    <3> HIDE DEF F
    <3> QED
      BY <2>1, WFMin, FS_StrictSubsetOrderingWellFounded
  <2>3. PICK u \in U : TRUE
    BY <2>2
  <2> DEFINE V == U \ {u}
  <2>4. <<V, U>> \in StrictSubsetOrdering(T)
    BY <2>2, <2>3 DEF StrictSubsetOrdering
  <2>5. V = {} \/ Greatest(V)
    BY <2>2, <2>4
  <2>6. CASE V = {}
    <3>1. \A y \in U : y = u
      BY <2>6
    <3>2. u \in Nat
      BY <2>2
    <3> QED
      BY <2>2, <3>1, <3>2
  <2>7. CASE Greatest(V)
    <3>1. PICK x \in V : \A y \in V : y <= x
      BY <2>7
    <3>2. u \in Nat /\ x \in Nat /\ \A y \in U : y \in Nat
      BY <2>2
    <3>3. CASE x <= u
      <4>1. \A y \in U : y <= u
        BY <3>1, <3>2, <3>3
      <4> QED
        BY <2>2, <4>1
    <3>4. CASE u <= x
      <4>1. \A y \in U : y <= x
        BY <3>1, <3>2, <3>4
      <4> QED
        BY <2>2, <4>1
    <3> QED
      BY <3>2, <3>3, <3>4
  <2> QED
    BY <2>5, <2>6, <2>7
<1>2. Greatest(T)
  BY <1>1
<1>3. \E x \in T : \A y \in T : x >= y
  BY <1>2
<1>4. Max(T) \in T /\ \A y \in T : Max(T) >= y
  BY <1>3 DEF Max
<1> QED
  BY <1>4

-----------------------------------------------------------------------------
(* Bodies *)

USE SectionAssumption

\* A body that begins with the heading a
Headed(level, a, body) == body \in Body /\ body # <<>> /\ body[1] = Heading(level, a)

LEMMA HeadingIs ==
  ASSUME NEW body \in Body, NEW i \in HeadingsOf(body)
  PROVE  /\ Len(body) \in Nat /\ DOMAIN body = 1..Len(body)
         /\ i \in 1..Len(body) /\ body[i] \in Lines
         /\ body[i].level \in 2..Deepest /\ body[i].name \in Anchors
         /\ body[i] = Heading(body[i].level, body[i].name)
<1>1. /\ Len(body) \in Nat /\ DOMAIN body = 1..Len(body)
      /\ i \in 1..Len(body) /\ body[i].level > 0
  BY DEF Body, HeadingsOf
<1>2. body[i] \in Lines
  BY <1>1, ElementOfSeq DEF Body
<1>3. body[i] \in [level : 2..Deepest, name : Anchors]
  BY <1>1, <1>2 DEF Lines
<1> QED
  BY <1>1, <1>2, <1>3 DEF Heading

LEMMA SpanEndIs ==
  ASSUME NEW body \in Body, NEW i \in HeadingsOf(body)
  PROVE  /\ SpanEnd(body, i) \in i..Len(body)
         /\ \A k \in HeadingsOf(body) :
              i < k /\ k <= SpanEnd(body, i) => body[k].level > body[i].level
         /\ SpanEnd(body, i) < Len(body) =>
              /\ SpanEnd(body, i) + 1 \in HeadingsOf(body)
              /\ body[SpanEnd(body, i) + 1].level <= body[i].level
<1> DEFINE K == {k \in HeadingsOf(body) : k > i /\ body[k].level <= body[i].level}
           T == {j - 1 : j \in K} \cup {Len(body)}
<1>1. /\ Len(body) \in Nat /\ i \in 1..Len(body)
      /\ \A k \in HeadingsOf(body) : k \in 1..Len(body) /\ body[k].level \in Nat
      /\ body[i].level \in Nat
  BY HeadingIs DEF Deepest
<1>2. \A k \in K : k \in HeadingsOf(body) /\ k > i /\ body[k].level <= body[i].level
  OBVIOUS
<1>3. ASSUME NEW x \in T PROVE x \in i..Len(body)
  <2>1. \A k \in K : k - 1 \in i..Len(body)
    BY <1>1, <1>2
  <2> QED
    BY <1>1, <2>1
<1>4. Min(T) \in T /\ \A y \in T : Min(T) <= y
  <2>1. T \subseteq Nat /\ T # {}
    BY <1>1, <1>3
  <2> HIDE DEF T
  <2> QED
    BY <2>1, MinIs
<1>5. SpanEnd(body, i) = Min(T)
  BY DEF SpanEnd
<1> DEFINE m == Min(T)
<1>6. m \in i..Len(body)
  BY <1>3, <1>4
<1>7. ASSUME NEW k \in HeadingsOf(body), i < k, k <= m
      PROVE  body[k].level > body[i].level
  <2>1. k \notin K
    <3>1. ASSUME k \in K PROVE FALSE
      <4>1. m <= k - 1
        BY <1>4, <3>1
      <4> HIDE DEF m
      <4> QED
        BY <1>1, <1>6, <1>7, <4>1
    <3> QED
      BY <3>1
  <2> QED
    BY <1>1, <1>7, <2>1
<1>8. ASSUME m < Len(body)
      PROVE  m + 1 \in HeadingsOf(body) /\ body[m + 1].level <= body[i].level
  <2>1. PICK k \in K : m = k - 1
    <3>1. m \in T
      BY <1>4
    <3> HIDE DEF m
    <3>2. m # Len(body)
      BY <1>1, <1>6, <1>8
    <3> QED
      BY <3>1, <3>2
  <2>2. k = m + 1
    <3> HIDE DEF m
    <3> QED
      BY <1>1, <2>1
  <2> QED
    BY <1>2, <2>2
<1> HIDE DEF m
<1> QED
  BY <1>5, <1>6, <1>7, <1>8 DEF m

LEMMA SliceIs ==
  ASSUME NEW body \in Body, NEW i \in HeadingsOf(body)
  PROVE  /\ Headed(body[i].level, body[i].name, Slice(body, i))
         /\ Len(Slice(body, i)) = SpanEnd(body, i) - i + 1
         /\ \A k \in 1..SpanEnd(body, i) - i + 1 : Slice(body, i)[k] = body[i + k - 1]
<1> DEFINE e == SpanEnd(body, i)
           s == Slice(body, i)
<1>1. /\ Len(body) \in Nat /\ i \in 1..Len(body)
      /\ body[i] = Heading(body[i].level, body[i].name)
  BY HeadingIs
<1>2. e \in i..Len(body)
  BY SpanEndIs
<1>3. \A k \in i..e : body[k] \in Lines
  <2>1. \A k \in 1..Len(body) : body[k] \in Lines
    BY ElementOfSeq DEF Body
  <2> QED
    BY <1>1, <1>2, <2>1
<1> HIDE DEF e
<1>4. /\ SubSeq(body, i, e) \in Seq(Lines)
      /\ Len(SubSeq(body, i, e)) = e - i + 1
      /\ \A k \in 1..e - i + 1 : SubSeq(body, i, e)[k] = body[i + k - 1]
  <2>1. i \in Int /\ e \in Int /\ i <= e
    BY <1>1, <1>2
  <2> QED
    BY <1>3, <2>1, SubSeqProperties
<1>5. s = SubSeq(body, i, e)
  BY DEF Slice, e
<1>6. Len(s) = e - i + 1 /\ e - i + 1 >= 1 /\ \A k \in 1..e - i + 1 : s[k] = body[i + k - 1]
  BY <1>1, <1>2, <1>4, <1>5
<1>7. s[1] = body[i] /\ s # <<>>
  <2>1. 1 \in 1..e - i + 1 /\ i + 1 - 1 = i
    BY <1>1, <1>2
  <2> HIDE DEF s
  <2>2. s[1] = body[i]
    BY <1>6, <2>1
  <2>3. s # <<>>
    BY <1>6, EmptySeq
  <2> QED
    BY <2>2, <2>3
<1> HIDE DEF s
<1> QED
  BY <1>1, <1>4, <1>5, <1>6, <1>7 DEF Headed, Body, s, e

LEMMA PlacesAre ==
  ASSUME NEW body \in Body, NEW a
  PROVE  /\ a \in Embedded(body) <=> Places(body, a) # {}
         /\ Places(body, a) # {} =>
              /\ Min(Places(body, a)) \in HeadingsOf(body)
              /\ Min(Places(body, a)) > 1
              /\ body[Min(Places(body, a))].name = a
              /\ \A i \in Places(body, a) : Min(Places(body, a)) <= i
         /\ Embedded(body) \subseteq Anchors
<1>1. a \in Embedded(body) <=> Places(body, a) # {}
  BY DEF Embedded, Places
<1>2. Places(body, a) \subseteq Nat
  BY HeadingIs DEF Places
<1>3. Places(body, a) # {} =>
        /\ Min(Places(body, a)) \in Places(body, a)
        /\ \A i \in Places(body, a) : Min(Places(body, a)) <= i
  BY <1>2, MinIs
<1>4. Embedded(body) \subseteq Anchors
  BY HeadingIs DEF Embedded
<1> QED
  BY <1>1, <1>3, <1>4 DEF Places

LEMMA FirstSliceIs ==
  ASSUME NEW body \in Body, NEW a \in Embedded(body)
  PROVE  LET p == Min(Places(body, a))
         IN  /\ a \in Anchors /\ p \in HeadingsOf(body) /\ p > 1 /\ body[p].name = a
             /\ body[p].level \in 2..Deepest
             /\ Headed(body[p].level, a, FirstSlice(body, a))
BY PlacesAre, SliceIs, HeadingIs DEF FirstSlice

LEMMA ReplacedIs ==
  ASSUME NEW body \in Body, NEW i \in HeadingsOf(body), i > 1, NEW new \in Body
  PROVE  /\ Replaced(body, i, new) \in Body /\ Replaced(body, i, new) # <<>>
         /\ Replaced(body, i, new)[1] = body[1]
<1> DEFINE e == SpanEnd(body, i)
           head == SubSeq(body, 1, i - 1)
           rest == SubSeq(body, e + 1, Len(body))
<1>1. Len(body) \in Nat /\ i \in 1..Len(body)
  BY HeadingIs
<1>2. e \in i..Len(body)
  BY SpanEndIs
<1>3. \A k \in 1..Len(body) : body[k] \in Lines
  BY ElementOfSeq DEF Body
<1> HIDE DEF e
<1>4. /\ head \in Seq(Lines) /\ Len(head) = i - 1 /\ head[1] = body[1]
  <2>1. \A k \in 1..i - 1 : body[k] \in Lines
    BY <1>1, <1>3
  <2>2. 1 \in Int /\ i - 1 \in Int /\ 1 <= i - 1 /\ i - 1 - 1 + 1 = i - 1 /\ 1 + 1 - 1 = 1
    BY <1>1
  <2>3. /\ SubSeq(body, 1, i - 1) \in Seq(Lines)
        /\ Len(SubSeq(body, 1, i - 1)) = IF 1 <= i - 1 THEN i - 1 - 1 + 1 ELSE 0
        /\ \A k \in 1..i - 1 - 1 + 1 : SubSeq(body, 1, i - 1)[k] = body[1 + k - 1]
    BY <2>1, <2>2, SubSeqProperties
  <2>4. 1 \in 1..i - 1 - 1 + 1
    BY <2>2
  <2>5. SubSeq(body, 1, i - 1)[1] = body[1]
    BY <2>2, <2>3, <2>4
  <2> QED
    BY <2>2, <2>3, <2>5
<1>5. rest \in Seq(Lines)
  <2>1. \A k \in (e + 1)..Len(body) : body[k] \in Lines
    BY <1>1, <1>2, <1>3
  <2>2. e + 1 \in Int /\ Len(body) \in Int
    BY <1>1, <1>2
  <2> QED
    BY <2>1, <2>2, SubSeqProperties
<1> HIDE DEF head, rest
<1>6. /\ head \o new \in Seq(Lines) /\ Len(head \o new) >= 1 /\ (head \o new)[1] = body[1]
  <2>1. new \in Seq(Lines) /\ Len(new) \in Nat
    BY DEF Body
  <2>2. /\ head \o new \in Seq(Lines) /\ Len(head \o new) = Len(head) + Len(new)
        /\ \A k \in 1..Len(head) + Len(new) :
             (head \o new)[k] = IF k <= Len(head) THEN head[k] ELSE new[k - Len(head)]
    <3>1. head \in Seq(Lines)
      BY <1>4
    <3> QED
      BY <2>1, <3>1, ConcatProperties
  <2>3. 1 \in 1..Len(head) + Len(new) /\ 1 <= Len(head)
    BY <1>1, <1>4, <2>1
  <2> QED
    BY <1>4, <2>1, <2>2, <2>3
<1> DEFINE first == head \o new
<1>7. Replaced(body, i, new) = first \o rest
  BY DEF Replaced, head, rest, e
<1> HIDE DEF first
<1>8. first \in Seq(Lines) /\ Len(first) >= 1 /\ first[1] = body[1] /\ Len(first) \in Nat
  BY <1>6 DEF first
<1>9. /\ first \o rest \in Seq(Lines) /\ Len(first \o rest) = Len(first) + Len(rest)
      /\ \A k \in 1..Len(first) + Len(rest) :
           (first \o rest)[k] = IF k <= Len(first) THEN first[k] ELSE rest[k - Len(first)]
  BY <1>5, <1>8, ConcatProperties
<1>10. Len(rest) \in Nat
  BY <1>5
<1>11. 1 \in 1..Len(first) + Len(rest) /\ Len(first) + Len(rest) >= 1
  BY <1>8, <1>10
<1>12. (first \o rest)[1] = body[1] /\ first \o rest # <<>>
  <2>1. (first \o rest)[1] = first[1]
    BY <1>8, <1>9, <1>11
  <2>2. Len(first \o rest) >= 1
    BY <1>9, <1>11
  <2> QED
    BY <1>8, <2>1, <2>2, EmptySeq
<1> QED
  BY <1>7, <1>9, <1>12 DEF Body

-----------------------------------------------------------------------------
(* Types *)

Nodes == [Anchors -> [level : 0..Deepest, pos : Nat, body : Body]]

NodesOK(secs) ==
  /\ secs \in Nodes
  /\ \A a \in Stored(secs) : secs[a].body[1].name = a

EntitiesOK(ents) == ents \in [Entities -> [home : Anchors \cup {"none"}, text : Body]]

\* What is planned for a heading begins with it.
PlansOK(c) ==
  /\ c.planned \in [Anchors -> [level : 0..Deepest, body : Body]]
  /\ c.tileOf \in [Anchors -> Anchors \cup {NoTile}]
  /\ c.deletes \subseteq Anchors \ PlannedIn(c)
  /\ \A a \in PlannedIn(c) : /\ c.planned[a].level \in 2..Deepest
                             /\ c.planned[a].body # <<>>
                             /\ c.planned[a].body[1].name = a

\* The undo leads back to the graph that the command began with.
UndoInv ==
  IF pc = "committed"
  THEN /\ before = [sections |-> before.sections, entities |-> before.entities]
       /\ before.sections = [a \in Anchors |-> IF a \in DOMAIN outcome.sections
                                               THEN outcome.sections[a] ELSE sections[a]]
       /\ before.entities = [e \in Entities |-> IF e \in DOMAIN outcome.entities
                                                THEN outcome.entities[e] ELSE entities[e]]
  ELSE before = [sections |-> sections, entities |-> entities]

Inv ==
  /\ TypeOK /\ PlansOK(cascade)
  /\ NodesOK(before.sections) /\ EntitiesOK(before.entities)
  /\ UndoInv

LEMMA NoCascadeOK == PlansOK(NoCascade) /\ PlannedIn(NoCascade) = {}
<1>1. <<>> \in Body
  BY EmptySeq DEF Body
<1> QED
  BY <1>1 DEF PlansOK, NoCascade, NoPlan, PlannedIn, Deepest

LEMMA NarrativeIs ==
  ASSUME NEW narrative \in InitialTexts \cup Narratives
  PROVE  /\ narrative \in Body /\ narrative # <<>> /\ 1 \in HeadingsOf(narrative)
         /\ narrative[1].name \in Anchors /\ narrative[1].level \in 2..Deepest
<1>1. narrative \in Body /\ narrative # <<>> /\ narrative[1].level > 0
  OBVIOUS
<1>2. 1 \in HeadingsOf(narrative)
  <2>1. Len(narrative) \in Nat \ {0} /\ DOMAIN narrative = 1..Len(narrative)
    BY <1>1, EmptySeq DEF Body
  <2> QED
    BY <1>1, <2>1 DEF HeadingsOf
<1> QED
  BY <1>1, <1>2, HeadingIs

LEMMA NextPositionIs ==
  ASSUME NEW secs \in Nodes
  PROVE  /\ NextPosition(secs) \in Nat
         /\ \A a \in Stored(secs) : secs[a].pos < NextPosition(secs)
<1> DEFINE T == {secs[a].pos : a \in Stored(secs)}
           f == [a \in Stored(secs) |-> secs[a].pos]
<1>1. CASE Stored(secs) = {}
  BY <1>1 DEF NextPosition
<1>2. CASE Stored(secs) # {}
  <2>1. T \in SUBSET Nat /\ T # {}
    <3>1. \A a \in Stored(secs) : secs[a].pos \in Nat
      BY DEF Nodes, Stored
    <3> QED
      BY <1>2, <3>1
  <2>2. IsFiniteSet(T)
    <3>1. f \in Surjection(Stored(secs), T)
      BY DEF Surjection
    <3>2. IsFiniteSet(Stored(secs))
      BY FS_Subset DEF Stored
    <3> HIDE DEF f, T
    <3> QED
      BY <3>1, <3>2, FS_Surjection
  <2>3. \A a \in Stored(secs) : secs[a].pos \in T
    OBVIOUS
  <2>4. NextPosition(secs) = Max(T) + 1
    BY <1>2 DEF NextPosition
  <2> HIDE DEF T
  <2>5. Max(T) \in Nat /\ \A y \in T : y \in Nat /\ y <= Max(T)
    BY <2>1, <2>2, MaxIs
  <2>6. \A y \in T : y < Max(T) + 1
    BY <2>5
  <2> QED
    BY <2>3, <2>4, <2>5, <2>6
<1> QED
  BY <1>1, <1>2

(* What the planned tiles define: at the first of the headings in a tile.    *)
LEMMA DefinitionsAre ==
  ASSUME PlansOK(cascade), NEW e
  PROVE  /\ \A d \in Definitions(e) :
              \E t \in Cut : \E i \in HeadingsOf(cascade.planned[t].body) :
                /\ DefinedBy[cascade.planned[t].body[i].name] = e
                /\ d = [home |-> cascade.planned[t].body[i].name,
                        text |-> Slice(cascade.planned[t].body, i)]
         /\ Definitions(e) = {} =>
              \A t \in Cut : \A i \in HeadingsOf(cascade.planned[t].body) :
                DefinedBy[cascade.planned[t].body[i].name] # e
<1> DEFINE B(t) == cascade.planned[t].body
           at(t) == {i \in HeadingsOf(B(t)) : DefinedBy[B(t)[i].name] = e}
           D(t) == IF at(t) = {} THEN {}
                   ELSE {[home |-> B(t)[Min(at(t))].name, text |-> Slice(B(t), Min(at(t)))]}
<1>1. Definitions(e) = UNION {D(t) : t \in Cut}
  BY DEF Definitions
<1>2. ASSUME NEW t \in Cut, at(t) # {}
      PROVE  Min(at(t)) \in at(t)
  <2>1. B(t) \in Body
    BY DEF Cut, PlannedIn, PlansOK
  <2>2. at(t) \subseteq Nat
    BY <2>1, HeadingIs
  <2> HIDE DEF at
  <2> QED
    BY <1>2, <2>2, MinIs
<1>3. ASSUME NEW t \in Cut, NEW d \in D(t)
      PROVE  \E i \in HeadingsOf(B(t)) : /\ DefinedBy[B(t)[i].name] = e
                                         /\ d = [home |-> B(t)[i].name, text |-> Slice(B(t), i)]
  <2>1. at(t) # {} /\ d = [home |-> B(t)[Min(at(t))].name, text |-> Slice(B(t), Min(at(t)))]
    BY <1>3
  <2>2. Min(at(t)) \in at(t)
    BY <1>2, <2>1
  <2> QED
    BY <2>1, <2>2
<1>4. ASSUME NEW t \in Cut, D(t) = {} PROVE at(t) = {}
  BY <1>4
<1> HIDE DEF D
<1> QED
  BY <1>1, <1>3, <1>4

(* What a write comes to begins with the heading of its tile.               *)
LEMMA RevisionIs ==
  ASSUME TypeOK, PlansOK(cascade), NEW narrative \in Narratives,
         NEW r \in Revisions(narrative)
  PROVE  /\ r.tile \in Anchors /\ r.body \in Body /\ r.body # <<>>
         /\ r.body[1].name = r.tile
<1> DEFINE a == narrative[1].name
           level == LevelOf(cascade, a)
           enclosing == {t \in EnclosingTiles(cascade, a) : Places(TileBody(cascade, t), a) # {}}
<1>1. narrative \in Body /\ narrative # <<>> /\ a \in Anchors
  BY NarrativeIs
<1>2. CASE r = [tile |-> a, body |-> narrative]
  BY <1>1, <1>2
<1>3. ASSUME NEW t \in enclosing,
             r = [tile |-> t, body |-> Replaced(TileBody(cascade, t), Min(Places(TileBody(cascade, t), a)),
                                                narrative)]
      PROVE  r.tile \in Anchors /\ r.body \in Body /\ r.body # <<>> /\ r.body[1].name = r.tile
  <2> DEFINE old == TileBody(cascade, t)
  <2>1. t \in Anchors
    BY <1>1 DEF EnclosingTiles, Tiles, Stored, PlansOK
  <2>2. old \in Body
    BY <2>1 DEF TileBody, PlansOK, TypeOK
  <2>3. Places(old, a) # {}
    OBVIOUS
  <2>4. Min(Places(old, a)) \in HeadingsOf(old) /\ Min(Places(old, a)) > 1
    BY <2>2, <2>3, PlacesAre
  <2>5. old[1].name = t
    <3>1. CASE t \in PlannedIn(cascade)
      BY <3>1 DEF TileBody, PlansOK
    <3>2. CASE t \notin PlannedIn(cascade)
      <4>1. old = sections[t].body
        BY <3>2 DEF TileBody
      <4>2. sections[t] # NoSection
        <5>1. SUFFICES ASSUME sections[t] = NoSection PROVE FALSE
          OBVIOUS
        <5>2. HeadingsOf(<<>>) = {}
          BY DEF HeadingsOf
        <5> QED
          BY <2>4, <4>1, <5>1, <5>2 DEF NoSection
      <4> QED
        BY <2>1, <4>1, <4>2 DEF Stored, TypeOK
    <3> QED
      BY <3>1, <3>2
  <2> HIDE DEF old
  <2>6. /\ Replaced(old, Min(Places(old, a)), narrative) \in Body
        /\ Replaced(old, Min(Places(old, a)), narrative) # <<>>
        /\ Replaced(old, Min(Places(old, a)), narrative)[1] = old[1]
    BY <1>1, <2>2, <2>4, ReplacedIs
  <2> QED
    BY <1>3, <2>1, <2>5, <2>6 DEF old
<1>4. \/ r = [tile |-> a, body |-> narrative]
      \/ \E t \in enclosing :
           r = [tile |-> t, body |-> Replaced(TileBody(cascade, t), Min(Places(TileBody(cascade, t), a)),
                                              narrative)]
  BY DEF Revisions
<1> QED
  BY <1>2, <1>3, <1>4

(* Cutting a tile plans sections, each under its own heading.               *)
LEMMA PlanTileOK ==
  ASSUME PlansOK(cascade), NEW tile \in Anchors, NEW body \in Body,
         body # <<>>, body[1].name = tile
  PROVE  PlansOK(PlanTile(cascade, tile, body))
<1> DEFINE c == PlanTile(cascade, tile, body)
           kids == {a \in Embedded(body) \ {tile} :
                      sections[a] = NoSection \/ Within(sections, a, tile)}
           members == {a \in Stored(sections) \ {tile} : Within(sections, a, tile)}
           removed == (members \cup {a \in Anchors \ {tile} : cascade.tileOf[a] = tile}) \ kids
           level == IF tile \in PlannedIn(cascade) THEN cascade.planned[tile].level ELSE 2
           Plan(a) ==
             CASE a = tile -> [level |-> level, body |-> body]
               [] a \in kids ->
                    [level |-> body[Min(Places(body, a))].level, body |-> FirstSlice(body, a)]
               [] a \in removed -> NoPlan
               [] OTHER -> cascade.planned[a]
<1>1. /\ c.planned = [a \in Anchors |-> Plan(a)]
      /\ c.deletes = (cascade.deletes \cup removed) \ (kids \cup {tile})
      /\ c.tileOf = [a \in Anchors |-> IF a \in kids THEN tile
                                       ELSE IF a \in removed THEN NoTile
                                       ELSE cascade.tileOf[a]]
  BY DEF PlanTile
<1>2. level \in 2..Deepest /\ level \in 0..Deepest
  BY DEF PlansOK, Deepest
<1>3. kids \subseteq Anchors \ {tile} /\ removed \subseteq Anchors \ {tile}
  BY PlacesAre DEF Stored
<1>4. ASSUME NEW a \in kids
      PROVE  LET plan == [level |-> body[Min(Places(body, a))].level, body |-> FirstSlice(body, a)]
             IN  /\ plan.level \in 2..Deepest /\ plan.level \in 0..Deepest
                 /\ plan.body \in Body /\ plan.body # <<>> /\ plan.body[1].name = a
  <2>1. a \in Embedded(body)
    OBVIOUS
  <2> DEFINE p == Min(Places(body, a))
             slice == FirstSlice(body, a)
  <2>2. body[p].level \in 2..Deepest /\ Headed(body[p].level, a, slice)
    BY <2>1, FirstSliceIs
  <2>3. body[p].level \in 0..Deepest
    BY <2>2 DEF Deepest
  <2>4. slice \in Body /\ slice # <<>> /\ slice[1].name = a
    BY <2>2 DEF Headed, Heading
  <2> QED
    BY <2>2, <2>3, <2>4
<1>5. NoPlan \in [level : 0..Deepest, body : Body]
  BY EmptySeq DEF NoPlan, Body, Deepest
<1>x. kids \cap removed = {}
  OBVIOUS
<1> HIDE DEF kids, removed, level, c
<1>6. ASSUME NEW a \in Anchors
      PROVE  /\ Plan(a) \in [level : 0..Deepest, body : Body]
             /\ Plan(a) # NoPlan => /\ Plan(a).level \in 2..Deepest
                                    /\ Plan(a).body # <<>>
                                    /\ Plan(a).body[1].name = a
             /\ Plan(a) # NoPlan => \/ a = tile \/ a \in kids
                                    \/ a \notin removed /\ a \in PlannedIn(cascade)
  <2>1. CASE a = tile
    <3>1. Plan(a) = [level |-> level, body |-> body]
      BY <1>3, <2>1
    <3> HIDE DEF Plan
    <3>2. Plan(a) \in [level : 0..Deepest, body : Body]
      BY <1>2, <3>1
    <3>3. Plan(a).level = level /\ Plan(a).body = body
      BY <3>1
    <3> QED
      BY <1>2, <2>1, <3>2, <3>3
  <2>2. CASE a # tile /\ a \in kids
    <3>1. Plan(a) = [level |-> body[Min(Places(body, a))].level, body |-> FirstSlice(body, a)]
      BY <1>x, <2>2
    <3> DEFINE plan == [level |-> body[Min(Places(body, a))].level, body |-> FirstSlice(body, a)]
    <3> HIDE DEF Plan
    <3>2. /\ plan.level \in 2..Deepest /\ plan.level \in 0..Deepest
          /\ plan.body \in Body /\ plan.body # <<>> /\ plan.body[1].name = a
      BY <1>4, <2>2
    <3>3. plan = [level |-> plan.level, body |-> plan.body]
      OBVIOUS
    <3> HIDE DEF plan
    <3>4. plan \in [level : 0..Deepest, body : Body]
      BY <3>2, <3>3
    <3> QED
      BY <2>2, <3>1, <3>2, <3>4 DEF plan
  <2>3. CASE a # tile /\ a \notin kids /\ a \in removed
    BY <1>5, <2>3
  <2>4. CASE a # tile /\ a \notin kids /\ a \notin removed
    BY <2>4 DEF PlansOK, PlannedIn
  <2> QED
    BY <2>1, <2>2, <2>3, <2>4
<1> HIDE DEF Plan
<1>7. c.planned \in [Anchors -> [level : 0..Deepest, body : Body]]
  BY <1>1, <1>6
<1>8. c.tileOf \in [Anchors -> Anchors \cup {NoTile}]
  BY <1>1 DEF PlansOK
<1>9. c.deletes \subseteq Anchors \ PlannedIn(c)
  BY <1>1, <1>3, <1>6 DEF PlansOK, PlannedIn
<1>10. \A a \in PlannedIn(c) : /\ c.planned[a].level \in 2..Deepest
                               /\ c.planned[a].body # <<>>
                               /\ c.planned[a].body[1].name = a
  BY <1>1, <1>6 DEF PlannedIn
<1> QED
  BY <1>7, <1>8, <1>9, <1>10 DEF PlansOK, c

(* The graph that a flush leaves                                            *)
Flushed ==
  [a \in Anchors |-> IF a \in PlannedIn(cascade) THEN Upserted(a)
                     ELSE IF a \in cascade.deletes THEN NoSection
                     ELSE sections[a]]

LEMMA FlushedOK ==
  ASSUME NodesOK(sections), PlansOK(cascade)
  PROVE  NodesOK(Flushed)
<1>0. NextPosition(sections) \in Nat
  BY NextPositionIs DEF NodesOK
<1>1. NoSection \in [level : 0..Deepest, pos : Nat, body : Body]
  BY EmptySeq DEF NoSection, Body, Deepest
<1>2. ASSUME NEW a \in PlannedIn(cascade)
      PROVE  /\ Upserted(a) \in [level : 0..Deepest, pos : Nat, body : Body]
             /\ Upserted(a).body = cascade.planned[a].body
  <2>1. /\ a \in Anchors /\ cascade.planned[a] \in [level : 0..Deepest, body : Body]
        /\ sections[a] \in [level : 0..Deepest, pos : Nat, body : Body]
    BY DEF PlannedIn, PlansOK, NodesOK, Nodes
  <2>2. CASE sections[a].body = cascade.planned[a].body
    BY <2>1, <2>2 DEF Upserted
  <2>3. CASE sections[a].body # cascade.planned[a].body
    <3>1. Upserted(a) = [level |-> cascade.planned[a].level,
                         pos   |-> IF sections[a] = NoSection THEN NextPosition(sections)
                                   ELSE sections[a].pos,
                         body  |-> cascade.planned[a].body]
      BY <2>3 DEF Upserted
    <3> QED
      BY <1>0, <2>1, <3>1
  <2> QED
    BY <2>2, <2>3
<1>3. Flushed \in Nodes
  BY <1>1, <1>2 DEF Flushed, NodesOK, Nodes
<1>4. ASSUME NEW a \in Stored(Flushed) PROVE Flushed[a].body[1].name = a
  <2>1. a \in Anchors /\ Flushed[a] # NoSection
    BY DEF Stored
  <2>2. CASE a \in PlannedIn(cascade)
    BY <1>2, <2>1, <2>2 DEF Flushed, PlansOK
  <2>3. CASE a \notin PlannedIn(cascade)
    <3>1. Flushed[a] = sections[a]
      BY <2>1, <2>3 DEF Flushed
    <3> QED
      BY <2>1, <3>1 DEF NodesOK, Stored
  <2> QED
    BY <2>2, <2>3
<1> QED
  BY <1>3, <1>4 DEF NodesOK

LEMMA DefinitionsOK ==
  ASSUME PlansOK(cascade), NEW e, NEW d \in Definitions(e)
  PROVE  d \in [home : Anchors \cup {"none"}, text : Body]
<1>1. PICK t \in Cut : \E i \in HeadingsOf(cascade.planned[t].body) :
        d = [home |-> cascade.planned[t].body[i].name,
             text |-> Slice(cascade.planned[t].body, i)]
  BY DefinitionsAre
<1> DEFINE body == cascade.planned[t].body
<1>2. body \in Body
  BY DEF Cut, PlannedIn, PlansOK
<1>3. PICK i \in HeadingsOf(body) : d = [home |-> body[i].name, text |-> Slice(body, i)]
  BY <1>1
<1> HIDE DEF body
<1>4. body[i].name \in Anchors /\ Slice(body, i) \in Body
  BY <1>2, HeadingIs, SliceIs DEF Headed
<1> QED
  BY <1>3, <1>4

\* The headings that give a node its level, position and body
Firsts(text) ==
  {i \in HeadingsOf(text) : \A j \in HeadingsOf(text) : j < i => text[j].name # text[i].name}

LEMMA ExtractedIs ==
  ASSUME NEW text, NEW a \in Anchors
  PROVE  IF \E i \in Firsts(text) : text[i].name = a
         THEN \E i \in Firsts(text) :
                /\ text[i].name = a
                /\ Extracted(text)[a] = [level |-> text[i].level,
                                         pos   |-> Cardinality({k \in Firsts(text) : k < i}),
                                         body  |-> Slice(text, i)]
         ELSE Extracted(text)[a] = NoSection
<1> DEFINE At(b) == CHOOSE i \in Firsts(text) : text[i].name = b
<1>1. Extracted(text) =
        [b \in Anchors |->
           IF \E i \in Firsts(text) : text[i].name = b
           THEN [level |-> text[At(b)].level,
                 pos   |-> Cardinality({i \in Firsts(text) : i < At(b)}),
                 body  |-> Slice(text, At(b))]
           ELSE NoSection]
  BY DEF Extracted, Firsts
<1>2. (\E i \in Firsts(text) : text[i].name = a) => At(a) \in Firsts(text) /\ text[At(a)].name = a
  OBVIOUS
<1> QED
  BY <1>1, <1>2

LEMMA ExtractedOK ==
  ASSUME NEW text \in InitialTexts
  PROVE  NodesOK(Extracted(text))
<1>0. text \in Body
  BY NarrativeIs
<1>1. ASSUME NEW i \in Firsts(text)
      PROVE  Cardinality({k \in Firsts(text) : k < i}) \in Nat
  <2>1. Firsts(text) \subseteq 1..Len(text) /\ Len(text) \in Nat
    BY <1>0 DEF Firsts, HeadingsOf, Body
  <2>2. IsFiniteSet(1..Len(text))
    BY <2>1, FS_Interval, 1 \in Int
  <2> QED
    BY <2>1, <2>2, FS_Subset, FS_CardinalityType
<1>2. ASSUME NEW a \in Anchors
      PROVE  /\ Extracted(text)[a] \in [level : 0..Deepest, pos : Nat, body : Body]
             /\ Extracted(text)[a] # NoSection => Extracted(text)[a].body[1].name = a
  <2>1. CASE \E i \in Firsts(text) : text[i].name = a
    <3>1. PICK i \in Firsts(text) :
            /\ text[i].name = a
            /\ Extracted(text)[a] = [level |-> text[i].level,
                                     pos   |-> Cardinality({k \in Firsts(text) : k < i}),
                                     body  |-> Slice(text, i)]
      BY <2>1, ExtractedIs
    <3>2. i \in HeadingsOf(text)
      BY DEF Firsts
    <3>3. text[i].level \in 0..Deepest /\ Slice(text, i) \in Body /\ Slice(text, i)[1].name = a
      <4>1. text[i].level \in 2..Deepest /\ Headed(text[i].level, a, Slice(text, i))
        BY <1>0, <3>1, <3>2, HeadingIs, SliceIs
      <4>2. text[i].level \in 0..Deepest
        BY <4>1 DEF Deepest
      <4> QED
        BY <4>1, <4>2 DEF Headed, Heading
    <3> QED
      BY <1>1, <3>1, <3>3
  <2>2. CASE ~\E i \in Firsts(text) : text[i].name = a
    <3>1. Extracted(text)[a] = NoSection
      BY <2>2, ExtractedIs
    <3> QED
      BY <3>1, EmptySeq DEF NoSection, Body, Deepest
  <2> QED
    BY <2>1, <2>2
<1>3. Extracted(text) = [a \in Anchors |-> Extracted(text)[a]]
  BY DEF Extracted
<1> QED
  BY <1>2, <1>3 DEF NodesOK, Nodes, Stored

LEMMA InitEntitiesOK ==
  ASSUME NEW text \in InitialTexts
  PROVE  EntitiesOK([e \in Entities |->
            IF \E i \in HeadingsOf(text) : DefinedBy[text[i].name] = e
            THEN LET i == Min({j \in HeadingsOf(text) : DefinedBy[text[j].name] = e})
                 IN  [home |-> text[i].name, text |-> Slice(text, i)]
            ELSE Nowhere])
<1> DEFINE at(e) == {j \in HeadingsOf(text) : DefinedBy[text[j].name] = e}
           ent(e) == [home |-> text[Min(at(e))].name, text |-> Slice(text, Min(at(e)))]
<1>0. text \in Body
  BY NarrativeIs
<1>1. ASSUME NEW e \in Entities, at(e) # {}
      PROVE  ent(e) \in [home : Anchors \cup {"none"}, text : Body]
  <2>1. Min(at(e)) \in HeadingsOf(text)
    <3>1. at(e) \subseteq Nat /\ at(e) \subseteq HeadingsOf(text)
      BY <1>0, HeadingIs
    <3> HIDE DEF at
    <3> QED
      BY <1>1, <3>1, MinIs
  <2> DEFINE i == Min(at(e))
  <2> HIDE DEF i
  <2>2. i \in HeadingsOf(text)
    BY <2>1 DEF i
  <2>3. text[i].name \in Anchors /\ Slice(text, i) \in Body
    BY <1>0, <2>2, HeadingIs, SliceIs DEF Headed
  <2> QED
    BY <2>3 DEF i
<1>2. Nowhere \in [home : Anchors \cup {"none"}, text : Body]
  BY EmptySeq DEF Nowhere, Body
<1>3. \A e \in Entities : (\E i \in HeadingsOf(text) : DefinedBy[text[i].name] = e) <=> at(e) # {}
  OBVIOUS
<1> DEFINE ents == [e \in Entities |-> IF at(e) # {} THEN ent(e) ELSE Nowhere]
<1>4. EntitiesOK(ents)
  <2> HIDE DEF at, ent
  <2> QED
    BY <1>1, <1>2 DEF EntitiesOK
<1> QED
  BY <1>3, <1>4

LEMMA InitInv == Init => Inv
<1> SUFFICES ASSUME Init PROVE Inv
  OBVIOUS
<1>1. PICK text \in InitialTexts :
        /\ sections = Extracted(text)
        /\ entities =
             [e \in Entities |->
                IF \E i \in HeadingsOf(text) : DefinedBy[text[i].name] = e
                THEN LET i == Min({j \in HeadingsOf(text) : DefinedBy[text[j].name] = e})
                     IN  [home |-> text[i].name, text |-> Slice(text, i)]
                ELSE Nowhere]
  BY DEF Init
<1>2. NodesOK(sections) /\ EntitiesOK(entities)
  BY <1>1, ExtractedOK, InitEntitiesOK
<1>3. /\ pc = "idle" /\ batch = <<>> /\ cascade = NoCascade
      /\ before = [sections |-> sections, entities |-> entities]
  BY DEF Init
<1>4. batch \in Seq(Narratives) /\ Len(batch) <= MaxOps
  BY <1>3, EmptySeq
<1> QED
  BY <1>2, <1>3, <1>4, NoCascadeOK DEF Inv, TypeOK, NodesOK, Nodes, EntitiesOK, PlansOK, UndoInv

\* The command ends in a graph of the right types.
LEMMA EndsInv ==
  ASSUME Ends, NodesOK(sections'), EntitiesOK(entities')
  PROVE  Inv'
<1>1. /\ pc' = "idle" /\ batch' = <<>> /\ cascade' = NoCascade
      /\ before' = [sections |-> sections', entities |-> entities']
  BY DEF Ends
<1>2. <<>> \in Seq(Narratives) /\ Len(<<>>) <= MaxOps
  BY EmptySeq
<1>3. PlansOK(cascade)'
  BY <1>1, NoCascadeOK DEF PlansOK, PlannedIn
<1>4. NodesOK(sections)' /\ NodesOK(before.sections)'
  BY <1>1 DEF NodesOK, Stored
<1>5. EntitiesOK(entities)' /\ EntitiesOK(before.entities)'
  BY <1>1 DEF EntitiesOK
<1>6. UndoInv'
  BY <1>1 DEF UndoInv
<1>7. TypeOK'
  BY <1>1, <1>2, <1>3, <1>4, <1>5 DEF TypeOK, NodesOK, Nodes, EntitiesOK, PlansOK
<1> QED
  BY <1>3, <1>4, <1>5, <1>6, <1>7 DEF Inv

LEMMA InvIs ==
  ASSUME Inv
  PROVE  NodesOK(sections) /\ EntitiesOK(entities) /\ PlansOK(cascade)
BY DEF Inv, TypeOK, NodesOK, Nodes, EntitiesOK

(* A flush, with what it leaves of the entities.                            *)
LEMMA FlushIs ==
  ASSUME Inv, Flush
  PROVE  /\ sections' = Flushed /\ NodesOK(Flushed) /\ EntitiesOK(entities')
         /\ DOMAIN entities' = Entities
         /\ \A e \in Entities :
              IF e \in Fresh THEN entities'[e] \in Definitions(e)
              ELSE entities'[e] = IF e \in Stale THEN Nowhere ELSE entities[e]
<1>1. sections' = Flushed /\ NodesOK(Flushed)
  BY InvIs, FlushedOK DEF Flush, Flushed
<1>2. PICK fresh \in [Fresh -> UNION {Definitions(e) : e \in Fresh}] :
        /\ \A e \in Fresh : fresh[e] \in Definitions(e)
        /\ entities' = [e \in Entities |-> IF e \in Fresh THEN fresh[e]
                                           ELSE IF e \in Stale THEN Nowhere
                                           ELSE entities[e]]
  BY DEF Flush
<1>3. \A e \in Entities :
        IF e \in Fresh THEN entities'[e] \in Definitions(e)
        ELSE entities'[e] = IF e \in Stale THEN Nowhere ELSE entities[e]
  BY <1>2
<1>4. Nowhere \in [home : Anchors \cup {"none"}, text : Body]
  BY EmptySeq DEF Nowhere, Body
<1>5. \A e \in Entities : entities'[e] \in [home : Anchors \cup {"none"}, text : Body]
  BY <1>3, <1>4, InvIs, DefinitionsOK DEF EntitiesOK
<1>6. EntitiesOK(entities') /\ DOMAIN entities' = Entities
  BY <1>2, <1>5 DEF EntitiesOK
<1> QED
  BY <1>1, <1>3, <1>6

(* What the undo puts back over the new graph is the old one.               *)
LEMMA UndoRestores ==
  ASSUME Inv, Flush, outcome' = Prior
  PROVE  /\ sections = [a \in Anchors |-> IF a \in DOMAIN outcome'.sections
                                          THEN outcome'.sections[a] ELSE sections'[a]]
         /\ entities = [e \in Entities |-> IF e \in DOMAIN outcome'.entities
                                           THEN outcome'.entities[e] ELSE entities'[e]]
<1>1. sections \in Nodes /\ EntitiesOK(entities)
  BY InvIs DEF NodesOK
<1>2. /\ sections = [a \in Anchors |-> sections[a]]
      /\ entities = [e \in Entities |-> entities[e]]
  BY <1>1 DEF Nodes, EntitiesOK
<1>3. /\ DOMAIN outcome'.sections = PlannedIn(cascade) \cup cascade.deletes
      /\ \A a \in DOMAIN outcome'.sections : outcome'.sections[a] = sections[a]
      /\ DOMAIN outcome'.entities = Fresh \cup Stale
      /\ \A e \in DOMAIN outcome'.entities : outcome'.entities[e] = entities[e]
  BY DEF Prior
<1>4. \A a \in Anchors \ DOMAIN outcome'.sections : sections'[a] = sections[a]
  BY <1>3, FlushIs DEF Flushed
<1>5. \A e \in Entities \ DOMAIN outcome'.entities : entities'[e] = entities[e]
  BY <1>3, FlushIs
<1> QED
  BY <1>2, <1>3, <1>4, <1>5

LEMMA StepInv ==
  ASSUME Inv, [Next]_vars
  PROVE  Inv'
<1>0. NodesOK(sections) /\ EntitiesOK(entities) /\ PlansOK(cascade)
  BY InvIs
<1>1. CASE Begin
  BY <1>1 DEF Begin, Inv, TypeOK, PlansOK, PlannedIn, Stored, NodesOK, EntitiesOK, UndoInv
<1>2. ASSUME NEW narrative \in Narratives, Write(narrative) PROVE Inv'
  <2>1. PICK r \in Revisions(narrative) : cascade' = PlanTile(cascade, r.tile, r.body)
    BY <1>2 DEF Write
  <2>2. PlansOK(cascade')
    BY <1>0, <2>1, RevisionIs, PlanTileOK DEF Inv
  <2>3. /\ pc = "writing" /\ batch' = Append(batch, narrative) /\ Len(batch) < MaxOps
        /\ UNCHANGED <<sections, entities, pc, outcome, before>>
    BY <1>2 DEF Write
  <2>4. batch' \in Seq(Narratives) /\ Len(batch') <= MaxOps
    <3>1. batch \in Seq(Narratives) /\ Len(batch) \in Nat
      BY DEF Inv, TypeOK
    <3>2. Append(batch, narrative) \in Seq(Narratives) /\ Len(Append(batch, narrative)) = Len(batch) + 1
      BY <3>1, AppendProperties
    <3> QED
      BY <2>3, <3>1, <3>2
  <2>5. PlansOK(cascade)'
    BY <2>2 DEF PlansOK, PlannedIn
  <2>6. UndoInv' /\ NodesOK(before.sections)' /\ EntitiesOK(before.entities)'
    BY <2>3 DEF Inv, UndoInv, NodesOK, EntitiesOK, Stored
  <2>7. TypeOK'
    BY <2>3, <2>4, <2>5 DEF Inv, TypeOK, PlansOK, Stored
  <2> QED
    BY <2>5, <2>6, <2>7 DEF Inv
<1>3. ASSUME NEW narrative \in Narratives, Refuse(narrative) PROVE Inv'
  <2>1. Ends /\ sections' = sections /\ entities' = entities
    BY <1>3 DEF Refuse
  <2> QED
    BY <1>0, <2>1, EndsInv
<1>4. CASE Flush
  <2>1. NodesOK(sections') /\ EntitiesOK(entities')
    BY <1>4, FlushIs
  <2>2. CASE Ends
    BY <2>1, <2>2, EndsInv
  <2>3. CASE pc' = "committed" /\ outcome' = Prior /\ UNCHANGED <<batch, cascade, before>>
    <3>1. pc = "writing"
      BY <1>4 DEF Flush
    <3>2. before = [sections |-> sections, entities |-> entities]
      BY <3>1 DEF Inv, UndoInv
    <3>3. UndoInv'
      BY <1>4, <2>3, <3>2, UndoRestores DEF UndoInv
    <3>4. NodesOK(before.sections)' /\ EntitiesOK(before.entities)'
      BY <2>3 DEF Inv, NodesOK, EntitiesOK, Stored
    <3>5. PlansOK(cascade)'
      BY <1>0, <2>3 DEF PlansOK, PlannedIn
    <3>6. TypeOK'
      <4>1. NodesOK(sections)' /\ EntitiesOK(entities)'
        BY <2>1 DEF NodesOK, EntitiesOK, Stored
      <4>2. batch' \in Seq(Narratives) /\ Len(batch') <= MaxOps
        BY <2>3 DEF Inv, TypeOK
      <4> QED
        BY <2>3, <3>5, <4>1, <4>2 DEF TypeOK, NodesOK, Nodes, EntitiesOK, PlansOK
    <3> QED
      BY <3>3, <3>4, <3>5, <3>6 DEF Inv
  <2> QED
    BY <1>4, <2>2, <2>3 DEF Flush
<1>5. CASE Accept
  <2>1. Ends /\ sections' = sections /\ entities' = entities
    BY <1>5 DEF Accept
  <2> QED
    BY <1>0, <2>1, EndsInv
<1>6. CASE Reject
  <2>1. Ends /\ sections' = before.sections /\ entities' = before.entities
    BY <1>6 DEF Reject, Inv, UndoInv
  <2> QED
    BY <2>1, EndsInv DEF Inv
<1>7. CASE UNCHANGED vars
  BY <1>7 DEF vars, Inv, TypeOK, PlansOK, PlannedIn, Stored, NodesOK, EntitiesOK, UndoInv
<1> QED
  BY <1>1, <1>2, <1>3, <1>4, <1>5, <1>6, <1>7 DEF Next

THEOREM Invariance == Spec => []Inv
<1> QED
  BY InitInv, StepInv, PTL DEF Spec

(* Every variable has its type, every node's body begins with its heading,   *)
(* and nothing is both planned and deleted.                                 *)
THEOREM TypesHold == Spec => []TypeOK
<1>1. Inv => TypeOK
  BY DEF Inv
<1> QED
  BY <1>1, Invariance, PTL

(* A batch that the validation rejects leaves the graph that the command     *)
(* began with: what was there, deleted sections and entities included.      *)
THEOREM RejectionUndoesTheBatch == Spec => RejectedIsUndone
<1>1. Inv /\ [Next]_vars =>
        [pc = "committed" =>
           \/ UNCHANGED <<sections, entities>>
           \/ before = [sections |-> sections', entities |-> entities']]_vars
  <2> SUFFICES ASSUME Inv, Next, pc = "committed"
               PROVE  \/ UNCHANGED <<sections, entities>>
                      \/ before = [sections |-> sections', entities |-> entities']
    OBVIOUS
  <2>1. CASE Reject
    <3>1. /\ before = [sections |-> before.sections, entities |-> before.entities]
          /\ sections' = before.sections /\ entities' = before.entities
      BY <2>1 DEF Reject, Inv, UndoInv
    <3> QED
      BY <3>1
  <2>2. CASE Accept
    BY <2>2 DEF Accept
  <2> QED
    BY <2>1, <2>2 DEF Next, Begin, Write, Refuse, Flush
<1> QED
  BY <1>1, Invariance, PTL DEF Spec, RejectedIsUndone

-----------------------------------------------------------------------------
(* Tidy documents *)

\* The body of a tile: distinct headings, the tile's own the only one of level 2
TidyBody(t, body) ==
  /\ Headed(2, t, body)
  /\ IsTidyText(body)
  /\ \A i \in HeadingsOf(body) : i > 1 => body[i].level > 2

NodesInv(secs) ==
  /\ NodesOK(secs)
  /\ \A a \in Stored(secs) :
       secs[a].level \in 2..Deepest /\ Headed(secs[a].level, a, secs[a].body)

TilesInv(secs) ==
  /\ \A t \in Tiles(secs) : TidyBody(t, secs[t].body)
  /\ \A t, u \in Tiles(secs) :
       t # u => /\ secs[t].pos # secs[u].pos
                /\ DefinedIn(secs[t].body) \cap DefinedIn(secs[u].body) = {}

\* The node of a heading lies within the tile that embeds it.
HomesInv(secs) ==
  \A t \in Tiles(secs) : \A a \in Embedded(secs[t].body) :
    a \in Stored(secs) /\ Within(secs, a, t)

CoverInv(secs) ==
  \A a \in Stored(secs) \ Tiles(secs) :
    \E t \in Tiles(secs) :
      a \in Embedded(secs[t].body) /\ secs[a].body = FirstSlice(secs[t].body, a)

DocInv(secs) == NodesInv(secs) /\ TilesInv(secs) /\ HomesInv(secs) /\ CoverInv(secs)

DefsIn(e, body) ==
  {[home |-> body[i].name, text |-> Slice(body, i)] :
     i \in {j \in HeadingsOf(body) : DefinedBy[body[j].name] = e}}

EntInv(secs, ents) ==
  \A e \in Entities :
    LET defs == UNION {DefsIn(e, secs[t].body) : t \in Tiles(secs)}
    IN  IF defs = {} THEN ents[e] = Nowhere ELSE ents[e] \in defs

LEMMA NodeIs ==
  ASSUME NEW secs, NodesInv(secs), NEW a \in Anchors
  PROVE  /\ secs[a].pos \in Nat /\ secs[a] \in [level : 0..Deepest, pos : Nat, body : Body]
         /\ a \in Tiles(secs) <=> secs[a].level = 2
         /\ a \notin Stored(secs) => secs[a] = NoSection /\ secs[a].pos = 0 /\ secs[a].level = 0
         /\ Tiles(secs) \subseteq Stored(secs) /\ Stored(secs) \subseteq Anchors
<1>1. secs[a] \in [level : 0..Deepest, pos : Nat, body : Body]
  BY DEF NodesInv, NodesOK, Nodes
<1>2. secs[a].level = 2 => secs[a] # NoSection
  BY DEF NoSection
<1> QED
  BY <1>1, <1>2 DEF Tiles, Stored, NoSection

\* A section lies within one tile, and a tile in none.
LEMMA OneTile ==
  ASSUME NEW secs, NodesInv(secs), TilesInv(secs), NEW a \in Anchors, NEW t \in Tiles(secs),
         Within(secs, a, t)
  PROVE  /\ a \in Stored(secs) \ Tiles(secs)
         /\ \A u \in Tiles(secs) : Within(secs, a, u) => u = t
<1>1. secs[a].pos \in Nat /\ \A u \in Tiles(secs) : u \in Anchors /\ secs[u].pos \in Nat
  BY NodeIs
<1>2. secs[t].pos < secs[a].pos
  BY DEF Within
<1>3. a \in Stored(secs)
  BY <1>1, <1>2, NodeIs
<1>4. a \notin Tiles(secs)
  BY <1>1, <1>2 DEF Within
<1>5. ASSUME NEW u \in Tiles(secs), Within(secs, a, u), u # t PROVE FALSE
  <2>1. secs[u].pos < secs[a].pos /\ secs[u].pos # secs[t].pos
    BY <1>5 DEF Within, TilesInv
  <2>2. /\ secs[t].pos < secs[u].pos => secs[a].pos < secs[u].pos
        /\ secs[u].pos < secs[t].pos => secs[a].pos < secs[t].pos
    BY <1>5 DEF Within
  <2> QED
    BY <1>1, <1>2, <2>1, <2>2
<1> QED
  BY <1>3, <1>4, <1>5

LEMMA TidyBodyIs ==
  ASSUME NEW t, NEW body, TidyBody(t, body)
  PROVE  /\ body \in Body /\ body # <<>> /\ 1 \in HeadingsOf(body)
         /\ body[1].level = 2 /\ body[1].name = t
         /\ t \notin Embedded(body)
         /\ \A a \in Embedded(body) :
              /\ Min(Places(body, a)) \in HeadingsOf(body)
              /\ body[Min(Places(body, a))].level \in 3..Deepest
              /\ Headed(body[Min(Places(body, a))].level, a, FirstSlice(body, a))
         /\ \A i \in HeadingsOf(body) : i = 1 \/ body[i].name \in Embedded(body)
<1>1. body \in Body /\ body # <<>> /\ body[1] = Heading(2, t)
  BY DEF TidyBody, Headed
<1>2. Len(body) \in Nat /\ Len(body) # 0 /\ DOMAIN body = 1..Len(body)
  BY <1>1, EmptySeq DEF Body
<1>3. body[1].level = 2 /\ body[1].name = t /\ 1 \in HeadingsOf(body)
  BY <1>1, <1>2 DEF Heading, HeadingsOf
<1>4. \A i \in HeadingsOf(body) : i \in Nat /\ i >= 1 /\ body[i].level \in Nat
  BY <1>1, HeadingIs DEF Deepest
<1>5. \A i \in HeadingsOf(body) : 1 < i => body[1].name # body[i].name
  BY <1>3 DEF TidyBody, IsTidyText
<1>6. t \notin Embedded(body)
  BY <1>3, <1>4, <1>5 DEF Embedded
<1>7. \A i \in HeadingsOf(body) : i = 1 \/ body[i].name \in Embedded(body)
  BY <1>4 DEF Embedded
<1>8. ASSUME NEW a \in Embedded(body)
      PROVE  /\ Min(Places(body, a)) \in HeadingsOf(body)
             /\ body[Min(Places(body, a))].level \in 3..Deepest
             /\ Headed(body[Min(Places(body, a))].level, a, FirstSlice(body, a))
  <2> DEFINE p == Min(Places(body, a))
  <2>1. /\ p \in HeadingsOf(body) /\ p > 1
        /\ body[p].level \in 2..Deepest
        /\ Headed(body[p].level, a, FirstSlice(body, a))
    BY <1>1, FirstSliceIs
  <2> HIDE DEF p
  <2>2. body[p].level > 2
    BY <2>1 DEF TidyBody
  <2>3. body[p].level \in 3..Deepest
    BY <2>1, <2>2 DEF Deepest
  <2> QED
    BY <2>1, <2>3 DEF p
<1> QED
  BY <1>1, <1>3, <1>6, <1>7, <1>8

(* What the invariant says of the graph is what the properties ask of it.   *)
LEMMA DocCovers ==
  ASSUME DocInv(sections)
  PROVE  TileCover
<1>1. ASSUME NEW a \in Stored(sections) \ Tiles(sections), NEW t \in Tiles(sections),
             a \in Embedded(sections[t].body)
      PROVE  Places(sections[t].body, a) # {}
  <2>1. sections[t].body \in Body
    BY TidyBodyIs DEF DocInv, TilesInv
  <2> QED
    BY <1>1, <2>1, PlacesAre
<1> QED
  BY <1>1 DEF DocInv, CoverInv, TileCover

LEMMA DocWritable ==
  ASSUME DocInv(sections)
  PROVE  EveryHeadingWritable
<1> SUFFICES ASSUME NEW t \in Tiles(sections), NEW a \in Embedded(sections[t].body)
             PROVE  /\ a \in Stored(sections)
                    /\ EnclosingTiles(NoCascade, a) = {t}
                    /\ Within(sections, a, t)
  BY DEF EveryHeadingWritable
<1>1. a \in Stored(sections) /\ Within(sections, a, t) /\ a \in Anchors
  BY DEF DocInv, HomesInv, Stored
<1> DEFINE upTo == {u \in Tiles(sections) : sections[u].pos <= sections[a].pos}
<1>2. EnclosingTiles(NoCascade, a) = {u \in upTo : \A v \in upTo : sections[v].pos <= sections[u].pos}
  <2>1. NoCascade.tileOf[a] = NoTile
    BY <1>1 DEF NoCascade
  <2> QED
    BY <2>1 DEF EnclosingTiles
<1>3. sections[a].pos \in Nat /\ \A u \in Tiles(sections) : sections[u].pos \in Nat
  BY <1>1, NodeIs DEF DocInv
<1>4. sections[t].pos < sections[a].pos /\ t \in upTo
  BY <1>1, <1>3 DEF Within
<1>5. \A u \in upTo : sections[u].pos <= sections[t].pos
  BY <1>1, <1>3 DEF Within
<1>6. ASSUME NEW u \in upTo, \A v \in upTo : sections[v].pos <= sections[u].pos
      PROVE  u = t
  <2>1. sections[u].pos = sections[t].pos
    BY <1>3, <1>4, <1>5, <1>6
  <2> QED
    BY <2>1 DEF DocInv, TilesInv
<1> HIDE DEF upTo
<1> QED
  BY <1>1, <1>2, <1>4, <1>5, <1>6

LEMMA DocDefines ==
  ASSUME EntInv(sections, entities)
  PROVE  EntitiesFollowText
BY DEF EntInv, EntitiesFollowText, DefsIn

-----------------------------------------------------------------------------
(* Tidy plans *)

CutOf(c) == {a \in PlannedIn(c) : c.planned[a].level = 2}

\* The tiles that are cut, and what is planned for the headings in them
CutInv(c) ==
  \A t \in CutOf(c) :
    /\ t \in Tiles(sections) \/ sections[t] = NoSection
    /\ TidyBody(t, c.planned[t].body)
    /\ \A a \in Embedded(c.planned[t].body) :
         /\ c.planned[a] = [level |-> c.planned[t].body[Min(Places(c.planned[t].body, a))].level,
                            body  |-> FirstSlice(c.planned[t].body, a)]
         /\ c.tileOf[a] = t
         /\ sections[a] = NoSection \/ Within(sections, a, t)

\* Every planned heading below level 2 is cut from a tile.
TileOfInv(c) ==
  /\ \A a \in Anchors : c.tileOf[a] # NoTile =>
       c.tileOf[a] \in CutOf(c) /\ a \in Embedded(c.planned[c.tileOf[a]].body)
  /\ \A a \in PlannedIn(c) \ CutOf(c) : c.tileOf[a] # NoTile

\* What a cut tile no longer embeds is deleted, and nothing else.
DeletesInv(c) ==
  /\ \A t \in CutOf(c) : \A a \in Stored(sections) :
       Within(sections, a, t) /\ a \notin Embedded(c.planned[t].body) => a \in c.deletes
  /\ \A a \in c.deletes \cap Stored(sections) : \E t \in CutOf(c) : Within(sections, a, t)

\* New headings are in the last tile, or there is one that is a tile.
NewInv(c) ==
  \A a \in PlannedIn(c) \ Stored(sections) :
    IF a \in CutOf(c) THEN PlannedIn(c) \ Stored(sections) = {a}
    ELSE /\ c.tileOf[a] \in Tiles(sections)
         /\ \A t \in Tiles(sections) : sections[t].pos <= sections[c.tileOf[a]].pos

DistinctInv(c) ==
  \A t, u \in CurrentTiles(c) :
    t # u => DefinedIn(TileBody(c, t)) \cap DefinedIn(TileBody(c, u)) = {}

PlanInv(c) == CutInv(c) /\ TileOfInv(c) /\ DeletesInv(c) /\ NewInv(c) /\ DistinctInv(c)

LEMMA PlannedIs ==
  ASSUME NEW c, PlansOK(c), CutInv(c), TileOfInv(c), NEW a \in Anchors
  PROVE  /\ c.tileOf[a] # NoTile <=> a \in PlannedIn(c) \ CutOf(c)
         /\ c.tileOf[a] # NoTile =>
              /\ c.tileOf[a] \in CutOf(c) /\ a \in Embedded(c.planned[c.tileOf[a]].body)
              /\ c.planned[a].body = FirstSlice(c.planned[c.tileOf[a]].body, a)
              /\ sections[a] = NoSection \/ Within(sections, a, c.tileOf[a])
         /\ \A t \in CutOf(c) : a \in Embedded(c.planned[t].body) =>
              a \in PlannedIn(c) \ CutOf(c) /\ c.tileOf[a] = t
         /\ a \in PlannedIn(c) => Headed(c.planned[a].level, a, c.planned[a].body)
         /\ CutOf(c) \subseteq PlannedIn(c) /\ PlannedIn(c) \subseteq Anchors
<1>1. CutOf(c) \subseteq PlannedIn(c) /\ PlannedIn(c) \subseteq Anchors
  BY DEF CutOf, PlannedIn
<1>2. ASSUME NEW t \in CutOf(c), a \in Embedded(c.planned[t].body)
      PROVE  /\ a \in PlannedIn(c) \ CutOf(c) /\ c.tileOf[a] = t /\ t # NoTile
             /\ c.planned[a].body = FirstSlice(c.planned[t].body, a)
             /\ Headed(c.planned[a].level, a, c.planned[a].body)
             /\ sections[a] = NoSection \/ Within(sections, a, t)
  <2> DEFINE body == c.planned[t].body
             level == body[Min(Places(body, a))].level
  <2>1. /\ c.planned[a] = [level |-> level, body |-> FirstSlice(body, a)]
        /\ c.tileOf[a] = t
        /\ sections[a] = NoSection \/ Within(sections, a, t)
    BY <1>2 DEF CutInv
  <2>2. TidyBody(t, body)
    BY DEF CutInv
  <2>3. level \in 3..Deepest /\ Headed(level, a, FirstSlice(body, a))
    BY <1>2, <2>2, TidyBodyIs
  <2> HIDE DEF level
  <2>4. level > 2
    BY <2>3 DEF Deepest
  <2>5. c.planned[a].level = level /\ c.planned[a].body = FirstSlice(body, a)
    BY <2>1
  <2>6. c.planned[a] # NoPlan /\ c.planned[a].level # 2
    BY <2>4, <2>5 DEF NoPlan
  <2>7. t # NoTile
    BY <1>1
  <2> QED
    BY <2>1, <2>3, <2>5, <2>6, <2>7 DEF CutOf, PlannedIn
<1>3. ASSUME c.tileOf[a] # NoTile
      PROVE  c.tileOf[a] \in CutOf(c) /\ a \in Embedded(c.planned[c.tileOf[a]].body)
  BY <1>3 DEF TileOfInv
<1>4. a \in PlannedIn(c) \ CutOf(c) => c.tileOf[a] # NoTile
  BY DEF TileOfInv
<1>5. ASSUME a \in CutOf(c)
      PROVE  Headed(c.planned[a].level, a, c.planned[a].body)
  BY <1>5 DEF CutInv, TidyBody, CutOf
<1> QED
  BY <1>1, <1>2, <1>3, <1>4, <1>5

\* The tiles of the batch are those of the graph, and the new ones.
LEMMA CurrentTilesAre ==
  ASSUME DocInv(sections), NEW c, PlansOK(c), CutInv(c), TileOfInv(c)
  PROVE  /\ CurrentTiles(c) = Tiles(sections) \cup CutOf(c)
         /\ Tiles(sections) \cap PlannedIn(c) \subseteq CutOf(c)
         /\ CutOf(c) \cap Stored(sections) \subseteq Tiles(sections)
         /\ CurrentTiles(c) \subseteq Anchors
         /\ \A t \in CurrentTiles(c) :
              /\ TidyBody(t, TileBody(c, t))
              /\ t \in CutOf(c) => TileBody(c, t) = c.planned[t].body
              /\ t \notin CutOf(c) => t \in Tiles(sections) /\ TileBody(c, t) = sections[t].body
<1>1. ASSUME NEW t \in Tiles(sections) \cap PlannedIn(c), t \notin CutOf(c) PROVE FALSE
  <2>1. t \in Anchors /\ sections[t] # NoSection
    BY DEF Tiles, Stored
  <2>2. c.tileOf[t] # NoTile
    BY <1>1, <2>1, PlannedIs
  <2> DEFINE u == c.tileOf[t]
  <2>3. u \in CutOf(c) /\ Within(sections, t, u)
    BY <2>1, <2>2, PlannedIs
  <2>4. u \in Tiles(sections)
    BY <2>3 DEF CutInv, Within, Stored
  <2> HIDE DEF u
  <2> QED
    BY <2>1, <2>3, <2>4, OneTile DEF DocInv
<1>2. /\ Tiles(sections) \subseteq Anchors
      /\ CutOf(c) \subseteq PlannedIn(c) /\ PlannedIn(c) \subseteq Anchors
  BY DEF CutOf, PlannedIn, Tiles, Stored
<1>3. CurrentTiles(c) = Tiles(sections) \cup CutOf(c)
  BY <1>1, <1>2 DEF CurrentTiles, CutOf
<1>4. CutOf(c) \cap Stored(sections) \subseteq Tiles(sections)
  BY DEF CutInv, Stored
<1>5. \A t \in CutOf(c) : TileBody(c, t) = c.planned[t].body /\ TidyBody(t, TileBody(c, t))
  BY <1>2 DEF TileBody, CutInv
<1>6. ASSUME NEW t \in Tiles(sections) \ CutOf(c)
      PROVE  TileBody(c, t) = sections[t].body /\ TidyBody(t, TileBody(c, t))
  <2>1. t \notin PlannedIn(c)
    BY <1>1
  <2> QED
    BY <2>1 DEF TileBody, DocInv, TilesInv
<1> QED
  BY <1>1, <1>2, <1>3, <1>4, <1>5, <1>6

\* No heading is embedded in two tiles.
LEMMA OneEmbeds ==
  ASSUME DocInv(sections), NEW c, PlansOK(c), CutInv(c), TileOfInv(c),
         NEW t \in CurrentTiles(c), NEW u \in CurrentTiles(c),
         NEW a \in Embedded(TileBody(c, t)), a \in Embedded(TileBody(c, u))
  PROVE  t = u
<1>1. a \in Anchors
  <2>1. TileBody(c, t) \in Body
    BY CurrentTilesAre, TidyBodyIs
  <2> QED
    BY <2>1, PlacesAre
<1>2. ASSUME NEW v \in CurrentTiles(c) \ CutOf(c), a \in Embedded(TileBody(c, v))
      PROVE  v \in Tiles(sections) /\ a \in Stored(sections) /\ Within(sections, a, v)
  BY <1>2, CurrentTilesAre DEF DocInv, HomesInv
<1>3. ASSUME NEW v \in CutOf(c), a \in Embedded(TileBody(c, v)), a \in Stored(sections)
      PROVE  v \in Tiles(sections) /\ Within(sections, a, v)
  <2>1. v \in CurrentTiles(c) /\ TileBody(c, v) = c.planned[v].body
    BY CurrentTilesAre
  <2>2. Within(sections, a, v)
    BY <1>1, <1>3, <2>1, PlannedIs DEF Stored
  <2>3. v \in Stored(sections)
    BY <2>2 DEF Within
  <2> QED
    BY <2>2, <2>3, CurrentTilesAre
<1>4. CASE t \in CutOf(c) /\ u \in CutOf(c)
  <2>1. a \in Embedded(c.planned[t].body) /\ a \in Embedded(c.planned[u].body)
    BY <1>4, CurrentTilesAre
  <2> QED
    BY <1>1, <1>4, <2>1, PlannedIs
<1>5. CASE a \in Stored(sections)
  <2>1. /\ t \in Tiles(sections) /\ Within(sections, a, t)
        /\ u \in Tiles(sections) /\ Within(sections, a, u)
    BY <1>2, <1>3, <1>5
  <2> QED
    BY <1>1, <2>1, OneTile DEF DocInv
<1> QED
  BY <1>2, <1>4, <1>5

-----------------------------------------------------------------------------
(* The flush of a tidy plan *)

Tidily(c) == DocInv(sections) /\ PlansOK(c) /\ PlanInv(c)

LEMMA FlushedIs ==
  ASSUME Tidily(cascade), NEW a \in Anchors
  PROVE  /\ a \in PlannedIn(cascade) =>
              Flushed[a] = [level |-> cascade.planned[a].level,
                            pos   |-> IF a \in Stored(sections) THEN sections[a].pos
                                      ELSE NextPosition(sections),
                            body  |-> cascade.planned[a].body]
         /\ a \in Stored(sections) /\ a \notin cascade.deletes \ PlannedIn(cascade) =>
              Flushed[a].pos = sections[a].pos
         /\ a \notin PlannedIn(cascade) =>
              Flushed[a] = IF a \in cascade.deletes THEN NoSection ELSE sections[a]
         /\ a \in Stored(Flushed) <=>
              a \in PlannedIn(cascade) \/ a \in Stored(sections) \ cascade.deletes
<1>0. NodesInv(sections) /\ PlansOK(cascade) /\ CutInv(cascade) /\ TileOfInv(cascade)
  BY DEF Tidily, DocInv, PlanInv
<1> DEFINE plan == cascade.planned[a]
<1>1. ASSUME a \in PlannedIn(cascade)
      PROVE  Flushed[a] = [level |-> plan.level,
                           pos   |-> IF a \in Stored(sections) THEN sections[a].pos
                                     ELSE NextPosition(sections),
                           body  |-> plan.body]
  <2>1. Flushed[a] = Upserted(a)
    BY <1>1 DEF Flushed
  <2>2. CASE sections[a].body # plan.body
    BY <2>1, <2>2 DEF Upserted, Stored
  <2>3. CASE sections[a].body = plan.body
    <3>1. Headed(plan.level, a, plan.body)
      BY <1>0, <1>1, PlannedIs
    <3>2. sections[a] # NoSection
      BY <2>3, <3>1 DEF Headed, NoSection
    <3>3. Headed(sections[a].level, a, sections[a].body)
      BY <1>0, <3>2 DEF NodesInv, Stored
    <3>4. sections[a].level = plan.level
      <4>1. Heading(plan.level, a) = Heading(sections[a].level, a)
        BY <2>3, <3>1, <3>3 DEF Headed
      <4> QED
        BY <4>1 DEF Heading
    <3>5. sections[a] = [level |-> sections[a].level, pos |-> sections[a].pos,
                         body |-> sections[a].body]
      BY <1>0, NodeIs
    <3>6. Flushed[a] = sections[a] /\ a \in Stored(sections)
      BY <2>1, <2>3, <3>2 DEF Upserted, Stored
    <3> QED
      BY <2>3, <3>4, <3>5, <3>6
  <2> QED
    BY <2>2, <2>3
<1>2. a \notin PlannedIn(cascade) =>
        Flushed[a] = IF a \in cascade.deletes THEN NoSection ELSE sections[a]
  BY DEF Flushed
<1>3. a \in PlannedIn(cascade) => Flushed[a] # NoSection
  <2>1. a \in PlannedIn(cascade) => plan.level > 0
    BY <1>0 DEF PlansOK, Deepest
  <2> QED
    BY <1>1, <2>1 DEF NoSection
<1>4. a \in Stored(Flushed) <=>
        a \in PlannedIn(cascade) \/ a \in Stored(sections) \ cascade.deletes
  BY <1>2, <1>3 DEF Stored
<1> QED
  BY <1>1, <1>2, <1>4

\* No tile is deleted: its tiles are those of the batch, a new one the last of them.
LEMMA FlushedTilesAre ==
  ASSUME Tidily(cascade)
  PROVE  /\ Tiles(Flushed) = CurrentTiles(cascade)
         /\ Tiles(sections) \cap cascade.deletes = {}
         /\ \A t \in Tiles(Flushed) :
              /\ t \in Anchors /\ Flushed[t].body = TileBody(cascade, t)
              /\ IF t \in Tiles(sections) THEN Flushed[t].pos = sections[t].pos
                 ELSE /\ Flushed[t].pos = NextPosition(sections)
                      /\ t \in CutOf(cascade) \ Stored(sections)
         /\ \A t, u \in Tiles(Flushed) \ Tiles(sections) : t = u
<1>0. /\ NodesInv(sections) /\ TilesInv(sections) /\ DocInv(sections)
      /\ PlansOK(cascade) /\ CutInv(cascade) /\ TileOfInv(cascade)
      /\ DeletesInv(cascade) /\ NewInv(cascade)
  BY DEF Tidily, DocInv, PlanInv
<1>1. ASSUME NEW t \in Tiles(sections), t \in cascade.deletes PROVE FALSE
  <2>1. t \in Stored(sections) /\ t \in Anchors
    BY DEF Tiles, Stored
  <2>2. PICK u \in CutOf(cascade) : Within(sections, t, u)
    BY <1>0, <1>1, <2>1 DEF DeletesInv
  <2>3. u \in Tiles(sections)
    BY <1>0, <2>2 DEF CutInv, Within, Stored
  <2> QED
    BY <1>0, <2>1, <2>2, <2>3, OneTile
<1>2. /\ CurrentTiles(cascade) = Tiles(sections) \cup CutOf(cascade)
      /\ Tiles(sections) \cap PlannedIn(cascade) \subseteq CutOf(cascade)
      /\ CutOf(cascade) \cap Stored(sections) \subseteq Tiles(sections)
      /\ CurrentTiles(cascade) \subseteq Anchors
      /\ CutOf(cascade) \subseteq PlannedIn(cascade)
  BY <1>0, CurrentTilesAre DEF CutOf
<1>3. ASSUME NEW t \in CurrentTiles(cascade)
      PROVE  /\ t \in Tiles(Flushed) /\ Flushed[t].body = TileBody(cascade, t)
             /\ IF t \in Tiles(sections) THEN Flushed[t].pos = sections[t].pos
                ELSE /\ Flushed[t].pos = NextPosition(sections)
                     /\ t \in CutOf(cascade) \ Stored(sections)
  <2>1. t \in Anchors
    BY <1>2
  <2>2. CASE t \in CutOf(cascade)
    <3>1. /\ Flushed[t].level = 2 /\ Flushed[t].body = cascade.planned[t].body
          /\ t \in Stored(Flushed)
          /\ Flushed[t].pos = IF t \in Stored(sections) THEN sections[t].pos
                              ELSE NextPosition(sections)
      <4>1. t \in PlannedIn(cascade) /\ cascade.planned[t].level = 2
        BY <2>2 DEF CutOf
      <4>2. Flushed[t] = [level |-> cascade.planned[t].level,
                          pos   |-> IF t \in Stored(sections) THEN sections[t].pos
                                    ELSE NextPosition(sections),
                          body  |-> cascade.planned[t].body]
        BY <2>1, <4>1, FlushedIs
      <4>3. t \in Stored(Flushed)
        BY <2>1, <4>1, FlushedIs
      <4> QED
        BY <4>1, <4>2, <4>3
    <3>2. TileBody(cascade, t) = cascade.planned[t].body
      BY <1>0, <2>2, CurrentTilesAre
    <3>3. t \in Stored(sections) <=> t \in Tiles(sections)
      BY <1>2, <2>2 DEF Tiles
    <3> QED
      BY <2>2, <3>1, <3>2, <3>3 DEF Tiles
  <2>3. CASE t \notin CutOf(cascade)
    <3>1. t \in Tiles(sections) /\ t \notin PlannedIn(cascade) /\ t \notin cascade.deletes
      BY <1>1, <1>2, <2>3
    <3>2. Flushed[t] = sections[t] /\ t \in Stored(Flushed)
      BY <2>1, <3>1, FlushedIs DEF Tiles
    <3>3. TileBody(cascade, t) = sections[t].body
      BY <3>1 DEF TileBody
    <3> QED
      BY <3>1, <3>2, <3>3 DEF Tiles
  <2> QED
    BY <2>2, <2>3
<1>4. ASSUME NEW t \in Tiles(Flushed) PROVE t \in CurrentTiles(cascade)
  <2>1. t \in Anchors /\ t \in Stored(Flushed) /\ Flushed[t].level = 2
    BY DEF Tiles, Stored
  <2>2. CASE t \in PlannedIn(cascade)
    <3>1. Flushed[t].level = cascade.planned[t].level
      <4>1. Flushed[t] = [level |-> cascade.planned[t].level,
                          pos   |-> IF t \in Stored(sections) THEN sections[t].pos
                                    ELSE NextPosition(sections),
                          body  |-> cascade.planned[t].body]
        BY <2>1, <2>2, FlushedIs
      <4> QED
        BY <4>1
    <3> QED
      BY <1>2, <2>1, <2>2, <3>1 DEF CutOf
  <2>3. CASE t \notin PlannedIn(cascade)
    <3>1. Flushed[t] = sections[t] /\ t \in Stored(sections)
      BY <2>1, <2>3, FlushedIs DEF Stored
    <3> QED
      BY <1>2, <2>1, <3>1 DEF Tiles
  <2> QED
    BY <2>2, <2>3
<1>5. ASSUME NEW t \in Tiles(Flushed) \ Tiles(sections), NEW u \in Tiles(Flushed) \ Tiles(sections)
      PROVE  t = u
  <2>1. t \in CutOf(cascade) \ Stored(sections) /\ u \in CutOf(cascade) \ Stored(sections)
    BY <1>3, <1>4
  <2>2. t \in PlannedIn(cascade) \ Stored(sections) /\ u \in PlannedIn(cascade) \ Stored(sections)
    BY <1>2, <2>1
  <2>3. PlannedIn(cascade) \ Stored(sections) = {t}
    BY <1>0, <2>1, <2>2 DEF NewInv
  <2> QED
    BY <2>2, <2>3
<1> QED
  BY <1>1, <1>2, <1>3, <1>4, <1>5

\* Where the headings of a tile have their nodes: before the flush, or planned.
LEMMA EmbeddedAre ==
  ASSUME Tidily(cascade), NEW t \in CurrentTiles(cascade), NEW a \in Embedded(TileBody(cascade, t))
  PROVE  /\ a \in Anchors /\ a \in Stored(Flushed) \ CutOf(cascade)
         /\ a \in Stored(sections) =>
              /\ t \in Tiles(sections) /\ Within(sections, a, t)
              /\ Flushed[a].pos = sections[a].pos
         /\ a \notin Stored(sections) =>
              /\ t \in Tiles(sections) /\ Flushed[a].pos = NextPosition(sections)
              /\ \A u \in Tiles(sections) : sections[u].pos <= sections[t].pos
              /\ CurrentTiles(cascade) \subseteq Tiles(sections)
<1>0. /\ NodesInv(sections) /\ TilesInv(sections) /\ DocInv(sections)
      /\ PlansOK(cascade) /\ CutInv(cascade) /\ TileOfInv(cascade)
      /\ DeletesInv(cascade) /\ NewInv(cascade)
  BY DEF Tidily, DocInv, PlanInv
<1>1. a \in Anchors
  <2>1. TileBody(cascade, t) \in Body
    BY <1>0, CurrentTilesAre, TidyBodyIs
  <2> QED
    BY <2>1, PlacesAre
<1>2. CASE t \in CutOf(cascade)
  <2>1. a \in Embedded(cascade.planned[t].body)
    BY <1>0, <1>2, CurrentTilesAre
  <2>2. a \in PlannedIn(cascade) \ CutOf(cascade) /\ cascade.tileOf[a] = t
    BY <1>0, <1>1, <1>2, <2>1, PlannedIs
  <2>3. sections[a] = NoSection \/ Within(sections, a, t)
    BY <1>0, <1>2, <2>1 DEF CutInv
  <2>4. a \in Stored(Flushed)
    BY <1>1, <2>2, FlushedIs
  <2>5. ASSUME a \in Stored(sections)
        PROVE  t \in Tiles(sections) /\ Within(sections, a, t) /\ Flushed[a].pos = sections[a].pos
    <3>1. Within(sections, a, t)
      BY <2>3, <2>5 DEF Stored
    <3>2. t \in Tiles(sections)
      BY <1>0, <1>2, <3>1, CurrentTilesAre DEF Within
    <3> QED
      BY <1>1, <2>2, <2>5, <3>1, <3>2, FlushedIs
  <2>6. ASSUME a \notin Stored(sections)
        PROVE  /\ t \in Tiles(sections) /\ Flushed[a].pos = NextPosition(sections)
               /\ \A u \in Tiles(sections) : sections[u].pos <= sections[t].pos
               /\ CurrentTiles(cascade) \subseteq Tiles(sections)
    <3>1. Flushed[a].pos = NextPosition(sections)
      <4>1. Flushed[a] = [level |-> cascade.planned[a].level,
                          pos   |-> IF a \in Stored(sections) THEN sections[a].pos
                                    ELSE NextPosition(sections),
                          body  |-> cascade.planned[a].body]
        BY <1>1, <2>2, FlushedIs
      <4> QED
        BY <2>6, <4>1
    <3>2. a \in PlannedIn(cascade) \ Stored(sections)
      BY <2>2, <2>6
    <3>3. /\ t \in Tiles(sections)
          /\ \A u \in Tiles(sections) : sections[u].pos <= sections[t].pos
      BY <1>0, <2>2, <3>2 DEF NewInv
    <3>4. ASSUME NEW u \in CutOf(cascade), u \notin Stored(sections) PROVE FALSE
      <4>1. u \in PlannedIn(cascade) \ Stored(sections)
        BY <3>4 DEF CutOf
      <4>2. PlannedIn(cascade) \ Stored(sections) = {u}
        BY <1>0, <3>4, <4>1 DEF NewInv
      <4> QED
        BY <2>2, <3>2, <3>4, <4>2
    <3>5. CurrentTiles(cascade) \subseteq Tiles(sections)
      BY <1>0, <3>4, CurrentTilesAre
    <3> QED
      BY <3>1, <3>3, <3>5
  <2> QED
    BY <1>1, <2>2, <2>4, <2>5, <2>6
<1>3. CASE t \notin CutOf(cascade)
  <2>1. t \in Tiles(sections) /\ TileBody(cascade, t) = sections[t].body
    BY <1>0, <1>3, CurrentTilesAre
  <2>2. a \in Stored(sections) /\ Within(sections, a, t)
    BY <1>0, <2>1 DEF DocInv, HomesInv
  <2>3. ASSUME NEW u \in CutOf(cascade), Within(sections, a, u) PROVE FALSE
    <3>1. u \in Tiles(sections)
      BY <1>0, <2>3, CurrentTilesAre DEF Within
    <3>2. u = t
      BY <1>0, <1>1, <2>1, <2>2, <2>3, <3>1, OneTile
    <3> QED
      BY <1>3, <3>2
  <2>4. a \notin cascade.deletes
    BY <1>0, <2>2, <2>3 DEF DeletesInv
  <2>5. a \in Stored(Flushed) /\ Flushed[a].pos = sections[a].pos
    BY <1>1, <2>2, <2>4, FlushedIs
  <2>6. a \notin CutOf(cascade)
    <3>1. a \notin Tiles(sections)
      BY <1>0, <1>1, <2>1, <2>2, OneTile
    <3> QED
      BY <1>0, <2>2, <3>1, CurrentTilesAre
  <2> QED
    BY <1>1, <2>1, <2>2, <2>5, <2>6
<1> QED
  BY <1>2, <1>3

LEMMA FlushedHomes ==
  ASSUME Tidily(cascade)
  PROVE  HomesInv(Flushed)
<1>0. NodesInv(sections)
  BY DEF Tidily, DocInv
<1> DEFINE N == NextPosition(sections)
<1>1. N \in Nat /\ \A a \in Stored(sections) : sections[a].pos \in Nat /\ sections[a].pos < N
  <2>1. sections \in Nodes
    BY <1>0 DEF NodesInv, NodesOK
  <2> QED
    BY <2>1, NextPositionIs DEF Nodes, Stored
<1> HIDE DEF N
<1>2. \A u \in Tiles(sections) : sections[u].pos \in Nat /\ sections[u].pos < N
  BY <1>1 DEF Tiles
<1>3. \A u \in Tiles(Flushed) :
        IF u \in Tiles(sections) THEN Flushed[u].pos = sections[u].pos ELSE Flushed[u].pos = N
  BY FlushedTilesAre DEF N
<1>4. \A u \in Tiles(sections) : Flushed[u].pos = sections[u].pos
  <2>1. Tiles(sections) \subseteq Tiles(Flushed)
    BY FlushedTilesAre, CurrentTilesAre DEF Tidily, PlanInv
  <2> QED
    BY <1>3, <2>1
<1> SUFFICES ASSUME NEW t \in Tiles(Flushed), NEW a \in Embedded(Flushed[t].body)
             PROVE  a \in Stored(Flushed) /\ Within(Flushed, a, t)
  BY DEF HomesInv
<1>5. t \in CurrentTiles(cascade) /\ a \in Embedded(TileBody(cascade, t)) /\ t \in Stored(Flushed)
  BY FlushedTilesAre DEF Tiles
<1>6. a \in Stored(Flushed)
  BY <1>5, EmbeddedAre
<1>7. CASE a \in Stored(sections)
  <2>1. /\ t \in Tiles(sections) /\ Within(sections, a, t)
        /\ Flushed[a].pos = sections[a].pos
    BY <1>5, <1>7, EmbeddedAre
  <2>2. sections[t].pos < sections[a].pos /\ Flushed[t].pos = sections[t].pos
    BY <1>4, <2>1 DEF Within
  <2>3. ASSUME NEW next \in Tiles(Flushed), Flushed[t].pos < Flushed[next].pos
        PROVE  Flushed[a].pos < Flushed[next].pos
    <3>1. CASE next \in Tiles(sections)
      BY <1>3, <2>1, <2>2, <2>3, <3>1 DEF Within
    <3>2. CASE next \notin Tiles(sections)
      <4>1. Flushed[next].pos = N
        BY <1>3, <3>2
      <4> QED
        BY <1>1, <1>7, <2>1, <4>1
    <3> QED
      BY <3>1, <3>2
  <2> QED
    BY <1>5, <1>6, <2>1, <2>2, <2>3 DEF Within
<1>8. CASE a \notin Stored(sections)
  <2>1. /\ t \in Tiles(sections) /\ Flushed[a].pos = N
        /\ \A u \in Tiles(sections) : sections[u].pos <= sections[t].pos
        /\ CurrentTiles(cascade) \subseteq Tiles(sections)
    BY <1>5, <1>8, EmbeddedAre DEF N
  <2>2. Flushed[t].pos = sections[t].pos /\ sections[t].pos < N
    BY <1>2, <1>4, <2>1
  <2>3. ASSUME NEW next \in Tiles(Flushed), Flushed[t].pos < Flushed[next].pos
        PROVE  FALSE
    <3>1. next \in Tiles(sections)
      BY <2>1, FlushedTilesAre
    <3>2. Flushed[next].pos = sections[next].pos /\ sections[next].pos <= sections[t].pos
      BY <1>4, <2>1, <3>1
    <3> QED
      BY <1>2, <2>1, <2>2, <2>3, <3>1, <3>2
  <2> QED
    BY <1>5, <1>6, <2>1, <2>2, <2>3 DEF Within
<1> QED
  BY <1>7, <1>8

LEMMA FlushedDoc ==
  ASSUME Tidily(cascade)
  PROVE  DocInv(Flushed)
<1>0. /\ NodesInv(sections) /\ TilesInv(sections) /\ DocInv(sections)
      /\ PlansOK(cascade) /\ CutInv(cascade) /\ TileOfInv(cascade)
      /\ DeletesInv(cascade) /\ DistinctInv(cascade)
  BY DEF Tidily, DocInv, PlanInv
<1>1. NodesInv(Flushed)
  <2>1. NodesOK(Flushed)
    BY <1>0, FlushedOK DEF NodesInv
  <2>2. ASSUME NEW a \in Stored(Flushed)
        PROVE  Flushed[a].level \in 2..Deepest /\ Headed(Flushed[a].level, a, Flushed[a].body)
    <3>1. a \in Anchors
      BY DEF Stored
    <3>2. CASE a \in PlannedIn(cascade)
      <4>1. Flushed[a] = [level |-> cascade.planned[a].level,
                          pos   |-> IF a \in Stored(sections) THEN sections[a].pos
                                    ELSE NextPosition(sections),
                          body  |-> cascade.planned[a].body]
        BY <3>1, <3>2, FlushedIs
      <4>2. Flushed[a].level = cascade.planned[a].level /\ Flushed[a].body = cascade.planned[a].body
        BY <4>1
      <4> QED
        BY <1>0, <3>1, <3>2, <4>2, PlannedIs DEF PlansOK
    <3>3. CASE a \notin PlannedIn(cascade)
      <4>1. Flushed[a] = sections[a] /\ a \in Stored(sections)
        BY <3>1, <3>3, FlushedIs DEF Stored
      <4> QED
        BY <1>0, <4>1 DEF NodesInv
    <3> QED
      BY <3>2, <3>3
  <2> QED
    BY <2>1, <2>2 DEF NodesInv
<1>2. TilesInv(Flushed)
  <2>1. \A t \in Tiles(Flushed) : TidyBody(t, Flushed[t].body)
    BY <1>0, FlushedTilesAre, CurrentTilesAre
  <2>2. ASSUME NEW t \in Tiles(Flushed), NEW u \in Tiles(Flushed), t # u
        PROVE  Flushed[t].pos # Flushed[u].pos
    <3>1. \A v \in Tiles(sections) : sections[v].pos \in Nat /\ sections[v].pos < NextPosition(sections)
      <4>1. sections \in Nodes
        BY <1>0 DEF NodesInv, NodesOK
      <4> QED
        BY <4>1, NextPositionIs DEF Nodes, Stored, Tiles
    <3>2. NextPosition(sections) \in Nat
      BY <1>0, NextPositionIs DEF NodesInv, NodesOK
    <3>3. \A v \in Tiles(Flushed) :
            IF v \in Tiles(sections) THEN Flushed[v].pos = sections[v].pos
            ELSE Flushed[v].pos = NextPosition(sections)
      BY FlushedTilesAre
    <3>4. t \in Tiles(sections) \/ u \in Tiles(sections)
      BY <2>2, FlushedTilesAre
    <3>5. CASE t \in Tiles(sections) /\ u \in Tiles(sections)
      BY <1>0, <2>2, <3>3, <3>5 DEF TilesInv
    <3>6. CASE t \in Tiles(sections) /\ u \notin Tiles(sections)
      BY <3>1, <3>2, <3>3, <3>6
    <3>7. CASE t \notin Tiles(sections) /\ u \in Tiles(sections)
      BY <3>1, <3>2, <3>3, <3>7
    <3> QED
      BY <3>4, <3>5, <3>6, <3>7
  <2>3. \A t, u \in Tiles(Flushed) : t # u => DefinedIn(Flushed[t].body) \cap DefinedIn(Flushed[u].body) = {}
    BY <1>0, FlushedTilesAre DEF DistinctInv
  <2> QED
    BY <2>1, <2>2, <2>3 DEF TilesInv
<1>3. HomesInv(Flushed)
  BY FlushedHomes
<1>4. CoverInv(Flushed)
  <2> SUFFICES ASSUME NEW a \in Stored(Flushed) \ Tiles(Flushed)
               PROVE  \E t \in Tiles(Flushed) :
                        a \in Embedded(Flushed[t].body) /\ Flushed[a].body = FirstSlice(Flushed[t].body, a)
    BY DEF CoverInv
  <2>1. a \in Anchors /\ a \notin CurrentTiles(cascade)
    BY FlushedTilesAre DEF Stored
  <2>2. \A t \in CutOf(cascade) : t \in Tiles(Flushed) /\ Flushed[t].body = cascade.planned[t].body
    BY <1>0, FlushedTilesAre, CurrentTilesAre
  <2>3. CASE a \in PlannedIn(cascade)
    <3>1. a \notin CutOf(cascade)
      BY <1>0, <2>1, CurrentTilesAre
    <3> DEFINE t == cascade.tileOf[a]
    <3>2. /\ t \in CutOf(cascade) /\ a \in Embedded(cascade.planned[t].body)
          /\ cascade.planned[a].body = FirstSlice(cascade.planned[t].body, a)
      BY <1>0, <2>1, <2>3, <3>1, PlannedIs
    <3>3. Flushed[a].body = cascade.planned[a].body
      <4>1. Flushed[a] = [level |-> cascade.planned[a].level,
                          pos   |-> IF a \in Stored(sections) THEN sections[a].pos
                                    ELSE NextPosition(sections),
                          body  |-> cascade.planned[a].body]
        BY <2>1, <2>3, FlushedIs
      <4> QED
        BY <4>1
    <3> QED
      BY <2>2, <3>2, <3>3
  <2>4. CASE a \notin PlannedIn(cascade)
    <3>1. Flushed[a] = sections[a] /\ a \in Stored(sections) /\ a \notin cascade.deletes
      BY <2>1, <2>4, FlushedIs DEF Stored
    <3>2. a \notin Tiles(sections)
      BY <1>0, <2>1, CurrentTilesAre
    <3>3. PICK t \in Tiles(sections) :
            a \in Embedded(sections[t].body) /\ sections[a].body = FirstSlice(sections[t].body, a)
      BY <1>0, <3>1, <3>2 DEF DocInv, CoverInv
    <3>4. Within(sections, a, t)
      BY <1>0, <3>3 DEF DocInv, HomesInv
    <3>5. t \notin CutOf(cascade)
      <4>1. SUFFICES ASSUME t \in CutOf(cascade) PROVE FALSE
        OBVIOUS
      <4>2. a \in Embedded(cascade.planned[t].body)
        BY <1>0, <3>1, <3>4, <4>1 DEF DeletesInv
      <4> QED
        BY <1>0, <2>1, <2>4, <4>1, <4>2, PlannedIs
    <3>6. t \in Tiles(Flushed) /\ Flushed[t].body = sections[t].body
      BY <1>0, <3>3, <3>5, FlushedTilesAre, CurrentTilesAre
    <3> QED
      BY <3>1, <3>3, <3>6
  <2> QED
    BY <2>3, <2>4
<1> QED
  BY <1>1, <1>2, <1>3, <1>4 DEF DocInv

LEMMA DefsAre ==
  ASSUME NEW e, NEW body
  PROVE  /\ \A d : d \in DefsIn(e, body) <=>
              \E i \in HeadingsOf(body) : /\ DefinedBy[body[i].name] = e
                                          /\ d = [home |-> body[i].name, text |-> Slice(body, i)]
         /\ e # NoEntity => (e \in DefinedIn(body) <=> DefsIn(e, body) # {})
<1>1. \A d : d \in DefsIn(e, body) <=>
              \E i \in HeadingsOf(body) : /\ DefinedBy[body[i].name] = e
                                          /\ d = [home |-> body[i].name, text |-> Slice(body, i)]
  BY DEF DefsIn
<1>2. DefsIn(e, body) # {} <=> \E i \in HeadingsOf(body) : DefinedBy[body[i].name] = e
  BY <1>1
<1> QED
  BY <1>1, <1>2 DEF DefinedIn

(* The entities after a flush are what the document then defines.           *)
LEMMA FlushedEntities ==
  ASSUME Tidily(cascade), EntInv(sections, entities), NEW ents,
         \A e \in Entities :
           IF e \in Fresh THEN ents[e] \in Definitions(e)
           ELSE ents[e] = IF e \in Stale THEN Nowhere ELSE entities[e]
  PROVE  EntInv(Flushed, ents)
<1>0. /\ NodesInv(sections) /\ TilesInv(sections) /\ DocInv(sections) /\ HomesInv(sections)
      /\ PlansOK(cascade) /\ CutInv(cascade) /\ TileOfInv(cascade) /\ DeletesInv(cascade)
  BY DEF Tidily, DocInv, PlanInv
<1>1. Cut = CutOf(cascade)
  BY DEF Cut, CutOf
<1>2. Ambiguous = {}
  <2>1. SUFFICES ASSUME NEW a \in Anchors, NEW t \in CurrentTiles(cascade), NEW u \in CurrentTiles(cascade),
                        t # u, a \in Embedded(TileBody(cascade, t)), a \in Embedded(TileBody(cascade, u))
                 PROVE  FALSE
    BY DEF Ambiguous
  <2> QED
    BY <1>0, <2>1, OneEmbeds
<1>3. \A t \in Tiles(sections) :
        /\ t \in Anchors /\ t \notin cascade.deletes
        /\ t \notin CutOf(cascade) => t \notin PlannedIn(cascade)
  BY <1>0, FlushedTilesAre, CurrentTilesAre DEF Tiles, Stored
<1> SUFFICES ASSUME NEW e \in Entities
             PROVE  LET defs == UNION {DefsIn(e, Flushed[t].body) : t \in Tiles(Flushed)}
                    IN  IF defs = {} THEN ents[e] = Nowhere ELSE ents[e] \in defs
  BY DEF EntInv
<1> DEFINE defs == UNION {DefsIn(e, Flushed[t].body) : t \in Tiles(Flushed)}
           old == UNION {DefsIn(e, sections[t].body) : t \in Tiles(sections)}
<1>4. e # NoEntity
  OBVIOUS
<1>5. /\ \A t \in CutOf(cascade) : t \in Tiles(Flushed) /\ Flushed[t].body = cascade.planned[t].body
      /\ \A t \in Tiles(Flushed) \ CutOf(cascade) :
           t \in Tiles(sections) /\ Flushed[t].body = sections[t].body
      /\ \A t \in Tiles(sections) : t \in Tiles(Flushed)
  BY <1>0, FlushedTilesAre, CurrentTilesAre
<1>6. CASE e \in Fresh
  <2>1. ents[e] \in Definitions(e)
    BY <1>6
  <2>2. PICK t \in CutOf(cascade) : \E i \in HeadingsOf(cascade.planned[t].body) :
           /\ DefinedBy[cascade.planned[t].body[i].name] = e
           /\ ents[e] = [home |-> cascade.planned[t].body[i].name,
                         text |-> Slice(cascade.planned[t].body, i)]
    BY <1>0, <1>1, <2>1, DefinitionsAre
  <2>3. ents[e] \in DefsIn(e, cascade.planned[t].body)
    BY <2>2, DefsAre
  <2>4. ents[e] \in defs
    BY <1>5, <2>3
  <2> QED
    BY <2>4
<1>7. CASE e \notin Fresh
  <2>1. \A t \in CutOf(cascade) : DefsIn(e, cascade.planned[t].body) = {}
    <3>1. Definitions(e) = {}
      BY <1>7 DEF Fresh
    <3>2. \A t \in CutOf(cascade) : \A i \in HeadingsOf(cascade.planned[t].body) :
            DefinedBy[cascade.planned[t].body[i].name] # e
      BY <1>0, <1>1, <3>1, DefinitionsAre
    <3> QED
      BY <3>2 DEF DefsIn
  <2>2. ents[e] = IF e \in Stale THEN Nowhere ELSE entities[e]
    BY <1>7
  <2>3. IF old = {} THEN entities[e] = Nowhere ELSE entities[e] \in old
    BY DEF EntInv
  <2>4. ASSUME NEW d \in defs
        PROVE  \E t \in Tiles(sections) \ CutOf(cascade) : d \in DefsIn(e, sections[t].body)
    <3>1. PICK t \in Tiles(Flushed) : d \in DefsIn(e, Flushed[t].body)
      OBVIOUS
    <3>2. t \notin CutOf(cascade)
      BY <1>5, <2>1, <3>1
    <3> QED
      BY <1>5, <3>1, <3>2
  <2>5. ASSUME NEW t \in Tiles(sections) \ CutOf(cascade), NEW d \in DefsIn(e, sections[t].body)
        PROVE  d \in defs
    BY <1>5
  <2>6. ASSUME NEW t \in Tiles(sections), NEW i \in HeadingsOf(sections[t].body)
        PROVE  /\ t \in CutOf(cascade) =>
                    sections[t].body[i].name \in PlannedIn(cascade) \cup cascade.deletes
               /\ t \notin CutOf(cascade) =>
                    sections[t].body[i].name \notin PlannedIn(cascade) \cup cascade.deletes
    <3> DEFINE a == sections[t].body[i].name
    <3>1. TidyBody(t, sections[t].body)
      BY <1>0 DEF TilesInv
    <3>2. a = t \/ a \in Embedded(sections[t].body)
      BY <3>1, TidyBodyIs
    <3>3. CASE a = t
      BY <1>3, <3>3 DEF CutOf
    <3>4. CASE a \in Embedded(sections[t].body)
      <4>1. a \in Stored(sections) /\ Within(sections, a, t) /\ a \in Anchors
        BY <1>0, <3>4 DEF HomesInv, Stored
      <4>2. ASSUME NEW u \in CutOf(cascade), Within(sections, a, u) PROVE u = t
        <5>1. u \in Tiles(sections)
          BY <1>0, <4>2, CurrentTilesAre DEF Within
        <5> QED
          BY <1>0, <4>1, <4>2, <5>1, OneTile
      <4> HIDE DEF a
      <4>3. ASSUME t \in CutOf(cascade) PROVE a \in PlannedIn(cascade) \cup cascade.deletes
        <5>1. CASE a \in Embedded(cascade.planned[t].body)
          BY <1>0, <4>1, <4>3, <5>1, PlannedIs
        <5>2. CASE a \notin Embedded(cascade.planned[t].body)
          BY <1>0, <4>1, <4>3, <5>2 DEF DeletesInv
        <5> QED
          BY <5>1, <5>2
      <4>4. ASSUME t \notin CutOf(cascade), a \in cascade.deletes PROVE FALSE
        BY <1>0, <4>1, <4>2, <4>4 DEF DeletesInv
      <4>5. ASSUME t \notin CutOf(cascade), a \in PlannedIn(cascade) PROVE FALSE
        <5>1. a \notin CutOf(cascade)
          <6>1. a \notin Tiles(sections)
            BY <1>0, <4>1, OneTile
          <6> QED
            BY <1>0, <4>1, <6>1, CurrentTilesAre
        <5>2. /\ cascade.tileOf[a] \in CutOf(cascade)
              /\ sections[a] = NoSection \/ Within(sections, a, cascade.tileOf[a])
          BY <1>0, <4>1, <4>5, <5>1, PlannedIs
        <5> QED
          BY <4>1, <4>2, <4>5, <5>2 DEF Stored
      <4> QED
        BY <4>3, <4>4, <4>5 DEF a
    <3> QED
      BY <3>2, <3>3, <3>4
  <2>7. CASE old = {}
    <3>1. defs = {}
      <4>1. SUFFICES ASSUME NEW d \in defs PROVE FALSE
        OBVIOUS
      <4>2. d \in old
        BY <2>4
      <4> QED
        BY <2>7, <4>2
    <3>2. ents[e] = Nowhere
      BY <2>2, <2>3, <2>7
    <3> QED
      BY <3>1, <3>2
  <2>8. CASE old # {}
    <3>1. PICK t \in Tiles(sections) : entities[e] \in DefsIn(e, sections[t].body)
      BY <2>3, <2>8
    <3>2. PICK i \in HeadingsOf(sections[t].body) :
            entities[e] = [home |-> sections[t].body[i].name, text |-> Slice(sections[t].body, i)]
      BY <3>1, DefsAre
    <3>3. entities[e].home = sections[t].body[i].name
      BY <3>2
    <3>4. entities[e] # Nowhere
      <4>1. sections[t].body \in Body
        BY <1>0, TidyBodyIs DEF TilesInv
      <4>2. Slice(sections[t].body, i) # <<>>
        BY <4>1, SliceIs DEF Headed
      <4> QED
        BY <3>2, <4>2 DEF Nowhere
    <3>5. e \in Stale <=> t \in CutOf(cascade)
      BY <1>2, <1>7, <2>6, <3>3, <3>4 DEF Stale
    <3>6. CASE t \in CutOf(cascade)
      <4>1. defs = {}
        <5>1. SUFFICES ASSUME NEW d \in defs PROVE FALSE
          OBVIOUS
        <5>2. PICK u \in Tiles(sections) \ CutOf(cascade) : d \in DefsIn(e, sections[u].body)
          BY <2>4
        <5>3. e \in DefinedIn(sections[t].body) /\ e \in DefinedIn(sections[u].body)
          BY <1>4, <3>1, <5>2, DefsAre
        <5> QED
          BY <1>0, <3>6, <5>2, <5>3 DEF TilesInv
      <4>2. ents[e] = Nowhere
        BY <2>2, <3>5, <3>6
      <4> QED
        BY <4>1, <4>2
    <3>7. CASE t \notin CutOf(cascade)
      <4>1. ents[e] = entities[e]
        BY <2>2, <3>5, <3>7
      <4>2. entities[e] \in defs
        BY <2>5, <3>1, <3>7
      <4> QED
        BY <4>1, <4>2
    <3> QED
      BY <3>6, <3>7
  <2> QED
    BY <2>7, <2>8
<1> QED
  BY <1>6, <1>7

\* The document as the writes of the batch leave it
Written(c) ==
  [body  |-> [t \in CurrentTiles(c) |-> TileBody(c, t)],
   order |-> {p \in Tiles(sections) \X Tiles(sections) : sections[p[1]].pos < sections[p[2]].pos}
               \cup (Tiles(sections) \X (CurrentTiles(c) \ Tiles(sections)))]

(* What a flush exports is what was written.                                *)
LEMMA FlushedExport ==
  ASSUME Tidily(cascade)
  PROVE  Export(Flushed) = Written(cascade)
<1>0. NodesInv(sections) /\ Tiles(sections) \subseteq CurrentTiles(cascade)
  BY CurrentTilesAre DEF Tidily, DocInv, PlanInv
<1>1. [t \in Tiles(Flushed) |-> Flushed[t].body] = [t \in CurrentTiles(cascade) |-> TileBody(cascade, t)]
  BY FlushedTilesAre
<1> DEFINE N == NextPosition(sections)
           new == CurrentTiles(cascade) \ Tiles(sections)
           ordered == {p \in Tiles(sections) \X Tiles(sections) : sections[p[1]].pos < sections[p[2]].pos}
           after == {p \in Tiles(Flushed) \X Tiles(Flushed) : Flushed[p[1]].pos < Flushed[p[2]].pos}
<1>2. N \in Nat /\ \A t \in Tiles(sections) : sections[t].pos \in Nat /\ sections[t].pos < N
  <2>1. sections \in Nodes
    BY <1>0 DEF NodesInv, NodesOK
  <2> QED
    BY <2>1, NextPositionIs DEF Nodes, Stored, Tiles
<1> HIDE DEF N
<1>3. /\ Tiles(Flushed) = CurrentTiles(cascade)
      /\ \A t \in CurrentTiles(cascade) :
           IF t \in Tiles(sections) THEN Flushed[t].pos = sections[t].pos ELSE Flushed[t].pos = N
  BY FlushedTilesAre DEF N
<1>4. ASSUME NEW t \in CurrentTiles(cascade), NEW u \in CurrentTiles(cascade)
      PROVE  Flushed[t].pos < Flushed[u].pos <=>
               /\ t \in Tiles(sections)
               /\ u \in Tiles(sections) => sections[t].pos < sections[u].pos
  <2>1. CASE t \in Tiles(sections) /\ u \in Tiles(sections)
    BY <1>3, <2>1
  <2>2. CASE t \in Tiles(sections) /\ u \notin Tiles(sections)
    <3>1. Flushed[t].pos = sections[t].pos /\ Flushed[u].pos = N
      BY <1>3, <2>2
    <3> QED
      BY <1>2, <2>2, <3>1
  <2>3. CASE t \notin Tiles(sections) /\ u \in Tiles(sections)
    <3>1. Flushed[t].pos = N /\ Flushed[u].pos = sections[u].pos
      BY <1>3, <2>3
    <3> QED
      BY <1>2, <2>3, <3>1
  <2>4. CASE t \notin Tiles(sections) /\ u \notin Tiles(sections)
    <3>1. Flushed[t].pos = N /\ Flushed[u].pos = N
      BY <1>3, <2>4
    <3> QED
      BY <1>2, <2>4, <3>1
  <2> QED
    BY <2>1, <2>2, <2>3, <2>4
<1>5. after = ordered \cup (Tiles(sections) \X new)
  <2>1. ASSUME NEW p \in after PROVE p \in ordered \cup (Tiles(sections) \X new)
    BY <1>3, <1>4
  <2>2. ASSUME NEW p \in ordered \cup (Tiles(sections) \X new) PROVE p \in after
    <3>1. p \in CurrentTiles(cascade) \X CurrentTiles(cascade)
      BY <1>0
    <3>2. p[1] \in Tiles(sections) /\ (p[2] \in Tiles(sections) => sections[p[1]].pos < sections[p[2]].pos)
      OBVIOUS
    <3> QED
      BY <1>3, <1>4, <3>1, <3>2
  <2> QED
    BY <2>1, <2>2
<1> QED
  BY <1>1, <1>5 DEF Export, Written

-----------------------------------------------------------------------------
(* The writes of a tidy batch *)

\* A tile that is revised is there, or is a new one; it was not cut from another.
LEMMA RevisedTileIs ==
  ASSUME TypeOK, Tidily(cascade), NEW narrative \in Narratives, NEW r \in Revisions(narrative),
         IsTidy(r.tile, r.body)
  PROVE  /\ r.tile \in Anchors /\ TidyBody(r.tile, r.body)
         /\ r.tile \in Tiles(sections) \/ sections[r.tile] = NoSection
         /\ r.tile \in CutOf(cascade) \/ r.tile \notin PlannedIn(cascade)
<1> DEFINE a == narrative[1].name
           level == LevelOf(cascade, a)
           t == r.tile
<1>0. /\ NodesInv(sections) /\ DocInv(sections)
      /\ PlansOK(cascade) /\ CutInv(cascade) /\ TileOfInv(cascade)
  BY DEF Tidily, DocInv, PlanInv
<1>1. t \in Anchors /\ r.body \in Body /\ r.body # <<>> /\ r.body[1].name = t
  BY <1>0, RevisionIs
<1>2. TidyBody(t, r.body)
  <2>1. r.body[1].level = 2 /\ IsTidyText(r.body) /\ \A i \in HeadingsOf(r.body) : i > 1 => r.body[i].level > 2
    BY DEF IsTidy, IsTidyText
  <2>2. 1 \in HeadingsOf(r.body)
    <3>1. Len(r.body) \in Nat /\ Len(r.body) # 0 /\ DOMAIN r.body = 1..Len(r.body)
      BY <1>1, EmptySeq DEF Body
    <3> QED
      BY <2>1, <3>1 DEF HeadingsOf
  <2>3. r.body[1] = Heading(2, t)
    <3>1. r.body[1] = Heading(r.body[1].level, r.body[1].name)
      BY <1>1, <2>2, HeadingIs
    <3> QED
      BY <1>1, <2>1, <3>1
  <2> QED
    BY <1>1, <2>1, <2>3 DEF TidyBody, Headed
<1>3. a \in Anchors
  BY NarrativeIs
<1>4. \/ t = a /\ (level = 2 \/ level = 0)
      \/ t \in EnclosingTiles(cascade, a)
  BY DEF Revisions
<1>5. CASE t \in EnclosingTiles(cascade, a)
  <2>1. t \in CutOf(cascade) \/ t \in Tiles(sections)
    <3>1. (t = cascade.tileOf[a] /\ cascade.tileOf[a] # NoTile) \/ t \in Tiles(sections)
      BY <1>5 DEF EnclosingTiles
    <3>2. cascade.tileOf[a] # NoTile => cascade.tileOf[a] \in CutOf(cascade)
      BY <1>0, <1>3, PlannedIs
    <3> QED
      BY <3>1, <3>2
  <2>2. t \in Tiles(sections) \/ sections[t] = NoSection
    BY <1>0, <2>1 DEF CutInv
  <2>3. t \in Tiles(sections) => t \in CutOf(cascade) \/ t \notin PlannedIn(cascade)
    BY <1>0, CurrentTilesAre
  <2> QED
    BY <1>1, <1>2, <2>1, <2>2, <2>3
<1>6. CASE t = a /\ level = 2
  <2>1. CASE a \in PlannedIn(cascade)
    <3>1. a \in CutOf(cascade)
      BY <1>6, <2>1 DEF LevelOf, CutOf
    <3>2. a \in Tiles(sections) \/ sections[a] = NoSection
      BY <1>0, <3>1 DEF CutInv
    <3> QED
      BY <1>1, <1>2, <1>6, <3>1, <3>2
  <2>2. CASE a \notin PlannedIn(cascade)
    <3>1. sections[a].level = 2
      BY <1>6, <2>2 DEF LevelOf
    <3>2. a \in Tiles(sections)
      BY <1>0, <1>3, <3>1, NodeIs
    <3> QED
      BY <1>1, <1>2, <1>6, <2>2, <3>2
  <2> QED
    BY <2>1, <2>2
<1>7. CASE t = a /\ level = 0
  <2>1. a \notin PlannedIn(cascade)
    BY <1>0, <1>7 DEF LevelOf, PlansOK, Deepest
  <2>2. sections[a].level = 0
    BY <1>7, <2>1 DEF LevelOf
  <2>3. a \notin Stored(sections)
    BY <1>0, <2>2 DEF NodesInv, Deepest
  <2> QED
    BY <1>0, <1>1, <1>2, <1>3, <1>7, <2>1, <2>3, NodeIs
<1> QED
  BY <1>4, <1>5, <1>6, <1>7

\* What it means to revise tile t to a body
Revises(t, body) ==
  /\ t \in Anchors /\ TidyBody(t, body) /\ IsTidy(t, body)
  /\ t \in Tiles(sections) \/ sections[t] = NoSection
  /\ t \in CutOf(cascade) \/ t \notin PlannedIn(cascade)

\* The headings that the tile had, by their nodes or by the plan
Lost(t, body) ==
  {a \in Anchors \ (Embedded(body) \cup {t}) :
     (a \in Stored(sections) /\ Within(sections, a, t)) \/ cascade.tileOf[a] = t}

\* Plan c is the one before, with tile t cut from body.
CutInto(c, t, body) ==
  /\ t \notin Embedded(body) /\ Embedded(body) \subseteq Anchors
  /\ c.planned[t] = [level |-> 2, body |-> body] /\ c.tileOf[t] = NoTile
  /\ \A a \in Embedded(body) :
       /\ c.planned[a] = [level |-> body[Min(Places(body, a))].level,
                          body  |-> FirstSlice(body, a)]
       /\ c.planned[a].level \in 3..Deepest
       /\ c.tileOf[a] = t
  /\ \A a \in Lost(t, body) : c.planned[a] = NoPlan /\ c.tileOf[a] = NoTile
  /\ \A a \in Anchors \ (Embedded(body) \cup {t} \cup Lost(t, body)) :
       c.planned[a] = cascade.planned[a] /\ c.tileOf[a] = cascade.tileOf[a]
  /\ c.deletes = (cascade.deletes \cup Lost(t, body)) \ (Embedded(body) \cup {t})

LEMMA PlanTileIs ==
  ASSUME Tidily(cascade), NEW t, NEW body, Revises(t, body)
  PROVE  CutInto(PlanTile(cascade, t, body), t, body)
<1> DEFINE c == PlanTile(cascade, t, body)
           kids == {a \in Embedded(body) \ {t} :
                      sections[a] = NoSection \/ Within(sections, a, t)}
           members == {a \in Stored(sections) \ {t} : Within(sections, a, t)}
           removed == (members \cup {a \in Anchors \ {t} : cascade.tileOf[a] = t}) \ kids
           level == IF t \in PlannedIn(cascade) THEN cascade.planned[t].level ELSE 2
           Plan(a) ==
             CASE a = t -> [level |-> level, body |-> body]
               [] a \in kids ->
                    [level |-> body[Min(Places(body, a))].level, body |-> FirstSlice(body, a)]
               [] a \in removed -> NoPlan
               [] OTHER -> cascade.planned[a]
<1>0. /\ PlansOK(cascade) /\ CutInv(cascade) /\ TileOfInv(cascade)
      /\ t \in Anchors /\ TidyBody(t, body)
  BY DEF Tidily, PlanInv, Revises
<1>1. /\ c.planned = [a \in Anchors |-> Plan(a)]
      /\ c.deletes = (cascade.deletes \cup removed) \ (kids \cup {t})
      /\ c.tileOf = [a \in Anchors |-> IF a \in kids THEN t
                                       ELSE IF a \in removed THEN NoTile
                                       ELSE cascade.tileOf[a]]
  BY DEF PlanTile
<1>2. level = 2
  BY DEF Revises, CutOf
<1>3. t \notin Embedded(body) /\ Embedded(body) \subseteq Anchors
  BY <1>0, TidyBodyIs, PlacesAre
<1>4. kids = Embedded(body)
  BY <1>3 DEF Revises, IsTidy
<1>5. removed = Lost(t, body)
  BY <1>4 DEF Lost, Stored
<1>6. cascade.tileOf[t] = NoTile
  BY <1>0, PlannedIs DEF Revises
<1> HIDE DEF kids, removed, level, c
<1>7. Lost(t, body) \cap (Embedded(body) \cup {t}) = {} /\ Lost(t, body) \subseteq Anchors
  BY DEF Lost
<1>8. Plan(t) = [level |-> 2, body |-> body]
  BY <1>2, <1>3, <1>4, <1>5, <1>7
<1>9. \A a \in Embedded(body) :
        Plan(a) = [level |-> body[Min(Places(body, a))].level, body  |-> FirstSlice(body, a)]
  BY <1>3, <1>4, <1>5, <1>7
<1>10. \A a \in Lost(t, body) : Plan(a) = NoPlan
  BY <1>3, <1>4, <1>5, <1>7
<1>11. \A a \in Anchors \ (Embedded(body) \cup {t} \cup Lost(t, body)) : Plan(a) = cascade.planned[a]
  BY <1>3, <1>4, <1>5, <1>7
<1> HIDE DEF Plan
<1>12. \A a \in Anchors : c.planned[a] = Plan(a)
  BY <1>1
<1>13. \A a \in Embedded(body) : body[Min(Places(body, a))].level \in 3..Deepest
  BY <1>0, TidyBodyIs
<1>14. \A a \in Embedded(body) :
         /\ c.planned[a] = [level |-> body[Min(Places(body, a))].level,
                            body  |-> FirstSlice(body, a)]
         /\ c.planned[a].level \in 3..Deepest
  <2> SUFFICES ASSUME NEW a \in Embedded(body)
               PROVE  /\ c.planned[a] = [level |-> body[Min(Places(body, a))].level,
                                         body  |-> FirstSlice(body, a)]
                      /\ c.planned[a].level \in 3..Deepest
    OBVIOUS
  <2>1. c.planned[a] = [level |-> body[Min(Places(body, a))].level, body  |-> FirstSlice(body, a)]
    BY <1>3, <1>9, <1>12
  <2>2. c.planned[a].level = body[Min(Places(body, a))].level
    BY <2>1
  <2> QED
    BY <1>13, <2>1, <2>2
<1>15. /\ c.tileOf[t] = NoTile
       /\ \A a \in Embedded(body) : c.tileOf[a] = t
       /\ \A a \in Lost(t, body) : c.tileOf[a] = NoTile
       /\ \A a \in Anchors \ (Embedded(body) \cup {t} \cup Lost(t, body)) :
            c.tileOf[a] = cascade.tileOf[a]
  BY <1>0, <1>1, <1>3, <1>4, <1>5, <1>6, <1>7
<1>16. c.deletes = (cascade.deletes \cup Lost(t, body)) \ (Embedded(body) \cup {t})
  BY <1>1, <1>4, <1>5
<1>17. c.planned[t] = [level |-> 2, body |-> body]
  BY <1>0, <1>8, <1>12
<1>18. /\ \A a \in Lost(t, body) : c.planned[a] = NoPlan
       /\ \A a \in Anchors \ (Embedded(body) \cup {t} \cup Lost(t, body)) :
            c.planned[a] = cascade.planned[a]
  BY <1>7, <1>10, <1>11, <1>12
<1> QED
  BY <1>3, <1>14, <1>15, <1>16, <1>17, <1>18 DEF c, CutInto

\* What the other cut tiles embed, and they themselves, are left as planned.
LEMMA OthersKept ==
  ASSUME Tidily(cascade), NEW t, NEW body, Revises(t, body), NEW u \in CutOf(cascade), u # t
  PROVE  /\ u \notin Embedded(body) \cup Lost(t, body)
         /\ \A a \in Embedded(cascade.planned[u].body) :
              a \in Anchors /\ a # t /\ a \notin Embedded(body) \cup Lost(t, body)
<1>0. /\ NodesInv(sections) /\ TilesInv(sections) /\ DocInv(sections)
      /\ PlansOK(cascade) /\ CutInv(cascade) /\ TileOfInv(cascade) /\ NewInv(cascade)
      /\ IsTidy(t, body) /\ t \in Anchors
      /\ CutOf(cascade) \subseteq CurrentTiles(cascade)
      /\ u \in Anchors /\ u \in PlannedIn(cascade)
      /\ \A v \in Tiles(sections) : v \in Anchors
  BY CurrentTilesAre DEF Tidily, DocInv, PlanInv, Revises, CutOf, PlannedIn, Tiles, Stored
<1>1. \A a \in Anchors : Within(sections, a, t) => t \in Tiles(sections) /\ a \in Stored(sections)
  <2>1. \A a \in Anchors : Within(sections, a, t) => t \in Tiles(sections)
    BY DEF Within, Revises, Stored
  <2> QED
    BY <1>0, <2>1, OneTile
<1>2. ASSUME NEW a \in Embedded(body)
      PROVE  /\ a \in Anchors
             /\ \/ Within(sections, a, t)
                \/ /\ sections[a] = NoSection /\ t \in Tiles(sections)
                   /\ \A v \in CurrentTiles(cascade) :
                        v \in Tiles(sections) /\ sections[v].pos <= sections[t].pos
  <2>1. body \in Body
    BY TidyBodyIs DEF Revises
  <2> QED
    BY <1>0, <2>1, PlacesAre DEF IsTidy
<1>3. u \notin Embedded(body)
  <2> SUFFICES ASSUME u \in Embedded(body) PROVE FALSE
    OBVIOUS
  <2>1. ~Within(sections, u, t)
    <3> SUFFICES ASSUME Within(sections, u, t) PROVE FALSE
      OBVIOUS
    <3>1. t \in Tiles(sections) /\ u \in Stored(sections)
      BY <1>0, <1>1
    <3>2. u \in Tiles(sections)
      BY <1>0, <3>1, CurrentTilesAre
    <3> QED
      BY <1>0, <3>1, <3>2, OneTile
  <2>2. sections[u] = NoSection /\ u \in Tiles(sections)
    BY <1>0, <1>2, <2>1
  <2> QED
    BY <2>2 DEF Tiles, Stored
<1>4. u \notin Lost(t, body)
  <2> SUFFICES ASSUME u \in Lost(t, body) PROVE FALSE
    OBVIOUS
  <2>1. cascade.tileOf[u] = NoTile /\ t # NoTile
    BY <1>0, PlannedIs
  <2>2. u \in Stored(sections) /\ Within(sections, u, t)
    BY <2>1 DEF Lost
  <2>3. u \in Tiles(sections) /\ t \in Tiles(sections)
    BY <1>0, <1>1, <2>2, CurrentTilesAre
  <2> QED
    BY <1>0, <2>2, <2>3, OneTile
<1>5. ASSUME NEW a \in Embedded(cascade.planned[u].body)
      PROVE  a \in Anchors /\ a # t /\ a \notin Embedded(body) \cup Lost(t, body)
  <2>1. a \in Anchors
    <3>1. cascade.planned[u].body \in Body
      BY <1>0, TidyBodyIs DEF CutInv
    <3> QED
      BY <3>1, PlacesAre
  <2>2. /\ a \in PlannedIn(cascade) \ CutOf(cascade) /\ cascade.tileOf[a] = u
        /\ sections[a] = NoSection \/ Within(sections, a, u)
    BY <1>0, <2>1, PlannedIs DEF CutInv
  <2>3. a # t
    BY <2>2 DEF Revises
  <2>4. ~Within(sections, a, t)
    <3> SUFFICES ASSUME Within(sections, a, t) PROVE FALSE
      OBVIOUS
    <3>1. t \in Tiles(sections) /\ a \in Stored(sections)
      BY <1>1, <2>1
    <3>2. Within(sections, a, u)
      BY <2>2, <3>1 DEF Stored
    <3>3. u \in Tiles(sections)
      BY <1>0, <3>2, CurrentTilesAre DEF Within
    <3> QED
      BY <1>0, <2>1, <3>1, <3>2, <3>3, OneTile
  <2>5. a \notin Lost(t, body)
    BY <2>2, <2>4 DEF Lost
  <2>6. a \notin Embedded(body)
    <3> SUFFICES ASSUME a \in Embedded(body) PROVE FALSE
      OBVIOUS
    <3>1. /\ sections[a] = NoSection /\ t \in Tiles(sections)
          /\ u \in Tiles(sections) /\ sections[u].pos <= sections[t].pos
      BY <1>0, <1>2, <2>4
    <3>2. a \in PlannedIn(cascade) \ Stored(sections)
      BY <2>2, <3>1 DEF Stored
    <3>3. sections[t].pos <= sections[u].pos
      BY <1>0, <2>2, <3>1, <3>2 DEF NewInv
    <3>4. sections[t].pos \in Nat /\ sections[u].pos \in Nat
      BY <1>0, NodeIs
    <3>5. sections[t].pos = sections[u].pos
      BY <3>1, <3>3, <3>4
    <3> QED
      BY <1>0, <3>1, <3>5 DEF TilesInv
  <2> QED
    BY <2>1, <2>3, <2>5, <2>6
<1> QED
  BY <1>3, <1>4, <1>5

\* The cut tiles of the new plan, and what the others are
LEMMA CutIs ==
  ASSUME Tidily(cascade), NEW t, NEW body, Revises(t, body)
  PROVE  LET c == PlanTile(cascade, t, body)
         IN  /\ CutOf(c) = CutOf(cascade) \cup {t}
             /\ \A u \in CutOf(cascade) \ {t} : c.planned[u] = cascade.planned[u]
             /\ PlannedIn(c) \subseteq PlannedIn(cascade) \cup {t} \cup Embedded(body)
             /\ \A a \in PlannedIn(c) \ (Embedded(body) \cup {t}) :
                  /\ a \in PlannedIn(cascade) \ Lost(t, body)
                  /\ c.planned[a] = cascade.planned[a] /\ c.tileOf[a] = cascade.tileOf[a]
             /\ t \in PlannedIn(c) /\ Embedded(body) \subseteq PlannedIn(c) \ CutOf(c)
<1> DEFINE c == PlanTile(cascade, t, body)
<1>0. t \in Anchors
  BY DEF Revises
<1>1. CutInto(c, t, body)
  BY PlanTileIs
<1> HIDE DEF c
<1>2. c.planned[t].level = 2 /\ c.planned[t] # NoPlan
  BY <1>1 DEF CutInto, NoPlan
<1>3. ASSUME NEW a \in Embedded(body) PROVE c.planned[a] # NoPlan /\ c.planned[a].level # 2
  <2>1. c.planned[a].level \in 3..Deepest
    BY <1>1 DEF CutInto
  <2> QED
    BY <2>1 DEF NoPlan, Deepest
<1>4. \A u \in CutOf(cascade) \ {t} : c.planned[u] = cascade.planned[u]
  <2>1. \A u \in CutOf(cascade) \ {t} : u \in Anchors \ (Embedded(body) \cup {t} \cup Lost(t, body))
    BY OthersKept DEF CutOf, PlannedIn
  <2> QED
    BY <1>1, <2>1 DEF CutInto
<1>5. \A a \in PlannedIn(c) \ (Embedded(body) \cup {t}) :
        /\ a \in PlannedIn(cascade) \ Lost(t, body)
        /\ c.planned[a] = cascade.planned[a] /\ c.tileOf[a] = cascade.tileOf[a]
  BY <1>1 DEF CutInto, PlannedIn
<1>6. t \in PlannedIn(c) /\ Embedded(body) \subseteq PlannedIn(c) \ CutOf(c)
  BY <1>0, <1>1, <1>2, <1>3 DEF CutInto, PlannedIn, CutOf
<1>7. CutOf(c) = CutOf(cascade) \cup {t}
  <2>1. \A u \in CutOf(c) : u \in CutOf(cascade) \cup {t}
    BY <1>5, <1>6 DEF CutOf
  <2>2. \A u \in CutOf(cascade) \ {t} : u \in CutOf(c)
    BY <1>4 DEF CutOf, PlannedIn
  <2>3. t \in CutOf(c)
    BY <1>2, <1>6 DEF CutOf
  <2> QED
    BY <2>1, <2>2, <2>3
<1>8. PlannedIn(c) \subseteq PlannedIn(cascade) \cup {t} \cup Embedded(body)
  BY <1>5
<1> QED
  BY <1>4, <1>5, <1>6, <1>7, <1>8 DEF c

LEMMA PlanTileCuts ==
  ASSUME Tidily(cascade), NEW t, NEW body, Revises(t, body)
  PROVE  CutInv(PlanTile(cascade, t, body)) /\ TileOfInv(PlanTile(cascade, t, body))
<1> DEFINE c == PlanTile(cascade, t, body)
<1>0. /\ CutInv(cascade) /\ TileOfInv(cascade) /\ PlansOK(cascade)
      /\ t \in Anchors /\ TidyBody(t, body) /\ IsTidy(t, body)
      /\ t \in Tiles(sections) \/ sections[t] = NoSection
  BY DEF Tidily, PlanInv, Revises
<1>1. /\ t \notin Embedded(body) /\ Embedded(body) \subseteq Anchors
      /\ c.planned[t] = [level |-> 2, body |-> body] /\ c.tileOf[t] = NoTile
      /\ \A a \in Embedded(body) :
           /\ c.planned[a] = [level |-> body[Min(Places(body, a))].level,
                              body  |-> FirstSlice(body, a)]
           /\ c.tileOf[a] = t
      /\ \A a \in Lost(t, body) : c.tileOf[a] = NoTile
      /\ \A a \in Anchors \ (Embedded(body) \cup {t} \cup Lost(t, body)) :
           c.planned[a] = cascade.planned[a] /\ c.tileOf[a] = cascade.tileOf[a]
  BY PlanTileIs DEF CutInto
<1>2. /\ CutOf(c) = CutOf(cascade) \cup {t}
      /\ \A u \in CutOf(cascade) \ {t} : c.planned[u] = cascade.planned[u]
      /\ \A a \in PlannedIn(c) \ (Embedded(body) \cup {t}) :
           /\ a \in PlannedIn(cascade) \ Lost(t, body)
           /\ c.planned[a] = cascade.planned[a] /\ c.tileOf[a] = cascade.tileOf[a]
  BY CutIs
<1>3. \A u \in CutOf(cascade) \ {t} : \A a \in Embedded(cascade.planned[u].body) :
        c.planned[a] = cascade.planned[a] /\ c.tileOf[a] = cascade.tileOf[a]
  BY <1>1, OthersKept
<1>4. c.planned[t].body = body
  BY <1>1
<1>5. t # NoTile
  BY <1>0
<1> HIDE DEF c
<1>6. ASSUME NEW u \in CutOf(c)
      PROVE  /\ u \in Tiles(sections) \/ sections[u] = NoSection
             /\ TidyBody(u, c.planned[u].body)
             /\ \A a \in Embedded(c.planned[u].body) :
                  /\ c.planned[a] = [level |-> c.planned[u].body[Min(Places(c.planned[u].body, a))].level,
                                     body  |-> FirstSlice(c.planned[u].body, a)]
                  /\ c.tileOf[a] = u
                  /\ sections[a] = NoSection \/ Within(sections, a, u)
  <2>1. CASE u = t
    <3>1. \A a \in Embedded(body) : sections[a] = NoSection \/ Within(sections, a, t)
      BY <1>0 DEF IsTidy
    <3> QED
      BY <1>0, <1>1, <1>4, <2>1, <3>1
  <2>2. CASE u # t
    <3>1. u \in CutOf(cascade) /\ c.planned[u] = cascade.planned[u]
      BY <1>2, <2>2
    <3> QED
      BY <1>0, <1>3, <2>2, <3>1 DEF CutInv
  <2> QED
    BY <2>1, <2>2
<1>7. ASSUME NEW a \in Anchors, c.tileOf[a] # NoTile
      PROVE  c.tileOf[a] \in CutOf(c) /\ a \in Embedded(c.planned[c.tileOf[a]].body)
  <2>1. CASE a \in Embedded(body)
    BY <1>1, <1>2, <1>4, <2>1
  <2>2. CASE a \notin Embedded(body)
    <3>1. a # t /\ a \notin Lost(t, body) /\ c.tileOf[a] = cascade.tileOf[a]
      BY <1>1, <1>7, <2>2
    <3> DEFINE u == cascade.tileOf[a]
    <3>2. u \in CutOf(cascade) /\ a \in Embedded(cascade.planned[u].body)
      BY <1>0, <1>7, <3>1, PlannedIs
    <3>3. u # t
      BY <2>2, <3>1 DEF Lost
    <3> QED
      BY <1>2, <3>1, <3>2, <3>3
  <2> QED
    BY <2>1, <2>2
<1>8. ASSUME NEW a \in PlannedIn(c) \ CutOf(c)
      PROVE  c.tileOf[a] # NoTile
  <2>1. CASE a \in Embedded(body)
    BY <1>1, <1>5, <2>1
  <2>2. CASE a \notin Embedded(body)
    <3>1. /\ a \in PlannedIn(cascade)
          /\ c.planned[a] = cascade.planned[a] /\ c.tileOf[a] = cascade.tileOf[a]
      BY <1>2, <2>2
    <3>2. a \notin CutOf(cascade)
      BY <1>2
    <3> QED
      BY <1>0, <3>1, <3>2 DEF TileOfInv
  <2> QED
    BY <2>1, <2>2
<1> QED
  BY <1>6, <1>7, <1>8 DEF CutInv, TileOfInv, c

\* What a revised body embeds lies within its tile, or is new in the last one.
LEMMA RevisedEmbeds ==
  ASSUME Tidily(cascade), NEW t, NEW body, Revises(t, body)
  PROVE  /\ \A a \in Anchors : Within(sections, a, t) =>
              t \in Tiles(sections) /\ a \in Stored(sections) \ {t}
         /\ \A a \in Embedded(body) :
              /\ a \in Anchors /\ t \in Tiles(sections)
              /\ a \notin Stored(sections) => CurrentTiles(cascade) \subseteq Tiles(sections)
              /\ \/ Within(sections, a, t)
                 \/ /\ a \notin Stored(sections)
                    /\ \A v \in Tiles(sections) : sections[v].pos <= sections[t].pos
<1>0. /\ NodesInv(sections) /\ TilesInv(sections) /\ DocInv(sections)
      /\ PlansOK(cascade) /\ CutInv(cascade) /\ TileOfInv(cascade)
      /\ IsTidy(t, body) /\ t \in Anchors
  BY DEF Tidily, DocInv, PlanInv, Revises
<1>1. \A a \in Anchors : Within(sections, a, t) =>
        t \in Tiles(sections) /\ a \in Stored(sections) \ {t}
  <2>1. \A a \in Anchors : Within(sections, a, t) => t \in Tiles(sections)
    BY DEF Within, Revises, Stored
  <2> QED
    BY <1>0, <2>1, OneTile
<1>2. Tiles(sections) \subseteq CurrentTiles(cascade)
  BY <1>0, CurrentTilesAre
<1>3. ASSUME NEW a \in Embedded(body)
      PROVE  /\ a \in Anchors /\ t \in Tiles(sections)
             /\ a \notin Stored(sections) => CurrentTiles(cascade) \subseteq Tiles(sections)
             /\ \/ Within(sections, a, t)
                \/ /\ a \notin Stored(sections)
                   /\ \A v \in Tiles(sections) : sections[v].pos <= sections[t].pos
  <2>1. a \in Anchors
    <3>1. body \in Body
      BY TidyBodyIs DEF Revises
    <3> QED
      BY <3>1, PlacesAre
  <2>2. \/ Within(sections, a, t)
        \/ /\ sections[a] = NoSection /\ t \in Tiles(sections)
           /\ \A v \in CurrentTiles(cascade) :
                v \in Tiles(sections) /\ sections[v].pos <= sections[t].pos
    BY DEF Revises, IsTidy
  <2>3. CASE Within(sections, a, t)
    BY <1>1, <2>1, <2>3
  <2>4. CASE /\ sections[a] = NoSection /\ t \in Tiles(sections)
             /\ \A v \in CurrentTiles(cascade) :
                  v \in Tiles(sections) /\ sections[v].pos <= sections[t].pos
    <3>1. a \notin Stored(sections)
      BY <2>4 DEF Stored
    <3> QED
      BY <1>2, <2>1, <2>4, <3>1
  <2> QED
    BY <2>2, <2>3, <2>4
<1> QED
  BY <1>1, <1>3

LEMMA PlanTileDeletes ==
  ASSUME Tidily(cascade), NEW t, NEW body, Revises(t, body)
  PROVE  DeletesInv(PlanTile(cascade, t, body))
<1> DEFINE c == PlanTile(cascade, t, body)
<1>0. /\ NodesInv(sections) /\ TilesInv(sections) /\ DocInv(sections)
      /\ PlansOK(cascade) /\ CutInv(cascade) /\ TileOfInv(cascade) /\ DeletesInv(cascade)
  BY DEF Tidily, DocInv, PlanInv
<1>1. CutInto(c, t, body)
  BY PlanTileIs
<1>2. /\ CutOf(c) = CutOf(cascade) \cup {t}
      /\ \A u \in CutOf(cascade) \ {t} : c.planned[u] = cascade.planned[u]
  BY CutIs
<1> HIDE DEF c
<1>3. /\ c.planned[t].body = body
      /\ c.deletes = (cascade.deletes \cup Lost(t, body)) \ (Embedded(body) \cup {t})
  BY <1>1 DEF CutInto
<1>4. ASSUME NEW a \in Stored(sections), Within(sections, a, t), a \notin Embedded(body)
      PROVE  a \in c.deletes
  <2>1. a \in Anchors
    BY DEF Stored
  <2>2. a # t
    BY <1>4, <2>1, RevisedEmbeds
  <2>3. a \in Lost(t, body)
    BY <1>4, <2>1, <2>2 DEF Lost
  <2> QED
    BY <1>3, <1>4, <2>2, <2>3
<1>5. ASSUME NEW u \in CutOf(cascade) \ {t}, NEW a \in Stored(sections),
             Within(sections, a, u), a \notin Embedded(cascade.planned[u].body)
      PROVE  a \in c.deletes
  <2>1. a \in Anchors
    BY DEF Stored
  <2>2. u \in Tiles(sections)
    BY <1>0, <1>5, CurrentTilesAre DEF Within
  <2>3. a \notin Tiles(sections) /\ ~Within(sections, a, t)
    <3>1. a \notin Tiles(sections)
      BY <1>0, <1>5, <2>1, <2>2, OneTile
    <3>2. Within(sections, a, t) => t \in Tiles(sections)
      BY <2>1, RevisedEmbeds
    <3> QED
      BY <1>0, <1>5, <2>1, <2>2, <3>1, <3>2, OneTile
  <2>4. a # t
    BY <2>3 DEF Revises, Stored
  <2>5. a \notin Embedded(body)
    BY <2>3, RevisedEmbeds
  <2>6. a \in cascade.deletes
    BY <1>0, <1>5 DEF DeletesInv
  <2> QED
    BY <1>3, <2>4, <2>5, <2>6
<1>6. ASSUME NEW a \in c.deletes \cap Stored(sections)
      PROVE  \E u \in CutOf(c) : Within(sections, a, u)
  <2>1. CASE a \in cascade.deletes
    BY <1>0, <1>2, <2>1 DEF DeletesInv
  <2>2. CASE a \in Lost(t, body) /\ ~Within(sections, a, t)
    <3>1. a \in Anchors /\ cascade.tileOf[a] = t /\ t # NoTile
      BY <2>2 DEF Lost, Revises
    <3>2. sections[a] = NoSection \/ Within(sections, a, t)
      BY <1>0, <3>1, PlannedIs
    <3> QED
      BY <2>2, <3>2 DEF Stored
  <2>3. CASE Within(sections, a, t)
    BY <1>2, <2>3
  <2> QED
    BY <1>3, <2>1, <2>2, <2>3
<1>7. ASSUME NEW u \in CutOf(c), NEW a \in Stored(sections),
             Within(sections, a, u), a \notin Embedded(c.planned[u].body)
      PROVE  a \in c.deletes
  <2>1. CASE u = t
    BY <1>3, <1>4, <1>7, <2>1
  <2>2. CASE u # t
    BY <1>2, <1>5, <1>7, <2>2
  <2> QED
    BY <2>1, <2>2
<1> QED
  BY <1>6, <1>7 DEF DeletesInv, c

LEMMA PlanTileNews ==
  ASSUME Tidily(cascade), NEW t, NEW body, Revises(t, body)
  PROVE  NewInv(PlanTile(cascade, t, body))
<1> DEFINE c == PlanTile(cascade, t, body)
<1>0. /\ NodesInv(sections) /\ TilesInv(sections) /\ DocInv(sections)
      /\ PlansOK(cascade) /\ CutInv(cascade) /\ TileOfInv(cascade) /\ NewInv(cascade)
  BY DEF Tidily, DocInv, PlanInv
<1>1. CutInto(c, t, body)
  BY PlanTileIs
<1>2. /\ CutOf(c) = CutOf(cascade) \cup {t}
      /\ PlannedIn(c) \subseteq PlannedIn(cascade) \cup {t} \cup Embedded(body)
      /\ \A a \in PlannedIn(c) \ (Embedded(body) \cup {t}) :
           /\ a \in PlannedIn(cascade)
           /\ c.tileOf[a] = cascade.tileOf[a]
      /\ t \in PlannedIn(c) /\ Embedded(body) \cap CutOf(c) = {}
  BY CutIs
<1> HIDE DEF c
<1>3. \A a \in Embedded(body) : c.tileOf[a] = t
  BY <1>1 DEF CutInto
<1>4. \A a \in Embedded(body) \ Stored(sections) :
        /\ t \in Tiles(sections) /\ CurrentTiles(cascade) \subseteq Tiles(sections)
        /\ \A v \in Tiles(sections) : sections[v].pos <= sections[t].pos
  <2>1. \A a \in Anchors : Within(sections, a, t) => a \in Stored(sections)
    BY RevisedEmbeds
  <2> QED
    BY <2>1, RevisedEmbeds
<1>5. CASE t \notin Stored(sections)
  <2>1. Embedded(body) = {}
    BY <1>5, RevisedEmbeds DEF Tiles
  <2>2. PlannedIn(cascade) \subseteq Stored(sections) \cup {t}
    BY <1>5 DEF Revises, IsTidy
  <2>3. PlannedIn(c) \ Stored(sections) = {t}
    BY <1>2, <1>5, <2>1, <2>2
  <2> QED
    BY <1>2, <2>3 DEF NewInv, c
<1>6. CASE t \in Stored(sections)
  <2> SUFFICES ASSUME NEW a \in PlannedIn(c) \ Stored(sections)
               PROVE  IF a \in CutOf(c) THEN PlannedIn(c) \ Stored(sections) = {a}
                      ELSE /\ c.tileOf[a] \in Tiles(sections)
                           /\ \A v \in Tiles(sections) : sections[v].pos <= sections[c.tileOf[a]].pos
    BY DEF NewInv, c
  <2>1. CASE a \in Embedded(body)
    BY <1>2, <1>3, <1>4, <2>1
  <2>2. CASE a \notin Embedded(body)
    <3>1. /\ a \in PlannedIn(cascade) \ Stored(sections) /\ a # t
          /\ c.tileOf[a] = cascade.tileOf[a]
      BY <1>2, <1>6, <2>2
    <3>2. CASE a \in CutOf(cascade)
      <4>1. PlannedIn(cascade) \ Stored(sections) = {a}
        BY <1>0, <3>1, <3>2 DEF NewInv
      <4>2. a \in CurrentTiles(cascade) /\ a \notin Tiles(sections)
        BY <1>0, <3>1, <3>2, CurrentTilesAre DEF Tiles
      <4>3. Embedded(body) \subseteq Stored(sections)
        BY <1>4, <4>2
      <4>4. PlannedIn(c) \ Stored(sections) = {a}
        BY <1>2, <1>6, <3>1, <4>1, <4>3
      <4> QED
        BY <1>2, <3>2, <4>4
    <3>3. CASE a \notin CutOf(cascade)
      BY <1>0, <1>2, <3>1, <3>3 DEF NewInv
    <3> QED
      BY <3>2, <3>3
  <2> QED
    BY <2>1, <2>2
<1> QED
  BY <1>5, <1>6

\* The tiles after a write, and their bodies
LEMMA RevisedTilesAre ==
  ASSUME Tidily(cascade), NEW t, NEW body, Revises(t, body)
  PROVE  LET c == PlanTile(cascade, t, body)
         IN  /\ CurrentTiles(c) = CurrentTiles(cascade) \cup {t}
             /\ TileBody(c, t) = body
             /\ \A u \in CurrentTiles(cascade) \ {t} : TileBody(c, u) = TileBody(cascade, u)
<1> DEFINE c == PlanTile(cascade, t, body)
<1>0. /\ NodesInv(sections) /\ TilesInv(sections) /\ DocInv(sections)
      /\ PlansOK(cascade) /\ CutInv(cascade) /\ TileOfInv(cascade)
      /\ t \in Anchors /\ TidyBody(t, body)
  BY DEF Tidily, DocInv, PlanInv, Revises
<1>1. PlansOK(c) /\ CutInv(c) /\ TileOfInv(c)
  <2>1. body \in Body /\ body # <<>> /\ body[1].name = t
    BY <1>0, TidyBodyIs
  <2> QED
    BY <1>0, <2>1, PlanTileOK, PlanTileCuts
<1>2. CutInto(c, t, body)
  BY PlanTileIs
<1>3. /\ CutOf(c) = CutOf(cascade) \cup {t}
      /\ \A u \in CutOf(cascade) \ {t} : c.planned[u] = cascade.planned[u]
  BY CutIs
<1> HIDE DEF c
<1>4. CurrentTiles(c) = Tiles(sections) \cup CutOf(c)
  BY <1>0, <1>1, CurrentTilesAre
<1>5. CurrentTiles(c) = CurrentTiles(cascade) \cup {t}
  BY <1>0, <1>3, <1>4, CurrentTilesAre
<1>6. TileBody(c, t) = body
  <2>1. t \in PlannedIn(c)
    BY <1>3 DEF CutOf
  <2>2. c.planned[t].body = body
    BY <1>2 DEF CutInto
  <2> QED
    BY <2>1, <2>2 DEF TileBody
<1>7. ASSUME NEW u \in CurrentTiles(cascade) \ {t}
      PROVE  TileBody(c, u) = TileBody(cascade, u)
  <2>1. u \in CurrentTiles(c)
    BY <1>5
  <2>2. CASE u \in CutOf(cascade)
    <3>1. TileBody(cascade, u) = cascade.planned[u].body
      BY <1>0, <2>2, CurrentTilesAre
    <3>2. TileBody(c, u) = c.planned[u].body
      BY <1>0, <1>1, <1>3, <2>1, <2>2, CurrentTilesAre
    <3> QED
      BY <1>3, <2>2, <3>1, <3>2
  <2>3. CASE u \notin CutOf(cascade)
    <3>1. TileBody(cascade, u) = sections[u].body
      BY <1>0, <2>3, CurrentTilesAre
    <3>2. TileBody(c, u) = sections[u].body
      BY <1>0, <1>1, <1>3, <2>1, <2>3, CurrentTilesAre
    <3> QED
      BY <3>1, <3>2
  <2> QED
    BY <2>2, <2>3
<1> QED
  BY <1>5, <1>6, <1>7 DEF c

LEMMA PlanTileInv ==
  ASSUME Tidily(cascade), NEW t, NEW body, Revises(t, body)
  PROVE  PlanInv(PlanTile(cascade, t, body))
<1> DEFINE c == PlanTile(cascade, t, body)
<1>1. /\ CurrentTiles(c) = CurrentTiles(cascade) \cup {t}
      /\ TileBody(c, t) = body
      /\ \A u \in CurrentTiles(cascade) \ {t} : TileBody(c, u) = TileBody(cascade, u)
  BY RevisedTilesAre
<1>2. CutInv(c) /\ TileOfInv(c) /\ DeletesInv(c) /\ NewInv(c)
  BY PlanTileCuts, PlanTileDeletes, PlanTileNews
<1> HIDE DEF c
<1>3. \A u \in CurrentTiles(cascade) \ {t} :
        DefinedIn(TileBody(cascade, u)) \cap DefinedIn(body) = {}
  BY DEF Revises, IsTidy
<1>4. \A u, v \in CurrentTiles(cascade) :
        u # v => DefinedIn(TileBody(cascade, u)) \cap DefinedIn(TileBody(cascade, v)) = {}
  BY DEF Tidily, PlanInv, DistinctInv
<1>5. ASSUME NEW u \in CurrentTiles(c), NEW v \in CurrentTiles(c), u # v
      PROVE  DefinedIn(TileBody(c, u)) \cap DefinedIn(TileBody(c, v)) = {}
  <2>1. CASE u # t /\ v # t
    BY <1>1, <1>4, <1>5, <2>1
  <2>2. CASE u = t
    BY <1>1, <1>3, <1>5, <2>2
  <2>3. CASE v = t
    BY <1>1, <1>3, <1>5, <2>3
  <2> QED
    BY <2>1, <2>2, <2>3
<1> QED
  BY <1>2, <1>5 DEF PlanInv, DistinctInv, c

\* Where the batch has no tile of that name, it embeds the heading or it does not.
LEMMA EnclosedIs ==
  ASSUME Tidily(cascade), NEW a \in Anchors
  PROVE  /\ LevelOf(cascade, a) = 2 => a \in CurrentTiles(cascade)
         /\ LevelOf(cascade, a) = 0 =>
              a \notin PlannedIn(cascade) /\ a \notin Stored(sections) /\ a \notin CurrentTiles(cascade)
         /\ a \in CurrentTiles(cascade) => LevelOf(cascade, a) = 2
         /\ \A t \in EnclosingTiles(cascade, a) : t \in CurrentTiles(cascade)
<1>0. /\ NodesInv(sections) /\ DocInv(sections)
      /\ PlansOK(cascade) /\ CutInv(cascade) /\ TileOfInv(cascade)
  BY DEF Tidily, DocInv, PlanInv
<1>1. a \in Tiles(sections) <=> sections[a].level = 2
  BY <1>0, NodeIs
<1>2. a \in CurrentTiles(cascade) <=> LevelOf(cascade, a) = 2
  BY <1>1 DEF CurrentTiles, LevelOf
<1>3. ASSUME LevelOf(cascade, a) = 0
      PROVE  a \notin PlannedIn(cascade) /\ a \notin Stored(sections)
  <2>1. a \notin PlannedIn(cascade)
    BY <1>0, <1>3 DEF LevelOf, PlansOK, Deepest
  <2>2. sections[a].level = 0
    BY <1>3, <2>1 DEF LevelOf
  <2> QED
    BY <1>0, <2>1, <2>2 DEF NodesInv, Deepest
<1>4. ASSUME NEW t \in EnclosingTiles(cascade, a) PROVE t \in CurrentTiles(cascade)
  <2>1. (t = cascade.tileOf[a] /\ cascade.tileOf[a] # NoTile) \/ t \in Tiles(sections)
    BY <1>4 DEF EnclosingTiles
  <2>2. cascade.tileOf[a] # NoTile => cascade.tileOf[a] \in CutOf(cascade)
    BY <1>0, PlannedIs
  <2> QED
    BY <1>0, <2>1, <2>2, CurrentTilesAre
<1> QED
  BY <1>2, <1>3, <1>4

(* A write does to the plan what it does to the document.                   *)
LEMMA WriteDocument ==
  ASSUME TypeOK, Tidily(cascade), NEW narrative \in Narratives, NEW r \in Revisions(narrative),
         IsTidy(r.tile, r.body)
  PROVE  Written(PlanTile(cascade, r.tile, r.body)) = Revised(Written(cascade), narrative)
<1> DEFINE a == narrative[1].name
           t == r.tile
           c == PlanTile(cascade, t, r.body)
           tiles == CurrentTiles(cascade)
           doc == Written(cascade)
           Patched(body) == Replaced(body, Min(Places(body, a)), narrative)
           embedding == {u \in tiles : Places(doc.body[u], a) # {}}
<1>0. /\ NodesInv(sections) /\ DocInv(sections)
      /\ PlansOK(cascade) /\ CutInv(cascade) /\ TileOfInv(cascade)
      /\ a \in Anchors
  BY NarrativeIs DEF Tidily, DocInv, PlanInv
<1>1. Revises(t, r.body)
  BY RevisedTileIs DEF Revises
<1>2. /\ CurrentTiles(c) = tiles \cup {t}
      /\ TileBody(c, t) = r.body
      /\ \A u \in tiles \ {t} : TileBody(c, u) = TileBody(cascade, u)
  BY <1>1, RevisedTilesAre
<1>3. /\ Tiles(sections) \subseteq tiles
      /\ \A u \in tiles : TileBody(cascade, u) \in Body
  BY <1>0, CurrentTilesAre, TidyBodyIs
<1> DEFINE ordered == {p \in Tiles(sections) \X Tiles(sections) : sections[p[1]].pos < sections[p[2]].pos}
           O == ordered \cup (Tiles(sections) \X (tiles \ Tiles(sections)))
<1>4. /\ doc = [body |-> [u \in tiles |-> TileBody(cascade, u)], order |-> O]
      /\ DOMAIN doc.body = tiles /\ \A u \in tiles : doc.body[u] = TileBody(cascade, u)
      /\ doc.order = O
  BY DEF Written
<1>5. embedding = {u \in tiles : a \in Embedded(TileBody(cascade, u))}
  <2>1. ASSUME NEW u \in tiles
        PROVE  Places(doc.body[u], a) # {} <=> a \in Embedded(TileBody(cascade, u))
    <3>1. doc.body[u] = TileBody(cascade, u) /\ TileBody(cascade, u) \in Body
      BY <1>3, <1>4
    <3> HIDE DEF doc
    <3> QED
      BY <3>1, PlacesAre
  <2> HIDE DEF doc
  <2> QED
    BY <2>1
<1>6. Revised(doc, narrative) =
        IF a \notin tiles /\ embedding # {}
        THEN [doc EXCEPT !.body[CHOOSE u \in embedding : TRUE] = Patched(@)]
        ELSE [body  |-> [u \in tiles \cup {a} |-> IF u = a THEN narrative ELSE doc.body[u]],
              order |-> doc.order \cup (IF a \in tiles THEN {} ELSE tiles \X {a})]
  BY <1>4 DEF Revised
<1> HIDE DEF c, doc, embedding
<1>7. \/ r = [tile |-> a, body |-> narrative] /\ LevelOf(cascade, a) \in {0, 2}
      \/ /\ t \in EnclosingTiles(cascade, a) /\ Places(TileBody(cascade, t), a) # {}
         /\ r.body = Patched(TileBody(cascade, t))
         /\ LevelOf(cascade, a) # 2
  BY DEF Revisions
<1>8. CASE r = [tile |-> a, body |-> narrative] /\ LevelOf(cascade, a) = 2
  <2>1. a \in tiles /\ t = a /\ r.body = narrative
    BY <1>0, <1>8, EnclosedIs
  <2>2. Revised(doc, narrative) =
          [body  |-> [u \in tiles |-> IF u = a THEN narrative ELSE doc.body[u]],
           order |-> O]
    <3>1. tiles \cup {a} = tiles
      BY <2>1
    <3> HIDE DEF O
    <3> QED
      BY <1>4, <1>6, <2>1, <3>1
  <2>3. CurrentTiles(c) = tiles
    BY <1>2, <2>1
  <2>4. [u \in tiles |-> TileBody(c, u)] = [u \in tiles |-> IF u = a THEN narrative ELSE doc.body[u]]
    BY <1>2, <1>4, <2>1
  <2>5. Written(c) = [body |-> [u \in tiles |-> TileBody(c, u)], order |-> O]
    BY <2>3 DEF Written
  <2> QED
    BY <2>2, <2>4, <2>5 DEF c, doc
<1>9. CASE r = [tile |-> a, body |-> narrative] /\ LevelOf(cascade, a) = 0
  <2>1. /\ a \notin PlannedIn(cascade) /\ a \notin Stored(sections) /\ a \notin tiles
        /\ t = a /\ r.body = narrative
    BY <1>0, <1>9, EnclosedIs
  <2>2. embedding = {}
    <3>1. ASSUME NEW u \in tiles, a \in Embedded(TileBody(cascade, u)) PROVE FALSE
      <4>1. a \in Stored(Flushed)
        BY <3>1, EmbeddedAre
      <4> QED
        BY <1>0, <2>1, <4>1, FlushedIs
    <3> QED
      BY <1>5, <3>1
  <2>3. tiles = Tiles(sections)
    <3>1. PlannedIn(cascade) \subseteq Stored(sections) \cup {a}
      BY <1>1, <2>1 DEF Revises, IsTidy
    <3>2. CutOf(cascade) \subseteq Stored(sections)
      BY <2>1, <3>1 DEF CutOf
    <3> QED
      BY <1>0, <3>2, CurrentTilesAre
  <2>4. Revised(doc, narrative) =
          [body  |-> [u \in tiles \cup {a} |-> IF u = a THEN narrative ELSE doc.body[u]],
           order |-> O \cup (tiles \X {a})]
    <3> HIDE DEF O
    <3> QED
      BY <1>4, <1>6, <2>1, <2>2
  <2>5. [u \in tiles \cup {a} |-> TileBody(c, u)] =
          [u \in tiles \cup {a} |-> IF u = a THEN narrative ELSE doc.body[u]]
    BY <1>2, <1>4, <2>1
  <2>6. Written(c) = [body  |-> [u \in tiles \cup {a} |-> TileBody(c, u)],
                      order |-> ordered \cup (Tiles(sections) \X ((tiles \cup {a}) \ Tiles(sections)))]
    BY <1>2, <2>1 DEF Written
  <2>7. ordered \cup (Tiles(sections) \X ((tiles \cup {a}) \ Tiles(sections))) = O \cup (tiles \X {a})
    <3>1. a \notin Tiles(sections)
      BY <2>1, <2>3
    <3>2. (tiles \cup {a}) \ Tiles(sections) = {a} /\ tiles \ Tiles(sections) = {}
      BY <2>3, <3>1
    <3>3. O = ordered
      BY <3>2
    <3> HIDE DEF O, ordered
    <3> QED
      BY <2>3, <3>2, <3>3
  <2> QED
    BY <2>4, <2>5, <2>6, <2>7 DEF c, doc
<1>10. CASE /\ t \in EnclosingTiles(cascade, a) /\ Places(TileBody(cascade, t), a) # {}
            /\ r.body = Patched(TileBody(cascade, t))
            /\ LevelOf(cascade, a) # 2
  <2>1. t \in tiles /\ a \notin tiles
    BY <1>0, <1>10, EnclosedIs
  <2>2. t \in embedding
    <3>1. a \in Embedded(TileBody(cascade, t))
      BY <1>3, <1>10, <2>1, PlacesAre
    <3> QED
      BY <1>5, <2>1, <3>1
  <2>3. \A u \in embedding : u = t
    BY <1>0, <1>5, <2>2, OneEmbeds
  <2>4. (CHOOSE u \in embedding : TRUE) = t
    BY <2>2, <2>3
  <2>5. Revised(doc, narrative) = [doc EXCEPT !.body[t] = Patched(doc.body[t])]
    BY <1>6, <2>1, <2>2, <2>4
  <2>6. doc.body[t] = TileBody(cascade, t)
    BY <1>4, <2>1
  <2>7. CurrentTiles(c) = tiles
    BY <1>2, <2>1
  <2>8. Written(c) = [body |-> [u \in tiles |-> TileBody(c, u)], order |-> O]
    BY <2>7 DEF Written
  <2> DEFINE B == [u \in tiles |-> TileBody(cascade, u)]
  <2>9. [u \in tiles |-> TileBody(c, u)] = [B EXCEPT ![t] = r.body]
    BY <1>2, <2>1
  <2>10. [doc EXCEPT !.body[t] = r.body] = [body |-> [B EXCEPT ![t] = r.body], order |-> O]
    <3>1. doc = [body |-> B, order |-> O]
      BY <1>4
    <3> HIDE DEF B, O
    <3> QED
      BY <3>1
  <2> QED
    BY <1>10, <2>5, <2>6, <2>8, <2>9, <2>10 DEF c, doc
<1> QED
  BY <1>7, <1>8, <1>9, <1>10

\* Nothing is planned at the beginning of a batch.
LEMMA NothingPlanned ==
  ASSUME DocInv(sections)
  PROVE  PlanInv(NoCascade) /\ Written(NoCascade) = Export(sections)
<1>1. PlannedIn(NoCascade) = {} /\ CutOf(NoCascade) = {}
  BY NoCascadeOK DEF CutOf
<1>2. \A a \in Anchors : NoCascade.tileOf[a] = NoTile
  BY DEF NoCascade
<1>3. NoCascade.deletes = {}
  BY DEF NoCascade
<1>4. CurrentTiles(NoCascade) = Tiles(sections)
  BY <1>1 DEF CurrentTiles, Tiles, Stored
<1>5. \A t : TileBody(NoCascade, t) = sections[t].body
  BY <1>1 DEF TileBody
<1>6. CutInv(NoCascade) /\ TileOfInv(NoCascade) /\ DeletesInv(NoCascade) /\ NewInv(NoCascade)
  BY <1>1, <1>2, <1>3 DEF CutInv, TileOfInv, DeletesInv, NewInv
<1>7. DistinctInv(NoCascade)
  BY <1>4, <1>5 DEF DistinctInv, DocInv, TilesInv
<1>8. Written(NoCascade) = Export(sections)
  BY <1>4, <1>5 DEF Written, Export
<1> QED
  BY <1>6, <1>7, <1>8 DEF PlanInv

-----------------------------------------------------------------------------
(* Sections within sections *)

LEMMA SpanEndUnique ==
  ASSUME NEW body \in Body, NEW i \in HeadingsOf(body), NEW m \in i..Len(body),
         \A k \in HeadingsOf(body) : i < k /\ k <= m => body[k].level > body[i].level,
         m < Len(body) => m + 1 \in HeadingsOf(body) /\ body[m + 1].level <= body[i].level
  PROVE  SpanEnd(body, i) = m
<1> DEFINE n == SpanEnd(body, i)
<1>1. Len(body) \in Nat /\ i \in Nat /\ m \in Nat /\ m >= i /\ m <= Len(body)
  BY HeadingIs
<1>2. \A k \in HeadingsOf(body) : body[k].level \in Nat
  BY HeadingIs DEF Deepest
<1>3. /\ n \in i..Len(body)
      /\ \A k \in HeadingsOf(body) : i < k /\ k <= n => body[k].level > body[i].level
      /\ n < Len(body) => n + 1 \in HeadingsOf(body) /\ body[n + 1].level <= body[i].level
  BY SpanEndIs
<1> HIDE DEF n
<1>4. n \in Nat /\ n >= i /\ n <= Len(body)
  BY <1>1, <1>3
<1>5. ASSUME n < m PROVE FALSE
  <2>1. n + 1 \in HeadingsOf(body) /\ body[n + 1].level <= body[i].level /\ i < n + 1 /\ n + 1 <= m
    BY <1>1, <1>3, <1>4, <1>5
  <2> QED
    BY <1>2, <2>1
<1>6. ASSUME m < n PROVE FALSE
  <2>1. m + 1 \in HeadingsOf(body) /\ body[m + 1].level <= body[i].level /\ i < m + 1 /\ m + 1 <= n
    BY <1>1, <1>4, <1>6
  <2> QED
    BY <1>2, <1>3, <2>1
<1> QED
  BY <1>1, <1>4, <1>5, <1>6 DEF n

\* The headings of a slice, and the span of each of them
LEMMA SliceHeadings ==
  ASSUME NEW body \in Body, NEW i \in HeadingsOf(body)
  PROVE  \A k : k \in HeadingsOf(Slice(body, i)) <=>
                  /\ k \in 1..SpanEnd(body, i) - i + 1
                  /\ i + k - 1 \in HeadingsOf(body)
<1> DEFINE s == Slice(body, i)
           m == SpanEnd(body, i)
<1>1. Len(body) \in Nat /\ i \in 1..Len(body) /\ m \in i..Len(body) /\ DOMAIN body = 1..Len(body)
  BY HeadingIs, SpanEndIs
<1>2. /\ s \in Body /\ Len(s) = m - i + 1
      /\ \A k \in 1..m - i + 1 : s[k] = body[i + k - 1]
  BY SliceIs DEF Headed
<1>3. DOMAIN s = 1..m - i + 1
  BY <1>2 DEF Body
<1> HIDE DEF s, m
<1>4. \A k \in 1..m - i + 1 : i + k - 1 \in 1..Len(body)
  BY <1>1
<1>5. \A k : k \in HeadingsOf(s) <=> k \in 1..m - i + 1 /\ i + k - 1 \in HeadingsOf(body)
  BY <1>1, <1>2, <1>3, <1>4 DEF HeadingsOf
<1> QED
  BY <1>5 DEF s, m

(* A section that is cut from a section is the one that is cut from the      *)
(* whole.                                                                   *)
LEMMA SliceOfSlice ==
  ASSUME NEW body \in Body, NEW i \in HeadingsOf(body), NEW j \in HeadingsOf(body),
         i <= j, j <= SpanEnd(body, i)
  PROVE  /\ j - i + 1 \in HeadingsOf(Slice(body, i))
         /\ Slice(body, i)[j - i + 1] = body[j]
         /\ Slice(Slice(body, i), j - i + 1) = Slice(body, j)
<1> DEFINE s == Slice(body, i)
           m == SpanEnd(body, i)
           n == SpanEnd(body, j)
           k == j - i + 1
<1>1. /\ Len(body) \in Nat /\ i \in 1..Len(body) /\ j \in 1..Len(body)
      /\ \A q \in HeadingsOf(body) : body[q].level \in Nat /\ q \in 1..Len(body)
  BY HeadingIs DEF Deepest
<1>2. /\ m \in i..Len(body)
      /\ \A q \in HeadingsOf(body) : i < q /\ q <= m => body[q].level > body[i].level
      /\ m < Len(body) => m + 1 \in HeadingsOf(body) /\ body[m + 1].level <= body[i].level
  BY SpanEndIs
<1>3. /\ n \in j..Len(body)
      /\ \A q \in HeadingsOf(body) : j < q /\ q <= n => body[q].level > body[j].level
      /\ n < Len(body) => n + 1 \in HeadingsOf(body) /\ body[n + 1].level <= body[j].level
  BY SpanEndIs
<1>4. /\ s \in Body /\ Len(s) = m - i + 1
      /\ \A q \in 1..m - i + 1 : s[q] = body[i + q - 1]
  BY SliceIs DEF Headed
<1>5. \A q : q \in HeadingsOf(s) <=> q \in 1..m - i + 1 /\ i + q - 1 \in HeadingsOf(body)
  BY SliceHeadings
<1>6. j <= m
  OBVIOUS
<1> HIDE DEF s, m, n
<1>7. m \in Nat /\ n \in Nat /\ k \in Nat /\ k >= 1 /\ k <= m - i + 1 /\ i + k - 1 = j
  BY <1>1, <1>2, <1>3, <1>6
<1>8. n <= m
  <2> SUFFICES ASSUME m < n PROVE FALSE
    BY <1>7
  <2>1. m < Len(body) /\ m + 1 <= n
    BY <1>1, <1>3, <1>7
  <2>2. m + 1 \in HeadingsOf(body) /\ body[m + 1].level <= body[i].level /\ j < m + 1
    BY <1>1, <1>2, <1>6, <1>7, <2>1
  <2>3. body[m + 1].level > body[j].level
    BY <1>3, <2>1, <2>2
  <2>4. body[j].level >= body[i].level
    <3>1. CASE i = j
      BY <1>1, <3>1
    <3>2. CASE i # j
      <4>1. i < j
        BY <1>1, <3>2
      <4> QED
        BY <1>1, <1>2, <1>6, <4>1
    <3> QED
      BY <3>1, <3>2
  <2>5. body[m + 1].level \in Nat /\ body[i].level \in Nat /\ body[j].level \in Nat
    BY <1>1, <2>2
  <2> QED
    BY <2>2, <2>3, <2>4, <2>5
<1>9. s[k] = body[j] /\ k \in HeadingsOf(s)
  BY <1>4, <1>5, <1>7
<1>10. SpanEnd(s, k) = n - i + 1
  <2> DEFINE e == n - i + 1
  <2>1. e \in k..Len(s)
    BY <1>1, <1>3, <1>4, <1>7, <1>8
  <2>2. ASSUME NEW q \in HeadingsOf(s), k < q, q <= e
        PROVE  s[q].level > s[k].level
    <3>1. q \in 1..m - i + 1 /\ i + q - 1 \in HeadingsOf(body)
      BY <1>5
    <3>2. j < i + q - 1 /\ i + q - 1 <= n
      BY <1>1, <1>7, <2>2, <3>1
    <3>3. s[q] = body[i + q - 1]
      BY <1>4, <3>1
    <3> QED
      BY <1>3, <1>9, <3>1, <3>2, <3>3
  <2>3. ASSUME e < Len(s)
        PROVE  e + 1 \in HeadingsOf(s) /\ s[e + 1].level <= s[k].level
    <3>1. n < m /\ n < Len(body)
      BY <1>1, <1>2, <1>4, <1>7, <2>3
    <3>2. n + 1 \in HeadingsOf(body) /\ body[n + 1].level <= body[j].level
      BY <1>3, <3>1
    <3>3. e + 1 \in 1..m - i + 1 /\ i + (e + 1) - 1 = n + 1
      BY <1>1, <1>3, <1>7, <3>1
    <3>4. e + 1 \in HeadingsOf(s)
      BY <1>5, <3>2, <3>3
    <3>5. s[e + 1] = body[n + 1]
      BY <1>4, <3>3
    <3> QED
      BY <1>9, <3>2, <3>4, <3>5
  <2> HIDE DEF e
  <2>4. SpanEnd(s, k) = e
    BY <1>4, <1>9, <2>1, <2>2, <2>3, SpanEndUnique
  <2> QED
    BY <2>4 DEF e
<1>11. Slice(s, k) = Slice(body, j)
  <2>1. /\ Slice(s, k) \in Seq(Lines) /\ Len(Slice(s, k)) = (n - i + 1) - k + 1
        /\ \A q \in 1..(n - i + 1) - k + 1 : Slice(s, k)[q] = s[k + q - 1]
    BY <1>4, <1>9, <1>10, SliceIs DEF Headed, Body
  <2>2. /\ Slice(body, j) \in Seq(Lines) /\ Len(Slice(body, j)) = n - j + 1
        /\ \A q \in 1..n - j + 1 : Slice(body, j)[q] = body[j + q - 1]
    BY SliceIs DEF Headed, Body, n
  <2>3. (n - i + 1) - k + 1 = n - j + 1
    BY <1>1, <1>7
  <2>4. ASSUME NEW q \in 1..n - j + 1
        PROVE  Slice(s, k)[q] = Slice(body, j)[q]
    <3>1. k + q - 1 \in 1..m - i + 1 /\ i + (k + q - 1) - 1 = j + q - 1
      BY <1>1, <1>3, <1>7, <1>8
    <3> QED
      BY <1>4, <2>1, <2>2, <2>3, <3>1
  <2> QED
    BY <2>1, <2>2, <2>3, <2>4, SeqEqual
<1> QED
  BY <1>9, <1>11 DEF s

-----------------------------------------------------------------------------
(* The graph of a tidy text *)

Rank(text, i) == Cardinality({k \in HeadingsOf(text) : k < i})

LEMMA TidyTextIs ==
  ASSUME NEW text \in InitialTexts, IsTidyText(text)
  PROVE  /\ text \in Body /\ 1 \in HeadingsOf(text) /\ text[1].level = 2
         /\ \A i \in HeadingsOf(text) : i \in Nat /\ i >= 1 /\ text[i].name \in Anchors
         /\ \A i, j \in HeadingsOf(text) : text[i].name = text[j].name => i = j
         /\ \A i \in HeadingsOf(text) :
              /\ text[i].name \in Stored(Extracted(text))
              /\ Extracted(text)[text[i].name] =
                   [level |-> text[i].level, pos |-> Rank(text, i), body |-> Slice(text, i)]
         /\ \A a \in Stored(Extracted(text)) : \E i \in HeadingsOf(text) : text[i].name = a
<1>1. text \in Body /\ 1 \in HeadingsOf(text) /\ text[1].level = 2
  BY NarrativeIs DEF IsTidyText
<1>2. \A i \in HeadingsOf(text) :
        i \in Nat /\ i >= 1 /\ text[i].name \in Anchors /\ text[i].level \in 2..Deepest
  BY <1>1, HeadingIs
<1>3. \A i, j \in HeadingsOf(text) : text[i].name = text[j].name => i = j
  <2>1. \A i, j \in HeadingsOf(text) : i < j => text[i].name # text[j].name
    BY DEF IsTidyText
  <2> QED
    BY <1>2, <2>1
<1>4. Firsts(text) = HeadingsOf(text)
  BY <1>2, <1>3 DEF Firsts
<1>5. ASSUME NEW i \in HeadingsOf(text)
      PROVE  /\ text[i].name \in Stored(Extracted(text))
             /\ Extracted(text)[text[i].name] =
                  [level |-> text[i].level, pos |-> Rank(text, i), body |-> Slice(text, i)]
  <2> DEFINE a == text[i].name
  <2>1. a \in Anchors
    BY <1>2
  <2>2. \E j \in Firsts(text) : text[j].name = a
    BY <1>4
  <2>3. PICK j \in Firsts(text) :
          /\ text[j].name = a
          /\ Extracted(text)[a] = [level |-> text[j].level,
                                   pos   |-> Cardinality({k \in Firsts(text) : k < j}),
                                   body  |-> Slice(text, j)]
    BY <2>1, <2>2, ExtractedIs
  <2>4. j = i
    BY <1>3, <1>4, <2>3
  <2>5. Extracted(text)[a] = [level |-> text[i].level, pos |-> Rank(text, i), body |-> Slice(text, i)]
    BY <1>4, <2>3, <2>4 DEF Rank
  <2>6. text[i].level # 0
    BY <1>2 DEF Deepest
  <2>7. Extracted(text)[a] # NoSection
    BY <2>5, <2>6 DEF NoSection
  <2> QED
    BY <2>1, <2>5, <2>7 DEF Stored
<1>6. ASSUME NEW a \in Stored(Extracted(text))
      PROVE  \E i \in HeadingsOf(text) : text[i].name = a
  <2>1. a \in Anchors /\ Extracted(text)[a] # NoSection
    BY DEF Stored
  <2>2. \E i \in Firsts(text) : text[i].name = a
    BY <2>1, ExtractedIs
  <2> QED
    BY <1>4, <2>2
<1> QED
  BY <1>1, <1>2, <1>3, <1>5, <1>6

LEMMA RankIs ==
  ASSUME NEW text \in Body, NEW i \in HeadingsOf(text), NEW j \in HeadingsOf(text)
  PROVE  Rank(text, i) \in Nat /\ Rank(text, j) \in Nat /\ (Rank(text, i) < Rank(text, j) <=> i < j)
<1> DEFINE S(k) == {q \in HeadingsOf(text) : q < k}
<1>0. \A k \in HeadingsOf(text) : k \in Nat
  BY HeadingIs
<1>1. IsFiniteSet(HeadingsOf(text))
  <2>1. HeadingsOf(text) \subseteq 1..Len(text) /\ Len(text) \in Int /\ 1 \in Int
    BY HeadingIs
  <2>2. IsFiniteSet(1..Len(text))
    BY <2>1, FS_Interval
  <2> QED
    BY <2>1, <2>2, FS_Subset
<1>2. ASSUME NEW k \in HeadingsOf(text)
      PROVE  IsFiniteSet(S(k)) /\ Cardinality(S(k)) \in Nat
  <2>1. S(k) \in SUBSET HeadingsOf(text)
    OBVIOUS
  <2>2. IsFiniteSet(S(k))
    BY <1>1, <2>1, FS_Subset
  <2> QED
    BY <2>2, FS_CardinalityType
<1>3. ASSUME NEW k \in HeadingsOf(text), NEW q \in HeadingsOf(text), k < q
      PROVE  Cardinality(S(k)) < Cardinality(S(q))
  <2>1. S(k) \in SUBSET S(q)
    BY <1>0, <1>3
  <2>2. k \in S(q) /\ k \notin S(k)
    BY <1>0, <1>3
  <2>3. S(q) # S(k)
    BY <2>2
  <2>4. IsFiniteSet(S(q)) /\ Cardinality(S(k)) \in Nat /\ Cardinality(S(q)) \in Nat
    BY <1>2
  <2> HIDE DEF S
  <2>5. Cardinality(S(k)) <= Cardinality(S(q)) /\ Cardinality(S(k)) # Cardinality(S(q))
    BY <2>1, <2>3, <2>4, FS_Subset
  <2> QED
    BY <2>4, <2>5
<1>4. \A k \in HeadingsOf(text) : Rank(text, k) = Cardinality(S(k))
  BY DEF Rank
<1> HIDE DEF S
<1>5. Cardinality(S(i)) \in Nat /\ Cardinality(S(j)) \in Nat
  BY <1>2
<1>6. i = j \/ i < j \/ j < i
  BY <1>0
<1>7. CASE i = j
  BY <1>0, <1>4, <1>5, <1>7
<1>8. CASE i < j
  BY <1>0, <1>3, <1>4, <1>5, <1>8
<1>9. CASE j < i
  <2>1. Cardinality(S(j)) < Cardinality(S(i))
    BY <1>3, <1>9
  <2> QED
    BY <1>0, <1>4, <1>5, <1>9, <2>1
<1> QED
  BY <1>6, <1>7, <1>8, <1>9

\* Every heading is in the span of one of level 2, the last before it.
LEMMA SpannedIs ==
  ASSUME NEW text \in InitialTexts, IsTidyText(text), NEW j \in HeadingsOf(text)
  PROVE  \E i \in HeadingsOf(text) : text[i].level = 2 /\ i <= j /\ j <= SpanEnd(text, i)
<1> DEFINE T == {i \in HeadingsOf(text) : text[i].level = 2 /\ i <= j}
<1>0. text \in Body /\ 1 \in HeadingsOf(text) /\ text[1].level = 2
  BY TidyTextIs
<1>1. /\ Len(text) \in Nat
      /\ \A k \in HeadingsOf(text) : k \in 1..Len(text) /\ text[k].level \in 2..Deepest
  BY <1>0, HeadingIs
<1>2. T \subseteq Nat /\ T # {}
  BY <1>0, <1>1
<1>3. IsFiniteSet(T)
  <2>1. T \subseteq 1..Len(text) /\ Len(text) \in Int /\ 1 \in Int
    BY <1>1
  <2>2. IsFiniteSet(1..Len(text))
    BY <2>1, FS_Interval
  <2> HIDE DEF T
  <2> QED
    BY <2>1, <2>2, FS_Subset
<1>4. PICK i \in T : \A k \in T : k <= i
  <2> HIDE DEF T
  <2> QED
    BY <1>2, <1>3, MaxIs
<1>5. i \in HeadingsOf(text) /\ text[i].level = 2 /\ i <= j
  OBVIOUS
<1> DEFINE m == SpanEnd(text, i)
<1>6. m \in i..Len(text) /\ (m < Len(text) => m + 1 \in HeadingsOf(text) /\ text[m + 1].level <= 2)
  BY <1>0, <1>5, SpanEndIs
<1> HIDE DEF m
<1>7. ASSUME m < j PROVE FALSE
  <2>1. m < Len(text) /\ m + 1 <= j /\ m + 1 > i
    BY <1>1, <1>5, <1>6, <1>7
  <2>2. m + 1 \in HeadingsOf(text) /\ text[m + 1].level <= 2
    BY <1>6, <2>1
  <2>3. text[m + 1].level = 2
    <3>1. text[m + 1].level \in 2..Deepest
      BY <1>1, <2>2
    <3> QED
      BY <2>2, <3>1 DEF Deepest
  <2>4. m + 1 <= i
    BY <1>4, <2>1, <2>2, <2>3
  <2> QED
    BY <1>1, <1>5, <1>6, <2>1, <2>4
<1>8. j <= m
  BY <1>1, <1>5, <1>6, <1>7
<1> QED
  BY <1>5, <1>8 DEF m

\* The tiles are the sections of level 2, and embed the headings in their span.
LEMMA ExtractedTiles ==
  ASSUME NEW text \in InitialTexts, IsTidyText(text)
  PROVE  /\ \A t \in Tiles(Extracted(text)) :
              \E i \in HeadingsOf(text) : text[i].name = t /\ text[i].level = 2
         /\ \A i \in HeadingsOf(text) : text[i].level = 2 =>
              /\ text[i].name \in Tiles(Extracted(text))
              /\ \A a \in Embedded(Slice(text, i)) :
                   \E j \in HeadingsOf(text) : text[j].name = a /\ i < j /\ j <= SpanEnd(text, i)
              /\ \A j \in HeadingsOf(text) : i < j /\ j <= SpanEnd(text, i) =>
                   text[j].level > 2 /\ text[j].name \in Embedded(Slice(text, i))
<1> DEFINE X == Extracted(text)
<1>0. /\ text \in Body
      /\ \A i \in HeadingsOf(text) : i \in Nat /\ i >= 1
  BY TidyTextIs
<1>1. \A i \in HeadingsOf(text) : text[i].name \in Stored(X) /\ X[text[i].name].level = text[i].level
  <2> SUFFICES ASSUME NEW i \in HeadingsOf(text)
               PROVE  text[i].name \in Stored(X) /\ X[text[i].name].level = text[i].level
    OBVIOUS
  <2>1. /\ text[i].name \in Stored(X)
        /\ X[text[i].name] =
             [level |-> text[i].level, pos |-> Rank(text, i), body |-> Slice(text, i)]
    BY TidyTextIs
  <2> QED
    BY <2>1
<1>2. \A a \in Stored(X) : \E i \in HeadingsOf(text) : text[i].name = a
  BY TidyTextIs
<1> HIDE DEF X
<1>3. ASSUME NEW t \in Tiles(X)
      PROVE  \E i \in HeadingsOf(text) : text[i].name = t /\ text[i].level = 2
  BY <1>1, <1>2 DEF Tiles
<1>4. ASSUME NEW i \in HeadingsOf(text), text[i].level = 2
      PROVE  /\ text[i].name \in Tiles(X)
             /\ \A a \in Embedded(Slice(text, i)) :
                  \E j \in HeadingsOf(text) : text[j].name = a /\ i < j /\ j <= SpanEnd(text, i)
             /\ \A j \in HeadingsOf(text) : i < j /\ j <= SpanEnd(text, i) =>
                  text[j].level > 2 /\ text[j].name \in Embedded(Slice(text, i))
  <2>1. text[i].name \in Tiles(X)
    BY <1>1, <1>4 DEF Tiles
  <2>2. /\ \A k \in 1..SpanEnd(text, i) - i + 1 : Slice(text, i)[k] = text[i + k - 1]
        /\ SpanEnd(text, i) \in Nat
    <3>1. Len(text) \in Nat /\ i \in Nat
      BY <1>0, HeadingIs
    <3>2. SpanEnd(text, i) \in i..Len(text)
      BY <1>0, SpanEndIs
    <3> QED
      BY <1>0, <3>1, <3>2, SliceIs
  <2>3. ASSUME NEW a \in Embedded(Slice(text, i))
        PROVE  \E j \in HeadingsOf(text) : text[j].name = a /\ i < j /\ j <= SpanEnd(text, i)
    <3>1. PICK k \in HeadingsOf(Slice(text, i)) : k > 1 /\ Slice(text, i)[k].name = a
      BY DEF Embedded
    <3>2. k \in 1..SpanEnd(text, i) - i + 1 /\ i + k - 1 \in HeadingsOf(text)
      BY <1>0, SliceHeadings
    <3>3. text[i + k - 1].name = a
      BY <2>2, <3>1, <3>2
    <3>4. i < i + k - 1 /\ i + k - 1 <= SpanEnd(text, i)
      BY <1>0, <2>2, <3>1, <3>2
    <3> QED
      BY <3>2, <3>3, <3>4
  <2>4. ASSUME NEW j \in HeadingsOf(text), i < j, j <= SpanEnd(text, i)
        PROVE  text[j].level > 2 /\ text[j].name \in Embedded(Slice(text, i))
    <3>1. text[j].level > 2
      BY <1>0, <1>4, <2>4, SpanEndIs
    <3>2. i <= j
      BY <1>0, <2>4
    <3>3. j - i + 1 \in HeadingsOf(Slice(text, i)) /\ Slice(text, i)[j - i + 1] = text[j]
      BY <1>0, <2>4, <3>2, SliceOfSlice
    <3>4. j - i + 1 > 1
      BY <1>0, <2>4
    <3> QED
      BY <3>1, <3>3, <3>4 DEF Embedded
  <2> QED
    BY <2>1, <2>3, <2>4
<1> QED
  BY <1>3, <1>4 DEF X

LEMMA ExtractedDoc ==
  ASSUME NEW text \in InitialTexts, IsTidyText(text)
  PROVE  DocInv(Extracted(text))
<1> DEFINE X == Extracted(text)
<1>0. /\ text \in Body
      /\ \A i, j \in HeadingsOf(text) : text[i].name = text[j].name => i = j
  BY TidyTextIs
<1>1. \A i \in HeadingsOf(text) : i \in Nat /\ i >= 1 /\ text[i].name \in Anchors
  BY TidyTextIs
<1>2. ASSUME NEW i \in HeadingsOf(text)
      PROVE  /\ text[i].name \in Stored(X)
             /\ X[text[i].name].level = text[i].level
             /\ X[text[i].name].pos = Rank(text, i)
             /\ X[text[i].name].body = Slice(text, i)
  <2>1. /\ text[i].name \in Stored(X)
        /\ X[text[i].name] =
             [level |-> text[i].level, pos |-> Rank(text, i), body |-> Slice(text, i)]
    BY TidyTextIs
  <2> QED
    BY <2>1
<1>3. \A a \in Stored(X) : \E i \in HeadingsOf(text) : text[i].name = a
  BY TidyTextIs
<1>4. \A t \in Tiles(X) : \E i \in HeadingsOf(text) : text[i].name = t /\ text[i].level = 2
  BY ExtractedTiles
<1>5. ASSUME NEW i \in HeadingsOf(text), text[i].level = 2
      PROVE  /\ text[i].name \in Tiles(X)
             /\ \A a \in Embedded(Slice(text, i)) :
                  \E j \in HeadingsOf(text) : text[j].name = a /\ i < j /\ j <= SpanEnd(text, i)
             /\ \A j \in HeadingsOf(text) : i < j /\ j <= SpanEnd(text, i) =>
                  text[j].level > 2 /\ text[j].name \in Embedded(Slice(text, i))
  BY <1>5, ExtractedTiles
<1>6. \A i, j \in HeadingsOf(text) : Rank(text, i) < Rank(text, j) <=> i < j
  BY <1>0, RankIs
<1>7. NodesOK(X)
  BY ExtractedOK
<1> HIDE DEF X
<1>8. NodesInv(X)
  <2> SUFFICES ASSUME NEW a \in Stored(X)
               PROVE  X[a].level \in 2..Deepest /\ Headed(X[a].level, a, X[a].body)
    BY <1>7 DEF NodesInv
  <2>1. PICK i \in HeadingsOf(text) : text[i].name = a
    BY <1>3
  <2> QED
    BY <1>0, <1>2, <2>1, HeadingIs, SliceIs
\* the slice of a tile
<1>9. ASSUME NEW i \in HeadingsOf(text), NEW k \in HeadingsOf(Slice(text, i))
      PROVE  /\ i + k - 1 \in HeadingsOf(text) /\ Slice(text, i)[k] = text[i + k - 1]
             /\ i <= i + k - 1 /\ i + k - 1 <= SpanEnd(text, i) /\ k \in Nat /\ k >= 1
  <2>1. SpanEnd(text, i) \in Nat /\ i \in Nat
    <3>1. Len(text) \in Nat /\ SpanEnd(text, i) \in i..Len(text)
      BY <1>0, HeadingIs, SpanEndIs
    <3> QED
      BY <1>1, <3>1
  <2>2. k \in 1..SpanEnd(text, i) - i + 1 /\ i + k - 1 \in HeadingsOf(text)
    BY <1>0, SliceHeadings
  <2>3. Slice(text, i)[k] = text[i + k - 1]
    <3>1. \A q \in 1..SpanEnd(text, i) - i + 1 : Slice(text, i)[q] = text[i + q - 1]
      BY <1>0, SliceIs
    <3> QED
      BY <2>2, <3>1
  <2> QED
    BY <2>1, <2>2, <2>3
<1>10. ASSUME NEW i \in HeadingsOf(text), text[i].level = 2
       PROVE  TidyBody(text[i].name, Slice(text, i))
  <2> DEFINE s == Slice(text, i)
  <2>1. Headed(2, text[i].name, s)
    BY <1>0, <1>10, SliceIs
  <2>2. s[1].level = 2
    BY <2>1 DEF Headed, Heading
  <2>3. ASSUME NEW k \in HeadingsOf(s), NEW q \in HeadingsOf(s), k < q
        PROVE  /\ s[k].name # s[q].name
               /\ \/ DefinedBy[s[k].name] = NoEntity
                  \/ DefinedBy[s[k].name] # DefinedBy[s[q].name]
    <3>1. /\ i + k - 1 \in HeadingsOf(text) /\ i + q - 1 \in HeadingsOf(text)
          /\ s[k] = text[i + k - 1] /\ s[q] = text[i + q - 1] /\ k \in Nat /\ q \in Nat
      BY <1>9
    <3>2. i + k - 1 < i + q - 1
      BY <1>1, <2>3, <3>1
    <3> QED
      BY <3>1, <3>2 DEF IsTidyText
  <2>4. ASSUME NEW k \in HeadingsOf(s), k > 1
        PROVE  s[k].level > 2
    <3>1. /\ i + k - 1 \in HeadingsOf(text) /\ s[k] = text[i + k - 1]
          /\ i + k - 1 <= SpanEnd(text, i) /\ k \in Nat
      BY <1>9
    <3>2. i < i + k - 1
      BY <1>1, <2>4, <3>1
    <3> QED
      BY <1>5, <1>10, <3>1, <3>2
  <2> HIDE DEF s
  <2>5. IsTidyText(s)
    BY <2>2, <2>3 DEF IsTidyText
  <2>6. TidyBody(text[i].name, s)
    BY <2>1, <2>4, <2>5 DEF TidyBody
  <2> QED
    BY <2>6 DEF s
<1>11. TilesInv(X)
  <2>1. \A t \in Tiles(X) : TidyBody(t, X[t].body)
    <3> SUFFICES ASSUME NEW t \in Tiles(X) PROVE TidyBody(t, X[t].body)
      OBVIOUS
    <3>1. PICK i \in HeadingsOf(text) : text[i].name = t /\ text[i].level = 2
      BY <1>4
    <3>2. X[t].body = Slice(text, i)
      BY <1>2, <3>1
    <3> QED
      BY <1>10, <3>1, <3>2
  <2>2. ASSUME NEW t \in Tiles(X), NEW u \in Tiles(X), t # u
        PROVE  /\ X[t].pos # X[u].pos
               /\ DefinedIn(X[t].body) \cap DefinedIn(X[u].body) = {}
    <3>1. PICK i \in HeadingsOf(text) : text[i].name = t /\ text[i].level = 2
      BY <1>4
    <3>2. PICK j \in HeadingsOf(text) : text[j].name = u /\ text[j].level = 2
      BY <1>4
    <3>3. i \in Nat /\ j \in Nat /\ i # j
      BY <1>1, <2>2, <3>1, <3>2
    <3>4. X[t].pos # X[u].pos
      <4>1. X[t].pos = Rank(text, i) /\ X[u].pos = Rank(text, j)
        BY <1>2, <3>1, <3>2
      <4>2. Rank(text, i) \in Nat /\ Rank(text, j) \in Nat
        BY <1>0, RankIs
      <4>3. i < j \/ j < i
        BY <3>3
      <4> QED
        BY <1>6, <4>1, <4>2, <4>3
    <3>5. ASSUME NEW e \in DefinedIn(Slice(text, i)), e \in DefinedIn(Slice(text, j)) PROVE FALSE
      <4>1. PICK k \in HeadingsOf(Slice(text, i)) :
              DefinedBy[Slice(text, i)[k].name] = e /\ e # NoEntity
        BY DEF DefinedIn
      <4>2. PICK q \in HeadingsOf(Slice(text, j)) : DefinedBy[Slice(text, j)[q].name] = e
        BY <3>5 DEF DefinedIn
      <4> DEFINE x == i + k - 1
                 y == j + q - 1
      <4>3. /\ x \in HeadingsOf(text) /\ DefinedBy[text[x].name] = e
            /\ i <= x /\ x <= SpanEnd(text, i)
        BY <1>9, <4>1
      <4>4. /\ y \in HeadingsOf(text) /\ DefinedBy[text[y].name] = e
            /\ j <= y /\ y <= SpanEnd(text, j)
        BY <1>9, <4>2
      <4> HIDE DEF x, y
      <4>5. x \in Nat /\ y \in Nat
        BY <1>1, <4>3, <4>4
      <4>6. x = y
        <5>1. ~(x < y) /\ ~(y < x)
          BY <4>1, <4>3, <4>4 DEF IsTidyText
        <5> QED
          BY <4>5, <5>1
      <4>7. CASE i < j
        <5>1. j <= SpanEnd(text, i)
          <6>1. SpanEnd(text, i) \in Nat
            <7>1. Len(text) \in Nat /\ SpanEnd(text, i) \in i..Len(text)
              BY <1>0, HeadingIs, SpanEndIs
            <7> QED
              BY <3>3, <7>1
          <6> QED
            BY <3>3, <4>3, <4>4, <4>5, <4>6, <6>1
        <5>2. text[j].level > 2
          BY <1>5, <3>1, <4>7, <5>1
        <5> QED
          BY <3>2, <5>2
      <4>8. CASE j < i
        <5>1. i <= SpanEnd(text, j)
          <6>1. SpanEnd(text, j) \in Nat
            <7>1. Len(text) \in Nat /\ SpanEnd(text, j) \in j..Len(text)
              BY <1>0, HeadingIs, SpanEndIs
            <7> QED
              BY <3>3, <7>1
          <6> QED
            BY <3>3, <4>3, <4>4, <4>5, <4>6, <6>1
        <5>2. text[i].level > 2
          BY <1>5, <3>2, <4>8, <5>1
        <5> QED
          BY <3>1, <5>2
      <4> QED
        BY <3>3, <4>7, <4>8
    <3>6. X[t].body = Slice(text, i) /\ X[u].body = Slice(text, j)
      BY <1>2, <3>1, <3>2
    <3> QED
      BY <3>4, <3>5, <3>6
  <2> QED
    BY <2>1, <2>2 DEF TilesInv
<1>12. HomesInv(X)
  <2> SUFFICES ASSUME NEW t \in Tiles(X), NEW a \in Embedded(X[t].body)
               PROVE  a \in Stored(X) /\ Within(X, a, t)
    BY DEF HomesInv
  <2>1. PICK i \in HeadingsOf(text) : text[i].name = t /\ text[i].level = 2
    BY <1>4
  <2>2. X[t].body = Slice(text, i) /\ X[t].pos = Rank(text, i) /\ t \in Stored(X)
    BY <1>2, <2>1
  <2>3. PICK j \in HeadingsOf(text) : text[j].name = a /\ i < j /\ j <= SpanEnd(text, i)
    BY <1>5, <2>1, <2>2
  <2>4. a \in Stored(X) /\ X[a].pos = Rank(text, j)
    BY <1>2, <2>3
  <2>5. X[t].pos < X[a].pos
    BY <1>6, <2>2, <2>3, <2>4
  <2>6. ASSUME NEW next \in Tiles(X), X[t].pos < X[next].pos
        PROVE  X[a].pos < X[next].pos
    <3>1. PICK n \in HeadingsOf(text) : text[n].name = next /\ text[n].level = 2
      BY <1>4
    <3>2. X[next].pos = Rank(text, n)
      BY <1>2, <3>1
    <3>3. i < n
      BY <1>6, <2>2, <2>6, <3>2
    <3>4. ~(n <= SpanEnd(text, i))
      <4>1. n <= SpanEnd(text, i) => text[n].level > 2
        BY <1>5, <2>1, <3>3
      <4> QED
        BY <3>1, <4>1
    <3>5. j < n
      <4>1. SpanEnd(text, i) \in Nat
        <5>1. Len(text) \in Nat /\ SpanEnd(text, i) \in i..Len(text) /\ i \in Nat
          BY <1>0, <1>1, HeadingIs, SpanEndIs
        <5> QED
          BY <5>1
      <4>2. n \in Nat /\ j \in Nat
        BY <1>1
      <4> QED
        BY <2>3, <3>4, <4>1, <4>2
    <3> QED
      BY <1>6, <2>4, <3>2, <3>5
  <2> QED
    BY <2>2, <2>4, <2>5, <2>6 DEF Within
<1>13. CoverInv(X)
  <2> SUFFICES ASSUME NEW a \in Stored(X) \ Tiles(X)
               PROVE  \E t \in Tiles(X) :
                        a \in Embedded(X[t].body) /\ X[a].body = FirstSlice(X[t].body, a)
    BY DEF CoverInv
  <2>1. PICK j \in HeadingsOf(text) : text[j].name = a
    BY <1>3
  <2>2. PICK i \in HeadingsOf(text) : text[i].level = 2 /\ i <= j /\ j <= SpanEnd(text, i)
    BY SpannedIs
  <2>3. i # j
    BY <1>5, <2>1, <2>2
  <2>4. i < j /\ i \in Nat /\ j \in Nat
    BY <1>1, <2>2, <2>3
  <2> DEFINE t == text[i].name
             s == Slice(text, i)
             k == j - i + 1
  <2>5. t \in Tiles(X) /\ a \in Embedded(s) /\ X[t].body = s /\ X[a].body = Slice(text, j)
    BY <1>2, <1>5, <2>1, <2>2, <2>4
  <2>6. k \in HeadingsOf(s) /\ s[k] = text[j] /\ Slice(s, k) = Slice(text, j)
    BY <1>0, <2>2, SliceOfSlice
  <2>7. s \in Body
    BY <1>0, SliceIs DEF Headed
  <2> DEFINE p == Min(Places(s, a))
  <2>8. p \in HeadingsOf(s) /\ s[p].name = a
    BY <2>5, <2>7, PlacesAre
  <2> HIDE DEF p
  <2>9. p = k
    <3>1. i + p - 1 \in HeadingsOf(text) /\ s[p] = text[i + p - 1] /\ p \in Nat
      BY <1>9, <2>8
    <3>2. i + p - 1 = j
      BY <1>0, <2>1, <2>8, <3>1
    <3> QED
      BY <2>4, <3>1, <3>2
  <2>10. FirstSlice(s, a) = Slice(text, j)
    BY <2>6, <2>9 DEF FirstSlice, p
  <2> QED
    BY <2>5, <2>10
<1> QED
  BY <1>8, <1>11, <1>12, <1>13 DEF DocInv, X

LEMMA ExtractedEntities ==
  ASSUME NEW text \in InitialTexts, IsTidyText(text), NEW ents,
         \A e \in Entities :
           \/ ents[e] = Nowhere /\ \A i \in HeadingsOf(text) : DefinedBy[text[i].name] # e
           \/ \E i \in HeadingsOf(text) :
                /\ DefinedBy[text[i].name] = e
                /\ ents[e] = [home |-> text[i].name, text |-> Slice(text, i)]
  PROVE  EntInv(Extracted(text), ents)
<1> DEFINE X == Extracted(text)
<1>0. text \in Body /\ \A i \in HeadingsOf(text) : i \in Nat /\ i >= 1
  BY TidyTextIs
<1>1. ASSUME NEW i \in HeadingsOf(text), text[i].level = 2
      PROVE  text[i].name \in Tiles(X) /\ X[text[i].name].body = Slice(text, i)
  <2>1. X[text[i].name] = [level |-> text[i].level, pos |-> Rank(text, i), body |-> Slice(text, i)]
    BY TidyTextIs
  <2>2. text[i].name \in Tiles(X)
    BY <1>1, ExtractedTiles
  <2> QED
    BY <2>1, <2>2
<1>2. \A t \in Tiles(X) : \E i \in HeadingsOf(text) : text[i].name = t /\ text[i].level = 2
  BY ExtractedTiles
<1> HIDE DEF X
<1> SUFFICES ASSUME NEW e \in Entities
             PROVE  LET defs == UNION {DefsIn(e, X[t].body) : t \in Tiles(X)}
                    IN  IF defs = {} THEN ents[e] = Nowhere ELSE ents[e] \in defs
  BY DEF EntInv, X
<1> DEFINE at == {i \in HeadingsOf(text) : DefinedBy[text[i].name] = e}
           defs == UNION {DefsIn(e, X[t].body) : t \in Tiles(X)}
<1>3. IF at = {} THEN ents[e] = Nowhere
      ELSE \E i \in at : ents[e] = [home |-> text[i].name, text |-> Slice(text, i)]
  <2>1. \/ ents[e] = Nowhere /\ \A i \in HeadingsOf(text) : DefinedBy[text[i].name] # e
        \/ \E i \in HeadingsOf(text) :
             /\ DefinedBy[text[i].name] = e
             /\ ents[e] = [home |-> text[i].name, text |-> Slice(text, i)]
    OBVIOUS
  <2> QED
    BY <2>1
<1>4. ASSUME NEW j \in at
      PROVE  [home |-> text[j].name, text |-> Slice(text, j)] \in defs
  <2>1. j \in HeadingsOf(text) /\ DefinedBy[text[j].name] = e
    OBVIOUS
  <2>2. PICK i \in HeadingsOf(text) : text[i].level = 2 /\ i <= j /\ j <= SpanEnd(text, i)
    BY <2>1, SpannedIs
  <2> DEFINE s == Slice(text, i)
             k == j - i + 1
  <2>3. k \in HeadingsOf(s) /\ s[k] = text[j] /\ Slice(s, k) = Slice(text, j)
    BY <1>0, <2>1, <2>2, SliceOfSlice
  <2>4. text[i].name \in Tiles(X) /\ X[text[i].name].body = s
    BY <1>1, <2>2
  <2> HIDE DEF s, k, at
  <2>5. [home |-> text[j].name, text |-> Slice(text, j)] \in DefsIn(e, s)
    BY <2>1, <2>3, DefsAre
  <2> QED
    BY <2>4, <2>5
<1>5. ASSUME NEW d \in defs PROVE at # {}
  <2>1. PICK t \in Tiles(X) : d \in DefsIn(e, X[t].body)
    OBVIOUS
  <2>2. PICK i \in HeadingsOf(text) : text[i].name = t /\ text[i].level = 2
    BY <1>2
  <2>3. X[t].body = Slice(text, i)
    BY <1>1, <2>2
  <2>4. PICK k \in HeadingsOf(Slice(text, i)) : DefinedBy[Slice(text, i)[k].name] = e
    BY <2>1, <2>3, DefsAre
  <2>5. k \in 1..SpanEnd(text, i) - i + 1 /\ i + k - 1 \in HeadingsOf(text)
    BY <1>0, SliceHeadings
  <2>6. Slice(text, i)[k] = text[i + k - 1]
    BY <1>0, <2>5, SliceIs
  <2>7. i + k - 1 \in at
    BY <2>4, <2>5, <2>6
  <2> QED
    BY <2>7
<1> HIDE DEF at, defs
<1>6. CASE at = {}
  BY <1>3, <1>5, <1>6 DEF defs
<1>7. CASE at # {}
  <2>1. ents[e] \in defs
    BY <1>3, <1>4, <1>7
  <2> QED
    BY <2>1 DEF defs
<1> QED
  BY <1>6, <1>7

-----------------------------------------------------------------------------
(* Tidy batches: the invariant, and the theorems *)

TidyInv ==
  /\ DocInv(sections) /\ EntInv(sections, entities)
  /\ DocInv(before.sections) /\ EntInv(before.sections, before.entities)
  /\ pc = "idle" => cascade = NoCascade /\ document = Export(sections)
  /\ pc = "writing" => PlanInv(cascade) /\ document = Written(cascade)

LEMMA InitTidy == Tidy /\ Init => TidyInv
<1> SUFFICES ASSUME Tidy, Init PROVE TidyInv
  OBVIOUS
<1>1. PICK text \in InitialTexts :
        /\ IsTidyText(text)
        /\ sections = Extracted(text)
        /\ entities =
             [e \in Entities |->
                IF \E i \in HeadingsOf(text) : DefinedBy[text[i].name] = e
                THEN LET i == Min({j \in HeadingsOf(text) : DefinedBy[text[j].name] = e})
                     IN  [home |-> text[i].name, text |-> Slice(text, i)]
                ELSE Nowhere]
  BY DEF Init
<1>2. DocInv(sections)
  BY <1>1, ExtractedDoc
<1>3. EntInv(sections, entities)
  <2> DEFINE at(e) == {j \in HeadingsOf(text) : DefinedBy[text[j].name] = e}
  <2>1. ASSUME NEW e \in Entities
        PROVE  \/ entities[e] = Nowhere /\ \A i \in HeadingsOf(text) : DefinedBy[text[i].name] # e
               \/ \E i \in HeadingsOf(text) :
                    /\ DefinedBy[text[i].name] = e
                    /\ entities[e] = [home |-> text[i].name, text |-> Slice(text, i)]
    <3>1. (\E i \in HeadingsOf(text) : DefinedBy[text[i].name] = e) <=> at(e) # {}
      OBVIOUS
    <3>2. entities[e] = IF at(e) # {}
                        THEN [home |-> text[Min(at(e))].name, text |-> Slice(text, Min(at(e)))]
                        ELSE Nowhere
      BY <1>1, <3>1
    <3>3. at(e) # {} => Min(at(e)) \in at(e)
      <4>1. text \in Body
        BY NarrativeIs
      <4>2. at(e) \subseteq Nat
        BY <4>1, HeadingIs
      <4> HIDE DEF at
      <4> QED
        BY <4>2, MinIs
    <3>4. CASE at(e) = {}
      BY <3>2, <3>4
    <3>5. CASE at(e) # {}
      <4> DEFINE i == Min(at(e))
      <4>1. i \in at(e) /\ entities[e] = [home |-> text[i].name, text |-> Slice(text, i)]
        BY <3>2, <3>3, <3>5
      <4> HIDE DEF i
      <4> QED
        BY <4>1
    <3> QED
      BY <3>4, <3>5
  <2>2. \A e \in Entities :
          \/ entities[e] = Nowhere /\ \A i \in HeadingsOf(text) : DefinedBy[text[i].name] # e
          \/ \E i \in HeadingsOf(text) :
               /\ DefinedBy[text[i].name] = e
               /\ entities[e] = [home |-> text[i].name, text |-> Slice(text, i)]
    BY <2>1
  <2>3. IsTidyText(text)
    BY <1>1
  <2>4. EntInv(Extracted(text), entities)
    BY <2>2, <2>3, ExtractedEntities
  <2> QED
    BY <1>1, <2>4
<1>4. /\ pc = "idle" /\ cascade = NoCascade /\ document = Export(sections)
      /\ before = [sections |-> sections, entities |-> entities]
  BY DEF Init
<1> QED
  BY <1>2, <1>3, <1>4 DEF TidyInv

\* The command ends in a tidy graph.
LEMMA EndsTidy ==
  ASSUME Ends, DocInv(sections'), EntInv(sections', entities')
  PROVE  TidyInv'
<1>1. /\ pc' = "idle" /\ cascade' = NoCascade /\ document' = Export(sections')
      /\ before' = [sections |-> sections', entities |-> entities']
  BY DEF Ends
<1>2. /\ before'.sections = sections' /\ before'.entities = entities'
      /\ NoCascade = NoCascade'
  BY <1>1 DEF NoCascade
<1> QED
  BY <1>1, <1>2 DEF TidyInv

\* Nothing that the plan is about changes.
LEMMA PlanKept ==
  ASSUME UNCHANGED <<sections, cascade>>
  PROVE  (PlanInv(cascade) => PlanInv(cascade)') /\ Written(cascade)' = Written(cascade)
<1>1. /\ CurrentTiles(cascade)' = CurrentTiles(cascade)
      /\ \A t : TileBody(cascade, t)' = TileBody(cascade, t)
  BY DEF CurrentTiles, TileBody, PlannedIn
<1>2. Written(cascade)' = Written(cascade)
  BY <1>1 DEF Written
<1>3. DistinctInv(cascade) => DistinctInv(cascade)'
  BY <1>1 DEF DistinctInv
<1>4. /\ CutInv(cascade) => CutInv(cascade)'
      /\ TileOfInv(cascade) => TileOfInv(cascade)'
      /\ DeletesInv(cascade) => DeletesInv(cascade)'
      /\ NewInv(cascade) => NewInv(cascade)'
  BY DEF CutInv, TileOfInv, DeletesInv, NewInv, CutOf, PlannedIn
<1> QED
  BY <1>2, <1>3, <1>4 DEF PlanInv

LEMMA StepTidy ==
  ASSUME Tidy, Inv, TidyInv, [Next]_vars
  PROVE  TidyInv'
<1>0. /\ DocInv(sections) /\ EntInv(sections, entities)
      /\ DocInv(before.sections) /\ EntInv(before.sections, before.entities)
      /\ PlansOK(cascade) /\ TypeOK
  BY InvIs DEF TidyInv, Inv
<1>1. CASE Begin
  <2>1. /\ pc = "idle" /\ pc' = "writing"
        /\ UNCHANGED <<sections, entities, cascade, before, document>>
    BY <1>1 DEF Begin
  <2>2. cascade = NoCascade /\ document = Export(sections)
    BY <2>1 DEF TidyInv
  <2>3. PlanInv(cascade) /\ document = Written(cascade)
    BY <1>0, <2>2, NothingPlanned
  <2>4. PlanInv(cascade)' /\ document' = Written(cascade)'
    BY <2>1, <2>3, PlanKept
  <2> QED
    BY <1>0, <2>1, <2>4 DEF TidyInv
<1>2. ASSUME NEW narrative \in Narratives, Write(narrative) PROVE TidyInv'
  <2>1. PICK r \in Revisions(narrative) :
          IsTidy(r.tile, r.body) /\ cascade' = PlanTile(cascade, r.tile, r.body)
    BY <1>2 DEF Write
  <2>2. /\ pc = "writing" /\ document' = Revised(document, narrative)
        /\ UNCHANGED <<sections, entities, pc, before>>
    BY <1>2 DEF Write
  <2>3. Tidily(cascade) /\ document = Written(cascade)
    BY <1>0, <2>2 DEF TidyInv, Tidily
  <2> DEFINE c == PlanTile(cascade, r.tile, r.body)
  <2>4. PlanInv(c)
    <3>1. Revises(r.tile, r.body)
      BY <1>0, <2>1, <2>3, RevisedTileIs DEF Revises
    <3> QED
      BY <2>3, <3>1, PlanTileInv
  <2>5. document' = Written(c)
    BY <1>0, <2>1, <2>2, <2>3, WriteDocument
  <2>6. cascade' = c
    BY <2>1
  <2> HIDE DEF c
  <2>7. /\ CurrentTiles(cascade)' = CurrentTiles(c)
        /\ \A t : TileBody(cascade, t)' = TileBody(c, t)
    BY <2>2, <2>6 DEF CurrentTiles, TileBody, PlannedIn
  <2>8. document' = Written(cascade)'
    BY <2>2, <2>5, <2>7 DEF Written
  <2>9. DistinctInv(cascade)'
    BY <2>4, <2>7 DEF PlanInv, DistinctInv
  <2>10. CutInv(cascade)' /\ TileOfInv(cascade)' /\ DeletesInv(cascade)' /\ NewInv(cascade)'
    <3>1. PlannedIn(cascade)' = PlannedIn(c) /\ CutOf(cascade)' = CutOf(c)
      BY <2>6 DEF PlannedIn, CutOf
    <3>2. CutInv(cascade)'
      BY <2>2, <2>4, <2>6, <3>1 DEF PlanInv, CutInv
    <3>3. TileOfInv(cascade)'
      BY <2>4, <2>6, <3>1 DEF PlanInv, TileOfInv
    <3>4. DeletesInv(cascade)'
      BY <2>2, <2>4, <2>6, <3>1 DEF PlanInv, DeletesInv
    <3>5. NewInv(cascade)'
      BY <2>2, <2>4, <2>6, <3>1 DEF PlanInv, NewInv
    <3> QED
      BY <3>2, <3>3, <3>4, <3>5
  <2>11. PlanInv(cascade)'
    BY <2>9, <2>10 DEF PlanInv
  <2> QED
    BY <1>0, <2>2, <2>8, <2>11 DEF TidyInv
<1>3. ASSUME NEW narrative \in Narratives, Refuse(narrative) PROVE TidyInv'
  <2>1. Ends /\ sections' = sections /\ entities' = entities
    BY <1>3 DEF Refuse
  <2> QED
    BY <1>0, <2>1, EndsTidy
<1>4. CASE Flush
  <2>1. pc = "writing" /\ Tidily(cascade)
    BY <1>0, <1>4 DEF Flush, TidyInv, Tidily
  <2>2. /\ sections' = Flushed
        /\ \A e \in Entities :
             IF e \in Fresh THEN entities'[e] \in Definitions(e)
             ELSE entities'[e] = IF e \in Stale THEN Nowhere ELSE entities[e]
    BY <1>4, FlushIs
  <2>3. DocInv(sections')
    BY <2>1, <2>2, FlushedDoc
  <2>4. EntInv(sections', entities')
    BY <1>0, <2>1, <2>2, FlushedEntities
  <2>5. CASE Ends
    BY <2>3, <2>4, <2>5, EndsTidy
  <2>6. CASE pc' = "committed" /\ before' = before
    BY <1>0, <2>3, <2>4, <2>6 DEF TidyInv
  <2> QED
    BY <1>4, <2>5, <2>6 DEF Flush
<1>5. CASE Accept
  <2>1. Ends /\ sections' = sections /\ entities' = entities
    BY <1>5 DEF Accept
  <2> QED
    BY <1>0, <2>1, EndsTidy
<1>6. CASE Reject
  <2>1. Ends /\ sections' = before.sections /\ entities' = before.entities
    BY <1>6 DEF Reject, Inv, UndoInv
  <2> QED
    BY <1>0, <2>1, EndsTidy
<1>7. CASE UNCHANGED vars
  <2>1. UNCHANGED <<sections, entities, pc, cascade, before, document>>
    BY <1>7 DEF vars
  <2>2. NoCascade' = NoCascade
    BY DEF NoCascade
  <2> QED
    BY <2>1, <2>2, PlanKept DEF TidyInv
<1> QED
  BY <1>1, <1>2, <1>3, <1>4, <1>5, <1>6, <1>7 DEF Next

THEOREM TidyInvariance == Tidy => (Spec => []TidyInv)
<1> SUFFICES ASSUME Tidy PROVE Spec => []TidyInv
  OBVIOUS
<1>1. Init => TidyInv
  BY InitTidy
<1>2. Inv /\ TidyInv /\ [Next]_vars => TidyInv'
  BY StepTidy
<1> QED
  BY <1>1, <1>2, Invariance, PTL DEF Spec

(* In tidy batches, whatever is written, flushed, accepted or undone: every  *)
(* node below level 2 carries the text that a tile embeds under its heading. *)
THEOREM TilesCover == Tidy => (Spec => []TileCover)
<1> SUFFICES ASSUME Tidy PROVE Spec => []TileCover
  OBVIOUS
<1>1. TidyInv => TileCover
  BY DocCovers DEF TidyInv
<1>2. Spec => []TidyInv
  BY TidyInvariance
<1> QED
  BY <1>1, <1>2, PTL

(* Every heading that the export has is a node, in the reach of the tile     *)
(* that embeds it, so that a write to it is patched there.                  *)
THEOREM HeadingsAreWritable == Tidy => (Spec => []EveryHeadingWritable)
<1> SUFFICES ASSUME Tidy PROVE Spec => []EveryHeadingWritable
  OBVIOUS
<1>1. TidyInv => EveryHeadingWritable
  BY DocWritable DEF TidyInv
<1>2. Spec => []TidyInv
  BY TidyInvariance
<1> QED
  BY <1>1, <1>2, PTL

(* The graph has exactly the entities that the document defines, each with   *)
(* the home and the text it has there, across deletions and the undo.       *)
THEOREM EntitiesAreTheTexts == Tidy => (Spec => []EntitiesFollowText)
<1> SUFFICES ASSUME Tidy PROVE Spec => []EntitiesFollowText
  OBVIOUS
<1>1. TidyInv => EntitiesFollowText
  BY DocDefines DEF TidyInv
<1>2. Spec => []TidyInv
  BY TidyInvariance
<1> QED
  BY <1>1, <1>2, PTL

(* A flush exports the document with the writes of the batch applied in      *)
(* their order: planning them one on top of the other loses none.           *)
THEOREM WritesReachExport == Tidy => (Spec => RevisionsReachExport)
<1> SUFFICES ASSUME Tidy PROVE Spec => RevisionsReachExport
  OBVIOUS
<1>1. Inv /\ TidyInv /\ [Next]_vars => [Flush => Export(sections') = document]_vars
  <2> SUFFICES ASSUME Inv, TidyInv, Flush PROVE Export(sections') = document
    OBVIOUS
  <2>1. Tidily(cascade) /\ document = Written(cascade)
    BY InvIs DEF Flush, TidyInv, Tidily
  <2>2. sections' = Flushed
    BY FlushIs
  <2> QED
    BY <2>1, <2>2, FlushedExport
<1>2. Spec => []TidyInv
  BY TidyInvariance
<1> QED
  BY <1>1, <1>2, Invariance, PTL DEF Spec, RevisionsReachExport

=============================================================================
