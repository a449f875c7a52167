--------------------------- MODULE EventLogProofs ---------------------------
(***************************************************************************)
(* Lemmas about the operations of EventLog, for any lines and any writers.  *)
(***************************************************************************)
EXTENDS EventLog, SequenceTheorems, FiniteSetTheorems, TLAPS

(* A set of numbers has a least one: of the initial segments of its members  *)
(* one is minimal, because inclusion is well-founded on finite sets.         *)
LEMMA HasLeast ==
  ASSUME NEW T \in SUBSET Nat, T # {}
  PROVE  \E x \in T : \A y \in T : x <= y
<1> DEFINE F == {0..t : t \in T}
<1>1. F # {}
  OBVIOUS
<1>2. F \subseteq FiniteSubsetsOf(Nat)
  <2>1. ASSUME NEW t \in T PROVE 0..t \in FiniteSubsetsOf(Nat)
    <3>1. t \in Int /\ 0 \in Int /\ 0..t \subseteq Nat
      OBVIOUS
    <3>2. IsFiniteSet(0..t)
      BY <3>1, FS_Interval
    <3> QED
      BY <3>1, <3>2 DEF FiniteSubsetsOf
  <2> QED
    BY <2>1
<1>3. PICK I \in F : \A J \in F : <<J, I>> \notin StrictSubsetOrdering(Nat)
  <2> HIDE DEF F
  <2> QED
    BY <1>1, <1>2, WFMin, FS_StrictSubsetOrderingWellFounded
<1>4. PICK x \in T : I = 0..x
  OBVIOUS
<1>5. ASSUME NEW y \in T, y < x PROVE FALSE
  <2>1. 0..y \subseteq 0..x /\ x \in 0..x /\ x \notin 0..y
    BY <1>5
  <2>2. 0..y \in F
    OBVIOUS
  <2>3. 0..y \in SUBSET Nat /\ 0..x \in SUBSET Nat
    OBVIOUS
  <2>4. <<0..y, 0..x>> \in StrictSubsetOrdering(Nat)
    BY <2>1, <2>3 DEF StrictSubsetOrdering
  <2> QED
    BY <1>3, <1>4, <2>2, <2>4
<1> QED
  BY <1>4, <1>5

(* So has a bounded one a greatest: the one least below the bound.           *)
LEMMA HasGreatest ==
  ASSUME NEW n \in Nat, NEW T \in SUBSET (0..n), T # {}
  PROVE  \E x \in T : \A y \in T : y <= x
<1> DEFINE U == {n - t : t \in T}
<1>1. U \in SUBSET Nat /\ U # {}
  <2>1. \A t \in T : t \in Nat /\ n - t \in Nat
    OBVIOUS
  <2>2. PICK t \in T : TRUE
    OBVIOUS
  <2> QED
    BY <2>1, <2>2
<1>2. PICK u \in U : \A v \in U : u <= v
  <2> HIDE DEF U
  <2> QED
    BY <1>1, HasLeast
<1>3. PICK x \in T : u = n - x
  OBVIOUS
<1>4. ASSUME NEW y \in T PROVE y <= x
  <2>1. n - y \in U
    OBVIOUS
  <2>2. n - x <= n - y
    BY <1>2, <1>3, <2>1
  <2>3. x \in Nat /\ y \in Nat
    OBVIOUS
  <2> QED
    BY <2>2, <2>3
<1> QED
  BY <1>4

(* What a write adds to the log: what was there stays, but for a last line   *)
(* without its newline, and what is new is torn or one of the records.      *)
Grows(new, old, terminated, records) ==
  /\ Extends(new, old, terminated)
  /\ \A i \in DOMAIN new :
       \/ i \in DOMAIN old /\ new[i] = old[i]
       \/ new[i] = Torn
       \/ i \notin DOMAIN old /\ new[i] \in records

\* Where the new lines are
AddedFrom(l, lines, new) ==
  \A i \in DOMAIN l : i > Len(lines) =>
    \E k \in DOMAIN new : k <= i - Len(lines) + 1 /\ l[i] = new[k]

Written(S, l, lines, terminated, new, records) ==
  /\ l \in Seq(S) /\ l # <<>>
  /\ Len(l) <= Len(lines) + Len(new)
  /\ Grows(l, lines, terminated, records)
  /\ terminated => /\ Len(l) = Len(lines) + Len(new)
                   /\ \A k \in DOMAIN new : l[Len(lines) + k] = new[k]
  /\ AddedFrom(l, lines, new)

(* A write in place adds its lines, all of them if the last line that was    *)
(* there has its newline.                                                  *)
LEMMA InPlaceWrites ==
  ASSUME NEW S, Torn \in S,
         NEW lines \in Seq(S), NEW terminated \in BOOLEAN,
         ~terminated => lines # <<>>,
         NEW new \in Seq(S), new # <<>>,
         NEW records, \A k \in DOMAIN new : new[k] \in records \cup {Torn}
  PROVE  Written(S, InPlace(lines, terminated, new), lines, terminated, new, records)
<1> DEFINE l == InPlace(lines, terminated, new)
<1>0. l = InPlace(lines, terminated, new)
  OBVIOUS
<1> SUFFICES /\ l \in Seq(S) /\ l # <<>>
             /\ Len(l) <= Len(lines) + Len(new)
             /\ Grows(l, lines, terminated, records)
             /\ terminated => /\ Len(l) = Len(lines) + Len(new)
                              /\ \A k \in DOMAIN new : l[Len(lines) + k] = new[k]
             /\ AddedFrom(l, lines, new)
  BY DEF Written
<1> HIDE DEF l
<1>1. CASE terminated
  <2>1. l = lines \o new
    BY <1>0, <1>1 DEF InPlace
  <2>2. /\ l \in Seq(S) /\ Len(l) = Len(lines) + Len(new)
        /\ \A i \in 1..Len(l) :
             l[i] = IF i <= Len(lines) THEN lines[i] ELSE new[i - Len(lines)]
    BY <2>1, ConcatProperties
  <2>3. Len(lines) \in Nat /\ Len(new) \in Nat /\ Len(new) > 0
        /\ DOMAIN lines = 1..Len(lines) /\ DOMAIN new = 1..Len(new)
        /\ DOMAIN l = 1..Len(l)
    BY <2>2
  <2>n. ASSUME NEW i \in DOMAIN l, i > Len(lines)
        PROVE  \E k \in DOMAIN new : k <= i - Len(lines) + 1 /\ l[i] = new[k]
    <3>1. i - Len(lines) \in 1..Len(new) /\ l[i] = new[i - Len(lines)]
      BY <2>2, <2>3, <2>n
    <3>2. i - Len(lines) <= i - Len(lines) + 1
      BY <3>1
    <3> QED
      BY <2>3, <3>1, <3>2
  <2>4. Grows(l, lines, terminated, records)
    <3>1. Extends(l, lines, terminated)
      BY <2>2, <2>3 DEF Extends
    <3>2. ASSUME NEW i \in DOMAIN l, i \notin DOMAIN lines
          PROVE  l[i] \in records \cup {Torn}
      BY <2>3, <2>n, <3>2
    <3>3. ASSUME NEW i \in DOMAIN l, i \in DOMAIN lines PROVE l[i] = lines[i]
      BY <2>2, <2>3, <3>3
    <3> QED
      BY <3>1, <3>2, <3>3 DEF Grows
  <2>5. \A k \in DOMAIN new : l[Len(lines) + k] = new[k]
    BY <2>2, <2>3
  <2> QED
    <3>1. l # <<>>
      BY <2>2, <2>3
    <3> QED
      BY <2>2, <2>3, <2>4, <2>5, <2>n, <3>1 DEF AddedFrom
<1>2. CASE ~terminated
  <2> DEFINE n == Len(lines) - 1
             first == Front(lines) \o <<Torn>>
  <2>1. Len(lines) \in Nat /\ Len(lines) > 0 /\ DOMAIN lines = 1..Len(lines)
        /\ Len(new) \in Nat /\ Len(new) > 0 /\ DOMAIN new = 1..Len(new)
    BY <1>2
  <2>2. /\ Front(lines) \in Seq(S) /\ Len(Front(lines)) = n
        /\ \A i \in 1..n : Front(lines)[i] = lines[i]
    <3>1. \A i \in 1..n : lines[i] \in S
      BY <2>1
    <3> QED
      BY <2>1, <3>1, SubSeqProperties, n \in Int, 1 \in Int DEF Front
  <2> HIDE DEF first
  <2>3. /\ first \in Seq(S) /\ Len(first) = n + 1
        /\ \A i \in 1..n : first[i] = lines[i]
        /\ first[n + 1] = Torn
    <3>1. <<Torn>> \in Seq(S) /\ Len(<<Torn>>) = 1 /\ <<Torn>>[1] = Torn
      OBVIOUS
    <3>2. /\ first \in Seq(S) /\ Len(first) = n + 1
          /\ \A i \in 1..n + 1 :
               first[i] = IF i <= n THEN Front(lines)[i] ELSE <<Torn>>[i - n]
      BY <2>2, <3>1, ConcatProperties DEF first
    <3>3. first[n + 1] = Torn
      BY <2>1, <3>1, <3>2
    <3> QED
      BY <2>1, <2>2, <3>2, <3>3
  <2>4. /\ Tail(new) \in Seq(S) /\ Len(Tail(new)) = Len(new) - 1
        /\ \A k \in 1..Len(new) - 1 : Tail(new)[k] = new[k + 1]
    BY HeadTailProperties
  <2>5. l = first \o Tail(new)
    BY <1>0, <1>2 DEF InPlace, first
  <2>6. /\ l \in Seq(S) /\ Len(l) = n + Len(new)
        /\ \A i \in 1..Len(l) :
             l[i] = IF i <= n + 1 THEN first[i] ELSE Tail(new)[i - (n + 1)]
    <3>1. /\ l \in Seq(S) /\ Len(l) = Len(first) + Len(Tail(new))
          /\ \A i \in 1..Len(first) + Len(Tail(new)) :
               l[i] = IF i <= Len(first) THEN first[i] ELSE Tail(new)[i - Len(first)]
      BY <2>3, <2>4, <2>5, ConcatProperties
    <3> HIDE DEF n
    <3> QED
      BY <2>1, <2>3, <2>4, <3>1 DEF n
  <2>7. DOMAIN l = 1..Len(l)
    BY <2>6
  <2>n. ASSUME NEW i \in DOMAIN l, i > Len(lines)
        PROVE  \E k \in DOMAIN new : k <= i - Len(lines) + 1 /\ l[i] = new[k]
    <3>1. i \in Nat /\ i >= 1 /\ i <= n + Len(new) /\ ~(i <= n + 1)
      BY <2>1, <2>6, <2>7, <2>n
    <3>2. l[i] = Tail(new)[i - (n + 1)]
      BY <2>6, <2>7, <3>1
    <3>3. i - (n + 1) \in 1..Len(new) - 1 /\ i - n = i - Len(lines) + 1
      BY <2>1, <3>1
    <3>4. l[i] = new[i - n] /\ i - n \in DOMAIN new
      BY <2>1, <2>4, <3>2, <3>3
    <3> QED
      BY <3>3, <3>4, i - n <= i - Len(lines) + 1
  <2>8. Grows(l, lines, terminated, records)
    <3>1. Extends(l, lines, terminated)
      BY <1>2, <2>1, <2>3, <2>6 DEF Extends
    <3>2. ASSUME NEW i \in DOMAIN l, i \notin DOMAIN lines
          PROVE  l[i] \in records \cup {Torn}
      <4>1. i > Len(lines)
        BY <2>1, <2>6, <2>7, <3>2
      <4> QED
        BY <2>n, <3>2, <4>1
    <3>3. ASSUME NEW i \in DOMAIN l, i \in DOMAIN lines
          PROVE  l[i] = lines[i] \/ l[i] = Torn
      BY <2>1, <2>3, <2>6, <2>7, <3>3
    <3> QED
      BY <3>1, <3>2, <3>3 DEF Grows
  <2> QED
    <3>1. l # <<>>
      BY <2>1, <2>6
    <3> QED
      BY <1>2, <2>1, <2>6, <2>8, <2>n, <3>1 DEF AddedFrom
<1> QED
  BY <1>1, <1>2

LEMMA InPlaceGrows ==
  ASSUME NEW S, Torn \in S,
         NEW lines \in Seq(S), NEW terminated \in BOOLEAN,
         ~terminated => lines # <<>>,
         NEW new \in Seq(S), new # <<>>,
         NEW records, \A k \in DOMAIN new : new[k] \in records \cup {Torn}
  PROVE  LET l == InPlace(lines, terminated, new)
         IN  /\ l \in Seq(S) /\ l # <<>>
             /\ Len(l) <= Len(lines) + Len(new)
             /\ Grows(l, lines, terminated, records)
             /\ terminated => /\ Len(l) = Len(lines) + Len(new)
                              /\ \A k \in DOMAIN new : l[Len(lines) + k] = new[k]
<1>1. Written(S, InPlace(lines, terminated, new), lines, terminated, new, records)
  BY InPlaceWrites
<1> QED
  BY <1>1 DEF Written

LEMMA InPlaceAdds ==
  ASSUME NEW S, Torn \in S,
         NEW lines \in Seq(S), NEW terminated \in BOOLEAN,
         ~terminated => lines # <<>>,
         NEW new \in Seq(S), new # <<>>,
         NEW records, \A k \in DOMAIN new : new[k] \in records \cup {Torn}
  PROVE  AddedFrom(InPlace(lines, terminated, new), lines, new)
<1>1. Written(S, InPlace(lines, terminated, new), lines, terminated, new, records)
  BY InPlaceWrites
<1> QED
  BY <1>1 DEF Written

(* One record, or one torn line.                                           *)
LEMMA OneLineGrows ==
  ASSUME NEW S, Torn \in S,
         NEW lines \in Seq(S), NEW terminated \in BOOLEAN,
         ~terminated => lines # <<>>,
         NEW line \in S, NEW records, line \in records \cup {Torn}
  PROVE  LET l == InPlace(lines, terminated, <<line>>)
         IN  /\ l \in Seq(S) /\ l # <<>>
             /\ Len(l) <= Len(lines) + 1
             /\ Grows(l, lines, terminated, records)
             /\ terminated => Len(l) = Len(lines) + 1 /\ l[Len(lines) + 1] = line
<1> DEFINE new == <<line>>
           l == InPlace(lines, terminated, new)
<1>1. /\ new \in Seq(S) /\ new # <<>> /\ Len(new) = 1
      /\ DOMAIN new = {1} /\ new[1] = line
  OBVIOUS
<1> HIDE DEF new
<1>2. \A k \in DOMAIN new : new[k] \in records \cup {Torn}
  BY <1>1
<1>3. /\ l \in Seq(S) /\ l # <<>>
      /\ Len(l) <= Len(lines) + Len(new)
      /\ Grows(l, lines, terminated, records)
      /\ terminated => /\ Len(l) = Len(lines) + Len(new)
                       /\ \A k \in DOMAIN new : l[Len(lines) + k] = new[k]
  BY <1>1, <1>2, InPlaceGrows
<1> HIDE DEF l
<1>4. Len(l) <= Len(lines) + 1
      /\ (terminated => Len(l) = Len(lines) + 1 /\ l[Len(lines) + 1] = line)
  BY <1>1, <1>3
<1> QED
  BY <1>3, <1>4 DEF l, new

(* The file stays a file of lines, and grows, whatever is written to it.    *)
LEMMA AppendEventGrows ==
  ASSUME NEW S, Torn \in S, log \in Seq(S), ended \in BOOLEAN,
         ~ended => log # <<>>, NEW r \in S, AppendEvent(r)
  PROVE  /\ log' \in Seq(S) /\ ended' = TRUE
         /\ Len(log') <= Len(log) + 1
         /\ Grows(log', log, ended, {r})
         /\ ended => Len(log') = Len(log) + 1 /\ log'[Len(log) + 1] = r
BY OneLineGrows DEF AppendEvent

LEMMA CutAppendGrows ==
  ASSUME NEW S, Torn \in S, log \in Seq(S), ended \in BOOLEAN,
         ~ended => log # <<>>, NEW r \in S, CutAppend(r)
  PROVE  /\ log' \in Seq(S) /\ log' # <<>> /\ ended' = FALSE
         /\ Len(log') <= Len(log) + 1 /\ (ended => Len(log') = Len(log) + 1)
         /\ Grows(log', log, ended, {r})
BY OneLineGrows DEF CutAppend

=============================================================================
