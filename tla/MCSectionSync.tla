--------------------------- MODULE MCSectionSync ---------------------------
(* Small instances of SectionSync: two tiles, A and B, of which A embeds c. *)
EXTENDS SectionSync

H(a) == Heading(IF a \in {"A", "B", "N"} THEN 2 ELSE IF a = "g" THEN 4 ELSE 3, a)
X == Line("x")
Y == Line("y")

MCAnchors == {"A", "B", "N", "c", "d", "g"}
MCTexts == {"x", "y"}
MCEntities == {"F1", "F2"}

\* c and N define the same entity, d another one.
MCDefinedBy ==
  [a \in MCAnchors |-> CASE a \in {"c", "N"} -> "F1" [] a = "d" -> "F2" [] OTHER -> "none"]

MCInitialTexts ==
  { <<H("A"), X, H("c"), X, H("g"), X, H("B"), X>>,
    <<H("A"), H("c"), X, H("B"), X, H("d"), X>> }

MCNarratives ==
  { <<H("A"), X>>, <<H("A"), Y, H("c"), Y>>, <<H("A"), H("c"), H("g"), Y>>,
    <<H("B"), Y>>, <<H("B"), X, H("d"), X>>, <<H("B"), H("d"), Y, H("g"), X>>,
    <<H("c"), Y>>, <<H("c"), X, H("g"), Y>>, <<H("c"), X, H("d"), X>>,
    <<H("d"), Y>>, <<H("g"), Y>>, <<H("N"), X>>, <<H("N"), X, H("g"), Y>> }
=============================================================================
