-------------------------- MODULE MCKnowledgeGraph --------------------------
(* A small graph: a chain of three hops, a shortcut over another relation, *)
(* and a second way to a node at the same distance.                        *)
EXTENDS KnowledgeGraph, TLC

CONSTANTS s, a, b, c, w1, w2

To(x, r, y) == [from |-> x, rel |-> r, to |-> y]

Chain == {To(s, "uses", a), To(a, "uses", b), To(b, "uses", c)}
MCLinks == Chain \cup {To(s, "seen", b)}
MCFragile == {b, To(s, "uses", a)}
MCRels == {"uses", "seen"}
WriterSymmetry == Permutations({w1, w2})
MCFilters == {MCRels, {"uses"}}
=============================================================================
