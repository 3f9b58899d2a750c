----------------------------- MODULE MCSequence -----------------------------
(* An instance of SequenceSharing for TLC: pages of two tokens, requests   *)
(* of up to two pages, of which there are three; and of KvLayouts, with    *)
(* up to two or three of everything and sizes of six bits, so that some    *)
(* layouts overflow.                                                       *)
EXTENDS SequenceSharing, KvLayouts

CONSTANTS p1, p2, p3, r1, r2, r3, a, b

ThreePages == {p1, p2, p3}
ThreeRequests == {r1, r2, r3}
TwoTokens == {a, b}
FullPrefixes == {t \in Text : t # <<>> /\ Len(t) % BlockSize = 0}
AllFaults == {"memory", "hash", "copy", "gpu"}

SmallGeometries ==
    [layers : 1..2, blocks : 1..2, heads : 1..2, tokens : 1..3, dims : 1..2, bytes : {2, 4}]
SmallBudgets == 0..63

SequenceSymmetry == Permutations(Page) \cup Permutations(Request) \cup Permutations(Token)
=============================================================================
