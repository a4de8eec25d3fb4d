---------------------------- MODULE MCLearning ----------------------------
(* Small instances of Learning. *)
EXTENDS Learning, TLC

CONSTANTS a1, ta, tb, d0, r0

\* Two texts that contradict each other, an alert before every candidate,
\* and one rule that was approved before.
ClashesDef == {<<ta, tb>>, <<tb, ta>>}
GatesDef == [n \in Alerts |-> Candidates]
GivenDef == [r \in {r0} |-> [text |-> ta, from |-> d0]]

SymLearning == Permutations(Candidates \ {d0}) \cup Permutations(Rules \ {r0})
                 \cup Permutations(Receipts) \cup Permutations(Askers)
=============================================================================
