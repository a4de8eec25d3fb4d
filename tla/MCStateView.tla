---------------------------- MODULE MCStateView ----------------------------
(* Small instances of StateView. *)
EXTENDS StateView

CONSTANTS path, masked

\* A note that names an absolute path does not come back as it was typed.
ProtectedDef == [n \in Notes |-> IF n = path THEN masked ELSE n]

\* The masked spelling comes from masking alone: nobody types it.
TypedUnmasked == masked \notin typed /\ (file # NoView => masked \notin file.inside)

\* One redraw fails to read a file that is there, at most, and the behaviour
\* is followed until it ends.
OneUnseen == Cardinality(unseen) <= 1
UnseenEnded == \E w \in unseen : writer[w] = Resting
=============================================================================
