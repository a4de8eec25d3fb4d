--------------------------- MODULE MCProvisional ---------------------------
(* Small instances of Provisional. *)
EXTENDS Provisional, TLC

CONSTANTS l1, l2, n1, n2

ProvNameDef == [l \in Lifecycles |-> IF l = l1 THEN n1 ELSE n2]

SymClients == Permutations(Clients)
=============================================================================
