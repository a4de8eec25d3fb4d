--------------------------- MODULE MCRecordStore ---------------------------
(* Small instances of RecordStore. *)
EXTENDS RecordStore, TLC

CONSTANTS p, q, r

\* q lies under p; r is elsewhere.
OverlapDef == {<<p, p>>, <<q, q>>, <<r, r>>, <<p, q>>, <<q, p>>}

Symmetric == Permutations(Lifecycles) \cup Permutations(Names)
               \cup Permutations(Sessions)

SymmetricClients == Permutations(Clients)
=============================================================================
