---------------------------- MODULE MCStoreOpen ----------------------------
(* Small instances of StoreOpen. *)
EXTENDS StoreOpen

CONSTANTS p1, p2, p3

\* One process initialises, one writes, one reads with an older program.
RolesDef == [p \in Openers |-> CASE p = p1 -> {"init"}
                                 [] p = p2 -> {"write"}
                                 [] OTHER  -> {"read"}]
WritersDef == [p \in Openers |-> {"write"}]
KnowsDef == [p \in Openers |-> IF p = p3 THEN 1 ELSE Top]

\* Files differ by nothing but their name: they are numbers, and come into
\* being in their order.
Used(f) == atPath = f \/ f \in Held \/ disk[f] # Blank
FilesInOrder == \A f, g \in Files : f < g /\ Used(g) => Used(f)
=============================================================================
