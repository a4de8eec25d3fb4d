--------------------------- MODULE FenceOwnership ---------------------------
(***************************************************************************)
(* What the registry promises about writers, whatever the bookkeeping:     *)
(* a table of leases.  A lease is one lifecycle's exclusive right to a set *)
(* of paths, held by a session (or by nobody in particular, when the claim *)
(* came without a session id).                                             *)
(***************************************************************************)
CONSTANTS Lifecycles, Sessions, NoSession, Paths, Overlap

VARIABLES
    held,     \* the lifecycles that hold a lease now
    lease     \* lifecycle -> [holder, fence], vacant unless held

vars == <<held, lease>>

Vacant == [holder |-> NoSession, fence |-> {}]

Disjoint(F, G) == \A p \in F, q \in G : <<p, q>> \notin Overlap

\* No lease but l's own stands in the way of a fence F for l.
Clear(l, F) == \A m \in held \ {l} : Disjoint(F, lease[m].fence)

Init ==
    /\ held = {}
    /\ lease = [l \in Lifecycles |-> Vacant]

(* A lease is granted over paths nobody else holds.                         *)
Grant(l, s, F) ==
    /\ l \notin held
    /\ Clear(l, F)
    /\ held' = held \cup {l}
    /\ lease' = [lease EXCEPT ![l] = [holder |-> s, fence |-> F]]

(* The session that holds a lease redraws its fence; an anonymous lease     *)
(* cannot be redrawn, since nobody can show it is theirs.                   *)
Redraw(l, F) ==
    /\ l \in held
    /\ lease[l].holder # NoSession
    /\ Clear(l, F)
    /\ lease' = [lease EXCEPT ![l].fence = F]
    /\ UNCHANGED held

(* A lease ends: parked, completed or adopted.                              *)
LetGo(l) ==
    /\ l \in held
    /\ held' = held \ {l}
    /\ lease' = [lease EXCEPT ![l] = Vacant]

Next ==
    \E l \in Lifecycles :
        \/ \E s \in Sessions \cup {NoSession}, F \in SUBSET Paths : Grant(l, s, F)
        \/ \E F \in SUBSET Paths : Redraw(l, F)
        \/ LetGo(l)

Spec == Init /\ [][Next]_vars
=============================================================================
