---------------------------- MODULE MCController ----------------------------
(* Small instances of Controller. *)
EXTENDS Controller, TLC

CONSTANTS u1, u2, u3, c1, c2, s1, s2, laneA, laneB

LaneOf == [u \in Units |-> IF u = u1 THEN laneA ELSE laneB]
Row1(d) == [deps |-> {}, def |-> d]
Row2(d) == [deps |-> {u1}, def |-> d]

\* Two units apart; the first redefined and the second dropped; the second on
\* the first; one only.
Apart == (u1 :> Row1(1)) @@ (u2 :> Row1(1))
FirstAgain == u1 :> Row1(2)
Chain == (u1 :> Row1(1)) @@ (u2 :> Row2(1))
FirstOnly == u1 :> Row1(1)

\* Three units, two of them on the first.
Fork(d) == (u1 :> Row1(d)) @@ (u2 :> Row2(1)) @@ (u3 :> Row2(1))

ChangeAndDrop == {Apart, FirstAgain}
GrowAndShrink == {Chain, FirstOnly}
ChangeTheFirst == {Fork(1), Fork(2)}
OneUnitPlan == {FirstOnly}

\* One command at a time; a plan made while another command runs.
Alone == c1 :> {"step", "result", "plan", "stop"}
Driver == (c1 :> {"step", "result", "stop"}) @@ (c2 :> {"plan"})

Few == [kill |-> 1, plan |-> 2, founder |-> 1]
Quiet == [kill |-> 1, plan |-> 2, founder |-> 0]
KillOnce == [kill |-> 1, plan |-> 1, founder |-> 0]
PlanTwice == [kill |-> 0, plan |-> 2, founder |-> 0]
=============================================================================
