---------------------------- MODULE MCAutosave ----------------------------
(* Small instances of Autosave. *)
EXTENDS Autosave

CONSTANT t1

\* Attempts, and sessions, differ by nothing but their name until they run:
\* attempts are numbers and start in their order, the first one for t1.
AttemptsInOrder ==
    /\ \A a, b \in Attempts : a < b /\ attempt[b].at # "new" => attempt[a].at # "new"
    /\ attempt[1].session \in {NoOne, t1}

\* One of them is killed, or one write or git step fails, and then none
\* loses its lock.
OneMishap ==
    /\ Cardinality({a \in Attempts : attempt[a].at \in {"dead", "torn"}}) + faults <= 1
    /\ robbed => faults = 0
=============================================================================
