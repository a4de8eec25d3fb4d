----------------------------- MODULE MCConsent -----------------------------
(***************************************************************************)
(* What the founder decides, part by part in one run: the learned rules,   *)
(* their index, the autonomy contract, the tasks of his projects and their *)
(* purge.  The parts share no variable; part says which of them a          *)
(* behaviour is about, and the others stay as they are.                    *)
(***************************************************************************)
EXTENDS MCLearning, MCRuleIndex, MCAutonomy, MCProjects

VARIABLE part

\* A receipt runs out under a command that has read it: one that runs out
\* unread might as well not have been asked for.
ExpiresInUse == \A x \in Receipts :
    Fresh(x) /\ receipts'[x].expired => \E k \in Askers : call[k] # NoCommand /\ call[k].with = x

consentvars == <<part, lvars, xvars, cvars, jvars>>

ConsentInit ==
    /\ part \in {"rules", "index", "contract", "tasks"}
    /\ LInit /\ XInit /\ CInit /\ JInit
    /\ part # "rules" => \A n \in Alerts : alerts[n] = Unwritten

ConsentNext ==
    \/ part = "rules" /\ LNext /\ ExpiresInUse /\ UNCHANGED <<part, xvars, cvars, jvars>>
    \/ part = "index" /\ XNext /\ UNCHANGED <<part, lvars, cvars, jvars>>
    \/ part = "contract" /\ CNext /\ UNCHANGED <<part, lvars, xvars, jvars>>
    \/ part = "tasks" /\ JNext /\ TasksAlone' /\ UNCHANGED <<part, lvars, xvars, cvars>>

ConsentSpec == ConsentInit /\ [][ConsentNext]_consentvars

SymConsent == SymLearning \cup SymIndexed
=============================================================================
