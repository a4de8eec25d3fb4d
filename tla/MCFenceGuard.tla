---------------------------- MODULE MCFenceGuard ----------------------------
(* Small instances of FenceGuard. *)
EXTENDS FenceGuard

CONSTANTS w1, w2, e1, e2, g1, g2, f1, f2

\* w1 and w2 are edits or label commands, e1 and e2 shell commands; only w2
\* belongs to the second session.
CallerDef == [c \in Calls |-> IF c = w2 THEN g2 ELSE g1]
ToolsDef == [c \in Calls |-> IF c \in {w1, w2} THEN {"edit", "label"} ELSE {"shell"}]

\* With and without the founder's strict mode, in a project that enforces
\* its fences and in one that advises.
ModesDef == {[enforced |-> TRUE, strict |-> FALSE], [enforced |-> FALSE, strict |-> TRUE]}

\* The two shell commands differ by nothing but their name: e1 comes first.
\* Two calls are under way at once, at most.  A file goes unread only
\* when e1 is the only shell command.
GuardBound ==
    /\ Phase(e2, "idle") \/ ~Phase(e1, "idle")
    /\ Cardinality({c \in Calls : ~Phase(c, "idle") /\ ~Phase(c, "over")}) <= 2
    /\ unread = {} \/ Phase(e2, "idle")

\* So do the two files: f1 is fenced first, by g2 if by anyone of the two.
\* g2, which only owns fences here, has its token from the start.
Rank(s) == CASE s = g2 -> 2 [] s = g1 -> 1 [] OTHER -> 0
GuardInit == GInit /\ Rank(fence[f1]) >= Rank(fence[f2]) /\ token[g2] = "written"
=============================================================================
