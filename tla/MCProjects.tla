----------------------------- MODULE MCProjects -----------------------------
(* Small instances of Projects: tasks and purges, or reminders and purges. *)
EXTENDS Projects, TLC

CONSTANTS
    j1, First,   \* the project and the task that come first
    built

ChecksOfDef == [t \in TaskIds |-> {built}]

\* Tasks and projects have no order of their own: First is the first task,
\* and j1 the project that has it, or the first memory.
InOrder ==
    /\ \A t \in TaskIds : base.tasks[t] # NoTask => base.tasks[First] # NoTask
    /\ \A t \in TaskIds \cap {First} : HasTask(base, t) => base.tasks[t].of = j1

\* Tasks near the end of their way, one delivery; no memories.
TasksAlone ==
    /\ InOrder
    /\ \A m \in Memories : base.memories[m] = NoMemory
    /\ \A c \in Callers : doing[c].does # "check"
    /\ \A t \in TaskIds : HasTask(base, t) =>
         base.tasks[t].status \in {"monitored", "closed"}
    /\ Cardinality(deliveries) <= 1

\* Reminders of one project, which has no tasks.
RemindersAlone ==
    /\ base.projects \subseteq {j1}
    /\ \A t \in TaskIds : base.tasks[t] = NoTask
    /\ base.evidence = {} /\ base.receipts = {}

SymCallers == Permutations(Callers)
=============================================================================
