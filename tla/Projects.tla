------------------------------ MODULE Projects ------------------------------
(***************************************************************************)
(* A project's rows in the store: its tasks with their dependencies,       *)
(* evidence, reviews and capability receipts (tools/bm_store.py,           *)
(* tools/bm_project.py), the Memory Sentinel's memories and the ledger of  *)
(* its reminders (tools/bm_sentinel.py), and the purge that erases all of  *)
(* them.  Every operation of the store is one transaction; deliver and the *)
(* sentinel's check read in several and write in later ones, and may be    *)
(* killed between any two.                                                 *)
(*                                                                         *)
(* Abstractions.  The rows are one record, base, with the foreign keys     *)
(* that SQLite enforces at every statement.  Prose, forecasts, alerts and  *)
(* the rows of the contract and the controller, which the purge also       *)
(* deletes, are left out; so are the criterion a piece of evidence names,  *)
(* which only its guard reads, and the attribution, which nothing erases.  *)
(* A task's id is not used again.                                          *)
(***************************************************************************)
EXTENDS Naturals, FiniteSets, Sequences, Functions

CONSTANTS
    Projects, TaskIds, Memories,
    Attempts,        \* the memories that tell what was tried; the others state a requirement
    Callers,         \* commands that run across transactions
    Cooldown,        \* COOLDOWN_N
    Born,            \* the states a task may be created in
    ChecksOf,        \* task -> the criteria of its acceptance checks
    NoTask, Gone,    \* a task id not used yet, and one that was purged
    NoMemory,        \* none, or not recorded yet
    NoCriterion,     \* evidence that names no criterion
    MaxRows,         \* bound: evidence, and receipts
    MaxReminders,    \* bound: entries of a ledger
    MaxSurfaced      \* bound: how often a memory comes up

\* The ten states in their order.
TaskStates == <<"planned", "ready", "active", "blocked", "awaiting review",
            "verified", "accepted", "delivered", "monitored", "closed">>

\* A task and a memory on record.
TaskRow == [of : Projects, status : Range(TaskStates), deps : SUBSET TaskIds]
MemoryRow == [of : Projects, active : BOOLEAN, surfaced : 0..MaxSurfaced]

ASSUME NothingIsNoRow ==
    /\ NoTask \notin TaskIds /\ NoMemory \notin Memories /\ Gone # NoTask
    /\ {NoTask, Gone} \cap TaskRow = {} /\ {NoMemory, Gone} \cap MemoryRow = {}
ASSUME BornInAState == Born \subseteq Range(TaskStates)
ASSUME CooldownPositive == Cooldown \in Nat \ {0} /\ MaxSurfaced \in Nat

VARIABLES
    base,        \* the rows
    doing,       \* caller -> what it does and what it has read
    deliveries   \* history: what was told as "all closed", and whether --partial was said

jvars == <<base, doing, deliveries>>

Unbusy == [does |-> "nothing", at |-> "idle"]

JInit ==
    /\ base = [projects |-> {}, tasks |-> [t \in TaskIds |-> NoTask], edges |-> {},
               evidence |-> {}, receipts |-> {},
               memories |-> [m \in Memories |-> NoMemory],
               ledger |-> [p \in Projects |-> <<>>]]
    /\ doing = [c \in Callers |-> Unbusy]
    /\ deliveries = {}

-----------------------------------------------------------------------------
(* The rows *)

HasTask(d, t) == d.tasks[t] \notin {NoTask, Gone}
Kept(d, m) == d.memories[m] \notin {NoMemory, Gone}
TasksOf(d, p) == {t \in TaskIds : HasTask(d, t) /\ d.tasks[t].of = p}

\* The foreign keys, which hold after every statement or the statement fails.
KeysHold(d) ==
    /\ \A t \in TaskIds : HasTask(d, t) => d.tasks[t].of \in d.projects
    /\ \A e \in d.edges : HasTask(d, e[1]) /\ HasTask(d, e[2])
    /\ \A r \in d.receipts : r.of \in d.projects /\ (r.task # NoTask => HasTask(d, r.task))

RowsOnly == UNCHANGED <<doing, deliveries>>
Commit(d) == KeysHold(d) /\ base' = d

UpsertProject(p) ==
    /\ Commit([base EXCEPT !.projects = @ \cup {p}]) /\ RowsOnly

\* The list on the row and its mirror in the dependencies table; a task may
\* wait for one of another project.
Created(d, t, row) ==
    [d EXCEPT !.tasks[t] = row, !.edges = @ \cup {<<t, u>> : u \in row.deps}]

CreateTask(t, p, status, deps) ==
    /\ base.tasks[t] = NoTask
    /\ Commit(Created(base, t, [of |-> p, status |-> status, deps |-> deps]))
    /\ RowsOnly

\* Mutant: with a reason, a closed task is opened again.
MayReopen(from, to) == to < from \/ to = from + 1
\* schema.transition: one stage forward, past "blocked" too, or backward with
\* a reason; nothing leaves the last.
MayStep(from, to) ==
    /\ TaskStates[from] # "closed"
    /\ \/ to < from
       \/ to = from + 1 /\ TaskStates[from] # "blocked"
       \/ TaskStates[from] = "active" /\ TaskStates[to] = "awaiting review"

Stage == [s \in Range(TaskStates) |-> CHOOSE i \in DOMAIN TaskStates : TaskStates[i] = s]
StateOf(t) == Stage[base.tasks[t].status]

Moved(d, t, to) == [d EXCEPT !.tasks[t].status = TaskStates[to]]

TransitionTask(t, to) ==
    /\ HasTask(base, t) /\ MayStep(StateOf(t), to)
    /\ Commit(Moved(base, t, to))
    /\ RowsOnly

\* add_evidence, on a project or on a task under its own project; a criterion
\* that is named is one of the task's.
Criteria == {NoCriterion} \cup UNION Range(ChecksOf)
MayFile(p, t, criterion) ==
    IF t = NoTask THEN p \in base.projects /\ criterion = NoCriterion
    ELSE t \in TasksOf(base, p) /\ criterion \in ChecksOf[t] \cup {NoCriterion}

Filed(p, t) == [base EXCEPT !.evidence = @ \cup {[project |-> p, task |-> t]}]

Room(d) == Cardinality(d.evidence) <= MaxRows /\ Cardinality(d.receipts) <= MaxRows

AddTaskEvidence(p, t, criterion) ==
    /\ MayFile(p, t, criterion) /\ Room(Filed(p, t))
    /\ Commit(Filed(p, t)) /\ RowsOnly

\* The evidence and the move, or neither.
ReviewTask(p, t, criterion, to) ==
    /\ HasTask(base, t) /\ base.tasks[t].of = p /\ MayStep(StateOf(t), to)
    /\ MayFile(p, t, criterion) /\ Room(Filed(p, t))
    /\ Commit(Moved(Filed(p, t), t, to))
    /\ RowsOnly

\* Mutant: a receipt is filed under any project.
FitsAnyProject(p, t) == p \in base.projects /\ (t # NoTask => HasTask(base, t))
\* add_capability_receipt: the task belongs to the project.
Fits(p, t) == p \in base.projects /\ (t # NoTask => t \in TasksOf(base, p))
AddReceipt(p, t) ==
    /\ Fits(p, t)
    /\ LET d == [base EXCEPT !.receipts = @ \cup {[of |-> p, task |-> t]}]
       IN  Room(d) /\ Commit(d)
    /\ RowsOnly

-----------------------------------------------------------------------------
(* purge_project *)

\* Mutant: the list on a surviving task is left alone.
UnscrubbedOf(d, u, lost) == d.tasks[u]
\* What is left of a surviving task: it no longer waits for a purged one.
Scrubbed(d, u, lost) == [d.tasks[u] EXCEPT !.deps = @ \ lost]

\* The DELETEs of the purge of p over the rows d.
EraseDependencies(d, p) ==
    LET mine == TasksOf(d, p)
    IN  [d EXCEPT !.edges = {e \in @ : e[1] \notin mine /\ e[2] \notin mine},
                  !.tasks = [u \in TaskIds |->
                     IF HasTask(d, u) /\ u \notin mine /\ (\E e \in d.edges : e[1] = u /\ e[2] \in mine)
                     THEN Scrubbed(d, u, mine) ELSE d.tasks[u]]]
EraseEvidence(d, p) ==
    [d EXCEPT !.evidence = {e \in @ : IF e.task = NoTask THEN e.project # p
                                      ELSE e.task \notin TasksOf(d, p)}]
EraseReceipts(d, p) == [d EXCEPT !.receipts = {r \in @ : r.of # p}]
EraseTasks(d, p) ==
    [d EXCEPT !.tasks = [u \in TaskIds |-> IF u \in TasksOf(d, p) THEN Gone ELSE d.tasks[u]]]
EraseSentinel(d, p) ==
    [d EXCEPT !.memories = [m \in Memories |->
                 IF Kept(d, m) /\ d.memories[m].of = p THEN Gone ELSE d.memories[m]],
              !.ledger[p] = <<>>]
EraseProject(d, p) == [d EXCEPT !.projects = @ \ {p}]

Erase(d, p, table) ==
    CASE table = "dependencies" -> EraseDependencies(d, p)
      [] table = "evidence"     -> EraseEvidence(d, p)
      [] table = "receipts"     -> EraseReceipts(d, p)
      [] table = "tasks"        -> EraseTasks(d, p)
      [] table = "sentinel"     -> EraseSentinel(d, p)
      [] table = "projects"     -> EraseProject(d, p)

\* Mutant: parents before children.
TasksFirst == <<"dependencies", "tasks", "evidence", "receipts", "sentinel", "projects">>
\* Mutant: evidence is looked for through the tasks when they are gone.
EvidenceLate == <<"dependencies", "receipts", "tasks", "evidence", "sentinel", "projects">>
PurgeOrder == <<"dependencies", "evidence", "receipts", "tasks", "sentinel", "projects">>

\* The rows after each statement.
Purging(d, p) ==
    LET d1 == Erase(d, p, PurgeOrder[1])
        d2 == Erase(d1, p, PurgeOrder[2])
        d3 == Erase(d2, p, PurgeOrder[3])
        d4 == Erase(d3, p, PurgeOrder[4])
        d5 == Erase(d4, p, PurgeOrder[5])
        d6 == Erase(d5, p, PurgeOrder[6])
    IN  <<d1, d2, d3, d4, d5, d6>>
Purged(d, p) == Purging(d, p)[6]

\* One transaction: a statement that fails takes back all of it.
MayPurge(d, p) ==
    LET after == Purging(d, p) IN \A i \in 1..6 : KeysHold(after[i])

PurgeProject(p) ==
    /\ p \in base.projects
    /\ MayPurge(base, p) /\ base' = Purged(base, p)
    /\ RowsOnly

-----------------------------------------------------------------------------
(* deliver *)

Underway(c, does, at) == doing[c].does = does /\ doing[c].at = at
EndCommand(c) == doing' = [doing EXCEPT ![c] = Unbusy]

AllClosed(p) == \A t \in TasksOf(base, p) : base.tasks[t].status = "closed"

\* get_project and list_tasks: none refuses, one that is not closed refuses
\* too unless the founder said partial.  What was counted here is told.
DeliverTasks(c, p, partial) ==
    /\ Underway(c, "nothing", "idle") /\ p \in base.projects
    /\ TasksOf(base, p) # {}
    /\ partial \/ AllClosed(p)
    /\ doing' = [doing EXCEPT ![c] =
         [does |-> "deliver", at |-> "holes", of |-> p, partial |-> partial,
          all |-> AllClosed(p), listed |-> TasksOf(base, p),
          unseen |-> {NoTask} \cup TasksOf(base, p)]]
    /\ UNCHANGED <<base, deliveries>>

\* _delivery_holes: the evidence of the project, then of one task at a time;
\* a hole refuses unless the founder said partial.
DeliverHoles(c) ==
    LET use == doing[c]
    IN  /\ Underway(c, "deliver", "holes")
        /\ \E t \in use.unseen :
             /\ NoTask \in use.unseen => t = NoTask
             /\ doing' = [doing EXCEPT ![c] =
                  IF \/ \E e \in base.evidence : e.task = t /\ e.project = use.of
                     \/ use.unseen = {t} /\ use.partial
                  THEN [does |-> "deliver", at |-> "render", of |-> use.of,
                        listed |-> use.listed, partial |-> use.partial, all |-> use.all]
                  ELSE IF use.unseen = {t} THEN Unbusy
                  ELSE [use EXCEPT !.unseen = use.unseen \ {t}]]
        /\ UNCHANGED <<base, deliveries>>

\* The packet is replaced.  The founder is told that all is closed when the
\* count said so, with --partial too.
DeliverPacket(c) ==
    /\ Underway(c, "deliver", "render") /\ EndCommand(c)
    /\ deliveries' = IF ~doing[c].all THEN deliveries
                     ELSE deliveries \cup {[of |-> doing[c].of, listed |-> doing[c].listed,
                                            partial |-> doing[c].partial]}
    /\ UNCHANGED base

-----------------------------------------------------------------------------
(* The Memory Sentinel *)

\* Mutant: a row is written for a project that is no longer there.
AnyProject(p) == TRUE
\* _require_sentinel_project, inside every write.
RequireProject(p) == p \in base.projects

AddMemory(m, p) ==
    /\ base.memories[m] = NoMemory /\ RequireProject(p)
    /\ Commit([base EXCEPT !.memories[m] = [of |-> p, active |-> TRUE, surfaced |-> 0]])
    /\ RowsOnly

RetireMemory(m) ==
    /\ Kept(base, m) /\ base.memories[m].active
    /\ Commit([base EXCEPT !.memories[m].active = FALSE])
    /\ RowsOnly

\* cmd_check: what is active, then the recent reminders.
CheckPool(c, p, trigger) ==
    /\ Underway(c, "nothing", "idle") /\ p \in base.projects
    /\ LET active == {m \in Memories : /\ Kept(base, m) /\ base.memories[m].of = p
                                       /\ base.memories[m].active}
       IN  doing' = [doing EXCEPT ![c] =
             [does |-> "check", at |-> "select", of |-> p, trigger |-> trigger,
              pool |-> [m \in active |-> base.memories[m].surfaced]]]
    /\ UNCHANGED <<base, deliveries>>

\* Mutant: the window ends one reminder early.
OneEarly(p) ==
    LET l == base.ledger[p]
    IN  SubSeq(l, IF Len(l) > Cooldown THEN Len(l) - Cooldown ELSE 1, Len(l) - 1)
\* recent_interventions
Recent(p) ==
    LET l == base.ledger[p]
    IN  SubSeq(l, IF Len(l) > Cooldown THEN Len(l) - Cooldown + 1 ELSE 1, Len(l))

\* select: what the trigger is about, less what is in cooldown; the overlap
\* with a failure, or with a risky action, decides by the words, and the
\* trigger of the clock goes as a boundary.
Reminders(trigger, pool, cooling) ==
    LET fit == {m \in DOMAIN pool \ cooling :
                  CASE trigger = "failure"  -> m \in Attempts
                    [] trigger = "resume"   -> m \notin Attempts
                    [] trigger = "boundary" -> m \notin Attempts /\ pool[m] = 0}
    IN  IF trigger = "failure" THEN fit \cup {NoMemory}
        ELSE IF fit = {} THEN {NoMemory}
        ELSE {m \in fit : \A n \in fit : pool[m] <= pool[n]}

CheckSelect(c) ==
    /\ Underway(c, "check", "select")
    /\ LET use == doing[c]
           cooling == {r.memory : r \in Range(Recent(use.of))}
       IN  \E m \in Reminders(use.trigger, use.pool, cooling) :
             doing' = [doing EXCEPT ![c] =
               [does |-> "check", at |-> IF m = NoMemory THEN "record" ELSE "mark",
                of |-> use.of, memory |-> m, raced |-> FALSE]]
    /\ UNCHANGED <<base, deliveries>>

\* mark_surfaced goes by the id alone: a memory that was retired since counts,
\* one that was erased turns the reminder into a silence.
CheckMark(c) ==
    LET m == doing[c].memory
    IN  /\ Underway(c, "check", "mark")
        /\ IF Kept(base, m)
           THEN /\ base.memories[m].surfaced < MaxSurfaced
                /\ base' = [base EXCEPT !.memories[m].surfaced = @ + 1]
                /\ doing' = [doing EXCEPT ![c].at = "record"]
           ELSE /\ doing' = [doing EXCEPT ![c].at = "record", ![c].memory = NoMemory]
                /\ UNCHANGED base
        /\ UNCHANGED deliveries

\* record_intervention, and only then the reminder is shown.
CheckRecord(c) ==
    LET use == doing[c]
    IN  /\ Underway(c, "check", "record")
        /\ IF RequireProject(use.of)
           THEN /\ Len(base.ledger[use.of]) < MaxReminders
                /\ base' = [base EXCEPT !.ledger[use.of] =
                               Append(@, [memory |-> use.memory, raced |-> use.raced])]
                /\ doing' = [d \in Callers |->
                     IF d = c THEN Unbusy
                     ELSE IF /\ doing[d].does = "check" /\ doing[d].of = use.of
                             /\ doing[d].at # "select"
                             /\ NoMemory \notin {use.memory, doing[d].memory}
                          THEN [doing[d] EXCEPT !.raced = TRUE]
                          ELSE doing[d]]
           ELSE EndCommand(c) /\ UNCHANGED base
        /\ UNCHANGED deliveries

Kill(c) ==
    /\ ~Underway(c, "nothing", "idle") /\ EndCommand(c) /\ UNCHANGED <<base, deliveries>>

TaskNext ==
    \/ \E t \in TaskIds, p \in Projects, s \in Born, deps \in SUBSET TaskIds :
         CreateTask(t, p, s, deps)
    \/ \E t \in TaskIds, to \in DOMAIN TaskStates : TransitionTask(t, to)
    \/ \E p \in Projects, t \in TaskIds \cup {NoTask} :
         AddReceipt(p, t) \/ \E k \in Criteria : AddTaskEvidence(p, t, k)
    \/ \E t \in TaskIds, p \in Projects, k \in Criteria, to \in DOMAIN TaskStates :
         ReviewTask(p, t, k, to)
    \/ \E c \in Callers, p \in Projects, partial \in BOOLEAN : DeliverTasks(c, p, partial)
    \/ \E c \in Callers : DeliverHoles(c) \/ DeliverPacket(c)

SentinelNext ==
    \/ \E m \in Memories : RetireMemory(m) \/ \E p \in Projects : AddMemory(m, p)
    \/ \E c \in Callers, p \in Projects, g \in {"failure", "resume", "boundary"} : CheckPool(c, p, g)
    \/ \E c \in Callers : CheckSelect(c) \/ CheckMark(c) \/ CheckRecord(c)

ProjectNext ==
    \/ \E p \in Projects : UpsertProject(p) \/ PurgeProject(p)
    \/ \E c \in Callers : Kill(c)

JNext == TaskNext \/ SentinelNext \/ ProjectNext

JSpec == JInit /\ [][JNext]_jvars

-----------------------------------------------------------------------------
(* What the founder may rely on *)

\* The rows of the tables.
Tables == [projects : SUBSET Projects,
           tasks : [TaskIds -> TaskRow \cup {NoTask, Gone}],
           edges : SUBSET (TaskIds \X TaskIds),
           evidence : SUBSET [project : Projects, task : TaskIds \cup {NoTask}],
           receipts : SUBSET [of : Projects, task : TaskIds \cup {NoTask}],
           memories : [Memories -> MemoryRow \cup {NoMemory, Gone}],
           ledger : [Projects -> Seq([memory : Memories \cup {NoMemory}, raced : BOOLEAN])]]

\* What a command has read.
Commands ==
    [does : {"nothing"}, at : {"idle"}]
    \cup [does : {"deliver"}, at : {"holes"}, of : Projects, partial : BOOLEAN,
          all : BOOLEAN, listed : SUBSET TaskIds, unseen : SUBSET (TaskIds \cup {NoTask})]
    \cup [does : {"deliver"}, at : {"render"}, of : Projects, partial : BOOLEAN,
          all : BOOLEAN, listed : SUBSET TaskIds]
    \cup [does : {"check"}, at : {"select"}, of : Projects,
          trigger : {"failure", "resume", "boundary"},
          pool : UNION {[s -> 0..MaxSurfaced] : s \in SUBSET Memories}]
    \cup [does : {"check"}, at : {"mark"}, of : Projects,
          memory : Memories, raced : BOOLEAN]
    \cup [does : {"check"}, at : {"record"}, of : Projects,
          memory : Memories \cup {NoMemory}, raced : BOOLEAN]

JTypeOK ==
    /\ base \in Tables
    /\ doing \in [Callers -> Commands]
    /\ deliveries \subseteq [of : Projects, listed : SUBSET TaskIds, partial : BOOLEAN]

NothingOf(d, p) ==
    /\ TasksOf(d, p) = {} /\ d.ledger[p] = <<>>
    /\ \A e \in d.evidence : e.project # p
    /\ \A r \in d.receipts : r.of # p
    /\ \A m \in Memories : Kept(d, m) => d.memories[m].of # p

\* A project that is not there has left nothing behind: no task, evidence,
\* receipt, memory or reminder, also not one that a command which began
\* before the purge writes after it (_require_sentinel_project: prose filed
\* under it could never be purged by the command that exists to purge it).
NothingLeftBehind == \A p \in Projects \ base.projects : NothingOf(base, p)

\* No rows, of this project or another's, ever make a purge fail, or leave
\* some of the project's behind (purge_project: a crash on the one command
\* that exists to erase).
PurgesErase == \A p \in base.projects :
    MayPurge(base, p) /\ NothingOf(Purged(base, p), p)

\* The queryable dependencies and the list on the row never disagree about
\* what a surviving task waits for (purge_project, create_task).
MirrorsAgree == \A t \in TaskIds : HasTask(base, t) =>
    base.tasks[t].deps = {u \in TaskIds : <<t, u>> \in base.edges}

OnEvidence(d) ==
    \E e \in base.evidence : e.project = d.of /\ e.task \in d.listed \cup {NoTask}

\* What was told as all closed stays so until it is purged: its tasks were
\* closed and are, whatever was moved while the command read; and, unless the
\* founder said partial, evidence of the work is on record (cmd_deliver,
\* _delivery_holes).
DeliveredStands == \A d \in deliveries :
    \/ \A t \in d.listed : base.tasks[t] = Gone
    \/ /\ \A t \in d.listed : HasTask(base, t) /\ base.tasks[t].status = "closed"
       /\ d.partial \/ OnEvidence(d)

\* "A hollow project may never be certified as a SUCCESS" (cmd_deliver).
\* Checked by no run: with --partial, tasks that are all closed are told as
\* all closed with no evidence on record.
NoHollowDelivery == \A d \in deliveries :
    (\A t \in d.listed : base.tasks[t] = Gone) \/ OnEvidence(d)

\* A memory comes up again within the cooldown only when two checks ran at
\* once: not when a check was killed between marking and recording, not
\* after a silence (select: a blanket filter).
RemindersCoolDown == \A p \in Projects :
    LET l == base.ledger[p]
    IN  \A i, j \in DOMAIN l :
          /\ i < j /\ j - i <= Cooldown /\ l[i].memory # NoMemory
          /\ l[j].memory = l[i].memory
          => l[j].raced
=============================================================================
