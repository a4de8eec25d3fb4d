--------------------------- MODULE ProjectsProofs ---------------------------
(***************************************************************************)
(* Proofs about Projects: a purge always goes through and leaves nothing   *)
(* of the project, whatever the rows are; the two records of what a task   *)
(* waits for agree; what was delivered stands; a reminder cools down.      *)
(*                                                                         *)
(* The inductive invariant says whose the rows are (Owned): evidence and a *)
(* receipt that name a task name one of their own project.  The foreign    *)
(* keys do not: they let a receipt of one project name a task of another,  *)
(* which would make the purge of the other one fail.                       *)
(***************************************************************************)
EXTENDS Projects, FunctionTheorems, SequenceTheorems, TLAPS

\* A row that names a task is filed under the task's own project.
FiledRight(d) ==
    /\ \A e \in d.evidence : e.task # NoTask => e.task \in TasksOf(d, e.project)
    /\ \A r \in d.receipts : r.task # NoTask => r.task \in TasksOf(d, r.of)

\* What no foreign key keeps: evidence, memories and reminders are of a
\* project that is there.
Owned(d) ==
    /\ \A e \in d.evidence : e.project \in d.projects
    /\ \A m \in Memories : Kept(d, m) => d.memories[m].of \in d.projects
    /\ \A p \in Projects \ d.projects : d.ledger[p] = <<>>

Mirrored(d) == \A t \in TaskIds : HasTask(d, t) =>
    d.tasks[t].deps = {u \in TaskIds : <<t, u>> \in d.edges}

RowsInv(d) == d \in Tables /\ KeysHold(d) /\ FiledRight(d) /\ Owned(d) /\ Mirrored(d)

\* The tasks that deliver listed as all closed: still there and closed, or
\* purged, all of them at once.
Erased(d, listed) == \A t \in listed : d.tasks[t] = Gone
Closed(d, of, listed) ==
    \A t \in listed : t \in TasksOf(d, of) /\ d.tasks[t].status = "closed"
Proven(d, of, listed) ==
    \E e \in d.evidence : e.project = of /\ e.task \in listed \cup {NoTask}
Listed(d, of, listed) == Erased(d, listed) \/ Closed(d, of, listed)
Certified(d, of, listed, partial) ==
    Erased(d, listed) \/ (Closed(d, of, listed) /\ (partial \/ Proven(d, of, listed)))

DeliverInv ==
    /\ \A v \in deliveries : Certified(base, v.of, v.listed, v.partial)
    /\ \A c \in Callers : doing[c].does = "deliver" /\ doing[c].all =>
         /\ doing[c].at = "holes" =>
              /\ Listed(base, doing[c].of, doing[c].listed)
              /\ doing[c].unseen \subseteq doing[c].listed \cup {NoTask}
         /\ doing[c].at = "render" =>
              Certified(base, doing[c].of, doing[c].listed, doing[c].partial)

\* A check that chose a memory, and that no other check has overtaken since,
\* would not repeat one of the last Cooldown reminders.
Unused(l, m) == \A i \in DOMAIN l : i > Len(l) - Cooldown => l[i].memory # m
ChosenAfresh == \A c \in Callers :
    /\ doing[c].does = "check" /\ doing[c].at \in {"mark", "record"}
    /\ doing[c].memory # NoMemory /\ ~doing[c].raced
    => Unused(base.ledger[doing[c].of], doing[c].memory)

CoolInv == ChosenAfresh /\ RemindersCoolDown

JInv == JTypeOK /\ RowsInv(base) /\ DeliverInv /\ CoolInv

-----------------------------------------------------------------------------
(* The operators *)

\* The order of the stages names every state once: the stage of a state is
\* where the state is (schema.STATES.index).
LEMMA StagesNameStates ==
    ASSUME NEW s \in Range(TaskStates)
    PROVE  Stage[s] \in DOMAIN TaskStates /\ TaskStates[Stage[s]] = s
<1>1. \E i \in DOMAIN TaskStates : TaskStates[i] = s
  BY DEF Range
<1>2. QED
  BY <1>1 DEF Stage

\* A task on record is a row of its own project's; a memory is a row.
LEMMA RowsAreRows ==
    ASSUME NEW d \in Tables
    PROVE  /\ \A t \in TaskIds : HasTask(d, t) <=> d.tasks[t] \in TaskRow
           /\ \A m \in Memories : Kept(d, m) <=> d.memories[m] \in MemoryRow
BY NothingIsNoRow DEF Tables, HasTask, Kept

\* upsert_project keeps the rows right.
LEMMA UpsertRows ==
    ASSUME NEW d, RowsInv(d), NEW p \in Projects
    PROVE  RowsInv([d EXCEPT !.projects = @ \cup {p}])
<1> DEFINE e == [d EXCEPT !.projects = @ \cup {p}]
<1>1. /\ e \in Tables /\ e.projects = d.projects \cup {p} /\ e.tasks = d.tasks /\ e.edges = d.edges
      /\ e.evidence = d.evidence /\ e.receipts = d.receipts /\ e.memories = d.memories
      /\ e.ledger = d.ledger
  BY DEF RowsInv, Tables
<1> HIDE DEF e
<1>2. KeysHold(e)
  BY <1>1 DEF RowsInv, KeysHold, HasTask
<1>3. FiledRight(e) /\ Mirrored(e)
  BY <1>1 DEF RowsInv, FiledRight, Mirrored, HasTask, TasksOf
<1>4. Owned(e)
  BY <1>1 DEF RowsInv, Owned, Kept
<1>5. QED
  BY <1>1, <1>2, <1>3, <1>4 DEF RowsInv, e

\* create_task: the list on the row and the mirror are written together, and
\* no row named the new task before.
LEMMA CreateRows ==
    ASSUME NEW d, RowsInv(d), NEW t \in TaskIds, d.tasks[t] = NoTask,
           NEW row \in TaskRow, KeysHold(Created(d, t, row))
    PROVE  /\ RowsInv(Created(d, t, row))
           /\ Created(d, t, row).tasks = [d.tasks EXCEPT ![t] = row]
           /\ Created(d, t, row).evidence = d.evidence
<1> DEFINE mirror == {<<t, u>> : u \in row.deps}
           e == Created(d, t, row)
<1>0. e = [d EXCEPT !.tasks[t] = row, !.edges = @ \cup mirror] /\ KeysHold(e)
  BY DEF Created
<1> HIDE DEF e
<1>1. /\ e \in Tables /\ e.projects = d.projects /\ e.tasks = [d.tasks EXCEPT ![t] = row]
      /\ e.edges = d.edges \cup mirror
      /\ e.evidence = d.evidence /\ e.receipts = d.receipts /\ e.memories = d.memories
      /\ e.ledger = d.ledger
  <2> DEFINE T == [d.tasks EXCEPT ![t] = row]
             E == d.edges \cup mirror
  <2>1. T \in [TaskIds -> TaskRow \cup {NoTask, Gone}] /\ E \subseteq TaskIds \X TaskIds
    <3>1. row.deps \subseteq TaskIds
      BY DEF TaskRow
    <3>2. QED
      BY <3>1 DEF RowsInv, Tables
  <2>2. e = [d EXCEPT !.tasks = T, !.edges = E]
    BY <1>0
  <2>3. d \in Tables
    BY DEF RowsInv
  <2> HIDE DEF T, E
  <2>4. /\ e \in Tables /\ e.projects = d.projects /\ e.tasks = T /\ e.edges = E
        /\ e.evidence = d.evidence /\ e.receipts = d.receipts /\ e.memories = d.memories
        /\ e.ledger = d.ledger
    BY ONLY <2>1, <2>2, <2>3 DEF Tables
  <2>5. QED
    BY <2>4 DEF T, E
<1>2. /\ ~HasTask(d, t) /\ HasTask(e, t)
      /\ \A u \in TaskIds \ {t} : e.tasks[u] = d.tasks[u]
      /\ e.tasks[t] = row
  BY <1>1, NothingIsNoRow DEF RowsInv, Tables, HasTask
<1>3. \A q : TasksOf(d, q) \subseteq TasksOf(e, q)
  BY <1>2 DEF TasksOf, HasTask
<1>4. FiledRight(e)
  BY <1>1, <1>3 DEF RowsInv, FiledRight
<1>5. Owned(e)
  BY <1>1 DEF RowsInv, Owned, Kept
<1>6. Mirrored(e)
  <2> SUFFICES ASSUME NEW u \in TaskIds, HasTask(e, u)
               PROVE  e.tasks[u].deps = {v \in TaskIds : <<u, v>> \in e.edges}
    BY DEF Mirrored
  <2>1. CASE u = t
    <3>1. \A v : <<t, v>> \notin d.edges
      BY <1>2 DEF RowsInv, KeysHold
    <3>2. QED
      BY <1>1, <1>2, <2>1, <3>1 DEF TaskRow
  <2>2. CASE u # t
    <3>1. HasTask(d, u) /\ e.tasks[u] = d.tasks[u]
      BY <1>2, <2>2 DEF HasTask
    <3>2. \A v \in TaskIds : <<u, v>> \in e.edges <=> <<u, v>> \in d.edges
      BY <1>1, <2>2
    <3>3. QED
      BY <3>1, <3>2 DEF RowsInv, Mirrored
  <2>3. QED
    BY <2>1, <2>2
<1>7. QED
  BY <1>0, <1>1, <1>4, <1>5, <1>6 DEF RowsInv, e

\* A move of a task changes its state alone.
LEMMA MoveRows ==
    ASSUME NEW d, RowsInv(d), NEW t \in TaskIds, HasTask(d, t),
           NEW to \in DOMAIN TaskStates
    PROVE  /\ RowsInv(Moved(d, t, to))
           /\ \A u \in TaskIds \ {t} : Moved(d, t, to).tasks[u] = d.tasks[u]
           /\ HasTask(Moved(d, t, to), t)
           /\ Moved(d, t, to).evidence = d.evidence
<1>0. d.tasks[t] \in TaskRow
  BY RowsAreRows DEF RowsInv
<1> DEFINE s == TaskStates[to]
           row == [d.tasks[t] EXCEPT !.status = s]
           e == Moved(d, t, to)
<1>a. s \in Range(TaskStates)
  BY DEF Range
<1> HIDE DEF s
<1>1. row \in TaskRow /\ row.of = d.tasks[t].of /\ row.deps = d.tasks[t].deps
  BY <1>0, <1>a DEF TaskRow
<1>2. e = [d EXCEPT !.tasks = [d.tasks EXCEPT ![t] = row]]
  BY <1>0 DEF RowsInv, Tables, Moved, s
<1> HIDE DEF row, e
<1>3. /\ e \in Tables /\ e.projects = d.projects /\ e.tasks = [d.tasks EXCEPT ![t] = row]
      /\ e.edges = d.edges
      /\ e.evidence = d.evidence /\ e.receipts = d.receipts /\ e.memories = d.memories
      /\ e.ledger = d.ledger
  <2>1. [d.tasks EXCEPT ![t] = row] \in [TaskIds -> TaskRow \cup {NoTask, Gone}]
    BY <1>1 DEF RowsInv, Tables
  <2>2. QED
    BY <1>2, <2>1 DEF RowsInv, Tables
<1>4. \A u \in TaskIds : /\ HasTask(e, u) <=> HasTask(d, u)
                         /\ HasTask(d, u) => /\ e.tasks[u].of = d.tasks[u].of
                                             /\ e.tasks[u].deps = d.tasks[u].deps
  BY <1>0, <1>1, <1>3, NothingIsNoRow DEF HasTask, RowsInv, Tables
<1>5. \A q : TasksOf(d, q) = TasksOf(e, q)
  BY <1>4 DEF TasksOf
<1>6. KeysHold(e)
  <2>1. \A u \in TaskIds : HasTask(e, u) => e.tasks[u].of \in e.projects
    BY <1>3, <1>4 DEF RowsInv, KeysHold
  <2>2. \A v \in e.edges : HasTask(e, v[1]) /\ HasTask(e, v[2])
    BY <1>3, <1>4 DEF RowsInv, KeysHold, Tables
  <2>3. \A r \in e.receipts : r.of \in e.projects /\ (r.task # NoTask => HasTask(e, r.task))
    BY <1>3, <1>4 DEF RowsInv, KeysHold, Tables
  <2>4. QED
    BY <2>1, <2>2, <2>3 DEF KeysHold
<1>7. FiledRight(e)
  BY <1>3, <1>5 DEF RowsInv, FiledRight
<1>8. Owned(e)
  BY <1>3 DEF RowsInv, Owned, Kept
<1>9. Mirrored(e)
  BY <1>3, <1>4 DEF RowsInv, Mirrored
<1>10. QED
  BY <1>3, <1>4, <1>6, <1>7, <1>8, <1>9 DEF RowsInv, e, Tables

\* Evidence and receipts, filed on a project that is there, or on a task under
\* the task's own project.
LEMMA FiledRows ==
    ASSUME NEW d, RowsInv(d), NEW p \in d.projects, NEW t \in TaskIds \cup {NoTask},
           t # NoTask => t \in TasksOf(d, p)
    PROVE  /\ RowsInv([d EXCEPT !.evidence = @ \cup {[project |-> p, task |-> t]}])
           /\ RowsInv([d EXCEPT !.receipts = @ \cup {[of |-> p, task |-> t]}])
<1> DEFINE v == [project |-> p, task |-> t]
           r == [of |-> p, task |-> t]
           e == [d EXCEPT !.evidence = @ \cup {v}]
           f == [d EXCEPT !.receipts = @ \cup {r}]
<1>1. /\ v \in [project : Projects, task : TaskIds \cup {NoTask}]
      /\ r \in [of : Projects, task : TaskIds \cup {NoTask}]
      /\ v.project = p /\ v.task = t /\ r.of = p /\ r.task = t
  BY DEF RowsInv, Tables
<1> HIDE DEF v, r
<1>2. /\ e \in Tables /\ e.projects = d.projects /\ e.tasks = d.tasks /\ e.edges = d.edges
      /\ e.evidence = d.evidence \cup {v} /\ e.receipts = d.receipts /\ e.memories = d.memories
      /\ e.ledger = d.ledger
  BY <1>1 DEF RowsInv, Tables
<1>3. /\ f \in Tables /\ f.projects = d.projects /\ f.tasks = d.tasks /\ f.edges = d.edges
      /\ f.evidence = d.evidence /\ f.receipts = d.receipts \cup {r} /\ f.memories = d.memories
      /\ f.ledger = d.ledger
  BY <1>1 DEF RowsInv, Tables
<1> HIDE DEF e, f
<1>4. RowsInv(e)
  <2>1. KeysHold(e) /\ Mirrored(e)
    BY <1>2 DEF RowsInv, KeysHold, HasTask, Mirrored
  <2>2. FiledRight(e)
    BY <1>1, <1>2 DEF RowsInv, FiledRight, HasTask, TasksOf
  <2>3. Owned(e)
    BY <1>1, <1>2 DEF RowsInv, Owned, Kept
  <2>4. QED
    BY <1>2, <2>1, <2>2, <2>3 DEF RowsInv
<1>5. RowsInv(f)
  <2>1. t # NoTask => HasTask(d, t)
    BY DEF TasksOf
  <2>2. KeysHold(f) /\ Mirrored(f)
    BY <1>1, <1>3, <2>1 DEF RowsInv, KeysHold, HasTask, Mirrored
  <2>3. FiledRight(f)
    BY <1>1, <1>3 DEF RowsInv, FiledRight, HasTask, TasksOf
  <2>4. Owned(f)
    BY <1>3 DEF RowsInv, Owned, Kept
  <2>5. QED
    BY <1>3, <2>2, <2>3, <2>4 DEF RowsInv
<1>6. QED
  BY <1>4, <1>5 DEF e, f, v, r

\* A memory of a project that is there, and its reminders.
LEMMA SentinelRows ==
    ASSUME NEW d, RowsInv(d)
    PROVE  /\ \A m \in Memories, row \in MemoryRow : row.of \in d.projects =>
                RowsInv([d EXCEPT !.memories[m] = row])
           /\ \A p \in d.projects, l \in Seq([memory : Memories \cup {NoMemory}, raced : BOOLEAN]) :
                RowsInv([d EXCEPT !.ledger[p] = l])
<1>1. ASSUME NEW m \in Memories, NEW row \in MemoryRow, row.of \in d.projects
      PROVE  RowsInv([d EXCEPT !.memories[m] = row])
  <2> DEFINE e == [d EXCEPT !.memories[m] = row]
  <2>1. /\ e \in Tables /\ e.projects = d.projects /\ e.tasks = d.tasks /\ e.edges = d.edges
        /\ e.evidence = d.evidence /\ e.receipts = d.receipts /\ e.ledger = d.ledger
        /\ e.memories = [d.memories EXCEPT ![m] = row]
    <3>1. [d.memories EXCEPT ![m] = row] \in [Memories -> MemoryRow \cup {NoMemory, Gone}]
      BY DEF RowsInv, Tables
    <3>2. QED
      BY <3>1 DEF RowsInv, Tables
  <2> HIDE DEF e
  <2>2. KeysHold(e) /\ Mirrored(e) /\ FiledRight(e)
    BY <2>1 DEF RowsInv, KeysHold, HasTask, Mirrored, FiledRight, TasksOf
  <2>3. Owned(e)
    BY <1>1, <2>1 DEF RowsInv, Owned, Kept, Tables
  <2>4. QED
    BY <2>1, <2>2, <2>3 DEF RowsInv, e
<1>2. ASSUME NEW p \in d.projects,
             NEW l \in Seq([memory : Memories \cup {NoMemory}, raced : BOOLEAN])
      PROVE  RowsInv([d EXCEPT !.ledger[p] = l])
  <2> DEFINE e == [d EXCEPT !.ledger[p] = l]
  <2>1. /\ e \in Tables /\ e.projects = d.projects /\ e.tasks = d.tasks /\ e.edges = d.edges
        /\ e.evidence = d.evidence /\ e.receipts = d.receipts /\ e.memories = d.memories
        /\ e.ledger = [d.ledger EXCEPT ![p] = l]
    BY DEF RowsInv, Tables
  <2> HIDE DEF e
  <2>2. KeysHold(e) /\ Mirrored(e) /\ FiledRight(e)
    BY <2>1 DEF RowsInv, KeysHold, HasTask, Mirrored, FiledRight, TasksOf
  <2>3. Owned(e)
    BY <2>1 DEF RowsInv, Owned, Kept, Tables
  <2>4. QED
    BY <2>1, <2>2, <2>3 DEF RowsInv, e
<1>3. QED
  BY <1>1, <1>2

-----------------------------------------------------------------------------
(* The purge, one statement at a time *)

\* The first statement: no edge touches a task of the project any more, and
\* the list of every task of another project says the same.
LEMMA DependenciesErased ==
    ASSUME NEW d, RowsInv(d), NEW p \in Projects,
           NEW e, e = EraseDependencies(d, p)
    PROVE  /\ e \in Tables /\ e.projects = d.projects /\ e.evidence = d.evidence
           /\ e.receipts = d.receipts /\ e.memories = d.memories /\ e.ledger = d.ledger
           /\ e.edges = {v \in d.edges : v[1] \notin TasksOf(d, p) /\ v[2] \notin TasksOf(d, p)}
           /\ \A u \in TaskIds :
                /\ HasTask(e, u) <=> HasTask(d, u)
                /\ e.tasks[u] = Gone <=> d.tasks[u] = Gone
                /\ HasTask(d, u) => /\ e.tasks[u].of = d.tasks[u].of
                                    /\ e.tasks[u].status = d.tasks[u].status
                /\ HasTask(d, u) /\ u \notin TasksOf(d, p) =>
                     e.tasks[u].deps = {w \in TaskIds : <<u, w>> \in e.edges}
           /\ KeysHold(e)
<1> DEFINE mine == TasksOf(d, p)
           Waits(u) == HasTask(d, u) /\ u \notin mine
                       /\ (\E v \in d.edges : v[1] = u /\ v[2] \in mine)
           T == [u \in TaskIds |-> IF Waits(u) THEN Scrubbed(d, u, mine) ELSE d.tasks[u]]
           E == {v \in d.edges : v[1] \notin mine /\ v[2] \notin mine}
<1>1. e = [d EXCEPT !.edges = E, !.tasks = T]
  BY DEF EraseDependencies
<1>2. \A u \in TaskIds : HasTask(d, u) =>
        /\ Scrubbed(d, u, mine) \in TaskRow
        /\ Scrubbed(d, u, mine).of = d.tasks[u].of
        /\ Scrubbed(d, u, mine).status = d.tasks[u].status
        /\ Scrubbed(d, u, mine).deps = d.tasks[u].deps \ mine
  BY RowsAreRows DEF RowsInv, Scrubbed, TaskRow
<1>3. T \in [TaskIds -> TaskRow \cup {NoTask, Gone}]
  <2>1. d.tasks \in [TaskIds -> TaskRow \cup {NoTask, Gone}]
    BY DEF RowsInv, Tables
  <2>2. QED
    BY <1>2, <2>1
<1>4. E \subseteq TaskIds \X TaskIds /\ d \in Tables
  BY DEF RowsInv, Tables
<1>5. /\ e \in Tables /\ e.projects = d.projects /\ e.evidence = d.evidence
      /\ e.receipts = d.receipts /\ e.memories = d.memories /\ e.ledger = d.ledger
      /\ e.edges = E /\ e.tasks = T
  <2> HIDE DEF E, T
  <2> QED
    BY ONLY <1>1, <1>3, <1>4 DEF Tables
<1>6. \A u \in TaskIds :
        /\ HasTask(e, u) <=> HasTask(d, u)
        /\ e.tasks[u] = Gone <=> d.tasks[u] = Gone
        /\ HasTask(d, u) => /\ e.tasks[u].of = d.tasks[u].of
                            /\ e.tasks[u].status = d.tasks[u].status
  BY <1>2, <1>5, NothingIsNoRow DEF HasTask
<1>7. ASSUME NEW u \in TaskIds, HasTask(d, u), u \notin mine
      PROVE  e.tasks[u].deps = {w \in TaskIds : <<u, w>> \in e.edges}
  <2>1. d.tasks[u].deps = {w \in TaskIds : <<u, w>> \in d.edges}
    BY <1>7 DEF RowsInv, Mirrored
  <2>2. \A w \in TaskIds : <<u, w>> \in e.edges <=> <<u, w>> \in d.edges /\ w \notin mine
    BY <1>5, <1>7
  <2>3. CASE Waits(u)
    BY <1>2, <1>5, <2>1, <2>2, <2>3
  <2>4. CASE ~Waits(u)
    <3>1. \A w \in TaskIds : <<u, w>> \in d.edges => w \notin mine
      BY <1>7, <2>4
    <3>2. QED
      BY <1>5, <2>1, <2>2, <2>4, <3>1
  <2>5. QED
    BY <2>3, <2>4
<1>8. KeysHold(e)
  BY <1>4, <1>5, <1>6 DEF RowsInv, KeysHold, Tables
<1>9. QED
  BY <1>5, <1>6, <1>7, <1>8

\* What is left of the rows of every other project, and of this one nothing;
\* no statement on the way breaks a key (purge_project: children before
\* parents, as PurgeOrder has them).
LEMMA PurgedRows ==
    ASSUME NEW d, RowsInv(d), NEW p \in d.projects, NEW e, e = Purged(d, p)
    PROVE  /\ MayPurge(d, p)
           /\ RowsInv(e)
           /\ NothingOf(e, p)
           /\ \A u \in TaskIds :
                /\ u \in TasksOf(d, p) => e.tasks[u] = Gone
                /\ u \notin TasksOf(d, p) =>
                     /\ e.tasks[u] = Gone <=> d.tasks[u] = Gone
                     /\ HasTask(e, u) <=> HasTask(d, u)
                     /\ HasTask(d, u) => /\ e.tasks[u].of = d.tasks[u].of
                                         /\ e.tasks[u].status = d.tasks[u].status
           /\ \A v \in d.evidence : v.project # p => v \in e.evidence
           /\ e.ledger = [d.ledger EXCEPT ![p] = <<>>]
<1> DEFINE mine == TasksOf(d, p)
           d1 == EraseDependencies(d, p)
           d2 == EraseEvidence(d1, p)
           d3 == EraseReceipts(d2, p)
           d4 == EraseTasks(d3, p)
           d5 == EraseSentinel(d4, p)
           d6 == EraseProject(d5, p)
<1>1. Purging(d, p) = <<d1, d2, d3, d4, d5, d6>>
  <2>1. \A x : /\ Erase(x, p, PurgeOrder[1]) = EraseDependencies(x, p)
               /\ Erase(x, p, PurgeOrder[2]) = EraseEvidence(x, p)
               /\ Erase(x, p, PurgeOrder[3]) = EraseReceipts(x, p)
               /\ Erase(x, p, PurgeOrder[4]) = EraseTasks(x, p)
               /\ Erase(x, p, PurgeOrder[5]) = EraseSentinel(x, p)
               /\ Erase(x, p, PurgeOrder[6]) = EraseProject(x, p)
    BY DEF Erase, PurgeOrder
  <2>2. QED
    BY <2>1, Zenon DEF Purging
<1> HIDE DEF d1, d2, d3, d4, d5, d6
<1>2. p \in Projects
  BY DEF RowsInv, Tables
<1>3. /\ d1 \in Tables /\ d1.projects = d.projects /\ d1.evidence = d.evidence
      /\ d1.receipts = d.receipts /\ d1.memories = d.memories /\ d1.ledger = d.ledger
      /\ d1.edges = {v \in d.edges : v[1] \notin mine /\ v[2] \notin mine}
      /\ \A u \in TaskIds :
           /\ HasTask(d1, u) <=> HasTask(d, u)
           /\ d1.tasks[u] = Gone <=> d.tasks[u] = Gone
           /\ HasTask(d, u) => /\ d1.tasks[u].of = d.tasks[u].of
                               /\ d1.tasks[u].status = d.tasks[u].status
           /\ HasTask(d, u) /\ u \notin mine =>
                d1.tasks[u].deps = {w \in TaskIds : <<u, w>> \in d1.edges}
      /\ KeysHold(d1)
  BY <1>2, DependenciesErased DEF d1
<1>4. TasksOf(d1, p) = mine
  BY <1>3 DEF TasksOf
<1>5. /\ d2 \in Tables /\ d2.projects = d.projects /\ d2.tasks = d1.tasks /\ d2.edges = d1.edges
      /\ d2.evidence = {v \in d.evidence : IF v.task = NoTask THEN v.project # p
                                           ELSE v.task \notin mine}
      /\ d2.receipts = d.receipts /\ d2.memories = d.memories /\ d2.ledger = d.ledger
  BY <1>3, <1>4 DEF EraseEvidence, Tables, d2
<1>6. KeysHold(d2) /\ TasksOf(d2, p) = mine
  BY <1>3, <1>4, <1>5 DEF KeysHold, HasTask, TasksOf
<1>7. /\ d3 \in Tables /\ d3.projects = d.projects /\ d3.tasks = d1.tasks /\ d3.edges = d1.edges
      /\ d3.evidence = d2.evidence /\ d3.receipts = {r \in d.receipts : r.of # p}
      /\ d3.memories = d.memories /\ d3.ledger = d.ledger
  BY <1>5 DEF EraseReceipts, Tables, d3
<1>8. KeysHold(d3) /\ TasksOf(d3, p) = mine
  BY <1>5, <1>6, <1>7 DEF KeysHold, HasTask, TasksOf
<1>9. /\ d4 \in Tables /\ d4.projects = d.projects /\ d4.edges = d1.edges
      /\ d4.tasks = [u \in TaskIds |-> IF u \in mine THEN Gone ELSE d1.tasks[u]]
      /\ d4.evidence = d2.evidence /\ d4.receipts = d3.receipts
      /\ d4.memories = d.memories /\ d4.ledger = d.ledger
  <2> DEFINE T == [u \in TaskIds |-> IF u \in mine THEN Gone ELSE d1.tasks[u]]
  <2>1. T \in [TaskIds -> TaskRow \cup {NoTask, Gone}]
    BY <1>3 DEF Tables
  <2>2. d4 = [d3 EXCEPT !.tasks = T]
    BY <1>7, <1>8 DEF EraseTasks, d4
  <2> HIDE DEF T
  <2>3. d4 \in Tables /\ d4.projects = d3.projects /\ d4.edges = d3.edges /\ d4.tasks = T
        /\ d4.evidence = d3.evidence /\ d4.receipts = d3.receipts
        /\ d4.memories = d3.memories /\ d4.ledger = d3.ledger
    BY ONLY <1>7, <2>1, <2>2 DEF Tables
  <2>4. QED
    BY <1>7, <2>3 DEF T
<1>10. \A u \in TaskIds : HasTask(d4, u) <=> HasTask(d, u) /\ u \notin mine
  BY <1>3, <1>9 DEF HasTask
<1>11. KeysHold(d4)
  <2>1. \A u \in TaskIds : HasTask(d4, u) => d4.tasks[u].of \in d4.projects
    BY <1>3, <1>9, <1>10 DEF RowsInv, KeysHold
  <2>2. \A v \in d4.edges : HasTask(d4, v[1]) /\ HasTask(d4, v[2])
    BY <1>3, <1>9, <1>10 DEF RowsInv, KeysHold, Tables
  <2>3. \A r \in d4.receipts : r.of \in d4.projects /\ (r.task # NoTask => HasTask(d4, r.task))
    <3> SUFFICES ASSUME NEW r \in d.receipts, r.of # p
                 PROVE  r.of \in d.projects /\ (r.task # NoTask => HasTask(d4, r.task))
      BY <1>7, <1>9
    <3>1. r.task # NoTask => r.task \in TasksOf(d, r.of) /\ r.task \in TaskIds
      BY DEF RowsInv, FiledRight, TasksOf
    <3>2. r.task # NoTask => HasTask(d, r.task) /\ r.task \notin mine
      BY <3>1 DEF TasksOf
    <3>3. QED
      BY <1>10, <3>1, <3>2 DEF RowsInv, KeysHold
  <2>4. QED
    BY <2>1, <2>2, <2>3 DEF KeysHold
<1> DEFINE M == [m \in Memories |-> IF Kept(d, m) /\ d.memories[m].of = p THEN Gone
                                    ELSE d.memories[m]]
<1>12. /\ d5 \in Tables /\ d5.projects = d.projects /\ d5.edges = d1.edges /\ d5.tasks = d4.tasks
       /\ d5.evidence = d2.evidence /\ d5.receipts = d3.receipts
       /\ d5.memories = M /\ d5.ledger = [d.ledger EXCEPT ![p] = <<>>]
  <2>1. M \in [Memories -> MemoryRow \cup {NoMemory, Gone}]
    BY DEF RowsInv, Tables
  <2>2. d5 = [d4 EXCEPT !.memories = M, !.ledger = [d.ledger EXCEPT ![p] = <<>>]]
    BY <1>9 DEF EraseSentinel, Kept, d5
  <2>3. [d.ledger EXCEPT ![p] = <<>>]
          \in [Projects -> Seq([memory : Memories \cup {NoMemory}, raced : BOOLEAN])]
    <3> DEFINE S == Seq([memory : Memories \cup {NoMemory}, raced : BOOLEAN])
    <3>1. d.ledger \in [Projects -> S]
      BY DEF RowsInv, Tables
    <3>2. <<>> \in S
      OBVIOUS
    <3> HIDE DEF S
    <3>3. [d.ledger EXCEPT ![p] = <<>>] \in [Projects -> S]
      BY <3>1, <3>2
    <3>4. QED
      BY <3>3 DEF S
  <2> DEFINE L == [d.ledger EXCEPT ![p] = <<>>]
  <2> HIDE DEF M, L
  <2>4. d5 = [d4 EXCEPT !.memories = M, !.ledger = L]
    BY <2>2 DEF L
  <2>5. L \in [Projects -> Seq([memory : Memories \cup {NoMemory}, raced : BOOLEAN])]
    BY <2>3 DEF L
  <2>6. /\ d5 \in Tables /\ d5.projects = d4.projects /\ d5.edges = d4.edges
        /\ d5.tasks = d4.tasks /\ d5.evidence = d4.evidence /\ d5.receipts = d4.receipts
        /\ d5.memories = M /\ d5.ledger = L
    BY ONLY <1>9, <2>1, <2>4, <2>5 DEF Tables
  <2>7. QED
    BY <1>9, <2>6 DEF L
<1>13. KeysHold(d5)
  BY <1>9, <1>11, <1>12 DEF KeysHold, HasTask
<1>14. /\ d6 \in Tables /\ d6.projects = d.projects \ {p} /\ d6.edges = d1.edges
       /\ d6.tasks = d4.tasks /\ d6.evidence = d2.evidence /\ d6.receipts = d3.receipts
       /\ d6.memories = d5.memories /\ d6.ledger = d5.ledger
  <2> HIDE DEF M
  <2> QED
    BY <1>12 DEF EraseProject, Tables, d6
<1>15. e = d6
  BY <1>1 DEF Purged
<1>16. \A u \in TaskIds : HasTask(d6, u) <=> HasTask(d, u) /\ u \notin mine
  BY <1>10, <1>14 DEF HasTask
<1>17. \A u \in TaskIds \ mine : HasTask(d, u) => d6.tasks[u].of = d.tasks[u].of /\ d.tasks[u].of # p
  BY <1>3, <1>9, <1>14 DEF TasksOf
<1>18. \A q \in Projects \ {p} : TasksOf(d6, q) = TasksOf(d, q)
  BY <1>16, <1>17 DEF TasksOf
<1>19. KeysHold(d6)
  <2>1. \A u \in TaskIds : HasTask(d6, u) => d6.tasks[u].of \in d6.projects
    BY <1>14, <1>16, <1>17 DEF RowsInv, KeysHold
  <2>2. QED
    BY <1>11, <1>9, <1>7, <1>14, <2>1 DEF KeysHold, HasTask
<1>20. \A v \in d6.evidence : v.project # p
  <2> SUFFICES ASSUME NEW v \in d.evidence, v.project = p,
                      IF v.task = NoTask THEN v.project # p ELSE v.task \notin mine
               PROVE  FALSE
    BY <1>5, <1>14
  <2>1. v.task # NoTask => v.task \in TasksOf(d, p)
    BY DEF RowsInv, FiledRight
  <2>2. QED
    BY <2>1
<1>21. \A m \in Memories : Kept(d6, m) => Kept(d, m) /\ d6.memories[m] = d.memories[m]
                                          /\ d.memories[m].of # p
  BY <1>12, <1>14 DEF Kept
<1>22. RowsInv(d6)
  <2>1. FiledRight(d6)
    <3>1. ASSUME NEW v \in d6.evidence, v.task # NoTask
          PROVE  v.task \in TasksOf(d6, v.project)
      <4>1. v \in d.evidence /\ v.project \in Projects \ {p}
        BY <1>5, <1>14, <1>20 DEF RowsInv, Tables
      <4>2. QED
        BY <1>18, <3>1, <4>1 DEF RowsInv, FiledRight
    <3>2. ASSUME NEW r \in d6.receipts, r.task # NoTask
          PROVE  r.task \in TasksOf(d6, r.of)
      <4>1. r \in d.receipts /\ r.of \in Projects \ {p}
        BY <1>7, <1>14 DEF RowsInv, Tables
      <4>2. QED
        BY <1>18, <3>2, <4>1 DEF RowsInv, FiledRight
    <3>3. QED
      BY <3>1, <3>2 DEF FiledRight
  <2>2. Owned(d6)
    <3>1. \A v \in d6.evidence : v.project \in d6.projects
      BY <1>5, <1>14, <1>20 DEF RowsInv, Owned
    <3>2. \A m \in Memories : Kept(d6, m) => d6.memories[m].of \in d6.projects
      BY <1>14, <1>21 DEF RowsInv, Owned
    <3>3. \A q \in Projects \ d6.projects : d6.ledger[q] = <<>>
      BY <1>2, <1>12, <1>14 DEF RowsInv, Owned, Tables
    <3>4. QED
      BY <3>1, <3>2, <3>3 DEF Owned
  <2>3. Mirrored(d6)
    <3> SUFFICES ASSUME NEW u \in TaskIds, HasTask(d6, u)
                 PROVE  d6.tasks[u].deps = {w \in TaskIds : <<u, w>> \in d6.edges}
      BY DEF Mirrored
    <3>1. HasTask(d, u) /\ u \notin mine
      BY <1>16
    <3>2. d6.tasks[u] = d1.tasks[u]
      BY <1>9, <1>14, <3>1
    <3>3. QED
      BY <1>3, <1>14, <3>1, <3>2
  <2>4. QED
    BY <1>14, <1>19, <2>1, <2>2, <2>3 DEF RowsInv
<1>23. NothingOf(d6, p)
  <2>1. TasksOf(d6, p) = {}
    BY <1>16, <1>17 DEF TasksOf
  <2>2. d6.ledger[p] = <<>>
    BY <1>2, <1>12, <1>14 DEF RowsInv, Tables
  <2>3. QED
    BY <1>7, <1>14, <1>20, <1>21, <2>1, <2>2 DEF NothingOf
<1>24. MayPurge(d, p)
  BY <1>1, <1>3, <1>6, <1>8, <1>11, <1>13, <1>19 DEF MayPurge
<1>25. \A u \in TaskIds :
         /\ u \in mine => d6.tasks[u] = Gone
         /\ u \notin mine =>
              /\ d6.tasks[u] = Gone <=> d.tasks[u] = Gone
              /\ HasTask(d6, u) <=> HasTask(d, u)
              /\ HasTask(d, u) => /\ d6.tasks[u].of = d.tasks[u].of
                                  /\ d6.tasks[u].status = d.tasks[u].status
  BY <1>3, <1>9, <1>14, <1>16
<1>26. \A v \in d.evidence : v.project # p => v \in d6.evidence
  <2> SUFFICES ASSUME NEW v \in d.evidence, v.project # p
               PROVE  v.task # NoTask => v.task \notin mine
    BY <1>5, <1>14
  <2>1. v.task # NoTask => v.task \in TasksOf(d, v.project)
    BY DEF RowsInv, FiledRight
  <2>2. QED
    BY <2>1 DEF TasksOf
<1>27. QED
  BY <1>12, <1>14, <1>15, <1>22, <1>23, <1>24, <1>25, <1>26

-----------------------------------------------------------------------------
(* What was listed stands *)

\* What was listed or certified over the rows d is so over the rows e.
Stands(d, e) == \A of \in Projects, listed \in SUBSET TaskIds, partial \in BOOLEAN :
    /\ Listed(d, of, listed) => Listed(e, of, listed)
    /\ Certified(d, of, listed, partial) => Certified(e, of, listed, partial)

\* It stands as long as nothing closed or purged is touched and no evidence
\* is lost.
LEMMA UntouchedStands ==
    ASSUME NEW d \in Tables, NEW e, d.evidence \subseteq e.evidence,
           \A t \in TaskIds : d.tasks[t] = Gone => e.tasks[t] = Gone,
           \A t \in TaskIds : HasTask(d, t) /\ d.tasks[t].status = "closed" =>
                                e.tasks[t] = d.tasks[t]
    PROVE  Stands(d, e)
<1> SUFFICES ASSUME NEW of \in Projects, NEW listed \in SUBSET TaskIds, NEW partial \in BOOLEAN
             PROVE  /\ Listed(d, of, listed) => Listed(e, of, listed)
                    /\ Certified(d, of, listed, partial) => Certified(e, of, listed, partial)
  BY DEF Stands
<1>1. Erased(d, listed) => Erased(e, listed)
  BY DEF Erased
<1>2. Closed(d, of, listed) => Closed(e, of, listed)
  BY DEF Closed, TasksOf, HasTask
<1>3. Proven(d, of, listed) => Proven(e, of, listed)
  BY DEF Proven
<1>4. QED
  BY <1>1, <1>2, <1>3 DEF Listed, Certified

\* A purge takes all that was listed of its project, and nothing of another's.
LEMMA PurgedStands ==
    ASSUME NEW d, RowsInv(d), NEW p \in d.projects
    PROVE  Stands(d, Purged(d, p))
<1> DEFINE e == Purged(d, p)
<1>1. /\ \A u \in TaskIds :
           /\ u \in TasksOf(d, p) => e.tasks[u] = Gone
           /\ u \notin TasksOf(d, p) =>
                /\ e.tasks[u] = Gone <=> d.tasks[u] = Gone
                /\ HasTask(e, u) <=> HasTask(d, u)
                /\ HasTask(d, u) => /\ e.tasks[u].of = d.tasks[u].of
                                    /\ e.tasks[u].status = d.tasks[u].status
      /\ \A v \in d.evidence : v.project # p => v \in e.evidence
  BY PurgedRows
<1> HIDE DEF e
<1> SUFFICES ASSUME NEW of \in Projects, NEW listed \in SUBSET TaskIds, NEW partial \in BOOLEAN
             PROVE  /\ Listed(d, of, listed) => Listed(e, of, listed)
                    /\ Certified(d, of, listed, partial) => Certified(e, of, listed, partial)
  BY DEF Stands, e
<1>2. Erased(d, listed) => Erased(e, listed)
  BY <1>1 DEF Erased
<1>3. CASE of = p
  <2>1. Closed(d, of, listed) => Erased(e, listed)
    BY <1>1, <1>3 DEF Closed, Erased
  <2>2. QED
    BY <1>2, <2>1 DEF Listed, Certified
<1>4. CASE of # p
  <2>1. Closed(d, of, listed) => Closed(e, of, listed)
    BY <1>1, <1>4 DEF Closed, TasksOf
  <2>2. Proven(d, of, listed) => Proven(e, of, listed)
    BY <1>1, <1>4 DEF Proven
  <2>3. QED
    BY <1>2, <2>1, <2>2 DEF Listed, Certified
<1>5. QED
  BY <1>3, <1>4

\* A closed task makes no further step.
LEMMA ClosedIsLast ==
    ASSUME NEW t \in TaskIds, base \in Tables, HasTask(base, t), NEW to,
           MayStep(StateOf(t), to)
    PROVE  base.tasks[t].status # "closed"
<1>1. base.tasks[t].status \in Range(TaskStates)
  BY RowsAreRows DEF TaskRow
<1>2. TaskStates[StateOf(t)] = base.tasks[t].status
  BY <1>1, StagesNameStates DEF StateOf
<1>3. QED
  BY <1>2 DEF MayStep

-----------------------------------------------------------------------------
(* One step keeps the rows right, and what was listed *)

RowsAreKept == RowsInv(base') /\ Stands(base, base')

LEMMA TaskRowsStep ==
    ASSUME RowsInv(base), TaskNext
    PROVE  RowsAreKept
<1> USE DEF RowsAreKept
<1>0. base \in Tables
  BY DEF RowsInv
<1>1. ASSUME NEW t \in TaskIds, NEW p \in Projects, NEW s \in Born,
             NEW deps \in SUBSET TaskIds, CreateTask(t, p, s, deps)
      PROVE  RowsAreKept
  <2> DEFINE row == [of |-> p, status |-> s, deps |-> deps]
  <2>1. row \in TaskRow
    BY BornInAState DEF TaskRow
  <2>2. base.tasks[t] = NoTask /\ base' = Created(base, t, row) /\ KeysHold(base')
    BY <1>1 DEF CreateTask, Commit
  <2> HIDE DEF row
  <2>4. /\ RowsInv(base') /\ base'.tasks = [base.tasks EXCEPT ![t] = row]
        /\ base'.evidence = base.evidence
    BY <2>1, <2>2, CreateRows
  <2>5. Stands(base, base')
    <3>1. base.evidence \subseteq base'.evidence
      BY <2>4
    <3>2. \A u \in TaskIds : base.tasks[u] = Gone => base'.tasks[u] = Gone
      BY <1>0, <2>4, <2>2, NothingIsNoRow DEF Tables
    <3>3. \A u \in TaskIds : HasTask(base, u) /\ base.tasks[u].status = "closed" =>
                              base'.tasks[u] = base.tasks[u]
      BY <1>0, <2>4, <2>2 DEF HasTask, Tables
    <3>4. QED
      BY <1>0, <3>1, <3>2, <3>3, UntouchedStands
  <2>6. QED
    BY <2>4, <2>5
<1>2. ASSUME NEW t \in TaskIds, NEW to \in DOMAIN TaskStates, TransitionTask(t, to)
      PROVE  RowsAreKept
  <2>2. HasTask(base, t) /\ base' = Moved(base, t, to)
    BY <1>2 DEF TransitionTask, Commit
  <2>3. /\ RowsInv(base') /\ HasTask(base', t) /\ base'.evidence = base.evidence
        /\ \A u \in TaskIds \ {t} : base'.tasks[u] = base.tasks[u]
    BY <2>2, MoveRows
  <2>4. base.tasks[t].status # "closed"
    BY <1>0, <1>2, ClosedIsLast DEF TransitionTask
  <2>5. Stands(base, base')
    <3>1. base.evidence \subseteq base'.evidence
      BY <2>3
    <3>2. \A u \in TaskIds : base.tasks[u] = Gone => base'.tasks[u] = Gone
      BY <1>0, <2>3, <2>2 DEF HasTask, Tables
    <3>3. \A u \in TaskIds : HasTask(base, u) /\ base.tasks[u].status = "closed" =>
                              base'.tasks[u] = base.tasks[u]
      BY <1>0, <2>3, <2>2, <2>4 DEF HasTask, Tables
    <3>4. QED
      BY <1>0, <3>1, <3>2, <3>3, UntouchedStands
  <2>6. QED
    BY <2>3, <2>5
<1>3. ASSUME NEW p \in Projects, NEW t \in TaskIds \cup {NoTask}, AddReceipt(p, t)
      PROVE  RowsAreKept
  <2>1. /\ p \in base.projects /\ (t # NoTask => t \in TasksOf(base, p))
        /\ base' = [base EXCEPT !.receipts = @ \cup {[of |-> p, task |-> t]}]
    BY <1>3 DEF AddReceipt, Fits, Commit
  <2>2. RowsInv(base')
    BY <2>1, FiledRows
  <2>3. base'.tasks = base.tasks /\ base'.evidence = base.evidence
    BY <1>0, <2>1 DEF Tables
  <2>4. Stands(base, base')
    BY <1>0, <2>3, UntouchedStands
  <2>5. QED
    BY <2>2, <2>4
<1>4. ASSUME NEW p \in Projects, NEW t \in TaskIds \cup {NoTask}, NEW k, MayFile(p, t, k)
      PROVE  /\ RowsInv(Filed(p, t)) /\ Filed(p, t).tasks = base.tasks
             /\ base.evidence \subseteq Filed(p, t).evidence
  <2>1. p \in base.projects /\ (t # NoTask => t \in TasksOf(base, p))
    BY <1>4 DEF MayFile, TasksOf, RowsInv, KeysHold
  <2>2. RowsInv(Filed(p, t))
    BY <2>1, FiledRows DEF Filed
  <2>3. QED
    BY <1>0, <2>2 DEF Filed, Tables
<1>5. ASSUME NEW p \in Projects, NEW t \in TaskIds \cup {NoTask}, NEW k \in Criteria,
             AddTaskEvidence(p, t, k)
      PROVE  RowsAreKept
  <2>1. MayFile(p, t, k) /\ base' = Filed(p, t)
    BY <1>5 DEF AddTaskEvidence, Commit
  <2>2. RowsInv(base') /\ base'.tasks = base.tasks /\ base.evidence \subseteq base'.evidence
    BY <1>4, <2>1
  <2>3. Stands(base, base')
    BY <1>0, <2>2, UntouchedStands
  <2>4. QED
    BY <2>2, <2>3
<1>6. ASSUME NEW t \in TaskIds, NEW p \in Projects, NEW k \in Criteria,
             NEW to \in DOMAIN TaskStates, ReviewTask(p, t, k, to)
      PROVE  RowsAreKept
  <2>2. /\ HasTask(base, t) /\ MayStep(StateOf(t), to) /\ MayFile(p, t, k)
        /\ base' = Moved(Filed(p, t), t, to)
    BY <1>6 DEF ReviewTask, Commit
  <2>3. /\ RowsInv(Filed(p, t)) /\ Filed(p, t).tasks = base.tasks
        /\ base.evidence \subseteq Filed(p, t).evidence
    BY <1>4, <2>2
  <2>5. HasTask(Filed(p, t), t)
    BY <2>2, <2>3 DEF HasTask
  <2>6. /\ RowsInv(base') /\ HasTask(base', t) /\ base.evidence \subseteq base'.evidence
        /\ \A u \in TaskIds \ {t} : base'.tasks[u] = base.tasks[u]
    BY <2>2, <2>3, <2>5, MoveRows
  <2>7. base.tasks[t].status # "closed"
    BY <1>0, <2>2, ClosedIsLast
  <2>8. Stands(base, base')
    <3>1. base.evidence \subseteq base'.evidence
      BY <2>6
    <3>2. \A u \in TaskIds : base.tasks[u] = Gone => base'.tasks[u] = Gone
      BY <1>0, <2>6, <2>2 DEF HasTask, Tables
    <3>3. \A u \in TaskIds : HasTask(base, u) /\ base.tasks[u].status = "closed" =>
                              base'.tasks[u] = base.tasks[u]
      BY <1>0, <2>6, <2>2, <2>7 DEF HasTask, Tables
    <3>4. QED
      BY <1>0, <3>1, <3>2, <3>3, UntouchedStands
  <2>9. QED
    BY <2>6, <2>8
<1>7. CASE base' = base
  BY <1>0, <1>7, UntouchedStands DEF RowsInv
<1>8. ASSUME NEW c \in Callers,
             \/ \E p \in Projects, partial \in BOOLEAN : DeliverTasks(c, p, partial)
             \/ DeliverHoles(c) \/ DeliverPacket(c)
      PROVE  RowsAreKept
  BY <1>7, <1>8 DEF DeliverTasks, DeliverHoles, DeliverPacket
<1>9. QED
  BY <1>1, <1>2, <1>3, <1>5, <1>6, <1>8 DEF TaskNext

\* What the sentinel writes touches no task and no evidence.
LEMMA ElsewhereStands ==
    ASSUME base \in Tables, base'.tasks = base.tasks, base'.evidence = base.evidence
    PROVE  Stands(base, base')
BY UntouchedStands

LEMMA SentinelRowsStep ==
    ASSUME JTypeOK, RowsInv(base), SentinelNext
    PROVE  RowsAreKept
<1> USE DEF RowsAreKept
<1>0. base \in Tables
  BY DEF RowsInv
<1>1. ASSUME NEW m \in Memories, NEW row \in MemoryRow, row.of \in base.projects,
             base' = [base EXCEPT !.memories[m] = row]
      PROVE  RowsAreKept
  <2>1. RowsInv(base')
    BY <1>1, SentinelRows
  <2>2. base'.tasks = base.tasks /\ base'.evidence = base.evidence
    BY <1>0, <1>1 DEF Tables
  <2>3. QED
    BY <1>0, <2>1, <2>2, ElsewhereStands
<1>2. ASSUME NEW m \in Memories, Kept(base, m)
      PROVE  base.memories[m] \in MemoryRow /\ base.memories[m].of \in base.projects
  BY <1>0, <1>2, RowsAreRows DEF RowsInv, Owned
<1>3. ASSUME NEW m \in Memories, NEW p \in Projects, AddMemory(m, p)
      PROVE  RowsAreKept
  <2> DEFINE row == [of |-> p, active |-> TRUE, surfaced |-> 0]
  <2>1. row \in MemoryRow /\ row.of = p
    BY CooldownPositive DEF MemoryRow
  <2>2. p \in base.projects /\ base' = [base EXCEPT !.memories[m] = row]
    BY <1>3 DEF AddMemory, RequireProject, Commit
  <2> HIDE DEF row
  <2>3. QED
    BY <1>1, <2>1, <2>2
<1>4. ASSUME NEW m \in Memories, RetireMemory(m)
      PROVE  RowsAreKept
  <2> DEFINE row == [base.memories[m] EXCEPT !.active = FALSE]
  <2>1. Kept(base, m) /\ base' = [base EXCEPT !.memories[m].active = FALSE]
    BY <1>4 DEF RetireMemory, Commit
  <2>2. base.memories[m] \in MemoryRow /\ base.memories[m].of \in base.projects
    BY <1>2, <2>1
  <2>3. row \in MemoryRow /\ row.of = base.memories[m].of
    BY <2>2 DEF MemoryRow
  <2>4. base' = [base EXCEPT !.memories[m] = row]
    BY <1>0, <2>1, <2>2 DEF Tables
  <2> HIDE DEF row
  <2>5. QED
    BY <1>1, <2>2, <2>3, <2>4
<1>5. ASSUME NEW c \in Callers, CheckMark(c)
      PROVE  RowsAreKept
  <2> DEFINE m == doing[c].memory
  <2>1. CASE Kept(base, m)
    <3>1. doing[c] \in Commands /\ Underway(c, "check", "mark")
      BY <1>5 DEF CheckMark, JTypeOK
    <3>2. m \in Memories
      BY <3>1 DEF Commands, Underway
    <3>3. /\ base.memories[m].surfaced < MaxSurfaced
          /\ base' = [base EXCEPT !.memories[m].surfaced = @ + 1]
      BY <1>5, <2>1 DEF CheckMark
    <3> HIDE DEF m
    <3> DEFINE row == [base.memories[m] EXCEPT !.surfaced = @ + 1]
    <3>4. base.memories[m] \in MemoryRow /\ base.memories[m].of \in base.projects
      BY <1>2, <2>1, <3>2
    <3>5. row \in MemoryRow /\ row.of = base.memories[m].of
      BY <3>3, <3>4, CooldownPositive DEF MemoryRow
    <3>6. base' = [base EXCEPT !.memories[m] = row]
      BY <1>0, <3>2, <3>3, <3>4 DEF Tables
    <3> HIDE DEF row
    <3>7. QED
      BY <1>1, <3>2, <3>4, <3>5, <3>6
  <2>2. CASE ~Kept(base, m)
    <3>1. base' = base
      BY <1>5, <2>2 DEF CheckMark
    <3>2. QED
      BY <1>0, <3>1, ElsewhereStands
  <2>3. QED
    BY <2>1, <2>2
<1>6. ASSUME NEW c \in Callers, CheckRecord(c)
      PROVE  RowsAreKept
  <2>1. CASE RequireProject(doing[c].of)
    <3> DEFINE p == doing[c].of
               entry == [memory |-> doing[c].memory, raced |-> doing[c].raced]
               l == Append(base.ledger[p], entry)
    <3>1. doing[c] \in Commands /\ Underway(c, "check", "record") /\ p \in base.projects
      BY <1>6, <2>1 DEF CheckRecord, JTypeOK, RequireProject
    <3>2. p \in Projects /\ entry \in [memory : Memories \cup {NoMemory}, raced : BOOLEAN]
      BY <1>0, <3>1 DEF Commands, Underway, Tables
    <3>3. base' = [base EXCEPT !.ledger[p] = l]
      BY <1>6, <2>1 DEF CheckRecord
    <3> HIDE DEF entry
    <3>4. l \in Seq([memory : Memories \cup {NoMemory}, raced : BOOLEAN])
      <4> DEFINE Entries == [memory : Memories \cup {NoMemory}, raced : BOOLEAN]
      <4>1. base.ledger[p] \in Seq(Entries) /\ entry \in Entries
        BY <1>0, <3>2 DEF Tables
      <4> HIDE DEF Entries, p
      <4>2. l \in Seq(Entries)
        BY <4>1
      <4>3. QED
        BY <4>2 DEF Entries
    <3> HIDE DEF p, l
    <3>5. RowsInv(base')
      BY <3>1, <3>3, <3>4, SentinelRows
    <3>6. base'.tasks = base.tasks /\ base'.evidence = base.evidence
      BY <1>0, <3>3 DEF Tables
    <3>7. QED
      BY <1>0, <3>5, <3>6, ElsewhereStands
  <2>2. CASE ~RequireProject(doing[c].of)
    <3>1. base' = base
      BY <1>6, <2>2 DEF CheckRecord
    <3>2. QED
      BY <1>0, <3>1, ElsewhereStands
  <2>3. QED
    BY <2>1, <2>2
<1>7. ASSUME NEW c \in Callers,
             \/ CheckSelect(c)
             \/ \E p \in Projects, g \in {"failure", "resume", "boundary"} : CheckPool(c, p, g)
      PROVE  RowsAreKept
  <2>1. base' = base
    BY <1>7 DEF CheckSelect, CheckPool
  <2>2. QED
    BY <1>0, <2>1, ElsewhereStands
<1>8. QED
  BY <1>3, <1>4, <1>5, <1>6, <1>7 DEF SentinelNext

LEMMA RowsStep ==
    ASSUME JTypeOK, RowsInv(base), [JNext]_jvars
    PROVE  RowsAreKept
<1>0. base \in Tables
  BY DEF RowsInv
<1>1. ASSUME NEW p \in Projects, UpsertProject(p)
      PROVE  RowsAreKept
  <2>1. base' = [base EXCEPT !.projects = @ \cup {p}]
    BY <1>1 DEF UpsertProject, Commit
  <2>2. RowsInv(base')
    BY <2>1, UpsertRows
  <2>3. base'.tasks = base.tasks /\ base'.evidence = base.evidence
    BY <1>0, <2>1 DEF Tables
  <2>4. QED
    BY <1>0, <2>2, <2>3, ElsewhereStands DEF RowsAreKept
<1>2. ASSUME NEW p \in Projects, PurgeProject(p)
      PROVE  RowsAreKept
  BY <1>2, PurgedRows, PurgedStands DEF PurgeProject, RowsAreKept
<1>3. CASE base' = base
  BY <1>0, <1>3, ElsewhereStands DEF RowsAreKept
<1>4. CASE JNext
  BY <1>1, <1>2, <1>3, <1>4, TaskRowsStep, SentinelRowsStep DEF JNext, ProjectNext, Kill
<1>5. CASE UNCHANGED jvars
  BY <1>3, <1>5 DEF jvars
<1>6. QED
  BY <1>4, <1>5

-----------------------------------------------------------------------------
(* The invariant, part by part *)

\* A reminder is chosen among the memories that were read and are not cooling.
LEMMA RemindersAreFresh ==
    ASSUME NEW trigger, trigger \in {"failure", "resume", "boundary"},
           NEW pool, DOMAIN pool \subseteq Memories, NEW cooling
    PROVE  \A m \in Reminders(trigger, pool, cooling) : m = NoMemory \/ m \in Memories \ cooling
BY DEF Reminders

\* The window of the cooldown holds the last reminders.
LEMMA RecentAreLast ==
    ASSUME base \in Tables, NEW p \in Projects, NEW i \in DOMAIN base.ledger[p],
           i > Len(base.ledger[p]) - Cooldown
    PROVE  base.ledger[p][i] \in Range(Recent(p))
<1> DEFINE S == [memory : Memories \cup {NoMemory}, raced : BOOLEAN]
           l == base.ledger[p]
           a == IF Len(l) > Cooldown THEN Len(l) - Cooldown + 1 ELSE 1
<1>1. l \in Seq(S)
  BY DEF Tables
<1>2. Recent(p) = SubSeq(l, a, Len(l))
  BY DEF Recent
<1>3. i \in 1..Len(l) /\ i > Len(l) - Cooldown
  BY <1>1
<1> HIDE DEF l, S
<1>4. Len(l) \in Nat /\ a \in 1..Len(l) /\ i \in a..Len(l)
  BY <1>1, <1>3, CooldownPositive
<1> HIDE DEF a
<1>5. /\ Len(SubSeq(l, a, Len(l))) = Len(l) - a + 1
      /\ SubSeq(l, a, Len(l)) \in Seq(S)
      /\ \A k \in 1..(Len(l) - a + 1) : SubSeq(l, a, Len(l))[k] = l[a + k - 1]
  BY <1>1, <1>4, SubSeqProperties
<1>6. /\ i - a + 1 \in DOMAIN SubSeq(l, a, Len(l))
      /\ SubSeq(l, a, Len(l))[i - a + 1] = l[i]
  BY <1>4, <1>5
<1>7. QED
  BY <1>2, <1>6 DEF Range, l

\* Every command holds what it read, and nothing else.
LEMMA CommandsStep ==
    ASSUME JTypeOK, [JNext]_jvars
    PROVE  /\ doing' \in [Callers -> Commands]
           /\ deliveries' \subseteq [of : Projects, listed : SUBSET TaskIds, partial : BOOLEAN]
<1> USE DEF JTypeOK
<1>0. Unbusy \in Commands
  BY DEF Unbusy, Commands
<1>1. ASSUME NEW c \in Callers, NEW x \in Commands, doing' = [doing EXCEPT ![c] = x]
      PROVE  doing' \in [Callers -> Commands]
  BY <1>1
<1>2. ASSUME NEW c \in Callers, EndCommand(c)
      PROVE  doing' \in [Callers -> Commands]
  BY <1>0, <1>1, <1>2 DEF EndCommand
<1>3. ASSUME NEW c \in Callers, NEW p \in Projects, NEW partial \in BOOLEAN,
             DeliverTasks(c, p, partial)
      PROVE  doing' \in [Callers -> Commands]
  <2>1. TasksOf(base, p) \subseteq TaskIds
    BY DEF TasksOf
  <2>2. [does |-> "deliver", at |-> "holes", of |-> p, partial |-> partial,
         all |-> AllClosed(p), listed |-> TasksOf(base, p),
         unseen |-> {NoTask} \cup TasksOf(base, p)] \in Commands
    BY <2>1 DEF Commands, AllClosed
  <2>3. QED
    BY <1>1, <1>3, <2>2 DEF DeliverTasks
<1>4. ASSUME NEW c \in Callers, DeliverHoles(c)
      PROVE  doing' \in [Callers -> Commands]
  <2>1. doing[c] \in [does : {"deliver"}, at : {"holes"}, of : Projects, partial : BOOLEAN,
                      all : BOOLEAN, listed : SUBSET TaskIds,
                      unseen : SUBSET (TaskIds \cup {NoTask})]
    BY <1>4 DEF DeliverHoles, Underway, Commands
  <2>2. [does |-> "deliver", at |-> "render", of |-> doing[c].of, listed |-> doing[c].listed,
         partial |-> doing[c].partial, all |-> doing[c].all] \in Commands
    BY <2>1 DEF Commands
  <2>3. \A t : [doing[c] EXCEPT !.unseen = doing[c].unseen \ {t}] \in Commands
    BY <2>1 DEF Commands
  <2>4. QED
    BY <1>0, <1>1, <1>4, <2>2, <2>3 DEF DeliverHoles
<1>5. ASSUME NEW c \in Callers, NEW p \in Projects, NEW g \in {"failure", "resume", "boundary"},
             CheckPool(c, p, g)
      PROVE  doing' \in [Callers -> Commands]
  <2> DEFINE active == {m \in Memories : /\ Kept(base, m) /\ base.memories[m].of = p
                                         /\ base.memories[m].active}
             pool == [m \in active |-> base.memories[m].surfaced]
  <2>1. \A m \in active : base.memories[m] \in MemoryRow
    BY RowsAreRows
  <2>2. pool \in [active -> 0..MaxSurfaced] /\ active \in SUBSET Memories
    BY <2>1 DEF MemoryRow
  <2>3. doing' = [doing EXCEPT ![c] = [does |-> "check", at |-> "select", of |-> p, trigger |-> g,
                                       pool |-> pool]]
    BY <1>5 DEF CheckPool
  <2> HIDE DEF active, pool
  <2>4. [does |-> "check", at |-> "select", of |-> p, trigger |-> g, pool |-> pool] \in Commands
    BY <2>2 DEF Commands
  <2>5. QED
    BY <1>1, <2>3, <2>4
<1>6. ASSUME NEW c \in Callers, CheckSelect(c)
      PROVE  doing' \in [Callers -> Commands]
  <2>1. doing[c] \in [does : {"check"}, at : {"select"}, of : Projects,
                      trigger : {"failure", "resume", "boundary"},
                      pool : UNION {[s -> 0..MaxSurfaced] : s \in SUBSET Memories}]
    BY <1>6 DEF CheckSelect, Underway, Commands
  <2>2. PICK m \in Reminders(doing[c].trigger, doing[c].pool,
                             {r.memory : r \in Range(Recent(doing[c].of))}) :
          doing' = [doing EXCEPT ![c] =
            [does |-> "check", at |-> IF m = NoMemory THEN "record" ELSE "mark",
             of |-> doing[c].of, memory |-> m, raced |-> FALSE]]
    BY <1>6 DEF CheckSelect
  <2>3. m \in Memories \cup {NoMemory}
    <3>1. DOMAIN doing[c].pool \subseteq Memories
      BY <2>1
    <3>2. doing[c].trigger \in {"failure", "resume", "boundary"}
      BY <2>1
    <3>3. QED
      BY <2>2, <3>1, <3>2, RemindersAreFresh
  <2>4. [does |-> "check", at |-> IF m = NoMemory THEN "record" ELSE "mark",
         of |-> doing[c].of, memory |-> m, raced |-> FALSE] \in Commands
    BY <2>1, <2>3 DEF Commands
  <2>5. QED
    BY <1>1, <2>2, <2>4
<1>7. ASSUME NEW c \in Callers, CheckMark(c)
      PROVE  doing' \in [Callers -> Commands]
  <2>1. doing[c] \in [does : {"check"}, at : {"mark"}, of : Projects,
                      memory : Memories, raced : BOOLEAN]
    BY <1>7 DEF CheckMark, Underway, Commands
  <2> DEFINE x == [doing[c] EXCEPT !.at = "record"]
             y == [doing[c] EXCEPT !.at = "record", !.memory = NoMemory]
  <2>2. x \in Commands /\ y \in Commands
    BY <2>1 DEF Commands
  <2>3. doing' = [doing EXCEPT ![c] = x] \/ doing' = [doing EXCEPT ![c] = y]
    BY <1>7, <2>1 DEF CheckMark
  <2> HIDE DEF x, y
  <2>4. QED
    BY <1>1, <2>2, <2>3
<1>8. ASSUME NEW c \in Callers, CheckRecord(c)
      PROVE  doing' \in [Callers -> Commands]
  <2>1. CASE EndCommand(c)
    BY <1>2, <2>1
  <2>2. CASE ~EndCommand(c)
    <3> SUFFICES ASSUME NEW d \in Callers
                 PROVE  doing'[d] \in Commands
      BY <1>8, <2>2 DEF CheckRecord
    <3>1. \/ doing'[d] = Unbusy \/ doing'[d] = doing[d]
          \/ /\ doing[d].does = "check" /\ doing[d].at # "select"
             /\ doing'[d] = [doing[d] EXCEPT !.raced = TRUE]
      BY <1>8, <2>2 DEF CheckRecord
    <3>2. doing[d] \in Commands
      OBVIOUS
    <3>3. doing[d].does = "check" /\ doing[d].at # "select" =>
            [doing[d] EXCEPT !.raced = TRUE] \in Commands
      BY <3>2 DEF Commands
    <3>4. QED
      BY <1>0, <3>1, <3>2, <3>3
  <2>3. QED
    BY <2>1, <2>2
<1>9. ASSUME NEW c \in Callers, DeliverPacket(c)
      PROVE  /\ doing' \in [Callers -> Commands]
             /\ deliveries' \subseteq [of : Projects, listed : SUBSET TaskIds, partial : BOOLEAN]
  <2>1. doing[c] \in [does : {"deliver"}, at : {"render"}, of : Projects, partial : BOOLEAN,
                      all : BOOLEAN, listed : SUBSET TaskIds]
    BY <1>9 DEF DeliverPacket, Underway, Commands
  <2>2. QED
    BY <1>2, <1>9, <2>1 DEF DeliverPacket
<1>10. CASE TaskNext
  BY <1>3, <1>4, <1>9, <1>10 DEF TaskNext, CreateTask, TransitionTask, AddReceipt,
     AddTaskEvidence, ReviewTask, RowsOnly, DeliverTasks, DeliverHoles
<1>11. CASE SentinelNext
  BY <1>5, <1>6, <1>7, <1>8, <1>11 DEF SentinelNext, RetireMemory, AddMemory, RowsOnly,
     CheckPool, CheckSelect, CheckMark, CheckRecord
<1>12. CASE ProjectNext
  BY <1>2, <1>12 DEF ProjectNext, UpsertProject, PurgeProject, RowsOnly, Kill
<1>13. CASE UNCHANGED jvars
  BY <1>13 DEF jvars
<1>14. QED
  BY <1>10, <1>11, <1>12, <1>13 DEF JNext

\* What one deliver listed, and what all of them have told.
CertifiedAll == \A v \in deliveries : Certified(base, v.of, v.listed, v.partial)
ListedBy(c) == doing[c].does = "deliver" /\ doing[c].all =>
    /\ doing[c].at = "holes" =>
         /\ Listed(base, doing[c].of, doing[c].listed)
         /\ doing[c].unseen \subseteq doing[c].listed \cup {NoTask}
    /\ doing[c].at = "render" =>
         Certified(base, doing[c].of, doing[c].listed, doing[c].partial)

LEMMA DeliverStep ==
    ASSUME JTypeOK, RowsInv(base), DeliverInv, Stands(base, base'), [JNext]_jvars
    PROVE  DeliverInv'
<1> USE DEF JTypeOK
<1>0. CertifiedAll /\ \A c \in Callers : ListedBy(c)
  BY DEF DeliverInv, CertifiedAll, ListedBy
<1>1. \A v \in deliveries : Certified(base', v.of, v.listed, v.partial)
  BY <1>0 DEF CertifiedAll, Stands
<1>2. ASSUME NEW c \in Callers, doing'[c] = doing[c]
      PROVE  ListedBy(c)'
  <2>1. CASE doing[c].does = "deliver"
    <3>1. /\ doing[c].of \in Projects /\ doing[c].listed \in SUBSET TaskIds
          /\ doing[c].partial \in BOOLEAN
      BY <2>1 DEF Commands
    <3>2. /\ Listed(base, doing[c].of, doing[c].listed)
               => Listed(base', doing[c].of, doing[c].listed)
          /\ Certified(base, doing[c].of, doing[c].listed, doing[c].partial)
               => Certified(base', doing[c].of, doing[c].listed, doing[c].partial)
      BY <3>1 DEF Stands
    <3>3. QED
      BY <1>0, <1>2, <3>2 DEF ListedBy
  <2>2. CASE doing[c].does # "deliver"
    BY <1>2, <2>2 DEF ListedBy
  <2>3. QED
    BY <2>1, <2>2
<1>3. ASSUME NEW c \in Callers, doing'[c].does # "deliver"
      PROVE  ListedBy(c)'
  BY <1>3 DEF ListedBy
<1>4. ASSUME NEW c \in Callers, NEW d \in Callers, EndCommand(c)
      PROVE  ListedBy(d)'
  BY <1>2, <1>3, <1>4 DEF EndCommand, Unbusy
<1>5. ASSUME NEW c \in Callers, NEW d \in Callers \ {c}, NEW x, doing' = [doing EXCEPT ![c] = x]
      PROVE  ListedBy(d)'
  BY <1>2, <1>5
<1>6. ASSUME NEW c \in Callers, NEW p \in Projects, NEW partial \in BOOLEAN,
             DeliverTasks(c, p, partial)
      PROVE  \A d \in Callers : ListedBy(d)'
  <2>1. doing' = [doing EXCEPT ![c] =
          [does |-> "deliver", at |-> "holes", of |-> p, partial |-> partial,
           all |-> AllClosed(p), listed |-> TasksOf(base, p),
           unseen |-> {NoTask} \cup TasksOf(base, p)]]
    BY <1>6 DEF DeliverTasks
  <2>2. AllClosed(p) => Listed(base', p, TasksOf(base, p))
    BY <1>6 DEF DeliverTasks, Listed, Closed, AllClosed
  <2>3. ListedBy(c)'
    BY <2>1, <2>2 DEF ListedBy
  <2>4. QED
    BY <1>5, <2>1, <2>3
<1>7. ASSUME NEW c \in Callers, DeliverHoles(c)
      PROVE  \A d \in Callers : ListedBy(d)'
  <2> DEFINE use == doing[c]
             x == [does |-> "deliver", at |-> "render", of |-> use.of,
                   listed |-> use.listed, partial |-> use.partial, all |-> use.all]
             y(t) == [use EXCEPT !.unseen = use.unseen \ {t}]
  <2>1. use \in [does : {"deliver"}, at : {"holes"}, of : Projects, partial : BOOLEAN,
                 all : BOOLEAN, listed : SUBSET TaskIds,
                 unseen : SUBSET (TaskIds \cup {NoTask})]
    BY <1>7 DEF DeliverHoles, Underway, Commands
  <2>2. /\ use.all => /\ Listed(base, use.of, use.listed)
                      /\ use.unseen \subseteq use.listed \cup {NoTask}
        /\ base' = base
    BY <1>0, <1>7, <2>1 DEF ListedBy, DeliverHoles
  <2>3. PICK t \in use.unseen :
          \/ /\ doing' = [doing EXCEPT ![c] = x]
             /\ use.partial \/ \E e \in base.evidence : e.task = t /\ e.project = use.of
          \/ doing' = [doing EXCEPT ![c] = Unbusy]
          \/ doing' = [doing EXCEPT ![c] = y(t)]
    BY <1>7 DEF DeliverHoles
  <2>4. CASE /\ doing' = [doing EXCEPT ![c] = x]
             /\ use.partial \/ \E e \in base.evidence : e.task = t /\ e.project = use.of
    <3>1. use.all => Certified(base, use.of, use.listed, use.partial)
      BY <2>2, <2>4 DEF Listed, Certified, Proven
    <3>2. doing'[c] = x
      BY <2>4
    <3>3. ListedBy(c)'
      BY <2>2, <3>1, <3>2 DEF ListedBy
    <3>4. QED
      BY <1>5, <2>4, <3>3
  <2>5. CASE doing' = [doing EXCEPT ![c] = Unbusy]
    BY <1>4, <2>5 DEF EndCommand
  <2>6. CASE doing' = [doing EXCEPT ![c] = y(t)]
    <3>1. /\ y(t).does = "deliver" /\ y(t).at = "holes" /\ y(t).of = use.of
          /\ y(t).listed = use.listed /\ y(t).all = use.all
          /\ y(t).unseen \subseteq use.unseen
      BY <2>1
    <3>2. doing'[c] = y(t)
      BY <2>6
    <3> HIDE DEF y
    <3>3. ListedBy(c)'
      BY <2>2, <3>1, <3>2 DEF ListedBy
    <3>4. QED
      BY <1>5, <2>6, <3>3
  <2>7. QED
    BY <2>3, <2>4, <2>5, <2>6
<1>8. ASSUME NEW c \in Callers, DeliverPacket(c)
      PROVE  /\ \A d \in Callers : ListedBy(d)'
             /\ CertifiedAll'
  <2>1. doing[c].all => Certified(base', doing[c].of, doing[c].listed, doing[c].partial)
    BY <1>0, <1>8 DEF ListedBy, DeliverPacket, Underway
  <2>2. QED
    BY <1>1, <1>4, <1>8, <2>1 DEF DeliverPacket, CertifiedAll
<1>9. ASSUME NEW c \in Callers, CheckRecord(c), NEW d \in Callers
      PROVE  ListedBy(d)'
  <2>1. CASE EndCommand(c)
    BY <1>4, <2>1
  <2>2. CASE ~EndCommand(c)
    <3>1. \/ doing'[d] = Unbusy \/ doing'[d] = doing[d]
          \/ /\ doing[d].does = "check" /\ doing[d].at # "select"
             /\ doing'[d] = [doing[d] EXCEPT !.raced = TRUE]
      BY <1>9, <2>2 DEF CheckRecord
    <3>2. doing[d].does = "check" /\ doing[d].at # "select" =>
            [doing[d] EXCEPT !.raced = TRUE].does = "check"
      BY DEF Commands
    <3>3. doing'[d] = doing[d] \/ doing'[d].does # "deliver"
      <4>1. Unbusy.does = "nothing"
        BY DEF Unbusy
      <4>2. doing'[d] = doing[d] \/ doing'[d].does = "check" \/ doing'[d].does = "nothing"
        BY <3>1, <3>2, <4>1, Zenon
      <4>3. QED
        BY <4>2
    <3>4. QED
      BY <1>2, <1>3, <3>3
  <2>3. QED
    BY <2>1, <2>2
<1>10. ASSUME NEW c \in Callers,
              \/ CheckSelect(c) \/ CheckMark(c)
              \/ \E p \in Projects, g \in {"failure", "resume", "boundary"} : CheckPool(c, p, g)
       PROVE  \A d \in Callers : ListedBy(d)'
  <2>1. CASE CheckMark(c)
    <3>1. doing[c] \in [does : {"check"}, at : {"mark"}, of : Projects,
                        memory : Memories, raced : BOOLEAN]
      BY <2>1 DEF CheckMark, Underway, Commands
    <3>2. \A d \in Callers \ {c} : doing'[d] = doing[d]
      BY <2>1 DEF CheckMark
    <3>3. doing'[c].does = "check"
      BY <2>1, <3>1 DEF CheckMark
    <3>4. QED
      BY <1>2, <1>3, <3>2, <3>3
  <2>2. CASE CheckSelect(c)
    <3>1. doing'[c].does = "check" /\ \A d \in Callers \ {c} : doing'[d] = doing[d]
      BY <2>2 DEF CheckSelect
    <3>2. QED
      BY <1>2, <1>3, <3>1
  <2>3. ASSUME NEW p \in Projects, NEW g, CheckPool(c, p, g)
        PROVE  \A d \in Callers : ListedBy(d)'
    <3>1. doing'[c].does = "check" /\ \A d \in Callers \ {c} : doing'[d] = doing[d]
      BY <2>3 DEF CheckPool
    <3>2. QED
      BY <1>2, <1>3, <3>1
  <2>4. QED
    BY <1>10, <2>1, <2>2, <2>3
<1>11. ASSUME UNCHANGED doing
       PROVE  \A d \in Callers : ListedBy(d)'
  BY <1>2, <1>11
<1>12. \A c \in Callers : ListedBy(c)'
  <2>1. CASE TaskNext
    BY <1>6, <1>7, <1>8, <1>11, <2>1 DEF TaskNext, CreateTask, TransitionTask, AddReceipt,
       AddTaskEvidence, ReviewTask, RowsOnly
  <2>2. CASE SentinelNext
    BY <1>9, <1>10, <1>11, <2>2 DEF SentinelNext, RetireMemory, AddMemory, RowsOnly
  <2>3. CASE ProjectNext
    BY <1>4, <1>11, <2>3 DEF ProjectNext, UpsertProject, PurgeProject, RowsOnly, Kill
  <2>4. CASE UNCHANGED jvars
    BY <1>11, <2>4 DEF jvars
  <2>5. QED
    BY <2>1, <2>2, <2>3, <2>4 DEF JNext
<1>13. CertifiedAll'
  <2>1. CASE deliveries' = deliveries
    BY <1>1, <2>1 DEF CertifiedAll
  <2>2. CASE \E c \in Callers : DeliverPacket(c)
    BY <1>8, <2>2
  <2>3. deliveries' = deliveries \/ \E c \in Callers : DeliverPacket(c)
    BY DEF jvars, JNext, TaskNext, SentinelNext, ProjectNext, CreateTask, TransitionTask,
       AddReceipt, AddTaskEvidence, ReviewTask, RowsOnly, DeliverTasks, DeliverHoles,
       RetireMemory, AddMemory, CheckPool, CheckSelect, CheckMark, CheckRecord,
       UpsertProject, PurgeProject, Kill
  <2>4. QED
    BY <2>1, <2>2, <2>3
<1>14. QED
  BY <1>12, <1>13 DEF DeliverInv, CertifiedAll, ListedBy

\* What a check has chosen is still fresh, unless another one was quicker.
FreshFor(c) ==
    /\ doing[c].does = "check" /\ doing[c].at \in {"mark", "record"}
    /\ doing[c].memory # NoMemory /\ ~doing[c].raced
    => Unused(base.ledger[doing[c].of], doing[c].memory)

\* No reminder of the list l repeats one of its cooldown, unless it was raced.
CoolDown(l) == \A i, j \in DOMAIN l :
    /\ i < j /\ j - i <= Cooldown /\ l[i].memory # NoMemory /\ l[j].memory = l[i].memory
    => l[j].raced

Entries == [memory : Memories \cup {NoMemory}, raced : BOOLEAN]

\* One more entry in a ledger: it cools down when the entry is fresh, and what
\* is fresh stays so unless it is the memory of the entry.
LEMMA OneMoreReminder ==
    ASSUME NEW l \in Seq(Entries), NEW e \in Entries, CoolDown(l),
           e.memory # NoMemory /\ ~e.raced => Unused(l, e.memory)
    PROVE  /\ CoolDown(Append(l, e))
           /\ \A m : Unused(l, m) /\ m # e.memory => Unused(Append(l, e), m)
<1>1. /\ Len(Append(l, e)) = Len(l) + 1 /\ DOMAIN Append(l, e) = 1..(Len(l) + 1)
      /\ \A i \in 1..Len(l) : Append(l, e)[i] = l[i]
      /\ Append(l, e)[Len(l) + 1] = e
      /\ Len(l) \in Nat /\ DOMAIN l = 1..Len(l)
  OBVIOUS
<1> DEFINE k == Append(l, e)
           n == Len(l)
<1> HIDE DEF k, n
<1>2. /\ Len(k) = n + 1 /\ DOMAIN k = 1..(n + 1) /\ (\A i \in 1..n : k[i] = l[i])
      /\ k[n + 1] = e /\ n \in Nat /\ DOMAIN l = 1..n /\ Len(l) = n
  BY <1>1 DEF k, n
<1>3. CoolDown(k)
  <2> SUFFICES ASSUME NEW i \in DOMAIN k, NEW j \in DOMAIN k, i < j, j - i <= Cooldown,
                      k[i].memory # NoMemory, k[j].memory = k[i].memory
               PROVE  k[j].raced
    BY DEF CoolDown
  <2>1. i \in 1..n /\ k[i] = l[i]
    BY <1>2
  <2>2. CASE j \in 1..n
    BY <1>2, <2>1, <2>2 DEF CoolDown
  <2>3. CASE j = n + 1
    <3>1. i > n - Cooldown
      BY <1>2, <2>1, <2>3, CooldownPositive
    <3>2. ~Unused(l, e.memory)
      BY <1>2, <2>1, <2>3, <3>1 DEF Unused
    <3>3. QED
      BY <1>2, <2>1, <2>3, <3>2 DEF Entries
  <2>4. QED
    BY <1>2, <2>2, <2>3
<1>4. ASSUME NEW m, Unused(l, m), m # e.memory
      PROVE  Unused(k, m)
  <2> SUFFICES ASSUME NEW i \in 1..(n + 1), i > n + 1 - Cooldown
               PROVE  k[i].memory # m
    BY <1>2, CooldownPositive DEF Unused
  <2>1. CASE i \in 1..n
    <3>1. i > n - Cooldown
      BY <1>2, CooldownPositive
    <3>2. QED
      BY <1>2, <1>4, <2>1, <3>1 DEF Unused
  <2>2. CASE i = n + 1
    BY <1>2, <1>4, <2>2
  <2>3. QED
    BY <1>2, <2>1, <2>2
<1>5. QED
  BY <1>3, <1>4 DEF k

LEMMA CoolStep ==
    ASSUME JTypeOK, RowsInv(base), CoolInv, [JNext]_jvars
    PROVE  CoolInv'
<1> USE DEF JTypeOK
<1>0. /\ \A c \in Callers : FreshFor(c)
      /\ \A p \in Projects : CoolDown(base.ledger[p])
  BY DEF CoolInv, ChosenAfresh, RemindersCoolDown, FreshFor, CoolDown
<1>1. SUFFICES /\ \A c \in Callers : FreshFor(c)'
               /\ \A p \in Projects : CoolDown(base'.ledger[p])
  BY DEF CoolInv, ChosenAfresh, RemindersCoolDown, FreshFor, CoolDown
<1> DEFINE Goal == /\ \A c \in Callers : FreshFor(c)'
                   /\ \A p \in Projects : CoolDown(base'.ledger[p])
<1>2. ASSUME NEW c \in Callers, doing'[c] = doing[c], base'.ledger = base.ledger
      PROVE  FreshFor(c)'
  BY <1>0, <1>2 DEF FreshFor
<1>3. ASSUME NEW c \in Callers, base'.ledger = base.ledger,
             \A d \in Callers \ {c} : doing'[d] = doing[d], FreshFor(c)'
      PROVE  Goal
  BY <1>0, <1>2, <1>3
<1>4. ASSUME base'.ledger = base.ledger, UNCHANGED doing
      PROVE  Goal
  BY <1>0, <1>2, <1>4
<1>5. ASSUME NEW c \in Callers, EndCommand(c), base'.ledger = base.ledger
      PROVE  Goal
  <2>1. FreshFor(c)' /\ \A d \in Callers \ {c} : doing'[d] = doing[d]
    BY <1>5 DEF EndCommand, FreshFor, Unbusy
  <2>2. QED
    BY <1>3, <1>5, <2>1
<1>6. ASSUME NEW c \in Callers, CheckSelect(c)
      PROVE  Goal
  <2>1. doing[c] \in [does : {"check"}, at : {"select"}, of : Projects,
                      trigger : {"failure", "resume", "boundary"},
                      pool : UNION {[s -> 0..MaxSurfaced] : s \in SUBSET Memories}]
    BY <1>6 DEF CheckSelect, Underway, Commands
  <2> DEFINE p == doing[c].of
             cooling == {r.memory : r \in Range(Recent(p))}
  <2>2. PICK m \in Reminders(doing[c].trigger, doing[c].pool, cooling) :
          doing' = [doing EXCEPT ![c] =
            [does |-> "check", at |-> IF m = NoMemory THEN "record" ELSE "mark",
             of |-> p, memory |-> m, raced |-> FALSE]]
    BY <1>6 DEF CheckSelect
  <2>3. m = NoMemory \/ m \notin cooling
    <3>1. DOMAIN doing[c].pool \subseteq Memories
      BY <2>1
    <3>2. doing[c].trigger \in {"failure", "resume", "boundary"}
      BY <2>1
    <3> HIDE DEF cooling, p
    <3>3. QED
      BY <2>2, <3>1, <3>2, RemindersAreFresh
  <2>4. m # NoMemory => Unused(base.ledger[p], m)
    <3>1. \A i \in DOMAIN base.ledger[p] : i > Len(base.ledger[p]) - Cooldown =>
            base.ledger[p][i].memory \in cooling
      BY <2>1, RecentAreLast
    <3>2. QED
      BY <2>3, <3>1 DEF Unused
  <2>5. base' = base /\ doing'[c].of = p /\ doing'[c].memory = m
        /\ \A d \in Callers \ {c} : doing'[d] = doing[d]
    BY <1>6, <2>2 DEF CheckSelect
  <2>6. FreshFor(c)'
    BY <2>4, <2>5 DEF FreshFor
  <2>7. QED
    BY <1>3, <2>5, <2>6
<1>7. ASSUME NEW c \in Callers, CheckMark(c)
      PROVE  Goal
  <2>1. doing[c] \in [does : {"check"}, at : {"mark"}, of : Projects,
                      memory : Memories, raced : BOOLEAN]
    BY <1>7 DEF CheckMark, Underway, Commands
  <2>2. base'.ledger = base.ledger
    BY <1>7 DEF CheckMark, Tables
  <2>3. /\ \A d \in Callers \ {c} : doing'[d] = doing[d]
        /\ doing'[c].of = doing[c].of /\ doing'[c].raced = doing[c].raced
        /\ doing'[c].memory = doing[c].memory \/ doing'[c].memory = NoMemory
    BY <1>7, <2>1 DEF CheckMark
  <2>4. FreshFor(c)'
    BY <1>0, <2>1, <2>2, <2>3 DEF FreshFor
  <2>5. QED
    BY <1>3, <2>2, <2>3, <2>4
<1>8. ASSUME NEW c \in Callers, CheckRecord(c)
      PROVE  Goal
  <2> DEFINE p == doing[c].of
             entry == [memory |-> doing[c].memory, raced |-> doing[c].raced]
  <2>1. doing[c] \in [does : {"check"}, at : {"record"}, of : Projects,
                      memory : Memories \cup {NoMemory}, raced : BOOLEAN]
    BY <1>8 DEF CheckRecord, Underway, Commands
  <2>2. CASE RequireProject(p)
    <3> DEFINE l == base.ledger[p]
    <3>1. base'.ledger = [base.ledger EXCEPT ![p] = Append(l, entry)]
      BY <1>8, <2>1, <2>2 DEF CheckRecord, Tables
    <3>2. /\ entry \in Entries /\ l \in Seq(Entries) /\ p \in Projects
          /\ base.ledger \in [Projects -> Seq(Entries)]
      BY <2>1 DEF Tables, Entries
    <3>3. CoolDown(l) /\ (entry.memory # NoMemory /\ ~entry.raced => Unused(l, entry.memory))
      BY <1>0, <2>1 DEF FreshFor
    <3>4. \A d \in Callers \ {c} :
            IF /\ doing[d].does = "check" /\ doing[d].of = p /\ doing[d].at # "select"
               /\ NoMemory \notin {entry.memory, doing[d].memory}
            THEN doing'[d] = [doing[d] EXCEPT !.raced = TRUE]
            ELSE doing'[d] = doing[d]
      BY <1>8, <2>2 DEF CheckRecord
    <3>5. doing'[c] = Unbusy
      BY <1>8, <2>2 DEF CheckRecord
    <3> HIDE DEF entry, l, p
    <3>6. /\ CoolDown(Append(l, entry))
          /\ \A m : Unused(l, m) /\ m # entry.memory => Unused(Append(l, entry), m)
      BY <3>2, <3>3, OneMoreReminder
    <3>7. base'.ledger[p] = Append(l, entry) /\ \A q \in Projects \ {p} : base'.ledger[q] = base.ledger[q]
      BY <3>1, <3>2
    <3>8. ASSUME NEW d \in Callers \ {c}
          PROVE  FreshFor(d)'
      <4> SUFFICES ASSUME doing'[d].does = "check", doing'[d].at \in {"mark", "record"},
                          doing'[d].memory # NoMemory, ~doing'[d].raced
                   PROVE  Unused(base'.ledger[doing'[d].of], doing'[d].memory)
        BY DEF FreshFor
      <4>1. doing[d] \in Commands
        OBVIOUS
      <4>2. doing'[d] = doing[d]
        <5> SUFFICES ASSUME doing[d].does = "check", doing[d].at # "select",
                            doing'[d] = [doing[d] EXCEPT !.raced = TRUE]
                     PROVE  FALSE
          BY <3>4
        <5>1. doing'[d].raced
          BY <4>1 DEF Commands
        <5>2. QED
          BY <5>1
      <4>3. doing[d].of \in Projects /\ Unused(base.ledger[doing[d].of], doing[d].memory)
        BY <1>0, <4>1, <4>2 DEF FreshFor, Commands
      <4>4. CASE doing[d].of # p
        BY <3>7, <4>2, <4>3, <4>4
      <4>5. CASE doing[d].of = p
        <5>1. ~(/\ doing[d].does = "check" /\ doing[d].of = p /\ doing[d].at # "select"
                /\ NoMemory \notin {entry.memory, doing[d].memory})
          <6> SUFFICES ASSUME doing'[d] = [doing[d] EXCEPT !.raced = TRUE], doing[d].does = "check",
                              doing[d].at # "select"
                       PROVE  FALSE
            BY <3>4
          <6>1. doing'[d].raced
            BY <4>1 DEF Commands
          <6>2. QED
            BY <6>1
        <5>2. entry.memory # doing[d].memory
          BY <4>2, <4>5, <5>1
        <5>3. QED
          BY <3>6, <3>7, <4>2, <4>3, <4>5, <5>2 DEF l
      <4>6. QED
        BY <4>4, <4>5
    <3>9. FreshFor(c)'
      BY <3>5 DEF FreshFor, Unbusy
    <3>10. \A q \in Projects : CoolDown(base'.ledger[q])
      BY <1>0, <3>6, <3>7
    <3>11. QED
      BY <3>8, <3>9, <3>10
  <2>3. CASE ~RequireProject(p)
    BY <1>5, <1>8, <2>3 DEF CheckRecord
  <2>4. QED
    BY <2>2, <2>3
<1>9. ASSUME NEW p \in Projects, PurgeProject(p)
      PROVE  Goal
  <2>1. UNCHANGED doing /\ base'.ledger = [base.ledger EXCEPT ![p] = <<>>]
    BY <1>9, PurgedRows DEF PurgeProject, RowsOnly
  <2>2. base.ledger \in [Projects -> Seq(Entries)]
    BY DEF Tables, Entries
  <2>3. base'.ledger[p] = <<>> /\ \A q \in Projects \ {p} : base'.ledger[q] = base.ledger[q]
    BY <2>1, <2>2
  <2>4. CoolDown(<<>>) /\ \A m : Unused(<<>>, m)
    BY DEF CoolDown, Unused
  <2>5. \A c \in Callers : doing[c].does = "check" => doing[c].of \in Projects
    BY DEF Commands
  <2>6. \A c \in Callers : FreshFor(c)'
    BY <1>0, <2>1, <2>3, <2>4, <2>5 DEF FreshFor
  <2>7. QED
    BY <1>0, <2>3, <2>4, <2>6
<1>10. ASSUME NEW c \in Callers, NEW p \in Projects, NEW g, CheckPool(c, p, g)
       PROVE  Goal
  <2>1. doing'[c].at = "select" /\ base' = base /\ \A d \in Callers \ {c} : doing'[d] = doing[d]
    BY <1>10 DEF CheckPool
  <2>2. QED
    BY <1>3, <2>1 DEF FreshFor
<1>11. CASE TaskNext
  <2>1. ASSUME base'.ledger = base.ledger, RowsOnly
        PROVE  Goal
    BY <1>4, <2>1 DEF RowsOnly
  <2>2. ASSUME NEW t \in TaskIds, NEW p \in Projects, NEW s \in Born, NEW deps \in SUBSET TaskIds,
               CreateTask(t, p, s, deps)
        PROVE  base'.ledger = base.ledger /\ RowsOnly
    BY <2>2 DEF CreateTask, Commit, Created, Tables
  <2>3. ASSUME NEW t \in TaskIds, NEW to \in DOMAIN TaskStates, TransitionTask(t, to)
        PROVE  base'.ledger = base.ledger /\ RowsOnly
    BY <2>3 DEF TransitionTask, Commit, Moved, Tables
  <2>4. ASSUME NEW p \in Projects, NEW t \in TaskIds \cup {NoTask}, AddReceipt(p, t)
        PROVE  base'.ledger = base.ledger /\ RowsOnly
    BY <2>4 DEF AddReceipt, Commit, Tables
  <2>5. ASSUME NEW p \in Projects, NEW t \in TaskIds \cup {NoTask}, NEW k, AddTaskEvidence(p, t, k)
        PROVE  base'.ledger = base.ledger /\ RowsOnly
    BY <2>5 DEF AddTaskEvidence, Filed, Commit, Tables
  <2>6. ASSUME NEW p \in Projects, NEW t \in TaskIds, NEW k, NEW to, ReviewTask(p, t, k, to)
        PROVE  base'.ledger = base.ledger /\ RowsOnly
    BY <2>6 DEF ReviewTask, Filed, Moved, Commit, Tables
  <2>7. ASSUME NEW c \in Callers, NEW p, NEW partial, DeliverTasks(c, p, partial)
        PROVE  Goal
    <3>1. doing'[c].does = "deliver" /\ base' = base /\ \A d \in Callers \ {c} : doing'[d] = doing[d]
      BY <2>7 DEF DeliverTasks
    <3>2. QED
      BY <1>3, <3>1 DEF FreshFor
  <2>8. ASSUME NEW c \in Callers, DeliverHoles(c)
        PROVE  Goal
    <3>1. doing[c] \in [does : {"deliver"}, at : {"holes"}, of : Projects, partial : BOOLEAN,
                        all : BOOLEAN, listed : SUBSET TaskIds,
                        unseen : SUBSET (TaskIds \cup {NoTask})]
      BY <2>8 DEF DeliverHoles, Underway, Commands
    <3>2. doing'[c].does # "check" /\ base' = base /\ \A d \in Callers \ {c} : doing'[d] = doing[d]
      BY <2>8, <3>1 DEF DeliverHoles, Unbusy
    <3>3. QED
      BY <1>3, <3>2 DEF FreshFor
  <2>9. ASSUME NEW c \in Callers, DeliverPacket(c)
        PROVE  Goal
    BY <1>5, <2>9 DEF DeliverPacket
  <2>10. QED
    BY <1>11, <2>1, <2>2, <2>3, <2>4, <2>5, <2>6, <2>7, <2>8, <2>9 DEF TaskNext
<1>12. CASE SentinelNext
  <2>1. ASSUME NEW m \in Memories, RetireMemory(m) \/ \E p \in Projects : AddMemory(m, p)
        PROVE  Goal
    <3>1. base'.ledger = base.ledger /\ UNCHANGED doing
      BY <2>1 DEF RetireMemory, AddMemory, Commit, RowsOnly, Tables
    <3>2. QED
      BY <1>4, <3>1
  <2>2. QED
    BY <1>6, <1>7, <1>8, <1>10, <1>12, <2>1 DEF SentinelNext
<1>13. CASE ProjectNext
  <2>1. ASSUME NEW p \in Projects, UpsertProject(p)
        PROVE  Goal
    <3>1. base'.ledger = base.ledger /\ UNCHANGED doing
      BY <2>1 DEF UpsertProject, Commit, RowsOnly, Tables
    <3>2. QED
      BY <1>4, <3>1
  <2>2. ASSUME NEW c \in Callers, Kill(c)
        PROVE  Goal
    BY <1>5, <2>2 DEF Kill
  <2>3. QED
    BY <1>9, <1>13, <2>1, <2>2 DEF ProjectNext
<1>14. CASE UNCHANGED jvars
  BY <1>4, <1>14 DEF jvars
<1>15. QED
  BY <1>11, <1>12, <1>13, <1>14 DEF JNext

-----------------------------------------------------------------------------
(* The theorems *)

LEMMA JInvInit == JInit => JInv
<1> SUFFICES ASSUME JInit
             PROVE  JInv
  OBVIOUS
<1>1. /\ base.projects = {} /\ base.tasks = [t \in TaskIds |-> NoTask] /\ base.edges = {}
      /\ base.evidence = {} /\ base.receipts = {}
      /\ base.memories = [m \in Memories |-> NoMemory]
      /\ base.ledger = [p \in Projects |-> <<>>]
      /\ base \in Tables
  BY DEF JInit, Tables
<1>2. doing = [c \in Callers |-> Unbusy] /\ deliveries = {}
  BY DEF JInit
<1>3. JTypeOK
  BY <1>1, <1>2 DEF JTypeOK, Commands, Unbusy
<1>4. RowsInv(base)
  BY <1>1 DEF RowsInv, KeysHold, FiledRight, Owned, Mirrored, HasTask, Kept
<1>5. DeliverInv /\ ChosenAfresh
  BY <1>2 DEF DeliverInv, ChosenAfresh, Unbusy
<1>6. RemindersCoolDown
  BY <1>1 DEF RemindersCoolDown
<1>7. QED
  BY <1>3, <1>4, <1>5, <1>6 DEF JInv, CoolInv

LEMMA JInvStep == JInv /\ [JNext]_jvars => JInv'
<1> SUFFICES ASSUME JInv, [JNext]_jvars
             PROVE  JInv'
  OBVIOUS
<1>1. RowsInv(base') /\ Stands(base, base')
  BY RowsStep DEF JInv, RowsAreKept
<1>2. JTypeOK'
  BY <1>1, CommandsStep DEF JInv, JTypeOK, RowsInv
<1>3. DeliverInv'
  BY <1>1, DeliverStep DEF JInv
<1>4. CoolInv'
  BY CoolStep DEF JInv
<1>5. QED
  BY <1>1, <1>2, <1>3, <1>4 DEF JInv

\* The invariant of the store of projects and of the commands over it.
LEMMA ProjectsInvariant == JSpec => []JInv
BY JInvInit, JInvStep, PTL DEF JSpec

\* Every row of the store, and all that a command holds of what it read, is of
\* its kind.
THEOREM ProjectsTypeCorrect == JSpec => []JTypeOK
<1>1. JInv => JTypeOK
  BY DEF JInv
<1>2. QED
  BY <1>1, ProjectsInvariant, PTL

\* No rows at all make a purge fail or leave some of the project behind
\* (purge_project): evidence and receipts name tasks of their own project, so
\* that every statement finds its rows and breaks no foreign key.
THEOREM PurgesEraseHolds == JSpec => []PurgesErase
<1>1. JInv => PurgesErase
  BY PurgedRows DEF JInv, PurgesErase
<1>2. QED
  BY <1>1, ProjectsInvariant, PTL

\* Nothing is left, or written later, of a project that is not there
\* (_require_sentinel_project inside each write, purge_project).
THEOREM NothingLeftBehindHolds == JSpec => []NothingLeftBehind
<1>1. ASSUME JInv, NEW p \in Projects \ base.projects
      PROVE  NothingOf(base, p)
  <2>1. TasksOf(base, p) = {}
    BY <1>1 DEF JInv, RowsInv, KeysHold, TasksOf
  <2>2. QED
    BY <1>1, <2>1 DEF JInv, RowsInv, KeysHold, Owned, NothingOf
<1>2. JInv => NothingLeftBehind
  BY <1>1 DEF NothingLeftBehind
<1>3. QED
  BY <1>2, ProjectsInvariant, PTL

\* The list on the row of a task and the dependencies table say the same,
\* through every creation and every purge (create_task, purge_project).
THEOREM MirrorsAgreeHolds == JSpec => []MirrorsAgree
<1>1. JInv => MirrorsAgree
  BY DEF JInv, RowsInv, Mirrored, MirrorsAgree
<1>2. QED
  BY <1>1, ProjectsInvariant, PTL

\* A delivery that told the founder that all is closed stands until its
\* project is purged, whatever moved between its reads; without --partial its
\* evidence stands too (cmd_deliver).
THEOREM DeliveredStandsHolds == JSpec => []DeliveredStands
<1>1. ASSUME JInv, NEW v \in deliveries
      PROVE  \/ \A t \in v.listed : base.tasks[t] = Gone
             \/ /\ \A t \in v.listed : HasTask(base, t) /\ base.tasks[t].status = "closed"
                /\ v.partial \/ OnEvidence(v)
  BY <1>1 DEF JInv, DeliverInv, Certified, Erased, Closed, Proven, TasksOf, OnEvidence
<1>2. JInv => DeliveredStands
  BY <1>1 DEF DeliveredStands
<1>3. QED
  BY <1>2, ProjectsInvariant, PTL

\* A memory is not shown again within its cooldown unless two checks ran at
\* once (recent_interventions, select, record_intervention).
THEOREM RemindersCoolDownHolds == JSpec => []RemindersCoolDown
<1>1. JInv => RemindersCoolDown
  BY DEF JInv, CoolInv
<1>2. QED
  BY <1>1, ProjectsInvariant, PTL
=============================================================================
