------------------------------ MODULE RunStore ------------------------------
(***************************************************************************)
(* The tables a controller run lives in (tools/bm_store.py, controller_...) *)
(* and the transactions on them.  An action below is one store method, and *)
(* a store method is one transaction; Controller says which command calls  *)
(* which, in what order.                                                   *)
(*                                                                         *)
(* Abstractions.  One project, and the run opened for it.  A definition    *)
(* hash is what a unit depends on with a version of all the rest.  The     *)
(* records named unit:<id> are represented by the latest lifecycle of the  *)
(* name: an earlier one is never active again.  The files two units write  *)
(* are disjoint, so a fence is refused over its name only.  A contract is  *)
(* its state, its amendments counted, and the units whose write scope it   *)
(* does not authorise; a tripped spend breaker is a contract that is dead. *)
(***************************************************************************)
EXTENDS Naturals, Sequences, FiniteSets

CONSTANTS
    Units,         \* unit ids
    Lanes, Lane,   \* Lane[u] is the lane of unit u
    Plans,         \* the unit graphs a plan may carry: unit -> [deps, def]
    Sessions,      \* session ids
    RetryCeiling   \* retries a unit is allowed

ASSUME UnitAssumptions ==
    /\ IsFiniteSet(Units) /\ IsFiniteSet(Lanes) /\ Sessions # {}
    /\ Lane \in [Units -> Lanes]
    /\ RetryCeiling \in Nat
    /\ \A g \in Plans :
         /\ DOMAIN g \subseteq Units
         /\ \A u \in DOMAIN g : g[u].deps \subseteq Units /\ g[u].def \in Nat \ {0}

VARIABLES
    run,         \* controller_runs.state
    driver,      \* controller_runs.session_id
    units,       \* controller_units: unit -> row
    dispatches,  \* controller_dispatches: unit -> its attempts, in order
    fences,      \* the latest record named unit:<id>: unit -> record
    gated,       \* lanes with an open founder step
    contract     \* the latest contract row

tables == <<run, driver, units, dispatches, fences, gated, contract>>

Unplanned == [status |-> "UNPLANNED", deps |-> {}, def |-> 0, retries |-> 0, fence |-> 0]

\* open_run, by one of the sessions: which one makes no difference.
RunInit ==
    /\ run = "NEW"
    /\ driver = CHOOSE s \in Sessions : TRUE
    /\ units = [u \in Units |-> Unplanned]
    /\ dispatches = [u \in Units |-> <<>>]
    /\ fences = [u \in Units |-> [id |-> 0, live |-> FALSE, by |-> driver]]
    /\ gated = {}
    /\ contract = [state |-> "live", revision |-> 1, forbids |-> {}]

-----------------------------------------------------------------------------
(* Reading *)

\* CONTROLLER_STATE_TRANSITIONS, by where a state may be left for.  The worker
\* of the shipped command line never reports an outage, which is the one way
\* into FAILED_RECOVERABLE.
Always == {"STOPPING", "PAUSED"}
Legal(s) ==
    CASE s = "NEW" -> {"ORIENTING"} \cup Always
      [] s = "ORIENTING" -> {"PLANNING"} \cup Always
      [] s = "PLANNING" -> {"READY"} \cup Always
      [] s = "READY" -> {"EXECUTING", "WAITING_HUMAN", "DELIVERABLE_READY"} \cup Always
      [] s = "EXECUTING" -> {"VERIFYING"} \cup Always
      [] s = "VERIFYING" -> {"CHECKPOINTED", "READY", "FAILED_TERMINAL"} \cup Always
      [] s = "CHECKPOINTED" -> {"READY", "WAITING_HUMAN", "DELIVERABLE_READY"} \cup Always
      [] s = "WAITING_HUMAN" -> {"READY"} \cup Always
      [] s = "DELIVERABLE_READY" -> {"COMPLETE", "READY"} \cup Always
      [] s = "PAUSED" ->
           {"READY", "ORIENTING", "PLANNING", "EXECUTING", "VERIFYING", "STOPPING"}
      [] s = "STOPPING" -> {"STOPPED"}
      [] OTHER -> {}

Terminal == {"COMPLETE", "STOPPED", "FAILED_TERMINAL"}

Planned == {u \in Units : units[u].status # "UNPLANNED"}
DoneUnits == {u \in Units : units[u].status = "DONE"}

\* A dispatch is a unit and the number of its attempt.
Open == {"DISPATCHED", "RESULT_IN"}
Dispatches(statuses) ==
    {d \in UNION {{u} \X DOMAIN dispatches[u] : u \in Units} :
        dispatches[d[1]][d[2]].status \in statuses}
OpenOf(u) == {d \in Dispatches(Open) : d[1] = u}

\* select_ready_units
Ready ==
    {u \in Units : /\ units[u].status \in {"PENDING", "READY"}
                   /\ units[u].deps \subseteq DoneUnits
                   /\ Lane[u] \notin gated}

\* Fence n of unit u is an active record.
Holds(u, n) == n # 0 /\ fences[u].id = n /\ fences[u].live

-----------------------------------------------------------------------------
(* Runs *)

CanMove(s) == s = run \/ s \in Legal(run)
SetRunState(s) ==
    /\ CanMove(s)
    /\ run' = s
    /\ UNCHANGED <<driver, units, dispatches, fences, gated, contract>>

AdoptRun(s) ==
    /\ run \notin Terminal /\ driver # s
    /\ driver' = s
    /\ UNCHANGED <<run, units, dispatches, fences, gated, contract>>

(* The unit graph *)

\* _status_for, from the rows as they were before the plan.
StatusFor(deps) == IF deps \subseteq DoneUnits THEN "READY" ELSE "PENDING"

Graph(g) ==
    /\ \A u \in DOMAIN g : g[u].deps \subseteq DOMAIN g \cup Planned
    /\ \A S \in SUBSET DOMAIN g :
         S # {} => \E u \in S : g[u].deps \cap S = {}

\* The row a unit gets, before DONE units are looked at again.
PlannedRow(g, u) ==
    LET row == units[u] IN
    IF u \in DOMAIN g
    THEN IF row.deps = g[u].deps /\ row.def = g[u].def
         THEN IF row.status = "SKIPPED"
              THEN [row EXCEPT !.status = StatusFor(row.deps)] ELSE row
         ELSE [status |-> StatusFor(g[u].deps), deps |-> g[u].deps,
               def |-> g[u].def, retries |-> 0, fence |-> 0]
    ELSE IF row.status \in {"UNPLANNED", "DONE"} THEN row
         ELSE [row EXCEPT !.status = "SKIPPED"]

\* The fixed point of the cascade: the largest set of DONE units whose
\* dependencies are all in it.
StillDone(rows) ==
    UNION {S \in SUBSET {u \in Units : rows[u].status = "DONE"} :
              \A u \in S : rows[u].deps \subseteq S}

Cascade(rows) ==
    [u \in Units |->
        IF rows[u].status = "DONE" /\ u \notin StillDone(rows)
        THEN [rows[u] EXCEPT !.status = "PENDING", !.fence = 0, !.retries = 0]
        ELSE rows[u]]

Dropped(g) == {u \in Planned \ DOMAIN g : units[u].status # "DONE"}

\* The fences a plan leaves to its caller to park.
OrphanedFences(g) == {<<u, units[u].fence>> : u \in {v \in Dropped(g) : units[v].fence # 0}}

CanUpsert(g) == Graph(g) /\ CanMove("READY")
UpsertUnits(g) ==
    /\ CanUpsert(g)
    /\ units' = Cascade([u \in Units |-> PlannedRow(g, u)])
    /\ dispatches' = [u \in Units |->
          IF u \in Dropped(g)
          THEN [i \in DOMAIN dispatches[u] |->
                  IF dispatches[u][i].status \in Open
                  THEN [dispatches[u][i] EXCEPT !.status = "CANCELLED"]
                  ELSE dispatches[u][i]]
          ELSE dispatches[u]]
    /\ run' = "READY"
    /\ UNCHANGED <<driver, fences, gated, contract>>

(* One unit *)

SetUnit(u, row) == units' = [units EXCEPT ![u] = row]
KeepAllBut == UNCHANGED <<run, driver, gated, contract>>

CanClaim(u) == units[u].status \in {"READY", "PENDING"}
ClaimUnit(u, n) ==
    /\ CanClaim(u)
    /\ SetUnit(u, [units[u] EXCEPT !.status = "CLAIMED", !.fence = n])
    /\ UNCHANGED <<dispatches, fences>> /\ KeepAllBut

\* UNIQUE(unit_id, attempt) is all that record_dispatch asks.
CanDispatch(u, attempt) == attempt = Len(dispatches[u]) + 1
RecordDispatch(u, attempt, revision) ==
    /\ CanDispatch(u, attempt)
    /\ dispatches' = [dispatches EXCEPT ![u] =
          Append(@, [status |-> "DISPATCHED", revision |-> revision, judged |-> 0])]
    /\ SetUnit(u, [units[u] EXCEPT !.status = "DISPATCHED"])
    /\ UNCHANGED fences /\ KeepAllBut

CanResult(u, i) == dispatches[u][i].status = "DISPATCHED"
RecordResult(u, i) ==
    /\ CanResult(u, i)
    /\ dispatches' = [dispatches EXCEPT ![u][i].status = "RESULT_IN"]
    /\ SetUnit(u, [units[u] EXCEPT !.status = "RESULT_IN"])
    /\ UNCHANGED fences /\ KeepAllBut

\* A verdict keeps, for the properties, the definition whose check passed.
CanVerify(u, i) == dispatches[u][i].status \in Open
RecordVerification(u, i, accepted, def) ==
    /\ CanVerify(u, i)
    /\ dispatches' = [dispatches EXCEPT
          ![u][i].status = IF accepted THEN "VERIFIED" ELSE "REJECTED",
          ![u][i].judged = IF accepted THEN def ELSE 0]
    /\ UNCHANGED <<units, fences>> /\ KeepAllBut

\* Mutant: a unit is marked done without a look at its row.
FinishAnyway(u) == TRUE
CanFinish(u) == units[u].status \in {"RESULT_IN", "VERIFYING"}
MarkUnitDone(u) ==
    /\ CanFinish(u)
    /\ SetUnit(u, [units[u] EXCEPT !.status = "DONE"])
    /\ UNCHANGED <<dispatches, fences>> /\ KeepAllBut

MarkUnitFailed(u) ==
    /\ SetUnit(u, [units[u] EXCEPT
          !.retries = @ + 1,
          !.status = IF units[u].retries < RetryCeiling THEN "READY" ELSE "FAILED"])
    /\ UNCHANGED <<dispatches, fences>> /\ KeepAllBut

CanRelease(u) == units[u].status = "CLAIMED"
ReleaseClaimedUnit(u) ==
    /\ CanRelease(u)
    /\ SetUnit(u, [units[u] EXCEPT !.status = StatusFor(units[u].deps), !.fence = 0])
    /\ UNCHANGED <<dispatches, fences>> /\ KeepAllBut

(* Lanes *)

BlockLaneUnits(l) ==
    /\ units' = [u \in Units |->
          IF Lane[u] = l /\ units[u].status \in {"PENDING", "READY"}
          THEN [units[u] EXCEPT !.status = "BLOCKED"] ELSE units[u]]
    /\ UNCHANGED <<dispatches, fences>> /\ KeepAllBut

UnblockLaneUnits(l) ==
    /\ units' = [u \in Units |->
          IF Lane[u] = l /\ units[u].status = "BLOCKED"
          THEN [units[u] EXCEPT !.status = StatusFor(units[u].deps)] ELSE units[u]]
    /\ UNCHANGED <<dispatches, fences>> /\ KeepAllBut

QueueHumanStep(u) ==
    /\ gated' = gated \cup {Lane[u]}
    /\ UNCHANGED <<run, driver, units, dispatches, fences, contract>>

(* Fences: what Store.claim and Store.transition do to unit:<id>, see      *)
(* RecordStore for the whole of them.                                      *)

CanHold(u, s) == ~fences[u].live \/ fences[u].by = s
FenceFor(u) == IF fences[u].live THEN fences[u].id ELSE fences[u].id + 1
ClaimFence(u, s) ==
    /\ CanHold(u, s)
    /\ fences' = [fences EXCEPT ![u] = [id |-> FenceFor(u), live |-> TRUE, by |-> s]]
    /\ UNCHANGED <<run, driver, units, dispatches, gated, contract>>

ReleaseFence(u, n) ==
    /\ fences' = IF Holds(u, n) THEN [fences EXCEPT ![u].live = FALSE] ELSE fences
    /\ UNCHANGED <<run, driver, units, dispatches, gated, contract>>

-----------------------------------------------------------------------------
(* Types *)

RunStates ==
    {"NEW", "ORIENTING", "PLANNING", "READY", "EXECUTING", "VERIFYING", "CHECKPOINTED",
     "WAITING_HUMAN", "DELIVERABLE_READY", "PAUSED", "STOPPING"} \cup Terminal
UnitStatus ==
    {"UNPLANNED", "PENDING", "READY", "CLAIMED", "DISPATCHED", "RESULT_IN", "DONE",
     "FAILED", "BLOCKED", "SKIPPED"}
UnitRow ==
    [status : UnitStatus, deps : SUBSET Units, def : Nat, retries : Nat, fence : Nat]
Attempt == [status : Open \cup {"VERIFIED", "REJECTED", "CANCELLED"},
            revision : Nat, judged : Nat]

\* Every table has its type; a unit waits for units of a plan, a fence it links
\* is one that was claimed, and it fails for good only past its retries.
RTypeOK ==
    /\ run \in RunStates
    /\ driver \in Sessions
    /\ units \in [Units -> UnitRow]
    /\ dispatches \in [Units -> Seq(Attempt)]
    /\ fences \in [Units -> [id : Nat, live : BOOLEAN, by : Sessions]]
    /\ gated \subseteq Lanes
    /\ contract \in [state : {"live", "paused", "dead"}, revision : Nat \ {0},
                     forbids : SUBSET Units]
    /\ \A u \in Units :
         /\ units[u].status = "UNPLANNED" => units[u] = Unplanned
         /\ units[u].deps \subseteq Planned
         /\ units[u].fence <= fences[u].id
         /\ units[u].status = "FAILED" => units[u].retries > RetryCeiling
         /\ \A i \in DOMAIN dispatches[u] :
              dispatches[u][i].revision \in 1 .. contract.revision
=============================================================================
