----------------------------- MODULE Controller -----------------------------
(***************************************************************************)
(* The Full-Auto controller (tools/bm_controller.py): step, record-result, *)
(* plan and stop, each a program over the transactions of RunStore, and    *)
(* the single transactions of a founder.                                   *)
(*                                                                         *)
(* A command under way is the list of what it has still to do, its agenda. *)
(* Its head is a transaction, which the store carries out or refuses, or a *)
(* decision: a look at the store that puts more on the agenda.  A refusal  *)
(* is an exception, and a kill is possible anywhere; both leave the store  *)
(* as it is and the agenda forgotten.                                      *)
(*                                                                         *)
(* The worker is the one of the shipped command line: it prints a brief    *)
(* and leaves the answer to a later record-result.  Left out: the worker   *)
(* that answers or fails at once, check_timeouts, which no command calls,  *)
(* the soft stop of the spend breaker and the spend still to reconcile,    *)
(* the fence and the checkpoints of the run itself.                        *)
(***************************************************************************)
EXTENDS RunStore, SequencesExt

CONSTANTS
    Commands,   \* processes that run a command
    MayRun,     \* MayRun[c]: which of the commands c runs
    Idle,       \* no command under way
    Bound       \* how often each kind of event happens that nothing else bounds

Kinds == {"step", "result", "plan", "stop"}
Events == {"kill", "plan", "founder"}

ASSUME CommandAssumptions ==
    /\ MayRun \in [Commands -> SUBSET Kinds]
    /\ Bound \in [Events -> Nat]

\* What a step lists of a unit, and what an agenda is made of.
Listed == [unit : Units, status : UnitStatus, fence : Nat]
Bare == {"list", "contract", "await", "select", "walk", "ensure", "unwind", "reconcile",
         "settle", "nothing ready", "wait", "deliver", "terminal", "orient", "stopping",
         "stop fences"}
Entry ==
    {<<what>> : what \in Bare}
    \cup ({"move", "delivered"} \X RunStates)
    \cup ({"block", "unblock"} \X Lanes)
    \cup ({"tell", "fail", "done", "release", "gate"} \X Units)
    \cup ({"orphans", "results"} \X SUBSET Listed)
    \cup ({"wave"} \X SUBSET Units)
    \cup ({"upsert"} \X Plans)
    \cup ({"park", "record", "reject", "fetch", "claim fence"} \X Units \X Nat)
    \cup ({"accept", "judge", "received", "ask again", "claim", "dispatch"} \X Units \X Nat \X Nat)
    \cup ({"rollback"} \X Units \X Nat \X {"stale", "judged"})
    \cup ({"check"} \X Units \X Nat \X Nat \X Nat)
Underway == [session : Sessions, agenda : Seq(Entry) \ {<<>>}, noted : BOOLEAN, sent : BOOLEAN]
ASSUME IdleIsNone == Idle \notin Underway

VARIABLES
    p,     \* process -> the command it is in the middle of
    spent  \* how often each bounded event has happened

pvars == <<p, spent>>
vars == <<tables, pvars>>

ControllerInit ==
    /\ RunInit
    /\ p = [c \in Commands |-> Idle]
    /\ spent = [e \in Events |-> 0]

Spend(e) == spent[e] < Bound[e] /\ spent' = [spent EXCEPT ![e] = @ + 1]

\* noted: a step has repaired something; sent: a wave has dispatched something.
Start(c, s, agenda) ==
    /\ p[c] = Idle
    /\ p' = [p EXCEPT ![c] = [session |-> s, agenda |-> agenda,
                              noted |-> FALSE, sent |-> FALSE]]

\* Process c goes on with agenda; a command with nothing left to do is over.
Continue(c, q, agenda) ==
    p' = [p EXCEPT ![c] = IF agenda = <<>> THEN Idle ELSE [q EXCEPT !.agenda = agenda]]

Rest(c) == Tail(p[c].agenda)

-----------------------------------------------------------------------------
(* What the code reads again and again *)

DispatchSource == {"CHECKPOINTED", "WAITING_HUMAN", "READY", "EXECUTING"}
Walkable == DispatchSource \cup {"VERIFYING"}
DeliverySource == Walkable
UnitOver == {"DONE", "FAILED", "SKIPPED"}

Live == contract.state = "live"
Authorised(u) == Live /\ u \notin contract.forbids
Row(u) == [unit |-> u, status |-> units[u].status, fence |-> units[u].fence]
Rows == {Row(u) : u \in Planned}

\* Moves, by the state the run is seen in.
Moves(path) == [i \in DOMAIN path |-> <<"move", path[i]>>]

\* _walk_to_executing
Walk ==
    Moves(CASE run \in {"CHECKPOINTED", "WAITING_HUMAN"} -> <<"READY", "EXECUTING">>
            [] run = "READY" -> <<"EXECUTING">>
            [] OTHER -> <<>>)

\* _ensure_verifying
Ensure == IF run = "EXECUTING" THEN Moves(<<"VERIFYING">>) ELSE <<>>

\* _unwind_empty_wave
Unwind ==
    IF Dispatches(Open) = {} /\ run = "EXECUTING"
    THEN Moves(<<"VERIFYING", "CHECKPOINTED">>) ELSE <<>>

\* _reconcile_lane_blocks
WaitingIn(l, statuses) == \E u \in Units : Lane[u] = l /\ units[u].status \in statuses
Reconcile ==
    SetToSeq({<<"block", l>> : l \in {k \in gated : WaitingIn(k, {"PENDING", "READY"})}}
        \cup {<<"unblock", l>> : l \in {k \in Lanes \ gated : WaitingIn(k, {"BLOCKED"})}})

\* The units of S and those that wait for one of them, near or far: all but the
\* largest set without S in which nobody waits for anybody outside.
Waiting(u) == units[u].status \in {"PENDING", "READY", "BLOCKED"}
Behind(S) ==
    Units \ UNION {R \in SUBSET (Units \ S) :
                      \A u \in R : Waiting(u) => units[u].deps \subseteq R}

\* _unreachable_units, _founder_gated_units
Dead == {u \in Planned : units[u].status \in {"FAILED", "SKIPPED"}}
Unreachable == Behind(Dead) \ Dead
FounderGated ==
    Behind(Unreachable \cup {u \in Planned : \/ units[u].status = "BLOCKED"
                                             \/ Waiting(u) /\ Lane[u] \in gated})

-----------------------------------------------------------------------------
(* How an agenda goes on *)

At(c, what) == p[c] # Idle /\ Head(p[c].agenda)[1] = what
Arg(c, i) == Head(p[c].agenda)[i]

\* A transaction: carried out, with more to do first; or refused.
Do(c, can, transaction, more) ==
    \/ can /\ transaction /\ Continue(c, p[c], more \o Rest(c))
    \/ ~can /\ Continue(c, p[c], <<>>) /\ UNCHANGED tables

\* A decision: more to do first; or nothing more, the command is over.
Decide(c, more) == Continue(c, p[c], more \o Rest(c)) /\ UNCHANGED tables
End(c) == Continue(c, p[c], <<>>) /\ UNCHANGED tables

Transaction(c) ==
    \/ At(c, "move") /\ Do(c, CanMove(Arg(c, 2)), SetRunState(Arg(c, 2)), <<>>)
    \/ At(c, "park") /\ Do(c, TRUE, ReleaseFence(Arg(c, 2), Arg(c, 3)), <<>>)
    \/ At(c, "tell") /\ Do(c, TRUE, QueueHumanStep(Arg(c, 2)), <<>>)
    \/ At(c, "block") /\ Do(c, TRUE, BlockLaneUnits(Arg(c, 2)), <<>>)
    \/ At(c, "unblock") /\ Do(c, TRUE, UnblockLaneUnits(Arg(c, 2)), <<>>)
    \/ At(c, "fail") /\ Do(c, TRUE, MarkUnitFailed(Arg(c, 2)), <<>>)
    \/ At(c, "done") /\ Do(c, CanFinish(Arg(c, 2)), MarkUnitDone(Arg(c, 2)), <<>>)
    \/ At(c, "release") /\ Do(c, CanRelease(Arg(c, 2)), ReleaseClaimedUnit(Arg(c, 2)), <<>>)
    \/ At(c, "record") /\ Do(c, CanResult(Arg(c, 2), Arg(c, 3)),
                                RecordResult(Arg(c, 2), Arg(c, 3)), <<>>)
    \/ At(c, "reject") /\ Do(c, CanVerify(Arg(c, 2), Arg(c, 3)),
                                RecordVerification(Arg(c, 2), Arg(c, 3), FALSE, 0), <<>>)
    \/ At(c, "accept") /\ Do(c, CanVerify(Arg(c, 2), Arg(c, 3)),
                                RecordVerification(Arg(c, 2), Arg(c, 3), TRUE, Arg(c, 4)), <<>>)

\* What is read at the moment it is needed.
Look(c) ==
    \/ At(c, "walk") /\ Decide(c, Walk)
    \/ At(c, "ensure") /\ Decide(c, Ensure)
    \/ At(c, "unwind") /\ Decide(c, Unwind)
    \/ At(c, "reconcile") /\ Decide(c, Reconcile)

\* A fence released, as parked or as complete, is no longer active.
Park(u, n) == <<"park", u, n>>

-----------------------------------------------------------------------------
(* Judging a result *)

\* _close_without_running, when it is not a pause that refused.
\* Mutant: the fence goes before the dispatch is closed.
ParkFirst(u, i, n) == <<Park(u, n), <<"reject", u, i>>, <<"fail", u>>, <<"tell", u>>>>
Close(u, i, n) == <<<<"reject", u, i>>, <<"fail", u>>, Park(u, n), <<"tell", u>>>>

\* _verify_and_finish up to its check: <<"judge", unit, attempt, fence>>.
Judge(c) ==
    /\ At(c, "judge")
    /\ LET u == Arg(c, 2) i == Arg(c, 3) n == Arg(c, 4) IN
       CASE contract.state = "paused" -> Decide(c, <<>>)
         [] contract.state # "paused" /\ ~Authorised(u) -> Decide(c, Close(u, i, n))
         [] OTHER -> Decide(c, <<<<"check", u, i, n, units[u].def>>>>)

\* The rollback: it runs if authorised, and may fail.
Rollback(c) ==
    /\ At(c, "rollback")
    /\ LET u == Arg(c, 2) n == Arg(c, 3) IN
       \/ Decide(c, <<Park(u, n)>>)
       \/ Authorised(u) /\ Decide(c, <<<<"tell", u>>, Park(u, n)>> \o
             IF Arg(c, 4) = "judged" THEN <<<<"terminal">>>> ELSE <<>>)

\* After a failed rollback: the run is over, from where that is legal.
FailTerminally(c) ==
    /\ At(c, "terminal")
    /\ Decide(c, IF "FAILED_TERMINAL" \in Legal(run) THEN Moves(<<"FAILED_TERMINAL">>) ELSE <<>>)

Stamped(u, i) == dispatches[u][i].revision

(* The check has run: its outcome counts if the contract, read again, still *)
(* authorises the unit and has not been amended since the dispatch.         *)
Checked(c) ==
    /\ At(c, "check")
    /\ LET u == Arg(c, 2) i == Arg(c, 3) n == Arg(c, 4)
           stale == <<<<"reject", u, i>>, <<"fail", u>>, <<"rollback", u, n, "stale">>>>
       IN IF ~Authorised(u) THEN Decide(c, Append(stale, <<"tell", u>>))
          ELSE IF Stamped(u, i) # contract.revision THEN Decide(c, stale)
          ELSE \/ Decide(c, <<<<"accept", u, i, Arg(c, 5)>>, <<"done", u>>, Park(u, n)>>)
               \/ Decide(c, <<<<"reject", u, i>>, <<"fail", u>>, <<"rollback", u, n, "judged">>>>)

\* _settle_after_wave
Settle(c) ==
    /\ At(c, "settle")
    /\ CASE run = "EXECUTING" -> Decide(c, Moves(<<"VERIFYING">>) \o <<<<"settle">>>>)
         [] run = "VERIFYING" -> Decide(c, Moves(<<"CHECKPOINTED">>) \o <<<<"settle">>>>)
         [] run = "CHECKPOINTED" /\ Live ->
              Decide(c, IF Ready # {} THEN Moves(<<"READY">>) ELSE <<<<"unwind">>, <<"nothing ready">>>>)
         [] OTHER -> End(c)

\* Mutant: with nothing in flight the run is delivered.
NothingInFlight(c) ==
    /\ At(c, "nothing ready")
    /\ Decide(c, IF Dispatches(Open) # {} THEN <<>> ELSE <<<<"deliver">>>>)
(* _handle_no_ready_units *)
NothingReady(c) ==
    /\ At(c, "nothing ready")
    /\ LET stuck == {u \in Unreachable : Lane[u] \notin gated} IN
       CASE Dispatches(Open) # {} -> End(c)
         [] Dispatches(Open) = {} /\ \A u \in Planned : units[u].status \in UnitOver ->
              Decide(c, <<<<"deliver">>>>)
         [] OTHER ->
              Decide(c, SetToSeq({<<"tell", u>> : u \in stuck})
                        \o (IF stuck = {} THEN <<>> ELSE <<<<"reconcile">>>>)
                        \o <<<<"wait">>>>)

WaitForFounder(c) ==
    /\ At(c, "wait")
    /\ IF /\ run \in {"READY", "CHECKPOINTED"}
          /\ \A u \in Planned : units[u].status \notin UnitOver => u \in FounderGated
       THEN Decide(c, Moves(<<"WAITING_HUMAN">>))
       ELSE End(c)

(* _deliver_or_hold, the done-definition and what follows it *)
Deliver(c) ==
    /\ At(c, "deliver")
    /\ IF Live /\ run \in DeliverySource
       THEN \/ Decide(c, <<<<"delivered", run>>>>)
            \/ End(c)
       ELSE End(c)

Delivered(c) ==
    /\ At(c, "delivered")
    /\ IF Live
       THEN Decide(c, Moves(
              (CASE Arg(c, 2) = "EXECUTING" -> <<"VERIFYING", "CHECKPOINTED">>
                 [] Arg(c, 2) = "VERIFYING" -> <<"CHECKPOINTED">>
                 [] Arg(c, 2) = "WAITING_HUMAN" -> <<"READY">>
                 [] OTHER -> <<>>) \o <<"DELIVERABLE_READY">>))
       ELSE End(c)

Judging(c) ==
    \/ Judge(c) \/ Rollback(c) \/ FailTerminally(c) \/ Checked(c)
    \/ Settle(c) \/ NothingReady(c) \/ WaitForFounder(c)
    \/ Deliver(c) \/ Delivered(c)

-----------------------------------------------------------------------------
(* step *)

BeginStep(c) ==
    /\ "step" \in MayRun[c]
    /\ run \notin Terminal \cup {"PAUSED"}
    /\ Start(c, driver, <<<<"list">>>>)
    /\ UNCHANGED <<tables, spent>>

ListUnits(c) == At(c, "list") /\ Decide(c, <<<<"orphans", Rows>>, <<"results", Rows>>>>)

\* Mutant: an attempt that was closed without its unit is left as it is.
RepairClaims(r) ==
    CASE r.status \in {"DONE", "SKIPPED"} /\ Holds(r.unit, r.fence) ->
           <<Park(r.unit, r.fence)>>
      [] r.status = "CLAIMED" /\ OpenOf(r.unit) = {} ->
           <<Park(r.unit, r.fence), <<"release", r.unit>>>>
      [] OTHER -> <<>>
\* What a crash has left of one unit, by the row as it was listed.
Repair(r) ==
    CASE r.status \in {"DONE", "SKIPPED"} /\ Holds(r.unit, r.fence) ->
           <<Park(r.unit, r.fence)>>
      [] r.status = "CLAIMED" /\ OpenOf(r.unit) = {} ->
           <<Park(r.unit, r.fence), <<"release", r.unit>>>>
      [] r.status \in {"DISPATCHED", "RESULT_IN"} /\ OpenOf(r.unit) = {} ->
           <<Park(r.unit, r.fence), <<"fail", r.unit>>>>
      [] OTHER -> <<>>

Orphans(c) ==
    /\ At(c, "orphans")
    /\ \/ Arg(c, 2) = {} /\ Decide(c, <<>>)
       \/ \E r \in Arg(c, 2) :
            /\ Continue(c, [p[c] EXCEPT !.noted = @ \/ Repair(r) # <<>>],
                        Repair(r) \o <<<<"orphans", Arg(c, 2) \ {r}>>>> \o Rest(c))
            /\ UNCHANGED tables

\* Mutant: a result is looked for where none can be.
UnjudgedDispatched(rows) ==
    {x \in rows \X {d[2] : d \in Dispatches({"RESULT_IN"})} :
        x[1].status = "DISPATCHED" /\ <<x[1].unit, x[2]>> \in Dispatches({"RESULT_IN"})}
\* Results recorded and not judged: a crash, or a pause.
Unjudged(rows) ==
    LET received == Dispatches({"RESULT_IN"}) IN
    {x \in rows \X {d[2] : d \in received} :
        /\ x[1].status = "RESULT_IN"
        /\ <<x[1].unit, x[2]>> \in received
        /\ \A d \in received : d[1] = x[1].unit => d[2] <= x[2]}

Results(c) ==
    /\ At(c, "results")
    /\ IF contract.state = "paused" \/ Unjudged(Arg(c, 2)) = {}
       THEN IF p[c].noted THEN End(c) ELSE Decide(c, <<<<"contract">>>>)
       ELSE \E x \in Unjudged(Arg(c, 2)) :
              LET u == x[1].unit n == x[1].fence IN
              Decide(c, IF Live THEN <<<<"walk">>, <<"ensure">>, <<"judge", u, x[2], n>>, <<"settle">>>>
                        ELSE Close(u, x[2], n))

ReadContract(c) ==
    /\ At(c, "contract")
    /\ Decide(c, CASE contract.state = "live" -> <<<<"await">>>>
                   [] contract.state = "paused" -> Moves(<<"PAUSED">>)
                   [] OTHER -> <<<<"stopping">>>>)

\* Mutant: only the rows of the units tell whether one is awaited.
AwaitByRow(c) ==
    /\ At(c, "await")
    /\ LET D == {d \in Dispatches({"DISPATCHED"}) : units[d[1]].status = "DISPATCHED"} IN
       IF D = {} THEN Decide(c, <<<<"reconcile">>, <<"select">>>>)
       ELSE IF run \notin DispatchSource THEN End(c)
       ELSE \E d \in D : Decide(c, <<<<"ask again", d[1], d[2], units[d[1]].fence>>>>)
\* _resume_dispatched: one open dispatch is awaited again, if it still may be.
Await(c) ==
    /\ At(c, "await")
    /\ LET D == Dispatches({"DISPATCHED"}) IN
       IF D = {} THEN Decide(c, <<<<"reconcile">>, <<"select">>>>)
       ELSE IF run \notin DispatchSource THEN End(c)
       ELSE \E d \in D : Decide(c, <<<<"ask again", d[1], d[2], units[d[1]].fence>>>>)

(* _authorise_dispatch of a dispatch that is open already.                 *)
AskAgain(c) ==
    /\ At(c, "ask again")
    /\ LET u == Arg(c, 2) i == Arg(c, 3) n == Arg(c, 4) IN
       Decide(c, IF ~Live THEN <<<<"stopping">>>>
                 ELSE IF u \in contract.forbids
                      THEN <<<<"reject", u, i>>, Park(u, n), <<"fail", u>>>>
                 ELSE IF Stamped(u, i) # contract.revision \/ ~Holds(u, n)
                      THEN <<<<"reject", u, i>>, <<"fail", u>>, Park(u, n)>>
                 ELSE <<<<"walk">>>>)

Select(c) ==
    /\ At(c, "select")
    /\ IF Ready = {} THEN Decide(c, <<<<"unwind">>, <<"nothing ready">>>>)
       ELSE IF run \notin DispatchSource THEN End(c)
       ELSE Decide(c, <<<<"walk">>, <<"wave", Ready>>>>)

Wave(c) ==
    /\ At(c, "wave")
    /\ IF Arg(c, 2) = {}
       THEN IF p[c].sent THEN End(c) ELSE Decide(c, <<<<"unwind">>>>)
       ELSE \E u \in Arg(c, 2) : Decide(c, <<<<"gate", u>>, <<"wave", Arg(c, 2) \ {u}>>>>)

(* _authorise_dispatch of a unit selected: the gate, the fence, the claim,  *)
(* the dispatch.                                                            *)
Gate(c) ==
    /\ At(c, "gate")
    /\ LET u == Arg(c, 2) IN
       Decide(c, IF ~Live THEN <<<<"stopping">>>>
                 ELSE IF u \in contract.forbids THEN <<<<"fail", u>>>>
                 ELSE <<<<"claim fence", u, contract.revision>>>>)

ClaimUnitFence(c) ==
    /\ At(c, "claim fence")
    /\ LET u == Arg(c, 2) IN
       IF CanHold(u, p[c].session)
       THEN /\ ClaimFence(u, p[c].session)
            /\ Continue(c, p[c], <<<<"claim", u, FenceFor(u), Arg(c, 3)>>>> \o Rest(c))
       ELSE Decide(c, <<>>)

Claim(c) ==
    /\ At(c, "claim")
    /\ LET u == Arg(c, 2) n == Arg(c, 3) IN
       IF CanClaim(u)
       THEN /\ ClaimUnit(u, n)
            /\ Continue(c, p[c], <<<<"dispatch", u, Len(dispatches[u]) + 1, Arg(c, 4)>>>> \o Rest(c))
       ELSE Decide(c, <<Park(u, n)>>)

Dispatch(c) ==
    /\ At(c, "dispatch")
    /\ LET u == Arg(c, 2) i == Arg(c, 3) IN
       IF CanDispatch(u, i)
       THEN /\ RecordDispatch(u, i, Arg(c, 4))
            /\ Continue(c, [p[c] EXCEPT !.sent = TRUE], Rest(c))
       ELSE End(c)

Stepping(c) ==
    \/ ListUnits(c) \/ Orphans(c) \/ Results(c) \/ ReadContract(c)
    \/ Await(c) \/ AskAgain(c) \/ Select(c) \/ Wave(c)
    \/ Gate(c) \/ ClaimUnitFence(c) \/ Claim(c) \/ Dispatch(c)
-----------------------------------------------------------------------------
(* record-result *)

BeginResult(c) ==
    /\ "result" \in MayRun[c]
    /\ \E d \in Dispatches({"DISPATCHED"}) :
         Start(c, driver,
               IF run = "PAUSED" \/ contract.state = "paused"
               THEN <<<<"record", d[1], d[2]>>>>
               ELSE <<<<"record", d[1], d[2]>>,
                      <<"received", d[1], d[2], units[d[1]].fence>>>>)
    /\ UNCHANGED <<tables, spent>>

\* A result is judged in the states it can be walked from; in any other it is
\* late, rejected and told to the founder (_handle_late_result).
Received(c) ==
    /\ At(c, "received")
    /\ LET u == Arg(c, 2) i == Arg(c, 3) IN
       IF run \in Walkable
       THEN Decide(c, <<<<"walk">>, <<"ensure">>, <<"fetch", u, i>>, <<"settle">>>>)
       ELSE Decide(c, <<<<"reject", u, i>>, <<"fail", u>>, <<"tell", u>>,
                        Park(u, Arg(c, 4)), <<"reconcile">>>>)

\* The row of the unit is read again before it is judged.
Fetch(c) ==
    /\ At(c, "fetch")
    /\ LET u == Arg(c, 2) IN Decide(c, <<<<"judge", u, Arg(c, 3), units[u].fence>>>>)

(* plan *)

BeginPlan(c) ==
    /\ "plan" \in MayRun[c]
    /\ run # "PAUSED"
    /\ Spend("plan")
    /\ \E g \in Plans :
         Start(c, driver, (IF run = "NEW" THEN Moves(<<"ORIENTING">>) ELSE <<>>)
                          \o <<<<"orient">>, <<"upsert", g>>>>)
    /\ UNCHANGED tables

Orient(c) ==
    /\ At(c, "orient")
    /\ Decide(c, IF run = "ORIENTING" THEN Moves(<<"PLANNING">>) ELSE <<>>)

Upsert(c) ==
    /\ At(c, "upsert")
    /\ LET g == Arg(c, 2) IN
       Do(c, CanUpsert(g), UpsertUnits(g),
          SetToSeq({Park(f[1], f[2]) : f \in OrphanedFences(g)}) \o <<<<"reconcile">>>>)

(* stop, and a step or a dispatch that finds nothing authorised             *)

BeginStop(c) ==
    /\ "stop" \in MayRun[c]
    /\ run \notin Terminal
    /\ Start(c, driver, <<<<"stopping">>>>)
    /\ UNCHANGED <<tables, spent>>

\* _begin_stopping
Stopping(c) ==
    /\ At(c, "stopping")
    /\ Decide(c, (IF run \notin Terminal \cup {"STOPPING"} THEN Moves(<<"STOPPING">>) ELSE <<>>)
                 \o <<<<"stop fences">>>> \o Moves(<<"STOPPED">>))

StopFences(c) ==
    /\ At(c, "stop fences")
    /\ Decide(c, SetToSeq(
         {Park(u, units[u].fence) : u \in
            {v \in Units : /\ units[v].status \in {"CLAIMED", "DISPATCHED", "RESULT_IN"}
                           /\ units[v].fence # 0}}))

(* A kill, or any error but a refusal of the store.                         *)
Kill(c) ==
    /\ p[c] # Idle
    /\ Spend("kill")
    /\ Continue(c, p[c], <<>>)
    /\ UNCHANGED tables

-----------------------------------------------------------------------------
(* What a founder does, in one transaction each *)

Contract(state) ==
    /\ contract' = [contract EXCEPT !.state = state]
    /\ UNCHANGED <<run, driver, units, dispatches, fences, gated>>

Amend(S) ==
    /\ Live
    /\ contract' = [contract EXCEPT !.revision = @ + 1, !.forbids = S]
    /\ UNCHANGED <<run, driver, units, dispatches, fences, gated>>

Resolve(l) ==
    /\ l \in gated
    /\ gated' = gated \ {l}
    /\ UNCHANGED <<run, driver, units, dispatches, fences, contract>>

\* What a founder may do at any time, and what ends what is there already.
Interferes ==
    \/ Live /\ Contract("paused")
    \/ contract.state # "dead" /\ Contract("dead")
    \/ \E S \in SUBSET Units : Amend(S)
    \/ \E l \in Lanes : Resolve(l)
    \/ \E s \in Sessions : AdoptRun(s)
Releases ==
    \/ contract.state = "paused" /\ Contract("live")
    \/ run = "PAUSED" /\ SetRunState("READY")
    \/ run = "DELIVERABLE_READY" /\ SetRunState("COMPLETE")

Founder ==
    /\ \/ Spend("founder") /\ Interferes
       \/ UNCHANGED spent /\ Releases
    /\ UNCHANGED p

-----------------------------------------------------------------------------
Progress(c) ==
    /\ \/ Transaction(c) \/ Look(c) \/ Judging(c) \/ Stepping(c)
       \/ Received(c) \/ Fetch(c)
       \/ Orient(c) \/ Upsert(c)
       \/ Stopping(c) \/ StopFences(c)
    /\ UNCHANGED spent

Next ==
    \/ \E c \in Commands :
         \/ BeginStep(c) \/ BeginResult(c) \/ BeginPlan(c) \/ BeginStop(c)
         \/ Progress(c)
         \/ Kill(c)
    \/ Founder

Spec == ControllerInit /\ [][Next]_vars

\* A command runs on, the driver steps again and again, and every dispatch is
\* answered some day.
FairSpec ==
    /\ Spec
    /\ \A c \in Commands :
         WF_vars(Progress(c)) /\ SF_vars(BeginStep(c)) /\ SF_vars(BeginResult(c))

-----------------------------------------------------------------------------
(* Properties *)

\* Every table has its type, and so has what a command has still to do.
CTypeOK ==
    /\ RTypeOK
    /\ p \in [Commands -> Underway \cup {Idle}]
    /\ spent \in [Events -> Nat]

\* A unit is DONE only on a check that passed of the definition it has now: a
\* plan that changes a unit while its check runs, or after the verdict, does
\* not get the old work accepted.
DoneAsDefined ==
    \A u \in DoneUnits : \E i \in DOMAIN dispatches[u] :
        /\ dispatches[u][i].status = "VERIFIED"
        /\ dispatches[u][i].judged = units[u].def

\* A DONE unit stands on DONE units, whatever has been planned since.
DoneOnDone == \A u \in DoneUnits : units[u].deps \subseteq DoneUnits

\* At most one dispatch of a unit is with a worker.
OneAwaited ==
    \A u \in Units : Cardinality({d \in Dispatches({"DISPATCHED"}) : d[1] = u}) <= 1

\* As long as a worker may be writing for a unit that knows its fence, that
\* fence is held: also after a kill anywhere; but for a run being stopped.
FencedWhileOpen ==
    \A u \in Units :
        /\ units[u].status \in {"DISPATCHED", "RESULT_IN"} /\ units[u].fence # 0
        /\ <<u, Len(dispatches[u])>> \in OpenOf(u)
        => Holds(u, units[u].fence) \/ run \in {"STOPPING", "STOPPED"}

\* A run is delivered with nothing unfinished and nothing in flight.
DeliveredIsOver ==
    run \in {"DELIVERABLE_READY", "COMPLETE"} =>
        /\ \A u \in Planned : units[u].status \in UnitOver
        /\ Dispatches(Open) = {}

\* No unit is stranded in the middle of an attempt: it is settled, unless the
\* run has ended or stands still for the founder.
Halted ==
    \/ run \in Terminal \cup {"PAUSED", "STOPPING", "DELIVERABLE_READY"}
    \/ ~Live
NoUnitStranded ==
    \A u \in Units :
        units[u].status \in {"CLAIMED", "DISPATCHED", "RESULT_IN"} ~>
            (units[u].status \notin {"CLAIMED", "DISPATCHED", "RESULT_IN"} \/ Halted)

\* "a crash never loses the controller's place": a run under a live contract
\* that can go on does go on, to an end or to where the founder has to act.
AtRest ==
    \/ Halted
    \/ run = "WAITING_HUMAN"
    \/ \A u \in Planned : units[u].status \in UnitOver
CrashKeepsThePlace == []<>AtRest

\* A held answer is judged: no result stays recorded and unjudged for ever.
AnswersAreJudged ==
    \A u \in Units :
        (OpenOf(u) # {} ~> (OpenOf(u) = {} \/ Halted))
=============================================================================
