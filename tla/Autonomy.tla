------------------------------ MODULE Autonomy ------------------------------
(***************************************************************************)
(* The autonomy contract of a project (tools/bm_store.py, U1): what a      *)
(* founder has authorised, what has been spent of it, and whether one more *)
(* action is inside it.                                                    *)
(*                                                                         *)
(* A contract is a chain of revisions to which every change adds one; each *)
(* change and each spend is a transaction of its own, so those of several  *)
(* sessions come one after another in any order.  gate_check is not: it    *)
(* reads the newest revision in one statement and the spend in another.    *)
(*                                                                         *)
(* Abstractions.  A mandate is what a revision says: the ceilings and what *)
(* its classes, paths and surfaces cover.  The refusals of a mandate that  *)
(* is not well formed (a model as signer, a floor by name, no write scope) *)
(* are those that leave it out of Mandates; a mandate can cover a floor    *)
(* all the same, when its words are broad.  Assumptions, interruptions,    *)
(* human steps and checkpoints, rows that decide nothing here, are left    *)
(* out.                                                                    *)
(***************************************************************************)
EXTENDS Naturals, Sequences

CONSTANTS
    Meters,         \* what is spent: tokens, minutes
    NoCeiling,      \* a ceiling nobody set
    Mandates,       \* what can be signed: [ceiling, covers]
    Requests,       \* what can be asked of the gate
    Floors,         \* the requests no contract grants
    Amounts,        \* what one spend can be: meter -> amount
    Checkers,          \* gate checks that can be under way at once
    NoCheck,        \* no check under way
    MaxRevisions,   \* bound: the length of the chain
    MaxSpend        \* bound: what is spent on a meter in all

ASSUME MandatesKnown == \A m \in Mandates :
    /\ m.ceiling \in [Meters -> Nat \cup {NoCeiling}]
    /\ m.covers \subseteq Requests
ASSUME NoCeilingIsNoNumber == NoCeiling \notin Nat
ASSUME AmountsPositive == \A a \in Amounts :
    a \in [Meters -> Nat] /\ \E k \in Meters : a[k] > 0

VARIABLES
    chain,     \* autonomy_contracts: the revisions, oldest first
    spent,     \* the sums of autonomy_spend, whichever revision they name
    told,      \* the breaker's alerts since the newest sign or amend
    atSign,    \* the sums at the newest sign or amend (for the properties)
    check      \* gate check -> what it has read, or what it has answered

cvars == <<chain, spent, told, atSign, check>>

LegalStates(state) ==
    CASE state = "live"    -> {"paused", "stopped", "revoked"}
      [] state = "paused"  -> {"live", "stopped", "revoked"}
      [] state = "stopped" -> {"revoked"}
      [] state = "revoked" -> {}

Unspent == [k \in Meters |-> 0]
Quiet == [soft |-> 0, hard |-> 0]

Signed == chain # <<>>
Latest == chain[Len(chain)]
IsLive == Signed /\ Latest.state = "live"

\* _spend_verdict: the worst of the ceilings that were set.  A ceiling of
\* zero is reached by spending nothing; without a ceiling nothing is.
SpentUp(sums, ceiling) ==
    \E k \in Meters : ceiling[k] # NoCeiling /\ sums[k] >= ceiling[k]
NearlySpentUp(sums, ceiling) ==
    \E k \in Meters : ceiling[k] # NoCeiling /\ 5 * sums[k] >= 4 * ceiling[k]
SpendVerdict(sums, ceiling) ==
    IF SpentUp(sums, ceiling) THEN "hard-stop"
    ELSE IF NearlySpentUp(sums, ceiling) THEN "soft-stop" ELSE "ok"

CInit ==
    /\ chain = <<>> /\ spent = Unspent
    /\ told = Quiet /\ atSign = Unspent
    /\ check = [g \in Checkers |-> NoCheck]

Adds(kind, state, mandate) ==
    /\ Len(chain) < MaxRevisions
    /\ chain' = Append(chain, [kind |-> kind, state |-> state, mandate |-> mandate])

-----------------------------------------------------------------------------
(* The founder *)

\* sign_contract: over a live contract only with supersede.
SignContract(m, supersede) ==
    /\ IsLive => supersede
    /\ Adds(IF IsLive THEN "amend" ELSE "sign", "live", m)
    /\ told' = Quiet /\ atSign' = spent
    /\ UNCHANGED <<spent, check>>

\* Mutant: whatever is not revoked can be resumed.
SetContractStateLoose(state) ==
    /\ Signed /\ state # Latest.state
    /\ \/ state \in LegalStates(Latest.state)
       \/ state = "live" /\ Latest.state # "revoked"
    /\ Adds("state", state, Latest.mandate)
    /\ UNCHANGED <<spent, told, atSign, check>>
\* set_contract_state: pause, resume, stop, revoke; what was authorised is
\* copied.  The state it is in already is no change.
SetContractState(state) ==
    /\ Signed /\ state \in LegalStates(Latest.state)
    /\ Adds("state", state, Latest.mandate)
    /\ UNCHANGED <<spent, told, atSign, check>>

-----------------------------------------------------------------------------
(* The meter *)

Plus(sums, a) == [k \in Meters |-> sums[k] + a[k]]

\* Mutant: the alert goes by the verdict after the spend alone.
TripsAgain(before, after) ==
    [soft |-> IF after = "soft-stop" THEN 1 ELSE 0,
     hard |-> IF after = "hard-stop" THEN 1 ELSE 0]
\* The alerts of a spend that takes the verdict from one to the other.
Trips(before, after) ==
    [soft |-> IF after = "soft-stop" /\ before = "ok" THEN 1 ELSE 0,
     hard |-> IF after = "hard-stop" /\ before # "hard-stop" THEN 1 ELSE 0]

RecordSpend(a) ==
    LET sums == Plus(spent, a)
        ceiling == Latest.mandate.ceiling
        trips == Trips(SpendVerdict(spent, ceiling), SpendVerdict(sums, ceiling))
    IN  /\ IsLive
        /\ \A k \in Meters : sums[k] <= MaxSpend
        /\ spent' = sums
        /\ told' = [soft |-> told.soft + trips.soft, hard |-> told.hard + trips.hard]
        /\ UNCHANGED <<chain, atSign, check>>

-----------------------------------------------------------------------------
(* gate_check *)

Reading(g) == check[g] # NoCheck /\ check[g].answer = "none"

\* The contract; every refusal but the breaker's comes from this one row.
GateReadContract(g) ==
    /\ check[g] = NoCheck
    /\ \E r \in Requests :
         LET passes == IsLive /\ r \notin Floors /\ r \in Latest.mandate.covers
         IN  check' = [check EXCEPT ![g] =
                 [asks |-> r, revision |-> Len(chain),
                  answer |-> IF passes THEN "none" ELSE "refused"]]
    /\ UNCHANGED <<chain, spent, told, atSign>>

\* Mutant: the ceilings are those of a contract read anew.
CeilingNow(g) == Latest.mandate.ceiling
\* _spend_totals_from: those of the row that was read before.
CeilingOf(g) == chain[check[g].revision].mandate.ceiling

GateReadSpend(g) ==
    /\ Reading(g)
    /\ check' = [check EXCEPT ![g].answer =
                    IF SpendVerdict(spent, CeilingOf(g)) = "hard-stop"
                    THEN "breaker" ELSE "allowed"]
    /\ UNCHANGED <<chain, spent, told, atSign>>

\* The caller has its answer, or was killed before it.
GateDone(g) ==
    /\ check[g] # NoCheck
    /\ check' = [check EXCEPT ![g] = NoCheck]
    /\ UNCHANGED <<chain, spent, told, atSign>>

CNext ==
    \/ \E m \in Mandates, supersede \in BOOLEAN : SignContract(m, supersede)
    \/ \E state \in {"live", "paused", "stopped", "revoked"} : SetContractState(state)
    \/ \E a \in Amounts : RecordSpend(a)
    \/ \E g \in Checkers : GateReadContract(g) \/ GateReadSpend(g) \/ GateDone(g)

CSpec == CInit /\ [][CNext]_cvars

-----------------------------------------------------------------------------
(* What the founder may rely on *)

Revisions == [kind : {"sign", "amend", "state"}, state : {"live", "paused", "stopped", "revoked"},
              mandate : Mandates]
CTypeCorrect ==
    /\ chain \in Seq(Revisions)
    /\ spent \in [Meters -> Nat] /\ atSign \in [Meters -> Nat]
    /\ told \in [soft : Nat, hard : Nat]
    /\ check \in [Checkers -> {NoCheck} \cup
         [asks : Requests, revision : 0 .. Len(chain),
          answer : {"none", "refused", "breaker", "allowed"}]]

\* A live revision says what a founder signed, in a revision since which the
\* contract was never stopped or revoked: pausing and resuming, however
\* often, extend nothing, and from a stop only a new signature leads back
\* (AUTONOMY_STATE_TRANSITIONS; the columns that are copied forward).
LiveMeansSigned == \A i \in DOMAIN chain : chain[i].state = "live" =>
    \E j \in 1 .. i :
        /\ chain[j].kind \in {"sign", "amend"} /\ chain[j].mandate = chain[i].mandate
        /\ \A n \in j .. i : chain[n].state \in {"live", "paused"}

\* An action is allowed by one revision alone: it was live, covers the
\* action, and has ceilings that what was spent until the answer does not
\* reach, whatever was signed, spent or stopped while the gate read (the
\* docstring of _spend_totals_from).
VerdictOfOneRevision == [][\A g \in Checkers :
    Reading(g) /\ check'[g] # NoCheck /\ check'[g].answer = "allowed" =>
        LET r == chain[check'[g].revision]
        IN  /\ r.state = "live"
            /\ check[g].asks \in r.mandate.covers \ Floors
            /\ ~SpentUp(spent, r.mandate.ceiling)]_cvars

\* From one signature to the next the breaker speaks at most once at each
\* line, whichever meter crosses it, and has spoken at the ceiling exactly
\* when a spend that was below every ceiling at the signature has reached one
\* since; pausing and resuming do not make it speak again (record_spend:
\* "first crossing").
BreakerSpeaksOnce ==
    /\ told.soft <= 1 /\ told.hard <= 1
    /\ Signed =>
         (told.hard = 1 <=> /\ SpentUp(spent, Latest.mandate.ceiling)
                              /\ ~SpentUp(atSign, Latest.mandate.ceiling))
=============================================================================
