---------------------------- MODULE Provisional ----------------------------
(***************************************************************************)
(* Provisional work records (tools/bm_store.py): a record minted by        *)
(* `apply --new-record`, kept in a ledger until it is promoted or          *)
(* cancelled, and the learning applications linked to records.             *)
(*                                                                         *)
(* apply runs in one transaction.  promote and cancel do not: both read    *)
(* the ledger row and check it outside any transaction, and cancel then    *)
(* reads the record, completes it in one transaction and marks the ledger  *)
(* in another.  Each of those is a step here, with every operation of      *)
(* RecordStore, and a kill, possible in between.                           *)
(*                                                                         *)
(* Abstractions.  A task fingerprint with its rule and version is a task.  *)
(* The stored name of a provisional record is its own ("--prov-" and its   *)
(* uuid), so it is a function of the lifecycle.  A retrieval is taken to   *)
(* return one rule; one that returns none leaves what CreateProvisional    *)
(* leaves.                                                                 *)
(***************************************************************************)
EXTENDS RecordStore

CONSTANTS
    Tasks,        \* (task fingerprint, rule, version)
    ProvName,     \* lifecycle -> the stored name of a provisional record
    NoRecord,     \* record_uuid IS NULL
    Blank,        \* the brief of a record minted with no scalar at all
    Ordinary      \* a lifecycle without a ledger row

LedgerRow == [by : SessionArgs, promoted : BOOLEAN, cancelled : BOOLEAN]

ASSUME ProvNames ==
    /\ ProvName \in [Lifecycles -> Names]
    /\ \A l, m \in Lifecycles : ProvName[l] = ProvName[m] => l = m
ASSUME ProvSentinels ==
    /\ NoRecord \notin Lifecycles
    /\ Blank \in Briefs
    /\ Ordinary \notin LedgerRow

VARIABLES
    ledger,        \* provisional_records: lifecycle -> row, or Ordinary
    applications,  \* learning_applications: [task, session, rec]
    deciding,      \* client -> the promote or cancel it is in the middle of
    foreign,       \* history: the records marked cancelled to which a session
                   \* other than their creator then linked work
    voided         \* history: the records marked cancelled by a command that
                   \* had found them active

pvars == <<ledger, applications, deciding, foreign, voided>>
allvars == <<vars, pvars>>

IsProvisional(l) == ledger[l] # Ordinary
Undecided(l) == IsProvisional(l) /\ ~ledger[l].promoted /\ ~ledger[l].cancelled
Cancelled(l) == IsProvisional(l) /\ ledger[l].cancelled

PInit ==
    /\ Init
    /\ ledger = [l \in Lifecycles |-> Ordinary]
    /\ applications = {}
    /\ deciding = [c \in Clients |-> Nothing]
    /\ foreign = {}
    /\ voided = {}

-----------------------------------------------------------------------------
(* apply *)

\* Mutant: a link moves to the record of the latest call.
LinkAppMoving(t, s, rec) ==
    applications' = {a \in applications : a.task # t \/ a.session # s}
                       \cup {[task |-> t, session |-> s, rec |-> rec]}
\* A repeat for the same record finds its row; a row without a record gains
\* this one; a row of some other record is left alone and this work gets its
\* own.  A call without a record matches any row of the task.
LinkApp(t, s, rec) ==
    LET own == [task |-> t, session |-> s, rec |-> rec]
        open == [task |-> t, session |-> s, rec |-> NoRecord]
        prior == {a \in applications : a.task = t /\ a.session = s}
    IN applications' =
         IF own \in prior \/ (rec = NoRecord /\ prior # {}) THEN applications
         ELSE IF open \in prior THEN (applications \ {open}) \cup {own}
         ELSE applications \cup {own}

\* Mutant: only the ledger is asked, not whether the record is closed.
MayApplyClosed(l, s) == Undecided(l) => s = ledger[l].by
\* closed-record and provisional-cross-session.
MayApply(l, s) ==
    /\ ~InState(l, {"complete"})
    /\ Undecided(l) => s = ledger[l].by

(* apply --record, or with no record at all.                                *)
Apply(t, s, rec) ==
    /\ rec # NoRecord => records[rec] # Absent /\ MayApply(rec, s)
    /\ LinkApp(t, s, rec)
    /\ foreign' = IF rec # NoRecord /\ Cancelled(rec) /\ ledger[rec].by # s
                  THEN foreign \cup {rec} ELSE foreign
    /\ UNCHANGED <<vars, ledger, deciding, voided>>

\* The three INSERTs of a provisional record: ephemeral, fenceless, active.
InsertProvisional(l, s) ==
    /\ records[l] = Absent
    /\ ActiveNamed(ProvName[l]) = {}
    /\ Admit("ephemeral", {}, {})
    /\ Write(l, [state |-> "active", name |-> ProvName[l],
                 lifetime |-> "ephemeral", session |-> s, version |-> 1,
                 files |-> {}, brief |-> Blank, evidence |-> FALSE,
                 digests |-> 0, decisions |-> 0])
    /\ trail' = [trail EXCEPT ![l] = [NoMove EXCEPT !.by = s]]
    /\ ledger' = [ledger EXCEPT ![l] =
                    [by |-> s, promoted |-> FALSE, cancelled |-> FALSE]]
    /\ UNCHANGED <<directives, handovers, owed, seen>>

(* apply --new-record: the record and the application, or neither.          *)
ApplyNew(t, s, l) ==
    /\ InsertProvisional(l, s)
    /\ LinkApp(t, s, l)
    /\ UNCHANGED <<deciding, foreign, voided>>

(* create_provisional_record, standalone.                                   *)
CreateProvisional(s, l) ==
    /\ InsertProvisional(l, s)
    /\ UNCHANGED <<applications, deciding, foreign, voided>>

-----------------------------------------------------------------------------
(* promote and cancel *)

Free(c) == deciding[c] = Nothing
Busy(c, verb, at) == ~Free(c) /\ deciding[c].verb = verb /\ deciding[c].at = at
Proceed(c, at) == deciding' = [deciding EXCEPT ![c].at = at]
Over(c) == deciding' = [deciding EXCEPT ![c] = Nothing]

\* Both commands start by reading the ledger row and checking it.
CheckLedger(c, l, verb) ==
    /\ Free(c) /\ Undecided(l)
    /\ deciding' = [deciding EXCEPT ![c] =
                      [luid |-> l, verb |-> verb, at |-> "checked"]]
    /\ UNCHANGED <<vars, ledger, applications, foreign, voided>>

Promote(c) ==
    /\ Busy(c, "promote", "checked")
    /\ ledger' = [ledger EXCEPT ![deciding[c].luid].promoted = TRUE]
    /\ Over(c)
    /\ UNCHANGED <<vars, applications, foreign, voided>>

(* cancel reads the record; only an active one is to be completed, and one  *)
(* that is not is passed over.                                              *)
CancelLook(c) ==
    /\ Busy(c, "cancel", "checked")
    /\ Look(c, deciding[c].luid)
    /\ Proceed(c, IF InState(deciding[c].luid, {"active"})
                  THEN "complete" ELSE "pass")
    /\ UNCHANGED <<ledger, applications, foreign, voided>>

\* Mutant: a refused completion is ignored.
CancelCompleteIfItCan(c, s) ==
    /\ Busy(c, "cancel", "complete")
    /\ seen[c] # Nothing /\ seen[c].luid = deciding[c].luid
    /\ \/ Transition(c, "complete", s, TRUE, FALSE, NoHeading)
       \/ ~MayMove(records[deciding[c].luid], "complete", s, FALSE) /\ UNCHANGED vars
    /\ Proceed(c, "mark")
    /\ UNCHANGED <<ledger, applications, foreign, voided>>
(* The record is completed, at the version read, under the given session.   *)
CancelComplete(c, s) ==
    /\ Busy(c, "cancel", "complete")
    /\ seen[c] # Nothing /\ seen[c].luid = deciding[c].luid
    /\ Transition(c, "complete", s, TRUE, FALSE, NoHeading)
    /\ Proceed(c, "mark")
    /\ UNCHANGED <<ledger, applications, foreign, voided>>

(* In a transaction of its own, the ledger row is marked.                   *)
CancelMark(c) ==
    /\ Busy(c, "cancel", "mark") \/ Busy(c, "cancel", "pass")
    /\ ledger' = [ledger EXCEPT ![deciding[c].luid].cancelled = TRUE]
    /\ voided' = IF deciding[c].at = "mark" THEN voided \cup {deciding[c].luid}
                 ELSE voided
    /\ Over(c)
    /\ UNCHANGED <<vars, applications, foreign>>

(* A refusal, or a kill: what is committed stays.                           *)
GiveUp(c) ==
    /\ ~Free(c)
    /\ Over(c)
    /\ UNCHANGED <<vars, ledger, applications, foreign, voided>>

Decision(c) ==
    \/ \E l \in Lifecycles, verb \in {"promote", "cancel"} : CheckLedger(c, l, verb)
    \/ Promote(c)
    \/ CancelLook(c)
    \/ \E s \in SessionArgs : CancelComplete(c, s)
    \/ CancelMark(c)
    \/ GiveUp(c)

\* One process runs one command: it does nothing else while it decides.
Registry ==
    /\ \/ Claim
       \/ \E c \in Clients : Free(c) /\ Act(c)
       \/ \E h \in handovers : Acknowledge(h)
    /\ UNCHANGED pvars

Learn ==
    \E t \in Tasks, s \in SessionArgs :
      \/ \E rec \in Lifecycles \cup {NoRecord} : Apply(t, s, rec)
      \/ \E l \in Lifecycles : ApplyNew(t, s, l)

PNext ==
    \/ Registry
    \/ Learn
    \/ \E s \in SessionArgs, l \in Lifecycles : CreateProvisional(s, l)
    \/ \E c \in Clients : Decision(c)

PSpec == PInit /\ [][PNext]_allvars

-----------------------------------------------------------------------------
(* Properties *)

Decisions == [luid : Lifecycles, verb : {"promote", "cancel"},
              at : {"checked", "complete", "mark", "pass"}]

\* The ledger has a row only for a record that exists, an application links
\* to an existing record, and a command in progress has one to decide.
PTypeOK ==
    /\ ledger \in [Lifecycles -> LedgerRow \cup {Ordinary}]
    /\ applications \subseteq
         [task : Tasks, session : SessionArgs, rec : Lifecycles \cup {NoRecord}]
    /\ deciding \in [Clients -> Decisions \cup {Nothing}]
    /\ foreign \subseteq Lifecycles /\ voided \subseteq Lifecycles
    /\ \A l \in Lifecycles : IsProvisional(l) => records[l] # Absent
    /\ \A a \in applications : a.rec # NoRecord => records[a.rec] # Absent
    /\ \A c \in Clients : ~Free(c) => IsProvisional(deciding[c].luid)

Links(l) == {a \in applications : a.rec = l}

\* "Never relink": a link, once made, is never moved to another record; and
\* work marked done stays done: a completed record gains no link and never
\* opens again, whoever still held a version of it.
LinksAndEndsStand ==
    [][\A l \in Lifecycles :
         /\ Links(l) \subseteq Links(l)'
         /\ InState(l, {"complete"}) =>
              records'[l].state = "complete" /\ Links(l)' = Links(l)]_allvars

\* Cancelled is over: a record that cancel found active is complete from the
\* moment its ledger row says cancelled, whoever reclaimed, parked, resumed or
\* adopted it between the look, the completion and the mark, three
\* transactions of one command that may be refused or killed at each.
CancelledIsOver ==
    \A l \in voided : Cancelled(l) /\ InState(l, {"complete"})

\* "cancelling moves the underlying record to 'complete'", so a cancelled
\* record takes no further work from another session.
NoWorkOnCancelled == foreign = {}
=============================================================================
