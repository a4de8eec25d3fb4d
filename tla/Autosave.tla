------------------------------ MODULE Autosave ------------------------------
(***************************************************************************)
(* The snapshots that hooks take of a worktree (tools/bm_autosave.py): a   *)
(* lock file that a waiting process may take for stale, one git reference  *)
(* for each snapshot and the pointer "latest" moved by compare-and-swap,   *)
(* the mark a clean check leaves, and an event file for each session, from *)
(* which a resumed session is told whether its work is saved.              *)
(*                                                                         *)
(* An attempt is one process of a hook.  It may be killed between any two  *)
(* of its steps, and it may sleep for longer than a lock may be old.       *)
(*                                                                         *)
(* Abstractions.  All of it is for one worktree.  Of the tree only counts  *)
(* whether it differs from HEAD when it is captured.  A commit is named by *)
(* the attempt that made it, and so is an event; a stamp is a tick of the  *)
(* clock.  A checked step that git refuses is Abort; MaxFaults bounds the  *)
(* writes and the git steps whose failure the pipeline passes over.        *)
(* The receipts, which only a diagnostic reads, are left out.              *)
(***************************************************************************)
EXTENDS Naturals, FiniteSets

CONSTANTS
    Attempts,     \* snapshot processes, each of which runs once
    Talkers,      \* sessions
    NoOne,        \* no attempt: a free lock, a missing pointer or event
    Retain,       \* BROTHERMODE_AUTOSAVE_RETAIN
    MaxTicks,     \* bound: the stamps that can be taken
    MaxFaults,    \* bound: the failures that an attempt goes on after
    AtOnce        \* bound: the attempts that are under way at once

ASSUME RetainIsPositive == Retain \in Nat \ {0}
ASSUME TicksBounded == MaxTicks \in Nat
ASSUME FaultsBounded == MaxFaults \in Nat
ASSUME NoOneIsNobody == NoOne \notin Attempts /\ NoOne \notin Talkers

VARIABLES
    lock,      \* who created the lock file that is there
    snaps,     \* the snapshot references, with session and stamp
    latest,    \* the commit of the pointer
    cleared,   \* the stamp in latest-cleared, 0 when there is none
    event,     \* session -> its event file
    clock,     \* the last stamp taken
    attempt,   \* attempt -> where it is and what it has read
    opened,    \* session -> the attempt that opened an event last (for the properties)
    ended,     \* session -> the attempt that ended last (for the properties)
    cleanAt,   \* the clock when a clean check last cleared the pointer (for the properties)
    robbed,    \* a lock was removed under a living attempt (for the properties)
    lapsed,    \* a snapshot was not published, or a clearing not marked, and no
               \* later one was (for the properties)
    faults     \* how many failures there were

files == <<lock, snaps, latest, cleared, event>>
notes == <<opened, ended, cleanAt, robbed, lapsed, faults>>
avars == <<files, clock, attempt, notes>>

NoEvent == [by |-> NoOne, state |-> "none"]
NewAttempt == [at |-> "new", session |-> NoOne, old |-> NoOne, list |-> {}, outcome |-> "none",
               ticket |-> NoOne]

AInit ==
    /\ lock = NoOne /\ snaps = {} /\ latest = NoOne /\ cleared = 0 /\ clock = 0
    /\ event = [s \in Talkers |-> NoEvent]
    /\ attempt = [a \in Attempts |-> NewAttempt]
    /\ opened = [s \in Talkers |-> NoOne] /\ ended = [s \in Talkers |-> NoOne]
    /\ cleanAt = 0 /\ robbed = FALSE /\ lapsed = FALSE /\ faults = 0

Stage(a, place) == attempt[a].at = place
To(a, place) == attempt' = [attempt EXCEPT ![a].at = place]
Leaves(a, how) == attempt' = [attempt EXCEPT ![a] = [NewAttempt EXCEPT !.at = how]]
Talker(a) == attempt[a].session
Gone == {"new", "over", "dead", "torn"}
Holding(a) == attempt[a].at \notin Gone \cup {"waiting", "removing"}

Tick == clock < MaxTicks /\ clock' = clock + 1
Fault == faults < MaxFaults /\ faults' = faults + 1
NewestOf(S) == {x \in S : \A y \in S : y.stamp <= x.stamp}
SnapOf(a) == {x \in snaps : x.by = a}

-----------------------------------------------------------------------------
(* The lock: _WorktreeLock *)

Fire(a) ==
    /\ Stage(a, "new") /\ Cardinality({b \in Attempts : attempt[b].at \notin Gone}) < AtOnce
    /\ \E s \in Talkers :
         attempt' = [attempt EXCEPT ![a].at = "waiting", ![a].session = s]
    /\ UNCHANGED <<files, clock, notes>>

Acquire(a) ==
    /\ Stage(a, "waiting") /\ lock = NoOne
    /\ lock' = a /\ To(a, "locked")
    /\ UNCHANGED <<snaps, latest, cleared, event, clock, notes>>

\* The age of the file is read in one step and the file removed in another.
SeeStale(a) ==
    /\ Stage(a, "waiting") /\ lock # NoOne
    /\ To(a, "removing")
    /\ UNCHANGED <<files, clock, notes>>

Unlocks(a) ==
    /\ lock' = NoOne
    /\ robbed' = (robbed \/ \E b \in Attempts \ {a} : lock = b /\ Holding(b))
    /\ UNCHANGED <<snaps, latest, cleared, event, clock, opened, ended, cleanAt, lapsed, faults>>

RemoveStale(a) == Stage(a, "removing") /\ To(a, "waiting") /\ Unlocks(a)

\* The file at the path is removed, whoever created it.
Release(a) == Stage(a, "leaving") /\ Leaves(a, "over") /\ Unlocks(a)

StandDown(a) ==
    /\ Stage(a, "waiting") /\ lock # NoOne
    /\ Leaves(a, "over")
    /\ ended' = [ended EXCEPT ![Talker(a)] = a]
    /\ UNCHANGED <<files, clock, opened, cleanAt, robbed, lapsed, faults>>

-----------------------------------------------------------------------------
(* The pipeline: _snapshot_locked *)

\* Mutant: an event that says saved is left as it is until there is news.
BeginKeepsSaved(a) ==
    /\ Stage(a, "locked")
    /\ event' = [event EXCEPT ![Talker(a)] =
                   IF @.state = "saved" THEN @ ELSE [by |-> a, state |-> "pending"]]
    /\ opened' = [opened EXCEPT ![Talker(a)] = a]
    /\ attempt' = [attempt EXCEPT ![a].at = "capturing", ![a].ticket = a]
    /\ UNCHANGED <<lock, snaps, latest, cleared, clock, ended, cleanAt, robbed, lapsed, faults>>
\* An event that cannot be written leaves the one before it, and the attempt
\* goes on without one.
BeginAttempt(a) ==
    /\ Stage(a, "locked")
    /\ \/ /\ event' = [event EXCEPT ![Talker(a)] = [by |-> a, state |-> "pending"]]
          /\ opened' = [opened EXCEPT ![Talker(a)] = a]
          /\ attempt' = [attempt EXCEPT ![a].at = "capturing", ![a].ticket = a]
          /\ UNCHANGED faults
       \/ /\ Fault /\ UNCHANGED <<event, opened>>
          /\ attempt' = [attempt EXCEPT ![a].at = "capturing", ![a].ticket = NoOne]
    /\ UNCHANGED <<lock, snaps, latest, cleared, clock, ended, cleanAt, robbed, lapsed>>

\* The working tree differs from HEAD or is back at it.
CaptureTree(a) ==
    /\ Stage(a, "capturing")
    /\ To(a, "making") \/ To(a, "clearing")
    /\ UNCHANGED <<files, clock, notes>>

\* git fails a checked step, or the tree is the empty one.
Abort(a) ==
    /\ attempt[a].at \in {"capturing", "making"}
    /\ attempt' = [attempt EXCEPT ![a].at = "finishing", ![a].outcome = "failed"]
    /\ UNCHANGED <<files, clock, notes>>

\* The clean tree: _clear_latest_if_present.  A pointer that cannot be read
\* is taken for missing, and stays.
ClearRead(a) ==
    /\ Stage(a, "clearing")
    /\ \/ /\ attempt' = [attempt EXCEPT ![a].outcome = "clean", ![a].old = latest,
                           ![a].at = IF latest = NoOne THEN "finishing" ELSE "marking"]
          /\ cleanAt' = IF latest = NoOne THEN clock ELSE cleanAt
          /\ UNCHANGED faults
       \/ /\ Fault
          /\ attempt' = [attempt EXCEPT ![a].outcome = "clean", ![a].at = "finishing"]
          /\ UNCHANGED cleanAt
    /\ UNCHANGED <<files, clock, opened, ended, robbed, lapsed>>

\* Mutant: the pointer is cleared and nothing says when.
ClearUnmarked(a) ==
    /\ Stage(a, "marking") /\ UNCHANGED <<clock, cleared>>
    /\ To(a, "deleting")
    /\ UNCHANGED <<lock, snaps, latest, event, notes>>
\* The mark is best effort: the pointer goes whether or not it was written.
ClearMark(a) ==
    /\ Stage(a, "marking")
    /\ \/ Tick /\ cleared' = clock' /\ UNCHANGED <<lapsed, faults>>
       \/ Fault /\ lapsed' = TRUE /\ UNCHANGED <<clock, cleared>>
    /\ To(a, "deleting")
    /\ UNCHANGED <<lock, snaps, latest, event, opened, ended, cleanAt, robbed>>

\* git may refuse, which is told as a pointer that moved.
ClearDelete(a) ==
    /\ Stage(a, "deleting")
    /\ \/ /\ latest' = IF latest = attempt[a].old THEN NoOne ELSE latest
          /\ cleanAt' = clock
          /\ lapsed' = IF cleared = clock THEN FALSE ELSE lapsed
          /\ UNCHANGED faults
       \/ Fault /\ UNCHANGED <<latest, cleanAt, lapsed>>
    /\ To(a, "finishing")
    /\ UNCHANGED <<lock, snaps, cleared, event, clock, opened, ended, robbed>>

\* The dirty tree: the reference of the snapshot, then the pointer.
MakeRef(a) ==
    /\ Stage(a, "making") /\ Tick
    /\ snaps' = snaps \cup {[by |-> a, session |-> Talker(a), stamp |-> clock']}
    /\ To(a, "reading")
    /\ UNCHANGED <<lock, latest, cleared, event, notes>>

ReadLatest(a) ==
    /\ Stage(a, "reading")
    /\ attempt' = [attempt EXCEPT ![a].at = "publishing", ![a].old = latest]
    /\ UNCHANGED <<files, clock, notes>>

\* _update_ref_cas: git may refuse, and does when the pointer was not read.
Publish(a) ==
    /\ Stage(a, "publishing")
    /\ \/ /\ latest' = IF latest = attempt[a].old THEN a ELSE latest
          /\ lapsed' = IF latest = attempt[a].old THEN FALSE ELSE lapsed
          /\ UNCHANGED faults
       \/ Fault /\ lapsed' = TRUE /\ UNCHANGED latest
    /\ To(a, "pruning")
    /\ UNCHANGED <<lock, snaps, cleared, event, clock, opened, ended, cleanAt, robbed>>

\* Mutant: the whole name of a reference is compared, its session first.
ExcessByName(s) ==
    {x \in snaps : Cardinality({y \in snaps : \/ x.session # s /\ y.session = s
                                              \/ x.session = y.session /\ y.stamp > x.stamp}) >= Retain}
\* _snapshot_sort_key: the stamp alone says which are the last Retain.
Excess(s) ==
    {x \in snaps : Cardinality({y \in snaps : y.stamp > x.stamp}) >= Retain}

PruneList(a) ==
    /\ Stage(a, "pruning")
    /\ \/ /\ attempt' = [attempt EXCEPT ![a].at = "dropping", ![a].list = Excess(Talker(a))]
          /\ UNCHANGED faults
       \/ Fault /\ attempt' = [attempt EXCEPT ![a].at = "dropping", ![a].list = {}]
    /\ UNCHANGED <<files, clock, opened, ended, cleanAt, robbed, lapsed>>

\* A reference that git does not drop stays for the next attempt.
PruneDrop(a) ==
    /\ Stage(a, "dropping")
    /\ \E x \in attempt[a].list :
         /\ \/ snaps' = snaps \ {x} /\ UNCHANGED faults
            \/ Fault /\ UNCHANGED snaps
         /\ attempt' = [attempt EXCEPT ![a].list = @ \ {x}]
    /\ UNCHANGED <<lock, latest, cleared, event, clock, opened, ended, cleanAt, robbed, lapsed>>

ReadBack(a) ==
    /\ Stage(a, "dropping") /\ attempt[a].list = {}
    /\ attempt' = [attempt EXCEPT ![a].at = "finishing",
                     ![a].outcome = IF SnapOf(a) # {} THEN "saved" ELSE "failed"]
    /\ UNCHANGED <<files, clock, notes>>

\* finish_snapshot_event: the event is read, and then replaced; an attempt
\* that opened none does neither.
FinishRead(a) ==
    /\ Stage(a, "finishing")
    /\ To(a, IF attempt[a].ticket = a /\ event[Talker(a)].by \in {a, NoOne} THEN "writing" ELSE "leaving")
    /\ ended' = [ended EXCEPT ![Talker(a)] = a]
    /\ UNCHANGED <<files, clock, opened, cleanAt, robbed, lapsed, faults>>

FinishWrite(a) ==
    /\ Stage(a, "writing")
    /\ \/ /\ event' = [event EXCEPT ![Talker(a)] = [by |-> a, state |-> attempt[a].outcome]]
          /\ UNCHANGED faults
       \/ Fault /\ UNCHANGED event
    /\ To(a, "leaving")
    /\ UNCHANGED <<lock, snaps, latest, cleared, clock, opened, ended, cleanAt, robbed, lapsed>>

\* The process is killed; torn is the kill between the reference and the pointer.
KillAttempt(a) ==
    /\ attempt[a].at \notin Gone
    /\ Leaves(a, IF attempt[a].at \in {"reading", "publishing"} THEN "torn" ELSE "dead")
    /\ UNCHANGED <<files, clock, notes>>

-----------------------------------------------------------------------------
(* What a resumed session is told: verify_recoverable *)

\* The file is read and then removed, whatever it says by then; what was
\* read is looked for among the references.
ConsumeEvent(s) ==
    /\ event[s] # NoEvent
    /\ event' = [event EXCEPT ![s] = NoEvent]
    /\ UNCHANGED <<lock, snaps, latest, cleared, clock, attempt, notes>>

Verified(e) == e.state = "saved" /\ SnapOf(e.by) # {}

\* cmd_recover: the pointer, and without one the newest snapshot after the
\* last clearing.
Offered ==
    IF latest # NoOne THEN {latest}
    ELSE {x.by : x \in NewestOf({y \in snaps : y.stamp > cleared})}

ANext ==
    \/ \E a \in Attempts :
         \/ Fire(a) \/ Acquire(a) \/ SeeStale(a) \/ RemoveStale(a) \/ StandDown(a) \/ Release(a)
         \/ BeginAttempt(a) \/ CaptureTree(a) \/ Abort(a)
         \/ ClearRead(a) \/ ClearMark(a) \/ ClearDelete(a)
         \/ MakeRef(a) \/ ReadLatest(a) \/ Publish(a) \/ PruneList(a) \/ PruneDrop(a)
         \/ ReadBack(a) \/ FinishRead(a) \/ FinishWrite(a) \/ KillAttempt(a)
    \/ \E s \in Talkers : ConsumeEvent(s)

ASpec == AInit /\ [][ANext]_avars

-----------------------------------------------------------------------------
Snap == [by : Attempts, session : Talkers, stamp : 1 .. MaxTicks]
Outcome == {"none", "saved", "failed", "clean"}
Attempt ==
    [at : Gone \cup {"waiting", "removing", "locked", "capturing", "making", "clearing",
                     "marking", "deleting", "reading", "publishing", "pruning", "dropping",
                     "finishing", "writing", "leaving"},
     session : Talkers \cup {NoOne}, old : Attempts \cup {NoOne},
     list : SUBSET Snap, outcome : Outcome, ticket : Attempts \cup {NoOne}]

ATypeOK ==
    /\ robbed \in BOOLEAN /\ lapsed \in BOOLEAN /\ faults \in 0 .. MaxFaults
    /\ lock \in Attempts \cup {NoOne} /\ latest \in Attempts \cup {NoOne}
    /\ snaps \subseteq Snap /\ IsFiniteSet(snaps)
    /\ clock \in 0 .. MaxTicks /\ cleared \in 0 .. MaxTicks /\ cleanAt \in 0 .. MaxTicks
    /\ attempt \in [Attempts -> Attempt]
    /\ \A a \in Attempts : attempt[a].at \notin Gone => attempt[a].session \in Talkers
    /\ event \in [Talkers -> [by : Attempts \cup {NoOne}, state : Outcome \cup {"pending"}]]
    /\ opened \in [Talkers -> Attempts \cup {NoOne}]
    /\ ended \in [Talkers -> Attempts \cup {NoOne}]

\* While no lock is taken from a living attempt, an event that a session is
\* told as saved is that of the last attempt whose event could be written: a
\* later one that failed or was killed, at any step and with any failure on
\* its way, has replaced it.
FailureReplacesSuccess == ~robbed =>
    \A s \in Talkers : Verified(event[s]) => event[s].by = opened[s]

\* Pruning drops no snapshot while fewer than Retain newer ones are left,
\* also when the snapshots are of several sessions and also when two attempts
\* prune at once.
NewestAreRetained == [][\A x \in snaps \ snaps' :
    Cardinality({y \in snaps' : y.stamp > x.stamp}) >= Retain]_avars

\* With nobody at work, recover offers the newest snapshot that was taken
\* after the last clearing, and nothing when there is none: what was
\* discarded stays discarded and what was saved is found.  So it is after
\* kills, but for one between the reference and the pointer, and unless a
\* living attempt lost its lock; and again after a pointer that was not moved
\* or a clearing that was not marked, once a later publication or marked
\* clearing went through.
RecoverOffersTheNewest ==
    (~robbed /\ ~lapsed /\ \A a \in Attempts : attempt[a].at \in {"new", "waiting", "over", "dead"}) =>
        Offered = {x.by : x \in NewestOf({y \in snaps : y.stamp > cleanAt})}

\* What the comments on the event say: every attempt opens one before it
\* touches git, and a failed one overwrites an earlier success.  Not so of an
\* attempt that stands down, and of one whose event cannot be written.
NewestAttemptIsTold ==
    \A s \in Talkers : Verified(event[s]) => ended[s] \in {event[s].by, NoOne}
=============================================================================
