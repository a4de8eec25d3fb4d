----------------------------- MODULE ThreadMode -----------------------------
(***************************************************************************)
(* Thread mode (tools/bm_threads.py): the mode file of a project, and the  *)
(* commands `on`, `off` and `start` that read it, over the record registry. *)
(*                                                                         *)
(* None of the three is atomic.  `off` lists the records, fetches them one *)
(* by one, parks each active persistent one in a transaction of its own,   *)
(* and only then writes the mode file; `start` reads the mode file and     *)
(* claims later; `on` reads it and writes later.  In between, and at a kill *)
(* anywhere, every other thread command goes on.                           *)
(*                                                                         *)
(* The mode file is its mode: the history it also carries describes, and   *)
(* decides nothing.  Claims made with bm_store.py's own command line, which *)
(* knows no mode, are left out.  The directory of a thread is left out.    *)
(***************************************************************************)
EXTENDS RecordStore

CONSTANTS
    Commanders,    \* processes running on, off or start
    DrainHeading,  \* "Drained from thread mode: <name>"
    Idle           \* no command under way

\* What a command under way has: the place it is at, the records `off` has
\* still to fetch, those it has found to drain, and whether one was refused.
Places == {"turn on", "claim", "list", "fetch", "drain"}
Underway == [at : Places, todo : SUBSET Lifecycles,
             candidates : SUBSET [luid : Lifecycles, row : Row], failed : BOOLEAN]

ASSUME DrainHeadingIsOne == DrainHeading \in Headings
ASSUME IdleIsNone == Idle \notin Underway

VARIABLES
    mode,  \* the mode file
    cmd,   \* commander -> the command it is in the middle of
    held   \* history: commander -> the records that have been active and
           \* persistent all the time since its `off` listed the records

tvars == <<mode, cmd, held>>
allvars == <<vars, tvars>>

At(k, where) == cmd[k] # Idle /\ cmd[k].at = where
Become(k, what) == cmd' = [cmd EXCEPT ![k] = what]
Exit(k) == Become(k, Idle)

\* A command waiting at one place, with no list to work through.
Waiting(where) == [at |-> where, todo |-> {}, candidates |-> {}, failed |-> FALSE]

TInit ==
    /\ Init
    /\ mode = "off"
    /\ cmd = [k \in Commanders |-> Idle]
    /\ held = [k \in Commanders |-> {}]

\* What has been held active without a break stays so only while it is.
Watch(k) == [held EXCEPT ![k] = ActivePersistent]
StillHeld(h) == held' = [k \in Commanders |-> h[k] \cap ActivePersistent']

-----------------------------------------------------------------------------
(* on *)

OnRead(k) ==
    /\ cmd[k] = Idle /\ mode = "off"
    /\ Become(k, Waiting("turn on"))
    /\ UNCHANGED <<vars, mode>>

OnWrite(k) ==
    /\ At(k, "turn on")
    /\ mode' = "on"
    /\ Exit(k)
    /\ UNCHANGED vars

(* start *)

StartRead(k) ==
    /\ cmd[k] = Idle /\ mode = "on"
    /\ Become(k, Waiting("claim"))
    /\ UNCHANGED <<vars, mode>>

\* The claim is for a persistent record; a claim the store refuses ends the
\* command (Kill).
StartClaim(k) ==
    /\ At(k, "claim")
    /\ \E n \in Names, s \in SessionArgs, F \in FilesArgs, b \in Briefs :
         \/ ClaimNew(n, "persistent", s, F, b)
         \/ Reclaim(n, "persistent", s, F, b)
    /\ Exit(k)
    /\ UNCHANGED mode

(* off *)

OffRead(k) ==
    /\ cmd[k] = Idle /\ mode = "on"
    /\ Become(k, Waiting("list"))
    /\ UNCHANGED <<vars, mode>>

\* The identities in the store, and nothing more, are taken from dump().
OffList(k) ==
    /\ At(k, "list")
    /\ Become(k, [Waiting("fetch") EXCEPT
                    !.todo = {l \in Lifecycles : records[l] # Absent}])
    /\ UNCHANGED <<vars, mode>>

(* Each record is fetched, and is a candidate if active and persistent.     *)
OffFetch(k) ==
    /\ At(k, "fetch")
    /\ \E l \in cmd[k].todo :
         Become(k, [cmd[k] EXCEPT
            !.todo = @ \ {l},
            !.candidates = IF l \in ActivePersistent
                           THEN @ \cup {[luid |-> l, row |-> records[l]]} ELSE @])
    /\ UNCHANGED <<vars, mode>>

OffFetched(k) ==
    /\ At(k, "fetch") /\ cmd[k].todo = {}
    /\ Become(k, [cmd[k] EXCEPT !.at = "drain"])
    /\ UNCHANGED <<vars, mode>>

\* Mutant: the record is parked and its handover left for later.
DrainSilently(k, r) ==
    /\ records[r.luid].version = r.row.version
    /\ Change(r.luid, "parked", r.row.session, FALSE, FALSE, NoHeading)
    /\ Become(k, [cmd[k] EXCEPT !.candidates = @ \ {r}])
    /\ UNCHANGED <<seen, mode>>
(* One candidate is parked, at the version and under the session fetched,   *)
(* with its handover.                                                      *)
Drain(k, r) ==
    /\ records[r.luid].version = r.row.version
    /\ Change(r.luid, "parked", r.row.session, FALSE, FALSE, DrainHeading)
    /\ Become(k, [cmd[k] EXCEPT !.candidates = @ \ {r}])
    /\ UNCHANGED <<seen, mode>>

\* Mutant: a refusal is not remembered.
DrainRefusedForgotten(k, r) ==
    /\ records[r.luid].version # r.row.version
    /\ Become(k, [cmd[k] EXCEPT !.candidates = @ \ {r}])
    /\ UNCHANGED <<vars, mode>>
\* Mutant: a refused candidate is tried again, with the version it had.
DrainRefusedRetried(k, r) ==
    /\ records[r.luid].version # r.row.version
    /\ Become(k, [cmd[k] EXCEPT !.failed = TRUE])
    /\ UNCHANGED <<vars, mode>>
(* The store refuses: the record has moved since it was fetched.           *)
DrainRefused(k, r) ==
    /\ records[r.luid].version # r.row.version
    /\ Become(k, [cmd[k] EXCEPT !.candidates = @ \ {r}, !.failed = TRUE])
    /\ UNCHANGED <<vars, mode>>

OffDrain(k) ==
    /\ At(k, "drain")
    /\ \E r \in cmd[k].candidates : Drain(k, r) \/ DrainRefused(k, r)

\* Some candidate could not be drained: the mode stays on.
OffIncomplete(k) ==
    /\ At(k, "drain") /\ cmd[k].candidates = {} /\ cmd[k].failed
    /\ Exit(k)
    /\ UNCHANGED <<vars, mode>>

OffWrite(k) ==
    /\ At(k, "drain") /\ cmd[k].candidates = {} /\ ~cmd[k].failed
    /\ mode' = "off"
    /\ Exit(k)
    /\ UNCHANGED vars

(* A kill, a refused claim, or a mode file that cannot be written.          *)
Kill(k) ==
    /\ cmd[k] # Idle
    /\ Exit(k)
    /\ UNCHANGED <<vars, mode>>

-----------------------------------------------------------------------------
OffStep(k) ==
    \/ OffFetch(k)
    \/ OffFetched(k)
    \/ OffDrain(k)
    \/ OffIncomplete(k)
    \/ OffWrite(k)

Command(k) ==
    \/ OnRead(k) \/ OnWrite(k)
    \/ StartRead(k) \/ StartClaim(k)
    \/ OffRead(k)
    \/ OffStep(k)
    \/ Kill(k)

\* The other thread commands: checkpoint, decide, send, park, resume,
\* complete, adopt, and the acknowledgement of a handover.
Threads ==
    /\ \/ \E c \in Clients : Act(c)
       \/ \E h \in handovers : Acknowledge(h)
    /\ UNCHANGED <<mode, cmd>>

TNext ==
    \/ \E k \in Commanders : OffList(k) /\ StillHeld(Watch(k))
    \/ (\E k \in Commanders : Command(k)) /\ StillHeld(held)
    \/ Threads /\ StillHeld(held)

TSpec == TInit /\ [][TNext]_allvars

\* A running `off` is a sequential program: it takes its next step unless it
\* is killed, which ends it too.
Running(k) ==
    \/ OffList(k) /\ StillHeld(Watch(k))
    \/ OffStep(k) /\ StillHeld(held)

TFairSpec == TSpec /\ \A k \in Commanders : WF_allvars(Running(k))

-----------------------------------------------------------------------------
(* Properties *)

\* Every variable has its type.
TTypeOK ==
    /\ mode \in {"on", "off"}
    /\ cmd \in [Commanders -> Underway \cup {Idle}]
    /\ held \in [Commanders -> SUBSET Lifecycles]

\* What `off` has in hand is what it must still let go of: whoever has been
\* active all along is on its list or among its candidates, unless it has noted
\* a failure; and a candidate is the row the store still has under that
\* version, or one the store will refuse.
InHand ==
    \A k \in Commanders :
        /\ held[k] \subseteq ActivePersistent
        /\ cmd[k] # Idle =>
             /\ \A r \in cmd[k].candidates :
                  /\ r.luid \notin cmd[k].todo
                  /\ \A q \in cmd[k].candidates : q.luid = r.luid => q = r
                  /\ records[r.luid] # Absent
                  /\ records[r.luid].version >= r.row.version
                  /\ records[r.luid].version = r.row.version => records[r.luid] = r.row
             /\ cmd[k].at = "drain" => cmd[k].todo = {}
             /\ cmd[k].at \in {"fetch", "drain"} /\ ~cmd[k].failed =>
                  held[k] \subseteq cmd[k].todo \cup {r.luid : r \in cmd[k].candidates}

\* When `off` turns the mode off, every record that was active when it began
\* has been let go at some moment since: one that it failed to park, because
\* a checkpoint or anything else changed it meanwhile, keeps the mode on.
OffLeavesNobodyBehind ==
    [][\A k \in Commanders :
          At(k, "drain") /\ cmd'[k] = Idle /\ mode' # mode => held[k] = {}]_allvars

\* A record that `off` parks has, in the very same step, an undelivered
\* handover that tells what the record held: also when an earlier drain of
\* the same record has already been acknowledged.
DrainHandsOver ==
    [][\A k \in Commanders : \A r \in IF At(k, "drain") THEN cmd[k].candidates ELSE {} :
          cmd'[k] # cmd[k] /\ records'[r.luid] # records[r.luid] =>
             \E h \in Undelivered' : TextOf(h) =
                [luid |-> r.luid, payload |-> Payload(r.row),
                 heading |-> DrainHeading]]_allvars

\* An `off` under way ends, however often the records change under it.
OffEnds ==
    \A k \in Commanders :
        (At(k, "list") \/ At(k, "fetch") \/ At(k, "drain")) ~> cmd[k] = Idle

\* "`off` PARKS every ACTIVE, PERSISTENT record."
OffParksEveryActive ==
    [][mode = "on" /\ mode' = "off" => ActivePersistent = {}]_allvars
=============================================================================
