----------------------------- MODULE RecordStore -----------------------------
(***************************************************************************)
(* The work-record registry of tools/bm_store.py: records, the file claims *)
(* ("fences") they hold, their digests and decisions, the directives sent  *)
(* to them and the handovers written when they change hands.               *)
(*                                                                         *)
(* Every public operation of Store runs inside one BEGIN IMMEDIATE         *)
(* transaction (Store._transaction), which takes SQLite's write lock before *)
(* the first read, so a transaction is one action here.  What is NOT atomic *)
(* is a caller: every command first reads a record (get, identity_by_name, *)
(* _find_record), lets go of the store, and only then asks for a change,   *)
(* quoting the version it read.  A client is such a caller; seen[c] is     *)
(* what it read and still intends to act on.                               *)
(*                                                                         *)
(* Abstractions.  A lifecycle uuid, a name, a session, a claimed path and  *)
(* a heading are model values.  "brief" stands for the founder-typed       *)
(* scalars of a record (objective, owner, tier, check_cmd); digests and    *)
(* decisions, which are append-only, are represented by how many there     *)
(* are.  Timestamps are left out.  A refused operation raises inside the   *)
(* transaction and changes nothing: it is a stuttering step.               *)
(***************************************************************************)
EXTENDS Naturals, FiniteSets

CONSTANTS
    Lifecycles,            \* lifecycle uuids a claim can mint
    Names,                 \* record names
    Sessions,              \* non-empty session ids
    NoSession,             \* the empty session id
    Paths,                 \* canonical claimed paths
    Overlap,               \* the pairs of paths that paths_overlap relates
    Briefs,                \* values of the founder-typed scalar fields
    Headings,              \* handover headings
    NoHeading,             \* handover_heading=None: no handover asked for
    NotSupplied,           \* the None default of claim's optional arguments
    Absent,                \* what a lookup of an unknown lifecycle returns
    Clients,               \* callers that read first and act later
    Nothing,               \* a client that has read nothing
    MaxActivePersistent,   \* MAX_ACTIVE_PERSISTENT
    MaxVersion,            \* bound: a row stops changing at this version
    MaxDigests,            \* bound: digests of one record
    MaxDecisions,          \* bound: decisions of one record
    MaxDirectives          \* bound: directives sent to one record

States == {"active", "parked", "complete", "adopted"}
Lifetimes == {"persistent", "ephemeral"}
SessionArgs == Sessions \cup {NoSession}
HeadingArgs == Headings \cup {NoHeading}

\* What a row of "records" holds, joined with its claims, digests, decisions.
Row == [state : States, name : Names, lifetime : Lifetimes,
        session : SessionArgs, version : Nat, files : SUBSET Paths,
        brief : Briefs, evidence : BOOLEAN, digests : Nat, decisions : Nat]

\* paths_overlap is symmetric: it asks whether either coverage key contains
\* the other.  The sentinels are not values of the sets they stand outside.
ASSUME OverlapSymmetric ==
    \A p, q \in Paths : <<p, q>> \in Overlap => <<q, p>> \in Overlap
ASSUME Sentinels ==
    /\ NoSession \notin Sessions
    /\ NoHeading \notin Headings
    /\ \A F \in SUBSET Paths : F # NotSupplied
    /\ NotSupplied \notin Briefs
    /\ Absent \notin Row
ASSUME FiniteLifecycles == IsFiniteSet(Lifecycles)
ASSUME CapIsNat == MaxActivePersistent \in Nat

VARIABLES
    records,      \* lifecycle -> Row, or Absent
    directives,   \* lifecycle -> number of directives sent into it
    trail,        \* lifecycle -> its latest row of the transitions table
    handovers,    \* rows of the handovers table
    owed,         \* history: the texts the founder must still be shown
    seen          \* client -> what it read and has not acted on yet

vars == <<records, directives, trail, handovers, owed, seen>>

-----------------------------------------------------------------------------
(* Queries on the store *)

InState(l, ss) == records[l] # Absent /\ records[l].state \in ss
Active == {l \in Lifecycles : InState(l, {"active"})}
ActivePersistent == {l \in Active : records[l].lifetime = "persistent"}

ActiveNamed(n) == {l \in Active : records[l].name = n}

\* Mutant: fences compared by equality, so a claim under a claim is missed.
FindSamePath(F, skip) ==
    \E m \in Active \ skip : F \cap records[m].files # {}
\* One active record other than skip already claims a path overlapping F.
FindOverlap(F, skip) ==
    \E m \in Active \ skip : \E p \in F, q \in records[m].files :
        <<p, q>> \in Overlap

\* Mutant: the cap is tested with <=.
AdmitOneTooMany(lifetime, F, skip) ==
    /\ ~FindOverlap(F, skip)
    /\ lifetime = "persistent" =>
         Cardinality(ActivePersistent \ skip) <= MaxActivePersistent
\* The one admission check of every path that makes a record active.
Admit(lifetime, F, skip) ==
    /\ ~FindOverlap(F, skip)
    /\ lifetime = "persistent" =>
         Cardinality(ActivePersistent \ skip) < MaxActivePersistent

\* What the handover fingerprint covers: not the state, version or session.
Payload(row) == [name |-> row.name, brief |-> row.brief, files |-> row.files,
                 evidence |-> row.evidence, digests |-> row.digests,
                 decisions |-> row.decisions]

\* Text identity of a handover: the key of handovers_undelivered_text_idx.
TextOf(h) == [luid |-> h.luid, payload |-> h.payload, heading |-> h.heading]
Undelivered == {h \in handovers : ~h.delivered}

\* Mutant: the dedupe index covers acknowledged rows too.
TwinEverAcknowledged(h) == \E t \in handovers : TextOf(t) = TextOf(h)
\* The text of h is already waiting to be acknowledged.
Twin(h) == \E t \in Undelivered : TextOf(t) = TextOf(h)

LegalSources(to) ==
    CASE to = "parked"   -> {"active", "adopted"}
      [] to = "active"   -> {"parked", "adopted"}
      [] to = "complete" -> {"active"}
      [] to = "adopted"  -> {"active", "parked"}

\* An optional argument that is not supplied leaves the stored value alone.
Supplied(arg, old) == IF arg = NotSupplied THEN old ELSE arg

\* What the audit trail says of one move: who made it, and which live session
\* it displaced, if any (the rest of the row is the record's own state).
NoMove == [by |-> NoSession, displaced |-> NoSession]
MoveOf(row, to, s) ==
    [by |-> s,
     displaced |-> IF to = "adopted" /\ row.state = "active"
                        /\ row.session \notin {NoSession, s}
                   THEN row.session ELSE NoSession]

-----------------------------------------------------------------------------
Init ==
    /\ records = [l \in Lifecycles |-> Absent]
    /\ directives = [l \in Lifecycles |-> 0]
    /\ trail = [l \in Lifecycles |-> NoMove]
    /\ handovers = {}
    /\ owed = {}
    /\ seen = [c \in Clients |-> Nothing]

Write(l, row) == records' = [records EXCEPT ![l] = row]

\* UPDATE records SET version = version + 1 ...
Bumped(row) == [row EXCEPT !.version = @ + 1]
CanBump(l) == records[l].version < MaxVersion

(* claim() of a name nobody holds active: a fresh uuid, admitted, active. *)
ClaimNew(n, lifetime, s, F, b) ==
    /\ ActiveNamed(n) = {}
    /\ LET files == Supplied(F, {}) IN
       /\ Admit(lifetime, files, {})
       /\ \E l \in Lifecycles :
            /\ records[l] = Absent
            /\ Write(l, [state |-> "active", name |-> n, lifetime |-> lifetime,
                         session |-> s, version |-> 1, files |-> files,
                         brief |-> b, evidence |-> FALSE,
                         digests |-> 0, decisions |-> 0])
            /\ trail' = [trail EXCEPT ![l] = [NoMove EXCEPT !.by = s]]
    /\ UNCHANGED <<directives, handovers, owed, seen>>

\* Mutant: two callers that both omit --session own each other's records.
OwnsUnderEmptySession(row, s) == row.session = s
\* A reclaim needs a non-empty session equal to the one on file.
Owns(row, s) == s # NoSession /\ row.session = s

(* claim() of a name this same non-empty session holds active: in place. *)
Reclaim(n, lifetime, s, F, b) ==
    /\ \E l \in ActiveNamed(n) :
         /\ Owns(records[l], s)
         /\ records[l].lifetime = lifetime
         /\ F # NotSupplied => ~FindOverlap(F, {l})
         /\ CanBump(l)
         /\ Write(l, [Bumped(records[l]) EXCEPT !.files = Supplied(F, @),
                                                !.brief = Supplied(b, @)])
    /\ UNCHANGED <<directives, trail, handovers, owed, seen>>

(* A caller reads a record and will act on what it read. *)
Look(c, l) ==
    /\ records[l] # Absent
    /\ seen' = [seen EXCEPT ![c] = [luid |-> l, row |-> records[l]]]
    /\ UNCHANGED <<records, directives, trail, handovers, owed>>

\* Mutant: the version a caller quotes is not compared.
FreshForAnyVersion(c, l) ==
    /\ seen[c] # Nothing
    /\ l = seen[c].luid
    /\ records[l] # Absent
    /\ CanBump(l)
\* The lifecycle c acts on, when its version is still the one c read.
FreshFor(c, l) ==
    /\ seen[c] # Nothing
    /\ l = seen[c].luid
    /\ records[l] # Absent
    /\ records[l].version = seen[c].row.version
    /\ CanBump(l)

\* A caller's command is over once its operation has committed.
Finish(c) == seen' = [seen EXCEPT ![c] = Nothing]

(* The handover row of a transition, as _insert_handover writes it: lost on *)
(* the partial unique index when the same text is still undelivered.        *)
PostHandover(l, row, from, to, heading) ==
    LET h == [luid |-> l, transition |-> row.version, from |-> from, to |-> to,
              payload |-> Payload(row), heading |-> heading,
              delivered |-> FALSE]
    IN /\ IF Twin(h)
          THEN UNCHANGED handovers
          ELSE handovers' = handovers \cup {h}
       /\ owed' = owed \cup {TextOf(h)}

\* Mutant: ownership is not looked at.
MayMoveUnowned(row, to, s, live) == TRUE
\* Who may move a record: an owned ACTIVE record moves under its own session,
\* or is adopted away from it by an explicit --adopt-from-live-session.
MayMove(row, to, s, live) ==
    \/ row.state # "active"
    \/ row.session \in {NoSession, s}
    \/ to = "adopted" /\ live

(* What transition() does to l once its version is known to be current.     *)
Change(l, to, s, evidence, live, heading) ==
    /\ records[l].state \in LegalSources(to)
    /\ to = "complete" => evidence
    /\ MayMove(records[l], to, s, live)
    /\ to = "active" =>
         /\ Admit(records[l].lifetime, records[l].files, {l})
         /\ ActiveNamed(records[l].name) = {}
    /\ LET row == [Bumped(records[l]) EXCEPT
                      !.state = to,
                      !.session = IF s = NoSession THEN @ ELSE s,
                      !.evidence = IF to = "complete" THEN evidence ELSE @]
       IN /\ Write(l, row)
          /\ trail' = [trail EXCEPT ![l] = MoveOf(records[l], to, s)]
          /\ IF heading = NoHeading
             THEN UNCHANGED <<handovers, owed>>
             ELSE PostHandover(l, row, records[l].session, s, heading)
    /\ UNCHANGED directives

(* transition(): park, resume, complete or adopt, with its handover.        *)
Transition(c, to, s, evidence, live, heading) ==
    \E l \in Lifecycles :
      /\ FreshFor(c, l)
      /\ Change(l, to, s, evidence, live, heading)
      /\ Finish(c)

(* checkpoint(): a digest, and the decisions given with it, on an active   *)
(* record at the version read.                                             *)
Checkpoint(c, newDecisions) ==
    \E l \in Lifecycles :
      /\ FreshFor(c, l)
      /\ records[l].state = "active"
      /\ records[l].digests < MaxDigests
      /\ records[l].decisions + newDecisions <= MaxDecisions
      /\ Write(l, [Bumped(records[l]) EXCEPT !.digests = @ + 1,
                                             !.decisions = @ + newDecisions])
      /\ Finish(c)
      /\ UNCHANGED <<directives, trail, handovers, owed>>

(* decide(): one decision, in any state, at the version read.              *)
Decide(c) ==
    \E l \in Lifecycles :
      /\ FreshFor(c, l)
      /\ records[l].decisions < MaxDecisions
      /\ Write(l, [Bumped(records[l]) EXCEPT !.decisions = @ + 1])
      /\ Finish(c)
      /\ UNCHANGED <<directives, trail, handovers, owed>>

(* send(): a directive into an active record; it neither checks nor bumps  *)
(* the version.                                                            *)
Send(c) ==
    \E l \in Lifecycles :
      /\ seen[c] # Nothing /\ l = seen[c].luid
      /\ InState(l, {"active"})
      /\ directives[l] < MaxDirectives
      /\ directives' = [directives EXCEPT ![l] = @ + 1]
      /\ Finish(c)
      /\ UNCHANGED <<records, trail, handovers, owed>>

(* acknowledge_handover(): idempotent, and the row is never deleted.       *)
Acknowledge(h) ==
    /\ h \in Undelivered
    /\ handovers' = (handovers \ {h}) \cup {[h EXCEPT !.delivered = TRUE]}
    /\ owed' = owed \ {TextOf(h)}
    /\ UNCHANGED <<records, directives, trail, seen>>

-----------------------------------------------------------------------------
FilesArgs == (SUBSET Paths) \cup {NotSupplied}

Claim ==
    \E n \in Names, lifetime \in Lifetimes, s \in SessionArgs, F \in FilesArgs :
      \/ \E b \in Briefs : ClaimNew(n, lifetime, s, F, b)
      \/ \E b \in Briefs \cup {NotSupplied} : Reclaim(n, lifetime, s, F, b)

Move(c) ==
    \E to \in States, s \in SessionArgs, evidence \in BOOLEAN,
       live \in BOOLEAN, heading \in HeadingArgs :
         Transition(c, to, s, evidence, live, heading)

Act(c) ==
    \/ \E l \in Lifecycles : Look(c, l)
    \/ Move(c)
    \/ \E k \in {0, 1} : Checkpoint(c, k)
    \/ Decide(c)
    \/ Send(c)

Next ==
    \/ Claim
    \/ \E c \in Clients : Act(c)
    \/ \E h \in handovers : Acknowledge(h)

Spec == Init /\ [][Next]_vars

-----------------------------------------------------------------------------
(* Properties *)

PayloadRow == [name : Names, brief : Briefs, files : SUBSET Paths,
               evidence : BOOLEAN, digests : Nat, decisions : Nat]
Text == [luid : Lifecycles, payload : PayloadRow, heading : Headings]
HandoverRow == [luid : Lifecycles, transition : Nat, from : SessionArgs,
                to : SessionArgs, payload : PayloadRow, heading : Headings,
                delivered : BOOLEAN]

\* Every variable stays within the columns the schema declares.
TypeOK ==
    /\ records \in [Lifecycles -> Row \cup {Absent}]
    /\ directives \in [Lifecycles -> Nat]
    /\ trail \in [Lifecycles -> [by : SessionArgs, displaced : SessionArgs]]
    /\ handovers \subseteq HandoverRow
    /\ owed \subseteq Text
    /\ seen \in [Clients -> {Nothing} \cup [luid : Lifecycles, row : Row]]

\* I5, "no two records in the active state declare overlapping files": holds
\* through claims, reclaims that change the fence, and resumes of a fence that
\* others were free to claim while it was parked (_find_overlap, _admit).
SingleWriter ==
    \A l, m \in Active : l # m =>
        \A p \in records[l].files, q \in records[m].files : <<p, q>> \notin Overlap

\* A name has at most one active life, however often it is parked, reused
\* and resumed (the one_active_per_name index and claim's own lookup).
OneActivePerName ==
    \A l, m \in Active : records[l].name = records[m].name => l = m

\* The cap on active persistent records holds on every path into "active".
PersistentCap == Cardinality(ActivePersistent) <= MaxActivePersistent

\* Optimistic concurrency is sound: an unchanged version means an unchanged
\* record, so a caller whose version still matches acts on what it really saw.
VersionNamesRow ==
    \A c \in Clients : seen[c] # Nothing =>
        LET now == records[seen[c].luid] IN
        /\ now # Absent
        /\ now.version >= seen[c].row.version
        /\ now.version = seen[c].row.version => now = seen[c].row

\* I1: a handover asked for and not yet acknowledged is in the table, under
\* its own heading and with the payload of the transition that produced it.
NoLostHandover == owed \subseteq {TextOf(h) : h \in Undelivered}

\* I2: the founder is never shown the same handover twice at the same time.
UndeliveredOnce ==
    \A g, h \in Undelivered : TextOf(g) = TextOf(h) => g = h

\* No lost update: when a client's command changes a record, the record was
\* exactly what that client had read, whatever others did in between.
NoLostUpdate ==
    [][\A c \in Clients :
          seen[c] # Nothing /\ seen'[c] = Nothing /\ records' # records
            => records[seen[c].luid] = seen[c].row]_vars

\* An active record with a named holder stops being active only by a move of
\* that session, or by an adoption that names the displaced session on the
\* audit trail: nobody loses a live fence silently.
NoSilentTakeover ==
    [][\A l \in Active :
          LET holder == records[l].session IN
          holder # NoSession /\ records'[l].state # "active" =>
             \/ trail'[l].by = holder
             \/ records'[l].state = "adopted" /\ trail'[l].displaced = holder]_vars

\* The promise callers rely on, stated without versions, names or handovers:
\* a lease table in which only active records hold a fence.
Lease(l) == IF l \in Active
            THEN [holder |-> records[l].session, fence |-> records[l].files]
            ELSE [holder |-> NoSession, fence |-> {}]
Held == INSTANCE FenceOwnership WITH
            held <- Active, lease <- [l \in Lifecycles |-> Lease(l)]

\* The registry implements the lease table: fences are granted disjoint, a
\* fence changes hands only by being let go of first, and only the session
\* that holds a fence under its own name may redraw it.
ImplementsFenceOwnership == Held!Spec
=============================================================================
