------------------------- MODULE ProvisionalProofs -------------------------
(***************************************************************************)
(* The registry with its provisional records, for every set of lifecycles, *)
(* clients, sessions and tasks: what the registry promises alone it still  *)
(* promises when `apply --new-record` mints records past claim(), and what *)
(* is linked to a record stays linked to it.                               *)
(*                                                                         *)
(* The argument.  Lemma ProvisionalStep sorts the steps: each is a step of *)
(* the registry, or leaves its tables alone, or mints one record.  The     *)
(* minted row enters "active" through the admission check, so it is one of *)
(* the three cases of RecordStoreProofs and the lemmas about one row apply *)
(* to it as they do to a claim.                                            *)
(***************************************************************************)
EXTENDS Provisional, RecordStoreProofs

Typed == TypeOK /\ PTypeOK

\* A client in the middle of a decision decides about a lifecycle.
LEMMA DecidesOne ==
    ASSUME PTypeOK, NEW c \in Clients, ~Free(c)
    PROVE  /\ deciding[c] \in Decisions
           /\ deciding[c].luid \in Lifecycles
           /\ IsProvisional(deciding[c].luid)
           /\ ledger[deciding[c].luid] \in LedgerRow
BY DEF PTypeOK, Free, Decisions, IsProvisional

\* Every step is the registry's, or mints a record, or is the business of
\* the ledger and the applications alone.
LEMMA ProvisionalStep ==
    ASSUME PTypeOK, [PNext]_allvars
    PROVE  \/ [Next]_vars
           \/ \E l \in Lifecycles, s \in SessionArgs : InsertProvisional(l, s)
<1>1. CASE Registry
  BY <1>1 DEF Registry, Next
<1>2. CASE Learn
  BY <1>2 DEF Learn, Apply, ApplyNew, vars
<1>3. CASE \E s \in SessionArgs, l \in Lifecycles : CreateProvisional(s, l)
  BY <1>3 DEF CreateProvisional
<1>4. ASSUME NEW c \in Clients, Decision(c)
      PROVE  [Next]_vars
  <2>1. ASSUME NEW s \in SessionArgs, CancelComplete(c, s)
        PROVE  [Next]_vars
    <3>1. Transition(c, "complete", s, TRUE, FALSE, NoHeading)
      BY <2>1 DEF CancelComplete
    <3>2. Move(c)
      BY <3>1 DEF Move, States, HeadingArgs
    <3> QED
      BY <3>2 DEF Next, Act
  <2>2. CASE CancelLook(c)
    <3>1. Look(c, deciding[c].luid) /\ ~Free(c)
      BY <2>2 DEF CancelLook, Busy
    <3> QED
      BY <3>1, DecidesOne DEF Next, Act
  <2> QED
    BY <1>4, <2>1, <2>2 DEF Decision, CheckLedger, Promote, CancelMark, GiveUp, vars
<1>5. CASE UNCHANGED allvars
  BY <1>5 DEF allvars, vars
<1> QED
  BY <1>1, <1>2, <1>3, <1>4, <1>5 DEF PNext

\* A minted record is a row that enters "active"; nothing else is written
\* but its first line of the trail.
LEMMA MintStep ==
    ASSUME TypeOK, NEW l \in Lifecycles, NEW s \in SessionArgs, InsertProvisional(l, s)
    PROVE  /\ records[l] = Absent
           /\ \E row \in Row : OneRow(l, row) /\ Enters(l, row)
           /\ TypeOK'
           /\ UNCHANGED <<handovers, owed, seen>>
<1> DEFINE row == [state |-> "active", name |-> ProvName[l],
                   lifetime |-> "ephemeral", session |-> s, version |-> 1,
                   files |-> {}, brief |-> Blank, evidence |-> FALSE,
                   digests |-> 0, decisions |-> 0]
<1>1. row \in Row
  BY ProvNames, ProvSentinels DEF Row, States, Lifetimes
<1>2. records[l] = Absent /\ records' = [records EXCEPT ![l] = row]
  BY DEF InsertProvisional, Write
<1>3. Enters(l, row)
  BY <1>2 DEF InsertProvisional, Enters, FindOverlap, Active, InState
<1>4. OneRow(l, row)
  BY <1>2, <1>3 DEF OneRow, NextVersion, StaysDone, InState
<1>5. TypeOK'
  <2>1. [NoMove EXCEPT !.by = s] \in [by : SessionArgs, displaced : SessionArgs]
    BY DEF NoMove, SessionArgs
  <2> QED
    BY <1>1, <1>2, <2>1 DEF InsertProvisional, TypeOK
<1> QED
  BY <1>1, <1>2, <1>3, <1>4, <1>5 DEF InsertProvisional

\* A record that is there stays there.
LEMMA RecordsStay ==
    ASSUME Typed, [PNext]_allvars, NEW l \in Lifecycles, records[l] # Absent
    PROVE  records'[l] # Absent
<1>1. ASSUME NEW m \in Lifecycles, NEW row \in Row, OneRow(m, row)
      PROVE  records'[l] # Absent
  BY <1>1, Sentinels DEF OneRow, Typed, TypeOK
<1>2. CASE [Next]_vars
  BY <1>1, <1>2, RecordStep DEF Typed
<1>3. CASE \E m \in Lifecycles, s \in SessionArgs : InsertProvisional(m, s)
  BY <1>1, <1>3, MintStep DEF Typed
<1> QED
  BY <1>2, <1>3, ProvisionalStep DEF Typed

\* The links an apply leaves are typed, and to no record but its own or one
\* that was linked before.
LEMMA LinkAppType ==
    ASSUME PTypeOK, NEW t \in Tasks, NEW s \in SessionArgs,
           NEW rec \in Lifecycles \cup {NoRecord}, LinkApp(t, s, rec)
    PROVE  /\ applications' \subseteq
                [task : Tasks, session : SessionArgs, rec : Lifecycles \cup {NoRecord}]
           /\ \A a \in applications' : a \in applications \/ a.rec = rec
BY DEF LinkApp, PTypeOK

\* One step keeps the ledger, the applications and the decisions typed.
LEMMA PTypeStep ==
    ASSUME Typed, [PNext]_allvars
    PROVE  PTypeOK'
<1>0. \A l \in Lifecycles : records[l] # Absent => records'[l] # Absent
  BY RecordsStay
<1>1. CASE UNCHANGED pvars
  BY <1>0, <1>1 DEF Typed, PTypeOK, pvars, IsProvisional, Free
<1>2. ASSUME NEW t \in Tasks, NEW s \in SessionArgs,
             NEW rec \in Lifecycles \cup {NoRecord}, Apply(t, s, rec)
      PROVE  PTypeOK'
  <2>1. LinkApp(t, s, rec) /\ UNCHANGED <<records, ledger, deciding, voided>>
        /\ (rec # NoRecord => records[rec] # Absent)
    BY <1>2 DEF Apply, vars
  <2>2. foreign' \subseteq Lifecycles
    BY <1>2 DEF Apply, Typed, PTypeOK
  <2> QED
    BY <2>1, <2>2, LinkAppType DEF Typed, PTypeOK, IsProvisional, Free
<1>3. ASSUME NEW s \in SessionArgs, NEW l \in Lifecycles, InsertProvisional(l, s),
             UNCHANGED deciding
      PROVE  /\ ledger' \in [Lifecycles -> LedgerRow \cup {Ordinary}]
             /\ \A m \in Lifecycles : IsProvisional(m)' => records'[m] # Absent
             /\ \A c \in Clients : ~Free(c)' => IsProvisional(deciding[c].luid)'
  <2>1. records'[l] # Absent
    BY <1>3, MintStep, Sentinels DEF OneRow, Typed, TypeOK
  <2>2. [by |-> s, promoted |-> FALSE, cancelled |-> FALSE] \in LedgerRow
    BY DEF LedgerRow
  <2>3. ledger' = [ledger EXCEPT ![l] = [by |-> s, promoted |-> FALSE, cancelled |-> FALSE]]
    BY <1>3 DEF InsertProvisional
  <2>4. \A m \in Lifecycles : IsProvisional(m) => IsProvisional(m)'
    BY <2>2, <2>3, ProvSentinels DEF Typed, PTypeOK, IsProvisional
  <2>5. \A c \in Clients : ~Free(c)' => IsProvisional(deciding[c].luid)'
    BY <1>3, <2>4, DecidesOne DEF Typed, Free
  <2> QED
    BY <1>0, <2>1, <2>2, <2>3, <2>5 DEF Typed, PTypeOK, IsProvisional
<1>4. ASSUME NEW t \in Tasks, NEW s \in SessionArgs, NEW l \in Lifecycles, ApplyNew(t, s, l)
      PROVE  PTypeOK'
  <2>1. InsertProvisional(l, s) /\ LinkApp(t, s, l) /\ UNCHANGED <<deciding, foreign, voided>>
    BY <1>4 DEF ApplyNew
  <2>2. records'[l] # Absent
    BY <2>1, MintStep, Sentinels DEF OneRow, Typed, TypeOK
  <2> QED
    BY <1>0, <1>3, <2>1, <2>2, LinkAppType DEF Typed, PTypeOK, Free
<1>5. ASSUME NEW s \in SessionArgs, NEW l \in Lifecycles, CreateProvisional(s, l)
      PROVE  PTypeOK'
  BY <1>0, <1>3, <1>5 DEF CreateProvisional, Typed, PTypeOK, Free
<1>6. ASSUME NEW c \in Clients, Decision(c)
      PROVE  PTypeOK'
  <2>1. UNCHANGED applications
    BY <1>6 DEF Decision, CheckLedger, Promote, CancelLook, CancelComplete, CancelMark, GiveUp
  <2>2. ASSUME ~Free(c), UNCHANGED ledger,
               UNCHANGED <<foreign, voided>>,
               Over(c) \/ \E at \in {"complete", "mark", "pass"} : Proceed(c, at)
        PROVE  PTypeOK'
    BY <1>0, <2>1, <2>2, DecidesOne DEF Typed, PTypeOK, Over, Proceed, Free, IsProvisional, Decisions
  <2>3. ASSUME ~Free(c), Over(c), NEW row \in LedgerRow,
               ledger' = [ledger EXCEPT ![deciding[c].luid] = row],
               UNCHANGED foreign,
               voided' = voided \/ voided' = voided \cup {deciding[c].luid}
        PROVE  PTypeOK'
    BY <1>0, <2>1, <2>3, DecidesOne, ProvSentinels DEF Typed, PTypeOK, Over, Free, IsProvisional
  <2>4. ASSUME NEW l \in Lifecycles, NEW verb \in {"promote", "cancel"}, CheckLedger(c, l, verb)
        PROVE  PTypeOK'
    <3>1. [luid |-> l, verb |-> verb, at |-> "checked"] \in Decisions
      BY DEF Decisions
    <3> QED
      BY <1>0, <2>4, <3>1 DEF CheckLedger, Undecided, Typed, PTypeOK, Free, IsProvisional, vars
  <2>5. CASE Promote(c)
    <3>1. /\ ~Free(c) /\ Over(c)
          /\ ledger' = [ledger EXCEPT ![deciding[c].luid] =
                           [ledger[deciding[c].luid] EXCEPT !.promoted = TRUE]]
          /\ UNCHANGED <<foreign, voided>>
      BY <2>5 DEF Promote, Busy
    <3>2. [ledger[deciding[c].luid] EXCEPT !.promoted = TRUE] \in LedgerRow
      BY <3>1, DecidesOne DEF LedgerRow, Typed
    <3> QED
      BY <2>3, <3>1, <3>2
  <2>6. CASE CancelMark(c)
    <3>1. /\ ~Free(c) /\ Over(c)
          /\ ledger' = [ledger EXCEPT ![deciding[c].luid] =
                           [ledger[deciding[c].luid] EXCEPT !.cancelled = TRUE]]
          /\ UNCHANGED foreign
          /\ voided' = voided \/ voided' = voided \cup {deciding[c].luid}
      BY <2>6 DEF CancelMark, Busy
    <3>2. [ledger[deciding[c].luid] EXCEPT !.cancelled = TRUE] \in LedgerRow
      BY <3>1, DecidesOne DEF LedgerRow, Typed
    <3> QED
      BY <2>3, <3>1, <3>2
  <2>7. CASE CancelLook(c)
    BY <2>2, <2>7 DEF CancelLook, Busy
  <2>8. CASE \E s \in SessionArgs : CancelComplete(c, s)
    BY <2>2, <2>8 DEF CancelComplete, Busy
  <2>9. CASE GiveUp(c)
    BY <2>2, <2>9 DEF GiveUp
  <2> QED
    BY <1>6, <2>4, <2>5, <2>6, <2>7, <2>8, <2>9 DEF Decision
<1>7. CASE UNCHANGED allvars
  BY <1>1, <1>7 DEF allvars
<1> QED
  BY <1>1, <1>2, <1>4, <1>5, <1>6, <1>7 DEF PNext, Registry, Learn

\* The columns of the registry and of the ledger keep their types, a ledger
\* row has its record, and so has every link (PTypeOK).
THEOREM ProvisionalTypeCorrect == PSpec => []Typed
<1>1. PInit => Typed
  <2> SUFFICES ASSUME PInit PROVE Typed
    OBVIOUS
  <2>1. TypeOK
    BY DEF PInit, Init, TypeOK, NoMove, SessionArgs
  <2> QED
    BY <2>1 DEF PInit, Typed, PTypeOK, IsProvisional, Free
<1>2. Typed /\ [PNext]_allvars => Typed'
  <2> SUFFICES ASSUME Typed, [PNext]_allvars PROVE Typed'
    OBVIOUS
  <2>1. TypeOK'
    BY ProvisionalStep, TypeStep, MintStep DEF Typed
  <2> QED
    BY <2>1, PTypeStep DEF Typed
<1> QED
  BY <1>1, <1>2, PTL DEF PSpec

-----------------------------------------------------------------------------
(* What the registry promises, with provisional records in it *)

\* No two active records hold overlapping paths, the active persistent ones
\* stay under the cap and no handover is lost, also when records are minted
\* by `apply --new-record`, past claim() and its lookup of the name
\* (INVARIANTS.md, I1 and I5; _create_provisional_record_in_txn).
THEOREM RegistryStands ==
    PSpec => [](SingleWriter /\ PersistentCap /\ NoLostHandover)
<1> DEFINE Stands == SingleWriter /\ PersistentCap /\ NoLostHandover
<1>1. PInit => Stands
  <2> SUFFICES ASSUME PInit PROVE Stands
    OBVIOUS
  <2>1. Active = {} /\ ActivePersistent = {} /\ owed = {}
    BY DEF PInit, Init, ActivePersistent, Active, InState
  <2> QED
    BY <2>1, FS_EmptySet, CapIsNat DEF SingleWriter, PersistentCap, NoLostHandover
<1>2. Typed /\ Stands /\ [PNext]_allvars => Stands'
  <2> SUFFICES ASSUME Typed, Stands, [PNext]_allvars PROVE Stands'
    OBVIOUS
  <2>1. CASE [Next]_vars
    BY <2>1, SingleWriterStep, PersistentCapStep, NoLostHandoverStep DEF Typed
  <2>2. ASSUME NEW l \in Lifecycles, NEW s \in SessionArgs, InsertProvisional(l, s)
        PROVE  Stands'
    <3>1. PICK row \in Row : OneRow(l, row)
      BY <2>2, MintStep DEF Typed
    <3>2. NoLostHandover'
      BY <2>2, MintStep DEF Typed, NoLostHandover, Undelivered
    <3> QED
      BY <3>1, <3>2, SingleWriterOneRow, PersistentCapOneRow DEF Typed
  <2> QED
    BY <2>1, <2>2, ProvisionalStep DEF Typed
<1> QED
  BY <1>1, <1>2, ProvisionalTypeCorrect, PTL DEF PSpec

\* With provisional records too the registry implements the lease table: a
\* minted record is granted an empty fence, clear of every other.
THEOREM ProvisionalFenceOwnershipRefined == PSpec => ImplementsFenceOwnership
<1>1. PInit => Held!Init
  BY DEF PInit, Init, Held!Init, Held!Vacant, Lease, Active, InState
<1>2. Typed /\ [PNext]_allvars => [Held!Next]_Held!vars
  BY ProvisionalStep, LeaseStep, LeaseOneRow, MintStep DEF Typed
<1> QED
  BY <1>1, <1>2, ProvisionalTypeCorrect, PTL
     DEF PSpec, ImplementsFenceOwnership, Held!Spec

\* A caller who quotes a version still acts on the row he read, and nobody
\* loses a live fence silently, although records come into being, and cancel
\* completes them, beside the registry's own commands.
THEOREM RegistryStepsStand == PSpec => NoLostUpdate /\ NoSilentTakeover
<1>1. PInit => VersionNamesRow
  BY DEF PInit, Init, VersionNamesRow
<1>2. ASSUME Typed, NEW l \in Lifecycles, NEW s \in SessionArgs, InsertProvisional(l, s)
      PROVE  /\ UNCHANGED seen
             /\ \A m \in Lifecycles : records[m] # Absent => UNCHANGED records[m]
  BY <1>2, MintStep DEF OneRow, Typed, TypeOK
<1>3. Typed /\ VersionNamesRow /\ [PNext]_allvars => VersionNamesRow'
  <2> SUFFICES ASSUME Typed, VersionNamesRow, [PNext]_allvars PROVE VersionNamesRow'
    OBVIOUS
  <2>1. CASE [Next]_vars
    BY <2>1, VersionNamesRowStep DEF Typed
  <2>2. ASSUME NEW l \in Lifecycles, NEW s \in SessionArgs, InsertProvisional(l, s)
        PROVE  VersionNamesRow'
    BY <1>2, <2>2 DEF VersionNamesRow, Typed, TypeOK
  <2> QED
    BY <2>1, <2>2, ProvisionalStep DEF Typed
<1>4. Typed /\ VersionNamesRow /\ [PNext]_allvars =>
        [\A c \in Clients : ReadIsCurrent(c)]_vars
  <2> SUFFICES ASSUME Typed, VersionNamesRow, [PNext]_allvars, NEW c \in Clients
               PROVE  ReadIsCurrent(c)
    OBVIOUS
  <2>1. CASE \E l \in Lifecycles, s \in SessionArgs : InsertProvisional(l, s)
    BY <1>2, <2>1 DEF ReadIsCurrent
  <2> QED
    BY <2>1, ProvisionalStep, ReadIsCurrentStep DEF Typed
<1>5. Typed /\ [PNext]_allvars => [\A l \in Active : Rightful(l)]_vars
  <2> SUFFICES ASSUME Typed, [PNext]_allvars, NEW l \in Active
               PROVE  Rightful(l)
    OBVIOUS
  <2>1. CASE \E m \in Lifecycles, s \in SessionArgs : InsertProvisional(m, s)
    <3>1. l \in Lifecycles /\ records[l] # Absent /\ records[l].state = "active"
      BY DEF Active, InState
    <3> QED
      BY <1>2, <2>1, <3>1 DEF Rightful
  <2> QED
    BY <2>1, ProvisionalStep, RightfulStep DEF Typed
<1>6. PSpec => []VersionNamesRow
  BY <1>1, <1>3, ProvisionalTypeCorrect, PTL DEF PSpec
<1>7. PSpec => NoLostUpdate
  BY <1>4, <1>6, ProvisionalTypeCorrect, PTL DEF PSpec, NoLostUpdate, ReadIsCurrent
<1>8. PSpec => NoSilentTakeover
  BY <1>5, ProvisionalTypeCorrect, PTL DEF PSpec, NoSilentTakeover, Rightful
<1> QED
  BY <1>7, <1>8

-----------------------------------------------------------------------------
(* What is linked to a record *)

\* The links of l stand, and a completed record is closed to the registry
\* and to learning.
LinkAndEndStand(l) ==
    /\ Links(l) \subseteq Links(l)'
    /\ InState(l, {"complete"}) =>
         records'[l].state = "complete" /\ Links(l)' = Links(l)

\* An apply adds a link of its own record and takes none away.
LEMMA LinkAppStands ==
    ASSUME NEW t \in Tasks, NEW s \in SessionArgs, NEW rec \in Lifecycles \cup {NoRecord},
           LinkApp(t, s, rec), NEW l \in Lifecycles
    PROVE  /\ Links(l) \subseteq Links(l)'
           /\ l # rec => Links(l)' = Links(l)
BY ProvSentinels DEF LinkApp, Links

\* Nothing leads out of "complete".
LEMMA CompleteStands ==
    ASSUME Typed, [PNext]_allvars, NEW l \in Lifecycles, InState(l, {"complete"})
    PROVE  records'[l].state = "complete"
<1>1. ASSUME NEW m \in Lifecycles, NEW row \in Row, OneRow(m, row)
      PROVE  records'[l].state = "complete"
  BY <1>1 DEF OneRow, StaysDone, InState, Typed, TypeOK
<1>2. CASE UNCHANGED records
  BY <1>2 DEF InState
<1> QED
  BY <1>1, <1>2, ProvisionalStep, RecordStep, MintStep DEF Typed

\* A link, once made, is never moved to another record, and a completed
\* record gains no link and never opens again, whoever still held a version
\* of it (_prior_application, "closed-record").
THEOREM LinksAndEndsStandHolds == PSpec => LinksAndEndsStand
<1>1. Typed /\ [PNext]_allvars => [\A l \in Lifecycles : LinkAndEndStand(l)]_allvars
  <2> SUFFICES ASSUME Typed, [PNext]_allvars, NEW l \in Lifecycles
               PROVE  LinkAndEndStand(l)
    OBVIOUS
  <2>1. ASSUME NEW t \in Tasks, NEW s \in SessionArgs,
               NEW rec \in Lifecycles \cup {NoRecord}, LinkApp(t, s, rec),
               l # rec \/ ~InState(l, {"complete"})
        PROVE  LinkAndEndStand(l)
    BY <2>1, LinkAppStands, CompleteStands DEF LinkAndEndStand
  <2>2. ASSUME NEW t \in Tasks, NEW s \in SessionArgs,
               NEW rec \in Lifecycles \cup {NoRecord}, Apply(t, s, rec)
        PROVE  LinkAndEndStand(l)
    BY <2>1, <2>2, ProvSentinels DEF Apply, MayApply
  <2>3. ASSUME NEW t \in Tasks, NEW s \in SessionArgs, NEW rec \in Lifecycles,
               ApplyNew(t, s, rec)
        PROVE  LinkAndEndStand(l)
    BY <2>1, <2>3 DEF ApplyNew, InsertProvisional, InState
  <2>4. CASE UNCHANGED applications
    BY <2>4, CompleteStands DEF LinkAndEndStand, Links
  <2> QED
    BY <2>2, <2>3, <2>4 DEF PNext, Registry, pvars, Learn, CreateProvisional, Decision,
       CheckLedger, Promote, CancelLook, CancelComplete, CancelMark, GiveUp, allvars
<1> QED
  BY <1>1, ProvisionalTypeCorrect, PTL DEF PSpec, LinksAndEndsStand, LinkAndEndStand

\* A record on its way to the mark, or marked, after a cancel that found it
\* active is complete, and its ledger row is there.
Doomed ==
    /\ \A c \in Clients : Busy(c, "cancel", "mark") => InState(deciding[c].luid, {"complete"})
    /\ \A l \in voided : InState(l, {"complete"})
    /\ \A l \in voided : Cancelled(l)

\* A completed record is there, and stays complete.
LEMMA CompletedStays ==
    ASSUME Typed, [PNext]_allvars, NEW l \in Lifecycles, InState(l, {"complete"})
    PROVE  InState(l, {"complete"})'
<1>1. records[l] # Absent
  BY DEF InState
<1> QED
  BY <1>1, CompleteStands, RecordsStay DEF InState

\* A completion leaves the record it names complete.
LEMMA CompletionCompletes ==
    ASSUME Typed, NEW c \in Clients, NEW s \in SessionArgs, NEW l \in Lifecycles,
           seen[c].luid = l, records'[l] # Absent,
           Transition(c, "complete", s, TRUE, FALSE, NoHeading)
    PROVE  InState(l, {"complete"})'
<1>1. Change(l, "complete", s, TRUE, FALSE, NoHeading)
  BY DEF Transition, FreshFor
<1>2. PICK row : row.state = "complete" /\ Write(l, row)
  <2> DEFINE row == [Bumped(records[l]) EXCEPT
                      !.state = "complete",
                      !.session = IF s = NoSession THEN @ ELSE s,
                      !.evidence = TRUE]
  <2>1. Write(l, row)
    BY <1>1 DEF Change
  <2>2. row.state = "complete"
    <3>1. records[l] \in Row
      BY <1>1 DEF Transition, FreshFor, Typed, TypeOK
    <3> QED
      BY <3>1 DEF Bumped, Row
  <2> QED
    BY <2>1, <2>2
<1> QED
  BY <1>2 DEF Write, InState, Typed, TypeOK

\* One step keeps Doomed: the mark is reached by a completion alone, and
\* nothing leads out of "complete".
LEMMA DoomedStep ==
    ASSUME Typed, Doomed, [PNext]_allvars
    PROVE  Doomed'
<1>1. \A l \in Lifecycles : InState(l, {"complete"}) => InState(l, {"complete"})'
  BY CompletedStays
<1>2. \A c \in Clients : Busy(c, "cancel", "mark") => deciding[c].luid \in Lifecycles
  BY DecidesOne DEF Typed, Busy
<1>3. voided \subseteq Lifecycles
  BY DEF Typed, PTypeOK
<1>4. \A l \in voided : Cancelled(l) /\ (ledger[l] = ledger'[l] => Cancelled(l)')
  BY DEF Doomed, Cancelled, IsProvisional
<1>5. CASE UNCHANGED <<deciding, voided, ledger>>
  BY <1>1, <1>2, <1>3, <1>4, <1>5 DEF Doomed, Busy, Free
<1>6. ASSUME NEW l \in Lifecycles, NEW s \in SessionArgs, InsertProvisional(l, s),
             UNCHANGED <<deciding, voided>>
      PROVE  Doomed'
  <2>1. l \notin voided
    BY <1>6 DEF Doomed, InState, InsertProvisional
  <2>2. \A m \in voided : ledger'[m] = ledger[m]
    BY <1>3, <1>6, <2>1 DEF InsertProvisional, Typed, PTypeOK
  <2>3. \A m \in voided' : Cancelled(m)' /\ InState(m, {"complete"})'
    BY <1>1, <1>3, <1>4, <1>6, <2>2 DEF Doomed
  <2>4. \A c \in Clients : Busy(c, "cancel", "mark")' => InState(deciding[c].luid, {"complete"})'
    BY <1>1, <1>2, <1>6 DEF Doomed, Busy, Free
  <2> QED
    BY <2>3, <2>4 DEF Doomed
<1>7. ASSUME NEW c \in Clients, Decision(c)
      PROVE  Doomed'
  <2>1. ASSUME UNCHANGED <<ledger, voided>>, ~Free(c),
               Over(c) \/ \E at \in {"complete", "pass"} : Proceed(c, at)
        PROVE  Doomed'
    <3>1. ASSUME NEW d \in Clients, Busy(d, "cancel", "mark")'
          PROVE  Busy(d, "cancel", "mark") /\ deciding'[d] = deciding[d]
      <4>1. CASE Over(c)
        BY <3>1, <4>1 DEF Over, Busy, Free, Typed, PTypeOK
      <4>2. ASSUME NEW at \in {"complete", "pass"}, Proceed(c, at)
            PROVE  Busy(d, "cancel", "mark") /\ deciding'[d] = deciding[d]
        <5>1. deciding'[d] = IF d = c THEN [deciding[c] EXCEPT !.at = at] ELSE deciding[d]
          BY <4>2 DEF Proceed, Typed, PTypeOK
        <5>2. ~Free(c) => [deciding[c] EXCEPT !.at = at].at = at
          BY DecidesOne DEF Typed, Decisions
        <5> QED
          BY <2>1, <3>1, <5>1, <5>2 DEF Busy, Free
      <4> QED
        BY <2>1, <4>1, <4>2
    <3>2. \A d \in Clients : Busy(d, "cancel", "mark")' => InState(deciding[d].luid, {"complete"})'
      BY <1>1, <1>2, <3>1 DEF Doomed
    <3> QED
      BY <1>1, <1>3, <1>4, <2>1, <3>1, <3>2 DEF Doomed
  <2>2. ASSUME NEW l \in Lifecycles, NEW verb \in {"promote", "cancel"}, CheckLedger(c, l, verb)
        PROVE  Doomed'
    BY <1>1, <1>2, <1>3, <1>4, <2>2
       DEF CheckLedger, Doomed, Busy, Free, Typed, PTypeOK
  <2>3. ASSUME NEW s \in SessionArgs, CancelComplete(c, s)
        PROVE  Doomed'
    <3>1. PICK l \in Lifecycles : l = deciding[c].luid /\ ~Free(c)
      BY <2>3, DecidesOne DEF CancelComplete, Busy, Typed
    <3>2. InState(l, {"complete"})'
      <4>1. records[l] # Absent
        BY <3>1, DecidesOne DEF Typed, PTypeOK
      <4>2. records'[l] # Absent
        BY <4>1, RecordsStay
      <4>3. seen[c].luid = l /\ Transition(c, "complete", s, TRUE, FALSE, NoHeading)
        BY <2>3, <3>1 DEF CancelComplete
      <4> QED
        BY <4>2, <4>3, CompletionCompletes
    <3>3. deciding' = [deciding EXCEPT ![c].at = "mark"] /\ UNCHANGED <<ledger, voided>>
      BY <2>3 DEF CancelComplete, Proceed
    <3>4. deciding'[c].luid = l
      BY <3>1, <3>3, DecidesOne DEF Typed, PTypeOK, Decisions
    <3>5. \A d \in Clients : Busy(d, "cancel", "mark")' => InState(deciding[d].luid, {"complete"})'
      <4>1. ASSUME NEW d \in Clients, d # c, Busy(d, "cancel", "mark")'
            PROVE  InState(deciding[d].luid, {"complete"})'
        <5>1. deciding'[d] = deciding[d]
          BY <3>3, <4>1 DEF Typed, PTypeOK
        <5> QED
          BY <1>1, <1>2, <4>1, <5>1 DEF Doomed, Busy, Free
      <4>2. InState(deciding[c].luid, {"complete"})'
        BY <3>2, <3>4
      <4> QED
        BY <4>1, <4>2
    <3> QED
      BY <1>1, <1>3, <1>4, <3>3, <3>5 DEF Doomed
  <2>4. CASE Promote(c)
    <3>1. \A l \in voided : Cancelled(l)'
      BY <1>3, <1>4, <2>4, DecidesOne, ProvSentinels
         DEF Promote, Busy, Cancelled, IsProvisional, Typed, PTypeOK, LedgerRow
    <3> QED
      BY <1>1, <1>2, <1>3, <2>4, <3>1, ProvSentinels
         DEF Promote, Over, Doomed, Busy, Free, Typed, PTypeOK
  <2>5. CASE CancelMark(c)
    <3>1. /\ ~Free(c) /\ Over(c)
          /\ ledger' = [ledger EXCEPT ![deciding[c].luid] =
                           [ledger[deciding[c].luid] EXCEPT !.cancelled = TRUE]]
          /\ \/ voided' = voided
             \/ Busy(c, "cancel", "mark") /\ voided' = voided \cup {deciding[c].luid}
      BY <2>5 DEF CancelMark, Busy
    <3>2. \A l \in voided' : Cancelled(l)'
      <4>1. ledger'[deciding[c].luid] = [ledger[deciding[c].luid] EXCEPT !.cancelled = TRUE]
        BY <3>1, DecidesOne DEF Typed, PTypeOK
      <4>2. ledger'[deciding[c].luid] # Ordinary /\ ledger'[deciding[c].luid].cancelled
        BY <3>1, <4>1, DecidesOne, ProvSentinels DEF LedgerRow, Typed
      <4>3. \A l \in voided : l # deciding[c].luid => ledger'[l] = ledger[l]
        BY <1>3, <3>1 DEF Typed, PTypeOK
      <4> QED
        BY <1>3, <1>4, <3>1, <4>2, <4>3 DEF Cancelled, IsProvisional
    <3> QED
      BY <1>1, <1>2, <1>3, <3>1, <3>2 DEF Over, Doomed, Busy, Free, Typed, PTypeOK
  <2> QED
    BY <1>7, <2>1, <2>2, <2>3, <2>4, <2>5 DEF Decision, CancelLook, GiveUp, Busy
<1> QED
  BY <1>5, <1>6, <1>7 DEF PNext, Registry, pvars, Learn, Apply, ApplyNew, CreateProvisional, allvars

\* Cancelled is over: a record that cancel found active is complete from the
\* moment its ledger row says cancelled, whatever others did to it between
\* the three transactions (cancel_provisional_record).
THEOREM CancelledIsOverHolds == PSpec => []CancelledIsOver
<1>1. PInit => Doomed
  BY DEF PInit, Doomed, Busy, Free
<1>2. Doomed => CancelledIsOver
  BY DEF Doomed, CancelledIsOver
<1> QED
  BY <1>1, <1>2, DoomedStep, ProvisionalTypeCorrect, PTL DEF PSpec
=============================================================================
