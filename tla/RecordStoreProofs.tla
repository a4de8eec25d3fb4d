-------------------------- MODULE RecordStoreProofs --------------------------
(***************************************************************************)
(* Safety of the work-record registry for every set of lifecycles, names,  *)
(* sessions and paths, every symmetric overlap relation and every cap.     *)
(*                                                                         *)
(* The argument.  Lemma RecordStep says that a step either leaves the      *)
(* records table alone or rewrites ONE row, and that the rewritten row     *)
(* enters "active" (through the admission check), stays active (keeping    *)
(* its name, lifetime and holder, and redrawing its fence only over paths  *)
(* nobody else holds), or is not active afterwards.  Every invariant about *)
(* active records follows from these three cases.                          *)
(***************************************************************************)
EXTENDS RecordStore, FiniteSetTheorems, TLAPS

Enters(l, row) ==
    /\ l \notin Active
    /\ row.state = "active"
    /\ ~FindOverlap(row.files, {l})
    /\ ActiveNamed(row.name) = {}
    /\ row.lifetime = "persistent" =>
         Cardinality(ActivePersistent \ {l}) < MaxActivePersistent

Keeps(l, row) ==
    /\ l \in Active
    /\ row.state = "active"
    /\ row.name = records[l].name
    /\ row.lifetime = records[l].lifetime
    /\ row.session = records[l].session
    /\ \/ row.files = records[l].files
       \/ row.session # NoSession /\ ~FindOverlap(row.files, {l})

Leaves(l, row) == row.state # "active"

NextVersion(l, row) ==
    row.version = IF records[l] = Absent THEN 1 ELSE records[l].version + 1

\* Work marked done stays done.
StaysDone(l, row) == InState(l, {"complete"}) => row.state = "complete"

\* What one step does to the records table.
OneRow(l, row) ==
    /\ records' = [records EXCEPT ![l] = row]
    /\ NextVersion(l, row)
    /\ StaysDone(l, row)
    /\ Enters(l, row) \/ Keeps(l, row) \/ Leaves(l, row)

-----------------------------------------------------------------------------
(* Facts about rows *)

\* A bumped row is the same row one version on.
LEMMA BumpedType ==
    ASSUME NEW row \in Row
    PROVE  /\ Bumped(row) \in Row
           /\ Bumped(row).version = row.version + 1
           /\ Bumped(row).state = row.state
           /\ Bumped(row).name = row.name
           /\ Bumped(row).lifetime = row.lifetime
           /\ Bumped(row).session = row.session
           /\ Bumped(row).files = row.files
BY DEF Bumped, Row

\* Payload and text of a row are well typed.
LEMMA PayloadType ==
    ASSUME NEW row \in Row
    PROVE  Payload(row) \in PayloadRow
BY DEF Payload, Row, PayloadRow

-----------------------------------------------------------------------------
(* Each operation rewrites one row in one of the three ways *)

\* claim() of a free name enters "active" through the admission check.
LEMMA ClaimNewStep ==
    ASSUME TypeOK, NEW n \in Names, NEW lifetime \in Lifetimes,
           NEW s \in SessionArgs, NEW F \in FilesArgs, NEW b \in Briefs,
           ClaimNew(n, lifetime, s, F, b)
    PROVE  \E l \in Lifecycles, row \in Row : OneRow(l, row) /\ Enters(l, row)
<1> DEFINE files == Supplied(F, {})
<1>1. files \in SUBSET Paths
  BY DEF Supplied, FilesArgs
<1>2. PICK l \in Lifecycles :
        /\ records[l] = Absent
        /\ Write(l, [state |-> "active", name |-> n, lifetime |-> lifetime,
                     session |-> s, version |-> 1, files |-> files,
                     brief |-> b, evidence |-> FALSE,
                     digests |-> 0, decisions |-> 0])
  BY DEF ClaimNew
<1> DEFINE row == [state |-> "active", name |-> n, lifetime |-> lifetime,
                   session |-> s, version |-> 1, files |-> files,
                   brief |-> b, evidence |-> FALSE,
                   digests |-> 0, decisions |-> 0]
<1>3. row \in Row
  BY <1>1 DEF Row, States, Lifetimes
<1>4. l \notin Active
  BY <1>2 DEF Active, InState
<1>5. Active \ {l} = Active \ {} /\ ActivePersistent \ {l} = ActivePersistent \ {}
  BY <1>4 DEF ActivePersistent
<1>6. Enters(l, row)
  <2>1. Admit(lifetime, files, {}) /\ ActiveNamed(n) = {}
    BY DEF ClaimNew
  <2>2. ~FindOverlap(files, {l})
    BY <2>1, <1>5 DEF Admit, FindOverlap
  <2>3. lifetime = "persistent" =>
          Cardinality(ActivePersistent \ {l}) < MaxActivePersistent
    BY <2>1, <1>5 DEF Admit
  <2> QED
    BY <1>4, <2>1, <2>2, <2>3 DEF Enters
<1>7. NextVersion(l, row)
  BY <1>2 DEF NextVersion
<1> QED
  BY <1>2, <1>3, <1>6, <1>7 DEF OneRow, Write, StaysDone, InState

\* claim() of one's own active name keeps it active and in the same hands.
LEMMA ReclaimStep ==
    ASSUME TypeOK, NEW n \in Names, NEW lifetime \in Lifetimes,
           NEW s \in SessionArgs, NEW F \in FilesArgs,
           NEW b \in Briefs \cup {NotSupplied},
           Reclaim(n, lifetime, s, F, b)
    PROVE  \E l \in Lifecycles, row \in Row : OneRow(l, row) /\ Keeps(l, row)
<1>1. PICK l \in ActiveNamed(n) :
         /\ Owns(records[l], s)
         /\ records[l].lifetime = lifetime
         /\ F # NotSupplied => ~FindOverlap(F, {l})
         /\ Write(l, [Bumped(records[l]) EXCEPT !.files = Supplied(F, @),
                                                !.brief = Supplied(b, @)])
  BY DEF Reclaim
<1> DEFINE row == [Bumped(records[l]) EXCEPT !.files = Supplied(F, @),
                                             !.brief = Supplied(b, @)]
<1>2. l \in Lifecycles /\ l \in Active /\ records[l] \in Row /\ records[l] # Absent
       /\ records[l].state = "active"
  BY DEF ActiveNamed, Active, InState, TypeOK
<1>3. Bumped(records[l]) \in Row
  BY <1>2, BumpedType
<1>4. row \in Row /\ row.version = records[l].version + 1 /\ row.state = "active"
       /\ row.name = records[l].name /\ row.lifetime = records[l].lifetime
       /\ row.session = records[l].session
       /\ row.files = Supplied(F, records[l].files)
  BY <1>2, <1>3, BumpedType DEF Row, Supplied, FilesArgs
<1>5. row.files = records[l].files
        \/ (row.session # NoSession /\ ~FindOverlap(row.files, {l}))
  BY <1>1, <1>4 DEF Supplied, Owns
<1>6. Keeps(l, row)
  BY <1>2, <1>4, <1>5 DEF Keeps
<1> QED
  BY <1>1, <1>2, <1>4, <1>6 DEF OneRow, Write, NextVersion, StaysDone, InState

\* A park, resume, completion or adoption enters "active" through the
\* admission check, or leaves it.
LEMMA ChangeStep ==
    ASSUME TypeOK, NEW l \in Lifecycles, records[l] # Absent,
           NEW to \in States, NEW s \in SessionArgs,
           NEW evidence \in BOOLEAN, NEW live \in BOOLEAN,
           NEW heading \in HeadingArgs,
           Change(l, to, s, evidence, live, heading)
    PROVE  \E row \in Row : OneRow(l, row)
<1>1. /\ records[l].state \in LegalSources(to)
      /\ to = "active" =>
           /\ Admit(records[l].lifetime, records[l].files, {l})
           /\ ActiveNamed(records[l].name) = {}
      /\ Write(l, [Bumped(records[l]) EXCEPT
                     !.state = to,
                     !.session = IF s = NoSession THEN @ ELSE s,
                     !.evidence = IF to = "complete" THEN evidence ELSE @])
  BY DEF Change
<1> DEFINE row == [Bumped(records[l]) EXCEPT
                     !.state = to,
                     !.session = IF s = NoSession THEN @ ELSE s,
                     !.evidence = IF to = "complete" THEN evidence ELSE @]
<1>2. records[l] \in Row
  BY DEF TypeOK
<1>3. Bumped(records[l]) \in Row
  BY <1>2, BumpedType
<1>4. row \in Row /\ row.version = records[l].version + 1 /\ row.state = to
       /\ row.name = records[l].name /\ row.lifetime = records[l].lifetime
       /\ row.files = records[l].files
  BY <1>2, <1>3, BumpedType DEF Row, SessionArgs
<1>5. StaysDone(l, row)
  BY <1>1, <1>2 DEF StaysDone, InState, LegalSources, States
<1>6. CASE to = "active"
  <2>1. records[l].state # "active"
    BY <1>1, <1>6 DEF LegalSources
  <2>2. Enters(l, row)
    BY <1>1, <1>4, <1>6, <2>1 DEF Enters, Admit, Active, InState
  <2> QED
    BY <1>1, <1>2, <1>4, <1>5, <2>2 DEF OneRow, Write, NextVersion
<1>7. CASE to # "active"
  BY <1>1, <1>2, <1>4, <1>5, <1>7 DEF OneRow, Write, NextVersion, Leaves
<1> QED
  BY <1>6, <1>7

\* A transition is such a change.
LEMMA TransitionStep ==
    ASSUME TypeOK, NEW c \in Clients, NEW to \in States, NEW s \in SessionArgs,
           NEW evidence \in BOOLEAN, NEW live \in BOOLEAN,
           NEW heading \in HeadingArgs,
           Transition(c, to, s, evidence, live, heading)
    PROVE  \E l \in Lifecycles, row \in Row : OneRow(l, row)
BY ChangeStep DEF Transition, FreshFor

\* Two rows that differ only in digests, decisions and other texts.
SameLife(row, new) ==
    /\ new.state = row.state
    /\ new.name = row.name
    /\ new.lifetime = row.lifetime
    /\ new.session = row.session
    /\ new.files = row.files
    /\ new.version = row.version

\* Appending digests and decisions to a row leaves its life alone.
LEMMA AppendType ==
    ASSUME NEW row \in Row, NEW k \in Nat
    PROVE  /\ [row EXCEPT !.digests = @ + 1, !.decisions = @ + k] \in Row
           /\ SameLife(row, [row EXCEPT !.digests = @ + 1, !.decisions = @ + k])
           /\ [row EXCEPT !.decisions = @ + 1] \in Row
           /\ SameLife(row, [row EXCEPT !.decisions = @ + 1])
<1>1. ASSUME NEW a \in Nat, NEW b \in Nat
      PROVE  /\ [row EXCEPT !.digests = a, !.decisions = b] \in Row
             /\ SameLife(row, [row EXCEPT !.digests = a, !.decisions = b])
  BY DEF Row, SameLife
<1>2. ASSUME NEW b \in Nat
      PROVE  /\ [row EXCEPT !.decisions = b] \in Row
             /\ SameLife(row, [row EXCEPT !.decisions = b])
  BY DEF Row, SameLife
<1>3. row.digests \in Nat /\ row.decisions \in Nat
  BY DEF Row
<1>4. row.digests + 1 \in Nat /\ row.decisions + k \in Nat /\ row.decisions + 1 \in Nat
  BY <1>3
<1> QED
  BY <1>1, <1>2, <1>4

\* Rewriting a record one version on within the same life keeps it active or
\* keeps it inactive.
LEMMA AppendStep ==
    ASSUME TypeOK, NEW l \in Lifecycles, records[l] # Absent,
           NEW new \in Row, SameLife(Bumped(records[l]), new), Write(l, new)
    PROVE  OneRow(l, new)
<1>1. records[l] \in Row
  BY DEF TypeOK
<1>2. Keeps(l, new) \/ Leaves(l, new)
  BY <1>1, BumpedType DEF Keeps, Leaves, Active, InState, SameLife
<1>3. NextVersion(l, new)
  BY <1>1, BumpedType DEF NextVersion, SameLife
<1>4. StaysDone(l, new)
  BY <1>1, BumpedType DEF StaysDone, InState, SameLife
<1> QED
  BY <1>2, <1>3, <1>4 DEF OneRow, Write

\* checkpoint() rewrites a row in place.
LEMMA CheckpointStep ==
    ASSUME TypeOK, NEW c \in Clients, NEW k \in {0, 1}, Checkpoint(c, k)
    PROVE  \E l \in Lifecycles, row \in Row : OneRow(l, row)
<1> DEFINE new(row) == [row EXCEPT !.digests = @ + 1, !.decisions = @ + k]
<1>1. PICK l \in Lifecycles : FreshFor(c, l) /\ Write(l, new(Bumped(records[l])))
  BY DEF Checkpoint
<1>2. records[l] # Absent /\ Bumped(records[l]) \in Row
  BY <1>1, BumpedType DEF FreshFor, TypeOK
<1>3. new(Bumped(records[l])) \in Row
       /\ SameLife(Bumped(records[l]), new(Bumped(records[l])))
  BY <1>2, AppendType
<1> QED
  BY <1>1, <1>2, <1>3, AppendStep

\* decide() rewrites a row in place.
LEMMA DecideStep ==
    ASSUME TypeOK, NEW c \in Clients, Decide(c)
    PROVE  \E l \in Lifecycles, row \in Row : OneRow(l, row)
<1> DEFINE new(row) == [row EXCEPT !.decisions = @ + 1]
<1>1. PICK l \in Lifecycles : FreshFor(c, l) /\ Write(l, new(Bumped(records[l])))
  BY DEF Decide
<1>2. records[l] # Absent /\ Bumped(records[l]) \in Row
  BY <1>1, BumpedType DEF FreshFor, TypeOK
<1>3. new(Bumped(records[l])) \in Row
       /\ SameLife(Bumped(records[l]), new(Bumped(records[l])))
  BY <1>2, AppendType
<1> QED
  BY <1>1, <1>2, <1>3, AppendStep

\* Every step leaves the records alone or rewrites one row in one of the
\* three ways.
LEMMA RecordStep ==
    ASSUME TypeOK, [Next]_vars
    PROVE  \/ UNCHANGED records
           \/ \E l \in Lifecycles, row \in Row : OneRow(l, row)
<1>1. CASE Claim
  <2>1. PICK n \in Names, lifetime \in Lifetimes, s \in SessionArgs,
             F \in FilesArgs :
          \/ \E b \in Briefs : ClaimNew(n, lifetime, s, F, b)
          \/ \E b \in Briefs \cup {NotSupplied} : Reclaim(n, lifetime, s, F, b)
    BY <1>1 DEF Claim
  <2> QED
    BY <2>1, ClaimNewStep, ReclaimStep
<1>2. ASSUME NEW c \in Clients, Act(c)
      PROVE  \/ UNCHANGED records
             \/ \E l \in Lifecycles, row \in Row : OneRow(l, row)
  <2>1. CASE \E l \in Lifecycles : Look(c, l)
    BY <2>1 DEF Look
  <2>2. CASE Move(c)
    BY <2>2, TransitionStep DEF Move
  <2>3. CASE \E k \in {0, 1} : Checkpoint(c, k)
    BY <2>3, CheckpointStep
  <2>4. CASE Decide(c)
    BY <2>4, DecideStep
  <2>5. CASE Send(c)
    BY <2>5 DEF Send
  <2> QED
    BY <1>2, <2>1, <2>2, <2>3, <2>4, <2>5 DEF Act
<1>3. CASE \E h \in handovers : Acknowledge(h)
  BY <1>3 DEF Acknowledge
<1>4. CASE UNCHANGED vars
  BY <1>4 DEF vars
<1> QED
  BY <1>1, <1>2, <1>3, <1>4 DEF Next

-----------------------------------------------------------------------------
(* Type correctness *)

\* The columns not in "records" stay typed when a change writes them.
LEMMA ChangeTypes ==
    ASSUME TypeOK, NEW l \in Lifecycles, records[l] # Absent,
           NEW to \in States, NEW s \in SessionArgs,
           NEW evidence \in BOOLEAN, NEW live \in BOOLEAN,
           NEW heading \in HeadingArgs,
           Change(l, to, s, evidence, live, heading)
    PROVE  /\ trail' \in [Lifecycles -> [by : SessionArgs, displaced : SessionArgs]]
           /\ handovers' \subseteq HandoverRow
           /\ owed' \subseteq Text
           /\ UNCHANGED directives
<1> DEFINE row == [Bumped(records[l]) EXCEPT
                     !.state = to,
                     !.session = IF s = NoSession THEN @ ELSE s,
                     !.evidence = IF to = "complete" THEN evidence ELSE @]
<1>1. /\ trail' = [trail EXCEPT ![l] = MoveOf(records[l], to, s)]
      /\ IF heading = NoHeading
         THEN UNCHANGED <<handovers, owed>>
         ELSE PostHandover(l, row, records[l].session, s, heading)
      /\ UNCHANGED directives
  BY DEF Change
<1>2. records[l] \in Row
  BY DEF TypeOK
<1>3. row \in Row
  BY <1>2, BumpedType DEF Row, SessionArgs
<1>4. MoveOf(records[l], to, s) \in [by : SessionArgs, displaced : SessionArgs]
  BY <1>2 DEF MoveOf, Row, SessionArgs
<1>5. trail' \in [Lifecycles -> [by : SessionArgs, displaced : SessionArgs]]
  BY <1>1, <1>4 DEF TypeOK
<1>6. CASE heading = NoHeading
  BY <1>1, <1>5, <1>6 DEF TypeOK
<1>7. CASE heading # NoHeading
  <2> DEFINE h == [luid |-> l, transition |-> row.version,
                   from |-> records[l].session, to |-> s,
                   payload |-> Payload(row), heading |-> heading,
                   delivered |-> FALSE]
  <2>1. row.version \in Nat /\ Payload(row) \in PayloadRow
        /\ records[l].session \in SessionArgs /\ heading \in Headings
    BY <1>2, <1>3, <1>7, PayloadType DEF Row, HeadingArgs
  <2> HIDE DEF row
  <2>2. h \in HandoverRow
    BY <2>1 DEF HandoverRow
  <2>3. TextOf(h) \in Text
    BY <2>1 DEF TextOf, Text
  <2>4. handovers' \subseteq HandoverRow /\ owed' \subseteq Text
    BY <1>1, <1>7, <2>2, <2>3 DEF PostHandover, TypeOK
  <2> QED
    BY <1>1, <1>5, <2>4
<1> QED
  BY <1>6, <1>7

\* One step, type by type.
LEMMA TypeStep ==
    ASSUME TypeOK, [Next]_vars
    PROVE  TypeOK'
<1>1. records' \in [Lifecycles -> Row \cup {Absent}]
  BY RecordStep DEF TypeOK, OneRow
<1>2. CASE Claim
  <2>1. trail' \in [Lifecycles -> [by : SessionArgs, displaced : SessionArgs]]
        /\ UNCHANGED <<directives, handovers, owed, seen>>
    <3>1. PICK n \in Names, lifetime \in Lifetimes, s \in SessionArgs,
               F \in FilesArgs :
            \/ \E b \in Briefs : ClaimNew(n, lifetime, s, F, b)
            \/ \E b \in Briefs \cup {NotSupplied} :
                 Reclaim(n, lifetime, s, F, b)
      BY <1>2 DEF Claim
    <3>2. [NoMove EXCEPT !.by = s] \in [by : SessionArgs, displaced : SessionArgs]
      BY DEF NoMove, SessionArgs
    <3>3. CASE \E b \in Briefs : ClaimNew(n, lifetime, s, F, b)
      <4>1. PICK l \in Lifecycles :
              trail' = [trail EXCEPT ![l] = [NoMove EXCEPT !.by = s]]
        BY <3>3 DEF ClaimNew
      <4> QED
        BY <3>2, <3>3, <4>1 DEF ClaimNew, TypeOK
    <3>4. CASE \E b \in Briefs \cup {NotSupplied} :
                 Reclaim(n, lifetime, s, F, b)
      BY <3>4 DEF Reclaim, TypeOK
    <3> QED
      BY <3>1, <3>3, <3>4
  <2> QED
    BY <1>1, <2>1 DEF TypeOK
<1>3. ASSUME NEW c \in Clients, Act(c)
      PROVE  TypeOK'
  <2>1. CASE \E l \in Lifecycles : Look(c, l)
    BY <1>1, <2>1 DEF Look, TypeOK
  <2>2. CASE Move(c)
    <3>1. PICK to \in States, s \in SessionArgs, evidence \in BOOLEAN,
               live \in BOOLEAN, heading \in HeadingArgs :
                 Transition(c, to, s, evidence, live, heading)
      BY <2>2 DEF Move
    <3>2. PICK l \in Lifecycles :
            records[l] # Absent /\ Change(l, to, s, evidence, live, heading) /\ Finish(c)
      BY <3>1 DEF Transition, FreshFor
    <3> QED
      BY <1>1, <3>2, ChangeTypes DEF Finish, TypeOK
  <2>3. CASE \E k \in {0, 1} : Checkpoint(c, k)
    BY <1>1, <2>3 DEF Checkpoint, Finish, TypeOK
  <2>4. CASE Decide(c)
    BY <1>1, <2>4 DEF Decide, Finish, TypeOK
  <2>5. CASE Send(c)
    BY <1>1, <2>5 DEF Send, Finish, TypeOK
  <2> QED
    BY <1>3, <2>1, <2>2, <2>3, <2>4, <2>5 DEF Act
<1>4. ASSUME NEW h \in handovers, Acknowledge(h)
      PROVE  TypeOK'
  <2>1. h \in HandoverRow
    BY DEF TypeOK
  <2>2. [h EXCEPT !.delivered = TRUE] \in HandoverRow
    BY <2>1 DEF HandoverRow
  <2> QED
    BY <1>1, <1>4, <2>2 DEF Acknowledge, TypeOK
<1>5. CASE UNCHANGED vars
  BY <1>5 DEF vars, TypeOK
<1> QED
  BY <1>2, <1>3, <1>4, <1>5 DEF Next

\* Every variable keeps its type: the records by RecordStep, the rest by the
\* one operation that writes it.
THEOREM TypeCorrect == Spec => []TypeOK
<1>1. Init => TypeOK
  BY DEF Init, TypeOK, NoMove, SessionArgs
<1>2. TypeOK /\ [Next]_vars => TypeOK'
  BY TypeStep
<1> QED
  BY <1>1, <1>2, PTL DEF Spec

-----------------------------------------------------------------------------
(* Invariants of the active records *)

\* After one row is rewritten, the other rows are what they were.
LEMMA OneRowFrame ==
    ASSUME TypeOK, NEW l \in Lifecycles, NEW row \in Row, OneRow(l, row),
           NEW m \in Lifecycles
    PROVE  /\ records'[l] = row
           /\ m # l => records'[m] = records[m]
           /\ m # l => (m \in Active' <=> m \in Active)
           /\ l \in Active' <=> row.state = "active"
BY Sentinels DEF OneRow, TypeOK, Active, InState

\* Single writer: a row enters "active" or redraws its fence only clear of
\* every other active fence, and overlap is symmetric.
LEMMA SingleWriterOneRow ==
    ASSUME TypeOK, SingleWriter, NEW l \in Lifecycles, NEW row \in Row, OneRow(l, row)
    PROVE  SingleWriter'
<1>1. ASSUME NEW m \in Active', m # l, l \in Active',
             NEW p \in row.files, NEW q \in records[m].files
      PROVE  <<p, q>> \notin Overlap
  <2>1. m \in Lifecycles /\ m \in Active
    BY <1>1, OneRowFrame DEF Active
  <2>2. row.state = "active"
    BY <1>1, OneRowFrame DEF Active
  <2>3. CASE ~FindOverlap(row.files, {l})
    BY <1>1, <2>1, <2>3 DEF FindOverlap
  <2>4. CASE l \in Active /\ row.files = records[l].files
    BY <1>1, <2>1, <2>4 DEF SingleWriter
  <2> QED
    BY <2>2, <2>3, <2>4 DEF OneRow, Enters, Keeps, Leaves
<1>2. ASSUME NEW k \in Active', NEW m \in Active', k # m,
             NEW p \in records'[k].files, NEW q \in records'[m].files
      PROVE  <<p, q>> \notin Overlap
  <2>1. k \in Lifecycles /\ m \in Lifecycles
    BY DEF Active
  <2>2. CASE k = l
    BY <1>1, <1>2, <2>1, <2>2, OneRowFrame
  <2>3. CASE m = l
    <3>1. <<q, p>> \notin Overlap
      BY <1>1, <1>2, <2>1, <2>3, OneRowFrame
    <3>2. records[k] \in Row /\ p \in records[k].files /\ p \in Paths /\ q \in Paths
      <4>1. k \in Active /\ records'[k] = records[k] /\ records'[m] = row
        BY <1>2, <2>1, <2>3, OneRowFrame
      <4>2. records[k] \in Row
        BY <4>1, <2>1 DEF Active, InState, TypeOK
      <4> QED
        BY <4>1, <4>2, <1>2 DEF Row
    <3> QED
      BY <3>1, <3>2, OverlapSymmetric
  <2>4. CASE k # l /\ m # l
    <3>1. k \in Active /\ m \in Active
          /\ records'[k] = records[k] /\ records'[m] = records[m]
      BY <2>1, <2>4, <1>2, OneRowFrame
    <3> QED
      BY <3>1, <1>2 DEF SingleWriter
  <2> QED
    BY <2>2, <2>3, <2>4
<1> QED
  BY <1>2 DEF SingleWriter

LEMMA SingleWriterStep ==
    ASSUME TypeOK, SingleWriter, [Next]_vars
    PROVE  SingleWriter'
<1>1. CASE UNCHANGED records
  BY <1>1 DEF SingleWriter, Active, InState
<1> QED
  BY <1>1, SingleWriterOneRow, RecordStep

\* No two active records ever hold overlapping paths (INVARIANTS.md, I5).
THEOREM SingleWriterHolds == Spec => []SingleWriter
<1>1. Init => SingleWriter
  BY DEF Init, SingleWriter, Active, InState
<1>2. TypeOK /\ SingleWriter /\ [Next]_vars => SingleWriter'
  BY SingleWriterStep
<1> QED
  BY <1>1, <1>2, TypeCorrect, PTL DEF Spec

\* No two active records ever share a name (one_active_per_name).
THEOREM OneActivePerNameHolds == Spec => []OneActivePerName
<1>1. Init => OneActivePerName
  BY DEF Init, OneActivePerName, Active, InState
<1>2. TypeOK /\ OneActivePerName /\ [Next]_vars => OneActivePerName'
  <2> SUFFICES ASSUME TypeOK, OneActivePerName, [Next]_vars
               PROVE  OneActivePerName'
    OBVIOUS
  <2>1. CASE UNCHANGED records
    BY <2>1 DEF OneActivePerName, Active, InState
  <2>2. ASSUME NEW l \in Lifecycles, NEW row \in Row, OneRow(l, row)
        PROVE  OneActivePerName'
    <3>1. ASSUME NEW m \in Active', m # l, l \in Active'
          PROVE  records[m].name # row.name
      <4>1. m \in Active
        BY <2>2, <3>1, OneRowFrame DEF Active
      <4>2. row.state = "active"
        BY <2>2, <3>1, OneRowFrame DEF Active
      <4>3. CASE Enters(l, row)
        BY <4>1, <4>3 DEF Enters, ActiveNamed
      <4>4. CASE Keeps(l, row)
        BY <4>1, <4>4, <3>1 DEF Keeps, OneActivePerName
      <4> QED
        BY <2>2, <4>2, <4>3, <4>4 DEF OneRow, Leaves
    <3>2. ASSUME NEW k \in Active', NEW m \in Active',
                 records'[k].name = records'[m].name, k # m
          PROVE  FALSE
      <4>1. k \in Lifecycles /\ m \in Lifecycles
        BY DEF Active
      <4>2. CASE k = l
        BY <2>2, <3>1, <3>2, <4>1, <4>2, OneRowFrame
      <4>3. CASE m = l
        BY <2>2, <3>1, <3>2, <4>1, <4>3, OneRowFrame
      <4>4. CASE k # l /\ m # l
        BY <2>2, <3>2, <4>1, <4>4, OneRowFrame DEF OneActivePerName
      <4> QED
        BY <4>2, <4>3, <4>4
    <3> QED
      BY <3>2 DEF OneActivePerName
  <2> QED
    BY <2>1, <2>2, RecordStep
<1> QED
  BY <1>1, <1>2, TypeCorrect, PTL DEF Spec

\* A row that enters was counted with itself left out.
LEMMA PersistentCapOneRow ==
    ASSUME TypeOK, PersistentCap, NEW l \in Lifecycles, NEW row \in Row, OneRow(l, row)
    PROVE  PersistentCap'
<1> DEFINE before == ActivePersistent
           after == ActivePersistent'
<1>1. IsFiniteSet(before) /\ IsFiniteSet(before \ {l})
  BY FiniteLifecycles, FS_Subset DEF ActivePersistent, Active
<1>2. \A m \in Lifecycles \ {l} : m \in after <=> m \in before
  BY OneRowFrame DEF ActivePersistent
<1>3. l \in after <=> row.state = "active" /\ row.lifetime = "persistent"
  BY OneRowFrame DEF ActivePersistent
<1>4. before \subseteq Lifecycles /\ after \subseteq Lifecycles
  BY DEF ActivePersistent, Active
<1>5. Cardinality(before) <= MaxActivePersistent
  BY DEF PersistentCap
<1>6. CASE l \notin after
  <2>1. after \subseteq before
    BY <1>2, <1>4, <1>6
  <2>2. Cardinality(after) <= Cardinality(before)
    BY <2>1, <1>1, FS_Subset
  <2>3. IsFiniteSet(after)
    BY <2>1, <1>1, FS_Subset
  <2> HIDE DEF before, after
  <2>4. Cardinality(after) \in Nat /\ Cardinality(before) \in Nat
    BY <2>3, <1>1, FS_CardinalityType
  <2>5. Cardinality(after) <= MaxActivePersistent
    BY <2>2, <2>4, <1>5, CapIsNat
  <2> QED
    BY <2>5 DEF PersistentCap, after
<1>7. CASE l \in after /\ Enters(l, row)
  <2>1. after = (before \ {l}) \cup {l}
    BY <1>2, <1>4, <1>7
  <2>2. Cardinality(after) = Cardinality(before \ {l}) + 1
    BY <2>1, <1>1, FS_AddElement
  <2>3. Cardinality(before \ {l}) < MaxActivePersistent
    BY <1>3, <1>7 DEF Enters
  <2> HIDE DEF before, after
  <2>4. Cardinality(before \ {l}) \in Nat
    BY <1>1, FS_CardinalityType
  <2>5. Cardinality(after) <= MaxActivePersistent
    BY <2>2, <2>3, <2>4, CapIsNat
  <2> QED
    BY <2>5 DEF PersistentCap, after
<1>8. CASE l \in after /\ Keeps(l, row)
  <2>1. l \in before
    BY <1>3, <1>8 DEF Keeps, ActivePersistent
  <2>2. after = before
    BY <2>1, <1>2, <1>4, <1>8
  <2> QED
    BY <2>2, <1>5 DEF PersistentCap
<1> QED
  BY <1>3, <1>6, <1>7, <1>8 DEF OneRow, Leaves

\* Whatever the step, the cap stands.
LEMMA PersistentCapStep ==
    ASSUME TypeOK, PersistentCap, [Next]_vars
    PROVE  PersistentCap'
<1>1. CASE UNCHANGED records
  BY <1>1 DEF PersistentCap, ActivePersistent, Active, InState
<1> QED
  BY <1>1, PersistentCapOneRow, RecordStep

\* The active persistent records never exceed the cap, however they became
\* active: an entering row was counted with itself left out.
THEOREM PersistentCapHolds == Spec => []PersistentCap
<1>1. Init => PersistentCap
  <2> SUFFICES ASSUME Init
               PROVE  PersistentCap
    OBVIOUS
  <2>1. ActivePersistent = {}
    BY DEF Init, ActivePersistent, Active, InState
  <2> QED
    BY <2>1, FS_EmptySet, CapIsNat DEF PersistentCap
<1>2. TypeOK /\ PersistentCap /\ [Next]_vars => PersistentCap'
  BY PersistentCapStep
<1> QED
  BY <1>1, <1>2, TypeCorrect, PTL DEF Spec

-----------------------------------------------------------------------------
(* Optimistic concurrency *)

\* What a client holds is either what it held, nothing, or the current row.
LEMMA SeenStep ==
    ASSUME TypeOK, [Next]_vars, NEW c \in Clients, seen'[c] # Nothing
    PROVE  \/ seen'[c] = seen[c]
           \/ /\ UNCHANGED records
              /\ \E l \in Lifecycles :
                   /\ records[l] # Absent
                   /\ seen'[c] = [luid |-> l, row |-> records[l]]
<1>1. CASE Claim
  BY <1>1 DEF Claim, ClaimNew, Reclaim
<1>2. ASSUME NEW d \in Clients, Act(d)
      PROVE  \/ seen'[c] = seen[c]
             \/ /\ UNCHANGED records
                /\ \E l \in Lifecycles :
                     /\ records[l] # Absent
                     /\ seen'[c] = [luid |-> l, row |-> records[l]]
  <2>1. CASE \E l \in Lifecycles : Look(d, l)
    BY <2>1 DEF Look, TypeOK
  <2>2. CASE Move(d) \/ (\E k \in {0, 1} : Checkpoint(d, k)) \/ Decide(d) \/ Send(d)
    <3>1. ASSUME Move(d)
          PROVE  Finish(d)
      BY <3>1 DEF Move, Transition, Change
    <3>2. ASSUME NEW k \in {0, 1}, Checkpoint(d, k)
          PROVE  Finish(d)
      BY <3>2 DEF Checkpoint
    <3>3. ASSUME Decide(d) \/ Send(d)
          PROVE  Finish(d)
      BY <3>3 DEF Decide, Send
    <3>4. seen' = [seen EXCEPT ![d] = Nothing]
      BY <2>2, <3>1, <3>2, <3>3 DEF Finish
    <3> QED
      BY <3>4 DEF TypeOK
  <2> QED
    BY <1>2, <2>1, <2>2 DEF Act
<1>3. CASE \E h \in handovers : Acknowledge(h)
  BY <1>3 DEF Acknowledge
<1>4. CASE UNCHANGED vars
  BY <1>4 DEF vars
<1> QED
  BY <1>1, <1>2, <1>3, <1>4 DEF Next

\* The row old that somebody read of l is what l still is, or l has moved on
\* to a later version.
Remembers(l, old) ==
    /\ records[l] # Absent
    /\ records[l].version >= old.version
    /\ records[l].version = old.version => records[l] = old

\* Rewriting one row changes no row under an unchanged version.
LEMMA RemembersOneRow ==
    ASSUME TypeOK, NEW l \in Lifecycles, NEW row \in Row, OneRow(l, row),
           NEW k \in Lifecycles, NEW old \in Row, Remembers(k, old)
    PROVE  Remembers(k, old)'
<1>1. CASE k # l
  BY <1>1, OneRowFrame DEF Remembers
<1>2. CASE k = l
  <2>1. records'[k] = row /\ row # Absent
    BY <1>2, OneRowFrame, Sentinels
  <2>2. row.version = records[k].version + 1
    BY <1>2 DEF OneRow, NextVersion, Remembers
  <2>3. records[k].version \in Nat /\ old.version \in Nat
    BY DEF TypeOK, Row, Remembers
  <2> QED
    BY <2>1, <2>2, <2>3 DEF Remembers
<1> QED
  BY <1>1, <1>2

\* So it is with what the callers have read.
LEMMA VersionNamesRowOneRow ==
    ASSUME TypeOK, VersionNamesRow, NEW l \in Lifecycles, NEW row \in Row,
           OneRow(l, row), UNCHANGED seen
    PROVE  VersionNamesRow'
<1> SUFFICES ASSUME NEW c \in Clients, seen[c] # Nothing
             PROVE  LET now == records'[seen[c].luid] IN
                    /\ now # Absent
                    /\ now.version >= seen[c].row.version
                    /\ now.version = seen[c].row.version => now = seen[c].row
  BY DEF VersionNamesRow
<1> DEFINE k == seen[c].luid
           old == seen[c].row
<1>1. k \in Lifecycles /\ old \in Row /\ Remembers(k, old)
  BY DEF TypeOK, VersionNamesRow, Remembers
<1> HIDE DEF k, old
<1>2. /\ records'[k] # Absent
      /\ records'[k].version >= old.version
      /\ records'[k].version = old.version => records'[k] = old
  BY <1>1, RemembersOneRow DEF Remembers
<1> QED
  BY <1>2 DEF k, old

\* One step changes no row under an unchanged version.
LEMMA VersionNamesRowStep ==
    ASSUME TypeOK, VersionNamesRow, [Next]_vars
    PROVE  VersionNamesRow'
<1> SUFFICES ASSUME NEW c \in Clients, seen'[c] # Nothing
             PROVE  LET now == records'[seen'[c].luid] IN
                    /\ now # Absent
                    /\ now.version >= seen'[c].row.version
                    /\ now.version = seen'[c].row.version => now = seen'[c].row
  BY DEF VersionNamesRow
<1>1. CASE /\ UNCHANGED records
           /\ \E l \in Lifecycles :
                /\ records[l] # Absent
                /\ seen'[c] = [luid |-> l, row |-> records[l]]
  <2>1. PICK l \in Lifecycles :
          records[l] # Absent /\ seen'[c] = [luid |-> l, row |-> records[l]]
    BY <1>1
  <2>2. records[l] \in Row /\ records[l].version \in Nat
    BY <2>1 DEF TypeOK, Row
  <2> QED
    BY <1>1, <2>1, <2>2
<1>2. CASE seen'[c] = seen[c]
  <2> DEFINE k == seen[c].luid
             old == seen[c].row
  <2>1. /\ seen[c] # Nothing /\ k \in Lifecycles /\ old \in Row
        /\ seen'[c].luid = k /\ seen'[c].row = old
    BY <1>2 DEF TypeOK
  <2>2. /\ records[k] # Absent
        /\ records[k].version >= old.version
        /\ records[k].version = old.version => records[k] = old
    BY <2>1 DEF VersionNamesRow
  <2>3. CASE UNCHANGED records
    BY <2>1, <2>2, <2>3
  <2>4. ASSUME NEW l \in Lifecycles, NEW row \in Row, OneRow(l, row)
        PROVE  /\ records'[k] # Absent
               /\ records'[k].version >= old.version
               /\ records'[k].version = old.version => records'[k] = old
    <3>1. Remembers(k, old)
      BY <2>2 DEF Remembers
    <3> HIDE DEF k, old
    <3> QED
      BY <2>1, <2>4, <3>1, RemembersOneRow DEF Remembers
  <2> QED
    BY <2>1, <2>3, <2>4, RecordStep
<1> QED
  BY <1>1, <1>2, SeenStep

\* A version a caller still quotes correctly names exactly the row it read:
\* every rewrite of a row takes a larger version, and rows never disappear.
THEOREM VersionNamesRowHolds == Spec => []VersionNamesRow
<1>1. Init => VersionNamesRow
  BY DEF Init, VersionNamesRow
<1>2. TypeOK /\ VersionNamesRow /\ [Next]_vars => VersionNamesRow'
  BY VersionNamesRowStep
<1> QED
  BY <1>1, <1>2, TypeCorrect, PTL DEF Spec

-----------------------------------------------------------------------------
(* Handovers *)

\* What one step does to the handovers: nothing, one more text owed (its row
\* new, or already waiting), or one row acknowledged.
Posts(h) ==
    /\ h \in HandoverRow /\ ~h.delivered
    /\ owed' = owed \cup {TextOf(h)}
    /\ \/ Twin(h) /\ UNCHANGED handovers
       \/ ~Twin(h) /\ handovers' = handovers \cup {h}

Settles(h) ==
    /\ h \in Undelivered
    /\ owed' = owed \ {TextOf(h)}
    /\ handovers' = (handovers \ {h}) \cup {[h EXCEPT !.delivered = TRUE]}

\* A change with a heading posts the handover of the row it wrote: of the row
\* it found, but for the state, and the evidence of a completion.
LEMMA ChangePosts ==
    ASSUME TypeOK, NEW l \in Lifecycles, records[l] # Absent,
           NEW to \in States, NEW s \in SessionArgs,
           NEW evidence \in BOOLEAN, NEW live \in BOOLEAN,
           NEW heading \in HeadingArgs,
           Change(l, to, s, evidence, live, heading)
    PROVE  \/ heading = NoHeading /\ UNCHANGED <<handovers, owed>>
           \/ /\ heading # NoHeading
              /\ \E h \in HandoverRow :
                   /\ Posts(h)
                   /\ h.luid = l /\ h.heading = heading
                   /\ to # "complete" => h.payload = Payload(records[l])
<1> DEFINE row == [Bumped(records[l]) EXCEPT
                     !.state = to,
                     !.session = IF s = NoSession THEN @ ELSE s,
                     !.evidence = IF to = "complete" THEN evidence ELSE @]
<1>1. IF heading = NoHeading
      THEN UNCHANGED <<handovers, owed>>
      ELSE PostHandover(l, row, records[l].session, s, heading)
  BY DEF Change
<1>2. records[l] \in Row
  BY DEF TypeOK
<1>3. row \in Row
  BY <1>2, BumpedType DEF Row, SessionArgs
<1>4. CASE heading = NoHeading
  BY <1>1, <1>4
<1>5. CASE heading # NoHeading
  <2> DEFINE h == [luid |-> l, transition |-> row.version,
                   from |-> records[l].session, to |-> s,
                   payload |-> Payload(row), heading |-> heading,
                   delivered |-> FALSE]
  <2>1. row.version \in Nat /\ Payload(row) \in PayloadRow
        /\ records[l].session \in SessionArgs /\ heading \in Headings
    BY <1>2, <1>3, <1>5, PayloadType DEF Row, HeadingArgs
  <2>2. PostHandover(l, row, records[l].session, s, heading)
    BY <1>1, <1>5
  <2>3. to # "complete" => Payload(row) = Payload(records[l])
    BY <1>2 DEF Payload, Bumped, Row
  <2> HIDE DEF row
  <2>4. h \in HandoverRow /\ ~h.delivered
    BY <2>1 DEF HandoverRow
  <2>5. Posts(h)
    BY <2>2, <2>4 DEF PostHandover, Posts
  <2> QED
    BY <1>5, <2>3, <2>4, <2>5
<1> QED
  BY <1>4, <1>5

\* A transition is such a change.
LEMMA TransitionPosts ==
    ASSUME TypeOK, NEW c \in Clients, NEW to \in States, NEW s \in SessionArgs,
           NEW evidence \in BOOLEAN, NEW live \in BOOLEAN,
           NEW heading \in HeadingArgs,
           Transition(c, to, s, evidence, live, heading)
    PROVE  UNCHANGED <<handovers, owed>> \/ \E h \in HandoverRow : Posts(h)
<1>1. PICK l \in Lifecycles : records[l] # Absent /\ Change(l, to, s, evidence, live, heading)
  BY DEF Transition, FreshFor
<1> QED
  BY <1>1, ChangePosts

\* A step posts one handover, settles one, or leaves them alone.
LEMMA HandoverStep ==
    ASSUME TypeOK, [Next]_vars
    PROVE  \/ UNCHANGED <<handovers, owed>>
           \/ \E h \in HandoverRow : Posts(h) \/ Settles(h)
<1>1. CASE Claim
  BY <1>1 DEF Claim, ClaimNew, Reclaim
<1>2. ASSUME NEW d \in Clients, Act(d)
      PROVE  UNCHANGED <<handovers, owed>> \/ \E h \in HandoverRow : Posts(h)
  <2>1. CASE \E l \in Lifecycles : Look(d, l)
    BY <2>1 DEF Look
  <2>2. CASE Move(d)
    BY <2>2, TransitionPosts DEF Move
  <2>3. CASE \E k \in {0, 1} : Checkpoint(d, k)
    BY <2>3 DEF Checkpoint
  <2>4. CASE Decide(d)
    BY <2>4 DEF Decide
  <2>5. CASE Send(d)
    BY <2>5 DEF Send
  <2> QED
    BY <1>2, <2>1, <2>2, <2>3, <2>4, <2>5 DEF Act
<1>3. ASSUME NEW h \in handovers, Acknowledge(h)
      PROVE  h \in HandoverRow /\ Settles(h)
  BY <1>3 DEF Acknowledge, Settles, TypeOK
<1>4. CASE UNCHANGED vars
  BY <1>4 DEF vars
<1> QED
  BY <1>1, <1>2, <1>3, <1>4 DEF Next

\* The undelivered rows after a settlement are those before it but one.
LEMMA SettledUndelivered ==
    ASSUME NEW h \in HandoverRow, Settles(h)
    PROVE  Undelivered' = Undelivered \ {h}
BY DEF Settles, Undelivered, HandoverRow

\* The undelivered rows after a post are those before it, and its own unless
\* its text was waiting already.
LEMMA PostedUndelivered ==
    ASSUME NEW h \in HandoverRow, Posts(h)
    PROVE  Undelivered' = Undelivered \cup (IF Twin(h) THEN {} ELSE {h})
BY DEF Posts, Undelivered

\* A handover that is posted is waiting, and so is every other that was.
LEMMA NoLostHandoverPosts ==
    ASSUME NoLostHandover, NEW h \in HandoverRow, Posts(h)
    PROVE  NoLostHandover'
<1>1. TextOf(h) \in {TextOf(g) : g \in Undelivered'}
  BY PostedUndelivered DEF Twin
<1>2. Undelivered \subseteq Undelivered'
  BY PostedUndelivered
<1> QED
  BY <1>1, <1>2 DEF NoLostHandover, Posts, TextOf

\* One step loses no handover.
LEMMA NoLostHandoverStep ==
    ASSUME TypeOK, NoLostHandover, [Next]_vars
    PROVE  NoLostHandover'
<1>1. CASE UNCHANGED <<handovers, owed>>
  BY <1>1 DEF NoLostHandover, Undelivered
<1>2. ASSUME NEW h \in HandoverRow, Posts(h)
      PROVE  NoLostHandover'
  BY <1>2, NoLostHandoverPosts
<1>3. ASSUME NEW h \in HandoverRow, Settles(h)
      PROVE  NoLostHandover'
  <2>1. ASSUME NEW t \in owed'
        PROVE  t \in {TextOf(g) : g \in Undelivered'}
    <3>1. t \in owed /\ t # TextOf(h)
      BY <1>3, <2>1 DEF Settles
    <3>2. PICK g \in Undelivered : t = TextOf(g)
      BY <3>1 DEF NoLostHandover
    <3> QED
      BY <1>3, <3>1, <3>2, SettledUndelivered
  <2> QED
    BY <2>1 DEF NoLostHandover, TextOf
<1> QED
  BY <1>1, <1>2, <1>3, HandoverStep

\* Losslessness (INVARIANTS.md, I1): every handover asked for and not yet
\* acknowledged is waiting in the table under its own heading and payload.
THEOREM NoLostHandoverHolds == Spec => []NoLostHandover
<1>1. Init => NoLostHandover
  BY DEF Init, NoLostHandover
<1>2. TypeOK /\ NoLostHandover /\ [Next]_vars => NoLostHandover'
  BY NoLostHandoverStep
<1> QED
  BY <1>1, <1>2, TypeCorrect, PTL DEF Spec

\* Exactly once (INVARIANTS.md, I2): no text is waiting twice.
THEOREM UndeliveredOnceHolds == Spec => []UndeliveredOnce
<1>1. Init => UndeliveredOnce
  BY DEF Init, UndeliveredOnce, Undelivered
<1>2. TypeOK /\ UndeliveredOnce /\ [Next]_vars => UndeliveredOnce'
  <2> SUFFICES ASSUME TypeOK, UndeliveredOnce, [Next]_vars
               PROVE  UndeliveredOnce'
    OBVIOUS
  <2>1. CASE UNCHANGED <<handovers, owed>>
    BY <2>1 DEF UndeliveredOnce, Undelivered
  <2>2. ASSUME NEW h \in HandoverRow, Posts(h)
        PROVE  UndeliveredOnce'
    BY <2>2, PostedUndelivered DEF UndeliveredOnce, Twin, TextOf
  <2>3. ASSUME NEW h \in HandoverRow, Settles(h)
        PROVE  UndeliveredOnce'
    BY <2>3, SettledUndelivered DEF UndeliveredOnce, TextOf
  <2> QED
    BY <2>1, <2>2, <2>3, HandoverStep
<1> QED
  BY <1>1, <1>2, TypeCorrect, PTL DEF Spec

-----------------------------------------------------------------------------
(* Refinement of the lease table *)

Leases == [l \in Lifecycles |-> Lease(l)]

\* Rewriting one row changes at most that row's lease.
LEMMA LeaseFrame ==
    ASSUME TypeOK, NEW l \in Lifecycles, NEW row \in Row, OneRow(l, row)
    PROVE  /\ Leases' = [Leases EXCEPT ![l] = Lease(l)']
           /\ Active' = IF row.state = "active" THEN Active \cup {l}
                                                ELSE Active \ {l}
           /\ Lease(l)' = IF row.state = "active"
                          THEN [holder |-> row.session, fence |-> row.files]
                          ELSE Held!Vacant
<1>1. \A m \in Lifecycles : m # l => Lease(m)' = Lease(m)
  BY OneRowFrame DEF Lease
<1>2. Leases' = [Leases EXCEPT ![l] = Lease(l)']
  BY <1>1 DEF Leases
<1>3. Active' = IF row.state = "active" THEN Active \cup {l} ELSE Active \ {l}
  <2>1. Active' \subseteq Lifecycles /\ Active \subseteq Lifecycles
    BY DEF Active
  <2>2. \A m \in Lifecycles : m # l => (m \in Active' <=> m \in Active)
    BY OneRowFrame
  <2>3. l \in Active' <=> row.state = "active"
    BY OneRowFrame
  <2> QED
    BY <2>1, <2>2, <2>3
<1>4. Lease(l)' = IF row.state = "active"
                  THEN [holder |-> row.session, fence |-> row.files]
                  ELSE Held!Vacant
  BY OneRowFrame DEF Lease, Held!Vacant
<1> QED
  BY <1>2, <1>3, <1>4

\* A fence that overlaps no other active record's is clear in the lease table.
LEMMA ClearFence ==
    ASSUME NEW l \in Lifecycles, NEW F \in SUBSET Paths, ~FindOverlap(F, {l})
    PROVE  Held!Clear(l, F)
<1>1. Active \subseteq Lifecycles
  BY DEF Active
<1>2. \A m \in Active : Leases[m].fence = records[m].files
  BY <1>1 DEF Leases, Lease
<1> QED
  BY <1>1, <1>2 DEF FindOverlap, Held!Clear, Held!Disjoint, Leases

\* Rewriting one row is a step of the lease table, or none at all.
LEMMA LeaseOneRow ==
    ASSUME TypeOK, NEW l \in Lifecycles, NEW row \in Row, OneRow(l, row)
    PROVE  [Held!Next]_Held!vars
<1>1. row.session \in SessionArgs /\ row.files \in SUBSET Paths
  BY DEF Row
<1>2. CASE Enters(l, row)
  <2>1. Held!Clear(l, row.files)
    BY <1>1, <1>2, ClearFence DEF Enters
  <2>2. Held!Grant(l, row.session, row.files)
    BY <1>2, <2>1, LeaseFrame DEF Held!Grant, Enters, Leases
  <2> QED
    BY <1>1, <2>2 DEF Held!Next, SessionArgs
<1>3. CASE Keeps(l, row) /\ row.files = records[l].files
  <2>1. Lease(l)' = Lease(l) /\ Active' = Active
    BY <1>3, LeaseFrame DEF Lease, Keeps
  <2>2. Leases' = Leases
    BY <2>1, LeaseFrame DEF Leases
  <2> QED
    BY <2>1, <2>2 DEF Held!vars, Leases
<1>4. CASE Keeps(l, row) /\ row.files # records[l].files
  <2>1. row.session # NoSession /\ ~FindOverlap(row.files, {l})
    BY <1>4 DEF Keeps
  <2>2. Held!Clear(l, row.files)
    BY <1>1, <2>1, ClearFence
  <2>3. /\ Active' = Active /\ l \in Active
        /\ Lease(l) = [holder |-> row.session, fence |-> records[l].files]
        /\ Lease(l)' = [holder |-> row.session, fence |-> row.files]
    <3>1. l \in Active /\ row.state = "active" /\ row.session = records[l].session
      BY <1>4 DEF Keeps
    <3>2. Active' = Active \cup {l}
          /\ Lease(l)' = [holder |-> row.session, fence |-> row.files]
      BY <3>1, LeaseFrame
    <3>3. Active \cup {l} = Active
      BY <3>1
    <3>4. Lease(l) = [holder |-> row.session, fence |-> records[l].files]
      BY <3>1 DEF Lease
    <3> QED
      BY <3>1, <3>2, <3>3, <3>4
  <2>4. Leases' = [Leases EXCEPT ![l].fence = row.files]
    BY <2>3, LeaseFrame DEF Leases
  <2>5. Held!Redraw(l, row.files)
    BY <2>1, <2>2, <2>3, <2>4 DEF Held!Redraw, Leases
  <2> QED
    BY <1>1, <2>5 DEF Held!Next
<1>5. CASE Leaves(l, row) /\ l \in Active
  <2>1. Held!LetGo(l)
    BY <1>5, LeaseFrame DEF Held!LetGo, Leaves, Leases
  <2> QED
    BY <2>1 DEF Held!Next
<1>6. CASE Leaves(l, row) /\ l \notin Active
  <2>1. Active' = Active /\ Lease(l)' = Lease(l)
    BY <1>6, LeaseFrame DEF Lease, Leaves, Held!Vacant
  <2>2. Leases' = Leases
    BY <2>1, LeaseFrame DEF Leases
  <2> QED
    BY <2>1, <2>2 DEF Held!vars, Leases
<1> QED
  BY <1>2, <1>3, <1>4, <1>5, <1>6 DEF OneRow

\* So is every step of the registry.
LEMMA LeaseStep ==
    ASSUME TypeOK, [Next]_vars
    PROVE  [Held!Next]_Held!vars
<1>1. CASE UNCHANGED records
  BY <1>1 DEF Held!vars, Lease, Active, InState
<1> QED
  BY <1>1, LeaseOneRow, RecordStep

\* Every step of the registry is a step of the lease table, or none at all.
THEOREM FenceOwnershipRefined == Spec => ImplementsFenceOwnership
<1>1. Init => Held!Init
  BY DEF Init, Held!Init, Held!Vacant, Lease, Active, InState
<1>2. TypeOK /\ [Next]_vars => [Held!Next]_Held!vars
  BY LeaseStep
<1> QED
  BY <1>1, <1>2, TypeCorrect, PTL DEF Spec, ImplementsFenceOwnership, Held!Spec

-----------------------------------------------------------------------------
(* Action properties *)

\* A move that ends the activity of l is its holder's, or an adoption that
\* names the holder on the trail.
Rightful(l) ==
    LET holder == records[l].session IN
    holder # NoSession /\ records'[l].state # "active" =>
       \/ trail'[l].by = holder
       \/ records'[l].state = "adopted" /\ trail'[l].displaced = holder

\* A change ends the activity of a record under its guard only.
LEMMA ChangeRightful ==
    ASSUME TypeOK, NEW m \in Lifecycles, records[m] # Absent,
           NEW to \in States, NEW s \in SessionArgs,
           NEW evidence \in BOOLEAN, NEW live \in BOOLEAN,
           NEW heading \in HeadingArgs,
           Change(m, to, s, evidence, live, heading),
           NEW l \in Active
    PROVE  Rightful(l)
<1>0. l \in Lifecycles /\ records[l] \in Row /\ records[l].state = "active"
      /\ records[l] # Absent
  BY DEF Active, InState, TypeOK
<1> DEFINE row == [Bumped(records[m]) EXCEPT
                     !.state = to,
                     !.session = IF s = NoSession THEN @ ELSE s,
                     !.evidence = IF to = "complete" THEN evidence ELSE @]
<1>1. /\ MayMove(records[m], to, s, live)
      /\ Write(m, row)
      /\ trail' = [trail EXCEPT ![m] = MoveOf(records[m], to, s)]
  BY DEF Change
<1>2. CASE m # l
  BY <1>0, <1>1, <1>2 DEF Write, TypeOK, Rightful
<1>3. CASE m = l
  <2>1. Bumped(records[l]) \in Row
    BY <1>0, BumpedType
  <2>2. row.state = to
    BY <1>3, <2>1 DEF Row
  <2> HIDE DEF row
  <2>3. records'[l].state = to
    BY <1>0, <1>1, <1>3, <2>2 DEF Write, TypeOK
  <2>4. trail'[l] = MoveOf(records[l], to, s)
    BY <1>0, <1>1, <1>3 DEF TypeOK
  <2> QED
    BY <1>0, <1>1, <1>3, <2>3, <2>4 DEF MayMove, MoveOf, Rightful
<1> QED
  BY <1>2, <1>3

\* Only the transition of a record ends its activity, under its guard.
LEMMA RightfulStep ==
    ASSUME TypeOK, [Next]_vars, NEW l \in Active
    PROVE  Rightful(l)
<1> USE DEF Rightful
<1>0. l \in Lifecycles /\ records[l] \in Row /\ records[l].state = "active"
      /\ records[l] # Absent
  BY DEF Active, InState, TypeOK
<1>1. CASE records'[l].state = "active"
  BY <1>1
<1>2. CASE Claim
  <2>1. \E m \in Lifecycles, row \in Row :
           OneRow(m, row) /\ (Enters(m, row) \/ Keeps(m, row))
    BY <1>2, ClaimNewStep, ReclaimStep DEF Claim
  <2>2. PICK m \in Lifecycles, row \in Row :
           OneRow(m, row) /\ (Enters(m, row) \/ Keeps(m, row))
    BY <2>1
  <2>3. records'[l].state = "active"
    BY <1>0, <2>2, OneRowFrame DEF Enters, Keeps
  <2> QED
    BY <2>3
<1>3. ASSUME NEW c \in Clients, Move(c)
      PROVE  Rightful(l)
  <2>1. PICK to \in States, s \in SessionArgs, evidence \in BOOLEAN,
             live \in BOOLEAN, heading \in HeadingArgs :
               Transition(c, to, s, evidence, live, heading)
    BY <1>3 DEF Move
  <2>2. PICK m \in Lifecycles :
          records[m] # Absent /\ Change(m, to, s, evidence, live, heading)
    BY <2>1 DEF Transition, FreshFor
  <2> QED
    BY <2>2, ChangeRightful
<1>4. ASSUME NEW c \in Clients,
             (\E k \in {0, 1} : Checkpoint(c, k)) \/ Decide(c)
      PROVE  Rightful(l)
  <2>1. PICK m \in Lifecycles, new \in Row :
           /\ records[m] # Absent
           /\ SameLife(Bumped(records[m]), new)
           /\ Write(m, new)
    <3>1. CASE Decide(c)
      <4>1. PICK m \in Lifecycles :
              FreshFor(c, m)
              /\ Write(m, [Bumped(records[m]) EXCEPT !.decisions = @ + 1])
        BY <3>1 DEF Decide
      <4>2. Bumped(records[m]) \in Row /\ records[m] # Absent
        BY <4>1, BumpedType DEF FreshFor, TypeOK
      <4> QED
        BY <4>1, <4>2, AppendType
    <3>2. ASSUME NEW k \in {0, 1}, Checkpoint(c, k)
          PROVE  \E m \in Lifecycles, new \in Row :
                   /\ records[m] # Absent
                   /\ SameLife(Bumped(records[m]), new)
                   /\ Write(m, new)
      <4>1. PICK m \in Lifecycles :
              FreshFor(c, m)
              /\ Write(m, [Bumped(records[m]) EXCEPT !.digests = @ + 1,
                                                     !.decisions = @ + k])
        BY <3>2 DEF Checkpoint
      <4>2. Bumped(records[m]) \in Row /\ records[m] # Absent
        BY <4>1, BumpedType DEF FreshFor, TypeOK
      <4> QED
        BY <4>1, <4>2, AppendType
    <3> QED
      BY <1>4, <3>1, <3>2
  <2>2. records'[l].state = "active"
    BY <1>0, <2>1, BumpedType DEF Write, SameLife, TypeOK
  <2> QED
    BY <2>2
<1>5. ASSUME UNCHANGED records
      PROVE  Rightful(l)
  BY <1>0, <1>5
<1>6. CASE \E c \in Clients : Act(c)
  <2>1. PICK c \in Clients : Act(c)
    BY <1>6
  <2>2. ASSUME (\E m \in Lifecycles : Look(c, m)) \/ Send(c)
        PROVE  UNCHANGED records
    BY <2>2 DEF Look, Send
  <2> QED
    BY <1>3, <1>4, <1>5, <2>1, <2>2 DEF Act
<1>7. CASE (\E h \in handovers : Acknowledge(h)) \/ UNCHANGED vars
  BY <1>5, <1>7 DEF Acknowledge, vars
<1> QED
  BY <1>2, <1>6, <1>7 DEF Next

\* Nobody loses a live fence silently: only the transition of a record ends
\* its activity, and its guard lets the holder move it, or an adoption that
\* names the displaced session on the trail.
THEOREM NoSilentTakeoverHolds == Spec => NoSilentTakeover
<1>1. TypeOK /\ [Next]_vars => [\A l \in Active : Rightful(l)]_vars
  BY RightfulStep
<1> QED
  BY <1>1, TypeCorrect, PTL DEF Spec, NoSilentTakeover, Rightful

\* The command of c that changes a record had read it as it is.
ReadIsCurrent(c) ==
    seen[c] # Nothing /\ seen'[c] = Nothing /\ records' # records
      => records[seen[c].luid] = seen[c].row

\* Every operation that changes a row quotes its version, or is a claim.
LEMMA ReadIsCurrentStep ==
    ASSUME TypeOK, VersionNamesRow, [Next]_vars, NEW c \in Clients
    PROVE  ReadIsCurrent(c)
<1> SUFFICES ASSUME seen[c] # Nothing, seen'[c] = Nothing, records' # records
             PROVE  records[seen[c].luid] = seen[c].row
  BY DEF ReadIsCurrent
<1>1. ASSUME NEW d \in Clients, NEW l \in Lifecycles, FreshFor(d, l), Finish(d)
      PROVE  records[seen[c].luid] = seen[c].row
  <2>1. d = c
    BY <1>1 DEF Finish, TypeOK
  <2> QED
    BY <1>1, <2>1 DEF FreshFor, VersionNamesRow
<1>2. CASE Claim
  BY <1>2 DEF Claim, ClaimNew, Reclaim
<1>3. CASE \E d \in Clients : Act(d)
  <2>1. PICK d \in Clients : Act(d)
    BY <1>3
  <2>2. CASE (\E l \in Lifecycles : Look(d, l)) \/ Send(d)
    BY <2>2 DEF Look, Send
  <2>3. CASE Move(d)
    BY <1>1, <2>3 DEF Move, Transition, Change
  <2>4. CASE \E k \in {0, 1} : Checkpoint(d, k)
    BY <1>1, <2>4 DEF Checkpoint
  <2>5. CASE Decide(d)
    BY <1>1, <2>5 DEF Decide
  <2> QED
    BY <2>1, <2>2, <2>3, <2>4, <2>5 DEF Act
<1>4. CASE (\E h \in handovers : Acknowledge(h)) \/ UNCHANGED vars
  BY <1>4 DEF Acknowledge, vars
<1> QED
  BY <1>2, <1>3, <1>4 DEF Next

\* No lost update: only a command whose quoted version still matches changes
\* a record, and a matching version names the row its caller read.
THEOREM NoLostUpdateHolds == Spec => NoLostUpdate
<1>1. TypeOK /\ VersionNamesRow /\ [Next]_vars =>
        [\A c \in Clients : ReadIsCurrent(c)]_vars
  BY ReadIsCurrentStep
<1> QED
  BY <1>1, TypeCorrect, VersionNamesRowHolds, PTL
     DEF Spec, NoLostUpdate, ReadIsCurrent
=============================================================================
