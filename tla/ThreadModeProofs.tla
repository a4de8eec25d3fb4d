-------------------------- MODULE ThreadModeProofs --------------------------
(***************************************************************************)
(* Thread mode over the registry, for every number of commanders, clients  *)
(* and lifecycles: `off` leaves nobody behind and hands over what it parks *)
(* whatever the other commands do while it works, and the registry keeps   *)
(* its promises when `off` parks its records.                              *)
(*                                                                         *)
(* The argument.  Lemma ThreadStep sorts the steps: each is a step of the  *)
(* registry, or the drain of one candidate, which is a change of one row   *)
(* (RecordStoreProofs).  InHand is inductive: a row that changes takes a   *)
(* new version, so a candidate is the row as it is or one that will be     *)
(* refused, and a record leaves `off`'s hands only by being let go of or   *)
(* by a refusal, which is noted.                                           *)
(***************************************************************************)
EXTENDS ThreadMode, RecordStoreProofs

TTyped == TypeOK /\ TTypeOK

\* A command's state that is not Idle has the four fields.
LEMMA UnderwayFields ==
    ASSUME TTypeOK, NEW k \in Commanders, cmd[k] # Idle
    PROVE  /\ cmd[k] \in Underway
           /\ cmd[k].at \in Places
           /\ cmd[k].todo \subseteq Lifecycles
           /\ \A r \in cmd[k].candidates : r.luid \in Lifecycles /\ r.row \in Row
           /\ cmd[k].failed \in BOOLEAN
BY DEF TTypeOK, Underway

\* A commander's step is about his own command.
LEMMA BecomeOwn ==
    ASSUME TTypeOK, NEW k \in Commanders, NEW e \in Underway \cup {Idle}, Become(k, e)
    PROVE  /\ cmd' \in [Commanders -> Underway \cup {Idle}]
           /\ cmd'[k] = e
           /\ \A j \in Commanders : j # k => cmd'[j] = cmd[j]
BY DEF TTypeOK, Become

\* A command that waits at one place is well formed.
LEMMA WaitingType ==
    ASSUME NEW where \in Places
    PROVE  /\ Waiting(where) \in Underway
           /\ Waiting(where) # Idle
           /\ Waiting(where).at = where
           /\ Waiting(where).candidates = {}
<1>1. Waiting(where) \in Underway
  BY DEF Waiting, Underway
<1>2. Waiting(where).at = where /\ Waiting(where).candidates = {}
  BY DEF Waiting
<1> QED
  BY <1>1, <1>2, IdleIsNone

-----------------------------------------------------------------------------
(* What one step does to the registry *)

\* The drain under way, if the step is one.
Drains == \E k \in Commanders :
            At(k, "drain") /\ \E r \in cmd[k].candidates : Drain(k, r)

\* Every step is the registry's, or drains one candidate.
LEMMA ThreadStep ==
    ASSUME [TNext]_allvars
    PROVE  [Next]_vars \/ Drains
<1>1. ASSUME NEW k \in Commanders, Command(k)
      PROVE  [Next]_vars \/ Drains
  <2>1. CASE StartClaim(k)
    <3>1. PICK n \in Names, s \in SessionArgs, F \in FilesArgs, b \in Briefs :
            \/ ClaimNew(n, "persistent", s, F, b)
            \/ Reclaim(n, "persistent", s, F, b)
      BY <2>1 DEF StartClaim
    <3>2. Claim
      BY <3>1 DEF Claim, Lifetimes
    <3> QED
      BY <3>2 DEF Next
  <2>2. CASE OffDrain(k)
    BY <2>2 DEF OffDrain, DrainRefused, Drains
  <2> QED
    BY <1>1, <2>1, <2>2 DEF Command, OffStep, OnRead, OnWrite, StartRead, OffRead,
       OffFetch, OffFetched, OffIncomplete, OffWrite, Kill
<1>2. CASE Threads
  BY <1>2 DEF Threads, Next
<1>3. CASE \E k \in Commanders : OffList(k)
  BY <1>3 DEF OffList
<1>4. CASE UNCHANGED allvars
  BY <1>4 DEF allvars, vars
<1> QED
  BY <1>1, <1>2, <1>3, <1>4 DEF TNext

\* A drain is a change of one row, with the handover of that row; no caller
\* has read anything.
LEMMA DrainStep ==
    ASSUME TTyped, InHand, NEW k \in Commanders, At(k, "drain"),
           NEW r \in cmd[k].candidates, Drain(k, r)
    PROVE  /\ r.luid \in Lifecycles /\ records[r.luid] # Absent
           /\ records[r.luid] = r.row
           /\ Change(r.luid, "parked", r.row.session, FALSE, FALSE, DrainHeading)
           /\ r.row.session \in SessionArgs
           /\ \E row \in Row : OneRow(r.luid, row)
           /\ TypeOK'
           /\ UNCHANGED seen
           /\ \E h \in HandoverRow :
                /\ Posts(h)
                /\ TextOf(h) = [luid |-> r.luid, payload |-> Payload(r.row),
                                heading |-> DrainHeading]
<1>1. cmd[k] # Idle /\ r.luid \in Lifecycles /\ r.row \in Row
  BY UnderwayFields DEF At, TTyped
<1>2. records[r.luid] # Absent /\ records[r.luid] = r.row
  BY <1>1 DEF Drain, InHand
<1>3. Change(r.luid, "parked", r.row.session, FALSE, FALSE, DrainHeading) /\ UNCHANGED seen
  BY DEF Drain
<1>4. r.row.session \in SessionArgs /\ "parked" \in States
      /\ DrainHeading \in HeadingArgs /\ DrainHeading # NoHeading /\ FALSE \in BOOLEAN
  BY <1>1, DrainHeadingIsOne, Sentinels DEF Row, States, HeadingArgs
<1>5. \E row \in Row : OneRow(r.luid, row)
  BY <1>1, <1>2, <1>3, <1>4, ChangeStep DEF TTyped
<1>6. TypeOK'
  <2>1. /\ trail' \in [Lifecycles -> [by : SessionArgs, displaced : SessionArgs]]
        /\ handovers' \subseteq HandoverRow
        /\ owed' \subseteq Text
        /\ UNCHANGED directives
    BY <1>1, <1>2, <1>3, <1>4, ChangeTypes DEF TTyped
  <2>2. records' \in [Lifecycles -> Row \cup {Absent}]
    BY <1>1, <1>5 DEF OneRow, TTyped, TypeOK
  <2> QED
    BY <1>3, <2>1, <2>2 DEF TTyped, TypeOK
<1>7. \E h \in HandoverRow :
        /\ Posts(h)
        /\ h.luid = r.luid /\ h.heading = DrainHeading /\ h.payload = Payload(records[r.luid])
  <2>1. ASSUME NEW l \in Lifecycles, records[l] # Absent, NEW s \in SessionArgs,
               NEW no \in BOOLEAN, Change(l, "parked", s, no, no, DrainHeading)
        PROVE  \E h \in HandoverRow :
                 /\ Posts(h)
                 /\ h.luid = l /\ h.heading = DrainHeading
                 /\ h.payload = Payload(records[l])
    <3>1. "parked" \in States /\ "parked" # "complete" /\ TypeOK
      BY <1>4 DEF TTyped
    <3> QED
      BY <1>4, <2>1, <3>1, ChangePosts
  <2> QED
    BY <1>1, <1>2, <1>3, <1>4, <2>1
<1> QED
  BY <1>1, <1>2, <1>3, <1>4, <1>5, <1>6, <1>7 DEF TextOf

\* Whatever the step, the registry keeps its types, and changes at most one
\* row, under a new version.
LEMMA RegistryStep ==
    ASSUME TTyped, InHand, [TNext]_allvars
    PROVE  /\ TypeOK'
           /\ \/ UNCHANGED records
              \/ \E l \in Lifecycles, row \in Row : OneRow(l, row)
<1>1. CASE [Next]_vars
  BY <1>1, TypeStep, RecordStep DEF TTyped
<1>2. CASE Drains
  BY <1>2, DrainStep DEF Drains
<1> QED
  BY <1>1, <1>2, ThreadStep

-----------------------------------------------------------------------------
(* What a command has in hand *)

\* The part of InHand about one commander.
Grip(k) ==
    /\ held[k] \subseteq ActivePersistent
    /\ cmd[k] # Idle =>
         /\ \A r \in cmd[k].candidates :
              /\ r.luid \notin cmd[k].todo
              /\ \A q \in cmd[k].candidates : q.luid = r.luid => q = r
              /\ Remembers(r.luid, r.row)
         /\ cmd[k].at = "drain" => cmd[k].todo = {}
         /\ cmd[k].at \in {"fetch", "drain"} /\ ~cmd[k].failed =>
              held[k] \subseteq cmd[k].todo \cup {r.luid : r \in cmd[k].candidates}

\* InHand is the grip of every commander.
LEMMA InHandIsGrip == InHand <=> \A k \in Commanders : Grip(k)
BY DEF InHand, Grip, Remembers

\* What was remembered is remembered, whatever the step.
LEMMA StillRemembers ==
    ASSUME TTyped, InHand, [TNext]_allvars,
           NEW l \in Lifecycles, NEW old \in Row, Remembers(l, old)
    PROVE  Remembers(l, old)'
<1>1. CASE UNCHANGED records
  BY <1>1 DEF Remembers
<1> QED
  BY <1>1, RegistryStep, RemembersOneRow DEF TTyped

\* A command that a step leaves alone keeps its grip.
LEMMA OtherGrip ==
    ASSUME TTyped, InHand, [TNext]_allvars, NEW k \in Commanders,
           cmd'[k] = cmd[k], held'[k] \subseteq held[k] \cap ActivePersistent'
    PROVE  Grip(k)'
<1>1. Grip(k)
  BY InHandIsGrip
<1>2. ASSUME cmd[k] # Idle, NEW r \in cmd[k].candidates
      PROVE  Remembers(r.luid, r.row)'
  <2>1. r.luid \in Lifecycles /\ r.row \in Row /\ Remembers(r.luid, r.row)
    BY <1>1, <1>2, UnderwayFields DEF Grip, TTyped
  <2> QED
    BY <2>1, StillRemembers
<1> QED
  BY <1>1, <1>2 DEF Grip

\* A commander's new state has a grip when its candidates and its list do.
LEMMA OwnGrip ==
    ASSUME NEW k \in Commanders, NEW e \in Underway, cmd'[k] = e,
           held'[k] \subseteq ActivePersistent',
           \A r \in e.candidates :
              /\ r.luid \notin e.todo
              /\ \A q \in e.candidates : q.luid = r.luid => q = r
              /\ Remembers(r.luid, r.row)',
           e.at = "drain" => e.todo = {},
           e.at \in {"fetch", "drain"} /\ ~e.failed =>
              held'[k] \subseteq e.todo \cup {r.luid : r \in e.candidates}
    PROVE  Grip(k)'
BY DEF Grip

\* The history only shrinks, but when `off` lists.
LEMMA HeldStep ==
    ASSUME NEW h \in [Commanders -> SUBSET Lifecycles], StillHeld(h)
    PROVE  /\ held' \in [Commanders -> SUBSET Lifecycles]
           /\ \A k \in Commanders : held'[k] = h[k] \cap ActivePersistent'
<1>1. ActivePersistent' \subseteq Lifecycles
  BY DEF ActivePersistent, Active
<1> QED
  BY <1>1 DEF StillHeld

\* A fetch takes one record off the list, and an active one in hand.
LEMMA FetchGrip ==
    ASSUME TTyped, InHand, [TNext]_allvars, NEW k \in Commanders, OffFetch(k), StillHeld(held)
    PROVE  (\E e \in Underway : Become(k, e)) /\ Grip(k)'
<1>1. PICK l \in cmd[k].todo :
        Become(k, [cmd[k] EXCEPT
            !.todo = @ \ {l},
            !.candidates = IF l \in ActivePersistent
                           THEN @ \cup {[luid |-> l, row |-> records[l]]} ELSE @])
  BY DEF OffFetch
<1> DEFINE todo == cmd[k].todo \ {l}
           new == [luid |-> l, row |-> records[l]]
           found == IF l \in ActivePersistent
                    THEN cmd[k].candidates \cup {new} ELSE cmd[k].candidates
           e == [cmd[k] EXCEPT !.todo = todo, !.candidates = found]
<1>2. cmd[k] # Idle /\ cmd[k].at = "fetch" /\ UNCHANGED <<records, mode>> /\ l \in Lifecycles
  BY UnderwayFields DEF OffFetch, At, TTyped, vars
<1>3. cmd[k] \in Underway
  BY <1>2, UnderwayFields DEF TTyped
<1>4. l \in ActivePersistent =>
        records[l] # Absent /\ records[l] \in Row /\ records[l].version \in Nat
  BY DEF ActivePersistent, Active, InState, TTyped, TypeOK, Row
<1>5. /\ e \in Underway
      /\ e.at = cmd[k].at /\ e.todo = todo /\ e.candidates = found
      /\ e.failed = cmd[k].failed
  <2>1. todo \subseteq Lifecycles /\ found \subseteq [luid : Lifecycles, row : Row]
    BY <1>2, <1>3, <1>4 DEF Underway
  <2> HIDE DEF todo, found
  <2> QED
    BY <1>3, <2>1 DEF Underway
<1>6. Become(k, e)
  BY <1>1
<1>7. cmd'[k] = e
  BY <1>5, <1>6, BecomeOwn DEF TTyped
<1>8. Grip(k)
  BY InHandIsGrip
<1>9. held'[k] = held[k] \cap ActivePersistent'
  BY HeldStep DEF TTyped, TTypeOK
<1>10. ASSUME NEW r \in found
       PROVE  /\ r.luid \notin todo
              /\ \A q \in found : q.luid = r.luid => q = r
              /\ Remembers(r.luid, r.row)'
  <2>1. \A q \in cmd[k].candidates : q.luid # l /\ q.luid \notin todo
    BY <1>2, <1>8 DEF Grip
  <2>2. \A q \in found : q.luid = r.luid => q = r
    BY <1>2, <1>8, <2>1 DEF Grip
  <2>3. r.luid \notin todo
    BY <2>1
  <2>4. Remembers(r.luid, r.row)
    <3>1. CASE r \in cmd[k].candidates
      BY <1>2, <1>8, <3>1 DEF Grip
    <3>2. CASE r = new /\ l \in ActivePersistent
      BY <1>4, <3>2 DEF Remembers
    <3> QED
      BY <3>1, <3>2
  <2>5. Remembers(r.luid, r.row)'
    BY <1>2, <2>4 DEF Remembers
  <2> QED
    BY <2>2, <2>3, <2>5
<1>11. ~cmd[k].failed => held'[k] \subseteq todo \cup {r.luid : r \in found}
  <2> SUFFICES ASSUME ~cmd[k].failed, NEW m \in held'[k]
               PROVE  m \in todo \cup {r.luid : r \in found}
    OBVIOUS
  <2>1. m \in held[k] /\ m \in ActivePersistent
    BY <1>8, <1>9 DEF Grip
  <2>2. m \in cmd[k].todo \cup {r.luid : r \in cmd[k].candidates}
    BY <1>2, <1>8, <2>1 DEF Grip
  <2>3. CASE m = l
    <3>1. new \in found /\ new.luid = m
      BY <2>1, <2>3
    <3> QED
      BY <3>1
  <2>4. CASE m # l
    BY <2>2, <2>4
  <2> QED
    BY <2>3, <2>4
<1>12. e.todo = todo /\ e.candidates = found /\ e.at = "fetch" /\ held'[k] \subseteq ActivePersistent'
  BY <1>2, <1>5, <1>9
<1> HIDE DEF e, todo, found
<1> QED
  BY <1>5, <1>6, <1>7, <1>10, <1>11, <1>12, OwnGrip

\* A drained candidate is held no longer, and a refused one is a failure.
LEMMA DrainGrip ==
    ASSUME TTyped, InHand, [TNext]_allvars, NEW k \in Commanders, OffDrain(k), StillHeld(held)
    PROVE  (\E e \in Underway : Become(k, e)) /\ Grip(k)'
<1>1. cmd[k] # Idle /\ cmd[k].at = "drain" /\ cmd[k] \in Underway
  BY UnderwayFields DEF OffDrain, At, TTyped
<1>2. Grip(k) /\ cmd[k].todo = {}
  BY <1>1, InHandIsGrip DEF Grip
<1>3. held'[k] = held[k] \cap ActivePersistent'
  BY HeldStep DEF TTyped, TTypeOK
<1>4. ASSUME NEW r \in cmd[k].candidates, NEW failed \in BOOLEAN,
             NEW e \in Underway, Become(k, e),
             e.todo = {}, e.candidates = cmd[k].candidates \ {r}, e.failed = failed,
             ~failed => ~cmd[k].failed /\ r.luid \notin ActivePersistent'
      PROVE  (\E x \in Underway : Become(k, x)) /\ Grip(k)'
  <2>2. cmd'[k] = e
    BY <1>4, BecomeOwn DEF TTyped
  <2>3. ASSUME NEW q \in cmd[k].candidates
        PROVE  Remembers(q.luid, q.row)'
    BY <1>1, <1>2, <2>3, UnderwayFields, StillRemembers DEF Grip, TTyped
  <2>4. \A q \in e.candidates :
              /\ q.luid \notin e.todo
              /\ \A p \in e.candidates : p.luid = q.luid => p = q
              /\ Remembers(q.luid, q.row)'
    BY <1>1, <1>2, <1>4, <2>3 DEF Grip
  <2>5. ~e.failed => held'[k] \subseteq e.todo \cup {q.luid : q \in e.candidates}
    <3>1. ASSUME ~failed, NEW m \in held'[k]
          PROVE  \E q \in cmd[k].candidates \ {r} : m = q.luid
      <4>1. m \in {q.luid : q \in cmd[k].candidates} /\ m \in ActivePersistent'
        BY <1>1, <1>2, <1>3, <1>4, <3>1 DEF Grip
      <4> QED
        BY <1>4, <3>1, <4>1
    <3> QED
      BY <1>4, <3>1
  <2>6. held'[k] \subseteq ActivePersistent'
    BY <1>3
  <2> QED
    BY <1>4, <2>2, <2>4, <2>5, <2>6, OwnGrip
<1>5. ASSUME NEW r \in cmd[k].candidates, Drain(k, r)
      PROVE  (\E x \in Underway : Become(k, x)) /\ Grip(k)'
  <2> DEFINE e == [cmd[k] EXCEPT !.candidates = cmd[k].candidates \ {r}]
  <2>1. /\ Become(k, e)
        /\ e \in Underway /\ e.todo = {} /\ e.candidates = cmd[k].candidates \ {r}
        /\ e.failed = cmd[k].failed
    BY <1>1, <1>2, <1>5 DEF Underway, Drain
  <2>2. r.luid \notin ActivePersistent'
    <3>1. r.luid \in Lifecycles /\ records[r.luid] \in Row
      BY <1>1, <1>5, DrainStep DEF At, TTyped, TypeOK
    <3>2. Bumped(records[r.luid]) \in Row
      BY <3>1, BumpedType
    <3>3. records'[r.luid].state = "parked"
      BY <1>5, <3>1, <3>2 DEF Drain, Change, Write, TTyped, TypeOK, Row
    <3> QED
      BY <3>3 DEF ActivePersistent, Active, InState
  <2>3. cmd[k].failed \in BOOLEAN
    BY <1>1 DEF Underway
  <2> HIDE DEF e
  <2> QED
    BY <1>4, <2>1, <2>2, <2>3
<1>6. ASSUME NEW r \in cmd[k].candidates, DrainRefused(k, r)
      PROVE  (\E x \in Underway : Become(k, x)) /\ Grip(k)'
  <2> DEFINE e == [cmd[k] EXCEPT !.candidates = cmd[k].candidates \ {r}, !.failed = TRUE]
  <2>1. /\ Become(k, e)
        /\ e \in Underway /\ e.todo = {} /\ e.candidates = cmd[k].candidates \ {r}
        /\ e.failed = TRUE
    BY <1>1, <1>2, <1>6 DEF Underway, DrainRefused
  <2> HIDE DEF e
  <2> QED
    BY <1>4, <2>1
<1> QED
  BY <1>5, <1>6 DEF OffDrain

\* Whatever a commander does, he keeps his grip.
LEMMA CommandGrip ==
    ASSUME TTyped, InHand, [TNext]_allvars, NEW k \in Commanders, Command(k), StillHeld(held)
    PROVE  /\ mode' \in {"on", "off"}
           /\ \E e \in Underway \cup {Idle} : Become(k, e)
           /\ Grip(k)'
<1>1. held'[k] = held[k] \cap ActivePersistent'
  BY HeldStep DEF TTyped, TTypeOK
<1>2. mode' \in {"on", "off"}
  BY DEF Command, OffStep, OnRead, OnWrite, StartRead, StartClaim, OffRead, OffFetch,
     OffFetched, OffDrain, Drain, DrainRefused, OffIncomplete, OffWrite, Kill,
     TTyped, TTypeOK
<1>3. CASE Exit(k)
  <2>1. cmd'[k] = Idle /\ Become(k, Idle)
    BY <1>3, BecomeOwn DEF Exit, TTyped
  <2> QED
    BY <1>1, <1>2, <2>1 DEF Grip
<1>4. ASSUME NEW where \in {"turn on", "claim", "list"}, Become(k, Waiting(where))
      PROVE  (\E e \in Underway : Become(k, e)) /\ Grip(k)'
  <2>1. Waiting(where) \in Underway /\ Waiting(where).at = where
        /\ Waiting(where).candidates = {}
    BY WaitingType DEF Places
  <2>2. cmd'[k] = Waiting(where)
    BY <1>4, <2>1, BecomeOwn DEF TTyped
  <2> QED
    BY <1>1, <1>4, <2>1, <2>2, OwnGrip
<1>5. CASE OffFetch(k) \/ OffDrain(k)
  BY <1>2, <1>5, FetchGrip, DrainGrip
<1>6. CASE OffFetched(k)
  <2> DEFINE e == [cmd[k] EXCEPT !.at = "drain"]
  <2>1. cmd[k] # Idle /\ cmd[k].at = "fetch" /\ cmd[k].todo = {} /\ UNCHANGED records
        /\ Become(k, e)
    BY <1>6 DEF OffFetched, At, vars
  <2>2. cmd[k] \in Underway
    BY <2>1, UnderwayFields DEF TTyped
  <2>3. e \in Underway /\ e.at = "drain" /\ e.todo = {} /\ e.candidates = cmd[k].candidates
        /\ e.failed = cmd[k].failed
    BY <2>1, <2>2 DEF Underway, Places
  <2>4. cmd'[k] = e
    BY <2>1, <2>3, BecomeOwn DEF TTyped
  <2>5. Grip(k)
    BY InHandIsGrip
  <2> HIDE DEF e
  <2>6. Grip(k)'
    BY <1>1, <2>1, <2>3, <2>4, <2>5 DEF Grip, Remembers
  <2> QED
    BY <1>2, <2>1, <2>3, <2>6
<1> QED
  BY <1>2, <1>3, <1>4, <1>5, <1>6 DEF Command, OffStep, OnRead, OnWrite, StartRead,
     StartClaim, OffRead, OffIncomplete, OffWrite, Kill

\* When `off` lists the records, all that are active are on the list.
LEMMA ListGrip ==
    ASSUME TTyped, InHand, [TNext]_allvars, NEW k \in Commanders, OffList(k),
           StillHeld(Watch(k))
    PROVE  /\ \E e \in Underway : Become(k, e)
           /\ Grip(k)'
           /\ held' \in [Commanders -> SUBSET Lifecycles]
           /\ \A j \in Commanders : j # k => held'[j] = held[j] \cap ActivePersistent'
<1> DEFINE todo == {l \in Lifecycles : records[l] # Absent}
           e == [Waiting("fetch") EXCEPT !.todo = todo]
<1>1. UNCHANGED records /\ Become(k, e)
  BY DEF OffList, vars
<1>2. /\ e \in Underway
      /\ e.at = "fetch" /\ e.todo = todo /\ e.candidates = {}
  BY DEF Waiting, Underway, Places
<1>3. cmd'[k] = e
  BY <1>1, <1>2, BecomeOwn DEF TTyped
<1>4. ActivePersistent' = ActivePersistent /\ ActivePersistent \subseteq todo
  BY <1>1 DEF ActivePersistent, Active, InState
<1>5. Watch(k) \in [Commanders -> SUBSET Lifecycles]
      /\ Watch(k)[k] = ActivePersistent
      /\ \A j \in Commanders : j # k => Watch(k)[j] = held[j]
  BY DEF Watch, TTyped, TTypeOK, ActivePersistent, Active
<1>6. /\ held' \in [Commanders -> SUBSET Lifecycles]
      /\ held'[k] = ActivePersistent'
      /\ \A j \in Commanders : j # k => held'[j] = held[j] \cap ActivePersistent'
  BY <1>4, <1>5, HeldStep
<1>7. Grip(k)'
  BY <1>2, <1>3, <1>4, <1>6, OwnGrip
<1> QED
  BY <1>1, <1>2, <1>6, <1>7

\* One step keeps the commands typed and their grip.
LEMMA InHandStep ==
    ASSUME TTyped, InHand, [TNext]_allvars
    PROVE  TTypeOK' /\ InHand'
<1>1. ASSUME NEW k \in Commanders, NEW e \in Underway \cup {Idle}, Become(k, e), Grip(k)',
             mode' \in {"on", "off"}, held' \in [Commanders -> SUBSET Lifecycles],
             \A j \in Commanders : j # k => held'[j] = held[j] \cap ActivePersistent'
      PROVE  TTypeOK' /\ InHand'
  <2>1. cmd' \in [Commanders -> Underway \cup {Idle}]
        /\ \A j \in Commanders : j # k => cmd'[j] = cmd[j]
    BY <1>1, BecomeOwn DEF TTyped
  <2>2. \A j \in Commanders : Grip(j)'
    BY <1>1, <2>1, OtherGrip
  <2>3. TTypeOK'
    BY <1>1, <2>1 DEF TTypeOK
  <2>4. InHand'
    BY <2>2 DEF InHand, Grip, Remembers
  <2> QED
    BY <2>3, <2>4
<1>2. ASSUME NEW k \in Commanders, OffList(k), StillHeld(Watch(k))
      PROVE  TTypeOK' /\ InHand'
  <2>1. mode' \in {"on", "off"}
    BY <1>2 DEF OffList, TTyped, TTypeOK
  <2> QED
    BY <1>1, <1>2, <2>1, ListGrip
<1>3. ASSUME NEW k \in Commanders, Command(k), StillHeld(held)
      PROVE  TTypeOK' /\ InHand'
  <2>1. /\ held' \in [Commanders -> SUBSET Lifecycles]
        /\ \A j \in Commanders : held'[j] = held[j] \cap ActivePersistent'
    BY <1>3, HeldStep DEF TTyped, TTypeOK
  <2> QED
    BY <1>1, <1>3, <2>1, CommandGrip
<1>4. ASSUME UNCHANGED <<mode, cmd>>, held' \in [Commanders -> SUBSET Lifecycles],
             \A j \in Commanders : held'[j] \subseteq held[j] \cap ActivePersistent'
      PROVE  TTypeOK' /\ InHand'
  <2>1. \A j \in Commanders : Grip(j)'
    BY <1>4, OtherGrip
  <2>2. InHand'
    BY <2>1 DEF InHand, Grip, Remembers
  <2> QED
    BY <1>4, <2>2 DEF TTypeOK, TTyped
<1>5. CASE Threads /\ StillHeld(held)
  <2>1. /\ held' \in [Commanders -> SUBSET Lifecycles]
        /\ \A j \in Commanders : held'[j] = held[j] \cap ActivePersistent'
    BY <1>5, HeldStep DEF TTyped, TTypeOK
  <2> QED
    BY <1>4, <1>5, <2>1 DEF Threads
<1>6. CASE UNCHANGED allvars
  <2>1. ActivePersistent' = ActivePersistent /\ UNCHANGED <<mode, cmd, held>>
    BY <1>6 DEF allvars, vars, tvars, ActivePersistent, Active, InState
  <2> QED
    BY <1>4, <2>1 DEF InHand, TTyped, TTypeOK
<1> QED
  BY <1>2, <1>3, <1>5, <1>6 DEF TNext

TInvariant == TTyped /\ InHand

\* The registry, the mode file and the commands keep their types, and what an
\* `off` under way has in hand covers every record it must still let go of,
\* each either as the store has it or refused (cmd_off).
THEOREM ThreadModeTypeCorrect == TSpec => [](TypeOK /\ TTypeOK /\ InHand)
<1>1. TInit => TInvariant
  <2> SUFFICES ASSUME TInit PROVE TInvariant
    OBVIOUS
  <2>1. TypeOK
    BY DEF TInit, Init, TypeOK, NoMove, SessionArgs
  <2>2. TTypeOK
    BY DEF TInit, TTypeOK
  <2>3. InHand
    BY DEF TInit, InHand
  <2> QED
    BY <2>1, <2>2, <2>3 DEF TInvariant, TTyped
<1>2. TInvariant /\ [TNext]_allvars => TInvariant'
  BY RegistryStep, InHandStep DEF TInvariant, TTyped
<1> QED
  BY <1>1, <1>2, PTL DEF TSpec, TInvariant, TTyped

-----------------------------------------------------------------------------
(* What `off` promises *)

\* A command that ends while draining, and turns the mode over, had nobody left.
NobodyLeft(k) == At(k, "drain") /\ cmd'[k] = Idle /\ mode' # mode => held[k] = {}

\* Only the writing of the mode file is such a step.
LEMMA NobodyLeftStep ==
    ASSUME TTyped, InHand, [TNext]_allvars, NEW k \in Commanders
    PROVE  NobodyLeft(k)
<1> SUFFICES ASSUME At(k, "drain"), cmd'[k] = Idle, mode' # mode
             PROVE  held[k] = {}
  BY DEF NobodyLeft
<1>1. PICK j \in Commanders : Command(j)
  BY DEF TNext, OffList, Threads, allvars, tvars
<1>2. OnWrite(j) \/ OffWrite(j)
  BY <1>1 DEF Command, OffStep, OnRead, StartRead, StartClaim, OffRead, OffFetch,
     OffFetched, OffDrain, Drain, DrainRefused, OffIncomplete, Kill
<1>3. j = k
  <2>1. Become(j, Idle) /\ cmd[k] # Idle
    BY <1>2 DEF OnWrite, OffWrite, Exit, At
  <2> QED
    BY <2>1, BecomeOwn DEF TTyped
<1>4. OffWrite(k)
  BY <1>2, <1>3 DEF OnWrite, At
<1>5. Grip(k)
  BY InHandIsGrip
<1> QED
  BY <1>4, <1>5 DEF OffWrite, At, Grip

\* `off` turns the mode off only when every record that was active when it
\* listed them has been let go at some moment since, whatever checkpoints,
\* claims and kills came between its steps (bm_threads.cmd_off).
THEOREM OffLeavesNobodyBehindHolds == TSpec => OffLeavesNobodyBehind
<1>1. TTyped /\ InHand /\ [TNext]_allvars => [\A k \in Commanders : NobodyLeft(k)]_allvars
  BY NobodyLeftStep
<1> QED
  BY <1>1, ThreadModeTypeCorrect, PTL
     DEF TSpec, TTyped, OffLeavesNobodyBehind, NobodyLeft

\* The text that parking the candidate r hands over.
Drained(r) == [luid |-> r.luid, payload |-> Payload(r.row), heading |-> DrainHeading]

HandedOver(k) ==
    \A r \in IF At(k, "drain") THEN cmd[k].candidates ELSE {} :
       cmd'[k] # cmd[k] /\ records'[r.luid] # records[r.luid] =>
          \E h \in Undelivered' : TextOf(h) = Drained(r)

\* Of a draining command's steps only a drain changes a record, and only one.
LEMMA HandedOverStep ==
    ASSUME TTyped, InHand, [TNext]_allvars, NEW k \in Commanders
    PROVE  HandedOver(k)
<1> SUFFICES ASSUME At(k, "drain"), NEW r \in cmd[k].candidates,
                    cmd'[k] # cmd[k], records'[r.luid] # records[r.luid]
             PROVE  \E h \in Undelivered' : TextOf(h) = Drained(r)
  BY DEF HandedOver
<1>1. cmd[k] # Idle /\ cmd[k].at = "drain" /\ cmd[k] \in Underway
  BY UnderwayFields DEF At, TTyped
<1>2. Command(k)
  <2>1. ASSUME NEW j \in Commanders, NEW e \in Underway \cup {Idle}, Become(j, e)
        PROVE  j = k
    BY <2>1, BecomeOwn DEF TTyped
  <2>2. ASSUME NEW j \in Commanders, Command(j), StillHeld(held)
        PROVE  j = k
    BY <2>1, <2>2, CommandGrip
  <2>3. ~\E j \in Commanders : OffList(j)
    BY DEF OffList, vars
  <2> QED
    BY <2>2, <2>3 DEF TNext, Threads, allvars, tvars
<1>3. PICK q \in cmd[k].candidates : Drain(k, q)
  BY <1>1, <1>2 DEF Command, OffStep, OnRead, OnWrite, StartRead, StartClaim, OffRead,
     OffFetch, OffFetched, OffDrain, DrainRefused, OffIncomplete, OffWrite, Kill, At, vars
<1>4. /\ \E row \in Row : OneRow(q.luid, row)
      /\ \E h \in HandoverRow : Posts(h) /\ TextOf(h) = Drained(q)
  BY <1>3, DrainStep DEF Drained
<1>5. q = r
  <2>1. q.luid = r.luid
    BY <1>4 DEF OneRow, TTyped, TypeOK
  <2> QED
    BY <1>1, <2>1 DEF InHand
<1>6. PICK h \in HandoverRow : Posts(h) /\ TextOf(h) = Drained(r)
  BY <1>4, <1>5
<1> QED
  BY <1>6, PostedUndelivered DEF Twin

\* What `off` parks, it hands over in the very same step, as the row it
\* fetched: the version it quotes makes the fetched row the one parked.
THEOREM DrainHandsOverHolds == TSpec => DrainHandsOver
<1>1. TTyped /\ InHand /\ [TNext]_allvars => [\A k \in Commanders : HandedOver(k)]_allvars
  BY HandedOverStep
<1> QED
  BY <1>1, ThreadModeTypeCorrect, PTL
     DEF TSpec, TTyped, DrainHandsOver, HandedOver, Drained

-----------------------------------------------------------------------------
(* What the registry promises, with `off` parking its records *)

\* No two active records hold overlapping paths, the cap stands and no
\* handover is lost, also when `off` parks records under versions it fetched
\* (INVARIANTS.md, I1 and I5).
THEOREM RegistryStandsUnderThreads ==
    TSpec => [](SingleWriter /\ PersistentCap /\ NoLostHandover)
<1> DEFINE Stands == SingleWriter /\ PersistentCap /\ NoLostHandover
<1>1. TInit => Stands
  <2> SUFFICES ASSUME TInit PROVE Stands
    OBVIOUS
  <2>1. Active = {} /\ ActivePersistent = {} /\ owed = {}
    BY DEF TInit, Init, ActivePersistent, Active, InState
  <2> QED
    BY <2>1, FS_EmptySet, CapIsNat DEF SingleWriter, PersistentCap, NoLostHandover
<1>2. TTyped /\ InHand /\ Stands /\ [TNext]_allvars => Stands'
  <2> SUFFICES ASSUME TTyped, InHand, Stands, [TNext]_allvars PROVE Stands'
    OBVIOUS
  <2>1. CASE [Next]_vars
    BY <2>1, SingleWriterStep, PersistentCapStep, NoLostHandoverStep DEF TTyped
  <2>2. CASE Drains
    <3>0. PICK k \in Commanders : At(k, "drain") /\ \E r \in cmd[k].candidates : Drain(k, r)
      BY <2>2 DEF Drains
    <3>1. PICK r \in cmd[k].candidates : Drain(k, r)
      BY <3>0
    <3>2. PICK row \in Row : OneRow(r.luid, row)
      BY <3>0, <3>1, DrainStep
    <3>3. r.luid \in Lifecycles /\ \E h \in HandoverRow : Posts(h)
      BY <3>0, <3>1, DrainStep
    <3>4. NoLostHandover'
      BY <3>3, NoLostHandoverPosts
    <3> QED
      BY <3>2, <3>3, <3>4, SingleWriterOneRow, PersistentCapOneRow DEF TTyped
  <2> QED
    BY <2>1, <2>2, ThreadStep
<1> QED
  BY <1>1, <1>2, ThreadModeTypeCorrect, PTL DEF TSpec, TTyped

\* With `off` too the registry implements the lease table: a drained record
\* lets its fence go.
THEOREM ThreadsFenceOwnershipRefined == TSpec => ImplementsFenceOwnership
<1>1. TInit => Held!Init
  BY DEF TInit, Init, Held!Init, Held!Vacant, Lease, Active, InState
<1>2. TTyped /\ InHand /\ [TNext]_allvars => [Held!Next]_Held!vars
  BY ThreadStep, LeaseStep, LeaseOneRow, DrainStep DEF TTyped, Drains
<1> QED
  BY <1>1, <1>2, ThreadModeTypeCorrect, PTL
     DEF TSpec, TTyped, ImplementsFenceOwnership, Held!Spec

\* `off` parks a record in its holder's name, so nobody loses a live fence to
\* it silently, and a caller who quotes a version still acts on what he read.
THEOREM RegistryStepsStandUnderThreads == TSpec => NoLostUpdate /\ NoSilentTakeover
<1>1. TInit => VersionNamesRow
  BY DEF TInit, Init, VersionNamesRow
<1>2. TTyped /\ InHand /\ VersionNamesRow /\ [TNext]_allvars => VersionNamesRow'
  BY ThreadStep, VersionNamesRowStep, VersionNamesRowOneRow, DrainStep DEF TTyped, Drains
<1>3. TTyped /\ InHand /\ VersionNamesRow /\ [TNext]_allvars =>
        [\A c \in Clients : ReadIsCurrent(c)]_vars
  <2> SUFFICES ASSUME TTyped, InHand, VersionNamesRow, [TNext]_allvars, NEW c \in Clients
               PROVE  ReadIsCurrent(c)
    OBVIOUS
  <2>1. CASE Drains
    BY <2>1, DrainStep DEF Drains, ReadIsCurrent
  <2> QED
    BY <2>1, ThreadStep, ReadIsCurrentStep DEF TTyped
<1>4. TTyped /\ InHand /\ [TNext]_allvars => [\A l \in Active : Rightful(l)]_vars
  <2> SUFFICES ASSUME TTyped, InHand, [TNext]_allvars, NEW l \in Active
               PROVE  Rightful(l)
    OBVIOUS
  <2>1. ASSUME NEW k \in Commanders, At(k, "drain"), NEW r \in cmd[k].candidates, Drain(k, r)
        PROVE  Rightful(l)
    <3>1. "parked" \in States /\ DrainHeading \in HeadingArgs /\ FALSE \in BOOLEAN
      BY DrainHeadingIsOne DEF States, HeadingArgs
    <3> QED
      BY <2>1, <3>1, DrainStep, ChangeRightful DEF TTyped
  <2> QED
    BY <2>1, ThreadStep, RightfulStep DEF TTyped, Drains
<1>5. TSpec => []VersionNamesRow
  BY <1>1, <1>2, ThreadModeTypeCorrect, PTL DEF TSpec, TTyped
<1>6. TSpec => NoLostUpdate
  BY <1>3, <1>5, ThreadModeTypeCorrect, PTL DEF TSpec, TTyped, NoLostUpdate, ReadIsCurrent
<1>7. TSpec => NoSilentTakeover
  BY <1>4, ThreadModeTypeCorrect, PTL DEF TSpec, TTyped, NoSilentTakeover, Rightful
<1> QED
  BY <1>6, <1>7
=============================================================================
