---------------------------- MODULE ConsentProofs ----------------------------
(***************************************************************************)
(* Proofs about what a founder consents to: the learned rules and what     *)
(* his answers pay for (Learning), what the index over the rules answers   *)
(* (RuleIndex), and the contract, the meter and the gate (Autonomy), for   *)
(* every set of rules, meters, mandates and requests.                      *)
(*                                                                         *)
(* The argument for the rules.  Commands read first and write later, so    *)
(* the invariants say what of the earlier reading is still true.  A        *)
(* query's reading lies between what was current when it began and what is *)
(* current now (Between), and an index that agreed with it stays good      *)
(* until another process fills it (MatchedRows).  A command's question is  *)
(* the one that its receipt answers (CallsQuote); the half that writes     *)
(* compares the rule again, and spends the receipt with the change.        *)
(*                                                                         *)
(* The argument for the contract.  A revision is appended and never        *)
(* altered, so whatever is true of one stays true of it; a revision that   *)
(* is live or paused rests on the newest signature, and pausing and        *)
(* resuming copy what was signed.  A check holds the number of a revision  *)
(* that was live and covers what it asks.  The sums of a meter only grow,  *)
(* so a line once crossed stays crossed until something is signed.         *)
(***************************************************************************)
EXTENDS Learning, RuleIndex, Autonomy, TLAPS

-----------------------------------------------------------------------------
(* The index *)

\* What a query has read lies between what was current when it began and
\* what is current now.
Between == \A p \in Openers : \A r \in Indexed :
    /\ proc[p].since[r] <= current[r]
    /\ proc[p].at = "comparing" =>
         proc[p].since[r] <= proc[p].want[r] /\ proc[p].want[r] <= current[r]

\* CurrentRows, of any query, rules and index.
RowsCurrent(since, now, rows) == \A r \in Indexed :
    LET found == {v \in 1 .. MaxRuleVersion : rows[<<r, v>>] > 0}
    IN  /\ found \subseteq since[r] .. now[r]
        /\ since[r] > 0 => found # {}

\* A query that has compared the index with the rules may be answered from
\* it until another process fills it.
MatchedRows == \A p \in Openers :
    proc[p].at = "matching" /\ ~proc[p].others /\ index # NoTable =>
        RowsCurrent(proc[p].since, current, index)

\* A filling that no other process has disturbed: what it has put in and what
\* it has yet to put in is of the versions that its query may find, and once
\* it has read the rules it has a row of each in one or the other.
FilledBy(e, now, rows) ==
    /\ e.at = "inserting" => \A x \in e.todo : e.since[x[1]] <= x[2] /\ x[2] <= now[x[1]]
    /\ e.at \in {"reading", "inserting"} /\ ~e.others /\ rows # NoTable =>
         \A r \in Indexed : \A v \in 1 .. MaxRuleVersion :
           rows[<<r, v>>] > 0 => e.since[r] <= v /\ v <= now[r]
    /\ e.at = "inserting" /\ ~e.others /\ rows # NoTable =>
         \A r \in Indexed : e.since[r] > 0 =>
           \E v \in 1 .. MaxRuleVersion : rows[<<r, v>>] > 0 \/ <<r, v>> \in e.todo

Filled == \A p \in Openers : FilledBy(proc[p], current, index)

XInv == XTypeOK /\ Between /\ MatchedRows /\ Filled

\* A process that rests remembers nothing.
LEMMA RestingFits ==
    ASSUME NEW on \in BOOLEAN, NEW ready \in BOOLEAN
    PROVE  /\ Resting(on, ready) \in Process
           /\ Resting(on, ready).at = "idle"
           /\ \A r \in Indexed : Resting(on, ready).since[r] = 0
BY VersionsBounded DEF Resting, Process, Versions

\* A step that neither writes nor answers.
LEMMA QuietStep ==
    ASSUME XInv, NEW p \in Openers, NEW e \in Process, Goes(p, e),
           UNCHANGED <<current, index>>,
           e.at \notin {"comparing", "matching"},
           e.at \in {"reading", "inserting"} => FilledBy(e, current, index),
           \A r \in Indexed : e.since[r] <= current[r]
    PROVE  XInv'
<1>0. FilledBy(e, current, index)
  BY DEF FilledBy
<1>1. \A q \in Openers : q # p => proc'[q] = proc[q]
  BY DEF XInv, XTypeOK, Goes
<1>2. proc'[p] = e /\ proc' \in [Openers -> Process]
  BY DEF XInv, XTypeOK, Goes
<1>3. XTypeOK'
  BY <1>2 DEF XInv, XTypeOK
<1>4. Between'
  BY <1>1, <1>2 DEF XInv, Between
<1>5. MatchedRows'
  BY <1>1, <1>2 DEF XInv, MatchedRows
<1>6. Filled'
  BY <1>0, <1>1, <1>2 DEF XInv, Filled
<1>7. QED
  BY <1>3, <1>4, <1>5, <1>6 DEF XInv

\* A step that changes the rows as part of a filling: every query under way
\* learns of it.
LEMMA FillingStep ==
    ASSUME XInv, NEW p \in Openers, NEW e \in Process, GoesFilling(p, e),
           UNCHANGED current, index' \in [Rows -> Nat],
           e.at \notin {"comparing", "matching"},
           e.at \in {"reading", "inserting"} => FilledBy(e, current, index'),
           \A r \in Indexed : e.since[r] <= current[r]
    PROVE  XInv'
<1>0. FilledBy(e, current, index')
  BY DEF FilledBy
<1>1. \A q \in Openers : q # p =>
        /\ proc'[q].at = proc[q].at /\ proc'[q].since = proc[q].since
        /\ proc'[q].want = proc[q].want
        /\ proc'[q].todo = proc[q].todo
        /\ proc'[q].at \in {"matching", "reading", "inserting"} => proc'[q].others
        /\ proc'[q] \in Process
  BY DEF XInv, XTypeOK, GoesFilling, Process
<1>2. proc'[p] = e
  BY DEF GoesFilling
<1>3. XTypeOK'
  <2>1. proc' \in [Openers -> Process]
    BY <1>1, <1>2 DEF GoesFilling
  <2>2. QED
    BY <2>1 DEF XInv, XTypeOK
<1>4. Between'
  BY <1>1, <1>2 DEF XInv, Between
<1>5. MatchedRows'
  BY <1>1, <1>2 DEF XInv, MatchedRows
<1>6. \A q \in Openers : q # p => FilledBy(proc'[q], current', index')
  BY <1>1 DEF XInv, Filled, FilledBy
<1>7. Filled'
  BY <1>0, <1>2, <1>6 DEF Filled
<1>8. QED
  BY <1>3, <1>4, <1>5, <1>7 DEF XInv

\* Opening a store, or filling an index, comes down to one of the two.
LEMMA OpenOrFill ==
    ASSUME XInv, NEW p \in Openers,
           \/ OpenWithout(p) \/ OpenLook(p) \/ OpenCreate(p)
           \/ FillEmpty(p) \/ FillRead(p) \/ FillInsert(p) \/ FillDone(p)
    PROVE  XInv'
<1>0. proc[p] \in Process /\ \A r \in Indexed : proc[p].since[r] <= current[r] /\ 0 <= current[r]
  BY VersionsBounded DEF XInv, XTypeOK, Between, Versions
<1> DEFINE Good(e) == e \in Process
                     /\ e.at \notin {"comparing", "matching", "reading", "inserting"}
                     /\ \A r \in Indexed : e.since[r] <= current[r]
<1>1. \A on, ready \in BOOLEAN : Good(Resting(on, ready))
  BY <1>0, RestingFits
<1>2. CASE OpenWithout(p)
  BY <1>1, <1>2, QuietStep DEF OpenWithout
<1>3. CASE OpenLook(p)
  <2> DEFINE e == [proc[p] EXCEPT !.on = TRUE, !.at = IF index = NoTable THEN "creating" ELSE "found"]
  <2>1. Good(e)
    BY <1>0 DEF Process
  <2>2. Goes(p, e) /\ UNCHANGED <<current, index>>
    BY <1>3 DEF OpenLook
  <2> HIDE DEF e
  <2>3. QED
    BY <2>1, <2>2, QuietStep
<1>4. CASE OpenCreate(p)
  <2> DEFINE e == IF At(p, "found") THEN Resting(TRUE, TRUE)
                  ELSE [proc[p] EXCEPT !.at = "emptying", !.for = "open"]
  <2>1. Good(e)
    BY <1>0, <1>1 DEF Process
  <2>2. NoRows \in [Rows -> Nat]
    BY DEF NoRows
  <2>3. \/ index' = NoRows /\ GoesFilling(p, e) /\ UNCHANGED current
        \/ Goes(p, e) /\ UNCHANGED <<current, index>>
    BY <1>4 DEF OpenCreate
  <2> HIDE DEF e
  <2>4. QED
    BY <2>1, <2>2, <2>3, QuietStep, FillingStep
<1> DEFINE Fills(e) == e \in Process /\ e.at \in {"reading", "inserting"}
                      /\ \A r \in Indexed : e.since[r] <= current[r]
<1>5. CASE FillEmpty(p)
  <2> DEFINE e == [proc[p] EXCEPT !.at = "reading"]
  <2>1. Fills(e) /\ e.at = "reading"
    BY <1>0 DEF Process
  <2>2. index' \in [Rows -> Nat] /\ GoesFilling(p, e) /\ UNCHANGED current /\ index' = NoRows
    BY <1>5 DEF FillEmpty, NoRows
  <2>3. \A r \in Indexed, v \in 1 .. MaxRuleVersion : index'[<<r, v>>] = 0
    BY <2>2 DEF NoRows, Rows
  <2> HIDE DEF e
  <2>4. FilledBy(e, current, index')
    BY <2>1, <2>3 DEF FilledBy
  <2>5. QED
    BY <2>1, <2>2, <2>4, FillingStep
<1>6. CASE FillRead(p)
  <2> DEFINE e == [proc[p] EXCEPT !.at = "inserting",
                                  !.todo = {x \in Rows : current[x[1]] = x[2]}]
  <2>1. Fills(e) /\ e.at = "inserting" /\ e.since = proc[p].since /\ e.others = proc[p].others
        /\ e.todo = {x \in Rows : current[x[1]] = x[2]}
    BY <1>0 DEF Process
  <2>2. Goes(p, e) /\ UNCHANGED <<current, index>> /\ proc[p].at = "reading"
    BY <1>6 DEF FillRead, At
  <2> HIDE DEF e
  <2>3. FilledBy(e, current, index)
    <3>1. FilledBy(proc[p], current, index)
      BY DEF XInv, Filled
    <3>2. \A x \in e.todo : e.since[x[1]] <= x[2] /\ x[2] <= current[x[1]]
      <4> SUFFICES ASSUME NEW x \in e.todo
                   PROVE  e.since[x[1]] <= x[2] /\ x[2] <= current[x[1]]
        OBVIOUS
      <4>1. x[1] \in Indexed /\ current[x[1]] = x[2]
        BY <2>1 DEF Rows
      <4>2. current[x[1]] \in 0 .. MaxRuleVersion
        BY <4>1 DEF XInv, XTypeOK, Versions
      <4> QED
        BY <1>0, <2>1, <4>1, <4>2, VersionsBounded
    <3>3. \A r \in Indexed : e.since[r] > 0 => \E v \in 1 .. MaxRuleVersion : <<r, v>> \in e.todo
      <4> SUFFICES ASSUME NEW r \in Indexed, e.since[r] > 0
                   PROVE  current[r] \in 1 .. MaxRuleVersion /\ <<r, current[r]>> \in e.todo
        OBVIOUS
      <4>1. current[r] \in 1 .. MaxRuleVersion
        BY <1>0, <2>1 DEF XInv, XTypeOK, Versions, Process
      <4> QED
        BY <2>1, <4>1 DEF Rows
    <3> QED
      BY <2>1, <2>2, <3>1, <3>2, <3>3 DEF FilledBy
  <2>4. QED
    BY <2>1, <2>2, <2>3, QuietStep
<1>7. CASE FillInsert(p)
  <2>1. PICK x \in proc[p].todo :
          /\ index' = [index EXCEPT ![x] = @ + 1]
          /\ GoesFilling(p, [proc[p] EXCEPT !.todo = @ \ {x}])
    BY <1>7 DEF FillInsert
  <2> DEFINE e == [proc[p] EXCEPT !.todo = @ \ {x}]
  <2>2. Fills(e) /\ e.at = "inserting" /\ e.since = proc[p].since /\ e.others = proc[p].others
        /\ e.todo = proc[p].todo \ {x}
    BY <1>0, <1>7 DEF Process, FillInsert, At
  <2>3. x \in Rows /\ index \in [Rows -> Nat] /\ index # NoTable
    BY <1>0, <1>7 DEF Process, FillInsert, XInv, XTypeOK
  <2>4. index' \in [Rows -> Nat] /\ UNCHANGED current
        /\ \A y \in Rows : index'[y] > 0 <=> index[y] > 0 \/ y = x
    BY <1>7, <2>1, <2>3 DEF FillInsert
  <2>5. GoesFilling(p, e)
    BY <2>1
  <2> HIDE DEF e
  <2>6. FilledBy(e, current, index')
    <3>1. FilledBy(proc[p], current, index) /\ proc[p].at = "inserting"
      BY <1>7 DEF XInv, Filled, FillInsert, At
    <3>2. \A y \in proc[p].todo : e.since[y[1]] <= y[2] /\ y[2] <= current[y[1]]
      BY <2>2, <3>1 DEF FilledBy
    <3>3. ASSUME ~e.others, NEW r \in Indexed, NEW v \in 1 .. MaxRuleVersion, index'[<<r, v>>] > 0
          PROVE  e.since[r] <= v /\ v <= current[r]
      <4>1. <<r, v>> \in Rows /\ <<r, v>>[1] = r /\ <<r, v>>[2] = v
        BY DEF Rows
      <4>2. CASE index[<<r, v>>] > 0
        BY <2>2, <2>3, <3>1, <3>3, <4>2 DEF FilledBy
      <4>3. CASE <<r, v>> = x
        BY <3>2, <4>1, <4>3
      <4> QED
        BY <2>4, <3>3, <4>1, <4>2, <4>3
    <3>4. ASSUME ~e.others, NEW r \in Indexed, e.since[r] > 0
          PROVE  \E v \in 1 .. MaxRuleVersion : index'[<<r, v>>] > 0 \/ <<r, v>> \in e.todo
      <4>1. PICK v \in 1 .. MaxRuleVersion : index[<<r, v>>] > 0 \/ <<r, v>> \in proc[p].todo
        BY <2>2, <2>3, <3>1, <3>4 DEF FilledBy
      <4>2. <<r, v>> \in Rows
        BY DEF Rows
      <4> QED
        BY <2>2, <2>4, <4>1, <4>2
    <3> QED
      BY <2>2, <3>2, <3>3, <3>4 DEF FilledBy
  <2>7. QED
    BY <2>2, <2>4, <2>5, <2>6, FillingStep
<1>8. CASE FillDone(p)
  <2>1. CASE proc[p].for = "open" \/ proc[p].ready
    <3> DEFINE e == IF proc[p].for = "open" THEN Resting(TRUE, TRUE)
                    ELSE [proc[p] EXCEPT !.at = "asked", !.round = 2]
    <3>1. Good(e)
      BY <1>0, <1>1 DEF Process
    <3>2. Goes(p, e) /\ UNCHANGED <<current, index>>
      BY <1>8, <2>1 DEF FillDone
    <3> HIDE DEF e
    <3>3. QED
      BY <3>1, <3>2, QuietStep
  <2>2. CASE Goes(p, [proc[p] EXCEPT !.at = "matching"])
    <3> DEFINE e == [proc[p] EXCEPT !.at = "matching"]
    <3>1. e \in Process /\ e.since = proc[p].since /\ e.others = proc[p].others /\ e.at = "matching"
      BY <1>0 DEF Process
    <3>2. proc' = [proc EXCEPT ![p] = e] /\ UNCHANGED <<current, index>>
      BY <1>8, <2>2 DEF FillDone, Goes
    <3> HIDE DEF e
    <3>3. ~proc[p].others /\ index # NoTable => RowsCurrent(proc[p].since, current, index)
      <4> SUFFICES ASSUME ~proc[p].others, index # NoTable, NEW r \in Indexed
                   PROVE  LET found == {v \in 1 .. MaxRuleVersion : index[<<r, v>>] > 0}
                          IN  /\ found \subseteq proc[p].since[r] .. current[r]
                              /\ proc[p].since[r] > 0 => found # {}
        BY DEF RowsCurrent
      <4>1. FilledBy(proc[p], current, index) /\ proc[p].at = "inserting" /\ proc[p].todo = {}
        BY <1>8 DEF XInv, Filled, FillDone, At
      <4>2. \A v \in 1 .. MaxRuleVersion : index[<<r, v>>] > 0 => proc[p].since[r] <= v /\ v <= current[r]
        BY <4>1 DEF FilledBy
      <4>3. proc[p].since[r] > 0 => \E v \in 1 .. MaxRuleVersion : index[<<r, v>>] > 0
        BY <4>1 DEF FilledBy
      <4> QED
        BY <4>2, <4>3, VersionsBounded
    <3>4. XTypeOK'
      BY <3>1, <3>2 DEF XInv, XTypeOK
    <3>5. Between'
      BY <3>1, <3>2 DEF XInv, XTypeOK, Between
    <3>6. MatchedRows'
      BY <3>1, <3>2, <3>3 DEF XInv, XTypeOK, MatchedRows
    <3>7. Filled'
      BY <3>1, <3>2 DEF XInv, XTypeOK, Filled, FilledBy
    <3> QED
      BY <3>4, <3>5, <3>6, <3>7 DEF XInv
  <2> QED
    BY <1>8, <2>1, <2>2 DEF FillDone
<1>9. QED
  BY <1>2, <1>3, <1>4, <1>5, <1>6, <1>7, <1>8

\* A query reads the rules, and goes on to the index only when the two agree:
\* each rule it read has its one row then, and there is no other.
LEMMA Query ==
    ASSUME XInv, NEW p \in Openers,
           \/ Ask(p) \/ ReadRules(p) \/ Compare(p) \/ CompareUnread(p)
           \/ Match(p) \/ EndEarly(p) \/ EndProcess(p)
    PROVE  XInv'
<1>0. proc[p] \in Process /\ \A r \in Indexed : proc[p].since[r] <= current[r] /\ 0 <= current[r]
  BY VersionsBounded DEF XInv, XTypeOK, Between, Versions
<1> DEFINE Good(e) == e \in Process
                     /\ e.at \notin {"comparing", "matching", "reading", "inserting"}
                     /\ \A r \in Indexed : e.since[r] <= current[r]
<1>1. \A on, ready \in BOOLEAN : Good(Resting(on, ready))
  BY <1>0, RestingFits
<1>2. proc[p].on \in BOOLEAN /\ proc[p].ready \in BOOLEAN
  BY <1>0 DEF Process
<1>3. CASE Ask(p)
  <2> DEFINE e == [proc[p] EXCEPT !.at = "asked", !.for = "query"]
  <2>1. Good(e)
    BY <1>0 DEF Process
  <2>2. Goes(p, e) /\ UNCHANGED <<current, index>>
    BY <1>3 DEF Ask
  <2> HIDE DEF e
  <2>3. QED
    BY <2>1, <2>2, QuietStep
<1>4. CASE ReadRules(p)
  <2> DEFINE e == [proc[p] EXCEPT !.at = "comparing", !.want = current,
                   !.since = IF proc[p].round = 1 THEN current ELSE @]
  <2>1. e \in Process /\ e.at = "comparing" /\ e.want = current
        /\ \A r \in Indexed : e.since[r] <= current[r] /\ current[r] <= current[r]
    <3>1. current \in Versions /\ \A r \in Indexed : current[r] <= current[r]
      BY VersionsBounded DEF XInv, XTypeOK, Versions
    <3>2. e \in Process /\ e.at = "comparing" /\ e.want = current
      BY <1>0, <3>1 DEF Process
    <3>3. e.since = IF proc[p].round = 1 THEN current ELSE proc[p].since
      BY <1>0 DEF Process
    <3>4. QED
      BY <1>0, <3>1, <3>2, <3>3
  <2>2. proc' = [proc EXCEPT ![p] = e] /\ UNCHANGED <<current, index>>
    BY <1>4 DEF ReadRules, Goes
  <2> HIDE DEF e
  <2>3. XTypeOK'
    BY <2>1, <2>2 DEF XInv, XTypeOK
  <2>4. Between'
    BY <2>1, <2>2 DEF XInv, XTypeOK, Between
  <2>5. MatchedRows'
    BY <2>1, <2>2 DEF XInv, XTypeOK, MatchedRows
  <2>6. Filled'
    BY <2>1, <2>2 DEF XInv, XTypeOK, Filled, FilledBy
  <2>7. QED
    BY <2>3, <2>4, <2>5, <2>6 DEF XInv
<1>5. CASE Compare(p)
  <2>1. CASE Agrees(p) /\ Goes(p, [proc[p] EXCEPT !.at = "matching"])
    <3> DEFINE e == [proc[p] EXCEPT !.at = "matching"]
    <3>1. e \in Process /\ e.since = proc[p].since /\ e.want = proc[p].want /\ e.at = "matching"
      BY <1>0 DEF Process
    <3>2. proc' = [proc EXCEPT ![p] = e] /\ UNCHANGED <<current, index>>
      BY <1>5, <2>1 DEF Compare, Goes
    <3> HIDE DEF e
    <3>3. \A r \in Indexed : proc[p].since[r] <= proc[p].want[r] /\ proc[p].want[r] <= current[r]
      BY <1>5 DEF XInv, Between, Compare, At
    <3>4. RowsCurrent(proc[p].since, current, index)
      <4> SUFFICES ASSUME NEW r \in Indexed
                   PROVE  LET found == {v \in 1 .. MaxRuleVersion : index[<<r, v>>] > 0}
                          IN  /\ found \subseteq proc[p].since[r] .. current[r]
                              /\ proc[p].since[r] > 0 => found # {}
        BY DEF RowsCurrent
      <4>1. \A v \in 1 .. MaxRuleVersion :
              index[<<r, v>>] = IF proc[p].want[r] = v THEN 1 ELSE 0
        <5>1. \A x \in Rows : index[x] = IF proc[p].want[x[1]] = x[2] THEN 1 ELSE 0
          BY <2>1 DEF Agrees
        <5>2. QED
          BY <5>1 DEF Rows
      <4>2. proc[p].want[r] \in 0 .. MaxRuleVersion /\ proc[p].since[r] \in 0 .. MaxRuleVersion
            /\ current[r] \in 0 .. MaxRuleVersion
        BY <1>0 DEF Process, Versions, XInv, XTypeOK
      <4>3. QED
        BY <3>3, <4>1, <4>2, VersionsBounded
    <3>5. XTypeOK'
      BY <3>1, <3>2 DEF XInv, XTypeOK
    <3>6. Between'
      BY <3>1, <3>2, <3>3 DEF XInv, XTypeOK, Between
    <3>7. MatchedRows'
      BY <3>1, <3>2, <3>4 DEF XInv, XTypeOK, MatchedRows
    <3>8. Filled'
      BY <3>1, <3>2 DEF XInv, XTypeOK, Filled, FilledBy
    <3>9. QED
      BY <3>5, <3>6, <3>7, <3>8 DEF XInv
  <2>2. CASE Goes(p, [proc[p] EXCEPT !.at = "emptying"])
    <3> DEFINE e == [proc[p] EXCEPT !.at = "emptying"]
    <3>1. Good(e)
      BY <1>0 DEF Process
    <3>2. Goes(p, e) /\ UNCHANGED <<current, index>>
      BY <1>5, <2>2 DEF Compare
    <3> HIDE DEF e
    <3>3. QED
      BY <3>1, <3>2, QuietStep
  <2>3. CASE Goes(p, Resting(proc[p].on, FALSE))
    BY <1>1, <1>2, <1>5, <2>3, QuietStep DEF Compare
  <2>4. QED
    BY <1>5, <2>1, <2>2, <2>3 DEF Compare
<1>6. CASE Match(p)
  BY <1>1, <1>2, <1>6, QuietStep DEF Match
<1>10. CASE CompareUnread(p)
  <2> DEFINE e == [proc[p] EXCEPT !.ready = FALSE, !.at = "emptying"]
  <2>1. Good(e)
    BY <1>0 DEF Process
  <2>2. Goes(p, e) /\ UNCHANGED <<current, index>>
    BY <1>10 DEF CompareUnread
  <2> HIDE DEF e
  <2>3. QED
    BY <2>1, <2>2, QuietStep
<1>7. CASE EndEarly(p)
  BY <1>1, <1>2, <1>7, QuietStep DEF EndEarly
<1>8. CASE EndProcess(p)
  <2> DEFINE e == [Resting(FALSE, FALSE) EXCEPT !.at = "closed"]
  <2>1. Good(e)
    BY <1>1 DEF Process
  <2>2. Goes(p, e) /\ UNCHANGED <<current, index>>
    BY <1>8 DEF EndProcess
  <2> HIDE DEF e
  <2>3. QED
    BY <2>1, <2>2, QuietStep
<1>9. QED
  BY <1>3, <1>4, <1>5, <1>6, <1>7, <1>8, <1>10

\* A rule is written, or the whole index built again: the rows that change
\* are of versions current at that moment, so a query under way still finds
\* only versions it may.
LEMMA Writers ==
    ASSUME XInv, NEW p \in Openers,
           (\E r \in Indexed : WriteRule(p, r)) \/ Rebuild(p)
    PROVE  XInv'
<1>0. /\ current \in Versions /\ proc \in [Openers -> Process]
      /\ \A r \in Indexed : current[r] \in 0 .. MaxRuleVersion
      /\ \A q \in Openers, r \in Indexed :
           /\ proc[q].since[r] \in 0 .. MaxRuleVersion
           /\ proc[q].want[r] \in 0 .. MaxRuleVersion
  BY DEF XInv, XTypeOK, Versions, Process
<1>1. ASSUME NEW r \in Indexed, WriteRule(p, r) PROVE XInv'
  <2>1. /\ current' = [current EXCEPT ![r] = current[r] + 1] /\ current[r] < MaxRuleVersion
        /\ At(p, "idle")
    BY <1>1 DEF WriteRule
  <2>2. current' \in Versions /\ \A q \in Indexed :
          /\ current'[q] \in 0 .. MaxRuleVersion /\ current[q] <= current'[q]
          /\ q # r => current'[q] = current[q]
    BY <1>0, <2>1, VersionsBounded DEF Versions
  <2>3. current'[r] = current[r] + 1 /\ <<r, current'[r]>> \in Rows
    BY <1>0, <2>1, <2>2, VersionsBounded DEF Versions, Rows
  <2>4. CASE UNCHANGED <<index, proc>>
    <3>1. XTypeOK'
      BY <2>2, <2>4 DEF XInv, XTypeOK
    <3>2. Between'
      BY <1>0, <2>2, <2>4, VersionsBounded DEF XInv, Between
    <3>3. MatchedRows'
      BY <1>0, <2>2, <2>4, VersionsBounded DEF XInv, MatchedRows, RowsCurrent
    <3>4. Filled'
      <4> SUFFICES ASSUME NEW q \in Openers PROVE FilledBy(proc[q], current', index)
        BY <2>4 DEF Filled
      <4>1. FilledBy(proc[q], current, index)
        BY DEF XInv, Filled
      <4>2. \A x \in proc[q].todo : x[1] \in Indexed /\ x[2] \in Nat
        BY <1>0 DEF Process, Rows
      <4> QED
        BY <1>0, <2>2, <4>1, <4>2, VersionsBounded DEF FilledBy
    <3>5. QED
      BY <3>1, <3>2, <3>3, <3>4 DEF XInv
  <2>5. CASE /\ index # NoTable /\ UNCHANGED proc
             /\ index' = [WithoutRule(r) EXCEPT ![<<r, current'[r]>>] = 1]
    <3>1. \A x \in Rows : index'[x] =
            IF x = <<r, current'[r]>> THEN 1 ELSE IF x[1] = r THEN 0 ELSE index[x]
      BY <2>5 DEF WithoutRule
    <3>2. index \in [Rows -> Nat]
      BY <2>5 DEF XInv, XTypeOK
    <3>3. index' \in [Rows -> Nat]
      BY <2>3, <2>5, <3>2 DEF WithoutRule
    <3>4. \A q \in Indexed, v \in 1 .. MaxRuleVersion : index'[<<q, v>>] =
            IF q = r THEN (IF v = current'[r] THEN 1 ELSE 0) ELSE index[<<q, v>>]
      BY <3>1 DEF Rows
    <3>5. XTypeOK'
      BY <2>2, <2>5, <3>3 DEF XInv, XTypeOK
    <3>6. Between'
      BY <1>0, <2>2, <2>5, VersionsBounded DEF XInv, Between
    <3>7. ASSUME NEW q \in Openers, RowsCurrent(proc[q].since, current, index)
          PROVE  RowsCurrent(proc[q].since, current', index')
      <4>1. ASSUME NEW u \in Indexed
            PROVE  LET found == {v \in 1 .. MaxRuleVersion : index'[<<u, v>>] > 0}
                   IN  /\ found \subseteq proc[q].since[u] .. current'[u]
                       /\ proc[q].since[u] > 0 => found # {}
        <5>1. CASE u = r
          <6>1. \A v \in 1 .. MaxRuleVersion : index'[<<u, v>>] > 0 <=> v = current'[r]
            BY <3>4, <5>1
          <6>2. current'[r] \in 1 .. MaxRuleVersion /\ proc[q].since[r] <= current'[r]
            BY <1>0, <2>2, <2>3 DEF XInv, Between
          <6>3. QED
            BY <1>0, <5>1, <6>1, <6>2, VersionsBounded
        <5>2. CASE u # r
          BY <2>2, <3>4, <3>7, <5>2 DEF RowsCurrent
        <5>3. QED
          BY <5>1, <5>2
      <4>2. QED
        BY <4>1 DEF RowsCurrent
    <3>8. MatchedRows'
      BY <2>5, <3>7 DEF XInv, MatchedRows
    <3>9. ASSUME NEW q \in Openers PROVE FilledBy(proc[q], current', index')
      <4>1. FilledBy(proc[q], current, index)
        BY DEF XInv, Filled
      <4>2. \A x \in proc[q].todo : x[1] \in Indexed /\ x[2] \in Nat
        BY <1>0 DEF Process, Rows
      <4>3. proc[q].at = "inserting" => \A x \in proc[q].todo :
              proc[q].since[x[1]] <= x[2] /\ x[2] <= current'[x[1]]
        BY <1>0, <2>2, <4>1, <4>2, VersionsBounded DEF FilledBy
      <4>4. current'[r] \in 1 .. MaxRuleVersion /\ proc[q].since[r] <= current'[r]
        BY <1>0, <2>2, <2>3 DEF XInv, Between
      <4>5. ASSUME proc[q].at \in {"reading", "inserting"}, ~proc[q].others,
                   NEW u \in Indexed, NEW v \in 1 .. MaxRuleVersion, index'[<<u, v>>] > 0
            PROVE  proc[q].since[u] <= v /\ v <= current'[u]
        <5>1. CASE u = r
          BY <3>4, <4>4, <4>5, <5>1
        <5>2. CASE u # r
          BY <2>2, <2>5, <3>4, <4>1, <4>5, <5>2 DEF FilledBy
        <5> QED
          BY <5>1, <5>2
      <4>6. ASSUME proc[q].at = "inserting", ~proc[q].others, NEW u \in Indexed, proc[q].since[u] > 0
            PROVE  \E v \in 1 .. MaxRuleVersion : index'[<<u, v>>] > 0 \/ <<u, v>> \in proc[q].todo
        <5>1. CASE u = r
          <6>1. index'[<<u, current'[r]>>] = 1
            BY <3>4, <4>4, <5>1
          <6> QED
            BY <4>4, <6>1
        <5>2. CASE u # r
          <6>1. PICK v \in 1 .. MaxRuleVersion : index[<<u, v>>] > 0 \/ <<u, v>> \in proc[q].todo
            BY <2>5, <4>1, <4>6 DEF FilledBy
          <6>2. index'[<<u, v>>] = index[<<u, v>>]
            BY <3>4, <5>2
          <6> QED
            BY <6>1, <6>2
        <5> QED
          BY <5>1, <5>2
      <4> QED
        BY <4>3, <4>5, <4>6 DEF FilledBy
    <3>10. Filled'
      BY <2>5, <3>9 DEF Filled
    <3>11. QED
      BY <3>5, <3>6, <3>8, <3>10 DEF XInv
  <2>6. CASE index' = NoTable /\ Goes(p, Resting(proc[p].on, FALSE))
    <3> DEFINE e == Resting(proc[p].on, FALSE)
    <3>1. e \in Process /\ e.at = "idle" /\ \A q \in Indexed : e.since[q] = 0
      <4>1. proc[p].on \in BOOLEAN
        BY <1>0 DEF Process
      <4>2. QED
        BY <4>1, RestingFits
    <3>2. proc' = [proc EXCEPT ![p] = e]
      BY <2>6 DEF Goes
    <3> HIDE DEF e
    <3>3. XTypeOK'
      BY <1>0, <2>2, <2>6, <3>1, <3>2 DEF XTypeOK
    <3>4. \A q \in Openers : q # p => proc'[q] = proc[q]
      BY <1>0, <3>2
    <3>5. proc'[p] = e
      BY <1>0, <3>2
    <3>6. Between'
      BY <1>0, <2>2, <3>1, <3>4, <3>5, VersionsBounded DEF XInv, Between
    <3>7. MatchedRows'
      BY <2>6 DEF MatchedRows
    <3>8. Filled'
      <4> SUFFICES ASSUME NEW q \in Openers PROVE FilledBy(proc'[q], current', index')
        BY DEF Filled
      <4>1. FilledBy(proc[q], current, index)
        BY DEF XInv, Filled
      <4>2. \A x \in proc[q].todo : x[1] \in Indexed /\ x[2] \in Nat
        BY <1>0 DEF Process, Rows
      <4>3. proc[q].at = "inserting" => \A x \in proc[q].todo :
              proc[q].since[x[1]] <= x[2] /\ x[2] <= current'[x[1]]
        BY <1>0, <2>2, <4>1, <4>2, VersionsBounded DEF FilledBy
      <4> QED
        BY <2>6, <3>1, <3>4, <3>5, <4>3 DEF FilledBy
    <3>9. QED
      BY <3>3, <3>6, <3>7, <3>8 DEF XInv
  <2>7. QED
    BY <1>1, <2>4, <2>5, <2>6 DEF WriteRule
<1>2. ASSUME Rebuild(p) PROVE XInv'
  <2> DEFINE e == Resting(TRUE, TRUE)
  <2>1. e \in Process /\ e.at = "idle" /\ \A q \in Indexed : e.since[q] = 0
    BY RestingFits
  <2>2. proc' = [proc EXCEPT ![p] = e] /\ index' = Whole /\ current' = current
    BY <1>2 DEF Rebuild, Goes
  <2> HIDE DEF e
  <2>3. Whole \in [Rows -> Nat]
    BY DEF Whole
  <2>4. XTypeOK'
    BY <1>0, <2>1, <2>2, <2>3 DEF XTypeOK
  <2>5. Between'
    BY <1>0, <2>1, <2>2, VersionsBounded DEF XInv, Between
  <2>6. ASSUME NEW q \in Openers PROVE RowsCurrent(proc[q].since, current, Whole)
    <3> SUFFICES ASSUME NEW u \in Indexed
                 PROVE  LET found == {v \in 1 .. MaxRuleVersion : Whole[<<u, v>>] > 0}
                        IN  /\ found \subseteq proc[q].since[u] .. current[u]
                            /\ proc[q].since[u] > 0 => found # {}
      BY DEF RowsCurrent
    <3>1. \A v \in 1 .. MaxRuleVersion : Whole[<<u, v>>] > 0 <=> v = current[u]
      BY DEF Whole, Rows
    <3>2. proc[q].since[u] <= current[u]
      BY DEF XInv, Between
    <3>3. QED
      BY <1>0, <3>1, <3>2, VersionsBounded
  <2>7. MatchedRows'
    BY <1>0, <2>1, <2>2, <2>6 DEF MatchedRows
  <2>8. ASSUME NEW q \in Openers PROVE FilledBy(proc'[q], current', index')
    <3>1. CASE q = p
      BY <1>0, <2>1, <2>2, <3>1 DEF FilledBy
    <3>2. CASE q # p
      <4>1. FilledBy(proc[q], current, index) /\ proc'[q] = proc[q]
        BY <1>0, <2>2, <3>2 DEF XInv, Filled
      <4>2. \A u \in Indexed, v \in 1 .. MaxRuleVersion : Whole[<<u, v>>] > 0 <=> v = current[u]
        BY DEF Whole, Rows
      <4>3. \A u \in Indexed : proc[q].since[u] <= current[u]
        BY DEF XInv, Between
      <4>4. \A u \in Indexed : proc[q].since[u] > 0 => current[u] \in 1 .. MaxRuleVersion
        BY <1>0, <4>3
      <4>5. \A u \in Indexed : current[u] <= current[u]
        BY <1>0
      <4> QED
        BY <2>2, <4>1, <4>2, <4>3, <4>4, <4>5 DEF FilledBy
    <3> QED
      BY <3>1, <3>2
  <2>9. Filled'
    BY <2>8 DEF Filled
  <2>10. QED
    BY <2>4, <2>5, <2>7, <2>9 DEF XInv
<1>3. QED
  BY <1>1, <1>2

LEMMA IndexInvariant == XSpec => []XInv
<1>1. XInit => XInv
  <2> SUFFICES ASSUME XInit PROVE XInv
    OBVIOUS
  <2> DEFINE e == [Resting(FALSE, FALSE) EXCEPT !.at = "closed"]
  <2>1. e \in Process /\ e.at = "closed" /\ \A r \in Indexed : e.since[r] = 0
    BY RestingFits DEF Process
  <2>2. \A p \in Openers : proc[p] = e
    BY DEF XInit
  <2>3. proc \in [Openers -> Process]
    BY <2>1 DEF XInit
  <2>4. index = NoTable /\ current = [r \in Indexed |-> 0]
    BY DEF XInit
  <2> HIDE DEF e
  <2>5. current \in Versions /\ \A r \in Indexed : current[r] = 0
    BY <2>4, VersionsBounded DEF Versions
  <2>6. XTypeOK
    BY <2>3, <2>4, <2>5 DEF XTypeOK
  <2>7. Between
    BY <2>1, <2>2, <2>5 DEF Between
  <2>8. Filled
    BY <2>1, <2>2 DEF Filled, FilledBy
  <2>9. QED
    BY <2>4, <2>6, <2>7, <2>8 DEF XInv, MatchedRows
<1>2. XInv /\ [XNext]_xvars => XInv'
  <2> SUFFICES ASSUME XInv, [XNext]_xvars PROVE XInv'
    OBVIOUS
  <2>1. CASE UNCHANGED xvars
    BY <2>1 DEF xvars, XInv, XTypeOK, Between, MatchedRows, Filled
  <2>2. CASE XNext
    BY <2>2, OpenOrFill, Query, Writers DEF XNext
  <2>3. QED
    BY <2>1, <2>2
<1>3. QED
  BY <1>1, <1>2, PTL DEF XSpec

\* The rules, the rows of the index and what each process remembers keep
\* their types: a row is counted, and is of a version there can be.
THEOREM IndexTypeCorrect == XSpec => []XTypeOK
<1>1. XInv => XTypeOK
  BY DEF XInv
<1>2. QED
  BY <1>1, IndexInvariant, PTL

\* What the index answers is current for any number of rules and processes,
\* as long as no other process fills it during the query (learning_fts_drift
\* before every _fts_scores).
THEOREM LoneAnswersAreCurrentHolds == XSpec => LoneAnswersAreCurrent
<1> DEFINE Told == \A p \in Openers : Answers(p) /\ ~proc[p].others => CurrentRows(p)
<1>1. XInv /\ [XNext]_xvars => [Told]_xvars
  <2> SUFFICES ASSUME XInv, XNext, NEW p \in Openers, Answers(p), ~proc[p].others
               PROVE  CurrentRows(p)
    OBVIOUS
  <2>1. index # NoTable
    BY DEF Answers
  <2>2. RowsCurrent(proc[p].since, current, index)
    BY <2>1 DEF XInv, MatchedRows, Answers, At
  <2>3. QED
    BY <2>2 DEF RowsCurrent, CurrentRows
<1>2. QED
  BY <1>1, IndexInvariant, PTL DEF XSpec, LoneAnswersAreCurrent, Told

-----------------------------------------------------------------------------
(* The rules *)

MoveKinds == {"supersede", "deprecate", "forget", "resolve-conflict"}

\* A command that spends an answer quotes a receipt that asked the same
\* question; one that needs no answer only lifts a rule or puts a candidate away.
Quoted(q, x) ==
    /\ q \in Questions => x \in Receipts /\ receipts[x] # Unwritten /\ receipts[x].asks = q
    /\ q.kind \in {"edit", "confirm"} \cup MoveKinds => Exists(q.on)
    /\ q.kind = "edit" => q.next <= rules[q.on].version + 1

CallsQuote == \A k \in Askers : call[k] # NoCommand => Quoted(call[k].does, call[k].with)

LInv == LTypeOK /\ CallsQuote

\* The kind of a question says which question it is.
LEMMA KindsTellApart ==
    ASSUME NEW q \in Questions \cup Promotions \cup Dismissals
    PROVE  /\ q.kind = "approve" => q \in Approvals
           /\ q.kind = "edit" => q \in Edits
           /\ q.kind \in MoveKinds => q \in Moves
           /\ q.kind = "resolve-note" => q \in Resolutions
           /\ q.kind = "confirm" => q \in Promotions
           /\ q.kind \in {"reject", "merge"} => q \in Dismissals
BY DEF Questions, Approvals, Edits, Moves, Resolutions, Promotions, Dismissals, MoveKinds

LEMMA RulesAreRows ==
    ASSUME LTypeOK
    PROVE  /\ \A r \in Rules : Exists(r) <=> rules[r] \in RuleRow
           /\ \A x \in Receipts : receipts[x] # Unwritten <=> receipts[x] \in ReceiptRow
           /\ \A k \in Askers : call[k] # NoCommand <=> call[k] \in Command
BY NoRowOfLearning DEF LTypeOK, Exists

\* What a receipt asks and that a rule is there never change, and versions
\* only grow.
RowsStay ==
    /\ \A x \in Receipts : receipts[x] # Unwritten =>
         receipts'[x] # Unwritten /\ receipts'[x].asks = receipts[x].asks
    /\ \A r \in Rules : Exists(r) =>
         rules'[r] # Unwritten /\ rules[r].version <= rules'[r].version

\* So a command under way may still quote what it quoted.
LEMMA QuotesStand ==
    ASSUME LInv, LTypeOK', RowsStay,
           \A k \in Askers : call'[k] = call[k] \/ call'[k] = NoCommand
    PROVE  CallsQuote'
<1> SUFFICES ASSUME NEW k \in Askers, call'[k] # NoCommand
             PROVE  Quoted(call[k].does, call[k].with)'
  BY DEF CallsQuote
<1> DEFINE q == call[k].does
           x == call[k].with
<1>1. call'[k] = call[k] /\ Quoted(q, x) /\ call[k] \in Command
  BY RulesAreRows DEF LInv, CallsQuote
<1>2. q \in Questions \cup Promotions \cup Dismissals
  BY <1>1 DEF Command
<1>3. q.kind \in {"edit", "confirm"} \cup MoveKinds => q.on \in Rules
  BY <1>2, KindsTellApart DEF Edits, Promotions, Moves
<1>4. q.kind = "edit" => q.next \in Nat
  BY <1>2, KindsTellApart DEF Edits
<1>5. \A r \in Rules : Exists(r) => rules[r].version \in Nat /\ rules'[r].version \in Nat
  <2>1. \A r \in Rules : Exists(r) => rules[r] \in RuleRow
    BY RulesAreRows DEF LInv
  <2>2. \A r \in Rules : Exists(r) => rules'[r] \in RuleRow
    BY DEF RowsStay, LTypeOK
  <2>3. QED
    BY <2>1, <2>2 DEF RuleRow
<1> HIDE DEF q, x
<1>6. q.kind = "edit" => q.next <= rules'[q.on].version + 1
  BY <1>1, <1>3, <1>4, <1>5 DEF Quoted, RowsStay
<1>7. Quoted(q, x)'
  BY <1>1, <1>3, <1>6 DEF Quoted, RowsStay, Exists, q, x
<1>8. QED
  BY <1>1, <1>7 DEF q, x

\* A receipt that is spent or runs out asks what it asked.
LEMMA ReceiptKept ==
    ASSUME LTypeOK, NEW x \in Receipts, receipts[x] # Unwritten,
           \/ receipts' = [receipts EXCEPT ![x].spent = TRUE]
           \/ receipts' = [receipts EXCEPT ![x].expired = TRUE]
    PROVE  /\ receipts' \in [Receipts -> ReceiptRow \cup {Unwritten}]
           /\ \A y \in Receipts : receipts[y] # Unwritten =>
                receipts'[y] # Unwritten /\ receipts'[y].asks = receipts[y].asks
<1>1. receipts \in [Receipts -> ReceiptRow \cup {Unwritten}] /\ receipts[x] \in ReceiptRow
  BY RulesAreRows DEF LTypeOK
<1>2. /\ [receipts[x] EXCEPT !.spent = TRUE] \in ReceiptRow
      /\ [receipts[x] EXCEPT !.expired = TRUE] \in ReceiptRow
      /\ [receipts[x] EXCEPT !.spent = TRUE].asks = receipts[x].asks
      /\ [receipts[x] EXCEPT !.expired = TRUE].asks = receipts[x].asks
  BY <1>1 DEF ReceiptRow
<1>3. PICK e \in ReceiptRow : receipts' = [receipts EXCEPT ![x] = e] /\ e.asks = receipts[x].asks
  BY <1>2
<1>4. QED
  BY <1>1, <1>3, NoRowOfLearning

\* The rules stay as they are, or one of them changes: its words, or its state.
LEMMA RuleKept ==
    ASSUME LTypeOK, NEW r \in Rules, NEW e \in RuleRow, rules' = [rules EXCEPT ![r] = e],
           Exists(r) => rules[r].version <= e.version
    PROVE  /\ rules' \in [Rules -> RuleRow \cup {Unwritten}]
           /\ \A s \in Rules : Exists(s) =>
                rules'[s] # Unwritten /\ rules[s].version <= rules'[s].version
<1>1. rules \in [Rules -> RuleRow \cup {Unwritten}]
      /\ \A s \in Rules : Exists(s) => rules[s] \in RuleRow
  BY RulesAreRows DEF LTypeOK
<1>2. \A s \in Rules : Exists(s) => rules[s].version <= rules[s].version
  BY <1>1, EditsBounded DEF RuleRow
<1>3. QED
  BY <1>1, <1>2, NoRowOfLearning DEF Exists

\* The rows of the step, but for the command that goes on or ends.
LEMMA StepOfOne ==
    ASSUME LInv, RowsStay, NEW k \in Askers, Done(k),
           candidates' \in [Candidates -> {Unwritten, "pending", "approved", "rejected", "merged"}],
           rules' \in [Rules -> RuleRow \cup {Unwritten}],
           edges' \subseteq [from : Rules, to : Rules,
                             relation : {"contradicts", "duplicate_of", "supersedes"}],
           alerts' \in [Alerts -> {Unwritten, "open", "forced", "resolved"}],
           receipts' \in [Receipts -> ReceiptRow \cup {Unwritten}],
           supported' \subseteq Rules
    PROVE  LInv'
<1>1. /\ call' \in [Askers -> Command \cup {NoCommand}]
      /\ \A j \in Askers : call'[j] = call[j] \/ call'[j] = NoCommand
  BY DEF LInv, LTypeOK, Done
<1>2. LTypeOK'
  BY <1>1 DEF LTypeOK
<1>3. QED
  BY <1>1, <1>2, QuotesStand DEF LInv

\* What a command under way that quotes an answer does, and what it found.
LEMMA UnderWay ==
    ASSUME LInv, NEW k \in Askers, call[k] # NoCommand
    PROVE  /\ call[k] \in Command /\ Quoted(call[k].does, call[k].with)
           /\ call[k].does \in Questions \cup Promotions \cup Dismissals
           /\ call[k].found \subseteq Rules /\ call[k].saw \subseteq Alerts
<1>1. call[k] \in Command /\ Quoted(call[k].does, call[k].with)
  BY RulesAreRows DEF LInv, CallsQuote
<1>2. QED
  BY <1>1 DEF Command

\* Spending an answer: it was fresh, it asked what the command does, and it
\* is spent from then on.
LEMMA SpendAnswers ==
    ASSUME LInv, NEW k \in Askers, call[k] # NoCommand, call[k].does \in Questions, Spend(k)
    PROVE  /\ Answered(call[k].does)
           /\ receipts' \in [Receipts -> ReceiptRow \cup {Unwritten}]
           /\ \A y \in Receipts : receipts[y] # Unwritten =>
                receipts'[y] # Unwritten /\ receipts'[y].asks = receipts[y].asks
<1> DEFINE x == call[k].with
<1>1. x \in Receipts /\ receipts[x] # Unwritten /\ receipts[x].asks = call[k].does
  BY UnderWay DEF Quoted
<1>2. receipts' = [receipts EXCEPT ![x].spent = TRUE] /\ Fresh(x)
  BY DEF Spend
<1>3. receipts'[x].spent
  <2>1. receipts \in [Receipts -> ReceiptRow \cup {Unwritten}] /\ receipts[x] \in ReceiptRow
    BY <1>1, RulesAreRows DEF LInv, LTypeOK
  <2>2. receipts'[x] = [receipts[x] EXCEPT !.spent = TRUE]
    BY <1>1, <1>2, <2>1
  <2>3. QED
    BY <2>1, <2>2 DEF ReceiptRow
<1> HIDE DEF x
<1>4. Answered(call[k].does)
  BY <1>1, <1>2, <1>3 DEF Answered
<1>5. QED
  BY <1>1, <1>2, <1>4, ReceiptKept DEF LInv

\* Rows that do not change stay.
LEMMA SameRowsStay ==
    ASSUME LInv
    PROVE  /\ UNCHANGED receipts => \A x \in Receipts : receipts[x] # Unwritten =>
                receipts'[x] # Unwritten /\ receipts'[x].asks = receipts[x].asks
           /\ UNCHANGED rules => \A r \in Rules : Exists(r) =>
                rules'[r] # Unwritten /\ rules[r].version <= rules'[r].version
<1>1. \A r \in Rules : Exists(r) => rules[r].version \in Nat
  BY RulesAreRows DEF LInv, RuleRow
<1>2. QED
  BY <1>1 DEF Exists

\* Every rule of a step is born, reworded and silenced by an answer.
RulesAnswered == \A r \in Rules : BornOfAnswer(r) /\ RewordedByAnswer(r) /\ SilencedByAnswer(r)

LEMMA SameRulesAnswered ==
    ASSUME UNCHANGED rules PROVE RulesAnswered
BY DEF RulesAnswered, BornOfAnswer, RewordedByAnswer, SilencedByAnswer, Exists

\* An approval writes one new rule, with the words and for the candidate of
\* the answer it spends.
LEMMA ApproveStep ==
    ASSUME LInv, NEW k \in Askers, Approve(k)
    PROVE  LInv' /\ RulesAnswered
<1> DEFINE q == call[k].does
<1>1. call[k] # NoCommand /\ q.kind = "approve" /\ Spend(k) /\ Done(k) /\ UNCHANGED supported
  BY DEF Approve, Doing
<1>2. q \in Approvals /\ q \in Questions
  BY <1>1, UnderWay, KindsTellApart DEF Questions
<1>3. PICK r \in Rules :
        /\ rules[r] = Unwritten
        /\ rules' = [rules EXCEPT ![r] = ApprovedRule(q.text, q.on)]
        /\ edges' = edges \cup
             {[from |-> r, to |-> o,
               relation |-> IF <<rules[o].text, q.text>> \in Clashes
                            THEN "contradicts" ELSE "duplicate_of"] :
                o \in IF "conflict" \in q.past THEN call[k].found ELSE {}}
        /\ candidates' = [candidates EXCEPT ![q.on] = "approved"]
        /\ alerts' = [n \in Alerts |-> IF n \in Overridden(k) THEN "forced" ELSE alerts[n]]
  BY DEF Approve
<1>4. /\ Answered(q)
      /\ receipts' \in [Receipts -> ReceiptRow \cup {Unwritten}]
      /\ \A y \in Receipts : receipts[y] # Unwritten =>
           receipts'[y] # Unwritten /\ receipts'[y].asks = receipts[y].asks
  BY <1>1, <1>2, SpendAnswers
<1>5. call[k].found \subseteq Rules
  BY <1>1, UnderWay
<1> DEFINE e == ApprovedRule(q.text, q.on)
<1>6. /\ q.on \in Candidates /\ q.text \in Texts /\ q.past \in SUBSET {"conflict", "alert"}
      /\ q = [kind |-> "approve", on |-> q.on, text |-> q.text, past |-> q.past]
  BY <1>2 DEF Approvals
<1>7. e \in RuleRow /\ e.text = q.text /\ e.from = q.on
  BY <1>6, EditsBounded DEF ApprovedRule, RuleRow, Injectable
<1> HIDE DEF q, e
<1>8. rules' = [rules EXCEPT ![r] = e] /\ ~Exists(r)
  BY <1>3 DEF e, Exists
<1>9. /\ rules' \in [Rules -> RuleRow \cup {Unwritten}]
      /\ \A s \in Rules : Exists(s) =>
           rules'[s] # Unwritten /\ rules[s].version <= rules'[s].version
  BY <1>7, <1>8, RuleKept DEF LInv
<1>10. edges' \subseteq [from : Rules, to : Rules,
                          relation : {"contradicts", "duplicate_of", "supersedes"}]
  <2>1. edges \subseteq [from : Rules, to : Rules,
                         relation : {"contradicts", "duplicate_of", "supersedes"}]
    BY DEF LInv, LTypeOK
  <2>2. \A f \in edges' \ edges : \E o \in Rules :
          f = [from |-> r, to |-> o,
               relation |-> IF <<rules[o].text, q.text>> \in Clashes
                            THEN "contradicts" ELSE "duplicate_of"]
    BY <1>3, <1>5
  <2>3. \A f \in edges' \ edges : f \in [from : Rules, to : Rules,
                         relation : {"contradicts", "duplicate_of", "supersedes"}]
    <3> SUFFICES ASSUME NEW f \in edges' \ edges
                 PROVE  f \in [from : Rules, to : Rules,
                               relation : {"contradicts", "duplicate_of", "supersedes"}]
      OBVIOUS
    <3>1. PICK o \in Rules :
            \/ f = [from |-> r, to |-> o, relation |-> "contradicts"]
            \/ f = [from |-> r, to |-> o, relation |-> "duplicate_of"]
      BY <2>2
    <3>2. QED
      BY <3>1
  <2>4. QED
    BY <2>1, <2>3
<1>11. /\ candidates' \in [Candidates -> {Unwritten, "pending", "approved", "rejected", "merged"}]
       /\ alerts' \in [Alerts -> {Unwritten, "open", "forced", "resolved"}]
       /\ supported' \subseteq Rules
  BY <1>1, <1>3, <1>6 DEF LInv, LTypeOK
<1>12. LInv'
  BY <1>1, <1>4, <1>9, <1>10, <1>11, StepOfOne DEF RowsStay
<1>13. ASSUME NEW s \in Rules
       PROVE  BornOfAnswer(s) /\ RewordedByAnswer(s) /\ SilencedByAnswer(s)
  <2>1. CASE s = r
    <3>1. rules'[s] = e
      BY <1>8, <2>1 DEF LInv, LTypeOK
    <3>2. \E past \in SUBSET {"conflict", "alert"} :
            Answered([kind |-> "approve", on |-> rules'[s].from, text |-> rules'[s].text,
                      past |-> past])
      BY <1>4, <1>6, <1>7, <3>1
    <3>3. QED
      BY <1>8, <2>1, <3>2 DEF BornOfAnswer, RewordedByAnswer, SilencedByAnswer
  <2>2. CASE s # r
    <3>1. rules'[s] = rules[s]
      BY <1>8, <2>2 DEF LInv, LTypeOK
    <3>2. QED
      BY <3>1 DEF BornOfAnswer, RewordedByAnswer, SilencedByAnswer, Exists
  <2>3. QED
    BY <2>1, <2>2
<1>14. QED
  BY <1>12, <1>13 DEF RulesAnswered

Reworded(x, v, t) == [x EXCEPT !.version = v, !.text = t]

LEMMA RewordedRow ==
    ASSUME NEW x \in RuleRow, NEW v \in 1 .. MaxEdits, NEW t \in Texts
    PROVE  /\ Reworded(x, v, t) \in RuleRow /\ Reworded(x, v, t).state = x.state
           /\ Reworded(x, v, t).text = t /\ Reworded(x, v, t).version = v
BY DEF RuleRow, Reworded

\* An edit that still goes through is the next version of the rule it read.
LEMMA EditStep ==
    ASSUME LInv, NEW k \in Askers, Edit(k)
    PROVE  LInv' /\ RulesAnswered
<1> DEFINE q == call[k].does
           r == q.on
           e == Reworded(rules[r], q.next, q.text)
<1>1. /\ call[k] # NoCommand /\ q.kind = "edit" /\ Spend(k) /\ Done(k)
      /\ UNCHANGED <<candidates, edges, alerts, supported>>
      /\ rules[r].version < q.next
      /\ rules' = [rules EXCEPT ![r].version = q.next, ![r].text = q.text]
  BY DEF Edit, Doing
<1>2. q \in Edits /\ q \in Questions /\ Quoted(q, call[k].with)
  BY <1>1, UnderWay, KindsTellApart DEF Questions
<1>3. /\ Answered(q)
      /\ receipts' \in [Receipts -> ReceiptRow \cup {Unwritten}]
      /\ \A y \in Receipts : receipts[y] # Unwritten =>
           receipts'[y] # Unwritten /\ receipts'[y].asks = receipts[y].asks
  BY <1>1, <1>2, SpendAnswers
<1>4. /\ r \in Rules /\ q.text \in Texts /\ q.next \in 2 .. MaxEdits
      /\ q = [kind |-> "edit", on |-> r, text |-> q.text, next |-> q.next]
  BY <1>2 DEF Edits
<1>5. Exists(r) /\ q.next <= rules[r].version + 1
  BY <1>1, <1>2 DEF Quoted
<1>6. rules[r] \in RuleRow /\ rules \in [Rules -> RuleRow \cup {Unwritten}]
  BY <1>4, <1>5, RulesAreRows DEF LInv, LTypeOK
<1>7. rules[r].version \in Nat
  BY <1>6 DEF RuleRow
<1>8. q.next = rules[r].version + 1
  BY <1>1, <1>4, <1>5, <1>7
<1>9. /\ e \in RuleRow /\ e.state = rules[r].state /\ e.text = q.text /\ e.version = q.next
  <2>1. q.next \in 1 .. MaxEdits
    BY <1>4, EditsBounded
  <2>2. QED
    BY <1>4, <1>6, <2>1, RewordedRow
<1>10. rules' = [rules EXCEPT ![r] = e]
  BY <1>1, <1>4, <1>6 DEF RuleRow, Reworded
<1> HIDE DEF q, r, e
<1>11. /\ rules' \in [Rules -> RuleRow \cup {Unwritten}]
       /\ \A s \in Rules : Exists(s) =>
            rules'[s] # Unwritten /\ rules[s].version <= rules'[s].version
  <2>1. rules[r].version <= e.version
    BY <1>7, <1>8, <1>9
  <2>2. QED
    BY <1>4, <1>9, <1>10, <2>1, RuleKept DEF LInv
<1>12. LInv'
  BY <1>1, <1>3, <1>11, StepOfOne DEF RowsStay, LInv, LTypeOK
<1>13. ASSUME NEW s \in Rules
       PROVE  BornOfAnswer(s) /\ RewordedByAnswer(s) /\ SilencedByAnswer(s)
  <2>1. CASE s = r
    <3>1. rules'[s] = e
      BY <1>6, <1>10, <2>1
    <3>2. Answered([kind |-> "edit", on |-> s, text |-> rules'[s].text, next |-> rules'[s].version])
      BY <1>3, <1>4, <1>9, <2>1, <3>1
    <3>3. QED
      BY <1>5, <1>8, <1>9, <2>1, <3>1, <3>2 DEF BornOfAnswer, RewordedByAnswer, SilencedByAnswer
  <2>2. CASE s # r
    <3>1. rules'[s] = rules[s]
      BY <1>6, <1>10, <2>2
    <3>2. QED
      BY <3>1 DEF BornOfAnswer, RewordedByAnswer, SilencedByAnswer, Exists
  <2>3. QED
    BY <2>1, <2>2
<1>14. QED
  BY <1>12, <1>13 DEF RulesAnswered

\* A move of a rule changes its state and nothing else of it.
LEMMA StateMoved ==
    ASSUME LInv, NEW r \in Rules, Exists(r), NEW to \in Injectable \cup Silenced,
           rules' = [rules EXCEPT ![r].state = to],
           \/ to \notin Silenced
           \/ \E q \in Moves : q.on = r /\ q.to = to /\ Answered(q)
    PROVE  /\ rules' \in [Rules -> RuleRow \cup {Unwritten}]
           /\ \A s \in Rules : Exists(s) =>
                rules'[s] # Unwritten /\ rules[s].version <= rules'[s].version
           /\ RulesAnswered
<1> DEFINE e == [rules[r] EXCEPT !.state = to]
<1>1. rules[r] \in RuleRow /\ rules \in [Rules -> RuleRow \cup {Unwritten}]
  BY RulesAreRows DEF LInv, LTypeOK
<1>2. /\ e \in RuleRow /\ e.state = to /\ e.text = rules[r].text
      /\ e.version = rules[r].version /\ e.version \in Nat
  BY <1>1 DEF RuleRow
<1>3. rules' = [rules EXCEPT ![r] = e]
  BY <1>1 DEF RuleRow
<1> HIDE DEF e
<1>4. /\ rules' \in [Rules -> RuleRow \cup {Unwritten}]
      /\ \A s \in Rules : Exists(s) =>
           rules'[s] # Unwritten /\ rules[s].version <= rules'[s].version
  <2>1. rules[r].version <= e.version
    BY <1>2
  <2>2. QED
    BY <1>2, <1>3, <2>1, RuleKept DEF LInv
<1>5. ASSUME NEW s \in Rules
      PROVE  BornOfAnswer(s) /\ RewordedByAnswer(s) /\ SilencedByAnswer(s)
  <2>1. CASE s = r
    <3>1. rules'[s] = e
      BY <1>1, <1>3, <2>1
    <3>2. QED
      BY <1>2, <2>1, <3>1 DEF BornOfAnswer, RewordedByAnswer, SilencedByAnswer
  <2>2. CASE s # r
    <3>1. rules'[s] = rules[s]
      BY <1>1, <1>3, <2>2
    <3>2. QED
      BY <3>1 DEF BornOfAnswer, RewordedByAnswer, SilencedByAnswer, Exists
  <2>3. QED
    BY <2>1, <2>2
<1>6. QED
  BY <1>4, <1>5 DEF RulesAnswered

\* The rule that is silenced is the one of the answer, and so is its end.
LEMMA ChangeStateStep ==
    ASSUME LInv, NEW k \in Askers, ChangeState(k)
    PROVE  LInv' /\ RulesAnswered
<1> DEFINE q == call[k].does
<1>1. /\ call[k] # NoCommand /\ q.kind \in MoveKinds /\ Spend(k) /\ Done(k)
      /\ UNCHANGED <<candidates, alerts, supported>>
      /\ rules' = [rules EXCEPT ![q.on].state = q.to]
      /\ edges' = edges \cup
           CASE q.to = "superseded" ->
                  {[from |-> q.by, to |-> q.on, relation |-> "supersedes"]}
             [] q.to # "superseded" /\ q.by # NoRule ->
                  {[from |-> q.on, to |-> q.by, relation |-> "contradicts"]}
             [] OTHER -> {}
  BY DEF ChangeState, Doing, MoveKinds
<1>2. q \in Moves /\ q \in Questions /\ Quoted(q, call[k].with)
  BY <1>1, UnderWay, KindsTellApart DEF Questions
<1>3. /\ Answered(q)
      /\ receipts' \in [Receipts -> ReceiptRow \cup {Unwritten}]
      /\ \A y \in Receipts : receipts[y] # Unwritten =>
           receipts'[y] # Unwritten /\ receipts'[y].asks = receipts[y].asks
  BY <1>1, <1>2, SpendAnswers
<1>4. q.on \in Rules /\ q.to \in Silenced /\ (q.by = NoRule \/ q.by \in Rules)
      /\ (q.to = "superseded" => q.by \in Rules)
  BY <1>2 DEF Moves, Silenced
<1>5. Exists(q.on)
  BY <1>1, <1>2 DEF Quoted
<1> HIDE DEF q
<1>6. /\ rules' \in [Rules -> RuleRow \cup {Unwritten}]
      /\ \A s \in Rules : Exists(s) =>
           rules'[s] # Unwritten /\ rules[s].version <= rules'[s].version
      /\ RulesAnswered
  BY <1>1, <1>2, <1>3, <1>4, <1>5, StateMoved
<1>7. edges' \subseteq [from : Rules, to : Rules,
                         relation : {"contradicts", "duplicate_of", "supersedes"}]
  BY <1>1, <1>4 DEF LInv, LTypeOK
<1>8. QED
  BY <1>1, <1>3, <1>6, <1>7, StepOfOne DEF RowsStay, LInv, LTypeOK

\* Use lifts a rule and never silences one.
LEMMA ConfirmStep ==
    ASSUME LInv, NEW k \in Askers, ConfirmUse(k)
    PROVE  LInv' /\ RulesAnswered
<1> DEFINE q == call[k].does
<1>1. /\ call[k] # NoCommand /\ q.kind = "confirm" /\ Done(k)
      /\ UNCHANGED <<candidates, edges, alerts, receipts, supported>>
      /\ rules' = [rules EXCEPT ![q.on].state = q.to]
  BY DEF ConfirmUse, Doing
<1>2. q \in Promotions /\ Quoted(q, call[k].with)
  BY <1>1, UnderWay, KindsTellApart
<1>3. q.on \in Rules /\ q.to \in Injectable /\ q.to \notin Silenced
  BY <1>2 DEF Promotions, Silenced, Injectable
<1>4. Exists(q.on)
  BY <1>1, <1>2 DEF Quoted
<1> HIDE DEF q
<1>5. /\ rules' \in [Rules -> RuleRow \cup {Unwritten}]
      /\ \A s \in Rules : Exists(s) =>
           rules'[s] # Unwritten /\ rules[s].version <= rules'[s].version
      /\ RulesAnswered
  BY <1>1, <1>3, <1>4, StateMoved
<1>6. QED
  BY <1>1, <1>5, SameRowsStay, StepOfOne DEF RowsStay, LInv, LTypeOK

\* The other ends of a command.
LEMMA OtherEnds ==
    ASSUME LInv, NEW k \in Askers, Resolve(k) \/ Reject(k) \/ MergeInto(k) \/ Abandon(k)
    PROVE  LInv' /\ RulesAnswered
<1> DEFINE q == call[k].does
<1>1. call[k] # NoCommand /\ Done(k) /\ UNCHANGED rules
  BY DEF Resolve, Reject, MergeInto, Abandon, Doing
<1>2. RulesAnswered
  BY <1>1, SameRulesAnswered
<1>3. CASE Resolve(k)
  <2>1. q \in Resolutions /\ q \in Questions
    BY <1>1, <1>3, UnderWay, KindsTellApart DEF Resolve, Doing, Questions
  <2>2. q.on \in Alerts
    BY <2>1 DEF Resolutions
  <2>3. Spend(k) /\ alerts' = [alerts EXCEPT ![q.on] = "resolved"]
        /\ UNCHANGED <<candidates, rules, edges, supported>>
    BY <1>3 DEF Resolve
  <2>4. alerts' \in [Alerts -> {Unwritten, "open", "forced", "resolved"}]
    BY <2>2, <2>3 DEF LInv, LTypeOK
  <2>5. /\ receipts' \in [Receipts -> ReceiptRow \cup {Unwritten}]
        /\ \A y \in Receipts : receipts[y] # Unwritten =>
             receipts'[y] # Unwritten /\ receipts'[y].asks = receipts[y].asks
    BY <1>1, <2>1, <2>3, SpendAnswers
  <2>6. QED
    BY <1>1, <1>2, <2>3, <2>4, <2>5, SameRowsStay, StepOfOne DEF RowsStay, LInv, LTypeOK
<1>4. CASE Reject(k)
  <2>1. q.on \in Candidates
    BY <1>1, <1>4, UnderWay, KindsTellApart DEF Reject, Doing, Dismissals
  <2>2. candidates' = [candidates EXCEPT ![q.on] = "rejected"]
        /\ UNCHANGED <<rules, edges, alerts, receipts, supported>>
    BY <1>4 DEF Reject
  <2>3. candidates' \in [Candidates -> {Unwritten, "pending", "approved", "rejected", "merged"}]
    BY <2>1, <2>2 DEF LInv, LTypeOK
  <2>4. QED
    BY <1>1, <1>2, <2>2, <2>3, SameRowsStay, StepOfOne DEF RowsStay, LInv, LTypeOK
<1>5. CASE MergeInto(k)
  <2>1. q.on \in Candidates /\ q.into \in Rules
    BY <1>1, <1>5, UnderWay, KindsTellApart DEF MergeInto, Doing, Dismissals
  <2>2. candidates' = [candidates EXCEPT ![q.on] = "merged"]
        /\ supported' = supported \cup {q.into}
        /\ UNCHANGED <<rules, edges, alerts, receipts>>
    BY <1>5 DEF MergeInto
  <2>3. candidates' \in [Candidates -> {Unwritten, "pending", "approved", "rejected", "merged"}]
        /\ supported' \subseteq Rules
    BY <2>1, <2>2 DEF LInv, LTypeOK
  <2>4. QED
    BY <1>1, <1>2, <2>2, <2>3, SameRowsStay, StepOfOne DEF RowsStay, LInv, LTypeOK
<1>6. CASE Abandon(k)
  BY <1>1, <1>2, <1>6, SameRowsStay, StepOfOne DEF Abandon, RowsStay, LInv, LTypeOK
<1>7. QED
  BY <1>3, <1>4, <1>5, <1>6

\* The reading half takes the rule, the receipt and their words together.
LEMMA ReadingStep ==
    ASSUME LInv, NEW k \in Askers, Check(k) \/ CheckUnasked(k)
    PROVE  /\ LInv' /\ UNCHANGED <<rules, receipts>>
           /\ \A j \in Askers : call[j] = NoCommand /\ call'[j] # NoCommand =>
                j = k /\ Allowed(call'[j].does)
<1>1. PICK q \in Questions \cup Promotions \cup Dismissals, x \in Receipts \cup {NoReceipt} :
        /\ call' = [call EXCEPT ![k] = Decided(q, x)]
        /\ Allowed(q)
        /\ q \in Promotions \cup Dismissals
           \/ (x \in Receipts /\ receipts[x] # Unwritten /\ receipts[x].asks = q)
  BY DEF Check, CheckUnasked, Fresh, Fingerprint
<1>2. UNCHANGED <<candidates, rules, edges, alerts, receipts, supported>> /\ call[k] = NoCommand
  BY DEF Check, CheckUnasked
<1> DEFINE d == Decided(q, x)
<1>3. d \in Command /\ d.does = q /\ d.with = x
  BY DEF Decided, Command, ConflictsAgainst, BlockingAlerts
<1>4. Quoted(q, x)
  <2>1. q \in Questions => x \in Receipts /\ receipts[x] # Unwritten /\ receipts[x].asks = q
    BY <1>1, KindsTellApart
       DEF Questions, Approvals, Edits, Moves, Resolutions, Promotions, Dismissals
  <2>2. q.kind = "edit" => MayEdit(q)
    BY <1>1 DEF Allowed
  <2>3. q.kind = "confirm" => MayPromote(q)
    BY <1>1 DEF Allowed
  <2>4. q.kind \in MoveKinds => MayChangeState(q)
    BY <1>1 DEF Allowed, MoveKinds
  <2>5. q.kind \in {"edit", "confirm"} \cup MoveKinds => Exists(q.on)
    BY <2>2, <2>3, <2>4 DEF MayEdit, MayPromote, MayChangeState
  <2>6. q.kind = "edit" => q.next <= rules[q.on].version + 1
    <3>1. q.kind = "edit" => q.next \in Nat /\ q.next = rules[q.on].version + 1
      BY <2>2, KindsTellApart DEF MayEdit, Edits
    <3>2. QED
      BY <3>1
  <2>7. QED
    BY <2>1, <2>5, <2>6 DEF Quoted
<1> HIDE DEF d
<1>5. call' = [call EXCEPT ![k] = d]
  BY <1>1 DEF d
<1>6. LTypeOK'
  BY <1>2, <1>3, <1>5 DEF LInv, LTypeOK
<1>7. CallsQuote'
  <2> SUFFICES ASSUME NEW j \in Askers, call'[j] # NoCommand
               PROVE  Quoted(call'[j].does, call'[j].with)
    BY <1>2 DEF CallsQuote, Quoted, Exists
  <2>1. CASE j = k
    BY <1>3, <1>4, <1>5, <2>1 DEF LInv, LTypeOK
  <2>2. CASE j # k
    BY <1>5, <2>2 DEF LInv, LTypeOK, CallsQuote
  <2>3. QED
    BY <2>1, <2>2
<1>8. \A j \in Askers : call[j] = NoCommand /\ call'[j] # NoCommand =>
        j = k /\ Allowed(call'[j].does)
  BY <1>1, <1>3, <1>5 DEF LInv, LTypeOK
<1>9. QED
  BY <1>2, <1>6, <1>7, <1>8 DEF LInv

\* A receipt is minted for a question that may be asked; until it is spent
\* it changes in nothing but running out.
LEMMA ReceiptStep ==
    ASSUME LInv, NEW x \in Receipts, Mint(x) \/ Expire(x)
    PROVE  /\ LInv' /\ UNCHANGED <<rules, call>>
           /\ \A y \in Receipts : receipts[y] = Unwritten /\ receipts'[y] # Unwritten =>
                MayAsk(receipts'[y].asks)
<1>1. UNCHANGED <<candidates, rules, edges, alerts, supported, call>>
  BY DEF Mint, Expire
<1>2. ASSUME receipts' \in [Receipts -> ReceiptRow \cup {Unwritten}],
             \A y \in Receipts : receipts[y] # Unwritten =>
                receipts'[y] # Unwritten /\ receipts'[y].asks = receipts[y].asks
      PROVE  LInv'
  <2>1. LTypeOK'
    BY <1>1, <1>2 DEF LInv, LTypeOK
  <2>2. QED
    BY <1>1, <1>2, <2>1, SameRowsStay, QuotesStand DEF RowsStay, LInv
<1>3. ASSUME Mint(x)
      PROVE  /\ LInv'
             /\ \A y \in Receipts : receipts[y] = Unwritten /\ receipts'[y] # Unwritten =>
                  MayAsk(receipts'[y].asks)
  <2>1. PICK q \in Questions :
          /\ MayAsk(q)
          /\ receipts' = [receipts EXCEPT ![x] = [asks |-> q, spent |-> FALSE, expired |-> FALSE]]
    BY <1>3 DEF Mint
  <2> DEFINE e == [asks |-> q, spent |-> FALSE, expired |-> FALSE]
  <2>2. e \in ReceiptRow /\ e.asks = q
    BY DEF ReceiptRow
  <2> HIDE DEF e
  <2>3. receipts' = [receipts EXCEPT ![x] = e] /\ receipts[x] = Unwritten
    BY <1>3, <2>1 DEF e, Mint
  <2>4. receipts \in [Receipts -> ReceiptRow \cup {Unwritten}]
    BY DEF LInv, LTypeOK
  <2>5. /\ receipts' \in [Receipts -> ReceiptRow \cup {Unwritten}]
        /\ \A y \in Receipts : receipts[y] # Unwritten => receipts'[y] = receipts[y]
        /\ \A y \in Receipts : receipts[y] = Unwritten /\ receipts'[y] # Unwritten =>
             receipts'[y] = e
    BY <2>2, <2>3, <2>4
  <2>6. QED
    BY <1>2, <2>1, <2>2, <2>5
<1>4. ASSUME Expire(x)
      PROVE  /\ LInv'
             /\ \A y \in Receipts : receipts[y] = Unwritten /\ receipts'[y] # Unwritten =>
                  MayAsk(receipts'[y].asks)
  <2>1. receipts' = [receipts EXCEPT ![x].expired = TRUE] /\ receipts[x] # Unwritten
    BY <1>4 DEF Expire
  <2>2. LInv'
    BY <1>2, <2>1, ReceiptKept DEF LInv
  <2>3. \A y \in Receipts : receipts[y] = Unwritten => receipts'[y] = Unwritten
    BY <2>1 DEF LInv, LTypeOK
  <2>4. QED
    BY <2>2, <2>3
<1>5. QED
  BY <1>1, <1>3, <1>4

\* What is observed: a candidate, an alert, a piece of evidence.
LEMMA ObservingStep ==
    ASSUME LInv, \/ \E c \in Candidates : Capture(c)
                 \/ \E n \in Alerts : RaiseAlert(n)
                 \/ \E r \in Rules : AddEvidence(r)
    PROVE  LInv' /\ UNCHANGED <<rules, receipts, call>>
<1>1. UNCHANGED <<rules, edges, receipts, call>>
  BY DEF Capture, RaiseAlert, AddEvidence
<1>2. /\ candidates' \in [Candidates -> {Unwritten, "pending", "approved", "rejected", "merged"}]
      /\ alerts' \in [Alerts -> {Unwritten, "open", "forced", "resolved"}]
      /\ supported' \subseteq Rules
  BY DEF Capture, RaiseAlert, AddEvidence, LInv, LTypeOK
<1>3. LTypeOK'
  BY <1>1, <1>2 DEF LInv, LTypeOK
<1>4. QED
  BY <1>1, <1>3, SameRowsStay, QuotesStand DEF RowsStay, LInv

LEMMA LearningStep ==
    ASSUME LInv, [LNext]_lvars PROVE LInv' /\ RulesAnswered
<1>1. CASE UNCHANGED lvars
  BY <1>1, SameRulesAnswered DEF lvars, LInv, LTypeOK, CallsQuote, Quoted, Exists
<1>2. CASE LNext
  BY <1>2, ObservingStep, ReceiptStep, ReadingStep, ApproveStep, EditStep, ChangeStateStep,
     ConfirmStep, OtherEnds, SameRulesAnswered DEF LNext
<1>3. QED
  BY <1>1, <1>2

LEMMA LearningInvariant == LSpec => []LInv
<1>1. LInit => LInv
  <2> SUFFICES ASSUME LInit PROVE LInv
    OBVIOUS
  <2>1. \A r \in DOMAIN Given : ApprovedRule(Given[r].text, Given[r].from) \in RuleRow
    BY GivenFits, EditsBounded DEF ApprovedRule, RuleRow, Injectable
  <2>2. LTypeOK
    BY <2>1 DEF LInit, LTypeOK
  <2>3. QED
    BY <2>2 DEF LInit, LInv, CallsQuote
<1>2. LInv /\ [LNext]_lvars => LInv'
  BY LearningStep
<1>3. QED
  BY <1>1, <1>2, PTL DEF LSpec

\* The rows of the store and what the commands took from them keep their
\* types: in particular every link between rules ends at rules.
THEOREM LearningTypeCorrect == LSpec => []LTypeOK
<1>1. LInv => LTypeOK
  BY DEF LInv
<1>2. QED
  BY <1>1, LearningInvariant, PTL

\* A rule comes into being, changes its words or is silenced only by spending
\* an answer to that very question, for any number of commands that race for
\* one token or for one rule.
THEOREM NothingUnansweredHolds == LSpec => NothingUnanswered
<1>1. LInv /\ [LNext]_lvars => RulesAnswered
  BY LearningStep
<1>2. QED
  BY <1>1, LearningInvariant, PTL DEF LSpec, NothingUnanswered, RulesAnswered

\* An approval that saw an alert quotes an answer that goes past one, of a
\* candidate the alert stands before.
SawAtGate(d) == d.does.kind = "approve" =>
    \A n \in d.saw : "alert" \in d.does.past /\ d.does.on \in Gates[n]
CallsSaw == \A k \in Askers : call[k] # NoCommand => SawAtGate(call[k])

LEMMA DecidedSaw ==
    ASSUME NEW q, NEW x, Allowed(q) PROVE SawAtGate(Decided(q, x))
<1>1. q.kind = "approve" => ("alert" \in q.past \/ BlockingAlerts(q.on) = {})
  BY DEF Allowed, MayApprove, ApprovalGuards
<1>2. \A n \in BlockingAlerts(q.on) : q.on \in Gates[n]
  BY DEF BlockingAlerts
<1> QED
  BY <1>1, <1>2 DEF SawAtGate, Decided

\* A command goes on as it is, ends, or begins with what its checks found.
LEMMA CallsBegin ==
    ASSUME LInv, [LNext]_lvars, NEW j \in Askers
    PROVE  \/ call'[j] \in {call[j], NoCommand}
           \/ \E q, x : Allowed(q) /\ call'[j] = Decided(q, x)
<1>1. call \in [Askers -> Command \cup {NoCommand}]
  BY DEF LInv, LTypeOK
<1>2. ASSUME NEW k \in Askers, NEW q, NEW x, Allowed(q),
             call' = [call EXCEPT ![k] = Decided(q, x)]
      PROVE  call'[j] = call[j] \/ call'[j] = Decided(q, x)
  <2> DEFINE e == Decided(q, x)
  <2>1. call' = [call EXCEPT ![k] = e]
    BY <1>2
  <2> HIDE DEF e
  <2>2. call'[j] = call[j] \/ call'[j] = e
    BY <1>1, <2>1
  <2> QED
    BY <2>2 DEF e
<1>3. ASSUME NEW k \in Askers, Check(k) \/ CheckUnasked(k)
      PROVE  call'[j] = call[j] \/ \E q, x : Allowed(q) /\ call'[j] = Decided(q, x)
  <2>1. \E q, x : Allowed(q) /\ call' = [call EXCEPT ![k] = Decided(q, x)]
    BY <1>3 DEF Check, CheckUnasked
  <2> QED
    BY <1>2, <2>1
<1>4. ASSUME NEW k \in Askers,
             \/ Approve(k) \/ Edit(k) \/ ChangeState(k) \/ Resolve(k)
             \/ ConfirmUse(k) \/ Reject(k) \/ MergeInto(k) \/ Abandon(k)
      PROVE  call'[j] \in {call[j], NoCommand}
  <2>1. Done(k)
    BY <1>4 DEF Approve, Edit, ChangeState, Resolve, ConfirmUse, Reject, MergeInto, Abandon
  <2> QED
    BY <1>1, <2>1 DEF Done
<1>5. CASE UNCHANGED call
  BY <1>5
<1> QED
  BY <1>3, <1>4, <1>5
     DEF LNext, lvars, Capture, RaiseAlert, AddEvidence, Mint, Expire

LEMMA CallsSawStep ==
    ASSUME LInv, CallsSaw, [LNext]_lvars PROVE CallsSaw'
<1> SUFFICES ASSUME NEW j \in Askers, call'[j] # NoCommand PROVE SawAtGate(call'[j])
  BY DEF CallsSaw, SawAtGate
<1>1. call'[j] = call[j] \/ \E q, x : Allowed(q) /\ call'[j] = Decided(q, x)
  BY CallsBegin
<1> QED
  BY <1>1, DecidedSaw DEF CallsSaw

AlertAnswered(n) == ForcedByAnswer(n) /\ ResolvedByAnswer(n) /\ StaysResolved(n)

LEMMA AlertsStep ==
    ASSUME LInv, CallsSaw, [LNext]_lvars, NEW n \in Alerts
    PROVE  AlertAnswered(n)
<1>0. alerts \in [Alerts -> {Unwritten, "open", "forced", "resolved"}]
  BY DEF LInv, LTypeOK
<1>1. ASSUME NEW k \in Askers, Approve(k)
      PROVE  AlertAnswered(n)
  <2> DEFINE q == call[k].does
  <2>1. /\ call[k] # NoCommand /\ q.kind = "approve" /\ Spend(k)
        /\ alerts' = [m \in Alerts |-> IF m \in Overridden(k) THEN "forced" ELSE alerts[m]]
    BY <1>1 DEF Approve, Doing
  <2>2. q \in Approvals /\ q \in Questions
    BY <2>1, UnderWay, KindsTellApart DEF Questions
  <2>3. Answered(q)
    BY <2>1, <2>2, SpendAnswers
  <2>4. n \in Overridden(k) => "alert" \in q.past /\ q.on \in Gates[n] /\ alerts[n] = "open"
    BY <2>1 DEF CallsSaw, SawAtGate, Overridden
  <2>5. alerts'[n] = IF n \in Overridden(k) THEN "forced" ELSE alerts[n]
    BY <2>1
  <2> HIDE DEF q
  <2>6. ForcedByAnswer(n)
    BY <2>2, <2>3, <2>4, <2>5 DEF ForcedByAnswer
  <2>7. ResolvedByAnswer(n) /\ StaysResolved(n)
    BY <2>4, <2>5 DEF ResolvedByAnswer, StaysResolved
  <2> QED
    BY <2>6, <2>7 DEF AlertAnswered
<1>2. ASSUME NEW k \in Askers, Resolve(k)
      PROVE  AlertAnswered(n)
  <2> DEFINE q == call[k].does
  <2>1. /\ call[k] # NoCommand /\ q.kind = "resolve-note" /\ Spend(k)
        /\ alerts' = [alerts EXCEPT ![q.on] = "resolved"]
    BY <1>2 DEF Resolve, Doing
  <2>2. q \in Resolutions /\ q \in Questions
    BY <2>1, UnderWay, KindsTellApart DEF Questions
  <2>3. Answered(q)
    BY <2>1, <2>2, SpendAnswers
  <2>4. q = [kind |-> "resolve-note", on |-> q.on] /\ q.on \in Alerts
    BY <2>2 DEF Resolutions
  <2>5. alerts'[n] = IF n = q.on THEN "resolved" ELSE alerts[n]
    BY <1>0, <2>1, <2>4
  <2>6. CASE n = q.on
    <3>1. Answered([kind |-> "resolve-note", on |-> n])
      BY <2>3, <2>4, <2>6
    <3> QED
      BY <2>5, <2>6, <3>1 DEF AlertAnswered, ForcedByAnswer, ResolvedByAnswer, StaysResolved
  <2>7. CASE n # q.on
    BY <2>5, <2>7 DEF AlertAnswered, ForcedByAnswer, ResolvedByAnswer, StaysResolved
  <2> QED
    BY <2>6, <2>7
<1>3. ASSUME NEW m \in Alerts, RaiseAlert(m)
      PROVE  AlertAnswered(n)
  BY <1>0, <1>3, NoRowOfLearning
     DEF RaiseAlert, AlertAnswered, ForcedByAnswer, ResolvedByAnswer, StaysResolved
<1>4. CASE UNCHANGED alerts
  BY <1>4 DEF AlertAnswered, ForcedByAnswer, ResolvedByAnswer, StaysResolved
<1> QED
  BY <1>1, <1>2, <1>3, <1>4
     DEF LNext, lvars, Capture, AddEvidence, Mint, Expire, Check, CheckUnasked,
         Edit, ChangeState, ConfirmUse, Reject, MergeInto, Abandon

\* A critical alert is forced past only by spending an answer that goes past
\* an alert before that candidate, and resolved only by an answer about it,
\* for any number of alerts that are raised, forced or resolved between the
\* two halves of an approval.
THEOREM AlertsFallByAnswerHolds == LSpec => AlertsFallByAnswer
<1>1. LInit => CallsSaw
  BY DEF LInit, CallsSaw
<1>2. LInv /\ CallsSaw /\ [LNext]_lvars => CallsSaw'
  BY CallsSawStep
<1>3. LSpec => []CallsSaw
  BY <1>1, <1>2, LearningInvariant, PTL DEF LSpec
<1>4. LInv /\ CallsSaw /\ [LNext]_lvars => [\A n \in Alerts : AlertAnswered(n)]_lvars
  BY AlertsStep
<1> QED
  BY <1>3, <1>4, LearningInvariant, PTL DEF LSpec, AlertsFallByAnswer, AlertAnswered

-----------------------------------------------------------------------------
(* The contract, the meter and the gate *)

Ceilings == [Meters -> Nat \cup {NoCeiling}]

\* What a check may hold while the chain is c.
Verdict(c) == [asks : Requests, revision : 0 .. Len(c),
               answer : {"none", "refused", "breaker", "allowed"}]

\* A revision rests on a signature since which nothing was ended.
Rests(c, i) == \E j \in 1 .. i :
    /\ c[j].kind \in {"sign", "amend"} /\ c[j].mandate = c[i].mandate
    /\ \A n \in j .. i : c[n].state \in {"live", "paused"}

SignedInv == \A i \in 1 .. Len(chain) :
    chain[i].state \in {"live", "paused"} => Rests(chain, i)

CheckInv == \A g \in Checkers : Reading(g) =>
    LET r == chain[check[g].revision]
    IN  /\ check[g].revision \in 1 .. Len(chain)
        /\ r.state = "live"
        /\ check[g].asks \in r.mandate.covers \ Floors

\* The breaker's alerts by the sums at the last signature and now.
MeterInv ==
    /\ \A k \in Meters : atSign[k] <= spent[k]
    /\ ~Signed => told = Quiet
    /\ Signed =>
         LET ceiling == Latest.mandate.ceiling
         IN  /\ told.soft <= 1 /\ told.hard <= 1
             /\ told.hard = 1 <=> SpentUp(spent, ceiling) /\ ~SpentUp(atSign, ceiling)
             /\ told.soft = 1 => SpendVerdict(spent, ceiling) # "ok"

-----------------------------------------------------------------------------
(* Chains and sums *)

LEMMA Appended ==
    ASSUME NEW c \in Seq(Revisions), NEW r \in Revisions
    PROVE  /\ Append(c, r) \in Seq(Revisions)
           /\ Len(Append(c, r)) = Len(c) + 1
           /\ Append(c, r)[Len(c) + 1] = r
           /\ \A i \in 1 .. Len(c) : Append(c, r)[i] = c[i]
OBVIOUS

LEMMA LatestType ==
    ASSUME CTypeCorrect, Signed
    PROVE  /\ Len(chain) \in Nat \ {0}
           /\ Latest \in Revisions
           /\ Latest.mandate.ceiling \in Ceilings
<1>1. Len(chain) \in Nat \ {0} /\ chain[Len(chain)] \in Revisions
  BY DEF CTypeCorrect, Signed
<1>2. Latest.mandate \in Mandates
  BY <1>1 DEF Latest, Revisions
<1> QED
  BY <1>1, <1>2, MandatesKnown DEF Latest, Ceilings

LEMMA PlusGrows ==
    ASSUME NEW sums \in [Meters -> Nat], NEW a \in Amounts
    PROVE  /\ Plus(sums, a) \in [Meters -> Nat]
           /\ \A k \in Meters : sums[k] <= Plus(sums, a)[k]
<1>1. a \in [Meters -> Nat]
  BY AmountsPositive
<1>2. \A k \in Meters : sums[k] \in Nat /\ a[k] \in Nat /\ Plus(sums, a)[k] = sums[k] + a[k]
  BY <1>1 DEF Plus
<1> QED
  BY <1>2 DEF Plus

\* A line once crossed stays crossed while the sums grow.
LEMMA SpentUpMonotone ==
    ASSUME NEW s \in [Meters -> Nat], NEW t \in [Meters -> Nat],
           NEW ceiling \in Ceilings, \A k \in Meters : s[k] <= t[k]
    PROVE  /\ SpentUp(s, ceiling) => SpentUp(t, ceiling)
           /\ NearlySpentUp(s, ceiling) => NearlySpentUp(t, ceiling)
<1>1. \A k \in Meters : ceiling[k] # NoCeiling => ceiling[k] \in Nat
  BY DEF Ceilings
<1>2. ASSUME SpentUp(s, ceiling)
      PROVE  SpentUp(t, ceiling)
  BY <1>1, <1>2 DEF SpentUp
<1>3. ASSUME NearlySpentUp(s, ceiling)
      PROVE  NearlySpentUp(t, ceiling)
  BY <1>1, <1>3 DEF NearlySpentUp
<1> QED
  BY <1>2, <1>3

LEMMA VerdictNotOk ==
    ASSUME NEW sums, NEW ceiling
    PROVE  /\ SpendVerdict(sums, ceiling) \in {"ok", "soft-stop", "hard-stop"}
           /\ SpendVerdict(sums, ceiling) = "hard-stop" <=> SpentUp(sums, ceiling)
           /\ SpendVerdict(sums, ceiling) # "ok" <=>
                 SpentUp(sums, ceiling) \/ NearlySpentUp(sums, ceiling)
BY DEF SpendVerdict

-----------------------------------------------------------------------------
(* Types *)

LEMMA TypeInit == CInit => CTypeCorrect
BY DEF CInit, CTypeCorrect, Unspent, Quiet

LEMMA AddsType ==
    ASSUME CTypeCorrect, NEW kind \in {"sign", "amend", "state"},
           NEW state \in {"live", "paused", "stopped", "revoked"}, NEW m \in Mandates,
           Adds(kind, state, m)
    PROVE  /\ chain' \in Seq(Revisions)
           /\ Len(chain') = Len(chain) + 1
           /\ chain'[Len(chain) + 1] = [kind |-> kind, state |-> state, mandate |-> m]
           /\ \A i \in 1 .. Len(chain) : chain'[i] = chain[i]
<1>1. [kind |-> kind, state |-> state, mandate |-> m] \in Revisions
  BY DEF Revisions
<1> QED
  BY <1>1, Appended DEF Adds, CTypeCorrect

\* A longer chain leaves every check well typed.
LEMMA ChecksStay ==
    ASSUME CTypeCorrect, Len(chain') = Len(chain) + 1, UNCHANGED check
    PROVE  check' \in [Checkers -> {NoCheck} \cup Verdict(chain')]
<1>1. Len(chain) \in Nat
  BY DEF CTypeCorrect
<1>2. 0 .. Len(chain) \subseteq 0 .. Len(chain')
  BY <1>1
<1> QED
  BY <1>2 DEF CTypeCorrect, Verdict

LEMMA SignStep ==
    ASSUME CTypeCorrect, NEW m \in Mandates, NEW supersede \in BOOLEAN,
           SignContract(m, supersede)
    PROVE  CTypeCorrect'
<1>1. PICK kind \in {"sign", "amend", "state"} : Adds(kind, "live", m)
  BY DEF SignContract
<1>2. chain' \in Seq(Revisions) /\ Len(chain') = Len(chain) + 1
  BY <1>1, AddsType
<1> QED
  BY <1>2, ChecksStay DEF SignContract, CTypeCorrect, Quiet, Verdict

LEMMA StateStep ==
    ASSUME CTypeCorrect, NEW state \in {"live", "paused", "stopped", "revoked"},
           SetContractState(state)
    PROVE  /\ CTypeCorrect'
           /\ Adds("state", state, Latest.mandate)
           /\ Latest.mandate \in Mandates
<1>1. Latest.mandate \in Mandates
  BY LatestType DEF SetContractState, Revisions
<1>2. Adds("state", state, Latest.mandate)
  BY DEF SetContractState
<1>3. chain' \in Seq(Revisions) /\ Len(chain') = Len(chain) + 1
  BY <1>1, <1>2, AddsType
<1> QED
  BY <1>1, <1>2, <1>3, ChecksStay DEF SetContractState, CTypeCorrect, Verdict

LEMMA TripsType ==
    ASSUME NEW before, NEW after
    PROVE  Trips(before, after) \in [soft : {0, 1}, hard : {0, 1}]
BY DEF Trips

LEMMA SpendStep ==
    ASSUME CTypeCorrect, NEW a \in Amounts, RecordSpend(a)
    PROVE  CTypeCorrect'
<1>1. spent' = Plus(spent, a)
  BY DEF RecordSpend
<1>2. spent' \in [Meters -> Nat]
  BY <1>1, PlusGrows DEF CTypeCorrect
<1>3. PICK trips \in [soft : {0, 1}, hard : {0, 1}] :
        told' = [soft |-> told.soft + trips.soft, hard |-> told.hard + trips.hard]
  BY TripsType DEF RecordSpend
<1>4. told' \in [soft : Nat, hard : Nat]
  BY <1>3 DEF CTypeCorrect
<1> QED
  BY <1>2, <1>4 DEF RecordSpend, CTypeCorrect

LEMMA GateStep ==
    ASSUME CTypeCorrect, NEW g \in Checkers,
           GateReadContract(g) \/ GateReadSpend(g) \/ GateDone(g)
    PROVE  CTypeCorrect'
<1>1. Len(chain) \in 0 .. Len(chain)
  BY DEF CTypeCorrect
<1>0. check \in [Checkers -> {NoCheck} \cup Verdict(chain)]
  BY DEF CTypeCorrect, Verdict
<1>2. check' \in [Checkers -> {NoCheck} \cup Verdict(chain)]
  <2>1. CASE GateReadContract(g)
    <3>1. PICK a \in Verdict(chain) : check' = [check EXCEPT ![g] = a]
      BY <1>1, <2>1 DEF GateReadContract, Verdict
    <3> QED
      BY <1>0, <3>1
  <2>2. CASE GateReadSpend(g)
    <3>1. check[g] \in Verdict(chain)
      BY <1>0, <2>2 DEF GateReadSpend, Reading
    <3>2. PICK answer \in {"breaker", "allowed"} :
            check' = [check EXCEPT ![g] = [check[g] EXCEPT !.answer = answer]]
      BY <2>2 DEF GateReadSpend
    <3>3. [check[g] EXCEPT !.answer = answer] \in Verdict(chain)
      BY <3>1, <3>2 DEF Verdict
    <3> QED
      BY <1>0, <3>2, <3>3
  <2>3. CASE GateDone(g)
    BY <1>0, <2>3 DEF GateDone
  <2> QED
    BY <2>1, <2>2, <2>3
<1>3. UNCHANGED <<chain, spent, told, atSign>>
  BY DEF GateReadContract, GateReadSpend, GateDone
<1> QED
  BY <1>2, <1>3 DEF CTypeCorrect, Verdict

LEMMA TypeStep ==
    ASSUME CTypeCorrect, [CNext]_cvars
    PROVE  CTypeCorrect'
<1>1. CASE UNCHANGED cvars
  BY <1>1 DEF cvars, CTypeCorrect
<1> QED
  BY <1>1, SignStep, StateStep, SpendStep, GateStep DEF CNext

\* The contract, the meter and the gate stay well typed, for all constants.
THEOREM ContractTypeCorrect == CSpec => []CTypeCorrect
BY TypeInit, TypeStep, PTL DEF CSpec

-----------------------------------------------------------------------------
(* What a step does to the chain *)

\* A step leaves the chain alone or appends one revision, which is a new
\* signature or copies the newest one in another state.
LEMMA ChainStep ==
    ASSUME CTypeCorrect, [CNext]_cvars
    PROVE  \/ UNCHANGED chain
           \/ /\ Len(chain') = Len(chain) + 1
              /\ \A i \in 1 .. Len(chain) : chain'[i] = chain[i]
              /\ LET r == chain'[Len(chain) + 1]
                 IN  \/ r.kind \in {"sign", "amend"} /\ r.state = "live"
                     \/ /\ Signed /\ r.state \in LegalStates(Latest.state)
                        /\ r.mandate = Latest.mandate
<1>1. ASSUME NEW m \in Mandates, NEW supersede \in BOOLEAN, SignContract(m, supersede)
      PROVE  /\ Len(chain') = Len(chain) + 1
             /\ \A i \in 1 .. Len(chain) : chain'[i] = chain[i]
             /\ chain'[Len(chain) + 1].kind \in {"sign", "amend"}
             /\ chain'[Len(chain) + 1].state = "live"
  <2>1. PICK kind \in {"sign", "amend"} : Adds(kind, "live", m)
    BY <1>1 DEF SignContract
  <2>2. chain'[Len(chain) + 1] = [kind |-> kind, state |-> "live", mandate |-> m]
    BY <2>1, AddsType
  <2>3. Len(chain') = Len(chain) + 1 /\ \A i \in 1 .. Len(chain) : chain'[i] = chain[i]
    BY <2>1, AddsType
  <2> QED
    BY <2>2, <2>3
<1>2. ASSUME NEW state \in {"live", "paused", "stopped", "revoked"}, SetContractState(state)
      PROVE  /\ Len(chain') = Len(chain) + 1
             /\ \A i \in 1 .. Len(chain) : chain'[i] = chain[i]
             /\ Signed /\ chain'[Len(chain) + 1].state \in LegalStates(Latest.state)
             /\ chain'[Len(chain) + 1].mandate = Latest.mandate
  <2>1. Adds("state", state, Latest.mandate) /\ Latest.mandate \in Mandates
    BY <1>2, StateStep
  <2>2. chain'[Len(chain) + 1] = [kind |-> "state", state |-> state, mandate |-> Latest.mandate]
    BY <2>1, AddsType
  <2>3. Len(chain') = Len(chain) + 1 /\ \A i \in 1 .. Len(chain) : chain'[i] = chain[i]
    BY <2>1, AddsType
  <2> QED
    BY <1>2, <2>2, <2>3 DEF SetContractState
<1>3. ASSUME NEW a \in Amounts, RecordSpend(a)
      PROVE  UNCHANGED chain
  BY <1>3 DEF RecordSpend
<1>4. ASSUME NEW g \in Checkers, GateReadContract(g) \/ GateReadSpend(g) \/ GateDone(g)
      PROVE  UNCHANGED chain
  BY <1>4 DEF GateReadContract, GateReadSpend, GateDone
<1>5. CASE UNCHANGED cvars
  BY <1>5 DEF cvars
<1> QED
  BY <1>1, <1>2, <1>3, <1>4, <1>5 DEF CNext

LEMMA RestsStays ==
    ASSUME NEW c, NEW d, NEW n \in Nat, \A i \in 1 .. n : d[i] = c[i],
           NEW i \in 1 .. n, Rests(c, i)
    PROVE  Rests(d, i)
<1>1. PICK j \in 1 .. i :
        /\ c[j].kind \in {"sign", "amend"} /\ c[j].mandate = c[i].mandate
        /\ \A m \in j .. i : c[m].state \in {"live", "paused"}
  BY DEF Rests
<1>2. \A m \in j .. i : d[m] = c[m]
  BY <1>1
<1>3. d[j] = c[j] /\ d[i] = c[i]
  BY <1>1
<1> QED
  BY <1>1, <1>2, <1>3 DEF Rests

LEMMA SignedStep ==
    ASSUME CTypeCorrect, SignedInv, [CNext]_cvars
    PROVE  SignedInv'
<1> DEFINE n == Len(chain)
<1>1. n \in Nat
  BY DEF CTypeCorrect
<1>2. CASE UNCHANGED chain
  BY <1>2 DEF SignedInv
<1>3. ASSUME Len(chain') = n + 1, \A i \in 1 .. n : chain'[i] = chain[i],
             \/ /\ chain'[n + 1].kind \in {"sign", "amend"}
                /\ chain'[n + 1].state = "live"
             \/ /\ Signed /\ chain'[n + 1].state \in LegalStates(Latest.state)
                /\ chain'[n + 1].mandate = Latest.mandate
      PROVE  SignedInv'
  <2>1. ASSUME NEW i \in 1 .. n, chain'[i].state \in {"live", "paused"}
        PROVE  Rests(chain', i)
    BY <1>1, <1>3, <2>1, RestsStays DEF SignedInv
  <2>2. ASSUME chain'[n + 1].state \in {"live", "paused"}
        PROVE  Rests(chain', n + 1)
    <3>1. CASE chain'[n + 1].kind \in {"sign", "amend"} /\ chain'[n + 1].state = "live"
      <4>1. \A m \in (n + 1) .. (n + 1) : m = n + 1
        BY <1>1
      <4>2. n + 1 \in 1 .. (n + 1)
        BY <1>1
      <4> QED
        BY <3>1, <4>1, <4>2 DEF Rests
    <3>2. CASE /\ Signed /\ chain'[n + 1].state \in LegalStates(Latest.state)
               /\ chain'[n + 1].mandate = Latest.mandate
      <4>1. n \in 1 .. n /\ Latest = chain[n] /\ Latest \in Revisions
        BY <3>2, LatestType DEF Latest
      <4>2. Latest.state \in {"live", "paused"}
        BY <2>2, <3>2, <4>1 DEF LegalStates, Revisions
      <4>3. PICK j \in 1 .. n :
              /\ chain[j].kind \in {"sign", "amend"} /\ chain[j].mandate = chain[n].mandate
              /\ \A m \in j .. n : chain[m].state \in {"live", "paused"}
        BY <4>1, <4>2 DEF SignedInv, Rests
      <4>4. j \in 1 .. (n + 1) /\ chain'[j] = chain[j]
        BY <1>1, <1>3, <4>3
      <4>5. chain'[n + 1].mandate = chain'[j].mandate
        BY <3>2, <4>1, <4>3, <4>4
      <4>6. ASSUME NEW m \in j .. (n + 1)
            PROVE  chain'[m].state \in {"live", "paused"}
        <5>1. CASE m = n + 1
          BY <2>2, <5>1
        <5>2. CASE m # n + 1
          <6>1. m \in j .. n /\ m \in 1 .. n
            BY <1>1, <4>3, <4>6, <5>2
          <6> QED
            BY <1>3, <4>3, <6>1
        <5> QED
          BY <5>1, <5>2
      <4> QED
        BY <4>3, <4>4, <4>5, <4>6 DEF Rests
    <3> QED
      BY <1>3, <3>1, <3>2
  <2>3. \A i \in 1 .. (n + 1) : i \in 1 .. n \/ i = n + 1
    BY <1>1
  <2> QED
    BY <1>3, <2>1, <2>2, <2>3 DEF SignedInv
<1> QED
  BY <1>2, <1>3, ChainStep

\* Authority is what a founder signed: a live revision says what a signature
\* says since which the contract was never stopped or revoked, through
\* pauses and resumptions without end (AUTONOMY_STATE_TRANSITIONS).
THEOREM LiveMeansSignedHolds == CSpec => []LiveMeansSigned
<1>1. CInit => SignedInv
  BY DEF CInit, SignedInv
<1>2. CTypeCorrect /\ SignedInv => LiveMeansSigned
  <2>1. SUFFICES ASSUME CTypeCorrect, SignedInv, NEW i \in DOMAIN chain,
                        chain[i].state = "live"
                 PROVE  Rests(chain, i)
    BY DEF LiveMeansSigned, Rests
  <2>2. i \in 1 .. Len(chain)
    BY <2>1 DEF CTypeCorrect
  <2> QED
    BY <2>1, <2>2 DEF SignedInv
<1> QED
  BY <1>1, <1>2, SignedStep, ContractTypeCorrect, PTL DEF CSpec

-----------------------------------------------------------------------------
(* The gate *)

LEMMA CheckStep ==
    ASSUME CTypeCorrect, CheckInv, [CNext]_cvars
    PROVE  CheckInv'
<1> DEFINE n == Len(chain)
           Good(a, c) == /\ a.revision \in 1 .. Len(c)
                         /\ c[a.revision].state = "live"
                         /\ a.asks \in c[a.revision].mandate.covers \ Floors
<1>1. n \in Nat
  BY DEF CTypeCorrect
<1>2. \A g \in Checkers : Reading(g) => Good(check[g], chain)
  BY DEF CheckInv
<1>3. CASE UNCHANGED <<chain, check>>
  BY <1>3 DEF CheckInv, Reading
<1>4. CASE UNCHANGED check /\ ~UNCHANGED chain
  <2>1. Len(chain') = n + 1 /\ \A i \in 1 .. n : chain'[i] = chain[i]
    BY <1>4, ChainStep
  <2>2. \A g \in Checkers : Reading(g) => Good(check[g], chain')
    BY <1>1, <1>2, <2>1
  <2> QED
    BY <1>4, <2>2 DEF CheckInv, Reading
<1>5. ASSUME NEW g \in Checkers, UNCHANGED chain,
             \E a : /\ check' = [check EXCEPT ![g] = a]
                    /\ a # NoCheck /\ a.answer = "none" => Good(a, chain)
      PROVE  CheckInv'
  <2>1. PICK a : /\ check' = [check EXCEPT ![g] = a]
                 /\ a # NoCheck /\ a.answer = "none" => Good(a, chain)
    BY <1>5
  <2>2. \A h \in Checkers : Reading(h)' => Good(check'[h], chain)
    BY <1>2, <2>1 DEF CTypeCorrect, Reading
  <2> QED
    BY <1>5, <2>2 DEF CheckInv
<1>6. ASSUME NEW g \in Checkers, GateReadContract(g)
      PROVE  CheckInv'
  <2>1. PICK r \in Requests :
          check' = [check EXCEPT ![g] =
            [asks |-> r, revision |-> n,
             answer |-> IF IsLive /\ r \notin Floors /\ r \in Latest.mandate.covers
                        THEN "none" ELSE "refused"]]
    BY <1>6 DEF GateReadContract
  <2>2. ASSUME IsLive, r \notin Floors, r \in Latest.mandate.covers
        PROVE  Good([asks |-> r, revision |-> n, answer |-> "none"], chain)
    BY <1>1, <2>2, LatestType DEF IsLive, Latest
  <2> DEFINE a == [asks |-> r, revision |-> n,
                   answer |-> IF IsLive /\ r \notin Floors /\ r \in Latest.mandate.covers
                              THEN "none" ELSE "refused"]
  <2>3. a.answer = "none" => Good(a, chain)
    BY <2>2
  <2> HIDE DEF a, Good
  <2>4. check' = [check EXCEPT ![g] = a] /\ UNCHANGED chain
    BY <1>6, <2>1 DEF a, GateReadContract
  <2> QED
    BY <1>5, <2>3, <2>4
<1>7. ASSUME NEW g \in Checkers, GateReadSpend(g)
      PROVE  CheckInv'
  <2>1. PICK answer \in {"breaker", "allowed"} :
          check' = [check EXCEPT ![g].answer = answer]
    BY <1>7 DEF GateReadSpend
  <2>2. check[g] \in Verdict(chain)
    BY <1>7 DEF GateReadSpend, Reading, CTypeCorrect, Verdict
  <2>3. [check[g] EXCEPT !.answer = answer].answer # "none"
    BY <2>1, <2>2 DEF Verdict
  <2> HIDE DEF Good
  <2>4. check' = [check EXCEPT ![g] = [check[g] EXCEPT !.answer = answer]] /\ UNCHANGED chain
    BY <1>7, <2>1 DEF GateReadSpend
  <2> QED
    BY <1>5, <2>3, <2>4
<1>8. ASSUME NEW g \in Checkers, GateDone(g)
      PROVE  CheckInv'
  <2> HIDE DEF Good
  <2> QED
    BY <1>5, <1>8 DEF GateDone
<1>9. \/ UNCHANGED check
      \/ \E g \in Checkers : GateReadContract(g) \/ GateReadSpend(g) \/ GateDone(g)
  BY DEF CNext, cvars, SignContract, SetContractState, RecordSpend
<1> QED
  BY <1>3, <1>4, <1>6, <1>7, <1>8, <1>9

LEMMA VerdictStep ==
    ASSUME CTypeCorrect, CheckInv, [CNext]_cvars, NEW g \in Checkers,
           Reading(g), check'[g] # NoCheck, check'[g].answer = "allowed"
    PROVE  LET r == chain[check'[g].revision]
           IN  /\ r.state = "live"
               /\ check[g].asks \in r.mandate.covers \ Floors
               /\ ~SpentUp(spent, r.mandate.ceiling)
<1>1. check[g].answer = "none" /\ check[g] # NoCheck
  BY DEF Reading
<1>2. PICK h \in Checkers : GateReadContract(h) \/ GateReadSpend(h) \/ GateDone(h)
  BY <1>1 DEF CNext, cvars, SignContract, SetContractState, RecordSpend
<1>3. h = g
  BY <1>1, <1>2 DEF GateReadContract, GateReadSpend, GateDone, CTypeCorrect
<1>4. GateReadSpend(g)
  BY <1>1, <1>2, <1>3 DEF GateReadContract, GateDone, CTypeCorrect
<1>5. check[g] \in Verdict(chain)
  BY <1>1 DEF CTypeCorrect, Verdict
<1>6. /\ check'[g].revision = check[g].revision
      /\ check'[g].answer = IF SpendVerdict(spent, CeilingOf(g)) = "hard-stop"
                            THEN "breaker" ELSE "allowed"
  BY <1>4, <1>5 DEF GateReadSpend, CTypeCorrect, Verdict
<1>7. ~SpentUp(spent, CeilingOf(g))
  BY <1>6, VerdictNotOk
<1> QED
  BY <1>6, <1>7 DEF CheckInv, CeilingOf

\* An action is allowed by one revision alone, whatever was signed, spent or
\* stopped while the gate read (gate_check, _spend_totals_from).
THEOREM VerdictOfOneRevisionHolds == CSpec => VerdictOfOneRevision
<1>1. CInit => CheckInv
  BY DEF CInit, CheckInv, Reading
<1>2. CTypeCorrect /\ CheckInv /\ [CNext]_cvars =>
        [\A g \in Checkers :
            Reading(g) /\ check'[g] # NoCheck /\ check'[g].answer = "allowed" =>
                LET r == chain[check'[g].revision]
                IN  /\ r.state = "live"
                    /\ check[g].asks \in r.mandate.covers \ Floors
                    /\ ~SpentUp(spent, r.mandate.ceiling)]_cvars
  BY VerdictStep
<1> QED
  BY <1>1, <1>2, CheckStep, ContractTypeCorrect, PTL DEF CSpec, VerdictOfOneRevision

-----------------------------------------------------------------------------
(* The breaker *)

LEMMA MeterSpend ==
    ASSUME CTypeCorrect, MeterInv, NEW a \in Amounts, RecordSpend(a)
    PROVE  MeterInv'
<1> DEFINE ceiling == Latest.mandate.ceiling
           sums == Plus(spent, a)
           before == SpendVerdict(spent, ceiling)
           after == SpendVerdict(sums, ceiling)
<1>1. /\ Signed /\ Signed' /\ Latest' = Latest
      /\ spent' = sums /\ atSign' = atSign
      /\ told'.soft = told.soft + Trips(before, after).soft
      /\ told'.hard = told.hard + Trips(before, after).hard
  BY DEF RecordSpend, IsLive, Signed, Latest
<1>2. /\ spent \in [Meters -> Nat] /\ atSign \in [Meters -> Nat]
      /\ told.soft \in Nat /\ told.hard \in Nat
      /\ ceiling \in Ceilings
  BY <1>1, LatestType DEF CTypeCorrect
<1>3. sums \in [Meters -> Nat] /\ \A k \in Meters : spent[k] <= sums[k]
  BY <1>2, PlusGrows
<1>4. \A k \in Meters : atSign[k] <= spent[k]
  BY DEF MeterInv
<1> HIDE DEF ceiling, sums
<1>5. ASSUME NEW k \in Meters
      PROVE  atSign[k] <= sums[k]
  <2>1. atSign[k] \in Nat /\ spent[k] \in Nat /\ sums[k] \in Nat
    BY <1>2, <1>3
  <2>2. atSign[k] <= spent[k] /\ spent[k] <= sums[k]
    BY <1>3, <1>4
  <2> QED
    BY <2>1, <2>2
<1>6. /\ SpentUp(spent, ceiling) => SpentUp(sums, ceiling)
      /\ NearlySpentUp(spent, ceiling) => NearlySpentUp(sums, ceiling)
      /\ SpentUp(atSign, ceiling) => SpentUp(spent, ceiling)
  BY <1>2, <1>3, <1>4, SpentUpMonotone
<1>7. /\ told.soft <= 1 /\ told.hard <= 1
      /\ told.hard = 1 <=> SpentUp(spent, ceiling) /\ ~SpentUp(atSign, ceiling)
      /\ told.soft = 1 => before # "ok"
  BY <1>1 DEF MeterInv, ceiling
<1>8. /\ before = "hard-stop" <=> SpentUp(spent, ceiling)
      /\ after = "hard-stop" <=> SpentUp(sums, ceiling)
      /\ before # "ok" => after # "ok"
  BY <1>6, VerdictNotOk
<1> HIDE DEF before, after
<1>9. /\ told'.soft <= 1 /\ told'.hard <= 1
      /\ told'.hard = 1 <=> SpentUp(sums, ceiling) /\ ~SpentUp(atSign, ceiling)
      /\ told'.soft = 1 => after # "ok"
  BY <1>1, <1>2, <1>6, <1>7, <1>8 DEF Trips
<1>10. Latest'.mandate.ceiling = ceiling
  BY <1>1 DEF ceiling
<1> QED
  BY <1>1, <1>5, <1>9, <1>10 DEF MeterInv, after

LEMMA MeterSign ==
    ASSUME CTypeCorrect, MeterInv, NEW m \in Mandates, NEW supersede \in BOOLEAN,
           SignContract(m, supersede)
    PROVE  MeterInv'
<1>1. told' = Quiet /\ atSign' = spent /\ spent' = spent
  BY DEF SignContract
<1>2. \A k \in Meters : spent[k] <= spent[k]
  BY DEF CTypeCorrect
<1> QED
  BY <1>1, <1>2 DEF MeterInv, Quiet

LEMMA MeterState ==
    ASSUME CTypeCorrect, MeterInv, NEW state \in {"live", "paused", "stopped", "revoked"},
           SetContractState(state)
    PROVE  MeterInv'
<1>1. UNCHANGED <<told, atSign, spent>> /\ Signed
  BY DEF SetContractState
<1>2. Adds("state", state, Latest.mandate) /\ Latest.mandate \in Mandates
  BY StateStep
<1>3. Len(chain) \in Nat /\ Len(chain') = Len(chain) + 1
      /\ chain'[Len(chain) + 1].mandate = Latest.mandate
  <2>1. chain'[Len(chain) + 1] =
          [kind |-> "state", state |-> state, mandate |-> Latest.mandate]
    BY <1>2, AddsType
  <2>2. Len(chain') = Len(chain) + 1
    BY <1>2, AddsType
  <2>3. Len(chain) \in Nat
    BY DEF CTypeCorrect
  <2> QED
    BY <2>1, <2>2, <2>3
<1>4. Latest'.mandate = Latest.mandate
  BY <1>3 DEF Latest
<1>5. Signed'
  BY <1>2, StateStep, AddsType, <1>3 DEF Signed
<1> QED
  BY <1>1, <1>4, <1>5 DEF MeterInv

LEMMA MeterStep ==
    ASSUME CTypeCorrect, MeterInv, [CNext]_cvars
    PROVE  MeterInv'
<1>1. CASE UNCHANGED <<chain, spent, told, atSign>>
  BY <1>1 DEF MeterInv, Signed, Latest
<1>2. ASSUME NEW g \in Checkers, GateReadContract(g) \/ GateReadSpend(g) \/ GateDone(g)
      PROVE  MeterInv'
  BY <1>1, <1>2 DEF GateReadContract, GateReadSpend, GateDone
<1> QED
  BY <1>1, <1>2, MeterSign, MeterState, MeterSpend DEF CNext, cvars

\* From one signature to the next the breaker speaks at most once at each
\* line, whichever meter crosses it, and has spoken at the ceiling exactly
\* when a spend below every ceiling at the signature reached one since
\* (record_spend).
THEOREM BreakerSpeaksOnceHolds == CSpec => []BreakerSpeaksOnce
<1>1. CInit => MeterInv
  BY DEF CInit, MeterInv, Unspent, Quiet, Signed
<1>2. CTypeCorrect /\ MeterInv => BreakerSpeaksOnce
  BY DEF MeterInv, BreakerSpeaksOnce, Quiet
<1> QED
  BY <1>1, <1>2, MeterStep, ContractTypeCorrect, PTL DEF CSpec
=============================================================================
