----------------------------- MODULE RuleIndex -----------------------------
(***************************************************************************)
(* The optional full-text index over the learned rules (tools/bm_store.py, *)
(* LOOP P7): a second copy of the rules that retrieval may be answered     *)
(* from.                                                                   *)
(*                                                                         *)
(* Only a process that was started with the index on keeps it: one that    *)
(* was not edits rules and leaves the index behind.  So a query compares   *)
(* the index with the rules before it asks it, and fills it again when the *)
(* two differ.  Opening, comparing and filling are statements of their own *)
(* in autocommit: each is a step here, and those of other processes come   *)
(* in between.                                                             *)
(*                                                                         *)
(* Abstractions.  The text of a rule is the number of its version.  A row  *)
(* of the index is a pair of rule and version, counted, because the table  *)
(* has no key.  A statement that the store's lock refuses is a step that   *)
(* may happen in place of any other (EndEarly, CompareUnread).             *)
(***************************************************************************)
EXTENDS Naturals

CONSTANTS
    Indexed,         \* rules that can come into being
    Openers,         \* processes over the one store
    NoTable,         \* the index table does not exist
    MaxRuleVersion   \* bound: the version no edit goes past

Rows == Indexed \X (1 .. MaxRuleVersion)

ASSUME VersionsBounded == MaxRuleVersion \in Nat
ASSUME NoTableIsNoIndex == NoTable \notin [Rows -> Nat]

VARIABLES
    current,   \* rule -> its current version, 0 before it is approved
    index,     \* row -> how often it is in the table, or NoTable
    proc       \* process -> where it is in what it does

xvars == <<current, index, proc>>

NoRows == [x \in Rows |-> 0]
Whole == [x \in Rows |-> IF current[x[1]] = x[2] THEN 1 ELSE 0]
WithoutRule(r) == [x \in Rows |-> IF x[1] = r THEN 0 ELSE index[x]]

\* What a process that does nothing remembers; on: it was started with the
\* index on, which its environment says (FTS5_ENV); since and others are kept for
\* the properties: the rules when the query began, and whether another
\* process has filled the index since.
Resting(on, ready) ==
    [at |-> "idle", on |-> on, ready |-> ready, for |-> "open", round |-> 1, todo |-> {},
     want |-> [r \in Indexed |-> 0], since |-> [r \in Indexed |-> 0], others |-> FALSE]

XInit ==
    /\ current = [r \in Indexed |-> 0]
    /\ index = NoTable
    /\ proc = [p \in Openers |-> [Resting(FALSE, FALSE) EXCEPT !.at = "closed"]]

At(p, place) == proc[p].at = place
Goes(p, changes) == proc' = [proc EXCEPT ![p] = changes]
\* The same, for a step that changes the rows as part of a filling.
GoesFilling(p, changes) ==
    proc' = [q \in Openers |-> IF q = p THEN changes
                               ELSE IF proc[q].at \in {"comparing", "matching", "reading", "inserting"}
                               THEN [proc[q] EXCEPT !.others = TRUE] ELSE proc[q]]

-----------------------------------------------------------------------------
(* Opening the store: _ensure_fts *)

OpenWithout(p) ==
    /\ At(p, "closed")
    /\ Goes(p, Resting(FALSE, FALSE)) /\ UNCHANGED <<current, index>>

OpenLook(p) ==
    /\ At(p, "closed")
    /\ Goes(p, [proc[p] EXCEPT !.on = TRUE, !.at = IF index = NoTable THEN "creating" ELSE "found"])
    /\ UNCHANGED <<current, index>>

\* CREATE TABLE IF NOT EXISTS; only a table this process took for new is filled.
OpenCreate(p) ==
    LET next == IF At(p, "found") THEN Resting(TRUE, TRUE)
                ELSE [proc[p] EXCEPT !.at = "emptying", !.for = "open"]
    IN  /\ proc[p].at \in {"creating", "found"}
        /\ \/ index = NoTable /\ index' = NoRows /\ GoesFilling(p, next)
           \/ index # NoTable /\ UNCHANGED index /\ Goes(p, next)
        /\ UNCHANGED current

-----------------------------------------------------------------------------
(* Filling the index: _fts_reindex_all *)

FillEmpty(p) ==
    /\ At(p, "emptying") /\ index # NoTable
    /\ index' = NoRows
    /\ GoesFilling(p, [proc[p] EXCEPT !.at = "reading"])
    /\ UNCHANGED current

FillRead(p) ==
    /\ At(p, "reading")
    /\ Goes(p, [proc[p] EXCEPT !.at = "inserting",
                               !.todo = {x \in Rows : current[x[1]] = x[2]}])
    /\ UNCHANGED <<current, index>>

FillInsert(p) ==
    /\ At(p, "inserting") /\ index # NoTable
    /\ \E x \in proc[p].todo :
         /\ index' = [index EXCEPT ![x] = @ + 1]
         /\ GoesFilling(p, [proc[p] EXCEPT !.todo = @ \ {x}])
    /\ UNCHANGED current

FillDone(p) ==
    /\ At(p, "inserting") /\ proc[p].todo = {}
    /\ Goes(p, IF proc[p].for = "open" THEN Resting(TRUE, TRUE)
               ELSE IF proc[p].ready THEN [proc[p] EXCEPT !.at = "asked", !.round = 2]
               ELSE [proc[p] EXCEPT !.at = "matching"])
    /\ UNCHANGED <<current, index>>

-----------------------------------------------------------------------------
(* A query: _fts_scores over _fts_reconcile over learning_fts_drift *)

Ask(p) ==
    /\ At(p, "idle") /\ proc[p].ready
    /\ Goes(p, [proc[p] EXCEPT !.at = "asked", !.for = "query"])
    /\ UNCHANGED <<current, index>>

ReadRules(p) ==
    /\ At(p, "asked")
    /\ Goes(p, [proc[p] EXCEPT !.at = "comparing", !.want = current,
                   !.since = IF proc[p].round = 1 THEN current ELSE @])
    /\ UNCHANGED <<current, index>>

\* Mutant: each row that is there is right, and one that is missing goes unseen.
AgreesLoosely(p) ==
    index # NoTable /\ \A x \in Rows : index[x] > 0 => proc[p].want[x[1]] = x[2]

\* Every rule has one row, of the version read, and there is no other row.
Agrees(p) == index = [x \in Rows |-> IF proc[p].want[x[1]] = x[2] THEN 1 ELSE 0]

Compare(p) ==
    /\ At(p, "comparing") /\ index # NoTable
    /\ \/ Agrees(p) /\ Goes(p, [proc[p] EXCEPT !.at = "matching"])
       \/ /\ ~Agrees(p) /\ proc[p].round = 1
          /\ Goes(p, [proc[p] EXCEPT !.at = "emptying"])
       \/ /\ ~Agrees(p) /\ proc[p].round = 2
          /\ Goes(p, Resting(proc[p].on, FALSE))
    /\ UNCHANGED <<current, index>>

\* The first comparison cannot read the index: the process gives it up, but
\* fills it again as after any difference, and then asks it with no second
\* comparison, which has nothing to compare in a process without an index.
CompareUnread(p) ==
    /\ At(p, "comparing") /\ proc[p].round = 1
    /\ Goes(p, [proc[p] EXCEPT !.ready = FALSE, !.at = "emptying"])
    /\ UNCHANGED <<current, index>>

Match(p) ==
    /\ At(p, "matching") /\ index # NoTable
    /\ Goes(p, Resting(proc[p].on, proc[p].ready))
    /\ UNCHANGED <<current, index>>

\* Any other statement on the index fails: the table is gone, or the store is
\* locked.  The process answers without the index from now on.
EndEarly(p) ==
    /\ \/ proc[p].at \in {"creating", "found", "emptying", "reading", "inserting", "matching"}
       \/ At(p, "comparing") /\ proc[p].round = 2
    /\ Goes(p, Resting(proc[p].on, FALSE)) /\ UNCHANGED <<current, index>>

-----------------------------------------------------------------------------
(* The writers *)

\* approve_learning_candidate or edit_learning_rule with _fts_write_rule in
\* its transaction.
WriteRule(p, r) ==
    /\ At(p, "idle") /\ current[r] < MaxRuleVersion
    /\ current' = [current EXCEPT ![r] = @ + 1]
    /\ \/ ~proc[p].ready /\ UNCHANGED <<index, proc>>
       \/ /\ proc[p].ready /\ index # NoTable
          /\ index' = [WithoutRule(r) EXCEPT ![<<r, current'[r]>>] = 1]
          /\ UNCHANGED proc
       \/ /\ proc[p].ready   \* the index cannot be written: it is dropped
          /\ index' = NoTable /\ Goes(p, Resting(proc[p].on, FALSE))

\* rebuild_learning_index, in one transaction.
Rebuild(p) ==
    /\ At(p, "idle") /\ proc[p].on
    /\ index' = Whole /\ Goes(p, Resting(TRUE, TRUE)) /\ UNCHANGED current

\* The process ends, or is killed, wherever it is.
EndProcess(p) ==
    /\ ~At(p, "closed")
    /\ Goes(p, [Resting(FALSE, FALSE) EXCEPT !.at = "closed"]) /\ UNCHANGED <<current, index>>

XNext == \E p \in Openers :
    \/ OpenWithout(p) \/ OpenLook(p) \/ OpenCreate(p)
    \/ FillEmpty(p) \/ FillRead(p) \/ FillInsert(p) \/ FillDone(p)
    \/ Ask(p) \/ ReadRules(p) \/ Compare(p) \/ CompareUnread(p)
    \/ Match(p) \/ EndEarly(p)
    \/ \E r \in Indexed : WriteRule(p, r)
    \/ Rebuild(p) \/ EndProcess(p)

XSpec == XInit /\ [][XNext]_xvars

-----------------------------------------------------------------------------
Versions == [Indexed -> 0 .. MaxRuleVersion]
Process ==
    [at : {"closed", "idle", "creating", "found", "emptying", "reading", "inserting",
           "asked", "comparing", "matching"},
     on : BOOLEAN, ready : BOOLEAN, for : {"open", "query"}, round : {1, 2},
     todo : SUBSET Rows, want : Versions, since : Versions, others : BOOLEAN]

XTypeOK ==
    /\ current \in Versions
    /\ index = NoTable \/ index \in [Rows -> Nat]
    /\ proc \in [Openers -> Process]

\* The index answers p in this step; after an unread comparison p rests
\* without an index whether the index answered or failed.
Answers(p) ==
    /\ At(p, "matching") /\ proc'[p].at = "idle" /\ index # NoTable
    /\ proc[p].ready => proc'[p].ready

\* Each rule that was there when the query began has a row, and each row is of
\* a version that was current at some moment of the query.
CurrentRows(p) == \A r \in Indexed :
    LET found == {v \in 1 .. MaxRuleVersion : index[<<r, v>>] > 0}
    IN  /\ found \subseteq proc[p].since[r] .. current[r]
        /\ proc[p].since[r] > 0 => found # {}

\* What the index answers is current, whatever writers with and without the
\* index do meanwhile and wherever an earlier filling was killed, provided no
\* other process filled the index during the query.
LoneAnswersAreCurrent == [][\A p \in Openers :
    Answers(p) /\ ~proc[p].others => CurrentRows(p)]_xvars

\* The same without the proviso, as _fts_reconcile states it: the index agrees
\* with the rules before anything reads it.
AnswersAreCurrent == [][\A p \in Openers : Answers(p) => CurrentRows(p)]_xvars
=============================================================================
