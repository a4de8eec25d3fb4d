------------------------------ MODULE Learning ------------------------------
(***************************************************************************)
(* The rules a founder has approved, and the answers that paid for them    *)
(* (tools/bm_store.py, correction learning).  What was observed is a       *)
(* candidate; a founder's answer to one question becomes a receipt; the    *)
(* command that acts on the answer quotes the receipt's token.             *)
(*                                                                         *)
(* Every such command reads first (the candidate or rule, the receipt, the *)
(* conflicts, the alerts) with no transaction open, and then writes all of *)
(* its rows in one.  Check is the first half, and call[c] what the command *)
(* took from it; the actions below "The writing halves" are the second.    *)
(*                                                                         *)
(* Abstractions.  What a rule says (trigger, action, because, domain) is a *)
(* text, and all rules are in one scope; Clashes stands for the verdict    *)
(* "contradiction" of conflict_verdict, equality for "duplicate".  A       *)
(* fingerprint is the question it is the hash of.  Notes are critical      *)
(* alerts; Gates says before which candidates an alert stands (its anchor  *)
(* is the candidate, its record or a file that the approval changes).      *)
(* The evidence of a rule is whether it has a supporting row other than    *)
(* the approval.  Severity, splitting a compound action, links drawn by    *)
(* hand and the retrieval of rules are left out.                           *)
(***************************************************************************)
EXTENDS Naturals, FiniteSets

CONSTANTS
    Candidates, Rules, Alerts,   \* rows that can come into being
    Receipts,                    \* receipts that can be minted
    Texts,                       \* what a rule can say
    Clashes,                     \* pairs of texts that contradict each other
    Gates,                       \* alert -> the candidates it stands before
    Given,                       \* the rules approved before: rule -> its text and candidate
    Askers,                      \* commands under way at once
    Unwritten,                   \* a row that is not there
    NoCommand,                        \* no command under way
    NoRule,                      \* no rule given
    NoReceipt,                   \* a command that needs none
    MaxEdits                     \* bound: the version no edit goes past

ASSUME ClashesSymmetric == \A s, t \in Texts : <<s, t>> \in Clashes => <<t, s>> \in Clashes
ASSUME EditsBounded == MaxEdits \in Nat \ {0}
ASSUME GivenFits == \A r \in DOMAIN Given :
    r \in Rules /\ Given[r].text \in Texts /\ Given[r].from \in Candidates

VARIABLES
    candidates,  \* learning_candidates: the status
    rules,       \* learning_rules with the current version
    edges,       \* learning_edges
    alerts,      \* critical alerts: "open", "forced" (overridden) or "resolved"
    receipts,    \* both tables of receipts
    supported,   \* the rules with independent supporting evidence
    call         \* asker -> what its command decided to do

lvars == <<candidates, rules, edges, alerts, receipts, supported, call>>

Injectable == {"settled", "confirmed", "approved"}
Silenced == {"contradicted", "deprecated", "superseded", "forgotten"}

LegalMoves(state) ==
    CASE state = "approved"     -> {"confirmed"} \cup Silenced
      [] state = "confirmed"    -> {"settled"} \cup Silenced
      [] state = "settled"      -> Silenced
      [] state = "contradicted" -> {"approved", "confirmed", "deprecated", "superseded", "forgotten"}
      [] state = "deprecated"   -> {"approved", "forgotten"}
      [] state = "superseded"   -> {"forgotten"}
      [] state = "forgotten"    -> {}

\* The questions a receipt can answer, one shape for each fingerprint.
Approvals == [kind : {"approve"}, on : Candidates, text : Texts,
              past : SUBSET {"conflict", "alert"}]
Edits == [kind : {"edit"}, on : Rules, text : Texts, next : 2 .. MaxEdits]
Moves ==
    [kind : {"supersede"}, on : Rules, to : {"superseded"}, by : Rules]
    \cup [kind : {"deprecate"}, on : Rules, to : {"deprecated"}, by : {NoRule}]
    \cup [kind : {"forget"}, on : Rules, to : {"forgotten"}, by : {NoRule}]
    \cup [kind : {"resolve-conflict"}, on : Rules,
          to : {"superseded", "contradicted", "deprecated"}, by : Rules]
Resolutions == [kind : {"resolve-note"}, on : Alerts]
Questions == Approvals \cup Edits \cup Moves \cup Resolutions

\* What a command does that needs no answer.
Promotions == [kind : {"confirm"}, on : Rules, to : {"confirmed", "settled"}]
Dismissals == [kind : {"reject"}, on : Candidates]
              \cup [kind : {"merge"}, on : Candidates, into : Rules]

RuleRow == [state : Injectable \cup Silenced, version : 1 .. MaxEdits,
            text : Texts, from : Candidates]
ReceiptRow == [asks : Questions, spent : BOOLEAN, expired : BOOLEAN]
\* What a command took from its reading half: the answer it acts on, the
\* conflicts it found and the alerts it saw.
Command == [does : Questions \cup Promotions \cup Dismissals,
            with : Receipts \cup {NoReceipt},
            found : SUBSET Rules, saw : SUBSET Alerts]

ASSUME NoRowOfLearning ==
    /\ Unwritten \notin RuleRow \cup ReceiptRow
    /\ Unwritten \notin {"open", "forced", "resolved"}
    /\ NoCommand \notin Command

ApprovedRule(t, c) == [state |-> "approved", version |-> 1, text |-> t, from |-> c]
Exists(r) == rules[r] # Unwritten
Speaks(r) == Exists(r) /\ rules[r].state \in Injectable

\* conflicts_against: the rules that can speak and clash with or repeat a text.
ConflictsAgainst(t) ==
    {r \in Rules : Speaks(r) /\ (<<rules[r].text, t>> \in Clashes \/ rules[r].text = t)}

BlockingAlerts(c) == {n \in Alerts : alerts[n] \in {"open", "forced"} /\ c \in Gates[n]}

Supersedes == {e \in edges : e.relation = "supersedes"}
\* The rules that r has replaced, through other rules too.
Replaced(r) ==
    LET step(S) == S \cup {e.to : e \in {d \in Supersedes : d.from \in S}}
        reach[n \in 0 .. Cardinality(Rules)] ==
            IF n = 0 THEN {r} ELSE step(reach[n - 1])
    IN  reach[Cardinality(Rules)]

\* _approval_guards, for the minting and for the spending alike.
ApprovalGuards(q) ==
    /\ "conflict" \in q.past \/ ConflictsAgainst(q.text) = {}
    /\ "alert" \in q.past \/ BlockingAlerts(q.on) = {}

MayApprove(q) == candidates[q.on] = "pending" /\ ApprovalGuards(q)
MayEdit(q) == Exists(q.on) /\ q.next = rules[q.on].version + 1

MaySucceed(q) ==
    q.to = "superseded" =>
        /\ q.by \notin Replaced(q.on)
        /\ Speaks(q.by)
MayChangeState(q) ==
    /\ Exists(q.on) /\ q.to \in LegalMoves(rules[q.on].state)
    /\ q.by # NoRule => Exists(q.by) /\ q.by # q.on
    /\ MaySucceed(q)
MayPromote(q) ==
    /\ Exists(q.on) /\ q.to \in LegalMoves(rules[q.on].state)
    /\ q.on \in supported
MayResolve(q) == alerts[q.on] \in {"open", "forced"}

\* The refusals of the reading half, receipt aside.
Allowed(q) ==
    CASE q.kind = "approve"      -> MayApprove(q)
      [] q.kind = "edit"         -> MayEdit(q)
      [] q.kind = "resolve-note" -> MayResolve(q)
      [] q.kind = "confirm"      -> MayPromote(q)
      [] q.kind = "reject"       -> candidates[q.on] = "pending"
      [] q.kind = "merge"        -> candidates[q.on] = "pending" /\ Exists(q.into)
      [] OTHER                   -> MayChangeState(q)

\* Minting refuses what approving or editing would; for a move or a
\* resolution it asks only that the target exists.
MayAsk(q) ==
    CASE q.kind \in {"approve", "edit"} -> Allowed(q)
      [] q.kind = "resolve-note"        -> alerts[q.on] # Unwritten
      [] OTHER                          -> Exists(q.on)

-----------------------------------------------------------------------------
\* The store as it may be when the given rules have been approved: an alert
\* before one of their candidates was perhaps forced past on the way.
GivenCandidates == {Given[r].from : r \in DOMAIN Given}
LInit ==
    /\ candidates = [c \in Candidates |->
         IF c \in GivenCandidates THEN "approved" ELSE Unwritten]
    /\ rules = [r \in Rules |-> IF r \in DOMAIN Given THEN ApprovedRule(Given[r].text, Given[r].from)
                                                    ELSE Unwritten]
    /\ edges = {}
    /\ alerts \in [Alerts -> {Unwritten, "forced"}]
    /\ \A n \in Alerts : alerts[n] = "forced" => Gates[n] \cap GivenCandidates # {}
    /\ receipts = [x \in Receipts |-> Unwritten]
    /\ supported = {}
    /\ call = [k \in Askers |-> NoCommand]

Capture(c) ==
    /\ candidates[c] = Unwritten
    /\ candidates' = [candidates EXCEPT ![c] = "pending"]
    /\ UNCHANGED <<rules, edges, alerts, receipts, supported, call>>

RaiseAlert(n) ==
    /\ alerts[n] = Unwritten
    /\ alerts' = [alerts EXCEPT ![n] = "open"]
    /\ UNCHANGED <<candidates, rules, edges, receipts, supported, call>>

\* add_learning_evidence, or an application closed as followed.
AddEvidence(r) ==
    /\ Exists(r) /\ r \notin supported
    /\ supported' = supported \cup {r}
    /\ UNCHANGED <<candidates, rules, edges, alerts, receipts, call>>

\* mint_approval_receipt, mint_edit_receipt, mint_state_change_receipt.
Mint(x) ==
    /\ receipts[x] = Unwritten
    /\ \E q \in Questions :
         /\ MayAsk(q)
         /\ receipts' = [receipts EXCEPT
                           ![x] = [asks |-> q, spent |-> FALSE, expired |-> FALSE]]
    /\ UNCHANGED <<candidates, rules, edges, alerts, supported, call>>

\* A quarter of an hour goes by.
Expire(x) ==
    /\ receipts[x] # Unwritten /\ ~receipts[x].spent /\ ~receipts[x].expired
    /\ receipts' = [receipts EXCEPT ![x].expired = TRUE]
    /\ UNCHANGED <<candidates, rules, edges, alerts, supported, call>>

Fresh(x) == receipts[x] # Unwritten /\ ~receipts[x].spent /\ ~receipts[x].expired

-----------------------------------------------------------------------------
(* The reading half *)

Decided(q, x) ==
    [does |-> q, with |-> x,
     found |-> IF q.kind = "approve" THEN ConflictsAgainst(q.text) ELSE {},
     saw |-> IF q.kind = "approve" THEN BlockingAlerts(q.on) ELSE {}]

\* Mutant: the fingerprint of an approval leaves the text out.
FingerprintSansText(q) == IF q.kind = "approve" THEN [q EXCEPT !.text = NoRule] ELSE q
Fingerprint(q) == q

Check(k) ==
    /\ call[k] = NoCommand
    /\ \E q \in Questions, x \in Receipts :
         /\ Fresh(x) /\ Fingerprint(receipts[x].asks) = Fingerprint(q)
         /\ Allowed(q)
         /\ call' = [call EXCEPT ![k] = Decided(q, x)]
    /\ UNCHANGED <<candidates, rules, edges, alerts, receipts, supported>>

CheckUnasked(k) ==
    /\ call[k] = NoCommand
    /\ \E q \in Promotions \cup Dismissals :
         /\ Allowed(q)
         /\ call' = [call EXCEPT ![k] = Decided(q, NoReceipt)]
    /\ UNCHANGED <<candidates, rules, edges, alerts, receipts, supported>>

-----------------------------------------------------------------------------
(* The writing halves *)

Doing(k, kinds) == call[k] # NoCommand /\ call[k].does.kind \in kinds
Done(k) == call' = [call EXCEPT ![k] = NoCommand]

\* Mutant: the receipt is marked, whoever may have spent it meanwhile.
SpendAnyway(k) ==
    receipts' = [receipts EXCEPT ![call[k].with].spent = TRUE]
\* The conditional UPDATE that every gated transaction begins with.
Spend(k) ==
    /\ Fresh(call[k].with)
    /\ receipts' = [receipts EXCEPT ![call[k].with].spent = TRUE]

\* Mutant: the gate is asked again when the override is written.
OverriddenNow(k) == {n \in BlockingAlerts(call[k].does.on) : alerts[n] = "open"}
\* The alerts that the reading half saw; the first override stays on a row.
Overridden(k) == {n \in call[k].saw : alerts[n] = "open"}

Approve(k) ==
    /\ Doing(k, {"approve"}) /\ Spend(k)
    /\ LET q == call[k].does
       IN \E r \in Rules :
            /\ rules[r] = Unwritten
            /\ rules' = [rules EXCEPT ![r] = ApprovedRule(q.text, q.on)]
            /\ edges' = edges \cup
                 {[from |-> r, to |-> o,
                   relation |-> IF <<rules[o].text, q.text>> \in Clashes
                                THEN "contradicts" ELSE "duplicate_of"] :
                    o \in IF "conflict" \in q.past THEN call[k].found ELSE {}}
            /\ candidates' = [candidates EXCEPT ![q.on] = "approved"]
            /\ alerts' = [n \in Alerts |-> IF n \in Overridden(k) THEN "forced" ELSE alerts[n]]
    /\ Done(k) /\ UNCHANGED supported

\* The key of learning_rule_versions refuses a version that is there already.
Edit(k) ==
    /\ Doing(k, {"edit"}) /\ Spend(k)
    /\ LET q == call[k].does
       IN /\ rules[q.on].version < q.next
          /\ rules' = [rules EXCEPT ![q.on].version = q.next, ![q.on].text = q.text]
    /\ Done(k) /\ UNCHANGED <<candidates, edges, alerts, supported>>

\* change_learning_rule_state and resolve_learning_conflict: the move is
\* written whatever the state of the rule is by now.
ChangeState(k) ==
    /\ Doing(k, {"supersede", "deprecate", "forget", "resolve-conflict"}) /\ Spend(k)
    /\ LET q == call[k].does
       IN /\ rules' = [rules EXCEPT ![q.on].state = q.to]
          /\ edges' = edges \cup
               CASE q.to = "superseded" ->
                      {[from |-> q.by, to |-> q.on, relation |-> "supersedes"]}
                 [] q.to # "superseded" /\ q.by # NoRule ->
                      {[from |-> q.on, to |-> q.by, relation |-> "contradicts"]}
                 [] OTHER -> {}
    /\ Done(k) /\ UNCHANGED <<candidates, alerts, supported>>

Resolve(k) ==
    /\ Doing(k, {"resolve-note"}) /\ Spend(k)
    /\ alerts' = [alerts EXCEPT ![call[k].does.on] = "resolved"]
    /\ Done(k) /\ UNCHANGED <<candidates, rules, edges, supported>>

ConfirmUse(k) ==
    /\ Doing(k, {"confirm"})
    /\ rules' = [rules EXCEPT ![call[k].does.on].state = call[k].does.to]
    /\ Done(k) /\ UNCHANGED <<candidates, edges, alerts, receipts, supported>>

Reject(k) ==
    /\ Doing(k, {"reject"})
    /\ candidates' = [candidates EXCEPT ![call[k].does.on] = "rejected"]
    /\ Done(k) /\ UNCHANGED <<rules, edges, alerts, receipts, supported>>

MergeInto(k) ==
    /\ Doing(k, {"merge"})
    /\ candidates' = [candidates EXCEPT ![call[k].does.on] = "merged"]
    /\ supported' = supported \cup {call[k].does.into}
    /\ Done(k) /\ UNCHANGED <<rules, edges, alerts, receipts>>

\* A refusal inside the transaction, or a kill before it.
Abandon(k) ==
    /\ call[k] # NoCommand
    /\ Done(k) /\ UNCHANGED <<candidates, rules, edges, alerts, receipts, supported>>

LNext ==
    \/ \E c \in Candidates : Capture(c)
    \/ \E n \in Alerts : RaiseAlert(n)
    \/ \E r \in Rules : AddEvidence(r)
    \/ \E x \in Receipts : Mint(x) \/ Expire(x)
    \/ \E k \in Askers :
         \/ Check(k) \/ CheckUnasked(k)
         \/ Approve(k) \/ Edit(k) \/ ChangeState(k) \/ Resolve(k)
         \/ ConfirmUse(k) \/ Reject(k) \/ MergeInto(k) \/ Abandon(k)

LSpec == LInit /\ [][LNext]_lvars

-----------------------------------------------------------------------------
(* What the founder may rely on *)

LTypeOK ==
    /\ candidates \in [Candidates -> {Unwritten, "pending", "approved", "rejected", "merged"}]
    /\ rules \in [Rules -> RuleRow \cup {Unwritten}]
    /\ edges \subseteq [from : Rules, to : Rules,
                        relation : {"contradicts", "duplicate_of", "supersedes"}]
    /\ alerts \in [Alerts -> {Unwritten, "open", "forced", "resolved"}]
    /\ receipts \in [Receipts -> ReceiptRow \cup {Unwritten}]
    /\ supported \subseteq Rules
    /\ call \in [Askers -> Command \cup {NoCommand}]

\* The receipts a step has spent, by the question that was answered.
Answered(q) ==
    \E x \in Receipts : Fresh(x) /\ receipts[x].asks = q /\ receipts'[x].spent

BornOfAnswer(r) == ~Exists(r) /\ rules'[r] # Unwritten =>
    \E past \in SUBSET {"conflict", "alert"} :
        Answered([kind |-> "approve", on |-> rules'[r].from, text |-> rules'[r].text,
                  past |-> past])
RewordedByAnswer(r) ==
    Exists(r) /\ <<rules'[r].text, rules'[r].version>> # <<rules[r].text, rules[r].version>> =>
        /\ rules'[r].version = rules[r].version + 1
        /\ Answered([kind |-> "edit", on |-> r, text |-> rules'[r].text,
                     next |-> rules'[r].version])
SilencedByAnswer(r) ==
    Exists(r) /\ rules'[r].state # rules[r].state /\ rules'[r].state \in Silenced =>
        \E q \in Moves : q.on = r /\ q.to = rules'[r].state /\ Answered(q)

\* A rule comes into being, changes its words or is silenced only in the
\* step that spends an answer to the very question whether it should: the
\* candidate and the words of the approval, the words and the version of
\* the edit, the end state of the move.  (What approve_learning_candidate,
\* edit_learning_rule and change_learning_rule_state promise of races for
\* one token, of a token shown for another change, and of an edit that
\* landed first.)
NothingUnanswered == [][\A r \in Rules :
    BornOfAnswer(r) /\ RewordedByAnswer(r) /\ SilencedByAnswer(r)]_lvars

ForcedByAnswer(n) == alerts[n] = "open" /\ alerts'[n] = "forced" =>
    \E q \in Approvals : "alert" \in q.past /\ q.on \in Gates[n] /\ Answered(q)
ResolvedByAnswer(n) == alerts[n] # "resolved" /\ alerts'[n] = "resolved" =>
    Answered([kind |-> "resolve-note", on |-> n])
StaysResolved(n) == alerts[n] = "resolved" => alerts'[n] = "resolved"

\* A critical alert is forced past only in the step that spends an answer to
\* an approval that said it goes past an alert, of a candidate the alert
\* stands before; it is resolved only by an answer about it, and then for
\* good.  An alert that is raised, forced or resolved between the two halves
\* of an approval is neither forced by an answer that never mentioned it nor
\* opened again (approve_learning_candidate: the override is bound to the
\* receipt of this gate).
AlertsFallByAnswer == [][\A n \in Alerts :
    ForcedByAnswer(n) /\ ResolvedByAnswer(n) /\ StaysResolved(n)]_lvars

\* What forget prints: the rule will not be retrieved again.
ForgottenIsSilent == [][\A r \in Rules :
    Exists(r) /\ rules[r].state = "forgotten" => rules'[r].state = "forgotten"]_lvars
=============================================================================
