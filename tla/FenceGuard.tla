----------------------------- MODULE FenceGuard -----------------------------
(***************************************************************************)
(* The two hooks at the tools of a session: the one before an edit refuses *)
(* a write under another session's fence (tools/bm_fence_hook.py), the     *)
(* pair around a shell command compares the fenced files afterwards        *)
(* (tools/bm_bash_audit.py).  Each hook is a process of its own, so the    *)
(* fences, the files and the token it reads may all change before the      *)
(* tool's own write.                                                       *)
(*                                                                         *)
(* Abstractions.  A call is one tool call with its hooks; a path is a file *)
(* that exists and fences are on files (what overlaps what is in           *)
(* PathRules, who may claim in RecordStore).  A file's content is the      *)
(* number of times it was written.  A session's token is its file: absent, *)
(* created but empty, or written; the label is the session.  A snapshot    *)
(* may be a day old whenever another command looks at it.  The parsing     *)
(* of payloads and patches, the fence around a running test gate, the      *)
(* refusal of commands that name the store and the look at the store's own *)
(* health are left out.                                                    *)
(***************************************************************************)
EXTENDS Naturals, FiniteSets

CONSTANTS
    Owners, Targets,   \* sessions, and the files fences are about
    Calls,               \* tool calls
    Caller, Tools,       \* call -> its session; what it may be: "edit", "shell", "label"
    Nobody,              \* no fence
    NoBaseline,          \* no snapshot
    Modes,               \* BM_FENCE_MODE and BM_FENCE_STRICT as they may be set
    MaxWrites,           \* bound: writes of a file
    MaxFenceMoves        \* bound: claims, releases and adoptions

ASSUME CallsNamed == Caller \in [Calls -> Owners]
                        /\ Tools \in [Calls -> SUBSET {"edit", "shell", "label"}]
ASSUME BaselineKnown == NoBaseline \notin [Targets -> Nat]
ASSUME ModesKnown == Modes \subseteq [enforced : BOOLEAN, strict : BOOLEAN]

VARIABLES
    fence,      \* file -> the session of the active record that claims it
    token,      \* session -> "none", "empty" or "written"
    content,    \* file -> how often it was written
    tooluse,    \* call -> where it is and what it has read
    baseline,   \* call -> the snapshot file of a shell call
    breaches,   \* the alerts: [by, on] with the call that is named
    fenceMoves, \* bound
    slips,      \* history: [by, on] a shell call wrote a file fenced off from it
    reaped,     \* history: the calls whose snapshot was removed for its age
    unread      \* history: [by, on] a file could not be read when compared

gvars == <<fence, token, content, tooluse, baseline, breaches, fenceMoves, slips, reaped, unread>>

Idle == [at |-> "idle", tool |-> "none", mode |-> [enforced |-> FALSE, strict |-> FALSE],
         target |-> {}, rows |-> [f \in Targets |-> Nobody],
         loaded |-> NoBaseline, found |-> {},
         blind |-> FALSE, moved |-> FALSE]

GInit ==
    /\ token \in [Owners -> {"none", "written"}]
    /\ fence \in [Targets -> Owners \cup {Nobody}]
    /\ \A f \in Targets : fence[f] # Nobody => token[fence[f]] = "written"
    /\ content = [f \in Targets |-> 0]
    /\ tooluse = [c \in Calls |-> Idle]
    /\ baseline = [c \in Calls |-> NoBaseline]
    /\ breaches = {} /\ fenceMoves = 0 /\ slips = {} /\ reaped = {} /\ unread = {}

Phase(c, at) == tooluse[c].at = at
Goto(c, at) == tooluse' = [tooluse EXCEPT ![c].at = at]
Over(c) == tooluse' = [tooluse EXCEPT ![c] = [Idle EXCEPT !.at = "over"]]
Called(c, tool) == Phase(c, "idle") /\ tool \in Tools[c]
NoWrite == UNCHANGED <<fence, token, content, baseline, breaches, fenceMoves, slips, reaped, unread>>
Foreign(owner, c) == owner \notin {Nobody, Caller[c]}

-----------------------------------------------------------------------------
(* The store, as the hooks see it: claim, release, adopt.  A session claims *)
(* under the label of its token.                                            *)

MoveFence(f, s) ==
    /\ fenceMoves < MaxFenceMoves /\ fence[f] # s
    /\ s # Nobody => token[s] = "written"
    /\ fence' = [fence EXCEPT ![f] = s]
    /\ fenceMoves' = fenceMoves + 1
    /\ tooluse' = [c \in Calls |-> IF f \in tooluse[c].target THEN [tooluse[c] EXCEPT !.moved = TRUE]
                                                        ELSE tooluse[c]]
    /\ UNCHANGED <<token, content, baseline, breaches, slips, reaped, unread>>

-----------------------------------------------------------------------------
(* Before an edit *)

\* Mutant: a check that cannot be made lets the write through in every mode.
UnsureOpen(c) == tooluse' = [tooluse EXCEPT ![c].at = "allowed", ![c].blind = TRUE]
\* _FailOpen, and what decide makes of it; the other hooks give up.
Unsure(c) ==
    IF tooluse[c].tool = "edit"
    THEN tooluse' = [tooluse EXCEPT ![c].at = IF tooluse[c].mode.enforced THEN "denied" ELSE "allowed",
                              ![c].blind = TRUE]
    ELSE Over(c)

\* decide, up to active_claims.
AskEdit(c) ==
    /\ Called(c, "edit")
    /\ \E f \in Targets, m \in Modes :
         tooluse' = [tooluse EXCEPT ![c] = [Idle EXCEPT
                    !.at = IF \E g \in Targets : fence[g] # Nobody THEN "identify" ELSE "unfenced",
                    !.tool = "edit", !.mode = m, !.target = {f}, !.rows = fence]]
    /\ NoWrite

\* No active claims: nothing to check against.
Unfenced(c) ==
    /\ Phase(c, "unfenced") /\ Unsure(c) /\ NoWrite

\* cmd_session_label, which a session runs before it claims.
AskLabel(c) ==
    /\ Called(c, "label")
    /\ tooluse' = [tooluse EXCEPT ![c].at = "identify", ![c].tool = "label"]
    /\ NoWrite

\* What follows when the label is known.
Known(c) ==
    LET use == tooluse[c]
        owner == {use.rows[f] : f \in use.target}
    IN  CASE use.tool = "shell" -> Goto(c, "compare")
          [] use.tool = "label" -> Over(c)
          [] OTHER ->
               Goto(c, IF \/ \E s \in owner : Foreign(s, c)
                          \/ use.mode.strict /\ Nobody \in owner
                       THEN "denied" ELSE "allowed")

\* ensure_token: whether the file is there; what it holds, if so.
Identify(c) ==
    LET t == token[Caller[c]]
    IN  /\ Phase(c, "identify")
        /\ CASE t = "none"  -> Goto(c, "create")
             [] t = "empty" -> Unsure(c)
             [] OTHER       -> Known(c)
        /\ NoWrite

\* The exclusive creation: its loser reads the winner's file.
CreateToken(c) ==
    LET t == token[Caller[c]]
    IN  /\ Phase(c, "create")
        /\ CASE t = "none"  -> /\ token' = [token EXCEPT ![Caller[c]] = "empty"]
                               /\ Goto(c, "fill")
             [] t = "empty" -> Unsure(c) /\ UNCHANGED token
             [] OTHER       -> Known(c) /\ UNCHANGED token
        /\ UNCHANGED <<fence, content, baseline, breaches, fenceMoves, slips, reaped, unread>>

FillToken(c) ==
    /\ Phase(c, "fill")
    /\ token' = [token EXCEPT ![Caller[c]] = "written"]
    /\ Known(c)
    /\ UNCHANGED <<fence, content, baseline, breaches, fenceMoves, slips, reaped, unread>>

\* The tool's own write, after the hook has answered.
Land(c) ==
    /\ Phase(c, "allowed") /\ Over(c)
    /\ \E f \in tooluse[c].target :
         /\ content[f] < MaxWrites
         /\ content' = [content EXCEPT ![f] = @ + 1]
    /\ UNCHANGED <<fence, token, baseline, breaches, fenceMoves, slips, reaped, unread>>

-----------------------------------------------------------------------------
(* Around a shell command *)

\* Mutant: the calls of a session share one snapshot.
SlotOfSession(c) == CHOOSE d \in Calls : Caller[d] = Caller[c] /\ "shell" \in Tools[d]
\* snapshot_slot: the session and the tool call.
Slot(c) == c

\* _reap_stale_snapshots, before the hook has read anything: a snapshot of a
\* day ago goes, and what it showed may never have been told.
Reap(c) ==
    /\ Called(c, "shell")
    /\ \E d \in Calls :
         /\ baseline[d] # NoBaseline
         /\ baseline' = [baseline EXCEPT ![d] = NoBaseline]
         /\ reaped' = reaped \cup {d}
    /\ UNCHANGED <<fence, token, content, tooluse, breaches, fenceMoves, slips, unread>>

PreRows(c) ==
    /\ Called(c, "shell")
    /\ tooluse' = [tooluse EXCEPT ![c].tool = "shell",
                            ![c].at = IF \E g \in Targets : fence[g] # Nobody
                                      THEN "hash" ELSE "unseen",
                            ![c].rows = fence]
    /\ NoWrite

PreSnapshot(c) ==
    /\ Phase(c, "hash")
    /\ baseline' = [baseline EXCEPT ![Slot(c)] = content]
    /\ Goto(c, "run")
    /\ UNCHANGED <<fence, token, content, breaches, fenceMoves, slips, reaped, unread>>

\* The command writes a file or does not, and may write more than one.
Shell(c) ==
    /\ Phase(c, "run") \/ Phase(c, "unseen")
    /\ \E f \in Targets :
         /\ content[f] < MaxWrites
         /\ content' = [content EXCEPT ![f] = @ + 1]
         /\ slips' = IF Phase(c, "run") /\ Foreign(tooluse[c].rows[f], c)
                     THEN slips \cup {[by |-> c, on |-> f]} ELSE slips
    /\ UNCHANGED <<fence, token, tooluse, baseline, breaches, fenceMoves, reaped, unread>>

\* _run_post: the snapshot, and then the label.
PostLoad(c) ==
    /\ Phase(c, "run") \/ Phase(c, "unseen")
    /\ IF baseline[Slot(c)] = NoBaseline
       THEN Over(c)
       ELSE tooluse' = [tooluse EXCEPT ![c].at = "identify", ![c].loaded = baseline[Slot(c)]]
    /\ NoWrite

Changed(c) == {f \in Targets : /\ Foreign(tooluse[c].rows[f], c)
                               /\ content[f] # tooluse[c].loaded[f]}

\* A file that cannot be read now is passed over: best effort.
CompareFiles(c) ==
    /\ Phase(c, "compare")
    /\ \E lost \in SUBSET Changed(c) :
         /\ tooluse' = [tooluse EXCEPT ![c].at = "tell", ![c].found = Changed(c) \ lost]
         /\ unread' = unread \cup [by : {c}, on : lost]
    /\ UNCHANGED <<fence, token, content, baseline, breaches, fenceMoves, slips, reaped>>

Tell(c) ==
    /\ Phase(c, "tell")
    /\ \E f \in tooluse[c].found :
         /\ breaches' = breaches \cup {[by |-> c, on |-> f]}
         /\ tooluse' = [tooluse EXCEPT ![c].found = @ \ {f}]
    /\ UNCHANGED <<fence, token, content, baseline, fenceMoves, slips, reaped, unread>>

\* Mutant: the snapshot is removed before its alerts are recorded.
ForgetFirst(c) ==
    /\ Phase(c, "tell") /\ baseline[Slot(c)] # NoBaseline
    /\ baseline' = [baseline EXCEPT ![Slot(c)] = NoBaseline]
    /\ UNCHANGED <<fence, token, content, tooluse, breaches, fenceMoves, slips, reaped, unread>>
\* Only when every alert has been recorded.
Forget(c) ==
    /\ Phase(c, "tell") /\ tooluse[c].found = {}
    /\ baseline' = [baseline EXCEPT ![Slot(c)] = NoBaseline]
    /\ Over(c)
    /\ UNCHANGED <<fence, token, content, breaches, fenceMoves, slips, reaped, unread>>

\* The process of a hook, or the whole session, is killed.
Die(c) ==
    /\ ~Phase(c, "idle") /\ ~Phase(c, "over") /\ Over(c) /\ NoWrite

GNext ==
    \/ \E f \in Targets, s \in Owners \cup {Nobody} : MoveFence(f, s)
    \/ \E c \in Calls :
         \/ AskEdit(c) \/ Unfenced(c) \/ AskLabel(c)
         \/ Identify(c) \/ CreateToken(c) \/ FillToken(c) \/ Land(c)
         \/ Reap(c) \/ PreRows(c) \/ PreSnapshot(c) \/ Shell(c) \/ PostLoad(c)
         \/ CompareFiles(c) \/ Tell(c) \/ Forget(c) \/ Die(c)

GSpec == GInit /\ [][GNext]_gvars

-----------------------------------------------------------------------------
(* What the owner of a fence may rely on *)

GTypeOK ==
    /\ fence \in [Targets -> Owners \cup {Nobody}]
    /\ token \in [Owners -> {"none", "empty", "written"}]
    /\ content \in [Targets -> 0 .. MaxWrites]
    /\ \A c \in Calls : baseline[c] # NoBaseline => baseline[c] \in [Targets -> 0 .. MaxWrites]
    /\ breaches \subseteq [by : Calls, on : Targets]
    /\ slips \subseteq [by : Calls, on : Targets] /\ reaped \subseteq Calls
    /\ unread \subseteq [by : Calls, on : Targets]
    /\ \A c \in Calls :
         /\ tooluse[c].at \in {"idle", "identify", "unfenced", "create", "fill", "allowed",
                            "denied", "hash", "unseen", "run", "compare", "tell", "over"}
         /\ tooluse[c].target \subseteq Targets

\* An edit lands in a file that another session has fenced only if the fence
\* came after the hook read the fences, or the operator left the hook
\* advisory and it could not make its check; in enforced mode never the
\* latter (decide; enforced_mode: fails closed).
EditsStayInside == [][\A c \in Calls :
    Phase(c, "allowed") /\ content' # content /\ tooluse'[c].at = "over" =>
        \A f \in tooluse[c].target :
            \/ ~Foreign(fence[f], c)
            \/ tooluse[c].moved
            \/ tooluse[c].blind /\ ~tooluse[c].mode.enforced]_gvars

\* What a shell command wrote across a fence is told in an alert, or the
\* snapshot that shows it is still there until a later command finds it a day
\* old: not the kill of a hook between two alerts, not another call of the
\* same session, not a token that cannot be read loses both (_run_post: the
\* snapshot is removed only once the comparison it exists for has actually
\* completed; _reap_stale_snapshots).  A file that cannot be read when it is
\* compared is not counted.
NoBreachForgotten == \A s \in slips :
    \/ s \in breaches \/ s \in unread \/ s.by \in reaped
    \/ /\ baseline[s.by] # NoBaseline
       /\ baseline[s.by][s.on] # content[s.on]

\* What the alert says: a command run by that session changed that file.
BreachNamesTheWriter == \A b \in breaches : b \in slips

\* The loser of the token's creation reads the winner's file: no edit goes
\* unchecked for the want of an identity.
IdentityIsFound == \A c \in Calls :
    tooluse[c].blind => \A f \in Targets : tooluse[c].rows[f] = Nobody
=============================================================================
