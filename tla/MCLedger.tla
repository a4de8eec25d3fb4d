------------------------------ MODULE MCLedger ------------------------------
(***************************************************************************)
(* What the store keeps, in one run: the registry under stale reads, the   *)
(* registry with its provisional records, the reminders of a project that  *)
(* may be purged.  part says which of them a behaviour is about, and the   *)
(* others stay as they are.                                                *)
(***************************************************************************)
EXTENDS MCRecordStore, MCProvisional, MCProjects

VARIABLE part

ledgervars == <<part, allvars, jvars>>

LedgerInit ==
    /\ part \in {"registry", "provisional", "reminders"}
    /\ PInit /\ JInit

\* The registry's own bounds are for its part: a provisional record here has
\* no fence, handover, digest, decision or directive.
Modest ==
    /\ handovers' = {}
    /\ \A l \in Lifecycles :
         /\ directives'[l] = 0
         /\ records'[l] # Absent =>
              /\ records'[l].files = {}
              /\ records'[l].digests = 0 /\ records'[l].decisions = 0

LedgerNext ==
    \/ part = "registry" /\ Next /\ UNCHANGED <<part, pvars, jvars>>
    \/ part = "provisional" /\ PNext /\ Modest /\ UNCHANGED <<part, jvars>>
    \/ part = "reminders" /\ JNext /\ RemindersAlone' /\ UNCHANGED <<part, allvars>>

SymLedger == SymClients \cup SymCallers

LedgerSpec == LedgerInit /\ [][LedgerNext]_ledgervars
=============================================================================
