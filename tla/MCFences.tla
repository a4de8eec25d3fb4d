------------------------------ MODULE MCFences ------------------------------
(***************************************************************************)
(* Fences, in one run: the registry that gives them, and the hooks at a    *)
(* session's tools that keep to them.  part says which of the two a        *)
(* behaviour is about; the other stays as it is.                           *)
(***************************************************************************)
EXTENDS MCRecordStore, MCFenceGuard

VARIABLE part

fencesvars == <<part, vars, gvars>>

FencesInit ==
    /\ part \in {"registry", "hooks"}
    /\ Init /\ GuardInit
    /\ part = "registry" => /\ \A s \in Owners : token[s] = "written"
                            /\ \A f \in Targets : fence[f] = Nobody

FencesNext ==
    \/ part = "registry" /\ Next /\ UNCHANGED <<part, gvars>>
    \/ part = "hooks" /\ GNext /\ GuardBound' /\ UNCHANGED <<part, vars>>

FencesSpec == FencesInit /\ [][FencesNext]_fencesvars
=============================================================================
