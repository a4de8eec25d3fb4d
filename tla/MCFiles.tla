------------------------------ MODULE MCFiles ------------------------------
(***************************************************************************)
(* The parts about files on disk, one after another in one run: the view,  *)
(* the path rules, the store's file, the snapshots.  They share no         *)
(* variable; part says which of them a behaviour is about, and the others  *)
(* stay as they are.                                                       *)
(***************************************************************************)
EXTENDS MCStateView, MCPathRules, MCStoreOpen, MCAutosave

VARIABLE part

filesvars == <<part, viewvars, vars, ovars, avars>>

FilesInit ==
    /\ part \in {"view", "paths", "store", "snapshots"}
    /\ VInit /\ OInit /\ AInit
    /\ IF part = "paths" THEN Init ELSE left = Empty /\ right = Empty
    /\ FilesInOrder
    /\ part # "store" => atPath = NoFile

FilesNext ==
    \/ /\ part = "view" /\ ~UnseenEnded /\ VNext /\ (TypedUnmasked /\ OneUnseen)'
       /\ UNCHANGED <<part, vars, ovars, avars>>
    \/ part = "paths" /\ Next /\ UNCHANGED <<part, viewvars, ovars, avars>>
    \/ part = "store" /\ ONext /\ FilesInOrder' /\ UNCHANGED <<part, viewvars, vars, avars>>
    \/ part = "snapshots" /\ ANext /\ (AttemptsInOrder /\ OneMishap)' /\ UNCHANGED <<part, viewvars, vars, ovars>>

FilesSpec == FilesInit /\ [][FilesNext]_filesvars
=============================================================================
