----------------------------- MODULE MCAutonomy -----------------------------
(* Small instances of Autonomy. *)
EXTENDS Autonomy, TLC

CONSTANTS tokens, minutes, edit, publish

\* A narrow mandate, one with room that has no ceiling on minutes, and one
\* that is spent up as it is signed; the wide one covers a floor.
Ceilings(t, m) == (tokens :> t) @@ (minutes :> m)
MandatesDef ==
    {[ceiling |-> Ceilings(2, 1), covers |-> {edit}],
     [ceiling |-> Ceilings(5, NoCeiling), covers |-> {edit, publish}],
     [ceiling |-> Ceilings(NoCeiling, 0), covers |-> {edit}]}
AmountsDef == {Ceilings(1, 0), Ceilings(2, 1)}
=============================================================================
