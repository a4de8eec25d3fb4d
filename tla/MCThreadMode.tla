---------------------------- MODULE MCThreadMode ----------------------------
(* Small instances of ThreadMode. *)
EXTENDS ThreadMode
=============================================================================
