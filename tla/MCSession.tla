----------------------------- MODULE MCSession -----------------------------
(***************************************************************************)
(* Two accounts and up to three requests per launch: enough for a request  *)
(* answered under a list, for two lists on the stack and for a SignUpVC    *)
(* left behind by its own completion block.                                *)
(***************************************************************************)
EXTENDS Session
=============================================================================
