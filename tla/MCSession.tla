----------------------------- MODULE MCSession -----------------------------
(***************************************************************************)
(* Small worlds for model checking the client's session.                   *)
(***************************************************************************)
EXTENDS Session
=============================================================================
