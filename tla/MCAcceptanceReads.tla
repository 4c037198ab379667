------------------------- MODULE MCAcceptanceReads -------------------------
(***************************************************************************)
(* The model of AcceptanceReads_follow.cfg: two blocks that may accept the *)
(* followed transaction, and one session at a time, that of the follow or  *)
(* one of another part of the page, whose proof the follow may reuse.      *)
(***************************************************************************)
EXTENDS AcceptanceReads
============================================================================
