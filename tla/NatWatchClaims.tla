--------------------------- MODULE NatWatchClaims ---------------------------
(***************************************************************************)
(* What nfct.h says of the types of events and the code does otherwise.    *)
(***************************************************************************)
EXTENDS NatWatch

(* nfct.h, line 31: NFCT_EVENT_NEW is "Connection created", and line 32    *)
(* has UPDATE for "Connection updated".  As long as nothing was lost, a    *)
(* NEW event is therefore about an id that the daemon does not know yet.   *)
(* The kernel sends both with IPCTNL_MSG_CT_NEW and marks creations with   *)
(* NLM_F_CREATE; the code (nfct.c:427) makes NEW of the unmarked too.      *)
NewMeansCreated ==
  [][TakeEvent /\ ~lost /\ ev'.type = "NEW" /\ ev'.has_id => known[ev'.id] = NoEntry]_watchVars
=============================================================================
