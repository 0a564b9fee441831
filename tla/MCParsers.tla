----------------------------- MODULE MCParsers -----------------------------
(* The two halves of feeding a parser: the walk over the bytes of a buffer *)
(* and what the station parser makes of the attributes in one.  They share *)
(* no variable.  The station parser runs behind the walk over no bytes, so *)
(* that the states of the two add up instead of multiplying.               *)
EXTENDS MCNlaWalk, MCNl80211

ParsersInit == WalkInit /\ Init

Walk == WalkNext /\ UNCHANGED vars

NoBytes == [len |-> 0, start |-> 1, at |-> <<>>]

Parse == buffer = NoBytes /\ ~Running /\ Next /\ UNCHANGED walkVars

ParsersSpec ==
  /\ ParsersInit /\ [][Walk \/ Parse]_<<vars, walkVars>>
  /\ WF_walkVars(WalkNext)
=============================================================================
