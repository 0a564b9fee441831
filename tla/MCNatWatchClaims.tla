-------------------------- MODULE MCNatWatchClaims --------------------------
(* One IPv4 connection and whole messages in a queue that loses none.      *)
EXTENDS NatWatchClaims

CONSTANTS client, remote, public

MCAddr == {client, remote, public}
MCPort == {1, 2, 3}
MCId == {7}
MCProtocol == {6}
MCQueueSizes == {2}

Only == [v6 |-> FALSE, client |-> client, remote |-> remote, public |-> public,
         cport |-> 1, rport |-> 2, pport |-> 3, protocol |-> 6, id |-> 7]
MCConns == {Only}
MCAttrsOf == Only :> {AllAttrs(Only)}
=============================================================================
