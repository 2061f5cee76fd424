----------------------------- MODULE MCPeerLinks -----------------------------
(* PeerLinks for TLC.  A dial to an address of no peer or of another one     *)
(* that ends at the other is, for the peer it was meant for, a dial that     *)
(* ends and says nothing; for the other it is a connection that comes, or an *)
(* error that answers what waits and so can only release it.  One peer and   *)
(* two commands are enough; the invariants are proved for any number.        *)
EXTENDS PeerLinks
==============================================================================
