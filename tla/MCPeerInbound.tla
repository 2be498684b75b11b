---------------------------- MODULE MCPeerInbound ----------------------------
(* PeerInbound on a small instance: two requests, which may share an id. *)
EXTENDS PeerInbound

MCNotes == [kind : {"request"}, req : Requests, key : Keys]
           \cup [kind : {"cancel"}, key : Keys]
=============================================================================
