-------------------------- MODULE MCPeerConnection --------------------------
(* Instances of PeerConnection for TLC. *)
EXTENDS PeerConnection, TLC

CONSTANTS u1, u2, u3, u4  \* users of the connection

GetReadyClose == u1 :> "get" @@ u2 :> "ready" @@ u3 :> "close"
SendReadyCloseWait == u1 :> "send" @@ u2 :> "ready" @@ u3 :> "close" @@ u4 :> "waitclose"
GetClose      == u1 :> "get" @@ u2 :> "close"
=============================================================================
