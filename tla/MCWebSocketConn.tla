--------------------------- MODULE MCWebSocketConn ---------------------------
(***************************************************************************)
(* WebSocketConn for TLC: more than the network holds, a message that is   *)
(* split or read in two parts, and a ping that each end answers.           *)
(***************************************************************************)
EXTENDS WebSocketConn

MCWrites == [e \in Ends |-> <<2>>]
MCPings == [e \in Ends |-> 1]
=============================================================================
