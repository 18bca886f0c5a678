-------------------------- MODULE MCServerSessions --------------------------
(* The server of the bridge on one connection, with room for one channel. *)
EXTENDS ServerSessions
=============================================================================
