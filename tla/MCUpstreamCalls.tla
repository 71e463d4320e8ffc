-------------------------- MODULE MCUpstreamCalls --------------------------
(***************************************************************************)
(* A small instance of UpstreamCalls.                                      *)
(***************************************************************************)
EXTENDS UpstreamCalls

=============================================================================
