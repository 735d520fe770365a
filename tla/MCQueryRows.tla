---------------------------- MODULE MCQueryRows ----------------------------
(* QueryRows for TLC. *)
EXTENDS QueryRows
=============================================================================
