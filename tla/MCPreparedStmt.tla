--------------------------- MODULE MCPreparedStmt ---------------------------
(* PreparedStmt for TLC. *)
EXTENDS PreparedStmt
=============================================================================
