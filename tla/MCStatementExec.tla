-------------------------- MODULE MCStatementExec --------------------------
(* StatementExec for TLC: native cancel and qqrytimlmt, and extended       *)
(* dynamic with both package error modes and criteria, row by row and in   *)
(* blocks.                                                                 *)
EXTENDS StatementExec, TLC

HandleSymmetry == Permutations(Handles)

Setting(native, extended, exception, blocks) ==
  [native |-> native, qqrytimlmt |-> native, extended |-> extended,
   exception |-> exception, selectCriteria |-> exception, blocks |-> blocks]

MCSettings ==
  {Setting(TRUE, FALSE, FALSE, FALSE), Setting(FALSE, TRUE, FALSE, TRUE),
   Setting(FALSE, TRUE, TRUE, FALSE)}
=============================================================================
