------------------------ MODULE MCTransactionSystem ------------------------
(***************************************************************************)
(* TransactionSystem takes its constants from the configurations.          *)
(***************************************************************************)
EXTENDS TransactionSystem
=============================================================================
