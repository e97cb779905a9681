------------------------- MODULE MCOperationInvoker -------------------------
(***************************************************************************)
(* Small instances of OperationInvoker.                                    *)
(***************************************************************************)
EXTENDS OperationInvoker
=============================================================================
