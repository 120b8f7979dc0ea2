---------------------------- MODULE MCTickCoupling ---------------------------
(***************************************************************************)
(* Small instances of TickCoupling.                                        *)
(***************************************************************************)
EXTENDS TickCoupling
=============================================================================
