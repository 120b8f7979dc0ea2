----------------------------- MODULE MCFlashBanks ----------------------------
(***************************************************************************)
(* Small instances of FlashBanks: the words and bits of a bank are given   *)
(* by the configurations.                                                  *)
(***************************************************************************)
EXTENDS FlashBanks
=============================================================================
