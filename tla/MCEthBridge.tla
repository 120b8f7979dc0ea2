----------------------------- MODULE MCEthBridge -----------------------------
(***************************************************************************)
(* The management network across a reset of the SP.                        *)
(***************************************************************************)
EXTENDS EthBridge, TLC

(* One client, two requests.                                               *)
MCQuota == 1 :> 2
MCView  == 1 :> 1
=============================================================================
