----------------------------- MODULE MCSprotLink -----------------------------
(* The sprot link on a 4-byte FIFO and a 2-step stall budget: small enough *)
(* to fill, drain, overrun and time out within two transfers.              *)
EXTENDS SprotLink
=============================================================================
