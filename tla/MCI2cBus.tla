------------------------------- MODULE MCI2cBus ------------------------------
(***************************************************************************)
(* The I2C buses with a bridge server that may answer after the bus        *)
(* stopped waiting for it.                                                 *)
(***************************************************************************)
EXTENDS I2cBus

Spec == I2cInit /\ [][I2cLateNext]_i2cVars
=============================================================================
