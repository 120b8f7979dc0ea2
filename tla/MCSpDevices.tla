----------------------------- MODULE MCSpDevices -----------------------------
(***************************************************************************)
(* The SP's buses on small instances.  They share no state: a behaviour    *)
(* runs one of them and holds the others at their initial state.           *)
(***************************************************************************)
EXTENDS SpiSlaves, NorFlash, I2cBus

VARIABLE focus   \* the bus this behaviour runs

Init ==
  /\ focus \in {"spi", "nor", "i2c"}
  /\ SpiInit /\ NorInit /\ I2cInit
  /\ focus # "spi" => spi.kind = CHOOSE k \in Controllers : TRUE

Next ==
  /\ UNCHANGED focus
  /\ \/ focus = "spi" /\ SpiNext /\ UNCHANGED <<norVars, i2cVars>>
     \/ focus = "nor" /\ NorNext /\ UNCHANGED <<spiVars, i2cVars>>
     \/ focus = "i2c" /\ I2cNext /\ UNCHANGED <<spiVars, norVars>>

Spec == Init /\ [][Next]_<<focus, spiVars, norVars, i2cVars>>
=============================================================================
