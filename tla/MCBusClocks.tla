------------------------------ MODULE MCBusClocks ------------------------------
EXTENDS BusClocks, TLC

(* All buses on one clock.                                                 *)
MCClockOf == [b \in Buses \cup I2cBuses |-> "clk"]

SpiSymmetry == Permutations(Buses)
===============================================================================
