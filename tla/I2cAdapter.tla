------------------------------ MODULE I2cAdapter ------------------------------
(***************************************************************************)
(* The guest's I2C adapter (scmi_i2c_adapter.c): a transfer sets the rate  *)
(* of the bus's clock, moves its messages one by one and gives the clock   *)
(* flag back.  The I2C core is external: it serializes the transfers of    *)
(* one bus and runs the buses beside one another.                          *)
(*                                                                         *)
(* scmi_i2c_transfer_internal only fills a buffer and answers success, so  *)
(* the error path of line 158 is not taken.  The read of the rate (line    *)
(* 48) changes nothing and its failure is ignored.                         *)
(***************************************************************************)
EXTENDS Integers

CONSTANTS I2cBuses,  \* adapters probed
          MaxMsgs,   \* bound: messages of one transfer
          MaxXfers   \* bound: transfers in a behaviour

VARIABLES
    ipc,    \* where each bus is inside scmi_i2c_master_xfer
    flag,   \* clock_enabled of each bus
    left,   \* messages of the transfer still to move
    xfers   \* transfers begun

I2cTypeOK ==
    /\ ipc \in [I2cBuses -> {"idle", "rate", "notify", "move"}]
    /\ flag \in [I2cBuses -> BOOLEAN]
    /\ left \in [I2cBuses -> 0..MaxMsgs]
    /\ xfers \in 0..MaxXfers

I2cInit ==
    /\ ipc = [i \in I2cBuses |-> "idle"]
    /\ flag = [i \in I2cBuses |-> FALSE]
    /\ left = [i \in I2cBuses |-> 0]
    /\ xfers = 0

Step(i, from, to) == ipc[i] = from /\ ipc' = [ipc EXCEPT ![i] = to]

(* With the clock flag set the clock would be left alone.                  *)
Xfer(i) ==
    /\ Step(i, "idle", IF flag[i] THEN "move" ELSE "rate")
    /\ xfers < MaxXfers /\ xfers' = xfers + 1
    /\ \E n \in 1..MaxMsgs : left' = [left EXCEPT ![i] = n]
    /\ UNCHANGED flag

(* scmi_clock_set_rate, which the clock server carries out.                *)
SetRate(i) == Step(i, "rate", "notify") /\ UNCHANGED <<flag, left, xfers>>

(* Its failure ends the transfer.                                          *)
SetFails(i) ==
    /\ Step(i, "rate", "idle")
    /\ left' = [left EXCEPT ![i] = 0]
    /\ UNCHANGED <<flag, xfers>>

(* The result of scmi_clock_enable_notifications is ignored.               *)
SetFlag(i) ==
    /\ Step(i, "notify", "move")
    /\ flag' = [flag EXCEPT ![i] = TRUE]
    /\ UNCHANGED <<left, xfers>>

Move(i) ==
    /\ ipc[i] = "move"
    /\ left[i] > 0 /\ left' = [left EXCEPT ![i] = @ - 1]
    /\ UNCHANGED <<ipc, flag, xfers>>

(* Mutant of Finish: the clock flag is kept, to save the next set.         *)
FinishKeepsFlag(i) ==
    /\ Step(i, "move", "idle")
    /\ left[i] = 0
    /\ UNCHANGED <<flag, left, xfers>>

(* scmi_i2c_disable_clock, and the transfer returns.                       *)
Finish(i) ==
    /\ Step(i, "move", "idle")
    /\ left[i] = 0
    /\ flag' = [flag EXCEPT ![i] = FALSE]
    /\ UNCHANGED <<left, xfers>>
===============================================================================
