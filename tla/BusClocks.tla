------------------------------ MODULE BusClocks ------------------------------
(***************************************************************************)
(* The SPI masters and the I2C adapters of the guest beside one another.   *)
(* Each bus names its clock in the device tree (scmi,clock-id), nothing    *)
(* keeps two buses from naming the same one, and each sets the rate it     *)
(* wants before it moves data; the SPI masters skip the set when their     *)
(* flag is on and no speed is asked for.                                   *)
(*                                                                         *)
(* SpiAdapter and I2cAdapter are composed over the rates of the clocks,    *)
(* of which the model keeps who set each last.  A failed set may have been *)
(* carried out, its answer being lost, or not.                             *)
(***************************************************************************)
EXTENDS SpiAdapter

CONSTANTS I2cBuses, MaxMsgs, MaxXfers,  \* see I2cAdapter
          ClockOf                       \* clock_id of each bus

AllBuses == Buses \cup I2cBuses

ASSUME ClocksAssumption ==
    /\ MaxMsgs \in Nat
    /\ MaxXfers \in Nat
    /\ Buses \cap I2cBuses = {}
    /\ DOMAIN ClockOf = AllBuses

Clocks == {ClockOf[b] : b \in AllBuses}

VARIABLES
    ipc, flag, left, xfers,  \* see I2cAdapter
    setter,    \* the bus whose rate each clock has, if any has set it
    overtaken  \* history: buses whose clock another bus set since they did

I2C == INSTANCE I2cAdapter

rates   == <<setter, overtaken>>
i2cvars == <<ipc, flag, left, xfers>>
cvars   == <<vars, i2cvars, rates>>

CTypeOK ==
    /\ TypeOK
    /\ I2C!I2cTypeOK
    /\ setter \in [Clocks -> SUBSET AllBuses]
    /\ overtaken \subseteq AllBuses

CInit ==
    /\ Init
    /\ I2C!I2cInit
    /\ setter = [c \in Clocks |-> {}]
    /\ overtaken = {}

Own(b) == setter[ClockOf[b]] = {b}

(* The rate of b's clock becomes b's.                                      *)
SetBy(b) ==
    /\ setter' = [setter EXCEPT ![ClockOf[b]] = {b}]
    /\ overtaken' = (overtaken \ {b})
                    \cup {d \in AllBuses \ {b} : ClockOf[d] = ClockOf[b] /\ Own(d)}

MaySetBy(b) == SetBy(b) \/ UNCHANGED rates

SpiStep(b) ==
    \/ Rate(b) /\ SetBy(b)
    \/ RateFails(b) /\ MaySetBy(b)
    \/ /\ \/ \E c \in Chips : \E what \in {"setup", "transfer"} : Begin(b, c, what)
          \/ \E c \in Chips : CleanBegin(b, c)
          \/ Notify(b) \/ Find(b) \/ Alloc(b) \/ Fill(b) \/ Transfer(b)
          \/ CleanerStep(b)
       /\ UNCHANGED rates

(* A transfer begins with no claim on the rate an earlier one has set.     *)
XferStep(i) ==
    /\ I2C!Xfer(i)
    /\ overtaken' = overtaken \ {i}
    /\ UNCHANGED setter

I2cStep(i) ==
    \/ XferStep(i)
    \/ I2C!SetRate(i) /\ SetBy(i)
    \/ I2C!SetFails(i) /\ MaySetBy(i)
    \/ (I2C!SetFlag(i) \/ I2C!Move(i) \/ I2C!Finish(i)) /\ UNCHANGED rates

CNext ==
    \/ \E b \in Buses : SpiStep(b) /\ UNCHANGED i2cvars
    \/ \E i \in I2cBuses : I2cStep(i) /\ UNCHANGED vars

CSpec == CInit /\ [][CNext]_cvars

-------------------------------------------------------------------------------
(* A bus moves data at a rate it has set, for I2C in this very transfer,   *)
(* or another bus with the same clock has set its own since.  In no other  *)
(* way does a bus run at a rate that is not its own: no flag outlives what *)
(* it stands for.                                                          *)
Moving(b) == (b \in Buses /\ pc[b] = "transfer") \/ (b \in I2cBuses /\ ipc[b] = "move")
RateOwnOrOvertaken == \A b \in AllBuses : Moving(b) => Own(b) \/ b \in overtaken
===============================================================================
