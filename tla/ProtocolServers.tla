---------------------------- MODULE ProtocolServers ----------------------------
(***************************************************************************)
(* The protocol servers of the mygearvm firmware that keep state between   *)
(* messages: performance limits and level, clock rate, power state.  The   *)
(* FIQ handler runs one message at a time, so a handler is one action; the *)
(* order of the messages, of whichever agents, is arbitrary.               *)
(*                                                                         *)
(* The entries of a server's table are independent and a message names     *)
(* one, so one entry of each stands for all.  Messages that only read, and *)
(* those refused for their length or their id, change nothing.             *)
(***************************************************************************)
EXTENDS Integers

CONSTANTS MaxValue,   \* bound: a message carries values up to it, 2^32 - 1 in the code
          LoLevel, HiLevel, BootLevel,   \* limits and level of the domain at boot
          LoRate, HiRate, BootRate       \* range and rate of the clock at boot

ASSUME ServersAssumption ==
    /\ MaxValue \in Nat
    /\ {LoLevel, HiLevel, BootLevel, LoRate, HiRate, BootRate} \subseteq 0..MaxValue
    /\ LoLevel <= BootLevel /\ BootLevel <= HiLevel
    /\ LoRate <= BootRate /\ BootRate <= HiRate

Values == 0..MaxValue
PowerStates == {"ON", "OFF", "SUSPEND", "SLEEP"}

VARIABLES
    minLimit, maxLimit, level,   \* a performance domain
    rate, rateNotify,            \* a clock
    power, powerNotify           \* a power domain

perf  == <<minLimit, maxLimit, level>>
clock == <<rate, rateNotify>>
domain == <<power, powerNotify>>
vars  == <<perf, clock, domain>>

TypeOK ==
    /\ minLimit \in Values
    /\ maxLimit \in Values
    /\ level \in Values
    /\ rate \in LoRate..HiRate
    /\ rateNotify \in BOOLEAN
    /\ power \in PowerStates
    /\ powerNotify \in BOOLEAN

Init ==
    /\ minLimit = LoLevel
    /\ maxLimit = HiLevel
    /\ level = BootLevel
    /\ rate = BootRate
    /\ rateNotify = FALSE
    /\ power = "ON"
    /\ powerNotify = FALSE

Least(a, b)    == IF a <= b THEN a ELSE b
Greatest(a, b) == IF a >= b THEN a ELSE b

-------------------------------------------------------------------------------
(* Mutant of Clamp: raised to the lower bound after the upper one.         *)
ClampSwapped(v, lo, hi) == Greatest(Least(v, hi), lo)

(* Both clampings of the servers raise to the lower bound first, so that   *)
(* the upper bound wins where the two are crossed.                         *)
Clamp(v, lo, hi) == Least(Greatest(v, lo), hi)

(* Mutant of Acceptable: the maximum is not compared with the old minimum. *)
AcceptableMin(min, max) == min <= maxLimit

(* PERF_LIMITS_SET compares both values with the limits in force, whether  *)
(* or not the flags say to set them, and never with one another.           *)
Acceptable(min, max) == min <= maxLimit /\ max >= minLimit

LimitsSet(min, max, setMin, setMax) ==
    /\ Acceptable(min, max)
    /\ minLimit' = IF setMin THEN min ELSE minLimit
    /\ maxLimit' = IF setMax THEN max ELSE maxLimit
    /\ level' = Clamp(level, minLimit', maxLimit')
    /\ UNCHANGED <<clock, domain>>

LevelSet(v) ==
    /\ level' = Clamp(v, minLimit, maxLimit)
    /\ UNCHANGED <<minLimit, maxLimit, clock, domain>>

(* Mutant of RateSet: the rate is not held to the range.                   *)
RateSetRaw(v) ==
    /\ rate' = v
    /\ UNCHANGED <<rateNotify, perf, domain>>

RateSet(v) ==
    /\ rate' = Clamp(v, LoRate, HiRate)
    /\ UNCHANGED <<rateNotify, perf, domain>>

RateNotify(on) ==
    /\ rateNotify' = on
    /\ UNCHANGED <<rate, perf, domain>>

(* A state beyond PWR_STATE_SLEEP is refused.                              *)
PowerSet(s) ==
    /\ power' = s
    /\ UNCHANGED <<powerNotify, perf, clock>>

PowerNotify(on) ==
    /\ powerNotify' = on
    /\ UNCHANGED <<power, perf, clock>>

(* The three handlers.  A message they refuse or only answer is a step     *)
(* that changes nothing.                                                   *)
PerfHandler ==
    \/ \E min, max \in Values : \E setMin, setMax \in BOOLEAN :
          LimitsSet(min, max, setMin, setMax)
    \/ \E v \in Values : LevelSet(v)

ClockHandler ==
    \/ \E v \in Values : RateSet(v)
    \/ \E on \in BOOLEAN : RateNotify(on)

PowerHandler ==
    \/ \E s \in PowerStates : PowerSet(s)
    \/ \E on \in BOOLEAN : PowerNotify(on)

Next == PerfHandler \/ ClockHandler \/ PowerHandler

Spec == Init /\ [][Next]_vars

-------------------------------------------------------------------------------
(* After any sequence of limit and level messages the level is within the  *)
(* limits; where the limits are crossed it is at or below the maximum.     *)
(* That depends on the order of the two comparisons in both handlers.      *)
LevelClamped ==
    /\ level <= maxLimit
    /\ minLimit <= maxLimit => minLimit <= level

(* Although a message's two limits are never compared with one another,    *)
(* the limits become crossed only by one message that raises the minimum   *)
(* and lowers the maximum at once, and the next accepted change of a limit *)
(* uncrosses them: agents that set one limit at a time, in whatever order, *)
(* never cross each other's.                                               *)
LimitsCrossTogether ==
    [][/\ (minLimit <= maxLimit /\ minLimit' > maxLimit')
             => (minLimit' > minLimit /\ maxLimit' < maxLimit)
       /\ minLimit > maxLimit
             => (UNCHANGED <<minLimit, maxLimit>> \/ minLimit' <= maxLimit')]_vars
===============================================================================
