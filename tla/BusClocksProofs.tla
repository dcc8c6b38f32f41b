--------------------------- MODULE BusClocksProofs ---------------------------
(***************************************************************************)
(* Proofs about BusClocks, for any SPI and I2C buses and any assignment of *)
(* clocks to them.                                                         *)
(***************************************************************************)
EXTENDS BusClocks, SpiAdapterProofs

-------------------------------------------------------------------------------
(* The composition leaves the SPI masters as they are alone.               *)

LEMMA ComposedStep == [CNext]_cvars => [Next]_vars
<1>1. ASSUME NEW b \in Buses, SpiStep(b) PROVE Next
  BY <1>1 DEF SpiStep, Next, CallerStep, CleanerStep
<1>2. UNCHANGED cvars => UNCHANGED vars
  BY DEF cvars
<1> QED
  BY <1>1, <1>2 DEF CNext

(* Whatever the I2C adapters do beside them, the SPI masters behave as     *)
(* SpiAdapter says, so that what is proved of them there holds here.       *)
THEOREM SpiMastersUndisturbed == CSpec => Spec
<1>1. CInit => Init
  BY DEF CInit
<1> QED
  BY <1>1, ComposedStep, PTL DEF CSpec, Spec

(* Beside I2C adapters too, a transfer fails with -EINVAL only if its      *)
(* session was closed beneath it.                                          *)
THEOREM InvalidWasClosedBesideI2c == CSpec => []InvalidOnlyByClose
BY SpiMastersUndisturbed, InvalidWasClosed, PTL

(* Beside I2C adapters too, a call fails with -EBUSY only if another       *)
(* operation took a session between its lookup and its allocation.         *)
THEOREM BusyWasRacedBesideI2c == CSpec => []BusyOnlyByRace
BY SpiMastersUndisturbed, BusyWasRaced, PTL

(* Beside I2C adapters too, no two calls that found no session open the    *)
(* same one, unless a cleanup closed it beneath the first.                 *)
THEOREM OpenersApartBesideI2c == CSpec => []OpenersDistinct
BY SpiMastersUndisturbed, OpenersApart, PTL

-------------------------------------------------------------------------------
(* The I2C adapters and the rates.                                         *)

RatesOK ==
    /\ setter \in [Clocks -> SUBSET AllBuses]
    /\ overtaken \subseteq AllBuses

LEMMA ClockRange == \A b \in AllBuses : ClockOf[b] \in Clocks
BY DEF Clocks

LEMMA SetByOK ==
    ASSUME RatesOK, NEW b \in AllBuses, MaySetBy(b)
    PROVE  RatesOK'
BY DEF MaySetBy, SetBy, rates, RatesOK

LEMMA I2cTypeStep ==
    ASSUME I2C!I2cTypeOK, RatesOK, NEW i \in I2cBuses, I2cStep(i)
    PROVE  I2C!I2cTypeOK' /\ RatesOK'
<1> USE ClocksAssumption DEF I2C!I2cTypeOK, I2C!Step
<1>0. i \in AllBuses
  BY DEF AllBuses
<1>1. CASE XferStep(i)
  <2>1. xfers + 1 \in 0..MaxXfers
    BY <1>1 DEF XferStep, I2C!Xfer
  <2>2. left' \in [I2cBuses -> 0..MaxMsgs]
    BY <1>1 DEF XferStep, I2C!Xfer
  <2> QED
    BY <1>1, <2>1, <2>2 DEF XferStep, I2C!Xfer, RatesOK
<1>2. CASE I2C!SetRate(i) /\ SetBy(i)
  BY <1>0, <1>2, SetByOK DEF I2C!SetRate, MaySetBy
<1>3. CASE I2C!SetFails(i) /\ MaySetBy(i)
  <2>1. left[i] \in 0..MaxMsgs => 0 \in 0..MaxMsgs
    OBVIOUS
  <2> QED
    BY <1>0, <1>3, <2>1, SetByOK DEF I2C!SetFails
<1>4. CASE I2C!SetFlag(i) /\ UNCHANGED rates
  BY <1>4 DEF I2C!SetFlag, rates, RatesOK
<1>5. CASE I2C!Move(i) /\ UNCHANGED rates
  <2>1. left[i] - 1 \in 0..MaxMsgs
    BY <1>5 DEF I2C!Move
  <2> QED
    BY <1>5, <2>1 DEF I2C!Move, rates, RatesOK
<1>6. CASE I2C!Finish(i) /\ UNCHANGED rates
  BY <1>6 DEF I2C!Finish, rates, RatesOK
<1> QED
  BY <1>1, <1>2, <1>3, <1>4, <1>5, <1>6 DEF I2cStep

LEMMA SpiRatesStep ==
    ASSUME RatesOK, NEW b \in Buses, SpiStep(b)
    PROVE  RatesOK'
<1>1. b \in AllBuses
  BY DEF AllBuses
<1> QED
  BY <1>1, SetByOK DEF SpiStep, MaySetBy, rates, RatesOK

(* The types of the composition, for every number of buses and clocks.     *)
THEOREM ClocksTypeCorrect == CSpec => []CTypeOK
<1>1. CInit => TypeOK /\ I2C!I2cTypeOK /\ RatesOK
  <2> SUFFICES ASSUME CInit PROVE TypeOK /\ I2C!I2cTypeOK /\ RatesOK
    OBVIOUS
  <2>1. TypeOK
    BY InitTypeOK DEF CInit
  <2>2. I2C!I2cTypeOK
    BY ClocksAssumption DEF CInit, I2C!I2cInit, I2C!I2cTypeOK
  <2> QED
    BY <2>1, <2>2 DEF CInit, RatesOK
<1>2. TypeOK /\ [CNext]_cvars => TypeOK'
  BY ComposedStep, NextTypeOK
<1>3. I2C!I2cTypeOK /\ RatesOK /\ [CNext]_cvars => I2C!I2cTypeOK' /\ RatesOK'
  <2> SUFFICES ASSUME I2C!I2cTypeOK, RatesOK, [CNext]_cvars
               PROVE  I2C!I2cTypeOK' /\ RatesOK'
    OBVIOUS
  <2>1. CASE UNCHANGED i2cvars /\ UNCHANGED rates
    BY <2>1 DEF i2cvars, rates, RatesOK, I2C!I2cTypeOK
  <2>2. ASSUME NEW b \in Buses, SpiStep(b), UNCHANGED i2cvars
        PROVE  I2C!I2cTypeOK' /\ RatesOK'
    BY <2>2, SpiRatesStep DEF i2cvars, I2C!I2cTypeOK
  <2> QED
    BY <2>1, <2>2, I2cTypeStep DEF CNext, cvars
<1>4. TypeOK /\ I2C!I2cTypeOK /\ RatesOK => CTypeOK
  BY DEF CTypeOK, RatesOK
<1> QED
  BY <1>1, <1>2, <1>3, <1>4, PTL DEF CSpec

-------------------------------------------------------------------------------
(* Whose rate a bus runs at.                                               *)

Claimed(b) == Own(b) \/ b \in overtaken

(* A flag that is on, or a set that went through, stands for a rate the    *)
(* bus has set itself; an I2C flag is off between transfers.               *)
SpiRateInv(b) ==
    (enabled[b] \/ pc[b] \in {"notify", "find", "alloc", "fill", "transfer"}) => Claimed(b)

I2cRateInv(i) ==
    /\ ipc[i] \in {"notify", "move"} => Claimed(i)
    /\ ipc[i] \in {"idle", "rate"} => ~flag[i]

RateInv == (\A b \in Buses : SpiRateInv(b)) /\ (\A i \in I2cBuses : I2cRateInv(i))

(* A set makes the rate one's own, and takes nobody's claim.               *)
LEMMA SetClaims ==
    ASSUME RatesOK, NEW b \in AllBuses, SetBy(b)
    PROVE  Claimed(b)' /\ \A d \in AllBuses : Claimed(d) => Claimed(d)'
<1>1. setter' = [setter EXCEPT ![ClockOf[b]] = {b}] /\ ClockOf[b] \in Clocks
  BY ClockRange DEF SetBy
<1>2. Own(b)'
  BY <1>1 DEF Own, RatesOK
<1>3. ASSUME NEW d \in AllBuses, d # b, Claimed(d) PROVE Claimed(d)'
  <2>1. CASE ClockOf[d] # ClockOf[b] /\ Own(d)
    BY <1>1, <2>1, ClockRange DEF Own, RatesOK, Claimed
  <2>2. CASE ClockOf[d] = ClockOf[b] /\ Own(d)
    BY <1>3, <2>2 DEF SetBy, Claimed
  <2>3. CASE d \in overtaken
    BY <1>3, <2>3 DEF SetBy, Claimed
  <2> QED
    BY <1>3, <2>1, <2>2, <2>3 DEF Claimed
<1> QED
  BY <1>2, <1>3 DEF Claimed

LEMMA RatesKept ==
    ASSUME UNCHANGED rates
    PROVE  \A d : Claimed(d)' <=> Claimed(d)
BY DEF rates, Claimed, Own

LEMMA SpiRateStep ==
    ASSUME TypeOK, RatesOK, RateInv, NEW b \in Buses, SpiStep(b), UNCHANGED i2cvars
    PROVE  RateInv'
<1>0. \A d \in Buses \cup I2cBuses : d \in AllBuses
  BY DEF AllBuses
<1>1. \A d \in AllBuses : Claimed(d) => Claimed(d)'
  BY <1>0, SetClaims, RatesKept DEF SpiStep, MaySetBy
<1>2. \A i \in I2cBuses : I2cRateInv(i)'
  BY <1>0, <1>1 DEF RateInv, I2cRateInv, i2cvars
<1>3. CASE Rate(b) /\ SetBy(b)
  <2>1. Claimed(b)'
    BY <1>0, <1>3, SetClaims
  <2>2. enabled' = enabled /\ \A d \in Buses : d # b => pc'[d] = pc[d]
    BY <1>3 DEF Rate, Goto, Return, TypeOK
  <2>3. \A d \in Buses : SpiRateInv(d)'
    BY <1>0, <1>1, <2>1, <2>2 DEF RateInv, SpiRateInv
  <2> QED
    BY <1>2, <2>3 DEF RateInv
<1>4. CASE RateFails(b)
  <2>1. enabled' = enabled /\ pc' = [pc EXCEPT ![b] = "idle"]
    BY <1>4 DEF RateFails, Return, Goto
  <2>2. \A d \in Buses : SpiRateInv(d)'
    BY <1>0, <1>1, <2>1 DEF RateInv, SpiRateInv, TypeOK
  <2> QED
    BY <1>2, <2>2 DEF RateInv
<1>5. ASSUME NEW c \in Chips, NEW what \in {"setup", "transfer"}, Begin(b, c, what)
      PROVE  RateInv'
  <2>1. /\ enabled' = enabled
        /\ \/ pc' = [pc EXCEPT ![b] = "rate"]
           \/ enabled[b] /\ pc' = [pc EXCEPT ![b] = "find"]
    BY <1>5 DEF Begin
  <2>2. \A d \in Buses : SpiRateInv(d)'
    BY <1>0, <1>1, <2>1 DEF RateInv, SpiRateInv, TypeOK
  <2> QED
    BY <1>2, <2>2 DEF RateInv
<1>6. CASE Notify(b)
  <2>1. /\ pc[b] = "notify" /\ enabled' = [enabled EXCEPT ![b] = TRUE]
        /\ \E to \in {"find", "idle"} : pc' = [pc EXCEPT ![b] = to]
    BY <1>6 DEF Notify, Goto, Return
  <2>2. \A d \in Buses : SpiRateInv(d)'
    BY <1>0, <1>1, <2>1 DEF RateInv, SpiRateInv, TypeOK
  <2> QED
    BY <1>2, <2>2 DEF RateInv
<1>7. CASE Find(b) \/ Alloc(b) \/ Fill(b) \/ Transfer(b)
  <2>1. /\ enabled' = enabled /\ pc[b] \in {"find", "alloc", "fill", "transfer"}
        /\ \E to \in {"alloc", "fill", "transfer", "idle"} : pc' = [pc EXCEPT ![b] = to]
    BY <1>7 DEF Find, Alloc, Fill, Transfer, Goto, Return
  <2>2. \A d \in Buses : SpiRateInv(d)'
    BY <1>0, <1>1, <2>1 DEF RateInv, SpiRateInv, TypeOK
  <2> QED
    BY <1>2, <2>2 DEF RateInv
<1>8. CASE CleanerStep(b) \/ \E c \in Chips : CleanBegin(b, c)
  <2>1. pc' = pc /\ \A d \in Buses : enabled'[d] => enabled[d]
    BY <1>8 DEF CleanerStep, CleanFind, CleanClose, CleanScan, CleanDisable, CleanBegin,
       caller, TypeOK
  <2>2. \A d \in Buses : SpiRateInv(d)'
    BY <1>0, <1>1, <2>1 DEF RateInv, SpiRateInv
  <2> QED
    BY <1>2, <2>2 DEF RateInv
<1> QED
  BY <1>3, <1>4, <1>5, <1>6, <1>7, <1>8 DEF SpiStep

LEMMA I2cRateStep ==
    ASSUME I2C!I2cTypeOK, RatesOK, RateInv, NEW i \in I2cBuses, I2cStep(i), UNCHANGED vars
    PROVE  RateInv'
<1> USE DEF I2C!Step
<1>0. /\ \A d \in Buses \cup I2cBuses : d \in AllBuses
      /\ \A d \in Buses : d # i
  BY ClocksAssumption DEF AllBuses
<1>1. ASSUME \A d \in Buses : Claimed(d) => Claimed(d)'
      PROVE  \A d \in Buses : SpiRateInv(d)'
  BY <1>1 DEF RateInv, SpiRateInv, vars, caller
<1>2. CASE XferStep(i)
  <2>1. \A d \in AllBuses : d # i => (Claimed(d) => Claimed(d)')
    BY <1>2 DEF XferStep, Claimed, Own
  <2>2. /\ ipc[i] = "idle" /\ flag' = flag
        /\ ipc' = [ipc EXCEPT ![i] = IF flag[i] THEN "move" ELSE "rate"]
    BY <1>2 DEF XferStep, I2C!Xfer
  <2>3. \A d \in I2cBuses : I2cRateInv(d)'
    BY <1>0, <2>1, <2>2 DEF RateInv, I2cRateInv, I2C!I2cTypeOK
  <2> QED
    BY <1>0, <1>1, <2>1, <2>3 DEF RateInv
<1>3. CASE I2C!SetRate(i) /\ SetBy(i)
  <2>1. Claimed(i)' /\ \A d \in AllBuses : Claimed(d) => Claimed(d)'
    BY <1>0, <1>3, SetClaims
  <2>2. \A d \in I2cBuses : I2cRateInv(d)'
    BY <1>0, <1>3, <2>1 DEF I2C!SetRate, RateInv, I2cRateInv, I2C!I2cTypeOK
  <2> QED
    BY <1>0, <1>1, <2>1, <2>2 DEF RateInv
<1>4. CASE I2C!SetFails(i) /\ MaySetBy(i)
  <2>1. \A d \in AllBuses : Claimed(d) => Claimed(d)'
    BY <1>0, <1>4, SetClaims, RatesKept DEF MaySetBy
  <2>2. \A d \in I2cBuses : I2cRateInv(d)'
    BY <1>0, <1>4, <2>1 DEF I2C!SetFails, RateInv, I2cRateInv, I2C!I2cTypeOK
  <2> QED
    BY <1>0, <1>1, <2>1, <2>2 DEF RateInv
<1>5. CASE (I2C!SetFlag(i) \/ I2C!Move(i) \/ I2C!Finish(i)) /\ UNCHANGED rates
  <2>1. \A d \in AllBuses : Claimed(d) => Claimed(d)'
    BY <1>5, RatesKept
  <2>2. \A d \in I2cBuses : I2cRateInv(d)'
    BY <1>0, <1>5, <2>1 DEF I2C!SetFlag, I2C!Move, I2C!Finish, RateInv, I2cRateInv,
       I2C!I2cTypeOK
  <2> QED
    BY <1>0, <1>1, <2>1, <2>2 DEF RateInv
<1> QED
  BY <1>2, <1>3, <1>4, <1>5 DEF I2cStep

(* For every set of buses and every sharing of clocks: a bus moves data at *)
(* a rate of its own unless another bus of its clock set one since.        *)
THEOREM RatesAccounted == CSpec => []RateOwnOrOvertaken
<1>1. CInit => RateInv
  BY DEF CInit, Init, I2C!I2cInit, RateInv, SpiRateInv, I2cRateInv
<1>2. CTypeOK /\ RateInv /\ [CNext]_cvars => RateInv'
  <2> SUFFICES ASSUME CTypeOK, RateInv, [CNext]_cvars PROVE RateInv'
    OBVIOUS
  <2>1. CASE UNCHANGED cvars
    BY <2>1, RatesKept DEF cvars, vars, caller, i2cvars, RateInv, SpiRateInv, I2cRateInv
  <2> QED
    BY <2>1, SpiRateStep, I2cRateStep DEF CNext, CTypeOK, RatesOK
<1>3. RateInv => RateOwnOrOvertaken
  BY DEF RateInv, SpiRateInv, I2cRateInv, RateOwnOrOvertaken, Moving, Claimed, AllBuses
<1> QED
  BY <1>1, <1>2, <1>3, ClocksTypeCorrect, PTL DEF CSpec
===============================================================================
