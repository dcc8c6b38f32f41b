------------------------- MODULE ProtocolServersProofs -------------------------
(***************************************************************************)
(* Proofs about ProtocolServers: types, the level within the limits, and   *)
(* how the limits may cross, for every bound on the values and every       *)
(* table entry that is in order at boot.                                   *)
(***************************************************************************)
EXTENDS ProtocolServers, TLAPS

(* Clamp stays below the upper bound, reaches the lower one where it can,  *)
(* and gives one of its three arguments.                                   *)
LEMMA ClampBounds ==
    ASSUME NEW v \in Int, NEW lo \in Int, NEW hi \in Int
    PROVE  /\ Clamp(v, lo, hi) \in {v, lo, hi}
           /\ Clamp(v, lo, hi) <= hi
           /\ lo <= hi => lo <= Clamp(v, lo, hi)
BY DEF Clamp, Least, Greatest

LEMMA ClampValue ==
    ASSUME NEW v \in Values, NEW lo \in Values, NEW hi \in Values
    PROVE  Clamp(v, lo, hi) \in Values
<1>1. v \in Int /\ lo \in Int /\ hi \in Int
  BY DEF Values
<1> QED
  BY <1>1, ClampBounds

LEMMA BootValues == /\ LoLevel \in Values /\ HiLevel \in Values /\ BootLevel \in Values
                    /\ LoRate \in Values /\ HiRate \in Values /\ BootRate \in Values
                    /\ Values \subseteq Int
BY ServersAssumption DEF Values

LEMMA InitOK == Init => TypeOK /\ LevelClamped
<1> SUFFICES ASSUME Init PROVE TypeOK /\ LevelClamped
  OBVIOUS
<1>1. rate \in LoRate..HiRate
  BY BootValues, ServersAssumption DEF Init
<1>2. TypeOK
  BY <1>1, BootValues DEF Init, TypeOK, PowerStates
<1>3. LevelClamped
  BY BootValues, ServersAssumption DEF Init, LevelClamped
<1> QED
  BY <1>2, <1>3

-------------------------------------------------------------------------------
LEMMA NextTypeOK == TypeOK /\ [Next]_vars => TypeOK'
<1> SUFFICES ASSUME TypeOK, [Next]_vars PROVE TypeOK'
  OBVIOUS
<1> USE DEF TypeOK
<1>1. CASE UNCHANGED vars
  BY <1>1 DEF vars, perf, clock, domain
<1>2. ASSUME NEW min \in Values, NEW max \in Values, NEW setMin \in BOOLEAN,
             NEW setMax \in BOOLEAN, LimitsSet(min, max, setMin, setMax)
      PROVE  TypeOK'
  <2>1. minLimit' \in Values /\ maxLimit' \in Values
    BY <1>2 DEF LimitsSet
  <2>2. level' \in Values
    BY <1>2, <2>1, ClampValue DEF LimitsSet
  <2> QED
    BY <1>2, <2>1, <2>2 DEF LimitsSet, clock, domain
<1>3. ASSUME NEW v \in Values, LevelSet(v) PROVE TypeOK'
  BY <1>3, ClampValue DEF LevelSet, clock, domain
<1>4. ASSUME NEW v \in Values, RateSet(v) PROVE TypeOK'
  <2>1. LoRate \in Int /\ HiRate \in Int /\ LoRate <= HiRate /\ v \in Int
    BY ServersAssumption DEF Values
  <2>2. Clamp(v, LoRate, HiRate) \in LoRate..HiRate
    BY <2>1, ClampBounds
  <2> QED
    BY <1>4, <2>2 DEF RateSet, perf, domain
<1>5. ASSUME NEW on \in BOOLEAN, RateNotify(on) \/ PowerNotify(on) PROVE TypeOK'
  BY <1>5 DEF RateNotify, PowerNotify, perf, clock, domain
<1>6. ASSUME NEW s \in PowerStates, PowerSet(s) PROVE TypeOK'
  BY <1>6 DEF PowerSet, perf, clock
<1> QED
  BY <1>1, <1>2, <1>3, <1>4, <1>5, <1>6
     DEF Next, PerfHandler, ClockHandler, PowerHandler

(* Every variable keeps its type, and the clock's rate its range, after    *)
(* any sequence of messages.                                               *)
THEOREM TypeCorrect == Spec => []TypeOK
BY InitOK, NextTypeOK, PTL DEF Spec

-------------------------------------------------------------------------------
LEMMA NextLevelClamped == TypeOK /\ LevelClamped /\ [Next]_vars => LevelClamped'
<1> SUFFICES ASSUME TypeOK, LevelClamped, [Next]_vars PROVE LevelClamped'
  OBVIOUS
<1>1. CASE UNCHANGED perf
  BY <1>1 DEF LevelClamped, perf
<1>2. ASSUME NEW min \in Values, NEW max \in Values, NEW setMin \in BOOLEAN,
             NEW setMax \in BOOLEAN, LimitsSet(min, max, setMin, setMax)
      PROVE  LevelClamped'
  <2>1. level \in Int /\ minLimit' \in Int /\ maxLimit' \in Int
    BY <1>2 DEF LimitsSet, TypeOK, Values
  <2> QED
    BY <1>2, <2>1, ClampBounds DEF LimitsSet, LevelClamped
<1>3. ASSUME NEW v \in Values, LevelSet(v) PROVE LevelClamped'
  <2>1. v \in Int /\ minLimit \in Int /\ maxLimit \in Int
    BY DEF TypeOK, Values
  <2> QED
    BY <1>3, <2>1, ClampBounds DEF LevelSet, LevelClamped
<1> QED
  BY <1>1, <1>2, <1>3
     DEF Next, PerfHandler, ClockHandler, PowerHandler, RateSet, RateNotify, PowerSet,
         PowerNotify, vars

(* The level is within the limits, and below the maximum where they are    *)
(* crossed.                                                                *)
THEOREM LevelStaysClamped == Spec => []LevelClamped
<1>1. TypeOK /\ LevelClamped /\ [Next]_vars => TypeOK' /\ LevelClamped'
  BY NextTypeOK, NextLevelClamped
<1> QED
  BY <1>1, InitOK, PTL DEF Spec

-------------------------------------------------------------------------------
(* Only a message that moves both limits at once crosses them, and no      *)
(* accepted change leaves them crossed a second time.                      *)
THEOREM LimitsCross == Spec => LimitsCrossTogether
<1> DEFINE Crossing ==
      /\ (minLimit <= maxLimit /\ minLimit' > maxLimit')
            => (minLimit' > minLimit /\ maxLimit' < maxLimit)
      /\ minLimit > maxLimit
            => (UNCHANGED <<minLimit, maxLimit>> \/ minLimit' <= maxLimit')
<1>1. TypeOK /\ [Next]_vars => [Crossing]_vars
  <2> SUFFICES ASSUME TypeOK, Next PROVE Crossing
    OBVIOUS
  <2>1. minLimit \in Int /\ maxLimit \in Int
    BY DEF TypeOK, Values
  <2>2. ASSUME NEW min \in Values, NEW max \in Values, NEW setMin \in BOOLEAN,
               NEW setMax \in BOOLEAN, LimitsSet(min, max, setMin, setMax)
        PROVE  Crossing
    <3>1. min \in Int /\ max \in Int
      BY DEF Values
    <3> QED
      BY <2>1, <2>2, <3>1 DEF LimitsSet, Acceptable
  <2>3. CASE UNCHANGED <<minLimit, maxLimit>>
    BY <2>1, <2>3
  <2> QED
    BY <2>2, <2>3
       DEF Next, PerfHandler, ClockHandler, PowerHandler, LevelSet, RateSet, RateNotify, PowerSet, PowerNotify, perf
<1> QED
  BY <1>1, TypeCorrect, PTL DEF Spec, LimitsCrossTogether
===============================================================================
