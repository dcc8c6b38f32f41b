--------------------------- MODULE SpiAdapterProofs ---------------------------
(***************************************************************************)
(* Proofs about SpiAdapter, for any set of buses and any number of chips,  *)
(* sessions and operations.                                                *)
(***************************************************************************)
EXTENDS SpiAdapter, TLAPS, WellFoundedInduction

-------------------------------------------------------------------------------
(* Type correctness.                                                       *)

LEMMA ChipsAreHandles == Chips \subseteq Handles /\ 0 \in Chips /\ 0 \in Handles
BY SpiAssumption DEF Chips, Handles

(* A nonempty set of sessions has a first one: what the loop of            *)
(* alloc_spi_session returns is a free session.                            *)
LEMMA FirstFree == FreeHandles # {} => Lowest(FreeHandles) \in FreeHandles
<1> SUFFICES ASSUME FreeHandles # {} PROVE Lowest(FreeHandles) \in FreeHandles
  OBVIOUS
<1> DEFINE R == {p \in Nat \X Nat : p[1] < p[2]}
<1>1. IsWellFoundedOn(R, Nat)
  BY NatLessThanWellFounded DEF OpToRel
<1>2. FreeHandles \subseteq Nat
  BY SpiAssumption DEF FreeHandles, Handles
<1>3. \E i \in FreeHandles : \A j \in FreeHandles : ~(<<j, i>> \in R)
  <2> HIDE DEF R
  <2> QED
    BY <1>1, <1>2, WFMin
<1>4. PICK i \in FreeHandles : \A j \in FreeHandles : ~(<<j, i>> \in R)
  BY <1>3
<1>5. \A j \in FreeHandles : i <= j
  <2> SUFFICES ASSUME NEW j \in FreeHandles PROVE i <= j
    OBVIOUS
  <2>1. i \in Nat /\ j \in Nat
    BY <1>2, <1>4
  <2>2. ~(j < i)
    BY <1>4, <2>1
  <2> QED
    BY <2>1, <2>2
<1> QED
  BY <1>4, <1>5 DEF Lowest

LEMMA InitTypeOK == Init => TypeOK
<1> SUFFICES ASSUME Init PROVE TypeOK
  OBVIOUS
<1>1. ops \in 0..MaxOps
  BY SpiAssumption DEF Init
<1> QED
  BY <1>1, ChipsAreHandles DEF Init, TypeOK, PCs, CPCs, Rets

(* The variables of the operations, which Return resets.                   *)
CallerOK ==
    /\ pc \in [Buses -> PCs]
    /\ op \in [Buses -> {"setup", "transfer"}]
    /\ cs \in [Buses -> Chips]
    /\ handle \in [Buses -> Handles]
    /\ closed \in [Buses -> BOOLEAN]
    /\ taken \in [Buses -> BOOLEAN]
    /\ last \in [Buses -> [ret : Rets, closed : BOOLEAN, taken : BOOLEAN]]

LEMMA GotoOK ==
    ASSUME CallerOK, NEW b, NEW from, NEW to \in PCs, Goto(b, from, to)
    PROVE  pc' \in [Buses -> PCs]
BY DEF CallerOK, Goto

LEMMA ReturnOK ==
    ASSUME CallerOK, NEW b \in Buses, NEW from, NEW ret \in Rets, Return(b, from, ret)
    PROVE  CallerOK'
<1>1. pc' \in [Buses -> PCs]
  BY DEF CallerOK, Return, Goto, PCs
<1>2. last' \in [Buses -> [ret : Rets, closed : BOOLEAN, taken : BOOLEAN]]
  <2>1. [ret |-> ret, closed |-> closed[b], taken |-> taken[b]]
           \in [ret : Rets, closed : BOOLEAN, taken : BOOLEAN]
    BY DEF CallerOK
  <2> QED
    BY <2>1 DEF CallerOK, Return
<1> QED
  BY <1>1, <1>2, ChipsAreHandles DEF CallerOK, Return

LEMMA CallerTypeOK ==
    ASSUME TypeOK, NEW b \in Buses, CallerStep(b)
    PROVE  TypeOK'
<1> USE DEF table, cleaner
<1>0. CallerOK
  BY DEF TypeOK, CallerOK
<1> SUFFICES CallerOK' /\ active' \subseteq Handles /\ devid' \in [Handles -> Chips]
             /\ enabled' \in [Buses -> BOOLEAN]
  <2>1. cleaner' = cleaner /\ ops' = ops
    BY DEF CallerStep, RateFails, Rate, Notify, Find, Alloc, Fill, Transfer
  <2> QED
    BY <2>1 DEF TypeOK, CallerOK
<1>1. CASE RateFails(b)
  BY <1>0, <1>1, ReturnOK DEF RateFails, TypeOK, Rets
<1>2. CASE Rate(b)
  <2>1. CASE Return(b, "rate", "OK")
    BY <1>0, <1>2, <2>1, ReturnOK DEF Rate, TypeOK, Rets
  <2>2. CASE Goto(b, "rate", "notify") \/ Goto(b, "rate", "find")
    <3>1. pc' \in [Buses -> PCs]
      BY <1>0, <2>2, GotoOK DEF PCs
    <3> QED
      BY <1>0, <1>2, <2>1, <3>1 DEF Rate, TypeOK, CallerOK
  <2> QED
    BY <1>2, <2>1, <2>2 DEF Rate
<1>3. CASE Notify(b)
  <2>0. enabled' \in [Buses -> BOOLEAN]
    BY <1>3 DEF Notify, TypeOK
  <2>1. CASE Return(b, "notify", "OK")
    BY <1>0, <1>3, <2>0, <2>1, ReturnOK DEF Notify, TypeOK, Rets
  <2>2. CASE Goto(b, "notify", "find")
    <3>1. pc' \in [Buses -> PCs]
      BY <1>0, <2>2, GotoOK DEF PCs
    <3> QED
      BY <1>0, <1>3, <2>0, <2>1, <3>1 DEF Notify, TypeOK, CallerOK
  <2> QED
    BY <1>3, <2>1, <2>2 DEF Notify
<1>4. CASE Find(b)
  <2>1. pc' \in [Buses -> PCs]
    BY <1>0, <1>4, GotoOK DEF Find, PCs
  <2>2. cs[b] \in Handles
    BY <1>0, ChipsAreHandles DEF CallerOK
  <2> QED
    BY <1>0, <1>4, <2>1, <2>2 DEF Find, TypeOK, CallerOK
<1>5. CASE Alloc(b)
  <2>1. CASE Return(b, "alloc", "EBUSY") /\ active' = active
    BY <1>0, <1>5, <2>1, ReturnOK DEF Alloc, TypeOK, Rets
  <2>2. CASE /\ FreeHandles # {}
             /\ Goto(b, "alloc", "fill")
             /\ active' = active \cup {Lowest(FreeHandles)}
             /\ handle' = [handle EXCEPT ![b] = Lowest(FreeHandles)]
             /\ taken' = Overtaken(Lowest(FreeHandles), b)
             /\ UNCHANGED <<op, cs, closed, last>>
    <3>1. pc' \in [Buses -> PCs]
      BY <1>0, <2>2, GotoOK DEF PCs
    <3>2. Lowest(FreeHandles) \in Handles
      BY <2>2, FirstFree DEF FreeHandles
    <3>3. taken' \in [Buses -> BOOLEAN]
      BY <1>0, <2>2 DEF Overtaken, CallerOK
    <3> QED
      BY <1>0, <1>5, <2>2, <3>1, <3>2, <3>3 DEF Alloc, TypeOK, CallerOK
  <2> QED
    BY <1>5, <2>1, <2>2 DEF Alloc
<1>6. CASE Fill(b)
  <2>1. pc' \in [Buses -> PCs]
    BY <1>0, <1>6, GotoOK DEF Fill, PCs
  <2> QED
    BY <1>0, <1>6, <2>1 DEF Fill, TypeOK, CallerOK
<1>7. CASE Transfer(b)
  BY <1>0, <1>7, ReturnOK DEF Transfer, TypeOK, Rets
<1> QED
  BY <1>1, <1>2, <1>3, <1>4, <1>5, <1>6, <1>7 DEF CallerStep

LEMMA BeginTypeOK ==
    ASSUME TypeOK, NEW b \in Buses, NEW c \in Chips, NEW what \in {"setup", "transfer"},
           Begin(b, c, what) \/ CleanBegin(b, c)
    PROVE  TypeOK'
<1>1. ops' \in 0..MaxOps
  <2>1. ops \in 0..MaxOps /\ ops < MaxOps /\ ops' = ops + 1
    BY DEF Begin, CleanBegin, TypeOK
  <2> QED
    BY <2>1, SpiAssumption
<1>2. CASE Begin(b, c, what)
  <2>1. pc' \in [Buses -> PCs]
    BY <1>2 DEF Begin, TypeOK, PCs
  <2> QED
    BY <1>1, <1>2, <2>1 DEF Begin, TypeOK, table, cleaner
<1>3. CASE CleanBegin(b, c)
  <2>1. cpc' \in [Buses -> CPCs]
    BY <1>3 DEF CleanBegin, CleanGoto, TypeOK, CPCs
  <2> QED
    BY <1>1, <1>3, <2>1 DEF CleanBegin, TypeOK, table, caller
<1> QED
  BY <1>2, <1>3

LEMMA CleanerTypeOK ==
    ASSUME TypeOK, NEW b \in Buses, CleanerStep(b)
    PROVE  TypeOK'
<1> USE DEF table, caller, TypeOK, CPCs, CleanGoto
<1>1. CASE CleanFind(b)
  <2>1. cpc' \in [Buses -> CPCs]
    BY <1>1 DEF CleanFind
  <2> QED
    BY <1>1, <2>1 DEF CleanFind
<1>2. CASE CleanClose(b)
  BY <1>2 DEF CleanClose, Undercut
<1>3. CASE CleanScan(b)
  <2>1. cpc' \in [Buses -> CPCs]
    BY <1>3 DEF CleanScan
  <2>2. ci' \in [Buses -> Handles]
    BY <1>3, ChipsAreHandles DEF CleanScan
  <2> QED
    BY <1>3, <2>1, <2>2 DEF CleanScan
<1>4. CASE CleanDisable(b)
  BY <1>4 DEF CleanDisable
<1> QED
  BY <1>1, <1>2, <1>3, <1>4 DEF CleanerStep

LEMMA NextTypeOK == TypeOK /\ [Next]_vars => TypeOK'
<1> SUFFICES ASSUME TypeOK, [Next]_vars PROVE TypeOK'
  OBVIOUS
<1>1. CASE UNCHANGED vars
  BY <1>1 DEF vars, table, caller, cleaner, TypeOK
<1> QED
  BY <1>1, BeginTypeOK, CallerTypeOK, CleanerTypeOK DEF Next

(* Every handle stays inside the session table, every loop of cleanup too. *)
THEOREM TypeCorrect == Spec => []TypeOK
BY InitTypeOK, NextTypeOK, PTL DEF Spec

-------------------------------------------------------------------------------
(* What a call knows about the session it looked up.                       *)

(* A session found active or opened stays active until a cleanup closes    *)
(* it, and one seen free stays free until another call takes it.           *)
LookupInv(b) ==
    /\ pc[b] \in {"fill", "transfer"} => handle[b] \in active \/ closed[b]
    /\ pc[b] = "alloc" => cs[b] \notin active \/ taken[b]
    /\ last[b].ret = "EINVAL" => last[b].closed
    /\ last[b].ret = "EBUSY" => last[b].taken

SessionInv == (\A b \in Buses : LookupInv(b)) /\ OpenersDistinct

LEMMA ReturnKeeps ==
    ASSUME TypeOK, SessionInv, NEW b \in Buses, NEW from, NEW ret, Return(b, from, ret),
           active' = active,
           ret = "EINVAL" => closed[b],
           ret = "EBUSY" => taken[b]
    PROVE  SessionInv'
<1>1. ASSUME NEW d \in Buses PROVE LookupInv(d)'
  BY <1>1 DEF TypeOK, Return, Goto, SessionInv, LookupInv
<1>2. OpenersDistinct'
  BY DEF TypeOK, Return, Goto, SessionInv, OpenersDistinct
<1> QED
  BY <1>1, <1>2 DEF SessionInv

LEMMA CallerSessionInv ==
    ASSUME TypeOK, SessionInv, NEW b \in Buses, CallerStep(b)
    PROVE  SessionInv'
<1> USE DEF table
<1>1. CASE RateFails(b)
  BY <1>1, ReturnKeeps DEF RateFails
<1>2. CASE Rate(b) \/ Notify(b)
  <2>1. CASE Return(b, "rate", "OK") \/ Return(b, "notify", "OK")
    BY <1>2, <2>1, ReturnKeeps DEF Rate, Notify
  <2>2. CASE ~(Return(b, "rate", "OK") \/ Return(b, "notify", "OK"))
    <3>1. /\ \/ pc' = [pc EXCEPT ![b] = "notify"]
             \/ pc' = [pc EXCEPT ![b] = "find"]
          /\ UNCHANGED <<active, cs, handle, closed, taken, last>>
      BY <1>2, <2>2 DEF Rate, Notify, Goto
    <3>2. \A d \in Buses : LookupInv(d)'
      BY <3>1 DEF TypeOK, SessionInv, LookupInv
    <3>3. OpenersDistinct'
      BY <3>1 DEF TypeOK, SessionInv, OpenersDistinct
    <3> QED
      BY <3>2, <3>3 DEF SessionInv
  <2> QED
    BY <2>1, <2>2
<1>3. CASE Find(b)
  BY <1>3 DEF Find, Goto, TypeOK, SessionInv, LookupInv, OpenersDistinct
<1>4. CASE Alloc(b)
  <2>1. CASE FreeHandles = {}
    <3>1. cs[b] \in active
      BY <2>1, ChipsAreHandles DEF FreeHandles, TypeOK
    <3>2. taken[b]
      BY <1>4, <2>1, <3>1 DEF Alloc, Return, Goto, SessionInv, LookupInv
    <3> QED
      BY <1>4, <2>1, <3>2, ReturnKeeps DEF Alloc
  <2>2. CASE FreeHandles # {}
    <3> DEFINE i == Lowest(FreeHandles)
    <3>1. i \in Handles /\ i \notin active
      BY <2>2, FirstFree DEF FreeHandles
    <3>2. /\ pc' = [pc EXCEPT ![b] = "fill"]
          /\ active' = active \cup {i}
          /\ handle' = [handle EXCEPT ![b] = i]
          /\ taken' = Overtaken(i, b)
          /\ UNCHANGED <<cs, closed, last>>
      BY <1>4, <2>2 DEF Alloc, Goto
    <3> HIDE DEF i
    <3>3. ASSUME NEW d \in Buses PROVE LookupInv(d)'
      <4>1. taken'[d] = (taken[d] \/ (d # b /\ pc[d] = "alloc" /\ cs[d] = i))
        BY <3>2, <3>3 DEF Overtaken
      <4>2. CASE d = b
        BY <3>2, <4>1, <4>2 DEF TypeOK, SessionInv, LookupInv
      <4>3. CASE d # b
        BY <3>2, <4>1, <4>3 DEF TypeOK, SessionInv, LookupInv
      <4> QED
        BY <4>2, <4>3
    <3>4. OpenersDistinct'
      BY <3>1, <3>2 DEF TypeOK, SessionInv, LookupInv, OpenersDistinct
    <3> QED
      BY <3>3, <3>4 DEF SessionInv
  <2> QED
    BY <2>1, <2>2
<1>5. CASE Fill(b)
  BY <1>5 DEF Fill, Goto, TypeOK, SessionInv, LookupInv, OpenersDistinct
<1>6. CASE Transfer(b)
  <2>1. pc[b] = "transfer" /\ active' = active
    BY <1>6 DEF Transfer, Return, Goto
  <2>2. CASE Return(b, "transfer", "OK")
    BY <2>1, <2>2, ReturnKeeps
  <2>3. CASE handle[b] \notin active /\ Return(b, "transfer", "EINVAL")
    <3>1. closed[b]
      BY <2>1, <2>3 DEF SessionInv, LookupInv
    <3> QED
      BY <2>1, <2>3, <3>1, ReturnKeeps
  <2> QED
    BY <1>6, <2>2, <2>3 DEF Transfer
<1> QED
  BY <1>1, <1>2, <1>3, <1>4, <1>5, <1>6 DEF CallerStep

LEMMA CleanerSessionInv ==
    ASSUME TypeOK, SessionInv, NEW b \in Buses, CleanerStep(b)
    PROVE  SessionInv'
<1>1. CASE CleanClose(b)
  <2>1. /\ active' = active \ {ccs[b]}
        /\ UNCHANGED <<pc, cs, handle, taken, last>>
    BY <1>1 DEF CleanClose
  <2>2. ASSUME NEW d \in Buses
        PROVE  closed'[d] =
                  (closed[d] \/ (pc[d] \in {"fill", "transfer"} /\ handle[d] = ccs[b]))
    BY <1>1, <2>2 DEF CleanClose, Undercut
  <2>3. ASSUME NEW d \in Buses PROVE LookupInv(d)'
    BY <2>1, <2>2, <2>3 DEF SessionInv, LookupInv
  <2>4. OpenersDistinct'
    BY <2>1, <2>2 DEF SessionInv, OpenersDistinct
  <2> QED
    BY <2>3, <2>4 DEF SessionInv
<1>2. CASE CleanFind(b) \/ CleanScan(b) \/ CleanDisable(b)
  BY <1>2 DEF CleanFind, CleanScan, CleanDisable, table, caller, SessionInv, LookupInv,
     OpenersDistinct
<1> QED
  BY <1>1, <1>2 DEF CleanerStep

LEMMA SessionInvHolds == Spec => []SessionInv
<1>1. Init => SessionInv
  BY DEF Init, SessionInv, LookupInv, OpenersDistinct
<1>2. TypeOK /\ SessionInv /\ [Next]_vars => SessionInv'
  <2> SUFFICES ASSUME TypeOK, SessionInv, [Next]_vars PROVE SessionInv'
    OBVIOUS
  <2>1. CASE UNCHANGED vars
    BY <2>1 DEF vars, table, caller, SessionInv, LookupInv, OpenersDistinct
  <2>2. ASSUME NEW b \in Buses, NEW c \in Chips, NEW what \in {"setup", "transfer"},
               Begin(b, c, what)
        PROVE  SessionInv'
    BY <2>2 DEF Begin, table, TypeOK, SessionInv, LookupInv, OpenersDistinct
  <2>3. ASSUME NEW b \in Buses, NEW c \in Chips, CleanBegin(b, c)
        PROVE  SessionInv'
    BY <2>3 DEF CleanBegin, table, caller, SessionInv, LookupInv, OpenersDistinct
  <2> QED
    BY <2>1, <2>2, <2>3, CallerSessionInv, CleanerSessionInv DEF Next
<1> QED
  BY <1>1, <1>2, TypeCorrect, PTL DEF Spec

LEMMA SessionsMean == SessionInv => InvalidOnlyByClose /\ BusyOnlyByRace /\ OpenersDistinct
BY DEF SessionInv, LookupInv, InvalidOnlyByClose, BusyOnlyByRace

(* Whatever the buses and the cleanups do beside one another, a transfer   *)
(* fails with -EINVAL only if its session was closed beneath it.           *)
THEOREM InvalidWasClosed == Spec => []InvalidOnlyByClose
BY SessionInvHolds, SessionsMean, PTL

(* Whatever the buses and the cleanups do beside one another, a call fails *)
(* with -EBUSY only if another operation took a session between its lookup *)
(* and its allocation.                                                     *)
THEOREM BusyWasRaced == Spec => []BusyOnlyByRace
BY SessionInvHolds, SessionsMean, PTL

(* For any number of buses and chips no two calls that found no session    *)
(* open the same one, unless a cleanup closed it beneath the first.        *)
THEOREM OpenersApart == Spec => []OpenersDistinct
BY SessionInvHolds, SessionsMean, PTL
===============================================================================
