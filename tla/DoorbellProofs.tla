---------------------------- MODULE DoorbellProofs ----------------------------
(***************************************************************************)
(* Proofs about Doorbell, for any number of channels and calls.            *)
(***************************************************************************)
EXTENDS Doorbell, TLAPS

-------------------------------------------------------------------------------
(* Type correctness, split by who owns the variables.                      *)

LEMMA AreaRange == /\ 0 \in Channels /\ 0 \in Areas
                   /\ \A ch \in Channels : RequestArea(ch) \in Areas
BY DoorbellAssumption DEF Channels, Areas, RequestArea

LEMMA MessageRange == /\ Empty \in Message /\ Response \in Message
                      /\ \A ch \in Channels, c \in Calls : <<"req", ch, c>> \in Message
BY DEF Message, Request

LEMMA HomeRange == \A p \in Callers : Home(p) \in Channels
BY DoorbellAssumption DEF Home

LEMMA CountUp ==
    ASSUME NEW f \in [Channels -> Nat], NEW ch \in Channels
    PROVE  [f EXCEPT ![ch] = f[ch] + 1] \in [Channels -> Nat]
<1>1. f[ch] + 1 \in Nat
  OBVIOUS
<1> QED
  BY <1>1

LEMMA InitTypeOK == Init => TypeOK
<1> SUFFICES ASSUME Init PROVE TypeOK
  OBVIOUS
<1>1. SharedOK
  BY AreaRange, MessageRange DEF Init, SharedOK, Length
<1>2. CallersOK
  <2>1. calls \in [Channels -> 0..MaxCalls]
    BY DoorbellAssumption DEF Init
  <2>2. result \in [Channels -> [Calls -> Rets]]
    BY DEF Init, Rets
  <2> QED
    BY <2>1, <2>2, AreaRange, MessageRange DEF Init, CallersOK, PCs, Length
<1>3. FirmwareOK /\ HistoryOK
  BY AreaRange, MessageRange DEF Init, FirmwareOK, HistoryOK, FPCs, Length
<1> QED
  BY <1>1, <1>2, <1>3 DEF TypeOK

LEMMA ReturnTypeOK ==
    ASSUME CallersOK, NEW p \in Callers, NEW where, NEW ret \in Rets,
           Return(p, where, ret), resp' \in [Callers -> Message]
    PROVE  CallersOK'
<1>1. pc' \in [Callers -> PCs]
  BY DEF CallersOK, Return, Goto, PCs
<1>2. result' \in [Channels -> [Calls -> Rets]]
  <2>1. result[Home(p)] \in [Calls -> Rets]
    BY HomeRange DEF CallersOK
  <2>2. [result[Home(p)] EXCEPT ![call[p]] = ret] \in [Calls -> Rets]
    BY <2>1
  <2> QED
    BY <2>2 DEF CallersOK, Return
<1> QED
  BY <1>1, <1>2, AreaRange DEF CallersOK, Return, Length

LEMMA GotoTypeOK ==
    ASSUME CallersOK, NEW p, NEW where, NEW to \in PCs, Goto(p, where, to)
    PROVE  pc' \in [Callers -> PCs]
BY DEF CallersOK, Goto

LEMMA BeginTypeOK ==
    ASSUME TypeOK, NEW p \in Callers, NEW to \in PCs, Begin(p, to)
    PROVE  CallersOK' /\ calls[Home(p)] + 1 \in Calls
<1> USE DEF TypeOK
<1>1. calls[Home(p)] + 1 \in Calls /\ calls[Home(p)] + 1 \in 0..MaxCalls
  BY DoorbellAssumption, HomeRange DEF Begin, MayCall, CallersOK, Calls
<1>2. pc' \in [Callers -> PCs]
  BY GotoTypeOK DEF Begin
<1>3. RequestArea(Home(p)) \in Areas
  BY AreaRange, HomeRange
<1>4. calls' \in [Channels -> 0..MaxCalls] /\ call' \in [Callers -> Calls \cup {0}]
  BY <1>1 DEF Begin, CallersOK
<1> QED
  BY <1>1, <1>2, <1>3, <1>4, MessageRange DEF Begin, CallersOK

LEMMA DispatchTypeOK ==
    ASSUME TypeOK, NEW p \in Callers, Dispatch(p) \/ DispatchFault(p)
    PROVE  TypeOK'
<1> USE DEF TypeOK, regs, firmware, history
<1>1. CallersOK' /\ calls[Home(p)] + 1 \in Calls
  BY BeginTypeOK DEF Dispatch, DispatchFault, PCs
<1>2. shm' \in [Areas -> Message]
  BY <1>1, HomeRange, MessageRange DEF Dispatch, DispatchFault, SharedOK
<1> QED
  BY <1>1, <1>2 DEF Dispatch, DispatchFault, SharedOK, FirmwareOK, HistoryOK

LEMMA CallerTypeOK ==
    ASSUME TypeOK, NEW p \in Callers, CallerStep(p)
    PROVE  TypeOK'
<1> USE DEF TypeOK, regs, firmware, history
<1>1. CASE RefuseBusy(p)
  <2>1. CallersOK'
    BY <1>1, ReturnTypeOK DEF RefuseBusy, Rets, CallersOK
  <2> QED
    BY <1>1, <2>1 DEF RefuseBusy, SharedOK, FirmwareOK, HistoryOK
<1>2. CASE Check(p)
  <2>1. pc' \in [Callers -> PCs]
    BY <1>2, GotoTypeOK DEF Check, PCs
  <2> QED
    BY <1>2, <2>1 DEF Check, CallersOK, SharedOK, FirmwareOK, HistoryOK
<1>3. CASE WriteRegs(p)
  <2>1. pc' \in [Callers -> PCs]
    BY <1>3, GotoTypeOK DEF WriteRegs, PCs
  <2>2. addr' \in [Channels -> Areas] /\ size' \in [Channels -> Length]
    BY <1>3 DEF WriteRegs, CallersOK, SharedOK, Length
  <2> QED
    BY <1>3, <2>1, <2>2 DEF WriteRegs, CallersOK, SharedOK, FirmwareOK, HistoryOK
<1>4. CASE Ring(p)
  <2>1. pc' \in [Callers -> PCs]
    BY <1>4, GotoTypeOK DEF Ring, PCs
  <2>2. rung' \in [Channels -> Nat] /\ asked' \in [Channels -> Calls \cup {0}]
    BY <1>4, CountUp, HomeRange DEF Ring, HistoryOK, CallersOK
  <2> QED
    BY <1>4, <2>1, <2>2 DEF Ring, CallersOK, SharedOK, FirmwareOK, HistoryOK
<1>5. CASE Mark(p)
  <2>1. pc' \in [Callers -> PCs]
    BY <1>5, GotoTypeOK DEF Mark, PCs
  <2> QED
    BY <1>5, <2>1 DEF Mark, CallersOK, SharedOK, FirmwareOK, HistoryOK
<1>6. CASE Accept(p)
  <2>1. pc' \in [Callers -> PCs]
    BY <1>6, GotoTypeOK DEF Accept, PCs
  <2>2. addr[Home(p)] \in Areas /\ size[Home(p)] \in Length
    BY HomeRange DEF SharedOK
  <2> QED
    BY <1>6, <2>1, <2>2 DEF Accept, CallersOK, SharedOK, FirmwareOK, HistoryOK
<1>7. CASE Unmark(p)
  <2>1. pc' \in [Callers -> PCs]
    BY <1>7, GotoTypeOK DEF Unmark, PCs
  <2> QED
    BY <1>7, <2>1 DEF Unmark, CallersOK, SharedOK, FirmwareOK, HistoryOK
<1>8. CASE CopyResponse(p)
  <2>1. shm[ptr[p]] \in Message
    BY DEF SharedOK, CallersOK
  <2>2. resp' \in [Callers -> Message]
    BY <1>8, <2>1 DEF CopyResponse, CallersOK
  <2>3. CallersOK'
    BY <1>8, <2>2, ReturnTypeOK DEF CopyResponse, Rets
  <2> QED
    BY <1>8, <2>3 DEF CopyResponse, SharedOK, FirmwareOK, HistoryOK
<1>9. CASE PollTimeout(p)
  <2>1. CallersOK'
    BY <1>9, ReturnTypeOK DEF PollTimeout, Rets, CallersOK
  <2> QED
    BY <1>9, <2>1 DEF PollTimeout, SharedOK, FirmwareOK, HistoryOK
<1> QED
  BY <1>1, <1>2, <1>3, <1>4, <1>5, <1>6, <1>7, <1>8, <1>9 DEF CallerStep

LEMMA FirmwareTypeOK ==
    ASSUME TypeOK, FirmwareStep
    PROVE  TypeOK'
<1> USE DEF TypeOK, regs, callers, history, CallersOK
<1>0. ASSUME NextChannel PROVE fw' \in FPCs /\ at' \in Channels
  BY <1>0, AreaRange DEF NextChannel, FPCs
<1>1. CASE Fiq
  BY <1>1 DEF Fiq, SharedOK, FirmwareOK, HistoryOK, FPCs
<1>2. CASE Scan
  BY <1>2, <1>0 DEF Scan, SharedOK, FirmwareOK, HistoryOK, FPCs
<1>3. CASE ReadDoorbell
  BY <1>3, <1>0 DEF ReadDoorbell, SharedOK, FirmwareOK, HistoryOK, FPCs
<1>4. CASE ReadRegs
  <2>1. addr[at] \in Areas /\ size[at] \in Length
    BY DEF SharedOK, FirmwareOK
  <2> QED
    BY <1>4, <2>1 DEF ReadRegs, SharedOK, FirmwareOK, HistoryOK, FPCs
<1>5. CASE Fetch
  <2>1. shm[msgaddr] \in Message
    BY DEF SharedOK, FirmwareOK
  <2> QED
    BY <1>5, <2>1 DEF Fetch, SharedOK, FirmwareOK, HistoryOK, FPCs
<1>6. CASE Answer
  BY <1>6, AreaRange, MessageRange DEF Answer, SharedOK, FirmwareOK, HistoryOK, FPCs,
     Length
<1>7. CASE FirmwareFault
  BY <1>7, AreaRange, MessageRange DEF FirmwareFault, SharedOK, FirmwareOK, HistoryOK,
     FPCs, Length
<1>8. CASE ClearValid
  <2>1. served' \in [Channels -> Nat]
    BY <1>8, CountUp DEF ClearValid, HistoryOK, FirmwareOK
  <2> QED
    BY <1>8, <2>1 DEF ClearValid, SharedOK, FirmwareOK, HistoryOK, FPCs
<1>9. CASE WriteSize
  BY <1>9 DEF WriteSize, SharedOK, FirmwareOK, HistoryOK, FPCs, Length
<1>10. CASE RingBack
  BY <1>10, <1>0 DEF RingBack, SharedOK, FirmwareOK, HistoryOK
<1> QED
  BY <1>1, <1>2, <1>3, <1>4, <1>5, <1>6, <1>7, <1>8, <1>9, <1>10 DEF FirmwareStep

LEMMA NextTypeOK == TypeOK /\ [Next]_vars => TypeOK'
<1> SUFFICES ASSUME TypeOK, [Next]_vars PROVE TypeOK'
  OBVIOUS
<1>1. CASE UNCHANGED vars
  BY <1>1 DEF vars, regs, callers, firmware, history, TypeOK, SharedOK, CallersOK,
     FirmwareOK, HistoryOK
<1> QED
  BY <1>1, DispatchTypeOK, CallerTypeOK, FirmwareTypeOK DEF Next

(* Every register, buffer index and program counter keeps its range: the   *)
(* firmware's loop never leaves the channels, a response address is always *)
(* an area of the shared memory.                                           *)
THEOREM TypeCorrect == Spec => []TypeOK
BY InitTypeOK, NextTypeOK, PTL DEF Spec

-------------------------------------------------------------------------------
(* Channels with one caller.                                               *)

(* The doorbell word tells how the counts of a channel stand.  While it    *)
(* shows the reverse doorbell they may stand either way: a request rung    *)
(* before the reverse doorbell was overwritten by it.                      *)
ChannelInv(ch) ==
    /\ rung[ch] = served[ch] \/ rung[ch] = served[ch] + 1
    /\ db[ch] = "clear" => Even(ch)
    /\ db[ch] = "req" => rung[ch] = served[ch] + 1
    /\ (fw \in {"regs", "fetch", "answer", "clear"} /\ at = ch) => db[ch] = "req"

(* A caller rings only on an even channel: either it found the channel not *)
(* busy, and then the last call on it was accepted, or it stays refused.   *)
CallerInv(p) ==
    /\ pc[p] \in {"regs", "ring", "accepted", "copy"} => Even(Home(p))
    /\ (pc[p] \in {"idle", "check", "fault"} /\ ~busy[Home(p)]) => Even(Home(p))
    /\ pc[p] = "poll" => busy[Home(p)]
    /\ pc[p] \in {"regs", "ring", "mark", "copy"} => ~busy[Home(p)]

RingInv ==
    /\ \A ch \in SoloChannels : ChannelInv(ch)
    /\ \A p \in Callers : Solo(Home(p)) => CallerInv(p)

LEMMA SoloOne ==
    ASSUME NEW p \in Callers, NEW q \in Callers, Solo(Home(p)), Home(q) = Home(p)
    PROVE  q = p
BY DEF Solo

LEMMA CallerRingInv ==
    ASSUME TypeOK, RingInv, NEW p \in Callers, Dispatch(p) \/ DispatchFault(p) \/ CallerStep(p)
    PROVE  RingInv'
<1> USE SoloOne, HomeRange DEF TypeOK, SharedOK, CallersOK, FirmwareOK, HistoryOK,
        regs, firmware, history, Goto, Return, SoloChannels
<1>1. CASE Dispatch(p) \/ DispatchFault(p)
  BY <1>1 DEF Dispatch, DispatchFault, Begin, RingInv, ChannelInv, CallerInv, Even
<1>2. CASE RefuseBusy(p) \/ Check(p) \/ WriteRegs(p)
  BY <1>2 DEF RefuseBusy, Check, WriteRegs, RingInv, ChannelInv, CallerInv, Even
<1>3. CASE Ring(p)
  <2>1. Solo(Home(p)) => Even(Home(p))
    BY <1>3 DEF Ring, RingInv, CallerInv
  <2>2. ASSUME NEW ch \in SoloChannels PROVE ChannelInv(ch)'
    BY <1>3, <2>1 DEF Ring, RingInv, ChannelInv, Even
  <2>3. ASSUME NEW q \in Callers, Solo(Home(q)) PROVE CallerInv(q)'
    BY <1>3, <2>3 DEF Ring, RingInv, CallerInv, Even
  <2> QED
    BY <2>2, <2>3 DEF RingInv
<1>4. CASE Mark(p)
  BY <1>4 DEF Mark, RingInv, ChannelInv, CallerInv, Even
<1>5. CASE Accept(p)
  BY <1>5 DEF Accept, RingInv, ChannelInv, CallerInv, Even
<1>6. CASE Unmark(p)
  BY <1>6 DEF Unmark, RingInv, ChannelInv, CallerInv, Even
<1>7. CASE CopyResponse(p) \/ PollTimeout(p)
  BY <1>7 DEF CopyResponse, PollTimeout, RingInv, ChannelInv, CallerInv, Even
<1> QED
  BY <1>1, <1>2, <1>3, <1>4, <1>5, <1>6, <1>7 DEF CallerStep

LEMMA FirmwareRingInv ==
    ASSUME TypeOK, RingInv, FirmwareStep
    PROVE  RingInv'
<1> USE HomeRange DEF TypeOK, SharedOK, CallersOK, FirmwareOK, HistoryOK,
        regs, callers, history, SoloChannels
<1>0. ASSUME NextChannel PROVE fw' \notin {"regs", "fetch", "answer", "clear"}
  BY <1>0 DEF NextChannel
<1>1. CASE Fiq \/ Scan \/ ReadDoorbell
  BY <1>0, <1>1 DEF Fiq, Scan, ReadDoorbell, RingInv, ChannelInv, CallerInv, Even
<1>2. CASE ReadRegs \/ Fetch \/ Answer \/ FirmwareFault \/ WriteSize
  BY <1>2 DEF ReadRegs, Fetch, Answer, FirmwareFault, WriteSize, RingInv, ChannelInv,
     CallerInv, Even
<1>3. CASE ClearValid
  <2>1. at \in SoloChannels => rung[at] = served[at] + 1
    BY <1>3 DEF ClearValid, RingInv, ChannelInv
  <2>2. ASSUME NEW ch \in SoloChannels PROVE ChannelInv(ch)'
    BY <1>3, <2>1 DEF ClearValid, RingInv, ChannelInv, Even
  <2>3. ASSUME NEW p \in Callers, Solo(Home(p)) PROVE CallerInv(p)'
    BY <1>3, <2>1, <2>3 DEF ClearValid, RingInv, CallerInv, Even
  <2> QED
    BY <2>2, <2>3 DEF RingInv
<1>4. CASE RingBack
  BY <1>0, <1>4 DEF RingBack, RingInv, ChannelInv, CallerInv, Even
<1> QED
  BY <1>1, <1>2, <1>3, <1>4 DEF FirmwareStep

LEMMA RingInvHolds == Spec => []RingInv
<1>1. Init => RingInv
  BY HomeRange DEF Init, RingInv, ChannelInv, CallerInv, Even, SoloChannels
<1>2. TypeOK /\ RingInv /\ [Next]_vars => RingInv'
  <2> SUFFICES ASSUME TypeOK, RingInv, [Next]_vars PROVE RingInv'
    OBVIOUS
  <2>1. CASE UNCHANGED vars
    BY <2>1 DEF vars, regs, callers, firmware, history, RingInv, ChannelInv, CallerInv,
       Even
  <2> QED
    BY <2>1, CallerRingInv, FirmwareRingInv DEF Next
<1> QED
  BY <1>1, <1>2, TypeCorrect, PTL DEF Spec

(* For any number of channels and callers: on a channel with one caller a  *)
(* poll that is accepted by doorbell_poll_response was served, whatever    *)
(* timed out before it.                                                    *)
THEOREM AcceptedWasServed == Spec => []AcceptedMeansServed
<1>1. TypeOK /\ RingInv => AcceptedMeansServed
  BY HomeRange DEF RingInv, ChannelInv, CallerInv, Even, AcceptedMeansServed,
     TypeOK, HistoryOK, SoloChannels
<1> QED
  BY <1>1, RingInvHolds, TypeCorrect, PTL

(* For any number of channels and callers: on a channel with one caller    *)
(* never more than one doorbell waits for the firmware, because a poll     *)
(* that gives up leaves busy set and doorbell_send refuses a busy channel. *)
THEOREM OneDoorbellWaits == Spec => []OneOutstanding
<1>1. TypeOK /\ RingInv => OneOutstanding
  BY HomeRange DEF RingInv, ChannelInv, Even, OneOutstanding, TypeOK, HistoryOK,
     SoloChannels
<1> QED
  BY <1>1, RingInvHolds, TypeCorrect, PTL

-------------------------------------------------------------------------------
(* The doorbell is not overlooked.                                         *)

(* For any number of channels and callers no doorbell word shows a request *)
(* that neither an interrupt nor the handler's own position leads to.      *)
THEOREM NoDoorbellOverlooked == Spec => []DoorbellSeen
<1> USE DEF regs, callers, firmware, history
<1>1. Init => DoorbellSeen
  BY DEF Init, DoorbellSeen
<1>2. TypeOK /\ DoorbellSeen /\ [Next]_vars => DoorbellSeen'
  <2> SUFFICES ASSUME TypeOK, DoorbellSeen, [Next]_vars PROVE DoorbellSeen'
    OBVIOUS
  <2> USE DEF TypeOK, SharedOK, FirmwareOK
  <2>1. CASE UNCHANGED vars
    BY <2>1 DEF vars, DoorbellSeen
  <2>2. ASSUME NEW p \in Callers, Dispatch(p) \/ DispatchFault(p) \/ CallerStep(p)
        PROVE  DoorbellSeen'
    <3>1. CASE Ring(p)
      BY <3>1, HomeRange DEF Ring, DoorbellSeen
    <3>2. CASE ~Ring(p)
      BY <2>2, <3>2 DEF Dispatch, DispatchFault, Begin, CallerStep, RefuseBusy, Check,
         WriteRegs, Mark, Accept, Unmark, CopyResponse, PollTimeout, DoorbellSeen
    <3> QED
      BY <3>1, <3>2
  <2>3. CASE Fiq \/ Scan \/ ReadDoorbell
    BY <2>3 DEF Fiq, Scan, ReadDoorbell, NextChannel, DoorbellSeen
  <2>4. CASE ReadRegs \/ Fetch \/ Answer \/ FirmwareFault
    BY <2>4 DEF ReadRegs, Fetch, Answer, FirmwareFault, DoorbellSeen
  <2>5. CASE ClearValid \/ WriteSize \/ RingBack
    BY <2>5 DEF ClearValid, WriteSize, RingBack, NextChannel, DoorbellSeen
  <2> QED
    BY <2>1, <2>2, <2>3, <2>4, <2>5 DEF Next, FirmwareStep
<1> QED
  BY <1>1, <1>2, TypeCorrect, PTL DEF Spec

-------------------------------------------------------------------------------
(* A solo channel is the exchange of module Exchange.                      *)

LEMMA SoloStage ==
    ASSUME NEW ch, NEW p \in Callers, Home(p) = ch, Solo(ch)
    PROVE  /\ Stage(ch) =
                 IF pc[p] \in {"mark", "poll"}
                 THEN IF Even(ch) THEN "served" ELSE "asked"
                 ELSE IF busy[ch] /\ pc[p] \in {"idle", "check", "fault"} THEN "dead" ELSE "free"
           /\ Stage(ch)' =
                 IF pc'[p] \in {"mark", "poll"}
                 THEN IF Even(ch)' THEN "served" ELSE "asked"
                 ELSE IF busy'[ch] /\ pc'[p] \in {"idle", "check", "fault"} THEN "dead" ELSE "free"
<1>1. \A where : In(ch, where) <=> pc[p] \in where
  BY SoloOne DEF In
<1>2. \A where : In(ch, where)' <=> pc'[p] \in where
  BY SoloOne DEF In, Home
<1> QED
  BY <1>1, <1>2 DEF Stage

(* A channel whose callers, busy flag and counts stand still keeps its     *)
(* stage.                                                                  *)
LEMMA StageKept ==
    ASSUME NEW ch, \A q \in Callers : Home(q) = ch => pc'[q] = pc[q],
           busy'[ch] = busy[ch], Even(ch)' <=> Even(ch)
    PROVE  Stage(ch)' = Stage(ch)
<1>1. \A where : In(ch, where)' <=> In(ch, where)
  BY DEF In, Home
<1> QED
  BY <1>1 DEF Stage

(* A step that keeps every channel's stage but one, and moves that one as  *)
(* the exchange allows.                                                    *)
LEMMA StageMoves ==
    ASSUME NEW ch, \A c \in SoloChannels \ {ch} : Stage(c)' = Stage(c),
           ch \in SoloChannels =>
              \/ Stage(ch)' = Stage(ch)
              \/ Stage(ch) = "free" /\ Stage(ch)' = "asked"
              \/ Stage(ch) = "asked" /\ Stage(ch)' = "served"
              \/ Stage(ch) = "served" /\ Stage(ch)' = "free"
              \/ Stage(ch) \in {"asked", "served"} /\ Stage(ch)' = "dead"
    PROVE  [E!Next]_StageOf
<1> DEFINE new == Stage(ch)'
<1>1. StageOf' = [c \in SoloChannels |-> Stage(c)']
  BY DEF StageOf, SoloChannels
<1>2. CASE ch \notin SoloChannels \/ new = Stage(ch)
  <2>1. \A c \in SoloChannels : Stage(c)' = Stage(c)
    BY <1>2
  <2> QED
    BY <1>1, <2>1 DEF StageOf
<1>3. CASE ch \in SoloChannels /\ new # Stage(ch)
  <2>1. StageOf' = [StageOf EXCEPT ![ch] = new] /\ StageOf[ch] = Stage(ch)
    BY <1>1, <1>3 DEF StageOf
  <2>2. E!Ask(ch) \/ E!Serve(ch) \/ E!Take(ch) \/ E!Abandon(ch)
    BY <1>3, <2>1 DEF E!Ask, E!Serve, E!Take, E!Abandon, E!Move
  <2> QED
    BY <1>3, <2>2 DEF E!Next
<1> QED
  BY <1>2, <1>3

LEMMA CallerExchange ==
    ASSUME TypeOK, RingInv, RingInv', NEW p \in Callers,
           Dispatch(p) \/ DispatchFault(p) \/ CallerStep(p)
    PROVE  [E!Next]_StageOf
<1>0. PICK ch \in Channels : ch = Home(p)
  BY HomeRange
<1> USE <1>0 DEF TypeOK, SharedOK, CallersOK, HistoryOK, regs, firmware, history, Goto, Return
<1>1. \A c \in SoloChannels \ {ch} : Stage(c)' = Stage(c)
  <2> SUFFICES ASSUME NEW c \in SoloChannels \ {ch} PROVE Stage(c)' = Stage(c)
    OBVIOUS
  <2>1. \A q \in Callers : Home(q) = c => pc'[q] = pc[q]
    BY DEF Dispatch, DispatchFault, Begin, CallerStep, RefuseBusy, Check, WriteRegs,
       Ring, Mark, Accept, Unmark, CopyResponse, PollTimeout
  <2>2. busy'[c] = busy[c]
    BY DEF Dispatch, DispatchFault, Begin, CallerStep, RefuseBusy, Check, WriteRegs,
       Ring, Mark, Accept, Unmark, CopyResponse, PollTimeout, SoloChannels
  <2>3. served'[c] = served[c] /\ rung'[c] = rung[c]
    BY DEF Dispatch, DispatchFault, Begin, CallerStep, RefuseBusy, Check, WriteRegs,
       Ring, Mark, Accept, Unmark, CopyResponse, PollTimeout, SoloChannels
  <2> QED
    BY <2>1, <2>2, <2>3, StageKept DEF Even
<1>2. ASSUME ch \in SoloChannels
      PROVE  \/ Stage(ch)' = Stage(ch)
             \/ Stage(ch) = "free" /\ Stage(ch)' = "asked"
             \/ Stage(ch) = "asked" /\ Stage(ch)' = "served"
             \/ Stage(ch) = "served" /\ Stage(ch)' = "free"
             \/ Stage(ch) \in {"asked", "served"} /\ Stage(ch)' = "dead"
  <2>0. Solo(ch) /\ CallerInv(p) /\ CallerInv(p)' /\ ChannelInv(ch)
    BY <1>2 DEF SoloChannels, RingInv, Solo, Home
  <2> USE <2>0, SoloStage DEF CallerInv, ChannelInv, Even
  <2>1. CASE Dispatch(p) \/ DispatchFault(p) \/ RefuseBusy(p) \/ Check(p) \/ WriteRegs(p)
    BY <2>1 DEF Dispatch, DispatchFault, Begin, RefuseBusy, Check, WriteRegs
  <2>2. CASE Ring(p)
    BY <2>2 DEF Ring
  <2>3. CASE Mark(p)
    BY <2>3 DEF Mark
  <2>4. CASE Accept(p)
    BY <2>4 DEF Accept
  <2>5. CASE Unmark(p)
    BY <2>5 DEF Unmark
  <2>6. CASE CopyResponse(p)
    BY <2>6 DEF CopyResponse
  <2>7. CASE PollTimeout(p)
    BY <2>7 DEF PollTimeout
  <2> QED
    BY <2>1, <2>2, <2>3, <2>4, <2>5, <2>6, <2>7 DEF CallerStep
<1> QED
  BY <1>1, <1>2, StageMoves

LEMMA FirmwareExchange ==
    ASSUME TypeOK, RingInv, FirmwareStep
    PROVE  [E!Next]_StageOf
<1>0. PICK ch \in Channels : ch = at
  BY DEF TypeOK, FirmwareOK
<1> USE <1>0 DEF TypeOK, SharedOK, HistoryOK, regs, callers, history
<1>1. \A c \in SoloChannels \ {ch} : Stage(c)' = Stage(c)
  <2> SUFFICES ASSUME NEW c \in SoloChannels \ {ch} PROVE Stage(c)' = Stage(c)
    OBVIOUS
  <2>1. pc' = pc /\ busy'[c] = busy[c] /\ served'[c] = served[c] /\ rung'[c] = rung[c]
    BY DEF FirmwareStep, Fiq, Scan, ReadDoorbell, ReadRegs, Fetch, Answer,
       FirmwareFault, ClearValid, WriteSize, RingBack, SoloChannels
  <2> QED
    BY <2>1, StageKept DEF Even
<1>2. CASE ~ClearValid
  <2>1. pc' = pc /\ busy' = busy /\ served' = served /\ rung' = rung
    BY <1>2 DEF FirmwareStep, Fiq, Scan, ReadDoorbell, ReadRegs, Fetch, Answer,
       FirmwareFault, WriteSize, RingBack
  <2>2. Stage(ch)' = Stage(ch)
    BY <2>1, StageKept DEF Even
  <2> QED
    BY <1>1, <2>2, StageMoves
<1>3. CASE ClearValid
  <2>1. pc' = pc /\ busy' = busy
    BY <1>3 DEF ClearValid
  <2>2. ASSUME NEW p \in Callers, Home(p) = ch, ch \in SoloChannels
        PROVE  \/ Stage(ch)' = Stage(ch)
               \/ Stage(ch) = "asked" /\ Stage(ch)' = "served"
    <3>1. Solo(ch) /\ rung[ch] = served[ch] + 1
      BY <1>3, <2>2 DEF ClearValid, RingInv, ChannelInv, SoloChannels
    <3>2. ~Even(ch) /\ Even(ch)'
      BY <1>3, <3>1 DEF ClearValid, Even
    <3> QED
      BY <2>1, <2>2, <3>1, <3>2, SoloStage
  <2>3. ASSUME \A p \in Callers : Home(p) # ch PROVE Stage(ch)' = Stage(ch)
    BY <2>3 DEF Stage, In, Home
  <2> QED
    BY <1>1, <2>2, <2>3, StageMoves
<1> QED
  BY <1>2, <1>3

(* For any number of channels and callers, what is done on the channels    *)
(* with one caller is an exchange: the safety half of ExchangeSpec.        *)
THEOREM SoloChannelsExchange == Spec => E!Init /\ [][E!Next]_StageOf
<1>1. Init => E!Init
  BY DEF Init, E!Init, StageOf, Stage, In, SoloChannels
<1>2. TypeOK /\ RingInv /\ RingInv' /\ [Next]_vars => [E!Next]_StageOf
  <2> SUFFICES ASSUME TypeOK, RingInv, RingInv', [Next]_vars PROVE [E!Next]_StageOf
    OBVIOUS
  <2>1. CASE UNCHANGED vars
    <3>1. pc' = pc /\ busy' = busy /\ served' = served /\ rung' = rung
      BY <2>1 DEF vars, callers, history
    <3>2. \A c \in SoloChannels : Stage(c)' = Stage(c)
      BY <3>1, StageKept DEF Even
    <3> QED
      BY <3>2 DEF StageOf
  <2> QED
    BY <2>1, CallerExchange, FirmwareExchange DEF Next
<1> QED
  BY <1>1, <1>2, TypeCorrect, RingInvHolds, PTL DEF Spec

-------------------------------------------------------------------------------
(* What the memory holds, on every channel.                                *)
MessageFor(ch, c) ==
    \/ \E d \in Calls : c <= d /\ shm[ch] = <<"req", ch, d>>
    \/ Spilled(ch, shm[ch])

(* A call is counted once, and is not rung before its caller rings.        *)
CallMem(p) ==
    pc[p] # "idle" =>
        /\ call[p] \in 1..calls[Home(p)]
        /\ ptr[p] = Home(p)
        /\ pc[p] \notin {"check", "regs", "fault"} => addr[Home(p)] = Home(p)
        /\ \A q \in Callers \ {p} :
              Home(q) = Home(p) /\ pc[q] # "idle" => call[q] # call[p]
        /\ asked[Home(p)] = call[p] => pc[p] \notin {"check", "regs", "ring", "fault"}

ChannelMem(ch) ==
    /\ asked[ch] <= calls[ch]
    /\ asked[ch] # 0 =>
          /\ addr[ch] = ch
          /\ \E p \in Callers : Home(p) = ch
    /\ db[ch] = "req" => asked[ch] # 0
    /\ (fw \in {"regs", "fetch"} /\ at = ch) => asked[ch] # 0
    /\ (fw = "fetch" /\ at = ch) => msgaddr = ch

(* On a channel with one caller only a call after a timeout can overwrite  *)
(* the request that rang.                                                  *)
SoloMem(p) ==
    /\ pc[p] \notin {"idle", "fault"} =>
          \A d \in Calls : shm[Home(p)] = <<"req", Home(p), d>> => d = call[p]
    /\ pc[p] \in {"mark", "poll"} => asked[Home(p)] = call[p]
    /\ (pc[p] \in {"idle", "check", "fault"} /\ ~Even(Home(p))) =>
          asked[Home(p)] # 0 /\ result[Home(p)][asked[Home(p)]] = "ETIMEDOUT"

(* The calls whose request the memory of channel ch is still to hold: the  *)
(* one that rang last, and those in progress.                              *)
Current(ch, c) ==
    \/ asked[ch] = c
    \/ \E p \in Callers : Home(p) = ch /\ pc[p] \notin {"idle", "fault"} /\ call[p] = c

MemInv ==
    /\ \A ch \in Channels, c \in Calls : Current(ch, c) => MessageFor(ch, c)
    /\ \A ch \in Channels : ChannelMem(ch)
    /\ \A p \in Callers : CallMem(p)
    /\ \A p \in Callers : Solo(Home(p)) => SoloMem(p)

LEMMA MessageStays ==
    ASSUME TypeOK, (\E p \in Callers : DispatchFault(p) \/ CallerStep(p)) \/ FirmwareStep
    PROVE  \A ch \in Channels, c \in Calls : MessageFor(ch, c) => MessageFor(ch, c)'
<1> SUFFICES ASSUME NEW ch \in Channels, NEW c \in Calls, MessageFor(ch, c)
             PROVE  MessageFor(ch, c)'
  OBVIOUS
<1> USE DEF TypeOK, regs, callers, firmware, history
<1>1. CASE \E p \in Callers : DispatchFault(p) \/ CallerStep(p)
  <2>1. shm' = shm /\ served' = served /\ fw' = fw /\ at' = at
    BY <1>1 DEF DispatchFault, CallerStep, RefuseBusy, Check, WriteRegs, Ring, Mark,
       Accept, Unmark, CopyResponse, PollTimeout
  <2> QED
    BY <2>1 DEF MessageFor, Spilled, Answered
<1>2. CASE Fiq \/ Scan \/ ReadDoorbell \/ ReadRegs \/ Fetch \/ FirmwareFault
  BY <1>2 DEF Fiq, Scan, ReadDoorbell, ReadRegs, Fetch, FirmwareFault, MessageFor,
     Spilled, Answered
<1>3. CASE Answer
  <2>1. CASE ch = ResponseArea(at)
    <3>1. ch \in Areas
      BY AreaRange DEF RequestArea
    <3>2. shm'[ch] = Response
      BY <1>3, <2>1, <3>1 DEF Answer, SharedOK
    <3>3. ch - 1 = at /\ ch - 1 \in Channels
      BY <2>1 DEF ResponseArea, FirmwareOK, Channels
    <3> QED
      BY <1>3, <3>2, <3>3 DEF Answer, MessageFor, Spilled, Answered
  <2>2. CASE ch # ResponseArea(at)
    BY <1>3, <2>2 DEF Answer, MessageFor, Spilled, Answered, SharedOK
  <2> QED
    BY <2>1, <2>2
<1>4. CASE ClearValid
  <2>1. at \in Channels /\ served'[at] > 0 /\ \A d \in Channels \ {at} : served'[d] = served[d]
    BY <1>4 DEF ClearValid, FirmwareOK, HistoryOK
  <2> QED
    BY <1>4, <2>1 DEF ClearValid, MessageFor, Spilled, Answered
<1>5. CASE WriteSize \/ RingBack
  BY <1>5 DEF WriteSize, RingBack, MessageFor, Spilled, Answered
<1> QED
  BY <1>1, <1>2, <1>3, <1>4, <1>5 DEF FirmwareStep

LEMMA MessageDispatched ==
    ASSUME TypeOK, NEW p \in Callers, Dispatch(p)
    PROVE  \A ch \in Channels, c \in Calls :
              (IF ch = Home(p) THEN c <= calls[ch] + 1 ELSE MessageFor(ch, c))
                  => MessageFor(ch, c)'
<1>1. calls[Home(p)] + 1 \in Calls
  BY BeginTypeOK DEF Dispatch, PCs
<1>2. /\ shm' = [shm EXCEPT ![Home(p)] = <<"req", Home(p), calls[Home(p)] + 1>>]
      /\ Home(p) \in Areas
  BY HomeRange, AreaRange DEF Dispatch, RequestArea
<1> QED
  BY <1>1, <1>2 DEF Dispatch, MessageFor, Spilled, Answered, TypeOK, SharedOK, history,
     firmware

(* How a call begins, whether its copy faults or not.                      *)
LEMMA Begun ==
    ASSUME TypeOK, NEW p \in Callers, Dispatch(p) \/ DispatchFault(p)
    PROVE  /\ calls[Home(p)] + 1 \in Calls
           /\ calls \in [Channels -> Nat]
           /\ calls' = [calls EXCEPT ![Home(p)] = calls[Home(p)] + 1]
           /\ pc[p] = "idle" /\ pc'[p] \in {"check", "fault"}
           /\ ptr'[p] = Home(p) /\ call'[p] = calls[Home(p)] + 1
           /\ \A q \in Callers \ {p} :
                 call'[q] = call[q] /\ ptr'[q] = ptr[q] /\ pc'[q] = pc[q]
           /\ asked' = asked /\ addr' = addr /\ db' = db
           /\ fw' = fw /\ at' = at /\ msgaddr' = msgaddr
<1>1. Begin(p, "check") \/ Begin(p, "fault")
  BY DEF Dispatch, DispatchFault
<1>2. calls[Home(p)] + 1 \in Calls
  BY <1>1, BeginTypeOK DEF PCs
<1>3. calls \in [Channels -> Nat]
  BY DoorbellAssumption DEF TypeOK, CallersOK
<1> QED
  BY <1>1, <1>2, <1>3 DEF Begin, Goto, RequestArea, TypeOK, CallersOK, Dispatch,
     DispatchFault, regs, firmware, history

(* What its beginning keeps.                                               *)
LEMMA BeginMem ==
    ASSUME TypeOK, MemInv, NEW p \in Callers, Dispatch(p) \/ DispatchFault(p)
    PROVE  /\ \A ch \in Channels : ChannelMem(ch)'
           /\ \A q \in Callers : CallMem(q)'
<1> DEFINE n == calls[Home(p)]
<1>1. /\ n \in Nat /\ n + 1 \in Calls
      /\ calls'[Home(p)] = n + 1
      /\ \A ch \in Channels : calls[ch] \in Nat /\ calls'[ch] \in Nat /\ calls[ch] <= calls'[ch]
  BY Begun, HomeRange
<1>2. \A ch \in Channels : asked[ch] \in Nat /\ asked[ch] <= calls[ch]
  BY DEF MemInv, ChannelMem, TypeOK, HistoryOK, Calls
<1>3. ASSUME NEW ch \in Channels PROVE ChannelMem(ch)'
  <2>1. asked[ch] <= calls'[ch]
    BY <1>1, <1>2
  <2> QED
    BY <1>3, <2>1, Begun DEF MemInv, ChannelMem, Home
<1>4. ASSUME NEW q \in Callers PROVE CallMem(q)'
  <2>1. Home(q)' = Home(q) /\ Home(p)' = Home(p) /\ Home(q) \in Channels /\ Home(p) \in Channels
    BY HomeRange DEF Home
  <2>2. \A d \in Callers :
           pc[d] # "idle" => call[d] \in Nat /\ 1 <= call[d] /\ call[d] <= calls[Home(d)]
    BY DEF MemInv, CallMem
  <2>3. CASE q = p
    <3>1. \A d \in Callers \ {p} : Home(d) = Home(p) /\ pc[d] # "idle" => call[d] # n + 1
      BY <1>1, <2>2
    <3>2. asked[Home(p)] # n + 1
      BY <1>1, <1>2, <2>1
    <3>3. n + 1 \in 1..calls'[Home(p)]
      BY <1>1
    <3> QED
      BY <2>1, <2>3, <3>1, <3>2, <3>3, Begun DEF CallMem, Home
  <2>4. CASE q # p
    <3>1. pc[q] # "idle" => call[q] \in 1..calls'[Home(q)]
      BY <1>1, <2>1, <2>2
    <3>2. pc[q] # "idle" /\ Home(q) = Home(p) => call[q] # n + 1
      BY <1>1, <2>2
    <3> QED
      BY <2>1, <2>4, <3>1, <3>2, Begun DEF MemInv, CallMem, Home
  <2> QED
    BY <2>3, <2>4
<1> QED
  BY <1>3, <1>4

LEMMA DispatchMem ==
    ASSUME TypeOK, MemInv, NEW p \in Callers, Dispatch(p)
    PROVE  MemInv'
<1>1. calls[Home(p)] + 1 \in Calls /\ \A ch \in Channels : calls[ch] \in Nat
  BY Begun
<1> USE HomeRange DEF TypeOK, SharedOK, CallersOK, HistoryOK, regs, firmware, history, Goto,
        Dispatch, Begin
<1>2. /\ shm' = [shm EXCEPT ![Home(p)] = <<"req", Home(p), calls[Home(p)] + 1>>]
      /\ Home(p) \in Areas
      /\ call'[p] = calls[Home(p)] + 1 /\ pc'[p] = "check"
      /\ \A q \in Callers \ {p} : call'[q] = call[q] /\ pc'[q] = pc[q]
  BY AreaRange DEF RequestArea
<1>3. ASSUME NEW q \in Callers, Solo(Home(q)) PROVE SoloMem(q)'
  <2>1. CASE q = p
    BY <1>1, <1>2, <1>3, <2>1 DEF MemInv, SoloMem, Even, Home
  <2>2. CASE q # p
    <3>1. Home(q) # Home(p)
      BY <1>3, <2>2, SoloOne
    <3> QED
      BY <1>1, <1>2, <1>3, <2>2, <3>1, AreaRange DEF MemInv, SoloMem, Even, Home,
         RequestArea
  <2> QED
    BY <2>1, <2>2
<1>4. ASSUME NEW ch \in Channels, NEW c \in Calls, Current(ch, c)'
      PROVE  MessageFor(ch, c)'
  <2>1. Current(ch, c) \/ (ch = Home(p) /\ c = calls[ch] + 1)
    BY <1>2, <1>4 DEF Current, Home
  <2>2. Current(ch, c) => c <= calls[ch]
    BY <1>1 DEF Current, MemInv, ChannelMem, CallMem, Calls
  <2>3. CASE ch = Home(p)
    <3>1. c <= calls[ch] + 1
      BY <1>1, <2>1, <2>2 DEF Calls
    <3> QED
      BY <2>3, <3>1, MessageDispatched
  <2>4. CASE ch # Home(p)
    BY <2>1, <2>4, MessageDispatched DEF MemInv
  <2> QED
    BY <2>3, <2>4
<1> QED
  BY <1>3, <1>4, BeginMem DEF MemInv

LEMMA DispatchFaultMem ==
    ASSUME TypeOK, MemInv, NEW p \in Callers, DispatchFault(p)
    PROVE  MemInv'
<1> USE HomeRange DEF TypeOK, SharedOK, CallersOK, HistoryOK, regs, firmware, history, Goto,
        DispatchFault, Begin
<1>1. /\ shm' = shm /\ asked' = asked /\ rung' = rung /\ served' = served /\ result' = result
      /\ pc[p] = "idle" /\ pc'[p] = "fault"
      /\ \A q \in Callers \ {p} : call'[q] = call[q] /\ pc'[q] = pc[q]
  OBVIOUS
<1>2. ASSUME NEW q \in Callers, Solo(Home(q)) PROVE SoloMem(q)'
  BY <1>1, <1>2 DEF MemInv, SoloMem, Even, Home
<1>3. ASSUME NEW ch \in Channels, NEW c \in Calls, Current(ch, c)'
      PROVE  MessageFor(ch, c)'
  <2>1. Current(ch, c)
    BY <1>1, <1>3 DEF Current, Home
  <2> QED
    BY <2>1, MessageStays DEF MemInv
<1> QED
  BY <1>2, <1>3, BeginMem DEF MemInv

LEMMA CallerMem ==
    ASSUME TypeOK, RingInv, MemInv, NEW p \in Callers, CallerStep(p)
    PROVE  MemInv'
<1> USE HomeRange DEF TypeOK, SharedOK, CallersOK, HistoryOK, regs, firmware, history, Goto, Return
<1>0. /\ shm' = shm /\ served' = served /\ calls' = calls
      /\ fw' = fw /\ at' = at /\ msgaddr' = msgaddr
      /\ \A q \in Callers \ {p} : pc'[q] = pc[q] /\ call'[q] = call[q] /\ ptr'[q] = ptr[q]
      /\ \A q \in Callers : pc'[q] # "idle" => pc[q] # "idle" /\ call'[q] = call[q]
      /\ \A q \in Callers : pc'[q] = "fault" <=> pc[q] = "fault"
      /\ pc[p] \notin {"idle", "fault"}
  BY DEF CallerStep, RefuseBusy, Check, WriteRegs, Ring, Mark, Accept, Unmark,
     CopyResponse, PollTimeout
<1>1. ASSUME NEW ch \in Channels, NEW c \in Calls, Current(ch, c)'
      PROVE  MessageFor(ch, c)'
  <2>1. Current(ch, c)
    <3>1. CASE Ring(p)
      BY <1>0, <1>1, <3>1 DEF Ring, Current, Home
    <3>2. CASE ~Ring(p)
      <4>1. asked' = asked
        BY <3>2 DEF CallerStep, RefuseBusy, Check, WriteRegs, Mark, Accept, Unmark,
           CopyResponse, PollTimeout
      <4> QED
        BY <1>0, <1>1, <4>1 DEF Current, Home
    <3> QED
      BY <3>1, <3>2
  <2> QED
    BY <2>1, MessageStays DEF MemInv
<1>2. ASSUME NEW ch \in Channels PROVE ChannelMem(ch)'
  <2>1. CASE Ring(p)
    <3>1. CASE ch = Home(p)
      <4>1. call[p] \in 1..calls[ch] /\ addr[ch] = ch
        BY <2>1, <3>1 DEF Ring, MemInv, CallMem
      <4>2. asked'[ch] = call[p] /\ addr' = addr
        BY <2>1, <3>1 DEF Ring
      <4>3. calls'[ch] = calls[ch] /\ call[p] # 0
        BY <1>0, <4>1
      <4> QED
        BY <1>0, <3>1, <4>1, <4>2, <4>3 DEF MemInv, ChannelMem, Home
    <3>2. CASE ch # Home(p)
      <4>1. asked'[ch] = asked[ch] /\ addr' = addr /\ db'[ch] = db[ch]
        BY <1>2, <2>1, <3>2 DEF Ring
      <4> QED
        BY <1>0, <1>2, <4>1 DEF MemInv, ChannelMem, Home
    <3> QED
      BY <3>1, <3>2
  <2>2. CASE WriteRegs(p)
    BY <1>0, <1>2, <2>2 DEF WriteRegs, MemInv, ChannelMem, CallMem, Home, Calls
  <2>3. CASE ~Ring(p) /\ ~WriteRegs(p)
    <3>1. asked' = asked /\ addr' = addr /\ db' = db
      BY <2>3 DEF CallerStep, RefuseBusy, Check, Mark, Accept, Unmark, CopyResponse,
         PollTimeout
    <3> QED
      BY <1>0, <1>2, <3>1 DEF MemInv, ChannelMem, Home
  <2> QED
    BY <2>1, <2>2, <2>3
<1>3. ASSUME NEW q \in Callers PROVE CallMem(q)'
  <2>1. CASE q = p
    BY <1>0, <2>1 DEF CallerStep, RefuseBusy, Check, WriteRegs, Ring, Mark, Accept,
       Unmark, CopyResponse, PollTimeout, MemInv, ChannelMem, CallMem, Home
  <2>2. CASE q # p
    BY <1>0, <2>2 DEF CallerStep, RefuseBusy, Check, WriteRegs, Ring, Mark, Accept,
       Unmark, CopyResponse, PollTimeout, MemInv, ChannelMem, CallMem, Home
  <2> QED
    BY <2>1, <2>2
<1>4. ASSUME NEW q \in Callers, Solo(Home(q)) PROVE SoloMem(q)'
  <2>1. CASE q = p
    <3> USE <1>0, <1>4, <2>1 DEF MemInv, SoloMem, Even, Home
    <3>1. CASE RefuseBusy(p) \/ CopyResponse(p)
      <4>1. pc[p] = "check" => asked[Home(p)] # call[p]
        BY DEF CallMem
      <4>2. pc[p] = "copy" => Even(Home(p))
        BY DEF RingInv, CallerInv
      <4>3. ~Even(Home(p)) =>
               /\ asked[Home(p)] \in Calls \ {call[p]}
               /\ result[Home(p)][asked[Home(p)]] = "ETIMEDOUT"
        BY <3>1, <4>1, <4>2 DEF RefuseBusy, CopyResponse
      <4>4. asked' = asked /\ rung' = rung /\ pc'[p] = "idle"
        BY <3>1 DEF RefuseBusy, CopyResponse
      <4>5. ~Even(Home(p)) => result'[Home(p)][asked[Home(p)]] = "ETIMEDOUT"
        BY <3>1, <4>3 DEF RefuseBusy, CopyResponse
      <4> QED
        BY <4>3, <4>4, <4>5 DEF Calls
    <3>2. CASE PollTimeout(p)
      <4>1. asked[Home(p)] = call[p] /\ call[p] \in Calls
        BY <3>2 DEF PollTimeout, CallMem
      <4>2. asked' = asked /\ pc'[p] = "idle" /\ call[p] # 0
        BY <3>2, <4>1 DEF PollTimeout, Calls
      <4>3. result'[Home(p)][call[p]] = "ETIMEDOUT"
        BY <3>2, <4>1 DEF PollTimeout
      <4> QED
        BY <4>1, <4>2, <4>3
    <3>3. CASE Check(p) \/ WriteRegs(p) \/ Mark(p) \/ Accept(p) \/ Unmark(p)
      BY <3>3 DEF Check, WriteRegs, Mark, Accept, Unmark
    <3>4. CASE Ring(p)
      BY <3>4 DEF Ring
    <3> QED
      BY <3>1, <3>2, <3>3, <3>4 DEF CallerStep
  <2>2. CASE q # p
    <3>1. Home(q) # Home(p)
      BY <1>4, <2>2, SoloOne
    <3>2. asked'[Home(q)] = asked[Home(q)] /\ rung'[Home(q)] = rung[Home(q)]
      BY <3>1 DEF CallerStep, RefuseBusy, Check, WriteRegs, Ring, Mark, Accept, Unmark,
         CopyResponse, PollTimeout
    <3>3. result'[Home(q)] = result[Home(q)]
      BY <3>1 DEF CallerStep, RefuseBusy, Check, WriteRegs, Ring, Mark, Accept, Unmark,
         CopyResponse, PollTimeout
    <3> QED
      BY <1>0, <1>4, <2>2, <3>2, <3>3 DEF MemInv, SoloMem, Even, Home
  <2> QED
    BY <2>1, <2>2
<1> QED
  BY <1>1, <1>2, <1>3, <1>4 DEF MemInv

LEMMA FirmwareMem ==
    ASSUME TypeOK, RingInv, MemInv, FirmwareStep
    PROVE  MemInv'
<1> USE HomeRange DEF TypeOK, SharedOK, FirmwareOK, HistoryOK, regs, callers, history
<1>1. /\ pc' = pc /\ call' = call /\ ptr' = ptr /\ calls' = calls /\ result' = result
      /\ asked' = asked /\ addr' = addr /\ rung' = rung
  BY DEF FirmwareStep, Fiq, Scan, ReadDoorbell, ReadRegs, Fetch, Answer, FirmwareFault,
     ClearValid, WriteSize, RingBack
<1>2. ASSUME NEW ch \in Channels, NEW c \in Calls, Current(ch, c)'
      PROVE  MessageFor(ch, c)'
  <2>1. Current(ch, c)
    BY <1>1, <1>2 DEF Current, Home
  <2> QED
    BY <2>1, MessageStays DEF MemInv
<1>3. ASSUME NEW ch \in Channels PROVE ChannelMem(ch)'
  <2>1. db'[ch] = "req" => db[ch] = "req"
    BY DEF FirmwareStep, Fiq, Scan, ReadDoorbell, ReadRegs, Fetch, Answer,
       FirmwareFault, ClearValid, WriteSize, RingBack
  <2>2. (fw' \in {"regs", "fetch"} /\ at' = ch) =>
           db[ch] = "req" \/ (fw \in {"regs", "fetch"} /\ at = ch)
    BY DEF FirmwareStep, Fiq, Scan, ReadDoorbell, ReadRegs, Fetch, Answer,
       FirmwareFault, ClearValid, WriteSize, RingBack, NextChannel
  <2>3. (fw' = "fetch" /\ at' = ch) => fw = "regs" /\ at = ch /\ msgaddr' = addr[ch]
    BY DEF FirmwareStep, Fiq, Scan, ReadDoorbell, ReadRegs, Fetch, Answer,
       FirmwareFault, ClearValid, WriteSize, RingBack, NextChannel
  <2> QED
    BY <1>1, <1>3, <2>1, <2>2, <2>3 DEF MemInv, ChannelMem, Home
<1>4. ASSUME NEW q \in Callers PROVE CallMem(q)'
  BY <1>1, <1>4 DEF MemInv, CallMem, Home
<1>5. ASSUME NEW q \in Callers, Solo(Home(q)) PROVE SoloMem(q)'
  <2>1. \A d \in Calls : shm'[Home(q)] = <<"req", Home(q), d>>
                          => shm[Home(q)] = <<"req", Home(q), d>>
    <3>1. CASE Answer
      BY <3>1, AreaRange DEF Answer, Response, RequestArea
    <3>2. CASE ~Answer
      BY <3>2 DEF FirmwareStep, Fiq, Scan, ReadDoorbell, ReadRegs, Fetch, FirmwareFault,
         ClearValid, WriteSize, RingBack
    <3> QED
      BY <3>1, <3>2
  <2>2. Even(Home(q)) => Even(Home(q))'
    <3>1. CASE ClearValid
      <4>1. at = Home(q) => rung[at] = served[at] + 1
        BY <1>5, <3>1 DEF ClearValid, RingInv, ChannelInv, SoloChannels
      <4> QED
        BY <3>1, <4>1 DEF ClearValid, Even, Home
    <3>2. CASE ~ClearValid
      BY <1>1, <3>2 DEF FirmwareStep, Fiq, Scan, ReadDoorbell, ReadRegs, Fetch, Answer,
         FirmwareFault, WriteSize, RingBack, Even, Home
    <3> QED
      BY <3>1, <3>2
  <2> QED
    BY <1>1, <1>5, <2>1, <2>2 DEF MemInv, SoloMem, Even, Home
<1> QED
  BY <1>2, <1>3, <1>4, <1>5 DEF MemInv

LEMMA MemInvHolds == Spec => []MemInv
<1>1. Init => MemInv
  BY HomeRange DEF Init, MemInv, Current, ChannelMem, CallMem, SoloMem, Even, Calls
<1>2. TypeOK /\ RingInv /\ MemInv /\ [Next]_vars => MemInv'
  <2> SUFFICES ASSUME TypeOK, RingInv, MemInv, [Next]_vars PROVE MemInv'
    OBVIOUS
  <2>1. CASE UNCHANGED vars
    BY <2>1 DEF vars, regs, callers, firmware, history, MemInv, Current, MessageFor,
       Spilled, Answered, ChannelMem, CallMem, SoloMem, Even
  <2> QED
    BY <2>1, DispatchMem, DispatchFaultMem, CallerMem, FirmwareMem DEF Next
<1> QED
  BY <1>1, <1>2, TypeCorrect, RingInvHolds, PTL DEF Spec

-------------------------------------------------------------------------------
(* What the size register holds.                                           *)

(* A zero is the length of a response once a caller has prepared a request *)
(* on the channel.                                                         *)
SizeWritten(ch) ==
    /\ size[ch] = 0 =>
          \/ served[ch] > 0
          \/ asked[ch] = 0 /\ ~In(ch, {"ring", "mark", "poll", "accepted", "copy"})
    /\ (fw \in {"size", "ring"} /\ at = ch) => served[ch] > 0

(* On a channel with one caller it is the length of the caller's request,  *)
(* or that of a response written over it.                                  *)
SoloSize(p) ==
    /\ pc[p] \in {"ring", "mark", "poll", "accepted", "copy"} =>
          size[Home(p)] \in {call[p], 0}
    /\ pc[p] \in {"accepted", "copy"} => resplen[p] = call[p] \/ Foreign(Home(p), resplen[p])
    /\ db[Home(p)] = "req" => size[Home(p)] \in {asked[Home(p)], 0}

SizeInv ==
    /\ \A ch \in Channels : SizeWritten(ch)
    /\ \A p \in Callers : Solo(Home(p)) => SoloSize(p)

(* The registers and the length a caller was given, over the steps that    *)
(* leave them alone.                                                       *)
LEMMA SizeKept ==
    ASSUME SizeInv, size' = size, asked' = asked, db' = db, served' = served,
           fw' \in {"size", "ring"} => fw' = fw /\ at' = at,
           \A q \in Callers : pc'[q] \in {"ring", "mark", "poll", "accepted", "copy"} =>
               /\ pc[q] \in {"ring", "mark", "poll", "accepted", "copy"}
               /\ call'[q] = call[q]
               /\ pc'[q] \in {"accepted", "copy"} =>
                     pc[q] \in {"accepted", "copy"} /\ resplen'[q] = resplen[q]
    PROVE  SizeInv'
<1>1. ASSUME NEW ch \in Channels PROVE SizeWritten(ch)'
  BY <1>1 DEF SizeInv, SizeWritten, In, Home
<1>2. ASSUME NEW q \in Callers, Solo(Home(q)) PROVE SoloSize(q)'
  BY <1>2 DEF SizeInv, SoloSize, Foreign, Home
<1> QED
  BY <1>1, <1>2 DEF SizeInv, Home

LEMMA CallerSize ==
    ASSUME TypeOK, RingInv, MemInv, SizeInv, NEW p \in Callers,
           Dispatch(p) \/ DispatchFault(p) \/ CallerStep(p)
    PROVE  SizeInv'
<1> DEFINE Sized == {"ring", "mark", "poll", "accepted", "copy"}
<1>0. Home(p) \in Channels /\ call[p] \in Calls \cup {0} /\ (pc[p] # "idle" => call[p] \in Calls)
  BY HomeRange DEF MemInv, CallMem, TypeOK, CallersOK, Calls
<1>1. CASE Dispatch(p) \/ DispatchFault(p)
  <2>1. size' = size /\ served' = served
    BY <1>1 DEF Dispatch, DispatchFault, regs, history
  <2>2. \A q \in Callers \ {p} : resplen'[q] = resplen[q]
    BY <1>1 DEF Dispatch, DispatchFault, Begin
  <2> QED
    BY <1>1, <2>1, <2>2, Begun, SizeKept
<1> USE DEF TypeOK, SharedOK, CallersOK, HistoryOK, regs, firmware, history, Goto, Return
<1>2. CASE RefuseBusy(p) \/ Check(p) \/ Mark(p) \/ Unmark(p) \/ CopyResponse(p) \/ PollTimeout(p)
  <2>1. /\ size' = size /\ asked' = asked /\ db' = db /\ served' = served /\ fw' = fw /\ at' = at
        /\ \A q \in Callers \ {p} :
              pc'[q] = pc[q] /\ call'[q] = call[q] /\ resplen'[q] = resplen[q]
    BY <1>2 DEF RefuseBusy, Check, Mark, Unmark, CopyResponse, PollTimeout
  <2>2. pc'[p] \in Sized =>
           /\ pc[p] \in Sized /\ call'[p] = call[p]
           /\ pc'[p] \in {"accepted", "copy"} =>
                 pc[p] \in {"accepted", "copy"} /\ resplen'[p] = resplen[p]
    BY <1>2 DEF RefuseBusy, Check, Mark, Unmark, CopyResponse, PollTimeout
  <2> QED
    BY <2>1, <2>2, SizeKept
<1>3. CASE WriteRegs(p)
  <2>1. /\ size' = [size EXCEPT ![Home(p)] = call[p]]
        /\ asked' = asked /\ db' = db /\ served' = served /\ fw' = fw /\ at' = at
        /\ call' = call /\ resplen' = resplen /\ pc[p] = "regs" /\ pc'[p] = "ring"
        /\ \A q \in Callers \ {p} : pc'[q] = pc[q]
    BY <1>3 DEF WriteRegs
  <2>2. call[p] \in Calls /\ call[p] # 0
    BY <1>0, <2>1 DEF Calls
  <2>3. ASSUME NEW ch \in Channels PROVE SizeWritten(ch)'
    <3>1. CASE ch = Home(p)
      BY <2>1, <2>2, <3>1 DEF SizeInv, SizeWritten, In
    <3>2. CASE ch # Home(p)
      BY <2>1, <2>3, <3>2 DEF SizeInv, SizeWritten, In, Home
    <3> QED
      BY <3>1, <3>2
  <2>4. ASSUME NEW q \in Callers, Solo(Home(q)) PROVE SoloSize(q)'
    <3>1. CASE q = p
      <4>1. db[Home(p)] # "req"
        BY <1>0, <2>1, <2>4, <3>1 DEF RingInv, CallerInv, ChannelInv, SoloChannels, Even
      <4> QED
        BY <1>0, <2>1, <3>1, <4>1 DEF SoloSize, Home
    <3>2. CASE q # p
      <4>1. Home(q) # Home(p)
        BY <2>4, <3>2, SoloOne
      <4> QED
        BY <2>1, <2>4, <3>2, <4>1 DEF SizeInv, SoloSize, Foreign, Home
    <3> QED
      BY <3>1, <3>2
  <2> QED
    BY <2>3, <2>4 DEF SizeInv, Home
<1>4. CASE Ring(p)
  <2>1. /\ size' = size /\ served' = served /\ fw' = fw /\ at' = at
        /\ call' = call /\ resplen' = resplen /\ pc[p] = "ring" /\ pc'[p] = "mark"
        /\ asked'[Home(p)] = call[p] /\ db'[Home(p)] = "req"
        /\ \A ch \in Channels \ {Home(p)} : asked'[ch] = asked[ch] /\ db'[ch] = db[ch]
        /\ \A q \in Callers \ {p} : pc'[q] = pc[q]
    BY <1>0, <1>4 DEF Ring
  <2>2. ASSUME NEW ch \in Channels PROVE SizeWritten(ch)'
    <3>1. CASE ch = Home(p)
      BY <1>0, <2>1, <3>1 DEF SizeInv, SizeWritten, In, Home
    <3>2. CASE ch # Home(p)
      BY <2>1, <2>2, <3>2 DEF SizeInv, SizeWritten, In, Home
    <3> QED
      BY <3>1, <3>2
  <2>3. ASSUME NEW q \in Callers, Solo(Home(q)) PROVE SoloSize(q)'
    <3>1. CASE q = p
      BY <2>1, <2>3, <3>1 DEF SizeInv, SoloSize, Foreign, Home
    <3>2. CASE q # p
      <4>1. Home(q) # Home(p) /\ Home(q) \in Channels
        BY <2>3, <3>2, SoloOne, HomeRange
      <4> QED
        BY <2>1, <2>3, <3>2, <4>1 DEF SizeInv, SoloSize, Foreign, Home
    <3> QED
      BY <3>1, <3>2
  <2> QED
    BY <2>2, <2>3 DEF SizeInv, Home
<1>5. CASE Accept(p)
  <2>1. /\ size' = size /\ asked' = asked /\ db' = db /\ served' = served /\ fw' = fw /\ at' = at
        /\ call' = call /\ pc[p] = "poll" /\ pc'[p] = "accepted"
        /\ resplen'[p] = size[Home(p)]
        /\ \A q \in Callers \ {p} : pc'[q] = pc[q] /\ resplen'[q] = resplen[q]
    BY <1>5 DEF Accept
  <2>2. ASSUME NEW ch \in Channels PROVE SizeWritten(ch)'
    BY <2>1, <2>2 DEF SizeInv, SizeWritten, In, Home
  <2>3. ASSUME NEW q \in Callers, Solo(Home(q)) PROVE SoloSize(q)'
    <3>1. CASE q = p
      <4>1. size[Home(p)] = call[p] \/ Foreign(Home(p), size[Home(p)])
        BY <1>0, <2>1, <2>3, <3>1 DEF SizeInv, SoloSize, SizeWritten, In, Foreign
      <4> QED
        BY <2>1, <2>3, <3>1, <4>1 DEF SizeInv, SoloSize, Foreign, Home
    <3>2. CASE q # p
      BY <2>1, <2>3, <3>2 DEF SizeInv, SoloSize, Foreign, Home
    <3> QED
      BY <3>1, <3>2
  <2> QED
    BY <2>2, <2>3 DEF SizeInv, Home
<1> QED
  BY <1>1, <1>2, <1>3, <1>4, <1>5 DEF CallerStep

LEMMA FirmwareSize ==
    ASSUME TypeOK, SizeInv, FirmwareStep
    PROVE  SizeInv'
<1> USE HomeRange DEF TypeOK, SharedOK, FirmwareOK, HistoryOK, regs, callers, history
<1>1. CASE ~(ClearValid \/ WriteSize \/ RingBack)
  <2>1. /\ size' = size /\ asked' = asked /\ db' = db /\ served' = served
        /\ pc' = pc /\ call' = call /\ resplen' = resplen
        /\ fw' \notin {"size", "ring"}
    BY <1>1 DEF FirmwareStep, Fiq, Scan, ReadDoorbell, ReadRegs, Fetch, Answer,
       FirmwareFault, NextChannel
  <2> QED
    BY <2>1, SizeKept
<1>2. CASE ClearValid
  <2>1. /\ size' = size /\ asked' = asked /\ pc' = pc /\ call' = call /\ resplen' = resplen
        /\ fw' = "size" /\ at' = at /\ at \in Channels /\ served'[at] > 0
        /\ \A ch \in Channels :
              /\ served[ch] > 0 => served'[ch] > 0
              /\ db'[ch] = "req" => db[ch] = "req"
    BY <1>2 DEF ClearValid
  <2>2. ASSUME NEW ch \in Channels PROVE SizeWritten(ch)'
    BY <2>1, <2>2 DEF SizeInv, SizeWritten, In, Home
  <2>3. ASSUME NEW q \in Callers, Solo(Home(q)) PROVE SoloSize(q)'
    BY <2>1, <2>3 DEF SizeInv, SoloSize, Foreign, Home
  <2> QED
    BY <2>2, <2>3 DEF SizeInv, Home
<1>3. CASE WriteSize \/ RingBack
  <2>1. /\ asked' = asked /\ pc' = pc /\ call' = call /\ resplen' = resplen /\ served' = served
        /\ fw \in {"size", "ring"} /\ at \in Channels
        /\ fw' \in {"size", "ring"} => at' = at
        /\ \A ch \in Channels :
              /\ ch # at => size'[ch] = size[ch]
              /\ size'[ch] \in {size[ch], 0}
              /\ db'[ch] = "req" => db[ch] = "req"
    BY <1>3 DEF WriteSize, RingBack, NextChannel
  <2>2. served[at] > 0
    BY <2>1 DEF SizeInv, SizeWritten
  <2>3. ASSUME NEW ch \in Channels PROVE SizeWritten(ch)'
    <3>1. CASE ch = at
      BY <2>1, <2>2, <3>1 DEF SizeWritten
    <3>2. CASE ch # at
      BY <2>1, <2>3, <3>2 DEF SizeInv, SizeWritten, In, Home
    <3> QED
      BY <3>1, <3>2
  <2>4. ASSUME NEW q \in Callers, Solo(Home(q)) PROVE SoloSize(q)'
    <3>1. Home(q) \in Channels /\ SoloSize(q)
      BY <2>4 DEF SizeInv
    <3>2. size'[Home(q)] \in {size[Home(q)], 0} /\ (db'[Home(q)] = "req" => db[Home(q)] = "req")
      BY <2>1, <3>1
    <3> QED
      BY <2>1, <3>1, <3>2 DEF SoloSize, Foreign, Home
  <2> QED
    BY <2>3, <2>4 DEF SizeInv, Home
<1> QED
  BY <1>1, <1>2, <1>3

LEMMA SizeInvHolds == Spec => []SizeInv
<1>1. Init => SizeInv
  BY HomeRange DEF Init, SizeInv, SizeWritten, SoloSize, In
<1>2. TypeOK /\ RingInv /\ MemInv /\ SizeInv /\ [Next]_vars => SizeInv'
  <2> SUFFICES ASSUME TypeOK, RingInv, MemInv, SizeInv, [Next]_vars PROVE SizeInv'
    OBVIOUS
  <2>1. CASE UNCHANGED vars
    BY <2>1, SizeKept DEF vars, regs, callers, firmware, history
  <2> QED
    BY <2>1, CallerSize, FirmwareSize DEF Next
<1> QED
  BY <1>1, <1>2, TypeCorrect, RingInvHolds, MemInvHolds, PTL DEF Spec

(* For any number of channels and callers: what the firmware fetches is    *)
(* the request that rang, a later one of a shared channel or after a       *)
(* timeout, or the preceding channel's response; the length it reads is    *)
(* that request's, another's of a shared channel, or that of a response    *)
(* the firmware gave before on the channel.  Nothing else is possible.     *)
THEOREM FetchIsExplained == Spec => FetchExplained
<1> DEFINE Explained ==
             \/ msg' = <<"req", at, asked[at]>>
             \/ Later(at, msg')
             \/ Spilled(at, msg')
           LengthExplained == msgsz' = asked[at] \/ Foreign(at, msgsz')
           Fetched ==
             /\ fw = "fetch" /\ fw' = "answer" =>
                    \/ msg' = <<"req", at, asked[at]>>
                    \/ Later(at, msg')
                    \/ Spilled(at, msg')
             /\ fw = "regs" /\ fw' = "fetch" =>
                    msgsz' = asked[at] \/ Foreign(at, msgsz')
<1>1. ASSUME TypeOK, RingInv, MemInv, [Next]_vars, fw = "fetch", fw' = "answer"
      PROVE  Explained
  <2>1. Fetch
    <3>1. \A p \in Callers : ~(Dispatch(p) \/ DispatchFault(p) \/ CallerStep(p))
      BY <1>1 DEF Dispatch, DispatchFault, CallerStep, RefuseBusy, Check, WriteRegs,
         Ring, Mark, Accept, Unmark, CopyResponse, PollTimeout, firmware
    <3>2. ~UNCHANGED vars
      BY <1>1 DEF vars, firmware
    <3>3. ~(\/ Fiq \/ Scan \/ ReadDoorbell \/ ReadRegs \/ Answer \/ FirmwareFault \/ ClearValid
            \/ WriteSize \/ RingBack)
      BY <1>1 DEF Fiq, Scan, ReadDoorbell, ReadRegs, Answer, FirmwareFault, ClearValid,
         WriteSize, RingBack
    <3> QED
      BY <1>1, <3>1, <3>2, <3>3 DEF Next, FirmwareStep
  <2>2. /\ at \in Channels /\ asked[at] \in Calls
        /\ msg' = shm[at] /\ MessageFor(at, asked[at])
    <3>1. at \in Channels /\ asked[at] \in Calls
      BY <1>1, <2>1 DEF Fetch, TypeOK, FirmwareOK, HistoryOK, MemInv, ChannelMem
    <3>2. msgaddr = at /\ MessageFor(at, asked[at])
      BY <1>1, <2>1, <3>1 DEF Fetch, MemInv, ChannelMem, Current, Calls
    <3> QED
      BY <2>1, <3>1, <3>2 DEF Fetch
  <2>3. CASE Spilled(at, shm[at])
    BY <2>2, <2>3
  <2>4. CASE \E d \in Calls : asked[at] <= d /\ shm[at] = <<"req", at, d>>
    <3>1. PICK d \in Calls : asked[at] <= d /\ shm[at] = <<"req", at, d>>
      BY <2>4
    <3>2. CASE d = asked[at]
      BY <2>2, <3>1, <3>2
    <3>3. CASE d # asked[at]
      <4>1. d > asked[at]
        BY <2>2, <3>1, <3>3 DEF Calls
      <4>2. Solo(at) => result[at][asked[at]] = "ETIMEDOUT"
        <5> SUFFICES ASSUME Solo(at) PROVE result[at][asked[at]] = "ETIMEDOUT"
          OBVIOUS
        <5>1. PICK p \in Callers : Home(p) = at
          BY <1>1, <2>2 DEF MemInv, ChannelMem, Calls
        <5>2. ~Even(at)
          BY <1>1, <2>1, <2>2 DEF Fetch, RingInv, ChannelInv, SoloChannels, Even,
             TypeOK, HistoryOK
        <5>3. SoloMem(p) /\ CallerInv(p)
          BY <1>1, <5>1 DEF MemInv, RingInv
        <5>4. pc[p] \notin {"mark", "poll"}
          BY <3>1, <3>3, <5>1, <5>3 DEF SoloMem
        <5>5. pc[p] \in {"idle", "check", "fault"}
          BY <1>1, <5>1, <5>2, <5>3, <5>4 DEF CallerInv, TypeOK, CallersOK, PCs
        <5> QED
          BY <5>1, <5>2, <5>3, <5>5 DEF SoloMem
      <4> QED
        BY <2>2, <3>1, <4>1, <4>2 DEF Later, Request
    <3> QED
      BY <3>2, <3>3
  <2> QED
    BY <2>2, <2>3, <2>4 DEF MessageFor, Spilled, Answered
<1>2. ASSUME TypeOK, RingInv, MemInv, SizeInv, [Next]_vars, fw = "regs", fw' = "fetch"
      PROVE  LengthExplained
  <2>1. ReadRegs
    <3>1. \A p \in Callers : ~(Dispatch(p) \/ DispatchFault(p) \/ CallerStep(p))
      BY <1>2 DEF Dispatch, DispatchFault, CallerStep, RefuseBusy, Check, WriteRegs,
         Ring, Mark, Accept, Unmark, CopyResponse, PollTimeout, firmware
    <3>2. ~UNCHANGED vars
      BY <1>2 DEF vars, firmware
    <3>3. ~(\/ Fiq \/ Scan \/ ReadDoorbell \/ Fetch \/ Answer \/ FirmwareFault \/ ClearValid
            \/ WriteSize \/ RingBack)
      BY <1>2 DEF Fiq, Scan, ReadDoorbell, Fetch, Answer, FirmwareFault, ClearValid,
         WriteSize, RingBack
    <3> QED
      BY <1>2, <3>1, <3>2, <3>3 DEF Next, FirmwareStep
  <2>2. /\ at \in Channels /\ asked[at] # 0 /\ msgsz' = size[at] /\ size[at] \in Length
        /\ SizeWritten(at)
    BY <1>2, <2>1 DEF ReadRegs, TypeOK, FirmwareOK, SharedOK, MemInv, ChannelMem, SizeInv
  <2>3. CASE ~Solo(at)
    BY <2>2, <2>3 DEF SizeWritten, Foreign, Length
  <2>4. CASE Solo(at)
    <3>1. PICK p \in Callers : Home(p) = at
      BY <1>2, <2>2 DEF MemInv, ChannelMem
    <3>2. db[at] = "req"
      BY <1>2, <2>2, <2>4 DEF RingInv, ChannelInv, SoloChannels
    <3>3. size[at] \in {asked[at], 0}
      BY <1>2, <2>4, <3>1, <3>2 DEF SizeInv, SoloSize
    <3> QED
      BY <2>2, <3>3 DEF SizeWritten, Foreign
  <2> QED
    BY <2>3, <2>4
<1>3. TypeOK /\ RingInv /\ MemInv /\ SizeInv /\ [Next]_vars => [Fetched]_vars
  BY <1>1, <1>2
<1> QED
  BY <1>3, TypeCorrect, RingInvHolds, MemInvHolds, SizeInvHolds, PTL DEF Spec,
     FetchExplained

(* For any number of channels and callers: a successful dispatch on a      *)
(* channel with one caller hands back its own request, or the preceding    *)
(* channel's response, with the length of its own request or that of a     *)
(* response.                                                               *)
THEOREM DispatchReturnsEcho == Spec => DispatchEchoes
<1> DEFINE Echo ==
             \A p \in Callers :
                Solo(Home(p)) /\ pc[p] = "copy" /\ pc'[p] = "idle" =>
                   /\ resp'[p] = <<"req", Home(p), call[p]>> \/ Spilled(Home(p), resp'[p])
                   /\ resplen[p] = call[p] \/ Foreign(Home(p), resplen[p])
<1>1. TypeOK /\ MemInv /\ SizeInv /\ [Next]_vars => [Echo]_vars
  <2> SUFFICES ASSUME TypeOK, MemInv, SizeInv, [Next]_vars,
                      NEW p \in Callers, Solo(Home(p)), pc[p] = "copy", pc'[p] = "idle"
               PROVE  /\ resp'[p] = <<"req", Home(p), call[p]>> \/ Spilled(Home(p), resp'[p])
                      /\ resplen[p] = call[p] \/ Foreign(Home(p), resplen[p])
    OBVIOUS
  <2>1. CopyResponse(p)
    <3>1. \A q \in Callers \ {p} : ~(Dispatch(q) \/ DispatchFault(q) \/ CallerStep(q))
      BY DEF Dispatch, DispatchFault, Begin, CallerStep, RefuseBusy, Check, WriteRegs,
         Ring, Mark, Accept, Unmark, CopyResponse, PollTimeout, Goto, Return, TypeOK,
         CallersOK
    <3>2. ~UNCHANGED vars /\ ~FirmwareStep
      BY DEF vars, callers, FirmwareStep, Fiq, Scan, ReadDoorbell, ReadRegs, Fetch,
         Answer, FirmwareFault, ClearValid, WriteSize, RingBack
    <3>3. Dispatch(p) \/ DispatchFault(p) \/ CallerStep(p)
      BY <3>1, <3>2 DEF Next
    <3> QED
      BY <3>3 DEF Dispatch, DispatchFault, Begin, CallerStep, RefuseBusy, Check,
         WriteRegs, Ring, Mark, Accept, Unmark, PollTimeout, Goto, Return
  <2>2. /\ call[p] \in Calls /\ ptr[p] = Home(p) /\ Home(p) \in Channels
        /\ SoloMem(p)
    BY HomeRange DEF MemInv, CallMem, TypeOK, CallersOK, Calls
  <2>3. resp'[p] = shm[Home(p)]
    BY <2>1, <2>2 DEF CopyResponse, TypeOK, CallersOK
  <2>4. MessageFor(Home(p), call[p])
    BY <2>2 DEF MemInv, Current
  <2>5. Spilled(Home(p), shm[Home(p)]) => Spilled(Home(p), resp'[p])
    BY <2>3
  <2>6. (\E d \in Calls : call[p] <= d /\ shm[Home(p)] = <<"req", Home(p), d>>)
           => resp'[p] = <<"req", Home(p), call[p]>>
    BY <2>2, <2>3 DEF SoloMem
  <2>7. resplen[p] = call[p] \/ Foreign(Home(p), resplen[p])
    BY DEF SizeInv, SoloSize
  <2>8. Spilled(Home(p), shm[Home(p)])
           \/ \E d \in Calls : call[p] <= d /\ shm[Home(p)] = <<"req", Home(p), d>>
    BY <2>4 DEF MessageFor
  <2> QED
    BY <2>5, <2>6, <2>7, <2>8
<1> QED
  BY <1>1, TypeCorrect, MemInvHolds, SizeInvHolds, PTL DEF Spec, DispatchEchoes
===============================================================================
