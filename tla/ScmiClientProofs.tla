--------------------------- MODULE ScmiClientProofs ---------------------------
(***************************************************************************)
(* Proofs about ScmiClient, for any number of threads, slots, tokens and   *)
(* calls.                                                                  *)
(***************************************************************************)
EXTENDS ScmiClient, TLAPS, WellFoundedInduction, FiniteSetTheorems

(* A nonempty set of slots has a lowest one, and Lowest is it: what the    *)
(* scans of alloc_xact and find_xact_by_token return.                      *)
LEMMA LowestIsMember ==
    ASSUME NEW S, S \subseteq Slots, S # {}
    PROVE  /\ Lowest(S) \in S
           /\ \A r \in S : Lowest(S) <= r
<1> DEFINE R == {p \in Nat \X Nat : p[1] < p[2]}
<1>1. IsWellFoundedOn(R, Nat)
  BY NatLessThanWellFounded DEF OpToRel
<1>2. S \subseteq Nat
  BY ClientAssumption DEF Slots
<1>3. \E x \in S : \A y \in S : ~(<<y, x>> \in R)
  <2> HIDE DEF R
  <2> QED BY <1>1, <1>2, WFMin
<1>4. PICK x \in S : \A y \in S : ~(<<y, x>> \in R)
  BY <1>3
<1>5. \A y \in S : x <= y
  <2> SUFFICES ASSUME NEW y \in S PROVE x <= y
    OBVIOUS
  <2>1. x \in Nat /\ y \in Nat
    BY <1>2, <1>4
  <2>2. ~(y < x)
    BY <1>4, <2>1
  <2> QED
    BY <2>1, <2>2
<1> QED
  BY <1>4, <1>5 DEF Lowest

LEMMA LowestFree == FreeSlots # {} => Lowest(FreeSlots) \in FreeSlots
BY LowestIsMember DEF FreeSlots

LEMMA LowestMatch ==
    ASSUME NEW t, Matches(t) # {}
    PROVE  Lowest(Matches(t)) \in Matches(t)
BY LowestIsMember DEF Matches

-------------------------------------------------------------------------------
(* Type correctness.                                                       *)

LEMMA Zeroes == 0 \in Tokens /\ Blank \in Replies /\ ZeroSlot \in SlotType
BY ClientAssumption DEF Tokens, Replies, ZeroSlot, SlotType

LEMMA InitTypeOK == Init => TypeOK
<1> SUFFICES ASSUME Init PROVE TypeOK
  OBVIOUS
<1>1. TableOK
  <2>1. bound \in BOOLEAN /\ pending \in [Slots -> SlotType] /\ wqs \subseteq Slots
    BY Zeroes DEF Init
  <2>2. inits \in 0..MaxInits /\ nextToken \in Tokens
    BY Zeroes, ClientAssumption DEF Init
  <2> QED
    BY <2>1, <2>2 DEF TableOK
<1>2. LocalsOK
  BY Zeroes DEF Init, LocalsOK, PCs
<1>4. SlotTaken
  BY DEF Init, SlotTaken
<1>3. HistoryOK
  BY Zeroes, ClientAssumption DEF Init, HistoryOK, Outcome, Unfinished, Rets
<1> QED
  BY <1>1, <1>2, <1>3, <1>4 DEF TypeOK

(* A store to one field of one slot keeps the table well typed, also       *)
(* through a pointer that is None.                                         *)
LEMMA StoreType ==
    ASSUME TableOK, NEW s
    PROVE  /\ \A v \in Tokens : [pending EXCEPT ![s].token = v] \in [Slots -> SlotType]
           /\ \A v \in {0, 1} : [pending EXCEPT ![s].len = v] \in [Slots -> SlotType]
           /\ \A v \in BOOLEAN : [pending EXCEPT ![s].done = v] \in [Slots -> SlotType]
           /\ \A v \in Replies : [pending EXCEPT ![s].reply = v] \in [Slots -> SlotType]
BY DEF TableOK, SlotType

LEMMA GotoType ==
    ASSUME LocalsOK, NEW t, NEW from, NEW to \in PCs, Goto(t, from, to)
    PROVE  pc' \in [Threads -> PCs]
BY DEF LocalsOK, Goto

LEMMA EndSendType ==
    ASSUME LocalsOK, NEW t, EndSend(t)
    PROVE  /\ tok' \in [Threads -> Tokens]
           /\ rx' \in [Threads -> Slots \cup {None}]
           /\ got' \in [Threads -> Replies]
BY Zeroes DEF LocalsOK, EndSend

LEMMA ReturnType ==
    ASSUME LocalsOK, HistoryOK, NEW t, NEW from, NEW ret \in Rets, NEW reply \in Replies,
           Return(t, from, ret, reply)
    PROVE  LocalsOK' /\ result' \in [Calls -> Outcome]
<1>1. pc' \in [Threads -> PCs]
  BY GotoType DEF Return, PCs
<1>2. result' \in [Calls -> Outcome]
  BY DEF Return, HistoryOK, Outcome
<1> QED
  BY <1>1, <1>2, Zeroes DEF Return, LocalsOK

LEMMA LibraryTypeOK ==
    ASSUME TypeOK, NEW t \in Threads, LibraryStep(t)
    PROVE  TableOK' /\ LocalsOK' /\ HistoryOK'
<1> USE DEF TypeOK, table, locals
<1>1. CASE FetchToken(t)
  <2>1. tok' \in [Threads -> Tokens] /\ nextToken' \in Tokens
    BY <1>1, ClientAssumption DEF FetchToken, LocalsOK, TableOK, Tokens
  <2>2. pc' \in [Threads -> PCs]
    BY <1>1, GotoType DEF FetchToken, PCs
  <2> QED
    BY <1>1, <2>1, <2>2 DEF FetchToken, TableOK, LocalsOK, HistoryOK
<1>2. CASE PutToken(t)
  <2>1. pending' \in [Slots -> SlotType]
    BY <1>2, StoreType DEF PutToken, LocalsOK
  <2>2. pc' \in [Threads -> PCs]
    BY <1>2, GotoType DEF PutToken, PCs
  <2> QED
    BY <1>2, <2>1, <2>2 DEF PutToken, TableOK, LocalsOK, HistoryOK
<1>3. CASE PutLen(t)
  <2>1. pending' \in [Slots -> SlotType]
    BY <1>3, StoreType DEF PutLen, LocalsOK
  <2>2. pc' \in [Threads -> PCs]
    BY <1>3, GotoType DEF PutLen, PCs
  <2> QED
    BY <1>3, <2>1, <2>2 DEF PutLen, TableOK, LocalsOK, HistoryOK
<1>4. CASE Send(t)
  <2>1. pending[slot[t]].token \in Tokens
    BY <1>4 DEF Send, Goto, SlotTaken, TableOK, SlotType
  <2>2. tok' \in [Threads -> Tokens]
    BY <1>4, <2>1 DEF Send, LocalsOK
  <2>3. pc' \in [Threads -> PCs]
    BY <1>4, GotoType DEF Send, PCs
  <2> QED
    BY <1>4, <2>2, <2>3 DEF Send, TableOK, LocalsOK, HistoryOK
<1>5. CASE StoreReply(t)
  <2>1. pending' \in [Slots -> SlotType]
    BY <1>5, StoreType DEF StoreReply, LocalsOK
  <2>2. pc' \in [Threads -> PCs]
    BY <1>5, GotoType DEF StoreReply, PCs
  <2> QED
    BY <1>5, <2>1, <2>2 DEF StoreReply, TableOK, LocalsOK, HistoryOK
<1>6. CASE StoreDone(t)
  <2>1. pending' \in [Slots -> SlotType]
    BY <1>6, StoreType DEF StoreDone
  <2>2. pc' \in [Threads -> PCs]
    BY <1>6, GotoType DEF StoreDone, PCs
  <2> QED
    BY <1>6, <2>1, <2>2 DEF StoreDone, TableOK, LocalsOK, HistoryOK
<1>7. CASE Wake(t) \/ Expire(t)
  <2>1. pc' \in [Threads -> PCs]
    BY <1>7, GotoType DEF Wake, Expire, PCs
  <2>2. slot[t] \in Slots
    BY <1>7 DEF Wake, Expire, Goto, SlotTaken
  <2>3. wqs' \subseteq Slots
    BY <1>7, <2>2 DEF Wake, Expire, Relinked, TableOK
  <2> QED
    BY <1>7, <2>1, <2>3 DEF Wake, Expire, TableOK, LocalsOK, HistoryOK
<1>8. CASE WakeUp(t) \/ QueueFault(t) \/ Sleep(t)
  <2>1. pc' \in [Threads -> PCs]
    BY <1>8, GotoType DEF WakeUp, QueueFault, Sleep, LocalsOK, PCs
  <2> QED
    BY <1>8, <2>1, EndSendType DEF WakeUp, QueueFault, Sleep, TableOK, LocalsOK, HistoryOK
<1>9. CASE Consume(t)
  <2>1. pending' \in [Slots -> SlotType]
    BY <1>9, StoreType DEF Consume
  <2>2. pc' \in [Threads -> PCs]
    BY <1>9, GotoType DEF Consume, PCs
  <2> QED
    BY <1>9, <2>1, <2>2 DEF Consume, TableOK, LocalsOK, HistoryOK
<1>10. CASE GiveUp(t)
  <2>1. pending' \in [Slots -> SlotType]
    BY <1>10, StoreType DEF GiveUp
  <2>2. "ETIMEDOUT" \in Rets /\ Blank \in Replies
    BY DEF Rets, Replies, LocalsOK
  <2>3. LocalsOK' /\ result' \in [Calls -> Outcome]
    BY <1>10, <2>2, ReturnType DEF GiveUp
  <2> QED
    BY <1>10, <2>1, <2>3 DEF GiveUp, TableOK, HistoryOK
<1>11. CASE Copy(t)
  <2>1. pending[slot[t]].reply \in Replies
    BY <1>11 DEF Copy, Goto, SlotTaken, TableOK, SlotType
  <2>2. got' \in [Threads -> Replies]
    BY <1>11, <2>1 DEF Copy, LocalsOK
  <2>3. pc' \in [Threads -> PCs]
    BY <1>11, GotoType DEF Copy, PCs
  <2> QED
    BY <1>11, <2>2, <2>3 DEF Copy, TableOK, LocalsOK, HistoryOK
<1>12. CASE Release(t)
  <2>1. pending' \in [Slots -> SlotType]
    BY <1>12, StoreType DEF Release
  <2>2. "OK" \in Rets /\ got[t] \in Replies
    BY DEF Rets, Replies, LocalsOK
  <2>3. LocalsOK' /\ result' \in [Calls -> Outcome]
    BY <1>12, <2>2, ReturnType DEF Release
  <2> QED
    BY <1>12, <2>1, <2>3 DEF Release, TableOK, HistoryOK
<1> QED
  BY <1>1, <1>2, <1>3, <1>4, <1>5, <1>6, <1>7, <1>8, <1>9, <1>10, <1>11, <1>12 DEF
     LibraryStep

LEMMA TransportTypeOK ==
    ASSUME TypeOK, NEW t \in Threads, TransportStep(t)
    PROVE  TableOK' /\ LocalsOK' /\ HistoryOK'
<1> USE DEF TypeOK, table, locals
<1>1. CASE SendFail(t)
  <2>1. pending' \in [Slots -> SlotType]
    BY <1>1, StoreType DEF SendFail
  <2>2. "ETRANSPORT" \in Rets /\ Blank \in Replies
    BY DEF Rets, Replies
  <2>3. LocalsOK' /\ result' \in [Calls -> Outcome]
    BY <1>1, <2>2, ReturnType DEF SendFail
  <2> QED
    BY <1>1, <2>1, <2>3 DEF SendFail, TableOK, HistoryOK
<1>2. CASE Fault(t)
  BY <1>2 DEF Fault, TableOK, LocalsOK, HistoryOK, PCs
<1>3. ASSUME NEW reply \in {call[t], Garbage}, Receive(t, reply)
      PROVE  TableOK' /\ LocalsOK' /\ HistoryOK'
  <2>1. reply \in Replies
    BY DEF Replies, Blank, LocalsOK
  <2>2. Matches(t) # {} => Lowest(Matches(t)) \in Slots
    BY LowestMatch DEF Matches
  <2>3. pc' \in [Threads -> PCs]
    BY <1>3 DEF Receive, LocalsOK, PCs
  <2>4. /\ tok' \in [Threads -> Tokens]
        /\ rx' \in [Threads -> Slots \cup {None}]
        /\ got' \in [Threads -> Replies]
    BY <1>3, <2>1, <2>2, EndSendType DEF Receive, LocalsOK
  <2> QED
    BY <1>3, <2>3, <2>4 DEF Receive, TableOK, LocalsOK, HistoryOK
<1> QED
  BY <1>1, <1>2, <1>3 DEF TransportStep

LEMMA NextSlotTaken == TypeOK /\ [Next]_vars => SlotTaken'
<1> SUFFICES ASSUME TypeOK, [Next]_vars PROVE SlotTaken'
  OBVIOUS
<1> USE DEF TypeOK, LocalsOK, SlotTaken, table, locals
<1>1. CASE ClientInit \/ SetTransport
  BY <1>1 DEF ClientInit, SetTransport
<1>2. ASSUME NEW t \in Threads, Refuse(t) PROVE SlotTaken'
  BY <1>2 DEF Refuse
<1>3. ASSUME NEW t \in Threads, Start(t) PROVE SlotTaken'
  BY <1>3, LowestFree DEF Start, Goto, FreeSlots
<1>4. ASSUME NEW t \in Threads, LibraryStep(t) PROVE SlotTaken'
  BY <1>4 DEF LibraryStep, FetchToken, PutToken, PutLen, Send, StoreReply, StoreDone,
     WakeUp, QueueFault, Wake, Relinked, Sleep, Expire, Consume, GiveUp, Copy, Release,
     Goto, Return
<1>5. ASSUME NEW t \in Threads, TransportStep(t) PROVE SlotTaken'
  BY <1>5 DEF TransportStep, SendFail, Fault, Receive, Goto, Return
<1>6. CASE UNCHANGED vars
  BY <1>6 DEF vars
<1> QED
  BY <1>1, <1>2, <1>3, <1>4, <1>5, <1>6 DEF Next

LEMMA NextTypeOK == TypeOK /\ [Next]_vars => TypeOK'
<1> SUFFICES ASSUME TypeOK, [Next]_vars PROVE TypeOK'
  OBVIOUS
<1> USE DEF table, locals
<1>0. SlotTaken'
  BY NextSlotTaken
<1> SUFFICES TableOK' /\ LocalsOK' /\ HistoryOK'
  BY <1>0 DEF TypeOK
<1>1. CASE ClientInit
  <2>1. bound' \in BOOLEAN /\ pending' \in [Slots -> SlotType] /\ wqs' \subseteq Slots
    BY <1>1, Zeroes DEF ClientInit
  <2>2. inits' \in 0..MaxInits /\ nextToken' \in Tokens
    BY <1>1, Zeroes, ClientAssumption DEF ClientInit, TypeOK, TableOK
  <2>3. LocalsOK' /\ HistoryOK'
    BY <1>1 DEF ClientInit, TypeOK, LocalsOK, HistoryOK
  <2> QED
    BY <2>1, <2>2, <2>3 DEF TableOK
<1>2. CASE SetTransport
  BY <1>2 DEF SetTransport, TypeOK, TableOK, LocalsOK, HistoryOK
<1>3. ASSUME NEW t \in Threads, Refuse(t) PROVE TableOK' /\ LocalsOK' /\ HistoryOK'
  <2>1. result' \in [Calls -> Outcome]
    BY <1>3 DEF Refuse, TypeOK, HistoryOK, Outcome, Rets
  <2> QED
    BY <1>3, <2>1, ClientAssumption DEF Refuse, TypeOK, TableOK, LocalsOK, HistoryOK
<1>4. ASSUME NEW t \in Threads, Start(t) PROVE TableOK' /\ LocalsOK' /\ HistoryOK'
  <2>1. Lowest(FreeSlots) \in Slots
    BY <1>4, LowestFree DEF Start, FreeSlots
  <2>2. ZeroSlot \in SlotType
    BY Zeroes
  <2>3. pc' \in [Threads -> PCs]
    BY <1>4, GotoType DEF Start, TypeOK, PCs
  <2>4. calls' \in 0..MaxCalls /\ calls + 1 \in Calls
    BY <1>4, ClientAssumption DEF Start, TypeOK, HistoryOK, Calls
  <2> QED
    BY <1>4, <2>1, <2>2, <2>3, <2>4 DEF Start, InLens, TypeOK, TableOK, LocalsOK, HistoryOK
<1>5. ASSUME NEW t \in Threads, LibraryStep(t) \/ TransportStep(t)
      PROVE  TableOK' /\ LocalsOK' /\ HistoryOK'
  BY <1>5, LibraryTypeOK, TransportTypeOK
<1>6. CASE UNCHANGED vars
  BY <1>6 DEF vars, TypeOK, TableOK, LocalsOK, HistoryOK
<1> QED
  BY <1>1, <1>2, <1>3, <1>4, <1>5, <1>6 DEF Next

(* Every variable of the library keeps the range the code gives it: the    *)
(* token stays masked, a slot pointer stays inside g_scmi.pending.         *)
THEOREM TypeCorrect == Spec => []TypeOK
BY InitTypeOK, NextTypeOK, PTL DEF Spec

(* The specification without its fairness: what a transport driver must    *)
(* imply for the safety theorems below to hold above it.                   *)
Unfair == Init /\ [][Next]_vars

LEMMA UnfairTypeOK == Unfair => []TypeOK
BY InitTypeOK, NextTypeOK, PTL DEF Unfair

-------------------------------------------------------------------------------
(* Slots and their lengths.                                                *)

LEMMA NextDoneFinal ==
    ASSUME TypeOK, [Next]_vars, NEW s \in Slots, pending[s].done
    PROVE  pending'[s].done \/ inits' # inits
<1> USE DEF table, locals, TypeOK, TableOK, SlotType
<1>1. CASE ClientInit
  BY <1>1 DEF ClientInit
<1>2. CASE SetTransport
  BY <1>2 DEF SetTransport
<1>3. ASSUME NEW t \in Threads, Refuse(t) PROVE pending'[s].done
  BY <1>3 DEF Refuse
<1>4. ASSUME NEW t \in Threads, Start(t) PROVE pending'[s].done
  BY <1>4, LowestFree DEF Start, FreeSlots, Free
<1>5. ASSUME NEW t \in Threads, LibraryStep(t) PROVE pending'[s].done
  BY <1>5 DEF LibraryStep, FetchToken, PutToken, PutLen, Send, StoreReply, StoreDone,
     WakeUp, QueueFault, Wake, Relinked, Sleep, Expire, Consume, GiveUp, Copy, Release
<1>6. ASSUME NEW t \in Threads, TransportStep(t) PROVE pending'[s].done
  BY <1>6 DEF TransportStep, SendFail, Fault, Receive
<1>7. CASE UNCHANGED vars
  BY <1>7 DEF vars
<1> QED
  BY <1>1, <1>2, <1>3, <1>4, <1>5, <1>6, <1>7 DEF Next

LEMMA UnfairDoneIsFinal == Unfair => DoneIsFinal
<1>1. TypeOK /\ [Next]_vars
        => [\A s \in Slots : pending[s].done => pending'[s].done \/ inits' # inits]_vars
  BY NextDoneFinal
<1> QED
  BY <1>1, UnfairTypeOK, PTL DEF Unfair, DoneIsFinal

(* However many threads, slots and tokens: no step but scmi_client_init    *)
(* clears the done flag of a slot.                                         *)
THEOREM DoneStaysDone == Spec => DoneIsFinal
<1>1. Unfair => DoneIsFinal
  BY UnfairDoneIsFinal
<1> QED
  BY <1>1, PTL DEF Spec, Unfair

(* The thread that keeps the length of slot s set.                         *)
Holder(t, s) == pc[t] \in Sent /\ slot[t] = s /\ inlen[t] = 1

LEMMA LenHeldDef ==
    LenHeld <=> \A s \in Slots : pending[s].len = 1 => \E t \in Threads : Holder(t, s)
BY DEF LenHeld, Holder

(* A step of t changes the length of t's own slot only, and takes no other *)
(* thread's hold away.                                                     *)
LEMMA StepLenHeld ==
    ASSUME TypeOK, LenHeld, NEW t \in Threads, NEW s \in Slots,
           Start(t) \/ LibraryStep(t) \/ TransportStep(t),
           pending'[s].len = 1
    PROVE  \E u \in Threads : Holder(u, s)'
<1> USE DEF TypeOK, TableOK, LocalsOK, SlotTaken, SlotType, table, locals
<1>1. ASSUME NEW u \in Threads, u # t, Holder(u, s) PROVE Holder(u, s)'
  BY <1>1 DEF Holder, Start, LibraryStep, FetchToken, PutToken, PutLen, Send,
     StoreReply, StoreDone, WakeUp, QueueFault, Wake, Relinked, Sleep, Expire, Consume,
     GiveUp, Copy, Release, TransportStep, SendFail, Fault, Receive, EndSend, Goto,
     Return
<1>2. pending[s].len = 1 \/ (PutLen(t) /\ s = slot[t] /\ inlen[t] = 1)
  BY DEF Start, LibraryStep, FetchToken, PutToken, PutLen, Send, StoreReply, StoreDone,
     WakeUp, QueueFault, Wake, Relinked, Sleep, Expire, Consume, GiveUp, Copy, Release,
     TransportStep, SendFail, Fault, Receive, Goto, ZeroSlot
<1>3. CASE PutLen(t) /\ s = slot[t] /\ inlen[t] = 1
  BY <1>3 DEF PutLen, Goto, Holder, Sent
<1>4. ASSUME pending[s].len = 1, Holder(t, s) PROVE Holder(t, s)'
  BY <1>4 DEF Holder, Sent, Start, LibraryStep, FetchToken, PutToken, PutLen, Send,
     StoreReply, StoreDone, WakeUp, QueueFault, Wake, Relinked, Sleep, Expire, Consume,
     GiveUp, Copy, Release, TransportStep, SendFail, Fault, Receive, EndSend, Goto,
     Return
<1> QED
  BY <1>1, <1>2, <1>3, <1>4, LenHeldDef

LEMMA UnfairLenHeld == Unfair => []LenHeld
<1>1. Init => LenHeld
  BY DEF Init, LenHeld, ZeroSlot
<1>2. TypeOK /\ LenHeld /\ [Next]_vars => LenHeld'
  <2> SUFFICES ASSUME TypeOK, LenHeld, [Next]_vars PROVE LenHeld'
    OBVIOUS
  <2>1. CASE ClientInit
    BY <2>1 DEF ClientInit, LenHeld, ZeroSlot
  <2>2. CASE SetTransport \/ UNCHANGED vars
    BY <2>2 DEF SetTransport, vars, table, locals, LenHeld
  <2>3. ASSUME NEW t \in Threads, Refuse(t) PROVE LenHeld'
    BY <2>3 DEF Refuse, table, locals, LenHeld
  <2>4. ASSUME NEW t \in Threads, Start(t) \/ LibraryStep(t) \/ TransportStep(t)
        PROVE  LenHeld'
    BY <2>4, StepLenHeld DEF LenHeld, Holder
  <2> QED
    BY <2>1, <2>2, <2>3, <2>4 DEF Next
<1> QED
  BY <1>1, <1>2, UnfairTypeOK, PTL DEF Unfair

(* However many threads share the table, also when alloc_xact gave one     *)
(* slot to several of them: a length left in a slot is always that of a    *)
(* request still inside scmi_do_xact.                                      *)
THEOREM LengthIsHeld == Spec => []LenHeld
BY UnfairLenHeld, PTL DEF Spec, Unfair

(* Only a call that found no free slot is refused for want of one, and it  *)
(* is the one whose turn it is.                                            *)
LEMMA NextRefused ==
    ASSUME TypeOK, [Next]_vars, NEW c \in Calls,
           result[c].ret # "EBUSY", result'[c].ret = "EBUSY"
    PROVE  FreeSlots = {} /\ c = calls + 1 /\ \E t \in Threads : Refuse(t)
<1> USE DEF TypeOK, HistoryOK
<1>1. ASSUME NEW t \in Threads, Refuse(t) PROVE FreeSlots = {} /\ c = calls + 1
  <2>1. CASE bound
    BY <1>1, <2>1 DEF Refuse, Outcome
  <2>2. CASE ~bound
    <3>1. result' = [result EXCEPT ![calls + 1].ret = "ENODEV"]
      BY <1>1, <2>2 DEF Refuse
    <3>2. result'[c].ret = result[c].ret \/ result'[c].ret = "ENODEV"
      BY <3>1 DEF Outcome
    <3> QED
      BY <3>2
  <2> QED
    BY <2>1, <2>2
<1>2. ASSUME NEW t \in Threads, NEW ret \in {"OK", "ETRANSPORT", "ETIMEDOUT"}, NEW from, NEW reply,
             Return(t, from, ret, reply)
      PROVE  FALSE
  <2>1. result'[c].ret = result[c].ret \/ result'[c].ret = ret
    BY <1>2 DEF Return
  <2> QED
    BY <2>1
<1>3. ASSUME NEW t \in Threads, Start(t) \/ LibraryStep(t) \/ TransportStep(t)
      PROVE  FALSE
  <2>1. CASE GiveUp(t)
    BY <1>2, <2>1 DEF GiveUp
  <2>2. CASE Release(t)
    BY <1>2, <2>2 DEF Release
  <2>3. CASE SendFail(t)
    BY <1>2, <2>3 DEF SendFail
  <2>4. CASE result' = result
    BY <2>4
  <2>5. CASE Start(t) \/ (LibraryStep(t) /\ ~GiveUp(t) /\ ~Release(t)) \/ (TransportStep(t) /\ ~SendFail(t))
    BY <2>4, <2>5 DEF Start, LibraryStep, FetchToken, PutToken, PutLen, Send,
       StoreReply, StoreDone, WakeUp, QueueFault, Wake, Relinked, Sleep, Expire,
       Consume, Copy, TransportStep, Fault, Receive
  <2> QED
    BY <1>3, <2>1, <2>2, <2>3, <2>5
<1>4. ~ClientInit /\ ~SetTransport /\ ~UNCHANGED vars
  BY DEF ClientInit, SetTransport, vars, locals
<1> QED
  BY <1>1, <1>3, <1>4 DEF Next

LEMMA UnfairBusyOnlyWhenUsed == Unfair => BusyOnlyWhenUsed
<1> DEFINE Refused == \E c \in Calls : result[c].ret # "EBUSY" /\ result'[c].ret = "EBUSY"
           Taken == \A s \in Slots :
                      pending[s].done \/ \E t \in Threads : pc[t] \in Sent /\ slot[t] = s
<1>1. TypeOK /\ LenHeld /\ [Next]_vars => [Refused => Taken]_vars
  <2> SUFFICES ASSUME TypeOK, LenHeld, Next, Refused PROVE Taken
    OBVIOUS
  <2>1. FreeSlots = {}
    BY NextRefused
  <2> QED
    BY <2>1 DEF FreeSlots, Free, LenHeld, TypeOK, TableOK, SlotType
<1> QED
  BY <1>1, UnfairLenHeld, UnfairTypeOK, PTL DEF Unfair, BusyOnlyWhenUsed

(* However many threads and slots: a call is refused for want of a slot    *)
(* only while every slot is used up or in the hands of a call.             *)
THEOREM RefusedOnlyWhenUsed == Spec => BusyOnlyWhenUsed
<1>1. Unfair => BusyOnlyWhenUsed
  BY UnfairBusyOnlyWhenUsed
<1> QED
  BY <1>1, PTL DEF Spec, Unfair

-------------------------------------------------------------------------------
(* How fast the slots are used up.                                         *)

(* The slots that are finished or that a call inside scmi_do_xact has.     *)
Used == {s \in Slots : pending[s].done \/ \E t \in Threads : pc[t] # "idle" /\ slot[t] = s}

(* The calls whose completion has not been stored yet: each may still      *)
(* finish a slot that is not its own.                                      *)
Storing  == {"token", "put", "len", "send", "sending", "found", "stored"}
MayStore == {t \in Threads : pc[t] \in Storing}

(* Each call pays for two slots when it starts: with one it takes its own, *)
(* the other it has in hand until its completion is stored.                *)
WearInv ==
    /\ IsFiniteSet(MayStore)
    /\ Cardinality(Used) + Cardinality(MayStore) <= 2 * calls

(* A set that gains at most one element.                                   *)
LEMMA GainOne ==
    ASSUME NEW S, IsFiniteSet(S), NEW T, NEW x, T \subseteq S \cup {x}
    PROVE  /\ IsFiniteSet(T)
           /\ Cardinality(S) \in Nat /\ Cardinality(T) \in Nat
           /\ Cardinality(T) <= Cardinality(S) + 1
<1>1. /\ IsFiniteSet(S \cup {x})
      /\ Cardinality(S \cup {x}) = Cardinality(S)
            \/ Cardinality(S \cup {x}) = Cardinality(S) + 1
  BY FS_AddElement
<1>2. IsFiniteSet(T) /\ Cardinality(T) <= Cardinality(S \cup {x})
  BY <1>1, FS_Subset
<1>3. Cardinality(S) \in Nat /\ Cardinality(T) \in Nat
  BY <1>2, FS_CardinalityType
<1> QED
  BY <1>1, <1>2, <1>3

LEMMA SlotsFinite == IsFiniteSet(Slots) /\ Cardinality(Slots) = NumSlots
BY ClientAssumption, FS_Interval DEF Slots

LEMMA UsedFinite == IsFiniteSet(Used) /\ Cardinality(Used) \in Nat
<1>1. Used \subseteq Slots
  BY DEF Used
<1> QED
  BY <1>1, SlotsFinite, FS_Subset, FS_CardinalityType

LEMMA UsedFiniteNext == IsFiniteSet(Used') /\ Cardinality(Used') \in Nat
<1>1. Used' \subseteq Slots
  BY DEF Used
<1> QED
  BY <1>1, SlotsFinite, FS_Subset, FS_CardinalityType

LEMMA StartWear ==
    ASSUME TypeOK, WearInv, NEW t \in Threads, Start(t)
    PROVE  WearInv'
<1> DEFINE s == Lowest(FreeSlots)
<1>1. Used' \subseteq Used \cup {s}
  <2>1. ASSUME NEW r \in Slots, r # s, pending'[r].done PROVE pending[r].done
    BY <2>1 DEF Start, TypeOK, TableOK
  <2>2. ASSUME NEW r \in Slots, r # s, NEW u \in Threads, pc'[u] # "idle", slot'[u] = r
        PROVE  pc[u] # "idle" /\ slot[u] = r
    BY <2>2 DEF Start, Goto, TypeOK, LocalsOK
  <2> HIDE DEF s
  <2> QED
    BY <2>1, <2>2 DEF Used
<1>2. MayStore' \subseteq MayStore \cup {t}
  BY DEF Start, Goto, MayStore, TypeOK, LocalsOK
<1>3. calls' = calls + 1 /\ calls \in Nat
  BY ClientAssumption DEF Start, TypeOK, HistoryOK
<1> HIDE DEF s
<1>4. Cardinality(Used') <= Cardinality(Used) + 1
  BY <1>1, UsedFinite, GainOne
<1>5. /\ IsFiniteSet(MayStore')
      /\ Cardinality(MayStore') <= Cardinality(MayStore) + 1
      /\ Cardinality(MayStore) \in Nat /\ Cardinality(MayStore') \in Nat
  BY <1>2, GainOne DEF WearInv
<1> QED
  BY <1>3, <1>4, <1>5, UsedFinite, UsedFiniteNext DEF WearInv

LEMMA StoreDoneWear ==
    ASSUME TypeOK, WearInv, NEW t \in Threads, StoreDone(t)
    PROVE  WearInv'
<1>1. Used' \subseteq Used \cup {rx[t]}
  BY DEF StoreDone, Goto, Used, locals, TypeOK, TableOK, LocalsOK, SlotType
<1>2. t \in MayStore /\ MayStore' = MayStore \ {t}
  BY DEF StoreDone, Goto, MayStore, Storing, TypeOK, LocalsOK
<1>3. calls' = calls /\ calls \in Nat
  BY ClientAssumption DEF StoreDone, TypeOK, HistoryOK
<1>4. Cardinality(Used') <= Cardinality(Used) + 1
  BY <1>1, UsedFinite, GainOne
<1>5. /\ IsFiniteSet(MayStore')
      /\ Cardinality(MayStore') = Cardinality(MayStore) - 1
      /\ Cardinality(MayStore) \in Nat
  BY <1>2, FS_RemoveElement, FS_CardinalityType DEF WearInv
<1> QED
  BY <1>3, <1>4, <1>5, UsedFinite, UsedFiniteNext DEF WearInv

(* Every other step leaves the slots used and the calls that may store as  *)
(* they are, or fewer.                                                     *)
LEMMA FewerWear ==
    ASSUME TypeOK, WearInv, Used' \subseteq Used, MayStore' \subseteq MayStore,
           calls' \in Nat, calls <= calls'
    PROVE  WearInv'
<1>1. Cardinality(Used') <= Cardinality(Used)
  BY UsedFinite, FS_Subset
<1>2. /\ IsFiniteSet(MayStore')
      /\ Cardinality(MayStore') <= Cardinality(MayStore)
      /\ Cardinality(MayStore) \in Nat /\ Cardinality(MayStore') \in Nat
  BY FS_Subset, FS_CardinalityType DEF WearInv
<1>3. calls \in Nat
  BY ClientAssumption DEF TypeOK, HistoryOK
<1> QED
  BY <1>1, <1>2, <1>3, UsedFinite, UsedFiniteNext DEF WearInv

LEMMA NextWear == TypeOK /\ WearInv /\ [Next]_vars => WearInv'
<1> SUFFICES ASSUME TypeOK, WearInv, [Next]_vars PROVE WearInv'
  OBVIOUS
<1> USE DEF TypeOK, TableOK, LocalsOK, SlotTaken, SlotType, table, locals
<1>0. calls \in Nat
  BY ClientAssumption DEF HistoryOK
<1>1. CASE ClientInit
  <2>1. Used' \subseteq Used /\ MayStore' = MayStore /\ calls' = calls
    BY <1>1 DEF ClientInit, Used, MayStore, ZeroSlot
  <2> QED
    BY <1>0, <2>1, FewerWear
<1>2. CASE SetTransport \/ UNCHANGED vars
  <2>1. Used' = Used /\ MayStore' = MayStore /\ calls' = calls
    BY <1>2 DEF SetTransport, vars, Used, MayStore
  <2> QED
    BY <1>0, <2>1, FewerWear
<1>3. ASSUME NEW t \in Threads, Refuse(t) PROVE WearInv'
  <2>1. Used' = Used /\ MayStore' = MayStore /\ calls' = calls + 1
    BY <1>3 DEF Refuse, Used, MayStore
  <2> QED
    BY <1>0, <2>1, FewerWear
<1>4. ASSUME NEW t \in Threads, LibraryStep(t) \/ TransportStep(t), ~StoreDone(t)
      PROVE  WearInv'
  <2>1. calls' = calls
    BY <1>4 DEF LibraryStep, FetchToken, PutToken, PutLen, Send, StoreReply, WakeUp,
       QueueFault, Wake, Relinked, Sleep, Expire, Consume, GiveUp, Copy, Release,
       TransportStep, SendFail, Fault, Receive
  <2>2. MayStore' \subseteq MayStore
    BY <1>4 DEF MayStore, Storing, LibraryStep, FetchToken, PutToken, PutLen, Send,
       StoreReply, WakeUp, QueueFault, Wake, Relinked, Sleep, Expire, Consume, GiveUp,
       Copy, Release, TransportStep, SendFail, Fault, Receive, Goto, Return
  <2>3. ASSUME NEW s \in Slots, pending'[s].done PROVE s \in Used
    BY <1>4, <2>3 DEF Used, LibraryStep, FetchToken, PutToken, PutLen, Send, StoreReply,
       WakeUp, QueueFault, Wake, Relinked, Sleep, Expire, Consume, GiveUp, Copy,
       Release, TransportStep, SendFail, Fault, Receive, Goto
  <2>4. ASSUME NEW u \in Threads, pc'[u] # "idle" PROVE pc[u] # "idle" /\ slot'[u] = slot[u]
    BY <1>4, <2>4 DEF LibraryStep, FetchToken, PutToken, PutLen, Send, StoreReply,
       WakeUp, QueueFault, Wake, Relinked, Sleep, Expire, Consume, GiveUp, Copy,
       Release, TransportStep, SendFail, Fault, Receive, Goto, Return
  <2>5. Used' \subseteq Used
    BY <2>3, <2>4 DEF Used
  <2> QED
    BY <1>0, <2>1, <2>2, <2>5, FewerWear
<1> QED
  BY <1>1, <1>2, <1>3, <1>4, StartWear, StoreDoneWear DEF Next

LEMMA NextTwoSlots ==
    TypeOK /\ LenHeld /\ WearInv /\ TwoSlotsPerCall /\ [Next]_vars => TwoSlotsPerCall'
<1> SUFFICES ASSUME TypeOK, LenHeld, WearInv, TwoSlotsPerCall, [Next]_vars,
                    NEW c \in Calls, result'[c].ret = "EBUSY"
             PROVE  NumSlots <= 2 * (c - 1)
  BY DEF TwoSlotsPerCall
<1>1. CASE result[c].ret = "EBUSY"
  BY <1>1 DEF TwoSlotsPerCall
<1>2. CASE result[c].ret # "EBUSY"
  <2>1. FreeSlots = {} /\ c = calls + 1 /\ calls \in Nat
    BY <1>2, NextRefused, ClientAssumption DEF TypeOK, HistoryOK
  <2>2. Used = Slots
    BY <2>1 DEF FreeSlots, Free, LenHeld, Sent, Used, TypeOK, TableOK, SlotType
  <2>3. Cardinality(MayStore) \in Nat
    BY FS_CardinalityType DEF WearInv
  <2>4. NumSlots \in Nat /\ Cardinality(Used) = NumSlots
    BY <2>2, SlotsFinite, ClientAssumption
  <2> QED
    BY <2>1, <2>3, <2>4 DEF WearInv
<1> QED
  BY <1>1, <1>2

LEMMA UnfairTwoSlots == Unfair => []TwoSlotsPerCall
<1>1. Init => WearInv /\ TwoSlotsPerCall
  <2> SUFFICES ASSUME Init PROVE WearInv /\ TwoSlotsPerCall
    OBVIOUS
  <2>1. Used = {} /\ MayStore = {}
    BY DEF Init, Used, MayStore, Storing, ZeroSlot
  <2>2. WearInv
    BY <2>1, FS_EmptySet DEF Init, WearInv
  <2> QED
    BY <2>2 DEF Init, TwoSlotsPerCall, Unfinished
<1> QED
  BY <1>1, NextWear, NextTwoSlots, UnfairTypeOK, UnfairLenHeld, PTL DEF Unfair

(* However many threads share the table, however often the token wraps and *)
(* scmi_client_init runs under the calls: no call is refused for want of a *)
(* slot before half as many calls were made as there are slots.            *)
THEOREM TableLastsHalf == Spec => []TwoSlotsPerCall
<1>1. Unfair => []TwoSlotsPerCall
  BY UnfairTwoSlots
<1> QED
  BY <1>1, PTL DEF Spec, Unfair

-------------------------------------------------------------------------------
(* Completions in slots nobody has taken.                                  *)

BoundOnce == inits = 0 => ~bound /\ \A t \in Threads : pc[t] = "idle"

LEMMA NextBoundOnce ==
    ASSUME TypeOK, BoundOnce, [Next]_vars
    PROVE  BoundOnce'
<1> USE DEF BoundOnce, TypeOK, TableOK, LocalsOK, table, locals
<1>1. CASE ClientInit
  BY <1>1, ClientAssumption DEF ClientInit
<1>2. CASE SetTransport \/ UNCHANGED vars
  BY <1>2 DEF SetTransport, vars
<1>3. ASSUME NEW t \in Threads, Refuse(t) \/ Start(t) PROVE BoundOnce'
  BY <1>3 DEF Refuse, Start, Goto
<1>4. ASSUME NEW t \in Threads, LibraryStep(t) \/ TransportStep(t) PROVE BoundOnce'
  BY <1>4 DEF LibraryStep, FetchToken, PutToken, PutLen, Send, StoreReply, StoreDone,
     WakeUp, QueueFault, Wake, Relinked, Sleep, Expire, Consume, GiveUp, Copy, Release,
     TransportStep, SendFail, Fault, Receive, Goto, Return
<1> QED
  BY <1>1, <1>2, <1>3, <1>4 DEF Next

LEMMA InitsGrow == ASSUME TypeOK, [Next]_vars PROVE inits \in Nat /\ inits <= inits'
<1> USE DEF TypeOK, TableOK, table, locals
<1>0. inits \in Nat
  BY ClientAssumption
<1>1. CASE ClientInit
  BY <1>0, <1>1 DEF ClientInit
<1>2. CASE SetTransport \/ UNCHANGED vars
  BY <1>0, <1>2 DEF SetTransport, vars
<1>3. ASSUME NEW t \in Threads, Refuse(t) \/ Start(t) \/ LibraryStep(t) \/ TransportStep(t)
      PROVE  inits' = inits
  BY <1>3 DEF Refuse, Start, LibraryStep, FetchToken, PutToken, PutLen, Send,
     StoreReply, StoreDone, WakeUp, QueueFault, Wake, Relinked, Sleep, Expire, Consume,
     GiveUp, Copy, Release, TransportStep, SendFail, Fault, Receive
<1> QED
  BY <1>0, <1>1, <1>2, <1>3 DEF Next

(* Until a second scmi_client_init: a slot whose queue is not initialised  *)
(* was never taken, so that it still has token 0 and no length, and every  *)
(* slot taken precedes it.                                                 *)
UntouchedInv ==
    /\ \A t \in Threads : pc[t] # "idle" => slot[t] \in wqs
    /\ \A s \in Slots \ wqs :
          /\ pending[s].token = 0 /\ pending[s].len = 0
          /\ ~pending[s].done => \A r \in wqs : r < s

FirstUntouched == inits <= 1 => UntouchedInv

LEMMA StartUntouched ==
    ASSUME TypeOK, UntouchedInv, NEW t \in Threads, Start(t)
    PROVE  UntouchedInv'
<1> USE DEF TypeOK, TableOK, LocalsOK, table, locals
<1> DEFINE l == Lowest(FreeSlots)
<1>1. l \in FreeSlots /\ \A r \in FreeSlots : l <= r
  BY LowestIsMember DEF Start, FreeSlots
<1>2. l \in Slots
  BY <1>1 DEF FreeSlots
<1>3. /\ pc' = [pc EXCEPT ![t] = "token"] /\ slot' = [slot EXCEPT ![t] = l]
      /\ pending' = [pending EXCEPT ![l] = ZeroSlot] /\ wqs' = wqs \cup {l}
  BY DEF Start, Goto
<1> HIDE DEF l
<1>4. ASSUME NEW u \in Threads, pc'[u] # "idle" PROVE slot'[u] \in wqs'
  BY <1>3, <1>4 DEF UntouchedInv
<1>5. ASSUME NEW s \in Slots, s \notin wqs'
      PROVE  /\ pending'[s].token = 0 /\ pending'[s].len = 0
             /\ ~pending'[s].done => \A r \in wqs' : r < s
  <2>1. pending'[s] = pending[s] /\ s \notin wqs /\ s # l
    BY <1>2, <1>3, <1>5
  <2>2. ASSUME ~pending[s].done PROVE l < s
    <3>1. l <= s
      BY <1>1, <2>1, <2>2 DEF FreeSlots, Free, UntouchedInv
    <3> QED
      BY <1>2, <2>1, <3>1, ClientAssumption DEF Slots
  <2> QED
    BY <1>3, <2>1, <2>2 DEF UntouchedInv
<1> QED
  BY <1>4, <1>5 DEF UntouchedInv

LEMMA StepUntouched ==
    ASSUME TypeOK, UntouchedInv, NEW t \in Threads, LibraryStep(t) \/ TransportStep(t)
    PROVE  UntouchedInv'
<1> USE DEF TypeOK, TableOK, LocalsOK, SlotTaken, SlotType, table, locals
<1>1. \A u \in Threads : pc'[u] # "idle" => pc[u] # "idle" /\ slot'[u] = slot[u]
  BY DEF LibraryStep, FetchToken, PutToken, PutLen, Send, StoreReply, StoreDone, WakeUp,
     QueueFault, Wake, Sleep, Expire, Consume, GiveUp, Copy, Release, TransportStep,
     SendFail, Fault, Receive, Goto, Return
<1>2. wqs' = wqs
  <2>1. CASE Wake(t) \/ Expire(t)
    <3>1. slot[t] \in wqs
      BY <2>1 DEF Wake, Expire, Goto, UntouchedInv
    <3> QED
      BY <2>1, <3>1 DEF Wake, Expire, Relinked
  <2>2. CASE ~Wake(t) /\ ~Expire(t)
    BY <2>2 DEF LibraryStep, FetchToken, PutToken, PutLen, Send, StoreReply, StoreDone, WakeUp,
       QueueFault, Sleep, Consume, GiveUp, Copy, Release, TransportStep, SendFail, Fault, Receive
  <2> QED
    BY <2>1, <2>2
<1>3. ASSUME NEW s \in Slots, s \notin wqs
      PROVE  /\ pending'[s].token = pending[s].token /\ pending'[s].len = pending[s].len
             /\ pending[s].done => pending'[s].done
  BY <1>3 DEF LibraryStep, FetchToken, PutToken, PutLen, Send, StoreReply, StoreDone,
     WakeUp, QueueFault, Wake, Sleep, Expire, Consume, GiveUp, Copy, Release,
     TransportStep, SendFail, Fault, Receive, Goto, Return, UntouchedInv
<1> QED
  BY <1>1, <1>2, <1>3 DEF UntouchedInv

LEMMA NextUntouched ==
    ASSUME TypeOK, BoundOnce, FirstUntouched, [Next]_vars
    PROVE  FirstUntouched'
<1> SUFFICES ASSUME inits' <= 1 PROVE UntouchedInv'
  BY DEF FirstUntouched
<1> USE DEF table, locals
<1>0. inits \in Nat /\ inits <= 1 /\ UntouchedInv
  <2>1. inits \in Nat /\ inits <= inits' /\ inits' \in Nat
    BY InitsGrow, NextTypeOK, ClientAssumption DEF TypeOK, TableOK
  <2> QED
    BY <2>1 DEF FirstUntouched
<1>1. CASE ClientInit
  <2>1. inits = 0
    BY <1>0, <1>1 DEF ClientInit
  <2> QED
    BY <1>1, <2>1 DEF ClientInit, BoundOnce, UntouchedInv, ZeroSlot
<1>2. CASE SetTransport \/ UNCHANGED vars
  BY <1>0, <1>2 DEF SetTransport, vars, UntouchedInv
<1>3. ASSUME NEW t \in Threads, Refuse(t) PROVE UntouchedInv'
  BY <1>0, <1>3 DEF Refuse, UntouchedInv
<1>4. ASSUME NEW t \in Threads, Start(t) \/ LibraryStep(t) \/ TransportStep(t)
      PROVE  UntouchedInv'
  BY <1>0, <1>4, StartUntouched, StepUntouched
<1> QED
  BY <1>1, <1>2, <1>3, <1>4 DEF Next

(* The completion that finds a slot nobody has taken: its token is 0, and  *)
(* the caller's own slot would have been found before it.                  *)
LEMMA StrayStep ==
    ASSUME TypeOK, FirstUntouched, [Next]_vars, inits <= 1, NEW t \in Threads,
           pc[t] = "sending", pc'[t] = "found", rx'[t] \notin wqs
    PROVE  tok[t] = 0 /\ (pending[slot[t]].done \/ pending[slot[t]].token # 0)
<1> USE DEF TypeOK, TableOK, LocalsOK, SlotTaken, table, locals
<1>0. UntouchedInv /\ slot[t] \in Slots /\ slot[t] \in wqs
  BY DEF FirstUntouched, UntouchedInv
<1>1. \E reply \in {call[t], Garbage} : Receive(t, reply)
  <2>1. ~UNCHANGED vars /\ ~ClientInit /\ ~SetTransport
    BY DEF vars, ClientInit, SetTransport
  <2>2. ASSUME NEW u \in Threads, Refuse(u) \/ Start(u) \/ LibraryStep(u) \/ SendFail(u) \/ Fault(u)
        PROVE  FALSE
    BY <2>2 DEF Refuse, Start, LibraryStep, FetchToken, PutToken, PutLen, Send,
       StoreReply, StoreDone, WakeUp, QueueFault, Wake, Sleep, Expire, Consume, GiveUp,
       Copy, Release, SendFail, Fault, Goto, Return
  <2>3. ASSUME NEW u \in Threads, NEW reply, Receive(u, reply) PROVE u = t
    BY <2>3 DEF Receive
  <2> QED
    BY <2>1, <2>2, <2>3 DEF Next, TransportStep
<1>2. Matches(t) # {} /\ rx'[t] = Lowest(Matches(t))
  BY <1>1 DEF Receive
<1> DEFINE s == Lowest(Matches(t))
<1>3. s \in Matches(t) /\ \A r \in Matches(t) : s <= r
  BY <1>2, LowestIsMember DEF Matches
<1>4. s \in Slots \ wqs /\ pending[s].token = tok[t] /\ ~pending[s].done
  BY <1>2, <1>3 DEF Matches
<1> HIDE DEF s
<1>5. tok[t] = 0 /\ slot[t] < s
  BY <1>0, <1>4 DEF UntouchedInv
<1>6. slot[t] \notin Matches(t)
  <2>1. slot[t] \in Nat /\ s \in Nat
    BY <1>0, <1>4, ClientAssumption DEF Slots
  <2> QED
    BY <1>3, <1>5, <2>1
<1> QED
  BY <1>0, <1>5, <1>6 DEF Matches

LEMMA UnfairStray == Unfair => StrayCompletionExplained
<1> DEFINE Stray == \A t \in Threads :
               pc[t] = "sending" /\ pc'[t] = "found" /\ rx'[t] \notin wqs /\ inits <= 1
                  => /\ tok[t] = 0
                     /\ pending[slot[t]].done \/ pending[slot[t]].token # 0
<1>1. Init => BoundOnce /\ FirstUntouched
  BY DEF Init, BoundOnce, FirstUntouched, UntouchedInv, ZeroSlot
<1>2. TypeOK /\ BoundOnce /\ FirstUntouched /\ [Next]_vars => BoundOnce' /\ FirstUntouched'
  BY NextBoundOnce, NextUntouched
<1>3. TypeOK /\ FirstUntouched /\ [Next]_vars => [Stray]_vars
  BY StrayStep
<1> QED
  BY <1>1, <1>2, <1>3, UnfairTypeOK, PTL DEF Unfair, StrayCompletionExplained

(* However many threads, slots and tokens: until a second scmi_client_init *)
(* only the token 0 leads a completion to a slot whose wait queue nobody   *)
(* has initialised, and only once the caller's own slot is lost to it.     *)
THEOREM StrayExplained == Spec => StrayCompletionExplained
<1>1. Unfair => StrayCompletionExplained
  BY UnfairStray
<1> QED
  BY <1>1, PTL DEF Spec, Unfair

-------------------------------------------------------------------------------
(* One calling thread.                                                     *)

Own(t) == {call[t], Garbage}

(* What makes the token lookup right for a lone caller: every slot below   *)
(* its own is dead, its own is not, and the token it sends is the one in   *)
(* its slot; so the first match is its own slot, even once the counter has *)
(* wrapped.                                                                *)
OwnSlotFirst(t) ==
    /\ pc[t] \notin {"idle", "fault"} =>
          \A s \in Slots : s < slot[t] => pending[s].done
    /\ pc[t] \in {"token", "put", "len", "send", "sending", "found", "stored"} =>
          ~pending[slot[t]].done
    /\ pc[t] = "sending" => tok[t] = pending[slot[t]].token
    /\ pc[t] \in {"found", "stored", "waking"} => rx[t] = slot[t]

(* Its slot was initialised when it took it, so that it is never lost in a *)
(* wait queue; and it finds done set before it would sleep.                *)
OwnQueue(t) ==
    /\ pc[t] # "idle" => slot[t] \in wqs
    /\ pc[t] \notin {"asleep", "oops"}

ReplyFollows(t) ==
    /\ pc[t] \in {"found", "release"} => got[t] \in Own(t)
    /\ pc[t] \in {"stored", "waking", "wait", "woken", "copy"} =>
          pending[slot[t]].reply \in Own(t)
    /\ pc[t] \in {"waking", "wait", "woken", "copy"} => pending[slot[t]].done
    /\ pc[t] \notin {"expired", "giveup"}

SerialInv ==
    /\ BoundOnce
    /\ \A t \in Threads : OwnSlotFirst(t) /\ ReplyFollows(t) /\ OwnQueue(t)
    /\ RepliesOwn

(* What the lone thread t finds and stores.                                *)
LEMMA SerialStep ==
    ASSUME NEW t, Threads = {t}, TypeOK, LenHeld, SerialInv,
           Start(t) \/ LibraryStep(t) \/ TransportStep(t)
    PROVE  OwnSlotFirst(t)' /\ ReplyFollows(t)' /\ RepliesOwn'
<1> USE DEF table, locals, Own
<1>0. /\ OwnSlotFirst(t) /\ ReplyFollows(t) /\ OwnQueue(t) /\ RepliesOwn
      /\ pc \in [Threads -> PCs] /\ slot \in [Threads -> Slots \cup {None}]
      /\ call \in [Threads -> Calls \cup {0}] /\ tok \in [Threads -> Tokens]
      /\ rx \in [Threads -> Slots \cup {None}] /\ got \in [Threads -> Replies]
      /\ pending \in [Slots -> SlotType]
      /\ result \in [Calls -> Outcome]
      /\ pc[t] # "idle" => slot[t] \in Slots
  BY DEF SerialInv, TypeOK, LocalsOK, TableOK, HistoryOK, SlotTaken
<1>1. CASE Start(t)
  <2>1. /\ Lowest(FreeSlots) \in FreeSlots
        /\ \A r \in FreeSlots : Lowest(FreeSlots) <= r
    BY <1>1, LowestIsMember DEF Start, FreeSlots
  <2>2. \A s \in Slots : pending[s].len = 0
    BY <1>0, <1>1 DEF Start, Goto, LenHeld, Sent, SlotType
  <2>3. \A s \in Slots : s < Lowest(FreeSlots) => pending[s].done
    <3> SUFFICES ASSUME NEW s \in Slots, s < Lowest(FreeSlots), ~pending[s].done
                 PROVE  FALSE
      OBVIOUS
    <3>1. s \in FreeSlots
      BY <2>2 DEF FreeSlots, Free
    <3>2. s \in Nat /\ Lowest(FreeSlots) \in Nat
      BY <2>1, ClientAssumption DEF FreeSlots, Slots
    <3> QED
      BY <2>1, <3>1, <3>2
  <2>4. pc' = [pc EXCEPT ![t] = "token"] /\ slot' = [slot EXCEPT ![t] = Lowest(FreeSlots)]
    BY <1>1 DEF Start, Goto
  <2>5. pending' = [pending EXCEPT ![Lowest(FreeSlots)] = ZeroSlot]
    BY <1>1 DEF Start
  <2>6. OwnSlotFirst(t)'
    <3>1. \A s \in Slots : s < slot'[t] => pending'[s].done
      BY <1>0, <2>1, <2>3, <2>4, <2>5, ClientAssumption DEF FreeSlots, Slots
    <3>2. ~pending'[slot'[t]].done
      BY <1>0, <2>1, <2>4, <2>5 DEF FreeSlots, ZeroSlot
    <3> QED
      BY <1>0, <2>4, <3>1, <3>2 DEF OwnSlotFirst
  <2>7. ReplyFollows(t)' /\ RepliesOwn'
    BY <1>0, <1>1, <2>4 DEF Start, ReplyFollows, RepliesOwn
  <2> QED
    BY <2>6, <2>7
<1>2. CASE FetchToken(t) \/ PutToken(t) \/ PutLen(t) \/ Send(t)
  BY <1>0, <1>2 DEF FetchToken, PutToken, PutLen, Send, Goto, OwnSlotFirst, ReplyFollows,
     RepliesOwn, SlotType
<1>3. CASE StoreReply(t) \/ StoreDone(t)
  <2>1. rx[t] = slot[t] /\ slot[t] \in Slots
    BY <1>0, <1>3 DEF StoreReply, StoreDone, Goto, OwnSlotFirst
  <2>2. CASE StoreReply(t)
    BY <1>0, <2>1, <2>2 DEF StoreReply, Goto, OwnSlotFirst, ReplyFollows, RepliesOwn,
       SlotType
  <2>3. CASE StoreDone(t)
    <3>1. pending' = [pending EXCEPT ![slot[t]].done = TRUE]
      BY <2>1, <2>3 DEF StoreDone
    <3>2. /\ pc'[t] = "waking" /\ slot' = slot /\ call' = call /\ result' = result
          /\ rx' = rx /\ rx[t] = slot[t]
          /\ pending[slot[t]].reply \in Own(t)
          /\ \A s \in Slots : s < slot[t] => pending[s].done
      BY <1>0, <2>3 DEF StoreDone, Goto, OwnSlotFirst, ReplyFollows
    <3> QED
      BY <1>0, <2>1, <3>1, <3>2 DEF OwnSlotFirst, ReplyFollows, RepliesOwn, SlotType
  <2> QED
    BY <1>3, <2>2, <2>3
<1>4. CASE WakeUp(t)
  BY <1>0, <1>4 DEF WakeUp, Goto, OwnSlotFirst, ReplyFollows, RepliesOwn
<1>10. CASE Wake(t) \/ Expire(t)
  BY <1>0, <1>10 DEF Wake, Expire, Goto, OwnSlotFirst, ReplyFollows, OwnQueue, RepliesOwn
<1>9. CASE QueueFault(t) \/ Sleep(t)
  BY <1>0, <1>9 DEF QueueFault, Sleep, Goto, OwnSlotFirst, ReplyFollows, OwnQueue, RepliesOwn
<1>5. CASE Consume(t) \/ Copy(t)
  BY <1>0, <1>5 DEF Consume, Copy, Goto, OwnSlotFirst, ReplyFollows, RepliesOwn, SlotType
<1>6. CASE Release(t) \/ GiveUp(t) \/ SendFail(t)
  <2>1. pc'[t] = "idle"
    BY <1>0, <1>6 DEF Release, GiveUp, SendFail, Return, Goto
  <2>2. RepliesOwn'
    BY <1>0, <1>6 DEF Release, GiveUp, SendFail, Return, Goto, ReplyFollows, RepliesOwn, Outcome
  <2> QED
    BY <2>1, <2>2 DEF OwnSlotFirst, ReplyFollows
<1>7. CASE Fault(t)
  BY <1>0, <1>7 DEF Fault, OwnSlotFirst, ReplyFollows, RepliesOwn
<1>8. ASSUME NEW reply \in Own(t), Receive(t, reply)
      PROVE  OwnSlotFirst(t)' /\ ReplyFollows(t)' /\ RepliesOwn'
  <2>1. slot[t] \in Matches(t)
    BY <1>0, <1>8 DEF Receive, Matches, OwnSlotFirst
  <2>2. /\ Lowest(Matches(t)) \in Matches(t)
        /\ Lowest(Matches(t)) <= slot[t]
    BY <2>1, LowestIsMember DEF Matches
  <2>3. ~(Lowest(Matches(t)) < slot[t])
    BY <1>0, <1>8, <2>2 DEF Receive, Matches, OwnSlotFirst
  <2>4. Lowest(Matches(t)) = slot[t]
    BY <2>1, <2>2, <2>3, ClientAssumption DEF Matches, Slots
  <2> QED
    BY <1>0, <1>8, <2>1, <2>4 DEF Receive, OwnSlotFirst, ReplyFollows, RepliesOwn
<1> QED
  BY <1>1, <1>2, <1>3, <1>4, <1>5, <1>6, <1>7, <1>8, <1>9, <1>10 DEF LibraryStep, TransportStep

(* The lone caller's queue is initialised when it takes the slot, and it   *)
(* wakes no other.                                                         *)
LEMMA SerialQueue ==
    ASSUME NEW t, Threads = {t}, TypeOK, SerialInv,
           Start(t) \/ LibraryStep(t) \/ TransportStep(t)
    PROVE  OwnQueue(t)'
<1> USE DEF table, locals
<1>0. /\ OwnSlotFirst(t) /\ ReplyFollows(t) /\ OwnQueue(t)
      /\ pc \in [Threads -> PCs] /\ slot \in [Threads -> Slots \cup {None}]
  BY DEF SerialInv, TypeOK, LocalsOK
<1>1. CASE Start(t)
  BY <1>0, <1>1 DEF Start, Goto, OwnQueue
<1>2. CASE Wake(t) \/ Expire(t)
  BY <1>0, <1>2 DEF Wake, Expire, Relinked, Goto, OwnQueue
<1>3. CASE WakeUp(t) \/ QueueFault(t) \/ Sleep(t)
  BY <1>0, <1>3 DEF WakeUp, QueueFault, Sleep, Goto, OwnQueue, OwnSlotFirst, ReplyFollows
<1>4. CASE FetchToken(t) \/ PutToken(t) \/ PutLen(t) \/ Send(t) \/ StoreReply(t) \/ StoreDone(t)
           \/ Consume(t) \/ Copy(t)
  BY <1>0, <1>4 DEF FetchToken, PutToken, PutLen, Send, StoreReply, StoreDone, Consume,
     Copy, Goto, OwnQueue
<1>5. CASE GiveUp(t) \/ Release(t) \/ SendFail(t)
  BY <1>0, <1>5 DEF GiveUp, Release, SendFail, Return, Goto, OwnQueue
<1>6. CASE Fault(t) \/ \E reply \in {call[t], Garbage} : Receive(t, reply)
  BY <1>0, <1>6 DEF Fault, Receive, OwnQueue
<1> QED
  BY <1>1, <1>2, <1>3, <1>4, <1>5, <1>6 DEF LibraryStep, TransportStep

(* The lone caller takes the slots in order, so that no more of them are   *)
(* finished than calls were made.                                          *)
WornInOrder ==
    /\ \A s \in Slots : pending[s].done => s <= calls
    /\ \A t \in Threads : slot[t] <= calls
    /\ \A c \in Calls : result[c].ret = "EBUSY" => NumSlots < c

LEMMA SerialWearStep ==
    ASSUME NEW t, Threads = {t}, TypeOK, SerialInv, WornInOrder,
           LibraryStep(t) \/ TransportStep(t)
    PROVE  WornInOrder'
<1> USE DEF table, locals
<1>0. /\ slot \in [Threads -> Slots \cup {None}] /\ pending \in [Slots -> SlotType]
      /\ pc \in [Threads -> PCs]
      /\ result \in [Calls -> Outcome] /\ calls \in Nat
      /\ pc[t] # "idle" => slot[t] \in Slots
      /\ pc[t] = "stored" => rx[t] = slot[t]
      /\ \A s \in Slots : s \in Nat
      /\ t \in Threads
  BY ClientAssumption DEF SerialInv, OwnSlotFirst, TypeOK, LocalsOK, TableOK, HistoryOK,
     SlotTaken, Slots
<1>1. calls' = calls
  BY DEF LibraryStep, FetchToken, PutToken, PutLen, Send, StoreReply, StoreDone, WakeUp,
     QueueFault, Wake, Relinked, Sleep, Expire, Consume, GiveUp, Copy, Release,
     TransportStep, SendFail, Fault, Receive
<1>2. slot'[t] = slot[t] \/ slot'[t] = None
  BY <1>0 DEF LibraryStep, FetchToken, PutToken, PutLen, Send, StoreReply, StoreDone,
     WakeUp, QueueFault, Wake, Relinked, Sleep, Expire, Consume, GiveUp, Copy, Release,
     TransportStep, SendFail, Fault, Receive, Return
<1>3. ASSUME NEW s \in Slots, pending'[s].done PROVE pending[s].done \/ s = slot[t]
  BY <1>0, <1>3 DEF LibraryStep, FetchToken, PutToken, PutLen, Send, StoreReply,
     StoreDone, WakeUp, QueueFault, Wake, Relinked, Sleep, Expire, Consume, GiveUp,
     Copy, Release, TransportStep, SendFail, Fault, Receive, Goto, Return, SlotType
<1>4. ASSUME NEW c \in Calls, result'[c].ret = "EBUSY" PROVE result[c].ret = "EBUSY"
  <2> SUFFICES ASSUME result[c].ret # "EBUSY" PROVE FALSE
    OBVIOUS
  <2>1. [Next]_vars
    BY <1>0 DEF Next
  <2>2. calls' = calls + 1
    BY <1>4, <2>1, NextRefused DEF Refuse
  <2> QED
    BY <1>0, <1>1, <2>2
<1>5. slot'[t] <= calls
  BY <1>0, <1>2 DEF WornInOrder, None
<1> QED
  BY <1>0, <1>1, <1>3, <1>4, <1>5 DEF WornInOrder

LEMMA SerialWearCall ==
    ASSUME NEW t, Threads = {t}, TypeOK, LenHeld, WornInOrder, Start(t) \/ Refuse(t)
    PROVE  WornInOrder'
<1>0. /\ slot \in [Threads -> Slots \cup {None}] /\ pending \in [Slots -> SlotType]
      /\ pc \in [Threads -> PCs]
      /\ result \in [Calls -> Outcome] /\ calls \in Nat
      /\ \A s \in Slots : s \in Nat
      /\ t \in Threads /\ slot[t] \in Nat
  BY ClientAssumption DEF TypeOK, LocalsOK, TableOK, HistoryOK, Slots, None
<1>1. calls' = calls + 1 /\ pc[t] = "idle"
  BY DEF Start, Refuse, Goto
<1>2. \A s \in Slots : Free(s) \/ pending[s].done
  BY <1>0, <1>1 DEF LenHeld, Sent, Free, SlotType
<1>3. CASE Start(t)
  <2>1. Lowest(FreeSlots) \in Slots /\ \A r \in FreeSlots : Lowest(FreeSlots) <= r
    BY <1>3, LowestIsMember DEF Start, FreeSlots
  <2>2. /\ slot' = [slot EXCEPT ![t] = Lowest(FreeSlots)]
        /\ pending' = [pending EXCEPT ![Lowest(FreeSlots)] = ZeroSlot]
        /\ result' = result
    BY <1>3 DEF Start
  <2>3. Lowest(FreeSlots) <= calls + 1
    <3> DEFINE l == Lowest(FreeSlots)
    <3>1. CASE l = 1
      BY <1>0, <3>1
    <3>2. CASE l # 1
      <4>1. l - 1 \in Slots /\ l \in Nat
        BY <2>1, <3>2, ClientAssumption DEF Slots
      <4>2. l - 1 \notin FreeSlots
        <5> HIDE DEF l
        <5> QED
          BY <2>1, <4>1 DEF l
      <4>3. l - 1 <= calls
        BY <1>2, <4>1, <4>2 DEF FreeSlots, WornInOrder
      <4> QED
        BY <1>0, <4>1, <4>3
    <3> QED
      BY <3>1, <3>2
  <2>4. ASSUME NEW s \in Slots, pending'[s].done PROVE s <= calls + 1
    <3>1. pending[s].done
      BY <1>0, <2>1, <2>2, <2>4 DEF ZeroSlot
    <3> QED
      BY <1>0, <3>1 DEF WornInOrder
  <2> QED
    BY <1>0, <1>1, <2>1, <2>2, <2>3, <2>4 DEF WornInOrder
<1>4. CASE Refuse(t)
  <2>1. pending' = pending /\ slot' = slot
    BY <1>4 DEF Refuse, table, locals
  <2>2. ASSUME NEW c \in Calls, result'[c].ret = "EBUSY" PROVE NumSlots < c
    <3>1. CASE result[c].ret = "EBUSY"
      BY <3>1 DEF WornInOrder
    <3>2. CASE result[c].ret # "EBUSY"
      <4>1. FreeSlots = {} /\ c = calls + 1
        BY <1>0, <1>4, <2>2, <3>2, NextRefused DEF Next
      <4>2. NumSlots \in Slots /\ NumSlots \in Nat
        BY ClientAssumption DEF Slots
      <4>3. NumSlots <= calls
        BY <1>2, <4>1, <4>2 DEF FreeSlots, WornInOrder
      <4> QED
        BY <1>0, <4>1, <4>2, <4>3
    <3> QED
      BY <3>1, <3>2
  <2> QED
    BY <1>0, <1>1, <2>1, <2>2 DEF WornInOrder
<1> QED
  BY <1>3, <1>4

(* What holds of every state: the above, until the device is probed again. *)
FirstBindingInv == BoundOnce /\ (inits <= 1 => SerialInv /\ WornInOrder)

LEMMA UnfairSerial ==
    ASSUME NEW t, Threads = {t}
    PROVE  Unfair => [](OwnReply /\ AnswerNotLost /\ QueuesReady /\ OneSlotPerCall)
<1>1. Init => FirstBindingInv
  BY DEF Init, FirstBindingInv, SerialInv, BoundOnce, OwnSlotFirst, ReplyFollows, OwnQueue,
     RepliesOwn, WornInOrder, Unfinished, ZeroSlot, None
<1>2. TypeOK /\ LenHeld /\ FirstBindingInv /\ [Next]_vars => FirstBindingInv'
  <2> SUFFICES ASSUME TypeOK, LenHeld, FirstBindingInv, [Next]_vars PROVE FirstBindingInv'
    OBVIOUS
  <2>0. BoundOnce'
    BY NextBoundOnce DEF FirstBindingInv
  <2> SUFFICES ASSUME inits' <= 1 PROVE SerialInv' /\ WornInOrder'
    BY <2>0 DEF FirstBindingInv
  <2>a. inits \in Nat /\ inits <= 1 /\ SerialInv /\ WornInOrder
    <3>1. inits \in Nat /\ inits <= inits' /\ inits' \in Nat
      BY InitsGrow, NextTypeOK, ClientAssumption DEF TypeOK, TableOK
    <3> QED
      BY <3>1 DEF FirstBindingInv
  <2> SUFFICES OwnSlotFirst(t)' /\ ReplyFollows(t)' /\ OwnQueue(t)' /\ RepliesOwn' /\ WornInOrder'
    BY <2>0 DEF SerialInv
  <2>1. CASE ClientInit
    <3>1. inits = 0
      BY <2>1, <2>a DEF ClientInit
    <3>2. pc[t] = "idle" /\ pc' = pc /\ result' = result
      BY <2>1, <2>a, <3>1 DEF ClientInit, SerialInv, BoundOnce
    <3>3. WornInOrder'
      BY <2>1, <2>a DEF ClientInit, WornInOrder, ZeroSlot, locals
    <3> QED
      BY <2>a, <3>2, <3>3 DEF OwnSlotFirst, ReplyFollows, OwnQueue, RepliesOwn, SerialInv
  <2>2. CASE SetTransport \/ UNCHANGED vars
    BY <2>a, <2>2 DEF SetTransport, vars, table, locals, OwnSlotFirst, ReplyFollows,
       OwnQueue, Own, RepliesOwn, SerialInv, WornInOrder
  <2>3. CASE Refuse(t)
    <3>1. /\ pc' = pc /\ slot' = slot /\ tok' = tok /\ rx' = rx /\ got' = got
          /\ call' = call /\ pending' = pending /\ wqs' = wqs
      BY <2>3 DEF Refuse, table, locals
    <3>2. OwnSlotFirst(t)' /\ ReplyFollows(t)' /\ OwnQueue(t)'
      BY <2>a, <3>1 DEF SerialInv, OwnSlotFirst, ReplyFollows, OwnQueue, Own
    <3>3. RepliesOwn'
      BY <2>a, <2>3 DEF Refuse, SerialInv, RepliesOwn, TypeOK, HistoryOK, Outcome
    <3> QED
      BY <2>a, <2>3, <3>2, <3>3, SerialWearCall
  <2>4. CASE Start(t) \/ LibraryStep(t) \/ TransportStep(t)
    BY <2>a, <2>4, SerialStep, SerialQueue, SerialWearStep, SerialWearCall
  <2> QED
    BY <2>1, <2>2, <2>3, <2>4 DEF Next
<1>3. FirstBindingInv => OwnReply /\ AnswerNotLost /\ QueuesReady /\ OneSlotPerCall
  BY DEF FirstBindingInv, SerialInv, ReplyFollows, OwnQueue, OwnReply, AnswerNotLost,
     QueuesReady, WornInOrder, OneSlotPerCall
<1> QED
  BY <1>1, <1>2, <1>3, UnfairTypeOK, UnfairLenHeld, PTL DEF Unfair

(* One thread, until the device is probed again, and any number of slots,  *)
(* tokens and calls: whatever the transport does and however often the     *)
(* token has wrapped, a success carries what the transport delivered for   *)
(* that call, not what scmi_rx_complete stored for another.                *)
THEOREM SerialCallerGetsItsReply ==
    ASSUME NEW t, Threads = {t}
    PROVE  Spec => []OwnReply
<1>1. Unfair => [](OwnReply /\ AnswerNotLost /\ QueuesReady /\ OneSlotPerCall)
  BY UnfairSerial
<1> QED
  BY <1>1, PTL DEF Spec, Unfair

(* One thread, until the device is probed again: what the transport        *)
(* delivered for a call is in the call's own slot when its wait begins, so *)
(* that no delivered response is lost to the timeout.                      *)
THEOREM SerialAnswerNotLost ==
    ASSUME NEW t, Threads = {t}
    PROVE  Spec => []AnswerNotLost
<1>1. Unfair => [](OwnReply /\ AnswerNotLost /\ QueuesReady /\ OneSlotPerCall)
  BY UnfairSerial
<1> QED
  BY <1>1, PTL DEF Spec, Unfair

(* One thread, until the device is probed again: neither the wake_up of    *)
(* scmi_rx_complete nor the wait of scmi_do_xact meets a queue that        *)
(* alloc_xact has not initialised.                                         *)
THEOREM SerialQueuesReady ==
    ASSUME NEW t, Threads = {t}
    PROVE  Spec => []QueuesReady
<1>1. Unfair => [](OwnReply /\ AnswerNotLost /\ QueuesReady /\ OneSlotPerCall)
  BY UnfairSerial
<1> QED
  BY <1>1, PTL DEF Spec, Unfair

(* One thread, until the device is probed again: alloc_xact takes a slot   *)
(* for each call and no two for one, so that no call is refused for want   *)
(* of a slot until as many calls were made as there are slots.             *)
THEOREM SerialTableLasts ==
    ASSUME NEW t, Threads = {t}
    PROVE  Spec => []OneSlotPerCall
<1>1. Unfair => [](OwnReply /\ AnswerNotLost /\ QueuesReady /\ OneSlotPerCall)
  BY UnfairSerial
<1> QED
  BY <1>1, PTL DEF Spec, Unfair
===============================================================================
