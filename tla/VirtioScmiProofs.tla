--------------------------- MODULE VirtioScmiProofs ---------------------------
(***************************************************************************)
(* The driver of VirtioScmi is a transport as ScmiClient leaves it open,   *)
(* so what is proved of the client library holds above it.                 *)
(***************************************************************************)
EXTENDS VirtioScmi, ScmiClientProofs, FiniteSetTheorems

(* The poll loop of a thread ends in the library's completion or in a      *)
(* failed send, whatever the queues hold.                                  *)
LEMMA SendStepIsTransport ==
    ASSUME NEW t \in Threads, SendStep(t)
    PROVE  TransportStep(t) \/ UNCHANGED vars
<1>1. CASE Enter(t)
  BY <1>1 DEF Enter, TransportStep
<1>2. CASE Post(t)
  BY <1>2 DEF Post, TransportStep
<1>3. CASE PollHit(t)
  BY <1>3 DEF PollHit, TransportStep
<1>4. CASE PollTimeout(t) \/ UseFreed(t)
  BY <1>4 DEF PollTimeout, UseFreed, TransportStep
<1> QED
  BY <1>1, <1>2, <1>3, <1>4 DEF SendStep

LEMMA StepSimulates ==
    ASSUME [VNext]_allVars
    PROVE  [Next]_vars
<1>1. CASE UNCHANGED allVars
  BY <1>1 DEF allVars
<1>2. CASE ProbeInit \/ ProbeBind
  BY <1>2 DEF ProbeInit, ProbeBind, Next
<1>3. CASE ProbePublish \/ RemoveBegin \/ RemoveEnd \/ RxCallback \/ TxCallback
  BY <1>3 DEF ProbePublish, RemoveBegin, RemoveEnd, RxCallback, TxCallback
<1>4. ASSUME NEW c \in avail, HostAnswer(c) PROVE [Next]_vars
  BY <1>4 DEF HostAnswer
<1>5. ASSUME NEW t \in Threads, (Refuse(t) \/ Start(t)) /\ UNCHANGED driver
      PROVE  [Next]_vars
  BY <1>5 DEF Next
<1>6. ASSUME NEW t \in Threads, ThreadStep(t) PROVE [Next]_vars
  <2>1. CASE LibraryStep(t)
    BY <2>1 DEF Next
  <2>2. CASE SendUnbound(t)
    BY <2>2 DEF SendUnbound, TransportStep, Next
  <2>3. CASE SendStep(t)
    BY <2>3, SendStepIsTransport DEF Next
  <2> QED
    BY <1>6, <2>1, <2>2, <2>3 DEF ThreadStep
<1> QED
  BY <1>1, <1>2, <1>3, <1>4, <1>5, <1>6 DEF VNext

(* Every behaviour of the driver, its callbacks, the host and the removal  *)
(* of the device is, seen from the library, one of ScmiClient: the safety  *)
(* half of ClientSpec, for any number of threads, slots and ring entries.  *)
THEOREM DriverIsATransport == VSpec => Init /\ [][Next]_vars
<1>1. VInit => Init
  BY DEF VInit
<1> QED
  BY <1>1, StepSimulates, PTL DEF VSpec

(* What is proved of the library above any transport, above this one: its  *)
(* types, the lengths of its slots, and that a finished slot stays so.     *)
THEOREM LibraryHoldsAboveDriver == VSpec => []TypeOK /\ []LenHeld /\ DoneIsFinal
<1>1. VSpec => Unfair
  BY DriverIsATransport DEF Unfair
<1> QED
  BY <1>1, UnfairTypeOK, UnfairLenHeld, UnfairDoneIsFinal

(* The table of slots above the driver: a call is refused for want of one  *)
(* only while each is used up or held, and not before half as many calls   *)
(* were made as there are slots.                                           *)
THEOREM TableLastsAboveDriver == VSpec => BusyOnlyWhenUsed /\ []TwoSlotsPerCall
<1>1. VSpec => Unfair
  BY DriverIsATransport DEF Unfair
<1> QED
  BY <1>1, UnfairBusyOnlyWhenUsed, UnfairTwoSlots

(* And for one calling thread, until the device is probed again: a success *)
(* carries what the driver delivered for that call, what it delivered is   *)
(* not lost to the timeout, no wait queue takes the thread down, and the   *)
(* table serves as many calls as it has slots, through late completions, a *)
(* full ring and the removal of the device.                                *)
THEOREM SerialCallerAboveDriver ==
    ASSUME NEW t, Threads = {t}
    PROVE  VSpec => [](OwnReply /\ AnswerNotLost /\ QueuesReady /\ OneSlotPerCall)
<1>1. VSpec => Unfair
  BY DriverIsATransport DEF Unfair
<1> QED
  BY <1>1, UnfairSerial
-------------------------------------------------------------------------------
(* The types of the driver, and the calls it has on the ring.              *)

(* Where the client's types hold already, and without the bound on the     *)
(* completions, which needs the counting below.                            *)
DriverOK ==
    /\ dev \in {"none", "probing", "ready", "removing"}
    /\ tx \in [Threads -> {"enter", "checked", "poll", "stale"}]
    /\ avail \subseteq Calls
    /\ used \subseteq answered
    /\ answered \subseteq Calls
    /\ p2a \in Nat

(* A thread whose call has not been posted yet.                            *)
Unposted(t) ==
    \/ pc[t] \in {"token", "put", "len", "send"}
    \/ pc[t] = "sending" /\ tx[t] \in {"enter", "checked"}

(* A call is posted once, by the one thread that makes it, and answered    *)
(* once: what is on the ring has not been answered.                        *)
PostInv ==
    /\ avail \cap answered = {}
    /\ avail \cup answered \subseteq 1..calls
    /\ \A t \in Threads : pc[t] # "idle" => call[t] \in 1..calls
    /\ \A t, u \in Threads :
          t # u /\ pc[t] # "idle" /\ pc[u] # "idle" => call[t] # call[u]
    /\ \A t \in Threads : Unposted(t) => call[t] \notin avail \cup answered
    /\ \A t \in Threads : tx[t] # "enter" => pc[t] = "sending"

(* What a step of t inside the library leaves of the other threads, and    *)
(* where it takes t.                                                       *)
LEMMA LibraryFrame ==
    ASSUME TypeOK, NEW t \in Threads, LibraryStep(t)
    PROVE  /\ calls' = calls
           /\ \A u \in Threads : u # t => pc'[u] = pc[u] /\ call'[u] = call[u]
           /\ pc'[t] = "idle" \/ (pc[t] # "idle" /\ call'[t] = call[t])
           /\ pc[t] # "sending"
           /\ pc'[t] \in {"token", "put", "len", "send"} => pc[t] \in {"token", "put", "len"}
           /\ pc'[t] = "sending" => pc[t] = "send"
BY DEF TypeOK, LocalsOK, LibraryStep, FetchToken, PutToken, PutLen, Send, StoreReply,
   StoreDone, WakeUp, QueueFault, Wake, Sleep, Expire, Consume, GiveUp, Copy, Release,
   Goto, Return, table, locals, EndSend

LEMMA TransportFrame ==
    ASSUME TypeOK, NEW t \in Threads, TransportStep(t)
    PROVE  /\ calls' = calls
           /\ \A u \in Threads : u # t => pc'[u] = pc[u] /\ call'[u] = call[u]
           /\ pc'[t] = "idle" \/ (pc[t] # "idle" /\ call'[t] = call[t])
           /\ pc'[t] \in {"idle", "fault", "found", "wait"}
BY DEF TypeOK, LocalsOK, TransportStep, SendFail, Fault, Receive, Goto, Return, table,
   locals, EndSend

(* The library's part of PostInv under a step of one thread that leaves    *)
(* the ring alone, as long as it does not make its call unposted again.    *)
LEMMA PostFrame ==
    ASSUME TypeOK, DriverOK, PostInv, NEW t \in Threads,
           calls' = calls,
           \A u \in Threads : u # t => /\ pc'[u] = pc[u] /\ call'[u] = call[u]
                                       /\ tx'[u] = tx[u],
           pc'[t] = "idle" \/ (pc[t] # "idle" /\ call'[t] = call[t]),
           Unposted(t)' => Unposted(t),
           tx'[t] # "enter" => pc'[t] = "sending",
           avail' \subseteq avail, answered' = answered
    PROVE  PostInv'
<1>1. ASSUME NEW u \in Threads, Unposted(u)' PROVE Unposted(u) /\ call'[u] = call[u]
  BY <1>1 DEF Unposted
<1>2. ASSUME NEW u \in Threads, pc'[u] # "idle" PROVE pc[u] # "idle" /\ call'[u] = call[u]
  BY <1>2
<1> QED
  BY <1>1, <1>2 DEF PostInv

LEMMA NextPost ==
    ASSUME TypeOK, DriverOK, PostInv, [VNext]_allVars
    PROVE  PostInv' /\ DriverOK'
<1> USE DEF driver, vars, table, locals
<1>1. CASE UNCHANGED allVars
  BY <1>1 DEF allVars, DriverOK, PostInv, Unposted
<1>2. CASE ProbeInit \/ ProbeBind \/ ProbePublish \/ RemoveBegin
  BY <1>2 DEF ProbeInit, ProbeBind, ProbePublish, RemoveBegin, ClientInit, SetTransport,
     DriverOK, PostInv, Unposted
<1>3. CASE RemoveEnd
  BY <1>3 DEF RemoveEnd, DriverOK, PostInv, Unposted
<1>4. ASSUME NEW c \in avail, HostAnswer(c) PROVE PostInv' /\ DriverOK'
  BY <1>4 DEF HostAnswer, DriverOK, PostInv, Unposted
<1>5. CASE RxCallback \/ TxCallback
  BY <1>5 DEF RxCallback, TxCallback, DriverOK, PostInv, Unposted
<1>6. ASSUME NEW t \in Threads, Refuse(t), UNCHANGED driver
      PROVE  PostInv' /\ DriverOK'
  <2>1. calls \in Nat /\ calls' = calls + 1
    BY <1>6, ClientAssumption DEF Refuse, TypeOK, HistoryOK
  <2>2. 1..calls \subseteq 1..calls'
    BY <2>1
  <2> QED
    BY <1>6, <2>2 DEF Refuse, DriverOK, PostInv, Unposted
<1>7. ASSUME NEW t \in Threads, Start(t), UNCHANGED driver
      PROVE  PostInv' /\ DriverOK'
  <2>1. calls \in Nat /\ calls' = calls + 1
    BY <1>7, ClientAssumption DEF Start, TypeOK, HistoryOK
  <2>2. 1..calls \subseteq 1..calls' /\ calls' \in 1..calls' /\ calls' \notin 1..calls
    BY <2>1
  <2>3. /\ call'[t] = calls' /\ pc'[t] = "token" /\ pc[t] = "idle"
        /\ \A u \in Threads : u # t => pc'[u] = pc[u] /\ call'[u] = call[u]
    BY <1>7, <2>1 DEF Start, Goto, TypeOK, LocalsOK
  <2>4. avail \cup answered \subseteq 1..calls' /\ avail \cap answered = {}
    BY <2>2 DEF PostInv
  <2>5. \A u \in Threads : pc'[u] # "idle" => call'[u] \in 1..calls'
    BY <2>2, <2>3 DEF PostInv
  <2>6. \A u, v \in Threads :
          u # v /\ pc'[u] # "idle" /\ pc'[v] # "idle" => call'[u] # call'[v]
    BY <2>2, <2>3 DEF PostInv
  <2>7. \A u \in Threads : Unposted(u)' => call'[u] \notin avail \cup answered
    BY <1>7, <2>2, <2>3 DEF PostInv, Unposted
  <2>8. \A u \in Threads : tx[u] # "enter" => pc'[u] = "sending"
    BY <2>3 DEF PostInv
  <2> QED
    BY <1>7, <2>4, <2>5, <2>6, <2>7, <2>8 DEF PostInv, DriverOK
<1>8. ASSUME NEW t \in Threads, LibraryStep(t), UNCHANGED driver
      PROVE  PostInv' /\ DriverOK'
  <2>1. Unposted(t)' => Unposted(t)
    BY <1>8, LibraryFrame DEF Unposted
  <2>2. tx'[t] # "enter" => pc'[t] = "sending"
    BY <1>8, LibraryFrame DEF PostInv
  <2>3. PostInv'
    BY <1>8, <2>1, <2>2, LibraryFrame, PostFrame
  <2> QED
    BY <1>8, <2>3 DEF DriverOK
<1>9. ASSUME NEW t \in Threads, SendUnbound(t), UNCHANGED driver
      PROVE  PostInv' /\ DriverOK'
  <2>1. TransportStep(t) /\ tx[t] = "enter"
    BY <1>9 DEF SendUnbound, TransportStep, PostInv
  <2>2. PostInv'
    BY <1>9, <2>1, TransportFrame, PostFrame DEF Unposted
  <2> QED
    BY <1>9, <2>2 DEF DriverOK
<1>10. ASSUME NEW t \in Threads, SendStep(t)
       PROVE  PostInv' /\ DriverOK'
  <2>1. CASE TransportStep(t) /\ UNCHANGED <<dev, avail, used, answered>>
             /\ tx' = [tx EXCEPT ![t] = "enter"] /\ p2a' \in Nat
    <3>1. PostInv'
      BY <2>1, TransportFrame, PostFrame DEF Unposted, DriverOK
    <3> QED
      BY <2>1, <3>1 DEF DriverOK
  <2>2. CASE Enter(t) /\ UNCHANGED vars /\ tx' = [tx EXCEPT ![t] = "checked"]
    <3>1. pc[t] = "sending" /\ tx[t] = "enter"
      BY <2>2 DEF Enter
    <3>2. /\ \A u \in Threads : u # t => tx'[u] = tx[u]
          /\ tx'[t] = "checked"
      BY <2>2 DEF DriverOK
    <3>3. UNCHANGED <<avail, answered, dev, used, p2a>>
      BY <2>2 DEF Enter
    <3>4. PostInv'
      BY <2>2, <3>1, <3>2, <3>3, PostFrame DEF Unposted
    <3> QED
      BY <2>2, <3>3, <3>4 DEF DriverOK
  <2>3. CASE Post(t) /\ UNCHANGED vars /\ tx' = [tx EXCEPT ![t] = "poll"]
             /\ avail' = avail \cup {call[t]}
    <3>1. pc[t] = "sending" /\ tx[t] = "checked" /\ UNCHANGED <<dev, used, answered, p2a>>
      BY <2>3 DEF Post
    <3>2. call[t] \in 1..calls /\ call[t] \notin avail \cup answered
      BY <3>1 DEF PostInv, Unposted
    <3>3. call[t] \in Calls
      BY <3>2, ClientAssumption DEF TypeOK, HistoryOK, Calls
    <3>4. tx'[t] = "poll" /\ \A u \in Threads : u # t => tx'[u] = tx[u]
      BY <2>3 DEF DriverOK
    <3>5. ASSUME NEW u \in Threads, Unposted(u)'
          PROVE  call'[u] \notin avail' \cup answered'
      BY <2>3, <3>1, <3>4, <3>5 DEF PostInv, Unposted
    <3>6. PostInv'
      BY <2>3, <3>1, <3>2, <3>4, <3>5 DEF PostInv
    <3> QED
      BY <2>3, <3>1, <3>3, <3>6 DEF DriverOK
  <2>4. ASSUME Enter(t) PROVE PostInv' /\ DriverOK'
    <3>1. CASE UNCHANGED vars /\ tx' = [tx EXCEPT ![t] = "checked"]
      BY <2>2, <2>4, <3>1
    <3>2. CASE (Fault(t) \/ SendFail(t)) /\ UNCHANGED tx
      <4>1. tx' = [tx EXCEPT ![t] = "enter"]
        BY <2>4, <3>2 DEF Enter, DriverOK
      <4> QED
        BY <2>1, <2>4, <3>2, <4>1 DEF Enter, TransportStep, DriverOK
    <3> QED
      BY <2>4, <3>1, <3>2 DEF Enter
  <2>5. ASSUME Post(t) PROVE PostInv' /\ DriverOK'
    <3>1. CASE SendFail(t) /\ Leave(t) /\ UNCHANGED avail
      BY <2>1, <2>5, <3>1 DEF Post, Leave, TransportStep, DriverOK
    <3> QED
      BY <2>3, <2>5, <3>1 DEF Post
  <2>6. ASSUME PollHit(t) PROVE PostInv' /\ DriverOK'
    <3>1. p2a' \in Nat
      BY <2>6 DEF PollHit, DriverOK
    <3> QED
      BY <2>1, <2>6, <3>1 DEF PollHit, Leave, TransportStep
  <2>7. ASSUME PollTimeout(t) \/ UseFreed(t) PROVE PostInv' /\ DriverOK'
    BY <2>1, <2>7 DEF PollTimeout, UseFreed, Leave, TransportStep, DriverOK
  <2> QED
    BY <1>10, <2>4, <2>5, <2>6, <2>7 DEF SendStep
<1> QED
  BY <1>1, <1>2, <1>3, <1>4, <1>5, <1>6, <1>7, <1>8, <1>9, <1>10 DEF VNext, ThreadStep

LEMMA InitPost == VInit => DriverOK /\ PostInv
BY DEF VInit, Init, DriverOK, PostInv, Unposted
-------------------------------------------------------------------------------
(* What a step does to the three counts of CompletionConserved.            *)

Succeeded == {c \in Calls : result[c].ret = "OK"}

(* Nothing new is delivered, returned or answered.                         *)
Wanes ==
    /\ Succeeded' \subseteq Succeeded
    /\ Delivered' \subseteq Delivered
    /\ p2a' \in 0..p2a
    /\ answered' = answered

(* A completion leaves the queue for a thread.                             *)
Delivers ==
    /\ Succeeded' \subseteq Succeeded
    /\ \E t \in Threads : Delivered' \subseteq Delivered \cup {t}
    /\ p2a > 0
    /\ p2a' = p2a - 1
    /\ answered' = answered

(* A thread it was delivered to returns success.                           *)
Succeeds ==
    /\ \E c \in Calls : Succeeded' \subseteq Succeeded \cup {c}
    /\ \E t \in Delivered : Delivered' \subseteq Delivered \ {t}
    /\ p2a' = p2a
    /\ answered' = answered

(* The host answers a call it has not answered before.                     *)
Answers ==
    /\ Succeeded' = Succeeded
    /\ Delivered' = Delivered
    /\ p2a' = p2a + 1
    /\ \E c \in Calls : c \notin answered /\ answered' = answered \cup {c}

LEMMA LibraryCounts ==
    ASSUME TypeOK, DriverOK, NEW t \in Threads, LibraryStep(t), UNCHANGED driver
    PROVE  Wanes \/ Succeeds
<1> USE DEF TypeOK, LocalsOK, HistoryOK, Goto, Return, table, locals, EndSend, driver
<1>1. CASE Release(t)
  <2>1. t \in Delivered /\ Delivered' \subseteq Delivered \ {t}
    BY <1>1 DEF Release, Delivered
  <2>2. Succeeded' \subseteq Succeeded \cup {call[t]}
    BY <1>1 DEF Release, Succeeded, Outcome
  <2>3. CASE call[t] \in Calls
    BY <1>1, <2>1, <2>2, <2>3 DEF Succeeds
  <2>4. CASE call[t] \notin Calls
    <3>1. Succeeded' \subseteq Succeeded
      BY <2>2, <2>4 DEF Succeeded
    <3> QED
      BY <2>1, <3>1 DEF Wanes, DriverOK
  <2> QED
    BY <2>3, <2>4
<1>2. CASE GiveUp(t)
  <2>1. Delivered' \subseteq Delivered
    BY <1>2 DEF GiveUp, Delivered
  <2>2. Succeeded' \subseteq Succeeded
    BY <1>2 DEF GiveUp, Succeeded, Outcome
  <2> QED
    BY <2>1, <2>2 DEF Wanes, DriverOK
<1>3. CASE FetchToken(t) \/ PutToken(t) \/ PutLen(t) \/ Send(t) \/ StoreReply(t)
           \/ StoreDone(t) \/ WakeUp(t) \/ QueueFault(t) \/ Wake(t) \/ Sleep(t) \/ Expire(t)
           \/ Consume(t) \/ Copy(t)
  <2>1. Delivered' \subseteq Delivered
    BY <1>3 DEF FetchToken, PutToken, PutLen, Send, StoreReply, StoreDone, WakeUp,
       QueueFault, Wake, Sleep, Expire, Consume, Copy, Delivered
  <2>2. result' = result
    BY <1>3 DEF FetchToken, PutToken, PutLen, Send, StoreReply, StoreDone, WakeUp,
       QueueFault, Wake, Sleep, Expire, Consume, Copy
  <2> QED
    BY <2>1, <2>2 DEF Wanes, Succeeded, DriverOK
<1> QED
  BY <1>1, <1>2, <1>3 DEF LibraryStep

(* A send that fails or faults delivers nothing.                           *)
LEMMA FailureCounts ==
    ASSUME TypeOK, DriverOK, NEW t \in Threads, SendFail(t) \/ Fault(t),
           p2a' = p2a, answered' = answered
    PROVE  Wanes
<1> USE DEF TypeOK, LocalsOK, HistoryOK, Goto, Return, table, locals
<1>1. Delivered' \subseteq Delivered
  BY DEF SendFail, Fault, Delivered
<1>2. Succeeded' \subseteq Succeeded
  BY DEF SendFail, Fault, Succeeded, Outcome
<1> QED
  BY <1>1, <1>2 DEF Wanes, DriverOK

LEMMA NextCounts ==
    ASSUME TypeOK, DriverOK, PostInv, [VNext]_allVars
    PROVE  Wanes \/ Delivers \/ Succeeds \/ Answers
<1> USE DEF driver, vars, table, locals
<1>1. CASE UNCHANGED <<pc, result, answered>> /\ p2a' \in 0..p2a
  BY <1>1 DEF Wanes, Succeeded, Delivered
<1>2. CASE UNCHANGED allVars
  BY <1>1, <1>2 DEF allVars, DriverOK
<1>3. CASE ProbeInit \/ ProbeBind \/ ProbePublish \/ RemoveBegin \/ RemoveEnd
           \/ RxCallback \/ TxCallback
  BY <1>1, <1>3 DEF ProbeInit, ProbeBind, ProbePublish, RemoveBegin, RemoveEnd,
     RxCallback, TxCallback, ClientInit, SetTransport, DriverOK
<1>4. ASSUME NEW c \in avail, HostAnswer(c) PROVE Answers
  BY <1>4 DEF HostAnswer, Answers, Succeeded, Delivered, DriverOK, PostInv
<1>5. ASSUME NEW t \in Threads, Refuse(t), UNCHANGED driver PROVE Wanes
  <2>1. Succeeded' \subseteq Succeeded
    BY <1>5 DEF Refuse, Succeeded, TypeOK, HistoryOK, Outcome
  <2> QED
    BY <1>5, <2>1 DEF Refuse, Wanes, Delivered, DriverOK
<1>6. ASSUME NEW t \in Threads, Start(t), UNCHANGED driver PROVE Wanes
  BY <1>6 DEF Start, Goto, Wanes, Succeeded, Delivered, DriverOK, TypeOK, LocalsOK
<1>7. ASSUME NEW t \in Threads, SendUnbound(t), UNCHANGED driver PROVE Wanes
  BY <1>7, FailureCounts DEF SendUnbound
<1>8. ASSUME NEW t \in Threads, Enter(t) \/ Post(t) PROVE Wanes
  <2>1. CASE SendFail(t) \/ Fault(t)
    BY <1>8, <2>1, FailureCounts DEF Enter, Post
  <2>2. CASE UNCHANGED vars
    BY <1>1, <1>8, <2>2 DEF Enter, Post, DriverOK, Wanes, Succeeded, Delivered
  <2> QED
    BY <1>8, <2>1, <2>2 DEF Enter, Post
<1>9. ASSUME NEW t \in Threads, PollHit(t) PROVE Delivers
  BY <1>9 DEF PollHit, Receive, Delivers, Succeeded, Delivered, TypeOK, LocalsOK
<1>10. ASSUME NEW t \in Threads, PollTimeout(t) \/ UseFreed(t) PROVE Wanes
  BY <1>10, FailureCounts DEF PollTimeout, UseFreed
<1>11. ASSUME NEW t \in Threads, SendStep(t) PROVE Wanes \/ Delivers
  BY <1>8, <1>9, <1>10, <1>11 DEF SendStep
<1> QED
  BY <1>2, <1>3, <1>4, <1>5, <1>6, <1>7, <1>11, LibraryCounts DEF VNext, ThreadStep
-------------------------------------------------------------------------------
(* The counting.                                                           *)

LEMMA CountsFinite ==
    ASSUME IsFiniteSet(Threads), DriverOK
    PROVE  /\ IsFiniteSet(Succeeded) /\ Cardinality(Succeeded) \in Nat
           /\ IsFiniteSet(Delivered) /\ Cardinality(Delivered) \in Nat
           /\ IsFiniteSet(answered) /\ Cardinality(answered) \in 0..MaxCalls
<1>1. IsFiniteSet(Calls) /\ Cardinality(Calls) = MaxCalls
  BY FS_Interval, ClientAssumption DEF Calls
<1>2. Succeeded \subseteq Calls /\ Delivered \subseteq Threads /\ answered \subseteq Calls
  BY DEF Succeeded, Delivered, DriverOK
<1> QED
  BY <1>1, <1>2, FS_Subset, FS_CardinalityType, ClientAssumption

LEMMA LoseOne ==
    ASSUME NEW S, IsFiniteSet(S), NEW e \in S, NEW T, T \subseteq S \ {e}
    PROVE  Cardinality(T) <= Cardinality(S) - 1
<1>1. IsFiniteSet(S \ {e}) /\ Cardinality(S \ {e}) = Cardinality(S) - 1
  BY FS_RemoveElement
<1> QED
  BY <1>1, FS_Subset

LEMMA NextConserved ==
    ASSUME IsFiniteSet(Threads), TypeOK, DriverOK, DriverOK', PostInv, CompletionConserved,
           [VNext]_allVars
    PROVE  CompletionConserved'
<1> DEFINE S == Cardinality(Succeeded)
           D == Cardinality(Delivered)
           A == Cardinality(answered)
<1> SUFFICES S' + D' + p2a' <= A'
  BY DEF CompletionConserved, Succeeded
<1>1. S + D + p2a <= A
  BY DEF CompletionConserved, Succeeded
<1>2. S \in Nat /\ D \in Nat /\ A \in Nat /\ p2a \in Nat
  BY CountsFinite, ClientAssumption DEF DriverOK
<1>3. S' \in Nat /\ D' \in Nat /\ A' \in Nat /\ p2a' \in Nat
  <2>1. IsFiniteSet(Calls)
    BY FS_Interval, ClientAssumption DEF Calls
  <2>2. /\ Succeeded' \subseteq Calls /\ Delivered' \subseteq Threads
        /\ answered' \subseteq Calls
    BY DEF Succeeded, Delivered, DriverOK
  <2> QED
    BY <2>1, <2>2, FS_Subset, FS_CardinalityType DEF DriverOK
<1>4. CASE Wanes
  <2>1. S' <= S /\ D' <= D
    BY <1>4, CountsFinite, FS_Subset DEF Wanes
  <2>2. p2a' <= p2a /\ A' = A
    BY <1>2, <1>4 DEF Wanes
  <2> QED
    BY <1>1, <1>2, <1>3, <2>1, <2>2
<1>5. CASE Delivers
  <2>1. S' <= S /\ D' <= D + 1
    BY <1>5, CountsFinite, FS_Subset, GainOne DEF Delivers
  <2>2. p2a' = p2a - 1 /\ A' = A
    BY <1>5 DEF Delivers
  <2> QED
    BY <1>1, <1>2, <1>3, <2>1, <2>2
<1>6. CASE Succeeds
  <2>1. S' <= S + 1
    BY <1>6, CountsFinite, GainOne DEF Succeeds
  <2>2. D' <= D - 1
    BY <1>6, CountsFinite, LoseOne DEF Succeeds
  <2>3. p2a' = p2a /\ A' = A
    BY <1>6 DEF Succeeds
  <2> QED
    BY <1>1, <1>2, <1>3, <2>1, <2>2, <2>3
<1>7. CASE Answers
  <2>1. S' = S /\ D' = D
    BY <1>7 DEF Answers
  <2>2. A' = A + 1
    BY <1>7, CountsFinite, FS_AddElement DEF Answers
  <2>3. p2a' = p2a + 1
    BY <1>7 DEF Answers
  <2> QED
    BY <1>1, <1>2, <1>3, <2>1, <2>2, <2>3
<1> QED
  BY <1>4, <1>5, <1>6, <1>7, NextCounts

LEMMA InitConserved ==
    ASSUME VInit
    PROVE  CompletionConserved
<1>1. Succeeded = {} /\ Delivered = {} /\ answered = {} /\ p2a = 0
  BY DEF VInit, Init, Succeeded, Delivered, Unfinished
<1>2. Cardinality(Succeeded) = 0 /\ Cardinality(Delivered) = 0 /\ Cardinality(answered) = 0
  BY <1>1, FS_EmptySet
<1> QED
  BY <1>1, <1>2 DEF CompletionConserved, Succeeded

(* One completion ends at most one call: the successes, those about to be  *)
(* one and the completions still queued are never more than the answers    *)
(* the host gave, whatever the callbacks, timeouts and removals of the     *)
(* device do between the poll loops of the threads.                        *)
THEOREM CompletionsCounted ==
    ASSUME IsFiniteSet(Threads)
    PROVE  VSpec => []CompletionConserved
<1>1. VSpec => []TypeOK
  BY LibraryHoldsAboveDriver
<1>2. VInit => DriverOK /\ PostInv /\ CompletionConserved
  BY InitPost, InitConserved
<1>3. TypeOK /\ DriverOK /\ PostInv /\ CompletionConserved /\ [VNext]_allVars
        => (DriverOK /\ PostInv /\ CompletionConserved)'
  BY NextPost, NextConserved
<1> QED
  BY <1>1, <1>2, <1>3, PTL DEF VSpec

(* The types of the driver.  That the completions queued are bounded by    *)
(* the calls made is not a matter of their type: it needs the counting.    *)
THEOREM DriverTypeCorrect ==
    ASSUME IsFiniteSet(Threads)
    PROVE  VSpec => []VTypeOK
<1>1. VSpec => []TypeOK /\ []CompletionConserved
  BY LibraryHoldsAboveDriver, CompletionsCounted
<1>2. VInit => DriverOK /\ PostInv
  BY InitPost
<1>3. TypeOK /\ DriverOK /\ PostInv /\ [VNext]_allVars => (DriverOK /\ PostInv)'
  BY NextPost
<1>4. TypeOK /\ DriverOK /\ CompletionConserved => VTypeOK
  <2> SUFFICES ASSUME TypeOK, DriverOK, CompletionConserved PROVE VTypeOK
    OBVIOUS
  <2>1. p2a <= Cardinality(answered)
    BY CountsFinite, ClientAssumption DEF CompletionConserved, Succeeded, DriverOK
  <2>2. p2a \in 0..MaxCalls
    BY <2>1, CountsFinite, ClientAssumption DEF DriverOK
  <2> QED
    BY <2>2 DEF VTypeOK, DriverOK
<1> QED
  BY <1>1, <1>2, <1>3, <1>4, PTL DEF VSpec

-------------------------------------------------------------------------------
(* One caller whose sends have all been answered in time.                  *)

(* The outcome of a call is recorded when the call returns, not before.    *)
Untold ==
    /\ \A t \in Threads : pc[t] # "idle" => result[call[t]].ret = "none"
    /\ \A c \in Calls : c > calls => result[c].ret = "none"

(* No send has failed or timed out, and the device was probed once.        *)
Punctual == inits <= 1 /\ \A c \in Calls : result[c].ret # "ETRANSPORT"

(* No content that was not written for the call it is taken for.           *)
Clean ==
    /\ \A t \in Threads : got[t] # Garbage
    /\ \A s \in Slots : pending[s].reply # Garbage
    /\ \A c \in Calls : result[c].reply # Garbage

(* Only the call being polled for is on the queues, on one of them.        *)
OneAsked ==
    \A t \in Threads :
        /\ avail # {} \/ p2a > 0 => tx[t] = "poll" /\ avail \subseteq {call[t]}
        /\ p2a > 0 => call[t] \in answered /\ avail = {} /\ p2a = 1

PunctualInv == Punctual => Clean /\ OneAsked

LEMMA ThreadRecords ==
    ASSUME TypeOK, NEW t \in Threads, LibraryStep(t) \/ TransportStep(t)
    PROVE  \/ result' = result
           \/ pc'[t] = "idle" /\ \A c \in Calls : c # call[t] => result'[c] = result[c]
<1> USE DEF TypeOK, LocalsOK, HistoryOK, Goto, Return, table, locals
<1>1. CASE LibraryStep(t)
  BY <1>1 DEF LibraryStep, FetchToken, PutToken, PutLen, Send, StoreReply, StoreDone,
     WakeUp, QueueFault, Wake, Sleep, Expire, Consume, GiveUp, Copy, Release
<1>2. CASE TransportStep(t)
  BY <1>2 DEF TransportStep, SendFail, Fault, Receive
<1> QED
  BY <1>1, <1>2

(* An outcome recorded stays, and none is recorded early.                  *)
LEMMA NextUntold ==
    ASSUME TypeOK, PostInv, Untold, [VNext]_allVars
    PROVE  /\ Untold'
           /\ \A c \in Calls : result[c].ret # "none" => result'[c] = result[c]
<1>1. CASE UNCHANGED vars \/ ClientInit \/ SetTransport
  BY <1>1 DEF vars, table, locals, ClientInit, SetTransport, Untold
<1>2. ASSUME NEW t \in Threads, Refuse(t)
      PROVE  /\ Untold'
             /\ \A c \in Calls : result[c].ret # "none" => result'[c] = result[c]
  <2>1. /\ calls \in Nat /\ calls' = calls + 1 /\ pc' = pc /\ call' = call
        /\ calls' \in Calls /\ Calls \subseteq Int
        /\ \A c \in Calls : c # calls' => result'[c] = result[c]
    BY <1>2, ClientAssumption DEF Refuse, TypeOK, HistoryOK, Calls, table, locals
  <2>2. result[calls'].ret = "none"
    BY <2>1 DEF Untold
  <2>3. \A c \in Calls : result[c].ret # "none" => result'[c] = result[c]
    BY <2>1, <2>2
  <2>4. \A u \in Threads : pc[u] # "idle" => call[u] \in 1..calls /\ call[u] \in Calls
    BY <2>1, ClientAssumption DEF PostInv, Calls
  <2>5. \A u \in Threads : pc[u] # "idle" => call[u] # calls'
    BY <2>1, <2>4
  <2> QED
    BY <2>1, <2>3, <2>4, <2>5 DEF Untold
<1>3. ASSUME NEW t \in Threads, Start(t)
      PROVE  /\ Untold'
             /\ \A c \in Calls : result[c].ret # "none" => result'[c] = result[c]
  <2>1. /\ calls \in Nat /\ calls' = calls + 1 /\ calls' \in Calls /\ Calls \subseteq Int
        /\ result' = result /\ call'[t] = calls'
        /\ \A u \in Threads : u # t => pc'[u] = pc[u] /\ call'[u] = call[u]
    BY <1>3, ClientAssumption DEF Start, Goto, TypeOK, LocalsOK, HistoryOK, Calls
  <2>2. \A u \in Threads : pc'[u] # "idle" => result'[call'[u]].ret = "none"
    BY <2>1 DEF Untold
  <2>3. \A c \in Calls : c > calls' => result'[c].ret = "none"
    BY <2>1 DEF Untold
  <2> QED
    BY <2>1, <2>2, <2>3 DEF Untold
<1>4. ASSUME NEW t \in Threads, LibraryStep(t) \/ TransportStep(t)
      PROVE  /\ Untold'
             /\ \A c \in Calls : result[c].ret # "none" => result'[c] = result[c]
  <2>1. /\ calls' = calls
        /\ \A u \in Threads : u # t => pc'[u] = pc[u] /\ call'[u] = call[u]
        /\ pc'[t] = "idle" \/ (pc[t] # "idle" /\ call'[t] = call[t])
        /\ pc[t] # "idle"
    <3>1. pc[t] # "idle"
      BY <1>4 DEF LibraryStep, FetchToken, PutToken, PutLen, Send, StoreReply,
         StoreDone, WakeUp, QueueFault, Wake, Sleep, Expire, Consume, GiveUp, Copy,
         Release, Goto, Return, TransportStep, SendFail, Fault, Receive
    <3> QED
      BY <1>4, <3>1, LibraryFrame, TransportFrame
  <2>2. /\ calls \in Nat /\ calls <= MaxCalls
        /\ call[t] \in 1..calls
        /\ \A u \in Threads : u # t /\ pc[u] # "idle" => call[u] # call[t]
        /\ \A u \in Threads : pc[u] # "idle" => call[u] \in 1..calls
    BY <2>1, ClientAssumption DEF PostInv, TypeOK, HistoryOK
  <2>3. CASE result' = result
    BY <2>1, <2>3 DEF Untold
  <2>4. CASE pc'[t] = "idle" /\ \A c \in Calls : c # call[t] => result'[c] = result[c]
    <3>1. \A c \in Calls : result[c].ret # "none" => result'[c] = result[c]
      BY <2>1, <2>4 DEF Untold
    <3>2. \A u \in Threads : pc'[u] # "idle" => call'[u] \in Calls /\ call'[u] # call[t]
      BY <2>1, <2>2, <2>4, ClientAssumption DEF Calls
    <3>3. \A u \in Threads : pc'[u] # "idle" => result'[call'[u]].ret = "none"
      BY <2>1, <2>4, <3>2 DEF Untold
    <3>4. \A c \in Calls : c > calls => c # call[t]
      BY <2>2 DEF Calls
    <3> QED
      BY <2>1, <2>4, <3>1, <3>3, <3>4 DEF Untold
  <2> QED
    BY <1>4, <2>3, <2>4, ThreadRecords
<1>5. CASE Next
  BY <1>1, <1>2, <1>3, <1>4, <1>5 DEF Next
<1>6. [Next]_vars
  BY StepSimulates
<1> QED
  BY <1>1, <1>5, <1>6

LEMMA PunctualBefore ==
    ASSUME TypeOK, PostInv, Untold, [VNext]_allVars, Punctual'
    PROVE  Punctual
<1>1. inits <= 1
  <2>1. [Next]_vars
    BY StepSimulates
  <2>2. inits \in Nat /\ inits <= inits' /\ inits' \in Nat
    <3>1. inits \in Nat /\ inits <= inits'
      BY <2>1, InitsGrow
    <3>2. TypeOK'
      BY <2>1, NextTypeOK
    <3> QED
      BY <3>1, <3>2, ClientAssumption DEF TypeOK, TableOK
  <2> QED
    BY <2>2 DEF Punctual
<1>2. \A c \in Calls : result[c].ret # "ETRANSPORT"
  BY NextUntold DEF Punctual
<1> QED
  BY <1>1, <1>2 DEF Punctual

(* A step of the library moves content, and makes none up.                 *)
LEMMA LibraryClean ==
    ASSUME TypeOK, Clean, NEW t \in Threads, LibraryStep(t)
    PROVE  Clean'
<1> USE DEF TypeOK, TableOK, LocalsOK, HistoryOK, SlotTaken, SlotType, Outcome, Clean,
    Goto, Return, table, locals, Blank, Garbage
<1>1. CASE FetchToken(t) \/ Send(t) \/ WakeUp(t) \/ QueueFault(t)
  BY <1>1 DEF FetchToken, Send, WakeUp, QueueFault, EndSend
<1>8. CASE Wake(t) \/ Sleep(t) \/ Expire(t)
  BY <1>8 DEF Wake, Sleep, Expire
<1>2. CASE PutToken(t) \/ PutLen(t) \/ Consume(t)
  BY <1>2 DEF PutToken, PutLen, Consume
<1>3. CASE StoreReply(t)
  BY <1>3 DEF StoreReply
<1>4. CASE StoreDone(t)
  BY <1>4 DEF StoreDone
<1>5. CASE GiveUp(t)
  BY <1>5 DEF GiveUp
<1>6. CASE Copy(t)
  BY <1>6 DEF Copy
<1>7. CASE Release(t)
  BY <1>7 DEF Release
<1> QED
  BY <1>1, <1>2, <1>3, <1>4, <1>5, <1>6, <1>7, <1>8 DEF LibraryStep

(* Nor does a send that fails, or that ends with the answer to its call.   *)
LEMMA SendClean ==
    ASSUME TypeOK, Clean, NEW t \in Threads,
           SendFail(t) \/ Fault(t) \/ Receive(t, call[t])
    PROVE  Clean'
<1> USE DEF TypeOK, TableOK, LocalsOK, HistoryOK, SlotTaken, SlotType, Outcome, Clean,
    Goto, Return, table, locals, Blank, Garbage
<1>1. CASE SendFail(t)
  BY <1>1 DEF SendFail
<1>2. CASE Fault(t)
  BY <1>2 DEF Fault
<1>3. CASE Receive(t, call[t])
  <2>1. call[t] # Garbage
    BY ClientAssumption DEF Calls
  <2> QED
    BY <1>3, <2>1 DEF Receive, EndSend
<1> QED
  BY <1>1, <1>2, <1>3

(* A failed send is recorded as such, so the caller is no longer punctual. *)
LEMMA FailureTold ==
    ASSUME TypeOK, PostInv, NEW t \in Threads, SendFail(t)
    PROVE  ~Punctual'
<1>1. pc[t] = "sending" /\ call[t] \in Calls
  BY ClientAssumption DEF SendFail, Return, Goto, PostInv, TypeOK, HistoryOK, Calls
<1>2. result'[call[t]].ret = "ETRANSPORT"
  BY <1>1 DEF SendFail, Return, TypeOK, HistoryOK
<1> QED
  BY <1>1, <1>2 DEF Punctual

LEMMA NextPunctual ==
    ASSUME NEW t, Threads = {t}, TypeOK, DriverOK, PostInv, Untold, PunctualInv,
           [VNext]_allVars
    PROVE  PunctualInv'
<1> SUFFICES ASSUME Punctual' PROVE Clean' /\ OneAsked'
  BY DEF PunctualInv
<1>0. Clean /\ OneAsked
  BY PunctualBefore DEF PunctualInv
<1> t \in Threads
  OBVIOUS
<1> USE DEF driver
<1>1. CASE UNCHANGED allVars
  BY <1>0, <1>1 DEF allVars, vars, table, locals, Clean, OneAsked
<1>2. CASE ProbeInit
  <2>1. Clean'
    BY <1>0, <1>2 DEF ProbeInit, ClientInit, ZeroSlot, Blank, Garbage, Clean, locals
  <2> QED
    BY <1>0, <1>2, <2>1 DEF ProbeInit, ClientInit, OneAsked, locals
<1>3. CASE ProbeBind \/ ProbePublish \/ RemoveBegin \/ TxCallback
  BY <1>0, <1>3 DEF ProbeBind, ProbePublish, RemoveBegin, TxCallback, SetTransport, Clean,
     OneAsked, vars, table, locals
<1>4. CASE RemoveEnd \/ RxCallback
  BY <1>0, <1>4 DEF RemoveEnd, RxCallback, DriverOK, Clean, OneAsked, vars, table, locals
<1>5. ASSUME NEW c \in avail, HostAnswer(c) PROVE Clean' /\ OneAsked'
  <2>1. Clean'
    BY <1>0, <1>5 DEF HostAnswer, Clean, vars, table, locals
  <2>2. tx[t] = "poll" /\ avail \subseteq {call[t]} /\ p2a = 0
    BY <1>0, <1>5 DEF OneAsked, DriverOK
  <2>3. c = call[t] /\ avail' = {} /\ p2a' = 1 /\ c \in answered'
    BY <1>5, <2>2 DEF HostAnswer
  <2> QED
    BY <1>5, <2>1, <2>2, <2>3 DEF HostAnswer, OneAsked, vars, locals
<1>6. ASSUME Refuse(t) \/ Start(t), UNCHANGED driver PROVE Clean' /\ OneAsked'
  <2>1. Clean'
    BY <1>0, <1>6 DEF Refuse, Start, Goto, ZeroSlot, Blank, Garbage, Clean, TypeOK,
       TableOK, HistoryOK, SlotType, Outcome, table, locals
  <2>2. pc[t] = "idle"
    BY <1>6 DEF Refuse, Start, Goto
  <2>3. avail = {} /\ p2a = 0
    BY <1>0, <2>2 DEF OneAsked, PostInv, DriverOK
  <2> QED
    BY <1>6, <2>1, <2>3 DEF OneAsked
<1>7. ASSUME LibraryStep(t) \/ SendUnbound(t), UNCHANGED driver PROVE Clean' /\ OneAsked'
  <2>1. Clean'
    BY <1>0, <1>7, LibraryClean, SendClean DEF SendUnbound
  <2>2. pc[t] # "sending"
    BY <1>7, LibraryFrame DEF SendUnbound
  <2>3. avail = {} /\ p2a = 0
    BY <1>0, <2>2 DEF OneAsked, PostInv, DriverOK
  <2> QED
    BY <1>7, <2>1, <2>3 DEF OneAsked
<1>8. ASSUME SendStep(t) PROVE Clean' /\ OneAsked'
  <2>1. ~SendFail(t)
    BY FailureTold
  <2>2. CASE Enter(t) \/ UseFreed(t)
    <3>1. tx[t] # "poll"
      BY <2>2 DEF Enter, UseFreed
    <3>2. avail = {} /\ p2a = 0
      BY <1>0, <3>1 DEF OneAsked, DriverOK
    <3>3. Clean'
      <4>1. Fault(t) \/ UNCHANGED vars
        BY <2>1, <2>2 DEF Enter, UseFreed
      <4> QED
        BY <1>0, <4>1, SendClean DEF Clean, vars, table, locals
    <3> QED
      BY <2>2, <3>2, <3>3 DEF Enter, UseFreed, OneAsked
  <2>3. CASE Post(t)
    <3>1. UNCHANGED vars /\ p2a' = p2a /\ tx' = [tx EXCEPT ![t] = "poll"]
          /\ avail' = avail \cup {call[t]} /\ tx[t] = "checked"
      BY <2>1, <2>3 DEF Post
    <3>2. avail = {} /\ p2a = 0
      BY <1>0, <3>1 DEF OneAsked, DriverOK
    <3> QED
      BY <1>0, <3>1, <3>2 DEF Clean, OneAsked, vars, table, locals, DriverOK
  <2>4. CASE PollHit(t)
    <3>1. p2a = 1 /\ p2a' = 0 /\ avail' = {} /\ call[t] \in answered
      BY <1>0, <2>4 DEF PollHit, OneAsked, DriverOK
    <3>2. Clean'
      BY <1>0, <2>4, <3>1, SendClean DEF PollHit
    <3> QED
      BY <3>1, <3>2 DEF OneAsked
  <2> QED
    BY <1>8, <2>1, <2>2, <2>3, <2>4 DEF SendStep, PollTimeout
<1> QED
  BY <1>1, <1>2, <1>3, <1>4, <1>5, <1>6, <1>7, <1>8 DEF VNext, ThreadStep

(* With one calling thread a success carries the answer the host gave to   *)
(* that very call, as long as no send has failed or timed out and the      *)
(* device was probed once: the first late completion is what breaks it, and*)
(* removal of the device, a full ring or the callbacks alone do not.       *)
THEOREM PunctualCallerGetsItsAnswer ==
    ASSUME NEW t, Threads = {t}
    PROVE  VSpec => []PunctualOwnResponse
<1> DEFINE Inv == DriverOK /\ PostInv /\ Untold /\ PunctualInv
<1>1. VSpec => []TypeOK /\ [](OwnReply /\ AnswerNotLost /\ QueuesReady /\ OneSlotPerCall)
  BY LibraryHoldsAboveDriver, SerialCallerAboveDriver
<1>2. VInit => Inv
  <2>1. VInit => Untold /\ PunctualInv
    BY DEF VInit, Init, Untold, PunctualInv, Clean, OneAsked, Unfinished, ZeroSlot, Blank,
       Garbage
  <2> QED
    BY <2>1, InitPost
<1>3. TypeOK /\ Inv /\ [VNext]_allVars => Inv'
  BY NextPost, NextUntold, NextPunctual
<1>4. OwnReply /\ Inv => PunctualOwnResponse
  BY DEF OwnReply, RepliesOwn, PunctualInv, Punctual, Clean, PunctualOwnResponse
<1> QED
  BY <1>1, <1>2, <1>3, <1>4, PTL DEF VSpec
===============================================================================
