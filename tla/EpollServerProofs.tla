-------------------------- MODULE EpollServerProofs --------------------------
(***************************************************************************)
(* Proofs about EpollServer, for any number of channels and requests, any  *)
(* fifo and batch, and either reading of the two parameters.               *)
(***************************************************************************)
EXTENDS EpollServer, WellFoundedInduction, FiniteSetTheorems, TLAPS

-------------------------------------------------------------------------------
(* Type correctness, split by who owns the variables.                      *)

LEMMA ChannelRange == 0 \in Channels /\ -1 \notin Channels
BY EpollAssumption DEF Channels

LEMMA RequestRange == Garbage \notin Requests /\ \A r \in Requests : Stored(r) \in Pointers
BY EpollAssumption DEF Requests, Garbage, Pointers, Stored

LEMMA InitTypeOK == Init => TypeOK
<1> SUFFICES ASSUME Init PROVE TypeOK
  OBVIOUS
<1>0. <<>> \in Seq(Pointers) /\ <<>> \in Seq(Requests)
  OBVIOUS
<1>1. QueueOK
  BY <1>0 DEF Init, QueueOK
<1>4. WorkerOK
  <2>1. cur \in Pointers /\ taken \in 0..Batch
    BY EpollAssumption DEF Init, Pointers
  <2> QED
    BY <2>1 DEF Init, WorkerOK
<1>2. EventOK /\ BellOK
  BY ChannelRange DEF Init, EventOK, BellOK, Pointers
<1>3. HistoryOK
  BY EpollAssumption, ChannelRange DEF Init, HistoryOK, Pointers
<1> QED
  BY <1>1, <1>2, <1>3, <1>4 DEF TypeOK

LEMMA SubmitTypeOK ==
    ASSUME TypeOK, NEW ch \in Channels, Submit(ch)
    PROVE  TypeOK'
<1> USE DEF TypeOK
<1>1. count + 1 \in Requests /\ count' \in 0..MaxRequests
  BY EpollAssumption DEF Submit, HistoryOK, Requests
<1>2. QueueOK'
  <2>1. Append(fifo, Stored(count + 1)) \in Seq(Pointers)
    BY <1>1, RequestRange DEF QueueOK
  <2> QED
    BY <2>1 DEF Submit, QueueOK
<1>3. HistoryOK'
  BY <1>1 DEF Submit, HistoryOK, outcome, Pointers
<1> QED
  BY <1>2, <1>3 DEF Submit, WorkerOK, EventOK, BellOK, worker, bell

LEMMA WorkerTypeOK ==
    ASSUME TypeOK, WorkerStep
    PROVE  TypeOK'
<1> USE DEF TypeOK, event, bell, guest, outcome
<1>1. CASE WorkStart
  BY <1>1 DEF WorkStart, QueueOK, WorkerOK, EventOK, BellOK, HistoryOK
<1>2. CASE Take
  <2>1. Head(fifo) \in Pointers /\ Tail(fifo) \in Seq(Pointers)
    BY <1>2 DEF Take, QueueOK
  <2>2. Head(fifo) # Garbage => Head(fifo) \in Requests
    BY <2>1 DEF Pointers
  <2>3. taken + 1 \in 0..Batch
    BY <1>2, EpollAssumption DEF Take, WorkerOK
  <2> QED
    BY <1>2, <2>1, <2>2, <2>3 DEF Take, QueueOK, WorkerOK, EventOK, BellOK, HistoryOK
<1>3. CASE WorkDone
  BY <1>3, EpollAssumption DEF WorkDone, QueueOK, WorkerOK, EventOK, BellOK, HistoryOK
<1>4. CASE WorkEnd
  BY <1>4 DEF WorkEnd, QueueOK, WorkerOK, EventOK, BellOK, HistoryOK
<1>5. CASE SendRefused
  BY <1>5 DEF SendRefused, QueueOK, WorkerOK, EventOK, BellOK, HistoryOK, Pointers
<1>6. CASE Ring
  <2>1. rung' \in [Channels -> Pointers] /\ db' \in [Channels -> {"clear", "req", "resp"}]
    BY <1>6 DEF Ring, HistoryOK, BellOK, WorkerOK
  <2> QED
    BY <1>6, <2>1 DEF Ring, QueueOK, WorkerOK, EventOK, BellOK, HistoryOK
<1>7. CASE Mark
  BY <1>7 DEF Mark, QueueOK, WorkerOK, EventOK, BellOK, HistoryOK
<1>8. CASE Add
  BY <1>8 DEF Add, QueueOK, WorkerOK, EventOK, BellOK, HistoryOK, Pointers
<1> QED
  BY <1>1, <1>2, <1>3, <1>4, <1>5, <1>6, <1>7, <1>8 DEF WorkerStep

LEMMA SmallestOfNat ==
    ASSUME NEW S \in SUBSET Nat, S # {}
    PROVE  \E i \in S : \A j \in S : i <= j
<1> DEFINE R == {p \in Nat \X Nat : p[1] < p[2]}
<1>1. IsWellFoundedOn(R, Nat)
  BY NatLessThanWellFounded DEF OpToRel
<1>2. \E i \in S : \A j \in S : ~(<<j, i>> \in R)
  <2> HIDE DEF R
  <2> QED
    BY <1>1, WFMin
<1>3. PICK i \in S : \A j \in S : ~(<<j, i>> \in R)
  BY <1>2
<1>4. ASSUME NEW j \in S PROVE i <= j
  <2>1. i \in Nat /\ j \in Nat
    BY <1>3
  <2>2. ~(j < i)
    BY <1>3, <2>1
  <2> QED
    BY <2>1, <2>2
<1> QED
  BY <1>3, <1>4

(* The entry that is matched is in the list, and the list without it is a  *)
(* list.                                                                   *)
LEMMA FirstWaiting ==
    ASSUME QueueOK, NEW ch, Waiting(ch) # {}
    PROVE  /\ First(Waiting(ch)) \in Waiting(ch)
           /\ \A j \in Waiting(ch) : First(Waiting(ch)) <= j
<1>1. Waiting(ch) \in SUBSET Nat
  BY DEF Waiting, QueueOK
<1>2. \E i \in Waiting(ch) : \A j \in Waiting(ch) : i <= j
  BY <1>1, SmallestOfNat
<1> QED
  BY <1>2 DEF First

LEMMA RemoveEntry ==
    ASSUME NEW p \in Seq(Requests), NEW i \in DOMAIN p
    PROVE  /\ RemoveAt(p, i) \in Seq(Requests)
           /\ Len(RemoveAt(p, i)) = Len(p) - 1
           /\ \A j \in 1..Len(p) - 1 :
                 RemoveAt(p, i)[j] = IF j < i THEN p[j] ELSE p[j + 1]
<1>1. p \in Seq(Requests) /\ i \in 1..Len(p) /\ Len(p) \in Nat
  OBVIOUS
<1> DEFINE a == SubSeq(p, 1, i - 1)
           b == SubSeq(p, i + 1, Len(p))
<1>2. a \in Seq(Requests) /\ Len(a) = i - 1 /\ \A j \in 1..i - 1 : a[j] = p[j]
  BY <1>1
<1>3. b \in Seq(Requests) /\ Len(b) = Len(p) - i
      /\ \A j \in 1..Len(p) - i : b[j] = p[j + i]
  BY <1>1
<1> HIDE DEF a, b
<1>4. RemoveAt(p, i) = a \o b
  BY DEF RemoveAt, a, b
<1>5. a \o b \in Seq(Requests) /\ Len(a \o b) = Len(p) - 1
  BY <1>1, <1>2, <1>3
<1>6. ASSUME NEW j \in 1..Len(p) - 1
      PROVE  (a \o b)[j] = IF j < i THEN p[j] ELSE p[j + 1]
  <2>1. (a \o b)[j] = IF j <= i - 1 THEN a[j] ELSE b[j - (i - 1)]
    BY <1>1, <1>2, <1>3
  <2>2. CASE j < i
    BY <1>1, <1>2, <2>1, <2>2
  <2>3. CASE ~(j < i)
    <3>1. j - (i - 1) \in 1..Len(p) - i /\ (j - (i - 1)) + i = j + 1
      BY <1>1, <2>3
    <3>2. b[j - (i - 1)] = p[(j - (i - 1)) + i]
      BY <1>3, <3>1
    <3> QED
      BY <1>1, <2>1, <2>3, <3>1, <3>2
  <2> QED
    BY <2>2, <2>3
<1> QED
  BY <1>4, <1>5, <1>6

LEMMA EventTypeOK ==
    ASSUME TypeOK, EventStep
    PROVE  TypeOK'
<1> USE DEF TypeOK, worker, bell, guest, outcome
<1>0. ASSUME NextChannel PROVE epc' \in {"idle", "poll"} /\ ech' \in Channels
  BY <1>0, ChannelRange DEF NextChannel
<1>1. CASE Kick
  BY <1>1 DEF Kick, QueueOK, WorkerOK, EventOK, BellOK, HistoryOK
<1>2. CASE Event
  BY <1>2, ChannelRange DEF Event, QueueOK, WorkerOK, EventOK, BellOK, HistoryOK
<1>3. CASE PollTimeout
  BY <1>3, <1>0 DEF PollTimeout, QueueOK, WorkerOK, EventOK, BellOK, HistoryOK
<1>4. CASE PollClear
  BY <1>4 DEF PollClear, QueueOK, WorkerOK, EventOK, BellOK, HistoryOK, Pointers
<1>5. CASE Unmark
  BY <1>5 DEF Unmark, QueueOK, WorkerOK, EventOK, BellOK, HistoryOK
<1>6. CASE Match
  <2>1. pending' \in Seq(Requests) /\ endedBy' \in [Requests -> Pointers \cup {NoTurn}]
    <3>1. CASE Waiting(ech) = {}
      BY <1>6, <3>1 DEF Match, QueueOK, HistoryOK
    <3>2. CASE Waiting(ech) # {}
      <4>1. First(Waiting(ech)) \in DOMAIN pending
        BY <3>2, FirstWaiting DEF Waiting
      <4>2. pending' \in Seq(Requests)
        BY <1>6, <3>2, <4>1, RemoveEntry DEF Match, QueueOK
      <4> QED
        BY <1>6, <3>2, <4>2 DEF Match, EventOK, HistoryOK
    <3> QED
      BY <3>1, <3>2
  <2> QED
    BY <1>6, <1>0, <2>1 DEF Match, QueueOK, WorkerOK, EventOK, BellOK, HistoryOK, Pointers
<1> QED
  BY <1>1, <1>2, <1>3, <1>4, <1>5, <1>6 DEF EventStep

LEMMA FirmwareTypeOK ==
    ASSUME TypeOK, RingBack \/ \E ch \in Channels : Serve(ch)
    PROVE  TypeOK'
<1> USE DEF TypeOK, worker, event, guest, outcome
<1>1. CASE RingBack
  BY <1>1 DEF RingBack, QueueOK, WorkerOK, EventOK, BellOK, HistoryOK, Pointers
<1>2. ASSUME NEW ch \in Channels, Serve(ch) PROVE TypeOK'
  BY <1>2 DEF Serve, QueueOK, WorkerOK, EventOK, BellOK, HistoryOK, Pointers
<1> QED
  BY <1>1, <1>2

LEMMA NextTypeOK == TypeOK /\ [Next]_vars => TypeOK'
<1> SUFFICES ASSUME TypeOK, [Next]_vars PROVE TypeOK'
  OBVIOUS
<1>1. CASE UNCHANGED vars
  BY <1>1 DEF vars, worker, event, bell, guest, outcome, TypeOK, QueueOK, WorkerOK,
     EventOK, BellOK, HistoryOK
<1> QED
  BY <1>1, SubmitTypeOK, WorkerTypeOK, EventTypeOK, FirmwareTypeOK DEF Next

(* The worker's index, the lists and the registers keep their types, for   *)
(* every number of channels and requests and every size of the fifo.       *)
THEOREM TypeCorrect == Spec => []TypeOK
BY InitTypeOK, NextTypeOK, PTL DEF Spec

-------------------------------------------------------------------------------
(* What strands a request.                                                 *)

(* The worker has just seen the fifo empty, unless its batch was full or   *)
(* the event thread has queued a request since: then it has yet to queue   *)
(* the work, or has.                                                       *)
StrandInv ==
    (fifo # <<>> /\ wpc \in {"end", "idle"} /\ ~queued /\ epc # "kick") => full

LEMMA StrandStep == TypeOK /\ StrandInv /\ [Next]_vars => StrandInv'
<1> SUFFICES ASSUME TypeOK, StrandInv, [Next]_vars PROVE StrandInv'
  OBVIOUS
<1> USE DEF StrandInv, worker, event, bell, guest, outcome
<1>1. ASSUME NEW ch \in Channels, Submit(ch) PROVE StrandInv'
  BY <1>1 DEF Submit
<1>2. CASE WorkerStep
  BY <1>2 DEF WorkerStep, WorkStart, Take, WorkDone, WorkEnd, SendRefused, Ring, Mark, Add
<1>3. CASE EventStep
  BY <1>3 DEF EventStep, Kick, Event, PollTimeout, PollClear, Unmark, Match, NextChannel
<1>4. CASE RingBack \/ \E ch \in Channels : Serve(ch)
  BY <1>4 DEF RingBack, Serve
<1>5. CASE UNCHANGED vars
  BY <1>5 DEF vars
<1> QED
  BY <1>1, <1>2, <1>3, <1>4, <1>5 DEF Next

(* For every number of requests and every batch: nothing but a full batch  *)
(* leaves requests in the fifo with no run of the worker to come.          *)
THEOREM OnlyFullBatchStrands == Spec => []StrandedOnlyByFullBatch
<1>1. Init => StrandInv
  BY DEF Init, StrandInv
<1>2. StrandInv => StrandedOnlyByFullBatch
  BY DEF StrandInv, StrandedOnlyByFullBatch, Stranded
<1> QED
  BY <1>1, <1>2, StrandStep, TypeCorrect, PTL DEF Spec

-------------------------------------------------------------------------------
(* What the pending list holds for a channel.                              *)

(* For a list p of requests and their channels c: where the entries of ch  *)
(* are, and that they are none, r alone, or r and then s.                  *)
At(p, c, ch)          == {i \in DOMAIN p : c[p[i]] = ch}
HoldsNone(p, c, ch)   == At(p, c, ch) = {}
HoldsOne(p, c, ch, r) == \E i \in DOMAIN p : At(p, c, ch) = {i} /\ p[i] = r
HoldsTwo(p, c, ch, r, s) ==
    \E i, j \in DOMAIN p : i < j /\ At(p, c, ch) = {i, j} /\ p[i] = r /\ p[j] = s

LEMMA AppendHolds ==
    ASSUME NEW p \in Seq(Requests), NEW c, NEW ch, NEW x \in Requests
    PROVE  /\ c[x] # ch =>
              /\ HoldsNone(p, c, ch) => HoldsNone(Append(p, x), c, ch)
              /\ \A r : HoldsOne(p, c, ch, r) => HoldsOne(Append(p, x), c, ch, r)
              /\ \A r, s : HoldsTwo(p, c, ch, r, s) => HoldsTwo(Append(p, x), c, ch, r, s)
           /\ c[x] = ch =>
              /\ HoldsNone(p, c, ch) => HoldsOne(Append(p, x), c, ch, x)
              /\ \A r : HoldsOne(p, c, ch, r) => HoldsTwo(Append(p, x), c, ch, r, x)
<1> DEFINE q == Append(p, x)
           n == Len(p) + 1
<1>1. /\ Len(p) \in Nat /\ DOMAIN p = 1..Len(p) /\ DOMAIN q = 1..n
      /\ q[n] = x /\ \A i \in 1..Len(p) : q[i] = p[i]
  OBVIOUS
<1> HIDE DEF q
<1>2. DOMAIN q = DOMAIN p \cup {n} /\ n \notin DOMAIN p /\ \A i \in DOMAIN p : i < n
  BY <1>1
<1>3. ASSUME c[x] # ch PROVE At(q, c, ch) = At(p, c, ch)
  BY <1>1, <1>2, <1>3 DEF At
<1>4. ASSUME c[x] = ch PROVE At(q, c, ch) = At(p, c, ch) \cup {n}
  BY <1>1, <1>2, <1>4 DEF At
<1>5. ASSUME c[x] # ch
      PROVE  /\ HoldsNone(p, c, ch) => HoldsNone(q, c, ch)
             /\ \A r : HoldsOne(p, c, ch, r) => HoldsOne(q, c, ch, r)
             /\ \A r, s : HoldsTwo(p, c, ch, r, s) => HoldsTwo(q, c, ch, r, s)
  <2> HIDE DEF n
  <2>1. HoldsNone(p, c, ch) => HoldsNone(q, c, ch)
    BY <1>3, <1>5 DEF HoldsNone
  <2>2. \A r : HoldsOne(p, c, ch, r) => HoldsOne(q, c, ch, r)
    BY <1>1, <1>2, <1>3, <1>5 DEF HoldsOne
  <2>3. \A r, s : HoldsTwo(p, c, ch, r, s) => HoldsTwo(q, c, ch, r, s)
    BY <1>1, <1>2, <1>3, <1>5 DEF HoldsTwo
  <2> QED
    BY <2>1, <2>2, <2>3
<1>6. ASSUME c[x] = ch
      PROVE  /\ HoldsNone(p, c, ch) => HoldsOne(q, c, ch, x)
             /\ \A r : HoldsOne(p, c, ch, r) => HoldsTwo(q, c, ch, r, x)
  <2>1. HoldsNone(p, c, ch) => HoldsOne(q, c, ch, x)
    BY <1>1, <1>2, <1>4, <1>6 DEF HoldsNone, HoldsOne
  <2>2. ASSUME NEW r, HoldsOne(p, c, ch, r) PROVE HoldsTwo(q, c, ch, r, x)
    <3>1. PICK i \in DOMAIN p : At(p, c, ch) = {i} /\ p[i] = r
      BY <2>2 DEF HoldsOne
    <3>2. i \in DOMAIN q /\ n \in DOMAIN q /\ i < n /\ q[i] = r /\ q[n] = x
      BY <1>1, <1>2, <3>1
    <3>3. At(q, c, ch) = {i, n}
      BY <1>4, <1>6, <3>1
    <3> QED
      BY <3>2, <3>3 DEF HoldsTwo
  <2> QED
    BY <2>1, <2>2
<1> QED
  BY <1>5, <1>6 DEF q

LEMMA RemoveHolds ==
    ASSUME NEW p \in Seq(Requests), NEW c, NEW ch, NEW k \in DOMAIN p
    PROVE  /\ c[p[k]] # ch =>
              /\ HoldsNone(p, c, ch) => HoldsNone(RemoveAt(p, k), c, ch)
              /\ \A r : HoldsOne(p, c, ch, r) => HoldsOne(RemoveAt(p, k), c, ch, r)
              /\ \A r, s : HoldsTwo(p, c, ch, r, s) => HoldsTwo(RemoveAt(p, k), c, ch, r, s)
           /\ c[p[k]] = ch /\ (\A j \in At(p, c, ch) : k <= j) =>
              /\ ~HoldsNone(p, c, ch)
              /\ \A r : HoldsOne(p, c, ch, r) =>
                          p[k] = r /\ HoldsNone(RemoveAt(p, k), c, ch)
              /\ \A r, s : HoldsTwo(p, c, ch, r, s) =>
                             p[k] = r /\ HoldsOne(RemoveAt(p, k), c, ch, s)
<1> DEFINE q == RemoveAt(p, k)
           m == Len(p) - 1
           old(j) == IF j < k THEN j ELSE j + 1
           new(i) == IF i < k THEN i ELSE i - 1
<1>1. /\ Len(p) \in Nat /\ DOMAIN p = 1..Len(p) /\ k \in 1..Len(p) /\ DOMAIN q = 1..m
      /\ \A j \in 1..m : q[j] = p[old(j)]
  <2>1. Len(p) \in Nat /\ DOMAIN p = 1..Len(p) /\ k \in 1..Len(p)
    OBVIOUS
  <2>2. q \in Seq(Requests) /\ Len(q) = m
    BY RemoveEntry
  <2>3. \A j \in 1..m : q[j] = p[old(j)]
    BY RemoveEntry
  <2> HIDE DEF q
  <2>4. DOMAIN q = 1..m
    BY <2>2
  <2> QED
    BY <2>1, <2>3, <2>4
<1> HIDE DEF q
<1>2. ASSUME NEW i \in DOMAIN p, i # k
      PROVE  new(i) \in DOMAIN q /\ q[new(i)] = p[i]
  <2>1. new(i) \in 1..m /\ old(new(i)) = i
    BY <1>1, <1>2
  <2> QED
    BY <1>1, <2>1
<1>3. ASSUME NEW j \in DOMAIN q
      PROVE  old(j) \in DOMAIN p /\ old(j) # k /\ new(old(j)) = j /\ q[j] = p[old(j)]
  BY <1>1, <1>3
<1>4. ASSUME NEW i \in DOMAIN p, NEW j \in DOMAIN p, i # k, j # k, i < j
      PROVE  new(i) < new(j)
  BY <1>1, <1>4
<1> HIDE DEF old, new
<1>5. At(q, c, ch) = {new(i) : i \in At(p, c, ch) \ {k}}
  BY <1>2, <1>3 DEF At
<1>6. ASSUME At(p, c, ch) \ {k} = {} PROVE HoldsNone(q, c, ch)
  BY <1>5, <1>6 DEF HoldsNone
<1>7. ASSUME NEW i \in DOMAIN p, At(p, c, ch) \ {k} = {i}
      PROVE  HoldsOne(q, c, ch, p[i])
  <2>1. At(q, c, ch) = {new(i)}
    BY <1>5, <1>7
  <2> QED
    BY <1>2, <1>7, <2>1 DEF HoldsOne
<1>8. ASSUME c[p[k]] # ch
      PROVE  /\ HoldsNone(p, c, ch) => HoldsNone(q, c, ch)
             /\ \A r : HoldsOne(p, c, ch, r) => HoldsOne(q, c, ch, r)
             /\ \A r, s : HoldsTwo(p, c, ch, r, s) => HoldsTwo(q, c, ch, r, s)
  <2>1. k \notin At(p, c, ch)
    BY <1>8 DEF At
  <2>2. HoldsNone(p, c, ch) => HoldsNone(q, c, ch)
    BY <1>6, <2>1 DEF HoldsNone
  <2>3. ASSUME NEW r, HoldsOne(p, c, ch, r) PROVE HoldsOne(q, c, ch, r)
    <3>1. PICK i \in DOMAIN p : At(p, c, ch) = {i} /\ p[i] = r
      BY <2>3 DEF HoldsOne
    <3>2. At(p, c, ch) \ {k} = {i}
      BY <2>1, <3>1
    <3> QED
      BY <1>7, <3>1, <3>2
  <2>4. ASSUME NEW r, NEW s, HoldsTwo(p, c, ch, r, s) PROVE HoldsTwo(q, c, ch, r, s)
    <3>1. PICK i \in DOMAIN p, j \in DOMAIN p :
             i < j /\ At(p, c, ch) = {i, j} /\ p[i] = r /\ p[j] = s
      BY <2>4 DEF HoldsTwo
    <3>2. At(p, c, ch) \ {k} = {i, j} /\ i # k /\ j # k
      BY <2>1, <3>1
    <3>3. At(q, c, ch) = {new(i), new(j)}
      BY <1>5, <3>2
    <3>4. new(i) < new(j)
      BY <1>4, <3>1, <3>2
    <3> QED
      BY <1>2, <3>1, <3>2, <3>3, <3>4 DEF HoldsTwo
  <2> QED
    BY <2>2, <2>3, <2>4
<1>9. ASSUME c[p[k]] = ch, \A j \in At(p, c, ch) : k <= j
      PROVE  /\ ~HoldsNone(p, c, ch)
             /\ \A r : HoldsOne(p, c, ch, r) => p[k] = r /\ HoldsNone(q, c, ch)
             /\ \A r, s : HoldsTwo(p, c, ch, r, s) => p[k] = r /\ HoldsOne(q, c, ch, s)
  <2>1. k \in At(p, c, ch)
    BY <1>9 DEF At
  <2>2. ASSUME NEW r, HoldsOne(p, c, ch, r) PROVE p[k] = r /\ HoldsNone(q, c, ch)
    BY <1>6, <2>1, <2>2 DEF HoldsOne
  <2>3. ASSUME NEW r, NEW s, HoldsTwo(p, c, ch, r, s)
        PROVE  p[k] = r /\ HoldsOne(q, c, ch, s)
    <3>1. PICK i \in DOMAIN p, j \in DOMAIN p :
             i < j /\ At(p, c, ch) = {i, j} /\ p[i] = r /\ p[j] = s
      BY <2>3 DEF HoldsTwo
    <3>2. k <= i /\ (k = i \/ k = j)
      BY <1>9, <2>1, <3>1
    <3>3. k = i
      BY <1>1, <3>1, <3>2
    <3>4. At(p, c, ch) \ {k} = {j}
      BY <1>1, <3>1, <3>3
    <3> QED
      BY <1>7, <3>1, <3>3, <3>4
  <2> QED
    BY <2>1, <2>2, <2>3 DEF HoldsNone
<1> QED
  BY <1>8, <1>9 DEF q

-------------------------------------------------------------------------------
(* One request at a time on an undisturbed channel.                        *)

(* What the two threads hold was submitted, and nothing else has ended.    *)
SubmittedInv ==
    /\ \A i \in DOMAIN fifo : fifo[i] \in 1..count \cup {Garbage}
    /\ \A i \in DOMAIN pending : pending[i] \in 1..count
    /\ cur \in 1..count \cup {Garbage}
    /\ \A r \in Requests : r > count => endedBy[r] = NoTurn

(* The worker has rung the channel and not added the request yet.          *)
Adding(ch) == wpc \in {"mark", "add"} /\ chan[cur] = ch
Rung(ch)   == Adding(ch) /\ (busy[ch] <=> wpc = "add")

(* A request is at the doorbell, or its doorbell was served and nobody     *)
(* polled it since; or neither is.                                         *)
AtBell(ch, r) ==
    \/ rung[ch] = r /\ served[ch] = Garbage
    \/ rung[ch] = Garbage /\ served[ch] = r /\ db[ch] # "req"
BellSilent(ch) == rung[ch] = Garbage /\ served[ch] = Garbage

(* What the event thread has left to do for a channel it polled.           *)
Freeing(ch)  == epc = "unmark" /\ ech = ch
Matching(ch) == epc = "match" /\ ech = ch

(* Free, rung, or waiting for a poll.                                      *)
Unpolled(ch) ==
    /\ ~Freeing(ch) /\ ~Matching(ch)
    /\ \/ ~busy[ch] /\ ~Adding(ch) /\ BellSilent(ch) /\ HoldsNone(pending, chan, ch)
       \/ Rung(ch) /\ AtBell(ch, cur) /\ HoldsNone(pending, chan, ch)
       \/ /\ busy[ch] /\ ~Adding(ch)
          /\ \E r \in Requests : HoldsOne(pending, chan, ch, r) /\ AtBell(ch, r)

(* A poll took its turn; the channel is still busy.                        *)
Polled(ch) ==
    /\ Freeing(ch) /\ busy[ch] /\ ~Adding(ch)
    /\ BellSilent(ch) /\ HoldsOne(pending, chan, ch, turn)

(* The channel was freed before the request is matched, so the worker may  *)
(* have rung it for the next request already, and added that.              *)
Freed(ch) ==
    /\ Matching(ch)
    /\ \/ /\ ~busy[ch] /\ ~Adding(ch)
          /\ BellSilent(ch) /\ HoldsOne(pending, chan, ch, turn)
       \/ Rung(ch) /\ AtBell(ch, cur) /\ HoldsOne(pending, chan, ch, turn)
       \/ /\ busy[ch] /\ ~Adding(ch)
          /\ \E r \in Requests : HoldsTwo(pending, chan, ch, turn, r) /\ AtBell(ch, r)

OneAtATime(ch) == ch \in Disturbed \/ Unpolled(ch) \/ Polled(ch) \/ Freed(ch)

ChannelInv == \A ch \in Channels : OneAtATime(ch)

LEMMA NextSubmitted == TypeOK /\ SubmittedInv /\ [Next]_vars => SubmittedInv'
<1> SUFFICES ASSUME TypeOK, SubmittedInv, [Next]_vars PROVE SubmittedInv'
  OBVIOUS
<1> USE DEF worker, event, bell, guest, outcome
<1>0. fifo \in Seq(Pointers) /\ pending \in Seq(Requests) /\ count \in Nat
  BY EpollAssumption DEF TypeOK, QueueOK, HistoryOK
<1>1. ASSUME NEW ch \in Channels, Submit(ch) PROVE SubmittedInv'
  <2>1. count' = count + 1 /\ 1..count \subseteq 1..count' /\ count' \in 1..count'
    BY <1>0, <1>1 DEF Submit
  <2>2. Stored(count + 1) \in 1..count' \cup {Garbage}
    BY <2>1 DEF Stored
  <2>3. \A i \in DOMAIN fifo' : fifo'[i] \in 1..count' \cup {Garbage}
    <3>1. CASE fifo' = Append(fifo, Stored(count + 1))
      <4>1. /\ DOMAIN fifo' = 1..Len(fifo) + 1 /\ DOMAIN fifo = 1..Len(fifo)
            /\ Len(fifo) \in Nat /\ fifo'[Len(fifo) + 1] = Stored(count + 1)
            /\ \A i \in 1..Len(fifo) : fifo'[i] = fifo[i]
        BY <1>0, <3>1
      <4> QED
        BY <2>1, <2>2, <4>1 DEF SubmittedInv
    <3>2. CASE fifo' = fifo
      BY <2>1, <3>2 DEF SubmittedInv
    <3> QED
      BY <1>1, <3>1, <3>2 DEF Submit
  <2>4. \A r \in Requests : r > count' => r > count
    BY <1>0, <2>1 DEF Requests
  <2> QED
    BY <1>1, <2>1, <2>3, <2>4 DEF Submit, SubmittedInv
<1>2. CASE Take
  <2>1. Head(fifo) = fifo[1] /\ 1 \in DOMAIN fifo
        /\ \A i \in DOMAIN Tail(fifo) : i + 1 \in DOMAIN fifo /\ Tail(fifo)[i] = fifo[i + 1]
    BY <1>0, <1>2 DEF Take
  <2> QED
    BY <1>2, <2>1 DEF Take, SubmittedInv
<1>3. CASE Add
  <2>1. /\ DOMAIN pending' = 1..Len(pending) + 1 /\ DOMAIN pending = 1..Len(pending)
        /\ Len(pending) \in Nat /\ pending'[Len(pending) + 1] = cur
        /\ \A i \in 1..Len(pending) : pending'[i] = pending[i]
    BY <1>0, <1>3 DEF Add
  <2>2. cur \in 1..count
    BY <1>3, RequestRange DEF Add, SubmittedInv, TypeOK, WorkerOK
  <2> QED
    BY <1>3, <2>1, <2>2 DEF Add, SubmittedInv
<1>4. CASE Match
  <2>1. CASE Waiting(ech) = {}
    BY <1>4, <2>1 DEF Match, SubmittedInv
  <2>2. CASE Waiting(ech) # {}
    <3> DEFINE k == First(Waiting(ech))
    <3>1. k \in DOMAIN pending
      BY <2>2, FirstWaiting DEF Waiting, TypeOK
    <3>2. pending' = RemoveAt(pending, k) /\ endedBy' = [endedBy EXCEPT ![pending[k]] = turn]
      BY <1>4, <2>2 DEF Match
    <3> HIDE DEF k
    <3>3. \A i \in DOMAIN pending' : \E j \in DOMAIN pending : pending'[i] = pending[j]
      <4>1. /\ DOMAIN pending' = 1..Len(pending) - 1 /\ DOMAIN pending = 1..Len(pending)
            /\ Len(pending) \in Nat
            /\ \A i \in 1..Len(pending) - 1 :
                  pending'[i] = IF i < k THEN pending[i] ELSE pending[i + 1]
        BY <1>0, <3>1, <3>2, RemoveEntry
      <4>2. ASSUME NEW i \in DOMAIN pending'
            PROVE  \E j \in DOMAIN pending : pending'[i] = pending[j]
        <5>1. i \in DOMAIN pending /\ i + 1 \in DOMAIN pending
          BY <4>1
        <5>2. pending'[i] = pending[i] \/ pending'[i] = pending[i + 1]
          BY <4>1
        <5> QED
          BY <5>1, <5>2
      <4> QED
        BY <4>2
    <3>4. pending[k] \in 1..count
      BY <3>1 DEF SubmittedInv
    <3>5. \A r \in Requests : r > count => endedBy'[r] = NoTurn
      BY <1>0, <3>2, <3>4 DEF SubmittedInv, Requests, TypeOK, HistoryOK
    <3> QED
      BY <1>4, <3>3, <3>5 DEF Match, SubmittedInv
  <2> QED
    BY <2>1, <2>2
<1>5. CASE WorkStart \/ WorkDone \/ WorkEnd \/ SendRefused \/ Ring \/ Mark
  BY <1>5 DEF WorkStart, WorkDone, WorkEnd, SendRefused, Ring, Mark, SubmittedInv
<1>6. CASE Kick \/ Event \/ PollTimeout \/ PollClear \/ Unmark
  BY <1>6 DEF Kick, Event, PollTimeout, PollClear, Unmark, SubmittedInv
<1>7. CASE RingBack \/ \E ch \in Channels : Serve(ch)
  BY <1>7 DEF RingBack, Serve, SubmittedInv
<1>8. CASE UNCHANGED vars
  BY <1>8 DEF vars, SubmittedInv
<1> QED
  BY <1>1, <1>2, <1>3, <1>4, <1>5, <1>6, <1>7, <1>8 DEF Next, WorkerStep, EventStep

(* A step that leaves the channel, and the threads as far as they are      *)
(* concerned with it, as they were.                                        *)
LEMMA ChannelFrame ==
    ASSUME NEW ch \in Channels, OneAtATime(ch),
           Disturbed \subseteq Disturbed',
           busy'[ch] = busy[ch], rung'[ch] = rung[ch], served'[ch] = served[ch],
           db'[ch] = "req" => db[ch] = "req",
           Adding(ch)' <=> Adding(ch),
           Adding(ch) => cur' = cur /\ wpc' = wpc,
           Freeing(ch)' <=> Freeing(ch), Matching(ch)' <=> Matching(ch),
           Freeing(ch) \/ Matching(ch) => turn' = turn,
           HoldsNone(pending, chan, ch) => HoldsNone(pending', chan', ch),
           \A r : HoldsOne(pending, chan, ch, r) => HoldsOne(pending', chan', ch, r),
           \A r, s : HoldsTwo(pending, chan, ch, r, s) => HoldsTwo(pending', chan', ch, r, s)
    PROVE  OneAtATime(ch)'
<1> USE DEF Rung, AtBell, BellSilent
<1>1. CASE ch \in Disturbed
  BY <1>1 DEF OneAtATime
<1>2. CASE Unpolled(ch)
  <2>1. Unpolled(ch)'
    BY <1>2 DEF Unpolled
  <2> QED
    BY <2>1 DEF OneAtATime
<1>3. CASE Polled(ch)
  <2>1. Polled(ch)'
    BY <1>3 DEF Polled
  <2> QED
    BY <2>1 DEF OneAtATime
<1>4. CASE Freed(ch)
  <2>1. Freed(ch)'
    BY <1>4 DEF Freed
  <2> QED
    BY <2>1 DEF OneAtATime
<1> QED
  BY <1>1, <1>2, <1>3, <1>4 DEF OneAtATime

LEMMA SubmitKeepsChannels ==
    ASSUME TypeOK, SubmittedInv, NEW sub \in Channels, Submit(sub),
           NEW ch \in Channels, OneAtATime(ch)
    PROVE  OneAtATime(ch)'
<1> USE DEF worker, bell, outcome
<1>1. \A r \in 1..count : chan'[r] = chan[r]
  <2>1. count \in Nat /\ count + 1 \in Requests /\ 1..count \subseteq Requests
    BY EpollAssumption DEF Submit, TypeOK, HistoryOK, Requests
  <2> QED
    BY <2>1 DEF Submit, TypeOK, HistoryOK
<1>2. pending' = pending /\ At(pending', chan', ch) = At(pending, chan, ch)
  BY <1>1 DEF Submit, SubmittedInv, At
<1>3. /\ HoldsNone(pending, chan, ch) => HoldsNone(pending', chan', ch)
      /\ \A r : HoldsOne(pending, chan, ch, r) => HoldsOne(pending', chan', ch, r)
      /\ \A r, s : HoldsTwo(pending, chan, ch, r, s) => HoldsTwo(pending', chan', ch, r, s)
  BY <1>2 DEF HoldsNone, HoldsOne, HoldsTwo
<1>4. wpc \in {"mark", "add"} => cur \in 1..count
  BY RequestRange DEF SubmittedInv, TypeOK, WorkerOK
<1>5. Adding(ch)' <=> Adding(ch)
  BY <1>1, <1>4 DEF Submit, Adding
<1>6. ~Freeing(ch) /\ ~Matching(ch) /\ ~Freeing(ch)' /\ ~Matching(ch)'
  BY DEF Submit, Freeing, Matching
<1> QED
  BY <1>3, <1>5, <1>6, ChannelFrame DEF Submit, Disturbed

LEMMA WorkerKeepsChannels ==
    ASSUME TypeOK, SubmittedInv, WorkerStep, NEW ch \in Channels, OneAtATime(ch)
    PROVE  OneAtATime(ch)'
<1> USE DEF event, guest
<1>1. ASSUME UNCHANGED <<pending, bell, guest, event, rung, served, early, idle>>,
             Adding(ch)' <=> Adding(ch), Adding(ch) => cur' = cur /\ wpc' = wpc
      PROVE  OneAtATime(ch)'
  BY <1>1, ChannelFrame DEF Disturbed, Freeing, Matching, bell
<1>2. CASE WorkStart \/ Take \/ WorkDone \/ WorkEnd \/ SendRefused
  <2>1. ~Adding(ch) /\ ~Adding(ch)'
    BY <1>2 DEF WorkStart, Take, WorkDone, WorkEnd, SendRefused, Adding
  <2> QED
    BY <1>1, <1>2, <2>1 DEF WorkStart, Take, WorkDone, WorkEnd, SendRefused, outcome
<1>3. CASE Ring
  <2>1. ~Adding(ch) /\ UNCHANGED <<pending, event, guest, early, idle, busy, served, cur>>
        /\ wpc' = "mark" /\ cur \in Requests /\ chan[cur] \in Channels
    BY <1>3 DEF Ring, Adding, outcome, TypeOK, WorkerOK, HistoryOK
  <2>2. CASE chan[cur] # ch
    <3>1. ~Adding(ch)' /\ rung'[ch] = rung[ch] /\ db'[ch] = db[ch]
      BY <1>3, <2>1, <2>2 DEF Ring, Adding, TypeOK, HistoryOK, BellOK
    <3> QED
      BY <2>1, <3>1, ChannelFrame DEF Disturbed, Freeing, Matching
  <2>3. CASE chan[cur] = ch
    <3>1. ~busy[ch] /\ rung'[ch] = cur /\ Adding(ch)'
      BY <1>3, <2>1, <2>3 DEF Ring, Adding, TypeOK, HistoryOK
    <3>2. CASE ch \in Disturbed
      BY <2>1, <3>2 DEF OneAtATime, Disturbed
    <3>3. CASE Unpolled(ch)
      <4>1. Unpolled(ch)'
        BY <2>1, <3>1, <3>3 DEF Unpolled, Rung, AtBell, BellSilent, Freeing, Matching
      <4> QED
        BY <4>1 DEF OneAtATime
    <3>4. CASE Freed(ch)
      <4>1. Freed(ch)'
        BY <2>1, <3>1, <3>4 DEF Freed, Rung, AtBell, BellSilent, Matching
      <4> QED
        BY <4>1 DEF OneAtATime
    <3> QED
      BY <3>1, <3>2, <3>3, <3>4 DEF OneAtATime, Polled
  <2> QED
    BY <2>2, <2>3
<1>4. CASE Mark
  <2>1. UNCHANGED <<pending, event, guest, early, idle, rung, served, db, cur>>
        /\ wpc = "mark" /\ wpc' = "add" /\ cur \in Requests /\ chan[cur] \in Channels
    BY <1>4 DEF Mark, outcome, TypeOK, WorkerOK, HistoryOK
  <2>2. CASE chan[cur] # ch
    <3>1. ~Adding(ch) /\ ~Adding(ch)' /\ busy'[ch] = busy[ch]
      BY <1>4, <2>1, <2>2 DEF Mark, Adding, TypeOK, BellOK
    <3> QED
      BY <2>1, <3>1, ChannelFrame DEF Disturbed, Freeing, Matching
  <2>3. CASE chan[cur] = ch
    <3>1. Adding(ch) /\ Adding(ch)' /\ busy'[ch] = TRUE
      BY <1>4, <2>1, <2>3 DEF Mark, Adding, TypeOK, BellOK
    <3>2. CASE ch \in Disturbed
      BY <2>1, <3>2 DEF OneAtATime, Disturbed
    <3>3. CASE Unpolled(ch)
      <4>1. Unpolled(ch)'
        BY <2>1, <3>1, <3>3 DEF Unpolled, Rung, AtBell, Freeing, Matching
      <4> QED
        BY <4>1 DEF OneAtATime
    <3>4. CASE Freed(ch)
      <4>1. Freed(ch)'
        BY <2>1, <3>1, <3>4 DEF Freed, Rung, AtBell, Matching
      <4> QED
        BY <4>1 DEF OneAtATime
    <3> QED
      BY <3>1, <3>2, <3>3, <3>4 DEF OneAtATime, Polled
  <2> QED
    BY <2>2, <2>3
<1>5. CASE Add
  <2>1. UNCHANGED <<event, guest, early, idle, rung, served, db, busy>>
        /\ wpc = "add" /\ wpc' = "take" /\ cur \in Requests
        /\ pending' = Append(pending, cur) /\ pending \in Seq(Requests) /\ ~Adding(ch)'
    BY <1>5 DEF Add, Adding, bell, outcome, TypeOK, QueueOK, WorkerOK
  <2>2. CASE chan[cur] # ch
    <3>1. ~Adding(ch)
      BY <2>2 DEF Adding
    <3>2. /\ HoldsNone(pending, chan, ch) => HoldsNone(pending', chan', ch)
          /\ \A r : HoldsOne(pending, chan, ch, r) => HoldsOne(pending', chan', ch, r)
          /\ \A r, s : HoldsTwo(pending, chan, ch, r, s)
                         => HoldsTwo(pending', chan', ch, r, s)
      BY <2>1, <2>2, AppendHolds
    <3> QED
      BY <2>1, <3>1, <3>2, ChannelFrame DEF Disturbed, Freeing, Matching
  <2>3. CASE chan[cur] = ch
    <3>1. Adding(ch)
      BY <2>1, <2>3 DEF Adding
    <3>2. /\ HoldsNone(pending, chan, ch) => HoldsOne(pending', chan', ch, cur)
          /\ \A r : HoldsOne(pending, chan, ch, r) => HoldsTwo(pending', chan', ch, r, cur)
      BY <2>1, <2>3, AppendHolds
    <3>3. CASE ch \in Disturbed
      BY <2>1, <3>3 DEF OneAtATime, Disturbed
    <3>4. CASE Unpolled(ch)
      <4>1. Unpolled(ch)'
        BY <2>1, <3>1, <3>2, <3>4 DEF Unpolled, Rung, AtBell, Freeing, Matching
      <4> QED
        BY <4>1 DEF OneAtATime
    <3>5. CASE Freed(ch)
      <4>1. Freed(ch)'
        BY <2>1, <3>1, <3>2, <3>5 DEF Freed, Rung, AtBell, Matching
      <4> QED
        BY <4>1 DEF OneAtATime
    <3> QED
      BY <3>1, <3>3, <3>4, <3>5 DEF OneAtATime, Polled
  <2> QED
    BY <2>2, <2>3
<1> QED
  BY <1>2, <1>3, <1>4, <1>5 DEF WorkerStep

LEMMA EventKeepsChannels ==
    ASSUME TypeOK, EventStep, NEW ch \in Channels, OneAtATime(ch)
    PROVE  OneAtATime(ch)'
<1> USE DEF worker, guest
<1>0. ASSUME NextChannel PROVE ~Freeing(ch)' /\ ~Matching(ch)'
  BY <1>0 DEF NextChannel, Freeing, Matching
<1>1. CASE Kick \/ Event \/ PollTimeout
  <2>1. ~Freeing(ch) /\ ~Matching(ch) /\ ~Freeing(ch)' /\ ~Matching(ch)'
    BY <1>0, <1>1 DEF Kick, Event, PollTimeout, Freeing, Matching
  <2>2. UNCHANGED <<pending, worker, guest, early, idle, rung, served, db, busy>>
    BY <1>1 DEF Kick, Event, PollTimeout, bell, outcome
  <2> QED
    BY <2>1, <2>2, ChannelFrame DEF Disturbed, Adding
<1>2. CASE PollClear
  <2>1. /\ epc = "poll" /\ epc' = "unmark" /\ ech' = ech
        /\ UNCHANGED <<pending, worker, guest, rung, db, busy>>
        /\ Disturbed \subseteq Disturbed' /\ (Adding(ch)' <=> Adding(ch))
    BY <1>2 DEF PollClear, bell, Disturbed, Adding
  <2>2. CASE ch # ech
    <3>1. served'[ch] = served[ch] /\ ~Freeing(ch) /\ ~Matching(ch)
          /\ ~Freeing(ch)' /\ ~Matching(ch)'
      BY <1>2, <2>1, <2>2 DEF PollClear, Freeing, Matching, TypeOK, HistoryOK
    <3> QED
      BY <2>1, <3>1, ChannelFrame
  <2>3. CASE ch = ech
    <3>1. CASE ch \in Disturbed'
      BY <3>1 DEF OneAtATime
    <3>2. CASE ch \notin Disturbed'
      <4>1. served[ch] # Garbage /\ served[ch] # cur /\ turn' = served[ch]
            /\ served'[ch] = Garbage
        BY <1>2, <2>3, <3>2 DEF PollClear, Disturbed, TypeOK, HistoryOK
      <4>2. Unpolled(ch)
        BY <2>1, <3>2 DEF OneAtATime, Polled, Freed, Freeing, Matching
      <4>3. Polled(ch)'
        BY <2>1, <2>3, <4>1, <4>2 DEF Unpolled, Polled, Rung, AtBell, BellSilent, Freeing
      <4> QED
        BY <4>3 DEF OneAtATime
    <3> QED
      BY <3>1, <3>2
  <2> QED
    BY <2>2, <2>3
<1>3. CASE Unmark
  <2>1. /\ epc = "unmark" /\ epc' = "match"
        /\ UNCHANGED <<pending, worker, guest, rung, served, db, ech, turn>>
        /\ Disturbed' = Disturbed /\ (Adding(ch)' <=> Adding(ch))
    BY <1>3 DEF Unmark, Disturbed, outcome, Adding
  <2>2. CASE ch # ech
    <3>1. busy'[ch] = busy[ch] /\ ~Freeing(ch) /\ ~Matching(ch)
          /\ ~Freeing(ch)' /\ ~Matching(ch)'
      BY <1>3, <2>1, <2>2 DEF Unmark, Freeing, Matching, TypeOK, BellOK
    <3> QED
      BY <2>1, <3>1, ChannelFrame
  <2>3. CASE ch = ech
    <3>1. CASE ch \in Disturbed
      BY <2>1, <3>1 DEF OneAtATime
    <3>2. CASE ch \notin Disturbed
      <4>1. Polled(ch)
        BY <2>1, <2>3, <3>2 DEF OneAtATime, Unpolled, Freed, Freeing, Matching
      <4>2. busy'[ch] = FALSE
        BY <1>3, <2>3 DEF Unmark, TypeOK, BellOK
      <4>3. Freed(ch)'
        BY <2>1, <2>3, <4>1, <4>2 DEF Polled, Freed, BellSilent, Matching
      <4> QED
        BY <4>3 DEF OneAtATime
    <3> QED
      BY <3>1, <3>2
  <2> QED
    BY <2>2, <2>3
<1>4. CASE Match
  <2> DEFINE k == First(Waiting(ech))
  <2>1. /\ epc = "match" /\ ~Freeing(ch)' /\ ~Matching(ch)' /\ ~Freeing(ch)
        /\ UNCHANGED <<worker, guest, rung, served, db, busy>>
        /\ Disturbed' = Disturbed /\ (Adding(ch)' <=> Adding(ch))
    BY <1>0, <1>4 DEF Match, Disturbed, bell, Adding, Freeing
  <2>2. Waiting(ech) = At(pending, chan, ech) /\ pending \in Seq(Requests)
    BY DEF Waiting, At, TypeOK, QueueOK
  <2>3. ASSUME Waiting(ech) # {}
        PROVE  /\ k \in DOMAIN pending /\ chan[pending[k]] = ech
               /\ \A j \in At(pending, chan, ech) : k <= j
               /\ pending' = RemoveAt(pending, k)
    BY <1>4, <2>2, <2>3, FirstWaiting DEF Match, Waiting, TypeOK
  <2> HIDE DEF k
  <2>4. CASE ch # ech
    <3>1. /\ HoldsNone(pending, chan, ch) => HoldsNone(pending', chan', ch)
          /\ \A r : HoldsOne(pending, chan, ch, r) => HoldsOne(pending', chan', ch, r)
          /\ \A r, s : HoldsTwo(pending, chan, ch, r, s)
                         => HoldsTwo(pending', chan', ch, r, s)
      <4>1. CASE Waiting(ech) = {}
        BY <1>4, <2>1, <4>1 DEF Match
      <4>2. CASE Waiting(ech) # {}
        <5>1. k \in DOMAIN pending /\ pending \in Seq(Requests) /\ chan[pending[k]] # ch
          BY <2>2, <2>3, <2>4, <4>2
        <5>2. pending' = RemoveAt(pending, k) /\ chan' = chan
          BY <2>1, <2>3, <4>2
        <5> QED
          BY <5>1, <5>2, RemoveHolds
      <4> QED
        BY <4>1, <4>2
    <3>2. ~Matching(ch)
      BY <2>4 DEF Matching
    <3> QED
      BY <2>1, <3>1, <3>2, ChannelFrame
  <2>5. CASE ch = ech
    <3>1. CASE ch \in Disturbed
      BY <2>1, <3>1 DEF OneAtATime
    <3>2. CASE ch \notin Disturbed
      <4>1. Freed(ch)
        BY <2>1, <2>5, <3>2 DEF OneAtATime, Unpolled, Polled, Matching
      <4>2. ~HoldsNone(pending, chan, ch)
        BY <4>1 DEF Freed, HoldsNone, HoldsOne, HoldsTwo
      <4>3. Waiting(ech) # {}
        BY <2>2, <2>5, <4>2 DEF HoldsNone
      <4>4. /\ \A r : HoldsOne(pending, chan, ch, r) => HoldsNone(pending', chan', ch)
            /\ \A r, s : HoldsTwo(pending, chan, ch, r, s)
                           => HoldsOne(pending', chan', ch, s)
        <5>1. /\ k \in DOMAIN pending /\ pending \in Seq(Requests)
              /\ chan[pending[k]] = ch /\ \A j \in At(pending, chan, ch) : k <= j
          BY <2>2, <2>3, <2>5, <4>3
        <5>2. pending' = RemoveAt(pending, k) /\ chan' = chan
          BY <2>1, <2>3, <4>3
        <5> QED
          BY <5>1, <5>2, RemoveHolds
      <4>5. Unpolled(ch)'
        BY <2>1, <4>1, <4>4 DEF Freed, Unpolled, Rung, AtBell, BellSilent
      <4> QED
        BY <4>5 DEF OneAtATime
    <3> QED
      BY <3>1, <3>2
  <2> QED
    BY <2>4, <2>5
<1> QED
  BY <1>1, <1>2, <1>3, <1>4 DEF EventStep

LEMMA FirmwareKeepsChannels ==
    ASSUME TypeOK, RingBack \/ \E srv \in Channels : Serve(srv),
           NEW ch \in Channels, OneAtATime(ch)
    PROVE  OneAtATime(ch)'
<1> USE DEF worker, event, guest, outcome
<1>1. CASE RingBack
  <2>1. db'[ch] = "req" => db[ch] = "req"
    BY <1>1 DEF RingBack, TypeOK, BellOK
  <2> QED
    BY <1>1, <2>1, ChannelFrame DEF RingBack, Disturbed, Adding, Freeing, Matching
<1>2. ASSUME NEW srv \in Channels, Serve(srv) PROVE OneAtATime(ch)'
  <2>1. UNCHANGED <<pending, worker, event, guest, early, idle, busy>>
        /\ (Adding(ch)' <=> Adding(ch)) /\ (Freeing(ch)' <=> Freeing(ch))
        /\ (Matching(ch)' <=> Matching(ch)) /\ Disturbed' = Disturbed
    BY <1>2 DEF Serve, Adding, Freeing, Matching, Disturbed
  <2>2. CASE srv # ch
    <3>1. rung'[ch] = rung[ch] /\ served'[ch] = served[ch] /\ db'[ch] = db[ch]
      BY <1>2, <2>2 DEF Serve, TypeOK, HistoryOK, BellOK
    <3> QED
      BY <2>1, <3>1, ChannelFrame
  <2>3. CASE srv = ch
    <3>1. db[ch] = "req" /\ db'[ch] = "clear" /\ served'[ch] = rung[ch] /\ rung'[ch] = Garbage
      BY <1>2, <2>3 DEF Serve, TypeOK, HistoryOK, BellOK
    <3>2. /\ \A r : AtBell(ch, r) =>
                rung'[ch] = Garbage /\ served'[ch] = r /\ db'[ch] # "req"
          /\ BellSilent(ch) => BellSilent(ch)'
      BY <3>1 DEF AtBell, BellSilent
    <3>3. CASE ch \in Disturbed
      BY <2>1, <3>3 DEF OneAtATime
    <3>4. CASE Unpolled(ch)
      <4>1. Unpolled(ch)'
        BY <2>1, <3>2, <3>4 DEF Unpolled, Rung, AtBell
      <4> QED
        BY <4>1 DEF OneAtATime
    <3>5. CASE Polled(ch)
      <4>1. Polled(ch)'
        BY <2>1, <3>2, <3>5 DEF Polled
      <4> QED
        BY <4>1 DEF OneAtATime
    <3>6. CASE Freed(ch)
      <4>1. Freed(ch)'
        BY <2>1, <3>2, <3>6 DEF Freed, Rung, AtBell
      <4> QED
        BY <4>1 DEF OneAtATime
    <3> QED
      BY <3>3, <3>4, <3>5, <3>6 DEF OneAtATime
  <2> QED
    BY <2>2, <2>3
<1> QED
  BY <1>1, <1>2

LEMMA NextChannelInv == TypeOK /\ SubmittedInv /\ ChannelInv /\ [Next]_vars => ChannelInv'
<1> SUFFICES ASSUME TypeOK, SubmittedInv, ChannelInv, [Next]_vars, NEW ch \in Channels
             PROVE  OneAtATime(ch)'
  BY DEF ChannelInv
<1>0. OneAtATime(ch)
  BY DEF ChannelInv
<1>1. CASE UNCHANGED vars
  BY <1>0, <1>1, ChannelFrame DEF vars, worker, event, bell, guest, outcome, Disturbed,
     Adding, Freeing, Matching
<1> QED
  BY <1>0, <1>1, SubmitKeepsChannels, WorkerKeepsChannels, EventKeepsChannels,
     FirmwareKeepsChannels DEF Next

LEMMA NextOwnTurn ==
    TypeOK /\ SubmittedInv /\ ChannelInv /\ OwnTurnUnlessDisturbed /\ [Next]_vars
        => OwnTurnUnlessDisturbed'
<1> SUFFICES ASSUME TypeOK, SubmittedInv, ChannelInv, OwnTurnUnlessDisturbed, [Next]_vars
             PROVE  OwnTurnUnlessDisturbed'
  OBVIOUS
<1> USE DEF worker, event, bell, guest, outcome
<1>0. count \in Nat /\ 1..count \subseteq Requests
  BY EpollAssumption DEF TypeOK, HistoryOK, Requests
<1>1. ASSUME endedBy' = endedBy, Disturbed \subseteq Disturbed', UNCHANGED guest
      PROVE  OwnTurnUnlessDisturbed'
  BY <1>1 DEF OwnTurnUnlessDisturbed
<1>2. ASSUME NEW ch \in Channels, Submit(ch) PROVE OwnTurnUnlessDisturbed'
  <2>1. count' = count + 1 /\ count + 1 \in Requests /\ endedBy' = endedBy /\ Disturbed' = Disturbed
    BY <1>0, <1>2, EpollAssumption DEF Submit, Disturbed, Requests, TypeOK, HistoryOK
  <2>2. endedBy[count + 1] = NoTurn
    BY <1>0, <2>1 DEF SubmittedInv
  <2>3. \A r \in 1..count' : r \in 1..count \/ r = count + 1
    BY <1>0, <2>1
  <2>4. \A r \in 1..count : chan'[r] = chan[r]
    BY <1>0, <1>2 DEF Submit, TypeOK, HistoryOK
  <2> QED
    BY <2>1, <2>2, <2>3, <2>4 DEF OwnTurnUnlessDisturbed
<1>3. CASE Match
  <2>1. CASE Waiting(ech) = {}
    BY <1>1, <1>3, <2>1 DEF Match, Disturbed
  <2>2. CASE Waiting(ech) # {}
    <3> DEFINE k == First(Waiting(ech))
    <3>1. /\ k \in DOMAIN pending /\ chan[pending[k]] = ech
          /\ \A j \in At(pending, chan, ech) : k <= j
          /\ pending \in Seq(Requests)
      BY <2>2, FirstWaiting DEF Waiting, At, TypeOK, QueueOK
    <3>2. /\ endedBy' = [endedBy EXCEPT ![pending[k]] = turn]
          /\ Disturbed' = Disturbed /\ UNCHANGED guest
      BY <1>3, <2>2 DEF Match, Disturbed
    <3> HIDE DEF k
    <3>3. ech \in Disturbed \/ turn = pending[k]
      <4>1. ech \in Channels /\ OneAtATime(ech) /\ ~Freeing(ech) /\ Matching(ech)
        BY <1>3 DEF Match, ChannelInv, TypeOK, EventOK, Freeing, Matching
      <4>2. \/ ech \in Disturbed
            \/ HoldsOne(pending, chan, ech, turn)
            \/ \E r : HoldsTwo(pending, chan, ech, turn, r)
        BY <4>1 DEF OneAtATime, Unpolled, Polled, Freed
      <4> QED
        BY <3>1, <4>2, RemoveHolds
    <3> QED
      BY <1>0, <3>1, <3>2, <3>3 DEF OwnTurnUnlessDisturbed, TypeOK, HistoryOK
  <2> QED
    BY <2>1, <2>2
<1>4. CASE WorkerStep
  BY <1>1, <1>4 DEF WorkerStep, WorkStart, Take, WorkDone, WorkEnd, SendRefused, Ring, Mark,
     Add, Disturbed
<1>5. CASE Kick \/ Event \/ PollTimeout \/ PollClear \/ Unmark
  BY <1>1, <1>5 DEF Kick, Event, PollTimeout, PollClear, Unmark, Disturbed
<1>6. CASE RingBack \/ \E ch \in Channels : Serve(ch)
  BY <1>1, <1>6 DEF RingBack, Serve, Disturbed
<1>7. CASE UNCHANGED vars
  BY <1>1, <1>7 DEF vars, Disturbed
<1> QED
  BY <1>2, <1>3, <1>4, <1>5, <1>6, <1>7 DEF Next, EventStep

LEMMA InitChannels == Init => SubmittedInv /\ ChannelInv /\ OwnTurnUnlessDisturbed
<1> SUFFICES ASSUME Init PROVE SubmittedInv /\ ChannelInv /\ OwnTurnUnlessDisturbed
  OBVIOUS
<1>1. SubmittedInv
  BY DEF Init, SubmittedInv
<1>2. ASSUME NEW ch \in Channels PROVE Unpolled(ch)
  BY <1>2 DEF Init, Unpolled, Freeing, Matching, Adding, BellSilent, HoldsNone, At
<1>3. OwnTurnUnlessDisturbed
  BY DEF Init, OwnTurnUnlessDisturbed
<1> QED
  BY <1>1, <1>2, <1>3 DEF ChannelInv, OneAtATime

(* For every number of channels and requests: a request is ended by the    *)
(* turn of another only on a channel where the firmware was done too early *)
(* or a poll mistook an idle doorbell for a served one.  That the poll     *)
(* frees the channel before the request is matched mixes up none: the next *)
(* request goes behind the one that is being ended.                        *)
THEOREM UndisturbedEndedByOwn == Spec => []OwnTurnUnlessDisturbed
BY InitChannels, TypeCorrect, NextSubmitted, NextChannelInv, NextOwnTurn, PTL DEF Spec

(* And a channel is busy without a request to wait for only on such a one. *)
THEOREM UndisturbedBusyWaits == Spec => []BusyHasWaiter
<1>1. TypeOK /\ ChannelInv => BusyHasWaiter
  <2> SUFFICES ASSUME TypeOK, ChannelInv, NEW ch \in Channels, busy[ch], ch \notin Disturbed
               PROVE  Waiting(ch) # {} \/ (wpc = "add" /\ chan[cur] = ch)
    BY DEF BusyHasWaiter
  <2>1. Unpolled(ch) \/ Polled(ch) \/ Freed(ch)
    BY DEF ChannelInv, OneAtATime
  <2>2. \A r, s : HoldsOne(pending, chan, ch, r) \/ HoldsTwo(pending, chan, ch, r, s)
                    => Waiting(ch) # {}
    BY DEF HoldsOne, HoldsTwo, At, Waiting
  <2> QED
    BY <2>1, <2>2 DEF Unpolled, Polled, Freed, Rung, Adding
<1> QED
  BY <1>1, InitChannels, TypeCorrect, NextSubmitted, NextChannelInv, PTL DEF Spec
-------------------------------------------------------------------------------
(* Which message the firmware reads.                                       *)

(* The area of a channel holds the message of its latest request.          *)
AreaInv ==
    \A ch \in Channels :
        /\ area[ch] \in 1..count \cup {Garbage}
        /\ area[ch] # Garbage => chan[area[ch]] = ch
        /\ \A r \in 1..count : chan[r] = ch => r <= area[ch]

(* A doorbell that shows a request was rung for one of its channel.        *)
RungInv ==
    \A ch \in Channels :
        /\ db[ch] = "req" => rung[ch] # Garbage
        /\ rung[ch] # Garbage => rung[ch] \in 1..count /\ chan[rung[ch]] = ch

ReadInv == AreaInv /\ RungInv

LEMMA SubmitKeepsRead ==
    ASSUME TypeOK, ReadInv, NEW sub \in Channels, Submit(sub)
    PROVE  ReadInv'
<1>1. /\ count \in Nat /\ count' = count + 1 /\ count + 1 \in Requests
      /\ 1..count \subseteq Requests
      /\ 1..count' = 1..count \cup {count + 1} /\ count + 1 \notin 1..count
  BY EpollAssumption DEF Submit, TypeOK, HistoryOK, Requests
<1>2. chan'[count + 1] = sub /\ \A r \in 1..count : chan'[r] = chan[r]
  BY <1>1 DEF Submit, TypeOK, HistoryOK
<1>3. area'[sub] = count + 1 /\ \A ch \in Channels : ch # sub => area'[ch] = area[ch]
  BY DEF Submit, TypeOK, HistoryOK
<1>4. AreaInv'
  <2> SUFFICES ASSUME NEW ch \in Channels
               PROVE  /\ area'[ch] \in 1..count' \cup {Garbage}
                      /\ area'[ch] # Garbage => chan'[area'[ch]] = ch
                      /\ \A r \in 1..count' : chan'[r] = ch => r <= area'[ch]
    BY DEF AreaInv
  <2>1. CASE ch = sub
    <3>1. \A r \in 1..count' : r <= count + 1
      BY <1>1
    <3> QED
      BY <1>1, <1>2, <1>3, <2>1, <3>1
  <2>2. CASE ch # sub
    BY <1>1, <1>2, <1>3, <2>2 DEF ReadInv, AreaInv
  <2> QED
    BY <2>1, <2>2
<1>5. RungInv'
  BY <1>1, <1>2 DEF Submit, bell, ReadInv, RungInv
<1> QED
  BY <1>4, <1>5 DEF ReadInv

LEMMA NextRead == TypeOK /\ SubmittedInv /\ ReadInv /\ [Next]_vars => ReadInv'
<1> SUFFICES ASSUME TypeOK, SubmittedInv, ReadInv, [Next]_vars PROVE ReadInv'
  OBVIOUS
<1> USE DEF worker, event, bell, guest, outcome
<1>1. ASSUME NEW ch \in Channels, Submit(ch) PROVE ReadInv'
  BY <1>1, SubmitKeepsRead
<1>2. ASSUME UNCHANGED guest PROVE AreaInv'
  BY <1>2 DEF ReadInv, AreaInv
<1>3. ASSUME NEW ch \in Channels, Serve(ch) PROVE ReadInv'
  <2>1. UNCHANGED guest /\ RungInv'
    BY <1>3 DEF Serve, ReadInv, RungInv, TypeOK, BellOK, HistoryOK
  <2> QED
    BY <1>2, <2>1 DEF ReadInv
<1>4. CASE RingBack
  <2>1. UNCHANGED guest /\ RungInv'
    BY <1>4 DEF RingBack, ReadInv, RungInv, TypeOK, BellOK, HistoryOK
  <2> QED
    BY <1>2, <2>1 DEF ReadInv
<1>5. CASE Ring
  <2>1. cur \in 1..count
    BY <1>5, RequestRange DEF Ring, SubmittedInv, TypeOK, WorkerOK
  <2>2. cur # Garbage
    BY <2>1 DEF Garbage
  <2>3. UNCHANGED guest /\ RungInv'
    BY <1>5, <2>1, <2>2 DEF Ring, ReadInv, RungInv, TypeOK, BellOK, HistoryOK
  <2> QED
    BY <1>2, <2>3 DEF ReadInv
<1>6. CASE WorkStart \/ Take \/ WorkDone \/ WorkEnd \/ SendRefused \/ Mark \/ Add
  <2>1. UNCHANGED <<count, chan, area, leaked, db, rung>>
    BY <1>6 DEF WorkStart, Take, WorkDone, WorkEnd, SendRefused, Mark, Add
  <2> QED
    BY <1>2, <2>1 DEF ReadInv, RungInv
<1>7. CASE EventStep
  <2>1. UNCHANGED <<count, chan, area, leaked, db, rung>>
    BY <1>7 DEF EventStep, Kick, Event, PollTimeout, PollClear, Unmark, Match
  <2> QED
    BY <1>2, <2>1 DEF ReadInv, RungInv
<1>8. CASE UNCHANGED vars
  BY <1>8 DEF vars, ReadInv, AreaInv, RungInv
<1> QED
  BY <1>1, <1>3, <1>4, <1>5, <1>6, <1>7, <1>8 DEF Next, WorkerStep

LEMMA ServeReads ==
    ASSUME TypeOK, ReadInv, NEW ch \in Channels, Serve(ch)
    PROVE  /\ fw' = ch /\ rung[ch] \in Requests /\ msg' \in Requests
           /\ chan[rung[ch]] = ch /\ chan'[msg'] = ch /\ rung[ch] <= msg'
<1>1. msg' = area[ch] /\ fw' = ch /\ db[ch] = "req" /\ chan' = chan
  BY DEF Serve, guest
<1>2. rung[ch] \in 1..count /\ chan[rung[ch]] = ch
  BY <1>1 DEF ReadInv, RungInv
<1>3. area[ch] \in 1..count \cup {Garbage} /\ rung[ch] <= area[ch]
  BY <1>2 DEF ReadInv, AreaInv
<1>4. area[ch] # Garbage
  BY <1>2, <1>3 DEF Garbage, TypeOK, HistoryOK
<1>5. 1..count \subseteq Requests
  BY EpollAssumption DEF TypeOK, HistoryOK, Requests
<1> QED
  BY <1>1, <1>2, <1>3, <1>4, <1>5 DEF ReadInv, AreaInv

LEMMA ServeOnly ==
    ASSUME [Next]_vars, fw = -1, NEW ch \in Channels, fw' = ch
    PROVE  Serve(ch)
<1>1. fw' # fw
  BY ChannelRange
<1>2. ~WorkerStep /\ ~EventStep /\ ~(UNCHANGED vars) /\ \A s \in Channels : ~Submit(s)
  BY <1>1 DEF WorkerStep, WorkStart, Take, WorkDone, WorkEnd, SendRefused, Ring, Mark, Add,
     EventStep, Kick, Event, PollTimeout, PollClear, Unmark, Match, Submit, vars, bell
<1>3. ~RingBack
  BY ChannelRange DEF RingBack
<1>4. PICK s \in Channels : Serve(s)
  BY <1>2, <1>3 DEF Next
<1> QED
  BY <1>4 DEF Serve

(* For every number of channels and requests: what the firmware reads for  *)
(* a doorbell is the message of its request or of a later one of the       *)
(* channel, which the guest put over it while the request was queued.      *)
THEOREM LaterMessageReplaces == Spec => ReadsOwnOrLater
<1>1. Init => ReadInv
  BY EpollAssumption DEF Init, ReadInv, AreaInv, RungInv
<1>2. TypeOK /\ ReadInv /\ [Next]_vars =>
        (\A ch \in Channels : (fw = -1 /\ fw' = ch) =>
          /\ rung[ch] \in Requests /\ msg' \in Requests
          /\ chan[rung[ch]] = ch /\ chan'[msg'] = ch
          /\ rung[ch] <= msg')
  BY ServeOnly, ServeReads
<1> QED
  BY <1>1, <1>2, InitChannels, TypeCorrect, NextSubmitted, NextRead, PTL
     DEF Spec, ReadsOwnOrLater

-------------------------------------------------------------------------------
(* Where each request is, and in what order requests move.                 *)

(* What the lists hold, and lists in the order of submission.              *)
Increasing(s) == \A i, j \in DOMAIN s : i < j => s[i] < s[j]

LEMMA AppendList ==
    ASSUME NEW s \in Seq(Requests), NEW x \in Requests
    PROVE  /\ ToSet(Append(s, x)) = ToSet(s) \cup {x}
           /\ Increasing(s) /\ (\A y \in ToSet(s) : y < x) => Increasing(Append(s, x))
<1>1. /\ Len(s) \in Nat /\ DOMAIN s = 1..Len(s)
      /\ DOMAIN Append(s, x) = 1..Len(s) + 1
      /\ Append(s, x)[Len(s) + 1] = x
      /\ \A i \in 1..Len(s) : Append(s, x)[i] = s[i]
  OBVIOUS
<1> DEFINE t == Append(s, x)
           n == Len(s) + 1
<1>2. /\ DOMAIN t = DOMAIN s \cup {n} /\ t[n] = x /\ ~(n < n)
      /\ \A i \in DOMAIN s : t[i] = s[i] /\ i < n /\ ~(n < i)
  BY <1>1
<1> HIDE DEF t, n
<1>3. ToSet(t) = ToSet(s) \cup {x}
  BY <1>2 DEF ToSet
<1>4. ASSUME Increasing(s), \A y \in ToSet(s) : y < x PROVE Increasing(t)
  <2> SUFFICES ASSUME NEW i \in DOMAIN t, NEW j \in DOMAIN t, i < j PROVE t[i] < t[j]
    BY DEF Increasing
  <2>1. i \in DOMAIN s /\ (j \in DOMAIN s \/ j = n)
    BY <1>2
  <2>2. s[i] \in ToSet(s)
    BY <2>1 DEF ToSet
  <2> QED
    BY <1>2, <1>4, <2>1, <2>2 DEF Increasing
<1> QED
  BY <1>3, <1>4 DEF t

LEMMA TakeList ==
    ASSUME NEW s \in Seq(Requests), s # <<>>, Increasing(s)
    PROVE  /\ Head(s) \in Requests /\ Tail(s) \in Seq(Requests)
           /\ ToSet(s) = {Head(s)} \cup ToSet(Tail(s))
           /\ \A y \in ToSet(Tail(s)) : Head(s) < y
           /\ Increasing(Tail(s))
<1> DEFINE t == Tail(s)
<1>1. /\ Len(s) \in Nat /\ DOMAIN s = 1..Len(s) /\ 1 \in DOMAIN s /\ Head(s) = s[1]
      /\ t \in Seq(Requests) /\ DOMAIN t = 1..Len(s) - 1
      /\ \A i \in DOMAIN t : t[i] = s[i + 1]
  OBVIOUS
<1>2. /\ \A i \in DOMAIN t : i + 1 \in DOMAIN s /\ 1 < i + 1
      /\ \A i \in DOMAIN s : i = 1 \/ (i - 1 \in DOMAIN t /\ t[i - 1] = s[i])
      /\ \A i, j \in DOMAIN t : i < j => i + 1 < j + 1
  BY <1>1
<1> HIDE DEF t
<1>3. ToSet(s) = {Head(s)} \cup ToSet(t)
  <2>1. ASSUME NEW y \in ToSet(s) PROVE y = Head(s) \/ y \in ToSet(t)
    BY <1>1, <1>2, <2>1 DEF ToSet
  <2>2. ASSUME NEW y \in ToSet(t) PROVE y \in ToSet(s)
    BY <1>1, <1>2, <2>2 DEF ToSet
  <2>3. Head(s) \in ToSet(s)
    BY <1>1 DEF ToSet
  <2> QED
    BY <2>1, <2>2, <2>3
<1>4. \A y \in ToSet(t) : Head(s) < y
  BY <1>1, <1>2 DEF ToSet, Increasing
<1>5. Increasing(t)
  BY <1>1, <1>2 DEF Increasing
<1> QED
  BY <1>1, <1>3, <1>4, <1>5 DEF t

LEMMA RemoveList ==
    ASSUME NEW s \in Seq(Requests), NEW k \in DOMAIN s, Increasing(s)
    PROVE  /\ RemoveAt(s, k) \in Seq(Requests)
           /\ s[k] \in ToSet(s)
           /\ ToSet(RemoveAt(s, k)) = ToSet(s) \ {s[k]}
           /\ Increasing(RemoveAt(s, k))
<1> DEFINE t == RemoveAt(s, k)
           old(j) == IF j < k THEN j ELSE j + 1
           new(i) == IF i < k THEN i ELSE i - 1
<1>1. /\ Len(s) \in Nat /\ DOMAIN s = 1..Len(s) /\ k \in 1..Len(s)
      /\ t \in Seq(Requests) /\ DOMAIN t = 1..Len(s) - 1
      /\ \A j \in 1..Len(s) - 1 : t[j] = s[old(j)]
  BY RemoveEntry
<1> HIDE DEF t
<1>2. /\ \A j \in DOMAIN t : old(j) \in DOMAIN s /\ old(j) # k
      /\ \A i, j \in DOMAIN t : i < j => old(i) < old(j)
  BY <1>1
<1>3. \A i \in DOMAIN s \ {k} : new(i) \in DOMAIN t /\ old(new(i)) = i
  BY <1>1
<1>4. \A i \in DOMAIN s : i # k => s[i] # s[k]
  <2> SUFFICES ASSUME NEW i \in DOMAIN s, i # k PROVE s[i] # s[k]
    OBVIOUS
  <2>0. s[i] \in Requests /\ s[k] \in Requests /\ (i < k \/ k < i)
    BY <1>1
  <2>1. s[i] \in Nat /\ s[k] \in Nat
    BY <2>0, EpollAssumption DEF Requests
  <2>2. s[i] < s[k] \/ s[k] < s[i]
    BY <2>0 DEF Increasing
  <2> QED
    BY <2>1, <2>2
<1> HIDE DEF old, new
<1>5. ToSet(t) = ToSet(s) \ {s[k]}
  <2>1. ASSUME NEW j \in DOMAIN t PROVE t[j] \in ToSet(s) \ {s[k]}
    BY <1>1, <1>2, <1>4, <2>1 DEF ToSet
  <2>2. ASSUME NEW i \in DOMAIN s, s[i] # s[k] PROVE s[i] \in ToSet(t)
    <3>1. new(i) \in DOMAIN t /\ t[new(i)] = s[i]
      BY <1>1, <1>3, <2>2
    <3> QED
      BY <3>1 DEF ToSet
  <2> QED
    BY <2>1, <2>2 DEF ToSet
<1>6. Increasing(t)
  BY <1>1, <1>2 DEF Increasing
<1> QED
  BY <1>1, <1>5, <1>6 DEF ToSet, t
Held     == ToSet(fifo) \cup ToSet(pending) \cup ({cur} \ {Garbage})
Ended == {r \in Requests : endedBy[r] # NoTurn}

(* A request that is not over is in a list or in the worker's hands, and   *)
(* each request is in one part only.                                       *)
PartsInv ==
    /\ 1..count = Held \cup Ended \cup leaked \cup refused
    /\ Held \cap (Ended \cup leaked \cup refused) = {}
    /\ Ended \cap (leaked \cup refused) = {}
    /\ leaked \cap refused = {}

(* From the head of the pending list through the worker to the tail of the *)
(* fifo, requests stand in the order they were submitted in.               *)
OrderInv ==
    /\ fifo \in Seq(Requests)
    /\ Increasing(fifo) /\ Increasing(pending)
    /\ \A p \in ToSet(pending), q \in ToSet(fifo) : p < q
    /\ cur # Garbage =>
          /\ wpc \in {"send", "mark", "add"}
          /\ \A p \in ToSet(pending) : p < cur
          /\ \A q \in ToSet(fifo) : cur < q

LifeInv == PartsInv /\ OrderInv

LEMMA InitLife == Init => LifeInv
<1> SUFFICES ASSUME Init PROVE LifeInv
  OBVIOUS
<1>1. ToSet(<<>>) = {} /\ Increasing(<<>>) /\ <<>> \in Seq(Requests)
  BY DEF ToSet, Increasing
<1>2. Held = {} /\ Ended = {} /\ 1..count = {}
  BY <1>1 DEF Init, Held, Ended
<1>3. PartsInv
  BY <1>2 DEF Init, PartsInv
<1>4. OrderInv
  BY <1>1 DEF Init, OrderInv
<1> QED
  BY <1>3, <1>4 DEF LifeInv

LEMMA SubmitKeepsLife ==
    ASSUME StoresPointer, TypeOK, LifeInv, NEW ch \in Channels, Submit(ch)
    PROVE  LifeInv'
<1> DEFINE r == count + 1
<1>1. /\ count \in Nat /\ r \in Requests /\ Stored(r) = r /\ count' = r
      /\ 1..count' = 1..count \cup {r} /\ r \notin 1..count
      /\ \A q \in 1..count : q < r
      /\ UNCHANGED <<pending, cur, wpc, endedBy, refused>>
  BY EpollAssumption DEF Submit, Stored, TypeOK, HistoryOK, Requests, worker, outcome
<1> HIDE DEF r
<1>2. ToSet(fifo) \subseteq 1..count /\ ToSet(pending) \subseteq 1..count
      /\ (cur # Garbage => cur \in 1..count) /\ Ended' = Ended
  BY <1>1 DEF LifeInv, PartsInv, Held, Ended
<1>3. CASE fifo' = Append(fifo, r) /\ leaked' = leaked
  <2>1. /\ ToSet(fifo') = ToSet(fifo) \cup {r} /\ fifo' \in Seq(Requests)
        /\ Increasing(fifo')
    BY <1>1, <1>2, <1>3, AppendList DEF LifeInv, OrderInv
  <2>2. Held' = Held \cup {r}
    BY <1>1, <2>1 DEF Held
  <2>3. PartsInv'
    BY <1>1, <1>2, <1>3, <2>2 DEF LifeInv, PartsInv
  <2>4. OrderInv'
    BY <1>1, <1>2, <2>1 DEF LifeInv, OrderInv
  <2> QED
    BY <2>3, <2>4 DEF LifeInv
<1>4. CASE fifo' = fifo /\ leaked' = leaked \cup {r}
  <2>1. Held' = Held
    BY <1>1, <1>4 DEF Held
  <2>2. PartsInv'
    BY <1>1, <1>2, <1>4, <2>1 DEF LifeInv, PartsInv
  <2>3. OrderInv'
    BY <1>1, <1>4 DEF LifeInv, OrderInv
  <2> QED
    BY <2>2, <2>3 DEF LifeInv
<1> QED
  BY <1>1, <1>3, <1>4 DEF Submit, r

(* The steps that leave the lists and the outcomes alone.                  *)
LEMMA LifeFrame ==
    ASSUME LifeInv, UNCHANGED <<fifo, pending, cur, endedBy, leaked, refused, count>>,
           cur # Garbage => wpc' \in {"send", "mark", "add"}
    PROVE  LifeInv'
<1>1. Held' = Held /\ Ended' = Ended
  BY DEF Held, Ended
<1>2. PartsInv'
  BY <1>1 DEF LifeInv, PartsInv
<1>3. OrderInv'
  BY DEF LifeInv, OrderInv
<1> QED
  BY <1>2, <1>3 DEF LifeInv

LEMMA WorkerKeepsLife ==
    ASSUME TypeOK, LifeInv, WorkerStep
    PROVE  LifeInv'
<1> USE DEF event, bell, guest, outcome
<1>0. /\ fifo \in Seq(Requests) /\ pending \in Seq(Requests)
      /\ Garbage \notin Requests
  BY RequestRange DEF LifeInv, OrderInv, TypeOK, QueueOK
<1>1. CASE WorkStart \/ WorkDone \/ WorkEnd \/ Ring \/ Mark
  BY <1>1, LifeFrame DEF WorkStart, WorkDone, WorkEnd, Ring, Mark, LifeInv, OrderInv
<1>2. CASE Take
  <2>1. /\ fifo # <<>> /\ cur = Garbage /\ cur' = Head(fifo) /\ fifo' = Tail(fifo)
        /\ UNCHANGED <<pending, endedBy, leaked, refused, count>>
    BY <1>2 DEF Take, LifeInv, OrderInv
  <2>2. /\ cur' \in Requests /\ fifo' \in Seq(Requests) /\ Increasing(fifo')
        /\ ToSet(fifo) = {cur'} \cup ToSet(fifo')
        /\ \A q \in ToSet(fifo') : cur' < q
    BY <1>0, <2>1, TakeList DEF LifeInv, OrderInv
  <2>3. wpc' = "send" /\ cur' # Garbage
    BY <1>0, <1>2, <2>1, <2>2 DEF Take
  <2>4. Held' = Held /\ Ended' = Ended
    BY <2>1, <2>2, <2>3 DEF Held, Ended
  <2>5. PartsInv'
    BY <2>1, <2>4 DEF LifeInv, PartsInv
  <2>6. OrderInv'
    BY <2>1, <2>2, <2>3 DEF LifeInv, OrderInv
  <2> QED
    BY <2>5, <2>6 DEF LifeInv
<1>3. CASE SendRefused
  <2>1. /\ cur \in Requests /\ cur # Garbage /\ cur' = Garbage /\ refused' = refused \cup {cur}
        /\ UNCHANGED <<fifo, pending, endedBy, leaked, count>>
    BY <1>0, <1>3 DEF SendRefused, TypeOK, WorkerOK
  <2>2. cur \in Held /\ cur \notin ToSet(fifo) /\ cur \notin ToSet(pending)
    <3>1. ~(cur < cur)
      BY <2>1, EpollAssumption DEF Requests
    <3> QED
      BY <2>1, <3>1 DEF Held, LifeInv, OrderInv
  <2>3. Held' = Held \ {cur} /\ Ended' = Ended
    BY <2>1, <2>2 DEF Held, Ended
  <2>4. PartsInv'
    BY <2>1, <2>2, <2>3 DEF LifeInv, PartsInv
  <2>5. OrderInv'
    BY <2>1 DEF LifeInv, OrderInv
  <2> QED
    BY <2>4, <2>5 DEF LifeInv
<1>4. CASE Add
  <2>1. /\ cur \in Requests /\ cur # Garbage /\ cur' = Garbage
        /\ pending' = Append(pending, cur)
        /\ UNCHANGED <<fifo, endedBy, leaked, refused, count>>
    BY <1>0, <1>4 DEF Add, TypeOK, WorkerOK
  <2>2. ToSet(pending') = ToSet(pending) \cup {cur} /\ Increasing(pending')
    BY <1>0, <2>1, AppendList DEF LifeInv, OrderInv
  <2>3. Held' = Held /\ Ended' = Ended
    BY <2>1, <2>2 DEF Held, Ended
  <2>4. PartsInv'
    BY <2>1, <2>3 DEF LifeInv, PartsInv
  <2>5. OrderInv'
    BY <2>1, <2>2 DEF LifeInv, OrderInv
  <2> QED
    BY <2>4, <2>5 DEF LifeInv
<1> QED
  BY <1>1, <1>2, <1>3, <1>4 DEF WorkerStep

LEMMA EventKeepsLife ==
    ASSUME TypeOK, LifeInv, EventStep
    PROVE  LifeInv'
<1> USE DEF worker, bell, guest, outcome
<1>1. CASE Kick \/ Event \/ PollTimeout \/ PollClear \/ Unmark
  BY <1>1, LifeFrame DEF Kick, Event, PollTimeout, PollClear, Unmark, LifeInv, OrderInv
<1>2. CASE Match /\ Waiting(ech) = {}
  BY <1>2, LifeFrame DEF Match, LifeInv, OrderInv
<1>3. CASE Match /\ Waiting(ech) # {}
  <2> DEFINE k == First(Waiting(ech))
             r == pending[k]
  <2>1. k \in DOMAIN pending /\ pending \in Seq(Requests) /\ turn \in Pointers
    BY <1>3, FirstWaiting DEF Waiting, TypeOK, QueueOK, EventOK
  <2>2. /\ pending' = RemoveAt(pending, k) /\ endedBy' = [endedBy EXCEPT ![r] = turn]
        /\ UNCHANGED <<fifo, cur, wpc, leaked, refused, count>>
    BY <1>3 DEF Match
  <2> HIDE DEF k
  <2>3. /\ r \in Requests /\ r \in ToSet(pending)
        /\ ToSet(pending') = ToSet(pending) \ {r} /\ Increasing(pending')
    BY <2>1, <2>2, RemoveList DEF LifeInv, OrderInv
  <2>4. Ended' = Ended \cup {r}
    <3>1. turn # NoTurn
      BY <2>1, EpollAssumption DEF Pointers, Requests, Garbage, NoTurn
    <3> QED
      BY <2>2, <2>3, <3>1 DEF Ended, TypeOK, HistoryOK
  <2>5. r \in Held /\ r \notin ToSet(fifo) /\ (cur # Garbage => r # cur)
    <3>1. ~(r < r)
      BY <2>3, EpollAssumption DEF Requests
    <3> QED
      BY <2>3, <3>1 DEF Held, LifeInv, OrderInv
  <2>6. Held' = Held \ {r}
    BY <2>2, <2>3, <2>5 DEF Held
  <2> HIDE DEF r
  <2>7. PartsInv'
    BY <2>2, <2>4, <2>5, <2>6 DEF LifeInv, PartsInv
  <2>8. OrderInv'
    BY <2>2, <2>3 DEF LifeInv, OrderInv
  <2> QED
    BY <2>7, <2>8 DEF LifeInv
<1> QED
  BY <1>1, <1>2, <1>3 DEF EventStep

LEMMA NextLife ==
    ASSUME StoresPointer
    PROVE  TypeOK /\ LifeInv /\ [Next]_vars => LifeInv'
<1> SUFFICES ASSUME TypeOK, LifeInv, [Next]_vars PROVE LifeInv'
  OBVIOUS
<1>1. CASE RingBack \/ \E ch \in Channels : Serve(ch)
  BY <1>1, LifeFrame DEF RingBack, Serve, worker, guest, outcome, LifeInv, OrderInv
<1>2. CASE UNCHANGED vars
  BY <1>2, LifeFrame DEF vars, worker, guest, outcome, LifeInv, OrderInv
<1> QED
  BY <1>1, <1>2, SubmitKeepsLife, WorkerKeepsLife, EventKeepsLife DEF Next
(* Where a list has a request: nowhere, or in one place.                   *)
LEMMA PlaceInList ==
    ASSUME NEW s \in Seq(Requests), Increasing(s), NEW r
    PROVE  /\ r \notin ToSet(s) => {i \in DOMAIN s : s[i] = r} = {}
           /\ r \in ToSet(s) => \E k : {i \in DOMAIN s : s[i] = r} = {k}
<1>1. ASSUME r \notin ToSet(s) PROVE {i \in DOMAIN s : s[i] = r} = {}
  BY <1>1 DEF ToSet
<1>2. ASSUME r \in ToSet(s) PROVE \E k : {i \in DOMAIN s : s[i] = r} = {k}
  <2>1. PICK k \in DOMAIN s : s[k] = r
    BY <1>2 DEF ToSet
  <2>2. ASSUME NEW i \in DOMAIN s, s[i] = r PROVE i = k
    <3>1. s[k] \in Requests /\ (i < k \/ k < i \/ i = k)
      BY <2>1, <2>2
    <3>2. ~(r < r)
      BY <2>1, <3>1, EpollAssumption DEF Requests
    <3> QED
      BY <2>1, <2>2, <3>1, <3>2 DEF Increasing
  <2>3. {i \in DOMAIN s : s[i] = r} = {k}
    BY <2>1, <2>2
  <2> QED
    BY <2>3
<1> QED
  BY <1>1, <1>2

LEMMA LifeOnePlace == TypeOK /\ LifeInv => EachInOnePlace
<1> SUFFICES ASSUME TypeOK, LifeInv, NEW r \in 1..count PROVE Cardinality(Places(r)) = 1
  BY DEF EachInOnePlace
<1> DEFINE F == {i \in DOMAIN fifo : fifo[i] = r}
           P == {i \in DOMAIN pending : pending[i] = r}
<1>1. r \in Requests /\ r # Garbage
  BY EpollAssumption, RequestRange DEF TypeOK, HistoryOK, Requests
<1>2. /\ r \notin ToSet(fifo) => F = {}
      /\ r \in ToSet(fifo) => \E k : F = {k}
      /\ r \notin ToSet(pending) => P = {}
      /\ r \in ToSet(pending) => \E k : P = {k}
  BY PlaceInList DEF LifeInv, OrderInv, TypeOK, QueueOK
<1> HIDE DEF F, P
<1>3. Places(r) = ({"fifo"} \X F) \cup ({"pending"} \X P)
                  \cup ({"worker"} \X ({cur} \cap {r}))
                  \cup ({"ended"} \X {q \in {r} : r \in Ended})
                  \cup ({"leaked"} \X (leaked \cap {r}))
                  \cup ({"refused"} \X (refused \cap {r}))
  BY <1>1 DEF Places, Ended, F, P
<1>4. \/ r \in ToSet(fifo) \/ r \in ToSet(pending) \/ r = cur
      \/ r \in Ended \/ r \in leaked \/ r \in refused
  BY DEF LifeInv, PartsInv, Held
<1>5. /\ r \in ToSet(fifo) => r \notin ToSet(pending) /\ r # cur
      /\ r \in ToSet(pending) => r # cur
  <2>1. ~(r < r)
    BY <1>1, EpollAssumption DEF Requests
  <2> QED
    BY <1>1, <2>1 DEF LifeInv, OrderInv
<1>6. /\ r \in ToSet(fifo) \/ r \in ToSet(pending) \/ r = cur
            => r \notin Ended /\ r \notin leaked /\ r \notin refused
      /\ r \in Ended => r \notin leaked /\ r \notin refused
      /\ r \in leaked => r \notin refused
  BY <1>1 DEF LifeInv, PartsInv, Held
<1>7. \E x : Places(r) = {x}
  <2>1. CASE r \in ToSet(fifo)
    <3>1. PICK k : F = {k}
      BY <1>2, <2>1
    <3>2. Places(r) = {<<"fifo", k>>}
      BY <1>2, <1>3, <1>5, <1>6, <2>1, <3>1
    <3> QED
      BY <3>2
  <2>2. CASE r \in ToSet(pending)
    <3>1. PICK k : P = {k}
      BY <1>2, <2>2
    <3>2. Places(r) = {<<"pending", k>>}
      BY <1>2, <1>3, <1>5, <1>6, <2>2, <3>1
    <3> QED
      BY <3>2
  <2>3. CASE r = cur
    <3>1. Places(r) = {<<"worker", r>>}
      BY <1>2, <1>3, <1>5, <1>6, <2>3
    <3> QED
      BY <3>1
  <2>4. CASE r \in Ended
    <3>1. Places(r) = {<<"ended", r>>}
      BY <1>2, <1>3, <1>5, <1>6, <2>4
    <3> QED
      BY <3>1
  <2>5. CASE r \in leaked
    <3>1. Places(r) = {<<"leaked", r>>}
      BY <1>2, <1>3, <1>5, <1>6, <2>5
    <3> QED
      BY <3>1
  <2>6. CASE r \in refused
    <3>1. Places(r) = {<<"refused", r>>}
      BY <1>2, <1>3, <1>5, <1>6, <2>6
    <3> QED
      BY <3>1
  <2> QED
    BY <1>4, <2>1, <2>2, <2>3, <2>4, <2>5, <2>6
<1> QED
  BY <1>7, FS_Singleton

(* If the fifo holds pointers, as the worker takes it to: for every number *)
(* of channels and requests, every size of the fifo and of the batch, each *)
(* submitted request is in one list, in the worker's hands, or over, once. *)
THEOREM NoRequestLostOrTwice ==
    ASSUME StoresPointer
    PROVE  Spec => []EachInOnePlace
BY InitLife, NextLife, LifeOnePlace, TypeCorrect, PTL DEF Spec
-------------------------------------------------------------------------------
(* The server implements RequestLife.                                      *)

(* What each stage means: no request is "lost".                            *)
StageFacts ==
    \A r \in Requests :
        /\ StageOf[r] = "new" <=> r > count
        /\ StageOf[r] = "leaked" <=> r \in leaked
        /\ StageOf[r] = "refused" <=> r \in refused
        /\ StageOf[r] = "ended" <=> r \in Ended
        /\ StageOf[r] = "taken" <=> r = cur
        /\ StageOf[r] = "pending" <=> r \in ToSet(pending)
        /\ StageOf[r] = "queued" <=> r \in ToSet(fifo)
        /\ StageOf[r] # "lost"

LEMMA StagesMean == TypeOK /\ LifeInv => StageFacts
<1> SUFFICES ASSUME TypeOK, LifeInv, NEW r \in Requests
             PROVE  /\ StageOf[r] = "new" <=> r > count
                    /\ StageOf[r] = "leaked" <=> r \in leaked
                    /\ StageOf[r] = "refused" <=> r \in refused
                    /\ StageOf[r] = "ended" <=> r \in Ended
                    /\ StageOf[r] = "taken" <=> r = cur
                    /\ StageOf[r] = "pending" <=> r \in ToSet(pending)
                    /\ StageOf[r] = "queued" <=> r \in ToSet(fifo)
                    /\ StageOf[r] # "lost"
  BY DEF StageFacts
<1>1. r # Garbage /\ (r \in 1..count <=> ~(r > count)) /\ ~(r < r)
  BY EpollAssumption, RequestRange DEF TypeOK, HistoryOK, Requests
<1>2. \/ /\ r > count /\ r \notin Held /\ r \notin Ended
         /\ r \notin leaked /\ r \notin refused
      \/ /\ ~(r > count) /\ r \in Held /\ r \notin Ended
         /\ r \notin leaked /\ r \notin refused
      \/ /\ ~(r > count) /\ r \notin Held /\ r \in Ended
         /\ r \notin leaked /\ r \notin refused
      \/ /\ ~(r > count) /\ r \notin Held /\ r \notin Ended
         /\ r \in leaked /\ r \notin refused
      \/ /\ ~(r > count) /\ r \notin Held /\ r \notin Ended
         /\ r \notin leaked /\ r \in refused
  BY <1>1 DEF LifeInv, PartsInv
<1>3. /\ r \in Held <=> r \in ToSet(fifo) \/ r \in ToSet(pending) \/ r = cur
      /\ r \in ToSet(fifo) => r \notin ToSet(pending) /\ r # cur
      /\ r \in ToSet(pending) => r # cur
  BY <1>1 DEF LifeInv, OrderInv, Held
<1>4. r \in Ended <=> endedBy[r] # NoTurn
  BY DEF Ended
<1> QED
  BY <1>2, <1>3, <1>4 DEF StageOf

(* A request that moves; the stage of every other is read off what the     *)
(* step leaves alone.                                                      *)
LEMMA OneMoves ==
    ASSUME StageFacts, StageFacts', NEW r \in Requests, NEW from, NEW to,
           StageOf[r] = from, StageOf'[r] = to,
           \A q \in Requests \ {r} : StageOf'[q] = StageOf[q]
    PROVE  Life!Move(r, from, to)
<1>1. StageOf = [q \in Requests |-> StageOf[q]] /\ StageOf' = [q \in Requests |-> StageOf'[q]]
  BY DEF StageOf
<1>2. StageOf' = [StageOf EXCEPT ![r] = to]
  BY <1>1
<1> QED
  BY <1>2 DEF Life!Move

LEMMA NoneMoves ==
    ASSUME UNCHANGED <<fifo, pending, cur, endedBy, leaked, refused, guest>>
    PROVE  UNCHANGED <<StageOf, chan>>
BY DEF StageOf, guest

LEMMA SubmitLife ==
    ASSUME StoresPointer, TypeOK, LifeInv, StageFacts, StageFacts',
           NEW ch \in Channels, Submit(ch)
    PROVE  Life!Next
<1> DEFINE r == count + 1
<1>1. /\ count \in Nat /\ r \in Requests /\ Stored(r) = r /\ count' = r
      /\ chan' = [chan EXCEPT ![r] = ch]
      /\ r > count /\ ~(r > count')
      /\ \A q \in Requests : q < r => ~(q > count)
      /\ \A q \in Requests \ {r} : q > count' <=> q > count
      /\ UNCHANGED <<pending, cur, endedBy, refused>>
  BY EpollAssumption DEF Submit, Stored, TypeOK, HistoryOK, Requests, worker, outcome
<1> HIDE DEF r
<1>2. StageOf[r] = "new" /\ \A q \in Life!Earlier(r) : StageOf[q] # "new"
  BY <1>1 DEF StageFacts, Life!Earlier
<1>3. CASE fifo' = Append(fifo, r) /\ leaked' = leaked
  <2>1. ToSet(fifo') = ToSet(fifo) \cup {r}
    BY <1>1, <1>3, AppendList DEF LifeInv, OrderInv
  <2>2. StageOf'[r] = "queued"
    BY <1>1, <2>1 DEF StageFacts
  <2>3. \A q \in Requests \ {r} : StageOf'[q] = StageOf[q]
    BY <1>1, <1>3, <2>1 DEF StageOf
  <2>4. Life!Move(r, "new", "queued")
    BY <1>1, <1>2, <2>2, <2>3, OneMoves
  <2> QED
    BY <1>1, <1>2, <2>4 DEF Life!Next, Life!Submit
<1>4. CASE fifo' = fifo /\ leaked' = leaked \cup {r}
  <2>1. StageOf'[r] = "leaked"
    BY <1>1, <1>4 DEF StageFacts
  <2>2. \A q \in Requests \ {r} : StageOf'[q] = StageOf[q]
    BY <1>1, <1>4 DEF StageOf
  <2>3. Life!Move(r, "new", "leaked")
    BY <1>1, <1>2, <2>1, <2>2, OneMoves
  <2> QED
    BY <1>1, <1>2, <2>3 DEF Life!Next, Life!Submit
<1> QED
  BY <1>1, <1>3, <1>4 DEF Submit, r

LEMMA WorkerLife ==
    ASSUME TypeOK, LifeInv, StageFacts, StageFacts', WorkerStep
    PROVE  Life!Next \/ UNCHANGED <<StageOf, chan>>
<1> USE DEF event, bell, guest, outcome
<1>0. fifo \in Seq(Requests) /\ pending \in Seq(Requests) /\ Garbage \notin Requests
  BY RequestRange DEF LifeInv, OrderInv, TypeOK, QueueOK
<1>1. CASE WorkStart \/ WorkDone \/ WorkEnd \/ Ring \/ Mark
  BY <1>1, NoneMoves DEF WorkStart, WorkDone, WorkEnd, Ring, Mark
<1>2. CASE Take
  <2>1. /\ fifo # <<>> /\ cur = Garbage /\ cur' = Head(fifo) /\ fifo' = Tail(fifo)
        /\ UNCHANGED <<pending, endedBy, leaked, refused, count, chan>>
    BY <1>2 DEF Take, LifeInv, OrderInv
  <2>2. /\ cur' \in Requests
        /\ ToSet(fifo) = {cur'} \cup ToSet(fifo')
        /\ \A q \in ToSet(fifo') : cur' < q
    BY <1>0, <2>1, TakeList DEF LifeInv, OrderInv
  <2>3. StageOf[cur'] = "queued" /\ StageOf'[cur'] = "taken"
    BY <2>2 DEF StageFacts
  <2>4. \A q \in Requests \ {cur'} : StageOf'[q] = StageOf[q]
    BY <1>0, <2>1, <2>2 DEF StageOf
  <2>5. \A q \in Requests : StageOf[q] # "taken"
    BY <1>0, <2>1 DEF StageFacts
  <2>6. \A q \in Life!Earlier(cur') : StageOf[q] # "queued"
    <3>1. ASSUME NEW q \in Requests, q < cur' PROVE q \notin ToSet(fifo)
      <4>1. ~(cur' < q) /\ q # cur'
        BY <2>2, <3>1, EpollAssumption DEF Requests
      <4> QED
        BY <2>2, <4>1
    <3> QED
      BY <3>1 DEF StageFacts, Life!Earlier
  <2>7. Life!Move(cur', "queued", "taken")
    BY <2>2, <2>3, <2>4, OneMoves
  <2>8. Life!Take(cur')
    BY <2>1, <2>5, <2>6, <2>7 DEF Life!Take
  <2> QED
    BY <2>2, <2>8 DEF Life!Next
<1>3. CASE SendRefused
  <2>1. /\ cur \in Requests /\ cur' = Garbage /\ refused' = refused \cup {cur}
        /\ UNCHANGED <<fifo, pending, endedBy, leaked, count, chan>>
    BY <1>3 DEF SendRefused, TypeOK, WorkerOK
  <2>2. StageOf[cur] = "taken" /\ StageOf'[cur] = "refused"
    BY <2>1 DEF StageFacts
  <2>3. \A q \in Requests \ {cur} : StageOf'[q] = StageOf[q]
    BY <1>0, <2>1 DEF StageOf
  <2>4. Life!Move(cur, "taken", "refused")
    BY <2>1, <2>2, <2>3, OneMoves
  <2> QED
    BY <2>1, <2>4 DEF Life!Next, Life!Refuse
<1>4. CASE Add
  <2>1. /\ cur \in Requests /\ cur' = Garbage
        /\ pending' = Append(pending, cur)
        /\ UNCHANGED <<fifo, endedBy, leaked, refused, count, chan>>
    BY <1>4 DEF Add, TypeOK, WorkerOK
  <2>2. ToSet(pending') = ToSet(pending) \cup {cur}
    BY <1>0, <2>1, AppendList
  <2>3. StageOf[cur] = "taken" /\ StageOf'[cur] = "pending"
    BY <2>1, <2>2 DEF StageFacts
  <2>4. \A q \in Requests \ {cur} : StageOf'[q] = StageOf[q]
    BY <1>0, <2>1, <2>2 DEF StageOf
  <2>5. Life!Move(cur, "taken", "pending")
    BY <2>1, <2>3, <2>4, OneMoves
  <2> QED
    BY <2>1, <2>5 DEF Life!Next, Life!Wait
<1> QED
  BY <1>1, <1>2, <1>3, <1>4 DEF WorkerStep

LEMMA EventLife ==
    ASSUME TypeOK, LifeInv, StageFacts, StageFacts', EventStep
    PROVE  Life!Next \/ UNCHANGED <<StageOf, chan>>
<1> USE DEF worker, bell, guest, outcome
<1>1. CASE Kick \/ Event \/ PollTimeout \/ PollClear \/ Unmark
  BY <1>1, NoneMoves DEF Kick, Event, PollTimeout, PollClear, Unmark
<1>2. CASE Match /\ Waiting(ech) = {}
  BY <1>2, NoneMoves DEF Match
<1>3. CASE Match /\ Waiting(ech) # {}
  <2> DEFINE k == First(Waiting(ech))
             r == pending[k]
  <2>1. /\ k \in DOMAIN pending /\ chan[r] = ech /\ pending \in Seq(Requests)
        /\ \A j \in DOMAIN pending : chan[pending[j]] = ech => k <= j
        /\ turn \in Pointers
    BY <1>3, FirstWaiting DEF Waiting, TypeOK, QueueOK, EventOK
  <2>2. /\ pending' = RemoveAt(pending, k) /\ endedBy' = [endedBy EXCEPT ![r] = turn]
        /\ UNCHANGED <<fifo, cur, leaked, refused, count, chan>>
    BY <1>3 DEF Match
  <2> HIDE DEF k
  <2>3. /\ r \in Requests /\ r \in ToSet(pending)
        /\ ToSet(pending') = ToSet(pending) \ {r}
    BY <2>1, <2>2, RemoveList DEF LifeInv, OrderInv
  <2>4. turn # NoTurn
    BY <2>1, EpollAssumption DEF Pointers, Requests, Garbage, NoTurn
  <2>5. StageOf[r] = "pending" /\ StageOf'[r] = "ended"
    BY <2>2, <2>3, <2>4 DEF StageFacts, Ended, TypeOK, HistoryOK
  <2>6. \A q \in Requests \ {r} : StageOf'[q] = StageOf[q]
    BY <2>2, <2>3 DEF StageOf, TypeOK, HistoryOK
  <2>7. \A q \in Life!Earlier(r) : chan[q] = chan[r] => StageOf[q] \in Life!Over
    <3> SUFFICES ASSUME NEW q \in Requests, q < r, chan[q] = chan[r]
                 PROVE  StageOf[q] \in Life!Over
      BY DEF Life!Earlier
    <3>1. q \notin ToSet(fifo) /\ q # cur
      <4>1. ~(r < q) /\ q # Garbage
        BY <2>3, EpollAssumption, RequestRange DEF Requests
      <4> QED
        BY <2>3, <4>1 DEF LifeInv, OrderInv
    <3>2. q \notin ToSet(pending)
      <4> SUFFICES ASSUME NEW j \in DOMAIN pending, pending[j] = q PROVE FALSE
        BY DEF ToSet
      <4>1. k <= j
        BY <2>1
      <4>2. k = j \/ k < j
        BY <2>1, <4>1
      <4>3. r = q \/ r < q
        BY <2>1, <4>2 DEF LifeInv, OrderInv, Increasing
      <4> QED
        BY <2>3, <4>3, EpollAssumption DEF Requests
    <3>3. ~(q > count)
      <4>1. r \in 1..count
        BY <2>3 DEF LifeInv, PartsInv, Held
      <4> QED
        BY <2>3, <4>1, EpollAssumption DEF TypeOK, HistoryOK, Requests
    <3> QED
      BY <3>1, <3>2, <3>3 DEF StageFacts, StageOf, Life!Over
  <2>8. Life!Move(r, "pending", "ended")
    BY <2>3, <2>5, <2>6, OneMoves
  <2>9. Life!Match(r)
    BY <2>2, <2>7, <2>8 DEF Life!Match
  <2> QED
    BY <2>3, <2>9 DEF Life!Next
<1> QED
  BY <1>1, <1>2, <1>3 DEF EventStep

LEMMA StepLife ==
    ASSUME StoresPointer
    PROVE  TypeOK /\ LifeInv /\ StageFacts /\ StageFacts' /\ [Next]_vars
               => [Life!Next]_<<StageOf, chan>>
<1> SUFFICES ASSUME TypeOK, LifeInv, StageFacts, StageFacts', [Next]_vars
             PROVE  Life!Next \/ UNCHANGED <<StageOf, chan>>
  OBVIOUS
<1>1. CASE RingBack \/ \E ch \in Channels : Serve(ch)
  BY <1>1, NoneMoves DEF RingBack, Serve, worker, guest, outcome
<1>2. CASE UNCHANGED vars
  BY <1>2, NoneMoves DEF vars, worker, guest, outcome
<1> QED
  BY <1>1, <1>2, SubmitLife, WorkerLife, EventLife DEF Next

(* If the fifo holds pointers, the server implements RequestLife, for      *)
(* every number of channels and requests: requests are taken in the order  *)
(* they were submitted, and those of a channel are ended in it, though the *)
(* channel is free for the next before the request is matched.             *)
THEOREM ServerKeepsRequestsInOrder ==
    ASSUME StoresPointer
    PROVE  Spec => RequestsLiveInOrder
<1>1. Init => Life!Init
  <2> SUFFICES ASSUME Init PROVE Life!Init
    OBVIOUS
  <2>1. \A r \in Requests : r > count
    BY EpollAssumption DEF Init, Requests
  <2> QED
    BY <2>1, InitTypeOK DEF Init, Life!Init, StageOf, TypeOK, HistoryOK
<1>2. Spec => [](TypeOK /\ LifeInv /\ StageFacts)
  BY InitLife, NextLife, TypeCorrect, StagesMean, PTL DEF Spec
<1>3. Spec => Life!Init /\ [][Life!Next]_<<StageOf, chan>>
  BY <1>1, <1>2, StepLife, PTL DEF Spec
<1> QED
  BY <1>3 DEF RequestsLiveInOrder, Life!Spec

-------------------------------------------------------------------------------
(* The fifo as line 136 fills it.                                          *)

(* No request is pending, refused, ended or at the doorbell.               *)
NoneServed ==
    /\ pending = <<>> /\ refused = {}
    /\ \A r \in Requests : endedBy[r] = NoTurn
    /\ \A ch \in Channels : rung[ch] = Garbage

AsWrittenInv ==
    /\ NoneServed
    /\ \A i \in DOMAIN fifo : fifo[i] = Garbage
    /\ wpc \in {"idle", "take", "end", "fault"}

LEMMA NextAsWritten ==
    ASSUME ~StoresPointer
    PROVE  TypeOK /\ AsWrittenInv /\ [Next]_vars => AsWrittenInv'
<1> SUFFICES ASSUME TypeOK, AsWrittenInv, [Next]_vars PROVE AsWrittenInv'
  OBVIOUS
<1> USE DEF worker, event, bell, guest, outcome, NoneServed
<1>0. fifo \in Seq(Pointers) /\ Garbage \in Pointers
  BY DEF TypeOK, QueueOK, Pointers
<1>1. ASSUME NEW ch \in Channels, Submit(ch) PROVE AsWrittenInv'
  <2>1. Stored(count + 1) = Garbage
    BY DEF Stored
  <2>2. \A i \in DOMAIN Append(fifo, Garbage) : Append(fifo, Garbage)[i] = Garbage
    BY <1>0 DEF AsWrittenInv
  <2> QED
    BY <1>1, <2>1, <2>2 DEF Submit, AsWrittenInv
<1>2. CASE Take
  <2>1. Head(fifo) = Garbage /\ \A i \in DOMAIN Tail(fifo) : Tail(fifo)[i] = Garbage
    BY <1>0, <1>2 DEF Take, AsWrittenInv
  <2> QED
    BY <1>2, <2>1 DEF Take, AsWrittenInv
<1>3. CASE WorkStart \/ WorkDone \/ WorkEnd \/ SendRefused \/ Ring \/ Mark \/ Add
  BY <1>3 DEF WorkStart, WorkDone, WorkEnd, SendRefused, Ring, Mark, Add, AsWrittenInv
<1>4. CASE Kick \/ Event \/ PollTimeout \/ PollClear \/ Unmark \/ Match
  <2>1. Waiting(ech) = {}
    BY DEF AsWrittenInv, Waiting
  <2> QED
    BY <1>4, <2>1 DEF Kick, Event, PollTimeout, PollClear, Unmark, Match, AsWrittenInv
<1>5. CASE RingBack
  BY <1>5 DEF RingBack, AsWrittenInv
<1>6. ASSUME NEW ch \in Channels, Serve(ch) PROVE AsWrittenInv'
  BY <1>6 DEF Serve, AsWrittenInv, TypeOK, HistoryOK
<1>7. CASE UNCHANGED vars
  BY <1>7 DEF vars, AsWrittenInv
<1> QED
  BY <1>1, <1>2, <1>3, <1>4, <1>5, <1>6, <1>7 DEF Next, WorkerStep, EventStep

(* With the first bytes of the request in the fifo in place of a pointer,  *)
(* the server serves no request at all, whatever is submitted: it rings no *)
(* doorbell, refuses nothing and ends nothing.                             *)
THEOREM AsWrittenServesNone ==
    ASSUME ~StoresPointer
    PROVE  Spec => []NoneServed
<1>1. Init => AsWrittenInv
  BY DEF Init, AsWrittenInv, NoneServed
<1>2. AsWrittenInv => NoneServed
  BY DEF AsWrittenInv
<1> QED
  BY <1>1, <1>2, NextAsWritten, TypeCorrect, PTL DEF Spec
===============================================================================
