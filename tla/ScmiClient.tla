------------------------------ MODULE ScmiClient ------------------------------
(***************************************************************************)
(* The SCMI client library of the Android kernel (scmi_client.c): a table  *)
(* of NumSlots pending transactions shared by every thread that calls      *)
(* scmi_do_xact, a token counter, and the completion scmi_rx_complete that *)
(* the transport calls with the token it was given.                        *)
(*                                                                         *)
(* A spin-locked section of the code is one action.  A store made outside  *)
(* the lock is an action of its own, because another thread may run        *)
(* between it and the next one.  The transport is left open: send_fn may   *)
(* fail, may complete its token, or may fault in the caller's context.     *)
(* The only transport of the repository, virtio_scmi.c, completes a token  *)
(* from inside send_fn; VirtioScmi shows that it is one of these.          *)
(***************************************************************************)
EXTENDS Integers, FiniteSets

CONSTANTS Threads,     \* kernel threads that call the library
          NumSlots,    \* SCMI_MAX_PENDING, 16 in the code
          TokenSpace,  \* tokens before the counter wraps, 256 in the code
          MaxCalls,    \* bound: calls made in a behaviour
          MaxInits     \* bound: calls of scmi_client_init in a behaviour

ASSUME ClientAssumption ==
    /\ NumSlots \in Nat \ {0}
    /\ TokenSpace \in Nat \ {0}
    /\ MaxCalls \in Nat
    /\ MaxInits \in Nat

Slots  == 1..NumSlots
Tokens == 0..TokenSpace - 1
Calls  == 1..MaxCalls

None    == 0    \* no slot
Blank   == 0    \* the content of a zeroed buffer
Garbage == -1   \* the content of a buffer nobody filled for this call

(* A response is identified by the call the platform answered with it.     *)
Replies == Calls \cup {Blank, Garbage}

VARIABLES
    bound,      \* g_scmi.send_fn # NULL
    inits,      \* how often scmi_client_init ran
    nextToken,  \* g_scmi.next_token, modulo TokenSpace
    pending,    \* g_scmi.pending: token, in_len as 0 or 1, done, out
    wqs,        \* the slots whose wait queue head is initialised
    pc,         \* where each thread is inside scmi_do_xact
    slot,       \* the local xact of scmi_do_xact
    call,       \* the call a thread is making (0: none)
    inlen,      \* its in_len argument: 0 (none) or 1 (some)
    tok,        \* the token fetched, then the one handed to send_fn
    rx,         \* the local xact of scmi_rx_complete
    got,        \* the response data in the thread's hands
    calls,      \* how many calls were made
    result      \* per call, what scmi_do_xact returned

table  == <<bound, inits, nextToken, pending, wqs>>
locals == <<slot, call, inlen, tok, rx, got>>
vars   == <<table, pc, locals, calls, result>>

ZeroSlot == [token |-> 0, len |-> 0, done |-> FALSE, reply |-> Blank]
Unfinished == [ret |-> "none", reply |-> Blank]

PCs == {"idle", "token", "put", "len", "send", "sending", "found", "stored",
        "waking", "wait", "asleep", "woken", "expired", "copy", "release",
        "giveup", "fault", "oops"}
Rets == {"none", "OK", "ENODEV", "EBUSY", "ETRANSPORT", "ETIMEDOUT"}

SlotType == [token : Tokens, len : {0, 1}, done : BOOLEAN, reply : Replies]
Outcome  == [ret : Rets, reply : Replies]

TableOK ==
    /\ bound \in BOOLEAN
    /\ inits \in 0..MaxInits
    /\ nextToken \in Tokens
    /\ pending \in [Slots -> SlotType]
    /\ wqs \subseteq Slots

LocalsOK ==
    /\ pc \in [Threads -> PCs]
    /\ slot \in [Threads -> Slots \cup {None}]
    /\ call \in [Threads -> Calls \cup {0}]
    /\ inlen \in [Threads -> {0, 1}]
    /\ tok \in [Threads -> Tokens]
    /\ rx \in [Threads -> Slots \cup {None}]
    /\ got \in [Threads -> Replies]

HistoryOK ==
    /\ calls \in 0..MaxCalls
    /\ result \in [Calls -> Outcome]

(* The xact pointer of a thread inside scmi_do_xact is never NULL.         *)
SlotTaken == \A t \in Threads : pc[t] # "idle" => slot[t] \in Slots

TypeOK == TableOK /\ LocalsOK /\ HistoryOK /\ SlotTaken

Init ==
    /\ bound = FALSE
    /\ inits = 0
    /\ nextToken = 0
    /\ pending = [s \in Slots |-> ZeroSlot]
    /\ wqs = {}
    /\ pc = [t \in Threads |-> "idle"]
    /\ slot = [t \in Threads |-> None]
    /\ call = [t \in Threads |-> 0]
    /\ inlen = [t \in Threads |-> 0]
    /\ tok = [t \in Threads |-> 0]
    /\ rx = [t \in Threads |-> None]
    /\ got = [t \in Threads |-> Blank]
    /\ calls = 0
    /\ result = [c \in Calls |-> Unfinished]

Goto(t, from, to) == pc[t] = from /\ pc' = [pc EXCEPT ![t] = to]

(* scmi_do_xact returns: its outcome is recorded, its locals are gone.     *)
Return(t, from, ret, reply) ==
    /\ Goto(t, from, "idle")
    /\ result' = [result EXCEPT ![call[t]] = [ret |-> ret, reply |-> reply]]
    /\ slot' = [slot EXCEPT ![t] = None]
    /\ call' = [call EXCEPT ![t] = 0]
    /\ inlen' = [inlen EXCEPT ![t] = 0]
    /\ tok' = [tok EXCEPT ![t] = 0]
    /\ rx' = [rx EXCEPT ![t] = None]
    /\ got' = [got EXCEPT ![t] = Blank]

Lowest(S) == CHOOSE s \in S : \A r \in S : s <= r

-------------------------------------------------------------------------------
(* The transport driver binds the library.                                 *)

(* scmi_client_init zeroes the whole of g_scmi, the wait queues of the      *)
(* slots included, whatever is in flight.                                  *)
ClientInit ==
    /\ inits < MaxInits
    /\ inits' = inits + 1
    /\ bound' = FALSE
    /\ nextToken' = 0
    /\ pending' = [s \in Slots |-> ZeroSlot]
    /\ wqs' = {}
    /\ UNCHANGED <<pc, locals, calls, result>>

SetTransport ==
    /\ inits > 0
    /\ ~bound
    /\ bound' = TRUE
    /\ UNCHANGED <<inits, nextToken, pending, wqs, pc, locals, calls, result>>

-------------------------------------------------------------------------------
(* scmi_do_xact, up to the transport.                                      *)

(* Mutant of Free: alloc_xact looks at in_len only.                        *)
FreeByLength(s) == pending[s].len = 0

(* Mutant of Free: the scan of alloc_xact ends one slot early.             *)
FreeButLast(s) == s < NumSlots /\ ~pending[s].done /\ pending[s].len = 0

(* What alloc_xact takes for a free slot.                                  *)
Free(s) == ~pending[s].done /\ pending[s].len = 0
FreeSlots == {s \in Slots : Free(s)}

(* A call that is refused at once.                                         *)
Refuse(t) ==
    /\ pc[t] = "idle"
    /\ calls < MaxCalls
    /\ \/ /\ ~bound
          /\ result' = [result EXCEPT ![calls + 1].ret = "ENODEV"]
       \/ /\ bound
          /\ FreeSlots = {}
          /\ result' = [result EXCEPT ![calls + 1].ret = "EBUSY"]
    /\ calls' = calls + 1
    /\ UNCHANGED <<table, pc, locals>>

(* The in_len of the protocol wrappers: none for the requests without      *)
(* arguments (version, attributes, ...), some for the others.  That is all *)
(* the transaction layer tells apart of them.                              *)
InLens == {0, 1}

(* Mutant of Start: the wait queue is not initialised.                     *)
StartNoQueue(t) ==
    /\ Goto(t, "idle", "token")
    /\ calls < MaxCalls
    /\ bound
    /\ FreeSlots # {}
    /\ slot' = [slot EXCEPT ![t] = Lowest(FreeSlots)]
    /\ pending' = [pending EXCEPT ![Lowest(FreeSlots)] = ZeroSlot]
    /\ \E n \in InLens : inlen' = [inlen EXCEPT ![t] = n]
    /\ calls' = calls + 1
    /\ call' = [call EXCEPT ![t] = calls + 1]
    /\ UNCHANGED <<bound, inits, nextToken, wqs, tok, rx, got, result>>

(* alloc_xact zeroes the first free slot, initialises its wait queue and   *)
(* returns it; nothing in the slot says that it is taken.                  *)
Start(t) ==
    /\ Goto(t, "idle", "token")
    /\ calls < MaxCalls
    /\ bound
    /\ FreeSlots # {}
    /\ slot' = [slot EXCEPT ![t] = Lowest(FreeSlots)]
    /\ pending' = [pending EXCEPT ![Lowest(FreeSlots)] = ZeroSlot]
    /\ wqs' = wqs \cup {Lowest(FreeSlots)}
    /\ \E n \in InLens : inlen' = [inlen EXCEPT ![t] = n]
    /\ calls' = calls + 1
    /\ call' = [call EXCEPT ![t] = calls + 1]
    /\ UNCHANGED <<bound, inits, nextToken, tok, rx, got, result>>

(* Mutant of FetchToken: the counter without its mask.                     *)
FetchTokenUnmasked(t) ==
    /\ Goto(t, "token", "put")
    /\ tok' = [tok EXCEPT ![t] = nextToken]
    /\ nextToken' = nextToken + 1
    /\ UNCHANGED <<bound, inits, pending, wqs, slot, call, inlen, rx, got, calls, result>>

FetchToken(t) ==
    /\ Goto(t, "token", "put")
    /\ tok' = [tok EXCEPT ![t] = nextToken]
    /\ nextToken' = (nextToken + 1) % TokenSpace
    /\ UNCHANGED <<bound, inits, pending, wqs, slot, call, inlen, rx, got, calls, result>>

PutToken(t) ==
    /\ Goto(t, "put", "len")
    /\ pending' = [pending EXCEPT ![slot[t]].token = tok[t]]
    /\ UNCHANGED <<bound, inits, nextToken, wqs, locals, calls, result>>

PutLen(t) ==
    /\ Goto(t, "len", "send")
    /\ pending' = [pending EXCEPT ![slot[t]].len = inlen[t]]
    /\ UNCHANGED <<bound, inits, nextToken, wqs, locals, calls, result>>

(* The token handed to the transport is read back from the slot.           *)
Send(t) ==
    /\ Goto(t, "send", "sending")
    /\ bound
    /\ tok' = [tok EXCEPT ![t] = pending[slot[t]].token]
    /\ UNCHANGED <<table, slot, call, inlen, rx, got, calls, result>>

(* send_fn cleared by scmi_client_init under the caller, or a fault inside *)
(* the transport: the thread is lost.                                      *)
Fault(t) ==
    /\ \/ pc[t] = "send" /\ ~bound
       \/ pc[t] = "sending"
    /\ pc' = [pc EXCEPT ![t] = "fault"]
    /\ UNCHANGED <<table, locals, calls, result>>

SendFail(t) ==
    /\ Return(t, "sending", "ETRANSPORT", Blank)
    /\ pending' = [pending EXCEPT ![slot[t]].len = 0]
    /\ UNCHANGED <<bound, inits, nextToken, wqs, calls>>

-------------------------------------------------------------------------------
(* scmi_rx_complete, called by the transport with the caller's token.      *)

(* Mutant of Matches: find_xact_by_token without its test of done.         *)
MatchesDone(t) == {s \in Slots : pending[s].token = tok[t]}

Matches(t) == {s \in Slots : pending[s].token = tok[t] /\ ~pending[s].done}

(* scmi_rx_complete and send_fn return: their locals are gone.             *)
EndSend(t) ==
    /\ tok' = [tok EXCEPT ![t] = 0]
    /\ rx' = [rx EXCEPT ![t] = None]
    /\ got' = [got EXCEPT ![t] = Blank]

(* find_xact_by_token.  An unexpected token is dropped, and send_fn still  *)
(* returns 0.                                                              *)
Receive(t, reply) ==
    /\ pc[t] = "sending"
    /\ \/ /\ Matches(t) # {}
          /\ rx' = [rx EXCEPT ![t] = Lowest(Matches(t))]
          /\ got' = [got EXCEPT ![t] = reply]
          /\ pc' = [pc EXCEPT ![t] = "found"]
          /\ UNCHANGED tok
       \/ /\ Matches(t) = {}
          /\ pc' = [pc EXCEPT ![t] = "wait"]
          /\ EndSend(t)
    /\ UNCHANGED <<table, slot, call, inlen, calls, result>>

(* Mutant of StoreReply: the length test inverted, the payload dropped.    *)
StoreReplyDropped(t) ==
    /\ Goto(t, "found", "stored")
    /\ UNCHANGED <<table, locals, calls, result>>

StoreReply(t) ==
    /\ Goto(t, "found", "stored")
    /\ pending' = [pending EXCEPT ![rx[t]].reply = got[t]]
    /\ UNCHANGED <<bound, inits, nextToken, wqs, locals, calls, result>>

(* Mutant of StoreDone: find_xact_by_token goes on after its first match.  *)
StoreDoneAll(t) ==
    /\ Goto(t, "stored", "waking")
    /\ pending' = [s \in Slots |->
                      IF s \in Matches(t) THEN [pending[s] EXCEPT !.done = TRUE] ELSE pending[s]]
    /\ UNCHANGED <<bound, inits, nextToken, wqs, locals, calls, result>>

StoreDone(t) ==
    /\ Goto(t, "stored", "waking")
    /\ pending' = [pending EXCEPT ![rx[t]].done = TRUE]
    /\ UNCHANGED <<bound, inits, nextToken, wqs, locals, calls, result>>

(* wake_up walks the list of waiters, and send_fn returns.                 *)
WakeUp(t) ==
    /\ Goto(t, "waking", "wait")
    /\ rx[t] \in wqs
    /\ EndSend(t)
    /\ UNCHANGED <<table, slot, call, inlen, calls, result>>

-------------------------------------------------------------------------------
(* scmi_do_xact, from wait_event_interruptible_timeout to its return.      *)

(* A waiter that leaves the queue may link its head again, if the head was *)
(* zeroed under it (the list_del of finish_wait).                          *)
Relinked(t) == wqs' \in {wqs, wqs \cup {slot[t]}}

(* done is looked at before the queue is touched, and after each wakeup.   *)
Wake(t) ==
    /\ \/ Goto(t, "wait", "woken") /\ UNCHANGED wqs
       \/ Goto(t, "asleep", "woken") /\ Relinked(t)
    /\ pending[slot[t]].done
    /\ UNCHANGED <<bound, inits, nextToken, pending, locals, calls, result>>

Sleep(t) ==
    /\ Goto(t, "wait", "asleep")
    /\ ~pending[slot[t]].done
    /\ slot[t] \in wqs
    /\ UNCHANGED <<table, locals, calls, result>>

(* wake_up, or the wait that enters the queue, follows the list head of a  *)
(* slot that alloc_xact has not initialised since scmi_client_init: a null *)
(* pointer, and the thread is lost inside the library.                     *)
QueueFault(t) ==
    /\ \/ pc[t] = "waking" /\ rx[t] \notin wqs
       \/ pc[t] = "wait" /\ ~pending[slot[t]].done /\ slot[t] \notin wqs
    /\ pc' = [pc EXCEPT ![t] = "oops"]
    /\ UNCHANGED <<table, locals, calls, result>>

(* Mutant of Expire: wait_event in place of its timeout variant.           *)
ExpireNever(t) == Goto(t, "asleep", "expired") /\ FALSE /\ UNCHANGED vars

(* The timeout, or a signal; a signal ends the wait also before it sleeps. *)
Expire(t) ==
    /\ \/ Goto(t, "wait", "expired") /\ UNCHANGED wqs
       \/ Goto(t, "asleep", "expired") /\ Relinked(t)
    /\ ~pending[slot[t]].done
    /\ UNCHANGED <<bound, inits, nextToken, pending, locals, calls, result>>

(* The only place besides scmi_rx_complete that writes done: nothing but   *)
(* alloc_xact and scmi_client_init ever clears it.                         *)
Consume(t) ==
    /\ \/ Goto(t, "woken", "copy")
       \/ Goto(t, "expired", "giveup")
    /\ pending' = [pending EXCEPT ![slot[t]].done = TRUE]
    /\ UNCHANGED <<bound, inits, nextToken, wqs, locals, calls, result>>

(* Mutant of GiveUp: the timeout path forgets in_len.                      *)
GiveUpKeepsLen(t) ==
    /\ Return(t, "giveup", "ETIMEDOUT", Blank)
    /\ UNCHANGED <<table, calls>>

GiveUp(t) ==
    /\ Return(t, "giveup", "ETIMEDOUT", Blank)
    /\ pending' = [pending EXCEPT ![slot[t]].len = 0]
    /\ UNCHANGED <<bound, inits, nextToken, wqs, calls>>

Copy(t) ==
    /\ Goto(t, "copy", "release")
    /\ got' = [got EXCEPT ![t] = pending[slot[t]].reply]
    /\ UNCHANGED <<table, slot, call, inlen, tok, rx, calls, result>>

Release(t) ==
    /\ Return(t, "release", "OK", got[t])
    /\ pending' = [pending EXCEPT ![slot[t]].len = 0]
    /\ UNCHANGED <<bound, inits, nextToken, wqs, calls>>

-------------------------------------------------------------------------------
(* The steps of scmi_do_xact and scmi_rx_complete outside the transport.   *)
LibraryStep(t) ==
    \/ FetchToken(t) \/ PutToken(t) \/ PutLen(t) \/ Send(t)
    \/ StoreReply(t) \/ StoreDone(t) \/ WakeUp(t) \/ QueueFault(t)
    \/ Wake(t) \/ Sleep(t) \/ Expire(t) \/ Consume(t) \/ GiveUp(t) \/ Copy(t) \/ Release(t)

(* What send_fn may do: the response data is the answer to this call, or   *)
(* what happened to be in the buffer the transport passes.                 *)
TransportStep(t) ==
    \/ SendFail(t)
    \/ Fault(t)
    \/ \E reply \in {call[t], Garbage} : Receive(t, reply)

Next ==
    \/ ClientInit
    \/ SetTransport
    \/ \E t \in Threads : Refuse(t) \/ Start(t) \/ LibraryStep(t) \/ TransportStep(t)

(* Every wait in the code is bounded: the client waits SCMI_TIMEOUT_MS, the*)
(* transport polls for two seconds; so a call in progress keeps moving.    *)
(* Nothing forces a thread to call, or a driver to bind.                   *)
Fairness == \A t \in Threads : WF_vars(LibraryStep(t) \/ TransportStep(t))

Spec == Init /\ [][Next]_vars /\ Fairness

-------------------------------------------------------------------------------
(* Where a thread has stored in_len and not cleared it (or never will).    *)
Sent == {"send", "sending", "found", "stored", "waking", "wait", "asleep", "woken",
         "expired", "copy", "release", "giveup", "fault", "oops"}

(* A slot marked busy by its in_len belongs to a request still inside      *)
(* scmi_do_xact: no return path (send failure, timeout, signal, success)   *)
(* leaves the length set, also when two threads were given the same slot.  *)
LenHeld ==
    \A s \in Slots : pending[s].len = 1 =>
        \E t \in Threads : pc[t] \in Sent /\ slot[t] = s /\ inlen[t] = 1

(* A finished slot never leaves that state except by scmi_client_init: no  *)
(* allocation, late completion or release of another thread revives it.    *)
(* So the table serves a bounded number of slots between two inits.        *)
DoneIsFinal ==
    [][\A s \in Slots : pending[s].done => pending'[s].done \/ inits' # inits]_vars

(* Every call that entered the library returns or takes its thread down,   *)
(* in the transport or in a wait queue; none waits for ever, whatever the  *)
(* transport and the other threads do to its slot.                         *)
CallsReturn ==
    \A t \in Threads : pc[t] # "idle" ~> pc[t] \in {"idle", "fault", "oops"}

(* wake_up on a slot that nobody has taken since scmi_client_init walks a  *)
(* queue without a head.  Until a second scmi_client_init a completion     *)
(* reaches such a slot in one way only: it carries token 0, the token of   *)
(* the untouched slots, and the caller's own slot, which precedes them, is *)
(* no longer its own: another call in it has finished it or has stored     *)
(* another token there.                                                    *)
StrayCompletionExplained ==
    [][\A t \in Threads :
          pc[t] = "sending" /\ pc'[t] = "found" /\ rx'[t] \notin wqs /\ inits <= 1
              => /\ tok[t] = 0
                 /\ pending[slot[t]].done \/ pending[slot[t]].token # 0]_vars

(* A successful call returns the response the transport delivered for it,  *)
(* not another call's and not the zeroed buffer of the slot.  It holds for *)
(* one calling thread until the device is probed again; with two threads   *)
(* the completion can land in another slot.                                *)
RepliesOwn == \A c \in Calls : result[c].ret = "OK" => result[c].reply \in {c, Garbage}
OwnReply == inits <= 1 => RepliesOwn

(* The file calls itself the thread-safe version: whatever the threads do, *)
(* a success does not carry the response to another call.                  *)
NotAnothersReply ==
    inits <= 1 => \A c \in Calls : result[c].ret = "OK" => result[c].reply \in {c, Garbage, Blank}

(* A delivered response is not lost: when send_fn has returned 0 the slot  *)
(* of the caller is done, so the wait ends at once and never times out.    *)
(* It holds as OwnReply does.                                              *)
AnswerNotLost ==
    inits <= 1 => \A t \in Threads : pc[t] \in {"wait", "asleep"} => pending[slot[t]].done

(* No thread is lost in a wait queue: every queue it wakes or waits on was *)
(* initialised for it.  It holds as OwnReply does.                         *)
QueuesReady == inits <= 1 => \A t \in Threads : pc[t] # "oops"

(* -EBUSY has two causes only: a slot is in the hands of a call that has   *)
(* not returned, or it served a call before and is used up until the next  *)
(* scmi_client_init.  No failed or timed out call takes a slot with it.    *)
BusyOnlyWhenUsed ==
    [][(\E c \in Calls : result[c].ret # "EBUSY" /\ result'[c].ret = "EBUSY")
          => \A s \in Slots :
                pending[s].done \/ \E t \in Threads : pc[t] \in Sent /\ slot[t] = s]_vars

(* How fast the table is used up at worst: a call takes its own slot and   *)
(* the one its completion is stored in, never a third, so that a table of  *)
(* n slots refuses no call before n / 2 were made, whatever the threads    *)
(* and a second scmi_client_init do to each other.  One slot for each call *)
(* is not the bound: two calls that share a token can use up three.        *)
TwoSlotsPerCall == \A c \in Calls : result[c].ret = "EBUSY" => NumSlots <= 2 * (c - 1)

(* One calling thread takes one slot for a call, and no slot twice: until  *)
(* the device is probed again its first NumSlots calls all find a slot.    *)
OneSlotPerCall ==
    inits <= 1 => \A c \in Calls : result[c].ret = "EBUSY" => NumSlots < c
===============================================================================
