----------------------------- MODULE EpollServer -----------------------------
(***************************************************************************)
(* The epoll server of the PVM (scmi_epoll_server.c): an event thread that *)
(* queues the guest's requests and matches the firmware's responses, and a *)
(* worker that takes the requests from the queue and rings the doorbell.   *)
(* They share the request fifo, the list of pending requests and, through  *)
(* doorbell_send and doorbell_poll_response, the doorbell of each channel. *)
(*                                                                         *)
(* The calls that enter the server are commented out in the repository     *)
(* (lines 264 and 331); the model takes them as made: one thread runs the  *)
(* event loop and calls handle_virtio_scmi_req for the requests.  The      *)
(* guest that submits is external: it has put the message into the area of *)
(* its channel when the request is made.  The virtio-scmi shared memory is *)
(* defined nowhere in the repository and is taken as a region of its own,  *)
(* where the firmware writes nothing.  The firmware is reduced to what the *)
(* doorbell word shows of it (see Doorbell) and the message it reads; its  *)
(* reverse doorbell is what wakes the event thread, the purpose init names *)
(* for doorbell_fd.                                                        *)
(*                                                                         *)
(* The server writes no response back (line 209 is commented out), and the *)
(* address a poll returns is that of the channel's request area, still in  *)
(* the message registers (see Doorbell).  What the model follows of a      *)
(* response is which doorbell it comes from: the one whose serving a poll  *)
(* took, and which request the server ended with it.                       *)
(*                                                                         *)
(* Two parameters say how two lines are taken: StoresPointer whether the   *)
(* fifo holds the pointer to a request or, as line 136 has it, the first   *)
(* bytes of the request itself; Polls how many times a response is polled, *)
(* 0 at line 195.  With FALSE and 0 the model is the code as written.      *)
(***************************************************************************)
EXTENDS Integers, FiniteSets, Sequences, SequencesExt

CONSTANTS NumChannels,    \* SCMI_MAX_CHANNELS, 16 in the code
          MaxRequests,    \* bound: requests submitted in a behaviour
          FifoCap,        \* requests the fifo has room for
          Batch,          \* requests taken by one run of the worker, 64
          StoresPointer,  \* what kfifo_in is given (FALSE in the code)
          Polls           \* timeout_ms of the poll (0 in the code)

ASSUME EpollAssumption ==
    /\ NumChannels \in Nat \ {0}
    /\ MaxRequests \in Nat
    /\ FifoCap \in Nat
    /\ Batch \in Nat \ {0}
    /\ StoresPointer \in BOOLEAN
    /\ Polls \in Nat

Channels == 0..NumChannels - 1
Requests == 1..MaxRequests  \* in the order they are submitted
Garbage  == 0               \* no request: a wild pointer, no doorbell
NoTurn   == -1
Pointers == Requests \cup {Garbage}

VARIABLES
    fifo,     \* req_fifo
    pending,  \* pending_list
    queued,   \* whether dispatch_work is queued
    wpc,      \* where the worker is in scmi_dispatch_work
    cur,      \* its local req
    taken,    \* its loop index
    epc,      \* where the event thread is
    ech,      \* the channel it looks at
    turn,     \* history: the request whose doorbell its poll found served
    signal,   \* whether doorbell_fd is readable
    db,       \* doorbell word of a channel: VALID clear, set by the PVM, set by mygearvm
    busy,     \* g_channel_busy
    fw,       \* the channel the firmware is serving (-1: none)
    msg,      \* the message it has read, by its request
    area,     \* the message in the area of a channel, by its request
    count,    \* requests submitted
    chan,     \* the channel of each
    endedBy,  \* history: the request whose doorbell was served when it was ended
    leaked,   \* history: requests the fifo had no room for
    refused,  \* history: requests dropped because the channel was busy
    rung,     \* history: the request a doorbell was rung for, until it is served
    served,   \* history: the request a doorbell was served for, until a poll takes it
    full,     \* history: the worker's last run took a whole batch
    early,    \* history: channels where a poll took it before its request was pending
    idle      \* history: channels where a poll took a clear doorbell for a response

worker  == <<wpc, cur, taken, full>>
event   == <<epc, ech, turn>>
bell    == <<db, busy, fw, msg, signal>>
guest   == <<count, chan, area, leaked>>
outcome == <<endedBy, refused, early, idle>>
vars    == <<fifo, pending, queued, worker, event, bell, guest, outcome, rung, served>>

QueueOK ==
    /\ fifo \in Seq(Pointers)
    /\ pending \in Seq(Requests)
    /\ queued \in BOOLEAN

WorkerOK ==
    /\ wpc \in {"idle", "take", "send", "mark", "add", "end", "fault"}
    /\ cur \in Pointers
    /\ wpc \in {"send", "mark", "add"} => cur \in Requests
    /\ taken \in 0..Batch
    /\ full \in BOOLEAN

EventOK ==
    /\ epc \in {"idle", "kick", "poll", "unmark", "match"}
    /\ ech \in Channels
    /\ turn \in Pointers

BellOK ==
    /\ db \in [Channels -> {"clear", "req", "resp"}]
    /\ busy \in [Channels -> BOOLEAN]
    /\ fw \in Channels \cup {-1}
    /\ msg \in Pointers
    /\ signal \in BOOLEAN

HistoryOK ==
    /\ count \in 0..MaxRequests
    /\ chan \in [Requests -> Channels]
    /\ area \in [Channels -> Pointers]
    /\ endedBy \in [Requests -> Pointers \cup {NoTurn}]
    /\ leaked \subseteq Requests /\ refused \subseteq Requests
    /\ rung \in [Channels -> Pointers]
    /\ served \in [Channels -> Pointers]
    /\ early \subseteq Channels /\ idle \subseteq Channels

TypeOK == QueueOK /\ WorkerOK /\ EventOK /\ BellOK /\ HistoryOK

Init ==
    /\ fifo = <<>> /\ pending = <<>> /\ queued = FALSE
    /\ wpc = "idle" /\ cur = Garbage /\ taken = 0 /\ full = FALSE
    /\ epc = "idle" /\ ech = 0 /\ turn = Garbage
    /\ db = [ch \in Channels |-> "clear"]
    /\ busy = [ch \in Channels |-> FALSE]
    /\ fw = -1 /\ msg = Garbage /\ signal = FALSE
    /\ count = 0
    /\ chan = [r \in Requests |-> 0]
    /\ area = [ch \in Channels |-> Garbage]
    /\ endedBy = [r \in Requests |-> NoTurn]
    /\ leaked = {} /\ refused = {} /\ early = {} /\ idle = {}
    /\ rung = [ch \in Channels |-> Garbage]
    /\ served = [ch \in Channels |-> Garbage]

-------------------------------------------------------------------------------
(* handle_virtio_scmi_req: queue a request, then wake the worker.          *)

(* What the worker will read back as its pointer.                          *)
Stored(r) == IF StoresPointer THEN r ELSE Garbage

(* Mutant of Submit: the offset of the channel's area is forgotten.        *)
SubmitFirstArea(ch) ==
    /\ epc = "idle" /\ epc' = "kick"
    /\ count < MaxRequests /\ count' = count + 1
    /\ chan' = [chan EXCEPT ![count + 1] = ch]
    /\ area' = [area EXCEPT ![0] = count + 1]
    /\ \/ /\ Len(fifo) < FifoCap
          /\ fifo' = Append(fifo, Stored(count + 1))
          /\ UNCHANGED leaked
       \/ /\ Len(fifo) >= FifoCap
          /\ leaked' = leaked \cup {count + 1}
          /\ UNCHANGED fifo
    /\ UNCHANGED <<pending, queued, worker, ech, turn, bell, outcome, rung, served>>

(* The message is in the one area of the channel, over that of an earlier  *)
(* request.  A full fifo takes nothing; the request is neither queued nor  *)
(* freed, and the function answers success.                                *)
Submit(ch) ==
    /\ epc = "idle" /\ epc' = "kick"
    /\ count < MaxRequests /\ count' = count + 1
    /\ chan' = [chan EXCEPT ![count + 1] = ch]
    /\ area' = [area EXCEPT ![ch] = count + 1]
    /\ \/ /\ Len(fifo) < FifoCap
          /\ fifo' = Append(fifo, Stored(count + 1))
          /\ UNCHANGED leaked
       \/ /\ Len(fifo) >= FifoCap
          /\ leaked' = leaked \cup {count + 1}
          /\ UNCHANGED fifo
    /\ UNCHANGED <<pending, queued, worker, ech, turn, bell, outcome, rung, served>>

(* Mutant of Kick: the work is not queued while the worker runs.           *)
KickIdle ==
    /\ epc = "kick" /\ epc' = "idle"
    /\ queued' = (queued \/ wpc = "idle")
    /\ UNCHANGED <<fifo, pending, worker, ech, turn, bell, guest, outcome, rung, served>>

(* queue_work does nothing if the work is queued already.                  *)
Kick ==
    /\ epc = "kick" /\ epc' = "idle"
    /\ queued' = TRUE
    /\ UNCHANGED <<fifo, pending, worker, ech, turn, bell, guest, outcome, rung, served>>

-------------------------------------------------------------------------------
(* scmi_dispatch_work, with doorbell_send.                                 *)

(* The workqueue clears the mark before it calls the function, so work     *)
(* queued during a run leads to another run.                               *)
WorkStart ==
    /\ wpc = "idle" /\ wpc' = "take"
    /\ queued /\ queued' = FALSE
    /\ UNCHANGED <<fifo, pending, cur, taken, full, event, bell, guest, outcome, rung, served>>

(* The worker is the only reader, so the test and the take are one step.   *)
(* It reads through the pointer at once.                                   *)
Take ==
    /\ wpc = "take"
    /\ taken < Batch /\ fifo # <<>>
    /\ cur' = Head(fifo)
    /\ fifo' = Tail(fifo)
    /\ taken' = taken + 1
    /\ wpc' = IF Head(fifo) = Garbage THEN "fault" ELSE "send"
    /\ UNCHANGED <<pending, queued, full, event, bell, guest, outcome, rung, served>>

(* The loop ends; a request queued from here on needs another run.         *)
WorkDone ==
    /\ wpc = "take" /\ wpc' = "end"
    /\ taken = Batch \/ fifo = <<>>
    /\ full' = (taken = Batch)
    /\ taken' = 0
    /\ UNCHANGED <<fifo, pending, queued, cur, event, bell, guest, outcome, rung, served>>

WorkEnd ==
    /\ wpc = "end" /\ wpc' = "idle"
    /\ UNCHANGED <<fifo, pending, queued, cur, taken, full, event, bell, guest, outcome,
                   rung, served>>

(* Mutant of SendRefused: the loop does not continue, and the freed        *)
(* request goes to the pending list.                                       *)
SendRefusedAdds ==
    /\ wpc = "send" /\ wpc' = "add"
    /\ busy[chan[cur]]
    /\ refused' = refused \cup {cur}
    /\ UNCHANGED <<fifo, pending, queued, cur, taken, full, event, bell, guest,
                   endedBy, early, idle, rung, served>>

(* Mutant of SendRefused: the worker tries the same request again.         *)
SendRefusedRetries ==
    /\ wpc = "send"
    /\ busy[chan[cur]]
    /\ UNCHANGED vars

(* doorbell_send answers -EBUSY: the request is freed and nobody is told.  *)
SendRefused ==
    /\ wpc = "send" /\ wpc' = "take"
    /\ busy[chan[cur]]
    /\ refused' = refused \cup {cur}
    /\ cur' = Garbage
    /\ UNCHANGED <<fifo, pending, queued, taken, full, event, bell, guest,
                   endedBy, early, idle, rung, served>>

(* Mutant of Ring: the busy check is left out.                             *)
RingBusy ==
    /\ wpc = "send" /\ wpc' = "mark"
    /\ db' = [db EXCEPT ![chan[cur]] = "req"]
    /\ rung' = [rung EXCEPT ![chan[cur]] = cur]
    /\ UNCHANGED <<fifo, pending, queued, cur, taken, full, event, busy, fw, msg, signal,
                   guest, outcome, served>>

(* Only the worker sets busy, so the check and the writes are one step.    *)
Ring ==
    /\ wpc = "send" /\ wpc' = "mark"
    /\ ~busy[chan[cur]]
    /\ db' = [db EXCEPT ![chan[cur]] = "req"]
    /\ rung' = [rung EXCEPT ![chan[cur]] = cur]
    /\ UNCHANGED <<fifo, pending, queued, cur, taken, full, event, busy, fw, msg, signal,
                   guest, outcome, served>>

Mark ==
    /\ wpc = "mark" /\ wpc' = "add"
    /\ busy' = [busy EXCEPT ![chan[cur]] = TRUE]
    /\ UNCHANGED <<fifo, pending, queued, cur, taken, full, event, db, fw, msg, signal,
                   guest, outcome, rung, served>>

(* Mutant of Add: the index runs past the 64 of the loop.                  *)
AddCounts ==
    /\ wpc = "add" /\ wpc' = "take"
    /\ pending' = Append(pending, cur)
    /\ cur' = Garbage
    /\ taken' = taken + 1
    /\ UNCHANGED <<fifo, queued, full, event, bell, guest, outcome, rung, served>>

(* The request is added to the pending list after its doorbell was rung.   *)
Add ==
    /\ wpc = "add" /\ wpc' = "take"
    /\ pending' = Append(pending, cur)
    /\ cur' = Garbage
    /\ UNCHANGED <<fifo, queued, taken, full, event, bell, guest, outcome, rung, served>>

WorkerStep == WorkStart \/ Take \/ WorkDone \/ WorkEnd \/ SendRefused \/ Ring \/ Mark \/ Add

-------------------------------------------------------------------------------
(* The event loop: scmi_handle_response for each channel in turn.          *)

Event ==
    /\ epc = "idle" /\ epc' = "poll"
    /\ signal /\ signal' = FALSE
    /\ ech' = 0
    /\ UNCHANGED <<fifo, pending, queued, worker, turn, db, busy, fw, msg, guest, outcome,
                   rung, served>>

NextChannel ==
    IF ech + 1 \in Channels
    THEN epc' = "poll" /\ ech' = ech + 1
    ELSE epc' = "idle" /\ ech' = 0

(* The last read of the doorbell saw VALID set; with no polls there is no  *)
(* read at all.                                                            *)
PollTimeout ==
    /\ epc = "poll"
    /\ Polls = 0 \/ db[ech] # "clear"
    /\ NextChannel
    /\ UNCHANGED <<fifo, pending, queued, worker, turn, bell, guest, outcome, rung, served>>

(* A read saw VALID clear, because the firmware has served the doorbell or *)
(* because nothing was ever asked.                                         *)
PollClear ==
    /\ epc = "poll" /\ epc' = "unmark"
    /\ Polls > 0 /\ db[ech] = "clear"
    /\ turn' = served[ech]
    /\ served' = [served EXCEPT ![ech] = Garbage]
    /\ idle' = idle \cup (IF served[ech] = Garbage THEN {ech} ELSE {})
    /\ early' = early \cup (IF served[ech] # Garbage /\ served[ech] = cur THEN {ech} ELSE {})
    /\ UNCHANGED <<fifo, pending, queued, worker, ech, bell, guest, endedBy, refused, rung>>

(* Mutant of Unmark: the channel is not given back.                        *)
UnmarkSkipped ==
    /\ epc = "unmark" /\ epc' = "match"
    /\ UNCHANGED <<fifo, pending, queued, worker, ech, turn, bell, guest,
                   outcome, rung, served>>

Unmark ==
    /\ epc = "unmark" /\ epc' = "match"
    /\ busy' = [busy EXCEPT ![ech] = FALSE]
    /\ UNCHANGED <<fifo, pending, queued, worker, ech, turn, db, fw, msg, signal, guest,
                   outcome, rung, served>>

(* The entries of the pending list for a channel.                          *)
Waiting(ch) == {i \in DOMAIN pending : chan[pending[i]] = ch}

(* Mutant of First: the list is searched from its tail.                    *)
FirstFromTail(S) == CHOOSE i \in S : \A j \in S : i >= j

First(S) == CHOOSE i \in S : \A j \in S : i <= j

Match ==
    /\ epc = "match"
    /\ \/ /\ Waiting(ech) # {}
          /\ endedBy' = [endedBy EXCEPT ![pending[First(Waiting(ech))]] = turn]
          /\ pending' = RemoveAt(pending, First(Waiting(ech)))
       \/ /\ Waiting(ech) = {}
          /\ UNCHANGED <<endedBy, pending>>
    /\ turn' = Garbage
    /\ NextChannel
    /\ UNCHANGED <<fifo, queued, worker, bell, guest, refused, early, idle, rung, served>>

EventStep == Kick \/ Event \/ PollTimeout \/ PollClear \/ Unmark \/ Match

-------------------------------------------------------------------------------
(* The firmware: it reads the message a rung doorbell names, the area of   *)
(* its channel, answers it, and clears VALID; then it rings back.          *)

Serve(ch) ==
    /\ fw = -1 /\ fw' = ch
    /\ db[ch] = "req"
    /\ db' = [db EXCEPT ![ch] = "clear"]
    /\ msg' = area[ch]
    /\ served' = [served EXCEPT ![ch] = rung[ch]]
    /\ rung' = [rung EXCEPT ![ch] = Garbage]
    /\ UNCHANGED <<fifo, pending, queued, worker, event, busy, signal, guest, outcome>>

RingBack ==
    /\ fw \in Channels /\ fw' = -1
    /\ db' = [db EXCEPT ![fw] = "resp"]
    /\ msg' = Garbage
    /\ signal' = TRUE
    /\ UNCHANGED <<fifo, pending, queued, worker, event, busy, guest, outcome, rung, served>>

Next ==
    \/ \E ch \in Channels : Submit(ch) \/ Serve(ch)
    \/ RingBack
    \/ WorkerStep
    \/ EventStep

(* The workqueue runs queued work, and the event thread's polls are        *)
(* bounded.                                                                *)
Fairness == WF_vars(WorkerStep) /\ WF_vars(EventStep)

Spec == Init /\ [][Next]_vars /\ Fairness

-------------------------------------------------------------------------------
(* A request is in one place: waiting in the fifo, in the worker's hands,  *)
(* pending, ended, leaked or refused.  No interleaving of the two          *)
(* threads loses one or hands it to both.                                  *)
Places(r) ==
    ({"fifo"} \X {i \in DOMAIN fifo : fifo[i] = r})
    \cup ({"pending"} \X {i \in DOMAIN pending : pending[i] = r})
    \cup ({"worker"} \X ({cur} \cap {r}))
    \cup ({"ended"} \X {s \in {r} : endedBy[s] # NoTurn})
    \cup ({"leaked"} \X (leaked \cap {r}))
    \cup ({"refused"} \X (refused \cap {r}))

EachInOnePlace == \A r \in 1..count : Cardinality(Places(r)) = 1

(* The stage of a request, read off the queues and the worker's hands; the *)
(* server, whatever its two threads do, is the life cycle of RequestLife:  *)
(* no request is lost, taken or ended twice, or overtakes another of its   *)
(* channel, though a channel is given back before its request is matched.  *)
StageOf ==
    [r \in Requests |->
        IF r > count THEN "new"
        ELSE IF r \in leaked THEN "leaked"
        ELSE IF r \in refused THEN "refused"
        ELSE IF endedBy[r] # NoTurn THEN "ended"
        ELSE IF r = cur THEN "taken"
        ELSE IF r \in ToSet(pending) THEN "pending"
        ELSE IF r \in ToSet(fifo) THEN "queued"
        ELSE "lost"]

Life == INSTANCE RequestLife WITH stage <- StageOf

RequestsLiveInOrder == Life!Spec

(* Requests are left in the fifo with no run of the worker to come only    *)
(* after a run that took a whole batch: the limit of line 160, and nothing *)
(* else, strands them until the next request.                              *)
Stranded == fifo # <<>> /\ wpc = "idle" /\ ~queued /\ epc # "kick"
StrandedOnlyByFullBatch == Stranded => full

(* The request that the server ends is the one whose doorbell was served.  *)
(* Another's turn ends it, or none at all, only on a channel where the     *)
(* firmware was done before the request was in the pending list, or a poll *)
(* took an idle doorbell for a served one.                                 *)
Disturbed == early \cup idle
OwnTurnUnlessDisturbed ==
    \A r \in 1..count : endedBy[r] \in {NoTurn, r} \/ chan[r] \in Disturbed

(* The message the firmware reads for a doorbell is that of the request it *)
(* was rung for, or of a later one of the same channel: the guest may have *)
(* put another into the area while the request was queued, and then the    *)
(* earlier message is never read.  It is never another channel's, an       *)
(* earlier one's or none.                                                  *)
ReadsOwnOrLater ==
    [][\A ch \in Channels : (fw = -1 /\ fw' = ch) =>
          /\ rung[ch] \in Requests /\ msg' \in Requests
          /\ chan[rung[ch]] = ch /\ chan'[msg'] = ch
          /\ rung[ch] <= msg']_vars

(* A busy channel has a request that waits for it, pending or about to be, *)
(* except on such channels, which nothing then frees again.                *)
BusyHasWaiter ==
    \A ch \in Channels :
        busy[ch] => \/ Waiting(ch) # {}
                    \/ wpc = "add" /\ chan[cur] = ch
                    \/ ch \in Disturbed

(* A queued request leaves the fifo, unless it is stranded there so.  What *)
(* the worker meets on its way, a channel that stays busy included, does   *)
(* not hold up the requests behind.                                        *)
LeavesFifo ==
    \A r \in Requests : r \in ToSet(fifo) ~> (r \notin ToSet(fifo) \/ (Stranded /\ full))

(* "take a request from the request queue, send it to mygearvm": what the  *)
(* worker takes from the queue is a request.                               *)
WorkerTakesRequests == wpc # "fault"
===============================================================================
