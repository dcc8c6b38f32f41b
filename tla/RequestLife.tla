----------------------------- MODULE RequestLife ------------------------------
(***************************************************************************)
(* What the two queues of scmi_epoll_server.c promise of each request: it  *)
(* goes forward through the stages of the server, one at a time, is taken  *)
(* for the doorbell after every earlier request that was queued, and is    *)
(* ended after every earlier request of its channel.  Requests are         *)
(* numbered in the order they are submitted.                               *)
(***************************************************************************)
EXTENDS Naturals

CONSTANTS Channels, Requests

VARIABLES stage, chan

Stages == {"new", "queued", "leaked", "taken", "refused", "pending", "ended"}
Over   == {"leaked", "refused", "ended"}

TypeOK == stage \in [Requests -> Stages] /\ chan \in [Requests -> Channels]

Init ==
    /\ stage = [r \in Requests |-> "new"]
    /\ chan \in [Requests -> Channels]

Earlier(r) == {q \in Requests : q < r}

Move(r, from, to) == stage[r] = from /\ stage' = [stage EXCEPT ![r] = to]

(* The fifo takes the request, or has no room for it.                      *)
Submit(r, ch) ==
    /\ Move(r, "new", "queued") \/ Move(r, "new", "leaked")
    /\ \A q \in Earlier(r) : stage[q] # "new"
    /\ chan' = [chan EXCEPT ![r] = ch]

Take(r) ==
    /\ Move(r, "queued", "taken")
    /\ \A q \in Requests : stage[q] # "taken"
    /\ \A q \in Earlier(r) : stage[q] # "queued"
    /\ UNCHANGED chan

Refuse(r) == Move(r, "taken", "refused") /\ UNCHANGED chan
Wait(r)   == Move(r, "taken", "pending") /\ UNCHANGED chan

Match(r) ==
    /\ Move(r, "pending", "ended")
    /\ \A q \in Earlier(r) : chan[q] = chan[r] => stage[q] \in Over
    /\ UNCHANGED chan

Next ==
    \E r \in Requests :
        \/ \E ch \in Channels : Submit(r, ch)
        \/ Take(r) \/ Refuse(r) \/ Wait(r) \/ Match(r)

Spec == Init /\ [][Next]_<<stage, chan>>
===============================================================================
