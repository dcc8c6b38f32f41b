------------------------------- MODULE Exchange -------------------------------
(***************************************************************************)
(* What scmi_doorbell.c promises of a channel that one thread uses: one    *)
(* call at a time, answered once, taken after it was answered; a call may  *)
(* be given up, and then the channel is out of use, because an answer to   *)
(* that call may still come.                                               *)
(***************************************************************************)
CONSTANT Channels

VARIABLE stage

Stages == {"free", "asked", "served", "dead"}

TypeOK == stage \in [Channels -> Stages]

Init == stage = [ch \in Channels |-> "free"]

Move(ch, from, to) == stage[ch] \in from /\ stage' = [stage EXCEPT ![ch] = to]

Ask(ch)     == Move(ch, {"free"}, "asked")
Serve(ch)   == Move(ch, {"asked"}, "served")
Take(ch)    == Move(ch, {"served"}, "free")
Abandon(ch) == Move(ch, {"asked", "served"}, "dead")

Next == \E ch \in Channels : Ask(ch) \/ Serve(ch) \/ Take(ch) \/ Abandon(ch)

(* No call stays open: the poll is bounded.                                *)
Settled ==
    \A ch \in Channels : stage[ch] \in {"asked", "served"} ~> stage[ch] \in {"free", "dead"}

Spec == Init /\ [][Next]_stage /\ Settled
===============================================================================
