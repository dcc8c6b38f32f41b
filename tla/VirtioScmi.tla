------------------------------ MODULE VirtioScmi ------------------------------
(***************************************************************************)
(* The guest's transport driver (virtio_scmi.c) under the client library:  *)
(* probe and removal of the device, virtio_scmi_send, which posts a        *)
(* request on the A2P queue and polls the P2A queue in the caller's        *)
(* context, and the two queue callbacks that run beside it.                *)
(*                                                                         *)
(* A request on the ring is identified by the call it carries.  The host   *)
(* and the virtqueue library are external and modelled from how the driver *)
(* uses them: the host takes a request, writes the answer into the buffer  *)
(* posted with it (the caller's resp_buf) and, when the queue can signal,  *)
(* adds a completion to the P2A queue.                                     *)
(***************************************************************************)
EXTENDS ScmiClient

CONSTANTS VqSize,      \* requests the A2P ring holds
          Integrated   \* FALSE: the repository as it stands, where find_vqs
                       \* fills vdev->vqs and nothing fills dev->vqs or posts
                       \* P2A buffers; TRUE: that open TODO completed, with
                       \* the rest of the driver as it is

ASSUME VirtioAssumption == VqSize \in Nat \ {0} /\ Integrated \in BOOLEAN

VARIABLES
    dev,       \* g_scmi_dev: NULL before and after, NULL while probing, its ready flag
    tx,        \* where each thread is inside virtio_scmi_send
    avail,     \* requests the host has not taken
    used,      \* requests the host has answered, not reclaimed
    answered,  \* calls whose resp_buf the host has written
    p2a        \* completions on the P2A queue

driver == <<dev, tx, avail, used, answered, p2a>>
allVars == <<vars, driver>>

VTypeOK ==
    /\ TypeOK
    /\ dev \in {"none", "probing", "ready", "removing"}
    /\ tx \in [Threads -> {"enter", "checked", "poll", "stale"}]
    /\ avail \subseteq Calls
    /\ used \subseteq answered
    /\ answered \subseteq Calls
    /\ p2a \in 0..MaxCalls

VInit ==
    /\ Init
    /\ dev = "none"
    /\ tx = [t \in Threads |-> "enter"]
    /\ avail = {}
    /\ used = {}
    /\ answered = {}
    /\ p2a = 0

Leave(t) == tx' = [tx EXCEPT ![t] = "enter"]

-------------------------------------------------------------------------------
(* Probe and removal.                                                      *)

(* find_vqs gives fresh queues, then the library is zeroed.                *)
ProbeInit ==
    /\ dev = "none"
    /\ ClientInit
    /\ dev' = "probing"
    /\ UNCHANGED <<tx, avail, used, answered, p2a>>

ProbeBind ==
    /\ dev = "probing"
    /\ SetTransport
    /\ UNCHANGED driver

(* ready and g_scmi_dev are set after the library can already send.        *)
ProbePublish ==
    /\ dev = "probing"
    /\ bound
    /\ dev' = "ready"
    /\ UNCHANGED <<vars, tx, avail, used, answered, p2a>>

(* ready is cleared; scmi_client_deinit then waits for nothing.            *)
RemoveBegin ==
    /\ dev = "ready"
    /\ dev' = "removing"
    /\ UNCHANGED <<vars, tx, avail, used, answered, p2a>>

(* The queues are deleted and the device freed under whoever uses them;    *)
(* send_fn stays bound.                                                    *)
RemoveEnd ==
    /\ dev = "removing"
    /\ dev' = "none"
    /\ tx' = [t \in Threads |-> IF tx[t] = "enter" THEN "enter" ELSE "stale"]
    /\ avail' = {}
    /\ used' = {}
    /\ p2a' = 0
    /\ UNCHANGED <<vars, answered>>

-------------------------------------------------------------------------------
(* virtio_scmi_send.                                                       *)

(* The queues are read through g_scmi_dev before it is tested.             *)
Enter(t) ==
    /\ pc[t] = "sending"
    /\ tx[t] = "enter"
    /\ \/ /\ dev \in {"none", "probing"}
          /\ Fault(t)
          /\ UNCHANGED tx
       \/ /\ dev = "removing" \/ (dev = "ready" /\ ~Integrated)
          /\ SendFail(t)
          /\ UNCHANGED tx
       \/ /\ dev = "ready" /\ Integrated
          /\ tx' = [tx EXCEPT ![t] = "checked"]
          /\ UNCHANGED vars
    /\ UNCHANGED <<dev, avail, used, answered, p2a>>

(* virtqueue_add_sgs fails on a full ring.                                 *)
Post(t) ==
    /\ pc[t] = "sending"
    /\ tx[t] = "checked"
    /\ \/ /\ Cardinality(avail \cup used) = VqSize
          /\ SendFail(t)
          /\ Leave(t)
          /\ UNCHANGED avail
       \/ /\ Cardinality(avail \cup used) < VqSize
          /\ avail' = avail \cup {call[t]}
          /\ tx' = [tx EXCEPT ![t] = "poll"]
          /\ UNCHANGED vars
    /\ UNCHANGED <<dev, used, answered, p2a>>

(* Mutant of PollHit: the completion is looked at and left on the queue.   *)
PollPeek(t) ==
    /\ tx[t] = "poll"
    /\ p2a > 0
    /\ Receive(t, IF call[t] \in answered THEN call[t] ELSE Garbage)
    /\ Leave(t)
    /\ UNCHANGED <<dev, avail, used, answered, p2a>>

(* Mutant of PollHit: the result of virtqueue_get_buf is not tested.       *)
PollEager(t) ==
    /\ tx[t] = "poll"
    /\ p2a' = IF p2a > 0 THEN p2a - 1 ELSE 0
    /\ Receive(t, IF call[t] \in answered THEN call[t] ELSE Garbage)
    /\ Leave(t)
    /\ UNCHANGED <<dev, avail, used, answered>>

(* Any completion ends the poll; it is reported with the caller's own      *)
(* token and the content of the caller's own resp_buf.                     *)
PollHit(t) ==
    /\ tx[t] = "poll"
    /\ p2a > 0
    /\ p2a' = p2a - 1
    /\ Receive(t, IF call[t] \in answered THEN call[t] ELSE Garbage)
    /\ Leave(t)
    /\ UNCHANGED <<dev, avail, used, answered>>

(* Mutant of PollTimeout: the caller is told 0 although nothing came.      *)
PollTimeoutOk(t) ==
    /\ tx[t] = "poll"
    /\ Goto(t, "sending", "wait")
    /\ EndSend(t)
    /\ Leave(t)
    /\ UNCHANGED <<table, slot, call, inlen, calls, result,
                   dev, avail, used, answered, p2a>>

(* Mutant of PollTimeout: the loop never counts down.                      *)
PollForever(t) == tx[t] = "poll" /\ FALSE /\ UNCHANGED allVars

(* The last look at the queue precedes the last sleep, so the poll can     *)
(* time out with a completion there.  The request stays on the ring.       *)
PollTimeout(t) ==
    /\ tx[t] = "poll"
    /\ SendFail(t)
    /\ Leave(t)
    /\ UNCHANGED <<dev, avail, used, answered, p2a>>

(* The device was freed after this thread read its pointer: the access may *)
(* fault, or fail as on a device that has nothing to give.                 *)
UseFreed(t) ==
    /\ tx[t] = "stale"
    /\ Fault(t) \/ SendFail(t)
    /\ Leave(t)
    /\ UNCHANGED <<dev, avail, used, answered, p2a>>

-------------------------------------------------------------------------------
(* The host, and the interrupts it raises.                                 *)

HostAnswer(c) ==
    /\ c \in avail
    /\ avail' = avail \ {c}
    /\ used' = used \cup {c}
    /\ answered' = answered \cup {c}
    /\ p2a' = p2a + 1
    /\ UNCHANGED <<vars, dev, tx>>

(* virtio_scmi_rx_callback takes every completion and only logs it.        *)
RxCallback ==
    /\ p2a > 0
    /\ p2a' = 0
    /\ UNCHANGED <<vars, dev, tx, avail, used, answered>>

(* virtio_scmi_tx_callback reclaims the answered requests.                 *)
TxCallback ==
    /\ used # {}
    /\ used' = {}
    /\ UNCHANGED <<vars, dev, tx, avail, answered, p2a>>

-------------------------------------------------------------------------------
SendStep(t) == Enter(t) \/ Post(t) \/ PollHit(t) \/ PollTimeout(t) \/ UseFreed(t)

(* send_fn is called through g_scmi, which scmi_client_init may have       *)
(* cleared since the caller looked.                                        *)
SendUnbound(t) == pc[t] = "send" /\ Fault(t)

ThreadStep(t) ==
    \/ LibraryStep(t) /\ UNCHANGED driver
    \/ SendUnbound(t) /\ UNCHANGED driver
    \/ SendStep(t)

VNext ==
    \/ ProbeInit \/ ProbeBind \/ ProbePublish \/ RemoveBegin \/ RemoveEnd
    \/ \E t \in Threads :
          \/ (Refuse(t) \/ Start(t)) /\ UNCHANGED driver
          \/ ThreadStep(t)
    \/ \E c \in avail : HostAnswer(c)
    \/ RxCallback
    \/ TxCallback

(* As in ScmiClient: the poll sleeps 10 ms at a time for two seconds, so a *)
(* thread inside a call keeps moving.  The host need not answer.           *)
VFairness == \A t \in Threads : WF_allVars(ThreadStep(t))

VSpec == VInit /\ [][VNext]_allVars /\ VFairness

-------------------------------------------------------------------------------
(* The driver is one of the transports the client library is written for:  *)
(* seen from the library, with its liveness, it does nothing else.         *)
Client == INSTANCE ScmiClient
ClientSpec == Client!Spec

(* One completion ends at most one call: the calls that returned success,  *)
(* those about to, and the completions still queued are no more than the   *)
(* answers the host gave, even where two calls share a slot.               *)
Delivered == {t \in Threads : pc[t] \in {"found", "stored", "waking", "wait", "asleep",
                                         "woken", "copy", "release"}}
CompletionConserved ==
    Cardinality({c \in Calls : result[c].ret = "OK"}) + Cardinality(Delivered) + p2a
        <= Cardinality(answered)

(* With one calling thread, and as long as no send has failed or timed out *)
(* and the device was not probed again, every success carries the answer   *)
(* the host gave to that very call.                                        *)
PunctualOwnResponse ==
    (inits = 1 /\ \A c \in Calls : result[c].ret # "ETRANSPORT")
        => \A c \in Calls : result[c].ret = "OK" => result[c].reply = c

(* virtio_scmi_send documents 0 as "success, the response has been         *)
(* written".  A completion left behind by a call that timed out ends the   *)
(* next call before the host has answered it.                              *)
OwnResponse == \A c \in Calls : result[c].ret = "OK" => result[c].reply = c
===============================================================================
