------------------------------- MODULE Doorbell -------------------------------
(***************************************************************************)
(* The doorbell between the PVM Linux (scmi_pvm.c, scmi_doorbell.c) and    *)
(* the mygearvm firmware (scmi_mygearvm_core.c): per channel a register    *)
(* group with a doorbell word, a message address and a message size, and a *)
(* shared memory in which a request and its response are laid out.         *)
(*                                                                         *)
(* The PVM callers of scmi_dispatch and the firmware's FIQ handler run     *)
(* concurrently; every access of one of them to the doorbell word, to the  *)
(* interrupt, to busy, to a whole message or to the message registers is   *)
(* an action.  The registers of a message are written, and read, together: *)
(* all requests of a channel have the same address, so only one of them,   *)
(* the size, can change between two accesses.  A poll that sees VALID      *)
(* clear reads them at once, which with one caller on the channel shows it *)
(* all it could see later: until it rings again, only the firmware's size  *)
(* can still arrive, and that before VALID is set.                         *)
(*                                                                         *)
(* The registers are taken as bound to the hardware (the repository lists  *)
(* that as a TODO), and IRQ_STATUS as the firmware's own bank, raised by a *)
(* write of the PVM to the doorbell.                                       *)
(***************************************************************************)
EXTENDS Integers, FiniteSets

CONSTANTS NumChannels,  \* SCMI_MAX_CHANNELS, 16 in the code
          ShmAreas,     \* SCMI_SHM_SIZE in areas, 2 in the code
          Callers,      \* threads that dispatch: pairs of a channel and a number
          MaxCalls,     \* bound: calls of scmi_dispatch on a channel
          MaxTotal      \* bound: calls of scmi_dispatch on all channels

Channels == 0..NumChannels - 1

ASSUME DoorbellAssumption ==
    /\ NumChannels \in Nat \ {0}
    /\ ShmAreas \in Nat
    /\ Callers \subseteq Channels \X Nat
    /\ MaxCalls \in Nat
    /\ MaxTotal \in Nat

Calls    == 1..MaxCalls
Home(p)  == p[1]

(* A channel that only one thread dispatches on; nothing in scmi_dispatch  *)
(* makes a channel one.                                                    *)
Solo(ch) == \A p, q \in Callers : Home(p) = ch /\ Home(q) = ch => p = q

(* Shared memory, in units of SCMI_SHM_CHANNEL_SIZE: scmi_pvm_init puts    *)
(* the request of channel ch in area ch, the firmware puts its response in *)
(* area P2A + ch, where P2A is one area.  The region ends before most of   *)
(* these: what is beyond may be memory too, or fault when it is touched.   *)
Areas  == 0..NumChannels
Region == 0..ShmAreas - 1
RequestArea(ch)  == ch
ResponseArea(ch) == ch + 1

(* A request is told apart by its channel and by the number of its call on *)
(* the channel; a response is just that.                                   *)
Empty    == <<"none", 0, 0>>
Response == <<"resp", 0, 0>>
Request  == {"req"} \X Channels \X Calls
Message  == Request \cup {Response, Empty}

(* The length of a request is named by the number of its call; 0 stands    *)
(* for that of a response, and for the zero the registers hold at first.   *)
Length == Calls \cup {0}

VARIABLES
    db,      \* doorbell word: VALID clear, VALID from the PVM, VALID from mygearvm
    addr,    \* MESSAGE_LO/HI, as an area
    size,    \* MESSAGE_SIZE
    irq,     \* the firmware's IRQ_STATUS
    shm,     \* content of the areas
    busy,    \* g_channel_busy
    pc,      \* where each caller is inside scmi_dispatch
    call,    \* the call it makes, by its number on the channel (0: none)
    ptr,     \* the local msg_addr of scmi_dispatch
    resplen, \* its resp_len, once doorbell_poll_response has stored it
    resp,    \* its resp, the response it was given
    fw,      \* where the firmware is inside scmi_el3_fiq_handler
    at,      \* its loop variable ch
    msgaddr, \* the locals of doorbell_irq_handler: msg_addr,
    msgsz,   \* msg_sz
    msg,     \* and msg_buf
    calls,   \* how many calls were made, per channel
    result,  \* per channel and call, the code scmi_dispatch returned
    rung,    \* history: doorbells rung per channel
    asked,   \* history: the call that last rang the doorbell of a channel
    served   \* history: doorbells the firmware took and cleared per channel

regs     == <<db, addr, size, irq>>
callers  == <<pc, call, ptr, resplen, resp, calls, result>>
firmware == <<fw, at, msgaddr, msgsz, msg>>
history  == <<rung, asked, served>>
vars == <<regs, shm, busy, callers, firmware, history>>

PCs  == {"idle", "check", "regs", "ring", "mark", "poll", "accepted", "copy",
         "fault"}
FPCs == {"idle", "scan", "read", "regs", "fetch", "answer", "clear", "size", "ring",
         "fault"}
Rets == {"none", "OK", "EBUSY", "ETIMEDOUT"}

SharedOK ==
    /\ db \in [Channels -> {"clear", "req", "resp"}]
    /\ addr \in [Channels -> Areas]
    /\ size \in [Channels -> Length]
    /\ irq \in [Channels -> BOOLEAN]
    /\ shm \in [Areas -> Message]
    /\ busy \in [Channels -> BOOLEAN]

CallersOK ==
    /\ pc \in [Callers -> PCs]
    /\ call \in [Callers -> Calls \cup {0}]
    /\ ptr \in [Callers -> Areas]
    /\ resplen \in [Callers -> Length]
    /\ resp \in [Callers -> Message]
    /\ calls \in [Channels -> 0..MaxCalls]
    /\ result \in [Channels -> [Calls -> Rets]]

FirmwareOK ==
    /\ fw \in FPCs
    /\ at \in Channels
    /\ msgaddr \in Areas
    /\ msgsz \in Length
    /\ msg \in Message

HistoryOK ==
    /\ rung \in [Channels -> Nat]
    /\ asked \in [Channels -> Calls \cup {0}]
    /\ served \in [Channels -> Nat]

TypeOK == SharedOK /\ CallersOK /\ FirmwareOK /\ HistoryOK

Init ==
    /\ db = [ch \in Channels |-> "clear"]
    /\ addr = [ch \in Channels |-> 0]
    /\ size = [ch \in Channels |-> 0]
    /\ irq = [ch \in Channels |-> FALSE]
    /\ shm = [a \in Areas |-> Empty]
    /\ busy = [ch \in Channels |-> FALSE]
    /\ pc = [p \in Callers |-> "idle"]
    /\ call = [p \in Callers |-> 0]
    /\ ptr = [p \in Callers |-> 0]
    /\ resplen = [p \in Callers |-> 0]
    /\ resp = [p \in Callers |-> Empty]
    /\ fw = "idle"
    /\ at = 0
    /\ msgaddr = 0
    /\ msgsz = 0
    /\ msg = Empty
    /\ calls = [ch \in Channels |-> 0]
    /\ result = [ch \in Channels |-> [c \in Calls |-> "none"]]
    /\ rung = [ch \in Channels |-> 0]
    /\ asked = [ch \in Channels |-> 0]
    /\ served = [ch \in Channels |-> 0]

-------------------------------------------------------------------------------
(* scmi_dispatch, doorbell_send and doorbell_poll_response.                *)

Goto(p, where, to) == pc[p] = where /\ pc' = [pc EXCEPT ![p] = to]

Return(p, where, ret) ==
    /\ Goto(p, where, "idle")
    /\ result' = [result EXCEPT ![Home(p)][call[p]] = ret]
    /\ call' = [call EXCEPT ![p] = 0]
    /\ ptr' = [ptr EXCEPT ![p] = 0]
    /\ resplen' = [resplen EXCEPT ![p] = 0]
    /\ UNCHANGED calls

MayCall(ch) ==
    /\ calls[ch] < MaxCalls
    /\ Cardinality({c \in Channels \X Calls : c[2] <= calls[c[1]]}) < MaxTotal

(* A call starts with the buffer for its response empty.                   *)
Begin(p, to) ==
    /\ Goto(p, "idle", to)
    /\ MayCall(Home(p))
    /\ calls' = [calls EXCEPT ![Home(p)] = @ + 1]
    /\ call' = [call EXCEPT ![p] = calls[Home(p)] + 1]
    /\ ptr' = [ptr EXCEPT ![p] = RequestArea(Home(p))]
    /\ resp' = [resp EXCEPT ![p] = Empty]
    /\ UNCHANGED <<resplen, result>>

(* Mutant of Dispatch: the payload is not copied.                          *)
DispatchNoCopy(p) ==
    /\ Begin(p, "check")
    /\ UNCHANGED <<regs, shm, busy, firmware, history>>

(* The payload is copied to shared memory before the channel is looked at. *)
Dispatch(p) ==
    /\ Begin(p, "check")
    /\ shm' = [shm EXCEPT ![RequestArea(Home(p))] = <<"req", Home(p), calls[Home(p)] + 1>>]
    /\ UNCHANGED <<regs, busy, firmware, history>>

(* The channel's request area is beyond the region, and the copy faults.   *)
DispatchFault(p) ==
    /\ Begin(p, "fault")
    /\ RequestArea(Home(p)) \notin Region
    /\ UNCHANGED <<regs, shm, busy, firmware, history>>

RefuseBusy(p) ==
    /\ Return(p, "check", "EBUSY")
    /\ busy[Home(p)]
    /\ UNCHANGED <<regs, shm, busy, resp, firmware, history>>

Check(p) ==
    /\ Goto(p, "check", "regs")
    /\ ~busy[Home(p)]
    /\ UNCHANGED <<regs, shm, busy, call, ptr, resplen, resp, calls, result, firmware, history>>

(* Mutant of WriteRegs: the channel's offset is forgotten.                 *)
WriteRegsFirst(p) ==
    /\ Goto(p, "regs", "ring")
    /\ addr' = [addr EXCEPT ![0] = ptr[p]]
    /\ size' = [size EXCEPT ![0] = call[p]]
    /\ UNCHANGED <<db, irq, shm, busy, call, ptr, resplen, resp, calls, result, firmware, history>>

WriteRegs(p) ==
    /\ Goto(p, "regs", "ring")
    /\ addr' = [addr EXCEPT ![Home(p)] = ptr[p]]
    /\ size' = [size EXCEPT ![Home(p)] = call[p]]
    /\ UNCHANGED <<db, irq, shm, busy, call, ptr, resplen, resp, calls, result, firmware, history>>

Ring(p) ==
    /\ Goto(p, "ring", "mark")
    /\ db' = [db EXCEPT ![Home(p)] = "req"]
    /\ irq' = [irq EXCEPT ![Home(p)] = TRUE]
    /\ rung' = [rung EXCEPT ![Home(p)] = @ + 1]
    /\ asked' = [asked EXCEPT ![Home(p)] = call[p]]
    /\ UNCHANGED <<addr, size, shm, busy, call, ptr, resplen, resp, calls, result, firmware,
                   served>>

(* The channel is marked busy after the doorbell was rung.                 *)
Mark(p) ==
    /\ Goto(p, "mark", "poll")
    /\ busy' = [busy EXCEPT ![Home(p)] = TRUE]
    /\ UNCHANGED <<regs, shm, call, ptr, resplen, resp, calls, result, firmware, history>>

(* A poll that sees VALID clear: the message registers are taken for the   *)
(* address and the length of the response.                                 *)
Accept(p) ==
    /\ Goto(p, "poll", "accepted")
    /\ db[Home(p)] = "clear"
    /\ ptr' = [ptr EXCEPT ![p] = addr[Home(p)]]
    /\ resplen' = [resplen EXCEPT ![p] = size[Home(p)]]
    /\ UNCHANGED <<regs, shm, busy, call, resp, calls, result, firmware, history>>

Unmark(p) ==
    /\ Goto(p, "accepted", "copy")
    /\ busy' = [busy EXCEPT ![Home(p)] = FALSE]
    /\ UNCHANGED <<regs, shm, call, ptr, resplen, resp, calls, result, firmware, history>>

CopyResponse(p) ==
    /\ Return(p, "copy", "OK")
    /\ resp' = [resp EXCEPT ![p] = shm[ptr[p]]]
    /\ UNCHANGED <<regs, shm, busy, firmware, history>>

(* Mutant of PollTimeout: the channel is given back although the firmware  *)
(* may still be working on the request.                                    *)
PollTimeoutFrees(p) ==
    /\ Return(p, "poll", "ETIMEDOUT")
    /\ db[Home(p)] # "clear"
    /\ busy' = [busy EXCEPT ![Home(p)] = FALSE]
    /\ UNCHANGED <<regs, shm, resp, firmware, history>>

(* Mutant of PollTimeout: the loop has no bound.                           *)
PollForever(p) == pc[p] = "poll" /\ FALSE /\ UNCHANGED vars

(* 5000 polls, a millisecond apart, none of which saw VALID clear; the     *)
(* channel stays busy.                                                     *)
PollTimeout(p) ==
    /\ Return(p, "poll", "ETIMEDOUT")
    /\ db[Home(p)] # "clear"
    /\ UNCHANGED <<regs, shm, busy, resp, firmware, history>>

CallerStep(p) ==
    \/ RefuseBusy(p) \/ Check(p) \/ WriteRegs(p) \/ Ring(p) \/ Mark(p)
    \/ Accept(p) \/ Unmark(p) \/ CopyResponse(p) \/ PollTimeout(p)

-------------------------------------------------------------------------------
(* scmi_el3_fiq_handler and doorbell_irq_handler of the firmware.          *)

(* Mutant of NextChannel: the loop runs to SCMI_MAX_CHANNELS inclusive.    *)
NextChannelInclusive ==
    IF at + 1 <= NumChannels
    THEN fw' = "scan" /\ at' = at + 1
    ELSE fw' = "idle" /\ at' = 0

(* The loop moves on to the next channel, or the handler returns.          *)
NextChannel ==
    IF at + 1 \in Channels
    THEN fw' = "scan" /\ at' = at + 1
    ELSE fw' = "idle" /\ at' = 0

Fiq ==
    /\ fw = "idle"
    /\ \E ch \in Channels : irq[ch]
    /\ fw' = "scan"
    /\ UNCHANGED <<regs, shm, busy, callers, at, msgaddr, msgsz, msg, history>>

(* Mutant of Scan: one write clears the interrupts of all channels.        *)
ScanClearsAll ==
    /\ fw = "scan"
    /\ \/ /\ irq[at]
          /\ irq' = [ch \in Channels |-> FALSE]
          /\ fw' = "read"
          /\ UNCHANGED at
       \/ /\ ~irq[at]
          /\ NextChannel
          /\ UNCHANGED irq
    /\ UNCHANGED <<db, addr, size, shm, busy, callers, msgaddr, msgsz, msg, history>>

(* The interrupt is cleared before the doorbell is read.                   *)
Scan ==
    /\ fw = "scan"
    /\ \/ /\ irq[at]
          /\ irq' = [irq EXCEPT ![at] = FALSE]
          /\ fw' = "read"
          /\ UNCHANGED at
       \/ /\ ~irq[at]
          /\ NextChannel
          /\ UNCHANGED irq
    /\ UNCHANGED <<db, addr, size, shm, busy, callers, msgaddr, msgsz, msg, history>>

(* Mutant of ReadDoorbell: VALID is cleared when the doorbell is read.     *)
ReadDoorbellAcks ==
    /\ fw = "read"
    /\ \/ /\ db[at] = "req"
          /\ fw' = "regs"
          /\ db' = [db EXCEPT ![at] = "clear"]
          /\ UNCHANGED at
       \/ /\ db[at] # "req"
          /\ NextChannel
          /\ UNCHANGED db
    /\ UNCHANGED <<addr, size, irq, shm, busy, callers, msgaddr, msgsz, msg, history>>

ReadDoorbell ==
    /\ fw = "read"
    /\ \/ /\ db[at] = "req"
          /\ fw' = "regs"
          /\ UNCHANGED at
       \/ /\ db[at] # "req"
          /\ NextChannel
    /\ UNCHANGED <<regs, shm, busy, callers, msgaddr, msgsz, msg, history>>

ReadRegs ==
    /\ fw = "regs"
    /\ fw' = "fetch"
    /\ msgaddr' = addr[at]
    /\ msgsz' = size[at]
    /\ UNCHANGED <<regs, shm, busy, callers, at, msg, history>>

(* As many bytes of the message are copied as MESSAGE_SIZE said.           *)
Fetch ==
    /\ fw = "fetch"
    /\ fw' = "answer"
    /\ msg' = shm[msgaddr]
    /\ UNCHANGED <<regs, shm, busy, callers, at, msgaddr, msgsz, history>>

(* The protocol handler's answer goes to the response area.                *)
Answer ==
    /\ fw = "answer"
    /\ fw' = "clear"
    /\ shm' = [shm EXCEPT ![ResponseArea(at)] = Response]
    /\ msgaddr' = 0
    /\ msgsz' = 0
    /\ msg' = Empty
    /\ UNCHANGED <<regs, busy, callers, at, history>>

(* The request or the response area is beyond the region, and the firmware *)
(* faults on it; at EL3 nothing goes on.                                   *)
FirmwareFault ==
    /\ \/ fw = "fetch" /\ msgaddr \notin Region
       \/ fw = "answer" /\ ResponseArea(at) \notin Region
    /\ fw' = "fault"
    /\ msgaddr' = 0
    /\ msgsz' = 0
    /\ msg' = Empty
    /\ UNCHANGED <<regs, shm, busy, callers, at, history>>

ClearValid ==
    /\ fw = "clear"
    /\ fw' = "size"
    /\ db' = [db EXCEPT ![at] = "clear"]
    /\ served' = [served EXCEPT ![at] = @ + 1]
    /\ UNCHANGED <<addr, size, irq, shm, busy, callers, at, msgaddr, msgsz, msg, rung, asked>>

(* The response's length is written once VALID is clear, over the length a *)
(* caller may have written since for its next request.                     *)
WriteSize ==
    /\ fw = "size"
    /\ fw' = "ring"
    /\ size' = [size EXCEPT ![at] = 0]
    /\ UNCHANGED <<db, addr, irq, shm, busy, callers, at, msgaddr, msgsz, msg, history>>

(* The reverse doorbell sets VALID again; the address registers still hold *)
(* the request's address.                                                  *)
RingBack ==
    /\ fw = "ring"
    /\ db' = [db EXCEPT ![at] = "resp"]
    /\ NextChannel
    /\ UNCHANGED <<addr, size, irq, shm, busy, callers, msgaddr, msgsz, msg, history>>

FirmwareStep ==
    \/ Fiq \/ Scan \/ ReadDoorbell \/ ReadRegs \/ Fetch \/ Answer \/ FirmwareFault
    \/ ClearValid \/ WriteSize \/ RingBack

-------------------------------------------------------------------------------
Next ==
    \/ \E p \in Callers : Dispatch(p) \/ DispatchFault(p) \/ CallerStep(p)
    \/ FirmwareStep

(* The poll loop is bounded, so a call keeps moving.  Nothing is assumed   *)
(* of the firmware, which may be slow or stop for good.                    *)
Fairness == \A p \in Callers : WF_vars(CallerStep(p))

Spec == Init /\ [][Next]_vars /\ Fairness

-------------------------------------------------------------------------------
(* The exchange each solo channel is meant to be.                          *)

Even(ch) == served[ch] = rung[ch]

In(ch, where) == \E p \in Callers : Home(p) = ch /\ pc[p] \in where

Stage(ch) ==
    IF In(ch, {"mark", "poll"})
    THEN IF Even(ch) THEN "served" ELSE "asked"
    ELSE IF busy[ch] /\ In(ch, {"idle", "check", "fault"}) THEN "dead" ELSE "free"

SoloChannels == {ch \in Channels : Solo(ch)}

StageOf == [ch \in SoloChannels |-> Stage(ch)]

E == INSTANCE Exchange WITH Channels <- SoloChannels, stage <- StageOf

(* The registers, the busy flag and the firmware's loop implement the      *)
(* exchange: a call is answered once and only then taken, and a channel    *)
(* given up is never used again, so a late answer meets no other call.     *)
ExchangeSpec == E!Spec

-------------------------------------------------------------------------------
(* On a channel with one caller a poll takes a response only after the     *)
(* firmware has taken every doorbell rung on it, the caller's included.    *)
AcceptedMeansServed ==
    \A p \in Callers :
        Solo(Home(p)) /\ pc[p] \in {"accepted", "copy"} => Even(Home(p))

(* A channel with one caller never has more than one doorbell that the     *)
(* firmware has not taken.  It rests on busy staying set after a timeout,  *)
(* when the firmware may still be working on the request.                  *)
OneOutstanding == \A ch \in SoloChannels : rung[ch] <= served[ch] + 1

(* A word that shows a request is not overlooked: its interrupt is pending *)
(* or the firmware is at the channel with the read of the word, or the     *)
(* answer, still to come (or has died there).  It rests on the handler     *)
(* clearing one channel's interrupt, before it reads the word.             *)
DoorbellSeen ==
    \A ch \in Channels :
        db[ch] = "req" =>
            \/ irq[ch]
            \/ at = ch /\ fw \in {"read", "regs", "fetch", "answer", "clear", "fault"}

(* scmi_dispatch copies its payload before it looks at busy, and a         *)
(* response area is the next channel's request area.  So the firmware may  *)
(* read something else than the request that rang, but in these cases      *)
(* only: a later request of a shared channel or after a timeout, or the    *)
(* preceding channel's response.  And it may read with a wrong length: that*)
(* of another call of a shared channel, or, since the firmware writes the  *)
(* response's length when the next request may have been prepared already, *)
(* that of a response it gave before on the channel, shared or not.        *)
Later(ch, m) ==
    /\ m \in Request /\ m[2] = ch /\ m[3] > asked[ch]
    /\ ~Solo(ch) \/ result[ch][asked[ch]] = "ETIMEDOUT"

Answered(ch) == served[ch] > 0 \/ (fw = "clear" /\ at = ch)

Spilled(ch, m) == m = Response /\ ch - 1 \in Channels /\ Answered(ch - 1)

(* A length that is not the one the caller wrote for its own request.      *)
Foreign(ch, n) ==
    \/ n \in Calls /\ ~Solo(ch)
    \/ n = 0 /\ served[ch] > 0

FetchExplained ==
    [][/\ fw = "fetch" /\ fw' = "answer" =>
           \/ msg' = <<"req", at, asked[at]>>
           \/ Later(at, msg')
           \/ Spilled(at, msg')
       /\ fw = "regs" /\ fw' = "fetch" =>
           msgsz' = asked[at] \/ Foreign(at, msgsz')]_vars

(* What scmi_dispatch returns with success on a channel with one caller:   *)
(* the address registers still hold the request's address, so it is the    *)
(* caller's own request, or the preceding channel's response written over  *)
(* it; never the request of another call.  Its length is that request's or *)
(* a response's.                                                           *)
DispatchEchoes ==
    [][\A p \in Callers :
          Solo(Home(p)) /\ pc[p] = "copy" /\ pc'[p] = "idle" =>
              /\ resp'[p] = <<"req", Home(p), call[p]>> \/ Spilled(Home(p), resp'[p])
              /\ resplen[p] = call[p] \/ Foreign(Home(p), resplen[p])]_vars

(* "VALID is 0: mygearvm has finished": the caller may ring again.  The    *)
(* firmware's reverse doorbell never overwrites a request rung since.      *)
ReplyOverwritesNoRequest == [][fw = "ring" /\ fw' # "ring" => db[at] # "req"]_vars
===============================================================================
