------------------------------ MODULE SpiAdapter ------------------------------
(***************************************************************************)
(* The guest's SPI master driver (scmi_spi_adapter.c): a table of sessions *)
(* shared by every bus, a clock flag per bus, and the operations the SPI   *)
(* core calls: setup, the transfer of one message, and cleanup.            *)
(*                                                                         *)
(* The SPI core is external: it serializes setup and transfers of one bus, *)
(* runs the buses beside one another, and calls cleanup from a thread of   *)
(* its own for a device that is not in use.  The buses are probed at the   *)
(* start.  alloc_spi_session is the only code that takes the table's lock, *)
(* so it is one action, and every other access to the table is another.    *)
(***************************************************************************)
EXTENDS Integers, FiniteSets

CONSTANTS Buses,       \* masters probed
          NumChips,    \* num_chipselect, 8 in the code
          NumHandles,  \* SCMI_SPI_MAX_HANDLES, 8 in the code
          MaxOps       \* bound: operations begun in a behaviour

ASSUME SpiAssumption ==
    /\ NumChips \in Nat \ {0}
    /\ NumHandles \in Nat
    /\ NumChips <= NumHandles
    /\ MaxOps \in Nat

Chips   == 0..NumChips - 1
Handles == 0..NumHandles - 1

VARIABLES
    active,   \* g_spi_sessions[i].active, as the set of such i
    devid,    \* g_spi_sessions[i].dev_id
    enabled,  \* clock_enabled of each bus
    pc,       \* where each bus is inside setup or transfer_one
    op,       \* which of the two it is
    cs,       \* chip_select of the device it is for
    handle,   \* the local handle of transfer_one
    cpc,      \* where the thread is that cleans up a device of the bus
    ccs,      \* that device's chip_select
    ci,       \* the loop index of cleanup
    ops,      \* operations begun
    closed,   \* history: this call's session was closed beneath it
    taken,    \* history: the session this call saw free was taken by another
    last      \* what the last operation of each bus returned, with its history

table   == <<active, devid>>
caller  == <<pc, op, cs, handle, closed, taken, last>>
cleaner == <<cpc, ccs, ci>>
vars    == <<table, enabled, caller, cleaner, ops>>

PCs  == {"idle", "rate", "notify", "find", "alloc", "fill", "transfer"}
CPCs == {"idle", "find", "close", "scan", "disable"}
Rets == {"none", "OK", "EBUSY", "EINVAL", "ECLOCK"}

TypeOK ==
    /\ active \subseteq Handles
    /\ devid \in [Handles -> Chips]
    /\ enabled \in [Buses -> BOOLEAN]
    /\ pc \in [Buses -> PCs]
    /\ op \in [Buses -> {"setup", "transfer"}]
    /\ cs \in [Buses -> Chips]
    /\ handle \in [Buses -> Handles]
    /\ cpc \in [Buses -> CPCs]
    /\ ccs \in [Buses -> Chips]
    /\ ci \in [Buses -> Handles]
    /\ ops \in 0..MaxOps
    /\ closed \in [Buses -> BOOLEAN]
    /\ taken \in [Buses -> BOOLEAN]
    /\ last \in [Buses -> [ret : Rets, closed : BOOLEAN, taken : BOOLEAN]]

Init ==
    /\ active = {}
    /\ devid = [i \in Handles |-> 0]
    /\ enabled = [b \in Buses |-> FALSE]
    /\ pc = [b \in Buses |-> "idle"]
    /\ op = [b \in Buses |-> "setup"]
    /\ cs = [b \in Buses |-> 0]
    /\ handle = [b \in Buses |-> 0]
    /\ cpc = [b \in Buses |-> "idle"]
    /\ ccs = [b \in Buses |-> 0]
    /\ ci = [b \in Buses |-> 0]
    /\ ops = 0
    /\ closed = [b \in Buses |-> FALSE]
    /\ taken = [b \in Buses |-> FALSE]
    /\ last = [b \in Buses |-> [ret |-> "none", closed |-> FALSE, taken |-> FALSE]]

Goto(b, from, to) == pc[b] = from /\ pc' = [pc EXCEPT ![b] = to]
CleanGoto(b, from, to) == cpc[b] = from /\ cpc' = [cpc EXCEPT ![b] = to]

(* An operation ends; its history goes into its result.                    *)
Return(b, from, ret) ==
    /\ Goto(b, from, "idle")
    /\ last' = [last EXCEPT ![b] = [ret |-> ret, closed |-> closed[b], taken |-> taken[b]]]
    /\ closed' = [closed EXCEPT ![b] = FALSE]
    /\ taken' = [taken EXCEPT ![b] = FALSE]
    /\ op' = [op EXCEPT ![b] = "setup"]
    /\ cs' = [cs EXCEPT ![b] = 0]
    /\ handle' = [handle EXCEPT ![b] = 0]

Lowest(S) == CHOOSE i \in S : \A j \in S : i <= j

-------------------------------------------------------------------------------
(* setup and transfer_one, up to the clock.                                *)

(* The SPI core calls the driver for chip c.  With no speed given and the  *)
(* clock already on, the clock is left alone (and a setup changes nothing).*)
Begin(b, c, what) ==
    /\ pc[b] = "idle"
    /\ ops < MaxOps
    /\ cpc[b] # "idle" => ccs[b] # c
    /\ \/ pc' = [pc EXCEPT ![b] = "rate"]
       \/ /\ enabled[b]
          /\ what = "transfer"
          /\ pc' = [pc EXCEPT ![b] = "find"]
    /\ op' = [op EXCEPT ![b] = what]
    /\ cs' = [cs EXCEPT ![b] = c]
    /\ ops' = ops + 1
    /\ UNCHANGED <<table, enabled, handle, closed, taken, last, cleaner>>

(* scmi_clock_set_rate fails: the operation returns its error.             *)
RateFails(b) ==
    /\ Return(b, "rate", "ECLOCK")
    /\ UNCHANGED <<table, enabled, cleaner, ops>>

Rate(b) ==
    /\ \/ /\ ~enabled[b]
          /\ Goto(b, "rate", "notify")
          /\ UNCHANGED <<op, cs, handle, closed, taken, last>>
       \/ /\ enabled[b]
          /\ op[b] = "transfer"
          /\ Goto(b, "rate", "find")
          /\ UNCHANGED <<op, cs, handle, closed, taken, last>>
       \/ /\ enabled[b]
          /\ op[b] = "setup"
          /\ Return(b, "rate", "OK")
    /\ UNCHANGED <<table, enabled, cleaner, ops>>

(* The result of scmi_clock_enable_notifications is ignored.               *)
Notify(b) ==
    /\ \/ /\ op[b] = "transfer"
          /\ Goto(b, "notify", "find")
          /\ UNCHANGED <<op, cs, handle, closed, taken, last>>
       \/ /\ op[b] = "setup"
          /\ Return(b, "notify", "OK")
    /\ enabled' = [enabled EXCEPT ![b] = TRUE]
    /\ UNCHANGED <<table, cleaner, ops>>

-------------------------------------------------------------------------------
(* transfer_one: find or open a session, and transfer.                     *)

(* The chip select serves as the handle: whoever opened that session, it   *)
(* is taken for this device's.                                             *)
Find(b) ==
    /\ \/ /\ cs[b] \in active
          /\ Goto(b, "find", "transfer")
       \/ /\ cs[b] \notin active
          /\ Goto(b, "find", "alloc")
    /\ handle' = [handle EXCEPT ![b] = cs[b]]
    /\ UNCHANGED <<table, enabled, op, cs, closed, taken, last, cleaner, ops>>

FreeHandles == Handles \ active

(* Of the calls about to allocate, those that saw session i free.          *)
Overtaken(i, b) == [d \in Buses |-> taken[d] \/ (d # b /\ pc[d] = "alloc" /\ cs[d] = i)]

(* Mutant of Alloc: the session is not marked under the lock.              *)
AllocUnmarked(b) ==
    /\ FreeHandles # {}
    /\ Goto(b, "alloc", "fill")
    /\ handle' = [handle EXCEPT ![b] = Lowest(FreeHandles)]
    /\ UNCHANGED <<table, enabled, op, cs, closed, taken, last, cleaner, ops>>

(* Mutant of Alloc: the loop stops one session early.                      *)
AllocShort(b) ==
    LET free == FreeHandles \ {NumHandles - 1} IN
    /\ \/ /\ free # {}
          /\ Goto(b, "alloc", "fill")
          /\ active' = active \cup {Lowest(free)}
          /\ handle' = [handle EXCEPT ![b] = Lowest(free)]
          /\ taken' = Overtaken(Lowest(free), b)
          /\ UNCHANGED <<op, cs, closed, last>>
       \/ /\ free = {}
          /\ Return(b, "alloc", "EBUSY")
          /\ UNCHANGED active
    /\ UNCHANGED <<devid, enabled, cleaner, ops>>

(* alloc_spi_session takes the first free session, whichever that is.      *)
Alloc(b) ==
    /\ \/ /\ FreeHandles # {}
          /\ Goto(b, "alloc", "fill")
          /\ active' = active \cup {Lowest(FreeHandles)}
          /\ handle' = [handle EXCEPT ![b] = Lowest(FreeHandles)]
          /\ taken' = Overtaken(Lowest(FreeHandles), b)
          /\ UNCHANGED <<op, cs, closed, last>>
       \/ /\ FreeHandles = {}
          /\ Return(b, "alloc", "EBUSY")
          /\ UNCHANGED active
    /\ UNCHANGED <<devid, enabled, cleaner, ops>>

(* Mutant of Fill: transfer_one goes on with its own handle, not with the  *)
(* one scmi_spi_open returned.                                             *)
FillOldHandle(b) ==
    /\ Goto(b, "fill", "transfer")
    /\ devid' = [devid EXCEPT ![handle[b]] = cs[b]]
    /\ handle' = [handle EXCEPT ![b] = cs[b]]
    /\ UNCHANGED <<active, enabled, op, cs, closed, taken, last, cleaner, ops>>

Fill(b) ==
    /\ Goto(b, "fill", "transfer")
    /\ devid' = [devid EXCEPT ![handle[b]] = cs[b]]
    /\ UNCHANGED <<active, enabled, op, cs, handle, closed, taken, last, cleaner, ops>>

Transfer(b) ==
    /\ \/ handle[b] \in active /\ Return(b, "transfer", "OK")
       \/ handle[b] \notin active /\ Return(b, "transfer", "EINVAL")
    /\ UNCHANGED <<table, enabled, cleaner, ops>>

-------------------------------------------------------------------------------
(* scmi_spi_cleanup, without the lock.                                     *)

(* The calls whose session is i.                                           *)
Undercut(i) == [b \in Buses |->
    closed[b] \/ (pc[b] \in {"fill", "transfer"} /\ handle[b] = i)]

CleanBegin(b, c) ==
    /\ CleanGoto(b, "idle", "find")
    /\ ops < MaxOps
    /\ pc[b] # "idle" => cs[b] # c
    /\ ccs' = [ccs EXCEPT ![b] = c]
    /\ ops' = ops + 1
    /\ UNCHANGED <<table, enabled, caller, ci>>

CleanFind(b) ==
    /\ \/ ccs[b] \in active /\ CleanGoto(b, "find", "close")
       \/ ccs[b] \notin active /\ CleanGoto(b, "find", "scan")
    /\ UNCHANGED <<table, enabled, caller, ccs, ci, ops>>

(* scmi_spi_close looks the session up again.                              *)
CleanClose(b) ==
    /\ CleanGoto(b, "close", "scan")
    /\ active' = active \ {ccs[b]}
    /\ closed' = Undercut(ccs[b])
    /\ UNCHANGED <<devid, enabled, pc, op, cs, handle, taken, last, ccs, ci, ops>>

(* Mutant of CleanScan: the loop index runs past the last session.         *)
CleanScanPast(b) ==
    /\ cpc[b] = "scan"
    /\ ci' = [ci EXCEPT ![b] = ci[b] + 1]
    /\ UNCHANGED <<table, enabled, caller, cpc, ccs, ops>>

(* One session after the other, until one is active.                       *)
CleanScan(b) ==
    /\ \/ /\ ci[b] \in active
          /\ CleanGoto(b, "scan", "idle")
          /\ ci' = [ci EXCEPT ![b] = 0]
       \/ /\ ci[b] \notin active
          /\ ci[b] + 1 \in Handles
          /\ cpc[b] = "scan"
          /\ ci' = [ci EXCEPT ![b] = ci[b] + 1]
          /\ UNCHANGED cpc
       \/ /\ ci[b] \notin active
          /\ ci[b] + 1 \notin Handles
          /\ CleanGoto(b, "scan", "disable")
          /\ ci' = [ci EXCEPT ![b] = 0]
    /\ UNCHANGED <<table, enabled, caller, ccs, ops>>

CleanDisable(b) ==
    /\ CleanGoto(b, "disable", "idle")
    /\ enabled' = [enabled EXCEPT ![b] = FALSE]
    /\ UNCHANGED <<table, caller, ccs, ci, ops>>

-------------------------------------------------------------------------------
CallerStep(b) ==
    \/ RateFails(b) \/ Rate(b) \/ Notify(b)
    \/ Find(b) \/ Alloc(b) \/ Fill(b) \/ Transfer(b)

CleanerStep(b) == CleanFind(b) \/ CleanClose(b) \/ CleanScan(b) \/ CleanDisable(b)

Next == \E b \in Buses :
    \/ \E c \in Chips : \E what \in {"setup", "transfer"} : Begin(b, c, what)
    \/ \E c \in Chips : CleanBegin(b, c)
    \/ CallerStep(b)
    \/ CleanerStep(b)

Spec == Init /\ [][Next]_vars

-------------------------------------------------------------------------------
(* A transfer is refused with -EINVAL only when a cleanup closed the very  *)
(* session it had found or opened, between its lookup and its use.         *)
InvalidOnlyByClose == \A b \in Buses : last[b].ret = "EINVAL" => last[b].closed

(* A transfer is refused with -EBUSY only when another bus took, after it  *)
(* looked, the session it had seen free: one bus alone never runs out of   *)
(* sessions, although it opens more of them than it has devices in use.    *)
BusyOnlyByRace == \A b \in Buses : last[b].ret = "EBUSY" => last[b].taken

(* A session is being opened by one call at a time: two buses fill in the  *)
(* same session only when a cleanup closed it while the first was at it.   *)
OpenersDistinct ==
    \A b, d \in Buses :
        (b # d /\ pc[b] = "fill" /\ pc[d] = "fill" /\ handle[b] = handle[d])
            => closed[b] \/ closed[d]
===============================================================================
