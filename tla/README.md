# TLA+ models of scmi-vm-framework

The repository carries ARM SCMI requests from an Android guest, over virtio, to a
Linux PVM, and from there, over a doorbell and shared memory, to the SCMI servers
of a firmware called mygearvm. This directory models the parts of it that hold
state and run concurrently, checks them with TLC on small instances, and proves
the main results with TLAPS for every size.

## The system

    drivers of the guest      scmi_spi_adapter, scmi_i2c_adapter
          | scmi_clock_set_rate, ...
    client library            scmi_client.c      pending table, tokens, waiters
          | send_fn(token)       ^ scmi_rx_complete(token)
    guest transport           virtio_scmi.c      A2P and P2A queues, polling
          | virtqueues
    PVM Linux                 scmi_pvm.c, scmi_doorbell.c, scmi_epoll_server.c
          | registers, shared memory, interrupts
    firmware                  scmi_mygearvm_core.c -> base, clock, power, perf,
                              I2C and SPI protocol servers

| Component | State it keeps | Operations | What makes it hard | What makes it correct |
|---|---|---|---|---|
| Client library (`scmi_client.c`) | 16 pending slots (token, in_len, done, response, wait queue), token counter, send_fn | init, set_transport, a transaction (`scmi_do_xact`), a completion (`scmi_rx_complete`) | slots are filled in outside the lock; timeouts and signals race completions; tokens wrap; re-initialization under callers | each call returns, with its own response; no return path keeps a slot; a refusal means that every slot is used; no wait queue is touched before it is initialized |
| Guest transport (`virtio_scmi.c`) | device pointer and ready flag, two queues | probe, remove, send (post, then poll), two queue callbacks | several callers and a callback take completions from one queue; a completion later than its call; removal under callers | a completion ends one call, the right one; it behaves as the library expects of a transport |
| Doorbell (`scmi_pvm.c`, `scmi_doorbell.c`, `scmi_mygearvm_core.c`) | per channel: doorbell word, message address and size, interrupt, busy flag; shared memory | dispatch (copy, ring, poll, copy), FIQ handler (scan, fetch, answer, clear, ring back) | two processors over registers without a lock; the poll's timeout; a size written after the answer is announced; areas of several channels, and more of them than the region has | a response is accepted after the request was served; no doorbell is overlooked; no message, size or doorbell is overwritten |
| SPI adapter (`scmi_spi_adapter.c`) | 8 sessions shared by all buses, clock flag per bus | setup, transfer_one, cleanup | the lookup is not locked, the allocation is; cleanup runs beside transfers | errors have a cause; two calls never open one session |
| I2C adapter (`scmi_i2c_adapter.c`) | clock flag per bus | transfer | its clock may be another bus's too | it transfers at the rate it has set |
| Doorbell, scmi-xlnx style (`scmi_xlnx.c`) | registers | send, interrupt | no busy check | as the doorbell |
| Epoll server (`scmi_epoll_server.c`) | request fifo, pending list, queued work | request, dispatch work, response | two threads and the firmware: a response before its pending entry; refused sends; a batch that ends with requests left; one message area for all requests of a channel | a request is in one place and moves on; it ends when its own doorbell was served, and its own message was read |
| Clock, power and perf servers (`firmware/scmi_{clock,power,perf}_server.c`) | clock rates, power states, performance limits and levels | one handler call per message | long sequences of legal messages of several agents | levels and rates within limits; limits in order |
| SPI server (`firmware/scmi_spi_server.c`) | four sessions | open, close, transfer | handles are reused at once and belong to nobody; answers get lost | a session serves the user that opened it; none is left over |
| Base and I2C servers | none that a later message reads | answer | | |

The components meet at calls (adapter to library, library to `send_fn`), at a
callback (`scmi_rx_complete`), and at shared state (the virtqueues; the registers
and shared memory; the clocks that several buses set). `VirtioScmi` composes the
library and its transport, `BusClocks` the two kinds of bus over their clocks; the
doorbell, the epoll server and the SPI server are modelled against what their
neighbours may do.

## Modules

**ScmiClient** models `scmi_client.c`. Each action is a section under the spin lock, or
one store outside it. `pending` is the table; `pc` follows a thread through
`scmi_do_xact`: `Start` is the check of `send_fn` and `alloc_xact`, `FetchToken`,
`PutToken` and `PutLen` are lines 149 and 150, `Send` and `SendFail` the call of
`send_fn`, `Wake` and `Expire` the wait, `Consume` the locked `done = true`, then
`GiveUp`, or `Copy` and `Release`. A response is identified by the call it answers; a
zeroed buffer reads as `Blank`, an unwritten one as `Garbage`. `Receive`, `StoreReply`,
`StoreDone` and `WakeUp` are `scmi_rx_complete`, which the only transport of the
repository calls from inside `send_fn` with the token it was given. `wqs` is the set of
slots whose wait queue has a list head: `alloc_xact` initializes it, `scmi_client_init`
zeroes it, and `wake_up`, or a wait that has to sleep, on a queue without one follows a
null pointer and takes the thread down (`QueueFault`). A waiter that leaves a queue
zeroed under it may link the head again or not (`Relinked`); which waiters a queue
holds, what two of them do to its links, and a lock that init zeroes while somebody
holds it, are left out, so that a store under the lock is one step whatever init does
beside it. The transport itself is left open (`TransportStep`): it may fail, complete,
or bring the thread down. The protocol wrappers differ, for the library, in whether they
have arguments (`InLens`). Two slot hazards are visible here and in the source: the
allocation leaves no mark in the slot, and `done` is never reset.

**VirtioScmi** extends it with `virtio_scmi.c`. `dev` is `g_scmi_dev` and its ready
flag, `tx` the place inside `virtio_scmi_send`. `Enter`, `Post`, `PollHit` and
`PollTimeout` are its parts; `ProbeInit`, `ProbeBind` and `ProbePublish` the order in
which probe publishes things; `RemoveBegin` and `RemoveEnd` the removal, after which
a thread still inside uses a freed device (`UseFreed`). `RxCallback` and
`TxCallback` are the queue callbacks. `HostAnswer` is external. In the repository
`dev->vqs` is never filled in, a TODO of its README, and every send ends with
-ENODEV; `Integrated = FALSE` is that state, `Integrated = TRUE` the driver with the
TODO done and the rest unchanged. The runs use TRUE, where all the code is reached
(`Enter` at `ready` and not `Integrated` is the same step as at `removing`); the
proofs hold for both. The removal waits for nobody, nor does `scmi_client_deinit`,
whose comment (`scmi_client.c:118`) announces it: `RemoveEnd` is enabled with calls in
progress, and `UseFreed` is part of what the passing runs go through.

**Doorbell** models both sides of the doorbell. Each access to the doorbell word, to the
interrupt, to the busy flag, to a message or to the message registers is an action:
`Dispatch`, `Check`, `WriteRegs`, `Ring`, `Mark`, `Accept`, `Unmark`, `CopyResponse` and
`PollTimeout` for the PVM; `Fiq`, `Scan`, `ReadDoorbell`, `ReadRegs`, `Fetch`, `Answer`,
`ClearValid`, `WriteSize` and `RingBack` for the firmware. `db` keeps of the doorbell
word the VALID bit and the direction, `addr` and `size` are the message registers. The
registers of a message are written together, and read together: every request of a
channel has the same address, so that of the three only the size can differ between two
accesses, and each of its writes and reads is one. A length is named by the call whose
request has it, 0 for a response's. Shared memory is counted in areas of 32 KB, as the
code lays it out, and ends after `ShmAreas` of them: a copy beyond may fault, in the PVM
(`DispatchFault`) or in the firmware (`FirmwareFault`), or find memory there. `Callers`
says which threads dispatch on which channel: `virtio_scmi_rx_callback` calls
`scmi_dispatch` for whatever channel a message names, and nothing there serializes two
calls. `rung`, `asked` and `served` are history. What a protocol server answers is one
value, `Response`: a dispatch never returns the response to its own request, so whose
response it is makes no difference (see `DispatchEchoes`).

**Exchange** is what a doorbell channel promises a single caller: a call is asked,
then served, then taken; or it is abandoned, and then the channel stays out of use,
because its answer may still come. `Doorbell` implements it on every channel with
one caller (`ExchangeSpec`), also while others share the channel next to it: the
stage is a function of the caller's place, of the busy flag and of `rung` and `served`.

**EpollServer** models `scmi_epoll_server.c` between a guest that submits requests
and a firmware that answers. `fifo` and `pending` are its two lists, `queued` the
state of the work item. The event thread is `Submit` and `Kick` (a request comes),
then `Event`, `PollTimeout`, `PollClear`, `Unmark` and `Match` (the firmware rings back,
and every channel is polled in turn); the worker is `WorkStart`, `Take`, `Ring`,
`Mark`, `Add`, `SendRefused`, `WorkDone` and `WorkEnd`. `Serve` and `RingBack` reduce
the firmware to what `Doorbell` shows in the doorbell word and to the message it reads.
The server hands no response back (line 209 is commented out), and the address its poll
returns is the request's own, as in `Doorbell`. So the model does not follow responses
but turns: `served` is the request whose doorbell the firmware has served and no poll has
taken, `turn` the one a poll took, `endedBy` the turn on which the server ended a
request. `area` is the message in the one area of a channel (line 124), `msg` the one the
firmware has read. The memory behind `g_shm_base_virt` is defined nowhere; it is taken as
apart from the region in which the firmware writes its responses (`Doorbell` has the two
in one). The two calls that lead
into the server are comments in the repository (lines 264 and 331) and are taken as
made. Two lines, as they are written, leave nothing to check behind them, so they
are parameters: `StoresPointer` (line 136 stores bytes of the request where the
worker expects a pointer) and `Polls` (line 195 asks for no poll at all). FALSE and
0 are the code; the run `epoll` uses TRUE and 1, the rest of the code unchanged. The
history variables `early` and `idle` name two races: a turn taken before its
request is pending, and a poll that takes an idle doorbell for a served one.

**RequestLife** is what the two queues of the epoll server promise of each request: it
goes forward through its stages (queued or leaked; taken; refused or pending; ended), is
taken after every earlier request that was queued, and is ended after every earlier
request of its channel. `EpollServer` implements it
(`RequestsLiveInOrder`); the stage is read off the lists, the worker's local and the
history, whatever the two races above do to whose turn it is.

**ProtocolServers** models the servers of the firmware that keep state between
messages, but for the SPI server. `perf`, `clock` and `domain` are one entry each of
`g_perf_domains`, `g_clocks` and `g_power_domains`: a message names one entry and
touches no other, so one stands for all. The FIQ handler runs one message at a time,
so a handler call is one action (`LimitsSet`, `LevelSet`, `RateSet`, `RateNotify`,
`PowerSet`, `PowerNotify`); a message that only reads, or is refused, is a step that
changes nothing. The flags of PERF_LIMITS_SET choose which limit is stored; both
values are compared with the limits in force either way (`Acceptable`).

**SpiServer** models the session table of `scmi_spi_server.c` from the side of its
users. `active` and `devid` are `g_sessions`; `Open`, `OpenRefused`, `Close` and
`Refused` (a handle that `session_from_handle` rejects) are the messages. A user has
a handle it believes in (`claim`); the answer to any message may be lost, because
`scmi_dispatch` and `scmi_do_xact` give up while the firmware still works, and a user
may restart (`Restart`). `sound` is history: the users whose session nobody closed.

**SpiAdapter** models the adapter's session table and clock flags under concurrent
buses. `active` and `devid` are `g_spi_sessions`; `Begin`, `Rate`, `RateFails` and
`Notify` are setup and the clock part of a transfer; `Find`, `Alloc`, `Fill` and
`Transfer` its session part; `CleanFind`, `CleanClose`, `CleanScan` and `CleanDisable`
the cleanup of a device, the scan one session at a time. `closed` and `taken` are
history. The SPI core is external: setup and transfers of a bus are serialized, a
cleanup runs beside them for a device not in use.

**I2cAdapter** models a transfer of `scmi_i2c_adapter.c`: `Xfer`, `SetRate`, `SetFails`
and `SetFlag` turn the clock on, `Move` passes a message on, `Finish` gives the clock
flag back. **BusClocks** runs SPI masters and I2C adapters beside one another over
the clocks their device trees name (`ClockOf`), and keeps of each clock whose rate it
has. A set that fails may have reached the clock server or not (`MaySetBy`).

The `MC*` modules extend a specification for TLC; `*Proofs` modules hold theorems.
The operators called "Mutant of ..." are variants of a definition with one plausible
bug; no action uses them. Each is a bug that one of the properties finds.

## Runs

Deadlock is checked in `servers` only: in the other systems callers may stop
calling, and the number of calls is bounded. Symmetry (of the two SPI buses) is used
in `spi` only, which checks invariants.

| Run | Instance | Properties | Outcome |
|---|---|---|---|
| `client_threads` | 2 threads, 3 slots, 1 token, 3 calls, 2 inits | TypeOK, LenHeld, TwoSlotsPerCall, DoneIsFinal, BusyOnlyWhenUsed, StrayCompletionExplained | hold |
| `virtio` | 2 threads, 2 slots, 2 tokens, 2 calls, ring of 1 | CompletionConserved, ClientSpec, CallsReturn | hold |
| `virtio_serial` | 1 thread, 3 slots, 2 tokens, 4 calls, 2 inits, ring of 2 | OwnReply, AnswerNotLost, QueuesReady, PunctualOwnResponse, OneSlotPerCall, ClientSpec | hold |
| `doorbell` | 2 channels, 2 callers on the first and 1 on the second, 3 calls, a region of 1 area | TypeOK, AcceptedMeansServed, OneOutstanding, DoorbellSeen, FetchExplained, DispatchEchoes, ExchangeSpec | hold |
| `epoll` | 2 channels, 4 requests, fifo of 3, batches of 2 | TypeOK, EachInOnePlace, StrandedOnlyByFullBatch, OwnTurnUnlessDisturbed, BusyHasWaiter, ReadsOwnOrLater, LeavesFifo, RequestsLiveInOrder | hold |
| `spi` | 2 SPI buses, 1 I2C bus, 1 clock, 2 chips, 2 sessions, 3 operations and 2 I2C transfers | CTypeOK, InvalidOnlyByClose, BusyOnlyByRace, OpenersDistinct, RateOwnOrOvertaken | hold |
| `servers` | values 0 to 5, limits 1 and 4 and rates 1 to 3 at boot | TypeOK, LevelClamped, LimitsCrossTogether | hold |
| `spi_server` | 3 users, 2 sessions, 2 devices, 3 faults | SoundSessions, DamageBounded | hold |
| `client_crossed` | 2 threads, 2 slots, 3 tokens, 3 calls | NotAnothersReply | violated |
| `virtio_late` | 1 thread, 3 slots, 3 calls | OwnResponse | violated |
| `doorbell_overwrite` | 1 channel, 1 caller, 3 calls, a region of 2 areas | ReplyOverwritesNoRequest | violated |
| `epoll_as_written` | 2 channels, 2 requests, `StoresPointer` FALSE, `Polls` 0 | WorkerTakesRequests | violated |

What the passing runs show:

- `client_threads`: even with two threads in one slot, a slot marked busy belongs to
  a request in progress, a finished slot stays finished, a call is refused only
  when every slot is finished or in the hands of a call; a second init beneath the calls
  changes none of that. Finished slots are never given back, so calls use the table
  up, at worst two slots each: the call's own and the one its completion is stored in. The
  run reaches that: of two calls with one token each finishes a slot that is not its own,
  all three are used, and the third call is refused. The completion that finishes the slot
  no call was ever given is then lost in its wait queue, `done` being set before
  `wake_up`; until a second init a completion gets there only with token 0, and only when
  another call has taken the caller's own slot from it.
- `virtio`: whatever the callbacks, the host and a removal do, the driver's steps are
  steps the library allows of a transport, liveness included (`ClientSpec`), so what
  holds of `ScmiClient` holds above this driver; and successes never outnumber the
  host's answers, although anybody takes anybody's completion. Every call returns, unless
  a device freed under it, or a wait queue without a head, takes its thread down.
- `virtio_serial`: with one calling thread the lookup by token finds the right slot,
  across token wrap and zeroed slots with token 0, until the device is probed a second
  time; and the content is the host's answer to the call unless a send failed before. No
  completion reaches a wait queue that is not ready. Each call costs one slot: with four
  calls on three slots the fourth is the first that may be refused. The second probe is
  part of the run because it is legal; the properties say where their guarantee ends.
- `doorbell`: on the channel with one caller a poll that sees VALID clear does so after
  its request was served, and the channel implements `Exchange`, liveness included. On
  either channel a doorbell word that shows a request is not overlooked; the one that
  `doorbell_overwrite` finds overwritten shows none any more. What can go wrong with the
  messages has a list: the firmware reads the request that rang, a later request of a
  shared channel or of one given up, or the preceding channel's response; a dispatch
  returns its own request or that response. And so has the length: that of another call
  of a shared channel or, since the firmware writes MESSAGE_SIZE when VALID is clear
  already, that of a response it gave before, also with one caller alone.
- `epoll`: a request is in one place only, through a full fifo, a refused doorbell and
  every order of the two threads; what strands a request is a full batch and nothing
  else; a request is ended on the turn of another, or a channel stays busy for nobody, only
  after one of the two races named above; what the firmware reads for a doorbell is the
  message of its request or of a later one of the channel, which the guest put over it
  while the request waited (the run has both); a refused request does not hold up the ones
  behind it; and every request lives as `RequestLife` says, the requests of a channel
  matched in their order although the channel is free before the match.
- `spi`: -EINVAL and -EBUSY out of a transfer each have one cause, a race that the
  history names; and a bus moves data at its own rate unless another bus on its clock
  has set another since. The clock flag never stands for a rate that was not set.
- `spi_server`: a session that nobody closed serves the user that opened it and no
  other; each lost answer and each restart costs at most one stale handle or one session
  that nobody can close, however long the handles are passed on.
- `servers`: after any sequence of messages the level is within the limits, the rate
  within the clock's range; the limits become crossed only by a single message that
  raises the minimum over the maximum it lowers, never by agents setting one limit
  each, and the next accepted change uncrosses them.

Bounds. Two threads, buses or channels show every pairwise race of the code, which has
no operation of more than two parties. Two slots show sharing; with three slots one is
finished, one in use, one untouched. Two tokens make the counter wrap within three
calls. With one token, `client_threads`, all calls in progress have the same, as after a
wrap or an init under the calls: completions and slots get mixed up as much as they can,
and nothing its properties say depends on telling tokens apart (the stray completion has
token 0 there by the bound; that it is the only one is the theorem `StrayExplained`);
`virtio` has two threads and two tokens. Two inits put one beneath calls in progress. A
ring of one is full with one stale request. Three calls on two channels give a timeout,
a refusal and a call after either, on one channel or shared out between the two
(`MaxTotal`); channel 1 is the one with a single caller because its request area is
channel 0's response area. A region of one area puts the response of channel 0 and both
areas of channel 1 beyond it, so that either side faults, or not; the code has two areas
for sixteen channels, where the same happens from channel 1 on. `doorbell_overwrite` has
one channel, both of whose areas are in the region. Four requests overflow a fifo of
three, and leave one behind after a batch of two that filled while the third was queued.
Three operations on two buses give a transfer, a cleanup and a transfer after it, one
clock for all buses the most sharing there is. Three users on two sessions give a
refused open, and three faults a stale handle that is passed on twice. Six values leave
room below, between and above the boot limits, and for crossed limits with a value
between them. The bounds are the constants `MaxCalls`, `MaxTotal`, `MaxInits`, `MaxOps`,
`MaxXfers`, `MaxMsgs`, `MaxRequests` and `MaxFaults`, which appear only as guards of the
actions that start an operation or a fault, and `MaxValue`.

Fairness. In `ScmiClient` and `VirtioScmi` a thread inside a call keeps moving: the
library's wait has a timeout of five seconds, the driver's poll one of two. Nothing is
assumed of the host, of a probe or of a new call. In `Doorbell` a caller inside a
dispatch keeps moving (its poll is bounded by 5000 rounds); nothing is assumed of the
firmware, which may be slow, or dead after a fault. In
`EpollServer` the workqueue runs queued work to its end, and the event thread, whose
polls are bounded, keeps going; nothing is assumed of the guest or of the firmware.
`BusClocks`, `SpiServer` and `ProtocolServers` state safety only.

## Where the code and its comments differ

Each run that is violated checks one property that states what a comment says.

| Run | The comment | What the code does |
|---|---|---|
| `client_crossed` | `scmi_client.c:7`, thread-safe | the slot is marked outside the lock, or not at all for a request without arguments; two threads share it, and one returns the response to the other, which was found and stored there by the first's token |
| `virtio_late` | `virtio_scmi.c:69`, 0 means that the response was written | the completion of a call that timed out ends the next |
| `doorbell_overwrite` | `scmi_doorbell.c:128`, VALID 0 means that mygearvm has finished | the reverse doorbell comes after it: a caller whose poll saw VALID 0 rings for its next call, and the reverse doorbell overwrites that |
| `epoll_as_written` | `scmi_epoll_server.c:148`, take a request from the queue and send it | the queue holds bytes of the request, and the worker uses them as its pointer |

Other places where a comment says something else are stated by properties that hold:

- `done` is never reset, so a slot serves one finished call (`DoneIsFinal`), and after
  16 of them a call is refused with none in progress (the other disjunct of
  `BusyOnlyWhenUsed`); `scmi_client.h:49` calls 16 the limit of concurrent transactions,
  and `scmi_client.c:186` says that the slot is released.
- `DispatchEchoes`: a dispatch returns what lies in the request area, where
  `scmi_doorbell.c:130` reads the "response address" and `scmi_pvm.c:90` copies the
  response: the registers still hold the request's address.
- `FetchExplained` lets the firmware read the preceding channel's response as a
  request: `scmi_doorbell.h:43` and `:46` give each channel 32 KB, and the response of a
  channel lies in the next channel's request area.
- A poll waits for VALID to be clear, while the reverse doorbell that announces a
  response sets it. An event of the epoll server therefore finds a channel served only if
  another channel's event makes it look between the two stores of the firmware;
  `EpollServer` has both outcomes (`PollClear`, `PollTimeout`).

## Proofs

All theorems are for every value of the constants that the named assumptions allow
(`ClientAssumption`, `VirtioAssumption`, `DoorbellAssumption`, `EpollAssumption`,
`SpiAssumption`, `ClocksAssumption`, `SpiServerAssumption`, `ServersAssumption`: sizes
are positive, bounds are naturals, chip selects fit the session table as 8 fits 8, boot
values are in order as in the servers' tables).

- `ScmiClientProofs`. `TypeCorrect`; `DoneStaysDone`; `LengthIsHeld`, which is inductive
  with the types; `RefusedOnlyWhenUsed`, a fact of each step from it, as a free slot is
  one neither done nor with its length set. `TableLastsHalf` rests on a count
  (`WearInv`): the slots finished or held, and the calls whose completion is still to be
  stored, are together at most twice the calls made, because a call adds one to each
  when it starts and turns the second into the first when it stores; no step else adds
  to either. `StrayExplained` follows `FirstUntouched`: until the second init the slots
  nobody has taken are at the end of the table, as the allocation takes the first one
  free, so that a search passes the caller's own slot before it meets one of them.
  `SerialCallerGetsItsReply`, `SerialAnswerNotLost` and `SerialTableLasts` assume one
  thread; OwnReply is not inductive, and its strengthening `FirstBindingInv` says that
  before the second init every slot below the call's own is done, that its own is not
  while it is sent, and holds the token sent (so the search by token stops there and
  nowhere before), that its wait queue is initialized (`SerialQueuesReady`), that the
  reply in a slot is the call's once it is stored, and that the finished slots are no
  further up the table than there were calls. The lemmas `Unfair...` are stated without
  fairness, so that the driver's proofs can use them.
- `VirtioScmiProofs`. `DriverIsATransport`: every step of the driver is a step of
  `ScmiClient` or leaves its variables alone, so `VSpec => Init /\ [][Next]_vars`, the
  safety half of `ClientSpec`. `LibraryHoldsAboveDriver`, `TableLastsAboveDriver` and
  `SerialCallerAboveDriver` carry the library's results over.
  `CompletionsCounted` needs `PostInv` (a call is posted once, by its one thread, and what
  is on the ring has not been answered) and sorts every step by what it does to the three
  counts; it assumes finitely many threads, and so does `DriverTypeCorrect`, as the bound
  of the queued completions comes from the counting. `PunctualCallerGetsItsAnswer` assumes
  one thread; its invariant says that, until a send fails, the call being polled for is
  alone on the queues, so the completion that ends a poll is its own.
- `DoorbellProofs`. `TypeCorrect`; `AcceptedWasServed` and `OneDoorbellWaits` for every
  channel with one caller, by `RingInv`, which relates each place of the caller and of
  the firmware to the doorbell word, the busy flag and the difference of `rung` and
  `served`. `NoDoorbellOverlooked` is inductive given the types, and about words that show a
  request: no word is overlooked. `SoloChannelsExchange` is the safety half of the
  refinement: each step maps to a step of `Exchange` or to a stutter, given `RingInv`.
  `FetchIsExplained` and `DispatchReturnsEcho` follow a request from the copy to the
  read: what an area may hold depends on where its callers are, and on how far the
  preceding channel's answers are. For the lengths, `SizeInv` says what MESSAGE_SIZE,
  and what was read from it, may be while a request is prepared, rung and served: the
  caller's own, another caller's on a shared channel, or a response's once one was
  given.
- `EpollServerProofs`. `TypeCorrect`, with a lemma on removing an entry of the pending
  list; `OnlyFullBatchStrands`, by the invariant that a fifo with requests and no run to
  come means the event thread is about to queue one, or the last batch was full.
  `UndisturbedEndedByOwn` and `UndisturbedBusyWaits` follow from one invariant per channel,
  `OneAtATime`: free, rung, waiting, polled, or freed with its request still to match (when
  the worker may already have rung it again), each with what the pending list holds for
  the channel and whether its request is at the doorbell, rung or served. Lemmas say what
  appending and removing an entry of another channel, or of this one, does to the list.
  `LaterMessageReplaces`, by `ReadInv`: an area holds the latest message of its channel, and
  a doorbell that shows a request was rung for one of it.
  `NoRequestLostOrTwice` and `ServerKeepsRequestsInOrder` assume `StoresPointer`. Their
  invariant `LifeInv` has two halves. `PartsInv`: the requests held (in the fifo, by the
  worker, in the pending list), the refused, the leaked and the ended are disjoint and
  make up the requests submitted. `OrderInv`: from the head of the pending list through the
  worker's request to the tail of the fifo, requests stand in the order of submission, so
  that none is held twice. From it each step is a step of `RequestLife` or
  changes no stage (`StepLife`). Without the hypothesis the two say nothing:
  `AsWrittenServesNone` shows that the fifo as line 136 fills it serves no request at all.
- `SpiAdapterProofs`. `TypeCorrect`; `InvalidWasClosed`, `BusyWasRaced` and `OpenersApart`,
  by one invariant that says of
  every call between its lookup and its transfer whether its session is still active
  or the history has recorded why not.
- `BusClocksProofs`. `SpiMastersUndisturbed`: the composition implements `SpiAdapter`, so
  that its three results hold beside I2C adapters (`...BesideI2c`); `RatesAccounted`, by
  the invariant that a set clock flag, or a place behind the set, means that the bus has
  set the rate and owns it still or was overtaken.
- `SpiServerProofs`. `TypeCorrect` and `SessionsSound`, inductive together;
  `DamageIsBounded`, by comparing the two sets before and after each message: a close
  with a stale handle removes one stale user and makes at most one more, and only a
  fault adds to the sum.
- `ProtocolServersProofs`. `TypeCorrect`; `LevelStaysClamped`, inductive given the types;
  `LimitsCross`, a fact of each step. The first two rest on one lemma about `Clamp` (its
  result is one of its arguments, at most the upper bound, and at least the lower one
  unless they cross).

Only model-checked: the liveness properties (`CallsReturn`, `LeavesFifo`, and the
fairness halves of `ClientSpec` and `ExchangeSpec`), which are outside the prover's
reach. Every invariant and every other action property of the passing runs is proved. The
types of `VirtioScmi` and `SpiServer` are proved and no run repeats them: the counting,
there, says more.

## Not modelled

- The PVM's doorbell interrupt handler, the event queue and `scmi_client_deinit`
  change no state but logs and their own interrupt bit.
- -EINVAL returns on arguments, before any state is touched.
- Probe and removal of the SPI and I2C adapters. The SPI `remove` reads driver data that
  is never set; the I2C core waits for running transfers before it removes an adapter.
- The exit of the epoll server, which frees what its thread may still use, and the
  error paths of its init. The list of clients is initialized and never used.
- `scmi_xlnx.c`: its registration with the SCMI core is a TODO, so no message enters it.
- The stack buffer that stays on the ring after a timeout, concurrent access inside
  the virtqueue library, and unmapped doorbell registers (each would need a model of
  memory or of hardware that the repository does not contain).
- The base and I2C servers keep no state that a later message reads.
- The status word of a response and the SCMI header: messages are identified by the
  call they belong to. The bytes that a wrong MESSAGE_SIZE cuts off or adds, too: a length
  is only told from another.

## Plan

Done: every component that keeps state and that the repository calls or registers, and
their proofs. Left, in this order:

1. `scmi_xlnx.c` as a second driver of `Doorbell`'s registers, once it is registered.
2. A probe or removal of a bus beside the others, once the shared lock is initialized in
   one place.
