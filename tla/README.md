# A TLA+ model of the Sequential Exchange Protocol (SEQEX)

SEQEX is a small peer-to-peer transport protocol: it delivers packets losslessly over a transport
that may lose, duplicate and reorder them, hands SeqCst packets over in order, and lets each side
reply to any packet it received. This directory models the implementation in `src/`: TLA+ modules,
the TLC runs that check them on small instances, and TLAPS proofs of what holds for every instance.
`PROJECT.json` is the index: components, runs, the map from definitions to source lines, mutants,
findings, hazards and theorems.

## The system

| Part | Source | State | Operations |
|---|---|---|---|
| State machine `no_std::SeqEx` | `src/no_std.rs` | next sequence number to send and to expect, send window and receive window of `CAP` slots, reply numbers issued and not yet returned (`concurrent_replies`), the SeqCst lock (`is_locked`), the next resend deadline | `try_send_direct[_with]`, `try_receive_raw_and_direct`, `try_pump_raw`, `reply_raw_and_direct`, `ack_raw_and_direct`, `unlock_raw`, `service_direct` |
| Single-threaded wrapper | `src/single_thread.rs` | `ReplyGuard` (reply number, lock held or not), `SeqCstGuard` | `try_send`, `receive`, `try_pump`, `service`; `reply`, `reply_stay_locked`, `ack`, `unlock` and the two `Drop`s |
| Packets, transport trait | `src/transport_layer.rs` | none | five packet variants, `send`, `time` |
| Thread-safe wrapper | `src/sync.rs` | mutex around the state machine, two condition variables, waiter counters, `closed` | blocking `send`, `send_timeout`, `receive`, `pump`, `close`, guards |
| Async wrapper | `src/tokio.rs` | mutex, two `Notify`, a oneshot per waiting packet, the queue of deadlines | `send`, `reply`, `receive`, `service_task` |
| `MpscTransport`, iterators, examples | `src/sync.rs`, `src/tokio.rs`, `src/no_std.rs`, `examples/` | - | forwarding, reading |

The wrappers all drive the same state machine. An application calls a wrapper to send; the wrapper
gives packets to the transport through a callback; packets that arrive are fed to `receive`; what
can be processed comes back with a guard, and consuming the guard sends the reply or the Ack and
returns the reply number. Packets that have to wait stay in the receive window until the caller
pumps. A timer makes the caller run `service`, which resends what has not been answered.

What makes it correct:

* *state machine* - a packet leaves the send window only when it was answered; a packet is handed to
  the application once, a SeqCst packet after everything sent before it; an issued reply number always
  has a slot for its reply; windows and array stay in bounds; nothing is resent late;
* *wrapper* - every guard returns exactly one reply number, the SeqCst lock is released exactly once;
* *two peers* - both agree on what replies to what and which exchanges have ended; every packet is
  eventually delivered and answered;
* *sync, tokio* - no waiter sleeps forever, `close` lets everyone go.

What makes it hard: duplicates and late packets meeting slots that were given to newer numbers,
sequence numbers that wrap, sends and promised replies competing for slots, two full windows waiting
for each other, lock ownership that moves between guards, and threads that wait on two condition
variables for what other threads do. `hazards` in `PROJECT.json` lists each
with the line where it bites.

## Modules

* **`SeqEx`** - the state machine without variables: one record for the struct (`SeqExState`), one
  operator per method, with the source's names where possible. `Receive(s, m)` is the state after
  `try_receive_raw_and_direct`, `ReceiveOutcome(s, m)` the exit it takes; `Pump`, `TrySend`,
  `ReplyRaw`, `AckRaw`, `UnlockRaw` and `Service` likewise. Each data-carrying packet variant is one
  record (`reply_no = None` for a payload, `seq_cst` for the SeqCst variants). `u32` arithmetic is
  `Wrap`, modulo `SeqNoMod`; a slot is `Idx`, modulo `CAP`. Where the code only has a
  `debug_assert`, the model continues as a release build does. Operators called a *mistake*
  (`IsDuplicate_Never`, ...) are mutations used to show that the properties can fail; nothing in the
  specifications uses them.
* **`SeqExWindows`** - where the entries of the two windows of a `SeqEx` sit, and when they are due:
  the predicates that the invariants of `Endpoint` and the proofs about `Exchange` share.
* **`Endpoint`** - one `SeqEx` with a clock against an environment that may do anything: all packets
  in `Wire`, in any order and number, and raw calls with any reply number. One action per method.
  `wake` is the time until which the caller of `service` sleeps. Its environment includes every
  peer, whether it follows the protocol or not.
* **`ServiceWalk`** - `Endpoint` with `service_direct` as its users call it: one call resends at most
  one packet, `iter` is the caller's `ServiceIter`, and between two calls anything of `Endpoint` may
  happen, time may pass, or the caller may drop the iterator. (`Service` in `SeqEx` is the walk that
  the wrappers make: under one lock, to its end.) A bound: not so many packets are sent during a
  walk that all sequence numbers are used up.
* **`Channel`** - the promise, with no windows, numbers, copies or resends: what each peer sent, what
  it was handed and with which link, which packets it still holds open, whether one of them is in
  the critical section (`holder`, or `detached` after it was answered), and which exchanges it knows
  to have ended. Its actions are the calls of `src/single_thread.rs` as two applications see them.
* **`Exchange`** - two peers with the wrapper and guards of `src/single_thread.rs` over a transport
  that delivers packets in any order and any number of times, and loses up to `MaxLosses` of them;
  resends happen at any moment. `sent`, `delivered` and `acked` are history variables that
  record what the applications saw; payload `d` of a peer is its `d`-th packet. `repeated` records
  that a second copy of an unordered packet was handed over, which the code allows while the slot
  says `Unlocked` (see below). Guards may be held
  for any time and in any number, as `to_components` allows. Time stands still and the resend interval
  is 0: every unanswered packet is always due, the most general schedule; the timer itself is checked
  in `Endpoint`. `Promised` is the refinement mapping to `Channel`: the open packets are those of the
  guards, the holder is the guard that holds the lock, detached means that there is a `SeqCstGuard`.
* **`Sync`** - one `SeqEx` behind the mutex of `src/sync.rs`, with `wait_on_recv`, `wait_on_reply`, the
  waiter count and flags and `closed`. `pc[t]` says where a thread is: outside of a call (`idle`),
  waiting, woken but without the mutex, or about to notify. What happens under the mutex is one step;
  the notification is another, since `notify_recv` and `notify_reply` release the mutex first, and a
  guard reaches the application only after it (`returning`). Condition variables may wake a thread for
  no reason, as the standard library allows. Senders block in `send` or, the `TimedSenders`, in
  `send_timeout`, whose time may be up whenever they look; receivers call `receive`, `try_receive`,
  `pump` and `try_pump`, as `RecvIter` does; handlers consume guards, call `service` and `close`. The
  remote peer is an environment: it sends the packets of `Remote` any number of times and acks the
  rest. `gave_up` is a history variable: some `send_timeout` has timed out.
* **`Tokio`** - one `SeqEx` behind the mutex of `src/tokio.rs`. `pc[t]` says where a task is: outside of
  a call, at one of its awaits (`Awaits`), in the gap between releasing the mutex and creating the
  future it awaits (`gap_recv`, `gap_reply`), or about to notify; `resume[t]` and `waking[t]` say what
  it does after its notifications. `permit` is the permit that `Notify` keeps after a `notify_one`
  that found nobody; `notify_waiters` keeps none. A packet in a window carries the task whose oneshot
  channel is stored with it, `result[t]` is what that channel holds, and `Cancel` drops a future at
  any await: its channel is renamed `Nobody`, what was in it goes to `leaked`, and a notification it
  had got is passed on, as tokio does. `ReceiveDelivers` is the whole of `receive_inner` under the
  mutex with its pump loop. `updates` and `service_ts` are the queue and the deadline of the service
  task. The remote peer is the environment of `Sync`. History variables name what the properties
  except: `missed` (a `notify_waiters` came in the gap), `collapsed` (two `notify_one` became one
  permit), `forgotten` (a future was dropped before it queued its update).
* **`MCEndpoint`, `MCExchange`, `MCSync`, `MCTokio`** - the constants of the instances; each `.cfg` is one run.
* **`SeqExProofs`, `WindowProofs`** - lemmas about the operators of `SeqEx`; **`EndpointProofs`**,
  **`SyncProofs`**, **`TokioProofs`** and, each on top of the one before, **`ExchangeProofs`**, **`OrderProofs`**,
  **`AnswerProofs`** - the theorems (see Proofs).

Abstractions: data is a model value, a number or, in `Tokio`, the task that waits for it; outside of
`Tokio` `do_pump` is not recorded, instead `PumpNext` may be
taken whenever there is something to pump, and need never be taken; the
errors that only tell the caller to try later leave the state alone and have no action of their own.

## Runs

Bounds: `CAP` is 3 or 4, the smallest windows in which one or two reply numbers can be out; `SeqNoMod`
is 12 or 16 with an initial number just below it, so every run wraps; numbers used stay below half of
the range, as the range check requires. Payloads, replies, deliveries and losses are capped by
`MaxPayloads`, `MaxReplies`, `MaxDeliveries`, `MaxLosses`, the packets of `Sync` and `Tokio` by `MaxPackets`,
time by `MaxClock`, and in `Tokio` `recv_waiters`, which counts dropped futures too, by `MaxWaiters`.
`QueueSize` is the 8 of the code. `Sync` and `Tokio` start at 0: the wrap is the business of the other modules.

| Run | Instance | Shows |
|---|---|---|
| `endpoint_any` | CAP 3, numbers at, one above and beyond the expected one, both kinds, replies, a stray ack, resend interval 2, clock to 3 | `TypeOK`, `ReservationBound`, `OwnSendSlot`, `OwnRecvSlot`, `ResendOnTime`, and `SavedUntilIssued`: a saved packet leaves its slot only when its reply number is issued; `WalkMissesNone`: an interrupted walk of `service_direct` still meets every packet or knows its time |
| `exchange_full` | CAP 4, four payloads and a reply against one of each, all SeqCst | `ExactlyOnce`, `Lossless`, `AnswerAwaited`, `LinksAgree`, `EndsAgree`, `ReplySlotsFree`, `OwnRecvSlot` with a full window beside a promised reply; `ImplementsChannel`: the two peers refine `Channel` |
| `exchange_mixed` | CAP 4, both kinds | `SeqCstInOrder`, `SeqCstExclusive` and `GuardsReserved` survive the repetition of unordered packets; `NoOtherRepeat`, `LinksAgree`, and the refinement (`ChannelUntilRepeated`) up to the first repetition |
| `exchange_answered` | CAP 3, three payloads against a payload and a reply to it, one loss | `EveryPacketAnswered` (liveness), with one window full at times and nobody pumping |
| `sync_threads` | CAP 3, two senders, one of them with a timeout and also receiving, a receiver, a handler; the remote peer replies to the first packet and sends an unordered payload | `RecvWaitersCounted`, `OnePumpWaiter`, `ReplyWakeUpDue`, `GuardsMatch`; `SendReturns`, `PumpReturns` (liveness) |
| `tokio_tasks` | CAP 4, a sender that also handles guards, a sender that also receives, and a receiver; the futures of the first and the last may be dropped; the remote peer replies to the first packet and sends a SeqCst payload | `GuardsMatch`, `RepliesMatch`, `RecvWakeUpDue`, `ReplyWakeUpDue`, `ServiceScheduled`, `OneUpdate` |

The instance of `tokio_tasks` is large enough that two senders wait at a time, a call of `receive` pumps
a saved packet and wakes both, notifications come in the gap and collapse, and a packet is acked
because its future is gone. The window has four slots so that a packet can be saved behind the lock
while another reply number is out.

Deadlock is checked in the safety runs of `Endpoint` and `Exchange`, because there something can
always be received again; the fair runs may end when everything is sent and answered, and so may
`Tokio`, whose tasks may have nothing left to do.

Fairness (`FairSpec`): packets that keep arriving are received, guards
are dropped, and `service` is called. Pumping is not fair: an Ack that frees a slot says there is
nothing to pump (`do_pump` is false), so a caller that relies on it leaves a saved packet behind;
`EveryPacketAnswered` shows that its next copy is processed instead. The wrapper starts nothing by itself; its documentation asks
the caller for each of these. Losses are bounded, so a packet that is resent forever arrives.
Sending and replying are not fair: an application may stop at any time.

Fairness of `Sync`: a thread inside a call goes on (the mutex is always released again), guards are
dropped, and the remote peer is responsive, so that, as long as there is something to answer, an Ack
or its reply is received again and again. Nobody has to call `send`, `pump` or `close`, and neither
timeouts nor spurious wake-ups are fair: no property may lean on them. `SendReturns` is about senders
without a timeout; it excepts a thread on `wait_on_recv` after `close` or after a timeout, and `PumpReturns`
everything after `close`: the failing runs of `Sync` show that the exceptions of `SendReturns` are
needed, and the passing run that there are no others.

`Tokio` is checked for safety only: what its tasks wait for is stated as invariants (`RecvWakeUpDue`,
`ReplyWakeUpDue`: for every sender that waits a wake-up is due), which also locate the cases in
which there is none.

Every property of a passing run has a mutant: a plausible slip in the code (a dropped comparison, a swapped order, an
off-by-one) under which its run fails.

## Where the code and its documentation disagree

Six runs are expected to fail; `findings` quotes the lines.

* `exchange_exactly_once` - a duplicate of an unordered packet that was processed early is handed over
  a second time, as long as an earlier number is missing.
* `exchange_overwritten` - such a second delivery of a reply makes `is_full_inner` treat a slot as free
  that belongs to a newer packet; the next reply overwrites that packet before it was delivered.
* `exchange_deadlock` - with A's send window full and B's payload at the head of A's receive window, B's
  SeqCst reply, which would free A's slot, waits behind a payload that waits for that slot.
* `sync_close` - `close` uses `notify_one`: of two senders that wait for an ack one waits forever.
* `sync_timeout` - a `send_timeout` that was notified but is out of time swallows the notification. When
  acks came out of order it may be the last, and another `send` waits forever beside an empty window.
* `tokio_dropped` - a future that is dropped after its packet was put into its channel takes the reply
  number, and the SeqCst lock, with it; the comment in `receive_inner` says such a packet is acked.

Others were met while modelling and are exceptions of properties or notes of hazards instead of runs:

* After `close` of `src/sync.rs`, a guard that is consumed returns neither its reservation nor the lock
  (`sync.rs:155`), so a thread that pumps what is left in the receive window may wait forever
  (`PumpReturns` excepts it), although the documentation of `close` says pump still works.
* In `src/tokio.rs`, `wait_on_reply` loses a `notify_waiters` that comes in the gap (`missed`), several
  `notify_one` may become one permit (`collapsed`), and a future that is dropped while it awaits the
  update queue leaves the service task without a deadline (`forgotten`).
* In `src/tokio.rs`, nobody pumps when a guard gives the lock back, although the documentation of
  `unlock` says that a blocked `receive` is unblocked; if a copy of the saved packet arrives, the
  call that saved it returns `SeqExClosed`, "the instance of SeqEx was dropped".

One more limit has no run: slots are `seq_no % CAP`, so a `CAP` that does not divide 2^32 makes two
numbers of one window share a slot at the wrap. Nothing in the code restricts `CAP` that way (the
default, 64, divides); the models assume it (`EvenFitAssumption` in `SeqExWindows`, and the constants of
the `Exchange` runs).

The first three also delimit the passing runs: `ExactlyOnce`, `Lossless` and
`ReplySlotsFree` are checked for SeqCst packets, `LinksAgree`, `NoOtherRepeat` and the refinement also
for unordered packets until one is repeated; the liveness runs use traffic that does not put a
payload before a reply to a full peer.

## Proofs

Every theorem holds for all values of the constants that satisfy the named assumptions: `CAP > 1`, an
even range of more than `2 * CAP` sequence numbers that starts anywhere, and, where windows matter,
`EvenFitAssumption` (`CAP` divides the range). In `Exchange` there are two peers and any bounds on
what they send, deliver and lose; in `Sync` any sets of threads and any packets of the remote peer.

`SeqExProofs` and `WindowProofs` hold what the other proofs share. Arithmetic: wrapping, slots and
distances (`WrapOnce`, `IdxWrap`, `Shift`, `Ahead`), from which two numbers less than `CAP` apart have
different slots. Methods: each operator of `SeqEx` keeps the type and `Windows` (each entry in its own
slot and in range, at most `CAP - 2` reservations), and either only takes entries out of the
send window or adds one; `fast_forward` passes at most `CAP` slots and leaves the skipped ones empty.

**`Endpoint`** (`EndpointProofs`): `TypeCorrect`, `ReservationsBounded`, `SendWindowOrdered`,
`RecvWindowOrdered`, `ResendsOnTime` and, for the action property `SavedUntilIssued`,
`SavedNotForgotten`. The inductive invariant is `Windows(seq)`, `ResendOnTime` and `Sleep`. None of the
parts is inductive alone: the slots need the types; `ResendOnTime` needs that `service` meets every
entry, which is `OwnSendSlot`, and that the caller sleeps at most one resend interval, because a
packet sent meanwhile is due after it (`Sleep`).

**`ServiceWalk`** (also in `EndpointProofs`): `WalkMeetsAll`, which is `WalkMissesNone`, and
`WalksResendOnTime`, `ResendOnTime` again when `service_direct` is interrupted, dropped halfway or called slowly. The
invariant is that of `Endpoint` and `Covers`: each packet is before the walk or not due before the deadline the walk carries.
A step of the walk takes what it passes into that deadline; any other step, `Kept`, only removes
packets, puts them off, or adds one with the next number, which is before every walk. The guard of
`Between` is used here: a walk left alone while the whole range of numbers is used up starts over.

**`Sync`** (`SyncProofs`): `TypeCorrect`, `WaitersAlwaysCounted`, `OnlyOneInPump`,
`OneGuardPerReservation` and `ReplyWakeUpNeverLost`. The inductive invariant adds to the
properties themselves `ReturnsLast` (a guard on its way to the application belongs to a thread that still has to notify) and
`Owned`, which is `GuardsMatch` said of each reply number: its owners, and who has the lock. `Owned`
holds until `close`, after which the code drops guards without returning what they hold.
`ReplyWakeUpNeverLost` assumes `CAP > 2`: a sender waits on `wait_on_reply` because the window is full of
reservations, so somebody holds a guard; with `CAP = 2` it waits with none out (see Not modelled).

**`Tokio`** (`TokioProofs`): `TypeCorrect`, `RecvWakeUpNeverLost`, `ServiceAlwaysScheduled`,
`OneUpdateAtATime`, `OneOwnerPerReservation`, `RepliesReachSender` and `ReplyWakeUpNeverLost`, for any
sets of tasks of which any may be dropped. `PumpLoopInduction` replaces induction over
the turns of the pump loop: what the loop starts with and each turn preserves holds when it ends. The first inductive
invariant, for the first four, is `TypeOK`, `RecvWakeUpDue`, `Flow` (a task has notifications to make exactly while it makes
them) and `Timers`: all packets are due one resend interval after the one point of time, so there is
one deadline, and while the service task does not have it exactly one update is under way.
`RecvWakeUpDue` is inductive because `notify_one` takes a waiter off the list or adds a permit, and a dropped
future that was notified calls it again.

The other three rest on a second one on top of it, `Held`, with four parts:

* `Channels`: each channel is stored once, in the send window with the packet its call has sent or in the
  receive window with a packet of the remote peer, its call has been told nothing yet, and a task that
  awaits no channel has none stored and nothing to return. What a call is told is the answer to its
  packet, because the entry that `take_send` finds by its number is the one the call has made.
* `Owned`: `GuardsMatch` said of each reply number, with the owners counted in the bags and in the
  results. A turn of the pump loop issues a number and makes somebody its owner, or acks it at once
  when the future that should get it was dropped; it never overwrites a result, by `Channels`.
* `Notified`: whoever is about to await `wait_on_reply` is known to `notify_reply`, or that is on its way;
  `ReplyWakeUpDue` alone is not inductive, for a task in the gap before its future is not in it.
* `GuardLeft`: with `CAP > 2` somebody owns a guard while `reply_waiters` is set. A sender sets it when a
  reply number is reserved (`WaitsForReserved`), which has an owner by `Owned`; `consume_lock` turns a
  guard into a lock guard without telling anybody, so lock guards count.

`ReplyWakeUpNeverLost` assumes `CAP > 2`, as for `Sync`. `RepliesReachSender` uses what `Arrives` says of the
remote peer: it replies to what was sent, and acks what it does not reply to.

**`Exchange`**, in three layers, each an inductive invariant on top of the one before:

1. `Basics` (`ExchangeProofs`): types; `Windows` of both peers; the guards of a peer and its
   reservations match one to one, and one guard has the lock exactly when it is taken (`Guarded`); the
   bounds on what was sent. From it `TypeCorrect`, `EveryGuardReserved`, `OneInCriticalSection`,
   `SlotsNeverMixed`.
2. `Order` (`OrderProofs`): packet `d` of a peer has the `d`-th sequence number, and every copy of it, in
   its send window, on the wire or in the other's receive window, says the same
   (`Numbered`, `Made`); the receive window says what was handed over: all that it has passed and those
   whose slot is `Unlocked` (`Received`). From it `SeqCstDeliveredInOrder`,
   `RepeatsOnlyEarlyPackets`, `SeqCstExactlyOnce`.
3. `Answers` (`AnswerProofs`): until a packet is repeated, a packet is in the send window exactly until
   its answer arrived, and whoever holds its guard, has replied or has acked it is the only one who
   ever will (`Paired`); links agree (`Linked`); promised replies have free slots (`SlotsFree`). From
   it `RepliesFindRoom`, `LinksNeverCrossed`, `AnswersUntilRepeated`, and `SeqCstNothingForgotten`,
   `SeqCstAnswerAwaited`, `SeqCstEndsAgree`. This invariant was checked by TLC on the instances of
   `exchange_full` and `exchange_mixed` before it was proved.

On these rests the refinement: `ImplementsUntilRepeated` and `SeqCstImplementsChannel` show that each
call of a peer is an action of `Channel`, or changes nothing that the applications see. A delivery
is `Deliver` because the packet is new and its link right (layers 2 and 3), a
guard that is consumed is `Reply` or `End` because it is the only guard of its packet, an Ack that arrives is
`Learn` because of `Paired`.

Two hypotheses appear in these theorems:

* `FewPackets` (layers 2 and 3): no peer sends more packets than half of the range of sequence numbers,
  2^31 in the code. The transport of `Exchange` may keep any packet for ever, and the protocol cannot tell
  a packet from one that is half of the range newer (`no_std.rs:270`), so without a bound on the age of
  packets the properties are false. All instances of the runs satisfy it.
* `OnlySeqCst`, for what `exchange_exactly_once` and `exchange_overwritten` refute with unordered packets; the
  theorems with `UntilRepeated` in their names, `RepeatsOnlyEarlyPackets`, `LinksNeverCrossed` and
  `RepliesFindRoom` cover both kinds up to the first repetition, `SeqCstDeliveredInOrder` and layer 1 beyond it.

Every safety property of the passing runs is the statement of a theorem. Only model-checked: liveness
(`EveryPacketAnswered`, `SendReturns`, `PumpReturns`), which TLAPS does not prove under fairness.

## Not modelled

* In `src/sync.rs` and `src/tokio.rs`: a mutex poisoned by a panic, and the unsafe `to_components` and `from_components`.
  Second copies of an unordered packet that was processed early do not arrive in `Sync` and `Tokio`: handed over
  again and again they can starve a sender, which is the defect of `exchange_exactly_once`.
* `CAP = 2`, which passes the assertion in `new`: `is_full_inner` then refuses every send and every
  packet (`WaitingForReply`, with no reply number out), so nothing ever happens.
* In `src/tokio.rs`: time, which stands still; whether the timer of the service task has run out is a
  choice. Liveness of its tasks.
* Changing `resend_interval` while running, a clock that goes backwards, `iter_mut`, and a caller of
  `service_direct` that goes on with an iterator whose walk has ended.
* Packets older than half of the range of sequence numbers, against which the protocol has no defence.
* The capacity of the channel behind `MpscTransport`: a full one loses packets, as the network does.
* Serialisation (the protocol has none) and formatting of errors.

## Plan

1. `SeqEx`, `Endpoint`, `Exchange`, their runs and the first theorems (done).
2. `Sync`, the threads of `src/sync.rs` (done).
3. `Tokio`, the tasks, notifications and dropped futures of `src/tokio.rs` (done).
4. `Channel`, the promise that `Exchange` implements, as a refinement (done).
5. `ServiceWalk`, `service_direct` call by call (done).
6. Proofs: `Endpoint`, `ServiceWalk`, `Sync`, `Tokio`, and `Exchange` up to its refinement of `Channel`
   (done).
