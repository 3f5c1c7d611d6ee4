# Verification of the srsRAN/EdgeRIC gNB

TLA+ models of the parts of this gNB (srsRAN Project with the EdgeRIC real-time
E2 agent) whose correctness depends on the order in which threads, timers,
messages and slots interleave. Every definition is translated from the C++
source; `PROJECT.json` maps each one to its file and lines, lists the hazards
each property is aimed at, and gives for each property a faulty variant of a
definition (named `<definition>_<Fault>`) that breaks it. Unless a path starts
otherwise it is relative to `src/`.

## 1. Inventory

| Part | State | Operations | Talks to | What is hard |
|---|---|---|---|---|
| RLC SDU queue (`lib/rlc/rlc_sdu_queue_lockfree.h`) | ring, one atomic per PDCP SN slot, packed totals | write, try_discard, read, front | PDCP/F1-U above, RLC Tx below | two threads without a lock; slot reuse; totals wrap |
| RLC AM receiver (`lib/rlc/rlc_rx_am_entity.*`) | window, RX_* variables, two timers, cached report | data PDU, two expiries, report request | peer, its own Tx side | SN wrap, overlapping segments, timers racing PDUs |
| RLC AM status report (`lib/rlc/rlc_am_pdu.*`) | NACK list, size | push, merge, trim, pack | Rx builds, Tx trims, peer expands | range and byte boundaries |
| RLC AM hand-over (`lib/rlc/rlc_am_interconnect.h`) | three buffers, atomics, deferred tasks | store, request, notify, pull | UE executor, cell executor, MAC | lock-free exchange; lost wake-ups |
| RLC AM transmitter (`lib/rlc/rlc_tx_am_entity.*`) | window, retransmission queue, poll state | SDU, discard, pull, status PDU, expiry | PDCP, MAC, peer | stale reports, retransmission limit, stalls |
| Inter-slice scheduler (`lib/scheduler/slicing`) | policies, RB counters, candidate queues, UEs per slice | slot indication, next candidate, UE events | EdgeRIC, intra-slice scheduler, UE event manager | counters across PDCCH slots, limits fixed before use |
| EdgeRIC agent (`lib/edgeric`) | last weights, MCS, budgets; metrics | receive (conflated), publish | muApps, scheduler | stale policies, lost or unreadable messages |
| UE events, UE repository (`lib/scheduler/ue_scheduling`) | UE contexts, deferred removals | create, reconfigure, confirm, delete | MAC, slices, HARQ | events against running slots |
| HARQ manager (`lib/scheduler/cell/cell_harq_manager.*`) | process lists, timeouts | allocate, ACK, timeout, cancel | schedulers, UCI | late or repeated ACKs |
| PDCP (`lib/pdcp`) | COUNTs, window, t-Reordering, crypto tokens | PDU, decipher, reorder, re-establish | RLC/F1-U, SDAP, CU-UP | deciphering in parallel, COUNT derived from state that lags |
| Timers, executors, coroutines (`lib/support`, `include/srsran/support`) | task queues, command queues, events | run, stop, tick, defer, await | everything | ordering, cancellation, full queues |
| CU-CP and DU procedures (`lib/cu_cp`, `lib/du`) | UE and transaction state | setup, reconfiguration, release, handover | F1AP, E1AP, NGAP, RRC | overlapping procedures, timeouts |

The RLC AM bearer and its queue come first: they are the longest chain of
concurrent, lossy and timed behaviour in the user plane and carry a correctness
promise (delivery) that no unit test can exhaust. The slice scheduler comes
next, as the place where this fork lets an external controller act on the gNB.

## 2. Modules

| Module | Models | Run(s) |
|---|---|---|
| `RlcSduQueue`, `MCRlcSduQueue` | the lock-free queue, one step per shared access | `sdu_queue` |
| `Rlc_proofs` | theorems about the queue and about the report hand-over | |
| `RlcAmStatusPdu` | the report as a value: push, merge, trim, expand | (used below) |
| `RlcAmSegments` | segment lists of several SDUs and the report made of them | `status_report` |
| `RlcAmRx` | the receiving entity, one step per handler | `am_rx` |
| `RlcAmRx_proofs` | theorems about its state variables, reassembly timer and report | |
| `RlcAmStatusExchange` | report hand-over between the two executors, one step per atomic access | `status_exchange` |
| `RlcAmTx` | the transmitting entity | (used below) |
| `RlcAm` | both entities over a lossy, reordering MAC | `am_bearer` |
| `RlcAmService` | what the bearer promises; `RlcAm` is shown to implement it | `am_bearer` |
| `InterSliceScheduler`, `MCInterSliceScheduler` | slices of one cell, with budgets and UE events | `slicing` |
| `InterSliceScheduler_proofs` | theorem about slice membership; what slots and grants do to the counters | |
| `InterSliceQueues_proofs` | the candidate queues; theorems about counters and offers | |
| `PdcpSn` | SN, HFN and COUNT, and the COUNT a receiver infers from an SN | (used below) |
| `PdcpTx`, `MCPdcpTx` | the transmitting PDCP entity | `pdcp_tx`, `pdcp_tx_early` |
| `PdcpRx`, `MCPdcpRx` | the receiving PDCP entities of a UE, the crypto workers and the CU-UP routines that stop them | `pdcp_rx`, `pdcp_rx_wakeup`, `pdcp_rx_keys` |
| `PdcpTx_proofs` | theorems about the transmitting entity | |
| `PdcpRx_proofs` | reception window and t-Reordering; order of delivery across key changes | |
| `PdcpRxTokens_proofs` | crypto tokens and the routines that await them | |
| `NumberLemmas` | remainders, least and greatest elements, used by the proofs | |
| `Timers` | the timer service: front-ends, command channel, ticking thread, pool | `timers` |

Names are those of the source where TLA+ allows it. Three abstractions link the
RLC modules: `RlcAmRx` keeps of a partly received SDU only the set of its bytes,
and `RlcAmSegments` shows (`SegmentsAreExact`, `ReportIsExact`) that the
real segment lists carry the same information; `RlcAmRx` hands a report over in
one step, and `RlcAmStatusExchange` looks inside that step, grants too small for a
report and the end of all sending at the retransmission limit included; `RlcAmTx` uses a
plain queue of SDUs, and `RlcSduQueue` looks inside that.

**RlcSduQueue.** `upc` and `lpc` are the places of the two threads inside
write/try_discard and read/front. The packed 64-bit totals are two fields modulo
`W`; that they may wrap for an instant is kept.

**RlcAmStatusPdu, RlcAmSegments.** Sizes are those of the 12/18 bit formats up to
the constant `SizeofNackSn`; `Loop` stands for a counting loop over a list. All
values of a grant are tried on every reachable report.

**RlcAmRx, RlcAmTx.** One action per handler of the UE executor and of the cell
executor. A timer is a countdown, or, where the peer's answer decides, an expiry
that may happen at any time. A grant is the payload it has room for. Branches of
the code that log an error and go on (NACK outside the window, RETX of an SN that
is gone) are not actions: `TxWindowIsExact` and `TriggerIsAnchored` show that they cannot be reached.

**RlcAm.** One direction of a bearer; the precedence of the own status PDUs over
data in `pull_pdu` and the stop of the reverse direction after max_retx are not
combined with it. The MAC loses up to `MaxLosses` PDUs and lets a PDU be
overtaken `Overtake` times and a report `StatusOvertake` times.
`ReorderingAssumption` (a PDU is not overtaken by a whole window) is what TS 38.322
needs too. `FirstSn` SDUs were carried and confirmed before: with 0 the bearer starts
as it is created, with the last SN it meets the wrap at once.

**InterSliceScheduler.** A slot is `SlotIndication`, then one `Serve` per
candidate, first DL then UL. What `dl_sched` and `ul_sched` grant is any number
of RBs: retransmissions up to what is free, new transmissions also up to
`remaining_rbs`. Slots since the last allocation and average rates, the last
parts of `get_prio`, only break ties: any order of equals is tried. PUSCH time
domain resources with equal k2 are one. The initial policies are any the
constructor accepts, the minimum above the maximum included: `Ordered` holds of a
slice from the first message about it. The undefined `top()` of an empty queue
(`inter_slice_scheduler.cpp:306`) would be a step without outcome, found by the
deadlock check.

**PdcpTx.** One action per handler: SDU, transmit and delivery notification,
desired buffer size, status report, data recovery, re-establishment, key change,
stop, expiry. COUNTs are numbers below `CountMod`, SNs are `COUNT % SnCard`. The
discard timer is one timer for the window, as in the code, and its callback may
run `MaxLag` ticks late. `orphan` says that it runs although its SDU has gone.
`configure_security` may or may not bring a new key (`renew`), because without a key
or an algorithm the code keeps the old engine; `stale` says that COUNT was reset and
the key kept. A false `srsran_assert` is a state, `aborted`. What the
lower layers may notify is any SN they were given, also late (`Notifiable`,
external).

**PdcpRx.** A PDU takes three steps (`handle_data_pdu`, `apply_security`,
`apply_reordering`) on two kinds of threads, and holds a token all the way.
`routine` is the CU-UP routine that wants the entities idle, and the bearer it is
waiting for; its continuation runs inline in whoever sets the event (`GoesOn`,
`Free`), on a crypto worker if that returned the last token (`byWorker`). `setter` is
the bearer whose `set_once` it runs in: `was_set` of that bearer is stored only when
the routine suspends again or ends, after `start` has cleared it. `remove_drb` is the
removal of one bearer, which awaits nothing; what its crypto tasks then do with the
entity is left out. The
peer is external: it keeps half of the SNs outstanding at most, and follows a key
change after the network.

**Timers.** `front` and `back` are the two halves of a timer; `push`,
`push_exchange` and `notify_timer_update` are the separate accesses of a command,
between which the ticking thread may take it. The timer wheel is abstracted to
the ticks a timer has left.

## 3. Runs

Passing runs (each checks deadlock unless its system may really stop):

- `sdu_queue`: capacity 2, three PDCP SNs of which two share a slot, four
  writes, every interleaving. `NoInvalidRelease`, `NothingLost` (which also
  says that a discard is final), `TotalsAccountForHeld`, `ByteLimitRespected`.
- `status_report`: up to three SDUs of four bytes, any segments in any order,
  every grant. Segments partition the bytes, the report names exactly what is
  missing, trimmed it fits and acknowledges nothing that is missing.
- `am_rx`: any PDU at any time, SN space 6, window 3. The RX variables stay
  ordered through wraps, the timer's trigger is anchored in the window, whatever
  is missing is watched by the timer or reported, the cached report is current.
- `status_exchange`: four changes of the receiver state, grants of any size, the
  retransmission limit at any time. The prohibit flag never outlives its timer
  (`ProhibitFlagMeansTimer`); a request that waits is announced to MAC or will be
  (`RequestIsAnnounced`); it is answered by a report at least as new, unless the
  limit was reached, after which nothing is sent (`RequestIsAnswered`).
- `am_bearer`: two SDUs in segments across the SN wrap, loss, reordering of data and
  of reports, discards, early timeouts, trimmed reports. Exactly-once delivery, no
  false confirmation, both windows over what is in flight, retransmissions inside the
  window, the limit reported; `ServiceSpec`, the refinement of `RlcAmService`; and
  `SilenceIsExplained`: the transmitter comes to rest with SDUs unconfirmed in three
  ways only, all of which happen in the run. Two of them break what one would like
  to have as liveness (`RlcAmTimeoutStall.cfg` and `RlcAmTrimStall.cfg` below).
- `slicing`: two slices in three RBs, one configured with its minimum above its
  maximum, budgets that are partial, out of range,
  empty or unreadable, skipped slots, a UE that comes, changes and goes. Minima
  first (`MinimumFirst`), maxima bind new transmissions of every slice whose policy is
  in order (`OffersWithinLimits`), no
  slice is forgotten (`EveryoneServed`), counters are current
  (`CountsMatchGrants`), `MembershipExact`, the slot ends (`SlotCompletes`).
- `pdcp_tx`: SRB and DRBs of both modes across a change of the hyper frame number,
  up to the hard limit of COUNT, with failing buffers, late expiries, status
  reports with bitmaps, data recovery and re-establishments with and without a new
  key. No COUNT is used twice under a key, except after COUNT was reset and the key
  kept (`CountNotReused`); an SDU of a DRB leaves the window only confirmed, after
  its time, or taken by the timer of an SDU that has gone (`NothingLostSilently`); the
  timer runs while one waits (`WindowIsWatched`).
- `pdcp_rx`: one bearer, three configurations, two PDUs in processing, a key change,
  the removal of the UE or of the bearer, workers that cannot hand a PDU back. SDUs
  are delivered in order, once, under the COUNT of their sender (`InOrderDelivery`);
  what waits has its timer (`WaitingIsWatched`); the UE is removed only when its PDUs
  have come back (`UeRemovedWhenIdle`); a routine waits for an event that will not
  come in one case only, the one of run `pdcp_rx_wakeup`
  (`OnlyInlineRestartLosesWakeup`).
- `timers`: two contexts that hand one timer object to each other through the pool,
  full executors included. A callback runs only for the latest start
  (`CallbackIsCurrent`), a command is announced exactly once (`SignalledOnce`),
  what runs expires (`RunningExpires`).

Runs that show a disagreement between the code and what it says of itself:

- `pdcp_rx_wakeup` (`WakeupIsNotLost`): a key change meets a PDU in processing, whose
  last step returns the last token. `set_once` (`pdcp_crypto_token.h:61`) resumes the
  routine, which changes the keys and restarts processing, clearing `was_set`; back in
  `set_once`, `was_set` becomes true. The next stop of the bearer finds it true, the
  event is not set, and the next key change or the removal of the UE never ends.
  `pdcp_rx.h:122`: "Tell the PDCP entity to notify when it is finished with processing
  the currently in-flight PDUs".
- `pdcp_rx_keys` (`KeysReplacedWhenIdle`): two bearers; one whose event is set takes a
  PDU while the other is awaited, and the keys are replaced under it.
  `cu_up_bearer_context_modification_routine.cpp:50`: "No more SDUs/PDUs will arrive
  at the PDCP". `notify_pdu_processing_stopped` returns a token and refuses nothing.
- `pdcp_tx_early` (`DiscardIsDue`): a status report confirms the SDU the discard timer
  runs for and leaves the timer running; the next SDU starts no timer of its own and is
  discarded before its time. The same follows a reset. `pdcp_config.h:89`: "In the transmitter,
  a new timer is started upon reception of an SDU from upper layer".

Configurations that are kept beside the runs; in each TLC finds the named property
violated (`tlc -config <file> <module>`):

| Configuration (module) | Property | What happens |
|---|---|---|
| `RlcAmStatusExchangeValid.cfg` (RlcAmStatusExchange) | `ReportIsValid` | The report is published before the request is raised, so a reader acting on an older request takes it and leaves an older, possibly empty, buffer for the new request, although `rlc_am_interconnect.h:41` calls it "guaranteed to be valid". |
| `RlcAmTrimStall.cfg` (RlcAm) | `EventuallyConfirmed` | A trimmed report clears the retransmission queue of SNs it does not mention; with t-PollRetransmit stopped nothing asks for them again until new data arrives. |
| `RlcAmTimeoutStall.cfg` (RlcAm) | `PollFollowsTimeout` | A late report that acknowledges part of the window empties the queue after t-PollRetransmit expired: no PDU is left to carry the poll. |
| `PdcpTxDuration.cfg` (MCPdcpTx) | `AssertionsHold` | Two notifications, each handled in the tick of an expiry before its callback: the second finds the oldest SDU older than its time, and the unsigned difference is no valid duration. |
| `RlcAmAncientReport.cfg` (RlcAm) | `NoProtocolFailure` | A report is overtaken by one that moves the window by its whole size. It then passes `valid_ack_sn` and raises on_protocol_failure, or confirms SDUs the peer does not have, although the comment at `rlc_tx_am_entity.cpp:681` says out of order reports are discarded. |
| `PdcpTxHole.cfg` (MCPdcpTx) | `TxNextAckIsOldest` | A status report with a bitmap leaves a hole in the window, and a delivery notification moves TX_NEXT_ACK onto it (`pdcp_entity_tx.cpp:883`), where `pdcp_entity_tx.h:54` calls it the oldest SDU of the window. |
| `PdcpTxSameKey.cfg` (MCPdcpTx) | `CountNeverReused` | Re-establishment with the old key, or without one: TX_NEXT is 0 again and the engine is the same. `pdcp_tx_reestablish_test.cpp` does this; the CU-CP always sends a new key with the re-establishment of a DRB (`reestablishment_context_modification_routine.cpp:271`, `intra_cu_handover_routine.cpp:320`). |
| `PdcpRxRemoval.cfg` (MCPdcpRx) | `DestroyedWhenIdle` | The removal of a bearer or session erases the entity while PDUs of it are with the workers (`pdu_session_manager_impl.cpp:566`, `584`); `pdcp_entity_rx.h:169` says its tokens are "Used to wait for crypto engine to finish when destroying DRB". |
| `InterSliceMaximum.cfg` (MCInterSliceScheduler) | `MaximumRespected` | A slice configured with its minimum above its maximum is served up to the minimum; `slice_rrm_policy_config.h:40` "Sets the maximum number of PRBs to be allocated to this group". The constructor (`inter_slice_scheduler.cpp:70`) clamps the maximum to the cell and compares the two with nothing, and the command line checks each alone. |

`RlcAmWrap.cfg` (RlcAm) passes, and is kept because it lets six SDUs go through an SN
space of four, with reports in order: every place of the windows is used again
(`DeliveredOnceAndIntact`, `WindowsOverlap`).

**Bounds.** They are constants named in the modules. The receiver and the bearer
use the standard's proportion, a window of half the SN space, with spaces of six
and four SNs, so that every position of the window and every wrap is met.
`status_report` has SDUs of four bytes, enough for first, middle and last
segments and overlaps of them; the bearer has SDUs of two (first and last
segment) or, in `RlcAmWrap.cfg`, `RlcAmAncientReport.cfg` and
`RlcAmTimeoutStall.cfg`, of one, unsegmented. The MAC
loses one PDU, data or status, in each behaviour and two in
`RlcAmTrimStall.cfg`; longer loss patterns are not covered. Two SDUs cannot make a
report a whole window of three late, so `am_bearer` does not meet the case of
`RlcAmAncientReport.cfg`. `RetxBound` stops
the sending of data once an SDU was retransmitted more often than that. Three RBs
are enough for a minimum above zero, a maximum above it and a competitor; PUSCH
slot 2 is reached from PDCCH slot 0 and again from slot 1, so that RB counts of
one slot handler are met by the next. PDCP has eight SNs, a window of four, and
starts two before a change of the hyper frame number: with a window of two
t-Reordering would never be restarted. `pdcp_rx` has one bearer; its four properties
were also checked with two, with the smaller constants of `PdcpRxKeys.cfg`, and hold.
t-Reordering = infinity is left to the proofs. `timers` has
one timer object and five commands to it, enough for an expiry of the first owner
to meet the start of the second.

**Fairness.** `status_exchange`: each executor runs its queued tasks (it has a
thread that drains the queue), timers tick on the UE executor, and the MAC grants
what it was told of; that a PDU arrives is not assumed. `RlcAm`: as long as
something can be sent, is in flight or a timer runs, some protocol step happens;
losses are finite; this is used by `RlcAmTrimStall.cfg` and `RlcAmTimeoutStall.cfg`
only. In `RlcAmTrimStall.cfg` t-PollRetransmit is longer than the answer takes
(`EarlyTimeouts = FALSE`), as a sensible configuration has it; elsewhere it may expire
at any time. `slicing`: the loops of the slot
handler, sequential code, take their next turn; slots, UE events and budgets are
not assumed to come. `timers`: the manager is ticked, contexts finish a push they
began and run their tasks; a postponed expiry finds room if there is room again
and again (strong fairness: queues are drained by their threads); commands are
bounded, so that nobody restarts a timer for ever. The PDCP modules have no
fairness: that nothing waits for ever is stated there as what it rests on, a
running timer or an event that the last token sets, with the exception named there. Together with `timers` this
covers t-Reordering and the discard timer, by argument and not by a run. A routine
may be kept waiting as long as PDUs keep arriving.

**Assumed, not shown.** Task queues do not overflow (`DeferMayFail = FALSE`) and a
1 ms timer does not expire inside `get_status_pdu` (`TimerMayOvertake = FALSE`);
with either set to TRUE TLC finds `ProhibitFlagMeansTimer`, `RequestIsAnnounced` and
`RequestIsAnswered` violated, so the code relies on both. A report is not late by a whole window. PDCP
receiver: integrity protection is on; keys change with every re-establishment, and of
all DRBs together (the CU-CP sends both in one message); one routine of a UE runs at a
time; the peer respects the window.
`WindowIsWatched` leaves out states after a failed assertion.

**Observed while modelling, without a run of its own.** `get_state()` of the SDU
queue may return wrapped totals for an instant; `trim` may leave a NACK range
that ends at the new ACK_SN; with the window full and the trigger at its end, every PDU it
accepts stops and restarts t-Reassembly (`rlc_rx_am_entity.cpp:303`, where the comment
above it excepts that trigger); `max_window` admits one SDU more; pollByte
does not count unsegmented SDUs, whose buffer was moved before its length is
taken; a slice that holds exactly `min_prb` RBs of a PUSCH slot from an earlier
PDCCH slot gets no second turn in it (`inter_slice_scheduler.cpp:160`, excepted
in `EveryoneServed`); retransmissions may take a slice beyond `max_prb`. PDCP: an SDU whose header or
ciphering failed stays in the window at TX_NEXT, where the next SDU meets it
(`pdcp_entity_tx.cpp:230`); `apply_reordering` never sets `sdu_info.count`, so that
a repeated PDU replaces the stored one; the flags that COUNT reached its maximum
are not reset; nothing calls the re-establishment of an SRB. In a build with
assertions the second candidate of a slice with its minimum above its maximum is an
interval out of order (`interval.h:58`).

## 4. Proofs

For every value of the constants (TLAPS with SMT, Zenon and LS4). Each invariant
below, apart from the types it contains, was also checked by TLC on the run's instance. The bounds of
the runs (numbers of writes, keys, PDUs in processing) are constants too, so that
nothing proved depends on their size.

**SDU queue** (`Rlc_proofs`): `ReleaseIsValid`. NoInvalidRelease is
not inductive: it says what the slot of the popped SDU holds, and a write could have
reused that slot. `IInv` adds that a slot has one owner at a time (an SDU in the
ring, the SDU in the lower thread's hands, or the SDU the upper thread is about to
push) and that what a thread holds is a proper SDU where it uses it. Assumption:
`SduQueueAssumption` (capacity and word positive, SNs are not the sentinels).

**Report hand-over** (`Rlc_proofs`): `NoSharedBuffer` (the three buffers have one owner each, with no hypothesis),
`ProhibitFlagCorrect` (`ProhibitFlagMeansTimer`) and `NoRequestIsForgotten`
(`RequestIsAnnounced`), both for `~DeferMayFail` and `~TimerMayOvertake`, which the code takes for granted
(section 3). `ExchangeInv` adds that between the deferred start of the timer and the
setting of the flag one of the two is there already, that an update suppressed as
pending is queued, and that whoever has not yet looked at a request will: an executor
between two of its reads, a queued update, the MAC, or the end of the timer
(`LookedAt`).

**RLC AM receiver** (`RlcAmRx_proofs`): `RxStateOrdered` (`StateVariablesOrdered`),
`RxTriggerAnchored` (`TriggerIsAnchored`), `RxLossWatched` (`MissingIsWatched`) and
`RxReportCurrent` (`ReportIsCurrent`), for any even SN space, SDU length and timer
values. They are proved together as `RxInv`, which adds types and one fact none of
them states, `TopReceived`: the SDU just below RX_Next_Highest has been received in
part unless the window is empty. Without it the trigger that a starting timer takes
from RX_Next_Highest would not be anchored. Edges are compared by their distance from
RX_Next, which itself moves, so `MovedBase` says what a move does to the distances,
and `FirstIncomplete` what the loops that advance RX_Next and RX_Highest_Status find.
What `build_report` puts into a report plays no part here, only what it is built from.
Assumptions: `RxAssumption`, `StatusPduAssumption` (the window is half of the SN
space, an SDU has a byte).

**PDCP transmitter** (`PdcpTx_proofs`): `KeyAndCountUsedOnce` (`CountNotReused`),
`NothingIsLost` (`NothingLostSilently`), `TimerWatchesWindow` (`WindowIsWatched`),
for any SN size, maximum COUNT, discard time and set of failing operations. They are
proved together: `TxInv` says of the entity (`EntityOK`) that what the ring holds
lies between TX_NEXT_ACK and TX_NEXT and less than a window below TX_NEXT, of
TX_NEXT_ACK (`OldestOK`) that it names an SDU of the window unless nothing is
outstanding, and of the timer (`Timely`) that, unless its own SDU has gone, it belongs
to the SDU at TX_NEXT_ACK and leaves it its whole time. The two exceptions in the
statements are states the code reaches: COUNT reset under the old key (`stale`) and a
timer that outlived its SDU (`orphan`). That a late notification is taken for the
right COUNT is the lemma `InferCountExact`. Assumption: `PdcpTxAssumption` (COUNTs fit
their word, the notified and the first COUNT are below the maximum).

**PDCP receiver.** `ReceptionIsWatched` (`PdcpRx_proofs`): on every bearer, with no
condition on keys or losses, the window lies between RX_DELIV and RX_NEXT and
t-Reordering runs while a COUNT is missing. `OrderAcrossRekeying` and
`WaitingAcrossRekeying` (same module): `InOrderDelivery` and
`WaitingIsWatched` over AM always, and over UM as long as no key was replaced under
a PDU in processing. That condition is needed: a PDU of the old key in processing
when the state starts over is taken for one of the new. `PeerInv` relates keys and
COUNTs of what is in processing to the peer's, `DeliveryInv` what was delivered to
RX_DELIV. `PdcpRxTokens_proofs`: `WakeupLostInOneWay`
(`OnlyInlineRestartLosesWakeup`) and `UeRemovalAwaitsProcessing`
(`UeRemovedWhenIdle`), for any number of bearers. `TokenInv` counts: an entity has out
exactly one token per PDU in processing, and its own until it is told to stop; and
`was_set` stands for a set event, but for a bearer whose `set_once` ran a restart
(`FlagInv`). That keys are replaced only when nothing is in processing is not a
theorem: the code violates it (`pdcp_rx_keys`), and this is why the theorems about
order have their condition.

**Inter-slice scheduler.** `SliceMembership` (`MembershipExact`), for any slices, UEs
and bearer sets. `RingIsExact` (`CountsMatchGrants`), `OffersHaveRoom`
(`OffersWithinLimits`, with the minimum of a configuration out of order in place of its
maximum), `MinimaBeforePriorities` (`MinimumFirst`) and
`NobodyForgotten` (`EveryoneServed`), for any number of slices, any policies and
budgets, any PUSCH delays and TDD period. The ring is not inductive over the slots
that can be scheduled: an entry enters their range when the slot moves on, so
`RingOK` goes once round the ring and says of the entries beyond the largest delay
that they are clear, and `LaterClear` the same of the grants. `QueueInv` ties each
candidate to the policy in force (`CandOK`) and gives each slice that is due a
candidate that still has room and, below the minimum, the higher of its two
priorities (`DueOK`); `OfferInv` follows from it one step at a time. `PrioOrder` is
the arithmetic of `get_prio`: in one slot the minimum outweighs every configured
priority. Assumption: `SliceAssumption` (delays are positive and shorter than the
ring, which divides the slot count; the skipped slots and the largest delay are less
than the slot count; each number of an initial policy is within range, in whatever
order the two are).

The library's induction theorems have an operator parameter that the installed
provers cannot instantiate. `NumberLemmas` takes from the least-number principle one
fact without such a parameter, `LeastNatural`, and from it what `Min` and `Max` of a
set are. Loops that stop at the first or last COUNT with a property (the delivery of
consecutive SDUs, the search for the oldest SDU, `discard_all`) are modelled with
these, and need no other induction.

Only model-checked, and why:

- the liveness properties (`RequestIsAnswered`, `SlotCompletes`, `RunningExpires`):
  fairness and ENABLED are out of the prover's reach;
- what is stated with a sum over a set (`TypeOK` of the slice scheduler, the totals
  of the SDU queue) and what the folds over lists of NACKs and segments compute
  (`RlcAmStatusPdu`, `RlcAmSegments`): that takes induction over the list;
- `NothingLost` of the SDU queue, the properties of `Timers`, and those of the bearer
  (`RlcAm`), the refinement of `RlcAmService` included: not attempted yet.

## 5. Not modelled

ASN.1 and protobuf code is generated; PHY, vector kernels and hardware
acceleration are numeric; open fronthaul, radio and FAPI are formats and device
I/O; logging, PCAP and metrics are output; scheduler policies and link
adaptation are floating point. Configuration, applications and the Python muApps
are outside. Of PDCP: SRB reception, bearers without integrity protection, and the
status report the receiver compiles. Strands, event sources and the FIFO task
scheduler are used by the models above as what they promise, and not modelled
themselves. `PROJECT.json` lists each part with the reason.

Hazards seen and not covered by a property: an SDU whose reassembly fails for want
of buffers is dropped and stays acknowledged (`rlc_rx_am_entity.cpp:219`); a moved
buffer's length decides on the poll bit (`rlc_tx_am_entity.cpp:302`, modelled as it
is); a configuration confirmed after the UE was deleted would put it back into its
slices (`ue_event_manager.cpp:397`; the DU manager's order of steps prevents it, and
is not modelled); a pending HARQ retransmission may name a UE that left the slice
(`intra_slice_scheduler.cpp:299`).

## 6. Plan

1. Theorems: `SignalledOnce` (Timers), `NothingLost` (RlcSduQueue), the step simulation
   RlcAm => RlcAmService.
2. `EdgeRic`: weights and MCS per RNTI. To be looked at: normalisation
   (`edgeric.cpp:345`) also divides the weights of UEs not in the message.
3. `CellHarq`: process states, ACK timeout against late ACKs, retransmission
   lists; then with the UE events, to show that `slice_ues[h.ue_index()]` finds
   its UE.
4. `Strand` and `AsyncProcedures`: the ordering and wake-up guarantees the models
   above assume, and UE procedures on top of them.
5. PDCP over `RlcAmService`: a bearer from SDAP to SDAP.
