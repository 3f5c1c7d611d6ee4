------------------------------ MODULE RlcAmTx ------------------------------
(***************************************************************************)
(* The transmitting side of an RLC AM entity                                *)
(* (lib/rlc/rlc_tx_am_entity.cpp): SDU queue, transmit window, segmentation,*)
(* retransmission queue, polling and the handling of status reports.        *)
(*                                                                          *)
(* pull_pdu, handle_status_pdu and t-PollRetransmit run on the cell         *)
(* executor, so each is one step.  An SDU is a number; all SDUs have SduLen *)
(* bytes.  A grant is the number of payload bytes it has room for: smaller  *)
(* ones make pull_pdu return 0 and change nothing.                          *)
(***************************************************************************)
EXTENDS RlcAmStatusPdu, SequencesExt

CONSTANTS
  AmWindow,          \* am_window_size, also the capacity of the retx queue
  max_window,        \* configured limit of the window, 0 for none
  poll_pdu, poll_byte,  \* 0 for infinity
  max_retx_thresh,
  QueueSize          \* SDUs the upper queue holds

ASSUME TxAssumption ==
  /\ AmWindow \in Nat \ {0} /\ Mod = 2 * AmWindow
  /\ {max_window, poll_pdu, poll_byte} \subseteq Nat
  /\ max_retx_thresh \in Nat \ {0} /\ QueueSize \in Nat \ {0}

VARIABLES
  sdu_queue,
  tx_window,               \* SN -> [sdu, next_so, retx_count], NoSdu if absent
  tx_next, tx_next_ack,
  poll_sn, pdu_without_poll, byte_without_poll,
  sn_under_segmentation,
  retx_queue, retx_sn,
  poll_timer, poll_expired,  \* t-PollRetransmit runs; is_poll_retransmit_timer_expired
  max_retx_reached,
  notified                 \* upper layer: SDUs confirmed, on_max_retx, on_protocol_failure

sendVars == <<sdu_queue, tx_window, tx_next, sn_under_segmentation>>
pollVars == <<poll_sn, pdu_without_poll, byte_without_poll, poll_timer, poll_expired>>
retxVars == <<retx_queue, retx_sn, max_retx_reached>>
txVars == <<sendVars, tx_next_ack, pollVars, retxVars, notified>>

RETX_COUNT_NOT_STARTED == -1
NoSdu == [sdu |-> 0, next_so |-> 0, retx_count |-> RETX_COUNT_NOT_STARTED]
in_window(window, sn) == window[sn] # NoSdu

(* After first SDUs, all confirmed.                                         *)
TxInit(first) ==
  /\ sdu_queue = <<>> /\ tx_window = [sn \in Sns |-> NoSdu]
  /\ tx_next = first /\ tx_next_ack = first
  /\ poll_sn = Max({0, first - 1}) /\ pdu_without_poll = 0 /\ byte_without_poll = 0
  /\ sn_under_segmentation = INVALID_RLC_SN
  /\ retx_queue = <<>> /\ retx_sn = INVALID_RLC_SN
  /\ poll_timer = FALSE /\ poll_expired = FALSE
  /\ max_retx_reached = FALSE
  /\ notified = [confirmed |-> {}, max_retx |-> FALSE, failure |-> FALSE]

tx_mod_base(low, sn) == (sn - low) % Mod
inside_tx_window(sn) == tx_mod_base(tx_next_ack, sn) < AmWindow
valid_tx_ack_sn(sn) ==
  0 < tx_mod_base(tx_next_ack, sn) /\ tx_mod_base(tx_next_ack, sn) <= AmWindow
is_tx_window_full(window) ==
  \/ Cardinality({sn \in Sns : in_window(window, sn)}) = AmWindow
  \/ max_window # 0 /\ tx_mod_base(tx_next_ack, tx_next) > max_window
buffers_empty(queue, retx, under) ==
  queue = <<>> /\ retx = <<>> /\ under = INVALID_RLC_SN

-----------------------------------------------------------------------------
(* Upper layer                                                              *)

(* handle_sdu: a full queue drops the SDU.                                  *)
HandleSdu(sdu) ==
  /\ sdu_queue' = IF Len(sdu_queue) < QueueSize THEN Append(sdu_queue, sdu) ELSE sdu_queue
  /\ UNCHANGED <<tx_window, tx_next, sn_under_segmentation, tx_next_ack, pollVars, retxVars, notified>>

DiscardSdu_StaysQueued(sdu) ==
  /\ Contains(sdu_queue, sdu)
  /\ UNCHANGED txVars
(* discard_sdu: only an SDU that is still queued can be discarded.          *)
DiscardSdu(sdu) ==
  /\ Contains(sdu_queue, sdu)
  /\ sdu_queue' = Remove(sdu_queue, sdu)
  /\ UNCHANGED <<tx_window, tx_next, sn_under_segmentation, tx_next_ack, pollVars, retxVars, notified>>

-----------------------------------------------------------------------------
(* get_polling_bit, split into the decision and its effect                  *)
poll_bit_NotWhenEmpty(is_retx, payload, queue, retx, under, window) ==
  \/ ~is_retx /\ poll_pdu > 0 /\ pdu_without_poll + 1 >= poll_pdu
  \/ is_tx_window_full(window)
  \/ poll_expired
poll_bit(is_retx, payload, queue, retx, under, window) ==
  \/ ~is_retx /\ poll_pdu > 0 /\ pdu_without_poll + 1 >= poll_pdu
  \/ ~is_retx /\ poll_byte > 0 /\ byte_without_poll + payload >= poll_byte
  \/ buffers_empty(queue, retx, under)
  \/ is_tx_window_full(window)
  \/ poll_expired

ApplyPoll(poll, is_retx, payload, sn) ==
  /\ pdu_without_poll' = IF poll THEN 0 ELSE pdu_without_poll + (IF is_retx THEN 0 ELSE 1)
  /\ byte_without_poll' = IF poll THEN 0 ELSE byte_without_poll + payload
  /\ poll_sn' = IF poll /\ ~is_retx THEN sn ELSE poll_sn
  /\ poll_timer' = (poll_timer \/ poll)
  /\ poll_expired' = FALSE

data_pdu(sn, sdu, so, len, poll) == [sn |-> sn, sdu |-> sdu, so |-> so, len |-> len, p |-> poll]

(* What the next call of pull_pdu builds.  Each builder yields the PDU and  *)
(* the state it leaves, in the order of pull_pdu: retransmissions, the rest *)
(* of a segmented SDU, a new SDU.  The sanity checks of the builders (SN    *)
(* not in the window, offset outside the SDU) return in states that         *)
(* TxWindowIsExact of RlcAm shows never to occur.                           *)
next_after_EveryPdu(complete) == (tx_next + 1) % Mod
next_after(complete) == IF complete THEN (tx_next + 1) % Mod ELSE tx_next
new_len(grant) == Min({grant, SduLen})

(* build_new_pdu and build_first_sdu_segment.  The payload passed on to     *)
(* get_polling_bit for an unsegmented SDU is the length of the buffer that  *)
(* was moved into the window before: 0.                                     *)
unsegmented_payload == 0
built_new(grant) ==
  LET full == grant >= SduLen
      window == [tx_window EXCEPT ![tx_next] =
                   [sdu |-> Head(sdu_queue), next_so |-> IF full THEN 0 ELSE grant,
                    retx_count |-> RETX_COUNT_NOT_STARTED]]
      under == IF full THEN INVALID_RLC_SN ELSE tx_next
      payload == IF full THEN unsegmented_payload ELSE grant
      poll == poll_bit(FALSE, payload, Tail(sdu_queue), retx_queue, under, window)
  IN  [window |-> window, under |-> under, payload |-> payload, complete |-> full,
       pdu |-> data_pdu(tx_next, Head(sdu_queue), 0, new_len(grant), poll)]

can_build_new ==
  /\ retx_queue = <<>> /\ sn_under_segmentation = INVALID_RLC_SN
  /\ sdu_queue # <<>> /\ ~is_tx_window_full(tx_window)

BuildNewPdu(grant) ==
  LET built == built_new(grant) IN
  /\ can_build_new /\ ~max_retx_reached
  /\ sdu_queue' = Tail(sdu_queue)
  /\ tx_window' = built.window
  /\ sn_under_segmentation' = built.under
  /\ tx_next' = next_after(built.complete)
  /\ ApplyPoll(built.pdu.p, FALSE, built.payload, tx_next)
  /\ UNCHANGED <<tx_next_ack, retxVars, notified>>

(* build_continued_sdu_segment                                              *)
built_continued(grant) ==
  LET info == tx_window[sn_under_segmentation]
      len == Min({grant, SduLen - info.next_so})
      last == info.next_so + len = SduLen
      under == IF last THEN INVALID_RLC_SN ELSE sn_under_segmentation
      poll == poll_bit(FALSE, len, sdu_queue, retx_queue, under, tx_window)
  IN  [under |-> under, complete |-> last,
       pdu |-> data_pdu(tx_next, info.sdu, info.next_so, len, poll)]

can_continue == retx_queue = <<>> /\ sn_under_segmentation # INVALID_RLC_SN

BuildContinuedSegment(grant) ==
  LET built == built_continued(grant) IN
  /\ can_continue /\ ~max_retx_reached
  /\ tx_window' = [tx_window EXCEPT ![sn_under_segmentation].next_so = @ + built.pdu.len]
  /\ sn_under_segmentation' = built.under
  /\ tx_next' = next_after(built.complete)
  /\ ApplyPoll(built.pdu.p, FALSE, built.pdu.len, tx_next)
  /\ UNCHANGED <<sdu_queue, tx_next_ack, retxVars, notified>>

(* build_retx_pdu: send the front of the queue, or as much of it as fits.   *)
built_retx(grant) ==
  LET retx == Head(retx_queue)
      len == Min({grant, retx.len})
      rest == IF len = retx.len THEN Tail(retx_queue)
              ELSE <<[retx EXCEPT !.so = @ + len, !.len = @ - len]>> \o Tail(retx_queue)
      poll == poll_bit(TRUE, 0, sdu_queue, rest, sn_under_segmentation, tx_window)
  IN  [queue |-> rest, complete |-> len = retx.len,
       pdu |-> data_pdu(retx.sn, tx_window[retx.sn].sdu, retx.so, len, poll)]

BuildRetxPdu(grant) ==
  LET built == built_retx(grant) IN
  /\ retx_queue # <<>> /\ ~max_retx_reached
  /\ retx_queue' = built.queue /\ retx_sn' = built.pdu.sn
  /\ max_retx_reached' = (built.complete
                            /\ tx_window[built.pdu.sn].retx_count = max_retx_thresh)
  /\ ApplyPoll(built.pdu.p, TRUE, 0, tx_next)
  /\ UNCHANGED <<sendVars, tx_next_ack, notified>>

PullDataPdu(grant) == BuildRetxPdu(grant) \/ BuildContinuedSegment(grant) \/ BuildNewPdu(grant)

pulled_pdu(grant) ==
  IF retx_queue # <<>> THEN built_retx(grant).pdu
  ELSE IF sn_under_segmentation # INVALID_RLC_SN THEN built_continued(grant).pdu
  ELSE built_new(grant).pdu

-----------------------------------------------------------------------------
(* handle_status_pdu                                                        *)

last_nacked(nack) == nack.nack_sn + nof_sdus(nack) - 1

valid_nack(ack_sn, nack) ==
  /\ tx_mod_base(tx_next_ack, nack.nack_sn) < tx_mod_base(tx_next_ack, ack_sn)
  /\ tx_mod_base(tx_next_ack, last_nacked(nack)) < tx_mod_base(tx_next_ack, ack_sn)
  /\ inside_tx_window(nack.nack_sn) /\ inside_tx_window(last_nacked(nack))
  /\ tx_mod_base(tx_next_ack, nack.nack_sn) <= tx_mod_base(tx_next_ack, tx_next)
  /\ tx_mod_base(tx_next_ack, last_nacked(nack)) <= tx_mod_base(tx_next_ack, tx_next)

ack_ahead(status) ==
  tx_mod_base(tx_next_ack, status.ack_sn) > tx_mod_base(tx_next_ack, tx_next + 1)

usable(status) ==
  /\ valid_tx_ack_sn(status.ack_sn) /\ ~ack_ahead(status)
  /\ \A i \in 1 .. Len(status.nacks) : valid_nack(status.ack_sn, status.nacks[i])

(* ACKs are processed up to the first NACK; a hole in the window ends it.   *)
ack_limit_IgnoreNacks(status) == status.ack_sn
ack_limit(status) ==
  IF status.nacks = <<>> THEN status.ack_sn ELSE status.nacks[1].nack_sn
acked(status) ==
  LET n == tx_mod_base(tx_next_ack, ack_limit(status))
      present(k) == in_window(tx_window, (tx_next_ack + k) % Mod)
  IN  {(tx_next_ack + k) % Mod : k \in {j \in 0 .. n - 1 : \A i \in 0 .. j : present(i)}}

(* increment_retx_count and decrement_retx_count                            *)
decremented(count) == IF count = RETX_COUNT_NOT_STARTED THEN count ELSE count - 1
count_retx_OnePastLimit(tx, sn) ==
  [tx EXCEPT !.window[sn].retx_count = @ + 1,
             !.max_retx = @ \/ tx.window[sn].retx_count = max_retx_thresh]
count_retx(tx, sn) ==
  [tx EXCEPT !.window[sn].retx_count = @ + 1,
             !.max_retx = @ \/ tx.window[sn].retx_count + 1 = max_retx_thresh]

(* The old retx queue is dropped; an SN whose retransmission had not begun  *)
(* gets its count back, once.                                               *)
kept_retx_All(queue) == queue
kept_retx(queue) == <<>>
rewind_step(tx, retx) ==
  IF retx.sn = tx.retx_sn THEN tx
  ELSE IF in_window(tx.window, retx.sn)
    THEN [tx EXCEPT !.window[retx.sn].retx_count = decremented(@), !.retx_sn = retx.sn]
    ELSE [tx EXCEPT !.retx_sn = retx.sn]

(* handle_nack: the bytes to retransmit, cut to what was sent; none for     *)
(* the unsent rest of the SDU under segmentation.                           *)
nack_end(tx, nack) ==
  IF ~nack.has_so THEN SduLen - 1
  ELSE IF nack.so_end # so_end_of_sdu THEN nack.so_end
  ELSE IF nack.nack_sn = sn_under_segmentation THEN tx.window[nack.nack_sn].next_so - 1
  ELSE SduLen - 1
nack_ignored(tx, nack) ==
  \/ tx_mod_base(tx.low, nack.nack_sn) > tx_mod_base(tx.low, tx_next)
  \/ /\ nack.has_so /\ nack.so_end = so_end_of_sdu
     /\ nack.nack_sn = sn_under_segmentation
     /\ nack.so_start >= tx.window[nack.nack_sn].next_so

handle_nack(tx, nack) ==
  LET end == nack_end(tx, nack)
      bad == nack.so_start > end \/ nack.so_start >= SduLen \/ end >= SduLen
      first == IF nack.so_start > end \/ nack.so_start >= SduLen THEN 0 ELSE nack.so_start
      last == IF end >= SduLen THEN SduLen - 1 ELSE end
      pushed == [tx EXCEPT !.queue = Append(@, [sn |-> nack.nack_sn, so |-> first,
                                                len |-> last - first + 1]),
                           !.prev = nack.nack_sn, !.failure = @ \/ bad]
  IN  IF nack_ignored(tx, nack) THEN tx
      ELSE IF Len(tx.queue) = AmWindow THEN [tx EXCEPT !.failure = @ \/ bad]
      ELSE IF tx.prev = nack.nack_sn THEN pushed
      ELSE count_retx(pushed, nack.nack_sn)

IgnoreStatusPdu(status) ==
  /\ ~usable(status)
  /\ notified' = [notified EXCEPT
       !.failure = @ \/ (valid_tx_ack_sn(status.ack_sn) /\ ack_ahead(status))]
  /\ UNCHANGED <<sendVars, tx_next_ack, pollVars, retxVars>>

ProcessStatusPdu(status) ==
  LET sns == acked(status)
      low == (tx_next_ack + Cardinality(sns)) % Mod
      rewound == FoldLeft(rewind_step,
                   [window |-> [sn \in Sns |-> IF sn \in sns THEN NoSdu ELSE tx_window[sn]],
                    retx_sn |-> retx_sn], retx_queue)
      after == FoldLeft(handle_nack,
                 [window |-> rewound.window, queue |-> kept_retx(retx_queue), prev |-> INVALID_RLC_SN, low |-> low,
                  max_retx |-> notified.max_retx, failure |-> notified.failure],
                 expand_nacks(status))
  IN  /\ usable(status)
      /\ poll_timer' = (poll_timer /\ tx_mod_base(tx_next_ack, poll_sn)
                                        >= tx_mod_base(tx_next_ack, status.ack_sn))
      /\ tx_next_ack' = low
      /\ tx_window' = after.window
      /\ retx_queue' = after.queue /\ retx_sn' = INVALID_RLC_SN
      /\ notified' = [confirmed |-> notified.confirmed \cup {tx_window[sn].sdu : sn \in sns},
                      max_retx |-> after.max_retx, failure |-> after.failure]
      /\ UNCHANGED <<sdu_queue, tx_next, sn_under_segmentation, poll_sn, pdu_without_poll,
                     byte_without_poll, poll_expired, max_retx_reached>>

HandleStatusPdu(status) == IgnoreStatusPdu(status) \/ ProcessStatusPdu(status)

(* on_expired_poll_retransmit_timer: with nothing else to send, the first   *)
(* SDU without an ACK is sent again; the next PDU carries a poll.           *)
retx_wanted(stuck) ==
  stuck /\ in_window(tx_window, tx_next_ack) /\ Len(retx_queue) < AmWindow

ExpirePollRetransmit ==
  LET stuck == buffers_empty(sdu_queue, retx_queue, sn_under_segmentation)
                 \/ is_tx_window_full(tx_window)
      known == in_window(tx_window, tx_next_ack)
      retx == [sn |-> tx_next_ack, so |-> 0, len |-> SduLen]
      tx == count_retx([window |-> tx_window, max_retx |-> notified.max_retx], tx_next_ack)
      push == retx_wanted(stuck)
  IN  /\ poll_timer
      /\ poll_timer' = FALSE
      /\ poll_expired' = (poll_expired \/ ~stuck \/ known)
      /\ retx_queue' = IF push THEN Append(retx_queue, retx) ELSE retx_queue
      /\ tx_window' = IF push THEN tx.window ELSE tx_window
      /\ notified' = IF push THEN [notified EXCEPT !.max_retx = tx.max_retx] ELSE notified
      /\ UNCHANGED <<sdu_queue, tx_next, sn_under_segmentation, tx_next_ack, poll_sn,
                     pdu_without_poll, byte_without_poll, retx_sn,
                     max_retx_reached>>
=============================================================================
