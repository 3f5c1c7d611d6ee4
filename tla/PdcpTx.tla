------------------------------- MODULE PdcpTx -------------------------------
(***************************************************************************)
(* The transmitting PDCP entity (lib/pdcp/pdcp_entity_tx.cpp).  An SDU     *)
(* from upper layers gets the next COUNT, is ciphered and goes to the      *)
(* lower layers; a DRB keeps it in tx_window until the lower layers        *)
(* confirm it, the peer's status report does, or discardTimer expires.     *)
(* One timer serves the whole window: it runs for the oldest SDU.          *)
(*                                                                         *)
(* Every handler runs to completion on the UE's executors, so a handler is *)
(* one action.  Time is relative: an SDU has an age, the timer has ticks   *)
(* left, and its callback may run up to MaxLag ticks late because it has   *)
(* to queue on the executor.  A false srsran_assert ends the program:      *)
(* aborted.                                                                *)
(***************************************************************************)
EXTENDS PdcpSn, FiniteSetsExt

CONSTANTS
  Cfgs,          \* bearer configurations, see SRB, AM, UM below
  InitCount,     \* COUNT of the first SDU; the ones before are all confirmed
  MaxHard,       \* cfg.custom.max_count.hard
  MaxNotify,     \* cfg.custom.max_count.notify
  DiscardTicks,  \* value of a finite discardTimer
  MaxLag,        \* bound: how late the timer callback may run
  DesiredSizes,  \* buffer sizes the lower layers ask for, in PDUs
  Failures,      \* which buffer operations may fail: subset of {"copy", "header"}
  Bitmaps,       \* whether a status report may have a bitmap
  MaxKey         \* bound: number of keys upper layers configure

SRB == [drb |-> FALSE, am |-> TRUE, discard |-> "none"]
AM(discard) == [drb |-> TRUE, am |-> TRUE, discard |-> discard]
UM == [drb |-> TRUE, am |-> FALSE, discard |-> "finite"]

ASSUME PdcpTxAssumption ==
  /\ Cfgs \subseteq {SRB, AM("finite"), AM("infinity"), UM}
  /\ MaxHard \in Nat /\ MaxHard < CountMod /\ InitCount \in 0 .. MaxHard
  /\ MaxNotify \in 0 .. MaxHard
  /\ DiscardTicks \in Nat \ {0} /\ MaxLag \in Nat
  /\ DesiredSizes \subseteq Nat
  /\ Failures \subseteq {"copy", "header"}
  /\ Bitmaps \in BOOLEAN /\ MaxKey \in Nat

VARIABLES
  cfg,                  \* the configuration, fixed when the entity is created
  e,                    \* state variables, window and timer: see Init
  desired_buffer_size,
  max_count_notified, max_count_overflow,
  key,                  \* the key sec_engine was built with
  stopped, aborted,
  used,                 \* ghost: one more than the highest COUNT used with this key
  stale,                \* ghost: COUNT was started over without a new key
  lost,                 \* ghost: COUNTs that left the window without a reason
  orphan                \* ghost: the timer runs for an SDU that is not there any more

vars == <<cfg, e, desired_buffer_size, max_count_notified, max_count_overflow,
          key, stopped, aborted, used, stale, lost, orphan>>
flags == <<max_count_notified, max_count_overflow, desired_buffer_size, stopped>>
keys == <<key, used, stale>>
ghosts == <<used, stale, lost, orphan>>

Off == [running |-> FALSE, left |-> 0]
Run(duration) == [running |-> TRUE, left |-> Max({duration, 1})]

Init ==
  /\ cfg \in Cfgs
  /\ e = [tx_next |-> InitCount, tx_trans |-> InitCount, tx_next_ack |-> InitCount,
          window |-> <<>>, timer |-> Off]
  /\ desired_buffer_size = 0
  /\ max_count_notified = FALSE /\ max_count_overflow = FALSE
  /\ key = 1
  /\ stopped = FALSE /\ aborted = FALSE
  /\ used = 0 /\ stale = FALSE
  /\ lost = {} /\ orphan = FALSE

Beyond(counts) == Max({0} \cup {c + 1 : c \in counts})
Use(counts) == used' = Max({used, Beyond(counts)})

(* Of the SDUs that are not in window w any more, only those of reason     *)
(* were meant to go.                                                       *)
Leave(w, reason) == lost' = lost \cup (DOMAIN e.window \ (DOMAIN w \cup reason))

Live == ~stopped /\ ~aborted
has_sn(w, count) == count \in DOMAIN w
Without(w, counts) == [c \in DOMAIN w \ counts |-> w[c]]

(* The window is a ring of window_size places: a COUNT takes the place of  *)
(* the COUNT one window earlier, whatever was there.                       *)
add_sdu(w, count) ==
  LET kept == {c \in DOMAIN w : c % window_size # count % window_size}
  IN  [c \in kept \cup {count} |-> IF c = count THEN 0 ELSE w[c]]

-----------------------------------------------------------------------------
(* Helpers: each maps the entity state before to the one after.            *)

InWindow(s, count) == s.tx_next_ack <= count /\ count < s.tx_next

(* TX_NEXT_ACK moves to the oldest SDU that is left, or to TX_NEXT.        *)
OldestFrom(w, from, next) == Min({next} \cup {c \in DOMAIN w : from <= c /\ c < next})

(* A sequence of calls of discard_pdu: the COUNTs outside the window or    *)
(* not in it are passed over, TX_NEXT_ACK follows what is left, and        *)
(* TX_TRANS is not left behind.                                            *)
discard_all(s, counts) ==
  LET gone == {c \in counts : InWindow(s, c) /\ has_sn(s.window, c)}
      w == Without(s.window, gone)
      ack == OldestFrom(w, s.tx_next_ack, s.tx_next)
  IN  IF cfg.discard = "none" \/ gone = {} THEN s
      ELSE [s EXCEPT !.window = w, !.tx_next_ack = ack, !.tx_trans = Max({s.tx_trans, ack})]

discard_pdu(s, count) == discard_all(s, {count})

(* stop_discard_timer: release everything up to highest, then run the      *)
(* timer for what is left of the new oldest SDU's time.  Ok is false when  *)
(* an assertion of the window or of the timer fails on the way.            *)
Remaining(s) == DiscardTicks - s.window[s.tx_next_ack]
NeedsTimer(s) == cfg.discard = "finite" /\ s.tx_next_ack # s.tx_next

ReleaseUpTo(s, highest) ==
  [s EXCEPT !.window = Without(s.window, s.tx_next_ack .. highest),
            !.tx_next_ack = highest + 1,
            !.tx_trans = Max({s.tx_trans, highest + 1}),
            !.timer = Off]

StopApplies(s, highest) ==
  /\ cfg.discard # "none"
  /\ InWindow(s, highest)
  /\ has_sn(s.window, s.tx_next_ack)

StopOk(s, highest) ==
  LET r == ReleaseUpTo(s, highest)
  IN  StopApplies(s, highest) /\ NeedsTimer(r)
        => has_sn(r.window, r.tx_next_ack) /\ Remaining(r) >= 0

stop_discard_timer_NoRestart(s, highest) ==
  IF StopApplies(s, highest) THEN ReleaseUpTo(s, highest) ELSE s

stop_discard_timer(s, highest) ==
  LET r == ReleaseUpTo(s, highest)
  IN  IF ~StopApplies(s, highest) THEN s
      ELSE IF NeedsTimer(r) THEN [r EXCEPT !.timer = Run(Remaining(r))]
      ELSE r

(* discard_callback: discard the oldest SDU and the ones after it that     *)
(* arrived in the same tick; run the timer for the next one.               *)
SameTick(s) ==
  LET w == s.window
      old == w[s.tx_next_ack]
  IN  {c \in DOMAIN w : InWindow(s, c) /\ \A d \in DOMAIN w :
         InWindow(s, d) /\ d <= c => w[d] = old}

discard_callback(s) ==
  IF ~has_sn(s.window, s.tx_next_ack) THEN [s EXCEPT !.timer = Off]
  ELSE LET old == s.window[s.tx_next_ack]
           r == discard_all([s EXCEPT !.timer = Off], SameTick(s))
       IN  IF has_sn(r.window, r.tx_next_ack) /\ r.window[r.tx_next_ack] # old
           THEN [r EXCEPT !.timer = Run(old - r.window[r.tx_next_ack])]
           ELSE r

notification_count_estimation(sn) ==
  InferCount(sn, IF cfg.discard # "none" THEN e.tx_next_ack ELSE e.tx_trans)

-----------------------------------------------------------------------------
(* SDUs from upper layers                                                  *)

check_early_drop_WideWindow ==
  \/ desired_buffer_size = 0
  \/ Cardinality(DOMAIN e.window) + 1 > desired_buffer_size
  \/ e.tx_next - e.tx_next_ack > window_size
check_early_drop ==
  \/ desired_buffer_size = 0
  \/ Cardinality(DOMAIN e.window) + 1 > desired_buffer_size
  \/ e.tx_next - e.tx_next_ack >= window_size - 1

WithTimer(s) ==
  IF cfg.discard = "finite" /\ ~s.timer.running
  THEN [s EXCEPT !.timer = Run(DiscardTicks)] ELSE s

(* handle_sdu past the early drop and the maximum COUNT.  The SDU enters   *)
(* the window before its header is written, and TX_NEXT moves last: an     *)
(* SDU whose header cannot be written stays in the window at TX_NEXT.      *)
SendSdu(fail) ==
  LET count == e.tx_next
      timed == WithTimer(e)
      freed == IF has_sn(timed.window, count) THEN discard_pdu(timed, count) ELSE timed
      stored == IF cfg.discard = "none" THEN e
                ELSE [freed EXCEPT !.window = add_sdu(freed.window, count)]
  IN  /\ max_count_notified' = (max_count_notified \/ count >= MaxNotify)
      /\ \/ /\ fail = "copy" /\ cfg.am /\ cfg.discard # "none"
            /\ e' = freed
            /\ Leave(freed.window, {})
            /\ orphan' = (orphan \/ freed.timer # e.timer)
            /\ UNCHANGED <<aborted, used>>
         \/ /\ fail # "copy" /\ cfg.discard # "none" /\ has_sn(freed.window, count)
            /\ aborted' = TRUE
            /\ UNCHANGED <<e, used, lost, orphan>>
         \/ /\ fail = "header" /\ ~has_sn(freed.window, count)
            /\ e' = stored
            /\ Leave(stored.window, {})
            /\ UNCHANGED <<aborted, used, orphan>>
         \/ /\ fail = "none" /\ ~has_sn(freed.window, count)
            /\ e' = [stored EXCEPT !.tx_next = count + 1]
            /\ Leave(stored.window, {})
            /\ Use({count})
            /\ UNCHANGED <<aborted, orphan>>
      /\ UNCHANGED <<cfg, max_count_overflow, desired_buffer_size, stopped, key, stale>>

handle_sdu ==
  /\ Live
  /\ \/ /\ cfg.drb /\ check_early_drop
        /\ UNCHANGED vars
     \/ /\ ~(cfg.drb /\ check_early_drop)
        /\ e.tx_next >= MaxHard
        /\ max_count_overflow' = TRUE
        /\ UNCHANGED <<cfg, e, max_count_notified, desired_buffer_size, stopped,
                       key, aborted, ghosts>>
     \/ /\ ~(cfg.drb /\ check_early_drop)
        /\ e.tx_next < MaxHard
        /\ \E fail \in Failures \cup {"none"} : SendSdu(fail)

-----------------------------------------------------------------------------
(* Notifications from the lower layers.  They name the highest sequence    *)
(* number that was transmitted or delivered, of a PDU sent since the last  *)
(* reset; they may be repeated, and late by up to a window.                *)

Notifiable == {c \in 0 .. (e.tx_next - 1) : c >= e.tx_next_ack - window_size}

(* The end of both handlers: release up to the COUNT inferred from sn.     *)
Release(s, count) ==
  /\ IF StopOk(s, count)
     THEN e' = stop_discard_timer(s, count) /\ UNCHANGED aborted
     ELSE e' = ReleaseUpTo(s, count) /\ aborted' = TRUE
  /\ orphan' = (orphan /\ ~StopApplies(s, count))

handle_transmit_notification ==
  /\ Live
  /\ \E c \in Notifiable :
       LET count == notification_count_estimation(SN(c))
           s == [e EXCEPT !.tx_trans = count + 1]
       IN  /\ e.tx_trans <= count /\ count < e.tx_next
           /\ IF cfg.discard # "none" /\ ~cfg.am
              THEN Release(s, count) /\ Leave(e'.window, 0 .. c)
              ELSE e' = s /\ UNCHANGED <<aborted, lost, orphan>>
  /\ UNCHANGED <<cfg, flags, keys>>

handle_delivery_notification ==
  /\ Live
  /\ cfg.am /\ cfg.discard # "none"
  /\ \E c \in Notifiable :
       LET count == notification_count_estimation(SN(c))
       IN  /\ count < e.tx_next
           /\ Release(e, count)
           /\ Leave(e'.window, 0 .. c)
  /\ UNCHANGED <<cfg, flags, keys>>

handle_desired_buffer_size_notification ==
  /\ Live
  /\ desired_buffer_size' \in DesiredSizes
  /\ UNCHANGED <<cfg, e, max_count_notified, max_count_overflow, stopped, key,
                 aborted, ghosts>>

(* The peer's status report: everything below fmc has arrived, and what    *)
(* the bitmap marks.  The discard timer is left as it is, whatever SDU it  *)
(* was started for.                                                        *)
handle_status_report ==
  /\ Live
  /\ cfg.drb /\ cfg.am
  /\ \E fmc \in e.tx_next_ack .. e.tx_next :
     \E marked \in IF Bitmaps THEN SUBSET ((fmc + 1) .. (e.tx_next - 1)) ELSE {{}} :
       LET received == e.tx_next_ack .. (fmc - 1) \cup marked
       IN  /\ e' = discard_all(e, received)
           /\ Leave(e'.window, received)
  /\ orphan' = (orphan \/ (e.timer.running /\ e'.tx_next_ack # e.tx_next_ack))
  /\ UNCHANGED <<cfg, flags, keys, aborted>>

-----------------------------------------------------------------------------
(* Control by upper layers                                                 *)

(* Retransmission of the window, in COUNT order; a failing buffer          *)
(* operation cuts it short.                                                *)
Resent ==
  IF cfg.discard = "none" \/ ~cfg.am THEN {{}}
  ELSE LET held == {c \in DOMAIN e.window : InWindow(e, c)}
           ends == IF Failures = {} THEN {e.tx_next} ELSE held \cup {e.tx_next}
       IN  {{c \in held : c < end} : end \in ends}

retransmit_all_pdus ==
  e' = IF cfg.discard = "none" \/ ~cfg.am THEN e
       ELSE [e EXCEPT !.tx_trans = e.tx_next_ack]

data_recovery ==
  /\ Live
  /\ cfg.drb /\ cfg.am
  /\ retransmit_all_pdus
  /\ \E counts \in Resent : Use(counts)
  /\ UNCHANGED <<cfg, flags, key, aborted, stale, lost, orphan>>

(* renew: the configuration brings a new key.  It need not: the caller may *)
(* hand over the one in use, and without a key or an algorithm the code    *)
(* returns with the old sec_engine.  From here on the COUNTs of the        *)
(* retransmissions are used with the key.                                  *)
configure_security_Same(renew, counts) == UNCHANGED key /\ Use(counts)
configure_security(renew, counts) ==
  \/ renew /\ key < MaxKey /\ key' = key + 1 /\ used' = Beyond(counts)
  \/ ~renew /\ UNCHANGED key /\ Use(counts)

(* reset leaves discard_timer as it is.                                    *)
reset ==
  /\ e' = [e EXCEPT !.tx_next = 0, !.tx_trans = 0, !.tx_next_ack = 0, !.window = <<>>]
  /\ orphan' = e.timer.running

reestablish ==
  /\ Live
  /\ \E renew \in BOOLEAN :
       \/ /\ ~cfg.drb \/ ~cfg.am
          /\ reset
          /\ configure_security(renew, {})
          /\ stale' = ~renew
       \/ /\ cfg.drb /\ cfg.am
          /\ retransmit_all_pdus
          /\ \E counts \in Resent : configure_security(renew, counts)
          /\ stale' = (stale /\ ~renew)
          /\ UNCHANGED orphan
  /\ UNCHANGED <<cfg, flags, aborted, lost>>

update_security_config ==
  /\ Live
  /\ \E renew \in BOOLEAN :
       configure_security(renew, {}) /\ stale' = (stale /\ ~renew)
  /\ UNCHANGED <<cfg, e, flags, aborted, lost, orphan>>

stop ==
  /\ Live
  /\ stopped' = TRUE
  /\ e' = [e EXCEPT !.window = <<>>, !.timer = IF cfg.discard = "none" THEN @ ELSE Off]
  /\ orphan' = FALSE
  /\ UNCHANGED <<cfg, desired_buffer_size, max_count_notified, max_count_overflow,
                 keys, aborted, lost>>

-----------------------------------------------------------------------------
(* Time.  It matters only while the timer runs.  Ages stop at MaxAge: only *)
(* an SDU stuck at TX_NEXT gets that old, and it has no timer.             *)
MaxAge == 2 * (DiscardTicks + MaxLag + 1)

Tick ==
  /\ Live
  /\ e.timer.running /\ e.timer.left > -MaxLag
  /\ e' = [e EXCEPT !.timer.left = @ - 1,
                    !.window = [c \in DOMAIN e.window |->
                                  Min({e.window[c] + 1, MaxAge})]]
  /\ UNCHANGED <<cfg, flags, key, aborted, ghosts>>

(* An SDU goes with a reason when it waited its time, or when the timer    *)
(* was an orphan: then it discards whatever SDU is the oldest by now, and  *)
(* the timer that is run for the next one is early as well.                *)
Due == {c \in DOMAIN e.window : orphan \/ e.window[c] >= DiscardTicks}

DiscardExpiry ==
  /\ Live
  /\ e.timer.running /\ e.timer.left <= 0
  /\ e' = discard_callback(e)
  /\ Leave(e'.window, Due)
  /\ orphan' = (orphan /\ e'.timer.running)
  /\ UNCHANGED <<cfg, flags, keys, aborted>>

Next ==
  \/ handle_sdu
  \/ handle_transmit_notification
  \/ handle_delivery_notification
  \/ handle_desired_buffer_size_notification
  \/ handle_status_report
  \/ data_recovery
  \/ reestablish
  \/ update_security_config
  \/ stop
  \/ Tick
  \/ DiscardExpiry

Spec == Init /\ [][Next]_vars

-----------------------------------------------------------------------------
(* A COUNT protects one SDU per key: the COUNT of the next new SDU was     *)
(* never used with the key (comment at pdcp_entity_tx.cpp:155), however    *)
(* data recovery, re-establishment and new or missing keys alternate.  A   *)
(* DRB with RLC AM, whose COUNT goes on, needs nothing for it; an SRB or a *)
(* DRB with RLC UM starts COUNT over when it is re-established, and is     *)
(* safe unless that brought no new key.                                    *)
CountNotReused ==
  used <= e.tx_next \/ (stale /\ ~(cfg.drb /\ cfg.am))

(* The same without the exception.  Nothing in the entity ties the reset   *)
(* of COUNT to a new key: the caller has to bring one.                     *)
CountNeverReused == used <= e.tx_next

(* While the entity works and is not reset, an SDU of a DRB leaves the     *)
(* window only when the lower layers or the peer confirmed it or it waited *)
(* for DiscardTicks: no notification, however late, releases an SDU it is  *)
(* not about, no SDU takes the place of another in the window, and the     *)
(* timer, restarted for one SDU after the other, is never early.  The one  *)
(* exception is a timer whose own SDU went while it ran: a status report,  *)
(* a reset and an SDU that was not stored leave it running, and it         *)
(* discards what it finds.                                                 *)
NothingLostSilently == lost = {}

(* When the discard timer expires, the oldest SDU waited for its time: "a  *)
(* new timer is started upon reception of an SDU" (pdcp_config.h:89), and  *)
(* without an SDU in the window none runs (pdcp_entity_tx.h:55).           *)
DiscardIsDue ==
  /\ Live /\ e.timer.running /\ e.timer.left <= 0
  /\ has_sn(e.window, e.tx_next_ack) /\ e.tx_next_ack < e.tx_next
  => e.window[e.tx_next_ack] >= DiscardTicks

(* While an SDU is waiting in the window of a bearer with a finite         *)
(* discardTimer, the timer runs: nothing can stay there for ever.          *)
WindowIsWatched ==
  cfg.discard = "finite" /\ ~aborted
    => \A c \in DOMAIN e.window : c < e.tx_next => e.timer.running

(* No assertion of the window or of the timer fails: every entry the code  *)
(* reads is there, none is written twice, every duration is a valid one    *)
(* (circular_map.h:409, sdu_window.h:47, timers.cpp:236).                  *)
AssertionsHold == ~aborted

(* TX_NEXT_ACK is the oldest SDU in the window, unless it is TX_NEXT       *)
(* (comments at pdcp_entity_tx.cpp:863 and :915).                          *)
TxNextAckIsOldest ==
  cfg.discard # "none" /\ ~stopped /\ e.tx_next_ack # e.tx_next
    => has_sn(e.window, e.tx_next_ack)
=============================================================================
