------------------------------- MODULE RlcAm -------------------------------
(***************************************************************************)
(* One direction of an RLC AM bearer: a transmitting entity (RlcAmTx), a    *)
(* receiving entity (RlcAmRx), and the MAC below them.  HARQ may lose a PDU *)
(* for good and lets PDUs overtake each other, but only for a while: a PDU  *)
(* is overtaken at most Overtake times, a report StatusOvertake times.      *)
(***************************************************************************)
EXTENDS RlcAmTx

CONSTANTS
  MaxSnPerReport, TReassembly, TProhibit,  \* receiver, see RlcAmRx
  FirstSn,          \* SDUs carried before, all confirmed by now
  NumSdus,          \* bound: SDUs handed to the transmitter
  MaxDiscards,      \* bound: SDUs discarded
  Grants,           \* payload sizes of the MAC grants
  StatusGrants,     \* sizes of the grants for status PDUs
  AirSize, StatusAirSize,  \* bound: data and status PDUs in flight
  MaxLosses,        \* bound: PDUs lost, both ways
  Overtake, StatusOvertake,
  RetxBound,        \* bound: retransmissions of an SDU
  EarlyTimeouts     \* t-PollRetransmit may expire while an answer is on its way

ASSUME ReorderingAssumption == FirstSn \in Sns /\ Overtake + 2 <= AmWindow

VARIABLES
  rx_next, rx_next_status_trigger, rx_highest_status, rx_next_highest,
  got, reassembly_timer, do_status, prohibit_timer, report,
  air, reports,     \* data and status PDUs in flight: [pdu, overtaken]
  losses, discards,
  next_sdu, accepted,
  rx_sdu,           \* ghost: SN -> SDUs whose bytes are stored under it
  delivered,        \* SDUs delivered by the receiver
  unpolled,         \* ghost: the last PDU sent carried no poll
  dropped,          \* ghost: retransmissions dropped unsent since the last poll
  misdelivered      \* ghost: SDUs delivered twice or with bytes of another SDU

Rx == INSTANCE RlcAmRx
rxVars == <<rx_next, rx_next_status_trigger, rx_highest_status, rx_next_highest,
            got, reassembly_timer, do_status, prohibit_timer, report>>
users == <<next_sdu, accepted, discards>>
deliveries == <<rx_sdu, delivered, misdelivered>>
ghosts == <<deliveries, unpolled, dropped>>
vars == <<txVars, rxVars, air, reports, losses, users, ghosts>>

Sdus == 1 .. NumSdus

(* FirstSn = 0: as the entities are created.  Otherwise as they are after   *)
(* FirstSn SDUs, the last of which carried the last poll.                   *)
RxInit ==
  /\ rx_next = FirstSn /\ rx_next_highest = FirstSn
  /\ rx_next_status_trigger = FirstSn /\ rx_highest_status = FirstSn
  /\ got = [sn \in Sns |-> {}] /\ reassembly_timer = 0
  /\ do_status = FALSE /\ prohibit_timer = 0
  /\ report = [empty_report EXCEPT !.ack_sn = FirstSn]

Init ==
  /\ TxInit(FirstSn) /\ RxInit
  /\ air = <<>> /\ reports = <<>> /\ losses = 0 /\ discards = 0
  /\ next_sdu = 1 /\ accepted = {}
  /\ rx_sdu = [sn \in Sns |-> {}] /\ delivered = {} /\ misdelivered = {}
  /\ unpolled = FALSE /\ dropped = FALSE

-----------------------------------------------------------------------------
(* The MAC: PDUs in flight                                                  *)
sent(channel, pdu) == Append(channel, [pdu |-> pdu, overtaken |-> 0])
may_arrive(channel, i, limit) == \A j \in 1 .. i - 1 : channel[j].overtaken < limit
arrived(channel, i) ==
  RemoveAt([j \in 1 .. Len(channel) |->
              IF j < i THEN [channel[j] EXCEPT !.overtaken = @ + 1] ELSE channel[j]], i)

LoseData ==
  /\ losses < MaxLosses
  /\ \E i \in 1 .. Len(air) : air' = RemoveAt(air, i)
  /\ losses' = losses + 1
  /\ UNCHANGED <<txVars, rxVars, reports, users, ghosts>>

LoseStatus ==
  /\ losses < MaxLosses
  /\ \E i \in 1 .. Len(reports) : reports' = RemoveAt(reports, i)
  /\ losses' = losses + 1
  /\ UNCHANGED <<txVars, rxVars, air, users, ghosts>>

-----------------------------------------------------------------------------
(* Transmitting side                                                        *)
Submit ==
  /\ next_sdu <= NumSdus
  /\ HandleSdu(next_sdu)
  /\ next_sdu' = next_sdu + 1
  /\ accepted' = IF Contains(sdu_queue', next_sdu) THEN accepted \cup {next_sdu} ELSE accepted
  /\ UNCHANGED <<rxVars, air, reports, losses, discards, ghosts>>

Discard(sdu) ==
  /\ discards < MaxDiscards
  /\ DiscardSdu(sdu)
  /\ discards' = discards + 1
  /\ accepted' = accepted \ {sdu}
  /\ UNCHANGED <<rxVars, air, reports, losses, next_sdu, ghosts>>

SendData ==
  /\ Len(air) < AirSize
  /\ \A sn \in Sns : tx_window[sn].retx_count <= RetxBound
  /\ \E grant \in Grants :
       /\ PullDataPdu(grant)
       /\ air' = sent(air, pulled_pdu(grant))
       /\ unpolled' = ~pulled_pdu(grant).p /\ dropped' = (dropped /\ unpolled')
  /\ UNCHANGED <<rxVars, reports, losses, users, deliveries>>

(* A report that covers less than an earlier one, for lack of room in its   *)
(* grant, drops the retransmissions the earlier one asked for.              *)
drops(status) ==
  /\ usable(status)
  /\ \E i \in DOMAIN retx_queue :
       tx_mod_base(tx_next_ack, retx_queue[i].sn) >= tx_mod_base(tx_next_ack, status.ack_sn)

ReceiveStatus ==
  /\ \E i \in 1 .. Len(reports) :
       /\ may_arrive(reports, i, StatusOvertake)
       /\ HandleStatusPdu(reports[i].pdu)
       /\ reports' = arrived(reports, i)
       /\ dropped' = (dropped \/ drops(reports[i].pdu))
  /\ UNCHANGED <<rxVars, air, losses, users, deliveries, unpolled>>

(* Unless EarlyTimeouts, t-PollRetransmit is long enough for the answer to  *)
(* the poll to arrive, if there is one.                                     *)
answer_possible == air # <<>> \/ reports # <<>> \/ do_status \/ reassembly_timer > 0
PollTimeout ==
  /\ EarlyTimeouts \/ ~answer_possible
  /\ ExpirePollRetransmit
  /\ UNCHANGED <<rxVars, air, reports, losses, users, ghosts>>

-----------------------------------------------------------------------------
(* Receiving side                                                           *)
ReceiveData ==
  /\ \E i \in 1 .. Len(air) :
       LET pdu == air[i].pdu
           bytes == pdu.so .. pdu.so + pdu.len - 1
           stored == ~Rx!discarded(pdu.sn) /\ ~(bytes \subseteq got[pdu.sn])
           sources == IF stored THEN rx_sdu[pdu.sn] \cup {pdu.sdu} ELSE rx_sdu[pdu.sn]
           complete == IF Rx!completes(pdu) THEN sources ELSE {}
       IN  /\ may_arrive(air, i, Overtake)
           /\ Rx!HandleDataPdu(pdu)
           /\ air' = arrived(air, i)
           /\ rx_sdu' = [sn \in Sns |-> IF got'[sn] = {} THEN {}
                                        ELSE IF sn = pdu.sn THEN sources ELSE rx_sdu[sn]]
           /\ delivered' = delivered \cup complete
           /\ misdelivered' = misdelivered \cup (complete \cap delivered)
                                \cup (IF Cardinality(complete) > 1 THEN complete ELSE {})
  /\ UNCHANGED <<txVars, reports, losses, users, unpolled, dropped>>

SendStatus ==
  /\ Len(reports) < StatusAirSize
  /\ Rx!GetStatusPdu
  /\ \E grant \in StatusGrants : reports' = sent(reports, trim(report, grant))
  /\ UNCHANGED <<txVars, air, losses, users, ghosts>>

RxTimers == Rx!Timers /\ UNCHANGED <<txVars, air, reports, losses, users, ghosts>>

Protocol ==
  SendData \/ ReceiveStatus \/ PollTimeout \/ ReceiveData \/ SendStatus \/ RxTimers
Environment == Submit \/ (\E sdu \in Sdus : Discard(sdu)) \/ LoseData \/ LoseStatus

Next == Protocol \/ Environment

(* As long as the schedulers have something to grant, a timer runs or a PDU *)
(* is in flight, something happens.                                         *)
Fairness == WF_vars(Protocol)
Spec == Init /\ [][Next]_vars
FairSpec == Spec /\ Fairness

-----------------------------------------------------------------------------
(* Every delivered SDU is made of the bytes of one SDU, and no SDU is       *)
(* delivered twice: the window checks of the receiver and the window of the *)
(* transmitter keep the cycles of the SN space apart.                       *)
DeliveredOnceAndIntact == misdelivered = {}

(* The comment in handle_status_pdu, "makes sure we discard out of order    *)
(* status reports": a transmitter never finds fault with the reports of a   *)
(* correct receiver, and on_protocol_failure is not called.                 *)
NoProtocolFailure == ~notified.failure

(* on_max_retx is reported for every SDU that was scheduled for             *)
(* retransmission max_retx_thresh times, by NACKs, timeouts or both.        *)
MaxRetxIsReported ==
  (\E sn \in Sns : tx_window[sn].retx_count >= max_retx_thresh) => notified.max_retx

(* The window holds exactly TX_Next_Ack .. TX_Next - 1 and the SDU under    *)
(* segmentation, which is the one at TX_Next and partly sent.  handle_nack  *)
(* and build_retx_pdu index the window by the SN of a NACK or of a queued   *)
(* RETX without looking it up, and take bytes of the SDU that were sent     *)
(* before: they find them.                                                  *)
TxWindowIsExact ==
  /\ LET used == {sn \in Sns : tx_mod_base(tx_next_ack, sn) < tx_mod_base(tx_next_ack, tx_next)}
     IN  IF sn_under_segmentation = INVALID_RLC_SN
           THEN {sn \in Sns : in_window(tx_window, sn)} = used
           ELSE /\ sn_under_segmentation = tx_next
                /\ {sn \in Sns : in_window(tx_window, sn)} = used \cup {tx_next}
                /\ tx_window[tx_next].next_so \in 1 .. SduLen - 1
  /\ \A i \in DOMAIN retx_queue :
       LET retx == retx_queue[i] IN
       /\ in_window(tx_window, retx.sn)
       /\ retx.len > 0 /\ retx.so + retx.len <= SduLen
       /\ retx.sn = sn_under_segmentation => retx.so + retx.len <= tx_window[retx.sn].next_so
  /\ \A i \in DOMAIN reports :
       usable(reports[i].pdu) =>
         \A j \in DOMAIN expand_nacks(reports[i].pdu) :
           in_window(tx_window, expand_nacks(reports[i].pdu)[j].nack_sn)

(* TX_Next_Ack <= RX_Next <= RX_Next_Highest <= TX_Next: both windows cover *)
(* what is in flight.                                                       *)
WindowsOverlap ==
  LET limit == IF sn_under_segmentation = INVALID_RLC_SN THEN tx_next ELSE (tx_next + 1) % Mod
  IN  /\ tx_mod_base(tx_next_ack, rx_next) <= tx_mod_base(tx_next_ack, rx_next_highest)
      /\ tx_mod_base(tx_next_ack, rx_next_highest) <= tx_mod_base(tx_next_ack, limit)

(* The bearer implements the service: what is delivered was accepted and    *)
(* not discarded, and on_delivered_sdu is only called for SDUs the peer has *)
(* delivered.                                                               *)
Service == INSTANCE RlcAmService WITH
  confirmed <- notified.confirmed
ServiceSpec == Service!Spec

(* A transmitter comes to rest with SDUs not confirmed - nothing to send    *)
(* and t-PollRetransmit not running, so that no step of its own is left -   *)
(* in three ways only: the timer expired and a poll is owed, but the PDU to *)
(* carry it was taken away again; the SDU whose PDU would have              *)
(* carried the poll was discarded; or a trimmed report dropped what an      *)
(* earlier report had asked for, which had stopped the timer.               *)
SilenceIsExplained ==
  /\ \E sn \in Sns : in_window(tx_window, sn)
  /\ buffers_empty(sdu_queue, retx_queue, sn_under_segmentation)
  /\ ~poll_timer /\ ~max_retx_reached
  => poll_expired \/ (unpolled /\ discards > 0) \/ dropped

(* The comment in on_expired_poll_retransmit_timer, "include a poll in an   *)
(* AMD PDU": after t-PollRetransmit expired a poll is sent, unless all SDUs *)
(* are confirmed by then.                                                   *)
PollFollowsTimeout ==
  poll_expired ~> ~poll_expired \/ accepted \subseteq notified.confirmed \/ notified.max_retx

(* Unless the retransmission limit is reached, every accepted SDU is        *)
(* confirmed or discarded in the end, whatever was lost.                    *)
EventuallyConfirmed ==
  \A sdu \in Sdus :
    sdu \in accepted ~> sdu \in notified.confirmed \/ sdu \notin accepted \/ notified.max_retx
=============================================================================
