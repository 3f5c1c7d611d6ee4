------------------------------ MODULE RlcAmRx ------------------------------
(***************************************************************************)
(* The receiving side of an RLC AM entity (lib/rlc/rlc_rx_am_entity.cpp):   *)
(* receive window, state variables, t-Reassembly, t-StatusProhibit and the  *)
(* status report kept ready for the transmitting side.                      *)
(*                                                                          *)
(* Everything here runs on the UE executor, so a handler is one step.  The  *)
(* hand-over of the report to the other executor is RlcAmStatusExchange.    *)
(* An SDU in the window is the set of its received bytes (RlcAmSegments).   *)
(***************************************************************************)
EXTENDS RlcAmStatusPdu

CONSTANTS
  AmWindow,        \* am_window_size
  MaxSnPerReport,  \* max_nof_sn_per_status_report
  TReassembly,     \* t-Reassembly in timer ticks
  TProhibit        \* t-StatusProhibit in timer ticks, 0 to disable it

ASSUME RxAssumption ==
  /\ AmWindow \in Nat \ {0} /\ Mod = 2 * AmWindow
  /\ MaxSnPerReport \in 1 .. AmWindow
  /\ TReassembly \in Nat \ {0} /\ TProhibit \in Nat

VARIABLES
  rx_next, rx_next_status_trigger, rx_highest_status, rx_next_highest,
  got,               \* rx_window: SN -> bytes received; {} if not in the window
  reassembly_timer,  \* remaining ticks, 0 when not running
  do_status, prohibit_timer,
  report             \* the latest status report

stateVars == <<rx_next, rx_next_status_trigger, rx_highest_status, rx_next_highest>>
statusVars == <<do_status, prohibit_timer, report>>
rxVars == <<stateVars, got, reassembly_timer, statusVars>>

has_sn(window, sn) == window[sn] # {}
fully_received(window, sn) == window[sn] = Bytes
has_gap(window, sn) ==
  \E b \in Bytes : b \notin window[sn] /\ \E c \in window[sn] : c > b

(* Distance of an SN from the lower window edge.                            *)
rx_mod_base(next, sn) == (sn - next) % Mod
inside_rx_window(next, sn) == rx_mod_base(next, sn) < AmWindow
valid_ack_sn(next, sn) ==
  0 < rx_mod_base(next, sn) /\ rx_mod_base(next, sn) <= AmWindow

next_sn(sn) == (sn + 1) % Mod

(* The loops that look for the first SDU with missing bytes, from start up  *)
(* to limit (excluded), limit if there is none.                             *)
first_incomplete_KeepStart(next, window, start, limit) == start
first_incomplete_OneTooFar(next, window, start, limit) ==
  LET from == rx_mod_base(next, start)
      upto == rx_mod_base(next, limit)
  IN  IF from >= upto THEN start
      ELSE (next + 1 + Min({k \in from .. upto :
              k = upto \/ ~fully_received(window, (next + k) % Mod)})) % Mod
first_incomplete(next, window, start, limit) ==
  LET from == rx_mod_base(next, start)
      upto == rx_mod_base(next, limit)
  IN  IF from >= upto THEN start
      ELSE (next + Min({k \in from .. upto :
              k = upto \/ ~fully_received(window, (next + k) % Mod)})) % Mod

(* refresh_status_report                                                    *)
stop_sn(next, highest_status) ==
  IF rx_mod_base(next, highest_status) > MaxSnPerReport
    THEN (next + MaxSnPerReport) % Mod ELSE highest_status
refresh_status_report(next, highest_status, window) ==
  build_report(next, stop_sn(next, highest_status), window)

Init ==
  /\ rx_next = 0 /\ rx_next_status_trigger = 0
  /\ rx_highest_status = 0 /\ rx_next_highest = 0
  /\ got = [sn \in Sns |-> {}]
  /\ reassembly_timer = 0
  /\ do_status = FALSE /\ prohibit_timer = 0
  /\ report = empty_report

-----------------------------------------------------------------------------
(* The scope exit of handle_data_pdu: rebuild the report if the window      *)
(* changed or a status is requested, and remember the request.              *)
status_due_PollOnly(changed, requested) == requested
status_due(changed, requested) == changed \/ requested

update_status(changed, requested, next, highest_status, window) ==
  /\ report' = IF status_due(changed, requested)
                 THEN refresh_status_report(next, highest_status, window) ELSE report
  /\ do_status' = (do_status \/ requested)
  /\ UNCHANGED prohibit_timer

(* t-Reassembly is stopped when what it waits for has arrived ...           *)
stop_reassembly_Never(next, trigger, window) == FALSE
stop_reassembly(next, trigger, window) ==
  \/ trigger = next
  \/ rx_mod_base(next, trigger) = rx_mod_base(next, next + 1) /\ ~has_gap(window, next)
  \/ ~inside_rx_window(next, trigger)

(* ... and started when something is missing before the highest SN.         *)
start_reassembly_IgnoreGap(low, highest, window, next) ==
  rx_mod_base(next, highest) > rx_mod_base(next, low + 1)
start_reassembly(low, highest, window, next) ==
  \/ rx_mod_base(next, highest) > rx_mod_base(next, low + 1)
  \/ rx_mod_base(next, highest) = rx_mod_base(next, low + 1) /\ has_gap(window, low)

(* handle_data_pdu: a PDU outside the window or a duplicate changes         *)
(* nothing, but its poll bit counts.                                        *)
discarded_NoWindow(sn) == fully_received(got, sn)
discarded(sn) == ~inside_rx_window(rx_next, sn) \/ fully_received(got, sn)

HandleDuplicatePdu(pdu) ==
  /\ discarded(pdu.sn)
  /\ update_status(FALSE, pdu.p, rx_next, rx_highest_status, got)
  /\ UNCHANGED <<stateVars, got, reassembly_timer>>

(* handle_data_pdu: store the bytes, move the state variables, deliver the  *)
(* SDU if it is complete, adjust t-Reassembly.                              *)
completes(pdu) ==
  /\ ~discarded(pdu.sn)
  /\ got[pdu.sn] \cup (pdu.so .. pdu.so + pdu.len - 1) = Bytes

HandleNewPdu(pdu) ==
  LET stored == [got EXCEPT ![pdu.sn] = @ \cup (pdu.so .. pdu.so + pdu.len - 1)]
      changed == stored # got
      highest == IF rx_mod_base(rx_next, pdu.sn) >= rx_mod_base(rx_next, rx_next_highest)
                   THEN next_sn(pdu.sn) ELSE rx_next_highest
      status == IF completes(pdu) /\ pdu.sn = rx_highest_status
                  THEN first_incomplete(rx_next, stored, next_sn(rx_highest_status), highest)
                  ELSE rx_highest_status
      next == IF completes(pdu) /\ pdu.sn = rx_next
                THEN first_incomplete(rx_next, stored, rx_next, highest)
                ELSE rx_next
      window == [sn \in Sns |->
                   IF rx_mod_base(rx_next, sn) < rx_mod_base(rx_next, next) THEN {} ELSE stored[sn]]
      running == reassembly_timer > 0 /\ ~stop_reassembly(next, rx_next_status_trigger, window)
      start == ~running /\ start_reassembly(next, highest, window, next)
  IN  /\ ~discarded(pdu.sn)
      /\ rx_next' = next /\ rx_next_highest' = highest /\ rx_highest_status' = status
      /\ got' = window
      /\ reassembly_timer' = IF start THEN TReassembly
                             ELSE IF running THEN reassembly_timer ELSE 0
      /\ rx_next_status_trigger' = IF start THEN highest ELSE rx_next_status_trigger
      /\ update_status(changed, pdu.p, next, status, window)

HandleDataPdu(pdu) == HandleDuplicatePdu(pdu) \/ HandleNewPdu(pdu)

(* A tick that does not yet expire t-Reassembly.                            *)
TickReassembly ==
  /\ reassembly_timer > 1
  /\ reassembly_timer' = reassembly_timer - 1
  /\ UNCHANGED <<stateVars, got, statusVars>>

(* on_expired_reassembly_timer                                              *)
ExpireReassembly ==
  LET status == first_incomplete(rx_next, got, rx_next_status_trigger, rx_next_highest)
      start == start_reassembly(status, rx_next_highest, got, rx_next)
  IN  /\ reassembly_timer = 1
      /\ IF valid_ack_sn(rx_next, rx_next_status_trigger)
           THEN /\ rx_highest_status' = status
                /\ reassembly_timer' = IF start THEN TReassembly ELSE 0
                /\ rx_next_status_trigger' =
                     IF start THEN rx_next_highest ELSE rx_next_status_trigger
                /\ update_status(TRUE, TRUE, rx_next, status, got)
           ELSE /\ reassembly_timer' = 0
                /\ UNCHANGED <<rx_highest_status, rx_next_status_trigger, statusVars>>
      /\ UNCHANGED <<rx_next, rx_next_highest, got>>

status_report_required == do_status /\ prohibit_timer = 0

(* get_status_pdu, called by the transmitting side when a report is         *)
(* required: the request is answered and t-StatusProhibit starts.           *)
GetStatusPdu ==
  /\ status_report_required
  /\ do_status' = FALSE /\ prohibit_timer' = TProhibit
  /\ UNCHANGED <<stateVars, got, reassembly_timer, report>>

(* t-StatusProhibit counts down; on_expired_status_prohibit_timer at 1.     *)
TickProhibit ==
  /\ prohibit_timer > 0
  /\ prohibit_timer' = prohibit_timer - 1
  /\ UNCHANGED <<stateVars, got, reassembly_timer, do_status, report>>

Timers == TickReassembly \/ ExpireReassembly \/ TickProhibit

-----------------------------------------------------------------------------
(* Any PDU a transmitter can form: a full SDU, or a segment of it.          *)
DataPdus == {pdu \in [sn : Sns, so : Bytes, len : 1 .. SduLen, p : BOOLEAN] :
               pdu.so + pdu.len <= SduLen}

Next == (\E pdu \in DataPdus : HandleDataPdu(pdu)) \/ Timers \/ GetStatusPdu
Spec == Init /\ [][Next]_rxVars

base(sn) == rx_mod_base(rx_next, sn)

(* RX_Next <= RX_Highest_Status <= RX_Next_Highest <= RX_Next + window,     *)
(* in distances from RX_Next, through every wrap of the SN space.  The      *)
(* window holds only SNs in [RX_Next, RX_Next_Highest); RX_Next and         *)
(* RX_Highest_Status, the two SNs an ACK may name, are never complete.      *)
StateVariablesOrdered ==
  /\ base(rx_highest_status) <= base(rx_next_highest)
  /\ base(rx_next_highest) <= AmWindow
  /\ \A sn \in Sns : has_sn(got, sn) => base(sn) < base(rx_next_highest)
  /\ ~fully_received(got, rx_next)
  /\ ~fully_received(got, rx_highest_status)

(* While t-Reassembly runs its trigger is a valid ACK_SN and the SDU before *)
(* it has been (partly) received: handle_data_pdu reads                     *)
(* rx_window[rx_next].has_gap without looking the SN up first, and          *)
(* on_expired_reassembly_timer must not take its early return.              *)
TriggerIsAnchored ==
  reassembly_timer > 0 =>
    /\ valid_ack_sn(rx_next, rx_next_status_trigger)
    /\ base(rx_next_status_trigger) <= base(rx_next_highest)
    /\ has_sn(got, (rx_next_status_trigger - 1) % Mod)

(* Whatever is missing before the highest received byte is either already   *)
(* covered by RX_Highest_Status or t-Reassembly is running for it: no loss  *)
(* goes unnoticed.                                                          *)
MissingIsWatched ==
  \A sn \in Sns :
    /\ base(rx_highest_status) <= base(sn) /\ base(sn) < base(rx_next_highest)
    /\ IF base(sn) + 1 = base(rx_next_highest) THEN has_gap(got, sn)
                                               ELSE ~fully_received(got, sn)
    => reassembly_timer > 0

(* The report kept ready is the one the window would give now: no change of *)
(* the window or of RX_Highest_Status leaves an outdated report behind.     *)
ReportIsCurrent ==
  report # empty_report =>
    report = refresh_status_report(rx_next, rx_highest_status, got)
=============================================================================
