------------------------ MODULE RlcAmStatusExchange ------------------------
(***************************************************************************)
(* How a status report gets from the receiving side of an RLC AM entity     *)
(* (UE executor) to the transmitting side (cell executor) without a lock:   *)
(* three report buffers that change hands by atomic exchange, the atomics   *)
(* do_status and status_prohibit_timer_is_running, and the buffer state     *)
(* update that makes the MAC ask for the report.                            *)
(*                                                                          *)
(* Every access to a shared atomic is a step of its own.  A report is the   *)
(* version of the receiver state it was built from; 0 is a buffer in which  *)
(* no report was ever built.                                                *)
(***************************************************************************)
EXTENDS Naturals

CONSTANTS
  MaxVersion,     \* bound on the changes of the receiver state
  ProhibitOn,     \* cfg.t_status_prohibit > 0
  DeferMayFail,   \* the task queue of an executor may be full
  TimerMayOvertake \* t-StatusProhibit may expire before get_status_pdu returns

ASSUME ExchangeAssumption ==
  /\ MaxVersion \in Nat
  /\ {ProhibitOn, DeferMayFail, TimerMayOvertake} \subseteq BOOLEAN

VARIABLES
  content,                                      \* version built in each buffer
  owned_by_writer, for_exchange, owned_by_reader,
  do_status, prohibit_flag,
  prohibit_task,         \* the deferred status_prohibit_timer.run()
  prohibit_timer,        \* t-StatusProhibit is running
  pending_buffer_state,  \* flag of the transmitting side
  bs_task,               \* the deferred update_mac_buffer_state()
  mac_bytes,             \* the MAC knows of bytes to send
  max_retx_reached,      \* the transmitting side has given up
  version,               \* ghost: changes of the receiver state so far
  requested,             \* ghost: version of the latest request for a report
  best,                  \* ghost: the newest report read
  ue_pc, ue_request,     \* UE executor: place in the handler, status_requested
  pc                     \* cell executor: place in the task

Buffers == 1 .. 3

buffers == <<content, owned_by_writer, for_exchange, owned_by_reader>>
flags == <<do_status, prohibit_flag, prohibit_task, prohibit_timer>>
notice == <<pending_buffer_state, bs_task, mac_bytes>>
ghosts == <<version, requested, best>>
ue == <<ue_pc, ue_request>>
exchangeVars == <<buffers, flags, notice, max_retx_reached, ghosts, ue, pc>>

ExchangeInit ==
  /\ content = [b \in Buffers |-> 0]
  /\ owned_by_writer = 1 /\ for_exchange = 2 /\ owned_by_reader = 3
  /\ do_status = FALSE /\ prohibit_flag = FALSE
  /\ prohibit_task = FALSE /\ prohibit_timer = FALSE
  /\ pending_buffer_state = FALSE /\ bs_task = FALSE /\ mac_bytes = FALSE
  /\ max_retx_reached = FALSE
  /\ version = 0 /\ requested = 0 /\ best = 0
  /\ ue_pc = "idle" /\ ue_request = FALSE
  /\ pc = "idle"

(* defer on an executor: the task is queued, or not if the queue is full.   *)
defer(queued) == {TRUE} \cup (IF DeferMayFail THEN {queued} ELSE {})

-----------------------------------------------------------------------------
(* UE executor                                                              *)

(* handle_data_pdu or on_expired_reassembly_timer changed the window: the   *)
(* report is rebuilt in the buffer the writer owns.                         *)
Refresh(request) ==
  /\ ue_pc = "idle" /\ version < MaxVersion
  /\ version' = version + 1
  /\ content' = [content EXCEPT ![owned_by_writer] = version + 1]
  /\ ue_request' = request /\ ue_pc' = "store"
  /\ UNCHANGED <<owned_by_writer, for_exchange, owned_by_reader, flags, notice,
                 max_retx_reached, requested, best, pc>>

(* store_status_report                                                      *)
offered(own, exchange) == own

StoreStatusReport ==
  /\ ue_pc = "store"
  /\ owned_by_writer' = for_exchange
  /\ for_exchange' = offered(owned_by_writer, for_exchange)
  /\ ue_pc' = IF ue_request THEN "request" ELSE "notify"
  /\ UNCHANGED <<content, owned_by_reader, flags, notice, max_retx_reached, ghosts, ue_request, pc>>

RequestStatus ==
  /\ ue_pc = "request"
  /\ do_status' = TRUE /\ requested' = version
  /\ ue_pc' = "notify"
  /\ UNCHANGED <<buffers, prohibit_flag, prohibit_task, prohibit_timer, notice,
                 max_retx_reached, version, best, ue_request, pc>>

(* notify_status_report_changed: both loads of status_report_required ...   *)
NotifyLoadDoStatus ==
  /\ ue_pc = "notify"
  /\ ue_pc' = IF do_status THEN "notify_prohibit" ELSE "idle"
  /\ UNCHANGED <<buffers, flags, notice, max_retx_reached, ghosts, ue_request, pc>>

NotifyLoadProhibit ==
  /\ ue_pc = "notify_prohibit"
  /\ ue_pc' = IF prohibit_flag THEN "idle" ELSE "changed"
  /\ UNCHANGED <<buffers, flags, notice, max_retx_reached, ghosts, ue_request, pc>>

(* ... and handle_changed_buffer_state: one queued update is enough.        *)
HandleChangedBufferState ==
  /\ ue_pc = "changed"
  /\ pending_buffer_state' = TRUE
  /\ IF pending_buffer_state THEN bs_task' = bs_task
     ELSE bs_task' \in defer(bs_task)
  /\ ue_pc' = "idle"
  /\ UNCHANGED <<buffers, flags, mac_bytes, max_retx_reached, ghosts, ue_request, pc>>

RunProhibitTimer ==
  /\ ue_pc = "idle" /\ prohibit_task
  /\ prohibit_task' = FALSE /\ prohibit_timer' = TRUE
  /\ UNCHANGED <<buffers, do_status, prohibit_flag, notice, max_retx_reached, ghosts, ue, pc>>

(* on_expired_status_prohibit_timer.  The timer needs a tick of 1 ms or     *)
(* more, get_status_pdu a few instructions: unless TimerMayOvertake, the    *)
(* cell thread has left it by then.                                         *)
flag_after_expiry_Kept == prohibit_flag
flag_after_expiry == FALSE
after_prohibit_Silent == "idle"
after_prohibit == "notify"

ExpireProhibitTimer ==
  /\ ue_pc = "idle" /\ prohibit_timer
  /\ TimerMayOvertake \/ pc \notin {"prohibit", "take"}
  /\ prohibit_timer' = FALSE /\ prohibit_flag' = flag_after_expiry
  /\ ue_pc' = after_prohibit
  /\ UNCHANGED <<buffers, do_status, prohibit_task, notice, max_retx_reached, ghosts, ue_request, pc>>

UeStep ==
  \/ StoreStatusReport \/ RequestStatus \/ NotifyLoadDoStatus \/ NotifyLoadProhibit
  \/ HandleChangedBufferState \/ RunProhibitTimer \/ ExpireProhibitTimer

-----------------------------------------------------------------------------
(* Cell executor                                                            *)

(* update_mac_buffer_state clears the flag, then looks at the state.  The   *)
(* MAC also polls the buffer state after every pull.                        *)
UpdateMacBufferState ==
  /\ pc = "idle" /\ bs_task
  /\ bs_task' = FALSE /\ pending_buffer_state' = FALSE
  /\ pc' = "state"
  /\ UNCHANGED <<buffers, flags, mac_bytes, max_retx_reached, ghosts, ue>>

GetBufferStateLoadDoStatus ==
  /\ pc = "state"
  /\ IF do_status THEN pc' = "state_prohibit" /\ UNCHANGED mac_bytes
                  ELSE pc' = "idle" /\ mac_bytes' = FALSE
  /\ UNCHANGED <<buffers, flags, pending_buffer_state, bs_task, max_retx_reached, ghosts, ue>>

GetBufferStateLoadProhibit ==
  /\ pc = "state_prohibit"
  /\ mac_bytes' = ~prohibit_flag
  /\ pc' = "idle"
  /\ UNCHANGED <<buffers, flags, pending_buffer_state, bs_task, max_retx_reached, ghosts, ue>>

(* pull_pdu, for a grant the MAC gave because it knows of bytes to send or  *)
(* for any other reason.  It returns nothing once the maximum number of     *)
(* retransmissions is reached, and nothing when the grant is too small for  *)
(* the report; the MAC asks for the buffer state again in either case.  A   *)
(* data PDU goes when no report does, and its retransmission may be the     *)
(* last one.                                                                *)
DataPdu == max_retx_reached' \in {max_retx_reached, TRUE}

PullPdu ==
  /\ pc = "idle"
  /\ \/ max_retx_reached /\ pc' = "state" /\ UNCHANGED max_retx_reached
     \/ ~max_retx_reached /\ do_status /\ pc' = "pull_prohibit" /\ UNCHANGED max_retx_reached
     \/ ~max_retx_reached /\ ~do_status /\ pc' = "state" /\ DataPdu
  /\ UNCHANGED <<buffers, flags, notice, ghosts, ue>>

PullLoadProhibit(small) ==
  /\ pc = "pull_prohibit"
  /\ \/ prohibit_flag /\ pc' = "state" /\ DataPdu
     \/ ~prohibit_flag /\ small /\ pc' = "state" /\ UNCHANGED max_retx_reached
     \/ ~prohibit_flag /\ ~small /\ pc' = "get" /\ UNCHANGED max_retx_reached
  /\ UNCHANGED <<buffers, flags, notice, ghosts, ue>>

(* get_status_pdu                                                           *)
ClearDoStatus ==
  /\ pc = "get"
  /\ do_status' = FALSE
  /\ pc' = IF ProhibitOn THEN "defer" ELSE "take"
  /\ UNCHANGED <<buffers, prohibit_flag, prohibit_task, prohibit_timer, notice, max_retx_reached, ghosts, ue>>

DeferProhibitTimer ==
  /\ pc = "defer"
  /\ prohibit_task' \in defer(prohibit_task)
  /\ pc' = "prohibit"
  /\ UNCHANGED <<buffers, do_status, prohibit_flag, prohibit_timer, notice, max_retx_reached, ghosts, ue>>

SetProhibitFlag ==
  /\ pc = "prohibit"
  /\ prohibit_flag' = TRUE
  /\ pc' = "take"
  /\ UNCHANGED <<buffers, do_status, prohibit_task, prohibit_timer, notice, max_retx_reached, ghosts, ue>>

TakeReport_OldBuffer ==
  /\ pc = "take"
  /\ owned_by_reader' = for_exchange /\ for_exchange' = owned_by_reader
  /\ best' = IF content[owned_by_reader] > best THEN content[owned_by_reader] ELSE best
  /\ pc' = "state"
  /\ UNCHANGED <<content, owned_by_writer, flags, notice, max_retx_reached, version, requested, ue>>
TakeReport ==
  /\ pc = "take"
  /\ owned_by_reader' = for_exchange /\ for_exchange' = owned_by_reader
  /\ best' = IF content[for_exchange] > best THEN content[for_exchange] ELSE best
  /\ pc' = "state"
  /\ UNCHANGED <<content, owned_by_writer, flags, notice, max_retx_reached, version, requested, ue>>

CellStep ==
  \/ UpdateMacBufferState \/ GetBufferStateLoadDoStatus \/ GetBufferStateLoadProhibit
  \/ mac_bytes /\ PullPdu
  \/ \E small \in BOOLEAN : PullLoadProhibit(small)
  \/ ClearDoStatus \/ DeferProhibitTimer \/ SetProhibitFlag \/ TakeReport

ExchangeNext ==
  (\E request \in BOOLEAN : Refresh(request)) \/ UeStep \/ CellStep \/ PullPdu

(* Both executors keep running their tasks, the timer ticks and the         *)
(* scheduler grants what the MAC knows of, once in a while enough for a     *)
(* report.  PDUs need not arrive.                                           *)
Fairness ==
  /\ WF_exchangeVars(UeStep) /\ WF_exchangeVars(CellStep)
  /\ SF_exchangeVars(PullLoadProhibit(FALSE))
ExchangeSpec == ExchangeInit /\ [][ExchangeNext]_exchangeVars /\ Fairness

-----------------------------------------------------------------------------
(* status_prohibit_timer_is_running says what its name says: the Tx entity  *)
(* is to be informed "whenever do_status is set to true and                 *)
(* t-statusProhibit is not running", and the code decides by the flag.      *)
ProhibitFlagMeansTimer == prohibit_flag => prohibit_task \/ prohibit_timer

(* A request is not forgotten: when both executors are at rest and          *)
(* do_status is set, the buffer state update is queued, the MAC knows of    *)
(* the bytes, or t-StatusProhibit, at whose end the request is announced,   *)
(* is running or about to.  A request comes as do_status is cleared, as the *)
(* flag is set, as the timer expires and as an update is suppressed because *)
(* one is pending.                                                          *)
RequestIsAnnounced ==
  do_status /\ ue_pc = "idle" /\ pc = "idle"
    => bs_task \/ mac_bytes \/ prohibit_task \/ prohibit_timer

(* Every request for a report (poll or expired t-Reassembly) is answered by *)
(* a report at least as recent as the request, unless the transmitting side *)
(* gave up after the maximum number of retransmissions: not lost by         *)
(* do_status being cleared, t-StatusProhibit, small grants or the           *)
(* suppressed buffer state updates.                                         *)
RequestIsAnswered ==
  \A v \in 1 .. MaxVersion : requested >= v ~> best >= v \/ max_retx_reached

(* get_status_pdu, called when status_report_required returned true, hands  *)
(* out a report that was built.                                             *)
ReportIsValid == pc = "take" => content[for_exchange] # 0
=============================================================================
