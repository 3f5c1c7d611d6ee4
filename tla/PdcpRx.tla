------------------------------- MODULE PdcpRx -------------------------------
(***************************************************************************)
(* The receiving PDCP entities of the DRBs of one UE                       *)
(* (lib/pdcp/pdcp_entity_rx.cpp) and the CU-UP routines that change their  *)
(* keys and remove them.                                                   *)
(*                                                                         *)
(* A PDU takes three steps.  handle_data_pdu, on the UE's executor, infers *)
(* its COUNT and hands it to a pool of crypto workers; a worker deciphers  *)
(* and verifies it, in any order; apply_reordering, on the UE's executor   *)
(* again, stores it and delivers what has become deliverable.  A PDU holds *)
(* a token from its first step to the end of its last; a routine that      *)
(* wants the entities idle returns their own token and awaits the event    *)
(* that the return of the last one sets.  Setting it resumes the routine   *)
(* inside set_once, which marks the event as set only afterwards.          *)
(*                                                                         *)
(* Integrity protection is on: a PDU verifies only under the key and the   *)
(* COUNT it was protected with.  t-Reordering may expire whenever it runs. *)
(***************************************************************************)
EXTENDS PdcpSn, FiniteSetsExt, Functions

CONSTANTS
  Cfgs,              \* [mode |-> "um" | "am", t_reordering |-> "ms0" | "finite" | "infinity"]
  NofDrbs,           \* bearers of the UE
  InitCount,         \* COUNT of the first PDU: the ones before were delivered
  MaxHard,           \* cfg.custom.max_count.hard; bounds the COUNTs
  MaxKey,            \* bound: number of keys
  MaxPdus,           \* bound: PDUs the peer sends, and sends after a reset of COUNT
  MaxInProcess       \* bound: PDUs of a bearer between arrival and reordering

ASSUME PdcpRxAssumption ==
  /\ Cfgs \subseteq [mode : {"um", "am"}, t_reordering : {"ms0", "finite", "infinity"}]
  /\ NofDrbs \in Nat \ {0}
  /\ InitCount \in 0..(CountMod - 1) /\ MaxHard \in 0..(CountMod - 1)
  /\ MaxKey \in Nat /\ MaxPdus \in Nat /\ MaxInProcess \in Nat

VARIABLES
  cfg,
  bearers,      \* the DRBs the UE has
  rx,           \* per bearer: RX_NEXT, RX_DELIV, RX_REORD, rx_window, t-Reordering
  engine,       \* the key of the security engines
  stopped,
  crypto,       \* PDUs with the crypto workers
  verified,     \* PDUs handed back to the UE executor
  tokens,       \* pdcp_crypto_token_manager: tokens out, less one once stopped
  event,        \* pending_crypto is set
  was_set,      \* set_once has set it since the last start
  routine,      \* what the CU-UP does to the UE, the bearer it awaits, and
                \* the one whose set_once runs it (0: none)
  peer,         \* the peer's key and next COUNT
  last,         \* ghost: highest COUNT delivered, and the key of the last reset
  disordered,   \* ghost: an SDU was delivered twice, late or as another one
  disturbed,    \* ghost: the bearers whose key was changed under a PDU in processing
  inlined       \* ghost: the bearer whose set_once ran the last restart (0: none)

processing == <<crypto, verified, tokens, event, was_set>>
ghosts == <<last, disordered, disturbed, inlined>>
vars == <<cfg, bearers, rx, engine, stopped, processing, routine, peer, ghosts>>

Drbs == 1..NofDrbs
NoRoutine == [doing |-> "nothing", at |-> 0, byWorker |-> FALSE, setter |-> 0]
Entity(next, reord) ==
  [rx_next |-> next, rx_deliv |-> next, rx_reord |-> reord, window |-> <<>>, reordering |-> FALSE]

Init ==
  /\ cfg \in Cfgs
  /\ bearers = Drbs
  /\ rx = [d \in Drbs |-> Entity(InitCount, 0)]
  /\ engine = [d \in Drbs |-> 1]
  /\ stopped = [d \in Drbs |-> FALSE]
  /\ crypto = [d \in Drbs |-> {}]
  /\ verified = [d \in Drbs |-> {}]
  /\ tokens = [d \in Drbs |-> 0]
  /\ event = [d \in Drbs |-> FALSE] /\ was_set = [d \in Drbs |-> FALSE]
  /\ routine = NoRoutine
  /\ peer = [d \in Drbs |-> [key |-> 1, next |-> InitCount]]
  /\ last = [d \in Drbs |-> [count |-> InitCount - 1, key |-> 1]]
  /\ disordered = FALSE /\ disturbed = {} /\ inlined = 0

-----------------------------------------------------------------------------
(* Tokens.  Whoever returns the last one sets the event, once.  A routine  *)
(* suspended on it runs inside the set; was_set follows when the routine   *)
(* suspends again or ends (AwaitNext, restart_pdu_processing).             *)
Waiting == routine.doing \in {"rekey", "remove"}
Suspended(d) == Waiting /\ routine.at = d /\ ~event[d]
set_once(d) == tokens[d] = 0 /\ ~was_set[d]

return_tokens_Early(ds) ==
  /\ tokens' = [d \in Drbs |-> tokens[d] - IF d \in ds THEN 1 ELSE 0]
  /\ event' = [d \in Drbs |-> event[d] \/ (d \in ds /\ tokens[d] <= 1 /\ ~was_set[d])]
  /\ was_set' = [d \in Drbs |-> was_set[d] \/ (d \in ds /\ set_once(d) /\ ~Suspended(d))]
return_tokens(ds) ==
  /\ tokens' = [d \in Drbs |-> tokens[d] - IF d \in ds THEN 1 ELSE 0]
  /\ event' = [d \in Drbs |-> event[d] \/ (d \in ds /\ set_once(d))]
  /\ was_set' = [d \in Drbs |-> was_set[d] \/ (d \in ds /\ set_once(d) /\ ~Suspended(d))]

(* The PDU that returns it ends on the UE's executor or on a worker.       *)
return_token(d, onWorker) ==
  /\ return_tokens({d})
  /\ routine' = IF set_once(d) /\ Suspended(d)
                THEN [routine EXCEPT !.setter = d, !.byWorker = onWorker] ELSE routine

(* A routine goes on inline, before any other task of the UE runs on that  *)
(* executor, until it awaits an event that is not set.                     *)
Ready(d) == d \in bearers => event[d]
GoesOn == Waiting /\ routine.at \in Drbs /\ Ready(routine.at)
Free == GoesOn => routine.byWorker

-----------------------------------------------------------------------------
(* The window.  AdvanceTo is RX_DELIV moving to a COUNT, delivering what   *)
(* is stored on the way.                                                   *)
AdvanceTo(e, count) ==
  [e EXCEPT !.rx_deliv = count,
            !.window = Restrict(@, DOMAIN @ \ (e.rx_deliv..(count - 1)))]

deliver_all_consecutive_counts(e) ==
  AdvanceTo(e, Min({c \in e.rx_deliv..e.rx_next : c = e.rx_next \/ c \notin DOMAIN e.window}))

StartReordering(e) == [e EXCEPT !.rx_reord = e.rx_next, !.reordering = TRUE]

handle_t_reordering_expire_NoRestart(e) == deliver_all_consecutive_counts(AdvanceTo(e, e.rx_reord))
handle_t_reordering_expire(e) ==
  LET f == deliver_all_consecutive_counts(AdvanceTo(e, e.rx_reord))
  IN  IF f.rx_deliv < f.rx_next /\ cfg.t_reordering # "ms0" THEN StartReordering(f) ELSE f

(* A PDU that is there already is stored again: the count of a stored SDU  *)
(* is never set, so the test for a duplicate fails.                        *)
Store(e, pdu) ==
  [e EXCEPT !.window = [c \in DOMAIN e.window \cup {pdu.count} |->
                          IF c = pdu.count THEN pdu.sdu ELSE e.window[c]],
            !.rx_next = Max({@, pdu.count + 1})]

Reorder(e, pdu) ==
  LET f == IF pdu.count = e.rx_deliv THEN deliver_all_consecutive_counts(e) ELSE e
      g == [f EXCEPT !.reordering = @ /\ f.rx_deliv < f.rx_reord]
  IN  CASE cfg.t_reordering = "infinity" -> g
        [] cfg.t_reordering = "ms0" -> handle_t_reordering_expire([g EXCEPT !.rx_reord = g.rx_next])
        [] OTHER -> IF ~g.reordering /\ g.rx_deliv < g.rx_next THEN StartReordering(g) ELSE g

(* What leaves the window of e for f goes to the upper layer, in ascending *)
(* order of COUNT.                                                         *)
Delivered(e, f) == DOMAIN e.window \ DOMAIN f.window
Misdelivered(d, e, f) ==
  \E c \in Delivered(e, f) :
    \/ c <= last[d].count
    \/ e.window[c].count # c
    \/ e.window[c].key < last[d].key

Deliver(d, e, f) ==
  /\ rx' = [rx EXCEPT ![d] = f]
  /\ disordered' = (disordered \/ Misdelivered(d, e, f))
  /\ last' = [last EXCEPT ![d].count = Max({@} \cup Delivered(e, f))]
  /\ UNCHANGED <<disturbed, inlined>>

-----------------------------------------------------------------------------
(* The peer and the lower layers.  The peer keeps at most half of the SNs  *)
(* outstanding; what it sent may be lost, overtake, be repeated, or arrive *)
(* up to half of the SNs late.  It re-establishes its bearer after the     *)
(* network did: over AM it keeps its COUNTs, over UM it starts from 0.     *)
First(d) == IF cfg.mode = "um" /\ peer[d].key > 1 THEN 0 ELSE InitCount
PeerSends(d) ==
  /\ d \in bearers /\ peer[d].next < First(d) + MaxPdus
  /\ peer[d].next < Min({MaxHard, rx[d].rx_deliv + window_size})
  /\ peer' = [peer EXCEPT ![d].next = @ + 1]
  /\ UNCHANGED <<cfg, bearers, rx, engine, stopped, processing, routine, ghosts>>

PeerRekeys(d) ==
  /\ d \in bearers /\ peer[d].key < engine[d]
  /\ peer' = [peer EXCEPT ![d] = [key |-> engine[d], next |-> IF cfg.mode = "um" THEN 0 ELSE @.next]]
  /\ UNCHANGED <<cfg, bearers, rx, engine, stopped, processing, routine, ghosts>>

Oldest(d) == Max({0, rx[d].rx_deliv - window_size})
Arriving(d) ==
  {pdu \in [count : Oldest(d)..(rx[d].rx_deliv + window_size - 1), key : 1..peer[d].key] :
     /\ pdu.key = peer[d].key => pdu.count < peer[d].next
     /\ \A p \in crypto[d] \cup verified[d] : p.sdu # pdu}

-----------------------------------------------------------------------------
(* A PDU arrives; the entity takes it whatever routine is waiting.  When   *)
(* the queue of the crypto workers is full its token goes back at once,    *)
(* and nothing changes.                                                    *)
handle_data_pdu(d, pdu) ==
  LET rcvd_count == InferCount(SN(pdu.count), rx[d].rx_deliv)
  IN  /\ Free
      /\ ~stopped[d] /\ rcvd_count < MaxHard
      /\ Cardinality(crypto[d]) + Cardinality(verified[d]) < MaxInProcess
      /\ crypto' = [crypto EXCEPT ![d] = @ \cup {[count |-> rcvd_count, sdu |-> pdu]}]
      /\ tokens' = [tokens EXCEPT ![d] = @ + 1]
      /\ UNCHANGED <<cfg, bearers, rx, engine, stopped, verified, event, was_set, routine, peer, ghosts>>

(* A crypto worker deciphers a PDU and hands it back.                      *)
apply_security(d, pdu) ==
  /\ crypto' = [crypto EXCEPT ![d] = @ \ {pdu}]
  /\ verified' = [verified EXCEPT ![d] = @ \cup
       {[count |-> pdu.count, sdu |-> pdu.sdu,
         ok |-> pdu.sdu.key = engine[d] /\ pdu.sdu.count = pdu.count]}]
  /\ UNCHANGED <<cfg, bearers, rx, engine, stopped, tokens, event, was_set, routine, peer, ghosts>>

(* It cannot hand it back: the worker itself returns the token.            *)
DropVerified_KeepToken(d, pdu) ==
  /\ crypto' = [crypto EXCEPT ![d] = @ \ {pdu}]
  /\ UNCHANGED <<cfg, bearers, rx, engine, stopped, verified, tokens, event, was_set, routine, peer, ghosts>>
DropVerified(d, pdu) ==
  /\ crypto' = [crypto EXCEPT ![d] = @ \ {pdu}]
  /\ return_token(d, TRUE)
  /\ UNCHANGED <<cfg, bearers, rx, engine, stopped, verified, peer, ghosts>>

apply_reordering(d, pdu) ==
  /\ Free
  /\ verified' = [verified EXCEPT ![d] = @ \ {pdu}]
  /\ return_token(d, FALSE)
  /\ IF pdu.ok /\ pdu.count >= rx[d].rx_deliv
     THEN LET e == Store(rx[d], pdu) IN Deliver(d, e, Reorder(e, pdu))
     ELSE UNCHANGED <<rx, ghosts>>
  /\ UNCHANGED <<cfg, bearers, engine, stopped, crypto, peer>>

reordering_callback(d) ==
  /\ Free
  /\ rx[d].reordering
  /\ LET e == [rx[d] EXCEPT !.reordering = FALSE]
     IN  Deliver(d, e, IF stopped[d] THEN e ELSE handle_t_reordering_expire(e))
  /\ UNCHANGED <<cfg, bearers, engine, stopped, processing, routine, peer>>

-----------------------------------------------------------------------------
(* The routines.  Only one runs at a time for a UE.                        *)
Start(what, at) ==
  /\ Free /\ routine.doing = "nothing"
  /\ return_tokens(bearers)
  /\ routine' = [routine EXCEPT !.doing = what, !.at = at]
  /\ UNCHANGED <<cfg, bearers, engine, crypto, verified, peer, ghosts>>

(* Bearer context modification with a new key.                             *)
notify_pdu_processing_stopped ==
  /\ \A d \in Drbs : engine[d] < MaxKey
  /\ Start("rekey", 1)
  /\ UNCHANGED <<rx, stopped>>

(* Removal of the UE: it awaits the bearers from another task.             *)
stop ==
  /\ Start("remove", 0)
  /\ stopped' = [d \in Drbs |-> TRUE]
  /\ rx' = [d \in Drbs |-> [rx[d] EXCEPT !.reordering = FALSE]]

(* The next bearer, without suspending when its event is set already.      *)
AwaitNext ==
  LET next == routine.at + 1
  IN  /\ Waiting /\ routine.at < NofDrbs
      /\ routine.at = 0 \/ GoesOn
      /\ routine' = IF Ready(next) THEN [routine EXCEPT !.at = next]
                    ELSE [routine EXCEPT !.at = next, !.byWorker = FALSE, !.setter = 0]
      /\ was_set' = [d \in Drbs |-> was_set[d] \/ (d = routine.setter /\ ~Ready(next))]
      /\ UNCHANGED <<cfg, bearers, rx, engine, stopped, crypto, verified, tokens, event, peer, ghosts>>

reestablish_KeepSdus(e) == IF cfg.mode = "um" THEN [Entity(0, 0) EXCEPT !.window = e.window] ELSE e
reestablish(e) == IF cfg.mode = "um" THEN Entity(0, 0) ELSE e

InProcessing == {d \in Drbs : crypto[d] \cup verified[d] # {}}

(* The event of every bearer has been set: new keys, processing restarts,  *)
(* re-establishment.  start clears was_set; the set_once that runs the     *)
(* routine sets it when all this is over.                                  *)
restart_pdu_processing ==
  /\ GoesOn /\ routine.at = NofDrbs /\ routine.doing = "rekey"
  /\ engine' = [d \in Drbs |-> engine[d] + 1]
  /\ tokens' = [d \in Drbs |-> tokens[d] + 1]
  /\ event' = [d \in Drbs |-> FALSE]
  /\ was_set' = [d \in Drbs |-> d = routine.setter]
  /\ rx' = [d \in Drbs |-> reestablish(rx[d])]
  /\ disordered' = (disordered \/ \E d \in Drbs : Misdelivered(d, rx[d], reestablish(rx[d])))
  /\ last' = [d \in Drbs |-> IF cfg.mode = "um" THEN [count |-> -1, key |-> engine[d] + 1] ELSE last[d]]
  /\ disturbed' = disturbed \cup InProcessing
  /\ inlined' = routine.setter
  /\ routine' = NoRoutine
  /\ UNCHANGED <<cfg, bearers, stopped, crypto, verified, peer>>

(* The event of every bearer has been set: the entities are destroyed.     *)
Destroy ==
  /\ GoesOn /\ routine.at = NofDrbs /\ routine.doing = "remove"
  /\ routine' = [routine EXCEPT !.doing = "done"]
  /\ bearers' = {}
  /\ UNCHANGED <<cfg, rx, engine, stopped, processing, peer, ghosts>>

(* A bearer is removed from a UE that stays.  Nothing is awaited: what the *)
(* crypto pool then does with the PDUs of the destroyed entity is left     *)
(* out.                                                                    *)
remove_drb(d) ==
  /\ Free /\ routine.doing = "nothing" /\ d \in bearers
  /\ bearers' = bearers \ {d}
  /\ stopped' = [stopped EXCEPT ![d] = TRUE]
  /\ rx' = [rx EXCEPT ![d].reordering = FALSE]
  /\ crypto' = [crypto EXCEPT ![d] = {}]
  /\ verified' = [verified EXCEPT ![d] = {}]
  /\ return_tokens({d})
  /\ UNCHANGED <<cfg, engine, routine, peer, ghosts>>

-----------------------------------------------------------------------------
Next ==
  \/ \E d \in Drbs :
       \/ PeerSends(d) \/ PeerRekeys(d)
       \/ \E pdu \in Arriving(d) : handle_data_pdu(d, pdu)
       \/ \E pdu \in crypto[d] : apply_security(d, pdu) \/ DropVerified(d, pdu)
       \/ \E pdu \in verified[d] : apply_reordering(d, pdu)
       \/ reordering_callback(d)
       \/ remove_drb(d)
  \/ notify_pdu_processing_stopped \/ stop
  \/ AwaitNext \/ restart_pdu_processing \/ Destroy

Spec == Init /\ [][Next]_vars

-----------------------------------------------------------------------------
(* What the modification routine says before it replaces the keys: "No     *)
(* more SDUs/PDUs will arrive at the PDCP".  It does not hold: a bearer    *)
(* whose event is set takes PDUs while another one is awaited, and while a *)
(* routine that a worker resumed is on its way.                            *)
KeysReplacedWhenIdle == disturbed = {}

(* Over AM the COUNTs go on across keys; over UM they start again, and the *)
(* properties of the delivery are stated as long as no key was replaced    *)
(* under a PDU in processing.                                              *)
CountsAreSound == cfg.mode = "am" \/ KeysReplacedWhenIdle

(* SDUs reach the upper layer in ascending order of COUNT, each at most    *)
(* once and as the one its sender numbered so, across lost, late and       *)
(* repeated PDUs, workers that overtake each other, expiries and           *)
(* re-establishments (apply_reordering, reestablish).  And the COUNT that  *)
(* handle_data_pdu infers is the sender's: a PDU under the current key, up *)
(* to half of the SNs early or late, passes its integrity check, also      *)
(* where the hyper frame number changes.                                   *)
InOrderDelivery ==
  CountsAreSound =>
    /\ ~disordered
    /\ \A d \in Drbs : \A pdu \in verified[d] : pdu.sdu.key = engine[d] => pdu.ok

(* An SDU waits only for a COUNT before it, within the window; while one   *)
(* waits t-Reordering runs and RX_REORD is where its expiry stops          *)
(* (apply_reordering, handle_t_reordering_expire).                         *)
WaitingIsWatched ==
  CountsAreSound =>
    \A d \in Drbs : LET e == rx[d] IN
      /\ DOMAIN e.window \subseteq (e.rx_deliv + 1)..Min({e.rx_next - 1, e.rx_deliv + window_size - 1})
      /\ cfg.t_reordering = "ms0" => e.rx_deliv = e.rx_next
      /\ cfg.t_reordering = "finite" /\ e.rx_deliv < e.rx_next /\ ~stopped[d]
           => e.reordering /\ e.rx_deliv < e.rx_reord /\ e.rx_reord <= e.rx_next

(* When the UE is removed its entities are destroyed only when no PDU of   *)
(* any bearer is between its arrival and the end of its reordering,        *)
(* whatever the workers drop (await_crypto_rx_all_drbs).                   *)
UeRemovedWhenIdle == routine.doing = "done" => InProcessing = {}

(* What pdcp_entity_rx says of its tokens: "Used to wait for crypto engine *)
(* to finish when destroying DRB".  The removal of one bearer does not     *)
(* wait (modify_pdu_session, remove_pdu_session).                          *)
DestroyedWhenIdle == [][\A d \in bearers \ bearers' : d \notin InProcessing]_vars

(* A routine has told bearer d to stop, no PDU of it is left, and its      *)
(* event is not set: the routine waits for ever.                           *)
WaitsInVain(d) == d \in bearers /\ routine.doing # "nothing" /\ d \notin InProcessing /\ ~event[d]

(* The entity promises to "notify when it is finished with processing the  *)
(* currently in-flight PDUs".                                              *)
WakeupIsNotLost == \A d \in Drbs : ~WaitsInVain(d)

(* That promise is broken in one way only: by a bearer whose own last PDU, *)
(* by returning its token, ran the previous key change to its end.  Before *)
(* the first key change, on the other bearers, and after key changes that  *)
(* met no PDU of theirs, whichever of the three steps, or of the ways to   *)
(* drop a PDU, returns the last token, the routine is resumed              *)
(* (pdcp_crypto_token_manager).                                            *)
OnlyInlineRestartLosesWakeup == \A d \in Drbs : WaitsInVain(d) => d = inlined
=============================================================================
