------------------------ MODULE InterSliceScheduler ------------------------
(***************************************************************************)
(* How the RBs of a slot are shared among the RAN slices of a cell          *)
(* (lib/scheduler/slicing): slice budgets received by the EdgeRIC agent,    *)
(* UEs joining and leaving slices, the per slot priority queues of slice    *)
(* candidates and the RB counters the candidates are checked against.       *)
(*                                                                          *)
(* All of it runs in the slot handler of one cell.  A step is a UE event,   *)
(* the slot indication, or one candidate served.  What the intra-slice      *)
(* scheduler grants a candidate is any number of RBs its rules allow.       *)
(* The two least significant parts of a priority (slots since the last      *)
(* allocation, average rate) only order candidates that are equal           *)
(* otherwise; here any of those may be first.                               *)
(***************************************************************************)
EXTENDS Integers, FiniteSetsExt

CONSTANTS
  Slices,       \* RAN slice ids
  CellRbs,      \* RBs of the cell
  MaxPriority,  \* slice_rrm_policy_config::max_priority
  InitCfg,      \* slice -> [min_prb, max_prb, priority], after the constructor
  BudgetMsgs,   \* what the agent may receive: budgets of some slices, or Garbled
  Garbled,      \* a message that cannot be parsed
  Ues,
  BearerSets,   \* sets of slices the logical channels of a UE may belong to
  NumSlots,     \* slot_point wraps after NumSlots slots
  RingSize,     \* size of pusch_rb_count_per_slot
  TddPeriod, DlSlots,
  CsiRsSlots,   \* slots in the TDD period whose CSI-RS leaves no room for PDSCH
  PuschDelays,  \* slot in the TDD period -> PUSCH delays (k2) usable in it
  MaxSkip       \* bound: slots between two slot indications

AllDelays == UNION {PuschDelays[t] : t \in 0 .. TddPeriod - 1}
MinK2 == Min(AllDelays)
MaxK2 == Max(AllDelays)

Policies == [min_prb : Nat, max_prb : 0 .. CellRbs, priority : 0 .. MaxPriority]
Budgets == [min_prb : Nat, max_prb : Nat, priority : Nat]

(* The constructor bounds the maximum and the priority of a configured      *)
(* policy and nothing compares its minimum with its maximum.  A message may *)
(* carry any numbers.  PUSCH comes later than its PDCCH, by less than the   *)
(* counters and the slot count go round.                                    *)
ASSUME SliceAssumption ==
  /\ CellRbs \in Nat \ {0} /\ MaxPriority \in Nat /\ MaxSkip \in Nat \ {0}
  /\ InitCfg \in [Slices -> Policies]
  /\ \A m \in BudgetMsgs \ {Garbled} : \A s \in DOMAIN m : m[s] \in Budgets
  /\ \A b \in BearerSets : b \subseteq Slices
  /\ NumSlots \in Nat \ {0} /\ RingSize \in Nat \ {0} /\ TddPeriod \in Nat \ {0}
  /\ NumSlots % RingSize = 0 /\ NumSlots % TddPeriod = 0
  /\ AllDelays # {} /\ AllDelays \subseteq 1 .. NumSlots
  /\ RingSize > MaxK2 /\ NumSlots > MaxK2 + MaxSkip

VARIABLES
  slot,
  mail, slice_budgets_recved,     \* EdgeRIC: message waiting (conflated), budgets in force
  cfg,
  ue_state, bearers,              \* UE repository: state and slices of each UE
  slice_ues, policy_ues,          \* UEs known to each slice and to its scheduler policy
  pdsch_rb_count, pusch_rb_count,
  dl_queue, ul_queue,
  phase,                          \* "events", then "dl" and "ul" after a slot indication
  granted,                        \* ghost: slice -> slot -> RBs granted for PUSCH
  offer,                          \* ghost: the candidate served last
  due                             \* ghost: <<direction, slice, slot>> still to be served

agentVars == <<mail, slice_budgets_recved>>
ueVars == <<ue_state, bearers, slice_ues, policy_ues>>
countVars == <<pdsch_rb_count, pusch_rb_count, granted>>
queueVars == <<dl_queue, ul_queue, phase, offer, due>>
vars == <<slot, agentVars, cfg, ueVars, countVars, queueVars>>

Slots == 0 .. NumSlots - 1
NoOffer == [dir |-> "none"]

Init ==
  /\ slot = 0
  /\ mail = {} /\ slice_budgets_recved = << >>
  /\ cfg = InitCfg
  /\ ue_state = [u \in Ues |-> "absent"] /\ bearers = [u \in Ues |-> {}]
  /\ slice_ues = [s \in Slices |-> {}] /\ policy_ues = [s \in Slices |-> {}]
  /\ pdsch_rb_count = [s \in Slices |-> 0]
  /\ pusch_rb_count = [s \in Slices |-> [i \in 0 .. RingSize - 1 |-> 0]]
  /\ granted = [s \in Slices |-> [t \in Slots |-> 0]]
  /\ dl_queue = {} /\ ul_queue = {} /\ phase = "events"
  /\ offer = NoOffer /\ due = {}

-----------------------------------------------------------------------------
(* UE events, handled at the start of a slot (ue_event_manager)             *)

(* add_impl: a UE joins the slices of its logical channels, unless its      *)
(* configuration is incomplete (no bearers) or it is in fallback mode.      *)
add_impl(u, b) ==
  /\ policy_ues' = [s \in Slices |->
       IF s \in b /\ u \notin slice_ues[s] THEN policy_ues[s] \cup {u} ELSE policy_ues[s]]
  /\ slice_ues' = [s \in Slices |-> IF s \in b THEN slice_ues[s] \cup {u} ELSE slice_ues[s]]

(* rem_ue traverses all slices: the UE's new configuration may not name the *)
(* slices it is in.                                                         *)
rem_ue_NewSlicesOnly(u, b) ==
  /\ policy_ues' = [s \in Slices |-> IF s \in b THEN policy_ues[s] \ {u} ELSE policy_ues[s]]
  /\ slice_ues' = [s \in Slices |-> IF s \in b THEN slice_ues[s] \ {u} ELSE slice_ues[s]]
rem_ue(u, b) ==
  /\ policy_ues' = [s \in Slices |->
       IF u \in slice_ues[s] THEN policy_ues[s] \ {u} ELSE policy_ues[s]]
  /\ slice_ues' = [s \in Slices |-> slice_ues[s] \ {u}]

UeCreation(u, b, fallback) ==
  /\ ue_state[u] = "absent"
  /\ ue_state' = [ue_state EXCEPT ![u] = IF fallback THEN "fallback" ELSE "ready"]
  /\ bearers' = [bearers EXCEPT ![u] = b]
  /\ add_impl(u, IF fallback THEN {} ELSE b)

(* The UE goes to fallback mode until the new configuration is applied.     *)
UeReconfiguration(u, b) ==
  /\ ue_state[u] \in {"fallback", "ready"}
  /\ ue_state' = [ue_state EXCEPT ![u] = "fallback"]
  /\ bearers' = [bearers EXCEPT ![u] = b]
  /\ rem_ue(u, b)

UeConfigApplied(u) ==
  /\ ue_state[u] \in {"fallback", "ready"}
  /\ ue_state' = [ue_state EXCEPT ![u] = "ready"]
  /\ add_impl(u, bearers[u])
  /\ UNCHANGED bearers

(* handle_ue_deletion: the UE stays in the repository until its HARQs are   *)
(* done.  The DU manager removes it from F1AP first, so nothing else is     *)
(* requested for it.                                                        *)
UeDeletion(u) ==
  /\ ue_state[u] \in {"fallback", "ready"}
  /\ ue_state' = [ue_state EXCEPT ![u] = "removing"]
  /\ rem_ue(u, bearers[u])
  /\ UNCHANGED bearers

UeRemoval(u) ==
  /\ ue_state[u] = "removing"
  /\ ue_state' = [ue_state EXCEPT ![u] = "absent"]
  /\ bearers' = [bearers EXCEPT ![u] = {}]
  /\ UNCHANGED <<slice_ues, policy_ues>>

UeEvent ==
  /\ phase = "events"
  /\ \E u \in Ues :
       \/ \E b \in BearerSets : \/ \E fallback \in BOOLEAN : UeCreation(u, b, fallback)
                                \/ UeReconfiguration(u, b)
       \/ UeConfigApplied(u) \/ UeDeletion(u) \/ UeRemoval(u)
  /\ UNCHANGED <<slot, agentVars, cfg, countVars, queueVars>>

(* A muApp publishes budgets; the subscriber keeps the latest message only. *)
PublishBudgets ==
  /\ phase = "events"
  /\ \E m \in BudgetMsgs : mail' = {m}
  /\ UNCHANGED <<slot, slice_budgets_recved, cfg, ueVars, countVars, queueVars>>

-----------------------------------------------------------------------------
(* Slice instances and priorities                                           *)

rb_count(dir, s, px) ==
  IF dir = "dl" THEN pdsch_rb_count[s] ELSE pusch_rb_count[s][px % RingSize]

SkipPrio == 0
SlotDistMask == 127

(* Nearer slots first, then slices below their minimum, then the priority.  *)
get_prio(c, count, active, delay, resched) ==
  IF ~active \/ count >= c.max_prb THEN SkipPrio
  ELSE LET minrb == IF ~resched /\ c.min_prb > 0 /\ count < c.min_prb THEN 1 ELSE 0
       IN  1 + c.priority
             + (MaxPriority + 1) * (minrb + 2 * (SlotDistMask - Min({delay, SlotDistMask})))

(* slice_prio_queue: push drops candidates of skip priority; several        *)
(* candidates may be the top one.                                           *)
push(queue, c) == IF c.prio = SkipPrio THEN queue ELSE queue \cup {c}
tops(queue) == {c \in queue : \A d \in queue : d.prio <= c.prio}

(* The limits of the first candidate of a slice in a slot.                  *)
first_lims_AlwaysMin(c, count) == c.min_prb
first_lims(c, count) ==
  IF count <= c.min_prb /\ c.min_prb > 0 THEN c.min_prb ELSE c.max_prb

(* A slice is a candidate for channel slot px with c RBs allocated so far.  *)
candidate(s, px, c, count, now) ==
  [id |-> s, lo |-> count, hi |-> first_lims(c, count), slot |-> px,
   prio |-> get_prio(c, count, slice_ues[s] # {}, (px - now) % NumSlots, FALSE)]

-----------------------------------------------------------------------------
(* The slot indication                                                      *)

clamp_MaxBelowMin(b) ==
  [min_prb |-> Min({b.min_prb, CellRbs}), max_prb |-> Min({b.max_prb, CellRbs}),
   priority |-> Min({b.priority, MaxPriority})]
clamp(b) ==
  LET lo == Min({b.min_prb, CellRbs})
  IN  [min_prb |-> lo, max_prb |-> Min({Max({b.max_prb, lo}), CellRbs}),
       priority |-> Min({b.priority, MaxPriority})]

(* get_slice_budgets: a parsed message replaces the budgets in force; no    *)
(* message, or one that cannot be parsed, leaves them as they are.          *)
get_slice_budgets ==
  IF mail \in {{}, {Garbled}} THEN slice_budgets_recved ELSE CHOOSE m \in mail : TRUE

(* The entries of the PUSCH ring cleared at the slots in gone.              *)
ClearedEntries_NextSlot(gone) == {(t + MinK2) % RingSize : t \in gone}
ClearedEntries(gone) == {(t + MinK2 - 1) % RingSize : t \in gone}

(* The counters after d calls of ran_slice_instance::slot_indication.       *)
cleared_counts(d) ==
  [s \in Slices |-> [i \in 0 .. RingSize - 1 |->
     IF i \in ClearedEntries(slot + 1 .. slot + d) THEN 0 ELSE pusch_rb_count[s][i]]]

(* The slots gone by are used again after NumSlots slots, with no grants.   *)
granted_ahead(d) ==
  [s \in Slices |-> [t \in Slots |->
     IF t \in {(slot + k) % NumSlots : k \in 0 .. d - 1} THEN 0 ELSE granted[s][t]]]

new_cfg ==
  [s \in Slices |-> IF s \in DOMAIN get_slice_budgets THEN clamp(get_slice_budgets[s]) ELSE cfg[s]]

pusch_slots(now) == {(now + k) % NumSlots : k \in PuschDelays[now % TddPeriod]}
full(truth, px) == MapThenSumSet(LAMBDA s : truth[s][px], Slices) = CellRbs

dl_candidates(now, c) ==
  {candidate(s, now, c[s], 0, now) : s \in {x \in Slices : c[x].max_prb > 0}}
ul_candidates(now, c, ul, truth) ==
  {candidate(x[1], x[2], c[x[1]], ul[x[1]][x[2] % RingSize], now) :
     x \in {y \in Slices \X pusch_slots(now) : /\ ul[y[1]][y[2] % RingSize] < c[y[1]].max_prb
                                              /\ ~full(truth, y[2])}}
pushed(cands) == {x \in cands : x.prio # SkipPrio}

(* slot_indication, after d - 1 slots without one.                          *)
SlotIndication(d) ==
  LET now == (slot + d) % NumSlots
      truth == granted_ahead(d)
      enabled == now % TddPeriod \in DlSlots
      pdsch_enabled == now % TddPeriod \notin CsiRsSlots
  IN  /\ phase = "events"
      /\ slot' = now
      /\ mail' = {} /\ slice_budgets_recved' = get_slice_budgets
      /\ cfg' = new_cfg
      /\ pdsch_rb_count' = [s \in Slices |-> 0]
      /\ pusch_rb_count' = cleared_counts(d) /\ granted' = truth
      /\ dl_queue' = IF enabled /\ pdsch_enabled THEN pushed(dl_candidates(now, new_cfg)) ELSE {}
      /\ ul_queue' = IF enabled
                     THEN pushed(ul_candidates(now, new_cfg, cleared_counts(d), truth)) ELSE {}
      /\ phase' = IF enabled THEN "dl" ELSE "events"
      /\ due' = {x \in {"dl", "ul"} \X Slices \X Slots :
                   /\ enabled /\ slice_ues[x[2]] # {}
                   /\ IF x[1] = "dl"
                      THEN pdsch_enabled /\ x[3] = now /\ new_cfg[x[2]].max_prb > 0
                      ELSE /\ x[3] \in pusch_slots(now) /\ ~full(truth, x[3])
                           /\ truth[x[2]][x[3]] < new_cfg[x[2]].max_prb
                           /\ truth[x[2]][x[3]] \notin {new_cfg[x[2]].min_prb} \ {0}}
      /\ offer' = NoOffer
      /\ UNCHANGED ueVars

-----------------------------------------------------------------------------
(* Serving candidates (run_sched_strategy): first all of DL, then all of UL *)

queue(dir) == IF dir = "dl" THEN dl_queue ELSE ul_queue

(* rb_lims.contains: the interval is half open.                             *)
in_lims_Closed(c, count) == c.lo <= count /\ count <= c.hi
in_lims(c, count) == c.lo <= count /\ count < c.hi

(* A slice served up to its minimum becomes a candidate again.              *)
again_NoStopCheck(c, hi) == c.min_prb > 0 /\ c.min_prb # c.max_prb /\ hi >= c.min_prb
again(c, hi) ==
  c.min_prb > 0 /\ c.min_prb # c.max_prb /\ hi >= c.min_prb /\ hi # c.max_prb

second_candidate(dir, c) ==
  LET count == rb_count(dir, c.id, c.slot)
      conf == cfg[c.id]
  IN  [id |-> c.id, lo |-> IF count > 0 THEN count ELSE conf.min_prb, hi |-> conf.max_prb,
       slot |-> c.slot,
       prio |-> get_prio(conf, count, slice_ues[c.id] # {}, (c.slot - slot) % NumSlots, TRUE)]

(* The queue and the RB limit with which candidate c, popped off with rest  *)
(* still queued, is returned: when its second candidate is the new top the  *)
(* two are merged.                                                          *)
returned_AlwaysMerged(dir, c, rest) ==
  IF ~again(cfg[c.id], c.hi) THEN {[queue |-> rest, max_rbs |-> c.hi]}
  ELSE {[queue |-> rest, max_rbs |-> Max({c.hi, second_candidate(dir, c).hi})]}
returned(dir, c, rest) ==
  LET second == second_candidate(dir, c)
      q == push(rest, second)
  IN  IF ~again(cfg[c.id], c.hi) THEN {[queue |-> rest, max_rbs |-> c.hi]}
      ELSE {IF top.id = c.id /\ top.slot = c.slot
            THEN [queue |-> q \ {top}, max_rbs |-> Max({c.hi, top.hi})]
            ELSE [queue |-> q, max_rbs |-> c.hi] : top \in tops(q)}

remaining_rbs_NoGuard(max_rbs, count) == IF max_rbs < count THEN CellRbs ELSE max_rbs - count
(* max_rbs may be below count after retransmissions.                        *)
remaining_rbs(max_rbs, count) == IF max_rbs < count THEN 0 ELSE max_rbs - count

free_rbs(dir, px) ==
  CellRbs - MapThenSumSet(LAMBDA s : IF dir = "dl" THEN pdsch_rb_count[s] ELSE granted[s][px],
                          Slices)

(* dl_sched, ul_sched: retransmissions take what they need, new             *)
(* transmissions at most what is left to the slice.                         *)
grants(dir, c, max_rbs) ==
  LET free == free_rbs(dir, c.slot)
      count == rb_count(dir, c.id, c.slot)
  IN  {g \in [retx : 0 .. CellRbs, newtx : 0 .. CellRbs] :
         /\ g.retx + g.newtx <= free
         /\ g.newtx <= remaining_rbs(max_rbs, count + g.retx)}

store_grant(dir, c, rbs) ==
  IF dir = "dl"
  THEN /\ pdsch_rb_count' = [pdsch_rb_count EXCEPT ![c.id] = @ + rbs]
       /\ UNCHANGED <<pusch_rb_count, granted>>
  ELSE /\ pusch_rb_count' = [pusch_rb_count EXCEPT ![c.id][c.slot % RingSize] = @ + rbs]
       /\ granted' = [granted EXCEPT ![c.id][c.slot] = @ + rbs]
       /\ UNCHANGED pdsch_rb_count

fresh(dir) == {c \in queue(dir) : in_lims(c, rb_count(dir, c.id, c.slot))}

(* One turn of the loop: get_next_candidate pops the candidates whose       *)
(* limits no longer hold, up to the first whose limits do, which is served. *)
Serve(dir) ==
  /\ phase = dir
  /\ \E c \in tops(fresh(dir)) :
     \E stale \in SUBSET {e \in queue(dir) \ fresh(dir) : e.prio = c.prio} :
     LET rest == {e \in queue(dir) \ ({c} \cup stale) : e.prio <= c.prio}
         count == rb_count(dir, c.id, c.slot)
     IN  /\ \E ret \in returned(dir, c, rest) :
            /\ dl_queue' = IF dir = "dl" THEN ret.queue ELSE dl_queue
            /\ ul_queue' = IF dir = "ul" THEN ret.queue ELSE ul_queue
            /\ \E g \in grants(dir, c, ret.max_rbs) :
               /\ store_grant(dir, c, g.retx + g.newtx)
               /\ offer' = [dir |-> dir, id |-> c.id, slot |-> c.slot, max_rbs |-> ret.max_rbs,
                            room |-> remaining_rbs(ret.max_rbs, count), newtx |-> g.newtx > 0]
         /\ due' = due \ {<<dir, c.id, c.slot>>}
  /\ UNCHANGED <<slot, agentVars, cfg, ueVars, phase>>

(* get_next_candidate returns nothing.                                      *)
Served(dir) ==
  /\ phase = dir /\ fresh(dir) = {}
  /\ IF dir = "dl" THEN dl_queue' = {} /\ UNCHANGED ul_queue
                   ELSE ul_queue' = {} /\ UNCHANGED dl_queue
  /\ phase' = IF dir = "dl" THEN "ul" ELSE "events"
  /\ offer' = NoOffer
  /\ UNCHANGED <<slot, agentVars, cfg, ueVars, countVars, due>>

Schedule == \E dir \in {"dl", "ul"} : Serve(dir) \/ Served(dir)
Next == \/ UeEvent
        \/ PublishBudgets
        \/ \E d \in 1 .. MaxSkip : SlotIndication(d)
        \/ Schedule
(* The loops of the slot handler run to their end.                          *)
Spec == Init /\ [][Next]_vars /\ WF_vars(Schedule)

-----------------------------------------------------------------------------
Candidates == [id : Slices, prio : Nat \ {SkipPrio}, lo : Nat, hi : Nat, slot : Slots]
Ordered(c) == c.min_prb <= c.max_prb

(* Type invariant.  Whatever budgets arrive, a slice's limits are ordered   *)
(* and within the cell (slot_indication clamps them) unless they are still  *)
(* those it was configured with, and no candidate of skip priority is       *)
(* queued.                                                                  *)
TypeOK ==
  /\ slot \in Slots /\ phase \in {"events", "dl", "ul"}
  /\ mail \in {{}} \cup {{m} : m \in BudgetMsgs}
  /\ slice_budgets_recved \in (BudgetMsgs \ {Garbled}) \cup {<< >>}
  /\ cfg \in [Slices -> Policies]
  /\ \A s \in Slices : (cfg[s].min_prb <= CellRbs /\ Ordered(cfg[s])) \/ cfg[s] = InitCfg[s]
  /\ ue_state \in [Ues -> {"absent", "fallback", "ready", "removing"}]
  /\ bearers \in [Ues -> SUBSET Slices]
  /\ slice_ues \in [Slices -> SUBSET Ues] /\ policy_ues \in [Slices -> SUBSET Ues]
  /\ pdsch_rb_count \in [Slices -> 0 .. CellRbs]
  /\ pusch_rb_count \in [Slices -> [0 .. RingSize - 1 -> 0 .. CellRbs]]
  /\ granted \in [Slices -> [Slots -> 0 .. CellRbs]]
  /\ dl_queue \subseteq Candidates /\ ul_queue \subseteq Candidates
  /\ due \subseteq {"dl", "ul"} \X Slices \X Slots

(* Every candidate handed to the intra-slice scheduler has RBs left: the    *)
(* sanity check of dl_sched and ul_sched never fires, although limits are   *)
(* computed before, and counts change while, other candidates are served.   *)
(* New transmissions never take a slice beyond the maximum of the policy in *)
(* force, even when retransmissions served just before have used it up or a *)
(* new policy lowered it below what was granted for a PUSCH slot already.   *)
(* (With one exception: a slice configured with a minimum above its         *)
(* maximum, for which no budget has arrived yet, may reach the minimum.)    *)
OffersWithinLimits ==
  offer.dir # "none" =>
    /\ offer.room > 0
    /\ offer.newtx => LET count == rb_count(offer.dir, offer.id, offer.slot)
                          conf == cfg[offer.id]
                      IN  count <= conf.max_prb
                            \/ (conf = InitCfg[offer.id] /\ count <= conf.min_prb)

(* slice_rrm_policy_config::max_prb, "the maximum number of PRBs to be       *)
(* allocated to this group", without the exception.                         *)
MaximumRespected ==
  offer.dir # "none" /\ offer.newtx
    => rb_count(offer.dir, offer.id, offer.slot) <= cfg[offer.id].max_prb

(* Minima first: while a slice below its minimum waits for its turn in a    *)
(* PDSCH or PUSCH slot, no other slice is given room beyond its own minimum *)
(* in that slot, merged candidates included.                                *)
MinimumFirst ==
  offer.dir # "none" /\ offer.max_rbs > cfg[offer.id].min_prb
    => \A s \in Slices \ {offer.id} :
         <<offer.dir, s, offer.slot>> \in due
           => rb_count(offer.dir, s, offer.slot) >= cfg[s].min_prb

(* Nobody is forgotten: once the slot is done, each slice with UEs and with *)
(* room left when it began has been served in each of its PDSCH and PUSCH   *)
(* slots that was not full.  (A slice that holds exactly its minimum in a   *)
(* PUSCH slot is excepted: its first limits are empty and it gets no other.)*)
EveryoneServed == phase = "events" => due = {}

(* The ring of PUSCH counters, cleared ahead of the slots it is used for,   *)
(* holds for each slot that can still be scheduled exactly the RBs granted  *)
(* to the slice in that slot, also when slot indications were skipped.      *)
CountsMatchGrants ==
  \A s \in Slices, k \in MinK2 .. MaxK2 :
    pusch_rb_count[s][((slot + k) % NumSlots) % RingSize] = granted[s][(slot + k) % NumSlots]

(* A slice and its scheduler policy know exactly the UEs that are           *)
(* configured with it, not in fallback mode and not being removed, whatever *)
(* slices the earlier configurations of a UE named.                         *)
MembershipExact ==
  \A s \in Slices :
    /\ slice_ues[s] = {u \in Ues : ue_state[u] = "ready" /\ s \in bearers[u]}
    /\ policy_ues[s] = slice_ues[s]

(* The loops that serve candidates end: a slice is not a candidate again    *)
(* and again when nothing can be granted to it.                             *)
SlotCompletes == []<>(phase = "events")
=============================================================================
