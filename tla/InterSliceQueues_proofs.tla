---------------------- MODULE InterSliceQueues_proofs ----------------------
(***************************************************************************)
(* The candidate queues of a slot: what get_next_candidate returns, what a  *)
(* grant leaves queued, and what slot_indication fills them with.  With     *)
(* them SchedInv is inductive, and from it follow the theorems about the    *)
(* offers made to the slices.                                               *)
(***************************************************************************)
EXTENDS InterSliceScheduler_proofs

(* The candidate that DueOK names is fresh and reachable.                   *)
LEMMA DueIsFresh ==
  ASSUME QueueInv, NEW dir \in {"dl", "ul"}, NEW s \in Slices, NEW px \in Slots,
         <<dir, s, px>> \in due
  PROVE  /\ Reachable(dir, px)
         /\ \E e \in fresh(dir) : Waits(dir, s, px, e)
<1>1. DueOK(dir, s, px) /\ QueueOK(dir)
  BY Zenon DEF QueueInv
<1>2. PICK e \in queue(dir) : Waits(dir, s, px, e)
  BY <1>1, Zenon DEF DueOK
<1>3. e \in fresh(dir)
  BY <1>2, Zenon DEF fresh, Waits
<1>4. CandOK(dir, e)
  BY <1>1, Zenon DEF QueueOK
<1>5. Reachable(dir, px)
  BY <1>2, <1>4, Zenon DEF CandOK, Reachable, Waits
<1> QED
  BY <1>2, <1>3, <1>5, Zenon

(* Serving a candidate leaves the others queued, and due if they were.      *)
LEMMA QueueServe ==
  ASSUME SchedTypes, QueueInv, NEW dir \in {"dl", "ul"}, NEW c, NEW rest, NEW ret, NEW g,
         ServedWith(dir, c, rest, ret, g)
  PROVE  QueueInv'
<1> DEFINE second == second_candidate(dir, c)
           rbs == g.retx + g.newtx
<1>1. /\ QueueOK(dir) /\ c \in queue(dir) /\ c \in CandType /\ CandOK(dir, c)
      /\ second.id = c.id /\ second.slot = c.slot
      /\ second.prio # SkipPrio => CandOK(dir, second)
      /\ rest \subseteq ret.queue
      /\ ret.queue \subseteq rest \cup (IF second.prio = SkipPrio THEN {} ELSE {second})
      /\ rbs \in Nat
  BY ServeEffect, Zenon
<1>2. /\ rest \subseteq queue(dir) \ {c} /\ fresh(dir) \ {c} \subseteq rest
      /\ store_grant(dir, c, rbs) /\ phase = dir
      /\ due' = due \ {<<dir, c.id, c.slot>>}
  BY Zenon DEF ServedWith
<1>3. slot' = slot /\ cfg' = cfg /\ phase' = phase
  BY DEF ServedWith
<1>4. /\ dl_queue' = IF dir = "dl" THEN ret.queue ELSE dl_queue
      /\ ul_queue' = IF dir = "ul" THEN ret.queue ELSE ul_queue
  BY Zenon DEF ServedWith
<1>5. queue(dir)' = ret.queue
  BY <1>4, Zenon DEF queue
<1>6. \A to \in {"dl", "ul"} \ {dir} : queue(to)' = queue(to)
  BY <1>4 DEF queue
<1> HIDE DEF second, rbs
<1>7. \A to \in {"dl", "ul"} : \A e : CandOK(to, e)' <=> CandOK(to, e)
  BY <1>3, Zenon DEF CandOK, Ahead, Prio, SlotWeight
<1>8. QueueOK(dir)'
  <2>1. \A e \in ret.queue : CandOK(dir, e)
    <3>1. \A e \in rest : CandOK(dir, e)
      BY <1>1, <1>2, Zenon DEF QueueOK
    <3> QED
      BY <1>1, <3>1, Zenon
  <2>2. ASSUME NEW e \in ret.queue, NEW f \in ret.queue, e.id = f.id, e.slot = f.slot
        PROVE  e = f
    <3>1. \A x \in rest : ~(x.id = c.id /\ x.slot = c.slot)
      BY <1>1, <1>2, Zenon DEF QueueOK
    <3>2. e \in rest \/ e = second
      BY <1>1, Zenon
    <3>3. f \in rest \/ f = second
      BY <1>1, Zenon
    <3>4. e \in rest /\ f \in rest => e = f
      BY <1>1, <1>2, <2>2, Zenon DEF QueueOK
    <3> QED
      BY <1>1, <2>2, <3>1, <3>2, <3>3, <3>4, Zenon
  <2>3. \A e : CandOK(dir, e)' <=> CandOK(dir, e)
    BY <1>7, Zenon
  <2>4. \A e \in queue(dir)' : CandOK(dir, e)'
    BY <1>5, <2>1, <2>3, Zenon
  <2>5. \A e, f \in queue(dir)' : e.id = f.id /\ e.slot = f.slot => e = f
    BY <1>5, <2>2
  <2> QED
    BY <2>4, <2>5, Zenon DEF QueueOK
<1>9. \A to \in {"dl", "ul"} \ {dir} : QueueOK(to)'
  <2>1. TAKE to \in {"dl", "ul"} \ {dir}
  <2>2. QueueOK(to) /\ queue(to)' = queue(to)
    BY <1>6 DEF QueueInv
  <2>3. \A e : CandOK(to, e)' <=> CandOK(to, e)
    BY <1>7, Zenon
  <2> QED
    BY <2>2, <2>3, Zenon DEF QueueOK
<1>10. \A to \in {"dl", "ul"}, s \in Slices, px \in Slots :
         Reachable(to, px) /\ <<to, s, px>> # <<dir, c.id, c.slot>>
           => rb_count(to, s, px)' = rb_count(to, s, px)
  BY <1>1, <1>2, GrantStored, Zenon
<1>11. ASSUME NEW to \in {"dl", "ul"}, NEW s \in Slices, NEW px \in Slots, <<to, s, px>> \in due'
       PROVE  DueOK(to, s, px)'
  <2>1. <<to, s, px>> \in due /\ <<to, s, px>> # <<dir, c.id, c.slot>>
    BY <1>2, <1>11, Zenon
  <2>2. PICK e \in fresh(to) : Waits(to, s, px, e)
    BY <2>1, DueIsFresh, Zenon
  <2>3. Reachable(to, px)
    BY <2>1, DueIsFresh, Zenon
  <2>4. rb_count(to, s, px)' = rb_count(to, s, px)
    BY <1>10, <2>1, <2>3, Zenon
  <2>5. e \in queue(to)'
    <3>1. CASE to = dir
      <4>1. e # c
        BY <2>1, <2>2, <3>1, Zenon DEF Waits
      <4> QED
        BY <1>1, <1>2, <1>5, <2>2, <3>1, <4>1, Zenon
    <3>2. CASE to # dir
      BY <1>6, <2>2, <3>2, Zenon DEF fresh
    <3> QED
      BY <3>1, <3>2, Zenon
  <2>6. Prio(cfg'[s].priority, px, slot', 1) = Prio(cfg[s].priority, px, slot, 1)
    BY <1>3, Zenon
  <2> QED
    BY <1>3, <2>2, <2>4, <2>5, <2>6, Zenon DEF DueOK, Waits
<1>12. (phase # "dl" => dl_queue = {})' /\ (phase = "events" => ul_queue = {})'
  BY <1>2, <1>3, <1>4 DEF QueueInv
<1>13. due' \subseteq {"dl", "ul"} \X Slices \X Slots
  BY <1>2, Zenon DEF QueueInv
<1>14. QueueOK("dl")' /\ QueueOK("ul")'
  BY <1>8, <1>9
<1> QED
  BY <1>11, <1>12, <1>13, <1>14, Zenon DEF QueueInv

(* Nothing is due when no candidate is left whose limits hold.              *)
LEMMA QueueServed ==
  ASSUME SchedTypes, QueueInv, NEW dir \in {"dl", "ul"}, Served(dir)
  PROVE  QueueInv'
<1>1. /\ slot' = slot /\ cfg' = cfg /\ due' = due
      /\ pdsch_rb_count' = pdsch_rb_count /\ pusch_rb_count' = pusch_rb_count
  BY DEF Served, countVars
<1>2. /\ phase = dir /\ fresh(dir) = {}
      /\ phase' = IF dir = "dl" THEN "ul" ELSE "events"
  BY DEF Served
<1>3. /\ dl_queue' = IF dir = "dl" THEN {} ELSE dl_queue
      /\ ul_queue' = IF dir = "ul" THEN {} ELSE ul_queue
  BY DEF Served
<1>4. queue(dir)' = {} /\ \A to \in {"dl", "ul"} \ {dir} : queue(to)' = queue(to)
  BY <1>3 DEF queue
<1>5. QueueOK("dl")' /\ QueueOK("ul")'
  <2>1. \A to \in {"dl", "ul"} : \A e : CandOK(to, e)' <=> CandOK(to, e)
    BY <1>1, Zenon DEF CandOK, Ahead, Prio, SlotWeight
  <2>2. ASSUME NEW to \in {"dl", "ul"} PROVE QueueOK(to)'
    <3>1. QueueOK(to) /\ \A e : CandOK(to, e)' <=> CandOK(to, e)
      BY <2>1, Zenon DEF QueueInv
    <3>2. queue(to)' \subseteq queue(to)
      BY <1>4
    <3> QED
      BY <3>1, <3>2, Zenon DEF QueueOK
  <2> QED
    BY <2>2
<1>6. ASSUME NEW to \in {"dl", "ul"}, NEW s \in Slices, NEW px \in Slots, <<to, s, px>> \in due'
      PROVE  DueOK(to, s, px)'
  <2>1. PICK e \in fresh(to) : Waits(to, s, px, e)
    BY <1>1, <1>6, DueIsFresh, Zenon
  <2>2. to # dir
    BY <1>2, <2>1
  <2>3. e \in queue(to)'
    BY <1>4, <2>1, <2>2, Zenon DEF fresh
  <2>4. Waits(to, s, px, e)'
    BY <1>1, <2>1, Zenon DEF Waits, rb_count
  <2> QED
    BY <2>3, <2>4, Zenon DEF DueOK
<1>7. (phase # "dl" => dl_queue = {})' /\ (phase = "events" => ul_queue = {})'
  BY <1>2, <1>3 DEF QueueInv
<1>8. due' \subseteq {"dl", "ul"} \X Slices \X Slots
  BY <1>1, Zenon DEF QueueInv
<1> QED
  BY <1>5, <1>6, <1>7, <1>8, Zenon DEF QueueInv

-----------------------------------------------------------------------------
(* The candidates of a slot indication                                      *)

(* What a first candidate c of slice s is.                                  *)
FirstOK(c, s, px, conf, count, now) ==
  /\ c.id = s /\ c.slot = px
  /\ c.prio = SkipPrio <=> slice_ues[s] = {} \/ count >= conf.max_prb
  /\ c.prio # SkipPrio =>
       /\ c \in CandType /\ c.hi <= Ceiling(conf)
       /\ IF count < conf.min_prb
          THEN c.prio = Prio(conf.priority, px, now, 1) /\ c.hi = conf.min_prb
          ELSE c.prio = Prio(conf.priority, px, now, 0)
       /\ (count = conf.min_prb /\ count > 0) \/ in_lims(c, count)

LEMMA FirstCandidate ==
  ASSUME NEW s \in Slices, NEW px \in Slots, NEW conf \in Policies, NEW count \in Nat, NEW now \in Slots
  PROVE  FirstOK(candidate(s, px, conf, count, now), s, px, conf, count, now)
<1> DEFINE c == candidate(s, px, conf, count, now)
           active == slice_ues[s] # {}
           prio == get_prio(conf, count, active, (px - now) % NumSlots, FALSE)
           hi == first_lims(conf, count)
<1>1. px \in Int /\ now \in Int /\ active \in BOOLEAN /\ FALSE \in BOOLEAN
  BY Sizes DEF Slots
<1>2. /\ conf.min_prb \in Nat /\ conf.max_prb \in Nat /\ conf.priority \in 0 .. MaxPriority
      /\ Ceiling(conf) \in Nat /\ conf.min_prb <= Ceiling(conf) /\ conf.max_prb <= Ceiling(conf)
  BY PolicyFields, Zenon
<1>3. c = [id |-> s, lo |-> count, hi |-> hi, slot |-> px, prio |-> prio]
  BY Zenon DEF candidate
<1>4. prio = IF ~active \/ count >= conf.max_prb THEN SkipPrio
             ELSE Prio(conf.priority, px, now, IF count < conf.min_prb THEN 1 ELSE 0)
  <2>1. (IF ~FALSE /\ conf.min_prb > 0 /\ count < conf.min_prb THEN 1 ELSE 0)
          = IF count < conf.min_prb THEN 1 ELSE 0
    BY <1>2
  <2> HIDE DEF active
  <2> QED
    BY <2>1, Zenon DEF get_prio, Prio, SlotWeight
<1>5. Prio(conf.priority, px, now, 0) \in Nat \ {0} /\ Prio(conf.priority, px, now, 1) \in Nat \ {0}
  BY <1>1, <1>2, PrioOrder, Zenon
<1>6. hi = IF count <= conf.min_prb /\ conf.min_prb > 0 THEN conf.min_prb ELSE conf.max_prb
  BY Zenon DEF first_lims
<1> HIDE DEF c, prio, hi
<1>7. c.id = s /\ c.slot = px /\ c.lo = count /\ c.hi = hi /\ c.prio = prio
  BY <1>3
<1>8. prio = SkipPrio <=> ~active \/ count >= conf.max_prb
  BY <1>4, <1>5 DEF SkipPrio
<1>9. ASSUME prio # SkipPrio
      PROVE  /\ c \in CandType /\ c.hi <= Ceiling(conf)
             /\ IF count < conf.min_prb
                THEN c.prio = Prio(conf.priority, px, now, 1) /\ c.hi = conf.min_prb
                ELSE c.prio = Prio(conf.priority, px, now, 0)
             /\ (count = conf.min_prb /\ count > 0) \/ in_lims(c, count)
  <2>1. prio \in Int /\ hi \in Int /\ hi <= Ceiling(conf)
    BY <1>2, <1>4, <1>5, <1>6 DEF SkipPrio
  <2>2. c \in CandType
    BY <1>3, <2>1 DEF CandType
  <2>3. ~(count >= conf.max_prb)
    BY <1>8, <1>9
  <2>4. count < conf.min_prb => prio = Prio(conf.priority, px, now, 1) /\ hi = conf.min_prb
    BY <1>2, <1>4, <1>6, <1>8, <1>9
  <2>5. ~(count < conf.min_prb) => prio = Prio(conf.priority, px, now, 0)
    BY <1>4, <1>8, <1>9, Zenon
  <2>6. (count = conf.min_prb /\ count > 0) \/ in_lims(c, count)
    BY <1>2, <1>6, <1>7, <2>3 DEF in_lims
  <2> QED
    BY <1>7, <2>1, <2>2, <2>4, <2>5, <2>6, Zenon
<1> QED
  BY <1>7, <1>8, <1>9, Zenon DEF FirstOK, c

(* The PUSCH slots of a PDCCH slot can be scheduled from it.                *)
LEMMA PuschSlots ==
  ASSUME NEW now \in Slots, NEW px \in pusch_slots(now)
  PROVE  px \in Slots /\ \E k \in MinK2 .. MaxK2 : px = (now + k) % NumSlots
<1>1. now \in Int /\ TddPeriod \in Nat \ {0}
  BY SliceAssumption DEF Slots
<1>2. now % TddPeriod \in 0 .. (TddPeriod - 1)
  BY <1>1, DivMod, Zenon
<1>3. PICK k \in PuschDelays[now % TddPeriod] : px = (now + k) % NumSlots
  BY Zenon DEF pusch_slots
<1>4. k \in MinK2 .. MaxK2
  BY <1>2, <1>3, Delays, Zenon
<1>5. now + k \in Int
  BY <1>1, <1>4, Delays
<1>6. px \in 0 .. (NumSlots - 1)
  BY <1>3, <1>5, Sizes, DivMod, Zenon
<1> QED
  BY <1>3, <1>4, <1>6, Zenon DEF Slots

LEMMA SlotTypes ==
  ASSUME SchedTypes, NEW d \in 1 .. MaxSkip, SlotIndication(d)
  PROVE  SchedTypes'
<1>1. /\ slot' = (slot + d) % NumSlots /\ mail' = {} /\ slice_budgets_recved' = get_slice_budgets
      /\ cfg' = new_cfg /\ pdsch_rb_count' = [s \in Slices |-> 0]
      /\ pusch_rb_count' = cleared_counts(d) /\ granted' = granted_ahead(d)
      /\ phase' \in {"events", "dl", "ul"}
  BY Zenon DEF SlotIndication
<1>2. slot \in Slots /\ d \in Int
  BY Sizes DEF SchedTypes
<1>3. slot' \in Slots
  BY <1>1, <1>2, AheadType, Zenon DEF Ahead
<1>4. pdsch_rb_count' \in [Slices -> Nat]
  BY <1>1
<1>5. pusch_rb_count' \in [Slices -> [0 .. RingSize - 1 -> Nat]]
  <2> DEFINE B == 0 .. RingSize - 1
             gone == ClearedEntries(slot + 1 .. slot + d)
  <2>1. pusch_rb_count \in [Slices -> [B -> Nat]]
    BY Zenon DEF SchedTypes
  <2>2. pusch_rb_count' = [s \in Slices |-> [i \in B |->
          IF i \in gone THEN 0 ELSE pusch_rb_count[s][i]]]
    BY <1>1, Zenon DEF cleared_counts
  <2> HIDE DEF B, gone
  <2>3. pusch_rb_count' \in [Slices -> [B -> Nat]]
    BY <2>1, <2>2
  <2> QED
    BY <2>3 DEF B
<1>6. granted' \in [Slices -> [Slots -> Nat]]
  BY <1>1 DEF granted_ahead, SchedTypes
<1>7. cfg' \in [Slices -> Policies] /\ \A s \in Slices : Ordered(cfg'[s]) \/ cfg'[s] = InitCfg[s]
  BY <1>1, NewCfg, Zenon
<1>8. slice_budgets_recved' \in (BudgetMsgs \ {Garbled}) \cup {<< >>}
  BY <1>1, NewBudgets, Zenon
<1> QED
  BY <1>1, <1>3, <1>4, <1>5, <1>6, <1>7, <1>8, Zenon DEF SchedTypes

(* The ring gives the grants of each slot that can be scheduled.            *)
LEMMA RingMatches ==
  ASSUME SchedTypes, CountsInv
  PROVE  CountsMatchGrants
<1> SUFFICES ASSUME NEW s \in Slices, NEW k \in MinK2 .. MaxK2
             PROVE  pusch_rb_count[s][((slot + k) % NumSlots) % RingSize]
                      = granted[s][(slot + k) % NumSlots]
  BY Zenon DEF CountsMatchGrants
<1>1. k \in Int /\ k \in MinK2 .. MinK2 + RingSize - 1 /\ k <= MaxK2
  BY Delays, Sizes
<1>2. slot \in Slots
  BY DEF SchedTypes
<1>3. Ahead(k) % RingSize = (slot + k) % RingSize
  BY <1>1, <1>2, RingEntry, Zenon
<1>4. pusch_rb_count[s][(slot + k) % RingSize] = granted[s][Ahead(k)]
  BY <1>1, Zenon DEF CountsInv, RingOK
<1> QED
  BY <1>3, <1>4, Zenon DEF Ahead

LEMMA RingMatchesNext ==
  ASSUME (SchedTypes /\ CountsInv)'
  PROVE  CountsMatchGrants'
  BY RingMatches, PTL

(* A first candidate is a proper one.                                       *)
LEMMA NewCandidate ==
  ASSUME NEW dir, NEW s, NEW px, NEW count, NEW c,
         Reachable(dir, px)', FirstOK(c, s, px, cfg'[s], count, slot'), c.prio # SkipPrio
  PROVE  CandOK(dir, c)'
<1> DEFINE now == slot'
           conf == cfg'[s]
<1>1. /\ c.id = s /\ c.slot = px /\ c \in CandType /\ c.hi <= Ceiling(conf)
      /\ IF count < conf.min_prb
         THEN c.prio = Prio(conf.priority, px, now, 1) /\ c.hi = conf.min_prb
         ELSE c.prio = Prio(conf.priority, px, now, 0)
  BY Zenon DEF FirstOK
<1> HIDE DEF now, conf
<1>2. CandOK(dir, c)'
  <2>1. c \in [id : Slices, prio : Int, lo : Int, hi : Int, slot : Slots]
    BY <1>1, Zenon DEF CandType
  <2>2. IF dir = "dl" THEN c.slot = slot' ELSE \E k \in MinK2 .. MaxK2 : c.slot = Ahead(k)'
    BY <1>1, Zenon DEF Reachable
  <2>3. \/ c.prio = Prio(cfg'[c.id].priority, c.slot, slot', 1) /\ c.hi = cfg'[c.id].min_prb
        \/ c.prio = Prio(cfg'[c.id].priority, c.slot, slot', 0)
    BY <1>1, Zenon DEF conf, now
  <2>4. c.hi <= Ceiling(cfg'[c.id])
    BY <1>1, Zenon DEF conf
  <2> QED
    BY <2>1, <2>2, <2>3, <2>4, Zenon DEF CandOK
<1> QED
  BY <1>1, <1>2, Zenon

(* The queues a slot indication starts with ...                             *)
LEMMA DlQueueOK ==
  ASSUME NEW now \in Slots, NEW conf \in [Slices -> Policies], slot' = now, cfg' = conf,
         dl_queue' \subseteq pushed(dl_candidates(now, conf))
  PROVE  QueueOK("dl")'
<1> DEFINE Cand(s) == candidate(s, now, conf[s], 0, now)
<1>1. \A c \in dl_queue' : c.prio # SkipPrio /\ \E s \in Slices : c = Cand(s)
  BY Zenon DEF pushed, dl_candidates
<1>2. 0 \in Nat
  OBVIOUS
<1>3. \A s \in Slices : FirstOK(Cand(s), s, now, conf[s], 0, now)
  BY <1>2, FirstCandidate, Zenon
<1> HIDE DEF Cand
<1>4. Reachable("dl", now)'
  BY Zenon DEF Reachable
<1>5. ASSUME NEW c \in dl_queue' PROVE CandOK("dl", c)'
  <2>1. PICK s \in Slices : c = Cand(s) /\ c.prio # SkipPrio
    BY <1>1, Zenon
  <2>2. FirstOK(c, s, now, cfg'[s], 0, slot')
    BY <1>3, <2>1, Zenon
  <2> QED
    BY <1>4, <2>1, <2>2, NewCandidate, Zenon
<1>6. ASSUME NEW c \in dl_queue', NEW e \in dl_queue', c.id = e.id PROVE c = e
  <2>1. PICK s \in Slices : c = Cand(s)
    BY <1>1, Zenon
  <2>2. PICK t \in Slices : e = Cand(t)
    BY <1>1, Zenon
  <2>3. c.id = s /\ e.id = t
    BY <1>3, <2>1, <2>2, Zenon DEF FirstOK
  <2> QED
    BY <1>6, <2>1, <2>2, <2>3, Zenon
<1>7. queue("dl")' = dl_queue'
  BY Zenon DEF queue
<1> QED
  BY <1>5, <1>6, <1>7, Zenon DEF QueueOK

LEMMA UlQueueOK ==
  ASSUME NEW now \in Slots, NEW conf \in [Slices -> Policies], NEW ul, NEW truth,
         slot' = now, cfg' = conf,
         \A s \in Slices, px \in pusch_slots(now) : ul[s][px % RingSize] \in Nat,
         ul_queue' \subseteq pushed(ul_candidates(now, conf, ul, truth))
  PROVE  QueueOK("ul")'
<1> DEFINE Cand(s, px) == candidate(s, px, conf[s], ul[s][px % RingSize], now)
<1>1. \A c \in ul_queue' :
        c.prio # SkipPrio /\ \E s \in Slices, px \in pusch_slots(now) : c = Cand(s, px)
  BY DEF pushed, ul_candidates
<1>2. \A s \in Slices, px \in pusch_slots(now) :
        FirstOK(Cand(s, px), s, px, conf[s], ul[s][px % RingSize], now)
  <2>1. \A px \in pusch_slots(now) : px \in Slots
    BY PuschSlots, Zenon
  <2>2. \A s \in Slices : conf[s] \in Policies
    BY Zenon
  <2> QED
    BY <2>1, <2>2, FirstCandidate, Zenon
<1> HIDE DEF Cand
<1>3. "dl" # "ul"
  OBVIOUS
<1>4. \A px \in pusch_slots(now) : Reachable("ul", px)'
  <2>1. \A px \in pusch_slots(now) : \E k \in MinK2 .. MaxK2 : px = (now + k) % NumSlots
    BY PuschSlots, Zenon
  <2> QED
    BY <1>3, <2>1, Zenon DEF Reachable, Ahead
<1>5. ASSUME NEW c \in ul_queue' PROVE CandOK("ul", c)'
  <2>1. PICK s \in Slices, px \in pusch_slots(now) : c = Cand(s, px)
    BY <1>1, Zenon
  <2>2. PICK count : FirstOK(c, s, px, cfg'[s], count, slot')
    BY <1>2, <2>1, Zenon
  <2>3. c.prio # SkipPrio /\ Reachable("ul", px)'
    BY <1>1, <1>4, Zenon
  <2> QED
    BY <2>2, <2>3, NewCandidate, Zenon
<1>6. ASSUME NEW c \in ul_queue', NEW e \in ul_queue', c.id = e.id, c.slot = e.slot PROVE c = e
  <2>1. PICK s \in Slices, px \in pusch_slots(now) : c = Cand(s, px)
    BY <1>1, Zenon
  <2>2. PICK t \in Slices, py \in pusch_slots(now) : e = Cand(t, py)
    BY <1>1, Zenon
  <2>3. c.id = s /\ c.slot = px
    BY <1>2, <2>1, Zenon DEF FirstOK
  <2>4. e.id = t /\ e.slot = py
    BY <1>2, <2>2, Zenon DEF FirstOK
  <2> QED
    BY <1>6, <2>1, <2>2, <2>3, <2>4, Zenon
<1>7. queue("ul")' = ul_queue'
  BY <1>3, Zenon DEF queue
<1> QED
  BY <1>5, <1>6, <1>7, Zenon DEF QueueOK

(* ... hold the slices that are due.                                        *)
LEMMA DlDue ==
  ASSUME NEW now \in Slots, NEW conf \in [Slices -> Policies], slot' = now, cfg' = conf,
         NEW s \in Slices, slice_ues[s] # {}, conf[s].max_prb > 0,
         pdsch_rb_count' = [x \in Slices |-> 0], dl_queue' = pushed(dl_candidates(now, conf))
  PROVE  DueOK("dl", s, now)'
<1>1. PICK c : c = candidate(s, now, conf[s], 0, now)
  OBVIOUS
<1>2. conf[s] \in Policies /\ 0 \in Nat /\ ~(0 > 0)
  OBVIOUS
<1>3. conf[s].max_prb \in Nat /\ conf[s].min_prb \in Nat
  BY <1>2, PolicyFields, Zenon
<1>4. FirstOK(c, s, now, conf[s], 0, now)
  BY <1>1, <1>2, FirstCandidate, Zenon
<1>5. c.prio # SkipPrio
  BY <1>3, <1>4 DEF FirstOK
<1>6. /\ c.id = s /\ c.slot = now /\ in_lims(c, 0)
      /\ 0 < conf[s].min_prb => c.prio = Prio(conf[s].priority, now, now, 1)
  BY <1>2, <1>4, <1>5, Zenon DEF FirstOK
<1>7. c \in queue("dl")'
  <2>1. c \in dl_candidates(now, conf)
    BY <1>1, Zenon DEF dl_candidates
  <2> QED
    BY <1>5, <2>1, Zenon DEF pushed, queue
<1>8. rb_count("dl", s, now)' = 0
  BY DEF rb_count
<1>9. Waits("dl", s, now, c)'
  BY <1>6, <1>8, Zenon DEF Waits
<1> QED
  BY <1>7, <1>9, Zenon DEF DueOK

LEMMA UlDue ==
  ASSUME NEW now \in Slots, NEW conf \in [Slices -> Policies], NEW ul, NEW truth,
         slot' = now, cfg' = conf, pusch_rb_count' = ul,
         NEW s \in Slices, NEW px \in pusch_slots(now), slice_ues[s] # {}, ~full(truth, px),
         NEW count \in Nat, count = ul[s][px % RingSize],
         count < conf[s].max_prb, count \notin {conf[s].min_prb} \ {0},
         ul_queue' = pushed(ul_candidates(now, conf, ul, truth))
  PROVE  DueOK("ul", s, px)'
<1>1. PICK c : c = candidate(s, px, conf[s], count, now)
  OBVIOUS
<1>2. conf[s] \in Policies /\ "dl" # "ul"
  OBVIOUS
<1>3. conf[s].max_prb \in Nat /\ conf[s].min_prb \in Nat
  BY <1>2, PolicyFields, Zenon
<1>4. px \in Slots
  BY PuschSlots, Zenon
<1>5. FirstOK(c, s, px, conf[s], count, now)
  BY <1>1, <1>2, <1>4, FirstCandidate, Zenon
<1>6. c.prio # SkipPrio
  BY <1>3, <1>5 DEF FirstOK
<1>7. ~(count = conf[s].min_prb /\ count > 0)
  OBVIOUS
<1>8. /\ c.id = s /\ c.slot = px /\ in_lims(c, count)
      /\ count < conf[s].min_prb => c.prio = Prio(conf[s].priority, px, now, 1)
  BY <1>5, <1>6, <1>7, Zenon DEF FirstOK
<1>9. c \in ul_candidates(now, conf, ul, truth)
  <2> DEFINE place == <<s, px>>
  <2>1. place \in Slices \X pusch_slots(now) /\ place[1] = s /\ place[2] = px
    OBVIOUS
  <2>2. c = candidate(place[1], place[2], conf[place[1]], ul[place[1]][place[2] % RingSize], now)
    BY <1>1, <2>1, Zenon
  <2> HIDE DEF place
  <2>3. place \in {y \in Slices \X pusch_slots(now) :
                     ul[y[1]][y[2] % RingSize] < conf[y[1]].max_prb /\ ~full(truth, y[2])}
    BY <2>1, Zenon
  <2> QED
    BY <2>2, <2>3, Zenon DEF ul_candidates
<1>10. c \in queue("ul")'
  BY <1>2, <1>6, <1>9, Zenon DEF pushed, queue
<1>11. rb_count("ul", s, px)' = count
  BY <1>2, Zenon DEF rb_count
<1>12. Waits("ul", s, px, c)'
  BY <1>8, <1>11, Zenon DEF Waits
<1> QED
  BY <1>10, <1>12, Zenon DEF DueOK

(* The queues and the due slices after a slot indication.                   *)
LEMMA SlotQueues ==
  ASSUME SchedTypes, CountsInv, NEW d \in 1 .. MaxSkip, SlotIndication(d)
  PROVE  QueueInv'
<1>0. PICK now : now = (slot + d) % NumSlots
  OBVIOUS
<1> DEFINE conf == new_cfg
           ul == cleared_counts(d)
           truth == granted_ahead(d)
           enabled == now % TddPeriod \in DlSlots
           pdsch_enabled == now % TddPeriod \notin CsiRsSlots
<1>1. /\ slot' = now /\ cfg' = conf /\ pdsch_rb_count' = [s \in Slices |-> 0]
      /\ pusch_rb_count' = ul /\ granted' = truth
      /\ phase' = IF enabled THEN "dl" ELSE "events"
  BY <1>0, Zenon DEF SlotIndication
<1>2. /\ dl_queue' = IF enabled /\ pdsch_enabled THEN pushed(dl_candidates(now, conf)) ELSE {}
      /\ ul_queue' = IF enabled THEN pushed(ul_candidates(now, conf, ul, truth)) ELSE {}
  BY <1>0, Zenon DEF SlotIndication
<1>3. due' = {x \in {"dl", "ul"} \X Slices \X Slots :
                /\ enabled /\ slice_ues[x[2]] # {}
                /\ IF x[1] = "dl"
                   THEN pdsch_enabled /\ x[3] = now /\ conf[x[2]].max_prb > 0
                   ELSE /\ x[3] \in pusch_slots(now) /\ ~full(truth, x[3])
                        /\ truth[x[2]][x[3]] < conf[x[2]].max_prb
                        /\ truth[x[2]][x[3]] \notin {conf[x[2]].min_prb} \ {0}}
  BY <1>0, Zenon DEF SlotIndication
<1>4. SchedTypes'
  BY SlotTypes, Zenon
<1>5. CountsMatchGrants'
  <2>1. CountsInv'
    BY <1>0, <1>1, CountsSlot, Zenon
  <2> QED
    BY <1>4, <2>1, RingMatchesNext, Zenon
<1> HIDE DEF conf, ul, truth, enabled, pdsch_enabled
<1>6. now \in Slots /\ conf \in [Slices -> Policies] /\ "dl" # "ul"
  BY <1>1, <1>4 DEF SchedTypes
<1>7. \A s \in Slices, px \in pusch_slots(now) :
        ul[s][px % RingSize] \in Nat /\ ul[s][px % RingSize] = truth[s][px]
  <2>1. TAKE s \in Slices, px \in pusch_slots(now)
  <2>2. px \in Slots
    BY <1>6, PuschSlots, Zenon
  <2>3. PICK k \in MinK2 .. MaxK2 : px = (now + k) % NumSlots
    BY <1>6, PuschSlots, Zenon
  <2>4. ul[s][px % RingSize] = truth[s][px]
    BY <1>1, <1>5, <2>3, Zenon DEF CountsMatchGrants
  <2>5. truth[s][px] \in Nat
    BY <1>1, <1>4, <2>2 DEF SchedTypes
  <2> QED
    BY <2>4, <2>5, Zenon
<1>8. QueueOK("dl")'
  <2>1. dl_queue' \subseteq pushed(dl_candidates(now, conf))
    BY <1>2, Zenon
  <2> QED
    BY <1>1, <1>6, <2>1, DlQueueOK, Zenon
<1>9. QueueOK("ul")'
  <2>1. ul_queue' \subseteq pushed(ul_candidates(now, conf, ul, truth))
    BY <1>2, Zenon
  <2> QED
    BY <1>1, <1>6, <1>7, <2>1, UlQueueOK, Zenon
<1>10. ASSUME NEW s \in Slices, NEW px \in Slots, <<"dl", s, px>> \in due'
       PROVE  DueOK("dl", s, px)'
  <2>1. enabled /\ slice_ues[s] # {} /\ pdsch_enabled /\ px = now /\ conf[s].max_prb > 0
    BY <1>3, <1>10
  <2>2. dl_queue' = pushed(dl_candidates(now, conf))
    BY <1>2, <2>1, Zenon
  <2> QED
    BY <1>1, <1>6, <2>1, <2>2, DlDue, Zenon
<1>11. ASSUME NEW s \in Slices, NEW px \in Slots, <<"ul", s, px>> \in due'
       PROVE  DueOK("ul", s, px)'
  <2>1. /\ enabled /\ slice_ues[s] # {} /\ px \in pusch_slots(now) /\ ~full(truth, px)
        /\ truth[s][px] < conf[s].max_prb /\ truth[s][px] \notin {conf[s].min_prb} \ {0}
    BY <1>3, <1>6, <1>11
  <2>2. PICK count : count = ul[s][px % RingSize]
    OBVIOUS
  <2>3. count \in Nat /\ count = truth[s][px]
    BY <1>7, <2>1, <2>2, Zenon
  <2>4. ul_queue' = pushed(ul_candidates(now, conf, ul, truth))
    BY <1>2, <2>1, Zenon
  <2> QED
    BY <1>1, <1>6, <2>1, <2>2, <2>3, <2>4, UlDue, Zenon
<1>12. (phase # "dl" => dl_queue = {})' /\ (phase = "events" => ul_queue = {})'
  BY <1>1, <1>2
<1>13. due' \subseteq {"dl", "ul"} \X Slices \X Slots
  BY <1>3, Zenon
<1>14. \A to \in {"dl", "ul"}, s \in Slices, px \in Slots :
         <<to, s, px>> \in due' => DueOK(to, s, px)'
  BY <1>10, <1>11, Zenon
<1> QED
  BY <1>8, <1>9, <1>12, <1>13, <1>14, Zenon DEF QueueInv

-----------------------------------------------------------------------------
(* The invariant                                                            *)

LEMMA SchedInit == Init => SchedInv
<1> SUFFICES ASSUME Init PROVE SchedInv
  OBVIOUS
<1>1. SchedTypes /\ CountsInv
  BY CountsInit, Zenon
<1>2. dl_queue = {} /\ ul_queue = {} /\ due = {}
  BY DEF Init
<1>3. QueueInv
  BY <1>2, Zenon DEF QueueInv, QueueOK, queue
<1> QED
  BY <1>1, <1>3, Zenon DEF SchedInv

(* Events between two slots change none of it.                              *)
LEMMA SchedQuiet ==
  ASSUME SchedInv, mail' = {} \/ \E m \in BudgetMsgs : mail' = {m},
         UNCHANGED <<slot, slice_budgets_recved, cfg, countVars, dl_queue, ul_queue, phase, due>>
  PROVE  SchedInv'
<1>1. /\ slot' = slot /\ slice_budgets_recved' = slice_budgets_recved /\ cfg' = cfg
      /\ pdsch_rb_count' = pdsch_rb_count /\ pusch_rb_count' = pusch_rb_count /\ granted' = granted
      /\ dl_queue' = dl_queue /\ ul_queue' = ul_queue /\ phase' = phase /\ due' = due
  BY DEF countVars
<1>2. SchedTypes /\ CountsInv /\ QueueInv
  BY DEF SchedInv
<1>3. SchedTypes'
  BY <1>1, <1>2, Zenon DEF SchedTypes
<1>4. CountsInv'
  BY <1>1, <1>2, Zenon DEF CountsInv, RingOK, LaterClear, Ahead
<1>5. QueueInv'
  <2>1. \A to, e : CandOK(to, e)' <=> CandOK(to, e)
    BY <1>1, Zenon DEF CandOK, Ahead, Prio, SlotWeight
  <2>2. \A to : queue(to)' = queue(to)
    BY <1>1, Zenon DEF queue
  <2>3. \A to : QueueOK(to)' <=> QueueOK(to)
    BY <2>1, <2>2, Zenon DEF QueueOK
  <2>4. \A to, s, px, e : Waits(to, s, px, e)' <=> Waits(to, s, px, e)
    <3>1. \A to, s, px : rb_count(to, s, px)' = rb_count(to, s, px)
      BY <1>1, Zenon DEF rb_count
    <3>2. TAKE to, s, px, e
    <3>3. rb_count(to, s, px)' = rb_count(to, s, px)
      BY <3>1, Zenon
    <3> QED
      BY <1>1, <3>3, Zenon DEF Waits
  <2>5. \A to, s, px : DueOK(to, s, px)' <=> DueOK(to, s, px)
    BY <2>2, <2>4, Zenon DEF DueOK
  <2> QED
    BY <1>1, <1>2, <2>3, <2>5, Zenon DEF QueueInv
<1> QED
  BY <1>3, <1>4, <1>5, Zenon DEF SchedInv

LEMMA SchedStep == SchedInv /\ [Next]_vars => SchedInv'
<1> SUFFICES ASSUME SchedInv, [Next]_vars PROVE SchedInv'
  OBVIOUS
<1>t. SchedTypes /\ CountsInv /\ QueueInv
  BY DEF SchedInv
<1>m. mail = {} \/ \E m \in BudgetMsgs : mail = {m}
  BY <1>t DEF SchedTypes
<1>1. CASE UeEvent
  <2>1. /\ mail' = mail
        /\ UNCHANGED <<slot, slice_budgets_recved, cfg, countVars, dl_queue, ul_queue, phase, due>>
    BY <1>1 DEF UeEvent, agentVars, queueVars
  <2> QED
    BY <1>m, <2>1, SchedQuiet, Zenon
<1>2. CASE PublishBudgets
  <2>1. /\ \E m \in BudgetMsgs : mail' = {m}
        /\ UNCHANGED <<slot, slice_budgets_recved, cfg, countVars, dl_queue, ul_queue, phase, due>>
    BY <1>2 DEF PublishBudgets, queueVars
  <2> QED
    BY <2>1, SchedQuiet, Zenon
<1>3. ASSUME NEW d \in 1 .. MaxSkip, SlotIndication(d) PROVE SchedInv'
  <2>1. SchedTypes'
    BY <1>3, <1>t, SlotTypes, Zenon
  <2>2. QueueInv'
    BY <1>3, <1>t, SlotQueues, Zenon
  <2>3. /\ slot' = (slot + d) % NumSlots /\ pusch_rb_count' = cleared_counts(d)
        /\ granted' = granted_ahead(d)
    BY <1>3, Zenon DEF SlotIndication
  <2>4. CountsInv'
    BY <1>t, <2>3, CountsSlot, Zenon
  <2> QED
    BY <2>1, <2>2, <2>4, Zenon DEF SchedInv
<1>4. ASSUME NEW dir \in {"dl", "ul"}, Serve(dir) PROVE SchedInv'
  <2>1. PICK c, rest, ret, g : ServedWith(dir, c, rest, ret, g)
    BY <1>4, ServeParts, Zenon
  <2>2. SchedTypes' /\ CountsInv'
    BY <1>t, <2>1, CountsServe, Zenon
  <2>3. QueueInv'
    BY <1>t, <2>1, QueueServe, Zenon
  <2> QED
    BY <2>2, <2>3, Zenon DEF SchedInv
<1>5. ASSUME NEW dir \in {"dl", "ul"}, Served(dir) PROVE SchedInv'
  <2>1. QueueInv'
    BY <1>5, <1>t, QueueServed, Zenon
  <2>2. /\ slot' = slot /\ slice_budgets_recved' = slice_budgets_recved /\ cfg' = cfg /\ mail' = mail
        /\ pdsch_rb_count' = pdsch_rb_count /\ pusch_rb_count' = pusch_rb_count /\ granted' = granted
        /\ phase' \in {"events", "dl", "ul"}
    BY <1>5 DEF Served, agentVars, countVars
  <2>3. SchedTypes'
    BY <1>t, <2>2, Zenon DEF SchedTypes
  <2>4. CountsInv'
    BY <1>t, <2>2, Zenon DEF CountsInv, RingOK, LaterClear, Ahead
  <2> QED
    BY <2>1, <2>3, <2>4, Zenon DEF SchedInv
<1>6. CASE UNCHANGED vars
  <2>1. /\ mail' = mail
        /\ UNCHANGED <<slot, slice_budgets_recved, cfg, countVars, dl_queue, ul_queue, phase, due>>
    BY <1>6 DEF vars, agentVars, queueVars
  <2> QED
    BY <1>m, <2>1, SchedQuiet, Zenon
<1> QED
  BY <1>1, <1>2, <1>3, <1>4, <1>5, <1>6, Zenon DEF Next, Schedule

LEMMA SchedAlways == Spec => []SchedInv
  BY SchedInit, SchedStep, PTL DEF Spec

(* An offer, and what it says of the counters, lasts until the next one.    *)
LEMMA OfferQuiet ==
  ASSUME UNCHANGED <<cfg, countVars, offer, due>>
  PROVE  /\ OffersWithinLimits => OffersWithinLimits'
         /\ MinimumFirst => MinimumFirst'
<1>1. /\ cfg' = cfg /\ offer' = offer /\ due' = due
      /\ pdsch_rb_count' = pdsch_rb_count /\ pusch_rb_count' = pusch_rb_count
  BY DEF countVars
<1>2. \A to, s, px : rb_count(to, s, px)' = rb_count(to, s, px)
  BY <1>1, Zenon DEF rb_count
<1>3. OffersWithinLimits => OffersWithinLimits'
  BY <1>1, <1>2, Zenon DEF OffersWithinLimits
<1>4. MinimumFirst => MinimumFirst'
  BY <1>1, <1>2, Zenon DEF MinimumFirst
<1> QED
  BY <1>3, <1>4, Zenon

(* What the ghost offer records.                                            *)
LEMMA OfferFields ==
  ASSUME NEW dir, NEW c, NEW rest, NEW ret, NEW g, ServedWith(dir, c, rest, ret, g)
  PROVE  /\ offer'.dir = dir /\ offer'.id = c.id /\ offer'.slot = c.slot
         /\ offer'.max_rbs = ret.max_rbs /\ offer'.newtx = (g.newtx > 0)
         /\ offer'.room = remaining_rbs(ret.max_rbs, rb_count(dir, c.id, c.slot))
         /\ cfg' = cfg /\ slot' = slot
<1>1. offer' = [dir |-> dir, id |-> c.id, slot |-> c.slot, max_rbs |-> ret.max_rbs,
                room |-> remaining_rbs(ret.max_rbs, rb_count(dir, c.id, c.slot)),
                newtx |-> g.newtx > 0]
  BY Zenon DEF ServedWith
<1>2. cfg' = cfg /\ slot' = slot
  BY DEF ServedWith
<1> QED
  BY <1>1, <1>2, Zenon

LEMMA OfferHasRoom ==
  ASSUME SchedTypes, QueueInv, NEW dir \in {"dl", "ul"}, NEW c, NEW rest, NEW ret, NEW g,
         ServedWith(dir, c, rest, ret, g)
  PROVE  OffersWithinLimits'
<1> DEFINE rbs == g.retx + g.newtx
           count == rb_count(dir, c.id, c.slot)
           max_rbs == ret.max_rbs
           conf == cfg[c.id]
<1>1. /\ c \in CandType /\ CandOK(dir, c) /\ rbs \in Nat
      /\ max_rbs \in Int /\ c.hi <= max_rbs /\ max_rbs <= Ceiling(conf)
      /\ g.newtx > 0 => count + rbs <= max_rbs
  BY ServeEffect, Zenon
<1>2. c.id \in Slices /\ c.slot \in Slots /\ c.hi \in Int
  BY <1>1 DEF CandType
<1>3. count \in Nat /\ count < c.hi
  <2>1. in_lims(c, count)
    BY Zenon DEF ServedWith, tops, fresh
  <2>2. count \in Nat
    BY <1>2, CountType, Zenon
  <2> QED
    BY <2>1, <2>2, Zenon DEF in_lims
<1>4. /\ conf.max_prb \in Nat /\ conf.min_prb \in Nat /\ Ceiling(conf) \in Nat
      /\ Ordered(conf) \/ conf = InitCfg[c.id]
  <2>1. conf \in Policies /\ (Ordered(conf) \/ conf = InitCfg[c.id])
    BY <1>2 DEF SchedTypes
  <2> QED
    BY <2>1, PolicyFields, Zenon
<1>5. rb_count(dir, c.id, c.slot)' = count + rbs
  <2>1. store_grant(dir, c, rbs)
    BY Zenon DEF ServedWith
  <2> QED
    BY <1>1, <2>1, GrantStored, Zenon
<1> HIDE DEF rbs, count, max_rbs, conf
<1>6. remaining_rbs(max_rbs, count) > 0
  BY <1>1, <1>2, <1>3 DEF remaining_rbs
<1>7. g.newtx > 0 => \/ count + rbs <= conf.max_prb
                     \/ conf = InitCfg[c.id] /\ count + rbs <= conf.min_prb
  <2>1. g.newtx > 0 => count + rbs <= Ceiling(conf)
    BY <1>1, <1>3, <1>4
  <2> QED
    BY <1>4, <2>1, Zenon DEF Ceiling
<1>8. /\ offer'.dir = dir /\ offer'.id = c.id /\ offer'.slot = c.slot /\ cfg' = cfg
      /\ offer'.newtx = (g.newtx > 0) /\ offer'.room = remaining_rbs(max_rbs, count)
  BY OfferFields, Zenon DEF max_rbs, count
<1>9. offer'.newtx => LET now == rb_count(dir, c.id, c.slot)' IN
                      \/ now <= cfg'[c.id].max_prb
                      \/ cfg'[c.id] = InitCfg[c.id] /\ now <= cfg'[c.id].min_prb
  BY <1>5, <1>7, <1>8, Zenon DEF conf
<1> QED
  BY <1>6, <1>8, <1>9, Zenon DEF OffersWithinLimits

(* A slice below its minimum would have come first.                         *)
LEMMA OfferIsFirst ==
  ASSUME SchedTypes, QueueInv, NEW dir \in {"dl", "ul"}, NEW c, NEW rest, NEW ret, NEW g,
         ServedWith(dir, c, rest, ret, g), ret.max_rbs > cfg[c.id].min_prb,
         NEW s \in Slices \ {c.id}, <<dir, s, c.slot>> \in due
  PROVE  rb_count(dir, s, c.slot) >= cfg[s].min_prb
<1> DEFINE second == second_candidate(dir, c)
           max_rbs == ret.max_rbs
           other == Prio(cfg[c.id].priority, c.slot, slot, 0)
<1> SUFFICES ASSUME ~(rb_count(dir, s, c.slot) >= cfg[s].min_prb) PROVE FALSE
  OBVIOUS
<1>1. /\ c \in CandType /\ CandOK(dir, c) /\ max_rbs \in Int /\ c.hi <= max_rbs
      /\ second.prio # SkipPrio => second.prio = other
      /\ max_rbs > c.hi => second.prio # SkipPrio /\ \A e \in rest : e.prio <= second.prio
  BY ServeEffect, Zenon
<1>2. c \in tops(fresh(dir)) /\ fresh(dir) \ {c} \subseteq rest
  BY Zenon DEF ServedWith
<1>3. c.id \in Slices /\ c.slot \in Slots /\ c.slot \in Int /\ slot \in Int /\ c.hi \in Int
  BY <1>1, Sizes DEF CandType, SchedTypes, Slots
<1>4. cfg[s] \in Policies /\ cfg[c.id] \in Policies
  BY <1>3 DEF SchedTypes
<1>5. /\ cfg[s].priority \in 0 .. MaxPriority /\ cfg[s].min_prb \in Nat
      /\ cfg[c.id].priority \in 0 .. MaxPriority /\ cfg[c.id].min_prb \in Nat
  BY <1>4, PolicyFields, Zenon
<1>6. PICK e \in fresh(dir) : Waits(dir, s, c.slot, e)
  BY <1>3, DueIsFresh, Zenon
<1>7. e.prio = Prio(cfg[s].priority, c.slot, slot, 1) /\ e.id = s
  <2>1. rb_count(dir, s, c.slot) \in Nat
    BY <1>3, CountType, Zenon
  <2>2. rb_count(dir, s, c.slot) < cfg[s].min_prb
    BY <1>5, <2>1
  <2> QED
    BY <1>6, <2>2, Zenon DEF Waits
<1>8. other < e.prio /\ other \in Int /\ e.prio \in Int
  <2>1. other < Prio(cfg[s].priority, c.slot, slot, 1) /\ other \in Nat \ {0}
    BY <1>3, <1>5, PrioOrder, Zenon
  <2>2. Prio(cfg[s].priority, c.slot, slot, 1) \in Nat \ {0}
    BY <1>3, <1>5, PrioOrder, Zenon
  <2> QED
    BY <1>7, <2>1, <2>2
<1> HIDE DEF second, other
<1>9. e.prio <= other
  <2>1. CASE max_rbs > c.hi
    BY <1>1, <1>2, <1>6, <1>7, <2>1, Zenon
  <2>2. CASE ~(max_rbs > c.hi)
    <3>1. c.hi # cfg[c.id].min_prb
      BY <1>1, <1>3, <1>5, <2>2
    <3>2. c.prio = other
      BY <1>1, <3>1, Zenon DEF CandOK, other
    <3> QED
      BY <1>2, <1>6, <3>2, Zenon DEF tops
  <2> QED
    BY <2>1, <2>2, Zenon
<1> QED
  BY <1>8, <1>9

LEMMA OfferServe ==
  ASSUME SchedTypes, QueueInv, NEW dir \in {"dl", "ul"}, NEW c, NEW rest, NEW ret, NEW g,
         ServedWith(dir, c, rest, ret, g)
  PROVE  MinimumFirst'
<1>1. /\ offer'.dir = dir /\ offer'.id = c.id /\ offer'.slot = c.slot /\ cfg' = cfg
      /\ offer'.max_rbs = ret.max_rbs
  BY OfferFields, Zenon
<1>2. c \in CandType /\ CandOK(dir, c) /\ g.retx + g.newtx \in Nat
  BY ServeEffect, Zenon
<1>3. store_grant(dir, c, g.retx + g.newtx) /\ due' = due \ {<<dir, c.id, c.slot>>}
  BY Zenon DEF ServedWith
<1>4. \A s \in Slices \ {c.id} : rb_count(dir, s, c.slot)' = rb_count(dir, s, c.slot)
  <2>1. Reachable(dir, c.slot) /\ c.slot \in Slots
    BY <1>2, Zenon DEF CandOK, Reachable
  <2>2. \A to \in {"dl", "ul"}, s \in Slices, px \in Slots :
          Reachable(to, px) /\ <<to, s, px>> # <<dir, c.id, c.slot>>
            => rb_count(to, s, px)' = rb_count(to, s, px)
    BY <1>2, <1>3, GrantStored, Zenon
  <2>3. \A s \in Slices \ {c.id} : <<dir, s, c.slot>> # <<dir, c.id, c.slot>>
    OBVIOUS
  <2> QED
    BY <2>1, <2>2, <2>3, Zenon
<1>5. ret.max_rbs > cfg[c.id].min_prb =>
        \A s \in Slices \ {c.id} :
          <<dir, s, c.slot>> \in due => rb_count(dir, s, c.slot) >= cfg[s].min_prb
  BY OfferIsFirst, Zenon
<1> QED
  BY <1>1, <1>3, <1>4, <1>5, Zenon DEF MinimumFirst

OfferInv == OffersWithinLimits /\ MinimumFirst

LEMMA OfferStep == SchedInv /\ OfferInv /\ [Next]_vars => OfferInv'
<1> SUFFICES ASSUME SchedInv, OfferInv, [Next]_vars PROVE OfferInv'
  OBVIOUS
<1>t. SchedTypes /\ QueueInv /\ OffersWithinLimits /\ MinimumFirst
  BY DEF SchedInv, OfferInv
<1>1. ASSUME offer' = NoOffer PROVE OfferInv'
  <2>1. offer'.dir = "none"
    BY <1>1 DEF NoOffer
  <2> QED
    BY <2>1, Zenon DEF OfferInv, OffersWithinLimits, MinimumFirst
<1>2. ASSUME UNCHANGED <<cfg, countVars, offer, due>> PROVE OfferInv'
  BY <1>2, <1>t, OfferQuiet, Zenon DEF OfferInv
<1>3. CASE UeEvent
  <2>1. UNCHANGED <<cfg, countVars, offer, due>>
    BY <1>3 DEF UeEvent, queueVars
  <2> QED
    BY <1>2, <2>1
<1>4. CASE PublishBudgets
  <2>1. UNCHANGED <<cfg, countVars, offer, due>>
    BY <1>4 DEF PublishBudgets, queueVars
  <2> QED
    BY <1>2, <2>1
<1>5. ASSUME NEW d \in 1 .. MaxSkip, SlotIndication(d) PROVE OfferInv'
  BY <1>1, <1>5, Zenon DEF SlotIndication
<1>6. ASSUME NEW dir \in {"dl", "ul"}, Serve(dir) PROVE OfferInv'
  <2>1. PICK c, rest, ret, g : ServedWith(dir, c, rest, ret, g)
    BY <1>6, ServeParts, Zenon
  <2> QED
    BY <1>t, <2>1, OfferHasRoom, OfferServe, Zenon DEF OfferInv
<1>7. ASSUME NEW dir \in {"dl", "ul"}, Served(dir) PROVE OfferInv'
  BY <1>1, <1>7, Zenon DEF Served
<1>8. CASE UNCHANGED vars
  <2>1. UNCHANGED <<cfg, countVars, offer, due>>
    BY <1>8 DEF vars, queueVars
  <2> QED
    BY <1>2, <2>1
<1> QED
  BY <1>3, <1>4, <1>5, <1>6, <1>7, <1>8, Zenon DEF Next, Schedule

LEMMA OfferAlways == Spec => []OfferInv
<1>1. Init => OfferInv
  <2> SUFFICES ASSUME Init PROVE OfferInv
    OBVIOUS
  <2>1. offer.dir = "none"
    BY DEF Init, NoOffer
  <2> QED
    BY <2>1, Zenon DEF OfferInv, OffersWithinLimits, MinimumFirst
<1> QED
  BY <1>1, OfferStep, SchedAlways, PTL DEF Spec

(* The ring of PUSCH counters that ran_slice_instance clears ahead of the   *)
(* slots agrees with the RBs granted, for every slot that can still be      *)
(* scheduled, any PUSCH delays the ring has room for, and any number of     *)
(* slot indications skipped before the slot count goes round.               *)
THEOREM RingIsExact == Spec => []CountsMatchGrants
<1>1. SchedInv => CountsMatchGrants
  BY RingMatches, Zenon DEF SchedInv
<1> QED
  BY <1>1, SchedAlways, PTL

(* A candidate returned by get_next_candidate always has RBs left, so the   *)
(* sanity checks of dl_sched and ul_sched do not fire, and new              *)
(* transmissions stay within the maximum of the policy in force, whatever   *)
(* policies are configured or arrive and whatever retransmissions take.     *)
(* Only a slice whose configured minimum is above its maximum goes beyond   *)
(* it, up to that minimum, and only until its first budget is clamped.      *)
THEOREM OffersHaveRoom == Spec => []OffersWithinLimits
<1>1. OfferInv => OffersWithinLimits
  BY DEF OfferInv
<1> QED
  BY <1>1, OfferAlways, PTL

(* While a slice below its minimum waits in a slot, no other slice is       *)
(* offered more than its own minimum there, merged candidates included: the *)
(* weights of get_prio put the minimum before any configured priority.      *)
THEOREM MinimaBeforePriorities == Spec => []MinimumFirst
<1>1. OfferInv => MinimumFirst
  BY DEF OfferInv
<1> QED
  BY <1>1, OfferAlways, PTL

(* When run_sched_strategy has emptied both queues, every slice that had    *)
(* UEs and room in a PDSCH or PUSCH slot has been returned as a candidate.  *)
THEOREM NobodyForgotten == Spec => []EveryoneServed
<1>1. SchedInv => EveryoneServed
  <2> SUFFICES ASSUME SchedInv, phase = "events", due # {} PROVE FALSE
    BY DEF EveryoneServed
  <2>1. QueueInv /\ dl_queue = {} /\ ul_queue = {}
    BY DEF SchedInv, QueueInv
  <2>2. PICK dir \in {"dl", "ul"}, s \in Slices, px \in Slots : <<dir, s, px>> \in due
    BY <2>1 DEF QueueInv
  <2>3. \E e \in fresh(dir) : Waits(dir, s, px, e)
    BY <2>1, <2>2, DueIsFresh, Zenon
  <2> QED
    BY <2>1, <2>3, Zenon DEF fresh, queue
<1> QED
  BY <1>1, SchedAlways, PTL
=============================================================================
