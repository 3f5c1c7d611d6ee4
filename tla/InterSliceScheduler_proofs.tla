--------------------- MODULE InterSliceScheduler_proofs ---------------------
(***************************************************************************)
(* For any set of slices, UEs, bearers, policies and PUSCH delays: slice    *)
(* membership, and the ring of PUSCH counters.                              *)
(*                                                                          *)
(* The properties of the offers need one inductive invariant, SchedInv, in  *)
(* three layers.  The types.  CountsInv: the ring holds, entry by entry,    *)
(* what was granted in the slots that can still be scheduled, and zeros     *)
(* elsewhere, so that the slot a new round reaches starts from zero.        *)
(* QueueInv: a queued candidate has the priority and limits of the policy   *)
(* in force, and every slice that is due has one with room.  This module    *)
(* shows what a slot indication and a grant do to the counters;             *)
(* InterSliceQueues_proofs does the queues and ends with the theorems.      *)
(***************************************************************************)
EXTENDS InterSliceScheduler, NumberLemmas, TLAPS

(* The variables of slice membership are functions on the right domains.    *)
MemberTypes ==
  /\ ue_state \in [Ues -> {"absent", "fallback", "ready", "removing"}]
  /\ bearers \in [Ues -> SUBSET Slices]
  /\ slice_ues \in [Slices -> SUBSET Ues]
  /\ policy_ues \in [Slices -> SUBSET Ues]

MemberInv == MemberTypes /\ MembershipExact

(* What add_impl and rem_ue make of the membership of one UE.               *)
LEMMA AddImplEffect ==
  ASSUME MemberInv, NEW u \in Ues, NEW b \in SUBSET Slices, add_impl(u, b)
  PROVE  /\ slice_ues' \in [Slices -> SUBSET Ues]
         /\ policy_ues' = slice_ues'
         /\ \A s \in Slices : slice_ues'[s] = slice_ues[s] \cup (IF s \in b THEN {u} ELSE {})
<1>1. \A s \in Slices : slice_ues'[s] = slice_ues[s] \cup (IF s \in b THEN {u} ELSE {})
  BY DEF add_impl
<1>2. \A s \in Slices : policy_ues'[s] = slice_ues'[s]
  <2>1. \A s \in Slices : policy_ues[s] = slice_ues[s]
    BY DEF MemberInv, MembershipExact
  <2>2. TAKE s \in Slices
  <2> QED
    BY <2>1, Zenon DEF add_impl
<1>3. slice_ues' \in [Slices -> SUBSET Ues]
  BY DEF MemberInv, MemberTypes, add_impl
<1>4. /\ policy_ues' = [s \in Slices |-> policy_ues'[s]]
      /\ slice_ues' = [s \in Slices |-> slice_ues'[s]]
  BY DEF add_impl
<1> QED
  BY <1>1, <1>2, <1>3, <1>4

LEMMA RemUeEffect ==
  ASSUME MemberInv, NEW u \in Ues, NEW b, rem_ue(u, b)
  PROVE  /\ slice_ues' \in [Slices -> SUBSET Ues]
         /\ policy_ues' = slice_ues'
         /\ \A s \in Slices : slice_ues'[s] = slice_ues[s] \ {u}
<1>1. \A s \in Slices : slice_ues'[s] = slice_ues[s] \ {u}
  BY DEF rem_ue
<1>2. \A s \in Slices : policy_ues'[s] = slice_ues'[s]
  <2>1. \A s \in Slices : policy_ues[s] = slice_ues[s]
    BY DEF MemberInv, MembershipExact
  <2>2. TAKE s \in Slices
  <2> QED
    BY <2>1 DEF rem_ue
<1>3. slice_ues' \in [Slices -> SUBSET Ues]
  BY DEF MemberInv, MemberTypes, rem_ue
<1>4. /\ policy_ues' = [s \in Slices |-> policy_ues'[s]]
      /\ slice_ues' = [s \in Slices |-> slice_ues'[s]]
  BY DEF rem_ue
<1> QED
  BY <1>1, <1>2, <1>3, <1>4

LEMMA MemberInit == Init => MemberInv
  BY DEF Init, MemberInv, MemberTypes, MembershipExact

LEMMA MemberStep == MemberInv /\ [Next]_vars => MemberInv'
<1> SUFFICES ASSUME MemberInv, [Next]_vars PROVE MemberInv'
  OBVIOUS
<1>t. MemberTypes /\ MembershipExact
  BY DEF MemberInv
<1>1. ASSUME UNCHANGED ueVars PROVE MemberInv'
  BY <1>1, <1>t DEF ueVars, MemberInv, MemberTypes, MembershipExact
<1>2. ASSUME NEW u \in Ues, NEW b \in BearerSets, NEW fallback \in BOOLEAN,
             UeCreation(u, b, fallback)
      PROVE MemberInv'
  <2> DEFINE join == IF fallback THEN {} ELSE b
  <2>1. b \in SUBSET Slices /\ join \in SUBSET Slices
    BY SliceAssumption
  <2>2. add_impl(u, join)
    BY <1>2 DEF UeCreation
  <2>3. /\ slice_ues' \in [Slices -> SUBSET Ues] /\ policy_ues' = slice_ues'
        /\ \A s \in Slices : slice_ues'[s] = slice_ues[s] \cup (IF s \in join THEN {u} ELSE {})
    BY <2>1, <2>2, AddImplEffect
  <2> QED
    BY <1>2, <1>t, <2>1, <2>3 DEF UeCreation, MemberInv, MemberTypes, MembershipExact
<1>3. ASSUME NEW u \in Ues, NEW b \in BearerSets, UeReconfiguration(u, b)
      PROVE MemberInv'
  <2>1. b \in SUBSET Slices
    BY SliceAssumption
  <2>2. /\ slice_ues' \in [Slices -> SUBSET Ues] /\ policy_ues' = slice_ues'
        /\ \A s \in Slices : slice_ues'[s] = slice_ues[s] \ {u}
    BY <1>3, RemUeEffect DEF UeReconfiguration
  <2> QED
    BY <1>3, <1>t, <2>1, <2>2 DEF UeReconfiguration, MemberInv, MemberTypes, MembershipExact
<1>4. ASSUME NEW u \in Ues, UeConfigApplied(u) PROVE MemberInv'
  <2>1. bearers[u] \in SUBSET Slices
    BY <1>t DEF MemberTypes
  <2>2. /\ slice_ues' \in [Slices -> SUBSET Ues] /\ policy_ues' = slice_ues'
        /\ \A s \in Slices :
             slice_ues'[s] = slice_ues[s] \cup (IF s \in bearers[u] THEN {u} ELSE {})
    BY <1>4, <2>1, AddImplEffect DEF UeConfigApplied
  <2> QED
    BY <1>4, <1>t, <2>2 DEF UeConfigApplied, MemberInv, MemberTypes, MembershipExact
<1>5. ASSUME NEW u \in Ues, UeDeletion(u) PROVE MemberInv'
  <2>1. /\ slice_ues' \in [Slices -> SUBSET Ues] /\ policy_ues' = slice_ues'
        /\ \A s \in Slices : slice_ues'[s] = slice_ues[s] \ {u}
    BY <1>5, RemUeEffect DEF UeDeletion
  <2> QED
    BY <1>5, <1>t, <2>1 DEF UeDeletion, MemberInv, MemberTypes, MembershipExact
<1>6. ASSUME NEW u \in Ues, UeRemoval(u) PROVE MemberInv'
  BY <1>6, <1>t DEF UeRemoval, MemberInv, MemberTypes, MembershipExact
<1>7. CASE UeEvent
  BY <1>7, <1>2, <1>3, <1>4, <1>5, <1>6 DEF UeEvent
<1>8. CASE PublishBudgets
  BY <1>8, <1>1, SMTT(30) DEF PublishBudgets
<1>9. CASE \E n \in 1 .. MaxSkip : SlotIndication(n)
  BY <1>9, <1>1, Zenon DEF SlotIndication
<1>10. CASE Schedule
  BY <1>10, <1>1 DEF Schedule, Serve, Served
<1>11. CASE UNCHANGED vars
  BY <1>11, <1>1 DEF vars
<1> QED
  BY <1>7, <1>8, <1>9, <1>10, <1>11 DEF Next

(* Slices and their scheduler policies know exactly the UEs configured with *)
(* them that are neither in fallback mode nor being removed, for any number *)
(* of slices and UEs and any order of creations, reconfigurations, applied  *)
(* configurations and removals: rem_ue traverses all slices and add_impl    *)
(* those of the configuration in force.                                     *)
THEOREM SliceMembership == Spec => []MembershipExact
<1>1. Init => MemberInv
  BY MemberInit
<1>2. MemberInv /\ [Next]_vars => MemberInv'
  BY MemberStep
<1>3. MemberInv => MembershipExact
  BY DEF MemberInv
<1> QED
  BY <1>1, <1>2, <1>3, PTL DEF Spec

-----------------------------------------------------------------------------
(* Slots are counted from the current one.                                  *)
Ahead(k) == (slot + k) % NumSlots

(* What new transmissions of a slice may fill: its maximum, or its minimum  *)
(* when that is the larger one.                                             *)
Ceiling(c) == IF Ordered(c) THEN c.max_prb ELSE c.min_prb

(* The scheduler's variables, the counters without their upper bounds.      *)
SchedTypes ==
  /\ slot \in Slots /\ phase \in {"events", "dl", "ul"}
  /\ mail = {} \/ \E m \in BudgetMsgs : mail = {m}
  /\ slice_budgets_recved \in (BudgetMsgs \ {Garbled}) \cup {<< >>}
  /\ cfg \in [Slices -> Policies]
  /\ \A s \in Slices : Ordered(cfg[s]) \/ cfg[s] = InitCfg[s]
  /\ pdsch_rb_count \in [Slices -> Nat]
  /\ pusch_rb_count \in [Slices -> [0 .. RingSize - 1 -> Nat]]
  /\ granted \in [Slices -> [Slots -> Nat]]

(* The ring once round: the entries of the slots that can be scheduled hold *)
(* what was granted, the others are clear, and nothing is granted later.    *)
RingOK(s) ==
  \A k \in MinK2 .. MinK2 + RingSize - 1 :
    pusch_rb_count[s][(slot + k) % RingSize] = IF k <= MaxK2 THEN granted[s][Ahead(k)] ELSE 0
LaterClear(s) == \A k \in MaxK2 + 1 .. NumSlots - 1 : granted[s][Ahead(k)] = 0
CountsInv == \A s \in Slices : RingOK(s) /\ LaterClear(s)

(* The priority of a candidate, with m = 1 while below the minimum.         *)
SlotWeight(px, now) == 2 * (SlotDistMask - Min({(px - now) % NumSlots, SlotDistMask}))
Prio(p, px, now, m) == 1 + p + (MaxPriority + 1) * (m + SlotWeight(px, now))

CandOK(dir, c) ==
  /\ c \in [id : Slices, prio : Int, lo : Int, hi : Int, slot : Slots]
  /\ c.hi <= Ceiling(cfg[c.id])
  /\ IF dir = "dl" THEN c.slot = slot ELSE \E k \in MinK2 .. MaxK2 : c.slot = Ahead(k)
  /\ \/ c.prio = Prio(cfg[c.id].priority, c.slot, slot, 1) /\ c.hi = cfg[c.id].min_prb
     \/ c.prio = Prio(cfg[c.id].priority, c.slot, slot, 0)

QueueOK(dir) ==
  /\ \A c \in queue(dir) : CandOK(dir, c)
  /\ \A c, e \in queue(dir) : c.id = e.id /\ c.slot = e.slot => c = e

(* What is due is queued, with limits that hold, and first of its slot when *)
(* it is below its minimum.                                                 *)
Waits(dir, s, px, c) ==
  /\ c.id = s /\ c.slot = px /\ in_lims(c, rb_count(dir, s, px))
  /\ rb_count(dir, s, px) < cfg[s].min_prb => c.prio = Prio(cfg[s].priority, px, slot, 1)
DueOK(dir, s, px) == \E c \in queue(dir) : Waits(dir, s, px, c)

QueueInv ==
  /\ QueueOK("dl") /\ QueueOK("ul")
  /\ phase # "dl" => dl_queue = {}
  /\ phase = "events" => ul_queue = {}
  /\ due \subseteq {"dl", "ul"} \X Slices \X Slots
  /\ \A dir \in {"dl", "ul"}, s \in Slices, px \in Slots : <<dir, s, px>> \in due => DueOK(dir, s, px)

SchedInv == SchedTypes /\ CountsInv /\ QueueInv

-----------------------------------------------------------------------------
(* Slots and delays                                                         *)

LEMMA Delays ==
  /\ MinK2 \in Nat \ {0} /\ MaxK2 \in Nat /\ MinK2 <= MaxK2
  /\ \A t \in 0 .. TddPeriod - 1 : PuschDelays[t] \subseteq MinK2 .. MaxK2
<1>1. /\ AllDelays # {} /\ AllDelays \subseteq Nat \ {0} /\ AllDelays \subseteq Int
      /\ NumSlots \in Int /\ \A k \in AllDelays : k <= NumSlots
  BY SliceAssumption
<1>2. MinK2 \in AllDelays /\ \A k \in AllDelays : MinK2 <= k
  BY <1>1, MinOfNaturals, Zenon DEF MinK2
<1>3. MaxK2 \in AllDelays /\ \A k \in AllDelays : k <= MaxK2
  BY <1>1, MaxOfBounded, Zenon DEF MaxK2
<1>4. \A t \in 0 .. TddPeriod - 1 : PuschDelays[t] \subseteq AllDelays
  BY DEF AllDelays
<1>5. MinK2 \in Nat \ {0} /\ MaxK2 \in Nat /\ MinK2 <= MaxK2
  BY <1>1, <1>2, <1>3
<1>6. AllDelays \subseteq MinK2 .. MaxK2
  BY <1>1, <1>2, <1>3, <1>5
<1> QED
  BY <1>4, <1>5, <1>6, Zenon

LEMMA Sizes ==
  /\ NumSlots \in Nat \ {0} /\ RingSize \in Nat \ {0} /\ NumSlots % RingSize = 0
  /\ MaxK2 < RingSize /\ MaxSkip \in Nat /\ MaxK2 + MaxSkip < NumSlots
  BY SliceAssumption, Delays

LEMMA AheadType ==
  ASSUME slot \in Slots, NEW k \in Int
  PROVE  Ahead(k) \in Slots /\ (slot + k) % RingSize \in 0 .. RingSize - 1
<1>1. slot + k \in Int
  BY Sizes DEF Slots
<1>2. /\ (slot + k) % NumSlots \in 0 .. (NumSlots - 1)
      /\ (slot + k) % RingSize \in 0 .. (RingSize - 1)
  BY <1>1, Sizes, DivMod, Zenon
<1> QED
  BY <1>2 DEF Ahead, Slots

(* The ring entry of a slot.                                                *)
LEMMA RingEntry ==
  ASSUME slot \in Slots, NEW k \in Int
  PROVE  Ahead(k) % RingSize = (slot + k) % RingSize
<1>1. slot + k \in Int
  BY Sizes DEF Slots
<1> QED
  BY <1>1, Sizes, ModMod, Zenon DEF Ahead

(* Slots less than a turn apart are different, and so are their entries.    *)
LEMMA AheadApart ==
  ASSUME slot \in Slots, NEW k \in Int, NEW j \in Int, k # j
  PROVE  /\ k - j < NumSlots /\ j - k < NumSlots => Ahead(k) # Ahead(j)
         /\ k - j < RingSize /\ j - k < RingSize => (slot + k) % RingSize # (slot + j) % RingSize
<1> DEFINE x == slot + k
           y == slot + j
<1>1. x \in Int /\ y \in Int /\ x # y /\ x - y = k - j /\ y - x = j - k
  BY Sizes DEF Slots
<1> HIDE DEF x, y
<1>2. k - j < NumSlots /\ j - k < NumSlots => x % NumSlots # y % NumSlots
  BY <1>1, Sizes, ModApart, Zenon
<1>3. k - j < RingSize /\ j - k < RingSize => x % RingSize # y % RingSize
  BY <1>1, Sizes, ModApart, Zenon
<1> QED
  BY <1>2, <1>3 DEF x, y, Ahead

(* The new slot, seen from the old one.                                     *)
LEMMA AheadShift ==
  ASSUME slot \in Slots, NEW d \in Nat, slot' = (slot + d) % NumSlots, NEW k \in Int
  PROVE  /\ Ahead(k)' = Ahead(k + d)
         /\ (slot' + k) % RingSize = (slot + (k + d)) % RingSize
<1> DEFINE x == slot + d
<1>1. x \in Int /\ x + k = slot + (k + d) /\ x % NumSlots \in Int
  BY Sizes, DivMod DEF Slots
<1>2. slot' = x % NumSlots
  OBVIOUS
<1> HIDE DEF x
<1>3. ((x % NumSlots) + k) % NumSlots = (x + k) % NumSlots
  BY <1>1, Sizes, ModAdd, Zenon
<1>4. (((x % NumSlots) % RingSize) + k) % RingSize = ((x % NumSlots) + k) % RingSize
  BY <1>1, Sizes, ModAdd, Zenon
<1>5. (x % NumSlots) % RingSize = x % RingSize
  BY <1>1, Sizes, ModMod, Zenon
<1>6. ((x % RingSize) + k) % RingSize = (x + k) % RingSize
  BY <1>1, Sizes, ModAdd, Zenon
<1> QED
  BY <1>1, <1>2, <1>3, <1>4, <1>5, <1>6 DEF Ahead

-----------------------------------------------------------------------------
(* Budgets                                                                  *)

(* Whatever numbers arrive, a slice's limits stay ordered and in the cell.  *)
LEMMA ClampPolicy ==
  ASSUME NEW b \in Budgets
  PROVE  clamp(b) \in Policies /\ Ordered(clamp(b))
<1> DEFINE lo == Min({b.min_prb, CellRbs})
           top == Max({b.max_prb, lo})
           hi == Min({top, CellRbs})
           p == Min({b.priority, MaxPriority})
<1>1. /\ b.min_prb \in Int /\ b.max_prb \in Int /\ b.priority \in Int /\ b.min_prb >= 0 /\ b.priority >= 0
      /\ CellRbs \in Int /\ CellRbs >= 0 /\ MaxPriority \in Int /\ MaxPriority >= 0
  BY SliceAssumption DEF Budgets
<1>2. lo = IF b.min_prb <= CellRbs THEN b.min_prb ELSE CellRbs
  BY <1>1, MinOfTwo, Zenon
<1>3. lo \in 0 .. CellRbs /\ lo \in Int
  BY <1>1, <1>2
<1>4. top = IF b.max_prb >= lo THEN b.max_prb ELSE lo
  BY <1>1, <1>3, MaxOfTwo, Zenon
<1>5. top \in Int /\ top >= lo
  BY <1>1, <1>3, <1>4
<1>6. hi = IF top <= CellRbs THEN top ELSE CellRbs
  BY <1>1, <1>5, MinOfTwo, Zenon
<1>7. hi \in 0 .. CellRbs /\ lo <= hi
  BY <1>1, <1>3, <1>5, <1>6
<1>8. p = IF b.priority <= MaxPriority THEN b.priority ELSE MaxPriority
  BY <1>1, MinOfTwo, Zenon
<1>9. p \in 0 .. MaxPriority
  BY <1>1, <1>8
<1>10. clamp(b) = [min_prb |-> lo, max_prb |-> hi, priority |-> p]
  BY Zenon DEF clamp
<1> HIDE DEF lo, hi, p, top
<1> QED
  BY <1>3, <1>7, <1>9, <1>10 DEF Policies, Ordered

LEMMA NewBudgets ==
  ASSUME SchedTypes
  PROVE  get_slice_budgets \in (BudgetMsgs \ {Garbled}) \cup {<< >>}
<1>1. CASE mail \in {{}, {Garbled}}
  BY <1>1, Zenon DEF SchedTypes, get_slice_budgets
<1>2. CASE mail \notin {{}, {Garbled}}
  <2>1. PICK m \in BudgetMsgs : mail = {m}
    BY <1>2 DEF SchedTypes
  <2>2. m # Garbled
    BY <1>2, <2>1
  <2>3. (CHOOSE x \in mail : TRUE) = m
    BY <2>1, Zenon
  <2> QED
    BY <1>2, <2>2, <2>3, Zenon DEF get_slice_budgets
<1> QED
  BY <1>1, <1>2

LEMMA NewCfg ==
  ASSUME SchedTypes
  PROVE  /\ new_cfg \in [Slices -> Policies]
         /\ \A s \in Slices : Ordered(new_cfg[s]) \/ new_cfg[s] = InitCfg[s]
<1> DEFINE New(s) == IF s \in DOMAIN get_slice_budgets THEN clamp(get_slice_budgets[s]) ELSE cfg[s]
<1>1. ASSUME NEW s \in Slices PROVE New(s) \in Policies /\ (Ordered(New(s)) \/ New(s) = InitCfg[s])
  <2>1. CASE s \in DOMAIN get_slice_budgets
    <3>1. DOMAIN << >> = {}
      OBVIOUS
    <3>2. get_slice_budgets \in BudgetMsgs \ {Garbled}
      BY <2>1, <3>1, NewBudgets
    <3>3. get_slice_budgets[s] \in Budgets
      BY <2>1, <3>2, SliceAssumption, Zenon
    <3> QED
      BY <2>1, <3>3, ClampPolicy, Zenon
  <2>2. CASE s \notin DOMAIN get_slice_budgets
    <3>1. cfg[s] \in Policies /\ (Ordered(cfg[s]) \/ cfg[s] = InitCfg[s])
      BY DEF SchedTypes
    <3> QED
      BY <2>2, <3>1, Zenon
  <2> QED
    BY <2>1, <2>2, Zenon
<1>2. new_cfg = [s \in Slices |-> New(s)]
  BY Zenon DEF new_cfg
<1> HIDE DEF New
<1> QED
  BY <1>1, <1>2

-----------------------------------------------------------------------------
(* The PUSCH counters                                                       *)

LEMMA CountsInit == Init => SchedTypes /\ CountsInv
<1> SUFFICES ASSUME Init PROVE SchedTypes /\ CountsInv
  OBVIOUS
<1>1. slot \in Slots
  BY Sizes DEF Init, Slots
<1>2. SchedTypes
  BY <1>1, SliceAssumption DEF Init, SchedTypes
<1>3. ASSUME NEW s \in Slices, NEW k \in Int
      PROVE  pusch_rb_count[s][(slot + k) % RingSize] = 0 /\ granted[s][Ahead(k)] = 0
  BY <1>1, AheadType DEF Init
<1>4. CountsInv
  BY <1>3, Delays, Sizes DEF CountsInv, RingOK, LaterClear
<1> QED
  BY <1>2, <1>4

(* A slot indication, with the offsets of before it.                        *)
LEMMA ClearedSlots ==
  ASSUME SchedTypes, CountsInv, NEW d \in 1 .. MaxSkip, NEW s \in Slices, NEW k \in Nat
  PROVE  /\ k >= d /\ k < NumSlots => granted_ahead(d)[s][Ahead(k)] = granted[s][Ahead(k)]
         /\ k >= NumSlots /\ k < NumSlots + d => granted_ahead(d)[s][Ahead(k)] = 0
<1> DEFINE gone == {(slot + j) % NumSlots : j \in 0 .. d - 1}
<1>t. slot \in Slots /\ d \in Nat /\ k \in Int
  BY Sizes DEF SchedTypes
<1>1. Ahead(k) \in Slots
  BY <1>t, AheadType
<1>2. granted_ahead(d)[s][Ahead(k)] = IF Ahead(k) \in gone THEN 0 ELSE granted[s][Ahead(k)]
  BY <1>1, Zenon DEF granted_ahead
<1>3. ASSUME k >= d, k < NumSlots PROVE Ahead(k) \notin gone
  <2> SUFFICES ASSUME NEW j \in 0 .. d - 1 PROVE Ahead(k) # Ahead(j)
    BY DEF Ahead
  <2>1. j \in Int /\ k # j /\ k - j < NumSlots /\ j - k < NumSlots
    BY <1>t, <1>3, Sizes
  <2> QED
    BY <1>t, <2>1, AheadApart
<1>4. ASSUME k >= NumSlots, k < NumSlots + d PROVE Ahead(k) \in gone
  <2> DEFINE j == k - NumSlots
  <2>1. j \in 0 .. d - 1 /\ slot + j \in Int /\ NumSlots * 1 + (slot + j) = slot + k
    BY <1>t, <1>4, Sizes DEF Slots
  <2>2. (NumSlots * 1 + (slot + j)) % NumSlots = (slot + j) % NumSlots
    <3> HIDE DEF j
    <3>1. 1 \in Int
      OBVIOUS
    <3> QED
      BY <2>1, <3>1, Sizes, ModPeriod, Zenon
  <2> QED
    BY <2>1, <2>2 DEF Ahead
<1> HIDE DEF gone
<1> QED
  BY <1>2, <1>3, <1>4

LEMMA ClearedRing ==
  ASSUME SchedTypes, CountsInv, NEW d \in 1 .. MaxSkip, NEW s \in Slices,
         NEW k \in Nat, k >= MinK2 + d
  PROVE  /\ k < MinK2 + RingSize
              => cleared_counts(d)[s][(slot + k) % RingSize] = pusch_rb_count[s][(slot + k) % RingSize]
         /\ k >= MinK2 + RingSize /\ k < MinK2 + RingSize + d
              => cleared_counts(d)[s][(slot + k) % RingSize] = 0
<1> DEFINE i == (slot + k) % RingSize
           cleared == ClearedEntries(slot + 1 .. slot + d)
<1>t. slot \in Slots /\ slot \in Int /\ d \in Nat /\ d >= 1 /\ k \in Int
  BY Sizes DEF SchedTypes, Slots
<1>1. i \in 0 .. RingSize - 1
  BY <1>t, AheadType
<1>2. cleared_counts(d)[s][i] = IF i \in cleared THEN 0 ELSE pusch_rb_count[s][i]
  BY <1>1, Zenon DEF cleared_counts
<1>3. cleared = {(slot + (MinK2 + j)) % RingSize : j \in 0 .. d - 1}
  <2>1. ASSUME NEW t \in slot + 1 .. slot + d
        PROVE  \E j \in 0 .. d - 1 : t + MinK2 - 1 = slot + (MinK2 + j)
    <3>1. t - slot - 1 \in 0 .. d - 1 /\ t + MinK2 - 1 = slot + (MinK2 + (t - slot - 1))
      BY <1>t, Delays
    <3> QED
      BY <3>1
  <2>2. ASSUME NEW j \in 0 .. d - 1
        PROVE  \E t \in slot + 1 .. slot + d : t + MinK2 - 1 = slot + (MinK2 + j)
    <3>1. slot + 1 + j \in slot + 1 .. slot + d /\ (slot + 1 + j) + MinK2 - 1 = slot + (MinK2 + j)
      BY <1>t, Delays
    <3> QED
      BY <3>1
  <2> QED
    BY <2>1, <2>2, Zenon DEF ClearedEntries
<1> HIDE DEF cleared
<1>4. ASSUME k < MinK2 + RingSize PROVE i \notin cleared
  <2> SUFFICES ASSUME NEW j \in 0 .. d - 1 PROVE i # (slot + (MinK2 + j)) % RingSize
    BY <1>3
  <2> DEFINE m == MinK2 + j
  <2>1. m \in Int /\ k # m /\ k - m < RingSize /\ m - k < RingSize
    BY <1>t, <1>4, Delays, Sizes
  <2> HIDE DEF m
  <2>2. (slot + k) % RingSize # (slot + m) % RingSize
    BY <1>t, <2>1, AheadApart, Zenon
  <2> QED
    BY <2>2 DEF m
<1>5. ASSUME k >= MinK2 + RingSize, k < MinK2 + RingSize + d PROVE i \in cleared
  <2> DEFINE j == k - RingSize - MinK2
             x == slot + (MinK2 + j)
  <2>1. j \in 0 .. d - 1 /\ x \in Int /\ RingSize * 1 + x = slot + k
    BY <1>t, <1>5, Delays, Sizes
  <2>2. (RingSize * 1 + x) % RingSize = x % RingSize
    <3> HIDE DEF x
    <3>1. 1 \in Int
      OBVIOUS
    <3> QED
      BY <2>1, <3>1, Sizes, ModPeriod, Zenon
  <2>3. i = (slot + (MinK2 + j)) % RingSize
    BY <2>1, <2>2
  <2> QED
    BY <1>3, <2>1, <2>3
<1> HIDE DEF i
<1>6. /\ k < MinK2 + RingSize => cleared_counts(d)[s][i] = pusch_rb_count[s][i]
      /\ k >= MinK2 + RingSize /\ k < MinK2 + RingSize + d => cleared_counts(d)[s][i] = 0
  BY <1>2, <1>4, <1>5
<1> QED
  BY <1>6 DEF i

LEMMA CountsSlot ==
  ASSUME SchedTypes, CountsInv, NEW d \in 1 .. MaxSkip,
         slot' = (slot + d) % NumSlots, pusch_rb_count' = cleared_counts(d), granted' = granted_ahead(d)
  PROVE  CountsInv'
<1> SUFFICES ASSUME NEW s \in Slices PROVE (RingOK(s) /\ LaterClear(s))'
  BY DEF CountsInv
<1>t. /\ slot \in Slots /\ d \in Nat /\ d >= 1 /\ d <= MaxSkip /\ RingOK(s) /\ LaterClear(s)
      /\ MinK2 \in Nat \ {0} /\ MaxK2 \in Nat /\ MinK2 <= MaxK2 /\ NumSlots \in Nat /\ RingSize \in Nat
      /\ MaxK2 < RingSize /\ MaxSkip \in Nat /\ MaxK2 + MaxSkip < NumSlots
  BY Delays, Sizes DEF SchedTypes, CountsInv
<1>1. ASSUME NEW k \in Nat, k >= MinK2, k < NumSlots
      PROVE  granted'[s][Ahead(k)'] = IF k + d <= MaxK2 THEN granted[s][Ahead(k + d)] ELSE 0
  <2> DEFINE n == k + d
  <2>1. n \in Nat /\ n >= d /\ n < NumSlots + d /\ k \in Int
    BY <1>t, <1>1
  <2>2. Ahead(k)' = Ahead(n)
    BY <1>t, <2>1, AheadShift
  <2> HIDE DEF n
  <2>3. CASE n < NumSlots
    <3>1. granted'[s][Ahead(k)'] = granted[s][Ahead(n)]
      BY <2>1, <2>2, <2>3, ClearedSlots
    <3>2. n > MaxK2 => granted[s][Ahead(n)] = 0
      BY <1>t, <2>1, <2>3 DEF LaterClear
    <3> QED
      BY <1>t, <2>1, <3>1, <3>2 DEF n
  <2>4. CASE n >= NumSlots
    <3>1. granted'[s][Ahead(k)'] = 0
      BY <2>1, <2>2, <2>4, ClearedSlots
    <3> QED
      BY <1>t, <2>1, <2>4, <3>1 DEF n
  <2> QED
    BY <1>t, <2>1, <2>3, <2>4
<1>2. LaterClear(s)'
  <2> SUFFICES ASSUME NEW k \in MaxK2 + 1 .. NumSlots - 1 PROVE granted'[s][Ahead(k)'] = 0
    BY DEF LaterClear
  <2>1. k \in Nat /\ k >= MinK2 /\ k < NumSlots /\ ~(k + d <= MaxK2)
    BY <1>t
  <2> QED
    BY <1>1, <2>1
<1>3. RingOK(s)'
  <2> SUFFICES ASSUME NEW k \in MinK2 .. MinK2 + RingSize - 1
               PROVE  pusch_rb_count'[s][(slot' + k) % RingSize]
                        = IF k <= MaxK2 THEN granted'[s][Ahead(k)'] ELSE 0
    BY DEF RingOK
  <2> DEFINE n == k + d
  <2>1. /\ n \in Nat /\ n >= MinK2 + d /\ n < MinK2 + RingSize + d /\ k \in Nat /\ k \in Int
        /\ k >= MinK2 /\ k < MinK2 + RingSize /\ n > k
    BY <1>t
  <2>2. (slot' + k) % RingSize = (slot + n) % RingSize
    BY <1>t, <2>1, AheadShift
  <2>3. k <= MaxK2 => granted'[s][Ahead(k)'] = IF n <= MaxK2 THEN granted[s][Ahead(n)] ELSE 0
    BY <1>1, <1>t, <2>1
  <2> HIDE DEF n
  <2>4. CASE n < MinK2 + RingSize
    <3>1. pusch_rb_count'[s][(slot' + k) % RingSize] = pusch_rb_count[s][(slot + n) % RingSize]
      BY <2>1, <2>2, <2>4, ClearedRing
    <3>2. pusch_rb_count[s][(slot + n) % RingSize] = IF n <= MaxK2 THEN granted[s][Ahead(n)] ELSE 0
      BY <1>t, <2>1, <2>4 DEF RingOK
    <3> QED
      BY <1>t, <2>1, <2>3, <3>1, <3>2
  <2>5. CASE n >= MinK2 + RingSize
    <3>1. pusch_rb_count'[s][(slot' + k) % RingSize] = 0
      BY <2>1, <2>2, <2>5, ClearedRing
    <3> QED
      BY <1>t, <2>1, <2>3, <2>5, <3>1
  <2> QED
    BY <1>t, <2>1, <2>4, <2>5
<1> QED
  BY <1>2, <1>3

-----------------------------------------------------------------------------
(* Priorities                                                               *)

LEMMA WeightType ==
  ASSUME NEW px \in Int, NEW now \in Int
  PROVE  SlotWeight(px, now) \in Nat
<1> DEFINE delay == (px - now) % NumSlots
<1>1. delay \in Int
  <2>1. px - now \in Int
    OBVIOUS
  <2>2. delay \in 0 .. (NumSlots - 1)
    BY <2>1, Sizes, DivMod, Zenon
  <2> QED
    BY <2>2, Sizes
<1> HIDE DEF delay
<1>2. SlotDistMask \in Int /\ SlotDistMask = 127
  BY DEF SlotDistMask
<1>3. Min({delay, SlotDistMask}) = IF delay <= SlotDistMask THEN delay ELSE SlotDistMask
  BY <1>1, <1>2, MinOfTwo, Zenon
<1>4. SlotWeight(px, now) = 2 * (SlotDistMask - Min({delay, SlotDistMask}))
  BY Zenon DEF SlotWeight, delay
<1> QED
  BY <1>1, <1>2, <1>3, <1>4

(* A candidate is not skipped, and in one slot a candidate below its        *)
(* minimum comes before every other, whatever their priorities.             *)
LEMMA PrioOrder ==
  ASSUME NEW px \in Int, NEW now \in Int, NEW p \in 0 .. MaxPriority, NEW q \in 0 .. MaxPriority
  PROVE  /\ Prio(p, px, now, 0) \in Nat \ {0} /\ Prio(p, px, now, 1) \in Nat \ {0}
         /\ Prio(p, px, now, 0) < Prio(q, px, now, 1)
<1> DEFINE w == SlotWeight(px, now)
           n == MaxPriority + 1
<1>1. w \in Nat /\ n \in Nat /\ p \in Nat /\ q \in Nat /\ p < n
  <2>1. w \in Nat
    BY WeightType, Zenon
  <2> QED
    BY <2>1, SliceAssumption
<1>2. /\ Prio(p, px, now, 0) = 1 + p + n * (0 + w) /\ Prio(p, px, now, 1) = 1 + p + n * (1 + w)
      /\ Prio(q, px, now, 1) = 1 + q + n * (1 + w)
  BY Zenon DEF Prio
<1> HIDE DEF w, n
<1>3. n * w \in Nat /\ n * (0 + w) = n * w /\ n * (1 + w) = n * w + n
  BY <1>1
<1> QED
  BY <1>1, <1>2, <1>3

(* The policies of a slice.                                                 *)
LEMMA PolicyFields ==
  ASSUME NEW c \in Policies
  PROVE  /\ c.min_prb \in Nat /\ c.max_prb \in Nat /\ c.priority \in 0 .. MaxPriority
         /\ Ceiling(c) \in Nat /\ c.min_prb <= Ceiling(c) /\ c.max_prb <= Ceiling(c)
  BY SliceAssumption DEF Policies, Ceiling, Ordered

-----------------------------------------------------------------------------
(* Candidates                                                               *)

CandType == [id : Slices, prio : Int, lo : Int, hi : Int, slot : Slots]

LEMMA CountType ==
  ASSUME SchedTypes, NEW dir \in {"dl", "ul"}, NEW s \in Slices, NEW px \in Slots
  PROVE  rb_count(dir, s, px) \in Nat
<1> DEFINE i == px % RingSize
<1>1. px \in Int
  BY Sizes DEF Slots
<1>2. i \in 0 .. (RingSize - 1)
  BY <1>1, Sizes, DivMod, Zenon
<1>3. rb_count(dir, s, px) = IF dir = "dl" THEN pdsch_rb_count[s] ELSE pusch_rb_count[s][i]
  BY Zenon DEF rb_count
<1> HIDE DEF i
<1>4. pdsch_rb_count[s] \in Nat /\ pusch_rb_count[s] \in [0 .. (RingSize - 1) -> Nat]
  BY Zenon DEF SchedTypes
<1>5. pusch_rb_count[s][i] \in Nat
  BY <1>2, <1>4, Zenon
<1> QED
  BY <1>3, <1>4, <1>5, Zenon

(* The candidate a slice becomes again after its minimum.                   *)
LEMMA SecondOK ==
  ASSUME SchedTypes, NEW dir \in {"dl", "ul"}, NEW c \in CandType, CandOK(dir, c)
  PROVE  LET second == second_candidate(dir, c) IN
         /\ second \in CandType /\ second.id = c.id /\ second.slot = c.slot
         /\ second.hi = cfg[c.id].max_prb
         /\ second.prio # SkipPrio => /\ CandOK(dir, second)
                                      /\ second.prio = Prio(cfg[c.id].priority, c.slot, slot, 0)
<1> DEFINE conf == cfg[c.id]
           count == rb_count(dir, c.id, c.slot)
           active == slice_ues[c.id] # {}
           prio == get_prio(conf, count, active, (c.slot - slot) % NumSlots, TRUE)
           lo == IF count > 0 THEN count ELSE conf.min_prb
           second == second_candidate(dir, c)
<1>1. /\ c.id \in Slices /\ c.slot \in Slots /\ c.slot \in Int /\ slot \in Int /\ active \in BOOLEAN
  BY Sizes DEF CandType, SchedTypes, Slots
<1>2. conf \in Policies
  BY <1>1 DEF SchedTypes
<1>3. /\ conf.min_prb \in Nat /\ conf.max_prb \in Nat /\ conf.priority \in 0 .. MaxPriority
      /\ conf.max_prb <= Ceiling(conf)
  BY <1>2, PolicyFields, Zenon
<1>4. count \in Nat
  BY <1>1, CountType, Zenon
<1>5. prio = SkipPrio \/ prio = Prio(conf.priority, c.slot, slot, 0)
  <2> HIDE DEF conf, count, active
  <2>1. (IF ~TRUE /\ conf.min_prb > 0 /\ count < conf.min_prb THEN 1 ELSE 0) = 0
    OBVIOUS
  <2> QED
    BY <2>1, Zenon DEF get_prio, Prio, SlotWeight
<1>6. prio \in Int
  <2>1. Prio(conf.priority, c.slot, slot, 0) \in Nat \ {0}
    BY <1>1, <1>3, PrioOrder, Zenon
  <2> HIDE DEF prio, conf
  <2> QED
    BY <1>5, <2>1 DEF SkipPrio
<1>7. second = [id |-> c.id, lo |-> lo, hi |-> conf.max_prb, slot |-> c.slot, prio |-> prio]
  BY Zenon DEF second_candidate
<1>8. lo \in Int
  BY <1>3, <1>4
<1> HIDE DEF conf, count, active, prio, lo, second
<1>9. /\ second \in CandType /\ second.id = c.id /\ second.slot = c.slot
      /\ second.hi = conf.max_prb /\ second.prio = prio
  BY <1>1, <1>3, <1>6, <1>7, <1>8 DEF CandType
<1>10. ASSUME prio # SkipPrio PROVE CandOK(dir, second)
  <2>1. second.hi <= Ceiling(cfg[second.id])
    BY <1>3, <1>9, Zenon DEF conf
  <2>2. second.prio = Prio(cfg[second.id].priority, second.slot, slot, 0)
    BY <1>5, <1>9, <1>10, Zenon DEF conf
  <2>3. IF dir = "dl" THEN second.slot = slot ELSE \E k \in MinK2 .. MaxK2 : second.slot = Ahead(k)
    BY <1>9, Zenon DEF CandOK
  <2> QED
    BY <1>9, <2>1, <2>2, <2>3, Zenon DEF CandOK, CandType
<1> QED
  BY <1>5, <1>9, <1>10, Zenon DEF conf, second

(* What get_next_candidate leaves queued when it returns c: all the others, *)
(* and possibly a second candidate of the slice, unless the two are merged. *)
LEMMA ReturnedEffect ==
  ASSUME SchedTypes, NEW dir \in {"dl", "ul"}, QueueOK(dir), NEW c \in queue(dir),
         NEW rest \in SUBSET queue(dir), c \notin rest, NEW ret \in returned(dir, c, rest)
  PROVE  LET second == second_candidate(dir, c) IN
         /\ ret.max_rbs \in Int /\ c.hi <= ret.max_rbs /\ ret.max_rbs <= Ceiling(cfg[c.id])
         /\ rest \subseteq ret.queue
         /\ ret.queue \subseteq rest \cup (IF second.prio = SkipPrio THEN {} ELSE {second})
         /\ ret.max_rbs > c.hi => second.prio # SkipPrio /\ \A e \in rest : e.prio <= second.prio
<1> DEFINE second == second_candidate(dir, c)
           q == push(rest, second)
<1>1. CandOK(dir, c) /\ c \in CandType /\ c.id \in Slices /\ c.hi \in Int
  BY DEF QueueOK, CandOK, CandType
<1>2. /\ second \in CandType /\ second.id = c.id /\ second.slot = c.slot
      /\ second.hi = cfg[c.id].max_prb
  BY <1>1, SecondOK, Zenon
<1> DEFINE most == Ceiling(cfg[c.id])
<1>3. /\ cfg[c.id].max_prb \in Int /\ cfg[c.id].max_prb <= most
      /\ most \in Int /\ c.hi <= most
  <2>1. cfg[c.id] \in Policies
    BY <1>1 DEF SchedTypes
  <2>2. cfg[c.id].max_prb \in Nat /\ most \in Nat /\ cfg[c.id].max_prb <= most
    BY <2>1, PolicyFields, Zenon
  <2>3. c.hi <= most
    BY <1>1, Zenon DEF CandOK
  <2> HIDE DEF most
  <2> QED
    BY <2>2, <2>3
<1>4. q = rest \cup (IF second.prio = SkipPrio THEN {} ELSE {second})
  BY Zenon DEF push
<1>5. \A e \in rest : ~(e.id = c.id /\ e.slot = c.slot)
  BY Zenon DEF QueueOK
<1> HIDE DEF second, q, most
<1>6. CASE ret = [queue |-> rest, max_rbs |-> c.hi]
  <2>1. ret.queue = rest /\ ret.max_rbs = c.hi
    BY <1>6
  <2>2. ret.max_rbs \in Int /\ c.hi <= ret.max_rbs /\ ret.max_rbs <= most /\ ~(ret.max_rbs > c.hi)
    BY <1>1, <1>3, <2>1
  <2> QED
    BY <2>1, <2>2, Zenon DEF most
<1>7. ASSUME NEW top \in tops(q),
             ret = IF top.id = c.id /\ top.slot = c.slot
                   THEN [queue |-> q \ {top}, max_rbs |-> Max({c.hi, top.hi})]
                   ELSE [queue |-> q, max_rbs |-> c.hi]
      PROVE  /\ ret.max_rbs \in Int /\ c.hi <= ret.max_rbs /\ ret.max_rbs <= most
             /\ rest \subseteq ret.queue
             /\ ret.queue \subseteq rest \cup (IF second.prio = SkipPrio THEN {} ELSE {second})
             /\ ret.max_rbs > c.hi => second.prio # SkipPrio /\ \A e \in rest : e.prio <= second.prio
  <2>1. top \in q /\ \A e \in q : e.prio <= top.prio
    BY DEF tops
  <2>2. CASE top.id = c.id /\ top.slot = c.slot
    <3>1. top = second /\ second.prio # SkipPrio
      BY <1>4, <1>5, <2>1, <2>2
    <3>2. Max({c.hi, top.hi}) = IF c.hi >= top.hi THEN c.hi ELSE top.hi
      BY <1>1, <1>2, <1>3, <3>1, MaxOfTwo, Zenon
    <3>3. ret.queue = q \ {top} /\ ret.max_rbs = Max({c.hi, top.hi})
      BY <1>7, <2>2
    <3>4. ret.max_rbs \in Int /\ c.hi <= ret.max_rbs /\ ret.max_rbs <= most
      BY <1>1, <1>2, <1>3, <3>1, <3>2, <3>3
    <3>5. second \notin rest
      BY <1>2, <1>5
    <3> QED
      BY <1>1, <1>3, <1>4, <2>1, <3>1, <3>3, <3>4, <3>5
  <2>3. CASE ~(top.id = c.id /\ top.slot = c.slot)
    <3>1. ret.queue = q /\ ret.max_rbs = c.hi
      BY <1>7, <2>3
    <3> QED
      BY <1>1, <1>3, <1>4, <3>1
  <2> QED
    BY <2>2, <2>3
<1>8. \/ ret = [queue |-> rest, max_rbs |-> c.hi]
      \/ \E top \in tops(q) :
           ret = IF top.id = c.id /\ top.slot = c.slot
                 THEN [queue |-> q \ {top}, max_rbs |-> Max({c.hi, top.hi})]
                 ELSE [queue |-> q, max_rbs |-> c.hi]
  BY Zenon DEF returned, q, second
<1> QED
  BY <1>6, <1>7, <1>8, Zenon DEF second, most

-----------------------------------------------------------------------------
(* A candidate served                                                       *)

(* Candidate c is returned as ret, with rest still queued, and granted g.   *)
ServedWith(dir, c, rest, ret, g) ==
  /\ phase = dir
  /\ c \in tops(fresh(dir)) /\ rest \subseteq queue(dir) \ {c} /\ fresh(dir) \ {c} \subseteq rest
  /\ ret \in returned(dir, c, rest) /\ g \in grants(dir, c, ret.max_rbs)
  /\ dl_queue' = IF dir = "dl" THEN ret.queue ELSE dl_queue
  /\ ul_queue' = IF dir = "ul" THEN ret.queue ELSE ul_queue
  /\ store_grant(dir, c, g.retx + g.newtx)
  /\ offer' = [dir |-> dir, id |-> c.id, slot |-> c.slot, max_rbs |-> ret.max_rbs,
               room |-> remaining_rbs(ret.max_rbs, rb_count(dir, c.id, c.slot)),
               newtx |-> g.newtx > 0]
  /\ due' = due \ {<<dir, c.id, c.slot>>}
  /\ UNCHANGED <<slot, agentVars, cfg, ueVars, phase>>

LEMMA ServeParts ==
  ASSUME NEW dir \in {"dl", "ul"}, Serve(dir)
  PROVE  \E c, rest, ret, g : ServedWith(dir, c, rest, ret, g)
<1>1. PICK c \in tops(fresh(dir)) :
      \E stale \in SUBSET {e \in queue(dir) \ fresh(dir) : e.prio = c.prio} :
      LET rest == {e \in queue(dir) \ ({c} \cup stale) : e.prio <= c.prio}
          count == rb_count(dir, c.id, c.slot)
      IN  /\ \E ret \in returned(dir, c, rest) :
             /\ dl_queue' = IF dir = "dl" THEN ret.queue ELSE dl_queue
             /\ ul_queue' = IF dir = "ul" THEN ret.queue ELSE ul_queue
             /\ \E g \in grants(dir, c, ret.max_rbs) :
                /\ store_grant(dir, c, g.retx + g.newtx)
                /\ offer' = [dir |-> dir, id |-> c.id, slot |-> c.slot, max_rbs |-> ret.max_rbs,
                             room |-> remaining_rbs(ret.max_rbs, count), newtx |-> g.newtx > 0]
          /\ due' = due \ {<<dir, c.id, c.slot>>}
  BY Zenon DEF Serve
<1>2. PICK stale \in SUBSET {e \in queue(dir) \ fresh(dir) : e.prio = c.prio} :
      LET rest == {e \in queue(dir) \ ({c} \cup stale) : e.prio <= c.prio}
          count == rb_count(dir, c.id, c.slot)
      IN  /\ \E ret \in returned(dir, c, rest) :
             /\ dl_queue' = IF dir = "dl" THEN ret.queue ELSE dl_queue
             /\ ul_queue' = IF dir = "ul" THEN ret.queue ELSE ul_queue
             /\ \E g \in grants(dir, c, ret.max_rbs) :
                /\ store_grant(dir, c, g.retx + g.newtx)
                /\ offer' = [dir |-> dir, id |-> c.id, slot |-> c.slot, max_rbs |-> ret.max_rbs,
                             room |-> remaining_rbs(ret.max_rbs, count), newtx |-> g.newtx > 0]
          /\ due' = due \ {<<dir, c.id, c.slot>>}
  BY <1>1, Zenon
<1> DEFINE rest == {e \in queue(dir) \ ({c} \cup stale) : e.prio <= c.prio}
<1>3. rest \subseteq queue(dir) \ {c}
  OBVIOUS
<1>4. fresh(dir) \ {c} \subseteq rest
  <2>1. fresh(dir) \subseteq queue(dir)
    BY Zenon DEF fresh
  <2>2. \A e \in fresh(dir) : e.prio <= c.prio
    BY Zenon DEF tops
  <2> QED
    BY <2>1, <2>2, Zenon
<1>5. phase = dir /\ UNCHANGED <<slot, agentVars, cfg, ueVars, phase>>
  BY Zenon DEF Serve
<1> HIDE DEF rest
<1>6. PICK ret \in returned(dir, c, rest) :
        /\ dl_queue' = IF dir = "dl" THEN ret.queue ELSE dl_queue
        /\ ul_queue' = IF dir = "ul" THEN ret.queue ELSE ul_queue
        /\ \E g \in grants(dir, c, ret.max_rbs) :
             /\ store_grant(dir, c, g.retx + g.newtx)
             /\ offer' = [dir |-> dir, id |-> c.id, slot |-> c.slot, max_rbs |-> ret.max_rbs,
                          room |-> remaining_rbs(ret.max_rbs, rb_count(dir, c.id, c.slot)),
                          newtx |-> g.newtx > 0]
  BY <1>2, Zenon DEF rest
<1>7. PICK g \in grants(dir, c, ret.max_rbs) :
        /\ store_grant(dir, c, g.retx + g.newtx)
        /\ offer' = [dir |-> dir, id |-> c.id, slot |-> c.slot, max_rbs |-> ret.max_rbs,
                     room |-> remaining_rbs(ret.max_rbs, rb_count(dir, c.id, c.slot)),
                     newtx |-> g.newtx > 0]
  BY <1>6, Zenon
<1>8. due' = due \ {<<dir, c.id, c.slot>>}
  BY <1>2, Zenon
<1>9. ServedWith(dir, c, rest, ret, g)
  BY <1>3, <1>4, <1>5, <1>6, <1>7, <1>8, Zenon DEF ServedWith
<1> QED
  BY <1>9, Zenon

(* A candidate can only be for the slot (PDSCH), or for a slot whose PUSCH  *)
(* can be scheduled.                                                        *)
Reachable(dir, px) == IF dir = "dl" THEN px = slot ELSE \E k \in MinK2 .. MaxK2 : px = Ahead(k)

(* The entries of reachable slots are different.                            *)
LEMMA EntriesApart ==
  ASSUME slot \in Slots, NEW px \in Slots, NEW py \in Slots, px # py,
         Reachable("ul", px), Reachable("ul", py)
  PROVE  px % RingSize # py % RingSize
<1>1. PICK k \in MinK2 .. MaxK2 : px = Ahead(k)
  BY Zenon DEF Reachable
<1>2. PICK j \in MinK2 .. MaxK2 : py = Ahead(j)
  BY Zenon DEF Reachable
<1>3. k \in Int /\ j \in Int /\ k # j /\ k - j < RingSize /\ j - k < RingSize
  BY <1>1, <1>2, Delays, Sizes
<1>4. (slot + k) % RingSize # (slot + j) % RingSize
  BY <1>3, AheadApart, Zenon
<1>5. px % RingSize = (slot + k) % RingSize /\ py % RingSize = (slot + j) % RingSize
  BY <1>1, <1>2, <1>3, RingEntry, Zenon
<1> QED
  BY <1>4, <1>5, Zenon

(* RBs added to one entry of a table of counts.                             *)
LEMMA AddAt ==
  ASSUME NEW A, NEW B, NEW f \in [A -> [B -> Nat]], NEW a \in A, NEW b \in B, NEW n \in Nat,
         NEW h, h = [f EXCEPT ![a][b] = @ + n]
  PROVE  /\ h \in [A -> [B -> Nat]]
         /\ \A x \in A, y \in B : h[x][y] = IF x = a /\ y = b THEN f[x][y] + n ELSE f[x][y]
<1> DEFINE row == [f[a] EXCEPT ![b] = f[a][b] + n]
<1>1. row \in [B -> Nat] /\ \A y \in B : row[y] = IF y = b THEN f[a][y] + n ELSE f[a][y]
  OBVIOUS
<1> DEFINE R == [B -> Nat]
<1>2. h = [f EXCEPT ![a] = row] /\ f \in [A -> R] /\ row \in R
  BY <1>1
<1> HIDE DEF row, R
<1>3. h \in [A -> R] /\ \A x \in A : h[x] = IF x = a THEN row ELSE f[x]
  BY <1>2, Zenon
<1> QED
  BY <1>1, <1>3, Zenon DEF R

(* What a grant does to the counters of PUSCH.                              *)
LEMMA UlStored ==
  ASSUME SchedTypes, NEW c \in CandType, NEW rbs \in Nat, store_grant("ul", c, rbs)
  PROVE  /\ pusch_rb_count' \in [Slices -> [0 .. RingSize - 1 -> Nat]]
         /\ granted' \in [Slices -> [Slots -> Nat]]
         /\ pdsch_rb_count' = pdsch_rb_count
         /\ \A s \in Slices, j \in 0 .. RingSize - 1 :
              pusch_rb_count'[s][j] = IF s = c.id /\ j = c.slot % RingSize
                                      THEN pusch_rb_count[s][j] + rbs ELSE pusch_rb_count[s][j]
         /\ \A s \in Slices, px \in Slots :
              granted'[s][px] = IF s = c.id /\ px = c.slot THEN granted[s][px] + rbs
                                ELSE granted[s][px]
<1> DEFINE i == c.slot % RingSize
           B == 0 .. RingSize - 1
<1>1. c.id \in Slices /\ c.slot \in Slots /\ c.slot \in Int /\ "dl" # "ul"
  BY Sizes DEF CandType, Slots
<1>2. i \in B
  BY <1>1, Sizes, DivMod, Zenon
<1>3. pusch_rb_count \in [Slices -> [B -> Nat]] /\ granted \in [Slices -> [Slots -> Nat]]
  BY DEF SchedTypes
<1>4. /\ pusch_rb_count' = [pusch_rb_count EXCEPT ![c.id][i] = @ + rbs]
      /\ granted' = [granted EXCEPT ![c.id][c.slot] = @ + rbs]
      /\ pdsch_rb_count' = pdsch_rb_count
  BY <1>1, Zenon DEF store_grant
<1> HIDE DEF i, B
<1>5. /\ pusch_rb_count' \in [Slices -> [B -> Nat]]
      /\ \A s \in Slices, j \in B :
           pusch_rb_count'[s][j] = IF s = c.id /\ j = i
                                   THEN pusch_rb_count[s][j] + rbs ELSE pusch_rb_count[s][j]
  BY <1>1, <1>2, <1>3, <1>4, AddAt
<1>6. /\ granted' \in [Slices -> [Slots -> Nat]]
      /\ \A s \in Slices, px \in Slots :
           granted'[s][px] = IF s = c.id /\ px = c.slot THEN granted[s][px] + rbs
                             ELSE granted[s][px]
  BY <1>1, <1>3, <1>4, AddAt
<1> QED
  BY <1>4, <1>5, <1>6, Zenon DEF i, B

(* What a grant does to the counters.                                       *)
LEMMA GrantStored ==
  ASSUME SchedTypes, NEW dir \in {"dl", "ul"}, NEW c \in CandType, CandOK(dir, c),
         NEW rbs \in Nat, store_grant(dir, c, rbs)
  PROVE  /\ pdsch_rb_count' \in [Slices -> Nat]
         /\ pusch_rb_count' \in [Slices -> [0 .. RingSize - 1 -> Nat]]
         /\ granted' \in [Slices -> [Slots -> Nat]]
         /\ rb_count(dir, c.id, c.slot)' = rb_count(dir, c.id, c.slot) + rbs
         /\ \A to \in {"dl", "ul"}, s \in Slices, px \in Slots :
              Reachable(to, px) /\ <<to, s, px>> # <<dir, c.id, c.slot>>
                => rb_count(to, s, px)' = rb_count(to, s, px)
<1> DEFINE i == c.slot % RingSize
<1>1. c.id \in Slices /\ c.slot \in Slots /\ c.slot \in Int /\ slot \in Slots /\ "dl" # "ul"
  BY Sizes DEF CandType, Slots, SchedTypes
<1>2. i \in 0 .. (RingSize - 1)
  BY <1>1, Sizes, DivMod, Zenon
<1>3. Reachable(dir, c.slot)
  BY Zenon DEF CandOK, Reachable
<1>4. /\ pdsch_rb_count \in [Slices -> Nat]
      /\ pusch_rb_count \in [Slices -> [0 .. (RingSize - 1) -> Nat]]
      /\ granted \in [Slices -> [Slots -> Nat]]
  BY DEF SchedTypes
<1>5. CASE dir = "dl"
  <2>1. /\ pdsch_rb_count' = [pdsch_rb_count EXCEPT ![c.id] = @ + rbs]
        /\ pusch_rb_count' = pusch_rb_count /\ granted' = granted
    BY <1>5 DEF store_grant
  <2>2. /\ pdsch_rb_count' \in [Slices -> Nat]
        /\ pdsch_rb_count'[c.id] = pdsch_rb_count[c.id] + rbs
        /\ \A s \in Slices \ {c.id} : pdsch_rb_count'[s] = pdsch_rb_count[s]
    BY <1>1, <1>4, <2>1
  <2>3. rb_count(dir, c.id, c.slot)' = rb_count(dir, c.id, c.slot) + rbs
    BY <1>5, <2>2, Zenon DEF rb_count
  <2>4. ASSUME NEW to \in {"dl", "ul"}, NEW s \in Slices, NEW px \in Slots,
               Reachable(to, px), <<to, s, px>> # <<dir, c.id, c.slot>>
        PROVE  rb_count(to, s, px)' = rb_count(to, s, px)
    <3>1. CASE to = "dl"
      <4>1. px = slot /\ c.slot = slot
        BY <1>3, <1>5, <2>4, <3>1, Zenon DEF Reachable
      <4>2. s # c.id
        BY <1>5, <2>4, <3>1, <4>1, Zenon
      <4> QED
        BY <2>2, <3>1, <4>2, Zenon DEF rb_count
    <3>2. CASE to = "ul"
      BY <1>1, <2>1, <3>2, Zenon DEF rb_count
    <3> QED
      BY <3>1, <3>2
  <2>5. /\ pdsch_rb_count' \in [Slices -> Nat]
        /\ pusch_rb_count' \in [Slices -> [0 .. RingSize - 1 -> Nat]]
        /\ granted' \in [Slices -> [Slots -> Nat]]
    BY <1>4, <2>1, <2>2, Zenon
  <2> QED
    BY <2>3, <2>4, <2>5, Zenon
<1>6. CASE dir = "ul"
  <2>1. /\ pusch_rb_count' \in [Slices -> [0 .. (RingSize - 1) -> Nat]]
        /\ granted' \in [Slices -> [Slots -> Nat]]
        /\ pdsch_rb_count' = pdsch_rb_count
    BY <1>6, UlStored, Zenon
  <2>2. rb_count(dir, c.id, c.slot) = pusch_rb_count[c.id][i]
    BY <1>1, <1>6, Zenon DEF rb_count
  <2>3. rb_count(dir, c.id, c.slot)' = pusch_rb_count'[c.id][i]
    BY <1>1, <1>6, Zenon DEF rb_count
  <2>4. \A s \in Slices, j \in 0 .. (RingSize - 1) :
          pusch_rb_count'[s][j] = IF s = c.id /\ j = i
                                  THEN pusch_rb_count[s][j] + rbs ELSE pusch_rb_count[s][j]
    BY <1>6, UlStored, Zenon
  <2> HIDE DEF i
  <2>6. ASSUME NEW to \in {"dl", "ul"}, NEW s \in Slices, NEW px \in Slots,
               Reachable(to, px), <<to, s, px>> # <<dir, c.id, c.slot>>
        PROVE  rb_count(to, s, px)' = rb_count(to, s, px)
    <3>1. CASE to = "dl"
      BY <2>1, <3>1, Zenon DEF rb_count
    <3>2. CASE to = "ul"
      <4> DEFINE j == px % RingSize
      <4>1. s # c.id \/ px # c.slot
        BY <1>6, <2>6, <3>2, Zenon
      <4>2. s # c.id \/ j # i
        BY <1>1, <1>3, <1>6, <2>6, <3>2, <4>1, EntriesApart, Zenon DEF i
      <4>3. px \in Int
        BY Sizes DEF Slots
      <4>4. j \in 0 .. (RingSize - 1)
        BY <4>3, Sizes, DivMod, Zenon
      <4>5. pusch_rb_count'[s][j] = pusch_rb_count[s][j]
        BY <2>4, <4>2, <4>4, Zenon
      <4> QED
        BY <1>1, <3>2, <4>5, Zenon DEF rb_count
    <3> QED
      BY <3>1, <3>2
  <2>7. rb_count(dir, c.id, c.slot)' = rb_count(dir, c.id, c.slot) + rbs
    BY <1>1, <1>2, <2>2, <2>3, <2>4, Zenon
  <2> QED
    BY <1>4, <2>1, <2>6, <2>7, Zenon
<1> QED
  BY <1>5, <1>6

LEMMA GrantSizes ==
  ASSUME SchedTypes, NEW dir \in {"dl", "ul"}, NEW c \in CandType, NEW max_rbs \in Int,
         NEW g \in grants(dir, c, max_rbs)
  PROVE  /\ g.retx \in Nat /\ g.newtx \in Nat /\ g.retx + g.newtx \in Nat
         /\ g.newtx > 0 => rb_count(dir, c.id, c.slot) + (g.retx + g.newtx) <= max_rbs
<1> DEFINE count == rb_count(dir, c.id, c.slot)
<1>1. count \in Nat
  BY CountType, Zenon DEF CandType
<1>2. /\ g \in [retx : 0 .. CellRbs, newtx : 0 .. CellRbs]
      /\ g.newtx <= remaining_rbs(max_rbs, count + g.retx)
  BY Zenon DEF grants
<1> HIDE DEF count
<1>3. g.retx \in Nat /\ g.newtx \in Nat
  BY <1>2, SliceAssumption
<1>4. g.newtx > 0 => count + (g.retx + g.newtx) <= max_rbs
  BY <1>1, <1>2, <1>3 DEF remaining_rbs
<1> QED
  BY <1>3, <1>4 DEF count

(* The facts about a served candidate that the invariants need.             *)
LEMMA ServeEffect ==
  ASSUME SchedTypes, QueueInv, NEW dir \in {"dl", "ul"}, NEW c, NEW rest, NEW ret, NEW g,
         ServedWith(dir, c, rest, ret, g)
  PROVE  LET second == second_candidate(dir, c)
             rbs == g.retx + g.newtx IN
         /\ QueueOK(dir) /\ c \in queue(dir) /\ c \in CandType /\ CandOK(dir, c)
         /\ second \in CandType /\ second.id = c.id /\ second.slot = c.slot
         /\ second.prio # SkipPrio => /\ CandOK(dir, second)
                                      /\ second.prio = Prio(cfg[c.id].priority, c.slot, slot, 0)
         /\ ret.max_rbs \in Int /\ c.hi <= ret.max_rbs /\ ret.max_rbs <= Ceiling(cfg[c.id])
         /\ rest \subseteq ret.queue
         /\ ret.queue \subseteq rest \cup (IF second.prio = SkipPrio THEN {} ELSE {second})
         /\ ret.max_rbs > c.hi => second.prio # SkipPrio /\ \A e \in rest : e.prio <= second.prio
         /\ rbs \in Nat
         /\ g.newtx > 0 => rb_count(dir, c.id, c.slot) + rbs <= ret.max_rbs
<1> DEFINE second == second_candidate(dir, c)
<1>1. QueueOK(dir)
  BY Zenon DEF QueueInv
<1>2. /\ c \in tops(fresh(dir)) /\ rest \subseteq queue(dir) \ {c} /\ ret \in returned(dir, c, rest)
      /\ g \in grants(dir, c, ret.max_rbs)
  BY Zenon DEF ServedWith
<1>3. c \in queue(dir) /\ rest \in SUBSET queue(dir) /\ c \notin rest
  BY <1>2, Zenon DEF tops, fresh
<1>4. CandOK(dir, c)
  BY <1>1, <1>3, Zenon DEF QueueOK
<1>5. c \in CandType
  BY <1>4, Zenon DEF CandOK, CandType
<1>6. /\ second \in CandType /\ second.id = c.id /\ second.slot = c.slot
      /\ second.prio # SkipPrio => /\ CandOK(dir, second)
                                   /\ second.prio = Prio(cfg[c.id].priority, c.slot, slot, 0)
  BY <1>4, <1>5, SecondOK, Zenon
<1>7. /\ ret.max_rbs \in Int /\ c.hi <= ret.max_rbs /\ ret.max_rbs <= Ceiling(cfg[c.id])
      /\ rest \subseteq ret.queue
      /\ ret.queue \subseteq rest \cup (IF second.prio = SkipPrio THEN {} ELSE {second})
      /\ ret.max_rbs > c.hi => second.prio # SkipPrio /\ \A e \in rest : e.prio <= second.prio
  BY <1>1, <1>2, <1>3, ReturnedEffect, Zenon
<1>8. /\ g.retx + g.newtx \in Nat
      /\ g.newtx > 0 => rb_count(dir, c.id, c.slot) + (g.retx + g.newtx) <= ret.max_rbs
  BY <1>2, <1>5, <1>7, GrantSizes, Zenon
<1> HIDE DEF second
<1> QED
  BY <1>1, <1>3, <1>4, <1>5, <1>6, <1>7, <1>8, Zenon DEF second

(* A grant is counted in the entry and in the slot of its candidate only.   *)
LEMMA CountsServe ==
  ASSUME SchedTypes, CountsInv, QueueInv, NEW dir \in {"dl", "ul"}, NEW c, NEW rest, NEW ret, NEW g,
         ServedWith(dir, c, rest, ret, g)
  PROVE  SchedTypes' /\ CountsInv'
<1> DEFINE rbs == g.retx + g.newtx
<1>1. c \in CandType /\ CandOK(dir, c) /\ rbs \in Nat
  BY ServeEffect, Zenon
<1>2. /\ store_grant(dir, c, rbs) /\ slot' = slot /\ cfg' = cfg /\ phase' = phase
      /\ mail' = mail /\ slice_budgets_recved' = slice_budgets_recved
  BY DEF ServedWith, agentVars
<1> HIDE DEF rbs
<1>3. SchedTypes'
  <2>1. /\ pdsch_rb_count' \in [Slices -> Nat]
        /\ pusch_rb_count' \in [Slices -> [0 .. RingSize - 1 -> Nat]]
        /\ granted' \in [Slices -> [Slots -> Nat]]
    BY <1>1, <1>2, GrantStored, Zenon
  <2> QED
    BY <1>2, <2>1, Zenon DEF SchedTypes
<1>4. CASE dir = "dl"
  <2>1. pusch_rb_count' = pusch_rb_count /\ granted' = granted
    BY <1>2, <1>4 DEF store_grant
  <2> QED
    BY <1>2, <1>3, <2>1, Zenon DEF CountsInv, RingOK, LaterClear, Ahead
<1>5. CASE dir = "ul"
  <2> DEFINE i == c.slot % RingSize
  <2>1. PICK k0 \in MinK2 .. MaxK2 : c.slot = Ahead(k0)
    BY <1>1, <1>5 DEF CandOK
  <2>2. /\ \A s \in Slices, j \in 0 .. RingSize - 1 :
             pusch_rb_count'[s][j] = IF s = c.id /\ j = i
                                     THEN pusch_rb_count[s][j] + rbs ELSE pusch_rb_count[s][j]
        /\ \A s \in Slices, px \in Slots :
             granted'[s][px] = IF s = c.id /\ px = c.slot THEN granted[s][px] + rbs
                               ELSE granted[s][px]
    BY <1>1, <1>2, <1>5, UlStored, Zenon
  <2>3. slot \in Slots /\ k0 \in Int /\ c.id \in Slices /\ c.slot \in Slots
    BY <1>1, <2>1, Delays DEF SchedTypes, CandType
  <2>4. i = (slot + k0) % RingSize /\ i \in 0 .. RingSize - 1
    BY <2>1, <2>3, RingEntry, AheadType, Zenon
  <2> HIDE DEF i
  <2>5. ASSUME NEW s \in Slices, NEW k \in MinK2 .. MinK2 + RingSize - 1
        PROVE  pusch_rb_count'[s][(slot + k) % RingSize]
                 = IF k <= MaxK2 THEN granted'[s][Ahead(k)] ELSE 0
    <3> DEFINE j == (slot + k) % RingSize
               px == Ahead(k)
    <3>1. pusch_rb_count[s][j] = IF k <= MaxK2 THEN granted[s][px] ELSE 0
      BY Zenon DEF CountsInv, RingOK
    <3>2. k \in Int /\ k - k0 < RingSize /\ k0 - k < RingSize
      BY <2>1, Delays, Sizes
    <3>3. j \in 0 .. RingSize - 1 /\ px \in Slots
      BY <2>3, <3>2, AheadType, Zenon
    <3>4. k # k0 => j # i
      BY <2>3, <2>4, <3>2, AheadApart, Zenon
    <3>5. k # k0 /\ k <= MaxK2 => px # c.slot
      <4>1. k <= MaxK2 => k - k0 < NumSlots /\ k0 - k < NumSlots
        BY <2>1, <3>2, Delays, Sizes
      <4> QED
        BY <2>1, <2>3, <3>2, <4>1, AheadApart, Zenon
    <3>6. k = k0 => j = i /\ px = c.slot /\ k <= MaxK2
      BY <2>1, <2>4, Delays
    <3> HIDE DEF j, px
    <3>7. pusch_rb_count'[s][j] = IF s = c.id /\ j = i THEN pusch_rb_count[s][j] + rbs
                                  ELSE pusch_rb_count[s][j]
      BY <2>2, <3>3, Zenon
    <3>8. granted'[s][px] = IF s = c.id /\ px = c.slot THEN granted[s][px] + rbs
                            ELSE granted[s][px]
      BY <2>2, <3>3, Zenon
    <3>9. pusch_rb_count'[s][j] = IF k <= MaxK2 THEN granted'[s][px] ELSE 0
      BY <3>1, <3>4, <3>5, <3>6, <3>7, <3>8, Zenon
    <3> QED
      BY <3>9 DEF j, px
  <2>6. ASSUME NEW s \in Slices, NEW k \in MaxK2 + 1 .. NumSlots - 1
        PROVE  granted'[s][Ahead(k)] = 0
    <3>1. k \in Int /\ k # k0 /\ k - k0 < NumSlots /\ k0 - k < NumSlots
      BY <2>1, Delays, Sizes
    <3>2. Ahead(k) # c.slot
      BY <2>1, <2>3, <3>1, AheadApart, Zenon
    <3>3. Ahead(k) \in Slots
      BY <2>3, <3>1, AheadType, Zenon
    <3>4. granted[s][Ahead(k)] = 0
      BY Zenon DEF CountsInv, LaterClear
    <3> QED
      BY <2>2, <3>2, <3>3, <3>4, Zenon
  <2>7. CountsInv'
    <3>1. \A s \in Slices : RingOK(s)'
      BY <1>2, <2>5, Zenon DEF RingOK, Ahead
    <3>2. \A s \in Slices : LaterClear(s)'
      BY <1>2, <2>6, Zenon DEF LaterClear, Ahead
    <3> QED
      BY <3>1, <3>2, Zenon DEF CountsInv
  <2> QED
    BY <1>3, <2>7
<1> QED
  BY <1>4, <1>5
=============================================================================
