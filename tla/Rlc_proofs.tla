-------------------------------- MODULE Rlc_proofs --------------------------
(***************************************************************************)
(* Two components of the RLC AM entity whose threads share state without   *)
(* a lock: the SDU queue, and the exchange of status reports between the   *)
(* receiving and the transmitting side.                                    *)
(*                                                                         *)
(* For every capacity, word width, set of PDCP SNs and number of writes:   *)
(* check_and_release always finds the slot of the SDU it popped either     *)
(* holding that SDU or discarded.                                          *)
(*                                                                         *)
(* NoInvalidRelease alone is not inductive.  What makes it so is that a    *)
(* slot has one owner at a time: an SDU in the ring, the SDU the lower     *)
(* thread holds, or the SDU the upper thread is about to push.             *)
(***************************************************************************)
EXTENDS RlcSduQueue, RlcAmStatusExchange, TLAPS

(* The SDU in a thread's hands is a proper SDU where the thread uses it.   *)
HandsOK ==
  /\ upc \in {"slot", "push", "add"} => usdu \in Sdu
  /\ upc = "slot" => usdu.sn # NoSn
  /\ lpc \in Unreleased => lsdu \in Sdu /\ lsdu.sn # NoSn
  /\ lpc = "plain_sub" => lsdu \in Sdu

Owned(sn) == sdu_states[slot(sn)] \in {sn, STATE_DISCARDED}

(* An SDU in the ring owns its slot, and no two share one.                 *)
RingOwnsSlots ==
  /\ \A i \in 1 .. Len(queue) : queue[i].sn # NoSn => Owned(queue[i].sn)
  /\ \A i, j \in 1 .. Len(queue) :
       i # j /\ queue[i].sn # NoSn /\ queue[j].sn # NoSn
         => slot(queue[i].sn) # slot(queue[j].sn)

(* The popped SDU owns its slot until it is released.                      *)
LowerOwnsSlot ==
  lpc \in Unreleased =>
    /\ Owned(lsdu.sn)
    /\ \A i \in 1 .. Len(queue) :
         queue[i].sn # NoSn => slot(queue[i].sn) # slot(lsdu.sn)

(* The SDU about to be pushed owns its slot.                               *)
UpperOwnsSlot ==
  upc = "push" /\ usdu.sn # NoSn =>
    /\ sdu_states[slot(usdu.sn)] = usdu.sn
    /\ \A i \in 1 .. Len(queue) :
         queue[i].sn # NoSn => slot(queue[i].sn) # slot(usdu.sn)
    /\ lpc \in Unreleased => slot(lsdu.sn) # slot(usdu.sn)

IInv == TypeOK /\ HandsOK /\ RingOwnsSlots /\ LowerOwnsSlot /\ UpperOwnsSlot

LEMMA ModRange == \A x \in Int, n \in Nat \ {0} : x % n \in 0 .. (n - 1)
  OBVIOUS

(* The packed total stays a word under addition and subtraction.           *)
LEMMA TotalsRange ==
  ASSUME NEW st \in Int, NEW size \in Nat
  PROVE  /\ state_add(st, size) \in 0 .. (W * W - 1)
         /\ state_sub(st, size) \in 0 .. (W * W - 1)
  <1>1. W \in Nat \ {0} BY SduQueueAssumption
  <1>2. W * W \in Nat \ {0} BY <1>1
  <1> DEFINE m == W * W
  <1>3. m \in Nat \ {0} BY <1>2
  <1>4. st + W + size \in Int /\ st - (W + size) \in Int BY <1>1
  <1> HIDE DEF m
  <1>5. (st + W + size) % m \in 0 .. (m - 1) /\ (st - (W + size)) % m \in 0 .. (m - 1)
    BY <1>3, <1>4, ModRange, Zenon
  <1> QED BY <1>5 DEF m, state_add, state_sub

LEMMA AppendNat == \A s \in Seq(Nat), x \in Nat : Append(s, x) \in Seq(Nat)
  OBVIOUS

(* A slot index is a slot.                                                 *)
LEMMA SlotRange == ASSUME NEW sn \in Int PROVE slot(sn) \in Slots
  BY SduQueueAssumption, ModRange DEF slot, Slots

LEMMA SduFields ==
  /\ \A e \in Sdu \cup {NoSdu} : e.sn \in Int /\ e.id \in Nat /\ e.size \in Nat
  /\ \A e \in Sdu : e.sn # NoSn => e.sn \in PdcpSns
  /\ \A e \in Sdu : e.size \in Sizes
  <1>1. NoSn \in Int /\ PdcpSns \subseteq Nat /\ Sizes \subseteq Nat
    BY SduQueueAssumption DEF NoSn
  <1>2. ASSUME NEW e \in Sdu
        PROVE  /\ e.sn \in PdcpSns \cup {NoSn} /\ e.id \in Nat /\ e.size \in Sizes
    BY DEF Sdu
  <1>3. NoSdu.sn = NoSn /\ NoSdu.id = 0 /\ NoSdu.size = 0
    BY DEF NoSdu
  <1>4. ASSUME NEW e \in Sdu PROVE e.sn \in Int /\ e.id \in Nat /\ e.size \in Nat
    <2>1. e.sn \in PdcpSns \cup {NoSn} /\ e.id \in Nat /\ e.size \in Sizes
      BY DEF Sdu
    <2>2. \A x \in PdcpSns \cup {NoSn} : x \in Int
      BY <1>1
    <2>3. \A x \in Sizes : x \in Nat
      BY <1>1
    <2> QED BY <2>1, <2>2, <2>3, Zenon
  <1>5. NoSdu.sn \in Int /\ NoSdu.id \in Nat /\ NoSdu.size \in Nat
    BY <1>1, <1>3
  <1> QED BY <1>2, <1>4, <1>5

LEMMA SizesNat == \A x \in Sizes \cup {0} : x \in Nat
  BY SduQueueAssumption

LEMMA SnNotSentinel ==
  \A sn \in PdcpSns : sn # STATE_FREE /\ sn # STATE_DISCARDED /\ sn \in Nat
  BY SduQueueAssumption DEF STATE_FREE, STATE_DISCARDED

LEMMA SentinelsDiffer == STATE_FREE # STATE_DISCARDED
  BY SduQueueAssumption DEF STATE_FREE, STATE_DISCARDED

LEMMA InitIInv == Init => IInv
  <1> SUFFICES ASSUME Init PROVE IInv OBVIOUS
  <1>1. TypeOK
    <2>1. state \in 0 .. (W * W - 1)
      BY SduQueueAssumption, TotalsRange, (W * W) \in Nat \ {0} DEF Init
    <2> QED BY <2>1 DEF Init, TypeOK, Unreleased
  <1>2. HandsOK /\ RingOwnsSlots /\ LowerOwnsSlot /\ UpperOwnsSlot
    BY DEF Init, HandsOK, RingOwnsSlots, LowerOwnsSlot, UpperOwnsSlot, Unreleased
  <1> QED BY <1>1, <1>2 DEF IInv

(* Steps that touch neither the ring, the slots nor anything in hand.      *)
LEMMA StutterIInv == IInv /\ UNCHANGED vars => IInv'
  BY DEF IInv, vars, upperVars, lowerVars, ghostVars, TypeOK, HandsOK, Owned,
         RingOwnsSlots, LowerOwnsSlot, UpperOwnsSlot

LEMMA UpperIInv == IInv /\ Upper => IInv'
  <1> SUFFICES ASSUME IInv, Upper PROVE IInv' OBVIOUS
  <1> USE DEF IInv
  <1>1. ASSUME NEW sn \in PdcpSns \cup {NoSn}, NEW size \in Sizes, WriteCheckLimit(sn, size)
        PROVE  IInv'
    <2> DEFINE e == [id |-> written + 1, sn |-> sn, size |-> size]
    <2>1. e \in Sdu /\ e.sn = sn
      BY DEF Sdu, TypeOK
    <2>2. TypeOK'
      BY <1>1, <2>1 DEF WriteCheckLimit, TypeOK, upperVars, lowerVars
    <2>3. HandsOK'
      BY <1>1, <2>1 DEF WriteCheckLimit, HandsOK, upperVars, lowerVars
    <2>4. RingOwnsSlots' /\ LowerOwnsSlot'
      BY <1>1 DEF WriteCheckLimit, RingOwnsSlots, LowerOwnsSlot, Owned, lowerVars
    <2>5. UpperOwnsSlot'
      BY <1>1, <2>1 DEF WriteCheckLimit, UpperOwnsSlot, upperVars, lowerVars
    <2> QED BY <2>2, <2>3, <2>4, <2>5
  <1>2. CASE WriteTakeSlot
    <2>1. /\ usdu \in Sdu /\ usdu.sn # NoSn /\ usdu.sn \in PdcpSns /\ usdu.size \in Sizes
          /\ slot(usdu.sn) \in Slots
      BY <1>2, SduFields, SlotRange DEF WriteTakeSlot, HandsOK
    <2>2. TypeOK'
      BY <1>2, <2>1, Zenon DEF WriteTakeSlot, TypeOK, lowerVars, ghostVars
    <2>3. HandsOK'
      BY <1>2, <2>1 DEF WriteTakeSlot, HandsOK, lowerVars
    <2>4. CASE ~SlotIsFree(usdu.sn)
      BY <1>2, <2>2, <2>3, <2>4
      DEF WriteTakeSlot, RingOwnsSlots, LowerOwnsSlot, UpperOwnsSlot, Owned, lowerVars
    <2>5. CASE SlotIsFree(usdu.sn)
      <3> DEFINE s == slot(usdu.sn)
      <3>1. /\ sdu_states[s] = STATE_FREE
            /\ sdu_states' = [sdu_states EXCEPT ![s] = usdu.sn]
            /\ UNCHANGED <<queue, usdu, lpc, lsdu>>
        BY <1>2, <2>5 DEF WriteTakeSlot, SlotIsFree, lowerVars
      <3>2. \A sn \in PdcpSns : Owned(sn) => slot(sn) # s
        BY <3>1, SnNotSentinel, SentinelsDiffer DEF Owned
      <3>3. \A i \in 1 .. Len(queue) : queue[i].sn # NoSn => slot(queue[i].sn) # s
        BY <3>2, SduFields DEF RingOwnsSlots, TypeOK
      <3>4. lpc \in Unreleased => slot(lsdu.sn) # s
        BY <3>2, SduFields DEF LowerOwnsSlot, HandsOK
      <3>5. \A t \in Slots : t # s => sdu_states'[t] = sdu_states[t]
        BY <3>1 DEF TypeOK
      <3>6. sdu_states'[s] = usdu.sn
        BY <2>1, <3>1 DEF TypeOK
      <3>7. RingOwnsSlots'
        BY <3>1, <3>3, <3>5, SduFields, SlotRange DEF RingOwnsSlots, Owned, TypeOK
      <3>8. LowerOwnsSlot'
        BY <3>1, <3>4, <3>5, SduFields, SlotRange DEF LowerOwnsSlot, Owned, HandsOK
      <3>9. UpperOwnsSlot'
        BY <3>1, <3>3, <3>4, <3>6 DEF UpperOwnsSlot
      <3> QED BY <2>2, <2>3, <3>7, <3>8, <3>9
    <2> QED BY <2>4, <2>5
  <1>3. CASE WritePush
    <2>1. usdu \in Sdu /\ slot(usdu.sn) \in Slots /\ usdu.id \in Nat
      BY <1>3, SduFields, SlotRange DEF WritePush, HandsOK
    <2>2. HandsOK'
      BY <1>3, <2>1 DEF WritePush, HandsOK, lowerVars
    <2>3. CASE Len(queue) < Capacity
      <3>1. /\ queue' = Append(queue, usdu) /\ upc' = "add"
            /\ UNCHANGED <<sdu_states, lpc, lsdu>>
        BY <1>3, <2>3 DEF WritePush, lowerVars
      <3>2. /\ Len(queue') = Len(queue) + 1 /\ queue' \in Seq(Sdu)
            /\ \A i \in 1 .. Len(queue') :
                 queue'[i] = IF i = Len(queue) + 1 THEN usdu ELSE queue[i]
        BY <2>1, <3>1 DEF TypeOK
      <3>3. TypeOK'
        BY <1>3, <2>1, <2>3, <3>1, <3>2, Zenon DEF WritePush, TypeOK, lowerVars
      <3>4. RingOwnsSlots'
        <4>1. Len(queue) \in Nat BY DEF TypeOK
        <4>2. usdu.sn # NoSn =>
                /\ sdu_states[slot(usdu.sn)] = usdu.sn
                /\ \A i \in 1 .. Len(queue) :
                     queue[i].sn # NoSn => slot(queue[i].sn) # slot(usdu.sn)
          BY <1>3 DEF WritePush, UpperOwnsSlot
        <4>3. \A i \in 1 .. Len(queue') : i \in 1 .. Len(queue) \/ i = Len(queue) + 1
          BY <3>2, <4>1
        <4>4. /\ \A i \in 1 .. Len(queue) : queue'[i] = queue[i]
              /\ queue'[Len(queue) + 1] = usdu
          BY <3>2, <4>1
        <4>5. \A i \in 1 .. Len(queue') : queue'[i].sn # NoSn =>
                sdu_states'[slot(queue'[i].sn)] \in {queue'[i].sn, STATE_DISCARDED}
          BY <3>1, <4>2, <4>3, <4>4 DEF RingOwnsSlots, Owned
        <4>6. \A i, j \in 1 .. Len(queue') :
                i # j /\ queue'[i].sn # NoSn /\ queue'[j].sn # NoSn
                => slot(queue'[i].sn) # slot(queue'[j].sn)
          BY <4>2, <4>3, <4>4 DEF RingOwnsSlots
        <4> QED BY <4>5, <4>6 DEF RingOwnsSlots, Owned
      <3>5. LowerOwnsSlot'
        BY <1>3, <3>1, <3>2 DEF WritePush, LowerOwnsSlot, UpperOwnsSlot, Owned, TypeOK
      <3>6. UpperOwnsSlot'
        BY <3>1 DEF UpperOwnsSlot
      <3> QED BY <2>2, <3>3, <3>4, <3>5, <3>6
    <2>4. CASE ~(Len(queue) < Capacity)
      <3>1. /\ sdu_states' = IF usdu.sn = NoSn THEN sdu_states
                             ELSE [sdu_states EXCEPT ![slot(usdu.sn)] = STATE_FREE]
            /\ upc' = "idle" /\ UNCHANGED <<queue, lpc, lsdu>>
        BY <1>3, <2>4 DEF WritePush, lowerVars
      <3>2. TypeOK'
        BY <1>3, <2>1, <2>4, <3>1, Zenon DEF WritePush, TypeOK, lowerVars
      <3>3. \A t \in Slots : usdu.sn = NoSn \/ t # slot(usdu.sn) => sdu_states'[t] = sdu_states[t]
        BY <2>1, <3>1 DEF TypeOK
      <3>4. RingOwnsSlots'
        <4>1. \A i \in 1 .. Len(queue) : queue[i].sn # NoSn => slot(queue[i].sn) \in Slots
          BY SduFields, SlotRange DEF TypeOK
        <4>2. \A i \in 1 .. Len(queue) : queue[i].sn # NoSn =>
                sdu_states'[slot(queue[i].sn)] = sdu_states[slot(queue[i].sn)]
          BY <1>3, <3>3, <4>1 DEF WritePush, UpperOwnsSlot
        <4> QED BY <3>1, <4>2 DEF RingOwnsSlots, Owned
      <3>5. LowerOwnsSlot'
        BY <1>3, <3>1, <3>3, SduFields, SlotRange
        DEF WritePush, LowerOwnsSlot, UpperOwnsSlot, Owned, HandsOK
      <3>6. UpperOwnsSlot'
        BY <3>1 DEF UpperOwnsSlot
      <3> QED BY <2>2, <3>2, <3>4, <3>5, <3>6
    <2> QED BY <2>3, <2>4
  <1>4. CASE WriteAddTotals
    <2>1. usdu.size \in Nat /\ state \in Int
      BY <1>4, SduFields DEF TypeOK
    <2>2. TypeOK'
      BY <1>4, <2>1, TotalsRange, Zenon DEF WriteAddTotals, TypeOK, lowerVars, ghostVars
    <2>3. HandsOK' /\ RingOwnsSlots' /\ LowerOwnsSlot' /\ UpperOwnsSlot'
      BY <1>4 DEF WriteAddTotals, HandsOK, RingOwnsSlots, LowerOwnsSlot, UpperOwnsSlot,
                  Owned, lowerVars
    <2> QED BY <2>2, <2>3
  <1>5. ASSUME NEW sn \in PdcpSns, DiscardCas(sn)
        PROVE  IInv'
    <2>1. sn \in Int /\ slot(sn) \in Slots
      BY SnNotSentinel, SlotRange
    <2>2. PICK e \in Held : discarded' = discarded \cup {e.id} /\ usdu' = e
      BY <1>5 DEF DiscardCas
    <2>3. e \in Sdu \cup {NoSdu} /\ e.id \in Nat
      BY <2>2, SduFields DEF Held, TypeOK
    <2>4. TypeOK'
      BY <1>5, <2>1, <2>2, <2>3, Zenon DEF DiscardCas, TypeOK, lowerVars
    <2>5. HandsOK'
      BY <1>5 DEF DiscardCas, HandsOK, lowerVars
    <2>6. /\ sdu_states' = [sdu_states EXCEPT ![slot(sn)] = STATE_DISCARDED]
          /\ UNCHANGED <<queue, lpc, lsdu>> /\ upc' = "discard_sub"
      BY <1>5 DEF DiscardCas, lowerVars
    <2>7. \A t \in Slots : sdu_states'[t] \in {sdu_states[t], STATE_DISCARDED}
      BY <2>1, <2>6 DEF TypeOK
    <2>8. RingOwnsSlots'
      BY <2>6, <2>7, SduFields, SlotRange DEF RingOwnsSlots, Owned, TypeOK
    <2>9. LowerOwnsSlot'
      BY <2>6, <2>7, SduFields, SlotRange DEF LowerOwnsSlot, Owned, HandsOK
    <2>10. UpperOwnsSlot'
      BY <2>6 DEF UpperOwnsSlot
    <2> QED BY <2>4, <2>5, <2>8, <2>9, <2>10
  <1>6. CASE DiscardSubTotals
    <2>1. sdu_sizes[slot(usdu.sn)] \in Nat /\ state \in Int
      <3>1. slot(usdu.sn) \in Slots
        BY SduFields, SlotRange DEF TypeOK
      <3>2. sdu_sizes[slot(usdu.sn)] \in Sizes \cup {0}
        BY <3>1 DEF TypeOK
      <3> QED BY <3>2, SizesNat DEF TypeOK
    <2>2. TypeOK'
      BY <1>6, <2>1, TotalsRange, Zenon DEF DiscardSubTotals, TypeOK, lowerVars, ghostVars
    <2>3. HandsOK' /\ RingOwnsSlots' /\ LowerOwnsSlot' /\ UpperOwnsSlot'
      BY <1>6 DEF DiscardSubTotals, HandsOK, RingOwnsSlots, LowerOwnsSlot, UpperOwnsSlot,
                  Owned, lowerVars
    <2> QED BY <2>2, <2>3
  <1> QED BY <1>1, <1>2, <1>3, <1>4, <1>5, <1>6 DEF Upper

(* Popping the head hands its slot over to the lower thread.               *)
LEMMA PopIInv ==
  ASSUME IInv, queue # <<>>, lpc \in {"read", "front"},
         queue' = Tail(queue), lsdu' = Head(queue),
         UNCHANGED <<sdu_states, sdu_sizes, state, upc, usdu, lsize,
                     written, accepted, delivered, discarded>>,
         \/ lpc' \in {"read_size", "front_size"} /\ Head(queue).sn # NoSn
         \/ lpc' = "plain_sub" /\ Head(queue).sn = NoSn
  PROVE  IInv'
  <1> USE DEF IInv
  <1>1. /\ Head(queue) = queue[1] /\ Head(queue) \in Sdu
        /\ Len(queue) \in Nat \ {0} /\ queue' \in Seq(Sdu) /\ Len(queue') = Len(queue) - 1
        /\ \A i \in 1 .. Len(queue') : queue'[i] = queue[i + 1] /\ i + 1 \in 2 .. Len(queue)
    BY DEF TypeOK
  <1>2. TypeOK'
    BY <1>1 DEF TypeOK, Unreleased
  <1>3. HandsOK'
    BY <1>1 DEF HandsOK, Unreleased
  <1>4. RingOwnsSlots'
    BY <1>1, SMTT(30) DEF RingOwnsSlots, Owned
  <1>5. LowerOwnsSlot'
    BY <1>1 DEF LowerOwnsSlot, RingOwnsSlots, Owned, Unreleased
  <1>6. UpperOwnsSlot'
    BY <1>1 DEF UpperOwnsSlot, Unreleased
  <1> QED BY <1>2, <1>3, <1>4, <1>5, <1>6

LEMMA LowerIInv == IInv /\ Lower => IInv'
  <1> SUFFICES ASSUME IInv, Lower PROVE IInv' OBVIOUS
  <1> USE DEF IInv
  <1>0. NoSdu \in Sdu \cup {NoSdu} OBVIOUS
  <1>1. CASE ReadCall \/ FrontCall
    BY <1>1, Zenon DEF ReadCall, FrontCall, TypeOK, HandsOK, RingOwnsSlots, LowerOwnsSlot,
                UpperOwnsSlot, Owned, Unreleased, upperVars, ghostVars
  <1>2. CASE ReadPop
    <2>1. CASE queue = <<>>
      BY <1>2, <2>1 DEF ReadPop, TypeOK, HandsOK, RingOwnsSlots, LowerOwnsSlot,
                  UpperOwnsSlot, Owned, Unreleased, upperVars, ghostVars
    <2>2. CASE queue # <<>>
      BY <1>2, <2>2, PopIInv DEF ReadPop, upperVars, ghostVars
    <2> QED BY <2>1, <2>2
  <1>3. CASE ReadPlain
    <2>1. lsdu.size \in Nat /\ state \in Int /\ lsdu.id \in Nat
      BY SduFields DEF TypeOK
    <2>2. state' \in 0 .. (W * W - 1)
      BY <1>3, <2>1, TotalsRange, Zenon DEF ReadPlain
    <2>3. delivered' \in Seq(Nat)
      BY <1>3, <2>1, AppendNat DEF ReadPlain, TypeOK
    <2>4. TypeOK'
      BY <1>3, <2>2, <2>3 DEF ReadPlain, TypeOK, upperVars
    <2>5. HandsOK' /\ RingOwnsSlots' /\ LowerOwnsSlot' /\ UpperOwnsSlot'
      BY <1>3 DEF ReadPlain, HandsOK, RingOwnsSlots, LowerOwnsSlot, UpperOwnsSlot,
                  Owned, Unreleased, upperVars
    <2> QED BY <2>4, <2>5
  <1>4. CASE FrontCheck
    <2>1. CASE queue = <<>> \/ Head(queue).sn = NoSn \/ check(Head(queue).sn)
      BY <1>4, <2>1, Zenon DEF FrontCheck, TypeOK, HandsOK, RingOwnsSlots, LowerOwnsSlot,
                  UpperOwnsSlot, Owned, Unreleased, upperVars, ghostVars
    <2>2. CASE ~(queue = <<>> \/ Head(queue).sn = NoSn \/ check(Head(queue).sn))
      BY <1>4, <2>2, PopIInv, Zenon DEF FrontCheck, upperVars, ghostVars
    <2> QED BY <2>1, <2>2, Zenon
  <1>5. CASE ReleaseLoadSize
    <2>1. slot(lsdu.sn) \in Slots
      BY SduFields, SlotRange DEF TypeOK
    <2>2. TypeOK'
      BY <1>5, <2>1, SMTT(30) DEF ReleaseLoadSize, TypeOK, Unreleased, upperVars, ghostVars
    <2>3. HandsOK' /\ RingOwnsSlots' /\ LowerOwnsSlot' /\ UpperOwnsSlot'
      BY <1>5, Zenon DEF ReleaseLoadSize, HandsOK, RingOwnsSlots, LowerOwnsSlot, UpperOwnsSlot,
                  Owned, Unreleased, upperVars
    <2> QED BY <2>2, <2>3
  <1>6. CASE ReleaseExchange
    <2>1. /\ lpc \in Unreleased /\ lsdu \in Sdu /\ lsdu.sn # NoSn
          /\ slot(lsdu.sn) \in Slots /\ lsdu.id \in Nat
      BY <1>6, SduFields, SlotRange DEF ReleaseExchange, Unreleased, HandsOK
    <2>2. /\ sdu_states' = [sdu_states EXCEPT ![slot(lsdu.sn)] = STATE_FREE]
          /\ UNCHANGED <<queue, upc, usdu>> /\ lsdu' \in {lsdu, NoSdu}
          /\ delivered' \in {delivered, Append(delivered, lsdu.id)}
          /\ lpc' \in {"valid_sub", "read", "front", "read_error_sub", "front_error_sub"}
      BY <1>6 DEF ReleaseExchange, ReleaseOutcome, upperVars
    <2>3. delivered' \in Seq(Nat)
      BY <2>1, <2>2, AppendNat, Zenon DEF TypeOK
    <2>4. TypeOK'
      BY <1>6, <2>1, <2>2, <2>3, Zenon DEF ReleaseExchange, TypeOK, Unreleased, upperVars
    <2>5. lpc' \notin Unreleased /\ lpc' # "plain_sub"
      BY <2>2 DEF Unreleased
    <2>6. \A t \in Slots : t # slot(lsdu.sn) => sdu_states'[t] = sdu_states[t]
      BY <2>1, <2>2 DEF TypeOK
    <2>7. RingOwnsSlots'
      <3>1. \A i \in 1 .. Len(queue) : queue[i].sn # NoSn => slot(queue[i].sn) \in Slots
        BY SduFields, SlotRange DEF TypeOK
      <3>2. \A i \in 1 .. Len(queue) : queue[i].sn # NoSn =>
              sdu_states'[slot(queue[i].sn)] = sdu_states[slot(queue[i].sn)]
        BY <2>1, <2>6, <3>1 DEF LowerOwnsSlot
      <3> QED BY <2>2, <3>2 DEF RingOwnsSlots, Owned
    <2>8. UpperOwnsSlot'
      <3>1. slot(usdu.sn) \in Slots
        BY SduFields, SlotRange DEF TypeOK
      <3> QED BY <2>1, <2>2, <2>5, <2>6, <3>1, Zenon DEF UpperOwnsSlot
    <2>9. HandsOK' /\ LowerOwnsSlot'
      BY <2>2, <2>5 DEF HandsOK, LowerOwnsSlot
    <2> QED BY <2>4, <2>7, <2>8, <2>9
  <1>7. CASE ReleaseSubTotals
    <2>1. lsize \in Nat /\ state \in Int
      BY SizesNat DEF TypeOK
    <2>2. lpc' \in {"idle", "read", "front"}
      BY <1>7 DEF ReleaseSubTotals
    <2>3. TypeOK'
      BY <1>7, <2>1, <2>2, TotalsRange DEF ReleaseSubTotals, TypeOK, upperVars, ghostVars
    <2>4. HandsOK' /\ RingOwnsSlots' /\ LowerOwnsSlot' /\ UpperOwnsSlot'
      BY <1>7, <2>2 DEF ReleaseSubTotals, HandsOK, RingOwnsSlots, LowerOwnsSlot,
                  UpperOwnsSlot, Owned, Unreleased, upperVars
    <2> QED BY <2>3, <2>4
  <1> QED BY <1>1, <1>2, <1>3, <1>4, <1>5, <1>6, <1>7 DEF Lower

LEMMA SpecIInv == Spec => []IInv
  <1>1. IInv /\ [Next]_vars => IInv'
    BY UpperIInv, LowerIInv, StutterIInv DEF Next
  <1> QED BY InitIInv, <1>1, PTL DEF Spec

(* check_and_release never finds the slot of the SDU it popped already     *)
(* free or taken by another PDCP SN, for every capacity and interleaving.  *)
THEOREM ReleaseIsValid == Spec => []NoInvalidRelease
  <1>1. IInv => NoInvalidRelease
    BY DEF IInv, LowerOwnsSlot, Owned, NoInvalidRelease
  <1> QED BY SpecIInv, <1>1, PTL

-----------------------------------------------------------------------------
(***************************************************************************)
(* The exchange of status reports between the two executors, for any        *)
(* number of changes of the receiver state.                                 *)
(*                                                                          *)
(* What the flags say rests on two things the code takes for granted: defer *)
(* on an executor does not fail, and t-StatusProhibit does not expire       *)
(* before get_status_pdu, which starts it, has returned.  The theorems that *)
(* need them name them as hypotheses.                                       *)
(***************************************************************************)
(* The three buffers have one owner each: the UE executor never builds a    *)
(* report in the buffer the cell executor reads, nor in the one it will     *)
(* take (store_status_report, get_status_report).                           *)
BuffersAreOwnedOnce ==
  /\ {owned_by_writer, for_exchange, owned_by_reader} = Buffers
  /\ owned_by_writer # for_exchange
  /\ owned_by_reader \notin {owned_by_writer, for_exchange}

LEMMA BuffersInit == ExchangeInit => BuffersAreOwnedOnce
  BY DEF ExchangeInit, BuffersAreOwnedOnce, Buffers

LEMMA BuffersStep == BuffersAreOwnedOnce /\ [ExchangeNext]_exchangeVars => BuffersAreOwnedOnce'
<1> SUFFICES ASSUME BuffersAreOwnedOnce, [ExchangeNext]_exchangeVars PROVE BuffersAreOwnedOnce'
  OBVIOUS
<1>1. CASE UNCHANGED <<owned_by_writer, for_exchange, owned_by_reader>>
  BY <1>1 DEF BuffersAreOwnedOnce
<1>2. CASE StoreStatusReport
  BY <1>2 DEF BuffersAreOwnedOnce, StoreStatusReport, offered
<1>3. CASE TakeReport
  BY <1>3 DEF BuffersAreOwnedOnce, TakeReport
<1>4. ASSUME NEW request \in BOOLEAN, Refresh(request) PROVE BuffersAreOwnedOnce'
  BY <1>1, <1>4 DEF Refresh
<1>5. CASE UeStep
  BY <1>1, <1>2, <1>5 DEF UeStep, buffers, RequestStatus, NotifyLoadDoStatus,
     NotifyLoadProhibit, HandleChangedBufferState, RunProhibitTimer, ExpireProhibitTimer
<1>6. CASE CellStep
  BY <1>1, <1>3, <1>6 DEF CellStep, buffers, UpdateMacBufferState,
     GetBufferStateLoadDoStatus, GetBufferStateLoadProhibit, PullPdu, PullLoadProhibit,
     ClearDoStatus, DeferProhibitTimer, SetProhibitFlag
<1>7. CASE PullPdu
  BY <1>1, <1>7 DEF PullPdu, buffers
<1>8. CASE UNCHANGED exchangeVars
  BY <1>1, <1>8 DEF exchangeVars, buffers
<1> QED
  BY <1>4, <1>5, <1>6, <1>7, <1>8 DEF ExchangeNext

(* No buffer is ever written by one executor and read by the other at the   *)
(* same time, whatever the order in which store_status_report and           *)
(* get_status_report exchange theirs, and whether or not defer fails or the *)
(* timer overtakes.                                                         *)
THEOREM NoSharedBuffer == ExchangeSpec => []BuffersAreOwnedOnce
  BY BuffersInit, BuffersStep, PTL DEF ExchangeSpec

-----------------------------------------------------------------------------
(* A buffer state update that is suppressed because one is pending relies   *)
(* on that one being queued (handle_changed_buffer_state).                  *)
PendingIsQueued == pending_buffer_state => bs_task

(* get_status_pdu sets the flag after it deferred the start of the timer,   *)
(* and in between the timer cannot come to its end.                         *)
FlagOK ==
  /\ ProhibitFlagMeansTimer
  /\ pc = "prohibit" => prohibit_task \/ prohibit_timer

(* Who will look at a request: the UE executor that has yet to announce it, *)
(* the end of t-StatusProhibit, the queued update, the MAC, or the cell     *)
(* executor that has yet to read do_status.                                 *)
LookedAt ==
  \/ ue_pc \in {"notify", "notify_prohibit", "changed"}
  \/ prohibit_flag \/ bs_task \/ mac_bytes
  \/ pc \in {"state", "state_prohibit", "pull_prohibit", "get"}

ExchangeInv == FlagOK /\ PendingIsQueued /\ (do_status => LookedAt)

LEMMA ExchangeInvInit == ExchangeInit => ExchangeInv
  BY DEF ExchangeInit, ExchangeInv, FlagOK, ProhibitFlagMeansTimer, PendingIsQueued

LEMMA ExchangeUeStep ==
  ASSUME ExchangeInv, UeStep, ~DeferMayFail, ~TimerMayOvertake
  PROVE  ExchangeInv'
<1> USE DEF ExchangeInv, FlagOK, ProhibitFlagMeansTimer, PendingIsQueued, LookedAt, flags,
            notice
<1>1. CASE StoreStatusReport
  BY <1>1 DEF StoreStatusReport
<1>2. CASE RequestStatus
  BY <1>2 DEF RequestStatus
<1>3. CASE NotifyLoadDoStatus
  BY <1>3 DEF NotifyLoadDoStatus
<1>4. CASE NotifyLoadProhibit
  BY <1>4 DEF NotifyLoadProhibit
<1>5. CASE HandleChangedBufferState
  BY <1>5, Zenon DEF HandleChangedBufferState, defer
<1>6. CASE RunProhibitTimer
  BY <1>6 DEF RunProhibitTimer
<1>7. CASE ExpireProhibitTimer
  BY <1>7 DEF ExpireProhibitTimer, flag_after_expiry, after_prohibit
<1> QED
  BY <1>1, <1>2, <1>3, <1>4, <1>5, <1>6, <1>7 DEF UeStep

LEMMA ExchangePull ==
  ASSUME ExchangeInv, PullPdu
  PROVE  ExchangeInv'
  BY Zenon DEF PullPdu, ExchangeInv, FlagOK, ProhibitFlagMeansTimer, PendingIsQueued, LookedAt,
         flags, notice, ue

LEMMA ExchangeCellStep ==
  ASSUME ExchangeInv, CellStep, ~DeferMayFail
  PROVE  ExchangeInv'
<1> USE DEF ExchangeInv, FlagOK, ProhibitFlagMeansTimer, PendingIsQueued, LookedAt, flags,
            notice, ue
<1>1. CASE UpdateMacBufferState
  BY <1>1 DEF UpdateMacBufferState
<1>2. CASE GetBufferStateLoadDoStatus
  BY <1>2 DEF GetBufferStateLoadDoStatus
<1>3. CASE GetBufferStateLoadProhibit
  BY <1>3, Zenon DEF GetBufferStateLoadProhibit
<1>4. CASE PullPdu
  BY <1>4, ExchangePull
<1>5. ASSUME NEW small \in BOOLEAN, PullLoadProhibit(small) PROVE ExchangeInv'
  BY <1>5 DEF PullLoadProhibit
<1>6. CASE ClearDoStatus
  BY <1>6 DEF ClearDoStatus
<1>7. CASE DeferProhibitTimer
  BY <1>7 DEF DeferProhibitTimer, defer
<1>8. CASE SetProhibitFlag
  BY <1>8 DEF SetProhibitFlag
<1>9. CASE TakeReport
  BY <1>9 DEF TakeReport
<1> QED
  BY <1>1, <1>2, <1>3, <1>4, <1>5, <1>6, <1>7, <1>8, <1>9, Zenon DEF CellStep

LEMMA ExchangeInvStep ==
  ASSUME ~DeferMayFail, ~TimerMayOvertake
  PROVE  ExchangeInv /\ [ExchangeNext]_exchangeVars => ExchangeInv'
<1> SUFFICES ASSUME ExchangeInv, [ExchangeNext]_exchangeVars PROVE ExchangeInv'
  OBVIOUS
<1>1. ASSUME NEW request \in BOOLEAN, Refresh(request) PROVE ExchangeInv'
  BY <1>1 DEF Refresh, ExchangeInv, FlagOK, ProhibitFlagMeansTimer, PendingIsQueued,
     LookedAt, flags, notice
<1>2. CASE UNCHANGED exchangeVars
  BY <1>2 DEF exchangeVars, ExchangeInv, FlagOK, ProhibitFlagMeansTimer, PendingIsQueued,
     LookedAt, flags, notice, ue
<1> QED
  BY <1>1, <1>2, ExchangeUeStep, ExchangeCellStep, ExchangePull DEF ExchangeNext

(* status_prohibit_timer_is_running tells the truth: while it is set,       *)
(* t-StatusProhibit runs or its start is queued on the UE executor, so the  *)
(* flag is cleared again and no request for a report is held back for good. *)
THEOREM ProhibitFlagCorrect ==
  ASSUME ~DeferMayFail, ~TimerMayOvertake
  PROVE  ExchangeSpec => []ProhibitFlagMeansTimer
<1>1. ExchangeInv => ProhibitFlagMeansTimer
  BY DEF ExchangeInv, FlagOK
<1> QED
  BY <1>1, ExchangeInvInit, ExchangeInvStep, PTL DEF ExchangeSpec

(* No request for a status report falls between the two executors: with     *)
(* both at rest and do_status set, somebody is bound to come back to it,    *)
(* although each of them reads do_status and the flag one after the other,  *)
(* updates are suppressed, and a pull may end without a report.             *)
THEOREM NoRequestIsForgotten ==
  ASSUME ~DeferMayFail, ~TimerMayOvertake
  PROVE  ExchangeSpec => []RequestIsAnnounced
<1>1. ExchangeInv => RequestIsAnnounced
  BY DEF ExchangeInv, FlagOK, ProhibitFlagMeansTimer, LookedAt, RequestIsAnnounced
<1> QED
  BY <1>1, ExchangeInvInit, ExchangeInvStep, PTL DEF ExchangeSpec
=============================================================================
