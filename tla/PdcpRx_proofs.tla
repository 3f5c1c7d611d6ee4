---------------------------- MODULE PdcpRx_proofs ----------------------------
(***************************************************************************)
(* The reception window and t-Reordering of the receiving PDCP entities,   *)
(* and the order of delivery across changes of the key, for any number of  *)
(* bearers, keys and PDUs in processing and any size of the sequence       *)
(* number.                                                                 *)
(***************************************************************************)
EXTENDS PdcpRx, NumberLemmas, TLAPS

(* A COUNT less than half of the sequence numbers away from the one the    *)
(* entity expects is inferred from its sequence number.                    *)
LEMMA InferCountExact ==
  ASSUME NEW c \in 0..(CountMod - 1), NEW low \in Nat,
         low - window_size <= c, c < low + window_size
  PROVE  InferCount(SN(c), low) = c
<1>1. /\ SnCard \in Nat \ {0} /\ window_size \in Nat /\ SnCard = 2 * window_size
      /\ CountMod \in Nat \ {0}
  <2>1. SnCard \in Nat \ {0} /\ SnCard % 2 = 0 /\ CountMod \in Nat \ {0}
    BY PdcpSnAssumption
  <2> QED
    BY <2>1 DEF window_size
<1>2. c % CountMod = c
  BY <1>1, SmallMod
<1> QED
  BY <1>1, <1>2, NearQuotient DEF InferCount, COUNT, HFN, SN

-----------------------------------------------------------------------------
(* The window of one entity                                                *)

Sdus == [count : Nat, key : Nat]
Windows == UNION {[S -> Sdus] : S \in SUBSET Nat}
Entities == [rx_next : Nat, rx_deliv : Nat, rx_reord : Nat, window : Windows,
             reordering : BOOLEAN]

LEMMA WindowType ==
  ASSUME NEW w \in Windows
  PROVE  /\ DOMAIN w \subseteq Nat
         /\ \A c \in DOMAIN w : w[c] \in Sdus
         /\ w = [c \in DOMAIN w |-> w[c]]
<1>1. PICK S \in SUBSET Nat : w \in [S -> Sdus]
  BY DEF Windows
<1> QED
  BY <1>1

LEMMA WindowTyped ==
  ASSUME NEW S \in SUBSET Nat, NEW w \in [S -> Sdus]
  PROVE  w \in Windows
  BY DEF Windows

(* What holds of an entity at any time, also between two calls of a        *)
(* handler: the window lies between RX_DELIV and RX_NEXT.                  *)
EntityOK(e) ==
  /\ e \in Entities
  /\ e.rx_deliv <= e.rx_next
  /\ DOMAIN e.window \subseteq e.rx_deliv..(e.rx_next - 1)

(* f is e after RX_DELIV moved on: what it passed is delivered, the rest   *)
(* stays.                                                                  *)
Moves(e, f) ==
  /\ EntityOK(f)
  /\ e.rx_deliv <= f.rx_deliv /\ f.rx_next = e.rx_next
  /\ DOMAIN f.window = {c \in DOMAIN e.window : f.rx_deliv <= c}
  /\ \A c \in DOMAIN f.window : f.window[c] = e.window[c]

LEMMA MovesTransitive ==
  ASSUME NEW e, NEW f, NEW g, EntityOK(e), Moves(e, f), Moves(f, g)
  PROVE  Moves(e, g)
  BY DEF Moves, EntityOK, Entities

LEMMA AdvanceMoves ==
  ASSUME NEW e, EntityOK(e), NEW count \in e.rx_deliv..e.rx_next
  PROVE  LET f == AdvanceTo(e, count)
         IN  /\ Moves(e, f)
             /\ f.rx_deliv = count /\ f.rx_reord = e.rx_reord /\ f.reordering = e.reordering
<1> DEFINE f == AdvanceTo(e, count)
           left == DOMAIN e.window \ (e.rx_deliv..(count - 1))
           w == [c \in left |-> e.window[c]]
<1>1. e \in Entities /\ e.window \in Windows /\ e.rx_deliv \in Nat /\ e.rx_next \in Nat /\ count \in Nat
  BY DEF EntityOK, Entities
<1>2. DOMAIN e.window \subseteq Nat /\ \A c \in DOMAIN e.window : e.window[c] \in Sdus
  BY <1>1, WindowType
<1>3. w \in Windows
  <2>1. w \in [left -> Sdus] /\ left \in SUBSET Nat
    BY <1>2
  <2> QED
    BY <2>1, WindowTyped
<1>4. left = {c \in DOMAIN e.window : count <= c}
  <2>1. \A c \in DOMAIN e.window : e.rx_deliv <= c /\ c \in Nat
    BY <1>1, <1>2 DEF EntityOK
  <2> QED
    BY <1>1, <2>1
<1>5. f = [e EXCEPT !.rx_deliv = count, !.window = w]
  BY DEF AdvanceTo, Restrict
<1> HIDE DEF w, f
<1>6. /\ f \in Entities /\ f.rx_deliv = count /\ f.rx_next = e.rx_next /\ f.window = w
      /\ f.rx_reord = e.rx_reord /\ f.reordering = e.reordering
  BY <1>1, <1>3, <1>5, Zenon DEF Entities
<1>7. DOMAIN w = left /\ \A c \in left : w[c] = e.window[c]
  BY DEF w
<1>8. EntityOK(f)
  <2>1. DOMAIN w \subseteq count..(e.rx_next - 1)
    BY <1>1, <1>2, <1>4, <1>7 DEF EntityOK
  <2> QED
    BY <1>1, <1>6, <2>1 DEF EntityOK
<1>9. Moves(e, f)
  BY <1>1, <1>4, <1>6, <1>7, <1>8 DEF Moves
<1> QED
  BY <1>6, <1>9 DEF f

(* deliver_all_consecutive_counts stops at RX_NEXT or at the first COUNT   *)
(* that is missing.                                                        *)
LEMMA DeliverMoves ==
  ASSUME NEW e, EntityOK(e)
  PROVE  LET f == deliver_all_consecutive_counts(e)
         IN  /\ Moves(e, f)
             /\ f.rx_deliv \notin DOMAIN f.window
             /\ f.rx_reord = e.rx_reord /\ f.reordering = e.reordering
<1> DEFINE gaps == {c \in e.rx_deliv..e.rx_next : c = e.rx_next \/ c \notin DOMAIN e.window}
           stop_at == Min(gaps)
           f == deliver_all_consecutive_counts(e)
<1>1. e.rx_deliv \in Nat /\ e.rx_next \in Nat /\ e.rx_deliv <= e.rx_next
  BY DEF EntityOK, Entities
<1>2. gaps \subseteq Nat /\ e.rx_next \in gaps
  BY <1>1
<1>3. stop_at \in gaps
  BY <1>2, MinOfNaturals
<1>4. f = AdvanceTo(e, stop_at)
  BY DEF deliver_all_consecutive_counts
<1>5. stop_at \in e.rx_deliv..e.rx_next /\ (stop_at = e.rx_next \/ stop_at \notin DOMAIN e.window)
  BY <1>3
<1> HIDE DEF f, stop_at, gaps
<1>6. /\ Moves(e, f)
      /\ f.rx_deliv = stop_at /\ f.rx_reord = e.rx_reord /\ f.reordering = e.reordering
  BY <1>4, <1>5, AdvanceMoves
<1>7. f.rx_deliv \notin DOMAIN f.window
  BY <1>1, <1>5, <1>6 DEF Moves, EntityOK
<1> QED
  BY <1>6, <1>7 DEF f

(* The end of a handler: what waits has a gap before it, and t-Reordering  *)
(* is as it should be.                                                     *)
TimerSane(e) ==
  /\ e.reordering => /\ cfg.t_reordering = "finite"
                     /\ e.rx_deliv < e.rx_reord /\ e.rx_reord <= e.rx_next
  /\ cfg.t_reordering = "ms0" => e.rx_deliv = e.rx_next
Watched(e) ==
  /\ TimerSane(e)
  /\ cfg.t_reordering = "finite" /\ e.rx_deliv < e.rx_next => e.reordering

Settled(e, f) == Moves(e, f) /\ f.rx_deliv \notin DOMAIN f.window /\ Watched(f)

LEMMA StartMoves ==
  ASSUME NEW e, NEW f, EntityOK(e), Moves(e, f), f.rx_deliv \notin DOMAIN f.window,
         f.rx_deliv < f.rx_next, cfg.t_reordering = "finite"
  PROVE  Settled(e, StartReordering(f))
<1> DEFINE g == StartReordering(f)
<1>1. f \in Entities
  BY DEF Moves, EntityOK
<1>2. /\ g \in Entities /\ g.rx_next = f.rx_next /\ g.rx_deliv = f.rx_deliv /\ g.window = f.window
      /\ g.rx_reord = f.rx_next /\ g.reordering = TRUE
  BY <1>1, Zenon DEF StartReordering, Entities
<1> HIDE DEF g
<1>3. EntityOK(g)
  BY <1>2 DEF EntityOK, Moves
<1>4. Moves(e, g)
  BY <1>2, <1>3 DEF Moves
<1>5. g.rx_next \in Nat
  BY <1>2 DEF Entities
<1>6. Watched(g)
  BY <1>2, <1>5 DEF Watched, TimerSane
<1> QED
  BY <1>2, <1>4, <1>6 DEF Settled, g

LEMMA ExpireSettles ==
  ASSUME NEW e, EntityOK(e), ~e.reordering, cfg.t_reordering \in {"ms0", "finite"},
         e.rx_deliv <= e.rx_reord, e.rx_reord <= e.rx_next,
         cfg.t_reordering = "ms0" => e.rx_reord = e.rx_next
  PROVE  Settled(e, handle_t_reordering_expire(e))
<1> DEFINE a == AdvanceTo(e, e.rx_reord)
           f == deliver_all_consecutive_counts(a)
<1>1. e.rx_deliv \in Nat /\ e.rx_reord \in Nat /\ e.rx_next \in Nat
  BY DEF EntityOK, Entities
<1>2. Moves(e, a) /\ a.rx_deliv = e.rx_reord /\ a.reordering = e.reordering
  BY <1>1, AdvanceMoves
<1> HIDE DEF a
<1>3. EntityOK(a)
  BY <1>2 DEF Moves
<1>4. Moves(a, f) /\ f.rx_deliv \notin DOMAIN f.window /\ f.reordering = a.reordering
  BY <1>3, DeliverMoves
<1> HIDE DEF f
<1>5. Moves(e, f)
  BY <1>2, <1>4, MovesTransitive
<1>6. handle_t_reordering_expire(e) =
        IF f.rx_deliv < f.rx_next /\ cfg.t_reordering # "ms0" THEN StartReordering(f) ELSE f
  BY DEF handle_t_reordering_expire, a, f
<1>7. f.rx_deliv \in Nat /\ f.rx_next \in Nat /\ f.rx_deliv <= f.rx_next
  BY <1>5 DEF Moves, EntityOK, Entities
<1>8. CASE f.rx_deliv < f.rx_next /\ cfg.t_reordering # "ms0"
  <2>1. cfg.t_reordering = "finite"
    BY <1>8
  <2> QED
    BY <1>4, <1>5, <1>6, <1>8, <2>1, StartMoves
<1>9. CASE ~(f.rx_deliv < f.rx_next /\ cfg.t_reordering # "ms0")
  <2>1. ~f.reordering
    BY <1>2, <1>4
  <2>2. cfg.t_reordering = "ms0" => f.rx_deliv = f.rx_next
    BY <1>1, <1>2, <1>4, <1>7 DEF Moves
  <2>3. Watched(f)
    BY <1>9, <2>1, <2>2 DEF Watched, TimerSane
  <2> QED
    BY <1>4, <1>5, <1>6, <1>9, <2>3 DEF Settled
<1> QED
  BY <1>8, <1>9

(* Reorder, of an entity in which a PDU was just stored.                   *)
LEMMA ReorderSettles ==
  ASSUME NEW e, NEW pdu, EntityOK(e),
         pdu.count # e.rx_deliv => e.rx_deliv \notin DOMAIN e.window,
         e.reordering => cfg.t_reordering = "finite" /\ e.rx_reord <= e.rx_next,
         cfg.t_reordering \in {"ms0", "finite", "infinity"}
  PROVE  Settled(e, Reorder(e, pdu))
<1> DEFINE f == IF pdu.count = e.rx_deliv THEN deliver_all_consecutive_counts(e) ELSE e
           g == [f EXCEPT !.reordering = @ /\ f.rx_deliv < f.rx_reord]
<1>1. e \in Entities /\ e.rx_deliv \in Nat /\ e.rx_next \in Nat /\ DOMAIN e.window \subseteq Nat
  BY WindowType DEF EntityOK, Entities
<1>2. Moves(e, e)
  BY <1>1 DEF Moves, EntityOK
<1>3. /\ Moves(e, f) /\ f.rx_deliv \notin DOMAIN f.window
      /\ f.rx_reord = e.rx_reord /\ f.reordering = e.reordering
  BY <1>2, DeliverMoves
<1> HIDE DEF f
<1>4. f \in Entities /\ f.rx_deliv \in Nat /\ f.rx_next \in Nat /\ f.rx_reord \in Nat /\ f.reordering \in BOOLEAN
  BY <1>3 DEF Moves, EntityOK, Entities
<1>5. /\ g \in Entities /\ g.rx_next = f.rx_next /\ g.rx_deliv = f.rx_deliv /\ g.rx_reord = f.rx_reord
      /\ g.window = f.window /\ g.reordering = (f.reordering /\ f.rx_deliv < f.rx_reord)
  BY <1>4, Zenon DEF Entities
<1> HIDE DEF g
<1>6. EntityOK(g) /\ Moves(e, g) /\ g.rx_deliv \notin DOMAIN g.window
  BY <1>3, <1>5 DEF Moves, EntityOK
<1>7. g.reordering => /\ cfg.t_reordering = "finite"
                      /\ g.rx_deliv < g.rx_reord /\ g.rx_reord <= g.rx_next
  BY <1>3, <1>5, Zenon DEF Moves
<1>8. CASE cfg.t_reordering = "infinity"
  <2>1. Reorder(e, pdu) = g
    BY <1>8, Zenon DEF Reorder, f, g
  <2> QED
    BY <1>6, <1>7, <1>8, <2>1 DEF Settled, Watched, TimerSane
<1>9. CASE cfg.t_reordering = "ms0"
  <2> DEFINE h == [g EXCEPT !.rx_reord = g.rx_next]
  <2>1. Reorder(e, pdu) = handle_t_reordering_expire(h)
    BY <1>9, Zenon DEF Reorder, f, g
  <2>2. /\ h \in Entities /\ h.rx_next = g.rx_next /\ h.rx_deliv = g.rx_deliv /\ h.rx_reord = g.rx_next
        /\ h.window = g.window /\ h.reordering = g.reordering
    BY <1>5 DEF Entities
  <2> HIDE DEF h
  <2>3. EntityOK(h) /\ Moves(e, h) /\ ~h.reordering
    BY <1>6, <1>7, <1>9, <2>2 DEF Moves, EntityOK
  <2>4. h.rx_deliv <= h.rx_reord /\ h.rx_reord <= h.rx_next
    BY <2>2, <2>3 DEF EntityOK, Entities
  <2>5. Settled(h, handle_t_reordering_expire(h))
    BY <1>9, <2>2, <2>3, <2>4, ExpireSettles
  <2> QED
    BY <2>1, <2>3, <2>5, MovesTransitive DEF Settled
<1>10. CASE cfg.t_reordering = "finite"
  <2>1. Reorder(e, pdu) = IF ~g.reordering /\ g.rx_deliv < g.rx_next THEN StartReordering(g) ELSE g
    BY <1>10, Zenon DEF Reorder, f, g
  <2>2. CASE ~g.reordering /\ g.rx_deliv < g.rx_next
    BY <1>6, <1>10, <2>1, <2>2, StartMoves
  <2>3. CASE ~(~g.reordering /\ g.rx_deliv < g.rx_next)
    <3>1. Watched(g)
      BY <1>7, <1>10, <2>3 DEF Watched, TimerSane
    <3> QED
      BY <1>6, <2>1, <2>3, <3>1 DEF Settled
  <2> QED
    BY <2>2, <2>3
<1> QED
  BY <1>8, <1>9, <1>10

(* Store, of a PDU that is not late.                                       *)
LEMMA StoreOK ==
  ASSUME NEW e, EntityOK(e), e.rx_deliv \notin DOMAIN e.window,
         NEW pdu, pdu.count \in Nat, pdu.sdu \in Sdus, e.rx_deliv <= pdu.count
  PROVE  LET f == Store(e, pdu)
         IN  /\ EntityOK(f)
             /\ pdu.count # f.rx_deliv => f.rx_deliv \notin DOMAIN f.window
             /\ f.rx_deliv = e.rx_deliv /\ e.rx_next <= f.rx_next
             /\ f.rx_reord = e.rx_reord /\ f.reordering = e.reordering
             /\ DOMAIN f.window = DOMAIN e.window \cup {pdu.count}
             /\ \A c \in DOMAIN f.window :
                  f.window[c] = IF c = pdu.count THEN pdu.sdu ELSE e.window[c]
<1> DEFINE f == Store(e, pdu)
           S == DOMAIN e.window \cup {pdu.count}
           w == [c \in S |-> IF c = pdu.count THEN pdu.sdu ELSE e.window[c]]
           next == Max({e.rx_next, pdu.count + 1})
<1>1. e \in Entities /\ e.rx_deliv \in Nat /\ e.rx_next \in Nat /\ e.window \in Windows
  BY DEF EntityOK, Entities
<1>2. w \in Windows
  <2>1. DOMAIN e.window \subseteq Nat /\ \A c \in DOMAIN e.window : e.window[c] \in Sdus
    BY <1>1, WindowType
  <2>2. w \in [S -> Sdus] /\ S \in SUBSET Nat
    BY <2>1
  <2> QED
    BY <2>2, WindowTyped
<1>3. next \in Nat /\ e.rx_next <= next /\ pdu.count + 1 <= next
  BY <1>1, MaxOfTwo
<1>4. DOMAIN w = S /\ \A c \in S : w[c] = IF c = pdu.count THEN pdu.sdu ELSE e.window[c]
  OBVIOUS
<1>5. f = [e EXCEPT !.window = w, !.rx_next = next]
  BY DEF Store
<1> HIDE DEF w, f, next
<1>6. /\ f \in Entities /\ f.window = w /\ f.rx_next = next
      /\ f.rx_deliv = e.rx_deliv /\ f.rx_reord = e.rx_reord /\ f.reordering = e.reordering
  BY <1>1, <1>2, <1>3, <1>5, Zenon DEF Entities
<1>7. EntityOK(f)
  <2>1. S \subseteq e.rx_deliv..(next - 1)
    BY <1>1, <1>3 DEF EntityOK
  <2>2. e.rx_deliv <= next
    BY <1>1, <1>3 DEF EntityOK
  <2> QED
    BY <1>4, <1>6, <2>1, <2>2 DEF EntityOK
<1> QED
  BY <1>3, <1>4, <1>6, <1>7 DEF f

LEMMA FreshEntity ==
  ASSUME NEW n \in Nat
  PROVE  /\ EntityOK(Entity(n, 0)) /\ DOMAIN Entity(n, 0).window = {}
         /\ Entity(n, 0).rx_deliv = n /\ Watched(Entity(n, 0))
<1> DEFINE e == Entity(n, 0)
<1>1. <<>> \in Windows /\ DOMAIN <<>> = {}
  <2>1. <<>> \in [{} -> Sdus]
    OBVIOUS
  <2> QED
    BY <2>1, WindowTyped, Zenon
<1>2. /\ e \in Entities /\ e.rx_next = n /\ e.rx_deliv = n /\ e.window = <<>> /\ ~e.reordering
  BY <1>1 DEF Entity, Entities
<1> HIDE DEF e
<1>3. EntityOK(e) /\ DOMAIN e.window = {}
  BY <1>1, <1>2 DEF EntityOK
<1>4. Watched(e)
  BY <1>2 DEF Watched, TimerSane
<1> QED
  BY <1>2, <1>3, <1>4 DEF e

LEMMA InferCountType ==
  ASSUME NEW sn \in Int, NEW low \in Nat
  PROVE  InferCount(sn, low) \in 0..(CountMod - 1)
<1>1. SnCard \in Nat \ {0} /\ CountMod \in Nat \ {0}
  BY PdcpSnAssumption
<1>2. low \div SnCard \in Int
  BY <1>1, DivMod
<1>3. \A h \in Int : COUNT(h, sn) \in 0..(CountMod - 1)
  <2> TAKE h \in Int
  <2>1. h * SnCard + sn \in Int
    BY <1>1
  <2> QED
    BY <1>1, <2>1, DivMod DEF COUNT
<1>4. /\ COUNT(HFN(low), sn) \in 0..(CountMod - 1)
      /\ COUNT(HFN(low) + 1, sn) \in 0..(CountMod - 1)
      /\ COUNT(HFN(low) - 1, sn) \in 0..(CountMod - 1)
  <2>1. HFN(low) \in Int
    BY <1>2 DEF HFN
  <2>2. HFN(low) + 1 \in Int /\ HFN(low) - 1 \in Int
    BY <2>1
  <2> QED
    BY <1>3, <2>1, <2>2
<1> QED
  BY <1>4, Zenon DEF InferCount

-----------------------------------------------------------------------------
(* Types, and the state of each entity between two handlers                *)

Taken == [count : Nat, sdu : Sdus]
Handed == [count : Nat, sdu : Sdus, ok : BOOLEAN]

PathTypes ==
  /\ cfg \in [mode : {"um", "am"}, t_reordering : {"ms0", "finite", "infinity"}]
  /\ engine \in [Drbs -> Nat]
  /\ stopped \in [Drbs -> BOOLEAN]
  /\ crypto \in [Drbs -> SUBSET Taken]
  /\ verified \in [Drbs -> SUBSET Handed]
  /\ peer \in [Drbs -> [key : Nat, next : Nat]]

RxOK(d) ==
  /\ EntityOK(rx[d]) /\ rx[d].rx_deliv \notin DOMAIN rx[d].window
  /\ TimerSane(rx[d])
  /\ ~stopped[d] => Watched(rx[d])

RxTypes ==
  /\ rx \in [Drbs -> Entities]
  /\ last \in [Drbs -> [count : Int, key : Nat]]
  /\ \A d \in Drbs : RxOK(d)

TypeInv == PathTypes /\ RxTypes

LEMMA TypeInit == Init => TypeInv
<1> SUFFICES ASSUME Init PROVE TypeInv
  OBVIOUS
<1>1. InitCount \in Nat /\ NofDrbs \in Nat \ {0} /\ CountMod \in Nat
  BY PdcpRxAssumption, PdcpSnAssumption
<1>2. PathTypes
  BY <1>1, PdcpRxAssumption DEF Init, PathTypes
<1>3. /\ EntityOK(Entity(InitCount, 0)) /\ DOMAIN Entity(InitCount, 0).window = {}
      /\ Watched(Entity(InitCount, 0))
  BY <1>1, FreshEntity
<1>4. \A d \in Drbs : rx[d] = Entity(InitCount, 0)
  BY DEF Init
<1>5. \A d \in Drbs : RxOK(d)
  BY <1>3, <1>4, Zenon DEF RxOK, Watched
<1>6. rx \in [Drbs -> Entities]
  BY <1>3 DEF Init, EntityOK
<1>7. last \in [Drbs -> [count : Int, key : Nat]]
  BY <1>1 DEF Init
<1> QED
  BY <1>2, <1>5, <1>6, <1>7 DEF TypeInv, RxTypes

(* Deliver changes the one entity and remembers the highest COUNT.         *)
LEMMA DeliverEffect ==
  ASSUME TypeInv, NEW d \in Drbs, NEW e, NEW f, EntityOK(e), Moves(e, f), Deliver(d, e, f)
  PROVE  /\ rx' \in [Drbs -> Entities] /\ rx'[d] = f
         /\ \A x \in Drbs \ {d} : rx'[x] = rx[x] /\ last'[x] = last[x]
         /\ last' \in [Drbs -> [count : Int, key : Nat]]
         /\ last'[d].key = last[d].key
         /\ last'[d].count \in {last[d].count} \cup Delivered(e, f)
<1> DEFINE S == {last[d].count} \cup Delivered(e, f)
           m == Max(S)
<1>1. /\ rx \in [Drbs -> Entities] /\ last \in [Drbs -> [count : Int, key : Nat]]
      /\ last[d].count \in Int
  BY DEF TypeInv, RxTypes
<1>2. f \in Entities /\ e.rx_next \in Nat
  BY DEF Moves, EntityOK, Entities
<1>3. \A c \in Delivered(e, f) : c \in Int /\ c < e.rx_next
  BY <1>2 DEF Delivered, EntityOK
<1>4. m \in S
  <2> DEFINE b == IF last[d].count >= e.rx_next THEN last[d].count ELSE e.rx_next
  <2>1. S \subseteq Int /\ S # {} /\ b \in Int /\ \A s \in S : s <= b
    BY <1>1, <1>2, <1>3
  <2> HIDE DEF S, b
  <2> QED
    BY <2>1, MaxOfBounded, Zenon
<1>5. m \in Int
  BY <1>1, <1>3, <1>4
<1>6. last' = [last EXCEPT ![d].count = m]
  BY DEF Deliver
<1> HIDE DEF m
<1>7. /\ last' \in [Drbs -> [count : Int, key : Nat]]
      /\ last'[d].key = last[d].key /\ last'[d].count = m
      /\ \A x \in Drbs \ {d} : last'[x] = last[x]
  BY <1>1, <1>5, <1>6
<1>8. rx' \in [Drbs -> Entities] /\ rx'[d] = f /\ \A x \in Drbs \ {d} : rx'[x] = rx[x]
  BY <1>1, <1>2 DEF Deliver
<1> QED
  BY <1>4, <1>7, <1>8

LEMMA RxFrame ==
  ASSUME RxTypes, UNCHANGED <<cfg, rx, stopped, last>>
  PROVE  RxTypes'
  BY DEF RxTypes, RxOK, TimerSane, Watched

LEMMA RxSettled ==
  ASSUME TypeInv, NEW d \in Drbs, NEW e, NEW f, EntityOK(e), Settled(e, f), Deliver(d, e, f),
         UNCHANGED <<cfg, stopped>>
  PROVE  RxTypes'
<1>1. Moves(e, f) /\ f.rx_deliv \notin DOMAIN f.window /\ Watched(f) /\ TimerSane(f) /\ EntityOK(f)
  BY DEF Settled, Watched, Moves
<1>2. /\ rx' \in [Drbs -> Entities] /\ rx'[d] = f
      /\ \A x \in Drbs \ {d} : rx'[x] = rx[x]
      /\ last' \in [Drbs -> [count : Int, key : Nat]]
  BY <1>1, DeliverEffect
<1>3. ASSUME NEW x \in Drbs PROVE RxOK(x)'
  <2>1. CASE x = d
    BY <1>1, <1>2, <2>1 DEF RxOK, Watched, TimerSane
  <2>2. CASE x # d
    BY <1>2, <2>2 DEF TypeInv, RxTypes, RxOK, Watched, TimerSane
  <2> QED
    BY <2>1, <2>2
<1> QED
  BY <1>2, <1>3 DEF RxTypes

(* apply_reordering of a PDU that verified and is not late.                *)
LEMMA StoredAndMoved ==
  ASSUME TypeInv, NEW d \in Drbs, NEW pdu \in verified[d], apply_reordering(d, pdu),
         pdu.ok, pdu.count >= rx[d].rx_deliv
  PROVE  \E e, f : /\ EntityOK(e) /\ Settled(e, f) /\ Deliver(d, e, f)
                   /\ e.rx_deliv = rx[d].rx_deliv
                   /\ DOMAIN e.window = DOMAIN rx[d].window \cup {pdu.count}
                   /\ \A c \in DOMAIN e.window :
                        e.window[c] = IF c = pdu.count THEN pdu.sdu ELSE rx[d].window[c]
<1> DEFINE e == Store(rx[d], pdu)
<1>1. pdu.count \in Nat /\ pdu.sdu \in Sdus
  BY DEF TypeInv, PathTypes, Handed
<1>2. RxOK(d) /\ rx[d].rx_deliv \in Nat
  BY DEF TypeInv, RxTypes, Entities
<1>3. /\ EntityOK(e)
      /\ pdu.count # e.rx_deliv => e.rx_deliv \notin DOMAIN e.window
      /\ e.rx_deliv = rx[d].rx_deliv /\ rx[d].rx_next <= e.rx_next
      /\ e.rx_reord = rx[d].rx_reord /\ e.reordering = rx[d].reordering
      /\ DOMAIN e.window = DOMAIN rx[d].window \cup {pdu.count}
      /\ \A c \in DOMAIN e.window :
           e.window[c] = IF c = pdu.count THEN pdu.sdu ELSE rx[d].window[c]
  <2>1. rx[d].rx_deliv <= pdu.count
    BY <1>1, <1>2
  <2> QED
    BY <1>1, <1>2, <2>1, StoreOK DEF RxOK
<1>4. Deliver(d, e, Reorder(e, pdu))
  BY DEF apply_reordering
<1> HIDE DEF e
<1>5. e.reordering => cfg.t_reordering = "finite" /\ e.rx_reord <= e.rx_next
  <2>1. e.rx_reord \in Nat /\ e.rx_next \in Nat /\ rx[d].rx_next \in Nat
    BY <1>2, <1>3 DEF RxOK, EntityOK, Entities
  <2> QED
    BY <1>2, <1>3, <2>1 DEF RxOK, TimerSane
<1>6. cfg.t_reordering \in {"ms0", "finite", "infinity"}
  BY DEF TypeInv, PathTypes
<1>7. Settled(e, Reorder(e, pdu))
  BY <1>3, <1>5, <1>6, ReorderSettles
<1> QED
  BY <1>3, <1>4, <1>7

LEMMA RxApplyReordering ==
  ASSUME TypeInv, NEW d \in Drbs, NEW pdu \in verified[d], apply_reordering(d, pdu)
  PROVE  RxTypes'
<1>1. CASE pdu.ok /\ pdu.count >= rx[d].rx_deliv
  <2>1. PICK e, f : EntityOK(e) /\ Settled(e, f) /\ Deliver(d, e, f)
    BY <1>1, StoredAndMoved
  <2>2. UNCHANGED <<cfg, stopped>>
    BY DEF apply_reordering
  <2> QED
    BY <2>1, <2>2, RxSettled
<1>2. CASE ~(pdu.ok /\ pdu.count >= rx[d].rx_deliv)
  BY <1>2, RxFrame DEF apply_reordering, ghosts, TypeInv
<1> QED
  BY <1>1, <1>2

(* The callback of t-Reordering.                                           *)
LEMMA ExpiredAndMoved ==
  ASSUME TypeInv, NEW d \in Drbs, reordering_callback(d)
  PROVE  \E e, f : /\ EntityOK(e) /\ Moves(e, f) /\ Deliver(d, e, f)
                   /\ e.rx_deliv = rx[d].rx_deliv /\ e.window = rx[d].window
                   /\ \/ stopped[d] /\ f = [rx[d] EXCEPT !.reordering = FALSE]
                      \/ ~stopped[d] /\ Settled(e, f)
<1> DEFINE e == [rx[d] EXCEPT !.reordering = FALSE]
<1>1. RxOK(d) /\ rx[d] \in Entities /\ rx[d].reordering
  BY DEF TypeInv, RxTypes, reordering_callback
<1>2. /\ e \in Entities /\ e.rx_next = rx[d].rx_next /\ e.rx_deliv = rx[d].rx_deliv
      /\ e.rx_reord = rx[d].rx_reord /\ e.window = rx[d].window /\ ~e.reordering
  BY <1>1, Zenon DEF Entities
<1>3. Deliver(d, e, IF stopped[d] THEN e ELSE handle_t_reordering_expire(e))
  BY DEF reordering_callback
<1>e. e = [rx[d] EXCEPT !.reordering = FALSE]
  OBVIOUS
<1> HIDE DEF e
<1>4. EntityOK(e)
  BY <1>1, <1>2 DEF RxOK, EntityOK
<1>5. cfg.t_reordering = "finite" /\ e.rx_deliv <= e.rx_reord /\ e.rx_reord <= e.rx_next
  BY <1>1, <1>2 DEF RxOK, TimerSane, Entities
<1>6. CASE stopped[d]
  <2>1. DOMAIN e.window \subseteq Nat /\ e.rx_deliv \in Nat
    BY <1>2, WindowType DEF Entities
  <2>2. Moves(e, e)
    BY <1>4, <2>1 DEF Moves, EntityOK
  <2> QED
    BY <1>2, <1>3, <1>4, <1>6, <1>e, <2>2, Zenon
<1>7. CASE ~stopped[d]
  <2>1. Settled(e, handle_t_reordering_expire(e))
    BY <1>2, <1>4, <1>5, ExpireSettles
  <2>2. Moves(e, handle_t_reordering_expire(e))
    BY <2>1 DEF Settled
  <2> QED
    BY <1>2, <1>3, <1>4, <1>7, <2>1, <2>2
<1> QED
  BY <1>6, <1>7

LEMMA RxCallback ==
  ASSUME TypeInv, NEW d \in Drbs, reordering_callback(d)
  PROVE  RxTypes'
<1>1. UNCHANGED <<cfg, stopped>>
  BY DEF reordering_callback
<1>2. PICK e, f : /\ EntityOK(e) /\ Moves(e, f) /\ Deliver(d, e, f)
                  /\ \/ stopped[d] /\ f = [rx[d] EXCEPT !.reordering = FALSE]
                     \/ ~stopped[d] /\ Settled(e, f)
  BY ExpiredAndMoved
<1>3. CASE stopped[d]
  <2>1. /\ rx' \in [Drbs -> Entities] /\ rx'[d] = f
        /\ \A x \in Drbs \ {d} : rx'[x] = rx[x]
        /\ last' \in [Drbs -> [count : Int, key : Nat]]
    BY <1>2, DeliverEffect
  <2>2. ASSUME NEW x \in Drbs PROVE RxOK(x)'
    <3>1. CASE x = d
      <4>1. RxOK(d) /\ rx[d] \in Entities
        BY DEF TypeInv, RxTypes
      <4>2. /\ f.rx_next = rx[d].rx_next /\ f.rx_deliv = rx[d].rx_deliv
            /\ f.window = rx[d].window /\ ~f.reordering
        BY <1>2, <1>3, <4>1 DEF Entities
      <4>3. EntityOK(f)
        BY <1>2 DEF Moves
      <4> QED
        BY <1>1, <1>3, <2>1, <3>1, <4>1, <4>2, <4>3 DEF RxOK, TimerSane
    <3>2. CASE x # d
      BY <1>1, <2>1, <3>2 DEF TypeInv, RxTypes, RxOK, Watched, TimerSane
    <3> QED
      BY <3>1, <3>2
  <2> QED
    BY <2>1, <2>2 DEF RxTypes
<1>4. CASE ~stopped[d]
  BY <1>1, <1>2, <1>4, RxSettled
<1> QED
  BY <1>3, <1>4

LEMMA RxStop ==
  ASSUME TypeInv, stop
  PROVE  RxTypes'
<1>1. /\ UNCHANGED <<cfg, last>> /\ stopped' = [d \in Drbs |-> TRUE]
      /\ rx' = [d \in Drbs |-> [rx[d] EXCEPT !.reordering = FALSE]]
  BY DEF stop, Start, ghosts
<1>2. ASSUME NEW d \in Drbs
      PROVE  rx'[d] \in Entities /\ RxOK(d)'
  <2>1. RxOK(d) /\ rx[d] \in Entities
    BY DEF TypeInv, RxTypes
  <2>2. /\ rx'[d] \in Entities /\ rx'[d].rx_next = rx[d].rx_next /\ rx'[d].rx_deliv = rx[d].rx_deliv
        /\ rx'[d].window = rx[d].window /\ ~rx'[d].reordering
    BY <1>1, <2>1, Zenon DEF Entities
  <2> QED
    BY <1>1, <2>1, <2>2, Zenon DEF RxOK, EntityOK, TimerSane
<1>3. rx' \in [Drbs -> Entities]
  BY <1>1, <1>2, Zenon
<1> QED
  BY <1>1, <1>2, <1>3 DEF TypeInv, RxTypes

LEMMA RxRemove ==
  ASSUME TypeInv, NEW r \in Drbs, remove_drb(r)
  PROVE  RxTypes'
<1>1. /\ UNCHANGED <<cfg, last>> /\ stopped' = [stopped EXCEPT ![r] = TRUE]
      /\ rx' = [rx EXCEPT ![r].reordering = FALSE]
  BY DEF remove_drb, ghosts
<1>t. rx \in [Drbs -> Entities] /\ DOMAIN stopped = Drbs
  BY DEF TypeInv, RxTypes, PathTypes
<1>2. ASSUME NEW d \in Drbs
      PROVE  rx'[d] \in Entities /\ RxOK(d)'
  <2>1. RxOK(d) /\ rx[d] \in Entities
    BY DEF TypeInv, RxTypes
  <2>2. CASE d = r
    <3>1. /\ rx'[d] \in Entities /\ rx'[d].rx_next = rx[d].rx_next /\ rx'[d].rx_deliv = rx[d].rx_deliv
          /\ rx'[d].window = rx[d].window /\ ~rx'[d].reordering /\ stopped'[d]
      BY <1>1, <1>t, <2>1, <2>2, Zenon DEF Entities
    <3> QED
      BY <1>1, <2>1, <3>1, Zenon DEF RxOK, EntityOK, TimerSane
  <2>3. CASE d # r
    <3>1. rx'[d] = rx[d] /\ stopped'[d] = stopped[d]
      BY <1>1, <1>t, <2>3, Zenon
    <3> QED
      BY <1>1, <2>1, <3>1, Zenon DEF RxOK, EntityOK, TimerSane, Watched
  <2> QED
    BY <2>2, <2>3
<1>3. DOMAIN rx' = Drbs /\ rx' = [d \in Drbs |-> rx'[d]]
  BY <1>1, <1>t
<1>4. rx' \in [Drbs -> Entities]
  BY <1>2, <1>3, Zenon
<1> QED
  BY <1>1, <1>2, <1>4 DEF TypeInv, RxTypes

LEMMA RxRestart ==
  ASSUME TypeInv, restart_pdu_processing
  PROVE  RxTypes'
<1>1. /\ UNCHANGED <<cfg, stopped>> /\ rx' = [d \in Drbs |-> reestablish(rx[d])]
      /\ last' = [d \in Drbs |-> IF cfg.mode = "um" THEN [count |-> -1, key |-> engine[d] + 1]
                                                    ELSE last[d]]
  BY DEF restart_pdu_processing
<1>2. last' \in [Drbs -> [count : Int, key : Nat]]
  BY <1>1 DEF TypeInv, RxTypes, PathTypes
<1>3. /\ EntityOK(Entity(0, 0)) /\ DOMAIN Entity(0, 0).window = {} /\ Watched(Entity(0, 0))
  BY FreshEntity
<1>4. ASSUME NEW d \in Drbs
      PROVE  rx'[d] \in Entities /\ RxOK(d)'
  <2>1. RxOK(d) /\ rx[d] \in Entities
    BY DEF TypeInv, RxTypes
  <2>2. CASE cfg.mode = "um"
    <3>1. rx'[d] = Entity(0, 0)
      BY <1>1, <2>2 DEF reestablish
    <3> QED
      BY <1>1, <1>3, <3>1 DEF RxOK, EntityOK, Watched, TimerSane
  <2>3. CASE cfg.mode # "um"
    <3>1. rx'[d] = rx[d]
      BY <1>1, <2>3 DEF reestablish
    <3> QED
      BY <1>1, <2>1, <3>1 DEF RxOK, EntityOK, Watched, TimerSane
  <2> QED
    BY <2>2, <2>3
<1>5. rx' \in [Drbs -> Entities]
  BY <1>1, <1>4
<1> QED
  BY <1>2, <1>4, <1>5 DEF RxTypes

LEMMA ArrivingType ==
  ASSUME TypeInv, NEW d \in Drbs, NEW pdu \in Arriving(d)
  PROVE  /\ pdu \in Sdus
         /\ rx[d].rx_deliv - window_size <= pdu.count /\ pdu.count < rx[d].rx_deliv + window_size
<1>1. rx[d].rx_deliv \in Nat /\ peer[d].key \in Nat
  BY DEF TypeInv, PathTypes, RxTypes, Entities
<1>2. window_size \in Nat
  BY PdcpSnAssumption DEF window_size
<1>3. Oldest(d) \in Nat /\ rx[d].rx_deliv - window_size <= Oldest(d)
  BY <1>1, <1>2, MaxOfTwo DEF Oldest
<1>4. /\ pdu \in [count : Oldest(d)..(rx[d].rx_deliv + window_size - 1), key : 1..peer[d].key]
  BY DEF Arriving
<1> QED
  BY <1>1, <1>2, <1>3, <1>4 DEF Sdus

LEMMA PathStep ==
  ASSUME TypeInv, [Next]_vars
  PROVE  PathTypes'
<1> PathTypes
  BY DEF TypeInv
<1>1. ASSUME NEW d \in Drbs, PeerSends(d) PROVE PathTypes'
  BY <1>1 DEF PathTypes, PeerSends, processing
<1>2. ASSUME NEW d \in Drbs, PeerRekeys(d) PROVE PathTypes'
  BY <1>2 DEF PathTypes, PeerRekeys, processing
<1>3. ASSUME NEW d \in Drbs, NEW pdu \in Arriving(d), handle_data_pdu(d, pdu) PROVE PathTypes'
  <2> DEFINE rcvd_count == InferCount(SN(pdu.count), rx[d].rx_deliv)
  <2>1. pdu \in Sdus /\ pdu.count \in Int
    BY ArrivingType DEF Sdus
  <2>2. rcvd_count \in Nat
    <3>1. SN(pdu.count) \in Int
      <4>1. SnCard \in Nat \ {0}
        BY PdcpSnAssumption
      <4>2. pdu.count % SnCard \in 0..(SnCard - 1)
        BY <2>1, <4>1, DivMod, Zenon
      <4> QED
        BY <4>1, <4>2 DEF SN
    <3>2. rx[d].rx_deliv \in Nat
      BY DEF TypeInv, RxTypes, Entities
    <3>3. rcvd_count \in 0..(CountMod - 1)
      BY <3>1, <3>2, InferCountType, Zenon
    <3> QED
      BY <3>3, PdcpSnAssumption
  <2>3. /\ crypto' = [crypto EXCEPT ![d] = @ \cup {[count |-> rcvd_count, sdu |-> pdu]}]
        /\ UNCHANGED <<cfg, engine, stopped, verified, peer>>
    BY <1>3 DEF handle_data_pdu
  <2> HIDE DEF rcvd_count
  <2>4. crypto' \in [Drbs -> SUBSET Taken]
    BY <2>1, <2>2, <2>3 DEF PathTypes, Taken
  <2> QED
    BY <2>3, <2>4 DEF PathTypes
<1>4. ASSUME NEW d \in Drbs, NEW pdu \in crypto[d], apply_security(d, pdu) PROVE PathTypes'
  <2> DEFINE v == [count |-> pdu.count, sdu |-> pdu.sdu,
                   ok |-> pdu.sdu.key = engine[d] /\ pdu.sdu.count = pdu.count]
  <2>1. v \in Handed
    BY DEF PathTypes, Taken, Handed
  <2>2. /\ crypto' = [crypto EXCEPT ![d] = @ \ {pdu}]
        /\ verified' = [verified EXCEPT ![d] = @ \cup {v}]
        /\ UNCHANGED <<cfg, engine, stopped, peer>>
    BY <1>4 DEF apply_security
  <2> HIDE DEF v
  <2> QED
    BY <2>1, <2>2 DEF PathTypes
<1>5. ASSUME NEW d \in Drbs, NEW pdu \in crypto[d], DropVerified(d, pdu) PROVE PathTypes'
  BY <1>5 DEF PathTypes, DropVerified
<1>6. ASSUME NEW d \in Drbs, NEW pdu \in verified[d], apply_reordering(d, pdu) PROVE PathTypes'
  <2>1. verified' = [verified EXCEPT ![d] = @ \ {pdu}] /\ UNCHANGED <<cfg, engine, stopped, crypto, peer>>
    BY <1>6 DEF apply_reordering
  <2> QED
    BY <2>1 DEF PathTypes
<1>7. ASSUME NEW d \in Drbs, reordering_callback(d) PROVE PathTypes'
  <2>1. UNCHANGED <<cfg, engine, stopped, crypto, verified, peer>>
    BY <1>7 DEF reordering_callback, processing
  <2> QED
    BY <2>1 DEF PathTypes
<1>8. CASE notify_pdu_processing_stopped
  BY <1>8 DEF notify_pdu_processing_stopped, Start, PathTypes
<1>9. CASE stop
  <2>1. stopped' = [d \in Drbs |-> TRUE] /\ UNCHANGED <<cfg, engine, crypto, verified, peer>>
    BY <1>9 DEF stop, Start
  <2> QED
    BY <2>1 DEF PathTypes
<1>10. CASE AwaitNext \/ Destroy \/ UNCHANGED vars
  <2>1. UNCHANGED <<cfg, engine, stopped, crypto, verified, peer>>
    BY <1>10 DEF AwaitNext, Destroy, vars, processing
  <2> QED
    BY <2>1 DEF PathTypes
<1>11. CASE restart_pdu_processing
  <2>1. engine' = [d \in Drbs |-> engine[d] + 1] /\ UNCHANGED <<cfg, stopped, crypto, verified, peer>>
    BY <1>11 DEF restart_pdu_processing
  <2> QED
    BY <2>1 DEF PathTypes
<1>12. ASSUME NEW d \in Drbs, remove_drb(d) PROVE PathTypes'
  <2>1. /\ stopped' = [stopped EXCEPT ![d] = TRUE] /\ crypto' = [crypto EXCEPT ![d] = {}]
        /\ verified' = [verified EXCEPT ![d] = {}] /\ UNCHANGED <<cfg, engine, peer>>
    BY <1>12 DEF remove_drb
  <2> QED
    BY <2>1 DEF PathTypes
<1> QED
  BY <1>1, <1>2, <1>3, <1>4, <1>5, <1>6, <1>7, <1>8, <1>9, <1>10, <1>11, <1>12, Zenon DEF Next

LEMMA RxStep ==
  ASSUME TypeInv, [Next]_vars
  PROVE  RxTypes'
<1> RxTypes
  BY Zenon DEF TypeInv
<1>1. ASSUME NEW d \in Drbs, PeerSends(d) \/ PeerRekeys(d) PROVE RxTypes'
  BY <1>1, RxFrame, Zenon DEF PeerSends, PeerRekeys, ghosts
<1>2. ASSUME NEW d \in Drbs, NEW pdu \in Arriving(d), handle_data_pdu(d, pdu) PROVE RxTypes'
  BY <1>2, RxFrame DEF handle_data_pdu, ghosts
<1>3. ASSUME NEW d \in Drbs, NEW pdu \in crypto[d], apply_security(d, pdu) \/ DropVerified(d, pdu)
      PROVE  RxTypes'
  BY <1>3, RxFrame DEF apply_security, DropVerified, ghosts
<1>4. ASSUME NEW d \in Drbs, NEW pdu \in verified[d], apply_reordering(d, pdu) PROVE RxTypes'
  BY <1>4, RxApplyReordering
<1>5. ASSUME NEW d \in Drbs, reordering_callback(d) PROVE RxTypes'
  BY <1>5, RxCallback
<1>6. CASE notify_pdu_processing_stopped \/ AwaitNext \/ Destroy \/ UNCHANGED vars
  BY <1>6, RxFrame DEF notify_pdu_processing_stopped, Start, AwaitNext, Destroy, vars, ghosts
<1>7. CASE stop
  BY <1>7, RxStop
<1>8. CASE restart_pdu_processing
  BY <1>8, RxRestart
<1>9. ASSUME NEW d \in Drbs, remove_drb(d) PROVE RxTypes'
  BY <1>9, RxRemove, Zenon
<1> QED
  BY <1>1, <1>2, <1>3, <1>4, <1>5, <1>6, <1>7, <1>8, <1>9, Zenon DEF Next

LEMMA TypeStep == TypeInv /\ [Next]_vars => TypeInv'
  BY PathStep, RxStep DEF TypeInv

LEMMA TypeAlways == Spec => []TypeInv
  BY TypeInit, TypeStep, PTL DEF Spec

(* On every bearer and whatever is lost, dropped, repeated or taken under  *)
(* an old key: the window holds COUNTs from RX_DELIV to RX_NEXT only, the  *)
(* SDU at RX_DELIV is never left in it, and until the bearer is stopped    *)
(* t-Reordering runs, with RX_REORD between the two, while a COUNT is      *)
(* missing (handle_data_pdu, apply_reordering, handle_t_reordering_expire, *)
(* reestablish).                                                           *)
THEOREM ReceptionIsWatched == Spec => [](\A d \in Drbs : RxOK(d))
<1>1. TypeInv => \A d \in Drbs : RxOK(d)
  BY Zenon DEF TypeInv, RxTypes
<1> QED
  BY <1>1, TypeAlways, PTL
-----------------------------------------------------------------------------
(* Keys and COUNTs of what is in processing                                *)

PeerOK(d) ==
  /\ last[d].key \in 1..engine[d]
  /\ peer[d].key \in 1..engine[d] /\ peer[d].next <= CountMod
  /\ \A p \in crypto[d] : /\ p.sdu.key \in 1..peer[d].key
                          /\ p.sdu.key = engine[d] => p.count = p.sdu.count
  /\ \A p \in verified[d] : /\ p.sdu.key \in 1..peer[d].key
                            /\ p.sdu.key = engine[d] => p.ok
                            /\ p.ok => p.count = p.sdu.count
PeerInv == \A d \in Drbs : PeerOK(d)

LEMMA PeerInit == Init => PeerInv
<1>1. InitCount <= CountMod
  BY PdcpRxAssumption, PdcpSnAssumption
<1> QED
  BY <1>1 DEF Init, PeerInv, PeerOK

(* Every step that leaves the peer and the keys alone and takes no PDU.    *)
LEMMA PeerFrame ==
  ASSUME TypeInv, PeerInv, UNCHANGED <<engine, peer>>,
         \A d \in Drbs : /\ crypto'[d] \subseteq crypto[d] /\ verified'[d] \subseteq verified[d]
                         /\ last'[d].key = last[d].key
  PROVE  PeerInv'
  BY Zenon DEF PeerInv, PeerOK

LEMMA PeerArrival ==
  ASSUME TypeInv, PeerInv, NEW d \in Drbs, NEW pdu \in Arriving(d), handle_data_pdu(d, pdu)
  PROVE  PeerInv'
<1> DEFINE new == [count |-> InferCount(SN(pdu.count), rx[d].rx_deliv), sdu |-> pdu]
<1>1. /\ crypto' = [crypto EXCEPT ![d] = @ \cup {new}]
      /\ UNCHANGED <<verified, engine, peer, last>>
  BY Zenon DEF handle_data_pdu, ghosts
<1>2. new.sdu = pdu /\ new.count = InferCount(SN(pdu.count), rx[d].rx_deliv)
  OBVIOUS
<1> HIDE DEF new
<1>3. /\ pdu \in Sdus /\ pdu.count \in Nat /\ pdu.key \in Nat /\ rx[d].rx_deliv \in Nat
      /\ rx[d].rx_deliv - window_size <= pdu.count /\ pdu.count < rx[d].rx_deliv + window_size
  BY ArrivingType, Zenon DEF Sdus, TypeInv, RxTypes, Entities
<1>4. /\ pdu.key \in 1..peer[d].key /\ (pdu.key = peer[d].key => pdu.count < peer[d].next)
      /\ peer[d].key \in Nat /\ peer[d].next \in Nat /\ engine[d] \in Nat /\ CountMod \in Nat
  BY PdcpSnAssumption, Zenon DEF Arriving, TypeInv, PathTypes
<1>5. pdu.key = engine[d] => new.count = pdu.count
  <2> SUFFICES ASSUME pdu.key = engine[d] PROVE new.count = pdu.count
    OBVIOUS
  <2>1. peer[d].key \in 1..engine[d] /\ peer[d].next <= CountMod
    BY Zenon DEF PeerInv, PeerOK
  <2>2. pdu.count \in 0..(CountMod - 1)
    BY <1>3, <1>4, <2>1
  <2> QED
    BY <1>2, <1>3, <2>2, InferCountExact, Zenon
<1> SUFFICES ASSUME NEW x \in Drbs PROVE PeerOK(x)'
  BY Zenon DEF PeerInv
<1>6. CASE x = d
  <2>1. crypto'[d] = crypto[d] \cup {new}
    BY <1>1, Zenon DEF TypeInv, PathTypes
  <2>2. PeerOK(d)
    BY Zenon DEF PeerInv
  <2>3. new.sdu.key \in 1..peer[d].key /\ (new.sdu.key = engine[d] => new.count = new.sdu.count)
    BY <1>2, <1>4, <1>5, Zenon
  <2> QED
    BY <1>1, <1>6, <2>1, <2>2, <2>3, Zenon DEF PeerOK
<1>7. CASE x # d
  <2>1. crypto'[x] = crypto[x]
    BY <1>1, <1>7, Zenon DEF TypeInv, PathTypes
  <2> QED
    BY <1>1, <2>1, Zenon DEF PeerInv, PeerOK
<1> QED
  BY <1>6, <1>7, Zenon

LEMMA PeerSecurity ==
  ASSUME TypeInv, PeerInv, NEW d \in Drbs, NEW pdu \in crypto[d], apply_security(d, pdu)
  PROVE  PeerInv'
<1> DEFINE v == [count |-> pdu.count, sdu |-> pdu.sdu,
                 ok |-> pdu.sdu.key = engine[d] /\ pdu.sdu.count = pdu.count]
<1>1. /\ crypto' = [crypto EXCEPT ![d] = @ \ {pdu}]
      /\ verified' = [verified EXCEPT ![d] = @ \cup {v}]
      /\ UNCHANGED <<engine, peer, last>>
  BY Zenon DEF apply_security, ghosts
<1>2. v.sdu = pdu.sdu /\ v.count = pdu.count /\ (v.ok <=> pdu.sdu.key = engine[d] /\ pdu.sdu.count = pdu.count)
  BY Zenon
<1> HIDE DEF v
<1> SUFFICES ASSUME NEW x \in Drbs PROVE PeerOK(x)'
  BY Zenon DEF PeerInv
<1>3. CASE x = d
  <2>1. crypto'[d] = crypto[d] \ {pdu} /\ verified'[d] = verified[d] \cup {v}
    BY <1>1, Zenon DEF TypeInv, PathTypes
  <2>2. PeerOK(d)
    BY Zenon DEF PeerInv
  <2>3. /\ v.sdu.key \in 1..peer[d].key /\ (v.sdu.key = engine[d] => v.ok)
        /\ (v.ok => v.count = v.sdu.count)
    BY <1>2, <2>2, Zenon DEF PeerOK
  <2> QED
    BY <1>1, <1>3, <2>1, <2>2, <2>3, Zenon DEF PeerOK
<1>4. CASE x # d
  <2>1. crypto'[x] = crypto[x] /\ verified'[x] = verified[x]
    BY <1>1, <1>4, Zenon DEF TypeInv, PathTypes
  <2> QED
    BY <1>1, <2>1, Zenon DEF PeerInv, PeerOK
<1> QED
  BY <1>3, <1>4, Zenon

LEMMA PeerStep ==
  ASSUME TypeInv, PeerInv, [Next]_vars
  PROVE  PeerInv'
<1>t. /\ crypto \in [Drbs -> SUBSET Taken] /\ verified \in [Drbs -> SUBSET Handed]
      /\ engine \in [Drbs -> Nat] /\ peer \in [Drbs -> [key : Nat, next : Nat]]
      /\ last \in [Drbs -> [count : Int, key : Nat]] /\ rx \in [Drbs -> Entities]
  BY Zenon DEF TypeInv, PathTypes, RxTypes
<1>1. ASSUME NEW d \in Drbs, PeerSends(d) PROVE PeerInv'
  <2>1. window_size \in Nat /\ MaxHard \in Nat /\ MaxHard < CountMod /\ CountMod \in Nat
    BY PdcpSnAssumption, PdcpRxAssumption DEF window_size
  <2>2. rx[d].rx_deliv + window_size \in Nat
    BY <1>t, <2>1 DEF Entities
  <2>3. peer[d].next < MaxHard
    <3> DEFINE b == rx[d].rx_deliv + window_size
    <3>1. peer[d].next < Min({MaxHard, b}) /\ peer[d].next \in Nat
      BY <1>t, <1>1, Zenon DEF PeerSends
    <3> HIDE DEF b
    <3>2. Min({MaxHard, b}) = IF MaxHard <= b THEN MaxHard ELSE b
      BY <2>1, <2>2, MinOfTwo DEF b
    <3> QED
      BY <2>1, <2>2, <3>1, <3>2 DEF b
  <2>4. /\ \A x \in Drbs : peer'[x].key = peer[x].key
        /\ peer'[d].next = peer[d].next + 1 /\ \A x \in Drbs \ {d} : peer'[x].next = peer[x].next
        /\ UNCHANGED <<engine, crypto, verified, last>>
    BY <1>t, <1>1, Zenon DEF PeerSends, processing, ghosts
  <2>5. \A x \in Drbs : peer'[x].next <= CountMod
    <3>1. peer[d].next + 1 <= CountMod
      BY <1>t, <2>1, <2>3
    <3> QED
      BY <2>4, <3>1, Zenon DEF PeerInv, PeerOK
  <2> QED
    BY <2>4, <2>5, Zenon DEF PeerInv, PeerOK
<1>2. ASSUME NEW d \in Drbs, PeerRekeys(d) PROVE PeerInv'
  <2>1. /\ peer'[d].key = engine[d] /\ peer'[d].next \in {0, peer[d].next} /\ peer[d].key < engine[d]
        /\ \A x \in Drbs \ {d} : peer'[x] = peer[x]
        /\ UNCHANGED <<engine, crypto, verified, last>>
    BY <1>t, <1>2, Zenon DEF PeerRekeys, processing, ghosts
  <2>2. CountMod \in Nat /\ engine[d] \in Nat
    BY <1>t, PdcpSnAssumption, Zenon
  <2>3. PeerOK(d)'
    BY <1>t, <2>1, <2>2 DEF PeerInv, PeerOK
  <2>4. \A x \in Drbs \ {d} : PeerOK(x)'
    BY <2>1, Zenon DEF PeerInv, PeerOK
  <2> QED
    BY <2>3, <2>4, Zenon DEF PeerInv
<1>3. ASSUME NEW d \in Drbs, NEW pdu \in Arriving(d), handle_data_pdu(d, pdu) PROVE PeerInv'
  BY <1>3, PeerArrival, Zenon
<1>4. ASSUME NEW d \in Drbs, NEW pdu \in crypto[d], apply_security(d, pdu) PROVE PeerInv'
  BY <1>4, PeerSecurity, Zenon
<1>5. ASSUME NEW d \in Drbs, NEW pdu \in crypto[d], DropVerified(d, pdu) PROVE PeerInv'
  BY <1>t, <1>5, PeerFrame, Zenon DEF DropVerified, ghosts
<1>6. ASSUME NEW d \in Drbs, NEW e, NEW f, Deliver(d, e, f) PROVE \A x \in Drbs : last'[x].key = last[x].key
  BY <1>t, <1>6, Zenon DEF Deliver
<1>7. ASSUME NEW d \in Drbs, NEW pdu \in verified[d], apply_reordering(d, pdu) PROVE PeerInv'
  <2>1. \A x \in Drbs : last'[x].key = last[x].key
    <3>1. CASE pdu.ok /\ pdu.count >= rx[d].rx_deliv
      BY <1>6, <1>7, <3>1, Zenon DEF apply_reordering
    <3>2. CASE ~(pdu.ok /\ pdu.count >= rx[d].rx_deliv)
      BY <1>7, <3>2, Zenon DEF apply_reordering, ghosts
    <3> QED
      BY <3>1, <3>2, Zenon
  <2> QED
    BY <1>t, <1>7, <2>1, PeerFrame, Zenon DEF apply_reordering
<1>8. ASSUME NEW d \in Drbs, reordering_callback(d) PROVE PeerInv'
  <2>1. \A x \in Drbs : last'[x].key = last[x].key
    BY <1>6, <1>8, Zenon DEF reordering_callback
  <2> QED
    BY <1>8, <2>1, PeerFrame, Zenon DEF reordering_callback, processing
<1>9. CASE notify_pdu_processing_stopped \/ stop \/ AwaitNext \/ Destroy \/ UNCHANGED vars
  BY <1>9, PeerFrame, Zenon
  DEF notify_pdu_processing_stopped, stop, Start, AwaitNext, Destroy, vars, processing, ghosts
<1>10. CASE restart_pdu_processing
  <2>1. /\ UNCHANGED <<crypto, verified, peer>>
        /\ \A d \in Drbs : engine'[d] = engine[d] + 1 /\ last'[d].key \in {engine[d] + 1, last[d].key}
    BY <1>10, Zenon DEF restart_pdu_processing
  <2> SUFFICES ASSUME NEW d \in Drbs PROVE PeerOK(d)'
    BY Zenon DEF PeerInv
  <2>2. PeerOK(d) /\ engine[d] \in Nat /\ peer[d].key \in Nat
    BY <1>t, Zenon DEF PeerInv
  <2>3. /\ last'[d].key \in 1..(engine[d] + 1) /\ peer[d].key \in 1..(engine[d] + 1)
        /\ \A k \in 1..peer[d].key : k # engine[d] + 1
    <3>1. /\ last[d].key \in 1..engine[d] /\ peer[d].key \in 1..engine[d]
          /\ last'[d].key \in {engine[d] + 1, last[d].key}
      BY <2>1, <2>2, Zenon DEF PeerOK
    <3> QED
      BY <2>2, <3>1
  <2> QED
    BY <2>1, <2>2, <2>3, Zenon DEF PeerOK
<1>11. ASSUME NEW d \in Drbs, remove_drb(d) PROVE PeerInv'
  <2>1. \A x \in Drbs : crypto'[x] \subseteq crypto[x] /\ verified'[x] \subseteq verified[x]
    BY <1>t, <1>11, Zenon DEF remove_drb
  <2> QED
    BY <1>11, <2>1, PeerFrame, Zenon DEF remove_drb, ghosts
<1> QED
  BY <1>1, <1>2, <1>3, <1>4, <1>5, <1>7, <1>8, <1>9, <1>10, <1>11, Zenon DEF Next

-----------------------------------------------------------------------------
(* Order of delivery, as long as no key changed under a PDU of a bearer    *)
(* whose COUNTs start again with the key.                                  *)

StoredOK(d, w, deliv) ==
  \A c \in DOMAIN w : w[c].count = c /\ last[d].key <= w[c].key /\ c < deliv + window_size

DeliveryOK(d) ==
  /\ last[d].count < rx[d].rx_deliv
  /\ StoredOK(d, rx[d].window, rx[d].rx_deliv)
  /\ \A p \in crypto[d] : p.sdu.count < rx[d].rx_deliv + window_size
  /\ \A p \in verified[d] : /\ p.sdu.count < rx[d].rx_deliv + window_size
                            /\ p.ok => last[d].key <= p.sdu.key
DeliveryInv == CountsAreSound => ~disordered /\ \A d \in Drbs : DeliveryOK(d)

LEMMA DeliveryInit == Init => DeliveryInv
<1> SUFFICES ASSUME Init, NEW d \in Drbs PROVE DeliveryOK(d)
  BY Zenon DEF DeliveryInv, Init
<1>1. InitCount \in Nat /\ window_size \in Nat
  BY PdcpRxAssumption, PdcpSnAssumption DEF window_size
<1>2. rx[d] = Entity(InitCount, 0) /\ last[d].count = InitCount - 1 /\ crypto[d] = {} /\ verified[d] = {}
  BY Zenon DEF Init
<1>3. DOMAIN rx[d].window = {} /\ rx[d].rx_deliv = InitCount
  BY <1>1, <1>2, FreshEntity, Zenon
<1> QED
  BY <1>1, <1>2, <1>3 DEF Init, DeliveryOK, StoredOK

(* RX_DELIV moves on and what it passes is delivered.                      *)
LEMMA DeliveryMoves ==
  ASSUME TypeInv, NEW d \in Drbs, NEW e, NEW f, EntityOK(e), Moves(e, f), Deliver(d, e, f),
         last[d].count < e.rx_deliv, StoredOK(d, e.window, e.rx_deliv)
  PROVE  /\ ~Misdelivered(d, e, f)
         /\ last'[d].key = last[d].key /\ last'[d].count < f.rx_deliv
         /\ \A c \in DOMAIN f.window :
              /\ f.window[c].count = c /\ last[d].key <= f.window[c].key
              /\ c < f.rx_deliv + window_size
<1>1. /\ e.rx_deliv \in Nat /\ f.rx_deliv \in Nat /\ window_size \in Nat /\ last[d].count \in Int
      /\ e.rx_deliv <= f.rx_deliv /\ DOMAIN e.window \subseteq Nat
      /\ \A c \in DOMAIN e.window : e.rx_deliv <= c
  BY PdcpSnAssumption, WindowType DEF EntityOK, Entities, Moves, window_size, TypeInv, RxTypes
<1>2. \A c \in Delivered(e, f) : c \in DOMAIN e.window /\ c < f.rx_deliv
  BY <1>1 DEF Delivered, Moves
<1>3. ~Misdelivered(d, e, f)
  <2> SUFFICES ASSUME NEW c \in Delivered(e, f)
               PROVE  ~(c <= last[d].count) /\ e.window[c].count = c /\ ~(e.window[c].key < last[d].key)
    BY Zenon DEF Misdelivered
  <2>1. c \in DOMAIN e.window
    BY <1>2, Zenon
  <2>2. e.window[c].key \in Nat /\ last[d].key \in Nat
    BY <2>1, WindowType, Zenon DEF EntityOK, Entities, Sdus, TypeInv, RxTypes
  <2> QED
    BY <1>1, <2>1, <2>2 DEF StoredOK
<1>4. last'[d].key = last[d].key /\ last'[d].count \in {last[d].count} \cup Delivered(e, f)
  BY DeliverEffect, Zenon
<1>5. last'[d].count < f.rx_deliv
  BY <1>1, <1>2, <1>4
<1>6. \A c \in DOMAIN f.window : c \in DOMAIN e.window /\ f.window[c] = e.window[c]
  BY Zenon DEF Moves
<1> QED
  BY <1>1, <1>3, <1>4, <1>5, <1>6 DEF StoredOK

(* So the other bearers are as they were, and this one is in order.        *)
LEMMA DeliveryKept ==
  ASSUME TypeInv, DeliveryInv, CountsAreSound,
         NEW d \in Drbs, NEW e, NEW f, EntityOK(e), Moves(e, f), Deliver(d, e, f),
         e.rx_deliv = rx[d].rx_deliv, StoredOK(d, e.window, e.rx_deliv),
         \A x \in Drbs : crypto'[x] \subseteq crypto[x] /\ verified'[x] \subseteq verified[x]
  PROVE  ~disordered' /\ \A x \in Drbs : DeliveryOK(x)'
<1>1. last[d].count < e.rx_deliv /\ ~disordered
  BY Zenon DEF DeliveryInv, DeliveryOK
<1>2. /\ ~Misdelivered(d, e, f)
      /\ last'[d].key = last[d].key /\ last'[d].count < f.rx_deliv
      /\ \A c \in DOMAIN f.window :
           /\ f.window[c].count = c /\ last[d].key <= f.window[c].key
           /\ c < f.rx_deliv + window_size
  BY <1>1, DeliveryMoves, Zenon
<1>3. ~disordered'
  BY <1>1, <1>2, Zenon DEF Deliver
<1>4. /\ rx'[d] = f /\ \A x \in Drbs \ {d} : rx'[x] = rx[x] /\ last'[x] = last[x]
  BY DeliverEffect, ZenonT(30)
<1>5. ASSUME NEW x \in Drbs PROVE DeliveryOK(x)'
  <2>1. CASE x = d
    <3>1. /\ e \in Entities /\ f \in Entities /\ e.rx_deliv <= f.rx_deliv
      BY Zenon DEF EntityOK, Moves
    <3>2. /\ \A p \in crypto'[d] : p.sdu.count \in Nat /\ p.sdu.count < e.rx_deliv + window_size
          /\ \A p \in verified'[d] : /\ p.sdu.count \in Nat /\ p.sdu.count < e.rx_deliv + window_size
                                     /\ p.ok => last[d].key <= p.sdu.key
      BY DEF DeliveryInv, DeliveryOK, TypeInv, PathTypes, Taken, Handed, Sdus
    <3>3. /\ \A p \in crypto'[d] : p.sdu.count < f.rx_deliv + window_size
          /\ \A p \in verified'[d] : p.sdu.count < f.rx_deliv + window_size
      BY <3>1, <3>2, PdcpSnAssumption DEF Entities, window_size
    <3> QED
      BY <1>2, <1>4, <2>1, <3>2, <3>3, Zenon DEF DeliveryOK, StoredOK
  <2>2. CASE x # d
    <3>1. rx'[x] = rx[x] /\ last'[x] = last[x] /\ DeliveryOK(x)
      BY <1>4, <2>2, Zenon DEF DeliveryInv
    <3> QED
      BY <3>1, Zenon DEF DeliveryOK, StoredOK
  <2> QED
    BY <2>1, <2>2, Zenon
<1> QED
  BY <1>3, <1>5, Zenon

LEMMA DeliveryFrame ==
  ASSUME DeliveryInv, UNCHANGED <<cfg, last, disordered, disturbed>>,
         \A d \in Drbs : /\ crypto'[d] \subseteq crypto[d] /\ verified'[d] \subseteq verified[d]
                         /\ rx'[d].rx_deliv = rx[d].rx_deliv /\ rx'[d].window = rx[d].window
  PROVE  DeliveryInv'
  BY DEF DeliveryInv, DeliveryOK, StoredOK, CountsAreSound, KeysReplacedWhenIdle

LEMMA DeliveryArrival ==
  ASSUME TypeInv, DeliveryInv, NEW d \in Drbs, NEW pdu \in Arriving(d), handle_data_pdu(d, pdu)
  PROVE  DeliveryInv'
<1> DEFINE new == [count |-> InferCount(SN(pdu.count), rx[d].rx_deliv), sdu |-> pdu]
<1>1. /\ crypto' = [crypto EXCEPT ![d] = @ \cup {new}]
      /\ UNCHANGED <<cfg, rx, verified, last, disordered, disturbed>>
  BY Zenon DEF handle_data_pdu, ghosts
<1>2. new.sdu = pdu
  OBVIOUS
<1> HIDE DEF new
<1>3. new.sdu.count < rx[d].rx_deliv + window_size
  BY <1>2, ArrivingType, Zenon
<1>4. /\ crypto'[d] = crypto[d] \cup {new} /\ \A x \in Drbs \ {d} : crypto'[x] = crypto[x]
  BY <1>1, Zenon DEF TypeInv, PathTypes
<1> QED
  BY <1>1, <1>3, <1>4 DEF DeliveryInv, DeliveryOK, StoredOK, CountsAreSound, KeysReplacedWhenIdle

LEMMA DeliverySecurity ==
  ASSUME TypeInv, PeerInv, DeliveryInv, NEW d \in Drbs, NEW pdu \in crypto[d], apply_security(d, pdu)
  PROVE  DeliveryInv'
<1> DEFINE v == [count |-> pdu.count, sdu |-> pdu.sdu,
                 ok |-> pdu.sdu.key = engine[d] /\ pdu.sdu.count = pdu.count]
<1>1. /\ crypto' = [crypto EXCEPT ![d] = @ \ {pdu}]
      /\ verified' = [verified EXCEPT ![d] = @ \cup {v}]
      /\ UNCHANGED <<cfg, rx, last, disordered, disturbed>>
  BY Zenon DEF apply_security, ghosts
<1>2. v.sdu = pdu.sdu /\ (v.ok => pdu.sdu.key = engine[d])
  BY Zenon
<1> HIDE DEF v
<1>3. v.ok => last[d].key <= v.sdu.key
  <2>1. last[d].key <= engine[d]
    BY DEF PeerInv, PeerOK, TypeInv, PathTypes
  <2> QED
    BY <1>2, <2>1, Zenon
<1>4. /\ crypto'[d] \subseteq crypto[d] /\ verified'[d] = verified[d] \cup {v}
      /\ \A x \in Drbs \ {d} : crypto'[x] = crypto[x] /\ verified'[x] = verified[x]
  BY <1>1, Zenon DEF TypeInv, PathTypes
<1> SUFFICES ASSUME CountsAreSound, NEW x \in Drbs PROVE ~disordered /\ DeliveryOK(x)'
  BY <1>1, Zenon DEF DeliveryInv, CountsAreSound, KeysReplacedWhenIdle
<1>5. ~disordered /\ DeliveryOK(x) /\ DeliveryOK(d)
  BY Zenon DEF DeliveryInv
<1>6. CASE x = d
  <2>1. \A p \in crypto'[d] : p.sdu.count < rx[d].rx_deliv + window_size
    BY <1>4, <1>5, Zenon DEF DeliveryOK
  <2>2. \A p \in verified'[d] : /\ p.sdu.count < rx[d].rx_deliv + window_size
                                /\ p.ok => last[d].key <= p.sdu.key
    BY <1>2, <1>3, <1>4, <1>5, Zenon DEF DeliveryOK
  <2> QED
    BY <1>1, <1>5, <1>6, <2>1, <2>2, Zenon DEF DeliveryOK, StoredOK
<1>7. CASE x # d
  BY <1>1, <1>4, <1>5, <1>7, Zenon DEF DeliveryOK, StoredOK
<1> QED
  BY <1>5, <1>6, <1>7, Zenon

LEMMA DeliveryReordering ==
  ASSUME TypeInv, PeerInv, DeliveryInv, NEW d \in Drbs, NEW pdu \in verified[d], apply_reordering(d, pdu)
  PROVE  DeliveryInv'
<1>1. /\ \A x \in Drbs : crypto'[x] \subseteq crypto[x] /\ verified'[x] \subseteq verified[x]
      /\ cfg' = cfg
  BY Zenon DEF apply_reordering, TypeInv, PathTypes
<1>2. CASE pdu.ok /\ pdu.count >= rx[d].rx_deliv
  <2>1. PICK e, f : /\ EntityOK(e) /\ Settled(e, f) /\ Deliver(d, e, f)
                    /\ e.rx_deliv = rx[d].rx_deliv
                    /\ DOMAIN e.window = DOMAIN rx[d].window \cup {pdu.count}
                    /\ \A c \in DOMAIN e.window :
                         e.window[c] = IF c = pdu.count THEN pdu.sdu ELSE rx[d].window[c]
    BY <1>2, StoredAndMoved, Zenon
  <2>2. disturbed' = disturbed /\ Moves(e, f)
    BY <2>1, Zenon DEF Deliver, Settled
  <2> SUFFICES ASSUME CountsAreSound PROVE ~disordered' /\ \A x \in Drbs : DeliveryOK(x)'
    BY <1>1, <2>2, Zenon DEF DeliveryInv, CountsAreSound, KeysReplacedWhenIdle
  <2>3. /\ pdu.sdu.count = pdu.count /\ last[d].key <= pdu.sdu.key
        /\ pdu.sdu.count < rx[d].rx_deliv + window_size
        /\ StoredOK(d, rx[d].window, rx[d].rx_deliv)
    BY <1>2, Zenon DEF PeerInv, PeerOK, DeliveryInv, DeliveryOK
  <2>4. StoredOK(d, e.window, e.rx_deliv)
    <3>1. ASSUME NEW c \in DOMAIN e.window
          PROVE  /\ e.window[c].count = c /\ last[d].key <= e.window[c].key
                 /\ c < rx[d].rx_deliv + window_size
      <4>1. CASE c = pdu.count
        BY <2>1, <2>3, <4>1, Zenon
      <4>2. CASE c # pdu.count
        BY <2>1, <2>3, <4>2, Zenon DEF StoredOK
      <4> QED
        BY <4>1, <4>2, Zenon
    <3> QED
      BY <2>1, <3>1, Zenon DEF StoredOK
  <2> QED
    BY <1>1, <2>1, <2>2, <2>4, DeliveryKept, Zenon
<1>3. CASE ~(pdu.ok /\ pdu.count >= rx[d].rx_deliv)
  BY <1>1, <1>3, DeliveryFrame, Zenon DEF apply_reordering, ghosts
<1> QED
  BY <1>2, <1>3, Zenon

(* Re-establishment over UM delivers what the window still holds.          *)
LEMMA FlushedInOrder ==
  ASSUME TypeInv, NEW d \in Drbs, DeliveryOK(d)
  PROVE  ~Misdelivered(d, rx[d], Entity(0, 0))
<1> SUFFICES ASSUME NEW c \in DOMAIN rx[d].window
             PROVE  /\ ~(c <= last[d].count) /\ rx[d].window[c].count = c
                    /\ ~(rx[d].window[c].key < last[d].key)
  BY Zenon DEF Misdelivered, Delivered
<1>1. EntityOK(rx[d]) /\ last[d].count \in Int /\ last[d].key \in Nat
  BY Zenon DEF TypeInv, RxTypes, RxOK
<1>2. /\ rx[d].window \in Windows /\ rx[d].rx_deliv \in Nat /\ rx[d].rx_next \in Nat
      /\ c \in rx[d].rx_deliv..(rx[d].rx_next - 1)
  BY <1>1 DEF EntityOK, Entities
<1>3. rx[d].window[c].key \in Nat
  BY <1>2, WindowType, Zenon DEF Sdus
<1>4. /\ last[d].count < rx[d].rx_deliv /\ rx[d].window[c].count = c
      /\ last[d].key <= rx[d].window[c].key
  BY Zenon DEF DeliveryOK, StoredOK
<1>5. c \in Int /\ rx[d].rx_deliv \in Int /\ rx[d].rx_deliv <= c
  BY <1>2
<1>6. /\ \A x, y, z \in Int : x < y /\ y <= z => ~(z <= x)
      /\ \A x, y \in Nat : x <= y => ~(y < x)
  OBVIOUS
<1>7. ~(c <= last[d].count)
  BY <1>1, <1>4, <1>5, <1>6, Zenon
<1>8. ~(rx[d].window[c].key < last[d].key)
  BY <1>1, <1>3, <1>4, <1>6, Zenon
<1> QED
  BY <1>4, <1>7, <1>8, Zenon

LEMMA DeliveryRestart ==
  ASSUME TypeInv, DeliveryInv, restart_pdu_processing
  PROVE  DeliveryInv'
<1>1. /\ UNCHANGED <<cfg, crypto, verified>> /\ disturbed' = disturbed \cup InProcessing
      /\ disordered' = (disordered \/ \E d \in Drbs : Misdelivered(d, rx[d], reestablish(rx[d])))
      /\ \A d \in Drbs :
           /\ rx'[d] = reestablish(rx[d])
           /\ last'[d] = IF cfg.mode = "um" THEN [count |-> -1, key |-> engine[d] + 1] ELSE last[d]
  BY Zenon DEF restart_pdu_processing
<1> SUFFICES ASSUME CountsAreSound' PROVE ~disordered' /\ \A d \in Drbs : DeliveryOK(d)'
  BY Zenon DEF DeliveryInv
<1>2. ~disordered /\ \A d \in Drbs : DeliveryOK(d)
  BY <1>1, Zenon DEF DeliveryInv, CountsAreSound, KeysReplacedWhenIdle
<1>3. CASE cfg.mode = "am"
  <2>1. \A d \in Drbs : reestablish(rx[d]) = rx[d] /\ rx'[d] = rx[d] /\ last'[d] = last[d]
    BY <1>1, <1>3, Zenon DEF reestablish
  <2>2. \A d \in Drbs : ~Misdelivered(d, rx[d], rx[d])
    BY Zenon DEF Misdelivered, Delivered
  <2>3. ~disordered'
    BY <1>1, <1>2, <2>1, <2>2, Zenon
  <2>4. ASSUME NEW d \in Drbs PROVE DeliveryOK(d)'
    <3>1. rx'[d] = rx[d] /\ last'[d] = last[d] /\ DeliveryOK(d)
      BY <1>2, <2>1, Zenon
    <3> QED
      BY <1>1, <3>1, Zenon DEF DeliveryOK, StoredOK
  <2> QED
    BY <2>3, <2>4, Zenon
<1>4. CASE cfg.mode = "um"
  <2>1. \A d \in Drbs : crypto[d] = {} /\ verified[d] = {}
    BY <1>1, <1>4, Zenon DEF CountsAreSound, KeysReplacedWhenIdle, InProcessing
  <2>2. /\ DOMAIN Entity(0, 0).window = {} /\ Entity(0, 0).rx_deliv = 0
    BY FreshEntity, Zenon
  <2>3. \A d \in Drbs : /\ reestablish(rx[d]) = Entity(0, 0) /\ rx'[d] = Entity(0, 0)
                        /\ last'[d].count = -1
    <3> TAKE d \in Drbs
    <3>1. reestablish(rx[d]) = Entity(0, 0)
      BY <1>4, Zenon DEF reestablish
    <3>2. last'[d] = [count |-> -1, key |-> engine[d] + 1]
      BY <1>1, <1>4, Zenon
    <3>3. last'[d].count = -1
      BY <3>2
    <3>4. rx'[d] = Entity(0, 0)
      BY <1>1, <3>1, Zenon
    <3> QED
      BY <3>1, <3>3, <3>4, Zenon
  <2>4. \A d \in Drbs : ~Misdelivered(d, rx[d], Entity(0, 0))
    BY <1>2, FlushedInOrder, Zenon
  <2>5. ASSUME NEW d \in Drbs PROVE DeliveryOK(d)'
    <3>1. /\ crypto'[d] = {} /\ verified'[d] = {} /\ last'[d].count = -1
          /\ DOMAIN rx'[d].window = {} /\ rx'[d].rx_deliv = 0
      BY <1>1, <2>1, <2>2, <2>3, Zenon
    <3> QED
      BY <3>1 DEF DeliveryOK, StoredOK
  <2> QED
    BY <1>1, <1>2, <2>3, <2>4, <2>5, Zenon
<1> QED
  BY <1>3, <1>4, Zenon DEF TypeInv, PathTypes

LEMMA DeliveryStep ==
  ASSUME TypeInv, PeerInv, DeliveryInv, [Next]_vars
  PROVE  DeliveryInv'
<1>1. ASSUME NEW d \in Drbs, PeerSends(d) \/ PeerRekeys(d) PROVE DeliveryInv'
  BY <1>1, DeliveryFrame, Zenon DEF PeerSends, PeerRekeys, processing, ghosts
<1>2. ASSUME NEW d \in Drbs, NEW pdu \in Arriving(d), handle_data_pdu(d, pdu) PROVE DeliveryInv'
  BY <1>2, DeliveryArrival, Zenon
<1>3. ASSUME NEW d \in Drbs, NEW pdu \in crypto[d], apply_security(d, pdu) PROVE DeliveryInv'
  BY <1>3, DeliverySecurity, Zenon
<1>4. ASSUME NEW d \in Drbs, NEW pdu \in crypto[d], DropVerified(d, pdu) PROVE DeliveryInv'
  <2>1. \A x \in Drbs : crypto'[x] \subseteq crypto[x] /\ verified'[x] \subseteq verified[x]
    BY <1>4, Zenon DEF DropVerified, TypeInv, PathTypes
  <2> QED
    BY <1>4, <2>1, DeliveryFrame, Zenon DEF DropVerified, ghosts
<1>5. ASSUME NEW d \in Drbs, NEW pdu \in verified[d], apply_reordering(d, pdu) PROVE DeliveryInv'
  BY <1>5, DeliveryReordering, Zenon
<1>6. ASSUME NEW d \in Drbs, reordering_callback(d) PROVE DeliveryInv'
  <2>1. UNCHANGED <<cfg, crypto, verified, disturbed>>
    BY <1>6, Zenon DEF reordering_callback, processing, Deliver
  <2>2. PICK e, f : /\ EntityOK(e) /\ Moves(e, f) /\ Deliver(d, e, f)
                    /\ e.rx_deliv = rx[d].rx_deliv /\ e.window = rx[d].window
    BY <1>6, ExpiredAndMoved, Zenon
  <2> SUFFICES ASSUME CountsAreSound PROVE ~disordered' /\ \A x \in Drbs : DeliveryOK(x)'
    BY <2>1, Zenon DEF DeliveryInv, CountsAreSound, KeysReplacedWhenIdle
  <2>3. StoredOK(d, e.window, e.rx_deliv)
    BY <2>2, Zenon DEF DeliveryInv, DeliveryOK
  <2> QED
    BY <2>1, <2>2, <2>3, DeliveryKept, Zenon
<1>7. CASE notify_pdu_processing_stopped \/ AwaitNext \/ Destroy \/ UNCHANGED vars
  BY <1>7, DeliveryFrame, Zenon
  DEF notify_pdu_processing_stopped, Start, AwaitNext, Destroy, vars, processing, ghosts
<1>8. CASE stop
  <2>1. \A d \in Drbs : rx'[d].rx_deliv = rx[d].rx_deliv /\ rx'[d].window = rx[d].window
    BY <1>8, Zenon DEF stop, TypeInv, RxTypes, Entities
  <2> QED
    BY <1>8, <2>1, DeliveryFrame, Zenon DEF stop, Start, ghosts
<1>9. CASE restart_pdu_processing
  BY <1>9, DeliveryRestart, Zenon
<1>10. ASSUME NEW d \in Drbs, remove_drb(d) PROVE DeliveryInv'
  <2>1. \A x \in Drbs : crypto'[x] \subseteq crypto[x] /\ verified'[x] \subseteq verified[x]
    BY <1>10, Zenon DEF remove_drb, TypeInv, PathTypes
  <2>2. \A x \in Drbs : rx'[x].rx_deliv = rx[x].rx_deliv /\ rx'[x].window = rx[x].window
    BY <1>10, Zenon DEF remove_drb, TypeInv, RxTypes, Entities
  <2> QED
    BY <1>10, <2>1, <2>2, DeliveryFrame, Zenon DEF remove_drb, ghosts
<1> QED
  BY <1>1, <1>2, <1>3, <1>4, <1>5, <1>6, <1>7, <1>8, <1>9, <1>10, Zenon DEF Next

LEMMA SafeDelivery == Spec => [](TypeInv /\ PeerInv /\ DeliveryInv)
<1>1. Init => PeerInv /\ DeliveryInv
  BY PeerInit, DeliveryInit, Zenon
<1>2. TypeInv /\ PeerInv /\ DeliveryInv /\ [Next]_vars => (PeerInv /\ DeliveryInv)'
  BY PeerStep, DeliveryStep, Zenon
<1> QED
  BY <1>1, <1>2, TypeAlways, PTL DEF Spec

(* For any number of bearers and whatever the queues drop: SDUs reach the  *)
(* upper layer in ascending order of COUNT, each at most once and as the   *)
(* one its sender numbered so, over AM always, and over UM as long as no   *)
(* key was replaced under a PDU in processing; and the COUNT inferred for  *)
(* a PDU under the current key is its sender's (handle_data_pdu,           *)
(* apply_reordering, reestablish).                                         *)
THEOREM OrderAcrossRekeying == Spec => []InOrderDelivery
<1>1. TypeInv /\ PeerInv /\ DeliveryInv => InOrderDelivery
  BY Zenon DEF DeliveryInv, PeerInv, PeerOK, InOrderDelivery
<1> QED
  BY <1>1, SafeDelivery, PTL

(* Under the same condition, an SDU waits only for a COUNT before it and   *)
(* within the window, and t-Reordering runs while one waits                *)
(* (apply_reordering, handle_t_reordering_expire).                         *)
THEOREM WaitingAcrossRekeying == Spec => []WaitingIsWatched
<1>1. ASSUME TypeInv, DeliveryInv PROVE WaitingIsWatched
  <2> SUFFICES ASSUME CountsAreSound, NEW d \in Drbs
               PROVE  LET e == rx[d] IN
                 /\ DOMAIN e.window \subseteq (e.rx_deliv + 1)..Min({e.rx_next - 1, e.rx_deliv + window_size - 1})
                 /\ cfg.t_reordering = "ms0" => e.rx_deliv = e.rx_next
                 /\ cfg.t_reordering = "finite" /\ e.rx_deliv < e.rx_next /\ ~stopped[d]
                      => e.reordering /\ e.rx_deliv < e.rx_reord /\ e.rx_reord <= e.rx_next
    BY Zenon DEF WaitingIsWatched
  <2> DEFINE e == rx[d]
             a == e.rx_next - 1
             b == e.rx_deliv + window_size - 1
  <2>1. RxOK(d) /\ DeliveryOK(d)
    BY <1>1, Zenon DEF TypeInv, RxTypes, DeliveryInv
  <2>2. /\ e.rx_deliv \in Nat /\ a \in Int /\ b \in Int /\ window_size \in Nat
        /\ DOMAIN e.window \subseteq Nat
    BY <2>1, PdcpSnAssumption, WindowType DEF RxOK, EntityOK, Entities, window_size
  <2>3. \A c \in DOMAIN e.window : e.rx_deliv + 1 <= c /\ c <= a /\ c <= b /\ c \in Nat
    <3> SUFFICES ASSUME NEW c \in DOMAIN e.window PROVE e.rx_deliv + 1 <= c /\ c <= a /\ c <= b /\ c \in Nat
      OBVIOUS
    <3>1. c \in e.rx_deliv..a /\ c # e.rx_deliv
      BY <2>1, Zenon DEF RxOK, EntityOK
    <3>2. c < e.rx_deliv + window_size
      BY <2>1, Zenon DEF DeliveryOK, StoredOK
    <3> QED
      BY <2>2, <3>1, <3>2
  <2>4. DOMAIN e.window \subseteq (e.rx_deliv + 1)..Min({a, b})
    <3> HIDE DEF a, b, e
    <3>1. Min({a, b}) = IF a <= b THEN a ELSE b
      BY <2>2, MinOfTwo, Zenon
    <3> QED
      BY <2>2, <2>3, <3>1
  <2> QED
    BY <2>1, <2>4, Zenon DEF RxOK, Watched, TimerSane
<1> QED
  BY <1>1, SafeDelivery, PTL
=============================================================================
