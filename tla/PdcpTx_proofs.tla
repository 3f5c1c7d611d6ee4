--------------------------- MODULE PdcpTx_proofs ---------------------------
(***************************************************************************)
(* Safety of the transmitting PDCP entity, for any size of the sequence    *)
(* number, maximum COUNT, discard time, number of keys and set of          *)
(* operations that fail.                                                   *)
(***************************************************************************)
EXTENDS PdcpTx, NumberLemmas, TLAPS

(* A COUNT less than half of the sequence numbers away from the one the    *)
(* entity expects is inferred from its sequence number.                    *)
LEMMA InferCountExact ==
  ASSUME NEW c \in 0..(CountMod - 1), NEW low \in Nat,
         low - window_size <= c, c < low + window_size
  PROVE  InferCount(SN(c), low) = c
<1>1. /\ SnCard \in Nat \ {0} /\ window_size \in Nat /\ SnCard = 2 * window_size
      /\ CountMod \in Nat \ {0}
  <2>1. SnCard \in Nat \ {0} /\ SnCard % 2 = 0 /\ CountMod \in Nat \ {0}
    BY PdcpSnAssumption
  <2> QED
    BY <2>1 DEF window_size
<1>2. c % CountMod = c
  BY <1>1, SmallMod
<1> QED
  BY <1>1, <1>2, NearQuotient DEF InferCount, COUNT, HFN, SN

(* Whatever the sequence number, a COUNT is inferred.                      *)
LEMMA InferCountType ==
  ASSUME NEW sn \in Nat, NEW low \in Nat
  PROVE  InferCount(sn, low) \in Nat
<1>1. SnCard \in Nat \ {0} /\ CountMod \in Nat \ {0} /\ window_size \in Int
  BY PdcpSnAssumption DEF window_size
<1>2. \A h \in Int : COUNT(h, sn) \in Nat
  <2> SUFFICES ASSUME NEW h \in Int PROVE COUNT(h, sn) \in Nat
    OBVIOUS
  <2>1. h * SnCard + sn \in Int
    BY <1>1
  <2> QED
    BY <1>1, <2>1, DivMod DEF COUNT
<1>3. SN(low) \in Int /\ HFN(low) \in Int
  BY <1>1, DivMod DEF SN, HFN
<1> QED
  BY <1>1, <1>2, <1>3 DEF InferCount

LEMMA WindowSize == window_size \in Nat \ {0}
<1>1. SnCard \in Nat \ {0} /\ SnCard % 2 = 0
  BY PdcpSnAssumption
<1> QED
  BY <1>1 DEF window_size

(* COUNTs less than a window apart have places of their own in the ring.   *)
LEMMA OwnPlaces ==
  ASSUME NEW c \in Nat, NEW d \in Nat, c < d, d - c < window_size
  PROVE  c % window_size # d % window_size
<1>1. window_size \in Nat \ {0}
  BY WindowSize
<1> DEFINE n == window_size
           h == c \div n
           k == d \div n
<1>2. /\ h \in Int /\ k \in Int /\ c % n \in Int /\ d % n \in Int
      /\ c = n * h + (c % n) /\ d = n * k + (d % n)
  BY <1>1, DivMod
<1>3. n \in Nat \ {0} /\ d - c < n
  BY <1>1
<1> HIDE DEF n, h, k
<1> SUFFICES ASSUME c % n = d % n PROVE FALSE
  BY DEF n
<1>4. n * k - n * h = d - c
  BY <1>2, <1>3
<1>5. n * (k - h) = n * k - n * h
  BY <1>2, <1>3
<1>6. k - h <= 0 \/ k - h >= 1
  BY <1>2
<1>7. k - h <= 0 => n * (k - h) <= 0
  BY <1>2, <1>3
<1>8. k - h >= 1 => n * (k - h) >= n
  BY <1>2, <1>3
<1> QED
  BY <1>2, <1>3, <1>4, <1>5, <1>6, <1>7, <1>8

-----------------------------------------------------------------------------
(* The state of one entity                                                 *)

Windows == UNION {[S -> Nat] : S \in SUBSET Nat}
TimerStates == [running : BOOLEAN, left : Int]
Entities == [tx_next : Nat, tx_trans : Nat, tx_next_ack : Nat, window : Windows,
             timer : TimerStates]

LEMMA WindowType ==
  ASSUME NEW w \in Windows
  PROVE  /\ DOMAIN w \subseteq Nat
         /\ \A c \in DOMAIN w : w[c] \in Nat
<1>1. PICK S \in SUBSET Nat : w \in [S -> Nat]
  BY DEF Windows
<1> QED
  BY <1>1

LEMMA IsWindow ==
  ASSUME NEW S \in SUBSET Nat, NEW w \in [S -> Nat]
  PROVE  w \in Windows /\ DOMAIN w = S
  BY DEF Windows

LEMMA EmptyWindow == <<>> \in Windows /\ DOMAIN <<>> = {}
<1>1. <<>> \in [{} -> Nat] /\ DOMAIN <<>> = {}
  OBVIOUS
<1> QED
  BY <1>1, IsWindow, Zenon

LEMMA WithoutType ==
  ASSUME NEW w \in Windows, NEW counts
  PROVE  /\ Without(w, counts) \in Windows
         /\ DOMAIN Without(w, counts) = DOMAIN w \ counts
         /\ \A c \in DOMAIN w \ counts : Without(w, counts)[c] = w[c]
<1>1. DOMAIN w \ counts \in SUBSET Nat
  BY WindowType
<1>2. Without(w, counts) \in [DOMAIN w \ counts -> Nat]
  BY WindowType DEF Without
<1> QED
  BY <1>1, <1>2, IsWindow DEF Without

LEMMA TimerType ==
  /\ Off \in TimerStates /\ ~Off.running
  /\ \A left \in Int : /\ Run(left) \in TimerStates /\ Run(left).running
                        /\ Run(left).left >= left
<1>1. Off \in TimerStates /\ ~Off.running
  BY DEF Off, TimerStates
<1>2. ASSUME NEW left \in Int
      PROVE  Run(left) \in TimerStates /\ Run(left).running /\ Run(left).left >= left
  <2>1. Max({left, 1}) \in Int /\ Max({left, 1}) >= left
    BY MaxOfTwo
  <2> QED
    BY <2>1 DEF Run, TimerStates
<1> QED
  BY <1>1, <1>2

(* The window holds COUNTs from TX_NEXT_ACK to TX_NEXT, fewer than a       *)
(* window apart, or nothing where the entity keeps none.                   *)
EntityOK(s, discard) ==
  /\ s \in Entities
  /\ s.tx_next_ack <= s.tx_next
  /\ DOMAIN s.window \subseteq s.tx_next_ack .. s.tx_next
  /\ discard # "none" => s.tx_next - s.tx_next_ack <= window_size - 1
  /\ discard = "none" => DOMAIN s.window = {}

(* TX_NEXT_ACK has its SDU, or nothing is outstanding.                     *)
OldestOK(s) == s.tx_next_ack = s.tx_next \/ has_sn(s.window, s.tx_next_ack)

(* An outstanding SDU is waited for with the timer.                        *)
Watched(s) == \A c \in DOMAIN s.window : c < s.tx_next => s.timer.running

(* The timer does not expire before the time of the SDU at TX_NEXT_ACK.    *)
Timed(s) ==
  /\ has_sn(s.window, s.tx_next_ack)
  /\ s.window[s.tx_next_ack] + s.timer.left >= DiscardTicks

-----------------------------------------------------------------------------
(* The helpers                                                             *)

LEMMA OldestFromType ==
  ASSUME NEW w \in Windows, NEW from \in Nat, NEW next \in Nat, from <= next
  PROVE  /\ OldestFrom(w, from, next) \in from .. next
         /\ OldestFrom(w, from, next) = next \/ has_sn(w, OldestFrom(w, from, next))
         /\ \A c \in DOMAIN w : from <= c /\ c < next => OldestFrom(w, from, next) <= c
<1> DEFINE S == {next} \cup {c \in DOMAIN w : from <= c /\ c < next}
<1>1. S \subseteq Nat /\ S # {}
  BY WindowType
<1>2. Min(S) \in S /\ \A k \in S : Min(S) <= k
  BY <1>1, MinOfNaturals
<1>3. OldestFrom(w, from, next) = Min(S)
  BY DEF OldestFrom
<1>4. DOMAIN w \subseteq Nat
  BY WindowType
<1> HIDE DEF S
<1>5. OldestFrom(w, from, next) \in S /\ \A k \in S : OldestFrom(w, from, next) <= k
  BY <1>2, <1>3
<1> QED
  BY <1>4, <1>5 DEF S, has_sn

Entity(next, trans, ack, w, timer) ==
  [tx_next |-> next, tx_trans |-> trans, tx_next_ack |-> ack, window |-> w, timer |-> timer]

LEMMA EntityShape ==
  ASSUME NEW s \in Entities
  PROVE  /\ s = Entity(s.tx_next, s.tx_trans, s.tx_next_ack, s.window, s.timer)
         /\ s.tx_next \in Nat /\ s.tx_trans \in Nat /\ s.tx_next_ack \in Nat
         /\ s.window \in Windows /\ s.timer \in TimerStates
  BY DEF Entity, Entities

(* discard_all removes what it is told of the outstanding SDUs and nothing *)
(* else, and TX_NEXT_ACK stays right.                                      *)
LEMMA DiscardAll ==
  ASSUME NEW s, EntityOK(s, cfg.discard), NEW counts, NEW r, r = discard_all(s, counts)
  PROVE  /\ EntityOK(r, cfg.discard)
         /\ r.tx_next = s.tx_next /\ r.timer = s.timer
         /\ DOMAIN r.window \subseteq DOMAIN s.window
         /\ DOMAIN s.window \ counts \subseteq DOMAIN r.window
         /\ \A c \in DOMAIN r.window : r.window[c] = s.window[c]
         /\ OldestOK(s) => OldestOK(r)
         /\ r.tx_next_ack = s.tx_next_ack /\ Timed(s) => Timed(r)
         /\ cfg.discard # "none"
              => \A c \in DOMAIN r.window : ~(c \in counts /\ InWindow(s, c))
<1> DEFINE gone == {c \in counts : InWindow(s, c) /\ has_sn(s.window, c)}
           w == Without(s.window, gone)
           ack == OldestFrom(w, s.tx_next_ack, s.tx_next)
<1>1. CASE cfg.discard = "none" \/ gone = {}
  <2>1. r = s
    BY <1>1 DEF discard_all
  <2> QED
    BY <1>1, <2>1 DEF has_sn
<1>2. CASE cfg.discard # "none" /\ gone # {}
  <2>1. /\ s \in Entities /\ s.window \in Windows /\ s.tx_next_ack \in Nat
        /\ s.tx_next \in Nat /\ s.tx_trans \in Nat /\ s.tx_next_ack <= s.tx_next
        /\ DOMAIN s.window \subseteq s.tx_next_ack .. s.tx_next
        /\ s.tx_next - s.tx_next_ack <= window_size - 1
    BY <1>2 DEF EntityOK, Entities
  <2>2. /\ w \in Windows /\ DOMAIN w = DOMAIN s.window \ gone
        /\ \A c \in DOMAIN w : w[c] = s.window[c]
    <3> HIDE DEF gone
    <3>1. w \in Windows /\ DOMAIN w = DOMAIN s.window \ gone
      BY <2>1, WithoutType, Zenon
    <3>2. \A c \in DOMAIN s.window \ gone : w[c] = s.window[c]
      BY DEF Without
    <3> QED
      BY <3>1, <3>2
  <2>3. /\ ack \in s.tx_next_ack .. s.tx_next
        /\ ack = s.tx_next \/ has_sn(w, ack)
        /\ \A c \in DOMAIN w : s.tx_next_ack <= c /\ c < s.tx_next => ack <= c
    BY <2>1, <2>2, OldestFromType, Zenon
  <2> DEFINE trans == Max({s.tx_trans, ack})
  <2>4. r = [s EXCEPT !.window = w, !.tx_next_ack = ack, !.tx_trans = trans]
    BY <1>2 DEF discard_all
  <2>5. trans \in Nat
    BY <2>1, <2>3, MaxOfTwo
  <2>6. \A c \in DOMAIN w : ~(c \in counts /\ InWindow(s, c))
    BY <2>2 DEF has_sn
  <2> HIDE DEF gone, w, ack, trans
  <2>7. /\ r \in Entities /\ r.window = w /\ r.tx_next_ack = ack /\ r.tx_next = s.tx_next
        /\ r.timer = s.timer
    <3>1. s.timer \in TimerStates /\ ack \in Nat
      BY <2>1, <2>3, EntityShape
    <3>2. r = Entity(s.tx_next, trans, ack, w, s.timer)
      BY <2>1, <2>4, EntityShape, Zenon DEF Entity
    <3> QED
      BY <2>1, <2>2, <2>5, <3>1, <3>2 DEF Entity, Entities
  <2>8. DOMAIN w \subseteq ack .. s.tx_next
    BY <2>1, <2>2, <2>3
  <2>9. s.tx_next - ack <= window_size - 1
    BY <2>1, <2>3, WindowSize
  <2>10. EntityOK(r, cfg.discard)
    BY <1>2, <2>3, <2>7, <2>8, <2>9 DEF EntityOK
  <2>11. DOMAIN s.window \ counts \subseteq DOMAIN w
    BY <2>2 DEF gone
  <2>12. ASSUME r.tx_next_ack = s.tx_next_ack, Timed(s) PROVE Timed(r)
    <3>1. ack = s.tx_next_ack /\ ack \in DOMAIN s.window
      BY <2>7, <2>12 DEF Timed, has_sn
    <3>2. ack \in DOMAIN w
      <4>1. CASE ack = s.tx_next
        BY <2>1, <2>2, <3>1, <4>1 DEF gone, InWindow
      <4>2. CASE has_sn(w, ack)
        BY <4>2 DEF has_sn
      <4> QED
        BY <2>3, <4>1, <4>2
    <3> QED
      BY <2>2, <2>7, <2>12, <3>1, <3>2 DEF Timed, has_sn
  <2>13. OldestOK(r)
    BY <2>3, <2>7 DEF OldestOK, has_sn
  <2> QED
    BY <1>2, <2>2, <2>6, <2>7, <2>10, <2>11, <2>12, <2>13
<1> QED
  BY <1>1, <1>2

(* ReleaseUpTo, for a COUNT that is outstanding.                           *)
LEMMA Released ==
  ASSUME NEW s, EntityOK(s, cfg.discard), cfg.discard # "none",
         NEW highest \in Nat, InWindow(s, highest), NEW r, r = ReleaseUpTo(s, highest)
  PROVE  /\ EntityOK(r, cfg.discard)
         /\ r.tx_next = s.tx_next /\ r.tx_next_ack = highest + 1 /\ r.timer = Off
         /\ DOMAIN r.window \subseteq DOMAIN s.window
         /\ DOMAIN s.window \ (0 .. highest) \subseteq DOMAIN r.window
<1> DEFINE w == Without(s.window, s.tx_next_ack .. highest)
           trans == Max({s.tx_trans, highest + 1})
<1>1. /\ s \in Entities /\ s.window \in Windows /\ s.tx_next_ack \in Nat
      /\ s.tx_next \in Nat /\ s.tx_trans \in Nat
      /\ DOMAIN s.window \subseteq s.tx_next_ack .. s.tx_next
      /\ s.tx_next - s.tx_next_ack <= window_size - 1
      /\ s.tx_next_ack <= highest /\ highest < s.tx_next
  BY DEF EntityOK, Entities, InWindow
<1>2. w \in Windows /\ DOMAIN w = DOMAIN s.window \ (s.tx_next_ack .. highest)
  BY <1>1, WithoutType, Zenon
<1>3. trans \in Nat /\ highest + 1 \in Nat
  <2>1. \A a, b \in Nat : Max({a, b}) \in Nat
    BY MaxOfTwo
  <2> QED
    BY <1>1, <2>1
<1>4. r = [s EXCEPT !.window = w, !.tx_next_ack = highest + 1, !.tx_trans = trans, !.timer = Off]
  BY DEF ReleaseUpTo
<1> HIDE DEF w, trans
<1>5. /\ r \in Entities /\ r.window = w /\ r.tx_next_ack = highest + 1
      /\ r.tx_next = s.tx_next /\ r.timer = Off
  <2>1. r = Entity(s.tx_next, trans, highest + 1, w, Off)
    BY <1>1, <1>4, Zenon DEF Entity, Entities
  <2> QED
    BY <1>1, <1>2, <1>3, <2>1, TimerType DEF Entity, Entities
<1>6. DOMAIN w \subseteq (highest + 1) .. s.tx_next
  BY <1>1, <1>2
<1>7. s.tx_next - (highest + 1) <= window_size - 1 /\ highest + 1 <= s.tx_next
  BY <1>1, WindowSize
<1>8. EntityOK(r, cfg.discard)
  BY <1>5, <1>6, <1>7 DEF EntityOK
<1>9. DOMAIN s.window \ (0 .. highest) \subseteq DOMAIN w
  BY <1>1, <1>2
<1> QED
  BY <1>2, <1>5, <1>8, <1>9

(* Both notifications end in Release.  When it does not end the program,   *)
(* the oldest SDU that is left has its timer.                              *)
LEMMA ReleaseStep ==
  ASSUME NEW s, EntityOK(s, cfg.discard), NEW count \in Nat, Release(s, count)
  PROVE  /\ EntityOK(e', cfg.discard)
         /\ e'.tx_next = s.tx_next
         /\ DOMAIN e'.window \subseteq DOMAIN s.window
         /\ DOMAIN s.window \ (0 .. count) \subseteq DOMAIN e'.window
         /\ cfg.discard = "finite" /\ ~aborted' /\ OldestOK(s) /\ Watched(s)
              => OldestOK(e') /\ Watched(e')
         /\ ~StopApplies(s, count) => e' = s
         /\ StopApplies(s, count) /\ e'.timer.running => Timed(e')
<1> DEFINE r == ReleaseUpTo(s, count)
<1>1. CASE ~StopApplies(s, count)
  <2>1. StopOk(s, count)
    BY <1>1 DEF StopOk
  <2>2. e' = s
    BY <1>1, <2>1 DEF Release, stop_discard_timer
  <2> QED
    BY <1>1, <2>2
<1>2. CASE StopApplies(s, count)
  <2>1. /\ EntityOK(r, cfg.discard)
        /\ r.tx_next = s.tx_next /\ r.tx_next_ack = count + 1 /\ r.timer = Off
        /\ DOMAIN r.window \subseteq DOMAIN s.window
        /\ DOMAIN s.window \ (0 .. count) \subseteq DOMAIN r.window
    BY <1>2, Released DEF StopApplies
  <2>2. StopOk(s, count) = (NeedsTimer(r) => has_sn(r.window, r.tx_next_ack) /\ Remaining(r) >= 0)
    BY <1>2 DEF StopOk
  <2>3. stop_discard_timer(s, count)
          = IF NeedsTimer(r) THEN [r EXCEPT !.timer = Run(Remaining(r))] ELSE r
    BY <1>2 DEF stop_discard_timer
  <2>4. \/ ~StopOk(s, count) /\ e' = r /\ aborted'
        \/ StopOk(s, count) /\ e' = stop_discard_timer(s, count)
    BY DEF Release
  <2> HIDE DEF r
  <2>5. CASE ~StopOk(s, count)
    BY <1>2, <2>1, <2>4, <2>5, TimerType
  <2>6. CASE StopOk(s, count) /\ ~NeedsTimer(r)
    <3>1. e' = r
      BY <2>3, <2>4, <2>6
    <3>2. r.tx_next \in Nat /\ DOMAIN r.window \subseteq r.tx_next_ack .. r.tx_next
          /\ r.tx_next_ack \in Nat
      BY <2>1 DEF EntityOK, Entities
    <3>3. cfg.discard = "finite" => OldestOK(r) /\ Watched(r)
      BY <2>6, <3>2 DEF NeedsTimer, OldestOK, Watched
    <3> QED
      BY <1>2, <2>1, <3>1, <3>3, TimerType
  <2>7. CASE StopOk(s, count) /\ NeedsTimer(r)
    <3>1. has_sn(r.window, r.tx_next_ack)
      BY <2>2, <2>7, Zenon
    <3>2. e' = [r EXCEPT !.timer = Run(Remaining(r))]
      BY <2>3, <2>4, <2>7
    <3>3. r \in Entities /\ r.window \in Windows
      BY <2>1 DEF EntityOK, Entities
    <3>4. r.window[r.tx_next_ack] \in Nat
      BY <3>1, <3>3, WindowType DEF has_sn
    <3>5. Remaining(r) \in Int
      BY <3>4, PdcpTxAssumption DEF Remaining
    <3> DEFINE timer == Run(Remaining(r))
    <3>6. timer \in TimerStates /\ timer.running /\ timer.left >= Remaining(r)
      BY <3>5, TimerType
    <3>7. e' = [r EXCEPT !.timer = timer]
      BY <3>2
    <3> HIDE DEF timer
    <3>8. /\ e' \in Entities /\ e'.window = r.window /\ e'.tx_next = r.tx_next
          /\ e'.tx_next_ack = r.tx_next_ack /\ e'.timer = timer
      BY <3>3, <3>6, <3>7 DEF Entities
    <3>9. EntityOK(e', cfg.discard)
      BY <2>1, <3>8 DEF EntityOK
    <3>10. OldestOK(e') /\ Watched(e')
      BY <3>1, <3>6, <3>8 DEF OldestOK, Watched
    <3>11. Timed(e')
      <4>1. Remaining(r) = DiscardTicks - r.window[r.tx_next_ack] /\ DiscardTicks \in Nat
        BY PdcpTxAssumption DEF Remaining
      <4>2. timer.left \in Int
        BY <3>6 DEF TimerStates
      <4>3. r.window[r.tx_next_ack] + timer.left >= DiscardTicks
        BY <3>4, <3>6, <4>1, <4>2
      <4> QED
        BY <3>1, <3>8, <4>3 DEF Timed
    <3> QED
      BY <1>2, <2>1, <3>8, <3>9, <3>10, <3>11
  <2> QED
    BY <2>5, <2>6, <2>7
<1> QED
  BY <1>1, <1>2

(* Setting the timer changes nothing else.                                 *)
LEMMA TimerSet ==
  ASSUME NEW s, NEW discard, EntityOK(s, discard), NEW timer \in TimerStates,
         NEW r, r = [s EXCEPT !.timer = timer]
  PROVE  /\ EntityOK(r, discard) /\ r.timer = timer
         /\ r.tx_next = s.tx_next /\ r.tx_next_ack = s.tx_next_ack /\ r.window = s.window
<1>1. s \in Entities
  BY DEF EntityOK
<1>2. /\ r \in Entities /\ r.window = s.window /\ r.tx_next = s.tx_next
      /\ r.tx_next_ack = s.tx_next_ack /\ r.timer = timer
  BY <1>1 DEF Entities
<1> QED
  BY <1>2 DEF EntityOK

(* When the timer expires for the oldest SDU, the ones of its tick go with *)
(* it, and the next one gets the timer.                                    *)
LEMMA CallbackStep ==
  ASSUME NEW s, EntityOK(s, cfg.discard), NEW r, r = discard_callback(s)
  PROVE  /\ EntityOK(r, cfg.discard) /\ r.tx_next = s.tx_next
         /\ cfg.discard = "finite" /\ OldestOK(s) => OldestOK(r) /\ Watched(r)
         /\ Timed(s) /\ s.timer.left <= 0
              => /\ r.timer.running => Timed(r)
                 /\ \A c \in DOMAIN s.window \ DOMAIN r.window : s.window[c] >= DiscardTicks
<1>1. /\ s \in Entities /\ s.window \in Windows /\ s.tx_next_ack \in Nat /\ s.tx_next \in Nat
      /\ DOMAIN s.window \subseteq s.tx_next_ack .. s.tx_next
  BY DEF EntityOK, Entities
<1> DEFINE q == [s EXCEPT !.timer = Off]
<1>2. /\ EntityOK(q, cfg.discard) /\ q.timer = Off
      /\ q.tx_next = s.tx_next /\ q.tx_next_ack = s.tx_next_ack /\ q.window = s.window
  BY TimerSet, TimerType
<1>3. CASE ~has_sn(s.window, s.tx_next_ack)
  <2>1. r = q
    BY <1>3 DEF discard_callback
  <2> QED
    BY <1>1, <1>2, <1>3, <2>1 DEF OldestOK, Watched, Timed
<1>4. CASE has_sn(s.window, s.tx_next_ack)
  <2> DEFINE old == s.window[s.tx_next_ack]
             p == discard_all(q, SameTick(s))
             next == p.window[p.tx_next_ack]
  <2>1. r = IF has_sn(p.window, p.tx_next_ack) /\ next # old
            THEN [p EXCEPT !.timer = Run(old - next)] ELSE p
    BY <1>4 DEF discard_callback
  <2> HIDE DEF q
  <2>2. OldestOK(s) => OldestOK(q)
    BY <1>2 DEF OldestOK
  <2>3. /\ EntityOK(p, cfg.discard)
        /\ p.tx_next = s.tx_next /\ p.timer = Off
        /\ DOMAIN p.window \subseteq DOMAIN s.window
        /\ DOMAIN s.window \ SameTick(s) \subseteq DOMAIN p.window
        /\ \A c \in DOMAIN p.window : p.window[c] = s.window[c]
        /\ OldestOK(s) => OldestOK(p)
        /\ cfg.discard = "finite"
             => \A c \in DOMAIN p.window : ~(c \in SameTick(s) /\ InWindow(s, c))
    BY <1>2, <2>2, DiscardAll DEF InWindow
  <2> HIDE DEF p
  <2>4. /\ p \in Entities /\ p.window \in Windows /\ p.tx_next_ack \in Nat
        /\ DOMAIN p.window \subseteq p.tx_next_ack .. p.tx_next
    BY <2>3 DEF EntityOK, Entities
  <2>5. old \in Nat
    BY <1>1, <1>4, WindowType DEF has_sn
  <2>6. Timed(s) /\ s.timer.left <= 0 => old >= DiscardTicks
    <3>1. s.timer.left \in Int /\ DiscardTicks \in Nat
      BY <1>1, PdcpTxAssumption DEF Entities, TimerStates
    <3> QED
      BY <2>5, <3>1 DEF Timed
  <2>7. \A c \in DOMAIN s.window \ DOMAIN p.window : s.window[c] = old
    <3> SUFFICES ASSUME NEW c \in DOMAIN s.window, c \notin DOMAIN p.window
                 PROVE  s.window[c] = old
      OBVIOUS
    <3>1. c \in SameTick(s) /\ c \in Nat
      BY <1>1, <2>3
    <3> QED
      BY <3>1 DEF SameTick
  <2>8. CASE has_sn(p.window, p.tx_next_ack) /\ next # old
    <3>1. next \in Nat
      BY <2>4, <2>8, WindowType DEF has_sn
    <3> DEFINE timer == Run(old - next)
    <3>2. timer \in TimerStates /\ timer.running /\ timer.left >= old - next
      BY <2>5, <3>1, TimerType
    <3>3. r = [p EXCEPT !.timer = timer]
      BY <2>1, <2>8
    <3> HIDE DEF timer
    <3>4. /\ EntityOK(r, cfg.discard) /\ r.timer = timer
          /\ r.tx_next = p.tx_next /\ r.tx_next_ack = p.tx_next_ack /\ r.window = p.window
      BY <2>3, <3>2, <3>3, TimerSet
    <3>5. OldestOK(s) => OldestOK(r) /\ Watched(r)
      BY <2>3, <3>2, <3>4 DEF OldestOK, Watched
    <3>6. old >= DiscardTicks => Timed(r)
      <4>1. timer.left \in Int /\ DiscardTicks \in Nat
        BY <3>2, PdcpTxAssumption DEF TimerStates
      <4>2. old >= DiscardTicks => next + timer.left >= DiscardTicks
        BY <2>5, <3>1, <3>2, <4>1
      <4> QED
        BY <2>8, <3>4, <4>2 DEF Timed
    <3> QED
      BY <2>3, <2>6, <2>7, <3>4, <3>5, <3>6
  <2>9. CASE ~(has_sn(p.window, p.tx_next_ack) /\ next # old)
    <3>1. r = p /\ ~p.timer.running
      BY <2>1, <2>3, <2>9, TimerType
    <3>2. SUFFICES ASSUME cfg.discard = "finite", OldestOK(s),
                          NEW c \in DOMAIN p.window, c < p.tx_next
                   PROVE  FALSE
      BY <2>3, <2>6, <2>7, <3>1 DEF Watched
    <3> DEFINE m == p.tx_next_ack
    <3>3. m < s.tx_next /\ m \in DOMAIN p.window /\ s.window[m] = old
      BY <1>1, <2>3, <2>4, <2>9, <3>2 DEF OldestOK, has_sn
    <3>4. \A d \in DOMAIN s.window : InWindow(s, d) /\ d <= m => s.window[d] = old
      <4> SUFFICES ASSUME NEW d \in DOMAIN s.window, InWindow(s, d), d <= m, d # m
                   PROVE  s.window[d] = old
        BY <3>3
      <4>1. d < m
        BY <1>1, <2>4
      <4>2. d \notin DOMAIN p.window
        BY <1>1, <2>4, <4>1
      <4>3. d \in SameTick(s)
        BY <2>3, <4>2
      <4> QED
        BY <1>1, <4>3 DEF SameTick
    <3>5. InWindow(s, m) /\ m \in DOMAIN s.window
      BY <1>1, <2>3, <3>3 DEF InWindow
    <3>6. m \in SameTick(s)
      BY <3>4, <3>5 DEF SameTick
    <3> QED
      BY <2>3, <3>2, <3>3, <3>5, <3>6
  <2> QED
    BY <2>8, <2>9
<1> QED
  BY <1>3, <1>4

(* A new SDU takes an empty place: the window is less than a window long.  *)
LEMMA AddSdu ==
  ASSUME NEW w \in Windows, NEW low \in Nat, NEW next \in Nat,
         DOMAIN w \subseteq low .. next, next \notin DOMAIN w, next - low <= window_size - 1
  PROVE  /\ add_sdu(w, next) \in Windows
         /\ DOMAIN add_sdu(w, next) = DOMAIN w \cup {next}
         /\ add_sdu(w, next)[next] = 0
         /\ \A c \in DOMAIN w : add_sdu(w, next)[c] = w[c]
<1> DEFINE kept == {c \in DOMAIN w : c % window_size # next % window_size}
<1>1. kept = DOMAIN w
  <2> SUFFICES ASSUME NEW c \in DOMAIN w PROVE c % window_size # next % window_size
    BY Zenon
  <2>1. c \in Nat /\ c < next /\ next - c < window_size
    BY WindowSize
  <2> QED
    BY <2>1, OwnPlaces
<1>2. add_sdu(w, next) = [c \in DOMAIN w \cup {next} |-> IF c = next THEN 0 ELSE w[c]]
  BY <1>1 DEF add_sdu
<1>3. DOMAIN w \cup {next} \in SUBSET Nat
  BY WindowType
<1>4. add_sdu(w, next) \in [DOMAIN w \cup {next} -> Nat]
  BY <1>2, WindowType
<1>5. add_sdu(w, next)[next] = 0 /\ \A c \in DOMAIN w : add_sdu(w, next)[c] = w[c]
  BY <1>2
<1> QED
  BY <1>3, <1>4, <1>5, IsWindow

(* Beyond what was sent, and beyond nothing.                               *)
LEMMA BeyondBound ==
  ASSUME NEW counts, NEW next \in Nat, \A c \in counts : c \in Nat /\ c < next
  PROVE  Beyond(counts) \in 0 .. next
<1> DEFINE S == {0} \cup {c + 1 : c \in counts}
<1>1. S \subseteq Int /\ S # {} /\ \A k \in S : k \in 0 .. next
  OBVIOUS
<1>2. Max(S) \in S
  <2> HIDE DEF S
  <2>1. next \in Int /\ S \subseteq Int /\ S # {} /\ \A k \in S : k <= next
    BY <1>1
  <2> QED
    BY <2>1, MaxOfBounded, Zenon
<1> QED
  BY <1>1, <1>2 DEF Beyond

LEMMA NaturalMax ==
  ASSUME NEW a \in Nat, NEW b \in Nat
  PROVE  Max({a, b}) \in Nat /\ (Max({a, b}) = a \/ Max({a, b}) = b)
  BY MaxOfTwo

-----------------------------------------------------------------------------
(* The invariant.  CountNotReused and NothingLostSilently are part of it   *)
(* as they stand.  They rest on the window being shorter than              *)
(* window_size, and WindowIsWatched on TX_NEXT_ACK naming the oldest SDU,  *)
(* for the one timer is set for the SDU at TX_NEXT_ACK.  That no SDU is    *)
(* discarded early rests on Timely: unless it is an orphan, the running    *)
(* timer belongs to the SDU at TX_NEXT_ACK and gives it its whole time.    *)
KeysOK == used \in Nat /\ CountNotReused

Timely == Live /\ e.timer.running /\ ~orphan => Timed(e)

TxInv ==
  /\ cfg \in Cfgs
  /\ EntityOK(e, cfg.discard)
  /\ e.tx_next <= MaxHard
  /\ KeysOK
  /\ NothingLostSilently
  /\ cfg.discard = "finite" /\ Live => OldestOK(e)
  /\ WindowIsWatched
  /\ Timely

LEMMA CfgType ==
  ASSUME cfg \in Cfgs
  PROVE  cfg.drb <=> cfg.discard # "none"
  BY PdcpTxAssumption DEF SRB, AM, UM

LEMMA TxInit ==
  ASSUME Init
  PROVE  TxInv
<1>1. /\ e.tx_next = InitCount /\ e.tx_trans = InitCount /\ e.tx_next_ack = InitCount
      /\ e.window = <<>> /\ e.timer = Off
      /\ InitCount \in Nat /\ InitCount <= MaxHard
  BY PdcpTxAssumption DEF Init
<1>2. e \in Entities
  BY <1>1, TimerType, EmptyWindow DEF Init, Entities
<1>3. EntityOK(e, cfg.discard) /\ OldestOK(e) /\ WindowIsWatched
  BY <1>1, <1>2, EmptyWindow, WindowSize DEF EntityOK, OldestOK, WindowIsWatched
<1>4. Timely
  BY <1>1, TimerType DEF Timely
<1>5. KeysOK
  BY <1>1 DEF Init, KeysOK, CountNotReused
<1> QED
  BY <1>1, <1>3, <1>4, <1>5 DEF Init, TxInv, NothingLostSilently

(* What every lemma below needs of the state.                              *)
LEMMA TxFacts ==
  ASSUME TxInv
  PROVE  /\ e \in Entities /\ e.tx_next \in Nat /\ e.tx_next_ack \in Nat /\ e.tx_trans \in Nat
         /\ e.window \in Windows /\ e.timer \in TimerStates
         /\ e.tx_next_ack <= e.tx_next
         /\ DOMAIN e.window \subseteq e.tx_next_ack .. e.tx_next
         /\ EntityOK(e, cfg.discard)
         /\ used \in Nat /\ lost = {}
         /\ e.tx_next <= MaxHard /\ MaxHard \in Nat
  BY PdcpTxAssumption DEF TxInv, EntityOK, Entities, KeysOK, NothingLostSilently

(* Steps that leave the entity alone, or the keys.                         *)
LEMMA EntityKept ==
  ASSUME TxInv, KeysOK', UNCHANGED <<cfg, e, lost, orphan, stopped>>, aborted => aborted'
  PROVE  TxInv'
<1>1. /\ cfg' \in Cfgs /\ EntityOK(e', cfg'.discard) /\ e'.tx_next <= MaxHard
      /\ NothingLostSilently'
  BY DEF TxInv, NothingLostSilently
<1>2. Live' => Live
  BY DEF Live
<1>3. cfg'.discard = "finite" /\ Live' => OldestOK(e')
  BY <1>2 DEF TxInv
<1>4. WindowIsWatched'
  BY DEF TxInv, WindowIsWatched
<1>5. Timely'
  BY <1>2 DEF TxInv, Timely, Timed
<1> QED
  BY <1>1, <1>3, <1>4, <1>5, Zenon DEF TxInv

LEMMA KeysKept ==
  ASSUME KeysOK, UNCHANGED <<cfg, used, stale>>, e'.tx_next = e.tx_next
  PROVE  KeysOK'
  BY DEF KeysOK, CountNotReused

(* Steps of a live entity that change its window.                          *)
LEMMA EntityStep ==
  ASSUME TxInv, KeysOK', lost' = {}, cfg' = cfg, e'.tx_next <= MaxHard,
         EntityOK(e', cfg.discard),
         cfg.discard = "finite" /\ Live' => OldestOK(e'),
         cfg.discard = "finite" /\ ~aborted' => Watched(e'), Timely'
  PROVE  TxInv'
<1>1. WindowIsWatched'
  BY DEF WindowIsWatched, Watched
<1>2. cfg' \in Cfgs
  BY DEF TxInv
<1> QED
  BY <1>1, <1>2 DEF TxInv, NothingLostSilently

-----------------------------------------------------------------------------
(* One lemma for each group of actions                                     *)

LEMMA SendStep ==
  ASSUME TxInv, Live, ~(cfg.drb /\ check_early_drop), e.tx_next < MaxHard,
         NEW fail, SendSdu(fail)
  PROVE  TxInv'
<1>1. /\ e \in Entities /\ e.tx_next \in Nat /\ e.tx_next_ack \in Nat /\ e.window \in Windows
      /\ EntityOK(e, cfg.discard) /\ MaxHard \in Nat
      /\ e.tx_next_ack <= e.tx_next
      /\ DOMAIN e.window \subseteq e.tx_next_ack .. e.tx_next
      /\ used \in Nat /\ lost = {} /\ e.timer \in TimerStates
  BY TxFacts
<1>2. cfg' = cfg /\ stopped' = stopped /\ stale' = stale
  BY DEF SendSdu
<1> DEFINE count == e.tx_next
           timed == WithTimer(e)
           freed == IF has_sn(timed.window, count) THEN discard_pdu(timed, count) ELSE timed
           stored == IF cfg.discard = "none" THEN e
                     ELSE [freed EXCEPT !.window = add_sdu(freed.window, count)]
<1>3. /\ EntityOK(timed, cfg.discard)
      /\ timed.tx_next = e.tx_next /\ timed.tx_next_ack = e.tx_next_ack
      /\ timed.window = e.window
      /\ cfg.discard = "finite" => timed.timer.running
      /\ \/ timed.timer = e.timer
         \/ /\ cfg.discard = "finite" /\ ~e.timer.running
            /\ timed.timer.left \in Int /\ timed.timer.left >= DiscardTicks
  <2>1. CASE cfg.discard = "finite" /\ ~e.timer.running
    <3>1. DiscardTicks \in Int
      BY PdcpTxAssumption
    <3>2. /\ Run(DiscardTicks) \in TimerStates /\ Run(DiscardTicks).running
          /\ Run(DiscardTicks).left >= DiscardTicks
      BY <3>1, TimerType
    <3>3. timed = [e EXCEPT !.timer = Run(DiscardTicks)]
      BY <2>1 DEF WithTimer
    <3>4. Run(DiscardTicks).left \in Int
      BY <3>2 DEF TimerStates
    <3> HIDE DEF timed
    <3> QED
      BY <1>1, <2>1, <3>2, <3>3, <3>4, TimerSet
  <2>2. CASE ~(cfg.discard = "finite" /\ ~e.timer.running)
    <3>1. timed = e
      BY <2>2 DEF WithTimer
    <3> QED
      BY <1>1, <2>2, <3>1
  <2> QED
    BY <2>1, <2>2
<1>4. freed = timed
  <2>1. ~InWindow(timed, count)
    BY <1>1, <1>3 DEF InWindow
  <2>2. discard_pdu(timed, count) = timed
    BY <2>1 DEF discard_pdu, discard_all
  <2> QED
    BY <2>2
<1>5. \/ /\ fail = "copy" /\ cfg.am /\ cfg.discard # "none"
         /\ e' = freed
         /\ Leave(freed.window, {})
         /\ orphan' = (orphan \/ freed.timer # e.timer)
         /\ UNCHANGED <<aborted, used>>
      \/ /\ fail # "copy" /\ cfg.discard # "none" /\ has_sn(freed.window, count)
         /\ aborted' = TRUE
         /\ UNCHANGED <<e, used, lost, orphan>>
      \/ /\ fail = "header" /\ ~has_sn(freed.window, count)
         /\ e' = stored
         /\ Leave(stored.window, {})
         /\ UNCHANGED <<aborted, used, orphan>>
      \/ /\ fail = "none" /\ ~has_sn(freed.window, count)
         /\ e' = [stored EXCEPT !.tx_next = count + 1]
         /\ Leave(stored.window, {})
         /\ Use({count})
         /\ UNCHANGED <<aborted, orphan>>
  BY DEF SendSdu
<1>6. stored = IF cfg.discard = "none" THEN e
               ELSE [timed EXCEPT !.window = add_sdu(timed.window, count)]
  BY <1>4
<1> HIDE DEF timed, freed, stored
<1>7. ASSUME ~has_sn(timed.window, count)
      PROVE  /\ EntityOK(stored, cfg.discard)
             /\ stored.tx_next = e.tx_next /\ stored.tx_next_ack = e.tx_next_ack
             /\ DOMAIN e.window \subseteq DOMAIN stored.window
             /\ cfg.discard # "none" => DOMAIN stored.window = DOMAIN e.window \cup {count}
             /\ cfg.discard = "finite" => stored.timer.running
             /\ \A c \in DOMAIN e.window : stored.window[c] = e.window[c]
             /\ \/ stored.timer = e.timer
                \/ /\ cfg.discard = "finite" /\ ~e.timer.running /\ stored.window[count] = 0
                   /\ stored.timer.left \in Int /\ stored.timer.left >= DiscardTicks
  <2>1. CASE cfg.discard = "none"
    BY <1>1, <1>6, <2>1
  <2>2. CASE cfg.discard # "none"
    <3> DEFINE w == add_sdu(timed.window, count)
    <3>1. /\ w \in Windows /\ DOMAIN w = DOMAIN e.window \cup {count}
          /\ w[count] = 0 /\ \A c \in DOMAIN e.window : w[c] = e.window[c]
      <4>1. e.tx_next - e.tx_next_ack <= window_size - 1 /\ count \notin DOMAIN e.window
        BY <1>3, <1>7, <2>2 DEF EntityOK, has_sn
      <4>2. w = add_sdu(e.window, e.tx_next)
        BY <1>3
      <4> HIDE DEF w
      <4>3. /\ add_sdu(e.window, e.tx_next) \in Windows
            /\ DOMAIN add_sdu(e.window, e.tx_next) = DOMAIN e.window \cup {e.tx_next}
            /\ add_sdu(e.window, e.tx_next)[e.tx_next] = 0
            /\ \A c \in DOMAIN e.window : add_sdu(e.window, e.tx_next)[c] = e.window[c]
        BY <1>1, <4>1, AddSdu, Zenon
      <4> QED
        BY <4>2, <4>3
    <3>2. stored = [timed EXCEPT !.window = w]
      BY <1>6, <2>2
    <3>3. timed \in Entities
      BY <1>3 DEF EntityOK
    <3> HIDE DEF w
    <3>4. /\ stored \in Entities /\ stored.window = w /\ stored.tx_next = timed.tx_next
          /\ stored.tx_next_ack = timed.tx_next_ack /\ stored.timer = timed.timer
      <4>1. stored = Entity(timed.tx_next, timed.tx_trans, timed.tx_next_ack, w, timed.timer)
        BY <3>2, <3>3 DEF Entity, Entities
      <4> QED
        BY <3>1, <3>3, <4>1 DEF Entity, Entities
    <3>5. EntityOK(stored, cfg.discard)
      BY <1>1, <1>3, <2>2, <3>1, <3>4 DEF EntityOK
    <3> QED
      BY <1>3, <2>2, <3>1, <3>4, <3>5
  <2> QED
    BY <2>1, <2>2
(* The SDU at TX_NEXT_ACK is older than the new one, or it is the new one. *)
<1>8. ASSUME NEW s, ~has_sn(timed.window, count), ~orphan, s.timer = stored.timer,
             s.window = stored.window, s.tx_next_ack = stored.tx_next_ack, s.timer.running
      PROVE  Timed(s)
  <2>1. CASE e.timer.running
    <3>1. Timed(e)
      BY <1>8, <2>1 DEF TxInv, Timely
    <3>2. stored.timer = e.timer
      BY <1>7, <1>8, <2>1
    <3> QED
      BY <1>7, <1>8, <3>1, <3>2 DEF Timed, has_sn
  <2>2. CASE ~e.timer.running
    <3>1. stored.timer # e.timer
      BY <1>8, <2>2
    <3>2. /\ cfg.discard = "finite" /\ stored.window[count] = 0
          /\ stored.timer.left \in Int /\ stored.timer.left >= DiscardTicks
      BY <1>7, <1>8, <3>1
    <3>3. e.tx_next_ack = count
      <4>1. OldestOK(e) /\ \A c \in DOMAIN e.window : ~(c < e.tx_next)
        BY <2>2, <3>2 DEF TxInv, WindowIsWatched, Live
      <4> QED
        BY <1>1, <4>1 DEF OldestOK, has_sn
    <3>4. count \in DOMAIN stored.window
      BY <1>7, <1>8, <3>2
    <3>5. 0 + stored.timer.left >= DiscardTicks
      BY <3>2, PdcpTxAssumption
    <3> QED
      BY <1>7, <1>8, <3>2, <3>3, <3>4, <3>5 DEF Timed, has_sn
  <2> QED
    BY <2>1, <2>2
<1>9. ASSUME cfg.discard = "finite" PROVE OldestOK(e)
  BY <1>9 DEF TxInv
<1>10. CASE /\ fail = "copy" /\ cfg.discard # "none" /\ e' = freed
            /\ Leave(freed.window, {}) /\ orphan' = (orphan \/ freed.timer # e.timer)
            /\ UNCHANGED <<aborted, used>>
  <2>1. /\ EntityOK(e', cfg.discard) /\ e'.tx_next = e.tx_next
        /\ e'.tx_next_ack = e.tx_next_ack /\ e'.window = e.window
        /\ cfg.discard = "finite" => e'.timer.running
    BY <1>3, <1>4, <1>10
  <2>2. lost' = {}
    BY <1>1, <1>3, <1>4, <1>10 DEF Leave
  <2>3. KeysOK'
    BY <1>2, <1>10, <2>1, KeysKept DEF TxInv
  <2>4. Timely'
    <3>1. SUFFICES ASSUME e'.timer.running, ~orphan' PROVE Timed(e')
      BY DEF Timely
    <3>2. ~orphan /\ e'.timer = e.timer
      BY <1>4, <1>10, <3>1, Zenon
    <3>3. Timed(e)
      BY <3>1, <3>2 DEF TxInv, Timely
    <3> QED
      BY <2>1, <3>2, <3>3 DEF Timed
  <2>5. cfg.discard = "finite" => OldestOK(e') /\ Watched(e')
    BY <1>9, <2>1 DEF OldestOK, Watched
  <2> QED
    BY <1>2, <2>1, <2>2, <2>3, <2>4, <2>5, EntityStep, TxFacts
<1>11. CASE aborted' = TRUE /\ UNCHANGED <<e, used, lost, orphan>>
  <2>1. KeysOK'
    BY <1>2, <1>11, KeysKept DEF TxInv
  <2> QED
    BY <1>2, <1>11, <2>1, EntityKept
<1>12. CASE /\ ~has_sn(freed.window, count) /\ e' = stored
            /\ Leave(stored.window, {}) /\ UNCHANGED <<aborted, used, orphan>>
  <2>1. /\ EntityOK(e', cfg.discard) /\ e'.tx_next = e.tx_next
        /\ e'.tx_next_ack = e.tx_next_ack /\ DOMAIN e.window \subseteq DOMAIN e'.window
        /\ cfg.discard = "finite" => e'.timer.running
    BY <1>4, <1>7, <1>12
  <2>2. lost' = {}
    BY <1>1, <1>4, <1>7, <1>12 DEF Leave
  <2>3. KeysOK'
    BY <1>2, <1>12, <2>1, KeysKept DEF TxInv
  <2>4. Timely'
    BY <1>4, <1>8, <1>12 DEF Timely
  <2>5. cfg.discard = "finite" => OldestOK(e') /\ Watched(e')
    BY <1>9, <2>1 DEF OldestOK, Watched, has_sn
  <2> QED
    BY <1>2, <2>1, <2>2, <2>3, <2>4, <2>5, EntityStep, TxFacts
<1>13. CASE /\ ~has_sn(freed.window, count) /\ e' = [stored EXCEPT !.tx_next = count + 1]
            /\ Leave(stored.window, {}) /\ Use({count}) /\ UNCHANGED <<aborted, orphan>>
  <2>1. /\ EntityOK(stored, cfg.discard)
        /\ stored.tx_next = e.tx_next /\ stored.tx_next_ack = e.tx_next_ack
        /\ DOMAIN e.window \subseteq DOMAIN stored.window
        /\ cfg.discard # "none" => DOMAIN stored.window = DOMAIN e.window \cup {count}
        /\ cfg.discard = "finite" => stored.timer.running
    BY <1>4, <1>7, <1>13
  <2>2. stored \in Entities
    BY <2>1 DEF EntityOK
  <2>3. /\ e' \in Entities /\ e'.window = stored.window /\ e'.tx_next = count + 1
        /\ e'.tx_next_ack = stored.tx_next_ack /\ e'.timer = stored.timer
    <3>1. e' = Entity(count + 1, stored.tx_trans, stored.tx_next_ack, stored.window, stored.timer)
      BY <1>13, <2>2 DEF Entity, Entities
    <3> QED
      BY <1>1, <2>2, <3>1 DEF Entity, Entities
  <2>4. cfg.discard # "none" => (count + 1) - e.tx_next_ack <= window_size - 1
    <3>1. cfg.discard # "none" => ~(e.tx_next - e.tx_next_ack >= window_size - 1)
      BY CfgType DEF check_early_drop, TxInv
    <3> QED
      BY <1>1, <3>1, WindowSize
  <2>5. EntityOK(e', cfg.discard)
    BY <1>1, <2>1, <2>3, <2>4 DEF EntityOK
  <2>6. lost' = {}
    BY <1>1, <1>13, <2>1 DEF Leave
  <2>7. KeysOK'
    <3>1. count + 1 \in Nat /\ \A c \in {count} : c \in Nat /\ c < count + 1
      BY <1>1
    <3> HIDE DEF count
    <3>2. Beyond({count}) \in 0 .. (count + 1)
      BY <3>1, BeyondBound
    <3>3. used' = Max({used, Beyond({count})})
      BY <1>13 DEF Use
    <3>4. Beyond({count}) \in Nat /\ Beyond({count}) <= count + 1
      BY <3>1, <3>2
    <3>5. used' \in Nat /\ (used' = used \/ used' = Beyond({count}))
      BY <1>1, <3>3, <3>4, NaturalMax, Zenon
    <3>6. CASE used <= e.tx_next
      <4>1. used' <= count + 1
        BY <1>1, <3>1, <3>4, <3>5, <3>6 DEF count
      <4> QED
        BY <2>3, <3>5, <4>1 DEF KeysOK, CountNotReused
    <3>7. CASE stale /\ ~(cfg.drb /\ cfg.am)
      BY <1>2, <3>5, <3>7 DEF KeysOK, CountNotReused
    <3> QED
      BY <3>6, <3>7 DEF TxInv, KeysOK, CountNotReused
  <2>8. e'.tx_next <= MaxHard
    BY <1>1, <2>3
  <2>9. cfg.discard = "finite" => OldestOK(e') /\ Watched(e')
    <3> SUFFICES ASSUME cfg.discard = "finite" PROVE OldestOK(e') /\ Watched(e')
      OBVIOUS
    <3>1. OldestOK(e')
      BY <1>9, <2>1, <2>3 DEF OldestOK, has_sn
    <3> QED
      BY <2>1, <2>3, <3>1 DEF Watched
  <2>10. Timely'
    BY <1>4, <1>8, <1>13, <2>3, Zenon DEF Timely
  <2> QED
    BY <1>2, <2>5, <2>6, <2>7, <2>8, <2>9, <2>10, EntityStep
<1> QED
  BY <1>5, <1>10, <1>11, <1>12, <1>13, Zenon

(* A notification about c, at most a window late, is taken for c.          *)
LEMMA NotifiedCount ==
  ASSUME TxInv, NEW c \in Notifiable
  PROVE  /\ c \in Nat /\ c < e.tx_next
         /\ notification_count_estimation(SN(c)) \in Nat
         /\ cfg.discard # "none" => notification_count_estimation(SN(c)) = c
<1>1. /\ e.tx_next \in Nat /\ e.tx_next_ack \in Nat /\ e.tx_trans \in Nat
      /\ e.tx_next <= MaxHard /\ MaxHard \in Nat /\ MaxHard < CountMod
  BY TxFacts, PdcpTxAssumption
<1>2. c \in Nat /\ c < e.tx_next /\ c >= e.tx_next_ack - window_size
  BY <1>1 DEF Notifiable
<1>3. SN(c) \in Nat
  <2>1. SnCard \in Nat \ {0}
    BY PdcpSnAssumption
  <2> QED
    BY <1>2, <2>1, DivMod DEF SN
<1>4. notification_count_estimation(SN(c)) \in Nat
  <2>1. (IF cfg.discard # "none" THEN e.tx_next_ack ELSE e.tx_trans) \in Nat
    BY <1>1
  <2> QED
    BY <1>3, <2>1, InferCountType, Zenon DEF notification_count_estimation
<1>5. ASSUME cfg.discard # "none"
      PROVE  notification_count_estimation(SN(c)) = c
  <2>1. c \in 0..(CountMod - 1) /\ e.tx_next_ack - window_size <= c
        /\ c < e.tx_next_ack + window_size
    BY <1>1, <1>2, <1>5, PdcpSnAssumption, WindowSize DEF TxInv, EntityOK
  <2>2. notification_count_estimation(SN(c)) = InferCount(SN(c), e.tx_next_ack)
    BY <1>5 DEF notification_count_estimation
  <2> QED
    BY <1>1, <2>1, <2>2, InferCountExact
<1> QED
  BY <1>2, <1>4, <1>5

LEMMA TransmitStep ==
  ASSUME TxInv, handle_transmit_notification
  PROVE  TxInv'
<1>1. Live /\ cfg' = cfg /\ stopped' = stopped /\ used' = used /\ stale' = stale
  BY DEF handle_transmit_notification, flags, keys
<1>2. PICK c \in Notifiable :
        LET count == notification_count_estimation(SN(c))
            s == [e EXCEPT !.tx_trans = count + 1]
        IN  /\ e.tx_trans <= count /\ count < e.tx_next
            /\ IF cfg.discard # "none" /\ ~cfg.am
               THEN Release(s, count) /\ Leave(e'.window, 0 .. c)
               ELSE e' = s /\ UNCHANGED <<aborted, lost, orphan>>
  BY DEF handle_transmit_notification
<1> DEFINE count == notification_count_estimation(SN(c))
           s == [e EXCEPT !.tx_trans = count + 1]
<1>3. count \in Nat /\ (cfg.discard # "none" => count = c)
  BY NotifiedCount
<1>4. IF cfg.discard # "none" /\ ~cfg.am
      THEN Release(s, count) /\ Leave(e'.window, 0 .. c)
      ELSE e' = s /\ UNCHANGED <<aborted, lost, orphan>>
  BY <1>2
<1> HIDE DEF count
<1>5. /\ s.tx_next = e.tx_next /\ s.tx_next_ack = e.tx_next_ack
      /\ s.window = e.window /\ s.timer = e.timer /\ s \in Entities
  <2>1. s = Entity(e.tx_next, count + 1, e.tx_next_ack, e.window, e.timer)
    BY TxFacts DEF Entity, Entities
  <2>2. count + 1 \in Nat
    BY <1>3
  <2> QED
    BY <2>1, <2>2, TxFacts DEF Entity, Entities
<1>6. EntityOK(s, cfg.discard)
  BY <1>5, TxFacts DEF EntityOK
<1>7. cfg.discard = "finite" => OldestOK(s) /\ Watched(s)
  BY <1>1, <1>5 DEF TxInv, OldestOK, Watched, WindowIsWatched, Live
<1> HIDE DEF s
<1>8. e.timer.running /\ ~orphan => Timed(s)
  BY <1>1, <1>5 DEF TxInv, Timely, Timed
<1>9. CASE cfg.discard # "none" /\ ~cfg.am
  <2>1. Release(s, count) /\ Leave(e'.window, 0 .. c) /\ count = c
    BY <1>3, <1>4, <1>9
  <2>2. /\ EntityOK(e', cfg.discard)
        /\ e'.tx_next = s.tx_next
        /\ DOMAIN s.window \ (0 .. count) \subseteq DOMAIN e'.window
        /\ cfg.discard = "finite" /\ ~aborted' /\ OldestOK(s) /\ Watched(s)
             => OldestOK(e') /\ Watched(e')
        /\ ~StopApplies(s, count) => e' = s
        /\ StopApplies(s, count) /\ e'.timer.running => Timed(e')
    BY <1>3, <1>6, <2>1, ReleaseStep
  <2>3. lost' = {}
    BY <1>5, <2>1, <2>2, TxFacts DEF Leave
  <2>4. Timely'
    BY <1>5, <1>8, <2>1, <2>2, Zenon DEF Release, Timely
  <2>5. e'.tx_next = e.tx_next /\ e'.tx_next <= MaxHard
    BY <1>5, <2>2, TxFacts
  <2>6. KeysOK'
    BY <1>1, <2>5, KeysKept DEF TxInv
  <2>7. cfg.discard = "finite" /\ ~aborted' => OldestOK(e') /\ Watched(e')
    BY <1>7, <2>2
  <2> QED
    BY <1>1, <2>2, <2>3, <2>4, <2>5, <2>6, <2>7, EntityStep DEF Live
<1>10. CASE ~(cfg.discard # "none" /\ ~cfg.am)
  <2>1. e' = s /\ aborted' = aborted /\ lost' = lost /\ orphan' = orphan
    BY <1>4, <1>10
  <2>2. e'.tx_next = e.tx_next /\ e'.tx_next <= MaxHard /\ lost' = {}
    BY <1>5, <2>1, TxFacts
  <2>3. KeysOK'
    BY <1>1, <2>2, KeysKept DEF TxInv
  <2>4. Timely'
    BY <1>5, <1>8, <2>1 DEF Timely
  <2> QED
    BY <1>1, <1>6, <1>7, <2>1, <2>2, <2>3, <2>4, EntityStep
<1> QED
  BY <1>9, <1>10

LEMMA DeliveryStep ==
  ASSUME TxInv, handle_delivery_notification
  PROVE  TxInv'
<1>1. /\ Live /\ cfg' = cfg /\ stopped' = stopped /\ used' = used /\ stale' = stale
      /\ cfg.discard # "none"
  BY DEF handle_delivery_notification, flags, keys
<1>2. PICK c \in Notifiable :
        /\ Release(e, notification_count_estimation(SN(c)))
        /\ Leave(e'.window, 0 .. c)
  BY DEF handle_delivery_notification
<1>3. c \in Nat /\ notification_count_estimation(SN(c)) = c
  BY <1>1, NotifiedCount
<1>4. Release(e, c)
  BY <1>2, <1>3
<1>5. cfg.discard = "finite" => OldestOK(e) /\ Watched(e)
  BY <1>1 DEF TxInv, Watched, WindowIsWatched, Live
<1>6. /\ EntityOK(e', cfg.discard)
      /\ e'.tx_next = e.tx_next
      /\ DOMAIN e.window \ (0 .. c) \subseteq DOMAIN e'.window
      /\ cfg.discard = "finite" /\ ~aborted' => OldestOK(e') /\ Watched(e')
      /\ ~StopApplies(e, c) => e' = e
      /\ StopApplies(e, c) /\ e'.timer.running => Timed(e')
  BY <1>3, <1>4, <1>5, TxFacts, ReleaseStep, Zenon
<1>7. lost' = {}
  BY <1>2, <1>6, TxFacts DEF Leave
<1>8. Timely'
  <2>1. e.timer.running /\ ~orphan => Timed(e)
    BY <1>1 DEF TxInv, Timely
  <2> QED
    BY <1>4, <1>6, <2>1, Zenon DEF Release, Timely
<1>9. KeysOK'
  BY <1>1, <1>6, KeysKept DEF TxInv
<1>10. e'.tx_next <= MaxHard
  BY <1>6, TxFacts
<1> QED
  BY <1>1, <1>6, <1>7, <1>8, <1>9, <1>10, EntityStep DEF Live

LEMMA ReportStep ==
  ASSUME TxInv, handle_status_report
  PROVE  TxInv'
<1>1. /\ Live /\ cfg' = cfg /\ stopped' = stopped /\ used' = used /\ stale' = stale
      /\ aborted' = aborted
      /\ orphan' = (orphan \/ (e.timer.running /\ e'.tx_next_ack # e.tx_next_ack))
  BY DEF handle_status_report, flags, keys
<1>2. PICK received : e' = discard_all(e, received) /\ Leave(e'.window, received)
  BY DEF handle_status_report
<1>3. /\ EntityOK(e', cfg.discard)
      /\ e'.tx_next = e.tx_next /\ e'.timer = e.timer
      /\ DOMAIN e'.window \subseteq DOMAIN e.window
      /\ DOMAIN e.window \ received \subseteq DOMAIN e'.window
      /\ OldestOK(e) => OldestOK(e')
      /\ e'.tx_next_ack = e.tx_next_ack /\ Timed(e) => Timed(e')
  BY <1>2, TxFacts, DiscardAll
<1>4. lost' = {}
  BY <1>2, <1>3, TxFacts DEF Leave
<1>5. Timely'
  <2>1. e.timer.running /\ ~orphan => Timed(e)
    BY <1>1 DEF TxInv, Timely
  <2> QED
    BY <1>1, <1>3, <2>1, Zenon DEF Timely
<1>6. KeysOK'
  BY <1>1, <1>3, KeysKept DEF TxInv
<1>7. cfg.discard = "finite" => OldestOK(e') /\ Watched(e')
  BY <1>1, <1>3 DEF TxInv, WindowIsWatched, Watched, Live
<1>8. e'.tx_next <= MaxHard
  BY <1>3, TxFacts
<1> QED
  BY <1>1, <1>3, <1>4, <1>5, <1>6, <1>7, <1>8, EntityStep

(* What is retransmitted was sent before.                                  *)
LEMMA ResentBound ==
  ASSUME TxInv, NEW counts \in Resent
  PROVE  Beyond(counts) \in Nat /\ Beyond(counts) <= e.tx_next
<1>1. e.tx_next \in Nat /\ e.tx_next_ack \in Nat /\ DOMAIN e.window \subseteq Nat
  BY TxFacts, WindowType
<1>2. \A c \in counts : c \in Nat /\ c < e.tx_next
  BY <1>1 DEF Resent, InWindow
<1>3. Beyond(counts) \in 0 .. e.tx_next
  BY <1>1, <1>2, BeyondBound
<1> QED
  BY <1>1, <1>3

LEMMA RetransmitStep ==
  ASSUME TxInv, retransmit_all_pdus
  PROVE  /\ EntityOK(e', cfg.discard)
         /\ e'.tx_next = e.tx_next /\ e'.tx_next_ack = e.tx_next_ack
         /\ e'.window = e.window /\ e'.timer = e.timer
<1>1. e' = e \/ e' = [e EXCEPT !.tx_trans = e.tx_next_ack]
  BY DEF retransmit_all_pdus
<1>2. CASE e' = e
  BY <1>2, TxFacts
<1>3. CASE e' = [e EXCEPT !.tx_trans = e.tx_next_ack]
  <2>1. e' = Entity(e.tx_next, e.tx_next_ack, e.tx_next_ack, e.window, e.timer)
    BY <1>3, TxFacts DEF Entity, Entities
  <2>2. /\ e' \in Entities /\ e'.tx_next = e.tx_next /\ e'.tx_next_ack = e.tx_next_ack
        /\ e'.window = e.window /\ e'.timer = e.timer
    BY <2>1, TxFacts DEF Entity, Entities
  <2> QED
    BY <2>2, TxFacts DEF EntityOK
<1> QED
  BY <1>1, <1>2, <1>3

(* Retransmission leaves the window and the timer as they are.             *)
LEMMA WindowKept ==
  ASSUME TxInv, Live, KeysOK', UNCHANGED <<cfg, lost, orphan, stopped, aborted>>,
         retransmit_all_pdus
  PROVE  TxInv'
<1>1. /\ EntityOK(e', cfg.discard)
      /\ e'.tx_next = e.tx_next /\ e'.tx_next_ack = e.tx_next_ack
      /\ e'.window = e.window /\ e'.timer = e.timer
  BY RetransmitStep
<1>2. cfg.discard = "finite" => OldestOK(e') /\ Watched(e')
  BY <1>1 DEF TxInv, OldestOK, Watched, WindowIsWatched, Live
<1>3. Timely'
  BY <1>1 DEF TxInv, Timely, Timed, Live
<1>4. e'.tx_next <= MaxHard /\ lost' = {}
  BY <1>1, TxFacts
<1> QED
  BY <1>1, <1>2, <1>3, <1>4, EntityStep

(* What is used with a key that is kept.                                   *)
LEMMA UseMore ==
  ASSUME TxInv, NEW counts, Beyond(counts) \in Nat, Use(counts)
  PROVE  used' \in Nat /\ (used' = used \/ used' = Beyond(counts))
<1>1. used \in Nat /\ used' = Max({used, Beyond(counts)})
  BY TxFacts DEF Use
<1> QED
  BY <1>1, NaturalMax, Zenon

LEMMA RecoveryStep ==
  ASSUME TxInv, data_recovery
  PROVE  TxInv'
<1>1. /\ Live /\ UNCHANGED <<cfg, lost, orphan, stopped, aborted>> /\ cfg.drb /\ cfg.am
      /\ retransmit_all_pdus
  BY DEF data_recovery, flags
<1>2. PICK counts \in Resent : Use(counts)
  BY DEF data_recovery
<1>3. Beyond(counts) \in Nat /\ Beyond(counts) <= e.tx_next
  BY ResentBound
<1>4. used' \in Nat /\ (used' = used \/ used' = Beyond(counts))
  BY <1>2, <1>3, UseMore
<1>5. used <= e.tx_next
  BY <1>1 DEF TxInv, KeysOK, CountNotReused
<1>6. e'.tx_next = e.tx_next
  BY <1>1, RetransmitStep
<1>7. KeysOK'
  BY <1>3, <1>4, <1>5, <1>6 DEF KeysOK, CountNotReused
<1> QED
  BY <1>1, <1>7, WindowKept

LEMMA BeyondNothing == Beyond({}) = 0
<1>1. Beyond({}) \in 0 .. 0
  BY BeyondBound
<1> QED
  BY <1>1

(* COUNT is started over with a new key, or the key is stale; a DRB with   *)
(* RLC AM goes on with its COUNT.                                          *)
LEMMA ReestablishStep ==
  ASSUME TxInv, reestablish
  PROVE  TxInv'
<1>1. Live /\ UNCHANGED <<cfg, lost, stopped, aborted>>
  BY DEF reestablish, flags
<1>2. PICK renew \in BOOLEAN :
        \/ /\ ~cfg.drb \/ ~cfg.am
           /\ reset
           /\ configure_security(renew, {})
           /\ stale' = ~renew
        \/ /\ cfg.drb /\ cfg.am
           /\ retransmit_all_pdus
           /\ \E counts \in Resent : configure_security(renew, counts)
           /\ UNCHANGED orphan
  BY DEF reestablish
<1>3. CASE /\ ~cfg.drb \/ ~cfg.am
           /\ reset /\ configure_security(renew, {}) /\ stale' = ~renew
  <2>1. e' = [e EXCEPT !.tx_next = 0, !.tx_trans = 0, !.tx_next_ack = 0, !.window = <<>>]
    BY <1>3 DEF reset
  <2>2. e' = Entity(0, 0, 0, <<>>, e.timer)
    BY <2>1, TxFacts, Zenon DEF Entity, Entities
  <2>3. /\ e' \in Entities /\ e'.tx_next = 0 /\ e'.tx_next_ack = 0 /\ e'.window = <<>>
        /\ e'.timer = e.timer
    BY <2>2, TxFacts, EmptyWindow DEF Entity, Entities
  <2>4. EntityOK(e', cfg.discard) /\ OldestOK(e') /\ Watched(e')
    BY <2>3, EmptyWindow, WindowSize DEF EntityOK, OldestOK, Watched
  <2>5. Timely'
    BY <1>3, <2>3 DEF reset, Timely
  <2>6. KeysOK'
    <3>1. CASE renew
      BY <1>3, <2>3, <3>1, BeyondNothing DEF configure_security, KeysOK, CountNotReused
    <3>2. CASE ~renew
      <4>1. Use({})
        BY <1>3, <3>2 DEF configure_security
      <4>2. used' \in Nat
        BY <4>1, UseMore, BeyondNothing
      <4> QED
        BY <1>1, <1>3, <3>2, <4>2, Zenon DEF KeysOK, CountNotReused
    <3> QED
      BY <3>1, <3>2
  <2>7. e'.tx_next <= MaxHard /\ lost' = {}
    BY <1>1, <2>3, TxFacts
  <2> QED
    BY <1>1, <2>4, <2>5, <2>6, <2>7, EntityStep
<1>4. CASE /\ cfg.drb /\ cfg.am /\ retransmit_all_pdus /\ UNCHANGED orphan
           /\ \E counts \in Resent : configure_security(renew, counts)
  <2>1. PICK counts \in Resent : configure_security(renew, counts)
    BY <1>4
  <2>2. Beyond(counts) \in Nat /\ Beyond(counts) <= e.tx_next
    BY ResentBound
  <2>3. used <= e.tx_next
    BY <1>4 DEF TxInv, KeysOK, CountNotReused
  <2>4. used' \in Nat /\ (used' = used \/ used' = Beyond(counts))
    <3>1. CASE used' = Beyond(counts)
      BY <2>2, <3>1
    <3>2. CASE Use(counts)
      BY <2>2, <3>2, UseMore
    <3> QED
      BY <2>1, <3>1, <3>2 DEF configure_security
  <2>5. e'.tx_next = e.tx_next
    BY <1>4, RetransmitStep
  <2>6. KeysOK'
    BY <2>2, <2>3, <2>4, <2>5 DEF KeysOK, CountNotReused
  <2> QED
    BY <1>1, <1>4, <2>6, WindowKept
<1> QED
  BY <1>2, <1>3, <1>4

LEMMA UpdateSecurityStep ==
  ASSUME TxInv, update_security_config
  PROVE  TxInv'
<1>1. UNCHANGED <<cfg, e, lost, orphan, stopped, aborted>>
  BY DEF update_security_config, flags
<1>2. PICK renew \in BOOLEAN : configure_security(renew, {}) /\ stale' = (stale /\ ~renew)
  BY DEF update_security_config
<1>3. KeysOK'
  <2>1. CASE renew
    <3>1. used' = 0 /\ e'.tx_next \in Nat
      BY <1>1, <1>2, <2>1, BeyondNothing, TxFacts DEF configure_security
    <3> QED
      BY <3>1 DEF KeysOK, CountNotReused
  <2>2. CASE ~renew
    <3>1. Use({})
      BY <1>2, <2>2 DEF configure_security
    <3>2. used' \in Nat /\ (used' = used \/ used' = 0)
      BY <3>1, UseMore, BeyondNothing
    <3>3. CASE used' = 0
      <4>1. e'.tx_next \in Nat
        BY <1>1, TxFacts
      <4> QED
        BY <3>3, <4>1 DEF KeysOK, CountNotReused
    <3>4. CASE used' = used
      <4>1. KeysOK
        BY DEF TxInv
      <4> QED
        BY <1>1, <1>2, <2>2, <3>4, <4>1, Zenon DEF KeysOK, CountNotReused
    <3> QED
      BY <3>2, <3>3, <3>4
  <2> QED
    BY <2>1, <2>2
<1> QED
  BY <1>1, <1>3, EntityKept

LEMMA StopStep ==
  ASSUME TxInv, stop
  PROVE  TxInv'
<1>1. /\ stopped' = TRUE /\ cfg' = cfg /\ used' = used /\ stale' = stale /\ lost' = lost
  BY DEF stop, keys
<1> DEFINE timer == IF cfg.discard = "none" THEN e.timer ELSE Off
<1>2. timer \in TimerStates
  BY TxFacts, TimerType
<1>3. e' = [e EXCEPT !.window = <<>>, !.timer = timer]
  BY DEF stop
<1> HIDE DEF timer
<1>4. e' = Entity(e.tx_next, e.tx_trans, e.tx_next_ack, <<>>, timer)
  BY <1>3, TxFacts, Zenon DEF Entity, Entities
<1>5. /\ e' \in Entities /\ e'.tx_next = e.tx_next /\ e'.tx_next_ack = e.tx_next_ack
      /\ e'.window = <<>>
  BY <1>2, <1>4, TxFacts, EmptyWindow DEF Entity, Entities
<1>6. EntityOK(e', cfg.discard)
  BY <1>5, TxFacts, EmptyWindow DEF EntityOK
<1>7. Watched(e') /\ ~Live' /\ Timely'
  BY <1>1, <1>5, EmptyWindow DEF Watched, Live, Timely
<1>8. KeysOK'
  BY <1>1, <1>5, KeysKept DEF TxInv
<1>9. e'.tx_next <= MaxHard /\ lost' = {}
  BY <1>1, <1>5, TxFacts
<1> QED
  BY <1>1, <1>6, <1>7, <1>8, <1>9, EntityStep

LEMMA TickStep ==
  ASSUME TxInv, Tick
  PROVE  TxInv'
<1>1. /\ Live /\ UNCHANGED <<cfg, stopped, aborted, used, stale, lost, orphan>>
      /\ e.timer.running /\ e.timer.left > -MaxLag
  BY DEF Tick, flags, ghosts
<1> DEFINE w == [c \in DOMAIN e.window |-> Min({e.window[c] + 1, MaxAge})]
           timer == [e.timer EXCEPT !.left = @ - 1]
<1>2. w \in Windows /\ DOMAIN w = DOMAIN e.window
  <2>1. MaxAge \in Nat
    BY PdcpTxAssumption DEF MaxAge
  <2>2. DOMAIN e.window \in SUBSET Nat /\ \A c \in DOMAIN e.window : e.window[c] \in Nat
    BY TxFacts, WindowType
  <2>3. \A a, b \in Nat : Min({a, b}) \in Nat
    BY MinOfTwo
  <2>4. w \in [DOMAIN e.window -> Nat]
    BY <2>1, <2>2, <2>3
  <2> QED
    BY <2>2, <2>4, IsWindow, Zenon
<1>3. timer \in TimerStates /\ timer.running /\ timer.left = e.timer.left - 1
  <2>1. e.timer \in TimerStates
    BY TxFacts
  <2> QED
    BY <1>1, <2>1 DEF TimerStates
<1>4. e' = [e EXCEPT !.timer = timer, !.window = w]
  BY DEF Tick
<1>5. Timed(e) => has_sn(w, e.tx_next_ack) /\ w[e.tx_next_ack] + timer.left >= DiscardTicks
  <2>1. SUFFICES ASSUME Timed(e) PROVE w[e.tx_next_ack] + timer.left >= DiscardTicks
    BY <1>2 DEF Timed, has_sn
  <2> DEFINE old == e.window[e.tx_next_ack]
  <2>2. e.tx_next_ack \in DOMAIN e.window /\ old \in Nat
    BY <2>1, TxFacts, WindowType DEF Timed, has_sn
  <2>3. w[e.tx_next_ack] = Min({old + 1, MaxAge})
    BY <2>2
  <2>4. old + e.timer.left >= DiscardTicks
    BY <2>1 DEF Timed
  <2> HIDE DEF w, timer, old
  <2>5. /\ DiscardTicks \in Nat /\ MaxLag \in Nat /\ e.timer.left \in Int
        /\ MaxAge = 2 * (DiscardTicks + MaxLag + 1)
    BY TxFacts, PdcpTxAssumption DEF MaxAge, TimerStates
  <2>6. Min({old + 1, MaxAge}) = old + 1 \/ Min({old + 1, MaxAge}) = MaxAge
    BY <2>2, <2>5, MinOfTwo
  <2> QED
    BY <1>1, <1>3, <2>2, <2>3, <2>4, <2>5, <2>6
<1> HIDE DEF w, timer
<1>6. e' = Entity(e.tx_next, e.tx_trans, e.tx_next_ack, w, timer)
  BY <1>4, TxFacts, Zenon DEF Entity, Entities
<1>7. /\ e' \in Entities /\ e'.tx_next = e.tx_next /\ e'.tx_next_ack = e.tx_next_ack
      /\ e'.window = w /\ e'.timer = timer
  BY <1>2, <1>3, <1>6, TxFacts DEF Entity, Entities
<1>8. EntityOK(e', cfg.discard)
  BY <1>2, <1>7, TxFacts, Zenon DEF EntityOK
<1>9. cfg.discard = "finite" => OldestOK(e') /\ Watched(e')
  BY <1>1, <1>2, <1>3, <1>7 DEF TxInv, OldestOK, Watched, Live, has_sn
<1>10. Timely'
  <2>1. ~orphan => Timed(e)
    BY <1>1 DEF TxInv, Timely
  <2> QED
    BY <1>1, <1>5, <1>7, <2>1 DEF Timely, Timed
<1>11. KeysOK'
  BY <1>1, <1>7, KeysKept DEF TxInv
<1>12. e'.tx_next <= MaxHard /\ lost' = {}
  BY <1>1, <1>7, TxFacts
<1> QED
  BY <1>1, <1>8, <1>9, <1>10, <1>11, <1>12, EntityStep

LEMMA ExpiryStep ==
  ASSUME TxInv, DiscardExpiry
  PROVE  TxInv'
<1>1. /\ Live /\ UNCHANGED <<cfg, stopped, aborted, used, stale>>
      /\ e' = discard_callback(e) /\ e.timer.running /\ e.timer.left <= 0
      /\ orphan' = (orphan /\ e'.timer.running)
      /\ Leave(e'.window, Due)
  BY Zenon DEF DiscardExpiry, flags, keys
<1>2. /\ EntityOK(e', cfg.discard) /\ e'.tx_next = e.tx_next
      /\ cfg.discard = "finite" /\ OldestOK(e) => OldestOK(e') /\ Watched(e')
      /\ Timed(e) /\ e.timer.left <= 0
           => /\ e'.timer.running => Timed(e')
              /\ \A c \in DOMAIN e.window \ DOMAIN e'.window : e.window[c] >= DiscardTicks
  BY <1>1, TxFacts, CallbackStep
<1>3. ~orphan => Timed(e)
  BY <1>1 DEF TxInv, Timely
<1>4. DOMAIN e.window \ DOMAIN e'.window \subseteq Due
  BY <1>1, <1>2, <1>3 DEF Due
<1>5. lost' = {}
  BY <1>1, <1>4, TxFacts DEF Leave
<1>6. Timely'
  BY <1>1, <1>2, <1>3, Zenon DEF Timely
<1>7. KeysOK'
  BY <1>1, <1>2, KeysKept DEF TxInv
<1>8. e'.tx_next <= MaxHard
  BY <1>2, TxFacts
<1>9. cfg.discard = "finite" => OldestOK(e') /\ Watched(e')
  BY <1>1, <1>2 DEF TxInv
<1> QED
  BY <1>1, <1>2, <1>5, <1>6, <1>7, <1>8, <1>9, EntityStep

-----------------------------------------------------------------------------
LEMMA TxStep ==
  ASSUME TxInv, [Next]_vars
  PROVE  TxInv'
<1>1. ASSUME UNCHANGED <<cfg, e, used, stale, lost, orphan, stopped, aborted>> PROVE TxInv'
  <2>1. KeysOK'
    BY <1>1, KeysKept DEF TxInv
  <2> QED
    BY <1>1, <2>1, EntityKept
<1>2. CASE handle_sdu
  <2>1. CASE UNCHANGED vars
    BY <1>1, <2>1 DEF vars
  <2>2. CASE /\ max_count_overflow' = TRUE
             /\ UNCHANGED <<cfg, e, max_count_notified, desired_buffer_size, stopped,
                            key, aborted, ghosts>>
    BY <1>1, <2>2 DEF ghosts
  <2>3. CASE /\ ~(cfg.drb /\ check_early_drop) /\ e.tx_next < MaxHard
             /\ \E fail \in Failures \cup {"none"} : SendSdu(fail)
    BY <1>2, <2>3, SendStep DEF handle_sdu
  <2> QED
    BY <1>2, <2>1, <2>2, <2>3, Zenon DEF handle_sdu
<1>3. CASE handle_transmit_notification
  BY <1>3, TransmitStep
<1>4. CASE handle_delivery_notification
  BY <1>4, DeliveryStep
<1>5. CASE handle_desired_buffer_size_notification
  BY <1>1, <1>5 DEF handle_desired_buffer_size_notification, ghosts
<1>6. CASE handle_status_report
  BY <1>6, ReportStep
<1>7. CASE data_recovery
  BY <1>7, RecoveryStep
<1>8. CASE reestablish
  BY <1>8, ReestablishStep
<1>9. CASE update_security_config
  BY <1>9, UpdateSecurityStep
<1>10. CASE stop
  BY <1>10, StopStep
<1>11. CASE Tick
  BY <1>11, TickStep
<1>12. CASE DiscardExpiry
  BY <1>12, ExpiryStep
<1>13. CASE UNCHANGED vars
  BY <1>1, <1>13 DEF vars
<1> QED
  BY <1>2, <1>3, <1>4, <1>5, <1>6, <1>7, <1>8, <1>9, <1>10, <1>11, <1>12, <1>13 DEF Next

LEMMA TxAlways == Spec => []TxInv
<1>1. Init => TxInv
  BY TxInit
<1>2. TxInv /\ [Next]_vars => TxInv'
  BY TxStep
<1> QED
  BY <1>1, <1>2, PTL DEF Spec

(* No COUNT protects two SDUs with one key, whatever is dropped, fails or  *)
(* is retransmitted, and in whichever order the bearer is recovered,       *)
(* re-established and given new keys, the keys it has or none:             *)
(* retransmissions stay below TX_NEXT, and TX_NEXT starts over only with a *)
(* new key.  The exception is an SRB or a DRB with RLC UM whose            *)
(* re-establishment brought no new key.                                    *)
THEOREM KeyAndCountUsedOnce == Spec => []CountNotReused
<1>1. TxInv => CountNotReused
  BY DEF TxInv, KeysOK
<1> QED
  BY <1>1, TxAlways, PTL

(* No SDU leaves the window of a DRB that is neither reset nor stopped     *)
(* unless it was confirmed or waited for its whole discard time:           *)
(* handle_sdu never overwrites a place of the ring that is in use, a       *)
(* notification that is up to a window late, whose COUNT has to be guessed *)
(* from its sequence number, is taken for the COUNT it is about, and the   *)
(* one timer, restarted from SDU to SDU, never expires early, but for a    *)
(* timer whose own SDU went while it ran.                                  *)
THEOREM NothingIsLost == Spec => []NothingLostSilently
<1>1. TxInv => NothingLostSilently
  BY DEF TxInv
<1> QED
  BY <1>1, TxAlways, PTL

(* One timer watches the window: as long as the program has not stopped at *)
(* an assertion, an SDU that was sent and is neither confirmed nor         *)
(* discarded has the discard timer running, through every release, expiry, *)
(* restart and re-establishment.                                           *)
THEOREM TimerWatchesWindow == Spec => []WindowIsWatched
<1>1. TxInv => WindowIsWatched
  BY DEF TxInv
<1> QED
  BY <1>1, TxAlways, PTL
=============================================================================
