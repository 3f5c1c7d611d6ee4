--------------------------- MODULE RlcAmRx_proofs ---------------------------
(***************************************************************************)
(* The state variables of the receiving side of an RLC AM entity, its      *)
(* reassembly timer and its status report, for any size of the sequence    *)
(* number and any segmentation of the SDUs.  The inductive invariant RxInv *)
(* below says how far the three upper edges lie from the lower edge of the *)
(* window, what is stored between them, and what the report is built from. *)
(***************************************************************************)
EXTENDS RlcAmRx, NumberLemmas, TLAPS

-----------------------------------------------------------------------------
(* Sequence numbers and their distance from the lower window edge           *)

LEMMA SnSpace ==
  /\ Mod \in Nat \ {0} /\ AmWindow \in Nat \ {0} /\ Mod = 2 * AmWindow
  /\ Bytes # {} /\ \A sn \in Sns : sn \in Nat /\ sn < Mod
<1>1. Mod \in Nat \ {0} /\ AmWindow \in Nat \ {0} /\ Mod = 2 * AmWindow
  BY RxAssumption, StatusPduAssumption
<1>2. 0 \in Bytes
  BY StatusPduAssumption DEF Bytes
<1> QED
  BY <1>1, <1>2 DEF Sns

(* A remainder of a number that is at most one round off.                   *)
LEMMA Round ==
  ASSUME NEW x \in Int, 0 - Mod <= x, x < 2 * Mod
  PROVE  x % Mod = IF x < 0 THEN x + Mod ELSE IF x < Mod THEN x ELSE x - Mod
<1> DEFINE m == Mod
<1>1. m \in Nat \ {0}
  BY SnSpace
<1>2. \A r \in 0 .. m - 1 : /\ (m * 0 + r) % m = r /\ m * 0 + r = r
                            /\ (m * 1 + r) % m = r /\ m * 1 + r = m + r
                            /\ (m * (-1) + r) % m = r /\ m * (-1) + r = r - m
  <2>1. \A r \in 0 .. m - 1 : (m * 0 + r) % m = r /\ (m * 1 + r) % m = r /\ (m * (-1) + r) % m = r
    BY <1>1, UniqueRemainder
  <2> QED
    BY <1>1, <2>1
<1> HIDE DEF m
<1>3. CASE x < 0
  BY <1>1, <1>2, <1>3 DEF m
<1>4. CASE 0 <= x /\ x < m
  BY <1>1, <1>2, <1>4 DEF m
<1>5. CASE m <= x
  BY <1>1, <1>2, <1>5 DEF m
<1> QED
  BY <1>1, <1>3, <1>4, <1>5 DEF m

LEMMA BaseForm ==
  ASSUME NEW next \in Sns, NEW sn \in Sns
  PROVE  rx_mod_base(next, sn) = IF next <= sn THEN sn - next ELSE sn - next + Mod
<1>1. sn - next \in Int /\ 0 - Mod <= sn - next /\ sn - next < Mod
  BY SnSpace
<1> QED
  BY <1>1, SnSpace, Round DEF rx_mod_base

(* The distance determines the SN.                                          *)
LEMMA BaseType ==
  ASSUME NEW next \in Sns, NEW sn \in Sns
  PROVE  /\ rx_mod_base(next, sn) \in 0 .. Mod - 1
         /\ rx_mod_base(next, sn) = 0 <=> sn = next
         /\ (next + rx_mod_base(next, sn)) % Mod = sn
<1> DEFINE k == rx_mod_base(next, sn)
<1>1. k = IF next <= sn THEN sn - next ELSE sn - next + Mod
  BY BaseForm
<1> HIDE DEF k
<1>2. k \in 0 .. Mod - 1 /\ (k = 0 <=> sn = next)
  BY <1>1, SnSpace
<1>3. next + k \in Int /\ 0 - Mod <= next + k /\ next + k < 2 * Mod
  BY <1>2, SnSpace
<1>4. (next + k) % Mod = IF next + k < Mod THEN next + k ELSE next + k - Mod
  BY <1>2, <1>3, Round, SnSpace
<1> QED
  BY <1>1, <1>2, <1>4, SnSpace DEF k

LEMMA SameBase ==
  ASSUME NEW next \in Sns, NEW a \in Sns, NEW b \in Sns,
         rx_mod_base(next, a) = rx_mod_base(next, b)
  PROVE  a = b
  BY BaseType

LEMMA AtBase ==
  ASSUME NEW next \in Sns, NEW k \in 0 .. Mod - 1
  PROVE  (next + k) % Mod \in Sns /\ rx_mod_base(next, (next + k) % Mod) = k
<1> DEFINE sn == (next + k) % Mod
<1>1. next + k \in Int /\ 0 - Mod <= next + k /\ next + k < 2 * Mod
  BY SnSpace
<1>2. sn = IF next + k < Mod THEN next + k ELSE next + k - Mod
  BY <1>1, Round, SnSpace
<1> HIDE DEF sn
<1>3. sn \in Sns
  BY <1>2, SnSpace DEF Sns
<1>4. rx_mod_base(next, sn) = IF next <= sn THEN sn - next ELSE sn - next + Mod
  BY <1>3, BaseForm
<1>5. rx_mod_base(next, sn) = k
  BY <1>2, <1>4, SnSpace
<1> QED
  BY <1>3, <1>5 DEF sn

(* The SN after and the SN before another.                                  *)
LEMMA NextBase ==
  ASSUME NEW next \in Sns, NEW sn \in Sns
  PROVE  /\ next_sn(sn) \in Sns
         /\ rx_mod_base(next, sn + 1) = rx_mod_base(next, next_sn(sn))
         /\ rx_mod_base(next, next_sn(sn)) =
              IF rx_mod_base(next, sn) = Mod - 1 THEN 0 ELSE rx_mod_base(next, sn) + 1
<1>1. sn + 1 \in Int /\ 0 - Mod <= sn + 1 /\ sn + 1 < 2 * Mod
  BY SnSpace
<1>2. next_sn(sn) = IF sn = Mod - 1 THEN 0 ELSE sn + 1
  BY <1>1, Round, SnSpace DEF next_sn
<1>3. next_sn(sn) \in Sns
  BY <1>2, SnSpace DEF Sns
<1>4. /\ rx_mod_base(next, next_sn(sn)) =
           IF next <= next_sn(sn) THEN next_sn(sn) - next ELSE next_sn(sn) - next + Mod
      /\ rx_mod_base(next, sn) = IF next <= sn THEN sn - next ELSE sn - next + Mod
  BY <1>3, BaseForm
<1> DEFINE d == (sn + 1) - next
<1>5. d \in Int /\ 0 - Mod <= d /\ d < 2 * Mod
  BY SnSpace
<1>6. rx_mod_base(next, sn + 1) = d % Mod
  BY Zenon DEF rx_mod_base
<1> HIDE DEF d
<1>7. d % Mod = IF d < 0 THEN d + Mod ELSE IF d < Mod THEN d ELSE d - Mod
  BY <1>5, Round
<1>8. d % Mod = rx_mod_base(next, next_sn(sn))
  BY <1>2, <1>3, <1>4, <1>7, SnSpace DEF d
<1>9. rx_mod_base(next, sn + 1) = rx_mod_base(next, next_sn(sn))
  BY <1>6, <1>8, Zenon
<1> QED
  BY <1>2, <1>3, <1>4, <1>9, SnSpace

LEMMA PrevBase ==
  ASSUME NEW next \in Sns, NEW sn \in Sns, sn # next
  PROVE  /\ (sn - 1) % Mod \in Sns
         /\ rx_mod_base(next, (sn - 1) % Mod) = rx_mod_base(next, sn) - 1
<1> DEFINE p == (sn - 1) % Mod
<1>1. sn - 1 \in Int /\ 0 - Mod <= sn - 1 /\ sn - 1 < 2 * Mod
  BY SnSpace
<1>2. p = IF sn = 0 THEN Mod - 1 ELSE sn - 1
  BY <1>1, Round, SnSpace
<1> HIDE DEF p
<1>3. p \in Sns
  BY <1>2, SnSpace DEF Sns
<1>4. /\ rx_mod_base(next, p) = IF next <= p THEN p - next ELSE p - next + Mod
      /\ rx_mod_base(next, sn) = IF next <= sn THEN sn - next ELSE sn - next + Mod
  BY <1>3, BaseForm
<1> QED
  BY <1>2, <1>3, <1>4, SnSpace DEF p

(* Distances after the lower window edge has moved on.                      *)
LEMMA MovedBase ==
  ASSUME NEW next \in Sns, NEW to \in Sns, NEW sn \in Sns
  PROVE  rx_mod_base(to, sn) =
           IF rx_mod_base(next, to) <= rx_mod_base(next, sn)
           THEN rx_mod_base(next, sn) - rx_mod_base(next, to)
           ELSE rx_mod_base(next, sn) - rx_mod_base(next, to) + Mod
<1>1. /\ rx_mod_base(next, sn) = IF next <= sn THEN sn - next ELSE sn - next + Mod
      /\ rx_mod_base(next, to) = IF next <= to THEN to - next ELSE to - next + Mod
      /\ rx_mod_base(to, sn) = IF to <= sn THEN sn - to ELSE sn - to + Mod
  BY BaseForm
<1> QED
  BY <1>1, SnSpace

(* What the loops return: the first SN from start on that is not complete,  *)
(* limit if there is none, and start when it is not before limit.           *)
FirstGap(next, window, start, limit, sn) ==
  /\ sn \in Sns
  /\ rx_mod_base(next, start) >= rx_mod_base(next, limit) => sn = start
  /\ rx_mod_base(next, start) < rx_mod_base(next, limit) =>
       /\ rx_mod_base(next, start) <= rx_mod_base(next, sn)
       /\ rx_mod_base(next, sn) <= rx_mod_base(next, limit)
       /\ sn = limit \/ ~fully_received(window, sn)
       /\ \A k \in Sns : /\ rx_mod_base(next, start) <= rx_mod_base(next, k)
                         /\ rx_mod_base(next, k) < rx_mod_base(next, sn)
                         => fully_received(window, k)

(* first_incomplete computes it: the loops of handle_data_pdu and of        *)
(* on_expired_reassembly_timer stop at the first SDU with missing bytes.    *)
LEMMA FirstIncomplete ==
  ASSUME NEW next \in Sns, NEW window, NEW start \in Sns, NEW limit \in Sns
  PROVE  FirstGap(next, window, start, limit, first_incomplete(next, window, start, limit))
<1> DEFINE from == rx_mod_base(next, start)
           upto == rx_mod_base(next, limit)
           at(k) == (next + k) % Mod
           S == {k \in from .. upto : k = upto \/ ~fully_received(window, at(k))}
           r == first_incomplete(next, window, start, limit)
<1>1. from \in 0 .. Mod - 1 /\ upto \in 0 .. Mod - 1
  BY BaseType
<1>2. r = IF from >= upto THEN start ELSE at(Min(S))
  BY Zenon DEF first_incomplete
<1>3. \A k \in Sns : rx_mod_base(next, k) \in 0 .. Mod - 1 /\ at(rx_mod_base(next, k)) = k
  BY BaseType, Zenon
<1>4. \A k \in 0 .. Mod - 1 : at(k) \in Sns /\ rx_mod_base(next, at(k)) = k
  BY AtBase, Zenon
<1>5. CASE from >= upto
  <2>1. r = start
    BY <1>2, <1>5, Zenon
  <2> HIDE DEF from, upto, r
  <2> QED
    BY <1>1, <1>5, <2>1, SnSpace DEF FirstGap, from, upto, r
<1>6. CASE from < upto
  <2> DEFINE m == Min(S)
  <2> HIDE DEF from, upto, at
  <2>1. upto \in S /\ S \in SUBSET Nat
    BY <1>1, <1>6, SnSpace
  <2>2. m \in S /\ \A k \in S : m <= k
    BY <2>1, MinOfNaturals, Zenon
  <2>3. r = at(m)
    BY <1>1, <1>2, <1>6, SnSpace
  <2> HIDE DEF r, m
  <2>4. m \in 0 .. Mod - 1 /\ from <= m /\ m <= upto /\ (m = upto \/ ~fully_received(window, at(m)))
    BY <1>1, <2>2, SnSpace
  <2>5. r \in Sns /\ rx_mod_base(next, r) = m
    BY <1>4, <2>3, <2>4, Zenon
  <2>6. r = limit \/ ~fully_received(window, r)
    <3>1. CASE m = upto
      BY <2>5, <3>1, SameBase, Zenon DEF upto
    <3>2. CASE ~fully_received(window, at(m))
      BY <2>3, <3>2, Zenon
    <3> QED
      BY <2>4, <3>1, <3>2, Zenon
  <2>7. ASSUME NEW k \in Sns, from <= rx_mod_base(next, k), rx_mod_base(next, k) < rx_mod_base(next, r)
        PROVE  fully_received(window, k)
    <3> DEFINE b == rx_mod_base(next, k)
    <3>1. b \in Nat /\ at(b) = k
      BY <1>3, SnSpace
    <3>2. from <= b /\ b < m
      BY <2>5, <2>7, Zenon
    <3> HIDE DEF b
    <3>3. b \notin S
      BY <2>2, <2>4, <3>1, <3>2, SnSpace
    <3>4. b \in from .. upto /\ b # upto
      BY <1>1, <2>4, <3>1, <3>2, SnSpace
    <3>5. fully_received(window, at(b))
      BY <3>3, <3>4, Zenon
    <3> QED
      BY <3>1, <3>5, Zenon
  <2>8. from <= rx_mod_base(next, r) /\ rx_mod_base(next, r) <= upto
    BY <2>4, <2>5, Zenon
  <2>9. ~(from >= upto)
    BY <1>1, <1>6, SnSpace
  <2> QED
    BY <2>5, <2>6, <2>7, <2>8, <2>9, Zenon DEF FirstGap, from, upto, r
<1> QED
  BY <1>1, <1>5, <1>6, SnSpace

-----------------------------------------------------------------------------
(* The inductive invariant                                                  *)

RxTypes ==
  /\ rx_next \in Sns /\ rx_next_status_trigger \in Sns
  /\ rx_highest_status \in Sns /\ rx_next_highest \in Sns
  /\ got \in [Sns -> SUBSET Bytes]
  /\ reassembly_timer \in Nat

(* The four properties with the state they speak of as arguments.           *)
Ordered(next, status, highest, window) ==
  /\ rx_mod_base(next, status) <= rx_mod_base(next, highest)
  /\ rx_mod_base(next, highest) <= AmWindow
  /\ \A sn \in Sns : has_sn(window, sn) => rx_mod_base(next, sn) < rx_mod_base(next, highest)
  /\ ~fully_received(window, next)
  /\ ~fully_received(window, status)

Anchored(next, trigger, highest, window) ==
  /\ valid_ack_sn(next, trigger)
  /\ rx_mod_base(next, trigger) <= rx_mod_base(next, highest)
  /\ has_sn(window, (trigger - 1) % Mod)

NothingMissing(next, status, highest, window) ==
  \A sn \in Sns :
    ~ (/\ rx_mod_base(next, status) <= rx_mod_base(next, sn)
       /\ rx_mod_base(next, sn) < rx_mod_base(next, highest)
       /\ IF rx_mod_base(next, sn) + 1 = rx_mod_base(next, highest)
            THEN has_gap(window, sn) ELSE ~fully_received(window, sn))

(* RX_Next_Highest is one past an SDU of which something has been received, *)
(* unless everything received has been delivered.                           *)
TopReceived(next, highest, window) ==
  rx_mod_base(next, highest) > 0 => has_sn(window, (highest - 1) % Mod)

RxInv ==
  /\ RxTypes
  /\ Ordered(rx_next, rx_highest_status, rx_next_highest, got)
  /\ TopReceived(rx_next, rx_next_highest, got)
  /\ reassembly_timer > 0 => Anchored(rx_next, rx_next_status_trigger, rx_next_highest, got)
  /\ NothingMissing(rx_next, rx_highest_status, rx_next_highest, got) \/ reassembly_timer > 0
  /\ ReportIsCurrent

-----------------------------------------------------------------------------
(* A data PDU inside the window                                             *)

(* The state variables and the window before its lower edge moves.          *)
NewEdges(stored, highest, status, next) ==
  /\ stored \in [Sns -> SUBSET Bytes]
  /\ highest \in Sns /\ status \in Sns /\ next \in Sns
  /\ 0 < base(highest) /\ base(highest) <= AmWindow
  /\ base(rx_next_highest) <= base(highest)
  /\ base(next) <= base(status) /\ base(status) <= base(highest)
  /\ \A sn \in Sns : has_sn(stored, sn) => base(sn) < base(highest)
  /\ \A sn \in Sns : base(sn) < base(next) => fully_received(stored, sn)
  /\ ~fully_received(stored, next) /\ ~fully_received(stored, status)
  /\ has_sn(stored, (highest - 1) % Mod)
  /\ \A sn \in Sns : has_sn(got, sn) => has_sn(stored, sn)

(* How the state variables are computed from a PDU that is not discarded.   *)
PduEdges(pdu, stored, highest, status, next) ==
  /\ stored = [got EXCEPT ![pdu.sn] = @ \cup (pdu.so .. pdu.so + pdu.len - 1)]
  /\ highest = IF base(pdu.sn) >= base(rx_next_highest)
                 THEN next_sn(pdu.sn) ELSE rx_next_highest
  /\ status = IF completes(pdu) /\ pdu.sn = rx_highest_status
                THEN first_incomplete(rx_next, stored, next_sn(rx_highest_status), highest)
                ELSE rx_highest_status
  /\ next = IF completes(pdu) /\ pdu.sn = rx_next
              THEN first_incomplete(rx_next, stored, rx_next, highest)
              ELSE rx_next

(* The distances from RX_Next the arithmetic below is about.                *)
LEMMA Bases ==
  ASSUME RxTypes
  PROVE  /\ \A sn \in Sns : base(sn) \in Nat /\ base(sn) < Mod /\ (base(sn) = 0 <=> sn = rx_next)
         /\ \A a, c \in Sns : base(a) = base(c) => a = c
<1>1. rx_next \in Sns
  BY Zenon DEF RxTypes
<1>2. \A sn \in Sns : base(sn) \in 0 .. (Mod - 1) /\ (base(sn) = 0 <=> sn = rx_next)
  BY <1>1, BaseType, Zenon DEF base
<1>3. \A a, c \in Sns : base(a) = base(c) => a = c
  BY <1>1, SameBase, Zenon DEF base
<1> QED
  BY <1>2, <1>3, SnSpace

LEMMA PreviousBase ==
  ASSUME RxTypes, NEW sn \in Sns, 0 < base(sn)
  PROVE  (sn - 1) % Mod \in Sns /\ base((sn - 1) % Mod) = base(sn) - 1
<1>1. rx_next \in Sns
  BY Zenon DEF RxTypes
<1>2. sn # rx_next
  BY <1>1, Bases
<1> QED
  BY <1>1, <1>2, PrevBase, Zenon DEF base

(* The SDU with the bytes of the PDU added.                                 *)
PduStored(pdu, stored) ==
  /\ pdu.sn \in Sns /\ base(pdu.sn) < AmWindow
  /\ stored \in [Sns -> SUBSET Bytes]
  /\ has_sn(stored, pdu.sn)
  /\ completes(pdu) <=> fully_received(stored, pdu.sn)
  /\ \A sn \in Sns : sn # pdu.sn => stored[sn] = got[sn]
  /\ \A sn \in Sns : has_sn(got, sn) => has_sn(stored, sn)

LEMMA StoredAfterPdu ==
  ASSUME RxTypes, NEW pdu \in DataPdus, ~discarded(pdu.sn), NEW stored,
         stored = [got EXCEPT ![pdu.sn] = @ \cup (pdu.so .. pdu.so + pdu.len - 1)]
  PROVE  PduStored(pdu, stored)
<1> DEFINE seg == pdu.so .. pdu.so + pdu.len - 1
<1>1. pdu.sn \in Sns /\ seg \in SUBSET Bytes /\ seg # {}
  <2>1. pdu.sn \in Sns /\ pdu.so \in Bytes /\ pdu.len \in 1 .. SduLen /\ pdu.so + pdu.len <= SduLen
    BY DEF DataPdus
  <2>2. SduLen \in Nat /\ Bytes = 0 .. SduLen - 1
    BY StatusPduAssumption DEF Bytes
  <2>3. pdu.so \in seg
    BY <2>1, <2>2
  <2> QED
    BY <2>1, <2>2, <2>3
<1>2. got \in [Sns -> SUBSET Bytes]
  BY Zenon DEF RxTypes
<1>3. stored = [got EXCEPT ![pdu.sn] = @ \cup seg]
  BY Zenon
<1>4. base(pdu.sn) < AmWindow
  BY Zenon DEF discarded, inside_rx_window, base
<1>5. completes(pdu) <=> got[pdu.sn] \cup seg = Bytes
  BY Zenon DEF completes
<1> HIDE DEF seg
<1>6. /\ stored \in [Sns -> SUBSET Bytes] /\ stored[pdu.sn] = got[pdu.sn] \cup seg
      /\ \A sn \in Sns : sn # pdu.sn => stored[sn] = got[sn]
  BY <1>1, <1>2, <1>3
<1>7. has_sn(stored, pdu.sn) /\ \A sn \in Sns : has_sn(got, sn) => has_sn(stored, sn)
  BY <1>1, <1>6 DEF has_sn
<1> QED
  BY <1>1, <1>4, <1>5, <1>6, <1>7, Zenon DEF PduStored, fully_received

(* RX_Next_Highest stays one past the last SDU of which something arrived.  *)
PduHighest(pdu, stored, highest) ==
  /\ highest \in Sns /\ 0 < base(highest) /\ base(highest) <= AmWindow
  /\ base(rx_next_highest) <= base(highest) /\ base(pdu.sn) < base(highest)
  /\ \A sn \in Sns : has_sn(stored, sn) => base(sn) < base(highest)
  /\ \A sn \in Sns : base(sn) >= base(highest) => ~fully_received(stored, sn)
  /\ has_sn(stored, (highest - 1) % Mod)

LEMMA HighestAfterPdu ==
  ASSUME RxInv, NEW pdu, NEW stored, PduStored(pdu, stored), NEW highest,
         highest = IF base(pdu.sn) >= base(rx_next_highest) THEN next_sn(pdu.sn) ELSE rx_next_highest
  PROVE  PduHighest(pdu, stored, highest)
<1>1. /\ RxTypes /\ rx_next \in Sns /\ rx_next_highest \in Sns /\ base(rx_next_highest) <= AmWindow
      /\ \A sn \in Sns : has_sn(got, sn) => base(sn) < base(rx_next_highest)
      /\ base(rx_next_highest) > 0 => has_sn(got, (rx_next_highest - 1) % Mod)
  BY Zenon DEF RxInv, RxTypes, Ordered, TopReceived, base
<1>2. /\ pdu.sn \in Sns /\ base(pdu.sn) < AmWindow /\ has_sn(stored, pdu.sn)
      /\ \A sn \in Sns : sn # pdu.sn => stored[sn] = got[sn]
      /\ \A sn \in Sns : has_sn(got, sn) => has_sn(stored, sn)
  BY Zenon DEF PduStored
<1>3. \A sn \in Sns : base(sn) \in Nat /\ base(sn) < Mod /\ (base(sn) = 0 <=> sn = rx_next)
  BY <1>1, Bases, Zenon
<1>4. next_sn(pdu.sn) \in Sns /\ base(next_sn(pdu.sn)) = base(pdu.sn) + 1
  <2>1. /\ next_sn(pdu.sn) \in Sns
        /\ base(next_sn(pdu.sn)) = IF base(pdu.sn) = Mod - 1 THEN 0 ELSE base(pdu.sn) + 1
    BY <1>1, <1>2, NextBase, Zenon DEF base
  <2> QED
    BY <1>2, <1>3, <2>1, SnSpace
<1>5. /\ highest \in Sns /\ 0 < base(highest) /\ base(highest) <= AmWindow
      /\ base(rx_next_highest) <= base(highest) /\ base(pdu.sn) < base(highest)
  BY <1>1, <1>2, <1>3, <1>4, SnSpace
<1>6. ASSUME NEW sn \in Sns, has_sn(stored, sn) PROVE base(sn) < base(highest)
  <2>1. sn # pdu.sn => base(sn) < base(rx_next_highest)
    BY <1>1, <1>2, <1>6, Zenon DEF has_sn
  <2> QED
    BY <1>1, <1>3, <1>5, <2>1
<1>7. \A sn \in Sns : base(sn) >= base(highest) => ~fully_received(stored, sn)
  <2>1. \A sn \in Sns : base(sn) >= base(highest) => ~has_sn(stored, sn)
    BY <1>3, <1>5, <1>6
  <2> QED
    BY <2>1, SnSpace, Zenon DEF has_sn, fully_received
<1>8. has_sn(stored, (highest - 1) % Mod)
  <2>1. (highest - 1) % Mod \in Sns /\ base((highest - 1) % Mod) = base(highest) - 1
    BY <1>1, <1>5, PreviousBase, Zenon
  <2>2. CASE base(pdu.sn) >= base(rx_next_highest)
    <3>1. highest = next_sn(pdu.sn)
      BY <2>2, Zenon
    <3>2. base((highest - 1) % Mod) = base(pdu.sn)
      BY <1>2, <1>3, <1>4, <2>1, <3>1
    <3>3. (highest - 1) % Mod = pdu.sn
      BY <1>1, <1>2, <2>1, <3>2, Bases, Zenon
    <3> QED
      BY <1>2, <3>3, Zenon
  <2>3. CASE ~(base(pdu.sn) >= base(rx_next_highest))
    <3>1. highest = rx_next_highest
      BY <2>3, Zenon
    <3> QED
      BY <1>1, <1>2, <1>5, <2>1, <3>1, Zenon
  <2> QED
    BY <2>2, <2>3, Zenon
<1> QED
  BY <1>5, <1>6, <1>7, <1>8, Zenon DEF PduHighest

LEMMA EdgesAfterPdu ==
  ASSUME RxInv, NEW pdu \in DataPdus, ~discarded(pdu.sn),
         NEW stored, NEW highest, NEW status, NEW next,
         PduEdges(pdu, stored, highest, status, next)
  PROVE  NewEdges(stored, highest, status, next)
<1>1. /\ RxTypes /\ rx_next \in Sns /\ rx_highest_status \in Sns /\ rx_next_highest \in Sns
      /\ base(rx_highest_status) <= base(rx_next_highest)
      /\ ~fully_received(got, rx_next) /\ ~fully_received(got, rx_highest_status)
  BY Zenon DEF RxInv, RxTypes, Ordered, base
<1>2. PduStored(pdu, stored)
  BY <1>1, StoredAfterPdu, Zenon DEF PduEdges
<1>3. PduHighest(pdu, stored, highest)
  BY <1>2, HighestAfterPdu, Zenon DEF PduEdges
<1>4. /\ pdu.sn \in Sns /\ (completes(pdu) <=> fully_received(stored, pdu.sn))
      /\ \A sn \in Sns : sn # pdu.sn => stored[sn] = got[sn]
  BY <1>2, Zenon DEF PduStored
<1>5. /\ highest \in Sns /\ 0 < base(highest)
      /\ base(rx_next_highest) <= base(highest) /\ base(pdu.sn) < base(highest)
      /\ \A sn \in Sns : base(sn) >= base(highest) => ~fully_received(stored, sn)
  BY <1>3, Zenon DEF PduHighest
<1>6. \A sn \in Sns : base(sn) \in Nat /\ base(sn) < Mod /\ (base(sn) = 0 <=> sn = rx_next)
  BY <1>1, Bases, Zenon
<1>7. /\ next \in Sns /\ ~fully_received(stored, next) /\ base(next) <= base(highest)
      /\ \A sn \in Sns : base(sn) < base(next) => fully_received(stored, sn)
  <2>1. CASE completes(pdu) /\ pdu.sn = rx_next
    <3>1. FirstGap(rx_next, stored, rx_next, highest, next)
      BY <1>1, <1>5, <2>1, FirstIncomplete, Zenon DEF PduEdges
    <3>2. /\ next \in Sns
          /\ base(rx_next) < base(highest) =>
               /\ base(next) <= base(highest)
               /\ next = highest \/ ~fully_received(stored, next)
               /\ \A sn \in Sns : base(rx_next) <= base(sn) /\ base(sn) < base(next) => fully_received(stored, sn)
      BY <3>1, Zenon DEF FirstGap, base
    <3> QED
      BY <1>1, <1>5, <1>6, <3>2
  <2>2. CASE ~(completes(pdu) /\ pdu.sn = rx_next)
    <3>1. next = rx_next
      BY <2>2, Zenon DEF PduEdges
    <3>2. ~fully_received(stored, rx_next)
      BY <1>1, <1>4, <2>2, Zenon DEF fully_received
    <3> QED
      BY <1>1, <1>5, <1>6, <3>1, <3>2
  <2> QED
    BY <2>1, <2>2, Zenon
<1>8. status \in Sns /\ ~fully_received(stored, status) /\ base(status) <= base(highest)
  <2>1. CASE completes(pdu) /\ pdu.sn = rx_highest_status
    <3>1. /\ next_sn(pdu.sn) \in Sns
          /\ base(next_sn(pdu.sn)) = IF base(pdu.sn) = Mod - 1 THEN 0 ELSE base(pdu.sn) + 1
      BY <1>1, <1>4, NextBase, Zenon DEF base
    <3>2. FirstGap(rx_next, stored, next_sn(pdu.sn), highest, status)
      BY <1>1, <1>5, <2>1, <3>1, FirstIncomplete, Zenon DEF PduEdges
    <3>3. /\ status \in Sns
          /\ base(next_sn(pdu.sn)) >= base(highest) => status = next_sn(pdu.sn)
          /\ base(next_sn(pdu.sn)) < base(highest) =>
               base(status) <= base(highest) /\ (status = highest \/ ~fully_received(stored, status))
      BY <3>2, Zenon DEF FirstGap, base
    <3> QED
      BY <1>4, <1>5, <1>6, <3>1, <3>3, SnSpace
  <2>2. CASE ~(completes(pdu) /\ pdu.sn = rx_highest_status)
    <3>1. status = rx_highest_status
      BY <2>2, Zenon DEF PduEdges
    <3>2. ~fully_received(stored, rx_highest_status)
      BY <1>1, <1>4, <2>2, Zenon DEF fully_received
    <3> QED
      BY <1>1, <1>5, <1>6, <3>1, <3>2
  <2> QED
    BY <2>1, <2>2, Zenon
<1>9. base(next) <= base(status)
  BY <1>6, <1>7, <1>8
<1> QED
  BY <1>2, <1>3, <1>7, <1>8, <1>9, Zenon DEF NewEdges, PduStored, PduHighest

(* The SDUs before the new lower edge leave the window.                     *)
Slid(stored, next, window) ==
  window = [sn \in Sns |-> IF base(sn) < base(next) THEN {} ELSE stored[sn]]

LEMMA EdgesAfterSlide ==
  ASSUME RxTypes, NEW stored, NEW highest, NEW status, NEW next, NEW window,
         NewEdges(stored, highest, status, next), Slid(stored, next, window)
  PROVE  /\ window \in [Sns -> SUBSET Bytes]
         /\ Ordered(next, status, highest, window)
         /\ TopReceived(next, highest, window)
<1> DEFINE b(sn) == base(sn)
           d(sn) == rx_mod_base(next, sn)
<1>1. rx_next \in Sns /\ highest \in Sns /\ status \in Sns /\ next \in Sns
  BY Zenon DEF RxTypes, NewEdges
<1>2. stored \in [Sns -> SUBSET Bytes]
  BY Zenon DEF NewEdges
<1>3. /\ 0 < b(highest) /\ b(highest) <= AmWindow
      /\ b(next) <= b(status) /\ b(status) <= b(highest)
  BY Zenon DEF NewEdges
<1>4. /\ \A sn \in Sns : has_sn(stored, sn) => b(sn) < b(highest)
      /\ ~fully_received(stored, next) /\ ~fully_received(stored, status)
      /\ has_sn(stored, (highest - 1) % Mod)
  BY Zenon DEF NewEdges
<1>5. \A sn \in Sns : b(sn) \in Nat /\ b(sn) < Mod
  BY Bases, Zenon
<1>6. \A sn \in Sns : d(sn) = IF b(next) <= b(sn) THEN b(sn) - b(next) ELSE b(sn) - b(next) + Mod
  BY <1>1, MovedBase, Zenon DEF base
<1>7. window \in [Sns -> SUBSET Bytes]
  BY <1>2 DEF Slid
<1>8. /\ \A sn \in Sns : b(sn) < b(next) => window[sn] = {}
      /\ \A sn \in Sns : ~(b(sn) < b(next)) => window[sn] = stored[sn]
  BY DEF Slid
<1> HIDE DEF b, d
<1>9. /\ d(status) = b(status) - b(next) /\ d(highest) = b(highest) - b(next)
      /\ d(status) <= d(highest) /\ d(highest) <= AmWindow
  BY <1>1, <1>3, <1>5, <1>6, SnSpace
<1>10. ~fully_received(window, next) /\ ~fully_received(window, status)
  <2>1. ~(b(next) < b(next)) /\ ~(b(status) < b(next))
    BY <1>1, <1>3, <1>5, SnSpace
  <2> QED
    BY <1>1, <1>4, <1>8, <2>1, Zenon DEF fully_received
<1>11. ASSUME NEW sn \in Sns, has_sn(window, sn) PROVE d(sn) < d(highest)
  <2>1. ~(b(sn) < b(next)) /\ has_sn(stored, sn)
    BY <1>8, <1>11, Zenon DEF has_sn
  <2>2. b(sn) < b(highest)
    BY <1>4, <2>1, Zenon
  <2> QED
    BY <1>1, <1>5, <1>6, <1>9, <2>1, <2>2, SnSpace
<1>12. ASSUME d(highest) > 0 PROVE has_sn(window, (highest - 1) % Mod)
  <2>1. (highest - 1) % Mod \in Sns /\ b((highest - 1) % Mod) = b(highest) - 1
    BY <1>1, <1>3, PreviousBase, Zenon DEF b
  <2>2. ~(b((highest - 1) % Mod) < b(next))
    BY <1>1, <1>5, <1>9, <1>12, <2>1
  <2> QED
    BY <1>4, <1>8, <2>1, <2>2, Zenon DEF has_sn
<1> QED
  BY <1>7, <1>9, <1>10, <1>11, <1>12, Zenon DEF Ordered, TopReceived, d

(* A trigger that has not been overtaken stays anchored.                    *)
LEMMA StillAnchored ==
  ASSUME RxTypes, NEW stored, NEW highest, NEW status, NEW next, NEW window,
         NewEdges(stored, highest, status, next), Slid(stored, next, window),
         NEW trigger \in Sns, Anchored(rx_next, trigger, rx_next_highest, got),
         ~stop_reassembly(next, trigger, window)
  PROVE  Anchored(next, trigger, highest, window)
<1> DEFINE b(sn) == base(sn)
           d(sn) == rx_mod_base(next, sn)
<1>1. rx_next \in Sns /\ highest \in Sns /\ next \in Sns /\ rx_next_highest \in Sns
  BY Zenon DEF RxTypes, NewEdges
<1>2. /\ b(highest) <= AmWindow /\ b(rx_next_highest) <= b(highest)
      /\ b(next) <= b(status) /\ b(status) <= b(highest) /\ status \in Sns
      /\ \A sn \in Sns : has_sn(got, sn) => has_sn(stored, sn)
  BY Zenon DEF NewEdges
<1>3. /\ 0 < b(trigger) /\ b(trigger) <= AmWindow /\ b(trigger) <= b(rx_next_highest)
      /\ has_sn(got, (trigger - 1) % Mod)
  BY Zenon DEF Anchored, valid_ack_sn, base
<1>4. trigger # next /\ d(trigger) < AmWindow
  BY Zenon DEF stop_reassembly, inside_rx_window
<1>5. \A sn \in Sns : b(sn) \in Nat /\ b(sn) < Mod
  BY Bases, Zenon
<1>6. \A sn \in Sns : d(sn) = IF b(next) <= b(sn) THEN b(sn) - b(next) ELSE b(sn) - b(next) + Mod
  BY <1>1, MovedBase, Zenon DEF base
<1>7. \A sn \in Sns : ~(b(sn) < b(next)) => window[sn] = stored[sn]
  BY DEF Slid
<1>8. d(trigger) \in Nat /\ d(trigger) # 0
  BY <1>1, <1>4, BaseType, SnSpace
<1> HIDE DEF b, d
<1>9. b(next) < b(trigger)
  BY <1>1, <1>2, <1>3, <1>4, <1>5, <1>6, <1>8, SnSpace
<1>10. d(trigger) <= d(highest)
  BY <1>1, <1>2, <1>3, <1>5, <1>6, <1>9, SnSpace
<1>11. (trigger - 1) % Mod \in Sns /\ b((trigger - 1) % Mod) = b(trigger) - 1
  BY <1>3, PreviousBase, Zenon DEF b
<1>12. ~(b((trigger - 1) % Mod) < b(next))
  BY <1>1, <1>5, <1>9, <1>11
<1>13. has_sn(window, (trigger - 1) % Mod)
  BY <1>2, <1>3, <1>7, <1>11, <1>12, Zenon DEF has_sn
<1>14. 0 < d(trigger) /\ d(trigger) <= AmWindow
  BY <1>4, <1>8, SnSpace
<1> QED
  BY <1>10, <1>13, <1>14, Zenon DEF Anchored, valid_ack_sn, d

(* A timer that starts takes RX_Next_Highest as its trigger.                *)
LEMMA StartAnchored ==
  ASSUME NEW next \in Sns, NEW status, NEW highest \in Sns, NEW window,
         Ordered(next, status, highest, window), TopReceived(next, highest, window),
         highest # next
  PROVE  Anchored(next, highest, highest, window)
<1>1. rx_mod_base(next, highest) \in Nat /\ rx_mod_base(next, highest) # 0
  BY BaseType, SnSpace
<1>2. rx_mod_base(next, highest) > 0 /\ rx_mod_base(next, highest) <= rx_mod_base(next, highest)
  BY <1>1
<1> QED
  BY <1>2, SnSpace DEF Ordered, TopReceived, Anchored, valid_ack_sn

(* When t-Reassembly is not started nothing needs watching: all that was    *)
(* received lies in the first SDU missing anything, without a gap.          *)
LEMMA NothingToWatch ==
  ASSUME NEW next \in Sns, NEW low \in Sns, NEW highest \in Sns, NEW window,
         rx_mod_base(next, low) <= rx_mod_base(next, highest),
         rx_mod_base(next, highest) <= AmWindow,
         ~start_reassembly(low, highest, window, next)
  PROVE  NothingMissing(next, low, highest, window)
<1> DEFINE d(sn) == rx_mod_base(next, sn)
<1>1. \A sn \in Sns : d(sn) \in Nat /\ d(sn) < Mod
  BY BaseType, SnSpace
<1>2. /\ rx_mod_base(next, low + 1) = d(next_sn(low))
      /\ d(next_sn(low)) = IF d(low) = Mod - 1 THEN 0 ELSE d(low) + 1
  BY NextBase, Zenon
<1>3. /\ ~(d(highest) > d(next_sn(low)))
      /\ ~(d(highest) = d(next_sn(low)) /\ has_gap(window, low))
  BY <1>2, Zenon DEF start_reassembly
<1>4. \A sn \in Sns : d(sn) = d(low) => sn = low
  BY SameBase, Zenon
<1>5. d(low) <= d(highest) /\ d(highest) <= AmWindow
  OBVIOUS
<1> HIDE DEF d
<1>6. SUFFICES ASSUME NEW sn \in Sns, d(low) <= d(sn), d(sn) < d(highest),
                      IF d(sn) + 1 = d(highest) THEN has_gap(window, sn) ELSE ~fully_received(window, sn)
               PROVE  FALSE
  BY Zenon DEF NothingMissing, d
<1>7. d(low) + 1 = d(highest) /\ d(sn) = d(low) /\ d(highest) = d(next_sn(low))
  BY <1>1, <1>2, <1>3, <1>5, <1>6, SnSpace
<1>8. sn = low
  BY <1>4, <1>7, Zenon
<1> QED
  BY <1>3, <1>6, <1>7, <1>8, Zenon

(* From a later RX_Highest_Status on, less is left to watch.                *)
LEMMA NothingMissingAbove ==
  ASSUME NEW next \in Sns, NEW status \in Sns, NEW highest \in Sns, NEW window,
         NothingMissing(next, next, highest, window)
  PROVE  NothingMissing(next, status, highest, window)
<1>1. \A sn \in Sns : rx_mod_base(next, next) <= rx_mod_base(next, sn)
  BY BaseType, SnSpace
<1> QED
  BY <1>1, Zenon DEF NothingMissing

(* on_expired_reassembly_timer moves RX_Highest_Status within its bounds.   *)
LEMMA StatusAfterExpiry ==
  ASSUME RxInv, reassembly_timer > 0,
         NEW status, status = first_incomplete(rx_next, got, rx_next_status_trigger, rx_next_highest)
  PROVE  /\ status \in Sns /\ rx_next_highest # rx_next
         /\ Ordered(rx_next, status, rx_next_highest, got)
<1> DEFINE b(sn) == rx_mod_base(rx_next, sn)
           trigger == rx_next_status_trigger
           highest == rx_next_highest
<1>1. rx_next \in Sns /\ trigger \in Sns /\ highest \in Sns
  BY Zenon DEF RxInv, RxTypes
<1>2. /\ b(highest) <= AmWindow /\ ~fully_received(got, rx_next)
      /\ \A sn \in Sns : has_sn(got, sn) => b(sn) < b(highest)
  BY Zenon DEF RxInv, Ordered
<1>3. 0 < b(trigger) /\ b(trigger) <= b(highest)
  BY Zenon DEF RxInv, Anchored, valid_ack_sn
<1>4. \A sn \in Sns : b(sn) \in Nat /\ b(sn) < Mod
  BY <1>1, BaseType, SnSpace
<1>5. b(rx_next) = 0
  BY <1>1, BaseType, Zenon
<1>6. FirstGap(rx_next, got, trigger, highest, status)
  BY <1>1, FirstIncomplete, Zenon
<1>7. /\ status \in Sns
      /\ b(trigger) >= b(highest) => status = trigger
      /\ b(trigger) < b(highest) => /\ b(status) <= b(highest)
                                    /\ status = highest \/ ~fully_received(got, status)
  BY <1>6, Zenon DEF FirstGap
<1> HIDE DEF b, trigger, highest
<1>8. \A sn \in Sns : b(sn) >= b(highest) => ~fully_received(got, sn)
  <2>1. \A sn \in Sns : b(sn) >= b(highest) => ~has_sn(got, sn)
    BY <1>1, <1>2, <1>4, SnSpace
  <2> QED
    BY <2>1, SnSpace, Zenon DEF has_sn, fully_received
<1>9. b(status) <= b(highest) /\ ~fully_received(got, status)
  BY <1>1, <1>3, <1>4, <1>7, <1>8, SnSpace
<1>10. highest # rx_next
  BY <1>1, <1>3, <1>4, <1>5, SnSpace
<1> QED
  BY <1>2, <1>7, <1>9, <1>10, Zenon DEF Ordered, b, highest

-----------------------------------------------------------------------------
(* The invariant is inductive                                               *)

LEMMA RxInvInit == Init => RxInv
<1> SUFFICES ASSUME Init PROVE RxInv
  OBVIOUS
<1>1. 0 \in Sns
  BY SnSpace DEF Sns
<1>2. rx_mod_base(0, 0) = 0
  BY <1>1, BaseType, Zenon
<1>3. /\ rx_next = 0 /\ rx_highest_status = 0 /\ rx_next_highest = 0 /\ rx_next_status_trigger = 0
      /\ got = [sn \in Sns |-> {}] /\ reassembly_timer = 0 /\ report = empty_report
  BY Zenon DEF Init
<1>4. \A sn \in Sns : ~has_sn(got, sn) /\ ~fully_received(got, sn)
  BY <1>3, SnSpace DEF has_sn, fully_received
<1>5. \A sn \in Sns : ~(rx_mod_base(0, sn) < 0)
  BY <1>1, BaseType, SnSpace
<1>6. Ordered(0, 0, 0, got)
  BY <1>1, <1>2, <1>4, SnSpace DEF Ordered
<1>7. NothingMissing(0, 0, 0, got)
  BY <1>2, <1>5, Zenon DEF NothingMissing
<1>8. TopReceived(0, 0, got)
  BY <1>2 DEF TopReceived
<1>9. RxTypes
  BY <1>1, <1>3 DEF RxTypes
<1> QED
  BY <1>3, <1>6, <1>7, <1>8, <1>9 DEF RxInv, ReportIsCurrent

LEMMA RxInvNewPdu ==
  ASSUME RxInv, NEW pdu \in DataPdus, HandleNewPdu(pdu)
  PROVE  RxInv'
<1> DEFINE stored == [got EXCEPT ![pdu.sn] = @ \cup (pdu.so .. pdu.so + pdu.len - 1)]
           highest == IF rx_mod_base(rx_next, pdu.sn) >= rx_mod_base(rx_next, rx_next_highest)
                        THEN next_sn(pdu.sn) ELSE rx_next_highest
           status == IF completes(pdu) /\ pdu.sn = rx_highest_status
                       THEN first_incomplete(rx_next, stored, next_sn(rx_highest_status), highest)
                       ELSE rx_highest_status
           next == IF completes(pdu) /\ pdu.sn = rx_next
                     THEN first_incomplete(rx_next, stored, rx_next, highest)
                     ELSE rx_next
           window == [sn \in Sns |->
                        IF rx_mod_base(rx_next, sn) < rx_mod_base(rx_next, next) THEN {} ELSE stored[sn]]
           trigger == rx_next_status_trigger
           running == reassembly_timer > 0 /\ ~stop_reassembly(next, trigger, window)
           start == ~running /\ start_reassembly(next, highest, window, next)
<1>1. ~discarded(pdu.sn)
  BY Zenon DEF HandleNewPdu
<1>2. /\ rx_next' = next /\ rx_next_highest' = highest /\ rx_highest_status' = status
      /\ got' = window
      /\ reassembly_timer' = IF start THEN TReassembly
                             ELSE IF running THEN reassembly_timer ELSE 0
      /\ rx_next_status_trigger' = IF start THEN highest ELSE trigger
      /\ update_status(stored # got, pdu.p, next, status, window)
  BY Zenon DEF HandleNewPdu
<1>3. PduEdges(pdu, stored, highest, status, next)
  BY Zenon DEF PduEdges, base
<1>4. Slid(stored, next, window)
  BY Zenon DEF Slid, base
<1>5. stored = got => ~completes(pdu)
  <2>1. pdu.sn \in Sns /\ got \in [Sns -> SUBSET Bytes] /\ got[pdu.sn] # Bytes
    BY <1>1 DEF DataPdus, RxInv, RxTypes, discarded, fully_received
  <2>2. stored[pdu.sn] = got[pdu.sn] \cup (pdu.so .. pdu.so + pdu.len - 1)
    BY <2>1
  <2> QED
    BY <2>1, <2>2, Zenon DEF completes
<1>6. ~completes(pdu) => status = rx_highest_status /\ next = rx_next
  BY Zenon
<1>7. next = rx_next /\ stored = got => window = got
  <2>1. got \in [Sns -> SUBSET Bytes] /\ rx_next \in Sns
    BY Zenon DEF RxInv, RxTypes
  <2>2. \A sn \in Sns : ~(rx_mod_base(rx_next, sn) < rx_mod_base(rx_next, rx_next))
    BY <2>1, BaseType, SnSpace
  <2> HIDE DEF stored, next
  <2> QED
    BY <2>1, <2>2
<1> HIDE DEF stored, highest, status, next, window
<1>8. NewEdges(stored, highest, status, next)
  BY <1>1, <1>3, EdgesAfterPdu, Zenon
<1>9. RxTypes /\ trigger \in Sns /\ reassembly_timer \in Nat
  BY Zenon DEF RxInv, RxTypes
<1>10. highest \in Sns /\ status \in Sns /\ next \in Sns
  BY <1>8, Zenon DEF NewEdges
<1>11. /\ window \in [Sns -> SUBSET Bytes]
       /\ Ordered(next, status, highest, window) /\ TopReceived(next, highest, window)
  BY <1>4, <1>8, <1>9, EdgesAfterSlide, Zenon
<1>12. running => Anchored(next, trigger, highest, window)
  <2> SUFFICES ASSUME running PROVE Anchored(next, trigger, highest, window)
    OBVIOUS
  <2>1. Anchored(rx_next, trigger, rx_next_highest, got)
    BY Zenon DEF RxInv
  <2> QED
    BY <1>4, <1>8, <1>9, <2>1, StillAnchored, Zenon
<1>13. start => Anchored(next, highest, highest, window)
  <2> SUFFICES ASSUME start_reassembly(next, highest, window, next)
               PROVE  Anchored(next, highest, highest, window)
    BY Zenon
  <2>1. /\ rx_mod_base(next, highest) \in 0 .. Mod - 1 /\ rx_mod_base(next, next) = 0
        /\ rx_mod_base(next, highest) = 0 <=> highest = next
        /\ rx_mod_base(next, next + 1) = IF rx_mod_base(next, next) = Mod - 1 THEN 0
                                         ELSE rx_mod_base(next, next) + 1
    BY <1>10, BaseType, NextBase
  <2>2. rx_mod_base(next, highest) >= rx_mod_base(next, next + 1)
    BY <2>1, SnSpace DEF start_reassembly
  <2>3. highest # next
    BY <2>1, <2>2, SnSpace
  <2> QED
    BY <1>10, <1>11, <2>3, StartAnchored, Zenon
<1>14. ~running /\ ~start => NothingMissing(next, status, highest, window)
  <2> SUFFICES ASSUME ~start_reassembly(next, highest, window, next)
               PROVE  NothingMissing(next, status, highest, window)
    BY Zenon
  <2>1. rx_mod_base(next, next) <= rx_mod_base(next, highest) /\ rx_mod_base(next, highest) <= AmWindow
    <3>1. rx_mod_base(next, next) = 0 /\ rx_mod_base(next, highest) \in 0 .. Mod - 1
      BY <1>10, BaseType, Zenon
    <3> QED
      BY <1>11, <3>1, SnSpace DEF Ordered
  <2>2. NothingMissing(next, next, highest, window)
    BY <1>10, <2>1, NothingToWatch, Zenon
  <2> QED
    BY <1>10, <2>2, NothingMissingAbove, Zenon
<1>15. ReportIsCurrent'
  <2>1. CASE status_due(stored # got, pdu.p)
    <3>1. report' = refresh_status_report(next, status, window)
      BY <1>2, <2>1, Zenon DEF update_status
    <3> QED
      BY <1>2, <3>1, Zenon DEF ReportIsCurrent
  <2>2. CASE ~status_due(stored # got, pdu.p)
    <3>1. report' = report /\ stored = got
      BY <1>2, <2>2, Zenon DEF update_status, status_due
    <3>2. next = rx_next /\ status = rx_highest_status /\ window = got
      BY <1>5, <1>6, <1>7, <3>1, Zenon
    <3>3. rx_next' = rx_next /\ rx_highest_status' = rx_highest_status /\ got' = got
      BY <1>2, <3>2, Zenon
    <3> QED
      BY <3>1, <3>3, Zenon DEF ReportIsCurrent, RxInv
  <2> QED
    BY <2>1, <2>2, Zenon
<1> HIDE DEF start, running, trigger
<1>16. TReassembly \in Nat \ {0}
  BY RxAssumption
<1>17. RxTypes'
  BY <1>2, <1>9, <1>10, <1>11, <1>16 DEF RxTypes, trigger
<1>18. /\ reassembly_timer' > 0 => start \/ running
       /\ start => reassembly_timer' > 0
       /\ running => reassembly_timer > 0
  BY <1>2, <1>16 DEF running
<1>19. start \/ running => reassembly_timer' > 0
  BY <1>2, <1>9, <1>16, <1>18
<1>20. start \/ running => Anchored(rx_next, rx_next_status_trigger, rx_next_highest, got)'
  <2>1. CASE start
    <3>1. rx_next_status_trigger' = highest
      BY <1>2, <2>1, Zenon
    <3> QED
      BY <1>2, <1>13, <2>1, <3>1, Zenon DEF Anchored
  <2>2. CASE ~start /\ running
    <3>1. rx_next_status_trigger' = trigger
      BY <1>2, <2>2, Zenon
    <3> QED
      BY <1>2, <1>12, <2>2, <3>1, Zenon DEF Anchored
  <2> QED
    BY <2>1, <2>2, Zenon
<1>21. Ordered(rx_next, rx_highest_status, rx_next_highest, got)'
  BY <1>2, <1>11, Zenon DEF Ordered
<1>22. TopReceived(rx_next, rx_next_highest, got)'
  BY <1>2, <1>11, Zenon DEF TopReceived
<1>23. ~(start \/ running) => NothingMissing(rx_next, rx_highest_status, rx_next_highest, got)'
  BY <1>2, <1>14, Zenon DEF NothingMissing
<1> QED
  BY <1>15, <1>17, <1>18, <1>19, <1>20, <1>21, <1>22, <1>23, Zenon DEF RxInv

LEMMA RxInvExpire ==
  ASSUME RxInv, ExpireReassembly
  PROVE  RxInv'
<1> DEFINE status == first_incomplete(rx_next, got, rx_next_status_trigger, rx_next_highest)
           start == start_reassembly(status, rx_next_highest, got, rx_next)
<1>1. reassembly_timer = 1 /\ rx_next' = rx_next /\ rx_next_highest' = rx_next_highest /\ got' = got
  BY Zenon DEF ExpireReassembly
<1>2. reassembly_timer > 0
  BY <1>1
<1>3. valid_ack_sn(rx_next, rx_next_status_trigger)
  BY <1>2, Zenon DEF RxInv, Anchored
<1>4. /\ rx_highest_status' = status
      /\ reassembly_timer' = IF start THEN TReassembly ELSE 0
      /\ rx_next_status_trigger' = IF start THEN rx_next_highest ELSE rx_next_status_trigger
      /\ update_status(TRUE, TRUE, rx_next, status, got)
  BY <1>3, Zenon DEF ExpireReassembly
<1> HIDE DEF status
<1>5. /\ status \in Sns /\ rx_next_highest # rx_next
      /\ Ordered(rx_next, status, rx_next_highest, got)
  BY <1>2, StatusAfterExpiry, Zenon DEF status
<1>6. RxTypes /\ rx_next \in Sns /\ rx_next_highest \in Sns /\ TopReceived(rx_next, rx_next_highest, got)
  BY Zenon DEF RxInv, RxTypes
<1>7. Anchored(rx_next, rx_next_highest, rx_next_highest, got)
  BY <1>5, <1>6, StartAnchored, Zenon
<1>8. ~start => NothingMissing(rx_next, status, rx_next_highest, got)
  BY <1>5, <1>6, NothingToWatch, Zenon DEF Ordered
<1> HIDE DEF start
<1>9. TReassembly \in Nat \ {0}
  BY RxAssumption
<1>10. RxTypes'
  BY <1>1, <1>4, <1>5, <1>6, <1>9 DEF RxTypes
<1>11. ReportIsCurrent'
  <2>1. report' = refresh_status_report(rx_next, status, got)
    BY <1>4, Zenon DEF update_status, status_due
  <2> QED
    BY <1>1, <1>4, <2>1, Zenon DEF ReportIsCurrent
<1>12. reassembly_timer' > 0 <=> start
  BY <1>4, <1>9
<1>13. Ordered(rx_next, rx_highest_status, rx_next_highest, got)'
  BY <1>1, <1>4, <1>5, Zenon DEF Ordered
<1>14. TopReceived(rx_next, rx_next_highest, got)'
  BY <1>1, <1>6, Zenon DEF TopReceived
<1>15. start => Anchored(rx_next, rx_next_status_trigger, rx_next_highest, got)'
  <2> SUFFICES ASSUME start PROVE Anchored(rx_next, rx_next_status_trigger, rx_next_highest, got)'
    OBVIOUS
  <2>1. rx_next_status_trigger' = rx_next_highest
    BY <1>4, Zenon
  <2> QED
    BY <1>1, <1>7, <2>1, Zenon DEF Anchored
<1>16. ~start => NothingMissing(rx_next, rx_highest_status, rx_next_highest, got)'
  BY <1>1, <1>4, <1>8, Zenon DEF NothingMissing
<1> QED
  BY <1>10, <1>11, <1>12, <1>13, <1>14, <1>15, <1>16, Zenon DEF RxInv

(* The invariant depends on report only through ReportIsCurrent, and on     *)
(* reassembly_timer only through whether it runs.                           *)
LEMMA RxInvFrame ==
  ASSUME RxInv, UNCHANGED stateVars, UNCHANGED got, reassembly_timer' \in Nat,
         reassembly_timer' > 0 <=> reassembly_timer > 0, ReportIsCurrent'
  PROVE  RxInv'
<1>1. /\ rx_next' = rx_next /\ rx_next_status_trigger' = rx_next_status_trigger
      /\ rx_highest_status' = rx_highest_status /\ rx_next_highest' = rx_next_highest /\ got' = got
  BY Zenon DEF stateVars
<1>2. RxTypes'
  BY <1>1, Zenon DEF RxInv, RxTypes
<1>3. Ordered(rx_next, rx_highest_status, rx_next_highest, got)'
  BY <1>1, Zenon DEF RxInv, Ordered
<1>4. TopReceived(rx_next, rx_next_highest, got)'
  BY <1>1, Zenon DEF RxInv, TopReceived
<1>5. reassembly_timer' > 0 => Anchored(rx_next, rx_next_status_trigger, rx_next_highest, got)'
  BY <1>1, Zenon DEF RxInv, Anchored
<1>6. NothingMissing(rx_next, rx_highest_status, rx_next_highest, got)' \/ reassembly_timer' > 0
  BY <1>1, Zenon DEF RxInv, NothingMissing
<1> QED
  BY <1>2, <1>3, <1>4, <1>5, <1>6, Zenon DEF RxInv

LEMMA RxInvStep == RxInv /\ [Next]_rxVars => RxInv'
<1> SUFFICES ASSUME RxInv, [Next]_rxVars PROVE RxInv'
  OBVIOUS
<1>1. RxTypes /\ reassembly_timer \in Nat /\ ReportIsCurrent
  BY Zenon DEF RxInv, RxTypes
<1>2. ASSUME NEW pdu \in DataPdus, HandleDuplicatePdu(pdu) PROVE RxInv'
  <2>1. /\ UNCHANGED stateVars /\ UNCHANGED got /\ UNCHANGED reassembly_timer
        /\ update_status(FALSE, pdu.p, rx_next, rx_highest_status, got)
    BY <1>2, Zenon DEF HandleDuplicatePdu
  <2>2. rx_next' = rx_next /\ rx_highest_status' = rx_highest_status /\ got' = got
    BY <2>1, Zenon DEF stateVars
  <2>3. report' = report \/ report' = refresh_status_report(rx_next, rx_highest_status, got)
    BY <2>1, Zenon DEF update_status
  <2>4. ReportIsCurrent'
    BY <1>1, <2>2, <2>3, Zenon DEF ReportIsCurrent
  <2>5. reassembly_timer' \in Nat /\ (reassembly_timer' > 0 <=> reassembly_timer > 0)
    BY <1>1, <2>1, Zenon
  <2> QED
    BY <2>1, <2>4, <2>5, RxInvFrame, Zenon
<1>3. ASSUME NEW pdu \in DataPdus, HandleNewPdu(pdu) PROVE RxInv'
  BY <1>3, RxInvNewPdu, Zenon
<1>4. CASE TickReassembly
  <2>1. /\ UNCHANGED stateVars /\ UNCHANGED got /\ report' = report
        /\ reassembly_timer > 1 /\ reassembly_timer' = reassembly_timer - 1
    BY <1>4, Zenon DEF TickReassembly, statusVars
  <2>2. rx_next' = rx_next /\ rx_highest_status' = rx_highest_status /\ got' = got
    BY <2>1, Zenon DEF stateVars
  <2>3. ReportIsCurrent'
    BY <1>1, <2>1, <2>2, Zenon DEF ReportIsCurrent
  <2>4. reassembly_timer' \in Nat /\ (reassembly_timer' > 0 <=> reassembly_timer > 0)
    BY <1>1, <2>1
  <2> QED
    BY <2>1, <2>3, <2>4, RxInvFrame, Zenon
<1>5. CASE ExpireReassembly
  BY <1>5, RxInvExpire, Zenon
<1>6. CASE TickProhibit \/ GetStatusPdu \/ UNCHANGED rxVars
  <2>1. UNCHANGED stateVars /\ UNCHANGED got /\ report' = report /\ reassembly_timer' = reassembly_timer
    BY <1>6, Zenon DEF TickProhibit, GetStatusPdu, rxVars, statusVars
  <2>2. rx_next' = rx_next /\ rx_highest_status' = rx_highest_status /\ got' = got
    BY <2>1, Zenon DEF stateVars
  <2>3. ReportIsCurrent'
    BY <1>1, <2>1, <2>2, Zenon DEF ReportIsCurrent
  <2>4. reassembly_timer' \in Nat /\ (reassembly_timer' > 0 <=> reassembly_timer > 0)
    BY <1>1, <2>1, Zenon
  <2> QED
    BY <2>1, <2>3, <2>4, RxInvFrame, Zenon
<1> QED
  BY <1>2, <1>3, <1>4, <1>5, <1>6, Zenon DEF Next, HandleDataPdu, Timers

LEMMA RxInvHolds == Spec => []RxInv
  BY RxInvInit, RxInvStep, PTL DEF Spec

(* However PDUs arrive and wrap around the SN space, and whenever the       *)
(* timers expire, the receiver state variables stay in order and at most    *)
(* one window apart, the window holds nothing outside them, and neither     *)
(* RX_Next nor RX_Highest_Status names a complete SDU (handle_data_pdu and  *)
(* on_expired_reassembly_timer of rlc_rx_am_entity.cpp).                    *)
THEOREM RxStateOrdered == Spec => []StateVariablesOrdered
<1>1. RxInv => StateVariablesOrdered
  BY Zenon DEF RxInv, Ordered, StateVariablesOrdered, base
<1> QED
  BY <1>1, RxInvHolds, PTL

(* Whenever t-Reassembly runs, on_expired_reassembly_timer passes its check *)
(* of RX_Next_Status_Trigger, and the SDU before the trigger is one of      *)
(* which something was received.                                            *)
THEOREM RxTriggerAnchored == Spec => []TriggerIsAnchored
<1>1. RxInv => TriggerIsAnchored
  BY Zenon DEF RxInv, Anchored, TriggerIsAnchored, base
<1> QED
  BY <1>1, RxInvHolds, PTL

(* No loss goes unnoticed: what is missing at or above RX_Highest_Status    *)
(* and below the highest received byte has t-Reassembly running for it.     *)
THEOREM RxLossWatched == Spec => []MissingIsWatched
<1>1. RxInv => MissingIsWatched
  BY Zenon DEF RxInv, NothingMissing, MissingIsWatched, base
<1> QED
  BY <1>1, RxInvHolds, PTL

(* The report handed to the transmitting side is the one the receive window *)
(* would give at that moment: every handler that changes the window or      *)
(* RX_Highest_Status refreshes it (the scope exit of handle_data_pdu).      *)
THEOREM RxReportCurrent == Spec => []ReportIsCurrent
<1>1. RxInv => ReportIsCurrent
  BY Zenon DEF RxInv
<1> QED
  BY <1>1, RxInvHolds, PTL

=============================================================================
