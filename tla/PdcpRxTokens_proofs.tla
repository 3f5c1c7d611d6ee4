----------------------- MODULE PdcpRxTokens_proofs -----------------------
(***************************************************************************)
(* The routines that wait for the receiving PDCP entities of a UE to be    *)
(* idle, for any number of bearers and of PDUs in processing.              *)
(***************************************************************************)
EXTENDS PdcpRx, FiniteSetTheorems, TLAPS

(* Tokens.  Every PDU between its arrival and the end of its reordering    *)
(* holds one, and a routine that waits has taken the entity's own.         *)

Doings == {"nothing", "rekey", "remove", "done"}

Routines == [doing : Doings, at : 0..NofDrbs, byWorker : BOOLEAN, setter : 0..NofDrbs]

TokenTypes ==
  /\ bearers \subseteq Drbs
  /\ DOMAIN crypto = Drbs /\ DOMAIN verified = Drbs
  /\ tokens \in [Drbs -> Int]
  /\ event \in [Drbs -> BOOLEAN] /\ was_set \in [Drbs -> BOOLEAN] /\ stopped \in [Drbs -> BOOLEAN]
  /\ routine \in Routines

(* The three steps of a PDU keep it one PDU.                               *)
OncePerPdu ==
  \A d \in Drbs :
    /\ IsFiniteSet(crypto[d]) /\ IsFiniteSet(verified[d])
    /\ \A p, q \in crypto[d] : p.sdu = q.sdu => p = q
    /\ \A p, q \in verified[d] : p.sdu = q.sdu => p = q
    /\ \A p \in crypto[d], q \in verified[d] : p.sdu # q.sdu

(* How many PDUs a bearer has in processing.                               *)
Count(d) == Cardinality(crypto[d]) + Cardinality(verified[d])
Idle(d) == crypto[d] = {} /\ verified[d] = {}

TokensExact ==
  \A d \in bearers : tokens[d] = Count(d) - (IF routine.doing = "nothing" THEN 0 ELSE 1)

(* What the routine has done so far, and what the events say.              *)
RoutineInv ==
  /\ routine.doing = "nothing" => routine.setter = 0 /\ \A d \in bearers : ~event[d]
  /\ routine.doing \in {"remove", "done"} => \A d \in Drbs : stopped[d]
  /\ routine.doing \in {"remove", "done"} => \A d \in bearers : event[d] => Idle(d)
  /\ Waiting => \A d \in bearers : d < routine.at => event[d]
  /\ routine.doing = "done" => bearers = {}

(* A bearer that is gone has no PDU in processing and takes none.          *)
GoneIsIdle == \A d \in Drbs \ bearers : stopped[d] /\ Idle(d)

(* was_set stands for a set event, but for the bearer whose set_once       *)
(* outlived the restart it ran.                                            *)
FlagInv ==
  /\ \A d \in bearers : was_set[d] => event[d] \/ d = inlined
  /\ routine.setter \in bearers => event[routine.setter]

TokenInv ==
  OncePerPdu /\ TokensExact /\ RoutineInv /\ GoneIsIdle /\ FlagInv /\ OnlyInlineRestartLosesWakeup

LEMMA TokenTypesStep == TokenTypes /\ [Next]_vars => TokenTypes'
<1> SUFFICES ASSUME TokenTypes, [Next]_vars PROVE TokenTypes'
  OBVIOUS
<1>t. /\ bearers \subseteq Drbs /\ DOMAIN crypto = Drbs /\ DOMAIN verified = Drbs
      /\ tokens \in [Drbs -> Int] /\ event \in [Drbs -> BOOLEAN] /\ routine \in Routines
      /\ was_set \in [Drbs -> BOOLEAN] /\ stopped \in [Drbs -> BOOLEAN]
  BY Zenon DEF TokenTypes
<1> DEFINE Typed == tokens' \in [Drbs -> Int] /\ event' \in [Drbs -> BOOLEAN] /\ was_set' \in [Drbs -> BOOLEAN]
<1>1. ASSUME NEW ds, return_tokens(ds) PROVE Typed
  <2>1. tokens' \in [Drbs -> Int]
    BY <1>t, <1>1 DEF return_tokens
  <2>2. event' \in [Drbs -> BOOLEAN]
    BY <1>t, <1>1 DEF return_tokens
  <2>3. was_set' \in [Drbs -> BOOLEAN]
    BY <1>t, <1>1 DEF return_tokens
  <2> QED
    BY <2>1, <2>2, <2>3, Zenon
<1>2. ASSUME NEW what \in Doings, NEW at \in 0..NofDrbs, Start(what, at), stopped' \in [Drbs -> BOOLEAN] PROVE TokenTypes'
  <2>1. routine' = [routine EXCEPT !.doing = what, !.at = at] /\ UNCHANGED <<bearers, crypto, verified>>
    BY <1>2 DEF Start
  <2>2. routine' \in Routines
    BY <1>t, <2>1, Zenon DEF Routines
  <2>3. Typed
    BY <1>1, <1>2, Zenon DEF Start
  <2> QED
    BY <1>t, <1>2, <2>1, <2>2, <2>3, Zenon DEF TokenTypes
<1>3. ASSUME NEW d \in Drbs, PeerSends(d) \/ PeerRekeys(d) \/ reordering_callback(d) PROVE TokenTypes'
  BY <1>t, <1>3, Zenon DEF PeerSends, PeerRekeys, reordering_callback, processing, TokenTypes
<1>4. ASSUME NEW d \in Drbs, NEW pdu, handle_data_pdu(d, pdu) PROVE TokenTypes'
  <2>1. tokens' \in [Drbs -> Int]
    BY <1>t, <1>4 DEF handle_data_pdu
  <2>2. DOMAIN crypto' = Drbs /\ UNCHANGED <<bearers, verified, event, was_set, stopped, routine>>
    BY <1>t, <1>4, Zenon DEF handle_data_pdu
  <2> QED
    BY <1>t, <2>1, <2>2, Zenon DEF TokenTypes
<1>5. ASSUME NEW d \in Drbs, NEW pdu, apply_security(d, pdu) PROVE TokenTypes'
  BY <1>t, <1>5, Zenon DEF apply_security, TokenTypes
<1>r. ASSUME NEW d \in Drbs, NEW w \in BOOLEAN, return_token(d, w) PROVE routine' \in Routines
  <2>1. d \in 0..NofDrbs
    BY PdcpRxAssumption DEF Drbs
  <2>2. [routine EXCEPT !.setter = d, !.byWorker = w] \in Routines
    BY <1>t, <2>1, Zenon DEF Routines
  <2> QED
    BY <1>t, <1>r, <2>2, Zenon DEF return_token
<1>6. ASSUME NEW d \in Drbs, NEW pdu, DropVerified(d, pdu) PROVE TokenTypes'
  <2>1. Typed /\ routine' \in Routines
    BY <1>1, <1>r, <1>6, Zenon DEF DropVerified, return_token
  <2> QED
    BY <1>t, <1>6, <2>1, Zenon DEF DropVerified, TokenTypes
<1>7. ASSUME NEW d \in Drbs, NEW pdu, apply_reordering(d, pdu) PROVE TokenTypes'
  <2>1. Typed /\ routine' \in Routines
    BY <1>1, <1>r, <1>7, Zenon DEF apply_reordering, return_token
  <2> QED
    BY <1>t, <1>7, <2>1, Zenon DEF apply_reordering, TokenTypes
<1>8. CASE notify_pdu_processing_stopped \/ stop
  <2>1. "rekey" \in Doings /\ "remove" \in Doings /\ 0 \in 0..NofDrbs /\ 1 \in 0..NofDrbs
    BY PdcpRxAssumption DEF Doings
  <2>2. stopped' \in [Drbs -> BOOLEAN]
    BY <1>t, <1>8, Zenon DEF notify_pdu_processing_stopped, stop
  <2> QED
    BY <1>2, <1>8, <2>1, <2>2, Zenon DEF notify_pdu_processing_stopped, stop
<1>9. CASE AwaitNext
  <2> DEFINE n == routine.at + 1
  <2>1. /\ \/ routine' = [routine EXCEPT !.at = n]
           \/ routine' = [routine EXCEPT !.at = n, !.byWorker = FALSE, !.setter = 0]
        /\ UNCHANGED <<bearers, stopped, crypto, verified, tokens, event>> /\ routine.at < NofDrbs
    BY <1>9, Zenon DEF AwaitNext
  <2>2. n \in 0..NofDrbs /\ 0 \in 0..NofDrbs
    BY <1>t, <2>1, PdcpRxAssumption DEF Routines
  <2> HIDE DEF n
  <2>3. routine' \in Routines
    BY <1>t, <2>1, <2>2, Zenon DEF Routines
  <2>4. was_set' \in [Drbs -> BOOLEAN]
    BY <1>t, <1>9 DEF AwaitNext
  <2> QED
    BY <1>t, <2>1, <2>3, <2>4, Zenon DEF TokenTypes
<1>10. CASE restart_pdu_processing
  <2>1. routine' \in Routines
    BY <1>10, PdcpRxAssumption DEF restart_pdu_processing, NoRoutine, Routines, Doings
  <2>2. tokens' \in [Drbs -> Int]
    BY <1>t, <1>10 DEF restart_pdu_processing
  <2>3. event' \in [Drbs -> BOOLEAN] /\ was_set' \in [Drbs -> BOOLEAN]
    BY <1>10, Zenon DEF restart_pdu_processing
  <2> QED
    BY <1>t, <1>10, <2>1, <2>2, <2>3, Zenon DEF restart_pdu_processing, TokenTypes
<1>11. CASE Destroy
  <2>1. routine' \in Routines
    BY <1>t, <1>11, Zenon DEF Destroy, Routines, Doings
  <2> QED
    BY <1>t, <1>11, <2>1, Zenon DEF Destroy, processing, TokenTypes
<1>12. ASSUME NEW d \in Drbs, remove_drb(d) PROVE TokenTypes'
  <2>1. Typed
    BY <1>1, <1>12, Zenon DEF remove_drb
  <2> QED
    BY <1>t, <1>12, <2>1, Zenon DEF remove_drb, TokenTypes
<1>13. CASE UNCHANGED vars
  BY <1>t, <1>13, Zenon DEF vars, processing, TokenTypes
<1> QED
  BY <1>3, <1>4, <1>5, <1>6, <1>7, <1>8, <1>9, <1>10, <1>11, <1>12, <1>13, Zenon DEF Next

LEMMA TokenInit == Init => TokenInv
<1> SUFFICES ASSUME Init PROVE TokenInv
  OBVIOUS
<1>1. OncePerPdu
  BY FS_EmptySet DEF Init, OncePerPdu
<1>2. TokensExact
  <2>1. \A d \in Drbs : tokens[d] = 0 /\ Cardinality(crypto[d]) = 0 /\ Cardinality(verified[d]) = 0
    BY FS_EmptySet, Zenon DEF Init
  <2>2. routine.doing = "nothing" /\ bearers = Drbs
    BY DEF Init, NoRoutine
  <2> QED
    BY <2>1, <2>2 DEF TokensExact, Count
<1>3. RoutineInv
  BY DEF Init, RoutineInv, Waiting, NoRoutine
<1>4. GoneIsIdle
  BY DEF Init, GoneIsIdle
<1>5. FlagInv
  <2>1. routine.setter = 0 /\ 0 \notin bearers
    BY DEF Init, NoRoutine, Drbs
  <2> QED
    BY <2>1 DEF Init, FlagInv
<1>6. OnlyInlineRestartLosesWakeup
  BY DEF Init, NoRoutine, OnlyInlineRestartLosesWakeup, WaitsInVain
<1> QED
  BY <1>1, <1>2, <1>3, <1>4, <1>5, <1>6 DEF TokenInv

(* Steps that leave the path of the PDUs and the routine alone.            *)
LEMMA TokenFrame ==
  ASSUME TokenInv,
         UNCHANGED <<crypto, verified, tokens, event, was_set, routine, stopped, bearers, inlined>>
  PROVE  TokenInv'
<1>1. OncePerPdu' /\ TokensExact'
  BY Zenon DEF TokenInv, OncePerPdu, TokensExact, Count
<1>2. RoutineInv' /\ GoneIsIdle' /\ FlagInv'
  BY Zenon DEF TokenInv, RoutineInv, Waiting, Idle, GoneIsIdle, FlagInv
<1>3. OnlyInlineRestartLosesWakeup'
  BY Zenon DEF TokenInv, OnlyInlineRestartLosesWakeup, WaitsInVain, InProcessing
<1> QED
  BY <1>1, <1>2, <1>3, Zenon DEF TokenInv

LEMMA CountType ==
  ASSUME OncePerPdu, NEW d \in Drbs
  PROVE  /\ Cardinality(crypto[d]) \in Nat /\ Cardinality(verified[d]) \in Nat
         /\ Count(d) \in Nat /\ (Count(d) = 0 <=> Idle(d))
<1>1. IsFiniteSet(crypto[d]) /\ IsFiniteSet(verified[d])
  BY DEF OncePerPdu
<1>2. Cardinality(crypto[d]) \in Nat /\ Cardinality(verified[d]) \in Nat
  BY <1>1, FS_CardinalityType
<1>3. /\ Cardinality(crypto[d]) = 0 <=> crypto[d] = {}
      /\ Cardinality(verified[d]) = 0 <=> verified[d] = {}
  BY <1>1, FS_EmptySet
<1>4. \A a, b \in Nat : a + b \in Nat /\ (a + b = 0 <=> a = 0 /\ b = 0)
  OBVIOUS
<1> QED
  BY <1>2, <1>3, <1>4, Zenon DEF Count, Idle

LEMMA AddOne ==
  ASSUME NEW S, NEW x, IsFiniteSet(S), x \notin S
  PROVE  IsFiniteSet(S \cup {x}) /\ Cardinality(S \cup {x}) = Cardinality(S) + 1
  BY FS_AddElement

LEMMA RemoveOne ==
  ASSUME NEW S, NEW x \in S, IsFiniteSet(S)
  PROVE  IsFiniteSet(S \ {x}) /\ Cardinality(S \ {x}) = Cardinality(S) - 1
  BY FS_RemoveElement

LEMMA TokenArrival ==
  ASSUME TokenTypes, TokenInv, NEW d \in Drbs, NEW pdu \in Arriving(d), handle_data_pdu(d, pdu)
  PROVE  TokenInv'
<1> DEFINE new == [count |-> InferCount(SN(pdu.count), rx[d].rx_deliv), sdu |-> pdu]
           gone == IF routine.doing = "nothing" THEN 0 ELSE 1
<1>1. /\ crypto' = [crypto EXCEPT ![d] = @ \cup {new}]
      /\ tokens' = [tokens EXCEPT ![d] = @ + 1]
      /\ UNCHANGED <<verified, event, was_set, routine, stopped, bearers, inlined>> /\ ~stopped[d]
  BY Zenon DEF handle_data_pdu, ghosts
<1>2. new.sdu = pdu
  OBVIOUS
<1> HIDE DEF new
<1>3. \A p \in crypto[d] \cup verified[d] : p.sdu # new.sdu
  BY <1>2 DEF Arriving
<1>4. /\ crypto'[d] = crypto[d] \cup {new} /\ tokens'[d] = tokens[d] + 1 /\ tokens[d] \in Int
      /\ \A x \in Drbs \ {d} : crypto'[x] = crypto[x] /\ tokens'[x] = tokens[x]
  BY <1>1 DEF TokenTypes
<1>5. /\ IsFiniteSet(crypto[d]) /\ new \notin crypto[d]
      /\ IsFiniteSet(crypto'[d]) /\ Cardinality(crypto'[d]) = Cardinality(crypto[d]) + 1
  <2>1. IsFiniteSet(crypto[d]) /\ new \notin crypto[d]
    BY <1>3 DEF TokenInv, OncePerPdu
  <2>2. IsFiniteSet(crypto[d] \cup {new}) /\ Cardinality(crypto[d] \cup {new}) = Cardinality(crypto[d]) + 1
    BY <2>1, AddOne
  <2> QED
    BY <1>4, <2>1, <2>2, Zenon
<1>6. OncePerPdu'
  <2> SUFFICES ASSUME NEW x \in Drbs
               PROVE  /\ IsFiniteSet(crypto'[x]) /\ IsFiniteSet(verified[x])
                      /\ \A p, q \in crypto'[x] : p.sdu = q.sdu => p = q
                      /\ \A p, q \in verified[x] : p.sdu = q.sdu => p = q
                      /\ \A p \in crypto'[x], q \in verified[x] : p.sdu # q.sdu
    BY <1>1, Zenon DEF OncePerPdu
  <2>1. CASE x = d
    BY <1>3, <1>4, <1>5, <2>1, Zenon DEF TokenInv, OncePerPdu
  <2>2. CASE x # d
    BY <1>4, <2>2 DEF TokenInv, OncePerPdu
  <2> QED
    BY <2>1, <2>2
<1>7. TokensExact'
  <2>1. /\ Count(d)' = Count(d) + 1 /\ Count(d) \in Nat
        /\ \A x \in Drbs \ {d} : Count(x)' = Count(x)
    <3> DEFINE a == Cardinality(crypto[d])
               b == Cardinality(verified[d])
    <3>1. a \in Nat /\ b \in Nat /\ Count(d) = a + b /\ Count(d)' = (a + 1) + b
      BY <1>1, <1>5, CountType DEF TokenInv, Count
    <3> HIDE DEF a, b
    <3>2. Count(d)' = Count(d) + 1 /\ Count(d) \in Nat
      BY <3>1
    <3> QED
      BY <1>1, <1>4, <3>2, Zenon DEF Count
  <2> HIDE DEF gone
  <2>2. \A x \in bearers : tokens[x] = Count(x) - gone /\ tokens[x] \in Int /\ x \in Drbs
    BY DEF TokenInv, TokensExact, TokenTypes, gone
  <2>3. gone \in Int
    BY DEF gone
  <2>4. \A x \in bearers : tokens'[x] = Count(x)' - gone
    BY <1>4, <2>1, <2>2, <2>3
  <2> QED
    BY <1>1, <2>4 DEF TokensExact, gone
<1>8. RoutineInv'
  <2>1. routine.doing \notin {"remove", "done"}
    BY <1>1, Zenon DEF TokenInv, RoutineInv
  <2> QED
    BY <1>1, <2>1, Zenon DEF TokenInv, RoutineInv, Waiting
<1>9. GoneIsIdle'
  BY <1>1, <1>4, Zenon DEF TokenInv, GoneIsIdle, Idle
<1>10. FlagInv'
  BY <1>1, Zenon DEF TokenInv, FlagInv
<1>11. OnlyInlineRestartLosesWakeup'
  <2>1. \A x \in Drbs : Idle(x)' => Idle(x)
    BY <1>1, <1>4 DEF Idle
  <2> QED
    BY <1>1, <2>1, Zenon DEF TokenInv, OnlyInlineRestartLosesWakeup, WaitsInVain, InProcessing, Idle
<1> QED
  BY <1>6, <1>7, <1>8, <1>9, <1>10, <1>11, Zenon DEF TokenInv

LEMMA TokenSecurity ==
  ASSUME TokenTypes, TokenInv, NEW d \in Drbs, NEW pdu \in crypto[d], apply_security(d, pdu)
  PROVE  TokenInv'
<1> DEFINE v == [count |-> pdu.count, sdu |-> pdu.sdu,
                 ok |-> pdu.sdu.key = engine[d] /\ pdu.sdu.count = pdu.count]
<1>1. /\ crypto' = [crypto EXCEPT ![d] = @ \ {pdu}]
      /\ verified' = [verified EXCEPT ![d] = @ \cup {v}]
      /\ UNCHANGED <<tokens, event, was_set, routine, stopped, bearers, inlined>>
  BY Zenon DEF apply_security, ghosts
<1>2. v.sdu = pdu.sdu
  OBVIOUS
<1> HIDE DEF v
<1>3. /\ crypto'[d] = crypto[d] \ {pdu} /\ verified'[d] = verified[d] \cup {v}
      /\ \A x \in Drbs \ {d} : crypto'[x] = crypto[x] /\ verified'[x] = verified[x]
  BY <1>1 DEF TokenTypes
<1>4. /\ IsFiniteSet(crypto[d]) /\ IsFiniteSet(verified[d])
      /\ \A p, q \in crypto[d] : p.sdu = q.sdu => p = q
      /\ \A p, q \in verified[d] : p.sdu = q.sdu => p = q
      /\ \A p \in crypto[d], q \in verified[d] : p.sdu # q.sdu
  BY DEF TokenInv, OncePerPdu
<1>5. v \notin verified[d]
  BY <1>2, <1>4
<1>6. /\ IsFiniteSet(crypto'[d]) /\ Cardinality(crypto'[d]) = Cardinality(crypto[d]) - 1
      /\ IsFiniteSet(verified'[d]) /\ Cardinality(verified'[d]) = Cardinality(verified[d]) + 1
  <2>1. /\ IsFiniteSet(crypto[d] \ {pdu}) /\ Cardinality(crypto[d] \ {pdu}) = Cardinality(crypto[d]) - 1
    BY <1>4, RemoveOne, Zenon
  <2>2. /\ IsFiniteSet(verified[d] \cup {v})
        /\ Cardinality(verified[d] \cup {v}) = Cardinality(verified[d]) + 1
    BY <1>4, <1>5, AddOne, Zenon
  <2> QED
    BY <1>3, <2>1, <2>2, Zenon
<1>7. OncePerPdu'
  <2> SUFFICES ASSUME NEW x \in Drbs
               PROVE  /\ IsFiniteSet(crypto'[x]) /\ IsFiniteSet(verified'[x])
                      /\ \A p, q \in crypto'[x] : p.sdu = q.sdu => p = q
                      /\ \A p, q \in verified'[x] : p.sdu = q.sdu => p = q
                      /\ \A p \in crypto'[x], q \in verified'[x] : p.sdu # q.sdu
    BY DEF OncePerPdu
  <2>1. CASE x = d
    <3>1. /\ \A p, q \in crypto[d] \ {pdu} : p.sdu = q.sdu => p = q
          /\ \A p, q \in verified[d] \cup {v} : p.sdu = q.sdu => p = q
          /\ \A p \in crypto[d] \ {pdu}, q \in verified[d] \cup {v} : p.sdu # q.sdu
      BY <1>2, <1>4
    <3> QED
      BY <1>3, <1>6, <2>1, <3>1, Zenon
  <2>2. CASE x # d
    BY <1>3, <2>2 DEF TokenInv, OncePerPdu
  <2> QED
    BY <2>1, <2>2
<1>8. TokensExact'
  <2>1. \A x \in Drbs : Count(x)' = Count(x)
    <3> DEFINE a == Cardinality(crypto[d])
               b == Cardinality(verified[d])
    <3>1. a \in Nat /\ b \in Nat /\ Count(d) = a + b /\ Count(d)' = (a - 1) + (b + 1)
      BY <1>6, CountType DEF TokenInv, Count
    <3> HIDE DEF a, b
    <3>2. Count(d)' = Count(d)
      BY <3>1
    <3> QED
      BY <1>3, <3>2, Zenon DEF Count
  <2> QED
    BY <1>1, <2>1, Zenon DEF TokenInv, TokensExact, TokenTypes
<1>9. RoutineInv'
  <2>1. ASSUME NEW x \in bearers, routine.doing \in {"remove", "done"}, event[x] PROVE Idle(x)'
    <3>1. Idle(x) /\ x \in Drbs
      BY <2>1, Zenon DEF TokenInv, RoutineInv, TokenTypes
    <3>2. x # d
      BY <3>1 DEF Idle
    <3> QED
      BY <1>3, <3>1, <3>2, Zenon DEF Idle
  <2> QED
    BY <1>1, <2>1, Zenon DEF TokenInv, RoutineInv, Waiting
<1>10. GoneIsIdle'
  BY <1>1, <1>3, Zenon DEF TokenInv, GoneIsIdle, Idle
<1>11. FlagInv'
  BY <1>1, Zenon DEF TokenInv, FlagInv
<1>12. OnlyInlineRestartLosesWakeup'
  <2>1. \A x \in Drbs : Idle(x)' => Idle(x)
    BY <1>3 DEF Idle
  <2> QED
    BY <1>1, <2>1, Zenon DEF TokenInv, OnlyInlineRestartLosesWakeup, WaitsInVain, InProcessing, Idle
<1> QED
  BY <1>7, <1>8, <1>9, <1>10, <1>11, <1>12, Zenon DEF TokenInv

LEMMA SumOfTwo ==
  ASSUME NEW C, NEW V, IsFiniteSet(C), IsFiniteSet(V)
  PROVE  /\ Cardinality(C) \in Nat /\ Cardinality(V) \in Nat
         /\ Cardinality(C) + Cardinality(V) \in Nat
         /\ Cardinality(C) + Cardinality(V) = 0 <=> C = {} /\ V = {}
<1>1. Cardinality(C) \in Nat /\ Cardinality(V) \in Nat
  BY FS_CardinalityType
<1>2. (Cardinality(C) = 0 <=> C = {}) /\ (Cardinality(V) = 0 <=> V = {})
  BY FS_EmptySet
<1>3. \A a, b \in Nat : a + b \in Nat /\ (a + b = 0 <=> a = 0 /\ b = 0)
  OBVIOUS
<1> QED
  BY <1>1, <1>2, <1>3, Zenon

(* A PDU ends and returns its token, from the pool or from the executor.   *)
PduEnds(d, pdu) ==
  /\ \/ /\ pdu \in crypto[d]
        /\ crypto' = [crypto EXCEPT ![d] = @ \ {pdu}] /\ verified' = verified
     \/ /\ pdu \in verified[d]
        /\ verified' = [verified EXCEPT ![d] = @ \ {pdu}] /\ crypto' = crypto
  /\ \E onWorker \in BOOLEAN : return_token(d, onWorker)

LEMMA EndCounts ==
  ASSUME TokenTypes, OncePerPdu, NEW d \in Drbs, NEW pdu, PduEnds(d, pdu)
  PROVE  /\ OncePerPdu' /\ ~Idle(d)
         /\ Count(d) \in Nat /\ Count(d)' = Count(d) - 1 /\ (Count(d)' = 0 <=> Idle(d)')
         /\ \A x \in Drbs \ {d} : crypto'[x] = crypto[x] /\ verified'[x] = verified[x]
<1>1. DOMAIN crypto = Drbs /\ DOMAIN verified = Drbs
  BY DEF TokenTypes
<1>2. \/ /\ pdu \in crypto[d] /\ crypto'[d] = crypto[d] \ {pdu} /\ verified'[d] = verified[d]
      \/ /\ pdu \in verified[d] /\ verified'[d] = verified[d] \ {pdu} /\ crypto'[d] = crypto[d]
  BY <1>1 DEF PduEnds
<1>3. \A x \in Drbs \ {d} : crypto'[x] = crypto[x] /\ verified'[x] = verified[x]
  BY <1>1 DEF PduEnds
<1>4. ~Idle(d) /\ IsFiniteSet(crypto[d]) /\ IsFiniteSet(verified[d])
  BY <1>2 DEF Idle, OncePerPdu
<1>5. /\ IsFiniteSet(crypto'[d]) /\ IsFiniteSet(verified'[d])
      /\ \/ /\ Cardinality(crypto'[d]) = Cardinality(crypto[d]) - 1
            /\ Cardinality(verified'[d]) = Cardinality(verified[d])
         \/ /\ Cardinality(verified'[d]) = Cardinality(verified[d]) - 1
            /\ Cardinality(crypto'[d]) = Cardinality(crypto[d])
  <2>1. CASE pdu \in crypto[d] /\ crypto'[d] = crypto[d] \ {pdu} /\ verified'[d] = verified[d]
    <3>1. IsFiniteSet(crypto[d] \ {pdu}) /\ Cardinality(crypto[d] \ {pdu}) = Cardinality(crypto[d]) - 1
      BY <1>4, <2>1, RemoveOne, Zenon
    <3> QED
      BY <1>4, <2>1, <3>1, Zenon
  <2>2. CASE pdu \in verified[d] /\ verified'[d] = verified[d] \ {pdu} /\ crypto'[d] = crypto[d]
    <3>1. /\ IsFiniteSet(verified[d] \ {pdu})
          /\ Cardinality(verified[d] \ {pdu}) = Cardinality(verified[d]) - 1
      BY <1>4, <2>2, RemoveOne, Zenon
    <3> QED
      BY <1>4, <2>2, <3>1, Zenon
  <2> QED
    BY <1>2, <2>1, <2>2
<1>6. Count(d) \in Nat /\ Count(d)' = Count(d) - 1
  <2> DEFINE a == Cardinality(crypto[d])
             b == Cardinality(verified[d])
             c == Cardinality(crypto'[d])
             e == Cardinality(verified'[d])
  <2>1. a \in Nat /\ b \in Nat
    BY <1>4, SumOfTwo
  <2>2. (c = a - 1 /\ e = b) \/ (e = b - 1 /\ c = a)
    BY <1>5
  <2>3. Count(d) = a + b /\ Count(d)' = c + e
    BY DEF Count
  <2> HIDE DEF a, b, c, e
  <2> QED
    BY <2>1, <2>2, <2>3
<1>7. Count(d)' = 0 <=> Idle(d)'
  BY <1>5, SumOfTwo, Zenon DEF Count, Idle
<1>8. OncePerPdu'
  <2> SUFFICES ASSUME NEW x \in Drbs
               PROVE  /\ IsFiniteSet(crypto'[x]) /\ IsFiniteSet(verified'[x])
                      /\ \A p, q \in crypto'[x] : p.sdu = q.sdu => p = q
                      /\ \A p, q \in verified'[x] : p.sdu = q.sdu => p = q
                      /\ \A p \in crypto'[x], q \in verified'[x] : p.sdu # q.sdu
    BY DEF OncePerPdu
  <2>1. crypto'[x] \subseteq crypto[x] /\ verified'[x] \subseteq verified[x]
    BY <1>2, <1>3
  <2>2. IsFiniteSet(crypto'[x]) /\ IsFiniteSet(verified'[x])
    BY <1>3, <1>5 DEF OncePerPdu
  <2> QED
    BY <2>1, <2>2 DEF OncePerPdu
<1> QED
  BY <1>3, <1>4, <1>6, <1>7, <1>8

LEMMA TokenEnd ==
  ASSUME TokenTypes, TokenInv, NEW d \in Drbs, NEW pdu, PduEnds(d, pdu),
         UNCHANGED <<stopped, bearers, inlined>>
  PROVE  TokenInv'
<1> DEFINE gone == IF routine.doing = "nothing" THEN 0 ELSE 1
<1>1. /\ OncePerPdu' /\ ~Idle(d)
      /\ Count(d) \in Nat /\ Count(d)' = Count(d) - 1 /\ (Count(d)' = 0 <=> Idle(d)')
      /\ \A x \in Drbs \ {d} : crypto'[x] = crypto[x] /\ verified'[x] = verified[x]
  BY EndCounts, Zenon DEF TokenInv
<1>b. d \in bearers /\ bearers \subseteq Drbs
  BY <1>1, Zenon DEF TokenInv, GoneIsIdle, TokenTypes
<1>2. /\ tokens'[d] = tokens[d] - 1
      /\ event'[d] = (event[d] \/ set_once(d))
      /\ was_set'[d] => was_set[d] \/ set_once(d)
      /\ \A x \in Drbs \ {d} : tokens'[x] = tokens[x] /\ event'[x] = event[x] /\ was_set'[x] = was_set[x]
  <2>1. return_tokens({d})
    BY Zenon DEF PduEnds, return_token
  <2>2. /\ tokens'[d] = tokens[d] - 1
        /\ \A x \in Drbs \ {d} : tokens'[x] = tokens[x] - 0
    BY <2>1, Zenon DEF return_tokens
  <2>3. /\ event'[d] = (event[d] \/ set_once(d))
        /\ \A x \in Drbs \ {d} : event'[x] = event[x]
    BY <2>1 DEF return_tokens, TokenTypes
  <2>4. /\ was_set'[d] => was_set[d] \/ set_once(d)
        /\ \A x \in Drbs \ {d} : was_set'[x] = was_set[x]
    BY <2>1 DEF return_tokens, TokenTypes
  <2>5. \A x \in Drbs : tokens[x] - 0 = tokens[x]
    BY DEF TokenTypes
  <2> QED
    BY <2>2, <2>3, <2>4, <2>5, Zenon
<1>3. /\ routine'.doing = routine.doing /\ routine'.at = routine.at
      /\ routine'.setter = routine.setter \/ (routine'.setter = d /\ set_once(d))
  BY Zenon DEF PduEnds, return_token, TokenTypes, Routines
<1>4. \A x \in bearers : tokens[x] = Count(x) - gone
  BY Zenon DEF TokenInv, TokensExact
<1>5. Count(d) # 0
  <2>1. Count(d) = 0 <=> Idle(d)
    BY CountType, Zenon DEF TokenInv
  <2> QED
    BY <1>1, <2>1, Zenon
<1>6. \A x \in Drbs \ {d} : Count(x)' = Count(x) /\ (Idle(x)' <=> Idle(x))
  BY <1>1, Zenon DEF Count, Idle
<1>7. TokensExact'
  <2>1. tokens'[d] = Count(d)' - gone
    BY <1>1, <1>b, <1>2, <1>4
  <2>2. \A x \in bearers \ {d} : tokens'[x] = Count(x)' - gone
    BY <1>b, <1>2, <1>4, <1>6, Zenon
  <2>3. \A x \in bearers : tokens'[x] = Count(x)' - gone
    BY <2>1, <2>2, Zenon
  <2> QED
    BY <1>3, <2>3, Zenon DEF TokensExact
<1>8. routine.doing = "nothing" => tokens[d] # 0
  BY <1>1, <1>b, <1>4, <1>5
<1>9. routine.doing # "nothing" => (tokens[d] = 0 <=> Idle(d)')
  BY <1>1, <1>b, <1>4
<1>e. \A x \in Drbs : event[x] => event'[x]
  BY <1>2, Zenon
<1>r. RoutineInv /\ FlagInv /\ GoneIsIdle /\ OnlyInlineRestartLosesWakeup
  BY Zenon DEF TokenInv
<1>10. RoutineInv'
  <2>1. routine.doing = "nothing" => routine'.setter = 0 /\ \A x \in bearers : ~event'[x]
    BY <1>b, <1>2, <1>3, <1>8, <1>r, Zenon DEF RoutineInv, set_once
  <2>2. routine.doing \in {"remove", "done"} => \A x \in bearers : event'[x] => Idle(x)'
    <3> SUFFICES ASSUME routine.doing \in {"remove", "done"}, NEW x \in bearers, event'[x] PROVE Idle(x)'
      OBVIOUS
    <3>1. routine.doing # "nothing"
      OBVIOUS
    <3>2. CASE x = d
      BY <1>1, <1>2, <1>9, <1>r, <3>1, <3>2, Zenon DEF RoutineInv, set_once
    <3>3. CASE x # d
      BY <1>b, <1>2, <1>6, <1>r, <3>3, Zenon DEF RoutineInv
    <3> QED
      BY <3>2, <3>3, Zenon
  <2> QED
    BY <1>b, <1>3, <1>e, <1>r, <2>1, <2>2, Zenon DEF RoutineInv, Waiting
<1>11. GoneIsIdle'
  BY <1>b, <1>6, <1>r, Zenon DEF GoneIsIdle
<1>12. FlagInv'
  <2>1. \A x \in bearers : was_set'[x] => event'[x] \/ x = inlined
    BY <1>b, <1>2, <1>r, Zenon DEF FlagInv
  <2>2. routine'.setter \in bearers => event'[routine'.setter]
    BY <1>b, <1>2, <1>3, <1>e, <1>r, Zenon DEF FlagInv
  <2> QED
    BY <2>1, <2>2, Zenon DEF FlagInv
<1>13. OnlyInlineRestartLosesWakeup'
  <2> SUFFICES ASSUME NEW x \in Drbs, WaitsInVain(x)' PROVE x = inlined
    BY Zenon DEF OnlyInlineRestartLosesWakeup
  <2>1. x \in bearers /\ routine.doing # "nothing" /\ Idle(x)' /\ ~event'[x]
    BY <1>3 DEF WaitsInVain, InProcessing, Idle
  <2>2. CASE x = d
    BY <1>2, <1>9, <1>r, <2>1, <2>2, Zenon DEF set_once, FlagInv
  <2>3. CASE x # d
    <3>1. Idle(x) /\ ~event[x]
      BY <1>2, <1>6, <2>1, <2>3, Zenon
    <3>2. WaitsInVain(x)
      BY <2>1, <3>1 DEF WaitsInVain, InProcessing, Idle
    <3> QED
      BY <1>r, <3>2, Zenon DEF OnlyInlineRestartLosesWakeup
  <2> QED
    BY <2>2, <2>3, Zenon
<1> QED
  BY <1>1, <1>7, <1>10, <1>11, <1>12, <1>13, Zenon DEF TokenInv

LEMMA TokenStart ==
  ASSUME TokenTypes, TokenInv, NEW what \in {"rekey", "remove"}, NEW at \in {0, 1}, Start(what, at),
         what = "remove" => \A d \in Drbs : stopped'[d],
         \A d \in Drbs : stopped[d] => stopped'[d]
  PROVE  TokenInv'
<1>1. /\ routine.doing = "nothing" /\ UNCHANGED <<crypto, verified, bearers, inlined>>
      /\ return_tokens(bearers) /\ bearers \subseteq Drbs
  BY Zenon DEF Start, ghosts, TokenTypes
<1>2. routine'.doing = what /\ routine'.at = at /\ routine'.setter = routine.setter
  BY Zenon DEF Start, TokenTypes, Routines
<1>3. \A x \in bearers : /\ tokens'[x] = tokens[x] - 1
                         /\ event'[x] = (event[x] \/ set_once(x))
                         /\ was_set'[x] => was_set[x] \/ set_once(x)
  <2>1. \A x \in bearers : tokens'[x] = tokens[x] - 1
    BY <1>1, Zenon DEF return_tokens
  <2>2. \A x \in bearers : event'[x] = (event[x] \/ set_once(x))
    BY <1>1 DEF return_tokens, TokenTypes
  <2>3. \A x \in bearers : was_set'[x] => was_set[x] \/ set_once(x)
    BY <1>1 DEF return_tokens
  <2> QED
    BY <2>1, <2>2, <2>3, Zenon
<1>4. \A x \in bearers : tokens[x] = Count(x) /\ Count(x) \in Nat /\ (Count(x) = 0 <=> Idle(x)) /\ ~event[x]
  <2> TAKE x \in bearers
  <2>1. Count(x) \in Nat /\ (Count(x) = 0 <=> Idle(x)) /\ ~event[x]
    BY <1>1, CountType, Zenon DEF TokenInv, RoutineInv
  <2>2. tokens[x] = Count(x) - 0
    BY <1>1, Zenon DEF TokenInv, TokensExact
  <2> QED
    BY <2>1, <2>2
<1>5. \A x \in bearers : event'[x] <=> Idle(x) /\ ~was_set[x]
  BY <1>3, <1>4, Zenon DEF set_once
<1>6. OncePerPdu'
  BY <1>1, Zenon DEF TokenInv, OncePerPdu
<1>7. TokensExact'
  <2>1. \A x \in bearers : tokens'[x] = Count(x) - 1 /\ Count(x)' = Count(x)
    BY <1>1, <1>3, <1>4, Zenon DEF Count
  <2> QED
    BY <1>1, <1>2, <2>1 DEF TokensExact
<1>i. \A x \in Drbs : Idle(x)' <=> Idle(x)
  BY <1>1, Zenon DEF Idle
<1>8. RoutineInv'
  <2>1. \A x \in Drbs : ~(x < at)
    BY DEF Drbs
  <2> QED
    BY <1>1, <1>2, <1>5, <1>i, <2>1 DEF RoutineInv, Waiting
<1>9. GoneIsIdle'
  BY <1>1, <1>i, Zenon DEF TokenInv, GoneIsIdle
<1>10. FlagInv'
  <2>1. routine.setter \notin bearers
    BY <1>1 DEF TokenInv, RoutineInv, Drbs
  <2> QED
    BY <1>1, <1>2, <1>3, <1>4, <2>1, Zenon DEF TokenInv, FlagInv
<1>11. OnlyInlineRestartLosesWakeup'
  <2> SUFFICES ASSUME NEW x \in Drbs, WaitsInVain(x)' PROVE x = inlined
    BY <1>1, Zenon DEF OnlyInlineRestartLosesWakeup
  <2>1. x \in bearers /\ Idle(x) /\ ~event'[x]
    BY <1>1 DEF WaitsInVain, InProcessing, Idle
  <2> QED
    BY <1>4, <1>5, <2>1, Zenon DEF TokenInv, FlagInv
<1> QED
  BY <1>6, <1>7, <1>8, <1>9, <1>10, <1>11, Zenon DEF TokenInv

LEMMA TokenAwaitNext ==
  ASSUME TokenTypes, TokenInv, AwaitNext
  PROVE  TokenInv'
<1>1. /\ UNCHANGED <<crypto, verified, tokens, event, stopped, bearers, inlined>>
      /\ Waiting /\ (routine.at = 0 \/ Ready(routine.at)) /\ bearers \subseteq Drbs
  BY Zenon DEF AwaitNext, GoesOn, ghosts, TokenTypes
<1>2. /\ routine'.doing = routine.doing /\ routine'.at = routine.at + 1 /\ routine.at \in 0..NofDrbs
      /\ routine'.setter \in {0, routine.setter}
  <2> DEFINE n == routine.at + 1
  <2>1. routine' \in {[routine EXCEPT !.at = n],
                     [routine EXCEPT !.at = n, !.byWorker = FALSE, !.setter = 0]}
    BY Zenon DEF AwaitNext
  <2> HIDE DEF n
  <2>2. routine'.doing = routine.doing /\ routine'.at = n /\ routine'.setter \in {0, routine.setter}
    BY <2>1, Zenon DEF TokenTypes, Routines
  <2> QED
    BY <2>2, Zenon DEF n, TokenTypes, Routines
<1>3. \A d \in Drbs : was_set'[d] => was_set[d] \/ d = routine.setter
  BY Zenon DEF AwaitNext
<1>4. OncePerPdu' /\ TokensExact' /\ GoneIsIdle'
  BY <1>1, <1>2, Zenon DEF TokenInv, OncePerPdu, TokensExact, Count, GoneIsIdle, Idle
<1>5. \A d \in bearers : d < routine.at + 1 => event[d]
  <2> TAKE d \in bearers
  <2>1. d < routine.at + 1 => d < routine.at \/ (d = routine.at /\ routine.at # 0)
    BY <1>1, <1>2, PdcpRxAssumption DEF Drbs
  <2> QED
    BY <1>1, <2>1, Zenon DEF TokenInv, RoutineInv, Ready
<1>6. RoutineInv'
  BY <1>1, <1>2, <1>5 DEF TokenInv, RoutineInv, Waiting, Idle
<1>7. FlagInv'
  <2>1. 0 \notin bearers
    BY <1>1 DEF Drbs
  <2> QED
    BY <1>1, <1>2, <1>3, <2>1 DEF TokenInv, FlagInv
<1>8. OnlyInlineRestartLosesWakeup'
  BY <1>1, <1>2, Zenon DEF TokenInv, OnlyInlineRestartLosesWakeup, WaitsInVain, InProcessing
<1> QED
  BY <1>4, <1>6, <1>7, <1>8, Zenon DEF TokenInv

LEMMA TokenRestart ==
  ASSUME TokenTypes, TokenInv, restart_pdu_processing
  PROVE  TokenInv'
<1>1. /\ UNCHANGED <<crypto, verified, stopped, bearers>> /\ routine.doing = "rekey"
      /\ \A d \in Drbs : tokens'[d] = tokens[d] + 1 /\ event'[d] = FALSE /\ (was_set'[d] <=> d = routine.setter)
      /\ inlined' = routine.setter /\ bearers \subseteq Drbs
  BY Zenon DEF restart_pdu_processing, TokenTypes
<1>2. routine'.doing = "nothing" /\ routine'.setter = 0
  BY Zenon DEF restart_pdu_processing, NoRoutine
<1>3. TokensExact'
  <2>1. ASSUME NEW d \in bearers PROVE tokens'[d] = Count(d) - 0
    <3>1. tokens[d] = Count(d) - 1 /\ Count(d) \in Nat
      BY <1>1, CountType DEF TokenInv, TokensExact
    <3>2. tokens'[d] = tokens[d] + 1
      BY <1>1, Zenon
    <3> QED
      BY <3>1, <3>2
  <2>2. \A d \in bearers : Count(d)' = Count(d)
    BY <1>1, Zenon DEF Count
  <2>3. \A d \in bearers' : tokens'[d] = Count(d)' - 0
    BY <1>1, <2>1, <2>2, Zenon
  <2> QED
    BY <1>2, <2>3 DEF TokensExact
<1>4. OncePerPdu' /\ GoneIsIdle'
  BY <1>1, Zenon DEF TokenInv, OncePerPdu, GoneIsIdle, Idle
<1>5. RoutineInv'
  BY <1>1, <1>2, Zenon DEF RoutineInv, Waiting
<1>6. FlagInv'
  <2>1. 0 \notin bearers
    BY <1>1 DEF Drbs
  <2> QED
    BY <1>1, <1>2, <2>1, Zenon DEF FlagInv
<1>7. OnlyInlineRestartLosesWakeup'
  BY <1>2, Zenon DEF OnlyInlineRestartLosesWakeup, WaitsInVain
<1> QED
  BY <1>3, <1>4, <1>5, <1>6, <1>7, Zenon DEF TokenInv

LEMMA TokenDestroy ==
  ASSUME TokenTypes, TokenInv, Destroy
  PROVE  TokenInv'
<1>1. /\ UNCHANGED <<crypto, verified, tokens, event, was_set, stopped, inlined>> /\ bearers' = {}
      /\ routine.doing = "remove" /\ routine.at = NofDrbs /\ Ready(NofDrbs) /\ bearers \subseteq Drbs
  BY Zenon DEF Destroy, processing, GoesOn, ghosts, TokenTypes
<1>2. routine'.doing = "done"
  BY Zenon DEF Destroy, TokenTypes, Routines
<1>3. \A d \in bearers : event[d]
  <2> TAKE d \in bearers
  <2>1. d < NofDrbs \/ d = NofDrbs
    BY <1>1, PdcpRxAssumption DEF Drbs
  <2> QED
    BY <1>1, <2>1, Zenon DEF TokenInv, RoutineInv, Waiting, Ready
<1>4. \A d \in Drbs : stopped[d] /\ Idle(d)
  BY <1>1, <1>3, Zenon DEF TokenInv, RoutineInv, GoneIsIdle
<1>5. OncePerPdu' /\ TokensExact' /\ GoneIsIdle' /\ FlagInv' /\ OnlyInlineRestartLosesWakeup'
  BY <1>1, <1>4, Zenon
  DEF TokenInv, OncePerPdu, TokensExact, GoneIsIdle, Idle, FlagInv, OnlyInlineRestartLosesWakeup, WaitsInVain
<1>6. RoutineInv'
  BY <1>1, <1>2, <1>4 DEF RoutineInv, Waiting
<1> QED
  BY <1>5, <1>6, Zenon DEF TokenInv

LEMMA TokenRemove ==
  ASSUME TokenTypes, TokenInv, NEW r \in Drbs, remove_drb(r)
  PROVE  TokenInv'
<1>1. /\ routine.doing = "nothing" /\ routine' = routine /\ inlined' = inlined
      /\ bearers' = bearers \ {r} /\ bearers \subseteq Drbs
      /\ \A d \in Drbs \ {r} : crypto'[d] = crypto[d] /\ verified'[d] = verified[d] /\ stopped'[d] = stopped[d]
      /\ crypto'[r] = {} /\ verified'[r] = {} /\ return_tokens({r})
  BY Zenon DEF remove_drb, ghosts, TokenTypes
<1>s. stopped'[r]
  BY Zenon DEF remove_drb, TokenTypes
<1>2. \A d \in bearers' : tokens'[d] = tokens[d] /\ event'[d] = event[d] /\ was_set'[d] = was_set[d]
  <2>1. \A d \in bearers' : d \in Drbs /\ d # r
    BY <1>1, Zenon
  <2>2. \A d \in bearers' : tokens'[d] = tokens[d] - 0 /\ tokens[d] - 0 = tokens[d]
    <3>1. \A d \in bearers' : tokens'[d] = tokens[d] - 0
      BY <1>1, <2>1, Zenon DEF return_tokens
    <3>2. \A d \in bearers' : tokens[d] - 0 = tokens[d]
      BY <2>1 DEF TokenTypes
    <3> QED
      BY <3>1, <3>2, Zenon
  <2>3. \A d \in bearers' : event'[d] = event[d]
    BY <1>1, <2>1 DEF return_tokens, TokenTypes
  <2>4. \A d \in bearers' : was_set'[d] = was_set[d]
    BY <1>1, <2>1 DEF return_tokens, TokenTypes
  <2> QED
    BY <2>2, <2>3, <2>4, Zenon
<1>3. OncePerPdu'
  <2> SUFFICES ASSUME NEW x \in Drbs
               PROVE  /\ IsFiniteSet(crypto'[x]) /\ IsFiniteSet(verified'[x])
                      /\ \A p, q \in crypto'[x] : p.sdu = q.sdu => p = q
                      /\ \A p, q \in verified'[x] : p.sdu = q.sdu => p = q
                      /\ \A p \in crypto'[x], q \in verified'[x] : p.sdu # q.sdu
    BY DEF OncePerPdu
  <2>1. CASE x = r
    <3>1. crypto'[x] = {} /\ verified'[x] = {} /\ IsFiniteSet({})
      BY <1>1, <2>1, FS_EmptySet, Zenon
    <3> QED
      BY <3>1, Zenon
  <2>2. CASE x # r
    <3>1. crypto'[x] = crypto[x] /\ verified'[x] = verified[x] /\ OncePerPdu
      BY <1>1, <2>2, Zenon DEF TokenInv
    <3> QED
      BY <3>1, Zenon DEF OncePerPdu
  <2> QED
    BY <2>1, <2>2, Zenon
<1>4. TokensExact'
  <2>1. \A d \in bearers' : tokens'[d] = Count(d)' - 0
    BY <1>1, <1>2, Zenon DEF TokenInv, TokensExact, Count
  <2> QED
    BY <1>1, <2>1, Zenon DEF TokensExact
<1>5. RoutineInv'
  BY <1>1, <1>2, Zenon DEF TokenInv, RoutineInv, Waiting
<1>6. GoneIsIdle'
  <2> SUFFICES ASSUME NEW d \in Drbs, d \notin bearers' PROVE stopped'[d] /\ Idle(d)'
    BY Zenon DEF GoneIsIdle
  <2>1. CASE d = r
    BY <1>1, <1>s, <2>1, Zenon DEF Idle
  <2>2. CASE d # r
    BY <1>1, <2>2, Zenon DEF TokenInv, GoneIsIdle, Idle
  <2> QED
    BY <2>1, <2>2, Zenon
<1>7. FlagInv'
  BY <1>1, <1>2, Zenon DEF TokenInv, FlagInv
<1>8. OnlyInlineRestartLosesWakeup'
  BY <1>1, Zenon DEF OnlyInlineRestartLosesWakeup, WaitsInVain
<1> QED
  BY <1>3, <1>4, <1>5, <1>6, <1>7, <1>8, Zenon DEF TokenInv

LEMMA TokenStep == TokenTypes /\ TokenInv /\ [Next]_vars => TokenInv'
<1> SUFFICES ASSUME TokenTypes, TokenInv, [Next]_vars PROVE TokenInv'
  OBVIOUS
<1>1. ASSUME NEW d \in Drbs, PeerSends(d) \/ PeerRekeys(d) PROVE TokenInv'
  BY <1>1, TokenFrame, Zenon DEF PeerSends, PeerRekeys, processing, ghosts
<1>2. ASSUME NEW d \in Drbs, NEW pdu \in Arriving(d), handle_data_pdu(d, pdu) PROVE TokenInv'
  BY <1>2, TokenArrival, Zenon
<1>3. ASSUME NEW d \in Drbs, NEW pdu \in crypto[d], apply_security(d, pdu) PROVE TokenInv'
  BY <1>3, TokenSecurity, Zenon
<1>4. ASSUME NEW d \in Drbs, NEW pdu \in crypto[d], DropVerified(d, pdu) PROVE TokenInv'
  <2>1. PduEnds(d, pdu) /\ UNCHANGED <<stopped, bearers, inlined>>
    BY <1>4, Zenon DEF DropVerified, PduEnds, ghosts
  <2> QED
    BY <2>1, TokenEnd, Zenon
<1>5. ASSUME NEW d \in Drbs, NEW pdu \in verified[d], apply_reordering(d, pdu) PROVE TokenInv'
  <2>1. PduEnds(d, pdu) /\ UNCHANGED <<stopped, bearers>>
    BY <1>5, Zenon DEF apply_reordering, PduEnds
  <2>2. inlined' = inlined
    BY <1>5, Zenon DEF apply_reordering, Deliver, ghosts
  <2> QED
    BY <2>1, <2>2, TokenEnd, Zenon
<1>6. ASSUME NEW d \in Drbs, reordering_callback(d) PROVE TokenInv'
  BY <1>6, TokenFrame, Zenon DEF reordering_callback, processing, Deliver
<1>7. CASE notify_pdu_processing_stopped
  <2>1. Start("rekey", 1) /\ stopped' = stopped
    BY <1>7, Zenon DEF notify_pdu_processing_stopped
  <2>2. "rekey" # "remove" /\ "rekey" \in {"rekey", "remove"} /\ 1 \in {0, 1}
    OBVIOUS
  <2> QED
    BY <2>1, <2>2, TokenStart, Zenon
<1>8. CASE stop
  <2>1. Start("remove", 0) /\ \A d \in Drbs : stopped'[d]
    BY <1>8, Zenon DEF stop
  <2>2. "remove" \in {"rekey", "remove"} /\ 0 \in {0, 1}
    OBVIOUS
  <2> QED
    BY <2>1, <2>2, TokenStart, Zenon
<1>9. CASE AwaitNext \/ restart_pdu_processing \/ Destroy
  BY <1>9, TokenAwaitNext, TokenRestart, TokenDestroy, Zenon
<1>10. ASSUME NEW d \in Drbs, remove_drb(d) PROVE TokenInv'
  BY <1>10, TokenRemove, Zenon
<1>11. CASE UNCHANGED vars
  BY <1>11, TokenFrame, Zenon DEF vars, processing, ghosts
<1> QED
  BY <1>1, <1>2, <1>3, <1>4, <1>5, <1>6, <1>7, <1>8, <1>9, <1>10, <1>11, Zenon DEF Next

LEMMA SafeTokens == Spec => [](TokenTypes /\ TokenInv)
<1>1. Init => TokenTypes /\ TokenInv
  <2>1. Init => TokenTypes
    BY PdcpRxAssumption DEF Init, NoRoutine, TokenTypes, Routines, Doings
  <2> QED
    BY <2>1, TokenInit
<1>2. TokenTypes /\ TokenInv /\ [Next]_vars => (TokenTypes /\ TokenInv)'
  BY TokenTypesStep, TokenStep
<1> QED
  BY <1>1, <1>2, PTL DEF Spec

(* A routine that told the bearers of a UE to stop processing is left      *)
(* waiting for a bearer that has no PDU in processing only if the last PDU *)
(* of that bearer ran the previous key change from inside set_once, for    *)
(* any number of bearers, of PDUs and of key changes, and however the      *)
(* steps of the PDUs, the drops by the workers and the removals of bearers *)
(* interleave (pdcp_crypto_token_manager).                                 *)
THEOREM WakeupLostInOneWay == Spec => []OnlyInlineRestartLosesWakeup
<1>1. TokenTypes /\ TokenInv => OnlyInlineRestartLosesWakeup
  BY DEF TokenInv
<1> QED
  BY <1>1, SafeTokens, PTL

(* When a UE is removed its entities are destroyed only when none of its   *)
(* PDUs is with a crypto worker or on its way back, whatever the queues    *)
(* drop and whichever bearers were removed before                          *)
(* (await_crypto_rx_all_drbs before the removal).                          *)
THEOREM UeRemovalAwaitsProcessing == Spec => []UeRemovedWhenIdle
<1>1. TokenTypes /\ TokenInv => UeRemovedWhenIdle
  BY DEF TokenInv, RoutineInv, GoneIsIdle, Idle, UeRemovedWhenIdle, InProcessing
<1> QED
  BY <1>1, SafeTokens, PTL
=============================================================================
