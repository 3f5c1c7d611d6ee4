---------------------------- MODULE RlcSduQueue ----------------------------
(***************************************************************************)
(* The SDU queue between the upper layers and an RLC Tx entity             *)
(* (lib/rlc/rlc_sdu_queue_lockfree.h): a single-producer single-consumer   *)
(* ring plus, per PDCP SN modulo the capacity, an atomic slot through      *)
(* which the producer can discard an SDU that is still queued.             *)
(*                                                                         *)
(* Two threads.  "Upper" calls write and try_discard, "lower" calls read   *)
(* and front.  Every access to shared memory that the other thread can     *)
(* observe is a step of its own; upc and lpc say where each thread is.     *)
(***************************************************************************)
EXTENDS Integers, Sequences, FiniteSetsExt

CONSTANTS
  Capacity,   \* number of slots and of ring entries (cfg.queue_size)
  ByteLimit,  \* cfg.queue_size_bytes
  W,          \* number of values of a 32 bit word, scaled down for checking
  PdcpSns,    \* PDCP SNs an SDU may carry
  Sizes,      \* SDU sizes
  MaxWrites   \* bound: how many SDUs upper layers offer

STATE_FREE == W - 1
STATE_DISCARDED == W - 2
NoSn == -1    \* an empty std::optional PDCP SN

ASSUME SduQueueAssumption ==
  /\ Capacity \in Nat \ {0}
  /\ ByteLimit \in Nat
  /\ W \in Nat /\ W > 2
  /\ PdcpSns \subseteq 0 .. (W - 3)
  /\ Sizes \subseteq 1 .. (W - 1)
  /\ MaxWrites \in Nat

VARIABLES
  queue,       \* the lock-free SPSC ring
  sdu_states,  \* slot -> STATE_FREE, STATE_DISCARDED or the PDCP SN it holds
  sdu_sizes,   \* slot -> size of the SDU in that slot
  state,       \* the packed totals: n_sdus * W + n_bytes, modulo W * W
  upc, usdu,   \* upper thread: program counter, SDU being written or discarded
  lpc, lsdu, lsize,  \* lower thread: program counter, popped SDU, its size
  written,     \* number of write calls so far; the id of the latest SDU
  accepted,    \* ids whose write was (or is about to be) answered true
  delivered,   \* ids handed out by read, in order
  discarded    \* ids whose try_discard was answered true

upperVars == <<upc, usdu>>
lowerVars == <<lpc, lsdu, lsize>>
ghostVars == <<written, accepted, delivered, discarded>>
vars == <<queue, sdu_states, sdu_sizes, state, upperVars, lowerVars, ghostVars>>

Slots == 0 .. (Capacity - 1)
Sdu == [id : Nat, sn : PdcpSns \cup {NoSn}, size : Sizes]
NoSdu == [id |-> 0, sn |-> NoSn, size |-> 0]
slot(sn) == sn % Capacity

(* The atomic 64 bit total: add and subtract wrap like the unsigned word.  *)
state_add(st, size) == (st + W + size) % (W * W)
state_sub(st, size) == (st - (W + size)) % (W * W)
n_bytes(st) == st % W
n_sdus(st) == st \div W

Init ==
  /\ queue = <<>>
  /\ sdu_states = [s \in Slots |-> STATE_FREE]
  /\ sdu_sizes = [s \in Slots |-> 0]
  /\ state = 0
  /\ upc = "idle" /\ usdu = NoSdu
  /\ lpc = "idle" /\ lsdu = NoSdu /\ lsize = 0
  /\ written = 0 /\ accepted = {} /\ delivered = <<>> /\ discarded = {}

(* The tests the two threads make.  A name with a suffix is a faulty       *)
(* variant that some property must catch.                                  *)
ExceedsLimit_OldBytesOnly(size) == n_bytes(state) >= ByteLimit
ExceedsLimit(size) == size + n_bytes(state) >= ByteLimit

SlotIsFree_Unchecked(sn) == TRUE
SlotIsFree(sn) == sdu_states[slot(sn)] = STATE_FREE

check_Never(sn) == FALSE
check(sn) == sdu_states[slot(sn)] = sn

(* What check_and_release concludes from the state it exchanged out.       *)
ReleaseOutcome_AlwaysValid(old_state, sn) == "valid"
ReleaseOutcome_CountsDiscarded(old_state, sn) ==
  IF old_state = sn THEN "valid" ELSE "error"
ReleaseOutcome(old_state, sn) ==
  IF old_state = sn THEN "valid"
  ELSE IF old_state = STATE_DISCARDED THEN "discarded" ELSE "error"

-----------------------------------------------------------------------------
(* write: the byte limit is checked against one load of the totals.        *)
WriteCheckLimit(sn, size) ==
  /\ upc = "idle" /\ written < MaxWrites
  /\ written' = written + 1
  /\ IF ExceedsLimit(size)
       THEN UNCHANGED upperVars
       ELSE /\ usdu' = [id |-> written + 1, sn |-> sn, size |-> size]
            /\ upc' = IF sn = NoSn THEN "push" ELSE "slot"
  /\ UNCHANGED <<queue, sdu_states, sdu_sizes, state, lowerVars,
                 accepted, delivered, discarded>>

(* write: take the slot of the PDCP SN, or fail if it is not free.  Only   *)
(* the upper thread takes slots, so load and stores are one step.          *)
WriteTakeSlot ==
  /\ upc = "slot"
  /\ IF ~SlotIsFree(usdu.sn)
       THEN /\ upc' = "idle" /\ usdu' = NoSdu
            /\ UNCHANGED <<sdu_states, sdu_sizes>>
       ELSE /\ sdu_sizes' = [sdu_sizes EXCEPT ![slot(usdu.sn)] = usdu.size]
            /\ sdu_states' = [sdu_states EXCEPT ![slot(usdu.sn)] = usdu.sn]
            /\ upc' = "push" /\ UNCHANGED usdu
  /\ UNCHANGED <<queue, state, lowerVars, ghostVars>>

(* write: push to the ring; a full ring gives the slot back.               *)
WritePush ==
  /\ upc = "push"
  /\ IF Len(queue) < Capacity
       THEN /\ queue' = Append(queue, usdu)
            /\ upc' = "add" /\ accepted' = accepted \cup {usdu.id}
            /\ UNCHANGED <<sdu_states, usdu>>
       ELSE /\ sdu_states' = IF usdu.sn = NoSn THEN sdu_states
                             ELSE [sdu_states EXCEPT ![slot(usdu.sn)] = STATE_FREE]
            /\ upc' = "idle" /\ usdu' = NoSdu
            /\ UNCHANGED <<queue, accepted>>
  /\ UNCHANGED <<sdu_sizes, state, lowerVars, written, delivered, discarded>>

(* write: the totals are raised only after the SDU is visible in the ring. *)
WriteAddTotals ==
  /\ upc = "add"
  /\ state' = state_add(state, usdu.size)
  /\ upc' = "idle" /\ usdu' = NoSdu
  /\ UNCHANGED <<queue, sdu_states, sdu_sizes, lowerVars, ghostVars>>

(* The SDUs a slot can refer to: in the ring, or popped and not released.  *)
Unreleased == {"read_size", "front_size", "read_release", "front_release"}
Held == {queue[i] : i \in 1 .. Len(queue)}
          \cup (IF lpc \in Unreleased \cup {"plain_sub"} THEN {lsdu} ELSE {})

(* try_discard: compare-and-exchange of the slot.  A slot that does not    *)
(* hold the PDCP SN answers false and changes nothing.                     *)
DiscardCas(sn) ==
  /\ upc = "idle"
  /\ sdu_states[slot(sn)] = sn
  /\ sdu_states' = [sdu_states EXCEPT ![slot(sn)] = STATE_DISCARDED]
  /\ \E e \in Held :
       /\ e.sn = sn
       /\ discarded' = discarded \cup {e.id}
       /\ usdu' = e
  /\ upc' = "discard_sub"
  /\ UNCHANGED <<queue, sdu_sizes, state, lowerVars, written, accepted, delivered>>

(* try_discard: lower the totals by the size stored for the slot.          *)
DiscardSubTotals ==
  /\ upc = "discard_sub"
  /\ state' = state_sub(state, sdu_sizes[slot(usdu.sn)])
  /\ upc' = "idle" /\ usdu' = NoSdu
  /\ UNCHANGED <<queue, sdu_states, sdu_sizes, lowerVars, ghostVars>>

-----------------------------------------------------------------------------
(* read and front loop until they find a valid SDU or an empty ring.       *)
ReadCall ==
  /\ lpc = "idle" /\ lpc' = "read"
  /\ UNCHANGED <<queue, sdu_states, sdu_sizes, state, upperVars, lsdu, lsize, ghostVars>>

ReadPop ==
  /\ lpc = "read"
  /\ IF queue = <<>>
       THEN lpc' = "idle" /\ UNCHANGED <<queue, lsdu>>
       ELSE /\ lsdu' = Head(queue) /\ queue' = Tail(queue)
            /\ lpc' = IF Head(queue).sn = NoSn THEN "plain_sub" ELSE "read_size"
  /\ UNCHANGED <<sdu_states, sdu_sizes, state, upperVars, lsize, ghostVars>>

(* read: an SDU without PDCP SN is always valid.                           *)
ReadPlain ==
  /\ lpc = "plain_sub"
  /\ state' = state_sub(state, lsdu.size)
  /\ delivered' = Append(delivered, lsdu.id)
  /\ lpc' = "idle" /\ lsdu' = NoSdu
  /\ UNCHANGED <<queue, sdu_states, sdu_sizes, upperVars, lsize,
                 written, accepted, discarded>>

FrontCall ==
  /\ lpc = "idle" /\ lpc' = "front"
  /\ UNCHANGED <<queue, sdu_states, sdu_sizes, state, upperVars, lsdu, lsize, ghostVars>>

(* front: return the head, unless its slot no longer holds its PDCP SN:    *)
(* then pop it, release the slot and look again.                           *)
FrontCheck ==
  /\ lpc = "front"
  /\ IF \/ queue = <<>>
        \/ Head(queue).sn = NoSn
        \/ check(Head(queue).sn)
       THEN lpc' = "idle" /\ UNCHANGED <<queue, lsdu>>
       ELSE /\ lsdu' = Head(queue) /\ queue' = Tail(queue)
            /\ lpc' = "front_size"
  /\ UNCHANGED <<sdu_states, sdu_sizes, state, upperVars, lsize, ghostVars>>

(* check_and_release, first half: load the size of the slot.               *)
ReleaseLoadSize ==
  /\ lpc \in {"read_size", "front_size"}
  /\ lsize' = sdu_sizes[slot(lsdu.sn)]
  /\ lpc' = IF lpc = "read_size" THEN "read_release" ELSE "front_release"
  /\ UNCHANGED <<queue, sdu_states, sdu_sizes, state, upperVars, lsdu, ghostVars>>

(* check_and_release, second half: exchange the slot to free.  A discarded *)
(* SDU is dropped and the caller's loop goes on; otherwise the totals are  *)
(* still to be lowered, in the two error branches as well.                 *)
ReleaseExchange ==
  /\ lpc \in {"read_release", "front_release"}
  /\ sdu_states' = [sdu_states EXCEPT ![slot(lsdu.sn)] = STATE_FREE]
  /\ LET outcome == ReleaseOutcome(sdu_states[slot(lsdu.sn)], lsdu.sn)
         caller == IF lpc = "read_release" THEN "read" ELSE "front"
     IN /\ lpc' = CASE outcome = "valid" -> "valid_sub"
                    [] outcome = "discarded" -> caller
                    [] outcome = "error" ->
                         IF caller = "read" THEN "read_error_sub" ELSE "front_error_sub"
        /\ lsdu' = IF outcome = "discarded" THEN NoSdu ELSE lsdu
        /\ delivered' = IF outcome = "valid" /\ caller = "read"
                          THEN Append(delivered, lsdu.id) ELSE delivered
  /\ UNCHANGED <<queue, sdu_sizes, state, upperVars, lsize,
                 written, accepted, discarded>>

ReleaseSubTotals ==
  /\ lpc \in {"valid_sub", "read_error_sub", "front_error_sub"}
  /\ state' = state_sub(state, lsize)
  /\ lpc' = CASE lpc = "valid_sub" -> "idle"
              [] lpc = "read_error_sub" -> "read"
              [] lpc = "front_error_sub" -> "front"
  /\ lsdu' = NoSdu
  /\ UNCHANGED <<queue, sdu_states, sdu_sizes, upperVars, lsize, ghostVars>>

Upper ==
  \/ \E sn \in PdcpSns \cup {NoSn}, size \in Sizes : WriteCheckLimit(sn, size)
  \/ WriteTakeSlot \/ WritePush \/ WriteAddTotals
  \/ \E sn \in PdcpSns : DiscardCas(sn)
  \/ DiscardSubTotals

Lower ==
  \/ ReadCall \/ ReadPop \/ ReadPlain \/ FrontCall \/ FrontCheck
  \/ ReleaseLoadSize \/ ReleaseExchange \/ ReleaseSubTotals

Next == Upper \/ Lower
Spec == Init /\ [][Next]_vars

-----------------------------------------------------------------------------
TypeOK ==
  /\ queue \in Seq(Sdu)
  /\ sdu_states \in [Slots -> PdcpSns \cup {STATE_FREE, STATE_DISCARDED}]
  /\ sdu_sizes \in [Slots -> Sizes \cup {0}]
  /\ state \in 0 .. (W * W - 1)
  /\ upc \in {"idle", "slot", "push", "add", "discard_sub"}
  /\ usdu \in Sdu \cup {NoSdu}
  /\ lpc \in {"idle", "read", "front", "plain_sub", "valid_sub",
              "read_error_sub", "front_error_sub"} \cup Unreleased
  /\ lsdu \in Sdu \cup {NoSdu}
  /\ lsize \in Sizes \cup {0}
  /\ written \in Nat /\ accepted \subseteq Nat
  /\ delivered \in Seq(Nat) /\ discarded \subseteq Nat

(* check_and_release never meets a slot that is already free or that holds *)
(* another PDCP SN: the two "SDU queue error: Invalid release" branches    *)
(* cannot be reached, whatever the interleaving with write and discard.    *)
NoInvalidRelease ==
  lpc \in Unreleased =>
    sdu_states[slot(lsdu.sn)] \in {lsdu.sn, STATE_DISCARDED}

(* An accepted SDU is delivered, discarded or still held: none is lost     *)
(* between the ring and the slots, and one for which try_discard answered  *)
(* true is never handed to the Tx entity, even if it was popped already.   *)
NothingLost ==
  accepted \ discarded =
    ({e.id : e \in Held} \ discarded) \cup {delivered[i] : i \in 1 .. Len(delivered)}

ValidHeld == {e \in Held : e.id \notin discarded}
TotalOf(S) == MapThenSumSet(LAMBDA e : W + e.size, S)

(* The packed totals count exactly the SDUs that are held and not          *)
(* discarded, give or take the one update each thread has in flight: no    *)
(* interleaving of write, discard and read loses or repeats an update.     *)
TotalsAccountForHeld ==
  state = ( TotalOf(ValidHeld)
            + (IF lpc = "valid_sub" THEN W + lsize ELSE 0)
            + (IF upc = "discard_sub" THEN W + usdu.size ELSE 0)
            - (IF upc = "add" THEN W + usdu.size ELSE 0) ) % (W * W)

(* The SDUs that are held and not discarded stay below the byte limit that *)
(* write checks, although the check reads a total that reads and discards  *)
(* in flight have not lowered yet.                                         *)
ByteLimitRespected ==
  ValidHeld # {} => MapThenSumSet(LAMBDA e : e.size, ValidHeld) < ByteLimit
=============================================================================
