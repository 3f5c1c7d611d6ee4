--------------------------- MODULE RlcAmSegments ---------------------------
(***************************************************************************)
(* SDU segments in the RLC AM receive window and the status report made of  *)
(* them: store_segment, update_segment_inventory and refresh_status_report  *)
(* (lib/rlc/rlc_rx_am_entity.cpp).  Full SDUs and segments of the SNs       *)
(* between RX_Next and RX_Highest_Status arrive in any order and overlap.   *)
(* RlcAmRx keeps only the set of received bytes of an SDU; the properties   *)
(* here say why that is enough.                                             *)
(***************************************************************************)
EXTENDS RlcAmStatusPdu, SequencesExt

CONSTANTS
  MaxSns,       \* bound: SNs between RX_Next and RX_Highest_Status
  MaxSegments,  \* bound: segments stored in the window
  MaxGrant      \* bound: largest grant in bytes

VARIABLES
  rx_next, stop_sn,   \* the SNs reported: rx_next, ..., stop_sn - 1
  window,             \* SN -> segments in the order of their offset, fully_received, has_gap
  report,             \* the cached status report
  got                 \* ghost: SN -> bytes received so far
vars == <<rx_next, stop_sn, window, report, got>>

offset(sn) == (sn - rx_next) % Mod
Reported == {sn \in Sns : offset(sn) < offset(stop_sn)}

last_byte(s) == s.so + s.len - 1

(* payload.advance(n): the segment without its first n bytes.               *)
advance(s, n) == [s EXCEPT !.so = @ + n, !.len = @ - n]

(* The part of the new segment that lies after the current one.             *)
trim_new_OffByOne(new, cur) == advance(new, last_byte(cur) - new.so)
trim_new(new, cur) == advance(new, last_byte(cur) + 1 - new.so)

(* One iteration of the loop of store_segment.  acc.new is the new segment, *)
(* acc.at says whether it is still to be placed.                            *)
store_step(acc, cur) ==
  IF acc.at # "scan" \/ acc.new.so > last_byte(cur)
    THEN [acc EXCEPT !.out = Append(@, cur)]
  ELSE IF acc.new.so >= cur.so
    THEN IF last_byte(acc.new) <= last_byte(cur)
           THEN [acc EXCEPT !.out = Append(@, cur), !.at = "dropped"]
           ELSE [acc EXCEPT !.out = Append(@, cur),
                            !.new = trim_new(@, cur)]
  ELSE IF last_byte(acc.new) < cur.so
    THEN [acc EXCEPT !.out = @ \o <<acc.new, cur>>, !.at = "placed"]
  ELSE IF last_byte(acc.new) < last_byte(cur)
    THEN [acc EXCEPT !.out = @ \o <<acc.new, advance(cur, last_byte(acc.new) + 1 - cur.so)>>,
                     !.at = "placed"]
  ELSE acc

(* store_segment: the new list of segments and the value returned.          *)
store_segment(segs, new) ==
  LET acc == FoldLeft(store_step, [out |-> <<>>, new |-> new, at |-> "scan"], segs)
  IN  [segments |-> IF acc.at = "scan" THEN Append(acc.out, acc.new) ELSE acc.out,
       stored |-> acc.at # "dropped"]

(* update_segment_inventory: walk until a gap or the last segment.          *)
inventory_step_NoStop(acc, s) ==
  [next_byte |-> s.so + s.len, gap |-> s.so # acc.next_byte, full |-> s.last]
inventory_step(acc, s) ==
  IF acc.gap \/ acc.full THEN acc
  ELSE [next_byte |-> acc.next_byte + s.len,
        gap |-> s.so # acc.next_byte,
        full |-> s.so = acc.next_byte /\ s.last]
inventory(segs) ==
  FoldLeft(inventory_step, [next_byte |-> 0, gap |-> FALSE, full |-> FALSE], segs)

(* refresh_status_report: the NACKs of an incomplete SDU, segment by        *)
(* segment.                                                                 *)
nack_step_OffByOne(acc, s) ==
  [sn |-> acc.sn, last_so |-> s.so + s.len, have_last |-> acc.have_last \/ s.last,
   nacks |-> IF s.so = acc.last_so THEN acc.nacks
             ELSE Append(acc.nacks, so_nack(acc.sn, acc.last_so, s.so))]
nack_step(acc, s) ==
  [sn |-> acc.sn, last_so |-> s.so + s.len, have_last |-> acc.have_last \/ s.last,
   nacks |-> IF s.so = acc.last_so THEN acc.nacks
             ELSE Append(acc.nacks, so_nack(acc.sn, acc.last_so, s.so - 1))]
segment_nacks(sn, segs) ==
  LET acc == FoldLeft(nack_step, [sn |-> sn, last_so |-> 0, have_last |-> FALSE, nacks |-> <<>>], segs)
  IN  IF acc.have_last THEN acc.nacks
      ELSE Append(acc.nacks, so_nack(acc.sn, acc.last_so, so_end_of_sdu))

(* refresh_status_report over a window of segment lists.                    *)
refresh_status_report(win) ==
  LET sn(i) == (rx_next + i - 1) % Mod
      nacks(n) == IF win[n].fully_received THEN <<>>
                  ELSE IF win[n].segments = <<>> THEN <<full_nack(n)>>
                  ELSE segment_nacks(n, win[n].segments)
      pending == FlattenSeq([i \in 1 .. offset(stop_sn) |-> nacks(sn(i))])
  IN  [FoldLeft(push_nack, empty_report, pending) EXCEPT !.ack_sn = stop_sn]

no_segments == [segments |-> <<>>, fully_received |-> FALSE, has_gap |-> FALSE]

(* t-Reassembly has just moved RX_Highest_Status to stop_sn.                *)
Init ==
  /\ rx_next \in Sns
  /\ \E n \in 1 .. MaxSns : stop_sn = (rx_next + n) % Mod
  /\ window = [sn \in Reported |-> no_segments]
  /\ got = [sn \in Reported |-> {}]
  /\ report = refresh_status_report(window)

(* handle_data_pdu for an SDU that is not complete yet.  Completing RX_Next *)
(* moves the window, see RlcAmRx.                                           *)
HandleFullSdu(sn) ==
  /\ ~window[sn].fully_received /\ sn # rx_next
  /\ window' = [window EXCEPT ![sn].fully_received = TRUE, ![sn].has_gap = FALSE,
                              ![sn].segments = <<>>]
  /\ got' = [got EXCEPT ![sn] = Bytes]
  /\ report' = refresh_status_report(window')
  /\ UNCHANGED <<rx_next, stop_sn>>

(* The report is rebuilt only if the segment was stored.                    *)
HandleSegment(sn, so, len) ==
  LET new == [so |-> so, len |-> len, last |-> so + len = SduLen]
      result == store_segment(window[sn].segments, new)
      inv == inventory(result.segments)
  IN  /\ ~window[sn].fully_received /\ (sn = rx_next => ~inv.full)
      /\ window' = [window EXCEPT ![sn] = [segments |-> result.segments,
                                          fully_received |-> inv.full, has_gap |-> inv.gap]]
      /\ got' = [got EXCEPT ![sn] = @ \cup (so .. so + len - 1)]
      /\ report' = IF result.stored THEN refresh_status_report(window') ELSE report
      /\ UNCHANGED <<rx_next, stop_sn>>

nof_segments(win) == FoldSet(LAMBDA sn, n : n + Len(win[sn].segments), 0, Reported)
Next ==
  \E sn \in Reported :
    \/ HandleFullSdu(sn)
    \/ \E so \in Bytes : \E len \in 1 .. (SduLen - so) :
         len < SduLen /\ HandleSegment(sn, so, len) /\ nof_segments(window') <= MaxSegments
Spec == Init /\ [][Next]_vars

-----------------------------------------------------------------------------
segment_bytes(s) == s.so .. last_byte(s)
Segmented == {sn \in Reported : window[sn].segments # <<>>}

NackedBytes(nack) ==
  {<<nack.nack_sn, b>> : b \in {c \in Bytes : nack.so_start <= c /\ c <= nack.so_end}}
Nacked(rep) == UNION {NackedBytes(n) : n \in ToSet(expand_nacks(rep))}
Missing == UNION {{<<sn, b>> : b \in Bytes \ got[sn]} : sn \in Reported}
Grants == SizeofHeaderAckSn .. MaxGrant

(* The stored segments are disjoint, in order, and hold every byte that was *)
(* ever received: overlapping retransmissions lose and repeat nothing, and  *)
(* reassemble_sdu, which concatenates them, delivers the SDU.  has_gap and  *)
(* fully_received are what their comments say, although the walk that       *)
(* computes them stops at the first gap.                                    *)
SegmentsAreExact ==
  /\ \A sn \in Segmented :
       LET segs == window[sn].segments
       IN  /\ UNION {segment_bytes(s) : s \in ToSet(segs)} = got[sn]
           /\ \A i \in 1 .. Len(segs) - 1 : last_byte(segs[i]) < segs[i + 1].so
  /\ \A sn \in Reported :
       /\ window[sn].fully_received = (got[sn] = Bytes)
       /\ window[sn].has_gap = \E b \in Bytes : b \notin got[sn] /\ \E c \in got[sn] : c > b

(* The cached report is the one derived from the sets of received bytes,    *)
(* although it is made from segment lists, and only if a segment was new;   *)
(* and merging NACKs into ranges and expanding them at the peer is          *)
(* lossless: the peer retransmits exactly the bytes the receiver misses.    *)
ReportIsExact ==
  /\ report = build_report(rx_next, stop_sn, got)
  /\ Nacked(report) = Missing

(* A trimmed report fits the grant, and the size the report keeps while     *)
(* NACKs are pushed, merged and popped is the size pack() will need.        *)
(* Trimming never turns a missing byte into an acknowledged one: below the  *)
(* new ACK_SN everything missing is still reported, and nothing else is.    *)
TrimIsSound ==
  \A len \in Grants :
    LET rep == trim(report, len)
        below_ack(bytes) == {m \in bytes : offset(m[1]) < offset(rep.ack_sn)}
    IN  /\ rep.packed_size = computed_size(rep.nacks) /\ rep.packed_size <= len
        /\ below_ack(Missing) = below_ack(Nacked(rep))
=============================================================================
