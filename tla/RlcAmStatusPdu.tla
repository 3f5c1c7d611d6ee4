--------------------------- MODULE RlcAmStatusPdu ---------------------------
(***************************************************************************)
(* The RLC AM status report as a value: how the receiver collects NACKs    *)
(* into ranges (push_nack), cuts a report down to a grant (trim), and how  *)
(* the transmitter takes a report apart again (handle_status_pdu).         *)
(* lib/rlc/rlc_am_pdu.{h,cpp}.                                             *)
(*                                                                         *)
(* A report is [ack_sn, nacks, packed_size]; a NACK is                     *)
(* [nack_sn, has_so, so_start, so_end, nack_range], nack_range = 0 meaning *)
(* that it has no range.                                                   *)
(***************************************************************************)
EXTENDS Integers, Sequences, FiniteSetsExt

CONSTANTS
  Mod,           \* number of RLC SNs
  SduLen,        \* bytes per SDU
  MaxNackRange,  \* longest NACK range (255)
  SizeofNackSn   \* 2 for 12 bit SNs, 3 for 18 bit SNs

ASSUME StatusPduAssumption ==
  /\ Mod \in Nat \ {0} /\ SduLen \in Nat \ {0}
  /\ MaxNackRange \in Nat \ {0} /\ SizeofNackSn \in {2, 3}

Sns == 0 .. (Mod - 1)
Bytes == 0 .. (SduLen - 1)
so_end_of_sdu == 65535
INVALID_RLC_SN == -1
SizeofHeaderAckSn == 3
SizeofNackSo == 4
SizeofNackRange == 1

full_nack(sn) == [nack_sn |-> sn, has_so |-> FALSE, so_start |-> 0,
                  so_end |-> so_end_of_sdu, nack_range |-> 0]
so_nack(sn, first, last) == [full_nack(sn) EXCEPT !.has_so = TRUE,
                                                  !.so_start = first, !.so_end = last]

nack_size(nack) == SizeofNackSn
                     + (IF nack.has_so THEN SizeofNackSo ELSE 0)
                     + (IF nack.nack_range # 0 THEN SizeofNackRange ELSE 0)

empty_report == [ack_sn |-> INVALID_RLC_SN, nacks |-> <<>>,
                 packed_size |-> SizeofHeaderAckSn]

(* The value of a loop over 1 .. n with body(i, value) as its body.         *)
Loop(body(_, _), start, n) ==
  MapThenFoldSet(body, start, LAMBDA i : i, LAMBDA S : Max(S), 1 .. n)

(* refresh_packed_size: the size computed from scratch.                    *)
computed_size(nacks) ==
  SizeofHeaderAckSn + MapThenSumSet(LAMBDA i : nack_size(nacks[i]), DOMAIN nacks)

nof_sdus(nack) == IF nack.nack_range # 0 THEN nack.nack_range ELSE 1

can_be_merged_AnyEnd(left, right) ==
  /\ right.nack_sn = (left.nack_sn + nof_sdus(left)) % Mod
  /\ ~(right.has_so /\ right.so_start # 0)
  /\ nof_sdus(left) + nof_sdus(right) <= MaxNackRange
can_be_merged(left, right) ==
  /\ right.nack_sn = (left.nack_sn + nof_sdus(left)) % Mod
  /\ ~(left.has_so /\ left.so_end # so_end_of_sdu)
  /\ ~(right.has_so /\ right.so_start # 0)
  /\ nof_sdus(left) + nof_sdus(right) <= MaxNackRange

(* The NACK that replaces two mergeable ones.                              *)
merged(left, right) ==
  [left EXCEPT
     !.nack_range = nof_sdus(left) + nof_sdus(right),
     !.has_so = left.has_so \/ right.has_so,
     !.so_start = IF left.has_so THEN left.so_start ELSE 0,
     !.so_end = IF right.has_so THEN right.so_end ELSE so_end_of_sdu]

back(nacks) == nacks[Len(nacks)]
pop_back(nacks) == SubSeq(nacks, 1, Len(nacks) - 1)

push_nack(report, nack) ==
  LET prev == back(report.nacks)
  IN  IF report.nacks # <<>> /\ can_be_merged(prev, nack)
        THEN [report EXCEPT
                !.nacks = pop_back(report.nacks) \o <<merged(prev, nack)>>,
                !.packed_size = @ - nack_size(prev) + nack_size(merged(prev, nack))]
        ELSE [report EXCEPT
                !.nacks = Append(@, nack),
                !.packed_size = @ + nack_size(nack)]

(* trim: drop NACKs from the back until the report fits; ACK_SN follows the *)
(* dropped NACK, and further NACKs of the same SN go as well.               *)
pop_nack_KeepAck(report) ==
  [report EXCEPT !.nacks = pop_back(@), !.packed_size = @ - nack_size(back(report.nacks))]
pop_nack(report) ==
  [nacks |-> pop_back(report.nacks), ack_sn |-> back(report.nacks).nack_sn,
   packed_size |-> report.packed_size - nack_size(back(report.nacks))]

must_pop_BytesIgnored(report, max_packed_size) ==
  report.nacks # <<>> /\ back(report.nacks).nack_sn = report.ack_sn
must_pop(report, max_packed_size) ==
  /\ report.nacks # <<>>
  /\ \/ max_packed_size < report.packed_size
     \/ back(report.nacks).nack_sn = report.ack_sn

trim(report, max_packed_size) ==
  IF max_packed_size >= report.packed_size
    THEN report
    ELSE Loop(LAMBDA i, r : IF must_pop(r, max_packed_size) THEN pop_nack(r) ELSE r,
              report, Len(report.nacks))

-----------------------------------------------------------------------------
(* refresh_status_report, inner loop: the NACKs of one SDU of which the     *)
(* bytes in got were received.  The missing bytes are reported as maximal   *)
(* runs; the run after the last received byte is open ended.                *)
Runs(got) ==
  {r \in Bytes \X Bytes :
     /\ r[1] <= r[2] /\ \A b \in r[1] .. r[2] : b \notin got
     /\ r[1] - 1 \in got \cup {-1} /\ r[2] + 1 \in got}

sdu_nacks(sn, got) ==
  IF got = {} THEN <<full_nack(sn)>>
  ELSE LET tail == CHOOSE b \in 1 .. SduLen : b - 1 \in got /\ \A c \in b .. SduLen : c \notin got
           run(i) == CHOOSE r \in Runs(got) : Cardinality({s \in Runs(got) : s[1] <= r[1]}) = i
       IN  [i \in 1 .. Cardinality(Runs(got)) |-> so_nack(sn, run(i)[1], run(i)[2])]
             \o (IF SduLen - 1 \in got THEN <<>> ELSE <<so_nack(sn, tail, so_end_of_sdu)>>)

(* refresh_status_report: got maps every SN of the receive window to the    *)
(* bytes received.                                                          *)
push_nacks(report, nacks) ==
  Loop(LAMBDA i, r : push_nack(r, nacks[i]), report, Len(nacks))
build_report(rx_next, stop_sn, got) ==
  LET sn(i) == (rx_next + i - 1) % Mod
      visit(i, report) == IF got[sn(i)] = Bytes THEN report
                          ELSE push_nacks(report, sdu_nacks(sn(i), got[sn(i)]))
  IN  [Loop(visit, empty_report, (stop_sn - rx_next) % Mod) EXCEPT !.ack_sn = stop_sn]

(* handle_status_pdu, second half: a NACK range becomes one NACK per SN;    *)
(* the offsets apply to its first and last SN; a range is cut at ACK_SN.    *)
expand_nack(nack, ack_sn) ==
  IF nack.nack_range = 0 THEN <<nack>>
  ELSE LET sn(i) == (nack.nack_sn + i - 1) % Mod
           cut == {i \in 1 .. nack.nack_range : sn(i) = ack_sn}
           last == IF cut = {} THEN nack.nack_range ELSE (CHOOSE i \in cut : \A j \in cut : i <= j) - 1
           first_so(i) == IF nack.has_so /\ i = 1 THEN nack.so_start ELSE 0
           last_so(i) == IF nack.has_so /\ i = nack.nack_range THEN nack.so_end ELSE so_end_of_sdu
       IN  [i \in 1 .. last |->
              [full_nack(sn(i)) EXCEPT
                 !.has_so = nack.has_so /\ (first_so(i) # 0 \/ last_so(i) # so_end_of_sdu),
                 !.so_start = first_so(i), !.so_end = last_so(i)]]

expand_nacks(report) ==
  Loop(LAMBDA i, nacks : nacks \o expand_nack(report.nacks[i], report.ack_sn),
       <<>>, Len(report.nacks))
=============================================================================
