------------------------------- MODULE PdcpSn -------------------------------
(***************************************************************************)
(* Sequence numbers of a PDCP bearer (lib/pdcp/pdcp_sn.h): a COUNT is the  *)
(* hyper frame number followed by the sequence number, in one unsigned     *)
(* word.  The window is half of the sequence number space.                 *)
(***************************************************************************)
EXTENDS Integers

CONSTANTS
  SnCard,   \* pdcp_sn_cardinality: 2^12 or 2^18 in the code
  CountMod  \* number of values of a COUNT: 2^32 in the code

ASSUME PdcpSnAssumption ==
  /\ SnCard \in Nat \ {0} /\ SnCard % 2 = 0
  /\ CountMod \in Nat \ {0} /\ CountMod % SnCard = 0

window_size == SnCard \div 2

SN(count) == count % SnCard
HFN(count) == count \div SnCard
COUNT(hfn, sn) == (hfn * SnCard + sn) % CountMod

(* The COUNT nearest to lower that ends in sn, as both entities infer it.  *)
InferCount_NoWrap(sn, lower) == COUNT(HFN(lower), sn)
InferCount(sn, lower) ==
  CASE sn < SN(lower) - window_size -> COUNT(HFN(lower) + 1, sn)
    [] sn >= SN(lower) + window_size -> COUNT(HFN(lower) - 1, sn)
    [] OTHER -> COUNT(HFN(lower), sn)
=============================================================================
