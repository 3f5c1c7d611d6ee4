--------------------------- MODULE MCRlcSduQueue ---------------------------
(* Instance of RlcSduQueue for TLC: two slots, PDCP SNs 0 and 2 share one. *)
EXTENDS RlcSduQueue

MCPdcpSns == {0, 1, 2}
MCSizes == {1, 2}
=============================================================================
