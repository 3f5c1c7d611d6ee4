------------------------------ MODULE MCPdcpTx ------------------------------
(* Bearer configurations for checking PdcpTx.                              *)
EXTENDS PdcpTx

AllCfgs == {SRB, AM("finite"), AM("infinity"), UM}
AmFinite == {AM("finite")}
UmFinite == {UM}
=============================================================================
