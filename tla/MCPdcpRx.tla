------------------------------ MODULE MCPdcpRx ------------------------------
(* Values for the model checker: bearers of both modes, t-Reordering that  *)
(* runs and that is 0, and one of them.                                    *)
EXTENDS PdcpRx

AmFinite == {[mode |-> "am", t_reordering |-> "finite"]}
SomeCfgs == AmFinite \cup
  {[mode |-> "um", t_reordering |-> "finite"],
   [mode |-> "am", t_reordering |-> "ms0"]}
=============================================================================
