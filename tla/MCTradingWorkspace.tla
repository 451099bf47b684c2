------------------------- MODULE MCTradingWorkspace -------------------------
(***************************************************************************)
(* Small instances of TradingWorkspace.                                    *)
(***************************************************************************)
EXTENDS TradingWorkspace

CONSTANTS o1, o2, none
=============================================================================
