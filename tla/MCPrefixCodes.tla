---------------------------- MODULE MCPrefixCodes ----------------------------
(* Five symbols with counts up to three: every shape of tree with up to    *)
(* five leaves, every tie, and chains of two or three rebuilds until the   *)
(* table is empty.                                                         *)
EXTENDS PrefixCodes

MCSymbol == 1 .. 5
=============================================================================
