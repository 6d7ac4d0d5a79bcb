---------------------------- MODULE MCPtrSession ----------------------------
(***************************************************************************)
(* Three operators with threshold two and three routes, one for each set   *)
(* of two operators; the payments of the routes may coincide, and so may   *)
(* the ports of the operators.  The group is the squares modulo eleven.    *)
(***************************************************************************)
EXTENDS ThresholdElGamal

MCSelections == <<<<1, 2>>, <<2, 3>>, <<1, 3>>>>
=============================================================================
