--------------------------- MODULE MCPtrOperator ---------------------------
(***************************************************************************)
(* Three threads serve requests for up to three nonces; the process is     *)
(* killed up to twice.  Threads and texts are only compared for equality.  *)
(***************************************************************************)
EXTENDS PtrOperator, TLC

CONSTANTS a, b

Line(text) == [text |-> text, padded |-> FALSE]
Padded(text) == [text |-> text, padded |-> TRUE]

\* Two nonces that the log gives back, and one that it reads as the second of them.
MCNonces == {<<Line(a)>>, <<Line(b)>>, <<Padded(b), Line(Empty)>>}
=============================================================================
