----------------------------- MODULE MCPipeline -----------------------------
(* Pipeline with payload sizes.                                            *)
EXTENDS Pipeline

\* Every payload is one byte.
UnitSize == [n \in Lines |-> 1]
\* The first record fills a buffer of two bytes, the third is larger than it.
BigThird == [n \in Lines |-> CASE n = 1 -> 2 [] n = 3 -> 3 [] OTHER -> 1]
=============================================================================
