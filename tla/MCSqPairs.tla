----------------------------- MODULE MCSqPairs ------------------------------
(* Keys 1, 2 and 3 in the usual order; two of the pairs share a key.       *)
EXTENDS SqPairs

MCKey == 1 .. 3
MCPair == 1 .. 4
MCKeyOf == <<1, 2, 2, 3>>
MCCompareFunc == [a \in MCKey |-> [b \in MCKey |-> a - b]]
=============================================================================
