--------------------------- MODULE MCSCCDetection ---------------------------
EXTENDS SCCDetection

CONSTANTS n1, n2, n3, n4

\* Every graph over three nodes, self loops included, and every graph that is left
\* when nodes have been merged away.
AllGraphs(nodes) ==
  UNION {{[nodes |-> N, edges |-> E] : E \in SUBSET (N \X N)} : N \in SUBSET nodes}

\* Graphs over four nodes that have a path through all of them: with any edges
\* back along the path, and any that skip one node of it.
Path == {<<n1, n2>>, <<n2, n3>>, <<n3, n4>>}
Back == {<<n2, n1>>, <<n3, n1>>, <<n4, n1>>, <<n3, n2>>, <<n4, n2>>, <<n4, n3>>}
Skip == {<<n1, n3>>, <<n2, n4>>}
PathGraphs == {[nodes |-> Node, edges |-> Path \union E] : E \in SUBSET (Back \union Skip)}

MCGraphs == AllGraphs({n1, n2, n3}) \union PathGraphs
=============================================================================
