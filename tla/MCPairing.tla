------------------------------ MODULE MCPairing ------------------------------
(* Small instances of PairWorker.                                          *)
EXTENDS PairWorker

CONSTANTS p1, p2, p3, n1, n2

(* Every pairing is a repair of one node.                                  *)
OneNode == [p \in Pairings |-> n1]

(* The second pairing is for another node.                                 *)
TwoNodes == [p \in Pairings |-> IF p = p2 THEN n2 ELSE n1]
=============================================================================
