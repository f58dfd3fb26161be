------------------------- MODULE MCReceiveRequests -------------------------
(* A bounded instance of ReceiveRequests for TLC. *)
EXTENDS ReceiveRequests

\* The first transaction pays one request, the second pays two addresses.
MCPays == [t \in Txs |-> [a \in Addresses |->
             CASE t = "t1" -> IF a = "a1" THEN 1 ELSE 0
               [] OTHER -> IF a = "a1" THEN 2 ELSE 3]]
=============================================================================
