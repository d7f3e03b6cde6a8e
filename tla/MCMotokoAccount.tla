--------------------------- MODULE MCMotokoAccount ---------------------------
(***************************************************************************)
(* Two keys, so that two calls can generate one each; two outputs of the   *)
(* first key's address and one of the second's.  The amounts are covered   *)
(* by one output, by both of them, and by none.                            *)
(***************************************************************************)
EXTENDS MotokoAccount

CONSTANTS o1, o2, o3, k1, k2, a1, a2

MCOutPoints == {o1, o2, o3}

MCValue == [o \in MCOutPoints |-> CASE o = o1 -> 5 [] o = o2 -> 5 [] o = o3 -> 9]

MCP2pkhAddress == [k \in {k1, k2} |-> IF k = k1 THEN a1 ELSE a2]

MCPays == [o \in MCOutPoints |-> IF o = o3 THEN a2 ELSE a1]
=============================================================================
