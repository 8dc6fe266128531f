----------------------------- MODULE MCCollector -----------------------------
(***************************************************************************)
(* The realm's global object, one intrinsic prototype and a function.      *)
(* Three cells give cycles, chains of two pointers, and an object that is  *)
(* reached both ways; CollectorProofs has no bound.                        *)
(***************************************************************************)
EXTENDS Collector

CONSTANTS global, proto, fun, up

MCCells == {global, proto, fun, up}
MCKindOf ==
    [c \in MCCells |-> CASE c = fun -> "function" [] c = up -> "upvalue" [] OTHER -> "object"]
=============================================================================
