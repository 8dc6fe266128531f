------------------------------ MODULE Bytecode ------------------------------
(***************************************************************************)
(* A compiled chunk as the virtual machine sees it: instructions, the      *)
(* table of exception handlers and the two searches the VM makes in that   *)
(* table (src/include/js/bytecode/chunk.hpp, src/src/vm/vm.cpp).           *)
(*                                                                         *)
(* Every instruction takes one position, so a program counter is an index  *)
(* of the code; the ranges of a handler are half open, [start, end), as in *)
(* the source.  NoTarget stands for no_handler_target.                     *)
(***************************************************************************)
EXTENDS Integers, Sequences, FiniteSets

NoTarget == 0

ExceptionHandler ==
  [try_start : Nat, try_end : Nat, catch_start : Nat, catch_end : Nat,
   finally_start : Nat, finally_end : Nat]

In(pc, start, end) == start <= pc /\ pc < end

InTry(h, pc) == In(pc, h.try_start, h.try_end)

InCatch(h, pc) ==
  /\ h.catch_start # NoTarget /\ h.catch_end # NoTarget
  /\ In(pc, h.catch_start, h.catch_end)

InFinally(h, pc) ==
  /\ h.finally_end # NoTarget
  /\ In(pc, h.finally_start, h.finally_end)

\* The size of the protected region, the measure of "innermost".
Span(h) ==
  (IF h.catch_end # NoTarget THEN h.catch_end ELSE h.try_end) - h.try_start

\* The first of the narrowest handlers in a set of table indices (0: none).
Narrowest(handlers, cands) ==
  IF cands = {} THEN 0
  ELSE CHOOSE i \in cands : \A j \in cands :
         \/ Span(handlers[i]) < Span(handlers[j])
         \/ Span(handlers[i]) = Span(handlers[j]) /\ i <= j

CatchesAt(h, pc) == InTry(h, pc) /\ h.catch_start # NoTarget

\* Mutant: the finalizer is not run for a throw out of the catch clause.
FinalizesBlockThrowOnly(h, pc) ==
  ~CatchesAt(h, pc) /\ h.finally_start # NoTarget /\ InTry(h, pc)

\* A throw at pc runs a finalizer when the handler has no catch clause, or
\* when the throw comes out of the catch clause itself.
FinalizesThrowAt(h, pc) ==
  /\ ~CatchesAt(h, pc)
  /\ h.finally_start # NoTarget
  /\ InTry(h, pc) \/ (~InTry(h, pc) /\ InCatch(h, pc))

find_exception_handler(handlers, pc) ==
  Narrowest(handlers, {i \in DOMAIN handlers :
     CatchesAt(handlers[i], pc) \/ FinalizesThrowAt(handlers[i], pc)})

\* Mutant: a finalizer protects itself as well.
find_finally_handler_self(handlers, pc) ==
  Narrowest(handlers, {i \in DOMAIN handlers :
     /\ handlers[i].finally_start # NoTarget
     /\ \/ InTry(handlers[i], pc) \/ InCatch(handlers[i], pc)
        \/ InFinally(handlers[i], pc)})

find_finally_handler(handlers, pc) ==
  Narrowest(handlers, {i \in DOMAIN handlers :
     /\ handlers[i].finally_start # NoTarget
     /\ InTry(handlers[i], pc) \/ InCatch(handlers[i], pc)})

\* A pending completion is overridden by a new one raised at pc when pc lies
\* in the finalizer that holds it; the first handler with that finally_start
\* is its owner.
Overridden(handlers, finally_start, pc) ==
  \E i \in DOMAIN handlers :
     /\ handlers[i].finally_start = finally_start
     /\ \A j \in DOMAIN handlers :
           handlers[j].finally_start = finally_start => i <= j
     /\ InFinally(handlers[i], pc)

\* discard_overridden_completions pops from the back while the back is
\* overridden: what is left is the prefix that ends with the last survivor.
discard_overridden(handlers, pending, pc) ==
  LET survivors == {k \in DOMAIN pending :
                      ~Overridden(handlers, pending[k].finally_start, pc)}
      last == IF survivors = {} THEN 0
              ELSE CHOOSE k \in survivors : \A l \in survivors : l <= k
  IN  SubSeq(pending, 1, last)

=============================================================================
