------------------------------ MODULE Collector ------------------------------
(***************************************************************************)
(* Runtime::collect_garbage: mark_roots fills the mark stack, trace_cell   *)
(* is called for one cell of the stack at a time, and the sweep erases the *)
(* cells that are not marked and clears the marks of the others.  The      *)
(* program does not run during a collection.                               *)
(*                                                                         *)
(* The order of the mark stack decides only in which order cells are       *)
(* traced; the model takes any order.                                      *)
(***************************************************************************)
EXTENDS Heap

VARIABLES
    marked,      \* the cells whose HeapCell::marked is set
    mark_stack,  \* Runtime::mark_stack_
    phase        \* "program" or "mark"

vars == <<heap, pointers, held, marked, mark_stack, phase>>

Init == HeapInit /\ marked = {} /\ mark_stack = {} /\ phase = "program"

Program == phase = "program" /\ Mutate /\ UNCHANGED <<marked, mark_stack, phase>>

\* The cells mark_roots marks, and those trace_cell marks for cell c.
Rooted == {x[2] : x \in {y \in held : y[1] \in Roots}}
Children(c) == {p[3] : p \in {q \in pointers : q[1] = c /\ Follows(q)}}

\* Mutant: mark_cell pushes cells that are marked already.
MarkAgain(S, stack) == marked' = marked \cup S /\ mark_stack' = stack \cup S

\* mark_cell for each cell of S (a marked cell is not pushed again), when the stack has the cells of stack.
MarkCells(S, stack) ==
    /\ marked' = marked \cup S
    /\ mark_stack' = stack \cup (S \ marked)

\* collect_garbage up to its loop.
mark_roots ==
    /\ phase = "program"
    /\ MarkCells(Rooted, {})
    /\ phase' = "mark"
    /\ UNCHANGED heapvars

\* One turn of the loop: a cell is popped and traced.
trace_cell(c) ==
    /\ phase = "mark" /\ c \in mark_stack
    /\ MarkCells(Children(c), mark_stack \ {c})
    /\ UNCHANGED <<heap, pointers, held, phase>>

\* Mutant: remove_if without erase.
SweepNoErase ==
    /\ phase = "mark" /\ mark_stack = {}
    /\ marked' = {} /\ phase' = "program"
    /\ UNCHANGED <<heap, pointers, held, mark_stack>>

\* The end of collect_garbage: unmarked cells go, with the pointers they hold,
\* and the marks of the others are cleared.
Sweep ==
    /\ phase = "mark" /\ mark_stack = {}
    /\ heap' = heap \cap marked
    /\ pointers' = {p \in pointers : p[1] \in heap'}
    /\ marked' = {}
    /\ phase' = "program"
    /\ UNCHANGED <<held, mark_stack>>

collect_garbage == mark_roots \/ (\E c \in Cells : trace_cell(c)) \/ Sweep

Next == Program \/ collect_garbage

Spec == Init /\ [][Next]_vars
\* collect_garbage is a sequential loop: once begun it goes on.
LiveSpec == Spec /\ WF_vars((\E c \in Cells : trace_cell(c)) \/ Sweep)

-----------------------------------------------------------------------------
\* Every variable has its type.
TypeOK ==
    /\ heap \subseteq Cells
    /\ pointers \subseteq Pointers
    /\ held \subseteq Holders \X Cells
    /\ marked \subseteq Cells /\ mark_stack \subseteq Cells
    /\ phase \in {"program", "mark"}

\* Whatever the program can still come to is allocated: every pointer of an
\* allocated cell, and everything a root holds.
NoDangling ==
    /\ \A p \in pointers : p[1] \in heap /\ p[3] \in heap
    /\ \A x \in held : x[1] \in Roots => x[2] \in heap

\* The program and the collector together are the abstract heap: marking
\* changes nothing the program sees, and a collection as a whole is the one step
\* Collect, which frees exactly what is unreachable.
Collected == phase = "mark" /\ phase' = "program" => Collect
CollectsExactly == HeapSpec /\ [][Collected]_vars

\* Every collection comes to an end, also over cyclic structures.
CollectionEnds == phase = "mark" ~> phase = "program"

\* What the realm's fields hold is allocated ("built-in globals and prototype
\* graph are garbage collection roots").
IntrinsicsSurvive == \A x \in held : x[1] \in {"realm", "intrinsic"} => x[2] \in heap
=============================================================================
