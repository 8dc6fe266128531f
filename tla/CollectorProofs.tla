--------------------------- MODULE CollectorProofs ---------------------------
(***************************************************************************)
(* Proofs about module Collector, for every set of cells and every bound:  *)
(* its type invariant, that no reachable cell is ever freed, and that the  *)
(* collection by marking implements the one step of module Heap.           *)
(***************************************************************************)
EXTENDS Collector, TLAPS

\* What holds while marking: the cells traced already have marked children,
\* the roots are marked, and nothing unreachable is.  Outside a collection no
\* mark is left.
Marking ==
    /\ mark_stack \subseteq marked
    /\ Rooted \subseteq marked
    /\ \A c \in marked \ mark_stack : Children(c) \subseteq marked
    /\ marked \subseteq Reachable

Inv ==
    /\ TypeOK
    /\ NoDangling
    /\ <<"realm", Global>> \in held
    /\ phase = "program" => marked = {} /\ mark_stack = {}
    /\ phase = "mark" => Marking

-----------------------------------------------------------------------------
\* trace_cell follows every field that can hold a pointer to a cell.
LEMMA EveryFieldFollowed == \A p \in Pointers : Follows(p)
<1> SUFFICES ASSUME NEW p \in Pointers PROVE Follows(p)
  OBVIOUS
<1>1. p[1] \in Cells /\ <<p[2], KindOf[p[3]]>> \in Layout[KindOf[p[1]]]
  BY DEF Pointers
<1>2. KindOf[p[1]] \in Kinds
  BY <1>1, HeapConstants
<1>3. ASSUME NEW k \in Kinds, NEW f, NEW g, <<f, g>> \in Layout[k] PROVE f \in Traced[k]
  <2>1. CASE k = "string"
    BY <1>3, <2>1 DEF Layout
  <2>2. CASE k = "function"
    BY <1>3, <2>2 DEF Layout, Traced, HeapFunction
  <2>3. CASE k = "upvalue"
    BY <1>3, <2>3 DEF Layout, Traced, HeapUpvalue
  <2>4. CASE k = "object"
    BY <1>3, <2>4 DEF Layout, Traced, HeapObject
  <2>5. CASE k = "module_environment"
    BY <1>3, <2>5 DEF Layout, Traced, HeapModuleEnvironment
  <2>6. CASE k = "dynamic_environment"
    BY <1>3, <2>6 DEF Layout, Traced, HeapDynamicEnvironment
  <2> QED
    BY <2>1, <2>2, <2>3, <2>4, <2>5, <2>6 DEF Kinds
<1> QED
  BY <1>1, <1>2, <1>3 DEF Follows

\* A pointer's two ends are cells.
LEMMA PointerCells == \A p \in Pointers : p[1] \in Cells /\ p[3] \in Cells
  BY DEF Pointers

\* The children of a cell are cells.
LEMMA ChildrenAreCells == TypeOK => \A c : Children(c) \subseteq Cells
  BY PointerCells DEF TypeOK, Children

\* A set is closed if it has the roots and the children of its cells.
LEMMA ClosedSets ==
    \A S : Closed(S) <=> Rooted \subseteq S /\ \A c \in S : Children(c) \subseteq S
<1> TAKE S
<1>1. Rooted \subseteq S <=> \A x \in held : x[1] \in Roots => x[2] \in S
  BY DEF Rooted
<1>2. (\A c \in S : Children(c) \subseteq S)
        <=> \A p \in pointers : p[1] \in S /\ Follows(p) => p[3] \in S
  BY DEF Children
<1> QED
  BY <1>1, <1>2 DEF Closed

\* Reachable is the least closed set: it is closed, and inside every closed set
\* of cells.
LEMMA ReachableLeast ==
    ASSUME TypeOK
    PROVE  /\ Reachable \subseteq Cells
           /\ Closed(Reachable)
           /\ \A S \in SUBSET Cells : Closed(S) => Reachable \subseteq S
<1>1. Reachable \subseteq Cells
  BY DEF Reachable
<1>2. \A S \in SUBSET Cells : Closed(S) => Reachable \subseteq S
  BY DEF Reachable
<1>3. Rooted \subseteq Reachable
  <2>1. Rooted \subseteq Cells
    BY DEF Rooted, TypeOK
  <2>2. \A S \in SUBSET Cells : Closed(S) => Rooted \subseteq S
    BY ClosedSets
  <2> QED
    BY <2>1, <2>2 DEF Reachable
<1>4. ASSUME NEW c \in Reachable PROVE Children(c) \subseteq Reachable
  <2>1. \A S \in SUBSET Cells : Closed(S) => Children(c) \subseteq S
    BY <1>2, ClosedSets
  <2>2. Children(c) \subseteq Cells
    BY ChildrenAreCells
  <2> QED
    BY <2>1, <2>2 DEF Reachable
<1> QED
  BY <1>1, <1>2, <1>3, <1>4, ClosedSets

-----------------------------------------------------------------------------
\* The initial state has the invariant.
LEMMA InitInv == Init => Inv
<1> SUFFICES ASSUME Init PROVE Inv
  OBVIOUS
<1>1. <<Global, "properties", Intrinsic>> \in Pointers
  <2>1. <<"properties", "object">> \in Layout["object"]
    BY DEF Layout, HeapObject, ValueKinds
  <2>2. "object" \in Kinds
    BY DEF Kinds
  <2>3. "properties" \in FieldsOf("object")
    BY <2>1 DEF FieldsOf
  <2>4. "properties" \in Fields
    BY <2>2, <2>3 DEF Fields
  <2> QED
    BY <2>1, <2>4, HeapConstants DEF Pointers
<1>2. {"realm", "intrinsic"} \subseteq Holders
  BY DEF Holders, HeldKinds
<1>3. TypeOK
  BY <1>1, <1>2, HeapConstants DEF Init, HeapInit, TypeOK
<1>4. NoDangling
  BY DEF Init, HeapInit, NoDangling
<1>5. <<"realm", Global>> \in held
  BY DEF Init, HeapInit
<1> QED
  BY <1>3, <1>4, <1>5 DEF Init, Inv

\* A step of the program outside a collection.
LEMMA ProgramInv ==
    ASSUME Inv, Program
    PROVE  Inv'
<1> USE DEF Inv, Program
<1>1. ASSUME NEW c \in Cells, Allocate(c) PROVE TypeOK' /\ NoDangling'
  <2>1. "vm" \in Holders
    BY DEF Holders, HeldKinds
  <2> QED
    BY <1>1, <2>1 DEF Allocate, TypeOK, NoDangling
<1>2. ASSUME NEW p \in pointers, Load(p) PROVE TypeOK' /\ NoDangling'
  <2>1. "vm" \in Holders
    BY DEF Holders, HeldKinds
  <2>2. p[3] \in Cells /\ p[3] \in heap
    BY PointerCells DEF TypeOK, NoDangling
  <2> QED
    BY <1>2, <2>1, <2>2 DEF Load, TypeOK, NoDangling
<1>3. ASSUME NEW p \in pointers, Clear(p) PROVE TypeOK' /\ NoDangling'
  BY <1>3 DEF Clear, TypeOK, NoDangling
<1>4. ASSUME NEW p \in Pointers, Store(p) PROVE TypeOK' /\ NoDangling'
  <2>1. TypeOK'
    BY <1>4 DEF Store, TypeOK
  <2>2. Global \in heap
    <3>1. "realm" \in Roots
      BY DEF Roots, Holders, HeldKinds
    <3> QED
      BY <3>1 DEF NoDangling
  <2>3. "vm" \in Roots
    BY DEF Roots, Holders, HeldKinds
  <2>4. p[1] \in heap /\ p[3] \in heap
    BY <1>4, <2>2, <2>3 DEF Store, AtHand, InVM, NoDangling
  <2> QED
    BY <1>4, <2>1, <2>4 DEF Store, NoDangling
<1>5. ASSUME NEW h \in Holders, NEW c \in Cells, Hold(h, c) PROVE TypeOK' /\ NoDangling'
  <2>1. "vm" \in Roots
    BY DEF Roots, Holders, HeldKinds
  <2>2. c \in heap
    BY <1>5, <2>1 DEF Hold, InVM, NoDangling
  <2> QED
    BY <1>5, <2>2 DEF Hold, TypeOK, NoDangling
<1>6. ASSUME NEW h \in Holders, NEW c \in Cells, Release(h, c) PROVE TypeOK' /\ NoDangling'
  BY <1>6 DEF Release, TypeOK, NoDangling
<1>7. TypeOK' /\ NoDangling'
  BY <1>1, <1>2, <1>3, <1>4, <1>5, <1>6 DEF Mutate
<1>8. (<<"realm", Global>> \in held)'
  BY DEF Mutate, Allocate, Load, Clear, Store, Hold, Release
<1> QED
  BY <1>7, <1>8

\* mark_roots begins a collection: the roots are reachable.
LEMMA RootsInv ==
    ASSUME Inv, mark_roots
    PROVE  Inv'
<1> USE DEF Inv, mark_roots, MarkCells
<1>1. Rooted' = Rooted /\ Reachable' = Reachable
  BY DEF heapvars, Rooted, Reachable, Closed
<1>2. TypeOK'
  BY DEF TypeOK, heapvars, Rooted
<1>3. NoDangling' /\ (<<"realm", Global>> \in held)'
  BY DEF NoDangling, heapvars
<1>4. Rooted \subseteq Reachable
  BY ReachableLeast, ClosedSets
<1>5. Marking'
  BY <1>1, <1>4 DEF Marking
<1> QED
  BY <1>2, <1>3, <1>5

\* trace_cell marks the children of a marked cell, which are reachable too.
LEMMA TraceInv ==
    ASSUME Inv, NEW c \in Cells, trace_cell(c)
    PROVE  Inv'
<1> USE DEF Inv, trace_cell, MarkCells
<1>1. /\ Rooted' = Rooted /\ Reachable' = Reachable
      /\ \A d : Children(d)' = Children(d)
  BY DEF Rooted, Reachable, Closed, Children
<1>2. TypeOK'
  BY ChildrenAreCells DEF TypeOK
<1>3. NoDangling' /\ (<<"realm", Global>> \in held)'
  BY DEF NoDangling
<1>4. Children(c) \subseteq Reachable
  BY ReachableLeast, ClosedSets DEF Marking
<1>5. ASSUME NEW d \in marked' \ mark_stack' PROVE Children(d) \subseteq marked'
  <2>1. CASE d = c
    BY <2>1
  <2>2. CASE d # c
    BY <1>5, <2>2 DEF Marking
  <2> QED
    BY <2>1, <2>2
<1>6. Marking'
  BY <1>1, <1>4, <1>5 DEF Marking
<1> QED
  BY <1>2, <1>3, <1>6

\* When the mark stack is empty the marked cells are the reachable ones.
LEMMA MarkedIsReachable ==
    ASSUME Inv, phase = "mark", mark_stack = {}
    PROVE  marked = Reachable
<1>1. Closed(marked) /\ marked \subseteq Reachable /\ marked \subseteq Cells
  BY ClosedSets DEF Inv, Marking, TypeOK
<1> QED
  BY <1>1, ReachableLeast DEF Inv

\* The sweep frees no cell a root or a cell that stays points to.
LEMMA SweepInv ==
    ASSUME Inv, Sweep
    PROVE  Inv'
<1> USE DEF Inv, Sweep
<1>1. TypeOK' /\ (<<"realm", Global>> \in held)'
  BY DEF TypeOK
<1>2. ASSUME NEW p \in pointers' PROVE p[1] \in heap' /\ p[3] \in heap'
  <2>1. p \in pointers /\ p[1] \in heap /\ p[1] \in marked /\ p[3] \in heap
    BY <1>2 DEF NoDangling
  <2>2. p[3] \in Children(p[1])
    BY <2>1, EveryFieldFollowed DEF TypeOK, Children
  <2>3. p[3] \in marked
    BY <2>1, <2>2 DEF Marking
  <2> QED
    BY <2>1, <2>3
<1>3. ASSUME NEW x \in held', x[1] \in Roots PROVE x[2] \in heap'
  <2>1. x \in Holders \X Cells /\ x[2] \in heap
    BY <1>3 DEF TypeOK, NoDangling
  <2>2. x = <<x[1], x[2]>> /\ x[2] \in Cells
    BY <2>1
  <2>3. x[2] \in Rooted
    BY <1>3, <2>2 DEF Rooted
  <2> QED
    BY <2>1, <2>3 DEF Marking
<1>4. NoDangling'
  BY <1>2, <1>3 DEF NoDangling
<1> QED
  BY <1>1, <1>4

\* Every step keeps the invariant.
LEMMA NextInv == Inv /\ [Next]_vars => Inv'
<1> SUFFICES ASSUME Inv, [Next]_vars PROVE Inv'
  OBVIOUS
<1>1. CASE Program
  BY <1>1, ProgramInv
<1>2. CASE mark_roots
  BY <1>2, RootsInv
<1>3. ASSUME NEW c \in Cells, trace_cell(c) PROVE Inv'
  BY <1>3, TraceInv
<1>4. CASE Sweep
  BY <1>4, SweepInv
<1>5. CASE UNCHANGED vars
  BY <1>5 DEF vars, Inv, TypeOK, NoDangling, Marking, Rooted, Reachable, Closed, Children
<1> QED
  BY <1>1, <1>2, <1>3, <1>4, <1>5 DEF Next, collect_garbage

\* The invariant holds in every reachable state.
LEMMA InvHolds == Spec => []Inv
<1>1. Init => Inv
  BY InitInv
<1>2. Inv /\ [Next]_vars => Inv'
  BY NextInv
<1> QED
  BY <1>1, <1>2, PTL DEF Spec

-----------------------------------------------------------------------------
\* The type invariant of the heap and of the collector (Runtime::heap_,
\* mark_stack_ and the marks), for every set of cells.
THEOREM TypesHold == Spec => []TypeOK
<1>1. Inv => TypeOK
  BY DEF Inv
<1> QED
  BY <1>1, InvHolds, PTL

\* collect_garbage frees no cell that a root or an allocated cell points to,
\* whatever the program does between collections.
THEOREM NothingDangles == Spec => []NoDangling
<1>1. Inv => NoDangling
  BY DEF Inv
<1> QED
  BY <1>1, InvHolds, PTL

\* mark_roots, trace_cell and the sweep implement the collection in one step:
\* collect_garbage frees exactly the cells that are not reachable.
THEOREM CollectionIsExact == Spec => CollectsExactly
<1>1. Init => HeapInit
  BY DEF Init
<1>2. ASSUME Inv, Sweep PROVE Collect
  <2>1. marked = Reachable
    BY <1>2, MarkedIsReachable DEF Sweep
  <2> QED
    BY <1>2, <2>1 DEF Sweep, Collect
<1>3. ASSUME Inv, [Next]_vars PROVE [Mutate \/ Collect]_heapvars
  <2>1. CASE Program
    BY <2>1 DEF Program
  <2>2. CASE mark_roots
    BY <2>2 DEF mark_roots
  <2>3. ASSUME NEW c \in Cells, trace_cell(c) PROVE UNCHANGED heapvars
    BY <2>3 DEF trace_cell, heapvars
  <2>4. CASE Sweep
    BY <1>2, <1>3, <2>4
  <2>5. CASE UNCHANGED vars
    BY <2>5 DEF vars, heapvars
  <2> QED
    BY <1>3, <2>1, <2>2, <2>3, <2>4, <2>5 DEF Next, collect_garbage
<1>4. ASSUME Inv, [Next]_vars PROVE [Collected]_vars
  <2>1. CASE Sweep
    BY <1>2, <1>4, <2>1 DEF Collected
  <2>2. CASE ~Sweep
    BY <1>4, <2>2 DEF Next, collect_garbage, Program, mark_roots, trace_cell, Collected
  <2> QED
    BY <2>1, <2>2
<1> QED
  BY <1>1, <1>3, <1>4, InvHolds, PTL DEF Spec, CollectsExactly, HeapSpec
=============================================================================
