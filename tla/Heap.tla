-------------------------------- MODULE Heap --------------------------------
(***************************************************************************)
(* The heap of a Runtime as the program sees it: cells, the pointers they  *)
(* hold, the places outside the heap that hold cells, and a collection     *)
(* that frees in one step what the collector's pointers do not reach.      *)
(* Module Collector implements that step.                                  *)
(*                                                                         *)
(* A pointer is a triple <<cell, field, cell>>.  The program works on the  *)
(* cells its virtual machine holds: it loads pointers of such a cell, stores *)
(* one such cell in another, and hands cells to the other holders.  It gets *)
(* at the global object at any time, and at an intrinsic prototype only    *)
(* through pointers.                                                       *)
(***************************************************************************)
EXTENDS FiniteSets, Naturals

CONSTANTS
    Cells,        \* the cells the heap has room for
    KindOf,       \* the HeapKind of each cell
    Global,       \* the realm's global object
    Intrinsic,    \* a prototype object of the realm that is no root
    MaxPointers,  \* bound: pointers stored at a time, beyond the first
    MaxHolds      \* bound: cells held outside the heap at a time

-----------------------------------------------------------------------------
(* What the structures of heap.hpp point to.                               *)

Kinds == {"string", "function", "upvalue", "object", "module_environment",
          "dynamic_environment"}
ValueKinds == {"string", "function", "object"}

\* The pointer fields of each kind of cell, with the kinds they may point to.
\* The fields of a generator's saved frame, and the result and the reactions
\* of a promise, are taken together, and so are target, receiver and arguments
\* of a bound function.  (A generator's saved frame also has the function it
\* came from, which nothing reads.)
HeapFunction ==
    ({"lexical_this", "home_object", "bound", "prototype", "properties", "constants"}
       \X ValueKinds)
      \cup {<<"upvalues", "upvalue">>,
            <<"module_environment", "module_environment">>,
            <<"captured_dynamic_environment", "dynamic_environment">>}
HeapObject ==
    ({"prototype", "boxed_primitive", "promise", "elements", "properties"} \X ValueKinds)
      \cup ({"generator_state"} \X Kinds)
      \cup {<<"mapped_argument_upvalues", "upvalue">>}
HeapUpvalue == {"value"} \X ValueKinds
HeapDynamicEnvironment ==
    ({"binding_object"} \X ValueKinds) \cup {<<"outer", "dynamic_environment">>}
HeapModuleEnvironment ==
    {<<"local_upvalue", "upvalue">>, <<"target_environment", "module_environment">>}

Layout ==
    [string |-> {}, function |-> HeapFunction, object |-> HeapObject,
     upvalue |-> HeapUpvalue, dynamic_environment |-> HeapDynamicEnvironment,
     module_environment |-> HeapModuleEnvironment]

FieldsOf(k) == {x[1] : x \in Layout[k]}
Fields == UNION {FieldsOf(k) : k \in Kinds}

\* The pointers there can be.
Pointers == {p \in Cells \X Fields \X Cells : <<p[2], KindOf[p[3]]>> \in Layout[KindOf[p[1]]]}

\* The fields trace_cell follows in a cell of each kind.
Traced ==
    [string |-> {},
     function |-> {"upvalues", "module_environment", "captured_dynamic_environment",
                   "lexical_this", "home_object", "bound", "prototype", "properties",
                   "constants"},
     upvalue |-> {"value"},
     dynamic_environment |-> {"binding_object", "outer"},
     module_environment |-> {"local_upvalue", "target_environment"},
     object |-> {"prototype", "generator_state", "boxed_primitive",
                 "mapped_argument_upvalues", "promise", "elements", "properties"}]

\* Mutant: trace_cell forgets the saved frame of a generator.
FollowsNoGenerator(p) == p[2] \in Traced[KindOf[p[1]]] \ {"generator_state"}

\* trace_cell marks the target of pointer p when it comes to the cell that
\* holds it.
Follows(p) == p[2] \in Traced[KindOf[p[1]]]

\* What may hold a cell from outside the heap, and of which kinds: the global
\* object as a field of the realm, global bindings, the handles of the host
\* (persistent_roots_ and bytecode_roots_), registered virtual machines
\* (operands, frames, the generator being resumed), module environments and
\* queued jobs; and the prototype objects that are fields of the realm and not
\* visited by mark_roots.
HeldKinds ==
    [realm |-> {"object"}, intrinsic |-> {"object"}, global_binding |-> ValueKinds,
     host_roots |-> ValueKinds, jobs |-> ValueKinds,
     module_environments |-> {"module_environment"}, vm |-> Kinds]
Holders == DOMAIN HeldKinds

\* The holders mark_roots visits.
Roots == Holders \ {"intrinsic"}

ASSUME HeapConstants ==
    /\ IsFiniteSet(Cells)
    /\ KindOf \in [Cells -> Kinds]
    /\ Global \in Cells /\ Intrinsic \in Cells
    /\ KindOf[Global] = "object" /\ KindOf[Intrinsic] = "object"
    /\ MaxPointers \in Nat /\ MaxHolds \in Nat

-----------------------------------------------------------------------------
VARIABLES
    heap,      \* Runtime::heap_: the cells that are allocated
    pointers,  \* the pointers cells hold
    held       \* the cells held outside the heap, each with its holder

heapvars == <<heap, pointers, held>>

\* A new realm, as create_realm and ensure_builtins leave it: a property of its
\* global object, the constructor, leads to the intrinsic prototype; a program
\* may delete it.
HeapInit ==
    /\ heap = {Global, Intrinsic}
    /\ pointers = {<<Global, "properties", Intrinsic>>}
    /\ held = {<<"realm", Global>>, <<"intrinsic", Intrinsic>>}

InVM(c) == <<"vm", c>> \in held
Room == Cardinality(held) < MaxHolds

\* Runtime::make_string, make_object, make_closure and so on.
Allocate(c) ==
    /\ Room /\ c \in Cells \ heap
    /\ heap' = heap \cup {c}
    /\ held' = held \cup {<<"vm", c>>}
    /\ UNCHANGED pointers

\* The cells the running code has at hand; the global object always is one.
AtHand(c) == InVM(c) \/ c = Global

\* A read of a field of a cell.
Load(p) ==
    /\ AtHand(p[1]) /\ Room
    /\ held' = held \cup {<<"vm", p[3]>>}
    /\ UNCHANGED <<heap, pointers>>

\* A write to a field: a property, a closed binding, a captured environment.
Store(p) ==
    /\ AtHand(p[1]) /\ InVM(p[3])
    /\ Cardinality(pointers) <= MaxPointers
    /\ pointers' = pointers \cup {p}
    /\ UNCHANGED <<heap, held>>

\* A deletion, or the value that an assignment replaces.
Clear(p) ==
    /\ AtHand(p[1])
    /\ pointers' = pointers \ {p}
    /\ UNCHANGED <<heap, held>>

\* Runtime::root, a global binding, a queued job, a module environment, ...
Hold(h, c) ==
    /\ InVM(c) /\ Room
    /\ h \in Roots \ {"realm"} /\ KindOf[c] \in HeldKinds[h]
    /\ held' = held \cup {<<h, c>>}
    /\ UNCHANGED <<heap, pointers>>

Release(h, c) ==
    /\ <<h, c>> \in held /\ h \notin {"realm", "intrinsic"}
    /\ held' = held \ {<<h, c>>}
    /\ UNCHANGED <<heap, pointers>>

Mutate ==
    \/ \E c \in Cells : Allocate(c)
    \/ \E p \in pointers : Load(p) \/ Clear(p)
    \/ \E p \in Pointers : Store(p)
    \/ \E h \in Holders, c \in Cells : Hold(h, c) \/ Release(h, c)

-----------------------------------------------------------------------------
\* A set of cells that has what the roots hold, and with a cell what the
\* collector follows from it; the reachable cells are in all such sets.
Closed(S) ==
    /\ \A x \in held : x[1] \in Roots => x[2] \in S
    /\ \A p \in pointers : p[1] \in S /\ Follows(p) => p[3] \in S
Reachable ==
    LET closed == {S \in SUBSET Cells : Closed(S)}
    IN  {c \in Cells : \A S \in closed : c \in S}

\* A collection keeps the cells that are reachable from the roots and frees the
\* others, with the pointers they hold.
Collect ==
    /\ heap' = heap \cap Reachable
    /\ pointers' = {p \in pointers : p[1] \in heap'}
    /\ UNCHANGED held

HeapSpec == HeapInit /\ [][Mutate \/ Collect]_heapvars
=============================================================================
