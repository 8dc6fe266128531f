------------------------------ MODULE Objects ------------------------------
(***************************************************************************)
(* The property tables of the object model (src/src/runtime/context.cpp):  *)
(* own descriptors, [[DefineOwnProperty]], [[Delete]], [[Set]] along the   *)
(* prototype chain, extensibility, prototypes, and the four exotic shapes  *)
(* that keep part of their properties outside the table: arrays (dense     *)
(* elements and a length), mapped arguments objects (values that live in a *)
(* parameter of the caller's frame), String wrappers and functions.        *)
(*                                                                         *)
(* A PropertyDescriptor with its optional fields is a record over any      *)
(* subset of the six field names, so the "if (descriptor.f)" tests of the  *)
(* code are tests on DOMAIN.  A property key is its text; IndexNames lists *)
(* the texts of the array indices 0, 1, ... in order.                      *)
(***************************************************************************)
EXTENDS Integers, Sequences, FiniteSets, SequencesExt, FiniteSetsExt, TLC

CONSTANTS
    Objects,        \* heap cells
    Keys,           \* property keys
    IndexNames,     \* the texts of the array indices, in numeric order
    Symbols,        \* the property keys that are symbols
    Functions,      \* callable values
    Undefined, Null,
    Hole,           \* an empty slot of a dense element vector
    Parameters,     \* captured parameters that arguments objects map
    StringUnits,    \* the code units of the boxed string
    FunctionLength, FunctionName,
    MaxLength,      \* largest array length (2^32 - 1 in the code)
    DenseReach,     \* how far past the dense vector an index may grow it (1024)
    DenseLimit,     \* indices from here on are never dense (2^20)
    MaxNesting,     \* bound on getters running inside array_pop
    InitialHeaps,   \* the heaps a run starts from
    Definitions,    \* <<object, key, descriptor>> a script may define
    Writes,         \* <<object, key, value, receiver>> a script may write
    Deletions,      \* <<object, key>> a script may delete
    Reparentings,   \* <<object, prototype>> a script may set
    Sealable,       \* objects a script may make non-extensible
    Pushed          \* values a script may push or give a parameter

ASSUME BoundsAssumption ==
    /\ MaxLength \in Nat /\ DenseReach \in Nat /\ DenseLimit \in Nat
    /\ MaxNesting \in Nat
    /\ Len(IndexNames) <= MaxLength

VARIABLES
    heap,           \* Objects -> object record
    parameters,     \* the values behind the mapped arguments
    popping         \* array_pop calls whose getter is running, innermost last

vars == <<heap, parameters, popping>>

-----------------------------------------------------------------------------
(* Descriptors *)

DataFields == {"value", "writable"}
AccessorFields == {"get", "set"}

Fields == DataFields \cup AccessorFields \cup {"enumerable", "configurable"}

Flag(d, f) == f \in DOMAIN d /\ d[f]

\* The fields of d where it has them, those of base elsewhere.
Overlay(d, base) ==
    [f \in DOMAIN d \cup DOMAIN base |-> IF f \in DOMAIN d THEN d[f] ELSE base[f]]

\* The elements of s that are in S, in their order.
Selected(s, S) ==
    LET upto[n \in 0..Len(s)] ==
            IF n = 0 THEN <<>>
            ELSE IF s[n] \in S THEN Append(upto[n - 1], s[n]) ELSE upto[n - 1]
    IN upto[Len(s)]

With(table, k, v) ==
    [x \in DOMAIN table \cup {k} |-> IF x = k THEN v ELSE table[x]]

is_data_descriptor(d) == DOMAIN d \cap DataFields # {}
is_accessor_descriptor(d) == DOMAIN d \cap AccessorFields # {}
is_generic_descriptor(d) == ~is_data_descriptor(d) /\ ~is_accessor_descriptor(d)

data(v, w, e, c) ==
    [value |-> v, writable |-> w, enumerable |-> e, configurable |-> c]

complete_descriptor(d, accessor) ==
    [f \in (IF accessor THEN AccessorFields ELSE DataFields)
             \cup {"enumerable", "configurable"} |->
        IF f \in DOMAIN d THEN d[f]
        ELSE IF f \in {"value", "get", "set"} THEN Undefined ELSE FALSE]

Malformed(d) ==
    \/ is_data_descriptor(d) /\ is_accessor_descriptor(d)
    \/ \E f \in DOMAIN d \cap AccessorFields : d[f] \notin Functions \cup {Undefined}

dense_compatible_descriptor(d) ==
    /\ ~is_accessor_descriptor(d)
    /\ "value" \in DOMAIN d
    /\ Flag(d, "writable") /\ Flag(d, "enumerable") /\ Flag(d, "configurable")

-----------------------------------------------------------------------------
(* Own properties *)

is_index(k) == k \in Range(IndexNames)
canonical_array_index(k) == (CHOOSE i \in DOMAIN IndexNames : IndexNames[i] = k) - 1

InTable(obj, k) == k \in DOMAIN obj.properties

string_exotic_property(obj, k) ==
    /\ obj.kind = "string"
    /\ k = "length" \/ (is_index(k) /\ canonical_array_index(k) < Len(StringUnits))

is_dense(obj, k) ==
    /\ obj.kind = "array" /\ is_index(k)
    /\ canonical_array_index(k) < Len(obj.elements)
    /\ obj.elements[canonical_array_index(k) + 1] # Hole

mapped_argument_upvalue(obj, k) ==
    IF /\ obj.kind = "arguments" /\ is_index(k)
       /\ canonical_array_index(k) < Len(obj.mapped)
    THEN obj.mapped[canonical_array_index(k) + 1] ELSE Null

\* Keys whose property an exotic object answers for without a table entry.
virtual_descriptor(obj, k) ==
    CASE obj.kind = "string" /\ k = "length" ->
            data(Len(StringUnits), FALSE, FALSE, FALSE)
      [] obj.kind = "string" /\ k # "length" ->
            data(StringUnits[canonical_array_index(k) + 1], FALSE, TRUE, FALSE)
      [] obj.kind = "array" /\ k = "length" ->
            data(obj.array_length, obj.array_length_writable, FALSE, FALSE)
      [] obj.kind = "array" /\ k # "length" ->
            data(obj.elements[canonical_array_index(k) + 1], TRUE, TRUE, TRUE)
      [] obj.kind = "function" ->
            data(IF k = "length" THEN FunctionLength ELSE FunctionName, FALSE, FALSE, TRUE)

is_virtual(obj, k) ==
    \/ string_exotic_property(obj, k)
    \/ obj.kind = "array" /\ (k = "length" \/ is_dense(obj, k))
    \/ obj.kind = "function" /\ k \in {"length", "name"}

has_own(obj, k) == InTable(obj, k) \/ is_virtual(obj, k)

get_own_property_descriptor(obj, par, k) ==
    LET up == mapped_argument_upvalue(obj, k)
    IN IF ~InTable(obj, k) THEN virtual_descriptor(obj, k)
       ELSE IF up = Null THEN obj.properties[k]
       ELSE With(obj.properties[k], "value", par[up])

-----------------------------------------------------------------------------
(* [[DefineOwnProperty]].  An outcome is the object, the parameters and the *)
(* Boolean the caller gets, or "error" for an Error result.                 *)

Outcome(obj, par, result) == [object |-> obj, parameters |-> par, result |-> result]

AddToTable(obj, k, d) ==
    [obj EXCEPT !.properties = With(@, k, d), !.property_order = Append(@, k)]

DropFromTable(obj, ks) ==
    [obj EXCEPT !.properties = [k \in DOMAIN @ \ ks |-> @[k]],
                !.property_order = Selected(@, Range(@) \ ks)]

string_accepts(obj, k, d) ==
    LET current == virtual_descriptor(obj, k)
    IN /\ ~Flag(d, "configurable")
       /\ "enumerable" \in DOMAIN d => d.enumerable = current.enumerable
       /\ ~is_accessor_descriptor(d)
       /\ ~Flag(d, "writable")
       /\ "value" \in DOMAIN d => d.value = current.value

\* ArraySetLength: indexed properties go from the end, a non-configurable one
\* stops the shrinking just above itself.
shrink(obj, new_length) ==
    LET old == obj.array_length
        within(k, low) == /\ is_index(k) /\ canonical_array_index(k) >= low
                          /\ canonical_array_index(k) < old
        blockers == { k \in Range(obj.property_order) :
                        /\ within(k, new_length) /\ InTable(obj, k)
                        /\ ~obj.properties[k].configurable }
        target == Max({new_length} \cup { canonical_array_index(k) + 1 : k \in blockers })
        erased == { k \in DOMAIN obj.properties :
                        within(k, target) /\ obj.properties[k].configurable }
    IN [object |-> [DropFromTable(obj, erased) EXCEPT
                        !.elements = IF Len(@) > target THEN SubSeq(@, 1, target) ELSE @,
                        !.array_length = target],
        complete |-> blockers = {}]

define_array_length(obj, par, d) ==
    LET locks == "writable" \in DOMAIN d /\ ~d.writable
        Lock(o) == [o EXCEPT !.array_length_writable = @ /\ ~locks]
        new == d.value
        cut == shrink(obj, new)
    IN IF \/ is_accessor_descriptor(d)
          \/ Flag(d, "enumerable") \/ Flag(d, "configurable")
          \/ Flag(d, "writable") /\ ~obj.array_length_writable
       THEN Outcome(obj, par, FALSE)
       ELSE IF "value" \notin DOMAIN d THEN Outcome(Lock(obj), par, TRUE)
       ELSE IF new \notin 0..MaxLength THEN Outcome(obj, par, "error")
       ELSE IF new # obj.array_length /\ ~obj.array_length_writable
            THEN Outcome(obj, par, FALSE)
       ELSE IF new >= obj.array_length
            THEN Outcome(Lock([obj EXCEPT !.array_length = new]), par, TRUE)
       ELSE Outcome(Lock(cut.object), par, cut.complete)

PlaceDense(obj, index, v) ==
    [obj EXCEPT !.elements =
        [i \in 1..Max({Len(@), index + 1}) |->
            IF i = index + 1 THEN v ELSE IF i <= Len(@) THEN @[i] ELSE Hole]]

\* Mutant of create_array_element: a locked length does not stop growth.
create_past_locked_length(obj, par, k, d) ==
    LET index == canonical_array_index(k)
    IN IF ~obj.extensible THEN Outcome(obj, par, FALSE)
       ELSE Outcome([AddToTable(obj, k, complete_descriptor(d, is_accessor_descriptor(d)))
                       EXCEPT !.array_length = Max({@, index + 1})], par, TRUE)

create_array_element(obj, par, k, d) ==
    LET index == canonical_array_index(k)
        keep_dense == /\ dense_compatible_descriptor(d)
                      /\ index <= Len(obj.elements) + DenseReach
                      /\ index < DenseLimit
        placed == IF keep_dense THEN PlaceDense(obj, index, d.value)
                  ELSE AddToTable(obj, k, complete_descriptor(d, is_accessor_descriptor(d)))
    IN IF ~obj.extensible \/ (index >= obj.array_length /\ ~obj.array_length_writable)
       THEN Outcome(obj, par, FALSE)
       ELSE Outcome([placed EXCEPT !.array_length = Max({@, index + 1})], par, TRUE)

\* Mutant of spill: the dense slot keeps its value.
spill_keeps_slot(obj, k) == AddToTable(obj, k, virtual_descriptor(obj, k))

\* A dense element that needs attributes of its own moves to the table.
spill(obj, k) ==
    [AddToTable(obj, k, virtual_descriptor(obj, k)) EXCEPT
        !.elements[canonical_array_index(k) + 1] = Hole]

\* Mutant of refuses: a read-only value may be redefined.
refuses_unless_value(current, d) ==
    LET fixed == ~Flag(current, "configurable")
    IN \/ fixed /\ Flag(d, "configurable")
       \/ fixed /\ "enumerable" \in DOMAIN d /\ d.enumerable # current.enumerable
       \/ /\ fixed /\ ~is_generic_descriptor(d)
          /\ is_accessor_descriptor(current) # is_accessor_descriptor(d)

\* The conditions under which an existing property refuses a descriptor.
refuses(current, d) ==
    LET fixed == ~Flag(current, "configurable")
        accessor == is_accessor_descriptor(current)
    IN \/ /\ fixed
          /\ \/ Flag(d, "configurable")
             \/ "enumerable" \in DOMAIN d /\ d.enumerable # current.enumerable
       \/ ~is_generic_descriptor(d) /\ accessor # is_accessor_descriptor(d) /\ fixed
       \/ /\ ~accessor /\ is_data_descriptor(d) /\ fixed /\ ~Flag(current, "writable")
          /\ \/ Flag(d, "writable")
             \/ "value" \in DOMAIN d /\ d.value # current.value
       \/ /\ accessor /\ is_accessor_descriptor(d) /\ fixed
          /\ \E f \in AccessorFields \cap DOMAIN d : d[f] # current[f]

\* Mutant of merge_descriptor: a change of kind keeps the old kind's fields.
merge_keeps_fields(current, d) == Overlay(d, current)

\* A change of kind starts again from the defaults of the new kind.
merge_descriptor(current, d) ==
    LET converts == /\ ~is_generic_descriptor(d)
                    /\ is_accessor_descriptor(current) # is_accessor_descriptor(d)
        base == IF converts THEN complete_descriptor(<<>>, is_accessor_descriptor(d)) ELSE current
        merged == Overlay(d, base)
    IN complete_descriptor(merged, is_accessor_descriptor(merged))

validate_and_apply(obj, par, k, d) ==
    LET current == get_own_property_descriptor(obj, par, k)
        up == mapped_argument_upvalue(obj, k)
        unmaps == \/ is_accessor_descriptor(d)
                  \/ "writable" \in DOMAIN d /\ ~d.writable
        stored == [obj EXCEPT !.properties[k] = merge_descriptor(current, d)]
    IN IF ~InTable(obj, k) THEN
            IF obj.extensible
            THEN Outcome(AddToTable(obj, k, complete_descriptor(d, is_accessor_descriptor(d))),
                         par, TRUE)
            ELSE Outcome(obj, par, FALSE)
       ELSE IF DOMAIN d = {} THEN Outcome(obj, par, TRUE)
       ELSE IF refuses(current, d) THEN Outcome(obj, par, FALSE)
       ELSE IF up = Null THEN Outcome(stored, par, TRUE)
       ELSE Outcome(IF unmaps
                    THEN [stored EXCEPT !.mapped[canonical_array_index(k) + 1] = Null]
                    ELSE stored,
                    IF "value" \in DOMAIN d THEN [par EXCEPT ![up] = d.value] ELSE par,
                    TRUE)

define_own_property(obj, par, k, d) ==
    LET dense == is_dense(obj, k) /\ ~InTable(obj, k)
    IN IF Malformed(d) THEN Outcome(obj, par, "error")
       ELSE IF string_exotic_property(obj, k) THEN Outcome(obj, par, string_accepts(obj, k, d))
       ELSE IF obj.kind = "array" /\ k = "length" THEN define_array_length(obj, par, d)
       ELSE IF obj.kind = "array" /\ is_index(k) /\ ~dense /\ ~InTable(obj, k)
            THEN create_array_element(obj, par, k, d)
       ELSE IF dense /\ dense_compatible_descriptor(d)
            THEN Outcome(PlaceDense(obj, canonical_array_index(k), d.value), par, TRUE)
       ELSE validate_and_apply(IF dense THEN spill(obj, k) ELSE obj, par, k, d)

-----------------------------------------------------------------------------
(* [[Delete]] *)

\* Mutant of delete_property: a deleted argument stays mapped.
delete_keeps_mapping(obj, par, k) ==
    IF InTable(obj, k) /\ obj.properties[k].configurable
    THEN Outcome(DropFromTable(obj, {k}), par, TRUE)
    ELSE Outcome(obj, par, ~has_own(obj, k))

delete_property(obj, par, k) ==
    LET index == canonical_array_index(k)
    IN IF string_exotic_property(obj, k) \/ (obj.kind = "array" /\ k = "length")
       THEN Outcome(obj, par, FALSE)
       ELSE IF InTable(obj, k) THEN
            IF ~obj.properties[k].configurable THEN Outcome(obj, par, FALSE)
            ELSE Outcome(IF mapped_argument_upvalue(obj, k) # Null
                         THEN [DropFromTable(obj, {k}) EXCEPT !.mapped[index + 1] = Null]
                         ELSE DropFromTable(obj, {k}),
                         par, TRUE)
       ELSE IF is_dense(obj, k)
            THEN Outcome([obj EXCEPT !.elements[index + 1] = Hole], par, TRUE)
       ELSE Outcome(obj, par, TRUE)

-----------------------------------------------------------------------------
(* Enumeration *)

Indices == Range(IndexNames)

\* std::sort of a list of indices.
ByIndex(s) ==
    LET Ascends(p) == \A i, j \in 1..Len(s) :
            i < j => canonical_array_index(s[p[i]]) <= canonical_array_index(s[p[j]])
        p == CHOOSE q \in [1..Len(s) -> 1..Len(s)] : IsInjective(q) /\ Ascends(q)
    IN [i \in 1..Len(s) |-> s[p[i]]]

\* Mutant of own_property_keys: the dense elements are forgotten.
keys_of_table(obj) ==
    ByIndex(Selected(obj.property_order, Indices))
      \o (IF obj.kind \in {"array", "string"} THEN <<"length">> ELSE <<>>)
      \o Selected(obj.property_order, Keys \ Indices)

\* (The indices in the table of an array come in the order of a hash table;
\* they are sorted.)
own_property_keys(obj) ==
    LET order == obj.property_order
        dense == Selected(IndexNames, {k \in Indices : is_dense(obj, k)})
        tabled == Selected(IndexNames, DOMAIN obj.properties)
    IN CASE obj.kind = "string" ->
                SubSeq(IndexNames, 1, Len(StringUnits)) \o <<"length">>
                  \o Selected(order, {k \in Keys : ~string_exotic_property(obj, k)})
         [] obj.kind = "array" ->
                ByIndex(dense \o tabled) \o <<"length">> \o Selected(order, Keys \ Indices)
         [] OTHER ->
                ByIndex(Selected(order, Indices))
                  \o Selected(order, Keys \ (Indices \cup Symbols))
                  \o Selected(order, Symbols)

-----------------------------------------------------------------------------
(* Prototype chains *)

\* prototype_walk(h, o)[n] is the object n links above o, or Null.
prototype_walk(h, o) ==
    LET at[n \in 0..Cardinality(Objects)] ==
            IF n = 0 THEN o
            ELSE IF at[n - 1] = Null THEN Null ELSE h[at[n - 1]].prototype
    IN at

\* The objects of a chain, in the order get, set and has visit them, that
\* have the property; the walk stops at the first.
holder(h, o, k) ==
    LET walk == prototype_walk(h, o)
        hits == { n \in DOMAIN walk : walk[n] # Null /\ has_own(h[walk[n]], k) }
    IN IF hits = {} THEN Null ELSE walk[Min(hits)]

\* The descriptor [[Get]] and [[Set]] find for k on o.
found_descriptor(h, par, o, k) ==
    LET from == holder(h, o, k)
    IN IF from = Null THEN data(Undefined, TRUE, TRUE, TRUE)
       ELSE get_own_property_descriptor(h[from], par, k)

-----------------------------------------------------------------------------
(* New objects *)

object(kind, parent) ==
    [kind |-> kind, properties |-> <<>>, property_order |-> <<>>, elements |-> <<>>,
     array_length |-> 0, array_length_writable |-> TRUE, extensible |-> TRUE,
     prototype |-> parent, mapped |-> <<>>]

\* The arguments object of a sloppy call: argument i is tied to parameter
\* tied[i], or to none (Null) when no parameter or a later one of the same name
\* takes it.  The callee and iterator properties are left out.
arguments_object(parent, given, tied) ==
    LET names == SubSeq(IndexNames, 1, Len(given))
    IN [object("arguments", parent) EXCEPT
          !.properties =
              [k \in Range(names) \cup {"length"} |->
                  IF k = "length" THEN data(Len(given), TRUE, FALSE, TRUE)
                  ELSE data(given[canonical_array_index(k) + 1], TRUE, TRUE, TRUE)],
          !.property_order = Append(names, "length"),
          !.mapped = tied]

-----------------------------------------------------------------------------
(* What the constructors of objects and the callers of the operations provide *)

ObjectFields ==
    {"kind", "properties", "property_order", "elements", "array_length",
     "array_length_writable", "extensible", "prototype", "mapped"}

IsDescriptor(d) ==
    /\ DOMAIN d \subseteq Fields
    /\ d = [f \in DOMAIN d |-> d[f]]
    /\ \A f \in DOMAIN d \ {"value", "get", "set"} : d[f] \in BOOLEAN

ObjectOK(obj) ==
    /\ DOMAIN obj = ObjectFields
    /\ obj.prototype \in Objects \cup {Null}
    /\ obj.extensible \in BOOLEAN /\ obj.array_length_writable \in BOOLEAN
    /\ obj.array_length \in 0..MaxLength
    /\ DOMAIN obj.properties \subseteq Keys
    /\ \A k \in DOMAIN obj.properties :
          LET p == obj.properties[k]
          IN IsDescriptor(p) /\ p = complete_descriptor(p, is_accessor_descriptor(p))
    /\ obj.mapped \in Seq(Parameters \cup {Null})
    /\ obj.mapped # <<>> => obj.kind = "arguments"
    /\ obj.elements \in Seq(Range(obj.elements))
    /\ obj.elements # <<>> => obj.kind = "array"
    /\ obj.kind = "array" => ~InTable(obj, "length")

MappedWritable(obj) ==
    \A k \in Keys :
        mapped_argument_upvalue(obj, k) # Null =>
            InTable(obj, k) /\ Flag(obj.properties[k], "writable")

\* Following prototypes leaves every set of objects, so it ends at null.
Grounded(h) ==
    \A S \in SUBSET Objects : S # {} => \E o \in S : h[o].prototype \notin S

\* The insertion order lists the keys of the table once, an index is either
\* dense or in the table, every element is below the length, the units of a
\* string are not in the table, and a parameter is behind one index.
TableAgrees(obj) ==
    /\ obj.property_order \in Seq(DOMAIN obj.properties)
    /\ Range(obj.property_order) = DOMAIN obj.properties
    /\ IsInjective(obj.property_order)
    /\ \A k \in Keys : string_exotic_property(obj, k) => ~InTable(obj, k)
    /\ \A j, k \in Keys :
          mapped_argument_upvalue(obj, j) = mapped_argument_upvalue(obj, k) /\ j # k
            => mapped_argument_upvalue(obj, k) = Null
    /\ obj.kind = "array" =>
         \A k \in Keys : is_index(k) =>
            /\ ~(InTable(obj, k) /\ is_dense(obj, k))
            /\ has_own(obj, k) => canonical_array_index(k) < obj.array_length

ASSUME KeysAssumption ==
    /\ IndexNames \in Seq(Keys) /\ IsInjective(IndexNames)
    /\ "length" \in Keys \ Range(IndexNames)
    /\ Symbols \cap Range(IndexNames) = {}
    /\ StringUnits \in Seq(Range(StringUnits)) /\ Len(StringUnits) <= Len(IndexNames)
    /\ Null \notin Objects \cup Parameters

ASSUME HeapsAssumption ==
    \A h \in InitialHeaps :
        /\ h = [o \in Objects |-> h[o]]
        /\ \A o \in Objects : ObjectOK(h[o]) /\ MappedWritable(h[o]) /\ TableAgrees(h[o])
        /\ Grounded(h)

ASSUME InputsAssumption ==
    /\ \A t \in Definitions :
          /\ t[1] \in Objects /\ t[2] \in Keys /\ IsDescriptor(t[3])
          /\ "value" \in DOMAIN t[3] => t[3].value # Hole
    /\ \A t \in Writes : t[1] \in Objects /\ t[2] \in Keys /\ t[4] \in Objects
    /\ \A t \in Deletions : t[1] \in Objects /\ t[2] \in Keys
    /\ \A t \in Reparentings : t[1] \in Objects /\ t[2] \in Objects \cup {Null}
    /\ Sealable \subseteq Objects

-----------------------------------------------------------------------------
(* Actions *)

Init ==
    /\ heap \in InitialHeaps
    /\ parameters \in [Parameters -> {Undefined}]
    /\ popping = <<>>

\* An operation on one object ends with this outcome.
Commit(o, outcome) ==
    /\ heap' = [heap EXCEPT ![o] = outcome.object]
    /\ parameters' = outcome.parameters

DefineOwnProperty(o, k, d) ==
    /\ Commit(o, define_own_property(heap[o], parameters, k, d))
    /\ UNCHANGED popping

set_own_descriptor(obj, k, v) ==
    IF has_own(obj, k) THEN [value |-> v] ELSE data(v, TRUE, TRUE, TRUE)

SetOwnProperty(o, k, v) ==
    /\ Commit(o, define_own_property(heap[o], parameters, k, set_own_descriptor(heap[o], k, v)))
    /\ UNCHANGED popping

\* [[Set]] that ends at a data property, or at no property: the receiver is
\* updated or extended, unless a descriptor on the way forbids it.
SetData(o, k, v, receiver) ==
    LET found == found_descriptor(heap, parameters, o, k)
        target == heap[receiver]
        own == get_own_property_descriptor(target, parameters, k)
    IN /\ ~is_accessor_descriptor(found)
       /\ Flag(found, "writable")
       /\ has_own(target, k) => ~is_accessor_descriptor(own) /\ Flag(own, "writable")
       /\ Commit(receiver,
            define_own_property(target, parameters, k, set_own_descriptor(target, k, v)))
       /\ UNCHANGED popping

DeleteProperty(o, k) ==
    /\ Commit(o, delete_property(heap[o], parameters, k))
    /\ UNCHANGED popping

PreventExtensions(o) ==
    /\ heap' = [heap EXCEPT ![o].extensible = FALSE]
    /\ UNCHANGED <<parameters, popping>>

\* Mutant of creates_cycle: only the immediate prototype is compared.
is_own_parent(h, o, p) == p = o

\* The objects that the loop of set_prototype visits from p: those in every set
\* that contains p and the prototypes of its members.  (The loop also refuses a
\* chain that has a cycle already, which ChainsEnd excludes.)
chain(h, p) ==
    { x \in Objects :
        \A S \in SUBSET Objects :
           p \in S /\ (\A y \in S : h[y].prototype \in S \cup {Null}) => x \in S }

creates_cycle(h, o, p) == p # Null /\ o \in chain(h, p)

SetPrototype(o, p) ==
    /\ heap[o].prototype # p
    /\ heap[o].extensible
    /\ ~creates_cycle(heap, o, p)
    /\ heap' = [heap EXCEPT ![o].prototype = p]
    /\ UNCHANGED <<parameters, popping>>

\* The function whose frame an arguments object maps assigns a parameter.
AssignParameter(p, v) ==
    /\ \E o \in Objects : heap[o].kind = "arguments"
    /\ parameters' = [parameters EXCEPT ![p] = v]
    /\ UNCHANGED <<heap, popping>>

ArrayPush(o, v) ==
    LET next == heap[o].array_length
    IN /\ heap[o].kind = "array"
       /\ next < Len(IndexNames)
       /\ Commit(o, define_own_property(heap[o], parameters, IndexNames[next + 1],
                                        data(v, TRUE, TRUE, TRUE)))
       /\ UNCHANGED popping

\* The rest of array_pop once the element has been read: delete it, then cut
\* the length back to the index computed before the read.
finish_pop(obj, par, index) ==
    LET deleted == delete_property(obj, par, IndexNames[index + 1])
    IN IF ~deleted.result THEN deleted
       ELSE define_array_length(deleted.object, par, [value |-> index])

runs_getter(h, par, o, k) ==
    LET found == found_descriptor(h, par, o, k)
    IN is_accessor_descriptor(found) /\ found.get # Undefined

ArrayPop(o) ==
    LET index == heap[o].array_length - 1
    IN /\ heap[o].kind = "array" /\ heap[o].array_length \in 1..Len(IndexNames)
       /\ ~runs_getter(heap, parameters, o, IndexNames[index + 1])
       /\ Commit(o, finish_pop(heap[o], parameters, index))
       /\ UNCHANGED popping

ArrayPopCallsGetter(o) ==
    LET index == heap[o].array_length - 1
    IN /\ heap[o].kind = "array" /\ heap[o].array_length \in 1..Len(IndexNames)
       /\ runs_getter(heap, parameters, o, IndexNames[index + 1])
       /\ Len(popping) < MaxNesting
       /\ popping' = Append(popping, [array |-> o, index |-> index])
       /\ UNCHANGED <<heap, parameters>>

GetterReturns ==
    /\ popping # <<>>
    /\ LET call == Last(popping)
       IN Commit(call.array, finish_pop(heap[call.array], parameters, call.index))
    /\ popping' = Front(popping)

GetterThrows ==
    /\ popping # <<>>
    /\ popping' = Front(popping)
    /\ UNCHANGED <<heap, parameters>>

Next ==
    \/ \E t \in Definitions : DefineOwnProperty(t[1], t[2], t[3])
    \/ \E t \in Writes : SetData(t[1], t[2], t[3], t[4])
    \/ \E t \in Writes : t[1] = t[4] /\ SetOwnProperty(t[1], t[2], t[3])
    \/ \E t \in Deletions : DeleteProperty(t[1], t[2])
    \/ \E t \in Reparentings : SetPrototype(t[1], t[2])
    \/ \E o \in Sealable : PreventExtensions(o)
    \/ \E o \in Objects : ArrayPop(o) \/ ArrayPopCallsGetter(o)
    \/ \E o \in Objects, v \in Pushed : ArrayPush(o, v)
    \/ \E p \in Parameters, v \in Pushed : AssignParameter(p, v)
    \/ GetterReturns
    \/ GetterThrows

Spec == Init /\ [][Next]_vars
-----------------------------------------------------------------------------
(* Properties *)

\* The own properties as scripts see them.
own_view(obj, par) ==
    [k \in { x \in Keys : has_own(obj, x) } |-> get_own_property_descriptor(obj, par, k)]

\* TypeOK: stored descriptors are complete, an object has the parts its kind
\* has, the length of an array is never in its table, and a pending pop belongs
\* to an array.
TypeOK ==
    /\ heap = [o \in Objects |-> heap[o]]
    /\ \A o \in Objects : ObjectOK(heap[o])
    /\ \A i \in DOMAIN popping :
          popping[i].array \in Objects /\ heap[popping[i].array].kind = "array"

\* TablesAgree: the insertion order lists the table's keys exactly once
\* (ArraySetLength looks for blocking elements through it), an array element is
\* never both dense and in the table, every element is below the length, a
\* String wrapper's own units stay out of its table, and a definition that
\* assigns a mapped parameter changes one argument only.
TablesAgree == \A o \in Objects : TableAgrees(heap[o])

\* MappedAreWritable: an index of an arguments object still tied to a parameter
\* is a writable data property of it, so an assignment to the parameter never
\* changes a deleted, read-only or accessor property.
MappedAreWritable == \A o \in Objects : MappedWritable(heap[o])

\* ChainsEnd: every prototype chain reaches null, which get, set and has, the
\* recursive walks of the code, need to return at all.
ChainsEnd == Grounded(heap)

\* The listed keys are the own properties, each once, and array indices come first
\* in ascending order.  The order of a String wrapper is left out: its extra
\* indices follow "length" in insertion order.
KeysListed(obj) ==
    LET listed == own_property_keys(obj)
        indices == Selected(listed, Indices)
    IN /\ Range(listed) = { k \in Keys : has_own(obj, k) }
       /\ IsInjective(listed)
       /\ obj.kind # "string" =>
            /\ indices = SubSeq(listed, 1, Len(indices))
            /\ indices = Selected(IndexNames, { k \in Keys : has_own(obj, k) })

\* KeysAreOwn: own_property_keys lists the own properties of every object.
\* Functions are left out: their "length" and "name" are answered for but not
\* listed.
KeysAreOwn == \A o \in Objects : heap[o].kind # "function" => KeysListed(heap[o])

\* StorageAgrees: the table, its insertion order, the dense elements, the
\* length and the listed keys of an object tell of the same properties, after
\* any sequence of definitions, deletions, pushes and interrupted pops.
StorageAgrees == TablesAgree /\ KeysAreOwn

\* The reference: ValidateAndApplyPropertyDescriptor of ECMA-262 on the own
\* properties as scripts see them.
Permits(own, extensible, k, d) ==
    IF k \notin DOMAIN own THEN extensible
    ELSE LET p == own[k]
         IN \/ p.configurable
            \/ /\ ~Flag(d, "configurable")
               /\ \A f \in (DOMAIN d \cap DOMAIN p) \ {"value", "writable"} : d[f] = p[f]
               /\ DOMAIN d \subseteq DOMAIN p
               /\ Flag(p, "writable") \/ is_accessor_descriptor(p)
                    \/ \A f \in DOMAIN d \cap DataFields : d[f] = p[f]

Applied(own, k, d) ==
    With(own, k, IF k \in DOMAIN own THEN Overlay(d, own[k])
                 ELSE complete_descriptor(d, is_accessor_descriptor(d)))

\* ... and of the array exotic object on top of it: a new element moves the
\* length, a new length removes elements from the end as long as it can.
AppliedElement(own, k, d) ==
    [Applied(own, k, d) EXCEPT
        !["length"].value = Max({@, canonical_array_index(k) + 1})]

SettledLength(own, new) ==
    Min({ l \in new..Max({new, own["length"].value}) :
            \A k \in DOMAIN own : (is_index(k) /\ canonical_array_index(k) >= l)
                                    => own[k].configurable })

AppliedLength(own, d) ==
    LET new == IF "value" \in DOMAIN d THEN d.value ELSE own["length"].value
        l == SettledLength(own, new)
        kept == [k \in { x \in DOMAIN own : is_index(x) => canonical_array_index(x) < l }
                    |-> own[k]]
    IN [kept EXCEPT !["length"] = Overlay(With(d, "value", l), @)]

Expected(obj, par, k, d) ==
    LET own == own_view(obj, par)
        array == obj.kind = "array"
        beyond == array /\ is_index(k) /\ canonical_array_index(k) >= own["length"].value
        allowed == /\ Permits(own, obj.extensible, k, d)
                   /\ beyond => own["length"].writable
    IN IF ~allowed THEN own
       ELSE IF array /\ k = "length" THEN AppliedLength(own, d)
       ELSE IF array /\ is_index(k) THEN AppliedElement(own, k, d)
       ELSE Applied(own, k, d)

\* Conversions between data and accessor properties are outside the reference
\* (the code resets enumerable and configurable there), and so are the virtual
\* properties of functions, which the code treats as absent when defining.
InReference(obj, par, k, d) ==
    /\ ~Malformed(d)
    /\ k = "length" /\ "value" \in DOMAIN d /\ obj.kind = "array" => d.value \in 0..MaxLength
    /\ obj.kind = "function" => InTable(obj, k) \/ ~is_virtual(obj, k)
    /\ has_own(obj, k) /\ ~is_generic_descriptor(d) =>
          is_accessor_descriptor(get_own_property_descriptor(obj, par, k))
            = is_accessor_descriptor(d)

\* DefineConforms: in every reachable state every definition leaves the own
\* properties that the reference computes, whichever of the dense elements, the
\* table, the array length and the mapped parameters hold them.
DefineConforms ==
    \A t \in Definitions :
        LET obj == heap[t[1]]
            after == define_own_property(obj, parameters, t[2], t[3])
        IN InReference(obj, parameters, t[2], t[3]) =>
              own_view(after.object, after.parameters)
                = Expected(obj, parameters, t[2], t[3])

Contract == INSTANCE ObjectContract WITH
    own <- [o \in Objects |-> own_view(heap[o], parameters)],
    extensible <- [o \in Objects |-> heap[o].extensible],
    prototype <- [o \in Objects |-> heap[o].prototype]

\* KeepsContract: every operation, and a getter that runs inside array_pop, keeps
\* the promises of ObjectContract for every object.
KeepsContract == Contract!Spec
=============================================================================
