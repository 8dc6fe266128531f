---------------------------- MODULE ObjectProofs ----------------------------
(***************************************************************************)
(* Proofs about Objects for every set of objects, keys and inputs:          *)
(* prototype chains end, mapped arguments stay writable, and every          *)
(* operation keeps the promises of ObjectContract.                          *)
(***************************************************************************)
EXTENDS Objects, WellFoundedInduction, SequenceTheorems, TLAPS

Complete(p) == IsDescriptor(p) /\ p = complete_descriptor(p, is_accessor_descriptor(p))

DataShape == {"value", "writable", "enumerable", "configurable"}
AccessorShape == {"get", "set", "enumerable", "configurable"}

-----------------------------------------------------------------------------
(* Descriptors *)

LEMMA CompleteShape ==
    ASSUME NEW p, Complete(p)
    PROVE  /\ is_accessor_descriptor(p) => DOMAIN p = AccessorShape
           /\ ~is_accessor_descriptor(p) => DOMAIN p = DataShape
           /\ "enumerable" \in DOMAIN p /\ p.enumerable \in BOOLEAN
           /\ "configurable" \in DOMAIN p /\ p.configurable \in BOOLEAN
           /\ "writable" \in DOMAIN p <=> ~is_accessor_descriptor(p)
           /\ "writable" \in DOMAIN p => p.writable \in BOOLEAN
           /\ "get" \in DOMAIN p <=> is_accessor_descriptor(p)
  <1>1. DOMAIN p = DOMAIN complete_descriptor(p, is_accessor_descriptor(p))
    BY DEF Complete
  <1>2. /\ is_accessor_descriptor(p) => DOMAIN p = AccessorShape
        /\ ~is_accessor_descriptor(p) => DOMAIN p = DataShape
    BY <1>1 DEF complete_descriptor, DataFields, AccessorFields, DataShape, AccessorShape
  <1>3. \A f \in DOMAIN p \ {"value", "get", "set"} : p[f] \in BOOLEAN
    BY DEF Complete, IsDescriptor
  <1> QED
    BY <1>2, <1>3 DEF DataShape, AccessorShape

\* complete_descriptor completes.
LEMMA MakesComplete ==
    ASSUME NEW d, IsDescriptor(d), NEW a \in BOOLEAN
    PROVE  LET r == complete_descriptor(d, a) IN
           /\ Complete(r)
           /\ is_accessor_descriptor(r) <=> a
           /\ DOMAIN r = IF a THEN AccessorShape ELSE DataShape
           /\ \A f \in DOMAIN r : f \in DOMAIN d => r[f] = d[f]
  <1> DEFINE r == complete_descriptor(d, a)
  <1>1. DOMAIN r = IF a THEN AccessorShape ELSE DataShape
    BY DEF complete_descriptor, DataFields, AccessorFields, DataShape, AccessorShape
  <1>2. \A f \in DOMAIN r : r[f] = IF f \in DOMAIN d THEN d[f]
                                   ELSE IF f \in {"value", "get", "set"} THEN Undefined ELSE FALSE
    BY DEF complete_descriptor
  <1>3. r = [f \in DOMAIN r |-> r[f]]
    BY DEF complete_descriptor
  <1> HIDE DEF r
  <1>4. is_accessor_descriptor(r) <=> a
    BY <1>1 DEF is_accessor_descriptor, AccessorFields, DataShape, AccessorShape
  <1>5. IsDescriptor(r)
    <2>1. DOMAIN r \subseteq Fields
      BY <1>1 DEF Fields, DataFields, AccessorFields, DataShape, AccessorShape
    <2>2. \A f \in DOMAIN r \ {"value", "get", "set"} : r[f] \in BOOLEAN
      BY <1>2 DEF IsDescriptor
    <2> QED
      BY <2>1, <2>2, <1>3 DEF IsDescriptor
  <1>6. r = complete_descriptor(r, is_accessor_descriptor(r))
    <2>1. complete_descriptor(r, is_accessor_descriptor(r)) = [f \in DOMAIN r |-> r[f]]
      BY <1>1, <1>4 DEF complete_descriptor, DataFields, AccessorFields, DataShape, AccessorShape
    <2> QED
      BY <2>1, <1>3
  <1> QED
    BY <1>1, <1>2, <1>4, <1>5, <1>6 DEF Complete, r

\* The merged descriptor is complete again.
LEMMA MergeComplete ==
    ASSUME NEW p, Complete(p), NEW d, IsDescriptor(d)
    PROVE  Complete(merge_descriptor(p, d))
  <1> DEFINE converts == /\ ~is_generic_descriptor(d)
                         /\ is_accessor_descriptor(p) # is_accessor_descriptor(d)
             base == IF converts THEN complete_descriptor(<<>>, is_accessor_descriptor(d)) ELSE p
             m == Overlay(d, base)
  <1>1. IsDescriptor(<<>>)
    BY DEF IsDescriptor
  <1>2. IsDescriptor(base)
    <2>1. Complete(complete_descriptor(<<>>, is_accessor_descriptor(d)))
      BY <1>1, MakesComplete DEF is_accessor_descriptor
    <2> QED
      BY <2>1 DEF Complete
  <1> HIDE DEF base
  <1>3. IsDescriptor(m)
    BY <1>2 DEF IsDescriptor, Overlay
  <1>4. merge_descriptor(p, d) = complete_descriptor(m, is_accessor_descriptor(m))
    BY DEF merge_descriptor, base
  <1>5. is_accessor_descriptor(m) \in BOOLEAN
    BY DEF is_accessor_descriptor
  <1> HIDE DEF m
  <1> QED
    BY <1>3, <1>4, <1>5, MakesComplete

\* A property that cannot be configured changes only as the contract allows.
LEMMA MergeMay ==
    ASSUME NEW p, Complete(p), ~p.configurable, NEW d, IsDescriptor(d), ~Malformed(d),
           ~refuses(p, d)
    PROVE  Contract!MayBecome(p, merge_descriptor(p, d))
  <1> DEFINE acc == is_accessor_descriptor(p)
             m == Overlay(d, p)
             r == merge_descriptor(p, d)
  <1>p. /\ p = [f \in DOMAIN p |-> p[f]]
        /\ "configurable" \in DOMAIN p /\ "enumerable" \in DOMAIN p
        /\ acc => DOMAIN p = AccessorShape
        /\ ~acc => DOMAIN p = DataShape
        /\ acc \in BOOLEAN
        /\ "writable" \in DOMAIN p => p.writable \in BOOLEAN
    BY CompleteShape DEF Complete, IsDescriptor, is_accessor_descriptor
  <1>f. ~Flag(p, "configurable")
    BY DEF Flag
  <1>d. /\ ~Flag(d, "configurable")
        /\ "enumerable" \in DOMAIN d => d.enumerable = p.enumerable
        /\ is_generic_descriptor(d) \/ acc = is_accessor_descriptor(d)
        /\ ~acc /\ is_data_descriptor(d) /\ ~Flag(p, "writable") =>
              ~Flag(d, "writable") /\ ("value" \in DOMAIN d => d.value = p.value)
        /\ acc /\ is_accessor_descriptor(d) =>
              \A f \in AccessorFields \cap DOMAIN d : d[f] = p[f]
    BY <1>f DEF refuses
  <1>t. \A f \in DOMAIN d : f \in {"writable", "enumerable", "configurable"} => d[f] \in BOOLEAN
    BY DEF IsDescriptor
  <1>c. "configurable" \in DOMAIN d => d.configurable = p.configurable
    <2>1. p.configurable \in BOOLEAN
      BY CompleteShape
    <2> QED
      BY <2>1, <1>d, <1>t DEF Flag
  \* The fields of d are fields of the kind that p has.
  <1>s. DOMAIN d \subseteq DOMAIN p
    <2>1. DOMAIN d \subseteq Fields
      BY DEF IsDescriptor
    <2>2. acc => DOMAIN d \cap DataFields = {}
      BY <1>d DEF Malformed, is_data_descriptor, is_generic_descriptor, is_accessor_descriptor
    <2>3. ~acc => DOMAIN d \cap AccessorFields = {}
      BY <1>d DEF Malformed, is_data_descriptor, is_generic_descriptor, is_accessor_descriptor
    <2> QED
      BY <2>1, <2>2, <2>3, <1>p DEF Fields, DataFields, AccessorFields, DataShape, AccessorShape
  <1>r. r = [f \in DOMAIN p |-> IF f \in DOMAIN d THEN d[f] ELSE p[f]]
    <2>1. r = complete_descriptor(m, is_accessor_descriptor(m))
      BY <1>d DEF merge_descriptor
    <2>2. DOMAIN m = DOMAIN p /\ \A f \in DOMAIN p : m[f] = IF f \in DOMAIN d THEN d[f] ELSE p[f]
      BY <1>s DEF Overlay
    <2> HIDE DEF m
    <2>3. is_accessor_descriptor(m) = acc
      BY <2>2 DEF is_accessor_descriptor
    <2>4. complete_descriptor(m, acc) = [f \in DOMAIN p |-> m[f]]
      BY <2>2, <1>p DEF complete_descriptor, DataFields, AccessorFields, DataShape, AccessorShape
    <2> HIDE DEF r, acc
    <2> QED
      BY <2>1, <2>2, <2>3, <2>4
  <1> HIDE DEF r
  <1>1. CASE acc
    <2>1. \A f \in DOMAIN d : d[f] = p[f]
      <3>1. \A f \in DOMAIN d : f \in {"get", "set"} \/ f = "enumerable" \/ f = "configurable"
        BY <1>s, <1>p, <1>1 DEF AccessorShape
      <3>2. \A f \in DOMAIN d \cap {"get", "set"} : d[f] = p[f]
        BY <1>d, <1>1 DEF is_accessor_descriptor, AccessorFields
      <3> QED
        BY <3>1, <3>2, <1>d, <1>c
    <2>2. r = p
      BY <2>1, <1>r, <1>p
    <2> QED
      BY <2>2 DEF Contract!MayBecome, r
  <1>2. CASE ~acc /\ p.writable
    <2>1. DOMAIN p = DataShape /\ DOMAIN r = DataShape
      BY <1>2, <1>p, <1>r
    <2>2. r.enumerable = p.enumerable /\ r.configurable = p.configurable
      BY <2>1, <1>r, <1>d, <1>c DEF DataShape
    <2> QED
      BY <2>1, <2>2, <1>2 DEF Contract!MayBecome, Contract!IsAccessor, DataShape, r
  <1>3. CASE ~acc /\ ~p.writable
    <2>1. \A f \in DOMAIN d : d[f] = p[f]
      <3>1. \A f \in DOMAIN d : f = "value" \/ f = "writable" \/ f = "enumerable" \/ f = "configurable"
        BY <1>s, <1>p, <1>3 DEF DataShape
      <3>2. ~Flag(p, "writable") /\ p.writable = FALSE
        BY <1>3, <1>p DEF Flag, DataShape
      <3>3. "value" \in DOMAIN d => d.value = p.value
        BY <1>3, <3>2, <1>d DEF is_data_descriptor, DataFields
      <3>4. "writable" \in DOMAIN d => d.writable = p.writable
        BY <1>3, <3>2, <1>d, <1>t DEF is_data_descriptor, DataFields, Flag
      <3> QED
        BY <3>1, <3>3, <3>4, <1>d, <1>c
    <2>2. r = p
      BY <2>1, <1>r, <1>p
    <2> QED
      BY <2>2 DEF Contract!MayBecome, r
  <1> QED
    BY <1>1, <1>2, <1>3

-----------------------------------------------------------------------------
(* Own properties *)

Good(obj) == ObjectOK(obj) /\ MappedWritable(obj)

\* The promises of the contract for one key of one object.
KeyKept(obj, par, obj2, par2, x) ==
    LET p == get_own_property_descriptor(obj, par, x)
        q == get_own_property_descriptor(obj2, par2, x)
    IN /\ has_own(obj, x) /\ ~p.configurable => has_own(obj2, x) /\ Contract!MayBecome(p, q)
       /\ ~obj.extensible /\ has_own(obj2, x) => has_own(obj, x)

Kept(obj, par, obj2, par2) ==
    /\ \A x \in Keys : KeyKept(obj, par, obj2, par2, x)
    /\ obj2.kind = obj.kind /\ obj2.extensible = obj.extensible /\ obj2.prototype = obj.prototype

\* What is_virtual and virtual_descriptor read.
SameOutside(obj, obj2) ==
    /\ obj2.kind = obj.kind /\ obj2.elements = obj.elements
    /\ obj2.array_length = obj.array_length
    /\ obj2.array_length_writable = obj.array_length_writable

\* Everything but the table and the mapped parameters.
SameButTable(obj, obj2) ==
    /\ SameOutside(obj, obj2) /\ DOMAIN obj2 = DOMAIN obj
    /\ obj2.extensible = obj.extensible /\ obj2.prototype = obj.prototype

LEMMA StoredComplete ==
    ASSUME NEW obj, ObjectOK(obj), NEW k, InTable(obj, k)
    PROVE  k \in Keys /\ Complete(obj.properties[k])
  BY DEF ObjectOK, InTable, Complete

LEMMA MappedFacts ==
    ASSUME NEW obj, Good(obj), NEW k \in Keys, mapped_argument_upvalue(obj, k) # Null
    PROVE  /\ obj.kind = "arguments" /\ InTable(obj, k)
           /\ obj.properties[k].writable
           /\ DOMAIN obj.properties[k] = DataShape
  <1>1. obj.kind = "arguments"
    BY DEF mapped_argument_upvalue
  <1>2. InTable(obj, k) /\ Flag(obj.properties[k], "writable")
    BY DEF Good, MappedWritable
  <1>3. Complete(obj.properties[k])
    BY <1>2, StoredComplete DEF Good
  <1> QED
    BY <1>1, <1>2, <1>3, CompleteShape DEF Flag

\* What get_own_property_descriptor returns for a property of the table.
LEMMA TableDescriptor ==
    ASSUME NEW obj, Good(obj), NEW par, NEW k \in Keys, InTable(obj, k)
    PROVE  LET p == obj.properties[k]
               q == get_own_property_descriptor(obj, par, k)
           IN  /\ Complete(q) /\ DOMAIN q = DOMAIN p
               /\ q.configurable = p.configurable /\ q.enumerable = p.enumerable
               /\ "writable" \in DOMAIN p => q.writable = p.writable
               /\ mapped_argument_upvalue(obj, k) = Null => q = p
  <1> DEFINE p == obj.properties[k]
             q == get_own_property_descriptor(obj, par, k)
  <1>p. /\ Complete(p) /\ p = [f \in DOMAIN p |-> p[f]]
        /\ "configurable" \in DOMAIN p /\ "enumerable" \in DOMAIN p
        /\ "value" # "configurable" /\ "value" # "enumerable" /\ "value" # "writable"
    BY StoredComplete, CompleteShape DEF Good, Complete, IsDescriptor
  <1>1. CASE mapped_argument_upvalue(obj, k) = Null
    <2>1. q = p
      BY <1>1 DEF get_own_property_descriptor
    <2> QED
      BY <2>1, <1>p
  <1>2. CASE mapped_argument_upvalue(obj, k) # Null
    <2> DEFINE v == par[mapped_argument_upvalue(obj, k)]
    <2>1. q = With(p, "value", v)
      BY <1>2 DEF get_own_property_descriptor
    <2>2. DOMAIN p = DataShape
      BY <1>2, MappedFacts
    <2> HIDE DEF v, q, p
    <2>3. /\ DOMAIN q = DataShape
          /\ q = [f \in DataShape |-> IF f = "value" THEN v ELSE p[f]]
      BY <2>1, <2>2 DEF With, DataShape
    <2>4. q.configurable = p.configurable /\ q.enumerable = p.enumerable /\ q.writable = p.writable
      BY <2>3 DEF DataShape
    <2>5. is_accessor_descriptor(q) = FALSE
      BY <2>3 DEF is_accessor_descriptor, AccessorFields, DataShape
    <2>6. IsDescriptor(q)
      <3>1. \A f \in DOMAIN q \ {"value", "get", "set"} : q[f] = p[f] /\ f \in DOMAIN p
        BY <2>2, <2>3
      <3>2. q = [f \in DOMAIN q |-> q[f]]
        BY <2>3
      <3>3. DOMAIN q \subseteq Fields
        BY <2>3 DEF Fields, DataFields, DataShape
      <3> QED
        BY <3>1, <3>2, <3>3, <1>p DEF Complete, IsDescriptor
    <2>7. q = complete_descriptor(q, FALSE)
      BY <2>3 DEF complete_descriptor, DataShape, DataFields
    <2>8. Complete(q)
      BY <2>5, <2>6, <2>7, Zenon DEF Complete
    <2> QED
      BY <1>2, <2>2, <2>3, <2>4, <2>8 DEF q, p
  <1> QED
    BY <1>1, <1>2

\* A property of the table that is left alone; its parameter may have changed.
LEMMA KeyUnchanged ==
    ASSUME NEW obj, Good(obj), NEW obj2, NEW par, NEW par2, NEW x \in Keys,
           InTable(obj, x), InTable(obj2, x), obj2.properties[x] = obj.properties[x],
           mapped_argument_upvalue(obj2, x) = mapped_argument_upvalue(obj, x)
    PROVE  KeyKept(obj, par, obj2, par2, x)
  <1> DEFINE p == get_own_property_descriptor(obj, par, x)
             q == get_own_property_descriptor(obj2, par2, x)
             t == obj.properties[x]
             up == mapped_argument_upvalue(obj, x)
  <1>1. has_own(obj, x) /\ has_own(obj2, x)
    BY DEF has_own
  <1>2. CASE up = Null
    <2>1. p = t /\ q = t
      BY <1>2 DEF get_own_property_descriptor
    <2> QED
      BY <1>1, <2>1 DEF KeyKept, Contract!MayBecome
  <1>3. CASE up # Null
    <2>p. p = With(t, "value", par[up])
      BY <1>3 DEF get_own_property_descriptor
    <2>q. q = With(t, "value", par2[up])
      <3>1. q = With(obj2.properties[x], "value", par2[mapped_argument_upvalue(obj2, x)])
        BY <1>3 DEF get_own_property_descriptor
      <3> QED
        BY <3>1
    <2>2. DOMAIN t = DataShape /\ t.writable
      BY <1>3, MappedFacts
    <2> DEFINE a == par[up]
               b == par2[up]
    <2>3. p = With(t, "value", a) /\ q = With(t, "value", b)
      BY <2>p, <2>q
    <2> HIDE DEF a, b, t, p, q
    <2>4. DOMAIN p = DataShape /\ DOMAIN q = DataShape
      BY <2>3, <2>2 DEF With, DataShape
    <2>5. /\ p.writable = t.writable /\ p.configurable = t.configurable /\ p.enumerable = t.enumerable
          /\ q.configurable = t.configurable /\ q.enumerable = t.enumerable
      BY <2>3, <2>2 DEF With, DataShape
    <2>6. ~p.configurable => Contract!MayBecome(p, q)
      BY <2>2, <2>4, <2>5 DEF Contract!MayBecome, Contract!IsAccessor, DataShape
    <2> QED
      BY <1>1, <2>6 DEF KeyKept, p, q
  <1> QED
    BY <1>2, <1>3

\* A property outside the table that is answered for as before.
LEMMA KeyOutside ==
    ASSUME NEW obj, NEW obj2, NEW par, NEW par2, NEW x,
           ~InTable(obj, x), ~InTable(obj2, x), is_virtual(obj2, x) <=> is_virtual(obj, x),
           is_virtual(obj, x) => virtual_descriptor(obj2, x) = virtual_descriptor(obj, x)
    PROVE  KeyKept(obj, par, obj2, par2, x)
  BY DEF KeyKept, has_own, get_own_property_descriptor, Contract!MayBecome

LEMMA OutsideAgrees ==
    ASSUME NEW obj, NEW obj2, SameOutside(obj, obj2), NEW x
    PROVE  /\ is_virtual(obj2, x) <=> is_virtual(obj, x)
           /\ virtual_descriptor(obj2, x) = virtual_descriptor(obj, x)
  <1>1. is_dense(obj2, x) <=> is_dense(obj, x)
    BY DEF is_dense, SameOutside
  <1>2. string_exotic_property(obj2, x) <=> string_exotic_property(obj, x)
    BY DEF string_exotic_property, SameOutside
  <1>3. is_virtual(obj2, x) <=> is_virtual(obj, x)
    BY <1>1, <1>2 DEF is_virtual, SameOutside
  <1>4. virtual_descriptor(obj2, x) = virtual_descriptor(obj, x)
    BY DEF virtual_descriptor, SameOutside
  <1> QED
    BY <1>3, <1>4

-----------------------------------------------------------------------------
(* Changes of the table *)

LEMMA IndexOf ==
    ASSUME NEW k, is_index(k)
    PROVE  /\ canonical_array_index(k) + 1 \in DOMAIN IndexNames
           /\ IndexNames[canonical_array_index(k) + 1] = k
           /\ canonical_array_index(k) \in Nat
           /\ canonical_array_index(k) < Len(IndexNames)
  <1>1. IndexNames \in Seq(Keys)
    BY KeysAssumption
  <1>2. \E i \in DOMAIN IndexNames : IndexNames[i] = k
    BY DEF is_index, Range
  <1> DEFINE c == CHOOSE i \in DOMAIN IndexNames : IndexNames[i] = k
  <1>3. c \in DOMAIN IndexNames /\ IndexNames[c] = k
    BY <1>2
  <1>4. canonical_array_index(k) = c - 1
    BY DEF canonical_array_index
  <1> HIDE DEF c
  <1>5. c \in 1 .. Len(IndexNames) /\ Len(IndexNames) \in Nat
    BY <1>1, <1>3
  <1> QED
    BY <1>3, <1>4, <1>5

\* The table of obj2 has p for k; the parameters of the other keys are the same.
Tabled(obj, obj2, k, p) ==
    /\ SameButTable(obj, obj2) /\ obj2.properties = With(obj.properties, k, p)
    /\ obj.kind = "array" => k # "length"
    /\ obj2.mapped \in Seq(Parameters \cup {Null})
    /\ obj2.mapped # <<>> => obj.kind = "arguments"
    /\ \A x \in Keys : x # k =>
          mapped_argument_upvalue(obj2, x) = mapped_argument_upvalue(obj, x)
    /\ mapped_argument_upvalue(obj2, k) # Null => Flag(p, "writable")

\* Then every other property is kept.
LEMMA TableStep ==
    ASSUME NEW obj, Good(obj), NEW obj2, NEW par, NEW par2,
           NEW k \in Keys, NEW p, Complete(p), Tabled(obj, obj2, k, p)
    PROVE  /\ Good(obj2)
           /\ InTable(obj2, k) /\ obj2.properties[k] = p
           /\ \A x \in Keys : x # k => KeyKept(obj, par, obj2, par2, x)
  <1>0. SameButTable(obj, obj2)
    BY DEF Tabled
  <1>1. /\ DOMAIN obj2.properties = DOMAIN obj.properties \cup {k}
        /\ obj2.properties[k] = p
        /\ \A x \in DOMAIN obj.properties : x # k => obj2.properties[x] = obj.properties[x]
    BY DEF With, Tabled
  <1>2. ObjectOK(obj2)
    <2>1. ObjectOK(obj)
      BY DEF Good
    <2>2. DOMAIN obj2.properties \subseteq Keys
      BY <1>1, <2>1 DEF ObjectOK
    <2>3. ASSUME NEW x \in DOMAIN obj2.properties PROVE Complete(obj2.properties[x])
      <3>1. CASE x = k
        BY <3>1, <1>1
      <3>2. CASE x # k
        BY <3>2, <1>1, <2>1, StoredComplete DEF InTable
      <3> QED
        BY <3>1, <3>2
    <2>4. obj2.kind = "array" => ~InTable(obj2, "length")
      BY <1>1, <2>1 DEF ObjectOK, InTable, Tabled, SameButTable, SameOutside
    <2>5. /\ DOMAIN obj2 = ObjectFields
          /\ obj2.prototype \in Objects \cup {Null}
          /\ obj2.extensible \in BOOLEAN /\ obj2.array_length_writable \in BOOLEAN
          /\ obj2.array_length \in 0..MaxLength
          /\ obj2.elements \in Seq(Range(obj2.elements))
          /\ obj2.elements # <<>> => obj2.kind = "array"
          /\ obj2.mapped # <<>> => obj2.kind = "arguments"
          /\ obj2.mapped \in Seq(Parameters \cup {Null})
      BY <2>1 DEF ObjectOK, Tabled, SameButTable, SameOutside
    <2> QED
      BY <2>2, <2>3, <2>4, <2>5 DEF ObjectOK, Complete
  <1>3. MappedWritable(obj2)
    <2> SUFFICES ASSUME NEW x \in Keys, mapped_argument_upvalue(obj2, x) # Null
                 PROVE  InTable(obj2, x) /\ Flag(obj2.properties[x], "writable")
      BY DEF MappedWritable
    <2>1. CASE x = k
      BY <2>1, <1>1 DEF InTable, Tabled
    <2>2. CASE x # k
      <3>1. InTable(obj, x) /\ Flag(obj.properties[x], "writable")
        BY <2>2 DEF Good, MappedWritable, Tabled
      <3> QED
        BY <2>2, <3>1, <1>1 DEF InTable
    <2> QED
      BY <2>1, <2>2
  <1>4. ASSUME NEW x \in Keys, x # k PROVE KeyKept(obj, par, obj2, par2, x)
    <2>1. CASE InTable(obj, x)
      <3>1. InTable(obj2, x) /\ obj2.properties[x] = obj.properties[x]
        BY <2>1, <1>1, <1>4 DEF InTable
      <3> QED
        BY <2>1, <3>1, <1>4, KeyUnchanged DEF Tabled
    <2>2. CASE ~InTable(obj, x)
      <3>1. ~InTable(obj2, x)
        BY <2>2, <1>1, <1>4 DEF InTable
      <3> QED
        BY <2>2, <3>1, <1>0, KeyOutside, OutsideAgrees DEF SameButTable
    <2> QED
      BY <2>1, <2>2
  <1> QED
    BY <1>1, <1>2, <1>3, <1>4 DEF Good, InTable

LEMMA Added ==
    ASSUME NEW obj, ObjectOK(obj), NEW k, NEW d
    PROVE  LET r == AddToTable(obj, k, d) IN
           /\ SameButTable(obj, r) /\ r.mapped = obj.mapped
           /\ r.properties = With(obj.properties, k, d)
  BY DEF AddToTable, ObjectOK, ObjectFields, SameButTable, SameOutside

\* A new property of an extensible object.
LEMMA AddKeeps ==
    ASSUME NEW obj, Good(obj), obj.extensible, NEW par, NEW k \in Keys, ~InTable(obj, k),
           obj.kind = "function" \/ ~is_virtual(obj, k),
           obj.kind = "array" => k # "length",
           NEW d, Complete(d)
    PROVE  Good(AddToTable(obj, k, d)) /\ Kept(obj, par, AddToTable(obj, k, d), par)
  <1> DEFINE r == AddToTable(obj, k, d)
  <1>1. /\ SameButTable(obj, r) /\ r.mapped = obj.mapped
        /\ r.properties = With(obj.properties, k, d)
    BY Added DEF Good
  <1> HIDE DEF r
  <1>2. \A x : mapped_argument_upvalue(r, x) = mapped_argument_upvalue(obj, x)
    BY <1>1 DEF mapped_argument_upvalue, SameButTable, SameOutside
  <1>3. mapped_argument_upvalue(obj, k) = Null
    BY DEF Good, MappedWritable
  <1>4. /\ obj.mapped \in Seq(Parameters \cup {Null})
        /\ obj.mapped # <<>> => obj.kind = "arguments"
    BY DEF Good, ObjectOK
  <1>5. /\ Good(r) /\ InTable(r, k)
        /\ \A x \in Keys : x # k => KeyKept(obj, par, r, par, x)
    <2>1. Tabled(obj, r, k, d)
      BY <1>1, <1>2, <1>3, <1>4 DEF Tabled
    <2> QED
      BY <2>1, TableStep
  <1>6. KeyKept(obj, par, r, par, k)
    <2>1. has_own(obj, k) => get_own_property_descriptor(obj, par, k).configurable
      <3> SUFFICES ASSUME is_virtual(obj, k), obj.kind = "function"
                   PROVE  get_own_property_descriptor(obj, par, k).configurable
        BY DEF has_own
      <3> QED
        BY DEF get_own_property_descriptor, virtual_descriptor, data
    <2> QED
      BY <2>1 DEF KeyKept
  <1>7. Kept(obj, par, r, par)
    BY <1>1, <1>5, <1>6 DEF Kept, SameButTable, SameOutside
  <1> QED
    BY <1>5, <1>7 DEF r

\* Only the values of parameters have changed.
LEMMA ParametersMove ==
    ASSUME NEW obj, Good(obj), NEW par, NEW par2
    PROVE  Kept(obj, par, obj, par2)
  <1>1. ASSUME NEW x \in Keys PROVE KeyKept(obj, par, obj, par2, x)
    BY KeyUnchanged, KeyOutside
  <1> QED
    BY <1>1 DEF Kept

\* An argument that stays mapped stays writable.
LEMMA MergeStaysWritable ==
    ASSUME NEW p, DOMAIN p = DataShape, p.writable, NEW d, ~is_accessor_descriptor(d),
           "writable" \in DOMAIN d => d.writable
    PROVE  Flag(merge_descriptor(p, d), "writable")
  <1> DEFINE m == Overlay(d, p)
  <1>1. is_accessor_descriptor(p) = FALSE
    BY DEF is_accessor_descriptor, AccessorFields, DataShape
  <1>2. merge_descriptor(p, d) = complete_descriptor(m, is_accessor_descriptor(m))
    <2>1. is_accessor_descriptor(d) = FALSE
      BY DEF is_accessor_descriptor
    <2> QED
      BY <1>1, <2>1 DEF merge_descriptor
  <1>3. "writable" \in DOMAIN m /\ m.writable
    BY DEF Overlay, DataShape
  <1>4. is_accessor_descriptor(m) = FALSE
    BY DEF Overlay, is_accessor_descriptor, AccessorFields, DataShape
  <1> HIDE DEF m
  <1> QED
    BY <1>2, <1>3, <1>4 DEF Flag, complete_descriptor, DataFields

Unmaps(obj, obj2, k) ==
    /\ obj.mapped \in Seq(Parameters \cup {Null}) /\ obj2.kind = obj.kind
    /\ is_index(k) /\ canonical_array_index(k) < Len(obj.mapped)
    /\ obj2.mapped = [obj.mapped EXCEPT ![canonical_array_index(k) + 1] = Null]

\* An index of an arguments object loses its parameter; the others keep theirs.
LEMMA Unmapping ==
    ASSUME NEW obj, NEW obj2, NEW k, Unmaps(obj, obj2, k)
    PROVE  /\ obj2.mapped \in Seq(Parameters \cup {Null})
           /\ obj2.mapped # <<>> => obj.mapped # <<>>
           /\ mapped_argument_upvalue(obj2, k) = Null
           /\ \A x : x # k => mapped_argument_upvalue(obj2, x) = mapped_argument_upvalue(obj, x)
  <1> DEFINE c == canonical_array_index(k) + 1
             m == obj.mapped
             n == obj2.mapped
  <1>0. /\ is_index(k) /\ canonical_array_index(k) < Len(m) /\ obj2.kind = obj.kind
        /\ n = [m EXCEPT ![c] = Null] /\ m \in Seq(Parameters \cup {Null})
    BY DEF Unmaps
  <1>1. c \in 1 .. Len(m) /\ canonical_array_index(k) \in Nat
    BY <1>0, IndexOf
  <1>2. n = [m EXCEPT ![c] = Null] /\ m \in Seq(Parameters \cup {Null})
    BY <1>0
  <1> HIDE DEF c, m, n
  <1>3. /\ n \in Seq(Parameters \cup {Null}) /\ Len(n) = Len(m) /\ n[c] = Null
        /\ \A i \in 1 .. Len(m) : i # c => n[i] = m[i]
    BY <1>1, <1>2
  <1>4. n # <<>> => m # <<>>
    BY <1>1, <1>3
  <1>5. mapped_argument_upvalue(obj2, k) = Null
    BY <1>0, <1>3 DEF mapped_argument_upvalue, c, n
  <1>6. ASSUME NEW x, x # k
        PROVE  mapped_argument_upvalue(obj2, x) = mapped_argument_upvalue(obj, x)
    <2>1. CASE is_index(x) /\ canonical_array_index(x) < Len(m)
      <3> DEFINE i == canonical_array_index(x)
      <3>1. i \in Nat /\ IndexNames[i + 1] = x /\ IndexNames[c] = k
        BY <1>0, <2>1, IndexOf DEF c
      <3>2. i + 1 # c /\ i + 1 \in 1 .. Len(m)
        BY <3>1, <2>1, <1>6, <1>2
      <3>3. n[i + 1] = m[i + 1]
        BY <3>2, <1>3
      <3> QED
        BY <3>3, <2>1, <1>0, <1>3 DEF mapped_argument_upvalue, m, n
    <2>2. CASE ~(is_index(x) /\ canonical_array_index(x) < Len(m))
      BY <2>2, <1>0, <1>3 DEF mapped_argument_upvalue, m, n
    <2> QED
      BY <2>1, <2>2
  <1> QED
    BY <1>3, <1>4, <1>5, <1>6 DEF m, n

LEMMA Stored ==
    ASSUME NEW obj, ObjectOK(obj), NEW k, InTable(obj, k), NEW m
    PROVE  LET r == [obj EXCEPT !.properties[k] = m] IN
           /\ SameButTable(obj, r) /\ r.mapped = obj.mapped
           /\ r.properties = With(obj.properties, k, m)
  <1> DEFINE t == [obj.properties EXCEPT ![k] = m]
             r == [obj EXCEPT !.properties[k] = m]
  <1>1. r = [obj EXCEPT !.properties = t]
    OBVIOUS
  <1>2. DOMAIN obj = ObjectFields
    BY DEF ObjectOK
  <1>3. t = With(obj.properties, k, m)
    BY DEF With, InTable
  <1> HIDE DEF t, r
  <1>4. r.properties = t
    BY <1>1, <1>2 DEF ObjectFields
  <1>5. SameButTable(obj, r) /\ r.mapped = obj.mapped
    BY <1>1, <1>2 DEF ObjectFields, SameButTable, SameOutside
  <1> QED
    BY <1>3, <1>4, <1>5 DEF r

\* validate_and_apply, on an object that has spilled a dense element.
LEMMA ValidateKeeps ==
    ASSUME NEW obj, Good(obj), NEW par, NEW k \in Keys,
           NEW d, IsDescriptor(d), ~Malformed(d),
           obj.kind = "array" => k # "length",
           ~InTable(obj, k) => obj.kind = "function" \/ ~is_virtual(obj, k)
    PROVE  LET r == validate_and_apply(obj, par, k, d)
           IN  Good(r.object) /\ Kept(obj, par, r.object, r.parameters)
  <1> DEFINE r == validate_and_apply(obj, par, k, d)
             current == get_own_property_descriptor(obj, par, k)
             up == mapped_argument_upvalue(obj, k)
             unmaps == \/ is_accessor_descriptor(d)
                       \/ "writable" \in DOMAIN d /\ ~d.writable
             merged == merge_descriptor(current, d)
             stored == [obj EXCEPT !.properties[k] = merged]
             unmapped == [stored EXCEPT !.mapped[canonical_array_index(k) + 1] = Null]
             values == IF "value" \in DOMAIN d THEN [par EXCEPT ![up] = d.value] ELSE par
             added == AddToTable(obj, k, complete_descriptor(d, is_accessor_descriptor(d)))
  <1>0. ObjectOK(obj)
    BY DEF Good
  <1>same. Good(obj) /\ Kept(obj, par, obj, par)
    BY ParametersMove
  <1>1. CASE ~InTable(obj, k) /\ obj.extensible
    <2>1. r.object = added /\ r.parameters = par
      BY <1>1 DEF validate_and_apply, Outcome
    <2>2. Complete(complete_descriptor(d, is_accessor_descriptor(d)))
      BY MakesComplete DEF is_accessor_descriptor
    <2>3. Good(added) /\ Kept(obj, par, added, par)
      BY <1>1, <2>2, AddKeeps
    <2> QED
      BY <2>1, <2>3
  <1>2. CASE \/ ~InTable(obj, k) /\ ~obj.extensible
             \/ InTable(obj, k) /\ (DOMAIN d = {} \/ refuses(current, d))
    <2>1. r.object = obj /\ r.parameters = par
      BY <1>2 DEF validate_and_apply, Outcome
    <2> QED
      BY <2>1, <1>same
  <1>3. CASE InTable(obj, k) /\ DOMAIN d # {} /\ ~refuses(current, d)
    <2>1. has_own(obj, k) /\ Complete(current)
      BY <1>3, TableDescriptor DEF has_own
    <2>2. Complete(merged)
      BY <2>1, MergeComplete
    <2>3. ~current.configurable => Contract!MayBecome(current, merged)
      BY <1>3, <2>1, MergeMay
    <2> HIDE DEF current, merged
    <2>4. SameButTable(obj, stored) /\ stored.mapped = obj.mapped
          /\ stored.properties = With(obj.properties, k, merged)
      BY <1>0, <1>3, Stored
    <2> HIDE DEF stored
    <2>m. /\ obj.mapped \in Seq(Parameters \cup {Null})
          /\ obj.mapped # <<>> => obj.kind = "arguments"
      BY <1>0 DEF ObjectOK
    <2>u. \A x : mapped_argument_upvalue(stored, x) = mapped_argument_upvalue(obj, x)
      BY <2>4 DEF mapped_argument_upvalue, SameButTable, SameOutside
    <2>5. CASE up = Null
      <3>1. r.object = stored /\ r.parameters = par
        BY <1>3, <2>5 DEF validate_and_apply, Outcome, stored, current, merged
      <3>2. /\ Good(stored) /\ InTable(stored, k) /\ stored.properties[k] = merged
            /\ \A x \in Keys : x # k => KeyKept(obj, par, stored, par, x)
        <4>1. Tabled(obj, stored, k, merged)
          BY <2>4, <2>5, <2>m, <2>u DEF Tabled
        <4> QED
          BY <4>1, <2>2, TableStep
      <3>3. get_own_property_descriptor(stored, par, k) = merged
        BY <3>2, <2>5, <2>u DEF get_own_property_descriptor
      <3>4. KeyKept(obj, par, stored, par, k)
        BY <2>1, <2>3, <3>2, <3>3 DEF KeyKept, has_own, current
      <3>5. Kept(obj, par, stored, par)
        BY <2>4, <3>2, <3>4 DEF Kept, SameButTable, SameOutside
      <3> QED
        BY <3>1, <3>2, <3>5
    <2>6. CASE up # Null /\ unmaps
      <3>1. r.object = unmapped /\ r.parameters = values
        BY <1>3, <2>6 DEF validate_and_apply, Outcome, stored, current, merged
      <3> HIDE DEF values
      <3>2. is_index(k) /\ canonical_array_index(k) < Len(obj.mapped)
        BY <2>6 DEF mapped_argument_upvalue
      <3>3. /\ SameButTable(obj, unmapped) /\ unmapped.properties = stored.properties
            /\ unmapped.mapped = [obj.mapped EXCEPT ![canonical_array_index(k) + 1] = Null]
        <4> DEFINE c == canonical_array_index(k) + 1
                   n == [stored.mapped EXCEPT ![c] = Null]
        <4>1. unmapped = [stored EXCEPT !.mapped = n]
          OBVIOUS
        <4>2. DOMAIN stored = ObjectFields
          BY <2>4, <1>0 DEF SameButTable, ObjectOK
        <4> HIDE DEF unmapped, n
        <4>3. unmapped.mapped = n /\ unmapped.properties = stored.properties
              /\ SameButTable(stored, unmapped)
          BY <4>1, <4>2 DEF ObjectFields, SameButTable, SameOutside
        <4> QED
          BY <4>3, <2>4 DEF SameButTable, SameOutside, n
      <3> HIDE DEF unmapped
      <3>4. /\ unmapped.mapped \in Seq(Parameters \cup {Null})
            /\ unmapped.mapped # <<>> => obj.mapped # <<>>
            /\ mapped_argument_upvalue(unmapped, k) = Null
            /\ \A x : x # k => mapped_argument_upvalue(unmapped, x) = mapped_argument_upvalue(obj, x)
        <4>1. unmapped.kind = obj.kind
          BY <3>3 DEF SameButTable, SameOutside
        <4>2. Unmaps(obj, unmapped, k)
          BY <4>1, <3>2, <3>3, <2>m DEF Unmaps
        <4> QED
          BY <4>2, Unmapping
      <3>5. /\ Good(unmapped) /\ InTable(unmapped, k) /\ unmapped.properties[k] = merged
            /\ \A x \in Keys : x # k => KeyKept(obj, par, unmapped, values, x)
        <4>1. Tabled(obj, unmapped, k, merged)
          BY <2>4, <3>3, <3>4, <2>m DEF Tabled
        <4> QED
          BY <4>1, <2>2, TableStep
      <3>6. get_own_property_descriptor(unmapped, values, k) = merged
        BY <3>4, <3>5 DEF get_own_property_descriptor
      <3>7. KeyKept(obj, par, unmapped, values, k)
        BY <2>1, <2>3, <3>5, <3>6 DEF KeyKept, has_own, current
      <3>8. Kept(obj, par, unmapped, values)
        BY <3>3, <3>5, <3>7 DEF Kept, SameButTable, SameOutside
      <3> QED
        BY <3>1, <3>5, <3>8
    <2>7. CASE up # Null /\ ~unmaps
      <3>1. r.object = stored /\ r.parameters = values
        BY <1>3, <2>7 DEF validate_and_apply, Outcome, stored, current, merged
      <3> HIDE DEF values
      <3>2. DOMAIN current = DataShape /\ current.writable
        <4>1. DOMAIN obj.properties[k] = DataShape /\ obj.properties[k].writable
          BY <2>7, MappedFacts
        <4>2. /\ DOMAIN current = DOMAIN obj.properties[k]
              /\ "writable" \in DOMAIN obj.properties[k] =>
                    current.writable = obj.properties[k].writable
          BY <1>3, TableDescriptor DEF current
        <4> QED
          BY <4>1, <4>2 DEF DataShape
      <3>3. Flag(merged, "writable")
        BY <2>7, <3>2, MergeStaysWritable DEF merged
      <3>4. /\ Good(stored) /\ InTable(stored, k) /\ stored.properties[k] = merged
            /\ \A x \in Keys : x # k => KeyKept(obj, par, stored, values, x)
        <4>1. Tabled(obj, stored, k, merged)
          BY <2>4, <3>3, <2>m, <2>u DEF Tabled
        <4> QED
          BY <4>1, <2>2, TableStep
      <3> DEFINE q == get_own_property_descriptor(stored, values, k)
      <3>5. /\ Complete(q) /\ DOMAIN q = DOMAIN merged
            /\ q.configurable = merged.configurable /\ q.enumerable = merged.enumerable
        BY <3>4, TableDescriptor
      <3> HIDE DEF q
      <3>6. ~current.configurable => Contract!MayBecome(current, q)
        <4> SUFFICES ASSUME ~current.configurable PROVE Contract!MayBecome(current, q)
          OBVIOUS
        <4>1. /\ ~Contract!IsAccessor(current)
              /\ ~Contract!IsAccessor(merged)
          <5>1. is_accessor_descriptor(merged) = FALSE
            BY <2>2, <3>3, CompleteShape DEF Flag, is_accessor_descriptor
          <5> QED
            BY <5>1, <3>2, <2>2, CompleteShape DEF Contract!IsAccessor, DataShape
        <4>2. merged.enumerable = current.enumerable /\ ~merged.configurable
          BY <2>3 DEF Contract!MayBecome
        <4> QED
          BY <4>1, <4>2, <3>2, <3>5 DEF Contract!MayBecome, Contract!IsAccessor
      <3>7. KeyKept(obj, par, stored, values, k)
        BY <2>1, <3>4, <3>6 DEF KeyKept, has_own, current, q
      <3>8. Kept(obj, par, stored, values)
        BY <2>4, <3>4, <3>7 DEF Kept, SameButTable, SameOutside
      <3> QED
        BY <3>1, <3>4, <3>8
    <2> QED
      BY <2>5, <2>6, <2>7
  <1> QED
    BY <1>1, <1>2, <1>3

LEMMA MayBecomeTransitive ==
    ASSUME NEW p, NEW q, ~p.configurable, Contract!MayBecome(p, q)
    PROVE  ~q.configurable /\ \A r : Contract!MayBecome(q, r) => Contract!MayBecome(p, r)
  BY DEF Contract!MayBecome

LEMMA KeptTransitive ==
    ASSUME NEW obj1, NEW par1, NEW obj2, NEW par2, NEW obj3, NEW par3,
           Kept(obj1, par1, obj2, par2), Kept(obj2, par2, obj3, par3)
    PROVE  Kept(obj1, par1, obj3, par3)
  <1>1. ASSUME NEW x \in Keys PROVE KeyKept(obj1, par1, obj3, par3, x)
    <2> DEFINE p == get_own_property_descriptor(obj1, par1, x)
               q == get_own_property_descriptor(obj2, par2, x)
               r == get_own_property_descriptor(obj3, par3, x)
    <2>1. KeyKept(obj1, par1, obj2, par2, x) /\ KeyKept(obj2, par2, obj3, par3, x)
          /\ obj2.extensible = obj1.extensible
      BY DEF Kept
    <2>2. /\ has_own(obj1, x) /\ ~p.configurable => has_own(obj2, x) /\ Contract!MayBecome(p, q)
          /\ has_own(obj2, x) /\ ~q.configurable => has_own(obj3, x) /\ Contract!MayBecome(q, r)
          /\ ~obj1.extensible /\ has_own(obj3, x) => has_own(obj1, x)
      BY <2>1 DEF KeyKept
    <2> HIDE DEF p, q, r
    <2>3. has_own(obj1, x) /\ ~p.configurable => has_own(obj3, x) /\ Contract!MayBecome(p, r)
      BY <2>2, MayBecomeTransitive
    <2> QED
      BY <2>2, <2>3 DEF KeyKept, p, q, r
  <1> QED
    BY <1>1 DEF Kept

-----------------------------------------------------------------------------
(* Arrays *)

\* A change of an array that removes only configurable properties.
ArrayStep(obj, obj2) ==
    /\ obj.kind = "array" /\ DOMAIN obj2 = ObjectFields
    /\ obj2.kind = obj.kind /\ obj2.extensible = obj.extensible
    /\ obj2.prototype = obj.prototype /\ obj2.mapped = obj.mapped
    /\ obj2.array_length \in 0..MaxLength /\ obj2.array_length_writable \in BOOLEAN
    /\ obj2.array_length_writable => obj.array_length_writable
    /\ obj2.array_length # obj.array_length => obj.array_length_writable
    /\ DOMAIN obj2.properties \subseteq Keys \ {"length"}
    /\ \A k \in DOMAIN obj2.properties : Complete(obj2.properties[k])
    /\ \A k \in DOMAIN obj.properties :
          ~obj.properties[k].configurable =>
              k \in DOMAIN obj2.properties /\ obj2.properties[k] = obj.properties[k]
    /\ obj2.elements \in Seq(Range(obj2.elements))
    /\ ~obj.extensible => \A x : has_own(obj2, x) => has_own(obj, x)

LEMMA ArrayKeeps ==
    ASSUME NEW obj, Good(obj), NEW par, NEW obj2, ArrayStep(obj, obj2)
    PROVE  Good(obj2) /\ Kept(obj, par, obj2, par)
  <1>a. obj.kind = "array" /\ obj2.kind = "array"
    BY DEF ArrayStep
  <1>n. \A x : mapped_argument_upvalue(obj, x) = Null /\ mapped_argument_upvalue(obj2, x) = Null
    BY <1>a DEF mapped_argument_upvalue
  <1>o. ObjectOK(obj)
    BY DEF Good
  <1>1. ObjectOK(obj2)
    BY <1>a, <1>o DEF ObjectOK, ArrayStep, Complete, InTable
  <1>2. MappedWritable(obj2)
    BY <1>n DEF MappedWritable
  <1>3. ASSUME NEW x \in Keys PROVE KeyKept(obj, par, obj2, par, x)
    <2> DEFINE p == get_own_property_descriptor(obj, par, x)
               q == get_own_property_descriptor(obj2, par, x)
    <2>1. CASE InTable(obj, x)
      <3>1. p = obj.properties[x]
        BY <2>1, <1>n DEF get_own_property_descriptor
      <3>2. ~p.configurable => InTable(obj2, x) /\ obj2.properties[x] = p
        BY <2>1, <3>1 DEF ArrayStep, InTable
      <3>3. InTable(obj2, x) => q = obj2.properties[x]
        BY <1>n DEF get_own_property_descriptor
      <3> QED
        BY <3>2, <3>3 DEF KeyKept, ArrayStep, has_own, Contract!MayBecome
    <2>2. CASE ~InTable(obj, x) /\ x # "length"
      <3>1. has_own(obj, x) => p.configurable
        BY <2>2, <1>a DEF has_own, get_own_property_descriptor, virtual_descriptor, is_virtual,
                          string_exotic_property, data
      <3> QED
        BY <3>1 DEF KeyKept, ArrayStep
    <2>3. CASE ~InTable(obj, x) /\ x = "length"
      <3>1. ~InTable(obj2, x) /\ has_own(obj, x) /\ has_own(obj2, x)
        BY <2>3, <1>a DEF InTable, ArrayStep, has_own, is_virtual
      <3>2. p = data(obj.array_length, obj.array_length_writable, FALSE, FALSE)
        BY <2>3, <1>a DEF get_own_property_descriptor, virtual_descriptor
      <3>3. q = data(obj2.array_length, obj2.array_length_writable, FALSE, FALSE)
        BY <2>3, <3>1, <1>a DEF get_own_property_descriptor, virtual_descriptor
      <3>4. CASE obj.array_length_writable
        BY <3>2, <3>3, <3>4, <3>1 DEF KeyKept, data, Contract!MayBecome, Contract!IsAccessor
      <3>5. CASE ~obj.array_length_writable
        <4>1. obj2.array_length = obj.array_length
          BY <3>5 DEF ArrayStep
        <4>2. obj2.array_length_writable = FALSE /\ obj.array_length_writable = FALSE
          BY <3>5, <1>o DEF ArrayStep, ObjectOK
        <4> QED
          BY <4>1, <4>2, <3>1, <3>2, <3>3 DEF KeyKept, Contract!MayBecome
      <3> QED
        BY <3>4, <3>5
    <2> QED
      BY <2>1, <2>2, <2>3
  <1>4. Kept(obj, par, obj2, par)
    BY <1>3 DEF Kept, ArrayStep
  <1> QED
    BY <1>1, <1>2, <1>4 DEF Good

\* The table of an array keeps what it has.
LEMMA ArrayTable ==
    ASSUME NEW obj, Good(obj), obj.kind = "array"
    PROVE  /\ DOMAIN obj = ObjectFields
           /\ DOMAIN obj.properties \subseteq Keys \ {"length"}
           /\ \A k \in DOMAIN obj.properties : Complete(obj.properties[k])
           /\ obj.array_length \in 0..MaxLength /\ obj.array_length_writable \in BOOLEAN
           /\ obj.elements \in Seq(Range(obj.elements))
           /\ Len(obj.elements) \in Nat /\ DOMAIN obj.elements = 1 .. Len(obj.elements)
  BY DEF Good, ObjectOK, Complete, InTable

LEMMA MaxPair ==
    ASSUME NEW a \in Int, NEW b \in Int
    PROVE  Max({a, b}) = IF a >= b THEN a ELSE b
  BY DEF Max

LEMMA RangeSeq ==
    ASSUME NEW n \in Nat, NEW s, s = [i \in 1..n |-> s[i]]
    PROVE  s \in Seq(Range(s)) /\ Len(s) = n
  <1>1. \A i \in 1..n : s[i] \in Range(s)
    BY DEF Range
  <1> QED
    BY <1>1

\* PlaceDense of a key that is not in the table.
LEMMA Placed ==
    ASSUME NEW obj, Good(obj), obj.kind = "array", NEW k, is_index(k), NEW v,
           ~InTable(obj, k), obj.extensible \/ is_dense(obj, k)
    PROVE  ArrayStep(obj, PlaceDense(obj, canonical_array_index(k), v))
  <1> DEFINE c == canonical_array_index(k) + 1
             e == obj.elements
             n == Max({Len(e), c})
             f == [i \in 1..n |-> IF i = c THEN v ELSE IF i <= Len(e) THEN e[i] ELSE Hole]
             r == PlaceDense(obj, canonical_array_index(k), v)
  <1>1. r = [obj EXCEPT !.elements = f]
    BY DEF PlaceDense
  <1>t. /\ DOMAIN obj = ObjectFields
        /\ DOMAIN obj.properties \subseteq Keys \ {"length"}
        /\ \A x \in DOMAIN obj.properties : Complete(obj.properties[x])
        /\ obj.array_length \in 0..MaxLength /\ obj.array_length_writable \in BOOLEAN
        /\ Len(e) \in Nat
    BY ArrayTable
  <1>c. c \in Nat \ {0} /\ canonical_array_index(k) = c - 1
    BY IndexOf
  <1> HIDE DEF e, c
  <1>n. n \in Nat /\ n >= Len(e) /\ n >= c
    BY <1>t, <1>c, MaxPair
  <1> HIDE DEF n
  <1>f. f \in Seq(Range(f)) /\ Len(f) = n
    BY <1>n, RangeSeq
  <1>e. \A i \in 1..n : i # c => f[i] = IF i <= Len(e) THEN e[i] ELSE Hole
    OBVIOUS
  <1> HIDE DEF f, r
  <1>2. /\ r.elements = f /\ DOMAIN r = ObjectFields
        /\ r.kind = obj.kind /\ r.extensible = obj.extensible /\ r.prototype = obj.prototype
        /\ r.mapped = obj.mapped /\ r.array_length = obj.array_length
        /\ r.array_length_writable = obj.array_length_writable /\ r.properties = obj.properties
    BY <1>1, <1>t DEF ObjectFields
  <1>3. ASSUME ~obj.extensible, NEW x, has_own(r, x) PROVE has_own(obj, x)
    <2>1. is_dense(obj, k)
      BY <1>3
    <2>2. n = Len(e)
      <3>1. c <= Len(e)
        BY <2>1, <1>t, <1>c DEF is_dense, e
      <3> QED
        BY <3>1, <1>t, <1>c, MaxPair DEF n
    <2>3. CASE is_dense(r, x)
      <3>1. is_index(x) /\ canonical_array_index(x) < Len(f) /\ f[canonical_array_index(x) + 1] # Hole
        BY <2>3, <1>2 DEF is_dense
      <3>2. canonical_array_index(x) \in Nat
        BY <3>1, IndexOf
      <3>3. canonical_array_index(x) + 1 # c => is_dense(obj, x)
        BY <3>1, <3>2, <1>f, <1>e, <2>2, <1>t DEF is_dense, e
      <3>4. canonical_array_index(x) + 1 = c => x = k
        BY <3>1, IndexOf DEF c
      <3> QED
        BY <3>3, <3>4, <2>1 DEF has_own, is_virtual
    <2>4. CASE ~is_dense(r, x)
      BY <2>4, <1>3, <1>2 DEF has_own, is_virtual, InTable, string_exotic_property
    <2> QED
      BY <2>3, <2>4
  <1> QED
    BY <1>2, <1>3, <1>t, <1>f DEF ArrayStep, r

\* A dense element that moves to the table.
LEMMA Spilled ==
    ASSUME NEW obj, Good(obj), NEW k \in Keys, is_dense(obj, k), ~InTable(obj, k)
    PROVE  ArrayStep(obj, spill(obj, k)) /\ InTable(spill(obj, k), k)
  <1> DEFINE c == canonical_array_index(k) + 1
             e == obj.elements
             p == virtual_descriptor(obj, k)
             t == AddToTable(obj, k, p)
             f == [e EXCEPT ![c] = Hole]
             r == spill(obj, k)
  <1>k. /\ obj.kind = "array" /\ is_index(k) /\ k # "length"
        /\ c \in 1 .. Len(e)
    BY KeysAssumption, IndexOf, ArrayTable DEF is_dense, is_index
  <1>t. /\ DOMAIN obj = ObjectFields
        /\ DOMAIN obj.properties \subseteq Keys \ {"length"}
        /\ \A x \in DOMAIN obj.properties : Complete(obj.properties[x])
        /\ obj.array_length \in 0..MaxLength /\ obj.array_length_writable \in BOOLEAN
        /\ Len(e) \in Nat /\ e \in Seq(Range(e))
    BY <1>k, ArrayTable
  <1>1. SameButTable(obj, t) /\ t.mapped = obj.mapped /\ t.properties = With(obj.properties, k, p)
    BY Added DEF Good
  <1>2. r = [t EXCEPT !.elements[c] = Hole]
    BY DEF spill
  <1>3. t.elements = e
    BY <1>1 DEF SameButTable, SameOutside
  <1>p. Complete(p)
    <2>1. p = data(e[c], TRUE, TRUE, TRUE)
      BY <1>k DEF virtual_descriptor
    <2> DEFINE v == e[c]
    <2>4. p = data(v, TRUE, TRUE, TRUE)
      BY <2>1
    <2> HIDE DEF p, v
    <2>5. /\ DOMAIN p = DataShape /\ p = [x \in DOMAIN p |-> p[x]]
          /\ p.writable = TRUE /\ p.enumerable = TRUE /\ p.configurable = TRUE
      BY <2>4 DEF data, DataShape
    <2>2. IsDescriptor(p) /\ is_accessor_descriptor(p) = FALSE
      <3>1. \A x \in DOMAIN p \ {"value", "get", "set"} : p[x] \in BOOLEAN
        BY <2>5 DEF DataShape
      <3>2. DOMAIN p \subseteq Fields
        BY <2>5 DEF DataShape, Fields, DataFields
      <3>3. is_accessor_descriptor(p) = FALSE
        BY <2>5 DEF DataShape, AccessorFields, is_accessor_descriptor
      <3> QED
        BY <2>5, <3>1, <3>2, <3>3 DEF IsDescriptor
    <2>3. p = complete_descriptor(p, FALSE)
      BY <2>5 DEF complete_descriptor, DataFields, DataShape
    <2> QED
      BY <2>2, <2>3 DEF Complete
  <1> HIDE DEF t, p, e, c
  <1>4. r = [t EXCEPT !.elements = f]
    BY <1>2, <1>3
  <1>f. /\ f \in Seq(Range(f)) /\ Len(f) = Len(e)
        /\ \A i \in 1 .. Len(e) : i # c => f[i] = e[i]
    <2>1. f = [i \in 1 .. Len(e) |-> f[i]]
      BY <1>t
    <2> QED
      BY <2>1, <1>t, <1>k, RangeSeq
  <1> HIDE DEF f, r
  <1>5. /\ r.elements = f /\ DOMAIN r = ObjectFields
        /\ r.kind = obj.kind /\ r.extensible = obj.extensible /\ r.prototype = obj.prototype
        /\ r.mapped = obj.mapped /\ r.array_length = obj.array_length
        /\ r.array_length_writable = obj.array_length_writable
        /\ r.properties = With(obj.properties, k, p)
    <2>1. DOMAIN t = ObjectFields
      BY <1>1, <1>t DEF SameButTable
    <2>2. /\ r.elements = f /\ DOMAIN r = ObjectFields /\ r.kind = t.kind
          /\ r.extensible = t.extensible /\ r.prototype = t.prototype /\ r.mapped = t.mapped
          /\ r.array_length = t.array_length /\ r.properties = t.properties
          /\ r.array_length_writable = t.array_length_writable
      BY <1>4, <2>1 DEF ObjectFields
    <2> QED
      BY <2>2, <1>1 DEF SameButTable, SameOutside
  <1>6. /\ DOMAIN r.properties = DOMAIN obj.properties \cup {k} /\ r.properties[k] = p
        /\ \A x \in DOMAIN obj.properties : x # k => r.properties[x] = obj.properties[x]
    BY <1>5 DEF With
  <1>7. ASSUME NEW x, has_own(r, x) PROVE has_own(obj, x)
    <2>1. CASE x = k
      BY <2>1, <1>k DEF has_own, is_virtual
    <2>2. CASE x # k /\ is_dense(r, x)
      <3>1. is_index(x) /\ canonical_array_index(x) < Len(f) /\ f[canonical_array_index(x) + 1] # Hole
        BY <2>2, <1>5 DEF is_dense
      <3>2. canonical_array_index(x) \in Nat /\ canonical_array_index(x) + 1 # c
        BY <2>2, <3>1, <1>k, IndexOf DEF c
      <3>3. is_dense(obj, x)
        BY <3>1, <3>2, <1>f, <1>k, <1>t DEF is_dense, e
      <3> QED
        BY <3>3, <1>k DEF has_own, is_virtual
    <2>3. CASE x # k /\ ~is_dense(r, x)
      BY <2>3, <1>7, <1>5, <1>6, <1>k DEF has_own, is_virtual, InTable, string_exotic_property
    <2> QED
      BY <2>1, <2>2, <2>3
  <1>8. \A x \in DOMAIN r.properties : Complete(r.properties[x])
    BY <1>6, <1>t, <1>p
  <1>9. \A x \in DOMAIN obj.properties : x \in DOMAIN r.properties /\ r.properties[x] = obj.properties[x]
    BY <1>6 DEF InTable
  <1> QED
    BY <1>5, <1>6, <1>7, <1>8, <1>9, <1>t, <1>f, <1>k DEF ArrayStep, InTable, r

-----------------------------------------------------------------------------
(* Changes of the length *)

LEMMA SetMin ==
    ASSUME NEW T \in SUBSET Nat, T # {}
    PROVE  \E x \in T : \A y \in T : x <= y
  <1>1. PICK x \in T : \A y \in T : <<y, x>> \notin OpToRel(<, Nat)
    BY NatLessThanWellFounded, WFMin
  <1>2. \A y \in T : ~(y < x)
    BY <1>1 DEF OpToRel
  <1> QED
    BY <1>2

LEMMA SetMax ==
    ASSUME NEW n \in Nat, NEW T \in SUBSET (0..n), T # {}
    PROVE  Max(T) \in T /\ \A y \in T : Max(T) >= y
  <1> DEFINE U == { n - x : x \in T }
  <1>1. U \in SUBSET Nat /\ U # {}
    <2>1. \A x \in T : n - x \in Nat
      OBVIOUS
    <2>2. PICK x \in T : TRUE
      OBVIOUS
    <2>3. n - x \in U
      OBVIOUS
    <2> QED
      BY <2>1, <2>3
  <1>2. PICK u \in U : \A y \in U : u <= y
    BY <1>1, SetMin
  <1>3. PICK x \in T : u = n - x
    OBVIOUS
  <1>4. \A y \in T : x >= y
    <2> TAKE y \in T
    <2>1. n - y \in U
      OBVIOUS
    <2> QED
      BY <2>1, <1>2, <1>3
  <1> QED
    BY <1>4 DEF Max

LEMMA LengthStep ==
    ASSUME NEW obj, Good(obj), obj.kind = "array", NEW n \in 0..MaxLength,
           n # obj.array_length => obj.array_length_writable
    PROVE  ArrayStep(obj, [obj EXCEPT !.array_length = n])
  <1> DEFINE r == [obj EXCEPT !.array_length = n]
  <1>1. DOMAIN obj = ObjectFields
    BY ArrayTable
  <1>2. /\ DOMAIN r = ObjectFields /\ r.array_length = n
        /\ r.kind = obj.kind /\ r.extensible = obj.extensible /\ r.prototype = obj.prototype
        /\ r.mapped = obj.mapped /\ r.elements = obj.elements
        /\ r.array_length_writable = obj.array_length_writable /\ r.properties = obj.properties
    BY <1>1 DEF ObjectFields
  <1> HIDE DEF r
  <1>3. \A x : has_own(r, x) => has_own(obj, x)
    BY <1>2 DEF has_own, is_virtual, InTable, string_exotic_property, is_dense
  <1> QED
    BY <1>2, <1>3, ArrayTable DEF ArrayStep, r

LEMMA LockStep ==
    ASSUME NEW obj, Good(obj), obj.kind = "array", NEW locks \in BOOLEAN
    PROVE  ArrayStep(obj, [obj EXCEPT !.array_length_writable = @ /\ ~locks])
  <1> DEFINE w == obj.array_length_writable /\ ~locks
             r == [obj EXCEPT !.array_length_writable = w]
  <1>0. r = [obj EXCEPT !.array_length_writable = @ /\ ~locks]
    OBVIOUS
  <1>1. DOMAIN obj = ObjectFields /\ w \in BOOLEAN /\ (w => obj.array_length_writable)
    BY ArrayTable
  <1> HIDE DEF w
  <1>2. /\ DOMAIN r = ObjectFields /\ r.array_length_writable = w
        /\ r.kind = obj.kind /\ r.extensible = obj.extensible /\ r.prototype = obj.prototype
        /\ r.mapped = obj.mapped /\ r.elements = obj.elements
        /\ r.array_length = obj.array_length /\ r.properties = obj.properties
    BY <1>1 DEF ObjectFields
  <1> HIDE DEF r
  <1>3. \A x : has_own(r, x) => has_own(obj, x)
    BY <1>2 DEF has_own, is_virtual, InTable, string_exotic_property, is_dense
  <1>4. ArrayStep(obj, r)
    BY <1>1, <1>2, <1>3, ArrayTable DEF ArrayStep
  <1> QED
    BY <1>0, <1>4

LEMMA Dropped ==
    ASSUME NEW obj, ObjectOK(obj), NEW ks
    PROVE  LET r == DropFromTable(obj, ks) IN
           /\ SameButTable(obj, r) /\ r.mapped = obj.mapped
           /\ r.properties = [x \in DOMAIN obj.properties \ ks |-> obj.properties[x]]
  BY DEF DropFromTable, ObjectOK, ObjectFields, SameButTable, SameOutside

\* The loop of ArraySetLength removes only configurable properties.
LEMMA ShrinkStep ==
    ASSUME NEW obj, Good(obj), obj.kind = "array", obj.array_length_writable,
           NEW new \in Nat, new < obj.array_length
    PROVE  ArrayStep(obj, shrink(obj, new).object)
  <1> DEFINE old == obj.array_length
             e == obj.elements
             within(k, low) == /\ is_index(k) /\ canonical_array_index(k) >= low
                               /\ canonical_array_index(k) < old
             blockers == { k \in Range(obj.property_order) :
                             /\ within(k, new) /\ InTable(obj, k)
                             /\ ~obj.properties[k].configurable }
             T == {new} \cup { canonical_array_index(k) + 1 : k \in blockers }
             target == Max(T)
             erased == { k \in DOMAIN obj.properties :
                             within(k, target) /\ obj.properties[k].configurable }
             t == DropFromTable(obj, erased)
             f == IF Len(e) > target THEN SubSeq(e, 1, target) ELSE e
             r == shrink(obj, new).object
  <1>t. /\ DOMAIN obj = ObjectFields
        /\ DOMAIN obj.properties \subseteq Keys \ {"length"}
        /\ \A x \in DOMAIN obj.properties : Complete(obj.properties[x])
        /\ old \in 0..MaxLength /\ obj.array_length_writable \in BOOLEAN
        /\ Len(e) \in Nat /\ e \in Seq(Range(e)) /\ MaxLength \in Nat
    BY ArrayTable, BoundsAssumption
  <1>1. r = [t EXCEPT !.elements = IF Len(@) > target THEN SubSeq(@, 1, target) ELSE @,
                      !.array_length = target]
    BY DEF shrink
  <1>2. \A k \in erased : k \in DOMAIN obj.properties /\ obj.properties[k].configurable
    OBVIOUS
  <1>3. target \in 0..old
    <2>1. \A k \in blockers : canonical_array_index(k) + 1 \in 0..old
      BY <1>t, IndexOf
    <2>2. T \in SUBSET (0..old) /\ T # {} /\ old \in Nat
      BY <2>1, <1>t
    <2> HIDE DEF T
    <2>3. Max(T) \in T
      BY <2>2, SetMax
    <2> QED
      BY <2>2, <2>3
  <1>4. /\ SameButTable(obj, t) /\ t.mapped = obj.mapped
        /\ t.properties = [x \in DOMAIN obj.properties \ erased |-> obj.properties[x]]
    BY Dropped DEF Good
  <1> HIDE DEF t, target, erased
  <1>5. t.elements = e /\ DOMAIN t = ObjectFields
    BY <1>4, <1>t DEF SameButTable, SameOutside
  <1>6. r = [t EXCEPT !.elements = f, !.array_length = target]
    BY <1>1, <1>5
  <1>f. /\ f \in Seq(Range(f)) /\ Len(f) <= Len(e)
        /\ \A i \in 1 .. Len(f) : f[i] = e[i]
    <2>1. CASE Len(e) > target
      <3>1. f = SubSeq(e, 1, target) /\ target \in 0 .. Len(e)
        BY <2>1, <1>3, <1>t
      <3> HIDE DEF f
      <3>2. \A i \in 1 .. target : e[i] \in Range(e)
        BY <3>1, <1>t DEF Range
      <3>3. /\ f \in Seq(Range(e)) /\ Len(f) = target
            /\ \A i \in 1 .. target : f[i] = e[i]
        <4>1. target \in Int /\ 1 \in Int
          BY <3>1
        <4>2. /\ SubSeq(e, 1, target) \in Seq(Range(e))
              /\ Len(SubSeq(e, 1, target)) = IF 1 <= target THEN target - 1 + 1 ELSE 0
              /\ \A i \in 1 .. target - 1 + 1 : SubSeq(e, 1, target)[i] = e[1 + i - 1]
          BY <3>2, <4>1, SubSeqProperties
        <4> QED
          BY <3>1, <4>2, <1>t
      <3>4. f = [i \in 1 .. target |-> f[i]] /\ target \in Nat
        BY <3>1, <3>3, <1>t
      <3>5. f \in Seq(Range(f))
        BY <3>4, RangeSeq
      <3> QED
        BY <3>1, <3>3, <3>5
    <2>2. CASE ~(Len(e) > target)
      BY <2>2, <1>t
    <2> QED
      BY <2>1, <2>2
  <1> HIDE DEF f, r, e
  <1>7. /\ r.elements = f /\ r.array_length = target /\ DOMAIN r = ObjectFields
        /\ r.kind = t.kind /\ r.extensible = t.extensible /\ r.prototype = t.prototype
        /\ r.mapped = t.mapped /\ r.properties = t.properties
        /\ r.array_length_writable = t.array_length_writable
    <2> DEFINE u == [t EXCEPT !.elements = f]
    <2>1. /\ u.elements = f /\ DOMAIN u = ObjectFields
          /\ u.kind = t.kind /\ u.extensible = t.extensible /\ u.prototype = t.prototype
          /\ u.mapped = t.mapped /\ u.properties = t.properties
          /\ u.array_length_writable = t.array_length_writable
      BY <1>5 DEF ObjectFields
    <2>2. r = [u EXCEPT !.array_length = target]
      BY <1>6
    <2> HIDE DEF u
    <2> QED
      BY <2>1, <2>2 DEF ObjectFields
  <1>8. /\ r.kind = obj.kind /\ r.extensible = obj.extensible /\ r.prototype = obj.prototype
        /\ r.mapped = obj.mapped /\ r.array_length_writable = obj.array_length_writable
    BY <1>4, <1>7 DEF SameButTable, SameOutside
  <1>9. /\ DOMAIN r.properties \subseteq DOMAIN obj.properties
        /\ \A x \in DOMAIN r.properties : r.properties[x] = obj.properties[x]
        /\ \A x \in DOMAIN obj.properties :
              ~obj.properties[x].configurable => x \in DOMAIN r.properties
    BY <1>2, <1>4, <1>7
  <1>10. ASSUME NEW x, has_own(r, x) PROVE has_own(obj, x)
    <2>1. CASE is_dense(r, x)
      <3>1. is_index(x) /\ canonical_array_index(x) < Len(f) /\ f[canonical_array_index(x) + 1] # Hole
        BY <2>1, <1>7 DEF is_dense
      <3>2. canonical_array_index(x) \in Nat
        BY <3>1, IndexOf
      <3>3. is_dense(obj, x)
        BY <3>1, <3>2, <1>f, <1>t DEF is_dense, e
      <3> QED
        BY <3>3 DEF has_own, is_virtual, is_dense
    <2>2. CASE ~is_dense(r, x)
      BY <2>2, <1>10, <1>8, <1>9 DEF has_own, is_virtual, InTable, string_exotic_property
    <2> QED
      BY <2>1, <2>2
  <1> QED
    BY <1>3, <1>7, <1>8, <1>9, <1>10, <1>t, <1>f DEF ArrayStep, r

\* What every operation on one object keeps.
Safe(obj, par, outcome) ==
    Good(outcome.object) /\ Kept(obj, par, outcome.object, outcome.parameters)

LEMMA LengthKeeps ==
    ASSUME NEW obj, Good(obj), obj.kind = "array", NEW par, NEW d
    PROVE  Safe(obj, par, define_array_length(obj, par, d))
  <1> DEFINE locks == "writable" \in DOMAIN d /\ ~d.writable
             Lock(o) == [o EXCEPT !.array_length_writable = @ /\ ~locks]
             new == d.value
             cut == shrink(obj, new)
             grown == [obj EXCEPT !.array_length = new]
             r == define_array_length(obj, par, d)
  <1>l. ASSUME NEW o, Good(o), o.kind = "array", Kept(obj, par, o, par)
        PROVE  Good(Lock(o)) /\ Kept(obj, par, Lock(o), par)
    <2>1. locks \in BOOLEAN
      OBVIOUS
    <2> HIDE DEF locks
    <2>2. ArrayStep(o, Lock(o))
      BY <1>l, <2>1, LockStep
    <2> HIDE DEF Lock
    <2>3. Good(Lock(o)) /\ Kept(o, par, Lock(o), par)
      BY <1>l, <2>2, ArrayKeeps
    <2> QED
      BY <1>l, <2>3, KeptTransitive
  <1>same. Kept(obj, par, obj, par)
    BY ParametersMove
  <1>k. \A o : Kept(obj, par, o, par) => o.kind = "array"
    BY DEF Kept
  <1>1. CASE r.object = obj /\ r.parameters = par
    BY <1>1, <1>same DEF Safe
  <1>2. CASE r.object = Lock(obj) /\ r.parameters = par
    BY <1>2, <1>same, <1>l DEF Safe
  <1>3. CASE /\ new \in 0..MaxLength
             /\ new # obj.array_length => obj.array_length_writable
             /\ r.object = Lock(grown) /\ r.parameters = par
    <2>1. ArrayStep(obj, grown)
      BY <1>3, LengthStep
    <2> HIDE DEF grown
    <2>2. Good(grown) /\ Kept(obj, par, grown, par)
      BY <2>1, ArrayKeeps
    <2>3. Good(Lock(grown)) /\ Kept(obj, par, Lock(grown), par)
      BY <2>2, <1>k, <1>l
    <2> QED
      BY <1>3, <2>3 DEF Safe
  <1>4. CASE /\ new \in 0..MaxLength /\ new < obj.array_length /\ obj.array_length_writable
             /\ r.object = Lock(cut.object) /\ r.parameters = par
    <2>1. ArrayStep(obj, cut.object)
      BY <1>4, BoundsAssumption, ShrinkStep
    <2>2. Good(cut.object) /\ Kept(obj, par, cut.object, par)
      BY <2>1, ArrayKeeps
    <2> HIDE DEF cut
    <2>3. Good(Lock(cut.object)) /\ Kept(obj, par, Lock(cut.object), par)
      BY <2>2, <1>k, <1>l
    <2> QED
      BY <1>4, <2>3 DEF Safe
  <1>5. \/ r.object = obj /\ r.parameters = par
        \/ r.object = Lock(obj) /\ r.parameters = par
        \/ /\ new \in 0..MaxLength
           /\ new # obj.array_length => obj.array_length_writable
           /\ r.object = Lock(grown) /\ r.parameters = par
        \/ /\ new \in 0..MaxLength /\ new < obj.array_length /\ obj.array_length_writable
           /\ r.object = Lock(cut.object) /\ r.parameters = par
    <2>1. obj.array_length \in 0..MaxLength /\ MaxLength \in Nat
      BY ArrayTable, BoundsAssumption
    <2> DEFINE A == \/ is_accessor_descriptor(d)
                    \/ Flag(d, "enumerable") \/ Flag(d, "configurable")
                    \/ Flag(d, "writable") /\ ~obj.array_length_writable
               B == "value" \notin DOMAIN d
               C == new \notin 0..MaxLength
               D == new # obj.array_length /\ ~obj.array_length_writable
               E == new >= obj.array_length
    <2>2. r = IF A THEN Outcome(obj, par, FALSE)
              ELSE IF B THEN Outcome(Lock(obj), par, TRUE)
              ELSE IF C THEN Outcome(obj, par, "error")
              ELSE IF D THEN Outcome(obj, par, FALSE)
              ELSE IF E THEN Outcome(Lock(grown), par, TRUE)
              ELSE Outcome(Lock(cut.object), par, cut.complete)
      BY DEF define_array_length
    <2>3. ~C /\ ~E => new < obj.array_length /\ new # obj.array_length
      BY <2>1
    <2>4. ~D => (new # obj.array_length => obj.array_length_writable)
      OBVIOUS
    <2> HIDE DEF r, A, B, D, E, Lock, grown, cut
    <2>5. \A o, res : Outcome(o, par, res).object = o /\ Outcome(o, par, res).parameters = par
      BY DEF Outcome
    <2> QED
      BY <2>2, <2>3, <2>4, <2>5
  <1> QED
    BY <1>1, <1>2, <1>3, <1>4, <1>5

LEMMA CreateKeeps ==
    ASSUME NEW obj, Good(obj), obj.kind = "array", NEW par, NEW k \in Keys, is_index(k),
           ~InTable(obj, k), ~is_dense(obj, k), NEW d, IsDescriptor(d)
    PROVE  Safe(obj, par, create_array_element(obj, par, k, d))
  <1> DEFINE index == canonical_array_index(k)
             keep_dense == /\ dense_compatible_descriptor(d)
                           /\ index <= Len(obj.elements) + DenseReach
                           /\ index < DenseLimit
             full == complete_descriptor(d, is_accessor_descriptor(d))
             placed == IF keep_dense THEN PlaceDense(obj, index, d.value)
                       ELSE AddToTable(obj, k, full)
             n == Max({placed.array_length, index + 1})
             grown == [placed EXCEPT !.array_length = n]
             r == create_array_element(obj, par, k, d)
  <1>k. k # "length" /\ index \in Nat /\ index < Len(IndexNames)
    BY IndexOf, KeysAssumption DEF is_index
  <1>1. CASE ~obj.extensible \/ (index >= obj.array_length /\ ~obj.array_length_writable)
    <2>1. r.object = obj /\ r.parameters = par
      BY <1>1 DEF create_array_element, Outcome
    <2> QED
      BY <2>1, ParametersMove DEF Safe
  <1>2. CASE obj.extensible /\ (index >= obj.array_length => obj.array_length_writable)
    <2>1. r.object = grown /\ r.parameters = par
      BY <1>2 DEF create_array_element, Outcome
    <2>2. /\ Good(placed) /\ Kept(obj, par, placed, par)
          /\ placed.array_length = obj.array_length
          /\ placed.array_length_writable = obj.array_length_writable
      <3>1. CASE keep_dense
        <4>1. ArrayStep(obj, PlaceDense(obj, index, d.value))
          BY <1>2, Placed
        <4>2. /\ Good(PlaceDense(obj, index, d.value))
              /\ Kept(obj, par, PlaceDense(obj, index, d.value), par)
          BY <4>1, ArrayKeeps
        <4>3. /\ PlaceDense(obj, index, d.value).array_length = obj.array_length
              /\ PlaceDense(obj, index, d.value).array_length_writable = obj.array_length_writable
          BY ArrayTable DEF PlaceDense, ObjectFields
        <4> QED
          BY <3>1, <4>2, <4>3
      <3>2. CASE ~keep_dense
        <4>1. Complete(full)
          BY MakesComplete DEF is_accessor_descriptor
        <4>2. ~is_virtual(obj, k)
          BY <1>k DEF is_virtual, string_exotic_property
        <4>3. Good(AddToTable(obj, k, full)) /\ Kept(obj, par, AddToTable(obj, k, full), par)
          BY <1>2, <1>k, <4>1, <4>2, AddKeeps
        <4>4. SameButTable(obj, AddToTable(obj, k, full))
          BY Added DEF Good
        <4> QED
          BY <3>2, <4>3, <4>4 DEF SameButTable, SameOutside
      <3> QED
        BY <3>1, <3>2
    <2>3. placed.kind = "array"
      BY <2>2 DEF Kept
    <2> HIDE DEF placed
    <2>4. n \in 0..MaxLength /\ (n # placed.array_length => placed.array_length_writable)
      <3>1. obj.array_length \in 0..MaxLength /\ MaxLength \in Nat /\ Len(IndexNames) <= MaxLength
            /\ Len(IndexNames) \in Nat
        BY ArrayTable, BoundsAssumption, KeysAssumption
      <3>2. n = IF obj.array_length >= index + 1 THEN obj.array_length ELSE index + 1
        BY <2>2, <3>1, <1>k, MaxPair
      <3> QED
        BY <3>1, <3>2, <2>2, <1>2, <1>k
    <2>5. ArrayStep(placed, grown)
      BY <2>2, <2>3, <2>4, LengthStep
    <2>6. Good(grown) /\ Kept(placed, par, grown, par)
      BY <2>2, <2>5, ArrayKeeps
    <2>7. Kept(obj, par, grown, par)
      BY <2>2, <2>6, KeptTransitive
    <2> QED
      BY <2>1, <2>6, <2>7 DEF Safe
  <1> QED
    BY <1>1, <1>2

-----------------------------------------------------------------------------
(* The operations *)

LEMMA DefineKeeps ==
    ASSUME NEW obj, Good(obj), NEW par, NEW k \in Keys, NEW d, IsDescriptor(d)
    PROVE  Safe(obj, par, define_own_property(obj, par, k, d))
  <1> DEFINE dense == is_dense(obj, k) /\ ~InTable(obj, k)
             r == define_own_property(obj, par, k, d)
             v == PlaceDense(obj, canonical_array_index(k), d.value)
  <1>a. dense => obj.kind = "array" /\ is_index(k) /\ k # "length"
    BY KeysAssumption DEF is_dense, is_index
  <1>1. CASE Malformed(d) \/ string_exotic_property(obj, k)
    <2>1. r.object = obj /\ r.parameters = par
      BY <1>1 DEF define_own_property, Outcome
    <2> QED
      BY <2>1, ParametersMove DEF Safe
  <1>2. CASE ~Malformed(d) /\ ~string_exotic_property(obj, k) /\ obj.kind = "array" /\ k = "length"
    <2>1. r = define_array_length(obj, par, d)
      BY <1>2 DEF define_own_property
    <2> QED
      BY <1>2, <2>1, LengthKeeps
  <1>3. CASE /\ ~Malformed(d) /\ ~string_exotic_property(obj, k)
             /\ obj.kind = "array" /\ is_index(k) /\ ~dense /\ ~InTable(obj, k)
    <2>1. k # "length"
      BY <1>3, KeysAssumption DEF is_index
    <2>2. r = create_array_element(obj, par, k, d)
      BY <1>3, <2>1 DEF define_own_property
    <2> QED
      BY <1>3, <2>2, CreateKeeps
  <1>4. CASE /\ ~Malformed(d) /\ ~string_exotic_property(obj, k)
             /\ dense /\ dense_compatible_descriptor(d)
    <2>1. r = Outcome(v, par, TRUE)
      BY <1>4, <1>a DEF define_own_property
    <2>2. ArrayStep(obj, v)
      BY <1>4, <1>a, Placed
    <2> HIDE DEF v
    <2>3. Good(v) /\ Kept(obj, par, v, par)
      BY <2>2, ArrayKeeps
    <2> QED
      BY <2>1, <2>3 DEF Safe, Outcome
  <1>5. CASE /\ ~Malformed(d) /\ ~string_exotic_property(obj, k)
             /\ dense /\ ~dense_compatible_descriptor(d)
    <2> DEFINE s == spill(obj, k)
    <2>1. r = validate_and_apply(s, par, k, d)
      BY <1>5, <1>a DEF define_own_property
    <2>2. ArrayStep(obj, s) /\ InTable(s, k)
      BY <1>5, Spilled
    <2> HIDE DEF s
    <2>3. Good(s) /\ Kept(obj, par, s, par)
      BY <2>2, ArrayKeeps
    <2>4. Good(r.object) /\ Kept(s, par, r.object, r.parameters)
      BY <1>5, <1>a, <2>1, <2>2, <2>3, ValidateKeeps
    <2> HIDE DEF r
    <2>5. Kept(obj, par, r.object, r.parameters)
      BY <2>3, <2>4, KeptTransitive
    <2> QED
      BY <2>4, <2>5 DEF Safe, r
  <1>6. CASE /\ ~Malformed(d) /\ ~string_exotic_property(obj, k) /\ ~dense
             /\ ~(obj.kind = "array" /\ k = "length")
             /\ ~(obj.kind = "array" /\ is_index(k) /\ ~InTable(obj, k))
    <2>1. r = validate_and_apply(obj, par, k, d)
      BY <1>6 DEF define_own_property
    <2>2. ~InTable(obj, k) => obj.kind = "function" \/ ~is_virtual(obj, k)
      BY <1>6 DEF is_virtual, is_dense
    <2> QED
      BY <1>6, <2>1, <2>2, ValidateKeeps DEF Safe
  <1> QED
    BY <1>1, <1>2, <1>3, <1>4, <1>5, <1>6

\* The table of obj2 has lost k, and the parameter of k is not mapped.
Untabled(obj, obj2, k) ==
    /\ SameButTable(obj, obj2)
    /\ obj2.properties = [x \in DOMAIN obj.properties \ {k} |-> obj.properties[x]]
    /\ obj2.mapped \in Seq(Parameters \cup {Null})
    /\ obj2.mapped # <<>> => obj.mapped # <<>>
    /\ \A x : x # k => mapped_argument_upvalue(obj2, x) = mapped_argument_upvalue(obj, x)
    /\ mapped_argument_upvalue(obj2, k) = Null

LEMMA DropStep ==
    ASSUME NEW obj, Good(obj), NEW par, NEW k \in Keys, InTable(obj, k),
           obj.properties[k].configurable, NEW obj2, Untabled(obj, obj2, k)
    PROVE  Good(obj2) /\ Kept(obj, par, obj2, par)
  <1>s. /\ SameButTable(obj, obj2)
        /\ obj2.properties = [x \in DOMAIN obj.properties \ {k} |-> obj.properties[x]]
        /\ obj2.mapped \in Seq(Parameters \cup {Null})
        /\ obj2.mapped # <<>> => obj.mapped # <<>>
        /\ \A x : x # k => mapped_argument_upvalue(obj2, x) = mapped_argument_upvalue(obj, x)
        /\ mapped_argument_upvalue(obj2, k) = Null
    BY DEF Untabled
  <1>o. ObjectOK(obj)
    BY DEF Good
  <1>1. \A x : x # k => /\ InTable(obj2, x) <=> InTable(obj, x)
                        /\ InTable(obj, x) => obj2.properties[x] = obj.properties[x]
    BY <1>s DEF InTable
  <1>2. \A x \in DOMAIN obj2.properties :
           x \in DOMAIN obj.properties /\ obj2.properties[x] = obj.properties[x]
    BY <1>s
  <1>3. ObjectOK(obj2)
    <2>1. /\ DOMAIN obj2 = ObjectFields
          /\ obj2.prototype \in Objects \cup {Null}
          /\ obj2.extensible \in BOOLEAN /\ obj2.array_length_writable \in BOOLEAN
          /\ obj2.array_length \in 0..MaxLength
          /\ obj2.elements \in Seq(Range(obj2.elements))
          /\ obj2.elements # <<>> => obj2.kind = "array"
          /\ obj2.mapped # <<>> => obj2.kind = "arguments"
          /\ obj2.mapped \in Seq(Parameters \cup {Null})
      BY <1>s, <1>o DEF ObjectOK, SameButTable, SameOutside
    <2>2. DOMAIN obj2.properties \subseteq Keys
      BY <1>2, <1>o DEF ObjectOK
    <2>3. \A x \in DOMAIN obj2.properties : Complete(obj2.properties[x])
      BY <1>2, <1>o DEF ObjectOK, Complete
    <2>4. obj2.kind = "array" => ~InTable(obj2, "length")
      BY <1>2, <1>s, <1>o DEF ObjectOK, InTable, SameButTable, SameOutside
    <2> QED
      BY <2>1, <2>2, <2>3, <2>4 DEF ObjectOK, Complete
  <1>4. MappedWritable(obj2)
    <2> SUFFICES ASSUME NEW x \in Keys, mapped_argument_upvalue(obj2, x) # Null
                 PROVE  InTable(obj2, x) /\ Flag(obj2.properties[x], "writable")
      BY DEF MappedWritable
    <2>1. x # k /\ mapped_argument_upvalue(obj, x) # Null
      BY <1>s
    <2>2. InTable(obj, x) /\ Flag(obj.properties[x], "writable")
      BY <2>1 DEF Good, MappedWritable
    <2> QED
      BY <2>1, <2>2, <1>1
  <1>5. ASSUME NEW x \in Keys PROVE KeyKept(obj, par, obj2, par, x)
    <2>1. CASE x = k
      <3>1. get_own_property_descriptor(obj, par, k).configurable
        BY TableDescriptor
      <3> QED
        BY <2>1, <3>1 DEF KeyKept, has_own
    <2>2. CASE x # k /\ InTable(obj, x)
      BY <2>2, <1>1, <1>s, KeyUnchanged
    <2>3. CASE x # k /\ ~InTable(obj, x)
      BY <2>3, <1>1, <1>s, KeyOutside, OutsideAgrees DEF SameButTable
    <2> QED
      BY <2>1, <2>2, <2>3
  <1>6. Kept(obj, par, obj2, par)
    BY <1>5, <1>s DEF Kept, SameButTable, SameOutside
  <1> QED
    BY <1>3, <1>4, <1>6 DEF Good

\* A dense element becomes a hole.
LEMMA HoleStep ==
    ASSUME NEW obj, Good(obj), NEW k, is_dense(obj, k), ~InTable(obj, k)
    PROVE  ArrayStep(obj, [obj EXCEPT !.elements[canonical_array_index(k) + 1] = Hole])
  <1> DEFINE c == canonical_array_index(k) + 1
             e == obj.elements
             f == [e EXCEPT ![c] = Hole]
             r == [obj EXCEPT !.elements[c] = Hole]
  <1>k. obj.kind = "array" /\ is_index(k) /\ c \in 1 .. Len(e)
    BY IndexOf, ArrayTable DEF is_dense
  <1>t. /\ DOMAIN obj = ObjectFields
        /\ Len(e) \in Nat /\ e \in Seq(Range(e))
    BY <1>k, ArrayTable
  <1>1. r = [obj EXCEPT !.elements = f]
    OBVIOUS
  <1> HIDE DEF e, c
  <1>f. /\ f \in Seq(Range(f)) /\ Len(f) = Len(e)
        /\ \A i \in 1 .. Len(e) : i # c => f[i] = e[i]
    <2>1. f = [i \in 1 .. Len(e) |-> f[i]]
      BY <1>t
    <2> QED
      BY <2>1, <1>t, <1>k, RangeSeq
  <1> HIDE DEF f, r
  <1>2. /\ r.elements = f /\ DOMAIN r = ObjectFields
        /\ r.kind = obj.kind /\ r.extensible = obj.extensible /\ r.prototype = obj.prototype
        /\ r.mapped = obj.mapped /\ r.array_length = obj.array_length
        /\ r.array_length_writable = obj.array_length_writable /\ r.properties = obj.properties
    BY <1>1, <1>t DEF ObjectFields
  <1>3. ASSUME NEW x, has_own(r, x) PROVE has_own(obj, x)
    <2>1. CASE x = k
      BY <2>1, <1>k DEF has_own, is_virtual
    <2>2. CASE x # k /\ is_dense(r, x)
      <3>1. is_index(x) /\ canonical_array_index(x) < Len(f) /\ f[canonical_array_index(x) + 1] # Hole
        BY <2>2, <1>2 DEF is_dense
      <3>2. canonical_array_index(x) \in Nat /\ canonical_array_index(x) + 1 # c
        BY <2>2, <3>1, <1>k, IndexOf DEF c
      <3>3. is_dense(obj, x)
        BY <3>1, <3>2, <1>f, <1>k, <1>t DEF is_dense, e
      <3> QED
        BY <3>3, <1>k DEF has_own, is_virtual
    <2>3. CASE x # k /\ ~is_dense(r, x)
      BY <2>3, <1>3, <1>2, <1>k DEF has_own, is_virtual, InTable, string_exotic_property
    <2> QED
      BY <2>1, <2>2, <2>3
  <1> QED
    BY <1>2, <1>3, <1>f, <1>k, ArrayTable DEF ArrayStep, r, c

LEMMA DeleteKeeps ==
    ASSUME NEW obj, Good(obj), NEW par, NEW k \in Keys
    PROVE  Safe(obj, par, delete_property(obj, par, k))
           /\ delete_property(obj, par, k).parameters = par
  <1> DEFINE r == delete_property(obj, par, k)
             t == DropFromTable(obj, {k})
             u == [t EXCEPT !.mapped[canonical_array_index(k) + 1] = Null]
             h == [obj EXCEPT !.elements[canonical_array_index(k) + 1] = Hole]
  <1>1. CASE r = Outcome(obj, par, FALSE) \/ r = Outcome(obj, par, TRUE)
    <2>1. r.object = obj /\ r.parameters = par
      BY <1>1 DEF Outcome
    <2> QED
      BY <2>1, ParametersMove DEF Safe
  <1>2. CASE ~InTable(obj, k) /\ is_dense(obj, k) /\ r = Outcome(h, par, TRUE)
    <2>1. ArrayStep(obj, h)
      BY <1>2, HoleStep
    <2> HIDE DEF h, r
    <2>2. Good(h) /\ Kept(obj, par, h, par)
      BY <2>1, ArrayKeeps
    <2> QED
      BY <1>2, <2>2 DEF Safe, Outcome, r
  <1>d. /\ SameButTable(obj, t) /\ t.mapped = obj.mapped
        /\ t.properties = [x \in DOMAIN obj.properties \ {k} |-> obj.properties[x]]
    BY Dropped DEF Good
  <1>u. \A x : mapped_argument_upvalue(t, x) = mapped_argument_upvalue(obj, x)
    BY <1>d DEF mapped_argument_upvalue, SameButTable, SameOutside
  <1>m. obj.mapped \in Seq(Parameters \cup {Null}) /\ DOMAIN obj = ObjectFields
    BY DEF Good, ObjectOK
  <1> HIDE DEF t
  <1>3. CASE /\ InTable(obj, k) /\ obj.properties[k].configurable
             /\ mapped_argument_upvalue(obj, k) = Null /\ r = Outcome(t, par, TRUE)
    <2>1. Untabled(obj, t, k)
      BY <1>3, <1>d, <1>u, <1>m DEF Untabled
    <2>2. Good(t) /\ Kept(obj, par, t, par)
      BY <1>3, <2>1, DropStep
    <2> HIDE DEF r
    <2> QED
      BY <1>3, <2>2 DEF Safe, Outcome, r
  <1>4. CASE /\ InTable(obj, k) /\ obj.properties[k].configurable
             /\ mapped_argument_upvalue(obj, k) # Null /\ r = Outcome(u, par, TRUE)
    <2> DEFINE n == [t.mapped EXCEPT ![canonical_array_index(k) + 1] = Null]
    <2>1. u = [t EXCEPT !.mapped = n]
      OBVIOUS
    <2>2. n = [obj.mapped EXCEPT ![canonical_array_index(k) + 1] = Null]
      BY <1>d
    <2>3. DOMAIN t = ObjectFields
      BY <1>d, <1>m DEF SameButTable
    <2> HIDE DEF u, n, r
    <2>4. SameButTable(t, u) /\ u.properties = t.properties /\ u.mapped = n
      BY <2>1, <2>3 DEF SameButTable, SameOutside, ObjectFields
    <2>5. SameButTable(obj, u)
      BY <2>4, <1>d DEF SameButTable, SameOutside
    <2>6. is_index(k) /\ canonical_array_index(k) < Len(obj.mapped)
      BY <1>4 DEF mapped_argument_upvalue
    <2>7. Unmaps(obj, u, k)
      BY <2>2, <2>4, <2>5, <2>6, <1>m DEF Unmaps, SameButTable, SameOutside
    <2>8. Untabled(obj, u, k)
      BY <2>4, <2>5, <2>7, <1>d, Unmapping DEF Untabled
    <2>9. Good(u) /\ Kept(obj, par, u, par)
      BY <1>4, <2>8, DropStep
    <2> QED
      BY <1>4, <2>9 DEF Safe, Outcome, r
  <1> QED
    BY <1>1, <1>2, <1>3, <1>4 DEF delete_property, t

LEMMA PopKeeps ==
    ASSUME NEW obj, Good(obj), obj.kind = "array", NEW par, NEW index,
           IndexNames[index + 1] \in Keys
    PROVE  Safe(obj, par, finish_pop(obj, par, index))
  <1> DEFINE t == delete_property(obj, par, IndexNames[index + 1])
             r == finish_pop(obj, par, index)
             d == [value |-> index]
  <1>1. Safe(obj, par, t) /\ t.parameters = par
    BY DeleteKeeps
  <1>2. r = IF ~t.result THEN t ELSE define_array_length(t.object, par, d)
    BY DEF finish_pop
  <1> HIDE DEF t, r, d
  <1>3. Good(t.object) /\ t.object.kind = "array" /\ Kept(obj, par, t.object, par)
    BY <1>1 DEF Safe, Kept
  <1>4. Safe(t.object, par, define_array_length(t.object, par, d))
    BY <1>3, LengthKeeps
  <1>5. CASE ~t.result
    BY <1>1, <1>2, <1>5 DEF r
  <1>6. CASE t.result
    <2>1. r = define_array_length(t.object, par, d)
      BY <1>2, <1>6
    <2>2. Good(r.object) /\ Kept(t.object, par, r.object, r.parameters)
      BY <2>1, <1>4 DEF Safe
    <2>3. Kept(obj, par, r.object, r.parameters)
      BY <2>2, <1>3, KeptTransitive
    <2> QED
      BY <2>2, <2>3 DEF Safe, r
  <1> QED
    BY <1>5, <1>6

-----------------------------------------------------------------------------
(* Prototype chains *)

\* A prototype that no chain through it leads back from closes no cycle.
LEMMA Reparented ==
    ASSUME NEW h, Grounded(h), NEW g, NEW o \in Objects, NEW p, ~creates_cycle(h, o, p),
           g[o].prototype = p, \A x \in Objects : x # o => g[x].prototype = h[x].prototype
    PROVE  Grounded(g)
  <1> SUFFICES ASSUME NEW S \in SUBSET Objects, S # {}, \A x \in S : g[x].prototype \in S
               PROVE  FALSE
    BY DEF Grounded
  <1>1. CASE o \notin S
    <2>1. \A x \in S : h[x].prototype \in S
      BY <1>1
    <2> QED
      BY <2>1 DEF Grounded
  <1>2. CASE o \in S
    <2>1. p \in S /\ p # Null
      BY <1>2, KeysAssumption
    <2>2. PICK C \in SUBSET Objects :
             p \in C /\ (\A y \in C : h[y].prototype \in C \cup {Null}) /\ o \notin C
      BY <2>1 DEF creates_cycle, chain
    <2> DEFINE D == C \cap S
    <2>3. \A y \in D : h[y].prototype \in D
      <3> SUFFICES ASSUME NEW y \in D PROVE h[y].prototype \in D
        OBVIOUS
      <3>1. h[y].prototype = g[y].prototype /\ g[y].prototype \in S
        BY <2>2
      <3>2. h[y].prototype # Null
        BY <3>1, KeysAssumption
      <3> QED
        BY <3>1, <3>2, <2>2
    <2>4. D # {} /\ D \in SUBSET Objects
      BY <2>1, <2>2
    <2> QED
      BY <2>3, <2>4 DEF Grounded
  <1> QED
    BY <1>1, <1>2

-----------------------------------------------------------------------------
(* The steps *)

\* The calls of array_pop that wait for a getter.
PendingPops == popping \in Seq([array : Objects, index : 0 .. Len(IndexNames) - 1])

\* The inductive invariant.
Inv == TypeOK /\ MappedAreWritable /\ ChainsEnd /\ PendingPops

\* What a step does to the objects.
ObjectsKept ==
    /\ heap' = [o \in Objects |-> heap'[o]]
    /\ \A o \in Objects :
          /\ Good(heap'[o]) /\ heap'[o].kind = heap[o].kind
          /\ \A x \in Keys : KeyKept(heap[o], parameters, heap'[o], parameters', x)
          /\ ~heap[o].extensible =>
                ~heap'[o].extensible /\ heap'[o].prototype = heap[o].prototype

LEMMA Initially == Init => Inv
  <1> SUFFICES ASSUME Init PROVE Inv
    OBVIOUS
  <1>1. /\ heap = [o \in Objects |-> heap[o]]
        /\ \A o \in Objects : ObjectOK(heap[o]) /\ MappedWritable(heap[o])
        /\ Grounded(heap)
    BY HeapsAssumption DEF Init
  <1>2. popping = <<>>
    BY DEF Init
  <1>3. PendingPops /\ DOMAIN popping = {}
    BY <1>2 DEF PendingPops
  <1> QED
    BY <1>1, <1>3 DEF Inv, TypeOK, MappedAreWritable, ChainsEnd

LEMMA AllGood ==
    ASSUME Inv, NEW o \in Objects
    PROVE  Good(heap[o])
  BY DEF Inv, TypeOK, MappedAreWritable, Good

\* An operation on one object that ends with a safe outcome.
LEMMA Committed ==
    ASSUME Inv, NEW o \in Objects, NEW r, Safe(heap[o], parameters, r), Commit(o, r)
    PROVE  ObjectsKept /\ \A x \in Objects : heap'[x].prototype = heap[x].prototype
  <1>1. heap = [x \in Objects |-> heap[x]]
    BY DEF Inv, TypeOK
  <1>2. /\ heap' = [x \in Objects |-> heap'[x]]
        /\ heap'[o] = r.object
        /\ \A x \in Objects : x # o => heap'[x] = heap[x]
        /\ parameters' = r.parameters
    BY <1>1 DEF Commit
  <1>3. ASSUME NEW x \in Objects
        PROVE  Good(heap'[x]) /\ Kept(heap[x], parameters, heap'[x], parameters')
    <2>1. CASE x = o
      BY <2>1, <1>2 DEF Safe
    <2>2. CASE x # o
      <3>1. Good(heap[x]) /\ heap'[x] = heap[x]
        BY <2>2, <1>2, AllGood
      <3> QED
        BY <3>1, ParametersMove
    <2> QED
      BY <2>1, <2>2
  <1> QED
    BY <1>2, <1>3 DEF ObjectsKept, Kept

\* The invariant follows from what the step does to the objects.
LEMMA InvStep ==
    ASSUME Inv, ObjectsKept, Grounded(heap'),
           \/ popping' = popping
           \/ popping # <<>> /\ popping' = Front(popping)
           \/ \E o \in Objects, i \in 0 .. Len(IndexNames) - 1 :
                 heap[o].kind = "array" /\ popping' = Append(popping, [array |-> o, index |-> i])
    PROVE  Inv'
  <1> DEFINE P == [array : Objects, index : 0 .. Len(IndexNames) - 1]
  <1>1. popping \in Seq(P) /\ \A i \in DOMAIN popping : heap[popping[i].array].kind = "array"
    BY DEF Inv, TypeOK, PendingPops
  <1>2. /\ popping' \in Seq(P)
        /\ \A i \in DOMAIN popping' : heap[popping'[i].array].kind = "array"
    <2>1. CASE popping' = popping
      BY <2>1, <1>1
    <2>2. CASE popping # <<>> /\ popping' = Front(popping)
      <3>1. popping' = SubSeq(popping, 1, Len(popping) - 1)
        BY <2>2 DEF Front
      <3> HIDE DEF P
      <3>2. Len(popping) \in Nat \ {0}
        BY <2>2, <1>1
      <3>3. \A i \in 1 .. Len(popping) - 1 : popping[i] \in P
        BY <1>1, <3>2
      <3>4. /\ popping' \in Seq(P) /\ Len(popping') = Len(popping) - 1
            /\ \A i \in 1 .. Len(popping) - 1 : popping'[i] = popping[i]
        <4>1. Len(popping) - 1 \in Int /\ 1 \in Int
          BY <3>2
        <4> DEFINE n == Len(popping) - 1
        <4>2. n \in Int /\ \A i \in 1 .. n : popping[i] \in P
          BY <3>3, <4>1
        <4>3. popping' = SubSeq(popping, 1, n)
          BY <3>1
        <4> HIDE DEF n
        <4>4. /\ SubSeq(popping, 1, n) \in Seq(P)
              /\ Len(SubSeq(popping, 1, n)) = IF 1 <= n THEN n - 1 + 1 ELSE 0
              /\ \A i \in 1 .. n - 1 + 1 : SubSeq(popping, 1, n)[i] = popping[1 + i - 1]
          BY <4>1, <4>2, SubSeqProperties
        <4>5. n \in Nat /\ n = Len(popping) - 1
          BY <3>2 DEF n
        <4>6. Len(popping') = n /\ \A i \in 1 .. n : popping'[i] = popping[i]
          BY <4>3, <4>4, <4>5
        <4>7. popping' \in Seq(P)
          BY <4>3, <4>4
        <4> QED
          BY <4>5, <4>6, <4>7
      <3> QED
        BY <3>4, <3>2, <1>1
    <2>3. CASE \E o \in Objects, i \in 0 .. Len(IndexNames) - 1 :
                 heap[o].kind = "array" /\ popping' = Append(popping, [array |-> o, index |-> i])
      <3>1. PICK o \in Objects, i \in 0 .. Len(IndexNames) - 1 :
                 heap[o].kind = "array" /\ popping' = Append(popping, [array |-> o, index |-> i])
        BY <2>3
      <3> DEFINE e == [array |-> o, index |-> i]
      <3>2. e \in P /\ e.array = o
        OBVIOUS
      <3> HIDE DEF e, P
      <3>3. popping' = Append(popping, e)
        BY <3>1 DEF e
      <3> QED
        BY <3>1, <3>2, <3>3, <1>1
    <2> QED
      BY <2>1, <2>2, <2>3
  <1>3. \A i \in DOMAIN popping' : popping'[i].array \in Objects
    <2>1. \A e \in P : e.array \in Objects
      OBVIOUS
    <2> HIDE DEF P
    <2>2. \A i \in DOMAIN popping' : popping'[i] \in P
      BY <1>2
    <2> QED
      BY <2>1, <2>2
  <1>4. TypeOK'
    <2>1. \A i \in DOMAIN popping' : heap'[popping'[i].array].kind = "array"
      BY <1>2, <1>3 DEF ObjectsKept
    <2>2. heap' = [o \in Objects |-> heap'[o]] /\ \A o \in Objects : ObjectOK(heap'[o])
      BY DEF ObjectsKept, Good
    <2> QED
      BY <2>1, <2>2, <1>3 DEF TypeOK
  <1>5. MappedAreWritable'
    BY DEF ObjectsKept, Good, MappedAreWritable
  <1>6. ChainsEnd' /\ PendingPops'
    BY <1>2 DEF ChainsEnd, PendingPops
  <1> QED
    BY <1>4, <1>5, <1>6 DEF Inv

LEMMA OwnDescriptors ==
    ASSUME NEW obj, NEW k, NEW v
    PROVE  IsDescriptor(set_own_descriptor(obj, k, v)) /\ IsDescriptor(data(v, TRUE, TRUE, TRUE))
  <1> DEFINE a == [value |-> v]
             b == data(v, TRUE, TRUE, TRUE)
  <1>1. IsDescriptor(a)
    <2>1. DOMAIN a = {"value"}
      OBVIOUS
    <2>2. a = [f \in DOMAIN a |-> a[f]]
      OBVIOUS
    <2> HIDE DEF a
    <2> QED
      BY <2>1, <2>2 DEF IsDescriptor, Fields, DataFields
  <1>2. IsDescriptor(b)
    <2>1. /\ DOMAIN b = DataShape /\ b = [f \in DOMAIN b |-> b[f]]
          /\ b.writable = TRUE /\ b.enumerable = TRUE /\ b.configurable = TRUE
      BY DEF data, DataShape
    <2> HIDE DEF b
    <2>2. \A f \in DOMAIN b \ {"value", "get", "set"} : b[f] \in BOOLEAN
      BY <2>1 DEF DataShape
    <2>3. DOMAIN b \subseteq Fields
      BY <2>1 DEF DataShape, Fields, DataFields
    <2> QED
      BY <2>1, <2>2, <2>3 DEF IsDescriptor
  <1> QED
    BY <1>1, <1>2 DEF set_own_descriptor

\* A step that leaves the heap alone.
LEMMA HeapAlone ==
    ASSUME Inv, heap' = heap
    PROVE  ObjectsKept /\ Grounded(heap')
  <1>1. ASSUME NEW x \in Objects
        PROVE  Good(heap'[x]) /\ Kept(heap[x], parameters, heap'[x], parameters')
    <2>1. Good(heap[x]) /\ heap'[x] = heap[x]
      BY AllGood
    <2> QED
      BY <2>1, ParametersMove
  <1>2. heap' = [o \in Objects |-> heap'[o]]
    BY DEF Inv, TypeOK
  <1>3. Grounded(heap')
    BY DEF Inv, ChainsEnd
  <1> QED
    BY <1>1, <1>2, <1>3 DEF ObjectsKept, Kept

\* Only the prototype or the extensibility of one object changes.
LEMMA AttributeStep ==
    ASSUME NEW obj, Good(obj), NEW obj2, NEW par, SameOutside(obj, obj2),
           DOMAIN obj2 = DOMAIN obj, obj2.properties = obj.properties, obj2.mapped = obj.mapped,
           obj2.prototype \in Objects \cup {Null}, obj2.extensible \in BOOLEAN
    PROVE  /\ Good(obj2) /\ obj2.kind = obj.kind
           /\ \A x \in Keys : KeyKept(obj, par, obj2, par, x)
  <1>1. ObjectOK(obj2)
    BY DEF Good, ObjectOK, SameOutside, InTable
  <1>2. \A x : /\ mapped_argument_upvalue(obj2, x) = mapped_argument_upvalue(obj, x)
               /\ InTable(obj2, x) <=> InTable(obj, x)
    BY DEF mapped_argument_upvalue, SameOutside, InTable
  <1>3. MappedWritable(obj2)
    BY <1>2 DEF Good, MappedWritable
  <1>4. ASSUME NEW x \in Keys PROVE KeyKept(obj, par, obj2, par, x)
    <2>1. CASE InTable(obj, x)
      BY <2>1, <1>2, KeyUnchanged
    <2>2. CASE ~InTable(obj, x)
      BY <2>2, <1>2, KeyOutside, OutsideAgrees
    <2> QED
      BY <2>1, <2>2
  <1> QED
    BY <1>1, <1>3, <1>4 DEF Good, SameOutside

LEMMA SealKeeps ==
    ASSUME Inv, NEW o \in Objects, PreventExtensions(o)
    PROVE  ObjectsKept /\ Grounded(heap')
  <1> DEFINE obj == heap[o]
             e == [obj EXCEPT !.extensible = FALSE]
  <1>1. heap = [x \in Objects |-> heap[x]]
    BY DEF Inv, TypeOK
  <1>2. heap' = [heap EXCEPT ![o] = e] /\ parameters' = parameters
    BY DEF PreventExtensions
  <1>3. Good(obj) /\ DOMAIN obj = ObjectFields /\ obj.prototype \in Objects \cup {Null}
    BY AllGood DEF Good, ObjectOK
  <1> HIDE DEF obj
  <1>4. /\ SameOutside(obj, e) /\ DOMAIN e = DOMAIN obj /\ e.properties = obj.properties
        /\ e.mapped = obj.mapped /\ e.prototype = obj.prototype /\ e.extensible = FALSE
    BY <1>3 DEF SameOutside, ObjectFields
  <1> HIDE DEF e
  <1>5. /\ Good(e) /\ e.kind = obj.kind
        /\ \A x \in Keys : KeyKept(obj, parameters, e, parameters, x)
    BY <1>3, <1>4, AttributeStep
  <1>6. /\ heap' = [x \in Objects |-> heap'[x]] /\ heap'[o] = e
        /\ \A x \in Objects : x # o => heap'[x] = heap[x]
    BY <1>1, <1>2
  <1>7. ASSUME NEW x \in Objects
        PROVE  /\ Good(heap'[x]) /\ heap'[x].kind = heap[x].kind
               /\ \A k \in Keys : KeyKept(heap[x], parameters, heap'[x], parameters', k)
               /\ ~heap[x].extensible => ~heap'[x].extensible
               /\ heap'[x].prototype = heap[x].prototype
    <2>1. CASE x = o
      BY <2>1, <1>2, <1>4, <1>5, <1>6 DEF obj
    <2>2. CASE x # o
      <3>1. Good(heap[x]) /\ heap'[x] = heap[x]
        BY <2>2, <1>6, AllGood
      <3> QED
        BY <3>1, ParametersMove DEF Kept
    <2> QED
      BY <2>1, <2>2
  <1>8. Grounded(heap')
    BY <1>7 DEF Inv, ChainsEnd, Grounded
  <1> QED
    BY <1>6, <1>7, <1>8 DEF ObjectsKept

LEMMA ReparentKeeps ==
    ASSUME Inv, NEW o \in Objects, NEW p \in Objects \cup {Null}, SetPrototype(o, p)
    PROVE  ObjectsKept /\ Grounded(heap')
  <1> DEFINE obj == heap[o]
             e == [obj EXCEPT !.prototype = p]
  <1>1. heap = [x \in Objects |-> heap[x]] /\ Grounded(heap)
    BY DEF Inv, TypeOK, ChainsEnd
  <1>2. heap' = [heap EXCEPT ![o] = e] /\ parameters' = parameters /\ obj.extensible
        /\ ~creates_cycle(heap, o, p)
    BY DEF SetPrototype
  <1>3. Good(obj) /\ DOMAIN obj = ObjectFields /\ obj.extensible \in BOOLEAN
    BY AllGood DEF Good, ObjectOK
  <1> HIDE DEF obj
  <1>4. /\ SameOutside(obj, e) /\ DOMAIN e = DOMAIN obj /\ e.properties = obj.properties
        /\ e.mapped = obj.mapped /\ e.prototype = p /\ e.extensible = obj.extensible
    BY <1>3 DEF SameOutside, ObjectFields
  <1> HIDE DEF e
  <1>5. /\ Good(e) /\ e.kind = obj.kind
        /\ \A x \in Keys : KeyKept(obj, parameters, e, parameters, x)
    BY <1>3, <1>4, AttributeStep
  <1>6. /\ heap' = [x \in Objects |-> heap'[x]] /\ heap'[o] = e
        /\ \A x \in Objects : x # o => heap'[x] = heap[x]
    BY <1>1, <1>2
  <1>7. ASSUME NEW x \in Objects
        PROVE  /\ Good(heap'[x]) /\ heap'[x].kind = heap[x].kind
               /\ \A k \in Keys : KeyKept(heap[x], parameters, heap'[x], parameters', k)
               /\ ~heap[x].extensible =>
                     ~heap'[x].extensible /\ heap'[x].prototype = heap[x].prototype
    <2>1. CASE x = o
      BY <2>1, <1>2, <1>4, <1>5, <1>6 DEF obj
    <2>2. CASE x # o
      <3>1. Good(heap[x]) /\ heap'[x] = heap[x]
        BY <2>2, <1>6, AllGood
      <3> QED
        BY <3>1, ParametersMove DEF Kept
    <2> QED
      BY <2>1, <2>2
  <1>8. Grounded(heap')
    BY <1>1, <1>2, <1>4, <1>6, Reparented
  <1> QED
    BY <1>6, <1>7, <1>8 DEF ObjectsKept

\* An operation on one object leaves the prototypes alone.
LEMMA CommitKeeps ==
    ASSUME Inv, NEW o \in Objects, NEW r, Safe(heap[o], parameters, r), Commit(o, r)
    PROVE  ObjectsKept /\ Grounded(heap')
  <1>1. ObjectsKept /\ \A x \in Objects : heap'[x].prototype = heap[x].prototype
    BY Committed
  <1> QED
    BY <1>1 DEF Inv, ChainsEnd, Grounded

\* What a step does to the pending pops.
PoppingStep ==
    \/ popping' = popping
    \/ popping # <<>> /\ popping' = Front(popping)
    \/ \E o \in Objects, i \in 0 .. Len(IndexNames) - 1 :
          heap[o].kind = "array" /\ popping' = Append(popping, [array |-> o, index |-> i])

StepKeeps == ObjectsKept /\ Grounded(heap') /\ PoppingStep

LEMMA NamesAreKeys ==
    /\ Len(IndexNames) \in Nat
    /\ \A i \in 1 .. Len(IndexNames) : IndexNames[i] \in Keys
  BY KeysAssumption

LEMMA NextKeeps ==
    ASSUME Inv, Next
    PROVE  StepKeeps
  <1>1. ASSUME NEW t \in Definitions, DefineOwnProperty(t[1], t[2], t[3]) PROVE StepKeeps
    <2> DEFINE o == t[1]
               r == define_own_property(heap[o], parameters, t[2], t[3])
    <2>1. o \in Objects /\ t[2] \in Keys /\ IsDescriptor(t[3])
      BY InputsAssumption
    <2>2. Safe(heap[o], parameters, r)
      BY <2>1, AllGood, DefineKeeps
    <2>3. Commit(o, r) /\ popping' = popping
      BY <1>1 DEF DefineOwnProperty
    <2> HIDE DEF o, r
    <2> QED
      BY <2>1, <2>2, <2>3, CommitKeeps DEF StepKeeps, PoppingStep
  <1>2. ASSUME NEW t \in Writes, SetData(t[1], t[2], t[3], t[4]) PROVE StepKeeps
    <2> DEFINE o == t[4]
               d == set_own_descriptor(heap[o], t[2], t[3])
               r == define_own_property(heap[o], parameters, t[2], d)
    <2>1. o \in Objects /\ t[2] \in Keys
      BY InputsAssumption
    <2>d. IsDescriptor(d)
      BY OwnDescriptors
    <2>3. Commit(o, r) /\ popping' = popping
      BY <1>2 DEF SetData
    <2> HIDE DEF d, o
    <2>2. Safe(heap[o], parameters, r)
      BY <2>1, <2>d, AllGood, DefineKeeps
    <2> HIDE DEF r
    <2> QED
      BY <2>1, <2>2, <2>3, CommitKeeps DEF StepKeeps, PoppingStep
  <1>3. ASSUME NEW t \in Writes, SetOwnProperty(t[1], t[2], t[3]) PROVE StepKeeps
    <2> DEFINE o == t[1]
               d == set_own_descriptor(heap[o], t[2], t[3])
               r == define_own_property(heap[o], parameters, t[2], d)
    <2>1. o \in Objects /\ t[2] \in Keys
      BY InputsAssumption
    <2>d. IsDescriptor(d)
      BY OwnDescriptors
    <2>3. Commit(o, r) /\ popping' = popping
      BY <1>3 DEF SetOwnProperty
    <2> HIDE DEF d, o
    <2>2. Safe(heap[o], parameters, r)
      BY <2>1, <2>d, AllGood, DefineKeeps
    <2> HIDE DEF r
    <2> QED
      BY <2>1, <2>2, <2>3, CommitKeeps DEF StepKeeps, PoppingStep
  <1>4. ASSUME NEW t \in Deletions, DeleteProperty(t[1], t[2]) PROVE StepKeeps
    <2> DEFINE o == t[1]
               r == delete_property(heap[o], parameters, t[2])
    <2>1. o \in Objects /\ t[2] \in Keys
      BY InputsAssumption
    <2>2. Safe(heap[o], parameters, r)
      BY <2>1, AllGood, DeleteKeeps
    <2>3. Commit(o, r) /\ popping' = popping
      BY <1>4 DEF DeleteProperty
    <2> HIDE DEF o, r
    <2> QED
      BY <2>1, <2>2, <2>3, CommitKeeps DEF StepKeeps, PoppingStep
  <1>5. ASSUME NEW t \in Reparentings, SetPrototype(t[1], t[2]) PROVE StepKeeps
    <2>1. t[1] \in Objects /\ t[2] \in Objects \cup {Null}
      BY InputsAssumption
    <2>2. ObjectsKept /\ Grounded(heap')
      BY <2>1, <1>5, ReparentKeeps
    <2>3. popping' = popping
      BY <1>5 DEF SetPrototype
    <2> QED
      BY <2>2, <2>3 DEF StepKeeps, PoppingStep
  <1>6. ASSUME NEW o \in Sealable, PreventExtensions(o) PROVE StepKeeps
    <2>1. o \in Objects
      BY InputsAssumption
    <2>2. ObjectsKept /\ Grounded(heap')
      BY <2>1, <1>6, SealKeeps
    <2>3. popping' = popping
      BY <1>6 DEF PreventExtensions
    <2> QED
      BY <2>2, <2>3 DEF StepKeeps, PoppingStep
  <1>7. ASSUME NEW o \in Objects, ArrayPop(o) PROVE StepKeeps
    <2> DEFINE index == heap[o].array_length - 1
               r == finish_pop(heap[o], parameters, index)
    <2>1. heap[o].kind = "array" /\ heap[o].array_length \in 1 .. Len(IndexNames)
          /\ Commit(o, r) /\ popping' = popping
      BY <1>7 DEF ArrayPop
    <2>2. IndexNames[index + 1] \in Keys
      BY <2>1, NamesAreKeys
    <2> HIDE DEF index
    <2>3. Safe(heap[o], parameters, r)
      BY <2>1, <2>2, AllGood, PopKeeps
    <2> HIDE DEF r
    <2> QED
      BY <2>1, <2>3, CommitKeeps DEF StepKeeps, PoppingStep
  <1>8. ASSUME NEW o \in Objects, ArrayPopCallsGetter(o) PROVE StepKeeps
    <2> DEFINE index == heap[o].array_length - 1
    <2>1. /\ heap[o].kind = "array" /\ heap[o].array_length \in 1 .. Len(IndexNames)
          /\ heap' = heap /\ popping' = Append(popping, [array |-> o, index |-> index])
      BY <1>8 DEF ArrayPopCallsGetter
    <2>2. index \in 0 .. Len(IndexNames) - 1
      BY <2>1, NamesAreKeys
    <2> HIDE DEF index
    <2>3. PoppingStep
      BY <2>1, <2>2 DEF PoppingStep
    <2> QED
      BY <2>1, <2>3, HeapAlone DEF StepKeeps
  <1>9. ASSUME NEW o \in Objects, NEW v \in Pushed, ArrayPush(o, v) PROVE StepKeeps
    <2> DEFINE k == IndexNames[heap[o].array_length + 1]
               d == data(v, TRUE, TRUE, TRUE)
               r == define_own_property(heap[o], parameters, k, d)
    <2>1. /\ heap[o].kind = "array" /\ heap[o].array_length < Len(IndexNames)
          /\ Commit(o, r) /\ popping' = popping
      BY <1>9 DEF ArrayPush
    <2>2. Good(heap[o]) /\ heap[o].array_length \in 0 .. MaxLength /\ MaxLength \in Nat
      BY AllGood, BoundsAssumption DEF Good, ObjectOK
    <2>3. k \in Keys
      BY <2>1, <2>2, NamesAreKeys
    <2>d. IsDescriptor(d)
      BY OwnDescriptors
    <2> HIDE DEF k, d
    <2>4. Safe(heap[o], parameters, r)
      BY <2>2, <2>3, <2>d, DefineKeeps
    <2> HIDE DEF r
    <2> QED
      BY <2>1, <2>4, CommitKeeps DEF StepKeeps, PoppingStep
  <1>10. ASSUME NEW p \in Parameters, NEW v \in Pushed, AssignParameter(p, v) PROVE StepKeeps
    <2>1. heap' = heap /\ popping' = popping
      BY <1>10 DEF AssignParameter
    <2> QED
      BY <2>1, HeapAlone DEF StepKeeps, PoppingStep
  <1>11. CASE GetterReturns
    <2> DEFINE call == Last(popping)
               o == call.array
               index == call.index
               r == finish_pop(heap[o], parameters, index)
    <2>1. popping # <<>> /\ Commit(o, r) /\ popping' = Front(popping)
      BY <1>11 DEF GetterReturns
    <2>2. o \in Objects /\ heap[o].kind = "array" /\ index \in 0 .. Len(IndexNames) - 1
      <3> DEFINE P == [array : Objects, index : 0 .. Len(IndexNames) - 1]
                 n == Len(popping)
      <3>1. popping \in Seq(P) /\ \A i \in DOMAIN popping : heap[popping[i].array].kind = "array"
        BY DEF Inv, TypeOK, PendingPops
      <3>2. \A e \in P : e.array \in Objects /\ e.index \in 0 .. Len(IndexNames) - 1
        OBVIOUS
      <3> HIDE DEF P
      <3>3. n \in DOMAIN popping /\ popping[n] \in P
        BY <2>1, <3>1
      <3>4. call = popping[n]
        BY DEF Last
      <3> HIDE DEF call, n
      <3> QED
        BY <3>1, <3>2, <3>3, <3>4
    <2>3. IndexNames[index + 1] \in Keys
      BY <2>2, NamesAreKeys
    <2> HIDE DEF o, index
    <2>4. Safe(heap[o], parameters, r)
      BY <2>2, <2>3, AllGood, PopKeeps
    <2> HIDE DEF r
    <2> QED
      BY <2>1, <2>2, <2>4, CommitKeeps DEF StepKeeps, PoppingStep
  <1>12. CASE GetterThrows
    <2>1. heap' = heap /\ popping # <<>> /\ popping' = Front(popping)
      BY <1>12 DEF GetterThrows
    <2> QED
      BY <2>1, HeapAlone DEF StepKeeps, PoppingStep
  <1> QED
    BY <1>1, <1>2, <1>3, <1>4, <1>5, <1>6, <1>7, <1>8, <1>9, <1>10, <1>11, <1>12 DEF Next

LEMMA StutterKeeps ==
    ASSUME Inv, UNCHANGED vars
    PROVE  StepKeeps
  BY HeapAlone DEF vars, StepKeeps, PoppingStep

LEMMA Inductive == Inv /\ [Next]_vars => StepKeeps /\ Inv'
  <1>1. Inv /\ [Next]_vars => StepKeeps
    BY NextKeeps, StutterKeeps
  <1>2. Inv /\ StepKeeps => Inv'
    BY InvStep DEF StepKeeps, PoppingStep
  <1> QED
    BY <1>1, <1>2

THEOREM Invariant == Spec => []Inv
  <1>1. Init => Inv
    BY Initially
  <1>2. Inv /\ [Next]_vars => Inv'
    BY Inductive
  <1> QED
    BY <1>1, <1>2, PTL DEF Spec

-----------------------------------------------------------------------------
(* The results *)

\* TypesHold: the tables hold complete descriptors, every object has the parts
\* its kind has, and a pop that waits for a getter belongs to an array.
THEOREM TypesHold == Spec => []TypeOK
  BY Invariant, PTL DEF Inv

\* MappedStayWritable: no sequence of definitions, deletions and writes leaves an
\* argument tied to a parameter whose property is read-only, an accessor or gone.
THEOREM MappedStayWritable == Spec => []MappedAreWritable
  BY Invariant, PTL DEF Inv

\* PrototypesEnd: the check of set_prototype keeps every prototype chain finite,
\* whatever the chains look like when the call is made.
THEOREM PrototypesEnd == Spec => []ChainsEnd
  BY Invariant, PTL DEF Inv

LEMMA LawfulStep ==
    ASSUME ObjectsKept, NEW o \in Objects
    PROVE  Contract!Lawful(o)
  <1> DEFINE own == [x \in Objects |-> own_view(heap[x], parameters)]
             v == own_view(heap[o], parameters)
             w == own_view(heap'[o], parameters')
  <1>1. own[o] = v /\ own'[o] = w
    OBVIOUS
  <1>2. /\ DOMAIN v = { x \in Keys : has_own(heap[o], x) }
        /\ \A x \in DOMAIN v : v[x] = get_own_property_descriptor(heap[o], parameters, x)
        /\ DOMAIN w = { x \in Keys : has_own(heap'[o], x) }
        /\ \A x \in DOMAIN w : w[x] = get_own_property_descriptor(heap'[o], parameters', x)
    BY DEF own_view
  <1>3. /\ \A x \in Keys : KeyKept(heap[o], parameters, heap'[o], parameters', x)
        /\ ~heap[o].extensible =>
              ~heap'[o].extensible /\ heap'[o].prototype = heap[o].prototype
    BY DEF ObjectsKept
  <1> HIDE DEF v, w, own
  <1>4. \A x \in DOMAIN v : ~v[x].configurable => x \in DOMAIN w /\ Contract!MayBecome(v[x], w[x])
    BY <1>2, <1>3 DEF KeyKept
  <1>5. ~heap[o].extensible => DOMAIN w \subseteq DOMAIN v
    BY <1>2, <1>3 DEF KeyKept
  <1> QED
    BY <1>1, <1>3, <1>4, <1>5 DEF Contract!Lawful, own

\* ContractKept: the tables, the dense elements, the mapped parameters and the
\* virtual properties implement ObjectContract, every step a step or a stutter.
THEOREM ContractKept == Spec => KeepsContract
  <1>1. StepKeeps => Contract!Next
    <2> SUFFICES ASSUME ObjectsKept PROVE Contract!Next
      BY DEF StepKeeps
    <2> QED
      BY LawfulStep DEF Contract!Next
  <1>2. Inv /\ [Next]_vars =>
          [Contract!Next]_<<[o \in Objects |-> own_view(heap[o], parameters)],
                            [o \in Objects |-> heap[o].extensible],
                            [o \in Objects |-> heap[o].prototype]>>
    BY <1>1, Inductive
  <1>3. Contract!Init
    BY DEF Contract!Init
  <1> QED
    BY <1>2, <1>3, Invariant, PTL DEF Spec, KeepsContract, Contract!Spec
=============================================================================
