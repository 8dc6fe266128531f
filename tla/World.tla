------------------------------- MODULE World -------------------------------
(***************************************************************************)
(* The objects a program works on and the operations of the language on    *)
(* them (src/src/runtime/abstract_operations.cpp and the property          *)
(* operations of src/src/runtime/context.cpp), as functions of a world w:  *)
(* w.h is the sequence of objects, w.log what the host's log was given.    *)
(*                                                                         *)
(* An operation ends in [w, k, v]: k is "normal", "throw" (a completion    *)
(* with an exception) or "error" (the engine's own failure, which no       *)
(* handler of the program sees).  Of the accessors only that of "callee"   *)
(* in strict code is there.  A function of the program that an operation   *)
(* would have to call is the error "nested": such executions are those of  *)
(* Harness.                                                                *)
(***************************************************************************)
EXTENDS Syntax

Out(w, k, v)    == [w |-> w, k |-> k, v |-> v]
Normal(w, v)    == Out(w, "normal", v)
ThrowErr(w, e)  == Out(w, "throw", Err(e))
Fail(w, e)      == Out(w, "error", Err(e))
\* What follows an operation that ended normally.
Then(r, F(_, _)) == IF r.k = "normal" THEN F(r.w, r.v) ELSE r

IsObject(v)  == v.type \in {"object", "function"}
Nullish(v)   == v.type \in {"undefined", "null"}
MaxIndex     == 4
IndexOf(x)   == {i \in 0 .. MaxIndex : ToString(i) = x}

-----------------------------------------------------------------------------
(* Objects.  The length of an array is its property "length".              *)

Data(v, w, e, c) == [v |-> v, w |-> w, e |-> e, c |-> c]
NoFunction == [native |-> "", is |-> FALSE]
Native(x)  == [native |-> x, is |-> TRUE]
NewObject(proto) == [keys |-> <<>>, props |-> [x \in {} |-> 0], proto |-> proto,
                     array |-> FALSE, prim |-> Undefined, fn |-> NoFunction]

GlobalObject == 1
ObjectProto  == 2
ArrayProto   == 3

Alloc(w, o) == Normal([w EXCEPT !.h = Append(@, o)],
                      IF o.fn.is THEN Fun(Len(w.h) + 1) ELSE Obj(Len(w.h) + 1))
object(w)   == Alloc(w, NewObject(ObjectProto))
array(w)    ==
  Alloc(w, [NewObject(ArrayProto) EXCEPT !.array = TRUE, !.keys = <<"length">>,
              !.props = ("length" :> Data(Num(0), TRUE, FALSE, FALSE))])
box_primitive(w, v) == Alloc(w, [NewObject(ObjectProto) EXCEPT !.prim = v])

Own(w, i, x)   == x \in DOMAIN w.h[i].props
Value(w, i, x) == w.h[i].props[x].v

\* An index past the end of an array makes it longer.
Lengthened(o, x) ==
  IF o.array /\ IndexOf(x) # {} /\ \A i \in IndexOf(x) : i >= o.props["length"].v.n
  THEN [o EXCEPT !.props["length"].v = Num(1 + CHOOSE i \in IndexOf(x) : TRUE)]
  ELSE o

Define(w, i, x, d) ==
  [w EXCEPT !.h[i] = Lengthened([@ EXCEPT !.props = (x :> d) @@ @,
                                          !.keys = IF x \in DOMAIN w.h[i].props THEN @
                                                   ELSE Append(@, x)], x)]

\* define_own_property with a new value for a property that is there or a new
\* data property.
define_own_property(w, i, x, d) ==
  CASE ~Own(w, i, x)        -> Normal(Define(w, i, x, d), Bool(TRUE))
    [] Own(w, i, x) /\ (w.h[i].props[x].w \/ w.h[i].props[x].c) ->
         Normal(Define(w, i, x, d), Bool(TRUE))
    [] OTHER -> Normal(w, Bool(Value(w, i, x) = d.v))

set_own_property(w, i, x, v) ==
  Define(w, i, x, IF Own(w, i, x) THEN [w.h[i].props[x] EXCEPT !.v = v]
                                  ELSE Data(v, TRUE, TRUE, TRUE))

create_data_property(w, o, x, v) ==
  Normal(define_own_property(w, o.n, x, Data(v, TRUE, TRUE, TRUE)).w, o)

\* Indices in ascending order, then the other keys as they were added.
own_property_keys(w, i) ==
  LET keys == w.h[i].keys
      indices == {k \in 0 .. MaxIndex : ToString(k) \in ToSet(keys)}
      sorted == SetToSortSeq(indices, <)
  IN  [k \in DOMAIN sorted |-> ToString(sorted[k])]
        \o SelectSeq(keys, LAMBDA x : IndexOf(x) = {})

\* The objects of a prototype chain; holder is the first with the property.
RECURSIVE Chain(_, _)
Chain(w, i) == IF i = 0 THEN <<>> ELSE <<i>> \o Chain(w, w.h[i].proto)
Holder(w, i, x) ==
  LET on == SelectSeq(Chain(w, i), LAMBDA j : Own(w, j, x))
  IN  IF on = <<>> THEN 0 ELSE Head(on)

has_property(w, i, x) == Holder(w, i, x) # 0

\* The one accessor: the getter and the setter of "callee" in strict code
\* throw a string.
CalleeThrower == Val("accessor", 0, "ThrowTypeError")
arguments_callee_thrower(w) == Out(w, "throw", Str("TypeError"))

get_property_semantic(w, v, x) ==
  LET o == IF IsObject(v) THEN Normal(w, v) ELSE box_primitive(w, v)
      at == Holder(o.w, o.v.n, x)
  IN  CASE Nullish(v) -> ThrowErr(w, "TypeError")
        [] ~Nullish(v) /\ at = 0 -> Normal(o.w, Undefined)
        [] OTHER -> IF Value(o.w, at, x) = CalleeThrower THEN arguments_callee_thrower(o.w)
                    ELSE Normal(o.w, Value(o.w, at, x))

\* The value is true when the property was written.
set_property_semantic(w, v, x, value) ==
  LET at == Holder(w, v.n, x)
  IN  CASE Nullish(v) -> ThrowErr(w, "TypeError")
        [] ~Nullish(v) /\ ~IsObject(v) -> Normal(box_primitive(w, v).w, Bool(FALSE))
        [] IsObject(v) /\ at # 0 /\ Value(w, at, x) = CalleeThrower -> arguments_callee_thrower(w)
        [] IsObject(v) /\ at # 0 /\ ~w.h[at].props[x].w -> Normal(w, Bool(FALSE))
        [] IsObject(v) /\ Own(w, v.n, x) ->
             define_own_property(w, v.n, x, [w.h[v.n].props[x] EXCEPT !.v = value])
        [] OTHER -> define_own_property(w, v.n, x, Data(value, TRUE, TRUE, TRUE))

delete_property(w, i, x) ==
  IF ~Own(w, i, x) THEN Normal(w, Bool(TRUE))
  ELSE IF ~w.h[i].props[x].c THEN Normal(w, Bool(FALSE))
  ELSE Normal([w EXCEPT !.h[i].keys = SelectSeq(@, LAMBDA y : y # x),
                        !.h[i].props = [y \in DOMAIN @ \ {x} |-> @[y]]], Bool(TRUE))

array_push(w, a, v) ==
  create_data_property(w, a, ToString(Value(w, a.n, "length").n), v)

\* The elements an array holds, holes read as undefined.
ElementsOf(w, a) ==
  [i \in 1 .. Value(w, a.n, "length").n |->
     get_property_semantic(w, a, ToString(i - 1)).v]
RECURSIVE ArrayOf(_, _)
ArrayOf(r, list) ==
  IF list = <<>> THEN r ELSE ArrayOf(array_push(r.w, r.v, Head(list)), Tail(list))

\* The arguments object.  The code maps its elements to the parameters of a
\* sloppy function; that mapping is in Objects.
ArgumentsObject(w, args, callee, strict) ==
  LET made == Alloc(w, NewObject(ObjectProto))
      o == made.v.n
      filled == FoldLeftDomain(LAMBDA u, i : set_own_property(u, o, ToString(i - 1), args[i]),
                               made.w, args)
      length == Define(filled, o, "length", Data(Num(Len(args)), TRUE, FALSE, TRUE))
      self == Define(length, o, "callee", IF strict THEN Data(CalleeThrower, TRUE, FALSE, FALSE)
                                          ELSE Data(callee, TRUE, FALSE, TRUE))
  IN  Normal(Define(self, o, "@@iterator",
                    Data(Value(w, ArrayProto, "@@iterator"), TRUE, FALSE, TRUE)), made.v)

-----------------------------------------------------------------------------
(* Functions an operation calls.  The built-in ones: the host's log, the   *)
(* iterators of arrays, what Object.prototype converts objects with.       *)

array_iterator(w, this) ==
  Then(object(w), LAMBDA u, it :
    Normal(set_own_property(set_own_property(set_own_property(
             u, it.n, "_array", this), it.n, "_index", Num(0)),
             it.n, "next", Value(w, ArrayProto, "next")), it))

array_iterator_next(w, it) ==
  LET a == Value(w, it.n, "_array")
      i == Value(w, it.n, "_index").n
      length == get_property_semantic(w, a, "length").v.n
      element == get_property_semantic(w, a, ToString(i)).v
  IN  Then(object(w), LAMBDA u, r :
        LET Result(x, done, v) ==
              set_own_property(set_own_property(x, r.n, "done", Bool(done)), r.n, "value", v)
        IN  IF i >= length THEN Normal(Result(u, TRUE, Undefined), r)
            ELSE Normal(set_own_property(Result(u, FALSE, element), it.n, "_index",
                                         Num(i + 1)), r))

\* The built-ins: log and say are the host's (say logs its receiver's name and
\* returns it: a conversion the program can observe).
CallNative(w, f, this, args) ==
  LET arg == IF args = <<>> THEN Undefined ELSE args[1]
      said == Value(w, this.n, "text")
  IN  CASE f = "log"      -> Normal([w EXCEPT !.log = Append(@, arg)], arg)
        [] f = "say"      -> Normal([w EXCEPT !.log = Append(@, said)], said)
        [] f = "values"   -> array_iterator(w, this)
        [] f = "next"     -> array_iterator_next(w, this)
        [] f = "toString" -> Normal(w, Str("[object]"))
        [] f = "valueOf"  -> Normal(w, this)
        [] f = "raise"    -> Out(w, "throw", arg)

call(w, f, this, args) ==
  IF f.type # "function" THEN ThrowErr(w, "TypeError")
  ELSE IF w.h[f.n].fn.native = "" THEN Fail(w, "nested")
  ELSE CallNative(w, w.h[f.n].fn.native, this, args)

get_method(w, v, x) ==
  Then(get_property_semantic(w, v, x), LAMBDA u, f :
    IF Nullish(f) THEN Normal(u, Undefined)
    ELSE IF f.type = "function" THEN Normal(u, f) ELSE ThrowErr(u, "TypeError"))

-----------------------------------------------------------------------------
(* Conversions.                                                            *)

to_boolean(v) ==
  CASE v.type \in {"boolean", "number"} -> v.n # 0
    [] v.type = "string"               -> v.s # ""
    [] OTHER                           -> ~Nullish(v)

\* The first method that gives a primitive value.
RECURSIVE ordinary_to_primitive(_, _, _)
ordinary_to_primitive(w, v, names) ==
  IF names = <<>> THEN ThrowErr(w, "TypeError")
  ELSE Then(get_property_semantic(w, v, Head(names)), LAMBDA u, f :
         IF f.type # "function" THEN ordinary_to_primitive(u, v, Tail(names))
         ELSE Then(call(u, f, v, <<>>), LAMBDA x, r :
                IF IsObject(r) THEN ordinary_to_primitive(x, v, Tail(names))
                ELSE Normal(x, r)))

to_primitive(w, v, hint) ==
  IF ~IsObject(v) THEN Normal(w, v)
  ELSE Then(get_method(w, v, "@@toPrimitive"), LAMBDA u, f :
    IF f = Undefined
    THEN ordinary_to_primitive(u, v, IF hint = "string" THEN <<"toString", "valueOf">>
                                     ELSE <<"valueOf", "toString">>)
    ELSE Then(call(u, f, v, <<Str(hint)>>), LAMBDA x, r :
           IF IsObject(r) THEN ThrowErr(x, "TypeError") ELSE Normal(x, r)))

string_to_number(s) ==
  CASE s = ""            -> Num(0)
    [] IndexOf(s) # {}   -> Num(CHOOSE i \in IndexOf(s) : TRUE)
    [] OTHER             -> NaN
to_number(w, v) ==
  Then(to_primitive(w, v, "number"), LAMBDA u, p :
    Normal(u, CASE p.type = "undefined" -> NaN
                [] p.type = "null"      -> Num(0)
                [] p.type = "boolean"   -> Num(p.n)
                [] p.type = "number"    -> p
                [] p.type = "string"    -> string_to_number(p.s)
                [] p.type = "error"     -> NaN))

text(p) ==
  CASE p.type \in {"undefined", "null"} -> p.type
    [] p.type = "boolean" -> IF p.n = 1 THEN "true" ELSE "false"
    [] p.type = "number"  -> IF p = NaN THEN "NaN" ELSE ToString(p.n)
    [] p.type \in {"string", "error"} -> p.s
to_string(w, v) ==
  Then(to_primitive(w, v, "string"), LAMBDA u, p : Normal(u, Str(text(p))))
to_property_key(w, v) == to_string(w, v)

get_element_semantic(w, v, key) ==
  Then(to_property_key(w, key), LAMBDA u, x : get_property_semantic(u, v, x.s))
\* A write to an element of a primitive value is a failure of the engine.
set_element_semantic(w, v, key, value) ==
  IF ~IsObject(v) THEN Fail(w, "TypeError")
  ELSE Then(to_property_key(w, key), LAMBDA u, x : set_property_semantic(u, v, x.s, value))

to_object(w, v) ==
  IF Nullish(v) THEN ThrowErr(w, "TypeError")
  ELSE IF IsObject(v) THEN Normal(w, v) ELSE box_primitive(w, v)

delete_property_semantic(w, v, x) ==
  Then(to_object(w, v), LAMBDA u, o : delete_property(u, o.n, x))

-----------------------------------------------------------------------------
(* Operators.                                                              *)

strict_equal(a, b) == a = b /\ a # NaN

RECURSIVE abstract_equal(_, _, _)
abstract_equal(w, a, b) ==
  LET Loose(x, y) == to_number(w, x).v = to_number(w, y).v /\ to_number(w, x).v # NaN
  IN  CASE a.type = b.type \/ (IsObject(a) /\ IsObject(b)) -> Normal(w, Bool(strict_equal(a, b)))
        [] a.type # b.type /\ Nullish(a) /\ Nullish(b)   -> Normal(w, Bool(TRUE))
        [] {a.type, b.type} \in {{"number", "string"}, {"number", "boolean"},
                                 {"string", "boolean"}}  -> Normal(w, Bool(Loose(a, b)))
        [] IsObject(a) /\ ~IsObject(b) /\ ~Nullish(b) ->
             Then(to_primitive(w, a, "default"), LAMBDA u, p : abstract_equal(u, p, b))
        [] IsObject(b) /\ ~IsObject(a) /\ ~Nullish(a) ->
             Then(to_primitive(w, b, "default"), LAMBDA u, p : abstract_equal(u, a, p))
        [] OTHER -> Normal(w, Bool(FALSE))

\* Both sides are converted, the left one first.
Converted(w, a, b, Convert(_, _), F(_, _, _)) ==
  Then(Convert(w, a), LAMBDA u, x : Then(Convert(u, b), LAMBDA s, y : F(s, x, y)))

\* Two strings are compared as strings; those the programs compare, in order.
Alphabet == <<"", "0", "1", "2", "3", "4", "a", "b", "k", "true", "x", "y">>
Rank(s) == CHOOSE i \in DOMAIN Alphabet : Alphabet[i] = s
Less(x, y) == IF NaN \in {x, y} THEN Undefined ELSE Bool(x.n < y.n)
abstract_relational_compare(w, a, b) ==
  Converted(w, a, b, LAMBDA u, v : to_primitive(u, v, "number"), LAMBDA u, x, y :
    IF x.type = "string" /\ y.type = "string" THEN Normal(u, Bool(Rank(x.s) < Rank(y.s)))
    ELSE Converted(u, x, y, to_number, LAMBDA s, m, n : Normal(s, Less(m, n))))

RECURSIVE instanceof_operator(_, _, _)
instanceof_operator(w, v, f) ==
  IF ~IsObject(f) THEN ThrowErr(w, "TypeError")
  ELSE Then(get_method(w, f, "@@hasInstance"), LAMBDA u, m :
    IF m # Undefined
    THEN Then(call(u, m, f, <<v>>), LAMBDA x, r : Normal(x, Bool(to_boolean(r))))
    ELSE IF f.type # "function" THEN ThrowErr(u, "TypeError")
    ELSE IF ~IsObject(v) THEN Normal(u, Bool(FALSE))
    ELSE Then(get_property_semantic(u, f, "prototype"), LAMBDA x, p :
           IF ~IsObject(p) THEN ThrowErr(x, "TypeError")
           ELSE Normal(x, Bool(p.n \in ToSet(Tail(Chain(x, v.n)))))))

Arithmetic(op, x, y) ==
  IF NaN \in {x, y} THEN NaN
  ELSE Num(CASE op = "+" -> x.n + y.n [] op = "-" -> x.n - y.n [] op = "*" -> x.n * y.n)

Concatenated(u, x, y) == Normal(u, Str(text(x) \o text(y)))
Add(w, a, b) ==
  Converted(w, a, b, LAMBDA u, v : to_primitive(u, v, "default"), LAMBDA u, x, y :
    IF "string" \in {x.type, y.type} THEN Concatenated(u, x, y)
    ELSE Converted(u, x, y, to_number, LAMBDA s, m, n : Normal(s, Arithmetic("+", m, n))))

in_operator(w, a, b) ==
  IF ~IsObject(b) THEN ThrowErr(w, "TypeError")
  ELSE Then(to_property_key(w, a), LAMBDA u, x : Normal(u, Bool(has_property(u, b.n, x.s))))

\* a > b is b < a with b converted first; a <= b is not b < a.
Relational(w, op, a, b) ==
  LET r == IF op \in {">", "<="} THEN abstract_relational_compare(w, b, a)
                                 ELSE abstract_relational_compare(w, a, b)
  IN  Then(r, LAMBDA u, v :
        Normal(u, Bool(v # Undefined /\ (v.n = 1) = (op \in {"<", ">"}))))

BinaryOperator(w, op, a, b) ==
  CASE op = "+"          -> Add(w, a, b)
    [] op \in {"-", "*"} ->
         Converted(w, a, b, to_number, LAMBDA u, x, y : Normal(u, Arithmetic(op, x, y)))
    [] op = "==="        -> Normal(w, Bool(strict_equal(a, b)))
    [] op = "!=="        -> Normal(w, Bool(~strict_equal(a, b)))
    [] op = "=="         -> abstract_equal(w, a, b)
    [] op = "!="         ->
         Then(abstract_equal(w, a, b), LAMBDA u, v : Normal(u, Bool(v = Bool(FALSE))))
    [] op = "in"         -> in_operator(w, a, b)
    [] op = "instanceof" -> instanceof_operator(w, a, b)
    [] op \in {"<", ">", "<=", ">="} -> Relational(w, op, a, b)

UnaryOperator(w, op, v) ==
  IF op = "!" THEN Normal(w, Bool(~to_boolean(v)))
  ELSE Then(to_number(w, v), LAMBDA u, x :
         Normal(u, IF op = "-" /\ x # NaN THEN Num(-x.n) ELSE x))

TypeOf(v) == CASE v.type \in {"null", "error"} -> "object" [] OTHER -> v.type

-----------------------------------------------------------------------------
(* Iteration.                                                              *)

get_iterator(w, v) ==
  Then(get_method(w, v, "@@iterator"), LAMBDA u, m :
    IF m = Undefined THEN ThrowErr(u, "TypeError")
    ELSE Then(call(u, m, v, <<>>), LAMBDA x, it :
           IF IsObject(it) THEN Normal(x, it) ELSE ThrowErr(x, "TypeError")))

\* A next that cannot be called is the engine's own failure, not an exception.
iterator_next(w, it, next) ==
  IF ~IsObject(it) \/ next.type # "function" THEN Fail(w, "HostContractViolation")
  ELSE Then(call(w, next, it, <<>>), LAMBDA u, r :
         IF IsObject(r) THEN Normal(u, r) ELSE ThrowErr(u, "TypeError"))

iterator_complete(w, r) ==
  Then(get_property_semantic(w, r, "done"), LAMBDA u, d : Normal(u, Bool(to_boolean(d))))
iterator_value(w, r) == get_property_semantic(w, r, "value")

\* The values an iterator gives until it is done, appended to an array.
RECURSIVE Drain(_, _, _, _)
Drain(w, it, next, a) ==
  Then(iterator_next(w, it, next), LAMBDA u, r :
    IF to_boolean(iterator_complete(u, r).v) THEN Normal(u, a)
    ELSE Drain(array_push(u, a, iterator_value(u, r).v).w, it, next, a))

\* The enumerable keys of an object and of those it inherits from, each once.
RECURSIVE EnumerableKeys(_, _, _)
EnumerableKeys(w, chain, seen) ==
  IF chain = <<>> THEN <<>>
  ELSE LET i == Head(chain)
           keys == SelectSeq(own_property_keys(w, i), LAMBDA x : x \notin seen)
       IN  SelectSeq(keys, LAMBDA x : w.h[i].props[x].e)
             \o EnumerableKeys(w, Tail(chain), seen \cup ToSet(keys))

\* Copies the own enumerable properties that are not excluded.
RECURSIVE CopyProperties(_, _, _, _, _)
CopyProperties(w, to, from, keys, excluded) ==
  IF keys = <<>> THEN w
  ELSE LET x == Head(keys)
       IN  CopyProperties(
             IF x \in excluded \/ ~w.h[from].props[x].e THEN w
             ELSE create_data_property(w, to, x, Value(w, from, x)).w,
             to, from, Tail(keys), excluded)

=============================================================================
