------------------------------ MODULE Compiler ------------------------------
(***************************************************************************)
(* From a syntax tree to the chunks of a program                           *)
(* (src/src/compiler/compiler.cpp): bindings resolved to locals, upvalues, *)
(* module cells or run-time references, expressions, patterns, functions   *)
(* and statements lowered to instructions.                                 *)
(*                                                                         *)
(* A compiler is a record e.  Its up field holds the enclosing compiler    *)
(* (none for a program): resolving a name of an enclosing function adds    *)
(* upvalues to every compiler in between, so a nested compiler gives its   *)
(* parent back when it is finished.  An instruction is [op, a, b] and the  *)
(* number of with statements around it; jumps and handlers name labels,    *)
(* replaced by positions when the chunk is finished.  A statement or an    *)
(* expression is compiled by running a list of items: instructions,        *)
(* labels and the parts between them.                                      *)
(***************************************************************************)
EXTENDS Scopes

\* The names of the global object when a program is compiled.
CONSTANT GlobalNames

NewCompiler(parent, protos, strict, capWith, imports) ==
  [code |-> <<>>, handlers |-> <<>>, marks |-> (0 :> 0), labels |-> 0,
   sc |-> NoScopes, upvalues |-> <<>>, refs |-> 0, strict |-> strict,
   with |-> 0, bodies |-> <<>>, capWith |-> capWith, imports |-> imports,
   controls |-> <<>>, protected |-> 0, function |-> parent # <<>>, up |-> parent,
   protos |-> protos, starts |-> {}, refused |-> FALSE]

Nested(e) ==
  NewCompiler(<<e>>, e.protos, e.strict, e.with # 0 \/ e.capWith, e.imports)

Refuse(e) == [e EXCEPT !.refused = TRUE]
WithScopes(e, sc) == [e EXCEPT !.sc = sc, !.refused = @ \/ sc.refused]

NoImports == [x \in {} |-> 0]

\* Slots and labels are only told apart: a construct takes those it needs
\* before it compiles its parts.
Slots(e) == Len(e.sc.states)
RECURSIVE Temporaries(_, _)
Temporaries(sc, k) == IF k = 0 THEN sc ELSE Temporaries(allocate_temporary(sc), k - 1)
Fresh(e, temps, labels) ==
  [e EXCEPT !.sc = Temporaries(@, temps), !.labels = @ + labels]

Op2(op, a, b) == [do |-> "op", op |-> op, a |-> a, b |-> b]
Op1(op, a)    == Op2(op, a, 0)
Op(op)        == Op2(op, 0, 0)
Push(v)       == Op1("constant", v)
Pop           == Op("pop")
Get(s)        == Op1("get_local", s)
Set(s)        == Op1("set_local", s)
Keep(s)       == <<Set(s), Pop>>
Jump(l)       == Op1("jump", l)
JumpIfFalse(l) == Op1("jump_if_false", l)
At(l)         == [do |-> "at", l |-> l]
X(n)          == [do |-> "expression", n |-> n]
Statement(n, preserve) == [do |-> "statement", n |-> n, preserve |-> preserve]
S(n)          == Statement(n, FALSE)
FunctionItem(f)    == [do |-> "function", f |-> f]
MethodItem(f, s)   == [do |-> "method", f |-> f, slot |-> s]
ParameterItem(f, i) == [do |-> "parameter", f |-> f, i |-> i]
DeclaratorItem(d, kind) == [do |-> "declarator", d |-> d, kind |-> kind]
P(p, s, kind, mode) ==
  [do |-> "pattern", p |-> p, slot |-> s, kind |-> kind, mode |-> mode]

-----------------------------------------------------------------------------
(* Names.                                                                  *)

Resolved(e, storage, index) == [e |-> e, storage |-> storage, index |-> index]

\* One upvalue for each captured variable of the enclosing compiler.
add_upvalue(e, source, index) ==
  LET u == [source |-> source, index |-> index]
      at == {i \in DOMAIN e.upvalues : e.upvalues[i] = u}
  IN  IF at # {} THEN Resolved(e, "upvalue", CHOOSE i \in at : TRUE)
      ELSE Resolved([e EXCEPT !.upvalues = Append(@, u)], "upvalue", Len(e.upvalues) + 1)

\* A capture through a compiler: whatever is not its own local reaches the
\* inner function as one of its upvalues.
Captured(outer, e) ==
  IF outer.storage = "none" THEN Resolved(e, "none", 0)
  ELSE add_upvalue([e EXCEPT !.up = <<outer.e>>],
                   IF outer.storage = "local" THEN "local" ELSE "upvalue", outer.index)

RECURSIVE resolve_capture(_, _)
resolve_capture(e, x) ==
  LET b == find_binding(e.sc, x)
  IN  IF b.kind = "import" THEN Resolved(e, "module", e.imports[x])
      ELSE IF b.slot # 0 THEN Resolved(e, "local", b.slot)
      ELSE IF e.up = <<>> THEN Resolved(e, "none", 0)
      ELSE Captured(resolve_capture(e.up[1], x), e)

\* Reads and writes: an import of the directly enclosing compiler is read
\* from its module cell; `none' is an unresolvable name.
Outer(outer, e) ==
  IF outer.storage = "module" THEN Resolved(e, "module", outer.index) ELSE Captured(outer, e)
resolve_read(e, x) ==
  IF find_binding(e.sc, x).slot # 0 \/ e.up = <<>> THEN resolve_capture(e, x)
  ELSE Outer(resolve_capture(e.up[1], x), e)

is_unresolvable_reference(e, x) == resolve_read(e, x).storage = "none"

\* A binding of this function is used directly outside every with statement;
\* below one, only a lexical binding declared inside its body is.
direct_binding_preferred(e, x) ==
  /\ find_binding(e.sc, x).slot # 0
  /\ \/ e.with = 0
     \/ /\ find_binding(e.sc, x).kind # "var"
        /\ ScopeOf(e.sc, x) > e.bodies[Len(e.bodies)]

UnderWith(e, x) == (e.with # 0 \/ e.capWith) /\ ~direct_binding_preferred(e, x)

Storage(prefix, b) ==
  Op1(CASE b.storage = "local" -> prefix \o "_local"
        [] b.storage = "upvalue" -> prefix \o "_upvalue"
        [] b.storage = "module" -> prefix \o "_module", b.index)

-----------------------------------------------------------------------------
(* Items.                                                                  *)

Emit(e, it) ==
  [e EXCEPT !.code = Append(@, [op |-> it.op, a |-> it.a, b |-> it.b, with |-> e.with])]

\* Compiles the items in order, unless one is refused; defined at the end.
RECURSIVE Run(_, _)

\* A list of statements; functions of a body are defined before its first
\* statement runs.  Keeps the value of a last expression for keep_last.
StatementList(list, keep_last, hoists) ==
  LET functions == SelectSeq(Effective(list), LAMBDA n : n.t = "function_declaration")
  IN  (IF hoists THEN Map(functions, FunctionItem) ELSE <<>>)
        \o [i \in DOMAIN list |-> Statement(list[i], keep_last /\ i = Len(list))]

-----------------------------------------------------------------------------
(* References.                                                             *)

Ref(kind, slot, key, name) == [kind |-> kind, slot |-> slot, key |-> key, name |-> name]

\* Evaluates what a reference needs once: nothing for a static binding, the
\* resolution for a dynamic one, base and key for a property.
NameReference(e, x, b) ==
  IF UnderWith(e, x) \/ b.storage = "none"
  THEN [e |-> IF b.storage = "module" THEN Refuse(e)
              ELSE Emit([b.e EXCEPT !.refs = @ + 1],
                        Op2("resolve_dynamic_ref", e.refs + 1,
                            [name |-> x, storage |-> b.storage,
                             index |-> b.index, strict |-> e.strict])),
        ref |-> Ref("dynamic", e.refs + 1, 0, x)]
  ELSE [e |-> b.e, ref |-> Ref("static", b.index, b.storage, x)]

compile_reference(e, n) ==
  LET s == Slots(e)
  IN  CASE n.t = "identifier" -> NameReference(e, n.name, resolve_read(e, n.name))
        [] n.t = "member" /\ ~n.computed ->
             [e |-> Run(Fresh(e, 1, 0), <<X(n.object)>> \o Keep(s + 1)),
              ref |-> Ref("property", s + 1, 0, n.property.name)]
        [] n.t = "member" /\ n.computed ->
             [e |-> Run(Fresh(e, 2, 0), <<X(n.object)>> \o Keep(s + 1)
                                          \o <<X(n.property)>> \o Keep(s + 2)),
              ref |-> Ref("element", s + 1, s + 2, "")]
        [] OTHER -> [e |-> Refuse(e), ref |-> Ref("static", 0, "local", "")]

\* Compiles a reference and goes on with it.
Referring(e, n, F(_)) == F(compile_reference(e, n))

emit_get_value(r) ==
  CASE r.kind = "static"   -> <<Storage("get", [storage |-> r.key, index |-> r.slot])>>
    [] r.kind = "dynamic"  -> <<Op1("get_dynamic_ref", r.slot)>>
    [] r.kind = "property" -> <<Get(r.slot), Op1("get_property", r.name)>>
    [] r.kind = "element"  -> <<Get(r.slot), Get(r.key), Op("get_element")>>

\* A defect: the key is read again and converted twice.
emit_get_value_converting_twice(r, t) == emit_get_value(r)
\* Read-modify-write converts a computed key once and keeps it; t is a
\* temporary.
emit_get_value_preserving_key(r, t) ==
  IF r.kind # "element" THEN emit_get_value(r)
  ELSE <<Get(r.slot), Get(r.key), Op("get_element_reference")>>
         \o Keep(t) \o Keep(r.key) \o <<Get(t)>>

Strictly(strict, op) == IF strict THEN op \o "_strict" ELSE op

emit_put_value(e, r, t) ==
  CASE r.kind = "static"  -> <<Storage("set", [storage |-> r.key, index |-> r.slot])>>
    [] r.kind = "dynamic" ->
         <<Op1("put_dynamic_ref", r.slot), Op1("release_dynamic_ref", r.slot)>>
    [] r.kind = "element" ->
         Keep(t) \o <<Get(r.slot), Get(r.key), Get(t), Op(Strictly(e.strict, "set_element"))>>
    [] r.kind = "property" ->
         Keep(t) \o <<Get(r.slot), Get(t), Op1(Strictly(e.strict, "set_property"), r.name)>>

Release(r) == IF r.kind = "dynamic" THEN <<Op1("release_dynamic_ref", r.slot)>> ELSE <<>>
ThisAndKey(r) == IF r.kind = "element" THEN <<Get(r.slot), Get(r.key)>> ELSE <<Get(r.slot)>>

-----------------------------------------------------------------------------
(* Expressions.                                                            *)

compile_logical(e, n) ==
  LET s == Slots(e) + 1  l == e.labels
      test == CASE n.op = "&&" -> <<>> [] n.op = "??" -> <<Op("is_nullish")>>
                [] n.op = "||" -> <<Op("logical_not")>>
  IN  Run(Fresh(e, 1, 2), <<X(n.left), Set(s)>> \o test \o
        <<JumpIfFalse(l + 1), X(n.right), Jump(l + 2), At(l + 1), Get(s), At(l + 2)>>)

compile_typeof(e, a) ==
  IF a.t = "identifier" /\ UnderWith(e, a.name)
  THEN Referring(e, a, LAMBDA r :
         Run(r.e, <<Op1("typeof_dynamic_ref", r.ref.slot)>> \o Release(r.ref)
                    \o <<Op("typeof")>>))
  ELSE IF a.t = "identifier" /\ is_unresolvable_reference(e, a.name)
  THEN Run(e, <<Op1("get_name_or_undefined", a.name), Op("typeof")>>)
  ELSE Run(e, <<X(a), Op("typeof")>>)

compile_conditional(e, n) ==
  LET l == e.labels
  IN  Run(Fresh(e, 0, 2), <<X(n.test), JumpIfFalse(l + 1), X(n.consequent), Jump(l + 2),
                            At(l + 1), X(n.alternate), At(l + 2)>>)

compile_sequence(e, n) ==
  Run(e, Tail(FlattenSeq([i \in DOMAIN n.expressions |-> <<Pop, X(n.expressions[i])>>])))

compile_update(e, n) ==
  Referring(e, n.argument, LAMBDA r :
    LET t == Slots(r.e)
    IN  Run(Fresh(r.e, 3, 0),
          emit_get_value_preserving_key(r.ref, t + 1) \o <<Op1("unary", "+")>>
            \o (IF n.prefix THEN <<>> ELSE <<Set(t + 2)>>)
            \o <<Push(Num(1)), Op1("binary", IF n.op = "++" THEN "+" ELSE "-")>>
            \o emit_put_value(r.e, r.ref, t + 3)
            \o (IF n.prefix THEN <<>> ELSE <<Pop, Get(t + 2)>>)))

\* A defect: an assignment that is skipped keeps its reference.
LogicalAssignmentKeeps(e, n, r, t, l) ==
  emit_get_value_preserving_key(r, t + 1) \o Keep(t + 2) \o <<Get(t + 2)>>
    \o (CASE n.op = "&&=" -> <<>> [] n.op = "||=" -> <<Op("logical_not")>>
          [] n.op = "??=" -> <<Op("is_nullish")>>)
    \o <<JumpIfFalse(l + 1), X(n.right)>> \o emit_put_value(e, r, t + 3)
    \o <<Jump(l + 2), At(l + 1), Get(t + 2), At(l + 2)>>
\* A logical assignment that is skipped still releases its reference.
LogicalAssignment(e, n, r, t, l) ==
  emit_get_value_preserving_key(r, t + 1) \o Keep(t + 2) \o <<Get(t + 2)>>
    \o (CASE n.op = "&&=" -> <<>> [] n.op = "||=" -> <<Op("logical_not")>>
          [] n.op = "??=" -> <<Op("is_nullish")>>)
    \o <<JumpIfFalse(l + 1), X(n.right)>> \o emit_put_value(e, r, t + 3)
    \o <<Jump(l + 2), At(l + 1)>> \o Release(r) \o <<Get(t + 2), At(l + 2)>>

CompoundAssignment(e, n, r, t) ==
  emit_get_value_preserving_key(r, t + 1)
    \o <<X(n.right), Op1("binary", CASE n.op = "+=" -> "+" [] n.op = "-=" -> "-"
                                     [] n.op = "*=" -> "*")>>
    \o emit_put_value(e, r, t + 2)

compile_assignment(e, n) ==
  LET s == Slots(e) + 1
  IN  IF n.left.t \in {"array_pattern", "object_pattern"}
      THEN Run(Fresh(e, 1, 0), <<X(n.right)>> \o Keep(s) \o <<P(n.left, s, "let", "assign"), Get(s)>>)
      ELSE Referring(e, n.left, LAMBDA r :
        LET t == Slots(r.e)
        IN  Run(Fresh(r.e, 3, 2),
              CASE n.op = "=" -> <<X(n.right)>> \o emit_put_value(e, r.ref, t + 1)
                [] n.op \in {"&&=", "||=", "??="} -> LogicalAssignment(e, n, r.ref, t, r.e.labels)
                [] n.op \in {"+=", "-=", "*="} -> CompoundAssignment(e, n, r.ref, t)))

Elements(list) ==
  FlattenSeq([i \in DOMAIN list |->
    CASE list[i].t = "none"   -> <<Op("append_hole")>>
      [] list[i].t = "spread" -> <<X(list[i].argument), Op("append_spread")>>
      [] OTHER                -> <<X(list[i]), Op("append_element")>>])
compile_array(e, n) == Run(e, <<Op("new_array")>> \o Elements(n.elements))

compile_object(e, n) ==
  Run(e, <<Op("new_object")>> \o FlattenSeq([i \in DOMAIN n.properties |->
    LET p == n.properties[i]
    IN  CASE p.t = "spread"   -> <<X(p.argument), Op("copy_data_properties")>>
          [] p.t = "property" /\ p.computed -> <<X(p.key), X(p.value), Op("define_element")>>
          [] p.t = "property" /\ ~p.computed ->
               <<X(p.value), Op1("define_property", p.key.name)>>]))

HasSpread(args) == \E i \in DOMAIN args : args[i].t = "spread"
\* With a spread the arguments are passed as one array.
Arguments(args) ==
  IF HasSpread(args) THEN <<Op("new_array")>> \o Elements(args) ELSE Map(args, X)
Count(args) == IF HasSpread(args) THEN -1 ELSE Len(args)

\* A method call evaluates its base once; under with, the object that holds
\* the callee is its `this'.
compile_call(e, n) ==
  LET k == Count(n.arguments)
      args == Arguments(n.arguments)
  IN  CASE n.callee.t = "member" -> Referring(e, n.callee, LAMBDA r :
             Run(r.e, ThisAndKey(r.ref) \o args \o
               <<IF r.ref.kind = "element" THEN Op1("call_element", k)
                 ELSE Op2("call_method", k, r.ref.name)>>))
        [] n.callee.t = "identifier" /\ UnderWith(e, n.callee.name) ->
             Referring(e, n.callee, LAMBDA r :
               Run(r.e, emit_get_value(r.ref) \o <<Op1("this_dynamic_ref", r.ref.slot)>>
                     \o Release(r.ref) \o args \o <<Op1("call_with_this", k)>>))
        [] OTHER -> Run(e, <<X(n.callee)>> \o args \o <<Op1("call", k)>>)

compile_new(e, n) ==
  Run(e, <<X(n.callee)>> \o Arguments(n.arguments) \o <<Op1("construct", Count(n.arguments))>>)

compile_template(e, n) ==
  Run(e, <<Push(Str(n.quasis[1]))>> \o FlattenSeq([i \in DOMAIN n.expressions |->
           <<X(n.expressions[i]), Op1("binary", "+"),
             Push(Str(n.quasis[i + 1])), Op1("binary", "+")>>]))

\* The array of strings is one constant of the chunk.
compile_tagged_template(e, n) ==
  LET args == <<Op1("template_object", n.quasi.quasis)>> \o Map(n.quasi.expressions, X)
  IN  IF n.tag.t = "member"
      THEN Referring(e, n.tag, LAMBDA r : Run(r.e, ThisAndKey(r.ref) \o args \o
             <<IF r.ref.kind = "element" THEN Op1("call_element", Len(args))
               ELSE Op2("call_method", Len(args), r.ref.name)>>))
      ELSE Run(e, <<X(n.tag)>> \o args \o <<Op1("call", Len(args))>>)

\* current and receiver follow the chain; a nullish value before an optional
\* segment leaves with undefined, or with true when the end is deleted.
ChainSegment(n, i, received, current, receiver, l, delete_final, strict) ==
  LET g == n.segments[i]
      final == delete_final /\ i = Len(n.segments)
      key == IF g.kind = "computed" THEN <<X(g.property)>> ELSE <<>>
      Access(op) == IF g.kind = "computed" THEN Op(op \o "_element")
                    ELSE Op1(op \o "_property", g.property.name)
      guard == IF ~g.optional THEN <<>>
               ELSE <<Get(current), Op("is_nullish"), JumpIfFalse(l + i),
                      Push(IF delete_final THEN Bool(TRUE) ELSE Undefined),
                      Jump(l), At(l + i)>>
  IN  guard \o <<Get(current)>> \o
      CASE g.kind # "call" /\ final ->
             key \o <<IF strict
                      THEN [Access("delete") EXCEPT !.op = @ \o "_strict"]
                      ELSE Access("delete")>>
        [] g.kind # "call" /\ ~final ->
             <<Set(receiver)>> \o key \o <<Access("get")>> \o Keep(current)
        [] g.kind = "call" ->
             <<IF received THEN Get(receiver) ELSE Push(Undefined)>>
               \o Arguments(g.arguments)
               \o <<Op1("call_with_this", Count(g.arguments))>> \o Keep(current)

ChainSegments(e, n, delete_final, s) ==
  LET at == e.labels + 1
      Received(i) == IF i = 1 THEN n.base.t = "member" ELSE n.segments[i - 1].kind # "call"
      segments == FlattenSeq([i \in DOMAIN n.segments |->
        ChainSegment(n, i, Received(i), s, s + 1, at, delete_final, e.strict)])
  IN  Run(Fresh(e, 0, Len(n.segments) + 1),
          segments \o (IF delete_final THEN <<>> ELSE <<Get(s)>>) \o <<At(at)>>)

compile_optional_chain(e, n, delete_final) ==
  LET s == Slots(e) + 1
  IN  ChainSegments(
        IF n.base.t = "member"
        THEN Referring(Fresh(e, 2, 0), n.base, LAMBDA r :
               Run(r.e, <<Get(r.ref.slot)>> \o Keep(s + 1) \o emit_get_value(r.ref) \o Keep(s)))
        ELSE Run(Fresh(e, 2, 0), <<X(n.base)>> \o Keep(s)),
        n, delete_final, s)

\* Whether an unqualified name can be deleted is decided here, not when the
\* program runs.
compile_delete(e, a) ==
  CASE a.t = "identifier" /\ e.strict -> Refuse(e)
    [] a.t = "identifier" /\ ~e.strict /\ UnderWith(e, a.name) ->
         Referring(e, a, LAMBDA r :
           Run(r.e, <<Op1("delete_dynamic_ref", r.ref.slot)>> \o Release(r.ref)))
    [] a.t = "identifier" /\ ~e.strict /\ ~UnderWith(e, a.name) ->
         Run(e, <<Push(Bool(is_unresolvable_reference(e, a.name) /\ a.name \notin GlobalNames))>>)
    [] a.t = "member" ->
         Referring(e, a, LAMBDA r : Run(r.e, ThisAndKey(r.ref) \o
           <<IF r.ref.kind = "element" THEN Op(Strictly(e.strict, "delete_element"))
             ELSE Op1(Strictly(e.strict, "delete_property"), r.ref.name)>>))
    [] a.t = "chain" /\ a.segments[Len(a.segments)].kind # "call" ->
         compile_optional_chain(e, a, TRUE)
    [] OTHER -> Run(e, <<X(a), Pop, Push(Bool(TRUE))>>)

compile_unary(e, n) ==
  CASE n.op = "typeof" -> compile_typeof(e, n.argument)
    [] n.op = "delete" -> compile_delete(e, n.argument)
    [] n.op = "void"   -> Run(e, <<X(n.argument), Pop, Push(Undefined)>>)
    [] OTHER           -> Run(e, <<X(n.argument), Op1("unary", n.op)>>)

compile_identifier(e, x) ==
  Referring(e, Ident(x), LAMBDA r :
    IF r.ref.kind = "dynamic" /\ ~UnderWith(e, x) THEN Run(e, <<Op1("get_name", x)>>)
    ELSE Run(r.e, emit_get_value(r.ref) \o Release(r.ref)))

-----------------------------------------------------------------------------
(* Patterns.  The value is in a slot; mode tells an assignment, a          *)
(* parameter (or catch) binding and a declaration of a kind apart.         *)

AssignValue(e, p, slot) ==
  Referring(IF p.t = "identifier" THEN Run(e, <<Get(slot)>>) ELSE e, p, LAMBDA r :
    Run(Fresh(r.e, 1, 0), (IF p.t = "member" THEN <<Get(slot)>> ELSE <<>>)
          \o emit_put_value(e, r.ref, Slots(r.e) + 1) \o <<Pop>>))
BindValue(e, p, slot, kind, mode) ==
  LET b == IF mode = "parameter" THEN find_binding(e.sc, p.name)
           ELSE binding_for_declaration(e.sc, kind, p.name)
      op == IF mode = "parameter" \/ kind # "var" THEN "initialize_local" ELSE "set_local"
  IN  IF mode = "assign" THEN AssignValue(e, p, slot)
      ELSE Run(e, <<Get(slot), Op1(op, b.slot), Pop>>)

\* The initializer runs when the value is undefined.
DefaultItems(value, selected, initializer, l) ==
  <<Get(value), Push(Undefined), Op1("binary", "==="), JumpIfFalse(l), X(initializer)>>
    \o Keep(selected) \o <<Jump(l + 1), At(l), Get(value)>> \o Keep(selected) \o <<At(l + 1)>>

\* Every element asks the iterator for a result; a rest element asks until
\* the iterator is done.
ArrayElement(p, i, iterator, item, l, kind, mode) ==
  LET ask == <<Get(iterator), Op2("call_method", 0, "next")>> \o Keep(iterator + 1)
               \o <<Get(iterator + 1), Op1("get_property", "done")>>
      value == <<Get(iterator + 1), Op1("get_property", "value")>>
  IN  IF p.t = "rest"
      THEN <<Op("new_array")>> \o Keep(item) \o <<At(l)>> \o ask
             \o <<Op("logical_not"), JumpIfFalse(l + 1), Get(item)>> \o value
             \o <<Op("append_element"), Pop, Jump(l), At(l + 1),
                  P(p.argument, item, kind, mode)>>
      ELSE ask \o <<JumpIfFalse(l), Push(Undefined)>> \o Keep(item)
             \o <<Jump(l + 1), At(l)>> \o value \o Keep(item) \o <<At(l + 1)>>
             \o (IF Given(p) THEN <<P(p, item, kind, mode)>> ELSE <<>>)

\* With a rest, the keys taken are collected in an array of excluded keys.
PatternItems(p, object, excluded, s, kind, mode) ==
  LET Exclude(key) == IF excluded = 0 THEN <<>>
                      ELSE <<Get(excluded), key, Op("append_element"), Pop>>
  IN  (IF p.computed
       THEN <<X(p.key)>> \o Keep(s + 1) \o Exclude(Get(s + 1))
              \o <<Get(object), Get(s + 1), Op("get_element")>>
       ELSE Exclude(Push(Str(p.key.name))) \o <<Get(object), Op1("get_property", p.key.name)>>)
      \o Keep(s) \o <<P(p.value, s, kind, mode)>>

compile_pattern(e, p, slot, kind, mode) ==
  LET s == Slots(e)
      l == e.labels + 1
      k == Len(p.elements)
      n == Len(p.properties)
      excluded == IF Given(p.rest) THEN s + 2 ELSE 0
  IN  CASE p.t \in {"identifier", "member"} -> BindValue(e, p, slot, kind, mode)
        [] p.t = "rest" -> Run(e, <<P(p.argument, slot, kind, mode)>>)
        [] p.t = "default" ->
             Run(Fresh(e, 1, 2), DefaultItems(slot, s + 1, p.right, l)
                                   \o <<P(p.left, s + 1, kind, mode)>>)
        [] p.t = "array_pattern" ->
             Run(Fresh(e, 2 + k, 2 * k),
                 <<Get(slot), Push(Str("@@iterator")), Op1("call_element", 0)>> \o Keep(s + 1)
                   \o FlattenSeq([i \in 1 .. k |->
                        ArrayElement(p.elements[i], i, s + 1, s + 2 + i,
                                     l + 2 * (i - 1), kind, mode)]))
        [] p.t = "object_pattern" ->
             Run(Fresh(e, 3 + 2 * n, 0),
                 <<Get(slot), Op("to_object")>> \o Keep(s + 1)
                   \o (IF excluded = 0 THEN <<>> ELSE <<Op("new_array")>> \o Keep(excluded))
                   \o FlattenSeq([i \in 1 .. n |->
                        PatternItems(p.properties[i], s + 1, excluded, s + 2 + 2 * i,
                                     kind, mode)])
                   \o (IF excluded = 0 THEN <<>>
                       ELSE <<Get(s + 1), Get(excluded), Op("copy_object_rest")>>
                              \o Keep(s + 3) \o <<P(p.rest, s + 3, kind, mode)>>))
        [] OTHER -> Refuse(e)

\* A var under with is declared outside it but assigned through it.
compile_declarator(e, d, kind) ==
  LET t == Slots(e) + 1
      b == binding_for_declaration(e.sc, kind, d.id.name)
      value == <<IF Given(d.init) THEN X(d.init) ELSE Push(Undefined)>>
      op == IF kind = "var" THEN "set_local" ELSE "initialize_local"
  IN  CASE d.id.t # "identifier" ->
             IF Given(d.init)
             THEN Run(Fresh(e, 1, 0), <<X(d.init)>> \o Keep(t) \o <<P(d.id, t, kind, "declare")>>)
             ELSE Refuse(e)
        [] d.id.t = "identifier" /\ kind = "var" /\ ~Given(d.init) -> e
        [] d.id.t = "identifier" /\ kind = "var" /\ Given(d.init) /\ (e.with # 0 \/ e.capWith) ->
             Referring(Run(e, value), d.id, LAMBDA r :
               Run(r.e, emit_put_value(e, r.ref, 0) \o <<Pop>>))
        [] OTHER -> Run(e, value \o <<Op1(op, b.slot), Pop>>)

Declarators(d) == Map(d.declarations, LAMBDA x : DeclaratorItem(x, d.kind))

-----------------------------------------------------------------------------
(* Functions.                                                              *)

compile_parameter(e, f, i) ==
  LET v == Slots(e) + 1
      l == e.labels + 1
      argument == <<Op1(IF f.rest = i THEN "rest_arguments" ELSE "load_argument", i)>> \o Keep(v)
      initial == IF ~Given(f.defaults[i]) THEN <<>>
                 ELSE <<Get(v), Push(Undefined), Op1("binary", "==="), JumpIfFalse(l),
                        X(f.defaults[i])>> \o Keep(v) \o <<At(l)>>
  IN  Run(Fresh(e, 1, 1), argument \o initial \o <<P(f.params[i], v, "let", "parameter")>>)

compile_parameter_initializers(f) ==
  IF simple_parameter_list(f) THEN <<>> ELSE [i \in DOMAIN f.params |-> ParameterItem(f, i)]

BodyOf(f)    == IF f.body.t = "block" THEN f.body.body ELSE <<Return(f.body)>>
IsBlock(f)   == f.body.t = "block"
OwnStrict(f) == IsBlock(f) /\ has_use_strict_directive(f.body.body)

\* What the parameters and directives of a function may not be.
IllFormed(form, f, strict) ==
  \/ OwnStrict(f) /\ ~simple_parameter_list(f)
  \/ /\ Repeats(parameter_names(f))
     /\ form \in {"arrow", "method"} \/ ~simple_parameter_list(f) \/ strict
  \/ strict /\ ToSet(parameter_names(f)) \cap {"eval", "arguments"} # {}

\* Jumps and handlers name positions once the chunk is finished.
Finish(e) ==
  [code |-> [i \in DOMAIN e.code |->
      IF e.code[i].op \in {"jump", "jump_if_false", "break", "continue", "enter_with",
                           "end_finally"}
      THEN [e.code[i] EXCEPT !.a = e.marks[@]] ELSE e.code[i]],
   handlers |-> [i \in DOMAIN e.handlers |->
      [field \in DOMAIN e.handlers[i] |-> e.marks[e.handlers[i][field]]]],
   states |-> e.sc.states, immutable |-> e.sc.immutable, upvalues |-> e.upvalues,
   starts |-> e.starts, refs |-> e.refs, exports |-> <<>>]

FunctionChunk(nested, form, f, constructable) ==
  Finish(nested) @@
  [arguments |-> nested.sc.args, parameters |-> Len(f.params), names |-> parameter_names(f),
   simple |-> simple_parameter_list(f), strict |-> nested.strict, class |-> form = "method",
   this |-> IF form = "arrow" THEN "lexical" ELSE IF nested.strict THEN "strict" ELSE "global",
   constructor |-> constructable]

Enclosing(e, nested, form, f, constructable) ==
  IF nested.refused THEN Refuse(e)
  ELSE [nested.up[1] EXCEPT
          !.protos = Append(nested.protos, FunctionChunk(nested, form, f, constructable))]

\* The chunk of a function, appended to the program's; its upvalues may add
\* some to the enclosing compilers.  An arrow with an expression body ends
\* after it.
compile_function_value(e, form, f, constructable) ==
  LET start == Nested(e)
      strict == e.strict \/ OwnStrict(f) \/ form = "method"
      headed == Run(WithScopes([start EXCEPT !.strict = strict],
                               begin_function(form, f, Repeats(parameter_names(f)))),
                    compile_parameter_initializers(f))
      bodied == IF ~IsBlock(f) THEN Run(headed, <<X(f.body), Op("return")>>)
                ELSE Run(WithScopes(headed, begin_function_body(headed.sc, f.body.body,
                                                                ~simple_parameter_list(f))),
                         StatementList(f.body.body, FALSE, TRUE)
                           \o <<Push(Undefined), Op("return")>>)
  IN  IF IllFormed(form, f, strict) THEN Refuse(e)
      ELSE Enclosing(e, bodied, form, f, constructable)

Closure(e) == Op1("closure", Len(e.protos))

compile_function_expression(e, f) ==
  LET done == compile_function_value(e, IF f.t = "arrow" THEN "arrow" ELSE "expression", f,
                                     f.t # "arrow")
  IN  Run(done, <<Closure(done)>>)

compile_function_declaration(e, f) ==
  LET done == compile_function_value(e, "declaration", f, TRUE)
      b == binding_for_declaration(done.sc, "function", f.id)
  IN  Run(done, <<Closure(done), Set(b.slot), Pop>>)

DefaultConstructor == Method("constructor", <<>>, Block(<<>>))

compile_method_value(e, f, slot) ==
  LET done == compile_function_value(e, "method", f, FALSE)
  IN  Run(done, <<Get(slot), Op1("get_property", "prototype"), Closure(done),
                  Op1("define_property", f.id), Pop>>)

\* The class binding is initialized with the constructor before the
\* prototype and the methods are attached to it.
compile_class_declaration(e, d) ==
  LET slot == binding_for_declaration(e.sc, "class", d.id).slot
      own == SelectSeq(d.methods, LAMBDA m : m.id = "constructor")
      done == compile_function_value(e, "method",
                IF own = <<>> THEN DefaultConstructor ELSE own[1], TRUE)
  IN  IF Len(own) > 1 THEN Refuse(e)
      ELSE Run(done,
        <<Closure(done), Op1("initialize_local", slot), Pop,
          Get(slot), Op("new_object"), Op1("set_property", "prototype"), Pop,
          Get(slot), Op1("get_property", "prototype"), Get(slot),
          Op1("define_property", "constructor"), Pop>>
          \o Map(SelectSeq(d.methods, LAMBDA m : m.id # "constructor"),
                 LAMBDA m : MethodItem(m, slot)))

compile_expression(e, n) ==
  CASE n.t = "literal"     -> Run(e, <<Push(n.value)>>)
    [] n.t = "identifier"  -> compile_identifier(e, n.name)
    [] n.t = "this"        -> Run(e, <<Op("get_this")>>)
    [] n.t = "unary"       -> compile_unary(e, n)
    [] n.t = "update"      -> compile_update(e, n)
    [] n.t = "binary"      -> Run(e, <<X(n.left), X(n.right), Op1("binary", n.op)>>)
    [] n.t = "logical"     -> compile_logical(e, n)
    [] n.t = "conditional" -> compile_conditional(e, n)
    [] n.t = "sequence"    -> compile_sequence(e, n)
    [] n.t = "assignment"  -> compile_assignment(e, n)
    [] n.t = "call"        -> compile_call(e, n)
    [] n.t = "new"         -> compile_new(e, n)
    [] n.t \in {"function", "arrow"} -> compile_function_expression(e, n)
    [] n.t = "member"      ->
         Referring(e, n, LAMBDA r : Run(r.e, emit_get_value(r.ref)))
    [] n.t = "array"       -> compile_array(e, n)
    [] n.t = "object"      -> compile_object(e, n)
    [] n.t = "template"    -> compile_template(e, n)
    [] n.t = "tagged"      -> compile_tagged_template(e, n)
    [] n.t = "chain"       -> compile_optional_chain(e, n, FALSE)
    [] OTHER               -> Refuse(e)

-----------------------------------------------------------------------------
(* Statements.                                                             *)

\* A ControlContext; break and continue jump to its labels.
Control(e, iteration, names, brk, cont) ==
  [e EXCEPT !.controls = Append(@, [protected |-> e.protected, iteration |-> iteration,
                                    names |-> names, brk |-> brk, cont |-> cont])]
EndControl(e) == [e EXCEPT !.controls = SubSeq(@, 1, Len(@) - 1)]
Leave(e) == [e EXCEPT !.sc = end_block(@)]
Under(e, names, brk, cont, body) == EndControl(Run(Control(e, TRUE, names, brk, cont), <<S(body)>>))

compile_jump(e, n, iteration, op, field) ==
  LET fit == {i \in DOMAIN e.controls :
                /\ iteration => e.controls[i].iteration
                /\ n.label = "" \/ n.label \in e.controls[i].names}
      c == e.controls[CHOOSE i \in fit : \A j \in fit : j <= i]
  IN  IF fit = {} THEN Refuse(e)
      ELSE Run(e, <<Op1(IF e.protected > c.protected THEN op ELSE "jump", c[field])>>)

compile_if(e, n) ==
  LET l == e.labels
  IN  Run(Fresh(e, 0, 2), <<X(n.test), JumpIfFalse(l + 1), S(n.consequent)>> \o
        IF Given(n.alternate) THEN <<Jump(l + 2), At(l + 1), S(n.alternate), At(l + 2)>>
                              ELSE <<At(l + 1)>>)

compile_while(e, n, names) ==
  LET l == e.labels
      headed == Run(Fresh(e, 0, 2), <<At(l + 1), X(n.test), JumpIfFalse(l + 2)>>)
  IN  Run(Under(headed, names, l + 2, l + 1, n.body), <<Jump(l + 1), At(l + 2)>>)

\* A defect: continue goes back to the body instead of the test.
compile_do_while_again(e, n, names) ==
  LET l == e.labels
      headed == Run(Fresh(e, 0, 3), <<At(l + 1)>>)
  IN  Run(Under(headed, names, l + 2, l + 1, n.body),
          <<At(l + 3), X(n.test), JumpIfFalse(l + 2), Jump(l + 1), At(l + 2)>>)
compile_do_while(e, n, names) ==
  LET l == e.labels
      headed == Run(Fresh(e, 0, 3), <<At(l + 1)>>)
  IN  Run(Under(headed, names, l + 2, l + 3, n.body),
          <<At(l + 3), X(n.test), JumpIfFalse(l + 2), Jump(l + 1), At(l + 2)>>)

Lexical(n) == n.t = "declaration" /\ n.kind # "var"
SlotsOf(e, d) == [i \in DOMAIN declared_names(d) |->
                    binding_for_declaration(e.sc, d.kind, declared_names(d)[i]).slot]
OnSlots(e, d, op) == IF ~Lexical(d) THEN <<>> ELSE Map(SlotsOf(e, d), LAMBDA s : Op1(op, s))
EndFor(e, d) == IF Lexical(d) THEN Leave(e) ELSE e

\* The bindings of a lexical head are reset on entry and, after each round,
\* replaced by copies before the update runs.
compile_for(e, n, names) ==
  LET l == e.labels
      scoped == IF Lexical(n.init) THEN WithScopes(e, begin_for_declaration(e.sc, n.init)) ELSE e
      started == Fresh(Run(scoped, OnSlots(scoped, n.init, "reset_local")), 0, 3)
      initial == CASE n.init.t = "declaration" -> Declarators(n.init)
                   [] n.init.t = "none" -> <<>>
                   [] OTHER -> <<X(n.init), Pop>>
      tested == Run(started, initial \o <<At(l + 1)>> \o
                  IF Given(n.test) THEN <<X(n.test), JumpIfFalse(l + 2)>> ELSE <<>>)
      body == Under(tested, names, l + 2, l + 3, n.body)
  IN  EndFor(Run(body, <<At(l + 3)>> \o OnSlots(scoped, n.init, "clone_local_binding")
               \o (IF Given(n.update) THEN <<X(n.update), Pop>> ELSE <<>>)
               \o <<Jump(l + 1), At(l + 2)>>), n.init)

\* A defect: the bindings of the head are not reset for the next round.
compile_iteration_binding_once(e, left, value) ==
  CASE left.t = "declaration" -> Run(e, <<P(left.declarations[1].id, value, left.kind, "declare")>>)
    [] left.t \in {"array_pattern", "object_pattern"} -> Run(e, <<P(left, value, "let", "assign")>>)
    [] OTHER -> Referring(e, left, LAMBDA r : Run(Fresh(r.e, 1, 0), <<Get(value)>>
                  \o emit_put_value(e, r.ref, Slots(r.e) + 1) \o <<Pop>>))
compile_iteration_binding(e, left, value) ==
  CASE left.t = "declaration" ->
         Run(e, OnSlots(e, left, "reset_local")
                  \o <<P(left.declarations[1].id, value, left.kind, "declare")>>)
    [] left.t \in {"array_pattern", "object_pattern"} -> Run(e, <<P(left, value, "let", "assign")>>)
    [] OTHER -> Referring(e, left, LAMBDA r : Run(Fresh(r.e, 1, 0), <<Get(value)>>
                  \o emit_put_value(e, r.ref, Slots(r.e) + 1) \o <<Pop>>))

\* The iterator and its next method are kept in slots; for-in iterates over
\* an array of the keys.
compile_for_of(e, n, names) ==
  LET s == Slots(e)
      l == e.labels
      opened == Run(Fresh(e, 4, 3), <<X(n.object)>>
                      \o (IF n.t = "for_in" THEN <<Op("enumerate_keys")>> ELSE <<>>)
                      \o <<Op("get_iterator")>> \o Keep(s + 2) \o Keep(s + 1))
      scoped == IF Lexical(n.left)
                THEN WithScopes(opened, begin_for_declaration(opened.sc, n.left)) ELSE opened
      asked == Run(scoped, <<At(l + 1), Get(s + 1), Get(s + 2), Op("iterator_next")>>
                 \o Keep(s + 3) \o <<Get(s + 3), Op("iterator_complete"), JumpIfFalse(l + 3),
                 Jump(l + 2), At(l + 3), Get(s + 3), Op("iterator_value")>> \o Keep(s + 4))
      body == Under(compile_iteration_binding(asked, n.left, s + 4), names, l + 2, l + 1, n.body)
  IN  EndFor(Run(body, <<Jump(l + 1), At(l + 2)>>), n.left)

\* The tests run in order, the default last; clauses fall through.
compile_switch(e, n, names) ==
  LET s == Slots(e) + 1
      l == e.labels
      k == Len(n.cases)
      default == {i \in 1 .. k : n.cases[i].test.t = "none"}
      scoped == WithScopes(Run(Fresh(e, 1, 2 * k + 1), <<X(n.discriminant)>> \o Keep(s)),
                           begin_switch(Run(Fresh(e, 1, 0), <<X(n.discriminant)>>).sc, n.cases))
      tests == FlattenSeq([i \in 1 .. k |->
        IF i \in default THEN <<>>
        ELSE <<Get(s), X(n.cases[i].test), Op1("binary", "==="), JumpIfFalse(l + k + i),
               Jump(l + i), At(l + k + i)>>])
      other == Jump(IF default = {} THEN l + 2 * k + 1 ELSE l + (CHOOSE i \in default : TRUE))
      clauses == FlattenSeq([i \in 1 .. k |-> <<At(l + i)>> \o Map(n.cases[i].consequent, S)])
  IN  Leave(Run(EndControl(Run(Control(Run(scoped, tests \o <<other>>), FALSE, names,
                                       l + 2 * k + 1, 0), clauses)), <<At(l + 2 * k + 1)>>))

compile_block(e, list) ==
  Leave(Run(WithScopes(e, begin_block(e.sc, list)), StatementList(list, FALSE, FALSE)))

\* Handler entries follow the blocks; the finalizer, like the block and the
\* clause, counts as protected.
compile_try(e, n) ==
  LET l == e.labels
      catches == Given(n.handler)
      finalizes == Given(n.finalizer)
      Mark(i, on) == IF on THEN l + i ELSE 0
      into == [Fresh(e, 0, 6) EXCEPT !.protected = @ + (IF finalizes THEN 1 ELSE 0)]
      block == Run(into, <<At(l + 1), S(n.block), At(l + 2),
                           Jump(IF finalizes THEN l + 5 ELSE l + 4)>>)
      scoped == WithScopes(block, begin_catch(block.sc, n.param, n.handler.body))
      v == Slots(scoped) + 1
      clause == Leave(Run(Fresh(scoped, 1, 0),
        <<At(l + 3)>> \o Keep(v) \o <<P(n.param, v, "let", "parameter")>>
          \o StatementList(n.handler.body, FALSE, FALSE)))
      caught == IF ~catches THEN block
                ELSE Run(clause, <<At(l + 4)>> \o IF finalizes THEN <<Jump(l + 5)>> ELSE <<>>)
      final == IF ~finalizes THEN caught
               ELSE Run(caught, <<At(l + 5), S(n.finalizer), Op1("end_finally", l + 5), At(l + 6)>>)
  IN  [final EXCEPT !.protected = e.protected, !.handlers = Append(@,
         [try_start |-> l + 1, try_end |-> l + 2,
          catch_start |-> Mark(3, catches), catch_end |-> Mark(4, catches),
          finally_start |-> Mark(5, finalizes), finally_end |-> Mark(6, finalizes)])]

RECURSIVE Labels(_)
Labels(n) == IF n.t = "labeled" THEN {n.label} \cup Labels(n.body) ELSE {}
RECURSIVE LabeledBody(_)
LabeledBody(n) == IF n.t = "labeled" THEN LabeledBody(n.body) ELSE n

compile_with(e, n) ==
  LET l == e.labels + 1
      entered == Run(Fresh(e, 0, 1), <<X(n.object), Op1("enter_with", l)>>)
      body == Run([entered EXCEPT !.with = @ + 1, !.bodies = Append(@, Len(e.sc.scopes))],
                  <<S(n.body), Op("leave_with")>>)
  IN  Run([body EXCEPT !.with = e.with, !.bodies = e.bodies], <<At(l)>>)

\* Statements that take labels.
compile_breakable(e, n, names) ==
  LET l == e.labels + 1
  IN  CASE n.t = "while"    -> compile_while(e, n, names)
        [] n.t = "do_while" -> compile_do_while(e, n, names)
        [] n.t = "for"      -> compile_for(e, n, names)
        [] n.t \in {"for_in", "for_of"} -> compile_for_of(e, n, names)
        [] n.t = "switch"   -> compile_switch(e, n, names)
        [] OTHER -> Run(EndControl(Run(Control(Fresh(e, 0, 1), FALSE, names, l, 0), <<S(n)>>)),
                        <<At(l)>>)

compile_statement(from, n, preserve) ==
  LET e == [from EXCEPT !.starts = @ \cup {Len(from.code) + 1}]
  IN  CASE n.t = "declaration" -> Run(e, Declarators(n))
        [] n.t \in {"function_declaration", "empty", "import"} -> e
        [] n.t = "class"       -> compile_class_declaration(e, n)
        [] n.t = "return"      ->
             IF ~e.function THEN Refuse(e)
             ELSE Run(e, <<IF Given(n.argument) THEN X(n.argument) ELSE Push(Undefined),
                           Op("return")>>)
        [] n.t = "throw"       -> Run(e, <<X(n.argument), Op("throw")>>)
        [] n.t = "try"         -> compile_try(e, n)
        [] n.t = "if"          -> compile_if(e, n)
        [] n.t = "with"        -> IF e.strict THEN Refuse(e) ELSE compile_with(e, n)
        [] n.t \in {"while", "do_while", "for", "for_in", "for_of", "switch"} ->
             compile_breakable(e, n, {})
        [] n.t = "labeled"     -> compile_breakable(e, LabeledBody(n), Labels(n))
        [] n.t = "break"       -> compile_jump(e, n, FALSE, "break", "brk")
        [] n.t = "continue"    -> compile_jump(e, n, TRUE, "continue", "cont")
        [] n.t = "block"       -> compile_block(e, n.body)
        [] n.t = "expression"  ->
             Run(e, <<X(n.expression)>> \o IF preserve THEN <<>> ELSE <<Pop>>)
        [] n.t = "export"      -> Run(e, <<S(n.declaration)>>)
        [] OTHER               -> Refuse(e)

Item(e, it) ==
  CASE it.do = "op"         -> Emit(e, it)
    [] it.do = "at"         -> [e EXCEPT !.marks = (it.l :> Len(e.code) + 1) @@ @]
    [] it.do = "expression" -> compile_expression(e, it.n)
    [] it.do = "statement"  -> compile_statement(e, it.n, it.preserve)
    [] it.do = "pattern"    -> compile_pattern(e, it.p, it.slot, it.kind, it.mode)
    [] it.do = "declarator" -> compile_declarator(e, it.d, it.kind)
    [] it.do = "function"   -> compile_function_declaration(e, it.f)
    [] it.do = "method"     -> compile_method_value(e, it.f, it.slot)
    [] it.do = "parameter"  -> compile_parameter(e, it.f, it.i)

Run(e, items) ==
  IF items = <<>> \/ e.refused THEN e ELSE Run(Item(e, Head(items)), Tail(items))

-----------------------------------------------------------------------------
(* Programs: the chunks, the program's own last; <<>> when it is refused.  *)

Main(e) ==
  Finish(e) @@ [arguments |-> 0, parameters |-> 0, names |-> <<>>, simple |-> TRUE,
                strict |-> e.strict, class |-> FALSE, this |-> "global", constructor |-> FALSE]

ProgramChunks(e) == IF e.refused THEN <<>> ELSE Append(e.protos, Main(e))

\* The value of a program is that of its last statement, if an expression.
compile(list, protos) ==
  LET start == NewCompiler(<<>>, protos, has_use_strict_directive(list), FALSE, NoImports)
      preserved == list # <<>> /\ list[Len(list)].t = "expression"
  IN  ProgramChunks(Run(WithScopes(start, begin_program(list)),
                        StatementList(list, TRUE, TRUE)
                          \o (IF preserved THEN <<>> ELSE <<Push(Undefined)>>) \o <<Op("return")>>))

\* A module is strict; an import names a module cell, an export the slot of
\* the local binding its cell will stand for.
WithExports(e, exports) ==
  LET Binding(i) == find_binding(e.sc, exports[i].name)
  IN  IF e.refused \/ \E i \in DOMAIN exports : Binding(i).kind \in {"none", "import"} THEN <<>>
      ELSE Append(e.protos, [Main(e) EXCEPT !.exports =
             [i \in DOMAIN exports |-> [slot |-> Binding(i).slot, cell |-> exports[i].cell]]])
compile_module(list, imports, exports, protos) ==
  LET start == NewCompiler(<<>>, protos, TRUE, FALSE, imports)
  IN  WithExports(Run(WithScopes(start, begin_program(list)),
                    StatementList(list, FALSE, TRUE) \o <<Push(Undefined), Op("return")>>), exports)

=============================================================================
