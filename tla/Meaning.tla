------------------------------ MODULE Meaning ------------------------------
(***************************************************************************)
(* What a program means in the language, defined on its tree: scopes are   *)
(* chains of environments kept in the world, a statement ends in a         *)
(* completion record, an iteration of a loop has bindings of its own.      *)
(* There are no slots, upvalues, instructions, handlers or references kept *)
(* between instructions.  Operations on objects are those of World.        *)
(*                                                                         *)
(* w.envs is the sequence of environments: names to variables, or the      *)
(* object of a with statement; 0 is the global one.  w.cells gives the     *)
(* variable an exported name stands for.  A context c is the environment,  *)
(* the receiver and the strictness of the code.  An outcome is that of     *)
(* World; its k may also be return, break or continue (v the label).       *)
(***************************************************************************)
EXTENDS World

Global == Obj(GlobalObject)
Context(env, this, strict) == [env |-> env, this |-> this, strict |-> strict]

-----------------------------------------------------------------------------
(* Environments.                                                           *)

Variable(v, on, imm) == [v |-> v, on |-> on, imm |-> imm]
Vars(names, on, imm) == [x \in names |-> Variable(Undefined, on, imm)]
NoAliases == [x \in {} |-> 0]

Entered(w, vars, outer) ==
  [w EXCEPT !.envs = Append(@, [object |-> 0, vars |-> vars, alias |-> NoAliases,
                                outer |-> outer])]
EnteredObject(w, o, outer) ==
  [w EXCEPT !.envs = Append(@, [object |-> o.n, vars |-> NoAliases, alias |-> NoAliases,
                                outer |-> outer])]
Inner(w, c) == [c EXCEPT !.env = Len(w.envs)]

HasName(w, e, x) ==
  LET o == w.envs[e].object
      hidden == get_property_semantic(w, Obj(o), "@@unscopables").v
  IN  IF o = 0 THEN x \in DOMAIN w.envs[e].vars \cup DOMAIN w.envs[e].alias
      ELSE /\ has_property(w, o, x)
           /\ IsObject(hidden) => ~to_boolean(get_property_semantic(w, hidden, x).v)

RECURSIVE EnvironmentOf(_, _, _)
EnvironmentOf(w, e, x) ==
  IF e = 0 THEN 0 ELSE IF HasName(w, e, x) THEN e ELSE EnvironmentOf(w, w.envs[e].outer, x)

\* A reference: a variable, a property of an environment's object (0 the
\* global one) or a property of a value.  An import is its exporter's variable.
Ref(kind, env, name, base, key) ==
  [kind |-> kind, env |-> env, name |-> name, base |-> base, key |-> key]
PropertyRef(base, key) == Ref("property", 0, "", base, key)
NameRef(w, c, x) ==
  LET e == EnvironmentOf(w, c.env, x)
  IN  IF e = 0
      THEN Ref(IF has_property(w, GlobalObject, x) THEN "object" ELSE "unresolvable",
               0, x, Global, Undefined)
      ELSE IF w.envs[e].object # 0
      THEN Ref("object", e, x, Obj(w.envs[e].object), Undefined)
      ELSE Ref(IF x \in DOMAIN w.envs[e].vars THEN "variable" ELSE "import",
               e, x, Undefined, Undefined)

GetValue(w, r, c) ==
  LET Read(x) == IF x.on THEN Normal(w, x.v) ELSE ThrowErr(w, "ReferenceError")
      cell == w.envs[r.env].alias[r.name]
  IN  CASE r.kind = "unresolvable" -> ThrowErr(w, "ReferenceError")
        [] r.kind = "variable" -> Read(w.envs[r.env].vars[r.name])
        [] r.kind = "import" ->
             IF cell \notin DOMAIN w.cells THEN ThrowErr(w, "ReferenceError")
             ELSE Read(w.envs[w.cells[cell].env].vars[w.cells[cell].name])
        [] r.kind = "property" ->
             IF Nullish(r.base) THEN ThrowErr(w, "TypeError")
             ELSE get_element_semantic(w, r.base, r.key)
        [] r.kind = "object" ->
             IF has_property(w, r.base.n, r.name) THEN get_property_semantic(w, r.base, r.name)
             ELSE IF c.strict \/ r.env = 0 THEN ThrowErr(w, "ReferenceError")
             ELSE Normal(w, Undefined)

\* A property that is not written is an error in strict code.
Written(r, c) ==
  Then(r, LAMBDA u, done :
    IF c.strict /\ done = Bool(FALSE) THEN ThrowErr(u, "TypeError") ELSE Normal(u, Undefined))

PutValue(w, r, v, c) ==
  LET x == w.envs[r.env].vars[r.name]
  IN  CASE r.kind = "unresolvable" ->
             IF c.strict THEN ThrowErr(w, "ReferenceError")
             ELSE Written(set_property_semantic(w, Global, r.name, v), c)
        [] r.kind = "import" -> ThrowErr(w, "TypeError")
        [] r.kind = "variable" ->
             IF ~x.on THEN ThrowErr(w, "ReferenceError")
             ELSE IF x.imm THEN ThrowErr(w, "TypeError")
             ELSE Normal([w EXCEPT !.envs[r.env].vars[r.name].v = v], Undefined)
        [] r.kind = "property" ->
             IF Nullish(r.base) THEN ThrowErr(w, "TypeError")
             ELSE Then(to_property_key(w, r.key), LAMBDA u, key :
                    Written(set_property_semantic(u, r.base, key.s, v), c))
        [] r.kind = "object" ->
             IF c.strict /\ ~has_property(w, r.base.n, r.name)
             THEN ThrowErr(w, "ReferenceError")
             ELSE Written(set_property_semantic(w, r.base, r.name, v), c)

\* A key that is used twice is converted once.
Prepared(w, r) ==
  IF r.kind # "property" THEN Normal(w, r)
  ELSE IF Nullish(r.base) THEN ThrowErr(w, "TypeError")
  ELSE Then(to_property_key(w, r.key), LAMBDA u, key : Normal(u, [r EXCEPT !.key = key]))

\* A declaration gives the innermost variable of its name its first value.
RECURSIVE Declaring(_, _, _)
Declaring(w, e, x) ==
  IF x \in DOMAIN w.envs[e].vars THEN e ELSE Declaring(w, w.envs[e].outer, x)
Initialize(w, c, x, v) ==
  Normal([w EXCEPT !.envs[Declaring(w, c.env, x)].vars[x] = [@ EXCEPT !.v = v, !.on = TRUE]],
         Undefined)

\* The variables of a list of statements: lexical ones unset, functions and
\* vars undefined.
Declared(list) == Map(list, LAMBDA n : IF n.t = "export" THEN n.declaration ELSE n)
NamesWhere(list, P(_)) ==
  UNION {ToSet(IF list[i].t = "declaration" THEN declared_names(list[i]) ELSE <<list[i].id>>) :
           i \in {j \in DOMAIN list : P(list[j])}}
LexicalVars(list) ==
  LET own == Declared(list)
      Of(kind) == NamesWhere(own, LAMBDA n : n.t = "declaration" /\ n.kind = kind)
  IN  Vars(Of("const"), FALSE, TRUE)
        @@ Vars(Of("let") \cup NamesWhere(own, LAMBDA n : n.t = "class"), FALSE, FALSE)
BodyVars(list) ==
  LexicalVars(list)
    @@ Vars(ToSet(var_names(Declared(list)))
              \cup NamesWhere(Declared(list), LAMBDA n : n.t = "function_declaration"),
            TRUE, FALSE)

-----------------------------------------------------------------------------
(* Functions.                                                              *)

RECURSIVE Evaluate(_, _, _)
RECURSIVE AddElements(_, _, _, _)
RECURSIVE BindPattern(_, _, _, _, _)
RECURSIVE Perform(_, _, _, _)
RECURSIVE PerformAll(_, _, _)

BodyList(f) == IF f.body.t = "block" THEN f.body.body ELSE <<>>

\* A closure keeps its tree and its environment.
MakeClosure(w, c, f, form) ==
  LET made == Alloc(w, [NewObject(ObjectProto) EXCEPT
                !.fn = [native |-> "", is |-> TRUE, f |-> f, form |-> form, env |-> c.env,
                        this |-> c.this,
                        strict |-> c.strict \/ has_use_strict_directive(BodyList(f))]])
      proto == Alloc(made.w, NewObject(ObjectProto))
  IN  IF form \in {"arrow", "method"} THEN made
      ELSE Normal(Define(Define(proto.w, made.v.n, "prototype",
                                Data(proto.v, FALSE, FALSE, FALSE)),
                         proto.v.n, "constructor", Data(made.v, TRUE, FALSE, TRUE)), made.v)

\* The name of a function expression is a variable around the function.
FunctionValue(w, c, f) ==
  LET into == Entered(w, Vars({f.id}, FALSE, FALSE), c.env)
      named == MakeClosure(into, Inner(into, c), f, "expression")
  IN  CASE f.t = "arrow" -> MakeClosure(w, c, f, "arrow")
        [] f.t # "arrow" /\ f.id = "" -> MakeClosure(w, c, f, "expression")
        [] OTHER -> Normal(Initialize(named.w, Inner(into, c), f.id, named.v).w, named.v)

\* Functions are defined before the first statement of their list runs.
RECURSIVE Hoist(_, _, _)
Hoist(w, c, list) ==
  LET made == MakeClosure(w, c, Head(list), "declaration")
  IN  IF list = <<>> THEN w
      ELSE Hoist(IF Head(list).t # "function_declaration" THEN w
                 ELSE Initialize(made.w, c, Head(list).id, made.v).w, c, Tail(list))

\* Parameters are bound from left to right.
RECURSIVE BindParameters(_, _, _, _, _)
BindParameters(w, c, f, args, i) ==
  LET given == IF i <= Len(args) THEN args[i] ELSE Undefined
      rest == ArrayOf(array(w), SubSeq(args, i, Len(args)))
      value == IF f.rest = i THEN rest
               ELSE IF given = Undefined /\ Given(f.defaults[i])
               THEN Evaluate(w, c, f.defaults[i]) ELSE Normal(w, given)
  IN  IF i > Len(f.params) THEN Normal(w, Undefined)
      ELSE Then(value, LAMBDA u, v :
             Then(BindPattern(u, c, f.params[i], v, "initialize"), LAMBDA x, done :
               BindParameters(x, c, f, args, i + 1)))

CallClosure(w, callee, this, args, receiver) ==
  LET fn == w.h[callee.n].fn
      f == fn.f
      simple == simple_parameter_list(f)
      own == fn.form # "arrow" /\ "arguments" \notin ToSet(parameter_names(f))
      by == CASE fn.form = "arrow" -> Normal(w, fn.this)
              [] fn.form # "arrow" /\ ~fn.strict /\ Nullish(this) -> Normal(w, Global)
              [] fn.form # "arrow" /\ ~fn.strict /\ ~Nullish(this) /\ ~IsObject(this) ->
                   box_primitive(w, this)
              [] OTHER -> Normal(w, this)
      made == IF own THEN ArgumentsObject(by.w, args, callee, fn.strict) ELSE by
      vars == (IF own THEN [x \in {"arguments"} |-> Variable(made.v, TRUE, FALSE)] ELSE NoAliases)
                @@ Vars(ToSet(parameter_names(f)), simple, FALSE)
      into == Entered(made.w, vars, fn.env)
      c == Inner(into, Context(0, by.v, fn.strict))
      \* Simple parameters share the environment of the body.
      Body(u) ==
        LET outer == u.envs[c.env].vars
            kept(x) == x \in DOMAIN outer /\ outer[x].on
            inner == [x \in DOMAIN BodyVars(BodyList(f)) |->
                        IF kept(x) THEN outer[x] ELSE BodyVars(BodyList(f))[x]]
            b == IF simple THEN [u EXCEPT !.envs[c.env].vars = inner @@ @]
                           ELSE Entered(u, inner, c.env)
            d == IF simple THEN c ELSE Inner(b, c)
        IN  IF f.body.t # "block" THEN Evaluate(b, d, f.body)
            ELSE Then(PerformAll(Hoist(b, d, f.body.body), d, f.body.body), LAMBDA x, v :
                   Normal(x, Undefined))
      ended == Then(BindParameters(into, c, f, args, 1), LAMBDA u, v : Body(u))
      value == IF receiver # Undefined /\ ~IsObject(ended.v) THEN receiver ELSE ended.v
  IN  IF ended.k \in {"normal", "return"} THEN Normal(ended.w, value) ELSE ended

CallValue(w, f, this, args) ==
  CASE f.type # "function" -> ThrowErr(w, "TypeError")
    [] f.type = "function" /\ w.h[f.n].fn.native # "" -> call(w, f, this, args)
    [] f.type = "function" /\ w.h[f.n].fn.native = "" ->
         IF w.h[f.n].fn.form = "class" THEN ThrowErr(w, "TypeError")
         ELSE CallClosure(w, f, this, args, Undefined)

Constructor(w, f) ==
  /\ f.type = "function" /\ w.h[f.n].fn.native = ""
  /\ w.h[f.n].fn.form \in {"declaration", "expression", "class"}
ConstructValue(w, f, args) ==
  IF ~Constructor(w, f) THEN ThrowErr(w, "TypeError")
  ELSE Then(get_property_semantic(w, f, "prototype"), LAMBDA u, p :
         LET made == Alloc(u, NewObject(IF IsObject(p) THEN p.n ELSE ObjectProto))
         IN  CallClosure(made.w, f, made.v, args, made.v))

-----------------------------------------------------------------------------
(* Expressions.                                                            *)

\* The values of a list, one after the other, as the elements of an array.
AddElements(w, c, list, a) ==
  LET n == Head(list)
      more(u) == AddElements(u, c, Tail(list), a)
  IN  CASE list = <<>> -> Normal(w, a)
        [] list # <<>> /\ n.t = "none" ->
             more([w EXCEPT !.h[a.n].props["length"].v.n = @ + 1])
        [] list # <<>> /\ n.t = "spread" ->
             Then(Evaluate(w, c, n.argument), LAMBDA u, v :
               Then(get_iterator(u, v), LAMBDA x, it :
                 Then(get_method(x, it, "next"), LAMBDA y, next :
                   Then(Drain(y, it, next, a), LAMBDA z, done : more(z)))))
        [] OTHER -> Then(Evaluate(w, c, n), LAMBDA u, v : more(array_push(u, a, v).w))
EvaluateList(w, c, list) ==
  LET a == array(w) IN Then(AddElements(a.w, c, list, a.v), LAMBDA u, v : Normal(u, ElementsOf(u, v)))

RECURSIVE AddProperties(_, _, _, _)
AddProperties(w, c, list, o) ==
  LET n == Head(list)
      key == IF n.computed THEN Then(Evaluate(w, c, n.key), to_property_key)
                           ELSE Normal(w, Str(n.key.name))
      from(u, v) == IF IsObject(v) THEN Normal(u, v) ELSE box_primitive(u, v)
      copied(u, v) == CopyProperties(from(u, v).w, o, from(u, v).v.n,
                                     own_property_keys(from(u, v).w, from(u, v).v.n), {})
  IN  CASE list = <<>> -> Normal(w, o)
        [] list # <<>> /\ n.t = "spread" ->
             Then(Evaluate(w, c, n.argument), LAMBDA u, v :
               AddProperties(IF Nullish(v) THEN u ELSE copied(u, v), c, Tail(list), o))
        [] OTHER ->
             Then(key, LAMBDA u, k :
               Then(Evaluate(u, c, n.value), LAMBDA x, v :
                 AddProperties(create_data_property(x, o, k.s, v).w, c, Tail(list), o)))

\* Base and key are evaluated once.
Reference(w, c, n) ==
  CASE n.t = "identifier" -> Normal(w, NameRef(w, c, n.name))
    [] n.t = "member" ->
         Then(Evaluate(w, c, n.object), LAMBDA u, base :
           IF ~n.computed THEN Normal(u, PropertyRef(base, Str(n.property.name)))
           ELSE Then(Evaluate(u, c, n.property), LAMBDA x, key :
                  Normal(x, PropertyRef(base, key))))

Delete(w, c, base, key) ==
  IF Nullish(base) THEN ThrowErr(w, "TypeError")
  ELSE Then(to_property_key(w, key), LAMBDA u, k :
         Then(delete_property_semantic(u, base, k.s), LAMBDA x, done :
           IF c.strict /\ done = Bool(FALSE) THEN ThrowErr(x, "TypeError") ELSE Normal(x, done)))

\* The segments of a chain: v the value so far, this what a call receives.  A
\* chain that stops short is undefined, or true when its end is deleted.
RECURSIVE Chained(_, _, _, _, _, _)
Chained(w, c, list, v, this, deletes) ==
  LET g == Head(list)
      key == IF g.kind = "computed" THEN Evaluate(w, c, g.property) ELSE Normal(w, Str(g.property.name))
  IN  CASE list = <<>> -> Normal(w, v)
        [] list # <<>> /\ g.optional /\ Nullish(v) ->
             Normal(w, IF deletes THEN Bool(TRUE) ELSE Undefined)
        [] list # <<>> /\ ~(g.optional /\ Nullish(v)) /\ g.kind = "call" ->
             Then(EvaluateList(w, c, g.arguments), LAMBDA u, args :
               Then(CallValue(u, v, this, args), LAMBDA x, r :
                 Chained(x, c, Tail(list), r, Undefined, deletes)))
        [] OTHER ->
             Then(key, LAMBDA u, k :
               IF deletes /\ Len(list) = 1 THEN Delete(u, c, v, k)
               ELSE Then(GetValue(u, PropertyRef(v, k), c), LAMBDA x, r :
                      Chained(x, c, Tail(list), r, v, deletes)))

EvaluateChain(w, c, n, deletes) ==
  IF n.base.t = "member"
  THEN Then(Reference(w, c, n.base), LAMBDA u, r :
         Then(GetValue(u, r, c), LAMBDA x, v : Chained(x, c, n.segments, v, r.base, deletes)))
  ELSE Then(Evaluate(w, c, n.base), LAMBDA u, v :
         Chained(u, c, n.segments, v, Undefined, deletes))

EvaluateDelete(w, c, a) ==
  CASE a.t \in {"identifier", "member"} ->
         Then(Reference(w, c, a), LAMBDA u, r :
           CASE r.kind = "property"     -> Delete(u, c, r.base, r.key)
             [] r.kind = "object"       -> delete_property(u, r.base.n, r.name)
             [] r.kind = "unresolvable" -> Normal(u, Bool(TRUE))
             [] OTHER                   -> Normal(u, Bool(FALSE)))
    [] a.t = "chain" -> EvaluateChain(w, c, a, TRUE)
    [] OTHER -> Then(Evaluate(w, c, a), LAMBDA u, v : Normal(u, Bool(TRUE)))

EvaluateUnary(w, c, n) ==
  CASE n.op = "delete" -> EvaluateDelete(w, c, n.argument)
    [] n.op = "typeof" ->
         IF n.argument.t = "identifier" /\ NameRef(w, c, n.argument.name).kind = "unresolvable"
         THEN Normal(w, Str("undefined"))
         ELSE Then(Evaluate(w, c, n.argument), LAMBDA u, v : Normal(u, Str(TypeOf(v))))
    [] n.op = "void" -> Then(Evaluate(w, c, n.argument), LAMBDA u, v : Normal(u, Undefined))
    [] OTHER -> Then(Evaluate(w, c, n.argument), LAMBDA u, v : UnaryOperator(u, n.op, v))

EvaluateUpdate(w, c, n) ==
  Then(Reference(w, c, n.argument), LAMBDA u, r0 :
    Then(Prepared(u, r0), LAMBDA x, r :
      Then(GetValue(x, r, c), LAMBDA y, old :
        Then(to_number(y, old), LAMBDA z, number :
          LET new == Arithmetic(IF n.op = "++" THEN "+" ELSE "-", number, Num(1))
          IN  Then(PutValue(z, r, new, c), LAMBDA p, done :
                Normal(p, IF n.prefix THEN new ELSE number))))))

\* The right side of a logical operator is evaluated when the left one asks
\* for it.
Asks(op, v) ==
  CASE op \in {"&&", "&&="} -> to_boolean(v)
    [] op \in {"||", "||="} -> ~to_boolean(v)
    [] op \in {"??", "??="} -> Nullish(v)

CompoundOperator(op) == CASE op = "+=" -> "+" [] op = "-=" -> "-" [] op = "*=" -> "*"

EvaluateAssignment(w, c, n) ==
  LET Put(u, r, v) == Then(PutValue(u, r, v, c), LAMBDA x, done : Normal(x, v))
  IN  CASE n.left.t \in {"array_pattern", "object_pattern"} ->
             Then(Evaluate(w, c, n.right), LAMBDA u, v :
               Then(BindPattern(u, c, n.left, v, "assign"), LAMBDA x, done : Normal(x, v)))
        [] n.op = "=" /\ n.left.t \in {"identifier", "member"} ->
             Then(Reference(w, c, n.left), LAMBDA u, r :
               Then(Evaluate(u, c, n.right), LAMBDA x, v : Put(x, r, v)))
        [] OTHER ->
             Then(Reference(w, c, n.left), LAMBDA u, r0 :
               Then(Prepared(u, r0), LAMBDA x, r :
                 Then(GetValue(x, r, c), LAMBDA y, old :
                   IF n.op \in {"&&=", "||=", "??="}
                   THEN IF Asks(n.op, old)
                        THEN Then(Evaluate(y, c, n.right), LAMBDA z, v : Put(z, r, v))
                        ELSE Normal(y, old)
                   ELSE Then(Evaluate(y, c, n.right), LAMBDA z, v :
                          Then(BinaryOperator(z, CompoundOperator(n.op), old, v),
                               LAMBDA p, new : Put(p, r, new))))))

\* A method receives its base, a function found in the object of a with
\* statement that object.
EvaluateCall(w, c, callee, list) ==
  LET Receiver(r) == IF r.kind = "property" \/ (r.kind = "object" /\ r.env # 0) THEN r.base
                     ELSE Undefined
      Arguments(u, f, this) ==
        Then(EvaluateList(u, c, list), LAMBDA x, args : CallValue(x, f, this, args))
  IN  IF callee.t \in {"identifier", "member"}
      THEN Then(Reference(w, c, callee), LAMBDA u, r :
             Then(GetValue(u, r, c), LAMBDA x, f : Arguments(x, f, Receiver(r))))
      ELSE Then(Evaluate(w, c, callee), LAMBDA u, f : Arguments(u, f, Undefined))

RECURSIVE Concatenation(_, _, _, _, _)
Concatenation(w, c, n, i, sofar) ==
  IF i > Len(n.expressions) THEN Normal(w, sofar)
  ELSE Then(Evaluate(w, c, n.expressions[i]), LAMBDA u, v :
         Then(to_string(u, v), LAMBDA x, s :
           Concatenation(x, c, n, i + 1, Str(sofar.s \o s.s \o n.quasis[i + 1]))))

EvaluateTagged(w, c, n) ==
  EvaluateCall(w, c, n.tag, <<ArrayExpr(Map(n.quasi.quasis, LAMBDA q : Lit(Str(q))))>>
                              \o n.quasi.expressions)

EvaluateSequence(w, c, list) ==
  Then(EvaluateList(w, c, list), LAMBDA u, all : Normal(u, all[Len(all)]))

Evaluate(w, c, n) ==
  CASE n.t = "literal"    -> Normal(w, n.value)
    [] n.t = "identifier" -> GetValue(w, NameRef(w, c, n.name), c)
    [] n.t = "this"       -> Normal(w, c.this)
    [] n.t = "unary"      -> EvaluateUnary(w, c, n)
    [] n.t = "update"     -> EvaluateUpdate(w, c, n)
    [] n.t = "binary"     ->
         Then(Evaluate(w, c, n.left), LAMBDA u, a :
           Then(Evaluate(u, c, n.right), LAMBDA x, b : BinaryOperator(x, n.op, a, b)))
    [] n.t = "logical"    ->
         Then(Evaluate(w, c, n.left), LAMBDA u, a :
           IF Asks(n.op, a) THEN Evaluate(u, c, n.right) ELSE Normal(u, a))
    [] n.t = "conditional" ->
         Then(Evaluate(w, c, n.test), LAMBDA u, b :
           Evaluate(u, c, IF to_boolean(b) THEN n.consequent ELSE n.alternate))
    [] n.t = "sequence"   -> EvaluateSequence(w, c, n.expressions)
    [] n.t = "assignment" -> EvaluateAssignment(w, c, n)
    [] n.t = "member"     -> Then(Reference(w, c, n), LAMBDA u, r : GetValue(u, r, c))
    [] n.t = "call"       -> EvaluateCall(w, c, n.callee, n.arguments)
    [] n.t = "new"        ->
         Then(Evaluate(w, c, n.callee), LAMBDA u, f :
           Then(EvaluateList(u, c, n.arguments), LAMBDA x, args : ConstructValue(x, f, args)))
    [] n.t = "array"      -> LET a == array(w) IN AddElements(a.w, c, n.elements, a.v)
    [] n.t = "object"     -> LET o == object(w) IN AddProperties(o.w, c, n.properties, o.v)
    [] n.t = "template"   -> Concatenation(w, c, n, 1, Str(n.quasis[1]))
    [] n.t = "tagged"     -> EvaluateTagged(w, c, n)
    [] n.t = "chain"      -> EvaluateChain(w, c, n, FALSE)
    [] n.t \in {"function", "arrow"} -> FunctionValue(w, c, n)

-----------------------------------------------------------------------------
(* Patterns.                                                               *)

\* The next value of an iterator, undefined when it is done.
Step(w, it, next) ==
  Then(iterator_next(w, it, next), LAMBDA u, r :
    Then(iterator_complete(u, r), LAMBDA x, done :
      IF done = Bool(TRUE) THEN Normal(x, Undefined) ELSE iterator_value(x, r)))

RECURSIVE BindElements(_, _, _, _, _, _)
BindElements(w, c, list, it, next, mode) ==
  LET p == Head(list)
      a == array(w)
      value == IF p.t = "rest" THEN Drain(a.w, it, next, a.v) ELSE Step(w, it, next)
  IN  IF list = <<>> THEN Normal(w, Undefined)
      ELSE Then(value, LAMBDA u, v :
             Then(IF Given(p) THEN BindPattern(u, c, p, v, mode) ELSE Normal(u, v),
                  LAMBDA x, done : BindElements(x, c, Tail(list), it, next, mode)))

RECURSIVE BindProperties(_, _, _, _, _, _)
BindProperties(w, c, p, i, v, taken) ==
  LET q == p.properties[i]
      key == IF q.computed THEN Then(Evaluate(w, c, q.key), to_property_key)
                           ELSE Normal(w, Str(q.key.name))
      made == object(w)
      from == IF IsObject(v) THEN Normal(made.w, v) ELSE box_primitive(made.w, v)
      rest == CopyProperties(from.w, made.v, from.v.n, own_property_keys(from.w, from.v.n), taken)
  IN  CASE i <= Len(p.properties) ->
             Then(key, LAMBDA u, k :
               Then(get_property_semantic(u, v, k.s), LAMBDA x, value :
                 Then(BindPattern(x, c, q.value, value, p.mode), LAMBDA y, done :
                   BindProperties(y, c, p, i + 1, v, taken \cup {k.s}))))
        [] i > Len(p.properties) /\ Given(p.rest) -> BindPattern(rest, c, p.rest, made.v, p.mode)
        [] OTHER -> Normal(w, Undefined)

\* mode: "assign" to what the pattern names or "initialize" the variables
\* declared by it.
BindPattern(w, c, p, v, mode) ==
  CASE p.t = "identifier" /\ mode = "initialize" -> Initialize(w, c, p.name, v)
    [] p.t \in {"identifier", "member"} /\ (p.t = "member" \/ mode = "assign") ->
         Then(Reference(w, c, p), LAMBDA u, r : PutValue(u, r, v, c))
    [] p.t = "rest"    -> BindPattern(w, c, p.argument, v, mode)
    [] p.t = "default" ->
         Then(IF v = Undefined THEN Evaluate(w, c, p.right) ELSE Normal(w, v), LAMBDA u, x :
           BindPattern(u, c, p.left, x, mode))
    [] p.t = "array_pattern" ->
         Then(get_iterator(w, v), LAMBDA u, it :
           Then(get_method(u, it, "next"), LAMBDA x, next :
             BindElements(x, c, p.elements, it, next, mode)))
    [] p.t = "object_pattern" ->
         IF Nullish(v) THEN ThrowErr(w, "TypeError")
         ELSE BindProperties(w, c, p @@ [mode |-> mode], 1, v, {})

-----------------------------------------------------------------------------
(* Statements.                                                             *)

Jumps(r, kind, labels) == r.k = kind /\ r.v.s \in labels \cup {""}
Target(l) == Str(l)
\* A loop goes on after its body and after a continue of its own.
GoesOn(r, labels) == r.k = "normal" \/ Jumps(r, "continue", labels)
\* A break of its own ends a loop or a switch normally.
Ending(r, labels) == IF Jumps(r, "break", labels) THEN Normal(r.w, Undefined) ELSE r

Scoped(w, c, list) == Entered(w, LexicalVars(list), c.env)

Declare(w, c, d) ==
  LET RECURSIVE Each(_, _)
      Each(u, i) ==
        LET q == d.declarations[i]
        IN  CASE i > Len(d.declarations) -> Normal(u, Undefined)
              [] i <= Len(d.declarations) /\ d.kind = "var" /\ ~Given(q.init) -> Each(u, i + 1)
              [] OTHER ->
                   Then(IF Given(q.init) THEN Evaluate(u, c, q.init) ELSE Normal(u, Undefined),
                        LAMBDA x, v :
                     Then(BindPattern(x, c, q.id, v, IF d.kind = "var" THEN "assign"
                                                     ELSE "initialize"), LAMBDA y, done :
                       Each(y, i + 1)))
  IN  Each(w, 1)

RECURSIVE DefineMethods(_, _, _, _)
DefineMethods(w, c, methods, proto) ==
  LET m == Head(methods)
      made == MakeClosure(w, c, m, "method")
  IN  IF methods = <<>> THEN w
      ELSE DefineMethods(IF m.id = "constructor" THEN w
                         ELSE create_data_property(made.w, proto, m.id, made.v).w,
                         c, Tail(methods), proto)

\* The code of a class is strict.
DeclareClass(w, c0, d) ==
  LET c == [c0 EXCEPT !.strict = TRUE]
      own == SelectSeq(d.methods, LAMBDA m : m.id = "constructor")
      made == MakeClosure(w, c, IF own = <<>> THEN Method("constructor", <<>>, Block(<<>>))
                                              ELSE own[1], "class")
      proto == Value(made.w, made.v.n, "prototype")
  IN  Initialize(DefineMethods(made.w, c, d.methods, proto), c, d.id, made.v)

RECURSIVE WhileLoop(_, _, _, _)
WhileLoop(w, c, n, labels) ==
  Then(Evaluate(w, c, n.test), LAMBDA u, b :
    IF ~to_boolean(b) THEN Normal(u, Undefined)
    ELSE LET r == Perform(u, c, n.body, {})
         IN  IF GoesOn(r, labels) THEN WhileLoop(r.w, c, n, labels) ELSE Ending(r, labels))

DoWhileLoop(w, c, n, labels) ==
  LET r == Perform(w, c, n.body, {})
  IN  IF GoesOn(r, labels) THEN WhileLoop(r.w, c, n, labels) ELSE Ending(r, labels)

\* Every iteration has its own copy of the variables of a lexical head, made
\* before the update.
Copied(w, c, copies) ==
  IF copies THEN Entered(w, w.envs[c.env].vars, w.envs[c.env].outer) ELSE w
RECURSIVE ForLoop(_, _, _, _, _)
ForLoop(w, c, n, labels, copies) ==
  LET test == IF Given(n.test) THEN Evaluate(w, c, n.test) ELSE Normal(w, Bool(TRUE))
  IN  Then(test, LAMBDA u, b :
        IF ~to_boolean(b) THEN Normal(u, Undefined)
        ELSE LET r == Perform(u, c, n.body, {})
                 next == Copied(r.w, c, copies)
                 d == IF copies THEN Inner(next, c) ELSE c
             IN  IF ~GoesOn(r, labels) THEN Ending(r, labels)
                 ELSE Then(IF Given(n.update) THEN Evaluate(next, d, n.update)
                           ELSE Normal(next, Undefined), LAMBDA x, v :
                        ForLoop(x, d, n, labels, copies)))

IsLexical(n) == n.t = "declaration" /\ n.kind # "var"
PerformFor(w, c, n, labels) ==
  LET lexical == IsLexical(n.init)
      into == IF lexical THEN Scoped(w, c, <<n.init>>) ELSE w
      d == IF lexical THEN Inner(into, c) ELSE c
      first == CASE n.init.t = "declaration" -> Declare(into, d, n.init)
                 [] n.init.t = "none"        -> Normal(into, Undefined)
                 [] OTHER                    -> Evaluate(into, d, n.init)
  IN  Then(first, LAMBDA u, v : ForLoop(u, d, n, labels, lexical))

RECURSIVE IterateOver(_, _, _, _, _, _)
IterateOver(w, c, n, it, next, labels) ==
  LET lexical == IsLexical(n.left)
      pattern == IF n.left.t = "declaration" THEN n.left.declarations[1].id ELSE n.left
  IN  Then(iterator_next(w, it, next), LAMBDA u, r :
        Then(iterator_complete(u, r), LAMBDA x, done :
          IF done = Bool(TRUE) THEN Normal(x, Undefined)
          ELSE Then(iterator_value(x, r), LAMBDA y, v :
            LET into == IF lexical THEN Scoped(y, c, <<n.left>>) ELSE y
                d == IF lexical THEN Inner(into, c) ELSE c
                bound == BindPattern(into, d, pattern, v,
                                     IF lexical THEN "initialize" ELSE "assign")
                body == Then(bound, LAMBDA z, ok : Perform(z, d, n.body, {}))
            IN  IF GoesOn(body, labels) THEN IterateOver(body.w, c, n, it, next, labels)
                ELSE Ending(body, labels))))

PerformForOf(w, c, n, labels) ==
  LET Values(u, v) ==
        IF n.t = "for_of" THEN Normal(u, v)
        ELSE IF Nullish(v) THEN array(u)
        ELSE LET o == IF IsObject(v) THEN Normal(u, v) ELSE box_primitive(u, v)
             IN  ArrayOf(array(o.w), Map(EnumerableKeys(o.w, Chain(o.w, o.v.n), {}), Str))
  IN  Then(Evaluate(w, c, n.object), LAMBDA u, v :
        Then(Values(u, v), LAMBDA x, values :
          Then(get_iterator(x, values), LAMBDA y, it :
            Then(get_method(y, it, "next"), LAMBDA z, next :
              IterateOver(z, c, n, it, next, labels)))))

\* The first clause whose test is equal, else the default; then all that
\* follow.
RECURSIVE ClauseFor(_, _, _, _, _)
ClauseFor(w, c, cases, v, i) ==
  LET default == {j \in DOMAIN cases : ~Given(cases[j].test)}
  IN  CASE i > Len(cases) ->
             Normal(w, IF default = {} THEN Len(cases) + 1 ELSE CHOOSE j \in default : TRUE)
        [] i <= Len(cases) /\ i \in default -> ClauseFor(w, c, cases, v, i + 1)
        [] OTHER -> Then(Evaluate(w, c, cases[i].test), LAMBDA u, t :
                      IF strict_equal(v, t) THEN Normal(u, i) ELSE ClauseFor(u, c, cases, v, i + 1))
PerformSwitch(w, c, n, labels) ==
  LET all == FlattenSeq([i \in DOMAIN n.cases |-> n.cases[i].consequent])
      From(i) == FlattenSeq([j \in DOMAIN n.cases |-> IF j < i THEN <<>> ELSE n.cases[j].consequent])
  IN  Then(Evaluate(w, c, n.discriminant), LAMBDA u, v :
        LET into == Scoped(u, c, all)
            d == Inner(into, c)
        IN  Then(ClauseFor(into, d, n.cases, v, 1), LAMBDA x, i :
              Ending(PerformAll(x, d, From(i)), labels)))

\* The finalizer runs whatever happened, and an end of its own that is not
\* normal replaces it.
PerformTry(w, c, n) ==
  LET block == Perform(w, c, n.block, {})
      Clause(u, v) ==
        LET into == Entered(u, Vars(ToSet(bound_names(n.param)), FALSE, FALSE), c.env)
            d == Inner(into, c)
        IN  Then(BindPattern(into, d, n.param, v, "initialize"), LAMBDA x, done :
              Perform(x, d, n.handler, {}))
      caught == IF block.k = "throw" /\ Given(n.handler) THEN Clause(block.w, block.v) ELSE block
      final == Perform(caught.w, c, n.finalizer, {})
  IN  IF ~Given(n.finalizer) \/ caught.k = "error" THEN caught
      ELSE IF final.k = "normal" THEN [caught EXCEPT !.w = final.w] ELSE final

PerformWith(w, c, n) ==
  Then(Evaluate(w, c, n.object), LAMBDA u, v :
    Then(to_object(u, v), LAMBDA x, o :
      LET into == EnteredObject(x, o, c.env) IN Perform(into, Inner(into, c), n.body, {})))

\* labels: those of the statement.
Perform(w, c, n, labels) ==
  CASE n.t = "declaration" -> Declare(w, c, n)
    [] n.t = "class"       -> DeclareClass(w, c, n)
    [] n.t = "expression"  -> Evaluate(w, c, n.expression)
    [] n.t = "block"       ->
         LET into == Scoped(w, c, n.body) IN PerformAll(into, Inner(into, c), n.body)
    [] n.t = "return"      ->
         Then(IF Given(n.argument) THEN Evaluate(w, c, n.argument) ELSE Normal(w, Undefined),
              LAMBDA u, v : Out(u, "return", v))
    [] n.t = "throw"       -> Then(Evaluate(w, c, n.argument), LAMBDA u, v : Out(u, "throw", v))
    [] n.t = "try"         -> PerformTry(w, c, n)
    [] n.t = "if"          ->
         Then(Evaluate(w, c, n.test), LAMBDA u, b :
           Perform(u, c, IF to_boolean(b) THEN n.consequent ELSE n.alternate, {}))
    [] n.t = "with"        -> PerformWith(w, c, n)
    [] n.t = "while"       -> WhileLoop(w, c, n, labels)
    [] n.t = "do_while"    -> DoWhileLoop(w, c, n, labels)
    [] n.t = "for"         -> PerformFor(w, c, n, labels)
    [] n.t \in {"for_in", "for_of"} -> PerformForOf(w, c, n, labels)
    [] n.t = "switch"      -> PerformSwitch(w, c, n, labels)
    [] n.t = "labeled"     ->
         LET r == Perform(w, c, n.body, labels \cup {n.label})
         IN  IF r.k = "break" /\ r.v.s = n.label THEN Normal(r.w, Undefined) ELSE r
    [] n.t \in {"break", "continue"} -> Out(w, n.t, Target(n.label))
    [] n.t = "export"      -> Perform(w, c, n.declaration, {})
    [] OTHER               -> Normal(w, Undefined)

PerformAll(w, c, list) ==
  IF list = <<>> THEN Normal(w, Undefined)
  ELSE Then(Perform(w, c, Head(list), {}), LAMBDA u, v :
         IF Len(list) = 1 THEN Normal(u, v) ELSE PerformAll(u, c, Tail(list)))

-----------------------------------------------------------------------------
(* Programs: units that run one after the other while they end normally.   *)
(* A script's receiver is the global object; a module is strict, has no    *)
(* receiver and makes the variables it exports reachable by their cells.   *)

RunUnit(w, u) ==
  LET strict == u.module \/ has_use_strict_directive(u.body)
      into == Entered(w, BodyVars(u.body), 0)
      c == Inner(into, Context(0, IF u.module THEN Undefined ELSE Global, strict))
      exported == [k \in {u.exports[i].cell : i \in DOMAIN u.exports} |->
                     [env |-> c.env,
                      name |-> u.exports[CHOOSE i \in DOMAIN u.exports :
                                           u.exports[i].cell = k].name]]
      linked == [into EXCEPT !.envs[c.env].alias = u.imports, !.cells = exported @@ @]
      r == PerformAll(Hoist(linked, c, Declared(u.body)), c, u.body)
      valued == u.body # <<>> /\ u.body[Len(u.body)].t = "expression" /\ ~u.module
  IN  IF r.k = "normal" /\ ~valued THEN Normal(r.w, Undefined) ELSE r

RECURSIVE RunUnits(_, _)
RunUnits(r, units) ==
  IF units = <<>> \/ r.k # "normal" THEN r ELSE RunUnits(RunUnit(r.w, Head(units)), Tail(units))

Outcome(w, units) ==
  RunUnits(Normal(w @@ [envs |-> <<>>, cells |-> NoAliases], Undefined), units)

=============================================================================
