------------------------------- MODULE Syntax -------------------------------
(***************************************************************************)
(* The syntax tree the parser hands to the static semantics and to the     *)
(* compiler (src/include/js/frontend/ast.hpp), and the values its literals *)
(* hold (src/include/js/value.hpp).  A node is a record tagged with its    *)
(* ASTNodeType; source positions are left out.                             *)
(***************************************************************************)
EXTENDS Integers, Sequences, FiniteSets, SequencesExt

(* Values.  n is a number, a truth value or the identity of a heap object; *)
(* s the text of a string or the constructor of an error object.           *)
Val(type, n, s) == [type |-> type, n |-> n, s |-> s]
Undefined == Val("undefined", 0, "")
Null      == Val("null", 0, "")
Bool(b)   == Val("boolean", IF b THEN 1 ELSE 0, "")
Num(n)    == Val("number", n, "")
NaN       == Val("number", 0, "NaN")
Str(s)    == Val("string", 0, s)
Obj(i)    == Val("object", i, "")
Fun(i)    == Val("function", i, "")
Err(s)    == Val("error", 0, s)

\* An absent child.
None == [t |-> "none"]
Given(n) == n.t # "none"

-----------------------------------------------------------------------------
(* Expressions.                                                            *)

Lit(v)               == [t |-> "literal", value |-> v]
Ident(x)             == [t |-> "identifier", name |-> x]
This                 == [t |-> "this"]
Unary(op, a)         == [t |-> "unary", op |-> op, argument |-> a]
Update(op, pre, a)   == [t |-> "update", op |-> op, prefix |-> pre, argument |-> a]
Binary(op, l, r)     == [t |-> "binary", op |-> op, left |-> l, right |-> r]
Logical(op, l, r)    == [t |-> "logical", op |-> op, left |-> l, right |-> r]
Conditional(c, a, b) ==
  [t |-> "conditional", test |-> c, consequent |-> a, alternate |-> b]
Sequence(list)       == [t |-> "sequence", expressions |-> list]
Assign(op, l, r)     == [t |-> "assignment", op |-> op, left |-> l, right |-> r]
Member(o, x) ==
  [t |-> "member", computed |-> FALSE, object |-> o, property |-> Ident(x)]
Index(o, k)  == [t |-> "member", computed |-> TRUE, object |-> o, property |-> k]
Call(f, args)        == [t |-> "call", callee |-> f, arguments |-> args]
New(f, args)         == [t |-> "new", callee |-> f, arguments |-> args]
Spread(a)            == [t |-> "spread", argument |-> a]
ArrayExpr(list)      == [t |-> "array", elements |-> list]
Property(x, v) ==
  [t |-> "property", computed |-> FALSE, key |-> Ident(x), value |-> v]
Computed(k, v) == [t |-> "property", computed |-> TRUE, key |-> k, value |-> v]
ObjectExpr(list)     == [t |-> "object", properties |-> list]
Template(quasis, list) ==
  [t |-> "template", quasis |-> quasis, expressions |-> list]
Tagged(tag, q)       == [t |-> "tagged", tag |-> tag, quasi |-> q]

\* One segment of an optional chain: .x, [k] or (args), each optional or not.
Segment(kind, optional, p, args) ==
  [kind |-> kind, optional |-> optional, property |-> p, arguments |-> args]
OptionalChain(base, segments) ==
  [t |-> "chain", base |-> base, segments |-> segments]

Arrow(params, defaults, rest, body) ==
  [t |-> "arrow", params |-> params, defaults |-> defaults, rest |-> rest,
   body |-> body]
FunctionExpr(x, params, defaults, rest, body) ==
  [t |-> "function", id |-> x, params |-> params, defaults |-> defaults,
   rest |-> rest, body |-> body]

(* Binding and assignment patterns.                                        *)
DefaultPattern(l, r) == [t |-> "default", left |-> l, right |-> r]
RestElement(p)       == [t |-> "rest", argument |-> p]
ArrayPattern(list)   == [t |-> "array_pattern", elements |-> list]
PatternProperty(x, p) ==
  [t |-> "pattern_property", computed |-> FALSE, key |-> Ident(x), value |-> p]
ComputedPattern(k, p) ==
  [t |-> "pattern_property", computed |-> TRUE, key |-> k, value |-> p]
ObjectPattern(list, rest) ==
  [t |-> "object_pattern", properties |-> list, rest |-> rest]

-----------------------------------------------------------------------------
(* Statements.                                                             *)

ExprStmt(x)            == [t |-> "expression", expression |-> x]
Empty                  == [t |-> "empty"]
Block(list)            == [t |-> "block", body |-> list]
Return(x)              == [t |-> "return", argument |-> x]
Throw(x)               == [t |-> "throw", argument |-> x]
Try(b, p, h, f) ==
  [t |-> "try", block |-> b, param |-> p, handler |-> h, finalizer |-> f]
Declarator(p, init)    == [id |-> p, init |-> init]
Declaration(kind, list) ==
  [t |-> "declaration", kind |-> kind, declarations |-> list]
FunctionDecl(x, params, defaults, rest, body) ==
  [t |-> "function_declaration", id |-> x, params |-> params,
   defaults |-> defaults, rest |-> rest, body |-> body]
Method(x, params, body) ==
  [id |-> x, params |-> params, defaults |-> <<>>, rest |-> 0, body |-> body]
ClassDecl(x, methods)  == [t |-> "class", id |-> x, methods |-> methods]
If(c, a, b)  == [t |-> "if", test |-> c, consequent |-> a, alternate |-> b]
With(o, b)             == [t |-> "with", object |-> o, body |-> b]
While(c, b)            == [t |-> "while", test |-> c, body |-> b]
DoWhile(b, c)          == [t |-> "do_while", body |-> b, test |-> c]
For(i, c, u, b) ==
  [t |-> "for", init |-> i, test |-> c, update |-> u, body |-> b]
ForIn(l, o, b)         == [t |-> "for_in", left |-> l, object |-> o, body |-> b]
ForOf(l, o, b)         == [t |-> "for_of", left |-> l, object |-> o, body |-> b]
Case(c, list)          == [test |-> c, consequent |-> list]
Switch(d, cases) == [t |-> "switch", discriminant |-> d, cases |-> cases]
Labeled(l, b)          == [t |-> "labeled", label |-> l, body |-> b]
Break(l)               == [t |-> "break", label |-> l]
Continue(l)            == [t |-> "continue", label |-> l]
Import(names)          == [t |-> "import", names |-> names]
Export(d)              == [t |-> "export", declaration |-> d]

-----------------------------------------------------------------------------
(* What several phases ask of a tree.                                      *)

Map(list, F(_)) == [i \in DOMAIN list |-> F(list[i])]

RECURSIVE bound_names(_)
\* The identifiers a pattern binds, in order.
bound_names(p) ==
  CASE p.t = "identifier"     -> <<p.name>>
    [] p.t = "default"        -> bound_names(p.left)
    [] p.t = "rest"           -> bound_names(p.argument)
    [] p.t = "array_pattern"  -> FlattenSeq(Map(p.elements, bound_names))
    [] p.t = "object_pattern" ->
         FlattenSeq([i \in DOMAIN p.properties |-> bound_names(p.properties[i].value)])
           \o bound_names(p.rest)
    [] OTHER -> <<>>

declared_names(d) ==
  FlattenSeq([i \in DOMAIN d.declarations |-> bound_names(d.declarations[i].id)])

\* A var declaration reaches the enclosing function through every statement
\* but a nested function.
RECURSIVE collect_var_names(_)
collect_var_names(n) ==
  CASE n.t = "declaration" -> IF n.kind = "var" THEN declared_names(n) ELSE <<>>
    [] n.t = "block"    -> FlattenSeq(Map(n.body, collect_var_names))
    [] n.t = "if"       ->
         collect_var_names(n.consequent) \o collect_var_names(n.alternate)
    [] n.t \in {"with", "while", "do_while", "labeled"} -> collect_var_names(n.body)
    [] n.t = "for"      -> collect_var_names(n.init) \o collect_var_names(n.body)
    [] n.t \in {"for_in", "for_of"} ->
         collect_var_names(n.left) \o collect_var_names(n.body)
    [] n.t = "switch"   ->
         FlattenSeq([i \in DOMAIN n.cases |->
                    FlattenSeq(Map(n.cases[i].consequent, collect_var_names))])
    [] n.t = "try"      ->
         collect_var_names(n.block) \o collect_var_names(n.handler)
           \o collect_var_names(n.finalizer)
    [] OTHER -> <<>>

var_names(list) == FlattenSeq(Map(list, collect_var_names))

\* The directive prologue: leading string literals.
RECURSIVE has_use_strict_directive(_)
has_use_strict_directive(list) ==
  /\ list # <<>>
  /\ Head(list).t = "expression"
  /\ Head(list).expression.t = "literal"
  /\ Head(list).expression.value.type = "string"
  /\ \/ Head(list).expression.value.s = "use strict"
     \/ has_use_strict_directive(Tail(list))

simple_parameter_list(f) ==
  /\ f.rest = 0
  /\ \A i \in DOMAIN f.defaults : ~Given(f.defaults[i])
  /\ \A i \in DOMAIN f.params : f.params[i].t = "identifier"

parameter_names(f) == FlattenSeq(Map(f.params, bound_names))
Repeats(names) == Cardinality({names[i] : i \in DOMAIN names}) < Len(names)

=============================================================================
