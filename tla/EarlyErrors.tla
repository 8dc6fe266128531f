---------------------------- MODULE EarlyErrors ----------------------------
(***************************************************************************)
(* The checks a tree passes before it is compiled                          *)
(* (src/src/frontend/static_semantics.cpp, called from frontend.cpp).      *)
(* The source reports the first error it meets; here an operator tells     *)
(* whether there is one.  Class bodies and imports are not looked at.      *)
(***************************************************************************)
EXTENDS Syntax

\* A defect: only one of the two names.
is_eval(x) == x = "eval"
is_restricted_name(x) == x \in {"eval", "arguments"}
Restricts(names, strict) == strict /\ \E i \in DOMAIN names : is_restricted_name(names[i])

RECURSIVE ExpressionError(_, _)
RECURSIVE StatementError(_, _)
RECURSIVE StatementListError(_, _)

AnyExpression(list, strict) == \E i \in DOMAIN list : ExpressionError(list[i], strict)

PatternError(p, strict, duplicates_allowed) ==
  \/ ~duplicates_allowed /\ Repeats(bound_names(p))
  \/ Restricts(bound_names(p), strict)
  \/ ExpressionError(p, strict)

ParametersError(f, strict, own_use_strict) ==
  \/ own_use_strict /\ ~simple_parameter_list(f)
  \/ (strict \/ ~simple_parameter_list(f)) /\ Repeats(parameter_names(f))
  \/ Restricts(parameter_names(f), strict)
  \/ AnyExpression(f.params, strict) \/ AnyExpression(f.defaults, strict)

LexicalDeclarations(list) ==
  SelectSeq(list, LAMBDA n : n.t = "declaration" /\ n.kind # "var")
LexicalNames(list) ==
  LET own == LexicalDeclarations(list)
  IN  FlattenSeq([i \in DOMAIN own |-> declared_names(own[i])])

\* Lexical declarations, exported ones among them, neither repeat a name nor
\* meet a var below the list.
StatementListError(list, strict) ==
  LET lexical == LexicalNames(Map(list, LAMBDA n : IF n.t = "export" THEN n.declaration ELSE n))
  IN  \/ Repeats(lexical)
      \/ ToSet(lexical) \cap ToSet(var_names(list)) # {}
      \/ \E i \in DOMAIN list : StatementError(list[i], strict)

\* A function that is not an arrow keeps its parameters' names from the
\* lexical declarations of its body.
FunctionError(f, inherited_strict) ==
  LET own == has_use_strict_directive(f.body.body)
      strict == inherited_strict \/ own
  IN  \/ strict /\ is_restricted_name(f.id)
      \/ ParametersError(f, strict, own)
      \/ ToSet(parameter_names(f)) \cap ToSet(LexicalNames(f.body.body)) # {}
      \/ StatementListError(f.body.body, strict)

ArrowError(f, inherited_strict) ==
  LET own == f.body.t = "block" /\ has_use_strict_directive(f.body.body)
      strict == inherited_strict \/ own
  IN  \/ ParametersError(f, strict, own)
      \/ IF f.body.t = "block" THEN StatementListError(f.body.body, strict)
                               ELSE ExpressionError(f.body, strict)

\* The expressions directly inside one.
Subexpressions(n) ==
  CASE n.t \in {"unary", "update", "spread", "rest"} -> <<n.argument>>
    [] n.t \in {"binary", "logical", "assignment", "default"} -> <<n.left, n.right>>
    [] n.t = "conditional"   -> <<n.test, n.consequent, n.alternate>>
    [] n.t = "sequence"      -> n.expressions
    [] n.t = "member"        -> <<n.object, n.property>>
    [] n.t \in {"call", "new"} -> <<n.callee>> \o n.arguments
    [] n.t \in {"array", "array_pattern"} -> n.elements
    [] n.t = "object"        -> n.properties
    [] n.t \in {"property", "pattern_property"} ->
         (IF n.computed THEN <<n.key>> ELSE <<>>) \o <<n.value>>
    [] n.t = "object_pattern" -> n.properties \o <<n.rest>>
    [] n.t = "template"      -> n.expressions
    [] n.t = "tagged"        -> <<n.tag, n.quasi>>
    [] n.t = "chain"         ->
         <<n.base>> \o FlattenSeq([i \in DOMAIN n.segments |->
                         <<n.segments[i].property>> \o n.segments[i].arguments])
    [] OTHER                 -> <<>>

\* Strict code does not delete a name or assign to eval and arguments.
ExpressionError(n, strict) ==
  LET Named(a) == a.t = "identifier" /\ is_restricted_name(a.name)
  IN  \/ strict /\ n.t = "identifier" /\ n.name = "yield"
      \/ strict /\ n.t = "unary" /\ n.op = "delete" /\ n.argument.t = "identifier"
      \/ strict /\ n.t = "update" /\ Named(n.argument)
      \/ strict /\ n.t = "assignment" /\ Named(n.left)
      \/ n.t = "function" /\ FunctionError(n, strict)
      \/ n.t = "arrow" /\ ArrowError(n, strict)
      \/ AnyExpression(Subexpressions(n), strict)

\* A declaration or an expression, as in the head of a loop.
HeadError(n, strict) ==
  IF n.t = "declaration" THEN StatementError(n, strict) ELSE ExpressionError(n, strict)

StatementError(n, strict) ==
  CASE n.t = "expression" -> ExpressionError(n.expression, strict)
    [] n.t = "block"      -> StatementListError(n.body, strict)
    [] n.t \in {"return", "throw"} -> ExpressionError(n.argument, strict)
    [] n.t = "declaration" -> \E i \in DOMAIN n.declarations :
         \/ PatternError(n.declarations[i].id, strict, n.kind = "var")
         \/ ExpressionError(n.declarations[i].init, strict)
    [] n.t = "function_declaration" -> FunctionError(n, strict)
    [] n.t = "if" -> \/ ExpressionError(n.test, strict)
                     \/ StatementError(n.consequent, strict)
                     \/ StatementError(n.alternate, strict)
    [] n.t = "with" -> strict \/ ExpressionError(n.object, strict) \/ StatementError(n.body, strict)
    [] n.t \in {"while", "do_while"} ->
         ExpressionError(n.test, strict) \/ StatementError(n.body, strict)
    [] n.t = "for" ->
         \/ HeadError(n.init, strict)
         \/ ToSet(LexicalNames(<<n.init>>)) \cap ToSet(collect_var_names(n.body)) # {}
         \/ AnyExpression(<<n.test, n.update>>, strict)
         \/ StatementError(n.body, strict)
    [] n.t \in {"for_in", "for_of"} ->
         HeadError(n.left, strict) \/ ExpressionError(n.object, strict)
           \/ StatementError(n.body, strict)
    [] n.t = "switch" ->
         \/ ExpressionError(n.discriminant, strict)
         \/ \E i \in DOMAIN n.cases : \/ ExpressionError(n.cases[i].test, strict)
                                      \/ StatementListError(n.cases[i].consequent, strict)
    [] n.t = "labeled" -> StatementError(n.body, strict)
    [] n.t = "try" ->
         \/ StatementError(n.block, strict)
         \/ PatternError(n.param, strict, FALSE)
         \/ StatementError(n.handler, strict) \/ StatementError(n.finalizer, strict)
    [] n.t = "export" -> StatementError(n.declaration, strict)
    [] OTHER -> FALSE

validate_static_semantics(list) == StatementListError(list, has_use_strict_directive(list))

=============================================================================
