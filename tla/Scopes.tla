------------------------------- MODULE Scopes -------------------------------
(***************************************************************************)
(* The compiler's stack of scopes (src/src/compiler/scope.cpp): names to   *)
(* local slots, the binding state each slot starts a frame in, and the     *)
(* declarations that are refused.                                          *)
(*                                                                         *)
(* sc.scopes is the stack, innermost last; a scope maps a name to its slot *)
(* and kind.  sc.states and sc.immutable have one entry for every slot     *)
(* handed out (slots count from 1, the first is the callee's own); sc.args *)
(* is the slot of `arguments' (0: none) and sc.refused tells that a        *)
(* declaration failed.                                                     *)
(***************************************************************************)
EXTENDS Syntax

NoScopes == [scopes |-> <<>>, states |-> <<>>, immutable |-> <<>>, args |-> 0,
             refused |-> FALSE]
EmptyScope == [x \in {} |-> [slot |-> 0, kind |-> "none"]]
NoBinding  == [slot |-> 0, kind |-> "none"]

Back(sc)     == sc.scopes[Len(sc.scopes)]
PushScope(sc) == [sc EXCEPT !.scopes = Append(@, EmptyScope)]
end_block(sc) ==
  IF Len(sc.scopes) > 1
    THEN [sc EXCEPT !.scopes = SubSeq(@, 1, Len(@) - 1)] ELSE sc

allocate_temporary(sc) ==
  [sc EXCEPT !.states = Append(@, "initialized"), !.immutable = Append(@, FALSE)]

VarLike == {"var", "parameter", "function"}

\* A binding with a slot of its own in the innermost scope.
Bind(sc, x, kind) ==
  [sc EXCEPT !.scopes[Len(sc.scopes)] = (x :> [slot |-> Len(sc.states) + 1, kind |-> kind]) @@ @,
             !.states = Append(@, IF kind \in VarLike THEN "initialized"
                                                      ELSE "uninitialized"),
             !.immutable = Append(@, kind \in {"const", "import"})]

\* A defect: a repeated var is refused.
declare_once(sc, x, kind, allow_repeated_var) ==
  IF sc.refused THEN sc
  ELSE IF x \notin DOMAIN Back(sc) THEN Bind(sc, x, kind) ELSE [sc EXCEPT !.refused = TRUE]
\* A repeated var is one binding with the var, parameter or function it meets;
\* every other repetition is refused.
declare_in_scope(sc, x, kind, allow_repeated_var) ==
  IF sc.refused THEN sc
  ELSE IF x \notin DOMAIN Back(sc) THEN Bind(sc, x, kind)
  ELSE IF allow_repeated_var /\ kind = "var" /\ Back(sc)[x].kind \in VarLike THEN sc
  ELSE [sc EXCEPT !.refused = TRUE]

RECURSIVE DeclareAll(_, _, _)
DeclareAll(sc, names, kind) ==
  IF names = <<>> THEN sc
  ELSE DeclareAll(declare_in_scope(sc, Head(names), kind, kind = "var"), Tail(names), kind)

\* An exported declaration counts as the declaration.
declaration_node(n) == IF n.t = "export" THEN n.declaration ELSE n
Effective(list) == Map(list, declaration_node)

predeclare_var_bindings(sc, list) == DeclareAll(sc, var_names(Effective(list)), "var")

predeclare_function_bindings(sc, list) ==
  LET functions == SelectSeq(Effective(list), LAMBDA n : n.t = "function_declaration")
  IN  DeclareAll(sc, [i \in DOMAIN functions |-> functions[i].id], "function")

RECURSIVE predeclare_lexical_bindings(_, _)
predeclare_lexical_bindings(sc, list) ==
  IF list = <<>> THEN sc
  ELSE LET n == declaration_node(Head(list))
           next == CASE n.t = "import" -> DeclareAll(sc, n.names, "import")
                     [] n.t = "class"  -> DeclareAll(sc, <<n.id>>, "class")
                     [] n.t = "declaration" /\ n.kind # "var" ->
                          DeclareAll(sc, declared_names(n), n.kind)
                     [] OTHER -> sc
       IN  predeclare_lexical_bindings(next, Tail(list))

\* A var below the list may not have the name of a lexical binding of it.
validate_var_lexical_conflicts(sc, list) ==
  IF \E x \in ToSet(var_names(Effective(list))) \cap DOMAIN Back(sc) :
       Back(sc)[x].kind \in {"let", "const", "class"}
  THEN [sc EXCEPT !.refused = TRUE] ELSE sc

HasFunction(list) == \E i \in DOMAIN list : list[i].t = "function_declaration"
RefuseFunctions(sc, list) == [sc EXCEPT !.refused = @ \/ HasFunction(list)]

-----------------------------------------------------------------------------

begin_function_body(sc, list, separate) ==
  LET top == IF separate THEN PushScope(sc) ELSE sc
  IN  validate_var_lexical_conflicts(
        predeclare_lexical_bindings(
          predeclare_function_bindings(predeclare_var_bindings(top, list), list), list), list)

begin_program(list) == begin_function_body(PushScope(NoScopes), list, FALSE)

\* The same name twice among simple parameters: the last slot has the name.
RECURSIVE DeclareParameters(_, _, _)
DeclareParameters(sc, names, duplicates) ==
  IF names = <<>> \/ sc.refused THEN sc
  ELSE DeclareParameters(
         IF duplicates THEN Bind(sc, Head(names), "parameter")
                       ELSE declare_in_scope(sc, Head(names), "parameter", FALSE),
         Tail(names), duplicates)

\* With an initializer, a pattern or a rest the parameters start uninitialized.
ResetParameters(sc, f) ==
  IF simple_parameter_list(f) THEN sc
  ELSE LET slots == {Back(sc)[x].slot : x \in ToSet(parameter_names(f)) \cap DOMAIN Back(sc)}
       IN  [sc EXCEPT !.states = [s \in DOMAIN @ |->
                                    IF s \in slots THEN "uninitialized" ELSE @[s]]]

\* The first slot is the callee's: the name of a declaration or a method lives
\* with the parameters, the name of a function expression outside them.
SelfScope(form, f) ==
  CASE form \in {"declaration", "method"} -> Bind(PushScope(NoScopes), f.id, "function")
    [] form = "expression" /\ f.id # "" ->
         PushScope(Bind(PushScope(NoScopes), f.id, "function"))
    [] form = "expression" -> PushScope(allocate_temporary(PushScope(NoScopes)))
    [] form = "arrow"      -> allocate_temporary(PushScope(NoScopes))

\* `arguments' is a var of the function unless a parameter has its name.
DeclareArguments(sc) ==
  IF sc.refused \/ "arguments" \in DOMAIN Back(sc) THEN sc
  ELSE [Bind(sc, "arguments", "var") EXCEPT !.args = Len(sc.states) + 1]

begin_function(form, f, duplicates) ==
  LET sc == DeclareParameters(SelfScope(form, f), parameter_names(f),
                              duplicates /\ simple_parameter_list(f))
  IN  ResetParameters(IF form = "arrow" THEN sc ELSE DeclareArguments(sc), f)

begin_block(sc, list) ==
  RefuseFunctions(validate_var_lexical_conflicts(
    predeclare_lexical_bindings(PushScope(sc), list), list), list)

begin_switch(sc, cases) ==
  LET all == FlattenSeq([i \in DOMAIN cases |-> cases[i].consequent]) IN begin_block(sc, all)

begin_catch(sc, p, list) ==
  RefuseFunctions(validate_var_lexical_conflicts(
    predeclare_lexical_bindings(
      DeclareAll(PushScope(sc), bound_names(p), "let"), list), list), list)

begin_for_declaration(sc, d) ==
  IF d.kind = "var" THEN sc ELSE DeclareAll(PushScope(sc), declared_names(d), d.kind)

-----------------------------------------------------------------------------

\* The scope a name is found in, from the innermost (0: none).
ScopeOf(sc, x) ==
  LET found == {i \in DOMAIN sc.scopes : x \in DOMAIN sc.scopes[i]}
  IN  IF found = {} THEN 0 ELSE CHOOSE i \in found : \A j \in found : j <= i
find_binding(sc, x) ==
  IF ScopeOf(sc, x) = 0 THEN NoBinding ELSE sc.scopes[ScopeOf(sc, x)][x]

\* A var declaration finds the nearest binding a var can share; a lexical one
\* is in the innermost scope.
binding_for_declaration(sc, kind, x) ==
  LET kinds == IF kind = "function" THEN {"function"} ELSE VarLike
      found == {i \in DOMAIN sc.scopes : x \in DOMAIN sc.scopes[i]
                                         /\ sc.scopes[i][x].kind \in kinds}
  IN  IF kind \in {"let", "const", "class"} THEN Back(sc)[x]
      ELSE sc.scopes[CHOOSE i \in found : \A j \in found : j <= i][x]

=============================================================================
