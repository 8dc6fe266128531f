----------------------------- MODULE References -----------------------------
(***************************************************************************)
(* Names that are looked up while a program runs: the global environment   *)
(* (src/src/runtime/environment.cpp) and the references resolved through   *)
(* the objects of with statements (src/src/runtime/dynamic_reference.cpp). *)
(*                                                                         *)
(* The record of lexical globals is left out: nothing declares one.  envs  *)
(* is the sequence of object environments made so far, [object, outer];    *)
(* an environment is its index, 0 none.                                    *)
(***************************************************************************)
EXTENDS World

Global == Obj(GlobalObject)

has_binding(w, x) == has_property(w, GlobalObject, x)

get_object_binding_value(w, x) ==
  IF ~has_binding(w, x) THEN ThrowErr(w, "ReferenceError")
  ELSE get_property_semantic(w, Global, x)

\* Whether the binding still exists is asked after it was written.
set_object_binding_value(w, x, v, strict) ==
  Then(set_property_semantic(w, Global, x, v), LAMBDA u, written :
    IF written = Bool(FALSE) /\ strict THEN ThrowErr(u, "TypeError")
    ELSE IF ~has_binding(u, x) /\ strict THEN ThrowErr(u, "ReferenceError")
    ELSE Normal(u, Undefined))

-----------------------------------------------------------------------------
(* References.  slot is the variable of a static binding.                  *)

NoReference == [target |-> "none", name |-> "", strict |-> FALSE, env |-> 0,
                binding |-> 0, origin |-> 0]
Live(r) == r.target # "none"

\* @@unscopables hides names of the object of a with statement.
has_with_binding(w, i, x) ==
  LET table == get_property_semantic(w, Obj(i), "@@unscopables").v
  IN  /\ has_property(w, i, x)
      /\ IsObject(table) => ~to_boolean(get_property_semantic(w, table, x).v)

\* The environments from the innermost.
RECURSIVE EnvironmentsFrom(_, _)
EnvironmentsFrom(envs, e) ==
  IF e = 0 THEN <<>> ELSE <<e>> \o EnvironmentsFrom(envs, envs[e].outer)

\* The first object that has the name, or the variable the compiler resolved
\* it to, or the global object.
resolve_dynamic_binding(w, envs, active, x, strict, static) ==
  LET on == SelectSeq(EnvironmentsFrom(envs, active),
                      LAMBDA e : has_with_binding(w, envs[e].object, x))
      target == CASE on # <<>>                 -> "object"
                  [] on = <<>> /\ static # 0   -> "static"
                  [] OTHER -> IF has_binding(w, x) THEN "global" ELSE "unresolvable"
  IN  [NoReference EXCEPT !.target = target, !.name = x, !.strict = strict,
         !.env = IF target = "object" THEN Head(on) ELSE 0,
         !.binding = IF target = "static" THEN static ELSE 0]

\* The object is asked again for the property: it may be gone.
get_reference(w, envs, r, slot) ==
  LET o == Obj(envs[r.env].object)
  IN  CASE r.target = "unresolvable" -> ThrowErr(w, "ReferenceError")
        [] r.target = "static" ->
             IF slot.on THEN Normal(w, slot.v) ELSE ThrowErr(w, "ReferenceError")
        [] r.target = "global" -> get_object_binding_value(w, r.name)
        [] r.target = "object" ->
             IF has_property(w, o.n, r.name) THEN get_property_semantic(w, o, r.name)
             ELSE IF r.strict THEN ThrowErr(w, "ReferenceError") ELSE Normal(w, Undefined)

\* For a static binding, whether it may be written.
put_reference(w, envs, r, slot, v) ==
  LET o == Obj(envs[r.env].object)
  IN  CASE r.target = "unresolvable" ->
             IF r.strict THEN ThrowErr(w, "ReferenceError")
             ELSE set_object_binding_value(w, r.name, v, FALSE)
        [] r.target = "static" ->
             IF ~slot.on THEN ThrowErr(w, "ReferenceError")
             ELSE IF slot.imm THEN ThrowErr(w, "TypeError") ELSE Normal(w, v)
        [] r.target = "global" -> set_object_binding_value(w, r.name, v, r.strict)
        [] r.target = "object" ->
             IF r.strict /\ ~has_property(w, o.n, r.name) THEN ThrowErr(w, "ReferenceError")
             ELSE Then(set_property_semantic(w, o, r.name, v), LAMBDA u, written :
                    IF written = Bool(FALSE) /\ r.strict THEN ThrowErr(u, "TypeError")
                    ELSE Normal(u, Undefined))

delete_binding(w, envs, r) ==
  CASE r.target = "unresolvable" -> Normal(w, Bool(TRUE))
    [] r.target = "static"       -> Normal(w, Bool(FALSE))
    [] r.target = "global"       -> delete_property(w, GlobalObject, r.name)
    [] r.target = "object"       ->
         Then(delete_property(w, envs[r.env].object, r.name), LAMBDA u, deleted :
           IF r.strict /\ deleted = Bool(FALSE) THEN ThrowErr(u, "TypeError")
           ELSE Normal(u, deleted))

=============================================================================
