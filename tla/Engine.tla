------------------------------- MODULE Engine -------------------------------
(***************************************************************************)
(* A source program from its trees to its outcome: early errors, compiler, *)
(* machine.  A program is a sequence of units, scripts or modules in the   *)
(* order they are evaluated (Modules has how that order comes about): all  *)
(* are checked, then compiled, then run one after the other.  Programs is  *)
(* the sequence of programs; source is the one chosen initially.           *)
(***************************************************************************)
EXTENDS Machine, Compiler, EarlyErrors

CONSTANT Programs

\* mains are the chunks of the units, unit the one that runs.
VARIABLES source, phase, chunks, mains, unit
vars == <<source, phase, chunks, mains, unit, vm_state>>
code_state == <<source, phase, chunks, mains, unit>>

Script(list) ==
  [module |-> FALSE, body |-> list, imports |-> NoImports, exports |-> <<>>]
Module(list, imports, exports) ==
  [module |-> TRUE, body |-> list, imports |-> imports, exports |-> exports]
Units == source

-----------------------------------------------------------------------------
\* The objects a program starts with: the global object with the host's log,
\* the prototypes, and an object whose conversion the program can observe.
Builtin(x) == [NewObject(ObjectProto) EXCEPT !.fn = Native(x)]
Holding(proto, props) ==
  [NewObject(proto) EXCEPT !.keys = SetToSeq(DOMAIN props), !.props = props]
Enumerable(v) == Data(v, TRUE, TRUE, TRUE)

InitialWorld ==
  [log |-> <<>>,
   h |-> <<Holding(ObjectProto, [log |-> Enumerable(Fun(4)), K |-> Enumerable(Obj(5))]),
           Holding(0, [valueOf |-> Enumerable(Fun(9)), toString |-> Enumerable(Fun(8))]),
           Holding(ObjectProto, ("@@iterator" :> Enumerable(Fun(6)))
                                  @@ ("next" :> Enumerable(Fun(7)))),
           Builtin("log"),
           Holding(ObjectProto, [toString |-> Enumerable(Fun(10)), text |-> Enumerable(Str("k"))]),
           Builtin("values"), Builtin("next"), Builtin("toString"), Builtin("valueOf"),
           Builtin("say")>>]

ASSUME GlobalNamesAssumption == GlobalNames = DOMAIN InitialWorld.h[GlobalObject].props

Init ==
  /\ \E p \in DOMAIN Programs : source = Programs[p]
  /\ phase = "source" /\ chunks = <<>> /\ mains = <<>> /\ unit = 0
  /\ frames = <<>> /\ stack = <<>> /\ upvalues = <<>> /\ cells = NoImports
  /\ environments = <<>> /\ world = InitialWorld
  /\ result = Ended("normal", Undefined)

-----------------------------------------------------------------------------
\* All units are parsed and checked before the first is compiled.
Validate ==
  /\ phase = "source"
  /\ phase' = IF \E i \in DOMAIN Units : validate_static_semantics(Units[i].body)
              THEN "refused" ELSE "valid"
  /\ UNCHANGED <<source, chunks, mains, unit, vm_state>>

CompileUnit ==
  LET u == Units[Len(mains) + 1]
  IN  /\ phase = "valid"
      /\ chunks' = IF u.module THEN compile_module(u.body, u.imports, u.exports, chunks)
                   ELSE compile(u.body, chunks)
      /\ mains' = Append(mains, Len(chunks'))
      /\ phase' = CASE chunks' = <<>> -> "refused"
                    [] chunks' # <<>> /\ Len(mains') = Len(Units) -> "compiled"
                    [] OTHER -> "valid"
      /\ UNCHANGED <<source, unit, vm_state>>

\* The receiver of a script is the global object.
RunUnit ==
  LET c == mains[unit + 1]
  IN  /\ phase = "compiled" /\ result.kind = "normal" /\ unit < Len(Units)
      /\ unit' = unit + 1
      /\ Become(run_impl(Now, c, chunks[c], IF Units[unit + 1].module THEN Undefined ELSE Global))
      /\ UNCHANGED <<source, phase, chunks, mains>>

\* One instruction out of ops: m is the machine that has fetched i.
Step(ops, F(_, _)) ==
  LET m == Fetch(Now)
      i == chunks[Frame(m).chunk].code[Frame(m).last]
  IN  /\ result = Running
      /\ i.op \in ops
      /\ Become(F(m, i))
      /\ UNCHANGED code_state

Operands ==
  Step({"constant", "pop", "get_this", "load_argument", "rest_arguments", "template_object"},
    LAMBDA m, i :
      LET f == Frame(m)
          Listed(list) == ArrayOf(array(m.world), list)
          Fresh_(r) == Pushed([m EXCEPT !.world = r.w], r.v)
      IN  CASE i.op = "constant"       -> Pushed(m, i.a)
            [] i.op = "pop"            -> Popped(m, 1)
            [] i.op = "get_this"       -> Pushed(m, f.this)
            [] i.op = "load_argument"  ->
                 Pushed(m, IF i.a \in DOMAIN f.args THEN f.args[i.a] ELSE Undefined)
            [] i.op = "rest_arguments" -> Fresh_(Listed(SubSeq(f.args, i.a, Len(f.args))))
            [] i.op = "template_object" -> Fresh_(Listed(Map(i.a, Str))))

Variables ==
  Step({"get_local", "set_local", "initialize_local", "reset_local", "clone_local_binding",
        "get_upvalue", "set_upvalue", "get_module", "set_module"},
    LAMBDA m, i :
      CASE i.op = "get_local"        -> get_binding_slot(m, Frame(m).locals[i.a])
        [] i.op = "set_local"        -> set_local(m, i.a)
        [] i.op = "initialize_local" -> initialize_local(m, i.a)
        [] i.op = "reset_local"      -> reset_local(m, i.a)
        [] i.op = "clone_local_binding" -> clone_local_binding(m, i.a)
        [] i.op = "get_upvalue"      -> get_binding_slot(m, Variable(m, Frame(m).ups[i.a]))
        [] i.op = "set_upvalue"      -> set_upvalue(m, Frame(m).ups[i.a])
        [] i.op = "get_module"       -> get_module(m, i.a)
        [] i.op = "set_module"       -> Crash(m, "TypeError"))

Names ==
  Step({"resolve_dynamic_ref", "get_name", "get_name_or_undefined"}, LAMBDA m, i :
    IF i.op = "resolve_dynamic_ref" THEN resolve_dynamic_ref(m, i.a, i.b)
    ELSE get_name(chunks, m, i.a, i.op = "get_name_or_undefined"))

RefOps == ("get_dynamic_ref" :> "get") @@ ("put_dynamic_ref" :> "put")
  @@ ("release_dynamic_ref" :> "release") @@ ("typeof_dynamic_ref" :> "typeof")
  @@ ("delete_dynamic_ref" :> "delete") @@ ("this_dynamic_ref" :> "this")
ReferenceOperations ==
  Step(DOMAIN RefOps, LAMBDA m, i : RefOp(chunks, m, RefOps[i.op], i.a))

WithStatements ==
  Step({"enter_with", "leave_with"}, LAMBDA m, i :
    IF i.op = "leave_with" THEN leave_with(m) ELSE enter_with(chunks, m, i.a))

Closures == Step({"closure"}, LAMBDA m, i : closure(chunks, m, i.a))

\* An operation on the last n operands that gives a value instead of them.
Replace(m, r, n) == Follow(chunks, m, r, LAMBDA x, v : Pushed(Popped(x, n), v))

Operators ==
  Step({"unary", "binary", "logical_not", "is_nullish", "typeof"}, LAMBDA m, i :
    CASE i.op = "unary"  -> Replace(m, UnaryOperator(m.world, i.a, Top(m)), 1)
      [] i.op = "binary" -> Replace(m, BinaryOperator(m.world, i.a, Nth(m, 1), Top(m)), 2)
      [] i.op = "logical_not" -> Pushed(Popped(m, 1), Bool(~to_boolean(Top(m))))
      [] i.op = "is_nullish"  -> Pushed(Popped(m, 1), Bool(Nullish(Top(m))))
      [] i.op = "typeof"      -> Pushed(Popped(m, 1), Str(TypeOf(Top(m)))))

\* Whether a write or deletion that failed throws.
Checked(r, strict) ==
  Then(r, LAMBDA u, done :
    IF strict /\ done = Bool(FALSE) THEN ThrowErr(u, "TypeError") ELSE Normal(u, done))

Properties ==
  Step({"get_property", "get_element", "get_element_reference", "set_property",
        "set_property_strict", "set_element", "set_element_strict", "delete_property",
        "delete_property_strict", "delete_element", "delete_element_strict"},
    LAMBDA m, i :
      LET w == m.world
          strict == i.op \in {"set_property_strict", "set_element_strict",
                              "delete_property_strict", "delete_element_strict"}
          \* A write gives the value written.
          Written(r, n) ==
            Follow(chunks, m, Checked(r, strict), LAMBDA x, done : Pushed(Popped(x, n), Top(m)))
          Keyed(v, key, F(_, _)) == Then(to_property_key(w, key), F)
      IN  CASE i.op = "get_property" -> Replace(m, get_property_semantic(w, Top(m), i.a), 1)
            [] i.op = "get_element"  -> Replace(m, get_element_semantic(w, Nth(m, 1), Top(m)), 2)
            [] i.op = "get_element_reference" ->
                 IF Nullish(Nth(m, 1)) THEN Replace(m, ThrowErr(w, "TypeError"), 2)
                 ELSE Follow(chunks, m, to_property_key(w, Top(m)), LAMBDA x, key :
                        Follow(chunks, x, get_property_semantic(x.world, Nth(m, 1), key.s),
                               LAMBDA y, v : Pushed(Pushed(Popped(y, 2), key), v)))
            [] i.op \in {"set_property", "set_property_strict"} ->
                 Written(set_property_semantic(w, Nth(m, 1), i.a, Top(m)), 2)
            [] i.op \in {"set_element", "set_element_strict"} ->
                 Written(set_element_semantic(w, Nth(m, 2), Nth(m, 1), Top(m)), 3)
            [] i.op \in {"delete_property", "delete_property_strict"} ->
                 Replace(m, Checked(delete_property_semantic(w, Top(m), i.a), strict), 1)
            [] i.op \in {"delete_element", "delete_element_strict"} ->
                 Replace(m, Checked(Keyed(Nth(m, 1), Top(m), LAMBDA u, key :
                              delete_property_semantic(u, Nth(m, 1), key.s)), strict), 2))

\* Literals: the object or array stays below its element.
Literals ==
  Step({"new_object", "new_array", "append_element", "append_hole", "append_spread",
        "define_property", "define_element", "copy_data_properties", "copy_object_rest",
        "to_object"},
    LAMBDA m, i :
      LET w == m.world
          New_(r) == Pushed([m EXCEPT !.world = r.w], r.v)
          Source == IF IsObject(Top(m)) THEN Normal(w, Top(m)) ELSE box_primitive(w, Top(m))
          Rest == IF IsObject(Nth(m, 1)) THEN Normal(w, Nth(m, 1))
                  ELSE box_primitive(w, Nth(m, 1))
          target == object(Rest.w)
          excluded == {x.s : x \in ToSet(ElementsOf(w, Top(m)))}
      IN  CASE i.op = "new_object" -> New_(object(w))
            [] i.op = "new_array"  -> New_(array(w))
            [] i.op = "append_element" -> Replace(m, array_push(w, Nth(m, 1), Top(m)), 2)
            [] i.op = "append_hole" ->
                 [m EXCEPT !.world.h[Top(m).n].props["length"].v.n = @ + 1]
            [] i.op = "append_spread" ->
                 Replace(m, Then(get_iterator(w, Top(m)), LAMBDA u, it :
                              Then(get_method(u, it, "next"), LAMBDA x, next :
                                Drain(x, it, next, Nth(m, 1)))), 2)
            [] i.op = "define_property" ->
                 Popped([m EXCEPT !.world = set_own_property(w, Nth(m, 1).n, i.a, Top(m))], 1)
            [] i.op = "define_element" ->
                 Replace(m, Then(to_property_key(w, Nth(m, 1)), LAMBDA u, key :
                              create_data_property(u, Nth(m, 2), key.s, Top(m))), 3)
            [] i.op = "copy_data_properties" ->
                 IF Nullish(Top(m)) THEN Popped(m, 1)
                 ELSE Popped([m EXCEPT !.world = CopyProperties(Source.w, Nth(m, 1), Source.v.n,
                                own_property_keys(Source.w, Source.v.n), {})], 1)
            [] i.op = "copy_object_rest" ->
                 IF Nullish(Nth(m, 1)) THEN Crash(m, "TypeError")
                 ELSE Pushed(Popped([m EXCEPT !.world =
                        CopyProperties(target.w, target.v, Rest.v.n,
                          own_property_keys(target.w, Rest.v.n), excluded)], 2), target.v)
            [] i.op = "to_object" ->
                 IF Nullish(Top(m)) THEN Crash(m, "TypeError")
                 ELSE Replace(m, to_object(w, Top(m)), 1))

Iteration ==
  Step({"enumerate_keys", "get_iterator", "iterator_next", "iterator_complete",
        "iterator_value"},
    LAMBDA m, i :
      LET w == m.world
          boxed == IF Nullish(Top(m)) \/ IsObject(Top(m)) THEN Normal(w, Top(m))
                   ELSE box_primitive(w, Top(m))
          keys == IF Nullish(Top(m)) THEN <<>>
                  ELSE EnumerableKeys(boxed.w, Chain(boxed.w, boxed.v.n), {})
      IN  CASE i.op = "enumerate_keys" -> Replace(m, ArrayOf(array(boxed.w), Map(keys, Str)), 1)
            [] i.op = "get_iterator" ->
                 Follow(chunks, m, get_iterator(w, Top(m)), LAMBDA x, it :
                   Follow(chunks, x, get_method(x.world, it, "next"), LAMBDA y, next :
                     IF next = Undefined THEN Follow(chunks, y, ThrowErr(y.world, "TypeError"), Pushed)
                     ELSE Pushed(Pushed(Popped(y, 1), it), next)))
            [] i.op = "iterator_next" -> Replace(m, iterator_next(w, Nth(m, 1), Top(m)), 2)
            [] i.op = "iterator_complete" -> Replace(m, iterator_complete(w, Top(m)), 1)
            [] i.op = "iterator_value" -> Replace(m, iterator_value(w, Top(m)), 1))

Calls ==
  Step({"call", "call_with_this", "call_method", "call_element", "construct"}, LAMBDA m, i :
    CallOp(chunks, m, i.op, i.a, i.b))

Jumps ==
  Step({"jump", "jump_if_false"}, LAMBDA m, i :
    CASE i.op = "jump" -> JumpTo(m, i.a)
      [] i.op = "jump_if_false" ->
           IF to_boolean(Top(m)) THEN Popped(m, 1) ELSE JumpTo(Popped(m, 1), i.a))

Completions_ ==
  Step({"break", "continue", "throw", "return", "end_finally"}, LAMBDA m, i :
    LET pc == Frame(m).last
        pend == Frame(m).pend
        last == pend[Len(pend)]
        resumed == [m EXCEPT !.frames[Len(m.frames)].pend = SubSeq(@, 1, Len(@) - 1)]
    IN  CASE i.op \in {"break", "continue"} ->
               propagate_completion(chunks, m, Completion(i.op, Undefined, i.a), pc)
          [] i.op = "throw" -> propagate_completion(chunks, m, Completion("throw", Top(m), 0), pc)
          [] i.op = "return" ->
               IF Len(m.stack) # Frame(m).base + 1 THEN Crash(m, "vm_error")
               ELSE propagate_completion(chunks, m, Completion("return", Top(m), 0), pc)
          [] i.op = "end_finally" ->
               IF pend # <<>> /\ last.finally_start = i.a
               THEN propagate_completion(chunks, resumed, last.completion, pc) ELSE m)

Execute ==
  \/ Operands     \/ Variables   \/ Names      \/ ReferenceOperations
  \/ WithStatements              \/ Closures   \/ Operators
  \/ Properties   \/ Literals    \/ Iteration  \/ Calls
  \/ Jumps        \/ Completions_

Next == Validate \/ CompileUnit \/ RunUnit \/ Execute

\* A jump to itself runs for ever and changes nothing.
Spins ==
  /\ Instruction(chunks, Now).op = "jump"
  /\ Instruction(chunks, Now).a = Frame(Now).pc /\ Frame(Now).last = Frame(Now).pc

\* The engine goes on while it can: WF_vars(Next), with ENABLED <<Next>>_vars
\* written out as the phases and results that allow a step.
CanStep ==
  \/ phase \in {"source", "valid"}
  \/ result = Running /\ ~Spins
  \/ phase = "compiled" /\ result.kind = "normal" /\ unit < Len(Units)
Fairness == []<>~CanStep \/ []<><<Next>>_vars

Spec == Init /\ [][Next]_vars /\ Fairness

=============================================================================
