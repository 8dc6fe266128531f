------------------------------ MODULE Machine ------------------------------
(***************************************************************************)
(* The virtual machine running the chunks of Compiler with their values    *)
(* (src/src/vm/vm.cpp): variables of frames and closures, references and   *)
(* with statements, objects, calls, exceptions.  Interpreter has the same  *)
(* machine without values but with generators, suspension and nested       *)
(* executions, which are left out here.                                    *)
(*                                                                         *)
(* A state of the machine is a record m; an operation takes one and gives  *)
(* the next.  A variable is [v, on, imm]: its value, whether it is         *)
(* initialized and whether it may be written.  A captured variable is an   *)
(* upvalue: while open it names a slot of a frame, once closed it has its  *)
(* own copy.  cells gives the upvalue of each exported binding that has    *)
(* one; the cells of all modules are numbered together.                    *)
(***************************************************************************)
EXTENDS References, Bytecode

VARIABLES frames, stack, upvalues, cells, environments, world, result
vm_state == <<frames, stack, upvalues, cells, environments, world, result>>

Now == [frames |-> frames, stack |-> stack, upvalues |-> upvalues, cells |-> cells,
        environments |-> environments, world |-> world, result |-> result]
Become(m) ==
  /\ frames' = m.frames             /\ stack' = m.stack
  /\ upvalues' = m.upvalues         /\ cells' = m.cells
  /\ environments' = m.environments /\ world' = m.world
  /\ result' = m.result

Running == [kind |-> "running", v |-> Undefined]
Ended(kind, v) == [kind |-> kind, v |-> v]
Crash(m, e) == [m EXCEPT !.result = Ended("error", Err(e))]

Depth(m)    == Len(m.frames)
Frame(m)    == m.frames[Len(m.frames)]
Top(m)      == m.stack[Len(m.stack)]
Nth(m, k)   == m.stack[Len(m.stack) - k]
Pushed(m, v) == [m EXCEPT !.stack = Append(@, v)]
Popped(m, k) == [m EXCEPT !.stack = SubSeq(@, 1, Len(@) - k)]
Resized(m, k) == [m EXCEPT !.stack = SubSeq(@, 1, k)]
JumpTo(m, pc) == [m EXCEPT !.frames[Len(m.frames)].pc = pc]

\* The next instruction of the machine belongs to chunk c of the program.
Instruction(prog, m) == prog[Frame(m).chunk].code[Frame(m).pc]

-----------------------------------------------------------------------------
(* Variables.                                                              *)

make_local_slots(c) ==
  [s \in DOMAIN c.states |->
     [v |-> Undefined, on |-> c.states[s] = "initialized", imm |-> c.immutable[s]]]

Variable(m, u) == IF m.upvalues[u].frame = 0 THEN m.upvalues[u].closed
                  ELSE m.frames[m.upvalues[u].frame].locals[m.upvalues[u].slot]
WriteVariable(m, u, v) ==
  IF m.upvalues[u].frame = 0 THEN [m EXCEPT !.upvalues[u].closed.v = v]
  ELSE [m EXCEPT !.frames[m.upvalues[u].frame].locals[m.upvalues[u].slot].v = v]

\* A defect: every capture makes an upvalue of its own.
capture_local_anew(m, s) ==
  [m EXCEPT !.upvalues = Append(@, [frame |-> Len(m.frames), slot |-> s,
                                    closed |-> Frame(m).locals[s]]),
            !.frames[Len(m.frames)].captured[s] = Len(m.upvalues) + 1]
\* One upvalue for each captured slot of a frame.
capture_local(m, s) ==
  IF Frame(m).captured[s] # 0 THEN m
  ELSE [m EXCEPT
         !.upvalues = Append(@, [frame |-> Len(m.frames), slot |-> s,
                                 closed |-> Frame(m).locals[s]]),
         !.frames[Len(m.frames)].captured[s] = Len(m.upvalues) + 1]

\* Closing copies the variable out of its frame.
Close(m, d, slots) ==
  LET closing == {m.frames[d].captured[s] : s \in slots} \ {0}
  IN  [m EXCEPT
         !.upvalues = [u \in DOMAIN @ |->
            IF u \in closing
            THEN [@[u] EXCEPT !.frame = 0,
                              !.closed = m.frames[d].locals[m.upvalues[u].slot]]
            ELSE @[u]],
         !.frames[d].captured = [s \in DOMAIN @ |-> IF s \in slots THEN 0 ELSE @[s]]]
close_frame_upvalues(m) == Close(m, Len(m.frames), DOMAIN Frame(m).locals)

\* A defect: a frame that is removed does not close its upvalues.
PopFrameOpen(m) == [Resized(m, Frame(m).base) EXCEPT !.frames = SubSeq(@, 1, Len(@) - 1)]
PopFrame(m) ==
  LET closed == close_frame_upvalues(m)
  IN  [Resized(closed, Frame(m).base) EXCEPT !.frames = SubSeq(@, 1, Len(@) - 1)]

-----------------------------------------------------------------------------
(* Completions.                                                            *)

Completion(type, v, target) == [type |-> type, v |-> v, target |-> target]

\* A handler abandons the references resolved in the region it leaves.
release_abandoned_references(refs, h, pc) ==
  LET from == IF InTry(h, pc) THEN h.try_start ELSE h.catch_start
      to   == IF InTry(h, pc) THEN h.try_end ELSE h.catch_end
  IN  [s \in DOMAIN refs |->
         IF Live(refs[s]) /\ refs[s].origin >= from /\ refs[s].origin < to
         THEN NoReference ELSE refs[s]]

Overriding(m, handlers, pc) ==
  [m EXCEPT !.frames[Len(m.frames)].pend = discard_overridden(handlers, @, pc)]

EnterHandler(m, h, pc, target) ==
  [Resized(m, Frame(m).base) EXCEPT
     !.frames[Len(m.frames)].refs = release_abandoned_references(@, h, pc),
     !.frames[Len(m.frames)].pc = target]
EnterFinalizer(m, h, pc, c) ==
  [EnterHandler(m, h, pc, h.finally_start) EXCEPT
     !.frames[Len(m.frames)].pend =
        Append(@, [completion |-> c, finally_start |-> h.finally_start])]

\* An exception unwinds to the first frame with a handler, looked for at the
\* instruction each frame last ran.
RECURSIVE Unwind(_, _, _, _)
Unwind(prog, m, c, pc) ==
  LET handlers == prog[Frame(m).chunk].handlers
      i == find_exception_handler(handlers, pc)
      kept == Overriding(m, handlers, pc)
      left == PopFrame(m)
  IN  CASE i # 0 /\ CatchesAt(handlers[i], pc) ->
             Pushed(EnterHandler(kept, handlers[i], pc, handlers[i].catch_start), c.v)
        [] i # 0 /\ ~CatchesAt(handlers[i], pc) -> EnterFinalizer(kept, handlers[i], pc, c)
        [] i = 0 /\ left.frames = <<>> -> [left EXCEPT !.result = Ended("throw", c.v)]
        [] i = 0 /\ left.frames # <<>> -> Unwind(prog, left, c, Frame(left).last)

\* A return gives a constructor's receiver unless it returns an object.
LeaveFrame(m, v) ==
  LET value == IF Frame(m).receiver # Undefined /\ ~IsObject(v) THEN Frame(m).receiver ELSE v
      left == PopFrame(m)
  IN  IF left.frames = <<>> THEN [left EXCEPT !.result = Ended("normal", value)]
      ELSE Pushed(left, value)

propagate_completion(prog, m, c, pc) ==
  LET handlers == prog[Frame(m).chunk].handlers
      kept == Overriding(m, handlers, pc)
      i == find_finally_handler(handlers, pc)
  IN  CASE c.type = "throw" -> Unwind(prog, m, c, pc)
        [] c.type # "throw" /\ i # 0 -> EnterFinalizer(kept, handlers[i], pc, c)
        [] c.type = "return" /\ i = 0 -> LeaveFrame(kept, c.v)
        [] c.type \in {"break", "continue"} /\ i = 0 -> JumpTo(kept, c.target)

\* An operation of the language ended: its value goes to what follows, an
\* exception to the handlers, a failure of the engine ends the run.
Follow(prog, m, r, F(_, _)) ==
  LET into == [m EXCEPT !.world = r.w]
  IN  CASE r.k = "normal" -> F(into, r.v)
        [] r.k = "throw"  ->
             propagate_completion(prog, into, Completion("throw", r.v, 0), Frame(m).last)
        [] r.k = "error"  -> [into EXCEPT !.result = Ended("error", r.v)]

-----------------------------------------------------------------------------
(* The head of the loop: a jump out of with statements leaves their        *)
(* environments.                                                           *)

\* A defect: a jump leaves the innermost with statement only.
PopRegionsOnce(m) ==
  LET f == Frame(m)
      r == f.regions[Len(f.regions)]
  IN  IF f.regions = <<>> \/ f.pc \in r.from .. r.to - 1 THEN m
      ELSE [m EXCEPT !.frames[Len(m.frames)].regions = SubSeq(@, 1, Len(@) - 1),
                     !.frames[Len(m.frames)].env = m.environments[@].outer]
RECURSIVE PopRegions(_)
PopRegions(m) ==
  LET f == Frame(m)
      r == f.regions[Len(f.regions)]
  IN  IF f.regions = <<>> \/ f.pc \in r.from .. r.to - 1 THEN m
      ELSE PopRegions([m EXCEPT
             !.frames[Len(m.frames)].regions = SubSeq(@, 1, Len(@) - 1),
             !.frames[Len(m.frames)].env = m.environments[@].outer])

Fetch(m) ==
  LET at == PopRegions(m)
  IN  [at EXCEPT !.frames[Len(m.frames)].last = Frame(at).pc,
                 !.frames[Len(m.frames)].pc = @ + 1]

enter_with(prog, m, end) ==
  Follow(prog, m, to_object(m.world, Top(m)), LAMBDA n, o :
    [Popped(n, 1) EXCEPT
       !.environments = Append(@, [object |-> o.n, outer |-> Frame(n).env]),
       !.frames[Len(n.frames)].env = Len(n.environments) + 1,
       !.frames[Len(n.frames)].regions = Append(@, [from |-> Frame(n).pc, to |-> end])])

leave_with(m) ==
  IF Frame(m).regions = <<>> \/ Frame(m).env = 0 THEN Crash(m, "vm_error")
  ELSE [m EXCEPT !.frames[Len(m.frames)].regions = SubSeq(@, 1, Len(@) - 1),
                 !.frames[Len(m.frames)].env = m.environments[@].outer]

-----------------------------------------------------------------------------
(* Instructions on variables.                                              *)

get_binding_slot(m, x) == IF x.on THEN Pushed(m, x.v) ELSE Crash(m, "ReferenceError")

set_local(m, s) ==
  LET x == Frame(m).locals[s]
  IN  CASE ~x.on         -> Crash(m, "ReferenceError")
        [] x.on /\ x.imm -> Crash(m, "TypeError")
        [] OTHER         -> [m EXCEPT !.frames[Len(m.frames)].locals[s].v = Top(m)]

initialize_local(m, s) ==
  IF Frame(m).locals[s].on THEN Crash(m, "internal")
  ELSE [m EXCEPT !.frames[Len(m.frames)].locals[s] = [@ EXCEPT !.v = Top(m), !.on = TRUE]]

reset_local(m, s) ==
  [Close(m, Len(m.frames), {s}) EXCEPT
     !.frames[Len(m.frames)].locals[s] = [@ EXCEPT !.v = Undefined, !.on = FALSE]]
clone_local_binding(m, s) == Close(m, Len(m.frames), {s})

\* A defect: a constant is not looked at through an upvalue.
set_upvalue_unchecked(m, u) ==
  IF ~Variable(m, u).on THEN Crash(m, "ReferenceError") ELSE WriteVariable(m, u, Top(m))
set_upvalue(m, u) ==
  CASE ~Variable(m, u).on -> Crash(m, "ReferenceError")
    [] Variable(m, u).on /\ Variable(m, u).imm -> Crash(m, "TypeError")
    [] OTHER -> WriteVariable(m, u, Top(m))

\* An import is read through its exporter's variable and never written.
get_module(m, cell) ==
  IF cell \notin DOMAIN m.cells THEN Crash(m, "ReferenceError")
  ELSE get_binding_slot(m, Variable(m, m.cells[cell]))

-----------------------------------------------------------------------------
(* References.                                                             *)

SetRef(m, s, r) == [m EXCEPT !.frames[Len(m.frames)].refs[s] = r]

\* The variable the compiler resolved the name to is captured, like that of
\* a closure.
resolve_dynamic_ref(m, s, b) ==
  LET into == IF b.storage = "local" THEN capture_local(m, b.index) ELSE m
      static == CASE b.storage = "local"   -> Frame(into).captured[b.index]
                  [] b.storage = "upvalue" -> Frame(m).ups[b.index]
                  [] OTHER                 -> 0
      r == resolve_dynamic_binding(into.world, into.environments, Frame(m).env, b.name,
                                   b.strict, static)
  IN  IF Live(Frame(m).refs[s]) THEN Crash(m, "vm_error")
      ELSE SetRef(into, s, [r EXCEPT !.origin = Frame(m).last])

RefOp(prog, m, op, s) ==
  LET r == Frame(m).refs[s]
      x == Variable(m, r.binding)
  IN  CASE ~Live(r) -> Crash(m, "vm_error")
        [] Live(r) /\ op = "release" -> SetRef(m, s, NoReference)
        [] Live(r) /\ op = "this" ->
             Pushed(m, IF r.target = "object" THEN Obj(m.environments[r.env].object)
                       ELSE Undefined)
        [] Live(r) /\ op = "typeof" /\ r.target = "unresolvable" -> Pushed(m, Undefined)
        [] Live(r) /\ (op = "get" \/ (op = "typeof" /\ r.target # "unresolvable")) ->
             Follow(prog, m, get_reference(m.world, m.environments, r, x), Pushed)
        [] Live(r) /\ op = "delete" ->
             Follow(prog, m, delete_binding(m.world, m.environments, r), Pushed)
        [] Live(r) /\ op = "put" ->
             Follow(prog, m, put_reference(m.world, m.environments, r, x, Top(m)),
                    LAMBDA n, v :
                      IF r.target = "static" THEN WriteVariable(n, r.binding, Top(m)) ELSE n)

get_name(prog, m, x, or_undefined) ==
  IF or_undefined /\ ~has_binding(m.world, x) THEN Pushed(m, Undefined)
  ELSE Follow(prog, m, get_object_binding_value(m.world, x), Pushed)

-----------------------------------------------------------------------------
(* Functions.                                                              *)

\* A closure takes the upvalues its chunk names, capturing the locals among
\* them, the environment, and for an arrow the receiver.  A constructor has a
\* prototype, except that a class makes its own.
RECURSIVE CaptureAll(_, _)
CaptureAll(m, list) ==
  IF list = <<>> THEN m
  ELSE CaptureAll(IF Head(list).source = "local" THEN capture_local(m, Head(list).index) ELSE m,
                  Tail(list))

closure(prog, m, c) ==
  LET chunk == prog[c]
      into == CaptureAll(m, chunk.upvalues)
      ups == [i \in DOMAIN chunk.upvalues |->
                IF chunk.upvalues[i].source = "local"
                THEN Frame(into).captured[chunk.upvalues[i].index]
                ELSE Frame(m).ups[chunk.upvalues[i].index]]
      f == Len(m.world.h) + 1
      fn == [NewObject(ObjectProto) EXCEPT
               !.fn = [native |-> "", is |-> TRUE, chunk |-> c, ups |-> ups,
                       env |-> Frame(m).env, this |-> Frame(m).this]]
      made == Alloc(m.world, fn).w
      proto == Alloc(made, NewObject(ObjectProto)).w
  IN  IF \E i \in DOMAIN chunk.upvalues :
           /\ chunk.upvalues[i].source = "upvalue"
           /\ chunk.upvalues[i].index \notin DOMAIN Frame(m).ups
      THEN Crash(m, "vm_error")
      ELSE Pushed([into EXCEPT !.world =
             IF ~chunk.constructor \/ chunk.class THEN made
             ELSE Define(Define(proto, f, "prototype", Data(Obj(f + 1), FALSE, FALSE, FALSE)),
                         f + 1, "constructor", Data(Fun(f), TRUE, FALSE, TRUE))], Fun(f))

\* The receiver a function runs with: a sloppy function has an object.
Receiver(w, chunk, fn, this) ==
  CASE chunk.this = "lexical" -> Normal(w, fn.this)
    [] chunk.this = "global" /\ Nullish(this) -> Normal(w, Global)
    [] chunk.this = "global" /\ ~Nullish(this) /\ ~IsObject(this) -> box_primitive(w, this)
    [] OTHER -> Normal(w, this)

\* The frame of a call.  Its first slot is the callee; simple parameters
\* follow it.
NewFrame(m, c, chunk, callee, args, this, receiver, base) ==
  LET fn == m.world.h[callee.n].fn
      by == Receiver(m.world, chunk, fn, this)
      made == IF chunk.arguments = 0 THEN by ELSE ArgumentsObject(by.w, args, callee, chunk.strict)
      locals == [s \in DOMAIN chunk.states |->
         LET x == make_local_slots(chunk)[s]
         IN  CASE s = 1 -> [x EXCEPT !.v = callee]
               [] s # 1 /\ chunk.simple /\ s - 1 <= chunk.parameters /\ s - 1 <= Len(args) ->
                    [x EXCEPT !.v = args[s - 1]]
               [] s # 1 /\ s = chunk.arguments -> [x EXCEPT !.v = made.v]
               [] OTHER -> x]
      frame == [chunk |-> c, pc |-> 1, last |-> 1, base |-> base, locals |-> locals,
                captured |-> [s \in DOMAIN locals |-> 0], ups |-> fn.ups, args |-> args,
                this |-> by.v, receiver |-> receiver, env |-> fn.env, regions |-> <<>>,
                pend |-> <<>>, refs |-> [s \in 1 .. chunk.refs |-> NoReference]]
  IN  [Resized(m, base) EXCEPT !.frames = Append(@, frame), !.world = made.w]

RECURSIVE CaptureExports(_, _)
CaptureExports(m, exports) ==
  IF exports = <<>> THEN m
  ELSE LET into == capture_local(m, Head(exports).slot)
       IN  CaptureExports([into EXCEPT !.cells =
             (Head(exports).cell :> Frame(into).captured[Head(exports).slot]) @@ @], Tail(exports))

\* The first frame of a script or module; what it exports is captured.
run_impl(m, c, chunk, this) ==
  LET locals == make_local_slots(chunk)
      frame == [chunk |-> c, pc |-> 1, last |-> 1, base |-> 0, locals |-> locals,
                captured |-> [s \in DOMAIN locals |-> 0], ups |-> <<>>, args |-> <<>>,
                this |-> this, receiver |-> Undefined, env |-> 0, regions |-> <<>>,
                pend |-> <<>>, refs |-> [s \in 1 .. chunk.refs |-> NoReference]]
  IN  CaptureExports([m EXCEPT !.frames = <<frame>>, !.stack = <<>>, !.result = Running],
                     chunk.exports)

\* The operands from base on are the callee and its arguments; they go before
\* a frame runs or a built-in function's value replaces them.
invoke_function(prog, m, callee, args, this, receiver, base) ==
  LET fn == m.world.h[callee.n].fn
      chunk == prog[fn.chunk]
  IN  CASE callee.type # "function" -> Follow(prog, m, ThrowErr(m.world, "TypeError"), Pushed)
        [] callee.type = "function" /\ fn.native # "" ->
             Follow(prog, m, CallNative(m.world, fn.native, this, args), LAMBDA n, v :
               Pushed(Resized(n, base),
                      IF receiver # Undefined /\ ~IsObject(v) THEN receiver ELSE v))
        [] callee.type = "function" /\ fn.native = "" /\ chunk.class /\ chunk.constructor
             /\ receiver = Undefined -> Crash(m, "TypeError")
        [] OTHER -> NewFrame(m, fn.chunk, chunk, callee, args, this, receiver, base)

\* The receiver of a construction inherits from the constructor's prototype.
invoke_construct(prog, m, callee, args, base) ==
  LET fn == m.world.h[callee.n].fn
  IN  IF callee.type # "function" \/ fn.native # "" \/ ~prog[fn.chunk].constructor
      THEN Follow(prog, m, ThrowErr(m.world, "TypeError"), Pushed)
      ELSE Follow(prog, m, get_property_semantic(m.world, callee, "prototype"),
             LAMBDA n, p :
               LET made == Alloc(n.world, NewObject(IF IsObject(p) THEN p.n ELSE ObjectProto))
               IN  invoke_function(prog, [n EXCEPT !.world = made.w], callee, args, made.v,
                                   made.v, base))

\* The arguments of a call: the last k operands, or the elements of an array.
Args(m, k)  == IF k = -1 THEN ElementsOf(m.world, Top(m))
               ELSE SubSeq(m.stack, Len(m.stack) - k + 1, Len(m.stack))
Below(m, k) == Len(m.stack) - (IF k = -1 THEN 1 ELSE k)

\* operands: how many precede the arguments.
CallOp(prog, m, op, k, name) ==
  LET n == Below(m, k)
      args == Args(m, k)
      Operand(i) == m.stack[n - i]
      Invoked(r, base) ==
        Follow(prog, m, r, LAMBDA x, f :
          invoke_function(prog, x, f, args, m.stack[base + 1], Undefined, base))
  IN  CASE op = "call" ->
             invoke_function(prog, m, Operand(0), args, Undefined, Undefined, n - 1)
        [] op = "construct" -> invoke_construct(prog, m, Operand(0), args, n - 1)
        [] op = "call_with_this" ->
             invoke_function(prog, m, Operand(1), args, Operand(0), Undefined, n - 2)
        [] op = "call_method" ->
             Invoked(get_property_semantic(m.world, Operand(0), name), n - 1)
        [] op = "call_element" ->
             Invoked(get_element_semantic(m.world, Operand(1), Operand(0)), n - 2)

=============================================================================
