----------------------------- MODULE Interpreter -----------------------------
(***************************************************************************)
(* The execution core of the virtual machine (src/src/vm/vm.cpp): the      *)
(* frame stack, the shared operand stack, the nest of execute_loop         *)
(* activations that native re-entry builds up, completion propagation      *)
(* through catch and finally, and generator suspension.                    *)
(*                                                                         *)
(* One action is one turn of execute_loop (one instruction, with all the   *)
(* propagation it causes), or the return of one execute_loop activation to *)
(* the native code that started it.  A program is a choice of chunks; the  *)
(* values its expressions compute are abstracted to what control flow can  *)
(* see, and what it cannot control (the truth of a test, whether a getter  *)
(* throws) is an input read from the environment and recorded.             *)
(***************************************************************************)
EXTENDS Bytecode

CONSTANTS
  Names,       \* function names that have bytecode; "main" is the root chunk
  Programs,    \* the programs to run, each a [Names -> chunk]
  MaxReads,    \* bound: later inputs read FALSE
  GenIds,      \* bound: the generator objects that may be created
  Slots        \* local slots of a frame

VARIABLES
  prog,        \* the program being run: the chunk of each function
  frames,      \* VM::frames_
  stack,       \* VM::stack_
  loops,       \* the active execute_loop calls, outermost first
  gens,        \* the generator objects
  suspended,   \* VM::generator_suspended_
  result,      \* what the innermost execute_loop has just returned
  log,         \* observable effects, in order
  inputs       \* the inputs read so far

vars == <<prog, frames, stack, loops, gens, suspended, result, log, inputs>>

-----------------------------------------------------------------------------
(* Values, completions, frames.                                            *)

\* Object-like values are functions, generators, plain objects and iterator
\* results ({done: true} and {done: false}, with the carried value's id).
ObjectKinds == {"fn", "gen", "obj", "done", "more"}
Value == [kind : ObjectKinds \cup {"data", "bool"}, id : STRING]
Val(k, i) == [kind |-> k, id |-> i]
Undef     == Val("data", "undefined")
TypeErr   == Val("obj", "TypeError")
Bool(b)   == Val("bool", IF b THEN "true" ELSE "false")
AnyValue(v) == TRUE   \* mutant: a constructor keeps any returned value
ObjectLike(v) == v.kind \in ObjectKinds

NoReceiver == Val("data", "none")

Completion ==
  [type : {"normal", "throw", "return", "break", "continue"},
   value : Value, target : Nat]
\* Mutant: a return leaves the execution boundary as it is.
NormalAsReturn(v) == [type |-> "return", value |-> v, target |-> NoTarget]
Normal(v)   == [type |-> "normal", value |-> v, target |-> NoTarget]
Throw(v)    == [type |-> "throw", value |-> v, target |-> NoTarget]
Return(v)   == [type |-> "return", value |-> v, target |-> NoTarget]
Jumping(op, t) == [type |-> op, value |-> Undef, target |-> t]

\* An ExecutionResult: a completion or an EngineFailure; "none" while the
\* innermost execute_loop is still running.
NoResult == [type |-> "none", value |-> Undef, target |-> NoTarget]
Failure  == [type |-> "failure", value |-> Undef, target |-> NoTarget]

PendingFinally == [completion : Completion, finally_start : Nat]

Frame ==
  [chunk : Names, pc : Nat, last : Nat, base : Nat,
   locals : [Slots -> Value], pending : Seq(PendingFinally),
   receiver : Value]

NewFrame(name, base, receiver) ==
  [chunk |-> name, pc |-> 1, last |-> 1, base |-> base,
   locals |-> [s \in Slots |-> Undef], pending |-> <<>>,
   receiver |-> receiver]

\* One activation of execute_loop.  opbase is the operand_base to which the
\* call instruction that entered native code resizes the stack afterwards.
NoGen == "none"
Loop == [boundary : Nat, opbase : Nat, gen : GenIds \cup {NoGen}]

Generator ==
  [state : {"none", "suspended_start", "suspended_yield", "executing",
            "completed"},
   chunk : Names, pc : Nat, last : Nat, locals : [Slots -> Value],
   stack : Seq(Value)]
NoGenerator ==
  [state |-> "none", chunk |-> "main", pc |-> 1, last |-> 1,
   locals |-> [s \in Slots |-> Undef], stack |-> <<>>]

-----------------------------------------------------------------------------
(* Instruction fetch.                                                      *)

Top        == frames[Len(frames)]
Chunk(f)   == prog[f.chunk]
Boundary   == loops[Len(loops)].boundary
Instr      == Chunk(Top).code[Top.pc]
Height     == Len(stack) - Top.base
Peek       == stack[Len(stack)]
\* Mutant: one operand too many survives.
ResizeKeepsOne(n) == SubSeq(stack, 1, IF n < Len(stack) THEN n + 1 ELSE n)
Resize(n)  == SubSeq(stack, 1, n)
Drop(n)    == SubSeq(stack, 1, Len(stack) - n)

Running == result.type = "none" /\ frames # <<>> /\ loops # <<>>

At(op) ==
  /\ Running
  /\ Top.pc \in DOMAIN Chunk(Top).code
  /\ Instr.op = op

WithTop(f) == [frames EXCEPT ![Len(frames)] = f]
\* last_instruction_pc is recorded and the program counter advanced before
\* the instruction is dispatched.
Stepped     == [Top EXCEPT !.last = Top.pc, !.pc = Top.pc + 1]
Advanced    == WithTop(Stepped)

Fail ==
  /\ result' = Failure
  /\ frames' = Advanced
  /\ UNCHANGED stack

\* Reading input b; past the bound every test is FALSE, so loops are left.
Reads(b) ==
  IF Len(inputs) < MaxReads THEN inputs' = Append(inputs, b)
  ELSE b = FALSE /\ UNCHANGED inputs

-----------------------------------------------------------------------------
(* propagate_completion.                                                   *)

Undiscarded(f, pc) == f   \* mutant: overridden completions are kept
Discarded(f, pc) ==
  [f EXCEPT !.pending = discard_overridden(Chunk(f).handlers, @, pc)]

\* Save completion c in frame f and continue at the finalizer of handler h.
Finalizing(f, h, c) ==
  [f EXCEPT !.pc = h.finally_start,
            !.pending = Append(@, [completion |-> c,
                                   finally_start |-> h.finally_start])]

\* Return: run the innermost enclosing finalizer, or leave the frame.
PropagateReturn(c, fs, pc) ==
  LET n == Len(fs)
      f == Discarded(fs[n], pc)
      hs == Chunk(f).handlers
      h == find_finally_handler(hs, pc)
      v == IF f.receiver # NoReceiver /\ ~ObjectLike(c.value)
           THEN f.receiver ELSE c.value
  IN  \/ /\ h # 0
         /\ frames' = [fs EXCEPT ![n] = Finalizing(f, hs[h], c)]
         /\ stack' = Resize(f.base)
         /\ UNCHANGED result
      \/ /\ h = 0
         /\ frames' = SubSeq(fs, 1, n - 1)
         /\ IF n - 1 = Boundary
            THEN result' = Normal(v) /\ stack' = Resize(f.base)
            ELSE UNCHANGED result /\ stack' = Append(Resize(f.base), v)

\* Break and continue: run the innermost enclosing finalizer, or jump.
PropagateJump(c, fs, pc) ==
  LET n == Len(fs)
      f == Discarded(fs[n], pc)
      hs == Chunk(f).handlers
      h == find_finally_handler(hs, pc)
  IN  /\ UNCHANGED result
      /\ \/ /\ h # 0
            /\ frames' = [fs EXCEPT ![n] = Finalizing(f, hs[h], c)]
            /\ stack' = Resize(f.base)
         \/ /\ h = 0
            /\ frames' = [fs EXCEPT ![n] = [f EXCEPT !.pc = c.target]]
            /\ UNCHANGED stack

\* Throw: unwind to the innermost frame above the boundary that has a
\* handler at its current instruction, or out of this execute_loop.  extra
\* is what the instruction still pushes after a handler was entered.
PropagateThrow(c, fs, pc, boundary, extra) ==
  LET PcOf(i) == IF i = Len(fs) THEN pc ELSE fs[i].last
      Found(i) == find_exception_handler(Chunk(fs[i]).handlers, PcOf(i))
      handling == {i \in boundary + 1 .. Len(fs) : Found(i) # 0}
      i == CHOOSE k \in handling : \A j \in handling : j <= k
      h == Chunk(fs[i]).handlers[Found(i)]
      f == Discarded(fs[i], PcOf(i))
  IN  \/ /\ handling = {}
         /\ frames' = SubSeq(fs, 1, boundary)
         /\ stack' = Resize(fs[boundary + 1].base)
         /\ result' = c
      \/ /\ handling # {} /\ CatchesAt(h, PcOf(i))
         /\ frames' = Append(SubSeq(fs, 1, i - 1),
                             [f EXCEPT !.pc = h.catch_start])
         /\ stack' = Resize(f.base) \o <<c.value>> \o extra
         /\ result' = NoResult
      \/ /\ handling # {} /\ ~CatchesAt(h, PcOf(i))
         /\ frames' = Append(SubSeq(fs, 1, i - 1), Finalizing(f, h, c))
         /\ stack' = Resize(f.base) \o extra
         /\ result' = NoResult

\* Mutant: a throw looks for a handler in every frame.
PropagateUnbounded(c, fs, pc) ==
  \/ c.type = "return" /\ PropagateReturn(c, fs, pc)
  \/ c.type \in {"break", "continue"} /\ PropagateJump(c, fs, pc)
  \/ c.type = "throw" /\ PropagateThrow(c, fs, pc, 0, <<>>)

Propagate(c, fs, pc) ==
  \/ c.type = "return" /\ PropagateReturn(c, fs, pc)
  \/ c.type \in {"break", "continue"} /\ PropagateJump(c, fs, pc)
  \/ c.type = "throw" /\ PropagateThrow(c, fs, pc, Boundary, <<>>)

-----------------------------------------------------------------------------
(* Straight-line instructions.                                             *)

\* What execute_loop asks of the operand stack; YIELD also needs an activation
\* that resumed a generator.  POP and SET_LOCAL take their operand unchecked
\* there; in a chunk that verify accepts it is always present.
Enough(i) ==
  CASE i.op \in {"pop", "set_local", "observe", "jump_if_false", "throw",
                 "get_property", "get_iterator", "iterator_complete",
                 "iterator_value"}                      -> Height >= 1
    [] i.op = "yield" -> Height >= 1 /\ loops[Len(loops)].gen # NoGen
    [] i.op \in {"copy_object_rest", "iterator_next"}   -> Height >= 2
    [] i.op = "operate"                                 -> Height >= i.n
    [] i.op \in {"call", "construct"}                   -> Height >= i.n + 1
    [] i.op = "return"                                  -> Height = 1
    [] OTHER                                            -> TRUE

\* The instruction op is next and finds its operands.
On(op) == At(op) /\ Enough(Instr)

\* Any other operand count is a VM error, an EngineFailure.
Underflow ==
  /\ Running /\ Top.pc \in DOMAIN Chunk(Top).code
  /\ ~Enough(Instr)
  /\ Fail
  /\ UNCHANGED <<prog, loops, gens, suspended, log, inputs>>

\* The instruction only changes the operand stack.
Straight(newstack) ==
  /\ frames' = Advanced
  /\ stack' = newstack
  /\ UNCHANGED <<prog, loops, gens, suspended, result>>

\* Instructions that only produce a value: constants, closures, this,
\* arguments, object and array literals.
Push ==
  /\ On("push")
  /\ Straight(Append(stack, Instr.v))
  /\ UNCHANGED <<log, inputs>>

\* A read of a value the program does not control (the test of a loop).
PushInput ==
  /\ On("input")
  /\ \E b \in BOOLEAN : Reads(b) /\ Straight(Append(stack, Bool(b)))
  /\ UNCHANGED log

Pop ==
  /\ On("pop")
  /\ Straight(Drop(1))
  /\ UNCHANGED <<log, inputs>>

GetLocal ==
  /\ On("get_local")
  /\ Straight(Append(stack, Top.locals[Instr.n]))
  /\ UNCHANGED <<log, inputs>>

SetLocal ==
  /\ On("set_local")
  /\ frames' = WithTop([Stepped EXCEPT !.locals[Instr.n] = Peek])
  /\ UNCHANGED <<prog, stack, loops, gens, suspended, result, log, inputs>>

\* An observable effect of the program: a host function is handed a value.
Observe ==
  /\ On("observe")
  /\ log' = Append(log, Peek.id)
  /\ Straight(Drop(1))
  /\ UNCHANGED inputs

\* Operators and the other instructions that consume n operands and either
\* produce a value or throw (valueOf or a failed conversion decides).
Operate ==
  /\ On("operate")
  /\ \/ /\ Reads(TRUE)
        /\ PropagateThrow(Throw(Instr.v), Advanced, Top.pc, Boundary, <<>>)
        /\ UNCHANGED <<prog, loops, gens, suspended>>
     \/ /\ Reads(FALSE)
        /\ Straight(Append(Drop(Instr.n), Undef))
  /\ UNCHANGED log

\* COPY_OBJECT_REST: when a getter throws, the `break' after propagation
\* only leaves the loop over the keys, and the target object is pushed on
\* whatever stack the propagation left behind.
CopyObjectRest ==
  /\ On("copy_object_rest")
  /\ \/ /\ Reads(TRUE)
        /\ PropagateThrow(Throw(Instr.v), Advanced, Top.pc, Boundary,
                          <<Val("obj", "rest")>>)
        /\ UNCHANGED <<prog, loops, gens, suspended>>
     \/ /\ Reads(FALSE)
        /\ Straight(Append(Drop(2), Val("obj", "rest")))
  /\ UNCHANGED log

\* GET_ITERATOR replaces an iterable by its iterator and next method.
GetIterator ==
  /\ On("get_iterator")
  /\ \/ /\ Peek.kind = "gen"
        /\ Straight(Append(stack, Val("fn", "next")))
     \/ /\ Peek.kind # "gen"
        /\ PropagateThrow(Throw(TypeErr), Advanced, Top.pc, Boundary, <<>>)
        /\ UNCHANGED <<prog, loops, gens, suspended>>
  /\ UNCHANGED <<log, inputs>>

IteratorComplete ==
  /\ On("iterator_complete")
  /\ Straight(Append(Drop(1), Bool(Peek.kind = "done")))
  /\ UNCHANGED <<log, inputs>>

IteratorValue ==
  /\ On("iterator_value")
  /\ Straight(Append(Drop(1), Val("data", Peek.id)))
  /\ UNCHANGED <<log, inputs>>

\* Mutant: a jump forgets the completions that wait in the frame.
GotoForgets(pc) ==
  frames' = WithTop([Stepped EXCEPT !.pc = pc, !.pending = <<>>])

\* A jump of the top frame.
Goto(pc) == frames' = WithTop([Stepped EXCEPT !.pc = pc])

Jump ==
  /\ On("jump")
  /\ Goto(Instr.n)
  /\ UNCHANGED <<prog, stack, loops, gens, suspended, result, log, inputs>>

JumpIfFalse ==
  /\ On("jump_if_false")
  /\ \/ Peek = Bool(FALSE) /\ Goto(Instr.n)
     \/ Peek # Bool(FALSE) /\ frames' = Advanced
  /\ stack' = Drop(1)
  /\ UNCHANGED <<prog, loops, gens, suspended, result, log, inputs>>

-----------------------------------------------------------------------------
(* Abrupt completions.                                                     *)

BreakOrContinue ==
  /\ On("break") \/ On("continue")
  /\ Propagate(Jumping(Instr.op, Instr.n), Advanced, Top.pc)
  /\ UNCHANGED <<prog, loops, gens, suspended, log, inputs>>

ThrowOp ==
  /\ On("throw")
  /\ Propagate(Throw(Peek), Advanced, Top.pc)
  /\ UNCHANGED <<prog, loops, gens, suspended, log, inputs>>

\* END_FINALLY resumes the completion this finalizer was entered with.
EndFinally ==
  /\ On("end_finally")
  /\ LET p == Top.pending
         owed == p # <<>> /\ p[Len(p)].finally_start = Instr.n
     IN  \/ /\ owed
            /\ Propagate(p[Len(p)].completion,
                         WithTop([Stepped EXCEPT
                                    !.pending = SubSeq(p, 1, Len(p) - 1)]),
                         Top.pc)
         \/ /\ ~owed
            /\ frames' = Advanced
            /\ UNCHANGED <<stack, result>>
  /\ UNCHANGED <<prog, loops, gens, suspended, log, inputs>>

ReturnOp ==
  /\ On("return")
  /\ Propagate(Return(Peek), Advanced, Top.pc)
  /\ LET g == loops[Len(loops)].gen
     IN  gens' = IF g # NoGen /\ result'.type = "normal"
                 THEN [gens EXCEPT ![g].state = "completed"]
                 ELSE gens
  /\ UNCHANGED <<prog, loops, suspended, log, inputs>>

\* The frame is saved in the generator object without its pending
\* completions, and this execute_loop returns the yielded value.
Yield ==
  /\ On("yield")
  /\ LET g == loops[Len(loops)].gen
     IN  gens' = [gens EXCEPT ![g] =
           [state |-> "suspended_yield", chunk |-> Top.chunk,
            pc |-> Top.pc + 1, last |-> Top.pc, locals |-> Top.locals,
            stack |-> SubSeq(stack, Top.base + 1, Len(stack) - 1)]]
  /\ stack' = Resize(Top.base)
  /\ frames' = SubSeq(frames, 1, Len(frames) - 1)
  /\ suspended' = TRUE
  /\ result' = Normal(Peek)
  /\ UNCHANGED <<prog, loops, log, inputs>>

-----------------------------------------------------------------------------
(* Calls: invoke_function, invoke_construct, invoke, resume_generator.     *)

Argc    == Instr.n
OpBase  == Len(stack) - Argc - 1
Callee  == stack[OpBase + 1]
Arg(k)  == stack[OpBase + 1 + k]

HasCode(v) == v.kind = "fn" /\ v.id \in Names
IsBytecode(v)  == HasCode(v) /\ ~prog[v.id].generator
IsGenerator(v) == HasCode(v) /\ prog[v.id].generator
IsNative(v, name) == v.kind = "fn" /\ v.id = name

\* A bytecode function: a frame in the same execute_loop.  A constructor
\* call remembers the receiver it made.
PushFrame(receiver) ==
  /\ IsBytecode(Callee)
  /\ frames' = Append(Advanced, NewFrame(Callee.id, OpBase, receiver))
  /\ stack' = Resize(OpBase)
  /\ UNCHANGED <<prog, loops, gens, suspended, result, log, inputs>>

CallFunction == On("call") /\ PushFrame(NoReceiver)

ConstructFunction == On("construct") /\ PushFrame(Val("obj", "receiver"))

\* Calling something that is not a function, constructing something that is
\* not a constructor, and a native function that throws.
CallThrows ==
  /\ \/ On("call") /\ (Callee.kind # "fn" \/ IsNative(Callee, "thrower"))
     \/ On("construct") /\ ~IsBytecode(Callee)
  /\ Propagate(Throw(TypeErr), Advanced, Top.pc)
  /\ UNCHANGED <<prog, loops, gens, suspended, log, inputs>>

\* A native function that fails: EngineFailure bypasses every handler.
CallAborts ==
  /\ On("call") /\ IsNative(Callee, "abort")
  /\ Fail
  /\ UNCHANGED <<prog, loops, gens, suspended, log, inputs>>

\* A generator function: no frame, a generator object.
CallGenerator ==
  /\ On("call") /\ IsGenerator(Callee)
  /\ \E g \in GenIds : gens[g].state = "none"
  /\ LET g == CHOOSE k \in GenIds : gens[k].state = "none"
     IN  /\ gens' = [gens EXCEPT ![g] = [NoGenerator EXCEPT
                        !.state = "suspended_start", !.chunk = Callee.id]]
         /\ stack' = Append(Resize(OpBase), Val("gen", g))
  /\ frames' = Advanced
  /\ UNCHANGED <<prog, loops, suspended, result, log, inputs>>

\* Mutant: the nested execute_loop does not know its generator.
NestedAnonymous(f, opbase, g) ==
  /\ frames' = Append(Advanced, f)
  /\ loops' = Append(loops, [boundary |-> Len(frames), opbase |-> opbase,
                             gen |-> NoGen])

\* Mutant: the native call leaves its callee on the operand stack.
NestedKeepsCallee(f, opbase, g) ==
  /\ frames' = Append(Advanced, f)
  /\ loops' = Append(loops, [boundary |-> Len(frames), opbase |-> opbase + 1,
                             gen |-> g])

\* Mutant: the boundary counts one frame too few.
NestedBoundaryLow(f, opbase, g) ==
  /\ frames' = Append(Advanced, f)
  /\ loops' = Append(loops, [boundary |-> Len(frames) - 1, opbase |-> opbase,
                             gen |-> g])

\* VM::invoke on a registered VM: frame f runs in a nested execute_loop on
\* the same frame and operand stacks.
Nested(f, opbase, g) ==
  /\ frames' = Append(Advanced, f)
  /\ loops' = Append(loops, [boundary |-> Len(frames), opbase |-> opbase,
                             gen |-> g])

\* A native or bound function that calls back.
CallApply ==
  /\ On("call") /\ IsNative(Callee, "apply") /\ Argc = 1 /\ IsBytecode(Arg(1))
  /\ Nested(NewFrame(Arg(1).id, Len(stack), NoReceiver), OpBase, NoGen)
  /\ UNCHANGED <<prog, stack, gens, suspended, result, log, inputs>>

\* GET_PROPERTY of an accessor property: the getter is invoked.
GetProperty ==
  /\ On("get_property") /\ IsBytecode(Instr.v)
  /\ stack' = Drop(1)
  /\ Nested(NewFrame(Instr.v.id, Len(stack) - 1, NoReceiver),
            Len(stack) - 1, NoGen)
  /\ UNCHANGED <<prog, gens, suspended, result, log, inputs>>

\* A call of Generator.next, explicit or by ITERATOR_NEXT, which has popped
\* the iterator and the method before it calls.
NextOf(g) ==
  \/ /\ On("call") /\ IsNative(Callee, "next")
     /\ Argc = 1 /\ Arg(1) = Val("gen", g)
  \/ On("iterator_next") /\ stack[Len(stack) - 1] = Val("gen", g)
NextBase  == IF Instr.op = "call" THEN OpBase ELSE Len(stack) - 2
NextStack == IF Instr.op = "call" THEN stack ELSE Drop(2)

\* The saved frame continues on top of the current operand stack.
ResumeGenerator ==
  /\ \E g \in GenIds :
        LET s == gens[g]
        IN  /\ NextOf(g)
            /\ s.state \in {"suspended_start", "suspended_yield"}
            /\ Nested([NewFrame(s.chunk, Len(NextStack), NoReceiver) EXCEPT
                         !.pc = s.pc, !.last = s.last, !.locals = s.locals],
                      NextBase, g)
            /\ stack' = NextStack \o s.stack
                 \o (IF s.state = "suspended_yield" THEN <<Undef>> ELSE <<>>)
            /\ gens' = [gens EXCEPT ![g].state = "executing",
                                    ![g].stack = <<>>]
  /\ UNCHANGED <<prog, suspended, result, log, inputs>>

\* Generator.next on a completed generator answers {done: true} at once.
NextCompleted ==
  /\ \E g \in GenIds : NextOf(g) /\ gens[g].state = "completed"
  /\ Straight(Append(SubSeq(stack, 1, NextBase), Val("done", "undefined")))
  /\ UNCHANGED <<log, inputs>>

\* Generator.next on a generator that is executing is an Error, which the
\* execution boundary turns into an EngineFailure.
NextExecuting ==
  /\ \E g \in GenIds : NextOf(g) /\ gens[g].state = "executing"
  /\ Fail
  /\ UNCHANGED <<prog, loops, gens, suspended, log, inputs>>

-----------------------------------------------------------------------------
(* The return of an execute_loop to the native code that started it.       *)

\* The value invoke or resume_generator hands back to the interpreter.
Delivered(l) ==
  IF l.gen = NoGen THEN result.value
  ELSE Val(IF suspended THEN "more" ELSE "done", result.value.id)

\* Mutant: invoke turns an EngineFailure into a throw of the caller.
FailureThrows(l, outer) ==
  PropagateThrow(Throw(TypeErr), SubSeq(frames, 1, l.boundary),
                 frames[l.boundary].last, outer[Len(outer)].boundary, <<>>)

\* An EngineFailure is handed through invoke and resume_generator as it is.
FailureReturns(l, outer) == UNCHANGED <<frames, stack, result>>

\* A generator whose execute_loop ended without a yield is completed.
Settled(l) ==
  IF l.gen # NoGen /\ (result.type # "normal" \/ ~suspended)
  THEN [gens EXCEPT ![l.gen].state = "completed"]
  ELSE gens

\* Mutant: the suspension flag is never cleared.
FlagKept(l) == suspended

\* resume_generator clears the suspension flag once it has read it.
FlagCleared(l) == suspended /\ (l.gen = NoGen \/ result.type # "normal")

LoopReturns ==
  /\ result.type # "none" /\ Len(loops) > 1
  /\ LET l == loops[Len(loops)]
         outer == SubSeq(loops, 1, Len(loops) - 1)
     IN  /\ loops' = outer
         /\ gens' = Settled(l)
         /\ suspended' = FlagCleared(l)
         /\ \/ /\ result.type = "normal"
               /\ stack' = Append(Resize(l.opbase), Delivered(l))
               /\ result' = NoResult
               /\ UNCHANGED frames
            \/ /\ result.type = "throw"
               /\ PropagateThrow(result, frames, Top.last,
                                 outer[Len(outer)].boundary, <<>>)
            \/ /\ result.type = "failure"
               /\ FailureReturns(l, outer)
  /\ UNCHANGED <<prog, log, inputs>>

\* The outermost execute_loop returns to the host.
HostReturns ==
  /\ result.type # "none" /\ Len(loops) = 1
  /\ loops' = <<>>
  /\ UNCHANGED <<prog, frames, stack, gens, suspended, result, log, inputs>>

Halted == loops = <<>> /\ UNCHANGED vars

-----------------------------------------------------------------------------
Init ==
  /\ prog \in Programs
  /\ inputs = <<>>
  /\ frames = <<NewFrame("main", 0, NoReceiver)>>
  /\ stack = <<>>
  /\ loops = <<[boundary |-> 0, opbase |-> 0, gen |-> NoGen]>>
  /\ gens = [g \in GenIds |-> NoGenerator]
  /\ suspended = FALSE
  /\ result = NoResult
  /\ log = <<>>

Next ==
  \/ Push \/ PushInput \/ Pop \/ GetLocal \/ SetLocal \/ Observe
  \/ Operate \/ CopyObjectRest
  \/ GetIterator \/ IteratorComplete \/ IteratorValue
  \/ Jump \/ JumpIfFalse
  \/ BreakOrContinue \/ ThrowOp \/ EndFinally \/ ReturnOp \/ Yield
  \/ CallFunction \/ ConstructFunction \/ CallThrows \/ CallAborts
  \/ CallGenerator \/ CallApply \/ GetProperty
  \/ ResumeGenerator \/ NextCompleted \/ NextExecuting
  \/ Underflow \/ LoopReturns \/ HostReturns \/ Halted

Spec == Init /\ [][Next]_vars

\* The interpreter always takes its next step: it is a sequential loop that
\* waits for nothing.
FairSpec == Spec /\ WF_vars(Next)

=============================================================================
