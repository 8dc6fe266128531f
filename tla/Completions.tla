----------------------------- MODULE Completions -----------------------------
(***************************************************************************)
(* The properties of the execution core: what module Interpreter must      *)
(* guarantee for every program the compiler can produce.                   *)
(*                                                                         *)
(* A chunk carries, as an annotation, the depth map the verifier computes  *)
(* for it (depth: reachable pc -> operand depth).  The program itself never  *)
(* changes, so TypeOK is about the rest of the state.                      *)
(***************************************************************************)
EXTENDS Interpreter, Verifier

\* The instruction depths of frame f, and the depth it is at.
DepthOf(f) == Chunk(f).depth
AtDepth(f) == DepthOf(f)[f.pc]

-----------------------------------------------------------------------------
(* What is assumed of the programs and the other constants.                *)

\* A chunk the compiler makes: typed instructions and handlers, local
\* slots in bounds, YIELD only in generator functions, and try regions that
\* end after they start.
Instruction == [op : STRING, n : Nat, v : Value]
WellFormed(c) ==
  /\ c.code \in Seq(Instruction)
  /\ c.handlers \in Seq(ExceptionHandler)
  /\ c.generator \in BOOLEAN
  /\ \A pc \in DOMAIN c.code :
        /\ c.code[pc].op = "get_local" => c.code[pc].n \in Slots
        /\ c.code[pc].op = "yield" => c.generator
  /\ \A k \in DOMAIN c.handlers : Span(c.handlers[k]) \in Nat

ASSUME ProgramsWellFormed ==
  \A p \in Programs :
    ~p["main"].generator /\ \A n \in Names : WellFormed(p[n])

\* The chunk has passed the verifier (vm.cpp makes a frame of no other) and
\* carries the depths the verifier found.
Verified(c) == verify(c) /\ c.depth = Depths(c)

\* How the compiler lays statements out (compiler.cpp, compile_try,
\* compile_break): a jump that runs finalizers and the end of a finalizer are
\* statements and find no operand; a finalizer belongs to one handler; and
\* only an abrupt completion or its own END_FINALLY leads out of a finalizer.
Structured(c) ==
  /\ \A pc \in DOMAIN c.depth :
        c.code[pc].op \in {"break", "continue", "end_finally"} => c.depth[pc] = 0
  /\ \A h, k \in DOMAIN c.handlers :
        /\ c.handlers[h].finally_start = c.handlers[k].finally_start
        /\ c.handlers[h].finally_start # NoTarget
        => h = k
  /\ \A h \in DOMAIN c.handlers : \A pc \in DOMAIN c.code :
        LET i == c.code[pc]
            hd == c.handlers[h]
        IN  /\ InFinally(hd, pc)
            /\ i.op \notin {"return", "throw", "break", "continue"}
            /\ ~(i.op = "end_finally" /\ i.n = hd.finally_start)
            => \A t \in Successors(i, pc) : InFinally(hd, t)

ASSUME ProgramsVerified ==
  \A p \in Programs : \A n \in Names : Verified(p[n]) /\ Structured(p[n])

ASSUME ConstantsTyped ==
  /\ "main" \in Names /\ MaxReads \in Nat
  /\ GenIds \subseteq STRING /\ NoGen \notin GenIds

\* The names of the interpreter's own values are strings (the provers have no
\* such fact about literals).
ASSUME LiteralsAreStrings ==
  {"undefined", "none", "TypeError", "true", "false", "rest", "receiver",
   "next"} \subseteq STRING

-----------------------------------------------------------------------------
Ended   == loops = <<>>
Failed  == result.type = "failure"

-----------------------------------------------------------------------------
\* The shape of the state.  Only Normal and Throw cross the boundary of an
\* execute_loop.
TypeOK ==
  /\ frames \in Seq(Frame)
  /\ stack \in Seq(Value)
  /\ loops \in Seq(Loop)
  /\ gens \in [GenIds -> Generator]
  /\ suspended \in BOOLEAN
  /\ result \in Completion \cup {NoResult, Failure}
  /\ result.type \in {"none", "normal", "throw", "failure"}
  /\ log \in Seq(STRING)
  /\ inputs \in Seq(BOOLEAN)

\* How frames fs, operands st and execute_loop activations ls nest.  The
\* bases of the frames never decrease; the boundaries increase; the operands
\* an activation must give back lie between the base of the frame that
\* entered native code and the base of the first frame above the boundary.
\* An activation that runs has a frame of its own, one that is done has none.
Nests(fs, st, ls, running) ==
  /\ \A i, j \in 1 .. Len(fs) : i <= j => fs[i].base <= fs[j].base
  /\ \A i \in 1 .. Len(fs) : fs[i].base <= Len(st)
  /\ \A k, m \in 1 .. Len(ls) : k < m => ls[k].boundary < ls[m].boundary
  /\ \A k \in 1 .. Len(ls) :
        /\ ls[k].boundary <= Len(fs)
        /\ ls[k].opbase <= Len(st)
        /\ ls[k].boundary < Len(fs)
             => ls[k].opbase <= fs[ls[k].boundary + 1].base
        /\ k > 1 => fs[ls[k].boundary].base <= ls[k].opbase
  /\ running => ls[Len(ls)].boundary < Len(fs)
  /\ ~running => ls[Len(ls)].boundary = Len(fs)

\* The frame stack, the operand stack and the nest of activations stay
\* consistent through every call, throw, return, yield and resumption
\* (vm.cpp, the boundary_depth and operand_base of invoke, construct and
\* resume_generator).
StackDiscipline ==
  ~Ended /\ ~Failed => Nests(frames, stack, loops, result.type = "none")

\* The frames that called into the current one through native code: the
\* frame below the boundary of an inner execute_loop.
IsBoundary(i) == \E k \in 2 .. Len(loops) : loops[k].boundary = i

\* The running frame sees exactly the operands the verifier promised for the
\* instruction it is about to execute, so no instruction can read a caller's
\* operand or fail for lack of one (vm.cpp, execute_loop; verifier.cpp).
HeightMatchesVerifier ==
  Running => /\ Top.pc \in DOMAIN DepthOf(Top)
             /\ Height = AtDepth(Top)

\* The program takes the rest of an object and has a handler.  When a getter
\* of the object throws, an operand stays behind on the handler's stack, and
\* the verifier's depths hold no longer (run rest_depth).
LeavesOperand ==
  /\ \E n \in Names : \E i \in DOMAIN prog[n].code : prog[n].code[i].op = "copy_object_rest"
  /\ \E n \in Names : prog[n].handlers # <<>>

\* Every suspended caller keeps its operands: below a direct call the callee
\* starts where the caller's result will go, and below a native call the
\* stack will be cut back to exactly that place (vm.cpp, invoke_function).
\* Programs that leave an operand behind are excepted.
CallersKeepOperands ==
  ~Failed /\ ~LeavesOperand =>
    /\ \A i \in 1 .. Len(frames) - 1 :
         ~IsBoundary(i) =>
           frames[i + 1].base = frames[i].base + AtDepth(frames[i]) - 1
    /\ \A k \in 2 .. Len(loops) :
         LET l == loops[k]
             f == frames[l.boundary]
         IN  l.boundary \in 1 .. Len(frames) - 1 =>
               l.opbase = f.base + AtDepth(f) - 1

\* A completion waits in a frame only while the frame executes the finalizer
\* that owns it (discard_overridden_completions and END_FINALLY together).
PendingInsideItsFinalizer ==
  \A i \in 1 .. Len(frames) : \A k \in 1 .. Len(frames[i].pending) :
    \E h \in DOMAIN Chunk(frames[i]).handlers :
      LET hd == Chunk(frames[i]).handlers[h]
          pc == IF i = Len(frames) /\ result.type = "none"
                THEN frames[i].pc ELSE frames[i].last
      IN  /\ hd.finally_start = frames[i].pending[k].finally_start
          /\ InFinally(hd, pc)

\* A completion saved for a finalizer is dropped only when control leaves that
\* finalizer: END_FINALLY resumed it or an abrupt completion of the finalizer
\* replaced it (docs P1, Return / throw / finally).
SavedCompletionSurvives ==
  [][ \A i \in 1 .. Len(frames) :
        i <= Len(frames') =>
          \A k \in 1 .. Len(frames[i].pending) :
            LET p == frames[i].pending[k]
                q == frames'[i].pending
            IN  k > Len(q) \/ q[k] # p =>
                  \A h \in DOMAIN Chunk(frames[i]).handlers :
                    Chunk(frames[i]).handlers[h].finally_start
                        = p.finally_start
                      => ~InFinally(Chunk(frames[i]).handlers[h],
                                    frames'[i].pc) ]_vars

\* A break or continue runs only finalizers that lie between it and its
\* target: a try statement that contains the target is not left (docs P1,
\* "run intervening finally blocks").
JumpsLeaveTheRegion ==
  \A i \in 1 .. Len(frames) : \A k \in 1 .. Len(frames[i].pending) :
    LET p == frames[i].pending[k]
    IN  p.completion.type \in {"break", "continue"} =>
          \A h \in DOMAIN Chunk(frames[i]).handlers :
            LET hd == Chunk(frames[i]).handlers[h]
            IN  hd.finally_start = p.finally_start =>
                  ~In(p.completion.target, hd.try_start, hd.finally_end)

\* A generator is executing exactly when one activation of execute_loop runs
\* it, so its frame exists at most once; and generator_suspended_, which tells
\* the resumer that its generator yielded, is never left for another resumer
\* to find.
GeneratorExclusive ==
  \A g \in GenIds :
    /\ Cardinality({k \in 1 .. Len(loops) : loops[k].gen = g}) <= 1
    /\ result.type = "none" =>
         (gens[g].state = "executing" <=>
            \E k \in 1 .. Len(loops) : loops[k].gen = g)
    /\ result.type = "none" => ~suspended

\* A step inside an execute_loop leaves everything below its boundary alone:
\* the frames of outer activations and the operands that belong to them.
BoundaryRespected ==
  [][ (loops # <<>> /\ Len(loops') >= Len(loops)) =>
        LET b == loops[Len(loops)].boundary
            kept == loops[Len(loops)].opbase
        IN  /\ Len(frames') >= b /\ Len(stack') >= kept
            /\ SubSeq(frames', 1, b) = SubSeq(frames, 1, b)
            /\ SubSeq(stack', 1, kept) = SubSeq(stack, 1, kept) ]_vars

\* An EngineFailure is final: no catch clause, no finalizer and no outer
\* activation runs another instruction (docs P1, "EngineFailure bypassing
\* JavaScript catch").
FailureBypassesHandlers ==
  [][ Failed => Failed' /\ UNCHANGED <<frames, stack, log, inputs>> ]_vars

\* Every run of a program whose loops end comes back to the host.
Termination == <>Ended

=============================================================================
