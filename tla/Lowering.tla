------------------------------ MODULE Lowering ------------------------------
(***************************************************************************)
(* How the compiler lowers structured statements to bytecode               *)
(* (src/src/compiler/compiler.cpp): loops, labels, break and continue, try *)
(* with its handler table entry, calls, yield and for-of.                  *)
(*                                                                         *)
(* A statement is a record of one shape: its kind k, a name v (a label, a  *)
(* function or an observed value) and up to three statement lists.         *)
(* Expressions are abstracted to the instructions that matter to control.  *)
(* The compiler emits jumps first and patches their operands when the      *)
(* target is known; since the length of a statement's code does not depend *)
(* on the operands, the model lowers a body twice, first for its length.   *)
(***************************************************************************)
EXTENDS Bytecode

Stmt(k, v, b, c, f) == [k |-> k, v |-> v, b |-> b, c |-> c, f |-> f]
Leaf(k, v) == Stmt(k, v, <<>>, <<>>, <<>>)

Data(id) == [kind |-> "data", id |-> id]
Fn(id)   == [kind |-> "fn", id |-> id]
Gen(id)  == [kind |-> "gen", id |-> id]

Ins(op, n, v) == [op |-> op, n |-> n, v |-> v]
I0(op)    == Ins(op, 0, Data(""))
IN1(op, n) == Ins(op, n, Data(""))
PushI(v)  == Ins("push", 0, v)

Emit(code) == [code |-> code, handlers |-> <<>>]
Then(x, y) == [code |-> x.code \o y.code,
               handlers |-> x.handlers \o y.handlers]

\* The temporaries of a for-of and of a catch clause live in local slots.
IteratorSlot == 1
NextSlot == 2
ResultSlot == 3
CatchSlot == 4

\* A ControlContext: protected_finally_depth, iteration, label, the patched
\* break and continue targets.
Control(depth, iteration, label, brk, cont) ==
  [depth |-> depth, iteration |-> iteration, label |-> label,
   brk |-> brk, cont |-> cont]

\* compile_break takes the innermost control that fits the label, whatever
\* its kind; compile_continue only looks at iteration statements.
Fits(ctl, label) == label = "" \/ ctl.label = label
BreakTarget(controls, label) ==
  LET fit == {i \in DOMAIN controls : Fits(controls[i], label)}
  IN  controls[CHOOSE i \in fit : \A j \in fit : j <= i]
ContinueTarget(controls, label) ==
  LET fit == {i \in DOMAIN controls :
                controls[i].iteration /\ Fits(controls[i], label)}
  IN  controls[CHOOSE i \in fit : \A j \in fit : j <= i]

\* The completion opcode is only emitted when a finalizer lies in between.
compile_break(controls, depth, label) ==
  LET t == BreakTarget(controls, label)
  IN  Emit(<<IN1(IF depth > t.depth THEN "break" ELSE "jump", t.brk)>>)
compile_continue(controls, depth, label) ==
  LET t == ContinueTarget(controls, label)
  IN  Emit(<<IN1(IF depth > t.depth THEN "continue" ELSE "jump", t.cont)>>)

\* Calls leave an operand of the enclosing expression below the callee.
CallCode(code) ==
  Emit(<<PushI(Data("operand"))>> \o code \o <<I0("observe"), I0("pop")>>)

RECURSIVE CompileList(_, _, _, _)
RECURSIVE CompileStmt(_, _, _, _)

CompileList(list, off, controls, depth) ==
  IF list = <<>> THEN Emit(<<>>)
  ELSE LET first == CompileStmt(Head(list), off, controls, depth)
       IN  Then(first, CompileList(Tail(list), off + Len(first.code),
                                   controls, depth))

compile_while(s, off, controls, depth) ==
  LET Body(ctl) == CompileList(s.b, off + 2, Append(controls, ctl), depth)
      size == Len(Body(Control(depth, TRUE, s.v, 0, 0)).code)
      end == off + size + 3
      body == Body(Control(depth, TRUE, s.v, end, off))
  IN  Then(Emit(<<I0("input"), IN1("jump_if_false", end)>>),
           Then(body, Emit(<<IN1("jump", off)>>)))

compile_do_while(s, off, controls, depth) ==
  LET Body(ctl) == CompileList(s.b, off, Append(controls, ctl), depth)
      cont == off + Len(Body(Control(depth, TRUE, s.v, 0, 0)).code)
      body == Body(Control(depth, TRUE, s.v, cont + 3, cont))
  IN  Then(body, Emit(<<I0("input"), IN1("jump_if_false", cont + 3),
                        IN1("jump", off)>>))

\* A labelled statement that is not a loop.
compile_labeled(s, off, controls, depth) ==
  LET Body(ctl) == CompileList(s.b, off, Append(controls, ctl), depth)
      end == off + Len(Body(Control(depth, FALSE, s.v, 0, 0)).code)
  IN  Body(Control(depth, FALSE, s.v, end, 0))

compile_if(s, off, controls, depth) ==
  LET yes == CompileList(s.b, off + 2, controls, depth)
      alt == off + 3 + Len(yes.code)
      no  == CompileList(s.c, alt, controls, depth)
  IN  Then(Then(Emit(<<I0("input"), IN1("jump_if_false", alt)>>), yes),
           Then(Emit(<<IN1("jump", alt + Len(no.code))>>), no))

\* for (x of s.v()) s.b: iterator and next method live in locals; the loop
\* asks for a result, leaves when it is done, else binds (here: observes)
\* its value and runs the body.
compile_for_of(s, off, controls, depth) ==
  LET start == off + 7
      first == start + 9
      Body(ctl) == CompileList(s.b, first + 3, Append(controls, ctl), depth)
      end == first + 3 + Len(Body(Control(depth, TRUE, "", 0, 0)).code) + 1
      body == Body(Control(depth, TRUE, "", end, start))
  IN  Then(Emit(<<PushI(Fn(s.v)), IN1("call", 0), I0("get_iterator"),
                  IN1("set_local", NextSlot), I0("pop"),
                  IN1("set_local", IteratorSlot), I0("pop"),
                  IN1("get_local", IteratorSlot), IN1("get_local", NextSlot),
                  I0("iterator_next"),
                  IN1("set_local", ResultSlot), I0("pop"),
                  IN1("get_local", ResultSlot), I0("iterator_complete"),
                  IN1("jump_if_false", first), IN1("jump", end),
                  IN1("get_local", ResultSlot), I0("iterator_value"),
                  I0("observe")>>),
           Then(body, Emit(<<IN1("jump", start)>>)))

\* The protected depth covers the try block, the catch clause and the
\* finalizer itself; the jump over the catch clause is outside the try range.
compile_try(s, off, controls, depth) ==
  LET hasCatch == s.k \in {"try_catch", "try_catch_finally"}
      hasFinally == s.k \in {"try_finally", "try_catch_finally"}
      inner == IF hasFinally THEN depth + 1 ELSE depth
      block == CompileList(s.b, off, controls, inner)
      try_end == off + Len(block.code)
      catch_start == try_end + 1
      clause == CompileList(s.c, catch_start + 2, controls, inner)
      catch_end == IF hasCatch THEN catch_start + 2 + Len(clause.code)
                               ELSE try_end + 1
      finally_start == IF hasCatch THEN catch_end + 1 ELSE catch_end
      final == CompileList(s.f, finally_start, controls, inner)
      finally_end == finally_start + Len(final.code) + 1
      after == IF hasFinally THEN finally_start ELSE catch_end
      handler == [try_start |-> off, try_end |-> try_end,
                  catch_start |-> IF hasCatch THEN catch_start ELSE NoTarget,
                  catch_end |-> IF hasCatch THEN catch_end ELSE NoTarget,
                  finally_start |-> IF hasFinally THEN finally_start
                                                  ELSE NoTarget,
                  finally_end |-> IF hasFinally THEN finally_end
                                                ELSE NoTarget]
      catchPart ==
        IF ~hasCatch THEN Emit(<<>>)
        ELSE Then(Then(Emit(<<IN1("set_local", CatchSlot), I0("pop")>>),
                       clause),
                  Emit(IF hasFinally THEN <<IN1("jump", finally_start)>>
                                     ELSE <<>>))
      finallyPart ==
        IF ~hasFinally THEN Emit(<<>>)
        ELSE Then(final, Emit(<<IN1("end_finally", finally_start)>>))
      all == Then(Then(block, Emit(<<IN1("jump", after)>>)),
                  Then(catchPart, finallyPart))
  IN  [all EXCEPT !.handlers = Append(@, handler)]

CompileStmt(s, off, controls, depth) ==
  CASE s.k = "mark"     -> Emit(<<PushI(Data(s.v)), I0("observe")>>)
    [] s.k = "caught"   -> Emit(<<IN1("get_local", CatchSlot), I0("observe")>>)
    [] s.k = "throw"    -> Emit(<<PushI(Data(s.v)), I0("throw")>>)
    [] s.k = "return"   -> Emit(<<PushI(Data(s.v)), I0("return")>>)
    [] s.k = "expr"     -> Emit(<<PushI(Data("a")), PushI(Data("b")),
                                  Ins("operate", 2, Data(s.v)), I0("pop")>>)
    [] s.k = "rest"     -> Emit(<<PushI(Data("a")), PushI(Data("b")),
                                  Ins("copy_object_rest", 0, Data(s.v)),
                                  I0("pop")>>)
    [] s.k = "call"     -> CallCode(<<PushI(Fn(s.v)), IN1("call", 0)>>)
    [] s.k = "new"      -> CallCode(<<PushI(Fn(s.v)), IN1("construct", 0)>>)
    [] s.k = "apply"    -> CallCode(<<PushI(Fn("apply")), PushI(Fn(s.v)),
                                      IN1("call", 1)>>)
    [] s.k = "calldata" -> CallCode(<<PushI(Data(s.v)), IN1("call", 0)>>)
    [] s.k = "getter"   -> CallCode(<<PushI(Data("object")),
                                      Ins("get_property", 0, Fn(s.v))>>)
    [] s.k = "next"     -> CallCode(<<PushI(Fn("next")), PushI(Gen(s.v)),
                                      IN1("call", 1)>>)
    [] s.k = "yield"    -> Emit(<<PushI(Data("operand")), PushI(Data(s.v)),
                                  I0("yield"), I0("pop"), I0("pop")>>)
    [] s.k = "break"    -> compile_break(controls, depth, s.v)
    [] s.k = "continue" -> compile_continue(controls, depth, s.v)
    [] s.k = "while"    -> compile_while(s, off, controls, depth)
    [] s.k = "dowhile"  -> compile_do_while(s, off, controls, depth)
    [] s.k = "labeled"  -> compile_labeled(s, off, controls, depth)
    [] s.k = "if"       -> compile_if(s, off, controls, depth)
    [] s.k = "forof"    -> compile_for_of(s, off, controls, depth)
    [] OTHER            -> compile_try(s, off, controls, depth)

\* A function body or script ends with an implicit return of undefined.
CompileBody(list, generator) ==
  LET c == Then(CompileList(list, 1, <<>>, 0),
                Emit(<<PushI(Data("undefined")), I0("return")>>))
  IN  [code |-> c.code, handlers |-> c.handlers, generator |-> generator]

=============================================================================
