----------------------------- MODULE MCPrograms -----------------------------
(***************************************************************************)
(* Programs for the engine.  Each family varies one part of a program over *)
(* the others: what a reference is and what is done with it, how a         *)
(* statement is left and through what, patterns, functions, modules,       *)
(* declarations that meet.  Every program is run alone.                    *)
(***************************************************************************)
EXTENDS Conformance

\* Shorter trees.
N(n) == Lit(Num(n))
T(s) == Lit(Str(s))
Id(x) == Ident(x)
Do(x) == ExprStmt(x)
CallTo(f, args) == Call(Id(f), args)
Logged(x) == CallTo("log", <<x>>)
Log(x) == Do(Logged(x))
Say(s) == Log(T(s))
Decl(kind, p, init) == Declaration(kind, <<Declarator(p, init)>>)
Let(x, init) == Decl("let", Id(x), init)
Var(x, init) == Decl("var", Id(x), init)
Const(x, init) == Decl("const", Id(x), init)
Idents(list) == Map(list, Ident)
Nones(list) == Map(list, LAMBDA x : None)
Function(x, params, list) == FunctionDecl(x, Idents(params), Nones(params), 0, Block(list))
Lambda(params, body) == Arrow(Idents(params), Nones(params), 0, body)
Object(a, v) == ObjectExpr(<<Property(a, v)>>)
Array(list) == ArrayExpr(Map(list, N))
Strict == <<Do(T("use strict"))>>
\* All combinations.
Pairs(as, bs, F(_, _)) == FlattenSeq(Map(as, LAMBDA a : Map(bs, LAMBDA b : F(a, b))))
Triples(as, bs, cs, F(_, _, _)) ==
  FlattenSeq(Pairs(as, bs, LAMBDA a, b : Map(cs, LAMBDA c : F(a, b, c))))
Scripts(lists) == Map(lists, LAMBDA list : <<Script(list)>>)

-----------------------------------------------------------------------------
(* References: every operator that reads, writes or deletes one, on a      *)
(* name of every kind of storage and on properties whose base and key can  *)
(* be observed.                                                            *)

Operations(r) ==
  Map(<<Assign("=", r, Logged(N(7))), Assign("+=", r, Logged(N(1))), Assign("&&=", r, Logged(N(3))),
        Assign("||=", r, Logged(N(3))), Assign("??=", r, Logged(N(3))), Update("++", TRUE, r),
        Update("--", FALSE, r), Unary("typeof", r), Unary("delete", r), Call(r, <<N(1)>>),
        Assign("=", ArrayPattern(<<r>>), Array(<<5>>))>>, Log)
    \o <<ForOf(r, Array(<<4>>), Empty)>>

\* Code that uses the name x, where x is a variable with the value v.
Placed(place, v, body) ==
  LET seen == <<Log(Unary("typeof", Id("x"))), Log(Id("x"))>>
  IN  CASE place = "let" -> <<Let("x", v), body>> \o seen
        [] place = "captured" ->
             <<Var("x", v), Let("g", Lambda(<<>>, Id("x"))), body, Log(CallTo("g", <<>>))>> \o seen
        [] place = "upvalue" ->
             <<Let("x", v), Function("f", <<>>, <<Let("g", Lambda(<<>>, Block(<<body>>))),
                                                  Do(CallTo("g", <<>>))>> \o seen),
               Do(CallTo("f", <<>>))>> \o seen
        [] place = "parameter" -> <<Function("f", <<"x">>, <<body>> \o seen), Do(CallTo("f", <<v>>))>>
        [] place = "object" ->
             <<Let("x", N(0)), Var("o", Object("x", v)), With(Id("o"), Block(<<body>> \o seen)),
               Log(Member(Id("o"), "x"))>> \o seen
        [] place = "hidden" ->
             <<Let("x", v), Var("o", ObjectExpr(<<Property("x", N(0)),
                   Property("@@unscopables", Object("x", N(1)))>>)),
               With(Id("o"), body), Log(Member(Id("o"), "x"))>> \o seen
        [] place = "behind" ->
             <<Let("x", v), With(Object("y", N(0)), body)>> \o seen
        [] place = "closure in with" ->
             <<Var("o", Object("x", v)), Var("g", None),
               With(Id("o"), Do(Assign("=", Id("g"), Lambda(<<>>, Block(<<body>>))))),
               Do(CallTo("g", <<>>)), Log(Member(Id("o"), "x"))>>
        [] place = "global" -> <<Do(Assign("=", Id("x"), v)), body>> \o seen
        [] place = "unresolvable" -> <<body>> \o seen

\* A name the program made global cannot be deleted (see the README).
Deletion == 9
NameFamily ==
  LET all == Operations(Id("x"))
      Of(place, v, k) == Placed(place, v, all[k])
      places == <<"let", "captured", "upvalue", "parameter", "object", "hidden", "behind",
                  "closure in with", "unresolvable">>
  IN  Triples(places, <<N(2), Lit(Undefined)>>, [k \in DOMAIN all |-> k], Of)
        \o Pairs(<<N(2), Lit(Undefined)>>, SelectSeq([k \in DOMAIN all |-> k], LAMBDA k : k # Deletion),
                 LAMBDA v, k : Of("global", v, k))

PropertyFamily ==
  LET all == Operations(Member(Logged(Id("x")), "k")) \o Operations(Index(Logged(Id("x")), Id("K")))
  IN  Triples(<<<<>>, Strict>>, <<N(2), Lit(Undefined)>>, all, LAMBDA prologue, v, s :
        prologue \o <<Let("x", Object("k", v)), s, Log(Member(Id("x"), "k"))>>)

-----------------------------------------------------------------------------
(* Exits: every way to leave a block, out of its handlers and with         *)
(* statements, in the first round of a loop; and every kind of loop.  The  *)
(* clause of a try runs once in a frame (see the README).                  *)

Exits ==
  <<Empty, Break(""), Break("l"), Continue(""), Continue("l"), Return(T("v")), Throw(T("t")),
    Do(CallTo("f", <<>>)), Do(Call(Lit(Undefined), <<>>))>>
SomeExits == <<Empty, Continue("l"), Return(T("w")), Throw(T("u"))>>

Guarded(shape, j, k) ==
  LET last == With(Object("b", N(1)), k)
      Clause(s) == Block(<<Log(Id("e")), s>>)
      Final(s) == Block(<<Say("finally"), s>>)
  IN  CASE shape = "finally" -> Try(Block(<<j>>), None, None, Final(last))
        [] shape = "catch"   -> Try(Block(<<j>>), Id("e"), Clause(last), None)
        [] shape = "both"    -> Try(Block(<<j>>), Id("e"), Clause(last), Final(Empty))
        [] shape = "nested"  ->
             Try(Block(<<Try(Block(<<j>>), None, None, Final(last))>>), Id("e"), Clause(Empty),
                 Final(Empty))

\* The function g throws to its caller.
ExitFamily ==
  Triples(<<"finally", "catch", "both", "nested">>, Exits, SomeExits, LAMBDA shape, j, k :
    <<Function("f", <<>>, <<With(Object("c", N(2)), Throw(Id("c")))>>),
      Function("g", <<>>, <<
        Labeled("l", ForOf(Decl("const", Id("i"), None), Array(<<0, 1>>),
          With(Object("a", Id("i")), Block(<<
            If(Binary("===", Id("a"), N(0)), Guarded(shape, j, k), Empty), Say("next")>>)))),
        Say("done"), Return(T("end"))>>),
      Try(Block(<<Log(CallTo("g", <<>>))>>), Id("e"), Block(<<Log(Id("e"))>>), None),
      Do(T("last"))>>)

LoopsWith(body) ==
  LET less == Binary("<", Id("i"), N(2))
      step == Update("++", FALSE, Id("i"))
      pair == ObjectExpr(<<Property("b", N(1)), Property("a", N(2))>>)
      both(s) == Block(<<Log(Id("i")), s>>)
      \* An unlabelled break leaves a labelled block only (see the README).
      inside == IF body.t = "break" /\ body.label = "" THEN Empty ELSE body
  IN  <<<<Var("i", N(0)), Labeled("l", While(less, Block(<<Do(step), both(body)>>)))>>,
        <<Var("i", N(0)), Labeled("l", DoWhile(Block(<<Do(step), both(body)>>), less))>>,
        <<Labeled("l", For(Decl("let", Id("i"), N(0)), less, step, both(body)))>>,
        <<Var("i", None), Labeled("l", For(Assign("=", Id("i"), N(0)), less, step, both(body)))>>,
        <<Labeled("l", For(Decl("var", Id("i"), N(0)), less, step, both(body)))>>,
        <<Var("i", N(1)), Labeled("l", For(None, None, step, both(Block(<<
            If(less, Empty, Break("")), body>>))))>>,
        <<Labeled("l", ForIn(Decl("let", Id("i"), None), pair, both(body)))>>,
        <<Var("i", None), Labeled("l", ForIn(Id("i"), pair, both(body)))>>,
        <<Labeled("l", ForOf(Decl("var", Id("i"), None), Array(<<1, 2>>), both(body)))>>,
        <<Labeled("l", ForIn(Decl("const", Id("i"), None), Lit(Undefined), both(body)))>>,
        <<Labeled("l", ForOf(Decl("let", Id("i"), None), Array(<<1, 2>>),
            Block(<<Labeled("m", Block(<<Log(Id("i")), inside, If(Id("i"), Break("m"), Empty)>>)),
                    Say("out")>>)))>>,
        <<Labeled("l", ForOf(Decl("let", Id("i"), None), Array(<<1, 2, 3>>),
            Block(<<Switch(Id("i"), <<Case(N(2), <<Say("two"), body>>), Case(None, <<Say("other")>>),
                                      Case(Logged(N(1)), <<Say("one"), body>>)>>),
                    Say("out")>>)))>>>>

LoopFamily ==
  FlattenSeq(Map(<<Empty, Break(""), Break("l"), Continue(""), Continue("l")>>, LoopsWith))

-----------------------------------------------------------------------------
(* Patterns, wherever one may stand.                                       *)

\* A pattern and a value for it.
Matches ==
  LET x == Id("x")
      y == DefaultPattern(Id("y"), Logged(N(9)))
      three == ObjectExpr(<<Property("a", N(1)), Property("k", N(2)), Property("c", N(3))>>)
      elements == ArrayPattern(<<x, y, RestElement(Id("z"))>>)
      properties == ObjectPattern(<<PatternProperty("a", x), PatternProperty("b", y)>>, Id("z"))
  IN  <<<<elements, Array(<<1>>)>>, <<elements, Array(<<1, 2, 3, 4>>)>>,
        <<elements, ArrayExpr(<<None, Lit(Undefined), Spread(Array(<<5, 6>>))>>)>>,
        <<elements, N(5)>>, <<ArrayPattern(<<None, x>>), Array(<<1, 2>>)>>,
        <<properties, three>>, <<properties, Lit(Undefined)>>, <<properties, T("s")>>,
        <<properties, ObjectExpr(<<Spread(three), Property("b", N(4))>>)>>,
        <<ObjectPattern(<<ComputedPattern(Id("K"), x), ComputedPattern(Logged(T("a")), y)>>,
                        Id("z")), three>>,
        <<ObjectPattern(<<PatternProperty("a", DefaultPattern(ArrayPattern(<<x, y>>), Array(<<7>>)))>>,
                        None), ObjectExpr(<<>>)>>>>

Bound(place, p, v) ==
  LET names == bound_names(p)
      seen == FlattenSeq(Map(names, LAMBDA x :
                IF x = "z" THEN <<Log(Member(Id(x), "length")), Log(Member(Id(x), "c"))>>
                ELSE <<Log(Id(x))>>))
      first == Declaration("var", Map(names, LAMBDA x : Declarator(Id(x), None)))
  IN  CASE place \in {"let", "const", "var"} -> <<Decl(place, p, v)>> \o seen
        [] place = "assign" -> <<first, Log(Assign("=", p, v))>> \o seen
        [] place = "parameter" ->
             <<FunctionDecl("f", <<p, Id("w")>>, <<v, Binary("+", Id("x"), N(1))>>, 0,
                            Block(seen \o <<Log(Id("w"))>>)), Do(CallTo("f", <<>>))>>
        [] place = "arrow" ->
             <<Do(Call(Arrow(<<p>>, <<None>>, 0, Block(seen)), <<v>>))>>
        [] place = "catch" -> <<Try(Block(<<Throw(v)>>), p, Block(seen), None)>>
        [] place = "for" -> <<For(Decl("let", p, v), None, None, Block(seen \o <<Break("")>>))>>
        [] place = "for of" ->
             <<ForOf(Decl("const", p, None), ArrayExpr(<<v, v>>), Block(seen))>>
        [] place = "for var" -> <<ForOf(Decl("var", p, None), ArrayExpr(<<v, v>>), Block(seen))>>
        [] place = "for assign" -> <<first, ForOf(p, ArrayExpr(<<v>>), Block(seen))>> \o seen

PatternFamily ==
  Pairs(<<"let", "const", "var", "assign", "parameter", "arrow", "catch", "for", "for of",
          "for var", "for assign">>, Matches, LAMBDA place, m : Bound(place, m[1], m[2]))

-----------------------------------------------------------------------------
(* Closures: variables shared, outlived and copied for each round.         *)

Counter == Lambda(<<>>, Update("++", FALSE, Id("n")))
AddTo(f) == Do(Assign("=", Index(Id("fs"), Member(Id("fs"), "length")), f))
CallAll == ForOf(Decl("const", Id("f"), None), Id("fs"), Log(Call(Id("f"), <<>>)))

ClosurePrograms ==
  <<\* Two closures over one variable, after their function has returned.
    <<Function("make", <<"n">>, <<Return(ArrayExpr(<<Counter, Counter>>))>>),
      Decl("let", ArrayPattern(<<Id("f"), Id("g")>>), CallTo("make", <<N(1)>>)),
      Decl("const", ArrayPattern(<<Id("h")>>), CallTo("make", <<N(3)>>)),
      Log(CallTo("f", <<>>)), Log(CallTo("g", <<>>)), Log(CallTo("h", <<>>)),
      Log(CallTo("f", <<>>))>>,
    \* Each round of a loop has a variable of its own, the closure made in the
    \* body and the update run on different ones.
    <<Const("fs", Array(<<>>)),
      For(Decl("let", Id("n"), N(0)), Binary("<", Id("n"), N(2)), Update("++", FALSE, Id("n")),
          Block(<<AddTo(Counter), AddTo(Lambda(<<>>, Id("n")))>>)), CallAll, CallAll>>,
    <<Const("fs", Array(<<>>)),
      For(Decl("var", Id("n"), N(0)), Binary("<", Id("n"), N(2)), Update("++", FALSE, Id("n")),
          AddTo(Counter)), CallAll>>,
    <<Const("fs", Array(<<>>)),
      ForOf(Decl("let", Id("n"), None), Array(<<1, 2>>),
            Block(<<AddTo(Counter), If(Binary("===", Id("n"), N(1)), Continue(""), Empty),
                    Do(Update("++", TRUE, Id("n")))>>)), CallAll>>,
    <<Const("fs", Array(<<>>)),
      ForIn(Decl("const", Id("n"), None), Object("a", N(1)), AddTo(Lambda(<<>>, Id("n")))), CallAll>>,
    \* A variable captured through two functions, one of which never uses it.
    <<Let("n", N(1)),
      Function("outer", <<>>, <<Return(Lambda(<<>>, Lambda(<<>>, Assign("+=", Id("n"), N(1)))))>>),
      Log(Call(Call(CallTo("outer", <<>>), <<>>), <<>>)), Log(Id("n"))>>,
    \* Closures over the variables of a block and of a clause that threw.
    <<Var("f", None), Var("g", None),
      Try(Block(<<Let("a", N(1)), Do(Assign("=", Id("f"), Lambda(<<>>, Update("++", TRUE, Id("a"))))),
                  Throw(N(5))>>), Id("e"),
          Block(<<Do(Assign("=", Id("g"), Lambda(<<>>, Id("e")))), Do(Assign("=", Id("e"), N(6)))>>), None),
      Log(CallTo("f", <<>>)), Log(CallTo("g", <<>>)), Log(CallTo("f", <<>>))>>,
    \* An exception closes the variables of every frame it leaves.
    <<Var("f", None),
      Function("inner", <<"a">>, <<Do(Assign("=", Id("f"), Lambda(<<>>, Update("++", FALSE, Id("a"))))),
                                   Throw(Id("a"))>>),
      Function("outer", <<"b">>, <<Do(CallTo("inner", <<Id("b")>>))>>),
      Try(Block(<<Do(CallTo("outer", <<N(3)>>))>>), Id("e"), Block(<<Log(Id("e"))>>), None),
      Function("over", <<"c", "d">>, <<Return(Binary("+", CallTo("f", <<>>), Id("c")))>>),
      Log(CallTo("over", <<N(1), N(2)>>)), Log(CallTo("f", <<>>))>>,
    \* A closure made under with outlives the statement; a recursive function
    \* has variables for every call.
    <<Var("f", None), Var("o", Object("x", N(1))),
      With(Id("o"), With(Object("y", N(2)),
        Do(Assign("=", Id("f"), Lambda(<<>>, Binary("+", Id("x"), Id("y"))))))),
      Do(Assign("=", Member(Id("o"), "x"), N(3))), Log(CallTo("f", <<>>))>>,
    <<Const("fs", Array(<<>>)),
      Function("down", <<"n">>, <<AddTo(Counter),
        If(Id("n"), Do(CallTo("down", <<Binary("-", Id("n"), N(1))>>)), Empty)>>),
      Do(CallTo("down", <<N(2)>>)), CallAll, CallAll>>,
    \* Constants: a write fails at once, through a closure as in place.
    <<Const("n", N(1)), Const("f", Counter), Log(CallTo("f", <<>>))>>,
    <<Const("n", N(1)), With(Object("m", N(0)), Do(Assign("=", Id("n"), N(2))))>>,
    <<Const("n", N(1)), Log(Assign("&&=", Id("n"), N(2)))>>,
    <<Const("n", N(1)), Log(Assign("||=", Id("n"), N(2))), Log(Id("n"))>>,
    <<ForOf(Decl("const", Id("n"), None), Array(<<1, 2>>), Do(Update("++", TRUE, Id("n"))))>>,
    \* Names before their declaration, in place, through a closure, in a
    \* parameter's initializer.
    <<Log(Id("v")), Var("v", N(1)), Log(Id("v")), Log(Id("n")), Let("n", N(1))>>,
    <<Function("f", <<>>, <<Return(Id("n"))>>), Do(CallTo("f", <<>>)), Let("n", N(1))>>,
    <<Let("f", Lambda(<<>>, Unary("typeof", Id("n")))), Log(CallTo("f", <<>>)), Let("n", N(1))>>,
    <<Let("n", Id("n"))>>, <<Do(Assign("=", Id("n"), N(1))), Let("n", N(2))>>,
    <<FunctionDecl("f", Idents(<<"a", "b">>), <<Id("b"), N(1)>>, 0, Block(<<>>)), Do(CallTo("f", <<>>))>>,
    <<ClassDecl("C", <<>>), Log(Id("C")), Log(Id("D")), ClassDecl("D", <<>>)>>,
    <<Let("n", N(1)), With(Object("m", Id("n")), Log(Id("k"))), Let("k", N(1))>>>>

-----------------------------------------------------------------------------
(* Functions: receivers, arguments, constructors.                          *)

\* Logs the type of the receiver and, of an object, its property a.
ShowThis == <<Log(Unary("typeof", This)),
              Log(OptionalChain(This, <<Segment("property", TRUE, Id("a"), <<>>)>>))>>
Showing(x) == Function(x, <<>>, ShowThis)

\* Every way to call a function that looks at its receiver.
ReceiverFamily ==
  LET o == ObjectExpr(<<Property("a", N(1)), Property("show", Id("f"))>>)
      calls == <<CallTo("f", <<>>), Call(Member(Id("o"), "show"), <<>>),
                 Call(Index(Id("o"), Logged(T("show"))), <<Spread(Array(<<1>>))>>),
                 Call(Sequence(<<N(0), Member(Id("o"), "show")>>), <<>>),
                 OptionalChain(Id("o"), <<Segment("property", TRUE, Id("show"), <<>>),
                                          Segment("call", FALSE, None, <<>>)>>),
                 OptionalChain(Member(Id("o"), "show"), <<Segment("call", TRUE, None, <<>>)>>),
                 Tagged(Member(Id("o"), "show"), Template(<<"a", "b">>, <<N(1)>>)),
                 New(Id("f"), <<>>), Call(Lambda(<<>>, CallTo("f", <<>>)), <<>>),
                 CallTo("apply", <<Id("f")>>)>>
  IN  Pairs(<<<<>>, Strict>>, calls, LAMBDA prologue, c :
        prologue \o <<Showing("f"), Function("apply", <<"g">>, <<Return(CallTo("g", <<>>))>>),
                      Var("o", o), Log(c)>>)
        \o Map(SelectSeq(calls, LAMBDA c : c.t = "call"), LAMBDA c :
             <<Showing("f"), Function("apply", <<"g">>, <<Return(CallTo("g", <<>>))>>),
               Var("o", o), With(Object("f", Id("f")), Log(c)),
               With(Id("o"), Log(CallTo("show", <<>>)))>>)

Method0(x, list) == Method(x, <<>>, Block(list))
Length(x) == Member(Id(x), "length")

FunctionPrograms ==
  <<\* arguments, with and without a parameter of that name.
    <<Function("f", <<"x">>, <<Log(Length("arguments")), Log(Index(Id("arguments"), N(1))),
                               Log(Unary("typeof", Member(Id("arguments"), "callee")))>>),
      Do(CallTo("f", <<N(1), N(2)>>))>>,
    <<Function("f", <<"arguments">>, <<Log(Id("arguments"))>>), Do(CallTo("f", <<N(1)>>))>>,
    Strict \o
      <<Function("f", <<"x">>,
          Map(<<Logged(Member(Id("arguments"), "callee")),
                Assign("=", Member(Id("arguments"), "callee"), N(1)),
                Logged(Unary("delete", Member(Id("arguments"), "callee")))>>,
              LAMBDA a : Try(Block(<<Do(a)>>), Id("e"), Block(<<Log(Id("e"))>>), None))
            \o <<Log(Length("arguments"))>>),
        Do(CallTo("f", <<N(1)>>))>>,
    <<Function("f", <<>>, <<Log(Call(Lambda(<<>>, Length("arguments")), <<N(1), N(2)>>))>>),
      Do(CallTo("f", <<N(1)>>))>>,
    \* Parameters: repeated, missing, rest, with initializers that see the others.
    <<Function("f", <<"x", "x">>, <<Log(Id("x"))>>), Do(CallTo("f", <<N(1), N(2)>>)),
      Do(CallTo("f", <<N(1)>>))>>,
    <<FunctionDecl("f", Idents(<<"a", "b", "c">>), <<None, Binary("+", Id("a"), N(1)), None>>, 3,
                   Block(<<Log(Id("a")), Log(Id("b")), Log(Length("c"))>>)),
      Do(CallTo("f", <<N(1)>>)), Do(CallTo("f", <<N(1), Lit(Undefined), N(3), N(4)>>)),
      Do(CallTo("f", <<Spread(Array(<<5, 6, 7>>))>>))>>,
    <<FunctionDecl("f", Idents(<<"a", "g">>), <<N(1), Lambda(<<>>, Id("a"))>>, 0,
                   Block(<<Do(Assign("=", Id("a"), N(2))), Log(CallTo("g", <<>>))>>)),
      Do(CallTo("f", <<>>))>>,
    <<Let("x", N(1)), FunctionDecl("f", Idents(<<"a">>), <<Id("x")>>, 0,
                                   Block(<<Let("x", N(2)), Log(Id("a")), Log(Id("x"))>>)),
      Do(CallTo("f", <<>>))>>,
    \* A function expression knows its name; declarations are there first.
    <<Let("f", FunctionExpr("g", Idents(<<"n">>), <<None>>, 0, Block(<<
        Return(Conditional(Id("n"), CallTo("g", <<Binary("-", Id("n"), N(1))>>), T("zero")))>>))),
      Log(CallTo("f", <<N(2)>>)), Log(Unary("typeof", Id("g")))>>,
    <<Log(CallTo("f", <<>>)), Function("f", <<>>, <<Return(CallTo("h", <<>>)),
                                                    Function("h", <<>>, <<Return(N(3))>>)>>)>>,
    <<Let("f", FunctionExpr("", <<>>, <<>>, 0, Block(<<Var("x", N(1)), Return(Id("x"))>>))),
      Log(CallTo("f", <<>>)), Function("e", <<>>, <<>>), Log(CallTo("e", <<>>))>>,
    \* Constructors and classes.
    <<Function("F", <<"a">>, <<Do(Assign("=", Member(This, "a"), Id("a")))>>),
      Do(Assign("=", Member(Member(Id("F"), "prototype"), "m"),
                FunctionExpr("", <<>>, <<>>, 0, Block(<<Return(Member(This, "a"))>>)))),
      Let("o", New(Id("F"), <<N(4)>>)), Log(Call(Member(Id("o"), "m"), <<>>)),
      Log(Binary("instanceof", Id("o"), Id("F"))),
      Log(Binary("===", Member(Id("o"), "constructor"), Id("F")))>>,
    <<Function("F", <<"r">>, <<Do(Assign("=", Member(This, "a"), N(1))), Return(Id("r"))>>),
      Log(Member(New(Id("F"), <<N(7)>>), "a")),
      Log(Member(New(Id("F"), <<Object("a", N(8))>>), "a")),
      Log(Member(New(Id("F"), <<Spread(ArrayExpr(<<N(7)>>))>>), "a"))>>,
    <<Let("n", N(0)),
      ClassDecl("C", <<Method("constructor", Idents(<<"a">>), Block(<<
                         Do(Assign("=", Member(This, "a"), Id("a"))), Do(Update("++", TRUE, Id("n")))>>)),
                       Method0("get", <<Return(Member(This, "a"))>>),
                       Method0("own", <<Return(New(Id("C"), <<Id("n")>>))>>)>>),
      Let("c", New(Id("C"), <<N(5)>>)), Log(Call(Member(Id("c"), "get"), <<>>)),
      Log(Call(Member(Call(Member(Id("c"), "own"), <<>>), "get"), <<>>)), Log(Id("n")),
      Log(Binary("instanceof", Id("c"), Id("C")))>>,
    <<ClassDecl("C", <<Method0("m", ShowThis)>>), Let("m", Member(New(Id("C"), <<>>), "m")),
      Do(CallTo("m", <<>>)), Do(Call(Member(Object("m", Id("m")), "m"), <<>>))>>,
    <<ClassDecl("C", <<>>), Do(CallTo("C", <<>>))>>,
    <<ClassDecl("C", <<Method0("m", <<>>)>>), Do(New(Member(New(Id("C"), <<>>), "m"), <<>>))>>,
    <<Do(New(Lambda(<<>>, N(1)), <<>>))>>, <<Do(New(Id("log"), <<>>))>>,
    <<Function("f", <<>>, <<Return(Lambda(<<>>, Member(This, "a")))>>),
      Let("o", ObjectExpr(<<Property("a", N(3)), Property("f", Id("f"))>>)),
      Log(Call(Call(Member(Id("o"), "f"), <<>>), <<>>))>>,
    <<Function("f", <<>>, <<Try(Block(<<Return(Logged(N(1)))>>), None, None,
                                Block(<<Say("finally")>>))>>), Log(CallTo("f", <<>>))>>>>

-----------------------------------------------------------------------------
(* Expressions: operators that skip or convert, literals, chains; failures *)
(* caught and not.                                                         *)

\* Each in a statement of its own, and inside a try statement.
Expressions ==
  LET o == ObjectExpr(<<Property("a", Object("b", N(1))), Property("n", Lit(Null))>>)
      Chain2(base, list) == OptionalChain(base, list)
      Dot(opt, x) == Segment("property", opt, Id(x), <<>>)
      At2(opt, k) == Segment("computed", opt, k, <<>>)
      Args2(opt) == Segment("call", opt, None, <<Logged(N(1))>>)
  IN  Map(<<"+", "-", "*", "<", ">", "<=", ">=", "==", "!=", "===", "!==", "in", "instanceof">>,
          LAMBDA op : Binary(op, Logged(T("k")), Id("K")))
        \o Map(<<"+", "-", "!", "typeof", "void", "delete">>, LAMBDA op : Unary(op, Logged(Id("K"))))
        \o FlattenSeq(Map(<<"&&", "||", "??">>, LAMBDA op :
             Map(<<N(0), N(1), Lit(Null)>>, LAMBDA v : Logical(op, v, Logged(T("right"))))))
        \o <<Binary("<", T("a"), T("b")), Binary(">=", T("a"), T("b")), Binary(">", T("b"), N(1)),
             Binary("<=", T("2"), Lit(Bool(TRUE))),
             Conditional(Lit(NaN), Logged(N(1)), Logged(N(2))), Sequence(<<Logged(N(1)), N(2)>>),
             Template(<<"a", "b", "">>, <<Logged(N(1)), Id("K")>>),
             Member(ObjectExpr(<<Computed(Id("K"), N(1)), Property("b", N(2)),
                                 Spread(o), Spread(Lit(Null)), Property("k", N(3))>>), "k"),
             Binary("in", T("a"), ObjectExpr(<<Spread(o)>>)),
             Member(ArrayExpr(<<None, N(1), Spread(Array(<<2, 3>>)), None>>), "length"),
             Index(ArrayExpr(<<None, Spread(Array(<<2, 3>>))>>), N(2)),
             Tagged(Id("log"), Template(<<"a", "b">>, <<Logged(N(1))>>)),
             Chain2(o, <<Dot(FALSE, "a"), Dot(TRUE, "b")>>),
             Chain2(o, <<Dot(FALSE, "n"), Dot(TRUE, "b"), At2(FALSE, Logged(N(1)))>>),
             Chain2(o, <<Dot(FALSE, "m"), Args2(TRUE)>>),
             Chain2(o, <<Dot(TRUE, "m"), Args2(FALSE)>>),
             Chain2(Member(o, "n"), <<At2(TRUE, Logged(N(1))), Args2(FALSE)>>),
             Chain2(Id("log"), <<Args2(TRUE)>>),
             Unary("delete", Chain2(o, <<Dot(TRUE, "a")>>)),
             Unary("delete", Chain2(Lit(Null), <<Dot(TRUE, "a"), At2(FALSE, Logged(N(1)))>>)),
             Unary("delete", Chain2(o, <<Dot(FALSE, "a"), At2(TRUE, Id("K"))>>)),
             Unary("delete", Index(o, Logged(T("a")))), Unary("delete", Member(Array(<<1>>), "length")),
             Unary("delete", Member(Lit(Null), "a")), Member(Lit(Undefined), "a"),
             Assign("=", Member(Lit(Null), "a"), Logged(N(1))), Call(Member(o, "z"), <<Logged(N(1))>>),
             Call(Member(Member(o, "n"), "z"), <<>>), New(N(1), <<Logged(N(2))>>),
             Id("nowhere"), CallTo("nowhere", <<Logged(N(1))>>),
             ArrayExpr(<<Logged(N(1)), Spread(N(2))>>),
             Assign("=", Member(T("s"), "a"), N(1)), Unary("typeof", Id("nowhere"))>>

ExpressionFamily ==
  FlattenSeq(Map(Expressions, LAMBDA x :
    <<<<Log(x), Do(T("end"))>>,
      Strict \o <<Try(Block(<<Log(x)>>), Id("e"), Block(<<Log(Id("e"))>>), Block(<<Say("end")>>))>>>>))

-----------------------------------------------------------------------------
(* Modules: an exporter that has run, or not yet, when its names are read, *)
(* one that goes on changing them, and functions that use them.            *)

\* Cells 1 and 2 hold what a module exports as n and f.
Exporting(list) == Module(list, NoImports, <<[name |-> "n", cell |-> 1], [name |-> "f", cell |-> 2]>>)
Importing(list) == Module(<<Import(<<"n", "f">>)>> \o list, ("n" :> 1) @@ ("f" :> 2), <<>>)
Exporter ==
  Exporting(<<Export(Let("n", N(1))),
              Export(Function("f", <<"x">>, <<Return(Assign("+=", Id("n"), Id("x")))>>)),
              Do(Update("++", TRUE, Id("n")))>>)

ModuleFamily ==
  LET uses == <<<<Log(Id("n")), Log(CallTo("f", <<N(3)>>)), Log(Id("n"))>>,
                <<Log(Lambda(<<>>, N(1))), Log(Call(Lambda(<<>>, Id("n")), <<>>)),
                  Log(Call(Lambda(<<"n">>, Id("n")), <<N(8)>>))>>,
                <<Do(Assign("=", Id("n"), N(4)))>>, <<Do(Update("++", TRUE, Id("n")))>>,
                <<Log(Unary("typeof", Id("n"))), Log(Unary("typeof", This))>>,
                <<Do(Assign("=", Id("loose"), N(1)))>>,
                <<Block(<<Let("n", N(7)), Log(Id("n"))>>), Log(Id("n"))>>,
                <<Let("o", Object("a", Id("n"))), Log(Member(Id("o"), "a")),
                  Log(Template(<<"", "">>, <<Id("n")>>))>>>>
  IN  FlattenSeq(Map(uses, LAMBDA list : <<<<Exporter, Importing(list)>>, <<Importing(list), Exporter>>,
                                          <<Exporter, Importing(list), Importing(<<Log(Id("n"))>>)>>>>))
        \o <<<<Script(<<Var("s", N(1)), Do(Assign("=", Id("g"), N(2)))>>),
              Exporting(<<Log(Id("g")), Const("n", N(1)), Function("f", <<>>, <<>>)>>),
              Script(<<Log(Id("g")), Log(Unary("typeof", Id("s")))>>)>>,
            <<Exporting(<<Throw(T("early")), Let("n", N(1)), Var("f", None)>>),
              Importing(<<Log(Id("n"))>>)>>,
            <<Module(<<Let("n", N(1))>>, NoImports, <<[name |-> "n", cell |-> 1],
                                                       [name |-> "n", cell |-> 3]>>),
              Module(<<Import(<<"n">>), Log(Id("n"))>>, "n" :> 3, <<>>)>>>>

-----------------------------------------------------------------------------
(* Declarations and statements that meet: what the language forbids, and   *)
(* its neighbours that it does not.                                        *)

Fn(params, list) == FunctionExpr("", Idents(params), Nones(params), 0, Block(list))
Never == Lit(Bool(FALSE))
Caught(p, list) == Try(Block(<<Throw(Array(<<1, 2>>))>>), p, Block(list), None)
Two == ArrayPattern(<<Id("x"), Id("x")>>)
One == Let("x", N(1))

Snippets ==
  <<\* Names declared twice.
    <<One, Let("x", N(2))>>, <<One, Var("x", None)>>, <<Var("x", None), Var("x", N(1))>>,
    <<Var("x", N(1)), Const("x", N(1))>>, <<One, Block(<<Var("x", N(2))>>)>>,
    <<Block(<<One>>), Var("x", N(2)), Log(Id("x"))>>, <<One, Block(<<Let("x", N(2))>>), Log(Id("x"))>>,
    <<One, ClassDecl("x", <<>>)>>, <<Decl("let", Two, Array(<<1, 2>>))>>,
    <<Decl("var", Two, Array(<<1, 2>>)), Log(Id("x"))>>,
    <<One, If(Id("x"), With(Object("a", N(1)), Var("x", None)), Empty)>>,
    <<One, Labeled("l", While(Never, Try(Block(<<>>), None, None, Block(<<Var("x", None)>>))))>>,
    \* In the heads of loops, in clauses and in cases.
    <<For(One, Never, None, Block(<<Var("x", None)>>))>>, <<For(One, Never, None, Block(<<One>>))>>,
    <<For(Decl("let", Two, Array(<<1, 2>>)), Never, None, Empty)>>,
    <<For(Decl("var", Id("x"), N(1)), Never, None, Block(<<Var("x", N(2))>>))>>,
    <<ForOf(Decl("let", Id("x"), None), Array(<<1>>), Block(<<Let("x", N(2)), Log(Id("x"))>>))>>,
    <<Caught(Id("x"), <<One>>)>>, <<Caught(Id("x"), <<Block(<<One>>), Log(Id("x"))>>)>>,
    <<Caught(Two, <<>>)>>, <<Caught(ArrayPattern(<<Id("x"), Id("y")>>), <<Log(Id("y"))>>)>>,
    <<Switch(N(1), <<Case(N(1), <<One>>), Case(N(2), <<Let("x", N(2))>>)>>)>>,
    <<Switch(N(2), <<Case(N(1), <<One>>), Case(None, <<Block(<<Let("x", N(2)), Log(Id("x"))>>)>>)>>)>>,
    <<Switch(N(1), <<Case(N(1), <<One>>), Case(N(2), <<Var("x", None)>>)>>)>>,
    \* Jumps.
    <<Break("")>>, <<Continue("")>>, <<Labeled("l", Block(<<Break("l")>>))>>,
    <<Labeled("l", Block(<<Continue("l")>>))>>, <<While(Never, Break("m"))>>,
    <<Labeled("l", Labeled("m", DoWhile(Continue("l"), Never)))>>, <<Switch(N(1), <<Case(N(1), <<Break("")>>)>>)>>,
    <<Switch(N(1), <<Case(N(1), <<Continue("")>>)>>)>>,
    <<Labeled("l", While(Never, Do(Lambda(<<>>, Block(<<Break("l")>>)))))>>,
    <<Return(N(1))>>, <<Do(Fn(<<>>, <<Return(N(1))>>))>>,
    \* Parameters.
    <<Do(Fn(<<"x", "x">>, <<>>))>>, <<Do(Lambda(<<"x", "x">>, Id("x")))>>,
    <<Do(FunctionExpr("", Idents(<<"x", "x">>), <<None, N(1)>>, 0, Block(<<>>)))>>,
    <<Do(FunctionExpr("", Idents(<<"x", "y">>), <<None, N(1)>>, 2, Block(Strict)))>>,
    <<Do(Fn(<<"x", "x">>, Strict))>>, <<Do(Fn(<<"x">>, Strict))>>, <<Do(Fn(<<"x">>, <<One>>))>>,
    <<Do(Fn(<<"x">>, <<Var("x", None), Block(<<One>>)>>))>>, <<Do(Fn(<<"eval">>, <<>>))>>,
    <<Do(Arrow(<<Two>>, <<None>>, 0, N(1)))>>,
    \* Strict code.
    <<With(Object("a", N(1)), Log(Id("a")))>>, <<Log(Unary("delete", Id("x")))>>,
    <<Do(Lambda(<<>>, Unary("delete", Id("x"))))>>, <<Do(Fn(<<>>, Strict \o <<With(N(1), Empty)>>))>>,
    <<ClassDecl("C", <<Method0("constructor", <<>>), Method0("constructor", <<>>)>>)>>,
    <<ClassDecl("C", <<Method0("m", <<With(N(1), Empty)>>)>>)>>,
    <<ClassDecl("C", <<Method0("m", <<One, Let("x", N(2))>>)>>)>>>>

\* Names that strict code keeps; a module's are not checked (see the README).
StrictSnippets ==
  <<<<Var("arguments", N(1))>>, <<Do(Assign("=", Id("eval"), N(1)))>>,
    <<Do(Lambda(<<>>, Update("++", TRUE, Id("arguments"))))>>,
    <<Do(FunctionExpr("eval", <<>>, <<>>, 0, Block(<<>>)))>>,
    <<Do(ObjectExpr(<<Property("a", Conditional(N(1), N(2), Assign("+=", Id("eval"), N(1))))>>))>>,
    <<Caught(Id("eval"), <<>>)>>>>

\* The same list in a body of each kind.
Inside(context, list) ==
  CASE context = "top"      -> list
    [] context = "block"    -> <<Block(list)>>
    [] context = "function" -> <<Function("f", <<>>, list), Do(CallTo("f", <<>>))>>
    [] context = "arrow"    -> <<Do(Call(Lambda(<<>>, Block(list)), <<>>))>>
    [] context = "case"     -> <<Switch(N(1), <<Case(N(1), list)>>)>>

DeclarationFamily ==
  Scripts(Triples(<<<<>>, Strict>>, <<"top", "block", "function", "arrow", "case">>,
            Snippets \o StrictSnippets, LAMBDA prologue, context, list : prologue \o Inside(context, list)))
    \o Map(Snippets, LAMBDA list : <<Script(<<Log(N(1))>>), Module(list, NoImports, <<>>)>>)

-----------------------------------------------------------------------------

AllPrograms ==
  Scripts(NameFamily \o PropertyFamily \o ExitFamily \o LoopFamily \o PatternFamily
            \o ClosurePrograms \o ReceiverFamily \o FunctionPrograms \o ExpressionFamily)
    \o ModuleFamily \o DeclarationFamily
MCGlobalNames == {"log", "K"}

=============================================================================
