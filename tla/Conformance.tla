---------------------------- MODULE Conformance ----------------------------
(***************************************************************************)
(* What the engine promises of a program: it is refused exactly when the   *)
(* language says so, it does what Meaning says it means, and on the way    *)
(* the machine's own structures (operands, references, with environments,  *)
(* variables and upvalues) stay as the compiler laid them out.             *)
(***************************************************************************)
EXTENDS Engine

ES == INSTANCE Meaning

-----------------------------------------------------------------------------
(* Legal programs, as the language has them: the statements and            *)
(* expressions of a program, each with its surroundings, and what may not  *)
(* be among them.  A place p is a node with the strictness of its code,    *)
(* whether it is inside a function, and the labels and the loops a jump    *)
(* can name: brk and cont hold "" for an unlabelled one.                   *)

Place(n, strict, function, brk, cont) ==
  [n |-> n, strict |-> strict, function |-> function, brk |-> brk, cont |-> cont]

RECURSIVE Places(_)
PlacesOf(p, list) == UNION {Places([p EXCEPT !.n = list[i]]) : i \in DOMAIN list}

FunctionForms == {"function", "function_declaration", "arrow"}
BodyOfFunction(f) == IF f.body.t = "block" THEN f.body.body ELSE <<ExprStmt(f.body)>>
StrictFunction(f, strict) ==
  strict \/ (f.body.t = "block" /\ has_use_strict_directive(f.body.body))
Loops == {"while", "do_while", "for", "for_in", "for_of"}

\* The nodes directly inside a node.
Children(n) ==
  CASE n.t = "expression"  -> <<n.expression>>
    [] n.t \in {"block"}   -> n.body
    [] n.t \in {"return", "throw"} -> <<n.argument>>
    [] n.t = "declaration" ->
         FlattenSeq([i \in DOMAIN n.declarations |->
                      <<n.declarations[i].id, n.declarations[i].init>>])
    [] n.t = "if"          -> <<n.test, n.consequent, n.alternate>>
    [] n.t = "with"        -> <<n.object, n.body>>
    [] n.t \in {"while", "do_while"} -> <<n.test, n.body>>
    [] n.t = "for"         -> <<n.init, n.test, n.update, n.body>>
    [] n.t \in {"for_in", "for_of"} -> <<n.left, n.object, n.body>>
    [] n.t = "switch"      ->
         <<n.discriminant>> \o FlattenSeq([i \in DOMAIN n.cases |->
                                 <<n.cases[i].test>> \o n.cases[i].consequent])
    [] n.t = "try"         -> <<n.block, n.param, n.handler, n.finalizer>>
    [] n.t = "labeled"     -> <<n.body>>
    [] n.t = "export"      -> <<n.declaration>>
    [] n.t \in FunctionForms -> n.params \o n.defaults \o BodyOfFunction(n)
    [] OTHER               -> Subexpressions(n)

RECURSIVE LabelsOf(_)
LabelsOf(n) == IF n.t = "labeled" THEN {n.label} \cup LabelsOf(n.body) ELSE {}
RECURSIVE LabelledLoop(_)
LabelledLoop(n) == IF n.t = "labeled" THEN LabelledLoop(n.body) ELSE n.t \in Loops

Places(p) ==
  LET n == p.n
      names == LabelsOf(n)
      inner == CASE n.t \in FunctionForms ->
                      Place(n, StrictFunction(n, p.strict), TRUE, {}, {})
                 [] n.t = "labeled" ->
                      [p EXCEPT !.brk = @ \cup names,
                                !.cont = IF LabelledLoop(n) THEN @ \cup names ELSE @]
                 [] n.t \in Loops -> [p EXCEPT !.brk = @ \cup {""}, !.cont = @ \cup {""}]
                 [] n.t = "switch" -> [p EXCEPT !.brk = @ \cup {""}]
                 [] OTHER -> p
      methods == IF n.t # "class" THEN {}
                 ELSE UNION {PlacesOf(Place(n, TRUE, TRUE, {}, {}), n.methods[i].body.body) :
                               i \in DOMAIN n.methods}
  IN  {p} \cup PlacesOf(inner, Children(n)) \cup methods

ProgramPlaces(u) ==
  PlacesOf(Place(None, u.module \/ has_use_strict_directive(u.body), FALSE, {}, {}), u.body)

\* The names a list of statements declares lexically, in order.
LexicallyDeclared(list) ==
  LET own == ES!Declared(list)
  IN  FlattenSeq([i \in DOMAIN own |->
        CASE own[i].t = "declaration" /\ own[i].kind # "var" -> declared_names(own[i])
          [] own[i].t = "class"  -> <<own[i].id>>
          [] own[i].t = "import" -> own[i].names
          [] OTHER -> <<>>])
Meets(names, others) == ToSet(names) \cap ToSet(others) # {}
IllegalList(list) ==
  \/ Repeats(LexicallyDeclared(list))
  \/ Meets(LexicallyDeclared(list), var_names(ES!Declared(list)))

IllegalFunction(f, strict) ==
  LET body == BodyOfFunction(f)
      simple == simple_parameter_list(f)
      names == parameter_names(f)
      inner == StrictFunction(f, strict)
  IN  \/ f.body.t = "block" /\ has_use_strict_directive(body) /\ ~simple
      \/ Repeats(names) /\ (inner \/ ~simple \/ f.t = "arrow")
      \/ inner /\ ToSet(names) \cap {"eval", "arguments"} # {}
      \/ inner /\ f.t # "arrow" /\ f.id \in {"eval", "arguments"}
      \/ Meets(names, LexicallyDeclared(body))
      \/ IllegalList(body)

IllegalPlace(p) ==
  LET n == p.n
      Restricted(a) == p.strict /\ a.t = "identifier" /\ a.name \in {"eval", "arguments"}
  IN  CASE n.t = "with"    -> p.strict
        [] n.t = "unary"   -> p.strict /\ n.op = "delete" /\ n.argument.t = "identifier"
        [] n.t = "update"  -> Restricted(n.argument)
        [] n.t = "assignment" -> Restricted(n.left)
        [] n.t = "return"  -> ~p.function
        [] n.t = "break"   -> n.label \notin p.brk
        [] n.t = "continue" -> n.label \notin p.cont
        [] n.t = "block"   -> IllegalList(n.body)
        [] n.t = "switch"  ->
             IllegalList(FlattenSeq([i \in DOMAIN n.cases |-> n.cases[i].consequent]))
        [] n.t = "declaration" ->
             p.strict /\ ToSet(declared_names(n)) \cap {"eval", "arguments"} # {}
        [] n.t = "for"     ->
             LET head == LexicallyDeclared(<<n.init>>)
             IN  Repeats(head) \/ Meets(head, collect_var_names(n.body))
        [] n.t = "try"     ->
             /\ Given(n.handler)
             /\ \/ Repeats(bound_names(n.param))
                \/ p.strict /\ ToSet(bound_names(n.param)) \cap {"eval", "arguments"} # {}
                \/ Meets(bound_names(n.param), LexicallyDeclared(n.handler.body))
        [] n.t = "class"   ->
             \/ Cardinality({i \in DOMAIN n.methods : n.methods[i].id = "constructor"}) > 1
             \/ \E i \in DOMAIN n.methods : IllegalList(n.methods[i].body.body)
        [] n.t \in FunctionForms -> IllegalFunction(n, p.strict)
        [] OTHER -> FALSE

IllegalUnit(u) ==
  IllegalList(u.body) \/ \E p \in ProgramPlaces(u) : IllegalPlace(p)
Illegal(units) == \E i \in DOMAIN units : IllegalUnit(units[i])

-----------------------------------------------------------------------------
(* Properties.                                                             *)

Started == phase = "compiled"
HasEnded ==
  /\ unit > 0 /\ result # Running
  /\ result.kind = "normal" => unit = Len(Units)
Refused == phase = "refused"

OpsOf(m) == chunks[Frame(m).chunk]

\* What a state of the engine is made of: the frames, their variables and
\* references, and the operands above the base of each frame.
TypeOK ==
  /\ phase \in {"source", "valid", "refused", "compiled"}
  /\ unit \in 0 .. Len(Units) /\ Len(mains) <= Len(Units)
  /\ result.kind \in {"running", "normal", "throw", "error"}
  /\ \A d \in DOMAIN frames :
       LET f == frames[d]
           c == chunks[f.chunk]
       IN  /\ f.pc \in 1 .. Len(c.code) + 1 /\ f.base \in 0 .. Len(stack)
           /\ DOMAIN f.locals = DOMAIN c.states /\ DOMAIN f.refs = 1 .. c.refs
           /\ f.env \in 0 .. Len(environments)
           /\ Len(f.ups) = Len(c.upvalues)
  /\ \A u \in DOMAIN upvalues : upvalues[u].frame \in 0 .. Len(frames)
  /\ \A cell \in DOMAIN cells : cells[cell] \in DOMAIN upvalues

\* A program is refused exactly when the language forbids it: the early
\* errors, the declarations of the scopes and the compiler's own checks
\* together miss nothing, and none of them refuses what the others, knowing
\* more of the program, would allow (static_semantics.cpp, scope.cpp,
\* compiler.cpp).  The layers are known to disagree on some shapes; Programs is
\* to leave them out (README, section 6).
RefusedWhenIllegal ==
  /\ Started => ~Illegal(Units)
  /\ Refused => Illegal(Units)

\* Objects are compared by their type only: their identities differ.
SameValue(a, b) == a.type = b.type /\ (IsObject(a) \/ a = b)
SameLog(a, b) == Len(a) = Len(b) /\ \A i \in DOMAIN a : SameValue(a[i], b[i])

\* A step that ends a program leaves in the host's log what the program means
\* to give it, in that order, and ends with the value or the exception it
\* means: names, references and keys are evaluated when and as often as the
\* source says, whatever storage the compiler chose for them.  The engine's own
\* reference and type errors count as the exceptions of that name.  Programs is to
\* leave out the shapes whose code is known to mean something else (README,
\* section 6).
MeansTheSame ==
  [][HasEnded' =>
       LET o == ES!Outcome(InitialWorld, Units)
       IN  /\ SameLog(world'.log, o.w.log)
           /\ o.k = IF result'.kind = "normal" THEN "normal" ELSE "throw"
           /\ SameValue(result'.v, o.v)]_vars

\* Accepted code never makes the engine fail for a reason that is not an error
\* of the program: a wrong slot or reference, an operand that is not there, a
\* variable of a loop's head initialized twice.  A block with declarations that
\* one frame enters again does fail in this way, and so does an import read two
\* functions down; Programs is to leave them out (README, section 6).
NoInternalFailure == result.kind = "error" => result.v.s \in {"ReferenceError", "TypeError"}

\* The frame about to run the first instruction of a statement.
AtStatement ==
  result = Running /\ frames # <<>> /\ Frame(Now).pc \in OpsOf(Now).starts

\* A statement starts with no operand of its frame left and no reference
\* resolved, however the statement before it was left (by an exception, a
\* jump or a skipped assignment): references are in slots that the next run
\* of the same code finds free.
StatementsStartClean ==
  AtStatement =>
    /\ Len(stack) = Frame(Now).base
    /\ \A s \in DOMAIN Frame(Now).refs : ~Live(Frame(Now).refs[s])

\* Every frame is in as many with environments as the instruction it is about
\* to run is inside with statements of its chunk, after calls, exceptions and
\* jumps alike; the chain ends in the closure's environment.
RECURSIVE OutOf(_, _)
OutOf(e, k) == IF k = 0 THEN e ELSE OutOf(environments[e].outer, k - 1)
WithEnvironmentMatches ==
  result = Running /\ frames # <<>> =>
    LET at == PopRegions(Now)
        f == Frame(at)
    IN  /\ Len(f.regions) = OpsOf(at).code[f.pc].with
        /\ \A d \in DOMAIN frames :
             LET g == frames[d]
             IN  d > 1 => OutOf(g.env, Len(g.regions)) = world.h[g.locals[1].v.n].fn.env

\* An open upvalue names a variable of a frame that is running, and that
\* frame's slot knows it: two closures over one variable share it, and no
\* closure reads a frame that is gone.
UpvaluesAreShared ==
  /\ \A u \in DOMAIN upvalues : upvalues[u].frame # 0 =>
       /\ upvalues[u].frame \in DOMAIN frames
       /\ frames[upvalues[u].frame].captured[upvalues[u].slot] = u
  /\ \A d \in DOMAIN frames : \A s \in DOMAIN frames[d].captured :
       LET u == frames[d].captured[s]
       IN  u # 0 => upvalues[u].frame = d /\ upvalues[u].slot = s

\* A constant that a closure captured keeps its value from the moment it is
\* initialized, while its frame runs and when it is closed.
ConstantsStay ==
  [][\A u \in DOMAIN upvalues :
       Variable(Now, u).on /\ Variable(Now, u).imm =>
         (Variable(Now, u))' = Variable(Now, u)]_vars

\* Every program of the instances ends or is refused: no loop, handler or
\* finalizer the compiler lays out runs for ever.
Terminates == <>(HasEnded \/ Refused)

=============================================================================
