------------------------------ MODULE Verifier ------------------------------
(***************************************************************************)
(* BytecodeVerifier::verify (src/src/bytecode/verifier.cpp): the static    *)
(* checks every chunk passes before a frame of it is made.  The worklist   *)
(* pass propagates one operand depth along every control-flow edge and     *)
(* refuses a chunk where two paths disagree; its verdict does not depend   *)
(* on the order of the worklist, and the pass is written in rounds that    *)
(* collect the set of (pc, depth) pairs.                                   *)
(***************************************************************************)
EXTENDS Bytecode

\* The operand count each instruction requires.
Required(i) ==
  CASE i.op \in {"pop", "set_local", "observe", "jump_if_false", "throw",
                 "yield", "get_property", "get_iterator",
                 "iterator_complete", "iterator_value"} -> 1
    [] i.op \in {"copy_object_rest", "iterator_next"}   -> 2
    [] i.op = "operate"                                 -> i.n
    [] i.op \in {"call", "construct"}                   -> i.n + 1
    [] i.op = "return"                                  -> 1
    [] OTHER                                            -> 0

\* The depth after the instruction when it started at depth d.
DepthAfter(i, d) ==
  CASE i.op \in {"push", "input", "get_local", "get_iterator"} -> d + 1
    [] i.op \in {"pop", "observe", "jump_if_false",
                 "copy_object_rest", "iterator_next"}          -> d - 1
    [] i.op = "operate"                                        -> d - i.n + 1
    [] i.op \in {"call", "construct"}                          -> d - i.n
    [] OTHER                                                   -> d

\* The control-flow successors; RETURN and THROW have none, and the targets
\* of handlers are entry points of their own.
Successors(i, pc) ==
  CASE i.op \in {"return", "throw"}             -> {}
    [] i.op \in {"jump", "break", "continue"}   -> {i.n}
    [] i.op = "jump_if_false"                   -> {i.n, pc + 1}
    [] OTHER                                    -> {pc + 1}

HandlerEntries(h) ==
  (IF h.catch_start # NoTarget THEN {<<h.catch_start, 1>>} ELSE {})
    \cup (IF h.finally_start # NoTarget THEN {<<h.finally_start, 0>>} ELSE {})

Entries(chunk) ==
  {<<1, 0>>} \cup UNION {HandlerEntries(chunk.handlers[k]) :
                           k \in DOMAIN chunk.handlers}

\* Where the instructions of the pairs pass control, and at which depth.
Flow(chunk, pairs) ==
  UNION {
    {<<t, DepthAfter(chunk.code[p[1]], p[2])>> :
        t \in Successors(chunk.code[p[1]], p[1])} :
    p \in {q \in pairs : q[1] \in DOMAIN chunk.code}}

\* Rounds of the worklist: each handles the pairs found by the one before.
Reached(chunk) ==
  LET round[k \in 0 .. Len(chunk.code)] ==
        IF k = 0 THEN [seen |-> Entries(chunk), work |-> Entries(chunk)]
        ELSE LET r == round[k - 1]
                 found == Flow(chunk, r.work) \ r.seen
             IN  [seen |-> r.seen \cup found, work |-> found]
  IN  round[Len(chunk.code)].seen

ValidHandler(h, size) ==
  /\ h.try_start \in 1 .. size /\ h.try_start < h.try_end
  /\ h.try_end <= size + 1
  /\ (h.catch_start = NoTarget) = (h.catch_end = NoTarget)
  /\ (h.finally_start = NoTarget) = (h.finally_end = NoTarget)
  /\ h.catch_start # NoTarget =>
       h.catch_start < h.catch_end /\ h.catch_end <= size + 1
  /\ h.finally_start # NoTarget =>
       h.finally_start < h.finally_end /\ h.finally_end <= size + 1
  /\ h.catch_start # NoTarget \/ h.finally_start # NoTarget

\* Their targets are checked whether or not the instruction is reachable.
Jumps == {"jump", "jump_if_false", "break", "continue"}

\* verify accepts the chunk.
verify(chunk) ==
  LET pairs == Reached(chunk)
      code == chunk.code
  IN  /\ code # <<>>
      /\ \A pc \in DOMAIN code : code[pc].op \in Jumps => code[pc].n \in DOMAIN code
      /\ \A k \in DOMAIN chunk.handlers :
            ValidHandler(chunk.handlers[k], Len(code))
      /\ \A pc \in DOMAIN code :
            code[pc].op = "end_finally" =>
              \E k \in DOMAIN chunk.handlers :
                 chunk.handlers[k].finally_start = code[pc].n
      /\ \A p \in pairs : /\ p[1] \in DOMAIN code
                          /\ p[2] >= Required(code[p[1]])
                          /\ code[p[1]].op = "return" => p[2] = 1
      /\ Cardinality({p[1] : p \in pairs}) = Cardinality(pairs)
      /\ \E p \in pairs : code[p[1]].op \in {"return", "throw"}

\* The depth the verifier computed for each reachable instruction.
Depths(chunk) ==
  LET pairs == Reached(chunk)
  IN  [pc \in {p[1] : p \in pairs} |-> (CHOOSE p \in pairs : p[1] = pc)[2]]

=============================================================================
