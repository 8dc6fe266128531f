-------------------------- MODULE ExecutionProofs --------------------------
(***************************************************************************)
(* The execution core stays well typed and properly nested whatever        *)
(* program runs: TypeOK, StackDiscipline, BoundaryRespected and            *)
(* FailureBypassesHandlers for every value of the constants.               *)
(***************************************************************************)
EXTENDS StackProofs, FiniteSetTheorems

-----------------------------------------------------------------------------
(* The inductive invariant.                                                *)

\* A frame of a generator function is the first frame of an activation that
\* resumed a generator.
GeneratorFrames(fs, ls) ==
  \A i \in 1 .. Len(fs) :
    prog[fs[i].chunk].generator =>
      \E k \in 1 .. Len(ls) : ls[k].boundary = i - 1

\* What a generator object saved is a frame of a generator function.
GeneratorsSaved ==
  \A g \in GenIds :
    gens[g].state \in {"suspended_start", "suspended_yield"} =>
      prog[gens[g].chunk].generator

ExecInv ==
  /\ TypeOK
  /\ prog \in Programs
  /\ StackDiscipline
  /\ ~Ended /\ ~Failed => GeneratorFrames(frames, loops)
  /\ GeneratorsSaved

-----------------------------------------------------------------------------
(* The running frame.                                                      *)

\* The first m elements of s and t are the same.
Agree(s, t, m) ==
  m <= Len(s) /\ m <= Len(t) /\ \A i \in 1 .. m : s[i] = t[i]

LEMMA AgreeSubSeq ==
  ASSUME NEW S, NEW s \in Seq(S), NEW t \in Seq(S), NEW m \in Nat,
         Agree(s, t, m)
  PROVE  SubSeq(s, 1, m) = SubSeq(t, 1, m)
<1>1. Len(s) \in Nat /\ Len(t) \in Nat
  OBVIOUS
<1>2. \A i \in 1 .. m : i \in 1 .. Len(s) /\ i \in 1 .. Len(t)
  BY <1>1 DEF Agree
<1>3. \A i \in 1 .. m : s[i] \in S /\ t[i] \in S
  BY <1>2
<1>4. /\ SubSeq(s, 1, m) \in Seq(S) /\ SubSeq(t, 1, m) \in Seq(S)
      /\ Len(SubSeq(s, 1, m)) = m /\ Len(SubSeq(t, 1, m)) = m
      /\ \A i \in 1 .. m : SubSeq(s, 1, m)[i] = s[i]
      /\ \A i \in 1 .. m : SubSeq(t, 1, m)[i] = t[i]
  BY <1>3, SubSeqProperties
<1>5. \A i \in 1 .. m : SubSeq(s, 1, m)[i] = SubSeq(t, 1, m)[i]
  BY <1>4 DEF Agree
<1> QED
  BY <1>4, <1>5, SeqEqual

\* Cutting the operand stack back.
LEMMA Prefix ==
  ASSUME NEW S, NEW s \in Seq(S), NEW m \in Nat, m <= Len(s)
  PROVE  /\ SubSeq(s, 1, m) \in Seq(S)
         /\ Len(SubSeq(s, 1, m)) = m
         /\ \A i \in 1 .. m : SubSeq(s, 1, m)[i] = s[i]
<1>1. Len(s) \in Nat
  OBVIOUS
<1>2. \A i \in 1 .. m : s[i] \in S
  BY <1>1
<1> QED
  BY <1>2, SubSeqProperties

\* The innermost activation and the frame it runs.
LEMMA RunningFrame ==
  ASSUME ExecInv, Running
  PROVE  /\ Len(frames) \in Nat /\ Len(frames) \in 1 .. Len(frames)
         /\ Len(loops) \in Nat /\ Len(loops) \in 1 .. Len(loops)
         /\ Len(stack) \in Nat
         /\ Top \in Frame /\ Top.base \in Nat /\ Top.pc \in Nat
         /\ loops[Len(loops)] \in Loop
         /\ Boundary \in Nat /\ Boundary < Len(frames)
         /\ loops[Len(loops)].opbase \in Nat
         /\ loops[Len(loops)].opbase <= Top.base
         /\ Top.base <= Len(stack)
         /\ Nests(frames, stack, loops, TRUE)
         /\ GeneratorFrames(frames, loops)
<1>1. /\ frames \in Seq(Frame) /\ stack \in Seq(Value) /\ loops \in Seq(Loop)
      /\ frames # <<>> /\ loops # <<>> /\ result.type = "none"
  BY DEF ExecInv, TypeOK, Running
<1>2. /\ Len(frames) \in Nat /\ Len(frames) \in 1 .. Len(frames)
      /\ Len(loops) \in Nat /\ Len(loops) \in 1 .. Len(loops)
      /\ Len(stack) \in Nat
  BY <1>1
<1>3. Top \in Frame /\ loops[Len(loops)] \in Loop
  BY <1>1, <1>2 DEF Top
<1>4. /\ Top.base \in Nat /\ Top.pc \in Nat /\ Boundary \in Nat
      /\ loops[Len(loops)].opbase \in Nat
  BY <1>3 DEF Frame, Loop, Boundary
<1>5. Nests(frames, stack, loops, TRUE) /\ GeneratorFrames(frames, loops)
  BY <1>1 DEF ExecInv, StackDiscipline, Ended, Failed
<1>6. Boundary < Len(frames) /\ Top.base <= Len(stack)
  BY <1>2, <1>5 DEF Nests, Boundary, Top
<1>7. Boundary + 1 \in 1 .. Len(frames)
  BY <1>2, <1>4, <1>6
<1>8. /\ loops[Len(loops)].opbase <= frames[Boundary + 1].base
      /\ frames[Boundary + 1].base <= Top.base
  BY <1>2, <1>4, <1>5, <1>6, <1>7 DEF Nests, Boundary, Top
<1>9. frames[Boundary + 1].base \in Nat
  BY <1>1, <1>7, BasesTyped
<1>10. loops[Len(loops)].opbase <= Top.base
  BY <1>4, <1>8, <1>9
<1> QED
  BY <1>2, <1>3, <1>4, <1>5, <1>6, <1>10

\* A replacement of the running frame that keeps its chunk and its base.
SameFrame(f) == f \in Frame /\ f.base = Top.base /\ f.chunk = Top.chunk

LEMMA SteppedIsSame ==
  ASSUME Top \in Frame
  PROVE  /\ SameFrame(Stepped)
         /\ \A pc \in Nat : SameFrame([Stepped EXCEPT !.pc = pc])
         /\ \A p \in Seq(PendingFinally) :
              SameFrame([Stepped EXCEPT !.pending = p])
         /\ \A v \in Value : \A n :
              SameFrame([Stepped EXCEPT !.locals[n] = v])
<1>1. SameFrame(Stepped)
  <2>1. Top.pc \in Nat /\ Top.pc + 1 \in Nat
    BY DEF Frame
  <2>2. [Top EXCEPT !.last = Top.pc] \in Frame
    BY <2>1 DEF Frame
  <2> QED
    BY <2>1, <2>2 DEF SameFrame, Stepped, Frame
<1> HIDE DEF Stepped
<1>2. Stepped \in Frame /\ Stepped.base = Top.base /\ Stepped.chunk = Top.chunk
  BY <1>1 DEF SameFrame
<1>3. \A pc \in Nat : SameFrame([Stepped EXCEPT !.pc = pc])
  BY <1>2 DEF SameFrame, Frame
<1>4. \A p \in Seq(PendingFinally) : SameFrame([Stepped EXCEPT !.pending = p])
  BY <1>2 DEF SameFrame, Frame
<1>5. ASSUME NEW v \in Value, NEW n
      PROVE  SameFrame([Stepped EXCEPT !.locals[n] = v])
  <2>1. [Stepped.locals EXCEPT ![n] = v] \in [Slots -> Value]
    BY <1>2 DEF Frame
  <2> QED
    BY <1>2, <2>1 DEF SameFrame, Frame
<1> QED
  BY <1>1, <1>3, <1>4, <1>5

\* Replacing the running frame.
LEMMA ReplaceTop ==
  ASSUME ExecInv, Running, NEW f, SameFrame(f)
  PROVE  /\ WithTop(f) \in Seq(Frame) /\ Len(WithTop(f)) = Len(frames)
         /\ WithTop(f)[Len(frames)] = f
         /\ \A i \in 1 .. Len(frames) - 1 : WithTop(f)[i] = frames[i]
         /\ \A i \in 1 .. Len(frames) : /\ WithTop(f)[i].base = frames[i].base
                                        /\ WithTop(f)[i].chunk = frames[i].chunk
         /\ \A tt \in Seq(Value) :
              Top.base <= Len(tt) => Nests(WithTop(f), tt, loops, TRUE)
<1>1. /\ frames \in Seq(Frame) /\ stack \in Seq(Value) /\ loops \in Seq(Loop)
      /\ loops # <<>>
  BY DEF ExecInv, TypeOK, Running
<1>2. f \in Frame /\ f.base = Top.base /\ f.chunk = Top.chunk
  BY DEF SameFrame
<1>3. /\ WithTop(f) \in Seq(Frame) /\ Len(WithTop(f)) = Len(frames)
      /\ \A i \in 1 .. Len(frames) :
           WithTop(f)[i] = IF i = Len(frames) THEN f ELSE frames[i]
  BY <1>1, <1>2, RunningFrame, ExceptSeq DEF WithTop
<1>4. /\ WithTop(f)[Len(frames)] = f
      /\ \A i \in 1 .. Len(frames) - 1 : WithTop(f)[i] = frames[i]
  BY <1>3, RunningFrame
<1>5. \A i \in 1 .. Len(frames) : /\ WithTop(f)[i].base = frames[i].base
                                  /\ WithTop(f)[i].chunk = frames[i].chunk
  BY <1>2, <1>3 DEF Top
<1> HIDE DEF WithTop
<1>6. ASSUME NEW tt \in Seq(Value), Top.base <= Len(tt)
      PROVE  Nests(WithTop(f), tt, loops, TRUE)
  <2>1. WithTop(f)[Len(WithTop(f))].base <= Len(tt)
    BY <1>2, <1>3, <1>4, <1>6
  <2>2. loops[Len(loops)].boundary < Len(WithTop(f))
    BY <1>3, RunningFrame DEF Boundary
  <2>3. Len(WithTop(f)) <= Len(frames)
    BY <1>3, RunningFrame
  <2>4. \A i \in 1 .. Len(WithTop(f)) : WithTop(f)[i].base = frames[i].base
    BY <1>3, <1>5
  <2>5. Nests(frames, stack, loops, TRUE)
    BY RunningFrame
  <2> QED
    BY <1>1, <1>3, <2>1, <2>2, <2>3, <2>4, <2>5, NestsTruncated
<1> QED
  BY <1>3, <1>4, <1>5, <1>6

-----------------------------------------------------------------------------
(* A step of the innermost activation.                                     *)

\* From frames fs, operands st and activations ls the innermost activation
\* gets to gs and tt: still nested, nothing below its boundary touched, no
\* frame replaced by one of another function.
Step(fs, st, ls, gs, tt, running) ==
  /\ gs \in Seq(Frame) /\ tt \in Seq(Value)
  /\ Nests(gs, tt, ls, running)
  /\ Len(gs) <= Len(fs)
  /\ \A i \in 1 .. Len(gs) : gs[i].chunk = fs[i].chunk
  /\ Agree(gs, fs, ls[Len(ls)].boundary)
  /\ Agree(tt, st, ls[Len(ls)].opbase)

\* Some frame of the activation goes on, those above it are gone.
LEMMA Unwound ==
  ASSUME NEW fs \in Seq(Frame), NEW gs \in Seq(Frame),
         NEW st \in Seq(Value), NEW tt \in Seq(Value),
         NEW ls \in Seq(Loop), ls # <<>>,
         Nests(fs, st, ls, TRUE),
         Len(gs) <= Len(fs), ls[Len(ls)].boundary < Len(gs),
         \A i \in 1 .. Len(gs) - 1 : gs[i] = fs[i],
         gs[Len(gs)].base = fs[Len(gs)].base,
         gs[Len(gs)].chunk = fs[Len(gs)].chunk,
         Agree(tt, st, fs[Len(gs)].base)
  PROVE  Step(fs, st, ls, gs, tt, TRUE)
<1> DEFINE b == ls[Len(ls)].boundary
           ob == ls[Len(ls)].opbase
           m == Len(gs)
<1>1. /\ Len(fs) \in Nat /\ m \in Nat /\ Len(ls) \in 1 .. Len(ls)
      /\ Len(st) \in Nat /\ Len(tt) \in Nat
  OBVIOUS
<1>2. b \in Nat /\ ob \in Nat
  BY <1>1, LoopsTyped
<1>3. m \in 1 .. m /\ m \in 1 .. Len(fs) /\ b + 1 \in 1 .. Len(fs)
  BY <1>1, <1>2
<1>4. /\ fs[m].base \in Nat /\ fs[b + 1].base \in Nat
      /\ ob <= fs[b + 1].base /\ fs[b + 1].base <= fs[m].base
  BY <1>1, <1>2, <1>3, BasesTyped, SMTT(60) DEF Nests
<1>5. ob <= fs[m].base
  BY <1>2, <1>4, SMTT(60)
<1>6. \A i \in 1 .. m : i = m \/ i \in 1 .. m - 1
  BY <1>1
<1>7. \A i \in 1 .. m : gs[i].base = fs[i].base /\ gs[i].chunk = fs[i].chunk
  BY <1>6
<1>8. fs[m].base <= Len(tt)
  BY DEF Agree
<1>9. Nests(gs, tt, ls, TRUE)
  BY <1>7, <1>8, NestsTruncated
<1>10. Agree(gs, fs, b)
  <2>1. \A i \in 1 .. b : i \in 1 .. m - 1
    BY <1>1, <1>2
  <2>2. b <= Len(gs) /\ b <= Len(fs)
    BY <1>1, <1>2
  <2> QED
    BY <2>1, <2>2 DEF Agree
<1>11. Agree(tt, st, ob)
  <2>1. \A i \in 1 .. ob : i \in 1 .. fs[m].base
    BY <1>2, <1>4, <1>5
  <2>2. ob <= Len(tt) /\ ob <= Len(st)
    BY <1>1, <1>2, <1>4, <1>5, SMTT(60) DEF Agree
  <2> QED
    BY <2>1, <2>2 DEF Agree
<1> QED
  BY <1>7, <1>9, <1>10, <1>11 DEF Step

\* The activation is left.
LEMMA Left ==
  ASSUME NEW fs \in Seq(Frame), NEW st \in Seq(Value),
         NEW ls \in Seq(Loop), ls # <<>>,
         Nests(fs, st, ls, TRUE)
  PROVE  LET b == ls[Len(ls)].boundary
         IN  Step(fs, st, ls, SubSeq(fs, 1, b),
                  SubSeq(st, 1, fs[b + 1].base), FALSE)
<1> DEFINE b == ls[Len(ls)].boundary
           ob == ls[Len(ls)].opbase
           gs == SubSeq(fs, 1, b)
           top == fs[b + 1].base
           tt == SubSeq(st, 1, top)
<1>1. /\ Len(fs) \in Nat /\ Len(ls) \in 1 .. Len(ls) /\ Len(st) \in Nat
  OBVIOUS
<1>2. b \in Nat /\ ob \in Nat
  BY <1>1, LoopsTyped
<1>3. b < Len(fs)
  BY DEF Nests
<1>4. b + 1 \in 1 .. Len(fs)
  BY <1>1, <1>2, <1>3
<1>5. top \in Nat
  BY <1>4, BasesTyped
<1>6. top <= Len(st) /\ ob <= top
  BY <1>1, <1>3, <1>4 DEF Nests
<1>7. gs \in Seq(Frame) /\ Len(gs) = b /\ \A i \in 1 .. b : gs[i] = fs[i]
  BY <1>1, <1>2, <1>3, Prefix
<1>8. tt \in Seq(Value) /\ Len(tt) = top /\ \A i \in 1 .. top : tt[i] = st[i]
  BY <1>1, <1>5, <1>6, Prefix
<1> HIDE DEF gs, tt
<1>9. Nests(gs, tt, ls, FALSE)
  BY <1>7, <1>8, NestsLeft
<1>10. Agree(gs, fs, b)
  BY <1>1, <1>2, <1>3, <1>7 DEF Agree
<1>11. Agree(tt, st, ob)
  <2>1. \A i \in 1 .. ob : i \in 1 .. top
    BY <1>2, <1>5, <1>6
  <2>2. ob <= Len(tt) /\ ob <= Len(st)
    BY <1>1, <1>2, <1>5, <1>6, <1>8
  <2> QED
    BY <1>8, <2>1, <2>2 DEF Agree
<1>12. Len(gs) <= Len(fs)
  BY <1>1, <1>2, <1>3, <1>7
<1>13. \A i \in 1 .. Len(gs) : gs[i].chunk = fs[i].chunk
  BY <1>7
<1>14. Step(fs, st, ls, gs, tt, FALSE)
  BY <1>7, <1>8, <1>9, <1>10, <1>11, <1>12, <1>13 DEF Step
<1> QED
  BY <1>14 DEF gs, tt

-----------------------------------------------------------------------------
(* propagate_completion.                                                   *)

LEMMA HandlersTyped ==
  ASSUME prog \in Programs, NEW f \in Frame
  PROVE  /\ Chunk(f).handlers \in Seq(ExceptionHandler)
         /\ \A k \in DOMAIN Chunk(f).handlers : Span(Chunk(f).handlers[k]) \in Nat
<1>1. f.chunk \in Names
  BY DEF Frame
<1> QED
  BY <1>1, ProgramsWellFormed DEF Chunk, WellFormed

LEMMA DiscardedTyped ==
  ASSUME NEW f \in Frame, NEW pc
  PROVE  /\ Discarded(f, pc) \in Frame
         /\ Discarded(f, pc).base = f.base
         /\ Discarded(f, pc).chunk = f.chunk
<1> DEFINE p == discard_overridden(Chunk(f).handlers, f.pending, pc)
<1>1. f.pending \in Seq(PendingFinally)
  BY DEF Frame
<1>2. PICK m \in 0 .. Len(f.pending) : p = SubSeq(f.pending, 1, m)
  BY <1>1, DiscardKeepsPrefix
<1>3. m \in Nat /\ m <= Len(f.pending)
  BY <1>1, <1>2
<1>4. p \in Seq(PendingFinally)
  BY <1>1, <1>2, <1>3, Prefix
<1> HIDE DEF p
<1>5. Discarded(f, pc) = [f EXCEPT !.pending = p]
  BY DEF Discarded, p
<1> QED
  BY <1>4, <1>5 DEF Frame

LEMMA FinalizingTyped ==
  ASSUME NEW f \in Frame, NEW h \in ExceptionHandler, NEW c \in Completion
  PROVE  /\ Finalizing(f, h, c) \in Frame
         /\ Finalizing(f, h, c).base = f.base
         /\ Finalizing(f, h, c).chunk = f.chunk
<1> DEFINE e == [completion |-> c, finally_start |-> h.finally_start]
           p == Append(f.pending, e)
<1>1. h.finally_start \in Nat
  BY DEF ExceptionHandler
<1>2. e \in PendingFinally
  BY <1>1 DEF PendingFinally
<1>3. f.pending \in Seq(PendingFinally)
  BY DEF Frame
<1>4. p \in Seq(PendingFinally)
  BY <1>2, <1>3, AppendProperties
<1>5. [f EXCEPT !.pc = h.finally_start] \in Frame
  BY <1>1 DEF Frame
<1> HIDE DEF p
<1>6. Finalizing(f, h, c) = [f EXCEPT !.pc = h.finally_start, !.pending = p]
  BY DEF Finalizing, p
<1> QED
  BY <1>1, <1>4, <1>6 DEF Frame

\* Frame i of the activation is entered at a handler, with mid on its operand
\* stack.
LEMMA HandlerEntered ==
  ASSUME NEW fs \in Seq(Frame), NEW st \in Seq(Value),
         NEW ls \in Seq(Loop), ls # <<>>,
         Nests(fs, st, ls, TRUE),
         NEW i \in ls[Len(ls)].boundary + 1 .. Len(fs),
         NEW f \in Frame, f.base = fs[i].base, f.chunk = fs[i].chunk,
         NEW mid \in Seq(Value)
  PROVE  Step(fs, st, ls, Append(SubSeq(fs, 1, i - 1), f),
              SubSeq(st, 1, f.base) \o mid, TRUE)
<1> DEFINE pre == SubSeq(fs, 1, i - 1)
           gs == Append(pre, f)
           cut == SubSeq(st, 1, f.base)
           tt == cut \o mid
<1>1. /\ Len(fs) \in Nat /\ Len(st) \in Nat /\ Len(mid) \in Nat
      /\ Len(ls) \in 1 .. Len(ls)
  OBVIOUS
<1>2. ls[Len(ls)].boundary \in Nat
  BY <1>1, LoopsTyped
<1>3. i \in 1 .. Len(fs) /\ i \in Nat /\ i - 1 \in Nat /\ i - 1 <= Len(fs)
  BY <1>1, <1>2
<1>4. f.base \in Nat /\ f.base <= Len(st)
  BY <1>3, BasesTyped DEF Nests
<1>5. /\ pre \in Seq(Frame) /\ Len(pre) = i - 1
      /\ \A k \in 1 .. i - 1 : pre[k] = fs[k]
  BY <1>3, Prefix
<1>6. /\ cut \in Seq(Value) /\ Len(cut) = f.base
      /\ \A k \in 1 .. f.base : cut[k] = st[k]
  BY <1>4, Prefix
<1> HIDE DEF pre, cut
<1>7. /\ gs \in Seq(Frame) /\ Len(gs) = i - 1 + 1 /\ gs[i - 1 + 1] = f
      /\ \A k \in 1 .. i - 1 : gs[k] = pre[k]
  BY <1>5, AppendProperties
<1>8. /\ Len(gs) = i /\ gs[i] = f /\ \A k \in 1 .. i - 1 : gs[k] = fs[k]
  BY <1>3, <1>5, <1>7
<1>9. /\ tt \in Seq(Value) /\ Len(tt) = f.base + Len(mid)
      /\ \A k \in 1 .. f.base + Len(mid) :
           tt[k] = IF k <= f.base THEN cut[k] ELSE mid[k - f.base]
  <2>1. /\ tt \in Seq(Value) /\ Len(tt) = Len(cut) + Len(mid)
        /\ \A k \in 1 .. Len(cut) + Len(mid) :
             tt[k] = IF k <= Len(cut) THEN cut[k] ELSE mid[k - Len(cut)]
    BY <1>6, ConcatProperties
  <2> HIDE DEF tt
  <2> QED
    BY <1>6, <2>1
<1> HIDE DEF gs, tt
<1>10. Agree(tt, st, fs[i].base)
  <2>1. f.base <= Len(tt)
    BY <1>1, <1>4, <1>9
  <2>2. ASSUME NEW k \in 1 .. f.base PROVE tt[k] = st[k]
    <3>1. k \in 1 .. f.base + Len(mid) /\ k <= f.base
      BY <1>1, <1>4
    <3>2. tt[k] = cut[k]
      BY <1>9, <3>1
    <3> QED
      BY <1>6, <3>2
  <2> QED
    BY <1>4, <2>1, <2>2 DEF Agree
<1>11. Len(gs) <= Len(fs) /\ ls[Len(ls)].boundary < Len(gs)
  BY <1>1, <1>2, <1>8
<1>12. Step(fs, st, ls, gs, tt, TRUE)
  BY <1>7, <1>8, <1>9, <1>10, <1>11, Unwound
<1> QED
  BY <1>12 DEF gs, tt, pre, cut

\* What a step of the innermost of the activations ls leaves behind.
Routed(fs, ls) ==
  /\ result' \in Completion \cup {NoResult}
  /\ result'.type \in {"none", "normal", "throw"}
  /\ Step(fs, stack, ls, frames', stack', result'.type = "none")

LEMMA ThrowRouted ==
  ASSUME prog \in Programs, stack \in Seq(Value),
         NEW fs \in Seq(Frame), NEW ls \in Seq(Loop), ls # <<>>,
         Nests(fs, stack, ls, TRUE),
         NEW c \in Completion, c.type = "throw",
         NEW pc, NEW extra \in Seq(Value),
         PropagateThrow(c, fs, pc, ls[Len(ls)].boundary, extra)
  PROVE  Routed(fs, ls)
<1> DEFINE b == ls[Len(ls)].boundary
           PcOf(i) == IF i = Len(fs) THEN pc ELSE fs[i].last
           Found(i) == find_exception_handler(Chunk(fs[i]).handlers, PcOf(i))
           handling == {i \in b + 1 .. Len(fs) : Found(i) # 0}
           i == CHOOSE k \in handling : \A j \in handling : j <= k
           h == Chunk(fs[i]).handlers[Found(i)]
           f == Discarded(fs[i], PcOf(i))
<1>1. b \in Nat /\ Len(fs) \in Nat
  <2>1. Len(ls) \in 1 .. Len(ls) /\ Len(fs) \in Nat
    OBVIOUS
  <2> QED
    BY <2>1, LoopsTyped
<1>2. \/ /\ handling = {}
         /\ frames' = SubSeq(fs, 1, b)
         /\ stack' = Resize(fs[b + 1].base)
         /\ result' = c
      \/ /\ handling # {} /\ CatchesAt(h, PcOf(i))
         /\ frames' = Append(SubSeq(fs, 1, i - 1),
                             [f EXCEPT !.pc = h.catch_start])
         /\ stack' = Resize(f.base) \o <<c.value>> \o extra
         /\ result' = NoResult
      \/ /\ handling # {} /\ ~CatchesAt(h, PcOf(i))
         /\ frames' = Append(SubSeq(fs, 1, i - 1), Finalizing(f, h, c))
         /\ stack' = Resize(f.base) \o extra
         /\ result' = NoResult
  BY DEF PropagateThrow
<1> HIDE DEF i, h, f
<1>3. CASE handling = {}
  <2>1. frames' = SubSeq(fs, 1, b) /\ stack' = SubSeq(stack, 1, fs[b + 1].base)
        /\ result' = c
    BY <1>2, <1>3 DEF Resize
  <2>2. Step(fs, stack, ls, frames', stack', FALSE)
    BY <2>1, Left
  <2> QED
    BY <2>1, <2>2 DEF Routed
<1>4. CASE handling # {}
  <2>1. i \in handling
    <3>1. handling \in SUBSET (0 .. Len(fs))
      BY <1>1
    <3>2. \E k \in handling : \A j \in handling : j <= k
      BY <1>1, <1>4, <3>1, GreatestUpTo
    <3> QED
      BY <3>2 DEF i
  <2>2. i \in b + 1 .. Len(fs) /\ Found(i) # 0 /\ i \in 1 .. Len(fs)
    BY <1>1, <2>1
  <2>3. fs[i] \in Frame
    BY <2>2
  <2>4. h \in ExceptionHandler
    <3>1. Found(i) \in DOMAIN Chunk(fs[i]).handlers
      BY <2>2, <2>3, HandlersTyped, ExceptionHandlerCovers
    <3>2. Chunk(fs[i]).handlers \in Seq(ExceptionHandler)
      BY <2>3, HandlersTyped
    <3> QED
      BY <3>1, <3>2 DEF h
  <2>5. f \in Frame /\ f.base = fs[i].base /\ f.chunk = fs[i].chunk
    BY <2>3, DiscardedTyped DEF f
  <2>6. result' = NoResult
    BY <1>2, <1>4
  <2>7. Step(fs, stack, ls, frames', stack', TRUE)
    <3>1. CASE CatchesAt(h, PcOf(i))
      <4> DEFINE g == [f EXCEPT !.pc = h.catch_start]
      <4>1. g \in Frame /\ g.base = fs[i].base /\ g.chunk = fs[i].chunk
        BY <2>4, <2>5 DEF Frame, ExceptionHandler
      <4> HIDE DEF g
      <4>2. frames' = Append(SubSeq(fs, 1, i - 1), g)
        BY <1>2, <1>4, <3>1 DEF g
      <4>3. stack' = SubSeq(stack, 1, g.base) \o <<c.value>> \o extra
        BY <1>2, <1>4, <2>5, <3>1, <4>1 DEF Resize
      <4> DEFINE thrown == <<c.value>>
                 cut == SubSeq(stack, 1, g.base)
      <4>4. c.value \in Value /\ thrown \in Seq(Value)
        BY DEF Completion
      <4>5. thrown \o extra \in Seq(Value)
        BY <4>4, ConcatProperties
      <4>6. cut \in Seq(Value)
        <5>1. g.base \in Nat /\ g.base <= Len(stack)
          BY <2>2, <4>1, BasesTyped DEF Nests
        <5> QED
          BY <5>1, Prefix
      <4>7. stack' = (cut \o thrown) \o extra
        BY <4>3
      <4> HIDE DEF thrown, cut
      <4>8. stack' = cut \o (thrown \o extra)
        BY <4>4, <4>6, <4>7, ConcatAssociative, SMTT(60)
      <4> DEFINE mid == thrown \o extra
      <4>9. mid \in Seq(Value) /\ stack' = SubSeq(stack, 1, g.base) \o mid
        BY <4>5, <4>8 DEF cut
      <4> HIDE DEF mid
      <4> QED
        BY <2>2, <4>1, <4>2, <4>9, HandlerEntered
    <3>2. CASE ~CatchesAt(h, PcOf(i))
      <4> DEFINE g == Finalizing(f, h, c)
      <4>1. g \in Frame /\ g.base = fs[i].base /\ g.chunk = fs[i].chunk
        BY <2>4, <2>5, FinalizingTyped
      <4>2. frames' = Append(SubSeq(fs, 1, i - 1), g)
        BY <1>2, <1>4, <3>2
      <4> HIDE DEF g
      <4>3. stack' = SubSeq(stack, 1, g.base) \o extra
        BY <1>2, <1>4, <2>5, <3>2, <4>1 DEF Resize
      <4> QED
        BY <2>2, <4>1, <4>2, <4>3, HandlerEntered
    <3> QED
      BY <3>1, <3>2
  <2> QED
    BY <2>6, <2>7 DEF Routed, NoResult
<1> QED
  BY <1>3, <1>4

\* The top frame goes on as g with operands tt, all others as they are.
LEMMA TopRouted ==
  ASSUME NEW fs \in Seq(Frame), NEW st \in Seq(Value),
         NEW ls \in Seq(Loop), ls # <<>>,
         Nests(fs, st, ls, TRUE),
         NEW g \in Frame, g.base = fs[Len(fs)].base,
         g.chunk = fs[Len(fs)].chunk,
         NEW tt \in Seq(Value), Agree(tt, st, g.base)
  PROVE  Step(fs, st, ls, [fs EXCEPT ![Len(fs)] = g], tt, TRUE)
<1> DEFINE gs == [fs EXCEPT ![Len(fs)] = g]
<1>1. Len(fs) \in Nat /\ Len(ls) \in 1 .. Len(ls)
  OBVIOUS
<1>2. ls[Len(ls)].boundary \in Nat /\ ls[Len(ls)].boundary < Len(fs)
  BY <1>1, LoopsTyped DEF Nests
<1>3. Len(fs) \in 1 .. Len(fs)
  BY <1>1, <1>2
<1>4. /\ gs \in Seq(Frame) /\ Len(gs) = Len(fs)
      /\ \A i \in 1 .. Len(fs) : gs[i] = IF i = Len(fs) THEN g ELSE fs[i]
  BY <1>3, ExceptSeq
<1> HIDE DEF gs
<1>5. gs[Len(gs)] = g
  BY <1>3, <1>4
<1>6. \A i \in 1 .. Len(gs) - 1 : gs[i] = fs[i]
  BY <1>1, <1>4
<1>7. /\ Len(gs) <= Len(fs) /\ ls[Len(ls)].boundary < Len(gs)
      /\ gs[Len(gs)].base = fs[Len(gs)].base
      /\ gs[Len(gs)].chunk = fs[Len(gs)].chunk
      /\ Agree(tt, st, fs[Len(gs)].base)
  BY <1>1, <1>2, <1>4, <1>5
<1>8. Step(fs, st, ls, gs, tt, TRUE)
  BY <1>4, <1>6, <1>7, Unwound
<1> QED
  BY <1>8 DEF gs

\* The completion enters the finalizer of handler h of the top frame.
LEMMA FinalizerRouted ==
  ASSUME prog \in Programs, NEW st \in Seq(Value),
         NEW fs \in Seq(Frame), NEW ls \in Seq(Loop), ls # <<>>,
         Nests(fs, st, ls, TRUE),
         NEW c \in Completion, NEW pc,
         find_finally_handler(Chunk(Discarded(fs[Len(fs)], pc)).handlers, pc) # 0
  PROVE  LET f == Discarded(fs[Len(fs)], pc)
             hs == Chunk(f).handlers
             h == find_finally_handler(hs, pc)
         IN  Step(fs, st, ls, [fs EXCEPT ![Len(fs)] = Finalizing(f, hs[h], c)],
                  SubSeq(st, 1, f.base), TRUE)
<1> DEFINE f == Discarded(fs[Len(fs)], pc)
           hs == Chunk(f).handlers
           h == find_finally_handler(hs, pc)
           g == Finalizing(f, hs[h], c)
<1>1. Len(fs) \in Nat /\ Len(ls) \in 1 .. Len(ls)
  OBVIOUS
<1>2. ls[Len(ls)].boundary \in Nat /\ ls[Len(ls)].boundary < Len(fs)
  BY <1>1, LoopsTyped DEF Nests
<1>3. Len(fs) \in 1 .. Len(fs)
  BY <1>1, <1>2
<1>4. /\ fs[Len(fs)] \in Frame /\ fs[Len(fs)].base <= Len(st)
      /\ fs[Len(fs)].base \in Nat
  BY <1>3, BasesTyped DEF Nests
<1>5. f \in Frame /\ f.base = fs[Len(fs)].base /\ f.chunk = fs[Len(fs)].chunk
  BY <1>4, DiscardedTyped
<1>6. h # 0
  OBVIOUS
<1> HIDE DEF f
<1>7. hs[h] \in ExceptionHandler
  <2>1. hs \in Seq(ExceptionHandler) /\ h \in DOMAIN hs
    BY <1>5, <1>6, HandlersTyped, FinallyHandlerCovers
  <2> QED
    BY <2>1
<1> HIDE DEF h, hs
<1>8. g \in Frame /\ g.base = f.base /\ g.chunk = f.chunk
  BY <1>5, <1>7, FinalizingTyped
<1> HIDE DEF g
<1> DEFINE tt == SubSeq(st, 1, f.base)
<1>9. /\ tt \in Seq(Value) /\ Len(tt) = f.base
      /\ \A i \in 1 .. f.base : tt[i] = st[i]
  BY <1>4, <1>5, Prefix
<1> HIDE DEF tt
<1>10. Agree(tt, st, g.base)
  BY <1>4, <1>5, <1>8, <1>9 DEF Agree
<1>11. Step(fs, st, ls, [fs EXCEPT ![Len(fs)] = g], tt, TRUE)
  BY <1>5, <1>8, <1>9, <1>10, TopRouted
<1> QED
  BY <1>11 DEF g, tt, h, hs, f

LEMMA ReturnRouted ==
  ASSUME prog \in Programs, stack \in Seq(Value), result = NoResult,
         loops \in Seq(Loop), loops # <<>>,
         NEW fs \in Seq(Frame), Nests(fs, stack, loops, TRUE),
         NEW c \in Completion, NEW pc, PropagateReturn(c, fs, pc)
  PROVE  Routed(fs, loops)
<1> DEFINE n == Len(fs)
           f == Discarded(fs[n], pc)
           hs == Chunk(f).handlers
           h == find_finally_handler(hs, pc)
           v == IF f.receiver # NoReceiver /\ ~ObjectLike(c.value)
                THEN f.receiver ELSE c.value
<1>1. \/ /\ h # 0
         /\ frames' = [fs EXCEPT ![n] = Finalizing(f, hs[h], c)]
         /\ stack' = SubSeq(stack, 1, f.base)
         /\ result' = NoResult
      \/ /\ h = 0
         /\ frames' = SubSeq(fs, 1, n - 1)
         /\ n - 1 = Boundary
         /\ result' = Normal(v) /\ stack' = SubSeq(stack, 1, f.base)
      \/ /\ h = 0
         /\ frames' = SubSeq(fs, 1, n - 1)
         /\ n - 1 # Boundary
         /\ result' = NoResult
         /\ stack' = Append(SubSeq(stack, 1, f.base), v)
  BY DEF PropagateReturn, Resize
<1>2. n \in Nat /\ Len(loops) \in 1 .. Len(loops) /\ Len(stack) \in Nat
  OBVIOUS
<1>3. Boundary \in Nat /\ Boundary < n
  BY <1>2, LoopsTyped DEF Nests, Boundary
<1>4. n \in 1 .. n
  BY <1>2, <1>3
<1>5. fs[n] \in Frame /\ fs[n].base <= Len(stack) /\ fs[n].base \in Nat
  BY <1>4, BasesTyped DEF Nests
<1>6. f \in Frame /\ f.base = fs[n].base /\ f.chunk = fs[n].chunk
  BY <1>5, DiscardedTyped
<1>7. v \in Value
  BY <1>6 DEF Frame, Completion
<1>8. CASE h # 0
  <2>1. /\ frames' = [fs EXCEPT ![n] = Finalizing(f, hs[h], c)]
        /\ stack' = SubSeq(stack, 1, f.base) /\ result' = NoResult
    BY <1>1, <1>8
  <2>2. Step(fs, stack, loops, frames', stack', TRUE)
    BY <1>8, <2>1, FinalizerRouted
  <2> QED
    BY <2>1, <2>2 DEF Routed, NoResult
<1> HIDE DEF f, h, hs, v
<1>9. CASE h = 0 /\ n - 1 = Boundary
  <2>1. /\ frames' = SubSeq(fs, 1, Boundary) /\ result' = Normal(v)
        /\ stack' = SubSeq(stack, 1, fs[n].base)
    BY <1>1, <1>6, <1>9
  <2>2. n = Boundary + 1
    BY <1>2, <1>3, <1>9
  <2>3. Step(fs, stack, loops, frames', stack', FALSE)
    BY <2>1, <2>2, Left DEF Boundary
  <2>4. result' \in Completion /\ result'.type = "normal"
    BY <1>7, <2>1 DEF Normal, Completion, NoTarget
  <2> QED
    BY <2>3, <2>4 DEF Routed
<1>10. CASE h = 0 /\ n - 1 # Boundary
  <2> DEFINE cut == SubSeq(stack, 1, f.base)
             gs == SubSeq(fs, 1, n - 1)
  <2>1. frames' = gs /\ stack' = Append(cut, v) /\ result' = NoResult
    BY <1>1, <1>10
  <2>2. Boundary < n - 1 /\ n - 1 \in Nat /\ n - 1 <= n
    BY <1>2, <1>3, <1>10
  <2>3. /\ gs \in Seq(Frame) /\ Len(gs) = n - 1
        /\ \A i \in 1 .. n - 1 : gs[i] = fs[i]
    BY <2>2, Prefix
  <2>4. /\ cut \in Seq(Value) /\ Len(cut) = f.base
        /\ \A i \in 1 .. f.base : cut[i] = stack[i]
    BY <1>5, <1>6, Prefix
  <2> HIDE DEF cut, gs
  <2>5. /\ stack' \in Seq(Value) /\ Len(stack') = f.base + 1
        /\ \A i \in 1 .. f.base : stack'[i] = cut[i]
    <3>1. /\ Append(cut, v) \in Seq(Value) /\ Len(Append(cut, v)) = Len(cut) + 1
          /\ \A i \in 1 .. Len(cut) : Append(cut, v)[i] = cut[i]
      BY <1>7, <2>4, AppendProperties
    <3> QED
      BY <2>1, <2>4, <3>1
  <2>6. n - 1 \in 1 .. n /\ n - 1 \in 1 .. n - 1 /\ n - 1 <= n
    BY <1>2, <1>3, <2>2
  <2>7. fs[n - 1].base <= fs[n].base /\ fs[n - 1].base \in Nat
    BY <1>4, <2>6, BasesTyped DEF Nests
  <2>8. Agree(stack', stack, fs[n - 1].base)
    <3>1. \A i \in 1 .. fs[n - 1].base : i \in 1 .. f.base
      BY <1>5, <1>6, <2>7
    <3>2. fs[n - 1].base <= Len(stack') /\ fs[n - 1].base <= Len(stack)
      <4>1. /\ fs[n - 1].base \in Nat /\ fs[n - 1].base <= fs[n].base
            /\ fs[n].base \in Nat /\ fs[n].base <= Len(stack)
        BY <1>5, <2>7
      <4>2. Len(stack') = fs[n].base + 1
        BY <1>6, <2>5
      <4>3. Len(stack) \in Nat
        BY <1>2
      <4> QED
        BY <4>1, <4>2, <4>3
    <3> QED
      BY <2>4, <2>5, <3>1, <3>2 DEF Agree
  <2>9. gs[Len(gs)] = fs[Len(gs)] /\ \A i \in 1 .. Len(gs) - 1 : gs[i] = fs[i]
    BY <2>2, <2>3, <2>6
  <2>10. Step(fs, stack, loops, gs, stack', TRUE)
    BY <2>2, <2>3, <2>5, <2>8, <2>9, Unwound DEF Boundary
  <2> QED
    BY <2>1, <2>10 DEF Routed, NoResult
<1> QED
  BY <1>8, <1>9, <1>10

LEMMA JumpRouted ==
  ASSUME prog \in Programs, stack \in Seq(Value), result = NoResult,
         loops \in Seq(Loop), loops # <<>>,
         NEW fs \in Seq(Frame), Nests(fs, stack, loops, TRUE),
         NEW c \in Completion, NEW pc, PropagateJump(c, fs, pc)
  PROVE  Routed(fs, loops)
<1> DEFINE n == Len(fs)
           f == Discarded(fs[n], pc)
           hs == Chunk(f).handlers
           h == find_finally_handler(hs, pc)
<1>1. /\ result' = NoResult
      /\ \/ /\ h # 0
            /\ frames' = [fs EXCEPT ![n] = Finalizing(f, hs[h], c)]
            /\ stack' = SubSeq(stack, 1, f.base)
         \/ /\ h = 0
            /\ frames' = [fs EXCEPT ![n] = [f EXCEPT !.pc = c.target]]
            /\ stack' = stack
  BY DEF PropagateJump, Resize
<1>2. CASE h # 0
  <2>1. /\ frames' = [fs EXCEPT ![n] = Finalizing(f, hs[h], c)]
        /\ stack' = SubSeq(stack, 1, f.base)
    BY <1>1, <1>2
  <2>2. Step(fs, stack, loops, frames', stack', TRUE)
    BY <1>2, <2>1, FinalizerRouted
  <2> QED
    BY <1>1, <2>2 DEF Routed, NoResult
<1>3. CASE h = 0
  <2> DEFINE g == [f EXCEPT !.pc = c.target]
  <2>1. n \in Nat /\ Len(loops) \in 1 .. Len(loops) /\ Len(stack) \in Nat
    OBVIOUS
  <2>2. loops[Len(loops)].boundary \in Nat /\ loops[Len(loops)].boundary < n
    BY <2>1, LoopsTyped DEF Nests
  <2>3. n \in 1 .. n
    BY <2>1, <2>2
  <2>4. fs[n] \in Frame /\ fs[n].base <= Len(stack) /\ fs[n].base \in Nat
    BY <2>3, BasesTyped DEF Nests
  <2>5. f \in Frame /\ f.base = fs[n].base /\ f.chunk = fs[n].chunk
    BY <2>4, DiscardedTyped
  <2>6. frames' = [fs EXCEPT ![n] = g] /\ stack' = stack
    BY <1>1, <1>3
  <2> HIDE DEF f
  <2>7. g \in Frame /\ g.base = fs[n].base /\ g.chunk = fs[n].chunk
    BY <2>5 DEF Frame, Completion
  <2> HIDE DEF g
  <2>8. Agree(stack, stack, g.base)
    BY <2>1, <2>4, <2>7 DEF Agree
  <2>9. Step(fs, stack, loops, frames', stack', TRUE)
    BY <2>6, <2>7, <2>8, TopRouted
  <2> QED
    BY <1>1, <2>9 DEF Routed, NoResult
<1> QED
  BY <1>2, <1>3

-----------------------------------------------------------------------------
(* The instructions.                                                       *)

LEMMA NoResultYet ==
  ASSUME ExecInv, Running
  PROVE  result = NoResult
BY DEF ExecInv, TypeOK, Running, Completion, Failure

\* What a step of the running frame leaves behind is what it leaves of the
\* frames it found.
LEMMA RoutedFromTop ==
  ASSUME ExecInv, Running, NEW f, SameFrame(f), Routed(WithTop(f), loops)
  PROVE  Routed(frames, loops)
<1>1. Boundary \in Nat /\ Boundary < Len(frames) /\ Len(frames) \in Nat
  BY RunningFrame
<1>2. /\ Len(WithTop(f)) = Len(frames)
      /\ \A i \in 1 .. Len(frames) - 1 : WithTop(f)[i] = frames[i]
      /\ \A i \in 1 .. Len(frames) : WithTop(f)[i].chunk = frames[i].chunk
  BY ReplaceTop
<1> DEFINE fs == WithTop(f)
<1>3. Step(fs, stack, loops, frames', stack', result'.type = "none")
  BY DEF Routed
<1> HIDE DEF fs
<1>4. frames' \in Seq(Frame) /\ Len(frames') <= Len(frames) /\ Len(frames') \in Nat
  BY <1>2, <1>3 DEF Step, fs
<1>5. \A i \in 1 .. Len(frames') : frames'[i].chunk = frames[i].chunk
  <2>1. \A i \in 1 .. Len(frames') : i \in 1 .. Len(frames)
    BY <1>1, <1>4
  <2>2. \A i \in 1 .. Len(frames') : frames'[i].chunk = fs[i].chunk
    BY <1>3 DEF Step
  <2> QED
    BY <1>2, <2>1, <2>2 DEF fs
<1>6. Agree(frames', frames, Boundary)
  <2>1. Agree(frames', fs, Boundary)
    BY <1>3 DEF Step, Boundary
  <2>2. \A i \in 1 .. Boundary : i \in 1 .. Len(frames) - 1
    BY <1>1
  <2>3. Boundary <= Len(frames)
    BY <1>1
  <2> QED
    BY <1>2, <2>1, <2>2, <2>3 DEF Agree, fs
<1>7. Step(frames, stack, loops, frames', stack', result'.type = "none")
  BY <1>3, <1>4, <1>5, <1>6 DEF Step, Boundary
<1> QED
  BY <1>7 DEF Routed

\* An abrupt completion raised by the running frame.
LEMMA PropagateRouted ==
  ASSUME ExecInv, Running, NEW f, SameFrame(f), NEW c \in Completion, NEW pc,
         Propagate(c, WithTop(f), pc)
  PROVE  Routed(frames, loops)
<1>1. /\ prog \in Programs /\ stack \in Seq(Value) /\ loops \in Seq(Loop)
      /\ loops # <<>> /\ result = NoResult
  BY NoResultYet DEF ExecInv, TypeOK, Running
<1> DEFINE fs == WithTop(f)
<1>2. fs \in Seq(Frame) /\ Nests(fs, stack, loops, TRUE)
  BY <1>1, ReplaceTop, RunningFrame
<1> HIDE DEF fs
<1>3. Routed(fs, loops)
  <2>1. CASE c.type = "return" /\ PropagateReturn(c, fs, pc)
    BY <1>1, <1>2, <2>1, ReturnRouted
  <2>2. CASE PropagateJump(c, fs, pc)
    BY <1>1, <1>2, <2>2, JumpRouted
  <2>3. CASE c.type = "throw" /\ PropagateThrow(c, fs, pc, Boundary, <<>>)
    <3>1. PropagateThrow(c, fs, pc, loops[Len(loops)].boundary, <<>>)
      BY <2>3 DEF Boundary
    <3>2. <<>> \in Seq(Value)
      OBVIOUS
    <3> QED
      BY <1>1, <1>2, <2>3, <3>1, <3>2, ThrowRouted
  <2> QED
    BY <2>1, <2>2, <2>3 DEF Propagate, fs
<1> QED
  BY <1>3, RoutedFromTop DEF fs

\* A throw raised by the running frame, with what the instruction pushes.
LEMMA InstructionThrows ==
  ASSUME ExecInv, Running, NEW v \in Value, NEW pc, NEW extra \in Seq(Value),
         PropagateThrow(Throw(v), Advanced, pc, Boundary, extra)
  PROVE  Routed(frames, loops)
<1>1. /\ prog \in Programs /\ stack \in Seq(Value) /\ loops \in Seq(Loop)
      /\ loops # <<>>
  BY DEF ExecInv, TypeOK, Running
<1>2. SameFrame(Stepped)
  BY RunningFrame, SteppedIsSame
<1> DEFINE fs == WithTop(Stepped)
<1>3. fs \in Seq(Frame) /\ Nests(fs, stack, loops, TRUE)
  BY <1>1, <1>2, ReplaceTop, RunningFrame
<1>4. PropagateThrow(Throw(v), fs, pc, loops[Len(loops)].boundary, extra)
  BY DEF Boundary, Advanced
<1> HIDE DEF fs
<1>5. Throw(v) \in Completion /\ Throw(v).type = "throw"
  BY DEF Throw, Completion, NoTarget
<1>6. Routed(fs, loops)
  BY <1>1, <1>3, <1>4, <1>5, ThrowRouted
<1> QED
  BY <1>2, <1>6, RoutedFromTop DEF fs

\* The running frame goes on as f with operands tt.
LEMMA Continues ==
  ASSUME ExecInv, Running, NEW f, SameFrame(f),
         NEW tt \in Seq(Value), Agree(tt, stack, Top.base),
         frames' = WithTop(f), stack' = tt, result' = result
  PROVE  Routed(frames, loops)
<1>1. /\ frames \in Seq(Frame) /\ stack \in Seq(Value) /\ loops \in Seq(Loop)
      /\ loops # <<>> /\ Nests(frames, stack, loops, TRUE)
  BY RunningFrame DEF ExecInv, TypeOK, Running
<1>2. f \in Frame /\ f.base = frames[Len(frames)].base
      /\ f.chunk = frames[Len(frames)].chunk /\ Agree(tt, stack, f.base)
  BY DEF SameFrame, Top
<1>3. Step(frames, stack, loops, [frames EXCEPT ![Len(frames)] = f], tt, TRUE)
  BY <1>1, <1>2, TopRouted
<1>4. Step(frames, stack, loops, frames', stack', TRUE)
  BY <1>3 DEF WithTop
<1>5. result' = NoResult
  BY NoResultYet
<1>6. (result'.type = "none") = TRUE /\ result'.type = "none"
  BY <1>5 DEF NoResult
<1>7. Step(frames, stack, loops, frames', stack', result'.type = "none")
  BY <1>4, <1>6
<1> QED
  BY <1>5, <1>6, <1>7, Zenon DEF Routed

\* The invariant holds after the step, and a step inside an activation left
\* what is below it alone.
Below ==
  (loops # <<>> /\ Len(loops') >= Len(loops)) =>
     /\ Agree(frames', frames, Boundary)
     /\ Agree(stack', stack, loops[Len(loops)].opbase)

LEMMA RoutedKeeps ==
  ASSUME ExecInv, Running, Routed(frames, loops), UNCHANGED <<prog, loops>>,
         gens' \in [GenIds -> Generator], GeneratorsSaved',
         suspended' \in BOOLEAN, log' \in Seq(STRING), inputs' \in Seq(BOOLEAN)
  PROVE  ExecInv' /\ Below
<1>1. /\ result' \in Completion \cup {NoResult}
      /\ result'.type \in {"none", "normal", "throw"}
      /\ Step(frames, stack, loops, frames', stack', result'.type = "none")
  BY DEF Routed
<1>2. /\ frames' \in Seq(Frame) /\ stack' \in Seq(Value)
      /\ Nests(frames', stack', loops', result'.type = "none")
      /\ Len(frames') <= Len(frames)
      /\ \A i \in 1 .. Len(frames') : frames'[i].chunk = frames[i].chunk
      /\ Agree(frames', frames, Boundary)
      /\ Agree(stack', stack, loops[Len(loops)].opbase)
  BY <1>1 DEF Step, Boundary
<1>3. TypeOK'
  BY <1>1, <1>2 DEF ExecInv, TypeOK
<1>4. GeneratorFrames(frames', loops)
  <2>1. GeneratorFrames(frames, loops) /\ Len(frames) \in Nat
    BY RunningFrame
  <2>2. \A i \in 1 .. Len(frames') : i \in 1 .. Len(frames)
    BY <1>2, <2>1
  <2> QED
    BY <1>2, <2>1, <2>2 DEF GeneratorFrames
<1>5. GeneratorFrames(frames, loops)'
  BY <1>4 DEF GeneratorFrames
<1>6. StackDiscipline'
  BY <1>2 DEF StackDiscipline
<1> QED
  BY <1>2, <1>3, <1>5, <1>6 DEF ExecInv, Below

LEMMA FailKeeps ==
  ASSUME ExecInv, Running, Fail,
         UNCHANGED <<prog, loops, gens, suspended, log, inputs>>
  PROVE  ExecInv' /\ Below
<1>1. result' = Failure /\ frames' = WithTop(Stepped) /\ stack' = stack
  BY DEF Fail, Advanced
<1>2. SameFrame(Stepped)
  BY RunningFrame, SteppedIsSame
<1>3. frames' \in Seq(Frame) /\ Len(frames') = Len(frames)
      /\ \A i \in 1 .. Len(frames) - 1 : frames'[i] = frames[i]
  BY <1>1, <1>2, ReplaceTop
<1>4. Failed'
  BY <1>1 DEF Failed, Failure
<1>5. TypeOK'
  BY <1>1, <1>3 DEF ExecInv, TypeOK, Failure
<1>6. GeneratorsSaved'
  BY DEF ExecInv, GeneratorsSaved
<1>7. Agree(frames', frames, Boundary)
  <2>1. /\ Boundary \in Nat /\ Boundary < Len(frames) /\ Len(frames) \in Nat
    BY RunningFrame
  <2>2. Boundary <= Len(frames) /\ \A i \in 1 .. Boundary : i \in 1 .. Len(frames) - 1
    BY <2>1
  <2> QED
    BY <1>3, <2>2 DEF Agree
<1>8. Agree(stack', stack, loops[Len(loops)].opbase)
  <2>1. loops[Len(loops)].opbase <= Len(stack)
    BY RunningFrame DEF Nests
  <2> QED
    BY <1>1, <2>1 DEF Agree
<1> QED
  BY <1>4, <1>5, <1>6, <1>7, <1>8 DEF ExecInv, StackDiscipline, Below

\* The operand stack cut back to a place above the frame's base.
LEMMA Cut ==
  ASSUME ExecInv, Running, NEW m \in Nat, Top.base <= m, m <= Len(stack)
  PROVE  /\ SubSeq(stack, 1, m) \in Seq(Value)
         /\ Len(SubSeq(stack, 1, m)) = m
         /\ Agree(SubSeq(stack, 1, m), stack, Top.base)
         /\ \A v \in Value : /\ Append(SubSeq(stack, 1, m), v) \in Seq(Value)
                             /\ Agree(Append(SubSeq(stack, 1, m), v), stack,
                                      Top.base)
<1> DEFINE s == SubSeq(stack, 1, m)
<1>1. stack \in Seq(Value) /\ Top.base \in Nat /\ Len(stack) \in Nat
  BY RunningFrame DEF ExecInv, TypeOK
<1>2. s \in Seq(Value) /\ Len(s) = m /\ \A i \in 1 .. m : s[i] = stack[i]
  BY <1>1, Prefix
<1> HIDE DEF s
<1>3. /\ \A i \in 1 .. Top.base : i \in 1 .. m
      /\ Top.base <= Len(stack) /\ Top.base <= m + 1
  BY <1>1
<1>4. Agree(s, stack, Top.base)
  BY <1>2, <1>3 DEF Agree
<1>5. ASSUME NEW v \in Value
      PROVE  Append(s, v) \in Seq(Value) /\ Agree(Append(s, v), stack, Top.base)
  <2>1. /\ Append(s, v) \in Seq(Value) /\ Len(Append(s, v)) = m + 1
        /\ \A i \in 1 .. Len(s) : Append(s, v)[i] = s[i]
    BY <1>2, AppendProperties
  <2>2. \A i \in 1 .. Top.base : Append(s, v)[i] = stack[i]
    BY <1>2, <1>3, <2>1
  <2> QED
    BY <1>3, <2>1, <2>2 DEF Agree
<1> QED
  BY <1>2, <1>4, <1>5 DEF s

LEMMA Pushed ==
  ASSUME ExecInv, Running
  PROVE  /\ stack \in Seq(Value) /\ Agree(stack, stack, Top.base)
         /\ \A v \in Value : /\ Append(stack, v) \in Seq(Value)
                             /\ Agree(Append(stack, v), stack, Top.base)
<1>1. /\ stack \in Seq(Value) /\ Top.base \in Nat /\ Len(stack) \in Nat
      /\ Top.base <= Len(stack)
  BY RunningFrame DEF ExecInv, TypeOK
<1>2. ASSUME NEW v \in Value
      PROVE  /\ Append(stack, v) \in Seq(Value)
             /\ Agree(Append(stack, v), stack, Top.base)
  <2>1. /\ Append(stack, v) \in Seq(Value)
        /\ Len(Append(stack, v)) = Len(stack) + 1
        /\ \A i \in 1 .. Len(stack) : Append(stack, v)[i] = stack[i]
    BY <1>1, AppendProperties
  <2>2. \A i \in 1 .. Top.base : i \in 1 .. Len(stack)
    BY <1>1
  <2> QED
    BY <1>1, <2>1, <2>2 DEF Agree
<1> QED
  BY <1>1, <1>2 DEF Agree

\* The instruction to execute, and the operands it finds.
LEMMA Fetched ==
  ASSUME ExecInv, NEW op, On(op)
  PROVE  /\ Running /\ Instr \in Instruction /\ Instr.op = op
         /\ Instr.n \in Nat /\ Instr.v \in Value
         /\ op = "get_local" => Instr.n \in Slots
         /\ op = "yield" => prog[Top.chunk].generator
<1>1. Running /\ Top.pc \in DOMAIN Chunk(Top).code /\ Instr.op = op
  BY DEF On, At
<1>2. Top.chunk \in Names /\ prog \in Programs
  BY <1>1, RunningFrame DEF Frame, ExecInv
<1>3. WellFormed(Chunk(Top))
  BY <1>2, ProgramsWellFormed DEF Chunk
<1>4. Instr \in Instruction
  BY <1>1, <1>3 DEF WellFormed, Instr
<1>5. /\ op = "get_local" => Instr.n \in Slots
      /\ op = "yield" => Chunk(Top).generator
  BY <1>1, <1>3 DEF WellFormed, Instr
<1> QED
  BY <1>1, <1>4, <1>5 DEF Instruction, Chunk

LEMMA Operands ==
  ASSUME ExecInv, NEW op, On(op)
  PROVE  /\ op \in {"pop", "set_local", "observe", "jump_if_false", "throw",
                    "get_property", "get_iterator", "iterator_complete",
                    "iterator_value", "yield", "return"}
              => Top.base <= Len(stack) - 1 /\ Len(stack) - 1 \in Nat
         /\ op \in {"copy_object_rest", "iterator_next"}
              => Top.base <= Len(stack) - 2 /\ Len(stack) - 2 \in Nat
         /\ op = "operate"
              => Top.base <= Len(stack) - Instr.n /\ Len(stack) - Instr.n \in Nat
         /\ op \in {"call", "construct"}
              => Top.base <= Len(stack) - Instr.n - 1
                   /\ Len(stack) - Instr.n - 1 \in Nat
         /\ op = "yield" => loops[Len(loops)].gen # NoGen
<1>1. Running /\ Instr.op = op /\ Enough(Instr) /\ Instr.n \in Nat
  BY Fetched DEF On
<1>2. Top.base \in Nat /\ Len(stack) \in Nat
  BY <1>1, RunningFrame
<1>3. CASE op \in {"pop", "set_local", "observe", "jump_if_false", "throw",
                   "get_property", "get_iterator", "iterator_complete",
                   "iterator_value"}
  <2>1. Height >= 1
    BY <1>1, <1>3 DEF Enough
  <2> QED
    BY <1>2, <1>3, <2>1 DEF Height
<1>4. CASE op \in {"copy_object_rest", "iterator_next"}
  <2>1. Height >= 2
    BY <1>1, <1>4 DEF Enough
  <2> QED
    BY <1>2, <1>4, <2>1 DEF Height
<1>5. CASE op = "operate"
  <2>1. Height >= Instr.n
    BY <1>1, <1>5 DEF Enough
  <2> QED
    BY <1>1, <1>2, <1>5, <2>1 DEF Height
<1>6. CASE op \in {"call", "construct"}
  <2>1. Height >= Instr.n + 1
    BY <1>1, <1>6 DEF Enough
  <2> QED
    BY <1>1, <1>2, <1>6, <2>1 DEF Height
<1>7. CASE op = "yield"
  <2>1. Height >= 1 /\ loops[Len(loops)].gen # NoGen
    BY <1>1, <1>7 DEF Enough
  <2> QED
    BY <1>2, <1>7, <2>1 DEF Height
<1>8. CASE op = "return"
  <2>1. Height = 1
    BY <1>1, <1>8 DEF Enough
  <2> QED
    BY <1>2, <1>8, <2>1 DEF Height
<1> QED
  BY <1>3, <1>4, <1>5, <1>6, <1>7, <1>8

LEMMA PeekTyped ==
  ASSUME ExecInv, Len(stack) - 1 \in Nat
  PROVE  Peek \in Value /\ Peek.id \in STRING
<1>1. stack \in Seq(Value)
  BY DEF ExecInv, TypeOK
<1>2. Len(stack) \in 1 .. Len(stack)
  BY <1>1
<1>3. Peek \in Value
  BY <1>1, <1>2, ElementOfSeq DEF Peek
<1> QED
  BY <1>3 DEF Value

LEMMA ReadsTyped ==
  ASSUME ExecInv, NEW b \in BOOLEAN, Reads(b)
  PROVE  inputs' \in Seq(BOOLEAN)
<1>1. inputs \in Seq(BOOLEAN)
  BY DEF ExecInv, TypeOK
<1>2. inputs' = Append(inputs, b) \/ inputs' = inputs
  BY DEF Reads
<1> QED
  BY <1>1, <1>2, AppendProperties

\* An instruction that only touches the frame's own operands.
LEMMA StraightKeeps ==
  ASSUME ExecInv, Running, NEW tt \in Seq(Value), Agree(tt, stack, Top.base),
         Straight(tt), log' \in Seq(STRING), inputs' \in Seq(BOOLEAN)
  PROVE  ExecInv' /\ Below
<1>1. SameFrame(Stepped)
  BY RunningFrame, SteppedIsSame
<1>2. /\ frames' = WithTop(Stepped) /\ stack' = tt /\ result' = result
      /\ UNCHANGED <<prog, loops, gens, suspended>>
  BY DEF Straight, Advanced
<1>3. Routed(frames, loops)
  BY <1>1, <1>2, Continues
<1>4. /\ gens' \in [GenIds -> Generator] /\ GeneratorsSaved'
      /\ suspended' \in BOOLEAN
  BY <1>2 DEF ExecInv, TypeOK, GeneratorsSaved
<1> QED
  BY <1>2, <1>3, <1>4, RoutedKeeps

\* An instruction that replaces the running frame and its operands.
LEMMA FrameKeeps ==
  ASSUME ExecInv, Running, NEW f, SameFrame(f),
         NEW tt \in Seq(Value), Agree(tt, stack, Top.base),
         frames' = WithTop(f), stack' = tt,
         UNCHANGED <<prog, loops, gens, suspended, result, log, inputs>>
  PROVE  ExecInv' /\ Below
<1>1. Routed(frames, loops)
  BY Continues
<1>2. /\ gens' \in [GenIds -> Generator] /\ GeneratorsSaved'
      /\ suspended' \in BOOLEAN /\ log' \in Seq(STRING)
      /\ inputs' \in Seq(BOOLEAN)
  BY DEF ExecInv, TypeOK, GeneratorsSaved
<1> QED
  BY <1>1, <1>2, RoutedKeeps

\* An instruction that routes a completion and changes nothing else.
LEMMA CompletionKeeps ==
  ASSUME ExecInv, Running, Routed(frames, loops),
         UNCHANGED <<prog, loops, gens, suspended>>,
         log' \in Seq(STRING), inputs' \in Seq(BOOLEAN)
  PROVE  ExecInv' /\ Below
<1>1. /\ gens' \in [GenIds -> Generator] /\ GeneratorsSaved'
      /\ suspended' \in BOOLEAN
  BY DEF ExecInv, TypeOK, GeneratorsSaved
<1> QED
  BY <1>1, RoutedKeeps

LEMMA StraightActions ==
  ASSUME ExecInv,
         \/ Push \/ PushInput \/ Pop \/ GetLocal \/ Observe
         \/ IteratorComplete \/ IteratorValue
  PROVE  ExecInv' /\ Below
<1>1. log \in Seq(STRING) /\ inputs \in Seq(BOOLEAN) /\ stack \in Seq(Value)
  BY DEF ExecInv, TypeOK
<1>2. \A b \in BOOLEAN : Bool(b) \in Value
  <2>1. Bool(TRUE) \in Value /\ Bool(FALSE) \in Value
    <3>1. Bool(TRUE) = [kind |-> "bool", id |-> "true"]
      BY Zenon DEF Bool, Val
    <3>2. Bool(FALSE) = [kind |-> "bool", id |-> "false"]
      BY Zenon DEF Bool, Val
    <3>3. /\ [kind |-> "bool", id |-> "true"] \in Value
          /\ [kind |-> "bool", id |-> "false"] \in Value
      <4>1. "true" \in STRING /\ "false" \in STRING
        BY LiteralsAreStrings
      <4>2. "bool" \in ObjectKinds \cup {"data", "bool"}
        OBVIOUS
      <4> QED
        BY <4>1, <4>2, Zenon DEF Value
    <3> QED
      BY <3>1, <3>2, <3>3, Zenon
  <2>2. ASSUME NEW b \in BOOLEAN PROVE Bool(b) \in Value
    <3>1. CASE b = TRUE
      BY <2>1, <3>1
    <3>2. CASE b = FALSE
      BY <2>1, <3>2
    <3> QED
      BY <3>1, <3>2
  <2> QED
    BY <2>2
<1>3. CASE Push
  <2>1. On("push") /\ Straight(Append(stack, Instr.v)) /\ UNCHANGED <<log, inputs>>
    BY <1>3 DEF Push
  <2>2. Running /\ Instr.v \in Value
    BY <2>1, Fetched
  <2> DEFINE tt == Append(stack, Instr.v)
  <2>3. tt \in Seq(Value) /\ Agree(tt, stack, Top.base)
    BY <2>2, Pushed
  <2>4. Straight(tt)
    BY <2>1
  <2> HIDE DEF tt
  <2> QED
    BY <1>1, <2>1, <2>2, <2>3, <2>4, StraightKeeps
<1>4. CASE PushInput
  <2>1. PICK b \in BOOLEAN : Reads(b) /\ Straight(Append(stack, Bool(b)))
    BY <1>4 DEF PushInput
  <2>2. Running /\ UNCHANGED log
    BY <1>4, Fetched DEF PushInput
  <2> DEFINE tt == Append(stack, Bool(b))
  <2>3. tt \in Seq(Value) /\ Agree(tt, stack, Top.base)
    BY <1>2, <2>2, Pushed
  <2>4. Straight(tt)
    BY <2>1
  <2> HIDE DEF tt
  <2>5. inputs' \in Seq(BOOLEAN)
    BY <2>1, ReadsTyped
  <2> QED
    BY <1>1, <2>2, <2>3, <2>4, <2>5, StraightKeeps
<1>5. CASE Pop
  <2>1. On("pop") /\ Straight(Drop(1)) /\ UNCHANGED <<log, inputs>>
    BY <1>5 DEF Pop
  <2>2. Running /\ Top.base <= Len(stack) - 1 /\ Len(stack) - 1 \in Nat
    BY <2>1, Fetched, Operands
  <2>3. Len(stack) - 1 <= Len(stack)
    BY <1>1
  <2> DEFINE tt == Drop(1)
  <2>4. tt \in Seq(Value) /\ Agree(tt, stack, Top.base)
    BY <2>2, <2>3, Cut DEF Drop
  <2>5. Straight(tt)
    BY <2>1
  <2> HIDE DEF tt
  <2> QED
    BY <1>1, <2>1, <2>2, <2>4, <2>5, StraightKeeps
<1>6. CASE GetLocal
  <2>1. /\ On("get_local") /\ Straight(Append(stack, Top.locals[Instr.n]))
        /\ UNCHANGED <<log, inputs>>
    BY <1>6 DEF GetLocal
  <2>2. Running /\ Instr.n \in Slots
    BY <2>1, Fetched
  <2>3. Top.locals[Instr.n] \in Value
    BY <2>2, RunningFrame DEF Frame
  <2> DEFINE tt == Append(stack, Top.locals[Instr.n])
  <2>4. tt \in Seq(Value) /\ Agree(tt, stack, Top.base)
    BY <2>2, <2>3, Pushed
  <2>5. Straight(tt)
    BY <2>1
  <2> HIDE DEF tt
  <2> QED
    BY <1>1, <2>1, <2>2, <2>4, <2>5, StraightKeeps
<1>7. CASE Observe
  <2>1. On("observe") /\ Straight(Drop(1)) /\ log' = Append(log, Peek.id)
        /\ UNCHANGED inputs
    BY <1>7 DEF Observe
  <2>2. Running /\ Top.base <= Len(stack) - 1 /\ Len(stack) - 1 \in Nat
    BY <2>1, Fetched, Operands
  <2>3. Len(stack) - 1 <= Len(stack)
    BY <1>1
  <2> DEFINE tt == Drop(1)
  <2>4. tt \in Seq(Value) /\ Agree(tt, stack, Top.base)
    BY <2>2, <2>3, Cut DEF Drop
  <2>5. Straight(tt)
    BY <2>1
  <2> HIDE DEF tt
  <2>6. log' \in Seq(STRING)
    BY <1>1, <2>1, <2>2, PeekTyped, AppendProperties
  <2> QED
    BY <1>1, <2>1, <2>2, <2>4, <2>5, <2>6, StraightKeeps
<1>8. CASE IteratorComplete \/ IteratorValue
  <2>1. PICK v : Straight(Append(Drop(1), v)) /\ v \in Value
    <3>1. CASE IteratorComplete
      <4>1. (Peek.kind = "done") \in BOOLEAN
        OBVIOUS
      <4> QED
        BY <1>2, <3>1, <4>1 DEF IteratorComplete
    <3>2. CASE IteratorValue
      <4>1. On("iterator_value")
            /\ Straight(Append(Drop(1), Val("data", Peek.id)))
        BY <3>2 DEF IteratorValue
      <4>2. Peek.id \in STRING
        BY <4>1, Operands, PeekTyped
      <4>3. Val("data", Peek.id) \in Value
        BY <4>2 DEF Val, Value
      <4> QED
        BY <4>1, <4>3
    <3> QED
      BY <1>8, <3>1, <3>2
  <2>2. PICK op \in {"iterator_complete", "iterator_value"} : On(op)
    BY <1>8 DEF IteratorComplete, IteratorValue
  <2>3. Running /\ Top.base <= Len(stack) - 1 /\ Len(stack) - 1 \in Nat
    BY <2>2, Fetched, Operands
  <2>4. Len(stack) - 1 <= Len(stack)
    BY <1>1
  <2> DEFINE tt == Append(Drop(1), v)
  <2>5. tt \in Seq(Value) /\ Agree(tt, stack, Top.base)
    BY <2>1, <2>3, <2>4, Cut DEF Drop
  <2>6. Straight(tt)
    BY <2>1
  <2>7. UNCHANGED <<log, inputs>>
    BY <1>8 DEF IteratorComplete, IteratorValue
  <2> HIDE DEF tt
  <2> QED
    BY <1>1, <2>3, <2>5, <2>6, <2>7, StraightKeeps
<1> QED
  BY <1>3, <1>4, <1>5, <1>6, <1>7, <1>8

\* The interpreter's own values.
LEMMA OwnValues ==
  /\ Undef \in Value /\ TypeErr \in Value /\ NoReceiver \in Value
  /\ Val("obj", "rest") \in Value /\ Val("fn", "next") \in Value
  /\ Val("obj", "receiver") \in Value /\ Val("done", "undefined") \in Value
BY LiteralsAreStrings DEF Undef, TypeErr, NoReceiver, Val, Value, ObjectKinds

LEMMA ThrowingActions ==
  ASSUME ExecInv, Operate \/ CopyObjectRest \/ GetIterator
  PROVE  ExecInv' /\ Below
<1>1. log \in Seq(STRING) /\ inputs \in Seq(BOOLEAN) /\ stack \in Seq(Value)
  BY DEF ExecInv, TypeOK
<1>2. log' \in Seq(STRING)
  BY <1>1 DEF Operate, CopyObjectRest, GetIterator
<1>3. inputs' \in Seq(BOOLEAN)
  <2>1. (\E b \in BOOLEAN : Reads(b)) \/ inputs' = inputs
    BY DEF Operate, CopyObjectRest, GetIterator
  <2> QED
    BY <1>1, <2>1, ReadsTyped
<1>4. CASE Operate
  <2>1. On("operate")
    BY <1>4 DEF Operate
  <2>2. /\ Running /\ Instr.n \in Nat /\ Instr.v \in Value
        /\ Top.base <= Len(stack) - Instr.n /\ Len(stack) - Instr.n \in Nat
    BY <2>1, Fetched, Operands
  <2>3. CASE /\ PropagateThrow(Throw(Instr.v), Advanced, Top.pc, Boundary, <<>>)
             /\ UNCHANGED <<prog, loops, gens, suspended>>
    <3>1. Routed(frames, loops)
      BY <2>2, <2>3, InstructionThrows, EmptySeq
    <3> QED
      BY <1>2, <1>3, <2>2, <2>3, <3>1, CompletionKeeps
  <2>4. CASE Straight(Append(Drop(Instr.n), Undef))
    <3> DEFINE tt == Append(Drop(Instr.n), Undef)
    <3>1. Len(stack) - Instr.n <= Len(stack)
      BY <1>1, <2>2
    <3>2. tt \in Seq(Value) /\ Agree(tt, stack, Top.base)
      BY <2>2, <3>1, Cut, OwnValues DEF Drop
    <3>3. Straight(tt)
      BY <2>4
    <3> HIDE DEF tt
    <3> QED
      BY <1>2, <1>3, <2>2, <3>2, <3>3, StraightKeeps
  <2> QED
    BY <1>4, <2>3, <2>4 DEF Operate
<1>5. CASE CopyObjectRest
  <2>1. On("copy_object_rest")
    BY <1>5 DEF CopyObjectRest
  <2>2. /\ Running /\ Instr.v \in Value
        /\ Top.base <= Len(stack) - 2 /\ Len(stack) - 2 \in Nat
    BY <2>1, Fetched, Operands
  <2>3. CASE /\ PropagateThrow(Throw(Instr.v), Advanced, Top.pc, Boundary,
                               <<Val("obj", "rest")>>)
             /\ UNCHANGED <<prog, loops, gens, suspended>>
    <3> DEFINE extra == <<Val("obj", "rest")>>
    <3>1. extra \in Seq(Value)
      BY OwnValues
    <3>2. PropagateThrow(Throw(Instr.v), Advanced, Top.pc, Boundary, extra)
      BY <2>3
    <3> HIDE DEF extra
    <3>3. Routed(frames, loops)
      BY <2>2, <3>1, <3>2, InstructionThrows
    <3> QED
      BY <1>2, <1>3, <2>2, <2>3, <3>3, CompletionKeeps
  <2>4. CASE Straight(Append(Drop(2), Val("obj", "rest")))
    <3> DEFINE tt == Append(Drop(2), Val("obj", "rest"))
    <3>1. Len(stack) - 2 <= Len(stack)
      BY <1>1, <2>2
    <3>2. tt \in Seq(Value) /\ Agree(tt, stack, Top.base)
      BY <2>2, <3>1, Cut, OwnValues DEF Drop
    <3>3. Straight(tt)
      BY <2>4
    <3> HIDE DEF tt
    <3> QED
      BY <1>2, <1>3, <2>2, <3>2, <3>3, StraightKeeps
  <2> QED
    BY <1>5, <2>3, <2>4 DEF CopyObjectRest
<1>6. CASE GetIterator
  <2>1. On("get_iterator")
    BY <1>6 DEF GetIterator
  <2>2. Running
    BY <2>1, Fetched
  <2>3. CASE /\ PropagateThrow(Throw(TypeErr), Advanced, Top.pc, Boundary, <<>>)
             /\ UNCHANGED <<prog, loops, gens, suspended>>
    <3>1. Routed(frames, loops)
      BY <2>2, <2>3, InstructionThrows, EmptySeq, OwnValues
    <3> QED
      BY <1>2, <1>3, <2>2, <2>3, <3>1, CompletionKeeps
  <2>4. CASE Straight(Append(stack, Val("fn", "next")))
    <3> DEFINE tt == Append(stack, Val("fn", "next"))
    <3>1. tt \in Seq(Value) /\ Agree(tt, stack, Top.base)
      BY <2>2, Pushed, OwnValues
    <3>2. Straight(tt)
      BY <2>4
    <3> HIDE DEF tt
    <3> QED
      BY <1>2, <1>3, <2>2, <3>1, <3>2, StraightKeeps
  <2> QED
    BY <1>6, <2>3, <2>4 DEF GetIterator
<1> QED
  BY <1>4, <1>5, <1>6

LEMMA FrameActions ==
  ASSUME ExecInv, SetLocal \/ Jump \/ JumpIfFalse
  PROVE  ExecInv' /\ Below
<1>1. PICK op \in {"set_local", "jump", "jump_if_false"} : On(op)
  BY DEF SetLocal, Jump, JumpIfFalse
<1>2. Running /\ Instr.n \in Nat /\ stack \in Seq(Value) /\ Len(stack) \in Nat
  BY <1>1, Fetched DEF ExecInv, TypeOK
<1>3. Top \in Frame
  BY <1>2, RunningFrame
<1>4. CASE SetLocal
  <2> DEFINE f == [Stepped EXCEPT !.locals[Instr.n] = Peek]
  <2>1. On("set_local") /\ frames' = WithTop(f)
        /\ UNCHANGED <<prog, stack, loops, gens, suspended, result, log, inputs>>
    BY <1>4 DEF SetLocal
  <2>2. Peek \in Value
    BY <2>1, Operands, PeekTyped
  <2>3. SameFrame(f)
    BY <1>3, <2>2, SteppedIsSame
  <2> HIDE DEF f
  <2> QED
    BY <1>2, <2>1, <2>3, Pushed, FrameKeeps
<1>5. CASE Jump
  <2> DEFINE f == [Stepped EXCEPT !.pc = Instr.n]
  <2>1. frames' = WithTop(f)
        /\ UNCHANGED <<prog, stack, loops, gens, suspended, result, log, inputs>>
    BY <1>5 DEF Jump, Goto
  <2>2. SameFrame(f)
    BY <1>2, <1>3, SteppedIsSame
  <2> HIDE DEF f
  <2> QED
    BY <1>2, <2>1, <2>2, Pushed, FrameKeeps
<1>6. CASE JumpIfFalse
  <2>1. PICK f \in {Stepped, [Stepped EXCEPT !.pc = Instr.n]} :
           frames' = WithTop(f)
    BY <1>6 DEF JumpIfFalse, Goto, Advanced
  <2>2. SameFrame(f)
    BY <1>2, <1>3, SteppedIsSame
  <2>3. stack' = Drop(1) /\ On("jump_if_false")
        /\ UNCHANGED <<prog, loops, gens, suspended, result, log, inputs>>
    BY <1>6 DEF JumpIfFalse
  <2>4. /\ Top.base <= Len(stack) - 1 /\ Len(stack) - 1 \in Nat
        /\ Len(stack) - 1 <= Len(stack)
    BY <1>2, <2>3, Operands
  <2>5. Drop(1) \in Seq(Value) /\ Agree(Drop(1), stack, Top.base)
    BY <1>2, <2>4, Cut DEF Drop
  <2> QED
    BY <1>2, <2>1, <2>2, <2>3, <2>5, FrameKeeps
<1> QED
  BY <1>4, <1>5, <1>6

LEMMA AbruptActions ==
  ASSUME ExecInv, BreakOrContinue \/ ThrowOp \/ CallThrows
  PROVE  ExecInv' /\ Below
<1>1. PICK op \in {"break", "continue", "throw", "call", "construct"} : On(op)
  BY DEF BreakOrContinue, ThrowOp, CallThrows
<1>2. Running /\ Instr.n \in Nat
  BY <1>1, Fetched
<1>3. SameFrame(Stepped)
  BY <1>2, RunningFrame, SteppedIsSame
<1>4. /\ UNCHANGED <<prog, loops, gens, suspended>>
      /\ log' \in Seq(STRING) /\ inputs' \in Seq(BOOLEAN)
  BY DEF BreakOrContinue, ThrowOp, CallThrows, ExecInv, TypeOK
<1>5. PICK c \in Completion : Propagate(c, WithTop(Stepped), Top.pc)
  <2>1. CASE BreakOrContinue
    <3>1. Instr.op \in {"break", "continue"}
      BY <2>1, Fetched DEF BreakOrContinue
    <3>2. Jumping(Instr.op, Instr.n) \in Completion
      BY <1>2, <3>1, OwnValues DEF Jumping, Completion
    <3> QED
      BY <2>1, <3>2 DEF BreakOrContinue, Advanced
  <2>2. CASE ThrowOp
    <3>1. Peek \in Value
      BY <2>2, Operands, PeekTyped DEF ThrowOp
    <3>2. Throw(Peek) \in Completion
      BY <3>1 DEF Throw, Completion, NoTarget
    <3> QED
      BY <2>2, <3>2 DEF ThrowOp, Advanced
  <2>3. CASE CallThrows
    <3>1. Throw(TypeErr) \in Completion
      BY OwnValues DEF Throw, Completion, NoTarget
    <3> QED
      BY <2>3, <3>1 DEF CallThrows, Advanced
  <2> QED
    BY <2>1, <2>2, <2>3
<1>6. Routed(frames, loops)
  BY <1>2, <1>3, <1>5, PropagateRouted
<1> QED
  BY <1>2, <1>4, <1>6, CompletionKeeps

LEMMA EndFinallyAction ==
  ASSUME ExecInv, EndFinally
  PROVE  ExecInv' /\ Below
<1> DEFINE p == Top.pending
           owed == p # <<>> /\ p[Len(p)].finally_start = Instr.n
           rest == SubSeq(p, 1, Len(p) - 1)
           f == [Stepped EXCEPT !.pending = rest]
<1>1. /\ \/ owed /\ Propagate(p[Len(p)].completion, WithTop(f), Top.pc)
         \/ frames' = Advanced /\ UNCHANGED <<stack, result>>
      /\ UNCHANGED <<prog, loops, gens, suspended, log, inputs>>
  BY DEF EndFinally
<1>2. Running
  BY Fetched DEF EndFinally
<1>3. Top \in Frame
  BY <1>2, RunningFrame
<1>4. p \in Seq(PendingFinally)
  BY <1>3 DEF Frame
<1>5. log' \in Seq(STRING) /\ inputs' \in Seq(BOOLEAN)
  BY <1>1 DEF ExecInv, TypeOK
<1>6. CASE owed /\ Propagate(p[Len(p)].completion, WithTop(f), Top.pc)
  <2>1. Len(p) \in 1 .. Len(p) /\ Len(p) - 1 \in Nat /\ Len(p) - 1 <= Len(p)
    BY <1>4, <1>6
  <2>2. p[Len(p)] \in PendingFinally
    BY <1>4, <2>1, ElementOfSeq
  <2>3. p[Len(p)].completion \in Completion
    BY <2>2 DEF PendingFinally
  <2>4. rest \in Seq(PendingFinally)
    BY <1>4, <2>1, Prefix
  <2> HIDE DEF rest
  <2>5. SameFrame(f)
    BY <1>3, <2>4, SteppedIsSame
  <2> HIDE DEF f, p
  <2>6. Routed(frames, loops)
    BY <1>2, <1>6, <2>3, <2>5, PropagateRouted
  <2> QED
    BY <1>1, <1>2, <1>5, <2>6, CompletionKeeps
<1>7. CASE frames' = Advanced /\ UNCHANGED <<stack, result>>
  <2>1. SameFrame(Stepped)
    BY <1>3, SteppedIsSame
  <2> HIDE DEF p
  <2> QED
    BY <1>1, <1>2, <1>7, <2>1, Pushed, FrameKeeps DEF Advanced
<1> QED
  BY <1>1, <1>6, <1>7

\* A change of the state of one generator object.
LEMMA StateChanged ==
  ASSUME ExecInv, NEW g, NEW s \in {"executing", "completed"},
         gens' = [gens EXCEPT ![g].state = s], UNCHANGED prog
  PROVE  gens' \in [GenIds -> Generator] /\ GeneratorsSaved'
<1>1. gens \in [GenIds -> Generator] /\ GeneratorsSaved
  BY DEF ExecInv, TypeOK
<1>2. ASSUME NEW x \in GenIds
      PROVE  /\ gens'[x] \in Generator /\ gens'[x].chunk = gens[x].chunk
             /\ gens'[x].state \in {s, gens[x].state}
             /\ gens'[x].state = gens[x].state \/ gens'[x].state = s
  <2>1. gens[x] \in Generator
    BY <1>1
  <2>2. CASE x = g
    <3>1. gens'[x] = [gens[x] EXCEPT !.state = s]
      BY <1>1, <2>2
    <3> QED
      BY <2>1, <3>1 DEF Generator
  <2>3. CASE x # g
    BY <1>1, <2>1, <2>3
  <2> QED
    BY <2>2, <2>3
<1>3. gens' \in [GenIds -> Generator]
  BY <1>1, <1>2
<1>4. GeneratorsSaved'
  BY <1>1, <1>2 DEF GeneratorsSaved
<1> QED
  BY <1>3, <1>4

LEMMA ReturnAction ==
  ASSUME ExecInv, ReturnOp
  PROVE  ExecInv' /\ Below
<1>1. /\ On("return") /\ Propagate(Return(Peek), WithTop(Stepped), Top.pc)
      /\ UNCHANGED <<prog, loops, suspended, log, inputs>>
  BY DEF ReturnOp, Advanced
<1>2. Running
  BY <1>1, Fetched
<1>3. Return(Peek) \in Completion
  BY <1>1, Operands, PeekTyped DEF Return, Completion, NoTarget
<1>4. SameFrame(Stepped)
  BY <1>2, RunningFrame, SteppedIsSame
<1>5. Routed(frames, loops)
  BY <1>1, <1>2, <1>3, <1>4, PropagateRouted
<1>6. gens' \in [GenIds -> Generator] /\ GeneratorsSaved'
  <2>1. \/ gens' = [gens EXCEPT ![loops[Len(loops)].gen].state = "completed"]
        \/ gens' = gens
    BY DEF ReturnOp
  <2>2. CASE gens' = gens
    BY <1>1, <2>2 DEF ExecInv, TypeOK, GeneratorsSaved
  <2> QED
    BY <1>1, <2>1, <2>2, StateChanged
<1>7. /\ suspended' \in BOOLEAN /\ log' \in Seq(STRING)
      /\ inputs' \in Seq(BOOLEAN)
  BY <1>1 DEF ExecInv, TypeOK
<1> QED
  BY <1>1, <1>2, <1>5, <1>6, <1>7, RoutedKeeps

LEMMA YieldAction ==
  ASSUME ExecInv, Yield
  PROVE  ExecInv' /\ Below
<1> DEFINE n == Len(frames)
           l == Len(loops)
           g == loops[l].gen
           saved == SubSeq(stack, Top.base + 1, Len(stack) - 1)
           s == [state |-> "suspended_yield", chunk |-> Top.chunk,
                 pc |-> Top.pc + 1, last |-> Top.pc, locals |-> Top.locals,
                 stack |-> saved]
<1>1. /\ On("yield") /\ gens' = [gens EXCEPT ![g] = s]
      /\ stack' = SubSeq(stack, 1, Top.base)
      /\ frames' = SubSeq(frames, 1, n - 1)
      /\ suspended' = TRUE /\ result' = Normal(Peek)
      /\ UNCHANGED <<prog, loops, log, inputs>>
  BY DEF Yield, Resize
<1>2. /\ Running /\ prog[Top.chunk].generator /\ Peek \in Value
      /\ g # NoGen /\ Len(stack) - 1 \in Nat
  BY <1>1, Fetched, Operands, PeekTyped
<1>3. /\ n \in Nat /\ n \in 1 .. n /\ l \in Nat /\ l \in 1 .. l
      /\ Len(stack) \in Nat
      /\ Top \in Frame /\ Top.base \in Nat /\ Top.pc \in Nat
      /\ loops[l] \in Loop /\ Boundary \in Nat /\ Boundary < n
      /\ Nests(frames, stack, loops, TRUE) /\ GeneratorFrames(frames, loops)
  BY <1>2, RunningFrame
<1>4. Boundary = n - 1
  <2>1. PICK k \in 1 .. l : loops[k].boundary = n - 1
    BY <1>2, <1>3 DEF GeneratorFrames, Top
  <2>2. k = l \/ k < l
    BY <1>3
  <2>3. k < l => loops[k].boundary < Boundary
    BY <1>3 DEF Nests, Boundary
  <2> QED
    BY <1>3, <2>1, <2>2, <2>3 DEF Boundary
<1>5. /\ frames \in Seq(Frame) /\ stack \in Seq(Value) /\ loops \in Seq(Loop)
      /\ loops # <<>> /\ gens \in [GenIds -> Generator] /\ GeneratorsSaved
  BY <1>2 DEF ExecInv, TypeOK, Running
<1>6. Step(frames, stack, loops, frames', stack', FALSE)
  <2>1. n = Boundary + 1
    BY <1>3, <1>4
  <2>2. /\ frames' = SubSeq(frames, 1, loops[l].boundary)
        /\ stack' = SubSeq(stack, 1, frames[loops[l].boundary + 1].base)
    BY <1>1, <1>4, <2>1 DEF Boundary, Top
  <2> QED
    BY <1>3, <1>5, <2>2, Left
<1>7. result' \in Completion /\ result'.type = "normal"
  BY <1>1, <1>2 DEF Normal, Completion, NoTarget
<1>8. Routed(frames, loops)
  BY <1>6, <1>7 DEF Routed
<1>9. saved \in Seq(Value)
  <2>1. \A i \in Top.base + 1 .. Len(stack) - 1 : i \in 1 .. Len(stack)
    BY <1>3
  <2>2. \A i \in Top.base + 1 .. Len(stack) - 1 : stack[i] \in Value
    BY <1>5, <2>1
  <2>3. Top.base + 1 \in Int /\ Len(stack) - 1 \in Int
    BY <1>3
  <2> QED
    BY <2>2, <2>3, SubSeqProperties
<1> HIDE DEF saved
<1>10. s \in Generator /\ s.chunk = Top.chunk
  <2>1. /\ Top.chunk \in Names /\ Top.pc + 1 \in Nat /\ Top.pc \in Nat
        /\ Top.locals \in [Slots -> Value]
    BY <1>3 DEF Frame
  <2> QED
    BY <1>9, <2>1 DEF Generator
<1> HIDE DEF s
<1>11. gens' \in [GenIds -> Generator]
  BY <1>1, <1>5, <1>10
<1>12. GeneratorsSaved'
  <2>1. ASSUME NEW x \in GenIds
        PROVE  gens'[x] = gens[x] \/ prog[gens'[x].chunk].generator
    BY <1>1, <1>2, <1>5, <1>10
  <2> QED
    BY <1>1, <1>5, <2>1 DEF GeneratorsSaved
<1>13. /\ suspended' \in BOOLEAN /\ log' \in Seq(STRING)
       /\ inputs' \in Seq(BOOLEAN)
  BY <1>1 DEF ExecInv, TypeOK
<1> QED
  BY <1>1, <1>2, <1>8, <1>11, <1>12, <1>13, RoutedKeeps

-----------------------------------------------------------------------------
(* Calls.                                                                  *)

LEMMA FailingActions ==
  ASSUME ExecInv, CallAborts \/ NextExecuting \/ Underflow
  PROVE  ExecInv' /\ Below
<1>1. Running
  <2>1. CASE CallAborts
    BY <2>1, Fetched DEF CallAborts
  <2>2. CASE NextExecuting
    <3>1. On("call") \/ On("iterator_next")
      BY <2>2 DEF NextExecuting, NextOf
    <3> QED
      BY <3>1, Fetched
  <2>3. CASE Underflow
    BY <2>3 DEF Underflow
  <2> QED
    BY <2>1, <2>2, <2>3
<1>2. Fail /\ UNCHANGED <<prog, loops, gens, suspended, log, inputs>>
  BY DEF CallAborts, NextExecuting, Underflow
<1> QED
  BY <1>1, <1>2, FailKeeps

LEMMA NewFrameTyped ==
  ASSUME NEW name \in Names, NEW base \in Nat, NEW receiver \in Value
  PROVE  /\ NewFrame(name, base, receiver) \in Frame
         /\ NewFrame(name, base, receiver).base = base
         /\ NewFrame(name, base, receiver).chunk = name
<1>1. <<>> \in Seq(PendingFinally)
  BY EmptySeq
<1>2. [s \in Slots |-> Undef] \in [Slots -> Value]
  BY OwnValues
<1> DEFINE locals == [s \in Slots |-> Undef]
           none == <<>>
<1>3. NewFrame(name, base, receiver) =
        [chunk |-> name, pc |-> 1, last |-> 1, base |-> base,
         locals |-> locals, pending |-> none, receiver |-> receiver]
  BY DEF NewFrame
<1>4. locals \in [Slots -> Value] /\ none \in Seq(PendingFinally)
  BY <1>1, <1>2
<1> HIDE DEF locals, none
<1> QED
  BY <1>3, <1>4 DEF Frame

LEMMA PushFrameActions ==
  ASSUME ExecInv, CallFunction \/ ConstructFunction
  PROVE  ExecInv' /\ Below
<1>1. PICK receiver \in Value : PushFrame(receiver)
  BY OwnValues DEF CallFunction, ConstructFunction
<1>2. PICK op \in {"call", "construct"} : On(op)
  BY DEF CallFunction, ConstructFunction
<1>3. /\ Running /\ Instr.n \in Nat
      /\ Top.base <= Len(stack) - Instr.n - 1 /\ Len(stack) - Instr.n - 1 \in Nat
  BY <1>2, Fetched, Operands
<1>4. /\ OpBase \in Nat /\ Top.base <= OpBase /\ OpBase <= Len(stack)
      /\ Top.base \in Nat
  BY <1>3, RunningFrame DEF OpBase, Argc
<1> DEFINE fs == WithTop(Stepped)
           f == NewFrame(Callee.id, OpBase, receiver)
           tt == SubSeq(stack, 1, OpBase)
<1>5. /\ IsBytecode(Callee) /\ frames' = Append(fs, f) /\ stack' = tt
      /\ UNCHANGED <<prog, loops, gens, suspended, result, log, inputs>>
  BY <1>1 DEF PushFrame, Advanced, Resize
<1>6. Callee.id \in Names /\ ~prog[Callee.id].generator
  BY <1>5 DEF IsBytecode, HasCode
<1>7. f \in Frame /\ f.base = OpBase /\ f.chunk = Callee.id
  BY <1>4, <1>6, NewFrameTyped
<1>8. tt \in Seq(Value) /\ Len(tt) = OpBase /\ Agree(tt, stack, Top.base)
  BY <1>3, <1>4, Cut
<1>9. SameFrame(Stepped)
  BY <1>3, RunningFrame, SteppedIsSame
<1>10. /\ fs \in Seq(Frame) /\ Len(fs) = Len(frames)
       /\ fs[Len(frames)] = Stepped
       /\ \A i \in 1 .. Len(frames) - 1 : fs[i] = frames[i]
       /\ \A i \in 1 .. Len(frames) : fs[i].chunk = frames[i].chunk
       /\ Nests(fs, stack, loops, TRUE)
  BY <1>3, <1>9, ReplaceTop, RunningFrame DEF ExecInv, TypeOK
<1>11. /\ Len(frames) \in Nat /\ Len(frames) \in 1 .. Len(frames)
       /\ Boundary \in Nat /\ Boundary < Len(frames)
       /\ GeneratorFrames(frames, loops)
       /\ loops[Len(loops)].opbase \in Nat
       /\ loops[Len(loops)].opbase <= Top.base
  BY <1>3, RunningFrame
<1>12. stack \in Seq(Value) /\ loops \in Seq(Loop) /\ loops # <<>>
  BY <1>3 DEF ExecInv, TypeOK, Running
<1> HIDE DEF fs, f, tt
<1>13. fs[Len(fs)].base <= f.base /\ f.base <= Len(tt)
  BY <1>4, <1>7, <1>8, <1>9, <1>10 DEF SameFrame
<1>14. Nests(Append(fs, f), tt, loops, TRUE)
  BY <1>7, <1>8, <1>10, <1>12, <1>13, NestsPushed
<1>15. /\ frames' \in Seq(Frame) /\ Len(frames') = Len(frames) + 1
       /\ \A i \in 1 .. Len(frames) : frames'[i] = fs[i]
       /\ frames'[Len(frames) + 1] = f
  <2>1. /\ Append(fs, f) \in Seq(Frame) /\ Len(Append(fs, f)) = Len(fs) + 1
        /\ \A i \in 1 .. Len(fs) : Append(fs, f)[i] = fs[i]
        /\ Append(fs, f)[Len(fs) + 1] = f
    BY <1>7, <1>10, AppendProperties
  <2> QED
    BY <1>5, <1>10, <2>1
<1>16. result.type = "none"
  BY <1>3 DEF Running
<1>17. TypeOK'
  BY <1>5, <1>8, <1>15 DEF ExecInv, TypeOK
<1>18. StackDiscipline'
  BY <1>5, <1>14, <1>16 DEF StackDiscipline
<1>19. GeneratorFrames(frames', loops)
  <2>1. ASSUME NEW i \in 1 .. Len(frames'), prog[frames'[i].chunk].generator
        PROVE  \E k \in 1 .. Len(loops) : loops[k].boundary = i - 1
    <3>1. i \in 1 .. Len(frames) \/ i = Len(frames) + 1
      BY <1>11, <1>15
    <3>2. i # Len(frames) + 1
      BY <1>6, <1>7, <1>15, <2>1
    <3>3. frames'[i].chunk = frames[i].chunk
      BY <1>10, <1>15, <3>1, <3>2
    <3> QED
      BY <1>11, <2>1, <3>1, <3>2, <3>3 DEF GeneratorFrames
  <2> QED
    BY <2>1 DEF GeneratorFrames
<1>20. GeneratorFrames(frames, loops)' /\ GeneratorsSaved'
  BY <1>5, <1>19 DEF GeneratorFrames, GeneratorsSaved, ExecInv
<1>21. Agree(frames', frames, Boundary)
  <2>1. /\ Boundary <= Len(frames) /\ Boundary <= Len(frames')
        /\ \A i \in 1 .. Boundary : i \in 1 .. Len(frames) - 1
        /\ \A i \in 1 .. Boundary : i \in 1 .. Len(frames)
    BY <1>11, <1>15
  <2> QED
    BY <1>10, <1>15, <2>1 DEF Agree
<1>22. Agree(stack', stack, loops[Len(loops)].opbase)
  <2>1. /\ \A i \in 1 .. loops[Len(loops)].opbase : i \in 1 .. Top.base
        /\ loops[Len(loops)].opbase <= OpBase
        /\ loops[Len(loops)].opbase <= Len(stack)
    BY <1>4, <1>11, <1>12
  <2> QED
    BY <1>5, <1>8, <2>1 DEF Agree
<1> QED
  BY <1>5, <1>17, <1>18, <1>20, <1>21, <1>22 DEF ExecInv, Below

\* A nested activation starts with frame f.
LEMMA NestedKeeps ==
  ASSUME ExecInv, Running, NEW f \in Frame, NEW opbase \in Nat,
         NEW g \in GenIds \cup {NoGen}, Nested(f, opbase, g),
         Top.base <= opbase, opbase <= f.base, f.base <= Len(stack'),
         stack' \in Seq(Value), Agree(stack', stack, Top.base),
         UNCHANGED <<prog, suspended, result, log, inputs>>,
         gens' \in [GenIds -> Generator], GeneratorsSaved'
  PROVE  ExecInv' /\ Below
<1> DEFINE fs == WithTop(Stepped)
           a == [boundary |-> Len(frames), opbase |-> opbase, gen |-> g]
           l == Len(loops)
<1>1. frames' = Append(fs, f) /\ loops' = Append(loops, a)
  BY DEF Nested, Advanced
<1>2. SameFrame(Stepped)
  BY RunningFrame, SteppedIsSame
<1>3. /\ fs \in Seq(Frame) /\ Len(fs) = Len(frames)
      /\ fs[Len(frames)] = Stepped
      /\ \A i \in 1 .. Len(frames) - 1 : fs[i] = frames[i]
      /\ \A i \in 1 .. Len(frames) : fs[i].chunk = frames[i].chunk
      /\ Nests(fs, stack, loops, TRUE)
  BY <1>2, ReplaceTop, RunningFrame DEF ExecInv, TypeOK
<1>4. /\ Len(frames) \in Nat /\ Len(frames) \in 1 .. Len(frames)
      /\ Boundary \in Nat /\ Boundary < Len(frames)
      /\ GeneratorFrames(frames, loops)
      /\ loops[l].opbase \in Nat /\ loops[l].opbase <= Top.base
      /\ Top.base \in Nat /\ l \in Nat /\ l \in 1 .. l
  BY RunningFrame
<1>5. /\ stack \in Seq(Value) /\ loops \in Seq(Loop) /\ loops # <<>>
      /\ result.type = "none"
  BY DEF ExecInv, TypeOK, Running
<1>6. a \in Loop /\ a.boundary = Len(fs) /\ a.opbase = opbase
  BY <1>3, <1>4 DEF Loop
<1> HIDE DEF fs, a
<1>7. fs[Len(fs)].base <= a.opbase /\ a.opbase <= f.base
  BY <1>2, <1>3, <1>6 DEF SameFrame
<1>8. Nests(Append(fs, f), stack', Append(loops, a), TRUE)
  BY <1>3, <1>5, <1>6, <1>7, NestsEntered
<1>9. /\ frames' \in Seq(Frame) /\ Len(frames') = Len(frames) + 1
      /\ \A i \in 1 .. Len(frames) : frames'[i] = fs[i]
      /\ frames'[Len(frames) + 1] = f
  <2>1. /\ Append(fs, f) \in Seq(Frame) /\ Len(Append(fs, f)) = Len(fs) + 1
        /\ \A i \in 1 .. Len(fs) : Append(fs, f)[i] = fs[i]
        /\ Append(fs, f)[Len(fs) + 1] = f
    BY <1>3, AppendProperties
  <2> QED
    BY <1>1, <1>3, <2>1
<1>10. /\ loops' \in Seq(Loop) /\ Len(loops') = l + 1 /\ loops' # <<>>
       /\ \A k \in 1 .. l : loops'[k] = loops[k]
       /\ loops'[l + 1] = a
  BY <1>1, <1>5, <1>6, AppendProperties
<1>11. TypeOK'
  BY <1>9, <1>10 DEF ExecInv, TypeOK
<1>12. StackDiscipline'
  BY <1>1, <1>5, <1>8 DEF StackDiscipline
<1>13. ASSUME NEW i \in 1 .. Len(frames'), prog[frames'[i].chunk].generator
       PROVE  \E k \in 1 .. Len(loops') : loops'[k].boundary = i - 1
  <2>1. i \in 1 .. Len(frames) \/ i = Len(frames) + 1
    BY <1>4, <1>9
  <2>2. CASE i \in 1 .. Len(frames)
    <3>1. frames'[i].chunk = frames[i].chunk
      BY <1>3, <1>9, <2>2
    <3>2. PICK k \in 1 .. l : loops[k].boundary = i - 1
      BY <1>4, <1>13, <2>2, <3>1 DEF GeneratorFrames
    <3>3. k \in 1 .. Len(loops') /\ loops'[k].boundary = i - 1
      BY <1>4, <1>10, <3>2
    <3> QED
      BY <3>3
  <2>3. CASE i = Len(frames) + 1
    <3>1. l + 1 \in 1 .. Len(loops') /\ loops'[l + 1].boundary = i - 1
      BY <1>3, <1>4, <1>6, <1>10, <2>3
    <3> QED
      BY <3>1
  <2> QED
    BY <2>1, <2>2, <2>3
<1>14. GeneratorFrames(frames, loops)'
  BY <1>13 DEF GeneratorFrames
<1>15. Agree(frames', frames, Boundary)
  <2>1. /\ Boundary <= Len(frames) /\ Boundary <= Len(frames')
        /\ \A i \in 1 .. Boundary : i \in 1 .. Len(frames) - 1
        /\ \A i \in 1 .. Boundary : i \in 1 .. Len(frames)
    BY <1>4, <1>9
  <2> QED
    BY <1>3, <1>9, <2>1 DEF Agree
<1>16. Agree(stack', stack, loops[l].opbase)
  <2>1. Len(stack) \in Nat /\ Len(stack') \in Nat
    BY <1>5
  <2>2. /\ \A i \in 1 .. loops[l].opbase : i \in 1 .. Top.base
        /\ loops[l].opbase <= Len(stack') /\ loops[l].opbase <= Len(stack)
    BY <1>4, <2>1 DEF Agree
  <2> QED
    BY <2>2 DEF Agree
<1> QED
  BY <1>11, <1>12, <1>14, <1>15, <1>16 DEF ExecInv, Below

LEMMA NativeActions ==
  ASSUME ExecInv, CallApply \/ GetProperty
  PROVE  ExecInv' /\ Below
<1>1. /\ gens' \in [GenIds -> Generator] /\ GeneratorsSaved'
      /\ UNCHANGED <<prog, suspended, result, log, inputs>>
  BY DEF CallApply, GetProperty, ExecInv, TypeOK, GeneratorsSaved
<1>2. NoGen \in GenIds \cup {NoGen}
  OBVIOUS
<1>3. CASE CallApply
  <2>1. /\ On("call") /\ IsBytecode(Arg(1)) /\ stack' = stack
        /\ Nested(NewFrame(Arg(1).id, Len(stack), NoReceiver), OpBase, NoGen)
    BY <1>3 DEF CallApply
  <2>2. /\ Running /\ Instr.n \in Nat
        /\ Top.base <= Len(stack) - Instr.n - 1
        /\ Len(stack) - Instr.n - 1 \in Nat
    BY <2>1, Fetched, Operands
  <2>3. /\ OpBase \in Nat /\ Top.base <= OpBase /\ OpBase <= Len(stack)
        /\ Len(stack) \in Nat
    BY <2>2, RunningFrame DEF OpBase, Argc
  <2> DEFINE f == NewFrame(Arg(1).id, Len(stack), NoReceiver)
  <2>4. f \in Frame /\ f.base = Len(stack)
    BY <2>1, <2>3, NewFrameTyped, OwnValues DEF IsBytecode, HasCode
  <2>5. Nested(f, OpBase, NoGen)
    BY <2>1
  <2> HIDE DEF f
  <2>6. stack' \in Seq(Value) /\ Agree(stack', stack, Top.base)
    BY <2>1, <2>2, Pushed
  <2>7. OpBase <= f.base /\ f.base <= Len(stack')
    BY <2>1, <2>3, <2>4
  <2> QED
    BY <1>1, <1>2, <2>2, <2>3, <2>4, <2>5, <2>6, <2>7, NestedKeeps
<1>4. CASE GetProperty
  <2> DEFINE m == Len(stack) - 1
             f == NewFrame(Instr.v.id, m, NoReceiver)
  <2>1. /\ On("get_property") /\ IsBytecode(Instr.v)
        /\ stack' = SubSeq(stack, 1, m) /\ Nested(f, m, NoGen)
    BY <1>4 DEF GetProperty, Drop
  <2>2. Running /\ Top.base <= m /\ m \in Nat
    BY <2>1, Fetched, Operands
  <2>3. m <= Len(stack)
    BY <2>2, RunningFrame
  <2>4. f \in Frame /\ f.base = m
    BY <2>1, <2>2, NewFrameTyped, OwnValues DEF IsBytecode, HasCode
  <2>5. /\ stack' \in Seq(Value) /\ Len(stack') = m
        /\ Agree(stack', stack, Top.base)
    BY <2>1, <2>2, <2>3, Cut
  <2> HIDE DEF f, m
  <2>6. m <= f.base /\ f.base <= Len(stack')
    BY <2>2, <2>4, <2>5
  <2> QED
    BY <1>1, <1>2, <2>1, <2>2, <2>4, <2>5, <2>6, NestedKeeps
<1> QED
  BY <1>3, <1>4

\* Where Generator.next leaves its result, and what is below it.
LEMMA NextOperands ==
  ASSUME ExecInv, NEW g, NextOf(g)
  PROVE  /\ Running /\ NextBase \in Nat /\ Top.base <= NextBase
         /\ NextBase <= Len(stack) /\ NextStack \in Seq(Value)
         /\ NextBase <= Len(NextStack) /\ Len(NextStack) \in Nat
         /\ Agree(NextStack, stack, Top.base)
<1>1. CASE On("call") /\ Argc = 1
  <2>1. /\ Running /\ Instr.op = "call" /\ Instr.n \in Nat
        /\ Top.base <= Len(stack) - Instr.n - 1
        /\ Len(stack) - Instr.n - 1 \in Nat
    BY <1>1, Fetched, Operands
  <2>2. NextBase = Len(stack) - Instr.n - 1 /\ NextStack = stack
    BY <2>1 DEF NextBase, NextStack, OpBase, Argc
  <2>3. Len(stack) - Instr.n - 1 <= Len(stack) /\ Len(stack) \in Nat
    BY <2>1, RunningFrame
  <2> QED
    BY <2>1, <2>2, <2>3, Pushed
<1>2. CASE On("iterator_next")
  <2>1. /\ Running /\ Instr.op = "iterator_next"
        /\ Top.base <= Len(stack) - 2 /\ Len(stack) - 2 \in Nat
    BY <1>2, Fetched, Operands
  <2> DEFINE m == Len(stack) - 2
  <2>2. NextBase = m /\ NextStack = SubSeq(stack, 1, m)
    BY <2>1 DEF NextBase, NextStack, Drop
  <2>3. m <= Len(stack) /\ m \in Nat
    BY <2>1, RunningFrame
  <2>4. /\ SubSeq(stack, 1, m) \in Seq(Value)
        /\ Len(SubSeq(stack, 1, m)) = m
        /\ Agree(SubSeq(stack, 1, m), stack, Top.base)
    BY <2>1, <2>3, Cut
  <2> HIDE DEF m
  <2>5. Top.base <= m
    BY <2>1 DEF m
  <2> QED
    BY <2>1, <2>2, <2>3, <2>4, <2>5
<1> QED
  BY <1>1, <1>2 DEF NextOf

LEMMA GeneratorCalls ==
  ASSUME ExecInv, CallGenerator \/ NextCompleted
  PROVE  ExecInv' /\ Below
<1>1. log \in Seq(STRING) /\ inputs \in Seq(BOOLEAN) /\ stack \in Seq(Value)
      /\ gens \in [GenIds -> Generator] /\ GeneratorsSaved
      /\ suspended \in BOOLEAN
  BY DEF ExecInv, TypeOK
<1>2. CASE NextCompleted
  <2> DEFINE tt == Append(SubSeq(stack, 1, NextBase), Val("done", "undefined"))
  <2>1. Straight(tt) /\ UNCHANGED <<log, inputs>>
    BY <1>2 DEF NextCompleted
  <2>2. /\ Running /\ NextBase \in Nat /\ Top.base <= NextBase
        /\ NextBase <= Len(stack)
    BY <1>2, NextOperands DEF NextCompleted
  <2>3. tt \in Seq(Value) /\ Agree(tt, stack, Top.base)
    BY <2>2, Cut, OwnValues
  <2> HIDE DEF tt
  <2> QED
    BY <1>1, <2>1, <2>2, <2>3, StraightKeeps
<1>3. CASE CallGenerator
  <2> DEFINE g == CHOOSE k \in GenIds : gens[k].state = "none"
             s == [NoGenerator EXCEPT !.state = "suspended_start",
                                      !.chunk = Callee.id]
             tt == Append(SubSeq(stack, 1, OpBase), Val("gen", g))
  <2>1. /\ On("call") /\ IsGenerator(Callee) /\ g \in GenIds
        /\ gens' = [gens EXCEPT ![g] = s]
        /\ stack' = tt /\ frames' = WithTop(Stepped)
        /\ UNCHANGED <<prog, loops, suspended, result, log, inputs>>
    BY <1>3 DEF CallGenerator, Resize, Advanced
  <2> HIDE DEF g
  <2>2. /\ Running /\ Instr.n \in Nat
        /\ Top.base <= Len(stack) - Instr.n - 1
        /\ Len(stack) - Instr.n - 1 \in Nat
    BY <2>1, Fetched, Operands
  <2>3. OpBase \in Nat /\ Top.base <= OpBase /\ OpBase <= Len(stack)
    BY <2>2, RunningFrame DEF OpBase, Argc
  <2>4. Val("gen", g) \in Value
    BY <2>1, ConstantsTyped DEF Val, Value, ObjectKinds
  <2>5. tt \in Seq(Value) /\ Agree(tt, stack, Top.base)
    BY <2>2, <2>3, <2>4, Cut
  <2> HIDE DEF tt
  <2>6. SameFrame(Stepped)
    BY <2>2, RunningFrame, SteppedIsSame
  <2>7. Routed(frames, loops)
    BY <2>1, <2>2, <2>5, <2>6, Continues
  <2>8. Callee.id \in Names /\ prog[Callee.id].generator
    BY <2>1 DEF IsGenerator, HasCode
  <2>9. s \in Generator /\ s.chunk = Callee.id
    <3>1. [x \in Slots |-> Undef] \in [Slots -> Value] /\ <<>> \in Seq(Value)
      BY OwnValues, EmptySeq
    <3>2. NoGenerator \in Generator
      BY <3>1, ConstantsTyped DEF NoGenerator, Generator
    <3> QED
      BY <2>8, <3>2 DEF Generator
  <2> HIDE DEF s
  <2>10. gens' \in [GenIds -> Generator]
    BY <1>1, <2>1, <2>9
  <2>11. GeneratorsSaved'
    <3>1. ASSUME NEW x \in GenIds
          PROVE  gens'[x] = gens[x] \/ prog[gens'[x].chunk].generator
      BY <1>1, <2>1, <2>8, <2>9
    <3> QED
      BY <1>1, <2>1, <3>1 DEF GeneratorsSaved
  <2> QED
    BY <1>1, <2>1, <2>2, <2>7, <2>10, <2>11, RoutedKeeps
<1> QED
  BY <1>2, <1>3

LEMMA ResumeAction ==
  ASSUME ExecInv, ResumeGenerator
  PROVE  ExecInv' /\ Below
<1>1. PICK g \in GenIds :
        /\ NextOf(g)
        /\ gens[g].state \in {"suspended_start", "suspended_yield"}
        /\ Nested([NewFrame(gens[g].chunk, Len(NextStack), NoReceiver) EXCEPT
                     !.pc = gens[g].pc, !.last = gens[g].last,
                     !.locals = gens[g].locals],
                  NextBase, g)
        /\ stack' = NextStack \o gens[g].stack
             \o (IF gens[g].state = "suspended_yield" THEN <<Undef>> ELSE <<>>)
        /\ gens' = [gens EXCEPT ![g].state = "executing", ![g].stack = <<>>]
  BY DEF ResumeGenerator
<1>2. UNCHANGED <<prog, suspended, result, log, inputs>>
  BY DEF ResumeGenerator
<1> DEFINE s == gens[g]
           f0 == NewFrame(s.chunk, Len(NextStack), NoReceiver)
           f == [f0 EXCEPT !.pc = s.pc, !.last = s.last, !.locals = s.locals]
           sent == IF s.state = "suspended_yield" THEN <<Undef>> ELSE <<>>
           ns == NextStack
<1>3. /\ Running /\ NextBase \in Nat /\ Top.base <= NextBase
      /\ ns \in Seq(Value) /\ NextBase <= Len(ns) /\ Len(ns) \in Nat
      /\ Agree(ns, stack, Top.base)
  BY <1>1, NextOperands
<1>4. gens \in [GenIds -> Generator] /\ GeneratorsSaved /\ s \in Generator
  BY DEF ExecInv, TypeOK
<1>5. /\ s.chunk \in Names /\ s.pc \in Nat /\ s.last \in Nat
      /\ s.locals \in [Slots -> Value] /\ s.stack \in Seq(Value)
  BY <1>4 DEF Generator
<1>6. f0 \in Frame /\ f0.base = Len(ns)
  BY <1>3, <1>5, NewFrameTyped, OwnValues
<1> HIDE DEF f0
<1>7. f \in Frame /\ f.base = Len(ns)
  <2>1. [f0 EXCEPT !.pc = s.pc, !.last = s.last] \in Frame
    BY <1>5, <1>6 DEF Frame
  <2> QED
    BY <1>5, <1>6, <2>1 DEF Frame
<1>8. sent \in Seq(Value)
  <2>1. CASE s.state = "suspended_yield"
    <3>1. sent = <<Undef>>
      BY <2>1, Zenon
    <3>2. <<Undef>> \in Seq(Value)
      BY OwnValues
    <3> QED
      BY <3>1, <3>2, Zenon
  <2>2. CASE s.state # "suspended_yield"
    <3>1. sent = <<>>
      BY <2>2, Zenon
    <3> QED
      BY <3>1, EmptySeq, Zenon
  <2> QED
    BY <2>1, <2>2, Zenon
<1>9. /\ Nested(f, NextBase, g) /\ stack' = (ns \o s.stack) \o sent
      /\ gens' = [gens EXCEPT ![g].state = "executing", ![g].stack = <<>>]
  BY <1>1 DEF f0
<1> HIDE DEF f, sent, ns
<1>10. /\ stack' \in Seq(Value) /\ Len(stack') \in Nat /\ Len(ns) <= Len(stack')
       /\ \A i \in 1 .. Len(ns) : stack'[i] = ns[i]
  <2> DEFINE mid == ns \o s.stack
  <2>1. /\ mid \in Seq(Value) /\ Len(mid) = Len(ns) + Len(s.stack)
        /\ \A i \in 1 .. Len(ns) + Len(s.stack) :
             mid[i] = IF i <= Len(ns) THEN ns[i] ELSE s.stack[i - Len(ns)]
    BY <1>3, <1>5, ConcatProperties
  <2>2. stack' = mid \o sent
    BY <1>9
  <2> HIDE DEF mid
  <2>3. /\ stack' \in Seq(Value) /\ Len(stack') = Len(mid) + Len(sent)
        /\ \A i \in 1 .. Len(mid) + Len(sent) :
             stack'[i] = IF i <= Len(mid) THEN mid[i] ELSE sent[i - Len(mid)]
    <3>0. mid \in Seq(Value)
      BY <2>1
    <3>1. /\ mid \o sent \in Seq(Value)
          /\ Len(mid \o sent) = Len(mid) + Len(sent)
          /\ \A i \in 1 .. Len(mid) + Len(sent) :
               (mid \o sent)[i] =
                  IF i <= Len(mid) THEN mid[i] ELSE sent[i - Len(mid)]
      BY <1>8, <3>0, ConcatProperties
    <3> QED
      BY <2>2, <3>1, Zenon
  <2>4. Len(s.stack) \in Nat /\ Len(sent) \in Nat /\ Len(mid) \in Nat
    BY <1>5, <1>8, <2>1
  <2>5. Len(ns) <= Len(mid) /\ Len(ns) <= Len(stack')
    BY <1>3, <2>1, <2>3, <2>4
  <2>6. ASSUME NEW i \in 1 .. Len(ns) PROVE stack'[i] = ns[i]
    <3>1. /\ i \in 1 .. Len(ns) + Len(s.stack) /\ i <= Len(ns)
          /\ i \in 1 .. Len(mid) + Len(sent) /\ i <= Len(mid)
      BY <1>3, <2>1, <2>4, <2>5
    <3> QED
      BY <2>1, <2>3, <3>1
  <2> QED
    BY <2>3, <2>5, <2>6
<1>11. Agree(stack', stack, Top.base)
  <2>1. Top.base \in Nat /\ Top.base <= Len(stack) /\ Len(stack) \in Nat
    BY <1>3, RunningFrame
  <2>2. Top.base <= Len(ns) /\ \A i \in 1 .. Top.base : ns[i] = stack[i]
    BY <1>3 DEF Agree
  <2>3. /\ Top.base <= Len(stack')
        /\ \A i \in 1 .. Top.base : i \in 1 .. Len(ns)
    BY <1>3, <1>10, <2>1, <2>2
  <2> QED
    BY <1>10, <2>1, <2>2, <2>3 DEF Agree
<1>12. ASSUME NEW x \in GenIds
       PROVE  /\ gens'[x] \in Generator
              /\ gens'[x] = gens[x] \/ gens'[x].state = "executing"
  <2>1. CASE x = g
    <3> DEFINE none == <<>>
    <3>1. gens'[x] = [[s EXCEPT !.state = "executing"] EXCEPT !.stack = none]
      BY <1>4, <1>9, <2>1
    <3>2. none \in Seq(Value)
      BY EmptySeq
    <3> HIDE DEF none
    <3>3. [s EXCEPT !.state = "executing"] \in Generator
      BY <1>4 DEF Generator
    <3> QED
      BY <1>4, <3>1, <3>2, <3>3 DEF Generator
  <2>2. CASE x # g
    BY <1>4, <1>9, <2>2
  <2> QED
    BY <2>1, <2>2
<1>13. gens' \in [GenIds -> Generator]
  BY <1>4, <1>9, <1>12
<1>14. GeneratorsSaved'
  BY <1>2, <1>4, <1>12 DEF GeneratorsSaved
<1>15. NextBase <= f.base /\ f.base <= Len(stack') /\ g \in GenIds \cup {NoGen}
  BY <1>3, <1>7, <1>10
<1> QED
  BY <1>2, <1>3, <1>7, <1>9, <1>10, <1>11, <1>13, <1>14, <1>15, NestedKeeps

-----------------------------------------------------------------------------
(* The return of an activation.                                            *)

LEMMA ReturnsAction ==
  ASSUME ExecInv, LoopReturns
  PROVE  ExecInv' /\ Below
<1> DEFINE l == loops[Len(loops)]
           ms == SubSeq(loops, 1, Len(loops) - 1)
<1>1. /\ result.type # "none" /\ Len(loops) > 1 /\ loops' = ms
      /\ gens' = Settled(l)
      /\ suspended' = FlagCleared(l)
      /\ UNCHANGED <<prog, log, inputs>>
  BY DEF LoopReturns
<1>2. /\ frames \in Seq(Frame) /\ stack \in Seq(Value) /\ loops \in Seq(Loop)
      /\ gens \in [GenIds -> Generator] /\ GeneratorsSaved
      /\ prog \in Programs
      /\ result \in Completion \cup {NoResult, Failure}
      /\ result.type \in {"none", "normal", "throw", "failure"}
      /\ log \in Seq(STRING) /\ inputs \in Seq(BOOLEAN)
  BY DEF ExecInv, TypeOK
<1>3. /\ Len(loops) \in Nat /\ ms \in Seq(Loop) /\ Len(ms) = Len(loops) - 1
      /\ \A k \in 1 .. Len(loops) - 1 : ms[k] = loops[k]
  <2>1. Len(loops) - 1 \in Nat /\ Len(loops) - 1 <= Len(loops)
        /\ Len(loops) \in Nat
    BY <1>1, <1>2
  <2> QED
    BY <1>2, <2>1, Prefix
<1> HIDE DEF ms
<1>4. gens' \in [GenIds -> Generator] /\ GeneratorsSaved'
  <2>1. \/ gens' = [gens EXCEPT ![l.gen].state = "completed"]
        \/ gens' = gens
    BY <1>1 DEF Settled
  <2>2. CASE gens' = gens
    BY <1>1, <1>2, <2>2 DEF GeneratorsSaved
  <2> QED
    BY <1>1, <2>1, <2>2, StateChanged
<1>5. suspended' \in BOOLEAN
  BY <1>1 DEF FlagCleared
<1>6. Below
  <2>1. ~(Len(loops') >= Len(loops))
    BY <1>1, <1>3
  <2> QED
    BY <2>1 DEF Below
<1>7. CASE result.type = "failure"
  <2>1. UNCHANGED <<frames, stack, result>>
    BY <1>7 DEF LoopReturns, FailureReturns
  <2>2. Failed' /\ TypeOK'
    BY <1>1, <1>2, <1>3, <1>4, <1>5, <1>7, <2>1 DEF Failed, TypeOK
  <2> QED
    BY <1>1, <1>2, <1>4, <1>6, <2>2 DEF ExecInv, StackDiscipline
<1>8. CASE result.type # "failure"
  <2>1. /\ Nests(frames, stack, loops, FALSE) /\ GeneratorFrames(frames, loops)
    <3>1. ~Ended /\ ~Failed
      BY <1>1, <1>2, <1>8 DEF Ended, Failed
    <3> QED
      BY <1>1, <3>1 DEF ExecInv, StackDiscipline
  <2>2. /\ ms # <<>> /\ Nests(frames, stack, ms, TRUE)
        /\ frames # <<>> /\ Len(frames) = l.boundary
        /\ frames[Len(frames)].base <= l.opbase
        /\ l.opbase <= Len(stack)
    BY <1>1, <1>2, <2>1, NestsResumed DEF ms
  <2>3. l \in Loop /\ l.opbase \in Nat /\ Len(frames) \in Nat
        /\ Len(stack) \in Nat
    <3>1. Len(loops) \in 1 .. Len(loops)
      BY <1>1, <1>3
    <3>2. l \in Loop
      BY <1>2, <3>1, ElementOfSeq
    <3> QED
      BY <1>2, <3>2 DEF Loop
  <2>4. Routed(frames, ms)
    <3>1. CASE result.type = "normal"
      <4> DEFINE v == Delivered(l)
                 cut == SubSeq(stack, 1, l.opbase)
      <4>1. stack' = Append(cut, v) /\ result' = NoResult /\ frames' = frames
        BY <3>1 DEF LoopReturns, Resize
      <4>2. result \in Completion
        BY <1>2, <3>1 DEF NoResult, Failure
      <4>3. v \in Value
        <5>1. result.value \in Value
          BY <4>2 DEF Completion
        <5>2. result.value.id \in STRING
          BY <5>1 DEF Value
        <5>3. /\ Val("more", result.value.id) \in Value
              /\ Val("done", result.value.id) \in Value
          BY <5>2 DEF Val, Value, ObjectKinds
        <5> QED
          BY <5>1, <5>3 DEF Delivered
      <4>4. /\ cut \in Seq(Value) /\ Len(cut) = l.opbase
            /\ \A i \in 1 .. l.opbase : cut[i] = stack[i]
        BY <1>2, <2>2, <2>3, Prefix
      <4> HIDE DEF v, cut
      <4>5. /\ stack' \in Seq(Value) /\ Len(stack') = l.opbase + 1
            /\ \A i \in 1 .. l.opbase : stack'[i] = stack[i]
        <5>1. /\ Append(cut, v) \in Seq(Value)
              /\ Len(Append(cut, v)) = Len(cut) + 1
              /\ \A i \in 1 .. Len(cut) : Append(cut, v)[i] = cut[i]
          BY <4>3, <4>4, AppendProperties
        <5> QED
          BY <4>1, <4>4, <5>1
      <4>6. Len(frames) \in 1 .. Len(frames)
        BY <1>2, <2>2, <2>3
      <4>7. frames[Len(frames)].base \in Nat
        BY <1>2, <4>6, BasesTyped
      <4>8. Agree(stack', stack, frames[Len(frames)].base)
        <5>1. /\ \A i \in 1 .. frames[Len(frames)].base : i \in 1 .. l.opbase
              /\ frames[Len(frames)].base <= Len(stack')
              /\ frames[Len(frames)].base <= Len(stack)
          BY <2>2, <2>3, <4>5, <4>7, SMTT(60)
        <5> QED
          BY <4>5, <5>1 DEF Agree
      <4>9. ms[Len(ms)].boundary < Len(frames)
        BY <2>2 DEF Nests
      <4>10. Len(frames) <= Len(frames)
        BY <2>3
      <4>11. Step(frames, stack, ms, frames, stack', TRUE)
        BY <1>2, <1>3, <2>2, <4>5, <4>8, <4>9, <4>10, Unwound
      <4> QED
        BY <4>1, <4>11 DEF Routed, NoResult
    <3>2. CASE result.type = "throw"
      <4> DEFINE none == <<>>
      <4>1. PropagateThrow(result, frames, Top.last, ms[Len(ms)].boundary, none)
        BY <3>2 DEF LoopReturns, ms
      <4>2. result \in Completion
        BY <1>2, <3>2 DEF NoResult, Failure
      <4>3. none \in Seq(Value)
        BY EmptySeq
      <4> HIDE DEF none
      <4> QED
        BY <1>2, <1>3, <2>2, <3>2, <4>1, <4>2, <4>3, ThrowRouted
    <3> QED
      BY <1>1, <1>2, <1>8, <3>1, <3>2
  <2>5. /\ result' \in Completion \cup {NoResult}
        /\ result'.type \in {"none", "normal", "throw"}
        /\ Step(frames, stack, ms, frames', stack', result'.type = "none")
    BY <2>4 DEF Routed
  <2>6. /\ frames' \in Seq(Frame) /\ stack' \in Seq(Value)
        /\ Nests(frames', stack', loops', result'.type = "none")
        /\ Len(frames') <= Len(frames)
        /\ \A i \in 1 .. Len(frames') : frames'[i].chunk = frames[i].chunk
    BY <1>1, <2>5 DEF Step
  <2>7. TypeOK'
    BY <1>1, <1>2, <1>3, <1>4, <1>5, <2>5, <2>6 DEF TypeOK
  <2>8. StackDiscipline'
    BY <2>6 DEF StackDiscipline
  <2>9. ASSUME NEW i \in 1 .. Len(frames'), prog[frames'[i].chunk].generator
        PROVE  \E k \in 1 .. Len(loops') : loops'[k].boundary = i - 1
    <3>1. i \in 1 .. Len(frames) /\ i \in Nat
      BY <2>3, <2>6
    <3>2. PICK k \in 1 .. Len(loops) : loops[k].boundary = i - 1
      BY <2>1, <2>6, <2>9, <3>1 DEF GeneratorFrames
    <3>3. k # Len(loops)
      BY <2>2, <2>3, <3>1, <3>2
    <3>4. k \in 1 .. Len(loops) - 1 /\ loops'[k] = loops[k]
      BY <1>1, <1>3, <3>3
    <3>5. k \in 1 .. Len(loops') /\ loops'[k].boundary = i - 1
      BY <1>1, <1>3, <3>2, <3>4
    <3> QED
      BY <3>5
  <2>10. GeneratorFrames(frames, loops)'
    BY <1>1, <2>9 DEF GeneratorFrames
  <2> QED
    BY <1>1, <1>2, <1>4, <1>6, <2>7, <2>8, <2>10 DEF ExecInv
<1> QED
  BY <1>7, <1>8

LEMMA EndActions ==
  ASSUME ExecInv, HostReturns
  PROVE  ExecInv' /\ Below
<1>1. /\ loops' = <<>> /\ Len(loops) = 1
      /\ UNCHANGED <<prog, frames, stack, gens, suspended, result, log, inputs>>
  BY DEF HostReturns
<1>2. TypeOK' /\ GeneratorsSaved'
  BY <1>1, EmptySeq DEF ExecInv, TypeOK, GeneratorsSaved
<1>3. Ended'
  BY <1>1 DEF Ended
<1>4. ~(Len(loops') >= Len(loops))
  BY <1>1
<1> QED
  BY <1>1, <1>2, <1>3, <1>4 DEF ExecInv, StackDiscipline, Below

LEMMA StutterKeeps ==
  ASSUME ExecInv, UNCHANGED vars
  PROVE  ExecInv'
BY DEF vars, ExecInv, TypeOK, StackDiscipline, GeneratorFrames,
       GeneratorsSaved, Ended, Failed

LEMMA NextKeeps ==
  ASSUME ExecInv, Next
  PROVE  ExecInv' /\ Below
<1>1. CASE Halted
  BY <1>1, StutterKeeps DEF Halted, Below
<1>2. CASE Push \/ PushInput \/ Pop \/ GetLocal \/ Observe
            \/ IteratorComplete \/ IteratorValue
  BY <1>2, StraightActions
<1>3. CASE SetLocal \/ Jump \/ JumpIfFalse
  BY <1>3, FrameActions
<1>4. CASE Operate \/ CopyObjectRest \/ GetIterator
  BY <1>4, ThrowingActions
<1>5. CASE BreakOrContinue \/ ThrowOp \/ CallThrows
  BY <1>5, AbruptActions
<1>6. CASE EndFinally
  BY <1>6, EndFinallyAction
<1>7. CASE ReturnOp
  BY <1>7, ReturnAction
<1>8. CASE Yield
  BY <1>8, YieldAction
<1>9. CASE CallFunction \/ ConstructFunction
  BY <1>9, PushFrameActions
<1>10. CASE CallAborts \/ NextExecuting \/ Underflow
  BY <1>10, FailingActions
<1>11. CASE CallGenerator \/ NextCompleted
  BY <1>11, GeneratorCalls
<1>12. CASE CallApply \/ GetProperty
  BY <1>12, NativeActions
<1>13. CASE ResumeGenerator
  BY <1>13, ResumeAction
<1>14. CASE LoopReturns
  BY <1>14, ReturnsAction
<1>15. CASE HostReturns
  BY <1>15, EndActions
<1> QED
  BY <1>1, <1>2, <1>3, <1>4, <1>5, <1>6, <1>7, <1>8, <1>9, <1>10, <1>11,
     <1>12, <1>13, <1>14, <1>15 DEF Next

LEMMA InitInv ==
  ASSUME Init
  PROVE  ExecInv
<1> DEFINE f == NewFrame("main", 0, NoReceiver)
           a == [boundary |-> 0, opbase |-> 0, gen |-> NoGen]
<1>1. f \in Frame /\ f.base = 0 /\ f.chunk = "main"
  BY ConstantsTyped, NewFrameTyped, OwnValues
<1>2. a \in Loop /\ a.boundary = 0 /\ a.opbase = 0
  BY DEF Loop
<1>3. /\ prog \in Programs /\ inputs = <<>> /\ frames = <<f>> /\ stack = <<>>
      /\ loops = <<a>> /\ gens = [g \in GenIds |-> NoGenerator]
      /\ suspended = FALSE /\ result = NoResult /\ log = <<>>
  BY DEF Init
<1> HIDE DEF f, a
<1>4. /\ frames \in Seq(Frame) /\ Len(frames) = 1 /\ frames[1] = f
      /\ loops \in Seq(Loop) /\ Len(loops) = 1 /\ loops[1] = a
      /\ stack \in Seq(Value) /\ Len(stack) = 0
      /\ log \in Seq(STRING) /\ inputs \in Seq(BOOLEAN)
  BY <1>1, <1>2, <1>3
<1>5. NoGenerator \in Generator /\ NoGenerator.state = "none"
  <2>1. [x \in Slots |-> Undef] \in [Slots -> Value] /\ <<>> \in Seq(Value)
    BY OwnValues, EmptySeq
  <2> QED
    BY <2>1, ConstantsTyped DEF NoGenerator, Generator
<1>6. TypeOK
  BY <1>3, <1>4, <1>5 DEF TypeOK, NoResult
<1>7. GeneratorsSaved
  BY <1>3, <1>5 DEF GeneratorsSaved
<1>8. Nests(frames, stack, loops, TRUE)
  BY <1>1, <1>2, <1>4 DEF Nests
<1>9. StackDiscipline
  BY <1>3, <1>8 DEF StackDiscipline, NoResult
<1>10. GeneratorFrames(frames, loops)
  BY <1>1, <1>3, <1>4, ProgramsWellFormed DEF GeneratorFrames
<1> QED
  BY <1>3, <1>6, <1>7, <1>9, <1>10 DEF ExecInv

-----------------------------------------------------------------------------
(* The theorems.                                                           *)

LEMMA Invariance == Spec => []ExecInv
<1>1. Init => ExecInv
  BY InitInv
<1>2. ExecInv /\ [Next]_vars => ExecInv'
  BY NextKeeps, StutterKeeps
<1> QED
  BY <1>1, <1>2, PTL DEF Spec

\* The state of the interpreter keeps its shape; in particular only Normal and
\* Throw completions, or an EngineFailure, ever cross the boundary of an
\* execute_loop (vm.cpp, propagate_completion).
THEOREM TypesHold == Spec => []TypeOK
<1>1. ExecInv => TypeOK
  BY DEF ExecInv
<1> QED
  BY <1>1, Invariance, PTL

\* Frames, operands and execute_loop activations stay properly nested for any
\* program, any depth of native re-entry and any number of generators
\* (vm.cpp, invoke_function, invoke, resume_generator, propagate_completion).
THEOREM StacksNest == Spec => []StackDiscipline
<1>1. ExecInv => StackDiscipline
  BY DEF ExecInv
<1> QED
  BY <1>1, Invariance, PTL

\* No instruction of a nested execute_loop touches the frames or the operands
\* of the activations below it, whatever is thrown, returned or yielded
\* (vm.cpp, the boundary_depth of propagate_completion).
THEOREM BoundaryHolds == Spec => BoundaryRespected
<1> DEFINE Kept ==
      (loops # <<>> /\ Len(loops') >= Len(loops)) =>
        LET b == loops[Len(loops)].boundary
            kept == loops[Len(loops)].opbase
        IN  /\ Len(frames') >= b /\ Len(stack') >= kept
            /\ SubSeq(frames', 1, b) = SubSeq(frames, 1, b)
            /\ SubSeq(stack', 1, kept) = SubSeq(stack, 1, kept)
<1>1. ASSUME ExecInv, Next PROVE Kept
  <2> SUFFICES ASSUME loops # <<>>, Len(loops') >= Len(loops)
               PROVE  /\ Len(frames') >= loops[Len(loops)].boundary
                      /\ Len(stack') >= loops[Len(loops)].opbase
                      /\ SubSeq(frames', 1, loops[Len(loops)].boundary)
                           = SubSeq(frames, 1, loops[Len(loops)].boundary)
                      /\ SubSeq(stack', 1, loops[Len(loops)].opbase)
                           = SubSeq(stack, 1, loops[Len(loops)].opbase)
    OBVIOUS
  <2>1. ExecInv' /\ Below
    BY <1>1, NextKeeps
  <2>2. /\ frames \in Seq(Frame) /\ frames' \in Seq(Frame)
        /\ stack \in Seq(Value) /\ stack' \in Seq(Value) /\ loops \in Seq(Loop)
    BY <1>1, <2>1 DEF ExecInv, TypeOK
  <2>3. Len(loops) \in 1 .. Len(loops)
    BY <2>2
  <2>4. loops[Len(loops)].boundary \in Nat /\ loops[Len(loops)].opbase \in Nat
    BY <2>2, <2>3, LoopsTyped
  <2>5. /\ Agree(frames', frames, loops[Len(loops)].boundary)
        /\ Agree(stack', stack, loops[Len(loops)].opbase)
    BY <2>1 DEF Below, Boundary
  <2>6. /\ Len(frames') >= loops[Len(loops)].boundary
        /\ Len(stack') >= loops[Len(loops)].opbase
    BY <2>4, <2>5 DEF Agree
  <2> QED
    BY <2>2, <2>4, <2>5, <2>6, AgreeSubSeq
<1>2. ASSUME ExecInv, [Next]_vars PROVE [Kept]_vars
  BY <1>1, <1>2
<1> QED
  BY <1>2, Invariance, PTL DEF Spec, BoundaryRespected

\* After a failure only activations return.
LEMMA FailureStays ==
  ASSUME Next, Failed
  PROVE  Failed' /\ UNCHANGED <<frames, stack, log, inputs>>
<1>1. /\ result.type # "none" /\ result.type # "normal"
      /\ result.type # "throw" /\ ~Running
  BY DEF Failed, Running
<1>2. CASE LoopReturns
  BY <1>1, <1>2 DEF LoopReturns, Failed, FailureReturns
<1>3. CASE HostReturns
  BY <1>3 DEF HostReturns, Failed
<1>4. CASE Halted
  BY <1>4 DEF Halted, vars, Failed
<1>5. \A op : ~On(op)
  BY <1>1 DEF On, At
<1>6. /\ ~Push /\ ~PushInput /\ ~Pop /\ ~GetLocal /\ ~SetLocal /\ ~Observe
      /\ ~Operate /\ ~CopyObjectRest /\ ~GetIterator /\ ~IteratorComplete
      /\ ~IteratorValue /\ ~Jump /\ ~JumpIfFalse
  BY <1>5 DEF Push, PushInput, Pop, GetLocal, SetLocal, Observe, Operate,
       CopyObjectRest, GetIterator, IteratorComplete, IteratorValue, Jump,
       JumpIfFalse
<1>7. /\ ~BreakOrContinue /\ ~ThrowOp /\ ~EndFinally /\ ~ReturnOp /\ ~Yield
      /\ ~CallFunction /\ ~ConstructFunction /\ ~CallThrows /\ ~CallAborts
      /\ ~CallGenerator /\ ~CallApply /\ ~GetProperty
  BY <1>5 DEF BreakOrContinue, ThrowOp, EndFinally, ReturnOp, Yield,
       CallFunction, ConstructFunction, CallThrows, CallAborts,
       CallGenerator, CallApply, GetProperty
<1>8. ~ResumeGenerator /\ ~NextCompleted /\ ~NextExecuting /\ ~Underflow
  BY <1>1, <1>5 DEF ResumeGenerator, NextCompleted, NextExecuting, NextOf,
       Underflow
<1> QED
  BY <1>2, <1>3, <1>4, <1>6, <1>7, <1>8 DEF Next

\* No catch clause, no finalizer and no outer activation runs after an
\* EngineFailure (docs/P1_COMPLETION_AND_INVOCATION.md; vm.cpp, execute_loop).
THEOREM FailureIsFinal == Spec => FailureBypassesHandlers
<1> DEFINE Final == Failed => Failed' /\ UNCHANGED <<frames, stack, log, inputs>>
<1>1. ASSUME [Next]_vars PROVE [Final]_vars
  BY <1>1, FailureStays DEF vars
<1> QED
  BY <1>1, PTL DEF Spec, FailureBypassesHandlers

-----------------------------------------------------------------------------
(* Generators.                                                             *)

\* Distinct activations run distinct generators.
OneRunner(ls) ==
  \A j, k \in 1 .. Len(ls) :
    ls[j].gen = ls[k].gen /\ ls[j].gen # NoGen => j = k

\* The activations run generator g.
RunBy(ls, g) == \E k \in 1 .. Len(ls) : ls[k].gen = g

\* The object of a generator says whether an activation runs it; only the
\* generator of an activation that is done may have been settled before the
\* activation is left.
StatesMatch ==
  \A g \in GenIds :
    result.type = "none" \/ g # loops[Len(loops)].gen =>
      (gens[g].state = "executing" <=> RunBy(loops, g))

\* The suspension flag waits for the resumer of the activation that yielded.
FlagOwned ==
  suspended =>
    /\ result.type = "normal"
    /\ loops[Len(loops)].gen \in GenIds
    /\ gens[loops[Len(loops)].gen].state # "executing"

GeneratorInv ==
  /\ OneRunner(loops)
  /\ Ended => result.type # "none"
  /\ ~Ended /\ ~Failed => StatesMatch /\ FlagOwned

\* While the innermost activation runs, every generator object is accurate.
LEMMA RunningGenerators ==
  ASSUME ExecInv, GeneratorInv, Running
  PROVE  /\ ~suspended /\ loops # <<>> /\ result.type = "none"
         /\ \A g \in GenIds : gens[g].state = "executing" <=> RunBy(loops, g)
         /\ gens \in [GenIds -> Generator] /\ loops \in Seq(Loop) /\ OneRunner(loops)
  BY DEF Running, GeneratorInv, Ended, Failed, StatesMatch, FlagOwned, ExecInv, TypeOK

\* A step that changes neither the activations nor a generator.
LEMMA GeneratorsUntouched ==
  ASSUME ExecInv, GeneratorInv, Running, UNCHANGED <<loops, gens, suspended>>
  PROVE  GeneratorInv'
<1>1. /\ ~suspended' /\ loops' # <<>> /\ OneRunner(loops')
      /\ \A g \in GenIds : gens'[g].state = "executing" <=> RunBy(loops', g)
  BY RunningGenerators
<1> QED
  BY <1>1 DEF GeneratorInv, Ended, StatesMatch, FlagOwned

\* Entering an activation that resumes no generator, or one that none runs.
LEMMA Entered ==
  ASSUME ExecInv, NEW f, NEW opbase, NEW g \in GenIds \cup {NoGen},
         Nested(f, opbase, g), OneRunner(loops), g # NoGen => ~RunBy(loops, g)
  PROVE  /\ loops' # <<>> /\ OneRunner(loops')
         /\ \A x \in GenIds : RunBy(loops', x) <=> RunBy(loops, x) \/ x = g
<1> DEFINE a == [boundary |-> Len(frames), opbase |-> opbase, gen |-> g]
           n == Len(loops)
<1>1. loops' = Append(loops, a) /\ a.gen = g /\ loops \in Seq(Loop)
  BY DEF Nested, ExecInv, TypeOK
<1> HIDE DEF a
<1>2. /\ n \in Nat /\ Len(loops') = n + 1 /\ loops'[n + 1] = a
      /\ \A k \in 1 .. n : loops'[k] = loops[k]
  BY <1>1
<1>3. \A k \in 1 .. n + 1 : k \in 1 .. n \/ k = n + 1
  BY <1>2
<1>4. n + 1 \in 1 .. n + 1 /\ \A k \in 1 .. n : k \in 1 .. n + 1
  BY <1>2
<1>5. OneRunner(loops')
  BY <1>1, <1>2, <1>3 DEF OneRunner, RunBy
<1>6. ASSUME NEW x \in GenIds
      PROVE  RunBy(loops', x) <=> RunBy(loops, x) \/ x = g
  BY <1>1, <1>2, <1>3, <1>4 DEF RunBy
<1>7. loops' # <<>>
  BY <1>1
<1> QED
  BY <1>5, <1>6, <1>7

\* Creating a generator, entering an activation, resuming a generator.
LEMMA GeneratorsEntered ==
  ASSUME ExecInv, GeneratorInv,
         CallGenerator \/ CallApply \/ GetProperty \/ ResumeGenerator
  PROVE  GeneratorInv'
<1>1. Running
  BY Fetched DEF CallGenerator, CallApply, GetProperty, ResumeGenerator, NextOf
<1>2. /\ ~suspended /\ loops # <<>> /\ OneRunner(loops) /\ loops \in Seq(Loop)
      /\ \A g \in GenIds : gens[g].state = "executing" <=> RunBy(loops, g)
      /\ gens \in [GenIds -> Generator]
  BY <1>1, RunningGenerators
<1>3. suspended' = suspended
  BY DEF CallGenerator, CallApply, GetProperty, ResumeGenerator
<1>4. /\ loops' # <<>> /\ OneRunner(loops')
      /\ \A g \in GenIds : gens'[g].state = "executing" <=> RunBy(loops', g)
  <2>1. CASE CallGenerator
    <3> DEFINE g == CHOOSE k \in GenIds : gens[k].state = "none"
               s == [NoGenerator EXCEPT !.state = "suspended_start", !.chunk = Callee.id]
    <3>1. gens' = [gens EXCEPT ![g] = s] /\ loops' = loops
      BY <2>1 DEF CallGenerator
    <3>2. g \in GenIds /\ gens[g].state = "none"
      BY <2>1 DEF CallGenerator
    <3>3. s.state = "suspended_start"
      BY DEF NoGenerator
    <3> HIDE DEF g, s
    <3>4. \A x \in GenIds : gens'[x] = IF x = g THEN s ELSE gens[x]
      BY <1>2, <3>1
    <3> QED
      BY <1>2, <3>1, <3>2, <3>3, <3>4
  <2>2. CASE CallApply \/ GetProperty
    <3>1. PICK f, opbase : Nested(f, opbase, NoGen)
      BY <2>2 DEF CallApply, GetProperty
    <3>2. gens' = gens
      BY <2>2 DEF CallApply, GetProperty
    <3>3. /\ loops' # <<>> /\ OneRunner(loops')
          /\ \A x \in GenIds : RunBy(loops', x) <=> RunBy(loops, x) \/ x = NoGen
      BY <1>2, <3>1, Entered
    <3> QED
      BY <1>2, <3>2, <3>3, ConstantsTyped
  <2>3. CASE ResumeGenerator
    <3>1. PICK g \in GenIds :
             /\ gens[g].state \in {"suspended_start", "suspended_yield"}
             /\ \E f, opbase : Nested(f, opbase, g)
             /\ gens' = [gens EXCEPT ![g].state = "executing", ![g].stack = <<>>]
      BY <2>3 DEF ResumeGenerator
    <3>2. ~RunBy(loops, g)
      BY <1>2, <3>1
    <3>3. /\ loops' # <<>> /\ OneRunner(loops')
          /\ \A x \in GenIds : RunBy(loops', x) <=> RunBy(loops, x) \/ x = g
      BY <1>2, <3>1, <3>2, Entered
    <3>4. gens'[g].state = "executing"
      <4>1. gens[g] \in Generator
        BY <1>2
      <4>2. gens'[g] = [[gens[g] EXCEPT !.state = "executing"] EXCEPT !.stack = <<>>]
        BY <1>2, <3>1
      <4> QED
        BY <4>1, <4>2 DEF Generator
    <3>5. \A x \in GenIds \ {g} : gens'[x] = gens[x]
      BY <1>2, <3>1
    <3> QED
      BY <1>2, <3>3, <3>4, <3>5
  <2> QED
    BY <2>1, <2>2, <2>3
<1> QED
  BY <1>2, <1>3, <1>4 DEF GeneratorInv, Ended, StatesMatch, FlagOwned

\* A yield or a return settles the generator of the innermost activation.
LEMMA GeneratorsSettled ==
  ASSUME ExecInv, GeneratorInv, Yield \/ ReturnOp
  PROVE  GeneratorInv'
<1> DEFINE g == loops[Len(loops)].gen
<1>1. Running /\ (Yield => g # NoGen)
  BY Fetched, Operands DEF Yield, ReturnOp
<1>2. /\ ~suspended /\ loops # <<>> /\ OneRunner(loops) /\ loops \in Seq(Loop)
      /\ \A x \in GenIds : gens[x].state = "executing" <=> RunBy(loops, x)
      /\ gens \in [GenIds -> Generator]
  BY <1>1, RunningGenerators
<1>3. loops' = loops
  BY DEF Yield, ReturnOp
<1>4. g \in GenIds \cup {NoGen}
  <2>1. Len(loops) \in 1 .. Len(loops)
    BY <1>2
  <2>2. loops[Len(loops)] \in Loop
    BY <1>2, <2>1, ElementOfSeq
  <2> QED
    BY <2>2 DEF Loop
<1> HIDE DEF g
<1>5. CASE Yield
  <2>1. PICK s : gens' = [gens EXCEPT ![g] = s] /\ s.state = "suspended_yield"
    <3> DEFINE s == [state |-> "suspended_yield", chunk |-> Top.chunk,
                     pc |-> Top.pc + 1, last |-> Top.pc, locals |-> Top.locals,
                     stack |-> SubSeq(stack, Top.base + 1, Len(stack) - 1)]
    <3>1. gens' = [gens EXCEPT ![g] = s]
      BY <1>5 DEF Yield, g
    <3>2. s.state = "suspended_yield"
      OBVIOUS
    <3> QED
      BY <3>1, <3>2, Zenon
  <2>2. result'.type = "normal"
    BY <1>5 DEF Yield, Normal
  <2>3. g \in GenIds
    BY <1>1, <1>4, <1>5
  <2>4. gens'[g].state # "executing" /\ \A x \in GenIds \ {g} : gens'[x] = gens[x]
    BY <1>2, <2>1, <2>3
  <2>5. StatesMatch' /\ FlagOwned'
    BY <1>2, <1>3, <2>2, <2>3, <2>4 DEF StatesMatch, FlagOwned, g
  <2> QED
    BY <1>2, <1>3, <2>5 DEF GeneratorInv, Ended
<1>6. CASE ReturnOp
  <2>1. /\ suspended' = suspended
        /\ gens' = gens \/ (result'.type = "normal" /\ \A x \in GenIds \ {g} : gens'[x] = gens[x])
    BY <1>2, <1>6 DEF ReturnOp, g
  <2>2. StatesMatch' /\ FlagOwned'
    BY <1>2, <1>3, <2>1 DEF StatesMatch, FlagOwned, g
  <2> QED
    BY <1>2, <1>3, <2>2 DEF GeneratorInv, Ended
<1> QED
  BY <1>5, <1>6

\* The activation is left: its generator has stopped.
LEMMA GeneratorsLeft ==
  ASSUME ExecInv, GeneratorInv, LoopReturns
  PROVE  GeneratorInv'
<1> DEFINE n == Len(loops)
           l == loops[n]
<1>1. /\ result.type # "none" /\ n > 1 /\ loops' = SubSeq(loops, 1, n - 1)
      /\ gens' = Settled(l) /\ suspended' = FlagCleared(l)
  BY DEF LoopReturns
<1>2. loops \in Seq(Loop) /\ gens \in [GenIds -> Generator] /\ suspended \in BOOLEAN
  BY DEF ExecInv, TypeOK
<1>3. /\ n \in Nat /\ Len(loops') = n - 1 /\ loops' # <<>>
      /\ \A k \in 1 .. n - 1 : loops'[k] = loops[k] /\ k \in 1 .. n
  <2>1. n \in Nat /\ n - 1 \in Nat /\ n - 1 <= n
    BY <1>1, <1>2
  <2>2. loops' \in Seq(Loop) /\ Len(loops') = n - 1
        /\ \A k \in 1 .. n - 1 : loops'[k] = loops[k]
    BY <1>1, <1>2, <2>1, Prefix
  <2>3. loops' # <<>>
    <3>1. Len(loops') # Len(<<>>)
      BY <1>1, <2>1, <2>2
    <3> QED
      BY <3>1
  <2>4. \A k \in 1 .. n - 1 : k \in 1 .. n
    BY <2>1
  <2> QED
    BY <2>1, <2>2, <2>3, <2>4
<1>4. n \in 1 .. n /\ l \in Loop /\ l.gen \in GenIds \cup {NoGen}
  <2>1. n \in 1 .. n
    BY <1>1, <1>3
  <2>2. l \in Loop
    BY <1>2, <2>1, ElementOfSeq
  <2> HIDE DEF n, l
  <2> QED
    BY <2>1, <2>2 DEF Loop
<1>5. OneRunner(loops) /\ loops # <<>>
  BY <1>1, <1>2 DEF GeneratorInv
<1>6. OneRunner(loops')
  BY <1>3, <1>5 DEF OneRunner
<1>7. CASE Failed
  <2>1. Failed'
    BY <1>7 DEF Failed, LoopReturns, FailureReturns
  <2> QED
    BY <1>3, <1>6, <2>1 DEF GeneratorInv, Ended
<1>8. CASE ~Failed
  <2>1. StatesMatch /\ FlagOwned
    BY <1>5, <1>8 DEF GeneratorInv, Ended
  <2> HIDE DEF n, l
  <2>2. \A x \in GenIds : RunBy(loops', x) <=> RunBy(loops, x) /\ x # l.gen
    <3>1. ASSUME NEW x \in GenIds, RunBy(loops', x)
          PROVE  RunBy(loops, x) /\ x # l.gen
      <4>1. PICK k \in 1 .. n - 1 : loops[k].gen = x
        BY <1>3, <3>1 DEF RunBy
      <4>2. k \in 1 .. n /\ k # n /\ x # NoGen
        BY <1>3, <4>1, ConstantsTyped
      <4> QED
        BY <1>4, <1>5, <4>1, <4>2 DEF OneRunner, RunBy, n, l
    <3>2. ASSUME NEW x \in GenIds, RunBy(loops, x), x # l.gen
          PROVE  RunBy(loops', x)
      <4>1. PICK k \in 1 .. n : loops[k].gen = x
        BY <3>2 DEF RunBy, n
      <4>2. k \in 1 .. n - 1
        BY <1>3, <3>2, <4>1 DEF l
      <4> QED
        BY <1>3, <4>1, <4>2 DEF RunBy
    <3> QED
      BY <3>1, <3>2
  <2>3. \A x \in GenIds \ {l.gen} : gens'[x] = gens[x]
    BY <1>1, <1>2 DEF Settled
  <2>4. l.gen \in GenIds => gens'[l.gen].state # "executing"
    <3> SUFFICES ASSUME l.gen \in GenIds PROVE gens'[l.gen].state # "executing"
      OBVIOUS
    <3>1. l.gen # NoGen
      BY ConstantsTyped
    <3>2. CASE suspended
      <4>1. result.type = "normal" /\ gens[l.gen].state # "executing"
        BY <2>1, <3>2 DEF FlagOwned, n, l
      <4> QED
        BY <1>1, <3>2, <4>1 DEF Settled
    <3>3. CASE ~suspended
      <4>1. gens' = [gens EXCEPT ![l.gen].state = "completed"]
        BY <1>1, <3>1, <3>3 DEF Settled
      <4>2. gens[l.gen] \in Generator /\ gens'[l.gen] = [gens[l.gen] EXCEPT !.state = "completed"]
        BY <1>2, <4>1
      <4>3. gens'[l.gen].state = "completed"
        BY <4>2 DEF Generator
      <4> QED
        BY <4>3
    <3> QED
      BY <3>2, <3>3
  <2>5. ~suspended'
    <3>1. CASE suspended
      <4>1. result.type = "normal" /\ l.gen \in GenIds
        BY <2>1, <3>1 DEF FlagOwned, n, l
      <4> QED
        BY <1>1, <4>1, ConstantsTyped DEF FlagCleared
    <3>2. CASE ~suspended
      BY <1>1, <3>2 DEF FlagCleared
    <3> QED
      BY <3>1, <3>2
  <2>6. \A x \in GenIds \ {l.gen} : gens[x].state = "executing" <=> RunBy(loops, x)
    BY <2>1 DEF StatesMatch, n, l
  <2>7. \A x \in GenIds : gens'[x].state = "executing" <=> RunBy(loops', x)
    BY <2>2, <2>3, <2>4, <2>6
  <2> QED
    BY <1>3, <1>6, <2>5, <2>7 DEF GeneratorInv, Ended, StatesMatch, FlagOwned
<1> QED
  BY <1>7, <1>8

LEMMA GeneratorsKept ==
  ASSUME ExecInv, GeneratorInv, [Next]_vars
  PROVE  GeneratorInv'
<1>1. CASE UNCHANGED vars
  BY <1>1 DEF vars, GeneratorInv, Ended, Failed, StatesMatch, FlagOwned
<1>2. CASE HostReturns
  <2>1. loops' = <<>> /\ result'.type # "none" /\ Len(loops') = 0
    BY <1>2 DEF HostReturns
  <2>2. OneRunner(loops')
    BY <2>1 DEF OneRunner
  <2> QED
    BY <2>1, <2>2 DEF GeneratorInv, Ended
<1>3. ASSUME NEW op, On(op), UNCHANGED <<loops, gens, suspended>>
      PROVE  GeneratorInv'
  BY <1>3, Fetched, GeneratorsUntouched
<1>4. CASE Push \/ PushInput \/ Pop \/ GetLocal \/ SetLocal \/ Observe
            \/ Operate \/ CopyObjectRest \/ GetIterator \/ IteratorComplete
            \/ IteratorValue \/ Jump \/ JumpIfFalse
  BY <1>3, <1>4 DEF Push, PushInput, Pop, GetLocal, SetLocal, Observe, Operate,
       CopyObjectRest, GetIterator, IteratorComplete, IteratorValue, Jump,
       JumpIfFalse, Straight
<1>5. CASE BreakOrContinue \/ ThrowOp \/ EndFinally \/ CallFunction
            \/ ConstructFunction \/ CallThrows \/ CallAborts
  BY <1>3, <1>5 DEF BreakOrContinue, ThrowOp, EndFinally, CallFunction,
       ConstructFunction, CallThrows, CallAborts, PushFrame
<1>6. CASE NextCompleted \/ NextExecuting
  <2>1. \E g : NextOf(g)
    BY <1>6 DEF NextCompleted, NextExecuting
  <2>2. On("call") \/ On("iterator_next")
    BY <2>1 DEF NextOf
  <2> QED
    BY <1>3, <1>6, <2>2 DEF NextCompleted, NextExecuting, Straight
<1>7. CASE Underflow
  BY <1>7, GeneratorsUntouched DEF Underflow
<1> QED
  BY <1>1, <1>2, <1>4, <1>5, <1>6, <1>7, GeneratorsEntered, GeneratorsSettled,
     GeneratorsLeft DEF Next, Halted

\* A generator runs in at most one activation and its object says so, and no
\* resumer ever finds the suspension flag another yield has left (vm.cpp,
\* resume_generator, Op::yield, generator_suspended_).
THEOREM GeneratorsRunOnce == Spec => []GeneratorExclusive
<1>1. Init => GeneratorInv
  <2> SUFFICES ASSUME Init PROVE GeneratorInv
    OBVIOUS
  <2> DEFINE a == [boundary |-> 0, opbase |-> 0, gen |-> NoGen]
  <2>1. /\ loops = <<a>> /\ a.gen = NoGen /\ gens = [g \in GenIds |-> NoGenerator]
        /\ suspended = FALSE /\ NoGenerator.state = "none"
    BY DEF Init, NoGenerator
  <2> HIDE DEF a
  <2>2. loops # <<>> /\ Len(loops) = 1 /\ loops[1] = a
    BY <2>1
  <2>3. OneRunner(loops)
    BY <2>2 DEF OneRunner
  <2>4. \A g \in GenIds : ~RunBy(loops, g)
    BY <2>1, <2>2, ConstantsTyped DEF RunBy
  <2> QED
    BY <2>1, <2>2, <2>3, <2>4 DEF GeneratorInv, Ended, StatesMatch, FlagOwned
<1>2. ExecInv /\ GeneratorInv => GeneratorExclusive
  <2> SUFFICES ASSUME ExecInv, GeneratorInv, NEW g \in GenIds
               PROVE  /\ Cardinality({k \in 1 .. Len(loops) : loops[k].gen = g}) <= 1
                      /\ result.type = "none" =>
                           (gens[g].state = "executing" <=> RunBy(loops, g))
                      /\ result.type = "none" => ~suspended
    BY DEF GeneratorExclusive, RunBy
  <2> DEFINE K == {k \in 1 .. Len(loops) : loops[k].gen = g}
  <2>1. OneRunner(loops) /\ g # NoGen
    BY ConstantsTyped DEF GeneratorInv
  <2>2. Cardinality(K) <= 1
    <3>1. CASE K = {}
      <4>1. Cardinality(K) = 0
        BY <3>1, FS_EmptySet
      <4> QED
        BY <4>1
    <3>2. CASE K # {}
      <4>1. PICK j \in K : TRUE
        BY <3>2
      <4>2. K = {j}
        BY <2>1, <4>1 DEF OneRunner
      <4> HIDE DEF K
      <4>3. Cardinality({j}) = 1
        BY FS_Singleton
      <4> QED
        BY <4>2, <4>3
    <3> QED
      BY <3>1, <3>2
  <2>3. result.type = "none" => ~Ended /\ ~Failed
    BY DEF GeneratorInv, Failed
  <2> QED
    BY <2>2, <2>3 DEF GeneratorInv, StatesMatch, FlagOwned
<1>3. ExecInv /\ GeneratorInv /\ [Next]_vars => GeneratorInv'
  BY GeneratorsKept
<1> QED
  BY <1>1, <1>2, <1>3, Invariance, PTL DEF Spec
=============================================================================
