---------------------------- MODULE StackProofs ----------------------------
(***************************************************************************)
(* How Nests, the nesting of frames, operands and execute_loop activations *)
(* (module Completions), is kept by the moves the interpreter makes:       *)
(* unwinding, leaving an activation, pushing a frame, entering a nested    *)
(* activation and resuming the one below.                                  *)
(***************************************************************************)
EXTENDS Completions, WellFoundedInduction, SequenceTheorems, TLAPS

-----------------------------------------------------------------------------
(* The two handler searches and the discarding of overridden completions:  *)
(* each search returns a handler that really covers the program counter,   *)
(* and discarding keeps a prefix.                                          *)

\* A nonempty set of naturals has a least element.
LEMMA LeastNat ==
  ASSUME NEW T \in SUBSET Nat, T # {}
  PROVE  \E x \in T : \A y \in T : x <= y
<1>1. \E x \in T : \A y \in T : ~(<<y, x>> \in OpToRel(<, Nat))
  BY NatLessThanWellFounded, WFMin
<1>2. \A x, y \in Nat : <<y, x>> \in OpToRel(<, Nat) <=> y < x
  BY DEF OpToRel
<1>3. PICK x \in T : \A y \in T : ~(<<y, x>> \in OpToRel(<, Nat))
  BY <1>1
<1>4. ASSUME NEW y \in T PROVE x <= y
  <2>1. x \in Nat /\ y \in Nat /\ ~(y < x)
    BY <1>2, <1>3
  <2> QED
    BY <2>1
<1> QED
  BY <1>4

\* A nonempty set of numbers up to n has a greatest element.
LEMMA GreatestUpTo ==
  ASSUME NEW n \in Nat, NEW T \in SUBSET (0 .. n), T # {}
  PROVE  \E x \in T : \A y \in T : y <= x
<1> DEFINE U == {n - x : x \in T}
<1>1. U \subseteq Nat /\ U # {}
  <2>1. PICK x \in T : TRUE
    OBVIOUS
  <2>2. n - x \in U
    OBVIOUS
  <2>3. \A y \in T : n - y \in Nat
    OBVIOUS
  <2> QED
    BY <2>2, <2>3
<1>2. PICK u \in U : \A v \in U : u <= v
  BY <1>1, LeastNat
<1>3. PICK x \in T : u = n - x
  BY <1>2
<1>4. \A y \in T : n - y \in U
  OBVIOUS
<1> QED
  BY <1>2, <1>3, <1>4, SMTT(60)

\* Narrowest finds an element of every nonempty set of handlers whose
\* protected regions have a size.
LEMMA NarrowestIsCandidate ==
  ASSUME NEW handlers, NEW cands \in SUBSET Nat, cands # {},
         \A i \in cands : Span(handlers[i]) \in Nat
  PROVE  Narrowest(handlers, cands) \in cands
<1> DEFINE spans == {Span(handlers[i]) : i \in cands}
<1>1. spans \in SUBSET Nat /\ spans # {}
  OBVIOUS
<1>2. PICK s \in spans : \A t \in spans : s <= t
  BY <1>1, LeastNat
<1> DEFINE best == {i \in cands : Span(handlers[i]) = s}
<1>3. best \in SUBSET Nat /\ best # {}
  BY <1>2
<1>4. PICK i \in best : \A j \in best : i <= j
  BY <1>3, LeastNat
<1>5. \A j \in cands : \/ Span(handlers[i]) < Span(handlers[j])
                       \/ Span(handlers[i]) = Span(handlers[j]) /\ i <= j
  <2> SUFFICES ASSUME NEW j \in cands
               PROVE  \/ Span(handlers[i]) < Span(handlers[j])
                      \/ Span(handlers[i]) = Span(handlers[j]) /\ i <= j
    OBVIOUS
  <2>1. Span(handlers[j]) \in spans /\ Span(handlers[j]) \in Nat
    OBVIOUS
  <2>2. Span(handlers[i]) = s /\ s \in Nat /\ s <= Span(handlers[j])
    BY <1>2, <1>4, <2>1
  <2>3. CASE Span(handlers[j]) = s
    BY <1>4, <2>2, <2>3
  <2>4. CASE Span(handlers[j]) # s
    BY <2>1, <2>2, <2>4
  <2> QED
    BY <2>3, <2>4
<1> QED
  BY <1>4, <1>5 DEF Narrowest

\* A search over the table returns no handler or a candidate.
LEMMA SearchResult ==
  ASSUME NEW handlers \in Seq(ExceptionHandler),
         NEW cands \in SUBSET DOMAIN handlers,
         \A i \in DOMAIN handlers : Span(handlers[i]) \in Nat
  PROVE  \/ Narrowest(handlers, cands) = 0
         \/ Narrowest(handlers, cands) \in cands
<1>1. CASE cands = {}
  BY <1>1 DEF Narrowest
<1>2. CASE cands # {}
  BY <1>2, NarrowestIsCandidate
<1> QED
  BY <1>1, <1>2

\* find_exception_handler returns a handler that catches the throw or must
\* run its finalizer.
LEMMA ExceptionHandlerCovers ==
  ASSUME NEW handlers \in Seq(ExceptionHandler), NEW pc,
         \A i \in DOMAIN handlers : Span(handlers[i]) \in Nat,
         find_exception_handler(handlers, pc) # 0
  PROVE  LET h == find_exception_handler(handlers, pc)
         IN  /\ h \in DOMAIN handlers
             /\ CatchesAt(handlers[h], pc) \/ FinalizesThrowAt(handlers[h], pc)
BY SearchResult DEF find_exception_handler

\* find_finally_handler returns a handler with a finalizer.
LEMMA FinallyHandlerCovers ==
  ASSUME NEW handlers \in Seq(ExceptionHandler), NEW pc,
         \A i \in DOMAIN handlers : Span(handlers[i]) \in Nat,
         find_finally_handler(handlers, pc) # 0
  PROVE  LET h == find_finally_handler(handlers, pc)
         IN  /\ h \in DOMAIN handlers
             /\ handlers[h].finally_start # NoTarget
             /\ InTry(handlers[h], pc) \/ InCatch(handlers[h], pc)
BY SearchResult DEF find_finally_handler

\* discard_overridden_completions keeps a prefix of the pending completions.
LEMMA DiscardKeepsPrefix ==
  ASSUME NEW S, NEW pending \in Seq(S), NEW handlers, NEW pc
  PROVE  \E m \in 0 .. Len(pending) :
           discard_overridden(handlers, pending, pc) = SubSeq(pending, 1, m)
<1> DEFINE survivors == {k \in DOMAIN pending :
                           ~Overridden(handlers, pending[k].finally_start, pc)}
<1>1. survivors \in SUBSET (0 .. Len(pending)) /\ Len(pending) \in Nat
  OBVIOUS
<1>2. CASE survivors = {}
  BY <1>1, <1>2 DEF discard_overridden
<1>3. CASE survivors # {}
  <2>1. \E k \in survivors : \A l \in survivors : l <= k
    BY <1>1, <1>3, GreatestUpTo
  <2>2. (CHOOSE k \in survivors : \A l \in survivors : l <= k) \in survivors
    BY <2>1
  <2> QED
    BY <1>1, <1>3, <2>2 DEF discard_overridden
<1> QED
  BY <1>2, <1>3

-----------------------------------------------------------------------------
(* The arithmetic of nesting, on the bases b of n frames, the height h of  *)
(* the operand stack and the boundaries bd and operand bases ob of l       *)
(* activations.                                                            *)

Nesting(n, b, h, l, bd, ob, running) ==
  /\ \A i, j \in 1 .. n : i <= j => b[i] <= b[j]
  /\ \A i \in 1 .. n : b[i] <= h
  /\ \A k, m \in 1 .. l : k < m => bd[k] < bd[m]
  /\ \A k \in 1 .. l :
        /\ bd[k] <= n
        /\ ob[k] <= h
        /\ bd[k] < n => ob[k] <= b[bd[k] + 1]
        /\ k > 1 => b[bd[k]] <= ob[k]
  /\ running => bd[l] < n
  /\ ~running => bd[l] = n

\* Frames above frame m are dropped, the operands of frame m remain.
LEMMA NestingTruncated ==
  ASSUME NEW n \in Nat, NEW m \in Nat, NEW h \in Nat, NEW h2 \in Nat,
         NEW l \in Nat \ {0}, NEW b \in [1 .. n -> Nat],
         NEW c \in [1 .. m -> Nat],
         NEW bd \in [1 .. l -> Nat], NEW ob \in [1 .. l -> Nat],
         Nesting(n, b, h, l, bd, ob, TRUE),
         m <= n, bd[l] < m, \A i \in 1 .. m : c[i] = b[i], c[m] <= h2
  PROVE  Nesting(m, c, h2, l, bd, ob, TRUE)
<1>1. ASSUME NEW i \in 1 .. m PROVE c[i] <= h2
  <2>1. m \in 1 .. m /\ m \in 1 .. n /\ i \in 1 .. n
    OBVIOUS
  <2>2. b[i] <= b[m]
    BY <2>1 DEF Nesting
  <2> QED
    BY <2>1, <2>2
<1>2. ASSUME NEW k \in 1 .. l PROVE bd[k] < m
  <2>1. l \in 1 .. l /\ (k = l \/ k < l)
    OBVIOUS
  <2>2. bd[k] <= bd[l]
    BY <2>1, SMTT(60) DEF Nesting
  <2> QED
    BY <2>2 DEF Nesting
<1>3. ASSUME NEW k \in 1 .. l
      PROVE  ob[k] <= c[bd[k] + 1] /\ ob[k] <= h2
  <2>1. bd[k] < m /\ bd[k] \in Nat
    BY <1>2
  <2>2. bd[k] + 1 \in 1 .. m /\ bd[k] < n
    BY <2>1, SMTT(60)
  <2>3. ob[k] <= b[bd[k] + 1]
    BY <2>2 DEF Nesting
  <2>4. c[bd[k] + 1] = b[bd[k] + 1] /\ c[bd[k] + 1] <= h2
        /\ c[bd[k] + 1] \in Nat
    BY <2>2, <1>1
  <2> QED
    BY <2>3, <2>4, SMTT(60)
<1>4. ASSUME NEW k \in 1 .. l, k > 1 PROVE c[bd[k]] <= ob[k]
  <2>1. bd[k] < m /\ bd[k] \in Nat /\ bd[1] < bd[k] /\ bd[1] \in Nat
    BY <1>2, <1>4 DEF Nesting
  <2>2. bd[k] \in 1 .. m
    BY <2>1
  <2> QED
    BY <2>2, <1>4 DEF Nesting
<1>5. ASSUME NEW i \in 1 .. m, NEW j \in 1 .. m, i <= j PROVE c[i] <= c[j]
  <2>1. i \in 1 .. n /\ j \in 1 .. n
    OBVIOUS
  <2> QED
    BY <2>1, <1>5 DEF Nesting
<1>6. \A k, j \in 1 .. l : k < j => bd[k] < bd[j]
  BY DEF Nesting
<1> QED
  BY <1>1, <1>2, <1>3, <1>4, <1>5, <1>6 DEF Nesting

\* Every frame of the innermost activation is dropped.
LEMMA NestingLeft ==
  ASSUME NEW n \in Nat, NEW m \in Nat, NEW h \in Nat, NEW h2 \in Nat,
         NEW l \in Nat \ {0}, NEW b \in [1 .. n -> Nat],
         NEW c \in [1 .. m -> Nat],
         NEW bd \in [1 .. l -> Nat], NEW ob \in [1 .. l -> Nat],
         Nesting(n, b, h, l, bd, ob, TRUE),
         m = bd[l], \A i \in 1 .. m : c[i] = b[i], h2 = b[m + 1]
  PROVE  Nesting(m, c, h2, l, bd, ob, FALSE)
<1>1. m + 1 \in 1 .. n
  BY DEF Nesting
<1>2. ASSUME NEW i \in 1 .. m PROVE c[i] <= h2
  BY <1>1 DEF Nesting
<1>3. ASSUME NEW k \in 1 .. l PROVE bd[k] <= m
  <2>1. l \in 1 .. l /\ (k = l \/ k < l)
    OBVIOUS
  <2>2. bd[k] <= bd[l]
    BY <2>1 DEF Nesting
  <2> QED
    BY <2>2 DEF Nesting
<1>4. ASSUME NEW k \in 1 .. l
      PROVE  /\ bd[k] < m => ob[k] <= c[bd[k] + 1]
             /\ ob[k] <= h2
  <2>1. bd[k] <= m /\ bd[k] \in Nat
    BY <1>3
  <2>2. bd[k] + 1 \in 1 .. n /\ bd[k] < n
    BY <2>1, <1>1, SMTT(60)
  <2>3. ob[k] <= b[bd[k] + 1]
    BY <2>2 DEF Nesting
  <2>4. b[bd[k] + 1] <= h2
    BY <1>1, <2>1, <2>2, SMTT(60) DEF Nesting
  <2>5. bd[k] < m => c[bd[k] + 1] = b[bd[k] + 1]
    BY <2>1, SMTT(60)
  <2> QED
    BY <2>2, <2>3, <2>4, <2>5, SMTT(60)
<1>5. ASSUME NEW k \in 1 .. l, k > 1 PROVE c[bd[k]] <= ob[k]
  <2>1. bd[k] <= m /\ bd[k] \in Nat /\ bd[1] < bd[k] /\ bd[1] \in Nat
    BY <1>3, <1>5 DEF Nesting
  <2>2. bd[k] \in 1 .. m
    BY <2>1
  <2> QED
    BY <2>2, <1>5 DEF Nesting
<1>6. ASSUME NEW i \in 1 .. m, NEW j \in 1 .. m, i <= j PROVE c[i] <= c[j]
  <2>1. i \in 1 .. n /\ j \in 1 .. n
    BY <1>1
  <2> QED
    BY <2>1, <1>6 DEF Nesting
<1>7. \A k, j \in 1 .. l : k < j => bd[k] < bd[j]
  BY DEF Nesting
<1> QED
  BY <1>2, <1>3, <1>4, <1>5, <1>6, <1>7 DEF Nesting

\* A frame is pushed on the operands of the top frame.
LEMMA NestingPushed ==
  ASSUME NEW n \in Nat, NEW h \in Nat, NEW h2 \in Nat, NEW l \in Nat \ {0},
         NEW b \in [1 .. n -> Nat], NEW c \in [1 .. n + 1 -> Nat],
         NEW bd \in [1 .. l -> Nat], NEW ob \in [1 .. l -> Nat],
         Nesting(n, b, h, l, bd, ob, TRUE),
         \A i \in 1 .. n : c[i] = b[i], b[n] <= c[n + 1], c[n + 1] <= h2
  PROVE  Nesting(n + 1, c, h2, l, bd, ob, TRUE)
<1>1. n \in 1 .. n
  BY DEF Nesting
<1>2. ASSUME NEW i \in 1 .. n PROVE c[i] <= c[n + 1]
  BY <1>1 DEF Nesting
<1>3. ASSUME NEW i \in 1 .. n + 1 PROVE c[i] <= h2
  <2>1. CASE i \in 1 .. n
    BY <1>2, <2>1
  <2>2. CASE i = n + 1
    BY <2>2
  <2> QED
    BY <2>1, <2>2
<1>4. ASSUME NEW i \in 1 .. n + 1, NEW j \in 1 .. n + 1, i <= j
      PROVE  c[i] <= c[j]
  <2>1. CASE j \in 1 .. n
    BY <1>4, <2>1, SMTT(60) DEF Nesting
  <2>2. CASE j = n + 1
    BY <1>2, <2>2
  <2> QED
    BY <2>1, <2>2
<1>5. ASSUME NEW k \in 1 .. l PROVE bd[k] < n
  <2>1. l \in 1 .. l /\ (k = l \/ k < l)
    OBVIOUS
  <2>2. bd[k] <= bd[l]
    BY <2>1, SMTT(60) DEF Nesting
  <2> QED
    BY <2>2 DEF Nesting
<1>6. ASSUME NEW k \in 1 .. l
      PROVE  ob[k] <= c[bd[k] + 1] /\ ob[k] <= h2
  <2>1. bd[k] + 1 \in 1 .. n /\ bd[k] \in Nat
    BY <1>5, SMTT(60)
  <2>2. ob[k] <= b[bd[k] + 1]
    BY <1>5 DEF Nesting
  <2>3. c[bd[k] + 1] = b[bd[k] + 1] /\ c[bd[k] + 1] <= h2
        /\ c[bd[k] + 1] \in Nat
    BY <2>1, <1>3, SMTT(60)
  <2> QED
    BY <2>2, <2>3, SMTT(60)
<1>7. ASSUME NEW k \in 1 .. l, k > 1 PROVE c[bd[k]] <= ob[k]
  <2>1. bd[k] < n /\ bd[k] \in Nat /\ bd[1] < bd[k] /\ bd[1] \in Nat
    BY <1>5, <1>7 DEF Nesting
  <2>2. bd[k] \in 1 .. n
    BY <2>1
  <2> QED
    BY <2>2, <1>7 DEF Nesting
<1>8. \A k, j \in 1 .. l : k < j => bd[k] < bd[j]
  BY DEF Nesting
<1> QED
  BY <1>3, <1>4, <1>5, <1>6, <1>7, <1>8, SMTT(60) DEF Nesting

\* The top frame becomes the first frame of a new activation: the operand
\* base lies between its base and the base of the frame below.
LEMMA NestingEntered ==
  ASSUME NEW n \in Nat, NEW h \in Nat, NEW l \in Nat \ {0},
         NEW b \in [1 .. n + 1 -> Nat],
         NEW bd \in [1 .. l -> Nat], NEW ob \in [1 .. l -> Nat],
         NEW bd2 \in [1 .. l + 1 -> Nat], NEW ob2 \in [1 .. l + 1 -> Nat],
         Nesting(n + 1, b, h, l, bd, ob, TRUE), bd[l] < n,
         \A k \in 1 .. l : bd2[k] = bd[k] /\ ob2[k] = ob[k],
         bd2[l + 1] = n, b[n] <= ob2[l + 1], ob2[l + 1] <= b[n + 1]
  PROVE  Nesting(n + 1, b, h, l + 1, bd2, ob2, TRUE)
<1>1. ASSUME NEW k \in 1 .. l + 1, NEW j \in 1 .. l + 1, k < j
      PROVE  bd2[k] < bd2[j]
  <2>1. k \in 1 .. l
    BY <1>1
  <2>2. CASE j \in 1 .. l
    BY <1>1, <2>1, <2>2 DEF Nesting
  <2>3. CASE j = l + 1
    <3>1. l \in 1 .. l /\ (k = l \/ k < l)
      BY <2>1
    <3>2. bd[k] <= bd[l] /\ bd[l] < n
      BY <2>1, <3>1, SMTT(60) DEF Nesting
    <3> QED
      BY <2>1, <2>3, <3>2, SMTT(60)
  <2> QED
    BY <2>2, <2>3
<1>2. ASSUME NEW k \in 1 .. l + 1
      PROVE  /\ bd2[k] <= n + 1
             /\ ob2[k] <= h
             /\ bd2[k] < n + 1 => ob2[k] <= b[bd2[k] + 1]
             /\ k > 1 => b[bd2[k]] <= ob2[k]
  <2>1. CASE k \in 1 .. l
    BY <2>1 DEF Nesting
  <2>2. CASE k = l + 1
    <3>1. b[n + 1] <= h /\ b[n + 1] \in Nat
      BY DEF Nesting
    <3> QED
      BY <2>2, <3>1
  <2> QED
    BY <2>1, <2>2
<1>3. /\ \A i, j \in 1 .. n + 1 : i <= j => b[i] <= b[j]
      /\ \A i \in 1 .. n + 1 : b[i] <= h
  BY DEF Nesting
<1> QED
  BY <1>1, <1>2, <1>3 DEF Nesting

\* The innermost activation has returned: the one below it runs again, its
\* stack still as it was.
LEMMA NestingResumed ==
  ASSUME NEW n \in Nat, NEW h \in Nat, NEW l \in Nat, l > 1,
         NEW b \in [1 .. n -> Nat],
         NEW bd \in [1 .. l -> Nat], NEW ob \in [1 .. l -> Nat],
         NEW bd2 \in [1 .. l - 1 -> Nat], NEW ob2 \in [1 .. l - 1 -> Nat],
         Nesting(n, b, h, l, bd, ob, FALSE),
         \A k \in 1 .. l - 1 : bd2[k] = bd[k] /\ ob2[k] = ob[k]
  PROVE  Nesting(n, b, h, l - 1, bd2, ob2, TRUE)
<1>1. \A k, j \in 1 .. l - 1 : k < j => bd2[k] < bd2[j]
  BY DEF Nesting
<1>2. ASSUME NEW k \in 1 .. l - 1
      PROVE  /\ bd2[k] <= n
             /\ ob2[k] <= h
             /\ bd2[k] < n => ob2[k] <= b[bd2[k] + 1]
             /\ k > 1 => b[bd2[k]] <= ob2[k]
  <2>1. k \in 1 .. l
    OBVIOUS
  <2> QED
    BY <2>1 DEF Nesting
<1>3. bd2[l - 1] < n
  BY DEF Nesting
<1> QED
  BY <1>1, <1>2, <1>3 DEF Nesting

-----------------------------------------------------------------------------
(* From numbers to frames, operands and activations.                       *)

Bases(fs) == [i \in 1 .. Len(fs) |-> fs[i].base]
Boundaries(ls) == [k \in 1 .. Len(ls) |-> ls[k].boundary]
OpBases(ls) == [k \in 1 .. Len(ls) |-> ls[k].opbase]

LEMMA BasesTyped ==
  ASSUME NEW fs \in Seq(Frame)
  PROVE  /\ Len(fs) \in Nat
         /\ Bases(fs) \in [1 .. Len(fs) -> Nat]
         /\ \A i \in 1 .. Len(fs) : Bases(fs)[i] = fs[i].base /\ fs[i].base \in Nat
<1>1. ASSUME NEW i \in 1 .. Len(fs) PROVE fs[i].base \in Nat
  <2>1. fs[i] \in Frame
    OBVIOUS
  <2> QED
    BY <2>1 DEF Frame
<1> QED
  BY <1>1 DEF Bases

LEMMA LoopsTyped ==
  ASSUME NEW ls \in Seq(Loop)
  PROVE  /\ Len(ls) \in Nat
         /\ Boundaries(ls) \in [1 .. Len(ls) -> Nat]
         /\ OpBases(ls) \in [1 .. Len(ls) -> Nat]
         /\ \A k \in 1 .. Len(ls) :
              /\ Boundaries(ls)[k] = ls[k].boundary /\ ls[k].boundary \in Nat
              /\ OpBases(ls)[k] = ls[k].opbase /\ ls[k].opbase \in Nat
<1>1. ASSUME NEW k \in 1 .. Len(ls)
      PROVE  ls[k].boundary \in Nat /\ ls[k].opbase \in Nat
  <2>1. ls[k] \in Loop
    OBVIOUS
  <2> QED
    BY <2>1 DEF Loop
<1> QED
  BY <1>1 DEF Boundaries, OpBases

LEMMA NestsIsNesting ==
  ASSUME NEW fs \in Seq(Frame), NEW st \in Seq(Value),
         NEW ls \in Seq(Loop), ls # <<>>, NEW running \in BOOLEAN
  PROVE  Nests(fs, st, ls, running) <=>
           Nesting(Len(fs), Bases(fs), Len(st), Len(ls), Boundaries(ls),
                   OpBases(ls), running)
<1> DEFINE n == Len(fs)
           l == Len(ls)
           b == Bases(fs)
           bd == Boundaries(ls)
           ob == OpBases(ls)
<1>1. n \in Nat /\ l \in Nat \ {0} /\ Len(st) \in Nat
  OBVIOUS
<1>2. \A i \in 1 .. n : b[i] = fs[i].base
  BY BasesTyped
<1>3. \A k \in 1 .. l : bd[k] = ls[k].boundary /\ ob[k] = ls[k].opbase
                        /\ bd[k] \in Nat /\ ob[k] \in Nat
  BY LoopsTyped
<1>4. (\A i, j \in 1 .. Len(fs) : i <= j => fs[i].base <= fs[j].base)
        <=> \A i, j \in 1 .. n : i <= j => b[i] <= b[j]
  BY <1>2
<1>5. (\A i \in 1 .. Len(fs) : fs[i].base <= Len(st))
        <=> \A i \in 1 .. n : b[i] <= Len(st)
  BY <1>2
<1>6. (\A k, m \in 1 .. Len(ls) : k < m => ls[k].boundary < ls[m].boundary)
        <=> \A k, m \in 1 .. l : k < m => bd[k] < bd[m]
  BY <1>3
<1>7. l \in 1 .. l
  BY <1>1
<1>8. \A k \in 1 .. l : (k > 1 /\ \A i, j \in 1 .. l : i < j => bd[i] < bd[j])
         => bd[k] > 0
  <2> SUFFICES ASSUME NEW k \in 1 .. l, k > 1,
                      \A i, j \in 1 .. l : i < j => bd[i] < bd[j]
               PROVE  bd[k] > 0
    OBVIOUS
  <2>1. 1 \in 1 .. l
    BY <1>1
  <2>2. bd[1] < bd[k] /\ bd[1] \in Nat /\ bd[k] \in Nat
    BY <1>3, <2>1
  <2> QED
    BY <2>2
<1> DEFINE Fits1(k) ==
             /\ ls[k].boundary <= Len(fs)
             /\ ls[k].opbase <= Len(st)
             /\ ls[k].boundary < Len(fs)
                  => ls[k].opbase <= fs[ls[k].boundary + 1].base
             /\ k > 1 => fs[ls[k].boundary].base <= ls[k].opbase
           Fits2(k) ==
             /\ bd[k] <= n
             /\ ob[k] <= Len(st)
             /\ bd[k] < n => ob[k] <= b[bd[k] + 1]
             /\ k > 1 => b[bd[k]] <= ob[k]
<1>9. ASSUME NEW k \in 1 .. l, \A i, j \in 1 .. l : i < j => bd[i] < bd[j]
      PROVE  Fits1(k) <=> Fits2(k)
  <2>1. bd[k] = ls[k].boundary /\ ob[k] = ls[k].opbase /\ bd[k] \in Nat
    BY <1>3
  <2>2. bd[k] < n => b[bd[k] + 1] = fs[bd[k] + 1].base
    <3>1. bd[k] < n => bd[k] + 1 \in 1 .. n
      BY <1>1, <2>1
    <3> QED
      BY <1>2, <3>1
  <2>3. k > 1 /\ bd[k] <= n => b[bd[k]] = fs[bd[k]].base
    <3>1. k > 1 => bd[k] > 0
      BY <1>8, <1>9
    <3>2. k > 1 /\ bd[k] <= n => bd[k] \in 1 .. n
      BY <1>1, <2>1, <3>1
    <3> QED
      BY <1>2, <3>2
  <2> QED
    BY <2>1, <2>2, <2>3
<1>10. ls[Len(ls)].boundary = bd[l]
  BY <1>3, <1>7
<1> HIDE DEF b, bd, ob, n, l
<1>11. Nests(fs, st, ls, running) <=>
        /\ \A i, j \in 1 .. n : i <= j => b[i] <= b[j]
        /\ \A i \in 1 .. n : b[i] <= Len(st)
        /\ \A k, m \in 1 .. l : k < m => bd[k] < bd[m]
        /\ \A k \in 1 .. l : Fits1(k)
        /\ running => bd[l] < n
        /\ ~running => bd[l] = n
  BY <1>4, <1>5, <1>6, <1>10, Zenon DEF Nests, n, l
<1>12. Nesting(n, b, Len(st), l, bd, ob, running) <=>
        /\ \A i, j \in 1 .. n : i <= j => b[i] <= b[j]
        /\ \A i \in 1 .. n : b[i] <= Len(st)
        /\ \A k, m \in 1 .. l : k < m => bd[k] < bd[m]
        /\ \A k \in 1 .. l : Fits2(k)
        /\ running => bd[l] < n
        /\ ~running => bd[l] = n
  BY Zenon DEF Nesting
<1> HIDE DEF Fits1, Fits2
<1> QED
  BY <1>9, <1>11, <1>12, Zenon DEF n, b, l, bd, ob

\* The same facts for frames, operands and activations.  A step of the top
\* frame or an unwinding:
LEMMA NestsTruncated ==
  ASSUME NEW fs \in Seq(Frame), NEW gs \in Seq(Frame),
         NEW st \in Seq(Value), NEW tt \in Seq(Value),
         NEW ls \in Seq(Loop), ls # <<>>,
         Nests(fs, st, ls, TRUE),
         Len(gs) <= Len(fs), ls[Len(ls)].boundary < Len(gs),
         \A i \in 1 .. Len(gs) : gs[i].base = fs[i].base,
         gs[Len(gs)].base <= Len(tt)
  PROVE  Nests(gs, tt, ls, TRUE)
<1>1. /\ Len(fs) \in Nat /\ Len(gs) \in Nat /\ Len(st) \in Nat
      /\ Len(tt) \in Nat /\ Len(ls) \in Nat \ {0} /\ Len(ls) \in 1 .. Len(ls)
  OBVIOUS
<1>2. Boundaries(ls)[Len(ls)] < Len(gs) /\ ls[Len(ls)].boundary \in Nat
  BY <1>1, LoopsTyped
<1>3. \A i \in 1 .. Len(gs) : i \in 1 .. Len(fs)
  BY <1>1
<1>4. \A i \in 1 .. Len(gs) : Bases(gs)[i] = Bases(fs)[i]
  BY <1>3, BasesTyped
<1>5. Len(gs) \in 1 .. Len(gs)
  BY <1>1, <1>2
<1>6. Bases(gs)[Len(gs)] <= Len(tt)
  BY <1>5, BasesTyped
<1>7. Nesting(Len(fs), Bases(fs), Len(st), Len(ls), Boundaries(ls),
              OpBases(ls), TRUE)
  BY NestsIsNesting
<1>8. Nesting(Len(gs), Bases(gs), Len(tt), Len(ls), Boundaries(ls),
              OpBases(ls), TRUE)
  <2>1. Bases(fs) \in [1 .. Len(fs) -> Nat] /\ Bases(gs) \in [1 .. Len(gs) -> Nat]
    BY BasesTyped
  <2>2. /\ Boundaries(ls) \in [1 .. Len(ls) -> Nat]
        /\ OpBases(ls) \in [1 .. Len(ls) -> Nat]
    BY LoopsTyped
  <2> QED
    BY <1>1, <1>2, <1>4, <1>6, <1>7, <2>1, <2>2, NestingTruncated, ZenonT(60)
<1> QED
  BY <1>8, NestsIsNesting

\* The activation gives up its frames:
LEMMA NestsLeft ==
  ASSUME NEW fs \in Seq(Frame), NEW gs \in Seq(Frame),
         NEW st \in Seq(Value), NEW tt \in Seq(Value),
         NEW ls \in Seq(Loop), ls # <<>>,
         Nests(fs, st, ls, TRUE),
         Len(gs) = ls[Len(ls)].boundary,
         \A i \in 1 .. Len(gs) : gs[i].base = fs[i].base,
         Len(tt) = fs[Len(gs) + 1].base
  PROVE  Nests(gs, tt, ls, FALSE)
<1>1. /\ Len(fs) \in Nat /\ Len(gs) \in Nat /\ Len(st) \in Nat
      /\ Len(tt) \in Nat /\ Len(ls) \in Nat \ {0} /\ Len(ls) \in 1 .. Len(ls)
  OBVIOUS
<1>2. Boundaries(ls)[Len(ls)] = Len(gs)
  BY <1>1, LoopsTyped
<1>3. Len(gs) < Len(fs)
  BY <1>2 DEF Nests
<1>4. \A i \in 1 .. Len(gs) : i \in 1 .. Len(fs)
  BY <1>1, <1>3
<1>5. \A i \in 1 .. Len(gs) : Bases(gs)[i] = Bases(fs)[i]
  BY <1>4, BasesTyped
<1>6. Len(gs) + 1 \in 1 .. Len(fs)
  BY <1>1, <1>3
<1>7. Bases(fs)[Len(gs) + 1] = Len(tt)
  BY <1>6, BasesTyped
<1>8. Nesting(Len(fs), Bases(fs), Len(st), Len(ls), Boundaries(ls),
              OpBases(ls), TRUE)
  BY NestsIsNesting
<1>9. Nesting(Len(gs), Bases(gs), Len(tt), Len(ls), Boundaries(ls),
              OpBases(ls), FALSE)
  BY <1>1, <1>2, <1>5, <1>7, <1>8, BasesTyped, LoopsTyped, NestingLeft
<1> QED
  BY <1>9, NestsIsNesting

\* A frame is pushed:
LEMMA NestsPushed ==
  ASSUME NEW fs \in Seq(Frame), NEW f \in Frame,
         NEW st \in Seq(Value), NEW tt \in Seq(Value),
         NEW ls \in Seq(Loop), ls # <<>>,
         Nests(fs, st, ls, TRUE),
         fs[Len(fs)].base <= f.base, f.base <= Len(tt)
  PROVE  Nests(Append(fs, f), tt, ls, TRUE)
<1> DEFINE gs == Append(fs, f)
           n == Len(fs)
<1>1. /\ n \in Nat /\ gs \in Seq(Frame) /\ Len(gs) = n + 1
      /\ Len(st) \in Nat /\ Len(tt) \in Nat /\ Len(ls) \in Nat \ {0}
  OBVIOUS
<1>2. \A i \in 1 .. n : gs[i] = fs[i] /\ i \in 1 .. n + 1
  OBVIOUS
<1>3. gs[n + 1] = f /\ n + 1 \in 1 .. Len(gs)
  BY <1>1
<1>4. \A i \in 1 .. n : Bases(gs)[i] = Bases(fs)[i]
  BY <1>1, <1>2, BasesTyped, ZenonT(60)
<1>5. Bases(gs)[n + 1] = f.base
  BY <1>1, <1>3, BasesTyped
<1>6. Nesting(n, Bases(fs), Len(st), Len(ls), Boundaries(ls), OpBases(ls), TRUE)
  BY NestsIsNesting
<1>7. n \in 1 .. n
  <2>1. ls[Len(ls)].boundary < n /\ ls[Len(ls)].boundary \in Nat
    BY <1>1, LoopsTyped DEF Nests
  <2> QED
    BY <1>1, <2>1
<1>8. Bases(fs)[n] <= Bases(gs)[n + 1] /\ Bases(gs)[n + 1] <= Len(tt)
  BY <1>5, <1>7, BasesTyped
<1>9. Bases(gs) \in [1 .. n + 1 -> Nat] /\ Bases(fs) \in [1 .. n -> Nat]
  BY <1>1, BasesTyped
<1>10. Nesting(n + 1, Bases(gs), Len(tt), Len(ls), Boundaries(ls),
               OpBases(ls), TRUE)
  BY <1>1, <1>4, <1>6, <1>8, <1>9, LoopsTyped, NestingPushed
<1> QED
  BY <1>1, <1>10, NestsIsNesting

\* A frame is pushed as the first of a new activation:
LEMMA NestsEntered ==
  ASSUME NEW fs \in Seq(Frame), NEW f \in Frame,
         NEW st \in Seq(Value), NEW tt \in Seq(Value),
         NEW ls \in Seq(Loop), ls # <<>>, NEW a \in Loop,
         Nests(fs, st, ls, TRUE),
         a.boundary = Len(fs), fs[Len(fs)].base <= a.opbase,
         a.opbase <= f.base, f.base <= Len(tt)
  PROVE  Nests(Append(fs, f), tt, Append(ls, a), TRUE)
<1> DEFINE gs == Append(fs, f)
           ms == Append(ls, a)
           n == Len(fs)
           l == Len(ls)
<1>1. /\ n \in Nat /\ gs \in Seq(Frame) /\ Len(gs) = n + 1
      /\ Len(st) \in Nat /\ Len(tt) \in Nat
      /\ l \in Nat \ {0} /\ ms \in Seq(Loop) /\ Len(ms) = l + 1 /\ ms # <<>>
      /\ l \in 1 .. l
  OBVIOUS
<1>2. /\ a.opbase \in Nat /\ f.base \in Nat
      /\ a.boundary \in Nat
  BY DEF Loop, Frame
<1>3. ls[l].boundary < n /\ ls[l].boundary \in Nat
  BY <1>1, LoopsTyped DEF Nests
<1>4. n \in 1 .. n
  BY <1>1, <1>3
<1>5. fs[n].base \in Nat /\ fs[n].base <= f.base
  BY <1>2, <1>4, BasesTyped
<1>6. Nests(gs, tt, ls, TRUE)
  BY <1>5, NestsPushed
<1>7. Nesting(n + 1, Bases(gs), Len(tt), l, Boundaries(ls), OpBases(ls), TRUE)
  BY <1>1, <1>6, NestsIsNesting
<1>8. /\ \A k \in 1 .. l : ms[k] = ls[k] /\ k \in 1 .. l + 1
      /\ ms[l + 1] = a /\ l + 1 \in 1 .. l + 1
  BY <1>1
<1>a. \A k \in 1 .. l + 1 : /\ Boundaries(ms)[k] = ms[k].boundary
                            /\ OpBases(ms)[k] = ms[k].opbase
  BY <1>1, LoopsTyped
<1>b. \A k \in 1 .. l : /\ Boundaries(ls)[k] = ls[k].boundary
                        /\ OpBases(ls)[k] = ls[k].opbase
  BY <1>1, LoopsTyped
<1> HIDE DEF ms, gs, l, n
<1>9. \A k \in 1 .. l : /\ Boundaries(ms)[k] = Boundaries(ls)[k]
                        /\ OpBases(ms)[k] = OpBases(ls)[k]
  BY <1>8, <1>a, <1>b, Zenon
<1>10. Boundaries(ms)[l + 1] = n /\ OpBases(ms)[l + 1] = a.opbase
  BY <1>8, <1>a DEF n
<1> USE DEF ms, gs, l, n
<1>11. gs[n] = fs[n] /\ gs[n + 1] = f /\ n \in 1 .. Len(gs) /\ n + 1 \in 1 .. Len(gs)
  BY <1>1, <1>4
<1>12. Bases(gs)[n] = fs[n].base /\ Bases(gs)[n + 1] = f.base
  BY <1>1, <1>11, BasesTyped
<1>13. /\ Bases(gs) \in [1 .. n + 1 -> Nat]
       /\ Boundaries(ls) \in [1 .. l -> Nat] /\ OpBases(ls) \in [1 .. l -> Nat]
       /\ Boundaries(ms) \in [1 .. l + 1 -> Nat]
       /\ OpBases(ms) \in [1 .. l + 1 -> Nat]
       /\ Boundaries(ls)[l] < n
  BY <1>1, <1>3, BasesTyped, LoopsTyped
<1>14. /\ Bases(gs)[n] <= OpBases(ms)[l + 1]
       /\ OpBases(ms)[l + 1] <= Bases(gs)[n + 1]
  BY <1>10, <1>12
<1>15. Nesting(n + 1, Bases(gs), Len(tt), l + 1, Boundaries(ms), OpBases(ms),
               TRUE)
  BY <1>1, <1>7, <1>9, <1>10, <1>13, <1>14, NestingEntered
<1> QED
  BY <1>1, <1>15, NestsIsNesting

\* The innermost activation has returned to the one below:
LEMMA NestsResumed ==
  ASSUME NEW fs \in Seq(Frame), NEW st \in Seq(Value),
         NEW ls \in Seq(Loop), Len(ls) > 1, Nests(fs, st, ls, FALSE)
  PROVE  LET ms == SubSeq(ls, 1, Len(ls) - 1)
         IN  /\ ms \in Seq(Loop) /\ ms # <<>> /\ Len(ms) = Len(ls) - 1
             /\ Nests(fs, st, ms, TRUE)
             /\ fs # <<>> /\ Len(fs) = ls[Len(ls)].boundary
             /\ fs[Len(fs)].base <= ls[Len(ls)].opbase
             /\ ls[Len(ls)].opbase <= Len(st)
<1> DEFINE ms == SubSeq(ls, 1, Len(ls) - 1)
           l == Len(ls)
<1>1. l \in Nat /\ ms \in Seq(Loop) /\ ms # <<>> /\ Len(ms) = l - 1 /\ ls # <<>>
      /\ Len(fs) \in Nat /\ Len(st) \in Nat
  <2>1. l \in Nat /\ ls # <<>> /\ Len(fs) \in Nat /\ Len(st) \in Nat
    OBVIOUS
  <2>2. l - 1 \in 1 .. l
    BY <2>1
  <2>3. ms \in Seq(Loop)
    BY <2>2
  <2>4. Len(ms) = l - 1
    BY <2>1, <2>2
  <2> HIDE DEF ms, l
  <2>5. ms # <<>>
    <3>1. Len(ms) # 0
      BY <2>1, <2>2, <2>4
    <3> QED
      BY <3>1
  <2> QED
    BY <2>1, <2>3, <2>4, <2>5
<1>2. \A k \in 1 .. l - 1 : ms[k] = ls[k] /\ k \in 1 .. l
  BY <1>1
<1>3. \A k \in 1 .. l - 1 : /\ Boundaries(ms)[k] = Boundaries(ls)[k]
                           /\ OpBases(ms)[k] = OpBases(ls)[k]
  BY <1>1, <1>2, LoopsTyped, ZenonT(60)
<1>4. Nesting(Len(fs), Bases(fs), Len(st), l, Boundaries(ls), OpBases(ls), FALSE)
  BY <1>1, NestsIsNesting
<1>5. /\ Bases(fs) \in [1 .. Len(fs) -> Nat]
      /\ Boundaries(ls) \in [1 .. l -> Nat] /\ OpBases(ls) \in [1 .. l -> Nat]
      /\ Boundaries(ms) \in [1 .. l - 1 -> Nat]
      /\ OpBases(ms) \in [1 .. l - 1 -> Nat]
  BY <1>1, BasesTyped, LoopsTyped
<1>6. Nesting(Len(fs), Bases(fs), Len(st), l - 1, Boundaries(ms), OpBases(ms),
              TRUE)
  BY <1>1, <1>3, <1>4, <1>5, NestingResumed
<1>7. Nests(fs, st, ms, TRUE)
  BY <1>1, <1>6, NestsIsNesting
<1>8. /\ ls[l].boundary = Len(fs)
      /\ fs[ls[l].boundary].base <= ls[l].opbase
      /\ ls[l].opbase <= Len(st)
      /\ ls[1].boundary < ls[l].boundary
  BY <1>1 DEF Nests
<1>9. ls[1].boundary \in Nat
  BY <1>1, LoopsTyped
<1>10. fs # <<>>
  BY <1>1, <1>8, <1>9
<1> QED
  BY <1>1, <1>7, <1>8, <1>10

=============================================================================
