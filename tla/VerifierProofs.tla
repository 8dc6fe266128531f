--------------------------- MODULE VerifierProofs ---------------------------
(***************************************************************************)
(* What the verifier's acceptance is worth, for every program it accepts.  *)
(* The depths it found are a fixed point of the control flow (module       *)
(* Verifier).  The virtual machine keeps to them (module Interpreter):     *)
(* every instruction finds the operands it needs, and every suspended      *)
(* caller finds its own when control comes back.  The last part is about   *)
(* the handler table the verifier accepted: a saved completion waits only  *)
(* inside the finalizer that owns it.                                      *)
(***************************************************************************)
EXTENDS ExecutionProofs

-----------------------------------------------------------------------------
(* The rounds of the worklist.                                             *)

\* Induction over the naturals, for a set.
LEMMA NatSetInduction ==
  ASSUME NEW S \in SUBSET Nat, 0 \in S, \A n \in S : n + 1 \in S
  PROVE  Nat \subseteq S
<1> SUFFICES ASSUME Nat \ S # {} PROVE FALSE
  OBVIOUS
<1>1. PICK x \in Nat \ S : \A y \in Nat \ S : x <= y
  BY LeastNat
<1>2. x # 0 /\ x - 1 \in Nat /\ ~(x <= x - 1)
  BY <1>1
<1>3. x - 1 \in S
  BY <1>1, <1>2
<1> QED
  BY <1>1, <1>3

\* The rounds of module Verifier as a function and its step.
Start(c) == [seen |-> Entries(c), work |-> Entries(c)]
Grow(c, r) ==
  LET found == Flow(c, r.work) \ r.seen
  IN  [seen |-> r.seen \cup found, work |-> found]
Rounds(c, n, f) ==
  f = [k \in 0 .. n |-> IF k = 0 THEN Start(c) ELSE Grow(c, f[k - 1])]

LEMMA RoundsExist ==
  ASSUME NEW c, NEW n \in Nat
  PROVE  \E f : Rounds(c, n, f)
<1> DEFINE S == {m \in Nat : \E f : Rounds(c, m, f)}
<1>1. 0 \in S
  <2> DEFINE f == [k \in 0 .. 0 |-> Start(c)]
  <2>1. f = [k \in 0 .. 0 |-> IF k = 0 THEN Start(c) ELSE Grow(c, f[k - 1])]
    OBVIOUS
  <2> QED
    BY <2>1 DEF Rounds
<1>2. ASSUME NEW m \in S PROVE m + 1 \in S
  <2>1. PICK f : Rounds(c, m, f)
    OBVIOUS
  <2>2. m \in Nat
    OBVIOUS
  <2> DEFINE g == [k \in 0 .. m + 1 |-> IF k <= m THEN f[k] ELSE Grow(c, f[m])]
             h == [k \in 0 .. m + 1 |-> IF k = 0 THEN Start(c) ELSE Grow(c, g[k - 1])]
  <2>3. \A k \in 0 .. m : f[k] = IF k = 0 THEN Start(c) ELSE Grow(c, f[k - 1])
    BY <2>1 DEF Rounds
  <2>4. ASSUME NEW k \in 0 .. m + 1 PROVE g[k] = h[k]
    <3>1. CASE k = 0
      BY <2>2, <2>3, <3>1
    <3>2. CASE k \in 1 .. m
      <4>1. k \in 0 .. m /\ k - 1 \in 0 .. m + 1 /\ k - 1 <= m /\ k <= m /\ k # 0
        BY <2>2, <3>2
      <4>2. g[k - 1] = f[k - 1] /\ g[k] = f[k]
        BY <4>1
      <4> QED
        BY <2>3, <4>1, <4>2
    <3>3. CASE k = m + 1
      <4>1. k # 0 /\ ~(k <= m) /\ k - 1 = m /\ m \in 0 .. m + 1 /\ m <= m
        BY <2>2, <3>3
      <4>2. g[m] = f[m] /\ g[k] = Grow(c, f[m])
        BY <4>1
      <4> QED
        BY <4>1, <4>2
    <3> QED
      BY <2>2, <3>1, <3>2, <3>3
  <2>5. g = h
    BY <2>4
  <2>6. g = [k \in 0 .. m + 1 |-> IF k = 0 THEN Start(c) ELSE Grow(c, g[k - 1])]
    BY <2>5, Zenon
  <2> HIDE DEF g, h
  <2>7. Rounds(c, m + 1, g) /\ m + 1 \in Nat
    BY <2>2, <2>6 DEF Rounds
  <2> QED
    BY <2>7
<1>3. Nat \subseteq S
  BY <1>1, <1>2, NatSetInduction
<1> QED
  BY <1>3

\* What the verifier collects is the result of the last round.
LEMMA ReachedIsLastRound ==
  ASSUME NEW c, Len(c.code) \in Nat
  PROVE  \E f : Rounds(c, Len(c.code), f) /\ Reached(c) = f[Len(c.code)].seen
<1> DEFINE f == CHOOSE x : Rounds(c, Len(c.code), x)
<1>1. Rounds(c, Len(c.code), f)
  BY RoundsExist
<1>2. Reached(c) = f[Len(c.code)].seen
  BY DEF Reached, Rounds, Start, Grow
<1> QED
  BY <1>1, <1>2

-----------------------------------------------------------------------------
(* What a round finds is finite and typed.                                 *)

Pair == Nat \X Int

LEMMA TwoFinite ==
  ASSUME NEW x, NEW y
  PROVE  IsFiniteSet({x} \cup {y})
<1>1. IsFiniteSet({x})
  BY FS_Singleton
<1> DEFINE S == {x}
<1> HIDE DEF S
<1>2. IsFiniteSet(S)
  BY <1>1 DEF S
<1>3. IsFiniteSet(S \cup {y})
  BY <1>2, FS_AddElement
<1> QED
  BY <1>3 DEF S

LEMMA FlowTyped ==
  ASSUME NEW c, c.code \in Seq(Instruction), NEW P \in SUBSET Pair
  PROVE  Flow(c, P) \subseteq Pair
<1> SUFFICES ASSUME NEW p \in P, p[1] \in DOMAIN c.code,
                    NEW t \in Successors(c.code[p[1]], p[1])
             PROVE  <<t, DepthAfter(c.code[p[1]], p[2])>> \in Pair
  BY DEF Flow
<1>1. p[1] \in Nat /\ p[2] \in Int
  BY DEF Pair
<1> DEFINE i == c.code[p[1]]
<1>2. i \in Instruction
  OBVIOUS
<1>3. i.n \in Nat
  BY <1>2 DEF Instruction
<1> HIDE DEF i
<1>4. t \in Successors(i, p[1])
  BY DEF i
<1>5. t \in Nat
  BY <1>1, <1>3, <1>4 DEF Successors
<1>6. DepthAfter(i, p[2]) \in Int
  BY <1>1, <1>3 DEF DepthAfter
<1> QED
  BY <1>5, <1>6 DEF Pair, i

LEMMA FlowFinite ==
  ASSUME NEW c, NEW P, IsFiniteSet(P)
  PROVE  IsFiniteSet(Flow(c, P))
<1> DEFINE Q == {q \in P : q[1] \in DOMAIN c.code}
           G(p) == {<<t, DepthAfter(c.code[p[1]], p[2])>> :
                      t \in Successors(c.code[p[1]], p[1])}
           f == [p \in Q |-> G(p)]
           T == {G(p) : p \in Q}
<1>1. IsFiniteSet(Q)
  BY FS_Subset
<1>2. f \in Surjection(Q, T)
  BY DEF Surjection
<1>3. IsFiniteSet(T)
  BY <1>1, <1>2, FS_Surjection
<1>4. ASSUME NEW p \in Q PROVE IsFiniteSet(G(p))
  <2> DEFINE i == c.code[p[1]]
             d == DepthAfter(i, p[2])
             two == {<<i.n, d>>} \cup {<<p[1] + 1, d>>}
  <2>1. IsFiniteSet(two)
    BY TwoFinite
  <2>2. Successors(i, p[1]) \subseteq {i.n, p[1] + 1}
    BY DEF Successors
  <2>3. G(p) \in SUBSET two
    BY <2>2
  <2> QED
    BY <2>1, <2>3, FS_Subset
<1>5. \A X \in T : IsFiniteSet(X)
  BY <1>4
<1>6. Flow(c, P) = UNION T
  BY DEF Flow
<1> QED
  BY <1>3, <1>5, <1>6, FS_UNION

LEMMA EntriesFinite ==
  ASSUME NEW c, c.handlers \in Seq(ExceptionHandler)
  PROVE  IsFiniteSet(Entries(c)) /\ Entries(c) \subseteq Pair
<1> DEFINE hs == c.handlers
           G(k) == HandlerEntries(hs[k])
           f == [k \in DOMAIN hs |-> G(k)]
           T == {G(k) : k \in DOMAIN hs}
<1>1. IsFiniteSet(DOMAIN hs)
  <2>1. DOMAIN hs = 1 .. Len(hs) /\ Len(hs) \in Int /\ 1 \in Int
    OBVIOUS
  <2> QED
    BY <2>1, FS_Interval
<1>2. f \in Surjection(DOMAIN hs, T)
  BY DEF Surjection
<1>3. IsFiniteSet(T)
  BY <1>1, <1>2, FS_Surjection
<1>4. ASSUME NEW k \in DOMAIN hs
      PROVE  IsFiniteSet(G(k)) /\ G(k) \subseteq Pair
  <2> DEFINE two == {<<hs[k].catch_start, 1>>} \cup {<<hs[k].finally_start, 0>>}
  <2>1. IsFiniteSet(two)
    BY TwoFinite
  <2>2. G(k) \in SUBSET two
    BY DEF HandlerEntries
  <2>3. hs[k] \in ExceptionHandler
    OBVIOUS
  <2>4. hs[k].catch_start \in Nat /\ hs[k].finally_start \in Nat
    BY <2>3 DEF ExceptionHandler
  <2>5. two \subseteq Pair
    BY <2>4 DEF Pair
  <2> QED
    BY <2>1, <2>2, <2>5, FS_Subset
<1>5. IsFiniteSet(UNION T) /\ UNION T \subseteq Pair
  BY <1>3, <1>4, FS_UNION
<1> DEFINE U == UNION T
<1>6. Entries(c) = {<<1, 0>>} \cup U
  BY Zenon DEF Entries
<1>7. <<1, 0>> \in Pair
  BY DEF Pair
<1> HIDE DEF U
<1>8. IsFiniteSet(U) /\ U \subseteq Pair
  BY <1>5 DEF U
<1>9. IsFiniteSet(U \cup {<<1, 0>>})
  BY <1>8, FS_AddElement
<1>10. Entries(c) = U \cup {<<1, 0>>}
  BY <1>6
<1> QED
  BY <1>7, <1>8, <1>9, <1>10

\* The worklist's invariant: all that was handled flows into what was seen,
\* and a round that has work left has found something new every time.
RoundInv(c, k, r) ==
  /\ IsFiniteSet(r.seen) /\ r.seen \subseteq Pair
  /\ r.work \subseteq r.seen /\ Entries(c) \subseteq r.seen
  /\ Flow(c, r.seen \ r.work) \subseteq r.seen
  /\ r.work = {} \/ k + 1 <= Cardinality(r.seen)

LEMMA FlowParts ==
  ASSUME NEW c, NEW P, NEW Q
  PROVE  Flow(c, P \cup Q) = Flow(c, P) \cup Flow(c, Q) /\ Flow(c, {}) = {}
BY DEF Flow

LEMMA RoundGrows ==
  ASSUME NEW c, c.code \in Seq(Instruction), NEW k \in Nat, NEW r,
         RoundInv(c, k, r)
  PROVE  RoundInv(c, k + 1, Grow(c, r))
<1> DEFINE found == Flow(c, r.work) \ r.seen
           s == r.seen \cup found
<1>1. Grow(c, r).seen = s /\ Grow(c, r).work = found
  BY DEF Grow
<1>2. /\ IsFiniteSet(r.seen) /\ r.seen \subseteq Pair /\ r.work \subseteq r.seen
      /\ Entries(c) \subseteq r.seen /\ Flow(c, r.seen \ r.work) \subseteq r.seen
      /\ r.work = {} \/ k + 1 <= Cardinality(r.seen)
  BY DEF RoundInv
<1>3. IsFiniteSet(r.work) /\ r.work \subseteq Pair
  BY <1>2, FS_Subset
<1>4. IsFiniteSet(Flow(c, r.work)) /\ Flow(c, r.work) \subseteq Pair
  BY <1>3, FlowFinite, FlowTyped
<1>5. IsFiniteSet(found)
  BY <1>4, FS_Difference
<1>6. IsFiniteSet(s) /\ s \subseteq Pair
  BY <1>2, <1>4, <1>5, FS_Union
<1>7. Flow(c, s \ found) \subseteq s
  <2>1. s \ found = (r.seen \ r.work) \cup r.work
    BY <1>2
  <2>2. Flow(c, s \ found) = Flow(c, r.seen \ r.work) \cup Flow(c, r.work)
    BY <2>1, FlowParts
  <2> QED
    BY <1>2, <2>2
<1>8. found = {} \/ k + 1 + 1 <= Cardinality(s)
  <2> SUFFICES ASSUME found # {} PROVE k + 1 + 1 <= Cardinality(s)
    OBVIOUS
  <2>1. r.work # {}
    BY FlowParts
  <2>2. k + 1 <= Cardinality(r.seen)
    BY <1>2, <2>1
  <2>3. r.seen \in SUBSET s /\ r.seen # s
    OBVIOUS
  <2>4. Cardinality(r.seen) <= Cardinality(s) /\ Cardinality(s) # Cardinality(r.seen)
    BY <1>6, <2>3, FS_Subset
  <2>5. Cardinality(r.seen) \in Nat /\ Cardinality(s) \in Nat
    BY <1>2, <1>6, FS_CardinalityType
  <2> QED
    BY <2>2, <2>4, <2>5
<1> HIDE DEF found, s
<1>9. found \subseteq s /\ Entries(c) \subseteq s
  BY <1>2 DEF s
<1> QED
  BY <1>1, <1>6, <1>7, <1>8, <1>9 DEF RoundInv

LEMMA RoundsKeep ==
  ASSUME NEW c, c.code \in Seq(Instruction), c.handlers \in Seq(ExceptionHandler),
         NEW n \in Nat, NEW f, Rounds(c, n, f)
  PROVE  \A k \in 0 .. n : RoundInv(c, k, f[k])
<1> DEFINE S == {k \in Nat : k <= n => RoundInv(c, k, f[k])}
<1>1. \A k \in 0 .. n : f[k] = IF k = 0 THEN Start(c) ELSE Grow(c, f[k - 1])
  BY DEF Rounds
<1>2. 0 \in S
  <2>1. f[0] = Start(c)
    BY <1>1
  <2>2. Start(c).seen = Entries(c) /\ Start(c).work = Entries(c)
    BY DEF Start
  <2>3. IsFiniteSet(Entries(c)) /\ Entries(c) \subseteq Pair
    BY EntriesFinite
  <2>4. Flow(c, Entries(c) \ Entries(c)) = {}
    BY FlowParts
  <2>5. 0 + 1 <= Cardinality(Entries(c))
    <3>1. Cardinality(Entries(c)) \in Nat
      BY <2>3, FS_CardinalityType
    <3>2. Cardinality(Entries(c)) # 0
      BY <2>3, FS_EmptySet DEF Entries
    <3> QED
      BY <3>1, <3>2
  <2>6. RoundInv(c, 0, Start(c))
    BY <2>2, <2>3, <2>4, <2>5 DEF RoundInv
  <2> QED
    BY <2>1, <2>6
<1>3. ASSUME NEW k \in S PROVE k + 1 \in S
  <2> SUFFICES ASSUME k + 1 <= n PROVE RoundInv(c, k + 1, f[k + 1])
    OBVIOUS
  <2>1. k \in Nat /\ k <= n /\ k + 1 \in 0 .. n /\ k + 1 # 0 /\ k + 1 - 1 = k
    OBVIOUS
  <2>2. RoundInv(c, k, f[k])
    BY <2>1
  <2>3. f[k + 1] = Grow(c, f[k])
    BY <1>1, <2>1
  <2>4. RoundInv(c, k + 1, Grow(c, f[k]))
    BY <2>1, <2>2, RoundGrows
  <2> QED
    BY <2>3, <2>4
<1>4. Nat \subseteq S
  BY <1>2, <1>3, NatSetInduction
<1> QED
  BY <1>4

-----------------------------------------------------------------------------
(* An accepted chunk.                                                      *)

\* The pairs of an accepted chunk are closed under its control flow, and
\* give every instruction at most one depth.
LEMMA AcceptedIsClosed ==
  ASSUME NEW c, WellFormed(c), verify(c)
  PROVE  LET pairs == Reached(c)
         IN  /\ pairs \subseteq Pair /\ Entries(c) \subseteq pairs
             /\ Flow(c, pairs) \subseteq pairs
             /\ \A p, q \in pairs : p[1] = q[1] => p = q
<1> DEFINE pairs == Reached(c)
           n == Len(c.code)
           pcs == {p[1] : p \in pairs}
           f == [p \in pairs |-> p[1]]
<1>1. c.code \in Seq(Instruction) /\ c.handlers \in Seq(ExceptionHandler)
  BY DEF WellFormed
<1>2. n \in Nat /\ DOMAIN c.code = 1 .. n
  BY <1>1
<1>3. PICK g : Rounds(c, n, g) /\ pairs = g[n].seen
  BY <1>2, ReachedIsLastRound
<1>4. n \in 0 .. n
  BY <1>2
<1>5. RoundInv(c, n, g[n])
  BY <1>1, <1>2, <1>3, <1>4, RoundsKeep
<1>6. /\ IsFiniteSet(pairs) /\ pairs \subseteq Pair /\ Entries(c) \subseteq pairs
      /\ g[n].work \subseteq pairs
      /\ Flow(c, pairs \ g[n].work) \subseteq pairs
      /\ g[n].work = {} \/ n + 1 <= Cardinality(pairs)
  BY <1>3, <1>5 DEF RoundInv
<1>7. /\ \A p \in pairs : p[1] \in DOMAIN c.code
      /\ Cardinality(pcs) = Cardinality(pairs)
  BY DEF verify
<1> HIDE DEF pairs
<1>8. f \in Surjection(pairs, pcs)
  BY DEF Surjection
<1>9. f \in Injection(pairs, pcs)
  BY <1>6, <1>7, <1>8, FS_Surjection
<1>10. \A p, q \in pairs : p[1] = q[1] => p = q
  BY <1>9 DEF Injection, IsInjective
<1>11. Cardinality(pairs) <= n
  <2>1. pcs \in SUBSET (1 .. n)
    BY <1>2, <1>7
  <2>2. IsFiniteSet(1 .. n) /\ Cardinality(1 .. n) = n
    BY <1>2, FS_Interval
  <2>3. Cardinality(pcs) <= Cardinality(1 .. n)
    BY <2>1, <2>2, FS_Subset
  <2> QED
    BY <1>7, <2>2, <2>3
<1>12. g[n].work = {}
  <2>1. Cardinality(pairs) \in Nat
    BY <1>6, FS_CardinalityType
  <2> QED
    BY <1>2, <1>6, <1>11, <2>1
<1>13. Flow(c, pairs) \subseteq pairs
  <2>1. pairs \ g[n].work = pairs
    BY <1>12
  <2> QED
    BY <1>6, <2>1
<1> QED
  BY <1>6, <1>10, <1>13 DEF pairs

\* What the verifier promises with the depths d of a chunk: the entry starts
\* with no operand, a catch clause with the exception, a finalizer with none;
\* every reachable instruction finds the operands it requires, RETURN exactly
\* one; and control passes only to instructions of the chunk, at the depth the
\* instruction before it leaves.
Sound(c, d) ==
  /\ DOMAIN d \subseteq DOMAIN c.code
  /\ \A pc \in DOMAIN d : pc \in Nat /\ d[pc] \in Nat
  /\ 1 \in DOMAIN d /\ d[1] = 0
  /\ \A k \in DOMAIN c.handlers :
       LET h == c.handlers[k]
       IN  /\ h.catch_start # NoTarget =>
                h.catch_start \in DOMAIN d /\ d[h.catch_start] = 1
           /\ h.finally_start # NoTarget =>
                h.finally_start \in DOMAIN d /\ d[h.finally_start] = 0
  /\ \A pc \in DOMAIN d :
       /\ Required(c.code[pc]) <= d[pc]
       /\ c.code[pc].op = "return" => d[pc] = 1
       /\ \A t \in Successors(c.code[pc], pc) :
            t \in DOMAIN d /\ d[t] = DepthAfter(c.code[pc], d[pc])

\* The depths of a chunk that verify accepts are sound (verifier.cpp, verify):
\* the worklist ends, on a chunk of any size, with a fixed point of the
\* control flow that gives every reachable instruction one depth.
THEOREM AcceptedIsSound ==
  ASSUME NEW c, WellFormed(c), verify(c)
  PROVE  Sound(c, Depths(c))
<1> DEFINE pairs == Reached(c)
           d == Depths(c)
<1>1. /\ pairs \subseteq Pair /\ Entries(c) \subseteq pairs
      /\ Flow(c, pairs) \subseteq pairs
      /\ \A p, q \in pairs : p[1] = q[1] => p = q
  BY AcceptedIsClosed
<1>2. \A p \in pairs : /\ p[1] \in DOMAIN c.code
                       /\ p[2] >= Required(c.code[p[1]])
                       /\ c.code[p[1]].op = "return" => p[2] = 1
  BY DEF verify
<1>3. \A pc \in DOMAIN d : <<pc, d[pc]>> \in pairs
  <2> SUFFICES ASSUME NEW pc \in DOMAIN d PROVE <<pc, d[pc]>> \in pairs
    OBVIOUS
  <2>1. DOMAIN d = {p[1] : p \in pairs} /\ d[pc] = (CHOOSE p \in pairs : p[1] = pc)[2]
    BY DEF Depths
  <2> DEFINE q == CHOOSE p \in pairs : p[1] = pc
  <2>2. q \in pairs /\ q[1] = pc
    BY <2>1
  <2>3. q \in Pair
    BY <1>1, <2>2
  <2>4. q = <<q[1], q[2]>>
    BY <2>3 DEF Pair
  <2> QED
    BY <2>1, <2>2, <2>4
<1>4. \A p \in pairs : p[1] \in DOMAIN d /\ d[p[1]] = p[2]
  <2> SUFFICES ASSUME NEW p \in pairs PROVE p[1] \in DOMAIN d /\ d[p[1]] = p[2]
    OBVIOUS
  <2>1. p[1] \in DOMAIN d
    BY DEF Depths
  <2>2. <<p[1], d[p[1]]>> \in pairs
    BY <1>3, <2>1
  <2>3. p = <<p[1], d[p[1]]>>
    BY <1>1, <2>2
  <2> QED
    BY <2>1, <2>3
<1> HIDE DEF pairs, d
<1>5. \A pc, n : <<pc, n>> \in pairs => pc \in DOMAIN d /\ d[pc] = n
  BY <1>4
<1>6. \A pc \in DOMAIN d : pc \in DOMAIN c.code /\ pc \in Nat /\ d[pc] \in Int
  BY <1>1, <1>2, <1>3 DEF Pair
<1>7. \A i \in Instruction : Required(i) \in Nat
  BY DEF Required, Instruction
<1>8. ASSUME NEW pc \in DOMAIN d
      PROVE  /\ d[pc] \in Nat /\ Required(c.code[pc]) <= d[pc]
             /\ c.code[pc].op = "return" => d[pc] = 1
             /\ \A t \in Successors(c.code[pc], pc) :
                  t \in DOMAIN d /\ d[t] = DepthAfter(c.code[pc], d[pc])
  <2>1. <<pc, d[pc]>> \in pairs /\ pc \in DOMAIN c.code /\ d[pc] \in Int
    BY <1>3, <1>6
  <2>2. d[pc] >= Required(c.code[pc]) /\ (c.code[pc].op = "return" => d[pc] = 1)
    BY <1>2, <2>1
  <2>3. c.code[pc] \in Instruction
    BY <2>1 DEF WellFormed
  <2>4. Required(c.code[pc]) \in Nat
    BY <1>7, <2>3
  <2>5. \A t \in Successors(c.code[pc], pc) :
          <<t, DepthAfter(c.code[pc], d[pc])>> \in Flow(c, pairs)
    BY <2>1 DEF Flow
  <2>6. \A t \in Successors(c.code[pc], pc) :
          t \in DOMAIN d /\ d[t] = DepthAfter(c.code[pc], d[pc])
    <3> DEFINE n == DepthAfter(c.code[pc], d[pc])
    <3> HIDE DEF n
    <3> SUFFICES ASSUME NEW t \in Successors(c.code[pc], pc)
                 PROVE  t \in DOMAIN d /\ d[t] = n
      BY DEF n
    <3>1. <<t, n>> \in pairs
      BY <1>1, <2>5 DEF n
    <3> QED
      BY <1>5, <3>1
  <2>7. d[pc] \in Nat /\ Required(c.code[pc]) <= d[pc]
    BY <2>1, <2>2, <2>4
  <2> QED
    BY <2>2, <2>6, <2>7, Zenon
<1>9. 1 \in DOMAIN d /\ d[1] = 0
  <2>1. <<1, 0>> \in Entries(c)
    BY DEF Entries
  <2> QED
    BY <1>1, <1>5, <2>1
<1>10. ASSUME NEW k \in DOMAIN c.handlers
       PROVE  LET h == c.handlers[k]
              IN  /\ h.catch_start # NoTarget =>
                       h.catch_start \in DOMAIN d /\ d[h.catch_start] = 1
                  /\ h.finally_start # NoTarget =>
                       h.finally_start \in DOMAIN d /\ d[h.finally_start] = 0
  <2> DEFINE h == c.handlers[k]
  <2>1. HandlerEntries(h) \subseteq pairs
    BY <1>1 DEF Entries
  <2> HIDE DEF h
  <2>2. h.catch_start # NoTarget => <<h.catch_start, 1>> \in pairs
    BY <2>1 DEF HandlerEntries
  <2>3. h.finally_start # NoTarget => <<h.finally_start, 0>> \in pairs
    BY <2>1 DEF HandlerEntries
  <2>4. /\ h.catch_start # NoTarget =>
             h.catch_start \in DOMAIN d /\ d[h.catch_start] = 1
        /\ h.finally_start # NoTarget =>
             h.finally_start \in DOMAIN d /\ d[h.finally_start] = 0
    BY <1>5, <2>2, <2>3
  <2> QED
    BY <2>4 DEF h
<1> QED
  BY <1>6, <1>8, <1>9, <1>10 DEF Sound, d

\* Every chunk of a program is accepted and carries those depths.
LEMMA ChunksSound ==
  ASSUME prog \in Programs, NEW n \in Names
  PROVE  /\ Sound(prog[n], prog[n].depth) /\ Structured(prog[n])
         /\ WellFormed(prog[n]) /\ verify(prog[n])
<1>1. WellFormed(prog[n]) /\ Verified(prog[n]) /\ Structured(prog[n])
  BY ProgramsWellFormed, ProgramsVerified
<1> QED
  BY <1>1, AcceptedIsSound DEF Verified

-----------------------------------------------------------------------------
(* The virtual machine keeps to the depths: the invariant.                 *)

\* A frame stands at an instruction the verifier reached; a call it made
\* owes it one operand more than the place it gives.
Standing(p, f) == f.pc \in DOMAIN p[f.chunk].depth
Owed(p, f)     == f.base + p[f.chunk].depth[f.pc] - 1

\* Below a direct call the callee starts where its result will go; below a
\* native call the stack will be cut back to that place.
CallersFit(p, fs, ls) ==
  \A i \in 1 .. Len(fs) - 1 :
    (\A k \in 2 .. Len(ls) : ls[k].boundary # i) =>
      Standing(p, fs[i]) /\ fs[i + 1].base = Owed(p, fs[i])
NativesFit(p, fs, ls) ==
  \A k \in 2 .. Len(ls) :
    ls[k].boundary \in 1 .. Len(fs) =>
      /\ Standing(p, fs[ls[k].boundary])
      /\ ls[k].opbase = Owed(p, fs[ls[k].boundary])

\* A break or continue that waits for a finalizer goes to a statement.
JumpFits(p, f, c) ==
  c.type \in {"break", "continue"} =>
    /\ c.target \in DOMAIN p[f.chunk].depth
    /\ p[f.chunk].depth[c.target] = 0
JumpsWait(p, f) ==
  \A k \in 1 .. Len(f.pending) : JumpFits(p, f, f.pending[k].completion)

Fits(p, fs, ls) ==
  /\ CallersFit(p, fs, ls)
  /\ NativesFit(p, fs, ls)
  /\ \A i \in 1 .. Len(fs) : JumpsWait(p, fs[i])

\* The running frame has the operands of the instruction it comes to.
TopFits(p, fs, st) ==
  /\ fs # <<>> /\ Standing(p, fs[Len(fs)])
  /\ Len(st) = fs[Len(fs)].base + p[fs[Len(fs)].chunk].depth[fs[Len(fs)].pc]

\* A suspended generator has the operands of the instruction it will resume
\* at, but for the value that next hands in.
SavedFit(p, s) ==
  LET d == p[s.chunk].depth
  IN  /\ s.state = "suspended_start" => s.pc = 1 /\ s.stack = <<>>
      /\ s.state = "suspended_yield" =>
           s.pc \in DOMAIN d /\ d[s.pc] = Len(s.stack) + 1

Level ==
  /\ Fits(prog, frames, loops)
  /\ \A g \in GenIds : SavedFit(prog, gens[g])
  /\ result.type = "none" => TopFits(prog, frames, stack)

\* The outermost activation starts below every frame, so the host gets the
\* stack back without one.
Rooted ==
  /\ ~Ended => loops[1].boundary = 0
  /\ Ended /\ ~Failed => frames = <<>>

HeightInv == Rooted /\ (~Failed /\ ~LeavesOperand => Level)

-----------------------------------------------------------------------------
(* Frames that fit.                                                        *)

\* The boundary of the innermost activation is the highest.
LEMMA HighestBoundary ==
  ASSUME NEW fs \in Seq(Frame), NEW st, NEW ls \in Seq(Loop), ls # <<>>,
         NEW running, Nests(fs, st, ls, running)
  PROVE  /\ Len(ls) \in Nat /\ Len(ls) \in 1 .. Len(ls)
         /\ \A k \in 1 .. Len(ls) :
              ls[k].boundary \in Nat /\ ls[k].boundary <= ls[Len(ls)].boundary
         /\ \A k \in 1 .. Len(ls) - 1 : ls[k].boundary < ls[Len(ls)].boundary
<1>1. Len(ls) \in Nat /\ Len(ls) \in 1 .. Len(ls)
  OBVIOUS
<1>2. \A k \in 1 .. Len(ls) : ls[k].boundary \in Nat
  BY LoopsTyped
<1>3. \A k, m \in 1 .. Len(ls) : k < m => ls[k].boundary < ls[m].boundary
  BY DEF Nests
<1>4. ASSUME NEW k \in 1 .. Len(ls) - 1
      PROVE  k \in 1 .. Len(ls) /\ ls[k].boundary < ls[Len(ls)].boundary
  <2>1. k \in 1 .. Len(ls) /\ k < Len(ls)
    BY <1>1
  <2> QED
    BY <1>1, <1>3, <2>1
<1>5. ASSUME NEW k \in 1 .. Len(ls) PROVE ls[k].boundary <= ls[Len(ls)].boundary
  <2>1. CASE k = Len(ls)
    BY <1>1, <1>2, <2>1
  <2>2. CASE k # Len(ls)
    <3>1. k \in 1 .. Len(ls) - 1
      BY <1>1, <2>2
    <3> QED
      BY <1>1, <1>2, <1>4, <3>1
  <2> QED
    BY <2>1, <2>2
<1> QED
  BY <1>1, <1>2, <1>4, <1>5

\* Frames that are cut off, and a new top frame for the last one left.
LEMMA FitsTruncated ==
  ASSUME NEW p, NEW fs \in Seq(Frame), NEW gs \in Seq(Frame), NEW ls \in Seq(Loop),
         Fits(p, fs, ls), Len(gs) \in 1 .. Len(fs),
         \A i \in 1 .. Len(gs) - 1 : gs[i] = fs[i],
         gs[Len(gs)].base = fs[Len(gs)].base, JumpsWait(p, gs[Len(gs)]),
         \A k \in 2 .. Len(ls) : ls[k].boundary < Len(gs)
  PROVE  Fits(p, gs, ls)
<1>1. Len(gs) \in Nat /\ Len(fs) \in Nat /\ Len(gs) <= Len(fs)
  OBVIOUS
<1>2. \A i \in 1 .. Len(gs) : gs[i].base = fs[i].base
  BY <1>1
<1>3. CallersFit(p, gs, ls)
  <2> SUFFICES ASSUME NEW i \in 1 .. Len(gs) - 1,
                      \A k \in 2 .. Len(ls) : ls[k].boundary # i
               PROVE  Standing(p, gs[i]) /\ gs[i + 1].base = Owed(p, gs[i])
    BY DEF CallersFit
  <2>1. i \in 1 .. Len(fs) - 1 /\ i + 1 \in 1 .. Len(gs)
    BY <1>1
  <2>2. Standing(p, fs[i]) /\ fs[i + 1].base = Owed(p, fs[i])
    BY <2>1 DEF Fits, CallersFit
  <2> QED
    BY <1>2, <2>1, <2>2
<1>4. NativesFit(p, gs, ls)
  <2> SUFFICES ASSUME NEW k \in 2 .. Len(ls), ls[k].boundary \in 1 .. Len(gs)
               PROVE  /\ Standing(p, gs[ls[k].boundary])
                      /\ ls[k].opbase = Owed(p, gs[ls[k].boundary])
    BY DEF NativesFit
  <2>1. ls[k].boundary \in 1 .. Len(gs) - 1 /\ ls[k].boundary \in 1 .. Len(fs)
    BY <1>1
  <2> QED
    BY <2>1 DEF Fits, NativesFit
<1>5. ASSUME NEW i \in 1 .. Len(gs) PROVE JumpsWait(p, gs[i])
  <2>1. CASE i = Len(gs)
    BY <2>1
  <2>2. CASE i # Len(gs)
    <3>1. i \in 1 .. Len(gs) - 1 /\ i \in 1 .. Len(fs)
      BY <1>1, <2>2
    <3> QED
      BY <3>1 DEF Fits
  <2> QED
    BY <2>1, <2>2
<1> QED
  BY <1>3, <1>4, <1>5 DEF Fits

LEMMA FitsPrefix ==
  ASSUME NEW p, NEW fs \in Seq(Frame), NEW m \in 0 .. Len(fs), NEW ls \in Seq(Loop),
         Fits(p, fs, ls)
  PROVE  Fits(p, SubSeq(fs, 1, m), ls)
<1> DEFINE gs == SubSeq(fs, 1, m)
<1>1. Len(fs) \in Nat /\ m \in Nat /\ m <= Len(fs)
  OBVIOUS
<1>2. Len(gs) = m /\ \A i \in 1 .. m : gs[i] = fs[i]
  BY <1>1, Prefix
<1> HIDE DEF gs
<1>3. \A i \in 1 .. m : i \in 1 .. Len(fs)
  BY <1>1
<1>4. \A i \in 1 .. m - 1 : i \in 1 .. Len(fs) - 1 /\ i \in 1 .. m /\ i + 1 \in 1 .. m
  BY <1>1
<1>5. CallersFit(p, gs, ls)
  BY <1>2, <1>4 DEF Fits, CallersFit
<1>6. NativesFit(p, gs, ls)
  BY <1>2, <1>3 DEF Fits, NativesFit
<1>7. \A i \in 1 .. Len(gs) : JumpsWait(p, gs[i])
  BY <1>2, <1>3 DEF Fits
<1> QED
  BY <1>5, <1>6, <1>7 DEF Fits, gs

\* Discarding completions, and adding one, in a frame.
LEMMA FewerJumps ==
  ASSUME NEW p, NEW f \in Frame, NEW g \in Frame, JumpsWait(p, f),
         g.chunk = f.chunk, NEW m \in 0 .. Len(f.pending),
         g.pending = SubSeq(f.pending, 1, m)
  PROVE  JumpsWait(p, g)
<1>1. f.pending \in Seq(PendingFinally) /\ m \in Nat
  BY DEF Frame
<1>2. Len(f.pending) \in Nat /\ m <= Len(f.pending)
  BY <1>1
<1>3. Len(g.pending) = m /\ \A k \in 1 .. m : g.pending[k] = f.pending[k]
  BY <1>1, <1>2, Prefix
<1>4. \A k \in 1 .. m : k \in 1 .. Len(f.pending)
  BY <1>1, <1>2
<1> QED
  BY <1>3, <1>4 DEF JumpsWait, JumpFits

LEMMA DiscardedWaits ==
  ASSUME NEW f \in Frame, NEW pc, JumpsWait(prog, f)
  PROVE  JumpsWait(prog, Discarded(f, pc))
<1> DEFINE g == Discarded(f, pc)
<1>1. f.pending \in Seq(PendingFinally)
  BY DEF Frame
<1>2. g \in Frame /\ g.chunk = f.chunk
  BY DiscardedTyped
<1>3. g.pending = discard_overridden(Chunk(f).handlers, f.pending, pc)
  BY DEF Discarded, Frame
<1>4. \E m \in 0 .. Len(f.pending) : g.pending = SubSeq(f.pending, 1, m)
  BY <1>1, <1>3, DiscardKeepsPrefix
<1> HIDE DEF g
<1>5. JumpsWait(prog, g)
  BY <1>2, <1>4, FewerJumps
<1> QED
  BY <1>5 DEF g

LEMMA OneMoreJump ==
  ASSUME NEW p, NEW f \in Frame, NEW h \in ExceptionHandler, NEW c \in Completion,
         JumpsWait(p, f), JumpFits(p, f, c)
  PROVE  JumpsWait(p, Finalizing(f, h, c))
<1> DEFINE g == Finalizing(f, h, c)
           x == [completion |-> c, finally_start |-> h.finally_start]
<1>1. f.pending \in Seq(PendingFinally)
  BY DEF Frame
<1>2. x \in PendingFinally
  BY DEF PendingFinally, ExceptionHandler
<1>3. g.chunk = f.chunk /\ g.pending = Append(f.pending, x)
  BY DEF Finalizing, Frame
<1>4. /\ Len(g.pending) = Len(f.pending) + 1
      /\ \A k \in 1 .. Len(f.pending) : g.pending[k] = f.pending[k]
      /\ g.pending[Len(f.pending) + 1] = x
  BY <1>1, <1>2, <1>3, AppendProperties
<1>5. x.completion = c
  OBVIOUS
<1> HIDE DEF g, x
<1>6. ASSUME NEW k \in 1 .. Len(g.pending) PROVE JumpFits(p, g, g.pending[k].completion)
  <2>1. Len(f.pending) \in Nat
    BY <1>1
  <2>2. CASE k = Len(f.pending) + 1
    BY <1>3, <1>4, <1>5, <2>2 DEF JumpFits
  <2>3. CASE k # Len(f.pending) + 1
    <3>1. k \in 1 .. Len(f.pending)
      BY <1>4, <2>1, <2>3
    <3> QED
      BY <1>3, <1>4, <3>1 DEF JumpsWait, JumpFits
  <2> QED
    BY <2>2, <2>3
<1> QED
  BY <1>6 DEF JumpsWait, g

-----------------------------------------------------------------------------
(* Completions find a frame that fits.                                     *)

\* The places handlers begin at: one operand for a catch clause, none for a
\* finalizer.
LEMMA HandlersSound ==
  ASSUME prog \in Programs, NEW f \in Frame, NEW k \in DOMAIN Chunk(f).handlers
  PROVE  LET h == Chunk(f).handlers[k]
             d == prog[f.chunk].depth
         IN  /\ h \in ExceptionHandler
             /\ h.catch_start # NoTarget =>
                  h.catch_start \in DOMAIN d /\ d[h.catch_start] = 1
             /\ h.finally_start # NoTarget =>
                  h.finally_start \in DOMAIN d /\ d[h.finally_start] = 0
<1>1. f.chunk \in Names
  BY DEF Frame
<1>2. Sound(prog[f.chunk], prog[f.chunk].depth)
  BY <1>1, ChunksSound
<1>3. k \in DOMAIN prog[f.chunk].handlers
  BY DEF Chunk
<1>4. Chunk(f).handlers[k] \in ExceptionHandler
  BY HandlersTyped
<1> QED
  BY <1>2, <1>3, <1>4 DEF Sound, Chunk

\* Frame g takes the place of frame i, the frames above are gone, and g has
\* the operands of the instruction it goes to.
LEMMA LandsFit ==
  ASSUME NEW p, NEW fs \in Seq(Frame), NEW gs \in Seq(Frame), NEW ls \in Seq(Loop),
         Fits(p, fs, ls), NEW i \in 1 .. Len(fs), Len(gs) = i,
         \A j \in 1 .. i - 1 : gs[j] = fs[j],
         gs[i].base = fs[i].base, JumpsWait(p, gs[i]), Standing(p, gs[i]),
         \A k \in 2 .. Len(ls) : ls[k].boundary < i,
         NEW tt, Len(tt) = gs[i].base + p[gs[i].chunk].depth[gs[i].pc]
  PROVE  Fits(p, gs, ls) /\ TopFits(p, gs, tt)
<1>1. Len(gs) \in 1 .. Len(fs) /\ Len(gs) # Len(<<>>)
  OBVIOUS
<1>2. Fits(p, gs, ls)
  BY <1>1, FitsTruncated
<1>3. gs # <<>>
  BY <1>1
<1>4. TopFits(p, gs, tt)
  BY <1>3 DEF TopFits
<1> QED
  BY <1>2, <1>4

LEMMA Replaced ==
  ASSUME NEW fs \in Seq(Frame), NEW i \in 1 .. Len(fs), NEW g \in Frame
  PROVE  LET gs == Append(SubSeq(fs, 1, i - 1), g)
         IN  /\ gs \in Seq(Frame) /\ Len(gs) = i /\ gs[i] = g
             /\ \A j \in 1 .. i - 1 : gs[j] = fs[j]
<1> DEFINE s == SubSeq(fs, 1, i - 1)
<1>1. i - 1 \in Nat /\ i - 1 <= Len(fs) /\ Len(fs) \in Nat /\ i \in Nat
  OBVIOUS
<1>2. s \in Seq(Frame) /\ Len(s) = i - 1 /\ \A j \in 1 .. i - 1 : s[j] = fs[j]
  BY <1>1, Prefix
<1> HIDE DEF s
<1>3. /\ Append(s, g) \in Seq(Frame) /\ Len(Append(s, g)) = Len(s) + 1
      /\ \A j \in 1 .. Len(s) : Append(s, g)[j] = s[j]
      /\ Append(s, g)[Len(s) + 1] = g
  BY <1>2, AppendProperties
<1>4. Len(s) + 1 = i
  BY <1>1, <1>2
<1> QED
  BY <1>2, <1>3, <1>4 DEF s

\* Where a throw goes: out of the activation, or to the catch clause or the
\* finalizer of a handler of one of its frames.
ThrowsTo(c, fs, i, at, k) ==
  LET h == Chunk(fs[i]).handlers[k]
      f == Discarded(fs[i], at)
  IN  /\ CatchesAt(h, at) \/ FinalizesThrowAt(h, at)
      /\ result' = NoResult
      /\ \/ /\ CatchesAt(h, at)
            /\ frames' = Append(SubSeq(fs, 1, i - 1), [f EXCEPT !.pc = h.catch_start])
            /\ stack' = Append(SubSeq(stack, 1, f.base), c.value)
         \/ /\ ~CatchesAt(h, at)
            /\ frames' = Append(SubSeq(fs, 1, i - 1), Finalizing(f, h, c))
            /\ stack' = SubSeq(stack, 1, f.base)

LEMMA ThrowLands ==
  ASSUME prog \in Programs, stack \in Seq(Value), NEW fs \in Seq(Frame),
         \A i \in 1 .. Len(fs) : fs[i].base <= Len(stack),
         NEW b \in Nat, NEW c \in Completion, NEW pc,
         PropagateThrow(c, fs, pc, b, <<>>)
  PROVE  \/ frames' = SubSeq(fs, 1, b) /\ result' = c
         \/ \E i \in b + 1 .. Len(fs) : \E k \in DOMAIN Chunk(fs[i]).handlers :
              ThrowsTo(c, fs, i, IF i = Len(fs) THEN pc ELSE fs[i].last, k)
<1> DEFINE PcOf(j) == IF j = Len(fs) THEN pc ELSE fs[j].last
           Found(j) == find_exception_handler(Chunk(fs[j]).handlers, PcOf(j))
           handling == {j \in b + 1 .. Len(fs) : Found(j) # 0}
           i == CHOOSE k \in handling : \A j \in handling : j <= k
           h == Chunk(fs[i]).handlers[Found(i)]
           f == Discarded(fs[i], PcOf(i))
<1>1. \/ handling = {} /\ frames' = SubSeq(fs, 1, b) /\ result' = c
      \/ /\ handling # {} /\ CatchesAt(h, PcOf(i))
         /\ frames' = Append(SubSeq(fs, 1, i - 1), [f EXCEPT !.pc = h.catch_start])
         /\ stack' = Resize(f.base) \o <<c.value>> \o <<>>
         /\ result' = NoResult
      \/ /\ handling # {} /\ ~CatchesAt(h, PcOf(i))
         /\ frames' = Append(SubSeq(fs, 1, i - 1), Finalizing(f, h, c))
         /\ stack' = Resize(f.base) \o <<>>
         /\ result' = NoResult
  BY DEF PropagateThrow
<1> HIDE DEF i, h, f
<1>2. CASE handling = {}
  BY <1>1, <1>2
<1>3. CASE handling # {}
  <2>1. i \in handling
    <3>1. handling \in SUBSET (0 .. Len(fs)) /\ Len(fs) \in Nat
      OBVIOUS
    <3>2. \E k \in handling : \A j \in handling : j <= k
      BY <1>3, <3>1, GreatestUpTo
    <3> QED
      BY <3>2 DEF i
  <2>2. i \in b + 1 .. Len(fs) /\ Found(i) # 0 /\ i \in 1 .. Len(fs)
    BY <2>1
  <2>3. fs[i] \in Frame /\ fs[i].base <= Len(stack)
    BY <2>2
  <2>4. /\ Found(i) \in DOMAIN Chunk(fs[i]).handlers
        /\ CatchesAt(h, PcOf(i)) \/ FinalizesThrowAt(h, PcOf(i))
    BY <2>2, <2>3, HandlersTyped, ExceptionHandlerCovers DEF h
  <2> DEFINE cut == SubSeq(stack, 1, f.base)
  <2>5. cut \in Seq(Value)
    <3>1. f.base = fs[i].base /\ fs[i].base \in Nat
      BY <2>3, DiscardedTyped DEF f, Frame
    <3> QED
      BY <2>3, <3>1, Prefix
  <2>6. c.value \in Value /\ Resize(f.base) = cut
    BY DEF Completion, Resize
  <2> HIDE DEF cut
  <2>7. cut \o <<>> = cut /\ cut \o <<c.value>> \o <<>> = Append(cut, c.value)
    BY <2>5, <2>6
  <2> DEFINE at == PcOf(i)
  <2>8. \/ /\ CatchesAt(h, at)
           /\ frames' = Append(SubSeq(fs, 1, i - 1), [f EXCEPT !.pc = h.catch_start])
           /\ stack' = Append(cut, c.value)
        \/ /\ ~CatchesAt(h, at)
           /\ frames' = Append(SubSeq(fs, 1, i - 1), Finalizing(f, h, c))
           /\ stack' = cut
    BY <1>1, <1>3, <2>6, <2>7
  <2>9. result' = NoResult
    BY <1>1, <1>3
  <2>10. ThrowsTo(c, fs, i, at, Found(i))
    BY <2>4, <2>8, <2>9 DEF ThrowsTo, h, f, cut
  <2> QED
    BY <2>2, <2>4, <2>10
<1> QED
  BY <1>2, <1>3

\* What a routed completion leaves fits the activations ls.
RoutedFits(ls) ==
  /\ Fits(prog, frames', ls)
  /\ result'.type = "none" => TopFits(prog, frames', stack')

LEMMA ThrowFits ==
  ASSUME prog \in Programs, stack \in Seq(Value),
         NEW fs \in Seq(Frame), NEW ls \in Seq(Loop), ls # <<>>,
         Nests(fs, stack, ls, TRUE), Fits(prog, fs, ls),
         NEW c \in Completion, c.type = "throw", NEW pc,
         PropagateThrow(c, fs, pc, ls[Len(ls)].boundary, <<>>)
  PROVE  RoutedFits(ls)
<1> DEFINE b == ls[Len(ls)].boundary
<1>1. /\ b \in Nat /\ b < Len(fs) /\ Len(fs) \in Nat
      /\ \A k \in 1 .. Len(ls) : ls[k].boundary \in Nat /\ ls[k].boundary <= b
  BY HighestBoundary DEF Nests
<1>2. \A i \in 1 .. Len(fs) : fs[i].base <= Len(stack)
  BY DEF Nests
<1>3. CASE frames' = SubSeq(fs, 1, b) /\ result' = c
  <2>1. b \in 0 .. Len(fs)
    BY <1>1
  <2>2. Fits(prog, frames', ls)
    BY <1>3, <2>1, FitsPrefix
  <2> QED
    BY <1>3, <2>2 DEF RoutedFits
<1>4. CASE \E i \in b + 1 .. Len(fs) : \E k \in DOMAIN Chunk(fs[i]).handlers :
             ThrowsTo(c, fs, i, IF i = Len(fs) THEN pc ELSE fs[i].last, k)
  <2>0. PICK i \in b + 1 .. Len(fs) : \E k \in DOMAIN Chunk(fs[i]).handlers :
               ThrowsTo(c, fs, i, IF i = Len(fs) THEN pc ELSE fs[i].last, k)
    BY <1>4
  <2>1. PICK k \in DOMAIN Chunk(fs[i]).handlers :
               ThrowsTo(c, fs, i, IF i = Len(fs) THEN pc ELSE fs[i].last, k)
    BY <2>0
  <2> DEFINE at == IF i = Len(fs) THEN pc ELSE fs[i].last
             h == Chunk(fs[i]).handlers[k]
             f == Discarded(fs[i], at)
             d == prog[fs[i].chunk].depth
  <2>2. i \in 1 .. Len(fs) /\ \A m \in 2 .. Len(ls) : ls[m].boundary < i
    BY <1>1
  <2>3. fs[i] \in Frame /\ fs[i].base \in Nat /\ fs[i].base <= Len(stack)
    BY <1>2, <2>2, BasesTyped
  <2>4. /\ h \in ExceptionHandler
        /\ h.catch_start # NoTarget =>
             h.catch_start \in DOMAIN d /\ d[h.catch_start] = 1
        /\ h.finally_start # NoTarget =>
             h.finally_start \in DOMAIN d /\ d[h.finally_start] = 0
    BY <2>3, HandlersSound
  <2>5. f \in Frame /\ f.base = fs[i].base /\ f.chunk = fs[i].chunk
    BY <2>3, DiscardedTyped
  <2>6. JumpsWait(prog, f)
    <3>1. JumpsWait(prog, fs[i])
      BY <2>2 DEF Fits
    <3> QED
      BY <2>3, <3>1, DiscardedWaits
  <2>7. /\ SubSeq(stack, 1, f.base) \in Seq(Value)
        /\ Len(SubSeq(stack, 1, f.base)) = f.base
    BY <2>3, <2>5, Prefix
  <2>8. \/ /\ CatchesAt(h, at) /\ result' = NoResult
           /\ frames' = Append(SubSeq(fs, 1, i - 1), [f EXCEPT !.pc = h.catch_start])
           /\ stack' = Append(SubSeq(stack, 1, f.base), c.value)
        \/ /\ FinalizesThrowAt(h, at) /\ result' = NoResult
           /\ frames' = Append(SubSeq(fs, 1, i - 1), Finalizing(f, h, c))
           /\ stack' = SubSeq(stack, 1, f.base)
    BY <2>1 DEF ThrowsTo
  <2> HIDE DEF at, h, f
  <2>9. ASSUME NEW g \in Frame, g.base = f.base, g.chunk = f.chunk, JumpsWait(prog, g),
               Standing(prog, g), Len(stack') = g.base + d[g.pc],
               frames' = Append(SubSeq(fs, 1, i - 1), g)
        PROVE  RoutedFits(ls)
    <3> DEFINE gs == Append(SubSeq(fs, 1, i - 1), g)
    <3>1. /\ gs \in Seq(Frame) /\ Len(gs) = i /\ gs[i] = g
          /\ \A j \in 1 .. i - 1 : gs[j] = fs[j]
      BY <2>2, Replaced
    <3> HIDE DEF gs
    <3>2. Len(stack') = gs[i].base + prog[gs[i].chunk].depth[gs[i].pc]
      BY <2>5, <2>9, <3>1
    <3>3. Fits(prog, gs, ls) /\ TopFits(prog, gs, stack')
      BY ZenonT(40), <2>2, <2>5, <2>9, <3>1, <3>2, LandsFit
    <3> QED
      BY <2>9, <3>3 DEF RoutedFits, gs
  <2>10. CASE /\ CatchesAt(h, at)
              /\ frames' = Append(SubSeq(fs, 1, i - 1), [f EXCEPT !.pc = h.catch_start])
              /\ stack' = Append(SubSeq(stack, 1, f.base), c.value)
    <3> DEFINE g == [f EXCEPT !.pc = h.catch_start]
    <3>1. /\ g \in Frame /\ g.base = f.base /\ g.chunk = f.chunk
          /\ g.pending = f.pending /\ g.pc = h.catch_start
      BY <2>4, <2>5 DEF Frame, ExceptionHandler
    <3> HIDE DEF g
    <3>2. JumpsWait(prog, g)
      BY <2>6, <3>1 DEF JumpsWait, JumpFits
    <3>3. g.pc \in DOMAIN d /\ d[g.pc] = 1
      BY <2>4, <2>10, <3>1 DEF CatchesAt
    <3>4. Len(stack') = f.base + 1
      BY <2>7, <2>10, AppendProperties DEF Completion
    <3>5. Standing(prog, g) /\ Len(stack') = g.base + d[g.pc]
      BY <2>5, <3>1, <3>3, <3>4 DEF Standing
    <3> QED
      BY <2>9, <2>10, <3>1, <3>2, <3>5 DEF g
  <2>11. CASE /\ FinalizesThrowAt(h, at)
              /\ frames' = Append(SubSeq(fs, 1, i - 1), Finalizing(f, h, c))
              /\ stack' = SubSeq(stack, 1, f.base)
    <3> DEFINE g == Finalizing(f, h, c)
    <3>1. g \in Frame /\ g.base = f.base /\ g.chunk = f.chunk
      BY <2>4, <2>5, FinalizingTyped
    <3>2. JumpsWait(prog, g)
      BY <2>4, <2>5, <2>6, OneMoreJump DEF JumpFits
    <3>3. g.pc = h.finally_start
      BY <2>5 DEF Finalizing, Frame
    <3> HIDE DEF g
    <3>4. g.pc \in DOMAIN d /\ d[g.pc] = 0
      BY <2>4, <2>11, <3>3 DEF FinalizesThrowAt
    <3>5. Standing(prog, g) /\ Len(stack') = g.base + d[g.pc]
      BY <2>3, <2>5, <2>7, <2>11, <3>1, <3>4 DEF Standing
    <3> QED
      BY <2>9, <2>11, <3>1, <3>2, <3>5 DEF g
  <2> QED
    BY <2>8, <2>10, <2>11
<1> QED
  BY <1>1, <1>2, <1>3, <1>4, ThrowLands


\* The top frame of running activations.
LEMMA TopOfNest ==
  ASSUME stack \in Seq(Value), NEW fs \in Seq(Frame), NEW ls \in Seq(Loop), ls # <<>>,
         Nests(fs, stack, ls, TRUE)
  PROVE  /\ Len(fs) \in Nat /\ Len(fs) \in 1 .. Len(fs)
         /\ Len(ls) \in Nat /\ Len(ls) \in 1 .. Len(ls)
         /\ ls[Len(ls)].boundary \in Nat /\ ls[Len(ls)].boundary < Len(fs)
         /\ \A k \in 1 .. Len(ls) :
              ls[k].boundary \in Nat /\ ls[k].boundary <= ls[Len(ls)].boundary
         /\ \A k \in 2 .. Len(ls) : ls[k].boundary < Len(fs)
         /\ fs[Len(fs)] \in Frame /\ fs[Len(fs)].base \in Nat
         /\ fs[Len(fs)].base <= Len(stack) /\ Len(stack) \in Nat
<1>1. /\ \A k \in 1 .. Len(ls) :
           ls[k].boundary \in Nat /\ ls[k].boundary <= ls[Len(ls)].boundary
      /\ ls[Len(ls)].boundary < Len(fs)
      /\ Len(ls) \in Nat /\ Len(ls) \in 1 .. Len(ls)
  BY HighestBoundary DEF Nests
<1>2. Len(fs) \in Nat /\ Len(stack) \in Nat /\ ls[Len(ls)].boundary \in Nat
  BY <1>1
<1>3. Len(fs) \in 1 .. Len(fs)
  BY <1>1, <1>2
<1>4. \A k \in 2 .. Len(ls) : ls[k].boundary < Len(fs)
  <2>1. \A k \in 2 .. Len(ls) : k \in 1 .. Len(ls)
    BY <1>1
  <2> QED
    BY <1>1, <1>2, <2>1
<1>5. /\ fs[Len(fs)] \in Frame /\ fs[Len(fs)].base \in Nat
      /\ fs[Len(fs)].base <= Len(stack)
  BY <1>3, BasesTyped DEF Nests
<1> QED
  BY <1>1, <1>2, <1>3, <1>4, <1>5

\* The completion enters the finalizer of handler k of the top frame.
LEMMA FinalizerFits ==
  ASSUME prog \in Programs, stack \in Seq(Value),
         NEW fs \in Seq(Frame), NEW ls \in Seq(Loop), ls # <<>>,
         Nests(fs, stack, ls, TRUE), Fits(prog, fs, ls),
         NEW c \in Completion, NEW pc,
         LET f == Discarded(fs[Len(fs)], pc)
             h == find_finally_handler(Chunk(f).handlers, pc)
         IN  /\ h # 0 /\ JumpFits(prog, f, c) /\ result' = result
             /\ frames' = [fs EXCEPT ![Len(fs)] = Finalizing(f, Chunk(f).handlers[h], c)]
             /\ stack' = SubSeq(stack, 1, f.base)
  PROVE  RoutedFits(ls)
<1> DEFINE n == Len(fs)
           f == Discarded(fs[n], pc)
           k == find_finally_handler(Chunk(f).handlers, pc)
           h == Chunk(f).handlers[k]
           g == Finalizing(f, h, c)
<1>1. n \in Nat /\ n \in 1 .. n /\ \A m \in 2 .. Len(ls) : ls[m].boundary < n
  BY TopOfNest
<1>2. fs[n] \in Frame /\ fs[n].base \in Nat /\ fs[n].base <= Len(stack)
  BY TopOfNest
<1>3. f \in Frame /\ f.base = fs[n].base /\ f.chunk = fs[n].chunk
  BY <1>2, DiscardedTyped
<1>4. JumpsWait(prog, f) /\ JumpFits(prog, f, c)
  <2>1. JumpsWait(prog, fs[n])
    BY <1>1 DEF Fits
  <2> QED
    BY <1>2, <2>1, DiscardedWaits
<1>5. frames' = [fs EXCEPT ![n] = g] /\ stack' = SubSeq(stack, 1, f.base) /\ k # 0
  OBVIOUS
<1> HIDE DEF f
<1>6. k \in DOMAIN Chunk(f).handlers /\ h.finally_start # NoTarget
  BY <1>3, <1>5, HandlersTyped, FinallyHandlerCovers
<1> HIDE DEF k
<1>7. /\ h \in ExceptionHandler
      /\ h.finally_start \in DOMAIN prog[f.chunk].depth
      /\ prog[f.chunk].depth[h.finally_start] = 0
  BY <1>3, <1>6, HandlersSound
<1> HIDE DEF h
<1>8. g \in Frame /\ g.base = f.base /\ g.chunk = f.chunk
  BY <1>3, <1>7, FinalizingTyped
<1>9. JumpsWait(prog, g)
  BY <1>3, <1>4, <1>7, OneMoreJump
<1>10. g.pc = h.finally_start
  BY <1>3 DEF Finalizing, Frame
<1> HIDE DEF g
<1>11. Standing(prog, g) /\ prog[g.chunk].depth[g.pc] = 0
  BY <1>7, <1>8, <1>10 DEF Standing
<1>12. Len(stack') = f.base
  <2> DEFINE m == f.base
  <2>1. m \in Nat /\ m <= Len(stack) /\ stack' = SubSeq(stack, 1, m)
    BY <1>2, <1>3, <1>5
  <2> HIDE DEF m
  <2>2. Len(stack') = m
    BY <2>1, Prefix
  <2> QED
    BY <2>2 DEF m
<1>13. /\ frames' \in Seq(Frame) /\ Len(frames') = n /\ frames'[n] = g
       /\ \A j \in 1 .. n - 1 : frames'[j] = fs[j]
  BY <1>1, <1>5, <1>8, ExceptSeq
<1>14. Len(stack') = frames'[n].base + prog[frames'[n].chunk].depth[frames'[n].pc]
  <2>1. /\ frames'[n].base = f.base /\ f.base \in Nat
        /\ prog[frames'[n].chunk].depth[frames'[n].pc] = 0
    BY <1>2, <1>3, <1>8, <1>11, <1>13
  <2>2. f.base = f.base + 0
    BY <2>1
  <2> QED
    BY <1>12, <2>1, <2>2, Zenon
<1>15. /\ frames'[n].base = fs[n].base /\ JumpsWait(prog, frames'[n])
       /\ Standing(prog, frames'[n])
  BY <1>3, <1>8, <1>9, <1>11, <1>13
<1> DEFINE gs == frames'
           tt == stack'
<1> HIDE DEF gs, tt
<1>16. Fits(prog, gs, ls) /\ TopFits(prog, gs, tt)
  BY ZenonT(40), <1>1, <1>13, <1>14, <1>15, LandsFit DEF gs, tt
<1> QED
  BY <1>16 DEF RoutedFits, gs, tt

LEMMA ReturnFits ==
  ASSUME prog \in Programs, stack \in Seq(Value), result = NoResult,
         loops \in Seq(Loop), loops # <<>>,
         NEW fs \in Seq(Frame), Nests(fs, stack, loops, TRUE), Fits(prog, fs, loops),
         NEW c \in Completion, c.type = "return", NEW pc, PropagateReturn(c, fs, pc)
  PROVE  RoutedFits(loops)
<1> DEFINE n == Len(fs)
           f == Discarded(fs[n], pc)
           h == find_finally_handler(Chunk(f).handlers, pc)
           v == IF f.receiver # NoReceiver /\ ~ObjectLike(c.value)
                THEN f.receiver ELSE c.value
<1>1. \/ /\ h # 0 /\ result' = result
         /\ frames' = [fs EXCEPT ![n] = Finalizing(f, Chunk(f).handlers[h], c)]
         /\ stack' = SubSeq(stack, 1, f.base)
      \/ /\ h = 0 /\ frames' = SubSeq(fs, 1, n - 1)
         /\ n - 1 = Boundary /\ result' = Normal(v)
      \/ /\ h = 0 /\ frames' = SubSeq(fs, 1, n - 1)
         /\ n - 1 # Boundary /\ result' = result
         /\ stack' = Append(SubSeq(stack, 1, f.base), v)
  BY DEF PropagateReturn, Resize
<1>2. /\ n \in Nat /\ n \in 1 .. n /\ Boundary \in Nat /\ Boundary < n
      /\ \A k \in 1 .. Len(loops) :
           loops[k].boundary \in Nat /\ loops[k].boundary <= Boundary
      /\ fs[n] \in Frame /\ fs[n].base \in Nat /\ fs[n].base <= Len(stack)
  BY TopOfNest DEF Boundary
<1>3. f \in Frame /\ f.base = fs[n].base /\ f.chunk = fs[n].chunk
  BY <1>2, DiscardedTyped
<1>4. CASE /\ h # 0 /\ result' = result
           /\ frames' = [fs EXCEPT ![n] = Finalizing(f, Chunk(f).handlers[h], c)]
           /\ stack' = SubSeq(stack, 1, f.base)
  <2>1. JumpFits(prog, f, c)
    BY DEF JumpFits
  <2> QED
    BY <1>4, <2>1, FinalizerFits
<1> DEFINE gs == SubSeq(fs, 1, n - 1)
<1>5. n - 1 \in 0 .. n /\ n - 1 \in Nat /\ n - 1 <= n
  BY <1>2
<1>6. gs \in Seq(Frame) /\ Len(gs) = n - 1 /\ \A j \in 1 .. n - 1 : gs[j] = fs[j]
  BY <1>5, Prefix
<1>7. Fits(prog, gs, loops)
  BY <1>5, FitsPrefix
<1> HIDE DEF f, h, v, gs
<1>8. CASE frames' = gs /\ result' = Normal(v)
  BY <1>7, <1>8 DEF RoutedFits, Normal
<1>9. CASE /\ frames' = gs /\ n - 1 # Boundary /\ result' = result
           /\ stack' = Append(SubSeq(stack, 1, f.base), v)
  <2>1. n - 1 \in 1 .. n - 1 /\ Boundary < n - 1 /\ n - 1 + 1 = n
    BY <1>2, <1>9
  <2>2. \A k \in 2 .. Len(loops) : loops[k].boundary # n - 1
    <3>1. \A k \in 2 .. Len(loops) : k \in 1 .. Len(loops)
      OBVIOUS
    <3> QED
      BY <1>2, <2>1, <3>1
  <2>3. Standing(prog, fs[n - 1]) /\ fs[n].base = Owed(prog, fs[n - 1])
    BY <2>1, <2>2 DEF Fits, CallersFit
  <2>4. Standing(prog, gs[n - 1]) /\ fs[n].base = Owed(prog, gs[n - 1])
    BY <1>6, <2>1, <2>3
  <2>5. Len(stack') = f.base + 1
    <3>1. SubSeq(stack, 1, f.base) \in Seq(Value) /\ Len(SubSeq(stack, 1, f.base)) = f.base
      BY <1>2, <1>3, Prefix
    <3>2. v \in Value
      BY <1>3 DEF v, Frame, Completion
    <3> QED
      BY <1>9, <3>1, <3>2, AppendProperties
  <2>6. Len(gs) # Len(<<>>)
    BY <1>2, <1>6, <2>1
  <2>7. gs[n - 1].base \in Nat /\ prog[gs[n - 1].chunk].depth[gs[n - 1].pc] \in Nat
    <3>1. gs[n - 1] \in Frame
      BY <1>6, <2>1
    <3>2. gs[n - 1].chunk \in Names /\ gs[n - 1].base \in Nat
      BY <3>1 DEF Frame
    <3>3. Sound(prog[gs[n - 1].chunk], prog[gs[n - 1].chunk].depth)
      BY <3>2, ChunksSound
    <3> QED
      BY <2>4, <3>2, <3>3 DEF Sound, Standing
  <2>8. Len(stack') = gs[n - 1].base + prog[gs[n - 1].chunk].depth[gs[n - 1].pc]
    <3> DEFINE x == gs[n - 1].base
               y == prog[gs[n - 1].chunk].depth[gs[n - 1].pc]
    <3>1. x \in Nat /\ y \in Nat /\ f.base = x + y - 1
      BY <1>3, <2>4, <2>7 DEF Owed
    <3> HIDE DEF x, y
    <3>2. Len(stack') = x + y
      BY <2>5, <3>1
    <3> QED
      BY <3>2 DEF x, y
  <2>9. gs # <<>>
    BY <2>6
  <2>10. TopFits(prog, gs, stack')
    BY <1>6, <2>4, <2>8, <2>9 DEF TopFits
  <2> QED
    BY <1>7, <1>9, <2>10 DEF RoutedFits
<1> QED
  BY <1>1, <1>4, <1>8, <1>9 DEF f, h, v, gs

LEMMA JumpRoutedFits ==
  ASSUME prog \in Programs, stack \in Seq(Value), result = NoResult,
         NEW fs \in Seq(Frame), NEW ls \in Seq(Loop), ls # <<>>,
         Nests(fs, stack, ls, TRUE), Fits(prog, fs, ls),
         NEW c \in Completion, c.type \in {"break", "continue"},
         JumpFits(prog, fs[Len(fs)], c), Len(stack) = fs[Len(fs)].base,
         NEW pc, PropagateJump(c, fs, pc)
  PROVE  RoutedFits(ls)
<1> DEFINE n == Len(fs)
           f == Discarded(fs[n], pc)
           h == find_finally_handler(Chunk(f).handlers, pc)
           g == [f EXCEPT !.pc = c.target]
<1>1. /\ result' = result
      /\ \/ /\ h # 0
            /\ frames' = [fs EXCEPT ![n] = Finalizing(f, Chunk(f).handlers[h], c)]
            /\ stack' = SubSeq(stack, 1, f.base)
         \/ frames' = [fs EXCEPT ![n] = g] /\ stack' = stack
  BY DEF PropagateJump, Resize
<1>2. /\ n \in Nat /\ n \in 1 .. n /\ \A k \in 2 .. Len(ls) : ls[k].boundary < n
      /\ fs[n] \in Frame /\ fs[n].base \in Nat
  BY TopOfNest
<1>3. f \in Frame /\ f.base = fs[n].base /\ f.chunk = fs[n].chunk
  BY <1>2, DiscardedTyped
<1>4. JumpsWait(prog, f) /\ JumpFits(prog, f, c)
  <2>1. JumpsWait(prog, fs[n])
    BY <1>2 DEF Fits
  <2>2. JumpsWait(prog, f)
    BY <1>2, <2>1, DiscardedWaits
  <2> QED
    BY <1>3, <2>2 DEF JumpFits
<1>5. CASE /\ h # 0
           /\ frames' = [fs EXCEPT ![n] = Finalizing(f, Chunk(f).handlers[h], c)]
           /\ stack' = SubSeq(stack, 1, f.base)
  BY <1>1, <1>4, <1>5, FinalizerFits
<1> HIDE DEF f, h
<1>6. CASE frames' = [fs EXCEPT ![n] = g] /\ stack' = stack
  <2>1. c.target \in Nat
    BY DEF Completion
  <2>2. /\ g \in Frame /\ g.base = f.base /\ g.chunk = f.chunk
        /\ g.pending = f.pending /\ g.pc = c.target
    BY <1>3, <2>1 DEF Frame
  <2> HIDE DEF g
  <2>3. JumpsWait(prog, g)
    BY <1>4, <2>2 DEF JumpsWait, JumpFits
  <2>4. Standing(prog, g) /\ prog[g.chunk].depth[g.pc] = 0
    BY <1>4, <2>2 DEF Standing, JumpFits
  <2>5. /\ frames' \in Seq(Frame) /\ Len(frames') = n /\ frames'[n] = g
        /\ \A j \in 1 .. n - 1 : frames'[j] = fs[j]
    BY <1>2, <1>6, <2>2, ExceptSeq
  <2>6. /\ frames'[n].base = fs[n].base /\ JumpsWait(prog, frames'[n])
        /\ Standing(prog, frames'[n])
    BY <1>3, <2>2, <2>3, <2>4, <2>5
  <2>7. Len(stack') = frames'[n].base + prog[frames'[n].chunk].depth[frames'[n].pc]
    BY <1>2, <1>3, <1>6, <2>2, <2>4, <2>5
  <2> DEFINE gs == frames'
             tt == stack'
  <2> HIDE DEF gs, tt
  <2>8. Fits(prog, gs, ls) /\ TopFits(prog, gs, tt)
    BY <1>2, <2>5, <2>6, <2>7, LandsFit DEF gs, tt
  <2> QED
    BY <2>8 DEF RoutedFits, gs, tt
<1> QED
  BY <1>1, <1>5, <1>6 DEF f, h


-----------------------------------------------------------------------------
(* The instructions keep to the depths.                                    *)

\* The instruction that comes next, its operands and where it leads.
LEMMA AtInstruction ==
  ASSUME ExecInv, Level, Running
  PROVE  /\ Top \in Frame /\ Top.chunk \in Names /\ Top.base \in Nat /\ Top.pc \in Nat
         /\ Top.pc \in DOMAIN DepthOf(Top) /\ Top.pc \in DOMAIN Chunk(Top).code
         /\ Instr \in Instruction /\ Instr.n \in Nat
         /\ Len(stack) \in Nat /\ Height \in Nat /\ Len(stack) = Top.base + Height
         /\ Height = AtDepth(Top) /\ Required(Instr) <= Height
         /\ \A t \in Successors(Instr, Top.pc) :
              /\ t \in DOMAIN DepthOf(Top)
              /\ DepthOf(Top)[t] = DepthAfter(Instr, Height)
<1>1. /\ Top \in Frame /\ Top.base \in Nat /\ Top.pc \in Nat /\ Len(stack) \in Nat
      /\ Top.base <= Len(stack)
  BY RunningFrame
<1>2. Top.chunk \in Names /\ prog \in Programs
  BY <1>1 DEF Frame, ExecInv
<1> DEFINE c == prog[Top.chunk]
<1>3. Sound(c, c.depth) /\ WellFormed(c)
  BY <1>2, ChunksSound
<1>4. TopFits(prog, frames, stack)
  BY DEF Level, Running
<1>5. Top.pc \in DOMAIN c.depth /\ Len(stack) = Top.base + c.depth[Top.pc]
  BY <1>4 DEF TopFits, Standing, Top
<1>6. Chunk(Top) = c /\ DepthOf(Top) = c.depth /\ AtDepth(Top) = c.depth[Top.pc]
      /\ Instr = c.code[Top.pc]
  BY DEF Chunk, DepthOf, AtDepth, Instr
<1> HIDE DEF c
<1>7. Top.pc \in DOMAIN c.code /\ c.depth[Top.pc] \in Nat
  BY <1>3, <1>5 DEF Sound
<1>8. Instr \in Instruction /\ Instr.n \in Nat
  <2>1. c.code \in Seq(Instruction)
    BY <1>3 DEF WellFormed
  <2>2. Instr \in Instruction
    BY <1>6, <1>7, <2>1
  <2> QED
    BY <2>2 DEF Instruction
<1> DEFINE n == c.depth[Top.pc]
<1>9. /\ Required(Instr) <= n
      /\ \A t \in Successors(Instr, Top.pc) :
           t \in DOMAIN c.depth /\ c.depth[t] = DepthAfter(Instr, n)
  BY <1>3, <1>5, <1>6 DEF Sound
<1>10. n \in Nat /\ Len(stack) = Top.base + n
  BY <1>5, <1>7
<1>11. AtDepth(Top) = n
  BY <1>6
<1> HIDE DEF n
<1>12. Height = n
  BY <1>1, <1>10 DEF Height
<1> QED
  BY <1>1, <1>2, <1>5, <1>6, <1>7, <1>8, <1>9, <1>10, <1>11, <1>12

\* The running frame goes on as f, with operands tt.
LEMMA GoesOn ==
  ASSUME ExecInv, Level, Running, NEW f, SameFrame(f), f.pending = Top.pending,
         f.pc \in Successors(Instr, Top.pc),
         NEW tt, Len(tt) = Top.base + DepthAfter(Instr, Height)
  PROVE  Fits(prog, WithTop(f), loops) /\ TopFits(prog, WithTop(f), tt)
<1> DEFINE gs == WithTop(f)
           n == Len(frames)
<1>1. /\ frames \in Seq(Frame) /\ stack \in Seq(Value) /\ loops \in Seq(Loop)
      /\ loops # <<>> /\ Nests(frames, stack, loops, TRUE)
  BY RunningFrame DEF ExecInv, TypeOK, Running
<1>2. Fits(prog, frames, loops)
  BY DEF Level
<1>3. /\ n \in Nat /\ n \in 1 .. n /\ \A k \in 2 .. Len(loops) : loops[k].boundary < n
  BY <1>1, TopOfNest
<1>4. /\ gs \in Seq(Frame) /\ Len(gs) = n /\ gs[n] = f
      /\ \A i \in 1 .. n - 1 : gs[i] = frames[i]
  BY ReplaceTop
<1> HIDE DEF gs
<1>5. f.base = frames[n].base /\ f.chunk = Top.chunk
  BY DEF SameFrame, Top
<1>6. JumpsWait(prog, f)
  <2>1. JumpsWait(prog, Top)
    BY <1>2, <1>3 DEF Fits, Top
  <2> QED
    BY <1>5, <2>1 DEF JumpsWait, JumpFits
<1>7. /\ f.pc \in DOMAIN DepthOf(Top)
      /\ DepthOf(Top)[f.pc] = DepthAfter(Instr, Height)
  BY AtInstruction
<1>8. DepthOf(Top) = prog[f.chunk].depth
  BY <1>5 DEF DepthOf, Chunk
<1>9. Standing(prog, gs[n])
  BY <1>4, <1>7, <1>8 DEF Standing
<1>10. Len(tt) = gs[n].base + prog[gs[n].chunk].depth[gs[n].pc]
  BY <1>4, <1>5, <1>7, <1>8 DEF SameFrame
<1>11. gs[n].base = frames[n].base /\ JumpsWait(prog, gs[n])
  BY <1>4, <1>5, <1>6
<1>12. Fits(prog, gs, loops) /\ TopFits(prog, gs, tt)
  BY <1>1, <1>2, <1>3, <1>4, <1>9, <1>10, <1>11, LandsFit
<1> QED
  BY <1>12 DEF gs

LEMMA LevelKept ==
  ASSUME RoutedFits(loops), UNCHANGED <<prog, loops>>,
         \A g \in GenIds : SavedFit(prog, gens'[g])
  PROVE  Level'
<1>1. /\ Fits(prog', frames', loops')
      /\ result'.type = "none" => TopFits(prog', frames', stack')
  BY DEF RoutedFits
<1>2. \A g \in GenIds : SavedFit(prog', gens'[g])
  OBVIOUS
<1> QED
  BY <1>1, <1>2 DEF Level

\* The instruction passes control to the next one.
LEMMA SteppedFields ==
  ASSUME Top \in Frame
  PROVE  /\ Stepped.pc = Top.pc + 1 /\ Stepped.last = Top.pc
         /\ Stepped.pending = Top.pending /\ SameFrame(Stepped)
         /\ \A pc : /\ [Stepped EXCEPT !.pc = pc].pc = pc
                    /\ [Stepped EXCEPT !.pc = pc].last = Top.pc
                    /\ [Stepped EXCEPT !.pc = pc].pending = Top.pending
<1>1. SameFrame(Stepped)
  BY SteppedIsSame
<1> QED
  BY <1>1 DEF Stepped, Frame

LEMMA StraightLevel ==
  ASSUME ExecInv, Level, Running, NEW tt, Straight(tt),
         Top.pc + 1 \in Successors(Instr, Top.pc),
         Len(tt) = Top.base + DepthAfter(Instr, Height)
  PROVE  Level'
<1>1. Top \in Frame
  BY AtInstruction
<1>2. frames' = WithTop(Stepped) /\ stack' = tt /\ UNCHANGED <<prog, loops, gens, result>>
  BY DEF Straight, Advanced
<1>3. Fits(prog, WithTop(Stepped), loops) /\ TopFits(prog, WithTop(Stepped), tt)
  BY <1>1, SteppedFields, GoesOn
<1>4. RoutedFits(loops)
  BY <1>2, <1>3 DEF RoutedFits
<1> QED
  BY <1>2, <1>4, LevelKept DEF Level

\* The operand stack cut back, and pushed on.
LEMMA CutLength ==
  ASSUME stack \in Seq(Value), NEW m \in Nat, m <= Len(stack), NEW v
  PROVE  /\ Len(SubSeq(stack, 1, m)) = m
         /\ Len(Append(SubSeq(stack, 1, m), v)) = m + 1
         /\ Len(Append(stack, v)) = Len(stack) + 1
<1>1. SubSeq(stack, 1, m) \in Seq(Value) /\ Len(SubSeq(stack, 1, m)) = m
  BY Prefix
<1>2. \A s \in Seq(Value) : Len(Append(s, v)) = Len(s) + 1
  OBVIOUS
<1> QED
  BY <1>1, <1>2


\* What the verifier takes the instructions to do.
LEMMA Effects ==
  ASSUME NEW i, NEW pc, NEW d
  PROVE  /\ i.op \notin {"return", "throw", "jump", "break", "continue"}
              => pc + 1 \in Successors(i, pc)
         /\ i.op \in {"jump", "jump_if_false"} => i.n \in Successors(i, pc)
         /\ i.op \in {"push", "input", "get_local", "get_iterator"}
              => DepthAfter(i, d) = d + 1
         /\ i.op \in {"pop", "observe", "jump_if_false", "copy_object_rest",
                      "iterator_next"}
              => DepthAfter(i, d) = d - 1
         /\ i.op = "operate" => DepthAfter(i, d) = d - i.n + 1
         /\ i.op \in {"call", "construct"} => DepthAfter(i, d) = d - i.n
         /\ i.op \in {"set_local", "iterator_complete", "iterator_value", "jump",
                      "yield", "get_property", "end_finally"}
              => DepthAfter(i, d) = d
<1>1. /\ i.op \notin {"return", "throw", "jump", "break", "continue"}
           => pc + 1 \in Successors(i, pc)
      /\ i.op \in {"jump", "jump_if_false"} => i.n \in Successors(i, pc)
  BY DEF Successors
<1>2. /\ i.op \in {"push", "input", "get_local", "get_iterator"}
           => DepthAfter(i, d) = d + 1
      /\ i.op \in {"pop", "observe", "jump_if_false", "copy_object_rest",
                   "iterator_next"}
           => DepthAfter(i, d) = d - 1
      /\ i.op = "operate" => DepthAfter(i, d) = d - i.n + 1
      /\ i.op \in {"call", "construct"} => DepthAfter(i, d) = d - i.n
      /\ i.op \in {"set_local", "iterator_complete", "iterator_value", "jump",
                   "yield", "get_property", "end_finally"}
           => DepthAfter(i, d) = d
  BY DEF DepthAfter
<1> QED
  BY <1>1, <1>2

\* The instruction op with its operands.
LEMMA AtOp ==
  ASSUME ExecInv, Level, NEW op, On(op)
  PROVE  /\ Running /\ Instr.op = op /\ Instr.n \in Nat
         /\ Top \in Frame /\ Top.pc \in Nat /\ Top.base \in Nat /\ stack \in Seq(Value)
         /\ Len(stack) \in Nat /\ Height \in Nat /\ Len(stack) = Top.base + Height
         /\ Height = AtDepth(Top)
<1>1. Running /\ Instr.op = op
  BY Fetched
<1>2. stack \in Seq(Value)
  BY DEF ExecInv, TypeOK
<1> QED
  BY <1>1, <1>2, AtInstruction

LEMMA StraightActionsFit ==
  ASSUME ExecInv, Level,
         \/ Push \/ PushInput \/ Pop \/ GetLocal \/ Observe
         \/ IteratorComplete \/ IteratorValue
  PROVE  Level'
<1>1. ASSUME NEW op \in {"push", "input", "get_local"}, NEW v, On(op),
             Straight(Append(stack, v))
      PROVE  Level'
  <2>1. /\ Running /\ Instr.op = op /\ stack \in Seq(Value) /\ Top.base \in Nat
        /\ Height \in Nat /\ Len(stack) = Top.base + Height
    BY <1>1, AtOp
  <2>2. /\ Top.pc + 1 \in Successors(Instr, Top.pc)
        /\ DepthAfter(Instr, Height) = Height + 1
    BY <2>1, Effects
  <2>3. Len(Append(stack, v)) = Len(stack) + 1
    BY <2>1
  <2>4. Len(Append(stack, v)) = Top.base + DepthAfter(Instr, Height)
    BY <2>1, <2>2, <2>3
  <2> QED
    BY <1>1, <2>1, <2>2, <2>4, StraightLevel
<1>2. ASSUME NEW op \in {"pop", "observe"}, On(op), Straight(Drop(1))
      PROVE  Level'
  <2>1. /\ Running /\ Instr.op = op /\ stack \in Seq(Value) /\ Top.base \in Nat
        /\ Height \in Nat /\ Len(stack) = Top.base + Height
    BY <1>2, AtOp
  <2>2. /\ Top.pc + 1 \in Successors(Instr, Top.pc)
        /\ DepthAfter(Instr, Height) = Height - 1
    BY <2>1, Effects
  <2>3. Len(stack) - 1 \in Nat /\ Len(stack) - 1 <= Len(stack)
    BY <1>2, <2>1, Operands
  <2>4. Len(Drop(1)) = Len(stack) - 1
    BY <2>1, <2>3, CutLength DEF Drop
  <2>5. Len(Drop(1)) = Top.base + DepthAfter(Instr, Height)
    BY <2>1, <2>2, <2>4
  <2> QED
    BY <1>2, <2>1, <2>2, <2>5, StraightLevel
<1>3. ASSUME NEW op \in {"iterator_complete", "iterator_value"}, NEW v, On(op),
             Straight(Append(Drop(1), v))
      PROVE  Level'
  <2>1. /\ Running /\ Instr.op = op /\ stack \in Seq(Value) /\ Top.base \in Nat
        /\ Height \in Nat /\ Len(stack) = Top.base + Height
    BY <1>3, AtOp
  <2>2. /\ Top.pc + 1 \in Successors(Instr, Top.pc)
        /\ DepthAfter(Instr, Height) = Height
    BY <2>1, Effects
  <2>3. Len(stack) - 1 \in Nat /\ Len(stack) - 1 <= Len(stack)
    BY <1>3, <2>1, Operands
  <2>4. Len(Append(Drop(1), v)) = Len(stack) - 1 + 1
    BY <2>1, <2>3, CutLength DEF Drop
  <2>5. Len(Append(Drop(1), v)) = Top.base + DepthAfter(Instr, Height)
    BY <2>1, <2>2, <2>4
  <2> QED
    BY <1>3, <2>1, <2>2, <2>5, StraightLevel
<1>4. CASE Push
  BY <1>1, <1>4 DEF Push
<1>5. CASE PushInput
  BY <1>1, <1>5 DEF PushInput
<1>6. CASE Pop
  BY <1>2, <1>6 DEF Pop
<1>7. CASE GetLocal
  BY <1>1, <1>7 DEF GetLocal
<1>8. CASE Observe
  BY <1>2, <1>8 DEF Observe
<1>9. CASE IteratorComplete
  BY <1>3, <1>9 DEF IteratorComplete
<1>10. CASE IteratorValue
  BY <1>3, <1>10 DEF IteratorValue
<1> QED
  BY <1>4, <1>5, <1>6, <1>7, <1>8, <1>9, <1>10


LEMMA FrameLevel ==
  ASSUME ExecInv, Level, Running, NEW f, SameFrame(f), f.pending = Top.pending,
         f.pc \in Successors(Instr, Top.pc),
         NEW tt, Len(tt) = Top.base + DepthAfter(Instr, Height),
         frames' = WithTop(f), stack' = tt, UNCHANGED <<prog, loops, gens, result>>
  PROVE  Level'
<1>1. Fits(prog, WithTop(f), loops) /\ TopFits(prog, WithTop(f), tt)
  BY GoesOn
<1>2. RoutedFits(loops)
  BY <1>1 DEF RoutedFits
<1> QED
  BY <1>2, LevelKept DEF Level

LEMMA FrameActionsFit ==
  ASSUME ExecInv, Level, SetLocal \/ Jump \/ JumpIfFalse
  PROVE  Level'
<1>1. CASE SetLocal
  <2>1. On("set_local")
    BY <1>1 DEF SetLocal
  <2>2. /\ Running /\ Instr.op = "set_local" /\ Top \in Frame
        /\ Len(stack) = Top.base + Height
    BY <2>1, AtOp
  <2> DEFINE f == [Stepped EXCEPT !.locals[Instr.n] = Peek]
  <2>3. Peek \in Value
    BY <2>1, Operands, PeekTyped
  <2>4. SameFrame(f)
    BY <2>2, <2>3, SteppedIsSame
  <2>5. f.pc = Top.pc + 1 /\ f.pending = Top.pending
    <3>1. f.pc = Stepped.pc /\ f.pending = Stepped.pending
      BY <2>2, SteppedFields DEF SameFrame, Frame
    <3> QED
      BY <2>2, <3>1, SteppedFields
  <2>6. f.pc \in Successors(Instr, Top.pc) /\ DepthAfter(Instr, Height) = Height
    BY <2>2, <2>5, Effects
  <2>7. frames' = WithTop(f) /\ stack' = stack /\ UNCHANGED <<prog, loops, gens, result>>
    BY <1>1 DEF SetLocal
  <2> HIDE DEF f
  <2>8. Len(stack) = Top.base + DepthAfter(Instr, Height)
    BY <2>2, <2>6
  <2> QED
    BY <2>2, <2>4, <2>5, <2>6, <2>7, <2>8, FrameLevel
<1>2. ASSUME NEW op \in {"jump", "jump_if_false"}, On(op), Goto(Instr.n),
             NEW tt, Len(tt) = Top.base + DepthAfter(Instr, Height), stack' = tt,
             UNCHANGED <<prog, loops, gens, result>>
      PROVE  Level'
  <2>1. Running /\ Instr.op = op /\ Top \in Frame /\ Instr.n \in Nat
    BY <1>2, AtOp
  <2> DEFINE f == [Stepped EXCEPT !.pc = Instr.n]
  <2>2. SameFrame(f) /\ f.pc = Instr.n /\ f.pending = Top.pending
    BY <2>1, SteppedIsSame, SteppedFields
  <2>3. Instr.n \in Successors(Instr, Top.pc)
    BY <2>1, Effects
  <2>4. frames' = WithTop(f)
    BY <1>2 DEF Goto
  <2> HIDE DEF f
  <2> QED
    BY <1>2, <2>1, <2>2, <2>3, <2>4, FrameLevel
<1>3. CASE Jump
  <2>1. On("jump") /\ Goto(Instr.n) /\ UNCHANGED <<prog, loops, gens, result>>
    BY <1>3 DEF Jump
  <2>2. Instr.op = "jump" /\ Len(stack) = Top.base + Height
    BY <2>1, AtOp
  <2>3. Len(stack) = Top.base + DepthAfter(Instr, Height)
    BY <2>2, Effects
  <2>4. stack' = stack
    BY <1>3 DEF Jump
  <2> QED
    BY <1>2, <2>1, <2>3, <2>4
<1>4. CASE JumpIfFalse
  <2>1. /\ On("jump_if_false") /\ stack' = Drop(1) /\ UNCHANGED <<prog, loops, gens, result>>
        /\ Goto(Instr.n) \/ frames' = WithTop(Stepped)
    BY <1>4 DEF JumpIfFalse, Advanced
  <2>2. /\ Running /\ Instr.op = "jump_if_false" /\ Len(stack) = Top.base + Height
        /\ stack \in Seq(Value) /\ Top \in Frame /\ Top.base \in Nat /\ Height \in Nat
    BY <2>1, AtOp
  <2>3. /\ Top.pc + 1 \in Successors(Instr, Top.pc)
        /\ DepthAfter(Instr, Height) = Height - 1
    BY <2>2, Effects
  <2>4. Len(stack) - 1 \in Nat /\ Len(stack) - 1 <= Len(stack)
    BY <2>1, <2>2, Operands
  <2>5. Len(Drop(1)) = Len(stack) - 1
    BY <2>2, <2>4, CutLength DEF Drop
  <2>6. Len(Drop(1)) = Top.base + DepthAfter(Instr, Height)
    BY <2>2, <2>3, <2>5
  <2>7. CASE Goto(Instr.n)
    BY <1>2, <2>1, <2>6, <2>7
  <2>8. CASE frames' = WithTop(Stepped)
    BY <2>1, <2>2, <2>3, <2>6, <2>8, SteppedFields, FrameLevel
  <2> QED
    BY <2>1, <2>7, <2>8
<1> QED
  BY <1>1, <1>3, <1>4

-----------------------------------------------------------------------------
(* The instructions that route a completion.                               *)

LEMMA ReplacedFits ==
  ASSUME ExecInv, Level, Running, NEW f, SameFrame(f), JumpsWait(prog, f)
  PROVE  /\ WithTop(f) \in Seq(Frame) /\ Len(WithTop(f)) = Len(frames)
         /\ WithTop(f)[Len(frames)] = f
         /\ Nests(WithTop(f), stack, loops, TRUE) /\ Fits(prog, WithTop(f), loops)
<1> DEFINE gs == WithTop(f)
           n == Len(frames)
<1>1. /\ frames \in Seq(Frame) /\ stack \in Seq(Value) /\ loops \in Seq(Loop)
      /\ loops # <<>> /\ Nests(frames, stack, loops, TRUE)
  BY RunningFrame DEF ExecInv, TypeOK, Running
<1>2. Fits(prog, frames, loops)
  BY DEF Level
<1>3. /\ n \in Nat /\ n \in 1 .. n /\ \A k \in 2 .. Len(loops) : loops[k].boundary < n
      /\ Top.base <= Len(stack)
  BY <1>1, TopOfNest DEF Top
<1>4. /\ gs \in Seq(Frame) /\ Len(gs) = n /\ gs[n] = f
      /\ \A i \in 1 .. n - 1 : gs[i] = frames[i]
      /\ Nests(gs, stack, loops, TRUE)
  BY <1>1, <1>3, ReplaceTop
<1> HIDE DEF gs
<1>5. gs[n].base = frames[n].base
  BY <1>4 DEF SameFrame, Top
<1>6. Fits(prog, gs, loops)
  BY <1>1, <1>2, <1>3, <1>4, <1>5, FitsTruncated
<1> QED
  BY <1>4, <1>6 DEF gs

\* A completion raised by the running frame as f; a break or continue finds
\* no operand.
LEMMA PropagateFits ==
  ASSUME ExecInv, Level, Running, NEW f, SameFrame(f), JumpsWait(prog, f),
         NEW c \in Completion, JumpFits(prog, f, c),
         c.type \in {"break", "continue"} => Height = 0,
         NEW pc, Propagate(c, WithTop(f), pc)
  PROVE  RoutedFits(loops)
<1>1. /\ prog \in Programs /\ stack \in Seq(Value) /\ loops \in Seq(Loop)
      /\ loops # <<>> /\ result = NoResult
  BY NoResultYet DEF ExecInv, TypeOK, Running
<1> DEFINE fs == WithTop(f)
<1>2. /\ fs \in Seq(Frame) /\ fs[Len(fs)] = f
      /\ Nests(fs, stack, loops, TRUE) /\ Fits(prog, fs, loops)
  <2>1. Len(fs) = Len(frames) /\ fs[Len(frames)] = f
    BY ReplacedFits
  <2> QED
    BY <2>1, ReplacedFits
<1> HIDE DEF fs
<1>3. CASE c.type = "return" /\ PropagateReturn(c, fs, pc)
  BY <1>1, <1>2, <1>3, ReturnFits
<1>4. CASE c.type \in {"break", "continue"} /\ PropagateJump(c, fs, pc)
  <2>1. Len(stack) = fs[Len(fs)].base
    <3>1. Len(stack) = Top.base + Height /\ Height = 0 /\ Top.base \in Nat
      BY <1>4, AtInstruction
    <3>2. f.base = Top.base
      BY DEF SameFrame
    <3> QED
      BY <1>2, <3>1, <3>2
  <2> QED
    BY <1>1, <1>2, <1>4, <2>1, JumpRoutedFits
<1>5. CASE c.type = "throw" /\ PropagateThrow(c, fs, pc, Boundary, <<>>)
  <2>1. PropagateThrow(c, fs, pc, loops[Len(loops)].boundary, <<>>)
    BY <1>5 DEF Boundary
  <2> QED
    BY <1>1, <1>2, <1>5, <2>1, ThrowFits
<1> QED
  BY <1>3, <1>4, <1>5 DEF Propagate, fs


\* The running frame throws.
LEMMA SteppedWaits ==
  ASSUME ExecInv, Level, Running
  PROVE  /\ SameFrame(Stepped) /\ JumpsWait(prog, Stepped) /\ JumpsWait(prog, Top)
         /\ \A c : c.type \notin {"break", "continue"} => JumpFits(prog, Stepped, c)
<1>1. Top \in Frame /\ Len(frames) \in 1 .. Len(frames)
  BY RunningFrame
<1>2. SameFrame(Stepped) /\ Stepped.pending = Top.pending
  BY <1>1, SteppedFields
<1>3. JumpsWait(prog, Top)
  BY <1>1 DEF Level, Fits, Top
<1>4. JumpsWait(prog, Stepped)
  BY <1>2, <1>3 DEF JumpsWait, JumpFits, SameFrame
<1>5. \A c : c.type \notin {"break", "continue"} => JumpFits(prog, Stepped, c)
  BY DEF JumpFits
<1> QED
  BY <1>2, <1>3, <1>4, <1>5

LEMMA InstructionThrowFits ==
  ASSUME ExecInv, Level, Running, NEW v \in Value, NEW pc,
         PropagateThrow(Throw(v), Advanced, pc, Boundary, <<>>)
  PROVE  RoutedFits(loops)
<1>1. Throw(v) \in Completion /\ Throw(v).type = "throw"
  BY DEF Throw, Completion, NoTarget
<1>2. SameFrame(Stepped) /\ JumpsWait(prog, Stepped) /\ JumpFits(prog, Stepped, Throw(v))
  BY <1>1, SteppedWaits
<1>3. Propagate(Throw(v), WithTop(Stepped), pc)
  BY <1>1 DEF Propagate, Advanced
<1> QED
  BY <1>1, <1>2, <1>3, PropagateFits

LEMMA AbruptFits ==
  ASSUME ExecInv, Level, Running, NEW c \in Completion,
         c.type \notin {"break", "continue"}, Propagate(c, Advanced, Top.pc)
  PROVE  RoutedFits(loops)
<1>1. SameFrame(Stepped) /\ JumpsWait(prog, Stepped) /\ JumpFits(prog, Stepped, c)
  BY SteppedWaits
<1>2. Propagate(c, WithTop(Stepped), Top.pc)
  BY DEF Advanced
<1> QED
  BY <1>1, <1>2, PropagateFits

\* A program without handlers lets every throw out of its activation.
LEMMA NoHandlerFound ==
  ASSUME prog \in Programs, \A n \in Names : prog[n].handlers = <<>>,
         NEW fs \in Seq(Frame), NEW b \in Nat, NEW c, NEW pc, NEW extra,
         PropagateThrow(c, fs, pc, b, extra)
  PROVE  PropagateThrow(c, fs, pc, b, <<>>)
<1> DEFINE PcOf(j) == IF j = Len(fs) THEN pc ELSE fs[j].last
           Found(j) == find_exception_handler(Chunk(fs[j]).handlers, PcOf(j))
           handling == {j \in b + 1 .. Len(fs) : Found(j) # 0}
<1>1. ASSUME NEW j \in b + 1 .. Len(fs) PROVE Found(j) = 0
  <2>1. fs[j] \in Frame
    OBVIOUS
  <2>2. Chunk(fs[j]).handlers = <<>>
    BY <2>1 DEF Chunk, Frame
  <2>3. DOMAIN Chunk(fs[j]).handlers = {}
    BY <2>2
  <2> QED
    BY <2>3 DEF find_exception_handler, Narrowest
<1>2. handling = {}
  BY <1>1
<1>3. /\ frames' = SubSeq(fs, 1, b)
      /\ stack' = Resize(fs[b + 1].base)
      /\ result' = c
  BY <1>2 DEF PropagateThrow
<1> QED
  BY <1>2, <1>3 DEF PropagateThrow

LEMMA ThrowingActionsFit ==
  ASSUME ExecInv, Level, ~LeavesOperand, Operate \/ CopyObjectRest \/ GetIterator
  PROVE  Level'
<1>1. CASE Operate
  <2>1. On("operate")
    BY <1>1 DEF Operate
  <2>2. /\ Running /\ Instr.op = "operate" /\ Len(stack) = Top.base + Height
        /\ stack \in Seq(Value) /\ Top.base \in Nat /\ Height \in Nat
        /\ Instr.n \in Nat /\ Instr.v \in Value
    BY <2>1, AtOp, Fetched
  <2>3. CASE /\ PropagateThrow(Throw(Instr.v), Advanced, Top.pc, Boundary, <<>>)
             /\ UNCHANGED <<prog, loops, gens, suspended>>
    BY <2>2, <2>3, InstructionThrowFits, LevelKept DEF Level
  <2>4. CASE Straight(Append(Drop(Instr.n), Undef))
    <3>1. /\ Top.pc + 1 \in Successors(Instr, Top.pc)
          /\ DepthAfter(Instr, Height) = Height - Instr.n + 1
      BY <2>2, Effects
    <3>2. Len(stack) - Instr.n \in Nat /\ Len(stack) - Instr.n <= Len(stack)
      BY <2>1, <2>2, Operands
    <3>3. Len(Append(Drop(Instr.n), Undef)) = Len(stack) - Instr.n + 1
      BY <2>2, <3>2, CutLength DEF Drop
    <3>4. Len(Append(Drop(Instr.n), Undef)) = Top.base + DepthAfter(Instr, Height)
      BY <2>2, <3>1, <3>3
    <3> QED
      BY <2>2, <2>4, <3>1, <3>4, StraightLevel
  <2> QED
    BY <1>1, <2>3, <2>4 DEF Operate
<1>2. CASE CopyObjectRest
  <2>1. On("copy_object_rest")
    BY <1>2 DEF CopyObjectRest
  <2>2. /\ Running /\ Instr.op = "copy_object_rest" /\ Len(stack) = Top.base + Height
        /\ stack \in Seq(Value) /\ Top.base \in Nat /\ Height \in Nat
        /\ Instr.v \in Value
    BY <2>1, AtOp, Fetched
  <2>3. CASE /\ PropagateThrow(Throw(Instr.v), Advanced, Top.pc, Boundary,
                               <<Val("obj", "rest")>>)
             /\ UNCHANGED <<prog, loops, gens, suspended>>
    <3>1. /\ Top.chunk \in Names
          /\ \E i \in DOMAIN prog[Top.chunk].code :
               prog[Top.chunk].code[i].op = "copy_object_rest"
      <4>1. Top.chunk \in Names /\ Top.pc \in DOMAIN Chunk(Top).code
        BY <2>2, AtInstruction
      <4> QED
        BY <2>2, <4>1 DEF Instr, Chunk
    <3>2. \A n \in Names : prog[n].handlers = <<>>
      BY <3>1 DEF LeavesOperand
    <3>3. Advanced \in Seq(Frame) /\ Boundary \in Nat /\ prog \in Programs
      BY <2>2, SteppedWaits, ReplacedFits, RunningFrame DEF Advanced, ExecInv
    <3>4. PropagateThrow(Throw(Instr.v), Advanced, Top.pc, Boundary, <<>>)
      BY <2>3, <3>2, <3>3, NoHandlerFound
    <3> QED
      BY <2>2, <2>3, <3>4, InstructionThrowFits, LevelKept DEF Level
  <2>4. CASE Straight(Append(Drop(2), Val("obj", "rest")))
    <3>1. /\ Top.pc + 1 \in Successors(Instr, Top.pc)
          /\ DepthAfter(Instr, Height) = Height - 1
      BY <2>2, Effects
    <3>2. Len(stack) - 2 \in Nat /\ Len(stack) - 2 <= Len(stack)
      BY <2>1, <2>2, Operands
    <3>3. Len(Append(Drop(2), Val("obj", "rest"))) = Len(stack) - 2 + 1
      BY <2>2, <3>2, CutLength DEF Drop
    <3>4. Len(Append(Drop(2), Val("obj", "rest"))) = Top.base + DepthAfter(Instr, Height)
      BY <2>2, <3>1, <3>3
    <3> QED
      BY <2>2, <2>4, <3>1, <3>4, StraightLevel
  <2> QED
    BY <1>2, <2>3, <2>4 DEF CopyObjectRest
<1>3. CASE GetIterator
  <2>1. On("get_iterator")
    BY <1>3 DEF GetIterator
  <2>2. /\ Running /\ Instr.op = "get_iterator" /\ Len(stack) = Top.base + Height
        /\ stack \in Seq(Value) /\ Top.base \in Nat /\ Height \in Nat
    BY <2>1, AtOp
  <2>3. CASE /\ PropagateThrow(Throw(TypeErr), Advanced, Top.pc, Boundary, <<>>)
             /\ UNCHANGED <<prog, loops, gens, suspended>>
    <3>1. TypeErr \in Value
      BY OwnValues
    <3> QED
      BY <2>2, <2>3, <3>1, InstructionThrowFits, LevelKept DEF Level
  <2>4. CASE Straight(Append(stack, Val("fn", "next")))
    <3>1. /\ Top.pc + 1 \in Successors(Instr, Top.pc)
          /\ DepthAfter(Instr, Height) = Height + 1
      BY <2>2, Effects
    <3>2. Len(Append(stack, Val("fn", "next"))) = Len(stack) + 1
      BY <2>2
    <3>3. Len(Append(stack, Val("fn", "next"))) = Top.base + DepthAfter(Instr, Height)
      BY <2>2, <3>1, <3>2
    <3> QED
      BY <2>2, <2>4, <3>1, <3>3, StraightLevel
  <2> QED
    BY <1>3, <2>3, <2>4 DEF GetIterator
<1> QED
  BY <1>1, <1>2, <1>3

LEMMA AbruptActionsFit ==
  ASSUME ExecInv, Level, BreakOrContinue \/ ThrowOp \/ CallThrows
  PROVE  Level'
<1>1. CASE BreakOrContinue
  <2>1. PICK op \in {"break", "continue"} : On(op)
    BY <1>1 DEF BreakOrContinue
  <2>2. Running /\ Instr.op = op /\ Instr.n \in Nat
    BY <2>1, AtOp
  <2> DEFINE c == Jumping(Instr.op, Instr.n)
             d == prog[Top.chunk].depth
  <2>3. c \in Completion /\ c.type = op /\ c.target = Instr.n
    BY <2>2, OwnValues DEF Jumping, Completion
  <2>4. /\ Propagate(c, WithTop(Stepped), Top.pc)
        /\ UNCHANGED <<prog, loops, gens>>
    BY <1>1 DEF BreakOrContinue, Advanced
  <2> HIDE DEF c
  <2>5. Instr.n \in DOMAIN d /\ d[Instr.n] = 0 /\ Height = 0
    <3>1. /\ Top.chunk \in Names /\ prog \in Programs /\ Top.pc \in DOMAIN d
          /\ Height = d[Top.pc] /\ Instr = prog[Top.chunk].code[Top.pc]
      BY <2>2, AtInstruction DEF ExecInv, DepthOf, AtDepth, Chunk, Instr
    <3>2. Structured(prog[Top.chunk])
      BY <3>1, ChunksSound
    <3>3. Height = 0
      BY <2>2, <3>1, <3>2 DEF Structured
    <3>4. Instr.n \in Successors(Instr, Top.pc) /\ DepthAfter(Instr, Height) = Height
      BY <2>2 DEF Successors, DepthAfter
    <3>5. Instr.n \in DOMAIN d /\ d[Instr.n] = Height
      BY <2>2, <3>4, AtInstruction DEF DepthOf, Chunk
    <3> QED
      BY <3>3, <3>5
  <2>6. SameFrame(Stepped) /\ JumpsWait(prog, Stepped)
    BY <2>2, SteppedWaits
  <2>7. JumpFits(prog, Stepped, c)
    BY <2>3, <2>5, <2>6 DEF JumpFits, SameFrame
  <2>8. RoutedFits(loops)
    BY <2>2, <2>3, <2>4, <2>5, <2>6, <2>7, PropagateFits
  <2> QED
    BY <2>4, <2>8, LevelKept DEF Level
<1>2. CASE ThrowOp
  <2>1. On("throw") /\ Propagate(Throw(Peek), Advanced, Top.pc)
        /\ UNCHANGED <<prog, loops, gens>>
    BY <1>2 DEF ThrowOp
  <2>2. Running /\ Peek \in Value
    BY <2>1, AtOp, Operands, PeekTyped
  <2>3. Throw(Peek) \in Completion /\ Throw(Peek).type = "throw"
    BY <2>2 DEF Throw, Completion, NoTarget
  <2> QED
    BY <2>1, <2>2, <2>3, AbruptFits, LevelKept DEF Level
<1>3. CASE CallThrows
  <2>1. /\ On("call") \/ On("construct")
        /\ Propagate(Throw(TypeErr), Advanced, Top.pc)
        /\ UNCHANGED <<prog, loops, gens>>
    BY <1>3 DEF CallThrows
  <2>2. Running
    BY <2>1, AtOp
  <2>3. Throw(TypeErr) \in Completion /\ Throw(TypeErr).type = "throw"
    BY OwnValues DEF Throw, Completion, NoTarget
  <2> QED
    BY <2>1, <2>2, <2>3, AbruptFits, LevelKept DEF Level
<1> QED
  BY <1>1, <1>2, <1>3

\* The end of a finalizer finds no operand: it is a statement.
LEMMA NoOperandHere ==
  ASSUME ExecInv, Level, Running, Instr.op \in {"break", "continue", "end_finally"}
  PROVE  Height = 0
<1> DEFINE d == prog[Top.chunk].depth
<1>1. /\ Top.chunk \in Names /\ prog \in Programs /\ Top.pc \in DOMAIN d
      /\ Height = d[Top.pc] /\ Instr = prog[Top.chunk].code[Top.pc]
  BY AtInstruction DEF ExecInv, DepthOf, AtDepth, Chunk, Instr
<1>2. Structured(prog[Top.chunk])
  BY <1>1, ChunksSound
<1> QED
  BY <1>1, <1>2 DEF Structured

LEMMA EndFinallyFits ==
  ASSUME ExecInv, Level, EndFinally
  PROVE  Level'
<1> DEFINE p == Top.pending
           owed == p # <<>> /\ p[Len(p)].finally_start = Instr.n
           rest == SubSeq(p, 1, Len(p) - 1)
           f == [Stepped EXCEPT !.pending = rest]
<1>1. /\ \/ owed /\ Propagate(p[Len(p)].completion, WithTop(f), Top.pc)
         \/ frames' = WithTop(Stepped) /\ UNCHANGED <<stack, result>>
      /\ UNCHANGED <<prog, loops, gens>>
  BY DEF EndFinally, Advanced
<1>2. On("end_finally")
  BY DEF EndFinally
<1>3. /\ Running /\ Top \in Frame /\ Instr.op = "end_finally"
      /\ Len(stack) = Top.base + Height
  BY <1>2, AtOp
<1>4. Height = 0
  BY <1>3, NoOperandHere
<1>5. p \in Seq(PendingFinally)
  BY <1>3 DEF Frame
<1>6. CASE owed /\ Propagate(p[Len(p)].completion, WithTop(f), Top.pc)
  <2>1. /\ Len(p) \in 1 .. Len(p) /\ Len(p) - 1 \in 0 .. Len(p)
        /\ Len(p) - 1 \in Nat /\ Len(p) - 1 <= Len(p)
    BY <1>5, <1>6
  <2>2. p[Len(p)] \in PendingFinally
    BY <1>5, <2>1, ElementOfSeq
  <2>3. p[Len(p)].completion \in Completion
    BY <2>2 DEF PendingFinally
  <2>4. rest \in Seq(PendingFinally)
    BY <1>5, <2>1, Prefix
  <2>5. SameFrame(f) /\ f.pending = rest
    BY <1>3, <2>4, SteppedIsSame DEF Stepped, Frame
  <2>6. JumpsWait(prog, Top)
    BY <1>3, SteppedWaits
  <2> HIDE DEF f
  <2>7. JumpsWait(prog, f)
    BY <1>3, <2>1, <2>5, <2>6, FewerJumps DEF SameFrame
  <2> DEFINE c == p[Len(p)].completion
  <2>8. JumpFits(prog, Top, c)
    BY <2>1, <2>6 DEF JumpsWait
  <2> HIDE DEF c
  <2>9. JumpFits(prog, f, c)
    BY <2>5, <2>8 DEF JumpFits, SameFrame
  <2>10. RoutedFits(loops)
    BY <1>3, <1>4, <1>6, <2>3, <2>5, <2>7, <2>9, PropagateFits DEF c
  <2> QED
    BY <1>1, <2>10, LevelKept DEF Level
<1>7. CASE frames' = WithTop(Stepped) /\ UNCHANGED <<stack, result>>
  <2>1. /\ Top.pc + 1 \in Successors(Instr, Top.pc)
        /\ DepthAfter(Instr, Height) = Height
    BY <1>3, Effects
  <2>2. Len(stack) = Top.base + DepthAfter(Instr, Height)
    BY <1>3, <2>1
  <2>3. /\ SameFrame(Stepped) /\ Stepped.pending = Top.pending
        /\ Stepped.pc \in Successors(Instr, Top.pc)
    BY <1>3, <2>1, SteppedFields
  <2> QED
    BY <1>1, <1>3, <1>7, <2>2, <2>3, FrameLevel
<1> QED
  BY <1>1, <1>6, <1>7

-----------------------------------------------------------------------------
(* Generators and calls keep to the depths.                                *)

\* A generator that is executing or completed has no saved operands to fit.
LEMMA StateChangedFits ==
  ASSUME gens \in [GenIds -> Generator], \A x \in GenIds : SavedFit(prog, gens[x]),
         NEW g, NEW s \in {"executing", "completed"},
         gens' = [gens EXCEPT ![g].state = s]
  PROVE  \A x \in GenIds : SavedFit(prog, gens'[x])
<1> SUFFICES ASSUME NEW x \in GenIds PROVE SavedFit(prog, gens'[x])
  OBVIOUS
<1>1. gens[x] \in Generator
  OBVIOUS
<1>2. CASE x = g
  <2>1. gens'[x] = [gens[x] EXCEPT !.state = s]
    BY <1>2
  <2>2. gens'[x].state = s
    BY <1>1, <2>1 DEF Generator
  <2> QED
    BY <2>2 DEF SavedFit
<1>3. CASE x # g
  BY <1>3
<1> QED
  BY <1>2, <1>3

LEMMA ReturnOpFits ==
  ASSUME ExecInv, Level, ReturnOp
  PROVE  Level'
<1>1. /\ On("return") /\ Propagate(Return(Peek), Advanced, Top.pc)
      /\ UNCHANGED <<prog, loops>>
      /\ \/ gens' = [gens EXCEPT ![loops[Len(loops)].gen].state = "completed"]
         \/ gens' = gens
  BY DEF ReturnOp
<1>2. Running /\ Peek \in Value
  BY <1>1, Fetched, Operands, PeekTyped
<1>3. Return(Peek) \in Completion /\ Return(Peek).type = "return"
  BY <1>2 DEF Return, Completion, NoTarget
<1>4. RoutedFits(loops)
  BY <1>1, <1>2, <1>3, AbruptFits
<1>5. gens \in [GenIds -> Generator] /\ \A g \in GenIds : SavedFit(prog, gens[g])
  BY DEF Level, ExecInv, TypeOK
<1>6. \A g \in GenIds : SavedFit(prog, gens'[g])
  <2>1. CASE gens' = gens
    BY <1>5, <2>1
  <2>2. CASE gens' = [gens EXCEPT ![loops[Len(loops)].gen].state = "completed"]
    <3> DEFINE g == loops[Len(loops)].gen
    <3>1. gens' = [gens EXCEPT ![g].state = "completed"]
      BY <2>2
    <3> HIDE DEF g
    <3> QED
      BY <1>5, <3>1, StateChangedFits
  <2> QED
    BY <1>1, <2>1, <2>2
<1> QED
  BY <1>1, <1>4, <1>6, LevelKept

LEMMA YieldFits ==
  ASSUME ExecInv, Level, Yield
  PROVE  Level'
<1> DEFINE n == Len(frames)
           g == loops[Len(loops)].gen
           saved == SubSeq(stack, Top.base + 1, Len(stack) - 1)
           s == [state |-> "suspended_yield", chunk |-> Top.chunk,
                 pc |-> Top.pc + 1, last |-> Top.pc, locals |-> Top.locals,
                 stack |-> saved]
<1>1. /\ On("yield") /\ gens' = [gens EXCEPT ![g] = s]
      /\ frames' = SubSeq(frames, 1, n - 1) /\ result' = Normal(Peek)
      /\ UNCHANGED <<prog, loops>>
  BY DEF Yield
<1>2. /\ Running /\ Instr.op = "yield" /\ Top \in Frame /\ Top.base \in Nat
      /\ Top.pc \in Nat /\ stack \in Seq(Value) /\ Len(stack) \in Nat
      /\ Height \in Nat /\ Len(stack) = Top.base + Height
  BY <1>1, AtOp
<1>3. Top.base <= Len(stack) - 1
  BY <1>1, Operands
<1>4. /\ Top.pc + 1 \in DOMAIN DepthOf(Top)
      /\ DepthOf(Top)[Top.pc + 1] = Height
  <2>1. /\ Top.pc + 1 \in Successors(Instr, Top.pc)
        /\ DepthAfter(Instr, Height) = Height
    BY <1>2, Effects
  <2> QED
    BY <1>2, <2>1, AtInstruction
<1>5. Len(saved) = Height - 1
  <2>1. \A i \in Top.base + 1 .. Len(stack) - 1 : stack[i] \in Value
    <3>1. \A i \in Top.base + 1 .. Len(stack) - 1 : i \in 1 .. Len(stack)
      BY <1>2
    <3> QED
      BY <1>2, <3>1
  <2> DEFINE x == Top.base + 1
             y == Len(stack) - 1
  <2>2. x \in Int /\ y \in Int /\ x <= y + 1 /\ y - x + 1 = Height - 1
    BY <1>2, <1>3
  <2>3. \A i \in x .. y : stack[i] \in Value
    BY <2>1
  <2>4. saved = SubSeq(stack, x, y)
    OBVIOUS
  <2> HIDE DEF saved, x, y
  <2>5. Len(saved) = IF x <= y THEN y - x + 1 ELSE 0
    BY <2>2, <2>3, <2>4, SubSeqProperties
  <2>6. x > y => y - x + 1 = 0
    BY <2>2
  <2> QED
    BY <2>2, <2>5, <2>6
<1>6. SavedFit(prog, s)
  <2>1. /\ s.state = "suspended_yield" /\ s.pc = Top.pc + 1 /\ s.stack = saved
        /\ prog[s.chunk].depth = DepthOf(Top)
    BY DEF DepthOf, Chunk
  <2> HIDE DEF s, saved
  <2>2. s.pc \in DOMAIN DepthOf(Top) /\ DepthOf(Top)[s.pc] = Height
    BY <1>4, <2>1
  <2>3. Height = Len(s.stack) + 1
    BY <1>2, <1>5, <2>1
  <2> QED
    BY <2>1, <2>2, <2>3 DEF SavedFit
<1> HIDE DEF s, saved
<1>7. \A x \in GenIds : SavedFit(prog, gens'[x])
  <2>1. gens \in [GenIds -> Generator] /\ \A x \in GenIds : SavedFit(prog, gens[x])
    BY DEF Level, ExecInv, TypeOK
  <2>2. \A x \in GenIds : gens'[x] = s \/ gens'[x] = gens[x]
    BY <1>1, <2>1
  <2> QED
    BY <1>6, <2>1, <2>2
<1>8. RoutedFits(loops)
  <2>1. frames \in Seq(Frame) /\ loops \in Seq(Loop) /\ Fits(prog, frames, loops)
    BY DEF Level, ExecInv, TypeOK
  <2>2. n - 1 \in 0 .. n
    BY <1>2, RunningFrame
  <2>3. Fits(prog, SubSeq(frames, 1, n - 1), loops)
    BY <2>1, <2>2, FitsPrefix
  <2> QED
    BY <1>1, <2>3 DEF RoutedFits, Normal
<1> QED
  BY <1>1, <1>7, <1>8, LevelKept

\* A frame that a call puts on top: below it, the place of the result.
LEMMA FrameEntered ==
  ASSUME NEW p, NEW fs \in Seq(Frame), NEW ls \in Seq(Loop), NEW ms \in Seq(Loop),
         Fits(p, fs, ls), NEW n, n = Len(fs), n \in 1 .. n,
         \A k \in 2 .. Len(ls) : ls[k].boundary < n,
         Standing(p, fs[n]), NEW f \in Frame, JumpsWait(p, f),
         \/ ms = ls /\ f.base = Owed(p, fs[n])
         \/ \E l \in Loop : /\ ls # <<>> /\ ms = Append(ls, l) /\ l.boundary = n
                            /\ l.opbase = Owed(p, fs[n])
  PROVE  Fits(p, Append(fs, f), ms)
<1> DEFINE gs == Append(fs, f)
<1>1. n \in Nat /\ Len(ls) \in Nat
  OBVIOUS
<1>2. /\ gs \in Seq(Frame) /\ Len(gs) = n + 1 /\ gs[n + 1] = f
      /\ \A i \in 1 .. n : gs[i] = fs[i]
  BY AppendProperties
<1> HIDE DEF gs
<1>3. \A i \in 1 .. n + 1 : i \in 1 .. n \/ i = n + 1
  BY <1>1
<1>4. \A i \in 1 .. Len(gs) : JumpsWait(p, gs[i])
  BY <1>2, <1>3 DEF Fits
<1>5. \A i \in 1 .. n - 1 : /\ i \in 1 .. n /\ i + 1 \in 1 .. n
                            /\ i \in 1 .. Len(fs) - 1
  BY <1>1
<1>6. \A i \in 1 .. Len(gs) - 1 : i \in 1 .. n - 1 \/ i = n
  BY <1>1, <1>2
<1>7. CASE ms = ls /\ f.base = Owed(p, fs[n])
  <2>1. CallersFit(p, gs, ls)
    <3> SUFFICES ASSUME NEW i \in 1 .. Len(gs) - 1,
                        \A k \in 2 .. Len(ls) : ls[k].boundary # i
                 PROVE  Standing(p, gs[i]) /\ gs[i + 1].base = Owed(p, gs[i])
      BY DEF CallersFit
    <3>1. CASE i = n
      BY <1>2, <1>7, <3>1
    <3>2. CASE i \in 1 .. n - 1
      <4>1. Standing(p, fs[i]) /\ fs[i + 1].base = Owed(p, fs[i])
        BY <1>5, <3>2 DEF Fits, CallersFit
      <4> QED
        BY <1>2, <1>5, <3>2, <4>1
    <3> QED
      BY <1>6, <3>1, <3>2
  <2>2. NativesFit(p, gs, ls)
    <3> SUFFICES ASSUME NEW k \in 2 .. Len(ls), ls[k].boundary \in 1 .. Len(gs)
                 PROVE  /\ Standing(p, gs[ls[k].boundary])
                        /\ ls[k].opbase = Owed(p, gs[ls[k].boundary])
      BY DEF NativesFit
    <3>1. ls[k].boundary \in 1 .. n
      BY <1>1, <1>2
    <3> QED
      BY <1>2, <3>1 DEF Fits, NativesFit
  <2>3. Fits(p, gs, ls)
    BY <1>4, <2>1, <2>2 DEF Fits
  <2> QED
    BY <1>7, <2>3 DEF gs
<1>8. ASSUME NEW l \in Loop, ls # <<>>, ms = Append(ls, l), l.boundary = n,
             l.opbase = Owed(p, fs[n])
      PROVE  Fits(p, gs, ms)
  <2>1. /\ Len(ms) = Len(ls) + 1 /\ ms[Len(ls) + 1] = l
        /\ \A k \in 1 .. Len(ls) : ms[k] = ls[k]
    BY <1>8, AppendProperties
  <2>2. /\ Len(ls) + 1 \in 2 .. Len(ms)
        /\ \A k \in 2 .. Len(ls) : k \in 1 .. Len(ls) /\ k \in 2 .. Len(ms)
        /\ \A k \in 2 .. Len(ms) : k \in 2 .. Len(ls) \/ k = Len(ls) + 1
    <3>1. Len(ls) >= 1
      BY <1>8
    <3> QED
      BY <1>1, <2>1, <3>1
  <2>3. CallersFit(p, gs, ms)
    <3> SUFFICES ASSUME NEW i \in 1 .. Len(gs) - 1,
                        \A k \in 2 .. Len(ms) : ms[k].boundary # i
                 PROVE  Standing(p, gs[i]) /\ gs[i + 1].base = Owed(p, gs[i])
      BY DEF CallersFit
    <3>1. i # n
      BY <1>8, <2>1, <2>2
    <3>2. i \in 1 .. n - 1
      BY <1>6, <3>1
    <3>3. \A k \in 2 .. Len(ls) : ls[k].boundary # i
      BY <2>1, <2>2
    <3>4. Standing(p, fs[i]) /\ fs[i + 1].base = Owed(p, fs[i])
      BY <1>5, <3>2, <3>3 DEF Fits, CallersFit
    <3> QED
      BY <1>2, <1>5, <3>2, <3>4
  <2>4. NativesFit(p, gs, ms)
    <3> SUFFICES ASSUME NEW k \in 2 .. Len(ms), ms[k].boundary \in 1 .. Len(gs)
                 PROVE  /\ Standing(p, gs[ms[k].boundary])
                        /\ ms[k].opbase = Owed(p, gs[ms[k].boundary])
      BY DEF NativesFit
    <3>1. CASE k = Len(ls) + 1
      BY <1>2, <1>8, <2>1, <3>1
    <3>2. CASE k \in 2 .. Len(ls)
      <4>1. ms[k] = ls[k] /\ ls[k].boundary < n
        BY <2>1, <2>2, <3>2
      <4>2. ls[k].boundary \in 1 .. n
        BY <1>1, <1>2, <4>1
      <4>3. /\ Standing(p, fs[ls[k].boundary])
            /\ ls[k].opbase = Owed(p, fs[ls[k].boundary])
        BY <3>2, <4>2 DEF Fits, NativesFit
      <4> QED
        BY <1>2, <4>1, <4>2, <4>3
    <3> QED
      BY <2>2, <3>1, <3>2
  <2> QED
    BY <1>4, <2>3, <2>4 DEF Fits
<1> QED
  BY <1>7, <1>8 DEF gs

\* What the running frame owes the call it is making.
LEMMA SteppedOwes ==
  ASSUME ExecInv, Level, Running,
         Instr.op \notin {"return", "throw", "jump", "break", "continue"}
  PROVE  /\ Standing(prog, Stepped)
         /\ Owed(prog, Stepped) = Top.base + DepthAfter(Instr, Height) - 1
<1>1. Top \in Frame
  BY AtInstruction
<1>2. /\ Stepped.pc = Top.pc + 1 /\ Stepped.base = Top.base
      /\ Stepped.chunk = Top.chunk
  BY <1>1, SteppedFields DEF SameFrame
<1>3. Top.pc + 1 \in Successors(Instr, Top.pc)
  BY Effects
<1>4. /\ Top.pc + 1 \in DOMAIN DepthOf(Top)
      /\ DepthOf(Top)[Top.pc + 1] = DepthAfter(Instr, Height)
  BY <1>3, AtInstruction
<1>5. DepthOf(Top) = prog[Stepped.chunk].depth
  BY <1>2 DEF DepthOf, Chunk
<1> QED
  BY <1>2, <1>4, <1>5 DEF Standing, Owed

\* The running frame calls, and frame f starts or continues on top.
LEMMA CallLevel ==
  ASSUME ExecInv, Level, Running,
         Instr.op \notin {"return", "throw", "jump", "break", "continue"},
         NEW f \in Frame, f.pending = <<>>, Standing(prog, f),
         frames' = Append(Advanced, f), stack' \in Seq(Value),
         Len(stack') = f.base + prog[f.chunk].depth[f.pc],
         UNCHANGED <<prog, result>>, \A x \in GenIds : SavedFit(prog, gens'[x]),
         NEW place, place = Top.base + DepthAfter(Instr, Height) - 1,
         \/ f.base = place /\ loops' = loops
         \/ \E l \in Loop : /\ loops' = Append(loops, l) /\ l.boundary = Len(frames)
                            /\ l.opbase = place
  PROVE  Level'
<1> DEFINE fs == WithTop(Stepped)
           n == Len(frames)
           gs == Append(fs, f)
           ms == loops'
<1>1. /\ loops \in Seq(Loop) /\ loops # <<>> /\ n \in 1 .. n
      /\ \A k \in 2 .. Len(loops) : loops[k].boundary < n
  <2>1. /\ frames \in Seq(Frame) /\ stack \in Seq(Value) /\ loops \in Seq(Loop)
        /\ loops # <<>> /\ Nests(frames, stack, loops, TRUE)
    BY RunningFrame DEF ExecInv, TypeOK, Running
  <2> QED
    BY <2>1, TopOfNest
<1>2. /\ Standing(prog, Stepped) /\ Owed(prog, Stepped) = place
      /\ SameFrame(Stepped) /\ JumpsWait(prog, Stepped)
  BY SteppedOwes, SteppedWaits
<1>3. /\ fs \in Seq(Frame) /\ Len(fs) = n /\ fs[n] = Stepped
      /\ Fits(prog, fs, loops)
  BY <1>2, ReplacedFits
<1>4. JumpsWait(prog, f)
  <2>1. Len(f.pending) = 0
    OBVIOUS
  <2> QED
    BY <2>1 DEF JumpsWait
<1>5. ms \in Seq(Loop)
  <2>1. \A l \in Loop : Append(loops, l) \in Seq(Loop)
    BY <1>1, AppendProperties
  <2> QED
    BY <1>1, <2>1
<1>6. gs \in Seq(Frame) /\ Len(gs) = n + 1 /\ gs[n + 1] = f
  BY <1>3, AppendProperties
<1>7. \/ ms = loops /\ f.base = Owed(prog, fs[n])
      \/ \E l \in Loop : /\ loops # <<>> /\ ms = Append(loops, l) /\ l.boundary = n
                         /\ l.opbase = Owed(prog, fs[n])
  BY <1>1, <1>2, <1>3
<1>8. Standing(prog, fs[n])
  BY <1>2, <1>3
<1> HIDE DEF fs, ms
<1>9. Fits(prog, gs, ms)
  BY <1>1, <1>3, <1>4, <1>5, <1>7, <1>8, FrameEntered
<1> DEFINE tt == stack'
<1> HIDE DEF tt
<1>10. TopFits(prog, gs, tt)
  <2>1. gs # <<>>
    <3>1. Len(gs) # Len(<<>>)
      BY <1>1, <1>6
    <3> QED
      BY <3>1
  <2>2. Len(tt) = f.base + prog[f.chunk].depth[f.pc]
    BY DEF tt
  <2> HIDE DEF gs
  <2> QED
    BY <1>6, <2>1, <2>2 DEF TopFits
<1> HIDE DEF gs
<1>11. Fits(prog', gs, ms) /\ TopFits(prog', gs, tt)
  BY <1>9, <1>10
<1>12. \A x \in GenIds : SavedFit(prog', gens'[x])
  OBVIOUS
<1>13. gs = frames' /\ ms = loops' /\ tt = stack'
  BY DEF gs, fs, ms, tt, Advanced
<1> QED
  BY <1>11, <1>12, <1>13 DEF Level

\* A new frame starts at the entry of its chunk, with no operand.
LEMMA NewFrameFits ==
  ASSUME prog \in Programs, NEW name \in Names, NEW base \in Nat,
         NEW receiver \in Value
  PROVE  LET f == NewFrame(name, base, receiver)
         IN  /\ f \in Frame /\ f.base = base /\ f.pending = <<>>
             /\ Standing(prog, f) /\ prog[f.chunk].depth[f.pc] = 0
<1> DEFINE f == NewFrame(name, base, receiver)
<1>1. f \in Frame /\ f.base = base /\ f.chunk = name
  BY NewFrameTyped
<1>2. f.pending = <<>> /\ f.pc = 1
  BY DEF NewFrame
<1>3. Sound(prog[name], prog[name].depth)
  BY ChunksSound
<1> HIDE DEF f
<1>4. Standing(prog, f) /\ prog[f.chunk].depth[f.pc] = 0
  BY <1>1, <1>2, <1>3 DEF Sound, Standing
<1> QED
  BY <1>1, <1>2, <1>4 DEF f

LEMMA CallActionsFit ==
  ASSUME ExecInv, Level, CallFunction \/ ConstructFunction
  PROVE  Level'
<1>1. PICK receiver \in Value : PushFrame(receiver)
  BY OwnValues DEF CallFunction, ConstructFunction
<1>2. PICK op \in {"call", "construct"} : On(op)
  BY DEF CallFunction, ConstructFunction
<1>3. /\ Running /\ Instr.op = op /\ Instr.n \in Nat /\ stack \in Seq(Value)
      /\ Len(stack) \in Nat /\ Top.base \in Nat /\ Height \in Nat
      /\ Len(stack) = Top.base + Height
  BY <1>2, AtOp
<1>4. Len(stack) - Instr.n - 1 \in Nat
  BY <1>2, Operands
<1>5. /\ OpBase \in Nat /\ OpBase <= Len(stack)
      /\ OpBase = Top.base + DepthAfter(Instr, Height) - 1
  <2>1. DepthAfter(Instr, Height) = Height - Instr.n
    BY <1>3, Effects
  <2> QED
    BY SMTT(30), <1>3, <1>4, <2>1 DEF OpBase, Argc
<1> DEFINE f == NewFrame(Callee.id, OpBase, receiver)
<1>6. /\ IsBytecode(Callee) /\ frames' = Append(Advanced, f)
      /\ stack' = SubSeq(stack, 1, OpBase)
      /\ UNCHANGED <<prog, loops, gens, result>>
  BY <1>1 DEF PushFrame, Resize
<1>7. prog \in Programs /\ Callee.id \in Names
  BY <1>6 DEF ExecInv, IsBytecode, HasCode
<1>8. /\ f \in Frame /\ f.base = OpBase /\ f.pending = <<>>
      /\ Standing(prog, f) /\ prog[f.chunk].depth[f.pc] = 0
  BY <1>5, <1>7, NewFrameFits
<1> HIDE DEF f
<1>9. stack' \in Seq(Value) /\ Len(stack') = OpBase
  <2> DEFINE m == OpBase
  <2>1. m \in Nat /\ m <= Len(stack) /\ stack' = SubSeq(stack, 1, m)
    BY <1>5, <1>6
  <2> HIDE DEF m
  <2>2. stack' \in Seq(Value) /\ Len(stack') = m
    BY <1>3, <2>1, Prefix
  <2> QED
    BY <2>2 DEF m
<1>10. Len(stack') = f.base + prog[f.chunk].depth[f.pc]
  BY <1>5, <1>8, <1>9
<1>11. \A x \in GenIds : SavedFit(prog, gens'[x])
  BY <1>6 DEF Level
<1> DEFINE place == OpBase
<1>12. place = Top.base + DepthAfter(Instr, Height) - 1 /\ f.base = place
  BY <1>5, <1>8
<1>13. Instr.op \notin {"return", "throw", "jump", "break", "continue"}
  BY <1>3
<1> HIDE DEF place
<1> QED
  BY <1>3, <1>6, <1>8, <1>9, <1>10, <1>11, <1>12, <1>13, CallLevel

\* The running frame enters native code, which runs frame f.
LEMMA NestedFits ==
  ASSUME ExecInv, Level, Running,
         Instr.op \notin {"return", "throw", "jump", "break", "continue"},
         NEW f \in Frame, f.pending = <<>>, Standing(prog, f),
         NEW place \in Nat, place = Top.base + DepthAfter(Instr, Height) - 1,
         NEW g \in GenIds \cup {NoGen}, Nested(f, place, g),
         stack' \in Seq(Value), Len(stack') = f.base + prog[f.chunk].depth[f.pc],
         UNCHANGED <<prog, result>>, \A x \in GenIds : SavedFit(prog, gens'[x])
  PROVE  Level'
<1> DEFINE l == [boundary |-> Len(frames), opbase |-> place, gen |-> g]
<1>1. frames' = Append(Advanced, f) /\ loops' = Append(loops, l)
  BY DEF Nested
<1>2. l \in Loop /\ l.boundary = Len(frames) /\ l.opbase = place
  <2>1. Len(frames) \in Nat
    BY RunningFrame
  <2> QED
    BY <2>1 DEF Loop
<1> HIDE DEF l
<1> QED
  BY <1>1, <1>2, CallLevel

LEMMA NativeActionsFit ==
  ASSUME ExecInv, Level, CallApply \/ GetProperty
  PROVE  Level'
<1>1. /\ prog \in Programs /\ NoGen \in GenIds \cup {NoGen} /\ NoReceiver \in Value
      /\ stack \in Seq(Value)
  BY OwnValues DEF ExecInv, TypeOK
<1>2. CASE CallApply
  <2> DEFINE f == NewFrame(Arg(1).id, Len(stack), NoReceiver)
  <2>1. /\ On("call") /\ IsBytecode(Arg(1)) /\ stack' = stack
        /\ Nested(f, OpBase, NoGen) /\ UNCHANGED <<prog, gens, result>>
    BY <1>2 DEF CallApply
  <2>2. /\ Running /\ Instr.op = "call" /\ Instr.n \in Nat /\ Len(stack) \in Nat
        /\ Top.base \in Nat /\ Height \in Nat /\ Len(stack) = Top.base + Height
    BY <2>1, AtOp
  <2>3. Len(stack) - Instr.n - 1 \in Nat /\ DepthAfter(Instr, Height) = Height - Instr.n
    BY <2>1, <2>2, Operands, Effects
  <2>4. OpBase \in Nat /\ OpBase = Top.base + DepthAfter(Instr, Height) - 1
    BY <2>2, <2>3 DEF OpBase, Argc
  <2>5. Arg(1).id \in Names
    BY <2>1 DEF IsBytecode, HasCode
  <2>6. /\ f \in Frame /\ f.base = Len(stack) /\ f.pending = <<>>
        /\ Standing(prog, f) /\ prog[f.chunk].depth[f.pc] = 0
    BY <1>1, <2>2, <2>5, NewFrameFits
  <2> HIDE DEF f
  <2>7. Len(stack') = f.base + prog[f.chunk].depth[f.pc]
    BY <2>1, <2>2, <2>6
  <2>8. \A x \in GenIds : SavedFit(prog, gens'[x])
    BY <2>1 DEF Level
  <2>9. Instr.op \notin {"return", "throw", "jump", "break", "continue"}
    BY <2>2
  <2> QED
    BY <1>1, <2>1, <2>2, <2>4, <2>6, <2>7, <2>8, <2>9, NestedFits
<1>3. CASE GetProperty
  <2> DEFINE m == Len(stack) - 1
             f == NewFrame(Instr.v.id, m, NoReceiver)
  <2>1. /\ On("get_property") /\ IsBytecode(Instr.v) /\ stack' = SubSeq(stack, 1, m)
        /\ Nested(f, m, NoGen) /\ UNCHANGED <<prog, gens, result>>
    BY <1>3 DEF GetProperty, Drop
  <2>2. /\ Running /\ Instr.op = "get_property" /\ Len(stack) \in Nat
        /\ Top.base \in Nat /\ Height \in Nat /\ Len(stack) = Top.base + Height
    BY <2>1, AtOp
  <2>3. m \in Nat /\ DepthAfter(Instr, Height) = Height
    BY <2>1, <2>2, Operands, Effects
  <2>4. m <= Len(stack) /\ m = Top.base + DepthAfter(Instr, Height) - 1
    BY <2>2, <2>3
  <2>5. Instr.v.id \in Names
    BY <2>1 DEF IsBytecode, HasCode
  <2>6. /\ f \in Frame /\ f.base = m /\ f.pending = <<>>
        /\ Standing(prog, f) /\ prog[f.chunk].depth[f.pc] = 0
    BY <1>1, <2>3, <2>5, NewFrameFits
  <2> HIDE DEF f, m
  <2>7. stack' \in Seq(Value) /\ Len(stack') = m
    BY <1>1, <2>1, <2>3, <2>4, Prefix
  <2>8. Len(stack') = f.base + prog[f.chunk].depth[f.pc]
    BY <2>3, <2>6, <2>7
  <2>9. \A x \in GenIds : SavedFit(prog, gens'[x])
    BY <2>1 DEF Level
  <2>10. Instr.op \notin {"return", "throw", "jump", "break", "continue"}
    BY <2>2
  <2> QED
    BY <1>1, <2>1, <2>2, <2>3, <2>4, <2>6, <2>7, <2>8, <2>9, <2>10, NestedFits
<1> QED
  BY <1>2, <1>3

\* A call of Generator.next replaces its operands by its result.
LEMMA NextPlace ==
  ASSUME ExecInv, Level, NEW g, NextOf(g)
  PROVE  /\ Running /\ NextBase \in Nat /\ NextBase <= Len(stack)
         /\ NextBase = Top.base + DepthAfter(Instr, Height) - 1
         /\ DepthAfter(Instr, Height) \in Int /\ Top.base \in Nat
         /\ Top.pc + 1 \in Successors(Instr, Top.pc)
         /\ Instr.op \notin {"return", "throw", "jump", "break", "continue"}
<1>1. PICK op \in {"call", "iterator_next"} : On(op)
  BY DEF NextOf
<1>2. /\ Running /\ Instr.op = op /\ Instr.n \in Nat /\ Len(stack) \in Nat
      /\ Top.base \in Nat /\ Height \in Nat /\ Len(stack) = Top.base + Height
  BY <1>1, AtOp
<1>3. NextBase \in Nat /\ NextBase <= Len(stack)
  BY NextOperands
<1>4. CASE Instr.op = "call"
  <2>1. /\ DepthAfter(Instr, Height) = Height - Instr.n
        /\ Top.pc + 1 \in Successors(Instr, Top.pc)
    BY <1>4, Effects
  <2>2. NextBase = Len(stack) - Instr.n - 1
    BY <1>4 DEF NextBase, OpBase, Argc
  <2> QED
    BY SMTT(30), <1>2, <1>3, <1>4, <2>1, <2>2
<1>5. CASE Instr.op = "iterator_next"
  <2>1. /\ DepthAfter(Instr, Height) = Height - 1
        /\ Top.pc + 1 \in Successors(Instr, Top.pc)
    BY <1>5, Effects
  <2>2. NextBase = Len(stack) - 2
    BY <1>5 DEF NextBase
  <2> QED
    BY <1>2, <1>3, <1>5, <2>1, <2>2
<1> QED
  BY <1>2, <1>4, <1>5

LEMMA NextCompletedFits ==
  ASSUME ExecInv, Level, NextCompleted
  PROVE  Level'
<1> DEFINE v == Val("done", "undefined")
           tt == Append(SubSeq(stack, 1, NextBase), v)
<1>1. Straight(tt)
  BY DEF NextCompleted
<1>2. /\ Running /\ NextBase \in Nat /\ NextBase <= Len(stack)
      /\ NextBase = Top.base + DepthAfter(Instr, Height) - 1
      /\ DepthAfter(Instr, Height) \in Int /\ Top.base \in Nat
      /\ Top.pc + 1 \in Successors(Instr, Top.pc)
  BY NextPlace DEF NextCompleted
<1>3. stack \in Seq(Value)
  BY DEF ExecInv, TypeOK
<1>4. Len(tt) = NextBase + 1
  BY <1>2, <1>3, CutLength
<1> HIDE DEF tt
<1>5. Len(tt) = Top.base + DepthAfter(Instr, Height)
  BY <1>2, <1>4
<1> QED
  BY <1>1, <1>2, <1>5, StraightLevel

\* A generator function makes a generator that waits at its first instruction.
LEMMA CallGeneratorFits ==
  ASSUME ExecInv, Level, CallGenerator
  PROVE  Level'
<1> DEFINE g == CHOOSE k \in GenIds : gens[k].state = "none"
           s == [NoGenerator EXCEPT !.state = "suspended_start", !.chunk = Callee.id]
           tt == Append(SubSeq(stack, 1, OpBase), Val("gen", g))
<1>1. /\ On("call") /\ gens' = [gens EXCEPT ![g] = s]
      /\ stack' = tt /\ frames' = WithTop(Stepped)
      /\ UNCHANGED <<prog, loops, result>>
  BY DEF CallGenerator, Resize, Advanced
<1>2. /\ Running /\ Instr.op = "call" /\ Instr.n \in Nat /\ Len(stack) \in Nat
      /\ stack \in Seq(Value) /\ Top \in Frame
      /\ Top.base \in Nat /\ Height \in Nat /\ Len(stack) = Top.base + Height
  BY <1>1, AtOp
<1>3. /\ Len(stack) - Instr.n - 1 \in Nat
      /\ DepthAfter(Instr, Height) = Height - Instr.n
      /\ Top.pc + 1 \in Successors(Instr, Top.pc)
  BY <1>1, <1>2, Operands, Effects
<1>4. OpBase \in Nat /\ OpBase <= Len(stack)
  BY <1>2, <1>3 DEF OpBase, Argc
<1>5. Len(tt) = OpBase + 1
  BY <1>2, <1>4, CutLength
<1> HIDE DEF tt
<1>6. Len(tt) = Top.base + DepthAfter(Instr, Height)
  BY <1>2, <1>3, <1>5 DEF OpBase, Argc
<1>7. SavedFit(prog, s)
  BY DEF SavedFit, NoGenerator
<1> HIDE DEF s, g
<1>8. \A x \in GenIds : SavedFit(prog, gens'[x])
  <2>1. gens \in [GenIds -> Generator] /\ \A x \in GenIds : SavedFit(prog, gens[x])
    BY DEF Level, ExecInv, TypeOK
  <2>2. \A x \in GenIds : gens'[x] = s \/ gens'[x] = gens[x]
    BY <1>1, <2>1
  <2> QED
    BY <1>7, <2>1, <2>2
<1>9. Fits(prog, WithTop(Stepped), loops) /\ TopFits(prog, WithTop(Stepped), tt)
  BY <1>2, <1>3, <1>6, SteppedFields, GoesOn
<1>10. RoutedFits(loops)
  BY <1>1, <1>9 DEF RoutedFits
<1> QED
  BY <1>1, <1>8, <1>10, LevelKept

LEMMA ResumeFits ==
  ASSUME ExecInv, Level, ResumeGenerator
  PROVE  Level'
<1>1. PICK g \in GenIds :
        /\ NextOf(g)
        /\ gens[g].state \in {"suspended_start", "suspended_yield"}
        /\ Nested([NewFrame(gens[g].chunk, Len(NextStack), NoReceiver) EXCEPT
                     !.pc = gens[g].pc, !.last = gens[g].last,
                     !.locals = gens[g].locals],
                  NextBase, g)
        /\ stack' = NextStack \o gens[g].stack
             \o (IF gens[g].state = "suspended_yield" THEN <<Undef>> ELSE <<>>)
        /\ gens' = [gens EXCEPT ![g].state = "executing", ![g].stack = <<>>]
  BY DEF ResumeGenerator
<1>2. UNCHANGED <<prog, result>> /\ prog \in Programs
  BY DEF ResumeGenerator, ExecInv
<1> DEFINE s == gens[g]
           f0 == NewFrame(s.chunk, Len(NextStack), NoReceiver)
           f == [f0 EXCEPT !.pc = s.pc, !.last = s.last, !.locals = s.locals]
           sent == IF s.state = "suspended_yield" THEN <<Undef>> ELSE <<>>
           ns == NextStack
           d == prog[s.chunk].depth
<1>3. ns \in Seq(Value) /\ Len(ns) \in Nat
  BY <1>1, NextOperands
<1>4. /\ gens \in [GenIds -> Generator] /\ s \in Generator /\ SavedFit(prog, s)
      /\ \A x \in GenIds : SavedFit(prog, gens[x])
  BY DEF ExecInv, TypeOK, Level
<1>5. /\ s.chunk \in Names /\ s.pc \in Nat /\ s.last \in Nat
      /\ s.locals \in [Slots -> Value] /\ s.stack \in Seq(Value)
  BY <1>4 DEF Generator
<1>6. f0 \in Frame /\ f0.base = Len(ns) /\ f0.chunk = s.chunk /\ f0.pending = <<>>
  BY <1>3, <1>5, NewFrameTyped, OwnValues DEF NewFrame
<1> HIDE DEF f0
<1>7. /\ f \in Frame /\ f.base = Len(ns) /\ f.chunk = s.chunk /\ f.pc = s.pc
      /\ f.pending = <<>>
  <2> DEFINE f1 == [f0 EXCEPT !.pc = s.pc, !.last = s.last]
  <2>1. /\ f1 \in Frame /\ f1.base = f0.base /\ f1.chunk = f0.chunk /\ f1.pc = s.pc
        /\ f1.pending = f0.pending
    BY <1>5, <1>6 DEF Frame
  <2>2. f = [f1 EXCEPT !.locals = s.locals]
    BY <1>6 DEF Frame
  <2> HIDE DEF f1, f
  <2> QED
    BY <1>5, <1>6, <2>1, <2>2 DEF Frame
<1>8. Sound(prog[s.chunk], d)
  BY <1>2, <1>5, ChunksSound
<1>9. /\ sent \in Seq(Value) /\ s.pc \in DOMAIN d
      /\ d[s.pc] = Len(s.stack) + Len(sent)
  <2>1. CASE s.state = "suspended_yield"
    <3>1. sent = <<Undef>>
      BY <2>1, Zenon
    <3>2. <<Undef>> \in Seq(Value) /\ Len(<<Undef>>) = 1
      BY OwnValues
    <3>3. s.pc \in DOMAIN d /\ d[s.pc] = Len(s.stack) + 1
      BY <1>4, <2>1 DEF SavedFit
    <3> HIDE DEF sent, d, s
    <3> QED
      BY <3>1, <3>2, <3>3
  <2>2. CASE s.state = "suspended_start"
    <3>1. s.state # "suspended_yield"
      BY <2>2
    <3>2. sent = <<>>
      BY <3>1, Zenon
    <3>3. s.pc = 1 /\ s.stack = <<>>
      BY <1>4, <2>2 DEF SavedFit
    <3>4. 1 \in DOMAIN d /\ d[1] = 0
      BY <1>8 DEF Sound
    <3>5. Len(sent) = 0 /\ Len(s.stack) = 0 /\ sent \in Seq(Value)
      BY <3>2, <3>3, EmptySeq
    <3> HIDE DEF sent, d, s
    <3> QED
      BY <3>3, <3>4, <3>5
  <2> QED
    BY <1>1, <2>1, <2>2
<1>10. /\ Nested(f, NextBase, g) /\ stack' = (ns \o s.stack) \o sent
  BY <1>1 DEF f0
<1>11. \A x \in GenIds : SavedFit(prog, gens'[x])
  <2> SUFFICES ASSUME NEW x \in GenIds PROVE SavedFit(prog, gens'[x])
    OBVIOUS
  <2>1. CASE x = g
    <3> DEFINE none == <<>>
    <3>1. gens' = [gens EXCEPT ![g].state = "executing", ![g].stack = none]
      BY <1>1
    <3> HIDE DEF none
    <3>2. gens'[x] = [[s EXCEPT !.state = "executing"] EXCEPT !.stack = none]
      BY <1>4, <2>1, <3>1
    <3>3. [s EXCEPT !.state = "executing"].state = "executing"
      BY <1>4 DEF Generator
    <3>4. gens'[x].state = "executing"
      BY <1>4, <3>2, <3>3 DEF Generator
    <3> QED
      BY <3>4 DEF SavedFit
  <2>2. CASE x # g
    <3>1. gens'[x] = gens[x]
      BY <1>1, <1>4, <2>2
    <3> QED
      BY <1>4, <3>1
  <2> QED
    BY <2>1, <2>2
<1> HIDE DEF f, sent, ns
<1>12. stack' \in Seq(Value) /\ Len(stack') = Len(ns) + d[s.pc]
  <2> DEFINE mid == ns \o s.stack
             z == s.stack
  <2>0. z \in Seq(Value)
    BY <1>5
  <2>1. mid \in Seq(Value) /\ Len(mid) = Len(ns) + Len(z)
    BY <1>3, <2>0, ConcatProperties
  <2>2. stack' = mid \o sent
    BY <1>10
  <2> HIDE DEF mid
  <2>3. mid \o sent \in Seq(Value) /\ Len(mid \o sent) = Len(mid) + Len(sent)
    BY <1>9, <2>1, ConcatProperties
  <2>4. d[s.pc] = Len(z) + Len(sent) /\ Len(z) \in Nat /\ Len(sent) \in Nat
    BY <1>9, <2>0
  <2> HIDE DEF z
  <2> QED
    BY <1>3, <2>1, <2>2, <2>3, <2>4
<1>13. /\ Standing(prog, f) /\ Len(stack') = f.base + prog[f.chunk].depth[f.pc]
  BY <1>7, <1>9, <1>12 DEF Standing
<1> DEFINE place == NextBase
<1>14. /\ Running /\ place \in Nat
       /\ place = Top.base + DepthAfter(Instr, Height) - 1
       /\ Instr.op \notin {"return", "throw", "jump", "break", "continue"}
  BY <1>1, NextPlace
<1>15. Nested(f, place, g) /\ g \in GenIds \cup {NoGen}
  BY <1>10
<1> HIDE DEF place, s
<1> QED
  BY <1>2, <1>7, <1>11, <1>12, <1>13, <1>14, <1>15, NestedFits

-----------------------------------------------------------------------------
(* The return of an activation keeps to the depths.                        *)

LEMMA LoopReturnsFit ==
  ASSUME ExecInv, Level, LoopReturns, ~Failed
  PROVE  Level'
<1> DEFINE l == loops[Len(loops)]
           ms == SubSeq(loops, 1, Len(loops) - 1)
           n == Len(frames)
           f == frames[n]
<1>1. /\ result.type \notin {"none", "failure"} /\ Len(loops) > 1 /\ loops' = ms
      /\ gens' = Settled(l) /\ UNCHANGED prog
  BY DEF LoopReturns, Failed
<1>2. /\ frames \in Seq(Frame) /\ stack \in Seq(Value) /\ loops \in Seq(Loop)
      /\ gens \in [GenIds -> Generator] /\ prog \in Programs
      /\ result \in Completion \cup {NoResult, Failure}
      /\ result.type \in {"none", "normal", "throw", "failure"}
      /\ Fits(prog, frames, loops) /\ \A x \in GenIds : SavedFit(prog, gens[x])
  BY DEF ExecInv, TypeOK, Level
<1>3. /\ Len(loops) \in Nat /\ ms \in Seq(Loop) /\ Len(ms) = Len(loops) - 1
      /\ \A k \in 1 .. Len(loops) - 1 : ms[k] = loops[k]
      /\ Len(loops) \in 2 .. Len(loops)
  <2>1. Len(loops) - 1 \in Nat /\ Len(loops) - 1 <= Len(loops) /\ Len(loops) \in Nat
        /\ Len(loops) \in 2 .. Len(loops)
    BY <1>1, <1>2
  <2> QED
    BY <1>2, <2>1, Prefix
<1>4. Nests(frames, stack, loops, FALSE)
  <2>1. ~Ended
    BY <1>1, <1>2 DEF Ended
  <2> QED
    BY <1>1, <2>1 DEF ExecInv, StackDiscipline
<1>5. /\ ms # <<>> /\ Nests(frames, stack, ms, TRUE)
      /\ frames # <<>> /\ n = l.boundary /\ l.opbase <= Len(stack)
  BY <1>1, <1>2, <1>4, NestsResumed
<1> HIDE DEF ms
<1>6. n \in Nat /\ n \in 1 .. n
  BY <1>2, <1>5
<1>7. \A k \in 2 .. Len(ms) : k \in 2 .. Len(loops) /\ ms[k] = loops[k]
  <2>1. \A k \in 2 .. Len(ms) : k \in 2 .. Len(loops) /\ k \in 1 .. Len(loops) - 1
    BY <1>3
  <2> QED
    BY <1>3, <2>1
<1>8. Fits(prog, frames, ms)
  <2>1. CallersFit(prog, frames, ms)
    <3> SUFFICES ASSUME NEW i \in 1 .. Len(frames) - 1,
                        \A k \in 2 .. Len(ms) : ms[k].boundary # i
                 PROVE  /\ Standing(prog, frames[i])
                        /\ frames[i + 1].base = Owed(prog, frames[i])
      BY DEF CallersFit
    <3>1. \A k \in 2 .. Len(loops) : loops[k].boundary # i
      <4>1. l.boundary # i
        BY <1>5, <1>6
      <4>2. \A k \in 2 .. Len(loops) : k \in 2 .. Len(ms) \/ k = Len(loops)
        BY <1>3
      <4> QED
        BY <1>7, <4>1, <4>2
    <3> QED
      BY <1>2, <3>1 DEF Fits, CallersFit
  <2>2. NativesFit(prog, frames, ms)
    BY <1>2, <1>7 DEF Fits, NativesFit
  <2> QED
    BY <1>2, <2>1, <2>2 DEF Fits
<1>9. RoutedFits(ms)
  <2>1. CASE result.type = "normal"
    <3> DEFINE v == Delivered(l)
               o == l.opbase
               cut == SubSeq(stack, 1, o)
               tt == Append(cut, v)
    <3>1. stack' = tt /\ frames' = frames
      BY <2>1 DEF LoopReturns, Resize
    <3>2. Standing(prog, f) /\ o = Owed(prog, f)
      BY <1>2, <1>3, <1>5, <1>6 DEF Fits, NativesFit
    <3>3. o \in Nat /\ o <= Len(stack)
      <4>1. l \in Loop
        BY <1>2, <1>3, ElementOfSeq
      <4> QED
        BY <1>5, <4>1 DEF Loop
    <3>4. Len(tt) = o + 1
      <4> HIDE DEF o, v
      <4> QED
        BY <1>2, <3>3, CutLength
    <3>5. f.base \in Nat /\ prog[f.chunk].depth[f.pc] \in Nat
      <4>1. f \in Frame
        BY <1>2, <1>6, ElementOfSeq
      <4>2. f.chunk \in Names /\ f.base \in Nat
        BY <4>1 DEF Frame
      <4>3. Sound(prog[f.chunk], prog[f.chunk].depth)
        BY <1>2, <4>2, ChunksSound
      <4> QED
        BY <3>2, <4>2, <4>3 DEF Sound, Standing
    <3> DEFINE x == f.base
               y == prog[f.chunk].depth[f.pc]
    <3>6. o = x + y - 1 /\ x \in Nat /\ y \in Nat
      BY <3>2, <3>5 DEF Owed
    <3> HIDE DEF tt, x, y, o
    <3>7. Len(tt) = x + y
      BY <3>3, <3>4, <3>6
    <3>8. TopFits(prog, frames, tt)
      BY <1>5, <3>2, <3>7 DEF TopFits, x, y
    <3> QED
      BY <1>8, <3>1, <3>8 DEF RoutedFits
  <2>2. CASE result.type = "throw"
    <3> DEFINE none == <<>>
    <3>1. PropagateThrow(result, frames, Top.last, ms[Len(ms)].boundary, none)
      BY <2>2 DEF LoopReturns, ms
    <3>2. result \in Completion
      BY <1>2, <2>2 DEF NoResult, Failure
    <3> QED
      BY <1>2, <1>3, <1>5, <1>8, <2>2, <3>1, <3>2, ThrowFits
  <2> QED
    BY <1>1, <1>2, <2>1, <2>2
<1>10. \A x \in GenIds : SavedFit(prog, gens'[x])
  <2>1. \/ gens' = [gens EXCEPT ![l.gen].state = "completed"]
        \/ gens' = gens
    BY <1>1 DEF Settled
  <2>2. CASE gens' = gens
    BY <1>2, <2>2
  <2>3. CASE gens' = [gens EXCEPT ![l.gen].state = "completed"]
    <3> DEFINE g == l.gen
    <3>1. gens' = [gens EXCEPT ![g].state = "completed"]
      BY <2>3
    <3> HIDE DEF g
    <3> QED
      BY <1>2, <3>1, StateChangedFits
  <2> QED
    BY <2>1, <2>2, <2>3
<1>11. /\ Fits(prog', frames', loops')
       /\ result'.type = "none" => TopFits(prog', frames', stack')
  BY <1>1, <1>9 DEF RoutedFits
<1>12. \A x \in GenIds : SavedFit(prog', gens'[x])
  BY <1>1, <1>10
<1> QED
  BY <1>11, <1>12 DEF Level

-----------------------------------------------------------------------------
(* The invariant holds.                                                    *)

LEMMA LevelStays ==
  ASSUME ExecInv, Rooted, Level, Next, ~LeavesOperand, ~Failed'
  PROVE  Level'
<1>0. ~Failed
  BY FailureStays
<1>1. CASE Halted
  BY <1>1 DEF Halted, vars, Level
<1>2. CASE Push \/ PushInput \/ Pop \/ GetLocal \/ Observe
            \/ IteratorComplete \/ IteratorValue
  BY <1>2, StraightActionsFit
<1>3. CASE SetLocal \/ Jump \/ JumpIfFalse
  BY <1>3, FrameActionsFit
<1>4. CASE Operate \/ CopyObjectRest \/ GetIterator
  BY <1>4, ThrowingActionsFit
<1>5. CASE BreakOrContinue \/ ThrowOp \/ CallThrows
  BY <1>5, AbruptActionsFit
<1>6. CASE EndFinally
  BY <1>6, EndFinallyFits
<1>7. CASE ReturnOp
  BY <1>7, ReturnOpFits
<1>8. CASE Yield
  BY <1>8, YieldFits
<1>9. CASE CallFunction \/ ConstructFunction
  BY <1>9, CallActionsFit
<1>10. CASE CallAborts \/ NextExecuting \/ Underflow
  <2>1. Fail
    BY <1>10 DEF CallAborts, NextExecuting, Underflow
  <2> QED
    BY <2>1 DEF Fail, Failed, Failure
<1>11. CASE CallGenerator
  BY <1>11, CallGeneratorFits
<1>12. CASE NextCompleted
  BY <1>12, NextCompletedFits
<1>13. CASE CallApply \/ GetProperty
  BY <1>13, NativeActionsFit
<1>14. CASE ResumeGenerator
  BY <1>14, ResumeFits
<1>15. CASE LoopReturns
  BY <1>0, <1>15, LoopReturnsFit
<1>16. CASE HostReturns
  <2>1. /\ UNCHANGED <<prog, frames, stack, gens, result>> /\ loops' = <<>>
        /\ result.type # "none" /\ Len(loops) = 1
    BY <1>16 DEF HostReturns
  <2>2. loops # <<>> /\ loops[1].boundary = 0
    BY <2>1 DEF Rooted, Ended
  <2>3. Nests(frames, stack, loops, FALSE)
    <3>1. ~Ended
      BY <2>2 DEF Ended
    <3> QED
      BY <1>0, <2>1, <3>1 DEF ExecInv, StackDiscipline
  <2>4. Len(frames) = 0
    BY <2>1, <2>2, <2>3 DEF Nests
  <2>5. Fits(prog, frames, <<>>)
    BY <2>4 DEF Fits, CallersFit, NativesFit
  <2> QED
    BY <2>1, <2>5 DEF Level
<1> QED
  BY <1>1, <1>2, <1>3, <1>4, <1>5, <1>6, <1>7, <1>8, <1>9, <1>10, <1>11,
     <1>12, <1>13, <1>14, <1>15, <1>16 DEF Next

LEMMA ProgramStays ==
  ASSUME Next
  PROVE  UNCHANGED prog
<1>1. CASE Push \/ PushInput \/ Pop \/ GetLocal \/ SetLocal \/ Observe
            \/ Operate \/ CopyObjectRest \/ GetIterator \/ IteratorComplete
            \/ IteratorValue \/ Jump \/ JumpIfFalse
  BY <1>1 DEF Push, PushInput, Pop, GetLocal, SetLocal, Observe, Operate,
       CopyObjectRest, GetIterator, IteratorComplete, IteratorValue, Jump,
       JumpIfFalse, Straight
<1>2. CASE BreakOrContinue \/ ThrowOp \/ EndFinally \/ ReturnOp \/ Yield
            \/ CallFunction \/ ConstructFunction \/ CallThrows \/ CallAborts
  BY <1>2 DEF BreakOrContinue, ThrowOp, EndFinally, ReturnOp, Yield,
       CallFunction, ConstructFunction, CallThrows, CallAborts, PushFrame
<1>3. CASE CallGenerator \/ CallApply \/ GetProperty \/ ResumeGenerator
            \/ NextCompleted \/ NextExecuting \/ Underflow \/ LoopReturns
            \/ HostReturns \/ Halted
  BY <1>3 DEF CallGenerator, CallApply, GetProperty, ResumeGenerator,
       NextCompleted, NextExecuting, Underflow, LoopReturns, HostReturns,
       Halted, vars, Straight
<1> QED
  BY <1>1, <1>2, <1>3 DEF Next

\* An instruction leaves the activations as they are, or adds one.
LEMMA LoopsGrow ==
  ASSUME ExecInv, Next, ~LoopReturns, ~HostReturns, ~Halted
  PROVE  /\ loops # <<>>
         /\ loops' = loops \/ \E l \in Loop : loops' = Append(loops, l)
<1>1. ASSUME NEW op, On(op) PROVE loops # <<>>
  BY <1>1, Fetched DEF Running
<1>2. CASE Push \/ PushInput \/ Pop \/ GetLocal \/ SetLocal \/ Observe
            \/ Operate \/ CopyObjectRest \/ GetIterator \/ IteratorComplete
            \/ IteratorValue \/ Jump \/ JumpIfFalse
  BY <1>1, <1>2 DEF Push, PushInput, Pop, GetLocal, SetLocal, Observe, Operate,
       CopyObjectRest, GetIterator, IteratorComplete, IteratorValue, Jump,
       JumpIfFalse, Straight
<1>3. CASE BreakOrContinue \/ ThrowOp \/ EndFinally \/ ReturnOp \/ Yield
            \/ CallFunction \/ ConstructFunction \/ CallThrows \/ CallAborts
            \/ CallGenerator
  BY <1>1, <1>3 DEF BreakOrContinue, ThrowOp, EndFinally, ReturnOp, Yield,
       CallFunction, ConstructFunction, CallThrows, CallAborts, PushFrame,
       CallGenerator
<1>4. ASSUME NEW f, NEW opbase \in Nat, NEW g \in GenIds \cup {NoGen},
             Nested(f, opbase, g)
      PROVE  \E l \in Loop : loops' = Append(loops, l)
  <2> DEFINE l == [boundary |-> Len(frames), opbase |-> opbase, gen |-> g]
  <2>1. Len(frames) \in Nat
    BY DEF ExecInv, TypeOK
  <2>2. l \in Loop
    BY <2>1 DEF Loop
  <2>3. loops' = Append(loops, l)
    BY <1>4 DEF Nested
  <2> QED
    BY <2>2, <2>3
<1>5. NoGen \in GenIds \cup {NoGen}
  OBVIOUS
<1>6. CASE CallApply
  <2>1. On("call") /\ \E f : Nested(f, OpBase, NoGen)
    BY <1>6 DEF CallApply
  <2>2. OpBase \in Nat
    BY <2>1, Operands DEF OpBase, Argc
  <2> QED
    BY <1>1, <1>4, <1>5, <2>1, <2>2
<1>7. CASE GetProperty
  <2>1. On("get_property") /\ \E f : Nested(f, Len(stack) - 1, NoGen)
    BY <1>7 DEF GetProperty
  <2>2. Len(stack) - 1 \in Nat
    BY <2>1, Operands
  <2> QED
    BY <1>1, <1>4, <1>5, <2>1, <2>2
<1>8. CASE ResumeGenerator
  <2>1. PICK g \in GenIds : NextOf(g) /\ \E f : Nested(f, NextBase, g)
    BY <1>8 DEF ResumeGenerator
  <2>2. NextBase \in Nat /\ loops # <<>>
    BY <2>1, NextOperands DEF Running
  <2> QED
    BY <1>4, <2>1, <2>2
<1>9. CASE NextCompleted \/ NextExecuting
  <2>1. PICK g \in GenIds : NextOf(g)
    BY <1>9 DEF NextCompleted, NextExecuting
  <2>2. loops # <<>>
    BY <2>1, NextOperands DEF Running
  <2> QED
    BY <1>9, <2>2 DEF NextCompleted, NextExecuting, Straight
<1>10. CASE Underflow
  BY <1>10 DEF Underflow, Running
<1> QED
  BY <1>2, <1>3, <1>6, <1>7, <1>8, <1>9, <1>10 DEF Next

LEMMA RootedStays ==
  ASSUME ExecInv, Rooted, Next
  PROVE  Rooted'
<1>1. loops \in Seq(Loop)
  BY DEF ExecInv, TypeOK
<1>2. CASE Halted
  BY <1>2 DEF Halted, vars, Rooted, Ended, Failed
<1>3. CASE LoopReturns
  <2>1. Len(loops) > 1 /\ loops' = SubSeq(loops, 1, Len(loops) - 1) /\ Len(loops) \in Nat
    BY <1>1, <1>3 DEF LoopReturns
  <2> DEFINE m == Len(loops) - 1
  <2>2. m \in Nat /\ m <= Len(loops) /\ 1 \in 1 .. m
    BY <2>1
  <2>3. loops' = SubSeq(loops, 1, m)
    BY <2>1
  <2> HIDE DEF m
  <2>4. Len(loops') = m /\ loops'[1] = loops[1]
    BY <1>1, <2>2, <2>3, Prefix
  <2>5. loops # <<>> /\ loops' # <<>>
    <3>1. Len(loops) # Len(<<>>) /\ Len(loops') # Len(<<>>)
      BY <2>1, <2>2, <2>4
    <3> QED
      BY <3>1
  <2> QED
    BY <2>4, <2>5 DEF Rooted, Ended
<1>4. CASE HostReturns
  <2>1. /\ loops' = <<>> /\ UNCHANGED <<frames, result>> /\ result.type # "none"
        /\ Len(loops) = 1
    BY <1>4 DEF HostReturns
  <2>2. loops # <<>> /\ loops[1].boundary = 0
    BY <2>1 DEF Rooted, Ended
  <2>3. CASE Failed
    BY <2>1, <2>3 DEF Rooted, Ended, Failed
  <2>4. CASE ~Failed
    <3>1. Nests(frames, stack, loops, FALSE)
      BY <2>1, <2>2, <2>4 DEF ExecInv, StackDiscipline, Ended
    <3>2. Len(frames) = 0 /\ frames \in Seq(Frame)
      BY <2>1, <2>2, <3>1 DEF Nests, ExecInv, TypeOK
    <3>3. frames = <<>>
      BY <3>2
    <3> QED
      BY <2>1, <3>3 DEF Rooted, Ended
  <2> QED
    BY <2>3, <2>4
<1>5. CASE ~LoopReturns /\ ~HostReturns /\ ~Halted
  <2>1. /\ loops # <<>>
        /\ loops' = loops \/ \E l \in Loop : loops' = Append(loops, l)
    BY <1>5, LoopsGrow
  <2>2. CASE loops' = loops
    BY <2>1, <2>2 DEF Rooted, Ended
  <2>3. ASSUME NEW l \in Loop, loops' = Append(loops, l)
        PROVE  Rooted'
    <3>1. Len(loops) \in Nat /\ 1 \in 1 .. Len(loops)
      BY <1>1, <2>1
    <3>2. Len(loops') = Len(loops) + 1 /\ loops'[1] = loops[1]
      BY <1>1, <2>3, <3>1, AppendProperties
    <3>3. loops' # <<>>
      <4>1. Len(loops') # Len(<<>>)
        BY <3>1, <3>2
      <4> QED
        BY <4>1
    <3> QED
      BY <2>1, <3>2, <3>3 DEF Rooted, Ended
  <2> QED
    BY <2>1, <2>2, <2>3
<1> QED
  BY <1>2, <1>3, <1>4, <1>5

LEMMA HeightStays ==
  ASSUME ExecInv, HeightInv, [Next]_vars
  PROVE  HeightInv'
<1>1. CASE UNCHANGED vars
  BY <1>1 DEF vars, HeightInv, Rooted, Ended, Failed, LeavesOperand, Level
<1>2. CASE Next
  <2>1. Rooted'
    BY <1>2, RootedStays DEF HeightInv
  <2>2. LeavesOperand' <=> LeavesOperand
    BY <1>2, ProgramStays DEF LeavesOperand
  <2>3. ASSUME ~Failed', ~LeavesOperand PROVE Level'
    <3>1. ~Failed
      BY <1>2, <2>3, FailureStays
    <3> QED
      BY <1>2, <2>3, <3>1, LevelStays DEF HeightInv
  <2> QED
    BY <2>1, <2>2, <2>3 DEF HeightInv
<1> QED
  BY <1>1, <1>2

LEMMA InitHeight ==
  ASSUME Init
  PROVE  HeightInv
<1> DEFINE f == NewFrame("main", 0, NoReceiver)
           a == [boundary |-> 0, opbase |-> 0, gen |-> NoGen]
<1>1. /\ prog \in Programs /\ frames = <<f>> /\ stack = <<>>
      /\ loops = <<a>> /\ gens = [g \in GenIds |-> NoGenerator]
      /\ a.boundary = 0
  BY DEF Init
<1>2. /\ f \in Frame /\ f.base = 0 /\ f.pending = <<>>
      /\ Standing(prog, f) /\ prog[f.chunk].depth[f.pc] = 0
  BY <1>1, NewFrameFits, ConstantsTyped, OwnValues
<1> HIDE DEF f, a
<1>3. /\ Len(frames) = 1 /\ frames[1] = f /\ frames # <<>>
      /\ Len(loops) = 1 /\ loops[1] = a /\ Len(stack) = 0
  BY <1>1
<1>4. Rooted
  BY <1>1, <1>3 DEF Rooted, Ended
<1>5. CallersFit(prog, frames, loops) /\ NativesFit(prog, frames, loops)
  BY <1>3 DEF CallersFit, NativesFit
<1>6. \A i \in 1 .. Len(frames) : JumpsWait(prog, frames[i])
  <2>1. Len(f.pending) = 0
    BY <1>2
  <2>2. JumpsWait(prog, f)
    BY <2>1 DEF JumpsWait
  <2> QED
    BY <1>3, <2>2
<1>7. \A g \in GenIds : SavedFit(prog, gens[g])
  <2>1. SavedFit(prog, NoGenerator)
    BY DEF SavedFit, NoGenerator
  <2> QED
    BY <1>1, <2>1
<1>8. TopFits(prog, frames, stack)
  BY <1>2, <1>3 DEF TopFits
<1> QED
  BY <1>4, <1>5, <1>6, <1>7, <1>8 DEF HeightInv, Level, Fits

LEMMA HeightInvariance == Spec => [](ExecInv /\ HeightInv)
<1>1. Init => HeightInv
  BY InitHeight
<1>2. ExecInv /\ HeightInv /\ [Next]_vars => HeightInv'
  BY HeightStays
<1> QED
  BY <1>1, <1>2, Invariance, PTL DEF Spec

-----------------------------------------------------------------------------
(* The theorems.                                                           *)

\* The running frame sees exactly the operands the verifier promised for the
\* instruction it comes to, through every call, throw, finalizer, yield and
\* resumption, in every program that does not leave an operand of an object
\* rest behind (verifier.cpp, verify; vm.cpp, execute_loop).
THEOREM HeightsMatch == Spec => [](~LeavesOperand => HeightMatchesVerifier)
<1>1. ExecInv /\ HeightInv => (~LeavesOperand => HeightMatchesVerifier)
  <2> SUFFICES ASSUME ExecInv, HeightInv, ~LeavesOperand, Running
               PROVE  Top.pc \in DOMAIN DepthOf(Top) /\ Height = AtDepth(Top)
    BY DEF HeightMatchesVerifier
  <2>1. Level
    BY DEF HeightInv, Running, Failed
  <2> QED
    BY <2>1, AtInstruction
<1> QED
  BY <1>1, HeightInvariance, PTL

\* Every instruction of such a program finds the operands it requires, and
\* RETURN exactly one: the checks of the operand count in execute_loop never
\* fail (verifier.cpp, required_operands; vm.cpp, execute_loop).
THEOREM OperandsAreThere ==
  Spec => [](Running /\ ~LeavesOperand =>
               /\ Required(Instr) <= Height
               /\ Instr.op = "return" => Height = 1)
<1> DEFINE There == Running /\ ~LeavesOperand =>
                      /\ Required(Instr) <= Height
                      /\ Instr.op = "return" => Height = 1
<1>1. ExecInv /\ HeightInv => There
  <2> SUFFICES ASSUME ExecInv, HeightInv, ~LeavesOperand, Running
               PROVE  /\ Required(Instr) <= Height
                      /\ Instr.op = "return" => Height = 1
    OBVIOUS
  <2>1. Level
    BY DEF HeightInv, Running, Failed
  <2>2. Required(Instr) <= Height
    BY <2>1, AtInstruction
  <2>3. ASSUME Instr.op = "return" PROVE Height = 1
    <3> DEFINE c == prog[Top.chunk]
    <3>1. /\ Top.chunk \in Names /\ prog \in Programs /\ Top.pc \in DOMAIN c.depth
          /\ Height = c.depth[Top.pc] /\ Instr = c.code[Top.pc]
      BY <2>1, AtInstruction DEF ExecInv, DepthOf, AtDepth, Chunk, Instr
    <3>2. Sound(c, c.depth)
      BY <3>1, ChunksSound
    <3> HIDE DEF c
    <3> QED
      BY <2>3, <3>1, <3>2 DEF Sound
  <2> QED
    BY <2>2, <2>3
<1> QED
  BY <1>1, HeightInvariance, PTL

\* Every suspended caller keeps its operands: the callee starts where the
\* result will go, and native code gives the stack back at that place
\* (vm.cpp, invoke_function, operand_base).
THEOREM CallersAreKept == Spec => []CallersKeepOperands
<1>1. ExecInv /\ HeightInv => CallersKeepOperands
  <2> SUFFICES ASSUME ExecInv, HeightInv, ~Failed, ~LeavesOperand
               PROVE  /\ \A i \in 1 .. Len(frames) - 1 :
                           ~IsBoundary(i) =>
                             frames[i + 1].base = frames[i].base + AtDepth(frames[i]) - 1
                      /\ \A k \in 2 .. Len(loops) :
                           loops[k].boundary \in 1 .. Len(frames) - 1 =>
                             loops[k].opbase = frames[loops[k].boundary].base
                                  + AtDepth(frames[loops[k].boundary]) - 1
    BY DEF CallersKeepOperands
  <2>1. CallersFit(prog, frames, loops) /\ NativesFit(prog, frames, loops)
    BY DEF HeightInv, Level, Fits
  <2>2. \A f : Owed(prog, f) = f.base + AtDepth(f) - 1
    BY DEF Owed, AtDepth, DepthOf, Chunk
  <2>3. ASSUME NEW i \in 1 .. Len(frames) - 1, ~IsBoundary(i)
        PROVE  frames[i + 1].base = frames[i].base + AtDepth(frames[i]) - 1
    <3>1. \A k \in 2 .. Len(loops) : loops[k].boundary # i
      BY <2>3 DEF IsBoundary
    <3>2. frames[i + 1].base = Owed(prog, frames[i])
      BY <2>1, <3>1 DEF CallersFit
    <3> QED
      BY <2>2, <3>2
  <2>4. ASSUME NEW k \in 2 .. Len(loops), loops[k].boundary \in 1 .. Len(frames) - 1
        PROVE  loops[k].opbase = frames[loops[k].boundary].base
                                   + AtDepth(frames[loops[k].boundary]) - 1
    <3>1. loops[k].boundary \in 1 .. Len(frames)
      <4>1. Len(frames) \in Nat
        BY DEF ExecInv, TypeOK
      <4> QED
        BY <2>4, <4>1
    <3>2. loops[k].opbase = Owed(prog, frames[loops[k].boundary])
      BY <2>1, <3>1 DEF NativesFit
    <3> QED
      BY <2>2, <3>2
  <2> QED
    BY <2>3, <2>4
<1> QED
  BY <1>1, HeightInvariance, PTL

-----------------------------------------------------------------------------
(* Saved completions: the invariant.                                       *)

\* Position pc lies in the finalizer each completion of f waits for, and at
\* most one waits.
Inside(p, f, pc) ==
  \A k \in 1 .. Len(f.pending) : \E h \in DOMAIN p[f.chunk].handlers :
    /\ p[f.chunk].handlers[h].finally_start = f.pending[k].finally_start
    /\ InFinally(p[f.chunk].handlers[h], pc)
Holds(p, f, pc) == Len(f.pending) <= 1 /\ Inside(p, f, pc)

\* A suspended frame holds its completion at the call and where it goes on,
\* the running one at the instruction it comes to.
Suspended(p, f) == Holds(p, f, f.pc) /\ Holds(p, f, f.last)
Under(p, fs) == \A i \in 1 .. Len(fs) - 1 : Suspended(p, fs[i])
Tidy(p, fs, running) ==
  \A i \in 1 .. Len(fs) :
    IF i = Len(fs) /\ running THEN Holds(p, fs[i], fs[i].pc) ELSE Suspended(p, fs[i])

FinalizerInv ==
  IF Failed THEN \A i \in 1 .. Len(frames) : Holds(prog, frames[i], frames[i].last)
  ELSE Tidy(prog, frames, result.type = "none")

-----------------------------------------------------------------------------
(* Frames that hold their completion.                                      *)

LEMMA NothingHeld ==
  ASSUME NEW p, NEW f, f.pending = <<>>, NEW pc
  PROVE  Holds(p, f, pc)
<1>1. Len(f.pending) = 0
  OBVIOUS
<1> QED
  BY <1>1 DEF Holds, Inside

LEMMA HeldAlike ==
  ASSUME NEW p, NEW f, NEW g, g.chunk = f.chunk, g.pending = f.pending,
         NEW pc, Holds(p, f, pc)
  PROVE  Holds(p, g, pc)
BY DEF Holds, Inside

\* A finalizer belongs to one handler, and is one if it starts somewhere.
LEMMA FinalizersAreOwned ==
  ASSUME prog \in Programs, NEW f \in Frame, NEW h \in DOMAIN Chunk(f).handlers
  PROVE  LET hd == Chunk(f).handlers[h]
         IN  /\ hd.finally_start # NoTarget =>
                  /\ InFinally(hd, hd.finally_start)
                  /\ \A k \in DOMAIN Chunk(f).handlers :
                       Chunk(f).handlers[k].finally_start = hd.finally_start => k = h
             /\ \A pc : InFinally(hd, pc) => hd.finally_start # NoTarget
<1> DEFINE c == prog[f.chunk]
           hd == c.handlers[h]
<1>1. f.chunk \in Names /\ Chunk(f) = c
  BY DEF Frame, Chunk
<1>2. Structured(c) /\ verify(c)
  BY <1>1, ChunksSound
<1>3. hd \in ExceptionHandler
  BY <1>1, HandlersTyped
<1> HIDE DEF c
<1>4. ValidHandler(hd, Len(c.code))
  BY <1>1, <1>2 DEF verify
<1>5. hd.finally_start \in Nat /\ hd.finally_end \in Nat
  BY <1>3 DEF ExceptionHandler
<1> HIDE DEF hd
<1>6. hd.finally_start # NoTarget => InFinally(hd, hd.finally_start)
  BY <1>4, <1>5 DEF ValidHandler, InFinally, In
<1>7. \A pc : InFinally(hd, pc) => hd.finally_start # NoTarget
  BY <1>4, <1>5 DEF ValidHandler, InFinally
<1>8. \A k \in DOMAIN c.handlers :
        c.handlers[k].finally_start = hd.finally_start /\ hd.finally_start # NoTarget
          => k = h
  BY <1>1, <1>2 DEF Structured, hd
<1> QED
  BY <1>1, <1>6, <1>7, <1>8 DEF hd

\* A completion raised inside the finalizer overrides the one it holds.
LEMMA HeldIsDiscarded ==
  ASSUME prog \in Programs, NEW f \in Frame, NEW pc, Holds(prog, f, pc)
  PROVE  /\ Discarded(f, pc) \in Frame /\ Discarded(f, pc).chunk = f.chunk
         /\ Discarded(f, pc).pending = <<>>
<1> DEFINE hs == Chunk(f).handlers
           q == f.pending
<1>1. q \in Seq(PendingFinally)
  BY DEF Frame
<1>2. ASSUME NEW k \in DOMAIN q PROVE Overridden(hs, q[k].finally_start, pc)
  <2>1. k \in 1 .. Len(f.pending)
    BY <1>1
  <2>2. PICK h \in DOMAIN prog[f.chunk].handlers :
               /\ prog[f.chunk].handlers[h].finally_start = f.pending[k].finally_start
               /\ InFinally(prog[f.chunk].handlers[h], pc)
    BY <2>1 DEF Holds, Inside
  <2>3. /\ h \in DOMAIN hs /\ hs[h].finally_start = q[k].finally_start
        /\ InFinally(hs[h], pc)
    BY <2>2 DEF Chunk
  <2>4. \A j \in DOMAIN hs : hs[j].finally_start = hs[h].finally_start => j = h
    BY <2>3, FinalizersAreOwned
  <2>5. h \in Nat
    <3>1. hs \in Seq(ExceptionHandler)
      BY HandlersTyped
    <3> QED
      BY <2>3, <3>1
  <2> HIDE DEF hs, q
  <2>6. \A j \in DOMAIN hs : hs[j].finally_start = q[k].finally_start => h <= j
    BY <2>3, <2>4, <2>5
  <2> QED
    BY <2>3, <2>6 DEF Overridden
<1>3. {k \in DOMAIN q : ~Overridden(hs, q[k].finally_start, pc)} = {}
  BY <1>2
<1>4. discard_overridden(hs, q, pc) = SubSeq(q, 1, 0)
  BY <1>3 DEF discard_overridden
<1>5. SubSeq(q, 1, 0) = <<>>
  <2>1. SubSeq(q, 1, 0) \in Seq(PendingFinally) /\ Len(SubSeq(q, 1, 0)) = 0
    BY <1>1, Prefix
  <2> QED
    BY <2>1
<1>6. Discarded(f, pc).pending = discard_overridden(hs, q, pc)
  BY DEF Discarded, Frame
<1> QED
  BY <1>4, <1>5, <1>6, DiscardedTyped

\* The completion saved for a finalizer is held at its first instruction.
LEMMA FinalizerHolds ==
  ASSUME prog \in Programs, NEW f \in Frame, f.pending = <<>>, NEW c \in Completion,
         NEW h \in DOMAIN Chunk(f).handlers, Chunk(f).handlers[h].finally_start # NoTarget
  PROVE  LET g == Finalizing(f, Chunk(f).handlers[h], c)
         IN  g \in Frame /\ g.chunk = f.chunk /\ Holds(prog, g, g.pc)
<1> DEFINE hd == Chunk(f).handlers[h]
           g == Finalizing(f, hd, c)
           x == [completion |-> c, finally_start |-> hd.finally_start]
<1>1. hd \in ExceptionHandler
  BY HandlersTyped
<1>2. InFinally(hd, hd.finally_start)
  BY FinalizersAreOwned
<1>3. h \in DOMAIN prog[f.chunk].handlers /\ hd = prog[f.chunk].handlers[h]
  BY DEF Chunk
<1> HIDE DEF hd
<1>4. g \in Frame /\ g.chunk = f.chunk
  BY <1>1, FinalizingTyped
<1>5. g.pc = hd.finally_start /\ g.pending = Append(<<>>, x)
  BY DEF Finalizing, Frame
<1>6. x.finally_start = hd.finally_start
  OBVIOUS
<1> HIDE DEF g, x
<1>7. Len(g.pending) = 1 /\ g.pending[1] = x
  BY <1>5
<1>8. Holds(prog, g, g.pc)
  <2>1. ASSUME NEW k \in 1 .. Len(g.pending)
        PROVE  \E j \in DOMAIN prog[g.chunk].handlers :
                 /\ prog[g.chunk].handlers[j].finally_start = g.pending[k].finally_start
                 /\ InFinally(prog[g.chunk].handlers[j], g.pc)
    <3>1. k = 1
      BY <1>7
    <3> QED
      BY <1>2, <1>3, <1>4, <1>5, <1>6, <1>7, <3>1
  <2> QED
    BY <1>7, <2>1 DEF Holds, Inside
<1> QED
  BY <1>4, <1>8 DEF g, hd

\* Frames above a point are dropped, or one takes their place.
LEMMA DroppedTidy ==
  ASSUME NEW p, NEW fs \in Seq(Frame), Under(p, fs), NEW m \in Nat, m < Len(fs),
         NEW running
  PROVE  Tidy(p, SubSeq(fs, 1, m), running)
<1> DEFINE gs == SubSeq(fs, 1, m)
<1>1. Len(fs) \in Nat
  OBVIOUS
<1>2. Len(gs) = m /\ \A i \in 1 .. m : gs[i] = fs[i]
  BY <1>1, Prefix
<1>3. \A i \in 1 .. m : i \in 1 .. Len(fs) - 1
  BY <1>1
<1> HIDE DEF gs
<1>4. \A i \in 1 .. Len(gs) : Suspended(p, gs[i])
  BY <1>2, <1>3 DEF Under
<1>5. Tidy(p, gs, running)
  BY <1>4 DEF Tidy, Suspended
<1> QED
  BY <1>5 DEF gs

LEMMA LandedTidy ==
  ASSUME NEW p, NEW fs \in Seq(Frame), Under(p, fs), NEW i \in 1 .. Len(fs),
         NEW gs, Len(gs) = i, \A j \in 1 .. i - 1 : gs[j] = fs[j],
         Holds(p, gs[i], gs[i].pc)
  PROVE  Tidy(p, gs, TRUE)
<1>1. Len(fs) \in Nat /\ i \in Nat
  OBVIOUS
<1>2. ASSUME NEW j \in 1 .. Len(gs), j # i PROVE Suspended(p, gs[j])
  <2>1. j \in 1 .. i - 1 /\ j \in 1 .. Len(fs) - 1
    BY <1>1, <1>2
  <2> QED
    BY <2>1 DEF Under
<1> QED
  BY <1>2 DEF Tidy

-----------------------------------------------------------------------------
(* Completions find a frame that holds its own.                            *)

RoutedTidy ==
  result'.type # "failure" /\ Tidy(prog, frames', result'.type = "none")

\* Completion c takes frame i to the catch clause or the finalizer of one of
\* its handlers.
LEMMA HandlerTidy ==
  ASSUME prog \in Programs, NEW fs \in Seq(Frame), Under(prog, fs),
         NEW i \in 1 .. Len(fs), NEW pc, Holds(prog, fs[i], pc),
         NEW c \in Completion, NEW h \in DOMAIN Chunk(fs[i]).handlers,
         NEW g,
         \/ g = [Discarded(fs[i], pc) EXCEPT !.pc = Chunk(fs[i]).handlers[h].catch_start]
         \/ /\ Chunk(fs[i]).handlers[h].finally_start # NoTarget
            /\ g = Finalizing(Discarded(fs[i], pc), Chunk(fs[i]).handlers[h], c)
  PROVE  g \in Frame /\ Holds(prog, g, g.pc)
<1> DEFINE f == Discarded(fs[i], pc)
           hd == Chunk(fs[i]).handlers[h]
<1>1. fs[i] \in Frame
  OBVIOUS
<1>2. f \in Frame /\ f.chunk = fs[i].chunk /\ f.pending = <<>>
  BY <1>1, HeldIsDiscarded
<1>3. hd \in ExceptionHandler
  BY <1>1, HandlersTyped
<1>4. \/ g = [f EXCEPT !.pc = hd.catch_start]
      \/ hd.finally_start # NoTarget /\ g = Finalizing(f, hd, c)
  OBVIOUS
<1>5. Chunk(f).handlers = Chunk(fs[i]).handlers
  BY <1>2 DEF Chunk
<1> HIDE DEF f
<1>6. CASE g = [f EXCEPT !.pc = hd.catch_start]
  <2>1. hd.catch_start \in Nat
    BY <1>3 DEF ExceptionHandler
  <2>2. g \in Frame /\ g.pending = <<>>
    BY <1>2, <1>6, <2>1 DEF Frame
  <2> QED
    BY <2>2, NothingHeld
<1>7. CASE hd.finally_start # NoTarget /\ g = Finalizing(f, hd, c)
  BY <1>2, <1>5, <1>7, FinalizerHolds
<1> QED
  BY <1>4, <1>6, <1>7

\* A throw that leaves the activation, or finds a handler in it; what the
\* instruction still pushes makes no difference.
LEMMA ThrowTidy ==
  ASSUME prog \in Programs, NEW fs \in Seq(Frame), Under(prog, fs), NEW b \in Nat,
         b < Len(fs), NEW c \in Completion, c.type = "throw",
         NEW pc, Holds(prog, fs[Len(fs)], pc), NEW extra, PropagateThrow(c, fs, pc, b, extra)
  PROVE  RoutedTidy
<1> DEFINE PcOf(j) == IF j = Len(fs) THEN pc ELSE fs[j].last
           Found(j) == find_exception_handler(Chunk(fs[j]).handlers, PcOf(j))
           handling == {j \in b + 1 .. Len(fs) : Found(j) # 0}
           i == CHOOSE k \in handling : \A j \in handling : j <= k
           h == Chunk(fs[i]).handlers[Found(i)]
           f == Discarded(fs[i], PcOf(i))
<1>1. \/ handling = {} /\ frames' = SubSeq(fs, 1, b) /\ result' = c
      \/ /\ handling # {} /\ CatchesAt(h, PcOf(i))
         /\ frames' = Append(SubSeq(fs, 1, i - 1), [f EXCEPT !.pc = h.catch_start])
         /\ result' = NoResult
      \/ /\ handling # {} /\ ~CatchesAt(h, PcOf(i))
         /\ frames' = Append(SubSeq(fs, 1, i - 1), Finalizing(f, h, c))
         /\ result' = NoResult
  BY DEF PropagateThrow
<1> HIDE DEF i
<1>2. CASE handling = {}
  <2>1. frames' = SubSeq(fs, 1, b) /\ result'.type = "throw"
    BY <1>1, <1>2
  <2> QED
    BY <2>1, DroppedTidy DEF RoutedTidy
<1>3. CASE handling # {}
  <2>1. i \in handling
    <3>1. handling \in SUBSET (0 .. Len(fs)) /\ Len(fs) \in Nat
      OBVIOUS
    <3>2. \E k \in handling : \A j \in handling : j <= k
      BY <1>3, <3>1, GreatestUpTo
    <3> QED
      BY <3>2 DEF i
  <2>2. i \in 1 .. Len(fs) /\ Found(i) # 0 /\ fs[i] \in Frame
    BY <2>1
  <2> DEFINE k == Found(i)
             at == PcOf(i)
  <2>3. /\ k \in DOMAIN Chunk(fs[i]).handlers
        /\ CatchesAt(h, at) \/ FinalizesThrowAt(h, at)
    BY <2>2, HandlersTyped, ExceptionHandlerCovers
  <2>4. Holds(prog, fs[i], at)
    <3>1. CASE i = Len(fs)
      BY <3>1
    <3>2. CASE i # Len(fs)
      <4>1. i \in 1 .. Len(fs) - 1
        BY <2>2, <3>2
      <4> QED
        BY <3>2, <4>1 DEF Under, Suspended
    <3> QED
      BY <3>1, <3>2
  <2> DEFINE g == IF CatchesAt(h, at) THEN [f EXCEPT !.pc = h.catch_start]
                  ELSE Finalizing(f, h, c)
  <2>5. frames' = Append(SubSeq(fs, 1, i - 1), g) /\ result' = NoResult
    BY <1>1, <1>3
  <2>6. ~CatchesAt(h, at) => h.finally_start # NoTarget
    BY <2>3 DEF FinalizesThrowAt
  <2> HIDE DEF k, at
  <2>7. g \in Frame /\ Holds(prog, g, g.pc)
    BY <2>2, <2>3, <2>4, <2>6, HandlerTidy DEF k, at
  <2> HIDE DEF g
  <2> DEFINE gs == Append(SubSeq(fs, 1, i - 1), g)
  <2>8. Len(gs) = i /\ gs[i] = g /\ \A j \in 1 .. i - 1 : gs[j] = fs[j]
    BY <2>2, <2>7, Replaced
  <2> HIDE DEF gs
  <2>9. Tidy(prog, gs, TRUE)
    BY <2>2, <2>7, <2>8, LandedTidy
  <2>10. frames' = gs /\ result'.type = "none"
    BY <2>5 DEF gs, NoResult
  <2> QED
    BY <2>9, <2>10 DEF RoutedTidy
<1> QED
  BY <1>2, <1>3

\* The top frame changed.
LEMMA TopTidy ==
  ASSUME prog \in Programs, NEW fs \in Seq(Frame), Under(prog, fs),
         Len(fs) \in 1 .. Len(fs), NEW g \in Frame, Holds(prog, g, g.pc),
         result'.type = "none", frames' = [fs EXCEPT ![Len(fs)] = g]
  PROVE  RoutedTidy
<1> DEFINE gs == [fs EXCEPT ![Len(fs)] = g]
<1>1. /\ Len(gs) = Len(fs) /\ gs[Len(fs)] = g
      /\ \A j \in 1 .. Len(fs) - 1 : gs[j] = fs[j]
  BY ExceptSeq
<1> HIDE DEF gs
<1>2. Tidy(prog, gs, TRUE)
  BY <1>1, LandedTidy
<1> QED
  BY <1>2 DEF RoutedTidy, gs

\* A return and a jump, to a finalizer or out of the frame.
LEMMA ReturnTidy ==
  ASSUME prog \in Programs, NEW fs \in Seq(Frame), Under(prog, fs),
         Len(fs) \in 1 .. Len(fs), NEW c \in Completion, result.type = "none",
         NEW pc, Holds(prog, fs[Len(fs)], pc), PropagateReturn(c, fs, pc)
  PROVE  RoutedTidy
<1> DEFINE n == Len(fs)
           f == Discarded(fs[n], pc)
           hs == Chunk(f).handlers
           h == find_finally_handler(hs, pc)
           g == Finalizing(f, hs[h], c)
<1>1. \/ h # 0 /\ frames' = [fs EXCEPT ![n] = g] /\ result' = result
      \/ /\ frames' = SubSeq(fs, 1, n - 1)
         /\ result' = result \/ \E v : result' = Normal(v)
  BY DEF PropagateReturn
<1>2. fs[n] \in Frame
  OBVIOUS
<1>3. f \in Frame /\ f.chunk = fs[n].chunk
  BY <1>2, DiscardedTyped
<1>4. CASE h # 0 /\ frames' = [fs EXCEPT ![n] = g] /\ result' = result
  <2>1. h \in DOMAIN hs /\ hs[h].finally_start # NoTarget
    BY <1>3, <1>4, HandlersTyped, FinallyHandlerCovers
  <2>2. hs = Chunk(fs[n]).handlers
    BY <1>3 DEF Chunk
  <2> HIDE DEF h
  <2>3. g \in Frame /\ Holds(prog, g, g.pc)
    BY <2>1, <2>2, HandlerTidy
  <2> QED
    BY <1>4, <2>3, TopTidy
<1>5. CASE /\ frames' = SubSeq(fs, 1, n - 1)
           /\ result' = result \/ \E v : result' = Normal(v)
  <2> DEFINE m == n - 1
  <2>1. m \in Nat /\ m < Len(fs) /\ frames' = SubSeq(fs, 1, m)
    BY <1>5
  <2> HIDE DEF m
  <2>2. result'.type # "failure"
    BY <1>5 DEF Normal
  <2>3. \A r : Tidy(prog, SubSeq(fs, 1, m), r)
    BY <2>1, DroppedTidy
  <2> QED
    BY <2>1, <2>2, <2>3 DEF RoutedTidy
<1> QED
  BY <1>1, <1>4, <1>5

LEMMA JumpTidy ==
  ASSUME prog \in Programs, NEW fs \in Seq(Frame), Under(prog, fs),
         Len(fs) \in 1 .. Len(fs), NEW c \in Completion, result.type = "none",
         NEW pc, Holds(prog, fs[Len(fs)], pc), PropagateJump(c, fs, pc)
  PROVE  RoutedTidy
<1> DEFINE n == Len(fs)
           f == Discarded(fs[n], pc)
           hs == Chunk(f).handlers
           h == find_finally_handler(hs, pc)
<1>1. /\ result' = result
      /\ \/ h # 0 /\ frames' = [fs EXCEPT ![n] = Finalizing(f, hs[h], c)]
         \/ frames' = [fs EXCEPT ![n] = [f EXCEPT !.pc = c.target]]
  BY DEF PropagateJump
<1>2. fs[n] \in Frame
  OBVIOUS
<1>3. f \in Frame /\ f.chunk = fs[n].chunk /\ f.pending = <<>>
  BY <1>2, HeldIsDiscarded
<1>4. CASE h # 0 /\ frames' = [fs EXCEPT ![n] = Finalizing(f, hs[h], c)]
  <2>1. h \in DOMAIN hs /\ hs[h].finally_start # NoTarget
    BY <1>3, <1>4, HandlersTyped, FinallyHandlerCovers
  <2>2. hs = Chunk(fs[n]).handlers
    BY <1>3 DEF Chunk
  <2> HIDE DEF h
  <2> DEFINE g == Finalizing(f, hs[h], c)
  <2>3. g \in Frame /\ Holds(prog, g, g.pc)
    BY <2>1, <2>2, HandlerTidy
  <2> QED
    BY <1>1, <1>4, <2>3, TopTidy
<1>5. CASE frames' = [fs EXCEPT ![n] = [f EXCEPT !.pc = c.target]]
  <2> HIDE DEF f
  <2> DEFINE g == [f EXCEPT !.pc = c.target]
  <2>1. c.target \in Nat
    BY DEF Completion
  <2>2. g \in Frame /\ g.pending = <<>>
    BY <1>3, <2>1 DEF Frame
  <2>3. Holds(prog, g, g.pc)
    BY <2>2, NothingHeld
  <2> QED
    BY <1>1, <1>5, <2>2, <2>3, TopTidy
<1> QED
  BY <1>1, <1>4, <1>5

LEMMA PropagateTidy ==
  ASSUME prog \in Programs, NEW fs \in Seq(Frame), Under(prog, fs),
         Len(fs) \in 1 .. Len(fs), Boundary \in Nat, Boundary < Len(fs),
         NEW c \in Completion, result.type = "none",
         NEW pc, Holds(prog, fs[Len(fs)], pc), Propagate(c, fs, pc)
  PROVE  RoutedTidy
BY ThrowTidy, ReturnTidy, JumpTidy DEF Propagate

-----------------------------------------------------------------------------
(* The instructions keep to their finalizers.                              *)

LEMMA TidyKept ==
  ASSUME RoutedTidy, UNCHANGED prog
  PROVE  FinalizerInv'
BY DEF RoutedTidy, FinalizerInv, Failed

LEMMA HeldWhileRunning ==
  ASSUME ExecInv, FinalizerInv, Running
  PROVE  /\ prog \in Programs /\ frames \in Seq(Frame) /\ Len(frames) \in 1 .. Len(frames)
         /\ Top \in Frame /\ Boundary \in Nat /\ Boundary < Len(frames)
         /\ Under(prog, frames) /\ Holds(prog, Top, Top.pc) /\ result.type = "none"
<1>1. prog \in Programs /\ frames \in Seq(Frame) /\ result.type = "none"
  BY DEF ExecInv, TypeOK, Running
<1>2. /\ Len(frames) \in 1 .. Len(frames) /\ Len(frames) \in Nat /\ Top \in Frame
      /\ Boundary \in Nat /\ Boundary < Len(frames)
  BY RunningFrame
<1>3. Tidy(prog, frames, TRUE)
  BY <1>1 DEF FinalizerInv, Failed
<1>4. Holds(prog, Top, Top.pc)
  BY <1>2, <1>3 DEF Tidy, Top
<1>5. ASSUME NEW i \in 1 .. Len(frames) - 1 PROVE Suspended(prog, frames[i])
  <2>1. i \in 1 .. Len(frames) /\ i # Len(frames)
    BY <1>2
  <2> QED
    BY <1>3, <2>1 DEF Tidy
<1> QED
  BY <1>1, <1>2, <1>4, <1>5 DEF Under

LEMMA ReplacedUnder ==
  ASSUME ExecInv, FinalizerInv, Running, NEW f, SameFrame(f)
  PROVE  LET gs == WithTop(f)
         IN  /\ gs \in Seq(Frame) /\ Len(gs) = Len(frames) /\ gs[Len(gs)] = f
             /\ Len(gs) \in 1 .. Len(gs) /\ Under(prog, gs)
             /\ \A i \in 1 .. Len(gs) - 1 : gs[i] = frames[i]
<1> DEFINE gs == WithTop(f)
<1>1. /\ gs \in Seq(Frame) /\ Len(gs) = Len(frames) /\ gs[Len(frames)] = f
      /\ \A i \in 1 .. Len(frames) - 1 : gs[i] = frames[i]
  BY ReplaceTop
<1>2. Len(frames) \in 1 .. Len(frames) /\ Under(prog, frames)
  BY HeldWhileRunning
<1> HIDE DEF gs
<1>3. Under(prog, gs)
  BY <1>1, <1>2 DEF Under
<1> QED
  BY <1>1, <1>2, <1>3 DEF gs

\* Only an abrupt completion, or the END_FINALLY of the finalizer, leads out
\* of it.
LEMMA StaysInside ==
  ASSUME ExecInv, FinalizerInv, Running, Top.pc \in DOMAIN Chunk(Top).code,
         Instr.op \notin {"return", "throw", "break", "continue"},
         Instr.op = "end_finally" =>
           \A k \in 1 .. Len(Top.pending) : Top.pending[k].finally_start # Instr.n,
         NEW t \in Successors(Instr, Top.pc)
  PROVE  Holds(prog, Top, t)
<1> DEFINE c == prog[Top.chunk]
           i == c.code[Top.pc]
<1>1. Top \in Frame /\ Holds(prog, Top, Top.pc) /\ prog \in Programs
  BY HeldWhileRunning
<1>2. Structured(c)
  <2>1. Top.chunk \in Names
    BY <1>1 DEF Frame
  <2> QED
    BY <1>1, <2>1, ChunksSound
<1>3. Top.pc \in DOMAIN c.code /\ Instr = i
  BY DEF Chunk, Instr
<1> HIDE DEF c
<1>4. ASSUME NEW k \in 1 .. Len(Top.pending)
      PROVE  \E h \in DOMAIN c.handlers :
               /\ c.handlers[h].finally_start = Top.pending[k].finally_start
               /\ InFinally(c.handlers[h], t)
  <2>1. PICK h \in DOMAIN c.handlers :
          /\ c.handlers[h].finally_start = Top.pending[k].finally_start
          /\ InFinally(c.handlers[h], Top.pc)
    BY <1>1 DEF Holds, Inside, c
  <2>2. ~(i.op = "end_finally" /\ i.n = c.handlers[h].finally_start)
    BY <1>3, <2>1
  <2>3. /\ i.op \notin {"return", "throw", "break", "continue"}
        /\ t \in Successors(i, Top.pc)
    BY <1>3
  <2>4. InFinally(c.handlers[h], t)
    BY <1>2, <1>3, <2>1, <2>2, <2>3 DEF Structured
  <2> QED
    BY <2>1, <2>4
<1> QED
  BY <1>1, <1>4 DEF Holds, Inside, c

LEMMA GoesOnTidy ==
  ASSUME ExecInv, FinalizerInv, Running, NEW f, SameFrame(f), f.pending = Top.pending,
         Holds(prog, Top, f.pc), frames' = WithTop(f), UNCHANGED result
  PROVE  RoutedTidy
<1> DEFINE gs == WithTop(f)
<1>1. /\ Len(gs) = Len(frames) /\ gs[Len(gs)] = f
      /\ \A i \in 1 .. Len(gs) - 1 : gs[i] = frames[i]
  BY ReplacedUnder
<1>2. /\ frames \in Seq(Frame) /\ Len(frames) \in 1 .. Len(frames)
      /\ Under(prog, frames) /\ result.type = "none"
  BY HeldWhileRunning
<1>3. Holds(prog, f, f.pc)
  BY HeldAlike DEF SameFrame
<1> HIDE DEF gs
<1>4. Tidy(prog, gs, TRUE)
  BY <1>1, <1>2, <1>3, LandedTidy
<1> QED
  BY <1>2, <1>4 DEF RoutedTidy, gs

\* An instruction after which the next one comes.
LEMMA OrdinaryTidy ==
  ASSUME ExecInv, FinalizerInv, NEW op, On(op),
         op \notin {"return", "throw", "jump", "break", "continue", "end_finally"},
         frames' = Advanced, UNCHANGED result
  PROVE  RoutedTidy
<1>1. Running /\ Instr.op = op /\ Top.pc \in DOMAIN Chunk(Top).code
  BY DEF On, At
<1>2. Top \in Frame
  BY <1>1, HeldWhileRunning
<1>3. Top.pc + 1 \in Successors(Instr, Top.pc)
  BY <1>1, Effects
<1>4. Holds(prog, Top, Top.pc + 1)
  BY <1>1, <1>3, StaysInside
<1>5. Stepped.pc = Top.pc + 1 /\ Stepped.pending = Top.pending /\ SameFrame(Stepped)
  BY <1>2, SteppedFields
<1> QED
  BY <1>1, <1>4, <1>5, GoesOnTidy DEF Advanced

\* A completion raised by the instruction.
LEMMA RaisedTidy ==
  ASSUME ExecInv, FinalizerInv, Running, NEW f, SameFrame(f),
         Holds(prog, f, Top.pc), NEW c \in Completion,
         \/ Propagate(c, WithTop(f), Top.pc)
         \/ /\ c.type = "throw"
            /\ \E extra : PropagateThrow(c, WithTop(f), Top.pc, Boundary, extra)
  PROVE  RoutedTidy
<1> DEFINE gs == WithTop(f)
<1>1. /\ gs \in Seq(Frame) /\ Len(gs) = Len(frames) /\ gs[Len(gs)] = f
      /\ Len(gs) \in 1 .. Len(gs) /\ Under(prog, gs)
  BY ReplacedUnder
<1>2. /\ prog \in Programs /\ Boundary \in Nat /\ Boundary < Len(gs)
      /\ result.type = "none"
  BY <1>1, HeldWhileRunning
<1> HIDE DEF gs
<1>3. CASE Propagate(c, gs, Top.pc)
  BY <1>1, <1>2, <1>3, PropagateTidy
<1>4. ASSUME c.type = "throw", NEW extra, PropagateThrow(c, gs, Top.pc, Boundary, extra)
      PROVE  RoutedTidy
  BY <1>1, <1>2, <1>4, ThrowTidy
<1> QED
  BY <1>3, <1>4 DEF gs

LEMMA SteppedHolds ==
  ASSUME ExecInv, FinalizerInv, Running
  PROVE  SameFrame(Stepped) /\ Holds(prog, Stepped, Top.pc)
<1>1. Top \in Frame /\ Holds(prog, Top, Top.pc)
  BY HeldWhileRunning
<1>2. SameFrame(Stepped) /\ Stepped.pending = Top.pending
  BY <1>1, SteppedFields
<1> QED
  BY <1>1, <1>2, HeldAlike DEF SameFrame

LEMMA StraightActionsTidy ==
  ASSUME ExecInv, FinalizerInv,
         \/ Push \/ PushInput \/ Pop \/ GetLocal \/ Observe
         \/ IteratorComplete \/ IteratorValue
  PROVE  RoutedTidy
<1>1. \E op \in {"push", "input", "pop", "get_local", "observe", "iterator_complete",
                 "iterator_value"} : On(op)
  BY DEF Push, PushInput, Pop, GetLocal, Observe, IteratorComplete, IteratorValue
<1>2. frames' = Advanced /\ UNCHANGED result
  BY DEF Push, PushInput, Pop, GetLocal, Observe, IteratorComplete, IteratorValue,
         Straight
<1> QED
  BY <1>1, <1>2, OrdinaryTidy

LEMMA FrameActionsTidy ==
  ASSUME ExecInv, FinalizerInv, SetLocal \/ Jump \/ JumpIfFalse
  PROVE  RoutedTidy
<1>1. PICK op \in {"set_local", "jump", "jump_if_false"} : On(op)
  BY DEF SetLocal, Jump, JumpIfFalse
<1>2. /\ Running /\ Instr.op = op /\ Instr.n \in Nat
      /\ Top.pc \in DOMAIN Chunk(Top).code
  BY <1>1, Fetched DEF On, At
<1>3. Top \in Frame
  BY <1>2, HeldWhileRunning
<1>4. CASE SetLocal
  <2> DEFINE f == [Stepped EXCEPT !.locals[Instr.n] = Peek]
  <2>1. On("set_local") /\ frames' = WithTop(f) /\ UNCHANGED result
    BY <1>4 DEF SetLocal
  <2>2. Peek \in Value
    BY <2>1, Operands, PeekTyped
  <2>3. SameFrame(f)
    BY <1>3, <2>2, SteppedIsSame
  <2>4. f.pending = Top.pending /\ f.pc = Top.pc + 1
    BY <1>3 DEF Stepped, Frame
  <2>5. Instr.op = "set_local"
    BY <2>1 DEF On, At
  <2>6. Top.pc + 1 \in Successors(Instr, Top.pc)
    BY <2>5, Effects
  <2> HIDE DEF f
  <2>7. Holds(prog, Top, f.pc)
    BY <1>2, <2>4, <2>5, <2>6, StaysInside
  <2> QED
    BY <1>2, <2>1, <2>3, <2>4, <2>7, GoesOnTidy
<1>5. ASSUME On("jump") \/ On("jump_if_false"), Goto(Instr.n), UNCHANGED result
      PROVE  RoutedTidy
  <2> DEFINE f == [Stepped EXCEPT !.pc = Instr.n]
  <2>1. frames' = WithTop(f)
    BY <1>5 DEF Goto
  <2>2. SameFrame(f) /\ f.pc = Instr.n /\ f.pending = Top.pending
    BY <1>2, <1>3, SteppedIsSame, SteppedFields
  <2> HIDE DEF f
  <2>3. Instr.op \in {"jump", "jump_if_false"}
    BY <1>5 DEF On, At
  <2>4. Instr.n \in Successors(Instr, Top.pc)
    BY <2>3, Effects
  <2>5. Holds(prog, Top, f.pc)
    BY <1>2, <2>2, <2>3, <2>4, StaysInside
  <2> QED
    BY <1>2, <1>5, <2>1, <2>2, <2>5, GoesOnTidy
<1>6. CASE Jump
  BY <1>5, <1>6 DEF Jump
<1>7. CASE JumpIfFalse
  <2>1. On("jump_if_false") /\ (Goto(Instr.n) \/ frames' = Advanced) /\ UNCHANGED result
    BY <1>7 DEF JumpIfFalse
  <2> QED
    BY <1>5, <2>1, OrdinaryTidy
<1> QED
  BY <1>4, <1>6, <1>7

LEMMA ThrowingActionsTidy ==
  ASSUME ExecInv, FinalizerInv, Operate \/ CopyObjectRest \/ GetIterator
  PROVE  RoutedTidy
<1>1. PICK op \in {"operate", "copy_object_rest", "get_iterator"} : On(op)
  BY DEF Operate, CopyObjectRest, GetIterator
<1>2. Running /\ Instr.v \in Value
  BY <1>1, Fetched
<1>3. Throw(Instr.v) \in Completion /\ Throw(TypeErr) \in Completion
  BY <1>2, OwnValues DEF Throw, Completion, NoTarget
<1>4. \A v : Throw(v).type = "throw"
  BY DEF Throw
<1>5. \/ frames' = Advanced /\ UNCHANGED result
      \/ \E c \in {Throw(Instr.v), Throw(TypeErr)} : \E extra :
           PropagateThrow(c, Advanced, Top.pc, Boundary, extra)
  BY DEF Operate, CopyObjectRest, GetIterator, Straight
<1>6. CASE frames' = Advanced /\ UNCHANGED result
  BY <1>1, <1>6, OrdinaryTidy
<1>7. ASSUME NEW c \in {Throw(Instr.v), Throw(TypeErr)}, NEW extra,
             PropagateThrow(c, Advanced, Top.pc, Boundary, extra)
      PROVE  RoutedTidy
  BY <1>2, <1>3, <1>4, <1>7, SteppedHolds, RaisedTidy DEF Advanced
<1> QED
  BY <1>5, <1>6, <1>7

LEMMA AbruptActionsTidy ==
  ASSUME ExecInv, FinalizerInv, BreakOrContinue \/ ThrowOp \/ CallThrows \/ ReturnOp
  PROVE  RoutedTidy
<1>1. PICK op \in {"break", "continue", "throw", "call", "construct", "return"} : On(op)
  BY DEF BreakOrContinue, ThrowOp, CallThrows, ReturnOp
<1>2. Running /\ Instr.n \in Nat /\ Instr.op = op
  BY <1>1, Fetched
<1>3. PICK c \in Completion : Propagate(c, WithTop(Stepped), Top.pc)
  <2>1. CASE BreakOrContinue
    <3>1. Instr.op \in {"break", "continue"}
      BY <2>1, Fetched DEF BreakOrContinue
    <3>2. Jumping(Instr.op, Instr.n) \in Completion
      BY <1>2, <3>1, OwnValues DEF Jumping, Completion
    <3> QED
      BY <2>1, <3>2 DEF BreakOrContinue, Advanced
  <2>2. CASE ThrowOp \/ ReturnOp
    <3>1. Peek \in Value
      BY <2>2, Operands, PeekTyped DEF ThrowOp, ReturnOp
    <3>2. Throw(Peek) \in Completion /\ Return(Peek) \in Completion
      BY <3>1 DEF Throw, Return, Completion, NoTarget
    <3> QED
      BY <2>2, <3>2 DEF ThrowOp, ReturnOp, Advanced
  <2>3. CASE CallThrows
    <3>1. Throw(TypeErr) \in Completion
      BY OwnValues DEF Throw, Completion, NoTarget
    <3> QED
      BY <2>3, <3>1 DEF CallThrows, Advanced
  <2> QED
    BY <2>1, <2>2, <2>3
<1> QED
  BY <1>2, <1>3, SteppedHolds, RaisedTidy

\* END_FINALLY takes the completion it resumes out of the frame; with none to
\* resume it is not the end of the finalizer that holds one.
LEMMA EndFinallyTidy ==
  ASSUME ExecInv, FinalizerInv, EndFinally
  PROVE  RoutedTidy
<1> DEFINE p == Top.pending
           owed == p # <<>> /\ p[Len(p)].finally_start = Instr.n
           rest == SubSeq(p, 1, Len(p) - 1)
           f == [Stepped EXCEPT !.pending = rest]
<1>1. \/ owed /\ Propagate(p[Len(p)].completion, WithTop(f), Top.pc)
      \/ ~owed /\ frames' = Advanced /\ UNCHANGED result
  BY DEF EndFinally
<1>2. /\ Running /\ Instr.op = "end_finally" /\ Top.pc \in DOMAIN Chunk(Top).code
  BY DEF EndFinally, On, At
<1>3. Top \in Frame /\ Holds(prog, Top, Top.pc)
  BY <1>2, HeldWhileRunning
<1>4. p \in Seq(PendingFinally) /\ Len(p) \in Nat /\ Len(p) <= 1
  BY <1>3 DEF Frame, Holds
<1>5. CASE owed /\ Propagate(p[Len(p)].completion, WithTop(f), Top.pc)
  <2>1. Len(p) = 1
    <3>1. Len(p) # 0
      BY <1>4, <1>5
    <3> HIDE DEF p
    <3> QED
      BY <1>4, <3>1
  <2>2. p[Len(p)] \in PendingFinally
    BY <1>4, <2>1, ElementOfSeq
  <2>3. p[Len(p)].completion \in Completion
    BY <2>2 DEF PendingFinally
  <2>4. rest \in Seq(PendingFinally) /\ Len(rest) = 0
    BY <1>4, <2>1, Prefix
  <2> HIDE DEF rest
  <2>5. SameFrame(f)
    BY <1>3, <2>4, SteppedIsSame
  <2>6. f.pending = rest
    <3>1. SameFrame(Stepped)
      BY <1>3, SteppedFields
    <3> QED
      BY <3>1 DEF SameFrame, Frame
  <2>7. rest = <<>>
    BY <2>4
  <2> HIDE DEF f, p
  <2>8. Holds(prog, f, Top.pc)
    BY <2>6, <2>7, NothingHeld
  <2> QED
    BY <1>2, <1>5, <2>3, <2>5, <2>8, RaisedTidy
<1>6. CASE ~owed /\ frames' = Advanced /\ UNCHANGED result
  <2>1. \A k \in 1 .. Len(Top.pending) : Top.pending[k].finally_start # Instr.n
    <3> SUFFICES ASSUME NEW k \in 1 .. Len(p) PROVE p[k].finally_start # Instr.n
      OBVIOUS
    <3>1. k = Len(p) /\ Len(p) # Len(<<>>)
      BY <1>4
    <3> QED
      BY <1>6, <3>1
  <2>2. Top.pc + 1 \in Successors(Instr, Top.pc)
    BY <1>2, Effects
  <2>3. Holds(prog, Top, Top.pc + 1)
    BY <1>2, <2>1, <2>2, StaysInside
  <2>4. Stepped.pc = Top.pc + 1 /\ Stepped.pending = Top.pending /\ SameFrame(Stepped)
    BY <1>3, SteppedFields
  <2> QED
    BY <1>2, <1>6, <2>3, <2>4, GoesOnTidy DEF Advanced
<1> QED
  BY <1>1, <1>5, <1>6

LEMMA YieldTidy ==
  ASSUME ExecInv, FinalizerInv, Yield
  PROVE  RoutedTidy
<1>1. Running
  BY Fetched DEF Yield
<1>2. /\ frames \in Seq(Frame) /\ Len(frames) \in 1 .. Len(frames)
      /\ Under(prog, frames)
  BY <1>1, HeldWhileRunning
<1> DEFINE m == Len(frames) - 1
<1>3. m \in Nat /\ m < Len(frames) /\ frames' = SubSeq(frames, 1, m)
  BY <1>2 DEF Yield
<1>4. result'.type = "normal"
  BY DEF Yield, Normal
<1> HIDE DEF m
<1>5. Tidy(prog, SubSeq(frames, 1, m), FALSE)
  BY <1>2, <1>3, DroppedTidy
<1> QED
  BY <1>3, <1>4, <1>5 DEF RoutedTidy

\* A call: the caller waits inside its finalizer, the new frame holds nothing.
LEMMA CalledTidy ==
  ASSUME ExecInv, FinalizerInv, NEW op, On(op),
         op \notin {"return", "throw", "jump", "break", "continue", "end_finally"},
         NEW g \in Frame, g.pending = <<>>, frames' = Append(Advanced, g), UNCHANGED result
  PROVE  RoutedTidy
<1>1. Running /\ Instr.op = op /\ Top.pc \in DOMAIN Chunk(Top).code
  BY DEF On, At
<1>2. Top \in Frame /\ Holds(prog, Top, Top.pc) /\ result.type = "none"
  BY <1>1, HeldWhileRunning
<1>3. Top.pc + 1 \in Successors(Instr, Top.pc)
  BY <1>1, Effects
<1>4. Holds(prog, Top, Top.pc + 1)
  BY <1>1, <1>3, StaysInside
<1>5. /\ Stepped.pc = Top.pc + 1 /\ Stepped.last = Top.pc
      /\ Stepped.pending = Top.pending /\ SameFrame(Stepped)
  BY <1>2, SteppedFields
<1>6. Suspended(prog, Stepped)
  BY <1>2, <1>4, <1>5, HeldAlike DEF SameFrame, Suspended
<1> DEFINE gs == WithTop(Stepped)
           n == Len(gs)
<1>7. /\ gs \in Seq(Frame) /\ n \in 1 .. n /\ gs[n] = Stepped /\ Under(prog, gs)
  BY <1>1, <1>5, ReplacedUnder
<1> HIDE DEF gs
<1>8. \A i \in 1 .. n : Suspended(prog, gs[i])
  <2>1. \A i \in 1 .. n : i = n \/ i \in 1 .. n - 1
    BY <1>7
  <2> QED
    BY <1>6, <1>7, <2>1 DEF Under
<1> DEFINE hs == Append(gs, g)
<1>9. /\ Len(hs) = n + 1 /\ hs[n + 1] = g /\ n \in Nat
      /\ \A i \in 1 .. n : hs[i] = gs[i]
  BY <1>7, AppendProperties
<1>10. frames' = hs
  BY DEF Advanced, gs
<1> HIDE DEF hs
<1>11. Holds(prog, g, g.pc)
  BY NothingHeld
<1>12. Tidy(prog, hs, TRUE)
  <2>1. \A i \in 1 .. Len(hs) : i = Len(hs) \/ i \in 1 .. n
    BY <1>9
  <2>2. Holds(prog, hs[Len(hs)], hs[Len(hs)].pc)
    BY <1>9, <1>11
  <2>3. \A i \in 1 .. n : Suspended(prog, hs[i]) /\ i # Len(hs)
    BY <1>8, <1>9
  <2> QED
    BY <2>1, <2>2, <2>3 DEF Tidy
<1> QED
  BY <1>2, <1>10, <1>12 DEF RoutedTidy

LEMMA CallActionsTidy ==
  ASSUME ExecInv, FinalizerInv,
         CallFunction \/ ConstructFunction \/ CallApply \/ GetProperty
  PROVE  RoutedTidy
<1>1. PICK op \in {"call", "construct", "get_property"} : On(op)
  BY DEF CallFunction, ConstructFunction, CallApply, GetProperty
<1>2. Instr.n \in Nat /\ Instr.op = op
  BY <1>1, Fetched
<1>3. ASSUME NEW name \in Names, NEW base \in Nat, NEW r \in Value,
             frames' = Append(Advanced, NewFrame(name, base, r)), UNCHANGED result
      PROVE  RoutedTidy
  <2>1. NewFrame(name, base, r) \in Frame
    BY NewFrameTyped
  <2>2. NewFrame(name, base, r).pending = <<>>
    BY DEF NewFrame
  <2> QED
    BY <1>1, <1>3, <2>1, <2>2, CalledTidy
<1>4. \A v : IsBytecode(v) => v.id \in Names
  BY DEF IsBytecode, HasCode
<1>5. CASE CallFunction \/ ConstructFunction
  <2>1. PICK r \in {NoReceiver, Val("obj", "receiver")} : PushFrame(r)
    BY <1>5 DEF CallFunction, ConstructFunction
  <2>2. OpBase \in Nat
    BY <1>5, Operands DEF OpBase, Argc, CallFunction, ConstructFunction
  <2> QED
    BY <1>3, <1>4, <2>1, <2>2, OwnValues DEF PushFrame
<1>6. Len(stack) \in Nat
  BY DEF ExecInv, TypeOK
<1>7. CASE CallApply
  BY <1>3, <1>4, <1>6, <1>7, OwnValues DEF CallApply, Nested
<1>8. CASE GetProperty
  <2>1. On("get_property")
    BY <1>8 DEF GetProperty
  <2>2. Len(stack) - 1 \in Nat
    BY <2>1, Operands
  <2> QED
    BY <1>3, <1>4, <1>8, <2>2, OwnValues DEF GetProperty, Nested
<1> QED
  BY <1>5, <1>7, <1>8

LEMMA GeneratorActionsTidy ==
  ASSUME ExecInv, FinalizerInv, CallGenerator \/ ResumeGenerator \/ NextCompleted
  PROVE  RoutedTidy
<1>1. CASE CallGenerator
  <2>1. On("call") /\ frames' = Advanced /\ UNCHANGED result
    BY <1>1 DEF CallGenerator
  <2> QED
    BY <2>1, OrdinaryTidy
<1>2. CASE NextCompleted
  <2>1. On("call") \/ On("iterator_next")
    BY <1>2 DEF NextCompleted, NextOf
  <2>2. frames' = Advanced /\ UNCHANGED result
    BY <1>2 DEF NextCompleted, Straight
  <2> QED
    BY <2>1, <2>2, OrdinaryTidy
<1>3. CASE ResumeGenerator
  <2>1. PICK g \in GenIds :
          /\ NextOf(g)
          /\ Nested([NewFrame(gens[g].chunk, Len(NextStack), NoReceiver) EXCEPT
                       !.pc = gens[g].pc, !.last = gens[g].last,
                       !.locals = gens[g].locals], NextBase, g)
    BY <1>3 DEF ResumeGenerator
  <2>2. On("call") \/ On("iterator_next")
    BY <2>1 DEF NextOf
  <2> DEFINE s == gens[g]
             f0 == NewFrame(s.chunk, Len(NextStack), NoReceiver)
             f == [f0 EXCEPT !.pc = s.pc, !.last = s.last, !.locals = s.locals]
  <2>3. Len(NextStack) \in Nat
    BY <2>1, NextOperands
  <2>4. s \in Generator
    BY DEF ExecInv, TypeOK
  <2>5. /\ s.chunk \in Names /\ s.pc \in Nat /\ s.last \in Nat
        /\ s.locals \in [Slots -> Value]
    BY <2>4 DEF Generator
  <2>6. f0 \in Frame /\ f0.pending = <<>>
    BY <2>3, <2>5, NewFrameTyped, OwnValues DEF NewFrame
  <2>7. frames' = Append(Advanced, f) /\ UNCHANGED result
    BY <1>3, <2>1 DEF Nested, ResumeGenerator
  <2> HIDE DEF f0, s
  <2>8. f \in Frame /\ f.pending = <<>>
    BY <2>5, <2>6 DEF Frame
  <2> HIDE DEF f
  <2> QED
    BY <2>2, <2>7, <2>8, CalledTidy
<1> QED
  BY <1>1, <1>2, <1>3

\* A failure stops every frame where it is.
LEMMA FailTidy ==
  ASSUME ExecInv, FinalizerInv, Running, Fail, UNCHANGED prog
  PROVE  FinalizerInv'
<1> DEFINE gs == WithTop(Stepped)
<1>1. SameFrame(Stepped) /\ Holds(prog, Stepped, Top.pc)
  BY SteppedHolds
<1>2. Stepped.last = Top.pc
  BY HeldWhileRunning, SteppedFields
<1>3. /\ gs[Len(gs)] = Stepped /\ Len(gs) \in 1 .. Len(gs) /\ Under(prog, gs)
  BY <1>1, ReplacedUnder
<1>4. frames' = gs /\ result'.type = "failure"
  BY DEF Fail, Failure, Advanced
<1> HIDE DEF gs
<1>5. \A i \in 1 .. Len(gs) : Holds(prog, gs[i], gs[i].last)
  <2>1. \A i \in 1 .. Len(gs) : i = Len(gs) \/ i \in 1 .. Len(gs) - 1
    BY <1>3
  <2> QED
    BY <1>1, <1>2, <1>3, <2>1 DEF Under, Suspended
<1> QED
  BY <1>4, <1>5 DEF FinalizerInv, Failed

LEMMA FailingActionsTidy ==
  ASSUME ExecInv, FinalizerInv, CallAborts \/ NextExecuting \/ Underflow
  PROVE  FinalizerInv'
<1>1. Fail /\ UNCHANGED prog
  BY DEF CallAborts, NextExecuting, Underflow
<1>2. Running
  BY Fetched, NextOperands DEF CallAborts, NextExecuting, Underflow
<1> QED
  BY <1>1, <1>2, FailTidy

\* Native code goes on with the frame below its activation: it holds its
\* completion at the call, where a throw is raised, and where it goes on.
LEMMA LoopReturnsTidy ==
  ASSUME ExecInv, FinalizerInv, LoopReturns
  PROVE  FinalizerInv'
<1> DEFINE ms == SubSeq(loops, 1, Len(loops) - 1)
           b == ms[Len(ms)].boundary
<1>1. result.type # "none" /\ Len(loops) > 1 /\ UNCHANGED prog
  BY DEF LoopReturns
<1>2. /\ frames \in Seq(Frame) /\ stack \in Seq(Value) /\ loops \in Seq(Loop)
      /\ prog \in Programs /\ result \in Completion \cup {NoResult, Failure}
  BY DEF ExecInv, TypeOK
<1>3. CASE result.type = "failure"
  <2>1. UNCHANGED <<frames, result>>
    BY <1>3 DEF LoopReturns, FailureReturns
  <2> QED
    BY <1>1, <2>1 DEF FinalizerInv, Failed, Tidy
<1>4. CASE ~Failed
  <2>1. Tidy(prog, frames, FALSE)
    BY <1>1, <1>4 DEF FinalizerInv
  <2>2. Nests(frames, stack, loops, FALSE)
    <3>1. ~Ended
      BY <1>1, <1>2 DEF Ended
    <3> QED
      BY <1>1, <1>4, <3>1 DEF ExecInv, StackDiscipline
  <2>3. /\ ms \in Seq(Loop) /\ ms # <<>> /\ Nests(frames, stack, ms, TRUE) /\ frames # <<>>
    <3>1. Len(loops) - 1 \in Nat /\ Len(loops) - 1 <= Len(loops)
      BY <1>1, <1>2
    <3>2. ms \in Seq(Loop)
      BY <1>2, <3>1, Prefix
    <3>3. ms # <<>> /\ Nests(frames, stack, ms, TRUE) /\ frames # <<>>
      BY <1>1, <1>2, <2>2, NestsResumed
    <3> QED
      BY <3>2, <3>3
  <2>4. /\ \/ frames' = frames /\ result' = NoResult
           \/ /\ result.type = "throw"
              /\ PropagateThrow(result, frames, Top.last, b, <<>>)
    BY <1>4 DEF LoopReturns, Failed
  <2> HIDE DEF ms
  <2>5. b \in Nat /\ b < Len(frames) /\ Len(frames) \in 1 .. Len(frames)
    BY <1>2, <2>3, TopOfNest
  <2>6. Under(prog, frames) /\ Holds(prog, frames[Len(frames)], Top.last)
    <3>1. \A i \in 1 .. Len(frames) : Suspended(prog, frames[i])
      BY <2>1 DEF Tidy
    <3>2. \A i \in 1 .. Len(frames) - 1 : i \in 1 .. Len(frames)
      BY <2>5
    <3> QED
      BY <2>5, <3>1, <3>2 DEF Under, Suspended, Top
  <2>7. CASE frames' = frames /\ result' = NoResult
    <3>1. Tidy(prog, frames, TRUE)
      BY <2>1 DEF Tidy, Suspended
    <3>2. RoutedTidy
      BY <2>7, <3>1 DEF RoutedTidy, NoResult
    <3> QED
      BY <1>1, <3>2, TidyKept
  <2>8. CASE result.type = "throw" /\ PropagateThrow(result, frames, Top.last, b, <<>>)
    <3>1. result \in Completion
      BY <1>2, <2>8 DEF NoResult, Failure
    <3> HIDE DEF b
    <3>2. RoutedTidy
      BY <1>2, <2>5, <2>6, <2>8, <3>1, ThrowTidy
    <3> QED
      BY <1>1, <3>2, TidyKept
  <2> QED
    BY <2>4, <2>7, <2>8
<1> QED
  BY <1>3, <1>4 DEF Failed

-----------------------------------------------------------------------------
(* Saved completions: the invariant holds.                                 *)

LEMMA FinalizerStays ==
  ASSUME ExecInv, FinalizerInv, [Next]_vars
  PROVE  FinalizerInv'
<1>1. CASE UNCHANGED <<prog, frames, result>>
  BY <1>1 DEF FinalizerInv, Failed
<1>2. CASE Next
  <2>1. UNCHANGED prog
    BY <1>2, ProgramStays
  <2>2. CASE Halted \/ HostReturns
    BY <1>1, <2>2 DEF Halted, HostReturns, vars
  <2>3. CASE \/ Push \/ PushInput \/ Pop \/ GetLocal \/ Observe
             \/ IteratorComplete \/ IteratorValue
    BY <2>1, <2>3, StraightActionsTidy, TidyKept
  <2>4. CASE SetLocal \/ Jump \/ JumpIfFalse
    BY <2>1, <2>4, FrameActionsTidy, TidyKept
  <2>5. CASE Operate \/ CopyObjectRest \/ GetIterator
    BY <2>1, <2>5, ThrowingActionsTidy, TidyKept
  <2>6. CASE BreakOrContinue \/ ThrowOp \/ CallThrows \/ ReturnOp
    BY <2>1, <2>6, AbruptActionsTidy, TidyKept
  <2>7. CASE EndFinally
    BY <2>1, <2>7, EndFinallyTidy, TidyKept
  <2>8. CASE Yield
    BY <2>1, <2>8, YieldTidy, TidyKept
  <2>9. CASE CallFunction \/ ConstructFunction \/ CallApply \/ GetProperty
    BY <2>1, <2>9, CallActionsTidy, TidyKept
  <2>10. CASE CallGenerator \/ ResumeGenerator \/ NextCompleted
    BY <2>1, <2>10, GeneratorActionsTidy, TidyKept
  <2>11. CASE CallAborts \/ NextExecuting \/ Underflow
    BY <2>11, FailingActionsTidy
  <2>12. CASE LoopReturns
    BY <2>12, LoopReturnsTidy
  <2> QED
    BY <1>2, <2>2, <2>3, <2>4, <2>5, <2>6, <2>7, <2>8, <2>9, <2>10, <2>11, <2>12
    DEF Next
<1>3. CASE UNCHANGED vars
  BY <1>1, <1>3 DEF vars
<1> QED
  BY <1>2, <1>3

LEMMA InitFinalizers ==
  ASSUME Init
  PROVE  FinalizerInv
<1> DEFINE f == NewFrame("main", 0, NoReceiver)
<1>1. frames = <<f>> /\ result.type = "none"
  BY DEF Init, NoResult
<1>2. f.pending = <<>>
  BY DEF NewFrame
<1> HIDE DEF f
<1>3. Holds(prog, f, f.pc)
  BY <1>2, NothingHeld
<1>4. Len(frames) = 1 /\ frames[1] = f
  BY <1>1
<1>5. Tidy(prog, frames, TRUE)
  BY <1>3, <1>4 DEF Tidy
<1> QED
  BY <1>1, <1>5 DEF FinalizerInv, Failed

LEMMA FinalizerInvariance == Spec => []FinalizerInv
<1>1. Init => FinalizerInv
  BY InitFinalizers
<1>2. ExecInv /\ FinalizerInv /\ [Next]_vars => FinalizerInv'
  BY FinalizerStays
<1> QED
  BY <1>1, <1>2, Invariance, PTL DEF Spec

LEMMA FinalizersAreHeld ==
  ASSUME FinalizerInv, NEW i \in 1 .. Len(frames)
  PROVE  Holds(prog, frames[i],
               IF i = Len(frames) /\ result.type = "none" THEN frames[i].pc
               ELSE frames[i].last)
<1>1. CASE Failed
  <2>1. Holds(prog, frames[i], frames[i].last) /\ result.type # "none"
    BY <1>1 DEF FinalizerInv, Failed
  <2> QED
    BY <2>1
<1>2. CASE ~Failed
  <2>1. Tidy(prog, frames, result.type = "none")
    BY <1>2 DEF FinalizerInv
  <2>2. CASE i = Len(frames) /\ result.type = "none"
    BY <2>1, <2>2 DEF Tidy
  <2>3. CASE ~(i = Len(frames) /\ result.type = "none")
    BY <2>1, <2>3 DEF Tidy, Suspended
  <2> QED
    BY <2>2, <2>3
<1> QED
  BY <1>1, <1>2

\* A completion waits in a frame only while the frame executes the finalizer
\* that owns it, in every frame, suspended or running, and after a failure
\* too (vm.cpp, discard_overridden_completions, propagate_completion and
\* END_FINALLY).
THEOREM CompletionsWaitInside == Spec => []PendingInsideItsFinalizer
<1>1. FinalizerInv => PendingInsideItsFinalizer
  <2> SUFFICES ASSUME FinalizerInv, NEW i \in 1 .. Len(frames),
                      NEW k \in 1 .. Len(frames[i].pending)
               PROVE  \E h \in DOMAIN Chunk(frames[i]).handlers :
                        LET hd == Chunk(frames[i]).handlers[h]
                            pc == IF i = Len(frames) /\ result.type = "none"
                                  THEN frames[i].pc ELSE frames[i].last
                        IN  /\ hd.finally_start = frames[i].pending[k].finally_start
                            /\ InFinally(hd, pc)
    BY DEF PendingInsideItsFinalizer
  <2> DEFINE at == IF i = Len(frames) /\ result.type = "none" THEN frames[i].pc
                   ELSE frames[i].last
  <2>1. Holds(prog, frames[i], at)
    BY FinalizersAreHeld
  <2> HIDE DEF at
  <2>2. PICK h \in DOMAIN prog[frames[i].chunk].handlers :
          /\ prog[frames[i].chunk].handlers[h].finally_start
                = frames[i].pending[k].finally_start
          /\ InFinally(prog[frames[i].chunk].handlers[h], at)
    BY <2>1 DEF Holds, Inside
  <2> QED
    BY <2>2 DEF at, Chunk
<1> QED
  BY <1>1, FinalizerInvariance, PTL

\* At most one completion waits in a frame: whatever is raised inside a
\* finalizer replaces what the finalizer saved, so pending_completions never
\* grows with the nesting of try statements (vm.cpp,
\* discard_overridden_completions).
THEOREM OneCompletionWaits ==
  Spec => [](\A i \in 1 .. Len(frames) : Len(frames[i].pending) <= 1)
<1>1. FinalizerInv => \A i \in 1 .. Len(frames) : Len(frames[i].pending) <= 1
  BY FinalizersAreHeld DEF Holds
<1> QED
  BY <1>1, FinalizerInvariance, PTL
=============================================================================
