--------------------------- MODULE StorageProofs ---------------------------
(***************************************************************************)
(* Proofs about Objects for every heap, in two parts.                       *)
(*                                                                          *)
(* Agreement of storage: the table, its insertion order, the dense elements *)
(* and the length of an object, and the keys it lists, always tell of the   *)
(* same properties.                                                         *)
(*                                                                          *)
(* Conformance: wherever a property is kept, defining it answers and leaves *)
(* what ECMA-262's DefineOwnProperty of the object's kind computes.  The    *)
(* second part needs the first: cutting the length of an array looks for    *)
(* the element that blocks it in the insertion order of the table.          *)
(***************************************************************************)
EXTENDS ObjectProofs, FiniteSetTheorems

-----------------------------------------------------------------------------
(* Selected lists the elements of a list that are in a set, in their order *)

\* The recursion of Selected, up to n.
Selects(s, S, n, f) ==
    f = [m \in 0..n |->
            IF m = 0 THEN <<>>
            ELSE IF s[m] \in S THEN Append(f[m - 1], s[m]) ELSE f[m - 1]]

LEMMA SelectsExist ==
    ASSUME NEW s, NEW S, NEW n \in Nat
    PROVE  \E f : Selects(s, S, n, f)
  <1> DEFINE Extend(m, r) == IF s[m] \in S THEN Append(r, s[m]) ELSE r
  <1> SUFFICES ASSUME { m \in Nat : ~\E f : Selects(s, S, m, f) } # {} PROVE FALSE
    OBVIOUS
  <1>1. PICK l \in Nat : /\ ~\E f : Selects(s, S, l, f)
                         /\ \A m \in Nat : (~\E f : Selects(s, S, m, f)) => l <= m
    <2> DEFINE T == { m \in Nat : ~\E f : Selects(s, S, m, f) }
    <2>1. T \in SUBSET Nat /\ T # {}
      OBVIOUS
    <2>2. \A m \in Nat : m \in T <=> ~\E f : Selects(s, S, m, f)
      OBVIOUS
    <2> HIDE DEF T
    <2>3. PICK l \in T : \A m \in T : l <= m
      BY <2>1, SetMin
    <2> QED
      BY <2>1, <2>2, <2>3
  <1>2. l # 0
    <2> DEFINE f == [m \in 0..0 |-> <<>>]
    <2>1. f = [m \in 0..0 |->
                 IF m = 0 THEN <<>>
                 ELSE IF s[m] \in S THEN Append(f[m - 1], s[m]) ELSE f[m - 1]]
      OBVIOUS
    <2>2. Selects(s, S, 0, f)
      BY <2>1 DEF Selects
    <2> QED
      BY <2>2, <1>1
  <1>3. l - 1 \in Nat /\ ~(l <= l - 1)
    BY <1>2
  <1>4. PICK f : Selects(s, S, l - 1, f)
    BY <1>1, <1>3
  <1> DEFINE h == l - 1
             g == [m \in 0..l |-> IF m <= h THEN f[m] ELSE Extend(l, f[h])]
             b == [m \in 0..l |-> IF m = 0 THEN <<>> ELSE Extend(m, g[m - 1])]
  <1>5. \A m \in 0..h : f[m] = IF m = 0 THEN <<>> ELSE Extend(m, f[m - 1])
    BY <1>4 DEF Selects
  <1> HIDE DEF Extend
  <1>6. ASSUME NEW m \in 0..l PROVE g[m] = b[m]
    <2>1. CASE m = 0
      BY <1>3, <1>5, <2>1
    <2>2. CASE m \in 1..h
      <3>1. m \in 0..h /\ m - 1 \in 0..l /\ m - 1 <= h /\ m <= h /\ m # 0
        BY <1>3, <2>2
      <3>2. g[m - 1] = f[m - 1] /\ g[m] = f[m]
        BY <3>1
      <3> QED
        BY <1>5, <3>1, <3>2
    <2>3. CASE m = l
      <3>1. m # 0 /\ ~(m <= h) /\ m - 1 = h /\ h \in 0..l /\ h <= h
        BY <1>3, <2>3
      <3>2. g[h] = f[h] /\ g[m] = Extend(l, f[h])
        BY <3>1
      <3> QED
        BY <2>3, <3>1, <3>2
    <2> QED
      BY <1>3, <2>1, <2>2, <2>3
  <1>7. g = b
    BY <1>6
  <1>8. g = [m \in 0..l |-> IF m = 0 THEN <<>> ELSE Extend(m, g[m - 1])]
    BY <1>7, Zenon
  <1> HIDE DEF g, b
  <1>9. Selects(s, S, l, g)
    BY <1>8 DEF Selects, Extend
  <1> QED
    BY <1>1, <1>9

\* r is the elements of s up to n that are in S, taken at the places q.
Picks(s, S, n, r, q) ==
    /\ r \in Seq(Range(s) \cap S) /\ q \in [1..Len(r) -> 1..n]
    /\ \A i, j \in 1..Len(r) : i < j => q[i] < q[j]
    /\ \A i \in 1..Len(r) : r[i] = s[q[i]]
    /\ \A m \in 1..n : s[m] \in S => \E i \in 1..Len(r) : q[i] = m

\* One more element that is in S.
LEMMA PicksOne ==
    ASSUME NEW s, NEW S, NEW n \in Nat, NEW r, NEW q, Picks(s, S, n, r, q),
           s[n + 1] \in S, s[n + 1] \in Range(s)
    PROVE  \E p : Picks(s, S, n + 1, Append(r, s[n + 1]), p)
  <1> DEFINE l == Len(r)
             t == Append(r, s[n + 1])
             p == [i \in 1..(l + 1) |-> IF i <= l THEN q[i] ELSE n + 1]
  <1>1. /\ r \in Seq(Range(s) \cap S) /\ q \in [1..l -> 1..n] /\ l \in Nat
        /\ \A i, j \in 1..l : i < j => q[i] < q[j]
        /\ \A i \in 1..l : r[i] = s[q[i]]
        /\ \A m \in 1..n : s[m] \in S => \E i \in 1..l : q[i] = m
    BY DEF Picks
  <1>2. /\ t \in Seq(Range(s) \cap S) /\ Len(t) = l + 1
        /\ t[l + 1] = s[n + 1] /\ \A i \in 1..l : t[i] = r[i]
    BY <1>1
  <1> HIDE DEF t, l
  <1>3. /\ p \in [1..(l + 1) -> 1..(n + 1)]
        /\ p[l + 1] = n + 1 /\ \A i \in 1..l : p[i] = q[i]
    BY <1>1
  <1> HIDE DEF p
  <1>4. \A i, j \in 1..(l + 1) : i < j => p[i] < p[j]
    <2> SUFFICES ASSUME NEW i \in 1..(l + 1), NEW j \in 1..(l + 1), i < j PROVE p[i] < p[j]
      OBVIOUS
    <2>1. i \in 1..l /\ p[i] = q[i] /\ q[i] \in 1..n
      BY <1>1, <1>3
    <2>2. CASE j \in 1..l
      BY <1>1, <1>3, <2>1, <2>2
    <2>3. CASE j = l + 1
      BY <1>3, <2>1, <2>3
    <2>4. j \in 1..l \/ j = l + 1
      BY <1>1
    <2> QED
      BY <2>2, <2>3, <2>4
  <1>5. \A i \in 1..(l + 1) : t[i] = s[p[i]]
    <2> SUFFICES ASSUME NEW i \in 1..(l + 1) PROVE t[i] = s[p[i]]
      OBVIOUS
    <2>1. CASE i \in 1..l
      BY <1>1, <1>2, <1>3, <2>1
    <2>2. CASE i = l + 1
      BY <1>2, <1>3, <2>2
    <2> QED
      BY <1>1, <2>1, <2>2
  <1>6. \A m \in 1..(n + 1) : s[m] \in S => \E i \in 1..(l + 1) : p[i] = m
    <2> SUFFICES ASSUME NEW m \in 1..(n + 1), s[m] \in S PROVE \E i \in 1..(l + 1) : p[i] = m
      OBVIOUS
    <2>1. CASE m \in 1..n
      <3>1. PICK i \in 1..l : q[i] = m
        BY <1>1, <2>1
      <3>2. i \in 1..(l + 1) /\ p[i] = m
        BY <1>1, <1>3, <3>1
      <3> QED
        BY <3>2
    <2>2. CASE m = n + 1
      <3>1. l + 1 \in 1..(l + 1) /\ p[l + 1] = m
        BY <1>1, <1>3, <2>2
      <3> QED
        BY <3>1
    <2> QED
      BY <2>1, <2>2
  <1>7. Picks(s, S, n + 1, t, p)
    BY <1>2, <1>3, <1>4, <1>5, <1>6 DEF Picks
  <1> QED
    BY <1>7 DEF t

LEMMA SelectedPicks ==
    ASSUME NEW V, NEW s \in Seq(V), NEW S
    PROVE  \E q : Picks(s, S, Len(s), Selected(s, S), q)
  <1> DEFINE f == CHOOSE x : Selects(s, S, Len(s), x)
             P(m) == \E q : Picks(s, S, m, f[m], q)
  <1>1. Selects(s, S, Len(s), f)
    BY SelectsExist
  <1>2. Selected(s, S) = f[Len(s)]
    BY DEF Selected, Selects
  <1> HIDE DEF f
  <1>3. /\ f[0] = <<>>
        /\ \A m \in 1..Len(s) : f[m] = IF s[m] \in S THEN Append(f[m - 1], s[m]) ELSE f[m - 1]
    <2> DEFINE g(m) == IF m = 0 THEN <<>>
                       ELSE IF s[m] \in S THEN Append(f[m - 1], s[m]) ELSE f[m - 1]
    <2>1. f = [m \in 0..Len(s) |-> g(m)]
      BY <1>1 DEF Selects
    <2> HIDE DEF g
    <2>2. Len(s) \in Nat /\ \A m \in 0..Len(s) : f[m] = g(m)
      BY <2>1
    <2> QED
      BY <2>2 DEF g
  <1>4. P(0)
    <2>1. <<>> \in Seq(Range(s) \cap S) /\ Len(<<>>) = 0
      OBVIOUS
    <2> DEFINE q == [i \in 1..0 |-> i]
    <2>2. q \in [1..0 -> 1..0]
      OBVIOUS
    <2>3. Picks(s, S, 0, <<>>, q)
      BY <2>1, <2>2 DEF Picks
    <2> QED
      BY <2>3, <1>3
  <1>5. ASSUME NEW m \in 1..Len(s), P(m - 1) PROVE P(m)
    <2>1. PICK q : Picks(s, S, m - 1, f[m - 1], q)
      BY <1>5
    <2>2. m - 1 \in Nat /\ (m - 1) + 1 = m /\ s[m] \in Range(s)
      BY DEF Range
    <2>3. CASE s[m] \in S
      <3>1. \E p : Picks(s, S, (m - 1) + 1, Append(f[m - 1], s[(m - 1) + 1]), p)
        <4> DEFINE n == m - 1
        <4>1. n \in Nat /\ n + 1 = m /\ Picks(s, S, n, f[m - 1], q)
          BY <2>1, <2>2
        <4> HIDE DEF n
        <4>2. s[n + 1] \in S /\ s[n + 1] \in Range(s)
          BY <4>1, <2>2, <2>3
        <4>3. \E p : Picks(s, S, n + 1, Append(f[m - 1], s[n + 1]), p)
          BY <4>1, <4>2, PicksOne
        <4> QED
          BY <4>3 DEF n
      <3> QED
        BY <3>1, <2>2, <2>3, <1>3
    <2>4. CASE s[m] \notin S
      <3>1. f[m] = f[m - 1]
        BY <1>3, <2>4
      <3> DEFINE r == f[m - 1]
      <3>2. Picks(s, S, m - 1, r, q)
        BY <2>1
      <3> HIDE DEF r
      <3>3. Picks(s, S, m, r, q)
        <4>1. q \in [1..Len(r) -> 1..m]
          BY <3>2 DEF Picks
        <4>2. \A l \in 1..m : s[l] \in S => \E i \in 1..Len(r) : q[i] = l
          BY <3>2, <2>4 DEF Picks
        <4> QED
          BY <3>2, <4>1, <4>2 DEF Picks
      <3> QED
        BY <3>1, <3>3 DEF r
    <2> QED
      BY <2>3, <2>4
  <1>6. \A m \in 0..Len(s) : P(m)
    <2> SUFFICES ASSUME NEW m \in 0..Len(s), ~P(m) PROVE FALSE
      OBVIOUS
    <2> DEFINE T == { x \in 0..Len(s) : ~P(x) }
    <2>1. T \in SUBSET Nat /\ T # {}
      OBVIOUS
    <2>2. PICK x \in T : \A y \in T : x <= y
      <3> HIDE DEF T
      <3> QED
        BY <2>1, SetMin
    <2>3. x \in 0..Len(s) /\ x # 0 /\ ~P(x)
      BY <1>4
    <2> HIDE DEF P
    <2>4. x \in 1..Len(s) /\ x - 1 \in 0..Len(s) /\ ~(x <= x - 1)
      BY <2>3
    <2>5. P(x - 1)
      BY <2>2, <2>4
    <2> QED
      BY <1>5, <2>3, <2>4, <2>5
  <1>7. P(Len(s))
    BY <1>6
  <1> QED
    BY <1>2, <1>7

Rises(n, a) ==
    /\ n \in Nat /\ a \in [1..n -> Int]
    /\ \A i, j \in 1..n : i < j => a[i] < a[j]

Covers(n, a, m, b) == \A i \in 1..m : \E j \in 1..n : a[j] = b[i]

\* Two rising lists of the same numbers are equal.
LEMMA RisingUnique ==
    ASSUME NEW m, NEW n, NEW a, NEW b, Rises(m, a), Rises(n, b),
           Covers(m, a, n, b), Covers(n, b, m, a)
    PROVE  m = n /\ a = b
  <1>0. /\ m \in Nat /\ n \in Nat /\ a \in [1..m -> Int] /\ b \in [1..n -> Int]
        /\ \A i, j \in 1..m : i < j => a[i] < a[j]
        /\ \A i, j \in 1..n : i < j => b[i] < b[j]
        /\ \A i \in 1..m : \E j \in 1..n : b[j] = a[i]
        /\ \A j \in 1..n : \E i \in 1..m : a[i] = b[j]
    BY DEF Rises, Covers
  <1>1. ASSUME NEW i \in 1..m, i \in 1..n, a[i] # b[i],
               \A j \in 1..(i - 1) : a[j] = b[j]
        PROVE  FALSE
    <2>1. PICK j \in 1..n : b[j] = a[i]
      BY <1>0
    <2>2. PICK l \in 1..m : a[l] = b[i]
      BY <1>0, <1>1
    <2>3. ~(j < i)
      <3> SUFFICES ASSUME j < i PROVE FALSE
        BY <1>0
      <3>1. j \in 1..(i - 1) /\ j \in 1..m
        BY <1>0
      <3>2. a[j] = a[i] /\ a[j] < a[i] /\ a[i] \in Int
        BY <1>0, <1>1, <2>1, <3>1
      <3> QED
        BY <1>0, <3>2
    <2>4. ~(l < i)
      <3> SUFFICES ASSUME l < i PROVE FALSE
        BY <1>0
      <3>1. l \in 1..(i - 1) /\ l \in 1..n
        BY <1>0, <1>1
      <3>2. b[l] = b[i] /\ b[l] < b[i] /\ b[i] \in Int
        BY <1>0, <1>1, <2>2, <3>1
      <3> QED
        BY <1>0, <3>2
    <2>5. i < j /\ i < l
      <3>1. j # i /\ l # i
        BY <1>1, <2>1, <2>2
      <3> QED
        BY <2>3, <2>4, <3>1, <1>1
    <2>6. b[i] < a[i] /\ a[i] < b[i] /\ a[i] \in Int /\ b[i] \in Int
      BY <1>0, <1>1, <2>1, <2>2, <2>5
    <2> QED
      BY <1>0, <2>6
  <1>2. \A i \in 1..m : i \in 1..n => a[i] = b[i]
    <2> DEFINE T == { i \in 1..m : i \in 1..n /\ a[i] # b[i] }
    <2> SUFFICES ASSUME T # {} PROVE FALSE
      BY <1>0
    <2>1. T \in SUBSET Nat
      BY <1>0
    <2>2. PICK i \in T : \A y \in T : i <= y
      <3> HIDE DEF T
      <3> QED
        BY <1>0, <2>1, SetMin
    <2>3. \A j \in 1..(i - 1) : j \notin T
      <3> HIDE DEF T
      <3> QED
        BY <1>0, <2>1, <2>2
    <2>4. \A j \in 1..(i - 1) : a[j] = b[j]
      BY <1>0, <2>3
    <2> QED
      BY <1>0, <1>1, <2>2, <2>4
  <1>3. m <= n
    <2> SUFFICES ASSUME n < m PROVE FALSE
      BY <1>0
    <2>1. n + 1 \in 1..m
      BY <1>0
    <2>2. PICK j \in 1..n : b[j] = a[n + 1]
      BY <1>0, <2>1
    <2>3. j \in 1..m /\ j < n + 1
      BY <1>0
    <2>4. a[j] < a[n + 1] /\ a[j] = b[j] /\ a[j] \in Int
      BY <1>0, <1>2, <2>1, <2>3
    <2> QED
      BY <1>0, <2>2, <2>4
  <1>4. n <= m
    <2> SUFFICES ASSUME m < n PROVE FALSE
      BY <1>0
    <2>1. m + 1 \in 1..n
      BY <1>0
    <2>2. PICK j \in 1..m : a[j] = b[m + 1]
      BY <1>0, <2>1
    <2>3. j \in 1..n /\ j < m + 1
      BY <1>0
    <2>4. b[j] < b[m + 1] /\ a[j] = b[j] /\ b[j] \in Int
      BY <1>0, <1>2, <2>1, <2>3
    <2> QED
      BY <1>0, <2>2, <2>4
  <1>5. m = n
    BY <1>0, <1>3, <1>4
  <1>6. \A i \in 1..m : a[i] = b[i]
    BY <1>0, <1>2, <1>5
  <1> QED
    BY <1>0, <1>5, <1>6

\* The elements of s up to n that are in S are at the l places b.
Places(s, S, n, l, b) ==
    /\ n \in Nat /\ Rises(l, b) /\ b \in [1..l -> 1..n]
    /\ \A m \in 1..n : s[m] \in S <=> \E i \in 1..l : b[i] = m

\* They determine what is selected.
LEMMA PlacesDetermine ==
    ASSUME NEW s, NEW S, NEW n, NEW r, NEW q, Picks(s, S, n, r, q),
           NEW l, NEW b, Places(s, S, n, l, b)
    PROVE  Len(r) = l /\ q = b
  <1> DEFINE k == Len(r)
  <1>1. /\ r \in Seq(Range(s) \cap S) /\ q \in [1..k -> 1..n] /\ k \in Nat
        /\ \A i, j \in 1..k : i < j => q[i] < q[j]
        /\ \A i \in 1..k : r[i] = s[q[i]] /\ r[i] \in S
        /\ \A m \in 1..n : s[m] \in S => \E i \in 1..k : q[i] = m
    BY DEF Picks
  <1> HIDE DEF k
  <1>2. /\ n \in Nat /\ Rises(l, b) /\ b \in [1..l -> 1..n]
        /\ \A m \in 1..n : s[m] \in S <=> \E i \in 1..l : b[i] = m
    BY DEF Places
  <1>3. Rises(k, q)
    BY <1>1, <1>2 DEF Rises
  <1>4. Covers(l, b, k, q)
    BY <1>1, <1>2 DEF Covers
  <1>5. Covers(k, q, l, b)
    BY <1>1, <1>2 DEF Covers
  <1>6. k = l /\ q = b
    BY <1>2, <1>3, <1>4, <1>5, RisingUnique
  <1> QED
    BY <1>6 DEF k

LEMMA SameList ==
    ASSUME NEW U, NEW V, NEW s \in Seq(U), NEW t \in Seq(V), Len(s) = Len(t),
           \A i \in 1..Len(t) : s[i] = t[i]
    PROVE  s = t
  <1>1. /\ s = [i \in 1..Len(s) |-> s[i]]
        /\ t = [i \in 1..Len(t) |-> t[i]]
    OBVIOUS
  <1> QED
    BY <1>1

LEMMA SelectedFacts ==
    ASSUME NEW V, NEW s \in Seq(V), NEW S
    PROVE  LET r == Selected(s, S) IN
           /\ r \in Seq(Range(s) \cap S) /\ Range(r) = Range(s) \cap S
           /\ IsInjective(s) => IsInjective(r)
  <1> DEFINE r == Selected(s, S)
  <1>1. PICK q : Picks(s, S, Len(s), r, q)
    BY SelectedPicks
  <1> HIDE DEF r
  <1>2. /\ r \in Seq(Range(s) \cap S) /\ q \in [1..Len(r) -> 1..Len(s)] /\ Len(r) \in Nat
        /\ \A i, j \in 1..Len(r) : i < j => q[i] < q[j]
        /\ \A i \in 1..Len(r) : r[i] = s[q[i]]
        /\ \A m \in 1..Len(s) : s[m] \in S => \E i \in 1..Len(r) : q[i] = m
    BY <1>1 DEF Picks
  <1>3. DOMAIN r = 1..Len(r) /\ DOMAIN s = 1..Len(s)
    BY <1>2
  <1>4. \A x \in Range(s) \cap S : x \in Range(r)
    <2> SUFFICES ASSUME NEW m \in 1..Len(s), s[m] \in S PROVE s[m] \in Range(r)
      BY <1>3 DEF Range
    <2>1. PICK i \in 1..Len(r) : q[i] = m
      BY <1>2
    <2>2. r[i] = s[m]
      BY <1>2, <2>1
    <2> QED
      BY <1>3, <2>2 DEF Range
  <1>5. Range(r) \subseteq Range(s) \cap S
    BY <1>2, <1>3 DEF Range
  <1>6. ASSUME IsInjective(s), NEW i \in 1..Len(r), NEW j \in 1..Len(r), r[i] = r[j]
        PROVE  i = j
    <2>1. q[i] = q[j] /\ q[i] \in Int
      BY <1>2, <1>3, <1>6 DEF IsInjective
    <2>2. ~(i < j) /\ ~(j < i)
      BY <1>2, <2>1
    <2> QED
      BY <2>2
  <1>7. IsInjective(s) => IsInjective(r)
    BY <1>3, <1>6 DEF IsInjective
  <1> QED
    BY <1>2, <1>4, <1>5, <1>7 DEF r

LEMMA SelectedSame ==
    ASSUME NEW V, NEW s \in Seq(V), NEW S, NEW T, Range(s) \cap S = Range(s) \cap T
    PROVE  Selected(s, S) = Selected(s, T)
  <1> DEFINE r == Selected(s, S)
             t == Selected(s, T)
  <1>1. /\ \E q : Picks(s, S, Len(s), r, q)
        /\ \E q : Picks(s, T, Len(s), t, q)
    BY SelectedPicks
  <1> HIDE DEF r, t
  <1>2. PICK q : Picks(s, S, Len(s), r, q)
    BY <1>1
  <1>3. PICK p : Picks(s, T, Len(s), t, p)
    BY <1>1
  <1>4. /\ t \in Seq(Range(s) \cap T) /\ p \in [1..Len(t) -> 1..Len(s)] /\ Len(t) \in Nat
        /\ \A i, j \in 1..Len(t) : i < j => p[i] < p[j]
        /\ \A i \in 1..Len(t) : t[i] = s[p[i]] /\ t[i] \in T
        /\ \A m \in 1..Len(s) : s[m] \in T => \E i \in 1..Len(t) : p[i] = m
    BY <1>3 DEF Picks
  <1>5. \A m \in 1..Len(s) : s[m] \in S <=> s[m] \in T
    <2>1. \A m \in 1..Len(s) : s[m] \in Range(s)
      BY DEF Range
    <2> QED
      BY <2>1
  <1>6. \A m \in 1..Len(s) : s[m] \in S <=> \E i \in 1..Len(t) : p[i] = m
    BY <1>4, <1>5
  <1> DEFINE l == Len(t)
             n == Len(s)
  <1>7. Len(r) = l /\ q = p
    <2>1. /\ l \in Nat /\ n \in Nat /\ p \in [1..l -> 1..n] /\ Picks(s, S, n, r, q)
          /\ \A i, j \in 1..l : i < j => p[i] < p[j]
          /\ \A m \in 1..n : s[m] \in S <=> \E i \in 1..l : p[i] = m
      BY <1>2, <1>4, <1>6
    <2> HIDE DEF l, n
    <2>2. Places(s, S, n, l, p)
      BY <2>1 DEF Places, Rises
    <2>3. Len(r) = l /\ q = p
      BY <2>1, <2>2, PlacesDetermine
    <2> QED
      BY <2>3 DEF l
  <1>8. /\ r \in Seq(Range(s) \cap S) /\ Len(r) = Len(t)
        /\ \A i \in 1..Len(t) : r[i] = t[i]
    BY <1>2, <1>4, <1>7 DEF Picks
  <1>9. r = t
    BY <1>4, <1>8, SameList
  <1> QED
    BY <1>9 DEF r, t

\* A list that begins with its elements in S.
LEMMA SelectedFront ==
    ASSUME NEW V, NEW u \in Seq(V), NEW v \in Seq(V), NEW S,
           Range(u) \subseteq S, Range(v) \cap S = {}
    PROVE  /\ Selected(u \o v, S) = u
           /\ u = SubSeq(u \o v, 1, Len(u))
  <1> DEFINE s == u \o v
             r == Selected(s, S)
             b == [i \in 1..Len(u) |-> i]
             l == Len(u)
             n == Len(s)
  <1>1. /\ s \in Seq(V) /\ Len(s) = Len(u) + Len(v)
        /\ \A i \in 1..Len(u) : s[i] = u[i]
        /\ \A i \in (Len(u) + 1)..Len(s) : s[i] = v[i - Len(u)]
        /\ Len(u) \in Nat /\ Len(v) \in Nat
    OBVIOUS
  <1> HIDE DEF s
  <1>2. PICK q : Picks(s, S, Len(s), r, q)
    BY <1>1, SelectedPicks
  <1> HIDE DEF r
  <1>3. \A m \in 1..Len(s) : s[m] \in S <=> m \in 1..Len(u)
    <2> SUFFICES ASSUME NEW m \in 1..Len(s) PROVE s[m] \in S <=> m \in 1..Len(u)
      OBVIOUS
    <2>1. CASE m \in 1..Len(u)
      <3>1. s[m] = u[m] /\ u[m] \in Range(u)
        BY <1>1, <2>1 DEF Range
      <3> QED
        BY <2>1, <3>1
    <2>2. CASE m \notin 1..Len(u)
      <3>1. m \in (Len(u) + 1)..Len(s) /\ m - Len(u) \in 1..Len(v)
        BY <1>1, <2>2
      <3>2. s[m] = v[m - Len(u)] /\ v[m - Len(u)] \in Range(v)
        BY <1>1, <3>1 DEF Range
      <3> QED
        BY <2>2, <3>2
    <2> QED
      BY <2>1, <2>2
  <1>4. Len(r) = l /\ q = b
    <2>1. /\ l \in Nat /\ n \in Nat /\ b \in [1..l -> 1..n] /\ Picks(s, S, n, r, q)
          /\ \A i \in 1..l : b[i] = i
      BY <1>1, <1>2
    <2>2. \A i, j \in 1..l : i < j => b[i] < b[j]
      BY <2>1
    <2>3. \A m \in 1..n : s[m] \in S <=> \E i \in 1..l : b[i] = m
      BY <1>1, <1>3, <2>1
    <2> HIDE DEF l, n, b
    <2>4. Places(s, S, n, l, b)
      BY <2>1, <2>2, <2>3 DEF Places, Rises
    <2> QED
      BY <2>1, <2>4, PlacesDetermine
  <1>5. /\ r \in Seq(Range(s) \cap S) /\ Len(r) = Len(u)
        /\ \A i \in 1..Len(u) : r[i] = u[i]
    BY <1>1, <1>2, <1>4 DEF Picks
  <1>6. r = u
    BY <1>5, SameList
  <1>7. u = SubSeq(s, 1, Len(u))
    <2>1. /\ Len(SubSeq(s, 1, l)) = l /\ SubSeq(s, 1, l) \in Seq(V)
          /\ \A i \in 1..l : SubSeq(s, 1, l)[i] = s[i]
      <3>1. /\ l \in Int /\ 1 \in Int /\ \A i \in 1..l : s[i] \in V
        BY <1>1
      <3>2. l \in Nat
        BY <1>1
      <3> HIDE DEF l
      <3>3. /\ SubSeq(s, 1, l) \in Seq(V)
            /\ Len(SubSeq(s, 1, l)) = IF 1 <= l THEN l - 1 + 1 ELSE 0
            /\ \A i \in 1..l - 1 + 1 : SubSeq(s, 1, l)[i] = s[1 + i - 1]
        BY <3>1, SubSeqProperties
      <3> QED
        BY <3>2, <3>3
    <2> QED
      BY <1>1, <2>1
  <1> QED
    BY <1>6, <1>7 DEF r, s

-----------------------------------------------------------------------------
(* The order of the indices *)

LEMMA Numbered ==
    ASSUME NEW m \in 1..Len(IndexNames)
    PROVE  /\ is_index(IndexNames[m]) /\ IndexNames[m] \in Indices
           /\ canonical_array_index(IndexNames[m]) = m - 1
  <1>1. IndexNames \in Seq(Keys) /\ IsInjective(IndexNames)
    BY KeysAssumption
  <1>2. m \in DOMAIN IndexNames
    BY <1>1
  <1>3. is_index(IndexNames[m]) /\ IndexNames[m] \in Indices
    BY <1>2 DEF is_index, Range, Indices
  <1> DEFINE c == canonical_array_index(IndexNames[m]) + 1
  <1>4. c \in DOMAIN IndexNames /\ IndexNames[c] = IndexNames[m]
    BY <1>3, IndexOf
  <1>5. canonical_array_index(IndexNames[m]) \in Nat
    BY <1>3, IndexOf
  <1> HIDE DEF c
  <1>6. c = m
    BY <1>1, <1>2, <1>4 DEF IsInjective
  <1> QED
    BY <1>3, <1>5, <1>6 DEF c

\* A list of indices in strictly ascending order.
Sorted(u) ==
    /\ u \in Seq(Indices)
    /\ \A i, j \in 1..Len(u) :
          i < j => canonical_array_index(u[i]) < canonical_array_index(u[j])

LEMMA SortedUnique ==
    ASSUME NEW u, NEW v, Sorted(u), Sorted(v), Range(u) = Range(v)
    PROVE  u = v
  <1> DEFINE a == [i \in 1..Len(u) |-> canonical_array_index(u[i])]
             b == [i \in 1..Len(v) |-> canonical_array_index(v[i])]
             m == Len(u)
             n == Len(v)
  <1>1. /\ u \in Seq(Indices) /\ v \in Seq(Indices) /\ m \in Nat /\ n \in Nat
        /\ \A i \in 1..m : u[i] \in Indices
        /\ \A i \in 1..n : v[i] \in Indices
        /\ DOMAIN u = 1..m /\ DOMAIN v = 1..n
    BY DEF Sorted
  <1>2. \A k \in Indices : /\ canonical_array_index(k) \in Nat
                           /\ IndexNames[canonical_array_index(k) + 1] = k
    BY IndexOf DEF is_index, Indices
  <1>3. Rises(m, a)
    <2>1. /\ \A i \in 1..m : a[i] = canonical_array_index(u[i]) /\ a[i] \in Int
          /\ a = [i \in 1..m |-> a[i]]
      BY <1>1, <1>2
    <2>2. \A i, j \in 1..m : i < j => a[i] < a[j]
      BY <2>1 DEF Sorted
    <2> HIDE DEF a, m
    <2> QED
      BY <1>1, <2>1, <2>2 DEF Rises
  <1>4. Rises(n, b)
    <2>1. /\ \A i \in 1..n : b[i] = canonical_array_index(v[i]) /\ b[i] \in Int
          /\ b = [i \in 1..n |-> b[i]]
      BY <1>1, <1>2
    <2>2. \A i, j \in 1..n : i < j => b[i] < b[j]
      BY <2>1 DEF Sorted
    <2> HIDE DEF b, n
    <2> QED
      BY <1>1, <2>1, <2>2 DEF Rises
  <1>5. /\ \A i \in 1..m : \E j \in 1..n : v[j] = u[i]
        /\ \A j \in 1..n : \E i \in 1..m : u[i] = v[j]
    BY <1>1 DEF Range
  <1>6. Covers(n, b, m, a) /\ Covers(m, a, n, b)
    BY <1>5 DEF Covers
  <1>7. m = n /\ a = b
    <2> HIDE DEF a, b, m, n
    <2> QED
      BY <1>3, <1>4, <1>6, RisingUnique
  <1>8. \A i \in 1..n : u[i] = v[i]
    <2> TAKE i \in 1..n
    <2>1. a[i] = b[i] /\ i \in 1..m
      BY <1>7
    <2>2. canonical_array_index(u[i]) = canonical_array_index(v[i])
      BY <2>1
    <2>3. u[i] \in Indices /\ v[i] \in Indices
      BY <1>1, <2>1
    <2> QED
      BY <1>2, <2>2, <2>3
  <1> QED
    BY <1>1, <1>7, <1>8, SameList

LEMMA NamesSorted ==
    ASSUME NEW S
    PROVE  LET r == Selected(IndexNames, S)
           IN  Sorted(r) /\ Range(r) = Indices \cap S /\ IsInjective(r)
  <1> DEFINE r == Selected(IndexNames, S)
  <1>1. IndexNames \in Seq(Keys) /\ IsInjective(IndexNames)
    BY KeysAssumption
  <1>2. /\ r \in Seq(Range(IndexNames) \cap S) /\ Range(r) = Range(IndexNames) \cap S
        /\ IsInjective(r)
    BY <1>1, SelectedFacts
  <1>3. PICK q : Picks(IndexNames, S, Len(IndexNames), r, q)
    BY <1>1, SelectedPicks
  <1> HIDE DEF r
  <1>4. /\ q \in [1..Len(r) -> 1..Len(IndexNames)] /\ Len(IndexNames) \in Nat
        /\ \A i, j \in 1..Len(r) : i < j => q[i] < q[j]
        /\ \A i \in 1..Len(r) : r[i] = IndexNames[q[i]]
    BY <1>1, <1>3 DEF Picks
  <1>5. \A i \in 1..Len(r) : canonical_array_index(r[i]) = q[i] - 1
    BY <1>4, Numbered
  <1>6. r \in Seq(Indices)
    BY <1>2 DEF Indices
  <1>7. ASSUME NEW i \in 1..Len(r), NEW j \in 1..Len(r), i < j
        PROVE  canonical_array_index(r[i]) < canonical_array_index(r[j])
    <2>1. q[i] < q[j] /\ q[i] \in Int /\ q[j] \in Int
      BY <1>4, <1>7
    <2> QED
      BY <1>5, <2>1
  <1>8. Sorted(r)
    BY <1>6, <1>7 DEF Sorted
  <1> QED
    BY <1>2, <1>8 DEF Indices, r

\* An order that ascends exists: that of the names.
LEMMA AscentExists ==
    ASSUME NEW s \in Seq(Indices), IsInjective(s)
    PROVE  \E q \in [1..Len(s) -> 1..Len(s)] :
              /\ IsInjective(q)
              /\ \A i, j \in 1..Len(s) :
                    i < j => canonical_array_index(s[q[i]]) <= canonical_array_index(s[q[j]])
  <1> DEFINE r == Selected(IndexNames, Range(s))
             n == Len(s)
             m == Len(r)
             p == [i \in 1..m |-> CHOOSE j \in 1..n : s[j] = r[i]]
  <1>1. Sorted(r) /\ Range(r) = Indices \cap Range(s) /\ IsInjective(r)
    BY NamesSorted
  <1>2. n \in Nat /\ DOMAIN s = 1..n /\ Range(s) \subseteq Indices /\ \A j \in 1..n : s[j] \in Indices
    BY DEF Range
  <1> HIDE DEF r
  <1>3. m \in Nat /\ DOMAIN r = 1..m
    BY <1>1 DEF Sorted
  <1>4. \A i \in 1..m : \E j \in 1..n : s[j] = r[i]
    BY <1>1, <1>2, <1>3 DEF Range
  <1>5. p \in [1..m -> 1..n] /\ \A i \in 1..m : s[p[i]] = r[i]
    BY <1>4
  <1>6. \A j \in 1..n : \E i \in 1..m : r[i] = s[j]
    <2> TAKE j \in 1..n
    <2>1. s[j] \in Range(r)
      BY <1>1, <1>2 DEF Range
    <2> QED
      BY <2>1, <1>3 DEF Range
  <1> HIDE DEF p, n, m
  <1>7. IsInjective(p)
    BY <1>1, <1>3, <1>5 DEF IsInjective
  <1>8. p \in Surjection(1..m, 1..n)
    <2>1. ASSUME NEW j \in 1..n PROVE \E i \in 1..m : p[i] = j
      <3>1. PICK i \in 1..m : r[i] = s[j]
        BY <1>6
      <3>2. s[p[i]] = s[j] /\ p[i] \in 1..n
        BY <1>5, <3>1
      <3>3. p[i] = j
        BY <1>2, <3>2 DEF IsInjective
      <3> QED
        BY <3>3
    <2> QED
      BY <1>5, <2>1 DEF Surjection
  <1>9. m = n
    <2>1. ExistsBijection(1..m, 1..n)
      BY <1>5, <1>7, <1>8 DEF ExistsBijection, Bijection, Injection, Surjection
    <2>2. /\ IsFiniteSet(1..m) /\ IsFiniteSet(1..n)
          /\ Cardinality(1..m) = IF 1 > m THEN 0 ELSE m - 1 + 1
          /\ Cardinality(1..n) = IF 1 > n THEN 0 ELSE n - 1 + 1
      BY <1>2, <1>3, FS_Interval
    <2>3. Cardinality(1..m) = Cardinality(1..n)
      BY <2>1, <2>2, FS_Bijection
    <2> QED
      BY <2>2, <2>3, <1>2, <1>3
  <1>10. \A i, j \in 1..n : i < j => canonical_array_index(s[p[i]]) <= canonical_array_index(s[p[j]])
    <2> SUFFICES ASSUME NEW i \in 1..n, NEW j \in 1..n, i < j
                 PROVE  canonical_array_index(s[p[i]]) <= canonical_array_index(s[p[j]])
      OBVIOUS
    <2>1. canonical_array_index(r[i]) < canonical_array_index(r[j])
      BY <1>1, <1>9 DEF Sorted, m
    <2>2. r[i] \in Indices /\ r[j] \in Indices
      BY <1>1, <1>3, <1>9 DEF Range
    <2>3. canonical_array_index(r[i]) \in Nat /\ canonical_array_index(r[j]) \in Nat
      BY <2>2, IndexOf DEF is_index, Indices
    <2>4. s[p[i]] = r[i] /\ s[p[j]] = r[j]
      BY <1>5, <1>9
    <2> QED
      BY <2>1, <2>3, <2>4
  <1>11. p \in [1..n -> 1..n]
    BY <1>5, <1>9
  <1> QED
    BY <1>7, <1>10, <1>11 DEF n

LEMMA ByIndexSorts ==
    ASSUME NEW s \in Seq(Indices), IsInjective(s)
    PROVE  ByIndex(s) = Selected(IndexNames, Range(s))
  <1> DEFINE n == Len(s)
             Ascends(p) == \A i, j \in 1..Len(s) :
                i < j => canonical_array_index(s[p[i]]) <= canonical_array_index(s[p[j]])
             q == CHOOSE p \in [1..Len(s) -> 1..Len(s)] : IsInjective(p) /\ Ascends(p)
             r == [i \in 1..Len(s) |-> s[q[i]]]
  <1>1. ByIndex(s) = r
    BY DEF ByIndex
  <1>2. q \in [1..n -> 1..n] /\ IsInjective(q) /\ Ascends(q)
    <2>1. \E p \in [1..Len(s) -> 1..Len(s)] : IsInjective(p) /\ Ascends(p)
      BY AscentExists
    <2> QED
      BY <2>1
  <1>3. \A i, j \in 1..n : i < j => canonical_array_index(s[q[i]]) <= canonical_array_index(s[q[j]])
    BY <1>2
  <1> HIDE DEF q, Ascends
  <1>4. n \in Nat /\ DOMAIN s = 1..n /\ \A j \in 1..n : s[j] \in Indices
    OBVIOUS
  <1>5. /\ r = [i \in 1..n |-> s[q[i]]] /\ DOMAIN r = 1..n
        /\ \A i \in 1..n : r[i] = s[q[i]] /\ r[i] \in Indices
    BY <1>2, <1>4
  <1> HIDE DEF r
  <1>6. r \in Seq(Indices) /\ Len(r) = n
    BY <1>4, <1>5
  <1>7. q \in Surjection(1..n, 1..n)
    <2>1. IsFiniteSet(1..n)
      BY <1>4, FS_Interval
    <2>2. q \in Injection(1..n, 1..n)
      BY <1>2 DEF Injection
    <2> QED
      BY <2>1, <2>2, FS_Injection
  <1> HIDE DEF n
  <1>8. \A j \in 1..n : \E i \in 1..n : q[i] = j
    BY <1>7 DEF Surjection
  <1>9. Range(r) = Range(s)
    <2>1. \A i \in 1..n : r[i] \in Range(s)
      BY <1>2, <1>4, <1>5 DEF Range
    <2>2. \A j \in 1..n : s[j] \in Range(r)
      <3> TAKE j \in 1..n
      <3>1. PICK i \in 1..n : q[i] = j
        BY <1>8
      <3> QED
        BY <1>5, <3>1 DEF Range
    <2>3. Range(r) = { r[i] : i \in 1..n } /\ Range(s) = { s[i] : i \in 1..n }
      BY <1>4, <1>5 DEF Range
    <2> QED
      BY <2>1, <2>2, <2>3
  <1>10. Sorted(r)
    <2> SUFFICES ASSUME NEW i \in 1..n, NEW j \in 1..n, i < j
                 PROVE  canonical_array_index(r[i]) < canonical_array_index(r[j])
      BY <1>6 DEF Sorted
    <2>1. canonical_array_index(r[i]) <= canonical_array_index(r[j])
      BY <1>3, <1>5
    <2>2. r[i] \in Indices /\ r[j] \in Indices
      BY <1>5
    <2>3. /\ canonical_array_index(r[i]) \in Nat /\ canonical_array_index(r[j]) \in Nat
          /\ IndexNames[canonical_array_index(r[i]) + 1] = r[i]
          /\ IndexNames[canonical_array_index(r[j]) + 1] = r[j]
      BY <2>2, IndexOf DEF is_index, Indices
    <2>4. r[i] # r[j]
      <3>1. q[i] # q[j] /\ q[i] \in 1..n /\ q[j] \in 1..n
        BY <1>2, <1>4 DEF IsInjective
      <3> QED
        BY <1>4, <1>5, <3>1 DEF IsInjective
    <2> QED
      BY <2>1, <2>3, <2>4
  <1>11. Range(s) \subseteq Indices
    BY <1>4 DEF Range
  <1>12. r = Selected(IndexNames, Range(s))
    BY <1>9, <1>10, <1>11, NamesSorted, SortedUnique
  <1> QED
    BY <1>1, <1>12

-----------------------------------------------------------------------------
(* What own_property_keys lists *)

LEMMA JoinFacts ==
    ASSUME NEW V, NEW u \in Seq(V), NEW v \in Seq(V)
    PROVE  /\ u \o v \in Seq(V)
           /\ Range(u \o v) = Range(u) \cup Range(v)
           /\ IsInjective(u) /\ IsInjective(v) /\ Range(u) \cap Range(v) = {} =>
                IsInjective(u \o v)
  <1> DEFINE s == u \o v
             m == Len(u)
             n == Len(v)
  <1>1. /\ s \in Seq(V) /\ Len(s) = m + n /\ m \in Nat /\ n \in Nat
        /\ \A i \in 1..m : s[i] = u[i]
        /\ \A i \in (m + 1)..(m + n) : s[i] = v[i - m]
        /\ DOMAIN s = 1..(m + n) /\ DOMAIN u = 1..m /\ DOMAIN v = 1..n
    OBVIOUS
  <1>2. /\ Range(s) = { s[i] : i \in 1..(m + n) }
        /\ Range(u) = { u[i] : i \in 1..m } /\ Range(v) = { v[i] : i \in 1..n }
    BY <1>1 DEF Range
  <1> HIDE DEF s, m, n
  <1>3. Range(s) = Range(u) \cup Range(v)
    <2>1. ASSUME NEW i \in 1..(m + n) PROVE s[i] \in Range(u) \cup Range(v)
      <3>1. CASE i \in 1..m
        BY <3>1, <1>1, <1>2
      <3>2. CASE i \notin 1..m
        <4>1. i \in (m + 1)..(m + n) /\ i - m \in 1..n
          BY <3>2, <1>1
        <4> QED
          BY <4>1, <1>1, <1>2
      <3> QED
        BY <3>1, <3>2
    <2>2. ASSUME NEW i \in 1..m PROVE u[i] \in Range(s)
      <3>1. i \in 1..(m + n) /\ s[i] = u[i]
        BY <1>1
      <3> QED
        BY <3>1, <1>2
    <2>3. ASSUME NEW i \in 1..n PROVE v[i] \in Range(s)
      <3>1. i + m \in (m + 1)..(m + n) /\ i + m \in 1..(m + n) /\ (i + m) - m = i
        BY <1>1
      <3>2. s[i + m] = v[i]
        BY <3>1, <1>1
      <3> QED
        BY <3>1, <3>2, <1>2
    <2> QED
      BY <2>1, <2>2, <2>3, <1>2
  <1>4. ASSUME IsInjective(u), IsInjective(v), Range(u) \cap Range(v) = {}
        PROVE  IsInjective(s)
    <2> SUFFICES ASSUME NEW i \in 1..(m + n), NEW j \in 1..(m + n), s[i] = s[j] PROVE i = j
      BY <1>1 DEF IsInjective
    <2>1. \A l \in 1..(m + n) : l \notin 1..m => s[l] = v[l - m] /\ l - m \in 1..n
      <3> SUFFICES ASSUME NEW l \in 1..(m + n), l \notin 1..m
                   PROVE  s[l] = v[l - m] /\ l - m \in 1..n
        OBVIOUS
      <3>1. l \in (m + 1)..(m + n) /\ l - m \in 1..n
        BY <1>1
      <3> QED
        BY <3>1, <1>1
    <2>2. CASE i \in 1..m /\ j \in 1..m
      BY <2>2, <1>1, <1>4 DEF IsInjective
    <2>3. CASE i \notin 1..m /\ j \notin 1..m
      <3>1. i - m \in 1..n /\ j - m \in 1..n /\ v[i - m] = v[j - m]
        BY <2>1, <2>3
      <3>2. i - m = j - m
        BY <3>1, <1>1, <1>4 DEF IsInjective
      <3> QED
        BY <3>2, <1>1
    <2>4. CASE i \in 1..m /\ j \notin 1..m
      BY <2>1, <2>4, <1>1, <1>2, <1>4
    <2>5. CASE i \notin 1..m /\ j \in 1..m
      BY <2>1, <2>5, <1>1, <1>2, <1>4
    <2> QED
      BY <2>2, <2>3, <2>4, <2>5
  <1> QED
    BY <1>1, <1>3, <1>4 DEF s

\* The list of an insertion order, cut by sets.
Ordered(obj) ==
    /\ obj.property_order \in Seq(DOMAIN obj.properties)
    /\ Range(obj.property_order) = DOMAIN obj.properties
    /\ IsInjective(obj.property_order)

\* Three lists without common elements, the first the only one with indices.
Lists(t, K) ==
    /\ Range(t) = K /\ IsInjective(t)
    /\ Selected(t, Indices) = SubSeq(t, 1, Len(Selected(t, Indices)))
    /\ Selected(t, Indices) = Selected(IndexNames, Range(t))

LEMMA ListedInOrder ==
    ASSUME NEW S, NEW u, u = Selected(IndexNames, S),
           NEW v \in Seq(Keys), IsInjective(v), Range(v) \cap Indices = {}, NEW t, t = u \o v
    PROVE  Lists(t, (Indices \cap S) \cup Range(v))
  <1>1. Sorted(u) /\ Range(u) = Indices \cap S /\ IsInjective(u)
    BY NamesSorted
  <1>2. u \in Seq(Keys) /\ Indices \subseteq Keys
    <2>1. IndexNames \in Seq(Keys)
      BY KeysAssumption
    <2>2. Indices \subseteq Keys
      BY <2>1 DEF Indices, Range
    <2> QED
      BY <1>1, <2>2 DEF Sorted
  <1>3. Range(t) = (Indices \cap S) \cup Range(v) /\ IsInjective(t)
    BY <1>1, <1>2, JoinFacts
  <1>4. Selected(t, Indices) = u /\ u = SubSeq(t, 1, Len(u))
    BY <1>1, <1>2, SelectedFront
  <1>5. u = Selected(IndexNames, Range(t))
    <2>1. Range(IndexNames) \cap S = Range(IndexNames) \cap Range(t)
      BY <1>3 DEF Indices
    <2>2. IndexNames \in Seq(Keys)
      BY KeysAssumption
    <2> QED
      BY <2>1, <2>2, SelectedSame
  <1> QED
    BY <1>3, <1>4, <1>5, Zenon DEF Lists

LEMMA OrderedPart ==
    ASSUME NEW obj, ObjectOK(obj), Ordered(obj), NEW S
    PROVE  LET r == Selected(obj.property_order, S) IN
           /\ r \in Seq(Keys) /\ r \in Seq(S) /\ Range(r) = DOMAIN obj.properties \cap S
           /\ IsInjective(r)
  <1> DEFINE r == Selected(obj.property_order, S)
  <1>1. /\ r \in Seq(DOMAIN obj.properties \cap S) /\ Range(r) = DOMAIN obj.properties \cap S
        /\ IsInjective(r)
    BY SelectedFacts DEF Ordered
  <1>2. DOMAIN obj.properties \subseteq Keys
    BY DEF ObjectOK
  <1> HIDE DEF r
  <1>3. r \in Seq(Keys) /\ r \in Seq(S)
    BY <1>1, <1>2
  <1> QED
    BY <1>1, <1>3 DEF r

LEMMA OrdinaryListed ==
    ASSUME NEW obj, ObjectOK(obj), Ordered(obj), obj.kind \notin {"string", "array", "function"}
    PROVE  KeysListed(obj)
  <1> DEFINE o == obj.property_order
             a == Selected(o, Indices)
             b == Selected(o, Keys \ (Indices \cup Symbols))
             c == Selected(o, Symbols)
             v == b \o c
             t == own_property_keys(obj)
             D == DOMAIN obj.properties
  <1>1. /\ a \in Seq(Indices) /\ Range(a) = D \cap Indices /\ IsInjective(a)
        /\ b \in Seq(Keys) /\ Range(b) = D \cap (Keys \ (Indices \cup Symbols)) /\ IsInjective(b)
        /\ c \in Seq(Keys) /\ Range(c) = D \cap Symbols /\ IsInjective(c)
    BY OrderedPart
  <1>2. t = ByIndex(a) \o b \o c
    BY DEF own_property_keys
  <1>3. { k \in Keys : has_own(obj, k) } = D
    <2>1. D \subseteq Keys
      BY DEF ObjectOK
    <2>2. \A k : has_own(obj, k) <=> k \in D
      BY DEF has_own, InTable, is_virtual, string_exotic_property
    <2> QED
      BY <2>1, <2>2
  <1>4. D \subseteq Keys /\ Symbols \cap Indices = {}
    BY KeysAssumption DEF ObjectOK, Indices
  <1> HIDE DEF a, b, c, o, t, D
  <1>5. ByIndex(a) = Selected(IndexNames, D \cap Indices)
    BY <1>1, ByIndexSorts
  <1> DEFINE u == Selected(IndexNames, D \cap Indices)
  <1>6. v \in Seq(Keys) /\ Range(v) = Range(b) \cup Range(c) /\ IsInjective(v)
    BY <1>1, JoinFacts
  <1>7. t = u \o v
    <2>1. Sorted(u)
      BY NamesSorted
    <2> HIDE DEF u
    <2> QED
      BY <1>1, <1>2, <1>5, <2>1 DEF u, Sorted
  <1> HIDE DEF u, v
  <1>8. Range(v) \cap Indices = {}
    BY <1>1, <1>4, <1>6
  <1>9. Lists(t, (Indices \cap (D \cap Indices)) \cup Range(v))
    <2> DEFINE S == D \cap Indices
    <2>1. u = Selected(IndexNames, S)
      BY DEF u
    <2> HIDE DEF S
    <2>2. Lists(t, (Indices \cap S) \cup Range(v))
      BY <1>6, <1>7, <1>8, <2>1, ListedInOrder
    <2> QED
      BY <2>2 DEF S
  <1>10. (Indices \cap (D \cap Indices)) \cup Range(v) = D
    BY <1>1, <1>4, <1>6
  <1> QED
    BY <1>3, <1>9, <1>10 DEF KeysListed, Lists, t

LEMMA ArrayListed ==
    ASSUME NEW obj, ObjectOK(obj), TableAgrees(obj), obj.kind = "array"
    PROVE  KeysListed(obj)
  <1> DEFINE o == obj.property_order
             E == { k \in Indices : is_dense(obj, k) }
             D == DOMAIN obj.properties
             e == Selected(IndexNames, E)
             f == Selected(IndexNames, D)
             c == Selected(o, Keys \ Indices)
             v == <<"length">> \o c
             t == own_property_keys(obj)
             S == E \cup (D \cap Indices)
             u == Selected(IndexNames, S)
  <1>0. Ordered(obj)
    BY DEF TableAgrees, Ordered
  <1>1. c \in Seq(Keys) /\ Range(c) = D \cap (Keys \ Indices) /\ IsInjective(c)
    BY <1>0, OrderedPart
  <1>2. t = ByIndex(e \o f) \o <<"length">> \o c
    BY DEF own_property_keys
  <1>3. /\ Sorted(e) /\ Range(e) = Indices \cap E /\ IsInjective(e)
        /\ Sorted(f) /\ Range(f) = Indices \cap D /\ IsInjective(f)
        /\ Sorted(u) /\ Range(u) = Indices \cap S /\ IsInjective(u)
    BY NamesSorted
  <1>4. D \subseteq Keys /\ "length" \in Keys \ Indices /\ "length" \notin D /\ Indices \subseteq Keys
    BY KeysAssumption DEF ObjectOK, Indices, InTable, Range
  <1>5. E \cap D = {}
    BY <1>4 DEF TableAgrees, InTable, is_index, Indices
  <1>6. { k \in Keys : has_own(obj, k) } = D \cup {"length"} \cup E
    <2>1. \A k : has_own(obj, k) <=> k \in D \/ k = "length" \/ is_dense(obj, k)
      BY DEF has_own, InTable, is_virtual, string_exotic_property
    <2>2. \A k : is_dense(obj, k) => k \in Indices
      BY DEF is_dense, is_index, Indices
    <2> QED
      BY <2>1, <2>2, <1>4
  <1> HIDE DEF E, D, e, f, o, c, t
  <1>7. e \o f \in Seq(Indices) /\ Range(e \o f) = Range(e) \cup Range(f) /\ IsInjective(e \o f)
    BY <1>3, <1>5, JoinFacts DEF Sorted
  <1>e. E \subseteq Indices
    BY DEF E
  <1>8. ByIndex(e \o f) = u
    <2>1. Range(e \o f) = S
      BY <1>3, <1>7, <1>e
    <2> QED
      BY <1>7, <2>1, ByIndexSorts
  <1>9. v \in Seq(Keys) /\ Range(v) = {"length"} \cup Range(c) /\ IsInjective(v)
    <2> DEFINE w == <<"length">>
    <2>1. w \in Seq(Keys) /\ Range(w) = {"length"} /\ IsInjective(w)
      BY <1>4 DEF Range, IsInjective
    <2> HIDE DEF w
    <2>2. Range(w) \cap Range(c) = {}
      BY <1>1, <1>4, <2>1
    <2>3. w \o c \in Seq(Keys) /\ Range(w \o c) = {"length"} \cup Range(c) /\ IsInjective(w \o c)
      BY <1>1, <2>1, <2>2, JoinFacts
    <2> QED
      BY <2>3 DEF w
  <1>10. t = u \o v
    <2> DEFINE w == <<"length">>
    <2>1. u \in Seq(Keys) /\ w \in Seq(Keys)
      BY <1>3, <1>4 DEF Sorted
    <2>2. t = u \o w \o c
      BY <1>2, <1>8
    <2> HIDE DEF w, u
    <2>3. t = u \o (w \o c)
      BY <1>1, <2>1, <2>2, SMTT(20)
    <2> QED
      BY <2>3 DEF w
  <1> HIDE DEF v, u, S
  <1>11. Range(v) \cap Indices = {}
    BY <1>1, <1>4, <1>9
  <1>12. Lists(t, (Indices \cap S) \cup Range(v))
    <2>1. u = Selected(IndexNames, S)
      BY DEF u
    <2> QED
      BY <1>9, <1>10, <1>11, <2>1, ListedInOrder
  <1>13. (Indices \cap S) \cup Range(v) = D \cup {"length"} \cup E
    BY <1>1, <1>4, <1>9, <1>e DEF S
  <1> QED
    BY <1>6, <1>12, <1>13 DEF KeysListed, Lists, t

LEMMA StringListed ==
    ASSUME NEW obj, ObjectOK(obj), Ordered(obj), obj.kind = "string"
    PROVE  KeysListed(obj)
  <1> DEFINE n == Len(StringUnits)
             X == { k \in Keys : ~string_exotic_property(obj, k) }
             D == DOMAIN obj.properties
             u == SubSeq(IndexNames, 1, n)
             w == <<"length">>
             c == Selected(obj.property_order, X)
             t == own_property_keys(obj)
  <1>1. c \in Seq(Keys) /\ Range(c) = D \cap X /\ IsInjective(c)
    BY OrderedPart
  <1>2. t = u \o w \o c
    BY DEF own_property_keys
  <1>3. /\ IndexNames \in Seq(Keys) /\ IsInjective(IndexNames) /\ "length" \in Keys \ Indices
        /\ n \in Nat /\ n <= Len(IndexNames) /\ DOMAIN IndexNames = 1..Len(IndexNames)
        /\ Len(IndexNames) \in Nat
    BY KeysAssumption DEF Indices
  <1>4. /\ u \in Seq(Keys) /\ Len(u) = n /\ DOMAIN u = 1..n
        /\ \A i \in 1..n : u[i] = IndexNames[i]
    <2>1. n \in Int /\ 1 \in Int /\ \A i \in 1..n : IndexNames[i] \in Keys
      BY <1>3
    <2> HIDE DEF n
    <2>2. /\ SubSeq(IndexNames, 1, n) \in Seq(Keys)
          /\ Len(SubSeq(IndexNames, 1, n)) = IF 1 <= n THEN n - 1 + 1 ELSE 0
          /\ \A i \in 1..n - 1 + 1 : SubSeq(IndexNames, 1, n)[i] = IndexNames[1 + i - 1]
      BY <2>1, SubSeqProperties
    <2> QED
      BY <1>3, <2>2
  <1> HIDE DEF u, n, c, t, X
  <1>5. IsInjective(u)
    <2> SUFFICES ASSUME NEW i \in 1..n, NEW j \in 1..n, u[i] = u[j] PROVE i = j
      BY <1>4 DEF IsInjective
    <2>1. i \in DOMAIN IndexNames /\ j \in DOMAIN IndexNames
      BY <1>3
    <2> QED
      BY <1>3, <1>4, <2>1 DEF IsInjective
  <1>6. Range(u) = { k \in Indices : canonical_array_index(k) < n }
    <2>1. Range(u) = { IndexNames[i] : i \in 1..n }
      BY <1>4 DEF Range
    <2>2. ASSUME NEW i \in 1..n
          PROVE  IndexNames[i] \in Indices /\ canonical_array_index(IndexNames[i]) < n
      <3>1. i \in 1..Len(IndexNames)
        BY <1>3
      <3> QED
        BY <3>1, <1>3, Numbered
    <2>3. ASSUME NEW k \in Indices, canonical_array_index(k) < n
          PROVE  \E i \in 1..n : IndexNames[i] = k
      <3>1. /\ canonical_array_index(k) \in Nat
            /\ IndexNames[canonical_array_index(k) + 1] = k
        BY IndexOf DEF is_index, Indices
      <3>2. canonical_array_index(k) + 1 \in 1..n
        BY <2>3, <3>1, <1>3
      <3> QED
        BY <3>1, <3>2
    <2> QED
      BY <2>1, <2>2, <2>3
  <1>7. \A k \in Keys : string_exotic_property(obj, k) <=> k = "length" \/ k \in Range(u)
    BY <1>6 DEF string_exotic_property, n, is_index, Indices
  <1>8. { k \in Keys : has_own(obj, k) } = (D \cap X) \cup {"length"} \cup Range(u)
    <2>1. \A k : has_own(obj, k) <=> k \in D \/ string_exotic_property(obj, k)
      BY DEF has_own, InTable, is_virtual
    <2>2. D \subseteq Keys /\ Range(u) \subseteq Keys
      BY <1>4 DEF ObjectOK, Range
    <2> QED
      BY <2>1, <2>2, <1>3, <1>7 DEF X
  <1>9. w \in Seq(Keys) /\ Range(w) = {"length"} /\ IsInjective(w)
    BY <1>3 DEF Range, IsInjective
  <1> HIDE DEF w
  <1>10. Range(w) \cap Range(c) = {} /\ Range(u) \cap Range(w) = {} /\ Range(u) \cap Range(c) = {}
    BY <1>1, <1>3, <1>6, <1>7, <1>9 DEF X
  <1>11. /\ u \o w \in Seq(Keys) /\ Range(u \o w) = Range(u) \cup {"length"} /\ IsInjective(u \o w)
    BY <1>4, <1>5, <1>9, <1>10, JoinFacts
  <1>12. Range(t) = Range(u) \cup {"length"} \cup Range(c) /\ IsInjective(t)
    <2> DEFINE x == u \o w
    <2>1. t = x \o c /\ x \in Seq(Keys) /\ IsInjective(x) /\ Range(x) = Range(u) \cup {"length"}
      BY <1>2, <1>11
    <2> HIDE DEF x
    <2>2. Range(x) \cap Range(c) = {}
      BY <2>1, <1>9, <1>10
    <2> QED
      BY <1>1, <2>1, <2>2, JoinFacts
  <1> QED
    BY <1>1, <1>8, <1>12 DEF KeysListed, t

\* An object lists what it has.
LEMMA AgreeingListed ==
    ASSUME NEW obj, ObjectOK(obj), TableAgrees(obj), obj.kind # "function"
    PROVE  KeysListed(obj)
  <1>1. Ordered(obj)
    BY DEF TableAgrees, Ordered
  <1> QED
    BY <1>1, OrdinaryListed, ArrayListed, StringListed

-----------------------------------------------------------------------------
(* The insertion order of a table *)

LEMMA AddOrdered ==
    ASSUME NEW obj, ObjectOK(obj), Ordered(obj), NEW k, ~InTable(obj, k), NEW d
    PROVE  LET r == AddToTable(obj, k, d) IN
           Ordered(r) /\ r.property_order = Append(obj.property_order, k)
  <1> DEFINE r == AddToTable(obj, k, d)
             o == obj.property_order
             D == DOMAIN obj.properties
  <1>1. DOMAIN obj = ObjectFields
    BY DEF ObjectOK
  <1>2. r.property_order = Append(o, k) /\ r.properties = With(obj.properties, k, d)
    BY <1>1 DEF AddToTable, ObjectFields
  <1>3. DOMAIN r.properties = D \cup {k}
    BY <1>2 DEF With
  <1>4. o \in Seq(D) /\ Range(o) = D /\ IsInjective(o) /\ k \notin D
    BY DEF Ordered, InTable
  <1> HIDE DEF r, o, D
  <1> DEFINE w == <<k>>
  <1>5. w \in Seq(D \cup {k}) /\ Range(w) = {k} /\ IsInjective(w)
    BY DEF Range, IsInjective
  <1>6. o \in Seq(D \cup {k}) /\ Append(o, k) = o \o w
    BY <1>4
  <1> HIDE DEF w
  <1>7. Range(o) \cap Range(w) = {}
    BY <1>4, <1>5
  <1>8. /\ o \o w \in Seq(D \cup {k}) /\ Range(o \o w) = Range(o) \cup Range(w)
        /\ IsInjective(o \o w)
    BY <1>4, <1>5, <1>6, <1>7, JoinFacts
  <1>9. Ordered(r)
    BY <1>2, <1>3, <1>4, <1>5, <1>6, <1>8 DEF Ordered
  <1> QED
    BY <1>2, <1>9 DEF r, o

LEMMA DropOrdered ==
    ASSUME NEW obj, ObjectOK(obj), Ordered(obj), NEW ks
    PROVE  Ordered(DropFromTable(obj, ks))
  <1> DEFINE r == DropFromTable(obj, ks)
             o == obj.property_order
             D == DOMAIN obj.properties
             s == Selected(o, Range(o) \ ks)
  <1>1. DOMAIN obj = ObjectFields
    BY DEF ObjectOK
  <1>2. r.property_order = s /\ DOMAIN r.properties = D \ ks
    BY <1>1 DEF DropFromTable, ObjectFields
  <1>3. o \in Seq(D) /\ Range(o) = D /\ IsInjective(o)
    BY DEF Ordered
  <1>4. /\ s \in Seq(Range(o) \cap (Range(o) \ ks)) /\ Range(s) = Range(o) \cap (Range(o) \ ks)
        /\ IsInjective(s)
    BY <1>3, SelectedFacts
  <1>5. Range(o) \cap (Range(o) \ ks) = D \ ks
    BY <1>3
  <1> HIDE DEF r, s, o, D
  <1> QED
    BY <1>2, <1>4, <1>5 DEF Ordered, r

LEMMA SameOrdered ==
    ASSUME NEW obj, Ordered(obj), NEW r, r.property_order = obj.property_order,
           DOMAIN r.properties = DOMAIN obj.properties
    PROVE  Ordered(r)
  BY DEF Ordered

-----------------------------------------------------------------------------
(* What the changes of an array leave *)

\* The indexed properties of an array: dense or in the table, below the length.
Settled(obj) ==
    \A k \in Indices :
        /\ ~(InTable(obj, k) /\ is_dense(obj, k))
        /\ InTable(obj, k) \/ is_dense(obj, k) => canonical_array_index(k) < obj.array_length

\* The units of a string stay out of the table, and a parameter is behind one key.
Apart(obj) ==
    /\ \A k \in Keys : string_exotic_property(obj, k) => ~InTable(obj, k)
    /\ \A j, k \in Keys :
          mapped_argument_upvalue(obj, j) = mapped_argument_upvalue(obj, k) /\ j # k
            => mapped_argument_upvalue(obj, k) = Null

LEMMA AgreesMeans ==
    ASSUME NEW obj
    PROVE  TableAgrees(obj) <=>
              /\ Ordered(obj)
              /\ obj.kind = "array" => Settled(obj)
              /\ obj.kind # "array" => Apart(obj)
  <1>1. \A k : is_index(k) <=> k \in Indices
    BY DEF is_index, Indices
  <1>2. Indices \subseteq Keys
    BY KeysAssumption DEF Indices, Range
  <1>3. ASSUME obj.kind = "array", NEW k \in Indices
        PROVE  has_own(obj, k) <=> InTable(obj, k) \/ is_dense(obj, k)
    <2>1. k # "length"
      BY KeysAssumption DEF Indices
    <2> QED
      BY <1>3, <2>1 DEF has_own, is_virtual, string_exotic_property
  <1>4. obj.kind = "array" => Apart(obj)
    BY DEF Apart, string_exotic_property, mapped_argument_upvalue
  <1>5. TableAgrees(obj) <=> Ordered(obj) /\ Apart(obj) /\ (obj.kind = "array" => Settled(obj))
    <2>1. (obj.kind = "array" =>
             \A k \in Keys : is_index(k) =>
                /\ ~(InTable(obj, k) /\ is_dense(obj, k))
                /\ has_own(obj, k) => canonical_array_index(k) < obj.array_length)
           <=> (obj.kind = "array" => Settled(obj))
      BY <1>1, <1>2, <1>3 DEF Settled
    <2> QED
      BY <2>1 DEF TableAgrees, Ordered, Apart
  <1> QED
    BY <1>4, <1>5

LEMMA SameMapping ==
    ASSUME NEW obj, NEW r, r.kind = obj.kind, r.mapped = obj.mapped
    PROVE  \A x : mapped_argument_upvalue(r, x) = mapped_argument_upvalue(obj, x)
  BY DEF mapped_argument_upvalue

LEMMA StaysApart ==
    ASSUME NEW obj, Apart(obj), NEW r, r.kind = obj.kind,
           \A x \in Keys : mapped_argument_upvalue(r, x) \in {Null, mapped_argument_upvalue(obj, x)},
           \A x \in Keys : InTable(r, x) => InTable(obj, x) \/ ~string_exotic_property(obj, x)
    PROVE  Apart(r)
  <1>1. \A x : string_exotic_property(r, x) <=> string_exotic_property(obj, x)
    BY DEF string_exotic_property
  <1> QED
    BY <1>1 DEF Apart

\* The slot of an index among the dense elements.
Slot(obj, k) == obj.elements[canonical_array_index(k) + 1]

\* Everything but the named fields is the same.
Alike(obj, r, changed) ==
    DOMAIN r = ObjectFields /\ \A f \in ObjectFields \ changed : r[f] = obj[f]

LEMMA PlacedAs ==
    ASSUME NEW obj, Good(obj), obj.kind = "array", NEW k \in Indices, NEW v
    PROVE  LET r == PlaceDense(obj, canonical_array_index(k), v) IN
           /\ Alike(obj, r, {"elements"}) /\ Slot(r, k) = v
           /\ \A x : is_dense(r, x) <=> IF x = k THEN v # Hole ELSE is_dense(obj, x)
           /\ \A x : x # k /\ is_dense(obj, x) => Slot(r, x) = Slot(obj, x)
  <1> DEFINE c == canonical_array_index(k) + 1
             e == obj.elements
             n == Max({Len(e), c})
             f == [i \in 1..n |-> IF i = c THEN v ELSE IF i <= Len(e) THEN e[i] ELSE Hole]
             r == PlaceDense(obj, canonical_array_index(k), v)
  <1>i. is_index(k)
    BY DEF is_index, Indices
  <1>1. r = [obj EXCEPT !.elements = f]
    BY DEF PlaceDense
  <1>t. DOMAIN obj = ObjectFields /\ Len(e) \in Nat
    BY ArrayTable
  <1>c. c \in Nat \ {0} /\ canonical_array_index(k) = c - 1 /\ IndexNames[c] = k
    BY <1>i, IndexOf
  <1>d. c = canonical_array_index(k) + 1
    OBVIOUS
  <1>e. e = obj.elements
    OBVIOUS
  <1> HIDE DEF e, c
  <1>n. n \in Nat /\ n >= Len(e) /\ n >= c /\ (n = Len(e) \/ n = c)
    BY <1>t, <1>c, MaxPair
  <1> HIDE DEF n
  <1>f. Len(f) = n /\ f[c] = v
    BY <1>n, <1>c, RangeSeq
  <1>g. \A i \in 1..n : i # c => f[i] = IF i <= Len(e) THEN e[i] ELSE Hole
    OBVIOUS
  <1> HIDE DEF f, r
  <1>2. /\ r.elements = f /\ r.kind = obj.kind /\ Alike(obj, r, {"elements"})
    BY <1>1, <1>t DEF ObjectFields, Alike
  <1>3. ASSUME NEW x, x # k, is_index(x)
        PROVE  LET i == canonical_array_index(x) + 1 IN
               /\ i \in Nat \ {0} /\ i # c /\ canonical_array_index(x) = i - 1
    <2>1. canonical_array_index(x) \in Nat /\ IndexNames[canonical_array_index(x) + 1] = x
      BY <1>3, IndexOf
    <2> QED
      BY <1>3, <1>c, <2>1
  <1>4. ASSUME NEW x, x # k
        PROVE  /\ is_dense(r, x) <=> is_dense(obj, x)
               /\ is_dense(obj, x) => Slot(r, x) = Slot(obj, x)
    <2>1. CASE ~is_index(x)
      BY <2>1 DEF is_dense
    <2>2. CASE is_index(x)
      <3> DEFINE i == canonical_array_index(x) + 1
      <3>1. /\ i \in Nat \ {0} /\ i # c /\ canonical_array_index(x) = i - 1
        BY <1>4, <2>2, <1>3
      <3>2. /\ Slot(r, x) = f[i] /\ Slot(obj, x) = e[i]
            /\ is_dense(r, x) <=> i - 1 < Len(f) /\ f[i] # Hole
            /\ is_dense(obj, x) <=> i - 1 < Len(e) /\ e[i] # Hole
        <4>1. /\ is_dense(r, x) <=> canonical_array_index(x) < Len(f) /\ f[i] # Hole
              /\ is_dense(obj, x) <=> canonical_array_index(x) < Len(e) /\ e[i] # Hole
          BY <1>2, <1>e, <2>2 DEF is_dense
        <4>2. Slot(r, x) = f[i] /\ Slot(obj, x) = e[i]
          BY <1>2, <1>e DEF Slot
        <4> QED
          BY <3>1, <4>1, <4>2
      <3> HIDE DEF i
      <3>3. CASE i <= Len(e)
        <4>1. i \in 1..n /\ f[i] = e[i] /\ i - 1 < Len(e) /\ i - 1 < Len(f)
          BY <3>1, <3>3, <1>f, <1>g, <1>n, <1>t
        <4> QED
          BY <3>2, <4>1
      <3>4. CASE i > Len(e)
        <4>1. ~(i - 1 < Len(e))
          BY <3>1, <3>4, <1>t
        <4>2. i - 1 < Len(f) => i \in 1..n /\ f[i] = Hole
          BY <3>1, <3>4, <1>f, <1>g, <1>n, <1>t
        <4> QED
          BY <3>2, <4>1, <4>2
      <3> QED
        BY <3>1, <3>3, <3>4, <1>t
    <2> QED
      BY <2>1, <2>2
  <1>5. is_dense(r, k) <=> v # Hole
    <2>1. is_dense(r, k) <=> canonical_array_index(k) < Len(f) /\ f[c] # Hole
      BY <1>2, <1>i, <1>d DEF is_dense
    <2>2. canonical_array_index(k) < Len(f)
      BY <1>c, <1>f, <1>n
    <2> QED
      BY <2>1, <2>2, <1>f
  <1>6. Slot(r, k) = v
    BY <1>2, <1>d, <1>f DEF Slot
  <1> QED
    BY <1>2, <1>4, <1>5, <1>6 DEF r

\* A dense slot that becomes a hole.
LEMMA HoledAs ==
    ASSUME NEW obj, Good(obj), NEW k, is_dense(obj, k), NEW e, NEW r,
           e = [obj.elements EXCEPT ![canonical_array_index(k) + 1] = Hole],
           r.elements = e, r.kind = obj.kind
    PROVE  /\ \A x : is_dense(r, x) <=> x # k /\ is_dense(obj, x)
           /\ \A x : x # k /\ is_dense(obj, x) => Slot(r, x) = Slot(obj, x)
  <1> DEFINE c == canonical_array_index(k) + 1
             b == obj.elements
  <1>k. obj.kind = "array" /\ is_index(k)
    BY DEF is_dense
  <1>t. b \in Seq(Range(b)) /\ Len(b) \in Nat
    BY <1>k, ArrayTable
  <1>c. c \in 1..Len(b) /\ IndexNames[c] = k
    BY <1>k, <1>t, IndexOf DEF is_dense
  <1>1. e = [b EXCEPT ![c] = Hole] /\ r.elements = e /\ obj.elements = b
    OBVIOUS
  <1> HIDE DEF c, b
  <1>2. Len(e) = Len(b) /\ e[c] = Hole /\ \A i \in 1..Len(b) : i # c => e[i] = b[i]
    BY <1>1, <1>t, <1>c
  <1>3. ASSUME NEW x, x # k
        PROVE  /\ is_dense(r, x) <=> is_dense(obj, x)
               /\ is_dense(obj, x) => Slot(r, x) = Slot(obj, x)
    <2>1. CASE ~is_index(x)
      BY <2>1 DEF is_dense
    <2>2. CASE is_index(x)
      <3> DEFINE i == canonical_array_index(x) + 1
      <3>1. canonical_array_index(x) \in Nat /\ i # c
        BY <1>3, <1>c, <2>2, IndexOf
      <3>2. /\ Slot(r, x) = e[i] /\ Slot(obj, x) = b[i]
            /\ is_dense(r, x) <=> canonical_array_index(x) < Len(e) /\ obj.kind = "array" /\ e[i] # Hole
            /\ is_dense(obj, x) <=> canonical_array_index(x) < Len(b) /\ obj.kind = "array" /\ b[i] # Hole
        BY <1>1, <2>2 DEF Slot, is_dense
      <3>3. canonical_array_index(x) < Len(b) => e[i] = b[i]
        BY <1>2, <1>t, <3>1
      <3> QED
        BY <3>2, <3>3, <1>2
    <2> QED
      BY <2>1, <2>2
  <1>4. ~is_dense(r, k)
    BY <1>1, <1>2 DEF is_dense, c
  <1> QED
    BY <1>3, <1>4

\* What moving a dense element to the table changes.
LEMMA SpilledAs ==
    ASSUME NEW obj, Good(obj), Ordered(obj), NEW k \in Keys, is_dense(obj, k), ~InTable(obj, k)
    PROVE  LET r == spill(obj, k) IN
           /\ Alike(obj, r, {"properties", "property_order", "elements"}) /\ Ordered(r)
           /\ r.properties = With(obj.properties, k, data(Slot(obj, k), TRUE, TRUE, TRUE))
           /\ \A x : is_dense(r, x) <=> x # k /\ is_dense(obj, x)
           /\ \A x : x # k /\ is_dense(obj, x) => Slot(r, x) = Slot(obj, x)
  <1> DEFINE p == virtual_descriptor(obj, k)
             t == AddToTable(obj, k, p)
             e == [obj.elements EXCEPT ![canonical_array_index(k) + 1] = Hole]
             r == spill(obj, k)
  <1>1. obj.kind = "array" /\ is_index(k) /\ k # "length" /\ DOMAIN obj = ObjectFields
    BY KeysAssumption, ArrayTable DEF is_dense, is_index
  <1>2. p = data(Slot(obj, k), TRUE, TRUE, TRUE)
    BY <1>1 DEF virtual_descriptor, Slot
  <1>3. Ordered(t) /\ Alike(obj, t, {"properties", "property_order"})
        /\ t.properties = With(obj.properties, k, p)
    <2>1. Ordered(t)
      BY AddOrdered DEF Good
    <2> QED
      BY <2>1, <1>1 DEF AddToTable, Alike, ObjectFields
  <1>4. r = [t EXCEPT !.elements[canonical_array_index(k) + 1] = Hole]
    BY DEF spill
  <1> HIDE DEF t, p
  <1>5. t.elements = obj.elements /\ DOMAIN t = ObjectFields
    BY <1>3 DEF Alike, ObjectFields
  <1>6. r = [t EXCEPT !.elements = e]
    BY <1>4, <1>5
  <1>a. e = [obj.elements EXCEPT ![canonical_array_index(k) + 1] = Hole]
    OBVIOUS
  <1> HIDE DEF e, r
  <1>7. Alike(t, r, {"elements"}) /\ r.elements = e
    BY <1>5, <1>6 DEF Alike, ObjectFields
  <1>8. /\ r.properties = t.properties /\ r.property_order = t.property_order
        /\ r.kind = obj.kind
        /\ Alike(obj, r, {"properties", "property_order", "elements"})
    BY <1>3, <1>7 DEF Alike, ObjectFields
  <1>9. Ordered(r)
    BY <1>3, <1>8, SameOrdered
  <1>10. /\ \A x : is_dense(r, x) <=> x # k /\ is_dense(obj, x)
         /\ \A x : x # k /\ is_dense(obj, x) => Slot(r, x) = Slot(obj, x)
    BY <1>7, <1>8, <1>a, HoledAs
  <1> QED
    BY <1>2, <1>3, <1>8, <1>9, <1>10 DEF r

\* The properties of an array below target are left, and the length is target.
Cut(obj, r, target) ==
    /\ Alike(obj, r, {"properties", "property_order", "elements", "array_length"})
    /\ Ordered(r) /\ r.array_length = target
    /\ r.properties =
         [x \in { y \in DOMAIN obj.properties :
                    y \in Indices => canonical_array_index(y) < target } |-> obj.properties[x]]
    /\ \A x : is_dense(r, x) <=> is_dense(obj, x) /\ canonical_array_index(x) < target
    /\ \A x : is_dense(r, x) => Slot(r, x) = Slot(obj, x)

\* Target is the end of the last property at or above new that cannot go.
Stops(obj, new, target) ==
    /\ \A k \in Indices \cap DOMAIN obj.properties :
          ~obj.properties[k].configurable => canonical_array_index(k) < target
    /\ \/ target = new
       \/ \E k \in Indices \cap DOMAIN obj.properties :
             ~obj.properties[k].configurable /\ canonical_array_index(k) + 1 = target

LEMMA ShrunkAs ==
    ASSUME NEW obj, Good(obj), TableAgrees(obj), obj.kind = "array",
           NEW new \in Nat, new < obj.array_length
    PROVE  \E target \in new..obj.array_length :
              Cut(obj, shrink(obj, new).object, target) /\ Stops(obj, new, target)
  <1> DEFINE old == obj.array_length
             e == obj.elements
             within(k, low) == /\ is_index(k) /\ canonical_array_index(k) >= low
                               /\ canonical_array_index(k) < old
             blockers == { k \in Range(obj.property_order) :
                             /\ within(k, new) /\ InTable(obj, k)
                             /\ ~obj.properties[k].configurable }
             T == {new} \cup { canonical_array_index(k) + 1 : k \in blockers }
             target == Max(T)
             erased == { k \in DOMAIN obj.properties :
                             within(k, target) /\ obj.properties[k].configurable }
             t == DropFromTable(obj, erased)
             f == IF Len(e) > target THEN SubSeq(e, 1, target) ELSE e
             r == shrink(obj, new).object
             kept == { y \in DOMAIN obj.properties :
                         y \in Indices => canonical_array_index(y) < target }
  <1>t. /\ DOMAIN obj = ObjectFields /\ old \in Nat
        /\ Len(e) \in Nat /\ e \in Seq(Range(e))
    BY ArrayTable, BoundsAssumption
  <1>a. /\ Ordered(obj) /\ Range(obj.property_order) = DOMAIN obj.properties
        /\ \A k \in Indices \cap DOMAIN obj.properties : canonical_array_index(k) < old
    BY AgreesMeans DEF Ordered, Settled, InTable
  <1>i. \A k : k \in Indices <=> is_index(k)
    BY DEF is_index, Indices
  <1>n. \A k \in Indices : canonical_array_index(k) \in Nat
    BY <1>i, IndexOf
  <1>1. r = [t EXCEPT !.elements = IF Len(@) > target THEN SubSeq(@, 1, target) ELSE @,
                      !.array_length = target]
    BY DEF shrink
  <1>b. blockers = { k \in Indices \cap DOMAIN obj.properties :
                       canonical_array_index(k) >= new /\ ~obj.properties[k].configurable }
    BY <1>a, <1>i DEF InTable
  <1>3. target \in T /\ target \in new..old /\ \A y \in T : target >= y
    <2>1. \A k \in blockers : canonical_array_index(k) + 1 \in 0..old
      BY <1>t, <1>i, <1>n
    <2>2. T \in SUBSET (0..old) /\ T # {} /\ old \in Nat
      BY <2>1, <1>t
    <2>4. new \in T
      OBVIOUS
    <2> HIDE DEF T
    <2>3. Max(T) \in T /\ \A y \in T : Max(T) >= y
      BY <2>2, SetMax
    <2>5. target = Max(T)
      OBVIOUS
    <2> HIDE DEF target
    <2>6. target \in T /\ \A y \in T : target >= y
      BY <2>3, <2>5, Zenon
    <2>7. target \in 0..old /\ target >= new
      BY <2>2, <2>4, <2>6
    <2> QED
      BY <2>2, <2>6, <2>7
  <1>4. /\ \A k \in blockers : canonical_array_index(k) < target
        /\ target = new \/ \E k \in blockers : canonical_array_index(k) + 1 = target
    <2>1. \A k \in blockers : canonical_array_index(k) + 1 \in T /\ canonical_array_index(k) \in Nat
      BY <1>b, <1>n
    <2>2. \A k \in blockers : target >= canonical_array_index(k) + 1
      BY <2>1, <1>3
    <2>3. target = new \/ \E k \in blockers : canonical_array_index(k) + 1 = target
      BY <1>3
    <2> HIDE DEF target, T, blockers
    <2> QED
      BY <2>1, <2>2, <2>3, <1>3
  <1>5. Stops(obj, new, target)
    <2> SUFFICES ASSUME NEW k \in Indices \cap DOMAIN obj.properties,
                        ~obj.properties[k].configurable
                 PROVE  canonical_array_index(k) < target
      BY <1>4, <1>b DEF Stops
    <2>1. CASE canonical_array_index(k) >= new
      BY <2>1, <1>4, <1>b
    <2>2. CASE ~(canonical_array_index(k) >= new)
      BY <2>2, <1>3, <1>n
    <2> QED
      BY <2>1, <2>2
  <1>6. DOMAIN obj.properties \ erased = kept
    <2>1. \A k \in DOMAIN obj.properties : k \in Indices =>
             (k \in erased <=> canonical_array_index(k) >= target)
      <3> SUFFICES ASSUME NEW k \in DOMAIN obj.properties, k \in Indices,
                          canonical_array_index(k) >= target
                   PROVE  obj.properties[k].configurable /\ canonical_array_index(k) < old
        BY <1>i
      <3>1. canonical_array_index(k) \in Nat /\ target \in Int
        BY <1>n, <1>3
      <3> HIDE DEF target
      <3> QED
        BY <3>1, <1>5, <1>a DEF Stops
    <2>2. \A k \in DOMAIN obj.properties : k \notin Indices => k \notin erased
      BY <1>i
    <2>3. \A k \in Indices : canonical_array_index(k) \in Nat /\ target \in Int
      BY <1>n, <1>3
    <2> HIDE DEF target, erased
    <2> QED
      BY <2>1, <2>2, <2>3
  <1> HIDE DEF target, erased, T, blockers
  <1>7. /\ Ordered(t) /\ Alike(obj, t, {"properties", "property_order"})
        /\ t.properties = [x \in kept |-> obj.properties[x]]
    <2>1. Ordered(t)
      BY <1>a, DropOrdered DEF Good
    <2>2. Alike(obj, t, {"properties", "property_order"})
      BY <1>t DEF DropFromTable, Alike, ObjectFields
    <2>3. t.properties = [x \in DOMAIN obj.properties \ erased |-> obj.properties[x]]
      BY <1>t DEF DropFromTable, ObjectFields
    <2>4. t.properties = [x \in kept |-> obj.properties[x]]
      BY <2>3, <1>6
    <2> QED
      BY <2>1, <2>2, <2>4
  <1> HIDE DEF t, kept
  <1>8. t.elements = e /\ DOMAIN t = ObjectFields
    BY <1>7 DEF Alike, ObjectFields
  <1>9. r = [t EXCEPT !.elements = f, !.array_length = target]
    BY <1>1, <1>8
  <1>f. /\ Len(f) = IF Len(e) > target THEN target ELSE Len(e)
        /\ \A i \in 1..Len(f) : f[i] = e[i]
    <2>1. CASE Len(e) > target
      <3>1. f = SubSeq(e, 1, target) /\ target \in Nat
        BY <2>1, <1>3, <1>t
      <3>2. target \in Int /\ 1 \in Int /\ \A i \in 1..target : e[i] \in Range(e)
        BY <3>1, <1>t, <2>1, SMTT(20) DEF Range
      <3> HIDE DEF f, e
      <3>3. /\ Len(SubSeq(e, 1, target)) = IF 1 <= target THEN target - 1 + 1 ELSE 0
            /\ \A i \in 1..target - 1 + 1 : SubSeq(e, 1, target)[i] = e[1 + i - 1]
        BY <3>2, SubSeqProperties
      <3> QED
        BY <2>1, <3>1, <3>3
    <2>2. CASE ~(Len(e) > target)
      BY <2>2, <1>t
    <2> QED
      BY <2>1, <2>2
  <1>e. e = obj.elements
    OBVIOUS
  <1> HIDE DEF f, r, e
  <1>10. /\ Alike(t, r, {"elements", "array_length"})
         /\ r.elements = f /\ r.array_length = target
    <2> DEFINE u == [t EXCEPT !.elements = f]
    <2>1. Alike(t, u, {"elements"}) /\ u.elements = f
      BY <1>8 DEF ObjectFields, Alike
    <2>2. r = [u EXCEPT !.array_length = target]
      BY <1>9
    <2> HIDE DEF u
    <2>3. Alike(u, r, {"array_length"}) /\ r.array_length = target
      BY <2>1, <2>2 DEF ObjectFields, Alike
    <2> QED
      BY <2>1, <2>3 DEF ObjectFields, Alike
  <1>11. /\ Alike(obj, r, {"properties", "property_order", "elements", "array_length"})
         /\ r.properties = t.properties /\ r.property_order = t.property_order
         /\ r.kind = obj.kind
    BY <1>7, <1>10 DEF Alike, ObjectFields
  <1>12. ASSUME NEW x
         PROVE  /\ is_dense(r, x) <=> is_dense(obj, x) /\ canonical_array_index(x) < target
                /\ is_dense(r, x) => Slot(r, x) = Slot(obj, x)
    <2>1. CASE ~is_index(x)
      BY <2>1 DEF is_dense
    <2>2. CASE is_index(x)
      <3> DEFINE c == canonical_array_index(x)
      <3>1. /\ is_dense(r, x) <=> c < Len(f) /\ f[c + 1] # Hole
            /\ is_dense(obj, x) <=> c < Len(e) /\ e[c + 1] # Hole
            /\ Slot(r, x) = f[c + 1] /\ Slot(obj, x) = e[c + 1]
        BY <1>10, <1>11, <1>e, <2>2 DEF is_dense, Slot
      <3>2. c \in Nat /\ target \in Int
        BY <2>2, <1>3, IndexOf
      <3> HIDE DEF c
      <3>3. c < Len(f) <=> c < Len(e) /\ c < target
        BY <3>2, <1>f, <1>t
      <3>4. c < Len(f) => f[c + 1] = e[c + 1]
        BY <3>2, <1>f, <1>t
      <3>5. /\ is_dense(r, x) <=> is_dense(obj, x) /\ c < target
            /\ is_dense(r, x) => Slot(r, x) = Slot(obj, x)
        BY <3>1, <3>3, <3>4
      <3> QED
        BY <3>5 DEF c
    <2> QED
      BY <2>1, <2>2
  <1>13. Ordered(r)
    BY <1>7, <1>11, SameOrdered
  <1>14. Cut(obj, r, target)
    BY <1>7, <1>10, <1>11, <1>12, <1>13 DEF Cut, kept
  <1> QED
    BY <1>3, <1>5, <1>14 DEF r

-----------------------------------------------------------------------------
(* The operations keep the storage in agreement *)

\* Nothing is stored that was not, and the length is the same or more.
LEMMA SettledBelow ==
    ASSUME NEW obj, ObjectOK(obj), Settled(obj), NEW r,
           \A k \in Indices : /\ InTable(r, k) => InTable(obj, k)
                              /\ is_dense(r, k) => is_dense(obj, k),
           r.array_length \in Nat, r.array_length >= obj.array_length
    PROVE  Settled(r)
  <1>1. \A k \in Indices : canonical_array_index(k) \in Nat
    BY IndexOf DEF is_index, Indices
  <1>2. obj.array_length \in Nat
    BY BoundsAssumption DEF ObjectOK
  <1> QED
    BY <1>1, <1>2 DEF Settled

\* The parts of an object that its stored properties depend on are the same.
LEMMA AlikeAgrees ==
    ASSUME NEW obj, ObjectOK(obj), TableAgrees(obj), NEW r,
           r.kind = obj.kind, r.elements = obj.elements,
           r.property_order = obj.property_order, DOMAIN r.properties = DOMAIN obj.properties,
           \A x : mapped_argument_upvalue(r, x) \in {Null, mapped_argument_upvalue(obj, x)},
           r.array_length \in Nat, r.array_length >= obj.array_length
    PROVE  TableAgrees(r)
  <1>1. Ordered(r)
    BY AgreesMeans, SameOrdered
  <1>2. \A k : (InTable(r, k) <=> InTable(obj, k)) /\ (is_dense(r, k) <=> is_dense(obj, k))
    BY DEF InTable, is_dense
  <1>3. obj.kind = "array" => Settled(r)
    BY <1>2, AgreesMeans, SettledBelow
  <1>4. obj.kind # "array" => Apart(r)
    BY <1>2, AgreesMeans, StaysApart
  <1> QED
    BY <1>1, <1>3, <1>4, AgreesMeans

LEMMA CutAgrees ==
    ASSUME NEW obj, Good(obj), NEW r, NEW target \in Nat, Cut(obj, r, target), Settled(obj),
           obj.kind = "array"
    PROVE  TableAgrees(r)
  <1>1. Ordered(r) /\ r.array_length = target /\ r.kind = "array"
    BY DEF Cut, Alike, ObjectFields
  <1>2. ASSUME NEW k \in Indices
        PROVE  /\ ~(InTable(r, k) /\ is_dense(r, k))
               /\ InTable(r, k) \/ is_dense(r, k) => canonical_array_index(k) < r.array_length
    <2>1. InTable(r, k) => InTable(obj, k) /\ canonical_array_index(k) < target
      BY DEF Cut, InTable
    <2>2. is_dense(r, k) => is_dense(obj, k) /\ canonical_array_index(k) < target
      BY DEF Cut
    <2> QED
      BY <1>1, <2>1, <2>2 DEF Settled
  <1> QED
    BY <1>1, <1>2, AgreesMeans DEF Settled

\* What define_array_length can do to an array.
Locked(o, d) ==
    [o EXCEPT !.array_length_writable = @ /\ ~("writable" \in DOMAIN d /\ ~d.writable)]

LEMMA LengthForms ==
    ASSUME NEW obj, NEW par, NEW d
    PROVE  LET r == define_array_length(obj, par, d) IN
           /\ r.parameters = par
           /\ \/ r.object = obj
              \/ "value" \notin DOMAIN d /\ r.object = Locked(obj, d)
              \/ /\ "value" \in DOMAIN d /\ d.value \in 0..MaxLength
                 /\ d.value >= obj.array_length
                 /\ r.object = Locked([obj EXCEPT !.array_length = d.value], d)
              \/ /\ "value" \in DOMAIN d /\ d.value \in 0..MaxLength
                 /\ ~(d.value >= obj.array_length)
                 /\ r.object = Locked(shrink(obj, d.value).object, d)
  <1> DEFINE A == \/ is_accessor_descriptor(d)
                  \/ Flag(d, "enumerable") \/ Flag(d, "configurable")
                  \/ Flag(d, "writable") /\ ~obj.array_length_writable
             B == "value" \notin DOMAIN d
             C == d.value \notin 0..MaxLength
             D == d.value # obj.array_length /\ ~obj.array_length_writable
             E == d.value >= obj.array_length
             grown == [obj EXCEPT !.array_length = d.value]
             cut == shrink(obj, d.value)
             r == define_array_length(obj, par, d)
  <1>1. r = IF A THEN Outcome(obj, par, FALSE)
            ELSE IF B THEN Outcome(Locked(obj, d), par, TRUE)
            ELSE IF C THEN Outcome(obj, par, "error")
            ELSE IF D THEN Outcome(obj, par, FALSE)
            ELSE IF E THEN Outcome(Locked(grown, d), par, TRUE)
            ELSE Outcome(Locked(cut.object, d), par, cut.complete)
    BY DEF define_array_length, Locked
  <1>2. \A o, res : Outcome(o, par, res).object = o /\ Outcome(o, par, res).parameters = par
    BY DEF Outcome
  <1> HIDE DEF r, A, B, C, D, E, grown, cut
  <1>3. /\ r.parameters = par
        /\ \/ r.object = obj
           \/ B /\ r.object = Locked(obj, d)
           \/ ~B /\ ~C /\ E /\ r.object = Locked(grown, d)
           \/ ~B /\ ~C /\ ~E /\ r.object = Locked(cut.object, d)
    BY <1>1, <1>2
  <1> QED
    BY <1>3 DEF r, B, C, E, grown, cut

LEMMA LockedAs ==
    ASSUME NEW o, DOMAIN o = ObjectFields, NEW d
    PROVE  LET r == Locked(o, d) IN
           /\ Alike(o, r, {"array_length_writable"})
           /\ r.array_length_writable =
                 (o.array_length_writable /\ ~("writable" \in DOMAIN d /\ ~d.writable))
  <1> DEFINE w == o.array_length_writable /\ ~("writable" \in DOMAIN d /\ ~d.writable)
             r == [o EXCEPT !.array_length_writable = w]
  <1>1. Locked(o, d) = r
    BY DEF Locked
  <1> HIDE DEF w
  <1>2. Alike(o, r, {"array_length_writable"}) /\ r.array_length_writable = w
    BY DEF Alike, ObjectFields
  <1> HIDE DEF r
  <1> QED
    BY <1>1, <1>2 DEF w

LEMMA LockedAgrees ==
    ASSUME NEW o, ObjectOK(o), TableAgrees(o), NEW d
    PROVE  TableAgrees(Locked(o, d))
  <1> DEFINE r == Locked(o, d)
  <1>1. DOMAIN o = ObjectFields /\ o.array_length \in Nat
    BY BoundsAssumption DEF ObjectOK
  <1>2. Alike(o, r, {"array_length_writable"})
    BY <1>1, LockedAs
  <1> HIDE DEF r
  <1>3. /\ r.kind = o.kind /\ r.elements = o.elements /\ r.property_order = o.property_order
        /\ r.properties = o.properties /\ r.array_length = o.array_length
        /\ r.mapped = o.mapped
    BY <1>2 DEF Alike, ObjectFields
  <1>4. TableAgrees(r)
    BY <1>1, <1>3, SameMapping, AlikeAgrees
  <1> QED
    BY <1>4 DEF r

LEMMA LengthAgrees ==
    ASSUME NEW obj, Good(obj), TableAgrees(obj), obj.kind = "array", NEW par, NEW d
    PROVE  TableAgrees(define_array_length(obj, par, d).object)
  <1> DEFINE r == define_array_length(obj, par, d)
             new == d.value
             grown == [obj EXCEPT !.array_length = new]
             cut == shrink(obj, new).object
  <1>0. ObjectOK(obj) /\ DOMAIN obj = ObjectFields /\ obj.array_length \in Nat /\ MaxLength \in Nat
    BY BoundsAssumption DEF Good, ObjectOK
  <1>1. CASE r.object = obj \/ r.object = Locked(obj, d)
    BY <1>1, <1>0, LockedAgrees
  <1>2. CASE /\ new \in 0..MaxLength /\ new >= obj.array_length
             /\ r.object = Locked(grown, d)
    <2>1. /\ Alike(obj, grown, {"array_length"}) /\ grown.array_length = new
      BY <1>0 DEF Alike, ObjectFields
    <2> HIDE DEF grown, r
    <2>2. /\ grown.kind = obj.kind /\ grown.elements = obj.elements
          /\ grown.property_order = obj.property_order /\ grown.properties = obj.properties
          /\ grown.mapped = obj.mapped
      BY <2>1 DEF Alike, ObjectFields
    <2>3. TableAgrees(grown)
      BY <1>0, <1>2, <2>1, <2>2, SameMapping, AlikeAgrees
    <2>4. ObjectOK(grown)
      BY <1>0, <1>2, <2>1, BoundsAssumption DEF ObjectOK, Alike, ObjectFields, InTable
    <2> QED
      BY <1>2, <2>3, <2>4, LockedAgrees DEF r
  <1>3. CASE /\ new \in 0..MaxLength /\ ~(new >= obj.array_length)
             /\ r.object = Locked(cut, d)
    <2>1. new \in Nat /\ new < obj.array_length
      BY <1>0, <1>3
    <2> HIDE DEF r
    <2>2. PICK target \in new..obj.array_length : Cut(obj, cut, target)
      BY <2>1, ShrunkAs
    <2> HIDE DEF cut
    <2>3. target \in Nat /\ target <= obj.array_length
      BY <1>0, <2>1, <2>2
    <2>4. TableAgrees(cut)
      BY <2>2, <2>3, AgreesMeans, CutAgrees
    <2> DEFINE l == Locked(cut, d)
    <2>5. DOMAIN cut = ObjectFields /\ cut.kind = "array"
      BY <2>2 DEF Cut, Alike, ObjectFields
    <2>6. Alike(cut, l, {"array_length_writable"})
      BY <2>5, LockedAs
    <2> HIDE DEF l
    <2>7. /\ l.kind = cut.kind /\ l.elements = cut.elements
          /\ l.property_order = cut.property_order
          /\ l.properties = cut.properties /\ l.array_length = cut.array_length
      BY <2>6 DEF Alike, ObjectFields
    <2>8. Ordered(l)
      BY <2>4, <2>7, AgreesMeans, SameOrdered
    <2>9. \A k : (InTable(l, k) <=> InTable(cut, k)) /\ (is_dense(l, k) <=> is_dense(cut, k))
      BY <2>7 DEF InTable, is_dense
    <2>10. Settled(l)
      BY <2>4, <2>5, <2>7, <2>9, AgreesMeans DEF Settled
    <2> QED
      BY <1>3, <2>5, <2>7, <2>8, <2>10, AgreesMeans DEF r, l
  <1>4. \/ r.object = obj \/ r.object = Locked(obj, d)
        \/ /\ new \in 0..MaxLength /\ new >= obj.array_length
           /\ r.object = Locked(grown, d)
        \/ /\ new \in 0..MaxLength /\ ~(new >= obj.array_length)
           /\ r.object = Locked(cut, d)
    BY LengthForms
  <1> QED
    BY <1>1, <1>2, <1>3, <1>4

\* A new index of an array, dense or in the table.
LEMMA CreateForms ==
    ASSUME NEW obj, Good(obj), Ordered(obj), obj.kind = "array", NEW par,
           NEW k \in Indices, ~InTable(obj, k), NEW d,
           obj.extensible /\ (canonical_array_index(k) >= obj.array_length
                                => obj.array_length_writable)
    PROVE  LET r == create_array_element(obj, par, k, d)
               full == complete_descriptor(d, is_accessor_descriptor(d))
               n == canonical_array_index(k) + 1
           IN  /\ r.parameters = par
               /\ Alike(obj, r.object, {"properties", "property_order", "elements", "array_length"})
               /\ r.object.array_length = IF obj.array_length >= n THEN obj.array_length ELSE n
               /\ Ordered(r.object)
               /\ \A x : x # k => /\ is_dense(r.object, x) <=> is_dense(obj, x)
                                  /\ is_dense(obj, x) => Slot(r.object, x) = Slot(obj, x)
               /\ \/ /\ dense_compatible_descriptor(d)
                     /\ r.object.properties = obj.properties
                     /\ Slot(r.object, k) = d.value
                     /\ is_dense(r.object, k) <=> d.value # Hole
                  \/ /\ r.object.properties = With(obj.properties, k, full)
                     /\ r.object.elements = obj.elements
  <1> DEFINE index == canonical_array_index(k)
             full == complete_descriptor(d, is_accessor_descriptor(d))
             dense == PlaceDense(obj, index, d.value)
             tabled == AddToTable(obj, k, full)
             keep_dense == /\ dense_compatible_descriptor(d)
                           /\ index <= Len(obj.elements) + DenseReach
                           /\ index < DenseLimit
             placed == IF keep_dense THEN dense ELSE tabled
             n == Max({placed.array_length, index + 1})
             grown == [placed EXCEPT !.array_length = n]
             r == create_array_element(obj, par, k, d)
             Fields4 == {"properties", "property_order", "elements", "array_length"}
  <1>1. r.object = grown /\ r.parameters = par
    BY DEF create_array_element, Outcome
  <1>2. index \in Nat /\ obj.array_length \in Nat /\ DOMAIN obj = ObjectFields
    BY BoundsAssumption, IndexOf DEF Good, ObjectOK, is_index, Indices
  <1>3. /\ Alike(obj, dense, {"elements"}) /\ Slot(dense, k) = d.value
        /\ is_dense(dense, k) <=> d.value # Hole
        /\ \A x : x # k => (is_dense(dense, x) <=> is_dense(obj, x))
        /\ \A x : x # k /\ is_dense(obj, x) => Slot(dense, x) = Slot(obj, x)
    BY PlacedAs
  <1>4. /\ Alike(obj, tabled, {"properties", "property_order"})
        /\ tabled.properties = With(obj.properties, k, full)
    BY <1>2 DEF AddToTable, Alike, ObjectFields
  <1>5. Ordered(tabled)
    BY AddOrdered DEF Good
  <1>6. Ordered(dense)
    <2>1. dense.property_order = obj.property_order /\ dense.properties = obj.properties
      BY <1>3 DEF Alike, ObjectFields
    <2> HIDE DEF dense
    <2> QED
      BY <2>1, SameOrdered
  <1>7. \A x : (is_dense(tabled, x) <=> is_dense(obj, x)) /\ Slot(tabled, x) = Slot(obj, x)
    <2>1. tabled.kind = obj.kind /\ tabled.elements = obj.elements
      BY <1>4 DEF Alike, ObjectFields
    <2> HIDE DEF tabled
    <2> QED
      BY <2>1 DEF is_dense, Slot
  <1>8. keep_dense => dense_compatible_descriptor(d)
    OBVIOUS
  <1>9. keep_dense \in BOOLEAN
    OBVIOUS
  <1> HIDE DEF dense, tabled, keep_dense, full, r, index
  <1>10. /\ Alike(obj, placed, {"properties", "property_order", "elements"})
         /\ placed.array_length = obj.array_length /\ Ordered(placed)
         /\ \A x : x # k => /\ is_dense(placed, x) <=> is_dense(obj, x)
                            /\ is_dense(obj, x) => Slot(placed, x) = Slot(obj, x)
         /\ \/ /\ dense_compatible_descriptor(d)
               /\ placed.properties = obj.properties
               /\ Slot(placed, k) = d.value
               /\ is_dense(placed, k) <=> d.value # Hole
            \/ /\ placed.properties = With(obj.properties, k, full)
               /\ placed.elements = obj.elements
    <2>1. CASE keep_dense
      <3>1. placed = dense
        BY <2>1
      <3> HIDE DEF placed
      <3>2. Alike(obj, dense, {"properties", "property_order", "elements"})
        BY <1>3 DEF Alike
      <3>3. dense.array_length = obj.array_length /\ dense.properties = obj.properties
        BY <1>3 DEF Alike, ObjectFields
      <3> QED
        BY <2>1, <3>1, <3>2, <3>3, <1>3, <1>6, <1>8
    <2>2. CASE ~keep_dense
      <3>1. placed = tabled
        BY <2>2
      <3> HIDE DEF placed
      <3>2. Alike(obj, tabled, {"properties", "property_order", "elements"})
        BY <1>4 DEF Alike
      <3>3. tabled.array_length = obj.array_length /\ tabled.elements = obj.elements
        BY <1>4 DEF Alike, ObjectFields
      <3> QED
        BY <3>1, <3>2, <3>3, <1>4, <1>5, <1>7
    <2> QED
      BY <2>1, <2>2
  <1>11. n = IF obj.array_length >= index + 1 THEN obj.array_length ELSE index + 1
    BY <1>2, <1>10, MaxPair
  <1> HIDE DEF placed, n
  <1>12. /\ Alike(placed, grown, {"array_length"}) /\ grown.array_length = n
    BY <1>10 DEF Alike, ObjectFields
  <1> HIDE DEF grown
  <1>13. /\ grown.kind = placed.kind /\ grown.elements = placed.elements
         /\ grown.properties = placed.properties
         /\ grown.property_order = placed.property_order
         /\ Alike(obj, grown, {"properties", "property_order", "elements", "array_length"})
    BY <1>10, <1>12 DEF Alike, ObjectFields
  <1>14. Ordered(grown)
    BY <1>10, <1>13, SameOrdered
  <1>15. \A x : (is_dense(grown, x) <=> is_dense(placed, x)) /\ Slot(grown, x) = Slot(placed, x)
    BY <1>13 DEF is_dense, Slot
  <1>16. \A x : x # k => /\ is_dense(grown, x) <=> is_dense(obj, x)
                         /\ is_dense(obj, x) => Slot(grown, x) = Slot(obj, x)
    BY <1>10, <1>15
  <1>17. \/ /\ dense_compatible_descriptor(d)
            /\ grown.properties = obj.properties
            /\ Slot(grown, k) = d.value
            /\ is_dense(grown, k) <=> d.value # Hole
         \/ /\ grown.properties = With(obj.properties, k, full)
            /\ grown.elements = obj.elements
    BY <1>10, <1>13, <1>15
  <1> QED
    BY <1>1, <1>11, <1>12, <1>13, <1>14, <1>16, <1>17 DEF r, full, index

LEMMA CreateAgrees ==
    ASSUME NEW obj, Good(obj), TableAgrees(obj), obj.kind = "array", NEW par,
           NEW k \in Indices, ~InTable(obj, k), ~is_dense(obj, k), NEW d
    PROVE  TableAgrees(create_array_element(obj, par, k, d).object)
  <1> DEFINE index == canonical_array_index(k)
             r == create_array_element(obj, par, k, d)
             o == r.object
  <1>1. CASE ~obj.extensible \/ (index >= obj.array_length /\ ~obj.array_length_writable)
    BY <1>1 DEF create_array_element, Outcome
  <1>2. CASE obj.extensible /\ (index >= obj.array_length => obj.array_length_writable)
    <2>1. /\ Ordered(o) /\ Alike(obj, o, {"properties", "property_order", "elements", "array_length"})
          /\ o.array_length = IF obj.array_length >= index + 1 THEN obj.array_length ELSE index + 1
          /\ \A x : x # k => (is_dense(o, x) <=> is_dense(obj, x))
          /\ \/ o.properties = obj.properties
             \/ /\ \E p : o.properties = With(obj.properties, k, p)
                /\ o.elements = obj.elements
      BY <1>2, AgreesMeans, CreateForms
    <2>2. Settled(obj) /\ obj.array_length \in Nat
      BY AgreesMeans, BoundsAssumption DEF Good, ObjectOK
    <2>i. \A x \in Indices : canonical_array_index(x) \in Nat
      BY IndexOf DEF is_index, Indices
    <2>k. o.kind = "array"
      BY <2>1 DEF Alike, ObjectFields
    <2> HIDE DEF o
    <2>3. \A x \in Indices : x # k =>
             /\ InTable(o, x) <=> InTable(obj, x)
             /\ is_dense(o, x) <=> is_dense(obj, x)
      BY <2>1 DEF InTable, With
    <2>4. ~(InTable(o, k) /\ is_dense(o, k))
      <3>1. CASE o.properties = obj.properties
        BY <3>1 DEF InTable
      <3>2. CASE o.elements = obj.elements
        BY <3>2, <2>k DEF is_dense
      <3> QED
        BY <3>1, <3>2, <2>1
    <2>5. Settled(o)
      <3> SUFFICES ASSUME NEW x \in Indices
                   PROVE  /\ ~(InTable(o, x) /\ is_dense(o, x))
                          /\ InTable(o, x) \/ is_dense(o, x) =>
                                canonical_array_index(x) < o.array_length
        BY DEF Settled
      <3>1. CASE x = k
        BY <3>1, <2>1, <2>2, <2>4, <2>i
      <3>2. CASE x # k
        <4>1. /\ ~(InTable(obj, x) /\ is_dense(obj, x))
              /\ InTable(obj, x) \/ is_dense(obj, x) => canonical_array_index(x) < obj.array_length
          BY <2>2 DEF Settled
        <4>2. o.array_length >= obj.array_length /\ o.array_length \in Nat
          BY <2>1, <2>2, <2>i
        <4> QED
          BY <3>2, <2>2, <2>3, <2>i, <4>1, <4>2
      <3> QED
        BY <3>1, <3>2
    <2>6. o.kind = "array"
      BY <2>1 DEF Alike, ObjectFields
    <2> QED
      BY <2>1, <2>5, <2>6, AgreesMeans DEF o
  <1> QED
    BY <1>1, <1>2

\* What validate_and_apply makes of an object that has k in its table.
Revised(obj, par, k, d, r) ==
    LET up == mapped_argument_upvalue(obj, k)
        unmaps == is_accessor_descriptor(d) \/ ("writable" \in DOMAIN d /\ ~d.writable)
        current == get_own_property_descriptor(obj, par, k)
    IN  /\ Alike(obj, r.object, {"properties", "mapped"})
        /\ r.object.properties = With(obj.properties, k, merge_descriptor(current, d))
        /\ r.object.mapped = IF up # Null /\ unmaps
                             THEN [obj.mapped EXCEPT ![canonical_array_index(k) + 1] = Null]
                             ELSE obj.mapped
        /\ r.parameters = IF up # Null /\ "value" \in DOMAIN d
                          THEN [par EXCEPT ![up] = d.value] ELSE par

LEMMA ValidatedAs ==
    ASSUME NEW obj, Good(obj), NEW par, NEW k \in Keys, InTable(obj, k), NEW d,
           DOMAIN d # {}, ~refuses(get_own_property_descriptor(obj, par, k), d)
    PROVE  Revised(obj, par, k, d, validate_and_apply(obj, par, k, d))
  <1> DEFINE r == validate_and_apply(obj, par, k, d)
             up == mapped_argument_upvalue(obj, k)
             unmaps == is_accessor_descriptor(d) \/ ("writable" \in DOMAIN d /\ ~d.writable)
             current == get_own_property_descriptor(obj, par, k)
             merged == merge_descriptor(current, d)
             stored == [obj EXCEPT !.properties[k] = merged]
             c == canonical_array_index(k) + 1
             unmapped == [stored EXCEPT !.mapped[c] = Null]
             values == IF "value" \in DOMAIN d THEN [par EXCEPT ![up] = d.value] ELSE par
  <1>1. r = IF up = Null THEN Outcome(stored, par, TRUE)
            ELSE Outcome(IF unmaps THEN unmapped ELSE stored, values, TRUE)
    BY DEF validate_and_apply
  <1>0. DOMAIN obj = ObjectFields
    BY DEF Good, ObjectOK
  <1>2. /\ Alike(obj, stored, {"properties"})
        /\ stored.properties = With(obj.properties, k, merged)
    <2> HIDE DEF merged
    <2> DEFINE t == [obj.properties EXCEPT ![k] = merged]
    <2>1. stored = [obj EXCEPT !.properties = t]
      OBVIOUS
    <2>2. t = With(obj.properties, k, merged)
      BY DEF With, InTable
    <2> HIDE DEF t
    <2> QED
      BY <1>0, <2>1, <2>2 DEF Alike, ObjectFields
  <1> HIDE DEF stored, merged, current, c
  <1>3. /\ Alike(obj, unmapped, {"properties", "mapped"})
        /\ unmapped.properties = stored.properties
        /\ unmapped.mapped = [obj.mapped EXCEPT ![c] = Null]
    <2> DEFINE n == [stored.mapped EXCEPT ![c] = Null]
    <2>1. unmapped = [stored EXCEPT !.mapped = n]
      OBVIOUS
    <2>2. DOMAIN stored = ObjectFields /\ stored.mapped = obj.mapped
      BY <1>2 DEF Alike, ObjectFields
    <2> HIDE DEF unmapped, n
    <2>3. Alike(stored, unmapped, {"mapped"}) /\ unmapped.mapped = n
      BY <2>1, <2>2 DEF Alike, ObjectFields
    <2> QED
      BY <2>2, <2>3, <1>2 DEF Alike, ObjectFields, n
  <1>4. Alike(obj, stored, {"properties", "mapped"}) /\ stored.mapped = obj.mapped
    BY <1>2 DEF Alike, ObjectFields
  <1> HIDE DEF unmapped, values, r, up, unmaps
  <1>5. /\ r.object = IF up # Null /\ unmaps THEN unmapped ELSE stored
        /\ r.parameters = IF up = Null THEN par ELSE values
    BY <1>1 DEF Outcome
  <1>6. r.parameters = IF up # Null /\ "value" \in DOMAIN d
                       THEN [par EXCEPT ![up] = d.value] ELSE par
    BY <1>5 DEF values
  <1>7. /\ Alike(obj, r.object, {"properties", "mapped"})
        /\ r.object.properties = With(obj.properties, k, merged)
        /\ r.object.mapped = IF up # Null /\ unmaps THEN [obj.mapped EXCEPT ![c] = Null]
                             ELSE obj.mapped
    <2>1. CASE up # Null /\ unmaps
      BY <2>1, <1>2, <1>3, <1>5
    <2>2. CASE ~(up # Null /\ unmaps)
      BY <2>2, <1>2, <1>4, <1>5
    <2> QED
      BY <2>1, <2>2
  <1> QED
    BY <1>6, <1>7 DEF Revised, r, up, unmaps, merged, current, c

LEMMA Unmapped ==
    ASSUME NEW obj, ObjectOK(obj), NEW r, r.kind = obj.kind, NEW c,
           r.mapped = obj.mapped \/ r.mapped = [obj.mapped EXCEPT ![c] = Null]
    PROVE  \A x : mapped_argument_upvalue(r, x) \in {Null, mapped_argument_upvalue(obj, x)}
  <1> SUFFICES ASSUME NEW x
               PROVE  mapped_argument_upvalue(r, x) \in {Null, mapped_argument_upvalue(obj, x)}
    OBVIOUS
  <1> DEFINE i == canonical_array_index(x)
  <1>1. CASE r.mapped = obj.mapped
    BY <1>1, SameMapping
  <1>2. CASE r.mapped = [obj.mapped EXCEPT ![c] = Null]
    <2>1. obj.mapped \in Seq(Parameters \cup {Null})
      BY DEF ObjectOK
    <2>2. Len(r.mapped) = Len(obj.mapped) /\ DOMAIN r.mapped = DOMAIN obj.mapped
      BY <2>1, <1>2
    <2>3. is_index(x) /\ i < Len(obj.mapped) => i + 1 \in DOMAIN obj.mapped
      BY <2>1, IndexOf
    <2>4. i + 1 \in DOMAIN obj.mapped => r.mapped[i + 1] \in {Null, obj.mapped[i + 1]}
      BY <1>2
    <2> QED
      BY <2>2, <2>3, <2>4 DEF mapped_argument_upvalue
  <1> QED
    BY <1>1, <1>2

LEMMA ValidateAgrees ==
    ASSUME NEW obj, Good(obj), TableAgrees(obj), NEW par, NEW k \in Keys, NEW d,
           obj.kind = "array" /\ k \in Indices => InTable(obj, k),
           ~string_exotic_property(obj, k)
    PROVE  TableAgrees(validate_and_apply(obj, par, k, d).object)
  <1> DEFINE r == validate_and_apply(obj, par, k, d)
             current == get_own_property_descriptor(obj, par, k)
             added == AddToTable(obj, k, complete_descriptor(d, is_accessor_descriptor(d)))
  <1>0. ObjectOK(obj) /\ obj.array_length \in Nat
    BY BoundsAssumption DEF Good, ObjectOK
  <1>1. CASE ~InTable(obj, k) /\ obj.extensible
    <2>1. r.object = added
      BY <1>1 DEF validate_and_apply, Outcome
    <2>2. Ordered(added)
      BY <1>0, <1>1, AgreesMeans, AddOrdered
    <2>3. /\ added.kind = obj.kind /\ added.elements = obj.elements
          /\ added.array_length = obj.array_length /\ added.mapped = obj.mapped
          /\ DOMAIN added.properties = DOMAIN obj.properties \cup {k}
      BY <1>0 DEF AddToTable, With, ObjectOK, ObjectFields
    <2> HIDE DEF added, r
    <2>4. obj.kind = "array" => Settled(added)
      <3>1. ASSUME obj.kind = "array", NEW x \in Indices
            PROVE  /\ InTable(added, x) => InTable(obj, x)
                   /\ is_dense(added, x) => is_dense(obj, x)
        BY <3>1, <2>3, <1>1 DEF InTable, is_dense
      <3> QED
        BY <3>1, <2>3, <1>0, AgreesMeans, SettledBelow
    <2>5. obj.kind # "array" => Apart(added)
      <3>1. \A x : InTable(added, x) => InTable(obj, x) \/ x = k
        BY <2>3 DEF InTable
      <3>2. obj.kind # "array" => Apart(obj)
        BY AgreesMeans
      <3>3. \A x : mapped_argument_upvalue(added, x) = mapped_argument_upvalue(obj, x)
        BY <2>3, SameMapping
      <3> QED
        BY <2>3, <3>1, <3>2, <3>3, StaysApart
    <2> QED
      BY <2>1, <2>2, <2>3, <2>4, <2>5, AgreesMeans DEF r
  <1>2. CASE \/ ~InTable(obj, k) /\ ~obj.extensible
             \/ InTable(obj, k) /\ (DOMAIN d = {} \/ refuses(current, d))
    BY <1>2 DEF validate_and_apply, Outcome
  <1>3. CASE InTable(obj, k) /\ DOMAIN d # {} /\ ~refuses(current, d)
    <2> DEFINE m == merge_descriptor(current, d)
    <2>0. Revised(obj, par, k, d, r)
      BY <1>3, ValidatedAs
    <2>1. /\ Alike(obj, r.object, {"properties", "mapped"})
          /\ r.object.properties = With(obj.properties, k, m)
      <3> HIDE DEF r
      <3> QED
        BY <2>0 DEF Revised
    <2>m. r.object.mapped = obj.mapped
          \/ r.object.mapped = [obj.mapped EXCEPT ![canonical_array_index(k) + 1] = Null]
      <3> HIDE DEF r
      <3> QED
        BY <2>0 DEF Revised
    <2> DEFINE o == r.object
    <2> HIDE DEF m, r
    <2>2. /\ o.kind = obj.kind /\ o.elements = obj.elements
          /\ o.property_order = obj.property_order /\ o.array_length = obj.array_length
      BY <2>1 DEF Alike, ObjectFields
    <2>3. DOMAIN o.properties = DOMAIN obj.properties
      BY <2>1, <1>3 DEF With, InTable
    <2> HIDE DEF o
    <2>5. \A x : mapped_argument_upvalue(o, x) \in {Null, mapped_argument_upvalue(obj, x)}
      <3>1. o.mapped = obj.mapped \/ o.mapped = [obj.mapped EXCEPT ![canonical_array_index(k) + 1] = Null]
        BY <2>m DEF o
      <3> QED
        BY <3>1, <2>2, <1>0, Unmapped
    <2>4. TableAgrees(o)
      BY <2>2, <2>3, <2>5, <1>0, AlikeAgrees
    <2> QED
      BY <2>4 DEF o, r
  <1> QED
    BY <1>1, <1>2, <1>3

LEMMA PlaceAgrees ==
    ASSUME NEW obj, Good(obj), TableAgrees(obj), NEW k \in Keys, is_dense(obj, k), NEW v
    PROVE  TableAgrees(PlaceDense(obj, canonical_array_index(k), v))
  <1> DEFINE r == PlaceDense(obj, canonical_array_index(k), v)
  <1>0. ObjectOK(obj) /\ obj.kind = "array" /\ k \in Indices
    BY DEF Good, is_dense, is_index, Indices
  <1>1. /\ Alike(obj, r, {"elements"})
        /\ \A x : is_dense(r, x) <=> IF x = k THEN v # Hole ELSE is_dense(obj, x)
    BY <1>0, PlacedAs
  <1> HIDE DEF r
  <1>2. /\ r.kind = obj.kind /\ r.properties = obj.properties
        /\ r.property_order = obj.property_order /\ r.array_length = obj.array_length
    BY <1>1 DEF Alike, ObjectFields
  <1>3. Ordered(r)
    BY <1>2, AgreesMeans, SameOrdered
  <1>4. \A x \in Indices : /\ InTable(r, x) => InTable(obj, x)
                           /\ is_dense(r, x) => is_dense(obj, x)
    BY <1>1, <1>2 DEF InTable
  <1>5. obj.array_length \in Nat
    BY <1>0, BoundsAssumption DEF ObjectOK
  <1>6. Settled(r)
    BY <1>0, <1>2, <1>4, <1>5, AgreesMeans, SettledBelow
  <1> QED
    BY <1>0, <1>2, <1>3, <1>6, AgreesMeans DEF r

LEMMA SpillAgrees ==
    ASSUME NEW obj, Good(obj), TableAgrees(obj), NEW k \in Keys, is_dense(obj, k), ~InTable(obj, k)
    PROVE  TableAgrees(spill(obj, k))
  <1> DEFINE r == spill(obj, k)
             p == data(Slot(obj, k), TRUE, TRUE, TRUE)
  <1>0. ObjectOK(obj) /\ obj.kind = "array" /\ k \in Indices
    BY DEF Good, is_dense, is_index, Indices
  <1>1. /\ Alike(obj, r, {"properties", "property_order", "elements"}) /\ Ordered(r)
        /\ r.properties = With(obj.properties, k, p)
        /\ \A x : is_dense(r, x) <=> x # k /\ is_dense(obj, x)
    BY AgreesMeans, SpilledAs
  <1> HIDE DEF r, p
  <1>2. r.kind = obj.kind /\ r.array_length = obj.array_length
    BY <1>1 DEF Alike, ObjectFields
  <1>3. \A x : InTable(r, x) <=> x = k \/ InTable(obj, x)
    BY <1>1 DEF InTable, With
  <1>4. Settled(obj)
    BY <1>0, AgreesMeans
  <1>5. Settled(r)
    BY <1>1, <1>2, <1>3, <1>4 DEF Settled
  <1> QED
    BY <1>0, <1>1, <1>2, <1>5, AgreesMeans DEF r

LEMMA DefineAgrees ==
    ASSUME NEW obj, Good(obj), TableAgrees(obj), NEW par, NEW k \in Keys, NEW d
    PROVE  TableAgrees(define_own_property(obj, par, k, d).object)
  <1> DEFINE dense == is_dense(obj, k) /\ ~InTable(obj, k)
             r == define_own_property(obj, par, k, d)
             v == PlaceDense(obj, canonical_array_index(k), d.value)
  <1>a. dense => obj.kind = "array" /\ is_index(k) /\ k # "length"
    BY KeysAssumption DEF is_dense, is_index
  <1>b. is_index(k) <=> k \in Indices
    BY DEF is_index, Indices
  <1>1. CASE Malformed(d) \/ string_exotic_property(obj, k)
    <2>1. r.object = obj
      BY <1>1 DEF define_own_property, Outcome
    <2> QED
      BY <2>1
  <1>2. CASE ~Malformed(d) /\ ~string_exotic_property(obj, k) /\ obj.kind = "array" /\ k = "length"
    <2>1. r = define_array_length(obj, par, d)
      BY <1>2 DEF define_own_property
    <2> QED
      BY <1>2, <2>1, LengthAgrees
  <1>3. CASE /\ ~Malformed(d) /\ ~string_exotic_property(obj, k)
             /\ obj.kind = "array" /\ is_index(k) /\ ~dense /\ ~InTable(obj, k)
    <2>1. k # "length"
      BY <1>3, KeysAssumption DEF is_index
    <2>2. r = create_array_element(obj, par, k, d)
      BY <1>3, <2>1 DEF define_own_property
    <2> QED
      BY <1>3, <1>b, <2>2, CreateAgrees
  <1>4. CASE /\ ~Malformed(d) /\ ~string_exotic_property(obj, k)
             /\ dense /\ dense_compatible_descriptor(d)
    <2>1. r = Outcome(v, par, TRUE)
      BY <1>4, <1>a DEF define_own_property
    <2>2. TableAgrees(v)
      BY <1>4, PlaceAgrees
    <2> HIDE DEF v
    <2> QED
      BY <2>1, <2>2 DEF Outcome
  <1>5. CASE /\ ~Malformed(d) /\ ~string_exotic_property(obj, k)
             /\ dense /\ ~dense_compatible_descriptor(d)
    <2> DEFINE s == spill(obj, k)
    <2>1. r = validate_and_apply(s, par, k, d)
      BY <1>5, <1>a DEF define_own_property
    <2>2. TableAgrees(s)
      BY <1>5, SpillAgrees
    <2>3. ArrayStep(obj, s) /\ InTable(s, k)
      BY <1>5, Spilled
    <2> HIDE DEF s
    <2>4. Good(s)
      BY <2>3, ArrayKeeps
    <2>5. s.kind = "array"
      BY <2>3 DEF ArrayStep
    <2>6. ~string_exotic_property(s, k)
      BY <2>5 DEF string_exotic_property
    <2> QED
      BY <2>1, <2>2, <2>3, <2>4, <2>6, ValidateAgrees
  <1>6. CASE /\ ~Malformed(d) /\ ~string_exotic_property(obj, k) /\ ~dense
             /\ ~(obj.kind = "array" /\ k = "length")
             /\ ~(obj.kind = "array" /\ is_index(k) /\ ~InTable(obj, k))
    <2>1. r = validate_and_apply(obj, par, k, d)
      BY <1>6 DEF define_own_property
    <2> QED
      BY <1>6, <1>b, <2>1, ValidateAgrees
  <1> QED
    BY <1>1, <1>2, <1>3, <1>4, <1>5, <1>6

LEMMA DeleteAgrees ==
    ASSUME NEW obj, Good(obj), TableAgrees(obj), NEW par, NEW k \in Keys
    PROVE  TableAgrees(delete_property(obj, par, k).object)
  <1> DEFINE r == delete_property(obj, par, k)
             t == DropFromTable(obj, {k})
             u == [t EXCEPT !.mapped[canonical_array_index(k) + 1] = Null]
             h == [obj EXCEPT !.elements[canonical_array_index(k) + 1] = Hole]
  <1>0. ObjectOK(obj) /\ DOMAIN obj = ObjectFields /\ obj.array_length \in Nat
    BY BoundsAssumption DEF Good, ObjectOK
  <1>1. CASE r.object = obj
    BY <1>1
  <1>2. CASE is_dense(obj, k) /\ r.object = h
    <2> DEFINE e == [obj.elements EXCEPT ![canonical_array_index(k) + 1] = Hole]
    <2>1. h = [obj EXCEPT !.elements = e]
      OBVIOUS
    <2> HIDE DEF h, e, r
    <2>2. /\ h.elements = e /\ h.kind = obj.kind /\ h.properties = obj.properties
          /\ h.property_order = obj.property_order /\ h.array_length = obj.array_length
      BY <1>0, <2>1 DEF ObjectFields
    <2>3. \A x : is_dense(h, x) <=> x # k /\ is_dense(obj, x)
      BY <1>2, <2>2, HoledAs DEF e
    <2>4. Ordered(h)
      BY <2>2, AgreesMeans, SameOrdered
    <2>5. \A x \in Indices : /\ InTable(h, x) => InTable(obj, x)
                             /\ is_dense(h, x) => is_dense(obj, x)
      BY <2>2, <2>3 DEF InTable
    <2>6. obj.kind = "array" => Settled(h)
      BY <1>0, <2>2, <2>5, AgreesMeans, SettledBelow
    <2>7. obj.kind = "array"
      BY <1>2 DEF is_dense
    <2> QED
      BY <1>2, <2>2, <2>4, <2>6, <2>7, AgreesMeans DEF r
  <1>3. CASE r.object = t \/ r.object = u
    <2>1. Ordered(t)
      BY <1>0, AgreesMeans, DropOrdered
    <2>2. /\ SameButTable(obj, t) /\ t.mapped = obj.mapped
          /\ t.properties = [x \in DOMAIN obj.properties \ {k} |-> obj.properties[x]]
      BY <1>0, Dropped
    <2> HIDE DEF t
    <2>3. /\ t.kind = obj.kind /\ t.elements = obj.elements /\ t.array_length = obj.array_length
          /\ DOMAIN t = ObjectFields /\ t.mapped = obj.mapped
      BY <2>2, <1>0 DEF SameButTable, SameOutside
    <2>4. \A x \in Indices : /\ InTable(t, x) => InTable(obj, x)
                             /\ is_dense(t, x) => is_dense(obj, x)
      BY <2>2, <2>3 DEF InTable, is_dense
    <2>5. obj.kind = "array" => Settled(t)
      BY <1>0, <2>3, <2>4, AgreesMeans, SettledBelow
    <2>a. obj.kind # "array" => Apart(t)
      <3>1. \A x : InTable(t, x) => InTable(obj, x)
        BY <2>2 DEF InTable
      <3> QED
        BY <2>3, <3>1, SameMapping, AgreesMeans, StaysApart
    <2>6. TableAgrees(t)
      BY <2>1, <2>3, <2>5, <2>a, AgreesMeans
    <2> DEFINE n == [t.mapped EXCEPT ![canonical_array_index(k) + 1] = Null]
    <2>7. u = [t EXCEPT !.mapped = n]
      OBVIOUS
    <2> HIDE DEF u, r
    <2>8. /\ u.kind = t.kind /\ u.elements = t.elements /\ u.array_length = t.array_length
          /\ u.properties = t.properties /\ u.property_order = t.property_order
          /\ u.mapped = [obj.mapped EXCEPT ![canonical_array_index(k) + 1] = Null]
      BY <2>3, <2>7 DEF ObjectFields
    <2>c. TableAgrees(u)
      <3>1. Ordered(u)
        BY <2>1, <2>8, SameOrdered
      <3>2. \A x : (InTable(u, x) <=> InTable(t, x)) /\ (is_dense(u, x) <=> is_dense(t, x))
        BY <2>8 DEF InTable, is_dense
      <3>3. u.kind = "array" => Settled(u)
        BY <2>3, <2>5, <2>8, <3>2 DEF Settled
      <3>4. \A x : mapped_argument_upvalue(u, x) \in {Null, mapped_argument_upvalue(obj, x)}
        BY <1>0, <2>3, <2>8, Unmapped
      <3>5. \A x : InTable(u, x) => InTable(obj, x)
        BY <3>2, <2>2 DEF InTable
      <3>6. u.kind # "array" => Apart(u)
        BY <2>3, <2>8, <3>4, <3>5, AgreesMeans, StaysApart
      <3> QED
        BY <3>1, <3>3, <3>6, AgreesMeans
    <2> QED
      BY <1>3, <2>6, <2>c DEF r
  <1> QED
    BY <1>1, <1>2, <1>3 DEF delete_property, Outcome

LEMMA PopAgrees ==
    ASSUME NEW obj, Good(obj), TableAgrees(obj), obj.kind = "array", NEW par, NEW index,
           IndexNames[index + 1] \in Keys
    PROVE  TableAgrees(finish_pop(obj, par, index).object)
  <1> DEFINE t == delete_property(obj, par, IndexNames[index + 1])
             d == [value |-> index]
  <1>1. Safe(obj, par, t) /\ TableAgrees(t.object)
    BY DeleteKeeps, DeleteAgrees
  <1>2. finish_pop(obj, par, index) = IF ~t.result THEN t ELSE define_array_length(t.object, par, d)
    BY DEF finish_pop
  <1> HIDE DEF t, d
  <1>3. Good(t.object) /\ t.object.kind = "array"
    BY <1>1 DEF Safe, Kept
  <1>4. TableAgrees(define_array_length(t.object, par, d).object)
    BY <1>1, <1>3, LengthAgrees
  <1> QED
    BY <1>1, <1>2, <1>4

-----------------------------------------------------------------------------
(* The steps *)

LEMMA CommitAgrees ==
    ASSUME Inv, TablesAgree, NEW o \in Objects, NEW r, TableAgrees(r.object), Commit(o, r)
    PROVE  TablesAgree'
  <1>1. heap = [x \in Objects |-> heap[x]]
    BY DEF Inv, TypeOK
  <1>2. heap'[o] = r.object /\ \A x \in Objects : x # o => heap'[x] = heap[x]
    BY <1>1 DEF Commit
  <1>3. ASSUME NEW x \in Objects PROVE TableAgrees(heap'[x])
    BY <1>2 DEF TablesAgree
  <1> QED
    BY <1>3 DEF TablesAgree

LEMMA FieldAgrees ==
    ASSUME Inv, TablesAgree, NEW o \in Objects, NEW f \in {"extensible", "prototype"}, NEW v,
           heap' = [heap EXCEPT ![o] = [@ EXCEPT ![f] = v]]
    PROVE  TablesAgree'
  <1> DEFINE r == [heap[o] EXCEPT ![f] = v]
  <1>1. heap = [x \in Objects |-> heap[x]] /\ ObjectOK(heap[o]) /\ DOMAIN heap[o] = ObjectFields
    BY DEF Inv, TypeOK, ObjectOK
  <1>2. heap'[o] = r /\ \A x \in Objects : x # o => heap'[x] = heap[x]
    BY <1>1
  <1>3. /\ r.kind = heap[o].kind /\ r.elements = heap[o].elements
        /\ r.property_order = heap[o].property_order /\ r.properties = heap[o].properties
        /\ r.array_length = heap[o].array_length /\ r.mapped = heap[o].mapped
    BY <1>1 DEF ObjectFields
  <1> HIDE DEF r
  <1>4. heap[o].array_length \in Nat
    BY <1>1, BoundsAssumption DEF ObjectOK
  <1>5. TableAgrees(r)
    BY <1>1, <1>3, <1>4, SameMapping, AlikeAgrees DEF TablesAgree
  <1>6. ASSUME NEW x \in Objects PROVE TableAgrees(heap'[x])
    BY <1>2, <1>5 DEF TablesAgree
  <1> QED
    BY <1>6 DEF TablesAgree

LEMMA NextAgrees ==
    ASSUME Inv, TablesAgree, Next
    PROVE  TablesAgree'
  <1>d. ASSUME NEW o \in Objects, NEW k \in Keys, NEW d,
               Commit(o, define_own_property(heap[o], parameters, k, d))
        PROVE  TablesAgree'
    <2> DEFINE r == define_own_property(heap[o], parameters, k, d)
    <2>1. TableAgrees(r.object)
      BY AllGood, DefineAgrees DEF TablesAgree
    <2> HIDE DEF r
    <2> QED
      BY <1>d, <2>1, CommitAgrees DEF r
  <1>p. ASSUME NEW o \in Objects, heap[o].kind = "array",
               NEW index \in 0 .. Len(IndexNames) - 1,
               Commit(o, finish_pop(heap[o], parameters, index))
        PROVE  TablesAgree'
    <2> DEFINE r == finish_pop(heap[o], parameters, index)
    <2>1. IndexNames[index + 1] \in Keys
      BY NamesAreKeys
    <2>2. TableAgrees(r.object)
      BY <1>p, <2>1, AllGood, PopAgrees DEF TablesAgree
    <2> HIDE DEF r
    <2> QED
      BY <1>p, <2>2, CommitAgrees DEF r
  <1>h. ASSUME heap' = heap PROVE TablesAgree'
    BY <1>h DEF TablesAgree
  <1>1. ASSUME NEW t \in Definitions, DefineOwnProperty(t[1], t[2], t[3]) PROVE TablesAgree'
    <2>1. t[1] \in Objects /\ t[2] \in Keys
      BY InputsAssumption
    <2> QED
      BY <1>1, <1>d, <2>1 DEF DefineOwnProperty
  <1>2. ASSUME NEW t \in Writes, SetData(t[1], t[2], t[3], t[4]) PROVE TablesAgree'
    <2> DEFINE d == set_own_descriptor(heap[t[4]], t[2], t[3])
    <2>1. t[4] \in Objects /\ t[2] \in Keys
      BY InputsAssumption
    <2>2. Commit(t[4], define_own_property(heap[t[4]], parameters, t[2], d))
      BY <1>2 DEF SetData
    <2> HIDE DEF d
    <2> QED
      BY <1>d, <2>1, <2>2
  <1>3. ASSUME NEW t \in Writes, SetOwnProperty(t[1], t[2], t[3]) PROVE TablesAgree'
    <2> DEFINE d == set_own_descriptor(heap[t[1]], t[2], t[3])
    <2>1. t[1] \in Objects /\ t[2] \in Keys
      BY InputsAssumption
    <2>2. Commit(t[1], define_own_property(heap[t[1]], parameters, t[2], d))
      BY <1>3 DEF SetOwnProperty
    <2> HIDE DEF d
    <2> QED
      BY <1>d, <2>1, <2>2
  <1>4. ASSUME NEW t \in Deletions, DeleteProperty(t[1], t[2]) PROVE TablesAgree'
    <2> DEFINE o == t[1]
               r == delete_property(heap[o], parameters, t[2])
    <2>1. o \in Objects /\ t[2] \in Keys
      BY InputsAssumption
    <2>2. TableAgrees(r.object)
      BY <2>1, AllGood, DeleteAgrees DEF TablesAgree
    <2>3. Commit(o, r)
      BY <1>4 DEF DeleteProperty
    <2> HIDE DEF o, r
    <2> QED
      BY <2>1, <2>2, <2>3, CommitAgrees
  <1>5. ASSUME NEW t \in Reparentings, SetPrototype(t[1], t[2]) PROVE TablesAgree'
    <2>1. t[1] \in Objects /\ heap' = [heap EXCEPT ![t[1]].prototype = t[2]]
      BY <1>5, InputsAssumption DEF SetPrototype
    <2> QED
      BY <2>1, FieldAgrees
  <1>6. ASSUME NEW o \in Sealable, PreventExtensions(o) PROVE TablesAgree'
    <2>1. o \in Objects /\ heap' = [heap EXCEPT ![o].extensible = FALSE]
      BY <1>6, InputsAssumption DEF PreventExtensions
    <2> QED
      BY <2>1, FieldAgrees
  <1>7. ASSUME NEW o \in Objects, ArrayPop(o) PROVE TablesAgree'
    <2> DEFINE index == heap[o].array_length - 1
    <2>1. /\ heap[o].kind = "array" /\ heap[o].array_length \in 1 .. Len(IndexNames)
          /\ Commit(o, finish_pop(heap[o], parameters, index))
      BY <1>7 DEF ArrayPop
    <2>2. index \in 0 .. Len(IndexNames) - 1
      BY <2>1, NamesAreKeys
    <2> HIDE DEF index
    <2> QED
      BY <1>p, <2>1, <2>2
  <1>8. ASSUME NEW o \in Objects, ArrayPopCallsGetter(o) PROVE TablesAgree'
    BY <1>8, <1>h DEF ArrayPopCallsGetter
  <1>9. ASSUME NEW o \in Objects, NEW v \in Pushed, ArrayPush(o, v) PROVE TablesAgree'
    <2> DEFINE k == IndexNames[heap[o].array_length + 1]
               d == data(v, TRUE, TRUE, TRUE)
    <2>1. /\ heap[o].array_length < Len(IndexNames)
          /\ Commit(o, define_own_property(heap[o], parameters, k, d))
      BY <1>9 DEF ArrayPush
    <2>2. heap[o].array_length \in Nat
      BY AllGood, BoundsAssumption DEF Good, ObjectOK
    <2>3. k \in Keys
      BY <2>1, <2>2, NamesAreKeys
    <2> HIDE DEF k, d
    <2> QED
      BY <1>d, <2>1, <2>3
  <1>10. ASSUME NEW p \in Parameters, NEW v \in Pushed, AssignParameter(p, v) PROVE TablesAgree'
    BY <1>10, <1>h DEF AssignParameter
  <1>11. CASE GetterReturns
    <2> DEFINE call == Last(popping)
    <2>1. popping # <<>> /\ Commit(call.array, finish_pop(heap[call.array], parameters, call.index))
      BY <1>11 DEF GetterReturns
    <2>2. /\ call.array \in Objects /\ heap[call.array].kind = "array"
          /\ call.index \in 0 .. Len(IndexNames) - 1
      <3> DEFINE P == [array : Objects, index : 0 .. Len(IndexNames) - 1]
                 n == Len(popping)
      <3>1. popping \in Seq(P) /\ \A i \in DOMAIN popping : heap[popping[i].array].kind = "array"
        BY DEF Inv, TypeOK, PendingPops
      <3>2. \A e \in P : e.array \in Objects /\ e.index \in 0 .. Len(IndexNames) - 1
        OBVIOUS
      <3> HIDE DEF P
      <3>3. n \in DOMAIN popping /\ popping[n] \in P
        BY <2>1, <3>1
      <3>4. call = popping[n]
        BY DEF Last
      <3> HIDE DEF call, n
      <3> QED
        BY <3>1, <3>2, <3>3, <3>4
    <2> HIDE DEF call
    <2> QED
      BY <1>p, <2>1, <2>2
  <1>12. CASE GetterThrows
    BY <1>12, <1>h DEF GetterThrows
  <1> QED
    BY <1>1, <1>2, <1>3, <1>4, <1>5, <1>6, <1>7, <1>8, <1>9, <1>10, <1>11, <1>12 DEF Next

\* StorageStaysInAgreement: whatever is defined, written, pushed, popped and
\* deleted, also by the getters that run inside array_pop, the insertion order, the
\* dense elements, the length and the enumeration of an object agree with its table.
THEOREM StorageStaysInAgreement == Spec => []StorageAgrees
  <1>1. Init => TablesAgree
    BY HeapsAssumption DEF Init, TablesAgree
  <1>2. Inv /\ TablesAgree /\ [Next]_vars => TablesAgree'
    <2>1. ASSUME UNCHANGED vars, TablesAgree PROVE TablesAgree'
      BY <2>1 DEF vars, TablesAgree
    <2> QED
      BY <2>1, NextAgrees
  <1>3. Inv /\ TablesAgree => StorageAgrees
    <2> SUFFICES ASSUME Inv, TablesAgree, NEW o \in Objects, heap[o].kind # "function"
                 PROVE  KeysListed(heap[o])
      BY DEF StorageAgrees, KeysAreOwn
    <2> QED
      BY AllGood, AgreeingListed DEF TablesAgree, Good
  <1> QED
    BY <1>1, <1>2, <1>3, Invariant, PTL DEF Spec

-----------------------------------------------------------------------------
(* Definitions and the reference: descriptors *)

\* A descriptor does not turn a data property into an accessor or back.
Matches(p, d) ==
    /\ ~Malformed(d)
    /\ ~is_generic_descriptor(d) => is_accessor_descriptor(p) = is_accessor_descriptor(d)

LEMMA MatchingFields ==
    ASSUME NEW p, Complete(p), NEW d, IsDescriptor(d), Matches(p, d)
    PROVE  /\ DOMAIN d \subseteq DOMAIN p
           /\ is_data_descriptor(d) => ~is_accessor_descriptor(p)
           /\ is_accessor_descriptor(d) => is_accessor_descriptor(p)
  <1>1. /\ is_accessor_descriptor(p) => DOMAIN p = AccessorShape
        /\ ~is_accessor_descriptor(p) => DOMAIN p = DataShape
    BY CompleteShape
  <1>2. DOMAIN d \subseteq Fields
    BY DEF IsDescriptor
  <1>3. is_accessor_descriptor(d) \in BOOLEAN /\ is_accessor_descriptor(p) \in BOOLEAN
    BY DEF is_accessor_descriptor
  <1>4. /\ is_data_descriptor(d) => ~is_accessor_descriptor(p)
        /\ is_accessor_descriptor(d) => is_accessor_descriptor(p)
    BY <1>3 DEF Matches, Malformed, is_generic_descriptor
  <1>5. /\ ~is_accessor_descriptor(p) => DOMAIN d \subseteq DataShape
        /\ is_accessor_descriptor(p) => DOMAIN d \subseteq AccessorShape
    BY <1>2, <1>4 DEF is_data_descriptor, is_accessor_descriptor, Fields, DataFields,
                      AccessorFields, DataShape, AccessorShape
  <1> QED
    BY <1>1, <1>4, <1>5

\* The code refuses what the reference does not permit.
LEMMA RefusesAsReference ==
    ASSUME NEW own, NEW k, k \in DOMAIN own, Complete(own[k]), NEW ext,
           NEW d, IsDescriptor(d), Matches(own[k], d)
    PROVE  Permits(own, ext, k, d) <=> ~refuses(own[k], d)
  <1> DEFINE p == own[k]
             acc == is_accessor_descriptor(p)
             attributes == /\ ~Flag(d, "configurable")
                           /\ "enumerable" \in DOMAIN d => d.enumerable = p.enumerable
             agrees == \A f \in (DOMAIN d \cap DOMAIN p) \ {"value", "writable"} : d[f] = p[f]
             same == \A f \in DOMAIN d \cap DataFields : d[f] = p[f]
  <1>p. /\ acc => DOMAIN p = AccessorShape
        /\ ~acc => DOMAIN p = DataShape
        /\ "configurable" \in DOMAIN p /\ p.configurable \in BOOLEAN
        /\ "writable" \in DOMAIN p => p.writable \in BOOLEAN
    BY CompleteShape
  <1>d. /\ DOMAIN d \subseteq DOMAIN p
        /\ is_data_descriptor(d) => ~acc
        /\ is_accessor_descriptor(d) => acc
        /\ ~is_generic_descriptor(d) => acc = is_accessor_descriptor(d)
    BY MatchingFields DEF Matches
  <1>t. \A f \in DOMAIN d : f \in {"writable", "enumerable", "configurable"} => d[f] \in BOOLEAN
    BY DEF IsDescriptor
  <1>1. Permits(own, ext, k, d) <=>
          \/ p.configurable
          \/ /\ ~Flag(d, "configurable") /\ agrees
             /\ Flag(p, "writable") \/ acc \/ same
    BY <1>d DEF Permits
  <1>2. refuses(p, d) <=>
          /\ ~p.configurable
          /\ \/ ~attributes
             \/ /\ ~acc /\ is_data_descriptor(d) /\ ~Flag(p, "writable")
                /\ Flag(d, "writable") \/ ("value" \in DOMAIN d /\ d.value # p.value)
             \/ /\ acc /\ is_accessor_descriptor(d)
                /\ \E f \in AccessorFields \cap DOMAIN d : d[f] # p[f]
    <2>1. Flag(p, "configurable") <=> p.configurable
      BY <1>p DEF Flag
    <2> QED
      BY <1>d, <2>1 DEF refuses
  <1>3. CASE p.configurable
    BY <1>1, <1>2, <1>3
  <1>4. CASE ~p.configurable /\ acc
    <2>1. agrees /\ ~Flag(d, "configurable") <=>
            attributes /\ \A f \in AccessorFields \cap DOMAIN d : d[f] = p[f]
      BY <1>4, <1>p, <1>d, <1>t DEF AccessorShape, AccessorFields, Flag
    <2>2. ~is_accessor_descriptor(d) => AccessorFields \cap DOMAIN d = {}
      BY DEF is_accessor_descriptor
    <2> HIDE DEF agrees, same, attributes, acc
    <2> QED
      BY <1>1, <1>2, <1>4, <2>1, <2>2
  <1>5. CASE ~p.configurable /\ ~acc
    <2>1. agrees /\ ~Flag(d, "configurable") <=> attributes
      BY <1>5, <1>p, <1>d, <1>t DEF DataShape, Flag
    <2>2. ~is_data_descriptor(d) => same
      BY DEF is_data_descriptor
    <2>3. ~Flag(p, "writable") =>
            (same <=> ~Flag(d, "writable") /\ ("value" \in DOMAIN d => d.value = p.value))
      BY <1>5, <1>p, <1>d, <1>t DEF DataFields, DataShape, Flag
    <2> HIDE DEF agrees, same, attributes, acc
    <2> QED
      BY <1>1, <1>2, <1>5, <2>1, <2>2, <2>3
  <1> QED
    BY <1>3, <1>4, <1>5, <1>p

\* The code merges as the reference does.
LEMMA MergesAsReference ==
    ASSUME NEW p, Complete(p), NEW d, IsDescriptor(d), Matches(p, d)
    PROVE  merge_descriptor(p, d) = Overlay(d, p)
  <1> DEFINE converts == /\ ~is_generic_descriptor(d)
                         /\ is_accessor_descriptor(p) # is_accessor_descriptor(d)
             m == Overlay(d, p)
  <1>1. ~converts
    BY DEF Matches
  <1>2. merge_descriptor(p, d) = complete_descriptor(m, is_accessor_descriptor(m))
    BY <1>1 DEF merge_descriptor
  <1>3. DOMAIN m = DOMAIN p /\ m = [f \in DOMAIN m |-> m[f]]
    BY MatchingFields DEF Overlay
  <1> HIDE DEF m
  <1>4. /\ is_accessor_descriptor(m) => DOMAIN m = AccessorShape
        /\ ~is_accessor_descriptor(m) => DOMAIN m = DataShape
    BY <1>3, CompleteShape DEF is_accessor_descriptor
  <1>5. complete_descriptor(m, is_accessor_descriptor(m)) = [f \in DOMAIN m |-> m[f]]
    <2>1. CASE is_accessor_descriptor(m)
      BY <2>1, <1>4 DEF complete_descriptor, AccessorShape, AccessorFields
    <2>2. CASE ~is_accessor_descriptor(m)
      BY <2>2, <1>4 DEF complete_descriptor, DataShape, DataFields
    <2> QED
      BY <2>1, <2>2
  <1> QED
    BY <1>2, <1>3, <1>5 DEF m

\* Fields that are there already change nothing.
LEMMA OverlaySame ==
    ASSUME NEW p, p = [f \in DOMAIN p |-> p[f]], NEW d, DOMAIN d \subseteq DOMAIN p,
           \A f \in DOMAIN d : d[f] = p[f]
    PROVE  Overlay(d, p) = p
  <1>1. DOMAIN d \cup DOMAIN p = DOMAIN p
    OBVIOUS
  <1>2. Overlay(d, p) = [f \in DOMAIN p |-> p[f]]
    BY <1>1 DEF Overlay
  <1> QED
    BY <1>2

-----------------------------------------------------------------------------
(* Definitions and the reference: own properties as scripts see them *)

LEMMA ViewFacts ==
    ASSUME NEW obj, NEW par
    PROVE  LET v == own_view(obj, par) IN
           /\ v = [x \in DOMAIN v |-> v[x]]
           /\ DOMAIN v = { x \in Keys : has_own(obj, x) }
           /\ \A x \in DOMAIN v : v[x] = get_own_property_descriptor(obj, par, x)
  BY DEF own_view

LEMMA ViewIs ==
    ASSUME NEW obj, NEW par, NEW v, v = [x \in DOMAIN v |-> v[x]],
           DOMAIN v = { x \in Keys : has_own(obj, x) },
           \A x \in DOMAIN v : v[x] = get_own_property_descriptor(obj, par, x)
    PROVE  own_view(obj, par) = v
  BY DEF own_view

\* Key x shows the same property.
Same(obj, par, r, q, x) ==
    /\ has_own(r, x) <=> has_own(obj, x)
    /\ has_own(obj, x) =>
          get_own_property_descriptor(r, q, x) = get_own_property_descriptor(obj, par, x)

LEMMA ViewSame ==
    ASSUME NEW obj, NEW par, NEW r, NEW q, \A x \in Keys : Same(obj, par, r, q, x)
    PROVE  own_view(r, q) = own_view(obj, par)
  <1> DEFINE v == own_view(obj, par)
  <1>1. /\ v = [x \in DOMAIN v |-> v[x]]
        /\ DOMAIN v = { x \in Keys : has_own(obj, x) }
        /\ \A x \in DOMAIN v : v[x] = get_own_property_descriptor(obj, par, x)
    BY ViewFacts
  <1> HIDE DEF v
  <1>2. DOMAIN v = { x \in Keys : has_own(r, x) }
    BY <1>1 DEF Same
  <1>3. \A x \in DOMAIN v : v[x] = get_own_property_descriptor(r, q, x)
    BY <1>1 DEF Same
  <1>4. own_view(r, q) = v
    BY <1>1, <1>2, <1>3, ViewIs
  <1> QED
    BY <1>4 DEF v

LEMMA ViewWith ==
    ASSUME NEW obj, NEW par, NEW r, NEW q, NEW k \in Keys, NEW e,
           \A x \in Keys \ {k} : Same(obj, par, r, q, x),
           has_own(r, k), get_own_property_descriptor(r, q, k) = e
    PROVE  own_view(r, q) = With(own_view(obj, par), k, e)
  <1> DEFINE v == own_view(obj, par)
             w == With(v, k, e)
  <1>1. /\ DOMAIN v = { x \in Keys : has_own(obj, x) }
        /\ \A x \in DOMAIN v : v[x] = get_own_property_descriptor(obj, par, x)
    BY ViewFacts
  <1> HIDE DEF v
  <1>2. /\ DOMAIN w = DOMAIN v \cup {k} /\ w = [x \in DOMAIN w |-> w[x]]
        /\ w[k] = e /\ \A x \in DOMAIN v : x # k => w[x] = v[x]
    BY DEF With
  <1> HIDE DEF w
  <1>3. DOMAIN w = { x \in Keys : has_own(r, x) }
    BY <1>1, <1>2 DEF Same
  <1>4. ASSUME NEW x \in DOMAIN w PROVE w[x] = get_own_property_descriptor(r, q, x)
    <2>1. CASE x = k
      BY <2>1, <1>2
    <2>2. CASE x # k
      BY <2>2, <1>1, <1>2 DEF Same
    <2> QED
      BY <2>1, <2>2
  <1>5. own_view(r, q) = w
    BY <1>2, <1>3, <1>4, ViewIs
  <1> QED
    BY <1>5 DEF w, v

LEMMA WithSame ==
    ASSUME NEW v, v = [x \in DOMAIN v |-> v[x]], NEW k \in DOMAIN v
    PROVE  With(v, k, v[k]) = v
  <1>1. DOMAIN v \cup {k} = DOMAIN v
    OBVIOUS
  <1>2. With(v, k, v[k]) = [x \in DOMAIN v |-> v[x]]
    BY <1>1 DEF With
  <1> QED
    BY <1>2

\* A property that stays in the table, with its parameter.
LEMMA StoredSame ==
    ASSUME NEW obj, NEW par, NEW r, NEW q, NEW x, InTable(obj, x), InTable(r, x),
           r.properties[x] = obj.properties[x],
           mapped_argument_upvalue(r, x) = mapped_argument_upvalue(obj, x),
           mapped_argument_upvalue(obj, x) # Null =>
               q[mapped_argument_upvalue(obj, x)] = par[mapped_argument_upvalue(obj, x)]
    PROVE  Same(obj, par, r, q, x)
  <1> DEFINE up == mapped_argument_upvalue(obj, x)
             t == obj.properties[x]
  <1>1. has_own(obj, x) /\ has_own(r, x)
    BY DEF has_own
  <1>2. CASE up = Null
    BY <1>1, <1>2 DEF Same, get_own_property_descriptor
  <1>3. CASE up # Null
    <2>1. get_own_property_descriptor(obj, par, x) = With(t, "value", par[up])
      BY <1>3 DEF get_own_property_descriptor
    <2>2. get_own_property_descriptor(r, q, x)
            = With(r.properties[x], "value", q[mapped_argument_upvalue(r, x)])
      BY <1>3 DEF get_own_property_descriptor
    <2> HIDE DEF up
    <2>3. get_own_property_descriptor(r, q, x) = With(t, "value", par[up])
      BY <2>2, <1>3 DEF up
    <2> QED
      BY <1>1, <2>1, <2>3 DEF Same
  <1> QED
    BY <1>2, <1>3

\* A property that stays outside the table.
LEMMA OutsideSame ==
    ASSUME NEW obj, NEW par, NEW r, NEW q, NEW x, ~InTable(obj, x), ~InTable(r, x),
           is_virtual(r, x) <=> is_virtual(obj, x),
           is_virtual(obj, x) => virtual_descriptor(r, x) = virtual_descriptor(obj, x)
    PROVE  Same(obj, par, r, q, x)
  BY DEF Same, has_own, get_own_property_descriptor

\* What an array shows.
LEMMA ArrayShows ==
    ASSUME NEW obj, ObjectOK(obj), obj.kind = "array", NEW par
    PROVE  /\ \A x : has_own(obj, x) <=> x = "length" \/ InTable(obj, x) \/ is_dense(obj, x)
           /\ get_own_property_descriptor(obj, par, "length")
                = data(obj.array_length, obj.array_length_writable, FALSE, FALSE)
           /\ \A x : InTable(obj, x) =>
                 x # "length" /\ get_own_property_descriptor(obj, par, x) = obj.properties[x]
           /\ \A x : ~InTable(obj, x) /\ is_dense(obj, x) =>
                 /\ x # "length"
                 /\ get_own_property_descriptor(obj, par, x) = data(Slot(obj, x), TRUE, TRUE, TRUE)
  <1>1. \A x : mapped_argument_upvalue(obj, x) = Null
    BY DEF mapped_argument_upvalue
  <1>2. ~InTable(obj, "length")
    BY DEF ObjectOK
  <1>3. \A x : is_dense(obj, x) => x # "length"
    BY KeysAssumption DEF is_dense, is_index
  <1>4. virtual_descriptor(obj, "length")
          = data(obj.array_length, obj.array_length_writable, FALSE, FALSE)
    BY DEF virtual_descriptor
  <1>5. \A x : x # "length" => virtual_descriptor(obj, x) = data(Slot(obj, x), TRUE, TRUE, TRUE)
    BY DEF virtual_descriptor, Slot
  <1>6. \A x : has_own(obj, x) <=> x = "length" \/ InTable(obj, x) \/ is_dense(obj, x)
    BY DEF has_own, is_virtual, string_exotic_property
  <1> QED
    BY <1>1, <1>2, <1>3, <1>4, <1>5, <1>6 DEF get_own_property_descriptor

LEMMA ArraySame ==
    ASSUME NEW obj, ObjectOK(obj), obj.kind = "array", NEW r, ObjectOK(r), r.kind = "array",
           NEW par, NEW q, NEW x,
           x = "length" => /\ r.array_length = obj.array_length
                           /\ r.array_length_writable = obj.array_length_writable,
           x # "length" =>
              /\ InTable(r, x) <=> InTable(obj, x)
              /\ is_dense(r, x) <=> is_dense(obj, x)
              /\ InTable(obj, x) => r.properties[x] = obj.properties[x]
              /\ is_dense(obj, x) => Slot(r, x) = Slot(obj, x)
    PROVE  Same(obj, par, r, q, x)
  <1>1. /\ has_own(r, x) <=> x = "length" \/ InTable(r, x) \/ is_dense(r, x)
        /\ has_own(obj, x) <=> x = "length" \/ InTable(obj, x) \/ is_dense(obj, x)
    <2>1. \A y : has_own(r, y) <=> y = "length" \/ InTable(r, y) \/ is_dense(r, y)
      BY ArrayShows
    <2>2. \A y : has_own(obj, y) <=> y = "length" \/ InTable(obj, y) \/ is_dense(obj, y)
      BY ArrayShows
    <2> QED
      BY <2>1, <2>2
  <1>2. CASE x = "length"
    <2>1. get_own_property_descriptor(r, q, x) = get_own_property_descriptor(obj, par, x)
      BY <1>2, ArrayShows
    <2> QED
      BY <1>1, <1>2, <2>1 DEF Same
  <1>3. CASE x # "length" /\ InTable(obj, x)
    <2>1. get_own_property_descriptor(obj, par, x) = obj.properties[x]
      BY <1>3, ArrayShows
    <2>2. InTable(r, x) /\ r.properties[x] = obj.properties[x]
      BY <1>3
    <2>3. get_own_property_descriptor(r, q, x) = r.properties[x]
      BY <2>2, ArrayShows
    <2> QED
      BY <1>1, <1>3, <2>1, <2>2, <2>3 DEF Same
  <1>4. CASE x # "length" /\ ~InTable(obj, x) /\ is_dense(obj, x)
    <2>1. get_own_property_descriptor(obj, par, x) = data(Slot(obj, x), TRUE, TRUE, TRUE)
      BY <1>4, ArrayShows
    <2>2. ~InTable(r, x) /\ is_dense(r, x) /\ Slot(r, x) = Slot(obj, x)
      BY <1>4
    <2>3. get_own_property_descriptor(r, q, x) = data(Slot(r, x), TRUE, TRUE, TRUE)
      BY <2>2, ArrayShows
    <2>4. get_own_property_descriptor(r, q, x) = get_own_property_descriptor(obj, par, x)
      BY <2>1, <2>2, <2>3
    <2> QED
      BY <1>1, <1>4, <2>2, <2>4 DEF Same
  <1>5. CASE x # "length" /\ ~InTable(obj, x) /\ ~is_dense(obj, x)
    BY <1>1, <1>5 DEF Same
  <1> QED
    BY <1>2, <1>3, <1>4, <1>5

\* An index below the length does not move it.
LEMMA LengthUnmoved ==
    ASSUME NEW v, v = [x \in DOMAIN v |-> v[x]], "length" \in DOMAIN v,
           NEW n \in Nat, NEW w, v["length"] = data(n, w, FALSE, FALSE),
           NEW c \in Nat, c <= n
    PROVE  [v EXCEPT !["length"].value = Max({@, c})] = v
  <1> DEFINE p == v["length"]
             m == Max({p.value, c})
             u == [p EXCEPT !.value = m]
  <1>1. p.value = n /\ DOMAIN p = DataShape /\ p = [f \in DataShape |-> p[f]]
    BY DEF data, DataShape
  <1>2. m = n
    <2>1. Max({n, c}) = n
      BY MaxPair
    <2> HIDE DEF p
    <2> QED
      BY <1>1, <2>1
  <1>3. u = p
    <2> HIDE DEF m, p
    <2>1. u = [f \in DataShape |-> IF f = "value" THEN n ELSE p[f]]
      BY <1>1, <1>2
    <2> QED
      BY <2>1, <1>1
  <1>4. [v EXCEPT !["length"].value = Max({@, c})] = [v EXCEPT !["length"] = u]
    OBVIOUS
  <1> HIDE DEF u
  <1>5. [v EXCEPT !["length"] = u] = v
    BY <1>3
  <1> QED
    BY <1>4, <1>5

\* What the reference expects of a property that is there and is no array length.
LEMMA ReferenceStored ==
    ASSUME NEW obj, Good(obj), TableAgrees(obj), NEW par, NEW k \in Keys, has_own(obj, k),
           ~(obj.kind = "array" /\ k = "length"), NEW d,
           NEW own, own = own_view(obj, par)
    PROVE  /\ k \in DOMAIN own /\ own[k] = get_own_property_descriptor(obj, par, k)
           /\ own = [x \in DOMAIN own |-> own[x]]
           /\ Expected(obj, par, k, d) =
                IF Permits(own, obj.extensible, k, d)
                THEN With(own, k, Overlay(d, own[k])) ELSE own
  <1>1. /\ own = [x \in DOMAIN own |-> own[x]]
        /\ DOMAIN own = { x \in Keys : has_own(obj, x) }
        /\ \A x \in DOMAIN own : own[x] = get_own_property_descriptor(obj, par, x)
    BY ViewFacts
  <1>2. k \in DOMAIN own /\ own[k] = get_own_property_descriptor(obj, par, k)
    BY <1>1
  <1> DEFINE v == Applied(own, k, d)
             c == canonical_array_index(k)
  <1>3. v = With(own, k, Overlay(d, own[k]))
    BY <1>2 DEF Applied
  <1>4. CASE ~(obj.kind = "array" /\ is_index(k))
    <2> HIDE DEF v
    <2>1. Expected(obj, par, k, d) = IF Permits(own, obj.extensible, k, d) THEN v ELSE own
      BY <1>4 DEF Expected, v
    <2> QED
      BY <1>1, <1>2, <1>3, <2>1
  <1>5. CASE obj.kind = "array" /\ is_index(k)
    <2>o. ObjectOK(obj) /\ obj.array_length \in Nat
      BY BoundsAssumption DEF Good, ObjectOK
    <2>k. k \in Indices /\ k # "length" /\ c \in Nat
      BY <1>5, IndexOf, KeysAssumption DEF is_index, Indices
    <2>1. InTable(obj, k) \/ is_dense(obj, k)
      BY <1>5, <2>o, <2>k, ArrayShows
    <2>2. c < obj.array_length
      BY <1>5, <2>1, <2>k, AgreesMeans DEF Settled
    <2> DEFINE n == obj.array_length
               w == obj.array_length_writable
    <2>3. own["length"] = data(n, w, FALSE, FALSE) /\ "length" \in DOMAIN own
      BY <1>1, <1>5, <2>o, ArrayShows, KeysAssumption
    <2>4. /\ v = [x \in DOMAIN v |-> v[x]]
          /\ "length" \in DOMAIN v /\ v["length"] = data(n, w, FALSE, FALSE)
      BY <1>3, <2>3, <2>k DEF With
    <2>5. own["length"].value = n
      BY <2>3 DEF data
    <2> HIDE DEF v, c
    <2>6. [v EXCEPT !["length"].value = Max({@, c + 1})] = v
      <3>1. c + 1 \in Nat /\ c + 1 <= n /\ n \in Nat
        BY <2>2, <2>k, <2>o
      <3> HIDE DEF n, w
      <3> DEFINE e == c + 1
      <3>2. e \in Nat /\ e <= n
        BY <3>1
      <3> HIDE DEF e
      <3>3. [v EXCEPT !["length"].value = Max({@, e})] = v
        BY <2>4, <3>1, <3>2, LengthUnmoved
      <3> QED
        BY <3>3 DEF e
    <2>7. AppliedElement(own, k, d) = v
      BY <2>6 DEF AppliedElement, v, c
    <2>8. ~(c >= own["length"].value)
      BY <2>2, <2>5, <2>k, <2>o
    <2>9. Expected(obj, par, k, d) =
            IF Permits(own, obj.extensible, k, d) THEN AppliedElement(own, k, d) ELSE own
      BY <1>5, <2>8, <2>k DEF Expected, c
    <2> QED
      BY <1>1, <1>2, <1>3, <2>7, <2>9
  <1> QED
    BY <1>4, <1>5

\* ... and of a key that is not there and is no array index.
LEMMA ReferenceNew ==
    ASSUME NEW obj, NEW par, NEW k \in Keys, ~has_own(obj, k), NEW d,
           ~(obj.kind = "array" /\ (k = "length" \/ is_index(k))),
           NEW own, own = own_view(obj, par)
    PROVE  Expected(obj, par, k, d) =
             IF obj.extensible
             THEN With(own, k, complete_descriptor(d, is_accessor_descriptor(d))) ELSE own
  <1>1. k \notin DOMAIN own
    BY ViewFacts
  <1>2. Permits(own, obj.extensible, k, d) <=> obj.extensible
    BY <1>1 DEF Permits
  <1>3. Applied(own, k, d) = With(own, k, complete_descriptor(d, is_accessor_descriptor(d)))
    BY <1>1 DEF Applied
  <1>4. Expected(obj, par, k, d) =
          IF Permits(own, obj.extensible, k, d) THEN Applied(own, k, d) ELSE own
    BY DEF Expected
  <1> QED
    BY <1>2, <1>3, <1>4

-----------------------------------------------------------------------------
(* Definitions and the reference: the table *)

\* A change of the table at k leaves what the other keys show.
LEMMA RestSame ==
    ASSUME NEW obj, NEW par, NEW r, NEW q, NEW k, NEW m, SameOutside(obj, r),
           r.properties = With(obj.properties, k, m),
           \A x \in Keys : x # k =>
              /\ mapped_argument_upvalue(r, x) = mapped_argument_upvalue(obj, x)
              /\ mapped_argument_upvalue(obj, x) # Null =>
                    q[mapped_argument_upvalue(obj, x)] = par[mapped_argument_upvalue(obj, x)]
    PROVE  \A x \in Keys \ {k} : Same(obj, par, r, q, x)
  <1> SUFFICES ASSUME NEW x \in Keys, x # k PROVE Same(obj, par, r, q, x)
    OBVIOUS
  <1>1. InTable(r, x) <=> InTable(obj, x)
    BY DEF InTable, With
  <1>2. CASE InTable(obj, x)
    <2>1. r.properties[x] = obj.properties[x]
      BY <1>2 DEF InTable, With
    <2> QED
      BY <1>1, <1>2, <2>1, StoredSame
  <1>3. CASE ~InTable(obj, x)
    <2>1. /\ is_virtual(r, x) <=> is_virtual(obj, x)
          /\ virtual_descriptor(r, x) = virtual_descriptor(obj, x)
      BY OutsideAgrees
    <2> QED
      BY <1>1, <1>3, <2>1, OutsideSame
  <1> QED
    BY <1>2, <1>3

\* A property that is not there yet and goes to the table.
LEMMA NewConforms ==
    ASSUME NEW obj, Good(obj), NEW par, NEW k \in Keys, ~has_own(obj, k), NEW d,
           ~(obj.kind = "array" /\ (k = "length" \/ is_index(k)))
    PROVE  LET r == validate_and_apply(obj, par, k, d) IN
           own_view(r.object, r.parameters) = Expected(obj, par, k, d)
  <1> DEFINE full == complete_descriptor(d, is_accessor_descriptor(d))
             added == AddToTable(obj, k, full)
             own == own_view(obj, par)
             r == validate_and_apply(obj, par, k, d)
  <1>1. ~InTable(obj, k) /\ ~is_virtual(obj, k)
    BY DEF has_own
  <1>2. Expected(obj, par, k, d) = IF obj.extensible THEN With(own, k, full) ELSE own
    BY ReferenceNew
  <1>3. CASE ~obj.extensible
    <2>1. r.object = obj /\ r.parameters = par
      BY <1>1, <1>3 DEF validate_and_apply, Outcome
    <2> HIDE DEF r, own, full
    <2> QED
      BY <1>2, <1>3, <2>1 DEF own, r
  <1>4. CASE obj.extensible
    <2>1. r.object = added /\ r.parameters = par
      BY <1>1, <1>4 DEF validate_and_apply, Outcome
    <2>2. /\ SameButTable(obj, added) /\ added.mapped = obj.mapped
          /\ added.properties = With(obj.properties, k, full)
      BY Added DEF Good
    <2>3. SameOutside(obj, added) /\ added.kind = obj.kind
      BY <2>2 DEF SameButTable, SameOutside
    <2> HIDE DEF full, added, r
    <2>4. \A x : mapped_argument_upvalue(added, x) = mapped_argument_upvalue(obj, x)
      BY <2>2, <2>3, SameMapping
    <2>5. \A x \in Keys \ {k} : Same(obj, par, added, par, x)
      BY <2>2, <2>3, <2>4, RestSame
    <2>6. InTable(added, k) /\ added.properties[k] = full
      BY <2>2 DEF InTable, With
    <2>7. mapped_argument_upvalue(added, k) = Null
      BY <1>1, <2>4 DEF Good, MappedWritable
    <2>8. has_own(added, k) /\ get_own_property_descriptor(added, par, k) = full
      BY <2>6, <2>7 DEF has_own, get_own_property_descriptor
    <2>9. own_view(added, par) = With(own, k, full)
      BY <2>5, <2>8, ViewWith
    <2> HIDE DEF own
    <2>10. own_view(r.object, r.parameters) = Expected(obj, par, k, d)
      BY <1>2, <1>4, <2>1, <2>9
    <2> QED
      BY <2>10 DEF r
  <1> QED
    BY <1>3, <1>4

\* An accepted change of a property in the table.
LEMMA ChangeConforms ==
    ASSUME NEW obj, Good(obj), TableAgrees(obj), NEW par, DOMAIN par = Parameters,
           NEW k \in Keys, InTable(obj, k), NEW d, IsDescriptor(d), DOMAIN d # {},
           NEW p, p = get_own_property_descriptor(obj, par, k), Matches(p, d), ~refuses(p, d)
    PROVE  LET r == validate_and_apply(obj, par, k, d) IN
           own_view(r.object, r.parameters) = With(own_view(obj, par), k, Overlay(d, p))
  <1> DEFINE up == mapped_argument_upvalue(obj, k)
             c == canonical_array_index(k) + 1
             unmaps == is_accessor_descriptor(d) \/ ("writable" \in DOMAIN d /\ ~d.writable)
             m == Overlay(d, p)
             r == validate_and_apply(obj, par, k, d)
             o == r.object
             q == r.parameters
  <1>p. Complete(p)
    BY TableDescriptor
  <1>m. merge_descriptor(p, d) = m
    BY <1>p, MergesAsReference
  <1>1. Revised(obj, par, k, d, r)
    BY ValidatedAs
  <1> HIDE DEF r, m
  <1>2. /\ Alike(obj, o, {"properties", "mapped"})
        /\ o.properties = With(obj.properties, k, m)
        /\ o.mapped = IF up # Null /\ unmaps THEN [obj.mapped EXCEPT ![c] = Null] ELSE obj.mapped
        /\ q = IF up # Null /\ "value" \in DOMAIN d THEN [par EXCEPT ![up] = d.value] ELSE par
    BY <1>1, <1>m DEF Revised
  <1> HIDE DEF o, q, up, unmaps, c
  <1>3. SameOutside(obj, o) /\ o.kind = obj.kind
    BY <1>2 DEF Alike, ObjectFields, SameOutside
  <1>4. /\ \A x : x # k => mapped_argument_upvalue(o, x) = mapped_argument_upvalue(obj, x)
        /\ mapped_argument_upvalue(o, k) = IF up # Null /\ unmaps THEN Null ELSE up
    <2>1. CASE up # Null /\ unmaps
      <3>1. is_index(k) /\ canonical_array_index(k) < Len(obj.mapped)
        BY <2>1 DEF mapped_argument_upvalue, up
      <3>2. o.mapped = [obj.mapped EXCEPT ![c] = Null]
        BY <1>2, <2>1
      <3>3. obj.mapped \in Seq(Parameters \cup {Null})
        BY DEF Good, ObjectOK
      <3>4. Unmaps(obj, o, k)
        BY <1>3, <3>1, <3>2, <3>3 DEF Unmaps, c
      <3> QED
        BY <2>1, <3>4, Unmapping
    <2>2. CASE ~(up # Null /\ unmaps)
      <3>1. o.mapped = obj.mapped
        BY <1>2, <2>2
      <3> QED
        BY <1>3, <2>2, <3>1, SameMapping DEF up
    <2> QED
      BY <2>1, <2>2
  <1>5. ASSUME NEW x \in Keys, x # k, mapped_argument_upvalue(obj, x) # Null
        PROVE  q[mapped_argument_upvalue(obj, x)] = par[mapped_argument_upvalue(obj, x)]
    <2>1. obj.kind # "array"
      BY <1>5 DEF mapped_argument_upvalue
    <2>2. Apart(obj)
      BY <2>1, AgreesMeans
    <2>3. mapped_argument_upvalue(obj, x) # up
      BY <1>5, <2>2 DEF Apart, up
    <2> DEFINE w == mapped_argument_upvalue(obj, x)
    <2> HIDE DEF w
    <2>4. w # up => q[w] = par[w]
      BY <1>2
    <2> QED
      BY <2>3, <2>4 DEF w
  <1>6. \A x \in Keys \ {k} : Same(obj, par, o, q, x)
    BY <1>2, <1>3, <1>4, <1>5, RestSame
  <1>7. InTable(o, k) /\ o.properties[k] = m /\ has_own(o, k)
    BY <1>2 DEF InTable, With, has_own
  <1>8. get_own_property_descriptor(o, q, k) = m
    <2>1. CASE mapped_argument_upvalue(o, k) = Null
      BY <1>7, <2>1 DEF get_own_property_descriptor
    <2>2. CASE mapped_argument_upvalue(o, k) # Null
      <3>1. up # Null /\ ~unmaps /\ mapped_argument_upvalue(o, k) = up
        BY <1>4, <2>2
      <3>2. get_own_property_descriptor(o, q, k) = With(m, "value", q[up])
        BY <1>7, <3>1 DEF get_own_property_descriptor
      <3>3. p = With(obj.properties[k], "value", par[up])
        BY <3>1 DEF get_own_property_descriptor, up
      <3>4. up \in DOMAIN par
        <4>1. obj.mapped \in Seq(Parameters \cup {Null})
          BY DEF Good, ObjectOK
        <4>2. is_index(k) /\ canonical_array_index(k) < Len(obj.mapped) /\ up = obj.mapped[c]
          BY <3>1 DEF mapped_argument_upvalue, up, c
        <4>3. c \in DOMAIN obj.mapped
          BY <4>1, <4>2, IndexOf DEF c
        <4> QED
          BY <3>1, <4>1, <4>2, <4>3
      <3>5. "value" \in DOMAIN p /\ p["value"] = par[up]
        <4> DEFINE u == par[up]
                   t == obj.properties[k]
        <4>1. p = With(t, "value", u)
          BY <3>3
        <4> HIDE DEF u, t
        <4>2. "value" \in DOMAIN p /\ p["value"] = u
          BY <4>1 DEF With
        <4> QED
          BY <4>2 DEF u
      <3>6. q[up] = IF "value" \in DOMAIN d THEN d["value"] ELSE par[up]
        BY <1>2, <3>1, <3>4
      <3>7. "value" \in DOMAIN m /\ m["value"] = q[up] /\ m = [f \in DOMAIN m |-> m[f]]
        BY <3>5, <3>6 DEF Overlay, m
      <3>8. With(m, "value", m["value"]) = m
        BY <3>7, WithSame
      <3> QED
        BY <3>2, <3>7, <3>8
    <2> QED
      BY <2>1, <2>2
  <1>9. own_view(o, q) = With(own_view(obj, par), k, m)
    BY <1>6, <1>7, <1>8, ViewWith
  <1> QED
    BY <1>9 DEF o, q, r, m

\* A property in the table.
LEMMA StoredConforms ==
    ASSUME NEW obj, Good(obj), TableAgrees(obj), NEW par, DOMAIN par = Parameters,
           NEW k \in Keys, InTable(obj, k), NEW d, IsDescriptor(d),
           NEW p, p = get_own_property_descriptor(obj, par, k), Matches(p, d)
    PROVE  LET r == validate_and_apply(obj, par, k, d) IN
           own_view(r.object, r.parameters) = Expected(obj, par, k, d)
  <1> DEFINE own == own_view(obj, par)
             r == validate_and_apply(obj, par, k, d)
  <1>p. Complete(p) /\ has_own(obj, k)
    BY TableDescriptor DEF has_own
  <1>n. ~(obj.kind = "array" /\ k = "length")
    BY DEF Good, ObjectOK
  <1>1. /\ k \in DOMAIN own /\ own[k] = p /\ own = [x \in DOMAIN own |-> own[x]]
        /\ Expected(obj, par, k, d) =
             IF Permits(own, obj.extensible, k, d) THEN With(own, k, Overlay(d, own[k])) ELSE own
    BY <1>p, <1>n, ReferenceStored
  <1> HIDE DEF own
  <1>2. Permits(own, obj.extensible, k, d) <=> ~refuses(p, d)
    BY <1>p, <1>1, RefusesAsReference
  <1>3. CASE DOMAIN d = {}
    <2>1. r.object = obj /\ r.parameters = par
      BY <1>3 DEF validate_and_apply, Outcome
    <2>2. Overlay(d, own[k]) = own[k]
      <3>1. p = [f \in DOMAIN p |-> p[f]]
        BY <1>p DEF Complete, IsDescriptor
      <3>2. Overlay(d, p) = p
        BY <1>3, <3>1, OverlaySame
      <3> QED
        BY <1>1, <3>2
    <2>3. With(own, k, Overlay(d, own[k])) = own
      BY <1>1, <2>2, WithSame
    <2> HIDE DEF r
    <2> QED
      BY <1>1, <2>1, <2>3 DEF own, r
  <1>4. CASE DOMAIN d # {} /\ refuses(p, d)
    <2>1. r.object = obj /\ r.parameters = par
      BY <1>4 DEF validate_and_apply, Outcome
    <2> HIDE DEF r
    <2> QED
      BY <1>1, <1>2, <1>4, <2>1 DEF own, r
  <1>5. CASE DOMAIN d # {} /\ ~refuses(p, d)
    <2>1. own_view(r.object, r.parameters) = With(own, k, Overlay(d, p))
      BY <1>5, ChangeConforms DEF own
    <2> HIDE DEF r
    <2> QED
      BY <1>1, <1>2, <1>5, <2>1 DEF r
  <1> QED
    BY <1>3, <1>4, <1>5

\* data makes a complete data property.
LEMMA DataComplete ==
    ASSUME NEW v, NEW w \in BOOLEAN, NEW e \in BOOLEAN, NEW c \in BOOLEAN
    PROVE  LET p == data(v, w, e, c) IN
           /\ Complete(p) /\ DOMAIN p = DataShape /\ is_accessor_descriptor(p) = FALSE
           /\ p.value = v /\ p.writable = w /\ p.enumerable = e /\ p.configurable = c
           /\ p = [f \in DataShape |-> p[f]]
  <1> DEFINE p == data(v, w, e, c)
  <1>1. /\ DOMAIN p = DataShape /\ p = [f \in DOMAIN p |-> p[f]]
        /\ p.value = v /\ p.writable = w /\ p.enumerable = e /\ p.configurable = c
    BY DEF data, DataShape
  <1> HIDE DEF p
  <1>2. is_accessor_descriptor(p) = FALSE
    BY <1>1 DEF DataShape, AccessorFields, is_accessor_descriptor
  <1>3. IsDescriptor(p)
    <2>1. \A f \in DOMAIN p \ {"value", "get", "set"} : p[f] \in BOOLEAN
      BY <1>1 DEF DataShape
    <2>2. DOMAIN p \subseteq Fields
      BY <1>1 DEF DataShape, Fields, DataFields
    <2> QED
      BY <1>1, <2>1, <2>2 DEF IsDescriptor
  <1>4. p = complete_descriptor(p, FALSE)
    BY <1>1 DEF complete_descriptor, DataFields, DataShape
  <1>5. Complete(p)
    BY <1>2, <1>3, <1>4, Zenon DEF Complete
  <1> QED
    BY <1>1, <1>2, <1>5 DEF p

\* A unit or the length of a string: fixed, and never in the table.
LEMMA StringConforms ==
    ASSUME NEW obj, Good(obj), TableAgrees(obj), NEW par, NEW k \in Keys,
           string_exotic_property(obj, k), NEW d
    PROVE  own_view(obj, par) = Expected(obj, par, k, d)
  <1> DEFINE own == own_view(obj, par)
             p == virtual_descriptor(obj, k)
             x == Overlay(d, own[k])
  <1>0. obj.kind = "string" /\ obj.kind # "array" /\ has_own(obj, k)
    BY DEF string_exotic_property, has_own, is_virtual
  <1>1. ~InTable(obj, k)
    BY <1>0, AgreesMeans DEF Apart
  <1>2. /\ k \in DOMAIN own /\ own[k] = p /\ own = [y \in DOMAIN own |-> own[y]]
        /\ Expected(obj, par, k, d) = IF Permits(own, obj.extensible, k, d) THEN With(own, k, x) ELSE own
    <2>1. get_own_property_descriptor(obj, par, k) = p
      BY <1>1 DEF get_own_property_descriptor
    <2> QED
      BY <1>0, <2>1, ReferenceStored
  <1>3. \E v, e : e \in BOOLEAN /\ p = data(v, FALSE, e, FALSE)
    BY <1>0 DEF virtual_descriptor
  <1>4. PICK v, e : e \in BOOLEAN /\ p = data(v, FALSE, e, FALSE)
    BY <1>3
  <1> HIDE DEF own, p, x
  <1>5. /\ Complete(p) /\ DOMAIN p = DataShape /\ is_accessor_descriptor(p) = FALSE
        /\ p.writable = FALSE /\ p.configurable = FALSE /\ p = [f \in DataShape |-> p[f]]
    <2> DEFINE b == data(v, FALSE, e, FALSE)
    <2>1. /\ Complete(b) /\ DOMAIN b = DataShape /\ is_accessor_descriptor(b) = FALSE
          /\ b.writable = FALSE /\ b.configurable = FALSE /\ b = [f \in DataShape |-> b[f]]
      BY <1>4, DataComplete, ZenonT(60)
    <2>2. p = b
      BY <1>4
    <2> HIDE DEF b
    <2> QED
      BY <2>1, <2>2
  <1>6. ASSUME Permits(own, obj.extensible, k, d) PROVE x = own[k]
    <2>1. /\ DOMAIN d \subseteq DOMAIN p
          /\ \A f \in (DOMAIN d \cap DOMAIN p) \ {"value", "writable"} : d[f] = p[f]
          /\ \A f \in DOMAIN d \cap DataFields : d[f] = p[f]
      BY <1>2, <1>5, <1>6 DEF Permits, Flag
    <2>2. \A f \in DOMAIN d : d[f] = p[f]
      BY <2>1, <1>5 DEF DataFields, DataShape
    <2>3. Overlay(d, p) = p
      BY <2>1, <2>2, <1>5, OverlaySame
    <2> QED
      BY <1>2, <2>3 DEF x
  <1>7. CASE Permits(own, obj.extensible, k, d)
    <2>1. With(own, k, own[k]) = own
      BY <1>2, WithSame
    <2> QED
      BY <1>2, <1>6, <1>7, <2>1 DEF own
  <1>8. CASE ~Permits(own, obj.extensible, k, d)
    BY <1>2, <1>8 DEF own
  <1> QED
    BY <1>7, <1>8

-----------------------------------------------------------------------------
(* Definitions and the reference: arrays *)

LEMMA DenseShows ==
    ASSUME NEW obj, Good(obj), TableAgrees(obj), NEW par, NEW k \in Keys, is_dense(obj, k)
    PROVE  /\ obj.kind = "array" /\ k \in Indices /\ k # "length" /\ ~InTable(obj, k)
           /\ has_own(obj, k)
           /\ get_own_property_descriptor(obj, par, k) = data(Slot(obj, k), TRUE, TRUE, TRUE)
  <1>1. obj.kind = "array" /\ k \in Indices /\ ObjectOK(obj)
    BY DEF is_dense, is_index, Indices, Good
  <1>2. ~InTable(obj, k) /\ k # "length"
    BY <1>1, AgreesMeans, KeysAssumption DEF Settled, Indices
  <1> QED
    BY <1>1, <1>2, ArrayShows

\* A dense element is replaced in its place.
LEMMA PlaceConforms ==
    ASSUME NEW obj, Good(obj), TableAgrees(obj), NEW par, NEW k \in Keys, is_dense(obj, k),
           NEW d, IsDescriptor(d), dense_compatible_descriptor(d), d.value # Hole
    PROVE  own_view(PlaceDense(obj, canonical_array_index(k), d.value), par)
             = Expected(obj, par, k, d)
  <1> DEFINE r == PlaceDense(obj, canonical_array_index(k), d.value)
             own == own_view(obj, par)
             p == data(Slot(obj, k), TRUE, TRUE, TRUE)
             e == data(d.value, TRUE, TRUE, TRUE)
  <1>1. /\ obj.kind = "array" /\ k \in Indices /\ k # "length" /\ ~InTable(obj, k)
        /\ has_own(obj, k) /\ get_own_property_descriptor(obj, par, k) = p
    BY DenseShows
  <1>2. /\ k \in DOMAIN own /\ own[k] = p
        /\ Expected(obj, par, k, d) =
             IF Permits(own, obj.extensible, k, d) THEN With(own, k, Overlay(d, own[k])) ELSE own
    <2> HIDE DEF p
    <2>1. ~(obj.kind = "array" /\ k = "length") /\ has_own(obj, k)
      BY <1>1
    <2>2. /\ k \in DOMAIN own /\ own[k] = get_own_property_descriptor(obj, par, k)
          /\ Expected(obj, par, k, d) =
               IF Permits(own, obj.extensible, k, d) THEN With(own, k, Overlay(d, own[k])) ELSE own
      BY <2>1, ReferenceStored
    <2> QED
      BY <1>1, <2>2
  <1>3. /\ DOMAIN p = DataShape /\ p.configurable = TRUE
        /\ DOMAIN e = DataShape /\ e = [f \in DataShape |-> e[f]]
        /\ e.value = d.value /\ e.writable = TRUE /\ e.enumerable = TRUE /\ e.configurable = TRUE
    BY DataComplete
  <1>4. Overlay(d, p) = e
    <2>1. /\ DOMAIN d = DataShape
          /\ d.writable = TRUE /\ d.enumerable = TRUE /\ d.configurable = TRUE
      <3>1. /\ DOMAIN d \cap AccessorFields = {} /\ DataShape \subseteq DOMAIN d
            /\ d.writable /\ d.enumerable /\ d.configurable
        BY DEF dense_compatible_descriptor, is_accessor_descriptor, Flag, DataShape
      <3>2. DOMAIN d \subseteq Fields
        BY DEF IsDescriptor
      <3>3. DOMAIN d = DataShape
        BY <3>1, <3>2 DEF Fields, DataFields, AccessorFields, DataShape
      <3>4. d.writable \in BOOLEAN /\ d.enumerable \in BOOLEAN /\ d.configurable \in BOOLEAN
        BY <3>3 DEF IsDescriptor, DataShape
      <3> QED
        BY <3>1, <3>3, <3>4
    <2> HIDE DEF p, e
    <2>2. \A f \in DataShape : d[f] = e[f]
      BY <1>3, <2>1 DEF DataShape
    <2>3. Overlay(d, p) = [f \in DataShape |-> d[f]]
      BY <1>3, <2>1 DEF Overlay
    <2>4. [f \in DataShape |-> d[f]] = [f \in DataShape |-> e[f]]
      BY <2>2
    <2> QED
      BY <1>3, <2>3, <2>4
  <1>5. Expected(obj, par, k, d) = With(own, k, e)
    <2> HIDE DEF own, p, e
    <2>1. Permits(own, obj.extensible, k, d)
      BY <1>2, <1>3 DEF Permits
    <2> QED
      BY <1>2, <1>4, <2>1
  <1>6. /\ Alike(obj, r, {"elements"}) /\ Slot(r, k) = d.value
        /\ \A x : is_dense(r, x) <=> IF x = k THEN d.value # Hole ELSE is_dense(obj, x)
        /\ \A x : x # k /\ is_dense(obj, x) => Slot(r, x) = Slot(obj, x)
    BY <1>1, PlacedAs
  <1>7. ObjectOK(r) /\ ObjectOK(obj)
    <2>1. ArrayStep(obj, r)
      BY <1>1, Placed DEF is_dense
    <2> QED
      BY <2>1, ArrayKeeps DEF Good
  <1> HIDE DEF r, own, p, e
  <1>8. /\ r.kind = "array" /\ r.properties = obj.properties
        /\ r.array_length = obj.array_length
        /\ r.array_length_writable = obj.array_length_writable
    BY <1>1, <1>6 DEF Alike, ObjectFields
  <1>9. \A x \in Keys \ {k} : Same(obj, par, r, par, x)
    BY <1>1, <1>6, <1>7, <1>8, ArraySame DEF InTable
  <1>10. ~InTable(r, k) /\ is_dense(r, k)
    BY <1>1, <1>6, <1>8 DEF InTable
  <1>11. has_own(r, k) /\ get_own_property_descriptor(r, par, k) = e
    BY <1>6, <1>7, <1>8, <1>10, ArrayShows, ZenonT(60) DEF e
  <1>12. own_view(r, par) = With(own, k, e)
    BY <1>9, <1>11, ViewWith DEF own
  <1> QED
    BY <1>5, <1>12 DEF r

\* A dense element that moves to the table shows the same property.
LEMMA SpillSame ==
    ASSUME NEW obj, Good(obj), TableAgrees(obj), NEW par, NEW k \in Keys, is_dense(obj, k)
    PROVE  /\ own_view(spill(obj, k), par) = own_view(obj, par)
           /\ spill(obj, k).kind = obj.kind /\ spill(obj, k).extensible = obj.extensible
           /\ get_own_property_descriptor(spill(obj, k), par, k)
                = get_own_property_descriptor(obj, par, k)
  <1> DEFINE r == spill(obj, k)
             p == data(Slot(obj, k), TRUE, TRUE, TRUE)
  <1>1. /\ obj.kind = "array" /\ k \in Indices /\ k # "length" /\ ~InTable(obj, k)
        /\ has_own(obj, k) /\ get_own_property_descriptor(obj, par, k) = p
    BY DenseShows
  <1>2. Ordered(obj)
    BY AgreesMeans
  <1>3. /\ Alike(obj, r, {"properties", "property_order", "elements"})
        /\ r.properties = With(obj.properties, k, p)
        /\ \A x : is_dense(r, x) <=> x # k /\ is_dense(obj, x)
        /\ \A x : x # k /\ is_dense(obj, x) => Slot(r, x) = Slot(obj, x)
    BY <1>1, <1>2, SpilledAs
  <1>4. ObjectOK(r) /\ ObjectOK(obj)
    <2>1. ArrayStep(obj, r)
      BY <1>1, Spilled
    <2> QED
      BY <2>1, ArrayKeeps DEF Good
  <1> HIDE DEF r, p
  <1>5. /\ r.kind = obj.kind /\ r.extensible = obj.extensible
        /\ r.array_length = obj.array_length
        /\ r.array_length_writable = obj.array_length_writable
    BY <1>3 DEF Alike, ObjectFields
  <1>6. \A x : x # k => /\ InTable(r, x) <=> InTable(obj, x)
                        /\ InTable(obj, x) => r.properties[x] = obj.properties[x]
    BY <1>3 DEF InTable, With
  <1>7. InTable(r, k) /\ r.properties[k] = p
    BY <1>3 DEF InTable, With
  <1>8. has_own(r, k) /\ get_own_property_descriptor(r, par, k) = p
    BY <1>1, <1>4, <1>5, <1>7, ArrayShows
  <1>9. ASSUME NEW x \in Keys PROVE Same(obj, par, r, par, x)
    <2>1. CASE x = k
      BY <2>1, <1>1, <1>8 DEF Same
    <2>2. CASE x # k
      BY <2>2, <1>1, <1>3, <1>4, <1>5, <1>6, ArraySame
    <2> QED
      BY <2>1, <2>2
  <1>10. own_view(r, par) = own_view(obj, par)
    BY <1>9, ViewSame
  <1> QED
    BY <1>1, <1>5, <1>8, <1>10 DEF r

LEMMA ViewWithTwo ==
    ASSUME NEW obj, NEW par, NEW r, NEW q, NEW k \in Keys, NEW j \in Keys, j # k, NEW e, NEW f,
           \A x \in Keys \ {j, k} : Same(obj, par, r, q, x),
           has_own(r, k), get_own_property_descriptor(r, q, k) = e,
           has_own(r, j), get_own_property_descriptor(r, q, j) = f
    PROVE  own_view(r, q) = With(With(own_view(obj, par), k, e), j, f)
  <1> DEFINE v == own_view(obj, par)
             u == With(v, k, e)
             w == With(u, j, f)
  <1>1. /\ DOMAIN v = { x \in Keys : has_own(obj, x) }
        /\ \A x \in DOMAIN v : v[x] = get_own_property_descriptor(obj, par, x)
    BY ViewFacts
  <1> HIDE DEF v
  <1>2. /\ DOMAIN u = DOMAIN v \cup {k} /\ u[k] = e
        /\ \A x \in DOMAIN v : x # k => u[x] = v[x]
    BY DEF With
  <1> HIDE DEF u
  <1>3. /\ DOMAIN w = DOMAIN u \cup {j} /\ w = [x \in DOMAIN w |-> w[x]]
        /\ w[j] = f /\ \A x \in DOMAIN u : x # j => w[x] = u[x]
    BY DEF With
  <1> HIDE DEF w
  <1>4. DOMAIN w = { x \in Keys : has_own(r, x) }
    BY <1>1, <1>2, <1>3 DEF Same
  <1>5. ASSUME NEW x \in DOMAIN w PROVE w[x] = get_own_property_descriptor(r, q, x)
    <2>1. CASE x = k
      BY <2>1, <1>2, <1>3
    <2>2. CASE x = j
      BY <2>2, <1>3
    <2>3. CASE x # k /\ x # j
      BY <2>3, <1>1, <1>2, <1>3 DEF Same
    <2> QED
      BY <2>1, <2>2, <2>3
  <1>6. own_view(r, q) = w
    BY <1>3, <1>4, <1>5, ViewIs
  <1> QED
    BY <1>6 DEF w, u, v

LEMMA DataIs ==
    ASSUME NEW p, p = [f \in DOMAIN p |-> p[f]], DOMAIN p = DataShape
    PROVE  p = data(p.value, p.writable, p.enumerable, p.configurable)
  <1> DEFINE e == data(p.value, p.writable, p.enumerable, p.configurable)
  <1>1. /\ DOMAIN e = DataShape /\ e = [f \in DataShape |-> e[f]]
        /\ e.value = p.value /\ e.writable = p.writable
        /\ e.enumerable = p.enumerable /\ e.configurable = p.configurable
    BY DEF data, DataShape
  <1> HIDE DEF e
  <1>2. \A f \in DataShape : e[f] = p[f]
    BY <1>1 DEF DataShape
  <1>3. [f \in DataShape |-> e[f]] = [f \in DataShape |-> p[f]]
    BY <1>2
  <1> QED
    BY <1>1, <1>3 DEF e

Moved(v, c) == [v EXCEPT !["length"].value = Max({@, c})]

\* A view whose length is n, and m is the larger of n and c.
Moves(v, n, w, c, m) ==
    /\ v = [x \in DOMAIN v |-> v[x]] /\ "length" \in DOMAIN v
    /\ v["length"] = data(n, w, FALSE, FALSE)
    /\ m = Max({n, c})

\* An index at or beyond the length moves it.
LEMMA LengthMoved ==
    ASSUME NEW v, NEW n, NEW w, NEW c, NEW m, Moves(v, n, w, c, m)
    PROVE  Moved(v, c) = With(v, "length", data(m, w, FALSE, FALSE))
  <1> DEFINE p == v["length"]
             u == [p EXCEPT !.value = m]
  <1>0. /\ v = [x \in DOMAIN v |-> v[x]] /\ "length" \in DOMAIN v
        /\ v["length"] = data(n, w, FALSE, FALSE)
        /\ m = Max({n, c})
    BY DEF Moves
  <1>1. /\ p.value = n /\ p.writable = w /\ p.enumerable = FALSE /\ p.configurable = FALSE
        /\ DOMAIN p = DataShape /\ p = [f \in DataShape |-> p[f]]
    BY <1>0 DEF data, DataShape
  <1>2. Max({p.value, c}) = m
    <2> HIDE DEF p
    <2> QED
      BY <1>0, <1>1
  <1>3. Moved(v, c) = [v EXCEPT !["length"] = u]
    BY <1>2 DEF Moved
  <1> HIDE DEF p
  <1>4. /\ u = [f \in DOMAIN u |-> u[f]] /\ DOMAIN u = DataShape
        /\ u.value = m /\ u.writable = w /\ u.enumerable = FALSE /\ u.configurable = FALSE
    BY <1>1 DEF DataShape
  <1> HIDE DEF u
  <1>5. u = data(m, w, FALSE, FALSE)
    BY <1>4, DataIs
  <1>6. [v EXCEPT !["length"] = u] = With(v, "length", u)
    BY <1>0 DEF With
  <1> QED
    BY <1>3, <1>5, <1>6

\* A descriptor that a dense slot can hold.
LEMMA CompatibleIs ==
    ASSUME NEW d, IsDescriptor(d), dense_compatible_descriptor(d)
    PROVE  complete_descriptor(d, is_accessor_descriptor(d)) = data(d.value, TRUE, TRUE, TRUE)
  <1>1. /\ DOMAIN d \cap AccessorFields = {} /\ DataShape \subseteq DOMAIN d
        /\ d.writable /\ d.enumerable /\ d.configurable
    BY DEF dense_compatible_descriptor, is_accessor_descriptor, Flag, DataShape
  <1>2. DOMAIN d \subseteq Fields
    BY DEF IsDescriptor
  <1>3. DOMAIN d = DataShape
    BY <1>1, <1>2 DEF Fields, DataFields, AccessorFields, DataShape
  <1>4. d.writable \in BOOLEAN /\ d.enumerable \in BOOLEAN /\ d.configurable \in BOOLEAN
    BY <1>3 DEF IsDescriptor, DataShape
  <1>5. is_accessor_descriptor(d) = FALSE
    BY <1>1 DEF is_accessor_descriptor
  <1>6. complete_descriptor(d, FALSE) = [f \in DataShape |-> d[f]]
    BY <1>3 DEF complete_descriptor, DataShape, DataFields
  <1>7. d = data(d.value, TRUE, TRUE, TRUE)
    <2>1. d = data(d.value, d.writable, d.enumerable, d.configurable)
      BY <1>3, DataIs DEF IsDescriptor
    <2>2. d.writable = TRUE /\ d.enumerable = TRUE /\ d.configurable = TRUE
      BY <1>1, <1>4
    <2> QED
      BY <2>1, <2>2
  <1>8. d = [f \in DataShape |-> d[f]]
    BY <1>3 DEF IsDescriptor
  <1> QED
    BY <1>5, <1>6, <1>7, <1>8

\* A new element moves the length when it has to.
LEMMA CreateConforms ==
    ASSUME NEW obj, Good(obj), TableAgrees(obj), obj.kind = "array", NEW par,
           NEW k \in Keys, is_index(k), ~InTable(obj, k), ~is_dense(obj, k),
           NEW d, IsDescriptor(d), "value" \in DOMAIN d => d.value # Hole
    PROVE  LET r == create_array_element(obj, par, k, d) IN
           own_view(r.object, r.parameters) = Expected(obj, par, k, d)
  <1> DEFINE own == own_view(obj, par)
             c == canonical_array_index(k)
             n == obj.array_length
             w == obj.array_length_writable
             full == complete_descriptor(d, is_accessor_descriptor(d))
             v == With(own, k, full)
             r == create_array_element(obj, par, k, d)
             o == r.object
             allowed == obj.extensible /\ (c >= n => w)
  <1>0. /\ ObjectOK(obj) /\ n \in Nat /\ c \in Nat /\ k \in Indices /\ k # "length"
        /\ "length" \in Keys
    BY IndexOf, BoundsAssumption, KeysAssumption DEF Good, ObjectOK, is_index, Indices
  <1>1. /\ own = [x \in DOMAIN own |-> own[x]]
        /\ DOMAIN own = { x \in Keys : has_own(obj, x) }
        /\ \A x \in DOMAIN own : own[x] = get_own_property_descriptor(obj, par, x)
    BY ViewFacts
  <1> HIDE DEF own
  <1>2. k \notin DOMAIN own
    BY <1>0, <1>1, ArrayShows
  <1>3. "length" \in DOMAIN own /\ own["length"] = data(n, w, FALSE, FALSE)
    <2>1. has_own(obj, "length")
            /\ get_own_property_descriptor(obj, par, "length") = data(n, w, FALSE, FALSE)
      BY <1>0, ArrayShows
    <2> QED
      BY <1>0, <1>1, <2>1
  <1>4. own["length"].value = n /\ own["length"].writable = w
    BY <1>3 DEF data
  <1>5. Expected(obj, par, k, d) = IF allowed THEN AppliedElement(own, k, d) ELSE own
    <2>1. Permits(own, obj.extensible, k, d) <=> obj.extensible
      BY <1>2 DEF Permits
    <2> QED
      BY <1>0, <1>4, <2>1 DEF Expected, own
  <1>6. AppliedElement(own, k, d) = With(v, "length", data(Max({n, c + 1}), w, FALSE, FALSE))
    <2>1. Applied(own, k, d) = v
      BY <1>2 DEF Applied
    <2>2. AppliedElement(own, k, d) = Moved(v, c + 1)
      BY <2>1 DEF AppliedElement, Moved
    <2>3. /\ v = [x \in DOMAIN v |-> v[x]] /\ "length" \in DOMAIN v
          /\ v["length"] = data(n, w, FALSE, FALSE)
      BY <1>0, <1>3 DEF With
    <2> DEFINE b == c + 1
               m == Max({n, b})
    <2> HIDE DEF v, n, w, b
    <2>4. m = Max({n, b})
      OBVIOUS
    <2>5. Moves(v, n, w, b, m)
      BY <2>3, <2>4 DEF Moves
    <2> HIDE DEF m
    <2>6. Moved(v, b) = With(v, "length", data(m, w, FALSE, FALSE))
      BY <2>5, LengthMoved
    <2> QED
      BY <2>2, <2>4, <2>6 DEF b
  <1>7. CASE ~allowed
    <2>1. r.object = obj /\ r.parameters = par
      BY <1>7, <1>0 DEF create_array_element, Outcome
    <2> HIDE DEF r, allowed
    <2> QED
      BY <1>5, <1>7, <2>1 DEF own, r
  <1>8. CASE allowed
    <2>0. Ordered(obj)
      BY AgreesMeans
    <2>1. /\ r.parameters = par
          /\ Alike(obj, o, {"properties", "property_order", "elements", "array_length"})
          /\ o.array_length = IF n >= c + 1 THEN n ELSE c + 1
          /\ \A x : x # k => /\ is_dense(o, x) <=> is_dense(obj, x)
                             /\ is_dense(obj, x) => Slot(o, x) = Slot(obj, x)
          /\ \/ /\ dense_compatible_descriptor(d)
                /\ o.properties = obj.properties
                /\ Slot(o, k) = d.value
                /\ is_dense(o, k) <=> d.value # Hole
             \/ /\ o.properties = With(obj.properties, k, full)
                /\ o.elements = obj.elements
      BY <1>0, <1>8, <2>0, CreateForms
    <2>2. ObjectOK(o)
      BY CreateKeeps DEF Safe, Good
    <2> HIDE DEF full, v, r
    <2>3. o.kind = "array" /\ o.array_length_writable = w
      BY <2>1 DEF Alike, ObjectFields
    <2>4. o.array_length = Max({n, c + 1})
      <3> DEFINE b == c + 1
      <3>1. b \in Int /\ n \in Int
        BY <1>0
      <3>2. Max({n, b}) = IF n >= b THEN n ELSE b
        BY <3>1, MaxPair
      <3> QED
        BY <2>1, <3>2
    <2>5. \A x : x # k => /\ InTable(o, x) <=> InTable(obj, x)
                          /\ InTable(obj, x) => o.properties[x] = obj.properties[x]
      BY <2>1 DEF InTable, With
    <2>6. has_own(o, k) /\ get_own_property_descriptor(o, par, k) = full
      <3>1. CASE /\ dense_compatible_descriptor(d) /\ o.properties = obj.properties
                 /\ Slot(o, k) = d.value /\ (is_dense(o, k) <=> d.value # Hole)
        <4>1. ~InTable(o, k) /\ is_dense(o, k)
          BY <3>1 DEF InTable, dense_compatible_descriptor
        <4>2. full = data(Slot(o, k), TRUE, TRUE, TRUE)
          BY <3>1, CompatibleIs DEF full
        <4> HIDE DEF o
        <4> QED
          BY <2>2, <2>3, <4>1, <4>2, ArrayShows
      <3>2. CASE o.properties = With(obj.properties, k, full)
        <4>1. InTable(o, k) /\ o.properties[k] = full
          BY <3>2 DEF InTable, With
        <4> HIDE DEF o
        <4> QED
          BY <2>2, <2>3, <4>1, ArrayShows
      <3> QED
        BY <2>1, <3>1, <3>2
    <2> HIDE DEF o
    <2>7. has_own(o, "length")
            /\ get_own_property_descriptor(o, par, "length") = data(Max({n, c + 1}), w, FALSE, FALSE)
      <3>1. get_own_property_descriptor(o, par, "length")
              = data(o.array_length, o.array_length_writable, FALSE, FALSE)
            /\ has_own(o, "length")
        BY <2>2, <2>3, ArrayShows
      <3> QED
        BY <2>3, <2>4, <3>1
    <2>8. \A x \in Keys \ {"length", k} : Same(obj, par, o, par, x)
      BY <1>0, <2>1, <2>2, <2>3, <2>5, ArraySame
    <2>9. own_view(o, par) = With(v, "length", data(Max({n, c + 1}), w, FALSE, FALSE))
      <3> DEFINE f == data(Max({n, c + 1}), w, FALSE, FALSE)
      <3> HIDE DEF f
      <3>1. get_own_property_descriptor(o, par, "length") = f
        BY <2>7 DEF f
      <3>2. own_view(o, par) = With(With(own, k, full), "length", f)
        BY <1>0, <2>6, <2>7, <2>8, <3>1, ViewWithTwo DEF own
      <3> QED
        BY <3>2 DEF f, v
    <2>10. own_view(o, r.parameters) = Expected(obj, par, k, d)
      BY <1>5, <1>6, <1>8, <2>1, <2>9
    <2> QED
      BY <2>10 DEF o, r
  <1> QED
    BY <1>7, <1>8

-----------------------------------------------------------------------------
(* Definitions and the reference: the length of an array *)

\* What a length n refuses when it is writable or not.
LengthRefused(n, w, d) ==
    \/ Flag(d, "enumerable") \/ Flag(d, "configurable")
    \/ ~w /\ (Flag(d, "writable") \/ ("value" \in DOMAIN d /\ d.value # n))

LEMMA LengthRefuses ==
    ASSUME NEW n, NEW w \in BOOLEAN, NEW d, IsDescriptor(d),
           NEW p, p = data(n, w, FALSE, FALSE), Matches(p, d)
    PROVE  /\ ~is_accessor_descriptor(d)
           /\ refuses(p, d) <=> LengthRefused(n, w, d)
  <1>1. /\ is_accessor_descriptor(p) = FALSE
        /\ p.value = n /\ p.writable = w /\ p.enumerable = FALSE /\ p.configurable = FALSE
        /\ DOMAIN p = DataShape
    <2> DEFINE e == data(n, w, FALSE, FALSE)
    <2>1. /\ is_accessor_descriptor(e) = FALSE
          /\ e.value = n /\ e.writable = w /\ e.enumerable = FALSE /\ e.configurable = FALSE
          /\ DOMAIN e = DataShape
      BY DataComplete, ZenonT(60)
    <2> QED
      BY <2>1
  <1>2. ~is_accessor_descriptor(d)
    <2>1. is_accessor_descriptor(d) \in BOOLEAN
      BY DEF is_accessor_descriptor
    <2> QED
      BY <1>1, <2>1 DEF Matches, is_generic_descriptor
  <1>3. "enumerable" \in DOMAIN d => d.enumerable \in BOOLEAN
    BY DEF IsDescriptor
  <1>4. /\ ~Flag(p, "configurable") /\ (Flag(p, "writable") <=> w)
        /\ ("enumerable" \in DOMAIN d /\ d.enumerable # p.enumerable) <=> Flag(d, "enumerable")
    BY <1>1, <1>3 DEF Flag, DataShape
  <1>5. is_data_descriptor(d) <=> "value" \in DOMAIN d \/ "writable" \in DOMAIN d
    BY DEF is_data_descriptor, DataFields
  <1>6. is_generic_descriptor(d) \/ is_accessor_descriptor(p) = is_accessor_descriptor(d)
    BY DEF Matches
  <1>7. Flag(d, "writable") => "writable" \in DOMAIN d
    BY DEF Flag
  <1> QED
    BY <1>1, <1>2, <1>4, <1>5, <1>6, <1>7 DEF refuses, LengthRefused

\* What define_array_length does to an array that does not refuse.
LEMMA LengthExact ==
    ASSUME NEW obj, NEW par, NEW d, ~is_accessor_descriptor(d),
           "value" \in DOMAIN d => d.value \in 0..MaxLength
    PROVE  LET r == define_array_length(obj, par, d) IN
           IF LengthRefused(obj.array_length, obj.array_length_writable, d)
           THEN r.object = obj
           ELSE r.object =
                  Locked(IF "value" \notin DOMAIN d THEN obj
                         ELSE IF d.value >= obj.array_length
                              THEN [obj EXCEPT !.array_length = d.value]
                              ELSE shrink(obj, d.value).object, d)
  <1> DEFINE A == \/ Flag(d, "enumerable") \/ Flag(d, "configurable")
                  \/ Flag(d, "writable") /\ ~obj.array_length_writable
             B == "value" \notin DOMAIN d
             C == d.value \notin 0..MaxLength
             D == d.value # obj.array_length /\ ~obj.array_length_writable
             E == d.value >= obj.array_length
             grown == [obj EXCEPT !.array_length = d.value]
             cut == shrink(obj, d.value)
             r == define_array_length(obj, par, d)
             R == LengthRefused(obj.array_length, obj.array_length_writable, d)
  <1>1. r = IF A THEN Outcome(obj, par, FALSE)
            ELSE IF B THEN Outcome(Locked(obj, d), par, TRUE)
            ELSE IF C THEN Outcome(obj, par, "error")
            ELSE IF D THEN Outcome(obj, par, FALSE)
            ELSE IF E THEN Outcome(Locked(grown, d), par, TRUE)
            ELSE Outcome(Locked(cut.object, d), par, cut.complete)
    BY DEF define_array_length, Locked
  <1>2. \A o, res : Outcome(o, par, res).object = o
    BY DEF Outcome
  <1>3. R <=> A \/ (~B /\ D)
    BY DEF LengthRefused
  <1>4. ~B => ~C
    OBVIOUS
  <1> HIDE DEF r, A, B, C, D, E, R, grown, cut
  <1>5. IF R THEN r.object = obj
        ELSE IF B THEN r.object = Locked(obj, d)
        ELSE IF E THEN r.object = Locked(grown, d)
        ELSE r.object = Locked(cut.object, d)
    BY <1>1, <1>2, <1>3, <1>4
  <1> QED
    BY <1>5 DEF r, R, B, E, grown, cut

\* The properties below target are left, and the length is target.
Resized(obj, r, target) ==
    /\ Alike(obj, r, {"properties", "property_order", "elements", "array_length"})
    /\ r.array_length = target
    /\ \A x : LET below == x \in Indices => canonical_array_index(x) < target IN
          /\ InTable(r, x) <=> InTable(obj, x) /\ below
          /\ InTable(r, x) => r.properties[x] = obj.properties[x]
          /\ is_dense(r, x) <=> is_dense(obj, x) /\ below
          /\ is_dense(r, x) => Slot(r, x) = Slot(obj, x)

LEMMA ResizedByCut ==
    ASSUME NEW obj, NEW r, NEW target, Cut(obj, r, target)
    PROVE  Resized(obj, r, target)
  <1>1. \A x : is_dense(obj, x) => x \in Indices
    BY DEF is_dense, is_index, Indices
  <1>2. \A x : /\ InTable(r, x) <=> InTable(obj, x) /\ (x \in Indices => canonical_array_index(x) < target)
               /\ InTable(r, x) => r.properties[x] = obj.properties[x]
    BY DEF Cut, InTable
  <1> QED
    BY <1>1, <1>2 DEF Cut, Resized

LEMMA ResizedByGrowth ==
    ASSUME NEW obj, ObjectOK(obj), Settled(obj), NEW r, Alike(obj, r, {"array_length"}),
           NEW new \in Nat, new >= obj.array_length, r.array_length = new
    PROVE  Resized(obj, r, new)
  <1>1. \A x \in Indices : canonical_array_index(x) \in Nat
    BY IndexOf DEF is_index, Indices
  <1>2. obj.array_length \in Nat
    BY BoundsAssumption DEF ObjectOK
  <1>3. /\ r.kind = obj.kind /\ r.elements = obj.elements /\ r.properties = obj.properties
        /\ Alike(obj, r, {"properties", "property_order", "elements", "array_length"})
    BY DEF Alike, ObjectFields
  <1>4. \A x \in Indices : InTable(obj, x) \/ is_dense(obj, x) => canonical_array_index(x) < new
    BY <1>1, <1>2 DEF Settled
  <1>5. \A x : /\ InTable(r, x) <=> InTable(obj, x)
               /\ is_dense(r, x) <=> is_dense(obj, x)
               /\ Slot(r, x) = Slot(obj, x)
    BY <1>3 DEF InTable, is_dense, Slot
  <1> QED
    BY <1>3, <1>4, <1>5 DEF Resized

\* The length that define_array_length reaches is the one of the reference.
LEMMA LengthTarget ==
    ASSUME NEW obj, Good(obj), TableAgrees(obj), obj.kind = "array", NEW par,
           NEW new \in Nat, NEW target \in Nat,
           \/ new >= obj.array_length /\ target = new
           \/ /\ new < obj.array_length /\ target \in new..obj.array_length
              /\ Stops(obj, new, target),
           NEW own, own = own_view(obj, par)
    PROVE  SettledLength(own, new) = target
  <1> DEFINE n == obj.array_length
             clear(l) == \A k \in DOMAIN own :
                            (is_index(k) /\ canonical_array_index(k) >= l) => own[k].configurable
             m == Max({new, n})
             L == { l \in new..m : clear(l) }
  <1>0. /\ ObjectOK(obj) /\ n \in Nat
        /\ \A k : is_index(k) <=> k \in Indices
        /\ \A k \in Indices : canonical_array_index(k) \in Nat /\ k \in Keys /\ k # "length"
    BY IndexOf, BoundsAssumption, KeysAssumption DEF Good, ObjectOK, is_index, Indices, Range
  <1>1. /\ DOMAIN own = { x \in Keys : has_own(obj, x) }
        /\ \A x \in DOMAIN own : own[x] = get_own_property_descriptor(obj, par, x)
    BY ViewFacts
  <1>2. own["length"].value = n
    <2>1. has_own(obj, "length") /\ get_own_property_descriptor(obj, par, "length")
            = data(n, obj.array_length_writable, FALSE, FALSE)
      BY <1>0, ArrayShows
    <2>2. "length" \in DOMAIN own
      BY <1>1, <2>1, KeysAssumption
    <2>3. own["length"] = data(n, obj.array_length_writable, FALSE, FALSE)
      BY <1>1, <2>1, <2>2
    <2> QED
      BY <2>3 DEF data
  <1>3. \A k \in Indices : k \in DOMAIN own <=> InTable(obj, k) \/ is_dense(obj, k)
    BY <1>0, <1>1, ArrayShows
  <1>4. ASSUME NEW k \in Indices, k \in DOMAIN own, ~own[k].configurable
        PROVE  k \in DOMAIN obj.properties /\ ~obj.properties[k].configurable
    <2>1. InTable(obj, k) => own[k] = obj.properties[k]
      BY <1>0, <1>1, <1>4, ArrayShows
    <2>2. ~InTable(obj, k) /\ is_dense(obj, k) => own[k] = data(Slot(obj, k), TRUE, TRUE, TRUE)
      BY <1>0, <1>1, <1>4, ArrayShows, ZenonT(60)
    <2>3. data(Slot(obj, k), TRUE, TRUE, TRUE).configurable
      BY DEF data
    <2>4. InTable(obj, k)
      BY <1>3, <1>4, <2>2, <2>3
    <2> QED
      BY <1>4, <2>1, <2>4 DEF InTable
  <1>5. ASSUME NEW k \in Indices, InTable(obj, k)
        PROVE  k \in DOMAIN own /\ own[k] = obj.properties[k]
    BY <1>0, <1>1, <1>3, <1>5, ArrayShows
  <1>6. SettledLength(own, new) = Min(L)
    BY <1>2 DEF SettledLength
  <1> HIDE DEF n
  <1>7. target \in new..m
    <2>1. m = IF new >= n THEN new ELSE n
      BY <1>0, MaxPair
    <2> HIDE DEF m
    <2> QED
      BY <2>1, <1>0 DEF n
  <1>8. clear(target)
    <2> SUFFICES ASSUME NEW k \in DOMAIN own, k \in Indices, canonical_array_index(k) >= target,
                        ~own[k].configurable
                 PROVE  FALSE
      BY <1>0
    <2>1. /\ k \in Indices \cap DOMAIN obj.properties /\ ~obj.properties[k].configurable
          /\ canonical_array_index(k) \in Nat
      BY <1>0, <1>4
    <2>2. CASE Stops(obj, new, target)
      BY <2>1, <2>2 DEF Stops
    <2>3. CASE new >= n /\ target = new
      <3>1. canonical_array_index(k) < n
        BY <2>1, AgreesMeans DEF Settled, InTable, n
      <3> QED
        BY <1>0, <2>1, <2>3, <3>1
    <2> QED
      BY <2>2, <2>3 DEF n
  <1>9. ASSUME NEW l \in new..m, clear(l) PROVE target <= l
    <2>0. l \in Int /\ new <= l
      OBVIOUS
    <2>1. CASE target = new
      BY <2>0, <2>1
    <2>2. CASE \E k \in Indices \cap DOMAIN obj.properties :
                  ~obj.properties[k].configurable /\ canonical_array_index(k) + 1 = target
      <3>1. PICK k \in Indices \cap DOMAIN obj.properties :
                  ~obj.properties[k].configurable /\ canonical_array_index(k) + 1 = target
        BY <2>2
      <3>2. k \in DOMAIN own /\ own[k] = obj.properties[k]
        BY <1>5, <3>1 DEF InTable
      <3>3. ~(canonical_array_index(k) >= l)
        BY <1>0, <1>9, <3>1, <3>2
      <3> QED
        BY <1>0, <2>0, <3>1, <3>3
    <2> QED
      BY <2>1, <2>2 DEF Stops
  <1>10. target \in L /\ \A l \in L : target <= l /\ l \in Int
    BY <1>7, <1>8, <1>9
  <1> HIDE DEF L
  <1>11. Min(L) = target
    <2> DEFINE z == CHOOSE x \in L : \A y \in L : x <= y
    <2>1. Min(L) = z
      BY DEF Min
    <2>2. z \in L /\ \A y \in L : z <= y
      BY <1>10
    <2> HIDE DEF z
    <2> QED
      BY <1>10, <2>1, <2>2
  <1> QED
    BY <1>6, <1>11

\* p is the descriptor of a length n, w tells whether it is writable before the
\* definition d and b whether it is afterwards.
LengthWritable(p, n, w, d, b) ==
    /\ p = data(n, w, FALSE, FALSE) /\ w \in BOOLEAN
    /\ IsDescriptor(d) /\ ~is_accessor_descriptor(d) /\ ~LengthRefused(n, w, d)
    /\ b = (w /\ ~("writable" \in DOMAIN d /\ ~d.writable))

\* The descriptor of the length after a definition.
LEMMA LengthMerged ==
    ASSUME NEW p, NEW n, NEW w, NEW d, NEW b, LengthWritable(p, n, w, d, b), NEW l
    PROVE  Overlay(With(d, "value", l), p) = data(l, b, FALSE, FALSE)
  <1> DEFINE e == With(d, "value", l)
             x == Overlay(e, p)
  <1>0. /\ p = data(n, w, FALSE, FALSE) /\ w \in BOOLEAN
        /\ IsDescriptor(d) /\ ~is_accessor_descriptor(d) /\ ~LengthRefused(n, w, d)
        /\ b = (w /\ ~("writable" \in DOMAIN d /\ ~d.writable))
    BY DEF LengthWritable
  <1>1. /\ p.writable = w /\ p.enumerable = FALSE /\ p.configurable = FALSE
        /\ DOMAIN p = DataShape
    BY <1>0 DEF data, DataShape
  <1>2. /\ DOMAIN e = DOMAIN d \cup {"value"} /\ e["value"] = l
        /\ \A f \in DOMAIN d : f # "value" => e[f] = d[f]
    BY DEF With
  <1>3. DOMAIN d \subseteq DataShape
    BY <1>0 DEF IsDescriptor, is_accessor_descriptor, Fields, DataFields, AccessorFields, DataShape
  <1>4. /\ "writable" \in DOMAIN d => d.writable \in BOOLEAN
        /\ "enumerable" \in DOMAIN d => d.enumerable = FALSE
        /\ "configurable" \in DOMAIN d => d.configurable = FALSE
        /\ "writable" \in DOMAIN d => ~d.writable \/ w
    BY <1>0 DEF IsDescriptor, LengthRefused, Flag
  <1> HIDE DEF e
  <1>5. /\ DOMAIN x = DataShape /\ x = [f \in DOMAIN x |-> x[f]]
        /\ \A f \in DataShape : x[f] = IF f \in DOMAIN e THEN e[f] ELSE p[f]
    BY <1>1, <1>2, <1>3 DEF Overlay, DataShape
  <1> HIDE DEF x
  <1>6. x.value = l /\ x.enumerable = FALSE /\ x.configurable = FALSE
    BY <1>1, <1>2, <1>4, <1>5 DEF DataShape
  <1>7. x.writable = b
    BY <1>0, <1>1, <1>2, <1>4, <1>5 DEF DataShape
  <1>8. x = data(l, b, FALSE, FALSE)
    BY <1>5, <1>6, <1>7, DataIs
  <1> QED
    BY <1>8 DEF x, e

KeptBelow(own, target) ==
    [k \in { x \in DOMAIN own : is_index(x) => canonical_array_index(x) < target } |-> own[k]]

Relength(own, target, q) == [KeptBelow(own, target) EXCEPT !["length"] = q]

\* The array obj is resized to u, and o is u with its length locked or not.
ResizedLocked(obj, u, o, target, q) ==
    /\ ObjectOK(obj) /\ obj.kind = "array" /\ ObjectOK(o) /\ target \in Nat
    /\ Resized(obj, u, target) /\ Alike(u, o, {"array_length_writable"})
    /\ q = data(target, o.array_length_writable, FALSE, FALSE)

\* What a resized and perhaps locked array shows.
LEMMA ResizedShows ==
    ASSUME NEW obj, NEW par, NEW u, NEW o, NEW target, NEW q,
           ResizedLocked(obj, u, o, target, q)
    PROVE  own_view(o, par) = Relength(own_view(obj, par), target, q)
  <1> DEFINE own == own_view(obj, par)
             K == { x \in DOMAIN own : is_index(x) => canonical_array_index(x) < target }
             kept == [k \in K |-> own[k]]
             v == [kept EXCEPT !["length"] = q]
             below(x) == x \in Indices => canonical_array_index(x) < target
  <1>0. /\ ObjectOK(obj) /\ obj.kind = "array" /\ ObjectOK(o) /\ target \in Nat
        /\ Resized(obj, u, target) /\ Alike(u, o, {"array_length_writable"})
        /\ q = data(target, o.array_length_writable, FALSE, FALSE)
    BY DEF ResizedLocked
  <1>1. /\ o.kind = "array" /\ o.array_length = target
        /\ o.properties = u.properties /\ o.elements = u.elements /\ u.kind = "array"
    BY <1>0 DEF Alike, Resized, ObjectFields
  <1>2. \A x : /\ InTable(o, x) <=> InTable(obj, x) /\ below(x)
               /\ InTable(o, x) => o.properties[x] = obj.properties[x]
               /\ is_dense(o, x) <=> is_dense(obj, x) /\ below(x)
               /\ is_dense(o, x) => Slot(o, x) = Slot(obj, x)
    <2>1. \A x : /\ InTable(o, x) <=> InTable(u, x)
                 /\ is_dense(o, x) <=> is_dense(u, x)
                 /\ Slot(o, x) = Slot(u, x)
      BY <1>1 DEF InTable, is_dense, Slot
    <2> QED
      BY <1>0, <1>1, <2>1 DEF Resized
  <1>3. /\ DOMAIN own = { x \in Keys : has_own(obj, x) }
        /\ \A x \in DOMAIN own : own[x] = get_own_property_descriptor(obj, par, x)
    BY ViewFacts
  <1> HIDE DEF own
  <1>4. /\ "length" \in Keys /\ "length" \notin Indices
        /\ \A x : is_index(x) <=> x \in Indices
    BY KeysAssumption DEF is_index, Indices
  <1>5. \A x : has_own(obj, x) <=> x = "length" \/ InTable(obj, x) \/ is_dense(obj, x)
    BY <1>0, ArrayShows
  <1>6. \A x : has_own(o, x) <=> x = "length" \/ InTable(o, x) \/ is_dense(o, x)
    BY <1>0, <1>1, ArrayShows
  <1> HIDE DEF below
  <1>7. K = { x \in Keys : has_own(o, x) }
    <2>1. \A x \in Keys : x # "length" => (x \in K <=> has_own(o, x))
      BY <1>2, <1>3, <1>4, <1>5, <1>6 DEF below
    <2>2. "length" \in K /\ has_own(o, "length")
      BY <1>3, <1>4, <1>5, <1>6
    <2>3. K \subseteq Keys
      BY <1>3
    <2> HIDE DEF K
    <2> QED
      BY <2>1, <2>2, <2>3
  <1>8. "length" \in K /\ K \subseteq DOMAIN own
    BY <1>3, <1>4, <1>5
  <1> HIDE DEF K
  <1>9. /\ v = [x \in DOMAIN v |-> v[x]] /\ DOMAIN v = K
        /\ v["length"] = q /\ \A x \in K : x # "length" => v[x] = own[x]
    BY <1>8
  <1> HIDE DEF v
  <1>10. ASSUME NEW x \in K PROVE v[x] = get_own_property_descriptor(o, par, x)
    <2>1. CASE x = "length"
      BY <1>0, <1>1, <1>9, <2>1, ArrayShows
    <2>2. CASE x # "length" /\ InTable(o, x)
      <3>1. get_own_property_descriptor(o, par, x) = o.properties[x]
        BY <1>0, <1>1, <2>2, ArrayShows
      <3>2. InTable(obj, x) /\ o.properties[x] = obj.properties[x]
        BY <1>2, <2>2
      <3>3. get_own_property_descriptor(obj, par, x) = obj.properties[x]
        BY <1>0, <3>2, ArrayShows
      <3> QED
        BY <1>3, <1>8, <1>9, <2>2, <3>1, <3>2, <3>3
    <2>3. CASE x # "length" /\ ~InTable(o, x)
      <3>1. is_dense(o, x)
        BY <1>6, <1>7, <2>3
      <3>2. is_dense(obj, x) /\ below(x) /\ ~InTable(obj, x) /\ Slot(o, x) = Slot(obj, x)
        BY <1>2, <2>3, <3>1
      <3>3. get_own_property_descriptor(o, par, x) = data(Slot(o, x), TRUE, TRUE, TRUE)
        BY <1>0, <1>1, <2>3, <3>1, ArrayShows
      <3>4. get_own_property_descriptor(obj, par, x) = data(Slot(obj, x), TRUE, TRUE, TRUE)
        BY <1>0, <3>2, ArrayShows
      <3>5. own[x] = get_own_property_descriptor(obj, par, x)
        BY <1>3, <1>8
      <3>6. data(Slot(o, x), TRUE, TRUE, TRUE) = data(Slot(obj, x), TRUE, TRUE, TRUE)
        BY <3>2
      <3> QED
        BY <1>9, <2>3, <3>3, <3>4, <3>5, <3>6
    <2> QED
      BY <2>1, <2>2, <2>3
  <1>11. own_view(o, par) = v
    BY <1>7, <1>9, <1>10, ViewIs
  <1> QED
    BY <1>11 DEF own, v, K, KeptBelow, Relength

\* The array that a definition of the length that is not refused leaves.
LEMMA LengthResizes ==
    ASSUME NEW obj, Good(obj), TableAgrees(obj), obj.kind = "array",
           NEW d, "value" \in DOMAIN d => d.value \in 0..MaxLength,
           NEW u, u = (IF "value" \notin DOMAIN d THEN obj
                       ELSE IF d.value >= obj.array_length
                            THEN [obj EXCEPT !.array_length = d.value]
                            ELSE shrink(obj, d.value).object),
           NEW new, new = (IF "value" \in DOMAIN d THEN d.value ELSE obj.array_length)
    PROVE  \E target \in Nat :
              /\ Resized(obj, u, target)
              /\ \/ new >= obj.array_length /\ target = new
                 \/ /\ new < obj.array_length /\ target \in new..obj.array_length
                    /\ Stops(obj, new, target)
  <1>0. /\ ObjectOK(obj) /\ DOMAIN obj = ObjectFields
        /\ obj.array_length \in Nat /\ MaxLength \in Nat
    BY BoundsAssumption DEF Good, ObjectOK
  <1>1. new \in Nat /\ Settled(obj)
    BY <1>0, AgreesMeans
  <1>2. CASE "value" \notin DOMAIN d
    <2>1. u = obj /\ new = obj.array_length
      BY <1>2
    <2>2. Alike(obj, u, {"array_length"})
      BY <1>0, <2>1 DEF Alike
    <2> QED
      BY <1>0, <1>1, <2>1, <2>2, ResizedByGrowth
  <1>3. CASE "value" \in DOMAIN d /\ d.value >= obj.array_length
    <2>1. u = [obj EXCEPT !.array_length = new] /\ new >= obj.array_length
      BY <1>3
    <2>2. Alike(obj, u, {"array_length"}) /\ u.array_length = new
      BY <1>0, <2>1 DEF Alike, ObjectFields
    <2> QED
      BY <1>0, <1>1, <2>1, <2>2, ResizedByGrowth
  <1>4. CASE "value" \in DOMAIN d /\ ~(d.value >= obj.array_length)
    <2>1. u = shrink(obj, new).object /\ new < obj.array_length
      BY <1>0, <1>1, <1>4
    <2>2. PICK target \in new..obj.array_length :
              Cut(obj, shrink(obj, new).object, target) /\ Stops(obj, new, target)
      BY <1>1, <2>1, ShrunkAs
    <2>3. Resized(obj, u, target)
      BY <2>1, <2>2, ResizedByCut
    <2> QED
      BY <1>0, <1>1, <2>1, <2>2, <2>3
  <1> QED
    BY <1>2, <1>3, <1>4

\* What the reference expects of a new length.
LEMMA ReferenceLength ==
    ASSUME NEW obj, obj.kind = "array", NEW par, NEW d,
           NEW own, own = own_view(obj, par)
    PROVE  Expected(obj, par, "length", d) =
              IF Permits(own, obj.extensible, "length", d) THEN AppliedLength(own, d) ELSE own
  <1>1. ~is_index("length")
    BY KeysAssumption DEF is_index
  <1> QED
    BY <1>1 DEF Expected

LEMMA LengthConforms ==
    ASSUME NEW obj, Good(obj), TableAgrees(obj), obj.kind = "array", NEW par,
           NEW d, IsDescriptor(d), "value" \in DOMAIN d => d.value \in 0..MaxLength,
           Matches(get_own_property_descriptor(obj, par, "length"), d)
    PROVE  LET r == define_array_length(obj, par, d) IN
           own_view(r.object, r.parameters) = Expected(obj, par, "length", d)
  <1> DEFINE own == own_view(obj, par)
             n == obj.array_length
             w == obj.array_length_writable
             p == data(n, w, FALSE, FALSE)
             R == LengthRefused(n, w, d)
             r == define_array_length(obj, par, d)
             o == r.object
  <1>0. /\ ObjectOK(obj) /\ n \in Nat /\ w \in BOOLEAN /\ "length" \in Keys
    BY BoundsAssumption, KeysAssumption DEF Good, ObjectOK
  <1>1. has_own(obj, "length") /\ get_own_property_descriptor(obj, par, "length") = p
    BY <1>0, ArrayShows
  <1>2. "length" \in DOMAIN own /\ own["length"] = p
    <2>1. /\ DOMAIN own = { x \in Keys : has_own(obj, x) }
          /\ \A x \in DOMAIN own : own[x] = get_own_property_descriptor(obj, par, x)
      BY ViewFacts
    <2> QED
      BY <1>0, <1>1, <2>1
  <1>3. Complete(p) /\ p.value = n
    BY <1>0, DataComplete, ZenonT(60)
  <1> HIDE DEF own
  <1>4. /\ ~is_accessor_descriptor(d) /\ (refuses(p, d) <=> R)
    <2> HIDE DEF R, p
    <2>1. Matches(p, d)
      BY <1>1
    <2> QED
      BY <1>0, <2>1, LengthRefuses DEF p, R
  <1>5. Permits(own, obj.extensible, "length", d) <=> ~R
    <2> HIDE DEF R, p
    <2>1. Matches(own["length"], d) /\ Complete(own["length"])
      BY <1>1, <1>2, <1>3
    <2> QED
      BY <1>2, <1>4, <2>1, RefusesAsReference
  <1>6. Expected(obj, par, "length", d) = IF R THEN own ELSE AppliedLength(own, d)
    <2> HIDE DEF R
    <2> QED
      BY <1>5, ReferenceLength DEF own
  <1>7. r.parameters = par
    BY LengthForms
  <1>8. CASE R
    <2>1. o = obj
      BY <1>4, <1>8, LengthExact
    <2> HIDE DEF r, R
    <2> QED
      BY <1>6, <1>7, <1>8, <2>1 DEF own, r
  <1>9. CASE ~R
    <2> DEFINE u == IF "value" \notin DOMAIN d THEN obj
                    ELSE IF d.value >= obj.array_length
                         THEN [obj EXCEPT !.array_length = d.value]
                         ELSE shrink(obj, d.value).object
               new == IF "value" \in DOMAIN d THEN d.value ELSE obj.array_length
               locks == "writable" \in DOMAIN d /\ ~d.writable
    <2>1. o = Locked(u, d)
      BY <1>4, <1>9, LengthExact
    <2>2. PICK target \in Nat :
              /\ Resized(obj, u, target)
              /\ \/ new >= obj.array_length /\ target = new
                 \/ /\ new < obj.array_length /\ target \in new..obj.array_length
                    /\ Stops(obj, new, target)
      <3> HIDE DEF u, new
      <3>1. /\ u = (IF "value" \notin DOMAIN d THEN obj
                       ELSE IF d.value >= obj.array_length
                            THEN [obj EXCEPT !.array_length = d.value]
                            ELSE shrink(obj, d.value).object)
            /\ new = (IF "value" \in DOMAIN d THEN d.value ELSE obj.array_length)
        BY DEF u, new
      <3> QED
        BY <3>1, LengthResizes
    <2>3. new \in Nat
      BY <1>0, BoundsAssumption
    <2>4. SettledLength(own, new) = target
      <3> HIDE DEF new
      <3> QED
        BY <2>2, <2>3, LengthTarget DEF own
    <2>5. ObjectOK(o)
      BY LengthKeeps DEF Safe, Good
    <2> HIDE DEF u, r
    <2>6. u.array_length_writable = w /\ DOMAIN u = ObjectFields
      BY <2>2 DEF Resized, Alike, ObjectFields
    <2>7. Alike(u, o, {"array_length_writable"}) /\ o.array_length_writable = (w /\ ~locks)
      <3> DEFINE l == Locked(u, d)
      <3>1. /\ Alike(u, l, {"array_length_writable"})
            /\ l.array_length_writable = (u.array_length_writable /\ ~locks)
        BY <2>6, LockedAs
      <3> HIDE DEF l, locks
      <3> QED
        BY <2>1, <2>6, <3>1 DEF l
    <2> DEFINE kept == KeptBelow(own, target)
               q == data(target, w /\ ~locks, FALSE, FALSE)
    <2>8. own_view(o, par) = Relength(own, target, q)
      <3> DEFINE e == data(target, o.array_length_writable, FALSE, FALSE)
      <3>1. e = q
        BY <2>7
      <3>2. e = data(target, o.array_length_writable, FALSE, FALSE)
        OBVIOUS
      <3>3. Resized(obj, u, target)
        BY <2>2
      <3>4. ResizedLocked(obj, u, o, target, e)
        BY <1>0, <2>5, <2>7, <3>2, <3>3 DEF ResizedLocked
      <3> HIDE DEF e, o, new
      <3>5. \A x : own_view(o, x) = Relength(own_view(obj, x), target, e)
        BY <3>4, ResizedShows
      <3> QED
        BY <3>1, <3>5 DEF own
    <2>9. Overlay(With(d, "value", target), p) = q
      <3> DEFINE b == w /\ ~locks
      <3>2. LengthWritable(p, n, w, d, b)
        BY <1>0, <1>4, <1>9 DEF LengthWritable
      <3> HIDE DEF b, p, R, n, w
      <3>3. \A l : Overlay(With(d, "value", l), p) = data(l, b, FALSE, FALSE)
        BY <3>2, LengthMerged, ZenonT(60)
      <3> QED
        BY <3>3 DEF b
    <2>10. kept["length"] = p /\ "length" \in DOMAIN kept
      BY <1>2, KeysAssumption DEF is_index, KeptBelow
    <2>11. AppliedLength(own, d) = [kept EXCEPT !["length"] = Overlay(With(d, "value", target), @)]
      <3>1. new = IF "value" \in DOMAIN d THEN d.value ELSE own["length"].value
        BY <1>2, <1>3
      <3> HIDE DEF new
      <3> QED
        BY <2>4, <3>1 DEF AppliedLength, KeptBelow
    <2>12. AppliedLength(own, d) = Relength(own, target, q)
      <3> HIDE DEF kept, p, q
      <3>1. AppliedLength(own, d) = [kept EXCEPT !["length"] = q]
        BY <2>9, <2>10, <2>11
      <3> QED
        BY <3>1 DEF kept, Relength
    <2> HIDE DEF kept, q, R
    <2> QED
      BY <1>6, <1>7, <1>9, <2>8, <2>12 DEF r
  <1> QED
    BY <1>8, <1>9

-----------------------------------------------------------------------------
(* Definitions and the reference: every definition *)

\* The first conditions of InReference.
LEMMA InReferenceMatches ==
    ASSUME NEW obj, NEW par, NEW k, NEW d, InReference(obj, par, k, d)
    PROVE  /\ ~Malformed(d)
           /\ has_own(obj, k) => Matches(get_own_property_descriptor(obj, par, k), d)
           /\ obj.kind = "array" /\ k = "length" /\ "value" \in DOMAIN d => d.value \in 0..MaxLength
           /\ obj.kind = "function" => InTable(obj, k) \/ ~is_virtual(obj, k)
  BY DEF InReference, Matches

LEMMA DefinedConforms ==
    ASSUME NEW obj, Good(obj), TableAgrees(obj), NEW par, DOMAIN par = Parameters,
           NEW k \in Keys, NEW d, IsDescriptor(d), "value" \in DOMAIN d => d.value # Hole,
           InReference(obj, par, k, d)
    PROVE  LET r == define_own_property(obj, par, k, d) IN
           own_view(r.object, r.parameters) = Expected(obj, par, k, d)
  <1> DEFINE dense == is_dense(obj, k) /\ ~InTable(obj, k)
             r == define_own_property(obj, par, k, d)
             p == get_own_property_descriptor(obj, par, k)
             exotic == string_exotic_property(obj, k)
             array == obj.kind = "array"
  <1>0. (ObjectOK(obj) /\ ~InTable(obj, "length")) \/ obj.kind # "array"
    BY DEF Good, ObjectOK
  <1>r. /\ ~Malformed(d)
        /\ has_own(obj, k) => Matches(p, d)
        /\ array /\ k = "length" /\ "value" \in DOMAIN d => d.value \in 0..MaxLength
        /\ obj.kind = "function" => InTable(obj, k) \/ ~is_virtual(obj, k)
    BY InReferenceMatches
  <1>a. dense => array /\ is_index(k) /\ k # "length"
    BY KeysAssumption DEF is_dense, is_index
  <1>l. is_index(k) => k # "length"
    BY KeysAssumption DEF is_index
  <1> HIDE DEF p
  <1>1. CASE exotic
    <2>1. r = Outcome(obj, par, string_accepts(obj, k, d))
      BY <1>1, <1>r DEF define_own_property
    <2>2. r.object = obj /\ r.parameters = par
      BY <2>1 DEF Outcome
    <2>3. own_view(obj, par) = Expected(obj, par, k, d)
      BY <1>1, StringConforms
    <2> HIDE DEF r
    <2> QED
      BY <2>2, <2>3 DEF r
  <1>2. CASE ~exotic /\ array /\ k = "length"
    <2>1. r = define_array_length(obj, par, d)
      BY <1>2, <1>r DEF define_own_property
    <2>2. Matches(get_own_property_descriptor(obj, par, "length"), d)
      <3>1. has_own(obj, k)
        BY <1>2 DEF has_own, is_virtual
      <3> QED
        BY <1>2, <1>r, <3>1 DEF p
    <2> HIDE DEF r
    <2> QED
      BY <1>2, <1>r, <2>1, <2>2, LengthConforms DEF r
  <1>3. CASE ~exotic /\ array /\ is_index(k) /\ ~dense /\ ~InTable(obj, k)
    <2>1. r = create_array_element(obj, par, k, d)
      BY <1>3, <1>l, <1>r DEF define_own_property
    <2> HIDE DEF r
    <2> QED
      BY <1>3, <2>1, CreateConforms DEF r
  <1>4. CASE ~exotic /\ dense /\ dense_compatible_descriptor(d)
    <2> DEFINE v == PlaceDense(obj, canonical_array_index(k), d.value)
    <2>1. r = Outcome(v, par, TRUE)
      BY <1>4, <1>a, <1>r DEF define_own_property
    <2>2. "value" \in DOMAIN d
      BY <1>4 DEF dense_compatible_descriptor
    <2>3. own_view(v, par) = Expected(obj, par, k, d)
      BY <1>4, <2>2, PlaceConforms
    <2> HIDE DEF v
    <2>4. r.object = v /\ r.parameters = par
      BY <2>1 DEF Outcome
    <2> HIDE DEF r
    <2> QED
      BY <2>3, <2>4 DEF r
  <1>5. CASE ~exotic /\ dense /\ ~dense_compatible_descriptor(d)
    <2> DEFINE s == spill(obj, k)
    <2>1. r = validate_and_apply(s, par, k, d)
      BY <1>5, <1>a, <1>r DEF define_own_property
    <2>2. TableAgrees(s)
      BY <1>5, SpillAgrees
    <2>3. ArrayStep(obj, s) /\ InTable(s, k)
      BY <1>5, Spilled
    <2>4. /\ own_view(s, par) = own_view(obj, par)
          /\ s.kind = obj.kind /\ s.extensible = obj.extensible
          /\ get_own_property_descriptor(s, par, k) = p
      BY <1>5, SpillSame DEF p
    <2> HIDE DEF s
    <2>5. Good(s)
      BY <2>3, ArrayKeeps
    <2>6. Matches(p, d)
      <3>1. has_own(obj, k)
        BY <1>5, <1>a DEF has_own, is_virtual
      <3> QED
        BY <1>r, <3>1
    <2>7. Expected(s, par, k, d) = Expected(obj, par, k, d)
      BY <2>4 DEF Expected
    <2> DEFINE t == validate_and_apply(s, par, k, d)
    <2>8. own_view(t.object, t.parameters) = Expected(s, par, k, d)
      BY <2>2, <2>3, <2>4, <2>5, <2>6, StoredConforms
    <2> HIDE DEF t, r
    <2> QED
      BY <2>1, <2>7, <2>8 DEF r, t
  <1>6. CASE /\ ~exotic /\ ~dense /\ ~(array /\ k = "length")
             /\ ~(array /\ is_index(k) /\ ~InTable(obj, k))
    <2>1. r = validate_and_apply(obj, par, k, d)
      BY <1>6, <1>r DEF define_own_property
    <2>2. CASE InTable(obj, k)
      <3>1. Matches(p, d)
        BY <1>r, <2>2 DEF has_own
      <3> HIDE DEF r
      <3> QED
        BY <2>1, <2>2, <3>1, StoredConforms DEF r, p
    <2>3. CASE ~InTable(obj, k)
      <3>1. ~has_own(obj, k)
        BY <1>6, <1>r, <2>3 DEF has_own, is_virtual
      <3>2. ~(array /\ (k = "length" \/ is_index(k)))
        BY <1>6, <2>3
      <3> HIDE DEF r
      <3> QED
        BY <2>1, <3>1, <3>2, NewConforms DEF r
    <2> QED
      BY <2>2, <2>3
  <1> QED
    BY <1>1, <1>2, <1>3, <1>4, <1>5, <1>6

\* A definition changes the value of a parameter, never which ones there are.
LEMMA DefinedParameters ==
    ASSUME NEW obj, NEW par, NEW k, NEW d
    PROVE  DOMAIN define_own_property(obj, par, k, d).parameters = DOMAIN par
  <1>1. ASSUME NEW s PROVE DOMAIN validate_and_apply(s, par, k, d).parameters = DOMAIN par
    BY DEF validate_and_apply, Outcome
  <1>2. define_array_length(obj, par, d).parameters = par
    BY LengthForms
  <1>3. create_array_element(obj, par, k, d).parameters = par
    BY DEF create_array_element, Outcome
  <1>4. \A x, y : Outcome(x, par, y).parameters = par
    BY DEF Outcome
  <1> QED
    BY <1>1, <1>2, <1>3, <1>4 DEF define_own_property

LEMMA PoppedParameters ==
    ASSUME NEW obj, NEW par, NEW k
    PROVE  /\ delete_property(obj, par, k).parameters = par
           /\ finish_pop(obj, par, k).parameters = par
  <1>1. \A x, y : Outcome(x, par, y).parameters = par
    BY DEF Outcome
  <1>2. \A j : delete_property(obj, par, j).parameters = par
    BY <1>1 DEF delete_property
  <1>3. \A o, d : define_array_length(o, par, d).parameters = par
    BY LengthForms
  <1> QED
    BY <1>2, <1>3 DEF finish_pop

ParametersKept == DOMAIN parameters = Parameters

LEMMA NextParameters ==
    ASSUME ParametersKept, Next
    PROVE  ParametersKept'
  <1>1. ASSUME NEW o, NEW obj, NEW k, NEW d,
               Commit(o, define_own_property(obj, parameters, k, d))
        PROVE  ParametersKept'
    <2>1. DOMAIN define_own_property(obj, parameters, k, d).parameters = DOMAIN parameters
      BY DefinedParameters
    <2> QED
      BY <1>1, <2>1 DEF Commit, ParametersKept
  <1>2. ASSUME UNCHANGED parameters PROVE ParametersKept'
    BY <1>2 DEF ParametersKept
  <1>3. ASSUME NEW o, NEW obj, NEW k, Commit(o, delete_property(obj, parameters, k))
        PROVE  ParametersKept'
    BY <1>2, <1>3, PoppedParameters DEF Commit
  <1>4. ASSUME NEW o, NEW obj, NEW k, Commit(o, finish_pop(obj, parameters, k))
        PROVE  ParametersKept'
    BY <1>2, <1>4, PoppedParameters DEF Commit
  <1>5. ASSUME NEW t \in Definitions, DefineOwnProperty(t[1], t[2], t[3]) PROVE ParametersKept'
    BY <1>1, <1>5 DEF DefineOwnProperty
  <1>6. ASSUME NEW t \in Writes, SetData(t[1], t[2], t[3], t[4]) PROVE ParametersKept'
    <2> DEFINE d == set_own_descriptor(heap[t[4]], t[2], t[3])
    <2>1. Commit(t[4], define_own_property(heap[t[4]], parameters, t[2], d))
      BY <1>6 DEF SetData
    <2> HIDE DEF d
    <2> QED
      BY <1>1, <2>1
  <1>7. ASSUME NEW t \in Writes, SetOwnProperty(t[1], t[2], t[3]) PROVE ParametersKept'
    <2> DEFINE d == set_own_descriptor(heap[t[1]], t[2], t[3])
    <2>1. Commit(t[1], define_own_property(heap[t[1]], parameters, t[2], d))
      BY <1>7 DEF SetOwnProperty
    <2> HIDE DEF d
    <2> QED
      BY <1>1, <2>1
  <1>8. ASSUME NEW t \in Deletions, DeleteProperty(t[1], t[2]) PROVE ParametersKept'
    BY <1>3, <1>8 DEF DeleteProperty
  <1>9. ASSUME NEW o \in Objects, NEW v \in Pushed, ArrayPush(o, v) PROVE ParametersKept'
    <2> DEFINE k == IndexNames[heap[o].array_length + 1]
               d == data(v, TRUE, TRUE, TRUE)
    <2>1. Commit(o, define_own_property(heap[o], parameters, k, d))
      BY <1>9 DEF ArrayPush
    <2> HIDE DEF k, d
    <2> QED
      BY <1>1, <2>1
  <1>10. ASSUME NEW o \in Objects, ArrayPop(o) PROVE ParametersKept'
    <2> DEFINE index == heap[o].array_length - 1
    <2>1. Commit(o, finish_pop(heap[o], parameters, index))
      BY <1>10 DEF ArrayPop
    <2> HIDE DEF index
    <2> QED
      BY <1>4, <2>1
  <1>11. CASE GetterReturns
    <2> DEFINE call == Last(popping)
    <2>1. Commit(call.array, finish_pop(heap[call.array], parameters, call.index))
      BY <1>11 DEF GetterReturns
    <2> HIDE DEF call
    <2> QED
      BY <1>4, <2>1
  <1>12. ASSUME NEW p \in Parameters, NEW v \in Pushed, AssignParameter(p, v)
         PROVE  ParametersKept'
    BY <1>12 DEF AssignParameter, ParametersKept
  <1>13. ASSUME NEW t \in Reparentings, SetPrototype(t[1], t[2]) PROVE ParametersKept'
    BY <1>2, <1>13 DEF SetPrototype
  <1>14. ASSUME NEW o \in Sealable, PreventExtensions(o) PROVE ParametersKept'
    BY <1>2, <1>14 DEF PreventExtensions
  <1>15. ASSUME NEW o \in Objects, ArrayPopCallsGetter(o) PROVE ParametersKept'
    BY <1>2, <1>15 DEF ArrayPopCallsGetter
  <1>16. CASE GetterThrows
    BY <1>2, <1>16 DEF GetterThrows
  <1> QED
    BY <1>5, <1>6, <1>7, <1>8, <1>9, <1>10, <1>11, <1>12, <1>13, <1>14, <1>15, <1>16 DEF Next

\* DefinitionsConform: in every reachable state, every definition that the reference
\* covers leaves the own properties that ECMA-262 prescribes, whether the dense
\* elements, the table, the array length or a mapped parameter hold the property.
THEOREM DefinitionsConform == Spec => []DefineConforms
  <1>1. Init => TablesAgree /\ ParametersKept
    BY HeapsAssumption DEF Init, TablesAgree, ParametersKept
  <1>2. Inv /\ TablesAgree /\ ParametersKept /\ [Next]_vars => (TablesAgree /\ ParametersKept)'
    <2>1. ASSUME UNCHANGED vars, TablesAgree, ParametersKept PROVE (TablesAgree /\ ParametersKept)'
      BY <2>1 DEF vars, TablesAgree, ParametersKept
    <2> QED
      BY <2>1, NextAgrees, NextParameters
  <1>3. Inv /\ TablesAgree /\ ParametersKept => DefineConforms
    <2> SUFFICES ASSUME Inv, TablesAgree, ParametersKept, NEW t \in Definitions,
                        NEW obj, obj = heap[t[1]], NEW k, k = t[2], NEW d, d = t[3],
                        InReference(obj, parameters, k, d)
                 PROVE  LET r == define_own_property(obj, parameters, k, d) IN
                        own_view(r.object, r.parameters) = Expected(obj, parameters, k, d)
      BY DEF DefineConforms
    <2>1. /\ t[1] \in Objects /\ k \in Keys /\ IsDescriptor(d)
          /\ "value" \in DOMAIN d => d.value # Hole
      BY InputsAssumption
    <2>2. Good(obj) /\ TableAgrees(obj)
      BY <2>1, AllGood DEF TablesAgree
    <2> QED
      BY <2>1, <2>2, DefinedConforms DEF ParametersKept
  <1> QED
    BY <1>1, <1>2, <1>3, Invariant, PTL DEF Spec
=============================================================================
