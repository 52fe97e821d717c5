------------------------------- MODULE Folding -------------------------------
(***************************************************************************)
(* What a fold over a sequence preserves, and that a recursion along a     *)
(* rank is well defined.  Op is one step of the fold, taken in a context   *)
(* that does not change, or the body of the recursion; Inv is what a step  *)
(* preserves.  The modules that fold instantiate both.                     *)
(***************************************************************************)
EXTENDS Integers, Sequences, TLAPS
LOCAL INSTANCE WellFoundedInduction

CONSTANTS Op(_, _, _), Inv(_, _)

Highest(T) == CHOOSE x \in T : \A y \in T : x >= y

\* FoldLeft of the step, as SequencesExt defines it.
Of(c, base, s) ==
  LET iter[T \in SUBSET DOMAIN s] ==
        IF T = {} THEN base ELSE Op(c, iter[T \ {Highest(T)}], s[Highest(T)])
  IN  iter[DOMAIN s]

\* A set of numbers that is not empty has a least one.
LEMMA Least ==
  ASSUME NEW T, T \subseteq Nat, T # {}
  PROVE  \E k \in T : \A j \in T : k <= j
<1>1. IsWellFoundedOn(OpToRel(<, Nat), Nat)
  BY NatLessThanWellFounded
<1>2. PICK k \in T : \A j \in T : ~(<<j, k>> \in OpToRel(<, Nat))
  BY <1>1, WFMin
<1>3. ASSUME NEW j \in T PROVE k <= j
  <2>1. j \in Nat /\ k \in Nat
    OBVIOUS
  <2>2. ~(<<j, k>> \in OpToRel(<, Nat))
    BY <1>2
  <2>3. ~(j < k)
    BY <2>1, <2>2 DEF OpToRel
  <2> QED  BY <2>1, <2>3
<1> QED  BY <1>3

LEMMA Induction ==
  ASSUME NEW c, Inv(c, 0), \A n \in Nat : Inv(c, n) => Inv(c, n + 1)
  PROVE  \A n \in Nat : Inv(c, n)
<1> DEFINE Bad == {k \in Nat : ~Inv(c, k)}
<1>1. SUFFICES ASSUME Bad # {} PROVE FALSE
  OBVIOUS
<1>2. PICK k \in Bad : \A j \in Bad : k <= j
  BY <1>1, Least
<1>3. k # 0 /\ k - 1 \in Nat /\ k - 1 + 1 = k /\ ~(k <= k - 1)
  BY <1>2
<1>4. k - 1 \notin Bad
  BY <1>2, <1>3
<1> QED  BY <1>2, <1>3, <1>4

LEMMA HighestIsIn ==
  ASSUME NEW n \in Nat, NEW T, T \subseteq 1 .. n, T # {}
  PROVE  Highest(T) \in T /\ \A y \in T : Highest(T) >= y
<1> DEFINE U == {k \in Nat : \E x \in T : k = n - x}
<1>1. U \subseteq Nat /\ U # {}
  <2>1. PICK x \in T : TRUE
    OBVIOUS
  <2>2. n - x \in U
    BY <2>1
  <2> QED  BY <2>2
<1>2. PICK k \in U : \A j \in U : k <= j
  BY <1>1, Least
<1>3. PICK x \in T : k = n - x
  BY <1>2
<1>4. \A y \in T : x >= y
  <2> SUFFICES ASSUME NEW y \in T PROVE x >= y
    OBVIOUS
  <2>1. n - y \in U
    OBVIOUS
  <2>2. n - x <= n - y
    BY <1>2, <1>3, <2>1
  <2> QED  BY <2>2
<1> QED  BY <1>4 DEF Highest

\* How far a set of positions reaches: taking the highest away brings it down.
Rank(T) == IF T = {} THEN 0 ELSE Highest(T)

LEMMA RankFalls ==
  ASSUME NEW n \in Nat, NEW T, T \subseteq 1 .. n
  PROVE  /\ Rank(T) \in 0 .. n
         /\ T # {} => /\ Rank(T) > 0 /\ Highest(T) \in T /\ \A y \in T : Highest(T) >= y
                      /\ Rank(T \ {Highest(T)}) < Rank(T)
<1>1. CASE T = {}
  <2>1. Rank(T) = 0
    BY <1>1 DEF Rank
  <2> QED  BY <1>1, <2>1
<1>2. CASE T # {}
  <2>1. PICK h : h = Highest(T)
    OBVIOUS
  <2>2. h \in T /\ \A y \in T : h >= y
    BY <1>2, <2>1, HighestIsIn
  <2>3. h \in 1 .. n
    BY <2>2
  <2> PICK U : U = T \ {h}
    OBVIOUS
  <2>4. Rank(U) < h
    <3>1. CASE U = {}
      BY <2>3, <3>1 DEF Rank
    <3>2. CASE U # {}
      <4>1. PICK u : u = Highest(U)
        OBVIOUS
      <4>2. u \in U
        BY <3>2, <4>1, HighestIsIn
      <4>3. u \in Nat /\ h >= u /\ u # h
        BY <2>2, <4>2
      <4>4. Rank(U) = u
        BY <3>2, <4>1 DEF Rank
      <4> QED  BY <2>3, <4>3, <4>4
    <3> QED  BY <3>1, <3>2
  <2>5. Rank(T) = h
    BY <1>2, <2>1 DEF Rank
  <2> QED  BY <2>1, <2>2, <2>3, <2>4, <2>5
<1> QED  BY <1>1, <1>2

(***************************************************************************)
(* A recursion whose body looks only at arguments of a lower rank.         *)
(***************************************************************************)
Recursive(c, D, h) == h = CHOOSE f : f = [n \in D |-> Op(c, f, n)]

\* A recursion that asks only for arguments of a lower rank has the values its
\* body says: the lines and the preorder of a tree (pgn_tree.rs) are of the kind.
THEOREM Recursion ==
  ASSUME NEW c, NEW D, NEW b \in Nat, NEW r \in [D -> 0 .. b],
         \A f, g : \A n \in D :
           (\A m \in D : r[m] < r[n] => f[m] = g[m]) => Op(c, f, n) = Op(c, g, n),
         NEW h, Recursive(c, D, h)
  PROVE  \A n \in D : h[n] = Op(c, h, n)
<1> DEFINE Up(f, k) == \A n \in D : r[n] < k => f[n] = Op(c, f, n)
           Bad == {k \in Nat : ~ \E f : Up(f, k)}
<1>1. ASSUME Bad # {} PROVE FALSE
  <2>1. PICK k \in Bad : \A j \in Bad : k <= j
    BY <1>1, Least
  <2>2. Up(h, 0)
    OBVIOUS
  <2>3. k # 0 /\ k - 1 \in Nat /\ ~(k <= k - 1)
    BY <2>1, <2>2
  <2>4. k - 1 \notin Bad
    BY <2>1, <2>3
  <2>5. PICK f : Up(f, k - 1)
    BY <2>3, <2>4
  <2> DEFINE g == [n \in D |-> IF r[n] < k - 1 THEN f[n] ELSE Op(c, f, n)]
  <2>6. ASSUME NEW n \in D, r[n] < k PROVE g[n] = Op(c, g, n)
    <3>1. \A m \in D : r[m] < r[n] => f[m] = g[m]
      <4> SUFFICES ASSUME NEW m \in D, r[m] < r[n] PROVE f[m] = g[m]
        OBVIOUS
      <4>1. r[m] < k - 1
        BY <2>1, <2>6
      <4> QED  BY <4>1
    <3>2. Op(c, f, n) = Op(c, g, n)
      BY <3>1
    <3>3. g[n] = Op(c, f, n)
      BY <2>5
    <3> QED  BY <3>2, <3>3
  <2>7. Up(g, k)
    BY <2>6
  <2> QED  BY <2>1, <2>7
<1>2. b + 1 \in Nat /\ b + 1 \notin Bad
  BY <1>1
<1>3. PICK f : Up(f, b + 1)
  BY <1>2
<1> DEFINE g == [n \in D |-> f[n]]
<1>4. \A n \in D : g[n] = Op(c, g, n)
  <2> SUFFICES ASSUME NEW n \in D PROVE g[n] = Op(c, g, n)
    OBVIOUS
  <2>1. r[n] < b + 1
    OBVIOUS
  <2>2. f[n] = Op(c, f, n)
    BY <1>3, <2>1
  <2>3. \A m \in D : f[m] = g[m]
    OBVIOUS
  <2>4. Op(c, f, n) = Op(c, g, n)
    BY <2>3
  <2> QED  BY <2>2, <2>4
<1>5. g = [n \in D |-> Op(c, g, n)]
  BY <1>4
<1> HIDE DEF g
<1>6. h = CHOOSE e : e = [n \in D |-> Op(c, e, n)]
  BY DEF Recursive
<1>7. h = [n \in D |-> Op(c, h, n)]
  BY ONLY <1>5, <1>6
<1> QED  BY <1>7

(***************************************************************************)
(* A fold, as the values it goes through.                                  *)
(***************************************************************************)
LEMMA Through ==
  ASSUME NEW c, NEW base, NEW s, NEW n \in Nat, DOMAIN s = 1 .. n
  PROVE  \E f : /\ f[0] = base /\ f[n] = Of(c, base, s)
                /\ \A k \in 1 .. n : f[k] = Op(c, f[k - 1], s[k])
<1> DEFINE D == 1 .. n
           Next(g, T) == IF T = {} THEN base ELSE Op(c, g[T \ {Highest(T)}], s[Highest(T)])
           Up(g, k) == \A T \in SUBSET D : Rank(T) <= k => g[T] = Next(g, T)
           Bad == {k \in Nat : ~ \E g : Up(g, k)}
<1>1. \A T \in SUBSET D : /\ Rank(T) \in 0 .. n
                          /\ T # {} => /\ Rank(T) > 0 /\ Highest(T) \in T /\ \A y \in T : Highest(T) >= y
                                       /\ Rank(T \ {Highest(T)}) < Rank(T)
  BY RankFalls
<1>2. ASSUME Bad # {} PROVE FALSE
  <2>1. PICK k \in Bad : \A j \in Bad : k <= j
    BY <1>2, Least
  <2>2. CASE k = 0
    <3> DEFINE g == [T \in SUBSET D |-> base]
    <3>1. ASSUME NEW T \in SUBSET D, Rank(T) <= 0 PROVE T = {}
      <4>1. Rank(T) \in 0 .. n /\ (T # {} => Rank(T) > 0)
        BY <1>1
      <4> QED  BY <3>1, <4>1
    <3>2. \A T \in SUBSET D : Rank(T) <= 0 => g[T] = Next(g, T)
      BY <3>1
    <3>3. \E f : Up(f, k)
      BY <2>2, <3>2
    <3> QED  BY <2>1, <3>3
  <2>3. CASE k # 0
    <3>1. k - 1 \in Nat /\ ~(k <= k - 1)
      BY <2>1, <2>3
    <3>2. PICK g : Up(g, k - 1)
      BY <2>1, <3>1
    <3> DEFINE h == [T \in SUBSET D |-> IF Rank(T) <= k - 1 THEN g[T] ELSE Next(g, T)]
    <3>3. ASSUME NEW T \in SUBSET D, Rank(T) <= k PROVE h[T] = Next(h, T)
      <4>1. h[T] = Next(g, T)
        BY <3>2
      <4>2. Next(g, T) = Next(h, T)
        <5>1. CASE T = {}
          BY <5>1
        <5>2. CASE T # {}
          <6> DEFINE U == T \ {Highest(T)}
          <6>1. U \in SUBSET D /\ Rank(U) <= k - 1
            <7>1. Rank(U) \in 0 .. n /\ Rank(T) \in 0 .. n /\ Rank(U) < Rank(T)
              BY <1>1, <5>2
            <7>2. k \in Nat
              BY <2>1
            <7>3. Rank(U) <= k - 1
              BY <3>3, <7>1, <7>2
            <7> QED  BY <7>3
          <6>2. h[U] = g[U]
            BY <6>1
          <6> QED  BY <5>2, <6>2
        <5> QED  BY <5>1, <5>2
      <4> QED  BY <4>1, <4>2
    <3>4. Up(h, k)
      BY <3>3
    <3> QED  BY <2>1, <3>4
  <2> QED  BY <2>2, <2>3
<1>3. PICK g0 : Up(g0, n)
  <2>1. n \notin Bad
    BY <1>2
  <2> QED  BY <2>1
<1> DEFINE g == [T \in SUBSET D |-> g0[T]]
<1>4. g = [T \in SUBSET D |-> Next(g, T)]
  <2>1. ASSUME NEW T \in SUBSET D PROVE g0[T] = Next(g, T)
    <3>1. Rank(T) <= n
      <4>1. Rank(T) \in 0 .. n
        BY <1>1
      <4> QED  BY <4>1
    <3>2. g0[T] = Next(g0, T)
      BY <1>3, <3>1
    <3>3. Next(g0, T) = Next(g, T)
      BY <1>1
    <3> QED  BY <3>2, <3>3
  <2> QED  BY <2>1
<1> DEFINE iter == CHOOSE f : f = [T \in SUBSET D |-> Next(f, T)]
<1>5. iter = [T \in SUBSET D |-> Next(iter, T)]
  <2> HIDE DEF g
  <2> QED  BY <1>4
<1>6. Of(c, base, s) = iter[D]
  BY DEF Of
<1> HIDE DEF iter
<1> DEFINE f == [k \in 0 .. n |-> iter[1 .. k]]
<1>7. f[0] = base
  <2>1. 1 .. 0 = {} /\ {} \in SUBSET D
    OBVIOUS
  <2> QED  BY <1>5, <2>1
<1>8. ASSUME NEW k \in 1 .. n PROVE f[k] = Op(c, f[k - 1], s[k])
  <2> DEFINE T == 1 .. k
  <2>1. T \in SUBSET D /\ T # {} /\ k \in T
    <3>1. k \in Nat /\ 1 <= k /\ k <= n
      OBVIOUS
    <3>2. k \in T
      BY <3>1
    <3>3. \A x \in T : x \in D
      BY <3>1
    <3> QED  BY <3>2, <3>3
  <2>2. Highest(T) = k
    <3>1. Highest(T) \in T /\ \A y \in T : Highest(T) >= y
      BY <1>1, <2>1
    <3> QED  BY <2>1, <3>1
  <2>3. T \ {k} = 1 .. (k - 1)
    OBVIOUS
  <2>4. iter[T] = Op(c, iter[T \ {Highest(T)}], s[Highest(T)])
    BY <1>5, <2>1
  <2>5. f[k] = iter[T] /\ f[k - 1] = iter[1 .. (k - 1)]
    OBVIOUS
  <2> QED  BY <2>2, <2>3, <2>4, <2>5
<1>9. f[n] = iter[D]
  OBVIOUS
<1> QED  BY <1>6, <1>7, <1>8, <1>9

LEMMA SeqThrough ==
  ASSUME NEW c, NEW base, NEW S, NEW s \in Seq(S)
  PROVE  \E f : /\ f[0] = base /\ f[Len(s)] = Of(c, base, s)
                /\ \A k \in 1 .. Len(s) : f[k] = Op(c, f[k - 1], s[k])
<1>1. Len(s) \in Nat /\ DOMAIN s = 1 .. Len(s)
  OBVIOUS
<1> QED  BY <1>1, Through

\* What every step keeps, knowing how far the fold has come, the fold keeps.
THEOREM Followed ==
  ASSUME NEW c, NEW d, NEW base, NEW S, NEW s \in Seq(S), Inv(d, [at |-> 0, acc |-> base]),
         \A acc : \A k \in 1 .. Len(s) :
           Inv(d, [at |-> k - 1, acc |-> acc]) => Inv(d, [at |-> k, acc |-> Op(c, acc, s[k])])
  PROVE  Inv(d, [at |-> Len(s), acc |-> Of(c, base, s)])
<1> DEFINE n == Len(s)
<1>1. n \in Nat
  OBVIOUS
<1>2. PICK f : /\ f[0] = base /\ f[n] = Of(c, base, s)
               /\ \A k \in 1 .. n : f[k] = Op(c, f[k - 1], s[k])
  BY SeqThrough
<1> DEFINE Bad == {k \in Nat : k <= n /\ ~Inv(d, [at |-> k, acc |-> f[k]])}
<1>3. ASSUME Bad # {} PROVE FALSE
  <2>1. PICK k \in Bad : \A j \in Bad : k <= j
    BY <1>3, Least
  <2>2. k # 0 /\ k - 1 \in Nat /\ k \in 1 .. n /\ ~(k <= k - 1) /\ k - 1 <= n
    BY <1>1, <1>2, <2>1
  <2>3. Inv(d, [at |-> k - 1, acc |-> f[k - 1]])
    BY <2>1, <2>2
  <2>4. Inv(d, [at |-> k, acc |-> Op(c, f[k - 1], s[k])])
    BY <2>2, <2>3
  <2>5. Inv(d, [at |-> k, acc |-> f[k]])
    BY <1>2, <2>2, <2>4
  <2> QED  BY <2>1, <2>5
<1>4. n \notin Bad
  BY <1>3
<1> QED  BY <1>1, <1>2, <1>4

\* What every step keeps, the fold keeps.
THEOREM Preserved ==
  ASSUME NEW c, NEW d, NEW base, NEW S, NEW s \in Seq(S), Inv(d, base),
         \A acc : \A x \in S : Inv(d, acc) => Inv(d, Op(c, acc, x))
  PROVE  Inv(d, Of(c, base, s))
<1> DEFINE n == Len(s)
<1>1. n \in Nat /\ DOMAIN s = 1 .. n /\ \A k \in 1 .. n : s[k] \in S
  OBVIOUS
<1>2. PICK f : /\ f[0] = base /\ f[n] = Of(c, base, s)
               /\ \A k \in 1 .. n : f[k] = Op(c, f[k - 1], s[k])
  BY <1>1, Through
<1> DEFINE Bad == {k \in Nat : k <= n /\ ~Inv(d, f[k])}
<1>3. ASSUME Bad # {} PROVE FALSE
  <2>1. PICK k \in Bad : \A j \in Bad : k <= j
    BY <1>3, Least
  <2>2. k # 0 /\ k - 1 \in Nat /\ k \in 1 .. n /\ ~(k <= k - 1) /\ k - 1 <= n
    BY <1>1, <1>2, <2>1
  <2>3. Inv(d, f[k - 1])
    BY <2>1, <2>2
  <2>4. Inv(d, f[k])
    BY <1>1, <1>2, <2>2, <2>3
  <2> QED  BY <2>1, <2>4
<1> QED  BY <1>1, <1>2, <1>3

\* Contexts that act alike on every element give the same.
THEOREM Alike ==
  ASSUME NEW c, NEW d, NEW base, NEW S, NEW s \in Seq(S),
         \A acc : \A k \in 1 .. Len(s) : Op(c, acc, s[k]) = Op(d, acc, s[k])
  PROVE  Of(c, base, s) = Of(d, base, s)
<1> PICK n : n = Len(s)
  OBVIOUS
<1>1. n \in Nat
  OBVIOUS
<1>2. PICK f : /\ f[0] = base /\ f[Len(s)] = Of(c, base, s)
               /\ \A k \in 1 .. Len(s) : f[k] = Op(c, f[k - 1], s[k])
  BY SeqThrough
<1>3. PICK g : /\ g[0] = base /\ g[Len(s)] = Of(d, base, s)
               /\ \A k \in 1 .. Len(s) : g[k] = Op(d, g[k - 1], s[k])
  BY SeqThrough
<1> DEFINE Bad == {k \in Nat : k <= n /\ f[k] # g[k]}
<1>4. ASSUME Bad # {} PROVE FALSE
  <2>1. PICK k \in Bad : \A j \in Bad : k <= j
    BY <1>4, Least
  <2>2. k # 0 /\ k - 1 \in Nat /\ k \in 1 .. n /\ ~(k <= k - 1) /\ k - 1 <= n
    BY <1>1, <1>2, <1>3, <2>1
  <2>3. f[k - 1] = g[k - 1]
    BY <2>1, <2>2
  <2>4. f[k] = Op(c, f[k - 1], s[k]) /\ g[k] = Op(d, g[k - 1], s[k])
    BY <1>1, <1>2, <1>3, <2>2
  <2>5. f[k] = g[k]
    BY <1>1, <2>2, <2>3, <2>4
  <2> QED  BY <2>1, <2>5
<1>5. f[n] = g[n]
  BY <1>1, <1>4
<1> QED  BY <1>2, <1>3, <1>5

\* The last element comes last.
THEOREM Appended ==
  ASSUME NEW c, NEW base, NEW S, NEW s \in Seq(S), NEW x \in S
  PROVE  Of(c, base, Append(s, x)) = Op(c, Of(c, base, s), x)
<1> PICK u : u = Append(s, x)
  OBVIOUS
<1> PICK n : n = Len(s)
  OBVIOUS
<1>1. /\ n \in Nat /\ u \in Seq(S) /\ Len(u) = n + 1 /\ u[n + 1] = x
      /\ \A k \in 1 .. n : u[k] = s[k]
  OBVIOUS
<1>2. PICK f : /\ f[0] = base /\ f[Len(s)] = Of(c, base, s)
               /\ \A k \in 1 .. Len(s) : f[k] = Op(c, f[k - 1], s[k])
  BY SeqThrough
<1>3. PICK g : /\ g[0] = base /\ g[Len(u)] = Of(c, base, u)
               /\ \A k \in 1 .. Len(u) : g[k] = Op(c, g[k - 1], u[k])
  <2>1. u \in Seq(S)
    BY <1>1
  <2> QED  BY ONLY <2>1, SeqThrough
<1> DEFINE Bad == {k \in Nat : k <= n /\ f[k] # g[k]}
<1>4. ASSUME Bad # {} PROVE FALSE
  <2>1. PICK k \in Bad : \A j \in Bad : k <= j
    BY <1>4, Least
  <2>2. k # 0 /\ k - 1 \in Nat /\ k \in 1 .. n /\ k \in 1 .. (n + 1) /\ ~(k <= k - 1) /\ k - 1 <= n
    BY <1>1, <1>2, <1>3, <2>1
  <2>3. f[k - 1] = g[k - 1]
    BY <2>1, <2>2
  <2>4. f[k] = Op(c, f[k - 1], s[k]) /\ g[k] = Op(c, g[k - 1], u[k])
    BY <1>1, <1>2, <1>3, <2>2
  <2>5. f[k] = g[k]
    BY <1>1, <2>2, <2>3, <2>4
  <2> QED  BY <2>1, <2>5
<1>5. f[n] = g[n]
  BY <1>1, <1>4
<1>6. n + 1 \in 1 .. (n + 1) /\ n + 1 - 1 = n
  BY <1>1
<1>7. g[n + 1] = Op(c, g[n], u[n + 1])
  <2>1. g[n + 1] = Op(c, g[n + 1 - 1], u[n + 1])
    BY <1>1, <1>3, <1>6
  <2> QED  BY <1>6, <2>1
<1>8. g[n + 1] = Of(c, base, u) /\ f[n] = Of(c, base, s)
  BY <1>1, <1>2, <1>3
<1> QED  BY <1>1, <1>5, <1>7, <1>8
=============================================================================
