-------------------------------- MODULE Counting --------------------------------
(***************************************************************************)
(* Facts about numbers, finite sets, sequences of sequences, and values    *)
(* computed step by step or by recursion, that the proofs of several       *)
(* components rest on.                                                     *)
(***************************************************************************)
EXTENDS Integers, FiniteSetsExt, SequencesExt, FiniteSetTheorems, SequenceTheorems, WellFoundedInduction,
        TLAPS

(* A set of natural numbers has a least element, and one with an upper     *)
(* bound a greatest: what Min and Max choose exists.  The intervals up to  *)
(* its elements are finite sets, and inclusion is well founded on those.   *)
LEMMA MinIsLeast ==
  ASSUME NEW S \in SUBSET Nat, S # {}
  PROVE  Min(S) \in S /\ \A y \in S : Min(S) <= y
<1> DEFINE T == {0 .. k : k \in S}
           R == StrictSubsetOrdering(Nat)
           F == FiniteSubsetsOf(Nat)
<1>1. T \subseteq F /\ T # {}
  <2>1. \A k \in S : IsFiniteSet(0 .. k) /\ 0 .. k \in SUBSET Nat
    <3> TAKE k \in S
    <3>1. IsFiniteSet(0 .. k)
      BY FS_Interval
    <3> QED BY <3>1
  <2> QED BY <2>1 DEF FiniteSubsetsOf
<1>2. PICK x \in T : \A y \in T : <<y, x>> \notin R
  <2>1. IsWellFoundedOn(R, F)
    BY FS_StrictSubsetOrderingWellFounded
  <2> HIDE DEF R, F, T
  <2> QED BY <1>1, <2>1, WFMin
<1>3. PICK m \in S : x = 0 .. m
  BY <1>2
<1>4. ASSUME NEW y \in S PROVE m <= y
  <2>1. SUFFICES ASSUME y < m PROVE FALSE
    OBVIOUS
  <2>2. 0 .. y \subseteq x /\ 0 .. y # x /\ x \subseteq Nat
    BY <1>3, <2>1
  <2>3. 0 .. y \in T
    OBVIOUS
  <2>4. <<0 .. y, x>> \in R
    BY <2>2 DEF StrictSubsetOrdering
  <2> QED BY <1>2, <2>3, <2>4
<1> QED BY <1>4 DEF Min

LEMMA MaxIsGreatest ==
  ASSUME NEW S \in SUBSET Nat, S # {}, NEW b \in Nat, \A y \in S : y <= b
  PROVE  Max(S) \in S /\ \A y \in S : Max(S) >= y
<1> DEFINE T == {n \in Nat : b - n \in S}
<1>1. T # {} /\ T \in SUBSET Nat
  <2>1. PICK y \in S : TRUE
    OBVIOUS
  <2>2. b - y \in Nat /\ b - (b - y) = y
    OBVIOUS
  <2> QED BY <2>1, <2>2
<1>2. Min(T) \in T /\ \A n \in T : Min(T) <= n
  <2> HIDE DEF T
  <2> QED BY <1>1, MinIsLeast
<1>3. b - Min(T) \in S /\ \A y \in S : b - Min(T) >= y
  <2>1. \A y \in S : b - y \in T
    OBVIOUS
  <2> QED BY <1>2, <2>1
<1> QED BY <1>3 DEF Max

-----------------------------------------------------------------------------

(* Induction up to a number, with a set in place of a predicate.           *)
LEMMA UpTo ==
  ASSUME NEW n \in Nat, NEW T, 0 \in T, \A i \in 1 .. n : i - 1 \in T => i \in T
  PROVE  0 .. n \subseteq T
<1> DEFINE D == {i \in 0 .. n : i \notin T}
<1>1. SUFFICES ASSUME D # {} PROVE FALSE
  OBVIOUS
<1>2. D \in SUBSET Nat
  OBVIOUS
<1>3. Min(D) \in D /\ \A y \in D : Min(D) <= y
  <2> HIDE DEF D
  <2> QED BY <1>1, <1>2, MinIsLeast
<1> DEFINE m == Min(D)
<1> HIDE DEF m
<1>4. m \in 0 .. n /\ m \notin T /\ \A y \in 0 .. n : y \notin T => m <= y
  BY <1>3 DEF m
<1>5. m \in 1 .. n /\ m - 1 \in 0 .. n
  BY <1>4
<1>6. m - 1 \in T
  BY <1>4, <1>5
<1> QED BY <1>4, <1>5, <1>6

(* A value computed step by step exists: what the recursive functions of   *)
(* the model stand for.                                                    *)
Computes(f, S, base, n, step) ==
    f \in [0 .. n -> S] /\ f[0] = base /\ \A i \in 1 .. n : f[i] = step[i][f[i - 1]]

LEMMA StepsExist ==
  ASSUME NEW S, NEW base \in S, NEW n \in Nat, NEW step \in [1 .. n -> [S -> S]]
  PROVE  \E f : Computes(f, S, base, n, step)
<1> DEFINE T == {k \in 0 .. n : \E f : Computes(f, S, base, k, step)}
<1>1. 0 \in T
  <2> DEFINE f == [i \in 0 .. 0 |-> base]
  <2>1. f \in [0 .. 0 -> S] /\ f[0] = base /\ \A i \in 1 .. 0 : f[i] = step[i][f[i - 1]]
    OBVIOUS
  <2>2. Computes(f, S, base, 0, step) /\ 0 \in 0 .. n
    BY <2>1 DEF Computes
  <2> HIDE DEF f
  <2> QED BY <2>2
<1>2. ASSUME NEW k \in 1 .. n, k - 1 \in T PROVE k \in T
  <2>1. PICK f : Computes(f, S, base, k - 1, step)
    BY <1>2
  <2> DEFINE g == [i \in 0 .. k |-> IF i = k THEN step[k][f[k - 1]] ELSE f[i]]
  <2>2. f \in [0 .. k - 1 -> S] /\ f[0] = base /\ \A i \in 1 .. k - 1 : f[i] = step[i][f[i - 1]]
    BY <2>1 DEF Computes
  <2>3. f[k - 1] \in S /\ step[k][f[k - 1]] \in S
    BY <2>2
  <2>4. \A i \in 0 .. k : i # k => i \in 0 .. k - 1 /\ g[i] = f[i]
    OBVIOUS
  <2>5. g \in [0 .. k -> S] /\ g[0] = base /\ g[k] = step[k][f[k - 1]]
    BY <2>2, <2>3, <2>4
  <2>6. ASSUME NEW i \in 1 .. k PROVE g[i] = step[i][g[i - 1]]
    <3>1. i - 1 \in 0 .. k - 1 /\ g[i - 1] = f[i - 1]
      OBVIOUS
    <3> QED BY <2>2, <2>4, <2>5, <3>1
  <2> HIDE DEF g
  <2>7. Computes(g, S, base, k, step)
    BY <2>5, <2>6 DEF Computes
  <2>8. k \in 0 .. n
    OBVIOUS
  <2> QED BY <2>7, <2>8
<1> HIDE DEF T
<1>3. 0 .. n \subseteq T
  BY <1>1, <1>2, UpTo
<1>4. n \in T
  BY <1>3
<1> QED BY <1>4 DEF T

(* The value at a step is one of the set, and the one before as well.      *)
LEMMA ComputedStep ==
  ASSUME NEW f, NEW S, NEW base, NEW n \in Nat, NEW step, Computes(f, S, base, n, step),
         NEW i \in 1 .. n
  PROVE  f[i - 1] \in S /\ f[i] \in S /\ f[i] = step[i][f[i - 1]]
<1>1. i - 1 \in 0 .. n /\ i \in 0 .. n
  OBVIOUS
<1> QED BY <1>1 DEF Computes

(* A computation that goes on is the same as far as it had gone, and one   *)
(* that never ends exists too.                                             *)
LEMMA StepsAgree ==
  ASSUME NEW f, NEW g, NEW S, NEW base, NEW step, NEW n \in Nat, NEW m \in Nat, n <= m,
         Computes(f, S, base, n, step), Computes(g, S, base, m, step)
  PROVE  \A i \in 0 .. n : f[i] = g[i]
<1> DEFINE T == {i \in 0 .. n : f[i] = g[i]}
<1>1. 0 \in T
  BY DEF Computes
<1>2. ASSUME NEW i \in 1 .. n, i - 1 \in T PROVE i \in T
  <2>1. i \in 1 .. m /\ f[i - 1] = g[i - 1]
    BY <1>2
  <2>2. f[i] = step[i][f[i - 1]] /\ g[i] = step[i][g[i - 1]]
    BY <2>1 DEF Computes
  <2> QED BY <2>1, <2>2
<1> HIDE DEF T
<1>3. 0 .. n \subseteq T
  BY <1>1, <1>2, UpTo
<1> QED BY <1>3 DEF T

GoesOn(f, S, base, step) ==
    f \in [Nat -> S] /\ f[0] = base /\ \A i \in Nat \ {0} : f[i] = step[i][f[i - 1]]

LEMMA StepsForever ==
  ASSUME NEW S, NEW base \in S, NEW step \in [Nat -> [S -> S]]
  PROVE  \E f : GoesOn(f, S, base, step)
<1> DEFINE upTo(n) == CHOOSE f : Computes(f, S, base, n, step)
           f == [n \in Nat |-> upTo(n)[n]]
<1>1. ASSUME NEW n \in Nat PROVE Computes(upTo(n), S, base, n, step)
  <2> DEFINE some == [i \in 1 .. n |-> step[i]]
  <2>1. some \in [1 .. n -> [S -> S]] /\ \A i \in 1 .. n : some[i] = step[i]
    OBVIOUS
  <2> HIDE DEF some
  <2>2. PICK g : Computes(g, S, base, n, some)
    BY <2>1, StepsExist
  <2>3. Computes(g, S, base, n, step)
    BY <2>1, <2>2 DEF Computes
  <2> QED BY <2>3
<1> HIDE DEF upTo
<1>2. ASSUME NEW n \in Nat PROVE upTo(n)[n] \in S
  BY <1>1 DEF Computes
<1>3. upTo(0)[0] = base
  BY <1>1 DEF Computes
<1>4. ASSUME NEW n \in Nat \ {0} PROVE upTo(n)[n] = step[n][upTo(n - 1)[n - 1]]
  <2>1. n \in 1 .. n /\ n - 1 \in Nat /\ n - 1 <= n /\ n - 1 \in 0 .. n - 1
    OBVIOUS
  <2>2. upTo(n)[n] = step[n][upTo(n)[n - 1]]
    BY <1>1, <2>1 DEF Computes
  <2>3. upTo(n - 1)[n - 1] = upTo(n)[n - 1]
    BY <1>1, <2>1, StepsAgree
  <2> QED BY <2>2, <2>3
<1>5. f \in [Nat -> S] /\ f[0] = base
  BY <1>2, <1>3
<1>6. ASSUME NEW n \in Nat \ {0} PROVE f[n] = step[n][f[n - 1]]
  <2>1. n \in Nat /\ n - 1 \in Nat
    OBVIOUS
  <2> QED BY <1>4, <2>1
<1> HIDE DEF f
<1>7. GoesOn(f, S, base, step)
  BY <1>5, <1>6 DEF GoesOn
<1> QED BY <1>7

-----------------------------------------------------------------------------

(* Where each of the sequences starts in all of them one after another.    *)
Offsets(off, seqs) ==
    /\ off \in [0 .. Len(seqs) -> Nat] /\ off[0] = 0
    /\ \A i \in 1 .. Len(seqs) : off[i] = off[i - 1] + Len(seqs[i])

LEMMA OffsetsExist ==
  ASSUME NEW S, NEW seqs \in Seq(Seq(S))
  PROVE  \E off : Offsets(off, seqs)
<1> DEFINE n == Len(seqs)
           step == [i \in 1 .. n |-> [at \in Nat |-> at + Len(seqs[i])]]
           N == Nat
<1>1. n \in Nat /\ \A i \in 1 .. n : Len(seqs[i]) \in Nat
  OBVIOUS
<1>2. 0 \in N /\ step \in [1 .. n -> [N -> N]]
  BY <1>1
<1>3. \E f : Computes(f, N, 0, n, step)
  <2> HIDE DEF n, step, N
  <2> QED BY <1>1, <1>2, StepsExist
<1>4. PICK f : Computes(f, N, 0, n, step)
  BY <1>3
<1>5. ASSUME NEW i \in 1 .. n PROVE f[i] = f[i - 1] + Len(seqs[i])
  <2>1. f[i - 1] \in N /\ f[i] = step[i][f[i - 1]]
    <3> HIDE DEF n, step, N
    <3> QED BY <1>1, <1>4, ComputedStep
  <2> QED BY <2>1
<1>6. f \in [0 .. n -> Nat] /\ f[0] = 0
  BY <1>4 DEF Computes
<1> QED BY <1>5, <1>6 DEF Offsets

(* What a sequence of sequences becomes: each of its elements stands at    *)
(* its place after the offset, and nothing else is in it.                  *)
Flat(flat, off, seqs, m) ==
    /\ Len(flat) = off[m]
    /\ \A i \in 1 .. m : \A k \in 1 .. Len(seqs[i]) :
          off[i - 1] + k \in 1 .. Len(flat) /\ flat[off[i - 1] + k] = seqs[i][k]
    /\ \A p \in 1 .. Len(flat) : \E i \in 1 .. m : \E k \in 1 .. Len(seqs[i]) : p = off[i - 1] + k

LEMMA FlatStep ==
  ASSUME NEW S, NEW seqs \in Seq(Seq(S)), NEW off, Offsets(off, seqs),
         NEW m \in 1 .. Len(seqs), NEW flat \in Seq(S), Flat(flat, off, seqs, m - 1)
  PROVE  flat \o seqs[m] \in Seq(S) /\ Flat(flat \o seqs[m], off, seqs, m)
<1> DEFINE last == seqs[m]
           all == flat \o last
<1>1. last \in Seq(S) /\ Len(last) \in Nat /\ Len(flat) \in Nat
  OBVIOUS
<1>0. Len(last) \in Nat /\ Len(flat) \in Nat
  BY <1>1
<1>2. /\ all \in Seq(S) /\ Len(all) = Len(flat) + Len(last)
      /\ \A i \in 1 .. Len(flat) + Len(last) :
            all[i] = IF i <= Len(flat) THEN flat[i] ELSE last[i - Len(flat)]
  <2> HIDE DEF last
  <2> QED BY <1>1, ConcatProperties
<1>3. off[m] = off[m - 1] + Len(last) /\ Len(flat) = off[m - 1]
  BY DEF Offsets, Flat
<1> DEFINE at == off[m - 1]
<1> HIDE DEF all, at
<1>7. \A i \in 1 .. Len(flat) + Len(last) :
         all[i] = IF i <= Len(flat) THEN flat[i] ELSE last[i - Len(flat)]
  BY <1>2
<1>4. ASSUME NEW i \in 1 .. m, NEW k \in 1 .. Len(seqs[i])
      PROVE  off[i - 1] + k \in 1 .. Len(all) /\ all[off[i - 1] + k] = seqs[i][k]
  <2>1. CASE i = m
    <3>1. k \in 1 .. Len(last) /\ off[i - 1] = at /\ Len(flat) = at
      BY <1>3, <2>1 DEF at
    <3> HIDE DEF last
    <3> DEFINE p == at + k
    <3>2. p \in 1 .. Len(flat) + Len(last) /\ ~(p <= Len(flat)) /\ p - Len(flat) = k
      <4> DEFINE u == Len(flat)
                 w == Len(last)
      <4>1. u \in Nat /\ w \in Nat /\ k \in 1 .. w /\ u = at
        BY <1>0, <3>1
      <4> HIDE DEF u, w
      <4>2. p \in 1 .. u + w /\ ~(p <= u) /\ p - u = k
        BY <4>1
      <4> QED BY <4>2 DEF u, w
    <3> HIDE DEF p
    <3>3. all[p] = IF p <= Len(flat) THEN flat[p] ELSE last[p - Len(flat)]
      BY <1>7, <3>2, Zenon
    <3>4. p \in 1 .. Len(all) /\ all[p] = last[k]
      BY <1>2, <3>2, <3>3
    <3> QED BY <2>1, <3>1, <3>4 DEF p, last
  <2>2. CASE i # m
    <3>1. i \in 1 .. m - 1
      BY <2>2
    <3>2. off[i - 1] + k \in 1 .. Len(flat) /\ flat[off[i - 1] + k] = seqs[i][k]
      BY <1>4, <3>1 DEF Flat
    <3> DEFINE q == off[i - 1] + k
    <3>5. q \in 1 .. Len(flat)
      BY <3>2
    <3> HIDE DEF q, last
    <3>6. q \in 1 .. Len(flat) + Len(last)
      BY <1>0, <3>5
    <3>3. q <= Len(flat)
      <4> DEFINE u == Len(flat)
      <4>1. u \in Nat /\ q \in 1 .. u
        BY <1>0, <3>5
      <4> HIDE DEF u
      <4>2. q <= u
        BY <4>1
      <4> QED BY <4>2 DEF u
    <3>4. all[q] = flat[q] /\ q \in 1 .. Len(all)
      BY <1>2, <1>7, <3>3, <3>6
    <3> QED BY <3>2, <3>4 DEF q
  <2> QED BY <2>1, <2>2
<1>5. ASSUME NEW p \in 1 .. Len(all)
      PROVE  \E i \in 1 .. m : \E k \in 1 .. Len(seqs[i]) : p = off[i - 1] + k
  <2>1. CASE p \in 1 .. Len(flat)
    <3>1. PICK i \in 1 .. m - 1 : \E k \in 1 .. Len(seqs[i]) : p = off[i - 1] + k
      BY <2>1 DEF Flat
    <3>2. i \in 1 .. m
      OBVIOUS
    <3> QED BY <3>1, <3>2
  <2>2. CASE ~(p \in 1 .. Len(flat))
    <3> DEFINE k == p - at
    <3>1. Len(flat) = at
      BY <1>3 DEF at
    <3>2. m \in 1 .. m
      OBVIOUS
    <3> HIDE DEF last
    <3>3. k \in 1 .. Len(last) /\ p = at + k
      BY <1>1, <1>2, <2>2, <3>1
    <3> HIDE DEF k
    <3> QED BY <3>2, <3>3 DEF last, at
  <2> QED BY <2>1, <2>2
<1> HIDE DEF last
<1>6. Flat(all, off, seqs, m)
  BY <1>2, <1>3, <1>4, <1>5 DEF Flat
<1> QED BY <1>2, <1>6 DEF all, last

LEMMA FlattenFacts ==
  ASSUME NEW S, NEW seqs \in Seq(Seq(S)), NEW off, Offsets(off, seqs)
  PROVE  FlattenSeq(seqs) \in Seq(S) /\ Flat(FlattenSeq(seqs), off, seqs, Len(seqs))
<1> DEFINE n == Len(seqs)
<1>1. n \in Nat /\ \A i \in 1 .. n : seqs[i] \in Seq(S)
  OBVIOUS
<1>2. CASE n = 0
  <2>1. seqs = <<>>
    BY <1>2
  <2>2. FlattenSeq(seqs) = <<>>
    BY <1>2, <2>1 DEF FlattenSeq
  <2>3. off[0] = 0 /\ Len(seqs) = 0 /\ Len(FlattenSeq(seqs)) = 0
    BY <1>2, <2>2 DEF Offsets
  <2>4. FlattenSeq(seqs) \in Seq(S)
    BY <2>2
  <2> QED BY <2>3, <2>4 DEF Flat
<1>3. CASE n # 0
  <2> DEFINE Eq(f) == f = [i \in 1 .. n |-> IF i = 1 THEN seqs[i] ELSE f[i - 1] \o seqs[i]]
             flatten == CHOOSE f : Eq(f)
             step == [i \in 1 .. n |-> [s \in Seq(S) |-> s \o seqs[i]]]
  <2>1. \E f : Eq(f)
    <3> DEFINE Q == Seq(S)
    <3>1. <<>> \in Q /\ step \in [1 .. n -> [Q -> Q]]
      <4>1. \A s \in Seq(S), t \in Seq(S) : s \o t \in Seq(S)
        BY ConcatProperties
      <4> QED BY <1>1, <4>1
    <3>2. \E f : Computes(f, Q, <<>>, n, step)
      <4> HIDE DEF n, step, Q
      <4> QED BY <1>1, <3>1, StepsExist
    <3>3. PICK f : Computes(f, Q, <<>>, n, step)
      BY <3>2
    <3>4. ASSUME NEW i \in 1 .. n PROVE f[i] = f[i - 1] \o seqs[i]
      <4>1. f[i - 1] \in Q /\ f[i] = step[i][f[i - 1]]
        <5> HIDE DEF n, step, Q
        <5> QED BY <1>1, <3>3, ComputedStep
      <4> QED BY <4>1
    <3>5. f[0] = <<>> /\ 1 \in 1 .. n
      BY <1>1, <1>3, <3>3 DEF Computes
    <3>6. f[1] = seqs[1]
      <4>1. f[1] = <<>> \o seqs[1] /\ seqs[1] \in Seq(S)
        <5> HIDE DEF n
        <5>1. f[1] = f[1 - 1] \o seqs[1]
          BY <3>4, <3>5
        <5>2. 1 - 1 = 0
          OBVIOUS
        <5>3. seqs[1] \in Seq(S)
          BY <1>1, <3>5
        <5> QED BY <3>5, <5>1, <5>2, <5>3, Zenon
      <4> QED BY <4>1, ConcatEmptySeq
    <3> DEFINE g == [i \in 1 .. n |-> f[i]]
    <3>7. \A i \in 1 .. n : i # 1 => i - 1 \in 1 .. n
      OBVIOUS
    <3>8. \A i \in 1 .. n : f[i] = IF i = 1 THEN seqs[i] ELSE g[i - 1] \o seqs[i]
      BY <3>4, <3>6, <3>7
    <3>9. Eq(g)
      BY <3>8
    <3> QED BY <3>9
  <2>2. Eq(flatten)
    <3> HIDE DEF Eq
    <3> QED BY <2>1
  <2>3. FlattenSeq(seqs) = flatten[n]
    BY <1>3 DEF FlattenSeq
  <2> HIDE DEF flatten
  <2>4. flatten[1] = seqs[1] /\ \A i \in 2 .. n : flatten[i] = flatten[i - 1] \o seqs[i]
    <3>1. \A i \in 1 .. n :
             flatten[i] = IF i = 1 THEN seqs[i] ELSE flatten[i - 1] \o seqs[i]
      <4>1. flatten = [i \in 1 .. n |-> IF i = 1 THEN seqs[i] ELSE flatten[i - 1] \o seqs[i]]
        BY <2>2
      <4> QED BY <4>1
    <3>2. 1 \in 1 .. n /\ \A i \in 2 .. n : i \in 1 .. n /\ i # 1
      BY <1>1, <1>3
    <3> HIDE DEF n
    <3> QED BY <3>1, <3>2, Zenon
  <2> DEFINE T == {m \in 0 .. n : m # 0 => flatten[m] \in Seq(S) /\ Flat(flatten[m], off, seqs, m)}
  <2>5. 0 \in T
    BY <1>1
  <2>6. ASSUME NEW m \in 1 .. n, m - 1 \in T PROVE m \in T
    <3>1. CASE m = 1
      <4>0. 1 \in 1 .. Len(seqs) /\ <<>> \in Seq(S)
        BY <1>1, <1>3
      <4>1. Flat(<<>>, off, seqs, 1 - 1)
        BY DEF Flat, Offsets
      <4>2. <<>> \o seqs[1] = seqs[1]
        BY <1>1, <3>1, ConcatEmptySeq
      <4>3. <<>> \o seqs[1] \in Seq(S) /\ Flat(<<>> \o seqs[1], off, seqs, 1)
        BY <4>0, <4>1, FlatStep
      <4> QED BY <2>4, <3>1, <4>2, <4>3
    <3>2. CASE m # 1
      <4>1. m \in 2 .. n /\ m - 1 # 0 /\ m \in 1 .. Len(seqs)
        BY <3>2
      <4>2. flatten[m - 1] \in Seq(S) /\ Flat(flatten[m - 1], off, seqs, m - 1)
        BY <2>6, <4>1
      <4>3. flatten[m] = flatten[m - 1] \o seqs[m]
        BY <2>4, <4>1
      <4>4. flatten[m] \in Seq(S) /\ Flat(flatten[m], off, seqs, m)
        BY <4>1, <4>2, <4>3, FlatStep
      <4> QED BY <4>4
    <3> QED BY <3>1, <3>2
  <2>7. n \in T
    <3> HIDE DEF T, n
    <3>1. 0 .. n \subseteq T
      BY <1>1, <2>5, <2>6, UpTo
    <3> QED BY <1>1, <3>1
  <2> QED BY <1>3, <2>3, <2>7
<1> QED BY <1>2, <1>3

-----------------------------------------------------------------------------

(* A set whose elements are counted off, in order, by the numbers up to n  *)
(* has n elements.                                                         *)
LEMMA CountedOff ==
  ASSUME NEW n \in Nat, NEW S, NEW g \in [1 .. n -> S],
         \A k \in 1 .. n : g[k] \in Int,
         \A i, j \in 1 .. n : i < j => g[i] < g[j],
         \A x \in S : \E k \in 1 .. n : g[k] = x
  PROVE  Cardinality(S) = n
<1>1. g \in Injection(1 .. n, S)
  BY DEF Injection, IsInjective
<1>2. g \in Surjection(1 .. n, S)
  BY DEF Surjection
<1>3. ExistsBijection(1 .. n, S)
  BY <1>1, <1>2 DEF ExistsBijection, Bijection
<1> QED BY <1>3, FS_CountingElements

(* A set that has an element of its own for each number from a to b.       *)
LEMMA OneLabelEach ==
  ASSUME NEW S, IsFiniteSet(S), NEW a \in Int, NEW b \in Int, NEW f \in [a .. b -> S],
         \A i, j \in a .. b : i < j => f[i] # f[j]
  PROVE  Cardinality(S) \in Nat /\ (a <= b => b - a + 1 <= Cardinality(S))
<1>1. \A i, j \in a .. b : f[i] = f[j] => i = j
  OBVIOUS
<1>2. f \in Injection(a .. b, S)
  BY <1>1 DEF Injection, IsInjective
<1>3. Cardinality(a .. b) <= Cardinality(S)
  BY <1>2, FS_Injection
<1>4. Cardinality(a .. b) = IF a > b THEN 0 ELSE b - a + 1
  BY FS_Interval
<1>5. Cardinality(S) \in Nat
  BY FS_CardinalityType
<1> QED BY <1>3, <1>4, <1>5

-----------------------------------------------------------------------------

(* Quotient and remainder, and that only one pair of them makes a number.  *)
LEMMA DivMod ==
  ASSUME NEW a \in Nat, NEW n \in Nat \ {0}
  PROVE  a \div n \in Nat /\ a % n \in 0 .. n - 1 /\ a = (a \div n) * n + (a % n)
<1>1. a \div n \in Int /\ a % n \in 0 .. n - 1
  OBVIOUS
<1>2. a = (a \div n) * n + (a % n)
  OBVIOUS
<1>3. a \div n \in Nat
  OBVIOUS
<1> QED BY <1>1, <1>2, <1>3

LEMMA OneWay ==
  ASSUME NEW n \in Nat \ {0}, NEW g \in Nat, NEW h \in Nat, NEW i \in 1 .. n, NEW j \in 1 .. n,
         g * n + i = h * n + j
  PROVE  g = h /\ i = j
<1>1. CASE g < h
  <2>1. (g + 1) * n <= h * n
    BY <1>1
  <2> QED BY <2>1
<1>2. CASE h < g
  <2>1. (h + 1) * n <= g * n
    BY <1>2
  <2> QED BY <2>1
<1> QED BY <1>1, <1>2

-----------------------------------------------------------------------------

(* Induction over a set whose elements have a depth: what holds of one if  *)
(* it holds of all that are less deep holds of all.                        *)
LEMMA DepthInduction ==
  ASSUME NEW M, NEW depth \in [M -> Nat], NEW P,
         \A m \in M : (\A s \in M : depth[s] < depth[m] => s \in P) => m \in P
  PROVE  M \subseteq P
<1> DEFINE D == {depth[m] : m \in {s \in M : s \notin P}}
<1>1. SUFFICES ASSUME D # {} PROVE FALSE
  OBVIOUS
<1>2. D \in SUBSET Nat
  OBVIOUS
<1>3. Min(D) \in D /\ \A d \in D : Min(D) <= d
  <2> HIDE DEF D
  <2> QED BY <1>1, <1>2, MinIsLeast
<1>4. PICK m \in M : m \notin P /\ depth[m] = Min(D)
  BY <1>3
<1>5. ASSUME NEW s \in M, depth[s] < depth[m] PROVE s \in P
  <2>1. SUFFICES ASSUME s \notin P PROVE FALSE
    OBVIOUS
  <2>2. depth[s] \in D /\ depth[s] \in Nat /\ depth[m] \in Nat
    BY <2>1
  <2> HIDE DEF D
  <2>3. depth[m] <= depth[s]
    BY <1>3, <1>4, <2>2
  <2> QED BY <1>5, <2>2, <2>3
<1> QED BY <1>4, <1>5

(* A function defined by recursion exists if its value at an element only  *)
(* depends on the values at those that are less deep.                      *)
Selections(M, U, R) == {f \in [M -> U] : \A m \in M : f[m] \in R[m]}
Recursive(G, F, M, depth) ==
    \A f \in F, g \in F : \A m \in M :
        (\A s \in M : depth[s] < depth[m] => f[s] = g[s]) => G[f][m] = G[g][m]

LEMMA RecursionExists ==
  ASSUME NEW M, NEW depth \in [M -> Nat], NEW U, NEW R, NEW F, F = Selections(M, U, R),
         NEW G \in [F -> F], NEW base \in F, Recursive(G, F, M, depth)
  PROVE  \E f \in F : \A m \in M : f[m] = G[f][m]
<1> DEFINE step == [n \in Nat |-> G]
<1>1. PICK h : GoesOn(h, F, base, step)
  <2>1. step \in [Nat -> [F -> F]]
    OBVIOUS
  <2> HIDE DEF step
  <2> QED BY <2>1, StepsForever
<1>2. h \in [Nat -> F] /\ \A i \in Nat \ {0} : i - 1 \in Nat /\ h[i] = G[h[i - 1]]
  <2>1. \A i \in Nat \ {0} : i - 1 \in Nat /\ step[i] = G
    OBVIOUS
  <2> HIDE DEF step
  <2> QED BY <1>1, <2>1 DEF GoesOn
<1> HIDE DEF step
<1> DEFINE P == {m \in M : \A i \in Nat, j \in Nat : i > depth[m] /\ j > depth[m] => h[i][m] = h[j][m]}
<1>3. M \subseteq P
  <2>1. ASSUME NEW m \in M, \A s \in M : depth[s] < depth[m] => s \in P PROVE m \in P
    <3>1. SUFFICES ASSUME NEW i \in Nat, NEW j \in Nat, i > depth[m], j > depth[m]
                   PROVE  h[i][m] = h[j][m]
      OBVIOUS
    <3>2. i \in Nat \ {0} /\ j \in Nat \ {0} /\ depth[m] \in Nat
      BY <3>1
    <3>3. ASSUME NEW s \in M, depth[s] < depth[m] PROVE h[i - 1][s] = h[j - 1][s]
      <4>1. s \in P /\ i - 1 > depth[s] /\ j - 1 > depth[s] /\ i - 1 \in Nat /\ j - 1 \in Nat
        BY <2>1, <3>1, <3>2, <3>3
      <4> QED BY <4>1
    <3>4. h[i - 1] \in F /\ h[j - 1] \in F
      BY <1>2, <3>2
    <3>5. G[h[i - 1]][m] = G[h[j - 1]][m]
      BY <3>3, <3>4 DEF Recursive
    <3> QED BY <1>2, <3>2, <3>5
  <2> HIDE DEF P
  <2> QED BY <2>1, DepthInduction
<1> DEFINE f == [m \in M |-> h[depth[m] + 1][m]]
<1>4. ASSUME NEW m \in M PROVE depth[m] \in Nat /\ depth[m] + 1 \in Nat \ {0} /\ h[depth[m] + 1] \in F
  BY <1>2
<1>5. f \in F
  <2>1. ASSUME NEW m \in M PROVE f[m] \in U /\ f[m] \in R[m]
    BY <1>4 DEF Selections
  <2> QED BY <2>1 DEF Selections
<1>6. ASSUME NEW m \in M PROVE f[m] = G[f][m]
  <2> DEFINE d == depth[m]
  <2>1. d \in Nat /\ d + 1 \in Nat \ {0} /\ (d + 1) - 1 = d
    BY <1>4
  <2>2. ASSUME NEW s \in M, depth[s] < depth[m] PROVE f[s] = h[d][s]
    <3>1. s \in P /\ d \in Nat /\ depth[s] \in Nat /\ depth[s] + 1 \in Nat
      BY <1>3, <1>4
    <3>2. depth[s] + 1 > depth[s] /\ d > depth[s]
      BY <2>2, <3>1
    <3> QED BY <3>1, <3>2
  <2>3. h[d] \in F
    BY <1>2, <2>1
  <2> HIDE DEF f
  <2>4. G[f][m] = G[h[d]][m]
    BY <1>5, <2>2, <2>3 DEF Recursive
  <2>5. h[d + 1] = G[h[d]]
    BY <1>2, <2>1
  <2> QED BY <2>4, <2>5 DEF f
<1> HIDE DEF f
<1> QED BY <1>5, <1>6
-----------------------------------------------------------------------------

(* A sum over a finite set is the same whatever the order it is taken in.  *)
Folded(iter, f, S) ==
    /\ iter \in [SUBSET S -> Nat] /\ iter[{}] = 0
    /\ \A s \in SUBSET S : s # {} =>
          LET x == CHOOSE x \in s : TRUE IN iter[s] = f[x] + iter[s \ {x}]

LEMMA SumFolds ==
  ASSUME NEW S, IsFiniteSet(S), NEW f \in [S -> Nat]
  PROVE  \E iter : Folded(iter, f, S) /\ SumFunction(f) = iter[S]
<1> DEFINE some(s) == CHOOSE x \in s : TRUE
           Is(it) == it = [s \in SUBSET S |-> IF s = {} THEN 0 ELSE f[some(s)] + it[s \ {some(s)}]]
           iter == CHOOSE it : Is(it)
           M == SUBSET S
           depth == [s \in M |-> Cardinality(s)]
           N == Nat
           R == [s \in M |-> N]
           F == Selections(M, N, R)
           G == [it \in F |-> [s \in M |-> IF s = {} THEN 0 ELSE f[some(s)] + it[s \ {some(s)}]]]
           base == [s \in M |-> 0]
<1>1. DOMAIN f = S
  OBVIOUS
<1>2. SumFunction(f) = iter[S]
  BY <1>1 DEF SumFunction, SumFunctionOnSet, FoldFunctionOnSet, MapThenFoldSet
<1>3. ASSUME NEW s \in M, s # {}
      PROVE  /\ some(s) \in s /\ f[some(s)] \in Nat /\ s \ {some(s)} \in M
             /\ depth[s \ {some(s)}] < depth[s]
  <2>1. some(s) \in s
    BY <1>3
  <2>2. IsFiniteSet(s)
    BY FS_Subset
  <2> HIDE DEF some
  <2>3. Cardinality(s \ {some(s)}) = Cardinality(s) - 1 /\ Cardinality(s) \in Nat
    BY <2>1, <2>2, FS_RemoveElement, FS_CardinalityType
  <2> QED BY <2>1, <2>3
<1>4. depth \in [M -> N]
  <2>1. ASSUME NEW s \in M PROVE Cardinality(s) \in N
    <3>1. IsFiniteSet(s)
      BY FS_Subset
    <3> QED BY <3>1, FS_CardinalityType
  <2> QED BY <2>1
<1> HIDE DEF some
<1>5. G \in [F -> F] /\ base \in F
  <2>1. ASSUME NEW it \in F PROVE G[it] \in F
    <3>1. it \in [M -> N]
      BY DEF Selections
    <3>2. ASSUME NEW s \in M
          PROVE  (IF s = {} THEN 0 ELSE f[some(s)] + it[s \ {some(s)}]) \in N
      <4> DEFINE a == f[some(s)]
                 b == it[s \ {some(s)}]
      <4>1. s # {} => a \in Nat /\ b \in Nat
        BY <1>3, <3>1
      <4> HIDE DEF a, b
      <4>2. (IF s = {} THEN 0 ELSE a + b) \in Nat
        BY <4>1
      <4> QED BY <4>2 DEF a, b
    <3> QED BY <3>2 DEF Selections
  <2>2. base \in F
    BY DEF Selections
  <2>3. G = [it \in F |-> G[it]]
    OBVIOUS
  <2> HIDE DEF F, G
  <2> QED BY <2>1, <2>2, <2>3
<1>6. Recursive(G, F, M, depth)
  <2>1. ASSUME NEW g \in F, NEW h \in F, NEW s \in M, \A t \in M : depth[t] < depth[s] => g[t] = h[t]
        PROVE  G[g][s] = G[h][s]
    <3>1. CASE s = {}
      BY <3>1
    <3>2. CASE s # {}
      <4>1. g[s \ {some(s)}] = h[s \ {some(s)}]
        BY <1>3, <2>1, <3>2
      <4> QED BY <4>1
    <3> QED BY <3>1, <3>2
  <2> HIDE DEF F, G, depth, M
  <2> QED BY <2>1 DEF Recursive
<1>7. PICK it \in F : \A s \in M : it[s] = G[it][s]
  <2> HIDE DEF F, G, depth, M, N, base
  <2>1. F = Selections(M, N, R)
    BY DEF F
  <2> HIDE DEF R
  <2>2. depth \in [M -> Nat]
    BY <1>4 DEF N
  <2> QED BY <1>5, <1>6, <2>1, <2>2, RecursionExists
<1>8. Is(it)
  <2>1. it \in [M -> N]
    BY DEF Selections
  <2>2. it = [s \in M |-> G[it][s]]
    BY <1>7, <2>1
  <2> QED BY <2>2
<1>9. Is(iter)
  <2> HIDE DEF Is
  <2> QED BY <1>8
<1> HIDE DEF iter
<1>10. \A s \in M : iter[s] = IF s = {} THEN 0 ELSE f[some(s)] + iter[s \ {some(s)}]
  BY <1>9
<1> DEFINE P == {s \in M : iter[s] \in Nat}
<1>11. M \subseteq P
  <2>1. ASSUME NEW s \in M, \A t \in M : depth[t] < depth[s] => t \in P PROVE s \in P
    <3> DEFINE a == f[some(s)]
               b == iter[s \ {some(s)}]
    <3>1. iter[s] = IF s = {} THEN 0 ELSE a + b
      BY <1>10
    <3>2. s # {} => a \in Nat /\ b \in Nat
      BY <1>3, <2>1
    <3> HIDE DEF a, b
    <3>3. iter[s] \in Nat
      BY <3>1, <3>2
    <3> QED BY <3>3
  <2>2. depth \in [M -> Nat]
    BY <1>4
  <2> HIDE DEF P, M, depth
  <2> QED BY <2>1, <2>2, DepthInduction
<1>12. Folded(iter, f, S)
  <2>1. iter = [s \in M |-> iter[s]]
    BY <1>9
  <2>2. \A s \in M : iter[s] \in Nat
    BY <1>11
  <2>3. iter \in [SUBSET S -> Nat]
    BY <2>1, <2>2
  <2> QED BY <1>10, <2>3 DEF Folded, some
<1> QED BY <1>2, <1>12

LEMMA FoldedOut ==
  ASSUME NEW S, IsFiniteSet(S), NEW f \in [S -> Nat], NEW iter, Folded(iter, f, S),
         NEW s \in SUBSET S, NEW y \in s
  PROVE  iter[s] = f[y] + iter[s \ {y}]
<1> DEFINE M == SUBSET S
           depth == [t \in M |-> Cardinality(t)]
           P == {t \in M : \A z \in t : iter[t] = f[z] + iter[t \ {z}]}
<1>1. ASSUME NEW t \in M, NEW z \in t
      PROVE  t \ {z} \in M /\ depth[t \ {z}] < depth[t] /\ f[z] \in Nat /\ iter[t \ {z}] \in Nat
  <2>1. IsFiniteSet(t)
    BY FS_Subset
  <2>2. Cardinality(t \ {z}) = Cardinality(t) - 1 /\ Cardinality(t) \in Nat
    BY <2>1, FS_RemoveElement, FS_CardinalityType
  <2>3. f[z] \in Nat /\ iter[t \ {z}] \in Nat
    BY DEF Folded
  <2> QED BY <2>2, <2>3
<1>2. depth \in [M -> Nat]
  <2>1. ASSUME NEW t \in M PROVE Cardinality(t) \in Nat
    <3>1. IsFiniteSet(t)
      BY FS_Subset
    <3> QED BY <3>1, FS_CardinalityType
  <2> QED BY <2>1
<1>3. ASSUME NEW t \in M, \A u \in M : depth[u] < depth[t] => u \in P PROVE t \in P
  <2>1. SUFFICES ASSUME NEW z \in t PROVE iter[t] = f[z] + iter[t \ {z}]
    OBVIOUS
  <2> DEFINE x == CHOOSE x \in t : TRUE
  <2>2. x \in t /\ iter[t] = f[x] + iter[t \ {x}]
    BY DEF Folded
  <2> HIDE DEF x
  <2>3. CASE x = z
    BY <2>2, <2>3
  <2>4. CASE x # z
    <3>1. z \in t \ {x} /\ x \in t \ {z}
      BY <2>2, <2>4
    <3>2. t \ {x} \in P /\ t \ {z} \in P
      BY <1>1, <1>3, <2>2
    <3> DEFINE rest == (t \ {x}) \ {z}
    <3>3. (t \ {z}) \ {x} = rest
      OBVIOUS
    <3>4. iter[t \ {x}] = f[z] + iter[rest] /\ iter[t \ {z}] = f[x] + iter[rest]
      BY <3>1, <3>2, <3>3
    <3>5. f[x] \in Nat /\ f[z] \in Nat /\ iter[rest] \in Nat
      <4>1. t \ {x} \in M /\ f[x] \in Nat
        BY <1>1, <2>2
      <4>2. f[z] \in Nat /\ iter[rest] \in Nat
        BY <1>1, <3>1, <4>1
      <4> QED BY <4>1, <4>2
    <3> HIDE DEF rest
    <3> QED BY <2>2, <3>4, <3>5
  <2> QED BY <2>3, <2>4
<1>4. M \subseteq P
  <2> HIDE DEF P, M, depth
  <2> QED BY <1>2, <1>3, DepthInduction
<1> QED BY <1>4

(* In particular it can be taken along a sequence of the elements.         *)
Enumerates(order, n, S) ==
    /\ order \in [1 .. n -> S]
    /\ \A i, j \in 1 .. n : order[i] = order[j] => i = j
    /\ \A x \in S : \E i \in 1 .. n : order[i] = x
SumAlong(sum, f, order, n) ==
    sum \in [0 .. n -> Nat] /\ sum[0] = 0 /\ \A i \in 1 .. n : sum[i] = sum[i - 1] + f[order[i]]

LEMMA SumsAlong ==
  ASSUME NEW S, NEW f \in [S -> Nat], NEW n \in Nat, NEW order, Enumerates(order, n, S)
  PROVE  \E sum : SumAlong(sum, f, order, n) /\ SumFunction(f) = sum[n]
<1>0. /\ order \in [1 .. n -> S]
      /\ \A i, j \in 1 .. n : order[i] = order[j] => i = j
      /\ \A x \in S : \E i \in 1 .. n : order[i] = x
  BY DEF Enumerates
<1>1. IsFiniteSet(S)
  <2>1. order \in Surjection(1 .. n, S)
    BY <1>0 DEF Surjection
  <2>2. IsFiniteSet(1 .. n)
    BY FS_Interval
  <2> QED BY <2>1, <2>2, FS_Surjection
<1>2. PICK iter : Folded(iter, f, S) /\ SumFunction(f) = iter[S]
  BY <1>1, SumFolds
<1> DEFINE upTo(i) == {order[j] : j \in 1 .. i}
           sum == [i \in 0 .. n |-> iter[upTo(i)]]
<1>3. ASSUME NEW i \in 0 .. n PROVE upTo(i) \in SUBSET S /\ iter[upTo(i)] \in Nat
  <2>1. upTo(i) \in SUBSET S
    BY <1>0
  <2> HIDE DEF upTo
  <2> QED BY <1>2, <2>1 DEF Folded
<1>4. upTo(0) = {} /\ upTo(n) = S
  BY <1>0
<1>5. ASSUME NEW i \in 1 .. n PROVE iter[upTo(i)] = iter[upTo(i - 1)] + f[order[i]]
  <2>1. order[i] \in upTo(i) /\ upTo(i) \ {order[i]} = upTo(i - 1) /\ i \in 0 .. n /\ i - 1 \in 0 .. n
    BY <1>0
  <2>2. upTo(i) \in SUBSET S /\ iter[upTo(i - 1)] \in Nat /\ f[order[i]] \in Nat
    BY <1>0, <1>3, <2>1
  <2> HIDE DEF upTo
  <2>3. iter[upTo(i)] = f[order[i]] + iter[upTo(i) \ {order[i]}]
    BY <1>1, <1>2, <2>1, <2>2, FoldedOut
  <2> DEFINE a == iter[upTo(i - 1)]
             b == f[order[i]]
  <2>4. iter[upTo(i)] = b + a /\ a \in Nat /\ b \in Nat
    BY <2>1, <2>2, <2>3, Zenon
  <2> HIDE DEF a, b
  <2>5. iter[upTo(i)] = a + b
    BY <2>4
  <2> QED BY <2>5 DEF a, b
<1> HIDE DEF upTo
<1>6. sum \in [0 .. n -> Nat] /\ sum[0] = 0 /\ sum[n] = SumFunction(f)
  <2>0. iter[{}] = 0 /\ SumFunction(f) = iter[S]
    BY <1>2 DEF Folded
  <2>1. iter[upTo(0)] = 0 /\ iter[upTo(n)] = SumFunction(f)
    BY <1>4, <2>0, Zenon
  <2> QED BY <1>3, <2>1
<1>7. ASSUME NEW i \in 1 .. n PROVE sum[i] = sum[i - 1] + f[order[i]]
  <2>1. i \in 0 .. n /\ i - 1 \in 0 .. n
    OBVIOUS
  <2> QED BY <1>5, <2>1
<1> HIDE DEF sum
<1> QED BY <1>6, <1>7 DEF SumAlong
LEMMA SumIsNat ==
  ASSUME NEW S, IsFiniteSet(S), NEW f \in [S -> Nat]
  PROVE  SumFunction(f) \in Nat
<1>1. PICK iter : Folded(iter, f, S) /\ SumFunction(f) = iter[S]
  BY SumFolds
<1> QED BY <1>1 DEF Folded

(* Sequences one after another are as long as the sum of their lengths,    *)
(* wherever these are known from.                                          *)
LEMMA FlattenLength ==
  ASSUME NEW T, NEW seqs \in Seq(Seq(T)), NEW S, NEW f \in [S -> Nat], NEW order,
         Enumerates(order, Len(seqs), S), \A i \in 1 .. Len(seqs) : Len(seqs[i]) = f[order[i]]
  PROVE  FlattenSeq(seqs) \in Seq(T) /\ Len(FlattenSeq(seqs)) = SumFunction(f)
<1> DEFINE n == Len(seqs)
<1>1. n \in Nat
  OBVIOUS
<1>2. PICK off : Offsets(off, seqs)
  BY OffsetsExist
<1>3. FlattenSeq(seqs) \in Seq(T) /\ Len(FlattenSeq(seqs)) = off[n]
  BY <1>2, FlattenFacts DEF Flat
<1>4. PICK sum : SumAlong(sum, f, order, n) /\ SumFunction(f) = sum[n]
  BY <1>1, SumsAlong
<1> DEFINE E == {i \in 0 .. n : off[i] = sum[i]}
<1>5. 0 \in E
  BY <1>1, <1>2, <1>4 DEF Offsets, SumAlong
<1>6. ASSUME NEW i \in 1 .. n, i - 1 \in E PROVE i \in E
  <2>1. off[i] = off[i - 1] + Len(seqs[i]) /\ sum[i] = sum[i - 1] + f[order[i]]
    BY <1>2, <1>4 DEF Offsets, SumAlong
  <2> QED BY <1>6, <2>1
<1> HIDE DEF E
<1>7. 0 .. n \subseteq E
  BY <1>1, <1>5, <1>6, UpTo
<1> QED BY <1>1, <1>3, <1>4, <1>7 DEF E

(* Sums up to some element of a sequence of numbers.                       *)
PartialSum(f, k) == SumFunction([i \in 1 .. k |-> f[i]])

LEMMA PartialSums ==
  ASSUME NEW n \in Nat, NEW f \in [1 .. n -> Nat]
  PROVE  /\ PartialSum(f, 0) = 0 /\ PartialSum(f, n) = SumFunction(f)
         /\ \A k \in 1 .. n : PartialSum(f, k) = PartialSum(f, k - 1) + f[k]
         /\ \A k \in 0 .. n : PartialSum(f, k) \in Nat /\ PartialSum(f, k) <= SumFunction(f)
<1> DEFINE order(k) == [i \in 1 .. k |-> i]
           part(k) == [i \in 1 .. k |-> f[i]]
<1>1. ASSUME NEW k \in 0 .. n
      PROVE  \E sum : SumAlong(sum, part(k), order(k), k) /\ PartialSum(f, k) = sum[k]
  <2>1. Enumerates(order(k), k, 1 .. k) /\ part(k) \in [1 .. k -> Nat] /\ k \in Nat
    BY DEF Enumerates
  <2>2. PartialSum(f, k) = SumFunction(part(k))
    BY DEF PartialSum
  <2> DEFINE S == 1 .. k
             g == part(k)
             o == order(k)
  <2>3. Enumerates(o, k, S) /\ g \in [S -> Nat]
    BY <2>1
  <2>5. k \in Nat
    OBVIOUS
  <2> HIDE DEF g, o, S
  <2>4. \E sum : SumAlong(sum, g, o, k) /\ SumFunction(g) = sum[k]
    BY <2>3, <2>5, SumsAlong
  <2> QED BY <2>2, <2>4 DEF g, o
<1>2. PICK sum : SumAlong(sum, part(n), order(n), n) /\ PartialSum(f, n) = sum[n]
  <2>1. n \in 0 .. n
    OBVIOUS
  <2> HIDE DEF part, order
  <2> QED BY <1>1, <2>1
<1>3. sum \in [0 .. n -> Nat] /\ sum[0] = 0 /\ \A i \in 1 .. n : sum[i] = sum[i - 1] + f[i]
  <2>1. \A i \in 1 .. n : part(n)[order(n)[i]] = f[i]
    OBVIOUS
  <2> QED BY <1>2, <2>1 DEF SumAlong
<1>4. ASSUME NEW k \in 0 .. n PROVE PartialSum(f, k) = sum[k]
  <2>1. PICK s : SumAlong(s, part(k), order(k), k) /\ PartialSum(f, k) = s[k]
    BY <1>1
  <2>2. s[0] = 0 /\ \A i \in 1 .. k : s[i] = s[i - 1] + f[i]
    <3>1. \A i \in 1 .. k : part(k)[order(k)[i]] = f[i]
      OBVIOUS
    <3> QED BY <2>1, <3>1 DEF SumAlong
  <2> DEFINE E == {i \in 0 .. k : s[i] = sum[i]}
  <2>3. 0 \in E
    BY <1>3, <2>2
  <2>4. ASSUME NEW i \in 1 .. k, i - 1 \in E PROVE i \in E
    <3>1. i \in 1 .. n
      OBVIOUS
    <3> QED BY <1>3, <2>2, <2>4, <3>1
  <2> HIDE DEF E
  <2>6. k \in Nat
    OBVIOUS
  <2>5. 0 .. k \subseteq E
    BY <2>3, <2>4, <2>6, UpTo
  <2> QED BY <2>1, <2>5 DEF E
<1> HIDE DEF part, order
<1>5. ASSUME NEW k \in 0 .. n PROVE sum[k] <= sum[n]
  <2> DEFINE rest == n - k
             E == {i \in 0 .. rest : sum[k] <= sum[k + i]}
  <2>1. 0 \in E
    BY <1>3
  <2>2. ASSUME NEW i \in 1 .. rest, i - 1 \in E PROVE i \in E
    <3>1. k + i \in 1 .. n /\ (k + i) - 1 = k + (i - 1) /\ k + (i - 1) \in 0 .. n /\ k + i \in 0 .. n
      OBVIOUS
    <3>2. sum[k + i] = sum[k + (i - 1)] + f[k + i]
      BY <1>3, <3>1
    <3>3. sum[k] \in Nat /\ sum[k + (i - 1)] \in Nat /\ f[k + i] \in Nat
      BY <1>3, <3>1
    <3>4. sum[k] <= sum[k + i]
      BY <2>2, <3>2, <3>3
    <3> QED BY <3>4
  <2>3. rest \in Nat /\ k + rest = n
    OBVIOUS
  <2> HIDE DEF E, rest
  <2>4. 0 .. rest \subseteq E
    BY <2>1, <2>2, <2>3, UpTo
  <2>5. rest \in E
    BY <2>3, <2>4
  <2> QED BY <2>3, <2>5 DEF E
<1>6. PartialSum(f, n) = SumFunction(f)
  <2>1. [i \in 1 .. n |-> f[i]] = f
    OBVIOUS
  <2> QED BY <2>1 DEF PartialSum
<1>7. \A k \in 1 .. n : k - 1 \in 0 .. n /\ k \in 0 .. n
  OBVIOUS
<1>8. \A k \in 1 .. n : PartialSum(f, k) = PartialSum(f, k - 1) + f[k]
  BY <1>3, <1>4, <1>7
<1>9. \A k \in 0 .. n : PartialSum(f, k) \in Nat /\ PartialSum(f, k) <= SumFunction(f)
  BY <1>3, <1>4, <1>5, <1>6
<1>10. PartialSum(f, 0) = 0
  BY <1>3, <1>4
<1> QED BY <1>6, <1>8, <1>9, <1>10

(* The first of the sequences end where the next one starts.               *)
LEMMA FlattenPart ==
  ASSUME NEW T, NEW seqs \in Seq(Seq(T)), NEW off, Offsets(off, seqs), NEW i \in 0 .. Len(seqs)
  PROVE  Len(FlattenSeq(SubSeq(seqs, 1, i))) = off[i]
<1> DEFINE part == SubSeq(seqs, 1, i)
           o == [k \in 0 .. i |-> off[k]]
<1>1. part \in Seq(Seq(T)) /\ Len(part) = i /\ \A k \in 1 .. i : part[k] = seqs[k]
  <2> DEFINE S == Seq(T)
  <2> HIDE DEF S
  <2>1. seqs \in Seq(S)
    BY DEF S
  <2>2. part \in Seq(S) /\ Len(part) = i /\ \A k \in 1 .. i : part[k] = seqs[k]
    BY <2>1
  <2> QED BY <2>2 DEF S
<1> HIDE DEF part
<1>2. Offsets(o, part)
  <2>1. o \in [0 .. i -> Nat] /\ o[0] = 0
    <3> DEFINE n == Len(seqs)
    <3>1. off \in [0 .. n -> Nat] /\ off[0] = 0
      BY DEF Offsets
    <3>2. n \in Nat /\ i \in 0 .. n
      OBVIOUS
    <3> HIDE DEF n
    <3> QED BY <3>1, <3>2
  <2>2. ASSUME NEW k \in 1 .. i PROVE o[k] = o[k - 1] + Len(part[k])
    <3>1. k \in 1 .. Len(seqs) /\ k - 1 \in 0 .. i /\ k \in 0 .. i
      OBVIOUS
    <3>2. off[k] = off[k - 1] + Len(seqs[k])
      BY <3>1 DEF Offsets
    <3> QED BY <1>1, <3>1, <3>2
  <2> QED BY <1>1, <2>1, <2>2 DEF Offsets
<1>3. Len(FlattenSeq(part)) = o[i]
  <2> HIDE DEF o
  <2> QED BY <1>1, <1>2, FlattenFacts DEF Flat
<1> QED BY <1>3 DEF part

(* Two sequences with the same offsets and the same parts are one.         *)
LEMMA FlatUnique ==
  ASSUME NEW S, NEW flat \in Seq(S), NEW other \in Seq(S), NEW off, NEW seqs, NEW m,
         Flat(flat, off, seqs, m), Flat(other, off, seqs, m)
  PROVE  flat = other
<1>1. Len(flat) = Len(other) /\ Len(flat) \in Nat
  BY DEF Flat
<1>2. ASSUME NEW p \in 1 .. Len(flat) PROVE flat[p] = other[p]
  <2>1. PICK i \in 1 .. m : \E k \in 1 .. Len(seqs[i]) : p = off[i - 1] + k
    BY DEF Flat
  <2>2. PICK k \in 1 .. Len(seqs[i]) : p = off[i - 1] + k
    BY <2>1
  <2>3. flat[off[i - 1] + k] = seqs[i][k] /\ other[off[i - 1] + k] = seqs[i][k]
    BY DEF Flat
  <2> QED BY <2>2, <2>3
<1> QED BY <1>1, <1>2, SeqEqual

LEMMA FlattenBoth ==
  ASSUME NEW S, NEW a \in Seq(Seq(S)), NEW b \in Seq(Seq(S))
  PROVE  FlattenSeq(a \o b) = FlattenSeq(a) \o FlattenSeq(b)
<1> DEFINE T == Seq(S)
           c == a \o b
           m == Len(a)
           n == Len(b)
           A == FlattenSeq(a)
           B == FlattenSeq(b)
           both == A \o B
<1>1. PICK offa : Offsets(offa, a)
  BY OffsetsExist
<1>2. PICK offb : Offsets(offb, b)
  BY OffsetsExist
<1>3. A \in Seq(S) /\ Flat(A, offa, a, m) /\ B \in Seq(S) /\ Flat(B, offb, b, n)
  BY <1>1, <1>2, FlattenFacts
<1>4. m \in Nat /\ n \in Nat
  OBVIOUS
<1>12. \A i \in 1 .. n : Len(b[i]) \in Nat
  OBVIOUS
<1>5. /\ c \in Seq(T) /\ Len(c) = m + n
      /\ \A i \in 1 .. m : c[i] = a[i]
      /\ \A i \in 1 .. n : c[m + i] = b[i]
  <2>1. a \in Seq(T) /\ b \in Seq(T)
    OBVIOUS
  <2> HIDE DEF T
  <2>2. /\ c \in Seq(T) /\ Len(c) = Len(a) + Len(b)
        /\ \A i \in 1 .. Len(a) + Len(b) : c[i] = IF i <= Len(a) THEN a[i] ELSE b[i - Len(a)]
    BY <2>1, ConcatProperties
  <2> HIDE DEF c
  <2>3. \A i \in 1 .. n : m + i \in 1 .. m + n /\ ~(m + i <= m) /\ (m + i) - m = i
    BY <1>4
  <2>4. \A i \in 1 .. m : i \in 1 .. m + n /\ i <= m
    BY <1>4
  <2> HIDE DEF m, n
  <2> QED BY <2>2, <2>3, <2>4 DEF m, n
<1> DEFINE la == offa[m]
           off == [i \in 0 .. m + n |-> IF i <= m THEN offa[i] ELSE la + offb[i - m]]
<1> HIDE DEF A, B, c
<1>6. /\ offa \in [0 .. m -> Nat] /\ offa[0] = 0 /\ \A i \in 1 .. m : offa[i] = offa[i - 1] + Len(a[i])
      /\ offb \in [0 .. n -> Nat] /\ offb[0] = 0 /\ \A i \in 1 .. n : offb[i] = offb[i - 1] + Len(b[i])
      /\ Len(A) = la /\ Len(B) = offb[n] /\ la \in Nat /\ la = offa[m]
  BY <1>1, <1>2, <1>3 DEF Offsets, Flat
<1> HIDE DEF m, n, la
<1>7. /\ off \in [0 .. m + n -> Nat]
      /\ \A i \in 0 .. m : off[i] = offa[i]
      /\ \A i \in 0 .. n : off[m + i] = la + offb[i]
  <2>1. ASSUME NEW i \in 0 .. m + n PROVE off[i] \in Nat
    <3>1. CASE i <= m
      BY <1>4, <1>6, <3>1
    <3>2. CASE ~(i <= m)
      <4>1. i - m \in 0 .. n
        BY <1>4, <3>2
      <4> QED BY <1>4, <1>6, <3>2, <4>1
    <3> QED BY <3>1, <3>2
  <2>2. off \in [0 .. m + n -> Nat]
    BY <2>1
  <2>3. ASSUME NEW i \in 0 .. m PROVE off[i] = offa[i]
    BY <1>4
  <2>4. ASSUME NEW i \in 0 .. n PROVE off[m + i] = la + offb[i]
    <3>1. CASE i = 0
      BY <1>4, <1>6, <3>1
    <3>2. CASE i # 0
      <4>1. m + i \in 0 .. m + n /\ ~(m + i <= m) /\ (m + i) - m = i
        BY <1>4, <3>2
      <4> QED BY <4>1
    <3> QED BY <3>1, <3>2
  <2> QED BY <2>2, <2>3, <2>4
<1> HIDE DEF off
<1>8. Offsets(off, c)
  <2>1. off[0] = 0
    BY <1>4, <1>6, <1>7
  <2>2. ASSUME NEW i \in 1 .. m + n PROVE off[i] = off[i - 1] + Len(c[i])
    <3>1. CASE i \in 1 .. m
      <4>1. i \in 0 .. m /\ i - 1 \in 0 .. m
        BY <1>4, <3>1
      <4> QED BY <1>5, <1>6, <1>7, <3>1, <4>1
    <3>2. CASE ~(i \in 1 .. m)
      <4> DEFINE j == i - m
      <4>1. j \in 1 .. n /\ m + j = i /\ m + (j - 1) = i - 1 /\ j \in 0 .. n /\ j - 1 \in 0 .. n
        BY <1>4, <3>2
      <4> HIDE DEF j
      <4>2. c[i] = b[j] /\ off[i] = la + offb[j] /\ off[i - 1] = la + offb[j - 1]
        <5>1. c[m + j] = b[j] /\ off[m + j] = la + offb[j] /\ off[m + (j - 1)] = la + offb[j - 1]
          BY <1>5, <1>7, <4>1
        <5> QED BY <4>1, <5>1
      <4>3. offb[j] = offb[j - 1] + Len(b[j])
        BY <1>6, <4>1
      <4>4. offb[j - 1] \in Nat /\ Len(b[j]) \in Nat
        <5>1. offb[j - 1] \in Nat
          BY <1>6, <4>1
        <5> QED BY <1>12, <4>1, <5>1
      <4> QED BY <1>6, <4>2, <4>3, <4>4
    <3> QED BY <3>1, <3>2
  <2> QED BY <1>5, <1>7, <2>1, <2>2 DEF Offsets
<1>9. /\ both \in Seq(S) /\ Len(both) = la + offb[n]
      /\ \A p \in 1 .. la : both[p] = A[p]
      /\ \A p \in 1 .. offb[n] : both[la + p] = B[p]
  <2>1. /\ both \in Seq(S) /\ Len(both) = Len(A) + Len(B)
        /\ \A i \in 1 .. Len(A) + Len(B) : both[i] = IF i <= Len(A) THEN A[i] ELSE B[i - Len(A)]
    BY <1>3, ConcatProperties
  <2> HIDE DEF both
  <2> DEFINE lb == offb[n]
  <2>2. lb \in Nat
    BY <1>4, <1>6
  <2>3. Len(A) = la /\ Len(B) = lb
    BY <1>6
  <2> HIDE DEF la, lb
  <2>4. \A i \in 1 .. lb : la + i \in 1 .. la + lb /\ ~(la + i <= la) /\ (la + i) - la = i
    BY <1>6, <2>2
  <2>5. \A i \in 1 .. la : i \in 1 .. la + lb /\ i <= la
    BY <1>6, <2>2
  <2> QED BY <2>1, <2>3, <2>4, <2>5 DEF lb
<1> HIDE DEF both
<1>10. Flat(both, off, c, m + n)
  <2>1. Len(both) = off[m + n]
    <3>1. off[m + n] = la + offb[n]
      BY <1>4, <1>7
    <3> QED BY <1>9, <3>1
  <2>2. offb[n] \in Nat
    BY <1>4, <1>6
  <2>3. ASSUME NEW i \in 1 .. m + n, NEW k \in 1 .. Len(c[i])
        PROVE  off[i - 1] + k \in 1 .. Len(both) /\ both[off[i - 1] + k] = c[i][k]
    <3>1. CASE i \in 1 .. m
      <4>1. c[i] = a[i] /\ off[i - 1] = offa[i - 1]
        <5>1. i - 1 \in 0 .. m
          BY <1>4, <3>1
        <5> QED BY <1>5, <1>7, <3>1, <5>1
      <4>2. offa[i - 1] + k \in 1 .. Len(A) /\ A[offa[i - 1] + k] = a[i][k]
        BY <1>3, <3>1, <4>1 DEF Flat
      <4> DEFINE p == offa[i - 1] + k
      <4> HIDE DEF p
      <4>3. p \in 1 .. Len(A) /\ A[p] = a[i][k] /\ off[i - 1] + k = p
        BY <4>1, <4>2 DEF p
      <4>4. p \in 1 .. la /\ Len(both) = la + offb[n] /\ both[p] = A[p]
        BY <1>6, <1>9, <4>3
      <4>5. p \in 1 .. Len(both)
        BY <1>6, <2>2, <4>4
      <4> QED BY <4>1, <4>3, <4>4, <4>5
    <3>2. CASE ~(i \in 1 .. m)
      <4> DEFINE j == i - m
      <4>1. j \in 1 .. n /\ m + j = i /\ m + (j - 1) = i - 1 /\ j - 1 \in 0 .. n
        BY <1>4, <3>2
      <4> HIDE DEF j
      <4>2. c[i] = b[j] /\ off[i - 1] = la + offb[j - 1] /\ offb[j - 1] \in Nat
        <5>1. c[m + j] = b[j] /\ off[m + (j - 1)] = la + offb[j - 1] /\ offb[j - 1] \in Nat
          BY <1>5, <1>6, <1>7, <4>1
        <5> QED BY <4>1, <5>1
      <4>3. offb[j - 1] + k \in 1 .. Len(B) /\ B[offb[j - 1] + k] = b[j][k]
        BY <1>3, <4>1, <4>2 DEF Flat
      <4> DEFINE o == offb[j - 1]
                 p == o + k
      <4>4. p \in 1 .. Len(B) /\ B[p] = b[j][k] /\ off[i - 1] = la + o /\ o \in Nat
        BY <4>2, <4>3
      <4>5. off[i - 1] + k = la + p /\ p \in Nat
        <5> HIDE DEF o
        <5>1. k \in Nat /\ la \in Nat
          <6> DEFINE l == Len(b[j])
          <6>1. l \in Nat /\ k \in 1 .. l
            BY <1>12, <2>3, <4>1, <4>2
          <6> HIDE DEF l
          <6>2. k \in Nat
            BY <6>1
          <6> QED BY <1>6, <6>2
        <5>2. (la + o) + k = la + (o + k) /\ o + k \in Nat
          BY <4>4, <5>1
        <5> QED BY <4>4, <5>2
      <4> HIDE DEF p, o
      <4>6. p \in 1 .. offb[n] /\ Len(both) = la + offb[n] /\ both[la + p] = B[p]
        BY <1>6, <1>9, <4>4
      <4>7. la + p \in 1 .. Len(both)
        <5> DEFINE u == offb[n]
        <5>1. la \in Nat /\ u \in Nat /\ p \in 1 .. u
          BY <1>6, <4>6
        <5> HIDE DEF u
        <5>2. la + p \in 1 .. la + u
          BY <5>1
        <5> QED BY <4>6, <5>2 DEF u
      <4> QED BY <4>2, <4>4, <4>5, <4>6, <4>7
    <3> QED BY <3>1, <3>2
  <2>4. ASSUME NEW p \in 1 .. Len(both)
        PROVE  \E i \in 1 .. m + n : \E k \in 1 .. Len(c[i]) : p = off[i - 1] + k
    <3>1. CASE p \in 1 .. la
      <4>1. PICK i \in 1 .. m : \E k \in 1 .. Len(a[i]) : p = offa[i - 1] + k
        BY <1>3, <1>6, <3>1 DEF Flat
      <4>2. i \in 1 .. m + n /\ c[i] = a[i] /\ off[i - 1] = offa[i - 1]
        <5>1. i - 1 \in 0 .. m /\ i \in 1 .. m + n
          BY <1>4
        <5> QED BY <1>5, <1>7, <5>1
      <4> QED BY <4>1, <4>2
    <3>2. CASE ~(p \in 1 .. la)
      <4> DEFINE q == p - la
      <4>1. q \in 1 .. Len(B) /\ p = la + q
        BY <1>6, <1>9, <2>2, <3>2
      <4> HIDE DEF q
      <4>2. PICK j \in 1 .. n : \E k \in 1 .. Len(b[j]) : q = offb[j - 1] + k
        BY <1>3, <4>1 DEF Flat
      <4>3. PICK k \in 1 .. Len(b[j]) : q = offb[j - 1] + k
        BY <4>2
      <4> DEFINE i == m + j
      <4>4. i \in 1 .. m + n /\ c[i] = b[j] /\ off[i - 1] = la + offb[j - 1] /\ offb[j - 1] \in Nat
        <5>1. i \in 1 .. m + n /\ i - 1 = m + (j - 1) /\ j - 1 \in 0 .. n
          BY <1>4
        <5>2. c[m + j] = b[j] /\ off[m + (j - 1)] = la + offb[j - 1] /\ offb[j - 1] \in Nat
          BY <1>5, <1>6, <1>7, <5>1
        <5> QED BY <5>1, <5>2
      <4> HIDE DEF i
      <4>5. p = off[i - 1] + k /\ k \in 1 .. Len(c[i])
        <5>1. off[i - 1] = la + offb[j - 1] /\ k \in Nat /\ offb[j - 1] \in Nat
          BY <4>4
        <5>2. p = la + (offb[j - 1] + k)
          BY <4>1, <4>3
        <5>3. la + (offb[j - 1] + k) = (la + offb[j - 1]) + k
          BY <1>6, <5>1
        <5> QED BY <4>4, <5>1, <5>2, <5>3
      <4> QED BY <4>4, <4>5
    <3> QED BY <3>1, <3>2
  <2> QED BY <2>1, <2>3, <2>4 DEF Flat
<1>11. FlattenSeq(c) \in Seq(S) /\ Flat(FlattenSeq(c), off, c, m + n)
  <2>1. FlattenSeq(c) \in Seq(S) /\ Flat(FlattenSeq(c), off, c, Len(c))
    BY <1>5, <1>8, FlattenFacts
  <2> QED BY <1>5, <2>1
<1> QED BY <1>9, <1>10, <1>11, FlatUnique DEF both, c, A, B

=============================================================================
