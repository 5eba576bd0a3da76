-------------------------- MODULE InductionLemmas ---------------------------
(***************************************************************************)
(* Induction over the natural numbers, as a fact about sets: the library's *)
(* theorems state it of an operator, which the provers cannot instantiate. *)
(* It rests on finite sets alone: a set that holds 0, and n + 1 with n,    *)
(* but not m, would have a finite part below m that the successor maps     *)
(* into itself one to one, and so onto itself, 0 included.                 *)
(***************************************************************************)
EXTENDS Integers, Sequences, FiniteSets, FiniteSetTheorems, TLAPS

LEMMA NatSetInduction ==
  ASSUME NEW S, 0 \in S, \A n \in Nat : n \in S => n + 1 \in S
  PROVE  \A n \in Nat : n \in S
<1>1. SUFFICES ASSUME NEW m \in Nat, m \notin S
               PROVE  FALSE
  OBVIOUS
<1> DEFINE below == {k \in 0 .. m : k \in S}
           succ  == [k \in below |-> k + 1]
<1>2. IsFiniteSet(below)
  <2>1. IsFiniteSet(0 .. m) /\ below \in SUBSET (0 .. m)
    BY FS_Interval
  <2>2. QED
    BY <2>1, FS_Subset
<1>3. \A k \in below : k + 1 \in below
  BY <1>1
<1>4. succ \in Injection(below, below)
  BY <1>3 DEF Injection, IsInjective
<1>5. succ \in Surjection(below, below)
  BY <1>2, <1>4, FS_Injection, Zenon
<1>6. 0 \in below
  OBVIOUS
<1>7. PICK k \in below : succ[k] = 0
  BY <1>5, <1>6 DEF Surjection
<1>8. k + 1 = 0 /\ k \in Nat
  BY <1>7
<1>9. QED
  BY <1>8

\* Sequences grow from the empty one, element by element.
LEMMA SeqSetInduction ==
  ASSUME NEW E, NEW S, <<>> \in S,
         \A s \in Seq(E), e \in E : s \in S => Append(s, e) \in S
  PROVE  \A s \in Seq(E) : s \in S
<1> DEFINE T == {n \in Nat : \A s \in Seq(E) : Len(s) = n => s \in S}
<1>1. 0 \in T
  OBVIOUS
<1>2. ASSUME NEW n \in Nat, n \in T
      PROVE  n + 1 \in T
  <2>1. SUFFICES ASSUME NEW s \in Seq(E), Len(s) = n + 1
                 PROVE  s \in S
    OBVIOUS
  <2> DEFINE f == [i \in 1 .. n |-> s[i]]
  <2>2. f \in Seq(E) /\ Len(f) = n /\ s[n + 1] \in E
    BY <2>1
  <2>3. s = Append(f, s[n + 1])
    BY <2>1, <2>2
  <2>4. f \in S
    BY <1>2, <2>2
  <2>5. QED
    BY <2>2, <2>3, <2>4
<1>3. \A n \in Nat : n \in T
  <2> HIDE DEF T
  <2>1. QED
    BY <1>1, <1>2, NatSetInduction
<1>4. QED
  BY <1>3

\* A loop of N rounds, each of which makes a value of S from the one before,
\* has a value after each round: what its recursive definition names exists.
Loops(N, S, start, step) ==
  \E f \in [0 .. N -> S] : f[0] = start /\ \A i \in 1 .. N : f[i] = step[<<i, f[i - 1]>>]

LEMMA LoopExists ==
  ASSUME NEW N \in Nat, NEW S, NEW start \in S, NEW step \in [(1 .. N) \X S -> S]
  PROVE  Loops(N, S, start, step)
<1> DEFINE Loop(n, f) == /\ f \in [0 .. n -> S] /\ f[0] = start
                         /\ \A i \in 1 .. n : f[i] = step[<<i, f[i - 1]>>]
           T == {n \in Nat : n <= N => \E f : Loop(n, f)}
<1>1. 0 \in T
  <2>1. Loop(0, [i \in 0 .. 0 |-> start])
    OBVIOUS
  <2>2. QED
    BY <2>1
<1>2. ASSUME NEW n \in Nat, n \in T
      PROVE  n + 1 \in T
  <2>1. SUFFICES ASSUME n + 1 <= N
                 PROVE  \E f : Loop(n + 1, f)
    OBVIOUS
  <2>2. PICK f : Loop(n, f)
    BY <1>2, <2>1
  <2>3. f[n] \in S /\ step[<<n + 1, f[n]>>] \in S
    BY <2>1, <2>2
  <2> DEFINE g == [i \in 0 .. (n + 1) |-> IF i <= n THEN f[i] ELSE step[<<n + 1, f[n]>>]]
  <2>4. g \in [0 .. (n + 1) -> S] /\ g[0] = start
    BY <2>2, <2>3
  <2>5. ASSUME NEW i \in 1 .. (n + 1)
        PROVE  g[i] = step[<<i, g[i - 1]>>]
    <3>1. i - 1 \in 0 .. n /\ g[i - 1] = f[i - 1]
      OBVIOUS
    <3>2. g[n + 1] = step[<<n + 1, g[n]>>]
      OBVIOUS
    <3>3. CASE i = n + 1
      <4>1. n + 1 - 1 = n
        OBVIOUS
      <4> HIDE DEF g
      <4>2. QED
        BY <3>2, <3>3, <4>1
    <3>4. CASE i # n + 1
      <4>1. i \in 1 .. n /\ g[i] = f[i]
        BY <3>4
      <4>2. f[i] = step[<<i, f[i - 1]>>]
        BY <2>2, <4>1
      <4> HIDE DEF g
      <4>3. QED
        BY <3>1, <4>1, <4>2
    <3>5. QED
      BY <3>3, <3>4
  <2>6. QED
    BY <2>4, <2>5
<1>3. \A n \in Nat : n \in T
  <2> HIDE DEF T
  <2>1. QED
    BY <1>1, <1>2, NatSetInduction
<1>4. QED
  BY <1>3 DEF Loops

\* A fold over a sequence, as the values after each of its elements: s[i] is
\* made by step from s[i - 1] and the i-th element.
Folding(S, start, step, op, s) ==
  /\ s[0] = start
  /\ \A i \in 1 .. Len(op) : s[i - 1] \in S => s[i] = step[<<s[i - 1], op[i]>>]

LEMMA FoldExists ==
  ASSUME NEW E, NEW S, NEW start \in S, NEW step \in [S \X E -> S], NEW op \in Seq(E)
  PROVE  \E s \in [0 .. Len(op) -> S] : Folding(S, start, step, op, s)
<1> DEFINE N == Len(op)
           next == [x \in (1 .. N) \X S |-> step[<<x[2], op[x[1]]>>]]
<1>1. N \in Nat
  OBVIOUS
<1>2. next \in [(1 .. N) \X S -> S]
  <2>1. ASSUME NEW x \in (1 .. N) \X S
        PROVE  step[<<x[2], op[x[1]]>>] \in S
    <3>1. x[2] \in S /\ op[x[1]] \in E
      OBVIOUS
    <3>2. <<x[2], op[x[1]]>> \in S \X E
      BY <3>1
    <3>3. QED
      BY <3>2
  <2>2. QED
    BY <2>1
<1>3. Loops(N, S, start, next)
  <2> HIDE DEF next, N
  <2>1. QED
    BY <1>1, <1>2, LoopExists
<1>4. PICK s \in [0 .. N -> S] : s[0] = start /\ \A i \in 1 .. N : s[i] = next[<<i, s[i - 1]>>]
  BY <1>3 DEF Loops
<1>5. ASSUME NEW i \in 1 .. N
      PROVE  s[i] = step[<<s[i - 1], op[i]>>]
  <2>1. s[i - 1] \in S
    BY <1>1
  <2>2. next[<<i, s[i - 1]>>] = step[<<s[i - 1], op[i]>>]
    BY <2>1
  <2>3. QED
    BY <1>4, <2>2
<1>6. QED
  BY <1>4, <1>5 DEF Folding

\* A fold stays in its set, and one more element is one more step.
FoldsOn(E, S, start, step, op, e, s, t) ==
  s[Len(op)] \in S /\ t[Len(op) + 1] = step[<<s[Len(op)], e>>]

LEMMA FoldMore ==
  ASSUME NEW E, NEW S, NEW start \in S, NEW step \in [S \X E -> S], NEW op \in Seq(E),
         NEW e \in E, NEW s, NEW t,
         Folding(S, start, step, op, s), Folding(S, start, step, Append(op, e), t)
  PROVE  FoldsOn(E, S, start, step, op, e, s, t)
<1> DEFINE n == Len(op)
           more == Append(op, e)
           T == {i \in Nat : i <= n => s[i] \in S /\ t[i] = s[i]}
<1>1. /\ n \in Nat /\ Len(more) = n + 1 /\ more[n + 1] = e
      /\ \A i \in 1 .. n : more[i] = op[i] /\ op[i] \in E
  OBVIOUS
<1>2. /\ s[0] = start /\ t[0] = start
      /\ \A i \in 1 .. n : s[i - 1] \in S => s[i] = step[<<s[i - 1], op[i]>>]
      /\ \A i \in 1 .. n + 1 : t[i - 1] \in S => t[i] = step[<<t[i - 1], more[i]>>]
  BY <1>1 DEF Folding
<1> HIDE DEF more, n
<1>3. 0 \in T
  BY <1>2
<1>4. ASSUME NEW i \in Nat, i \in T
      PROVE  i + 1 \in T
  <2>1. SUFFICES ASSUME i + 1 <= n
                 PROVE  s[i + 1] \in S /\ t[i + 1] = s[i + 1]
    OBVIOUS
  <2>2. /\ (i + 1) - 1 = i /\ i + 1 \in 1 .. n /\ i + 1 \in 1 .. n + 1
        /\ s[i] \in S /\ t[i] = s[i]
    BY <1>1, <1>4, <2>1
  <2>3. s[i + 1] = step[<<s[i], op[i + 1]>>]
    BY <1>2, <2>2
  <2>4. t[i + 1] = step[<<t[i], op[i + 1]>>]
    BY <1>1, <1>2, <2>2
  <2>5. <<s[i], op[i + 1]>> \in S \X E
    BY <1>1, <2>2
  <2>6. QED
    BY <2>2, <2>3, <2>4, <2>5
<1>5. \A i \in Nat : i \in T
  <2> HIDE DEF T
  <2>1. QED
    BY <1>3, <1>4, NatSetInduction
<1>6. s[n] \in S /\ t[n] = s[n]
  BY <1>1, <1>5
<1>7. (n + 1) - 1 = n /\ n + 1 \in 1 .. n + 1
  BY <1>1
<1>8. t[n + 1] = step[<<t[n], e>>]
  BY <1>1, <1>2, <1>6, <1>7
<1>9. QED
  BY <1>6, <1>8 DEF n, FoldsOn

\* So a function that is such a fold of every sequence follows it element by
\* element.
FollowsFold(E, S, start, step, F) ==
  /\ F[<<>>] = start
  /\ \A op \in Seq(E) : F[op] \in S
  /\ \A op \in Seq(E), e \in E : F[Append(op, e)] = step[<<F[op], e>>]

LEMMA FoldLaw ==
  ASSUME NEW E, NEW S, NEW start \in S, NEW step \in [S \X E -> S], NEW F,
         \A op \in Seq(E) : \E s : Folding(S, start, step, op, s) /\ F[op] = s[Len(op)]
  PROVE  FollowsFold(E, S, start, step, F)
<1>1. F[<<>>] = start
  <2>1. <<>> \in Seq(E) /\ Len(<<>>) = 0
    OBVIOUS
  <2>2. PICK s : Folding(S, start, step, <<>>, s) /\ F[<<>>] = s[0]
    BY <2>1
  <2>3. QED
    BY <2>2 DEF Folding
<1>2. ASSUME NEW op \in Seq(E), NEW e \in E
      PROVE  F[op] \in S /\ F[Append(op, e)] = step[<<F[op], e>>]
  <2>1. Append(op, e) \in Seq(E) /\ Len(Append(op, e)) = Len(op) + 1
    OBVIOUS
  <2>2. PICK s : Folding(S, start, step, op, s) /\ F[op] = s[Len(op)]
    OBVIOUS
  <2>3. PICK t : /\ Folding(S, start, step, Append(op, e), t)
                 /\ F[Append(op, e)] = t[Len(op) + 1]
    BY <2>1
  <2>4. /\ op \in Seq(E) /\ e \in E /\ start \in S /\ step \in [S \X E -> S]
        /\ Folding(S, start, step, op, s) /\ Folding(S, start, step, Append(op, e), t)
    BY <2>2, <2>3
  <2>5. FoldsOn(E, S, start, step, op, e, s, t)
    BY <2>4, FoldMore
  <2>6. QED
    BY <2>2, <2>3, <2>5 DEF FoldsOn
<1>3. ASSUME NEW op \in Seq(E)
      PROVE  F[op] \in S
  <2>1. CASE op = <<>>
    BY <1>1, <2>1
  <2>2. CASE op # <<>>
    <3>1. PICK n \in Nat : n = Len(op) /\ n > 0
      BY <2>2
    <3>2. PICK f : f = [i \in 1 .. n - 1 |-> op[i]]
      OBVIOUS
    <3>3. f \in Seq(E) /\ op[n] \in E /\ Len(f) = n - 1
      BY <3>1, <3>2
    <3>4. op = Append(f, op[n])
      BY <3>1, <3>2, <3>3
    <3>5. <<F[f], op[n]>> \in S \X E
      BY <1>2, <3>3
    <3>6. QED
      BY <1>2, <3>3, <3>4, <3>5
  <2>3. QED
    BY <2>1, <2>2
<1>4. QED
  BY <1>1, <1>2, <1>3 DEF FollowsFold


\* A loop, as the values before its first round and after each round.
Iterating(N, S, start, step, s) ==
  s[0] = start /\ \A i \in 1 .. N : s[i - 1] \in S => s[i] = step[s[i - 1]]

HasRounds(N, S, start, step) == \E s \in [0 .. N -> S] : Iterating(N, S, start, step, s)

LEMMA RoundsExist ==
  ASSUME NEW N \in Nat, NEW S, NEW start \in S, NEW step \in [S -> S]
  PROVE  HasRounds(N, S, start, step)
<1> DEFINE next == [x \in (1 .. N) \X S |-> step[x[2]]]
<1>1. next \in [(1 .. N) \X S -> S]
  OBVIOUS
<1>2. Loops(N, S, start, next)
  <2> HIDE DEF next
  <2>1. QED
    BY <1>1, LoopExists
<1>3. PICK s \in [0 .. N -> S] : s[0] = start /\ \A i \in 1 .. N : s[i] = next[<<i, s[i - 1]>>]
  BY <1>2 DEF Loops
<1>4. ASSUME NEW i \in 1 .. N
      PROVE  s[i] = step[s[i - 1]]
  <2>1. s[i - 1] \in S
    OBVIOUS
  <2>2. QED
    BY <1>3, <2>1
<1>5. QED
  BY <1>3, <1>4 DEF HasRounds, Iterating

\* A loop that makes something smaller on every round is over after as many
\* rounds as it was large.
Shrinks(S, step, size) == \A g \in S : /\ size[g] > 0 => size[step[g]] < size[g]
                                       /\ size[g] = 0 => size[step[g]] = 0

RunsDown(N, S, start, step, size, s) == s[N] \in S /\ size[s[N]] = 0

LEMMA LoopEnds ==
  ASSUME NEW N \in Nat, NEW S, NEW start \in S, NEW step \in [S -> S],
         NEW size \in [S -> Nat], size[start] <= N, Shrinks(S, step, size),
         NEW s, Iterating(N, S, start, step, s)
  PROVE  RunsDown(N, S, start, step, size, s)
<1> DEFINE T == {i \in Nat : i <= N => s[i] \in S /\ size[s[i]] <= N - i}
<1>1. 0 \in T
  BY DEF Iterating
<1>2. ASSUME NEW i \in Nat, i \in T
      PROVE  i + 1 \in T
  <2>1. SUFFICES ASSUME i + 1 <= N
                 PROVE  s[i + 1] \in S /\ size[s[i + 1]] <= N - (i + 1)
    OBVIOUS
  <2>2. s[i] \in S /\ size[s[i]] <= N - i
    BY <1>2, <2>1
  <2>3. s[i + 1] = step[s[i]]
    <3>1. i + 1 \in 1 .. N /\ (i + 1) - 1 = i
      BY <2>1
    <3>2. QED
      BY <2>2, <3>1 DEF Iterating
  <2>4. PICK g \in S : g = s[i]
    BY <2>2
  <2>5. PICK m \in Nat, k \in Nat : m = size[g] /\ k = size[step[g]]
    OBVIOUS
  <2>6. k <= N - (i + 1)
    BY <2>1, <2>2, <2>4, <2>5 DEF Shrinks
  <2>7. step[g] \in S
    OBVIOUS
  <2>8. QED
    BY <2>3, <2>4, <2>5, <2>6, <2>7
<1>3. \A i \in Nat : i \in T
  <2> HIDE DEF T
  <2>1. QED
    BY <1>1, <1>2, NatSetInduction
<1>4. s[N] \in S /\ size[s[N]] <= N - N
  BY <1>3
<1>5. size[s[N]] \in Nat
  BY <1>4
<1>6. QED
  BY <1>4, <1>5 DEF RunsDown
=============================================================================
