---------------------------- MODULE OtLawsProofs ----------------------------
(***************************************************************************)
(* Proofs about OtLaws, for documents, operations and texts of any length. *)
(*                                                                         *)
(* OtProofs says that two ways lead to one text; here it is which text.    *)
(* Row(r, G, N) is the text of the characters of r that are not in N, with *)
(* the texts G in the gaps, and Weave(r, p, q) the one that two operations *)
(* make together, each gap filled by p and then by q.  A component at the  *)
(* head of p or q makes the front of it (WeaveInsertA, WeaveInsertB,       *)
(* WeaveBoth), and what is behind is a row of its own (RowShifts).  So a   *)
(* round of transformOps keeps that what is built makes the front of what  *)
(* is woven (Weaving), and applyOp makes what one operation weaves alone   *)
(* (ApplyWeaves).  Normal forms (Neat), differences (Shared, Marked) and   *)
(* carets (CaretIs) follow the components one by one.                      *)
(***************************************************************************)
EXTENDS OtLaws, OtProofs, FiniteSetTheorems

----------------------------------------------------------------------------
\* Texts one behind the other.

Joins(x, y, z) == (x \o y) \o z = x \o (y \o z)

LEMMA JoinsUp ==
  ASSUME NEW U, NEW x \in Seq(U), NEW y \in Seq(U), NEW z \in Seq(U)
  PROVE  Joins(x, y, z)
BY JoinThree DEF Joins

LEMMA FlattenLaws ==
  ASSUME NEW U, NEW ss \in Seq(Seq(U))
  PROVE  /\ FlattenSeq(<<>>) = <<>>
         /\ FlattenSeq(ss) \in Seq(U)
         /\ \A t \in Seq(U) : FlattenSeq(Append(ss, t)) = FlattenSeq(ss) \o t
<1> DEFINE E == Seq(U)
           S == Seq(U)
           start == <<>>
           step == [x \in S \X E |-> x[1] \o x[2]]
           Values(o, s) == s = [i \in 1 .. Len(o) |->
                                  IF i = 1 THEN o[i] ELSE s[i - 1] \o o[i]]
           F == [o \in Seq(E) |-> FlattenSeq(o)]
<1>1. start \in S /\ step \in [S \X E -> S]
  <2>1. ASSUME NEW x \in S, NEW t \in E
        PROVE  x \o t \in S
    BY ConcatProperties
  <2>2. start \in S
    BY EmptySeq
  <2> HIDE DEF S, E, start
  <2>3. QED
    BY <2>1, <2>2
<1>2. ASSUME NEW o \in Seq(E)
      PROVE  \E s : Folding(S, start, step, o, s) /\ F[o] = s[Len(o)]
  <2>1. PICK n \in Nat : n = Len(o)
    BY LenProperties
  <2>2. PICK f \in [0 .. n -> S] : Folding(S, start, step, o, f)
    <3> HIDE DEF step, start, S, E
    <3>1. QED
      BY <1>1, <2>1, FoldExists
  <2>3. ASSUME NEW i \in 1 .. n, NEW s, s[i - 1] \in S
        PROVE  step[<<s[i - 1], o[i]>>] = s[i - 1] \o o[i]
    <3> HIDE DEF S, E
    <3>1. o[i] \in E
      BY <2>1
    <3>2. QED
      BY <2>3, <3>1 DEF step
  <2>4. CASE n = 0
    <3>1. o = <<>>
      BY <2>1, <2>4, EmptySeq
    <3>2. FlattenSeq(o) = <<>>
      BY <2>1, <2>4, <3>1 DEF FlattenSeq
    <3>3. f[0] = <<>>
      BY <2>2 DEF Folding
    <3>4. Len(o) = 0 /\ F[o] = f[0]
      BY <2>1, <2>4, <3>2, <3>3
    <3>5. QED
      BY <2>2, <3>4
  <2>5. CASE n # 0
    <3> DEFINE g == [i \in 1 .. n |-> f[i]]
    <3>1. \A i \in 1 .. n : o[i] \in Seq(U) /\ <<>> \o o[i] = o[i]
      BY <2>1, ConcatEmptySeq
    <3>2. Values(o, g)
      <4> HIDE DEF S, start, step
      <4>1. ASSUME NEW i \in 1 .. n
            PROVE  g[i] = IF i = 1 THEN o[i] ELSE g[i - 1] \o o[i]
        <5>1. i - 1 \in 0 .. n /\ (i # 1 => i - 1 \in 1 .. n)
          OBVIOUS
        <5>2. f[i] = f[i - 1] \o o[i]
          BY <2>1, <2>2, <2>3, <5>1 DEF Folding
        <5>3. f[0] = <<>>
          BY <2>2 DEF Folding, start
        <5>4. CASE i = 1
          <6>1. f[1] = f[0] \o o[1]
            BY <5>2, <5>4
          <6>2. f[1] = o[1]
            BY <3>1, <5>3, <5>4, <6>1
          <6>3. QED
            BY <5>4, <6>2
        <5>5. CASE i # 1
          BY <5>1, <5>2, <5>5
        <5>6. QED
          BY <5>4, <5>5
      <4>2. QED
        BY <2>1, <4>1
    <3>3. PICK s : s = (CHOOSE t : Values(o, t))
      OBVIOUS
    <3>4. Values(o, s)
      <4> HIDE DEF Values
      <4>1. QED
        BY <3>2, <3>3
    <3> DEFINE h == [i \in 0 .. n |-> IF i = 0 THEN <<>> ELSE s[i]]
    <3>5. ASSUME NEW i \in 1 .. n
          PROVE  h[i] = h[i - 1] \o o[i]
      <4>1. i - 1 \in 0 .. n /\ (i # 1 => i - 1 # 0)
        OBVIOUS
      <4>2. s[i] = IF i = 1 THEN o[i] ELSE s[i - 1] \o o[i]
        <5> HIDE DEF h
        <5>1. QED
          BY <2>1, <3>4
      <4>3. CASE i = 1
        <5>1. h[1] = o[1] /\ h[0] = <<>>
          BY <4>2, <4>3
        <5>2. <<>> \o o[1] = o[1]
          BY <3>1, <4>3
        <5>3. i - 1 = 0
          BY <4>3
        <5> HIDE DEF h
        <5>4. QED
          BY <4>3, <5>1, <5>2, <5>3
      <4>4. CASE i # 1
        <5>1. h[i - 1] = s[i - 1] /\ h[i] = s[i]
          BY <4>1, <4>4
        <5>2. QED
          BY <4>2, <4>4, <5>1
      <4>5. QED
        BY <4>3, <4>4
    <3>6. Folding(S, start, step, o, h)
      <4>1. h[0] = start
        OBVIOUS
      <4> HIDE DEF S, start, step, h
      <4>2. QED
        BY <2>1, <2>3, <3>5, <4>1 DEF Folding
    <3>7. F[o] = h[Len(o)]
      <4>1. n \in 0 .. n
        OBVIOUS
      <4>2. FlattenSeq(o) = s[Len(o)]
        BY <2>1, <2>5, <3>3 DEF FlattenSeq
      <4>3. QED
        BY <2>1, <2>5, <4>1, <4>2
    <3> HIDE DEF h
    <3>8. QED
      BY <3>6, <3>7
  <2>6. QED
    BY <2>4, <2>5
<1>3. /\ F[<<>>] = start
      /\ F[ss] \in S
      /\ \A t \in E : F[Append(ss, t)] = step[<<F[ss], t>>]
  <2>1. ss \in Seq(E)
    OBVIOUS
  <2> HIDE DEF F, step, start, S, E
  <2>2. FollowsFold(E, S, start, step, F)
    BY <1>1, <1>2, FoldLaw
  <2>3. QED
    BY <2>1, <2>2 DEF FollowsFold
<1>4. ASSUME NEW t \in E
      PROVE  FlattenSeq(Append(ss, t)) = FlattenSeq(ss) \o t
  <2>1. Append(ss, t) \in Seq(E)
    OBVIOUS
  <2> HIDE DEF S, E
  <2>2. F[ss] = FlattenSeq(ss) /\ F[Append(ss, t)] = FlattenSeq(Append(ss, t))
    BY <2>1 DEF E
  <2> HIDE DEF F
  <2>3. step[<<F[ss], t>>] = F[ss] \o t
    BY <1>3 DEF step
  <2>4. QED
    BY <1>3, <2>2, <2>3
<1>5. QED
  BY <1>3, <1>4

----------------------------------------------------------------------------
\* What an operation does to gaps and characters, component by component.

LEMMA FrontOfAppend ==
  ASSUME NEW E, NEW s \in Seq(E), NEW e \in E, NEW k \in 0 .. Len(s)
  PROVE  SubSeq(Append(s, e), 1, k) = SubSeq(s, 1, k) /\ SubSeq(s, 1, k) \in Seq(E)
<1>1. PICK n \in Nat : n = Len(s)
  BY LenProperties
<1>2. PICK more \in Seq(E) : more = Append(s, e)
  BY AppendProperties
<1>3. Len(more) = n + 1 /\ \A i \in 1 .. n : more[i] = s[i]
  BY <1>1, <1>2, AppendProperties
<1>4. SubSeq(s, 1, k) = [i \in 1 .. k |-> s[i]]
  BY <1>1
<1>5. SubSeq(more, 1, k) = [i \in 1 .. k |-> more[i]]
  BY <1>1, <1>3
<1>6. \A i \in 1 .. k : more[i] = s[i] /\ s[i] \in E
  BY <1>1, <1>3
<1>7. QED
  BY <1>1, <1>2, <1>4, <1>5, <1>6

LEMMA BeforeLaws ==
  ASSUME NEW U, NEW op \in Seq(Component(U)), NEW c \in Component(U)
  PROVE  /\ \A k \in 1 .. Len(op) : /\ Before(Append(op, c), k) = Before(op, k)
                                    /\ Before(op, k) \in Nat
         /\ Before(Append(op, c), Len(op) + 1) = opBaseLength(op)
         /\ opBaseLength(op) \in Nat
<1>1. PICK n \in Nat : n = Len(op)
  BY LenProperties
<1>2. ASSUME NEW k \in 0 .. n
      PROVE  SubSeq(Append(op, c), 1, k) = SubSeq(op, 1, k) /\ SubSeq(op, 1, k) \in Seq(Component(U))
  BY <1>1, FrontOfAppend
<1>3. ASSUME NEW k \in 1 .. n
      PROVE  Before(Append(op, c), k) = Before(op, k) /\ Before(op, k) \in Nat
  <2>1. k - 1 \in 0 .. n
    OBVIOUS
  <2>2. opBaseLength(SubSeq(op, 1, k - 1)) \in Nat
    BY <1>2, <2>1, BaseJoin
  <2>3. QED
    BY <1>2, <2>1, <2>2 DEF Before
<1>4. SubSeq(op, 1, n) = op
  BY <1>1
<1>5. SubSeq(Append(op, c), 1, n) = op
  BY <1>1, <1>2, <1>4
<1>6. (n + 1) - 1 = n
  OBVIOUS
<1>7. Before(Append(op, c), n + 1) = opBaseLength(op)
  BY <1>5, <1>6 DEF Before
<1>8. QED
  BY <1>1, <1>3, <1>7, BaseJoin

\* The text a component that starts at n puts into gap g.
Typing(c, n, g) == IF c.kind = "insert" /\ n = g THEN c.text ELSE <<>>

LEMMA FilledLaws ==
  ASSUME NEW U, NEW op \in Seq(Component(U)), NEW g
  PROVE  /\ Filled(<<>>, g) = <<>>
         /\ Filled(op, g) \in Seq(U)
         /\ \A c \in Component(U) :
              Filled(Append(op, c), g) = Filled(op, g) \o Typing(c, opBaseLength(op), g)
<1> DEFINE Parts(o) == [k \in 1 .. Len(o) |-> Typing(o[k], Before(o, k), g)]
<1>1. ASSUME NEW o \in Seq(Component(U))
      PROVE  Filled(o, g) = FlattenSeq(Parts(o)) /\ Parts(o) \in Seq(Seq(U)) /\ Len(Parts(o)) = Len(o)
  <2>1. DOMAIN o = 1 .. Len(o) /\ Len(o) \in Nat
    BY LenProperties
  <2>2. \A k \in 1 .. Len(o) : Typing(o[k], Before(o, k), g) \in Seq(U)
    <3>1. \A k \in 1 .. Len(o) : o[k] \in Component(U)
      OBVIOUS
    <3>2. QED
      BY <3>1, PartType, EmptySeq DEF Typing
  <2>3. Filled(o, g) = FlattenSeq(Parts(o))
    BY <2>1 DEF Filled, Typing
  <2>4. QED
    BY <2>1, <2>2, <2>3
<1>2. Filled(<<>>, g) = <<>>
  <2>1. <<>> \in Seq(Component(U)) /\ Len(<<>>) = 0
    BY EmptySeq
  <2>2. Parts(<<>>) \in Seq(Seq(U)) /\ Len(Parts(<<>>)) = 0
    BY <1>1, <2>1
  <2>3. Parts(<<>>) = <<>>
    BY <2>2, EmptySeq
  <2>4. <<>> \in Seq(Seq(U))
    BY EmptySeq
  <2>5. FlattenSeq(<<>>) = <<>>
    BY <2>4, FlattenLaws
  <2>6. QED
    BY <1>1, <2>1, <2>3, <2>5
<1>3. Filled(op, g) \in Seq(U)
  <2> HIDE DEF Parts
  <2>1. QED
    BY <1>1, FlattenLaws
<1>4. ASSUME NEW c \in Component(U)
      PROVE  Filled(Append(op, c), g) = Filled(op, g) \o Typing(c, opBaseLength(op), g)
  <2>1. PICK n \in Nat : n = Len(op)
    BY LenProperties
  <2>2. PICK more \in Seq(Component(U)) : more = Append(op, c)
    BY AppendProperties
  <2>3. /\ Len(more) = n + 1 /\ more[n + 1] = c
        /\ \A i \in 1 .. n : more[i] = op[i]
    BY <2>1, <2>2, AppendProperties
  <2>4. /\ \A k \in 1 .. n : Before(more, k) = Before(op, k)
        /\ Before(more, n + 1) = opBaseLength(op)
    BY <2>1, <2>2, BeforeLaws
  <2>5. PICK t : t = Typing(c, opBaseLength(op), g)
    OBVIOUS
  <2>6. t \in Seq(U)
    BY <2>5, PartType, EmptySeq DEF Typing
  <2>7. /\ Parts(op) \in Seq(Seq(U)) /\ Len(Parts(op)) = n
        /\ Parts(more) \in Seq(Seq(U)) /\ Len(Parts(more)) = n + 1
    BY <1>1, <2>1, <2>3
  <2>8. ASSUME NEW k \in 1 .. n
        PROVE  Parts(more)[k] = Parts(op)[k]
    <3>1. k \in 1 .. n + 1
      OBVIOUS
    <3>2. Parts(more)[k] = Typing(op[k], Before(op, k), g)
      BY <2>3, <2>4, <3>1
    <3>3. QED
      BY <2>1, <3>2
  <2>9. Parts(more)[n + 1] = t
    <3>1. n + 1 \in 1 .. n + 1
      OBVIOUS
    <3>2. QED
      BY <2>3, <2>4, <2>5, <3>1
  <2>10. Parts(more) = Append(Parts(op), t)
    <3>1. PICK x, y : x = Parts(op) /\ y = Parts(more)
      OBVIOUS
    <3> HIDE DEF Parts
    <3>2. /\ x \in Seq(Seq(U)) /\ Len(x) = n /\ y \in Seq(Seq(U)) /\ Len(y) = n + 1
          /\ \A k \in 1 .. n : y[k] = x[k]
          /\ y[n + 1] = t
      BY <2>7, <2>8, <2>9, <3>1
    <3>3. Append(x, t) \in Seq(Seq(U)) /\ Len(Append(x, t)) = n + 1
      BY <2>6, <3>2, AppendProperties
    <3>4. \A k \in 1 .. n + 1 : Append(x, t)[k] = y[k]
      BY <2>6, <3>2, AppendProperties
    <3>5. QED
      BY <3>1, <3>2, <3>3, <3>4, SeqEqual
  <2>11. FlattenSeq(Append(Parts(op), t)) = FlattenSeq(Parts(op)) \o t
    <3> HIDE DEF Parts
    <3>1. QED
      BY <2>6, <2>7, FlattenLaws
  <2> HIDE DEF Parts
  <2>12. QED
    BY <1>1, <2>2, <2>5, <2>10, <2>11
<1>5. QED
  BY <1>2, <1>3, <1>4

\* What a component that starts at n deletes.
Erases(c, n, i) == c.kind = "delete" /\ n < i /\ i <= n + c.n

LEMMA DeletesLaws ==
  ASSUME NEW U, NEW op \in Seq(Component(U)), NEW i
  PROVE  /\ ~Deletes(<<>>, i)
         /\ \A c \in Component(U) :
              Deletes(Append(op, c), i) <=> Deletes(op, i) \/ Erases(c, opBaseLength(op), i)
<1>1. ASSUME NEW o \in Seq(Component(U))
      PROVE  Deletes(o, i) <=> \E k \in 1 .. Len(o) : Erases(o[k], Before(o, k), i)
  <2>1. DOMAIN o = 1 .. Len(o)
    BY LenProperties
  <2>2. QED
    BY <2>1 DEF Deletes, Erases
<1>2. ~Deletes(<<>>, i)
  BY DEF Deletes
<1>3. ASSUME NEW c \in Component(U)
      PROVE  Deletes(Append(op, c), i) <=> Deletes(op, i) \/ Erases(c, opBaseLength(op), i)
  <2>1. PICK n \in Nat : n = Len(op)
    BY LenProperties
  <2>2. PICK more \in Seq(Component(U)) : more = Append(op, c)
    BY AppendProperties
  <2>3. /\ Len(more) = n + 1 /\ more[n + 1] = c
        /\ \A k \in 1 .. n : more[k] = op[k]
    BY <2>1, <2>2, AppendProperties
  <2>4. /\ \A k \in 1 .. n : Before(more, k) = Before(op, k)
        /\ Before(more, n + 1) = opBaseLength(op)
    BY <2>1, <2>2, BeforeLaws
  <2>5. \A k \in 1 .. n : Erases(more[k], Before(more, k), i) <=> Erases(op[k], Before(op, k), i)
    BY <2>3, <2>4
  <2>6. Erases(more[n + 1], Before(more, n + 1), i) <=> Erases(c, opBaseLength(op), i)
    BY <2>3, <2>4
  <2>7. \A k \in 1 .. n + 1 : k \in 1 .. n \/ k = n + 1
    OBVIOUS
  <2>8. n + 1 \in 1 .. n + 1 /\ \A k \in 1 .. n : k \in 1 .. n + 1
    OBVIOUS
  <2>9. QED
    BY <1>1, <2>1, <2>2, <2>3, <2>5, <2>6, <2>7, <2>8
<1>4. QED
  BY <1>2, <1>3

\* One operation behind the other.
LEMMA JoinLaws ==
  ASSUME NEW U, NEW p \in Seq(Component(U)), NEW q \in Seq(Component(U)), NEW g \in Int
  PROVE  /\ Filled(p \o q, g) = Filled(p, g) \o Filled(q, g - opBaseLength(p))
         /\ Deletes(p \o q, g) <=> Deletes(p, g) \/ Deletes(q, g - opBaseLength(p))
<1>1. PICK E : E = Component(U)
  OBVIOUS
<1>2. PICK n \in Nat, h \in Int : n = opBaseLength(p) /\ h = g - n
  BY BaseJoin
<1> DEFINE Good(o) == /\ Filled(p \o o, g) = Filled(p, g) \o Filled(o, h)
                      /\ Deletes(p \o o, g) <=> Deletes(p, g) \/ Deletes(o, h)
           T == {o \in Seq(E) : Good(o)}
<1>3. <<>> \in T
  <2>1. <<>> \in Seq(Component(U)) /\ p \o <<>> = p
    BY EmptySeq, ConcatEmptySeq
  <2>2. Filled(<<>>, h) = <<>> /\ ~Deletes(<<>>, h)
    BY <2>1, FilledLaws, DeletesLaws
  <2>3. Filled(p, g) \in Seq(U)
    BY FilledLaws
  <2>4. Filled(p, g) \o <<>> = Filled(p, g)
    BY <2>3, ConcatEmptySeq
  <2>5. QED
    BY <1>1, <2>1, <2>2, <2>4
<1>4. ASSUME NEW o \in Seq(E), NEW c \in E, o \in T
      PROVE  Append(o, c) \in T
  <2>1. Append(o, c) \in Seq(E) /\ p \o o \in Seq(E) /\ p \o Append(o, c) = Append(p \o o, c)
    <3>1. p \in Seq(E)
      BY <1>1
    <3>2. QED
      BY <3>1, AppendProperties, ConcatProperties
  <2>2. PICK k \in Nat : k = opBaseLength(o)
    BY <1>1, BaseJoin
  <2>3. opBaseLength(p \o o) = n + k
    BY <1>1, <1>2, <2>2, BaseJoin
  <2>4. PICK x, y, z : x = Filled(p, g) /\ y = Filled(o, h) /\ z = Typing(c, k, h)
    OBVIOUS
  <2>5. x \in Seq(U) /\ y \in Seq(U) /\ z \in Seq(U)
    BY <1>1, <2>4, FilledLaws, PartType, EmptySeq DEF Typing
  <2>6. Typing(c, n + k, g) = z /\ (Erases(c, n + k, g) <=> Erases(c, k, h))
    <3>1. c.n \in Nat
      BY <1>1, PartType
    <3>2. /\ n + k = g <=> k = h
          /\ n + k < g <=> k < h
          /\ g <= n + k + c.n <=> h <= k + c.n
      BY <1>2, <3>1
    <3>3. QED
      BY <2>4, <3>2 DEF Typing, Erases
  <2>7. Filled(p \o o, g) = x \o y
    BY <1>4, <2>4
  <2>8. Filled(Append(p \o o, c), g) = Filled(p \o o, g) \o Typing(c, n + k, g)
    BY <1>1, <2>1, <2>3, FilledLaws
  <2>9. Filled(Append(o, c), h) = y \o z
    BY <1>1, <2>2, <2>4, FilledLaws
  <2>10. (x \o y) \o z = x \o (y \o z)
    <3>1. Joins(x, y, z)
      BY <2>5, JoinsUp
    <3>2. QED
      BY <3>1 DEF Joins
  <2>11. Filled(p \o Append(o, c), g) = Filled(p, g) \o Filled(Append(o, c), h)
    BY <2>1, <2>4, <2>6, <2>7, <2>8, <2>9, <2>10
  <2>12. Deletes(Append(p \o o, c), g) <=> Deletes(p \o o, g) \/ Erases(c, n + k, g)
    BY <1>1, <2>1, <2>3, DeletesLaws
  <2>13. Deletes(Append(o, c), h) <=> Deletes(o, h) \/ Erases(c, k, h)
    BY <1>1, <2>2, DeletesLaws
  <2>14. Deletes(p \o o, g) <=> Deletes(p, g) \/ Deletes(o, h)
    BY <1>4
  <2>15. Deletes(p \o Append(o, c), g) <=> Deletes(p, g) \/ Deletes(Append(o, c), h)
    BY <2>1, <2>6, <2>12, <2>13, <2>14
  <2>16. QED
    BY <2>1, <2>11, <2>15
<1>5. \A o \in Seq(E) : o \in T
  <2> HIDE DEF T
  <2>1. QED
    BY <1>3, <1>4, SeqSetInduction
<1>6. QED
  BY <1>1, <1>2, <1>5

\* One component, and an operation behind it.
LEMMA FirstLaws ==
  ASSUME NEW U, NEW c \in Component(U), NEW q \in Seq(Component(U)), NEW g \in Int
  PROVE  /\ Filled(<<c>> \o q, g) = Typing(c, 0, g) \o Filled(q, g - c.n)
         /\ Deletes(<<c>> \o q, g) <=> Erases(c, 0, g) \/ Deletes(q, g - c.n)
         /\ <<c>> \o q \in Seq(Component(U)) /\ Typing(c, 0, g) \in Seq(U)
<1>1. <<c>> \in Seq(Component(U)) /\ opBaseLength(<<c>>) = c.n
  BY SingleBase
<1>2. PICK one \in Seq(Component(U)) : one = <<c>>
  BY <1>1
<1>3. /\ Filled(one \o q, g) = Filled(one, g) \o Filled(q, g - opBaseLength(one))
      /\ Deletes(one \o q, g) <=> Deletes(one, g) \/ Deletes(q, g - opBaseLength(one))
  BY JoinLaws
<1>4. <<>> \in Seq(Component(U)) /\ one = Append(<<>>, c)
  BY <1>2, EmptySeq
<1>5. opBaseLength(<<>>) = 0 /\ Filled(<<>>, g) = <<>> /\ ~Deletes(<<>>, g)
  BY <1>4, BaseLaws, FilledLaws, DeletesLaws
<1>6. Typing(c, 0, g) \in Seq(U)
  BY PartType, EmptySeq DEF Typing
<1>7. Filled(one, g) = Typing(c, 0, g)
  <2>1. Filled(Append(<<>>, c), g) = Filled(<<>>, g) \o Typing(c, opBaseLength(<<>>), g)
    <3>1. PICK none \in Seq(Component(U)) : none = <<>>
      BY <1>4
    <3>2. Filled(Append(none, c), g) = Filled(none, g) \o Typing(c, opBaseLength(none), g)
      BY FilledLaws
    <3>3. QED
      BY <3>1, <3>2
  <2>2. Filled(one, g) = <<>> \o Typing(c, 0, g)
    BY <1>4, <1>5, <2>1
  <2>3. <<>> \o Typing(c, 0, g) = Typing(c, 0, g)
    BY <1>6, ConcatEmptySeq
  <2>4. QED
    BY <2>2, <2>3
<1>8. Deletes(one, g) <=> Erases(c, 0, g)
  BY <1>4, <1>5, DeletesLaws
<1>9. one \o q \in Seq(Component(U))
  BY ConcatProperties
<1>10. QED
  BY <1>1, <1>2, <1>3, <1>6, <1>7, <1>8, <1>9

\* An operation fills no gap before the document and deletes nothing there.
LEMMA NothingBefore ==
  ASSUME NEW U, NEW op \in Seq(Component(U)), NEW g \in Int
  PROVE  /\ g < 0 => Filled(op, g) = <<>>
         /\ g <= 0 => ~Deletes(op, g)
<1> DEFINE T == {o \in Seq(Component(U)) : /\ g < 0 => Filled(o, g) = <<>>
                                           /\ g <= 0 => ~Deletes(o, g)}
<1>1. <<>> \in T
  <2>1. <<>> \in Seq(Component(U))
    BY EmptySeq
  <2>2. QED
    BY <2>1, FilledLaws, DeletesLaws
<1>2. ASSUME NEW o \in Seq(Component(U)), NEW c \in Component(U), o \in T
      PROVE  Append(o, c) \in T
  <2>1. Append(o, c) \in Seq(Component(U))
    BY AppendProperties
  <2>2. PICK k \in Nat : k = opBaseLength(o)
    BY BaseJoin
  <2>3. /\ Filled(Append(o, c), g) = Filled(o, g) \o Typing(c, k, g)
        /\ Deletes(Append(o, c), g) <=> Deletes(o, g) \/ Erases(c, k, g)
    BY <2>2, FilledLaws, DeletesLaws
  <2>4. g < 0 => Typing(c, k, g) = <<>>
    BY DEF Typing
  <2>5. g <= 0 => ~Erases(c, k, g)
    BY DEF Erases
  <2>6. <<>> \o <<>> = <<>>
    OBVIOUS
  <2>7. QED
    BY <1>2, <2>1, <2>3, <2>4, <2>5, <2>6
<1>3. QED
  <2> HIDE DEF T
  <2>1. \A o \in Seq(Component(U)) : o \in T
    BY <1>1, <1>2, SeqSetInduction
  <2>2. QED
    BY <2>1 DEF T

\* From character n on, op does what q does, and with the n before all the same.
Behind(U, op, n, q, del) ==
  /\ \A g \in Nat : Filled(op, n + g) = Filled(q, g) /\ (g < n => Filled(op, g) = <<>>)
  /\ \A i \in Nat \ {0} : Deletes(op, n + i) <=> Deletes(q, i)
  /\ \A i \in 1 .. n : Deletes(op, i) <=> del

LEMMA BehindNone ==
  ASSUME NEW U, NEW n \in Nat
  PROVE  Behind(U, <<>>, n, <<>>, FALSE)
<1>1. <<>> \in Seq(Component(U))
  BY EmptySeq
<1>2. PICK none \in Seq(Component(U)) : none = <<>>
  BY <1>1
<1>3. \A g : Filled(none, g) = <<>> /\ ~Deletes(none, g)
  BY <1>2, FilledLaws, DeletesLaws
<1>4. QED
  BY <1>2, <1>3 DEF Behind

\* What is consumed of a retain or a delete.
LEMMA BehindConsumed ==
  ASSUME NEW U, NEW op \in Seq(Component(U)), op # <<>>, Head(op).kind # "insert",
         NEW n \in Nat \ {0}, n <= Head(op).n
  PROVE  /\ Consume(op, n) \in Seq(Component(U))
         /\ Behind(U, op, n, Consume(op, n), Head(op).kind = "delete")
<1>1. PICK c \in Component(U), q \in Seq(Component(U)) :
        c = Head(op) /\ q = Tail(op) /\ op = <<c>> \o q
  <2>1. /\ Head(op) \in Component(U) /\ Tail(op) \in Seq(Component(U))
        /\ op = <<Head(op)>> \o Tail(op)
    BY HeadRest
  <2>2. QED
    BY <2>1
<1>2. PICK k \in Nat \ {0} : k = c.n /\ n <= k
  BY <1>1, PartType
<1>3. ASSUME NEW g \in Int
      PROVE  /\ Filled(op, g) = Filled(q, g - k)
             /\ Deletes(op, g) <=> (c.kind = "delete" /\ 0 < g /\ g <= k) \/ Deletes(q, g - k)
  <2>1. /\ Filled(<<c>> \o q, g) = Typing(c, 0, g) \o Filled(q, g - c.n)
        /\ Deletes(<<c>> \o q, g) <=> Erases(c, 0, g) \/ Deletes(q, g - c.n)
    BY FirstLaws
  <2>2. Typing(c, 0, g) = <<>>
    BY <1>1 DEF Typing
  <2>3. Erases(c, 0, g) <=> c.kind = "delete" /\ 0 < g /\ g <= k
    BY <1>2 DEF Erases
  <2>4. g - k \in Int
    OBVIOUS
  <2>5. Filled(q, g - k) \in Seq(U)
    BY <2>4, FilledLaws
  <2>6. <<>> \o Filled(q, g - k) = Filled(q, g - k)
    BY <2>5, ConcatEmptySeq
  <2>7. QED
    BY <1>1, <1>2, <2>1, <2>2, <2>3, <2>6
<1>4. ASSUME NEW g \in Int
      PROVE  (g < 0 => Filled(q, g) = <<>>) /\ (g <= 0 => ~Deletes(q, g))
  BY NothingBefore
<1>5. Extent(c) = k
  BY <1>1, <1>2 DEF Extent
<1>6. \A g \in Nat : g < n => Filled(op, g) = <<>>
  <2>1. SUFFICES ASSUME NEW g \in Nat, g < n
                 PROVE  Filled(op, g) = <<>>
    OBVIOUS
  <2>2. g - k \in Int /\ g - k < 0 /\ g \in Int
    BY <1>2, <2>1
  <2>3. QED
    BY <1>3, <1>4, <2>2
<1>7. \A i \in 1 .. n : Deletes(op, i) <=> c.kind = "delete"
  <2>1. SUFFICES ASSUME NEW i \in 1 .. n
                 PROVE  Deletes(op, i) <=> c.kind = "delete"
    OBVIOUS
  <2>2. i - k \in Int /\ i - k <= 0 /\ i \in Int /\ 0 < i /\ i <= k
    BY <1>2
  <2>3. QED
    BY <1>3, <1>4, <2>2
<1>8. CASE n = k
  <2>1. Consume(op, n) = q
    BY <1>1, <1>5, <1>8 DEF Consume
  <2>2. ASSUME NEW g \in Nat
        PROVE  Filled(op, n + g) = Filled(q, g) /\ (g # 0 => (Deletes(op, n + g) <=> Deletes(q, g)))
    <3>1. n + g \in Int /\ (n + g) - k = g /\ (g # 0 => ~(n + g <= k))
      BY <1>8
    <3>2. QED
      BY <1>3, <3>1
  <2>3. QED
    BY <1>1, <1>6, <1>7, <2>1, <2>2 DEF Behind
<1>9. CASE n # k
  <2>1. n < k
    BY <1>2, <1>9
  <2>2. PICK d : d = Rest(c, n)
    OBVIOUS
  <2>3. Consume(op, n) = <<d>> \o q
    BY <1>1, <1>5, <2>1, <2>2 DEF Consume
  <2>4. d \in Component(U) /\ d.n = k - n /\ d.kind = c.kind
    <3>1. k - n \in Nat \ {0}
      BY <2>1
    <3>2. c = Retain(k) \/ c = Delete(k)
      BY <1>1, <1>2, PartType
    <3>3. c = Retain(k) => d = Retain(k - n)
      BY <2>2 DEF Rest, Retain
    <3>4. c = Delete(k) => d = Delete(k - n)
      BY <2>2 DEF Rest, Delete
    <3>5. QED
      BY <3>1, <3>2, <3>3, <3>4, PartsAre, RetainIs, DeleteIs
  <2>5. ASSUME NEW g \in Int
        PROVE  /\ Filled(<<d>> \o q, g) = Filled(q, g - (k - n))
               /\ Deletes(<<d>> \o q, g) <=> (c.kind = "delete" /\ 0 < g /\ g <= k - n) \/ Deletes(q, g - (k - n))
               /\ <<d>> \o q \in Seq(Component(U))
    <3>1. /\ Filled(<<d>> \o q, g) = Typing(d, 0, g) \o Filled(q, g - d.n)
          /\ Deletes(<<d>> \o q, g) <=> Erases(d, 0, g) \/ Deletes(q, g - d.n)
          /\ <<d>> \o q \in Seq(Component(U))
      BY <2>4, FirstLaws
    <3>2. Typing(d, 0, g) = <<>>
      BY <1>1, <2>4 DEF Typing
    <3>3. Erases(d, 0, g) <=> c.kind = "delete" /\ 0 < g /\ g <= k - n
      BY <1>3, <2>4 DEF Erases
    <3>4. PICK h \in Int : h = g - (k - n)
      OBVIOUS
    <3>5. Filled(q, h) \in Seq(U)
      BY FilledLaws
    <3>6. <<>> \o Filled(q, h) = Filled(q, h)
      BY <3>5, ConcatEmptySeq
    <3>7. QED
      BY <2>4, <3>1, <3>2, <3>3, <3>4, <3>6
  <2>6. ASSUME NEW g \in Nat
        PROVE  /\ Filled(op, n + g) = Filled(<<d>> \o q, g)
               /\ g # 0 => (Deletes(op, n + g) <=> Deletes(<<d>> \o q, g))
    <3>1. /\ n + g \in Int /\ g \in Int /\ (n + g) - k = g - (k - n)
          /\ n + g <= k <=> g <= k - n
          /\ 0 < n + g /\ (g # 0 => 0 < g)
      OBVIOUS
    <3>2. QED
      BY <1>3, <2>5, <3>1
  <2>7. 0 \in Int
    OBVIOUS
  <2>8. <<d>> \o q \in Seq(Component(U))
    BY <2>5, <2>7
  <2>9. QED
    BY <1>1, <1>6, <1>7, <2>3, <2>6, <2>8 DEF Behind
<1>10. QED
  BY <1>8, <1>9

\* What op inserts first, and the rest.
Inserting(U, op, t, q) ==
  /\ t \in Seq(U) /\ Filled(op, 0) = t \o Filled(q, 0)
  /\ \A g \in Nat \ {0} : Filled(op, g) = Filled(q, g) /\ (Deletes(op, g) <=> Deletes(q, g))

LEMMA InsertedFirst ==
  ASSUME NEW U, NEW op \in Seq(Component(U)), op # <<>>, Head(op).kind = "insert"
  PROVE  Inserting(U, op, Head(op).text, Tail(op))
<1>1. PICK c \in Component(U), q \in Seq(Component(U)) :
        c = Head(op) /\ q = Tail(op) /\ op = <<c>> \o q
  <2>1. /\ Head(op) \in Component(U) /\ Tail(op) \in Seq(Component(U))
        /\ op = <<Head(op)>> \o Tail(op)
    BY HeadRest
  <2>2. QED
    BY <2>1
<1>2. c.n = 0 /\ c.text \in Seq(U)
  BY <1>1, PartType
<1>3. ASSUME NEW g \in Int
      PROVE  /\ Filled(op, g) = Typing(c, 0, g) \o Filled(q, g)
             /\ Deletes(op, g) <=> Deletes(q, g)
  <2>1. /\ Filled(<<c>> \o q, g) = Typing(c, 0, g) \o Filled(q, g - c.n)
        /\ Deletes(<<c>> \o q, g) <=> Erases(c, 0, g) \/ Deletes(q, g - c.n)
    BY FirstLaws
  <2>2. g - c.n = g
    BY <1>2
  <2>3. ~Erases(c, 0, g)
    BY <1>1 DEF Erases
  <2>4. QED
    BY <1>1, <2>1, <2>2, <2>3
<1>4. Typing(c, 0, 0) = c.text /\ \A g \in Nat \ {0} : Typing(c, 0, g) = <<>>
  BY <1>1 DEF Typing
<1>5. ASSUME NEW g \in Nat \ {0}
      PROVE  Filled(op, g) = Filled(q, g)
  <2>1. Filled(q, g) \in Seq(U)
    BY FilledLaws
  <2>2. <<>> \o Filled(q, g) = Filled(q, g)
    BY <2>1, ConcatEmptySeq
  <2>3. g \in Int
    OBVIOUS
  <2>4. QED
    BY <1>3, <1>4, <2>2, <2>3
<1>6. 0 \in Int /\ \A g \in Nat \ {0} : g \in Int
  OBVIOUS
<1>7. QED
  BY <1>1, <1>2, <1>3, <1>4, <1>5, <1>6 DEF Inserting

LEMMA FilledLater ==
  ASSUME NEW U, NEW op \in Seq(Component(U)), op # <<>> => Head(op).kind # "insert"
  PROVE  Filled(op, 0) = <<>>
<1>1. CASE op = <<>>
  BY <1>1, FilledLaws
<1>2. CASE op # <<>>
  <2>1. Head(op).n \in Nat \ {0}
    BY <1>2, HeadRest, PartType
  <2>2. Behind(U, op, 1, Consume(op, 1), Head(op).kind = "delete")
    <3>1. 1 \in Nat \ {0} /\ 1 <= Head(op).n
      BY <2>1
    <3>2. QED
      BY <1>2, <3>1, BehindConsumed
  <2>3. QED
    BY <2>2 DEF Behind
<1>3. QED
  BY <1>1, <1>2

----------------------------------------------------------------------------
Texts4(U, x, y, z, w) == x \in Seq(U) /\ y \in Seq(U) /\ z \in Seq(U) /\ w \in Seq(U)

LEMMA TextsJoin ==
  ASSUME NEW U, NEW x, NEW y, NEW z, NEW w, Texts4(U, x, y, z, w)
  PROVE  x \o y \in Seq(U) /\ (x \o y) \o z = x \o (y \o z)
<1>1. x \in Seq(U) /\ y \in Seq(U) /\ z \in Seq(U)
  BY DEF Texts4
<1>2. Joins(x, y, z)
  BY <1>1, JoinsUp
<1>3. QED
  BY <1>1, <1>2, ConcatProperties DEF Joins

LEMMA TextsJoinUp ==
  ASSUME NEW U, NEW x, NEW y, NEW z, NEW w, Texts4(U, x, y, z, w)
  PROVE  Joins(x, y, z)
BY JoinsUp DEF Texts4

LEMMA JoinFour ==
  ASSUME NEW U, NEW x, NEW y, NEW z, NEW w, Texts4(U, x, y, z, w)
  PROVE  ((x \o y) \o z) \o w = x \o ((y \o z) \o w) /\ ((x \o y) \o z) \o w = x \o (y \o (z \o w))
<1>1. PICK v : v = y \o z
  OBVIOUS
<1>2. x \in Seq(U) /\ y \in Seq(U) /\ z \in Seq(U) /\ w \in Seq(U)
  BY DEF Texts4
<1>3. v \in Seq(U)
  BY <1>1, <1>2, ConcatProperties
<1>4. Joins(x, y, z) /\ Joins(y, z, w)
  BY <1>2, JoinsUp
<1>5. Joins(x, v, w)
  BY <1>2, <1>3, JoinsUp
<1>6. (x \o y) \o z = x \o v /\ v \o w = y \o (z \o w)
  BY <1>1, <1>4 DEF Joins
<1>7. (x \o v) \o w = x \o (v \o w)
  BY <1>5 DEF Joins
<1>8. QED
  BY <1>1, <1>6, <1>7

JoinsAround(x, y, z, w) == ((x \o y) \o z) \o w = x \o ((y \o z) \o w)

LEMMA JoinFourAround ==
  ASSUME NEW U, NEW x, NEW y, NEW z, NEW w, Texts4(U, x, y, z, w)
  PROVE  JoinsAround(x, y, z, w)
BY JoinFour DEF JoinsAround

\* The characters of r that are not in N, with the texts G in the gaps.

Stays(e, i, N) == IF i \in N THEN <<>> ELSE <<e>>

Gapped(U, G) == \A g \in Nat : G[g] \in Seq(U)

Bit(r, G, N, i) == Stays(r[i], i, N) \o G[i]

Row(r, G, N) == G[0] \o FlattenSeq([i \in 1 .. Len(r) |-> Bit(r, G, N, i)])

RowStep(r, G, N, e, n) == (Row(r, G, N) \o Stays(e, n, N)) \o G[n]

Longer(U, r, G, e, n) ==
  r \in Seq(U) /\ Gapped(U, G) /\ e \in U /\ n \in Nat /\ n = Len(r) + 1

LEMMA RowLaws ==
  ASSUME NEW U, NEW r \in Seq(U), NEW G, Gapped(U, G), NEW N
  PROVE  /\ Row(<<>>, G, N) = G[0]
         /\ Row(r, G, N) \in Seq(U)
<1> DEFINE Bits(x) == [i \in 1 .. Len(x) |-> Bit(x, G, N, i)]
<1>1. \A g \in Nat : G[g] \in Seq(U)
  BY DEF Gapped
<1>2. ASSUME NEW x \in Seq(U)
      PROVE  /\ Row(x, G, N) = G[0] \o FlattenSeq(Bits(x))
             /\ Bits(x) \in Seq(Seq(U)) /\ Len(Bits(x)) = Len(x)
  <2>1. Len(x) \in Nat
    BY LenProperties
  <2>2. ASSUME NEW i \in 1 .. Len(x)
        PROVE  Bit(x, G, N, i) \in Seq(U)
    <3>1. Stays(x[i], i, N) \in Seq(U)
      BY EmptySeq DEF Stays
    <3>2. i \in Nat
      BY <2>1
    <3>3. QED
      BY <1>1, <3>1, <3>2, ConcatProperties DEF Bit
  <2>3. QED
    BY <2>1, <2>2 DEF Row
<1>3. Row(<<>>, G, N) = G[0]
  <2>1. <<>> \in Seq(U) /\ Len(<<>>) = 0
    BY EmptySeq
  <2>2. Bits(<<>>) \in Seq(Seq(U)) /\ Len(Bits(<<>>)) = 0
    BY <1>2, <2>1
  <2>3. Bits(<<>>) = <<>>
    BY <2>2, EmptySeq
  <2>4. FlattenSeq(<<>>) = <<>>
    <3>1. <<>> \in Seq(Seq(U))
      BY EmptySeq
    <3>2. QED
      BY <3>1, FlattenLaws
  <2>5. G[0] \o <<>> = G[0]
    BY <1>1, ConcatEmptySeq
  <2>6. QED
    BY <1>2, <2>1, <2>3, <2>4, <2>5
<1>4. FlattenSeq(Bits(r)) \in Seq(U)
  <2> HIDE DEF Bits
  <2>1. QED
    BY <1>2, FlattenLaws
<1>5. Row(r, G, N) \in Seq(U)
  <2>1. PICK h \in Seq(U), f \in Seq(U) : h = FlattenSeq(Bits(r)) /\ f = G[0]
    BY <1>1, <1>4
  <2>2. f \o h \in Seq(U)
    BY ConcatProperties
  <2> HIDE DEF Bits
  <2>3. QED
    BY <1>2, <2>1, <2>2
<1>6. QED
  BY <1>3, <1>5

LEMMA RowGrows ==
  ASSUME NEW U, NEW r \in Seq(U), NEW G, NEW N, NEW e \in U, NEW n \in Nat, Longer(U, r, G, e, n)
  PROVE  Row(Append(r, e), G, N) = RowStep(r, G, N, e, n)
<1> DEFINE Bits(x) == [i \in 1 .. Len(x) |-> Bit(x, G, N, i)]
<1>1. n = Len(r) + 1 /\ \A g \in Nat : G[g] \in Seq(U)
  BY DEF Longer, Gapped
<1>2. ASSUME NEW x \in Seq(U)
      PROVE  /\ Row(x, G, N) = G[0] \o FlattenSeq(Bits(x))
             /\ Bits(x) \in Seq(Seq(U)) /\ Len(Bits(x)) = Len(x)
  <2>1. Len(x) \in Nat
    BY LenProperties
  <2>2. ASSUME NEW i \in 1 .. Len(x)
        PROVE  Bit(x, G, N, i) \in Seq(U)
    <3>1. Stays(x[i], i, N) \in Seq(U)
      BY EmptySeq DEF Stays
    <3>2. i \in Nat
      BY <2>1
    <3>3. QED
      BY <1>1, <3>1, <3>2, ConcatProperties DEF Bit
  <2>3. QED
    BY <2>1, <2>2 DEF Row
<1>3. FlattenSeq(Bits(r)) \in Seq(U)
  <2> HIDE DEF Bits
  <2>1. QED
    BY <1>2, FlattenLaws
<1>4. Row(Append(r, e), G, N) = (Row(r, G, N) \o Stays(e, n, N)) \o G[n]
  <2>1. PICK k \in Nat : k = Len(r)
    BY LenProperties
  <2>2. PICK more \in Seq(U) : more = Append(r, e)
    BY AppendProperties
  <2>3. n = k + 1 /\ Len(more) = n /\ more[n] = e /\ \A i \in 1 .. k : more[i] = r[i]
    BY <1>1, <2>1, <2>2, AppendProperties
  <2>4. PICK x, y, t : x = Bits(r) /\ y = Bits(more) /\ t = Bit(more, G, N, n)
    OBVIOUS
  <2>5. /\ x \in Seq(Seq(U)) /\ Len(x) = k
        /\ y \in Seq(Seq(U)) /\ Len(y) = n
    <3> HIDE DEF Bits
    <3>1. QED
      BY <1>2, <2>1, <2>3, <2>4
  <2>6. \A i \in 1 .. k : y[i] = x[i]
    <3>1. SUFFICES ASSUME NEW i \in 1 .. k
                   PROVE  y[i] = x[i]
      OBVIOUS
    <3>2. i \in 1 .. Len(more) /\ i \in 1 .. Len(r)
      BY <2>1, <2>3
    <3>3. Bit(more, G, N, i) = Bit(r, G, N, i)
      BY <2>3 DEF Bit
    <3>4. QED
      BY <2>4, <3>2, <3>3
  <2>7. y[n] = t
    <3>1. n \in 1 .. Len(more)
      BY <2>3
    <3>2. QED
      BY <2>4, <3>1
  <2>8. t = Stays(e, n, N) \o G[n]
    BY <2>3, <2>4 DEF Bit
  <2>9. Stays(e, n, N) \in Seq(U) /\ G[n] \in Seq(U)
    BY <1>1, EmptySeq DEF Stays
  <2>10. t \in Seq(U)
    BY <2>8, <2>9, ConcatProperties
  <2>11. y = Append(x, t)
    <3>1. /\ Append(x, t) \in Seq(Seq(U)) /\ Len(Append(x, t)) = n
          /\ \A i \in 1 .. k : Append(x, t)[i] = x[i]
          /\ Append(x, t)[n] = t
      BY <2>3, <2>5, <2>10, AppendProperties
    <3>2. \A i \in 1 .. n : i \in 1 .. k \/ i = n
      BY <2>3
    <3>3. \A i \in 1 .. n : Append(x, t)[i] = y[i]
      BY <2>6, <2>7, <3>1, <3>2
    <3>4. QED
      BY <2>5, <3>1, <3>3, SeqEqual
  <2>12. FlattenSeq(y) = FlattenSeq(x) \o t
    BY <2>5, <2>10, <2>11, FlattenLaws
  <2>13. PICK f \in Seq(U), h \in Seq(U), l \in Seq(U), m \in Seq(U) :
           f = G[0] /\ h = FlattenSeq(x) /\ l = Stays(e, n, N) /\ m = G[n]
    <3> HIDE DEF Bits
    <3>1. QED
      BY <1>1, <1>3, <2>4, <2>9
  <2>14. Row(r, G, N) = f \o h /\ Row(more, G, N) = f \o (h \o (l \o m))
    <3> HIDE DEF Bits
    <3>1. QED
      BY <1>2, <2>4, <2>8, <2>12, <2>13
  <2>15. f \o (h \o (l \o m)) = ((f \o h) \o l) \o m
    <3>1. Texts4(U, f, h, l, m)
      BY DEF Texts4
    <3>2. QED
      BY <3>1, JoinFour, SMTT(60)
  <2>16. QED
    BY <2>2, <2>13, <2>14, <2>15
<1>5. QED
  BY <1>4 DEF RowStep

LEMMA RowMore ==
  ASSUME NEW U, NEW r, NEW G, NEW N, NEW e, NEW n, Longer(U, r, G, e, n)
  PROVE  /\ Row(Append(r, e), G, N) = RowStep(r, G, N, e, n)
         /\ Row(r, G, N) \in Seq(U) /\ Stays(e, n, N) \in Seq(U) /\ G[n] \in Seq(U)
<1>1. r \in Seq(U) /\ Gapped(U, G) /\ e \in U /\ n \in Nat /\ n = Len(r) + 1
  BY DEF Longer
<1>2. Stays(e, n, N) \in Seq(U) /\ G[n] \in Seq(U)
  BY <1>1, EmptySeq DEF Stays, Gapped
<1>3. PICK x \in Seq(U) : x = r
  BY <1>1
<1>4. Gapped(U, G) /\ Longer(U, x, G, e, n)
  BY <1>1, <1>3
<1> HIDE DEF Gapped, Longer
<1>5. Row(x, G, N) \in Seq(U)
  BY <1>4, RowLaws
<1>6. PICK d \in U, m \in Nat : d = e /\ m = n /\ Longer(U, x, G, d, m)
  BY <1>1, <1>4
<1>7. Row(Append(x, d), G, N) = RowStep(x, G, N, d, m)
  BY <1>6, RowGrows
<1>8. QED
  BY <1>2, <1>3, <1>5, <1>6, <1>7

\* The first characters x, which are all kept or all left out, with nothing in
\* the gaps before them.
Shifts(U, n, G, N, H, M, del) ==
  /\ \A g \in Nat : G[n + g] = H[g] /\ (g < n => G[g] = <<>>)
  /\ \A i \in Nat \ {0} : n + i \in N <=> i \in M
  /\ \A i \in 1 .. n : i \in N <=> del

LEMMA KeptMore ==
  ASSUME NEW U, NEW x \in Seq(U), NEW e \in U, NEW del \in BOOLEAN
  PROVE  Kept(x, del) \o Kept(<<e>>, del) = Kept(Append(x, e), del)
<1>1. CASE del
  BY <1>1 DEF Kept
<1>2. CASE ~del
  BY <1>2, AppendIsConcat DEF Kept
<1>3. QED
  BY <1>1, <1>2

LEMMA RowOfFront ==
  ASSUME NEW U, NEW x \in Seq(U), NEW G, Gapped(U, G), NEW N, NEW del \in BOOLEAN,
         \A g \in Nat : g < Len(x) => G[g] = <<>>,
         \A i \in 1 .. Len(x) : i \in N <=> del
  PROVE  Row(x, G, N) = Kept(x, del) \o G[Len(x)]
<1> DEFINE Fine(n) == /\ \A g \in Nat : g < n => G[g] = <<>>
                      /\ \A i \in 1 .. n : i \in N <=> del
           T == {y \in Seq(U) : Fine(Len(y)) => Row(y, G, N) = Kept(y, del) \o G[Len(y)]}
<1>1. <<>> \in T
  <2>1. <<>> \in Seq(U) /\ Len(<<>>) = 0
    BY EmptySeq
  <2>2. Row(<<>>, G, N) = G[0]
    BY RowLaws
  <2>3. Kept(<<>>, del) = <<>> /\ G[0] \in Seq(U)
    BY DEF Kept, Gapped
  <2>4. <<>> \o G[0] = G[0]
    BY <2>3, ConcatEmptySeq
  <2>5. QED
    BY <2>1, <2>2, <2>3, <2>4
<1>2. ASSUME NEW y \in Seq(U), NEW e \in U, y \in T
      PROVE  Append(y, e) \in T
  <2>1. Append(y, e) \in Seq(U) /\ Len(Append(y, e)) = Len(y) + 1
    BY AppendProperties
  <2>2. PICK k \in Nat, n \in Nat : k = Len(y) /\ n = k + 1
    BY LenProperties
  <2>3. SUFFICES ASSUME Fine(n)
                 PROVE  Row(Append(y, e), G, N) = Kept(Append(y, e), del) \o G[n]
    BY <2>1, <2>2
  <2>4. Fine(k) /\ G[k] = <<>> /\ (n \in N <=> del)
    <3>1. k < n /\ n \in 1 .. n /\ \A g \in Nat : g < k => g < n
      BY <2>2
    <3>2. \A i \in 1 .. k : i \in 1 .. n
      BY <2>2
    <3>3. G[k] = <<>> /\ (n \in N <=> del)
      BY <2>3, <3>1
    <3>4. \A g \in Nat : g < k => G[g] = <<>>
      BY <2>3, <3>1
    <3>5. \A i \in 1 .. k : i \in N <=> del
      BY <2>3, <3>2
    <3>6. QED
      BY <3>3, <3>4, <3>5
  <2>5. Row(y, G, N) = Kept(y, del)
    <3>1. Row(y, G, N) = Kept(y, del) \o G[k]
      BY <1>2, <2>2, <2>4
    <3>2. Kept(y, del) \in Seq(U)
      BY EmptySeq DEF Kept
    <3>3. Kept(y, del) \o <<>> = Kept(y, del)
      BY <3>2, ConcatEmptySeq
    <3>4. QED
      BY <2>4, <3>1, <3>3
  <2>6. Row(Append(y, e), G, N) = RowStep(y, G, N, e, n)
    <3>1. Longer(U, y, G, e, n)
      BY <2>2 DEF Longer
    <3>2. QED
      BY <3>1, RowMore
  <2>7. Stays(e, n, N) = Kept(<<e>>, del)
    BY <2>4 DEF Kept, Stays
  <2>8. Kept(y, del) \o Kept(<<e>>, del) = Kept(Append(y, e), del)
    BY KeptMore
  <2>9. QED
    BY <2>5, <2>6, <2>7, <2>8 DEF RowStep
<1>3. x \in T
  <2> HIDE DEF T
  <2>1. QED
    BY <1>1, <1>2, SeqSetInduction
<1>4. QED
  BY <1>3

LEMMA RowShifts ==
  ASSUME NEW U, NEW x \in Seq(U), NEW r \in Seq(U), NEW G, Gapped(U, G), NEW N,
         NEW H, Gapped(U, H), NEW M, NEW del \in BOOLEAN,
         Shifts(U, Len(x), G, N, H, M, del)
  PROVE  Row(x \o r, G, N) = Kept(x, del) \o Row(r, H, M)
<1>1. PICK n \in Nat, k \in Seq(U) : n = Len(x) /\ k = Kept(x, del)
  BY LenProperties, EmptySeq DEF Kept
<1>2. /\ \A g \in Nat : G[n + g] = H[g] /\ (g < n => G[g] = <<>>)
      /\ \A i \in Nat \ {0} : n + i \in N <=> i \in M
      /\ \A i \in 1 .. n : i \in N <=> del
  BY <1>1 DEF Shifts
<1> DEFINE T == {y \in Seq(U) : Row(x \o y, G, N) = k \o Row(y, H, M)}
<1>3. <<>> \in T
  <2>1. <<>> \in Seq(U) /\ x \o <<>> = x
    BY EmptySeq, ConcatEmptySeq
  <2>2. Row(x, G, N) = k \o G[n]
    BY <1>1, <1>2, RowOfFront
  <2>3. Row(<<>>, H, M) = H[0]
    BY RowLaws
  <2>4. G[n] = H[0]
    BY <1>2
  <2>5. QED
    BY <2>1, <2>2, <2>3, <2>4
<1>4. ASSUME NEW y \in Seq(U), NEW e \in U, y \in T
      PROVE  Append(y, e) \in T
  <2>1. /\ Append(y, e) \in Seq(U) /\ x \o y \in Seq(U)
        /\ x \o Append(y, e) = Append(x \o y, e) /\ Len(x \o y) = n + Len(y)
    BY <1>1, AppendProperties, ConcatProperties
  <2>2. PICK l \in Nat : l = Len(y) + 1
    BY LenProperties
  <2>3. PICK i \in Nat : i = n + l
    OBVIOUS
  <2>4. i = Len(x \o y) + 1
    BY <2>1, <2>2, <2>3, LenProperties
  <2>5. Row(Append(x \o y, e), G, N) = RowStep(x \o y, G, N, e, i)
    <3>1. Longer(U, x \o y, G, e, i)
      BY <2>1, <2>4 DEF Longer
    <3>2. QED
      BY <3>1, RowMore
  <2>6. Row(Append(y, e), H, M) = RowStep(y, H, M, e, l)
    <3>1. Longer(U, y, H, e, l)
      BY <2>2 DEF Longer
    <3>2. QED
      BY <3>1, RowMore
  <2>7. G[i] = H[l] /\ Stays(e, i, N) = Stays(e, l, M)
    <3>1. l \in Nat \ {0}
      BY <2>2, LenProperties
    <3>2. i \in N <=> l \in M
      BY <1>2, <2>3, <3>1
    <3>3. QED
      BY <1>2, <2>3, <3>2 DEF Stays
  <2>8. PICK p \in Seq(U), q \in Seq(U), t \in Seq(U) :
          p = Row(y, H, M) /\ q = Stays(e, l, M) /\ t = H[l]
    <3>1. Longer(U, y, H, e, l)
      BY <2>2 DEF Longer
    <3>2. QED
      BY <3>1, RowMore
  <2>9. ((k \o p) \o q) \o t = k \o ((p \o q) \o t)
    <3>1. Texts4(U, k, p, q, t)
      BY DEF Texts4
    <3>2. JoinsAround(k, p, q, t)
      BY <3>1, JoinFourAround
    <3>3. QED
      BY <3>2 DEF JoinsAround
  <2>10. Row(x \o y, G, N) = k \o p
    BY <1>4, <2>8
  <2>11. Row(x \o Append(y, e), G, N) = k \o Row(Append(y, e), H, M)
    BY <2>1, <2>5, <2>6, <2>7, <2>8, <2>9, <2>10 DEF RowStep
  <2>12. QED
    BY <2>1, <2>11
<1>5. r \in T
  <2> HIDE DEF T
  <2>1. QED
    BY <1>3, <1>4, SeqSetInduction
<1>6. QED
  BY <1>1, <1>5

\* What is put in front of the first gap.
Opens(U, G, N, H, M, t) ==
  /\ t \in Seq(U) /\ G[0] = t \o H[0]
  /\ \A g \in Nat \ {0} : G[g] = H[g] /\ (g \in N <=> g \in M)

LEMMA RowStarts ==
  ASSUME NEW U, NEW r \in Seq(U), NEW G, Gapped(U, G), NEW N,
         NEW H, Gapped(U, H), NEW M, NEW t, Opens(U, G, N, H, M, t)
  PROVE  Row(r, G, N) = t \o Row(r, H, M)
<1>0. /\ t \in Seq(U) /\ G[0] = t \o H[0]
      /\ \A g \in Nat \ {0} : G[g] = H[g] /\ (g \in N <=> g \in M)
  BY DEF Opens
<1> DEFINE T == {y \in Seq(U) : Row(y, G, N) = t \o Row(y, H, M)}
<1>1. <<>> \in T
  <2>1. <<>> \in Seq(U) /\ Row(<<>>, G, N) = G[0] /\ Row(<<>>, H, M) = H[0]
    BY EmptySeq, RowLaws
  <2>2. QED
    BY <1>0, <2>1
<1>2. ASSUME NEW y \in Seq(U), NEW e \in U, y \in T
      PROVE  Append(y, e) \in T
  <2>1. Append(y, e) \in Seq(U)
    BY AppendProperties
  <2>2. PICK l \in Nat : l = Len(y) + 1 /\ l # 0
    BY LenProperties
  <2>3. Row(Append(y, e), G, N) = RowStep(y, G, N, e, l)
    <3>1. Longer(U, y, G, e, l)
      BY <2>2 DEF Longer
    <3>2. QED
      BY <3>1, RowMore
  <2>4. Row(Append(y, e), H, M) = RowStep(y, H, M, e, l)
    <3>1. Longer(U, y, H, e, l)
      BY <2>2 DEF Longer
    <3>2. QED
      BY <3>1, RowMore
  <2>5. G[l] = H[l] /\ Stays(e, l, N) = Stays(e, l, M)
    BY <1>0, <2>2 DEF Stays
  <2>6. PICK p \in Seq(U), q \in Seq(U), s \in Seq(U) :
          p = Row(y, H, M) /\ q = Stays(e, l, M) /\ s = H[l]
    <3>1. Longer(U, y, H, e, l)
      BY <2>2 DEF Longer
    <3>2. QED
      BY <3>1, RowMore
  <2>7. ((t \o p) \o q) \o s = t \o ((p \o q) \o s)
    <3>1. Texts4(U, t, p, q, s)
      BY <1>0 DEF Texts4
    <3>2. JoinsAround(t, p, q, s)
      BY <3>1, JoinFourAround
    <3>3. QED
      BY <3>2 DEF JoinsAround
  <2>8. Row(y, G, N) = t \o p
    BY <1>2, <2>6
  <2>9. Row(Append(y, e), G, N) = t \o Row(Append(y, e), H, M)
    BY <2>3, <2>4, <2>5, <2>6, <2>7, <2>8 DEF RowStep
  <2>10. QED
    BY <2>1, <2>9
<1>3. r \in T
  <2> HIDE DEF T
  <2>1. QED
    BY <1>1, <1>2, SeqSetInduction
<1>4. QED
  BY <1>3

----------------------------------------------------------------------------
\* Two operations on one text.

Gaps(p, q)     == [g \in Nat |-> Filled(p, g) \o Filled(q, g)]
Lost(p, q)     == {i \in Nat : Deletes(p, i) \/ Deletes(q, i)}
Weave(r, p, q) == Row(r, Gaps(p, q), Lost(p, q))

LEMMA GapsLaws ==
  ASSUME NEW U, NEW p \in Seq(Component(U)), NEW q \in Seq(Component(U))
  PROVE  /\ Gapped(U, Gaps(p, q))
         /\ \A g \in Nat : /\ Gaps(p, q)[g] = Filled(p, g) \o Filled(q, g)
                           /\ Filled(p, g) \in Seq(U) /\ Filled(q, g) \in Seq(U)
                           /\ g \in Lost(p, q) <=> Deletes(p, g) \/ Deletes(q, g)
<1>1. ASSUME NEW g \in Nat
      PROVE  /\ Gaps(p, q)[g] = Filled(p, g) \o Filled(q, g)
             /\ Filled(p, g) \in Seq(U) /\ Filled(q, g) \in Seq(U)
             /\ Gaps(p, q)[g] \in Seq(U)
  <2>1. Filled(p, g) \in Seq(U) /\ Filled(q, g) \in Seq(U)
    BY FilledLaws
  <2>2. Filled(p, g) \o Filled(q, g) \in Seq(U)
    BY <2>1, ConcatProperties
  <2>3. Gaps(p, q)[g] = Filled(p, g) \o Filled(q, g)
    BY DEF Gaps
  <2>4. QED
    BY <2>1, <2>2, <2>3
<1>2. Gapped(U, Gaps(p, q))
  BY <1>1 DEF Gapped
<1>3. \A g \in Nat : g \in Lost(p, q) <=> Deletes(p, g) \/ Deletes(q, g)
  BY DEF Lost
<1>4. QED
  BY <1>1, <1>2, <1>3

OnText(U, r, p, q) ==
  r \in Seq(U) /\ p \in Seq(Component(U)) /\ q \in Seq(Component(U))

LEMMA GapAt ==
  ASSUME NEW U, NEW r, NEW p, NEW q, OnText(U, r, p, q), NEW g \in Nat
  PROVE  /\ Gaps(p, q)[g] = Filled(p, g) \o Filled(q, g)
         /\ g \in Lost(p, q) <=> Deletes(p, g) \/ Deletes(q, g)
  BY GapsLaws DEF OnText

LEMMA WeaveType ==
  ASSUME NEW U, NEW r \in Seq(U), NEW p \in Seq(Component(U)), NEW q \in Seq(Component(U))
  PROVE  Weave(r, p, q) \in Seq(U)
<1>1. Gapped(U, Gaps(p, q))
  BY GapsLaws
<1>2. QED
  BY <1>1, RowLaws DEF Weave

\* Nothing is inserted, nothing deleted.
LEMMA WeaveNone ==
  ASSUME NEW U, NEW r \in Seq(U)
  PROVE  Weave(r, <<>>, <<>>) = r
<1>1. <<>> \in Seq(Component(U))
  BY EmptySeq
<1>2. PICK none \in Seq(Component(U)) : none = <<>>
  BY <1>1
<1>3. \A g : Filled(none, g) = <<>> /\ ~Deletes(none, g)
  BY <1>2, FilledLaws, DeletesLaws
<1>4. PICK G, N : G = Gaps(none, none) /\ N = Lost(none, none)
  OBVIOUS
<1>5. Gapped(U, G) /\ \A g \in Nat : G[g] = <<>> /\ g \notin N
  <2>1. <<>> \o <<>> = <<>>
    OBVIOUS
  <2>2. QED
    BY <1>3, <1>4, <2>1, GapsLaws
<1>6. Len(r) \in Nat
  BY LenProperties
<1>7. (\A g \in Nat : g < Len(r) => G[g] = <<>>) /\ (\A i \in 1 .. Len(r) : i \in N <=> FALSE)
  BY <1>5, <1>6
<1>8. Row(r, G, N) = Kept(r, FALSE) \o G[Len(r)]
  BY <1>5, <1>7, RowOfFront
<1>9. r \o <<>> = r
  BY ConcatEmptySeq
<1>10. QED
  BY <1>2, <1>4, <1>5, <1>6, <1>8, <1>9 DEF Kept, Weave

\* What the first operation inserts comes first.
LEMMA WeaveInsertA ==
  ASSUME NEW U, NEW r, NEW p, NEW q, NEW t, NEW s, OnText(U, r, p, q), OnText(U, r, s, q),
         Inserting(U, p, t, s)
  PROVE  Weave(r, p, q) = t \o Weave(r, s, q)
<1>0. r \in Seq(U) /\ p \in Seq(Component(U)) /\ q \in Seq(Component(U)) /\ s \in Seq(Component(U))
  BY DEF OnText
<1>1. PICK G, H, N, M : G = Gaps(p, q) /\ H = Gaps(s, q) /\ N = Lost(p, q) /\ M = Lost(s, q)
  OBVIOUS
<1>2. Gapped(U, G) /\ Gapped(U, H)
  BY <1>0, <1>1, GapsLaws
<1>3. G[0] = t \o H[0] /\ t \in Seq(U)
  <2>1. PICK f \in Seq(U), h \in Seq(U) : f = Filled(s, 0) /\ h = Filled(q, 0)
    BY <1>0, FilledLaws
  <2>2. t \in Seq(U) /\ Filled(p, 0) = t \o f
    BY <2>1 DEF Inserting
  <2>3. (t \o f) \o h = t \o (f \o h)
    <3>1. Joins(t, f, h)
      BY <2>2, JoinsUp
    <3>2. QED
      BY <3>1 DEF Joins
  <2>4. G[0] = Filled(p, 0) \o h /\ H[0] = f \o h
    BY <1>0, <1>1, <2>1, GapsLaws
  <2>5. QED
    BY <2>2, <2>3, <2>4
<1>4. ASSUME NEW g \in Nat \ {0}
      PROVE  G[g] = H[g] /\ (g \in N <=> g \in M)
  <2>1. Filled(p, g) = Filled(s, g) /\ (Deletes(p, g) <=> Deletes(s, g))
    BY DEF Inserting
  <2>2. g \in Nat
    OBVIOUS
  <2>3. G[g] = Filled(p, g) \o Filled(q, g) /\ H[g] = Filled(s, g) \o Filled(q, g)
    <3>1.  G[g] = Filled(p, g) \o Filled(q, g)
      BY <1>1, <2>2, GapAt
    <3>2. H[g] = Filled(s, g) \o Filled(q, g)
      BY <1>1, <2>2, GapAt
    <3>3. QED
      BY <3>1, <3>2
  <2>4. /\ g \in N <=> Deletes(p, g) \/ Deletes(q, g)
        /\ g \in M <=> Deletes(s, g) \/ Deletes(q, g)
    BY <1>1, <2>2, GapAt
  <2>5. QED
    BY <2>1, <2>3, <2>4
<1>5. Row(r, G, N) = t \o Row(r, H, M)
  <2>1. Opens(U, G, N, H, M, t)
    BY <1>3, <1>4 DEF Opens
  <2>2. QED
    BY <1>0, <1>2, <2>1, RowStarts
<1>6. QED
  BY <1>1, <1>5 DEF Weave

\* Then what the second one does.
LEMMA WeaveInsertB ==
  ASSUME NEW U, NEW r, NEW p, NEW q, NEW t, NEW s, OnText(U, r, p, q), OnText(U, r, p, s),
         p # <<>> => Head(p).kind # "insert", Inserting(U, q, t, s)
  PROVE  Weave(r, p, q) = t \o Weave(r, p, s)
<1>0. r \in Seq(U) /\ p \in Seq(Component(U)) /\ q \in Seq(Component(U)) /\ s \in Seq(Component(U))
  BY DEF OnText
<1>1. PICK G, H, N, M : G = Gaps(p, q) /\ H = Gaps(p, s) /\ N = Lost(p, q) /\ M = Lost(p, s)
  OBVIOUS
<1>2. Gapped(U, G) /\ Gapped(U, H)
  BY <1>0, <1>1, GapsLaws
<1>3. G[0] = t \o H[0] /\ t \in Seq(U)
  <2>1. PICK f \in Seq(U) : f = Filled(s, 0)
    BY <1>0, FilledLaws
  <2>2. t \in Seq(U) /\ Filled(q, 0) = t \o f
    BY <2>1 DEF Inserting
  <2>3. Filled(p, 0) = <<>>
    BY <1>0, FilledLater
  <2>4. G[0] = <<>> \o (t \o f) /\ H[0] = <<>> \o f
    <3>1. 0 \in Nat
      OBVIOUS
    <3>2. G[0] = Filled(p, 0) \o Filled(q, 0)
      BY <1>1, <3>1, GapAt
    <3>3. H[0] = Filled(p, 0) \o Filled(s, 0)
      BY <1>1, <3>1, GapAt
    <3>4. QED
      BY <2>1, <2>2, <2>3, <3>2, <3>3
  <2>5. t \o f \in Seq(U)
    BY <2>2, ConcatProperties
  <2>6. <<>> \o (t \o f) = t \o f /\ <<>> \o f = f
    BY <2>5, ConcatEmptySeq
  <2>7. QED
    BY <2>2, <2>4, <2>6
<1>4. ASSUME NEW g \in Nat \ {0}
      PROVE  G[g] = H[g] /\ (g \in N <=> g \in M)
  <2>1. Filled(q, g) = Filled(s, g) /\ (Deletes(q, g) <=> Deletes(s, g))
    BY DEF Inserting
  <2>2. g \in Nat
    OBVIOUS
  <2>3. G[g] = Filled(p, g) \o Filled(q, g) /\ H[g] = Filled(p, g) \o Filled(s, g)
    <3>1.  G[g] = Filled(p, g) \o Filled(q, g)
      BY <1>1, <2>2, GapAt
    <3>2. H[g] = Filled(p, g) \o Filled(s, g)
      BY <1>1, <2>2, GapAt
    <3>3. QED
      BY <3>1, <3>2
  <2>4. /\ g \in N <=> Deletes(p, g) \/ Deletes(q, g)
        /\ g \in M <=> Deletes(p, g) \/ Deletes(s, g)
    BY <1>1, <2>2, GapAt
  <2>5. QED
    BY <2>1, <2>3, <2>4
<1>5. Row(r, G, N) = t \o Row(r, H, M)
  <2>1. Opens(U, G, N, H, M, t)
    BY <1>3, <1>4 DEF Opens
  <2>2. QED
    BY <1>0, <1>2, <2>1, RowStarts
<1>6. QED
  BY <1>1, <1>5 DEF Weave

\* Both pass over x.
LEMMA WeaveBoth ==
  ASSUME NEW U, NEW x, NEW r, NEW p, NEW q, NEW s, NEW u,
         OnText(U, x, p, q), OnText(U, r, s, u),
         NEW dela \in BOOLEAN, NEW delb \in BOOLEAN, NEW del \in BOOLEAN, del <=> dela \/ delb,
         Behind(U, p, Len(x), s, dela), Behind(U, q, Len(x), u, delb)
  PROVE  Weave(x \o r, p, q) = Kept(x, del) \o Weave(r, s, u)
<1>0. /\ x \in Seq(U) /\ p \in Seq(Component(U)) /\ q \in Seq(Component(U))
      /\ r \in Seq(U) /\ s \in Seq(Component(U)) /\ u \in Seq(Component(U))
  BY DEF OnText
<1>1. PICK G, H, N, M : G = Gaps(p, q) /\ H = Gaps(s, u) /\ N = Lost(p, q) /\ M = Lost(s, u)
  OBVIOUS
<1>2. Gapped(U, G) /\ Gapped(U, H)
  BY <1>0, <1>1, GapsLaws
<1>3. PICK n \in Nat : n = Len(x)
  BY <1>0, LenProperties
<1>4. ASSUME NEW g \in Nat
      PROVE  G[n + g] = H[g] /\ (g < n => G[g] = <<>>)
  <2>1. /\ Filled(p, n + g) = Filled(s, g) /\ Filled(q, n + g) = Filled(u, g)
        /\ g < n => Filled(p, g) = <<>> /\ Filled(q, g) = <<>>
    BY <1>3 DEF Behind
  <2>2. n + g \in Nat
    OBVIOUS
  <2>3. /\ G[n + g] = Filled(p, n + g) \o Filled(q, n + g) /\ G[g] = Filled(p, g) \o Filled(q, g)
        /\ H[g] = Filled(s, g) \o Filled(u, g)
    <3>1. G[n + g] = Filled(p, n + g) \o Filled(q, n + g)
      BY <1>1, <2>2, GapAt
    <3>2. G[g] = Filled(p, g) \o Filled(q, g)
      BY <1>1, GapAt
    <3>3. H[g] = Filled(s, g) \o Filled(u, g)
      BY <1>1, GapAt
    <3>4. QED
      BY <3>1, <3>2, <3>3
  <2>4. <<>> \o <<>> = <<>>
    OBVIOUS
  <2>5. QED
    BY <2>1, <2>3, <2>4
<1>5. ASSUME NEW i \in Nat \ {0}
      PROVE  n + i \in N <=> i \in M
  <2>1. (Deletes(p, n + i) <=> Deletes(s, i)) /\ (Deletes(q, n + i) <=> Deletes(u, i))
    BY <1>3 DEF Behind
  <2>2. n + i \in Nat
    OBVIOUS
  <2>3. /\ n + i \in N <=> Deletes(p, n + i) \/ Deletes(q, n + i)
        /\ i \in M <=> Deletes(s, i) \/ Deletes(u, i)
    BY <1>1, <2>2, GapAt
  <2>4. QED
    BY <2>1, <2>3
<1>6. ASSUME NEW i \in 1 .. n
      PROVE  i \in N <=> dela \/ delb
  <2>1. (Deletes(p, i) <=> dela) /\ (Deletes(q, i) <=> delb)
    BY <1>3 DEF Behind
  <2>2. i \in N <=> Deletes(p, i) \/ Deletes(q, i)
    BY <1>0, <1>1, GapsLaws
  <2>3. QED
    BY <2>1, <2>2
<1>8. Shifts(U, n, G, N, H, M, del)
  BY <1>4, <1>5, <1>6 DEF Shifts
<1>9. Row(x \o r, G, N) = Kept(x, del) \o Row(r, H, M)
  BY <1>0, <1>2, <1>3, <1>8, RowShifts
<1>10. QED
  BY <1>1, <1>9 DEF Weave

Woven(o, v, w, e) == Weave(v \o e, o, <<>>) = w \o e

LEMMA WeaveHead ==
  ASSUME NEW U, NEW o, NEW v, NEW w, NEW f, NEW g, NEW i, NEW k, NEW e, e \in Seq(U),
         Peeled(U, o, v, w, f, g, i, k), o # <<>>, o \in Seq(Component(U)),
         Woven(Tail(o), i, k, e)
  PROVE  Woven(o, v, w, e)
<1>1. v = f \o i /\ w = g \o k /\ Moves(U, Head(o), f, g) /\ Runs(U, Tail(o), i, k)
  BY DEF Peeled
<1>0. Weave(i \o e, Tail(o), <<>>) = k \o e
  BY DEF Woven
<1>2. PICK c, s : c = Head(o) /\ s = Tail(o)
  OBVIOUS
<1>3. c \in Component(U) /\ s \in Seq(Component(U))
  BY <1>2, HeadRest
<1>4. PICK none : none = <<>>
  OBVIOUS
<1>5. none \in Seq(Component(U))
  BY <1>4, EmptySeq
<1>6. f \in Seq(U) /\ g \in Seq(U) /\ i \in Seq(U) /\ k \in Seq(U)
  BY <1>1 DEF Moves, Runs
<1>7. PICK r : r = i \o e
  OBVIOUS
<1>8. r \in Seq(U) /\ (f \o i) \o e = f \o r /\ (g \o k) \o e = g \o (k \o e)
  <2>1. Texts4(U, i, e, e, e) /\ Texts4(U, f, i, e, e) /\ Texts4(U, g, k, e, e)
    BY <1>6 DEF Texts4
  <2>2. i \o e \in Seq(U)
    BY <2>1, TextsJoin
  <2>3. Joins(f, i, e) /\ Joins(g, k, e)
    BY <2>1, TextsJoinUp
  <2>4. QED
    BY <1>7, <2>2, <2>3 DEF Joins
<1>9. OnText(U, r, o, none) /\ OnText(U, r, s, none) /\ OnText(U, f, o, none)
  BY <1>3, <1>5, <1>6, <1>8 DEF OnText
<1>10. Moves(U, c, f, g)
  BY <1>1, <1>2
<1>11. CASE c.kind = "insert"
  <2>1. f = <<>> /\ g = c.text
    BY <1>10, <1>11, MovesKind, InsertIs, RetainIs, DeleteIs
  <2>2. Inserting(U, o, g, s)
    BY <1>2, <1>11, <2>1, InsertedFirst
  <2>3. Weave(r, o, none) = g \o Weave(r, s, none)
    BY <1>9, <2>2, WeaveInsertA
  <2>4. <<>> \o r = r
    BY <1>8, ConcatEmptySeq
  <2>5. QED
    BY <1>0, <1>1, <1>2, <1>4, <1>7, <1>8, <2>1, <2>3, <2>4 DEF Woven
<1>12. CASE c.kind # "insert"
  <2>1. PICK m \in Nat \ {0} : m = c.n
    BY <1>3, <1>12, PartType
  <2>2. Extent(c) = m
    BY <1>12, <2>1 DEF Extent
  <2>3. Consume(o, m) = s
    BY <1>2, <2>1, <2>2 DEF Consume
  <2>4. PICK del \in BOOLEAN : del <=> c.kind = "delete"
    OBVIOUS
  <2>5. Behind(U, o, m, Consume(o, m), Head(o).kind = "delete")
    <3>1. Head(o).kind # "insert" /\ m <= Head(o).n
      BY <1>2, <1>12, <2>1
    <3>2. QED
      BY <3>1, BehindConsumed
  <2>6. Behind(U, <<>>, m, <<>>, FALSE)
    BY BehindNone
  <2>7. Len(f) = m /\ Kept(f, del) = g
    <3>1. \/ c = Retain(Len(f)) /\ g = f
          \/ c = Delete(Len(f)) /\ g = <<>>
      BY <1>10, <1>12, InsertIs DEF Moves
    <3>2. QED
      BY <2>1, <2>4, <3>1, RetainIs, DeleteIs DEF Kept
  <2>8. Behind(U, o, Len(f), s, del)
    BY <1>2, <2>3, <2>4, <2>5, <2>7 DEF Behind
  <2>12. PICK not \in BOOLEAN : ~not /\ (del <=> del \/ not)
    OBVIOUS
  <2>9. Behind(U, none, Len(f), none, not)
    BY <1>4, <2>6, <2>7, <2>12 DEF Behind
  <2>10. Weave(f \o r, o, none) = Kept(f, del) \o Weave(r, s, none)
    BY <1>9, <2>8, <2>9, <2>12, WeaveBoth
  <2>11. QED
    BY <1>0, <1>1, <1>2, <1>4, <1>7, <1>8, <2>7, <2>10 DEF Woven
<1>13. QED
  BY <1>11, <1>12

\* An operation makes of the front of a text what it deletes and fills there, and
\* leaves the rest as it is.
LEMMA RunsWeave ==
  ASSUME NEW U, NEW e \in Seq(U), NEW op, NEW x, NEW y, Runs(U, op, x, y)
  PROVE  Weave(x \o e, op, <<>>) = y \o e
<1>1. PICK none \in Seq(Component(U)) : none = <<>>
  BY EmptySeq
<1> DEFINE Good(o) == \A v, w : Runs(U, o, v, w) => Woven(o, v, w, e)
           T == {n \in Nat : \A o \in Seq(Component(U)) : Len(o) = n => Good(o)}
<1>2. 0 \in T
  <2>1. SUFFICES ASSUME NEW o \in Seq(Component(U)), Len(o) = 0, NEW v, NEW w, Runs(U, o, v, w)
                 PROVE  Woven(o, v, w, e)
    OBVIOUS
  <2>2. o = <<>>
    BY <2>1, EmptySeq
  <2>3. v \in Seq(U) /\ w \in Seq(U) /\ Len(v) = 0 /\ Len(w) = 0
    <3>1. opBaseLength(<<>>) = 0 /\ opTargetLength(<<>>) = 0
      BY <1>1, BaseLaws, TargetLaws
    <3>2. opBaseLength(o) = Len(v) /\ opTargetLength(o) = Len(w)
      BY <2>1, RunsLengths
    <3>3. QED
      BY <2>1, <2>2, <3>1, <3>2 DEF Runs
  <2>4. v = <<>> /\ w = <<>>
    BY <2>3, EmptySeq
  <2>5. <<>> \o e = e
    BY ConcatEmptySeq
  <2>6. Weave(e, <<>>, <<>>) = e
    BY WeaveNone
  <2>7. QED
    BY <1>1, <2>2, <2>4, <2>5, <2>6 DEF Woven
<1>3. ASSUME NEW n \in Nat, n \in T
      PROVE  n + 1 \in T
  <2>1. SUFFICES ASSUME NEW o \in Seq(Component(U)), Len(o) = n + 1,
                        NEW v, NEW w, Runs(U, o, v, w)
                 PROVE  Woven(o, v, w, e)
    OBVIOUS
  <2>2. o # <<>>
    BY <2>1, EmptySeq
  <2>3. PICK f, g, i, k : Peeled(U, o, v, w, f, g, i, k)
    BY <2>1, <2>2, HeadRuns
  <2>4. v = f \o i /\ w = g \o k /\ Moves(U, Head(o), f, g) /\ Runs(U, Tail(o), i, k)
    BY <2>3 DEF Peeled
  <2>5. Tail(o) \in Seq(Component(U)) /\ Len(Tail(o)) = n
    BY <2>1, <2>2, HeadRest
  <2>6. Woven(Tail(o), i, k, e)
    BY <1>3, <2>4, <2>5
  <2>7. QED
    <3> HIDE DEF T, Good
    <3>1. o \in Seq(Component(U)) /\ e \in Seq(U)
      OBVIOUS
    <3>2. QED
      BY <2>2, <2>3, <2>6, <3>1, WeaveHead
<1>4. \A n \in Nat : n \in T
  <2> HIDE DEF T
  <2>1. QED
    BY <1>2, <1>3, NatSetInduction
<1>5. op \in Seq(Component(U)) /\ Len(op) \in Nat
  BY LenProperties DEF Runs
<1>6. QED
  BY <1>1, <1>4, <1>5 DEF Woven

LEMMA ApplyWeaves ==
  ASSUME NEW U, NEW op \in Seq(Component(U)), NEW d \in Seq(U), Fits(op, d)
  PROVE  applyOp(d, op) = Weave(d, op, <<>>)
<1>1. PICK x, y, e \in Seq(U) : d = x \o e /\ Runs(U, op, x, y)
  BY FitsRuns
<1>2. applyOp(d, op) = y \o e
  BY <1>1, RunsApply
<1>3. Weave(x \o e, op, <<>>) = y \o e
  BY <1>1, RunsWeave
<1>4. QED
  BY <1>1, <1>2, <1>3

----------------------------------------------------------------------------
\* The inputs of OtLaws.

LawUnits == Nat \cup UNION {Range(text) : text \in TextsA \cup TextsB}

LEMMA BoundedType ==
  ASSUME NEW E, NEW n \in Nat, NEW s \in BoundedSeq(E, n)
  PROVE  s \in Seq(E)
<1>1. QED
  BY DEF BoundedSeq, SeqOf

LEMMA OpsType ==
  ASSUME NEW U, NEW T, \A t \in T : t \in Seq(U) /\ t # <<>>, NEW op \in Ops(T)
  PROVE  op \in Seq(Component(U))
<1> DEFINE E == {Retain(n) : n \in 1 .. MaxCount} \cup {Delete(n) : n \in 1 .. MaxCount}
                  \cup {Insert(t) : t \in T}
<1>1. op \in Seq(E)
  BY LawAssumption, BoundedType DEF Ops
<1>2. ASSUME NEW t \in T
      PROVE  Insert(t) \in Component(U)
  BY PartsAre
<1>3. ASSUME NEW n \in 1 .. MaxCount
      PROVE  Retain(n) \in Component(U) /\ Delete(n) \in Component(U)
  <2>1. n \in Nat \ {0}
    BY LawAssumption
  <2>2. QED
    BY <2>1, PartsAre
<1>4. E \subseteq Component(U)
  BY <1>2, <1>3
<1> HIDE DEF E
<1>5. QED
  BY <1>1, <1>4

LEMMA InputTypes ==
  ASSUME OpInputs \/ TextInputs
  PROVE  /\ doc \in Seq(Nat) /\ doc \in Seq(LawUnits) /\ doc = [i \in 1 .. Len(doc) |-> i]
         /\ a \in Seq(Component(LawUnits)) /\ Fits(a, doc)
         /\ b \in Seq(Component(LawUnits)) /\ Fits(b, doc)
<1>1. CASE OpInputs
  <2>1. PICK n \in 0 .. MaxDoc : doc = [i \in 1 .. n |-> i]
    BY <1>1 DEF OpInputs
  <2>2. n \in Nat
    BY LawAssumption
  <2>3. doc \in Seq(Nat) /\ Len(doc) = n
    BY <2>1, <2>2
  <2>4. doc \in Seq(LawUnits)
    BY <2>3 DEF LawUnits
  <2>5. ASSUME NEW text \in TextsA \cup TextsB
        PROVE  text \in Seq(LawUnits) /\ text # <<>>
    <3>1. text \in Seq(Range(text)) /\ text # <<>>
      BY LawAssumption
    <3>2. Range(text) \subseteq LawUnits
      BY DEF LawUnits
    <3>3. QED
      BY <3>1, <3>2
  <2>6. /\ \A text \in TextsA : text \in Seq(LawUnits) /\ text # <<>>
        /\ \A text \in TextsB : text \in Seq(LawUnits) /\ text # <<>>
    BY <2>5
  <2>7. a \in Ops(TextsA) /\ b \in Ops(TextsB) /\ Fits(a, doc) /\ Fits(b, doc)
    BY <1>1 DEF OpInputs
  <2>8. a \in Seq(Component(LawUnits))
    BY <2>6, <2>7, OpsType
  <2>9. b \in Seq(Component(LawUnits))
    BY <2>6, <2>7, OpsType
  <2>10. QED
    BY <2>1, <2>3, <2>4, <2>7, <2>8, <2>9
<1>2. CASE TextInputs
  <2>1. doc = <<>> /\ a = <<>> /\ b = <<>>
    BY <1>2 DEF TextInputs
  <2>2. <<>> \in Seq(Nat) /\ <<>> \in Seq(LawUnits) /\ <<>> \in Seq(Component(LawUnits)) /\ Len(<<>>) = 0
    BY EmptySeq
  <2>3. <<>> = [i \in 1 .. 0 |-> i]
    OBVIOUS
  <2>4. opBaseLength(<<>>) = 0
    BY <2>2, BaseLaws
  <2>5. Fits(<<>>, <<>>)
    BY <2>2, <2>4 DEF Fits
  <2>6. QED
    BY <2>1, <2>2, <2>3, <2>5
<1>3. QED
  BY <1>1, <1>2

\* The inputs do not change.
THEOREM LawInputs == LawSpec => [](OpInputs \/ TextInputs)
<1>1. (OpInputs \/ TextInputs) /\ [UNCHANGED lawVars]_lawVars => (OpInputs \/ TextInputs)'
  BY DEF OpInputs, TextInputs, lawVars
<1>2. QED
  BY <1>1, PTL DEF LawSpec

\* composeOps is one operation with the effect of two.
THEOREM ComposeLaw == LawSpec => []ComposeIsSequence
<1>1. OpInputs \/ TextInputs => ComposeIsSequence
  <2>1. SUFFICES ASSUME OpInputs \/ TextInputs, Fits(b, applyOp(doc, a))
                 PROVE  /\ Fits(composeOps(a, b), doc)
                        /\ applyOp(doc, composeOps(a, b)) = applyOp(applyOp(doc, a), b)
    BY DEF ComposeIsSequence
  <2>2. /\ doc \in Seq(LawUnits) /\ a \in Operation(LawUnits) /\ b \in Operation(LawUnits)
        /\ Fits(a, doc)
    BY <2>1, InputTypes DEF Operation
  <2>3. QED
    BY <2>1, <2>2, ComposeDoesBoth
<1>2. QED
  BY <1>1, LawInputs, PTL

----------------------------------------------------------------------------
\* A document of OtLaws is its own row of numbers.

Counts(d, n)      == d = [i \in 1 .. n |-> i]
BitsAre(f, n, G, N) == f = [i \in 1 .. n |-> (IF i \in N THEN <<>> ELSE <<i>>) \o G[i]]

LEMMA BitsEqual ==
  ASSUME NEW n \in Nat, NEW d, Counts(d, n), NEW G, NEW N, NEW f, BitsAre(f, n, G, N)
  PROVE  Row(d, G, N) = G[0] \o FlattenSeq(f)
<1>0. d = [i \in 1 .. n |-> i] /\ f = [i \in 1 .. n |-> (IF i \in N THEN <<>> ELSE <<i>>) \o G[i]]
  BY DEF Counts, BitsAre
<1>1. Len(d) = n
  BY <1>0
<1>2. \A i \in 1 .. n : Bit(d, G, N, i) = (IF i \in N THEN <<>> ELSE <<i>>) \o G[i]
  BY <1>0 DEF Bit, Stays
<1>3. [i \in 1 .. Len(d) |-> Bit(d, G, N, i)] = f
  BY <1>0, <1>1, <1>2
<1>4. QED
  BY <1>3 DEF Row

LEMMA MergedWeaves ==
  ASSUME NEW U, NEW n \in Nat, NEW d, Counts(d, n),
         NEW p \in Seq(Component(U)), NEW q \in Seq(Component(U))
  PROVE  Merged(n, p, q) = Weave(d, p, q)
<1>1. PICK f : f = [i \in 1 .. n |-> (IF Deletes(p, i) \/ Deletes(q, i) THEN <<>> ELSE <<i>>)
                                     \o (Filled(p, i) \o Filled(q, i))]
  OBVIOUS
<1>2. Merged(n, p, q) = (Filled(p, 0) \o Filled(q, 0)) \o FlattenSeq(f)
  BY <1>1 DEF Merged, Result
<1>3. PICK G, N : G = Gaps(p, q) /\ N = Lost(p, q)
  OBVIOUS
<1>4. ASSUME NEW g \in Nat
      PROVE  G[g] = Filled(p, g) \o Filled(q, g) /\ (g \in N <=> Deletes(p, g) \/ Deletes(q, g))
  BY <1>3, GapsLaws
<1>5. BitsAre(f, n, G, N)
  <2>1. ASSUME NEW i \in 1 .. n
        PROVE  G[i] = Filled(p, i) \o Filled(q, i) /\ (i \in N <=> Deletes(p, i) \/ Deletes(q, i))
    <3>1. i \in Nat
      OBVIOUS
    <3>2. QED
      BY <1>4, <3>1
  <2>2. QED
    BY <1>1, <2>1, Zenon DEF BitsAre
<1>6. G[0] = Filled(p, 0) \o Filled(q, 0)
  BY <1>4
<1>7. Row(d, G, N) = G[0] \o FlattenSeq(f)
  BY <1>5, BitsEqual
<1>8. QED
  BY <1>2, <1>3, <1>6, <1>7 DEF Weave

Edited(n, p) == Result(n, LAMBDA g : Filled(p, g), LAMBDA i : Deletes(p, i))

LEMMA ResultWeaves ==
  ASSUME NEW U, NEW n \in Nat, NEW d, Counts(d, n), NEW p \in Seq(Component(U))
  PROVE  Edited(n, p) = Weave(d, p, <<>>)
<1>1. PICK f : f = [i \in 1 .. n |-> (IF Deletes(p, i) THEN <<>> ELSE <<i>>) \o Filled(p, i)]
  OBVIOUS
<1>2. Edited(n, p) = Filled(p, 0) \o FlattenSeq(f)
  BY <1>1 DEF Result, Edited
<1>3. PICK G, N : G = Gaps(p, <<>>) /\ N = Lost(p, <<>>)
  OBVIOUS
<1>4. <<>> \in Seq(Component(U))
  BY EmptySeq
<1>5. ASSUME NEW g \in Nat
      PROVE  G[g] = Filled(p, g) /\ (g \in N <=> Deletes(p, g))
  <2>1. /\ G[g] = Filled(p, g) \o Filled(<<>>, g) /\ Filled(p, g) \in Seq(U)
        /\ g \in N <=> Deletes(p, g) \/ Deletes(<<>>, g)
    BY <1>3, <1>4, GapsLaws
  <2>2. Filled(<<>>, g) = <<>> /\ ~Deletes(<<>>, g)
    BY <1>4, FilledLaws, DeletesLaws
  <2>3. QED
    BY <2>1, <2>2, ConcatEmptySeq
<1>6. BitsAre(f, n, G, N)
  <2>1. ASSUME NEW i \in 1 .. n
        PROVE  G[i] = Filled(p, i) /\ (i \in N <=> Deletes(p, i))
    <3>1. i \in Nat
      OBVIOUS
    <3>2. QED
      BY <1>5, <3>1
  <2>2. QED
    BY <1>1, <2>1, Zenon DEF BitsAre
<1>7. G[0] = Filled(p, 0)
  BY <1>5
<1>8. Row(d, G, N) = G[0] \o FlattenSeq(f)
  BY <1>6, BitsEqual
<1>9. QED
  BY <1>2, <1>3, <1>7, <1>8 DEF Weave

\* applyOp does what the operation says.
LEMMA ApplyLaw ==
  ASSUME OpInputs \/ TextInputs
  PROVE  ApplyIsEdit
<1>1. /\ doc \in Seq(LawUnits) /\ doc = [i \in 1 .. Len(doc) |-> i]
      /\ a \in Seq(Component(LawUnits)) /\ Fits(a, doc)
  BY InputTypes
<1>2. PICK n \in Nat : n = Len(doc)
  BY <1>1, LenProperties
<1>3. applyOp(doc, a) = Weave(doc, a, <<>>)
  BY <1>1, ApplyWeaves
<1>4. Counts(doc, n)
  BY <1>1, <1>2 DEF Counts
<1>5. Edited(n, a) = Weave(doc, a, <<>>)
  BY <1>1, <1>4, ResultWeaves
<1>6. Len(applyOp(doc, a)) = Len(doc) + opTargetLength(a) - opBaseLength(a)
  BY <1>1, ApplyLength DEF Operation
<1>7. QED
  BY <1>2, <1>3, <1>5, <1>6 DEF ApplyIsEdit, Edited

----------------------------------------------------------------------------
\* transformOps weaves both operations into the text.

\* The same gaps filled, the same characters deleted.
SameEdit(p, q) ==
  \A g \in Nat : Filled(p, g) = Filled(q, g) /\ (Deletes(p, g) <=> Deletes(q, g))

LEMMA RetainsAtEnd ==
  ASSUME NEW U, NEW op \in Seq(Component(U)), NEW n \in Nat \ {0}
  PROVE  SameEdit(Append(op, Retain(n)), op) /\ Append(op, Retain(n)) \in Seq(Component(U))
<1>1. Retain(n) \in Component(U)
  BY PartsAre
<1>2. ASSUME NEW g \in Nat
      PROVE  /\ Filled(Append(op, Retain(n)), g) = Filled(op, g)
             /\ Deletes(Append(op, Retain(n)), g) <=> Deletes(op, g)
  <2>1. PICK k : k = opBaseLength(op)
    OBVIOUS
  <2>2. /\ Filled(Append(op, Retain(n)), g) = Filled(op, g) \o Typing(Retain(n), k, g)
        /\ Deletes(Append(op, Retain(n)), g) <=> Deletes(op, g) \/ Erases(Retain(n), k, g)
    BY <1>1, <2>1, FilledLaws, DeletesLaws
  <2>3. Typing(Retain(n), k, g) = <<>> /\ ~Erases(Retain(n), k, g)
    BY DEF Typing, Erases, Retain
  <2>4. Filled(op, g) \in Seq(U)
    BY FilledLaws
  <2>5. Filled(op, g) \o <<>> = Filled(op, g)
    BY <2>4, ConcatEmptySeq
  <2>6. QED
    BY <2>2, <2>3, <2>5
<1>3. QED
  BY <1>1, <1>2, AppendProperties DEF SameEdit

LEMMA RetainSame ==
  ASSUME NEW U, NEW op \in Seq(Component(U)), NEW n \in Int
  PROVE  SameEdit(AddRetain(op, n), op) /\ AddRetain(op, n) \in Seq(Component(U))
<1>1. CASE n <= 0
  BY <1>1 DEF AddRetain, SameEdit
<1>2. CASE ~(n <= 0) /\ IsKind(op, "retain")
  <2>1. op # <<>> /\ Last(op).kind = "retain"
    BY <1>2 DEF IsKind
  <2>2. PICK f \in Seq(Component(U)), c \in Component(U) : op = Append(f, c) /\ c = Last(op)
    BY <2>1, FrontLast
  <2>3. PICK m \in Nat \ {0} : c = Retain(m)
    BY <2>1, <2>2, PartType
  <2>4. n \in Nat \ {0} /\ m + n \in Nat \ {0}
    BY <1>2
  <2>5. AddRetain(op, n) = Append(f, Retain(m + n))
    <3>1. AddRetain(op, n) = Grow(op, n)
      BY <1>2 DEF AddRetain
    <3>2. Grow(Append(f, Retain(m)), n) = Append(f, Retain(m + n))
      BY <2>4, GrowIs
    <3>3. QED
      BY <2>2, <2>3, <3>1, <3>2
  <2>6. SameEdit(Append(f, Retain(m + n)), f) /\ Append(f, Retain(m + n)) \in Seq(Component(U))
    BY <2>4, RetainsAtEnd
  <2>7. SameEdit(Append(f, Retain(m)), f)
    BY RetainsAtEnd
  <2>8. PICK more : more = Append(f, Retain(m + n))
    OBVIOUS
  <2>9. SameEdit(more, f) /\ SameEdit(op, f)
    BY <2>2, <2>3, <2>6, <2>7, <2>8
  <2>10. SameEdit(more, op)
    BY <2>9 DEF SameEdit
  <2>11. QED
    BY <2>5, <2>6, <2>8, <2>10
<1>3. CASE ~(n <= 0) /\ ~IsKind(op, "retain")
  <2>1. n \in Nat \ {0}
    BY <1>3
  <2>2. AddRetain(op, n) = Append(op, Retain(n))
    BY <1>3 DEF AddRetain
  <2>3. QED
    BY <2>1, <2>2, RetainsAtEnd
<1>4. QED
  BY <1>1, <1>2, <1>3

LEMMA SameWeaves ==
  ASSUME NEW r, NEW p, NEW q, NEW s, NEW u, SameEdit(p, s), SameEdit(q, u)
  PROVE  Weave(r, p, q) = Weave(r, s, u)
<1>1. Gaps(p, q) = Gaps(s, u)
  BY DEF Gaps, SameEdit
<1>2. Lost(p, q) = Lost(s, u)
  BY DEF Lost, SameEdit
<1>3. QED
  BY <1>1, <1>2 DEF Weave

\* What transformOps has merged (m), and what is left to be merged, is all.
WeavingAt(U, da, db, e, all, p, q, v, w, r, za, zb, ya, yb, m) ==
  /\ TransAt(U, da, db, p, q, v, w, r, za, zb, ya, yb, m)
  /\ e \in Seq(U) /\ m \o Weave(r \o e, p, q) = all

Weaving(U, da, db, e, all, p, q, v, w) ==
  \E r, za, zb, ya, yb, m : WeavingAt(U, da, db, e, all, p, q, v, w, r, za, zb, ya, yb, m)

LEMMA WeavingTypes ==
  ASSUME NEW U, NEW da, NEW db, NEW e, NEW all, NEW p, NEW q, NEW v, NEW w,
         NEW r, NEW za, NEW zb, NEW ya, NEW yb, NEW m,
         WeavingAt(U, da, db, e, all, p, q, v, w, r, za, zb, ya, yb, m)
  PROVE  /\ p \in Seq(Component(U)) /\ q \in Seq(Component(U)) /\ OnText(U, r \o e, p, q)
         /\ r \in Seq(U) /\ e \in Seq(U) /\ m \in Seq(U)
<1>1. p \in Seq(Component(U)) /\ q \in Seq(Component(U)) /\ r \in Seq(U) /\ e \in Seq(U) /\ m \in Seq(U)
  BY DEF WeavingAt, TransAt, Runs
<1>2. r \o e \in Seq(U)
  BY <1>1, ConcatProperties
<1>3. QED
  BY <1>1, <1>2 DEF OnText

LEMMA JoinedWeave ==
  ASSUME NEW U, NEW r, NEW s, NEW u, OnText(U, r, s, u), NEW m \in Seq(U), NEW t \in Seq(U),
         NEW x, x = t \o Weave(r, s, u)
  PROVE  (m \o t) \o Weave(r, s, u) = m \o x
<1>1. Weave(r, s, u) \in Seq(U)
  BY WeaveType DEF OnText
<1>2. PICK y \in Seq(U) : y = Weave(r, s, u)
  BY <1>1
<1>3. Joins(m, t, y)
  BY JoinsUp
<1>4. QED
  BY <1>2, <1>3 DEF Joins

Advances(m, t, d, s, u, f, p, q) == (m \o t) \o Weave(d, s, u) = m \o Weave(f, p, q)

LEMMA WeaveStepA ==
  ASSUME NEW U, NEW d, NEW p, NEW q, OnText(U, d, p, q), NEW m \in Seq(U),
         p # <<>>, Head(p).kind = "insert"
  PROVE  Advances(m, Head(p).text, d, Tail(p), q, d, p, q)
<1>1. PICK s, t : s = Tail(p) /\ t = Head(p).text
  OBVIOUS
<1>2. p \in Seq(Component(U)) /\ OnText(U, d, s, q)
  BY <1>1, HeadRest DEF OnText
<1>3. Inserting(U, p, t, s)
  BY <1>1, <1>2, InsertedFirst
<1>4. t \in Seq(U)
  BY <1>3 DEF Inserting
<1>5. Weave(d, p, q) = t \o Weave(d, s, q)
  BY <1>2, <1>3, WeaveInsertA
<1>6. (m \o t) \o Weave(d, s, q) = m \o Weave(d, p, q)
  BY <1>2, <1>4, <1>5, JoinedWeave
<1>7. QED
  BY <1>1, <1>6 DEF Advances

LEMMA WeaveStepB ==
  ASSUME NEW U, NEW d, NEW p, NEW q, OnText(U, d, p, q), NEW m \in Seq(U),
         p # <<>> => Head(p).kind # "insert", q # <<>>, Head(q).kind = "insert"
  PROVE  Advances(m, Head(q).text, d, p, Tail(q), d, p, q)
<1>1. PICK s, t : s = Tail(q) /\ t = Head(q).text
  OBVIOUS
<1>2. q \in Seq(Component(U)) /\ OnText(U, d, p, s)
  BY <1>1, HeadRest DEF OnText
<1>3. Inserting(U, q, t, s)
  BY <1>1, <1>2, InsertedFirst
<1>4. t \in Seq(U)
  BY <1>3 DEF Inserting
<1>5. Weave(d, p, q) = t \o Weave(d, p, s)
  BY <1>2, <1>3, WeaveInsertB
<1>6. (m \o t) \o Weave(d, p, s) = m \o Weave(d, p, q)
  BY <1>2, <1>4, <1>5, JoinedWeave
<1>7. QED
  BY <1>1, <1>6 DEF Advances

LEMMA WeaveStepBoth ==
  ASSUME NEW U, NEW x, NEW rest, NEW p, NEW q, NEW s, NEW o,
         OnText(U, x, p, q), OnText(U, rest, s, o), NEW m \in Seq(U),
         NEW dela \in BOOLEAN, NEW delb \in BOOLEAN, NEW del \in BOOLEAN, del = (dela \/ delb),
         NEW n, n = Len(x), Behind(U, p, n, s, dela), Behind(U, q, n, o, delb)
  PROVE  Advances(m, Kept(x, del), rest, s, o, x \o rest, p, q)
<1>1. x \in Seq(U)
  BY DEF OnText
<1>2. PICK k : k = Kept(x, del)
  OBVIOUS
<1>3. k \in Seq(U)
  BY <1>1, <1>2, EmptySeq DEF Kept
<1>4. Behind(U, p, Len(x), s, dela) /\ Behind(U, q, Len(x), o, delb) /\ (del <=> dela \/ delb)
  OBVIOUS
<1>5. Weave(x \o rest, p, q) = Kept(x, del) \o Weave(rest, s, o)
  BY <1>4, WeaveBoth
<1>6. (m \o k) \o Weave(rest, s, o) = m \o Weave(x \o rest, p, q)
  BY <1>2, <1>3, <1>5, JoinedWeave
<1>7. QED
  BY <1>2, <1>6 DEF Advances

LEMMA WeavingInsertA ==
  ASSUME NEW U, NEW da, NEW db, NEW e, NEW all, NEW p, NEW q, NEW v, NEW w,
         Weaving(U, da, db, e, all, p, q, v, w),
         p # <<>>, NEW t, t = Head(p).text, Head(p).kind = "insert"
  PROVE  Weaving(U, da, db, e, all, Tail(p), q, AddInsert(v, t), AddRetain(w, Len(t)))
<1>1. PICK r, za, zb, ya, yb, m : WeavingAt(U, da, db, e, all, p, q, v, w, r, za, zb, ya, yb, m)
  BY DEF Weaving
<1>2. TransAt(U, da, db, p, q, v, w, r, za, zb, ya, yb, m) /\ m \o Weave(r \o e, p, q) = all
  BY <1>1 DEF WeavingAt
<1>3. /\ p \in Seq(Component(U)) /\ q \in Seq(Component(U)) /\ OnText(U, r \o e, p, q)
      /\ e \in Seq(U) /\ m \in Seq(U)
  BY <1>1, WeavingTypes
<1>4. PICK z : /\ t \in Seq(U)
               /\ TransAt(U, da, db, Tail(p), q, AddInsert(v, t), AddRetain(w, Len(t)),
                          r, z, zb, ya \o t, yb, m \o t)
  BY <1>2, TransInserts
<1>5. Advances(m, t, r \o e, Tail(p), q, r \o e, p, q)
  BY <1>3, WeaveStepA
<1>6. WeavingAt(U, da, db, e, all, Tail(p), q, AddInsert(v, t), AddRetain(w, Len(t)),
                r, z, zb, ya \o t, yb, m \o t)
  BY <1>2, <1>3, <1>4, <1>5 DEF WeavingAt, Advances
<1>7. QED
  BY <1>6 DEF Weaving

LEMMA WeavingInsertB ==
  ASSUME NEW U, NEW da, NEW db, NEW e, NEW all, NEW p, NEW q, NEW v, NEW w,
         Weaving(U, da, db, e, all, p, q, v, w), p # <<>> => Head(p).kind # "insert",
         q # <<>>, NEW t, t = Head(q).text, Head(q).kind = "insert"
  PROVE  Weaving(U, da, db, e, all, p, Tail(q), AddRetain(v, Len(t)), AddInsert(w, t))
<1>1. PICK r, za, zb, ya, yb, m : WeavingAt(U, da, db, e, all, p, q, v, w, r, za, zb, ya, yb, m)
  BY DEF Weaving
<1>2. TransAt(U, db, da, q, p, w, v, r, zb, za, yb, ya, m) /\ m \o Weave(r \o e, p, q) = all
  BY <1>1 DEF WeavingAt, TransAt
<1>3. /\ p \in Seq(Component(U)) /\ q \in Seq(Component(U)) /\ OnText(U, r \o e, p, q)
      /\ e \in Seq(U) /\ m \in Seq(U)
  BY <1>1, WeavingTypes
<1>4. PICK z : /\ t \in Seq(U)
               /\ TransAt(U, db, da, Tail(q), p, AddInsert(w, t), AddRetain(v, Len(t)),
                          r, z, za, yb \o t, ya, m \o t)
  BY <1>2, TransInserts
<1>5. Advances(m, t, r \o e, p, Tail(q), r \o e, p, q)
  BY <1>3, WeaveStepB
<1>6. TransAt(U, da, db, p, Tail(q), AddRetain(v, Len(t)), AddInsert(w, t),
              r, za, z, ya, yb \o t, m \o t)
  BY <1>4 DEF TransAt
<1>7. WeavingAt(U, da, db, e, all, p, Tail(q), AddRetain(v, Len(t)), AddInsert(w, t),
                 r, za, z, ya, yb \o t, m \o t)
  BY <1>2, <1>3, <1>5, <1>6 DEF WeavingAt, Advances
<1>8. QED
  BY <1>7 DEF Weaving

LEMMA WeavingBoth ==
  ASSUME NEW U, NEW da, NEW db, NEW e, NEW all, NEW p, NEW q, NEW v, NEW w,
         Weaving(U, da, db, e, all, p, q, v, w),
         p # <<>>, q # <<>>, Head(p).kind # "insert", Head(q).kind # "insert",
         NEW n \in Nat \ {0}, n <= Head(p).n, n <= Head(q).n,
         NEW dela \in BOOLEAN, NEW delb \in BOOLEAN,
         dela = (Head(p).kind = "delete"), delb = (Head(q).kind = "delete")
  PROVE  Weaving(U, da, db, e, all, Consume(p, n), Consume(q, n),
                 Made(v, n, dela, delb), Made(w, n, delb, dela))
<1>1. PICK r, za, zb, ya, yb, m : WeavingAt(U, da, db, e, all, p, q, v, w, r, za, zb, ya, yb, m)
  BY DEF Weaving
<1>2. TransAt(U, da, db, p, q, v, w, r, za, zb, ya, yb, m) /\ m \o Weave(r \o e, p, q) = all
  BY <1>1 DEF WeavingAt
<1>3. /\ p \in Seq(Component(U)) /\ q \in Seq(Component(U)) /\ OnText(U, r \o e, p, q)
      /\ e \in Seq(U) /\ m \in Seq(U)
  BY <1>1, WeavingTypes
<1>4. PICK x : BothTake(U, da, db, p, q, v, w, n, dela, delb, r, ya, yb, m, x)
  BY <1>2, TransTakes
<1>5. PICK del \in BOOLEAN : del = (dela \/ delb)
  OBVIOUS
<1>6. PICK f, z, u, k :
        /\ x \in Seq(U) /\ Len(x) = n /\ r = x \o f /\ k = Kept(x, del)
        /\ TransAt(U, da, db, Consume(p, n), Consume(q, n), Made(v, n, dela, delb),
                   Made(w, n, delb, dela), f, z, u, ya \o Kept(x, dela), yb \o Kept(x, delb), m \o k)
  BY <1>4, <1>5 DEF BothTake
<1>7. /\ Consume(p, n) \in Seq(Component(U)) /\ Behind(U, p, n, Consume(p, n), Head(p).kind = "delete")
  BY <1>3, BehindConsumed
<1>8. /\ Consume(q, n) \in Seq(Component(U)) /\ Behind(U, q, n, Consume(q, n), Head(q).kind = "delete")
  BY <1>3, BehindConsumed
<1>9. Behind(U, p, n, Consume(p, n), dela) /\ Behind(U, q, n, Consume(q, n), delb)
  BY <1>7, <1>8
<1>10. f \in Seq(U) /\ k \in Seq(U) /\ f \o e \in Seq(U)
  <2>1. f \in Seq(U)
    BY <1>6 DEF TransAt, Runs
  <2>2. k \in Seq(U)
    BY <1>6, EmptySeq DEF Kept
  <2>3. QED
    BY <1>3, <2>1, <2>2, ConcatProperties
<1>11. r \o e = x \o (f \o e)
  <2>1. Texts4(U, x, f, e, <<>>)
    BY <1>3, <1>6, <1>10, EmptySeq DEF Texts4
  <2>2. Joins(x, f, e)
    BY <2>1, TextsJoinUp
  <2>3. QED
    BY <1>6, <2>2 DEF Joins
<1>12. PICK s, o, rest : s = Consume(p, n) /\ o = Consume(q, n) /\ rest = f \o e
  OBVIOUS
<1>13. OnText(U, x, p, q) /\ OnText(U, rest, s, o)
  BY <1>3, <1>6, <1>7, <1>8, <1>10, <1>12 DEF OnText
<1>14. Behind(U, p, n, s, dela) /\ Behind(U, q, n, o, delb) /\ n = Len(x) /\ m \in Seq(U)
  BY <1>3, <1>6, <1>9, <1>12
<1>15. Advances(m, Kept(x, del), rest, s, o, x \o rest, p, q)
  BY <1>5, <1>13, <1>14, WeaveStepBoth
<1>16. (m \o k) \o Weave(f \o e, s, o) = all
  BY <1>2, <1>6, <1>11, <1>12, <1>15 DEF Advances
<1>17. WeavingAt(U, da, db, e, all, s, o, Made(v, n, dela, delb), Made(w, n, delb, dela),
                 f, z, u, ya \o Kept(x, dela), yb \o Kept(x, delb), m \o k)
  BY <1>3, <1>6, <1>12, <1>16 DEF WeavingAt
<1>18. QED
  BY <1>12, <1>17 DEF Weaving

WeaveStates(U, da, db, e, all) ==
  {s \in TransStates(U, da, db) : Weaving(U, da, db, e, all, s.a, s.b, s.aOut, s.bOut)}

LEMMA RoundWeaves ==
  ASSUME NEW U, NEW da, NEW db, NEW e, NEW all, NEW s \in WeaveStates(U, da, db, e, all)
  PROVE  TransformRound(s) \in WeaveStates(U, da, db, e, all)
<1>1. PICK p, q, v, w : p = s.a /\ q = s.b /\ v = s.aOut /\ w = s.bOut
  OBVIOUS
<1>2. /\ s \in TransStates(U, da, db) /\ Weaving(U, da, db, e, all, p, q, v, w)
      /\ s = [a |-> p, b |-> q, aOut |-> v, bOut |-> w] /\ Trans(U, da, db, p, q, v, w)
  BY <1>1 DEF WeaveStates, TransStates
<1>3. /\ p \in Seq(Component(U)) /\ q \in Seq(Component(U))
      /\ p = <<>> /\ q # <<>> => Head(q).kind = "insert"
      /\ q = <<>> /\ p # <<>> => Head(p).kind = "insert"
  BY <1>2, TransSwap, TransTypes
<1>4. PICK u : u = TransformRound(s) /\ u \in TransStates(U, da, db)
  BY <1>2, TransformRoundKeeps
<1>5. SUFFICES Weaving(U, da, db, e, all, u.a, u.b, u.aOut, u.bOut)
  BY <1>4 DEF WeaveStates
<1>6. CASE p = <<>> /\ q = <<>>
  <2>1. TransformRound(s) = s
    BY <1>1, <1>6 DEF TransformRound
  <2>2. QED
    BY <1>1, <1>2, <1>4, <2>1
<1>7. CASE p # <<>> /\ Head(p).kind = "insert"
  <2>1. PICK t : t = Head(p).text
    OBVIOUS
  <2>2. u = [a |-> Tail(p), b |-> q, aOut |-> AddInsert(v, t), bOut |-> AddRetain(w, Len(t))]
    BY <1>2, <1>4, <1>7, <2>1 DEF TransformRound
  <2>3. Weaving(U, da, db, e, all, Tail(p), q, AddInsert(v, t), AddRetain(w, Len(t)))
    BY <1>2, <1>7, <2>1, WeavingInsertA
  <2>4. QED
    BY <2>2, <2>3
<1>8. CASE ~(p # <<>> /\ Head(p).kind = "insert") /\ q # <<>> /\ Head(q).kind = "insert"
  <2>1. PICK t : t = Head(q).text
    OBVIOUS
  <2>2. u = [a |-> p, b |-> Tail(q), aOut |-> AddRetain(v, Len(t)), bOut |-> AddInsert(w, t)]
    BY <1>2, <1>4, <1>8, <2>1 DEF TransformRound
  <2>3. Weaving(U, da, db, e, all, p, Tail(q), AddRetain(v, Len(t)), AddInsert(w, t))
    BY <1>2, <1>8, <2>1, WeavingInsertB
  <2>4. QED
    BY <2>2, <2>3
<1>9. CASE p # <<>> /\ q # <<>> /\ Head(p).kind # "insert" /\ Head(q).kind # "insert"
  <2>1. PICK dela \in BOOLEAN, delb \in BOOLEAN :
          dela = (Head(p).kind = "delete") /\ delb = (Head(q).kind = "delete")
    OBVIOUS
  <2>2. Head(p).n \in Nat \ {0} /\ Head(q).n \in Nat \ {0}
    BY <1>3, <1>9, HeadRest, PartType
  <2>3. PICK n \in Nat \ {0} :
          n = Smaller(Head(p).n, Head(q).n) /\ n <= Head(p).n /\ n <= Head(q).n
    BY <2>2 DEF Smaller
  <2>4. u = [a |-> Consume(p, n), b |-> Consume(q, n),
             aOut |-> Made(v, n, dela, delb), bOut |-> Made(w, n, delb, dela)]
    BY <1>2, <1>4, <1>9, <2>1, <2>3 DEF TransformRound, Made
  <2>5. Weaving(U, da, db, e, all, Consume(p, n), Consume(q, n), Made(v, n, dela, delb),
                Made(w, n, delb, dela))
    BY <1>2, <1>9, <2>1, <2>3, WeavingBoth
  <2>6. QED
    BY <2>4, <2>5
<1>10. QED
  BY <1>3, <1>6, <1>7, <1>8, <1>9

WovenTo(U, da, db, e, all, v, w, m) == Runs(U, v, db, m) /\ Runs(U, w, da, m) /\ m \o e = all

LEMMA WeavingDone ==
  ASSUME NEW U, NEW da, NEW db, NEW e, NEW all, NEW v, NEW w,
         Weaving(U, da, db, e, all, <<>>, <<>>, v, w)
  PROVE  \E m : WovenTo(U, da, db, e, all, v, w, m)
<1>1. PICK r, za, zb, ya, yb, m : WeavingAt(U, da, db, e, all, <<>>, <<>>, v, w, r, za, zb, ya, yb, m)
  BY DEF Weaving
<1>2. /\ da = ya \o za /\ db = yb \o zb
      /\ Runs(U, <<>>, r, za) /\ Runs(U, <<>>, r, zb)
      /\ Runs(U, v, yb, m) /\ Runs(U, w, ya, m)
      /\ e \in Seq(U) /\ m \o Weave(r \o e, <<>>, <<>>) = all
  BY <1>1 DEF WeavingAt, TransAt
<1>3. r = <<>> /\ za = <<>> /\ zb = <<>>
  BY <1>2, RunsNone
<1>4. ya \in Seq(U) /\ yb \in Seq(U)
  BY <1>2 DEF Runs
<1>5. da = ya /\ db = yb /\ r \o e = e
  BY <1>2, <1>3, <1>4, ConcatEmptySeq
<1>6. Weave(e, <<>>, <<>>) = e
  BY <1>2, WeaveNone
<1>7. WovenTo(U, da, db, e, all, v, w, m)
  BY <1>2, <1>5, <1>6 DEF WovenTo
<1>8. QED
  BY <1>7

LEMMA FitSame ==
  ASSUME NEW U, NEW op \in Seq(Component(U)), NEW n \in Nat
  PROVE  SameEdit(fitOp(op, n), Rebuild(op)) /\ Rebuild(op) \in Seq(Component(U))
<1>1. Rebuild(op) \in Seq(Component(U))
  BY RebuildSame DEF Same
<1>2. n - opBaseLength(op) \in Int
  BY BaseJoin
<1>3. QED
  BY <1>1, <1>2, RetainSame DEF fitOp

\* p after q, and q after p, make this text.
Makes(doct, p, q, m) ==
  LET primes == transformOps(p, q)
  IN  /\ applyOp(applyOp(doct, p), primes[2]) = m
      /\ applyOp(applyOp(doct, q), primes[1]) = m

LEMMA TransformWeaves ==
  ASSUME NEW U, NEW p \in Seq(Component(U)), NEW q \in Seq(Component(U)), NEW t \in Seq(U),
         Fits(p, t), Fits(q, t)
  PROVE  Makes(t, p, q, Weave(t, Rebuild(p), Rebuild(q)))
<1>1. PICK d, e, da, db, fa, fb : Spans(U, t, p, q, d, e, da, db, fa, fb)
  BY TransSpan
<1>2. /\ e \in Seq(U) /\ t = d \o e /\ applyOp(t, p) = da \o e /\ applyOp(t, q) = db \o e
      /\ TransAt(U, da, db, fa, fb, <<>>, <<>>, d, da, db, <<>>, <<>>, <<>>)
      /\ transformOps(p, q) = Transform(fa, fb)
      /\ \E n \in Nat : fa = fitOp(p, n) /\ fb = fitOp(q, n)
  BY <1>1 DEF Spans
<1>3. fa \in Seq(Component(U)) /\ fb \in Seq(Component(U))
  BY <1>2 DEF TransAt, Runs
<1>4. PICK all : all = Weave(t, Rebuild(p), Rebuild(q))
  OBVIOUS
<1>5. Weave(t, fa, fb) = all /\ all \in Seq(U)
  <2>1. PICK n \in Nat : fa = fitOp(p, n) /\ fb = fitOp(q, n)
    BY <1>2
  <2>2. SameEdit(fa, Rebuild(p)) /\ SameEdit(fb, Rebuild(q))
    BY <2>1, FitSame
  <2>3. QED
    BY <1>3, <1>4, <2>2, SameWeaves, WeaveType
<1>6. PICK S : S = WeaveStates(U, da, db, e, all)
  OBVIOUS
<1>7. TransStart(fa, fb) \in S
  <2>1. Trans(U, da, db, fa, fb, <<>>, <<>>)
    BY <1>2 DEF Trans
  <2>2. TransStart(fa, fb) \in TransStates(U, da, db)
    BY <2>1, TransRecord DEF TransStart
  <2>3. <<>> \o all = all
    BY <1>5, ConcatEmptySeq
  <2>4. WeavingAt(U, da, db, e, all, fa, fb, <<>>, <<>>, d, da, db, <<>>, <<>>, <<>>)
    BY <1>2, <1>5, <2>3 DEF WeavingAt
  <2>5. Weaving(U, da, db, e, all, fa, fb, <<>>, <<>>)
    BY <2>4 DEF Weaving
  <2>6. QED
    BY <1>6, <2>2, <2>5 DEF WeaveStates, TransStart
<1>8. S \in SUBSET TransStates(U, da, db) /\ \A s \in S : TransformRound(s) \in S
  BY <1>6, RoundWeaves DEF WeaveStates
<1>9. PICK g \in S : TransEnds(fa, fb, g)
  BY <1>3, <1>7, <1>8, TransformLoop
<1>10. PICK v, w : v = g.aOut /\ w = g.bOut
  OBVIOUS
<1>11. Weaving(U, da, db, e, all, <<>>, <<>>, v, w) /\ transformOps(p, q) = <<Build(v), Build(w)>>
  BY <1>2, <1>6, <1>9, <1>10 DEF WeaveStates, TransEnds
<1>12. PICK m : WovenTo(U, da, db, e, all, v, w, m)
  BY <1>11, WeavingDone
<1>13. Acts(U, Build(v), db \o e, all) /\ Acts(U, Build(w), da \o e, all)
  <2>1. Acts(U, Build(v), db, m) /\ Acts(U, Build(w), da, m)
    BY <1>12, BuildActs DEF WovenTo
  <2>2. Acts(U, Build(v), db \o e, m \o e) /\ Acts(U, Build(w), da \o e, m \o e)
    BY <1>2, <2>1, ActsBefore
  <2>3. QED
    BY <1>12, <2>2 DEF WovenTo
<1>14. applyOp(db \o e, Build(v)) = all /\ applyOp(da \o e, Build(w)) = all
  BY <1>13, ActsApply
<1>15. QED
  BY <1>2, <1>4, <1>11, <1>14 DEF Makes

\* In either order two operations make the text that both describe: each gap
\* filled by the first and then by the second, each character gone that one of
\* them deletes.
THEOREM TransformLaw == LawSpec => []TransformMerges
<1>1. OpInputs \/ TextInputs => TransformMerges
  <2>1. SUFFICES ASSUME OpInputs \/ TextInputs
                 PROVE  TransformMerges
    OBVIOUS
  <2>2. /\ doc \in Seq(LawUnits) /\ doc = [i \in 1 .. Len(doc) |-> i]
        /\ a \in Seq(Component(LawUnits)) /\ Fits(a, doc)
        /\ b \in Seq(Component(LawUnits)) /\ Fits(b, doc)
    BY <2>1, InputTypes
  <2>3. PICK n \in Nat : n = Len(doc)
    BY <2>2, LenProperties
  <2>4. Counts(doc, n)
    BY <2>2, <2>3 DEF Counts
  <2>5. Rebuild(a) \in Seq(Component(LawUnits)) /\ Rebuild(b) \in Seq(Component(LawUnits))
    BY <2>2, RebuildSame DEF Same
  <2>6. Makes(doc, a, b, Weave(doc, Rebuild(a), Rebuild(b)))
    BY <2>2, TransformWeaves
  <2>7. Merged(n, Rebuild(a), Rebuild(b)) = Weave(doc, Rebuild(a), Rebuild(b))
    BY <2>4, <2>5, MergedWeaves
  <2>8. Makes(doc, a, b, Merged(n, Rebuild(a), Rebuild(b)))
    BY <2>6, <2>7
  <2>9. QED
    BY <2>3, <2>8 DEF TransformMerges, Makes
<1>2. QED
  BY <1>1, LawInputs, PTL

----------------------------------------------------------------------------
\* Normal form: neighbours are merged, and an insert comes before a delete.

Follows(l, c) == l.kind # c.kind /\ ~(l.kind = "delete" /\ c.kind = "insert")
Neat(op)      == \A i \in 1 .. Len(op) - 1 : Follows(op[i], op[i + 1])
NeatEnd(op, c) == op = <<>> \/ Follows(Last(op), c)

LEMMA AppendKind ==
  ASSUME NEW E, NEW f \in Seq(E), NEW c \in E
  PROVE  /\ Append(f, c) \in Seq(E) /\ Append(f, c) # <<>> /\ Last(Append(f, c)) = c
         /\ Len(Append(f, c)) = Len(f) + 1 /\ Len(f) \in Nat
         /\ \A kind : IsKind(Append(f, c), kind) <=> c.kind = kind
<1>1. PICK n \in Nat : n = Len(f)
  BY LenProperties
<1>2. PICK more \in Seq(E) : more = Append(f, c)
  BY AppendProperties
<1>3. Len(more) = n + 1 /\ more[n + 1] = c
  BY <1>1, <1>2, AppendProperties
<1>4. more # <<>>
  BY <1>3, EmptySeq
<1>5. Last(more) = c
  BY <1>3 DEF Last
<1>6. QED
  BY <1>1, <1>2, <1>3, <1>4, <1>5 DEF IsKind

LEMMA NeatMore ==
  ASSUME NEW U, NEW op \in Seq(Component(U)), NEW c \in Component(U)
  PROVE  Neat(Append(op, c)) <=> Neat(op) /\ NeatEnd(op, c)
<1>1. PICK n \in Nat : n = Len(op)
  BY LenProperties
<1>2. PICK more \in Seq(Component(U)) : more = Append(op, c)
  BY AppendProperties
<1>3. Len(more) = n + 1 /\ more[n + 1] = c /\ \A i \in 1 .. n : more[i] = op[i]
  BY <1>1, <1>2, AppendProperties
<1>4. CASE n = 0
  <2>1. op = <<>>
    BY <1>1, <1>4, EmptySeq
  <2>2. Neat(more) /\ Neat(op)
    BY <1>1, <1>3, <1>4 DEF Neat
  <2>3. QED
    BY <1>2, <2>1, <2>2 DEF NeatEnd
<1>5. CASE n # 0
  <2>1. op # <<>> /\ Last(op) = op[n]
    BY <1>1, <1>5, EmptySeq, FrontLast
  <2>2. /\ \A i \in 1 .. n - 1 : more[i] = op[i] /\ more[i + 1] = op[i + 1]
        /\ more[n] = op[n] /\ more[n + 1] = c /\ n \in 1 .. n
    <3>1. n \in 1 .. n /\ \A i \in 1 .. n - 1 : i \in 1 .. n /\ i + 1 \in 1 .. n
      BY <1>5
    <3>2. QED
      BY <1>3, <3>1
  <2>3. Neat(more) <=> \A i \in 1 .. n : Follows(more[i], more[i + 1])
    <3>1. Len(more) - 1 = n
      BY <1>3
    <3>2. QED
      BY <3>1 DEF Neat
  <2>4. Neat(op) <=> \A i \in 1 .. n - 1 : Follows(op[i], op[i + 1])
    BY <1>1 DEF Neat
  <2>5. \A i \in 1 .. n : i \in 1 .. n - 1 \/ i = n
    OBVIOUS
  <2>6. \A i \in 1 .. n - 1 : i \in 1 .. n
    OBVIOUS
  <2>7. Neat(more) <=> Neat(op) /\ Follows(op[n], c)
    BY <2>2, <2>3, <2>4, <2>5, <2>6
  <2>8. QED
    BY <1>2, <2>1, <2>7 DEF NeatEnd
<1>6. QED
  BY <1>4, <1>5

LEMMA KindIs ==
  ASSUME NEW U, NEW op \in Seq(Component(U)), NEW kind, IsKind(op, kind)
  PROVE  \E f \in Seq(Component(U)), c \in Component(U) :
           op = Append(f, c) /\ c.kind = kind /\ f = Front(op) /\ c = Last(op)
<1>1. op # <<>> /\ Last(op).kind = kind
  BY DEF IsKind
<1>2. Front(op) \in Seq(Component(U)) /\ Last(op) \in Component(U) /\ op = Append(Front(op), Last(op))
  BY <1>1, FrontLast
<1>3. QED
  BY <1>1, <1>2

LEMMA EndIs ==
  ASSUME NEW op, NEW c
  PROVE  NeatEnd(op, c) <=> ~IsKind(op, c.kind) /\ (c.kind = "insert" => ~IsKind(op, "delete"))
BY DEF NeatEnd, Follows, IsKind

\* A part of the kind of the last one may replace it.
LEMMA NeatAgain ==
  ASSUME NEW U, NEW f \in Seq(Component(U)), NEW c \in Component(U), NEW d \in Component(U),
         c.kind = d.kind, Neat(Append(f, c))
  PROVE  Neat(Append(f, d))
<1>1. Neat(f) /\ NeatEnd(f, c)
  BY NeatMore
<1>2. NeatEnd(f, d)
  BY <1>1 DEF NeatEnd, Follows
<1>3. QED
  BY <1>1, <1>2, NeatMore

LEMMA NeatRetain ==
  ASSUME NEW U, NEW op \in Seq(Component(U)), NEW n \in Nat \ {0}, Neat(op)
  PROVE  Neat(AddRetain(op, n)) /\ (~IsKind(op, "retain") => AddRetain(op, n) = Append(op, Retain(n)))
<1>1. Retain(n) \in Component(U) /\ ~(n <= 0) /\ Retain(n).kind = "retain"
  BY PartsAre DEF Retain
<1>2. CASE IsKind(op, "retain")
  <2>1. PICK f \in Seq(Component(U)), c \in Component(U) : op = Append(f, c) /\ c.kind = "retain"
    BY <1>2, KindIs
  <2>2. PICK m \in Nat \ {0} : c = Retain(m)
    BY <2>1, PartType
  <2>3. AddRetain(op, n) = Append(f, Retain(m + n))
    BY <1>1, <1>2, <2>1, <2>2, GrowIs DEF AddRetain
  <2>4. PICK d \in Component(U) : d = Retain(m + n) /\ d.kind = "retain"
    <3>1. PICK k \in Nat \ {0} : k = m + n
      OBVIOUS
    <3>2. Retain(k) \in Component(U)
      BY PartsAre
    <3>3. Retain(k).kind = "retain"
      BY DEF Retain
    <3>4. QED
      BY <3>1, <3>2, <3>3
  <2>5. Neat(Append(f, d))
    BY <2>1, <2>4, NeatAgain
  <2>6. QED
    BY <1>2, <2>3, <2>4, <2>5
<1>3. CASE ~IsKind(op, "retain")
  <2>1. AddRetain(op, n) = Append(op, Retain(n))
    BY <1>1, <1>3 DEF AddRetain
  <2>2. NeatEnd(op, Retain(n))
    BY <1>1, <1>3, EndIs
  <2>3. QED
    BY <1>1, <2>1, <2>2, NeatMore
<1>4. QED
  BY <1>2, <1>3

LEMMA NeatDelete ==
  ASSUME NEW U, NEW op \in Seq(Component(U)), NEW n \in Nat \ {0}, Neat(op)
  PROVE  Neat(AddDelete(op, n)) /\ (~IsKind(op, "delete") => AddDelete(op, n) = Append(op, Delete(n)))
<1>1. Delete(n) \in Component(U) /\ ~(n <= 0) /\ Delete(n).kind = "delete"
  BY PartsAre DEF Delete
<1>2. CASE IsKind(op, "delete")
  <2>1. PICK f \in Seq(Component(U)), c \in Component(U) : op = Append(f, c) /\ c.kind = "delete"
    BY <1>2, KindIs
  <2>2. PICK m \in Nat \ {0} : c = Delete(m)
    BY <2>1, PartType
  <2>3. AddDelete(op, n) = Append(f, Delete(m + n))
    BY <1>1, <1>2, <2>1, <2>2, GrowIs DEF AddDelete
  <2>4. PICK d \in Component(U) : d = Delete(m + n) /\ d.kind = "delete"
    <3>1. PICK k \in Nat \ {0} : k = m + n
      OBVIOUS
    <3>2. Delete(k) \in Component(U)
      BY PartsAre
    <3>3. Delete(k).kind = "delete"
      BY DEF Delete
    <3>4. QED
      BY <3>1, <3>2, <3>3
  <2>5. Neat(Append(f, d))
    BY <2>1, <2>4, NeatAgain
  <2>6. QED
    BY <1>2, <2>3, <2>4, <2>5
<1>3. CASE ~IsKind(op, "delete")
  <2>1. AddDelete(op, n) = Append(op, Delete(n))
    BY <1>1, <1>3 DEF AddDelete
  <2>2. NeatEnd(op, Delete(n))
    BY <1>1, <1>3, EndIs
  <2>3. QED
    BY <1>1, <2>1, <2>2, NeatMore
<1>4. QED
  BY <1>2, <1>3

LEMMA NeatInsert ==
  ASSUME NEW U, NEW op \in Seq(Component(U)), NEW t \in Seq(U), t # <<>>, Neat(op)
  PROVE  /\ Neat(AddInsert(op, t))
         /\ ~IsKind(op, "insert") /\ ~IsKind(op, "delete") => AddInsert(op, t) = Append(op, Insert(t))
<1> DEFINE E == Component(U)
<1>1. Insert(t) \in E /\ Insert(t).kind = "insert"
  BY PartsAre DEF Insert
<1>2. CASE IsKind(op, "delete")
  <2>1. PICK g \in Seq(E), c \in E : op = Append(g, c) /\ c.kind = "delete" /\ g = Front(op) /\ c = Last(op)
    BY <1>2, KindIs
  <2>2. PICK n \in Nat \ {0} : c = Delete(n)
    BY <2>1, PartType
  <2>3. Neat(g) /\ ~IsKind(g, "delete")
    BY <2>1, NeatMore, EndIs
  <2>4. CASE IsKind(g, "insert")
    <3>1. PICK f \in Seq(E), i \in E : g = Append(f, i) /\ i.kind = "insert"
      BY <2>4, KindIs
    <3>2. PICK u \in Seq(U) : i = Insert(u) /\ u # <<>>
      BY <3>1, PartType
    <3>3. PICK j \in E : j = Insert(u \o t) /\ j.kind = "insert"
      <4>1. Insert(u \o t) \in E
        BY <3>2, JoinedInsert
      <4>2. Insert(u \o t).kind = "insert"
        BY DEF Insert
      <4>3. QED
        BY <4>1, <4>2
    <3>4. AddInsert(op, t) = [op EXCEPT ![Len(op) - 1].text = @ \o t]
      BY <1>2, <2>1, <2>4 DEF AddInsert
    <3>5. op = Append(Append(f, i), c) /\ op[Len(op) - 1] = i
      <4>1. Append(Append(f, i), c)[Len(Append(Append(f, i), c)) - 1] = i
        BY ExceptBeforeLast
      <4>2. QED
        BY <2>1, <3>1, <4>1
    <3>6. [i EXCEPT !.text = @ \o t] = j
      BY <3>2, <3>3, LongerInsert
    <3>7. AddInsert(op, t) = [op EXCEPT ![Len(op) - 1] = j]
      BY <3>4, <3>5, <3>6
    <3>8. [op EXCEPT ![Len(op) - 1] = j] = Append(Append(f, j), c)
      <4>1. [Append(Append(f, i), c) EXCEPT ![Len(Append(Append(f, i), c)) - 1] = j]
              = Append(Append(f, j), c)
        BY ExceptBeforeLast
      <4>2. QED
        BY <3>5, <4>1
    <3>9. Neat(Append(f, j))
      BY <2>3, <3>1, <3>3, NeatAgain
    <3>10. NeatEnd(Append(f, j), c)
      <4>1. \A kind : IsKind(Append(f, j), kind) <=> j.kind = kind
        BY <3>3, AppendKind
      <4>2. QED
        BY <2>1, <3>3, <4>1, EndIs
    <3>11. Append(f, j) \in Seq(E)
      BY <3>3, AppendProperties
    <3>12. Neat(Append(Append(f, j), c))
      BY <2>1, <3>9, <3>10, <3>11, NeatMore
    <3>13. QED
      BY <1>2, <3>7, <3>8, <3>12
  <2>5. CASE ~IsKind(g, "insert")
    <3>1. AddInsert(op, t) = Append(Append(g, Insert(t)), c)
      BY <1>2, <2>1, <2>5 DEF AddInsert
    <3>2. NeatEnd(g, Insert(t))
      BY <1>1, <2>3, <2>5, EndIs
    <3>3. PICK j \in E : j = Insert(t)
      BY <1>1
    <3>4. Neat(Append(g, j))
      BY <2>3, <3>2, <3>3, NeatMore
    <3>5. NeatEnd(Append(g, j), c)
      <4>1. \A kind : IsKind(Append(g, j), kind) <=> j.kind = kind
        BY AppendKind
      <4>2. QED
        BY <1>1, <2>1, <3>3, <4>1, EndIs
    <3>6. Append(g, j) \in Seq(E)
      BY AppendProperties
    <3>7. Neat(Append(Append(g, j), c))
      BY <2>1, <3>4, <3>5, <3>6, NeatMore
    <3>8. QED
      BY <1>2, <3>1, <3>3, <3>7
  <2>6. QED
    BY <2>4, <2>5
<1>3. CASE ~IsKind(op, "delete") /\ IsKind(op, "insert")
  <2>1. PICK f \in Seq(E), i \in E : op = Append(f, i) /\ i.kind = "insert"
    BY <1>3, KindIs
  <2>2. PICK u \in Seq(U) : i = Insert(u) /\ u # <<>>
    BY <2>1, PartType
  <2>3. PICK j \in E : j = Insert(u \o t) /\ j.kind = "insert"
    <3>1. Insert(u \o t) \in E
      BY <2>2, JoinedInsert
    <3>2. Insert(u \o t).kind = "insert"
      BY DEF Insert
    <3>3. QED
      BY <3>1, <3>2
  <2>4. AddInsert(op, t) = [op EXCEPT ![Len(op)].text = @ \o t]
    BY <1>3 DEF AddInsert
  <2>5. op[Len(op)] = i
    BY <2>1, AppendProperties
  <2>6. [i EXCEPT !.text = @ \o t] = j
    BY <2>2, <2>3, LongerInsert
  <2>7. AddInsert(op, t) = [op EXCEPT ![Len(op)] = j]
    BY <2>4, <2>5, <2>6
  <2>8. [op EXCEPT ![Len(op)] = j] = Append(f, j)
    BY <2>1, ExceptLast
  <2>9. Neat(Append(f, j))
    BY <2>1, <2>3, NeatAgain
  <2>10. QED
    BY <1>3, <2>7, <2>8, <2>9
<1>4. CASE ~IsKind(op, "delete") /\ ~IsKind(op, "insert")
  <2>1. AddInsert(op, t) = Append(op, Insert(t))
    BY <1>4 DEF AddInsert
  <2>2. NeatEnd(op, Insert(t))
    BY <1>1, <1>4, EndIs
  <2>3. Neat(Append(op, Insert(t)))
    BY <1>1, <2>2, NeatMore
  <2>4. QED
    BY <2>1, <2>3
<1>5. QED
  BY <1>2, <1>3, <1>4

LEMMA NeatPart ==
  ASSUME NEW U, NEW op \in Seq(Component(U)), NEW c \in Component(U), Neat(op)
  PROVE  /\ AddPart(op, c) \in Seq(Component(U)) /\ Neat(AddPart(op, c))
         /\ NeatEnd(op, c) => AddPart(op, c) = Append(op, c)
<1>1. AddPart(op, c) \in Seq(Component(U))
  BY AddExtends DEF Extends
<1>2. NeatEnd(op, c) <=> ~IsKind(op, c.kind) /\ (c.kind = "insert" => ~IsKind(op, "delete"))
  BY EndIs
<1>3. CASE c.kind = "retain"
  <2>1. c.n \in Nat \ {0} /\ c = Retain(c.n)
    BY <1>3, PartType
  <2>2. AddPart(op, c) = AddRetain(op, c.n)
    BY <1>3 DEF AddPart
  <2>3. QED
    BY <1>1, <1>2, <1>3, <2>1, <2>2, NeatRetain
<1>4. CASE c.kind = "delete"
  <2>1. c.n \in Nat \ {0} /\ c = Delete(c.n)
    BY <1>4, PartType
  <2>2. AddPart(op, c) = AddDelete(op, c.n)
    BY <1>4 DEF AddPart
  <2>3. QED
    BY <1>1, <1>2, <1>4, <2>1, <2>2, NeatDelete
<1>5. CASE c.kind = "insert"
  <2>1. c.text \in Seq(U) /\ c.text # <<>> /\ c = Insert(c.text)
    BY <1>5, PartType
  <2>2. AddPart(op, c) = AddInsert(op, c.text)
    BY <1>5 DEF AddPart
  <2>3. QED
    BY <1>1, <1>2, <1>5, <2>1, <2>2, NeatInsert
<1>6. QED
  BY <1>3, <1>4, <1>5, PartType

\* What is rebuilt is neat, and what is neat is rebuilt as it is.
LEMMA RebuildNeat ==
  ASSUME NEW U, NEW op \in Seq(Component(U))
  PROVE  /\ Rebuild(op) \in Seq(Component(U)) /\ Neat(Rebuild(op))
         /\ Neat(op) => Rebuild(op) = op
<1> DEFINE E == Component(U)
           T == {o \in Seq(E) : /\ Rebuild(o) \in Seq(E) /\ Neat(Rebuild(o))
                                /\ Neat(o) => Rebuild(o) = o}
<1>1. <<>> \in T
  <2>1. <<>> \in Seq(E) /\ Len(<<>>) = 0
    BY EmptySeq
  <2>2. Rebuild(<<>>) = <<>>
    BY <2>1, RebuildLaws
  <2>3. Neat(<<>>)
    BY <2>1 DEF Neat
  <2>4. QED
    BY <2>1, <2>2, <2>3
<1>2. ASSUME NEW o \in Seq(E), NEW c \in E, o \in T
      PROVE  Append(o, c) \in T
  <2>1. PICK r \in Seq(E) : r = Rebuild(o) /\ Neat(r) /\ (Neat(o) => r = o)
    BY <1>2
  <2>2. Append(o, c) \in Seq(E) /\ Rebuild(Append(o, c)) = AddPart(r, c)
    BY <2>1, RebuildLaws, AppendProperties
  <2>3. /\ AddPart(r, c) \in Seq(E) /\ Neat(AddPart(r, c))
        /\ NeatEnd(r, c) => AddPart(r, c) = Append(r, c)
    BY <2>1, NeatPart
  <2>4. Neat(Append(o, c)) => Neat(o) /\ NeatEnd(o, c)
    BY NeatMore
  <2>5. QED
    BY <2>1, <2>2, <2>3, <2>4
<1>3. \A o \in Seq(E) : o \in T
  <2> HIDE DEF T, E
  <2>1. QED
    BY <1>1, <1>2, SeqSetInduction
<1>4. QED
  BY <1>3

LEMMA NormalNeat ==
  ASSUME NEW U, NEW op \in Seq(Component(U))
  PROVE  /\ Neat(normalizeOp(op)) /\ ~IsKind(normalizeOp(op), "retain")
         /\ normalizeOp(normalizeOp(op)) = normalizeOp(op)
<1>1. PICK r \in Seq(Component(U)) : r = Rebuild(op) /\ Neat(r)
  BY RebuildNeat
<1>2. PICK n : n = Build(r)
  OBVIOUS
<1>3. n \in Seq(Component(U)) /\ Neat(n) /\ ~IsKind(n, "retain")
  <2>1. CASE IsKind(r, "retain")
    <3>1. PICK f \in Seq(Component(U)), c \in Component(U) :
            r = Append(f, c) /\ c.kind = "retain" /\ f = Front(r)
      BY <2>1, KindIs
    <3>2. n = f
      BY <1>2, <2>1, <3>1 DEF Build
    <3>3. Neat(f) /\ NeatEnd(f, c)
      BY <1>1, <3>1, NeatMore
    <3>4. QED
      BY <3>1, <3>2, <3>3, EndIs
  <2>2. CASE ~IsKind(r, "retain")
    BY <1>1, <1>2, <2>2 DEF Build
  <2>3. QED
    BY <2>1, <2>2
<1>4. Rebuild(n) = n
  BY <1>3, RebuildNeat
<1>5. normalizeOp(n) = n
  BY <1>3, <1>4 DEF normalizeOp, Build
<1>6. normalizeOp(op) = n
  BY <1>1, <1>2 DEF normalizeOp
<1>7. QED
  BY <1>3, <1>5, <1>6

\* An operation is the edit it describes, and so is its normal form, which is
\* canonical.
THEOREM OperationLaw == LawSpec => []OperationIsEdit
<1>1. OpInputs \/ TextInputs => OperationIsEdit
  <2>1. SUFFICES ASSUME OpInputs \/ TextInputs
                 PROVE  OperationIsEdit
    OBVIOUS
  <2>2. /\ doc \in Seq(LawUnits) /\ a \in Seq(Component(LawUnits)) /\ Fits(a, doc)
    BY <2>1, InputTypes
  <2>3. applyOp(doc, normalizeOp(a)) = applyOp(doc, a)
    BY <2>2, NormalizeKeepsTheEdit DEF Operation
  <2>4. PICK n : n = normalizeOp(a)
    OBVIOUS
  <2>5. Neat(n) /\ ~IsKind(n, "retain") /\ normalizeOp(n) = n
    BY <2>2, <2>4, NormalNeat
  <2>6. NormalFormKeepsTheEdit
    BY <2>3, <2>4, <2>5 DEF NormalFormKeepsTheEdit, Neat, Follows
  <2>7. QED
    BY <2>1, <2>6, ApplyLaw DEF OperationIsEdit
<1>2. QED
  BY <1>1, LawInputs, PTL

----------------------------------------------------------------------------
\* diffToOp: what two texts have in common in front and behind.

\* The first numbers up to k that are in P.
LEMMA LongestFront ==
  ASSUME NEW k \in Nat, NEW P
  PROVE  \E n \in 0 .. k : (\A i \in 1 .. n : i \in P) /\ (n < k => n + 1 \notin P)
<1>1. SUFFICES ASSUME \A n \in 0 .. k : (\A i \in 1 .. n : i \in P) => n < k /\ n + 1 \in P
               PROVE  FALSE
  OBVIOUS
<1> DEFINE T == {n \in Nat : n <= k => \A i \in 1 .. n : i \in P}
<1>2. 0 \in T
  OBVIOUS
<1>3. ASSUME NEW n \in Nat, n \in T
      PROVE  n + 1 \in T
  <2>1. SUFFICES ASSUME n + 1 <= k, NEW i \in 1 .. n + 1
                 PROVE  i \in P
    OBVIOUS
  <2>2. n \in 0 .. k /\ \A j \in 1 .. n : j \in P
    BY <1>3, <2>1
  <2>3. n + 1 \in P
    BY <1>1, <2>2
  <2>4. i \in 1 .. n \/ i = n + 1
    OBVIOUS
  <2>5. QED
    BY <2>2, <2>3, <2>4
<1>4. \A n \in Nat : n \in T
  <2> HIDE DEF T
  <2>1. QED
    BY <1>2, <1>3, NatSetInduction
<1>5. k \in 0 .. k /\ \A i \in 1 .. k : i \in P
  BY <1>4
<1>6. k < k
  BY <1>1, <1>5
<1>7. QED
  BY <1>6

\* The texts s and t start with the same m units and end with the same n, and
\* neither the one nor the other splits a pair.
Shared(s, t, m, n) ==
  /\ m \in Nat /\ n \in Nat /\ m + n <= Len(s) /\ m + n <= Len(t)
  /\ \A i \in 1 .. m : s[i] = t[i]
  /\ \A i \in 1 .. n : s[(Len(s) - n) + i] = t[(Len(t) - n) + i]
  /\ m > 0 => s[m] \notin High
  /\ n > 0 => s[(Len(s) - n) + 1] \notin Low

Differs(s, t, m, n) ==
  Build(AddInsert(AddDelete(AddRetain(<<>>, m), Len(s) - n - m), SubSeq(t, m + 1, Len(t) - n)))

SharesFront(s, t, p, k) == /\ \A i \in 1 .. p : s[i] = t[i]
                           /\ p < k => s[p + 1] # t[p + 1]

SharesEnd(s, t, r, k) == /\ \A i \in 0 .. r - 1 : s[Len(s) - i] = t[Len(t) - i]
                         /\ r < k => s[Len(s) - r] # t[Len(t) - r]

LEMMA DiffIs ==
  ASSUME NEW U, NEW s \in Seq(U), NEW t \in Seq(U)
  PROVE  \E p \in Nat, r \in Nat :
           /\ p + r <= Len(s) /\ p + r <= Len(t)
           /\ \A i \in 1 .. p : s[i] = t[i]
           /\ \A i \in 0 .. r - 1 : s[Len(s) - i] = t[Len(t) - i]
           /\ diffToOp(s, t, High, Low)
                = Differs(s, t, StartOf(s, p, High),
                          IF r > 0 /\ s[Len(s) - r + 1] \in Low THEN r - 1 ELSE r)
<1>1. PICK ls \in Nat, lt \in Nat : ls = Len(s) /\ lt = Len(t)
  BY LenProperties
<1>2. PICK k \in Nat : k = Smaller(Len(s), Len(t)) /\ k <= ls /\ k <= lt
  BY <1>1 DEF Smaller
<1>3. PICK p : p = CommonPrefix(s, t)
  OBVIOUS
<1>4. p \in 0 .. k /\ SharesFront(s, t, p, k)
  <2>1. PICK P : P = {i \in Nat : s[i] = t[i]}
    OBVIOUS
  <2>2. PICK n \in 0 .. k : (\A i \in 1 .. n : i \in P) /\ (n < k => n + 1 \notin P)
    BY LongestFront
  <2>3. n \in Nat /\ n + 1 \in Nat /\ \A i \in 1 .. n : i \in Nat
    OBVIOUS
  <2>4. SharesFront(s, t, n, k)
    BY <1>2, <2>1, <2>2, <2>3 DEF SharesFront
  <2>5. CommonPrefix(s, t) = CHOOSE m \in 0 .. k : SharesFront(s, t, m, k)
    BY <1>2 DEF CommonPrefix, SharesFront
  <2>6. QED
    BY <1>3, <2>4, <2>5
<1>5. PICK l \in Nat : l = k - p
  BY <1>4
<1>6. PICK r : r = CommonSuffix(s, t, p)
  OBVIOUS
<1>7. r \in 0 .. l /\ SharesEnd(s, t, r, l)
  <2>1. PICK P : P = {i \in Nat : s[Len(s) - (i - 1)] = t[Len(t) - (i - 1)]}
    OBVIOUS
  <2>2. PICK n \in 0 .. l : (\A i \in 1 .. n : i \in P) /\ (n < l => n + 1 \notin P)
    BY LongestFront
  <2>3. \A i \in 0 .. n - 1 : s[Len(s) - i] = t[Len(t) - i]
    <3>1. \A i \in 0 .. n - 1 : i + 1 \in 1 .. n /\ (i + 1) - 1 = i
      OBVIOUS
    <3>2. QED
      BY <2>1, <2>2, <3>1
  <2>4. n < l => s[Len(s) - n] # t[Len(t) - n]
    <3>1. n + 1 \in Nat /\ (n + 1) - 1 = n
      OBVIOUS
    <3>2. QED
      BY <2>1, <2>2, <3>1
  <2>5. SharesEnd(s, t, n, l)
    BY <2>3, <2>4 DEF SharesEnd
  <2>6. CommonSuffix(s, t, p) = CHOOSE m \in 0 .. l : SharesEnd(s, t, m, l)
    BY <1>2, <1>5 DEF CommonSuffix, SharesEnd
  <2>7. QED
    BY <1>6, <2>5, <2>6
<1>8. diffToOp(s, t, High, Low)
        = Differs(s, t, StartOf(s, p, High),
                  IF r > 0 /\ s[Len(s) - r + 1] \in Low THEN r - 1 ELSE r)
  BY <1>3, <1>6 DEF diffToOp, Differs
<1>9. p \in Nat /\ r \in Nat /\ p + r <= Len(s) /\ p + r <= Len(t)
  BY <1>1, <1>2, <1>4, <1>5, <1>7
<1>10. QED
  BY <1>4, <1>7, <1>8, <1>9 DEF SharesFront, SharesEnd

LEMMA DiffShares ==
  ASSUME NEW U, NEW s \in Seq(U), NEW t \in Seq(U), isWellFormedText(s)
  PROVE  \E m, n : Shared(s, t, m, n) /\ diffToOp(s, t, High, Low) = Differs(s, t, m, n)
<1>1. PICK p \in Nat, r \in Nat :
        /\ p + r <= Len(s) /\ p + r <= Len(t)
        /\ \A i \in 1 .. p : s[i] = t[i]
        /\ \A i \in 0 .. r - 1 : s[Len(s) - i] = t[Len(t) - i]
        /\ diffToOp(s, t, High, Low)
             = Differs(s, t, StartOf(s, p, High),
                       IF r > 0 /\ s[Len(s) - r + 1] \in Low THEN r - 1 ELSE r)
  BY DiffIs
<1>2. PICK ls \in Nat, lt \in Nat : ls = Len(s) /\ lt = Len(t)
  BY LenProperties
<1>3. ASSUME NEW i \in 1 .. ls
      PROVE  /\ s[i] \in High => i < ls /\ s[i + 1] \in Low
             /\ s[i] \in Low => i > 1 /\ s[i - 1] \in High
             /\ ~(s[i] \in High /\ s[i] \in Low)
  <2>1. i \in DOMAIN s
    BY <1>2
  <2>2. QED
    BY <1>2, <2>1, LawAssumption DEF isWellFormedText
<1>4. PICK m, n : m = StartOf(s, p, High)
                  /\ n = IF r > 0 /\ s[Len(s) - r + 1] \in Low THEN r - 1 ELSE r
  OBVIOUS
<1>5. m \in Nat /\ m <= p /\ (m > 0 => s[m] \notin High)
  <2>1. CASE p > 0 /\ s[p] \in High
    <3>1. m = p - 1
      BY <1>4, <2>1 DEF StartOf
    <3>2. ASSUME p - 1 > 0, s[p - 1] \in High
          PROVE  FALSE
      <4>1. p - 1 \in 1 .. ls /\ p \in 1 .. ls /\ (p - 1) + 1 = p
        BY <1>1, <1>2, <3>2
      <4>2. s[p] \in Low
        BY <1>3, <3>2, <4>1
      <4>3. QED
        BY <1>3, <2>1, <4>1, <4>2
    <3>3. QED
      BY <2>1, <3>1, <3>2
  <2>2. CASE ~(p > 0 /\ s[p] \in High)
    <3>1. m = p
      BY <1>4, <2>2 DEF StartOf
    <3>2. QED
      BY <2>2, <3>1
  <2>3. QED
    BY <2>1, <2>2
<1>6. n \in Nat /\ n <= r /\ (n > 0 => s[(Len(s) - n) + 1] \notin Low)
  <2>1. CASE r > 0 /\ s[Len(s) - r + 1] \in Low
    <3>1. n = r - 1
      BY <1>4, <2>1
    <3>2. PICK h : h = (ls - r) + 1
      OBVIOUS
    <3>3. ASSUME r - 1 > 0, s[(ls - (r - 1)) + 1] \in Low
          PROVE  FALSE
      <4>1. h \in 1 .. ls /\ h + 1 \in 1 .. ls /\ (ls - (r - 1)) + 1 = h + 1 /\ (h + 1) - 1 = h
        BY <1>1, <1>2, <3>2, <3>3
      <4>2. s[h] \in High
        BY <1>3, <3>3, <4>1
      <4>3. s[h] \in Low
        BY <1>2, <2>1, <3>2
      <4>4. QED
        BY <1>3, <4>1, <4>2, <4>3
    <3>4. n > 0 => s[(Len(s) - n) + 1] \notin Low
      BY <1>2, <3>1, <3>3
    <3>5. QED
      BY <2>1, <3>1, <3>4
  <2>2. CASE ~(r > 0 /\ s[Len(s) - r + 1] \in Low)
    <3>1. n = r
      BY <1>4, <2>2
    <3>2. QED
      BY <2>2, <3>1
  <2>3. QED
    BY <2>1, <2>2
<1>7. m + n <= Len(s) /\ m + n <= Len(t) /\ \A i \in 1 .. m : s[i] = t[i]
  <2>1. \A i \in 1 .. m : i \in 1 .. p
    BY <1>5
  <2>2. m + n <= p + r
    BY <1>5, <1>6
  <2>3. QED
    BY <1>1, <1>2, <1>5, <1>6, <2>1, <2>2
<1>8. ASSUME NEW i \in 1 .. n
      PROVE  s[(Len(s) - n) + i] = t[(Len(t) - n) + i]
  <2>1. n - i \in 0 .. r - 1
    BY <1>6
  <2>2. s[Len(s) - (n - i)] = t[Len(t) - (n - i)]
    BY <1>1, <2>1
  <2>3. ls - (n - i) = (ls - n) + i /\ lt - (n - i) = (lt - n) + i
    BY <1>6
  <2>4. QED
    BY <1>2, <2>2, <2>3
<1>9. Shared(s, t, m, n)
  BY <1>5, <1>6, <1>7, <1>8 DEF Shared
<1>10. diffToOp(s, t, High, Low) = Differs(s, t, m, n)
  BY <1>1, <1>4
<1>11. QED
  BY <1>9, <1>10

\* What is inserted has no half of a pair.
LEMMA DiffWhole ==
  ASSUME NEW U, NEW s \in Seq(U), NEW t \in Seq(U), isWellFormedText(s), isWellFormedText(t),
         NEW m, NEW n, Shared(s, t, m, n)
  PROVE  isWellFormedText(SubSeq(t, m + 1, Len(t) - n))
<1>1. PICK ls \in Nat, lt \in Nat : ls = Len(s) /\ lt = Len(t)
  BY LenProperties
<1>2. /\ m \in Nat /\ n \in Nat /\ m + n <= ls /\ m + n <= lt
      /\ \A i \in 1 .. m : s[i] = t[i]
      /\ \A i \in 1 .. n : s[(ls - n) + i] = t[(lt - n) + i]
      /\ m > 0 => s[m] \notin High
      /\ n > 0 => s[(ls - n) + 1] \notin Low
  BY <1>1 DEF Shared
<1>3. PICK k \in Nat : k = (lt - n) - m
  <2>1. (lt - n) - m \in Nat
    BY <1>1, <1>2
  <2>2. QED
    BY <2>1
<1>4. PICK x : x = SubSeq(t, m + 1, Len(t) - n)
  OBVIOUS
<1>5. x = [i \in 1 .. k |-> t[m + i]] /\ Len(x) = k /\ DOMAIN x = 1 .. k
  <2>1. lt - n = m + k
    BY <1>1, <1>2, <1>3
  <2>2. x = Slice(t, m, k)
    BY <1>1, <1>4, <2>1 DEF Slice
  <2>3. Len(x) = k /\ (\A i \in 1 .. k : x[i] = t[m + i]) /\ x \in Seq(Units(U, t))
    <3>1. m \in Nat /\ k \in Nat
      BY <1>2, <1>3
    <3>2. /\ Slice(t, m, k) \in Seq(Units(U, t)) /\ Len(Slice(t, m, k)) = k
          /\ \A i \in 1 .. k : Slice(t, m, k)[i] = t[m + i]
      BY <3>1, SliceType
    <3>3. QED
      BY <2>2, <3>2
  <2>4. DOMAIN x = 1 .. k /\ x = [i \in 1 .. k |-> x[i]]
    BY <2>3
  <2>5. QED
    BY <2>3, <2>4
<1>6. ASSUME NEW i \in 1 .. k
      PROVE  /\ x[i] \in High => i < k /\ x[i + 1] \in Low
             /\ x[i] \in Low => i > 1 /\ x[i - 1] \in High
  <2>1. m + i \in 1 .. lt /\ x[i] = t[m + i]
    BY <1>2, <1>3, <1>5
  <2>2. /\ t[m + i] \in High => m + i < lt /\ t[(m + i) + 1] \in Low
        /\ t[m + i] \in Low => m + i > 1 /\ t[(m + i) - 1] \in High
    <3>1. m + i \in DOMAIN t
      BY <1>1, <2>1
    <3>2. QED
      BY <1>1, <3>1 DEF isWellFormedText
  <2>3. ASSUME x[i] \in High
        PROVE  i < k /\ x[i + 1] \in Low
    <3>1. m + i < lt /\ t[(m + i) + 1] \in Low
      BY <2>1, <2>2, <2>3
    <3>2. CASE i = k
      <4>1. m + i = lt - n /\ n > 0 /\ (m + i) + 1 = (lt - n) + 1 /\ 1 \in 1 .. n
        BY <1>2, <1>3, <3>1, <3>2
      <4>2. s[(ls - n) + 1] = t[(lt - n) + 1]
        BY <1>2, <4>1
      <4>3. QED
        BY <1>2, <3>1, <4>1, <4>2
    <3>3. CASE i # k
      <4>1. i + 1 \in 1 .. k /\ m + (i + 1) = (m + i) + 1 /\ i < k
        BY <1>2, <3>3
      <4>2. QED
        BY <1>5, <3>1, <4>1
    <3>4. QED
      BY <3>2, <3>3
  <2>4. ASSUME x[i] \in Low
        PROVE  i > 1 /\ x[i - 1] \in High
    <3>1. m + i > 1 /\ t[(m + i) - 1] \in High
      BY <2>1, <2>2, <2>4
    <3>2. CASE i = 1
      <4>1. m > 0 /\ (m + i) - 1 = m /\ m \in 1 .. m
        BY <1>2, <3>1, <3>2
      <4>2. s[m] = t[m]
        BY <1>2, <4>1
      <4>3. QED
        BY <1>2, <3>1, <4>1, <4>2
    <3>3. CASE i # 1
      <4>1. i - 1 \in 1 .. k /\ m + (i - 1) = (m + i) - 1 /\ i > 1
        BY <1>2, <3>3
      <4>2. QED
        BY <1>5, <3>1, <4>1
    <3>4. QED
      BY <3>2, <3>3
  <2>5. QED
    BY <2>3, <2>4
<1>7. QED
  BY <1>4, <1>5, <1>6 DEF isWellFormedText

\* s is x, d and z, of which x has m units and z has n.
CutIs(U, s, m, n, x, d, z) ==
  /\ x \in Seq(U) /\ d \in Seq(U) /\ z \in Seq(U)
  /\ s = (x \o d) \o z
  /\ Len(x) = m /\ Len(z) = n /\ Len(d) = (Len(s) - n) - m
  /\ \A i \in 1 .. m : s[i] = x[i]
  /\ \A i \in 1 .. n : s[(Len(s) - n) + i] = z[i]

Halves(U, s, j, x, z) ==
  /\ x \in Seq(U) /\ z \in Seq(U) /\ s = x \o z
  /\ Len(x) = j /\ Len(z) = Len(s) - j
  /\ \A i \in 1 .. j : s[i] = x[i]
  /\ \A i \in 1 .. Len(z) : s[j + i] = z[i]

LEMMA CutInTwo ==
  ASSUME NEW U, NEW s \in Seq(U), NEW j \in Nat, j <= Len(s)
  PROVE  \E x, z : Halves(U, s, j, x, z)
<1>1. j \in 0 .. Len(s)
  BY LenProperties
<1>2. PICK x \in Seq(U), z \in Seq(U) : s = x \o z /\ Len(x) = j
  <2>1. \E x1, e1 : IsSplit(U, s, j, x1, e1)
    BY <1>1, SplitOf
  <2>2. QED
    BY <2>1, Zenon DEF IsSplit
<1>3. PICK w : w = x \o z
  OBVIOUS
<1>4. /\ Len(w) = Len(x) + Len(z) /\ Len(x) \in Nat /\ Len(z) \in Nat
      /\ \A i \in 1 .. Len(x) : w[i] = x[i]
      /\ \A i \in 1 .. Len(z) : w[Len(x) + i] = z[i]
  BY <1>3, JoinAt
<1>5. s = w
  BY <1>2, <1>3
<1>6. Len(z) = Len(s) - j
  BY <1>2, <1>4, <1>5
<1>7. (\A i \in 1 .. j : s[i] = x[i]) /\ \A i \in 1 .. Len(z) : s[j + i] = z[i]
  BY <1>2, <1>4, <1>5
<1>8. Halves(U, s, j, x, z)
  BY <1>2, <1>6, <1>7 DEF Halves
<1>9. QED
  BY <1>8

\* Two cuts, the one at j behind the one at m.
LEMMA CutTwice ==
  ASSUME NEW U, NEW s, NEW j, NEW w, NEW z, Halves(U, s, j, w, z),
         NEW m, NEW x, NEW d, Halves(U, w, m, x, d),
         m \in Nat, j \in Nat, m <= j, NEW n \in Nat, j = Len(s) - n, Len(s) \in Nat
  PROVE  CutIs(U, s, m, n, x, d, z)
<1>1. Len(w) = j /\ Len(z) = Len(s) - j /\ Len(x) = m /\ Len(d) = Len(w) - m
  BY DEF Halves
<1>2. Len(z) = n /\ Len(d) = (Len(s) - n) - m
  BY <1>1
<1>3. \A i \in 1 .. m : s[i] = x[i]
  <2>1. (\A i \in 1 .. j : s[i] = w[i]) /\ \A i \in 1 .. m : w[i] = x[i]
    BY DEF Halves
  <2>2. \A i \in 1 .. m : i \in 1 .. j
    OBVIOUS
  <2>3. QED
    BY <2>1, <2>2
<1>4. \A i \in 1 .. n : s[(Len(s) - n) + i] = z[i]
  <2>1. \A i \in 1 .. Len(z) : s[j + i] = z[i]
    BY DEF Halves
  <2>2. QED
    BY <1>2, <2>1
<1>5. s = w \o z /\ w = x \o d /\ x \in Seq(U) /\ d \in Seq(U) /\ z \in Seq(U)
  BY DEF Halves
<1>6. s = (x \o d) \o z
  BY <1>5
<1>7. QED
  BY <1>1, <1>2, <1>3, <1>4, <1>5, <1>6 DEF CutIs

LEMMA CutInThree ==
  ASSUME NEW U, NEW s \in Seq(U), NEW m \in Nat, NEW n \in Nat, m + n <= Len(s)
  PROVE  \E x, d, z : CutIs(U, s, m, n, x, d, z)
<1>1. PICK ls \in Nat : ls = Len(s)
  BY LenProperties
<1>2. PICK j \in Nat : j = ls - n
  <2>1. ls - n \in Nat
    BY <1>1
  <2>2. QED
    BY <2>1
<1>3. PICK w, z : Halves(U, s, j, w, z)
  <2>1. j <= Len(s)
    BY <1>1, <1>2
  <2>2. QED
    BY <2>1, CutInTwo
<1>4. w \in Seq(U) /\ m <= Len(w)
  <2>1. w \in Seq(U) /\ Len(w) = j
    BY <1>3 DEF Halves
  <2>2. QED
    BY <1>1, <1>2, <2>1
<1>5. PICK x, d : Halves(U, w, m, x, d)
  BY <1>4, CutInTwo
<1>6. m <= j /\ j = Len(s) - n /\ Len(s) \in Nat
  BY <1>1, <1>2
<1>7. CutIs(U, s, m, n, x, d, z)
  BY <1>3, <1>5, <1>6, CutTwice
<1>8. QED
  BY <1>7

LEMMA SharedEnds ==
  ASSUME NEW U, NEW s, NEW t, NEW m, NEW n, Shared(s, t, m, n),
         NEW x, NEW d, NEW z, CutIs(U, s, m, n, x, d, z),
         NEW tx, NEW y, NEW tz, CutIs(U, t, m, n, tx, y, tz)
  PROVE  tx = x /\ tz = z
<1>1. /\ \A i \in 1 .. m : s[i] = t[i]
      /\ \A i \in 1 .. n : s[(Len(s) - n) + i] = t[(Len(t) - n) + i]
  BY DEF Shared
<1>2. /\ x \in Seq(U) /\ z \in Seq(U) /\ Len(x) = m /\ Len(z) = n
      /\ \A i \in 1 .. m : s[i] = x[i]
      /\ \A i \in 1 .. n : s[(Len(s) - n) + i] = z[i]
  BY DEF CutIs
<1>3. /\ tx \in Seq(U) /\ tz \in Seq(U) /\ Len(tx) = m /\ Len(tz) = n
      /\ \A i \in 1 .. m : t[i] = tx[i]
      /\ \A i \in 1 .. n : t[(Len(t) - n) + i] = tz[i]
  BY DEF CutIs
<1>4. \A i \in 1 .. m : tx[i] = x[i]
  BY <1>1, <1>2, <1>3
<1>5. \A i \in 1 .. n : tz[i] = z[i]
  BY <1>1, <1>2, <1>3
<1>6. tx = x
  BY <1>2, <1>3, <1>4, SeqEqual
<1>7. QED
  BY <1>2, <1>3, <1>5, <1>6, SeqEqual

\* What the builder makes of a retain, a delete and an insert.
LEMMA RetainRunsAlone ==
  ASSUME NEW U, NEW m \in Nat, NEW x \in Seq(U), Len(x) = m
  PROVE  Runs(U, AddRetain(<<>>, m), x, x)
<1>1. CASE m = 0
  <2>1. x = <<>>
    BY <1>1, EmptySeq
  <2>2. AddRetain(<<>>, m) = <<>>
    BY <1>1 DEF AddRetain
  <2>3. QED
    BY <2>1, <2>2, RunsNowhere
<1>2. CASE m # 0
  <2>1. m \in Nat \ {0} /\ m = Len(x)
    BY <1>2
  <2>2. Runs(U, <<>>, <<>>, <<>>)
    BY RunsNowhere
  <2>3. Runs(U, AddRetain(<<>>, m), <<>> \o x, <<>> \o x)
    BY <2>1, <2>2, RetainRuns
  <2>4. <<>> \o x = x
    BY ConcatEmptySeq
  <2>5. QED
    BY <2>3, <2>4
<1>3. QED
  BY <1>1, <1>2

LEMMA DeleteRunsOn ==
  ASSUME NEW U, NEW p, NEW x, Runs(U, p, x, x), NEW k \in Nat, NEW d \in Seq(U), Len(d) = k
  PROVE  Runs(U, AddDelete(p, k), x \o d, x)
<1>1. CASE k = 0
  <2>1. d = <<>>
    BY <1>1, EmptySeq
  <2>2. AddDelete(p, k) = p
    BY <1>1 DEF AddDelete
  <2>3. x \in Seq(U)
    BY DEF Runs
  <2>4. x \o d = x
    BY <2>1, <2>3, ConcatEmptySeq
  <2>5. QED
    BY <2>2, <2>4
<1>2. CASE k # 0
  <2>1. k \in Nat \ {0} /\ k = Len(d)
    BY <1>2
  <2>2. QED
    BY <2>1, DeleteRuns
<1>3. QED
  BY <1>1, <1>2

LEMMA InsertRunsOn ==
  ASSUME NEW U, NEW q, NEW w, NEW x, Runs(U, q, w, x), NEW y \in Seq(U)
  PROVE  Runs(U, AddInsert(q, y), w, x \o y)
<1>1. CASE y = <<>>
  <2>1. AddInsert(q, y) = q
    BY <1>1 DEF AddInsert
  <2>2. x \in Seq(U)
    BY DEF Runs
  <2>3. x \o y = x
    BY <1>1, <2>2, ConcatEmptySeq
  <2>4. QED
    BY <2>1, <2>3
<1>2. CASE y # <<>>
  BY <1>2, InsertRuns
<1>3. QED
  BY <1>1, <1>2

\* The difference, of a text cut where it is shared.
LEMMA DiffText ==
  ASSUME NEW U, NEW t, NEW m \in Nat, NEW n \in Nat, NEW x, NEW y, NEW z,
         CutIs(U, t, m, n, x, y, z), NEW lt \in Nat, lt = Len(t)
  PROVE  SubSeq(t, m + 1, Len(t) - n) = y
<1>1. PICK k : k = Len(y)
  OBVIOUS
<1>2. /\ x \in Seq(U) /\ y \in Seq(U) /\ z \in Seq(U)
      /\ t = (x \o y) \o z
      /\ Len(x) = m /\ Len(y) = (lt - n) - m
  BY DEF CutIs
<1>3. Slice((x \o y) \o z, Len(x), Len(y)) = y
  BY <1>2, SliceOfJoin
<1>4. Slice(t, m, k) = y
  BY <1>1, <1>2, <1>3
<1>5. m + k = Len(t) - n
  BY <1>1, <1>2
<1>6. QED
  BY <1>4, <1>5 DEF Slice

LEMMA DiffActs ==
  ASSUME NEW U, NEW m \in Nat, NEW k \in Nat, NEW x \in Seq(U), NEW d \in Seq(U),
         NEW y \in Seq(U), NEW z \in Seq(U), Len(x) = m, Len(d) = k
  PROVE  Acts(U, Build(AddInsert(AddDelete(AddRetain(<<>>, m), k), y)),
              (x \o d) \o z, (x \o y) \o z)
<1>1. PICK p, q, r : p = AddRetain(<<>>, m) /\ q = AddDelete(p, k) /\ r = AddInsert(q, y)
  OBVIOUS
<1>2. Runs(U, p, x, x)
  BY <1>1, RetainRunsAlone
<1>3. Runs(U, q, x \o d, x)
  BY <1>1, <1>2, DeleteRunsOn
<1>4. Runs(U, r, x \o d, x \o y)
  BY <1>1, <1>3, InsertRunsOn
<1>5. Acts(U, Build(r), x \o d, x \o y)
  BY <1>4, BuildActs
<1>6. Acts(U, Build(r), (x \o d) \o z, (x \o y) \o z)
  BY <1>5, ActsBefore
<1>7. QED
  BY <1>1, <1>6

\* The difference makes the second text of the first.
LEMMA DiffMakes ==
  ASSUME NEW U, NEW s \in Seq(U), NEW t \in Seq(U), NEW m, NEW n, Shared(s, t, m, n)
  PROVE  applyOp(s, Differs(s, t, m, n)) = t
<1>1. PICK ls \in Nat, lt \in Nat : ls = Len(s) /\ lt = Len(t)
  BY LenProperties
<1>2. m \in Nat /\ n \in Nat /\ m + n <= Len(s) /\ m + n <= Len(t)
  BY DEF Shared
<1>3. PICK x, d, z : CutIs(U, s, m, n, x, d, z)
  BY <1>2, CutInThree
<1>4. PICK tx, y, tz : CutIs(U, t, m, n, tx, y, tz)
  BY <1>2, CutInThree
<1>5. tx = x /\ tz = z
  BY <1>3, <1>4, SharedEnds
<1>6. CutIs(U, t, m, n, x, y, z)
  BY <1>4, <1>5
<1>7. SubSeq(t, m + 1, Len(t) - n) = y
  BY <1>1, <1>2, <1>6, DiffText
<1>8. PICK k : k = (Len(s) - n) - m
  OBVIOUS
<1>9. k \in Nat
  BY <1>1, <1>2, <1>8
<1>10. /\ x \in Seq(U) /\ d \in Seq(U) /\ z \in Seq(U) /\ y \in Seq(U)
       /\ Len(x) = m /\ Len(d) = k
  BY <1>3, <1>6, <1>8 DEF CutIs
<1>11. s = (x \o d) \o z /\ t = (x \o y) \o z
  BY <1>3, <1>6 DEF CutIs
<1>12. Acts(U, Build(AddInsert(AddDelete(AddRetain(<<>>, m), k), y)),
            (x \o d) \o z, (x \o y) \o z)
  BY <1>2, <1>9, <1>10, DiffActs
<1>13. Differs(s, t, m, n) = Build(AddInsert(AddDelete(AddRetain(<<>>, m), k), y))
  BY <1>7, <1>8 DEF Differs
<1>14. Acts(U, Differs(s, t, m, n), s, t)
  BY <1>11, <1>12, <1>13
<1>15. QED
  BY <1>14, ActsApply

LEMMA FrontBefore ==
  ASSUME NEW E, NEW f \in Seq(E), NEW c \in E
  PROVE  Front(Append(f, c)) = f
<1>1. PICK n \in Nat : n = Len(f)
  BY LenProperties
<1>2. Len(Append(f, c)) = n + 1
  BY <1>1, AppendProperties
<1>3. n \in 0 .. Len(f) /\ (n + 1) - 1 = n
  BY <1>1
<1>4. SubSeq(Append(f, c), 1, n) = SubSeq(f, 1, n)
  BY <1>3, FrontOfAppend
<1>5. SubSeq(f, 1, n) = f
  BY <1>1
<1>6. QED
  BY <1>2, <1>3, <1>4, <1>5 DEF Front

\* Every component of op starts in front or at m, and what it inserts is y.
Marked(U, op, m, y) ==
  /\ op \in Seq(Component(U))
  /\ \A i \in 1 .. Len(op) : /\ Before(op, i) \in {0, m}
                             /\ op[i].kind = "insert" => op[i].text = y
MarkedTo(U, op, m, y) == Marked(U, op, m, y) /\ opBaseLength(op) \in {0, m}

LEMMA MarkedNone ==
  ASSUME NEW U, NEW m, NEW y
  PROVE  MarkedTo(U, <<>>, m, y)
<1>1. <<>> \in Seq(Component(U)) /\ Len(<<>>) = 0 /\ <<>> \in Seq(U)
  BY EmptySeq
<1>2. opBaseLength(<<>>) = 0
  BY <1>1, BaseLaws
<1>3. QED
  BY <1>1, <1>2 DEF MarkedTo, Marked

LEMMA MarkedMore ==
  ASSUME NEW U, NEW op, NEW m, NEW y, MarkedTo(U, op, m, y),
         NEW c \in Component(U), c.kind = "insert" => c.text = y
  PROVE  Marked(U, Append(op, c), m, y)
<1>1. /\ op \in Seq(Component(U)) /\ opBaseLength(op) \in {0, m}
      /\ \A i \in 1 .. Len(op) : /\ Before(op, i) \in {0, m}
                                 /\ op[i].kind = "insert" => op[i].text = y
  BY DEF MarkedTo, Marked
<1>2. PICK n \in Nat : n = Len(op)
  BY <1>1, LenProperties
<1>3. PICK more \in Seq(Component(U)) : more = Append(op, c)
  BY <1>1, AppendProperties
<1>4. /\ Len(more) = n + 1 /\ more[n + 1] = c
      /\ \A i \in 1 .. n : more[i] = op[i]
  BY <1>1, <1>2, <1>3, AppendProperties
<1>5. /\ \A i \in 1 .. n : Before(more, i) = Before(op, i)
      /\ Before(more, n + 1) = opBaseLength(op)
  BY <1>1, <1>2, <1>3, BeforeLaws
<1>6. ASSUME NEW i \in 1 .. n + 1
      PROVE  Before(more, i) \in {0, m} /\ (more[i].kind = "insert" => more[i].text = y)
  <2>1. CASE i \in 1 .. n
    BY <1>1, <1>2, <1>4, <1>5, <2>1
  <2>2. CASE i = n + 1
    BY <1>1, <1>4, <1>5, <2>2
  <2>3. QED
    BY <2>1, <2>2
<1>7. QED
  BY <1>3, <1>4, <1>6 DEF Marked

LEMMA MarkedInsert ==
  ASSUME NEW U, NEW op, NEW m, NEW y \in Seq(U), y # <<>>, MarkedTo(U, op, m, y)
  PROVE  MarkedTo(U, Append(op, Insert(y)), m, y)
<1>1. op \in Seq(Component(U)) /\ opBaseLength(op) \in {0, m}
  BY DEF MarkedTo, Marked
<1>2. PICK c \in Component(U) : c = Insert(y)
  BY PartsAre
<1>3. c.kind = "insert" /\ c.text = y /\ c.n = 0
  BY <1>2 DEF Insert
<1>4. Marked(U, Append(op, c), m, y)
  BY <1>3, MarkedMore
<1>5. opBaseLength(Append(op, c)) = opBaseLength(op) + c.n /\ opBaseLength(op) \in Nat
  BY <1>1, <1>2, BaseLaws, BeforeLaws
<1>6. opBaseLength(Append(op, c)) = opBaseLength(op)
  BY <1>3, <1>5
<1>7. QED
  BY <1>1, <1>2, <1>4, <1>6 DEF MarkedTo

LEMMA MarkedRetain ==
  ASSUME NEW U, NEW m \in Nat, NEW y
  PROVE  /\ MarkedTo(U, AddRetain(<<>>, m), m, y)
         /\ ~IsKind(AddRetain(<<>>, m), "insert") /\ ~IsKind(AddRetain(<<>>, m), "delete")
         /\ Marked(U, Build(AddRetain(<<>>, m)), m, y)
<1>1. MarkedTo(U, <<>>, m, y) /\ ~IsKind(<<>>, "insert") /\ ~IsKind(<<>>, "delete")
      /\ ~IsKind(<<>>, "retain") /\ <<>> \in Seq(Component(U)) /\ opBaseLength(<<>>) = 0
  <2>1. <<>> \in Seq(U) /\ <<>> \in Seq(Component(U))
    BY EmptySeq
  <2>2. opBaseLength(<<>>) = 0
    BY <2>1, BaseLaws
  <2>3. QED
    BY <2>1, <2>2, MarkedNone DEF IsKind
<1>2. CASE m = 0
  <2>1. AddRetain(<<>>, m) = <<>>
    BY <1>2 DEF AddRetain
  <2>2. Build(<<>>) = <<>>
    BY <1>1 DEF Build
  <2>3. QED
    BY <1>1, <2>1, <2>2 DEF MarkedTo
<1>3. CASE m # 0
  <2>1. PICK c \in Component(U) : c = Retain(m)
    BY <1>3, PartsAre
  <2>2. c.kind = "retain" /\ c.n = m
    BY <2>1 DEF Retain
  <2>3. AddRetain(<<>>, m) = Append(<<>>, c)
    BY <1>1, <1>3, <2>1 DEF AddRetain
  <2>4. Marked(U, Append(<<>>, c), m, y)
    BY <1>1, <2>2, MarkedMore
  <2>5. opBaseLength(Append(<<>>, c)) = opBaseLength(<<>>) + c.n
    BY <1>1, BaseLaws
  <2>6. opBaseLength(Append(<<>>, c)) = m
    BY <1>1, <2>2, <2>5
  <2>7. MarkedTo(U, Append(<<>>, c), m, y)
    BY <2>4, <2>6 DEF MarkedTo
  <2>8. \A kind : IsKind(Append(<<>>, c), kind) <=> c.kind = kind
    BY <1>1, AppendKind
  <2>9. Front(Append(<<>>, c)) = <<>>
    BY <1>1, FrontBefore
  <2>10. Build(Append(<<>>, c)) = <<>>
    BY <2>2, <2>8, <2>9 DEF Build
  <2>11. QED
    BY <1>1, <2>2, <2>3, <2>7, <2>8, <2>10 DEF MarkedTo
<1>4. QED
  BY <1>2, <1>3

\* The difference starts its delete and its insert where the texts differ.
LEMMA DiffForm ==
  ASSUME NEW U, NEW m \in Nat, NEW k \in Int, NEW y \in Seq(U)
  PROVE  Marked(U, Build(AddInsert(AddDelete(AddRetain(<<>>, m), k), y)), m, y)
<1>1. PICK p, q, r : p = AddRetain(<<>>, m) /\ q = AddDelete(p, k) /\ r = AddInsert(q, y)
  OBVIOUS
<1>2. /\ MarkedTo(U, p, m, y) /\ Marked(U, Build(p), m, y)
      /\ ~IsKind(p, "insert") /\ ~IsKind(p, "delete")
  BY <1>1, MarkedRetain
<1>3. p \in Seq(Component(U))
  BY <1>2 DEF MarkedTo, Marked
<1>4. CASE k <= 0
  <2>1. q = p
    BY <1>1, <1>4 DEF AddDelete
  <2>2. CASE y = <<>>
    <3>1. r = p
      BY <1>1, <2>1, <2>2 DEF AddInsert
    <3>2. QED
      BY <1>1, <1>2, <3>1
  <2>3. CASE y # <<>>
    <3>1. r = Append(p, Insert(y))
      BY <1>1, <1>2, <2>1, <2>3 DEF AddInsert
    <3>2. MarkedTo(U, Append(p, Insert(y)), m, y)
      BY <1>2, <2>3, MarkedInsert
    <3>3. PICK c \in Component(U) : c = Insert(y)
      BY <2>3, PartsAre
    <3>4. ~IsKind(Append(p, c), "retain")
      <4>1. c.kind = "insert"
        BY <3>3 DEF Insert
      <4>2. \A kind : IsKind(Append(p, c), kind) <=> c.kind = kind
        BY <1>3, AppendKind
      <4>3. QED
        BY <4>1, <4>2
    <3>5. Build(r) = r
      BY <3>1, <3>3, <3>4 DEF Build
    <3>6. QED
      BY <1>1, <3>1, <3>2, <3>5 DEF MarkedTo
  <2>4. QED
    BY <2>2, <2>3
<1>5. CASE k > 0
  <2>1. PICK d \in Component(U) : d = Delete(k)
    <3>1. k \in Nat \ {0}
      BY <1>5
    <3>2. QED
      BY <3>1, PartsAre
  <2>2. d.kind = "delete"
    BY <2>1 DEF Delete
  <2>3. q = Append(p, d)
    BY <1>1, <1>2, <1>5, <2>1 DEF AddDelete
  <2>4. /\ \A kind : IsKind(q, kind) <=> d.kind = kind
        /\ Last(q) = d /\ Front(q) = p
    BY <1>3, <2>3, AppendKind, FrontBefore
  <2>5. CASE y = <<>>
    <3>1. r = Append(p, d)
      BY <1>1, <2>3, <2>5 DEF AddInsert
    <3>2. Build(r) = r
      BY <2>2, <2>3, <2>4, <3>1 DEF Build
    <3>3. Marked(U, Append(p, d), m, y)
      BY <1>2, <2>2, MarkedMore
    <3>4. QED
      BY <1>1, <3>1, <3>2, <3>3
  <2>6. CASE y # <<>>
    <3>1. PICK f : f = Append(p, Insert(y))
      OBVIOUS
    <3>2. r = Append(f, d)
      BY <1>1, <1>2, <2>2, <2>4, <2>6, <3>1 DEF AddInsert
    <3>3. MarkedTo(U, f, m, y)
      BY <1>2, <2>6, <3>1, MarkedInsert
    <3>4. f \in Seq(Component(U))
      BY <3>3 DEF MarkedTo, Marked
    <3>5. Marked(U, Append(f, d), m, y)
      BY <2>2, <3>3, MarkedMore
    <3>6. \A kind : IsKind(Append(f, d), kind) <=> d.kind = kind
      BY <3>4, AppendKind
    <3>7. Build(r) = r
      BY <2>2, <3>2, <3>6 DEF Build
    <3>8. QED
      BY <1>1, <3>2, <3>5, <3>7
  <2>7. QED
    BY <2>5, <2>6
<1>6. QED
  BY <1>4, <1>5

\* What is said of the difference of two texts.
LEMMA DiffReaches ==
  ASSUME NEW U, NEW s \in Seq(U), NEW t \in Seq(U), isWellFormedText(s), isWellFormedText(t),
         NEW op, op = diffToOp(s, t, High, Low)
  PROVE  /\ applyOp(s, op) = t
         /\ \A i \in DOMAIN op : op[i].kind = "insert" => isWellFormedText(op[i].text)
         /\ \A g \in 1 .. Len(s) - 1 : (\E i \in DOMAIN op : g = Before(op, i)) => s[g] \notin High
<1>1. PICK m, n : Shared(s, t, m, n) /\ op = Differs(s, t, m, n)
  BY DiffShares
<1>2. m \in Nat /\ n \in Nat /\ (m > 0 => s[m] \notin High)
  BY <1>1 DEF Shared
<1>3. applyOp(s, op) = t
  BY <1>1, DiffMakes
<1>4. PICK y : y = SubSeq(t, m + 1, Len(t) - n)
  OBVIOUS
<1>5. isWellFormedText(y)
  BY <1>1, <1>4, DiffWhole
<1>6. PICK ls \in Nat, lt \in Nat : ls = Len(s) /\ lt = Len(t) /\ m + n <= lt
  <2>1. Len(s) \in Nat /\ Len(t) \in Nat
    BY LenProperties
  <2>2. m + n <= Len(t)
    BY <1>1 DEF Shared
  <2>3. QED
    BY <2>1, <2>2
<1>7. y \in Seq(U)
  <2>1. \A i \in m + 1 .. lt - n : i \in 1 .. lt
    BY <1>2
  <2>2. m + 1 \in Int /\ lt - n \in Int
    BY <1>2
  <2>3. QED
    BY <1>4, <1>6, <2>1, <2>2
<1>8. (ls - n) - m \in Int
  BY <1>2
<1>9. op = Build(AddInsert(AddDelete(AddRetain(<<>>, m), (ls - n) - m), y))
  BY <1>1, <1>4, <1>6 DEF Differs
<1>10. Marked(U, op, m, y)
  BY <1>2, <1>7, <1>8, <1>9, DiffForm
<1>11. /\ \A i \in DOMAIN op : op[i].kind = "insert" => op[i].text = y
       /\ \A i \in DOMAIN op : Before(op, i) \in {0, m}
  <2>1. op \in Seq(Component(U)) /\ DOMAIN op = 1 .. Len(op)
    BY <1>10, LenProperties DEF Marked
  <2>2. QED
    BY <1>10, <2>1 DEF Marked
<1>12. ASSUME NEW g \in 1 .. Len(s) - 1, NEW i \in DOMAIN op, g = Before(op, i)
       PROVE  s[g] \notin High
  <2>1. g \in Nat /\ g > 0 /\ g \in {0, m}
    BY <1>6, <1>11, <1>12
  <2>2. QED
    BY <1>2, <2>1
<1>13. QED
  BY <1>3, <1>5, <1>11, <1>12

\* The difference of two texts makes the second of the first, and leaves and
\* inserts no half of a surrogate pair.
THEOREM DiffLaw == LawSpec => []DiffReachesTheText
<1>1. OpInputs \/ TextInputs => DiffReachesTheText
  <2>1. SUFFICES ASSUME OpInputs \/ TextInputs
                 PROVE  DiffReachesTheText
    OBVIOUS
  <2>2. PICK U : U = High \cup Low \cup Plain
    OBVIOUS
  <2>3. /\ before \in Seq(U) /\ after \in Seq(U)
        /\ isWellFormedText(before) /\ isWellFormedText(after)
    <3>1. CASE OpInputs
      <4>1. before = <<>> /\ after = <<>>
        BY <3>1 DEF OpInputs
      <4>2. <<>> \in Seq(U) /\ isWellFormedText(<<>>)
        BY EmptySeq DEF isWellFormedText
      <4>3. QED
        BY <4>1, <4>2
    <3>2. CASE TextInputs
      <4>1. before \in Texts /\ after \in Texts
        BY <3>2 DEF TextInputs
      <4>2. \A t \in Texts : t \in BoundedSeq(U, MaxText) /\ isWellFormedText(t)
        BY <2>2 DEF Texts
      <4>3. QED
        BY <4>1, <4>2, BoundedType, LawAssumption
    <3>3. QED
      BY <2>1, <3>1, <3>2
  <2>4. PICK op : op = diffToOp(before, after, High, Low)
    OBVIOUS
  <2>5. /\ applyOp(before, op) = after
        /\ \A i \in DOMAIN op : op[i].kind = "insert" => isWellFormedText(op[i].text)
        /\ \A g \in 1 .. Len(before) - 1 :
             (\E i \in DOMAIN op : g = Before(op, i)) => before[g] \notin High
    BY <2>3, <2>4, DiffReaches
  <2>6. QED
    BY <2>4, <2>5 DEF DiffReachesTheText
<1>2. QED
  BY <1>1, LawInputs, PTL

----------------------------------------------------------------------------
\* transformPosition: a caret, component by component.

CaretMove(index, stick, s, c) ==
  CASE c.kind = "insert" ->
         IF s.pos < index \/ (s.pos = index /\ stick)
         THEN [s EXCEPT !.result = @ + Len(c.text)] ELSE s
    [] c.kind = "retain" -> [s EXCEPT !.pos = @ + c.n]
    [] c.kind = "delete" -> [pos |-> s.pos + c.n,
                             result |-> s.result - DeletedBefore(s.pos, c.n, index)]

Carets == [pos : Nat, result : Int]

CaretEnd(index, stick, op) ==
  Through(LAMBDA s, c : CaretMove(index, stick, s, c), [pos |-> 0, result |-> index], op)

\* The gaps whose text moves the caret.
Counted(index, stick) == {g \in 0 .. index : g < index \/ stick}

CaretStep(index, s, c, C, m) ==
  /\ m \in Carets
  /\ m.pos = s.pos + c.n
  /\ m.result = (s.result + IF c.kind = "insert" /\ s.pos \in C THEN Len(c.text) ELSE 0)
                   - IF c.kind = "delete" THEN DeletedBefore(s.pos, c.n, index) ELSE 0

LEMMA CaretMoves ==
  ASSUME NEW U, NEW index \in Nat, NEW stick \in BOOLEAN, NEW s \in Carets, NEW c \in Component(U),
         NEW C, C = Counted(index, stick)
  PROVE  CaretStep(index, s, c, C, CaretMove(index, stick, s, c))
<1>1. PICK p \in Nat, x \in Int : s = [pos |-> p, result |-> x] /\ p = s.pos /\ x = s.result
  BY DEF Carets
<1>2. PICK n \in Nat : n = c.n
  BY PartType
<1>3. PICK k \in Nat : k = Len(c.text)
  BY PartType, LenProperties
<1>4. PICK d \in Nat : d = DeletedBefore(p, n, index)
  <2>1. DeletedBefore(p, n, index) \in Nat
    BY DEF DeletedBefore
  <2>2. QED
    BY <2>1
<1>5. p \in C <=> p < index \/ (p = index /\ stick)
  BY DEF Counted
<1>6. PICK m : m = CaretMove(index, stick, s, c)
  OBVIOUS
<1>7. c.kind \in {"retain", "delete", "insert"} /\ (c.kind = "insert" => n = 0)
  BY <1>2, PartType
<1>8. CASE c.kind = "insert"
  <2>1. CASE p \in C
    <3>1. m = [s EXCEPT !.result = @ + Len(c.text)]
      BY <1>1, <1>5, <1>6, <1>8, <2>1 DEF CaretMove
    <3>2. m = [pos |-> p, result |-> x + k]
      BY <1>1, <1>3, <3>1
    <3>3. QED
      BY <1>1, <1>2, <1>3, <1>6, <1>7, <1>8, <2>1, <3>2 DEF Carets, CaretStep
  <2>2. CASE p \notin C
    <3>1. m = s
      BY <1>1, <1>5, <1>6, <1>8, <2>2 DEF CaretMove
    <3>2. QED
      BY <1>1, <1>2, <1>6, <1>7, <1>8, <2>2, <3>1 DEF CaretStep
  <2>3. QED
    BY <2>1, <2>2
<1>9. CASE c.kind = "retain"
  <2>1. m = [s EXCEPT !.pos = @ + c.n]
    BY <1>6, <1>9 DEF CaretMove
  <2>2. m = [pos |-> p + n, result |-> x]
    BY <1>1, <1>2, <2>1
  <2>3. QED
    BY <1>1, <1>2, <1>6, <1>9, <2>2 DEF Carets, CaretStep
<1>10. CASE c.kind = "delete"
  <2>1. m = [pos |-> p + n, result |-> x - d]
    BY <1>1, <1>2, <1>4, <1>6, <1>10 DEF CaretMove
  <2>2. QED
    BY <1>1, <1>2, <1>4, <1>6, <1>10, <2>1 DEF Carets, CaretStep
<1>11. QED
  BY <1>6, <1>7, <1>8, <1>9, <1>10

LEMMA CaretLaws ==
  ASSUME NEW U, NEW index \in Nat, NEW stick \in BOOLEAN, NEW op \in Seq(Component(U))
  PROVE  /\ CaretEnd(index, stick, <<>>) = [pos |-> 0, result |-> index]
         /\ CaretEnd(index, stick, op) \in Carets
         /\ \A c \in Component(U) : CaretEnd(index, stick, Append(op, c))
                                      = CaretMove(index, stick, CaretEnd(index, stick, op), c)
<1> DEFINE E == Component(U)
           S == Carets
           start == [pos |-> 0, result |-> index]
           step == [x \in S \X E |-> CaretMove(index, stick, x[1], x[2])]
           Values(o, s) == s = [i \in 0 .. Len(o) |->
                                  IF i = 0 THEN start ELSE CaretMove(index, stick, s[i - 1], o[i])]
           F == [o \in Seq(E) |-> CaretEnd(index, stick, o)]
<1>1. start \in S /\ step \in [S \X E -> S]
  <2>1. ASSUME NEW s \in S, NEW c \in E
        PROVE  CaretMove(index, stick, s, c) \in S
    <3>1. PICK C : C = Counted(index, stick)
      OBVIOUS
    <3>2. CaretStep(index, s, c, C, CaretMove(index, stick, s, c))
      BY <2>1, <3>1, CaretMoves
    <3>3. QED
      BY <3>2 DEF CaretStep
  <2>2. start \in S
    BY DEF Carets
  <2> HIDE DEF S, E, start
  <2>3. QED
    BY <2>1, <2>2
<1>2. ASSUME NEW o \in Seq(E)
      PROVE  \E s : Folding(S, start, step, o, s) /\ F[o] = s[Len(o)]
  <2>1. PICK n \in Nat : n = Len(o)
    BY LenProperties
  <2>2. PICK f \in [0 .. n -> S] : Folding(S, start, step, o, f)
    <3> HIDE DEF step, start, S, E
    <3>1. QED
      BY <1>1, <2>1, FoldExists
  <2>3. ASSUME NEW i \in 1 .. n, NEW s, s[i - 1] \in S
        PROVE  step[<<s[i - 1], o[i]>>] = CaretMove(index, stick, s[i - 1], o[i])
    <3> HIDE DEF S, E
    <3>1. o[i] \in E
      BY <2>1
    <3>2. QED
      BY <2>3, <3>1 DEF step
  <2>4. Values(o, f)
    <3> HIDE DEF S, start, step
    <3>1. ASSUME NEW i \in 0 .. n
          PROVE  f[i] = IF i = 0 THEN start ELSE CaretMove(index, stick, f[i - 1], o[i])
      <4>1. i # 0 => i - 1 \in 0 .. n /\ i \in 1 .. n
        OBVIOUS
      <4>2. QED
        BY <2>1, <2>2, <2>3, <4>1 DEF Folding
    <3>2. QED
      BY <2>1, <3>1
  <2>5. PICK s : s = (CHOOSE t : Values(o, t))
    OBVIOUS
  <2>6. Values(o, s)
    <3> HIDE DEF Values
    <3>1. QED
      BY <2>4, <2>5
  <2>7. Folding(S, start, step, o, s)
    <3> HIDE DEF S, start, step
    <3>1. s[0] = start
      BY <2>1, <2>6
    <3>2. ASSUME NEW i \in 1 .. n
          PROVE  s[i] = CaretMove(index, stick, s[i - 1], o[i])
      <4>1. i \in 0 .. n /\ i # 0
        OBVIOUS
      <4>2. QED
        BY <2>1, <2>6, <4>1
    <3>3. QED
      BY <2>1, <2>3, <3>1, <3>2 DEF Folding
  <2>8. F[o] = s[Len(o)]
    BY <2>5 DEF CaretEnd, Through
  <2>9. QED
    BY <2>7, <2>8
<1>3. /\ F[<<>>] = start
      /\ F[op] \in S
      /\ \A c \in E : F[Append(op, c)] = step[<<F[op], c>>]
  <2>1. op \in Seq(E)
    OBVIOUS
  <2> HIDE DEF F, step, start, S, E
  <2>2. FollowsFold(E, S, start, step, F)
    BY <1>1, <1>2, FoldLaw
  <2>3. QED
    BY <2>1, <2>2 DEF FollowsFold
<1>4. ASSUME NEW c \in E
      PROVE  CaretEnd(index, stick, Append(op, c)) = CaretMove(index, stick, CaretEnd(index, stick, op), c)
  <2>1. Append(op, c) \in Seq(E)
    OBVIOUS
  <2> HIDE DEF S, E
  <2>2. F[op] = CaretEnd(index, stick, op) /\ F[Append(op, c)] = CaretEnd(index, stick, Append(op, c))
    BY <2>1 DEF E
  <2>3. step[<<F[op], c>>] = CaretMove(index, stick, F[op], c)
    BY <1>3 DEF step
  <2> HIDE DEF F
  <2>4. QED
    BY <1>3, <2>2, <2>3
<1>5. <<>> \in Seq(E)
  BY EmptySeq
<1>6. QED
  BY <1>3, <1>4, <1>5

LEMMA CaretPosition ==
  ASSUME NEW index \in Nat, NEW stick \in BOOLEAN, NEW op
  PROVE  transformPosition(index, op, stick) = Larger(0, CaretEnd(index, stick, op).result)
BY DEF transformPosition, CaretEnd, CaretMove

\* What op inserts into the gaps in C, up to gap k - 1.
TextAt(op, C, g)  == IF g - 1 \in C THEN Filled(op, g - 1) ELSE <<>>
TypedUpTo(op, C, k)   == Len(FlattenSeq([g \in 1 .. k |-> TextAt(op, C, g)]))

LEMMA TypedLaws ==
  ASSUME NEW U, NEW op \in Seq(Component(U)), NEW C, NEW k \in Nat
  PROVE  /\ TypedUpTo(op, C, 0) = 0 /\ TypedUpTo(op, C, k) \in Nat
         /\ TypedUpTo(op, C, k + 1) = TypedUpTo(op, C, k) + Len(TextAt(op, C, k + 1))
         /\ TextAt(op, C, k + 1) \in Seq(U)
<1> DEFINE Row1(j) == [g \in 1 .. j |-> TextAt(op, C, g)]
<1>1. \A g : TextAt(op, C, g) \in Seq(U)
  <2>1. \A g : Filled(op, g) \in Seq(U)
    BY FilledLaws
  <2>2. <<>> \in Seq(U)
    BY EmptySeq
  <2>3. QED
    BY <2>1, <2>2 DEF TextAt
<1>2. \A j \in Nat : Row1(j) \in Seq(Seq(U)) /\ Len(Row1(j)) = j
  BY <1>1
<1>3. Row1(0) = <<>>
  <2>1. Row1(0) \in Seq(Seq(U)) /\ Len(Row1(0)) = 0
    BY <1>2
  <2> HIDE DEF Row1
  <2>2. QED
    BY <2>1, EmptySeq
<1>4. PICK x, t : x = Row1(k) /\ t = TextAt(op, C, k + 1)
  OBVIOUS
<1>5. Row1(k + 1) = Append(x, t)
  <2>1. PICK y : y = Row1(k + 1)
    OBVIOUS
  <2>2. /\ x \in Seq(Seq(U)) /\ Len(x) = k /\ y \in Seq(Seq(U)) /\ Len(y) = k + 1
        /\ t \in Seq(U)
    BY <1>1, <1>2, <1>4, <2>1
  <2>3. (\A g \in 1 .. k : y[g] = x[g]) /\ y[k + 1] = t
    BY <1>4, <2>1
  <2>4. Append(x, t) \in Seq(Seq(U)) /\ Len(Append(x, t)) = k + 1
    BY <2>2, AppendProperties
  <2>5. \A g \in 1 .. k + 1 : Append(x, t)[g] = y[g]
    BY <2>2, <2>3, AppendProperties
  <2>6. y = Append(x, t)
    BY <2>2, <2>4, <2>5, SeqEqual
  <2>7. QED
    BY <2>1, <2>6
<1>6. x \in Seq(Seq(U)) /\ t \in Seq(U)
  BY <1>1, <1>2, <1>4
<1>7. PICK fx : fx = FlattenSeq(x)
  OBVIOUS
<1>8. fx \in Seq(U) /\ FlattenSeq(Append(x, t)) = fx \o t
  BY <1>6, <1>7, FlattenLaws
<1>9. Len(fx \o t) = Len(fx) + Len(t) /\ Len(fx) \in Nat
  BY <1>6, <1>8, JoinAt
<1>10. TypedUpTo(op, C, k) = Len(fx) /\ TypedUpTo(op, C, k + 1) = Len(fx \o t)
  BY <1>4, <1>5, <1>7, <1>8 DEF TypedUpTo
<1>11. TypedUpTo(op, C, 0) = 0
  <2>1. <<>> \in Seq(Seq(U)) /\ Len(<<>>) = 0
    BY EmptySeq
  <2>2. FlattenSeq(<<>>) = <<>>
    BY <2>1, FlattenLaws
  <2>3. TypedUpTo(op, C, 0) = Len(FlattenSeq(Row1(0)))
    BY DEF TypedUpTo
  <2>4. QED
    BY <1>3, <2>1, <2>2, <2>3
<1>12. QED
  BY <1>1, <1>4, <1>9, <1>10, <1>11

\* What a component that starts at n inserts into one of these gaps.
TypedThere(c, n, C, k) == IF c.kind = "insert" /\ n \in C /\ n < k THEN Len(c.text) ELSE 0

LEMMA TypedMore ==
  ASSUME NEW U, NEW op \in Seq(Component(U)), NEW c \in Component(U), NEW C, NEW k \in Nat,
         NEW n \in Nat, n = opBaseLength(op)
  PROVE  TypedUpTo(Append(op, c), C, k) = TypedUpTo(op, C, k) + TypedThere(c, n, C, k)
<1> DEFINE T == {j \in Nat : TypedUpTo(Append(op, c), C, j) = TypedUpTo(op, C, j) + TypedThere(c, n, C, j)}
<1>1. PICK more \in Seq(Component(U)) : more = Append(op, c)
  BY AppendProperties
<1>2. PICK l \in Nat : l = Len(c.text)
  BY PartType, LenProperties
<1>3. 0 \in T
  <2>1. TypedUpTo(more, C, 0) = 0 /\ TypedUpTo(op, C, 0) = 0
    BY TypedLaws
  <2>2. TypedThere(c, n, C, 0) = 0
    BY DEF TypedThere
  <2>3. QED
    BY <1>1, <2>1, <2>2
<1>4. ASSUME NEW j \in Nat, j \in T
      PROVE  j + 1 \in T
  <2>1. /\ TypedUpTo(more, C, j + 1) = TypedUpTo(more, C, j) + Len(TextAt(more, C, j + 1))
        /\ TypedUpTo(op, C, j + 1) = TypedUpTo(op, C, j) + Len(TextAt(op, C, j + 1))
        /\ TypedUpTo(op, C, j) \in Nat
        /\ TextAt(op, C, j + 1) \in Seq(U)
    BY TypedLaws
  <2>2. PICK u \in Nat : u = Len(TextAt(op, C, j + 1))
    BY <2>1, LenProperties
  <2>3. Len(TextAt(more, C, j + 1)) = u + IF c.kind = "insert" /\ j \in C /\ n = j THEN l ELSE 0
    <3>1. (j + 1) - 1 = j
      OBVIOUS
    <3>2. CASE j \notin C
      <4>1. TextAt(more, C, j + 1) = TextAt(op, C, j + 1)
        BY <3>1, <3>2 DEF TextAt
      <4>2. QED
        BY <2>2, <3>2, <4>1
    <3>3. CASE j \in C
      <4>1. Filled(more, j) = Filled(op, j) \o Typing(c, n, j) /\ Filled(op, j) \in Seq(U)
        BY <1>1, FilledLaws
      <4>2. PICK x, t : x = Filled(op, j) /\ t = Typing(c, n, j)
        OBVIOUS
      <4>3. x \in Seq(U) /\ t \in Seq(U)
        BY <4>1, <4>2, PartType, EmptySeq DEF Typing
      <4>4. Len(x \o t) = Len(x) + Len(t)
        BY <4>3, JoinAt
      <4>5. TextAt(more, C, j + 1) = x \o t /\ TextAt(op, C, j + 1) = x
        BY <3>1, <3>3, <4>1, <4>2 DEF TextAt
      <4>6. Len(t) = IF c.kind = "insert" /\ n = j THEN l ELSE 0
        <5>1. Len(<<>>) = 0
          BY EmptySeq
        <5>2. QED
          BY <1>2, <4>2, <5>1 DEF Typing
      <4>7. QED
        BY <2>2, <3>3, <4>4, <4>5, <4>6
    <3>4. QED
      BY <3>2, <3>3
  <2>4. TypedUpTo(more, C, j) = TypedUpTo(op, C, j) + TypedThere(c, n, C, j)
    BY <1>1, <1>4
  <2>5. TypedThere(c, n, C, j + 1)
          = TypedThere(c, n, C, j) + IF c.kind = "insert" /\ j \in C /\ n = j THEN l ELSE 0
    <3>1. CASE n = j
      <4>1. n < j + 1 /\ ~(n < j)
        BY <3>1
      <4>2. TypedThere(c, n, C, j) = 0
        BY <4>1 DEF TypedThere
      <4>3. TypedThere(c, n, C, j + 1) = IF c.kind = "insert" /\ n \in C THEN l ELSE 0
        BY <1>2, <4>1 DEF TypedThere
      <4>4. QED
        BY <3>1, <4>2, <4>3
    <3>2. CASE n # j
      <4>1. n < j + 1 <=> n < j
        BY <3>2
      <4>2. TypedThere(c, n, C, j + 1) = TypedThere(c, n, C, j)
        BY <4>1 DEF TypedThere
      <4>3. TypedThere(c, n, C, j) \in Nat
        BY <1>2 DEF TypedThere
      <4>4. QED
        BY <3>2, <4>2, <4>3
    <3>3. QED
      BY <3>1, <3>2
  <2>6. TypedThere(c, n, C, j) \in Nat
    BY <1>2 DEF TypedThere
  <2>7. PICK x \in Nat, y \in Nat, z \in Nat :
          /\ x = TypedUpTo(op, C, j) /\ y = TypedThere(c, n, C, j)
          /\ z = IF c.kind = "insert" /\ j \in C /\ n = j THEN l ELSE 0
    BY <2>1, <2>6
  <2>8. TypedUpTo(more, C, j + 1) = (x + y) + (u + z) /\ TypedUpTo(op, C, j + 1) = x + u
    BY <2>1, <2>2, <2>3, <2>4, <2>7
  <2>9. TypedUpTo(more, C, j + 1) = TypedUpTo(op, C, j + 1) + TypedThere(c, n, C, j + 1)
    BY <2>5, <2>7, <2>8
  <2>10. QED
    BY <1>1, <2>9
<1>5. QED
  <2> HIDE DEF T
  <2>1. \A j \in Nat : j \in T
    BY <1>3, <1>4, NatSetInduction
  <2>2. QED
    BY <2>1 DEF T

\* An empty operation inserts nothing.
LEMMA TypedNone ==
  ASSUME NEW C, NEW k \in Nat
  PROVE  TypedUpTo(<<>>, C, k) = 0
<1> DEFINE T == {j \in Nat : TypedUpTo(<<>>, C, j) = 0}
<1>1. PICK U : U = {}
  OBVIOUS
<1>2. PICK none \in Seq(Component(U)) : none = <<>>
  BY EmptySeq
<1>3. 0 \in T
  BY <1>2, TypedLaws
<1>4. ASSUME NEW j \in Nat, j \in T
      PROVE  j + 1 \in T
  <2>1. TypedUpTo(none, C, j + 1) = TypedUpTo(none, C, j) + Len(TextAt(none, C, j + 1))
    BY TypedLaws
  <2>2. Filled(none, (j + 1) - 1) = <<>> /\ Len(<<>>) = 0
    BY <1>2, FilledLaws, EmptySeq
  <2>3. Len(TextAt(none, C, j + 1)) = 0
    BY <2>2 DEF TextAt
  <2>4. QED
    BY <1>2, <1>4, <2>1, <2>3
<1>5. QED
  <2> HIDE DEF T
  <2>1. \A j \in Nat : j \in T
    BY <1>3, <1>4, NatSetInduction
  <2>2. QED
    BY <2>1 DEF T

\* The characters before index that op deletes.
Gone(op, index) == {i \in 1 .. index : Deletes(op, i)}

LEMMA DeletesWithin ==
  ASSUME NEW U, NEW op \in Seq(Component(U)), NEW i \in Nat, Deletes(op, i)
  PROVE  i <= opBaseLength(op)
<1> DEFINE T == {o \in Seq(Component(U)) : Deletes(o, i) => i <= opBaseLength(o)}
<1>1. <<>> \in T
  <2>1. <<>> \in Seq(Component(U))
    BY EmptySeq
  <2>2. QED
    BY <2>1, DeletesLaws
<1>2. ASSUME NEW o \in Seq(Component(U)), NEW c \in Component(U), o \in T
      PROVE  Append(o, c) \in T
  <2>1. Append(o, c) \in Seq(Component(U))
    BY AppendProperties
  <2>2. PICK k \in Nat : k = opBaseLength(o)
    BY BaseJoin
  <2>3. c.n \in Nat /\ opBaseLength(Append(o, c)) = k + c.n
    BY <2>2, BaseLaws, PartType
  <2>4. Deletes(Append(o, c), i) => Deletes(o, i) \/ Erases(c, k, i)
    BY <2>2, DeletesLaws
  <2>5. Erases(c, k, i) => i <= k + c.n
    BY DEF Erases
  <2>6. Deletes(Append(o, c), i) => i <= opBaseLength(Append(o, c))
    BY <1>2, <2>2, <2>3, <2>4, <2>5
  <2>7. QED
    BY <2>1, <2>6
<1>3. QED
  <2> HIDE DEF T
  <2>1. \A o \in Seq(Component(U)) : o \in T
    BY <1>1, <1>2, SeqSetInduction
  <2>2. QED
    BY <2>1 DEF T

Erased(c, n, index) == IF c.kind = "delete" THEN DeletedBefore(n, c.n, index) ELSE 0

LEMMA GoneMore ==
  ASSUME NEW U, NEW op \in Seq(Component(U)), NEW c \in Component(U), NEW index \in Nat,
         NEW n \in Nat, n = opBaseLength(op)
  PROVE  /\ Cardinality(Gone(op, index)) \in Nat /\ Erased(c, n, index) \in Nat
         /\ Cardinality(Gone(Append(op, c), index)) = Cardinality(Gone(op, index)) + Erased(c, n, index)
<1>1. PICK G : G = Gone(op, index)
  OBVIOUS
<1>2. IsFiniteSet(1 .. index)
  BY FS_Interval
<1>3. G \in SUBSET (1 .. index)
  BY <1>1 DEF Gone
<1>4. IsFiniteSet(G)
  BY <1>2, <1>3, FS_Subset
<1>5. Cardinality(G) \in Nat
  BY <1>4, FS_CardinalityType
<1>6. PICK w \in Nat : w = c.n
  BY PartType
<1>7. \A i \in 1 .. index : Deletes(Append(op, c), i) <=> Deletes(op, i) \/ Erases(c, n, i)
  BY DeletesLaws
<1>8. CASE c.kind # "delete"
  <2>1. \A i : ~Erases(c, n, i)
    BY <1>8 DEF Erases
  <2>2. Gone(Append(op, c), index) = G
    BY <1>1, <1>7, <2>1 DEF Gone
  <2>3. Erased(c, n, index) = 0
    BY <1>8 DEF Erased
  <2>4. QED
    BY <1>1, <1>5, <2>2, <2>3
<1>9. CASE c.kind = "delete"
  <2>1. PICK e \in Nat : e = Smaller(n + w, index)
    BY DEF Smaller
  <2>2. PICK D : D = n + 1 .. e
    OBVIOUS
  <2>3. Gone(Append(op, c), index) = G \cup D
    <3>1. ASSUME NEW i \in 1 .. index
          PROVE  Erases(c, n, i) <=> i \in D
      BY <1>6, <1>9, <2>1, <2>2 DEF Erases, Smaller
    <3>2. \A i \in D : i \in 1 .. index
      BY <2>1, <2>2 DEF Smaller
    <3>3. QED
      BY <1>1, <1>7, <3>1, <3>2 DEF Gone
  <2>4. G \cap D = {}
    <3>1. ASSUME NEW i \in G, i \in D
          PROVE  FALSE
      <4>1. i \in Nat /\ Deletes(op, i) /\ i > n
        BY <1>1, <2>2, <3>1 DEF Gone
      <4>2. i <= n
        BY <4>1, DeletesWithin
      <4>3. QED
        BY <4>1, <4>2
    <3>2. QED
      BY <3>1
  <2>5. IsFiniteSet(D) /\ Cardinality(D) = IF n + 1 > e THEN 0 ELSE e - (n + 1) + 1
    <3>1. n + 1 \in Int /\ e \in Int
      OBVIOUS
    <3>2. QED
      BY <2>2, <3>1, FS_Interval
  <2>6. Cardinality(D) = DeletedBefore(n, w, index) /\ Cardinality(D) \in Nat
    <3>1. PICK d : d = Cardinality(D)
      OBVIOUS
    <3>2. d = IF n + 1 > e THEN 0 ELSE e - (n + 1) + 1
      BY <2>5, <3>1
    <3>3. CASE n + w < index
      <4>1. e = n + w /\ DeletedBefore(n, w, index) = w
        BY <2>1, <3>3 DEF DeletedBefore, Smaller
      <4>2. d = w
        BY <3>2, <4>1
      <4>3. QED
        BY <3>1, <4>1, <4>2
    <3>4. CASE ~(n + w < index)
      <4>1. e = index
        BY <2>1, <3>4 DEF Smaller
      <4>2. DeletedBefore(n, w, index) = IF n < index THEN index - n ELSE 0
        BY <3>4 DEF DeletedBefore
      <4>3. d = DeletedBefore(n, w, index) /\ d \in Nat
        BY <3>2, <4>1, <4>2
      <4>4. QED
        BY <3>1, <4>3
    <3>5. QED
      BY <3>3, <3>4
  <2>7. Cardinality(G \cup D) = Cardinality(G) + Cardinality(D) - Cardinality({})
    BY <1>4, <2>4, <2>5, FS_Union
  <2>8. Cardinality({}) = 0
    BY FS_EmptySet
  <2>9. Erased(c, n, index) = Cardinality(D)
    BY <1>6, <1>9, <2>6 DEF Erased
  <2>10. QED
    BY <1>1, <1>5, <2>3, <2>6, <2>7, <2>8, <2>9
<1>10. QED
  BY <1>8, <1>9

\* Where the caret is: it has moved by what is inserted into the gaps that
\* count, and by what is deleted before it.
CaretIs(index, stick, op, C) ==
  /\ CaretEnd(index, stick, op).pos = opBaseLength(op)
  /\ CaretEnd(index, stick, op).result
       = (index + TypedUpTo(op, C, index + 1)) - Cardinality(Gone(op, index))

LEMMA CaretNowhere ==
  ASSUME NEW U, NEW index \in Nat, NEW stick \in BOOLEAN, NEW C
  PROVE  CaretIs(index, stick, <<>>, C)
<1>1. <<>> \in Seq(Component(U))
  BY EmptySeq
<1>2. CaretEnd(index, stick, <<>>) = [pos |-> 0, result |-> index] /\ opBaseLength(<<>>) = 0
  BY <1>1, CaretLaws, BaseLaws
<1>3. index + 1 \in Nat
  OBVIOUS
<1>4. TypedUpTo(<<>>, C, index + 1) = 0
  BY <1>3, TypedNone
<1>5. Gone(<<>>, index) = {}
  <2>1. \A i : ~Deletes(<<>>, i)
    BY <1>1, DeletesLaws
  <2>2. QED
    BY <2>1 DEF Gone
<1>6. Cardinality({}) = 0
  BY FS_EmptySet
<1>7. CaretEnd(index, stick, <<>>).pos = 0 /\ CaretEnd(index, stick, <<>>).result = index
  BY <1>2
<1>8. (index + TypedUpTo(<<>>, C, index + 1)) - Cardinality(Gone(<<>>, index)) = index
  BY <1>4, <1>5, <1>6
<1>9. QED
  BY <1>2, <1>7, <1>8 DEF CaretIs

LEMMA CaretMore ==
  ASSUME NEW U, NEW index \in Nat, NEW stick \in BOOLEAN, NEW C, C = Counted(index, stick),
         NEW op \in Seq(Component(U)), NEW c \in Component(U), CaretIs(index, stick, op, C)
  PROVE  CaretIs(index, stick, Append(op, c), C)
<1>1. PICK n \in Nat, w \in Nat : n = opBaseLength(op) /\ w = c.n
  BY BaseJoin, PartType
<1>2. PICK s \in Carets : s = CaretEnd(index, stick, op)
  BY CaretLaws
<1>3. PICK m : m = CaretEnd(index, stick, Append(op, c))
  OBVIOUS
<1>4. m = CaretMove(index, stick, s, c)
  BY <1>2, <1>3, CaretLaws
<1>5. /\ m.pos = s.pos + c.n
      /\ m.result = (s.result + IF c.kind = "insert" /\ s.pos \in C THEN Len(c.text) ELSE 0)
                       - IF c.kind = "delete" THEN DeletedBefore(s.pos, c.n, index) ELSE 0
  <2>1. CaretStep(index, s, c, C, CaretMove(index, stick, s, c))
    BY CaretMoves
  <2>2. QED
    BY <1>4, <2>1 DEF CaretStep
<1>6. s.pos = n
  BY <1>1, <1>2 DEF CaretIs
<1>7. m.pos = opBaseLength(Append(op, c))
  BY <1>1, <1>5, <1>6, BaseLaws
<1>8. PICK k \in Nat : k = index + 1
  OBVIOUS
<1>9. PICK t \in Nat, u \in Nat : t = TypedUpTo(op, C, k) /\ u = TypedThere(c, n, C, k)
  <2>1. TypedUpTo(op, C, k) \in Nat
    BY TypedLaws
  <2>2. Len(c.text) \in Nat
    BY PartType, LenProperties
  <2>3. TypedThere(c, n, C, k) \in Nat
    BY <2>2 DEF TypedThere
  <2>4. QED
    BY <2>1, <2>3
<1>10. PICK g \in Nat, e \in Nat : g = Cardinality(Gone(op, index)) /\ e = Erased(c, n, index)
  <2>1. Cardinality(Gone(op, index)) \in Nat /\ Erased(c, n, index) \in Nat
    BY <1>1, GoneMore
  <2>2. QED
    BY <2>1
<1>11. TypedUpTo(Append(op, c), C, k) = t + u
  BY <1>1, <1>9, TypedMore
<1>12. Cardinality(Gone(Append(op, c), index)) = g + e
  BY <1>1, <1>10, GoneMore
<1>13. s.result = (index + t) - g
  BY <1>2, <1>8, <1>9, <1>10 DEF CaretIs
<1>14. n \in C => n < k
  BY <1>8 DEF Counted
<1>15. u = IF c.kind = "insert" /\ n \in C THEN Len(c.text) ELSE 0
  BY <1>9, <1>14 DEF TypedThere
<1>16. e = IF c.kind = "delete" THEN DeletedBefore(n, c.n, index) ELSE 0
  BY <1>10 DEF Erased
<1>17. m.result = (s.result + u) - e
  BY <1>5, <1>6, <1>15, <1>16
<1>18. m.result = (index + (t + u)) - (g + e)
  BY <1>13, <1>17
<1>19. QED
  BY <1>3, <1>7, <1>8, <1>11, <1>12, <1>18 DEF CaretIs

LEMMA CaretStands ==
  ASSUME NEW U, NEW index \in Nat, NEW stick \in BOOLEAN, NEW C, C = Counted(index, stick),
         NEW op \in Seq(Component(U))
  PROVE  CaretIs(index, stick, op, C)
<1> DEFINE T == {o \in Seq(Component(U)) : CaretIs(index, stick, o, C)}
<1>1. <<>> \in T
  <2>1. <<>> \in Seq(Component(U))
    BY EmptySeq
  <2>2. QED
    BY <2>1, CaretNowhere
<1>2. ASSUME NEW o \in Seq(Component(U)), NEW c \in Component(U), o \in T
      PROVE  Append(o, c) \in T
  <2>1. Append(o, c) \in Seq(Component(U))
    BY AppendProperties
  <2>2. CaretIs(index, stick, Append(o, c), C)
    BY <1>2, CaretMore
  <2>3. QED
    BY <2>1, <2>2
<1>3. QED
  <2> HIDE DEF T
  <2>1. \A o \in Seq(Component(U)) : o \in T
    BY <1>1, <1>2, SeqSetInduction
  <2>2. QED
    BY <2>1 DEF T

\* Where the caret ends, in the words of CaretStaysInPlace.
LEMMA CaretPlace ==
  ASSUME NEW U, NEW index \in Nat, NEW stick \in BOOLEAN, NEW op \in Seq(Component(U))
  PROVE  transformPosition(index, op, stick) =
           Len(FlattenSeq([g \in 1 .. index + 1 |->
                             IF g <= index \/ stick THEN Filled(op, g - 1) ELSE <<>>]))
             + Cardinality({i \in 1 .. index : ~Deletes(op, i)})
<1>1. PICK C : C = Counted(index, stick)
  OBVIOUS
<1>2. CaretIs(index, stick, op, C)
  BY <1>1, CaretStands
<1>3. PICK t \in Nat : t = TypedUpTo(op, C, index + 1)
  <2>1. index + 1 \in Nat
    OBVIOUS
  <2>2. TypedUpTo(op, C, index + 1) \in Nat
    BY <2>1, TypedLaws
  <2>3. QED
    BY <2>2
<1>4. PICK K : K = {i \in 1 .. index : ~Deletes(op, i)}
  OBVIOUS
<1>5. PICK G : G = Gone(op, index)
  OBVIOUS
<1>6. K = (1 .. index) \ G /\ (1 .. index) \cap G = G
  BY <1>4, <1>5 DEF Gone
<1>7. IsFiniteSet(1 .. index) /\ Cardinality(1 .. index) = IF 1 > index THEN 0 ELSE index - 1 + 1
  BY FS_Interval
<1>8. Cardinality(K) = Cardinality(1 .. index) - Cardinality(G) /\ IsFiniteSet(K)
  <2>1. PICK I : I = 1 .. index
    OBVIOUS
  <2>2. IsFiniteSet(I)
    BY <1>7, <2>1
  <2>3. IsFiniteSet(I \ G) /\ Cardinality(I \ G) = Cardinality(I) - Cardinality(I \cap G)
    BY <2>2, FS_Difference
  <2>4. QED
    BY <1>6, <2>1, <2>3
<1>9. Cardinality(K) \in Nat
  BY <1>8, FS_CardinalityType
<1>10. IsFiniteSet(G)
  BY <1>6, <1>7, FS_Subset
<1>11. PICK k \in Nat, g \in Nat : k = Cardinality(K) /\ g = Cardinality(G)
  BY <1>9, <1>10, FS_CardinalityType
<1>12. k = index - g
  BY <1>7, <1>8, <1>11
<1>13. CaretEnd(index, stick, op).result = (index + t) - g
  BY <1>2, <1>3, <1>5, <1>11 DEF CaretIs
<1>14. CaretEnd(index, stick, op).result = t + k
  BY <1>12, <1>13
<1>15. transformPosition(index, op, stick) = Larger(0, CaretEnd(index, stick, op).result)
  BY CaretPosition
<1>16. transformPosition(index, op, stick) = t + k
  BY <1>14, <1>15 DEF Larger
<1>17. \A g1 \in 1 .. index + 1 : g1 - 1 \in C <=> (g1 <= index \/ stick)
  BY <1>1 DEF Counted
<1>18. [g1 \in 1 .. index + 1 |-> TextAt(op, C, g1)]
         = [g1 \in 1 .. index + 1 |-> IF g1 <= index \/ stick THEN Filled(op, g1 - 1) ELSE <<>>]
  BY <1>17 DEF TextAt
<1>19. t = Len(FlattenSeq([g1 \in 1 .. index + 1 |->
                             IF g1 <= index \/ stick THEN Filled(op, g1 - 1) ELSE <<>>]))
  BY <1>3, <1>18 DEF TypedUpTo
<1>20. QED
  BY <1>4, <1>11, <1>16, <1>19

\* A caret stays between the characters it was between.
THEOREM CaretLaw == LawSpec => []CaretStaysInPlace
<1>1. OpInputs \/ TextInputs => CaretStaysInPlace
  <2>1. SUFFICES ASSUME OpInputs \/ TextInputs, NEW index \in 0 .. Len(doc), NEW stick \in BOOLEAN
                 PROVE  transformPosition(index, a, stick) =
                          Len(FlattenSeq([g \in 1 .. index + 1 |->
                                            IF g <= index \/ stick THEN Filled(a, g - 1) ELSE <<>>]))
                            + Cardinality({i \in 1 .. index : ~Deletes(a, i)})
    BY DEF CaretStaysInPlace
  <2>2. a \in Seq(Component(LawUnits)) /\ index \in Nat
    BY <2>1, InputTypes
  <2>3. QED
    BY <2>2, CaretPlace
<1>2. QED
  BY <1>1, LawInputs, PTL
=============================================================================
