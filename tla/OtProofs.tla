------------------------------ MODULE OtProofs ------------------------------
(***************************************************************************)
(* Proofs about OtText, for every alphabet, document and operation.        *)
(*                                                                         *)
(* The operators are loops over components, so each comes with its law     *)
(* for one component more (BaseLaws, PassLaws, RebuildLaws), from the      *)
(* folds of InductionLemmas.  The argument is about two relations.         *)
(* Runs(U, op, x, y): op passes over exactly x and makes y of it, whatever *)
(* is behind.  Acts(U, op, doc, out): op runs over a front of doc, and out *)
(* is what applyOp makes.  Runs can be cut and joined: components one      *)
(* after the other run over texts one after the other, a consumed head is  *)
(* a part and a rest.  So a round of transformOps or composeOps keeps that *)
(* what is left to do and what is built fit together (Trans, Comp), every  *)
(* round uses up a component, and at the end that is the theorem.          *)
(*                                                                         *)
(* Inserted(op) is what an operation types.  A text without repetitions    *)
(* tells its characters apart: then the rounds also keep that what is      *)
(* built types nothing but what was to be typed, and that no character is  *)
(* there twice (Merging), so that transformOps loses none of them.         *)
(***************************************************************************)
EXTENDS OtText, InductionLemmas, SequenceTheorems, TLAPS

\* The base length, component by component.
LEMMA BaseLaws ==
  ASSUME NEW U, NEW op \in Seq(Component(U))
  PROVE  /\ opBaseLength(<<>>) = 0
         /\ \A c \in Component(U) :
              opBaseLength(Append(op, c)) = opBaseLength(op) + c.n
<1> DEFINE E == Component(U)
           S == Nat
           start == 0
           step == [x \in S \X E |-> x[1] + x[2].n]
           Values(o, s) == s = [i \in 0 .. Len(o) |->
                                  IF i = 0 THEN start ELSE s[i - 1] + o[i].n]
           F == [o \in Seq(E) |-> opBaseLength(o)]
<1>1. start \in S /\ step \in [S \X E -> S]
  BY DEF Component
<1>2. ASSUME NEW o \in Seq(E)
      PROVE  \E s : Folding(S, start, step, o, s) /\ F[o] = s[Len(o)]
  <2>1. PICK n \in Nat : n = Len(o)
    BY LenProperties
  <2>2. PICK f \in [0 .. n -> S] : Folding(S, start, step, o, f)
    <3> HIDE DEF step, start, S, E
    <3>1. QED
      BY <1>1, <2>1, FoldExists
  <2>3. ASSUME NEW i \in 1 .. n, NEW s, s[i - 1] \in S
        PROVE  step[<<s[i - 1], o[i]>>] = s[i - 1] + o[i].n
    <3> HIDE DEF S, E
    <3>1. o[i] \in E
      BY <2>1
    <3>2. QED
      BY <2>3, <3>1 DEF step
  <2>4. Values(o, f)
    <3> HIDE DEF S, start, step
    <3>1. ASSUME NEW i \in 0 .. n
          PROVE  f[i] = IF i = 0 THEN start ELSE f[i - 1] + o[i].n
      <4>1. i # 0 => i - 1 \in 0 .. n /\ i \in 1 .. n
        OBVIOUS
      <4>2. QED
        BY <2>1, <2>2, <2>3, <4>1 DEF Folding
    <3>2. QED
      BY <2>1, <3>1
  <2>5. PICK s : s = (CHOOSE t : Values(o, t))
    OBVIOUS
  <2>6. Values(o, s)
    <3> HIDE DEF Values
    <3>1. QED
      BY <2>4, <2>5
  <2>7. Folding(S, start, step, o, s)
    <3> HIDE DEF S, start, step
    <3>1. s[0] = start
      BY <2>1, <2>6
    <3>2. ASSUME NEW i \in 1 .. n
          PROVE  s[i] = s[i - 1] + o[i].n
      <4>1. i \in 0 .. n /\ i # 0
        OBVIOUS
      <4>2. QED
        BY <2>1, <2>6, <4>1
    <3>3. QED
      BY <2>1, <2>3, <3>1, <3>2 DEF Folding
  <2>8. F[o] = s[Len(o)]
    BY <2>5 DEF opBaseLength, SumOf, Through
  <2>9. QED
    BY <2>7, <2>8
<1>3. /\ F[<<>>] = start
      /\ F[op] \in S
      /\ \A c \in E : F[Append(op, c)] = step[<<F[op], c>>]
  <2>1. op \in Seq(E)
    OBVIOUS
  <2> HIDE DEF F, step, start, S, E
  <2>2. FollowsFold(E, S, start, step, F)
    BY <1>1, <1>2, FoldLaw
  <2>3. QED
    BY <2>1, <2>2 DEF FollowsFold
<1>4. ASSUME NEW c \in E
      PROVE  opBaseLength(Append(op, c)) = opBaseLength(op) + c.n
  <2>1. Append(op, c) \in Seq(E)
    OBVIOUS
  <2> HIDE DEF S, E
  <2>2. F[op] = opBaseLength(op) /\ F[Append(op, c)] = opBaseLength(Append(op, c))
    BY <2>1 DEF E
  <2>3. step[<<F[op], c>>] = F[op] + c.n
    BY <1>3 DEF step
  <2> HIDE DEF F
  <2>4. QED
    BY <1>3, <2>2, <2>3
<1>5. QED
  BY <1>3, <1>4

\* The target length, component by component.
LEMMA TargetLaws ==
  ASSUME NEW U, NEW op \in Seq(Component(U))
  PROVE  /\ opTargetLength(<<>>) = 0
         /\ \A c \in Component(U) :
              opTargetLength(Append(op, c)) = opTargetLength(op)
                                              + (IF c.kind = "delete" THEN 0 ELSE c.n + Len(c.text))
<1> DEFINE E == Component(U)
           S == Nat
           start == 0
           step == [x \in S \X E |-> x[1]
                                    + (IF x[2].kind = "delete" THEN 0 ELSE x[2].n + Len(x[2].text))]
           Values(o, s) == s = [i \in 0 .. Len(o) |->
                                  IF i = 0 THEN start ELSE s[i - 1]
                                    + (IF o[i].kind = "delete" THEN 0 ELSE o[i].n + Len(o[i].text))]
           F == [o \in Seq(E) |-> opTargetLength(o)]
<1>1. start \in S /\ step \in [S \X E -> S]
  BY DEF Component
<1>2. ASSUME NEW o \in Seq(E)
      PROVE  \E s : Folding(S, start, step, o, s) /\ F[o] = s[Len(o)]
  <2>1. PICK n \in Nat : n = Len(o)
    BY LenProperties
  <2>2. PICK f \in [0 .. n -> S] : Folding(S, start, step, o, f)
    <3> HIDE DEF step, start, S, E
    <3>1. QED
      BY <1>1, <2>1, FoldExists
  <2>3. ASSUME NEW i \in 1 .. n, NEW s, s[i - 1] \in S
        PROVE  step[<<s[i - 1], o[i]>>] = s[i - 1]
                                     + (IF o[i].kind = "delete" THEN 0 ELSE o[i].n + Len(o[i].text))
    <3> HIDE DEF S, E
    <3>1. o[i] \in E
      BY <2>1
    <3>2. QED
      BY <2>3, <3>1 DEF step
  <2>4. Values(o, f)
    <3> HIDE DEF S, start, step
    <3>1. ASSUME NEW i \in 0 .. n
          PROVE  f[i] = IF i = 0 THEN start ELSE f[i - 1]
                                     + (IF o[i].kind = "delete" THEN 0 ELSE o[i].n + Len(o[i].text))
      <4>1. i # 0 => i - 1 \in 0 .. n /\ i \in 1 .. n
        OBVIOUS
      <4>2. QED
        BY <2>1, <2>2, <2>3, <4>1 DEF Folding
    <3>2. QED
      BY <2>1, <3>1
  <2>5. PICK s : s = (CHOOSE t : Values(o, t))
    OBVIOUS
  <2>6. Values(o, s)
    <3> HIDE DEF Values
    <3>1. QED
      BY <2>4, <2>5
  <2>7. Folding(S, start, step, o, s)
    <3> HIDE DEF S, start, step
    <3>1. s[0] = start
      BY <2>1, <2>6
    <3>2. ASSUME NEW i \in 1 .. n
          PROVE  s[i] = s[i - 1] + (IF o[i].kind = "delete" THEN 0 ELSE o[i].n + Len(o[i].text))
      <4>1. i \in 0 .. n /\ i # 0
        OBVIOUS
      <4>2. QED
        BY <2>1, <2>6, <4>1
    <3>3. QED
      BY <2>1, <2>3, <3>1, <3>2 DEF Folding
  <2>8. F[o] = s[Len(o)]
    BY <2>5 DEF opTargetLength, SumOf, Through
  <2>9. QED
    BY <2>7, <2>8
<1>3. /\ F[<<>>] = start
      /\ F[op] \in S
      /\ \A c \in E : F[Append(op, c)] = step[<<F[op], c>>]
  <2>1. op \in Seq(E)
    OBVIOUS
  <2> HIDE DEF F, step, start, S, E
  <2>2. FollowsFold(E, S, start, step, F)
    BY <1>1, <1>2, FoldLaw
  <2>3. QED
    BY <2>1, <2>2 DEF FollowsFold
<1>4. ASSUME NEW c \in E
      PROVE  opTargetLength(Append(op, c)) = opTargetLength(op)
                                              + (IF c.kind = "delete" THEN 0 ELSE c.n + Len(c.text))
  <2>1. Append(op, c) \in Seq(E)
    OBVIOUS
  <2> HIDE DEF S, E
  <2>2. F[op] = opTargetLength(op) /\ F[Append(op, c)] = opTargetLength(Append(op, c))
    BY <2>1 DEF E
  <2>3. step[<<F[op], c>>] = F[op] + (IF c.kind = "delete" THEN 0 ELSE c.n + Len(c.text))
    BY <1>3 DEF step
  <2> HIDE DEF F
  <2>4. QED
    BY <1>3, <2>2, <2>3
<1>5. QED
  BY <1>3, <1>4

----------------------------------------------------------------------------
\* Components.

LEMMA PartIs ==
  ASSUME NEW U, NEW c \in Component(U)
  PROVE  \/ c.kind = "retain" /\ c.n \in Nat \ {0} /\ c.text = <<>> /\ c = Retain(c.n)
         \/ c.kind = "delete" /\ c.n \in Nat \ {0} /\ c.text = <<>> /\ c = Delete(c.n)
         \/ c.kind = "insert" /\ c.n = 0 /\ c.text \in Seq(U) /\ c.text # <<>>
              /\ c = Insert(c.text)
<1>1. CASE c \in [kind : {"retain", "delete"}, n : Nat \ {0}, text : {<<>>}]
  <2>1. c = [kind |-> c.kind, n |-> c.n, text |-> c.text]
    BY <1>1
  <2>2. c.kind \in {"retain", "delete"} /\ c.n \in Nat \ {0} /\ c.text = <<>>
    BY <1>1
  <2>3. QED
    BY <2>1, <2>2 DEF Retain, Delete
<1>2. CASE c \in [kind : {"insert"}, n : {0}, text : Seq(U) \ {<<>>}]
  <2>1. c = [kind |-> c.kind, n |-> c.n, text |-> c.text]
    BY <1>2
  <2>2. c.kind = "insert" /\ c.n = 0 /\ c.text \in Seq(U) /\ c.text # <<>>
    BY <1>2
  <2>3. QED
    BY <2>1, <2>2 DEF Insert
<1>3. QED
  BY <1>1, <1>2 DEF Component

LEMMA PartType ==
  ASSUME NEW U, NEW c \in Component(U)
  PROVE  /\ c.kind \in {"retain", "delete", "insert"} /\ c.n \in Nat /\ c.text \in Seq(U)
         /\ c.kind = "insert" => c.n = 0 /\ c.text # <<>> /\ c = Insert(c.text)
         /\ c.kind = "retain" => c.n \in Nat \ {0} /\ c.text = <<>> /\ c = Retain(c.n)
         /\ c.kind = "delete" => c.n \in Nat \ {0} /\ c.text = <<>> /\ c = Delete(c.n)
<1>1. <<>> \in Seq(U)
  BY EmptySeq
<1>2. CASE c.kind = "retain" /\ c.n \in Nat \ {0} /\ c.text = <<>> /\ c = Retain(c.n)
  BY <1>1, <1>2
<1>3. CASE c.kind = "delete" /\ c.n \in Nat \ {0} /\ c.text = <<>> /\ c = Delete(c.n)
  BY <1>1, <1>3
<1>4. CASE /\ c.kind = "insert" /\ c.n = 0 /\ c.text \in Seq(U) /\ c.text # <<>>
           /\ c = Insert(c.text)
  BY <1>4
<1>5. QED
  BY <1>2, <1>3, <1>4, PartIs

LEMMA PartsAre ==
  ASSUME NEW U
  PROVE  /\ \A n \in Nat \ {0} : Retain(n) \in Component(U) /\ Delete(n) \in Component(U)
         /\ \A t \in Seq(U) : t # <<>> => Insert(t) \in Component(U)
BY DEF Component, Retain, Delete, Insert

LEMMA FrontLast ==
  ASSUME NEW E, NEW s \in Seq(E), s # <<>>
  PROVE  /\ Front(s) \in Seq(E) /\ Last(s) \in E /\ s = Append(Front(s), Last(s))
         /\ Len(s) \in Nat \ {0} /\ Len(Front(s)) = Len(s) - 1 /\ Last(s) = s[Len(s)]
<1>1. PICK f \in Seq(E), e \in E : s = Append(f, e)
  BY SequenceEmptyOrAppend
<1>2. /\ Len(f) \in Nat /\ Len(s) = Len(f) + 1 /\ s[Len(s)] = e
      /\ \A i \in 1 .. Len(f) : s[i] = f[i]
  BY <1>1, AppendProperties, LenProperties
<1>3. Front(s) = f
  <2>1. Len(s) - 1 = Len(f) /\ \A i \in 1 .. Len(f) : s[i] \in E
    BY <1>2, ElementOfSeq
  <2>2. /\ SubSeq(s, 1, Len(f)) \in Seq(E)
        /\ Len(SubSeq(s, 1, Len(f))) = IF 1 <= Len(f) THEN Len(f) - 1 + 1 ELSE 0
        /\ \A i \in 1 .. Len(f) - 1 + 1 : SubSeq(s, 1, Len(f))[i] = s[1 + i - 1]
    BY <1>2, <2>1, SubSeqProperties
  <2>3. Len(SubSeq(s, 1, Len(f))) = Len(f)
    BY <1>2, <2>2
  <2>4. \A i \in 1 .. Len(f) : SubSeq(s, 1, Len(f))[i] = f[i]
    BY <1>2, <2>2
  <2>5. SubSeq(s, 1, Len(f)) = f
    BY <2>2, <2>3, <2>4, SeqEqual
  <2>6. QED
    BY <2>1, <2>5 DEF Front
<1>4. QED
  BY <1>1, <1>2, <1>3 DEF Last

LEMMA Beyond ==
  ASSUME NEW m \in Nat, NEW n \in Nat, NEW k \in 1 .. n
  PROVE  m + k \in 1 .. m + n /\ ~(m + k <= m) /\ (m + k) - m = k
OBVIOUS

\* The parts of a concatenation.
LEMMA JoinAt ==
  ASSUME NEW U, NEW x \in Seq(U), NEW p \in Seq(U)
  PROVE  /\ x \o p \in Seq(U) /\ Len(x \o p) = Len(x) + Len(p)
         /\ Len(x) \in Nat /\ Len(p) \in Nat
         /\ \A i \in 1 .. Len(x) : (x \o p)[i] = x[i]
         /\ \A k \in 1 .. Len(p) : (x \o p)[Len(x) + k] = p[k]
<1>1. PICK m \in Nat, n \in Nat : m = Len(x) /\ n = Len(p)
  BY LenProperties
<1>2. PICK d \in Seq(U) : d = x \o p
  BY ConcatProperties
<1>3. Len(d) = m + n /\ \A i \in 1 .. m + n : d[i] = IF i <= m THEN x[i] ELSE p[i - m]
  BY <1>1, <1>2, ConcatProperties
<1>4. ASSUME NEW i \in 1 .. m
      PROVE  d[i] = x[i]
  <2>1. i \in 1 .. m + n /\ i <= m
    OBVIOUS
  <2>2. QED
    BY <1>3, <2>1
<1>5. ASSUME NEW k \in 1 .. n
      PROVE  d[m + k] = p[k]
  <2>1. m + k \in 1 .. m + n /\ ~(m + k <= m) /\ (m + k) - m = k
    BY Beyond
  <2>2. QED
    BY <1>3, <2>1
<1>6. QED
  BY <1>1, <1>2, <1>3, <1>4, <1>5

LEMMA HeadRest ==
  ASSUME NEW E, NEW s \in Seq(E), s # <<>>
  PROVE  /\ Head(s) \in E /\ Tail(s) \in Seq(E) /\ s = <<Head(s)>> \o Tail(s)
         /\ Len(Tail(s)) = Len(s) - 1 /\ Len(s) \in Nat \ {0}
<1>1. Head(s) \in E /\ Tail(s) \in Seq(E) /\ Len(Tail(s)) = Len(s) - 1
  BY HeadTailProperties
<1>2. Len(s) \in Nat \ {0}
  BY EmptySeq
<1>3. s = <<Head(s)>> \o Tail(s)
  BY <1>2
<1>4. QED
  BY <1>1, <1>2, <1>3

LEMMA SingleBase ==
  ASSUME NEW U, NEW c \in Component(U)
  PROVE  <<c>> \in Seq(Component(U)) /\ opBaseLength(<<c>>) = c.n
<1>1. <<>> \in Seq(Component(U)) /\ <<c>> = Append(<<>>, c)
  BY EmptySeq
<1>2. Append(<<>>, c) \in Seq(Component(U))
  BY <1>1, AppendProperties
<1>3. opBaseLength(Append(<<>>, c)) = 0 + c.n
  BY <1>1, BaseLaws
<1>4. c.n \in Nat
  BY PartType
<1>5. QED
  BY <1>1, <1>2, <1>3, <1>4

----------------------------------------------------------------------------
\* What an operation types, and texts that have no character twice.

Inserted(op) == UNION {Range(op[i].text) : i \in DOMAIN op}

LEMMA RangeIn ==
  ASSUME NEW U, NEW x \in Seq(U), NEW n
  PROVE  n \in Range(x) <=> \E i \in 1 .. Len(x) : x[i] = n
BY RangeEquality

LEMMA RangeNone == Range(<<>>) = {}
BY DEF Range

LEMMA RangeOne ==
  ASSUME NEW e
  PROVE  Range(<<e>>) = {e}
BY DEF Range

LEMMA RangeMore ==
  ASSUME NEW U, NEW x \in Seq(U), NEW e \in U
  PROVE  Range(Append(x, e)) = Range(x) \cup {e}
<1>1. Append(x, e) = x \o <<e>>
  BY AppendIsConcat
<1>2. <<e>> \in Seq(U)
  OBVIOUS
<1>3. Range(x \o <<e>>) = Range(x) \cup Range(<<e>>)
  BY <1>2, RangeConcatenation
<1>4. QED
  BY <1>1, <1>3, RangeOne

LEMMA OnceJoin ==
  ASSUME NEW U, NEW x \in Seq(U), NEW y \in Seq(U)
  PROVE  IsInjective(x \o y)
           <=> IsInjective(x) /\ IsInjective(y) /\ Range(x) \cap Range(y) = {}
<1>1. PICK m \in Nat, n \in Nat, z \in Seq(U) : m = Len(x) /\ n = Len(y) /\ z = x \o y
  BY JoinAt
<1>2. /\ Len(z) = m + n /\ \A i \in 1 .. m : z[i] = x[i]
      /\ \A k \in 1 .. n : z[m + k] = y[k]
  BY <1>1, JoinAt
<1>3. DOMAIN x = 1 .. m /\ DOMAIN y = 1 .. n /\ DOMAIN z = 1 .. (m + n)
  BY <1>1, <1>2, LenProperties
<1>4. ASSUME IsInjective(z)
      PROVE  IsInjective(x) /\ IsInjective(y) /\ Range(x) \cap Range(y) = {}
  <2>1. \A i, k \in 1 .. (m + n) : z[i] = z[k] => i = k
    BY <1>3, <1>4 DEF IsInjective
  <2>2. ASSUME NEW i \in 1 .. m, NEW k \in 1 .. m, x[i] = x[k]
        PROVE  i = k
    BY <1>2, <2>1, <2>2
  <2>3. ASSUME NEW i \in 1 .. n, NEW k \in 1 .. n, y[i] = y[k]
        PROVE  i = k
    <3>1. m + i \in 1 .. (m + n) /\ m + k \in 1 .. (m + n)
      BY Beyond
    <3>2. z[m + i] = z[m + k]
      BY <1>2, <2>3
    <3>3. m + i = m + k
      BY <2>1, <3>1, <3>2
    <3>4. QED
      BY <3>3
  <2>4. ASSUME NEW c, c \in Range(x), c \in Range(y)
        PROVE  FALSE
    <3>1. PICK i \in 1 .. m : x[i] = c
      BY <1>1, <2>4, RangeIn
    <3>2. PICK k \in 1 .. n : y[k] = c
      BY <1>1, <2>4, RangeIn
    <3>3. m + k \in 1 .. (m + n) /\ ~(m + k <= m)
      BY Beyond
    <3>4. i \in 1 .. (m + n) /\ i <= m
      OBVIOUS
    <3>5. z[i] = z[m + k]
      BY <1>2, <3>1, <3>2
    <3>6. QED
      BY <2>1, <3>3, <3>4, <3>5
  <2>5. IsInjective(x) /\ IsInjective(y)
    BY <1>3, <2>2, <2>3 DEF IsInjective
  <2>6. QED
    BY <2>4, <2>5
<1>5. ASSUME IsInjective(x), IsInjective(y), Range(x) \cap Range(y) = {}
      PROVE  IsInjective(z)
  <2>1. /\ \A i, k \in 1 .. m : x[i] = x[k] => i = k
        /\ \A i, k \in 1 .. n : y[i] = y[k] => i = k
    BY <1>3, <1>5 DEF IsInjective
  <2>2. ASSUME NEW i \in 1 .. m, NEW k \in 1 .. n
        PROVE  x[i] # y[k]
    <3>1. x[i] \in Range(x) /\ y[k] \in Range(y)
      BY <1>1, RangeIn
    <3>2. QED
      BY <1>5, <3>1
  <2>3. ASSUME NEW i \in 1 .. (m + n)
        PROVE  \/ i \in 1 .. m /\ z[i] = x[i]
               \/ \E k \in 1 .. n : i = m + k /\ z[i] = y[k]
    <3>1. CASE i <= m
      <4>1. i \in 1 .. m
        BY <3>1
      <4>2. QED
        BY <1>2, <4>1
    <3>2. CASE ~(i <= m)
      <4>1. PICK k \in 1 .. n : i = m + k
        <5>1. i - m \in 1 .. n /\ i = m + (i - m)
          BY <3>2
        <5>2. QED
          BY <5>1
      <4>2. QED
        BY <1>2, <4>1
    <3>3. QED
      BY <3>1, <3>2
  <2>4. ASSUME NEW i \in 1 .. (m + n), NEW k \in 1 .. (m + n), z[i] = z[k]
        PROVE  i = k
    <3>1. CASE i \in 1 .. m /\ z[i] = x[i]
      <4>1. CASE k \in 1 .. m /\ z[k] = x[k]
        BY <2>1, <2>4, <3>1, <4>1
      <4>2. CASE \E l \in 1 .. n : k = m + l /\ z[k] = y[l]
        BY <2>2, <2>4, <3>1, <4>2
      <4>3. QED
        BY <2>3, <4>1, <4>2
    <3>2. CASE \E j \in 1 .. n : i = m + j /\ z[i] = y[j]
      <4>1. PICK j \in 1 .. n : i = m + j /\ z[i] = y[j]
        BY <3>2
      <4>2. CASE k \in 1 .. m /\ z[k] = x[k]
        BY <2>2, <2>4, <4>1, <4>2
      <4>3. CASE \E l \in 1 .. n : k = m + l /\ z[k] = y[l]
        <5>1. PICK l \in 1 .. n : k = m + l /\ z[k] = y[l]
          BY <4>3
        <5>2. j = l
          BY <2>1, <2>4, <4>1, <5>1
        <5>3. QED
          BY <4>1, <5>1, <5>2
      <4>4. QED
        BY <2>3, <4>2, <4>3
    <3>3. QED
      BY <2>3, <3>1, <3>2
  <2>5. QED
    BY <1>3, <2>4 DEF IsInjective
<1>6. QED
  BY <1>1, <1>4, <1>5

LEMMA InsertedIn ==
  ASSUME NEW U, NEW op \in Seq(Component(U)), NEW n
  PROVE  n \in Inserted(op) <=> \E i \in 1 .. Len(op) : n \in Range(op[i].text)
<1>1. DOMAIN op = 1 .. Len(op)
  BY LenProperties
<1>2. QED
  BY <1>1 DEF Inserted

LEMMA InsertedNone == Inserted(<<>>) = {}
BY DEF Inserted

LEMMA InsertedJoin ==
  ASSUME NEW U, NEW p \in Seq(Component(U)), NEW q \in Seq(Component(U))
  PROVE  Inserted(p \o q) = Inserted(p) \cup Inserted(q)
<1>1. PICK E : E = Component(U)
  OBVIOUS
<1>2. PICK m \in Nat, n \in Nat, r \in Seq(E) : m = Len(p) /\ n = Len(q) /\ r = p \o q
  BY <1>1, JoinAt
<1>3. /\ Len(r) = m + n /\ \A i \in 1 .. m : r[i] = p[i]
      /\ \A k \in 1 .. n : r[m + k] = q[k]
  BY <1>1, <1>2, JoinAt
<1>4. ASSUME NEW c, c \in Inserted(r)
      PROVE  c \in Inserted(p) \/ c \in Inserted(q)
  <2>1. PICK i \in 1 .. (m + n) : c \in Range(r[i].text)
    BY <1>1, <1>3, <1>4, InsertedIn
  <2>2. CASE i <= m
    <3>1. i \in 1 .. m
      BY <2>2
    <3>2. c \in Range(p[i].text)
      BY <1>3, <2>1, <3>1
    <3>3. QED
      BY <1>2, <3>1, <3>2, InsertedIn
  <2>3. CASE ~(i <= m)
    <3>1. PICK k \in 1 .. n : i = m + k
      <4>1. i - m \in 1 .. n /\ i = m + (i - m)
        BY <2>3
      <4>2. QED
        BY <4>1
    <3>2. c \in Range(q[k].text)
      BY <1>3, <2>1, <3>1
    <3>3. QED
      BY <1>2, <3>2, InsertedIn
  <2>4. QED
    BY <2>2, <2>3
<1>5. ASSUME NEW c, c \in Inserted(p)
      PROVE  c \in Inserted(r)
  <2>1. PICK i \in 1 .. m : c \in Range(p[i].text)
    BY <1>2, <1>5, InsertedIn
  <2>2. i \in 1 .. (m + n) /\ c \in Range(r[i].text)
    BY <1>3, <2>1
  <2>3. QED
    BY <1>1, <1>3, <2>2, InsertedIn
<1>6. ASSUME NEW c, c \in Inserted(q)
      PROVE  c \in Inserted(r)
  <2>1. PICK k \in 1 .. n : c \in Range(q[k].text)
    BY <1>2, <1>6, InsertedIn
  <2>2. m + k \in 1 .. (m + n) /\ c \in Range(r[m + k].text)
    BY <1>3, <2>1, Beyond
  <2>3. QED
    BY <1>1, <1>3, <2>2, InsertedIn
<1>7. QED
  BY <1>2, <1>4, <1>5, <1>6

LEMMA InsertedOne ==
  ASSUME NEW U, NEW c \in Component(U)
  PROVE  <<c>> \in Seq(Component(U)) /\ Inserted(<<c>>) = Range(c.text)
<1>1. <<c>> \in Seq(Component(U))
  BY SingleBase
<1>2. DOMAIN <<c>> = {1} /\ <<c>>[1] = c
  OBVIOUS
<1>3. QED
  BY <1>1, <1>2 DEF Inserted

LEMMA InsertedMore ==
  ASSUME NEW U, NEW op \in Seq(Component(U)), NEW c \in Component(U)
  PROVE  Inserted(Append(op, c)) = Inserted(op) \cup Range(c.text)
<1>1. Append(op, c) = op \o <<c>>
  BY AppendIsConcat
<1>2. PICK one \in Seq(Component(U)) : one = <<c>> /\ Inserted(one) = Range(c.text)
  BY InsertedOne
<1>3. Inserted(op \o one) = Inserted(op) \cup Inserted(one)
  BY InsertedJoin
<1>4. QED
  BY <1>1, <1>2, <1>3

LEMMA InsertedHead ==
  ASSUME NEW U, NEW op \in Seq(Component(U)), op # <<>>
  PROVE  Inserted(op) = Range(Head(op).text) \cup Inserted(Tail(op))
<1>1. /\ Head(op) \in Component(U) /\ Tail(op) \in Seq(Component(U))
      /\ op = <<Head(op)>> \o Tail(op)
  BY HeadRest
<1>2. PICK c \in Component(U), rest \in Seq(Component(U)) : c = Head(op) /\ rest = Tail(op)
  BY <1>1
<1>3. PICK one \in Seq(Component(U)) : one = <<c>> /\ Inserted(one) = Range(c.text)
  BY InsertedOne
<1>4. Inserted(one \o rest) = Inserted(one) \cup Inserted(rest)
  BY InsertedJoin
<1>5. QED
  BY <1>1, <1>2, <1>3, <1>4

----------------------------------------------------------------------------
\* One component and another behind it.

Units(U, doc)     == U \cup {doc[k] : k \in Nat}
Spot(out, at)     == [out |-> out, at |-> at]
Slice(doc, at, n) == SubSeq(doc, at + 1, at + n)

LEMMA JoinThree ==
  ASSUME NEW U, NEW x \in Seq(U), NEW v \in Seq(U), NEW p \in Seq(U)
  PROVE  (x \o v) \o p = x \o (v \o p)
BY ConcatAssociative

LEMMA SliceType ==
  ASSUME NEW U, NEW doc \in Seq(U), NEW at \in Nat, NEW n \in Nat
  PROVE  /\ Slice(doc, at, n) \in Seq(Units(U, doc)) /\ Len(Slice(doc, at, n)) = n
         /\ \A k \in 1 .. n : Slice(doc, at, n)[k] = doc[at + k]
<1>1. \A k \in at + 1 .. at + n : doc[k] \in Units(U, doc)
  BY DEF Units
<1>2. at + 1 \in Int /\ at + n \in Int
  OBVIOUS
<1>3. /\ SubSeq(doc, at + 1, at + n) \in Seq(Units(U, doc))
      /\ Len(SubSeq(doc, at + 1, at + n))
           = IF at + 1 <= at + n THEN (at + n) - (at + 1) + 1 ELSE 0
      /\ \A i \in 1 .. (at + n) - (at + 1) + 1 :
           SubSeq(doc, at + 1, at + n)[i] = doc[(at + 1) + i - 1]
  BY <1>1, <1>2, SubSeqProperties
<1>4. QED
  BY <1>3 DEF Slice

LEMMA SlicesJoin ==
  ASSUME NEW U, NEW doc \in Seq(U), NEW at \in Nat, NEW m \in Nat, NEW n \in Nat
  PROVE  Slice(doc, at, m) \o Slice(doc, at + m, n) = Slice(doc, at, m + n)
<1> DEFINE V == Units(U, doc)
           l == Slice(doc, at, m)
           r == Slice(doc, at + m, n)
           b == Slice(doc, at, m + n)
<1>1. at + m \in Nat /\ m + n \in Nat
  OBVIOUS
<1>2. l \in Seq(V) /\ Len(l) = m /\ \A k \in 1 .. m : l[k] = doc[at + k]
  BY SliceType
<1>3. r \in Seq(V) /\ Len(r) = n /\ \A k \in 1 .. n : r[k] = doc[(at + m) + k]
  BY <1>1, SliceType
<1>4. b \in Seq(V) /\ Len(b) = m + n /\ \A k \in 1 .. (m + n) : b[k] = doc[at + k]
  BY <1>1, SliceType
<1> HIDE DEF l, r, b, V
<1>5. /\ l \o r \in Seq(V) /\ Len(l \o r) = m + n
      /\ \A k \in 1 .. (m + n) : (l \o r)[k] = IF k <= m THEN l[k] ELSE r[k - m]
  <2>1. l \in Seq(V) /\ r \in Seq(V)
    BY <1>2, <1>3
  <2>2. /\ l \o r \in Seq(V) /\ Len(l \o r) = Len(l) + Len(r)
        /\ \A k \in 1 .. Len(l) + Len(r) :
             (l \o r)[k] = IF k <= Len(l) THEN l[k] ELSE r[k - Len(l)]
    BY <2>1, ConcatProperties
  <2>3. QED
    BY <1>2, <1>3, <2>2
<1>6. \A k \in 1 .. (m + n) : (l \o r)[k] = b[k]
  <2>1. SUFFICES ASSUME NEW k \in 1 .. (m + n)
                 PROVE  (l \o r)[k] = doc[at + k]
    BY <1>4
  <2>2. CASE k <= m
    BY <1>2, <1>5, <2>2
  <2>3. CASE ~(k <= m)
    <3>1. k - m \in 1 .. n /\ (at + m) + (k - m) = at + k
      BY <2>3
    <3>2. QED
      BY <1>3, <1>5, <2>3, <3>1
  <2>4. QED
    BY <2>2, <2>3
<1>7. l \o r = b
  BY <1>4, <1>5, <1>6, SeqEqual
<1>8. QED
  BY <1>7 DEF l, r, b

LEMMA TakeInsert ==
  ASSUME NEW doc, NEW y, NEW k, NEW t
  PROVE  Take(doc, Spot(y, k), Insert(t)) = Spot(y \o t, k)
BY DEF Take, Spot, Insert

LEMMA TakeDelete ==
  ASSUME NEW doc, NEW y, NEW k, NEW n
  PROVE  Take(doc, Spot(y, k), Delete(n)) = Spot(y, k + n)
BY DEF Take, Spot, Delete

LEMMA TakeRetain ==
  ASSUME NEW doc, NEW y, NEW k, NEW n
  PROVE  Take(doc, Spot(y, k), Retain(n)) = Spot(y \o Slice(doc, k, n), k + n)
BY DEF Take, Spot, Slice, Retain

LEMMA UnitsOf ==
  ASSUME NEW U, NEW doc, NEW t \in Seq(U)
  PROVE  t \in Seq(Units(U, doc))
<1>1. U \subseteq Units(U, doc)
  BY DEF Units
<1>2. QED
  BY <1>1, SeqMonotonic

\* Neighbours of one kind are one; an insert and a delete commute.
LEMMA TakeTwice ==
  ASSUME NEW U, NEW doc \in Seq(U), NEW y \in Seq(Units(U, doc)), NEW k \in Nat,
         NEW m \in Nat, NEW n \in Nat, NEW t \in Seq(U), NEW u \in Seq(U)
  PROVE  /\ Take(doc, Take(doc, Spot(y, k), Retain(m)), Retain(n))
              = Take(doc, Spot(y, k), Retain(m + n))
         /\ Take(doc, Take(doc, Spot(y, k), Delete(m)), Delete(n))
              = Take(doc, Spot(y, k), Delete(m + n))
         /\ Take(doc, Take(doc, Spot(y, k), Insert(t)), Insert(u))
              = Take(doc, Spot(y, k), Insert(t \o u))
         /\ Take(doc, Take(doc, Spot(y, k), Delete(n)), Insert(t))
              = Take(doc, Take(doc, Spot(y, k), Insert(t)), Delete(n))
<1>1. t \in Seq(Units(U, doc)) /\ u \in Seq(Units(U, doc))
  BY UnitsOf
<1>2. (k + m) + n = k + (m + n) /\ k + m \in Nat
  OBVIOUS
<1>3. PICK l \in Seq(Units(U, doc)), r \in Seq(Units(U, doc)) :
        l = Slice(doc, k, m) /\ r = Slice(doc, k + m, n)
  BY <1>2, SliceType
<1>4. Take(doc, Take(doc, Spot(y, k), Retain(m)), Retain(n))
        = Take(doc, Spot(y, k), Retain(m + n))
  <2>1. Take(doc, Spot(y, k), Retain(m)) = Spot(y \o l, k + m)
    BY <1>3, TakeRetain
  <2>2. Take(doc, Spot(y \o l, k + m), Retain(n)) = Spot((y \o l) \o r, (k + m) + n)
    BY <1>3, TakeRetain
  <2>3. Take(doc, Spot(y, k), Retain(m + n)) = Spot(y \o Slice(doc, k, m + n), k + (m + n))
    BY TakeRetain
  <2>4. (y \o l) \o r = y \o (l \o r)
    <3>1. PICK V : V = Units(U, doc)
      OBVIOUS
    <3>2. y \in Seq(V) /\ l \in Seq(V) /\ r \in Seq(V)
      BY <1>3, <3>1
    <3>3. QED
      BY <3>2, JoinThree
  <2>5. l \o r = Slice(doc, k, m + n)
    BY <1>3, SlicesJoin
  <2>6. QED
    BY <1>2, <2>1, <2>2, <2>3, <2>4, <2>5, Zenon
<1>5. Take(doc, Take(doc, Spot(y, k), Delete(m)), Delete(n))
        = Take(doc, Spot(y, k), Delete(m + n))
  <2>1. Take(doc, Spot(y, k), Delete(m)) = Spot(y, k + m)
    BY TakeDelete
  <2>2. Take(doc, Spot(y, k + m), Delete(n)) = Spot(y, (k + m) + n)
    BY TakeDelete
  <2>3. Take(doc, Spot(y, k), Delete(m + n)) = Spot(y, k + (m + n))
    BY TakeDelete
  <2>4. QED
    BY <1>2, <2>1, <2>2, <2>3, Zenon
<1>6. Take(doc, Take(doc, Spot(y, k), Insert(t)), Insert(u))
        = Take(doc, Spot(y, k), Insert(t \o u))
  <2>1. Take(doc, Spot(y, k), Insert(t)) = Spot(y \o t, k)
    BY TakeInsert
  <2>2. Take(doc, Spot(y \o t, k), Insert(u)) = Spot((y \o t) \o u, k)
    BY TakeInsert
  <2>3. Take(doc, Spot(y, k), Insert(t \o u)) = Spot(y \o (t \o u), k)
    BY TakeInsert
  <2>4. (y \o t) \o u = y \o (t \o u)
    <3>1. PICK V : V = Units(U, doc)
      OBVIOUS
    <3>2. y \in Seq(V) /\ t \in Seq(V) /\ u \in Seq(V)
      BY <1>1, <3>1
    <3>3. QED
      BY <3>2, JoinThree
  <2>5. QED
    BY <2>1, <2>2, <2>3, <2>4, Zenon
<1>7. Take(doc, Take(doc, Spot(y, k), Delete(n)), Insert(t))
        = Take(doc, Take(doc, Spot(y, k), Insert(t)), Delete(n))
  BY TakeInsert, TakeDelete
<1>8. QED
  BY <1>4, <1>5, <1>6, <1>7

LEMMA TakeType ==
  ASSUME NEW U, NEW doc \in Seq(U), NEW s \in [out : Seq(Units(U, doc)), at : Nat],
         NEW c \in Component(U)
  PROVE  Take(doc, s, c) \in [out : Seq(Units(U, doc)), at : Nat]
<1>1. PICK y \in Seq(Units(U, doc)), k \in Nat : s = Spot(y, k)
  BY DEF Spot
<1>2. \A z \in Seq(Units(U, doc)), i \in Nat : Spot(z, i) \in [out : Seq(Units(U, doc)), at : Nat]
  BY DEF Spot
<1>3. CASE c.kind = "insert"
  <2>1. c = Insert(c.text) /\ c.text \in Seq(Units(U, doc))
    BY <1>3, PartType, UnitsOf
  <2>2. y \o c.text \in Seq(Units(U, doc))
    BY <2>1, ConcatProperties
  <2>3. Take(doc, s, c) = Spot(y \o c.text, k)
    BY <1>1, <2>1, TakeInsert
  <2>4. QED
    BY <1>2, <2>2, <2>3, Zenon
<1>4. CASE c.kind = "retain"
  <2>1. PICK n \in Nat : c = Retain(n)
    BY <1>4, PartType
  <2>2. Slice(doc, k, n) \in Seq(Units(U, doc)) /\ k + n \in Nat
    BY SliceType
  <2>3. y \o Slice(doc, k, n) \in Seq(Units(U, doc))
    BY <2>2, ConcatProperties
  <2>4. Take(doc, s, c) = Spot(y \o Slice(doc, k, n), k + n)
    BY <1>1, <2>1, TakeRetain
  <2>5. QED
    BY <1>2, <2>2, <2>3, <2>4, Zenon
<1>5. CASE c.kind = "delete"
  <2>1. PICK n \in Nat : c = Delete(n)
    BY <1>5, PartType
  <2>2. k + n \in Nat
    OBVIOUS
  <2>3. Take(doc, s, c) = Spot(y, k + n)
    BY <1>1, <2>1, TakeDelete
  <2>4. QED
    BY <1>2, <2>2, <2>3, Zenon
<1>6. QED
  BY <1>3, <1>4, <1>5, PartType

\* The pass over a document, component by component.
LEMMA PassLaws ==
  ASSUME NEW U, NEW doc \in Seq(U), NEW op \in Seq(Component(U))
  PROVE  /\ Pass(doc, <<>>) = [out |-> <<>>, at |-> 0]
         /\ \A c \in Component(U) :
              Pass(doc, Append(op, c)) = Take(doc, Pass(doc, op), c)
<1> DEFINE E == Component(U)
           S == [out : Seq(Units(U, doc)), at : Nat]
           start == [out |-> <<>>, at |-> 0]
           step == [x \in S \X E |-> Take(doc, x[1], x[2])]
           Values(o, s) == s = [i \in 0 .. Len(o) |->
                                  IF i = 0 THEN start ELSE Take(doc, s[i - 1], o[i])]
           F == [o \in Seq(E) |-> Pass(doc, o)]
<1>1. start \in S /\ step \in [S \X E -> S]
  <2>1. ASSUME NEW s \in S, NEW c \in E
        PROVE  Take(doc, s, c) \in S
    BY <2>1, TakeType
  <2>2. start \in S
    BY EmptySeq
  <2> HIDE DEF S, E, start
  <2>3. QED
    BY <2>1, <2>2
<1>2. ASSUME NEW o \in Seq(E)
      PROVE  \E s : Folding(S, start, step, o, s) /\ F[o] = s[Len(o)]
  <2>1. PICK n \in Nat : n = Len(o)
    BY LenProperties
  <2>2. PICK f \in [0 .. n -> S] : Folding(S, start, step, o, f)
    <3> HIDE DEF step, start, S, E
    <3>1. QED
      BY <1>1, <2>1, FoldExists
  <2>3. ASSUME NEW i \in 1 .. n, NEW s, s[i - 1] \in S
        PROVE  step[<<s[i - 1], o[i]>>] = Take(doc, s[i - 1], o[i])
    <3> HIDE DEF S, E
    <3>1. o[i] \in E
      BY <2>1
    <3>2. QED
      BY <2>3, <3>1 DEF step
  <2>4. Values(o, f)
    <3> HIDE DEF S, start, step
    <3>1. ASSUME NEW i \in 0 .. n
          PROVE  f[i] = IF i = 0 THEN start ELSE Take(doc, f[i - 1], o[i])
      <4>1. i # 0 => i - 1 \in 0 .. n /\ i \in 1 .. n
        OBVIOUS
      <4>2. QED
        BY <2>1, <2>2, <2>3, <4>1 DEF Folding
    <3>2. QED
      BY <2>1, <3>1
  <2>5. PICK s : s = (CHOOSE t : Values(o, t))
    OBVIOUS
  <2>6. Values(o, s)
    <3> HIDE DEF Values
    <3>1. QED
      BY <2>4, <2>5
  <2>7. Folding(S, start, step, o, s)
    <3> HIDE DEF S, start, step
    <3>1. s[0] = start
      BY <2>1, <2>6
    <3>2. ASSUME NEW i \in 1 .. n
          PROVE  s[i] = Take(doc, s[i - 1], o[i])
      <4>1. i \in 0 .. n /\ i # 0
        OBVIOUS
      <4>2. QED
        BY <2>1, <2>6, <4>1
    <3>3. QED
      BY <2>1, <2>3, <3>1, <3>2 DEF Folding
  <2>8. F[o] = s[Len(o)]
    BY <2>5 DEF Pass, Through
  <2>9. QED
    BY <2>7, <2>8
<1>3. /\ F[<<>>] = start
      /\ F[op] \in S
      /\ \A c \in E : F[Append(op, c)] = step[<<F[op], c>>]
  <2>1. op \in Seq(E)
    OBVIOUS
  <2> HIDE DEF F, step, start, S, E
  <2>2. FollowsFold(E, S, start, step, F)
    BY <1>1, <1>2, FoldLaw
  <2>3. QED
    BY <2>1, <2>2 DEF FollowsFold
<1>4. ASSUME NEW c \in E
      PROVE  Pass(doc, Append(op, c)) = Take(doc, Pass(doc, op), c)
  <2>1. Append(op, c) \in Seq(E)
    OBVIOUS
  <2> HIDE DEF S, E
  <2>2. F[op] = Pass(doc, op) /\ F[Append(op, c)] = Pass(doc, Append(op, c))
    BY <2>1 DEF E
  <2>3. step[<<F[op], c>>] = Take(doc, F[op], c)
    BY <1>3 DEF step
  <2> HIDE DEF F
  <2>4. QED
    BY <1>3, <2>2, <2>3
<1>5. QED
  BY <1>3, <1>4

\* A document is passed to where the base length says, and as much comes out as
\* the target length says.
PassesAs(U, doc, op, y) ==
  /\ y \in Seq(Units(U, doc)) /\ Pass(doc, op) = Spot(y, opBaseLength(op))
  /\ opBaseLength(op) \in Nat /\ opTargetLength(op) \in Nat
  /\ Len(y) = opTargetLength(op)
Passes(U, doc, op) == \E y : PassesAs(U, doc, op, y)

LEMMA PassType ==
  ASSUME NEW U, NEW doc \in Seq(U), NEW op \in Seq(Component(U))
  PROVE  Passes(U, doc, op)
<1> DEFINE T == {o \in Seq(Component(U)) : Passes(U, doc, o)}
<1>1. <<>> \in T
  <2>1. <<>> \in Seq(Component(U)) /\ <<>> \in Seq(Units(U, doc)) /\ Len(<<>>) = 0
    BY EmptySeq
  <2>2. /\ Pass(doc, <<>>) = [out |-> <<>>, at |-> 0]
        /\ opBaseLength(<<>>) = 0 /\ opTargetLength(<<>>) = 0
    BY <2>1, PassLaws, BaseLaws, TargetLaws
  <2>3. Pass(doc, <<>>) = Spot(<<>>, 0)
    BY <2>2 DEF Spot
  <2>4. PassesAs(U, doc, <<>>, <<>>)
    BY <2>1, <2>2, <2>3 DEF PassesAs
  <2>5. QED
    BY <2>1, <2>4 DEF Passes
<1>2. ASSUME NEW o \in Seq(Component(U)), NEW c \in Component(U), o \in T
      PROVE  Append(o, c) \in T
  <2>1. Append(o, c) \in Seq(Component(U))
    BY AppendProperties
  <2>2. /\ Pass(doc, Append(o, c)) = Take(doc, Pass(doc, o), c)
        /\ opBaseLength(Append(o, c)) = opBaseLength(o) + c.n
        /\ opTargetLength(Append(o, c))
             = opTargetLength(o) + (IF c.kind = "delete" THEN 0 ELSE c.n + Len(c.text))
    BY PassLaws, BaseLaws, TargetLaws
  <2>3. PICK y \in Seq(Units(U, doc)) :
          /\ Pass(doc, o) = Spot(y, opBaseLength(o))
          /\ opBaseLength(o) \in Nat /\ opTargetLength(o) \in Nat
          /\ Len(y) = opTargetLength(o)
    BY <1>2 DEF Passes, PassesAs
  <2>4. PICK k \in Nat, n \in Nat : k = opBaseLength(o) /\ n = c.n
    BY <2>3, PartType
  <2>5. Pass(doc, o) = Spot(y, k) /\ opBaseLength(Append(o, c)) = k + n /\ k + n \in Nat
    BY <2>2, <2>3, <2>4
  <2>6. CASE c.kind = "insert"
    <3>1. n = 0 /\ c = Insert(c.text) /\ c.text \in Seq(Units(U, doc))
      BY <2>4, <2>6, PartType, UnitsOf
    <3>2. Pass(doc, Append(o, c)) = Spot(y \o c.text, k)
      BY <2>2, <2>5, <3>1, TakeInsert
    <3>3. y \o c.text \in Seq(Units(U, doc)) /\ Len(y \o c.text) = Len(y) + Len(c.text)
      BY <3>1, ConcatProperties
    <3>4. Len(y) \in Nat /\ Len(c.text) \in Nat /\ k + n = k
      BY <3>1, LenProperties
    <3>5. opTargetLength(Append(o, c)) = Len(y \o c.text)
      BY <2>2, <2>3, <2>4, <2>6, <3>1, <3>3, <3>4
    <3>6. PassesAs(U, doc, Append(o, c), y \o c.text)
      BY <2>5, <3>2, <3>3, <3>4, <3>5 DEF PassesAs
    <3>7. QED
      BY <2>1, <3>6 DEF Passes
  <2>7. CASE c.kind = "retain"
    <3>1. c = Retain(n) /\ Len(c.text) = 0
      BY <2>4, <2>7, PartType, EmptySeq
    <3>2. Pass(doc, Append(o, c)) = Spot(y \o Slice(doc, k, n), k + n)
      BY <2>2, <2>5, <3>1, TakeRetain
    <3>3. PICK l \in Seq(Units(U, doc)) : l = Slice(doc, k, n) /\ Len(l) = n
      BY SliceType
    <3>4. y \o l \in Seq(Units(U, doc)) /\ Len(y \o l) = Len(y) + Len(l)
      BY ConcatProperties
    <3>5. Len(y \o l) \in Nat /\ Len(y \o l) = opTargetLength(Append(o, c))
      <4>1. opTargetLength(Append(o, c)) = opTargetLength(o) + (n + 0)
        BY <2>2, <2>4, <2>7, <3>1
      <4>2. QED
        BY <2>3, <3>3, <3>4, <4>1
    <3>6. PassesAs(U, doc, Append(o, c), y \o l)
      BY <2>5, <3>2, <3>3, <3>4, <3>5 DEF PassesAs
    <3>7. QED
      BY <2>1, <3>6 DEF Passes
  <2>8. CASE c.kind = "delete"
    <3>1. c = Delete(n)
      BY <2>4, <2>8, PartType
    <3>2. Pass(doc, Append(o, c)) = Spot(y, k + n)
      BY <2>2, <2>5, <3>1, TakeDelete
    <3>3. Len(y) = opTargetLength(Append(o, c))
      BY <2>2, <2>3, <2>8
    <3>4. PassesAs(U, doc, Append(o, c), y)
      BY <2>3, <2>5, <3>2, <3>3 DEF PassesAs
    <3>5. QED
      BY <2>1, <3>4 DEF Passes
  <2>9. QED
    BY <2>6, <2>7, <2>8, PartType
<1>3. QED
  <2> HIDE DEF T
  <2>1. \A o \in Seq(Component(U)) : o \in T
    BY <1>1, <1>2, SeqSetInduction
  <2>2. QED
    BY <2>1 DEF T

----------------------------------------------------------------------------
\* The builder.  What it makes of parts and one more component does what the parts
\* do and then that component, and types what both type.

Extends(U, parts, c, more) ==
  /\ more \in Seq(Component(U)) /\ Inserted(more) = Inserted(parts) \cup Range(c.text)
  /\ \A doc \in Seq(U) : Pass(doc, more) = Take(doc, Pass(doc, parts), c)

LEMMA ExceptLast ==
  ASSUME NEW E, NEW f \in Seq(E), NEW d \in E, NEW e \in E
  PROVE  [Append(f, d) EXCEPT ![Len(Append(f, d))] = e] = Append(f, e)
<1>1. PICK s \in Seq(E), t \in Seq(E) : s = Append(f, d) /\ t = Append(f, e)
  BY AppendProperties
<1>2. /\ Len(f) \in Nat /\ Len(s) = Len(f) + 1 /\ Len(t) = Len(f) + 1 /\ t[Len(f) + 1] = e
      /\ \A i \in 1 .. Len(f) : s[i] = f[i] /\ t[i] = f[i]
  BY <1>1, AppendProperties, LenProperties
<1>3. PICK r \in Seq(E) : r = [s EXCEPT ![Len(s)] = e]
  BY <1>2, ExceptSeq
<1>4. Len(r) = Len(s) /\ \A i \in 1 .. Len(s) : r[i] = IF i = Len(s) THEN e ELSE s[i]
  BY <1>2, <1>3, ExceptSeq
<1>5. Len(r) = Len(t) /\ \A i \in 1 .. Len(r) : r[i] = t[i]
  BY <1>2, <1>4
<1>6. r = t
  BY <1>5, SeqEqual
<1>7. QED
  BY <1>1, <1>3, <1>6

LEMMA ExceptBeforeLast ==
  ASSUME NEW E, NEW f \in Seq(E), NEW d \in E, NEW e \in E, NEW l \in E
  PROVE  /\ Append(Append(f, d), l)[Len(Append(Append(f, d), l)) - 1] = d
         /\ [Append(Append(f, d), l) EXCEPT ![Len(Append(Append(f, d), l)) - 1] = e]
              = Append(Append(f, e), l)
<1>1. PICK fd \in Seq(E), fe \in Seq(E) : fd = Append(f, d) /\ fe = Append(f, e)
  BY AppendProperties
<1>2. /\ Len(f) \in Nat /\ Len(fd) = Len(f) + 1 /\ Len(fe) = Len(f) + 1 /\ fe[Len(f) + 1] = e
      /\ \A i \in 1 .. Len(f) : fd[i] = f[i] /\ fe[i] = f[i]
  BY <1>1, AppendProperties, LenProperties
<1>3. PICK s \in Seq(E), t \in Seq(E) : s = Append(fd, l) /\ t = Append(fe, l)
  BY AppendProperties
<1>4. /\ Len(s) = Len(f) + 2 /\ Len(t) = Len(f) + 2 /\ s[Len(f) + 2] = l /\ t[Len(f) + 2] = l
      /\ \A i \in 1 .. (Len(f) + 1) : s[i] = fd[i] /\ t[i] = fe[i]
  <2>1. /\ Len(s) = Len(fd) + 1 /\ Len(t) = Len(fe) + 1 /\ s[Len(fd) + 1] = l /\ t[Len(fe) + 1] = l
        /\ \A i \in 1 .. Len(fd) : s[i] = fd[i]
        /\ \A i \in 1 .. Len(fe) : t[i] = fe[i]
    BY <1>3, AppendProperties
  <2>2. QED
    BY <1>2, <2>1
<1>5. PICK k \in 1 .. Len(s) : k = Len(s) - 1 /\ k = Len(f) + 1
  BY <1>2, <1>4
<1>6. PICK r \in Seq(E) : r = [s EXCEPT ![k] = e]
  BY ExceptSeq
<1>7. Len(r) = Len(s) /\ \A i \in 1 .. Len(s) : r[i] = IF i = k THEN e ELSE s[i]
  BY <1>6, ExceptSeq
<1>8. Len(r) = Len(t)
  BY <1>4, <1>7
<1>9. ASSUME NEW i \in 1 .. Len(r)
      PROVE  r[i] = t[i]
  <2>1. CASE i = Len(f) + 2
    BY <1>2, <1>4, <1>5, <1>7, <2>1
  <2>2. CASE i = Len(f) + 1
    BY <1>2, <1>4, <1>5, <1>7, <2>2
  <2>3. CASE i \in 1 .. Len(f)
    BY <1>2, <1>4, <1>5, <1>7, <2>3
  <2>4. QED
    BY <1>2, <1>4, <1>7, <2>1, <2>2, <2>3
<1>10. r = t
  BY <1>8, <1>9, SeqEqual
<1>11. s[k] = d
  <2>1. fd[Len(f) + 1] = d
    BY <1>1, AppendProperties
  <2>2. k \in 1 .. (Len(f) + 1) /\ fd[k] = d
    BY <1>2, <1>5, <2>1
  <2>3. QED
    BY <1>4, <2>2
<1>12. QED
  BY <1>1, <1>3, <1>5, <1>6, <1>10, <1>11

LEMMA GrowIs ==
  ASSUME NEW U, NEW f \in Seq(Component(U)), NEW m \in Nat \ {0}, NEW n \in Nat \ {0}
  PROVE  /\ Grow(Append(f, Retain(m)), n) = Append(f, Retain(m + n))
         /\ Grow(Append(f, Delete(m)), n) = Append(f, Delete(m + n))
<1>1. ASSUME NEW c \in Component(U), NEW d \in Component(U), d = [c EXCEPT !.n = @ + n]
      PROVE  Grow(Append(f, c), n) = Append(f, d)
  <2>1. PICK s \in Seq(Component(U)) : s = Append(f, c)
    BY AppendProperties
  <2>2. s[Len(s)] = c
    BY <2>1, AppendProperties
  <2>3. [s EXCEPT ![Len(s)].n = @ + n] = [s EXCEPT ![Len(s)] = d]
    BY <1>1, <2>2
  <2>4. [s EXCEPT ![Len(s)] = d] = Append(f, d)
    BY <2>1, ExceptLast
  <2>5. QED
    BY <2>1, <2>3, <2>4 DEF Grow
<1>2. m + n \in Nat \ {0}
  OBVIOUS
<1>3. /\ Retain(m) \in Component(U) /\ Retain(m + n) \in Component(U)
      /\ Delete(m) \in Component(U) /\ Delete(m + n) \in Component(U)
  BY <1>2, PartsAre
<1>4. /\ Retain(m + n) = [Retain(m) EXCEPT !.n = @ + n]
      /\ Delete(m + n) = [Delete(m) EXCEPT !.n = @ + n]
  BY DEF Retain, Delete
<1>5. QED
  BY <1>1, <1>3, <1>4

LEMMA PassAppend ==
  ASSUME NEW U, NEW doc \in Seq(U), NEW op \in Seq(Component(U)), NEW c \in Component(U)
  PROVE  Pass(doc, Append(op, c)) = Take(doc, Pass(doc, op), c)
BY PassLaws

LEMMA AppendExtends ==
  ASSUME NEW U, NEW parts \in Seq(Component(U)), NEW c \in Component(U)
  PROVE  Extends(U, parts, c, Append(parts, c))
BY PassAppend, AppendProperties, InsertedMore DEF Extends

LEMMA PassSpot ==
  ASSUME NEW U, NEW doc \in Seq(U), NEW op \in Seq(Component(U))
  PROVE  \E y \in Seq(Units(U, doc)), k \in Nat : Pass(doc, op) = Spot(y, k)
BY PassType DEF Passes, PassesAs

LEMMA RetainExtends ==
  ASSUME NEW U, NEW parts \in Seq(Component(U)), NEW n \in Nat \ {0}
  PROVE  Extends(U, parts, Retain(n), AddRetain(parts, n))
<1>1. Retain(n) \in Component(U) /\ ~(n <= 0)
  BY PartsAre
<1>2. CASE IsKind(parts, "retain")
  <2>1. /\ parts # <<>> /\ Last(parts).kind = "retain"
        /\ Front(parts) \in Seq(Component(U)) /\ Last(parts) \in Component(U)
        /\ parts = Append(Front(parts), Last(parts))
    BY <1>2, FrontLast DEF IsKind
  <2>2. PICK f \in Seq(Component(U)), m \in Nat \ {0} : parts = Append(f, Retain(m))
    BY <2>1, PartType
  <2>3. AddRetain(parts, n) = Append(f, Retain(m + n))
    BY <1>1, <1>2, <2>2, GrowIs DEF AddRetain
  <2>4. Retain(m) \in Component(U) /\ Retain(m + n) \in Component(U)
    BY PartsAre
  <2>5. ASSUME NEW doc \in Seq(U)
        PROVE  Pass(doc, Append(f, Retain(m + n))) = Take(doc, Pass(doc, parts), Retain(n))
    <3>1. PICK y \in Seq(Units(U, doc)), k \in Nat : Pass(doc, f) = Spot(y, k)
      BY PassSpot
    <3>2. Pass(doc, parts) = Take(doc, Spot(y, k), Retain(m))
      BY <2>2, <2>4, <3>1, PassAppend
    <3>3. Pass(doc, Append(f, Retain(m + n))) = Take(doc, Spot(y, k), Retain(m + n))
      BY <2>4, <3>1, PassAppend
    <3>4. <<>> \in Seq(U)
      BY EmptySeq
    <3>5. Take(doc, Take(doc, Spot(y, k), Retain(m)), Retain(n))
            = Take(doc, Spot(y, k), Retain(m + n))
      BY <3>4, TakeTwice
    <3>6. QED
      BY <3>2, <3>3, <3>5
  <2>6. Append(f, Retain(m + n)) \in Seq(Component(U))
    BY <2>4, AppendProperties
  <2>7. Inserted(Append(f, Retain(m + n))) = Inserted(parts) \cup Range(Retain(n).text)
    <3>1. /\ Retain(m).text = <<>> /\ Retain(n).text = <<>> /\ Retain(m + n).text = <<>>
      BY DEF Retain
    <3>2. /\ Inserted(Append(f, Retain(m))) = Inserted(f) \cup Range(Retain(m).text)
          /\ Inserted(Append(f, Retain(m + n))) = Inserted(f) \cup Range(Retain(m + n).text)
      BY <2>4, InsertedMore
    <3>3. QED
      BY <2>2, <3>1, <3>2, RangeNone
  <2>8. QED
    BY <2>3, <2>5, <2>6, <2>7 DEF Extends
<1>3. CASE ~IsKind(parts, "retain")
  BY <1>1, <1>3, AppendExtends DEF AddRetain
<1>4. QED
  BY <1>2, <1>3

LEMMA DeleteExtends ==
  ASSUME NEW U, NEW parts \in Seq(Component(U)), NEW n \in Nat \ {0}
  PROVE  Extends(U, parts, Delete(n), AddDelete(parts, n))
<1>1. Delete(n) \in Component(U) /\ ~(n <= 0)
  BY PartsAre
<1>2. CASE IsKind(parts, "delete")
  <2>1. /\ parts # <<>> /\ Last(parts).kind = "delete"
        /\ Front(parts) \in Seq(Component(U)) /\ Last(parts) \in Component(U)
        /\ parts = Append(Front(parts), Last(parts))
    BY <1>2, FrontLast DEF IsKind
  <2>2. PICK f \in Seq(Component(U)), m \in Nat \ {0} : parts = Append(f, Delete(m))
    BY <2>1, PartType
  <2>3. AddDelete(parts, n) = Append(f, Delete(m + n))
    BY <1>1, <1>2, <2>2, GrowIs DEF AddDelete
  <2>4. Delete(m) \in Component(U) /\ Delete(m + n) \in Component(U)
    BY PartsAre
  <2>5. ASSUME NEW doc \in Seq(U)
        PROVE  Pass(doc, Append(f, Delete(m + n))) = Take(doc, Pass(doc, parts), Delete(n))
    <3>1. PICK y \in Seq(Units(U, doc)), k \in Nat : Pass(doc, f) = Spot(y, k)
      BY PassSpot
    <3>2. Pass(doc, parts) = Take(doc, Spot(y, k), Delete(m))
      BY <2>2, <2>4, <3>1, PassAppend
    <3>3. Pass(doc, Append(f, Delete(m + n))) = Take(doc, Spot(y, k), Delete(m + n))
      BY <2>4, <3>1, PassAppend
    <3>4. <<>> \in Seq(U)
      BY EmptySeq
    <3>5. Take(doc, Take(doc, Spot(y, k), Delete(m)), Delete(n))
            = Take(doc, Spot(y, k), Delete(m + n))
      BY <3>4, TakeTwice
    <3>6. QED
      BY <3>2, <3>3, <3>5
  <2>6. Append(f, Delete(m + n)) \in Seq(Component(U))
    BY <2>4, AppendProperties
  <2>7. Inserted(Append(f, Delete(m + n))) = Inserted(parts) \cup Range(Delete(n).text)
    <3>1. /\ Delete(m).text = <<>> /\ Delete(n).text = <<>> /\ Delete(m + n).text = <<>>
      BY DEF Delete
    <3>2. /\ Inserted(Append(f, Delete(m))) = Inserted(f) \cup Range(Delete(m).text)
          /\ Inserted(Append(f, Delete(m + n))) = Inserted(f) \cup Range(Delete(m + n).text)
      BY <2>4, InsertedMore
    <3>3. QED
      BY <2>2, <3>1, <3>2, RangeNone
  <2>8. QED
    BY <2>3, <2>5, <2>6, <2>7 DEF Extends
<1>3. CASE ~IsKind(parts, "delete")
  BY <1>1, <1>3, AppendExtends DEF AddDelete
<1>4. QED
  BY <1>2, <1>3

\* An insert joined to the insert before it.
LEMMA JoinedInsert ==
  ASSUME NEW U, NEW f \in Seq(Component(U)), NEW t \in Seq(U), NEW u \in Seq(U),
         t # <<>>, u # <<>>
  PROVE  /\ Extends(U, Append(f, Insert(t)), Insert(u), Append(f, Insert(t \o u)))
         /\ Insert(t \o u) \in Component(U)
<1>1. t \o u \in Seq(U) /\ t \o u # <<>>
  BY ConcatProperties, ConcatEqualIffEmpty
<1>2. /\ Insert(t) \in Component(U) /\ Insert(t \o u) \in Component(U)
      /\ Append(f, Insert(t \o u)) \in Seq(Component(U))
  BY <1>1, PartsAre, AppendProperties
<1>3. ASSUME NEW doc \in Seq(U)
      PROVE  Pass(doc, Append(f, Insert(t \o u)))
               = Take(doc, Pass(doc, Append(f, Insert(t))), Insert(u))
  <2>1. PICK y \in Seq(Units(U, doc)), k \in Nat : Pass(doc, f) = Spot(y, k)
    BY PassSpot
  <2>2. /\ Pass(doc, Append(f, Insert(t))) = Take(doc, Spot(y, k), Insert(t))
        /\ Pass(doc, Append(f, Insert(t \o u))) = Take(doc, Spot(y, k), Insert(t \o u))
    BY <1>2, <2>1, PassAppend
  <2>3. Take(doc, Take(doc, Spot(y, k), Insert(t)), Insert(u))
          = Take(doc, Spot(y, k), Insert(t \o u))
    BY TakeTwice
  <2>4. QED
    BY <2>2, <2>3
<1>4. Inserted(Append(f, Insert(t \o u)))
        = Inserted(Append(f, Insert(t))) \cup Range(Insert(u).text)
  <2>1. /\ Insert(t).text = t /\ Insert(u).text = u /\ Insert(t \o u).text = t \o u
    BY DEF Insert
  <2>2. /\ Inserted(Append(f, Insert(t))) = Inserted(f) \cup Range(Insert(t).text)
        /\ Inserted(Append(f, Insert(t \o u))) = Inserted(f) \cup Range(Insert(t \o u).text)
    BY <1>2, InsertedMore
  <2>3. QED
    BY <2>1, <2>2, RangeConcatenation
<1>5. QED
  BY <1>2, <1>3, <1>4 DEF Extends

\* An insert put in front of a delete.
LEMMA InsertBeforeDelete ==
  ASSUME NEW U, NEW f \in Seq(Component(U)), NEW g, NEW n \in Nat \ {0}, NEW t \in Seq(U),
         t # <<>>, Extends(U, f, Insert(t), g)
  PROVE  Extends(U, Append(f, Delete(n)), Insert(t), Append(g, Delete(n)))
<1>1. g \in Seq(Component(U)) /\ Delete(n) \in Component(U)
  BY PartsAre DEF Extends
<1>2. Append(g, Delete(n)) \in Seq(Component(U))
  BY <1>1, AppendProperties
<1>3. ASSUME NEW doc \in Seq(U)
      PROVE  Pass(doc, Append(g, Delete(n)))
               = Take(doc, Pass(doc, Append(f, Delete(n))), Insert(t))
  <2>1. PICK y \in Seq(Units(U, doc)), k \in Nat : Pass(doc, f) = Spot(y, k)
    BY PassSpot
  <2>2. Pass(doc, Append(f, Delete(n))) = Take(doc, Spot(y, k), Delete(n))
    BY <1>1, <2>1, PassAppend
  <2>3. Pass(doc, g) = Take(doc, Spot(y, k), Insert(t))
    BY <2>1 DEF Extends
  <2>4. Pass(doc, Append(g, Delete(n))) = Take(doc, Take(doc, Spot(y, k), Insert(t)), Delete(n))
    BY <1>1, <2>3, PassAppend
  <2>5. Take(doc, Take(doc, Spot(y, k), Delete(n)), Insert(t))
          = Take(doc, Take(doc, Spot(y, k), Insert(t)), Delete(n))
    BY TakeTwice
  <2>6. QED
    BY <2>2, <2>4, <2>5
<1>4. Inserted(Append(g, Delete(n))) = Inserted(Append(f, Delete(n))) \cup Range(Insert(t).text)
  <2>1. /\ Inserted(Append(g, Delete(n))) = Inserted(g) \cup Range(Delete(n).text)
        /\ Inserted(Append(f, Delete(n))) = Inserted(f) \cup Range(Delete(n).text)
    BY <1>1, InsertedMore
  <2>2. Inserted(g) = Inserted(f) \cup Range(Insert(t).text)
    BY DEF Extends
  <2>3. QED
    BY <2>1, <2>2
<1>5. QED
  BY <1>2, <1>3, <1>4 DEF Extends

LEMMA LongerInsert ==
  ASSUME NEW t, NEW u
  PROVE  Insert(t).text = t /\ [Insert(t) EXCEPT !.text = u] = Insert(u)
BY DEF Insert

LEMMA InsertExtends ==
  ASSUME NEW U, NEW parts \in Seq(Component(U)), NEW t \in Seq(U), t # <<>>
  PROVE  Extends(U, parts, Insert(t), AddInsert(parts, t))
<1> DEFINE E == Component(U)
<1>1. Insert(t) \in E
  BY PartsAre
<1>2. ASSUME NEW p \in Seq(E), IsKind(p, "insert")
      PROVE  \E f \in Seq(E), u \in Seq(U) : u # <<>> /\ p = Append(f, Insert(u))
  <2>1. /\ p # <<>> /\ Last(p).kind = "insert" /\ Front(p) \in Seq(E) /\ Last(p) \in E
        /\ p = Append(Front(p), Last(p))
    BY <1>2, FrontLast DEF IsKind
  <2>2. QED
    BY <2>1, PartType
<1>3. CASE IsKind(parts, "delete")
  <2>1. /\ parts # <<>> /\ Last(parts).kind = "delete"
        /\ Front(parts) \in Seq(E) /\ Last(parts) \in E
        /\ parts = Append(Front(parts), Last(parts))
    BY <1>3, FrontLast DEF IsKind
  <2>2. PICK g \in Seq(E), n \in Nat \ {0} :
          g = Front(parts) /\ Last(parts) = Delete(n) /\ parts = Append(g, Delete(n))
    BY <2>1, PartType
  <2>3. Delete(n) \in E
    BY PartsAre
  <2>4. CASE IsKind(g, "insert")
    <3>1. PICK f \in Seq(E), u \in Seq(U) : u # <<>> /\ g = Append(f, Insert(u))
      BY <1>2, <2>4
    <3>2. Insert(u) \in E /\ Insert(u \o t) \in E
      BY <3>1, PartsAre, JoinedInsert
    <3>3. Extends(U, g, Insert(t), Append(f, Insert(u \o t)))
      BY <3>1, JoinedInsert
    <3>4. Extends(U, parts, Insert(t), Append(Append(f, Insert(u \o t)), Delete(n)))
      BY <2>2, <3>3, InsertBeforeDelete
    <3>5. AddInsert(parts, t) = [parts EXCEPT ![Len(parts) - 1].text = @ \o t]
      BY <1>3, <2>2, <2>4 DEF AddInsert
    <3>6. parts[Len(parts) - 1] = Insert(u)
      BY <2>2, <2>3, <3>1, <3>2, ExceptBeforeLast
    <3>7. [Insert(u) EXCEPT !.text = @ \o t] = Insert(u \o t)
      BY LongerInsert
    <3>8. AddInsert(parts, t) = [parts EXCEPT ![Len(parts) - 1] = Insert(u \o t)]
      BY <3>5, <3>6, <3>7
    <3>9. [parts EXCEPT ![Len(parts) - 1] = Insert(u \o t)]
            = Append(Append(f, Insert(u \o t)), Delete(n))
      BY <2>2, <2>3, <3>1, <3>2, ExceptBeforeLast
    <3>10. QED
      BY <3>4, <3>8, <3>9
  <2>5. CASE ~IsKind(g, "insert")
    <3>1. AddInsert(parts, t) = Append(Append(g, Insert(t)), Delete(n))
      BY <1>3, <2>2, <2>5 DEF AddInsert
    <3>2. Extends(U, g, Insert(t), Append(g, Insert(t)))
      BY <1>1, AppendExtends
    <3>3. QED
      BY <2>2, <3>1, <3>2, InsertBeforeDelete
  <2>6. QED
    BY <2>4, <2>5
<1>4. CASE ~IsKind(parts, "delete") /\ IsKind(parts, "insert")
  <2>1. PICK f \in Seq(E), u \in Seq(U) : u # <<>> /\ parts = Append(f, Insert(u))
    BY <1>2, <1>4
  <2>2. Insert(u) \in E /\ Insert(u \o t) \in E
    BY <2>1, PartsAre, JoinedInsert
  <2>3. AddInsert(parts, t) = [parts EXCEPT ![Len(parts)].text = @ \o t]
    BY <1>4 DEF AddInsert
  <2>4. parts[Len(parts)] = Insert(u)
    BY <2>1, <2>2, AppendProperties
  <2>5. [Insert(u) EXCEPT !.text = @ \o t] = Insert(u \o t)
    BY LongerInsert
  <2>6. AddInsert(parts, t) = [parts EXCEPT ![Len(parts)] = Insert(u \o t)]
    BY <2>3, <2>4, <2>5
  <2>7. [parts EXCEPT ![Len(parts)] = Insert(u \o t)] = Append(f, Insert(u \o t))
    BY <2>1, <2>2, ExceptLast
  <2>8. Extends(U, Append(f, Insert(u)), Insert(t), Append(f, Insert(u \o t)))
    BY <2>1, JoinedInsert
  <2>9. QED
    BY <2>1, <2>6, <2>7, <2>8, Zenon
<1>5. CASE ~IsKind(parts, "delete") /\ ~IsKind(parts, "insert")
  BY <1>1, <1>5, AppendExtends DEF AddInsert
<1>6. QED
  BY <1>3, <1>4, <1>5

\* What is typed, with a part more.
LEMMA RetainInserts ==
  ASSUME NEW U, NEW parts \in Seq(Component(U)), NEW n \in Nat
  PROVE  Inserted(AddRetain(parts, n)) = Inserted(parts)
<1>1. CASE n = 0
  BY <1>1 DEF AddRetain
<1>2. CASE n # 0
  <2>1. Extends(U, parts, Retain(n), AddRetain(parts, n)) /\ Retain(n).text = <<>>
    BY <1>2, RetainExtends DEF Retain
  <2>2. QED
    BY <2>1, RangeNone DEF Extends
<1>3. QED
  BY <1>1, <1>2

LEMMA DeleteInserts ==
  ASSUME NEW U, NEW parts \in Seq(Component(U)), NEW n \in Nat
  PROVE  Inserted(AddDelete(parts, n)) = Inserted(parts)
<1>1. CASE n = 0
  BY <1>1 DEF AddDelete
<1>2. CASE n # 0
  <2>1. Extends(U, parts, Delete(n), AddDelete(parts, n)) /\ Delete(n).text = <<>>
    BY <1>2, DeleteExtends DEF Delete
  <2>2. QED
    BY <2>1, RangeNone DEF Extends
<1>3. QED
  BY <1>1, <1>2

LEMMA InsertInserts ==
  ASSUME NEW U, NEW parts \in Seq(Component(U)), NEW t \in Seq(U)
  PROVE  Inserted(AddInsert(parts, t)) = Inserted(parts) \cup Range(t)
<1>1. CASE t = <<>>
  BY <1>1, RangeNone DEF AddInsert
<1>2. CASE t # <<>>
  <2>1. Extends(U, parts, Insert(t), AddInsert(parts, t)) /\ Insert(t).text = t
    BY <1>2, InsertExtends DEF Insert
  <2>2. QED
    BY <2>1 DEF Extends
<1>3. QED
  BY <1>1, <1>2

LEMMA AddExtends ==
  ASSUME NEW U, NEW parts \in Seq(Component(U)), NEW c \in Component(U)
  PROVE  Extends(U, parts, c, AddPart(parts, c))
<1>1. CASE c.kind = "retain"
  <2>1. PICK n \in Nat \ {0} : n = c.n /\ c = Retain(n)
    BY <1>1, PartType
  <2>2. AddPart(parts, c) = AddRetain(parts, n)
    BY <1>1, <2>1 DEF AddPart
  <2>3. QED
    BY <2>1, <2>2, RetainExtends
<1>2. CASE c.kind = "delete"
  <2>1. PICK n \in Nat \ {0} : n = c.n /\ c = Delete(n)
    BY <1>2, PartType
  <2>2. AddPart(parts, c) = AddDelete(parts, n)
    BY <1>2, <2>1 DEF AddPart
  <2>3. QED
    BY <2>1, <2>2, DeleteExtends
<1>3. CASE c.kind = "insert"
  <2>1. PICK t \in Seq(U) : t = c.text /\ t # <<>> /\ c = Insert(t)
    BY <1>3, PartType
  <2>2. AddPart(parts, c) = AddInsert(parts, t)
    BY <1>3, <2>1 DEF AddPart
  <2>3. QED
    BY <2>1, <2>2, InsertExtends
<1>4. QED
  BY <1>1, <1>2, <1>3, PartType

\* What the builder makes of an operation, component by component.
LEMMA RebuildLaws ==
  ASSUME NEW U, NEW op \in Seq(Component(U))
  PROVE  /\ Rebuild(<<>>) = <<>>
         /\ \A c \in Component(U) :
              Rebuild(Append(op, c)) = AddPart(Rebuild(op), c)
<1> DEFINE E == Component(U)
           S == Seq(Component(U))
           start == <<>>
           step == [x \in S \X E |-> AddPart(x[1], x[2])]
           Values(o, s) == s = [i \in 0 .. Len(o) |->
                                  IF i = 0 THEN start ELSE AddPart(s[i - 1], o[i])]
           F == [o \in Seq(E) |-> Rebuild(o)]
<1>1. start \in S /\ step \in [S \X E -> S]
  <2>1. ASSUME NEW s \in S, NEW c \in E
        PROVE  AddPart(s, c) \in S
    BY <2>1, AddExtends DEF Extends
  <2>2. start \in S
    BY EmptySeq
  <2> HIDE DEF S, E, start
  <2>3. QED
    BY <2>1, <2>2
<1>2. ASSUME NEW o \in Seq(E)
      PROVE  \E s : Folding(S, start, step, o, s) /\ F[o] = s[Len(o)]
  <2>1. PICK n \in Nat : n = Len(o)
    BY LenProperties
  <2>2. PICK f \in [0 .. n -> S] : Folding(S, start, step, o, f)
    <3> HIDE DEF step, start, S, E
    <3>1. QED
      BY <1>1, <2>1, FoldExists
  <2>3. ASSUME NEW i \in 1 .. n, NEW s, s[i - 1] \in S
        PROVE  step[<<s[i - 1], o[i]>>] = AddPart(s[i - 1], o[i])
    <3> HIDE DEF S, E
    <3>1. o[i] \in E
      BY <2>1
    <3>2. QED
      BY <2>3, <3>1 DEF step
  <2>4. Values(o, f)
    <3> HIDE DEF S, start, step
    <3>1. ASSUME NEW i \in 0 .. n
          PROVE  f[i] = IF i = 0 THEN start ELSE AddPart(f[i - 1], o[i])
      <4>1. i # 0 => i - 1 \in 0 .. n /\ i \in 1 .. n
        OBVIOUS
      <4>2. QED
        BY <2>1, <2>2, <2>3, <4>1 DEF Folding
    <3>2. QED
      BY <2>1, <3>1
  <2>5. PICK s : s = (CHOOSE t : Values(o, t))
    OBVIOUS
  <2>6. Values(o, s)
    <3> HIDE DEF Values
    <3>1. QED
      BY <2>4, <2>5
  <2>7. Folding(S, start, step, o, s)
    <3> HIDE DEF S, start, step
    <3>1. s[0] = start
      BY <2>1, <2>6
    <3>2. ASSUME NEW i \in 1 .. n
          PROVE  s[i] = AddPart(s[i - 1], o[i])
      <4>1. i \in 0 .. n /\ i # 0
        OBVIOUS
      <4>2. QED
        BY <2>1, <2>6, <4>1
    <3>3. QED
      BY <2>1, <2>3, <3>1, <3>2 DEF Folding
  <2>8. F[o] = s[Len(o)]
    BY <2>5 DEF Rebuild, Through
  <2>9. QED
    BY <2>7, <2>8
<1>3. /\ F[<<>>] = start
      /\ F[op] \in S
      /\ \A c \in E : F[Append(op, c)] = step[<<F[op], c>>]
  <2>1. op \in Seq(E)
    OBVIOUS
  <2> HIDE DEF F, step, start, S, E
  <2>2. FollowsFold(E, S, start, step, F)
    BY <1>1, <1>2, FoldLaw
  <2>3. QED
    BY <2>1, <2>2 DEF FollowsFold
<1>4. ASSUME NEW c \in E
      PROVE  Rebuild(Append(op, c)) = AddPart(Rebuild(op), c)
  <2>1. Append(op, c) \in Seq(E)
    OBVIOUS
  <2> HIDE DEF S, E
  <2>2. F[op] = Rebuild(op) /\ F[Append(op, c)] = Rebuild(Append(op, c))
    BY <2>1 DEF E
  <2>3. step[<<F[op], c>>] = AddPart(F[op], c)
    BY <1>3 DEF step
  <2> HIDE DEF F
  <2>4. QED
    BY <1>3, <2>2, <2>3
<1>5. QED
  BY <1>3, <1>4

\* Operations with the same effect on every document.
Same(U, p, q) ==
  /\ p \in Seq(Component(U)) /\ q \in Seq(Component(U)) /\ Inserted(p) = Inserted(q)
  /\ \A doc \in Seq(U) : Pass(doc, p) = Pass(doc, q)

\* An operation that was rebuilt has the effect it had.
LEMMA RebuildSame ==
  ASSUME NEW U, NEW op \in Seq(Component(U))
  PROVE  Same(U, Rebuild(op), op)
<1> DEFINE E == Component(U)
           T == {o \in Seq(E) : Same(U, Rebuild(o), o)}
<1>1. <<>> \in T
  <2>1. <<>> \in Seq(E) /\ Rebuild(<<>>) = <<>>
    BY EmptySeq, RebuildLaws
  <2>2. QED
    BY <2>1 DEF Same
<1>2. ASSUME NEW o \in Seq(E), NEW c \in E, o \in T
      PROVE  Append(o, c) \in T
  <2>1. Rebuild(Append(o, c)) = AddPart(Rebuild(o), c) /\ Append(o, c) \in Seq(E)
    BY RebuildLaws, AppendProperties
  <2>2. Rebuild(o) \in Seq(E) /\ \A doc \in Seq(U) : Pass(doc, Rebuild(o)) = Pass(doc, o)
    BY <1>2 DEF Same
  <2>3. Extends(U, Rebuild(o), c, AddPart(Rebuild(o), c))
    BY <2>2, AddExtends
  <2>4. ASSUME NEW doc \in Seq(U)
        PROVE  Pass(doc, AddPart(Rebuild(o), c)) = Pass(doc, Append(o, c))
    <3>1. Pass(doc, AddPart(Rebuild(o), c)) = Take(doc, Pass(doc, Rebuild(o)), c)
      BY <2>3 DEF Extends
    <3>2. Pass(doc, Append(o, c)) = Take(doc, Pass(doc, o), c)
      BY PassAppend
    <3>3. QED
      BY <2>2, <3>1, <3>2
  <2>5. Inserted(AddPart(Rebuild(o), c)) = Inserted(Append(o, c))
    <3>1. Inserted(AddPart(Rebuild(o), c)) = Inserted(Rebuild(o)) \cup Range(c.text)
      BY <2>3 DEF Extends
    <3>2. Inserted(Rebuild(o)) = Inserted(o)
      BY <1>2 DEF Same
    <3>3. QED
      BY <3>1, <3>2, InsertedMore
  <2>6. QED
    BY <2>1, <2>3, <2>4, <2>5 DEF Same, Extends
<1>3. QED
  <2> HIDE DEF T
  <2>1. \A o \in Seq(E) : o \in T
    BY <1>1, <1>2, SeqSetInduction
  <2>2. QED
    BY <2>1 DEF T

LEMMA BehindAppend ==
  ASSUME NEW E, NEW s \in Seq(E), NEW t \in Seq(E), NEW e \in E
  PROVE  s \o Append(t, e) = Append(s \o t, e) /\ s \o t \in Seq(E)
<1>1. <<e>> \in Seq(E) /\ s \o t \in Seq(E)
  BY ConcatProperties
<1>2. Append(t, e) = t \o <<e>> /\ Append(s \o t, e) = (s \o t) \o <<e>>
  BY <1>1, AppendIsConcat
<1>3. (s \o t) \o <<e>> = s \o (t \o <<e>>)
  BY <1>1, ConcatAssociative
<1>4. QED
  BY <1>1, <1>2, <1>3

\* What has the same effect has it with more behind it.
LEMMA SameBehind ==
  ASSUME NEW U, NEW p, NEW q, Same(U, p, q), NEW rest \in Seq(Component(U))
  PROVE  Same(U, p \o rest, q \o rest)
<1> DEFINE E == Component(U)
           T == {r \in Seq(E) : Same(U, p \o r, q \o r)}
<1>1. p \in Seq(E) /\ q \in Seq(E)
  BY DEF Same
<1>2. <<>> \in T
  <2>1. p \o <<>> = p /\ q \o <<>> = q /\ <<>> \in Seq(E)
    BY <1>1, ConcatEmptySeq, EmptySeq
  <2>2. QED
    BY <2>1
<1>3. ASSUME NEW r \in Seq(E), NEW c \in E, r \in T
      PROVE  Append(r, c) \in T
  <2>1. PICK pr \in Seq(E), qr \in Seq(E) : pr = p \o r /\ qr = q \o r
    BY <1>1, ConcatProperties
  <2>2. /\ p \o Append(r, c) = Append(pr, c) /\ q \o Append(r, c) = Append(qr, c)
        /\ Append(r, c) \in Seq(E) /\ Append(pr, c) \in Seq(E) /\ Append(qr, c) \in Seq(E)
    <3> HIDE DEF E, T
    <3>1. Append(r, c) \in Seq(E) /\ Append(pr, c) \in Seq(E) /\ Append(qr, c) \in Seq(E)
      BY AppendProperties
    <3>2. p \o Append(r, c) = Append(p \o r, c)
      BY <1>1, BehindAppend
    <3>3. q \o Append(r, c) = Append(q \o r, c)
      BY <1>1, BehindAppend
    <3>4. QED
      BY <2>1, <3>1, <3>2, <3>3
  <2>3. \A doc \in Seq(U) : Pass(doc, pr) = Pass(doc, qr)
    BY <1>3, <2>1 DEF Same
  <2>4. ASSUME NEW doc \in Seq(U)
        PROVE  Pass(doc, Append(pr, c)) = Pass(doc, Append(qr, c))
    BY <2>3, PassAppend
  <2>5. Inserted(Append(pr, c)) = Inserted(Append(qr, c))
    <3>1. Inserted(pr) = Inserted(qr)
      BY <1>3, <2>1 DEF Same
    <3>2. /\ Inserted(Append(pr, c)) = Inserted(pr) \cup Range(c.text)
          /\ Inserted(Append(qr, c)) = Inserted(qr) \cup Range(c.text)
      <4> HIDE DEF T
      <4>1. QED
        BY InsertedMore
    <3>3. QED
      BY <3>1, <3>2
  <2>6. Same(U, Append(pr, c), Append(qr, c))
    BY <2>2, <2>4, <2>5 DEF Same
  <2>7. QED
    BY <2>2, <2>6
<1>4. QED
  <2> HIDE DEF T
  <2>1. \A r \in Seq(E) : r \in T
    BY <1>2, <1>3, SeqSetInduction
  <2>2. QED
    BY <2>1 DEF T

LEMMA SameBase ==
  ASSUME NEW U, NEW p, NEW q, Same(U, p, q)
  PROVE  opBaseLength(p) = opBaseLength(q) /\ opTargetLength(p) = opTargetLength(q)
<1>1. <<>> \in Seq(U) /\ p \in Seq(Component(U)) /\ q \in Seq(Component(U))
  BY EmptySeq DEF Same
<1>2. PICK y, z : PassesAs(U, <<>>, p, y) /\ PassesAs(U, <<>>, q, z)
  BY <1>1, PassType DEF Passes
<1>3. Spot(y, opBaseLength(p)) = Spot(z, opBaseLength(q))
  BY <1>1, <1>2 DEF Same, PassesAs
<1>4. y = z /\ opBaseLength(p) = opBaseLength(q)
  BY <1>3 DEF Spot
<1>5. QED
  BY <1>2, <1>4 DEF PassesAs

LEMMA BaseJoin ==
  ASSUME NEW U, NEW p \in Seq(Component(U)), NEW q \in Seq(Component(U))
  PROVE  /\ opBaseLength(p \o q) = opBaseLength(p) + opBaseLength(q)
         /\ opBaseLength(p) \in Nat /\ opBaseLength(q) \in Nat
<1> DEFINE E == Component(U)
           T == {r \in Seq(E) : opBaseLength(p \o r) = opBaseLength(p) + opBaseLength(r)}
<1>1. ASSUME NEW r \in Seq(E)
      PROVE  opBaseLength(r) \in Nat
  <2>1. <<>> \in Seq(U)
    BY EmptySeq
  <2>2. QED
    BY <2>1, PassType DEF Passes, PassesAs
<1>2. <<>> \in T
  <2>1. p \o <<>> = p /\ <<>> \in Seq(E) /\ opBaseLength(<<>>) = 0
    BY ConcatEmptySeq, EmptySeq, BaseLaws
  <2>2. QED
    BY <1>1, <2>1
<1>3. ASSUME NEW r \in Seq(E), NEW c \in E, r \in T
      PROVE  Append(r, c) \in T
  <2>1. PICK pr \in Seq(E) : pr = p \o r /\ p \o Append(r, c) = Append(pr, c)
    <3>1. p \o Append(r, c) = Append(p \o r, c) /\ p \o r \in Seq(E)
      BY BehindAppend
    <3>2. QED
      BY <3>1
  <2>2. /\ opBaseLength(Append(pr, c)) = opBaseLength(pr) + c.n
        /\ opBaseLength(Append(r, c)) = opBaseLength(r) + c.n
    BY BaseLaws
  <2>3. c.n \in Nat /\ opBaseLength(p) \in Nat /\ opBaseLength(r) \in Nat
    BY <1>1, PartType
  <2>4. opBaseLength(pr) = opBaseLength(p) + opBaseLength(r) /\ Append(r, c) \in Seq(E)
    BY <1>3, <2>1, AppendProperties
  <2>5. opBaseLength(p \o Append(r, c)) = opBaseLength(p) + opBaseLength(Append(r, c))
    <3> HIDE DEF T
    <3>1. QED
      BY <2>1, <2>2, <2>3, <2>4
  <2>6. QED
    BY <2>4, <2>5
<1>4. opBaseLength(p \o q) = opBaseLength(p) + opBaseLength(q)
  <2> HIDE DEF T
  <2>1. \A r \in Seq(E) : r \in T
    BY <1>2, <1>3, SeqSetInduction
  <2>2. QED
    BY <2>1 DEF T
<1>5. QED
  BY <1>1, <1>4

----------------------------------------------------------------------------
\* An operation runs over x and makes y of it, whatever is behind.

Runs(U, op, x, y) ==
  /\ op \in Seq(Component(U)) /\ x \in Seq(U) /\ y \in Seq(U)
  /\ \A e \in Seq(U) : Pass(x \o e, op) = Spot(y, Len(x))

\* A component makes o of p.
Moves(U, c, p, o) ==
  /\ p \in Seq(U) /\ o \in Seq(U)
  /\ \/ c = Insert(o) /\ p = <<>>
     \/ c = Retain(Len(p)) /\ o = p
     \/ c = Delete(Len(p)) /\ o = <<>>

LEMMA RunsNowhere ==
  ASSUME NEW U
  PROVE  Runs(U, <<>>, <<>>, <<>>)
<1>1. <<>> \in Seq(Component(U)) /\ <<>> \in Seq(U) /\ Len(<<>>) = 0
  BY EmptySeq
<1>2. ASSUME NEW e \in Seq(U)
      PROVE  Pass(<<>> \o e, <<>>) = Spot(<<>>, 0)
  <2>1. <<>> \o e \in Seq(U)
    BY <1>1, ConcatProperties
  <2>2. QED
    BY <1>1, <2>1, PassLaws DEF Spot
<1>3. QED
  BY <1>1, <1>2 DEF Runs

LEMMA SliceOfJoin ==
  ASSUME NEW U, NEW x \in Seq(U), NEW p \in Seq(U), NEW e \in Seq(U)
  PROVE  Slice((x \o p) \o e, Len(x), Len(p)) = p
<1>1. PICK m \in Nat, n \in Nat : m = Len(x) /\ n = Len(p)
  BY LenProperties
<1>2. PICK d \in Seq(U) : d = x \o p
  BY JoinAt
<1>3. PICK doc \in Seq(U) : doc = d \o e
  BY JoinAt
<1>4. Len(d) = m + n /\ \A k \in 1 .. n : d[m + k] = p[k]
  BY <1>1, <1>2, JoinAt
<1>5. \A i \in 1 .. m + n : doc[i] = d[i]
  BY <1>3, <1>4, JoinAt
<1>6. PICK l \in Seq(Units(U, doc)) : l = Slice(doc, m, n)
  BY SliceType
<1>7. Len(l) = n /\ \A k \in 1 .. n : l[k] = doc[m + k]
  BY <1>6, SliceType
<1>8. ASSUME NEW k \in 1 .. n
      PROVE  l[k] = p[k]
  <2>1. m + k \in 1 .. m + n
    BY Beyond
  <2>2. QED
    BY <1>4, <1>5, <1>7, <2>1
<1>9. p \in Seq(Units(U, doc))
  BY UnitsOf
<1>10. l = p
  BY <1>1, <1>7, <1>8, <1>9, SeqEqual
<1>11. QED
  BY <1>1, <1>2, <1>3, <1>6, <1>10

LEMMA RunsOn ==
  ASSUME NEW U, NEW op, NEW x, NEW y, Runs(U, op, x, y),
         NEW c, NEW more, Extends(U, op, c, more),
         NEW p, NEW o, Moves(U, c, p, o)
  PROVE  Runs(U, more, x \o p, y \o o)
<1>1. /\ x \in Seq(U) /\ y \in Seq(U) /\ p \in Seq(U) /\ o \in Seq(U)
      /\ more \in Seq(Component(U))
  BY DEF Runs, Extends, Moves
<1>2. x \o p \in Seq(U) /\ y \o o \in Seq(U) /\ Len(x \o p) = Len(x) + Len(p)
  BY <1>1, ConcatProperties
<1>3. ASSUME NEW e \in Seq(U)
      PROVE  Pass((x \o p) \o e, more) = Spot(y \o o, Len(x) + Len(p))
  <2>1. PICK doc \in Seq(U) : doc = (x \o p) \o e
    BY <1>2, ConcatProperties
  <2>2. doc = x \o (p \o e) /\ p \o e \in Seq(U)
    <3>1. p \o e \in Seq(U)
      BY <1>1, ConcatProperties
    <3>2. (x \o p) \o e = x \o (p \o e)
      <4>1. x \in Seq(U) /\ p \in Seq(U) /\ e \in Seq(U)
        BY <1>1
      <4>2. QED
        BY <4>1, ConcatAssociative
    <3>3. QED
      BY <2>1, <3>1, <3>2
  <2>3. Pass(doc, op) = Spot(y, Len(x))
    BY <2>2 DEF Runs
  <2>4. Pass(doc, more) = Take(doc, Spot(y, Len(x)), c)
    BY <2>3 DEF Extends
  <2>5. CASE c = Insert(o) /\ p = <<>>
    <3>1. Pass(doc, more) = Spot(y \o o, Len(x))
      BY <2>4, <2>5, TakeInsert
    <3>2. Len(p) = 0 /\ Len(x) \in Nat
      BY <1>1, <2>5, EmptySeq, LenProperties
    <3>3. Len(x) + Len(p) = Len(x)
      BY <3>2
    <3>4. QED
      BY <2>1, <3>1, <3>3
  <2>6. CASE c = Retain(Len(p)) /\ o = p
    <3>1. Pass(doc, more) = Spot(y \o Slice(doc, Len(x), Len(p)), Len(x) + Len(p))
      BY <2>4, <2>6, TakeRetain
    <3>2. Slice(doc, Len(x), Len(p)) = o
      BY <1>1, <2>1, <2>6, SliceOfJoin
    <3>3. QED
      BY <2>1, <3>1, <3>2
  <2>7. CASE c = Delete(Len(p)) /\ o = <<>>
    <3>1. Pass(doc, more) = Spot(y, Len(x) + Len(p))
      BY <2>4, <2>7, TakeDelete
    <3>2. y \o o = y
      BY <1>1, <2>7, ConcatEmptySeq
    <3>3. QED
      BY <2>1, <3>1, <3>2
  <2>8. QED
    BY <2>5, <2>6, <2>7 DEF Moves
<1>4. QED
  BY <1>1, <1>2, <1>3 DEF Runs

LEMMA SameRuns ==
  ASSUME NEW U, NEW p, NEW q, Same(U, p, q), NEW x, NEW y, Runs(U, p, x, y)
  PROVE  Runs(U, q, x, y)
<1>1. /\ q \in Seq(Component(U)) /\ x \in Seq(U) /\ y \in Seq(U)
      /\ \A e \in Seq(U) : Pass(x \o e, p) = Spot(y, Len(x))
  BY DEF Same, Runs
<1>2. ASSUME NEW e \in Seq(U)
      PROVE  Pass(x \o e, q) = Spot(y, Len(x))
  <2>1. x \o e \in Seq(U)
    BY <1>1, ConcatProperties
  <2>2. QED
    BY <1>1, <2>1 DEF Same
<1>3. QED
  BY <1>1, <1>2 DEF Runs

LEMMA SpotsEqual ==
  ASSUME NEW y, NEW k, NEW z, NEW n, Spot(y, k) = Spot(z, n)
  PROVE  y = z /\ k = n
BY DEF Spot

LEMMA RunsLengths ==
  ASSUME NEW U, NEW op, NEW x, NEW y, Runs(U, op, x, y)
  PROVE  opBaseLength(op) = Len(x) /\ opTargetLength(op) = Len(y)
<1>1. op \in Seq(Component(U)) /\ x \in Seq(U) /\ y \in Seq(U) /\ <<>> \in Seq(U)
  BY EmptySeq DEF Runs
<1>2. x \o <<>> = x
  BY <1>1, ConcatEmptySeq
<1>3. Pass(x, op) = Spot(y, Len(x))
  BY <1>1, <1>2 DEF Runs
<1>4. PICK z : PassesAs(U, x, op, z)
  BY <1>1, PassType DEF Passes
<1>5. Spot(y, Len(x)) = Spot(z, opBaseLength(op)) /\ Len(z) = opTargetLength(op)
  BY <1>3, <1>4 DEF PassesAs
<1>6. y = z /\ Len(x) = opBaseLength(op)
  BY <1>5, SpotsEqual
<1>7. QED
  BY <1>5, <1>6

\* A text cut after n characters.
IsSplit(U, doc, n, x, e) == x \in Seq(U) /\ e \in Seq(U) /\ doc = x \o e /\ Len(x) = n

LEMMA SplitOf ==
  ASSUME NEW U, NEW doc \in Seq(U), NEW n \in 0 .. Len(doc)
  PROVE  \E x, e : IsSplit(U, doc, n, x, e)
<1>1. PICK m \in Nat, k \in Nat : m = n /\ Len(doc) = m + k
  <2>1. Len(doc) \in Nat
    BY LenProperties
  <2>2. n \in Nat /\ Len(doc) - n \in Nat /\ Len(doc) = n + (Len(doc) - n)
    BY <2>1
  <2>3. QED
    BY <2>2
<1>2. \A i \in 1 .. m + k : doc[i] \in U
  BY <1>1, ElementOfSeq
<1>3. PICK x, e : x = SubSeq(doc, 1, m) /\ e = SubSeq(doc, m + 1, m + k)
  OBVIOUS
<1>4. x \in Seq(U) /\ Len(x) = m /\ \A i \in 1 .. m : x[i] = doc[i]
  <2>1. /\ x \in Seq(U) /\ Len(x) = IF 1 <= m THEN m - 1 + 1 ELSE 0
        /\ \A i \in 1 .. m - 1 + 1 : x[i] = doc[1 + i - 1]
    BY <1>2, <1>3, SubSeqProperties
  <2>2. (IF 1 <= m THEN m - 1 + 1 ELSE 0) = m /\ m - 1 + 1 = m /\ \A i \in 1 .. m : 1 + i - 1 = i
    OBVIOUS
  <2>3. QED
    BY <2>1, <2>2
<1>5. e \in Seq(U) /\ Len(e) = k /\ \A i \in 1 .. k : e[i] = doc[m + i]
  <2>1. /\ e \in Seq(U) /\ Len(e) = IF m + 1 <= m + k THEN m + k - (m + 1) + 1 ELSE 0
        /\ \A i \in 1 .. m + k - (m + 1) + 1 : e[i] = doc[m + 1 + i - 1]
    <3>1. /\ m + 1 \in Int /\ m + k \in Int
          /\ \A i \in m + 1 .. m + k : doc[i] \in U
      <4>1. \A i \in m + 1 .. m + k : i \in 1 .. m + k
        OBVIOUS
      <4>2. QED
        BY <1>2, <4>1
    <3>2. QED
      BY <1>3, <3>1, SubSeqProperties
  <2>2. /\ (IF m + 1 <= m + k THEN m + k - (m + 1) + 1 ELSE 0) = k /\ m + k - (m + 1) + 1 = k
        /\ \A i \in 1 .. k : m + 1 + i - 1 = m + i
    OBVIOUS
  <2>3. QED
    BY <2>1, <2>2
<1>6. PICK d \in Seq(U) : d = x \o e
  BY <1>4, <1>5, JoinAt
<1>7. /\ Len(d) = m + k /\ \A i \in 1 .. m : d[i] = doc[i]
      /\ \A i \in 1 .. k : d[m + i] = doc[m + i]
  <2>1. x \in Seq(U) /\ e \in Seq(U)
    BY <1>4, <1>5
  <2>2. /\ Len(d) = Len(x) + Len(e) /\ \A i \in 1 .. Len(x) : d[i] = x[i]
        /\ \A i \in 1 .. Len(e) : d[Len(x) + i] = e[i]
    BY <1>6, <2>1, JoinAt
  <2>3. Len(x) = m /\ Len(e) = k
    BY <1>4, <1>5
  <2>4. /\ Len(d) = m + k /\ \A i \in 1 .. m : d[i] = x[i]
        /\ \A i \in 1 .. k : d[m + i] = e[i]
    BY <2>2, <2>3, Zenon
  <2>5. QED
    BY <1>4, <1>5, <2>4
<1>8. ASSUME NEW i \in 1 .. m + k
      PROVE  d[i] = doc[i]
  <2>1. CASE i <= m
    BY <1>7, <2>1
  <2>2. CASE ~(i <= m)
    <3>1. i - m \in 1 .. k /\ m + (i - m) = i
      BY <2>2
    <3>2. QED
      BY <1>7, <3>1
  <2>3. QED
    BY <2>1, <2>2
<1>9. d = doc
  BY <1>1, <1>7, <1>8, SeqEqual
<1>10. IsSplit(U, doc, n, x, e)
  BY <1>1, <1>4, <1>5, <1>6, <1>9 DEF IsSplit
<1>11. QED
  BY <1>10

\* Every operation runs over what it spans.
LEMMA RunsExist ==
  ASSUME NEW U, NEW op \in Seq(Component(U)), NEW doc \in Seq(U), opBaseLength(op) = Len(doc)
  PROVE  \E y \in Seq(U) : Runs(U, op, doc, y)
<1> DEFINE E == Component(U)
           All(o) == \A x \in Seq(U) : opBaseLength(o) = Len(x) =>
                       \E y \in Seq(U) : Runs(U, o, x, y)
           T == {o \in Seq(E) : All(o)}
<1>1. <<>> \in T
  <2>1. <<>> \in Seq(E) /\ <<>> \in Seq(U) /\ opBaseLength(<<>>) = 0
    BY EmptySeq, BaseLaws
  <2>2. ASSUME NEW x \in Seq(U), Len(x) = 0
        PROVE  \E y \in Seq(U) : Runs(U, <<>>, x, y)
    <3>1. x = <<>>
      BY <2>2, EmptySeq
    <3>2. QED
      BY <2>1, <3>1, RunsNowhere
  <2>3. QED
    BY <2>1, <2>2
<1>2. ASSUME NEW o \in Seq(E), NEW c \in E, o \in T
      PROVE  Append(o, c) \in T
  <2>1. ASSUME NEW x \in Seq(U), opBaseLength(Append(o, c)) = Len(x)
        PROVE  \E y \in Seq(U) : Runs(U, Append(o, c), x, y)
    <3>1. PICK b \in Nat, n \in Nat : b = opBaseLength(o) /\ n = c.n /\ Len(x) = b + n
      BY <2>1, BaseLaws, BaseJoin, PartType
    <3>2. b \in 0 .. Len(x)
      BY <3>1
    <3>3. PICK v \in Seq(U), p \in Seq(U) : x = v \o p /\ Len(v) = b
      <4>1. \E x1, e1 : IsSplit(U, x, b, x1, e1)
        BY <3>2, SplitOf
      <4>2. QED
        BY <4>1, Zenon DEF IsSplit
    <3>4. Len(p) = n
      <4>1. Len(x) = Len(v) + Len(p) /\ Len(p) \in Nat
        BY <3>3, ConcatProperties, LenProperties
      <4>2. QED
        BY <3>1, <3>3, <4>1
    <3>5. PICK y \in Seq(U) : Runs(U, o, v, y)
      BY <1>2, <3>1, <3>3
    <3>6. Extends(U, o, c, Append(o, c))
      BY AppendExtends
    <3>7. \E q \in Seq(U) : Moves(U, c, p, q)
      <4>1. CASE c.kind = "insert"
        <5>1. c.text \in Seq(U) /\ c = Insert(c.text) /\ Len(p) = 0
          BY <3>1, <3>4, <4>1, PartType
        <5>2. p = <<>>
          BY <5>1, EmptySeq
        <5>3. Moves(U, c, p, c.text)
          BY <5>1, <5>2 DEF Moves
        <5>4. QED
          BY <5>1, <5>3
      <4>2. CASE c.kind = "retain"
        <5>1. c = Retain(Len(p))
          BY <3>1, <3>4, <4>2, PartType
        <5>2. Moves(U, c, p, p)
          BY <5>1 DEF Moves
        <5>3. QED
          BY <5>2
      <4>3. CASE c.kind = "delete"
        <5>1. c = Delete(Len(p)) /\ <<>> \in Seq(U)
          BY <3>1, <3>4, <4>3, PartType, EmptySeq
        <5>2. Moves(U, c, p, <<>>)
          BY <5>1 DEF Moves
        <5>3. QED
          BY <5>1, <5>2
      <4>4. QED
        BY <4>1, <4>2, <4>3, PartType
    <3>8. PICK q \in Seq(U) : Moves(U, c, p, q)
      BY <3>7
    <3>9. Runs(U, Append(o, c), v \o p, y \o q)
      BY <3>5, <3>6, <3>8, RunsOn
    <3>10. y \o q \in Seq(U)
      BY ConcatProperties
    <3>11. QED
      BY <3>3, <3>9, <3>10
  <2>2. Append(o, c) \in Seq(E)
    BY AppendProperties
  <2>3. QED
    BY <2>1, <2>2
<1>3. op \in T
  <2> HIDE DEF T
  <2>1. \A o \in Seq(E) : o \in T
    BY <1>1, <1>2, SeqSetInduction
  <2>2. QED
    BY <2>1
<1>4. QED
  BY <1>3

\* applyOp keeps what is behind.
LEMMA RunsApply ==
  ASSUME NEW U, NEW op, NEW x, NEW y, Runs(U, op, x, y), NEW e \in Seq(U)
  PROVE  /\ applyOp(x \o e, op) = y \o e /\ Fits(op, x \o e)
         /\ x \o e \in Seq(U) /\ y \o e \in Seq(U)
<1>1. /\ x \in Seq(U) /\ y \in Seq(U) /\ Len(x) \in Nat /\ Len(e) \in Nat
      /\ Pass(x \o e, op) = Spot(y, Len(x))
  BY LenProperties DEF Runs
<1>2. /\ x \o e \in Seq(U) /\ y \o e \in Seq(U) /\ Len(x \o e) = Len(x) + Len(e)
      /\ \A i \in 1 .. Len(x) + Len(e) : (x \o e)[i] = IF i <= Len(x) THEN x[i] ELSE e[i - Len(x)]
  BY <1>1, ConcatProperties
<1>3. PICK doc \in Seq(U) : doc = x \o e
  BY <1>2
<1>4. PICK n \in Nat : n = Len(doc) /\ n = Len(x) + Len(e)
  BY <1>1, <1>2, <1>3
<1>5. \A i \in Len(x) + 1 .. n : doc[i] \in U
  <2>1. \A i \in 1 .. Len(doc) : doc[i] \in U
    BY ElementOfSeq
  <2>2. QED
    BY <1>1, <1>4, <2>1
<1>6. SubSeq(doc, Len(x) + 1, n) = e
  <2>1. /\ SubSeq(doc, Len(x) + 1, n) \in Seq(U)
        /\ Len(SubSeq(doc, Len(x) + 1, n))
             = IF Len(x) + 1 <= n THEN n - (Len(x) + 1) + 1 ELSE 0
        /\ \A i \in 1 .. n - (Len(x) + 1) + 1 :
             SubSeq(doc, Len(x) + 1, n)[i] = doc[(Len(x) + 1) + i - 1]
    <3>1. Len(x) + 1 \in Int /\ n \in Int
      BY <1>1
    <3>2. QED
      BY <1>5, <3>1, SubSeqProperties
  <2>2. PICK r \in Seq(U) : r = SubSeq(doc, Len(x) + 1, n)
    BY <2>1
  <2>3. Len(r) = Len(e)
    BY <1>1, <1>4, <2>1, <2>2
  <2>4. ASSUME NEW i \in 1 .. Len(r)
        PROVE  r[i] = e[i]
    <3>1. r[i] = doc[(Len(x) + 1) + i - 1]
      BY <1>1, <1>4, <2>1, <2>2, <2>3
    <3>2. (Len(x) + 1) + i - 1 = Len(x) + i /\ i \in 1 .. Len(e)
      BY <1>1, <2>3
    <3>3. doc[Len(x) + i] = e[i]
      BY <1>1, <1>3, <3>2, JoinAt
    <3>4. QED
      BY <3>1, <3>2, <3>3
  <2>5. QED
    BY <2>2, <2>3, <2>4, SeqEqual
<1>7. Spot(y, Len(x)).out = y /\ Spot(y, Len(x)).at = Len(x)
  BY DEF Spot
<1>8. applyOp(doc, op) = y \o SubSeq(doc, Len(x) + 1, n)
  BY <1>1, <1>3, <1>4, <1>7 DEF applyOp
<1>9. Fits(op, doc)
  <2>1. opBaseLength(op) = Len(x)
    BY RunsLengths
  <2>2. QED
    BY <1>1, <1>4, <2>1 DEF Fits
<1>10. QED
  BY <1>2, <1>3, <1>6, <1>8, <1>9

\* Every operation that fits runs over a front of the document.
LEMMA FitsRuns ==
  ASSUME NEW U, NEW op \in Seq(Component(U)), NEW doc \in Seq(U), Fits(op, doc)
  PROVE  \E x, y, e \in Seq(U) : /\ doc = x \o e /\ Runs(U, op, x, y)
                                 /\ Len(x) = opBaseLength(op)
<1>1. opBaseLength(op) \in Nat /\ Len(doc) \in Nat
  BY BaseJoin, LenProperties
<1>2. opBaseLength(op) \in 0 .. Len(doc)
  BY <1>1 DEF Fits
<1>3. PICK x \in Seq(U), e \in Seq(U) : doc = x \o e /\ Len(x) = opBaseLength(op)
  <2>1. \E x1, e1 : IsSplit(U, doc, opBaseLength(op), x1, e1)
    BY <1>2, SplitOf
  <2>2. QED
    BY <2>1, Zenon DEF IsSplit
<1>4. PICK y \in Seq(U) : Runs(U, op, x, y)
  BY <1>3, RunsExist
<1>5. QED
  BY <1>3, <1>4

LEMMA SameBack ==
  ASSUME NEW U, NEW p, NEW q, Same(U, p, q)
  PROVE  Same(U, q, p)
BY DEF Same

LEMMA RunsOnce ==
  ASSUME NEW U, NEW op, NEW x, NEW y, NEW z, Runs(U, op, x, y), Runs(U, op, x, z)
  PROVE  y = z
<1>1. <<>> \in Seq(U)
  BY EmptySeq
<1>2. Pass(x \o <<>>, op) = Spot(y, Len(x)) /\ Pass(x \o <<>>, op) = Spot(z, Len(x))
  BY <1>1 DEF Runs
<1>3. QED
  BY <1>2, SpotsEqual

\* Fitted to a longer text, it keeps what is behind.
LEMMA FitRuns ==
  ASSUME NEW U, NEW op, NEW x, NEW y, Runs(U, op, x, y), NEW e \in Seq(U), NEW n,
         n = Len(x) + Len(e)
  PROVE  Runs(U, fitOp(op, n), x \o e, y \o e)
<1>1. op \in Seq(Component(U)) /\ x \in Seq(U) /\ y \in Seq(U) /\ opBaseLength(op) = Len(x)
  BY RunsLengths DEF Runs
<1>2. PICK parts : parts = Rebuild(op)
  OBVIOUS
<1>3. Same(U, op, parts) /\ parts \in Seq(Component(U))
  BY <1>1, <1>2, RebuildSame, SameBack DEF Same
<1>4. Runs(U, parts, x, y)
  BY <1>3, SameRuns
<1>5. PICK k \in Nat : k = Len(e)
  BY LenProperties
<1>6. n - opBaseLength(op) = k
  <2>1. Len(x) \in Nat
    BY <1>1, LenProperties
  <2>2. QED
    BY <1>1, <1>5, <2>1
<1>7. fitOp(op, n) = AddRetain(parts, k)
  BY <1>2, <1>6 DEF fitOp
<1>8. CASE k = 0
  <2>1. AddRetain(parts, k) = parts
    BY <1>8 DEF AddRetain
  <2>2. e = <<>>
    BY <1>5, <1>8, EmptySeq
  <2>3. x \o e = x /\ y \o e = y
    BY <1>1, <2>2, ConcatEmptySeq
  <2>4. QED
    BY <1>4, <1>7, <2>1, <2>3
<1>9. CASE k # 0
  <2>1. k \in Nat \ {0}
    BY <1>9
  <2>2. Extends(U, parts, Retain(k), AddRetain(parts, k))
    BY <1>3, <2>1, RetainExtends
  <2>3. Moves(U, Retain(k), e, e)
    BY <1>5 DEF Moves
  <2>4. QED
    BY <1>4, <1>7, <2>2, <2>3, RunsOn
<1>10. QED
  BY <1>8, <1>9

\* What is typed stays.
LEMMA FitInserts ==
  ASSUME NEW U, NEW op \in Seq(Component(U)), NEW n \in Nat, opBaseLength(op) <= n
  PROVE  Inserted(fitOp(op, n)) = Inserted(op)
<1>1. PICK k \in Nat : k = n - opBaseLength(op)
  BY BaseJoin
<1>2. Rebuild(op) \in Seq(Component(U)) /\ Inserted(Rebuild(op)) = Inserted(op)
  BY RebuildSame DEF Same
<1>3. fitOp(op, n) = AddRetain(Rebuild(op), k)
  BY <1>1 DEF fitOp
<1>4. QED
  BY <1>2, <1>3, RetainInserts

\* Without its last retain, an operation runs over the text before that.
BuiltOver(U, op, x, y, v, w, p) ==
  /\ v \in Seq(U) /\ w \in Seq(U) /\ p \in Seq(U)
  /\ x = v \o p /\ y = w \o p /\ Runs(U, op, v, w)

LEMMA BuildInserts ==
  ASSUME NEW U, NEW op \in Seq(Component(U))
  PROVE  Inserted(Build(op)) = Inserted(op)
<1>1. CASE IsKind(op, "retain")
  <2>1. /\ op # <<>> /\ Last(op).kind = "retain" /\ Front(op) \in Seq(Component(U))
        /\ Last(op) \in Component(U) /\ op = Append(Front(op), Last(op))
    BY <1>1, FrontLast DEF IsKind
  <2>2. Last(op).text = <<>>
    BY <2>1, PartType
  <2>3. Inserted(Append(Front(op), Last(op))) = Inserted(Front(op)) \cup Range(Last(op).text)
    BY <2>1, InsertedMore
  <2>4. QED
    BY <1>1, <2>1, <2>2, <2>3, RangeNone DEF Build
<1>2. CASE ~IsKind(op, "retain")
  BY <1>2 DEF Build
<1>3. QED
  BY <1>1, <1>2

LEMMA BuildRuns ==
  ASSUME NEW U, NEW op, NEW x, NEW y, Runs(U, op, x, y)
  PROVE  \E v, w, p : BuiltOver(U, Build(op), x, y, v, w, p)
<1>1. /\ op \in Seq(Component(U)) /\ x \in Seq(U) /\ y \in Seq(U)
      /\ opBaseLength(op) = Len(x)
  BY RunsLengths DEF Runs
<1>2. CASE ~IsKind(op, "retain")
  <2>1. Build(op) = op
    BY <1>2 DEF Build
  <2>2. <<>> \in Seq(U) /\ x \o <<>> = x /\ y \o <<>> = y
    BY <1>1, EmptySeq, ConcatEmptySeq
  <2>3. BuiltOver(U, Build(op), x, y, x, y, <<>>)
    BY <1>1, <2>1, <2>2 DEF BuiltOver
  <2>4. QED
    BY <2>3
<1>3. CASE IsKind(op, "retain")
  <2>1. PICK f \in Seq(Component(U)), c \in Component(U) :
          op = Append(f, c) /\ f = Front(op) /\ c.kind = "retain"
    BY <1>1, <1>3, FrontLast DEF IsKind
  <2>2. Build(op) = f
    BY <1>3, <2>1 DEF Build
  <2>3. PICK b \in Nat, m \in Nat : b = opBaseLength(f) /\ m = c.n /\ c = Retain(m)
    BY <2>1, PartType, BaseJoin
  <2>4. Len(x) = b + m
    BY <1>1, <2>1, <2>3, BaseLaws
  <2>5. b \in 0 .. Len(x)
    <3>1. b \in 0 .. b + m
      OBVIOUS
    <3>2. QED
      BY <2>4, <3>1
  <2>6. PICK v \in Seq(U), p \in Seq(U) : x = v \o p /\ Len(v) = b
    <3>1. \E x1, e1 : IsSplit(U, x, b, x1, e1)
      BY <1>1, <2>5, SplitOf
    <3>2. QED
      BY <3>1, Zenon DEF IsSplit
  <2>7. Len(p) = m
    <3>1. Len(x) = Len(v) + Len(p) /\ Len(p) \in Nat
      BY <2>6, JoinAt
    <3>2. QED
      BY <2>4, <2>6, <3>1
  <2>8. PICK w \in Seq(U) : Runs(U, f, v, w)
    BY <2>1, <2>3, <2>6, RunsExist
  <2>9. Moves(U, c, p, p)
    BY <2>3, <2>7 DEF Moves
  <2>10. Extends(U, f, c, op)
    BY <2>1, AppendExtends
  <2>11. Runs(U, op, v \o p, w \o p)
    BY <2>8, <2>9, <2>10, RunsOn
  <2>12. y = w \o p
    BY <2>6, <2>11, RunsOnce
  <2>13. BuiltOver(U, Build(op), x, y, v, w, p)
    BY <2>2, <2>6, <2>8, <2>12 DEF BuiltOver
  <2>14. QED
    BY <2>13
<1>4. QED
  BY <1>2, <1>3

----------------------------------------------------------------------------
\* An operation makes out of doc.

ActsOn(U, op, doc, out, x, y, e) ==
  /\ e \in Seq(U) /\ doc = x \o e /\ out = y \o e /\ Runs(U, op, x, y)
Acts(U, op, doc, out) == \E x, y, e : ActsOn(U, op, doc, out, x, y, e)

LEMMA RunsActs ==
  ASSUME NEW U, NEW op, NEW x, NEW y, Runs(U, op, x, y)
  PROVE  Acts(U, op, x, y)
<1>1. x \in Seq(U) /\ y \in Seq(U) /\ <<>> \in Seq(U)
  BY EmptySeq DEF Runs
<1>2. x = x \o <<>> /\ y = y \o <<>>
  BY <1>1, ConcatEmptySeq
<1>3. ActsOn(U, op, x, y, x, y, <<>>)
  BY <1>1, <1>2 DEF ActsOn
<1>4. QED
  BY <1>3 DEF Acts

LEMMA ActsApply ==
  ASSUME NEW U, NEW op, NEW doc, NEW out, Acts(U, op, doc, out)
  PROVE  /\ op \in Seq(Component(U)) /\ doc \in Seq(U) /\ out \in Seq(U)
         /\ Fits(op, doc) /\ out = applyOp(doc, op)
<1>1. PICK x, y, e : ActsOn(U, op, doc, out, x, y, e)
  BY DEF Acts
<1>2. Runs(U, op, x, y) /\ e \in Seq(U) /\ doc = x \o e /\ out = y \o e
  BY <1>1 DEF ActsOn
<1>3. op \in Seq(Component(U))
  BY <1>2 DEF Runs
<1>4. QED
  BY <1>2, <1>3, RunsApply

LEMMA FitsActs ==
  ASSUME NEW U, NEW op \in Seq(Component(U)), NEW doc \in Seq(U), Fits(op, doc)
  PROVE  Acts(U, op, doc, applyOp(doc, op))
<1>1. PICK x, y, e \in Seq(U) : doc = x \o e /\ Runs(U, op, x, y)
  BY FitsRuns
<1>2. applyOp(doc, op) = y \o e
  BY <1>1, RunsApply
<1>3. ActsOn(U, op, doc, applyOp(doc, op), x, y, e)
  BY <1>1, <1>2 DEF ActsOn
<1>4. QED
  BY <1>3 DEF Acts

\* The length of the document that applyOp makes is what the server computes from
\* the components when it checks an operation (opBaseLength, opTargetLength).
THEOREM ApplyLength ==
  ASSUME NEW U, NEW op \in Operation(U), NEW doc \in Seq(U), Fits(op, doc)
  PROVE  Len(applyOp(doc, op)) = Len(doc) + opTargetLength(op) - opBaseLength(op)
<1>1. op \in Seq(Component(U))
  BY DEF Operation
<1>2. PICK x, y, e \in Seq(U) : doc = x \o e /\ Runs(U, op, x, y)
  BY <1>1, FitsRuns
<1>3. applyOp(doc, op) = y \o e
  BY <1>2, RunsApply
<1>4. opBaseLength(op) = Len(x) /\ opTargetLength(op) = Len(y)
  BY <1>2, RunsLengths
<1>5. x \in Seq(U) /\ y \in Seq(U)
  BY <1>2 DEF Runs
<1>6. /\ Len(x \o e) = Len(x) + Len(e) /\ Len(y \o e) = Len(y) + Len(e)
      /\ Len(x) \in Nat /\ Len(y) \in Nat /\ Len(e) \in Nat
  BY <1>5, JoinAt
<1>7. QED
  BY <1>2, <1>3, <1>4, <1>6

LEMMA ActsBefore ==
  ASSUME NEW U, NEW op, NEW doc, NEW out, Acts(U, op, doc, out), NEW t \in Seq(U)
  PROVE  Acts(U, op, doc \o t, out \o t)
<1>1. PICK x, y, e : ActsOn(U, op, doc, out, x, y, e)
  BY DEF Acts
<1>2. /\ Runs(U, op, x, y) /\ e \in Seq(U) /\ doc = x \o e /\ out = y \o e
      /\ x \in Seq(U) /\ y \in Seq(U)
  BY <1>1 DEF ActsOn, Runs
<1>3. x \in Seq(U) /\ y \in Seq(U) /\ e \in Seq(U)
  BY <1>2
<1>4. (x \o e) \o t = x \o (e \o t) /\ (y \o e) \o t = y \o (e \o t) /\ e \o t \in Seq(U)
  <2>1. e \o t \in Seq(U)
    BY <1>3, ConcatProperties
  <2>2. (x \o e) \o t = x \o (e \o t)
    BY <1>3, ConcatAssociative
  <2>3. (y \o e) \o t = y \o (e \o t)
    BY <1>3, ConcatAssociative
  <2>4. QED
    BY <2>1, <2>2, <2>3
<1>5. ActsOn(U, op, doc \o t, out \o t, x, y, e \o t)
  BY <1>2, <1>4 DEF ActsOn
<1>6. QED
  BY <1>5 DEF Acts

LEMMA BuildActs ==
  ASSUME NEW U, NEW op, NEW x, NEW y, Runs(U, op, x, y)
  PROVE  Acts(U, Build(op), x, y)
<1>1. PICK v, w, p : BuiltOver(U, Build(op), x, y, v, w, p)
  BY BuildRuns
<1>2. ActsOn(U, Build(op), x, y, v, w, p)
  BY <1>1 DEF BuiltOver, ActsOn
<1>3. QED
  BY <1>2 DEF Acts

\* Normalising changes nothing but the form.
LEMMA NormalizeActs ==
  ASSUME NEW U, NEW op, NEW doc, NEW out, Acts(U, op, doc, out)
  PROVE  Acts(U, normalizeOp(op), doc, out)
<1>1. PICK x, y, e : ActsOn(U, op, doc, out, x, y, e)
  BY DEF Acts
<1>2. Runs(U, op, x, y) /\ e \in Seq(U) /\ doc = x \o e /\ out = y \o e
  BY <1>1 DEF ActsOn
<1>3. op \in Seq(Component(U))
  BY <1>2 DEF Runs
<1>4. Same(U, op, Rebuild(op))
  BY <1>3, RebuildSame, SameBack
<1>5. Runs(U, Rebuild(op), x, y)
  BY <1>2, <1>4, SameRuns
<1>6. Acts(U, normalizeOp(op), x, y)
  BY <1>5, BuildActs DEF normalizeOp
<1>7. QED
  BY <1>2, <1>6, ActsBefore

\* What the server stores of an operation (normalizeOp) has its effect.
THEOREM NormalizeKeepsTheEdit ==
  ASSUME NEW U, NEW op \in Operation(U), NEW doc \in Seq(U), Fits(op, doc)
  PROVE  /\ normalizeOp(op) \in Operation(U) /\ Fits(normalizeOp(op), doc)
         /\ applyOp(doc, normalizeOp(op)) = applyOp(doc, op)
<1>1. Acts(U, op, doc, applyOp(doc, op))
  BY FitsActs DEF Operation
<1>2. Acts(U, normalizeOp(op), doc, applyOp(doc, op))
  BY <1>1, NormalizeActs
<1>3. QED
  BY <1>2, ActsApply DEF Operation

\* Fitted to the text, it runs over all of it.
LEMMA FitActs ==
  ASSUME NEW U, NEW op, NEW doc, NEW out, Acts(U, op, doc, out)
  PROVE  Runs(U, fitOp(op, Len(doc)), doc, out)
<1>1. PICK x, y, e : ActsOn(U, op, doc, out, x, y, e)
  BY DEF Acts
<1>2. Runs(U, op, x, y) /\ e \in Seq(U) /\ doc = x \o e /\ out = y \o e
  BY <1>1 DEF ActsOn
<1>3. x \in Seq(U)
  BY <1>2 DEF Runs
<1>4. Len(doc) = Len(x) + Len(e)
  BY <1>2, <1>3, JoinAt
<1>5. QED
  BY <1>2, <1>4, FitRuns

----------------------------------------------------------------------------
\* The first component of an operation, and the rest.

LEMMA MovesExist ==
  ASSUME NEW U, NEW c \in Component(U), NEW p \in Seq(U), Len(p) = c.n
  PROVE  \E q : Moves(U, c, p, q)
<1>1. CASE c.kind = "insert"
  <2>1. c.text \in Seq(U) /\ c = Insert(c.text) /\ Len(p) = 0
    BY <1>1, PartType
  <2>2. p = <<>>
    BY <2>1, EmptySeq
  <2>3. Moves(U, c, p, c.text)
    BY <2>1, <2>2 DEF Moves
  <2>4. QED
    BY <2>3
<1>2. CASE c.kind = "retain"
  <2>1. c = Retain(Len(p))
    BY <1>2, PartType
  <2>2. Moves(U, c, p, p)
    BY <2>1 DEF Moves
  <2>3. QED
    BY <2>2
<1>3. CASE c.kind = "delete"
  <2>1. c = Delete(Len(p)) /\ <<>> \in Seq(U)
    BY <1>3, PartType, EmptySeq
  <2>2. Moves(U, c, p, <<>>)
    BY <2>1 DEF Moves
  <2>3. QED
    BY <2>2
<1>4. QED
  BY <1>1, <1>2, <1>3, PartType

Parted(U, o, c, x, y, v, w, p, q) ==
  x = v \o p /\ y = w \o q /\ Runs(U, o, v, w) /\ Moves(U, c, p, q)

LEMMA LastRuns ==
  ASSUME NEW U, NEW o \in Seq(Component(U)), NEW c \in Component(U), NEW x, NEW y,
         Runs(U, Append(o, c), x, y)
  PROVE  \E v, w, p, q : Parted(U, o, c, x, y, v, w, p, q)
<1>1. x \in Seq(U) /\ opBaseLength(Append(o, c)) = Len(x)
  BY RunsLengths DEF Runs
<1>2. PICK b \in Nat, m \in Nat : b = opBaseLength(o) /\ m = c.n
  BY PartType, BaseJoin
<1>3. Len(x) = b + m /\ b \in 0 .. b + m
  BY <1>1, <1>2, BaseLaws
<1>4. b \in 0 .. Len(x)
  BY <1>3
<1>5. PICK v \in Seq(U), p \in Seq(U) : x = v \o p /\ Len(v) = b
  <2>1. \E x1, e1 : IsSplit(U, x, b, x1, e1)
    BY <1>1, <1>4, SplitOf
  <2>2. QED
    BY <2>1, Zenon DEF IsSplit
<1>6. Len(p) = m
  <2>1. Len(x) = Len(v) + Len(p) /\ Len(p) \in Nat
    BY <1>5, JoinAt
  <2>2. QED
    BY <1>3, <1>5, <2>1
<1>7. PICK w \in Seq(U) : Runs(U, o, v, w)
  BY <1>2, <1>5, RunsExist
<1>8. PICK q : Moves(U, c, p, q)
  BY <1>2, <1>6, MovesExist
<1>9. Extends(U, o, c, Append(o, c))
  BY AppendExtends
<1>10. Runs(U, Append(o, c), v \o p, w \o q)
  BY <1>7, <1>8, <1>9, RunsOn
<1>11. y = w \o q
  BY <1>5, <1>10, RunsOnce
<1>12. Parted(U, o, c, x, y, v, w, p, q)
  BY <1>5, <1>7, <1>8, <1>11 DEF Parted
<1>13. QED
  BY <1>12

\* One operation behind the other runs over one text behind the other.
LEMMA JoinRuns ==
  ASSUME NEW U, NEW op, NEW x, NEW y, Runs(U, op, x, y), NEW more, NEW r, NEW z, Runs(U, more, r, z)
  PROVE  Runs(U, op \o more, x \o r, y \o z)
<1> DEFINE E == Component(U)
           Good(o, v, w) == Runs(U, o, v, w) => Runs(U, op \o o, x \o v, y \o w)
           T == {o \in Seq(E) : \A v, w : Good(o, v, w)}
<1>1. op \in Seq(E) /\ x \in Seq(U) /\ y \in Seq(U)
  BY DEF Runs
<1>2. <<>> \in T
  <2>1. ASSUME NEW v, NEW w, Runs(U, <<>>, v, w)
        PROVE  Runs(U, op \o <<>>, x \o v, y \o w)
    <3>1. Runs(U, <<>>, <<>>, <<>>) /\ Len(<<>>) = 0
      BY RunsNowhere, EmptySeq
    <3>2. Len(v) = 0 /\ v \in Seq(U)
      <4>1. opBaseLength(<<>>) = Len(v)
        BY <2>1, RunsLengths
      <4>2. opBaseLength(<<>>) = Len(<<>>)
        BY <3>1, RunsLengths
      <4>3. v \in Seq(U)
        BY <2>1 DEF Runs
      <4>4. QED
        BY <3>1, <4>1, <4>2, <4>3
    <3>3. v = <<>>
      BY <3>2, EmptySeq
    <3>4. w = <<>>
      BY <2>1, <3>1, <3>3, RunsOnce
    <3>5. op \o <<>> = op
      BY <1>1, ConcatEmptySeq
    <3>6. x \o v = x /\ y \o w = y
      BY <1>1, <3>3, <3>4, ConcatEmptySeq
    <3>7. QED
      BY <3>5, <3>6
  <2>2. <<>> \in Seq(E)
    BY EmptySeq
  <2>3. QED
    BY <2>1, <2>2
<1>3. ASSUME NEW o \in Seq(E), NEW c \in E, o \in T
      PROVE  Append(o, c) \in T
  <2>1. ASSUME NEW v, NEW w, Runs(U, Append(o, c), v, w)
        PROVE  Runs(U, op \o Append(o, c), x \o v, y \o w)
    <3>1. PICK v1, w1, p, q : Parted(U, o, c, v, w, v1, w1, p, q)
      BY <2>1, LastRuns
    <3>2. /\ v = v1 \o p /\ w = w1 \o q /\ Runs(U, o, v1, w1) /\ Moves(U, c, p, q)
          /\ v1 \in Seq(U) /\ w1 \in Seq(U) /\ p \in Seq(U) /\ q \in Seq(U)
      BY <3>1 DEF Parted, Runs, Moves
    <3>3. Runs(U, op \o o, x \o v1, y \o w1)
      BY <1>3, <3>2
    <3>4. op \o Append(o, c) = Append(op \o o, c) /\ op \o o \in Seq(E)
      BY <1>1, BehindAppend
    <3>5. Extends(U, op \o o, c, op \o Append(o, c))
      BY <3>4, AppendExtends
    <3>6. Runs(U, op \o Append(o, c), (x \o v1) \o p, (y \o w1) \o q)
      BY <3>2, <3>3, <3>5, RunsOn
    <3>7. (x \o v1) \o p = x \o v /\ (y \o w1) \o q = y \o w
      <4> HIDE DEF T
      <4>1. (x \o v1) \o p = x \o (v1 \o p)
        <5>1. x \in Seq(U) /\ v1 \in Seq(U) /\ p \in Seq(U)
          BY <1>1, <3>2
        <5>2. QED
          BY <5>1, JoinThree
      <4>2. (y \o w1) \o q = y \o (w1 \o q)
        <5>1. y \in Seq(U) /\ w1 \in Seq(U) /\ q \in Seq(U)
          BY <1>1, <3>2
        <5>2. QED
          BY <5>1, JoinThree
      <4>3. QED
        BY <3>2, <4>1, <4>2
    <3>8. QED
      BY <3>6, <3>7
  <2>2. Append(o, c) \in Seq(E)
    BY AppendProperties
  <2>3. QED
    BY <2>1, <2>2
<1>4. \A o \in Seq(E) : o \in T
  <2> HIDE DEF T
  <2>1. QED
    BY <1>2, <1>3, SeqSetInduction
<1>5. more \in Seq(E)
  BY DEF Runs
<1>6. QED
  BY <1>4, <1>5

LEMMA SingleRuns ==
  ASSUME NEW U, NEW c \in Component(U), NEW p, NEW q, Moves(U, c, p, q)
  PROVE  /\ Runs(U, <<c>>, p, q) /\ <<c>> \in Seq(Component(U))
         /\ opBaseLength(<<c>>) = c.n
<1>1. <<>> \in Seq(Component(U)) /\ <<c>> = Append(<<>>, c)
  BY EmptySeq
<1>2. Extends(U, <<>>, c, <<c>>)
  BY <1>1, AppendExtends
<1>3. Runs(U, <<c>>, <<>> \o p, <<>> \o q)
  BY <1>2, RunsNowhere, RunsOn
<1>4. <<>> \o p = p /\ <<>> \o q = q
  BY ConcatEmptySeq DEF Moves
<1>5. opBaseLength(<<c>>) = 0 + c.n
  BY <1>1, BaseLaws
<1>6. c.n \in Nat
  BY PartType
<1>7. QED
  BY <1>1, <1>3, <1>4, <1>5, <1>6, AppendProperties

\* What the first component does, and the rest.
Peeled(U, op, x, y, p, q, v, w) ==
  x = p \o v /\ y = q \o w /\ Moves(U, Head(op), p, q) /\ Runs(U, Tail(op), v, w)

LEMMA HeadRuns ==
  ASSUME NEW U, NEW op, NEW x, NEW y, Runs(U, op, x, y), op # <<>>
  PROVE  \E p, q, v, w : Peeled(U, op, x, y, p, q, v, w)
<1>1. op \in Seq(Component(U)) /\ x \in Seq(U) /\ opBaseLength(op) = Len(x)
  BY RunsLengths DEF Runs
<1>2. PICK c \in Component(U), rest \in Seq(Component(U)) :
        c = Head(op) /\ rest = Tail(op) /\ op = <<c>> \o rest
  <2>1. /\ Head(op) \in Component(U) /\ Tail(op) \in Seq(Component(U))
        /\ op = <<Head(op)>> \o Tail(op)
    BY <1>1, HeadRest
  <2>2. QED
    BY <2>1, Zenon
<1>3. PICK m \in Nat, b \in Nat : m = c.n /\ b = opBaseLength(rest)
  BY PartType, BaseJoin
<1>4. Len(x) = m + b
  <2>1. <<c>> \in Seq(Component(U)) /\ opBaseLength(<<c>>) = 0 + m
    <3>1. <<>> \in Seq(Component(U)) /\ <<c>> = Append(<<>>, c)
      BY EmptySeq
    <3>2. Append(<<>>, c) \in Seq(Component(U))
      BY <3>1, AppendProperties
    <3>3. opBaseLength(Append(<<>>, c)) = 0 + m
      BY <1>3, <3>1, BaseLaws
    <3>4. QED
      BY <3>1, <3>2, <3>3
  <2>2. opBaseLength(op) = (0 + m) + b
    BY <1>2, <1>3, <2>1, BaseJoin
  <2>3. QED
    BY <1>1, <2>2
<1>5. m \in 0 .. Len(x)
  <2>1. m \in 0 .. m + b
    OBVIOUS
  <2>2. QED
    BY <1>4, <2>1
<1>6. PICK p \in Seq(U), v \in Seq(U) : x = p \o v /\ Len(p) = m
  <2>1. \E x1, e1 : IsSplit(U, x, m, x1, e1)
    BY <1>1, <1>5, SplitOf
  <2>2. QED
    BY <2>1, Zenon DEF IsSplit
<1>7. Len(v) = b
  <2>1. Len(x) = Len(p) + Len(v) /\ Len(v) \in Nat
    BY <1>6, JoinAt
  <2>2. QED
    BY <1>4, <1>6, <2>1
<1>8. PICK q : Moves(U, c, p, q)
  BY <1>3, <1>6, MovesExist
<1>9. PICK w \in Seq(U) : Runs(U, rest, v, w)
  BY <1>3, <1>7, RunsExist
<1>10. Runs(U, op, p \o v, q \o w)
  BY <1>2, <1>8, <1>9, SingleRuns, JoinRuns
<1>11. y = q \o w
  BY <1>6, <1>10, RunsOnce
<1>12. Peeled(U, op, x, y, p, q, v, w)
  BY <1>2, <1>6, <1>8, <1>9, <1>11 DEF Peeled
<1>13. QED
  BY <1>12

----------------------------------------------------------------------------
\* The first n characters of a component, and what is left of it.

First(c, n) == CASE c.kind = "insert" -> Insert(SubSeq(c.text, 1, n))
                 [] c.kind = "retain" -> Retain(n)
                 [] c.kind = "delete" -> Delete(n)

LEMMA SubSeqsOfJoin ==
  ASSUME NEW U, NEW x \in Seq(U), NEW p \in Seq(U)
  PROVE  SubSeq(x \o p, 1, Len(x)) = x /\ SubSeq(x \o p, Len(x) + 1, Len(x \o p)) = p
<1>1. <<>> \in Seq(U) /\ Len(<<>>) = 0 /\ <<>> \o x = x
  BY EmptySeq, ConcatEmptySeq
<1>2. x \o p \in Seq(U) /\ Len(x \o p) = Len(x) + Len(p) /\ Len(x) \in Nat
  BY JoinAt
<1>3. (x \o p) \o <<>> = x \o p
  BY <1>2, ConcatEmptySeq
<1>4. Slice((<<>> \o x) \o p, Len(<<>>), Len(x)) = x
  BY <1>1, SliceOfJoin
<1>5. Slice(x \o p, 0, Len(x)) = x
  BY <1>1, <1>4
<1>6. Slice((x \o p) \o <<>>, Len(x), Len(p)) = p
  BY <1>1, SliceOfJoin
<1>7. Slice(x \o p, Len(x), Len(p)) = p
  BY <1>3, <1>6
<1>8. 0 + 1 = 1 /\ 0 + Len(x) = Len(x)
  BY <1>2
<1>9. QED
  BY <1>2, <1>5, <1>7, <1>8 DEF Slice

LEMMA InsertIs ==
  ASSUME NEW t
  PROVE  Insert(t).kind = "insert" /\ Insert(t).text = t /\ Insert(t).n = 0
BY DEF Insert

LEMMA RetainIs ==
  ASSUME NEW n
  PROVE  Retain(n).kind = "retain" /\ Retain(n).n = n
BY DEF Retain

LEMMA DeleteIs ==
  ASSUME NEW n
  PROVE  Delete(n).kind = "delete" /\ Delete(n).n = n
BY DEF Delete

LEMMA MovesKind ==
  ASSUME NEW U, NEW c, NEW p, NEW o, Moves(U, c, p, o)
  PROVE  /\ p \in Seq(U) /\ o \in Seq(U)
         /\ c.kind = "insert" => c = Insert(o) /\ p = <<>>
         /\ c.kind = "retain" => c = Retain(Len(p)) /\ o = p
         /\ c.kind = "delete" => c = Delete(Len(p)) /\ o = <<>>
<1>1. p \in Seq(U) /\ o \in Seq(U)
  BY DEF Moves
<1>2. CASE c = Insert(o) /\ p = <<>>
  BY <1>1, <1>2, InsertIs, RetainIs, DeleteIs
<1>3. CASE c = Retain(Len(p)) /\ o = p
  BY <1>1, <1>3, InsertIs, RetainIs, DeleteIs
<1>4. CASE c = Delete(Len(p)) /\ o = <<>>
  BY <1>1, <1>4, InsertIs, RetainIs, DeleteIs
<1>5. QED
  BY <1>2, <1>3, <1>4 DEF Moves

SplitMoves(U, c, n, x, y, p, o, v, w) ==
  /\ x = p \o v /\ y = o \o w /\ Moves(U, First(c, n), p, o) /\ Moves(U, Rest(c, n), v, w)
  /\ Rest(c, n) \in Component(U)

LEMMA MovesSplit ==
  ASSUME NEW U, NEW c \in Component(U), NEW x, NEW y, Moves(U, c, x, y),
         NEW n \in Nat \ {0}, n < Extent(c)
  PROVE  \E p, o, v, w : SplitMoves(U, c, n, x, y, p, o, v, w)
<1>1. x \in Seq(U) /\ y \in Seq(U) /\ <<>> \in Seq(U) /\ <<>> \o <<>> = <<>>
  BY EmptySeq, ConcatEmptySeq DEF Moves
<1>2. CASE c.kind = "insert"
  <2>1. c = Insert(y) /\ x = <<>> /\ n < Len(y)
    BY <1>2, MovesKind, InsertIs, RetainIs, DeleteIs DEF Extent
  <2>2. Len(y) \in Nat
    BY <1>1, LenProperties
  <2>3. n \in 0 .. Len(y)
    BY <2>1, <2>2
  <2>4. PICK o \in Seq(U), w \in Seq(U) : y = o \o w /\ Len(o) = n
    <3>1. y \in Seq(U)
      BY <1>1
    <3>2. \E x1, e1 : IsSplit(U, y, n, x1, e1)
      BY <2>3, <3>1, SplitOf
    <3>3. QED
      BY <3>2, Zenon DEF IsSplit
  <2>5. Len(w) # 0 /\ Len(y) = Len(o) + Len(w)
    <3>1. Len(y) = Len(o) + Len(w) /\ Len(w) \in Nat
      BY <2>4, JoinAt
    <3>2. QED
      BY <2>1, <2>4, <3>1
  <2>6. w # <<>>
    BY <2>5, EmptySeq
  <2>7. First(c, n) = Insert(o)
    <3>1. SubSeq(y, 1, n) = o
      BY <2>4, SubSeqsOfJoin
    <3>2. QED
      BY <1>2, <2>1, <3>1, InsertIs, RetainIs, DeleteIs DEF First
  <2>8. Rest(c, n) = Insert(w)
    <3>1. SubSeq(y, n + 1, Len(y)) = w
      BY <2>4, SubSeqsOfJoin
    <3>2. [Insert(y) EXCEPT !.text = SubSeq(@, n + 1, Len(@))] = Insert(w)
      <4>1. Insert(y).text = y
        BY InsertIs, RetainIs, DeleteIs
      <4>2. SubSeq(Insert(y).text, n + 1, Len(Insert(y).text)) = w
        BY <3>1, <4>1
      <4>3. [Insert(y) EXCEPT !.text = w] = Insert(w)
        BY LongerInsert
      <4>4. QED
        BY <4>2, <4>3
    <3>3. QED
      BY <1>2, <2>1, <3>2 DEF Rest
  <2>9. Moves(U, First(c, n), <<>>, o) /\ Moves(U, Rest(c, n), <<>>, w)
    BY <1>1, <2>4, <2>7, <2>8 DEF Moves
  <2>10. Rest(c, n) \in Component(U)
    BY <2>4, <2>6, <2>8, PartsAre
  <2>11. SplitMoves(U, c, n, x, y, <<>>, o, <<>>, w)
    BY <1>1, <2>1, <2>4, <2>9, <2>10 DEF SplitMoves
  <2>12. QED
    BY <2>11
<1>3. CASE c.kind # "insert"
  <2>1. PICK m \in Nat : m = Len(x) /\ c.n = m
    <3>1. Len(x) \in Nat
      BY <1>1, LenProperties
    <3>2. c.n = Len(x)
      <4>1. CASE c.kind = "retain"
        BY <4>1, MovesKind, InsertIs, RetainIs, DeleteIs
      <4>2. CASE c.kind = "delete"
        BY <4>2, MovesKind, InsertIs, RetainIs, DeleteIs
      <4>3. QED
        BY <1>3, <4>1, <4>2, PartType
    <3>3. QED
      BY <3>1, <3>2
  <2>2. n < m
    BY <1>3, <2>1 DEF Extent
  <2>3. x \in Seq(U) /\ n \in 0 .. Len(x)
    BY <1>1, <2>1, <2>2
  <2>4. PICK p \in Seq(U), v \in Seq(U) : x = p \o v /\ Len(p) = n
    <3>1. \E x1, e1 : IsSplit(U, x, n, x1, e1)
      BY <2>3, SplitOf
    <3>2. QED
      BY <3>1, Zenon DEF IsSplit
  <2>5. Len(v) = m - n /\ m - n \in Nat \ {0}
    <3>1. Len(x) = Len(p) + Len(v) /\ Len(v) \in Nat
      BY <2>4, JoinAt
    <3>2. QED
      BY <2>1, <2>2, <2>4, <3>1
  <2>6. CASE c.kind = "retain"
    <3>1. c = Retain(m) /\ y = x
      BY <2>1, <2>6, MovesKind
    <3>2. First(c, n) = Retain(n)
      BY <2>6 DEF First
    <3>3. Rest(c, n) = Retain(m - n)
      <4>1. [Retain(m) EXCEPT !.n = @ - n] = Retain(m - n)
        BY DEF Retain
      <4>2. QED
        BY <1>3, <3>1, <4>1 DEF Rest
    <3>4. Moves(U, First(c, n), p, p) /\ Moves(U, Rest(c, n), v, v)
      BY <2>4, <2>5, <3>2, <3>3 DEF Moves
    <3>5. Rest(c, n) \in Component(U)
      BY <2>5, <3>3, PartsAre
    <3>6. SplitMoves(U, c, n, x, y, p, p, v, v)
      BY <2>4, <3>1, <3>4, <3>5 DEF SplitMoves
    <3>7. QED
      BY <3>6
  <2>7. CASE c.kind = "delete"
    <3>1. c = Delete(m) /\ y = <<>>
      BY <2>1, <2>7, MovesKind
    <3>2. First(c, n) = Delete(n)
      BY <2>7 DEF First
    <3>3. Rest(c, n) = Delete(m - n)
      <4>1. [Delete(m) EXCEPT !.n = @ - n] = Delete(m - n)
        BY DEF Delete
      <4>2. QED
        BY <1>3, <3>1, <4>1 DEF Rest
    <3>4. Moves(U, First(c, n), p, <<>>) /\ Moves(U, Rest(c, n), v, <<>>)
      BY <1>1, <2>4, <2>5, <3>2, <3>3 DEF Moves
    <3>5. Rest(c, n) \in Component(U)
      BY <2>5, <3>3, PartsAre
    <3>6. SplitMoves(U, c, n, x, y, p, <<>>, v, <<>>)
      BY <1>1, <2>4, <3>1, <3>4, <3>5 DEF SplitMoves
    <3>7. QED
      BY <3>6
  <2>8. QED
    BY <1>3, <2>6, <2>7, PartType
<1>4. QED
  BY <1>2, <1>3

Consumed(U, op, n, x, y, p, o, v, w) ==
  /\ x = p \o v /\ y = o \o w
  /\ Moves(U, First(Head(op), n), p, o) /\ Runs(U, Consume(op, n), v, w)

LEMMA ConsumeRuns ==
  ASSUME NEW U, NEW op, NEW x, NEW y, Runs(U, op, x, y), op # <<>>,
         NEW n \in Nat \ {0}, n <= Extent(Head(op))
  PROVE  \E p, o, v, w : Consumed(U, op, n, x, y, p, o, v, w)
<1>1. PICK c, rest : c = Head(op) /\ rest = Tail(op)
  OBVIOUS
<1>2. op \in Seq(Component(U))
  BY DEF Runs
<1>3. c \in Component(U) /\ rest \in Seq(Component(U))
  BY <1>1, <1>2, HeadRest
<1>4. PICK p, o, v, w : Peeled(U, op, x, y, p, o, v, w)
  BY HeadRuns
<1>5. x = p \o v /\ y = o \o w /\ Moves(U, c, p, o) /\ Runs(U, rest, v, w)
  BY <1>1, <1>4 DEF Peeled
<1>6. /\ p \in Seq(U) /\ v \in Seq(U) /\ o \in Seq(U) /\ w \in Seq(U)
  BY <1>5 DEF Moves, Runs
<1>7. Extent(c) \in Nat
  <2>1. c.n \in Nat /\ Len(c.text) \in Nat
    BY <1>3, PartType, LenProperties
  <2>2. QED
    BY <2>1 DEF Extent
<1>8. CASE Extent(c) > n
  <2>1. n < Extent(c)
    BY <1>7, <1>8
  <2>2. PICK p1, o1, p2, o2 : SplitMoves(U, c, n, p, o, p1, o1, p2, o2)
    BY <1>3, <1>5, <2>1, MovesSplit
  <2>3. /\ p = p1 \o p2 /\ o = o1 \o o2 /\ Moves(U, First(c, n), p1, o1)
        /\ Moves(U, Rest(c, n), p2, o2) /\ Rest(c, n) \in Component(U)
    BY <2>2 DEF SplitMoves
  <2>4. p1 \in Seq(U) /\ p2 \in Seq(U) /\ o1 \in Seq(U) /\ o2 \in Seq(U)
    BY <2>3 DEF Moves
  <2>5. Runs(U, <<Rest(c, n)>>, p2, o2)
    BY <2>3, SingleRuns
  <2>6. Runs(U, <<Rest(c, n)>> \o rest, p2 \o v, o2 \o w)
    BY <1>5, <2>5, JoinRuns
  <2>7. Consume(op, n) = <<Rest(c, n)>> \o rest
    BY <1>1, <1>8 DEF Consume
  <2>8. x = p1 \o (p2 \o v)
    <3>1. (p1 \o p2) \o v = p1 \o (p2 \o v)
      <4>1. p1 \in Seq(U) /\ p2 \in Seq(U) /\ v \in Seq(U)
        BY <1>6, <2>4
      <4>2. QED
        BY <4>1, JoinThree
    <3>2. QED
      BY <1>5, <2>3, <3>1
  <2>9. y = o1 \o (o2 \o w)
    <3>1. (o1 \o o2) \o w = o1 \o (o2 \o w)
      <4>1. o1 \in Seq(U) /\ o2 \in Seq(U) /\ w \in Seq(U)
        BY <1>6, <2>4
      <4>2. QED
        BY <4>1, JoinThree
    <3>2. QED
      BY <1>5, <2>3, <3>1
  <2>10. Consumed(U, op, n, x, y, p1, o1, p2 \o v, o2 \o w)
    BY <1>1, <2>3, <2>6, <2>7, <2>8, <2>9 DEF Consumed
  <2>11. QED
    BY <2>10
<1>9. CASE ~(Extent(c) > n)
  <2>1. n = Extent(c)
    BY <1>1, <1>7, <1>9
  <2>2. First(c, n) = c
    <3>1. CASE c.kind = "insert"
      <4>1. SubSeq(c.text, 1, Len(c.text)) = c.text /\ n = Len(c.text)
        BY <1>3, <2>1, <3>1, PartType, SubSeqFull DEF Extent
      <4>2. QED
        BY <1>3, <3>1, <4>1, PartType DEF First
    <3>2. CASE c.kind = "retain"
      BY <1>3, <2>1, <3>2, PartType DEF First, Extent
    <3>3. CASE c.kind = "delete"
      BY <1>3, <2>1, <3>3, PartType DEF First, Extent
    <3>4. QED
      BY <1>3, <3>1, <3>2, <3>3, PartType
  <2>3. Consume(op, n) = rest
    BY <1>1, <1>9 DEF Consume
  <2>4. Consumed(U, op, n, x, y, p, o, v, w)
    BY <1>1, <1>5, <2>2, <2>3 DEF Consumed
  <2>5. QED
    BY <2>4
<1>10. QED
  BY <1>8, <1>9

\* A component that is used up is gone.
LEMMA ConsumeShortens ==
  ASSUME NEW U, NEW op \in Seq(Component(U)), op # <<>>, NEW n \in Nat \ {0}
  PROVE  /\ Len(Consume(op, n)) \in Nat /\ Len(Consume(op, n)) <= Len(op)
         /\ n = Extent(Head(op)) => Len(Consume(op, n)) < Len(op)
<1>1. PICK c, rest : c = Head(op) /\ rest = Tail(op)
  OBVIOUS
<1>2. rest \in Seq(Component(U)) /\ Len(rest) = Len(op) - 1 /\ Len(op) \in Nat \ {0}
  BY <1>1, HeadRest
<1>3. CASE Extent(c) > n
  <2>1. Len(<<Rest(c, n)>> \o rest) = 1 + Len(rest)
    <3>1. \E E : <<Rest(c, n)>> \in Seq(E) /\ rest \in Seq(E)
      <4>1. /\ <<Rest(c, n)>> \in Seq(Component(U) \cup {Rest(c, n)})
            /\ rest \in Seq(Component(U) \cup {Rest(c, n)})
        BY <1>2
      <4>2. QED
        BY <4>1
    <3>2. QED
      BY <3>1, ConcatProperties
  <2>2. Consume(op, n) = <<Rest(c, n)>> \o rest
    BY <1>1, <1>3 DEF Consume
  <2>3. Len(Consume(op, n)) = Len(op)
    BY <1>2, <2>1, <2>2
  <2>4. n # Extent(c)
    BY <1>3
  <2>5. QED
    BY <1>1, <1>2, <2>3, <2>4
<1>4. CASE ~(Extent(c) > n)
  <2>1. Consume(op, n) = rest
    BY <1>1, <1>4 DEF Consume
  <2>2. QED
    BY <1>2, <2>1
<1>5. QED
  BY <1>3, <1>4

LEMMA RetainRuns ==
  ASSUME NEW U, NEW out, NEW y, NEW m, Runs(U, out, y, m), NEW p \in Seq(U),
         NEW n \in Nat \ {0}, n = Len(p)
  PROVE  Runs(U, AddRetain(out, n), y \o p, m \o p)
<1>1. out \in Seq(Component(U))
  BY DEF Runs
<1>2. Extends(U, out, Retain(n), AddRetain(out, n))
  BY <1>1, RetainExtends
<1>3. Moves(U, Retain(n), p, p)
  BY DEF Moves
<1>4. QED
  BY <1>2, <1>3, RunsOn

LEMMA DeleteRuns ==
  ASSUME NEW U, NEW out, NEW y, NEW m, Runs(U, out, y, m), NEW p \in Seq(U),
         NEW n \in Nat \ {0}, n = Len(p)
  PROVE  Runs(U, AddDelete(out, n), y \o p, m)
<1>1. out \in Seq(Component(U)) /\ m \in Seq(U) /\ <<>> \in Seq(U)
  BY EmptySeq DEF Runs
<1>2. Extends(U, out, Delete(n), AddDelete(out, n))
  BY <1>1, DeleteExtends
<1>3. Moves(U, Delete(n), p, <<>>)
  BY <1>1 DEF Moves
<1>4. Runs(U, AddDelete(out, n), y \o p, m \o <<>>)
  BY <1>2, <1>3, RunsOn
<1>5. m \o <<>> = m
  BY <1>1, ConcatEmptySeq
<1>6. QED
  BY <1>4, <1>5

LEMMA InsertRuns ==
  ASSUME NEW U, NEW out, NEW y, NEW m, Runs(U, out, y, m), NEW t \in Seq(U), t # <<>>
  PROVE  Runs(U, AddInsert(out, t), y, m \o t)
<1>1. out \in Seq(Component(U)) /\ y \in Seq(U) /\ <<>> \in Seq(U)
  BY EmptySeq DEF Runs
<1>2. Extends(U, out, Insert(t), AddInsert(out, t))
  BY <1>1, InsertExtends
<1>3. Moves(U, Insert(t), <<>>, t)
  BY <1>1 DEF Moves
<1>4. Runs(U, AddInsert(out, t), y \o <<>>, m \o t)
  BY <1>2, <1>3, RunsOn
<1>5. y \o <<>> = y
  BY <1>1, ConcatEmptySeq
<1>6. QED
  BY <1>4, <1>5

LEMMA FrontsEqual ==
  ASSUME NEW U, NEW x \in Seq(U), NEW v \in Seq(U), NEW y \in Seq(U), NEW w \in Seq(U),
         x \o v = y \o w, Len(x) = Len(y)
  PROVE  x = y /\ v = w
<1>1. SubSeq(x \o v, 1, Len(x)) = x /\ SubSeq(x \o v, Len(x) + 1, Len(x \o v)) = v
  BY SubSeqsOfJoin
<1>2. SubSeq(y \o w, 1, Len(y)) = y /\ SubSeq(y \o w, Len(y) + 1, Len(y \o w)) = w
  BY SubSeqsOfJoin
<1>3. QED
  BY <1>1, <1>2

----------------------------------------------------------------------------
\* Transforming.  What is left of a and b runs over what is left of the text; what
\* was built of a' runs over what b made so far, what was built of b' over what a
\* made, and both make the same of it.

TransAt(U, da, db, a, b, p, q, r, za, zb, ya, yb, m) ==
  /\ da = ya \o za /\ db = yb \o zb
  /\ Runs(U, a, r, za) /\ Runs(U, b, r, zb)
  /\ Runs(U, p, yb, m) /\ Runs(U, q, ya, m)

Trans(U, da, db, a, b, p, q) ==
  \E r, za, zb, ya, yb, m : TransAt(U, da, db, a, b, p, q, r, za, zb, ya, yb, m)

LEMMA TransSwap ==
  ASSUME NEW U, NEW da, NEW db, NEW a, NEW b, NEW p, NEW q, Trans(U, da, db, a, b, p, q)
  PROVE  Trans(U, db, da, b, a, q, p)
<1>1. PICK r, za, zb, ya, yb, m : TransAt(U, da, db, a, b, p, q, r, za, zb, ya, yb, m)
  BY DEF Trans
<1>2. TransAt(U, db, da, b, a, q, p, r, zb, za, yb, ya, m)
  BY <1>1 DEF TransAt
<1>3. QED
  BY <1>2 DEF Trans

\* What a inserts is made, and kept by b.
LEMMA TransInserts ==
  ASSUME NEW U, NEW da, NEW db, NEW a, NEW b, NEW p, NEW q,
         NEW r, NEW za, NEW zb, NEW ya, NEW yb, NEW m,
         TransAt(U, da, db, a, b, p, q, r, za, zb, ya, yb, m),
         a # <<>>, NEW t, t = Head(a).text, Head(a).kind = "insert"
  PROVE  /\ t \in Seq(U)
         /\ \E z : TransAt(U, da, db, Tail(a), b, AddInsert(p, t), AddRetain(q, Len(t)),
                           r, z, zb, ya \o t, yb, m \o t)
<1>1. /\ da = ya \o za /\ db = yb \o zb
      /\ Runs(U, a, r, za) /\ Runs(U, b, r, zb)
      /\ Runs(U, p, yb, m) /\ Runs(U, q, ya, m)
  BY DEF TransAt
<1>2. PICK x, o, v, w : Peeled(U, a, r, za, x, o, v, w)
  BY <1>1, HeadRuns
<1>3. r = x \o v /\ za = o \o w /\ Moves(U, Head(a), x, o) /\ Runs(U, Tail(a), v, w)
  BY <1>2 DEF Peeled
<1>4. x = <<>> /\ o = t /\ t \in Seq(U)
  BY <1>3, MovesKind, InsertIs, RetainIs, DeleteIs
<1>5. t # <<>>
  <2>1. a \in Seq(Component(U))
    BY <1>1 DEF Runs
  <2>2. Head(a) \in Component(U)
    BY <2>1, HeadRest
  <2>3. QED
    BY <2>2, PartType
<1>6. Len(t) \in Nat \ {0}
  BY <1>4, <1>5, EmptySeq
<1>7. ya \in Seq(U) /\ v \in Seq(U) /\ w \in Seq(U)
  BY <1>1, <1>3 DEF Runs
<1>8. r = v
  BY <1>3, <1>4, <1>7, ConcatEmptySeq
<1>9. da = (ya \o t) \o w
  <2>1. (ya \o o) \o w = ya \o (o \o w)
    <3>1. ya \in Seq(U) /\ o \in Seq(U) /\ w \in Seq(U)
      BY <1>4, <1>7
    <3>2. QED
      BY <3>1, JoinThree
  <2>2. QED
    BY <1>1, <1>3, <1>4, <2>1
<1>10. Runs(U, AddInsert(p, t), yb, m \o t)
  BY <1>1, <1>4, <1>5, InsertRuns
<1>11. Runs(U, AddRetain(q, Len(t)), ya \o t, m \o t)
  BY <1>1, <1>4, <1>6, RetainRuns
<1>12. TransAt(U, da, db, Tail(a), b, AddInsert(p, t), AddRetain(q, Len(t)),
               r, w, zb, ya \o t, yb, m \o t)
  BY <1>1, <1>3, <1>8, <1>9, <1>10, <1>11 DEF TransAt
<1>13. QED
  BY <1>4, <1>12

LEMMA TransInsert ==
  ASSUME NEW U, NEW da, NEW db, NEW a, NEW b, NEW p, NEW q, Trans(U, da, db, a, b, p, q),
         a # <<>>, NEW t, t = Head(a).text, Head(a).kind = "insert"
  PROVE  Trans(U, da, db, Tail(a), b, AddInsert(p, t), AddRetain(q, Len(t)))
<1>1. PICK r, za, zb, ya, yb, m : TransAt(U, da, db, a, b, p, q, r, za, zb, ya, yb, m)
  BY DEF Trans
<1>2. QED
  BY <1>1, TransInserts DEF Trans

\* What is built of n characters that one or both of them retain or delete.
Made(out, n, deletes, other) == IF other THEN out
                                ELSE IF deletes THEN AddDelete(out, n) ELSE AddRetain(out, n)

Kept(x, deletes) == IF deletes THEN <<>> ELSE x

LEMMA MadeRuns ==
  ASSUME NEW U, NEW out, NEW y, NEW m, Runs(U, out, y, m), NEW x \in Seq(U),
         NEW n \in Nat \ {0}, n = Len(x), NEW deletes \in BOOLEAN, NEW other \in BOOLEAN
  PROVE  Runs(U, Made(out, n, deletes, other), y \o Kept(x, other),
              m \o Kept(x, deletes \/ other))
<1>1. y \in Seq(U) /\ m \in Seq(U)
  BY DEF Runs
<1>2. y \o <<>> = y /\ m \o <<>> = m
  BY <1>1, ConcatEmptySeq
<1>3. CASE other
  BY <1>2, <1>3 DEF Made, Kept
<1>4. CASE ~other /\ deletes
  <2>1. Runs(U, AddDelete(out, n), y \o x, m)
    BY DeleteRuns
  <2>2. QED
    BY <1>2, <1>4, <2>1 DEF Made, Kept
<1>5. CASE ~other /\ ~deletes
  <2>1. Runs(U, AddRetain(out, n), y \o x, m \o x)
    BY RetainRuns
  <2>2. QED
    BY <1>5, <2>1 DEF Made, Kept
<1>6. QED
  BY <1>3, <1>4, <1>5

\* The first n characters of a retain or a delete.
FirstTaken(U, a, n, deletes, r, za, x, v, w) ==
  /\ r = x \o v /\ za = Kept(x, deletes) \o w /\ Runs(U, Consume(a, n), v, w)
  /\ x \in Seq(U) /\ Len(x) = n

LEMMA TakesFirst ==
  ASSUME NEW U, NEW a, NEW r, NEW za, Runs(U, a, r, za), a # <<>>, Head(a).kind # "insert",
         NEW n \in Nat \ {0}, n <= Head(a).n, NEW deletes, deletes = (Head(a).kind = "delete")
  PROVE  \E x, v, w : FirstTaken(U, a, n, deletes, r, za, x, v, w)
<1>1. a \in Seq(Component(U))
  BY DEF Runs
<1>2. PICK c \in Component(U) : c = Head(a)
  BY <1>1, HeadRest
<1>3. n <= Extent(Head(a))
  BY DEF Extent
<1>4. PICK x, o, v, w : Consumed(U, a, n, r, za, x, o, v, w)
  BY <1>3, ConsumeRuns
<1>5. r = x \o v /\ za = o \o w /\ Moves(U, First(c, n), x, o) /\ Runs(U, Consume(a, n), v, w)
  BY <1>2, <1>4 DEF Consumed
<1>6. x \in Seq(U)
  BY <1>5 DEF Moves
<1>7. CASE c.kind = "retain"
  <2>1. First(c, n) = Retain(n)
    BY <1>7 DEF First
  <2>2. Retain(n) = Retain(Len(x)) /\ o = x
    BY <1>5, <2>1, MovesKind, InsertIs, RetainIs, DeleteIs
  <2>3. Len(x) = n
    BY <2>2, InsertIs, RetainIs, DeleteIs
  <2>4. Kept(x, deletes) = x
    BY <1>2, <1>7 DEF Kept
  <2>5. FirstTaken(U, a, n, deletes, r, za, x, v, w)
    BY <1>5, <1>6, <2>2, <2>3, <2>4 DEF FirstTaken
  <2>6. QED
    BY <2>5
<1>8. CASE c.kind = "delete"
  <2>1. First(c, n) = Delete(n)
    BY <1>8 DEF First
  <2>2. Delete(n) = Delete(Len(x)) /\ o = <<>>
    BY <1>5, <2>1, MovesKind, InsertIs, RetainIs, DeleteIs
  <2>3. Len(x) = n
    BY <2>2, InsertIs, RetainIs, DeleteIs
  <2>4. Kept(x, deletes) = <<>>
    BY <1>2, <1>8 DEF Kept
  <2>5. FirstTaken(U, a, n, deletes, r, za, x, v, w)
    BY <1>5, <1>6, <2>2, <2>3, <2>4 DEF FirstTaken
  <2>6. QED
    BY <2>5
<1>9. QED
  BY <1>2, <1>7, <1>8, PartType

\* The first n characters x of what both have left.
BothTake(U, da, db, a, b, p, q, n, dela, delb, r, ya, yb, m, x) ==
  /\ x \in Seq(U) /\ Len(x) = n
  /\ \E v, z, zb : /\ r = x \o v
                   /\ TransAt(U, da, db, Consume(a, n), Consume(b, n), Made(p, n, dela, delb),
                              Made(q, n, delb, dela), v, z, zb, ya \o Kept(x, dela),
                              yb \o Kept(x, delb), m \o Kept(x, dela \/ delb))

LEMMA TransTakes ==
  ASSUME NEW U, NEW da, NEW db, NEW a, NEW b, NEW p, NEW q,
         NEW r, NEW za, NEW zb, NEW ya, NEW yb, NEW m,
         TransAt(U, da, db, a, b, p, q, r, za, zb, ya, yb, m),
         a # <<>>, b # <<>>, Head(a).kind # "insert", Head(b).kind # "insert",
         NEW n \in Nat \ {0}, n <= Head(a).n, n <= Head(b).n,
         NEW dela \in BOOLEAN, NEW delb \in BOOLEAN,
         dela = (Head(a).kind = "delete"), delb = (Head(b).kind = "delete")
  PROVE  \E x : BothTake(U, da, db, a, b, p, q, n, dela, delb, r, ya, yb, m, x)
<1>1. /\ da = ya \o za /\ db = yb \o zb
      /\ Runs(U, a, r, za) /\ Runs(U, b, r, zb)
      /\ Runs(U, p, yb, m) /\ Runs(U, q, ya, m)
  BY DEF TransAt
<1>2. PICK x, v, w : FirstTaken(U, a, n, dela, r, za, x, v, w)
  BY <1>1, TakesFirst
<1>3. PICK x2, v2, w2 : FirstTaken(U, b, n, delb, r, zb, x2, v2, w2)
  BY <1>1, TakesFirst
<1>4. x = x2 /\ v = v2
  <2>1. v \in Seq(U) /\ v2 \in Seq(U) /\ x \in Seq(U) /\ x2 \in Seq(U)
    BY <1>2, <1>3 DEF FirstTaken, Runs
  <2>2. x \o v = x2 \o v2 /\ Len(x) = Len(x2)
    BY <1>2, <1>3 DEF FirstTaken
  <2>3. QED
    BY <2>1, <2>2, FrontsEqual
<1>5. /\ ya \in Seq(U) /\ yb \in Seq(U) /\ w \in Seq(U) /\ w2 \in Seq(U)
      /\ Kept(x, dela) \in Seq(U) /\ Kept(x, delb) \in Seq(U)
  BY <1>1, <1>2, <1>3, <1>4, EmptySeq DEF Runs, Kept, FirstTaken
<1>6. da = (ya \o Kept(x, dela)) \o w
  <2>1. (ya \o Kept(x, dela)) \o w = ya \o (Kept(x, dela) \o w)
    <3>1. ya \in Seq(U) /\ Kept(x, dela) \in Seq(U) /\ w \in Seq(U)
      BY <1>5
    <3>2. QED
      BY <3>1, JoinThree
  <2>2. QED
    BY <1>1, <1>2, <2>1 DEF FirstTaken
<1>7. db = (yb \o Kept(x, delb)) \o w2
  <2>1. (yb \o Kept(x, delb)) \o w2 = yb \o (Kept(x, delb) \o w2)
    <3>1. yb \in Seq(U) /\ Kept(x, delb) \in Seq(U) /\ w2 \in Seq(U)
      BY <1>5
    <3>2. QED
      BY <3>1, JoinThree
  <2>2. QED
    BY <1>1, <1>3, <1>4, <2>1 DEF FirstTaken
<1>8. Runs(U, Made(p, n, dela, delb), yb \o Kept(x, delb), m \o Kept(x, dela \/ delb))
  <2>1. x \in Seq(U) /\ n = Len(x)
    BY <1>2 DEF FirstTaken
  <2>2. QED
    BY <1>1, <2>1, MadeRuns
<1>9. Runs(U, Made(q, n, delb, dela), ya \o Kept(x, dela), m \o Kept(x, delb \/ dela))
  <2>1. x \in Seq(U) /\ n = Len(x)
    BY <1>2 DEF FirstTaken
  <2>2. QED
    BY <1>1, <2>1, MadeRuns
<1>10. Kept(x, delb \/ dela) = Kept(x, dela \/ delb)
  BY DEF Kept
<1>11. TransAt(U, da, db, Consume(a, n), Consume(b, n), Made(p, n, dela, delb),
               Made(q, n, delb, dela), v, w, w2, ya \o Kept(x, dela), yb \o Kept(x, delb),
               m \o Kept(x, dela \/ delb))
  BY <1>2, <1>3, <1>4, <1>6, <1>7, <1>8, <1>9, <1>10 DEF TransAt, FirstTaken
<1>12. x \in Seq(U) /\ r = x \o v /\ Len(x) = n
  BY <1>2 DEF FirstTaken
<1>13. QED
  BY <1>11, <1>12 DEF BothTake

LEMMA TransBoth ==
  ASSUME NEW U, NEW da, NEW db, NEW a, NEW b, NEW p, NEW q, Trans(U, da, db, a, b, p, q),
         a # <<>>, b # <<>>, Head(a).kind # "insert", Head(b).kind # "insert",
         NEW n \in Nat \ {0}, n <= Head(a).n, n <= Head(b).n,
         NEW dela \in BOOLEAN, NEW delb \in BOOLEAN,
         dela = (Head(a).kind = "delete"), delb = (Head(b).kind = "delete")
  PROVE  Trans(U, da, db, Consume(a, n), Consume(b, n), Made(p, n, dela, delb),
               Made(q, n, delb, dela))
<1>1. PICK r, za, zb, ya, yb, m : TransAt(U, da, db, a, b, p, q, r, za, zb, ya, yb, m)
  BY DEF Trans
<1>2. PICK x : BothTake(U, da, db, a, b, p, q, n, dela, delb, r, ya, yb, m, x)
  BY <1>1, TransTakes
<1>3. QED
  BY <1>2 DEF BothTake, Trans

\* Nothing but inserts runs over nothing.
LEMMA SpansNothing ==
  ASSUME NEW U, NEW op \in Seq(Component(U)), op # <<>>, opBaseLength(op) = 0
  PROVE  Head(op).kind = "insert"
<1>1. PICK c \in Component(U), rest \in Seq(Component(U)) : c = Head(op) /\ op = <<c>> \o rest
  <2>1. /\ Head(op) \in Component(U) /\ Tail(op) \in Seq(Component(U))
        /\ op = <<Head(op)>> \o Tail(op)
    BY HeadRest
  <2>2. QED
    BY <2>1, Zenon
<1>2. PICK b \in Nat : b = opBaseLength(rest)
  BY BaseJoin
<1>3. opBaseLength(op) = c.n + b
  BY <1>1, <1>2, SingleBase, BaseJoin
<1>4. c.n \in Nat
  BY PartType
<1>5. c.n = 0
  BY <1>2, <1>3, <1>4
<1>6. QED
  BY <1>1, <1>5, PartType

LEMMA TransTypes ==
  ASSUME NEW U, NEW da, NEW db, NEW a, NEW b, NEW p, NEW q, Trans(U, da, db, a, b, p, q)
  PROVE  /\ a \in Seq(Component(U)) /\ b \in Seq(Component(U))
         /\ p \in Seq(Component(U)) /\ q \in Seq(Component(U))
         /\ a = <<>> /\ b # <<>> => Head(b).kind = "insert"
<1>1. PICK r, za, zb, ya, yb, m : TransAt(U, da, db, a, b, p, q, r, za, zb, ya, yb, m)
  BY DEF Trans
<1>2. Runs(U, a, r, za) /\ Runs(U, b, r, zb) /\ Runs(U, p, yb, m) /\ Runs(U, q, ya, m)
  BY <1>1 DEF TransAt
<1>3. /\ a \in Seq(Component(U)) /\ b \in Seq(Component(U))
      /\ p \in Seq(Component(U)) /\ q \in Seq(Component(U))
  BY <1>2 DEF Runs
<1>4. ASSUME a = <<>>, b # <<>>
      PROVE  Head(b).kind = "insert"
  <2>1. opBaseLength(a) = 0
    BY <1>3, <1>4, BaseLaws
  <2>2. opBaseLength(a) = Len(r) /\ opBaseLength(b) = Len(r)
    BY <1>2, RunsLengths
  <2>3. opBaseLength(b) = 0
    BY <2>1, <2>2
  <2>4. QED
    BY <1>3, <1>4, <2>3, SpansNothing
<1>5. QED
  BY <1>3, <1>4

\* At the end both make the same.
LEMMA TransDone ==
  ASSUME NEW U, NEW da, NEW db, NEW p, NEW q, Trans(U, da, db, <<>>, <<>>, p, q)
  PROVE  \E m : Runs(U, p, db, m) /\ Runs(U, q, da, m)
<1>1. PICK r, za, zb, ya, yb, m : TransAt(U, da, db, <<>>, <<>>, p, q, r, za, zb, ya, yb, m)
  BY DEF Trans
<1>2. /\ da = ya \o za /\ db = yb \o zb
      /\ Runs(U, <<>>, r, za) /\ Runs(U, <<>>, r, zb)
      /\ Runs(U, p, yb, m) /\ Runs(U, q, ya, m)
  BY <1>1 DEF TransAt
<1>3. ASSUME NEW z, Runs(U, <<>>, r, z)
      PROVE  z = <<>>
  <2>1. opTargetLength(<<>>) = 0
    <3>1. <<>> \in Seq(Component(U))
      BY EmptySeq
    <3>2. QED
      BY <3>1, TargetLaws
  <2>2. Len(z) = 0 /\ z \in Seq(U)
    <3>1. opTargetLength(<<>>) = Len(z)
      BY <1>3, RunsLengths
    <3>2. z \in Seq(U)
      BY <1>3 DEF Runs
    <3>3. QED
      BY <2>1, <3>1, <3>2
  <2>3. QED
    BY <2>2, EmptySeq
<1>4. za = <<>> /\ zb = <<>>
  BY <1>2, <1>3
<1>5. ya \in Seq(U) /\ yb \in Seq(U)
  BY <1>2 DEF Runs
<1>6. da = ya /\ db = yb
  BY <1>2, <1>4, <1>5, ConcatEmptySeq
<1>7. QED
  BY <1>2, <1>6

TransStates(U, da, db) ==
  {s \in [a : Seq(Component(U)), b : Seq(Component(U)),
          aOut : Seq(Component(U)), bOut : Seq(Component(U))] :
     Trans(U, da, db, s.a, s.b, s.aOut, s.bOut)}

Left(s) == Len(s.a) + Len(s.b)

LEMMA TransRecord ==
  ASSUME NEW U, NEW da, NEW db, NEW a, NEW b, NEW p, NEW q, Trans(U, da, db, a, b, p, q)
  PROVE  [a |-> a, b |-> b, aOut |-> p, bOut |-> q] \in TransStates(U, da, db)
<1>1. /\ a \in Seq(Component(U)) /\ b \in Seq(Component(U))
      /\ p \in Seq(Component(U)) /\ q \in Seq(Component(U))
  BY TransTypes
<1>2. QED
  BY <1>1 DEF TransStates

\* A round keeps this, and uses up a component.
LEMMA TransformRoundKeeps ==
  ASSUME NEW U, NEW da, NEW db, NEW s \in TransStates(U, da, db)
  PROVE  /\ TransformRound(s) \in TransStates(U, da, db)
         /\ Left(s) \in Nat /\ Left(TransformRound(s)) \in Nat
         /\ Left(s) > 0 => Left(TransformRound(s)) < Left(s)
         /\ Left(s) = 0 => Left(TransformRound(s)) = 0
<1>1. PICK a, b, p, q : a = s.a /\ b = s.b /\ p = s.aOut /\ q = s.bOut
  OBVIOUS
<1>2. s = [a |-> a, b |-> b, aOut |-> p, bOut |-> q] /\ Trans(U, da, db, a, b, p, q)
  BY <1>1 DEF TransStates
<1>3. /\ a \in Seq(Component(U)) /\ b \in Seq(Component(U))
      /\ a = <<>> /\ b # <<>> => Head(b).kind = "insert"
      /\ b = <<>> /\ a # <<>> => Head(a).kind = "insert"
  BY <1>2, TransSwap, TransTypes
<1>4. Len(a) \in Nat /\ Len(b) \in Nat /\ Left(s) = Len(a) + Len(b)
  BY <1>1, <1>3, LenProperties DEF Left
<1>5. CASE a = <<>> /\ b = <<>>
  <2>1. TransformRound(s) = s
    BY <1>1, <1>5 DEF TransformRound
  <2>2. Left(s) = 0
    BY <1>4, <1>5, EmptySeq
  <2>3. QED
    BY <1>4, <2>1, <2>2
<1>6. CASE a # <<>> /\ Head(a).kind = "insert"
  <2> DEFINE t == Head(a).text
             u == [a |-> Tail(a), b |-> b, aOut |-> AddInsert(p, t), bOut |-> AddRetain(q, Len(t))]
  <2>1. TransformRound(s) = u
    BY <1>2, <1>6 DEF TransformRound
  <2>2. Trans(U, da, db, Tail(a), b, AddInsert(p, t), AddRetain(q, Len(t)))
    BY <1>2, <1>6, TransInsert
  <2>3. u \in TransStates(U, da, db)
    BY <2>2, TransRecord
  <2>4. Len(Tail(a)) = Len(a) - 1 /\ Len(a) \in Nat \ {0}
    BY <1>3, <1>6, HeadRest
  <2>5. Left(u) = (Len(a) - 1) + Len(b)
    BY <2>4 DEF Left
  <2> HIDE DEF u
  <2>6. QED
    BY <1>4, <2>1, <2>3, <2>4, <2>5
<1>7. CASE ~(a # <<>> /\ Head(a).kind = "insert") /\ b # <<>> /\ Head(b).kind = "insert"
  <2> DEFINE t == Head(b).text
             u == [a |-> a, b |-> Tail(b), aOut |-> AddRetain(p, Len(t)), bOut |-> AddInsert(q, t)]
  <2>1. TransformRound(s) = u
    BY <1>2, <1>7 DEF TransformRound
  <2>2. Trans(U, da, db, a, Tail(b), AddRetain(p, Len(t)), AddInsert(q, t))
    <3>1. Trans(U, db, da, b, a, q, p)
      BY <1>2, TransSwap
    <3>2. Trans(U, db, da, Tail(b), a, AddInsert(q, t), AddRetain(p, Len(t)))
      BY <1>7, <3>1, TransInsert
    <3>3. QED
      BY <3>2, TransSwap
  <2>3. u \in TransStates(U, da, db)
    BY <2>2, TransRecord
  <2>4. Len(Tail(b)) = Len(b) - 1 /\ Len(b) \in Nat \ {0}
    BY <1>3, <1>7, HeadRest
  <2>5. Left(u) = Len(a) + (Len(b) - 1)
    BY <2>4 DEF Left
  <2> HIDE DEF u
  <2>6. QED
    BY <1>4, <2>1, <2>3, <2>4, <2>5
<1>8. CASE a # <<>> /\ b # <<>> /\ Head(a).kind # "insert" /\ Head(b).kind # "insert"
  <2> DEFINE n == Smaller(Head(a).n, Head(b).n)
             dela == Head(a).kind = "delete"
             delb == Head(b).kind = "delete"
             u == [a |-> Consume(a, n), b |-> Consume(b, n),
                   aOut |-> Made(p, n, dela, delb), bOut |-> Made(q, n, delb, dela)]
  <2>1. TransformRound(s) = u
    BY <1>2, <1>8 DEF TransformRound, Made
  <2>2. Head(a).n \in Nat \ {0} /\ Head(b).n \in Nat \ {0}
    BY <1>3, <1>8, HeadRest, PartType
  <2>3. /\ n \in Nat \ {0} /\ n <= Head(a).n /\ n <= Head(b).n
        /\ n = Head(a).n \/ n = Head(b).n
    BY <2>2 DEF Smaller
  <2>4. Trans(U, da, db, Consume(a, n), Consume(b, n), Made(p, n, dela, delb),
              Made(q, n, delb, dela))
    <3>1. dela \in BOOLEAN /\ delb \in BOOLEAN
      OBVIOUS
    <3> HIDE DEF n
    <3>2. QED
      BY <1>2, <1>8, <2>3, <3>1, TransBoth
  <2>5. u \in TransStates(U, da, db)
    BY <2>4, TransRecord
  <2>6. Extent(Head(a)) = Head(a).n /\ Extent(Head(b)) = Head(b).n
    BY <1>8 DEF Extent
  <2>7. /\ Len(Consume(a, n)) \in Nat /\ Len(Consume(a, n)) <= Len(a)
        /\ n = Extent(Head(a)) => Len(Consume(a, n)) < Len(a)
    <3> HIDE DEF n
    <3>1. QED
      BY <1>3, <1>8, <2>3, ConsumeShortens
  <2>8. /\ Len(Consume(b, n)) \in Nat /\ Len(Consume(b, n)) <= Len(b)
        /\ n = Extent(Head(b)) => Len(Consume(b, n)) < Len(b)
    <3> HIDE DEF n
    <3>1. QED
      BY <1>3, <1>8, <2>3, ConsumeShortens
  <2>9. Left(u) = Len(Consume(a, n)) + Len(Consume(b, n))
    BY DEF Left
  <2> HIDE DEF u, n
  <2>10. Left(u) \in Nat /\ Left(u) < Left(s)
    BY <1>4, <2>3, <2>6, <2>7, <2>8, <2>9
  <2>11. QED
    BY <1>4, <2>1, <2>5, <2>10
<1>9. QED
  BY <1>3, <1>5, <1>6, <1>7, <1>8

\* All rounds, whatever else they keep (S).
TransStart(a, b) == [a |-> a, b |-> b, aOut |-> <<>>, bOut |-> <<>>]

TransEnds(a, b, g) == /\ g.a = <<>> /\ g.b = <<>>
                      /\ Transform(a, b) = <<Build(g.aOut), Build(g.bOut)>>

LEMMA TransformLoop ==
  ASSUME NEW U, NEW da, NEW db, NEW a \in Seq(Component(U)), NEW b \in Seq(Component(U)),
         NEW S \in SUBSET TransStates(U, da, db), TransStart(a, b) \in S,
         \A s \in S : TransformRound(s) \in S
  PROVE  \E g \in S : TransEnds(a, b, g)
<1> DEFINE start == [a |-> a, b |-> b, aOut |-> <<>>, bOut |-> <<>>]
           step == [g \in S |-> TransformRound(g)]
           size == [g \in S |-> Left(g)]
<1>1. PICK N \in Nat : N = Len(a) + Len(b)
  <2>1. Len(a) \in Nat /\ Len(b) \in Nat
    BY LenProperties
  <2>2. QED
    BY <2>1
<1> DEFINE Rounds(s) == s = [i \in 0 .. N |-> IF i = 0 THEN start ELSE TransformRound(s[i - 1])]
<1>2. start \in S /\ Left(start) = N
  BY <1>1 DEF Left, TransStart
<1>3. ASSUME NEW g \in S
      PROVE  /\ TransformRound(g) \in S /\ Left(g) \in Nat /\ Left(TransformRound(g)) \in Nat
             /\ Left(g) > 0 => Left(TransformRound(g)) < Left(g)
             /\ Left(g) = 0 => Left(TransformRound(g)) = 0
  <2>1. g \in TransStates(U, da, db)
    OBVIOUS
  <2>2. QED
    BY <2>1, TransformRoundKeeps
<1>4. step \in [S -> S] /\ size \in [S -> Nat]
  <2>1. QED
    BY <1>3
<1>5. PICK f \in [0 .. N -> S] : Iterating(N, S, start, step, f)
  <2> HIDE DEF start, step
  <2>1. HasRounds(N, S, start, step)
    BY <1>2, <1>4, RoundsExist
  <2>2. QED
    BY <2>1 DEF HasRounds
<1>6. Rounds(f)
  <2> HIDE DEF start
  <2>1. ASSUME NEW i \in 0 .. N
        PROVE  f[i] = IF i = 0 THEN start ELSE TransformRound(f[i - 1])
    <3>1. i # 0 => i \in 1 .. N /\ i - 1 \in 0 .. N
      OBVIOUS
    <3>2. QED
      BY <1>5, <3>1 DEF Iterating
  <2>2. f = [i \in 0 .. N |-> f[i]]
    OBVIOUS
  <2>3. QED
    BY <2>1, <2>2
<1>7. PICK s : s = (CHOOSE t : Rounds(t))
  OBVIOUS
<1>8. Rounds(s)
  <2> HIDE DEF Rounds
  <2>1. QED
    BY <1>6, <1>7
<1>9. s[N] \in S /\ size[s[N]] = 0
  <2>1. Iterating(N, S, start, step, s)
    <3> HIDE DEF start
    <3>1. QED
      BY <1>8 DEF Iterating
  <2>2. size[start] <= N
    BY <1>2
  <2>3. Shrinks(S, step, size)
    <3>1. QED
      BY <1>3 DEF Shrinks
  <2> HIDE DEF start, step, size
  <2>4. RunsDown(N, S, start, step, size, s)
    BY <1>2, <1>4, <2>1, <2>2, <2>3, LoopEnds
  <2>5. QED
    BY <2>4 DEF RunsDown
<1>10. PICK g \in S : g = s[N] /\ Left(g) = 0
  <2>1. QED
    BY <1>9
<1>11. g.a = <<>> /\ g.b = <<>>
  <2>1. g.a \in Seq(Component(U)) /\ g.b \in Seq(Component(U))
    BY <1>10 DEF TransStates
  <2>2. PICK k \in Nat, l \in Nat : k = Len(g.a) /\ l = Len(g.b)
    BY <2>1, LenProperties
  <2>3. k = 0 /\ l = 0
    <3>1. k + l = 0
      BY <1>10, <2>2, Zenon DEF Left
    <3>2. QED
      BY <3>1
  <2>4. QED
    BY <2>1, <2>2, <2>3, EmptySeq
<1>12. Transform(a, b) = <<Build(g.aOut), Build(g.bOut)>>
  BY <1>1, <1>7, <1>10 DEF Transform
<1>13. QED
  BY <1>11, <1>12 DEF TransEnds

LEMMA LargerIs ==
  ASSUME NEW m \in Nat, NEW n \in Nat
  PROVE  Larger(m, n) \in Nat /\ m <= Larger(m, n) /\ n <= Larger(m, n)
         /\ \A k \in Nat : m <= k /\ n <= k => Larger(m, n) <= k
BY DEF Larger

\* The front d of the document that a and b pass over, made as long as each other.
Spans(U, doc, a, b, d, e, da, db, fa, fb) ==
  /\ e \in Seq(U) /\ doc = d \o e /\ applyOp(doc, a) = da \o e /\ applyOp(doc, b) = db \o e
  /\ TransAt(U, da, db, fa, fb, <<>>, <<>>, d, da, db, <<>>, <<>>, <<>>)
  /\ transformOps(a, b) = Transform(fa, fb)
  /\ Inserted(fa) = Inserted(a) /\ Inserted(fb) = Inserted(b)
  /\ \E n \in Nat : fa = fitOp(a, n) /\ fb = fitOp(b, n)

LEMMA TransSpan ==
  ASSUME NEW U, NEW a \in Seq(Component(U)), NEW b \in Seq(Component(U)), NEW doc \in Seq(U),
         Fits(a, doc), Fits(b, doc)
  PROVE  \E d, e, da, db, fa, fb : Spans(U, doc, a, b, d, e, da, db, fa, fb)
<1>1. PICK i \in Nat, j \in Nat : i = opBaseLength(a) /\ j = opBaseLength(b)
  BY BaseJoin
<1>2. PICK n \in Nat : n = Larger(i, j)
  BY LargerIs
<1>3. i <= n /\ j <= n
  BY <1>2, LargerIs
<1>4. n \in 0 .. Len(doc)
  <2>1. Len(doc) \in Nat /\ i <= Len(doc) /\ j <= Len(doc)
    BY <1>1, LenProperties DEF Fits
  <2>2. QED
    BY <1>2, <2>1, LargerIs
<1>5. PICK d \in Seq(U), e \in Seq(U) : doc = d \o e /\ Len(d) = n
  <2>1. \E x1, e1 : IsSplit(U, doc, n, x1, e1)
    BY <1>4, SplitOf
  <2>2. QED
    BY <2>1, Zenon DEF IsSplit
<1>6. PICK da, db : da = applyOp(d, a) /\ db = applyOp(d, b)
  OBVIOUS
<1>7. Acts(U, a, d, da) /\ Acts(U, b, d, db)
  <2>1. Fits(a, d) /\ Fits(b, d)
    BY <1>1, <1>3, <1>5 DEF Fits
  <2>2. QED
    BY <1>6, <2>1, FitsActs
<1>8. applyOp(doc, a) = da \o e /\ applyOp(doc, b) = db \o e
  <2>1. Acts(U, a, doc, da \o e) /\ Acts(U, b, doc, db \o e)
    BY <1>5, <1>7, ActsBefore
  <2>2. QED
    BY <2>1, ActsApply
<1>9. PICK fa, fb : fa = fitOp(a, n) /\ fb = fitOp(b, n)
  OBVIOUS
<1>10. Runs(U, fa, d, da) /\ Runs(U, fb, d, db)
  <2>1. Runs(U, fitOp(a, Len(d)), d, da) /\ Runs(U, fitOp(b, Len(d)), d, db)
    BY <1>7, FitActs
  <2>2. QED
    BY <1>5, <1>9, <2>1
<1>11. TransAt(U, da, db, fa, fb, <<>>, <<>>, d, da, db, <<>>, <<>>, <<>>)
  <2>1. da \in Seq(U) /\ db \in Seq(U)
    BY <1>10 DEF Runs
  <2>2. <<>> \o da = da /\ <<>> \o db = db
    BY <2>1, ConcatEmptySeq
  <2>3. Runs(U, <<>>, <<>>, <<>>)
    BY RunsNowhere
  <2>4. QED
    BY <1>10, <2>2, <2>3 DEF TransAt
<1>12. transformOps(a, b) = Transform(fa, fb)
  BY <1>1, <1>2, <1>9 DEF transformOps
<1>13. Inserted(fa) = Inserted(a) /\ Inserted(fb) = Inserted(b)
  <2>1. i <= n /\ j <= n /\ n \in Nat
    BY <1>3
  <2>2. QED
    BY <1>1, <1>9, <2>1, FitInserts
<1>14. QED
  BY <1>5, <1>8, <1>9, <1>11, <1>12, <1>13 DEF Spans

\* p after b and q after a make the same.
MergeAs(U, doc, a, b, p, q, m) ==
  Acts(U, p, applyOp(doc, b), m) /\ Acts(U, q, applyOp(doc, a), m)

LEMMA TransformActs ==
  ASSUME NEW U, NEW a \in Seq(Component(U)), NEW b \in Seq(Component(U)), NEW doc \in Seq(U),
         Fits(a, doc), Fits(b, doc)
  PROVE  \E m : MergeAs(U, doc, a, b, transformOps(a, b)[1], transformOps(a, b)[2], m)
<1>1. PICK d, e, da, db, fa, fb : Spans(U, doc, a, b, d, e, da, db, fa, fb)
  BY TransSpan
<1>2. /\ e \in Seq(U) /\ applyOp(doc, a) = da \o e /\ applyOp(doc, b) = db \o e
      /\ TransAt(U, da, db, fa, fb, <<>>, <<>>, d, da, db, <<>>, <<>>, <<>>)
      /\ transformOps(a, b) = Transform(fa, fb)
  BY <1>1 DEF Spans
<1>3. fa \in Seq(Component(U)) /\ fb \in Seq(Component(U))
  BY <1>2 DEF TransAt, Runs
<1>4. PICK S : S = TransStates(U, da, db)
  OBVIOUS
<1>5. TransStart(fa, fb) \in S
  <2>1. Trans(U, da, db, fa, fb, <<>>, <<>>)
    BY <1>2 DEF Trans
  <2>2. QED
    BY <1>4, <2>1, TransRecord DEF TransStart
<1>6. \A s \in S : TransformRound(s) \in S
  BY <1>4, TransformRoundKeeps
<1>7. PICK g \in S : TransEnds(fa, fb, g)
  BY <1>3, <1>4, <1>5, <1>6, TransformLoop
<1>8. PICK p, q : p = g.aOut /\ q = g.bOut
  OBVIOUS
<1>9. Trans(U, da, db, <<>>, <<>>, p, q) /\ transformOps(a, b) = <<Build(p), Build(q)>>
  BY <1>2, <1>4, <1>7, <1>8 DEF TransStates, TransEnds
<1>10. PICK m : Runs(U, p, db, m) /\ Runs(U, q, da, m)
  BY <1>9, TransDone
<1>11. Acts(U, Build(p), db \o e, m \o e) /\ Acts(U, Build(q), da \o e, m \o e)
  BY <1>2, <1>10, BuildActs, ActsBefore
<1>12. MergeAs(U, doc, a, b, transformOps(a, b)[1], transformOps(a, b)[2], m \o e)
  BY <1>2, <1>9, <1>11 DEF MergeAs
<1>13. QED
  BY <1>12

\* Whoever is first, both make one text of the document: the operation that comes
\* second is transformed over the other, fits what that made, and applies to it.
THEOREM TransformConverges ==
  ASSUME NEW U, NEW a \in Operation(U), NEW b \in Operation(U), NEW doc \in Seq(U),
         Fits(a, doc), Fits(b, doc),
         NEW p, NEW q, p = transformOps(a, b)[1], q = transformOps(a, b)[2]
  PROVE  /\ p \in Operation(U) /\ Fits(p, applyOp(doc, b))
         /\ q \in Operation(U) /\ Fits(q, applyOp(doc, a))
         /\ applyOp(applyOp(doc, b), p) = applyOp(applyOp(doc, a), q)
<1>1. a \in Seq(Component(U)) /\ b \in Seq(Component(U))
  BY DEF Operation
<1>2. PICK m : MergeAs(U, doc, a, b, transformOps(a, b)[1], transformOps(a, b)[2], m)
  BY <1>1, TransformActs
<1>3. Acts(U, p, applyOp(doc, b), m) /\ Acts(U, q, applyOp(doc, a), m)
  BY <1>2 DEF MergeAs
<1>4. QED
  BY <1>3, ActsApply DEF Operation

----------------------------------------------------------------------------
\* What is in a text afterwards: what is typed, and of what was there before what
\* is not deleted.

LEMMA RunsNone ==
  ASSUME NEW U, NEW x, NEW y, Runs(U, <<>>, x, y)
  PROVE  x = <<>> /\ y = <<>>
<1>1. opBaseLength(<<>>) = Len(x) /\ opTargetLength(<<>>) = Len(y)
  BY RunsLengths
<1>2. <<>> \in Seq(Component(U)) /\ x \in Seq(U) /\ y \in Seq(U)
  BY DEF Runs
<1>3. opBaseLength(<<>>) = 0 /\ opTargetLength(<<>>) = 0
  BY <1>2, BaseLaws, TargetLaws
<1>4. QED
  BY <1>1, <1>2, <1>3, EmptySeq

LEMMA MovesRange ==
  ASSUME NEW U, NEW c, NEW p, NEW o, Moves(U, c, p, o)
  PROVE  Range(o) \subseteq Range(p) \cup Range(c.text) /\ Range(c.text) \subseteq Range(o)
<1>1. CASE c = Insert(o)
  BY <1>1, InsertIs
<1>2. CASE c = Retain(Len(p)) /\ o = p
  <2>1. c.text = <<>>
    BY <1>2 DEF Retain
  <2>2. QED
    BY <1>2, <2>1, RangeNone
<1>3. CASE c = Delete(Len(p)) /\ o = <<>>
  <2>1. c.text = <<>>
    BY <1>3 DEF Delete
  <2>2. QED
    BY <1>3, <2>1, RangeNone
<1>4. QED
  BY <1>1, <1>2, <1>3 DEF Moves

Types(op, x, y) == Range(y) \subseteq Range(x) \cup Inserted(op) /\ Inserted(op) \subseteq Range(y)

LEMMA RunsRange ==
  ASSUME NEW U, NEW op, NEW x, NEW y, Runs(U, op, x, y)
  PROVE  Types(op, x, y)
<1> DEFINE E == Component(U)
           T == {o \in Seq(E) : \A v, w : Runs(U, o, v, w) => Types(o, v, w)}
<1>1. <<>> \in T
  <2>1. \A v, w : Runs(U, <<>>, v, w) => w = <<>>
    BY RunsNone
  <2>2. \A v, w : Runs(U, <<>>, v, w) => Types(<<>>, v, w)
    BY <2>1, RangeNone, InsertedNone DEF Types
  <2>3. QED
    BY <2>2, EmptySeq
<1>2. ASSUME NEW o \in Seq(E), NEW c \in E, o \in T
      PROVE  Append(o, c) \in T
  <2>1. Append(o, c) \in Seq(E) /\ Inserted(Append(o, c)) = Inserted(o) \cup Range(c.text)
    BY AppendProperties, InsertedMore
  <2>2. ASSUME NEW v, NEW w, Runs(U, Append(o, c), v, w)
        PROVE  Types(Append(o, c), v, w)
    <3>1. PICK v1, w1, p, q : Parted(U, o, c, v, w, v1, w1, p, q)
      BY <2>2, LastRuns
    <3>2. v = v1 \o p /\ w = w1 \o q /\ Runs(U, o, v1, w1) /\ Moves(U, c, p, q)
      BY <3>1 DEF Parted
    <3>3. v1 \in Seq(U) /\ w1 \in Seq(U) /\ p \in Seq(U) /\ q \in Seq(U)
      BY <3>2 DEF Runs, Moves
    <3>4. Range(v) = Range(v1) \cup Range(p) /\ Range(w) = Range(w1) \cup Range(q)
      BY <3>2, <3>3, RangeConcatenation
    <3>5. Types(o, v1, w1)
      BY <1>2, <3>2
    <3>6. Range(q) \subseteq Range(p) \cup Range(c.text) /\ Range(c.text) \subseteq Range(q)
      BY <3>2, MovesRange
    <3>7. QED
      BY <2>1, <3>4, <3>5, <3>6 DEF Types
  <2>3. QED
    BY <2>1, <2>2
<1>3. \A o \in Seq(E) : o \in T
  <2> HIDE DEF T
  <2>1. QED
    BY <1>1, <1>2, SeqSetInduction
<1>4. QED
  <2>1. op \in T
    BY <1>3 DEF Runs
  <2>2. QED
    BY <2>1

LEMMA ActsRange ==
  ASSUME NEW U, NEW op, NEW doc, NEW out, Acts(U, op, doc, out)
  PROVE  Types(op, doc, out)
<1>1. PICK x, y, e : ActsOn(U, op, doc, out, x, y, e)
  BY DEF Acts
<1>2. e \in Seq(U) /\ doc = x \o e /\ out = y \o e /\ Runs(U, op, x, y)
  BY <1>1 DEF ActsOn
<1>3. x \in Seq(U) /\ y \in Seq(U) /\ Types(op, x, y)
  BY <1>2, RunsRange DEF Runs
<1>4. Range(doc) = Range(x) \cup Range(e) /\ Range(out) = Range(y) \cup Range(e)
  BY <1>2, <1>3, RangeConcatenation
<1>5. QED
  BY <1>3, <1>4 DEF Types

\* What is left to type of an operation that is consumed in part.
LEMMA ConsumeInserts ==
  ASSUME NEW U, NEW op \in Seq(Component(U)), op # <<>>, NEW n \in Nat \ {0},
         n <= Extent(Head(op))
  PROVE  /\ Consume(op, n) \in Seq(Component(U))
         /\ Inserted(Consume(op, n)) \subseteq Inserted(op)
         /\ Head(op).kind # "insert" => Inserted(Consume(op, n)) = Inserted(op)
<1>1. PICK c \in Component(U), rest \in Seq(Component(U)) :
        c = Head(op) /\ rest = Tail(op) /\ op = <<c>> \o rest
  BY HeadRest
<1>2. Inserted(op) = Range(c.text) \cup Inserted(rest)
  BY <1>1, InsertedHead
<1>3. c.kind # "insert" => Range(c.text) = {}
  BY PartType, RangeNone
<1>4. CASE ~(Extent(c) > n)
  <2>1. Consume(op, n) = rest
    BY <1>1, <1>4 DEF Consume
  <2>2. QED
    BY <1>1, <1>2, <1>3, <2>1
<1>5. CASE Extent(c) > n
  <2>1. Consume(op, n) = <<Rest(c, n)>> \o rest
    BY <1>1, <1>5 DEF Consume
  <2>2. Rest(c, n) \in Component(U) /\ Range(Rest(c, n).text) \subseteq Range(c.text)
    <3>1. CASE c.kind = "insert"
      <4>1. PICK t \in Seq(U) : t = c.text /\ c = Insert(t) /\ n < Len(t)
        BY <1>5, <3>1, PartType DEF Extent
      <4>2. Rest(c, n) = Insert(SubSeq(t, n + 1, Len(t)))
        <5>1. Rest(c, n) = [c EXCEPT !.text = SubSeq(c.text, n + 1, Len(c.text))]
          BY <3>1 DEF Rest
        <5>2. Rest(c, n) = [Insert(t) EXCEPT !.text = SubSeq(t, n + 1, Len(t))]
          BY <4>1, <5>1
        <5>3. QED
          BY <5>2, LongerInsert
      <4>3. PICK k \in Nat : k = Len(t) - n /\ k # 0 /\ n + k = Len(t)
        <5>1. Len(t) - n \in Nat /\ Len(t) - n # 0 /\ n + (Len(t) - n) = Len(t)
          BY <4>1, LenProperties
        <5>2. QED
          BY <5>1
      <4>4. PICK u : u = SubSeq(t, n + 1, Len(t))
        OBVIOUS
      <4>5. /\ u \in Seq(U) /\ Len(u) = k
            /\ \A i \in 1 .. k : u[i] = t[n + i]
        <5>1. n + 1 \in Int /\ Len(t) \in Int /\ \A i \in n + 1 .. Len(t) : t[i] \in U
          BY <4>3, LenProperties, ElementOfSeq
        <5>2. /\ u \in Seq(U)
              /\ Len(u) = IF n + 1 <= Len(t) THEN Len(t) - (n + 1) + 1 ELSE 0
              /\ \A i \in 1 .. Len(t) - (n + 1) + 1 : u[i] = t[(n + 1) + i - 1]
          BY <4>4, <5>1, SubSeqProperties
        <5>3. QED
          BY <4>3, <5>2
      <4>6. u # <<>>
        BY <4>3, <4>5, EmptySeq
      <4>7. Range(u) \subseteq Range(t)
        <5>1. SUFFICES ASSUME NEW i \in 1 .. k
                       PROVE  u[i] \in Range(t)
          BY <4>5, RangeIn
        <5>2. n + i \in 1 .. Len(t)
          BY <4>3
        <5>3. QED
          BY <4>5, <5>2, RangeIn
      <4>8. Insert(u) \in Component(U) /\ Insert(u).text = u
        BY <4>5, <4>6, PartsAre, InsertIs
      <4>9. QED
        BY <4>1, <4>2, <4>4, <4>7, <4>8
    <3>2. CASE c.kind # "insert"
      <4>1. c.n - n \in Nat \ {0}
        BY <1>5, <3>2, PartType DEF Extent
      <4>2. CASE c.kind = "retain"
        <5>1. c = Retain(c.n)
          BY <4>2, PartType
        <5>2. Rest(c, n) = Retain(c.n - n)
          BY <3>2, <5>1 DEF Rest, Retain
        <5>3. Retain(c.n - n) \in Component(U) /\ Retain(c.n - n).text = <<>>
          BY <4>1, PartsAre DEF Retain
        <5>4. QED
          BY <5>2, <5>3, RangeNone
      <4>3. CASE c.kind = "delete"
        <5>1. c = Delete(c.n)
          BY <4>3, PartType
        <5>2. Rest(c, n) = Delete(c.n - n)
          BY <3>2, <5>1 DEF Rest, Delete
        <5>3. Delete(c.n - n) \in Component(U) /\ Delete(c.n - n).text = <<>>
          BY <4>1, PartsAre DEF Delete
        <5>4. QED
          BY <5>2, <5>3, RangeNone
      <4>4. QED
        BY <3>2, <4>2, <4>3, PartType
    <3>3. QED
      BY <3>1, <3>2
  <2>3. PICK one \in Seq(Component(U)) :
          one = <<Rest(c, n)>> /\ Inserted(one) = Range(Rest(c, n).text)
    BY <2>2, InsertedOne
  <2>4. /\ one \o rest \in Seq(Component(U))
        /\ Inserted(one \o rest) = Inserted(one) \cup Inserted(rest)
    BY InsertedJoin, ConcatProperties
  <2>5. QED
    BY <1>1, <1>2, <1>3, <2>1, <2>2, <2>3, <2>4
<1>6. QED
  BY <1>4, <1>5

----------------------------------------------------------------------------
\* Two operations that type different characters, over a text that has none of
\* them: what is merged has no character twice, and loses none that both keep.

\* The state of transformOps, with x the part of the text d that both have passed.
MergingAt(U, d, da, db, A, B, a, b, p, q, x, r, za, zb, ya, yb, m) ==
  /\ TransAt(U, da, db, a, b, p, q, r, za, zb, ya, yb, m)
  /\ x \in Seq(U) /\ d = x \o r
  /\ Range(ya) \subseteq Range(x) \cup A /\ Range(yb) \subseteq Range(x) \cup B
  /\ Inserted(a) \cup Inserted(p) = A /\ Inserted(b) \cup Inserted(q) = B
  /\ Range(ya) \cap Range(yb) \subseteq Range(m) /\ IsInjective(m)

Merging(U, d, da, db, A, B, a, b, p, q) ==
  \E x, r, za, zb, ya, yb, m :
    MergingAt(U, d, da, db, A, B, a, b, p, q, x, r, za, zb, ya, yb, m)

\* A and B, what is typed, and the text d are apart.
Apart(d, da, db, A, B) == /\ IsInjective(d) /\ IsInjective(da) /\ IsInjective(db)
                          /\ A \cap Range(d) = {} /\ B \cap Range(d) = {} /\ A \cap B = {}

LEMMA MergingSwap ==
  ASSUME NEW U, NEW d, NEW da, NEW db, NEW A, NEW B, NEW a, NEW b, NEW p, NEW q,
         Merging(U, d, da, db, A, B, a, b, p, q)
  PROVE  Merging(U, d, db, da, B, A, b, a, q, p)
<1>1. PICK x, r, za, zb, ya, yb, m :
        MergingAt(U, d, da, db, A, B, a, b, p, q, x, r, za, zb, ya, yb, m)
  BY DEF Merging
<1>2. MergingAt(U, d, db, da, B, A, b, a, q, p, x, r, zb, za, yb, ya, m)
  BY <1>1 DEF MergingAt, TransAt
<1>3. QED
  BY <1>2 DEF Merging

LEMMA MergingInsert ==
  ASSUME NEW U, NEW d, NEW da, NEW db, NEW A, NEW B, NEW a, NEW b, NEW p, NEW q,
         Merging(U, d, da, db, A, B, a, b, p, q), Apart(d, da, db, A, B),
         a # <<>>, NEW t, t = Head(a).text, Head(a).kind = "insert"
  PROVE  Merging(U, d, da, db, A, B, Tail(a), b, AddInsert(p, t), AddRetain(q, Len(t)))
<1>1. PICK x, r, za, zb, ya, yb, m :
        MergingAt(U, d, da, db, A, B, a, b, p, q, x, r, za, zb, ya, yb, m)
  BY DEF Merging
<1>2. PICK z : /\ TransAt(U, da, db, a, b, p, q, r, za, zb, ya, yb, m)
               /\ t \in Seq(U)
               /\ TransAt(U, da, db, Tail(a), b, AddInsert(p, t), AddRetain(q, Len(t)),
                          r, z, zb, ya \o t, yb, m \o t)
  <2>1. TransAt(U, da, db, a, b, p, q, r, za, zb, ya, yb, m)
    BY <1>1 DEF MergingAt
  <2>2. QED
    BY <2>1, TransInserts
<1>3. /\ a \in Seq(Component(U)) /\ p \in Seq(Component(U)) /\ q \in Seq(Component(U))
      /\ ya \in Seq(U) /\ m \in Seq(U) /\ z \in Seq(U) /\ Runs(U, q, ya, m)
  BY <1>2 DEF TransAt, Runs
<1>4. Range(t) \subseteq Inserted(a) /\ Inserted(a) = Range(t) \cup Inserted(Tail(a))
  BY <1>3, InsertedHead
<1>5. Inserted(AddInsert(p, t)) = Inserted(p) \cup Range(t)
  BY <1>2, <1>3, InsertInserts
<1>6. Inserted(AddRetain(q, Len(t))) = Inserted(q)
  <2>1. Len(t) \in Nat
    BY <1>2, LenProperties
  <2>2. QED
    BY <1>3, <2>1, RetainInserts
<1>7. Range(ya \o t) = Range(ya) \cup Range(t) /\ Range(m \o t) = Range(m) \cup Range(t)
  BY <1>2, <1>3, RangeConcatenation
<1>8. IsInjective(t) /\ Range(ya) \cap Range(t) = {}
  <2>1. da = (ya \o t) \o z /\ ya \o t \in Seq(U)
    BY <1>2, <1>3, ConcatProperties DEF TransAt
  <2>2. IsInjective(ya \o t)
    BY <1>3, <2>1, OnceJoin DEF Apart
  <2>3. QED
    BY <1>2, <1>3, <2>2, OnceJoin
<1>9. Range(m) \cap Range(t) = {}
  <2>1. Range(m) \subseteq Range(ya) \cup Inserted(q)
    BY <1>3, RunsRange DEF Types
  <2>2. Inserted(q) \cap Range(t) = {}
    BY <1>1, <1>4 DEF MergingAt, Apart
  <2>3. QED
    BY <1>8, <2>1, <2>2
<1>10. IsInjective(m \o t)
  <2>1. IsInjective(m)
    BY <1>1 DEF MergingAt
  <2>2. QED
    BY <1>2, <1>3, <1>8, <1>9, <2>1, OnceJoin
<1>11. /\ x \in Seq(U) /\ d = x \o r
       /\ Range(ya) \subseteq Range(x) \cup A /\ Range(yb) \subseteq Range(x) \cup B
       /\ Inserted(a) \cup Inserted(p) = A /\ Inserted(b) \cup Inserted(q) = B
       /\ Range(ya) \cap Range(yb) \subseteq Range(m)
  BY <1>1 DEF MergingAt
<1>12. MergingAt(U, d, da, db, A, B, Tail(a), b, AddInsert(p, t), AddRetain(q, Len(t)),
                 x, r, z, zb, ya \o t, yb, m \o t)
  BY <1>2, <1>4, <1>5, <1>6, <1>7, <1>10, <1>11 DEF MergingAt
<1>13. QED
  BY <1>12 DEF Merging

LEMMA MadeInserts ==
  ASSUME NEW U, NEW out \in Seq(Component(U)), NEW n \in Nat, NEW deletes, NEW other
  PROVE  Inserted(Made(out, n, deletes, other)) = Inserted(out)
BY RetainInserts, DeleteInserts DEF Made

LEMMA MergingBoth ==
  ASSUME NEW U, NEW d, NEW da, NEW db, NEW A, NEW B, NEW a, NEW b, NEW p, NEW q,
         Merging(U, d, da, db, A, B, a, b, p, q), Apart(d, da, db, A, B),
         a # <<>>, b # <<>>, Head(a).kind # "insert", Head(b).kind # "insert",
         NEW n \in Nat \ {0}, n <= Head(a).n, n <= Head(b).n,
         NEW dela \in BOOLEAN, NEW delb \in BOOLEAN,
         dela = (Head(a).kind = "delete"), delb = (Head(b).kind = "delete")
  PROVE  Merging(U, d, da, db, A, B, Consume(a, n), Consume(b, n), Made(p, n, dela, delb),
                 Made(q, n, delb, dela))
<1>1. PICK x, r, za, zb, ya, yb, m :
        MergingAt(U, d, da, db, A, B, a, b, p, q, x, r, za, zb, ya, yb, m)
  BY DEF Merging
<1>2. /\ TransAt(U, da, db, a, b, p, q, r, za, zb, ya, yb, m)
      /\ x \in Seq(U) /\ d = x \o r
      /\ Range(ya) \subseteq Range(x) \cup A /\ Range(yb) \subseteq Range(x) \cup B
      /\ Inserted(a) \cup Inserted(p) = A /\ Inserted(b) \cup Inserted(q) = B
      /\ Range(ya) \cap Range(yb) \subseteq Range(m) /\ IsInjective(m)
  BY <1>1 DEF MergingAt
<1>3. PICK w : BothTake(U, da, db, a, b, p, q, n, dela, delb, r, ya, yb, m, w)
  BY <1>2, TransTakes
<1>4. PICK ka, kb, km : ka = Kept(w, dela) /\ kb = Kept(w, delb) /\ km = Kept(w, dela \/ delb)
  OBVIOUS
<1>5. PICK v, z, u : /\ w \in Seq(U) /\ r = w \o v
                     /\ TransAt(U, da, db, Consume(a, n), Consume(b, n), Made(p, n, dela, delb),
                                Made(q, n, delb, dela), v, z, u, ya \o ka, yb \o kb, m \o km)
  BY <1>3, <1>4 DEF BothTake
<1>6. /\ a \in Seq(Component(U)) /\ b \in Seq(Component(U))
      /\ p \in Seq(Component(U)) /\ q \in Seq(Component(U))
      /\ ya \in Seq(U) /\ yb \in Seq(U) /\ m \in Seq(U) /\ v \in Seq(U) /\ z \in Seq(U)
      /\ u \in Seq(U) /\ Runs(U, q, ya, m) /\ Runs(U, p, yb, m)
  BY <1>2, <1>5 DEF TransAt, Runs
<1>7. /\ Inserted(Consume(a, n)) = Inserted(a) /\ Inserted(Consume(b, n)) = Inserted(b)
      /\ Inserted(Made(p, n, dela, delb)) = Inserted(p)
      /\ Inserted(Made(q, n, delb, dela)) = Inserted(q)
  <2>1. n <= Extent(Head(a)) /\ n <= Extent(Head(b))
    BY DEF Extent
  <2>2. QED
    BY <1>6, <2>1, ConsumeInserts, MadeInserts
<1>8. /\ ka \in Seq(U) /\ kb \in Seq(U) /\ km \in Seq(U)
      /\ Range(ka) \subseteq Range(w) /\ Range(kb) \subseteq Range(w)
      /\ Range(km) = Range(ka) \cap Range(kb)
  BY <1>4, <1>5, EmptySeq, RangeNone DEF Kept
<1>9. /\ Range(ya \o ka) = Range(ya) \cup Range(ka) /\ Range(yb \o kb) = Range(yb) \cup Range(kb)
      /\ Range(m \o km) = Range(m) \cup Range(km)
  BY <1>6, <1>8, RangeConcatenation
<1>10. /\ x \o w \in Seq(U) /\ d = (x \o w) \o v
       /\ Range(x \o w) = Range(x) \cup Range(w)
       /\ IsInjective(w) /\ Range(x) \cap Range(w) = {} /\ Range(w) \subseteq Range(d)
  <2>0. x \in Seq(U) /\ w \in Seq(U) /\ v \in Seq(U)
    BY <1>2, <1>5, <1>6
  <2>1. (x \o w) \o v = x \o (w \o v)
    BY <2>0, JoinThree
  <2>2. x \o w \in Seq(U) /\ Range(x \o w) = Range(x) \cup Range(w)
    BY <2>0, ConcatProperties, RangeConcatenation
  <2>3. d = (x \o w) \o v
    BY <1>2, <1>5, <2>1
  <2>4. IsInjective(x \o w)
    BY <1>6, <2>2, <2>3, OnceJoin DEF Apart
  <2>5. IsInjective(w) /\ Range(x) \cap Range(w) = {}
    BY <1>2, <1>5, <2>4, OnceJoin
  <2>6. Range(d) = Range(x \o w) \cup Range(v)
    <3>1. PICK xw \in Seq(U) : xw = x \o w
      BY <2>2
    <3>2. Range(xw \o v) = Range(xw) \cup Range(v)
      BY <2>0, RangeConcatenation
    <3>3. QED
      BY <2>3, <3>1, <3>2
  <2>7. QED
    BY <2>2, <2>3, <2>5, <2>6
<1>11. A \cap Range(w) = {} /\ B \cap Range(w) = {}
  BY <1>10 DEF Apart
<1>12. Range(ya) \cap Range(w) = {} /\ Range(yb) \cap Range(w) = {}
  BY <1>2, <1>10, <1>11
<1>13. (Range(ya) \cup Range(ka)) \cap (Range(yb) \cup Range(kb)) \subseteq Range(m) \cup Range(km)
  BY <1>2, <1>8, <1>12
<1>14. IsInjective(m \o km)
  <2>1. IsInjective(km)
    <3>1. IsInjective(<<>>)
      BY DEF IsInjective
    <3>2. QED
      BY <1>4, <1>10, <3>1 DEF Kept
  <2>2. Range(m) \subseteq Range(ya) \cup B
    <3>1. Range(m) \subseteq Range(ya) \cup Inserted(q)
      BY <1>6, RunsRange DEF Types
    <3>2. QED
      BY <1>2, <3>1
  <2>3. Range(m) \cap Range(km) = {}
    BY <1>8, <1>11, <1>12, <2>2
  <2>4. QED
    BY <1>2, <1>6, <1>8, <2>1, <2>3, OnceJoin
<1>15. MergingAt(U, d, da, db, A, B, Consume(a, n), Consume(b, n), Made(p, n, dela, delb),
                 Made(q, n, delb, dela), x \o w, v, z, u, ya \o ka, yb \o kb, m \o km)
  <2>1. /\ Range(ya) \cup Range(ka) \subseteq Range(x \o w) \cup A
        /\ Range(yb) \cup Range(kb) \subseteq Range(x \o w) \cup B
    BY <1>2, <1>8, <1>10
  <2>2. QED
    BY <1>2, <1>5, <1>7, <1>9, <1>10, <1>13, <1>14, <2>1 DEF MergingAt
<1>16. QED
  BY <1>15 DEF Merging

MergeStates(U, d, da, db, A, B) ==
  {s \in TransStates(U, da, db) : Merging(U, d, da, db, A, B, s.a, s.b, s.aOut, s.bOut)}

LEMMA MergeKeeps ==
  ASSUME NEW U, NEW d, NEW da, NEW db, NEW A, NEW B, Apart(d, da, db, A, B),
         NEW s \in MergeStates(U, d, da, db, A, B)
  PROVE  TransformRound(s) \in MergeStates(U, d, da, db, A, B)
<1>1. PICK a, b, p, q : a = s.a /\ b = s.b /\ p = s.aOut /\ q = s.bOut
  OBVIOUS
<1>2. /\ s \in TransStates(U, da, db) /\ Merging(U, d, da, db, A, B, a, b, p, q)
      /\ s = [a |-> a, b |-> b, aOut |-> p, bOut |-> q] /\ Trans(U, da, db, a, b, p, q)
  BY <1>1 DEF MergeStates, TransStates
<1>3. /\ a \in Seq(Component(U)) /\ b \in Seq(Component(U))
      /\ a = <<>> /\ b # <<>> => Head(b).kind = "insert"
      /\ b = <<>> /\ a # <<>> => Head(a).kind = "insert"
  BY <1>2, TransSwap, TransTypes
<1>4. PICK u : u = TransformRound(s) /\ u \in TransStates(U, da, db)
  BY <1>2, TransformRoundKeeps
<1>5. SUFFICES Merging(U, d, da, db, A, B, u.a, u.b, u.aOut, u.bOut)
  BY <1>4 DEF MergeStates
<1>6. CASE a = <<>> /\ b = <<>>
  <2>1. TransformRound(s) = s
    BY <1>1, <1>6 DEF TransformRound
  <2>2. QED
    BY <1>1, <1>2, <1>4, <2>1
<1>7. CASE a # <<>> /\ Head(a).kind = "insert"
  <2>1. PICK t : t = Head(a).text
    OBVIOUS
  <2>2. u = [a |-> Tail(a), b |-> b, aOut |-> AddInsert(p, t), bOut |-> AddRetain(q, Len(t))]
    BY <1>2, <1>4, <1>7, <2>1 DEF TransformRound
  <2>3. Merging(U, d, da, db, A, B, Tail(a), b, AddInsert(p, t), AddRetain(q, Len(t)))
    BY <1>2, <1>7, <2>1, MergingInsert
  <2>4. QED
    BY <2>2, <2>3
<1>8. CASE ~(a # <<>> /\ Head(a).kind = "insert") /\ b # <<>> /\ Head(b).kind = "insert"
  <2>1. PICK t : t = Head(b).text
    OBVIOUS
  <2>2. u = [a |-> a, b |-> Tail(b), aOut |-> AddRetain(p, Len(t)), bOut |-> AddInsert(q, t)]
    BY <1>2, <1>4, <1>8, <2>1 DEF TransformRound
  <2>3. Apart(d, db, da, B, A)
    BY DEF Apart
  <2>4. Merging(U, d, db, da, B, A, b, a, q, p)
    BY <1>2, MergingSwap
  <2>5. Merging(U, d, db, da, B, A, Tail(b), a, AddInsert(q, t), AddRetain(p, Len(t)))
    BY <1>8, <2>1, <2>3, <2>4, MergingInsert
  <2>6. Merging(U, d, da, db, A, B, a, Tail(b), AddRetain(p, Len(t)), AddInsert(q, t))
    BY <2>5, MergingSwap
  <2>7. QED
    BY <2>2, <2>6
<1>9. CASE a # <<>> /\ b # <<>> /\ Head(a).kind # "insert" /\ Head(b).kind # "insert"
  <2>1. PICK dela \in BOOLEAN, delb \in BOOLEAN :
          dela = (Head(a).kind = "delete") /\ delb = (Head(b).kind = "delete")
    OBVIOUS
  <2>2. Head(a).n \in Nat \ {0} /\ Head(b).n \in Nat \ {0}
    BY <1>3, <1>9, HeadRest, PartType
  <2>3. PICK n \in Nat \ {0} :
          n = Smaller(Head(a).n, Head(b).n) /\ n <= Head(a).n /\ n <= Head(b).n
    BY <2>2 DEF Smaller
  <2>4. u = [a |-> Consume(a, n), b |-> Consume(b, n),
             aOut |-> Made(p, n, dela, delb), bOut |-> Made(q, n, delb, dela)]
    BY <1>2, <1>4, <1>9, <2>1, <2>3 DEF TransformRound, Made
  <2>5. Merging(U, d, da, db, A, B, Consume(a, n), Consume(b, n), Made(p, n, dela, delb),
                Made(q, n, delb, dela))
    BY <1>2, <1>9, <2>1, <2>3, MergingBoth
  <2>6. QED
    BY <2>4, <2>5
<1>10. QED
  BY <1>3, <1>6, <1>7, <1>8, <1>9

\* At the end all of the text is passed.
MergedIs(U, da, db, A, B, p, q, m) ==
  /\ Runs(U, p, db, m) /\ Runs(U, q, da, m) /\ IsInjective(m)
  /\ Range(da) \cap Range(db) \subseteq Range(m) /\ Inserted(p) = A /\ Inserted(q) = B

LEMMA MergingDone ==
  ASSUME NEW U, NEW d, NEW da, NEW db, NEW A, NEW B, NEW p, NEW q,
         Merging(U, d, da, db, A, B, <<>>, <<>>, p, q)
  PROVE  \E m : MergedIs(U, da, db, A, B, p, q, m)
<1>1. PICK x, r, za, zb, ya, yb, m :
        MergingAt(U, d, da, db, A, B, <<>>, <<>>, p, q, x, r, za, zb, ya, yb, m)
  BY DEF Merging
<1>2. /\ da = ya \o za /\ db = yb \o zb
      /\ Runs(U, <<>>, r, za) /\ Runs(U, <<>>, r, zb)
      /\ Runs(U, p, yb, m) /\ Runs(U, q, ya, m)
      /\ Inserted(<<>>) \cup Inserted(p) = A /\ Inserted(<<>>) \cup Inserted(q) = B
      /\ Range(ya) \cap Range(yb) \subseteq Range(m) /\ IsInjective(m)
  BY <1>1 DEF MergingAt, TransAt
<1>3. za = <<>> /\ zb = <<>>
  BY <1>2, RunsNone
<1>4. ya \in Seq(U) /\ yb \in Seq(U)
  BY <1>2 DEF Runs
<1>5. da = ya /\ db = yb
  BY <1>2, <1>3, <1>4, ConcatEmptySeq
<1>6. MergedIs(U, da, db, A, B, p, q, m)
  BY <1>2, <1>5, InsertedNone DEF MergedIs
<1>7. QED
  BY <1>6

----------------------------------------------------------------------------
\* An edit of a text whose characters are all different, that types no character
\* the text has, and makes such a text.

Clean(U, op, x, y) ==
  Acts(U, op, x, y) /\ IsInjective(x) /\ IsInjective(y) /\ Inserted(op) \cap Range(x) = {}

\* Two such edits of one text merge to one such text, that keeps what both keep.
CleanMerged(U, a, b, da, db, p, q, m) ==
  /\ Clean(U, p, db, m) /\ Clean(U, q, da, m)
  /\ Inserted(p) = Inserted(a) /\ Inserted(q) = Inserted(b)
  /\ Range(da) \cap Range(db) \subseteq Range(m)

LEMMA CleanMerge ==
  ASSUME NEW U, NEW doc, NEW a, NEW b, NEW doca, NEW docb, Clean(U, a, doc, doca),
         Clean(U, b, doc, docb), Inserted(a) \cap Inserted(b) = {}
  PROVE  \E m : CleanMerged(U, a, b, doca, docb, transformOps(a, b)[1], transformOps(a, b)[2], m)
<1>1. /\ Acts(U, a, doc, doca) /\ IsInjective(doc) /\ IsInjective(doca)
      /\ Acts(U, b, doc, docb) /\ IsInjective(docb)
      /\ Inserted(a) \cap Range(doc) = {} /\ Inserted(b) \cap Range(doc) = {}
  BY DEF Clean
<1>2. /\ a \in Seq(Component(U)) /\ b \in Seq(Component(U)) /\ doc \in Seq(U)
      /\ Fits(a, doc) /\ Fits(b, doc) /\ doca = applyOp(doc, a) /\ docb = applyOp(doc, b)
  BY <1>1, ActsApply
<1>3. PICK d, e, da, db, fa, fb : Spans(U, doc, a, b, d, e, da, db, fa, fb)
  BY <1>2, TransSpan
<1>4. /\ e \in Seq(U) /\ doc = d \o e /\ doca = da \o e /\ docb = db \o e
      /\ TransAt(U, da, db, fa, fb, <<>>, <<>>, d, da, db, <<>>, <<>>, <<>>)
      /\ transformOps(a, b) = Transform(fa, fb)
      /\ Inserted(fa) = Inserted(a) /\ Inserted(fb) = Inserted(b)
  BY <1>2, <1>3 DEF Spans
<1>5. /\ fa \in Seq(Component(U)) /\ fb \in Seq(Component(U))
      /\ d \in Seq(U) /\ da \in Seq(U) /\ db \in Seq(U)
  BY <1>4 DEF TransAt, Runs
<1>6. PICK A, B : A = Inserted(a) /\ B = Inserted(b)
  OBVIOUS
<1>7. /\ Range(doc) = Range(d) \cup Range(e) /\ Range(doca) = Range(da) \cup Range(e)
      /\ Range(docb) = Range(db) \cup Range(e)
  BY <1>4, <1>5, RangeConcatenation
<1>8. /\ IsInjective(d) /\ IsInjective(da) /\ IsInjective(db) /\ IsInjective(e)
      /\ Range(da) \cap Range(e) = {}
  <2>1. IsInjective(d)
    BY <1>1, <1>4, <1>5, OnceJoin
  <2>2. IsInjective(da) /\ IsInjective(e) /\ Range(da) \cap Range(e) = {}
    BY <1>1, <1>4, <1>5, OnceJoin
  <2>3. IsInjective(db)
    BY <1>1, <1>4, <1>5, OnceJoin
  <2>4. QED
    BY <2>1, <2>2, <2>3
<1>9. Apart(d, da, db, A, B)
  BY <1>1, <1>6, <1>7, <1>8 DEF Apart
<1>10. PICK S : S = MergeStates(U, d, da, db, A, B)
  OBVIOUS
<1>11. S \in SUBSET TransStates(U, da, db)
  BY <1>10 DEF MergeStates
<1>12. TransStart(fa, fb) \in S
  <2>1. Trans(U, da, db, fa, fb, <<>>, <<>>)
    BY <1>4 DEF Trans
  <2>2. TransStart(fa, fb) \in TransStates(U, da, db)
    BY <2>1, TransRecord DEF TransStart
  <2>3. <<>> \in Seq(U) /\ d = <<>> \o d /\ Range(<<>>) = {} /\ IsInjective(<<>>)
    <3>1. IsInjective(<<>>)
      BY DEF IsInjective
    <3>2. QED
      BY <1>5, <3>1, EmptySeq, ConcatEmptySeq, RangeNone
  <2>4. MergingAt(U, d, da, db, A, B, fa, fb, <<>>, <<>>, <<>>, d, da, db, <<>>, <<>>, <<>>)
    BY <1>4, <1>6, <2>3, InsertedNone DEF MergingAt
  <2>5. Merging(U, d, da, db, A, B, fa, fb, <<>>, <<>>)
    BY <2>4 DEF Merging
  <2>6. QED
    BY <1>10, <2>2, <2>5 DEF MergeStates, TransStart
<1>13. \A s \in S : TransformRound(s) \in S
  BY <1>9, <1>10, MergeKeeps
<1>14. PICK g \in S : TransEnds(fa, fb, g)
  BY <1>5, <1>11, <1>12, <1>13, TransformLoop
<1>15. PICK p, q : p = g.aOut /\ q = g.bOut
  OBVIOUS
<1>16. Merging(U, d, da, db, A, B, <<>>, <<>>, p, q) /\ transformOps(a, b) = <<Build(p), Build(q)>>
  BY <1>4, <1>10, <1>14, <1>15 DEF MergeStates, TransEnds
<1>17. PICK m : MergedIs(U, da, db, A, B, p, q, m)
  BY <1>16, MergingDone
<1>18. /\ Runs(U, p, db, m) /\ Runs(U, q, da, m) /\ IsInjective(m)
       /\ Range(da) \cap Range(db) \subseteq Range(m) /\ Inserted(p) = A /\ Inserted(q) = B
  BY <1>17 DEF MergedIs
<1>19. p \in Seq(Component(U)) /\ q \in Seq(Component(U)) /\ m \in Seq(U)
  BY <1>18 DEF Runs
<1>20. Inserted(Build(p)) = A /\ Inserted(Build(q)) = B
  BY <1>18, <1>19, BuildInserts
<1>21. Acts(U, Build(p), docb, m \o e) /\ Acts(U, Build(q), doca, m \o e)
  BY <1>4, <1>18, BuildActs, ActsBefore
<1>22. Range(m \o e) = Range(m) \cup Range(e) /\ IsInjective(m \o e)
  <2>1. Range(m) \subseteq Range(da) \cup B
    BY <1>18, RunsRange DEF Types
  <2>2. Range(m) \cap Range(e) = {}
    BY <1>1, <1>6, <1>7, <1>8, <2>1
  <2>3. QED
    BY <1>4, <1>8, <1>18, <1>19, <2>2, OnceJoin, RangeConcatenation
<1>23. A \cap Range(docb) = {} /\ B \cap Range(doca) = {}
  <2>1. Range(doca) \subseteq Range(doc) \cup A /\ Range(docb) \subseteq Range(doc) \cup B
    BY <1>1, <1>6, ActsRange DEF Types
  <2>2. QED
    BY <1>1, <1>6, <2>1
<1>24. Clean(U, Build(p), docb, m \o e) /\ Clean(U, Build(q), doca, m \o e)
  BY <1>1, <1>20, <1>21, <1>22, <1>23 DEF Clean
<1>25. Range(doca) \cap Range(docb) \subseteq Range(m \o e)
  BY <1>7, <1>18, <1>22
<1>26. CleanMerged(U, a, b, doca, docb, transformOps(a, b)[1], transformOps(a, b)[2], m \o e)
  BY <1>6, <1>16, <1>20, <1>24, <1>25 DEF CleanMerged
<1>27. QED
  BY <1>26

\* Of two operations that type characters the text has not, and not the same ones,
\* what is merged has exactly the characters that both keep and those that either
\* types, and none of them twice: no edit is lost in transformOps, none is doubled.
THEOREM TransformLosesNothing ==
  ASSUME NEW U, NEW a \in Operation(U), NEW b \in Operation(U), NEW doc \in Seq(U),
         Fits(a, doc), Fits(b, doc), NEW doca, NEW docb, NEW m,
         doca = applyOp(doc, a), docb = applyOp(doc, b),
         m = applyOp(docb, transformOps(a, b)[1]),
         IsInjective(doc), IsInjective(doca), IsInjective(docb),
         Inserted(a) \cap Range(doc) = {}, Inserted(b) \cap Range(doc) = {},
         Inserted(a) \cap Inserted(b) = {}
  PROVE  /\ IsInjective(m)
         /\ Range(m) = (Range(doca) \cap Range(docb)) \cup Inserted(a) \cup Inserted(b)
<1>1. Acts(U, a, doc, doca) /\ Acts(U, b, doc, docb)
  BY FitsActs DEF Operation
<1>2. Clean(U, a, doc, doca) /\ Clean(U, b, doc, docb)
  BY <1>1 DEF Clean
<1>3. PICK p, q, z : CleanMerged(U, a, b, doca, docb, p, q, z) /\ p = transformOps(a, b)[1]
  BY <1>2, CleanMerge
<1>4. /\ Acts(U, p, docb, z) /\ Acts(U, q, doca, z) /\ IsInjective(z)
      /\ Inserted(p) = Inserted(a) /\ Inserted(q) = Inserted(b)
      /\ Range(doca) \cap Range(docb) \subseteq Range(z)
  BY <1>3 DEF CleanMerged, Clean
<1>5. z = m
  BY <1>3, <1>4, ActsApply
<1>6. /\ Range(z) \subseteq Range(docb) \cup Inserted(a) /\ Inserted(a) \subseteq Range(z)
      /\ Range(z) \subseteq Range(doca) \cup Inserted(b) /\ Inserted(b) \subseteq Range(z)
  BY <1>4, ActsRange DEF Types
<1>7. QED
  BY <1>4, <1>5, <1>6

----------------------------------------------------------------------------
\* Composing.  What is left of a makes, of what is left of the text, what is left of b
\* runs over; what was built does both to the text before that.

CompAt(U, d, dab, a, b, p, r, mid, z, x, y) ==
  /\ d = x \o r /\ dab = y \o z
  /\ Runs(U, a, r, mid) /\ Runs(U, b, mid, z) /\ Runs(U, p, x, y)

Comp(U, d, dab, a, b, p) == \E r, mid, z, x, y : CompAt(U, d, dab, a, b, p, r, mid, z, x, y)

\* Nothing but deletes makes nothing.
LEMMA MakesNothing ==
  ASSUME NEW U, NEW op, NEW r, Runs(U, op, r, <<>>), op # <<>>
  PROVE  Head(op).kind = "delete"
<1>1. op \in Seq(Component(U))
  BY DEF Runs
<1>2. PICK c \in Component(U) : c = Head(op)
  BY <1>1, HeadRest
<1>3. PICK p, q, v, w : Peeled(U, op, r, <<>>, p, q, v, w)
  BY HeadRuns
<1>4. <<>> = q \o w /\ Moves(U, c, p, q) /\ Runs(U, Tail(op), v, w)
  BY <1>2, <1>3 DEF Peeled
<1>5. q \in Seq(U) /\ w \in Seq(U)
  BY <1>4 DEF Moves, Runs
<1>6. q = <<>>
  <2>1. Len(q) \in Nat /\ Len(w) \in Nat /\ Len(q \o w) = Len(q) + Len(w)
    BY <1>5, JoinAt
  <2>2. Len(q) + Len(w) = 0
    BY <1>4, <2>1, EmptySeq
  <2>3. Len(q) = 0
    BY <2>1, <2>2
  <2>4. QED
    BY <1>5, <2>3, EmptySeq
<1>7. c.kind # "insert"
  <2>1. c.kind = "insert" => c.text # <<>> /\ c = Insert(q)
    BY <1>4, MovesKind, PartType
  <2>2. QED
    BY <1>6, <2>1, InsertIs
<1>8. c.kind # "retain"
  <2>1. SUFFICES ASSUME c.kind = "retain"
                 PROVE  FALSE
    OBVIOUS
  <2>2. c = Retain(Len(p)) /\ p = q
    BY <1>4, <2>1, MovesKind
  <2>3. c.n = 0
    BY <1>6, <2>2, RetainIs, EmptySeq
  <2>4. QED
    BY <2>1, <2>3, PartType
<1>9. QED
  BY <1>2, <1>7, <1>8, PartType

LEMMA CompTypes ==
  ASSUME NEW U, NEW d, NEW dab, NEW a, NEW b, NEW p, Comp(U, d, dab, a, b, p)
  PROVE  /\ a \in Seq(Component(U)) /\ b \in Seq(Component(U)) /\ p \in Seq(Component(U))
         /\ a = <<>> /\ b # <<>> => Head(b).kind = "insert"
         /\ b = <<>> /\ a # <<>> => Head(a).kind = "delete"
<1>1. PICK r, mid, z, x, y : CompAt(U, d, dab, a, b, p, r, mid, z, x, y)
  BY DEF Comp
<1>2. Runs(U, a, r, mid) /\ Runs(U, b, mid, z) /\ Runs(U, p, x, y)
  BY <1>1 DEF CompAt
<1>3. /\ a \in Seq(Component(U)) /\ b \in Seq(Component(U)) /\ p \in Seq(Component(U))
      /\ mid \in Seq(U)
  BY <1>2 DEF Runs
<1>4. ASSUME a = <<>>, b # <<>>
      PROVE  Head(b).kind = "insert"
  <2>1. opTargetLength(a) = 0
    BY <1>3, <1>4, TargetLaws
  <2>2. opTargetLength(a) = Len(mid) /\ opBaseLength(b) = Len(mid)
    BY <1>2, RunsLengths
  <2>3. opBaseLength(b) = 0
    BY <2>1, <2>2
  <2>4. QED
    BY <1>3, <1>4, <2>3, SpansNothing
<1>5. ASSUME b = <<>>, a # <<>>
      PROVE  Head(a).kind = "delete"
  <2>1. opBaseLength(b) = 0
    BY <1>3, <1>5, BaseLaws
  <2>2. opBaseLength(b) = Len(mid)
    BY <1>2, RunsLengths
  <2>3. mid = <<>>
    BY <1>3, <2>1, <2>2, EmptySeq
  <2>4. QED
    BY <1>2, <1>5, <2>3, MakesNothing
<1>6. QED
  BY <1>3, <1>4, <1>5

LEMMA CompDone ==
  ASSUME NEW U, NEW d, NEW dab, NEW p, Comp(U, d, dab, <<>>, <<>>, p)
  PROVE  Runs(U, p, d, dab)
<1>1. PICK r, mid, z, x, y : CompAt(U, d, dab, <<>>, <<>>, p, r, mid, z, x, y)
  BY DEF Comp
<1>2. /\ d = x \o r /\ dab = y \o z
      /\ Runs(U, <<>>, r, mid) /\ Runs(U, <<>>, mid, z) /\ Runs(U, p, x, y)
  BY <1>1 DEF CompAt
<1>3. ASSUME NEW v, NEW w, Runs(U, <<>>, v, w)
      PROVE  v = <<>> /\ w = <<>>
  <2>1. opBaseLength(<<>>) = 0 /\ opTargetLength(<<>>) = 0
    <3>1. <<>> \in Seq(Component(U))
      BY EmptySeq
    <3>2. QED
      BY <3>1, BaseLaws, TargetLaws
  <2>2. opBaseLength(<<>>) = Len(v) /\ opTargetLength(<<>>) = Len(w)
    BY <1>3, RunsLengths
  <2>3. v \in Seq(U) /\ w \in Seq(U)
    BY <1>3 DEF Runs
  <2>4. QED
    BY <2>1, <2>2, <2>3, EmptySeq
<1>4. r = <<>> /\ z = <<>>
  BY <1>2, <1>3
<1>5. x \in Seq(U) /\ y \in Seq(U)
  BY <1>2 DEF Runs
<1>6. d = x /\ dab = y
  BY <1>2, <1>4, <1>5, ConcatEmptySeq
<1>7. QED
  BY <1>2, <1>6

LEMMA CompDelete ==
  ASSUME NEW U, NEW d, NEW dab, NEW a, NEW b, NEW p, Comp(U, d, dab, a, b, p),
         a # <<>>, Head(a).kind = "delete", NEW n, n = Head(a).n
  PROVE  Comp(U, d, dab, Tail(a), b, AddDelete(p, n))
<1>1. PICK r, mid, z, x, y : CompAt(U, d, dab, a, b, p, r, mid, z, x, y)
  BY DEF Comp
<1>2. /\ d = x \o r /\ dab = y \o z
      /\ Runs(U, a, r, mid) /\ Runs(U, b, mid, z) /\ Runs(U, p, x, y)
  BY <1>1 DEF CompAt
<1>3. PICK x1, o, v, w : Peeled(U, a, r, mid, x1, o, v, w)
  BY <1>2, HeadRuns
<1>4. r = x1 \o v /\ mid = o \o w /\ Moves(U, Head(a), x1, o) /\ Runs(U, Tail(a), v, w)
  BY <1>3 DEF Peeled
<1>5. Head(a) = Delete(Len(x1)) /\ o = <<>> /\ x1 \in Seq(U)
  BY <1>4, MovesKind
<1>6. n = Len(x1)
  BY <1>5, DeleteIs
<1>7. n \in Nat \ {0}
  <2>1. a \in Seq(Component(U))
    BY <1>2 DEF Runs
  <2>2. QED
    BY <2>1, HeadRest, PartType
<1>8. x \in Seq(U) /\ v \in Seq(U) /\ w \in Seq(U)
  BY <1>2, <1>4 DEF Runs
<1>9. mid = w
  BY <1>4, <1>5, <1>8, ConcatEmptySeq
<1>10. d = (x \o x1) \o v
  <2>1. (x \o x1) \o v = x \o (x1 \o v)
    BY <1>5, <1>8, JoinThree
  <2>2. QED
    BY <1>2, <1>4, <2>1
<1>11. Runs(U, AddDelete(p, n), x \o x1, y)
  BY <1>2, <1>5, <1>6, <1>7, DeleteRuns
<1>12. CompAt(U, d, dab, Tail(a), b, AddDelete(p, n), v, mid, z, x \o x1, y)
  BY <1>2, <1>4, <1>9, <1>10, <1>11 DEF CompAt
<1>13. QED
  BY <1>12 DEF Comp

LEMMA CompInsert ==
  ASSUME NEW U, NEW d, NEW dab, NEW a, NEW b, NEW p, Comp(U, d, dab, a, b, p),
         b # <<>>, Head(b).kind = "insert", NEW t, t = Head(b).text
  PROVE  Comp(U, d, dab, a, Tail(b), AddInsert(p, t))
<1>1. PICK r, mid, z, x, y : CompAt(U, d, dab, a, b, p, r, mid, z, x, y)
  BY DEF Comp
<1>2. /\ d = x \o r /\ dab = y \o z
      /\ Runs(U, a, r, mid) /\ Runs(U, b, mid, z) /\ Runs(U, p, x, y)
  BY <1>1 DEF CompAt
<1>3. PICK x1, o, v, w : Peeled(U, b, mid, z, x1, o, v, w)
  BY <1>2, HeadRuns
<1>4. mid = x1 \o v /\ z = o \o w /\ Moves(U, Head(b), x1, o) /\ Runs(U, Tail(b), v, w)
  BY <1>3 DEF Peeled
<1>5. x1 = <<>> /\ o = t /\ o \in Seq(U)
  BY <1>4, MovesKind, InsertIs
<1>6. t # <<>>
  <2>1. b \in Seq(Component(U))
    BY <1>2 DEF Runs
  <2>2. Head(b) \in Component(U)
    BY <2>1, HeadRest
  <2>3. QED
    BY <2>2, PartType
<1>7. y \in Seq(U) /\ v \in Seq(U) /\ w \in Seq(U)
  BY <1>2, <1>4 DEF Runs
<1>8. mid = v
  BY <1>4, <1>5, <1>7, ConcatEmptySeq
<1>9. dab = (y \o o) \o w
  <2>1. (y \o o) \o w = y \o (o \o w)
    <3>1. y \in Seq(U) /\ o \in Seq(U) /\ w \in Seq(U)
      BY <1>5, <1>7
    <3>2. QED
      BY <3>1, JoinThree
  <2>2. QED
    BY <1>2, <1>4, <2>1
<1>10. Runs(U, AddInsert(p, t), x, y \o o)
  BY <1>2, <1>5, <1>6, InsertRuns
<1>11. CompAt(U, d, dab, a, Tail(b), AddInsert(p, t), r, mid, w, x, y \o o)
  BY <1>2, <1>4, <1>8, <1>9, <1>10 DEF CompAt
<1>12. QED
  BY <1>11 DEF Comp

\* What b does to the n characters that a kept or inserted.
LEMMA FusedRuns ==
  ASSUME NEW U, NEW out, NEW x, NEW y, Runs(U, out, x, y),
         NEW ca \in Component(U), NEW cb \in Component(U), NEW n \in Nat \ {0},
         ca.kind # "delete", cb.kind # "insert",
         NEW v, NEW o, NEW w, Moves(U, First(ca, n), v, o), Moves(U, First(cb, n), o, w),
         Len(o) = n
  PROVE  Runs(U, Fused(ca, cb, n, out), x \o v, y \o w)
<1>1. /\ x \in Seq(U) /\ y \in Seq(U) /\ v \in Seq(U) /\ o \in Seq(U) /\ w \in Seq(U)
  BY DEF Runs, Moves
<1>2. x \o <<>> = x /\ y \o <<>> = y
  BY <1>1, ConcatEmptySeq
<1>3. o # <<>>
  BY EmptySeq
<1>4. CASE ca.kind = "insert"
  <2>1. PICK t : t = SubSeq(ca.text, 1, n) /\ First(ca, n) = Insert(t)
    BY <1>4 DEF First
  <2>2. First(ca, n) = Insert(o) /\ v = <<>>
    BY <2>1, MovesKind, InsertIs
  <2>3. SubSeq(ca.text, 1, n) = o
    <3>1. Insert(t) = Insert(o)
      BY <2>1, <2>2
    <3>2. t = o
      BY <3>1, InsertIs
    <3>3. QED
      BY <2>1, <3>2
  <2>4. CASE cb.kind = "retain"
    <3>1. First(cb, n) = Retain(n)
      BY <2>4 DEF First
    <3>2. w = o
      BY <3>1, MovesKind, RetainIs
    <3>3. Fused(ca, cb, n, out) = AddInsert(out, o)
      BY <1>4, <2>3, <2>4 DEF Fused
    <3>4. Runs(U, AddInsert(out, o), x, y \o o)
      BY <1>1, <1>3, InsertRuns
    <3>5. QED
      BY <1>2, <2>2, <3>2, <3>3, <3>4
  <2>5. CASE cb.kind = "delete"
    <3>1. First(cb, n) = Delete(n)
      BY <2>5 DEF First
    <3>2. w = <<>>
      BY <3>1, MovesKind, DeleteIs
    <3>3. Fused(ca, cb, n, out) = out
      BY <1>4, <2>5 DEF Fused
    <3>4. QED
      BY <1>2, <2>2, <3>2, <3>3
  <2>6. QED
    BY <2>4, <2>5, PartType
<1>5. CASE ca.kind = "retain"
  <2>1. First(ca, n) = Retain(n)
    BY <1>5 DEF First
  <2>2. v = o
    BY <2>1, MovesKind, RetainIs
  <2>3. CASE cb.kind = "retain"
    <3>1. First(cb, n) = Retain(n)
      BY <2>3 DEF First
    <3>2. w = o
      BY <3>1, MovesKind, RetainIs
    <3>3. Fused(ca, cb, n, out) = AddRetain(out, n)
      BY <1>5, <2>3 DEF Fused
    <3>4. Runs(U, AddRetain(out, n), x \o o, y \o o)
      BY <1>1, RetainRuns
    <3>5. QED
      BY <2>2, <3>2, <3>3, <3>4
  <2>4. CASE cb.kind = "delete"
    <3>1. First(cb, n) = Delete(n)
      BY <2>4 DEF First
    <3>2. w = <<>>
      BY <3>1, MovesKind, DeleteIs
    <3>3. Fused(ca, cb, n, out) = AddDelete(out, n)
      BY <1>5, <2>4 DEF Fused
    <3>4. Runs(U, AddDelete(out, n), x \o o, y)
      BY <1>1, DeleteRuns
    <3>5. QED
      BY <1>2, <2>2, <3>2, <3>3, <3>4
  <2>5. QED
    BY <2>3, <2>4, PartType
<1>6. QED
  BY <1>4, <1>5, PartType

\* n characters of what a makes, and n of what b runs over.
LEMMA FirstLengths ==
  ASSUME NEW U, NEW c \in Component(U), NEW n \in Nat \ {0}, n <= Extent(c),
         NEW p, NEW o, Moves(U, First(c, n), p, o)
  PROVE  /\ c.kind # "delete" => Len(o) = n
         /\ c.kind # "insert" => Len(p) = n
<1>1. CASE c.kind = "insert"
  <2>1. PICK t : /\ t = SubSeq(c.text, 1, n) /\ First(c, n) = Insert(t)
                 /\ Extent(c) = Len(c.text)
    BY <1>1 DEF First, Extent
  <2>2. o = t
    <3>1. Insert(t) = Insert(o)
      BY <2>1, MovesKind, InsertIs
    <3>2. QED
      BY <3>1, InsertIs
  <2>3. Len(c.text) \in Nat /\ c.text \in Seq(U)
    BY PartType, LenProperties
  <2>4. n \in 0 .. Len(c.text)
    BY <2>1, <2>3
  <2>5. PICK e \in Seq(U), g \in Seq(U) : c.text = e \o g /\ Len(e) = n
    <3>1. \E x1, e1 : IsSplit(U, c.text, n, x1, e1)
      BY <2>3, <2>4, SplitOf
    <3>2. QED
      BY <3>1, Zenon DEF IsSplit
  <2>6. o = e
    BY <2>1, <2>2, <2>5, SubSeqsOfJoin
  <2>7. QED
    BY <1>1, <2>5, <2>6
<1>2. CASE c.kind = "retain"
  <2>1. First(c, n) = Retain(n)
    BY <1>2 DEF First
  <2>2. Retain(n) = Retain(Len(p)) /\ o = p
    BY <2>1, MovesKind, RetainIs
  <2>3. Len(p) = n
    BY <2>2, RetainIs
  <2>4. QED
    BY <1>2, <2>2, <2>3
<1>3. CASE c.kind = "delete"
  <2>1. First(c, n) = Delete(n)
    BY <1>3 DEF First
  <2>2. Delete(n) = Delete(Len(p))
    BY <2>1, MovesKind, DeleteIs
  <2>3. Len(p) = n
    BY <2>2, DeleteIs
  <2>4. QED
    BY <1>3, <2>3
<1>4. QED
  BY <1>1, <1>2, <1>3, PartType

LEMMA CompBoth ==
  ASSUME NEW U, NEW d, NEW dab, NEW a, NEW b, NEW p, Comp(U, d, dab, a, b, p),
         a # <<>>, b # <<>>, Head(a).kind # "delete", Head(b).kind # "insert",
         NEW n \in Nat \ {0}, n <= Extent(Head(a)), n <= Extent(Head(b))
  PROVE  Comp(U, d, dab, Consume(a, n), Consume(b, n), Fused(Head(a), Head(b), n, p))
<1>1. PICK r, mid, z, x, y : CompAt(U, d, dab, a, b, p, r, mid, z, x, y)
  BY DEF Comp
<1>2. /\ d = x \o r /\ dab = y \o z
      /\ Runs(U, a, r, mid) /\ Runs(U, b, mid, z) /\ Runs(U, p, x, y)
  BY <1>1 DEF CompAt
<1>3. PICK ca, cb : ca = Head(a) /\ cb = Head(b)
  OBVIOUS
<1>4. ca \in Component(U) /\ cb \in Component(U)
  <2>1. a \in Seq(Component(U)) /\ b \in Seq(Component(U))
    BY <1>2 DEF Runs
  <2>2. QED
    BY <1>3, <2>1, HeadRest
<1>5. PICK x1, o1, v1, w1 : Consumed(U, a, n, r, mid, x1, o1, v1, w1)
  BY <1>2, ConsumeRuns
<1>6. PICK x2, o2, v2, w2 : Consumed(U, b, n, mid, z, x2, o2, v2, w2)
  BY <1>2, ConsumeRuns
<1>7. /\ r = x1 \o v1 /\ mid = o1 \o w1 /\ Moves(U, First(ca, n), x1, o1)
      /\ Runs(U, Consume(a, n), v1, w1)
  BY <1>3, <1>5 DEF Consumed
<1>8. /\ mid = x2 \o v2 /\ z = o2 \o w2 /\ Moves(U, First(cb, n), x2, o2)
      /\ Runs(U, Consume(b, n), v2, w2)
  BY <1>3, <1>6 DEF Consumed
<1>9. Len(o1) = n /\ Len(x2) = n
  BY <1>3, <1>4, <1>7, <1>8, FirstLengths
<1>10. /\ x1 \in Seq(U) /\ o1 \in Seq(U) /\ v1 \in Seq(U) /\ w1 \in Seq(U)
       /\ x2 \in Seq(U) /\ o2 \in Seq(U) /\ v2 \in Seq(U) /\ w2 \in Seq(U)
       /\ x \in Seq(U) /\ y \in Seq(U)
  BY <1>2, <1>7, <1>8 DEF Moves, Runs
<1>11. o1 = x2 /\ w1 = v2
  <2>1. o1 \o w1 = x2 \o v2 /\ Len(o1) = Len(x2)
    BY <1>7, <1>8, <1>9
  <2>2. o1 \in Seq(U) /\ w1 \in Seq(U) /\ x2 \in Seq(U) /\ v2 \in Seq(U)
    BY <1>10
  <2>3. QED
    BY <2>1, <2>2, FrontsEqual
<1>12. Runs(U, Fused(ca, cb, n, p), x \o x1, y \o o2)
  <2>1. Moves(U, First(cb, n), o1, o2)
    BY <1>8, <1>11
  <2>2. ca.kind # "delete" /\ cb.kind # "insert"
    BY <1>3
  <2>3. QED
    BY <1>2, <1>4, <1>7, <1>9, <2>1, <2>2, FusedRuns
<1>13. d = (x \o x1) \o v1
  <2>1. x \in Seq(U) /\ x1 \in Seq(U) /\ v1 \in Seq(U)
    BY <1>10
  <2>2. (x \o x1) \o v1 = x \o (x1 \o v1)
    BY <2>1, JoinThree
  <2>3. QED
    BY <1>2, <1>7, <2>2
<1>14. dab = (y \o o2) \o w2
  <2>1. y \in Seq(U) /\ o2 \in Seq(U) /\ w2 \in Seq(U)
    BY <1>10
  <2>2. (y \o o2) \o w2 = y \o (o2 \o w2)
    BY <2>1, JoinThree
  <2>3. QED
    BY <1>2, <1>8, <2>2
<1>15. CompAt(U, d, dab, Consume(a, n), Consume(b, n), Fused(ca, cb, n, p), v1, w1, w2,
              x \o x1, y \o o2)
  BY <1>7, <1>8, <1>11, <1>12, <1>13, <1>14 DEF CompAt
<1>16. QED
  BY <1>3, <1>15 DEF Comp

CompStates(U, d, dab) ==
  {s \in [a : Seq(Component(U)), b : Seq(Component(U)), out : Seq(Component(U))] :
     Comp(U, d, dab, s.a, s.b, s.out)}

LEMMA CompRecord ==
  ASSUME NEW U, NEW d, NEW dab, NEW a, NEW b, NEW p, Comp(U, d, dab, a, b, p)
  PROVE  [a |-> a, b |-> b, out |-> p] \in CompStates(U, d, dab)
<1>1. a \in Seq(Component(U)) /\ b \in Seq(Component(U)) /\ p \in Seq(Component(U))
  BY CompTypes
<1>2. QED
  BY <1>1 DEF CompStates

LEMMA ComposeRoundKeeps ==
  ASSUME NEW U, NEW d, NEW dab, NEW s \in CompStates(U, d, dab)
  PROVE  /\ ComposeRound(s) \in CompStates(U, d, dab)
         /\ Left(s) \in Nat /\ Left(ComposeRound(s)) \in Nat
         /\ Left(s) > 0 => Left(ComposeRound(s)) < Left(s)
         /\ Left(s) = 0 => Left(ComposeRound(s)) = 0
<1>1. PICK a, b, p : a = s.a /\ b = s.b /\ p = s.out
  OBVIOUS
<1>2. s = [a |-> a, b |-> b, out |-> p] /\ Comp(U, d, dab, a, b, p)
  BY <1>1 DEF CompStates
<1>3. /\ a \in Seq(Component(U)) /\ b \in Seq(Component(U))
      /\ a = <<>> /\ b # <<>> => Head(b).kind = "insert"
      /\ b = <<>> /\ a # <<>> => Head(a).kind = "delete"
  BY <1>2, CompTypes
<1>4. Len(a) \in Nat /\ Len(b) \in Nat /\ Left(s) = Len(a) + Len(b)
  BY <1>1, <1>3, LenProperties DEF Left
<1>5. CASE a = <<>> /\ b = <<>>
  <2>1. ComposeRound(s) = s
    BY <1>1, <1>5 DEF ComposeRound
  <2>2. Left(s) = 0
    BY <1>4, <1>5, EmptySeq
  <2>3. QED
    BY <1>4, <2>1, <2>2
<1>6. CASE a # <<>> /\ Head(a).kind = "delete"
  <2> DEFINE u == [a |-> Tail(a), b |-> b, out |-> AddDelete(p, Head(a).n)]
  <2>1. ComposeRound(s) = u
    BY <1>2, <1>6 DEF ComposeRound
  <2>2. Comp(U, d, dab, Tail(a), b, AddDelete(p, Head(a).n))
    BY <1>2, <1>6, CompDelete
  <2>3. u \in CompStates(U, d, dab)
    BY <2>2, CompRecord
  <2>4. Len(Tail(a)) = Len(a) - 1 /\ Len(a) \in Nat \ {0}
    BY <1>3, <1>6, HeadRest
  <2>5. Left(u) = (Len(a) - 1) + Len(b)
    BY <2>4 DEF Left
  <2> HIDE DEF u
  <2>6. QED
    BY <1>4, <2>1, <2>3, <2>4, <2>5
<1>7. CASE ~(a # <<>> /\ Head(a).kind = "delete") /\ b # <<>> /\ Head(b).kind = "insert"
  <2> DEFINE u == [a |-> a, b |-> Tail(b), out |-> AddInsert(p, Head(b).text)]
  <2>1. ComposeRound(s) = u
    BY <1>2, <1>7 DEF ComposeRound
  <2>2. Comp(U, d, dab, a, Tail(b), AddInsert(p, Head(b).text))
    BY <1>2, <1>7, CompInsert
  <2>3. u \in CompStates(U, d, dab)
    BY <2>2, CompRecord
  <2>4. Len(Tail(b)) = Len(b) - 1 /\ Len(b) \in Nat \ {0}
    BY <1>3, <1>7, HeadRest
  <2>5. Left(u) = Len(a) + (Len(b) - 1)
    BY <2>4 DEF Left
  <2> HIDE DEF u
  <2>6. QED
    BY <1>4, <2>1, <2>3, <2>4, <2>5
<1>8. CASE a # <<>> /\ b # <<>> /\ Head(a).kind # "delete" /\ Head(b).kind # "insert"
  <2> DEFINE n == Smaller(Extent(Head(a)), Extent(Head(b)))
             u == [a |-> Consume(a, n), b |-> Consume(b, n),
                   out |-> Fused(Head(a), Head(b), n, p)]
  <2>1. ComposeRound(s) = u
    BY <1>2, <1>8 DEF ComposeRound
  <2>2. Extent(Head(a)) \in Nat \ {0} /\ Extent(Head(b)) \in Nat \ {0}
    <3>1. ASSUME NEW c \in Component(U)
          PROVE  Extent(c) \in Nat \ {0}
      <4>1. c.kind = "insert" => Len(c.text) \in Nat \ {0}
        BY PartType, EmptySeq
      <4>2. c.kind # "insert" => c.n \in Nat \ {0}
        BY PartType
      <4>3. QED
        BY <4>1, <4>2 DEF Extent
    <3>2. Head(a) \in Component(U) /\ Head(b) \in Component(U)
      BY <1>3, <1>8, HeadRest
    <3>3. QED
      BY <3>1, <3>2
  <2>3. /\ n \in Nat \ {0} /\ n <= Extent(Head(a)) /\ n <= Extent(Head(b))
        /\ n = Extent(Head(a)) \/ n = Extent(Head(b))
    BY <2>2 DEF Smaller
  <2>4. Comp(U, d, dab, Consume(a, n), Consume(b, n), Fused(Head(a), Head(b), n, p))
    <3> HIDE DEF n
    <3>1. QED
      BY <1>2, <1>8, <2>3, CompBoth
  <2>5. u \in CompStates(U, d, dab)
    BY <2>4, CompRecord
  <2>6. /\ Len(Consume(a, n)) \in Nat /\ Len(Consume(a, n)) <= Len(a)
        /\ n = Extent(Head(a)) => Len(Consume(a, n)) < Len(a)
    <3> HIDE DEF n
    <3>1. QED
      BY <1>3, <1>8, <2>3, ConsumeShortens
  <2>7. /\ Len(Consume(b, n)) \in Nat /\ Len(Consume(b, n)) <= Len(b)
        /\ n = Extent(Head(b)) => Len(Consume(b, n)) < Len(b)
    <3> HIDE DEF n
    <3>1. QED
      BY <1>3, <1>8, <2>3, ConsumeShortens
  <2>8. Left(u) = Len(Consume(a, n)) + Len(Consume(b, n))
    BY DEF Left
  <2> HIDE DEF u, n
  <2>9. Left(u) \in Nat /\ Left(u) < Left(s)
    BY <1>4, <2>3, <2>6, <2>7, <2>8
  <2>10. QED
    BY <1>4, <2>1, <2>5, <2>9
<1>9. QED
  BY <1>3, <1>5, <1>6, <1>7, <1>8

\* All rounds, whatever else they keep (S).
CompStart(a, b) == [a |-> a, b |-> b, out |-> <<>>]

CompEnds(a, b, g) == g.a = <<>> /\ g.b = <<>> /\ Compose(a, b) = Build(g.out)

LEMMA ComposeLoop ==
  ASSUME NEW U, NEW d, NEW dab, NEW a \in Seq(Component(U)), NEW b \in Seq(Component(U)),
         NEW S \in SUBSET CompStates(U, d, dab), CompStart(a, b) \in S,
         \A s \in S : ComposeRound(s) \in S
  PROVE  \E g \in S : CompEnds(a, b, g)
<1> DEFINE start == [a |-> a, b |-> b, out |-> <<>>]
           step == [g \in S |-> ComposeRound(g)]
           size == [g \in S |-> Left(g)]
<1>1. PICK N \in Nat : N = Len(a) + Len(b)
  <2>1. Len(a) \in Nat /\ Len(b) \in Nat
    BY LenProperties
  <2>2. QED
    BY <2>1
<1> DEFINE Rounds(s) == s = [i \in 0 .. N |-> IF i = 0 THEN start ELSE ComposeRound(s[i - 1])]
<1>2. start \in S /\ Left(start) = N
  BY <1>1 DEF Left, CompStart
<1>3. ASSUME NEW g \in S
      PROVE  /\ ComposeRound(g) \in S /\ Left(g) \in Nat /\ Left(ComposeRound(g)) \in Nat
             /\ Left(g) > 0 => Left(ComposeRound(g)) < Left(g)
             /\ Left(g) = 0 => Left(ComposeRound(g)) = 0
  <2>1. g \in CompStates(U, d, dab)
    OBVIOUS
  <2>2. QED
    BY <2>1, ComposeRoundKeeps
<1>4. step \in [S -> S] /\ size \in [S -> Nat]
  <2>1. QED
    BY <1>3
<1>5. PICK f \in [0 .. N -> S] : Iterating(N, S, start, step, f)
  <2> HIDE DEF start, step
  <2>1. HasRounds(N, S, start, step)
    BY <1>2, <1>4, RoundsExist
  <2>2. QED
    BY <2>1 DEF HasRounds
<1>6. Rounds(f)
  <2> HIDE DEF start
  <2>1. ASSUME NEW i \in 0 .. N
        PROVE  f[i] = IF i = 0 THEN start ELSE ComposeRound(f[i - 1])
    <3>1. i # 0 => i \in 1 .. N /\ i - 1 \in 0 .. N
      OBVIOUS
    <3>2. QED
      BY <1>5, <3>1 DEF Iterating
  <2>2. f = [i \in 0 .. N |-> f[i]]
    OBVIOUS
  <2>3. QED
    BY <2>1, <2>2
<1>7. PICK s : s = (CHOOSE t : Rounds(t))
  OBVIOUS
<1>8. Rounds(s)
  <2> HIDE DEF Rounds
  <2>1. QED
    BY <1>6, <1>7
<1>9. s[N] \in S /\ size[s[N]] = 0
  <2>1. Iterating(N, S, start, step, s)
    <3> HIDE DEF start
    <3>1. QED
      BY <1>8 DEF Iterating
  <2>2. size[start] <= N
    BY <1>2
  <2>3. Shrinks(S, step, size)
    <3>1. QED
      BY <1>3 DEF Shrinks
  <2> HIDE DEF start, step, size
  <2>4. RunsDown(N, S, start, step, size, s)
    BY <1>2, <1>4, <2>1, <2>2, <2>3, LoopEnds
  <2>5. QED
    BY <2>4 DEF RunsDown
<1>10. PICK g \in S : g = s[N] /\ Left(g) = 0
  <2>1. QED
    BY <1>9
<1>11. g.a = <<>> /\ g.b = <<>>
  <2>1. g.a \in Seq(Component(U)) /\ g.b \in Seq(Component(U))
    BY <1>10 DEF CompStates
  <2>2. PICK k \in Nat, l \in Nat : k = Len(g.a) /\ l = Len(g.b)
    BY <2>1, LenProperties
  <2>3. k = 0 /\ l = 0
    <3>1. k + l = 0
      BY <1>10, <2>2, Zenon DEF Left
    <3>2. QED
      BY <3>1
  <2>4. QED
    BY <2>1, <2>2, <2>3, EmptySeq
<1>12. Compose(a, b) = Build(g.out)
  BY <1>1, <1>7, <1>10 DEF Compose
<1>13. QED
  BY <1>11, <1>12 DEF CompEnds

\* What is composed types nothing that neither of both has typed.

LEMMA FusedInserts ==
  ASSUME NEW U, NEW out \in Seq(Component(U)), NEW ca \in Component(U), NEW cb \in Component(U),
         ca.kind # "delete", cb.kind # "insert", NEW n \in Nat \ {0}, n <= Extent(ca)
  PROVE  Inserted(Fused(ca, cb, n, out)) \subseteq Inserted(out) \cup Range(ca.text)
<1>1. cb.kind = "retain" \/ cb.kind = "delete"
  BY PartType
<1>2. CASE ca.kind = "insert"
  <2>1. PICK t \in Seq(U) : t = ca.text
    BY <1>2, PartType
  <2>2. PICK k \in Nat : k = Len(t) /\ n <= k
    BY <1>2, <2>1, LenProperties DEF Extent
  <2>3. n \in 0 .. Len(t)
    BY <2>2
  <2>4. PICK e \in Seq(U), g \in Seq(U) : t = e \o g /\ Len(e) = n
    <3>1. \E x1, e1 : IsSplit(U, t, n, x1, e1)
      BY <2>1, <2>3, SplitOf
    <3>2. QED
      BY <3>1, Zenon DEF IsSplit
  <2>5. SubSeq(t, 1, n) = e /\ Range(t) = Range(e) \cup Range(g)
    <3>1. Range(e \o g) = Range(e) \cup Range(g)
      BY RangeConcatenation
    <3>2. QED
      BY <2>4, <3>1, SubSeqsOfJoin
  <2>6. CASE cb.kind = "retain"
    <3>1. Fused(ca, cb, n, out) = AddInsert(out, e)
      BY <1>2, <2>1, <2>5, <2>6 DEF Fused
    <3>2. Inserted(AddInsert(out, e)) = Inserted(out) \cup Range(e)
      BY InsertInserts
    <3>3. QED
      BY <2>1, <2>5, <3>1, <3>2
  <2>7. CASE cb.kind = "delete"
    BY <1>2, <2>7 DEF Fused
  <2>8. QED
    BY <1>1, <2>6, <2>7
<1>3. CASE ca.kind = "retain"
  <2>1. CASE cb.kind = "retain"
    <3>1. Fused(ca, cb, n, out) = AddRetain(out, n)
      BY <1>3, <2>1 DEF Fused
    <3>2. QED
      BY <3>1, RetainInserts
  <2>2. CASE cb.kind = "delete"
    <3>1. Fused(ca, cb, n, out) = AddDelete(out, n)
      BY <1>3, <2>2 DEF Fused
    <3>2. QED
      BY <3>1, DeleteInserts
  <2>3. QED
    BY <1>1, <2>1, <2>2
<1>4. QED
  BY <1>2, <1>3, PartType

Typed(s) == Inserted(s.a) \cup Inserted(s.b) \cup Inserted(s.out)

LEMMA ComposeRoundTypes ==
  ASSUME NEW U, NEW d, NEW dab, NEW s \in CompStates(U, d, dab)
  PROVE  Typed(ComposeRound(s)) \subseteq Typed(s)
<1>1. PICK a, b, p : a = s.a /\ b = s.b /\ p = s.out
  OBVIOUS
<1>2. s = [a |-> a, b |-> b, out |-> p] /\ Comp(U, d, dab, a, b, p)
  BY <1>1 DEF CompStates
<1>3. /\ a \in Seq(Component(U)) /\ b \in Seq(Component(U)) /\ p \in Seq(Component(U))
      /\ a = <<>> /\ b # <<>> => Head(b).kind = "insert"
      /\ b = <<>> /\ a # <<>> => Head(a).kind = "delete"
  BY <1>2, CompTypes
<1>4. Typed(s) = Inserted(a) \cup Inserted(b) \cup Inserted(p)
  BY <1>1 DEF Typed
<1>5. CASE a = <<>> /\ b = <<>>
  <2>1. ComposeRound(s) = s
    BY <1>1, <1>5 DEF ComposeRound
  <2>2. QED
    BY <2>1
<1>6. CASE a # <<>> /\ Head(a).kind = "delete"
  <2>1. PICK n : n = Head(a).n
    OBVIOUS
  <2>2. ComposeRound(s) = [a |-> Tail(a), b |-> b, out |-> AddDelete(p, n)]
    BY <1>2, <1>6, <2>1 DEF ComposeRound
  <2>3. n \in Nat
    BY <1>3, <1>6, <2>1, HeadRest, PartType
  <2>4. Inserted(Tail(a)) \subseteq Inserted(a)
    BY <1>3, <1>6, InsertedHead
  <2>5. Inserted(AddDelete(p, n)) = Inserted(p)
    BY <1>3, <2>3, DeleteInserts
  <2>6. Typed(ComposeRound(s)) = Inserted(Tail(a)) \cup Inserted(b) \cup Inserted(AddDelete(p, n))
    BY <2>2 DEF Typed
  <2>7. QED
    BY <1>4, <2>4, <2>5, <2>6
<1>7. CASE ~(a # <<>> /\ Head(a).kind = "delete") /\ b # <<>> /\ Head(b).kind = "insert"
  <2>1. PICK t : t = Head(b).text
    OBVIOUS
  <2>2. ComposeRound(s) = [a |-> a, b |-> Tail(b), out |-> AddInsert(p, t)]
    BY <1>2, <1>7, <2>1 DEF ComposeRound
  <2>3. t \in Seq(U)
    BY <1>3, <1>7, <2>1, HeadRest, PartType
  <2>4. Inserted(b) = Range(t) \cup Inserted(Tail(b))
    BY <1>3, <1>7, <2>1, InsertedHead
  <2>5. Inserted(AddInsert(p, t)) = Inserted(p) \cup Range(t)
    BY <1>3, <2>3, InsertInserts
  <2>6. Typed(ComposeRound(s)) = Inserted(a) \cup Inserted(Tail(b)) \cup Inserted(AddInsert(p, t))
    BY <2>2 DEF Typed
  <2>7. QED
    BY <1>4, <2>4, <2>5, <2>6
<1>8. CASE a # <<>> /\ b # <<>> /\ Head(a).kind # "delete" /\ Head(b).kind # "insert"
  <2>1. PICK ca \in Component(U), cb \in Component(U) : ca = Head(a) /\ cb = Head(b)
    BY <1>3, <1>8, HeadRest
  <2>2. ASSUME NEW c \in Component(U)
        PROVE  Extent(c) \in Nat \ {0}
    <3>1. c.kind = "insert" => Len(c.text) \in Nat \ {0}
      BY PartType, EmptySeq
    <3>2. c.kind # "insert" => c.n \in Nat \ {0}
      BY PartType
    <3>3. QED
      BY <3>1, <3>2 DEF Extent
  <2>3. PICK n \in Nat \ {0} :
          n = Smaller(Extent(ca), Extent(cb)) /\ n <= Extent(ca) /\ n <= Extent(cb)
    BY <2>2 DEF Smaller
  <2>4. ComposeRound(s) = [a |-> Consume(a, n), b |-> Consume(b, n), out |-> Fused(ca, cb, n, p)]
    BY <1>2, <1>8, <2>1, <2>3 DEF ComposeRound
  <2>5. /\ Inserted(Consume(a, n)) \subseteq Inserted(a)
        /\ Inserted(Consume(b, n)) \subseteq Inserted(b)
    BY <1>3, <1>8, <2>1, <2>3, ConsumeInserts
  <2>6. Inserted(Fused(ca, cb, n, p)) \subseteq Inserted(p) \cup Range(ca.text)
    BY <1>3, <1>8, <2>1, <2>3, FusedInserts
  <2>7. Range(ca.text) \subseteq Inserted(a)
    BY <1>3, <1>8, <2>1, InsertedHead
  <2>8. Typed(ComposeRound(s)) = Inserted(Consume(a, n)) \cup Inserted(Consume(b, n))
                                   \cup Inserted(Fused(ca, cb, n, p))
    BY <2>4 DEF Typed
  <2>9. QED
    BY <1>4, <2>5, <2>6, <2>7, <2>8
<1>9. QED
  BY <1>3, <1>5, <1>6, <1>7, <1>8

LEMMA ComposeActs ==
  ASSUME NEW U, NEW a \in Seq(Component(U)), NEW b \in Seq(Component(U)), NEW doc, NEW da,
         NEW dab, Acts(U, a, doc, da), Acts(U, b, da, dab)
  PROVE  /\ Acts(U, composeOps(a, b), doc, dab)
         /\ Inserted(composeOps(a, b)) \subseteq Inserted(a) \cup Inserted(b)
<1>1. /\ doc \in Seq(U) /\ Fits(a, doc) /\ da = applyOp(doc, a)
      /\ da \in Seq(U) /\ Fits(b, da) /\ dab = applyOp(da, b)
  BY ActsApply
<1>2. PICK i \in Nat, j \in Nat : i = opBaseLength(a) /\ j = opBaseLength(b)
  BY BaseJoin
<1>3. PICK x, y, e : ActsOn(U, a, doc, da, x, y, e)
  BY DEF Acts
<1>4. e \in Seq(U) /\ doc = x \o e /\ da = y \o e /\ Runs(U, a, x, y)
  BY <1>3 DEF ActsOn
<1>5. /\ x \in Seq(U) /\ y \in Seq(U) /\ Len(x) = i /\ Len(y) = opTargetLength(a)
  BY <1>2, <1>4, RunsLengths DEF Runs
<1>6. PICK k \in Nat, l \in Nat : k = Len(y) /\ l = Len(e)
  BY <1>4, <1>5, LenProperties
<1>7. j <= k + l
  <2>1. Len(da) = k + l
    BY <1>4, <1>5, <1>6, JoinAt
  <2>2. QED
    BY <1>1, <1>2, <2>1 DEF Fits
<1>8. PICK m \in Nat : Larger(i, j - k + i) = i + m /\ m <= l /\ j <= k + m
  <2>1. CASE j <= k
    <3>1. j - k + i <= i
      BY <1>2, <1>6, <2>1
    <3>2. Larger(i, j - k + i) = i
      BY <1>2, <1>6, <3>1 DEF Larger
    <3>3. 0 \in Nat /\ i = i + 0 /\ 0 <= l /\ j <= k + 0
      BY <1>2, <1>6, <2>1
    <3>4. 0 \in Nat /\ Larger(i, j - k + i) = i + 0 /\ 0 <= l /\ j <= k + 0
      BY <3>2, <3>3
    <3>5. QED
      BY <3>4, Zenon
  <2>2. CASE ~(j <= k)
    <3>1. i < j - k + i /\ j - k + i = i + (j - k)
      BY <1>2, <1>6, <2>2
    <3>2. Larger(i, j - k + i) = i + (j - k)
      BY <3>1 DEF Larger
    <3>3. j - k \in Nat /\ j - k <= l /\ j <= k + (j - k)
      BY <1>2, <1>6, <1>7, <2>2
    <3>4. QED
      BY <3>2, <3>3, Zenon
  <2>3. QED
    BY <2>1, <2>2
\* The text that both see, and what is behind it.
<1>9. PICK v \in Seq(U), w \in Seq(U) : e = v \o w /\ Len(v) = m
  <2>1. m \in 0 .. Len(e)
    BY <1>6, <1>8
  <2>2. \E x1, e1 : IsSplit(U, e, m, x1, e1)
    BY <1>4, <2>1, SplitOf
  <2>3. QED
    BY <2>2, Zenon DEF IsSplit
<1>10. PICK d, dm : d = x \o v /\ dm = y \o v
  OBVIOUS
<1>11. d \in Seq(U) /\ dm \in Seq(U) /\ Len(d) = i + m /\ Len(dm) = k + m
  BY <1>5, <1>6, <1>9, <1>10, JoinAt
<1>12. doc = d \o w /\ da = dm \o w
  <2>1. x \in Seq(U) /\ v \in Seq(U) /\ w \in Seq(U)
    BY <1>5, <1>9
  <2>2. (x \o v) \o w = x \o (v \o w)
    BY <2>1, JoinThree
  <2>3. y \in Seq(U) /\ v \in Seq(U) /\ w \in Seq(U)
    BY <1>5, <1>9
  <2>4. (y \o v) \o w = y \o (v \o w)
    BY <2>3, JoinThree
  <2>5. QED
    BY <1>4, <1>9, <1>10, <2>2, <2>4
<1>13. PICK fa : fa = fitOp(a, i + m)
  OBVIOUS
<1>14. Runs(U, fa, d, dm)
  BY <1>4, <1>5, <1>9, <1>10, <1>13, FitRuns
<1>15. opTargetLength(fa) = Len(dm)
  BY <1>14, RunsLengths
<1>16. Fits(b, dm)
  BY <1>2, <1>8, <1>11 DEF Fits
<1>17. PICK db : Acts(U, b, dm, db)
  BY <1>11, <1>16, FitsActs
<1>18. PICK fb : fb = fitOp(b, Len(dm)) /\ Runs(U, fb, dm, db)
  BY <1>17, FitActs
<1>19. dab = db \o w
  <2>1. Acts(U, b, da, db \o w)
    BY <1>12, <1>17, ActsBefore
  <2>2. QED
    BY <1>1, <2>1, ActsApply
<1>20. Comp(U, d, db, fa, fb, <<>>)
  <2>1. db \in Seq(U)
    BY <1>18 DEF Runs
  <2>2. <<>> \o d = d /\ <<>> \o db = db
    BY <1>11, <2>1, ConcatEmptySeq
  <2>3. CompAt(U, d, db, fa, fb, <<>>, d, dm, db, <<>>, <<>>)
    BY <1>14, <1>18, <2>2, RunsNowhere DEF CompAt
  <2>4. QED
    BY <2>3 DEF Comp
<1>21. PICK p : /\ Comp(U, d, db, <<>>, <<>>, p) /\ Compose(fa, fb) = Build(p)
                /\ Inserted(p) \subseteq Inserted(fa) \cup Inserted(fb)
  <2>1. fa \in Seq(Component(U)) /\ fb \in Seq(Component(U))
    BY <1>14, <1>18 DEF Runs
  <2>2. PICK I, S : /\ I = Inserted(fa) \cup Inserted(fb)
                    /\ S = {s \in CompStates(U, d, db) : Typed(s) \subseteq I}
    OBVIOUS
  <2>3. CompStart(fa, fb) \in S
    <3>1. CompStart(fa, fb) \in CompStates(U, d, db)
      BY <1>20, CompRecord DEF CompStart
    <3>2. Typed(CompStart(fa, fb)) = I
      BY <2>2, InsertedNone DEF Typed, CompStart
    <3>3. QED
      BY <2>2, <3>1, <3>2
  <2>4. \A s \in S : ComposeRound(s) \in S
    <3>1. SUFFICES ASSUME NEW s \in S
                   PROVE  ComposeRound(s) \in S
      OBVIOUS
    <3>2. s \in CompStates(U, d, db) /\ Typed(s) \subseteq I
      BY <2>2
    <3>3. ComposeRound(s) \in CompStates(U, d, db) /\ Typed(ComposeRound(s)) \subseteq Typed(s)
      BY <3>2, ComposeRoundKeeps, ComposeRoundTypes
    <3>4. QED
      BY <2>2, <3>2, <3>3
  <2>5. S \in SUBSET CompStates(U, d, db)
    BY <2>2
  <2>6. PICK g \in S : CompEnds(fa, fb, g)
    BY <2>1, <2>3, <2>4, <2>5, ComposeLoop
  <2>7. Comp(U, d, db, g.a, g.b, g.out) /\ Inserted(g.out) \subseteq I
    BY <2>2 DEF CompStates, Typed
  <2>8. QED
    BY <2>2, <2>6, <2>7 DEF CompEnds
<1>22. Runs(U, p, d, db)
  BY <1>21, CompDone
<1>23. composeOps(a, b) = Build(p)
  <2>1. Larger(opBaseLength(a), opBaseLength(b) - opTargetLength(a) + opBaseLength(a)) = i + m
    BY <1>2, <1>5, <1>6, <1>8
  <2>2. fitOp(b, opTargetLength(fa)) = fb
    BY <1>15, <1>18
  <2>3. QED
    BY <1>13, <1>21, <2>1, <2>2 DEF composeOps
<1>24. Acts(U, Build(p), d \o w, db \o w)
  BY <1>22, BuildActs, ActsBefore
<1>25. Inserted(composeOps(a, b)) \subseteq Inserted(a) \cup Inserted(b)
  <2>1. Inserted(fa) = Inserted(a)
    <3>1. i + m \in Nat /\ i <= i + m
      BY <1>2, <1>8
    <3>2. QED
      BY <1>2, <1>13, <3>1, FitInserts
  <2>2. Inserted(fb) = Inserted(b)
    <3>1. Len(dm) \in Nat /\ opBaseLength(b) <= Len(dm)
      BY <1>11, <1>16, LenProperties DEF Fits
    <3>2. QED
      BY <1>18, <3>1, FitInserts
  <2>3. p \in Seq(Component(U))
    BY <1>22 DEF Runs
  <2>4. Inserted(Build(p)) = Inserted(p)
    BY <2>3, BuildInserts
  <2>5. QED
    BY <1>21, <1>23, <2>1, <2>2, <2>4
<1>26. QED
  BY <1>12, <1>19, <1>23, <1>24, <1>25

LEMMA CleanCompose ==
  ASSUME NEW U, NEW a, NEW b, NEW doc, NEW da, NEW dab, Clean(U, a, doc, da),
         Clean(U, b, da, dab), Inserted(b) \cap Range(doc) = {}
  PROVE  /\ Clean(U, composeOps(a, b), doc, dab)
         /\ Inserted(composeOps(a, b)) \subseteq Inserted(a) \cup Inserted(b)
<1>1. /\ Acts(U, a, doc, da) /\ Acts(U, b, da, dab) /\ IsInjective(doc) /\ IsInjective(dab)
      /\ Inserted(a) \cap Range(doc) = {}
  BY DEF Clean
<1>2. a \in Seq(Component(U)) /\ b \in Seq(Component(U))
  BY <1>1, ActsApply
<1>3. Acts(U, a, doc, da) /\ Acts(U, b, da, dab)
  BY <1>1
<1>4. /\ Acts(U, composeOps(a, b), doc, dab)
      /\ Inserted(composeOps(a, b)) \subseteq Inserted(a) \cup Inserted(b)
  BY <1>2, <1>3, ComposeActs
<1>5. QED
  BY <1>1, <1>4 DEF Clean

LEMMA CleanNormalize ==
  ASSUME NEW U, NEW op, NEW doc, NEW out, Clean(U, op, doc, out)
  PROVE  Clean(U, normalizeOp(op), doc, out) /\ Inserted(normalizeOp(op)) = Inserted(op)
<1>1. Acts(U, op, doc, out)
  BY DEF Clean
<1>2. op \in Seq(Component(U)) /\ Acts(U, normalizeOp(op), doc, out)
  BY <1>1, ActsApply, NormalizeActs
<1>3. Rebuild(op) \in Seq(Component(U)) /\ Inserted(Rebuild(op)) = Inserted(op)
  BY <1>2, RebuildSame DEF Same
<1>4. Inserted(normalizeOp(op)) = Inserted(op)
  BY <1>3, BuildInserts DEF normalizeOp
<1>5. QED
  BY <1>2, <1>4 DEF Clean

\* What a client buffers behind its operation in flight is one operation that does
\* what its edits did one after the other.
THEOREM ComposeDoesBoth ==
  ASSUME NEW U, NEW a \in Operation(U), NEW b \in Operation(U), NEW doc \in Seq(U),
         Fits(a, doc), Fits(b, applyOp(doc, a))
  PROVE  /\ composeOps(a, b) \in Operation(U) /\ Fits(composeOps(a, b), doc)
         /\ applyOp(doc, composeOps(a, b)) = applyOp(applyOp(doc, a), b)
<1>1. a \in Seq(Component(U)) /\ b \in Seq(Component(U))
  BY DEF Operation
<1>2. Acts(U, a, doc, applyOp(doc, a))
  BY <1>1, FitsActs
<1>3. applyOp(doc, a) \in Seq(U)
  BY <1>2, ActsApply
<1>4. Acts(U, b, applyOp(doc, a), applyOp(applyOp(doc, a), b))
  BY <1>1, <1>3, FitsActs
<1>5. Acts(U, composeOps(a, b), doc, applyOp(applyOp(doc, a), b))
  BY <1>1, <1>2, <1>4, ComposeActs
<1>6. QED
  BY <1>5, ActsApply DEF Operation
=============================================================================
