-------------------------- MODULE SharedDocProofs ---------------------------
(***************************************************************************)
(* Proofs about SharedDoc, for every set of clients, every text and every  *)
(* limit.                                                                  *)
(*                                                                         *)
(* TextAt(L, k) is the document at revision k of the log L, OverAt(L, p,   *)
(* i, j) the operation p transformed over the entries i + 1 .. j.  The     *)
(* invariant (DocInv) says that every entry of the log acts on the text    *)
(* before it; that a client's text is made of the document at its revision *)
(* by what it holds; that a request on the network is, transformed over    *)
(* what its client has seen since, what that client still has in flight;   *)
(* and that a commit its client has not seen yet is what the operation in  *)
(* flight will be by then.  Without the last two an acknowledgement could  *)
(* not be told from an edit of somebody else.                              *)
(*                                                                         *)
(* That every edit arrives once needs more (Surv): every character that    *)
(* was typed has a mark, the client and the number under which it sends    *)
(* the edit, and every operation types only what has its mark.  Then no    *)
(* two of the log type the same, however they were transformed; what is    *)
(* typed is in the log or still held (Told); and what is deleted is gone   *)
(* for good, or its deletion is still held (Cut).                          *)
(***************************************************************************)
EXTENDS SharedDoc, OtProofs

----------------------------------------------------------------------------
\* What becomes of a text, and of an operation, that the entries of a log go over.

Text(entries) == Through(LAMBDA text, committed : applyOp(text, committed.ops),
                         InitialText, entries)

Over(o, entries) == Through(LAMBDA op, committed : transformOps(committed.ops, op)[2],
                            o, entries)

\* Entry by entry.
LEMMA TextLaws ==
  ASSUME NEW E, NEW op \in Seq(E)
  PROVE  /\ Text(<<>>) = InitialText
         /\ \A c \in E : Text(Append(op, c)) = applyOp(Text(op), c.ops)
<1> DEFINE Values(o, s) == s = [i \in 0 .. Len(o) |->
                                  IF i = 0 THEN InitialText ELSE applyOp(s[i - 1], o[i].ops)]
<1>1. \A o \in Seq(E) : \E s : Values(o, s)
  <2> DEFINE T == {o \in Seq(E) : \E s : Values(o, s)}
  <2>1. <<>> \in T
    <3>1. Values(<<>>, [i \in 0 .. 0 |-> InitialText])
      OBVIOUS
    <3>2. <<>> \in Seq(E)
      OBVIOUS
    <3> HIDE DEF Values
    <3>3. QED
      BY <3>1, <3>2
  <2>2. ASSUME NEW o \in Seq(E), NEW e \in E, o \in T
        PROVE  Append(o, e) \in T
    <3> DEFINE n == Len(o)
               more == Append(o, e)
    <3>1. PICK s : Values(o, s)
      BY <2>2
    <3> DEFINE t == [i \in 0 .. (n + 1) |-> IF i <= n THEN s[i] ELSE applyOp(s[n], e.ops)]
    <3>2. /\ n \in Nat /\ more \in Seq(E) /\ Len(more) = n + 1 /\ more[n + 1] = e
          /\ \A i \in 1 .. n : more[i] = o[i]
      OBVIOUS
    <3>3. ASSUME NEW i \in 0 .. (n + 1)
          PROVE  t[i] = IF i = 0 THEN InitialText ELSE applyOp(t[i - 1], more[i].ops)
      <4> HIDE DEF more
      <4>1. CASE i = 0
        BY <3>1, <3>2, <4>1
      <4>2. CASE i \in 1 .. n
        <5>1. t[i] = s[i] /\ t[i - 1] = s[i - 1] /\ more[i] = o[i]
          BY <3>2, <4>2
        <5>2. s[i] = applyOp(s[i - 1], o[i].ops)
          <6>1. i \in 0 .. Len(o) /\ i # 0
            BY <3>2, <4>2
          <6> HIDE DEF t
          <6>2. QED
            BY <3>1, <6>1
        <5> HIDE DEF t
        <5>3. QED
          BY <4>2, <5>1, <5>2
      <4>3. CASE i = n + 1
        <5>1. t[i] = applyOp(s[n], e.ops) /\ t[i - 1] = s[n] /\ more[i] = e /\ i # 0
          BY <3>2, <4>3
        <5> HIDE DEF t
        <5>2. QED
          BY <5>1
      <4>4. QED
        BY <3>2, <4>1, <4>2, <4>3
    <3>4. Values(more, t)
      <4>1. t = [i \in 0 .. (n + 1) |-> t[i]]
        OBVIOUS
      <4> HIDE DEF t, more
      <4>2. QED
        BY <3>2, <3>3, <4>1
    <3>5. QED
      BY <3>2, <3>4
  <2>3. QED
    <3> HIDE DEF T
    <3>1. \A o \in Seq(E) : o \in T
      BY <2>1, <2>2, SeqSetInduction
    <3>2. QED
      BY <3>1 DEF T
<1>2. Text(<<>>) = InitialText
  <2> DEFINE s == CHOOSE s : Values(<<>>, s)
  <2>1. Values(<<>>, s)
    <3>1. <<>> \in Seq(E)
      OBVIOUS
    <3> HIDE DEF Values
    <3>2. QED
      BY <1>1, <3>1
  <2>2. Text(<<>>) = s[0]
    BY DEF Text, Through
  <2> HIDE DEF s
  <2>3. QED
    BY <2>1, <2>2
<1>3. ASSUME NEW c \in E
      PROVE  Text(Append(op, c)) = applyOp(Text(op), c.ops)
  <2> DEFINE more == Append(op, c)
             n == Len(op)
             s == CHOOSE s : Values(op, s)
             t == CHOOSE t : Values(more, t)
  <2>1. /\ n \in Nat /\ more \in Seq(E) /\ Len(more) = n + 1 /\ more[n + 1] = c
        /\ \A i \in 1 .. n : more[i] = op[i]
    OBVIOUS
  <2>2. Values(op, s) /\ Values(more, t)
    <3> HIDE DEF Values, more
    <3>1. QED
      BY <1>1, <2>1
  <2>3. Text(op) = s[n] /\ Text(more) = t[n + 1]
    BY <2>1 DEF Text, Through
  <2> HIDE DEF s, t, more
  <2> DEFINE T == {i \in Nat : i <= n => t[i] = s[i]}
  <2>4. 0 \in T
    BY <2>1, <2>2
  <2>5. ASSUME NEW i \in Nat, i \in T
        PROVE  i + 1 \in T
    <3>1. SUFFICES ASSUME i + 1 <= n
                   PROVE  t[i + 1] = s[i + 1]
      OBVIOUS
    <3>2. (i + 1) - 1 = i /\ i + 1 \in 0 .. n /\ i + 1 \in 0 .. n + 1 /\ i + 1 # 0
      BY <2>1, <3>1
    <3>3. s[i + 1] = applyOp(s[i], op[i + 1].ops)
      BY <2>2, <3>2
    <3>4. t[i + 1] = applyOp(t[i], more[i + 1].ops)
      BY <2>1, <2>2, <3>2
    <3>5. t[i] = s[i] /\ more[i + 1] = op[i + 1]
      BY <2>1, <2>5, <3>1
    <3>6. QED
      BY <3>3, <3>4, <3>5
  <2>6. t[n] = s[n]
    <3>1. \A i \in Nat : i \in T
      <4> HIDE DEF T
      <4>1. QED
        BY <2>4, <2>5, NatSetInduction
    <3>2. QED
      BY <2>1, <3>1
  <2>7. t[n + 1] = applyOp(t[n], c.ops)
    <3>1. (n + 1) - 1 = n /\ n + 1 \in 0 .. n + 1 /\ n + 1 # 0
      BY <2>1
    <3>2. QED
      BY <2>1, <2>2, <3>1
  <2>8. QED
    BY <2>3, <2>6, <2>7 DEF more
<1>4. QED
  BY <1>2, <1>3

\* And an operation.
LEMMA OverLaws ==
  ASSUME NEW E, NEW p, NEW op \in Seq(E)
  PROVE  /\ Over(p, <<>>) = p
         /\ \A c \in E : Over(p, Append(op, c)) = transformOps(c.ops, Over(p, op))[2]
<1> DEFINE Values(o, s) == s = [i \in 0 .. Len(o) |->
                                  IF i = 0 THEN p ELSE transformOps(o[i].ops, s[i - 1])[2]]
<1>1. \A o \in Seq(E) : \E s : Values(o, s)
  <2> DEFINE T == {o \in Seq(E) : \E s : Values(o, s)}
  <2>1. <<>> \in T
    <3>1. Values(<<>>, [i \in 0 .. 0 |-> p])
      OBVIOUS
    <3>2. <<>> \in Seq(E)
      OBVIOUS
    <3> HIDE DEF Values
    <3>3. QED
      BY <3>1, <3>2
  <2>2. ASSUME NEW o \in Seq(E), NEW e \in E, o \in T
        PROVE  Append(o, e) \in T
    <3> DEFINE n == Len(o)
               more == Append(o, e)
    <3>1. PICK s : Values(o, s)
      BY <2>2
    <3> DEFINE t == [i \in 0 .. (n + 1) |-> IF i <= n THEN s[i] ELSE transformOps(e.ops, s[n])[2]]
    <3>2. /\ n \in Nat /\ more \in Seq(E) /\ Len(more) = n + 1 /\ more[n + 1] = e
          /\ \A i \in 1 .. n : more[i] = o[i]
      OBVIOUS
    <3>3. ASSUME NEW i \in 0 .. (n + 1)
          PROVE  t[i] = IF i = 0 THEN p ELSE transformOps(more[i].ops, t[i - 1])[2]
      <4> HIDE DEF more
      <4>1. CASE i = 0
        BY <3>1, <3>2, <4>1
      <4>2. CASE i \in 1 .. n
        <5>1. t[i] = s[i] /\ t[i - 1] = s[i - 1] /\ more[i] = o[i]
          BY <3>2, <4>2
        <5>2. s[i] = transformOps(o[i].ops, s[i - 1])[2]
          <6>1. i \in 0 .. Len(o) /\ i # 0
            BY <3>2, <4>2
          <6> HIDE DEF t
          <6>2. QED
            BY <3>1, <6>1
        <5> HIDE DEF t
        <5>3. QED
          BY <4>2, <5>1, <5>2
      <4>3. CASE i = n + 1
        <5>1. t[i] = transformOps(e.ops, s[n])[2] /\ t[i - 1] = s[n] /\ more[i] = e /\ i # 0
          BY <3>2, <4>3
        <5> HIDE DEF t
        <5>2. QED
          BY <5>1
      <4>4. QED
        BY <3>2, <4>1, <4>2, <4>3
    <3>4. Values(more, t)
      <4>1. t = [i \in 0 .. (n + 1) |-> t[i]]
        OBVIOUS
      <4> HIDE DEF t, more
      <4>2. QED
        BY <3>2, <3>3, <4>1
    <3>5. QED
      BY <3>2, <3>4
  <2>3. QED
    <3> HIDE DEF T
    <3>1. \A o \in Seq(E) : o \in T
      BY <2>1, <2>2, SeqSetInduction
    <3>2. QED
      BY <3>1 DEF T
<1>2. Over(p, <<>>) = p
  <2> DEFINE s == CHOOSE s : Values(<<>>, s)
  <2>1. Values(<<>>, s)
    <3>1. <<>> \in Seq(E)
      OBVIOUS
    <3> HIDE DEF Values
    <3>2. QED
      BY <1>1, <3>1
  <2>2. Over(p, <<>>) = s[0]
    BY DEF Over, Through
  <2> HIDE DEF s
  <2>3. QED
    BY <2>1, <2>2
<1>3. ASSUME NEW c \in E
      PROVE  Over(p, Append(op, c)) = transformOps(c.ops, Over(p, op))[2]
  <2> DEFINE more == Append(op, c)
             n == Len(op)
             s == CHOOSE s : Values(op, s)
             t == CHOOSE t : Values(more, t)
  <2>1. /\ n \in Nat /\ more \in Seq(E) /\ Len(more) = n + 1 /\ more[n + 1] = c
        /\ \A i \in 1 .. n : more[i] = op[i]
    OBVIOUS
  <2>2. Values(op, s) /\ Values(more, t)
    <3> HIDE DEF Values, more
    <3>1. QED
      BY <1>1, <2>1
  <2>3. Over(p, op) = s[n] /\ Over(p, more) = t[n + 1]
    BY <2>1 DEF Over, Through
  <2> HIDE DEF s, t, more
  <2> DEFINE T == {i \in Nat : i <= n => t[i] = s[i]}
  <2>4. 0 \in T
    BY <2>1, <2>2
  <2>5. ASSUME NEW i \in Nat, i \in T
        PROVE  i + 1 \in T
    <3>1. SUFFICES ASSUME i + 1 <= n
                   PROVE  t[i + 1] = s[i + 1]
      OBVIOUS
    <3>2. (i + 1) - 1 = i /\ i + 1 \in 0 .. n /\ i + 1 \in 0 .. n + 1 /\ i + 1 # 0
      BY <2>1, <3>1
    <3>3. s[i + 1] = transformOps(op[i + 1].ops, s[i])[2]
      BY <2>2, <3>2
    <3>4. t[i + 1] = transformOps(more[i + 1].ops, t[i])[2]
      BY <2>1, <2>2, <3>2
    <3>5. t[i] = s[i] /\ more[i + 1] = op[i + 1]
      BY <2>1, <2>5, <3>1
    <3>6. QED
      BY <3>3, <3>4, <3>5
  <2>6. t[n] = s[n]
    <3>1. \A i \in Nat : i \in T
      <4> HIDE DEF T
      <4>1. QED
        BY <2>4, <2>5, NatSetInduction
    <3>2. QED
      BY <2>1, <3>1
  <2>7. t[n + 1] = transformOps(c.ops, t[n])[2]
    <3>1. (n + 1) - 1 = n /\ n + 1 \in 0 .. n + 1 /\ n + 1 # 0
      BY <2>1
    <3>2. QED
      BY <2>1, <2>2, <3>1
  <2>8. QED
    BY <2>3, <2>6, <2>7 DEF more
<1>4. QED
  BY <1>2, <1>3

\* The entries i + 1 .. j of a log.
Between(L, i, j) == SubSeq(L, i + 1, j)

BetweenIs(E, L, i, j, part) == /\ part \in Seq(E) /\ Len(part) = j - i
                               /\ \A k \in 1 .. j - i : part[k] = L[i + k]

LEMMA BetweenLaws ==
  ASSUME NEW E, NEW L \in Seq(E), NEW i \in Nat, NEW j \in Nat, i <= j, j <= Len(L)
  PROVE  BetweenIs(E, L, i, j, Between(L, i, j))
<1>1. PICK n \in Nat : n = Len(L)
  BY LenProperties
<1>2. i + 1 \in Int /\ j \in Int /\ \A k \in i + 1 .. j : L[k] \in E
  BY <1>1
<1>3. /\ SubSeq(L, i + 1, j) \in Seq(E)
      /\ Len(SubSeq(L, i + 1, j)) = IF i + 1 <= j THEN j - (i + 1) + 1 ELSE 0
      /\ \A k \in 1 .. j - (i + 1) + 1 : SubSeq(L, i + 1, j)[k] = L[(i + 1) + k - 1]
  BY <1>2, SubSeqProperties
<1>4. QED
  BY <1>3 DEF Between, BetweenIs

LEMMA BetweenNone ==
  ASSUME NEW E, NEW L \in Seq(E), NEW i \in 0 .. Len(L)
  PROVE  Between(L, i, i) = <<>>
<1>1. i \in Nat /\ i <= Len(L)
  BY LenProperties
<1>2. BetweenIs(E, L, i, i, Between(L, i, i))
  BY <1>1, BetweenLaws
<1>3. QED
  BY <1>1, <1>2, EmptySeq DEF BetweenIs

LEMMA BetweenMore ==
  ASSUME NEW E, NEW L \in Seq(E), NEW i \in Nat, NEW j \in Nat, i <= j, j + 1 <= Len(L)
  PROVE  Between(L, i, j + 1) = Append(Between(L, i, j), L[j + 1])
<1>1. PICK n \in Nat : n = Len(L)
  BY LenProperties
<1>2. j <= Len(L) /\ i <= j + 1 /\ j + 1 \in Nat /\ L[j + 1] \in E
  BY <1>1
<1>3. PICK p : p = Between(L, i, j) /\ BetweenIs(E, L, i, j, p)
  BY <1>2, BetweenLaws
<1>4. PICK q : q = Between(L, i, j + 1) /\ BetweenIs(E, L, i, j + 1, q)
  BY <1>2, BetweenLaws
<1>5. PICK r \in Seq(E) : r = Append(p, L[j + 1])
  BY <1>2, <1>3, AppendProperties DEF BetweenIs
<1>6. /\ Len(r) = Len(p) + 1 /\ r[Len(p) + 1] = L[j + 1]
      /\ \A k \in 1 .. Len(p) : r[k] = p[k]
  <2>1. p \in Seq(E) /\ L[j + 1] \in E
    BY <1>2, <1>3 DEF BetweenIs
  <2>2. QED
    BY <1>5, <2>1, AppendProperties
<1>7. /\ p \in Seq(E) /\ Len(p) = j - i /\ \A k \in 1 .. j - i : p[k] = L[i + k]
      /\ q \in Seq(E) /\ Len(q) = (j + 1) - i
      /\ \A k \in 1 .. (j + 1) - i : q[k] = L[i + k]
      /\ Len(r) = Len(q)
  BY <1>3, <1>4, <1>6 DEF BetweenIs
<1>8. ASSUME NEW k \in 1 .. Len(r)
      PROVE  r[k] = q[k]
  <2>1. PICK m \in Nat : m = Len(p) /\ i + (m + 1) = j + 1 /\ m + 1 = (j + 1) - i
    BY <1>7
  <2>2. CASE k = m + 1
    BY <1>6, <1>7, <2>1, <2>2
  <2>3. CASE k # m + 1
    <3>1. k \in 1 .. m /\ k \in 1 .. j - i /\ k \in 1 .. (j + 1) - i
      BY <1>6, <1>7, <2>1, <2>3
    <3>2. QED
      BY <1>6, <1>7, <1>7, <2>1, <3>1
  <2>4. QED
    BY <2>2, <2>3
<1>9. r = q
  BY <1>7, <1>8, SeqEqual
<1>10. QED
  BY <1>3, <1>4, <1>5, <1>9

\* A longer log has the parts of the shorter one.
LEMMA BetweenStays ==
  ASSUME NEW E, NEW L \in Seq(E), NEW e \in E, NEW i \in Nat, NEW j \in Nat, i <= j, j <= Len(L)
  PROVE  Between(Append(L, e), i, j) = Between(L, i, j)
<1>1. PICK n \in Nat : n = Len(L)
  BY LenProperties
<1>2. PICK M \in Seq(E) : M = Append(L, e)
  BY AppendProperties
<1>3. Len(M) = n + 1 /\ j <= Len(M) /\ \A k \in 1 .. n : M[k] = L[k]
  BY <1>1, <1>2, AppendProperties
<1>4. PICK p : p = Between(L, i, j) /\ BetweenIs(E, L, i, j, p)
  BY BetweenLaws
<1>5. PICK q : q = Between(M, i, j) /\ BetweenIs(E, M, i, j, q)
  BY <1>3, BetweenLaws
<1>6. /\ p \in Seq(E) /\ Len(p) = j - i /\ \A k \in 1 .. j - i : p[k] = L[i + k]
      /\ q \in Seq(E) /\ Len(q) = j - i /\ \A k \in 1 .. j - i : q[k] = M[i + k]
  BY <1>4, <1>5 DEF BetweenIs
<1>7. ASSUME NEW k \in 1 .. Len(p)
      PROVE  p[k] = q[k]
  <2>1. k \in 1 .. j - i /\ i + k \in 1 .. n
    BY <1>1, <1>6
  <2>2. QED
    BY <1>3, <1>6, <2>1
<1>8. p = q
  BY <1>6, <1>7, SeqEqual
<1>9. QED
  BY <1>2, <1>4, <1>5, <1>8

\* The text at a revision of a log, and an operation over entries i + 1 .. j.
TextAt(L, k)       == Text(Between(L, 0, k))
OverAt(L, o, i, j) == Over(o, Between(L, i, j))

LEMMA TextStart ==
  ASSUME NEW E, NEW L \in Seq(E)
  PROVE  TextAt(L, 0) = InitialText
<1>1. 0 \in 0 .. Len(L)
  BY LenProperties
<1>2. <<>> \in Seq(E) /\ Between(L, 0, 0) = <<>>
  BY <1>1, EmptySeq, BetweenNone
<1>3. QED
  BY <1>2, TextLaws DEF TextAt

LEMMA TextStep ==
  ASSUME NEW E, NEW L \in Seq(E), NEW k \in Nat, k + 1 <= Len(L)
  PROVE  TextAt(L, k + 1) = applyOp(TextAt(L, k), L[k + 1].ops)
<1>1. PICK n \in Nat : n = Len(L)
  BY LenProperties
<1>2. 0 <= k /\ k <= Len(L) /\ L[k + 1] \in E /\ 0 \in Nat
  BY <1>1
<1>3. Between(L, 0, k) \in Seq(E)
  BY <1>2, BetweenLaws DEF BetweenIs
<1>4. Between(L, 0, k + 1) = Append(Between(L, 0, k), L[k + 1])
  BY <1>2, BetweenMore
<1>5. QED
  BY <1>2, <1>3, <1>4, TextLaws DEF TextAt

LEMMA TextStays ==
  ASSUME NEW E, NEW L \in Seq(E), NEW e \in E, NEW k \in 0 .. Len(L)
  PROVE  TextAt(Append(L, e), k) = TextAt(L, k)
<1>1. k \in Nat /\ 0 <= k /\ k <= Len(L) /\ 0 \in Nat
  BY LenProperties
<1>2. Between(Append(L, e), 0, k) = Between(L, 0, k)
  BY <1>1, BetweenStays
<1>3. QED
  BY <1>2 DEF TextAt

LEMMA OverStart ==
  ASSUME NEW E, NEW L \in Seq(E), NEW i \in 0 .. Len(L), NEW p
  PROVE  OverAt(L, p, i, i) = p
<1>1. <<>> \in Seq(E) /\ Between(L, i, i) = <<>>
  BY EmptySeq, BetweenNone
<1>2. QED
  BY <1>1, OverLaws DEF OverAt

LEMMA OverStep ==
  ASSUME NEW E, NEW L \in Seq(E), NEW i \in Nat, NEW j \in Nat, i <= j, j + 1 <= Len(L), NEW p
  PROVE  OverAt(L, p, i, j + 1) = transformOps(L[j + 1].ops, OverAt(L, p, i, j))[2]
<1>1. PICK n \in Nat : n = Len(L)
  BY LenProperties
<1>2. j <= Len(L) /\ L[j + 1] \in E
  BY <1>1
<1>3. PICK q \in Seq(E) : q = Between(L, i, j)
  BY <1>2, BetweenLaws DEF BetweenIs
<1>4. Between(L, i, j + 1) = Append(q, L[j + 1])
  BY <1>2, <1>3, BetweenMore
<1>5. Over(p, Append(q, L[j + 1])) = transformOps(L[j + 1].ops, Over(p, q))[2]
  BY <1>2, <1>3, OverLaws
<1>6. QED
  BY <1>3, <1>4, <1>5 DEF OverAt

LEMMA OverStays ==
  ASSUME NEW E, NEW L \in Seq(E), NEW e \in E, NEW i \in Nat, NEW j \in Nat, i <= j, j <= Len(L),
         NEW p
  PROVE  OverAt(Append(L, e), p, i, j) = OverAt(L, p, i, j)
BY BetweenStays DEF OverAt

\* First over some entries, then over the rest.
LEMMA OverJoins ==
  ASSUME NEW E, NEW L \in Seq(E), NEW i \in Nat, NEW k \in Nat, NEW j \in Nat, i <= k, k <= j,
         j <= Len(L), NEW p
  PROVE  OverAt(L, p, i, j) = OverAt(L, OverAt(L, p, i, k), k, j)
<1> DEFINE q == OverAt(L, p, i, k)
           T == {m \in Nat : k + m <= Len(L) => OverAt(L, p, i, k + m) = OverAt(L, q, k, k + m)}
<1>1. PICK n \in Nat : n = Len(L)
  BY LenProperties
<1>2. 0 \in T
  <2>1. k \in 0 .. Len(L) /\ k + 0 = k
    BY <1>1
  <2> HIDE DEF q
  <2>2. OverAt(L, q, k, k) = q
    BY <2>1, OverStart
  <2>3. QED
    BY <2>1, <2>2 DEF q
<1>3. ASSUME NEW m \in Nat, m \in T
      PROVE  m + 1 \in T
  <2>1. SUFFICES ASSUME k + (m + 1) <= Len(L)
                 PROVE  OverAt(L, p, i, k + (m + 1)) = OverAt(L, q, k, k + (m + 1))
    OBVIOUS
  <2>2. PICK l \in Nat : l = k + m /\ l + 1 = k + (m + 1) /\ i <= l /\ k <= l /\ l + 1 <= Len(L)
    BY <2>1
  <2>3. OverAt(L, p, i, l) = OverAt(L, q, k, l)
    <3>1. k + m <= Len(L)
      BY <1>1, <2>1
    <3>2. QED
      BY <1>3, <2>2, <3>1
  <2> HIDE DEF q, T
  <2>4. OverAt(L, p, i, l + 1) = transformOps(L[l + 1].ops, OverAt(L, p, i, l))[2]
    BY <2>2, OverStep
  <2>5. OverAt(L, q, k, l + 1) = transformOps(L[l + 1].ops, OverAt(L, q, k, l))[2]
    BY <2>2, OverStep
  <2>6. QED
    BY <2>2, <2>3, <2>4, <2>5
<1>4. \A m \in Nat : m \in T
  <2> HIDE DEF T
  <2>1. QED
    BY <1>2, <1>3, NatSetInduction
<1>5. j - k \in Nat /\ k + (j - k) = j
  OBVIOUS
<1>6. j - k \in T
  BY <1>4, <1>5
<1>7. QED
  <2> HIDE DEF q
  <2>1. OverAt(L, p, i, k + (j - k)) = OverAt(L, q, k, k + (j - k))
    BY <1>5, <1>6
  <2>2. QED
    BY <1>5, <2>1 DEF q

----------------------------------------------------------------------------
\* What operations do to the texts of the log.

\* One text made of another by an operation that may be held, or not.
Holds(U, held, text, out) == \/ held = None /\ text \in Seq(U) /\ out = text
                             \/ \E op : held = <<op>> /\ Acts(U, op, text, out)

LEMMA HeldNone ==
  ASSUME NEW U, NEW text, NEW out, Holds(U, None, text, out)
  PROVE  text \in Seq(U) /\ out = text
BY DEF Holds, None

LEMMA HeldOne ==
  ASSUME NEW U, NEW op, NEW text, NEW out, Holds(U, <<op>>, text, out)
  PROVE  Acts(U, op, text, out)
BY DEF Holds, None

LEMMA HeldTypes ==
  ASSUME NEW U, NEW held, NEW text, NEW out, Holds(U, held, text, out)
  PROVE  /\ text \in Seq(U) /\ out \in Seq(U)
         /\ held # None => \E op \in Operation(U) : held = <<op>>
BY ActsApply DEF Holds, None, Operation

\* Each of two operations on one text, over the other.
MergesTo(U, da, db, p, q, m) == Acts(U, p, db, m) /\ Acts(U, q, da, m)

LEMMA ActsMerge ==
  ASSUME NEW U, NEW a, NEW b, NEW doc, NEW da, NEW db, Acts(U, a, doc, da), Acts(U, b, doc, db)
  PROVE  \E m : MergesTo(U, da, db, transformOps(a, b)[1], transformOps(a, b)[2], m)
<1>1. /\ a \in Seq(Component(U)) /\ doc \in Seq(U) /\ Fits(a, doc) /\ da = applyOp(doc, a)
      /\ b \in Seq(Component(U)) /\ Fits(b, doc) /\ db = applyOp(doc, b)
  BY ActsApply
<1>2. PICK m : MergeAs(U, doc, a, b, transformOps(a, b)[1], transformOps(a, b)[2], m)
  BY <1>1, TransformActs
<1>3. MergesTo(U, da, db, transformOps(a, b)[1], transformOps(a, b)[2], m)
  BY <1>1, <1>2 DEF MergeAs, MergesTo
<1>4. QED
  BY <1>3

PastAs(U, past, next, out, m) == Acts(U, past[1], out, m) /\ Holds(U, past[2], next, m)

LEMMA PastHolds ==
  ASSUME NEW U, NEW op, NEW held, NEW text, NEW next, NEW out,
         Acts(U, op, text, next), Holds(U, held, text, out)
  PROVE  \E m : PastAs(U, Past(op, held), next, out, m)
<1>1. CASE held = None
  <2>1. Past(op, held) = <<op, None>> /\ out = text
    BY <1>1, HeldNone DEF Past
  <2>2. next \in Seq(U)
    BY ActsApply
  <2>3. PastAs(U, Past(op, held), next, out, next)
    BY <2>1, <2>2 DEF PastAs, Holds
  <2>4. QED
    BY <2>3
<1>2. CASE held # None
  <2>1. PICK b : held = <<b>> /\ Acts(U, b, text, out)
    BY <1>2 DEF Holds
  <2>2. PICK m : MergesTo(U, next, out, transformOps(op, b)[1], transformOps(op, b)[2], m)
    BY <2>1, ActsMerge
  <2>3. Past(op, held) = <<transformOps(op, b)[1], <<transformOps(op, b)[2]>>>>
    BY <1>2, <2>1 DEF Past
  <2>4. Holds(U, <<transformOps(op, b)[2]>>, next, m)
    BY <2>2 DEF MergesTo, Holds
  <2>5. PastAs(U, Past(op, held), next, out, m)
    BY <2>2, <2>3, <2>4 DEF PastAs, MergesTo
  <2>6. QED
    BY <2>5
<1>3. QED
  BY <1>1, <1>2

LEMMA JoinParts ==
  ASSUME NEW U, NEW x \in Seq(U), NEW v \in Seq(U), NEW p \in Seq(U), NEW r, r = v \o p
  PROVE  x \o r = (x \o v) \o p
<1>1. (x \o v) \o p = x \o (v \o p)
  BY JoinThree
<1>2. QED
  BY <1>1

\* One edit: after the p characters x, the m characters d are deleted and t is inserted.
EditOp(p, m, t) == Build(AddInsert(AddDelete(AddRetain(<<>>, p), m), t))

EditAs(U, op, text, p, m, t, x, d, e) ==
  /\ x \in Seq(U) /\ d \in Seq(U) /\ e \in Seq(U) /\ text = (x \o d) \o e
  /\ Len(x) = p /\ Len(d) = m
  /\ Acts(U, op, text, (x \o t) \o e) /\ Inserted(op) = Range(t)

LEMMA EditActs ==
  ASSUME NEW U, NEW text \in Seq(U), NEW p \in Nat, NEW m \in Nat, p + m <= Len(text),
         NEW t \in Seq(U)
  PROVE  \E x, d, e : EditAs(U, EditOp(p, m, t), text, p, m, t, x, d, e)
<1>1. PICK n \in Nat : n = Len(text)
  BY LenProperties
<1>2. p \in 0 .. Len(text)
  BY <1>1
<1>3. PICK x \in Seq(U), r \in Seq(U) : text = x \o r /\ Len(x) = p
  <2>1. \E x1, e1 : IsSplit(U, text, p, x1, e1)
    BY <1>2, SplitOf
  <2>2. QED
    BY <2>1, Zenon DEF IsSplit
<1>4. m \in 0 .. Len(r)
  <2>1. Len(text) = Len(x) + Len(r) /\ Len(r) \in Nat
    BY <1>3, JoinAt
  <2>2. QED
    BY <1>3, <2>1
<1>5. PICK d \in Seq(U), e \in Seq(U) : r = d \o e /\ Len(d) = m
  <2>1. \E x1, e1 : IsSplit(U, r, m, x1, e1)
    BY <1>4, SplitOf
  <2>2. QED
    BY <2>1, Zenon DEF IsSplit
<1>6. PICK kept : kept = AddRetain(<<>>, p)
  OBVIOUS
<1>7. Runs(U, kept, x, x) /\ Inserted(kept) = {}
  <2>1. CASE p = 0
    <3>1. x = <<>>
      BY <1>3, <2>1, EmptySeq
    <3>2. kept = <<>>
      BY <1>6, <2>1 DEF AddRetain
    <3>3. QED
      BY <3>1, <3>2, RunsNowhere, InsertedNone
  <2>2. CASE p # 0
    <3>1. p \in Nat \ {0} /\ p = Len(x) /\ <<>> \in Seq(Component(U))
      BY <1>3, <2>2
    <3>2. Runs(U, AddRetain(<<>>, p), <<>> \o x, <<>> \o x)
      BY <3>1, RunsNowhere, RetainRuns
    <3>3. <<>> \o x = x
      BY ConcatEmptySeq
    <3>4. Inserted(AddRetain(<<>>, p)) = {}
      BY <3>1, RetainInserts, InsertedNone
    <3>5. QED
      BY <1>6, <3>2, <3>3, <3>4
  <2>3. QED
    BY <2>1, <2>2
<1>8. PICK cut : cut = AddDelete(kept, m)
  OBVIOUS
<1>9. Runs(U, cut, x \o d, x) /\ Inserted(cut) = {}
  <2>1. CASE m = 0
    <3>1. d = <<>> /\ x \o <<>> = x
      BY <1>5, <2>1, EmptySeq, ConcatEmptySeq
    <3>2. cut = kept
      BY <1>8, <2>1 DEF AddDelete
    <3>3. QED
      BY <1>7, <3>1, <3>2
  <2>2. CASE m # 0
    <3>1. m \in Nat \ {0} /\ m = Len(d)
      BY <1>5, <2>2
    <3>2. Runs(U, AddDelete(kept, m), x \o d, x)
      BY <1>7, <3>1, DeleteRuns
    <3>3. kept \in Seq(Component(U))
      BY <1>7 DEF Runs
    <3>4. Inserted(AddDelete(kept, m)) = {}
      BY <1>7, <3>1, <3>3, DeleteInserts
    <3>5. QED
      BY <1>8, <3>2, <3>4
  <2>3. QED
    BY <2>1, <2>2
<1>10. PICK all : all = AddInsert(cut, t)
  OBVIOUS
<1>11. Runs(U, all, x \o d, x \o t) /\ Inserted(all) = Range(t)
  <2>1. CASE t = <<>>
    <3>1. all = cut
      BY <1>10, <2>1 DEF AddInsert
    <3>2. x \o t = x /\ Range(t) = {}
      BY <2>1, ConcatEmptySeq, RangeNone
    <3>3. QED
      BY <1>9, <3>1, <3>2
  <2>2. CASE t # <<>>
    <3>1. Runs(U, all, x \o d, x \o t)
      BY <1>9, <1>10, <2>2, InsertRuns
    <3>2. cut \in Seq(Component(U))
      BY <1>9 DEF Runs
    <3>3. Inserted(AddInsert(cut, t)) = Inserted(cut) \cup Range(t)
      BY <3>2, InsertInserts
    <3>4. QED
      BY <1>9, <1>10, <3>1, <3>3
  <2>3. QED
    BY <2>1, <2>2
<1>12. Acts(U, Build(all), (x \o d) \o e, (x \o t) \o e)
  BY <1>11, BuildActs, ActsBefore
<1>13. Inserted(Build(all)) = Range(t)
  <2>1. all \in Seq(Component(U))
    BY <1>11 DEF Runs
  <2>2. QED
    BY <1>11, <2>1, BuildInserts
<1>14. text = (x \o d) \o e
  BY <1>3, <1>5, JoinParts
<1>15. EditAs(U, Build(all), text, p, m, t, x, d, e)
  BY <1>3, <1>5, <1>12, <1>13, <1>14 DEF EditAs
<1>16. Build(all) = EditOp(p, m, t)
  BY <1>6, <1>8, <1>10 DEF EditOp
<1>17. QED
  BY <1>15, <1>16

\* Every entry of a log acts on the text that the entries before it made.
LogActs(U, L) == \A k \in 1 .. Len(L) : Acts(U, L[k].ops, TextAt(L, k - 1), TextAt(L, k))

\* Then an operation that acts on one of these texts acts on the later ones too,
\* when it has been transformed over what is between.
LEMMA OverActs ==
  ASSUME NEW U, NEW E, NEW L \in Seq(E), LogActs(U, L), NEW i \in Nat, NEW j \in Nat, i <= j,
         j <= Len(L), NEW p, NEW out, Acts(U, p, TextAt(L, i), out)
  PROVE  \E z : Acts(U, OverAt(L, p, i, j), TextAt(L, j), z)
<1> DEFINE T == {m \in Nat : i + m <= Len(L) =>
                               \E z : Acts(U, OverAt(L, p, i, i + m), TextAt(L, i + m), z)}
<1>1. PICK n \in Nat : n = Len(L)
  BY LenProperties
<1>2. 0 \in T
  <2>1. i \in 0 .. Len(L) /\ i + 0 = i
    BY <1>1
  <2>2. OverAt(L, p, i, i) = p
    BY <2>1, OverStart
  <2>3. QED
    BY <2>1, <2>2
<1>3. ASSUME NEW m \in Nat, m \in T
      PROVE  m + 1 \in T
  <2>1. SUFFICES ASSUME i + (m + 1) <= Len(L)
                 PROVE  \E z : Acts(U, OverAt(L, p, i, i + (m + 1)), TextAt(L, i + (m + 1)), z)
    OBVIOUS
  <2>2. PICK l \in Nat : l = i + m /\ l + 1 = i + (m + 1) /\ i <= l /\ l + 1 <= Len(L)
    BY <2>1
  <2>3. PICK q : q = OverAt(L, p, i, l)
    OBVIOUS
  <2>4. PICK z : Acts(U, q, TextAt(L, l), z)
    <3>1. i + m <= Len(L)
      BY <1>1, <2>1
    <3>2. QED
      BY <1>3, <2>2, <2>3, <3>1
  <2> HIDE DEF T
  <2>5. Acts(U, L[l + 1].ops, TextAt(L, l), TextAt(L, l + 1))
    <3>1. l + 1 \in 1 .. Len(L) /\ (l + 1) - 1 = l
      BY <1>1, <2>2
    <3>2. QED
      BY <3>1 DEF LogActs
  <2>6. PICK y : MergesTo(U, TextAt(L, l + 1), z, transformOps(L[l + 1].ops, q)[1],
                          transformOps(L[l + 1].ops, q)[2], y)
    BY <2>4, <2>5, ActsMerge
  <2>7. OverAt(L, p, i, l + 1) = transformOps(L[l + 1].ops, q)[2]
    BY <2>2, <2>3, OverStep
  <2>8. Acts(U, OverAt(L, p, i, l + 1), TextAt(L, l + 1), y)
    BY <2>6, <2>7 DEF MergesTo
  <2>9. QED
    BY <2>2, <2>8
<1>4. \A m \in Nat : m \in T
  <2> HIDE DEF T
  <2>1. QED
    BY <1>2, <1>3, NatSetInduction
<1>5. j - i \in Nat /\ i + (j - i) = j
  OBVIOUS
<1>6. j - i \in T
  BY <1>4, <1>5
<1>7. QED
  BY <1>5, <1>6

----------------------------------------------------------------------------
\* The inductive invariant.

Entry   == [ops : Operation(Char), client : Client, seq : 1 .. MaxEdits]
Held    == {None} \cup {<<op>> : op \in Operation(Char)}
Request == [seq : Nat, baseRev : Nat, ops : Held]
Sync    == [text : Seq(Char), rev : Nat, outstanding : Held, buffer : Held, clientSeq : Nat,
            seq : Nat, timer : BOOLEAN, sending : BOOLEAN, tries : Nat, request : Request,
            handled : BOOLEAN]

\* The log L is a history of the document: each of its operations acts on the text
\* that those before it made, and the document is what they all made.
LogOK(L, text) == /\ L \in Seq(Entry) /\ LogActs(Char, L)
                  /\ text \in Seq(Char) /\ text = TextAt(L, Len(L)) /\ Len(text) <= MaxDocChars

\* What a client shows is made of the text at its revision by what it holds.
View(L, s) == \E m : /\ Holds(Char, s.outstanding, TextAt(L, s.rev), m)
                     /\ Holds(Char, s.buffer, m, s.text)

\* The numbers a client has given, and may still give to what it holds, are no
\* more than the edits that were made.
Numbered(n, s) == s.clientSeq + (IF Dirty(s) /\ s.seq = 0 THEN 1 ELSE 0)
                              + (IF s.buffer # None THEN 1 ELSE 0) <= n

\* The client's own commit, when it is still ahead of it in the log, is what the
\* operation in flight will be when the client gets there.
Flight(L, c, s) ==
  \A k \in 1 .. Len(L) :
    L[k].client = c =>
      /\ L[k].seq <= s.clientSeq
      /\ k > s.rev /\ Dirty(s) /\ L[k].seq = s.seq =>
           L[k].ops = normalizeOp(OverAt(L, s.outstanding[1], s.rev, k - 1))

EditsOK(L, n, c, s) ==
  /\ s.rev <= Len(L)
  /\ s.buffer # None => Dirty(s)
  /\ s.seq # 0 => Dirty(s) /\ s.seq = s.clientSeq
  /\ Numbered(n, s) /\ View(L, s) /\ Flight(L, c, s)

SendOK(s) == /\ s.sending <=> s.request # NoRequest
             /\ s.sending <=> s.tries \in 1 .. MaxAttempts
             /\ s.sending => s.request.seq # 0
             /\ s.handled => s.sending

\* A request on the network has a number its client has given, and an operation for
\* a text the document had.  When it is of the operation that the client still has
\* in flight, that is this one, transformed over what the client has seen since.
PostOK(L, c, s, r) ==
  /\ r.ops # None /\ r.seq \in 1 .. s.clientSeq /\ r.baseRev <= Len(L)
  /\ \E z : Acts(Char, r.ops[1], TextAt(L, r.baseRev), z)
  /\ r.seq = s.seq /\ Dirty(s) =>
       r.baseRev <= s.rev /\ s.outstanding[1] = OverAt(L, r.ops[1], r.baseRev, s.rev)

DocInv ==
  /\ LogOK(log, content)
  /\ edits \in 0 .. MaxEdits
  /\ client \in [Client -> Sync]
  /\ \A c \in Client : EditsOK(log, edits, c, client[c]) /\ SendOK(client[c])
  /\ net \subseteq Client \X Request
  /\ \A c \in Client, r \in Request : <<c, r>> \in net => PostOK(log, c, client[c], r)

----------------------------------------------------------------------------
\* What it says, in the words of the properties.

LEMMA ContentIs ==
  ASSUME NEW k
  PROVE  ContentAt(k) = TextAt(log, k)
<1>1. 0 + 1 = 1
  OBVIOUS
<1>2. QED
  BY <1>1 DEF ContentAt, TextAt, Text, Between

LEMMA RebasedIs ==
  ASSUME NEW r
  PROVE  Rebased(r) = normalizeOp(OverAt(log, r.ops[1], r.baseRev, Rev))
BY DEF Rebased, OverAt, Over, Between, Rev

LEMMA HeldIs ==
  ASSUME NEW h \in Held
  PROVE  h = None \/ \E op \in Operation(Char) : h = <<op>> /\ h # None /\ h[1] = op /\ Len(h) = 1
BY DEF Held, None

LEMMA OneHeld ==
  ASSUME NEW op \in Operation(Char)
  PROVE  <<op>> \in Held /\ <<op>> # None /\ <<op>>[1] = op
BY DEF Held, None

LEMMA NoneHeld == None \in Held /\ NoRequest \in Request
BY DEF Held, None, Request, NoRequest

----------------------------------------------------------------------------
\* One client steps: what it is to show for the invariant to stay.

\* Two states of a client that differ only in how they send.
SameEdits(s, t) == /\ t.text = s.text /\ t.rev = s.rev /\ t.outstanding = s.outstanding
                   /\ t.buffer = s.buffer /\ t.clientSeq = s.clientSeq /\ t.seq = s.seq

LEMMA SameEditsOK ==
  ASSUME NEW s, NEW t, SameEdits(s, t), NEW L, NEW n, NEW c, EditsOK(L, n, c, s)
  PROVE  EditsOK(L, n, c, t)
BY DEF SameEdits, EditsOK, Numbered, View, Flight, Dirty

LEMMA SamePostOK ==
  ASSUME NEW s, NEW t, SameEdits(s, t), NEW L, NEW c, NEW r, PostOK(L, c, s, r)
  PROVE  PostOK(L, c, t, r)
BY DEF SameEdits, PostOK, Dirty

LEMMA NumberedGrows ==
  ASSUME NEW L, NEW n \in Nat, NEW m \in Nat, n <= m, NEW c, NEW s \in Sync, EditsOK(L, n, c, s)
  PROVE  EditsOK(L, m, c, s)
<1>1. PICK k \in Nat : k = s.clientSeq + (IF Dirty(s) /\ s.seq = 0 THEN 1 ELSE 0)
                                       + (IF s.buffer # None THEN 1 ELSE 0)
  BY DEF Sync
<1>2. Numbered(m, s)
  <2>1. k <= n
    BY <1>1 DEF EditsOK, Numbered
  <2>2. k <= m
    BY <2>1
  <2>3. QED
    BY <1>1, <2>2 DEF Numbered
<1>3. QED
  BY <1>2 DEF EditsOK

LEMMA ClientStep ==
  ASSUME DocInv, NEW c \in Client, NEW t \in Sync, UNCHANGED <<content, log>>,
         edits' \in edits .. MaxEdits, client' = [client EXCEPT ![c] = t],
         EditsOK(log, edits', c, t), SendOK(t), net' \subseteq Client \X Request,
         \A r \in Request : <<c, r>> \in net' => PostOK(log, c, t, r),
         \A d \in Client, r \in Request : d # c /\ <<d, r>> \in net' => <<d, r>> \in net
  PROVE  DocInv'
<1>1. LogOK(log, content)'
  BY DEF DocInv
<1>2. edits' \in 0 .. MaxEdits /\ edits \in Nat /\ edits' \in Nat /\ edits <= edits'
  BY DocAssumption DEF DocInv
<1>3. client' \in [Client -> Sync]
  BY DEF DocInv
<1>4. ASSUME NEW d \in Client
      PROVE  EditsOK(log, edits', d, client'[d]) /\ SendOK(client'[d])
  <2>1. CASE d = c
    <3>1. client'[d] = t
      BY <2>1 DEF DocInv
    <3>2. QED
      BY <2>1, <3>1
  <2>2. CASE d # c
    <3>1. client'[d] = client[d] /\ client[d] \in Sync
      BY <2>2 DEF DocInv
    <3>2. EditsOK(log, edits, d, client[d]) /\ SendOK(client[d])
      BY DEF DocInv
    <3>3. EditsOK(log, edits', d, client[d])
      BY <1>2, <3>1, <3>2, NumberedGrows
    <3>4. QED
      BY <3>1, <3>2, <3>3
  <2>3. QED
    BY <2>1, <2>2
<1>5. ASSUME NEW d \in Client, NEW r \in Request, <<d, r>> \in net'
      PROVE  PostOK(log, d, client'[d], r)
  <2>1. CASE d = c
    <3>1. client'[d] = t
      BY <2>1 DEF DocInv
    <3>2. QED
      BY <1>5, <2>1, <3>1
  <2>2. CASE d # c
    <3>1. client'[d] = client[d]
      BY <2>2 DEF DocInv
    <3>2. PostOK(log, d, client[d], r)
      BY <1>5, <2>2 DEF DocInv
    <3>3. QED
      BY <3>1, <3>2
  <2>3. QED
    BY <2>1, <2>2
<1>6. QED
  BY <1>1, <1>2, <1>3, <1>4, <1>5 DEF DocInv

\* How sending changes a client.
LEMMA ScheduleSendIs ==
  ASSUME NEW s \in Sync
  PROVE  /\ ScheduleSend(s) \in Sync /\ SameEdits(s, ScheduleSend(s))
         /\ SendOK(s) => SendOK(ScheduleSend(s))
<1>1. PICK t : t = [s EXCEPT !.timer = TRUE]
  OBVIOUS
<1>2. t \in Sync /\ SameEdits(s, t)
  BY <1>1 DEF Sync, SameEdits
<1>3. SendOK(s) => SendOK(t)
  BY <1>1 DEF Sync, SendOK
<1>4. SameEdits(s, s)
  BY DEF SameEdits
<1>5. ScheduleSend(s) = s \/ ScheduleSend(s) = t
  BY <1>1 DEF ScheduleSend
<1>6. QED
  BY <1>2, <1>3, <1>4, <1>5

LEMMA FinallyIs ==
  ASSUME NEW s \in Sync
  PROVE  Finally(s) \in Sync /\ SameEdits(s, Finally(s)) /\ SendOK(Finally(s))
<1>1. PICK t : t = [s EXCEPT !.sending = FALSE, !.tries = 0, !.request = NoRequest,
                             !.handled = FALSE]
  OBVIOUS
<1>2. t \in Sync /\ SameEdits(s, t)
  BY <1>1, NoneHeld DEF Sync, SameEdits
<1>3. SendOK(t)
  BY <1>1, DocAssumption DEF Sync, SendOK
<1>4. ScheduleSend(t) \in Sync /\ SameEdits(t, ScheduleSend(t)) /\ SendOK(ScheduleSend(t))
  BY <1>2, <1>3, ScheduleSendIs
<1>5. SameEdits(s, ScheduleSend(t))
  BY <1>2, <1>4 DEF SameEdits
<1>6. Finally(s) = t \/ Finally(s) = ScheduleSend(t)
  BY <1>1 DEF Finally
<1>7. QED
  BY <1>2, <1>3, <1>4, <1>5, <1>6

LEMMA PostingIs ==
  ASSUME NEW s \in Sync
  PROVE  /\ Posting(s) \in Sync /\ SameEdits(s, Posting(s))
         /\ Posting(s).request = [seq |-> s.seq, baseRev |-> s.rev, ops |-> s.outstanding]
         /\ Posting(s).request \in Request
         /\ s.sending /\ s.tries \in 1 .. MaxAttempts /\ s.seq # 0 => SendOK(Posting(s))
<1>1. PICK r : r = [seq |-> s.seq, baseRev |-> s.rev, ops |-> s.outstanding]
  OBVIOUS
<1>2. r \in Request /\ r.seq = s.seq /\ (s.seq # 0 => r # NoRequest)
  BY <1>1 DEF Request, Sync, NoRequest
<1>3. PICK t : t = [s EXCEPT !.request = r, !.handled = FALSE]
  OBVIOUS
<1>4. t = Posting(s)
  BY <1>1, <1>3 DEF Posting
<1>5. t \in Sync /\ SameEdits(s, t) /\ t.request = r
  BY <1>2, <1>3 DEF Sync, SameEdits
<1>6. s.sending /\ s.tries \in 1 .. MaxAttempts /\ s.seq # 0 => SendOK(t)
  BY <1>2, <1>3 DEF Sync, SendOK
<1>7. QED
  BY <1>1, <1>2, <1>4, <1>5, <1>6

\* What is posted is what is in flight, at the revision the client has.
LEMMA PostedOK ==
  ASSUME DocInv, NEW n, NEW c, NEW s \in Sync, EditsOK(log, n, c, s), Dirty(s), s.seq # 0,
         NEW r, r = [seq |-> s.seq, baseRev |-> s.rev, ops |-> s.outstanding]
  PROVE  PostOK(log, c, s, r)
<1>1. s.rev \in Nat /\ s.rev <= Len(log) /\ s.seq = s.clientSeq /\ s.seq \in Nat
  BY DEF EditsOK, Sync
<1>2. PICK op \in Operation(Char) : s.outstanding = <<op>>
  BY HeldIs DEF Dirty, Sync
<1>3. PICK m : Holds(Char, s.outstanding, TextAt(log, s.rev), m)
  BY DEF EditsOK, View
<1>4. Acts(Char, op, TextAt(log, s.rev), m)
  BY <1>2, <1>3, HeldOne
<1>5. OverAt(log, op, s.rev, s.rev) = op
  <2>1. log \in Seq(Entry) /\ s.rev \in 0 .. Len(log)
    BY <1>1, LenProperties DEF DocInv, LogOK
  <2>2. QED
    BY <2>1, OverStart
<1>6. r.seq \in 1 .. s.clientSeq /\ r.seq = s.seq /\ r.baseRev = s.rev /\ r.ops = <<op>>
      /\ r.ops # None /\ r.ops[1] = op /\ s.outstanding[1] = op
  BY <1>1, <1>2 DEF None
<1>7. QED
  BY <1>1, <1>4, <1>5, <1>6 DEF PostOK

----------------------------------------------------------------------------
\* The actions of a client that send: sendInFlight and its end.

LEMMA InitialChars == InitialText \in Seq(Char) /\ Len(InitialText) <= MaxDocChars
<1>1. InitialText \in Seq(Nat \ 1 .. MaxEdits)
  BY DocAssumption
<1>2. PICK n \in Nat : n = Len(InitialText)
  BY <1>1, LenProperties
<1>3. InitialText = [i \in 1 .. n |-> InitialText[i]]
  BY <1>1, <1>2
<1>4. \A i \in 1 .. n : InitialText[i] \in Char
  BY <1>3 DEF Char, Range
<1>5. InitialText \in Seq(Char)
  BY <1>3, <1>4
<1>6. QED
  BY <1>5, DocAssumption

LEMMA LogEntry ==
  ASSUME DocInv, NEW k \in 1 .. Len(log)
  PROVE  /\ log[k].client \in Client /\ log[k].seq \in Nat \ {0} /\ log[k].seq \in 1 .. MaxEdits
         /\ Acts(Char, log[k].ops, TextAt(log, k - 1), TextAt(log, k))
<1>1. log \in Seq(Entry) /\ LogActs(Char, log)
  BY DEF DocInv, LogOK
<1>2. log[k] \in Entry
  BY <1>1, ElementOfSeq
<1>3. MaxEdits \in Nat
  BY DocAssumption
<1>4. QED
  BY <1>1, <1>2, <1>3 DEF Entry, LogActs

\* The document was always a text.
LEMMA TextType ==
  ASSUME DocInv, NEW k \in 0 .. Len(log)
  PROVE  TextAt(log, k) \in Seq(Char)
<1>1. CASE k = 0
  <2>1. TextAt(log, 0) = InitialText
    BY TextStart DEF DocInv, LogOK
  <2>2. InitialText \in Seq(Char)
    BY InitialChars
  <2>3. QED
    BY <1>1, <2>1, <2>2
<1>2. CASE k # 0
  <2>1. k \in 1 .. Len(log)
    BY <1>2
  <2>2. Acts(Char, log[k].ops, TextAt(log, k - 1), TextAt(log, k))
    BY <2>1, LogEntry
  <2>3. QED
    BY <2>2, ActsApply
<1>3. QED
  BY <1>1, <1>2

LEMMA SendKeeps ==
  ASSUME DocInv, NEW c \in Client, SendInFlight(c)
  PROVE  DocInv'
<1>1. PICK o : o = client[c] /\ o \in Sync /\ EditsOK(log, edits, c, o) /\ SendOK(o)
  BY DEF DocInv
<1>2. PICK s : s = [o EXCEPT !.timer = FALSE]
  OBVIOUS
<1>3. s \in Sync /\ SameEdits(o, s)
  BY <1>1, <1>2 DEF Sync, SameEdits
<1>4. SendOK(s) /\ EditsOK(log, edits, c, s)
  <2>1. SendOK(s)
    BY <1>1, <1>2 DEF Sync, SendOK
  <2>2. QED
    BY <1>1, <1>3, <2>1, SameEditsOK
<1>5. /\ UNCHANGED <<content, log>> /\ edits' = edits /\ edits \in 0 .. MaxEdits
      /\ edits' \in edits .. MaxEdits /\ net \subseteq Client \X Request
      /\ \A r \in Request : <<c, r>> \in net => PostOK(log, c, o, r)
  BY <1>1, DocAssumption DEF SendInFlight, DocInv
<1>6. CASE ~(Dirty(s) /\ ~s.sending)
  <2>1. client' = [client EXCEPT ![c] = s] /\ net' = net
    BY <1>1, <1>2, <1>6 DEF SendInFlight
  <2>2. \A r \in Request : <<c, r>> \in net' => PostOK(log, c, s, r)
    BY <1>3, <1>5, <2>1, SamePostOK
  <2>3. QED
    BY <1>3, <1>4, <1>5, <2>1, <2>2, ClientStep
<1>7. CASE Dirty(s) /\ ~s.sending
  <2>1. PICK q : q = IF s.seq = 0 THEN s.clientSeq + 1 ELSE s.seq
    OBVIOUS
  <2>2. /\ s.clientSeq \in Nat /\ s.seq \in Nat /\ q \in Nat /\ q # 0
        /\ s.seq # 0 => q = s.seq /\ q = s.clientSeq
        /\ s.seq = 0 => q = s.clientSeq + 1
    BY <1>3, <1>4, <2>1 DEF Sync, EditsOK
  <2>3. PICK u : u = [s EXCEPT !.sending = TRUE, !.tries = 1, !.seq = q,
                               !.clientSeq = IF s.seq = 0 THEN q ELSE @]
    OBVIOUS
  <2>4. /\ u \in Sync /\ u.sending /\ u.tries = 1 /\ u.seq = q /\ u.clientSeq = q
        /\ u.text = s.text /\ u.rev = s.rev /\ u.outstanding = s.outstanding
        /\ u.buffer = s.buffer
    BY <1>3, <2>2, <2>3 DEF Sync
  <2>5. Dirty(u)
    BY <1>7, <2>4 DEF Dirty
  <2>6. EditsOK(log, edits, c, u)
    <3>1. Numbered(edits, u)
      <4>1. CASE s.seq = 0
        <5>1. PICK b \in {0, 1} : b = IF s.buffer # None THEN 1 ELSE 0
          OBVIOUS
        <5>2. s.clientSeq + 1 + b <= edits
          BY <1>4, <1>7, <4>1, <5>1 DEF EditsOK, Numbered
        <5>3. q + 0 + b <= edits
          BY <2>2, <4>1, <5>2
        <5>4. QED
          BY <2>2, <2>4, <5>1, <5>3 DEF Numbered
      <4>2. CASE s.seq # 0
        BY <1>4, <2>2, <2>4, <4>2 DEF EditsOK, Numbered
      <4>3. QED
        BY <4>1, <4>2
    <3>2. View(log, u)
      BY <1>4, <2>4 DEF EditsOK, View
    <3>3. Flight(log, c, u)
      <4>1. SUFFICES ASSUME NEW k \in 1 .. Len(log), log[k].client = c
                     PROVE  /\ log[k].seq <= u.clientSeq
                            /\ k > u.rev /\ Dirty(u) /\ log[k].seq = u.seq =>
                                 log[k].ops =
                                   normalizeOp(OverAt(log, u.outstanding[1], u.rev, k - 1))
        BY DEF Flight
      <4>2. /\ log[k].seq <= s.clientSeq
            /\ k > s.rev /\ log[k].seq = s.seq =>
                 log[k].ops = normalizeOp(OverAt(log, s.outstanding[1], s.rev, k - 1))
        BY <1>4, <1>7, <4>1 DEF EditsOK, Flight
      <4>3. log[k].seq \in Nat
        BY LogEntry
      <4>4. CASE s.seq = 0
        <5>1. log[k].seq <= q /\ log[k].seq # q
          BY <2>2, <4>2, <4>3, <4>4
        <5>2. QED
          BY <2>4, <5>1
      <4>5. CASE s.seq # 0
        BY <2>2, <2>4, <4>2, <4>5
      <4>6. QED
        BY <4>4, <4>5
    <3>4. QED
      BY <1>4, <2>4, <2>5, <3>1, <3>2, <3>3 DEF EditsOK
  <2>7. PICK t : t = Posting(u)
    OBVIOUS
  <2>8. /\ t \in Sync /\ SameEdits(u, t) /\ SendOK(t) /\ t.request \in Request
        /\ t.request = [seq |-> u.seq, baseRev |-> u.rev, ops |-> u.outstanding]
    BY <2>2, <2>4, <2>7, PostingIs, DocAssumption
  <2>9. client' = [client EXCEPT ![c] = t] /\ net' = net \cup {<<c, t.request>>}
    BY <1>1, <1>2, <1>7, <2>1, <2>3, <2>7 DEF SendInFlight
  <2>10. ASSUME NEW r \in Request, <<c, r>> \in net
         PROVE  PostOK(log, c, u, r)
    <3>1. PostOK(log, c, s, r)
      BY <1>3, <1>5, <2>10, SamePostOK
    <3>2. CASE s.seq = 0
      <4>1. r.seq \in 1 .. s.clientSeq
        BY <3>1 DEF PostOK
      <4>2. r.seq \in 1 .. u.clientSeq /\ r.seq # u.seq
        BY <2>2, <2>4, <3>2, <4>1
      <4>3. QED
        BY <3>1, <4>2 DEF PostOK
    <3>3. CASE s.seq # 0
      <4>1. SameEdits(s, u)
        BY <2>2, <2>4, <3>3 DEF SameEdits
      <4>2. QED
        BY <3>1, <4>1, SamePostOK
    <3>4. QED
      BY <3>2, <3>3
  <2>11. PostOK(log, c, u, t.request)
    BY <2>2, <2>4, <2>5, <2>6, <2>8, PostedOK
  <2>12. /\ \A r \in Request : <<c, r>> \in net' => PostOK(log, c, t, r)
         /\ net' \subseteq Client \X Request
         /\ \A d \in Client, r \in Request : d # c /\ <<d, r>> \in net' => <<d, r>> \in net
    <3>1. ASSUME NEW r \in Request, <<c, r>> \in net'
          PROVE  PostOK(log, c, t, r)
      <4>1. <<c, r>> \in net \/ r = t.request
        BY <2>9, <3>1
      <4>2. PostOK(log, c, u, r)
        BY <2>10, <2>11, <4>1
      <4>3. QED
        BY <2>8, <4>2, SamePostOK
    <3>2. QED
      BY <1>5, <2>8, <2>9, <3>1
  <2>13. EditsOK(log, edits, c, t)
    BY <2>6, <2>8, SameEditsOK
  <2>14. QED
    BY <1>5, <2>8, <2>9, <2>12, <2>13, ClientStep
<1>8. QED
  BY <1>6, <1>7

LEMMA AnsweredKeeps ==
  ASSUME DocInv, NEW c \in Client, PostAnswered(c)
  PROVE  DocInv'
<1>1. PICK s : s = client[c] /\ s \in Sync /\ EditsOK(log, edits, c, s)
  BY DEF DocInv
<1>2. PICK t : t = Finally(s) /\ t \in Sync /\ SameEdits(s, t) /\ SendOK(t)
  BY <1>1, FinallyIs
<1>3. /\ UNCHANGED <<content, log, net>> /\ edits' = edits /\ edits' \in edits .. MaxEdits
      /\ net' \subseteq Client \X Request
      /\ client' = [client EXCEPT ![c] = t]
      /\ \A r \in Request : <<c, r>> \in net' => PostOK(log, c, s, r)
  BY <1>1, <1>2, DocAssumption DEF PostAnswered, DocInv
<1>4. EditsOK(log, edits', c, t)
  BY <1>1, <1>2, <1>3, SameEditsOK
<1>5. \A r \in Request : <<c, r>> \in net' => PostOK(log, c, t, r)
  BY <1>2, <1>3, SamePostOK
<1>6. QED
  BY <1>2, <1>3, <1>4, <1>5, ClientStep

LEMMA FailedKeeps ==
  ASSUME DocInv, NEW c \in Client, NEW lost \in BOOLEAN, PostFailed(c, lost)
  PROVE  DocInv'
<1>1. PICK s : s = client[c] /\ s \in Sync /\ EditsOK(log, edits, c, s) /\ SendOK(s)
  BY DEF DocInv
<1>2. PICK left : left = (IF lost THEN net \ {<<c, s.request>>} ELSE net) /\ left \subseteq net
  OBVIOUS
<1>3. /\ UNCHANGED <<content, log>> /\ edits' = edits /\ edits' \in edits .. MaxEdits
      /\ net \subseteq Client \X Request
      /\ \A r \in Request : <<c, r>> \in net => PostOK(log, c, s, r)
  BY <1>1, DocAssumption DEF PostFailed, DocInv
<1>4. CASE ~(s.tries < MaxAttempts /\ Dirty(s) /\ s.seq = s.request.seq)
  <2>1. PICK t : t = Finally(s) /\ t \in Sync /\ SameEdits(s, t) /\ SendOK(t)
    BY <1>1, FinallyIs
  <2>2. client' = [client EXCEPT ![c] = t] /\ net' = left
    BY <1>1, <1>2, <1>4, <2>1 DEF PostFailed
  <2>3. EditsOK(log, edits', c, t)
    BY <1>1, <1>3, <2>1, SameEditsOK
  <2>4. \A r \in Request : <<c, r>> \in net' => PostOK(log, c, t, r)
    <3>1. \A r \in Request : <<c, r>> \in net' => PostOK(log, c, s, r)
      BY <1>2, <1>3, <2>2
    <3>2. QED
      BY <2>1, <3>1, SamePostOK
  <2>5. /\ net' \subseteq Client \X Request
        /\ \A d \in Client, r \in Request : d # c /\ <<d, r>> \in net' => <<d, r>> \in net
    BY <1>2, <1>3, <2>2
  <2>6. QED
    BY <1>3, <2>1, <2>2, <2>3, <2>4, <2>5, ClientStep
<1>5. CASE s.tries < MaxAttempts /\ Dirty(s) /\ s.seq = s.request.seq
  <2>1. s.sending /\ s.seq # 0 /\ s.tries \in 1 .. MaxAttempts
    BY <1>1, <1>5 DEF PostFailed, SendOK
  <2>2. PICK u : u = [s EXCEPT !.tries = @ + 1]
    OBVIOUS
  <2>3. u \in Sync /\ SameEdits(s, u) /\ u.sending /\ u.seq # 0 /\ u.tries \in 1 .. MaxAttempts
    <3>1. s.tries \in Nat /\ s.tries + 1 \in Nat /\ s.tries + 1 \in 1 .. MaxAttempts
      BY <1>5, <2>1, DocAssumption
    <3>2. u \in Sync /\ u.tries = s.tries + 1 /\ u.sending = s.sending /\ SameEdits(s, u)
      BY <1>1, <2>2, <3>1 DEF Sync, SameEdits
    <3>3. QED
      BY <2>1, <3>1, <3>2 DEF SameEdits
  <2>4. EditsOK(log, edits, c, u) /\ Dirty(u)
    BY <1>1, <1>5, <2>3, SameEditsOK DEF SameEdits, Dirty
  <2>5. PICK t : t = Posting(u)
    OBVIOUS
  <2>6. /\ t \in Sync /\ SameEdits(u, t) /\ SendOK(t) /\ t.request \in Request
        /\ t.request = [seq |-> u.seq, baseRev |-> u.rev, ops |-> u.outstanding]
    BY <2>3, <2>5, PostingIs
  <2>7. client' = [client EXCEPT ![c] = t] /\ net' = left \cup {<<c, t.request>>}
    BY <1>1, <1>2, <1>5, <2>2, <2>5 DEF PostFailed
  <2>8. PostOK(log, c, u, t.request)
    BY <2>3, <2>4, <2>6, PostedOK
  <2>9. ASSUME NEW r \in Request, <<c, r>> \in net'
        PROVE  PostOK(log, c, t, r)
    <3>1. CASE r = t.request
      BY <2>6, <2>8, <3>1, SamePostOK
    <3>2. CASE r # t.request
      <4>1. PostOK(log, c, s, r)
        BY <1>2, <1>3, <2>7, <2>9, <3>2
      <4>2. PostOK(log, c, u, r)
        BY <2>3, <4>1, SamePostOK
      <4>3. QED
        BY <2>6, <4>2, SamePostOK
    <3>3. QED
      BY <3>1, <3>2
  <2>10. /\ net' \subseteq Client \X Request
         /\ \A d \in Client, r \in Request : d # c /\ <<d, r>> \in net' => <<d, r>> \in net
    BY <1>2, <1>3, <2>6, <2>7
  <2>11. EditsOK(log, edits', c, t)
    BY <1>3, <2>4, <2>6, SameEditsOK
  <2>12. QED
    BY <1>3, <2>6, <2>7, <2>9, <2>10, <2>11, ClientStep
<1>6. QED
  BY <1>4, <1>5

----------------------------------------------------------------------------
\* The actions of a client that change what it holds: an edit, an event, a snapshot.

\* The n-th character may be anywhere in a text.
LEMMA NewChar ==
  ASSUME DocInv, edits < MaxEdits
  PROVE  /\ edits + 1 \in Char /\ edits + 1 \in edits .. MaxEdits
         /\ edits \in Nat /\ edits + 1 \in Nat
BY DocAssumption DEF DocInv, Char

EditedAs(s, op, t, out) == Acts(Char, op, s.text, out) /\ t = [s EXCEPT !.text = out]

LEMMA LocalIs ==
  ASSUME DocInv, NEW c \in Client, NEW s, s = client[c], NEW op, NEW t, NEW out,
         EditedAs(s, op, t, out)
  PROVE  /\ WithLocal(t, op) \in Sync /\ SendOK(WithLocal(t, op))
         /\ EditsOK(log, edits + 1, c, WithLocal(t, op))
         /\ \A r \in Request : <<c, r>> \in net => PostOK(log, c, WithLocal(t, op), r)
<1>1. /\ s \in Sync /\ EditsOK(log, edits, c, s) /\ SendOK(s)
      /\ \A r \in Request : <<c, r>> \in net => PostOK(log, c, s, r)
  BY DEF DocInv
<1>2. Acts(Char, op, s.text, out) /\ t = [s EXCEPT !.text = out]
  BY DEF EditedAs
<1>3. op \in Operation(Char) /\ out \in Seq(Char)
  BY <1>2, ActsApply DEF Operation
<1>4. t \in Sync /\ t.outstanding = s.outstanding /\ t.buffer = s.buffer /\ t.text = out
  BY <1>1, <1>2, <1>3 DEF Sync
<1>5. s.clientSeq \in Nat /\ edits \in Nat /\ s.seq \in Nat
  BY <1>1, DocAssumption DEF Sync, DocInv
<1>6. PICK m : Holds(Char, s.outstanding, TextAt(log, s.rev), m) /\ Holds(Char, s.buffer, m, s.text)
  BY <1>1 DEF EditsOK, View
<1>7. CASE ~Dirty(s)
  <2>1. s.outstanding = None /\ s.buffer = None /\ s.seq = 0
    BY <1>1, <1>7 DEF Dirty, EditsOK
  <2>2. PICK u : u = WithLocal(t, op) /\ u = [t EXCEPT !.outstanding = <<op>>]
    BY <1>4, <2>1 DEF WithLocal, Dirty
  <2>3. /\ u \in Sync /\ u.outstanding = <<op>> /\ u.buffer = None /\ u.text = out /\ u.seq = 0
        /\ u.rev = s.rev /\ u.clientSeq = s.clientSeq
    <3>1. <<op>> \in Held
      BY <1>3, OneHeld
    <3>2. QED
      BY <1>2, <1>1, <1>4, <2>1, <2>2, <3>1 DEF Sync
  <2>4. SendOK(u)
    BY <1>1, <1>2, <1>4, <2>2 DEF Sync, SendOK
  <2>5. Dirty(u)
    BY <1>3, <2>3, OneHeld DEF Dirty
  <2>6. View(log, u)
    <3>1. m = TextAt(log, s.rev) /\ s.text = m
      BY <1>6, <2>1, HeldNone
    <3>2. Holds(Char, <<op>>, TextAt(log, s.rev), out)
      BY <1>2, <3>1 DEF Holds
    <3>3. Holds(Char, None, out, out)
      BY <1>3 DEF Holds
    <3>4. QED
      BY <2>3, <3>2, <3>3 DEF View
  <2>7. Numbered(edits + 1, u)
    <3>1. s.clientSeq + 0 + 0 <= edits
      BY <1>1, <1>7, <2>1 DEF EditsOK, Numbered
    <3>2. s.clientSeq + 1 + 0 <= edits + 1
      BY <1>5, <3>1
    <3>3. QED
      BY <2>3, <2>5, <3>2 DEF Numbered
  <2>8. Flight(log, c, u)
    <3>1. ASSUME NEW k \in 1 .. Len(log), log[k].client = c
          PROVE  log[k].seq <= u.clientSeq /\ log[k].seq # u.seq
      <4>1. log[k].seq <= s.clientSeq
        BY <1>1, <3>1 DEF EditsOK, Flight
      <4>2. QED
        BY <2>3, <4>1, LogEntry
    <3>2. QED
      BY <3>1 DEF Flight
  <2>9. EditsOK(log, edits + 1, c, u)
    BY <1>1, <2>3, <2>5, <2>6, <2>7, <2>8 DEF EditsOK
  <2>10. ASSUME NEW r \in Request, <<c, r>> \in net
         PROVE  PostOK(log, c, u, r)
    <3>1. PostOK(log, c, s, r)
      BY <1>1, <2>10
    <3>2. r.seq # 0
      BY <1>5, <3>1 DEF PostOK
    <3>3. QED
      BY <2>3, <3>1, <3>2 DEF PostOK
  <2>11. QED
    BY <2>2, <2>3, <2>4, <2>9, <2>10
<1>8. CASE Dirty(s)
  <2>1. PICK b : b = IF s.buffer = None THEN <<op>> ELSE <<composeOps(s.buffer[1], op)>>
    OBVIOUS
  <2>2. PICK u : u = WithLocal(t, op) /\ u = [t EXCEPT !.buffer = b]
    BY <1>4, <1>8, <2>1 DEF WithLocal, Dirty
  <2>3. Holds(Char, b, m, out)
    <3>1. CASE s.buffer = None
      <4>1. m = s.text
        BY <1>6, <3>1, HeldNone
      <4>2. QED
        BY <1>2, <2>1, <3>1, <4>1 DEF Holds
    <3>2. CASE s.buffer # None
      <4>1. PICK a : s.buffer = <<a>> /\ Acts(Char, a, m, s.text)
        BY <1>6, <3>2 DEF Holds
      <4>2. a \in Seq(Component(Char)) /\ op \in Seq(Component(Char))
        BY <1>2, <4>1, ActsApply
      <4>3. Acts(Char, composeOps(a, op), m, out)
        BY <1>2, <4>1, <4>2, ComposeActs
      <4>4. b = <<composeOps(a, op)>>
        BY <2>1, <3>2, <4>1
      <4>5. QED
        BY <4>3, <4>4 DEF Holds
    <3>3. QED
      BY <3>1, <3>2
  <2>4. b \in Held /\ b # None
    <3>1. b # None
      <4>1. \A x : <<x>> # None
        BY DEF None
      <4>2. QED
        BY <2>1, <4>1
    <3>2. PICK x \in Operation(Char) : b = <<x>>
      BY <2>3, <3>1, HeldTypes
    <3>3. QED
      BY <3>1, <3>2, OneHeld
  <2>5. /\ u \in Sync /\ u.outstanding = s.outstanding /\ u.buffer = b /\ u.text = out
        /\ u.seq = s.seq /\ u.rev = s.rev /\ u.clientSeq = s.clientSeq
    BY <1>2, <1>1, <1>4, <2>2, <2>4 DEF Sync
  <2>6. SendOK(u)
    BY <1>1, <1>2, <1>4, <2>2 DEF Sync, SendOK
  <2>7. Dirty(u)
    BY <1>8, <2>5 DEF Dirty
  <2>8. View(log, u)
    BY <1>6, <2>3, <2>5 DEF View
  <2>9. Numbered(edits + 1, u)
    <3>1. PICK x \in {0, 1} : x = IF Dirty(s) /\ s.seq = 0 THEN 1 ELSE 0
      OBVIOUS
    <3>2. PICK y \in {0, 1} : y = IF s.buffer # None THEN 1 ELSE 0
      OBVIOUS
    <3>3. s.clientSeq + x + y <= edits
      BY <1>1, <3>1, <3>2 DEF EditsOK, Numbered
    <3>4. s.clientSeq + x + 1 <= edits + 1
      BY <1>5, <3>3
    <3>5. x = IF Dirty(u) /\ u.seq = 0 THEN 1 ELSE 0
      BY <1>8, <2>5, <2>7, <3>1
    <3>6. QED
      BY <2>4, <2>5, <3>4, <3>5 DEF Numbered
  <2>10. Flight(log, c, u)
    BY <1>1, <1>8, <2>5 DEF EditsOK, Flight
  <2>11. EditsOK(log, edits + 1, c, u)
    BY <1>1, <2>5, <2>7, <2>8, <2>9, <2>10 DEF EditsOK
  <2>12. ASSUME NEW r \in Request, <<c, r>> \in net
         PROVE  PostOK(log, c, u, r)
    BY <1>1, <1>8, <2>5, <2>12 DEF PostOK
  <2>13. QED
    BY <2>2, <2>5, <2>6, <2>11, <2>12
<1>9. QED
  BY <1>7, <1>8

LEMMA LocalKeeps ==
  ASSUME DocInv, NEW c \in Client, NEW p \in 0 .. Len(client[c].text), NEW kind \in EditKind,
         ApplyLocal(c, p, kind)
  PROVE  DocInv'
<1>1. PICK s : s = client[c] /\ s \in Sync /\ SendOK(s)
  BY DEF DocInv
<1>2. PICK m \in {0, 1} : m = IF kind # "type" THEN 1 ELSE 0
  OBVIOUS
<1>3. PICK x : x = IF kind # "erase" THEN <<edits + 1>> ELSE <<>>
  OBVIOUS
<1>4. PICK op : op = EditOp(p, m, x)
  OBVIOUS
<1>5. PICK out : Acts(Char, op, s.text, out)
  <2>1. x \in Seq(Char)
    <3>1. edits + 1 \in Char
      BY NewChar DEF ApplyLocal
    <3>2. QED
      BY <1>3, <3>1
  <2>2. p + m <= Len(s.text) /\ p \in Nat /\ m \in Nat /\ s.text \in Seq(Char)
    <3>1. p + m <= Len(s.text)
      BY <1>1, <1>2 DEF ApplyLocal
    <3>2. p \in Nat /\ m \in Nat
      BY <1>2
    <3>3. QED
      BY <1>1, <3>1, <3>2 DEF Sync
  <2>3. QED
    BY <1>4, <2>1, <2>2, EditActs DEF EditAs
<1>6. PICK t : t = [s EXCEPT !.text = out]
  OBVIOUS
<1>7. EditedAs(s, op, t, out) /\ out = applyOp(s.text, op)
  BY <1>5, <1>6, ActsApply DEF EditedAs
<1>8. PICK u : u = WithLocal(t, op)
  OBVIOUS
<1>9. /\ u \in Sync /\ SendOK(u) /\ EditsOK(log, edits + 1, c, u)
      /\ \A r \in Request : <<c, r>> \in net => PostOK(log, c, u, r)
  BY <1>1, <1>7, <1>8, LocalIs
<1>10. PICK v : v = IF Dirty(s) THEN u ELSE ScheduleSend(u)
  OBVIOUS
<1>11. v \in Sync /\ SendOK(v) /\ SameEdits(u, v)
  <2>1. ScheduleSend(u) \in Sync /\ SendOK(ScheduleSend(u)) /\ SameEdits(u, ScheduleSend(u))
    BY <1>9, ScheduleSendIs
  <2>2. SameEdits(u, u)
    BY DEF SameEdits
  <2>3. QED
    BY <1>9, <1>10, <2>1, <2>2
<1>12. client' = [client EXCEPT ![c] = v]
  BY <1>1, <1>2, <1>3, <1>4, <1>6, <1>7, <1>8, <1>10 DEF ApplyLocal, EditOp
<1>13. /\ UNCHANGED <<content, log, net>> /\ edits' = edits + 1 /\ edits' \in edits .. MaxEdits
       /\ net' \subseteq Client \X Request
  BY NewChar DEF ApplyLocal, DocInv
<1>14. EditsOK(log, edits', c, v)
  BY <1>9, <1>11, <1>13, SameEditsOK
<1>15. \A r \in Request : <<c, r>> \in net' => PostOK(log, c, v, r)
  BY <1>9, <1>11, <1>13, SamePostOK
<1>16. QED
  BY <1>11, <1>12, <1>13, <1>14, <1>15, ClientStep

LEMMA ResetKeeps ==
  ASSUME DocInv, NEW c \in Client, NEW rev \in client[c].rev .. Rev, Reset(c, rev)
  PROVE  DocInv'
<1>1. PICK s : s = client[c] /\ s \in Sync /\ EditsOK(log, edits, c, s) /\ SendOK(s)
  BY DEF DocInv
<1>2. rev \in Nat /\ rev <= Len(log) /\ rev \in 0 .. Len(log)
  BY <1>1, LenProperties DEF Rev, Sync
<1>3. TextAt(log, rev) \in Seq(Char)
  BY <1>2, TextType
<1>4. PICK t : t = [s EXCEPT !.text = TextAt(log, rev), !.rev = rev, !.outstanding = None,
                             !.buffer = None, !.seq = 0, !.timer = FALSE]
  OBVIOUS
<1>5. /\ t \in Sync /\ t.text = TextAt(log, rev) /\ t.rev = rev /\ t.outstanding = None
      /\ t.buffer = None /\ t.seq = 0 /\ t.clientSeq = s.clientSeq
  BY <1>1, <1>2, <1>3, <1>4, NoneHeld DEF Sync
<1>6. SendOK(t)
  BY <1>1, <1>4 DEF Sync, SendOK
<1>7. ~Dirty(t)
  BY <1>5 DEF Dirty
<1>8. View(log, t)
  <2>1. Holds(Char, None, TextAt(log, rev), TextAt(log, rev))
    BY <1>3 DEF Holds
  <2>2. QED
    BY <1>5, <2>1 DEF View
<1>9. Numbered(edits, t)
  <2>1. PICK x \in {0, 1} : x = IF Dirty(s) /\ s.seq = 0 THEN 1 ELSE 0
    OBVIOUS
  <2>2. PICK y \in {0, 1} : y = IF s.buffer # None THEN 1 ELSE 0
    OBVIOUS
  <2>3. s.clientSeq + x + y <= edits
    BY <1>1, <2>1, <2>2 DEF EditsOK, Numbered
  <2>4. s.clientSeq + 0 + 0 <= edits
    <3>1. s.clientSeq \in Nat /\ edits \in Nat
      BY <1>1, DocAssumption DEF Sync, DocInv
    <3>2. QED
      BY <2>3, <3>1
  <2>5. QED
    BY <1>5, <1>7, <2>4 DEF Numbered
<1>10. Flight(log, c, t)
  BY <1>1, <1>5, <1>7 DEF EditsOK, Flight
<1>11. EditsOK(log, edits, c, t)
  BY <1>2, <1>5, <1>7, <1>8, <1>9, <1>10 DEF EditsOK
<1>12. client' = [client EXCEPT ![c] = t]
  BY <1>1, <1>4, ContentIs DEF Reset
<1>13. /\ UNCHANGED <<content, log, net>> /\ edits' = edits /\ edits' \in edits .. MaxEdits
       /\ net' \subseteq Client \X Request
       /\ \A r \in Request : <<c, r>> \in net' => PostOK(log, c, s, r)
  BY <1>1, DocAssumption DEF Reset, DocInv
<1>14. \A r \in Request : <<c, r>> \in net' => PostOK(log, c, t, r)
  BY <1>5, <1>7, <1>13 DEF PostOK
<1>15. QED
  BY <1>5, <1>6, <1>11, <1>12, <1>13, <1>14, ClientStep

\* The client's own commit: what is in flight did at this revision what the log's
\* entry does.
LEMMA AckIs ==
  ASSUME DocInv, NEW c \in Client, NEW s, s = client[c], s.rev < Len(log),
         log[s.rev + 1].client = c, log[s.rev + 1].seq = s.seq, Dirty(s)
  PROVE  /\ WithAck(s) \in Sync /\ SendOK(WithAck(s)) /\ EditsOK(log, edits, c, WithAck(s))
         /\ \A r \in Request : <<c, r>> \in net => PostOK(log, c, WithAck(s), r)
<1>1. /\ s \in Sync /\ EditsOK(log, edits, c, s) /\ SendOK(s) /\ log \in Seq(Entry)
      /\ \A r \in Request : <<c, r>> \in net => PostOK(log, c, s, r)
  BY DEF DocInv, LogOK
<1>2. PICK n \in Nat : n = Len(log)
  BY <1>1, LenProperties
<1>3. PICK i \in Nat : i = s.rev
  BY <1>1 DEF Sync
<1>4. PICK k \in 1 .. Len(log) : k = i + 1 /\ k - 1 = i /\ k > s.rev /\ i \in 0 .. Len(log)
  BY <1>2, <1>3
<1>5. PICK u : u = WithAck(s)
  OBVIOUS
<1>6. /\ u \in Sync /\ u.text = s.text /\ u.rev = k /\ u.outstanding = s.buffer
      /\ u.buffer = None /\ u.seq = 0 /\ u.clientSeq = s.clientSeq
  <2>1. k \in Nat /\ s.rev + 1 = k /\ s.buffer \in Held
    BY <1>1, <1>3, <1>4 DEF Sync
  <2>2. u = [s EXCEPT !.rev = k, !.outstanding = s.buffer, !.buffer = None, !.seq = 0]
    BY <1>5, <2>1 DEF WithAck
  <2>3. QED
    BY <1>1, <2>1, <2>2, NoneHeld DEF Sync
<1>7. SendOK(u)
  BY <1>1, <1>5 DEF Sync, SendOK, WithAck
<1>8. PICK m : Holds(Char, s.outstanding, TextAt(log, i), m) /\ Holds(Char, s.buffer, m, s.text)
  BY <1>1, <1>3 DEF EditsOK, View
<1>9. m = TextAt(log, k)
  <2>1. PICK op : s.outstanding = <<op>> /\ Acts(Char, op, TextAt(log, i), m)
    BY <1>8 DEF Holds, Dirty
  <2>2. log[k].ops = normalizeOp(OverAt(log, op, i, i))
    BY <1>1, <1>3, <1>4, <2>1 DEF EditsOK, Flight
  <2>3. OverAt(log, op, i, i) = op
    BY <1>1, <1>4, OverStart
  <2>4. Acts(Char, log[k].ops, TextAt(log, i), m)
    BY <2>1, <2>2, <2>3, NormalizeActs
  <2>5. m = applyOp(TextAt(log, i), log[k].ops)
    BY <2>4, ActsApply
  <2>6. TextAt(log, k) = applyOp(TextAt(log, i), log[k].ops)
    BY <1>4, LogEntry, ActsApply
  <2>7. QED
    BY <2>5, <2>6
<1>10. View(log, u)
  <2>1. Holds(Char, None, s.text, s.text)
    BY <1>1 DEF Holds, Sync
  <2>2. QED
    BY <1>6, <1>8, <1>9, <2>1 DEF View
<1>11. s.seq \in Nat \ {0} /\ s.clientSeq \in Nat /\ edits \in Nat
  <2>1. log[k].seq \in Nat \ {0} /\ log[k].seq = s.seq
    <3>1. log[k].seq \in Nat \ {0}
      BY LogEntry
    <3>2. QED
      BY <1>3, <1>4, <3>1
  <2>2. s.clientSeq \in Nat /\ edits \in Nat
    BY <1>1, DocAssumption DEF Sync, DocInv
  <2>3. QED
    BY <2>1, <2>2
<1>12. Numbered(edits, u)
  <2>1. PICK y \in {0, 1} : y = IF s.buffer # None THEN 1 ELSE 0
    OBVIOUS
  <2>2. s.clientSeq + 0 + y <= edits
    BY <1>1, <1>11, <2>1 DEF EditsOK, Numbered
  <2>3. s.clientSeq + y + 0 <= edits
    BY <1>11, <2>2
  <2>4. y = IF Dirty(u) /\ u.seq = 0 THEN 1 ELSE 0
    BY <1>6, <2>1 DEF Dirty
  <2>5. QED
    BY <1>6, <2>3, <2>4 DEF Numbered
<1>13. Flight(log, c, u)
  <2>1. ASSUME NEW j \in 1 .. Len(log), log[j].client = c
        PROVE  log[j].seq <= u.clientSeq /\ log[j].seq # u.seq
    <3>1. log[j].seq <= s.clientSeq
      BY <1>1, <2>1 DEF EditsOK, Flight
    <3>2. QED
      BY <1>6, <3>1, LogEntry
  <2>2. QED
    BY <2>1 DEF Flight
<1>14. EditsOK(log, edits, c, u)
  BY <1>4, <1>6, <1>10, <1>12, <1>13 DEF EditsOK
<1>15. ASSUME NEW r \in Request, <<c, r>> \in net
       PROVE  PostOK(log, c, u, r)
  <2>1. PostOK(log, c, s, r)
    BY <1>1, <1>15
  <2>2. r.seq # 0
    BY <1>11, <2>1 DEF PostOK
  <2>3. QED
    BY <1>6, <2>1, <2>2 DEF PostOK
<1>16. QED
  BY <1>5, <1>6, <1>7, <1>14, <1>15

\* Another's commit goes under what the client holds.
LEMMA RemoteIs ==
  ASSUME DocInv, NEW c \in Client, NEW s, s = client[c], s.rev < Len(log),
         NEW d, d = log[s.rev + 1], ~(d.client = c /\ d.seq = s.seq /\ Dirty(s))
  PROVE  /\ WithRemote(s, d.ops) \in Sync /\ SendOK(WithRemote(s, d.ops))
         /\ EditsOK(log, edits, c, WithRemote(s, d.ops))
         /\ \A r \in Request : <<c, r>> \in net => PostOK(log, c, WithRemote(s, d.ops), r)
<1>1. /\ s \in Sync /\ EditsOK(log, edits, c, s) /\ SendOK(s) /\ log \in Seq(Entry)
      /\ \A r \in Request : <<c, r>> \in net => PostOK(log, c, s, r)
  BY DEF DocInv, LogOK
<1>2. PICK n \in Nat : n = Len(log)
  BY <1>1, LenProperties
<1>3. PICK i \in Nat : i = s.rev
  BY <1>1 DEF Sync
<1>4. PICK k \in 1 .. Len(log) : k = i + 1 /\ k - 1 = i /\ k \in Nat /\ i + 1 <= Len(log)
                                 /\ i \in 0 .. Len(log) /\ i <= Len(log)
  BY <1>2, <1>3
<1>5. Acts(Char, d.ops, TextAt(log, i), TextAt(log, k))
  BY <1>3, <1>4, LogEntry
<1>6. PICK m : Holds(Char, s.outstanding, TextAt(log, i), m) /\ Holds(Char, s.buffer, m, s.text)
  BY <1>1, <1>3 DEF EditsOK, View
<1>7. PICK p1 : p1 = Past(d.ops, s.outstanding)
  OBVIOUS
<1>8. PICK m1 : PastAs(Char, p1, TextAt(log, k), m, m1)
  BY <1>5, <1>6, <1>7, PastHolds
<1>9. Acts(Char, p1[1], m, m1) /\ Holds(Char, p1[2], TextAt(log, k), m1)
  BY <1>8 DEF PastAs
<1>10. PICK p2 : p2 = Past(p1[1], s.buffer)
  OBVIOUS
<1>11. PICK m2 : PastAs(Char, p2, m1, s.text, m2)
  BY <1>6, <1>9, <1>10, PastHolds
<1>12. Acts(Char, p2[1], s.text, m2) /\ Holds(Char, p2[2], m1, m2)
  BY <1>11 DEF PastAs
<1>13. m2 = applyOp(s.text, p2[1]) /\ m2 \in Seq(Char)
  BY <1>12, ActsApply
<1>14. p1[2] \in Held /\ p2[2] \in Held
  <2>1. \A h : h = None \/ (\E op \in Operation(Char) : h = <<op>>) => h \in Held
    BY DEF Held
  <2>2. p1[2] = None \/ \E op \in Operation(Char) : p1[2] = <<op>>
    BY <1>9, HeldTypes
  <2>3. p2[2] = None \/ \E op \in Operation(Char) : p2[2] = <<op>>
    BY <1>12, HeldTypes
  <2>4. QED
    BY <2>1, <2>2, <2>3
<1>15. PICK u : u = WithRemote(s, d.ops)
  OBVIOUS
<1>16. u = [s EXCEPT !.rev = @ + 1, !.outstanding = p1[2], !.buffer = p2[2],
                     !.text = applyOp(@, p2[1])]
  BY <1>7, <1>10, <1>15 DEF WithRemote
<1>17. /\ u \in Sync /\ u.text = m2 /\ u.rev = k /\ u.outstanding = p1[2] /\ u.buffer = p2[2]
       /\ u.seq = s.seq /\ u.clientSeq = s.clientSeq
  BY <1>1, <1>3, <1>4, <1>13, <1>14, <1>16 DEF Sync
<1>18. SendOK(u)
  BY <1>1, <1>16 DEF Sync, SendOK
<1>19. /\ s.outstanding = None <=> p1[2] = None
       /\ s.buffer = None <=> p2[2] = None
  <2>1. \A x : <<x>> # None
    BY DEF None
  <2>2. QED
    BY <1>7, <1>10, <2>1 DEF Past
<1>20. Dirty(u) <=> Dirty(s)
  BY <1>17, <1>19 DEF Dirty
<1>21. View(log, u)
  BY <1>9, <1>12, <1>17 DEF View
<1>22. Numbered(edits, u)
  BY <1>1, <1>17, <1>19, <1>20 DEF EditsOK, Numbered
<1>23. Dirty(s) => u.outstanding[1] = OverAt(log, s.outstanding[1], i, k)
  <2>1. ASSUME Dirty(s)
        PROVE  u.outstanding[1] = OverAt(log, s.outstanding[1], i, k)
    <3>1. PICK op : op = s.outstanding[1]
      OBVIOUS
    <3>2. p1[2] = <<transformOps(d.ops, op)[2]>>
      BY <1>7, <2>1, <3>1 DEF Past, Dirty
    <3>3. OverAt(log, op, i, i + 1) = transformOps(log[i + 1].ops, OverAt(log, op, i, i))[2]
      BY <1>1, <1>4, OverStep
    <3>4. OverAt(log, op, i, i) = op
      BY <1>1, <1>4, OverStart
    <3>5. QED
      BY <1>3, <1>4, <1>17, <3>1, <3>2, <3>3, <3>4
  <2>2. QED
    BY <2>1
<1>24. Flight(log, c, u)
  <2>1. SUFFICES ASSUME NEW j \in 1 .. Len(log), log[j].client = c
                 PROVE  /\ log[j].seq <= u.clientSeq
                        /\ j > u.rev /\ Dirty(u) /\ log[j].seq = u.seq =>
                             log[j].ops =
                               normalizeOp(OverAt(log, u.outstanding[1], u.rev, j - 1))
    BY DEF Flight
  <2>2. /\ log[j].seq <= s.clientSeq
        /\ j > s.rev /\ Dirty(s) /\ log[j].seq = s.seq =>
             log[j].ops = normalizeOp(OverAt(log, s.outstanding[1], i, j - 1))
    BY <1>1, <1>3, <2>1 DEF EditsOK, Flight
  <2>3. ASSUME j > k, Dirty(s), log[j].seq = s.seq
        PROVE  log[j].ops = normalizeOp(OverAt(log, u.outstanding[1], k, j - 1))
    <3>1. j - 1 \in Nat /\ i <= k /\ k <= j - 1 /\ j - 1 <= Len(log) /\ j > s.rev
      BY <1>2, <1>3, <1>4, <2>3
    <3>2. PICK op : op = s.outstanding[1]
      OBVIOUS
    <3>3. OverAt(log, op, i, j - 1) = OverAt(log, OverAt(log, op, i, k), k, j - 1)
      BY <1>1, <1>4, <3>1, OverJoins
    <3>4. u.outstanding[1] = OverAt(log, op, i, k)
      BY <1>23, <2>3, <3>2
    <3>5. log[j].ops = normalizeOp(OverAt(log, op, i, j - 1))
      BY <2>2, <2>3, <3>1, <3>2
    <3>6. QED
      BY <3>3, <3>4, <3>5
  <2>4. QED
    BY <1>17, <1>20, <2>2, <2>3
<1>25. EditsOK(log, edits, c, u)
  BY <1>1, <1>4, <1>17, <1>19, <1>20, <1>21, <1>22, <1>24 DEF EditsOK, Dirty
<1>26. ASSUME NEW r \in Request, <<c, r>> \in net
       PROVE  PostOK(log, c, u, r)
  <2>1. PostOK(log, c, s, r)
    BY <1>1, <1>26
  <2>2. ASSUME r.seq = s.seq, Dirty(s)
        PROVE  r.baseRev <= k /\ u.outstanding[1] = OverAt(log, r.ops[1], r.baseRev, k)
    <3>1. PICK b \in Nat : b = r.baseRev /\ b <= i /\ b <= k /\ i <= k
      BY <1>3, <1>4, <2>1, <2>2 DEF PostOK, Request
    <3>2. s.outstanding[1] = OverAt(log, r.ops[1], b, i)
      BY <1>3, <2>1, <2>2, <3>1 DEF PostOK
    <3>3. OverAt(log, r.ops[1], b, k) = OverAt(log, OverAt(log, r.ops[1], b, i), i, k)
      BY <1>1, <1>4, <3>1, OverJoins
    <3>4. QED
      BY <1>23, <2>2, <3>1, <3>2, <3>3
  <2>3. QED
    BY <1>17, <1>20, <2>1, <2>2 DEF PostOK
<1>27. QED
  BY <1>15, <1>17, <1>18, <1>25, <1>26

LEMMA DeliverKeeps ==
  ASSUME DocInv, NEW c \in Client, Deliver(c)
  PROVE  DocInv'
<1>1. PICK s : s = client[c]
  OBVIOUS
<1>2. PICK d : d = log[s.rev + 1]
  OBVIOUS
<1>3. /\ UNCHANGED <<content, log, net>> /\ edits' = edits /\ edits' \in edits .. MaxEdits
      /\ net' \subseteq Client \X Request /\ s.rev < Len(log)
  BY <1>1, DocAssumption DEF Deliver, DocInv, Rev
<1>4. \E t \in Sync : /\ SendOK(t) /\ EditsOK(log, edits, c, t)
                      /\ \A r \in Request : <<c, r>> \in net => PostOK(log, c, t, r)
                      /\ client' = [client EXCEPT ![c] = t]
  <2>1. CASE d.client = c /\ d.seq = s.seq /\ Dirty(s)
    <3>1. PICK u \in Sync : /\ u = WithAck(s) /\ SendOK(u) /\ EditsOK(log, edits, c, u)
                            /\ \A r \in Request : <<c, r>> \in net => PostOK(log, c, u, r)
      BY <1>1, <1>2, <1>3, <2>1, AckIs
    <3>2. PICK t \in Sync : /\ t = (IF Dirty(u) THEN ScheduleSend(u) ELSE u)
                            /\ SendOK(t) /\ SameEdits(u, t)
      <4>1. ScheduleSend(u) \in Sync /\ SendOK(ScheduleSend(u)) /\ SameEdits(u, ScheduleSend(u))
        BY <3>1, ScheduleSendIs
      <4>2. SameEdits(u, u)
        BY DEF SameEdits
      <4>3. QED
        BY <3>1, <4>1, <4>2
    <3>3. client' = [client EXCEPT ![c] = t]
      BY <1>1, <1>2, <2>1, <3>1, <3>2 DEF Deliver
    <3>4. EditsOK(log, edits, c, t) /\ \A r \in Request : <<c, r>> \in net => PostOK(log, c, t, r)
      BY <3>1, <3>2, SameEditsOK, SamePostOK
    <3>5. QED
      BY <3>2, <3>3, <3>4
  <2>2. CASE ~(d.client = c /\ d.seq = s.seq /\ Dirty(s))
    <3>1. PICK t \in Sync : /\ t = WithRemote(s, d.ops) /\ SendOK(t) /\ EditsOK(log, edits, c, t)
                            /\ \A r \in Request : <<c, r>> \in net => PostOK(log, c, t, r)
      BY <1>1, <1>2, <1>3, <2>2, RemoteIs
    <3>2. client' = [client EXCEPT ![c] = t]
      BY <1>1, <1>2, <2>2, <3>1 DEF Deliver
    <3>3. QED
      BY <3>1, <3>2
  <2>3. QED
    BY <2>1, <2>2
<1>5. QED
  BY <1>3, <1>4, ClientStep

----------------------------------------------------------------------------
\* The server commits, or refuses, what arrives.

\* A longer log is the same up to where the shorter one ends.
GrownAs(L, e, M, n) ==
  /\ M \in Seq(Entry) /\ Len(M) = n + 1 /\ M[n + 1] = e
  /\ \A k \in 1 .. n : M[k] = L[k]
  /\ \A k \in 0 .. n : TextAt(M, k) = TextAt(L, k)
  /\ \A p : \A i, j \in Nat : i <= j /\ j <= n => OverAt(M, p, i, j) = OverAt(L, p, i, j)

LEMMA LogGrows ==
  ASSUME NEW L \in Seq(Entry), NEW e \in Entry, NEW n, n = Len(L)
  PROVE  GrownAs(L, e, Append(L, e), n)
<1>1. PICK M \in Seq(Entry) : M = Append(L, e)
  BY AppendProperties
<1>2. Len(M) = n + 1 /\ M[n + 1] = e /\ \A k \in 1 .. n : M[k] = L[k]
  BY <1>1, AppendProperties
<1>3. \A k \in 0 .. n : TextAt(M, k) = TextAt(L, k)
  BY <1>1, TextStays
<1>4. \A p : \A i, j \in Nat : i <= j /\ j <= n => OverAt(M, p, i, j) = OverAt(L, p, i, j)
  BY <1>1, OverStays
<1>5. QED
  BY <1>1, <1>2, <1>3, <1>4 DEF GrownAs

\* What a request becomes acts on the document.
LEMMA CommitActs ==
  ASSUME NEW L, NEW text, LogOK(L, text), NEW c, NEW s, NEW r \in Request, PostOK(L, c, s, r),
         NEW op, op = normalizeOp(OverAt(L, r.ops[1], r.baseRev, Len(L)))
  PROVE  /\ op \in Operation(Char) /\ applyOp(text, op) \in Seq(Char)
         /\ Acts(Char, op, text, applyOp(text, op))
<1>1. L \in Seq(Entry) /\ LogActs(Char, L) /\ text = TextAt(L, Len(L))
  BY DEF LogOK
<1>2. PICK n \in Nat : n = Len(L)
  BY <1>1, LenProperties
<1>3. PICK y : Acts(Char, r.ops[1], TextAt(L, r.baseRev), y)
  BY DEF PostOK
<1>4. PICK z : Acts(Char, OverAt(L, r.ops[1], r.baseRev, n), TextAt(L, n), z)
  <2>1. r.baseRev \in Nat /\ r.baseRev <= n /\ n <= Len(L)
    BY <1>2 DEF PostOK, Request
  <2>2. QED
    BY <1>1, <1>2, <1>3, <2>1, OverActs
<1>5. Acts(Char, op, text, z)
  BY <1>1, <1>2, <1>4, NormalizeActs
<1>6. QED
  BY <1>5, ActsApply DEF Operation

\* What the server makes of a request that fits.
CommitAs(L, text, r, e, M, out) ==
  /\ e.ops = normalizeOp(OverAt(L, r.ops[1], r.baseRev, Len(L)))
  /\ e \in Entry /\ M = Append(L, e) /\ out = applyOp(text, e.ops)

LEMMA CommitLog ==
  ASSUME NEW L, NEW text, LogOK(L, text), NEW c, NEW s, NEW r \in Request, PostOK(L, c, s, r),
         NEW e, NEW M, NEW out, CommitAs(L, text, r, e, M, out), Len(out) <= MaxDocChars
  PROVE  LogOK(M, out)
<1>1. L \in Seq(Entry) /\ LogActs(Char, L) /\ text \in Seq(Char) /\ text = TextAt(L, Len(L))
  BY DEF LogOK
<1>2. PICK n \in Nat : n = Len(L)
  BY <1>1, LenProperties
<1>3. GrownAs(L, e, M, n)
  BY <1>1, <1>2, LogGrows DEF CommitAs
<1>4. Acts(Char, e.ops, text, out) /\ out \in Seq(Char)
  BY CommitActs DEF CommitAs
<1>5. n + 1 \in Nat /\ n + 1 <= Len(M) /\ n \in 0 .. n /\ Len(M) = n + 1 /\ M \in Seq(Entry)
  BY <1>2, <1>3 DEF GrownAs
<1>6. TextAt(M, n + 1) = out
  <2>1. TextAt(M, n + 1) = applyOp(TextAt(M, n), M[n + 1].ops)
    BY <1>5, TextStep
  <2>2. M[n + 1] = e /\ TextAt(M, n) = text
    BY <1>1, <1>2, <1>3, <1>5 DEF GrownAs
  <2>3. QED
    BY <2>1, <2>2 DEF CommitAs
<1>7. LogActs(Char, M)
  <2>1. SUFFICES ASSUME NEW k \in 1 .. (n + 1)
                 PROVE  Acts(Char, M[k].ops, TextAt(M, k - 1), TextAt(M, k))
    BY <1>5 DEF LogActs
  <2>2. CASE k \in 1 .. n
    <3>1. k \in 0 .. n /\ k - 1 \in 0 .. n
      BY <1>2, <2>2
    <3>2. M[k] = L[k] /\ TextAt(M, k - 1) = TextAt(L, k - 1) /\ TextAt(M, k) = TextAt(L, k)
      BY <1>3, <2>2, <3>1 DEF GrownAs
    <3>3. Acts(Char, L[k].ops, TextAt(L, k - 1), TextAt(L, k))
      BY <1>1, <1>2, <2>2 DEF LogActs
    <3>4. QED
      BY <3>2, <3>3
  <2>3. CASE k = n + 1
    <3>1. k - 1 = n
      BY <1>2, <2>3
    <3>2. M[k] = e /\ TextAt(M, k - 1) = text
      BY <1>1, <1>2, <1>3, <1>5, <2>3, <3>1 DEF GrownAs
    <3>3. QED
      BY <1>4, <1>6, <2>3, <3>2
  <2>4. QED
    BY <1>2, <2>2, <2>3
<1>8. QED
  BY <1>4, <1>5, <1>6, <1>7 DEF LogOK

\* The others see a longer log.
LEMMA CommitEdits ==
  ASSUME NEW L \in Seq(Entry), NEW n \in Nat, n = Len(L), NEW e \in Entry, NEW M,
         GrownAs(L, e, M, n), NEW m \in Nat, NEW d, NEW s \in Sync, EditsOK(L, m, d, s),
         e.client = d =>
           /\ e.seq <= s.clientSeq
           /\ Dirty(s) /\ e.seq = s.seq =>
                e.ops = normalizeOp(OverAt(L, s.outstanding[1], s.rev, n))
  PROVE  EditsOK(M, m, d, s)
<1>1. PICK i \in Nat : i = s.rev /\ i <= n /\ i <= n + 1 /\ i \in 0 .. n
  BY DEF EditsOK, Sync
<1>2. Len(M) = n + 1
  BY DEF GrownAs
<1>3. View(M, s)
  BY <1>1 DEF EditsOK, View, GrownAs
<1>4. Flight(M, d, s)
  <2>1. SUFFICES ASSUME NEW k \in 1 .. (n + 1), M[k].client = d
                 PROVE  /\ M[k].seq <= s.clientSeq
                        /\ k > i /\ Dirty(s) /\ M[k].seq = s.seq =>
                             M[k].ops = normalizeOp(OverAt(M, s.outstanding[1], i, k - 1))
    BY <1>1, <1>2 DEF Flight
  <2>2. k > i => /\ k - 1 \in Nat /\ i <= k - 1 /\ k - 1 <= n
                 /\ OverAt(M, s.outstanding[1], i, k - 1) = OverAt(L, s.outstanding[1], i, k - 1)
    <3>1. k > i => k - 1 \in Nat /\ i <= k - 1 /\ k - 1 <= n
      OBVIOUS
    <3>2. QED
      BY <3>1 DEF GrownAs
  <2>3. CASE k \in 1 .. n
    <3>1. M[k] = L[k]
      BY <2>3 DEF GrownAs
    <3>2. /\ L[k].seq <= s.clientSeq
          /\ k > i /\ Dirty(s) /\ L[k].seq = s.seq =>
               L[k].ops = normalizeOp(OverAt(L, s.outstanding[1], i, k - 1))
      BY <1>1, <2>1, <2>3, <3>1 DEF EditsOK, Flight
    <3>3. QED
      BY <2>2, <3>1, <3>2
  <2>4. CASE k = n + 1
    <3>1. M[k] = e /\ k - 1 = n
      BY <2>4 DEF GrownAs
    <3>2. QED
      BY <1>1, <2>1, <2>2, <3>1
  <2>5. QED
    BY <2>3, <2>4
<1>5. QED
  BY <1>1, <1>2, <1>3, <1>4 DEF EditsOK

LEMMA CommitPost ==
  ASSUME NEW L \in Seq(Entry), NEW n \in Nat, n = Len(L), NEW e \in Entry, NEW M,
         GrownAs(L, e, M, n), NEW d, NEW s \in Sync, s.rev <= n, NEW r \in Request,
         PostOK(L, d, s, r)
  PROVE  PostOK(M, d, s, r)
<1>1. PICK i \in Nat : i = s.rev /\ i <= n
  BY DEF Sync
<1>2. PICK b \in Nat : b = r.baseRev /\ b <= n /\ b <= n + 1 /\ b \in 0 .. n
  BY DEF PostOK, Request
<1>3. Len(M) = n + 1 /\ TextAt(M, b) = TextAt(L, b)
  BY <1>2 DEF GrownAs
<1>4. b <= i => OverAt(M, r.ops[1], b, i) = OverAt(L, r.ops[1], b, i)
  BY <1>1 DEF GrownAs
<1>5. QED
  BY <1>1, <1>2, <1>3, <1>4 DEF PostOK

LEMMA ArriveKeeps ==
  ASSUME DocInv, Arrive
  PROVE  DocInv'
<1>1. PICK c \in Client, r \in Request : <<c, r>> \in net /\ ApplyDocOp(c, r)
  BY DEF Arrive, DocInv
<1>2. /\ LogOK(log, content) /\ log \in Seq(Entry) /\ edits' = edits /\ edits \in 0 .. MaxEdits
      /\ edits \in Nat /\ client \in [Client -> Sync]
      /\ net' \subseteq net /\ net' \subseteq Client \X Request
  BY <1>1, DocAssumption DEF DocInv, ApplyDocOp, LogOK
<1>3. PICK s : s = client[c] /\ s \in Sync /\ EditsOK(log, edits, c, s) /\ SendOK(s)
               /\ PostOK(log, c, s, r)
  BY <1>1, <1>2 DEF DocInv
<1>4. PICK t : t = [s EXCEPT !.handled = @ \/ s.request = r]
  OBVIOUS
<1>5. t \in Sync /\ SameEdits(s, t) /\ SendOK(t)
  <2>1. t \in Sync /\ SameEdits(s, t)
    BY <1>3, <1>4 DEF Sync, SameEdits
  <2>2. s.request = r => s.sending
    <3>1. r.seq # 0
      BY <1>3 DEF PostOK, Sync
    <3>2. r # NoRequest
      BY <3>1 DEF NoRequest
    <3>3. QED
      BY <1>3, <3>2 DEF SendOK
  <2>3. SendOK(t)
    BY <1>3, <1>4, <2>2 DEF Sync, SendOK
  <2>4. QED
    BY <2>1, <2>3
<1>6. client' = [client EXCEPT ![c] = t]
  BY <1>1, <1>2, <1>3, <1>4 DEF ApplyDocOp
<1>7. client' \in [Client -> Sync]
  BY <1>2, <1>5, <1>6
<1>8. \A d \in Client : SameEdits(client[d], client'[d]) /\ SendOK(client'[d])
  <2>1. ASSUME NEW d \in Client
        PROVE  SameEdits(client[d], client'[d]) /\ SendOK(client'[d])
    <3>1. CASE d = c
      BY <1>2, <1>3, <1>5, <1>6, <3>1
    <3>2. CASE d # c
      <4>1. client'[d] = client[d]
        BY <1>2, <1>6, <3>2
      <4>2. QED
        BY <4>1 DEF SameEdits, DocInv
    <3>3. QED
      BY <3>1, <3>2
  <2>2. QED
    BY <2>1
<1>9. /\ LogOK(log', content')
      /\ \A d \in Client : EditsOK(log', edits, d, client[d])
      /\ \A d \in Client, q \in Request : <<d, q>> \in net => PostOK(log', d, client[d], q)
  <2>1. CASE Committed(c, r) \/ Refuses(r)
    <3>1. log' = log /\ content' = content
      BY <1>1, <2>1 DEF ApplyDocOp
    <3>2. QED
      BY <1>2, <3>1 DEF DocInv
  <2>2. CASE ~(Committed(c, r) \/ Refuses(r))
    <3>1. PICK op : op = Rebased(r) /\ op = normalizeOp(OverAt(log, r.ops[1], r.baseRev, Len(log)))
      BY RebasedIs DEF Rev
    <3>2. PICK e : e = [ops |-> op, client |-> c, seq |-> r.seq]
      OBVIOUS
    <3>3. content' = applyOp(content, op) /\ log' = Append(log, e)
      BY <1>1, <2>2, <3>1, <3>2 DEF ApplyDocOp
    <3>4. Len(content') <= MaxDocChars
      <4>1. ~(Len(applyOp(content, op)) > MaxDocChars)
        BY <2>2, <3>1 DEF Refuses
      <4>2. op \in Operation(Char) /\ content' \in Seq(Char)
        BY <1>2, <1>3, <3>1, <3>3, CommitActs
      <4>3. Len(content') \in Nat /\ MaxDocChars \in Nat
        BY <4>2, LenProperties, DocAssumption
      <4>4. QED
        BY <3>3, <4>1, <4>3
    <3>5. e \in Entry /\ e.client = c /\ e.seq = r.seq /\ e.ops = op
      <4>1. op \in Operation(Char)
        BY <1>2, <1>3, <3>1, CommitActs
      <4>2. r.seq \in 1 .. MaxEdits
        <5>1. s.clientSeq <= edits
          <6>1. PICK x \in {0, 1} : x = IF Dirty(s) /\ s.seq = 0 THEN 1 ELSE 0
            OBVIOUS
          <6>2. PICK y \in {0, 1} : y = IF s.buffer # None THEN 1 ELSE 0
            OBVIOUS
          <6>3. s.clientSeq + x + y <= edits
            BY <1>3, <6>1, <6>2 DEF EditsOK, Numbered
          <6>4. s.clientSeq \in Nat
            BY <1>3 DEF Sync
          <6>5. QED
            BY <1>2, <6>3, <6>4
        <5>2. r.seq \in 1 .. s.clientSeq /\ s.clientSeq \in Nat /\ MaxEdits \in Nat
          BY <1>3, DocAssumption DEF PostOK, Sync
        <5>3. QED
          BY <1>2, <5>1, <5>2
      <4>3. QED
        BY <3>2, <4>1, <4>2 DEF Entry
    <3>6. CommitAs(log, content, r, e, log', content')
      BY <3>1, <3>3, <3>5 DEF CommitAs
    <3>7. LogOK(log', content')
      BY <1>2, <1>3, <3>4, <3>6, CommitLog
    <3>8. PICK n \in Nat : n = Len(log)
      BY <1>2, LenProperties
    <3>9. GrownAs(log, e, log', n)
      BY <1>2, <3>3, <3>5, <3>8, LogGrows
    <3>10. ASSUME NEW d \in Client
           PROVE  EditsOK(log', edits, d, client[d])
      <4>1. client[d] \in Sync /\ EditsOK(log, edits, d, client[d])
        BY <1>2 DEF DocInv
      <4>2. ASSUME d = c
            PROVE  /\ e.seq <= s.clientSeq
                   /\ Dirty(s) /\ e.seq = s.seq =>
                        e.ops = normalizeOp(OverAt(log, s.outstanding[1], s.rev, n))
        <5>1. e.seq <= s.clientSeq
          BY <1>3, <3>5 DEF PostOK
        <5>2. ASSUME Dirty(s), e.seq = s.seq
              PROVE  e.ops = normalizeOp(OverAt(log, s.outstanding[1], s.rev, n))
          <6>1. PICK b \in Nat, i \in Nat : /\ b = r.baseRev /\ i = s.rev /\ b <= i /\ i <= n
                                            /\ n <= Len(log)
            BY <1>3, <3>5, <3>8, <5>2 DEF PostOK, EditsOK, Request, Sync
          <6>2. s.outstanding[1] = OverAt(log, r.ops[1], b, i)
            BY <1>3, <3>5, <5>2, <6>1 DEF PostOK
          <6>3. OverAt(log, r.ops[1], b, n) = OverAt(log, OverAt(log, r.ops[1], b, i), i, n)
            BY <1>2, <6>1, OverJoins
          <6>4. QED
            BY <3>1, <3>5, <3>8, <6>1, <6>2, <6>3
        <5>3. QED
          BY <5>1, <5>2
      <4>3. QED
        BY <1>2, <1>3, <3>5, <3>8, <3>9, <4>1, <4>2, CommitEdits
    <3>11. ASSUME NEW d \in Client, NEW q \in Request, <<d, q>> \in net
           PROVE  PostOK(log', d, client[d], q)
      <4>1. client[d] \in Sync /\ client[d].rev <= n /\ PostOK(log, d, client[d], q)
        BY <1>2, <3>8, <3>11 DEF DocInv, EditsOK
      <4>2. QED
        BY <1>2, <3>5, <3>8, <3>9, <4>1, CommitPost
    <3>12. QED
      BY <3>7, <3>10, <3>11
  <2>3. QED
    BY <2>1, <2>2
<1>10. \A d \in Client : EditsOK(log', edits', d, client'[d])
  BY <1>2, <1>8, <1>9, SameEditsOK
<1>11. \A d \in Client, q \in Request : <<d, q>> \in net' => PostOK(log', d, client'[d], q)
  <2>1. ASSUME NEW d \in Client, NEW q \in Request, <<d, q>> \in net'
        PROVE  PostOK(log', d, client'[d], q)
    <3>1. PostOK(log', d, client[d], q)
      BY <1>2, <1>9, <2>1
    <3>2. QED
      BY <1>8, <3>1, SamePostOK
  <2>2. QED
    BY <2>1
<1>12. QED
  BY <1>2, <1>7, <1>8, <1>9, <1>10, <1>11 DEF DocInv

----------------------------------------------------------------------------
\* The invariant holds in every state, and what it says.

LEMMA DocInvInit == DocInit => DocInv
<1>1. SUFFICES ASSUME DocInit
               PROVE  DocInv
  OBVIOUS
<1>2. content = InitialText /\ log = <<>> /\ edits = 0 /\ net = {}
  BY <1>1 DEF DocInit
<1>3. LogOK(log, content)
  <2>1. log \in Seq(Entry) /\ Len(log) = 0
    BY <1>2, EmptySeq
  <2>2. TextAt(log, 0) = InitialText
    BY <2>1, TextStart
  <2>3. LogActs(Char, log)
    BY <2>1 DEF LogActs
  <2>4. QED
    BY <1>2, <2>1, <2>2, <2>3, InitialChars DEF LogOK
<1>4. PICK s : s = Fresh(InitialText, 0)
  OBVIOUS
<1>5. /\ s.text = InitialText /\ s.rev = 0 /\ s.outstanding = None /\ s.buffer = None
      /\ s.clientSeq = 0 /\ s.seq = 0 /\ s.request = NoRequest
      /\ ~s.sending /\ ~s.handled /\ s.tries = 0
  BY <1>4 DEF Fresh
<1>6. s \in Sync
  BY <1>4, InitialChars, NoneHeld DEF Sync, Fresh
<1>7. ~Dirty(s)
  BY <1>5 DEF Dirty
<1>8. SendOK(s)
  BY <1>5, DocAssumption DEF SendOK
<1>9. View(log, s)
  <2>1. TextAt(log, 0) = InitialText
    BY <1>2, <1>3 DEF LogOK
  <2>2. Holds(Char, None, InitialText, InitialText)
    BY InitialChars DEF Holds
  <2>3. QED
    BY <1>5, <2>1, <2>2 DEF View
<1>10. Numbered(edits, s)
  BY <1>2, <1>5, <1>7 DEF Numbered
<1>11. Len(log) = 0
  BY <1>2
<1>12. \A c : EditsOK(log, edits, c, s)
  BY <1>5, <1>7, <1>9, <1>10, <1>11 DEF EditsOK, Flight
<1>13. client = [c \in Client |-> s]
  BY <1>1, <1>4 DEF DocInit
<1>14. QED
  BY <1>2, <1>3, <1>6, <1>8, <1>12, <1>13, DocAssumption DEF DocInv

LEMMA DocInvNext == DocInv /\ [DocNext]_docVars => DocInv'
<1>1. SUFFICES ASSUME DocInv, [DocNext]_docVars
               PROVE  DocInv'
  OBVIOUS
<1>2. CASE Edit
  BY <1>1, <1>2, LocalKeeps DEF Edit
<1>3. CASE \E c \in Client : SendInFlight(c)
  BY <1>1, <1>3, SendKeeps
<1>4. CASE \E c \in Client : PostAnswered(c)
  BY <1>1, <1>4, AnsweredKeeps
<1>5. CASE \E c \in Client, lost \in BOOLEAN : PostFailed(c, lost)
  BY <1>1, <1>5, FailedKeeps
<1>6. CASE \E c \in Client : Deliver(c)
  BY <1>1, <1>6, DeliverKeeps
<1>7. CASE \E c \in Client : \E rev \in client[c].rev .. Rev : Reset(c, rev)
  BY <1>1, <1>7, ResetKeeps
<1>8. CASE Arrive
  BY <1>1, <1>8, ArriveKeeps
<1>9. CASE UNCHANGED docVars
  <2>1. UNCHANGED <<content, log, client, net, edits>>
    BY <1>9 DEF docVars
  <2>2. QED
    BY <1>1, <2>1 DEF DocInv
<1>10. QED
  BY <1>1, <1>2, <1>3, <1>4, <1>5, <1>6, <1>7, <1>8, <1>9 DEF DocNext

LEMMA DocInvTypes == DocInv => DocTypeOK
<1>1. SUFFICES ASSUME DocInv
               PROVE  DocTypeOK
  OBVIOUS
<1>2. content \in Seq(Char) /\ Len(content) <= MaxDocChars
  BY <1>1 DEF DocInv, LogOK
<1>3. log \in Seq([ops: Operation(Char), client: Client, seq: 1 .. MaxEdits])
  BY <1>1 DEF DocInv, LogOK, Entry
<1>4. ASSUME NEW post \in net
      PROVE  post[1] \in Client /\ Len(post[2].ops) = 1
  <2>1. PICK c \in Client, r \in Request : post = <<c, r>>
    BY <1>1 DEF DocInv
  <2>2. r.ops # None /\ r.ops \in Held
    BY <1>1, <1>4, <2>1 DEF DocInv, PostOK, Request
  <2>3. Len(r.ops) = 1
    BY <2>2, HeldIs
  <2>4. QED
    BY <2>1, <2>3
<1>5. ASSUME NEW c \in Client, NEW s, s = client[c]
      PROVE  /\ s.text \in Seq(Char)
             /\ s.rev \in 0 .. Rev
             /\ \A op \in Range(s.outstanding \o s.buffer) : op \in Operation(Char)
             /\ s.sending <=> s.request # NoRequest
             /\ s.sending <=> s.tries \in 1 .. MaxAttempts
             /\ s.handled => s.sending
             /\ s.buffer # None => Dirty(s)
             /\ s.seq # 0 => Dirty(s) /\ s.seq = s.clientSeq
  <2>1. s \in Sync /\ EditsOK(log, edits, c, s) /\ SendOK(s)
    BY <1>1, <1>5 DEF DocInv
  <2>2. \A op \in Range(s.outstanding \o s.buffer) : op \in Operation(Char)
    <3>1. PICK a \in Held, b \in Held : a = s.outstanding /\ b = s.buffer
      BY <2>1 DEF Sync
    <3>2. \A h \in Held : h \in Seq(Operation(Char))
      <4>1. \A op \in Operation(Char) : <<op>> \in Seq(Operation(Char))
        OBVIOUS
      <4>2. None \in Seq(Operation(Char))
        BY EmptySeq DEF None
      <4>3. QED
        BY <4>1, <4>2 DEF Held
    <3>3. PICK x \in Seq(Operation(Char)) : x = a \o b
      BY <3>2, ConcatProperties
    <3>4. \A op \in Range(x) : op \in Operation(Char)
      <4>1. x = [i \in 1 .. Len(x) |-> x[i]] /\ \A i \in 1 .. Len(x) : x[i] \in Operation(Char)
        BY ElementOfSeq
      <4>2. QED
        BY <4>1 DEF Range
    <3>5. QED
      BY <3>1, <3>3, <3>4
  <2>3. s.rev \in 0 .. Rev
    <3>1. log \in Seq(Entry) /\ s.rev \in Nat /\ s.rev <= Len(log)
      BY <1>1, <2>1 DEF DocInv, LogOK, EditsOK, Sync
    <3>2. QED
      BY <3>1, LenProperties DEF Rev
  <2>4. s.text \in Seq(Char)
    BY <2>1 DEF Sync
  <2>5. QED
    BY <2>1, <2>2, <2>3, <2>4 DEF EditsOK, SendOK
<1>6. QED
  BY <1>2, <1>3, <1>4, <1>5 DEF DocTypeOK

LEMMA DocInvViews == DocInv => ViewIsDocPlusEdits
<1> DEFINE With(text, held) == IF held = None THEN text ELSE applyOp(text, held[1])
<1>1. SUFFICES ASSUME DocInv, NEW c \in Client, NEW s, s = client[c]
               PROVE  s.text = With(With(ContentAt(s.rev), s.outstanding), s.buffer)
  BY DEF ViewIsDocPlusEdits
<1>2. ASSUME NEW held, NEW text, NEW out, Holds(Char, held, text, out)
      PROVE  out = With(text, held)
  <2>1. CASE held = None
    BY <1>2, <2>1, HeldNone
  <2>2. CASE held # None
    <3>1. PICK op : held = <<op>> /\ Acts(Char, op, text, out)
      BY <1>2, <2>2 DEF Holds
    <3>2. out = applyOp(text, op)
      BY <3>1, ActsApply
    <3>3. QED
      BY <2>2, <3>1, <3>2
  <2>3. QED
    BY <2>1, <2>2
<1>3. PICK m : /\ Holds(Char, s.outstanding, TextAt(log, s.rev), m)
               /\ Holds(Char, s.buffer, m, s.text)
  BY <1>1 DEF DocInv, EditsOK, View
<1>4. m = With(ContentAt(s.rev), s.outstanding)
  <2>1. m = With(TextAt(log, s.rev), s.outstanding)
    BY <1>2, <1>3
  <2>2. QED
    BY <2>1, ContentIs
<1>5. s.text = With(m, s.buffer)
  BY <1>2, <1>3
<1> HIDE DEF With
<1>6. QED
  BY <1>4, <1>5

LEMMA DocInvFits == DocInv => RequestsFit
<1>1. SUFFICES ASSUME DocInv, NEW post \in net
               PROVE  /\ post[2].baseRev <= Rev
                      /\ Fits(post[2].ops[1], ContentAt(post[2].baseRev))
  BY DEF RequestsFit
<1>2. PICK c \in Client, r \in Request : post = <<c, r>>
  BY <1>1 DEF DocInv
<1>3. PostOK(log, c, client[c], r)
  BY <1>1, <1>2 DEF DocInv
<1>4. PICK z : Acts(Char, r.ops[1], TextAt(log, r.baseRev), z)
  BY <1>3 DEF PostOK
<1>5. Fits(r.ops[1], TextAt(log, r.baseRev))
  BY <1>4, ActsApply
<1>6. QED
  BY <1>2, <1>3, <1>5, ContentIs DEF PostOK, Rev

LEMMA DocInvAlways == DocSpec => []DocInv
BY DocInvInit, DocInvNext, PTL DEF DocSpec

\* What every user sees is the document at the revision the client has, with the
\* edits on top that it has not had acknowledged (OtClient, SharedDocSync), for
\* any clients, edits, failures and snapshots.
THEOREM ViewsAreConsistent == DocSpec => []ClientsConsistent
<1>1. DocInv => ClientsConsistent
  BY DocInvTypes, DocInvViews DEF ClientsConsistent
<1>2. QED
  BY <1>1, DocInvAlways, PTL

\* Every request that an honest client sends has a base revision the server
\* has, and fits the document as it was then, however late it arrives.
THEOREM RequestsAlwaysFit == DocSpec => []RequestsFit
BY DocInvFits, DocInvAlways, PTL

----------------------------------------------------------------------------
\* Characters: what an edit types and deletes.

\* An edit of a text without repetitions to another, that types new characters
\* and deletes only some of er.
Edits(er, op, x, y) == Clean(Char, op, x, y) /\ Range(x) \ Range(y) \subseteq er

HoldsEdits(er, held, x, y) ==
  \/ held = None /\ x \in Seq(Char) /\ IsInjective(x) /\ y = x
  \/ \E op : held = <<op>> /\ Edits(er, op, x, y)

Typing(held) == IF held = None THEN {} ELSE Inserted(held[1])

\* What that means for the characters.
Edited(er, X, x, y) ==
  /\ x \in Seq(Char) /\ y \in Seq(Char) /\ IsInjective(x) /\ IsInjective(y)
  /\ X \cap Range(x) = {} /\ X \subseteq Range(y) /\ Range(y) \subseteq Range(x) \cup X
  /\ Range(x) \ Range(y) \subseteq er

LEMMA EditsAre ==
  ASSUME NEW er, NEW op, NEW x, NEW y, Edits(er, op, x, y)
  PROVE  /\ Edited(er, Inserted(op), x, y) /\ Acts(Char, op, x, y)
         /\ op \in Operation(Char) /\ y = applyOp(x, op)
<1>1. Acts(Char, op, x, y)
  BY DEF Edits, Clean
<1>2. Types(op, x, y)
  BY <1>1, ActsRange
<1>3. op \in Seq(Component(Char)) /\ x \in Seq(Char) /\ y \in Seq(Char) /\ y = applyOp(x, op)
  BY <1>1, ActsApply
<1>4. QED
  BY <1>1, <1>2, <1>3 DEF Edits, Clean, Types, Edited, Operation

LEMMA HeldEditsAre ==
  ASSUME NEW er, NEW held, NEW x, NEW y, HoldsEdits(er, held, x, y)
  PROVE  Edited(er, Typing(held), x, y) /\ Holds(Char, held, x, y)
<1>1. CASE held = None
  <2>1. x \in Seq(Char) /\ IsInjective(x) /\ y = x
    BY <1>1 DEF HoldsEdits, None
  <2>2. QED
    BY <1>1, <2>1 DEF Edited, Typing, Holds
<1>2. CASE held # None
  <2>1. PICK op : held = <<op>> /\ Edits(er, op, x, y)
    BY <1>2 DEF HoldsEdits
  <2>2. Edited(er, Inserted(op), x, y) /\ Acts(Char, op, x, y)
    BY <2>1, EditsAre
  <2>3. Typing(held) = Inserted(op)
    BY <1>2, <2>1 DEF Typing
  <2>4. QED
    BY <2>1, <2>2, <2>3 DEF Holds
<1>3. QED
  BY <1>1, <1>2

LEMMA EditsHeld ==
  ASSUME NEW op
  PROVE  /\ <<op>> # None /\ Typing(<<op>>) = Inserted(op)
         /\ \A er, x, y : HoldsEdits(er, <<op>>, x, y) <=> Edits(er, op, x, y)
BY DEF HoldsEdits, Typing, None

\* More may be deleted.
LEMMA EditsMore ==
  ASSUME NEW er, NEW fr, er \subseteq fr, NEW x, NEW y
  PROVE  /\ \A op : Edits(er, op, x, y) => Edits(fr, op, x, y)
         /\ \A held : HoldsEdits(er, held, x, y) => HoldsEdits(fr, held, x, y)
<1>1. \A op : Edits(er, op, x, y) => Edits(fr, op, x, y)
  BY DEF Edits
<1>2. QED
  BY <1>1 DEF HoldsEdits

EditsMerged(er, a, b, da, db, p, q, m) ==
  /\ Edits(er, p, db, m) /\ Edits(er, q, da, m)
  /\ Inserted(p) = Inserted(a) /\ Inserted(q) = Inserted(b)

LEMMA EditsMerge ==
  ASSUME NEW er, NEW a, NEW b, NEW doc, NEW da, NEW db, Edits(er, a, doc, da),
         Edits(er, b, doc, db), Inserted(a) \cap Inserted(b) = {}
  PROVE  \E m : EditsMerged(er, a, b, da, db, transformOps(a, b)[1], transformOps(a, b)[2], m)
<1>1. PICK p, q : p = transformOps(a, b)[1] /\ q = transformOps(a, b)[2]
  OBVIOUS
<1>2. Clean(Char, a, doc, da) /\ Clean(Char, b, doc, db)
  BY DEF Edits
<1>3. PICK m : CleanMerged(Char, a, b, da, db, p, q, m)
  BY <1>1, <1>2, CleanMerge
<1>4. /\ Clean(Char, p, db, m) /\ Clean(Char, q, da, m)
      /\ Inserted(p) = Inserted(a) /\ Inserted(q) = Inserted(b)
      /\ Range(da) \cap Range(db) \subseteq Range(m)
  BY <1>3 DEF CleanMerged
<1>5. Edited(er, Inserted(a), doc, da) /\ Edited(er, Inserted(b), doc, db)
  BY EditsAre
<1>6. Inserted(a) \subseteq Range(m) /\ Inserted(b) \subseteq Range(m)
  <2>1. Types(p, db, m) /\ Types(q, da, m)
    BY <1>4, ActsRange DEF Clean
  <2>2. QED
    BY <1>4, <2>1 DEF Types
<1>7. Range(db) \ Range(m) \subseteq er /\ Range(da) \ Range(m) \subseteq er
  BY <1>4, <1>5, <1>6 DEF Edited
<1>8. EditsMerged(er, a, b, da, db, p, q, m)
  BY <1>4, <1>7 DEF EditsMerged, Edits
<1>9. QED
  BY <1>1, <1>8

PastEditsAs(er, op, held, past, next, out, m) ==
  /\ Edits(er, past[1], out, m) /\ Inserted(past[1]) = Inserted(op)
  /\ HoldsEdits(er, past[2], next, m) /\ Typing(past[2]) = Typing(held)

LEMMA PastEdits ==
  ASSUME NEW er, NEW op, NEW held, NEW text, NEW next, NEW out, Edits(er, op, text, next),
         HoldsEdits(er, held, text, out), Inserted(op) \cap Typing(held) = {}
  PROVE  \E m : PastEditsAs(er, op, held, Past(op, held), next, out, m)
<1>1. CASE held = None
  <2>1. Past(op, held) = <<op, None>>
    BY <1>1 DEF Past
  <2>2. out = text
    BY <1>1, HeldNone, HeldEditsAre
  <2>3. next \in Seq(Char) /\ IsInjective(next)
    BY EditsAre DEF Edited
  <2>4. HoldsEdits(er, None, next, next)
    BY <2>3 DEF HoldsEdits
  <2>5. PastEditsAs(er, op, held, Past(op, held), next, out, next)
    BY <1>1, <2>1, <2>2, <2>4 DEF PastEditsAs
  <2>6. QED
    BY <2>5
<1>2. CASE held # None
  <2>1. PICK b : held = <<b>> /\ Edits(er, b, text, out)
    BY <1>2 DEF HoldsEdits
  <2>2. Typing(held) = Inserted(b)
    BY <2>1, EditsHeld
  <2>3. PICK p, q : p = transformOps(op, b)[1] /\ q = transformOps(op, b)[2]
    OBVIOUS
  <2>4. PICK m : EditsMerged(er, op, b, next, out, p, q, m)
    BY <2>1, <2>2, <2>3, EditsMerge
  <2>5. Past(op, held) = <<p, <<q>>>>
    BY <1>2, <2>1, <2>3 DEF Past
  <2>6. HoldsEdits(er, <<q>>, next, m) /\ Typing(<<q>>) = Inserted(b)
    BY <2>4, EditsHeld DEF EditsMerged
  <2>7. PastEditsAs(er, op, held, Past(op, held), next, out, m)
    BY <2>2, <2>4, <2>5, <2>6 DEF PastEditsAs, EditsMerged
  <2>8. QED
    BY <2>7
<1>3. QED
  BY <1>1, <1>2

----------------------------------------------------------------------------
\* Every character that was typed has a mark: the client, and the number under
\* which it sends the edit that types it.

\* f has a mark for what was typed, and for nothing else.
MarksOK(f, n, there, er) ==
  /\ DOMAIN f = there \ Range(InitialText) /\ DOMAIN f \subseteq 1 .. n
  /\ Range(InitialText) \subseteq there /\ er \subseteq there

Marked(f, X, mark) == \A n \in X : n \in DOMAIN f /\ f[n] = mark

\* Every commit types what has its mark, and no two have the same.
LogMarked(L, f, er) ==
  /\ \A k \in 1 .. Len(L) : /\ Edits(er, L[k].ops, TextAt(L, k - 1), TextAt(L, k))
                            /\ Marked(f, Inserted(L[k].ops), <<L[k].client, L[k].seq>>)
  /\ \A k, l \in 1 .. Len(L) : L[k].client = L[l].client /\ L[k].seq = L[l].seq => k = l

\* The same, of a log and marks as the lemmas below need it.
History(L, f, er) ==
  /\ L \in Seq(Entry) /\ LogMarked(L, f, er) /\ DOMAIN f \cap Range(InitialText) = {}

LEMMA MarksApart ==
  ASSUME NEW f, NEW X, NEW Y, NEW x, NEW y, Marked(f, X, x), Marked(f, Y, y), x # y
  PROVE  X \cap Y = {}
BY DEF Marked

LEMMA HistoryStep ==
  ASSUME NEW L, NEW f, NEW er, History(L, f, er), NEW k \in Nat, k + 1 <= Len(L)
  PROVE  /\ Edits(er, L[k + 1].ops, TextAt(L, k), TextAt(L, k + 1))
         /\ Edited(er, Inserted(L[k + 1].ops), TextAt(L, k), TextAt(L, k + 1))
         /\ Marked(f, Inserted(L[k + 1].ops), <<L[k + 1].client, L[k + 1].seq>>)
<1>1. PICK n \in Nat : n = Len(L)
  BY LenProperties DEF History
<1>2. PICK l \in 1 .. Len(L) : l = k + 1 /\ l - 1 = k
  BY <1>1
<1>3. /\ Edits(er, L[l].ops, TextAt(L, l - 1), TextAt(L, l))
      /\ Marked(f, Inserted(L[l].ops), <<L[l].client, L[l].seq>>)
  BY DEF History, LogMarked
<1>4. QED
  BY <1>2, <1>3, EditsAre

\* Where the characters of a text are from.
TextIs(L, k) ==
  /\ TextAt(L, k) \in Seq(Char) /\ IsInjective(TextAt(L, k))
  /\ \A n \in Range(TextAt(L, k)) : n \in Range(InitialText)
                                    \/ \E j \in 1 .. k : n \in Inserted(L[j].ops)

LEMMA TextRange ==
  ASSUME NEW L, NEW f, NEW er, History(L, f, er), NEW k \in 0 .. Len(L)
  PROVE  TextIs(L, k)
<1> DEFINE T == {i \in Nat : i <= Len(L) => TextIs(L, i)}
<1>1. PICK n \in Nat : n = Len(L)
  BY LenProperties DEF History
<1>2. 0 \in T
  <2>1. TextAt(L, 0) = InitialText
    BY TextStart DEF History
  <2>2. TextIs(L, 0)
    BY <2>1, InitialChars, DocAssumption DEF TextIs
  <2>3. QED
    BY <2>2
<1>3. ASSUME NEW i \in Nat, i \in T
      PROVE  i + 1 \in T
  <2>1. SUFFICES ASSUME i + 1 <= Len(L)
                 PROVE  TextIs(L, i + 1)
    OBVIOUS
  <2>2. TextIs(L, i)
    BY <1>1, <1>3, <2>1
  <2>3. Edited(er, Inserted(L[i + 1].ops), TextAt(L, i), TextAt(L, i + 1))
    BY <2>1, HistoryStep
  <2>4. ASSUME NEW c \in Range(TextAt(L, i + 1))
        PROVE  c \in Range(InitialText) \/ \E j \in 1 .. i + 1 : c \in Inserted(L[j].ops)
    <3>1. c \in Range(TextAt(L, i)) \/ c \in Inserted(L[i + 1].ops)
      BY <2>3 DEF Edited
    <3>2. i + 1 \in 1 .. i + 1 /\ \A j \in 1 .. i : j \in 1 .. i + 1
      OBVIOUS
    <3>3. QED
      BY <2>2, <3>1, <3>2 DEF TextIs
  <2>5. QED
    BY <2>3, <2>4 DEF TextIs, Edited
<1>4. \A i \in Nat : i \in T
  <2> HIDE DEF T
  <2>1. QED
    BY <1>2, <1>3, NatSetInduction
<1>5. QED
  BY <1>1, <1>4

\* What has a mark that no commit up to k has is not in the document at k.
LEMMA NotThere ==
  ASSUME NEW L, NEW f, NEW er, History(L, f, er), NEW k \in 0 .. Len(L), NEW X,
         NEW mark, Marked(f, X, mark), \A j \in 1 .. k : <<L[j].client, L[j].seq>> # mark
  PROVE  X \cap Range(TextAt(L, k)) = {}
<1>1. SUFFICES ASSUME NEW n \in X, n \in Range(TextAt(L, k))
               PROVE  FALSE
  OBVIOUS
<1>2. n \in DOMAIN f /\ f[n] = mark /\ n \notin Range(InitialText)
  BY <1>1 DEF Marked, History
<1>3. TextIs(L, k)
  BY TextRange
<1>4. PICK j \in 1 .. k : n \in Inserted(L[j].ops)
  BY <1>1, <1>2, <1>3 DEF TextIs
<1>5. j \in 1 .. Len(L)
  BY LenProperties DEF History
<1>6. f[n] = <<L[j].client, L[j].seq>>
  BY <1>4, <1>5 DEF History, LogMarked, Marked
<1>7. QED
  BY <1>2, <1>4, <1>6

\* What a commit types was not there before.
LEMMA TypedNew ==
  ASSUME NEW L, NEW f, NEW er, History(L, f, er), NEW k \in Nat, k + 1 <= Len(L), NEW i \in 0 .. k
  PROVE  Inserted(L[k + 1].ops) \cap Range(TextAt(L, i)) = {}
<1>1. PICK n \in Nat : n = Len(L)
  BY LenProperties DEF History
<1>2. i \in 0 .. Len(L) /\ k + 1 \in 1 .. Len(L)
  BY <1>1
<1>3. Marked(f, Inserted(L[k + 1].ops), <<L[k + 1].client, L[k + 1].seq>>)
  BY HistoryStep
<1>4. ASSUME NEW j \in 1 .. i
      PROVE  <<L[j].client, L[j].seq>> # <<L[k + 1].client, L[k + 1].seq>>
  <2>1. j \in 1 .. Len(L) /\ j # k + 1
    BY <1>1
  <2>2. QED
    BY <1>2, <2>1 DEF History, LogMarked
<1>5. QED
  BY <1>2, <1>3, <1>4, NotThere

\* A character that leaves the document does not come back.
LEMMA NeverAgain ==
  ASSUME NEW L, NEW f, NEW er, History(L, f, er), NEW i \in Nat, NEW j \in Nat, NEW k \in Nat,
         i <= j, j <= k, k <= Len(L), NEW n, n \in Range(TextAt(L, i)),
         n \notin Range(TextAt(L, j))
  PROVE  n \notin Range(TextAt(L, k))
<1> DEFINE T == {m \in Nat : j + m <= Len(L) => n \notin Range(TextAt(L, j + m))}
<1>1. PICK l \in Nat : l = Len(L)
  BY LenProperties DEF History
<1>2. 0 \in T
  OBVIOUS
<1>3. ASSUME NEW m \in Nat, m \in T
      PROVE  m + 1 \in T
  <2>1. SUFFICES ASSUME j + (m + 1) <= Len(L)
                 PROVE  n \notin Range(TextAt(L, j + (m + 1)))
    OBVIOUS
  <2>2. PICK h \in Nat : h = j + m /\ h + 1 = j + (m + 1) /\ h + 1 <= Len(L) /\ i \in 0 .. h
    BY <2>1
  <2>3. n \notin Range(TextAt(L, h))
    BY <1>1, <1>3, <2>1, <2>2
  <2>4. n \notin Inserted(L[h + 1].ops)
    BY <2>2, TypedNew
  <2>5. Edited(er, Inserted(L[h + 1].ops), TextAt(L, h), TextAt(L, h + 1))
    BY <2>2, HistoryStep
  <2>6. QED
    BY <2>2, <2>3, <2>4, <2>5 DEF Edited
<1>4. \A m \in Nat : m \in T
  <2> HIDE DEF T
  <2>1. QED
    BY <1>2, <1>3, NatSetInduction
<1>5. k - j \in Nat /\ j + (k - j) = k
  OBVIOUS
<1>6. k - j \in T
  BY <1>4, <1>5
<1>7. QED
  BY <1>5, <1>6

\* One that nobody deleted stays.
LEMMA StaysThere ==
  ASSUME NEW L, NEW f, NEW er, History(L, f, er), NEW i \in Nat, NEW k \in Nat, i <= k,
         k <= Len(L), NEW n, n \notin er, n \in Range(TextAt(L, i))
  PROVE  n \in Range(TextAt(L, k))
<1> DEFINE T == {m \in Nat : i + m <= Len(L) => n \in Range(TextAt(L, i + m))}
<1>1. PICK l \in Nat : l = Len(L)
  BY LenProperties DEF History
<1>2. 0 \in T
  OBVIOUS
<1>3. ASSUME NEW m \in Nat, m \in T
      PROVE  m + 1 \in T
  <2>1. SUFFICES ASSUME i + (m + 1) <= Len(L)
                 PROVE  n \in Range(TextAt(L, i + (m + 1)))
    OBVIOUS
  <2>2. PICK h \in Nat : h = i + m /\ h + 1 = i + (m + 1) /\ h + 1 <= Len(L)
    BY <2>1
  <2>3. n \in Range(TextAt(L, h))
    BY <1>1, <1>3, <2>1, <2>2
  <2>4. Edited(er, Inserted(L[h + 1].ops), TextAt(L, h), TextAt(L, h + 1))
    BY <2>2, HistoryStep
  <2>5. QED
    BY <2>2, <2>3, <2>4 DEF Edited
<1>4. \A m \in Nat : m \in T
  <2> HIDE DEF T
  <2>1. QED
    BY <1>2, <1>3, NatSetInduction
<1>5. k - i \in Nat /\ i + (k - i) = k
  OBVIOUS
<1>6. k - i \in T
  BY <1>4, <1>5
<1>7. QED
  BY <1>5, <1>6

\* An operation goes over the commits that are not its own, and types the same.
OverEdits(L, er, p, i, j) ==
  /\ \E z : Edits(er, OverAt(L, p, i, j), TextAt(L, j), z)
  /\ Inserted(OverAt(L, p, i, j)) = Inserted(p)

LEMMA OverClean ==
  ASSUME NEW L, NEW f, NEW er, History(L, f, er), NEW i \in Nat, NEW j \in Nat, i <= j,
         j <= Len(L), NEW p, NEW out, Edits(er, p, TextAt(L, i), out), NEW mark,
         Marked(f, Inserted(p), mark),
         \A k \in 1 .. j : k > i => <<L[k].client, L[k].seq>> # mark
  PROVE  OverEdits(L, er, p, i, j)
<1> DEFINE T == {m \in Nat : i + m <= j => OverEdits(L, er, p, i, i + m)}
<1>1. PICK n \in Nat : n = Len(L)
  BY LenProperties DEF History
<1>2. 0 \in T
  <2>1. i \in 0 .. Len(L) /\ i + 0 = i
    BY <1>1
  <2>2. OverAt(L, p, i, i) = p
    BY <2>1, OverStart DEF History
  <2>3. QED
    BY <2>1, <2>2 DEF OverEdits
<1>3. ASSUME NEW m \in Nat, m \in T
      PROVE  m + 1 \in T
  <2>1. SUFFICES ASSUME i + (m + 1) <= j
                 PROVE  OverEdits(L, er, p, i, i + (m + 1))
    OBVIOUS
  <2>2. PICK l \in Nat : l = i + m /\ l + 1 = i + (m + 1) /\ i <= l /\ l + 1 <= Len(L)
                         /\ l + 1 \in 1 .. j /\ l + 1 > i
    BY <1>1, <2>1
  <2>3. PICK o : o = OverAt(L, p, i, l)
    OBVIOUS
  <2>4. OverEdits(L, er, p, i, l)
    BY <1>1, <1>3, <2>1, <2>2
  <2>5. PICK z : Edits(er, o, TextAt(L, l), z)
    BY <2>3, <2>4 DEF OverEdits
  <2>6. Inserted(o) = Inserted(p)
    BY <2>3, <2>4 DEF OverEdits
  <2>7. /\ Edits(er, L[l + 1].ops, TextAt(L, l), TextAt(L, l + 1))
        /\ Marked(f, Inserted(L[l + 1].ops), <<L[l + 1].client, L[l + 1].seq>>)
    BY <2>2, HistoryStep
  <2>8. Inserted(L[l + 1].ops) \cap Inserted(o) = {}
    <3>1. <<L[l + 1].client, L[l + 1].seq>> # mark
      BY <2>2
    <3>2. QED
      BY <2>6, <2>7, <3>1, MarksApart
  <2> HIDE DEF T
  <2>9. PICK y : EditsMerged(er, L[l + 1].ops, o, TextAt(L, l + 1), z,
                             transformOps(L[l + 1].ops, o)[1], transformOps(L[l + 1].ops, o)[2], y)
    BY <2>5, <2>7, <2>8, EditsMerge
  <2>10. OverAt(L, p, i, l + 1) = transformOps(L[l + 1].ops, o)[2]
    BY <2>2, <2>3, OverStep DEF History
  <2>11. OverEdits(L, er, p, i, l + 1)
    BY <2>6, <2>9, <2>10 DEF OverEdits, EditsMerged
  <2>12. QED
    BY <2>2, <2>11
<1>4. \A m \in Nat : m \in T
  <2> HIDE DEF T
  <2>1. QED
    BY <1>2, <1>3, NatSetInduction
<1>5. j - i \in Nat /\ i + (j - i) = j
  OBVIOUS
<1>6. j - i \in T
  BY <1>4, <1>5
<1>7. QED
  BY <1>5, <1>6

----------------------------------------------------------------------------
\* What every client holds, and every request, has its mark.

\* The number under which a client sends what it has in flight; what it buffers
\* gets the next.
Nr(s) == IF s.seq = 0 THEN s.clientSeq + 1 ELSE s.seq

HeldMarked(L, f, er, c, s) ==
  /\ \E m : /\ HoldsEdits(er, s.outstanding, TextAt(L, s.rev), m)
            /\ HoldsEdits(er, s.buffer, m, s.text)
  /\ Marked(f, Typing(s.outstanding), <<c, Nr(s)>>)
  /\ Marked(f, Typing(s.buffer), <<c, Nr(s) + 1>>)
  /\ \A k \in 1 .. Len(L) : L[k].client = c /\ Dirty(s) /\ L[k].seq = s.seq => k > s.rev

PostMarked(L, f, er, c, r) ==
  /\ \E z : Edits(er, r.ops[1], TextAt(L, r.baseRev), z)
  /\ Marked(f, Inserted(r.ops[1]), <<c, r.seq>>)

\* As long as no snapshot was forced on a client: a request has been committed,
\* or is of what its client has in flight;
Logged(L, c, q) == \E j \in 1 .. Len(L) : L[j].client = c /\ L[j].seq = q

Posted(L, K, posts) ==
  \A c \in Client, r \in Request :
    <<c, r>> \in posts => Logged(L, c, r.seq) \/ (Dirty(K[c]) /\ K[c].seq = r.seq)

\* what was typed and not deleted has been committed, or a client holds it;
Told(f, L, K, er) ==
  \A n \in DOMAIN f \ er : \/ \E j \in 1 .. Len(L) : n \in Inserted(L[j].ops)
                           \/ \E c \in Client :
                                n \in Typing(K[c].outstanding) \cup Typing(K[c].buffer)

\* what was deleted is gone from the document for good, or a client holds the
\* deletion.
Erasing(L, s) == (Range(TextAt(L, s.rev)) \cup Typing(s.outstanding)) \ Range(s.text)

Gone(L, text, K, n) ==
  /\ n \notin Range(text)
  /\ \A c \in Client : /\ n \notin Typing(K[c].buffer)
                       /\ n \in Typing(K[c].outstanding) => Logged(L, c, K[c].seq)

Cut(L, text, K, er) == \A n \in er : Gone(L, text, K, n) \/ \E c \in Client : n \in Erasing(L, K[c])

Surv(f) ==
  /\ MarksOK(f, edits, typed, erased)
  /\ LogMarked(log, f, erased)
  /\ \A c \in Client : HeldMarked(log, f, erased, c, client[c])
  /\ \A c \in Client, r \in Request : <<c, r>> \in net => PostMarked(log, f, erased, c, r)
  /\ resets \in Nat
  /\ resets = 0 => /\ Posted(log, client, net)
                   /\ Told(f, log, client, erased)
                   /\ Cut(log, content, client, erased)

SurvInv == \E f : Surv(f)

----------------------------------------------------------------------------
\* One client steps: what it is to show for the invariant to stay.

Older(f, g) == DOMAIN f \subseteq DOMAIN g /\ \A n \in DOMAIN f : g[n] = f[n]

LEMMA MarkedOn ==
  ASSUME NEW f, NEW g, Older(f, g), NEW X, NEW mark, Marked(f, X, mark)
  PROVE  Marked(g, X, mark)
BY DEF Older, Marked

LEMMA LogMarkedOn ==
  ASSUME NEW f, NEW g, Older(f, g), NEW er, NEW fr, er \subseteq fr, NEW L, LogMarked(L, f, er)
  PROVE  LogMarked(L, g, fr)
<1>1. ASSUME NEW k \in 1 .. Len(L)
      PROVE  /\ Edits(fr, L[k].ops, TextAt(L, k - 1), TextAt(L, k))
             /\ Marked(g, Inserted(L[k].ops), <<L[k].client, L[k].seq>>)
  <2>1. /\ Edits(er, L[k].ops, TextAt(L, k - 1), TextAt(L, k))
        /\ Marked(f, Inserted(L[k].ops), <<L[k].client, L[k].seq>>)
    BY DEF LogMarked
  <2>2. QED
    BY <2>1, EditsMore, MarkedOn
<1>2. QED
  BY <1>1 DEF LogMarked

LEMMA HeldMarkedOn ==
  ASSUME NEW f, NEW g, Older(f, g), NEW er, NEW fr, er \subseteq fr, NEW L, NEW c, NEW s,
         HeldMarked(L, f, er, c, s)
  PROVE  HeldMarked(L, g, fr, c, s)
<1>1. PICK m : /\ HoldsEdits(er, s.outstanding, TextAt(L, s.rev), m)
               /\ HoldsEdits(er, s.buffer, m, s.text)
  BY DEF HeldMarked
<1>2. HoldsEdits(fr, s.outstanding, TextAt(L, s.rev), m) /\ HoldsEdits(fr, s.buffer, m, s.text)
  BY <1>1, EditsMore
<1>3. /\ Marked(g, Typing(s.outstanding), <<c, Nr(s)>>)
      /\ Marked(g, Typing(s.buffer), <<c, Nr(s) + 1>>)
  BY MarkedOn DEF HeldMarked
<1>4. QED
  BY <1>2, <1>3 DEF HeldMarked

LEMMA PostMarkedOn ==
  ASSUME NEW f, NEW g, Older(f, g), NEW er, NEW fr, er \subseteq fr, NEW L, NEW c, NEW r,
         PostMarked(L, f, er, c, r)
  PROVE  PostMarked(L, g, fr, c, r)
<1>1. PICK z : Edits(er, r.ops[1], TextAt(L, r.baseRev), z)
  BY DEF PostMarked
<1>2. Edits(fr, r.ops[1], TextAt(L, r.baseRev), z)
  BY <1>1, EditsMore
<1>3. Marked(g, Inserted(r.ops[1]), <<c, r.seq>>)
  BY MarkedOn DEF PostMarked
<1>4. QED
  BY <1>2, <1>3 DEF PostMarked

\* Two states of a client that hold the same for its characters.
LEMMA SameHeldMarked ==
  ASSUME NEW s, NEW t, SameEdits(s, t), NEW L
  PROVE  /\ \A f, er, c : HeldMarked(L, f, er, c, s) => HeldMarked(L, f, er, c, t)
         /\ Erasing(L, t) = Erasing(L, s) /\ (Dirty(t) <=> Dirty(s))
BY DEF SameEdits, HeldMarked, Erasing, Nr, Dirty

\* What client c is to show, that was in s and is in t, when no snapshot was forced.
PostedOn(c, t, posts) ==
  \A r \in Request : <<c, r>> \in posts => Logged(log, c, r.seq) \/ (Dirty(t) /\ t.seq = r.seq)

ToldOn(f, g, fr, s, t) ==
  \A n \in DOMAIN g \ fr :
    \/ n \in DOMAIN f \ erased /\ n \notin Typing(s.outstanding) \cup Typing(s.buffer)
    \/ n \in Typing(t.outstanding) \cup Typing(t.buffer)
    \/ \E j \in 1 .. Len(log) : n \in Inserted(log[j].ops)

CutOn(fr, K, s, t) ==
  \A n \in fr :
    \/ Gone(log, content, K, n)
    \/ n \in Erasing(log, t)
    \/ n \in erased /\ ~Gone(log, content, client, n) /\ n \notin Erasing(log, s)

LEMMA SurvStep ==
  ASSUME DocInv, NEW f, Surv(f), NEW g, Older(f, g), NEW c \in Client, NEW s, s = client[c],
         NEW t \in Sync, UNCHANGED <<content, log>>, client' = [client EXCEPT ![c] = t],
         erased \subseteq erased', MarksOK(g, edits', typed', erased'),
         HeldMarked(log, g, erased', c, t),
         \A r \in Request :
           <<c, r>> \in net' => <<c, r>> \in net \/ PostMarked(log, g, erased', c, r),
         \A d \in Client, r \in Request : d # c /\ <<d, r>> \in net' => <<d, r>> \in net,
         resets' \in Nat,
         resets' = 0 => /\ resets = 0 /\ PostedOn(c, t, net')
                        /\ ToldOn(f, g, erased', s, t) /\ CutOn(erased', client', s, t)
  PROVE  Surv(g)'
<1>1. /\ MarksOK(f, edits, typed, erased) /\ LogMarked(log, f, erased)
      /\ \A d \in Client : HeldMarked(log, f, erased, d, client[d])
      /\ \A d \in Client, r \in Request : <<d, r>> \in net => PostMarked(log, f, erased, d, r)
  BY DEF Surv
<1>2. log' = log /\ content' = content /\ client \in [Client -> Sync]
  BY DEF DocInv
<1>3. client'[c] = t /\ \A d \in Client : d # c => client'[d] = client[d]
  BY <1>2
<1>4. LogMarked(log, g, erased')
  BY <1>1, LogMarkedOn
<1>5. ASSUME NEW d \in Client
      PROVE  HeldMarked(log, g, erased', d, client'[d])
  <2>1. CASE d = c
    BY <1>3, <2>1
  <2>2. CASE d # c
    <3>1. HeldMarked(log, f, erased, d, client[d]) /\ client'[d] = client[d]
      BY <1>1, <1>3, <2>2
    <3>2. HeldMarked(log, g, erased', d, client[d])
      BY <3>1, HeldMarkedOn
    <3>3. QED
      BY <3>1, <3>2
  <2>3. QED
    BY <2>1, <2>2
<1>6. ASSUME NEW d \in Client, NEW r \in Request, <<d, r>> \in net'
      PROVE  PostMarked(log, g, erased', d, r)
  <2>1. CASE <<d, r>> \in net
    <3>1. PostMarked(log, f, erased, d, r)
      BY <1>1, <2>1
    <3>2. QED
      BY <3>1, PostMarkedOn
  <2>2. CASE <<d, r>> \notin net
    <3>1. d = c
      BY <1>6, <2>2
    <3>2. QED
      BY <1>6, <2>2, <3>1
  <2>3. QED
    BY <2>1, <2>2
<1>7. ASSUME resets' = 0
      PROVE  /\ Posted(log, client', net') /\ Told(g, log, client', erased')
             /\ Cut(log, content, client', erased')
  <2>1. /\ Posted(log, client, net) /\ Told(f, log, client, erased)
        /\ Cut(log, content, client, erased)
    BY <1>7 DEF Surv
  <2>2. Posted(log, client', net')
    <3>1. SUFFICES ASSUME NEW d \in Client, NEW r \in Request, <<d, r>> \in net'
                   PROVE  Logged(log, d, r.seq) \/ (Dirty(client'[d]) /\ client'[d].seq = r.seq)
      BY DEF Posted
    <3>2. CASE d = c
      BY <1>3, <1>7, <3>1, <3>2 DEF PostedOn
    <3>3. CASE d # c
      BY <1>3, <2>1, <3>1, <3>3 DEF Posted
    <3>4. QED
      BY <3>2, <3>3
  <2>3. Told(g, log, client', erased')
    <3>1. SUFFICES ASSUME NEW n \in DOMAIN g \ erased',
                          \A j \in 1 .. Len(log) : n \notin Inserted(log[j].ops)
                   PROVE  \E d \in Client : n \in Typing(client'[d].outstanding)
                                             \cup Typing(client'[d].buffer)
      BY DEF Told
    <3>2. CASE n \in Typing(t.outstanding) \cup Typing(t.buffer)
      BY <1>3, <3>2
    <3>3. CASE n \notin Typing(t.outstanding) \cup Typing(t.buffer)
      <4>1. n \in DOMAIN f \ erased /\ n \notin Typing(s.outstanding) \cup Typing(s.buffer)
        BY <1>7, <3>1, <3>3 DEF ToldOn
      <4>2. PICK d \in Client : n \in Typing(client[d].outstanding) \cup Typing(client[d].buffer)
        BY <2>1, <3>1, <4>1 DEF Told
      <4>3. client'[d] = client[d]
        BY <1>3, <4>1, <4>2
      <4>4. QED
        BY <4>2, <4>3
    <3>4. QED
      BY <3>2, <3>3
  <2>4. Cut(log, content, client', erased')
    <3>1. SUFFICES ASSUME NEW n \in erased', ~Gone(log, content, client', n)
                   PROVE  \E d \in Client : n \in Erasing(log, client'[d])
      BY DEF Cut
    <3>2. CASE n \in Erasing(log, t)
      BY <1>3, <3>2
    <3>3. CASE n \notin Erasing(log, t)
      <4>1. n \in erased /\ ~Gone(log, content, client, n) /\ n \notin Erasing(log, s)
        BY <1>7, <3>1, <3>3 DEF CutOn
      <4>2. PICK d \in Client : n \in Erasing(log, client[d])
        BY <2>1, <4>1 DEF Cut
      <4>3. client'[d] = client[d]
        BY <1>3, <4>1, <4>2
      <4>4. QED
        BY <4>2, <4>3
    <3>4. QED
      BY <3>2, <3>3
  <2>5. QED
    BY <2>2, <2>3, <2>4
<1>8. QED
  BY <1>2, <1>4, <1>5, <1>6, <1>7 DEF Surv

----------------------------------------------------------------------------
\* The actions that send: a client holds the same after them.

\* What it holds has its number, or is given the next.
SameHeld(s, t) ==
  /\ t.text = s.text /\ t.rev = s.rev /\ t.outstanding = s.outstanding /\ t.buffer = s.buffer
  /\ \/ t.seq = s.seq /\ t.clientSeq = s.clientSeq
     \/ s.seq = 0 /\ t.seq = s.clientSeq + 1 /\ t.clientSeq = s.clientSeq + 1

Sends(t, r) ==
  Dirty(t) /\ t.seq # 0 /\ r = [seq |-> t.seq, baseRev |-> t.rev, ops |-> t.outstanding]

\* The numbers of a client's commits, and of its requests, are those it has given.
LEMMA Numbers ==
  ASSUME DocInv, NEW c \in Client, NEW s, s = client[c]
  PROVE  /\ s \in Sync /\ s.clientSeq \in Nat /\ s.seq \in Nat /\ Nr(s) \in Nat
         /\ s.rev \in Nat /\ s.rev \in 0 .. Len(log)
         /\ s.clientSeq <= Nr(s) /\ (s.seq = 0 \/ (s.seq = s.clientSeq /\ Nr(s) = s.seq))
         /\ \A k \in 1 .. Len(log) :
              log[k].client = c => log[k].seq \in 1 .. s.clientSeq /\ log[k].seq # Nr(s) + 1
         /\ \A r \in Request : <<c, r>> \in net => r.seq \in 1 .. s.clientSeq
<1>1. s \in Sync /\ EditsOK(log, edits, c, s)
  BY DEF DocInv
<1>2. s.clientSeq \in Nat /\ s.seq \in Nat /\ s.rev \in Nat
  BY <1>1 DEF Sync
<1>3. s.seq = 0 \/ s.seq = s.clientSeq
  BY <1>1 DEF EditsOK
<1>4. Nr(s) \in Nat /\ s.clientSeq <= Nr(s) /\ (s.seq # 0 => Nr(s) = s.seq)
  BY <1>2, <1>3 DEF Nr
<1>5. s.rev \in 0 .. Len(log)
  <2>1. Len(log) \in Nat
    BY LenProperties DEF DocInv, LogOK
  <2>2. QED
    BY <1>1, <1>2, <2>1 DEF EditsOK
<1>6. ASSUME NEW k \in 1 .. Len(log), log[k].client = c
      PROVE  log[k].seq \in 1 .. s.clientSeq /\ log[k].seq # Nr(s) + 1
  <2>1. log[k].seq \in Nat \ {0}
    BY LogEntry
  <2>2. log[k].seq <= s.clientSeq
    BY <1>1, <1>6 DEF EditsOK, Flight
  <2>3. QED
    BY <1>2, <1>4, <2>1, <2>2
<1>7. ASSUME NEW r \in Request, <<c, r>> \in net
      PROVE  r.seq \in 1 .. s.clientSeq
  <2>1. PostOK(log, c, s, r)
    BY <1>7 DEF DocInv
  <2>2. QED
    BY <2>1 DEF PostOK
<1>8. QED
  BY <1>1, <1>2, <1>3, <1>4, <1>5, <1>6, <1>7

\* A request of what is in flight has its mark.
LEMMA SendsMarked ==
  ASSUME NEW L, NEW f, NEW er, NEW c, NEW t, HeldMarked(L, f, er, c, t), NEW r, Sends(t, r)
  PROVE  PostMarked(L, f, er, c, r)
<1>1. PICK m : HoldsEdits(er, t.outstanding, TextAt(L, t.rev), m)
  BY DEF HeldMarked
<1>2. t.outstanding # None /\ r.ops = t.outstanding /\ r.seq = t.seq /\ r.baseRev = t.rev
      /\ Nr(t) = t.seq
  BY DEF Sends, Dirty, Nr
<1>3. PICK op : t.outstanding = <<op>> /\ Edits(er, op, TextAt(L, t.rev), m)
  BY <1>1, <1>2 DEF HoldsEdits
<1>4. Typing(t.outstanding) = Inserted(op) /\ r.ops[1] = op
  BY <1>2, <1>3, EditsHeld
<1>5. Marked(f, Inserted(op), <<c, r.seq>>)
  BY <1>2, <1>4 DEF HeldMarked
<1>6. QED
  BY <1>2, <1>3, <1>4, <1>5 DEF PostMarked

LEMMA QuietStep ==
  ASSUME DocInv, NEW f, Surv(f), NEW c \in Client, NEW s, s = client[c], NEW t \in Sync,
         UNCHANGED <<content, log, edits, typed, erased, resets>>,
         client' = [client EXCEPT ![c] = t], SameHeld(s, t),
         \A r \in Request : <<c, r>> \in net' => <<c, r>> \in net \/ Sends(t, r),
         \A d \in Client, r \in Request : d # c /\ <<d, r>> \in net' => <<d, r>> \in net
  PROVE  Surv(f)'
<1>1. /\ s \in Sync /\ s.clientSeq \in Nat /\ s.seq \in Nat
      /\ s.seq = 0 \/ s.seq = s.clientSeq
      /\ \A k \in 1 .. Len(log) : log[k].client = c => log[k].seq \in 1 .. s.clientSeq
      /\ \A r \in Request : <<c, r>> \in net => r.seq \in 1 .. s.clientSeq
  BY Numbers
<1>2. /\ t.text = s.text /\ t.rev = s.rev /\ t.outstanding = s.outstanding
      /\ t.buffer = s.buffer /\ Nr(t) = Nr(s)
      /\ t.seq = s.seq \/ (s.seq = 0 /\ t.seq = s.clientSeq + 1)
  BY <1>1 DEF SameHeld, Nr
<1>3. Dirty(t) <=> Dirty(s)
  BY <1>2 DEF Dirty
<1>4. HeldMarked(log, f, erased, c, s)
  BY DEF Surv
<1>5. HeldMarked(log, f, erased, c, t)
  <2>1. ASSUME NEW k \in 1 .. Len(log), log[k].client = c, Dirty(t), log[k].seq = t.seq
        PROVE  k > t.rev
    <3>1. log[k].seq \in 1 .. s.clientSeq
      BY <1>1, <2>1
    <3>2. t.seq = s.seq
      BY <1>1, <1>2, <2>1, <3>1
    <3>3. QED
      BY <1>2, <1>3, <1>4, <2>1, <3>2 DEF HeldMarked
  <2>2. QED
    BY <1>2, <1>4, <2>1 DEF HeldMarked
<1>6. ASSUME NEW r \in Request, <<c, r>> \in net', <<c, r>> \notin net
      PROVE  PostMarked(log, f, erased, c, r)
  BY <1>5, <1>6, SendsMarked
<1>7. ASSUME resets = 0
      PROVE  /\ PostedOn(c, t, net') /\ ToldOn(f, f, erased, s, t)
             /\ CutOn(erased, client', s, t)
  <2>1. /\ Posted(log, client, net) /\ Told(f, log, client, erased)
        /\ Cut(log, content, client, erased)
    BY <1>7 DEF Surv
  <2>2. ASSUME NEW r \in Request, <<c, r>> \in net'
        PROVE  Logged(log, c, r.seq) \/ (Dirty(t) /\ t.seq = r.seq)
    <3>1. CASE <<c, r>> \in net
      <4>1. Logged(log, c, r.seq) \/ (Dirty(s) /\ s.seq = r.seq)
        BY <2>1, <3>1 DEF Posted
      <4>2. r.seq # 0
        BY <1>1, <3>1
      <4>3. QED
        BY <1>2, <1>3, <4>1, <4>2
    <3>2. CASE <<c, r>> \notin net
      BY <2>2, <3>2 DEF Sends
    <3>3. QED
      BY <3>1, <3>2
  <2>3. ToldOn(f, f, erased, s, t)
    BY <1>2 DEF ToldOn
  <2>4. ASSUME NEW n \in erased, Gone(log, content, client, n)
        PROVE  Gone(log, content, client', n)
    <3>1. client'[c] = t /\ \A d \in Client : d # c => client'[d] = client[d]
      BY DEF DocInv
    <3>2. ~Logged(log, c, 0)
      BY <1>1 DEF Logged
    <3>3. SUFFICES ASSUME NEW d \in Client
                   PROVE  /\ n \notin Typing(client'[d].buffer)
                          /\ n \in Typing(client'[d].outstanding) => Logged(log, d, client'[d].seq)
      BY <2>4 DEF Gone
    <3>4. /\ n \notin Typing(client[d].buffer)
          /\ n \in Typing(client[d].outstanding) => Logged(log, d, client[d].seq)
      BY <2>4 DEF Gone
    <3>5. CASE d = c
      BY <1>2, <3>1, <3>2, <3>4, <3>5
    <3>6. CASE d # c
      BY <3>1, <3>4, <3>6
    <3>7. QED
      BY <3>5, <3>6
  <2>5. Erasing(log, t) = Erasing(log, s)
    BY <1>2 DEF Erasing
  <2>6. QED
    BY <2>2, <2>3, <2>4, <2>5 DEF PostedOn, CutOn
<1>8. MarksOK(f, edits', typed', erased') /\ resets' \in Nat /\ resets' = resets /\ Older(f, f)
      /\ erased' = erased
  BY DEF Surv, Older
<1>9. HeldMarked(log, f, erased', c, t)
  BY <1>5, <1>8
<1>10. \A r \in Request : <<c, r>> \in net' => <<c, r>> \in net \/ PostMarked(log, f, erased', c, r)
  BY <1>6, <1>8
<1>11. resets' = 0 => /\ resets = 0 /\ PostedOn(c, t, net')
                      /\ ToldOn(f, f, erased', s, t) /\ CutOn(erased', client', s, t)
  BY <1>7, <1>8
<1>12. UNCHANGED <<content, log>> /\ erased \subseteq erased'
  BY <1>8
<1>13. QED
  BY <1>8, <1>9, <1>10, <1>11, <1>12, SurvStep

LEMMA SendSurv ==
  ASSUME DocInv, NEW f, Surv(f), NEW c \in Client, SendInFlight(c)
  PROVE  Surv(f)'
<1>1. PICK o : o = client[c] /\ o \in Sync /\ o.clientSeq \in Nat /\ o.seq \in Nat
  BY Numbers
<1>2. PICK s : s = [o EXCEPT !.timer = FALSE]
  OBVIOUS
<1>3. s \in Sync /\ SameEdits(o, s)
  BY <1>1, <1>2 DEF Sync, SameEdits
<1>4. UNCHANGED <<content, log, edits, typed, erased, resets>>
  BY DEF SendInFlight
<1>5. CASE ~(Dirty(s) /\ ~s.sending)
  <2>1. client' = [client EXCEPT ![c] = s] /\ net' = net
    BY <1>1, <1>2, <1>5 DEF SendInFlight
  <2>2. SameHeld(o, s)
    BY <1>3 DEF SameEdits, SameHeld
  <2>3. QED
    BY <1>1, <1>3, <1>4, <2>1, <2>2, QuietStep
<1>6. CASE Dirty(s) /\ ~s.sending
  <2>1. PICK q \in Nat \ {0} : q = IF s.seq = 0 THEN s.clientSeq + 1 ELSE s.seq
    BY <1>1, <1>3 DEF SameEdits
  <2>2. PICK u : u = [s EXCEPT !.sending = TRUE, !.tries = 1, !.seq = q,
                               !.clientSeq = IF s.seq = 0 THEN q ELSE @]
    OBVIOUS
  <2>3. /\ u \in Sync /\ u.seq = q /\ u.text = s.text /\ u.rev = s.rev
        /\ u.outstanding = s.outstanding /\ u.buffer = s.buffer
        /\ u.clientSeq = IF s.seq = 0 THEN q ELSE s.clientSeq
    BY <1>3, <2>1, <2>2 DEF Sync
  <2>4. PICK t : t = Posting(u)
    OBVIOUS
  <2>5. /\ t \in Sync /\ SameEdits(u, t)
        /\ t.request = [seq |-> u.seq, baseRev |-> u.rev, ops |-> u.outstanding]
    BY <2>3, <2>4, PostingIs
  <2>6. client' = [client EXCEPT ![c] = t] /\ net' = net \cup {<<c, t.request>>}
    BY <1>1, <1>2, <1>6, <2>1, <2>2, <2>4 DEF SendInFlight
  <2>7. SameHeld(o, t)
    BY <1>3, <2>1, <2>3, <2>5 DEF SameEdits, SameHeld
  <2>8. Sends(t, t.request)
    BY <1>6, <2>1, <2>3, <2>5 DEF SameEdits, Sends, Dirty
  <2>9. /\ \A r \in Request : <<c, r>> \in net' => <<c, r>> \in net \/ Sends(t, r)
        /\ \A d \in Client, r \in Request : d # c /\ <<d, r>> \in net' => <<d, r>> \in net
    BY <2>6, <2>8
  <2>10. QED
    BY <1>1, <1>4, <2>5, <2>6, <2>7, <2>9, QuietStep
<1>7. QED
  BY <1>5, <1>6

LEMMA AnsweredSurv ==
  ASSUME DocInv, NEW f, Surv(f), NEW c \in Client, PostAnswered(c)
  PROVE  Surv(f)'
<1>1. PICK s : s = client[c] /\ s \in Sync
  BY DEF DocInv
<1>2. PICK t : t = Finally(s) /\ t \in Sync /\ SameEdits(s, t)
  BY <1>1, FinallyIs
<1>3. SameHeld(s, t)
  BY <1>2 DEF SameEdits, SameHeld
<1>4. /\ UNCHANGED <<content, log, edits, typed, erased, resets>>
      /\ client' = [client EXCEPT ![c] = t] /\ net' = net
  BY <1>1, <1>2 DEF PostAnswered
<1>5. QED
  BY <1>1, <1>2, <1>3, <1>4, QuietStep

LEMMA FailedSurv ==
  ASSUME DocInv, NEW f, Surv(f), NEW c \in Client, NEW lost \in BOOLEAN, PostFailed(c, lost)
  PROVE  Surv(f)'
<1>1. PICK s : s = client[c] /\ s \in Sync /\ SendOK(s)
  BY DEF DocInv
<1>2. PICK left : left = (IF lost THEN net \ {<<c, s.request>>} ELSE net) /\ left \subseteq net
  OBVIOUS
<1>3. UNCHANGED <<content, log, edits, typed, erased, resets>>
  BY DEF PostFailed
<1>4. CASE ~(s.tries < MaxAttempts /\ Dirty(s) /\ s.seq = s.request.seq)
  <2>1. PICK t : t = Finally(s) /\ t \in Sync /\ SameEdits(s, t)
    BY <1>1, FinallyIs
  <2>2. client' = [client EXCEPT ![c] = t] /\ net' \subseteq net
    BY <1>1, <1>2, <1>4, <2>1 DEF PostFailed
  <2>3. SameHeld(s, t)
    BY <2>1 DEF SameEdits, SameHeld
  <2>4. QED
    BY <1>1, <1>3, <2>1, <2>2, <2>3, QuietStep
<1>5. CASE s.tries < MaxAttempts /\ Dirty(s) /\ s.seq = s.request.seq
  <2>1. s.seq # 0 /\ s.tries \in Nat
    BY <1>1, <1>5 DEF PostFailed, SendOK, Sync
  <2>2. PICK u : u = [s EXCEPT !.tries = @ + 1]
    OBVIOUS
  <2>3. u \in Sync /\ SameEdits(s, u)
    <3>1. s.tries + 1 \in Nat
      BY <2>1
    <3>2. QED
      BY <1>1, <2>2, <3>1 DEF Sync, SameEdits
  <2>4. PICK t : t = Posting(u)
    OBVIOUS
  <2>5. /\ t \in Sync /\ SameEdits(u, t)
        /\ t.request = [seq |-> u.seq, baseRev |-> u.rev, ops |-> u.outstanding]
    BY <2>3, <2>4, PostingIs
  <2>6. client' = [client EXCEPT ![c] = t] /\ net' = left \cup {<<c, t.request>>}
    BY <1>1, <1>2, <1>5, <2>2, <2>4 DEF PostFailed
  <2>7. SameHeld(s, t)
    BY <2>3, <2>5 DEF SameEdits, SameHeld
  <2>8. Sends(t, t.request)
    BY <1>5, <2>1, <2>3, <2>5 DEF SameEdits, Sends, Dirty
  <2>9. /\ \A r \in Request : <<c, r>> \in net' => <<c, r>> \in net \/ Sends(t, r)
        /\ \A d \in Client, r \in Request : d # c /\ <<d, r>> \in net' => <<d, r>> \in net
    BY <1>2, <2>6, <2>8
  <2>10. QED
    BY <1>1, <1>3, <2>5, <2>6, <2>7, <2>9, QuietStep
<1>6. QED
  BY <1>4, <1>5

----------------------------------------------------------------------------
\* An event: the client's own commit, or another's.

\* What left the document before it is at its last revision is gone for good:
\* nobody has it to send but who has sent it.
LEMMA GoneIf ==
  ASSUME DocInv, NEW f, NEW er, LogMarked(log, f, er), DOMAIN f \cap Range(InitialText) = {},
         NEW K, \A d \in Client : /\ HeldMarked(log, f, er, d, K[d]) /\ K[d].clientSeq \in Nat
                                  /\ K[d].seq = 0 \/ K[d].seq = K[d].clientSeq
                                  /\ \A k \in 1 .. Len(log) : log[k].client = d =>
                                                                log[k].seq <= K[d].clientSeq,
         NEW i \in Nat, NEW j \in Nat, i <= j, j <= Len(log), NEW n,
         n \in Range(TextAt(log, i)), n \notin Range(TextAt(log, j))
  PROVE  Gone(log, content, K, n)
<1>1. History(log, f, er) /\ content = TextAt(log, Len(log))
  BY DEF DocInv, LogOK, History
<1>2. PICK l \in Nat : l = Len(log) /\ i \in 0 .. Len(log)
  BY LenProperties DEF DocInv, LogOK
<1>3. n \notin Range(content)
  BY <1>1, <1>2, NeverAgain
<1>4. SUFFICES ASSUME NEW d \in Client
               PROVE  /\ n \notin Typing(K[d].buffer)
                      /\ n \in Typing(K[d].outstanding) => Logged(log, d, K[d].seq)
  BY <1>3 DEF Gone
<1>5. /\ Marked(f, Typing(K[d].outstanding), <<d, Nr(K[d])>>)
      /\ Marked(f, Typing(K[d].buffer), <<d, Nr(K[d]) + 1>>)
  BY DEF HeldMarked
<1>6. CASE n \in Range(InitialText)
  <2>1. n \notin DOMAIN f
    BY <1>6
  <2>2. QED
    BY <1>5, <2>1 DEF Marked
<1>7. CASE n \notin Range(InitialText)
  <2>1. TextIs(log, i)
    BY <1>1, <1>2, TextRange
  <2>2. PICK k \in 1 .. i : n \in Inserted(log[k].ops)
    BY <1>7, <2>1 DEF TextIs
  <2>3. k \in 1 .. Len(log)
    BY <1>2
  <2>4. f[n] = <<log[k].client, log[k].seq>>
    BY <2>2, <2>3 DEF LogMarked, Marked
  <2>5. log[k].seq \in Nat
    BY <2>3, LogEntry
  <2>6. log[k].client = d => log[k].seq <= K[d].clientSeq
    BY <2>3
  <2>7. n \notin Typing(K[d].buffer)
    <3>1. ~(log[k].client = d /\ log[k].seq = Nr(K[d]) + 1)
      BY <2>5, <2>6 DEF Nr
    <3>2. QED
      BY <1>5, <2>4, <3>1 DEF Marked
  <2>8. ASSUME n \in Typing(K[d].outstanding)
        PROVE  Logged(log, d, K[d].seq)
    <3>1. log[k].client = d /\ log[k].seq = Nr(K[d])
      BY <1>5, <2>4, <2>8 DEF Marked
    <3>2. log[k].seq = K[d].seq
      BY <2>5, <2>6, <3>1 DEF Nr
    <3>3. QED
      BY <2>3, <3>1, <3>2 DEF Logged
  <2>9. QED
    BY <2>7, <2>8
<1>8. QED
  BY <1>6, <1>7
\* What is to show of a client that took the next entry of the log.
Took(f, c, s, t) ==
  /\ t \in Sync /\ t.rev = s.rev + 1 /\ t.clientSeq = s.clientSeq
  /\ t.seq = 0 \/ t.seq = s.clientSeq
  /\ HeldMarked(log, f, erased, c, t)
  /\ Dirty(s) => Logged(log, c, s.seq) \/ (Dirty(t) /\ t.seq = s.seq)
  /\ \A n \in Typing(s.outstanding) \cup Typing(s.buffer) :
       \/ n \in Typing(t.outstanding) \cup Typing(t.buffer)
       \/ \E j \in 1 .. Len(log) : n \in Inserted(log[j].ops)
  /\ Typing(t.buffer) \subseteq Typing(s.buffer)
  /\ \A n \in Typing(t.outstanding) :
       n \in Typing(s.buffer) \/ (n \in Typing(s.outstanding) /\ t.seq = s.seq)
  /\ \A n \in Erasing(log, s) :
       \/ n \in Erasing(log, t)
       \/ n \in Range(TextAt(log, s.rev)) \ Range(TextAt(log, s.rev + 1))

LEMMA TookStep ==
  ASSUME DocInv, NEW f, Surv(f), NEW c \in Client, NEW s, s = client[c], s.rev < Len(log), NEW t,
         Took(f, c, s, t), UNCHANGED <<content, log, net, edits, typed, erased, resets>>,
         client' = [client EXCEPT ![c] = t]
  PROVE  Surv(f)'
<1>1. /\ t \in Sync /\ t.rev = s.rev + 1 /\ t.clientSeq = s.clientSeq
      /\ t.seq = 0 \/ t.seq = s.clientSeq
      /\ HeldMarked(log, f, erased, c, t)
  BY DEF Took
<1>2. s.rev \in Nat /\ s.rev \in 0 .. Len(log)
  BY Numbers
<1>3. client'[c] = t /\ \A d \in Client : d # c => client'[d] = client[d]
  BY DEF DocInv
<1>4. LogMarked(log, f, erased) /\ DOMAIN f \cap Range(InitialText) = {}
  BY DEF Surv, MarksOK
<1>5. ASSUME NEW d \in Client
      PROVE  /\ HeldMarked(log, f, erased, d, client'[d]) /\ client'[d].clientSeq \in Nat
             /\ client'[d].seq = 0 \/ client'[d].seq = client'[d].clientSeq
             /\ \A k \in 1 .. Len(log) : log[k].client = d =>
                                           log[k].seq <= client'[d].clientSeq
  <2>1. /\ HeldMarked(log, f, erased, d, client[d]) /\ client[d].clientSeq \in Nat
        /\ client[d].seq = 0 \/ client[d].seq = client[d].clientSeq
        /\ \A k \in 1 .. Len(log) : log[k].client = d => log[k].seq \in 1 .. client[d].clientSeq
    BY Numbers DEF Surv
  <2>2. \A k \in 1 .. Len(log) : log[k].client = d => log[k].seq <= client[d].clientSeq
    BY <2>1
  <2>3. CASE d = c
    BY <1>1, <1>3, <2>1, <2>2, <2>3
  <2>4. CASE d # c
    BY <1>3, <2>1, <2>2, <2>4
  <2>5. QED
    BY <2>3, <2>4
<1>6. ASSUME resets = 0
      PROVE  /\ PostedOn(c, t, net) /\ ToldOn(f, f, erased, s, t)
             /\ CutOn(erased, client', s, t)
  <2>1. Posted(log, client, net)
    BY <1>6 DEF Surv
  <2>2. ASSUME NEW r \in Request, <<c, r>> \in net
        PROVE  Logged(log, c, r.seq) \/ (Dirty(t) /\ t.seq = r.seq)
    <3>1. Logged(log, c, r.seq) \/ (Dirty(s) /\ s.seq = r.seq)
      BY <2>1, <2>2 DEF Posted
    <3>2. QED
      BY <3>1 DEF Took
  <2>3. ToldOn(f, f, erased, s, t)
    BY DEF ToldOn, Took
  <2>4. ASSUME NEW n \in erased, Gone(log, content, client, n)
        PROVE  Gone(log, content, client', n)
    <3>1. SUFFICES ASSUME NEW d \in Client
                   PROVE  /\ n \notin Typing(client'[d].buffer)
                          /\ n \in Typing(client'[d].outstanding) => Logged(log, d, client'[d].seq)
      BY <2>4 DEF Gone
    <3>2. /\ n \notin Typing(client[d].buffer)
          /\ n \in Typing(client[d].outstanding) => Logged(log, d, client[d].seq)
      BY <2>4 DEF Gone
    <3>3. CASE d = c
      <4>1. /\ n \notin Typing(s.buffer)
            /\ n \in Typing(s.outstanding) => Logged(log, c, s.seq)
        BY <3>2, <3>3
      <4>2. /\ n \notin Typing(t.buffer)
            /\ n \in Typing(t.outstanding) => Logged(log, c, t.seq)
        BY <4>1 DEF Took
      <4>3. QED
        BY <1>3, <3>3, <4>2
    <3>4. CASE d # c
      BY <1>3, <3>2, <3>4
    <3>5. QED
      BY <3>3, <3>4
  <2>5. ASSUME NEW n \in Erasing(log, s), n \notin Erasing(log, t)
        PROVE  Gone(log, content, client', n)
    <3>1. PICK i \in Nat, j \in Nat : i = s.rev /\ j = s.rev + 1 /\ i <= j /\ j <= Len(log)
      <4>1. Len(log) \in Nat
        BY LenProperties DEF DocInv, LogOK
      <4>2. s.rev + 1 <= Len(log) /\ s.rev + 1 \in Nat /\ s.rev <= s.rev + 1
        BY <1>2, <4>1
      <4>3. QED
        BY <1>2, <4>2
    <3>2. n \in Range(TextAt(log, i)) /\ n \notin Range(TextAt(log, j))
      BY <2>5, <3>1 DEF Took
    <3>3. PICK K : K = client'
      OBVIOUS
    <3>4. \A d \in Client : /\ HeldMarked(log, f, erased, d, K[d]) /\ K[d].clientSeq \in Nat
                            /\ K[d].seq = 0 \/ K[d].seq = K[d].clientSeq
                            /\ \A k \in 1 .. Len(log) : log[k].client = d =>
                                                          log[k].seq <= K[d].clientSeq
      BY <1>5, <3>3
    <3>5. Gone(log, content, K, n)
      BY <1>4, <3>1, <3>2, <3>4, GoneIf
    <3>6. QED
      BY <3>3, <3>5
  <2>6. CutOn(erased, client', s, t)
    BY <2>4, <2>5 DEF CutOn
  <2>7. QED
    BY <2>2, <2>3, <2>6 DEF PostedOn
<1>7. /\ MarksOK(f, edits', typed', erased') /\ resets' \in Nat /\ resets' = resets /\ Older(f, f)
      /\ erased' = erased /\ net' = net
  BY DEF Surv, Older
<1>8. HeldMarked(log, f, erased', c, t)
  BY <1>1, <1>7
<1>9. resets' = 0 => /\ resets = 0 /\ PostedOn(c, t, net')
                     /\ ToldOn(f, f, erased', s, t) /\ CutOn(erased', client', s, t)
  BY <1>6, <1>7
<1>10. UNCHANGED <<content, log>> /\ erased \subseteq erased'
  BY <1>7
<1>11. /\ \A r \in Request :
            <<c, r>> \in net' => <<c, r>> \in net \/ PostMarked(log, f, erased', c, r)
       /\ \A d \in Client, r \in Request : d # c /\ <<d, r>> \in net' => <<d, r>> \in net
  BY <1>7
<1>12. QED
  BY <1>1, <1>7, <1>8, <1>9, <1>10, <1>11, SurvStep

\* Types of the state that took it do not matter here, only what it holds.
LEMMA TookSame ==
  ASSUME NEW f, NEW c, NEW s, NEW u, Took(f, c, s, u), NEW t \in Sync, SameEdits(u, t)
  PROVE  Took(f, c, s, t)
<1>1. /\ t.rev = u.rev /\ t.clientSeq = u.clientSeq /\ t.seq = u.seq
      /\ t.outstanding = u.outstanding /\ t.buffer = u.buffer
  BY DEF SameEdits
<1>2. /\ HeldMarked(log, f, erased, c, t) /\ Erasing(log, t) = Erasing(log, u)
      /\ (Dirty(t) <=> Dirty(u))
  BY SameHeldMarked DEF Took
<1>3. QED
  BY <1>1, <1>2 DEF Took

LEMMA AckTakes ==
  ASSUME DocInv, NEW f, Surv(f), NEW c \in Client, NEW s, s = client[c], s.rev < Len(log),
         log[s.rev + 1].client = c, log[s.rev + 1].seq = s.seq, Dirty(s)
  PROVE  Took(f, c, s, WithAck(s))
<1>1. /\ s \in Sync /\ s.clientSeq \in Nat /\ s.rev \in Nat /\ s.rev \in 0 .. Len(log)
      /\ s.seq = 0 \/ (s.seq = s.clientSeq /\ Nr(s) = s.seq)
  BY Numbers
<1>2. PICK k \in 1 .. Len(log) : k = s.rev + 1 /\ k - 1 = s.rev /\ k > s.rev
  <2>1. PICK i \in Nat, n \in Nat : i = s.rev /\ n = Len(log) /\ i < n
    BY <1>1, LenProperties DEF DocInv, LogOK
  <2>2. i + 1 \in 1 .. n /\ (i + 1) - 1 = i /\ i + 1 > i
    BY <2>1
  <2>3. QED
    BY <2>1, <2>2
<1>3. s.seq # 0 /\ s.seq = s.clientSeq /\ Nr(s) = s.clientSeq
  <2>1. log[k].seq \in Nat \ {0}
    BY LogEntry
  <2>2. QED
    BY <1>1, <1>2, <2>1
<1>4. PICK t : t = WithAck(s)
  OBVIOUS
<1>5. /\ t \in Sync /\ t.text = s.text /\ t.rev = k /\ t.outstanding = s.buffer
      /\ t.buffer = None /\ t.seq = 0 /\ t.clientSeq = s.clientSeq
  <2>1. k \in Nat /\ s.rev + 1 = k /\ s.buffer \in Held
    BY <1>1, <1>2 DEF Sync
  <2>2. t = [s EXCEPT !.rev = k, !.outstanding = s.buffer, !.buffer = None, !.seq = 0]
    BY <1>4, <2>1 DEF WithAck
  <2>3. QED
    BY <1>1, <2>1, <2>2, NoneHeld DEF Sync
<1>6. /\ LogMarked(log, f, erased) /\ HeldMarked(log, f, erased, c, s)
  BY DEF Surv
<1>7. PICK m : /\ HoldsEdits(erased, s.outstanding, TextAt(log, s.rev), m)
               /\ HoldsEdits(erased, s.buffer, m, s.text)
  BY <1>6 DEF HeldMarked
<1>8. PICK op : s.outstanding = <<op>> /\ Edits(erased, op, TextAt(log, s.rev), m)
  BY <1>7 DEF HoldsEdits, Dirty
<1>9. log[k].ops = normalizeOp(op)
  <2>1. EditsOK(log, edits, c, s) /\ log \in Seq(Entry)
    BY DEF DocInv, LogOK
  <2>2. log[k].ops = normalizeOp(OverAt(log, op, s.rev, s.rev))
    BY <1>2, <1>8, <2>1 DEF EditsOK, Flight
  <2>3. OverAt(log, op, s.rev, s.rev) = op
    BY <1>1, <2>1, OverStart
  <2>4. QED
    BY <2>2, <2>3
<1>10. Clean(Char, log[k].ops, TextAt(log, s.rev), m) /\ Inserted(log[k].ops) = Inserted(op)
  <2>1. Clean(Char, op, TextAt(log, s.rev), m)
    BY <1>8 DEF Edits
  <2>2. QED
    BY <1>9, <2>1, CleanNormalize
<1>11. m = TextAt(log, k)
  <2>1. m = applyOp(TextAt(log, s.rev), log[k].ops)
    BY <1>10, ActsApply DEF Clean
  <2>2. TextAt(log, k) = applyOp(TextAt(log, s.rev), log[k].ops)
    BY <1>2, LogEntry, ActsApply
  <2>3. QED
    BY <2>1, <2>2
<1>12. Edited(erased, Typing(s.buffer), m, s.text)
  BY <1>7, HeldEditsAre
<1>13. Edited(erased, Typing(s.outstanding), TextAt(log, s.rev), m)
  BY <1>7, HeldEditsAre
<1>14. Typing(s.outstanding) = Inserted(log[k].ops) /\ Typing(None) = {}
  BY <1>8, <1>10, EditsHeld DEF Typing
<1>15. HeldMarked(log, f, erased, c, t)
  <2>1. HoldsEdits(erased, None, s.text, s.text)
    BY <1>12 DEF Edited, HoldsEdits
  <2>2. Nr(t) = Nr(s) + 1
    BY <1>3, <1>5 DEF Nr
  <2>3. Marked(f, Typing(t.outstanding), <<c, Nr(t)>>)
    BY <1>5, <1>6, <2>2 DEF HeldMarked
  <2>4. Marked(f, Typing(t.buffer), <<c, Nr(t) + 1>>)
    BY <1>5, <1>14 DEF Marked
  <2>5. \A j \in 1 .. Len(log) : log[j].seq # t.seq
    BY <1>5, LogEntry
  <2>6. QED
    BY <1>5, <1>7, <1>11, <2>1, <2>3, <2>4, <2>5 DEF HeldMarked
<1>16. Logged(log, c, s.seq)
  BY <1>2 DEF Logged
<1>17. ASSUME NEW n \in Erasing(log, s), n \notin Erasing(log, t)
       PROVE  n \in Range(TextAt(log, s.rev)) \ Range(TextAt(log, s.rev + 1))
  <2>1. n \notin Range(s.text) /\ n \notin Range(m)
    BY <1>5, <1>11, <1>17 DEF Erasing
  <2>2. n \in Range(TextAt(log, s.rev)) \cup Typing(s.outstanding)
    BY <1>17 DEF Erasing
  <2>3. n \notin Typing(s.outstanding)
    BY <1>13, <2>1 DEF Edited
  <2>4. QED
    BY <1>2, <1>11, <2>1, <2>2, <2>3
<1>18. \A n \in Typing(s.outstanding) \cup Typing(s.buffer) :
         \/ n \in Typing(t.outstanding) \cup Typing(t.buffer)
         \/ \E j \in 1 .. Len(log) : n \in Inserted(log[j].ops)
  BY <1>5, <1>14
<1>19. Took(f, c, s, t)
  BY <1>2, <1>5, <1>14, <1>15, <1>16, <1>17, <1>18 DEF Took
<1>20. QED
  BY <1>4, <1>19

LEMMA RemoteTakes ==
  ASSUME DocInv, NEW f, Surv(f), NEW c \in Client, NEW s, s = client[c], s.rev < Len(log),
         NEW d, d = log[s.rev + 1], ~(d.client = c /\ d.seq = s.seq /\ Dirty(s)),
         WithRemote(s, d.ops) \in Sync
  PROVE  Took(f, c, s, WithRemote(s, d.ops))
<1>1. /\ s \in Sync /\ s.clientSeq \in Nat /\ s.rev \in Nat /\ s.rev \in 0 .. Len(log)
      /\ s.clientSeq <= Nr(s) /\ Nr(s) \in Nat
      /\ s.seq = 0 \/ (s.seq = s.clientSeq /\ Nr(s) = s.seq)
      /\ \A k \in 1 .. Len(log) :
           log[k].client = c => log[k].seq \in 1 .. s.clientSeq /\ log[k].seq # Nr(s) + 1
  BY Numbers
<1>2. PICK k \in 1 .. Len(log) : k = s.rev + 1 /\ k - 1 = s.rev /\ k > s.rev /\ d = log[k]
  <2>1. Len(log) \in Nat
    BY LenProperties DEF DocInv, LogOK
  <2>2. QED
    BY <1>1, <2>1
<1>3. LogMarked(log, f, erased) /\ HeldMarked(log, f, erased, c, s)
  BY DEF Surv
<1>4. /\ Edits(erased, d.ops, TextAt(log, s.rev), TextAt(log, k))
      /\ Marked(f, Inserted(d.ops), <<d.client, d.seq>>)
  BY <1>2, <1>3 DEF LogMarked
<1>5. PICK m : /\ HoldsEdits(erased, s.outstanding, TextAt(log, s.rev), m)
               /\ HoldsEdits(erased, s.buffer, m, s.text)
  BY <1>3 DEF HeldMarked
<1>6. Inserted(d.ops) \cap Typing(s.outstanding) = {}
  <2>1. CASE Dirty(s)
    <3>1. ~(d.client = c /\ d.seq = Nr(s))
      <4>1. d.client = c => d.seq \in 1 .. s.clientSeq
        BY <1>1, <1>2
      <4>2. s.seq = 0 => Nr(s) = s.clientSeq + 1
        BY DEF Nr
      <4>3. QED
        BY <1>1, <2>1, <4>1, <4>2
    <3>2. QED
      BY <1>3, <1>4, <3>1, MarksApart DEF HeldMarked
  <2>2. CASE ~Dirty(s)
    BY <2>2 DEF Dirty, Typing
  <2>3. QED
    BY <2>1, <2>2
<1>7. Inserted(d.ops) \cap Typing(s.buffer) = {}
  <2>1. ~(d.client = c /\ d.seq = Nr(s) + 1)
    BY <1>1, <1>2
  <2>2. QED
    BY <1>3, <1>4, <2>1, MarksApart DEF HeldMarked
<1>8. PICK p1 : p1 = Past(d.ops, s.outstanding)
  OBVIOUS
<1>9. PICK m1 : PastEditsAs(erased, d.ops, s.outstanding, p1, TextAt(log, k), m, m1)
  BY <1>4, <1>5, <1>6, <1>8, PastEdits
<1>10. /\ Edits(erased, p1[1], m, m1) /\ Inserted(p1[1]) = Inserted(d.ops)
       /\ HoldsEdits(erased, p1[2], TextAt(log, k), m1) /\ Typing(p1[2]) = Typing(s.outstanding)
  BY <1>9 DEF PastEditsAs
<1>11. PICK p2 : p2 = Past(p1[1], s.buffer)
  OBVIOUS
<1>12. PICK m2 : PastEditsAs(erased, p1[1], s.buffer, p2, m1, s.text, m2)
  <2>1. Inserted(p1[1]) \cap Typing(s.buffer) = {}
    BY <1>7, <1>10
  <2>2. QED
    BY <1>5, <1>10, <1>11, <2>1, PastEdits
<1>13. /\ Edits(erased, p2[1], s.text, m2) /\ Inserted(p2[1]) = Inserted(d.ops)
       /\ HoldsEdits(erased, p2[2], m1, m2) /\ Typing(p2[2]) = Typing(s.buffer)
  BY <1>10, <1>12 DEF PastEditsAs
<1>14. m2 = applyOp(s.text, p2[1]) /\ Edited(erased, Inserted(d.ops), s.text, m2)
  BY <1>13, EditsAre
<1>15. PICK t : t = WithRemote(s, d.ops)
  OBVIOUS
<1>16. /\ t \in Sync /\ t.text = m2 /\ t.rev = k /\ t.outstanding = p1[2] /\ t.buffer = p2[2]
       /\ t.seq = s.seq /\ t.clientSeq = s.clientSeq
  <2>1. t = [s EXCEPT !.rev = @ + 1, !.outstanding = p1[2], !.buffer = p2[2],
                      !.text = applyOp(@, p2[1])]
    BY <1>8, <1>11, <1>15 DEF WithRemote
  <2>2. QED
    BY <1>1, <1>2, <1>14, <1>15, <2>1 DEF Sync
<1>17. Dirty(t) <=> Dirty(s)
  <2>1. \A x : <<x>> # None
    BY DEF None
  <2>2. s.outstanding = None <=> p1[2] = None
    BY <1>8, <2>1 DEF Past
  <2>3. QED
    BY <1>16, <2>2 DEF Dirty
<1>18. HeldMarked(log, f, erased, c, t)
  <2>1. Nr(t) = Nr(s)
    BY <1>16 DEF Nr
  <2>2. /\ Marked(f, Typing(t.outstanding), <<c, Nr(t)>>)
        /\ Marked(f, Typing(t.buffer), <<c, Nr(t) + 1>>)
    BY <1>3, <1>10, <1>13, <1>16, <2>1 DEF HeldMarked
  <2>3. ASSUME NEW j \in 1 .. Len(log), log[j].client = c, Dirty(t), log[j].seq = t.seq
        PROVE  j > t.rev
    <3>1. j > s.rev
      BY <1>3, <1>16, <1>17, <2>3 DEF HeldMarked
    <3>2. j # k
      BY <1>2, <1>16, <1>17, <2>3
    <3>3. QED
      BY <1>1, <1>2, <1>16, <3>1, <3>2
  <2>4. QED
    BY <1>10, <1>13, <1>16, <2>2, <2>3 DEF HeldMarked
<1>19. ASSUME NEW n \in Erasing(log, s), n \notin Erasing(log, t)
       PROVE  n \in Range(TextAt(log, s.rev)) \ Range(TextAt(log, s.rev + 1))
  <2>1. n \notin Range(s.text) /\ n \in Range(TextAt(log, s.rev)) \cup Typing(s.outstanding)
    BY <1>19 DEF Erasing
  <2>2. n \notin Inserted(d.ops)
    <3>1. Edited(erased, Inserted(d.ops), TextAt(log, s.rev), TextAt(log, k))
      BY <1>4, EditsAre
    <3>2. QED
      BY <1>6, <2>1, <3>1 DEF Edited
  <2>3. n \notin Range(t.text)
    BY <1>14, <1>16, <2>1, <2>2 DEF Edited
  <2>4. n \notin Range(TextAt(log, k)) /\ n \notin Typing(s.outstanding)
    BY <1>10, <1>16, <1>19, <2>3 DEF Erasing
  <2>5. QED
    BY <1>2, <2>1, <2>4
<1>20. Took(f, c, s, t)
  BY <1>1, <1>2, <1>10, <1>13, <1>16, <1>17, <1>18, <1>19 DEF Took
<1>21. QED
  BY <1>15, <1>20

LEMMA DeliverSurv ==
  ASSUME DocInv, NEW f, Surv(f), NEW c \in Client, Deliver(c)
  PROVE  Surv(f)'
<1>1. PICK s : s = client[c] /\ s \in Sync
  BY DEF DocInv
<1>2. PICK d : d = log[s.rev + 1]
  OBVIOUS
<1>3. s.rev < Len(log) /\ UNCHANGED <<content, log, net, edits, typed, erased, resets>>
  BY <1>1 DEF Deliver, Rev
<1>4. \E t : Took(f, c, s, t) /\ client' = [client EXCEPT ![c] = t]
  <2>1. CASE d.client = c /\ d.seq = s.seq /\ Dirty(s)
    <3>1. PICK u : u = WithAck(s) /\ Took(f, c, s, u)
      BY <1>1, <1>2, <1>3, <2>1, AckTakes
    <3>2. PICK t : t = (IF Dirty(u) THEN ScheduleSend(u) ELSE u)
      OBVIOUS
    <3>3. t \in Sync /\ SameEdits(u, t)
      <4>1. u \in Sync /\ SameEdits(u, u)
        BY <3>1 DEF Took, SameEdits
      <4>2. QED
        BY <3>2, <4>1, ScheduleSendIs
    <3>4. Took(f, c, s, t)
      BY <3>1, <3>3, TookSame
    <3>5. client' = [client EXCEPT ![c] = t]
      BY <1>1, <1>2, <2>1, <3>1, <3>2 DEF Deliver
    <3>6. QED
      BY <3>4, <3>5
  <2>2. CASE ~(d.client = c /\ d.seq = s.seq /\ Dirty(s))
    <3>1. WithRemote(s, d.ops) \in Sync
      BY <1>1, <1>2, <1>3, <2>2, RemoteIs
    <3>2. Took(f, c, s, WithRemote(s, d.ops))
      BY <1>1, <1>2, <1>3, <2>2, <3>1, RemoteTakes
    <3>3. client' = [client EXCEPT ![c] = WithRemote(s, d.ops)]
      BY <1>1, <1>2, <2>2 DEF Deliver
    <3>4. QED
      BY <3>2, <3>3
  <2>3. QED
    BY <2>1, <2>2
<1>5. QED
  BY <1>1, <1>3, <1>4, TookStep
\* A snapshot drops what the client held: from then on edits may be lost, but
\* none is there twice.
LEMMA ResetSurv ==
  ASSUME DocInv, NEW f, Surv(f), NEW c \in Client, NEW rev \in client[c].rev .. Rev,
         Reset(c, rev)
  PROVE  Surv(f)'
<1>1. PICK s : s = client[c] /\ s \in Sync /\ s.rev \in Nat /\ s.clientSeq \in Nat
  BY Numbers
<1>2. rev \in Nat /\ rev \in 0 .. Len(log)
  <2>1. Len(log) \in Nat
    BY LenProperties DEF DocInv, LogOK
  <2>2. QED
    BY <1>1, <2>1 DEF Rev
<1>3. LogMarked(log, f, erased) /\ DOMAIN f \cap Range(InitialText) = {} /\ log \in Seq(Entry)
  BY DEF Surv, MarksOK, DocInv, LogOK
<1>4. TextAt(log, rev) \in Seq(Char) /\ IsInjective(TextAt(log, rev))
  <2>1. History(log, f, erased)
    BY <1>3 DEF History
  <2>2. QED
    BY <1>2, <2>1, TextRange DEF TextIs
<1>5. PICK t : t = [s EXCEPT !.text = TextAt(log, rev), !.rev = rev, !.outstanding = None,
                             !.buffer = None, !.seq = 0, !.timer = FALSE]
  OBVIOUS
<1>6. /\ t \in Sync /\ t.text = TextAt(log, rev) /\ t.rev = rev /\ t.outstanding = None
      /\ t.buffer = None /\ t.seq = 0
  BY <1>1, <1>2, <1>4, <1>5, NoneHeld DEF Sync
<1>7. HeldMarked(log, f, erased, c, t)
  <2>1. HoldsEdits(erased, None, t.text, t.text)
    BY <1>4, <1>6 DEF HoldsEdits
  <2>2. Typing(t.outstanding) = {} /\ Typing(t.buffer) = {} /\ ~Dirty(t)
    BY <1>6 DEF Typing, Dirty
  <2>3. QED
    BY <1>6, <2>1, <2>2 DEF HeldMarked, Marked
<1>8. client' = [client EXCEPT ![c] = t]
  BY <1>1, <1>5, ContentIs DEF Reset
<1>9. /\ UNCHANGED <<content, log>> /\ net' = net /\ edits' = edits /\ typed' = typed
      /\ erased' = erased /\ resets' = resets + 1
  BY DEF Reset
<1>10. resets' \in Nat /\ resets' # 0 /\ MarksOK(f, edits', typed', erased') /\ Older(f, f)
  BY <1>9 DEF Surv, Older
<1>11. HeldMarked(log, f, erased', c, t) /\ erased \subseteq erased'
  BY <1>7, <1>9
<1>12. /\ \A r \in Request :
            <<c, r>> \in net' => <<c, r>> \in net \/ PostMarked(log, f, erased', c, r)
       /\ \A d \in Client, r \in Request : d # c /\ <<d, r>> \in net' => <<d, r>> \in net
  BY <1>9
<1>13. QED
  BY <1>1, <1>6, <1>8, <1>9, <1>10, <1>11, <1>12, SurvStep

----------------------------------------------------------------------------
\* The server commits, or refuses, what arrives.

\* The log grows by a request that was not in it.
Commits(L, f, er, c, r, e) ==
  /\ e.ops = normalizeOp(OverAt(L, r.ops[1], r.baseRev, Len(L))) /\ e.client = c /\ e.seq = r.seq
  /\ e \in Entry /\ ~Logged(L, c, r.seq) /\ PostMarked(L, f, er, c, r)
  /\ r.baseRev \in Nat /\ r.baseRev <= Len(L)

LEMMA CommitMarked ==
  ASSUME NEW L, NEW f, NEW er, History(L, f, er), NEW c, NEW r, NEW e, Commits(L, f, er, c, r, e),
         NEW n, n = Len(L)
  PROVE  LogMarked(Append(L, e), f, er) /\ Inserted(e.ops) = Inserted(r.ops[1])
<1>1. PICK M : M = Append(L, e) /\ GrownAs(L, e, M, n) /\ n \in Nat /\ L \in Seq(Entry)
  BY LogGrows, LenProperties DEF Commits, History
<1>2. /\ Len(M) = n + 1 /\ M[n + 1] = e /\ M \in Seq(Entry) /\ \A k \in 1 .. n : M[k] = L[k]
      /\ \A k \in 0 .. n : TextAt(M, k) = TextAt(L, k)
  BY <1>1 DEF GrownAs
<1>3. PICK b, o, mark, z : /\ b = r.baseRev /\ o = r.ops[1] /\ mark = <<c, r.seq>>
                           /\ b \in Nat /\ b <= Len(L) /\ Edits(er, o, TextAt(L, b), z)
  BY DEF Commits, PostMarked
<1>4. PICK p : p = OverAt(L, o, b, n)
  OBVIOUS
<1>5. OverEdits(L, er, o, b, n)
  <2>1. Marked(f, Inserted(o), mark)
    BY <1>3 DEF Commits, PostMarked
  <2>2. \A k \in 1 .. n : k > b => <<L[k].client, L[k].seq>> # mark
    BY <1>1, <1>3 DEF Commits, Logged
  <2>3. b <= n /\ n <= Len(L)
    BY <1>1, <1>3
  <2>4. QED
    BY <1>1, <1>3, <2>1, <2>2, <2>3, OverClean
<1>6. PICK y : Edits(er, p, TextAt(L, n), y)
  BY <1>4, <1>5 DEF OverEdits
<1>7. Clean(Char, e.ops, TextAt(L, n), y) /\ Inserted(e.ops) = Inserted(p)
  <2>1. e.ops = normalizeOp(p)
    BY <1>3, <1>4 DEF Commits
  <2>2. Clean(Char, p, TextAt(L, n), y)
    BY <1>6 DEF Edits
  <2>3. QED
    BY <2>1, <2>2, CleanNormalize
<1>8. Inserted(e.ops) = Inserted(r.ops[1])
  BY <1>3, <1>4, <1>5, <1>7 DEF OverEdits
<1>9. Edits(er, e.ops, TextAt(M, n), TextAt(M, n + 1))
  <2>1. y = applyOp(TextAt(L, n), e.ops)
    BY <1>7, ActsApply DEF Clean
  <2>2. TextAt(M, n + 1) = applyOp(TextAt(M, n), e.ops) /\ TextAt(M, n) = TextAt(L, n)
    <3>1. TextAt(M, n + 1) = applyOp(TextAt(M, n), M[n + 1].ops)
      <4>1. M \in Seq(Entry) /\ n \in Nat /\ n + 1 <= Len(M)
        BY <1>1, <1>2
      <4>2. QED
        BY <4>1, TextStep
    <3>2. n \in 0 .. n
      BY <1>1
    <3>3. QED
      BY <1>2, <3>1, <3>2
  <2>3. QED
    BY <1>6, <1>7, <2>1, <2>2 DEF Edits
<1>10. ASSUME NEW k \in 1 .. Len(M)
       PROVE  /\ Edits(er, M[k].ops, TextAt(M, k - 1), TextAt(M, k))
              /\ Marked(f, Inserted(M[k].ops), <<M[k].client, M[k].seq>>)
  <2>1. CASE k \in 1 .. n
    <3>1. k \in 0 .. n /\ k - 1 \in 0 .. n /\ k \in 1 .. Len(L)
      BY <1>1, <2>1
    <3>2. M[k] = L[k] /\ TextAt(M, k - 1) = TextAt(L, k - 1) /\ TextAt(M, k) = TextAt(L, k)
      BY <1>2, <2>1, <3>1
    <3>3. /\ Edits(er, L[k].ops, TextAt(L, k - 1), TextAt(L, k))
          /\ Marked(f, Inserted(L[k].ops), <<L[k].client, L[k].seq>>)
      BY <3>1 DEF History, LogMarked
    <3>4. QED
      BY <3>2, <3>3
  <2>2. CASE k = n + 1
    <3>1. M[k] = e /\ k - 1 = n
      BY <1>1, <1>2, <2>2
    <3>2. Marked(f, Inserted(e.ops), <<e.client, e.seq>>)
      BY <1>8 DEF Commits, PostMarked
    <3>3. QED
      BY <1>9, <2>2, <3>1, <3>2
  <2>3. k \in 1 .. n \/ k = n + 1
    BY <1>1, <1>2
  <2>4. QED
    BY <2>1, <2>2, <2>3
<1>11. ASSUME NEW k \in 1 .. Len(M), NEW l \in 1 .. Len(M), M[k].client = M[l].client,
              M[k].seq = M[l].seq
       PROVE  k = l
  <2>1. \A j \in 1 .. n : ~(M[j].client = e.client /\ M[j].seq = e.seq)
    BY <1>2 DEF Commits, Logged
  <2>2. (k \in 1 .. n \/ k = n + 1) /\ (l \in 1 .. n \/ l = n + 1)
    BY <1>1, <1>2
  <2>3. CASE k \in 1 .. n /\ l \in 1 .. n
    <3>1. L[k].client = L[l].client /\ L[k].seq = L[l].seq
      BY <1>2, <1>11, <2>3
    <3>2. QED
      BY <2>3, <3>1 DEF History, LogMarked
  <2>4. CASE k = n + 1 \/ l = n + 1
    BY <1>2, <1>11, <2>1, <2>2, <2>4
  <2>5. QED
    BY <2>2, <2>3, <2>4
<1>12. QED
  BY <1>1, <1>8, <1>10, <1>11 DEF LogMarked

LEMMA GivenNumbers ==
  ASSUME DocInv, NEW c \in Client, NEW r \in Request, <<c, r>> \in net
  PROVE  r.seq \in 1 .. MaxEdits
<1>1. PICK s : s = client[c] /\ s \in Sync /\ EditsOK(log, edits, c, s) /\ PostOK(log, c, s, r)
  BY DEF DocInv
<1>2. s.clientSeq \in Nat /\ edits \in 0 .. MaxEdits /\ MaxEdits \in Nat
  BY <1>1, DocAssumption DEF Sync, DocInv
<1>3. s.clientSeq <= edits
  <2>1. PICK x \in {0, 1} : x = IF Dirty(s) /\ s.seq = 0 THEN 1 ELSE 0
    OBVIOUS
  <2>2. PICK y \in {0, 1} : y = IF s.buffer # None THEN 1 ELSE 0
    OBVIOUS
  <2>3. s.clientSeq + x + y <= edits
    BY <1>1, <2>1, <2>2 DEF EditsOK, Numbered
  <2>4. QED
    BY <1>2, <2>3
<1>4. r.seq \in 1 .. s.clientSeq
  BY <1>1 DEF PostOK
<1>5. QED
  BY <1>2, <1>3, <1>4

\* A request that was not committed is of what its client has in flight.
LEMMA PostedTypes ==
  ASSUME DocInv, NEW f, Surv(f), Posted(log, client, net), NEW c \in Client, NEW r \in Request,
         <<c, r>> \in net, ~Logged(log, c, r.seq)
  PROVE  client[c].seq = r.seq /\ Typing(client[c].outstanding) = Inserted(r.ops[1])
<1>1. PICK s : s = client[c] /\ s \in Sync /\ s.rev \in Nat /\ s.rev \in 0 .. Len(log)
  BY Numbers
<1>2. Dirty(s) /\ s.seq = r.seq
  BY <1>1 DEF Posted
<1>3. PostOK(log, c, s, r) /\ PostMarked(log, f, erased, c, r)
  BY <1>1 DEF DocInv, Surv
<1>4. PICK b, o, mark, z, i : /\ b = r.baseRev /\ o = r.ops[1] /\ mark = <<c, r.seq>> /\ b \in Nat
                              /\ i = s.rev /\ i \in Nat /\ b <= i /\ i <= Len(log)
                              /\ Edits(erased, o, TextAt(log, b), z)
                              /\ Marked(f, Inserted(o), mark)
  <2>1. r.baseRev \in Nat /\ r.baseRev <= s.rev /\ s.rev <= Len(log)
    BY <1>1, <1>2, <1>3 DEF PostOK, Request
  <2>2. QED
    BY <1>1, <1>3, <2>1 DEF PostMarked
<1>5. s.outstanding[1] = OverAt(log, o, b, i)
  BY <1>2, <1>3, <1>4 DEF PostOK
<1>6. OverEdits(log, erased, o, b, i)
  <2>1. History(log, f, erased)
    BY DEF Surv, MarksOK, History, DocInv, LogOK
  <2>2. \A k \in 1 .. i : k > b => <<log[k].client, log[k].seq>> # mark
    <3>1. \A k \in 1 .. i : k \in 1 .. Len(log)
      BY <1>1, <1>4
    <3>2. QED
      BY <1>4, <3>1 DEF Logged
  <2>3. QED
    BY <1>4, <2>1, <2>2, OverClean
<1>7. QED
  BY <1>1, <1>2, <1>4, <1>5, <1>6 DEF OverEdits, Typing, Dirty

LEMMA ArriveSurv ==
  ASSUME DocInv, NEW f, Surv(f), Arrive
  PROVE  Surv(f)'
<1>1. PICK c \in Client, r \in Request : <<c, r>> \in net /\ ApplyDocOp(c, r)
  BY DEF Arrive, DocInv
<1>2. /\ log \in Seq(Entry) /\ client \in [Client -> Sync] /\ net' \subseteq net
      /\ UNCHANGED <<edits, typed, erased, resets>>
  BY <1>1 DEF DocInv, LogOK, ApplyDocOp
<1>3. /\ MarksOK(f, edits, typed, erased) /\ LogMarked(log, f, erased)
      /\ \A d \in Client : HeldMarked(log, f, erased, d, client[d])
      /\ \A d \in Client, q \in Request : <<d, q>> \in net => PostMarked(log, f, erased, d, q)
      /\ resets \in Nat
  BY DEF Surv
<1>4. \A d \in Client : SameEdits(client[d], client'[d])
  <2>1. PICK s : s = client[c] /\ s \in Sync
    BY <1>2
  <2>2. client' = [client EXCEPT ![c] = [s EXCEPT !.handled = @ \/ s.request = r]]
    BY <1>1, <1>2, <2>1 DEF ApplyDocOp
  <2>3. PICK t : t = [s EXCEPT !.handled = @ \/ s.request = r]
    OBVIOUS
  <2>4. SameEdits(s, t)
    BY <2>1, <2>3 DEF Sync, SameEdits
  <2>5. \A x : SameEdits(x, x)
    BY DEF SameEdits
  <2>6. QED
    BY <1>2, <2>1, <2>2, <2>3, <2>4, <2>5
<1>5. CASE Committed(c, r) \/ Refuses(r)
  <2>1. log' = log /\ content' = content
    BY <1>1, <1>5 DEF ApplyDocOp
  <2>2. \A d \in Client : /\ HeldMarked(log, f, erased, d, client'[d])
                          /\ Erasing(log, client'[d]) = Erasing(log, client[d])
                          /\ (Dirty(client'[d]) <=> Dirty(client[d]))
                          /\ client'[d].seq = client[d].seq
                          /\ client'[d].outstanding = client[d].outstanding
                          /\ client'[d].buffer = client[d].buffer
    BY <1>3, <1>4, SameHeldMarked DEF SameEdits
  <2>3. ASSUME resets = 0
        PROVE  /\ Posted(log, client', net') /\ Told(f, log, client', erased)
               /\ Cut(log, content, client', erased)
    <3>1. /\ Posted(log, client, net) /\ Told(f, log, client, erased)
          /\ Cut(log, content, client, erased)
      BY <2>3 DEF Surv
    <3>2. Posted(log, client', net')
      BY <1>2, <2>2, <3>1 DEF Posted
    <3>3. Told(f, log, client', erased)
      BY <2>2, <3>1 DEF Told
    <3>4. \A n : Gone(log, content, client, n) => Gone(log, content, client', n)
      BY <2>2 DEF Gone
    <3>5. Cut(log, content, client', erased)
      BY <2>2, <3>1, <3>4 DEF Cut
    <3>6. QED
      BY <3>2, <3>3, <3>5
  <2>4. QED
    BY <1>2, <1>3, <2>1, <2>2, <2>3 DEF Surv
<1>6. CASE ~(Committed(c, r) \/ Refuses(r))
  <2>1. PICK n \in Nat : n = Len(log)
    BY <1>2, LenProperties
  <2>2. PICK s : s = client[c] /\ s \in Sync /\ EditsOK(log, edits, c, s) /\ PostOK(log, c, s, r)
    BY <1>1, <1>2 DEF DocInv
  <2>3. PICK e : e = [ops |-> Rebased(r), client |-> c, seq |-> r.seq]
    OBVIOUS
  <2>4. log' = Append(log, e) /\ content' = applyOp(content, e.ops)
    BY <1>1, <1>6, <2>3 DEF ApplyDocOp
  <2>5. ~Logged(log, c, r.seq)
    <3>1. ~Committed(c, r) /\ DOMAIN log = 1 .. Len(log)
      BY <1>2, <1>6, LenProperties
    <3>2. QED
      BY <3>1 DEF Committed, Logged
  <2>6. e \in Entry
    <3>1. Rebased(r) \in Operation(Char)
      <4>1. Rebased(r) = normalizeOp(OverAt(log, r.ops[1], r.baseRev, Len(log)))
        BY RebasedIs DEF Rev
      <4>2. LogOK(log, content)
        BY DEF DocInv
      <4>3. QED
        BY <2>2, <4>1, <4>2, CommitActs
    <3>2. r.seq \in 1 .. MaxEdits
      BY <1>1, <2>2, GivenNumbers
    <3>3. QED
      BY <2>3, <3>1, <3>2 DEF Entry
  <2>7. Commits(log, f, erased, c, r, e)
    <3>1. e.ops = normalizeOp(OverAt(log, r.ops[1], r.baseRev, Len(log)))
      BY <2>3, RebasedIs DEF Rev
    <3>2. e.client = c /\ e.seq = r.seq
      BY <2>3
    <3>3. r.baseRev \in Nat /\ r.baseRev <= Len(log) /\ PostMarked(log, f, erased, c, r)
      BY <1>1, <1>3, <2>2 DEF PostOK, Request
    <3>4. QED
      BY <2>5, <2>6, <3>1, <3>2, <3>3 DEF Commits
  <2>8. PICK M : M = log'
    OBVIOUS
  <2>9. LogMarked(M, f, erased) /\ Inserted(e.ops) = Inserted(r.ops[1])
    <3>1. History(log, f, erased)
      BY <1>2, <1>3 DEF History, MarksOK
    <3>2. QED
      BY <2>4, <2>7, <2>8, <3>1, CommitMarked
  <2>10. /\ Len(M) = n + 1 /\ M[n + 1] = e /\ \A k \in 1 .. n : M[k] = log[k]
         /\ \A k \in 0 .. n : TextAt(M, k) = TextAt(log, k)
    <3>1. GrownAs(log, e, Append(log, e), n)
      BY <1>2, <2>1, <2>6, LogGrows
    <3>2. QED
      BY <2>4, <2>8, <3>1 DEF GrownAs
  <2>11. \A d \in Client : client[d].rev \in 0 .. n
    BY <2>1, Numbers
  <2>12. /\ \A d \in Client : /\ Dirty(client'[d]) <=> Dirty(client[d])
                              /\ client'[d].rev = client[d].rev
                              /\ client'[d].seq = client[d].seq
                              /\ client'[d].text = client[d].text
                              /\ client'[d].outstanding = client[d].outstanding
                              /\ client'[d].buffer = client[d].buffer
    BY <1>4 DEF SameEdits, Dirty
  <2>13. \A d, q : Logged(log, d, q) => Logged(M, d, q)
    BY <2>1, <2>10 DEF Logged
  <2>14. ASSUME NEW d \in Client
         PROVE  HeldMarked(M, f, erased, d, client'[d])
    <3>1. HeldMarked(log, f, erased, d, client[d])
      BY <1>3
    <3>2. ASSUME NEW k \in 1 .. Len(M), M[k].client = d, Dirty(client[d]),
                 M[k].seq = client[d].seq
          PROVE  k > client[d].rev
      <4>1. CASE k \in 1 .. n
        BY <2>1, <2>10, <3>1, <3>2, <4>1 DEF HeldMarked
      <4>2. CASE k = n + 1
        BY <2>1, <2>11, <4>2
      <4>3. QED
        BY <2>1, <2>10, <4>1, <4>2
    <3>3. TextAt(M, client[d].rev) = TextAt(log, client[d].rev)
      BY <2>10, <2>11
    <3>4. HeldMarked(M, f, erased, d, client[d])
      BY <3>1, <3>2, <3>3 DEF HeldMarked
    <3>5. QED
      BY <1>4, <3>4, SameHeldMarked
  <2>15. ASSUME NEW d \in Client, NEW q \in Request, <<d, q>> \in net'
         PROVE  PostMarked(M, f, erased, d, q)
    <3>1. PostMarked(log, f, erased, d, q) /\ PostOK(log, d, client[d], q)
      BY <1>2, <1>3, <2>15 DEF DocInv
    <3>2. q.baseRev \in 0 .. n
      BY <2>1, <3>1 DEF PostOK, Request
    <3>3. TextAt(M, q.baseRev) = TextAt(log, q.baseRev)
      BY <2>10, <3>2
    <3>4. QED
      BY <3>1, <3>3 DEF PostMarked
  <2>16. ASSUME resets = 0
         PROVE  /\ Posted(M, client', net') /\ Told(f, M, client', erased)
                /\ Cut(M, content', client', erased)
    <3>1. /\ Posted(log, client, net) /\ Told(f, log, client, erased)
          /\ Cut(log, content, client, erased)
      BY <2>16 DEF Surv
    <3>2. Posted(M, client', net')
      BY <1>2, <2>12, <2>13, <3>1 DEF Posted
    <3>3. Told(f, M, client', erased)
      <4>1. SUFFICES ASSUME NEW x \in DOMAIN f \ erased,
                            \A d \in Client : x \notin Typing(client'[d].outstanding)
                                                        \cup Typing(client'[d].buffer)
                     PROVE  \E j \in 1 .. Len(M) : x \in Inserted(M[j].ops)
        BY DEF Told
      <4>2. \A d \in Client : x \notin Typing(client[d].outstanding) \cup Typing(client[d].buffer)
        BY <2>12, <4>1
      <4>3. PICK j \in 1 .. Len(log) : x \in Inserted(log[j].ops)
        BY <3>1, <4>2 DEF Told
      <4>4. j \in 1 .. Len(M) /\ M[j] = log[j]
        BY <2>1, <2>10
      <4>5. QED
        BY <4>3, <4>4
    <3>4. ASSUME NEW x, Gone(log, content, client, x)
          PROVE  Gone(M, content', client', x)
      <4>1. x \notin Inserted(r.ops[1])
        <5>1. SUFFICES ASSUME x \in Inserted(r.ops[1])
                       PROVE  FALSE
          OBVIOUS
        <5>2. client[c].seq = r.seq /\ Typing(client[c].outstanding) = Inserted(r.ops[1])
          BY <1>1, <2>5, <3>1, PostedTypes
        <5>3. Logged(log, c, client[c].seq)
          BY <3>4, <5>1, <5>2 DEF Gone
        <5>4. QED
          BY <2>5, <5>2, <5>3
      <4>2. x \notin Range(content')
        <5>1. Acts(Char, e.ops, content, content')
          <6>1. e.ops = normalizeOp(OverAt(log, r.ops[1], r.baseRev, Len(log)))
            BY <2>7 DEF Commits
          <6>2. LogOK(log, content)
            BY DEF DocInv
          <6>3. QED
            BY <2>2, <2>4, <6>1, <6>2, CommitActs
        <5>2. Types(e.ops, content, content')
          BY <5>1, ActsRange
        <5>3. QED
          BY <2>9, <3>4, <4>1, <5>2 DEF Types, Gone
      <4>3. QED
        BY <2>12, <2>13, <3>4, <4>2 DEF Gone
    <3>5. \A d \in Client : Erasing(M, client'[d]) = Erasing(log, client[d])
      BY <2>10, <2>11, <2>12 DEF Erasing
    <3>6. Cut(M, content', client', erased)
      BY <3>1, <3>4, <3>5 DEF Cut
    <3>7. QED
      BY <3>2, <3>3, <3>6
  <2>17. QED
    BY <1>2, <1>3, <2>8, <2>9, <2>14, <2>15, <2>16 DEF Surv
<1>7. QED
  BY <1>5, <1>6

----------------------------------------------------------------------------
\* An edit.

\* One edit types what is new, and deletes at most the character after the first p.
EditCleanAs(op, text, p, m, t, out) ==
  /\ Clean(Char, op, text, out) /\ Inserted(op) = Range(t)
  /\ Range(text) \ Range(out) = IF m = 0 THEN {} ELSE {text[p + 1]}

LEMMA EditClean ==
  ASSUME NEW text \in Seq(Char), IsInjective(text), NEW p \in Nat, NEW m \in {0, 1},
         p + m <= Len(text), NEW t \in Seq(Char), IsInjective(t), Range(t) \cap Range(text) = {}
  PROVE  \E out : EditCleanAs(EditOp(p, m, t), text, p, m, t, out)
<1>1. PICK op : op = EditOp(p, m, t)
  OBVIOUS
<1>2. m \in Nat
  OBVIOUS
<1>3. PICK x, d, e : EditAs(Char, op, text, p, m, t, x, d, e)
  BY <1>1, <1>2, EditActs
<1>4. /\ x \in Seq(Char) /\ d \in Seq(Char) /\ e \in Seq(Char) /\ text = (x \o d) \o e
      /\ Len(x) = p /\ Len(d) = m /\ Acts(Char, op, text, (x \o t) \o e)
      /\ Inserted(op) = Range(t)
  BY <1>3 DEF EditAs
<1>5. PICK xd \in Seq(Char), xt \in Seq(Char), out \in Seq(Char) :
        xd = x \o d /\ xt = x \o t /\ out = xt \o e /\ text = xd \o e
  BY <1>4, ConcatProperties
<1>6. /\ Range(xd) = Range(x) \cup Range(d) /\ Range(text) = Range(xd) \cup Range(e)
      /\ Range(xt) = Range(x) \cup Range(t) /\ Range(out) = Range(xt) \cup Range(e)
  <2>1. Range(x \o d) = Range(x) \cup Range(d) /\ Range(x \o t) = Range(x) \cup Range(t)
    BY <1>4, RangeConcatenation
  <2>2. Range(xd \o e) = Range(xd) \cup Range(e) /\ Range(xt \o e) = Range(xt) \cup Range(e)
    BY <1>4, RangeConcatenation
  <2>3. QED
    BY <1>5, <2>1, <2>2
<1>7. IsInjective(xd) /\ IsInjective(e) /\ Range(xd) \cap Range(e) = {}
  <2>1. IsInjective(xd \o e) <=> IsInjective(xd) /\ IsInjective(e) /\ Range(xd) \cap Range(e) = {}
    BY <1>4, OnceJoin
  <2>2. QED
    BY <1>5, <2>1
<1>8. IsInjective(x) /\ Range(x) \cap Range(d) = {}
  <2>1. IsInjective(x \o d) <=> IsInjective(x) /\ IsInjective(d) /\ Range(x) \cap Range(d) = {}
    BY <1>4, OnceJoin
  <2>2. QED
    BY <1>5, <1>7, <2>1
<1>9. IsInjective(xt)
  <2>1. IsInjective(x \o t) <=> IsInjective(x) /\ IsInjective(t) /\ Range(x) \cap Range(t) = {}
    BY <1>4, OnceJoin
  <2>2. QED
    BY <1>5, <1>6, <1>8, <2>1
<1>10. IsInjective(out)
  <2>1. IsInjective(xt \o e) <=> IsInjective(xt) /\ IsInjective(e) /\ Range(xt) \cap Range(e) = {}
    BY <1>4, OnceJoin
  <2>2. QED
    BY <1>5, <1>6, <1>7, <1>9, <2>1
<1>11. Range(text) \ Range(out) = Range(d)
  BY <1>6, <1>7, <1>8
<1>12. Range(d) = IF m = 0 THEN {} ELSE {text[p + 1]}
  <2>1. CASE m = 0
    <3>1. d = <<>>
      BY <1>4, <2>1, EmptySeq
    <3>2. QED
      BY <2>1, <3>1, RangeNone
  <2>2. CASE m = 1
    <3>1. \A n : n \in Range(d) <=> \E i \in 1 .. Len(d) : d[i] = n
      BY <1>4, RangeIn
    <3>2. Range(d) = {d[1]}
      BY <1>4, <2>2, <3>1
    <3>3. Len(xd) = p + 1 /\ xd[p + 1] = d[1]
      <4>1. /\ Len(x \o d) = Len(x) + Len(d)
            /\ \A i \in 1 .. Len(d) : (x \o d)[Len(x) + i] = d[i]
        BY <1>4, JoinAt
      <4>2. QED
        BY <1>4, <1>5, <2>2, <4>1
    <3>4. text[p + 1] = xd[p + 1]
      <4>1. \A i \in 1 .. Len(xd) : (xd \o e)[i] = xd[i]
        BY <1>4, JoinAt
      <4>2. QED
        BY <1>5, <3>3, <4>1
    <3>5. QED
      BY <2>2, <3>2, <3>3, <3>4
  <2>3. QED
    BY <2>1, <2>2
<1>13. Clean(Char, op, text, out)
  BY <1>4, <1>5, <1>10 DEF Clean
<1>14. EditCleanAs(op, text, p, m, t, out)
  BY <1>4, <1>11, <1>12, <1>13 DEF EditCleanAs
<1>15. QED
  BY <1>1, <1>14

\* What the document had was there at the start, or was typed; and so what a
\* client shows.
LEMMA TextTyped ==
  ASSUME DocInv, NEW f, Surv(f), NEW k \in 0 .. Len(log)
  PROVE  Range(TextAt(log, k)) \subseteq typed
<1>1. /\ MarksOK(f, edits, typed, erased) /\ LogMarked(log, f, erased)
  BY DEF Surv
<1>2. /\ typed = DOMAIN f \cup Range(InitialText) /\ DOMAIN f \cap Range(InitialText) = {}
  BY <1>1 DEF MarksOK
<1>3. TextIs(log, k)
  BY <1>1, <1>2, TextRange DEF DocInv, LogOK, History
<1>4. \A j \in 1 .. k : j \in 1 .. Len(log)
  BY LenProperties DEF DocInv, LogOK
<1>5. \A j \in 1 .. k : Inserted(log[j].ops) \subseteq DOMAIN f
  BY <1>1, <1>4 DEF LogMarked, Marked
<1>6. QED
  BY <1>2, <1>3, <1>5 DEF TextIs

LEMMA ShownTyped ==
  ASSUME DocInv, NEW f, Surv(f), NEW c \in Client, NEW s, s = client[c]
  PROVE  Range(s.text) \subseteq typed
<1>1. PICK m : /\ HoldsEdits(erased, s.outstanding, TextAt(log, s.rev), m)
               /\ HoldsEdits(erased, s.buffer, m, s.text)
  BY DEF Surv, HeldMarked
<1>2. /\ Edited(erased, Typing(s.outstanding), TextAt(log, s.rev), m)
      /\ Edited(erased, Typing(s.buffer), m, s.text)
  BY <1>1, HeldEditsAre
<1>3. s.rev \in 0 .. Len(log)
  BY Numbers
<1>4. Range(TextAt(log, s.rev)) \subseteq typed
  BY <1>3, TextTyped
<1>5. Typing(s.outstanding) \subseteq typed /\ Typing(s.buffer) \subseteq typed
  BY DEF Surv, MarksOK, HeldMarked, Marked
<1>6. QED
  BY <1>2, <1>4, <1>5 DEF Edited

\* The next character was never there.
LEMMA NextNew ==
  ASSUME DocInv, NEW f, Surv(f), edits < MaxEdits
  PROVE  edits + 1 \notin typed /\ edits + 1 \notin Range(InitialText) /\ edits + 1 \in Nat \ {0}
<1>1. edits \in Nat /\ MaxEdits \in Nat /\ InitialText \in Seq(Nat \ 1 .. MaxEdits)
  BY DocAssumption DEF DocInv
<1>2. edits + 1 \in 1 .. MaxEdits /\ edits + 1 \notin 1 .. edits /\ edits + 1 \in Nat \ {0}
  BY <1>1
<1>3. edits + 1 \notin Range(InitialText)
  <2>1. \A i \in 1 .. Len(InitialText) : InitialText[i] \notin 1 .. MaxEdits
    BY <1>1, ElementOfSeq
  <2>2. QED
    BY <1>1, <1>2, <2>1, RangeIn
<1>4. typed \subseteq DOMAIN f \cup Range(InitialText) /\ DOMAIN f \subseteq 1 .. edits
  BY DEF Surv, MarksOK
<1>5. QED
  BY <1>2, <1>3, <1>4

\* The buffer takes an edit.
Buffered(held, op) == IF held = None THEN <<op>> ELSE <<composeOps(held[1], op)>>

LEMMA BufferEdits ==
  ASSUME NEW er, NEW held, NEW m, NEW text, NEW out, NEW op, HoldsEdits(er, held, m, text),
         Edits(er, op, text, out), Inserted(op) \cap Range(m) = {}
  PROVE  /\ HoldsEdits(er, Buffered(held, op), m, out)
         /\ Typing(Buffered(held, op)) \subseteq Typing(held) \cup Inserted(op)
<1>1. CASE held = None
  <2>1. m = text
    BY <1>1, HeldNone, HeldEditsAre
  <2>2. Buffered(held, op) = <<op>>
    BY <1>1 DEF Buffered
  <2>3. QED
    BY <2>1, <2>2, EditsHeld
<1>2. CASE held # None
  <2>1. PICK a : held = <<a>> /\ Edits(er, a, m, text)
    BY <1>2 DEF HoldsEdits
  <2>2. PICK b : b = composeOps(a, op)
    OBVIOUS
  <2>3. Buffered(held, op) = <<b>>
    BY <1>2, <2>1, <2>2 DEF Buffered
  <2>4. Clean(Char, a, m, text) /\ Clean(Char, op, text, out)
    BY <2>1 DEF Edits
  <2>5. Clean(Char, b, m, out) /\ Inserted(b) \subseteq Inserted(a) \cup Inserted(op)
    BY <2>2, <2>4, CleanCompose
  <2>6. /\ Edited(er, Inserted(a), m, text) /\ Edited(er, Inserted(op), text, out)
    BY <2>1, EditsAre
  <2>7. Range(m) \ Range(out) \subseteq er
    BY <2>6 DEF Edited
  <2>8. Edits(er, b, m, out)
    BY <2>5, <2>7 DEF Edits
  <2>9. Typing(held) = Inserted(a) /\ Typing(<<b>>) = Inserted(b)
    BY <2>1, EditsHeld
  <2>10. QED
    BY <2>3, <2>5, <2>8, <2>9, EditsHeld
<1>3. QED
  BY <1>1, <1>2

\* What is to show of a client that made an edit.
EditTook(g, er, c, s, op, out, u) ==
  /\ HeldMarked(log, g, er, c, u) /\ Dirty(u) /\ u.seq = s.seq /\ u.text = out /\ u.rev = s.rev
  /\ Inserted(op) \subseteq Typing(u.outstanding) \cup Typing(u.buffer)
  /\ Typing(s.outstanding) \subseteq Typing(u.outstanding)
  /\ Typing(u.outstanding) \subseteq Typing(s.outstanding) \cup Inserted(op)
  /\ Typing(s.buffer) \ er \subseteq Typing(u.buffer)
  /\ Typing(u.buffer) \subseteq Typing(s.buffer) \cup Inserted(op)
  /\ Typing(u.buffer) \subseteq Range(out)

\* The number under which a client sends the edit that it makes next.
NextNr(s) == IF Dirty(s) THEN Nr(s) + 1 ELSE Nr(s)

LEMMA EditTakes ==
  ASSUME DocInv, NEW f, Surv(f), NEW g, Older(f, g), NEW er, erased \subseteq er,
         NEW c \in Client, NEW s, s = client[c], NEW op, NEW out, Edits(er, op, s.text, out),
         Inserted(op) \cap typed = {}, Marked(g, Inserted(op), <<c, NextNr(s)>>),
         NEW t, t = [s EXCEPT !.text = out]
  PROVE  EditTook(g, er, c, s, op, out, WithLocal(t, op))
<1>1. /\ s \in Sync /\ EditsOK(log, edits, c, s) /\ s.rev \in 0 .. Len(log)
      /\ \A k \in 1 .. Len(log) : log[k].seq # 0
  BY Numbers, LogEntry DEF DocInv
<1>2. HeldMarked(log, f, erased, c, s)
  BY DEF Surv
<1>3. PICK m : /\ HoldsEdits(er, s.outstanding, TextAt(log, s.rev), m)
               /\ HoldsEdits(er, s.buffer, m, s.text)
  <2>1. HeldMarked(log, g, er, c, s)
    BY <1>2, HeldMarkedOn
  <2>2. QED
    BY <2>1 DEF HeldMarked
<1>4. /\ Edited(er, Typing(s.outstanding), TextAt(log, s.rev), m)
      /\ Edited(er, Typing(s.buffer), m, s.text) /\ Edited(er, Inserted(op), s.text, out)
  BY <1>3, HeldEditsAre, EditsAre
<1>5. /\ Marked(g, Typing(s.outstanding), <<c, Nr(s)>>)
      /\ Marked(g, Typing(s.buffer), <<c, Nr(s) + 1>>)
  BY <1>2, MarkedOn DEF HeldMarked
<1>6. /\ t.text = out /\ t.rev = s.rev /\ t.outstanding = s.outstanding /\ t.buffer = s.buffer
      /\ t.seq = s.seq /\ t.clientSeq = s.clientSeq /\ (Dirty(t) <=> Dirty(s))
  BY <1>1 DEF Sync, Dirty
<1>7. PICK u : u = WithLocal(t, op)
  OBVIOUS
<1>8. CASE ~Dirty(s)
  <2>1. s.outstanding = None /\ s.buffer = None /\ s.seq = 0
    BY <1>1, <1>8 DEF Dirty, EditsOK
  <2>2. u = [t EXCEPT !.outstanding = <<op>>]
    BY <1>6, <1>7, <1>8 DEF WithLocal
  <2>3. /\ u.outstanding = <<op>> /\ u.buffer = None /\ u.text = out /\ u.seq = 0
        /\ u.rev = s.rev /\ u.clientSeq = s.clientSeq
    BY <1>1, <1>6, <2>1, <2>2 DEF Sync
  <2>4. Typing(s.outstanding) = {} /\ Typing(s.buffer) = {} /\ Typing(u.buffer) = {}
        /\ Typing(u.outstanding) = Inserted(op) /\ Dirty(u)
    BY <2>1, <2>3, EditsHeld DEF Typing, Dirty
  <2>5. s.text = TextAt(log, s.rev)
    BY <1>3, <2>1, HeldNone, HeldEditsAre
  <2>6. HoldsEdits(er, <<op>>, TextAt(log, s.rev), out) /\ HoldsEdits(er, None, out, out)
    BY <1>4, <2>5, EditsHeld DEF Edited, HoldsEdits
  <2>7. Nr(u) = Nr(s) /\ NextNr(s) = Nr(s)
    BY <1>8, <2>1, <2>3 DEF Nr, NextNr
  <2>8. HeldMarked(log, g, er, c, u)
    <3>1. \E z : /\ HoldsEdits(er, u.outstanding, TextAt(log, u.rev), z)
                 /\ HoldsEdits(er, u.buffer, z, u.text)
      BY <2>3, <2>6
    <3>2. Marked(g, Typing(u.outstanding), <<c, Nr(u)>>)
      BY <2>4, <2>7
    <3>3. Marked(g, Typing(u.buffer), <<c, Nr(u) + 1>>)
      BY <2>4 DEF Marked
    <3>4. QED
      BY <1>1, <2>3, <3>1, <3>2, <3>3 DEF HeldMarked
  <2>9. QED
    BY <1>7, <2>1, <2>3, <2>4, <2>8 DEF EditTook
<1>9. CASE Dirty(s)
  <2>1. PICK b : b = Buffered(s.buffer, op)
    OBVIOUS
  <2>2. u = [t EXCEPT !.buffer = b]
    BY <1>6, <1>7, <1>9, <2>1 DEF WithLocal, Buffered
  <2>3. /\ u.outstanding = s.outstanding /\ u.buffer = b /\ u.text = out /\ u.seq = s.seq
        /\ u.rev = s.rev /\ u.clientSeq = s.clientSeq
    BY <1>1, <1>6, <2>2 DEF Sync
  <2>4. Nr(u) = Nr(s) /\ NextNr(s) = Nr(s) + 1 /\ Dirty(u)
    BY <1>9, <2>3 DEF Nr, NextNr, Dirty
  <2>5. Inserted(op) \cap Range(m) = {}
    <3>1. Range(TextAt(log, s.rev)) \subseteq typed
      BY <1>1, TextTyped
    <3>2. Typing(s.outstanding) \subseteq DOMAIN f
      BY <1>2 DEF HeldMarked, Marked
    <3>3. DOMAIN f \subseteq typed
      BY DEF Surv, MarksOK
    <3>4. QED
      BY <1>4, <3>1, <3>2, <3>3 DEF Edited
  <2>6. HoldsEdits(er, b, m, out) /\ Typing(b) \subseteq Typing(s.buffer) \cup Inserted(op)
    BY <1>3, <2>1, <2>5, BufferEdits
  <2>7. Edited(er, Typing(b), m, out)
    BY <2>6, HeldEditsAre
  <2>8. Inserted(op) \subseteq Typing(b)
    BY <1>4, <2>5, <2>7 DEF Edited
  <2>9. Typing(s.buffer) \ er \subseteq Typing(b)
    BY <1>4, <2>7 DEF Edited
  <2>10. Typing(b) \subseteq Range(out)
    BY <2>7 DEF Edited
  <2>11. HeldMarked(log, g, er, c, u)
    <3>1. \E z : /\ HoldsEdits(er, u.outstanding, TextAt(log, u.rev), z)
                 /\ HoldsEdits(er, u.buffer, z, u.text)
      BY <1>3, <2>3, <2>6
    <3>2. Marked(g, Typing(u.outstanding), <<c, Nr(u)>>)
      BY <1>5, <2>3, <2>4
    <3>3. Marked(g, Typing(u.buffer), <<c, Nr(u) + 1>>)
      <4>1. PICK mark : mark = <<c, Nr(s) + 1>>
        OBVIOUS
      <4>2. Marked(g, Typing(s.buffer), mark) /\ Marked(g, Inserted(op), mark)
        BY <1>5, <2>4, <4>1
      <4>3. Marked(g, Typing(b), mark)
        BY <2>6, <4>2 DEF Marked
      <4>4. QED
        BY <2>3, <2>4, <4>1, <4>3
    <3>4. QED
      BY <1>2, <1>9, <2>3, <3>1, <3>2, <3>3 DEF HeldMarked
  <2>12. QED
    BY <1>7, <2>3, <2>4, <2>6, <2>8, <2>9, <2>10, <2>11 DEF EditTook
<1>10. QED
  BY <1>8, <1>9

\* What it deletes was in the document, or in flight, or only buffered; then
\* nobody is ever to see it.
LEMMA EditCuts ==
  ASSUME DocInv, NEW f, Surv(f), NEW g, NEW er, er \subseteq typed,
         NEW c \in Client, NEW s, s = client[c], NEW op, NEW out, Edits(er, op, s.text, out),
         Inserted(op) \cap typed = {}, er = erased \cup (Range(s.text) \ Range(out)),
         NEW v, EditTook(g, er, c, s, op, out, v), NEW K, K = [client EXCEPT ![c] = v]
  PROVE  CutOn(er, K, s, v)
<1>1. SUFFICES ASSUME NEW n \in er
               PROVE  \/ Gone(log, content, K, n)
                      \/ n \in Erasing(log, v)
                      \/ n \in erased /\ ~Gone(log, content, client, n) /\ n \notin Erasing(log, s)
  BY DEF CutOn
<1>2. /\ v.seq = s.seq /\ v.text = out /\ v.rev = s.rev
      /\ Typing(s.outstanding) \subseteq Typing(v.outstanding)
      /\ Typing(v.outstanding) \subseteq Typing(s.outstanding) \cup Inserted(op)
      /\ Typing(v.buffer) \subseteq Typing(s.buffer) \cup Inserted(op)
      /\ Typing(v.buffer) \subseteq Range(out)
  BY DEF EditTook
<1>3. K[c] = v /\ \A d \in Client : d # c => K[d] = client[d]
  BY DEF DocInv
<1>4. n \notin Inserted(op)
  BY <1>1
<1>5. Edited(er, Inserted(op), s.text, out)
  BY EditsAre
<1>6. CASE n \in erased /\ Gone(log, content, client, n)
  <2>1. n \notin Range(content)
    BY <1>6 DEF Gone
  <2>2. ASSUME NEW d \in Client
        PROVE  /\ n \notin Typing(K[d].buffer)
               /\ n \in Typing(K[d].outstanding) => Logged(log, d, K[d].seq)
    <3>1. /\ n \notin Typing(client[d].buffer)
          /\ n \in Typing(client[d].outstanding) => Logged(log, d, client[d].seq)
      BY <1>6 DEF Gone
    <3>2. CASE d = c
      BY <1>2, <1>3, <1>4, <3>1, <3>2
    <3>3. CASE d # c
      BY <1>3, <3>1, <3>3
    <3>4. QED
      BY <3>2, <3>3
  <2>3. QED
    BY <2>1, <2>2 DEF Gone
<1>7. CASE n \in erased /\ n \in Erasing(log, s)
  <2>1. n \in Range(TextAt(log, s.rev)) \cup Typing(s.outstanding) /\ n \notin Range(s.text)
    BY <1>7 DEF Erasing
  <2>2. n \notin Range(out)
    BY <1>4, <1>5, <2>1 DEF Edited
  <2>3. QED
    BY <1>2, <2>1, <2>2 DEF Erasing
<1>8. CASE n \in Range(s.text) \ Range(out)
  <2>1. /\ LogMarked(log, f, erased) /\ DOMAIN f \cap Range(InitialText) = {}
        /\ \A d \in Client : HeldMarked(log, f, erased, d, client[d])
    BY DEF Surv, MarksOK
  <2>2. PICK m : /\ HoldsEdits(erased, s.outstanding, TextAt(log, s.rev), m)
                 /\ HoldsEdits(erased, s.buffer, m, s.text)
    BY <2>1 DEF HeldMarked
  <2>3. /\ Edited(erased, Typing(s.outstanding), TextAt(log, s.rev), m)
        /\ Edited(erased, Typing(s.buffer), m, s.text)
    BY <2>2, HeldEditsAre
  <2>4. CASE n \in Range(TextAt(log, s.rev)) \cup Typing(s.outstanding)
    BY <1>2, <1>8, <2>4 DEF Erasing
  <2>5. CASE n \notin Range(TextAt(log, s.rev)) \cup Typing(s.outstanding)
    <3>1. n \in Typing(s.buffer)
      BY <1>8, <2>3, <2>5 DEF Edited
    <3>2. PICK mark : mark = <<c, Nr(s) + 1>>
      OBVIOUS
    <3>3. Marked(f, Typing(s.buffer), mark) /\ n \in DOMAIN f /\ f[n] = mark
      BY <2>1, <3>1, <3>2 DEF HeldMarked, Marked
    <3>4. Nr(s) \in Nat /\ \A k \in 1 .. Len(log) : log[k].client = c => log[k].seq # Nr(s) + 1
      BY Numbers
    <3>5. n \notin Range(content)
      <4>1. \A k \in 1 .. Len(log) : <<log[k].client, log[k].seq>> # mark
        BY <3>2, <3>4
      <4>2. /\ History(log, f, erased) /\ content = TextAt(log, Len(log))
            /\ Len(log) \in 0 .. Len(log)
        BY <2>1, LenProperties DEF DocInv, LogOK, History
      <4>3. Typing(s.buffer) \cap Range(TextAt(log, Len(log))) = {}
        BY <3>3, <4>1, <4>2, NotThere
      <4>4. QED
        BY <3>1, <4>2, <4>3
    <3>6. ASSUME NEW d \in Client
          PROVE  n \notin Typing(K[d].buffer) /\ n \notin Typing(K[d].outstanding)
      <4>1. CASE d = c
        BY <1>2, <1>3, <1>4, <1>8, <2>5, <4>1
      <4>2. CASE d # c
        <5>1. HeldMarked(log, f, erased, d, client[d])
          BY <2>1
        <5>2. n \notin Typing(client[d].buffer)
          BY <3>2, <3>3, <4>2, <5>1 DEF HeldMarked, Marked
        <5>3. n \notin Typing(client[d].outstanding)
          BY <3>2, <3>3, <4>2, <5>1 DEF HeldMarked, Marked
        <5>4. QED
          BY <1>3, <4>2, <5>2, <5>3
      <4>3. QED
        BY <4>1, <4>2
    <3>7. QED
      BY <3>5, <3>6 DEF Gone
  <2>6. QED
    BY <2>4, <2>5
<1>9. QED
  BY <1>1, <1>6, <1>7, <1>8

LEMMA EditTold ==
  ASSUME NEW f, NEW g, NEW er, NEW c, NEW s, NEW op, NEW out, NEW v,
         EditTook(g, er, c, s, op, out, v), DOMAIN g = DOMAIN f \cup Inserted(op),
         erased \subseteq er
  PROVE  ToldOn(f, g, er, s, v)
BY DEF EditTook, ToldOn

LEMMA LocalSurv ==
  ASSUME DocInv, NEW f, Surv(f), NEW c \in Client, NEW p \in 0 .. Len(client[c].text),
         NEW kind \in EditKind, ApplyLocal(c, p, kind)
  PROVE  SurvInv'
<1>1. PICK s : s = client[c] /\ s \in Sync /\ HeldMarked(log, f, erased, c, s)
  BY DEF DocInv, Surv
<1>2. PICK m \in {0, 1} : m = IF kind # "type" THEN 1 ELSE 0
  OBVIOUS
<1>3. PICK x : x = IF kind # "erase" THEN <<edits + 1>> ELSE <<>>
  OBVIOUS
<1>4. PICK op : op = EditOp(p, m, x)
  OBVIOUS
<1>5. PICK er : er = erased'
  OBVIOUS
<1>6. /\ edits < MaxEdits /\ edits' = edits + 1 /\ typed' = typed \cup Range(x)
      /\ er = erased \cup IF m = 0 THEN {} ELSE {s.text[p + 1]}
      /\ p + m <= Len(s.text) /\ p \in Nat
      /\ UNCHANGED <<content, log, net, resets>>
  BY <1>1, <1>2, <1>3, <1>5, RangeOne, RangeNone DEF ApplyLocal
<1>7. x \in Seq(Char) /\ IsInjective(x) /\ Range(x) \subseteq {edits + 1}
  <2>1. edits + 1 \in Char
    BY <1>6, NewChar
  <2>2. CASE x = <<>>
    BY <2>2, RangeNone DEF IsInjective
  <2>3. CASE x = <<edits + 1>>
    BY <2>1, <2>3, RangeOne DEF IsInjective
  <2>4. QED
    BY <1>3, <2>2, <2>3
<1>8. /\ edits + 1 \notin typed /\ edits + 1 \notin Range(InitialText)
      /\ edits + 1 \in Nat \ {0}
  BY <1>6, NextNew
<1>9. Range(s.text) \subseteq typed
  BY <1>1, ShownTyped
<1>10. s.text \in Seq(Char) /\ IsInjective(s.text)
  BY <1>1, HeldEditsAre DEF HeldMarked, Edited
<1>11. PICK out : EditCleanAs(op, s.text, p, m, x, out)
  <2>1. Range(x) \cap Range(s.text) = {}
    BY <1>7, <1>8, <1>9
  <2>2. QED
    BY <1>4, <1>6, <1>7, <1>10, <2>1, EditClean
<1>12. /\ Edits(er, op, s.text, out) /\ Inserted(op) = Range(x)
       /\ er = erased \cup (Range(s.text) \ Range(out))
  BY <1>6, <1>11 DEF EditCleanAs, Edits
<1>13. Inserted(op) \cap typed = {}
  BY <1>7, <1>8, <1>12
<1>14. PICK mark : mark = <<c, NextNr(s)>>
  OBVIOUS
<1>15. PICK g : g = [n \in DOMAIN f \cup Inserted(op) |-> IF n \in Inserted(op) THEN mark ELSE f[n]]
  OBVIOUS
<1>16. MarksOK(f, edits, typed, erased)
  BY DEF Surv
<1>17. Older(f, g) /\ Marked(g, Inserted(op), mark)
  <2>1. DOMAIN f \subseteq typed
    BY <1>16 DEF MarksOK
  <2>2. QED
    BY <1>13, <1>15, <2>1 DEF Older, Marked
<1>18. MarksOK(g, edits', typed', erased')
  <2>1. DOMAIN g = DOMAIN f \cup Inserted(op)
    BY <1>15
  <2>2. DOMAIN g = typed' \ Range(InitialText)
    BY <1>6, <1>7, <1>8, <1>12, <1>16, <2>1 DEF MarksOK
  <2>3. DOMAIN g \subseteq 1 .. edits + 1
    <3>1. DOMAIN f \subseteq 1 .. edits /\ edits \in Nat
      BY <1>16, DocAssumption DEF MarksOK, DocInv
    <3>2. QED
      BY <1>7, <1>12, <2>1, <3>1
  <2>4. er \subseteq typed' /\ Range(InitialText) \subseteq typed'
    BY <1>6, <1>9, <1>12, <1>16 DEF MarksOK
  <2>5. QED
    BY <1>5, <1>6, <2>2, <2>3, <2>4 DEF MarksOK
<1>19. PICK t : t = [s EXCEPT !.text = out]
  OBVIOUS
<1>20. out = applyOp(s.text, op) /\ EditedAs(s, op, t, out)
  BY <1>12, <1>19, EditsAre DEF EditedAs
<1>21. PICK u : u = WithLocal(t, op)
  OBVIOUS
<1>22. u \in Sync
  BY <1>1, <1>20, <1>21, LocalIs
<1>23. EditTook(g, er, c, s, op, out, u)
  BY <1>1, <1>12, <1>13, <1>14, <1>17, <1>19, <1>21, EditTakes
<1>24. PICK v : v = IF Dirty(s) THEN u ELSE ScheduleSend(u)
  OBVIOUS
<1>25. v \in Sync /\ SameEdits(u, v)
  <2>1. ScheduleSend(u) \in Sync /\ SameEdits(u, ScheduleSend(u)) /\ SameEdits(u, u)
    BY <1>22, ScheduleSendIs DEF SameEdits
  <2>2. QED
    BY <1>22, <1>24, <2>1
<1>26. EditTook(g, er, c, s, op, out, v)
  <2>1. /\ HeldMarked(log, g, er, c, u) => HeldMarked(log, g, er, c, v)
        /\ Dirty(v) <=> Dirty(u)
    BY <1>25, SameHeldMarked
  <2>2. /\ v.text = u.text /\ v.rev = u.rev /\ v.outstanding = u.outstanding
        /\ v.buffer = u.buffer /\ v.seq = u.seq
    BY <1>25 DEF SameEdits
  <2>3. QED
    BY <1>23, <2>1, <2>2 DEF EditTook
<1>27. client' = [client EXCEPT ![c] = v]
  BY <1>1, <1>2, <1>3, <1>4, <1>19, <1>20, <1>21, <1>24 DEF ApplyLocal, EditOp
<1>28. CutOn(er, client', s, v)
  <2>1. er \subseteq typed
    BY <1>9, <1>12, <1>16 DEF MarksOK
  <2>2. QED
    BY <1>1, <1>12, <1>13, <1>26, <1>27, <2>1, EditCuts
<1>29. ToldOn(f, g, er, s, v)
  <2>1. DOMAIN g = DOMAIN f \cup Inserted(op) /\ erased \subseteq er
    BY <1>6, <1>15
  <2>2. QED
    BY <1>26, <2>1, EditTold
<1>30. ASSUME resets = 0
       PROVE  PostedOn(c, v, net')
  <2>1. Dirty(v) /\ v.seq = s.seq
    BY <1>26 DEF EditTook
  <2>2. QED
    BY <1>1, <1>6, <1>30, <2>1 DEF PostedOn, Surv, Posted
<1>31. HeldMarked(log, g, erased', c, v)
  BY <1>5, <1>26 DEF EditTook
<1>32. /\ erased \subseteq erased' /\ UNCHANGED <<content, log>>
       /\ \A r \in Request :
            <<c, r>> \in net' => <<c, r>> \in net \/ PostMarked(log, g, erased', c, r)
       /\ \A d \in Client, r \in Request : d # c /\ <<d, r>> \in net' => <<d, r>> \in net
  BY <1>5, <1>6
<1>33. /\ resets' \in Nat
       /\ resets' = 0 => /\ resets = 0 /\ PostedOn(c, v, net')
                         /\ ToldOn(f, g, erased', s, v) /\ CutOn(erased', client', s, v)
  BY <1>5, <1>6, <1>28, <1>29, <1>30 DEF Surv
<1>34. Surv(g)'
  BY <1>1, <1>17, <1>18, <1>25, <1>27, <1>31, <1>32, <1>33, SurvStep
<1>35. QED
  BY <1>34 DEF SurvInv

----------------------------------------------------------------------------
\* Every edit arrives once.

LEMMA SurvInit == DocInit => SurvInv
<1>1. SUFFICES ASSUME DocInit
               PROVE  SurvInv
  OBVIOUS
<1>2. /\ content = InitialText /\ log = <<>> /\ net = {} /\ edits = 0 /\ erased = {}
      /\ typed = Range(InitialText) /\ resets = 0
  BY <1>1 DEF DocInit
<1>3. PICK f : f = [n \in {} |-> 0]
  OBVIOUS
<1>4. DOMAIN f = {}
  BY <1>3
<1>5. MarksOK(f, edits, typed, erased)
  BY <1>2, <1>4 DEF MarksOK
<1>6. Len(log) = 0 /\ log \in Seq(Entry)
  BY <1>2, EmptySeq
<1>7. LogMarked(log, f, erased)
  BY <1>6 DEF LogMarked
<1>8. PICK s : /\ s = Fresh(InitialText, 0) /\ s.outstanding = None /\ s.buffer = None
               /\ s.text = InitialText /\ s.rev = 0 /\ s.seq = 0 /\ s.clientSeq = 0
  <2>1. PICK s : s = Fresh(InitialText, 0)
    OBVIOUS
  <2>2. /\ s.outstanding = None /\ s.buffer = None /\ s.text = InitialText
        /\ s.rev = 0 /\ s.seq = 0 /\ s.clientSeq = 0
    BY <2>1 DEF Fresh
  <2>3. QED
    BY <2>1, <2>2
<1>9. client = [c \in Client |-> s]
  BY <1>1, <1>8 DEF DocInit
<1>10. TextAt(log, 0) = InitialText
  BY <1>6, TextStart
<1>11. HoldsEdits(erased, None, InitialText, InitialText)
  BY InitialChars, DocAssumption DEF HoldsEdits
<1>12. Typing(None) = {}
  BY DEF Typing
<1>13. \A c : HeldMarked(log, f, erased, c, s)
  BY <1>6, <1>8, <1>10, <1>11, <1>12 DEF HeldMarked, Marked
<1>14. Posted(log, client, net) /\ Told(f, log, client, erased) /\ Cut(log, content, client, erased)
  BY <1>2, <1>4 DEF Posted, Told, Cut
<1>15. Surv(f)
  BY <1>2, <1>5, <1>7, <1>9, <1>13, <1>14 DEF Surv
<1>16. QED
  BY <1>15 DEF SurvInv

LEMMA SurvNext == DocInv /\ SurvInv /\ [DocNext]_docVars => SurvInv'
<1>1. SUFFICES ASSUME DocInv, SurvInv, [DocNext]_docVars
               PROVE  SurvInv'
  OBVIOUS
<1>2. PICK f : Surv(f)
  BY <1>1 DEF SurvInv
<1>3. CASE Edit
  BY <1>1, <1>2, <1>3, LocalSurv DEF Edit
<1>4. CASE \E c \in Client : SendInFlight(c)
  BY <1>1, <1>2, <1>4, SendSurv DEF SurvInv
<1>5. CASE \E c \in Client : PostAnswered(c)
  BY <1>1, <1>2, <1>5, AnsweredSurv DEF SurvInv
<1>6. CASE \E c \in Client, lost \in BOOLEAN : PostFailed(c, lost)
  BY <1>1, <1>2, <1>6, FailedSurv DEF SurvInv
<1>7. CASE \E c \in Client : Deliver(c)
  BY <1>1, <1>2, <1>7, DeliverSurv DEF SurvInv
<1>8. CASE \E c \in Client : \E rev \in client[c].rev .. Rev : Reset(c, rev)
  BY <1>1, <1>2, <1>8, ResetSurv DEF SurvInv
<1>9. CASE Arrive
  BY <1>1, <1>2, <1>9, ArriveSurv DEF SurvInv
<1>10. CASE UNCHANGED docVars
  <2>1. UNCHANGED <<content, log, client, net, edits, typed, erased, resets>>
    BY <1>10 DEF docVars
  <2>2. Surv(f)'
    BY <1>2, <2>1 DEF Surv
  <2>3. QED
    BY <2>2 DEF SurvInv
<1>11. QED
  BY <1>1, <1>3, <1>4, <1>5, <1>6, <1>7, <1>8, <1>9, <1>10 DEF DocNext

LEMMA SurvMeans == DocInv /\ SurvInv => EditsSurviveOnce
<1>1. SUFFICES ASSUME DocInv, NEW f, Surv(f)
               PROVE  EditsSurviveOnce
  BY DEF SurvInv
<1>2. /\ MarksOK(f, edits, typed, erased)
      /\ \A c \in Client : HeldMarked(log, f, erased, c, client[c])
  BY <1>1 DEF Surv
<1>3. typed = DOMAIN f \cup Range(InitialText) /\ DOMAIN f \cap Range(InitialText) = {}
  BY <1>2 DEF MarksOK
<1>4. History(log, f, erased) /\ content = TextAt(log, Len(log)) /\ log \in Seq(Entry)
  BY <1>1, <1>3 DEF Surv, DocInv, LogOK, History
<1>5. PICK l \in Nat : l = Len(log)
  BY <1>4, LenProperties
<1>6. IsInjective(content) /\ Range(content) \subseteq typed
  <2>1. l \in 0 .. Len(log)
    BY <1>5
  <2>2. TextIs(log, l) /\ Range(TextAt(log, l)) \subseteq typed
    BY <1>1, <1>4, <2>1, TextRange, TextTyped
  <2>3. QED
    BY <1>4, <1>5, <2>2 DEF TextIs
<1>7. ASSUME NEW n \in Range(TextAt(log, 0)), n \notin erased
      PROVE  n \in Range(content)
  BY <1>4, <1>5, <1>7, StaysThere
<1>8. ASSUME NEW j \in 1 .. Len(log), NEW n \in Inserted(log[j].ops), n \notin erased
      PROVE  n \in Range(content)
  <2>1. PICK k \in Nat, i \in Nat : i = k + 1 /\ k + 1 = j /\ k + 1 <= Len(log)
    <3>1. j - 1 \in Nat /\ j = (j - 1) + 1 /\ j \in Nat /\ j <= Len(log)
      BY <1>5
    <3>2. QED
      BY <3>1
  <2>2. Edited(erased, Inserted(log[k + 1].ops), TextAt(log, k), TextAt(log, k + 1))
    BY <1>4, <2>1, HistoryStep
  <2>3. n \in Range(TextAt(log, i)) /\ i <= l /\ l <= Len(log)
    BY <1>5, <1>8, <2>1, <2>2 DEF Edited
  <2>4. n \in Range(TextAt(log, l))
    BY <1>4, <1>8, <2>3, StaysThere
  <2>5. QED
    BY <1>4, <1>5, <2>4
<1>9. ASSUME NEW c \in Client
      PROVE  IsInjective(client[c].text)
  <2>1. PICK s : s = client[c] /\ HeldMarked(log, f, erased, c, s)
    BY <1>2
  <2>2. IsInjective(s.text)
    BY <2>1, HeldEditsAre DEF HeldMarked, Edited
  <2>3. QED
    BY <2>1, <2>2
<1>10. ASSUME NEW c \in Client, NEW n, n \notin erased,
              n \in Typing(client[c].outstanding) \cup Typing(client[c].buffer)
       PROVE  Dirty(client[c]) /\ n \in Range(client[c].text)
  <2>1. PICK s : s = client[c] /\ HeldMarked(log, f, erased, c, s)
    BY <1>2
  <2>2. PICK m : /\ HoldsEdits(erased, s.outstanding, TextAt(log, s.rev), m)
                 /\ HoldsEdits(erased, s.buffer, m, s.text)
    BY <2>1 DEF HeldMarked
  <2>3. /\ Edited(erased, Typing(s.outstanding), TextAt(log, s.rev), m)
        /\ Edited(erased, Typing(s.buffer), m, s.text)
    BY <2>2, HeldEditsAre
  <2>4. n \in Range(s.text)
    BY <1>10, <2>1, <2>3 DEF Edited
  <2>5. EditsOK(log, edits, c, s)
    BY <1>1, <2>1 DEF DocInv
  <2>6. Dirty(s)
    BY <1>10, <2>1, <2>5 DEF Typing, Dirty, EditsOK
  <2>7. QED
    BY <2>1, <2>4, <2>6
<1>11. ASSUME resets = 0, NEW n \in typed \ erased
       PROVE  \/ n \in Range(content)
              \/ \E c \in Client : Dirty(client[c]) /\ n \in Range(client[c].text)
  <2>1. CASE n \in Range(InitialText)
    <3>1. TextAt(log, 0) = InitialText
      BY <1>4, TextStart
    <3>2. QED
      BY <1>7, <1>11, <2>1, <3>1
  <2>2. CASE n \notin Range(InitialText)
    <3>1. n \in DOMAIN f \ erased
      BY <1>3, <1>11, <2>2
    <3>2. \/ \E j \in 1 .. Len(log) : n \in Inserted(log[j].ops)
          \/ \E c \in Client : n \in Typing(client[c].outstanding) \cup Typing(client[c].buffer)
      BY <1>1, <1>11, <3>1 DEF Surv, Told
    <3>3. QED
      BY <1>8, <1>10, <1>11, <3>2
  <2>3. QED
    BY <2>1, <2>2
<1>12. ASSUME resets = 0, \A c \in Client : ~Dirty(client[c])
       PROVE  Range(content) = typed \ erased
  <2>1. typed \ erased \subseteq Range(content)
    BY <1>11, <1>12
  <2>2. ASSUME NEW n \in erased, n \in Range(content)
        PROVE  FALSE
    <3>1. PICK c \in Client : n \in Erasing(log, client[c])
      BY <1>1, <1>12, <2>2 DEF Surv, Cut, Gone
    <3>2. PICK s : s = client[c] /\ HeldMarked(log, f, erased, c, s) /\ EditsOK(log, edits, c, s)
      BY <1>1, <1>2 DEF DocInv
    <3>3. s.outstanding = None /\ s.buffer = None
      BY <1>12, <3>2 DEF Dirty, EditsOK
    <3>4. s.text = TextAt(log, s.rev)
      BY <3>2, <3>3, HeldEditsAre, HeldNone DEF HeldMarked
    <3>5. QED
      BY <3>1, <3>2, <3>3, <3>4 DEF Erasing, Typing
  <2>3. QED
    BY <1>6, <2>1, <2>2
<1>13. QED
  BY <1>6, <1>9, <1>11, <1>12 DEF EditsSurviveOnce

\* Every edit arrives once: "Retrying the same (clientId, clientSeq) is safe and
\* applies the edit once" (collab.ts).  In spite of retries, requests that are
\* late or lost, concurrent edits transformed over each other (transformOps) and
\* snapshots (resetFrom), no character is twice in a text; and as long as no
\* snapshot was forced on a client, none that was typed is lost and no deletion
\* is undone.
THEOREM EditsSurvive == DocSpec => []EditsSurviveOnce
<1>1. DocInit => SurvInv
  BY SurvInit
<1>2. DocInv /\ SurvInv /\ [DocNext]_docVars => SurvInv'
  BY SurvNext
<1>3. DocInv /\ SurvInv => EditsSurviveOnce
  BY SurvMeans
<1>4. QED
  BY <1>1, <1>2, <1>3, DocInvAlways, PTL DEF DocSpec
=============================================================================
