------------------------------- MODULE OtText -------------------------------
(***************************************************************************)
(* Operational transformation of plain text: the operators of              *)
(* packages/contracts/src/ot.ts.  A document is a sequence of UTF-16 code  *)
(* units; an operation is a sequence of components that pass over it once. *)
(***************************************************************************)
EXTENDS Integers, SequencesExt

\* Components: a positive number retains, a negative one deletes, a string
\* inserts.
Retain(n)    == [kind |-> "retain", n |-> n, text |-> <<>>]
Delete(n)    == [kind |-> "delete", n |-> n, text |-> <<>>]
Insert(text) == [kind |-> "insert", n |-> 0, text |-> text]

\* What validateOp accepts: nothing is empty.
Component(Unit) == [kind : {"retain", "delete"}, n : Nat \ {0}, text : {<<>>}] \cup
                   [kind : {"insert"}, n : {0}, text : Seq(Unit) \ {<<>>}]
Operation(Unit) == Seq(Component(Unit))

IsKind(parts, kind) == parts # <<>> /\ Last(parts).kind = kind

Smaller(m, n) == IF m < n THEN m ELSE n
Larger(m, n)  == IF m < n THEN n ELSE m

\* What is made of `start` by one component after the other.
Through(Step(_, _), start, op) ==
  LET s[i \in 0 .. Len(op)] == IF i = 0 THEN start ELSE Step(s[i - 1], op[i])
  IN  s[Len(op)]

SumOf(Value(_), op) == Through(LAMBDA n, c : n + Value(c), 0, op)

----------------------------------------------------------------------------
\* OpBuilder: merges neighbours and puts inserts before deletes.

Grow(parts, n) == [parts EXCEPT ![Len(parts)].n = @ + n]

AddRetain(parts, n) ==
  IF n <= 0 THEN parts
  ELSE IF IsKind(parts, "retain") THEN Grow(parts, n) ELSE Append(parts, Retain(n))

AddDelete(parts, n) ==
  IF n <= 0 THEN parts
  ELSE IF IsKind(parts, "delete") THEN Grow(parts, n) ELSE Append(parts, Delete(n))

\* An insert joins the insert before it, also over a delete between them.
AddInsert(parts, text) ==
  IF text = <<>> THEN parts
  ELSE IF IsKind(parts, "delete")
       THEN IF IsKind(Front(parts), "insert")
            THEN [parts EXCEPT ![Len(parts) - 1].text = @ \o text]
            ELSE Append(Append(Front(parts), Insert(text)), Last(parts))
  ELSE IF IsKind(parts, "insert") THEN [parts EXCEPT ![Len(parts)].text = @ \o text]
  ELSE Append(parts, Insert(text))

AddPart(parts, c) == CASE c.kind = "retain" -> AddRetain(parts, c.n)
                       [] c.kind = "delete" -> AddDelete(parts, c.n)
                       [] c.kind = "insert" -> AddInsert(parts, c.text)

\* build: a trailing retain is dropped; with keepTrailingRetain, parts as is.
Build(parts) == IF IsKind(parts, "retain") THEN Front(parts) ELSE parts

Rebuild(op) == Through(AddPart, <<>>, op)

----------------------------------------------------------------------------
\* Lengths, normal forms, application.

opBaseLength(op)   == SumOf(LAMBDA c : c.n, op)

\* Mutant: what is deleted is counted.
TargetWithDeletes(op) == SumOf(LAMBDA c : c.n + Len(c.text), op)

opTargetLength(op) ==
  SumOf(LAMBDA c : IF c.kind = "delete" THEN 0 ELSE c.n + Len(c.text), op)

isNoop(op) == \A i \in DOMAIN op : op[i].kind = "retain"

normalizeOp(op) == Build(Rebuild(op))

\* fitOp, for an op that spans at most docLength.
fitOp(op, docLength) == AddRetain(Rebuild(op), docLength - opBaseLength(op))

Fits(op, doc) == opBaseLength(op) <= Len(doc)

\* applyOp, for an op that fits: where it is in the document, and what came out.
Take(doc, s, c) ==
  CASE c.kind = "insert" -> [s EXCEPT !.out = @ \o c.text]
    [] c.kind = "retain" -> [out |-> s.out \o SubSeq(doc, s.at + 1, s.at + c.n),
                             at |-> s.at + c.n]
    [] c.kind = "delete" -> [s EXCEPT !.at = @ + c.n]

Pass(doc, op) == Through(LAMBDA s, c : Take(doc, s, c), [out |-> <<>>, at |-> 0], op)

applyOp(doc, op) ==
  LET end == Pass(doc, op) IN end.out \o SubSeq(doc, end.at + 1, Len(doc))

----------------------------------------------------------------------------
\* Two operations side by side.  A component that was consumed in part stays at
\* the head of its operation, shortened.

Rest(c, n) == IF c.kind = "insert" THEN [c EXCEPT !.text = SubSeq(@, n + 1, Len(@))]
                                   ELSE [c EXCEPT !.n = @ - n]
Extent(c)  == IF c.kind = "insert" THEN Len(c.text) ELSE c.n
Consume(op, n) == IF Extent(Head(op)) > n THEN <<Rest(Head(op), n)>> \o Tail(op)
                                          ELSE Tail(op)

\* Mutant: what b deletes is deleted, also when a has inserted it.
FusedDeletesAll(ca, cb, n, out) ==
  CASE cb.kind = "delete" -> AddDelete(out, n)
    [] ca.kind = "insert" /\ cb.kind = "retain" -> AddInsert(out, SubSeq(ca.text, 1, n))
    [] ca.kind = "retain" /\ cb.kind = "retain" -> AddRetain(out, n)

\* What b does to n characters that a has kept or inserted.
Fused(ca, cb, n, out) ==
  CASE ca.kind = "insert" /\ cb.kind = "retain" -> AddInsert(out, SubSeq(ca.text, 1, n))
    [] ca.kind = "insert" /\ cb.kind = "delete" -> out
    [] ca.kind = "retain" /\ cb.kind = "retain" -> AddRetain(out, n)
    [] ca.kind = "retain" /\ cb.kind = "delete" -> AddDelete(out, n)

\* One round of composeOps on what is left of both; out is what is built so far.
ComposeRound(s) ==
  IF s.a = <<>> /\ s.b = <<>> THEN s
  ELSE IF s.a # <<>> /\ Head(s.a).kind = "delete"
       THEN [s EXCEPT !.a = Tail(@), !.out = AddDelete(@, Head(s.a).n)]
  ELSE IF s.b # <<>> /\ Head(s.b).kind = "insert"
       THEN [s EXCEPT !.b = Tail(@), !.out = AddInsert(@, Head(s.b).text)]
  ELSE LET ca == Head(s.a)
           cb == Head(s.b)
           n  == Smaller(Extent(ca), Extent(cb))
       IN  [a |-> Consume(s.a, n), b |-> Consume(s.b, n), out |-> Fused(ca, cb, n, s.out)]

\* Every round ends a component of one of them.
Compose(a, b) ==
  LET rounds == Len(a) + Len(b)
      s[i \in 0 .. rounds] == IF i = 0 THEN [a |-> a, b |-> b, out |-> <<>>]
                              ELSE ComposeRound(s[i - 1])
  IN  Build(s[rounds].out)

composeOps(a, b) ==
  LET docLen == Larger(opBaseLength(a),
                       opBaseLength(b) - opTargetLength(a) + opBaseLength(a))
      aa == fitOp(a, docLen)
  IN  Compose(aa, fitOp(b, opTargetLength(aa)))

\* One round of transformOps; aOut and bOut are what is built of a' and b'.
TransformRound(s) ==
  IF s.a = <<>> /\ s.b = <<>> THEN s
  ELSE IF s.a # <<>> /\ Head(s.a).kind = "insert"   \* a's insert wins the tie
       THEN LET text == Head(s.a).text
            IN  [s EXCEPT !.a = Tail(@), !.aOut = AddInsert(@, text),
                          !.bOut = AddRetain(@, Len(text))]
  ELSE IF s.b # <<>> /\ Head(s.b).kind = "insert"
       THEN LET text == Head(s.b).text
            IN  [s EXCEPT !.b = Tail(@), !.aOut = AddRetain(@, Len(text)),
                          !.bOut = AddInsert(@, text)]
  ELSE LET deletesA == Head(s.a).kind = "delete"
           deletesB == Head(s.b).kind = "delete"
           n == Smaller(Head(s.a).n, Head(s.b).n)
           made(out, deletes, other) == IF other THEN out
                                        ELSE IF deletes THEN AddDelete(out, n)
                                        ELSE AddRetain(out, n)
       IN  [a |-> Consume(s.a, n), b |-> Consume(s.b, n),
            aOut |-> made(s.aOut, deletesA, deletesB), bOut |-> made(s.bOut, deletesB, deletesA)]

Transform(a, b) ==
  LET rounds == Len(a) + Len(b)
      s[i \in 0 .. rounds] == IF i = 0 THEN [a |-> a, b |-> b, aOut |-> <<>>, bOut |-> <<>>]
                              ELSE TransformRound(s[i - 1])
  IN  <<Build(s[rounds].aOut), Build(s[rounds].bOut)>>

\* Mutant: the second operation wins ties.
TransformOtherWins(a, b) ==
  LET docLen == Larger(opBaseLength(a), opBaseLength(b))
      primes == Transform(fitOp(b, docLen), fitOp(a, docLen))
  IN  <<primes[2], primes[1]>>

transformOps(a, b) ==
  LET docLen == Larger(opBaseLength(a), opBaseLength(b))
  IN  Transform(fitOp(a, docLen), fitOp(b, docLen))

----------------------------------------------------------------------------
\* A caret through an op.

\* Mutant: a deletion around the caret takes all it deletes off its position.
DeletedAtAll(pos, n, index) == IF pos < index THEN n ELSE 0

\* How much of n characters deleted at pos was before index.
DeletedBefore(pos, n, index) ==
  IF pos + n <= index THEN n ELSE IF pos < index THEN index - pos ELSE 0

transformPosition(index, op, stickRight) ==
  LET Move(s, c) ==
        CASE c.kind = "insert" ->
               IF s.pos < index \/ (s.pos = index /\ stickRight)
               THEN [s EXCEPT !.result = @ + Len(c.text)] ELSE s
          [] c.kind = "retain" -> [s EXCEPT !.pos = @ + c.n]
          [] c.kind = "delete" ->
               [pos |-> s.pos + c.n,
                result |-> s.result - DeletedBefore(s.pos, c.n, index)]
      end == Through(Move, [pos |-> 0, result |-> index], op)
  IN  Larger(0, end.result)

----------------------------------------------------------------------------
\* The difference of two texts: common prefix and suffix, moved off the middle
\* of a surrogate pair.

\* Mutant: the common prefix may end within a surrogate pair.
StartAnywhere(before, prefix, High) == prefix

StartOf(before, prefix, High) ==
  IF prefix > 0 /\ before[prefix] \in High THEN prefix - 1 ELSE prefix

\* The longest common prefix, and the longest common suffix that does not reach
\* into it.
CommonPrefix(before, after) ==
  LET most == Smaller(Len(before), Len(after))
  IN  CHOOSE n \in 0 .. most :
        /\ \A i \in 1 .. n : before[i] = after[i]
        /\ n < most => before[n + 1] # after[n + 1]

CommonSuffix(before, after, prefix) ==
  LET most == Smaller(Len(before), Len(after)) - prefix
  IN  CHOOSE n \in 0 .. most :
        /\ \A i \in 0 .. n - 1 : before[Len(before) - i] = after[Len(after) - i]
        /\ n < most => before[Len(before) - n] # after[Len(after) - n]

diffToOp(before, after, High, Low) ==
  LET prefix == CommonPrefix(before, after)
      suffix == CommonSuffix(before, after, prefix)
      start  == StartOf(before, prefix, High)
      kept   == IF suffix > 0 /\ before[Len(before) - suffix + 1] \in Low
                THEN suffix - 1 ELSE suffix
  IN  Build(AddInsert(AddDelete(AddRetain(<<>>, start), Len(before) - kept - start),
                      SubSeq(after, start + 1, Len(after) - kept)))
=============================================================================
