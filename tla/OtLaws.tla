------------------------------- MODULE OtLaws -------------------------------
(***************************************************************************)
(* The laws of OtText, each against a definition of its own: a document is *)
(* a row of characters and the gaps around them, an operation deletes some *)
(* characters and fills some gaps.  A state is one input; nothing moves.   *)
(***************************************************************************)
EXTENDS OtText

CONSTANTS
  MaxDoc,        \* longest document
  MaxComponents, \* longest operation
  MaxCount,      \* most characters a component retains or deletes
  TextsA, TextsB, \* what the first operation may insert, and the second
  High, Low, Plain, \* the halves of a surrogate pair, and other code units
  MaxText        \* longest text that is diffed

ASSUME LawAssumption ==
  /\ MaxDoc \in Nat /\ MaxComponents \in Nat /\ MaxText \in Nat /\ MaxCount \in Nat
  /\ \A text \in TextsA \cup TextsB : text \in Seq(Range(text)) /\ text # <<>>
  /\ High \cap Low = {}

VARIABLES
  doc,    \* a document: the characters 1, 2, 3, ...
  a, b,   \* two operations that fit it
  before, after \* two texts without lone surrogates

lawVars == <<doc, a, b, before, after>>

\* Every operation, canonical or not.
Ops(texts) == BoundedSeq({Retain(n) : n \in 1 .. MaxCount} \cup {Delete(n) : n \in 1 .. MaxCount}
                           \cup {Insert(text) : text \in texts}, MaxComponents)

\* isWellFormedText: no lone half of a surrogate pair.
isWellFormedText(text) ==
  \A i \in DOMAIN text :
    /\ text[i] \in High => i < Len(text) /\ text[i + 1] \in Low
    /\ text[i] \in Low  => i > 1 /\ text[i - 1] \in High

Texts == {t \in BoundedSeq(High \cup Low \cup Plain, MaxText) : isWellFormedText(t)}

OpInputs ==
  /\ doc \in {[i \in 1 .. n |-> i] : n \in 0 .. MaxDoc}
  /\ a \in {op \in Ops(TextsA) : Fits(op, doc)}
  /\ b \in {op \in Ops(TextsB) : Fits(op, doc)}
  /\ before = <<>> /\ after = <<>>

TextInputs ==
  /\ doc = <<>> /\ a = <<>> /\ b = <<>>
  /\ before \in Texts /\ after \in Texts

LawSpec == (OpInputs \/ TextInputs) /\ [][UNCHANGED lawVars]_lawVars

----------------------------------------------------------------------------
\* What an operation does to the gaps and the characters of a document.

Before(op, k) == opBaseLength(SubSeq(op, 1, k - 1))

\* The text op puts into gap g (between characters g and g + 1).
Filled(op, g) ==
  FlattenSeq([k \in DOMAIN op |-> IF op[k].kind = "insert" /\ Before(op, k) = g
                                  THEN op[k].text ELSE <<>>])

Deletes(op, i) == \E k \in DOMAIN op : /\ op[k].kind = "delete"
                                       /\ Before(op, k) < i
                                       /\ i <= Before(op, k) + op[k].n

Result(n, Gap(_), Gone(_)) ==
  Gap(0) \o FlattenSeq([i \in 1 .. n |-> (IF Gone(i) THEN <<>> ELSE <<i>>) \o Gap(i)])

\* Both operations at once: all that either deletes is gone, all that either
\* inserts is there, the first one's text in front.
Merged(n, p, q) == Result(n, LAMBDA g : Filled(p, g) \o Filled(q, g),
                             LAMBDA i : Deletes(p, i) \/ Deletes(q, i))

----------------------------------------------------------------------------

\* applyOp does what the operation says, and its length is what the server
\* computes from the components when it checks the base of an operation.
ApplyIsEdit ==
  /\ applyOp(doc, a) = Result(Len(doc), LAMBDA g : Filled(a, g), LAMBDA i : Deletes(a, i))
  /\ Len(applyOp(doc, a)) = Len(doc) + opTargetLength(a) - opBaseLength(a)

\* Two concurrent operations give the same text in either order, and that text
\* is the merge of both: no edit is lost, none is applied twice, the committed
\* operation (the first) wins ties.
TransformMerges ==
  LET primes == transformOps(a, b)
      merged == Merged(Len(doc), Rebuild(a), Rebuild(b))
  IN  /\ applyOp(applyOp(doc, a), primes[2]) = merged
      /\ applyOp(applyOp(doc, b), primes[1]) = merged

\* composeOps is one operation with the effect of two: what a client buffers is
\* what it will send.
ComposeIsSequence ==
  Fits(b, applyOp(doc, a)) =>
    /\ Fits(composeOps(a, b), doc)
    /\ applyOp(doc, composeOps(a, b)) = applyOp(applyOp(doc, a), b)

\* normalizeOp, applied to what the server stores, keeps the effect and is
\* canonical: neighbours merged, inserts first, no trailing retain, and doing
\* it again changes nothing.
NormalFormKeepsTheEdit ==
  LET n == normalizeOp(a)
  IN  /\ applyOp(doc, n) = applyOp(doc, a)
      /\ normalizeOp(n) = n
      /\ \A i \in 1 .. Len(n) - 1 : /\ n[i].kind # n[i + 1].kind
                                    /\ ~(n[i].kind = "delete" /\ n[i + 1].kind = "insert")
      /\ ~IsKind(n, "retain")

\* Both together: an operation is the edit it describes, in its normal form too.
OperationIsEdit == ApplyIsEdit /\ NormalFormKeepsTheEdit

\* A caret stays between the characters it was between: it moves by what is
\* inserted before it (or at it, when it sticks to the right) and by what is
\* deleted before it.
CaretStaysInPlace ==
  \A index \in 0 .. Len(doc), stickRight \in BOOLEAN :
    transformPosition(index, a, stickRight) =
      Len(FlattenSeq([g \in 1 .. index + 1 |->
                        IF g <= index \/ stickRight THEN Filled(a, g - 1) ELSE <<>>]))
        + Cardinality({i \in 1 .. index : ~Deletes(a, i)})

\* diffToOp turns one text into the other, and neither leaves nor inserts half
\* of a surrogate pair (the server would refuse it).
DiffReachesTheText ==
  LET op == diffToOp(before, after, High, Low)
  IN  /\ applyOp(before, op) = after
      /\ \A i \in DOMAIN op : op[i].kind = "insert" => isWellFormedText(op[i].text)
      /\ \A g \in 1 .. Len(before) - 1 :
           (\E i \in DOMAIN op : g = Before(op, i)) => before[g] \notin High
=============================================================================
