----------------------------- MODULE SharedDoc ------------------------------
(***************************************************************************)
(* A shared document: the server's copy (applyDocOp) and the clients that  *)
(* edit it (SharedDocSync over OtClient).  A client applies its edits at   *)
(* once, has one operation in flight and composes the rest; it learns of   *)
(* its own commits, as of the others', from the event stream.  Its POSTs   *)
(* may be delayed, lost and repeated.                                      *)
(***************************************************************************)
EXTENDS OtText, FiniteSets

CONSTANTS
  Client,      \* one SharedDocSync each
  EditKind,    \* what one edit does: some of "type", "erase", "replace"
  InitialText, \* what the document was created with (createDoc); a character is
               \* known by its number, so that no two are the same
  MaxAttempts, \* POSTs of one operation before it is given up (9 in the code)
  MaxDocChars, \* MAX_DOC_CHARS
  MaxRebase,   \* MAX_REBASE_DISTANCE
  MaxEdits,    \* bound on edits, of all clients
  MaxFailures, \* bound on POSTs without an answer, of all clients
  MaxResets    \* bound on fresh snapshots, of all clients

ASSUME DocAssumption == /\ IsFiniteSet(Client)
                        /\ MaxAttempts \in Nat \ {0}
                        /\ {MaxDocChars, MaxRebase} \subseteq Nat
                        /\ EditKind \subseteq {"type", "erase", "replace"}
                        /\ InitialText \in Seq(Nat \ 1 .. MaxEdits)
                        /\ IsInjective(InitialText)
                        /\ Len(InitialText) <= MaxDocChars
                        /\ {MaxEdits, MaxFailures, MaxResets} \subseteq Nat

VARIABLES
  content, \* collab_docs.content; its revision is the length of log
  log,     \* the doc.op events
  client,  \* the state of each SharedDocSync
  net,     \* POSTs that have not reached the server
  edits,   \* edits made so far; the n-th types the character n
  typed, erased, \* history: characters that were ever there, and deleted
  failures, resets \* how often the network and the stream misbehaved

docVars == <<content, log, client, net, edits, typed, erased, failures, resets>>

Rev == Len(log)

\* The document as of a revision.
ContentAt(rev) ==
  Through(LAMBDA text, committed : applyOp(text, committed.ops), InitialText,
          SubSeq(log, 1, rev))

None       == <<>>    \* no operation (an operation that does nothing is one)
NoRequest  == [seq |-> 0, baseRev |-> 0, ops |-> None]

\* rev, outstanding and buffer are OtClient's, the others SharedDocSync's; seq is
\* inFlightSeq, 0 when undefined.  While sendInFlight runs (sending), request is
\* the POST it waits for, number tries, and handled says that it was answered.
Fresh(text, rev) ==
  [text |-> text, rev |-> rev, outstanding |-> None, buffer |-> None,
   clientSeq |-> 0, seq |-> 0, timer |-> FALSE,
   sending |-> FALSE, tries |-> 0, request |-> NoRequest, handled |-> FALSE]

\* OtClient.state is not "synchronized".
Dirty(s) == s.outstanding # None

----------------------------------------------------------------------------
\* OtClient.

WithLocal(s, op) ==
  IF ~Dirty(s) THEN [s EXCEPT !.outstanding = <<op>>]
  ELSE [s EXCEPT !.buffer = IF @ = None THEN <<op>> ELSE <<composeOps(@[1], op)>>]

\* Mutant: what is held is rebased, what was committed is not.
PastOneWay(committed, held) ==
  <<committed, IF held = None THEN None ELSE <<transformOps(committed, held[1])[2]>>>>

\* A committed operation and a held one, each transformed over the other.
Past(committed, held) ==
  IF held = None THEN <<committed, None>>
  ELSE LET primes == transformOps(committed, held[1]) IN <<primes[1], <<primes[2]>>>>

\* applyRemote; the text takes what is left of the committed operation.
WithRemote(s, committed) ==
  LET past1 == Past(committed, s.outstanding)
      past2 == Past(past1[1], s.buffer)
  IN  [s EXCEPT !.rev = @ + 1, !.outstanding = past1[2], !.buffer = past2[2],
                !.text = applyOp(@, past2[1])]

WithAck(s) == [s EXCEPT !.rev = @ + 1, !.outstanding = s.buffer, !.buffer = None,
                        !.seq = 0]

----------------------------------------------------------------------------
\* SharedDocSync.

ScheduleSend(s) == IF s.timer \/ s.sending THEN s ELSE [s EXCEPT !.timer = TRUE]

\* Mutant: a retry sends the first attempt's operation, at the revision of now.
PostingOriginal(s) ==
  [s EXCEPT !.request = [seq |-> s.seq, baseRev |-> s.rev,
                         ops |-> IF @ = NoRequest THEN s.outstanding ELSE @.ops],
            !.handled = FALSE]

\* One POST: the operation in flight as it is now, at the revision of now.
Posting(s) == [s EXCEPT !.request = [seq |-> s.seq, baseRev |-> s.rev, ops |-> s.outstanding],
                        !.handled = FALSE]

\* Mutant: an operation promoted while sendInFlight ran is forgotten.
FinallyForgets(s) == [s EXCEPT !.sending = FALSE, !.tries = 0, !.request = NoRequest,
                               !.handled = FALSE]

\* The end of sendInFlight: an operation promoted while it ran is sent next.
Finally(s) ==
  LET done == [s EXCEPT !.sending = FALSE, !.tries = 0, !.request = NoRequest,
                        !.handled = FALSE]
  IN  IF Dirty(done) /\ done.seq = 0 THEN ScheduleSend(done) ELSE done

\* applyLocal: one character is typed, deleted or replaced, anywhere in the text.
ApplyLocal(c, p, kind) ==
  LET s      == client[c]
      n      == edits + 1
      types  == kind # "erase"
      erases == kind # "type"
      op     == Build(AddInsert(AddDelete(AddRetain(<<>>, p), IF erases THEN 1 ELSE 0),
                                IF types THEN <<n>> ELSE <<>>))
      local  == WithLocal([s EXCEPT !.text = applyOp(@, op)], op)
  IN  /\ Len(s.text) >= p + (IF erases THEN 1 ELSE 0)
      /\ edits < MaxEdits
      /\ edits' = n
      /\ typed' = typed \cup IF types THEN {n} ELSE {}
      /\ erased' = erased \cup IF erases THEN {s.text[p + 1]} ELSE {}
      /\ client' = [client EXCEPT ![c] = IF Dirty(s) THEN local ELSE ScheduleSend(local)]
      /\ UNCHANGED <<content, log, net, failures, resets>>

\* The timer of scheduleSend fires: sendInFlight, up to its first await.
SendInFlight(c) ==
  LET s    == [client[c] EXCEPT !.timer = FALSE]
      seq  == IF s.seq = 0 THEN s.clientSeq + 1 ELSE s.seq
      sent == Posting([s EXCEPT !.sending = TRUE, !.tries = 1, !.seq = seq,
                                !.clientSeq = IF s.seq = 0 THEN seq ELSE @])
  IN  /\ client[c].timer
      /\ IF Dirty(s) /\ ~s.sending
         THEN /\ client' = [client EXCEPT ![c] = sent]
              /\ net' = net \cup {<<c, sent.request>>}
         ELSE client' = [client EXCEPT ![c] = s] /\ UNCHANGED net
      /\ UNCHANGED <<content, log, edits, typed, erased, failures, resets>>

\* The POST was answered, with the commit or with a refusal.
PostAnswered(c) ==
  /\ client[c].handled
  /\ client' = [client EXCEPT ![c] = Finally(@)]
  /\ UNCHANGED <<content, log, net, edits, typed, erased, failures, resets>>

\* A transient failure: the request was lost, or is late, or its answer was
\* lost.  Send again what is in flight now, unless it was acknowledged
\* meanwhile; after the last attempt report an error and stop.
PostFailed(c, lost) ==
  LET s    == client[c]
      left == IF lost THEN net \ {<<c, s.request>>} ELSE net
      sent == Posting([s EXCEPT !.tries = @ + 1])
  IN  /\ s.sending
      /\ failures < MaxFailures
      /\ failures' = failures + 1
      /\ IF s.tries < MaxAttempts /\ Dirty(s) /\ s.seq = s.request.seq
         THEN /\ client' = [client EXCEPT ![c] = sent]
              /\ net' = left \cup {<<c, sent.request>>}
         ELSE client' = [client EXCEPT ![c] = Finally(s)] /\ net' = left
      /\ UNCHANGED <<content, log, edits, typed, erased, resets>>

\* onEvent: the next doc.op of the stream is the client's own, or another's.
Deliver(c) ==
  LET s     == client[c]
      d     == log[s.rev + 1]
      acked == WithAck(s)
  IN  /\ s.rev < Rev
      /\ client' = [client EXCEPT ![c] =
           IF d.client = c /\ d.seq = s.seq /\ Dirty(s)
           THEN IF Dirty(acked) THEN ScheduleSend(acked) ELSE acked
           ELSE WithRemote(s, d.ops)]
      /\ UNCHANGED <<content, log, net, edits, typed, erased, failures, resets>>

\* resetFrom: the stream could not resume and sent a snapshot, as of some
\* revision; local edits that were not acknowledged are dropped.
Reset(c, rev) ==
  /\ resets < MaxResets
  /\ resets' = resets + 1
  /\ client' = [client EXCEPT ![c] =
       [@ EXCEPT !.text = ContentAt(rev), !.rev = rev, !.outstanding = None,
                 !.buffer = None, !.seq = 0, !.timer = FALSE]]
  /\ UNCHANGED <<content, log, net, edits, typed, erased, failures>>

----------------------------------------------------------------------------
\* The server.

\* Mutant: a retry is not recognized.
NeverCommitted(c, r) == FALSE

Committed(c, r) == \E i \in DOMAIN log : log[i].client = c /\ log[i].seq = r.seq

\* The operation transformed over everything committed since its base.
Rebased(r) ==
  normalizeOp(Through(LAMBDA op, committed : transformOps(committed.ops, op)[2],
                      r.ops[1], SubSeq(log, r.baseRev + 1, Rev)))

\* STALE_BASE and TOO_LARGE.
Refuses(r) == \/ Rev - r.baseRev > MaxRebase
              \/ Len(applyOp(content, Rebased(r))) > MaxDocChars

\* applyDocOp.  A retry of what was committed is answered as before and changes
\* nothing.
ApplyDocOp(c, r) ==
  /\ net' = net \ {<<c, r>>}
  /\ IF Committed(c, r) \/ Refuses(r) THEN UNCHANGED <<content, log>>
     ELSE /\ content' = applyOp(content, Rebased(r))
          /\ log' = Append(log, [ops |-> Rebased(r), client |-> c, seq |-> r.seq])
  /\ client' = [client EXCEPT ![c].handled = @ \/ client[c].request = r]
  /\ UNCHANGED <<edits, typed, erased, failures, resets>>

----------------------------------------------------------------------------

DocInit ==
  /\ content = InitialText
  /\ log = <<>>
  /\ client = [c \in Client |-> Fresh(InitialText, 0)]
  /\ net = {}
  /\ edits = 0
  /\ typed = Range(InitialText) /\ erased = {}
  /\ failures = 0 /\ resets = 0

Edit == \E c \in Client : \E p \in 0 .. Len(client[c].text), kind \in EditKind :
          ApplyLocal(c, p, kind)

Arrive == \E post \in net : ApplyDocOp(post[1], post[2])

DocNext ==
  \/ Edit
  \/ \E c \in Client : SendInFlight(c)
  \/ \E c \in Client : PostAnswered(c)
  \/ \E c \in Client, lost \in BOOLEAN : PostFailed(c, lost)
  \/ \E c \in Client : Deliver(c)
  \/ \E c \in Client : \E rev \in client[c].rev .. Rev : Reset(c, rev)
  \/ Arrive

DocSpec == DocInit /\ [][DocNext]_docVars

\* What is still on the network arrives, timers fire, answers are handled, and
\* the stream reconnects and delivers.  (Weak fairness; where the action
\* transforms operations its enabling condition is written out, because TLC is
\* slow to find it.)
DocFairness ==
  /\ []<>(net = {}) \/ []<><<Arrive>>_docVars
  /\ \A c \in Client : /\ WF_docVars(SendInFlight(c))
                       /\ WF_docVars(PostAnswered(c))
                       /\ []<>(client[c].rev = Rev) \/ []<><<Deliver(c)>>_docVars

FairDocSpec == DocSpec /\ DocFairness

----------------------------------------------------------------------------
\* Properties.

Char == 1 .. MaxEdits \cup Range(InitialText)

\* Type invariant, with what the flags of a SharedDocSync mean for each other: it
\* waits for an answer exactly while it has a request, holds no buffer without
\* an operation in flight, and numbers it before it is sent.
DocTypeOK ==
  /\ content \in Seq(Char) /\ Len(content) <= MaxDocChars
  /\ log \in Seq([ops: Operation(Char), client: Client, seq: 1 .. MaxEdits])
  /\ \A post \in net : post[1] \in Client /\ Len(post[2].ops) = 1
  /\ \A c \in Client :
       LET s == client[c] IN
         /\ s.text \in Seq(Char)
         /\ s.rev \in 0 .. Rev
         /\ \A op \in Range(s.outstanding \o s.buffer) : op \in Operation(Char)
         /\ s.sending <=> s.request # NoRequest
         /\ s.sending <=> s.tries \in 1 .. MaxAttempts
         /\ s.handled => s.sending
         /\ s.buffer # None => Dirty(s)
         /\ s.seq # 0 => Dirty(s) /\ s.seq = s.clientSeq

\* What a user sees is the document at the revision the client has, with the
\* edits it has not had acknowledged on top: in flight, then buffered.  So
\* clients with nothing in flight and all events read show the same text, and
\* what they show is what the server stored.
ViewIsDocPlusEdits ==
  LET With(text, held) == IF held = None THEN text ELSE applyOp(text, held[1])
  IN  \A c \in Client :
        client[c].text =
          With(With(ContentAt(client[c].rev), client[c].outstanding), client[c].buffer)

\* Both together: what a client holds makes sense, between any two of its callbacks.
ClientsConsistent == DocTypeOK /\ ViewIsDocPlusEdits

\* The server never has reason to reject what an honest client sends, however
\* late it arrives: an operation fits the revision it is based on, and that
\* revision exists (applyDocOp's FUTURE_BASE and INVALID_OP).
RequestsFit ==
  \A post \in net : /\ post[2].baseRev <= Rev
                    /\ Fits(post[2].ops[1], ContentAt(post[2].baseRev))

\* Every edit arrives once.  "Retrying the same (clientId, clientSeq) is safe and
\* applies the edit once" (collab.ts): no character is ever twice in a text, in
\* spite of retries, late requests and snapshots.  As long as no snapshot was
\* forced on a client, none is lost and no deletion undone either: every
\* character typed and not deleted is in the document, or in the view of a
\* client that still has an edit to send; and when nobody has one, exactly
\* those are.
EditsSurviveOnce ==
  /\ IsInjective(content) /\ \A c \in Client : IsInjective(client[c].text)
  /\ resets = 0 =>
    /\ \A n \in typed \ erased :
         n \in Range(content) \/ \E c \in Client : Dirty(client[c]) /\ n \in Range(client[c].text)
    /\ (\A c \in Client : ~Dirty(client[c])) => Range(content) = typed \ erased

\* Every edit is committed in the end, when fewer requests fail than
\* sendInFlight is ready to repeat.
EditsAreCommitted == \A c \in Client : Dirty(client[c]) ~> ~Dirty(client[c])
=============================================================================
