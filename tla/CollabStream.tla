---------------------------- MODULE CollabStream -----------------------------
(***************************************************************************)
(* The live streams of a session: the listeners of CollabHub, the handler  *)
(* that opens a stream (sessionStream of http/server.ts) and the client    *)
(* that follows it and reconnects (CollabConnection), composed with        *)
(* CollabSession.  The frames on their way to a client form a pipe.        *)
(* Presence and relayed messages are left out.                             *)
(***************************************************************************)
EXTENDS CollabSession

CONSTANTS
  Watcher,     \* the users that follow the session
  ReplayLimit, \* how far behind a cursor may be
  MaxDrops     \* bound on broken connections

ASSUME StreamAssumption ==
  /\ Watcher \subseteq User
  /\ {ReplayLimit, MaxDrops} \subseteq Nat

VARIABLES
  conn,     \* the CollabConnection of each watcher and the frames under way to it
  drops     \* how many connections broke

streamVars == <<sessionVars, conn, drops>>

SnapshotFrame(v) == [kind |-> "snapshot", view |-> v]
EventFrame(n)    == [kind |-> "event", seq |-> n]
EndFrame         == [kind |-> "end"]
RevokedFrame     == [kind |-> "revoked"]

\* The frames for the events m to n.
EventFrames(m, n) == [i \in 1 .. n - m + 1 |-> EventFrame(m + i - 1)]

\* The connection is gone, with the frames on it.
Cut(c) == [c EXCEPT !.pc = "down", !.pipe = <<>>, !.fed = FALSE]

----------------------------------------------------------------------------
\* The server.

\* publish, after every commit: the new events go to the listeners; the last one
\* of a session closes its streams.
Publish ==
  LET new  == EventFrames(Len(log) + 1, Len(log'))
      last == status = "active" /\ status' = "ended"
  IN  conn' = [w \in Watcher |->
        IF ~conn[w].fed THEN conn[w]
        ELSE [conn[w] EXCEPT !.pipe = @ \o new \o (IF last THEN <<EndFrame>> ELSE <<>>),
                             !.fed  = ~last]]

SessionStep ==
  /\ \/ CreateSession
     \/ \E u \in User : \/ JoinSession(u) \/ LeaveSession(u) \/ EndSession(u)
                        \/ \E to \in User : HandoverControl(u, to)
                        \/ \E d \in Doc : CreateDoc(u, d) \/ SubmitDocOp(u, d)
                        \/ \E j \in Job : RunCommand(u, j)
     \/ \E j \in Job : JobActivity(j)
  /\ Publish /\ UNCHANGED drops

PollStep(j)  == Poll(j) /\ Publish /\ UNCHANGED drops
RestartStep  == Restart /\ Publish /\ UNCHANGED drops

\* The process dies: all connections are gone.
ServerDies ==
  /\ Crash \/ \E u \in User, j \in Job : RunCutShort(u, j)
  /\ conn' = [w \in Watcher |-> IF conn[w].pc = "open" THEN Cut(conn[w]) ELSE conn[w]]
  /\ UNCHANGED drops

\* A membership is changed.  A demotion ends the streams of the user when the
\* server makes it; it hears nothing of those of the administration CLI.
ChangeMember(u) ==
  /\ SetMember(u)
  /\ \/ /\ up /\ u \in Watcher /\ u \notin operators' /\ conn[u].fed
        /\ conn' = [conn EXCEPT ![u].pipe = Append(@, RevokedFrame), ![u].fed = FALSE]
     \/ UNCHANGED conn
  /\ UNCHANGED drops

\* What a connecting client is sent first: the events after its cursor, if it has
\* one that is not too far behind, or a snapshot.  Mutants: the first event is
\* missed; a client that resumes is sent nothing.
CatchUpSkips(v) ==
  IF v # NoView /\ Len(log) - v.seq <= ReplayLimit THEN EventFrames(v.seq + 2, Len(log))
  ELSE <<SnapshotFrame(Snapshot)>>
CatchUpNothing(v) ==
  IF v # NoView /\ Len(log) - v.seq <= ReplayLimit THEN <<>>
  ELSE <<SnapshotFrame(Snapshot)>>
CatchUp(v) ==
  IF v # NoView /\ Len(log) - v.seq <= ReplayLimit THEN EventFrames(v.seq + 1, Len(log))
  ELSE <<SnapshotFrame(Snapshot)>>

----------------------------------------------------------------------------
\* The client.

\* openStream and sessionStream.  Catching up and registering the listener are one
\* step; the stream of an ended session ends there.
Connect(w) ==
  /\ up /\ status # "none" /\ conn[w].pc = "down"
  /\ conn' = [conn EXCEPT ![w] =
       IF w \notin operators THEN [@ EXCEPT !.pc = "closed"]
       ELSE [@ EXCEPT !.pc   = "open",
                      !.pipe = CatchUp(conn[w].view)
                                \o (IF status = "ended" THEN <<EndFrame>> ELSE <<>>),
                      !.fed  = status # "ended"]]
  /\ UNCHANGED <<sessionVars, drops>>

\* applyCollabEvent accepts the event, or there is a CollabSyncError.
Applies(v, n) ==
  /\ n = v.seq + 1
  /\ log[n].type = "doc.created" => log[n].doc \notin DOMAIN v.docs
  /\ log[n].type = "doc.op" =>
       log[n].doc \in DOMAIN v.docs /\ log[n].rev = v.docs[log[n].doc] + 1
  /\ log[n].type \in {"command.started", "command.output", "command.finished"} =>
       log[n].job \in DOMAIN v.runs

\* One frame of consume, and what loop does when consume ends.
Handle(c, frame) ==
  LET rest == [c EXCEPT !.pipe = Tail(@)]
      v    == c.view
  IN  CASE frame.kind = "snapshot" -> [rest EXCEPT !.view = frame.view]
        [] frame.kind = "revoked"  -> [rest EXCEPT !.pc = "closed", !.pipe = <<>>]
        [] frame.kind = "end"      ->
             [Cut(c) EXCEPT !.pc = IF v.status = "ended" THEN "closed" ELSE "down"]
        [] frame.kind = "event"    ->
             IF v # NoView /\ frame.seq <= v.seq THEN rest
             ELSE IF Applies(v, frame.seq)
                  THEN [rest EXCEPT !.view = applyCollabEvent(v, log[frame.seq])]
                  ELSE [Cut(c) EXCEPT !.view = NoView]

Receive(w) ==
  /\ conn[w].pipe # <<>>
  /\ conn' = [conn EXCEPT ![w] = Handle(@, Head(@.pipe))]
  /\ UNCHANGED <<sessionVars, drops>>

\* The connection breaks, the token expires, or the server drops a slow consumer.
Break(w) ==
  /\ drops < MaxDrops
  /\ conn[w].pc = "open"
  /\ conn' = [conn EXCEPT ![w] = Cut(@)]
  /\ drops' = drops + 1
  /\ UNCHANGED sessionVars

\* maxInitialAttempts: a client that never was connected gives up.
GiveUp(w) ==
  /\ ~up /\ conn[w].pc = "down" /\ conn[w].view = NoView
  /\ conn' = [conn EXCEPT ![w].pc = "closed"]
  /\ UNCHANGED <<sessionVars, drops>>

StreamInit ==
  /\ SessionInit
  /\ conn = [w \in Watcher |-> [pc |-> "down", view |-> NoView, pipe |-> <<>>, fed |-> FALSE]]
  /\ drops = 0

StreamNext ==
  \/ SessionStep
  \/ \E j \in Job : PollStep(j)
  \/ RestartStep
  \/ ServerDies
  \/ \E u \in User : ChangeMember(u)
  \/ \E w \in Watcher : Connect(w) \/ Receive(w) \/ Break(w) \/ GiveUp(w)

\* The server is started again and polls; clients reconnect and read what arrives.
StreamFairness ==
  /\ WF_streamVars(RestartStep)
  /\ \A j \in Job : WF_streamVars(PollStep(j))
  /\ \A w \in Watcher : WF_streamVars(Connect(w)) /\ WF_streamVars(Receive(w))

FairStreamSpec == StreamInit /\ [][StreamNext]_streamVars /\ StreamFairness

----------------------------------------------------------------------------
\* Properties.

\* What is on its way to a client takes it, from what it has or from the snapshot
\* it is sent first, through exactly the events it lacks, one by one, up to the last
\* one if it is listening or is told that the session is over: "no gaps, no
\* duplicates", whenever it connected and whatever was published meanwhile
\* (connect, publish, sessionStream).
StreamsAreExact ==
  \A w \in Watcher : conn[w].pc = "open" =>
    LET pipe  == conn[w].pipe
        reset == pipe # <<>> /\ Head(pipe).kind = "snapshot"
        base  == IF reset THEN Head(pipe).view.seq - 1 ELSE conn[w].view.seq
    IN  /\ \A i \in DOMAIN pipe :
             \/ pipe[i].kind = "snapshot" /\ i = 1
             \/ pipe[i].kind = "event" /\ pipe[i].seq = base + i
             \/ pipe[i].kind = "revoked" /\ i = Len(pipe)
             \/ pipe[i].kind = "end" /\ i = Len(pipe) /\ base + i - 1 = Len(log)
        /\ conn[w].fed => base + Len(pipe) = Len(log)

\* Every client sees a moment of the session's history, through all reconnects,
\* snapshots and replays: two that have read as far see the same
\* (CollabConnection, applyCollabEvent).
ViewsAreHistory ==
  \A w \in Watcher : conn[w].view = Fold(SubSeq(log, 1, conn[w].view.seq))

\* A client that follows a session sees all that happens in it in the end, after
\* broken connections and restarts of the server, unless it is closed.
ViewersCatchUp ==
  \A w \in Watcher :
    conn[w].view.seq < Len(log) ~> conn[w].pc = "closed" \/ conn[w].view.seq = Len(log)
=============================================================================
