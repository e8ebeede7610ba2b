---------------------------- MODULE ModelService ----------------------------
(***************************************************************************)
(* The collector asks the model service whether its features are an        *)
(* anomaly: WsModelClient::InferAnomaly on one side, the /anomaly handlers *)
(* of ws_server.py on the other.                                           *)
(*                                                                         *)
(* The collector waits for one answer at a time and gives up a connection  *)
(* after any failure.  The service is one event loop: a handler runs       *)
(* without interruption up to its next await.  All its connections share   *)
(* one session, and a fit or a scoring goes on in a thread although the    *)
(* client has left.  The service may be restarted.                         *)
(*                                                                         *)
(* Only the waits for input have a time-out, and a ping starts it afresh.  *)
(* getaddrinfo and send have none: while the other side is stalled, the    *)
(* call may stay in them.                                                  *)
(***************************************************************************)
EXTENDS Sequences, Integers

CONSTANTS
  Timeout,       \* anomaly_timeout_ms; 0 would wait for ever
  Warmup,        \* warmup_seconds
  Stride,        \* stride_seconds
  Window,        \* window_seconds
  MaxNow,        \* bound: time
  MaxQuestions,  \* bound: calls of InferAnomaly
  MaxRestarts,   \* bound: restarts of the service
  MaxConns       \* bound: connections the service has not forgotten

ASSUME ServiceConstants ==
  /\ Timeout \in Nat \ {0}
  /\ Warmup \in Nat /\ Stride \in Nat /\ Window \in Nat
  /\ MaxNow \in Nat /\ MaxQuestions \in Nat /\ MaxRestarts \in Nat
  /\ MaxConns \in Nat

VARIABLES
  now,       \* CLOCK_MONOTONIC of the host, which both sides read
  client,    \* where InferAnomaly is
  current,   \* WsClient::fd_: the connection, 0 when closed
  asked,     \* seq of the features last asked about
  askedAt,   \* and when
  answered,  \* seq of the answer InferAnomaly returned, 0 for a failure
  failures,  \* Failures(): consecutive ones
  deadline,  \* RecvText: when its poll gives up; 0 outside of it
  stalled,   \* the name server or the service takes nothing more from the collector
  conns,     \* the connections: see Blank
  buffer,    \* AnomalySession: the times of its points, in the order they came in
  session,   \* and the rest of it: see NewSession
  restarts,  \* restarts of the service
  scores     \* history: when the scorings since the last fit began

vars == <<now, client, current, asked, askedAt, answered, failures,
          deadline, stalled, conns, buffer, session, restarts, scores>>

callVars    == <<asked, askedAt, answered, failures>>
clientVars  == <<client, current, callVars, deadline, stalled>>
serviceVars == <<buffer, session, restarts, scores>>

\* client: the collector has it open; server: where the handler is; requests and
\* replies: on their way; seq and at: the request in hand and when it was read.
Blank(open, handler) ==
  [client |-> open, server |-> handler, requests |-> <<>>, replies |-> <<>>,
   seq |-> 0, at |-> 0]

NewConn(open) == Blank(open, "receive")
Closed == Blank(FALSE, "gone")

NewSession == [fitDone |-> FALSE, lastScore |-> 0]

Conns == 1..MaxConns

\* Where a new connection is kept.
FreeConns == {k \in Conns : conns[k] = Closed}
Fresh == CHOOSE k \in FreeConns : TRUE

Requests == Seq([seq : 0..MaxQuestions, ts : 0..MaxNow])

Conn ==
  [client : BOOLEAN, server : {"receive", "fit", "score", "gone"},
   requests : Requests, replies : Seq(0..MaxQuestions),
   seq : 0..MaxQuestions, at : 0..MaxNow]

TypeOK ==
  /\ now \in 0..MaxNow
  /\ client \in {"idle", "connect", "send", "wait", "pong"}
  /\ current \in 0..MaxConns
  /\ asked \in 0..MaxQuestions /\ askedAt \in 0..now
  /\ answered \in 0..asked /\ failures \in 0..asked
  /\ deadline \in Nat /\ stalled \in BOOLEAN
  /\ restarts \in 0..MaxRestarts
  /\ conns \in [Conns -> Conn]
  /\ \A k \in Conns :
       /\ conns[k].client <=> k = current
       /\ Len(conns[k].requests) <= 1 /\ Len(conns[k].replies) <= 1
       /\ conns[k].at <= now
  /\ session \in [fitDone : BOOLEAN, lastScore : 0..now]
  /\ client \in {"send", "wait", "pong"} => current # 0

Init ==
  /\ now = 0 /\ client = "idle" /\ current = 0
  /\ asked = 0 /\ askedAt = 0 /\ answered = 0 /\ failures = 0
  /\ deadline = 0 /\ stalled = FALSE
  /\ conns = [k \in Conns |-> Closed] /\ buffer = <<>> /\ session = NewSession
  /\ restarts = 0 /\ scores = <<>>

\* The bound on time leaves room for a poll to time out.
Tick ==
  /\ now < MaxNow
  /\ client \in {"connect", "send", "pong"} => now + Timeout < MaxNow
  /\ now' = now + 1
  /\ UNCHANGED <<clientVars, conns, serviceVars>>

---------------------------------------------------------------------------
(* The collector. *)

Ask ==
  /\ client = "idle" /\ asked < MaxQuestions /\ now + Timeout <= MaxNow
  /\ asked' = asked + 1 /\ askedAt' = now /\ answered' = 0
  /\ client' = IF current = 0 THEN "connect" ELSE "send"
  /\ UNCHANGED <<now, current, failures, deadline, stalled, conns, serviceVars>>

\* Fault: a session for each connection (KeepsTheFit).
FaultConnect ==
  /\ client = "connect" /\ FreeConns # {}
  /\ conns' = [conns EXCEPT ![Fresh] = NewConn(TRUE)]
  /\ current' = Fresh
  /\ client' = "send"
  /\ buffer' = <<>> /\ session' = NewSession
  /\ UNCHANGED <<now, callVars, deadline, stalled, restarts, scores>>

\* The name is resolved, the connection opened and its handshake done.
Connect ==
  /\ client = "connect" /\ FreeConns # {}
  /\ conns' = [conns EXCEPT ![Fresh] = NewConn(TRUE)]
  /\ current' = Fresh
  /\ client' = "send"
  /\ UNCHANGED <<now, callVars, deadline, stalled, serviceVars>>

\* The call fails; any connection is given up.
Fail ==
  /\ client' = "idle" /\ current' = 0
  /\ failures' = failures + 1
  /\ deadline' = 0
  /\ UNCHANGED <<now, asked, askedAt, answered, stalled, serviceVars>>

\* The name is unknown, nobody listens, or the handshake is cut short.
ConnectFails ==
  /\ client = "connect"
  /\ \/ UNCHANGED conns
     \/ FreeConns # {} /\ conns' = [conns EXCEPT ![Fresh] = NewConn(FALSE)]
  /\ Fail

GiveUp ==
  conns' = [conns EXCEPT ![current] = [@ EXCEPT !.client = FALSE, !.replies = <<>>]]

\* RecvText polls for the next frame.
Poll ==
  /\ client' = "wait" /\ deadline' = now + Timeout
  /\ UNCHANGED <<now, current, callVars, stalled, serviceVars>>

\* SendText has handed over all of the frame, and RecvText begins.  What is sent
\* to a handler that has ended is lost, noticed or not.
Send ==
  /\ client = "send"
  /\ conns' = IF conns[current].server = "gone" THEN conns
              ELSE [conns EXCEPT ![current].requests = Append(@, [seq |-> asked, ts |-> askedAt])]
  /\ Poll

\* The same for the frame of a question and for a pong.
SendFails ==
  /\ client \in {"send", "pong"} /\ conns[current].server = "gone"
  /\ GiveUp /\ Fail

\* RecvText: the service's library has sent a ping, which may come at any time.
Pinged ==
  /\ client = "wait" /\ conns[current].server # "gone" /\ now + Timeout <= MaxNow
  /\ client' = "pong"
  /\ UNCHANGED <<now, current, callVars, deadline, stalled, conns, serviceVars>>

\* It is answered, and the poll begins again with the whole time-out.
Pong ==
  /\ client = "pong"
  /\ UNCHANGED conns /\ Poll

Receive ==
  /\ client = "wait" /\ conns[current].replies # <<>>
  /\ answered' = Head(conns[current].replies)
  /\ conns' = [conns EXCEPT ![current].replies = Tail(@)]
  /\ client' = "idle" /\ failures' = 0
  /\ deadline' = 0
  /\ UNCHANGED <<now, current, asked, askedAt, stalled, serviceVars>>

\* Fault: RoundTrip keeps a connection that timed out (AnswerIsForQuestion, TypeOK).
FaultRecvFails ==
  /\ client = "wait" /\ conns[current].replies = <<>>
  /\ now >= deadline
  /\ client' = "idle" /\ failures' = failures + 1
  /\ deadline' = 0
  /\ UNCHANGED <<now, current, asked, askedAt, answered, stalled, conns, serviceVars>>

\* Fault: the wait has no limit (CallReturns).
FaultNoTimeout ==
  /\ client = "wait" /\ conns[current].replies = <<>>
  /\ conns[current].server = "gone"
  /\ GiveUp /\ Fail

\* RecvText returns false: the peer closed, or nothing came in time.
RecvFails ==
  /\ client = "wait" /\ conns[current].replies = <<>>
  /\ \/ conns[current].server = "gone"
     \/ now >= deadline
  /\ GiveUp /\ Fail

\* The other side stops taking what is sent to it, or takes it again: a service
\* that is stopped or does not read, a name server or a network that is silent.
Stalls ==
  /\ stalled' = ~stalled
  /\ UNCHANGED <<now, client, current, callVars, deadline, conns, serviceVars>>

---------------------------------------------------------------------------
(* The service: what a handler does between two awaits. *)

\* ingest: the point is appended, and the buffer cut by time if its head is old.
Ingested(ts) ==
  LET longer == Append(buffer, ts)
      cutoff == ts - (Warmup + 2 * Window)
      recent(t) == t >= cutoff
  IN  IF Head(longer) < cutoff THEN SelectSeq(longer, recent) ELSE longer

WarmingUp(points) == now - Head(points) < Warmup

\* A reply on a connection the collector gave up is lost.
Replied(c) ==
  [c EXCEPT !.server = "receive", !.seq = 0, !.at = 0,
            !.replies = IF c.client THEN Append(@, c.seq) ELSE @]

\* Fault: the time of a scoring is not noted before its result is awaited (ScoresApart).
FaultNoted(scoring) == session.lastScore

Noted(scoring) == IF scoring THEN now ELSE session.lastScore

\* One request: a warm-up reply, a fit, a scoring that is due, or a quiet reply.
Handle(k) ==
  LET q       == Head(conns[k].requests)
      c       == [conns[k] EXCEPT !.requests = Tail(@), !.seq = q.seq, !.at = now]
      fit     == ~session.fitDone /\ ~WarmingUp(Ingested(q.ts))
      scoring == session.fitDone /\ now - session.lastScore >= Stride
  IN  /\ conns[k].server = "receive" /\ conns[k].requests # <<>>
      /\ conns' = [conns EXCEPT ![k] =
           CASE fit     -> [c EXCEPT !.server = "fit"]
             [] scoring -> [c EXCEPT !.server = "score"]
             [] OTHER   -> Replied(c)]
      /\ buffer' = Ingested(q.ts)
      /\ session' = [session EXCEPT !.lastScore = Noted(scoring)]
      /\ scores' = IF scoring THEN Append(scores, now) ELSE scores
      /\ UNCHANGED <<now, clientVars, restarts>>

\* A request that cannot be read or ingested is passed over without a reply.
Skip(k) ==
  /\ conns[k].server = "receive" /\ conns[k].requests # <<>>
  /\ conns' = [conns EXCEPT ![k].requests = Tail(@)]
  /\ UNCHANGED <<now, clientVars, serviceVars>>

\* The thread of a fit ends.
FitDone(k) ==
  /\ conns[k].server = "fit"
  /\ session' = [session EXCEPT !.fitDone = TRUE, !.lastScore = conns[k].at]
  /\ scores' = <<>>
  /\ conns' = [conns EXCEPT ![k] = Replied(@)]
  /\ UNCHANGED <<now, clientVars, buffer, restarts>>

FitFails(k) ==
  /\ conns[k].server = "fit"
  /\ conns' = [conns EXCEPT ![k] = Replied(@)]
  /\ UNCHANGED <<now, clientVars, serviceVars>>

\* The thread of a scoring ends, with incidents, without, or with an exception.
ScoreEnds(k) ==
  /\ conns[k].server = "score"
  /\ conns' = [conns EXCEPT ![k] = Replied(@)]
  /\ UNCHANGED <<now, clientVars, serviceVars>>

\* The handler sees that the client has left, or a ping was not answered in time:
\* the collector answers pings only while it waits for a reply.
Disconnect(k) ==
  /\ conns[k].server = "receive"
  /\ conns' = [conns EXCEPT ![k].server = "gone", ![k].requests = <<>>]
  /\ UNCHANGED <<now, clientVars, serviceVars>>

Restart ==
  /\ restarts < MaxRestarts
  /\ restarts' = restarts + 1
  /\ buffer' = <<>> /\ session' = NewSession /\ scores' = <<>>
  /\ conns' = [k \in Conns |->
       [conns[k] EXCEPT !.server = "gone", !.requests = <<>>, !.seq = 0, !.at = 0]]
  /\ UNCHANGED <<now, clientVars>>

Call == Ask \/ Connect \/ ConnectFails \/ Send \/ SendFails \/ Pong \/ Receive \/ RecvFails

Handler(k) ==
  Handle(k) \/ Skip(k) \/ FitDone(k) \/ FitFails(k) \/ ScoreEnds(k) \/ Disconnect(k)

Next == Tick \/ Call \/ Pinged \/ Stalls \/ (\E k \in Conns : Handler(k)) \/ Restart

\* Where the collector may be held: getaddrinfo, the handshake's send, SendText's
\* and the pong's have no time-out.  What fits in the buffers goes out all the same.
Held == stalled /\ client \in {"connect", "send", "pong"}

\* The collector's thread is scheduled and time passes; the service owes nothing.
Spec == Init /\ [][Next]_vars /\ WF_vars(Tick) /\ WF_vars(~Held /\ Call)

---------------------------------------------------------------------------
(* Properties. *)

\* InferAnomaly does not compare the seq of an answer with that of its question;
\* the two agree all the same, whatever was left unread on earlier connections.
AnswerIsForQuestion == answered \in {0, asked}

\* Reconnects reuse the fitted detector (_get_session): once a fit is done, none
\* begins before the service is restarted.
KeepsTheFit ==
  [][session.fitDone /\ restarts' = restarts =>
       /\ session'.fitDone
       /\ \A k \in Conns : conns'[k].server = "fit" => conns[k].server = "fit"]_vars

\* Scorings that follow the same fit begin at least a stride apart, also when the
\* collector gave up waiting for one and asks again on a new connection.
ScoresApart ==
  \A i, j \in 1..Len(scores) : i < j => scores[j] - scores[i] >= Stride

\* The main loop gets out of InferAnomaly although no answer comes, if what it
\* sends is taken in the end and the pings cease; without either it need not.
CallReturns ==
  <>[]~stalled /\ <>[][~Pinged]_vars => (client # "idle" ~> client = "idle")

\* "collector reconnects (WS transport errors/timeouts) must reuse the fitted
\* detector instead of re-fitting": no fit begins while another one is going on.
OneFit == \A j, k \in Conns : conns[j].server = "fit" /\ conns[k].server = "fit" => j = k

=============================================================================
