------------------------- MODULE ModelServiceProofs -------------------------
(***************************************************************************)
(* Proofs about ModelService, for all time-outs, strides and bounds.       *)
(***************************************************************************)
EXTENDS ModelService, SequenceTheorems, TLAPS

USE DEF callVars

\* Nothing of an earlier question is left on a connection.
Quiet(c) ==
  c.requests = <<>> /\ c.replies = <<>> /\ c.server \in {"receive", "gone"}

\* The question is lost or skipped, on its way, in hand, or answered.
InFlight(c) ==
  \/ Quiet(c)
  \/ /\ c.requests = <<[seq |-> asked, ts |-> askedAt]>>
     /\ c.replies = <<>> /\ c.server = "receive"
  \/ /\ c.requests = <<>> /\ c.replies = <<>>
     /\ c.server \in {"fit", "score"} /\ c.seq = asked
  \/ c.requests = <<>> /\ c.replies = <<asked>> /\ c.server \in {"receive", "gone"}

Carried ==
  current # 0 =>
    IF client \in {"wait", "pong"} THEN InFlight(conns[current]) ELSE Quiet(conns[current])

\* An abandoned connection carries no replies.
Abandoned == \A k \in Conns : k # current => conns[k].replies = <<>>

\* What the collector knows during a call and between calls.
CallState ==
  /\ client # "idle" => answered = 0 /\ failures < asked
  /\ client = "connect" => current = 0
  /\ AnswerIsForQuestion

\* Every scoring since the last fit has moved lastScore.
ScoresNoted ==
  /\ scores \in Seq(Nat)
  /\ \A i \in 1..Len(scores) : scores[i] <= session.lastScore
  /\ ScoresApart

\* The inductive invariant, in the part about the connections and the other.
ConnInv == TypeOK /\ Carried /\ Abandoned /\ CallState
IInv == ConnInv /\ ScoresNoted

\* One-element queues, as the connections have them.
LEMMA OneElement ==
  ASSUME NEW x
  PROVE  Head(<<x>>) = x /\ Tail(<<x>>) = <<>> /\ Append(<<>>, x) = <<x>> /\ Len(<<x>>) = 1
OBVIOUS

\* And their length.
LEMMA AtMostOne ==
  ASSUME NEW x, NEW s, s = <<>> \/ s = <<x>>
  PROVE  Len(s) <= 1
<1>1. CASE s = <<>>
  BY <1>1
<1>2. CASE s = <<x>>
  BY <1>2, OneElement
<1> QED
  BY <1>1, <1>2

\* New and closed connections are connections.
LEMMA ConnValues ==
  /\ Closed \in Conn
  /\ \A open \in BOOLEAN : NewConn(open) \in Conn
<1>1. 0 \in 0..MaxNow /\ 0 \in 0..MaxQuestions
  BY ServiceConstants
<1>2. /\ <<>> \in Requests
      /\ <<>> \in Seq(0..MaxQuestions)
  BY DEF Requests
<1> QED
  BY <1>1, <1>2 DEF Closed, NewConn, Blank, Conn

\* The updates of a connection give a connection.
LEMMA ConnUpdates ==
  \A c \in Conn :
    /\ \A replies \in Seq(0..MaxQuestions) :
         /\ [c EXCEPT !.client = FALSE, !.replies = replies] \in Conn
         /\ [c EXCEPT !.replies = replies] \in Conn
    /\ \A server \in {"receive", "fit", "score", "gone"} : [c EXCEPT !.server = server] \in Conn
    /\ \A requests \in Requests :
         [c EXCEPT !.requests = requests] \in Conn
    /\ \A requests \in Requests,
          seq \in 0..MaxQuestions, at \in 0..MaxNow :
         /\ [c EXCEPT !.requests = requests, !.seq = seq, !.at = at] \in Conn
         /\ [c EXCEPT !.server = "gone", !.requests = requests, !.seq = seq, !.at = at] \in Conn
    /\ \A replies \in Seq(0..MaxQuestions), seq \in 0..MaxQuestions, at \in 0..MaxNow :
         [c EXCEPT !.server = "receive", !.seq = seq, !.at = at, !.replies = replies] \in Conn
    /\ \A requests \in Requests :
         [c EXCEPT !.server = "gone", !.requests = requests] \in Conn
BY DEF Conn

\* A queue of at most one element.
LEMMA ShortQueue ==
  ASSUME NEW S, NEW s \in Seq(S), Len(s) <= 1, s # <<>>
  PROVE  Head(s) \in S /\ Tail(s) = <<>> /\ s = <<Head(s)>>
<1>1. Len(s) = 1
  <2>1. Len(s) \in Nat \ {0}
    BY EmptySeq, Zenon
  <2> QED
    BY <2>1
<1>2. Head(s) \in S /\ Tail(s) \in Seq(S) /\ Len(Tail(s)) = 0
  <2>1. Head(s) \in S /\ Tail(s) \in Seq(S) /\ Len(Tail(s)) = Len(s) - 1
    BY HeadTailProperties, Zenon
  <2> QED
    BY <1>1, <2>1
<1>3. Tail(s) = <<>>
  BY <1>2, EmptySeq
<1>4. <<Head(s)>> \in Seq(S) /\ Len(<<Head(s)>>) = 1 /\ <<Head(s)>>[1] = s[1]
  BY <1>2
<1>5. s = <<Head(s)>>
  BY <1>1, <1>4, SeqEqual
<1> QED
  BY <1>2, <1>3, <1>5

\* Initially nothing is asked, open or scored.
LEMMA InitInv == Init => IInv
<1> SUFFICES ASSUME Init PROVE IInv
  OBVIOUS
<1> USE DEF Init
<1>1. \A k \in Conns : conns[k].client = FALSE /\ conns[k].replies = <<>> /\ conns[k].requests = <<>>
                        /\ conns[k].at = 0
  BY DEF Closed, Blank
<1>2. conns \in [Conns -> Conn]
  BY ConnValues
<1>3. session \in [fitDone : BOOLEAN, lastScore : 0..now]
  BY DEF NewSession
<1>t. stalled \in BOOLEAN /\ deadline \in Nat
  OBVIOUS
<1>4. TypeOK
  BY <1>1, <1>2, <1>3, <1>t, ServiceConstants DEF TypeOK, Conns
<1>5. Carried /\ Abandoned /\ CallState
  BY <1>1 DEF Carried, Abandoned, CallState, AnswerIsForQuestion
<1>6. ScoresNoted
  BY DEF ScoresNoted, ScoresApart
<1> QED
  BY <1>4, <1>5, <1>6 DEF IInv, ConnInv

---------------------------------------------------------------------------
(* The collector's steps. *)

\* The next question meets an empty connection.
LEMMA AskInv ==
  ASSUME ConnInv, Ask  PROVE ConnInv'
<1> USE DEF Ask, serviceVars
<1>1. TypeOK'
  BY ServiceConstants DEF ConnInv, TypeOK, Conns
<1>2. Carried' /\ Abandoned'
  BY DEF ConnInv, TypeOK, Conns, Carried, Abandoned, Quiet
<1>3. CallState'
  BY ServiceConstants DEF ConnInv, TypeOK, CallState, AnswerIsForQuestion
<1> QED
  BY <1>1, <1>2, <1>3 DEF ConnInv

\* A new connection is empty.
LEMMA ConnectInv ==
  ASSUME ConnInv, Connect  PROVE ConnInv'
<1>1. Fresh \in Conns /\ conns[Fresh] = Closed
  BY DEF Connect, Fresh, FreeConns
<1>2. current = 0 /\ current' = Fresh /\ client' = "send"
  BY DEF ConnInv, CallState, Connect
<1>u. UNCHANGED <<now, callVars, deadline, stalled, session, restarts>>
  BY DEF Connect, serviceVars
<1>3. /\ conns' \in [Conns -> Conn]
      /\ conns'[Fresh] = NewConn(TRUE)
      /\ \A k \in Conns : k # Fresh => conns'[k] = conns[k]
  BY <1>1, ConnValues DEF ConnInv, TypeOK, Connect
<1>4. /\ conns'[Fresh].client /\ conns'[Fresh].requests = <<>>
      /\ conns'[Fresh].replies = <<>> /\ conns'[Fresh].server = "receive"
      /\ conns'[Fresh].at = 0
  BY <1>3 DEF NewConn, Blank
<1>5. ASSUME NEW k \in Conns
      PROVE  /\ conns'[k].client <=> k = current'
             /\ Len(conns'[k].requests) <= 1 /\ Len(conns'[k].replies) <= 1
             /\ conns'[k].at <= now
             /\ k # current' => conns'[k].replies = <<>>
  <2>1. CASE k = Fresh
    BY <1>2, <1>4, <2>1 DEF ConnInv, TypeOK
  <2>2. CASE k # Fresh
    <3>1. k # 0
      BY ServiceConstants DEF Conns
    <3> QED
      BY <1>2, <1>3, <2>2, <3>1 DEF ConnInv, TypeOK, Abandoned
  <2> QED
    BY <2>1, <2>2
<1>6. TypeOK'
  BY <1>1, <1>2, <1>3, <1>5, <1>u, ServiceConstants DEF ConnInv, TypeOK, Conns
<1>7. Carried' /\ Abandoned'
  BY <1>2, <1>4, <1>5 DEF Carried, Abandoned, Quiet
<1>8. CallState'
  BY <1>2, <1>u DEF ConnInv, CallState, AnswerIsForQuestion, Connect
<1> QED
  BY <1>6, <1>7, <1>8 DEF ConnInv

\* A failed call leaves no connection open that could bring a late answer.
LEMMA FailInv ==
  ASSUME ConnInv, Fail, client # "idle",
         conns' \in [Conns -> Conn],
         \A k \in Conns :
           /\ conns'[k].client = FALSE /\ conns'[k].replies = <<>>
           /\ Len(conns'[k].requests) <= 1 /\ conns'[k].at <= now
  PROVE  ConnInv'
<1> USE DEF Fail, serviceVars
<1>1. TypeOK'
  BY ServiceConstants DEF ConnInv, TypeOK, Conns, CallState
<1>2. Carried' /\ Abandoned'
  BY DEF Carried, Abandoned
<1>3. CallState'
  BY DEF ConnInv, CallState, AnswerIsForQuestion
<1> QED
  BY <1>1, <1>2, <1>3 DEF ConnInv

\* Giving up the open connection is what FailInv asks of a failed call.
LEMMA GiveUpInv ==
  ASSUME ConnInv, GiveUp, Fail, client # "idle", current # 0
  PROVE  ConnInv'
<1>1. current \in Conns
  BY ServiceConstants DEF ConnInv, TypeOK, Conns
<1>2. conns' \in [Conns -> Conn]
  <2>1. conns[current] \in Conn
    BY <1>1 DEF ConnInv, TypeOK
  <2>2. <<>> \in Seq(0..MaxQuestions)
    OBVIOUS
  <2>3. [conns[current] EXCEPT !.client = FALSE, !.replies = <<>>] \in Conn
    BY <2>1, <2>2, ConnUpdates, Zenon
  <2>4. conns' = [conns EXCEPT ![current] =
                    [conns[current] EXCEPT !.client = FALSE, !.replies = <<>>]]
    BY DEF GiveUp
  <2> QED
    BY <1>1, <2>3, <2>4 DEF ConnInv, TypeOK
<1>3. ASSUME NEW k \in Conns
      PROVE  /\ conns'[k].client = FALSE /\ conns'[k].replies = <<>>
             /\ Len(conns'[k].requests) <= 1 /\ conns'[k].at <= now
  <2>1. CASE k = current
    BY <1>1, <2>1 DEF ConnInv, TypeOK, GiveUp, Conn
  <2>2. CASE k # current
    BY <1>1, <2>2 DEF ConnInv, TypeOK, GiveUp, Conn, Abandoned
  <2> QED
    BY <2>1, <2>2
<1> QED
  BY <1>2, <1>3, FailInv

\* A connection whose handshake was cut short is empty too.
LEMMA ConnectFailsInv ==
  ASSUME ConnInv, ConnectFails  PROVE ConnInv'
<1>1. current = 0 /\ client = "connect"
  BY DEF ConnectFails, ConnInv, CallState
<1>2. \A k \in Conns : /\ conns[k].client = FALSE /\ conns[k].replies = <<>>
                       /\ Len(conns[k].requests) <= 1 /\ conns[k].at <= now
  <2>1. \A k \in Conns : Len(conns[k].requests) <= 1 /\ conns[k].at <= now
    BY DEF ConnInv, TypeOK
  <2>2. ASSUME NEW k \in Conns
        PROVE  conns[k].client = FALSE /\ conns[k].replies = <<>>
    <3>1. k # current
      BY <1>1, ServiceConstants DEF Conns
    <3>2. conns[k].client \in BOOLEAN
      BY DEF ConnInv, TypeOK, Conn
    <3>3. ~conns[k].client
      BY <3>1, Zenon DEF ConnInv, TypeOK
    <3>4. conns[k].client = FALSE
      BY <3>2, <3>3
    <3>5. conns[k].replies = <<>>
      BY <3>1 DEF ConnInv, Abandoned
    <3> QED
      BY <3>4, <3>5
  <2> QED
    BY <2>1, <2>2
<1>3. CASE UNCHANGED conns
  BY <1>1, <1>2, <1>3, FailInv DEF ConnectFails, ConnInv, TypeOK
<1>4. CASE FreeConns # {} /\ conns' = [conns EXCEPT ![Fresh] = NewConn(FALSE)]
  <2>1. Fresh \in Conns
    BY <1>4 DEF Fresh, FreeConns
  <2>2. conns' \in [Conns -> Conn]
    <3>1. NewConn(FALSE) \in Conn
      BY ConnValues
    <3> QED
      BY <1>4, <2>1, <3>1 DEF ConnInv, TypeOK
  <2>3. /\ NewConn(FALSE).client = FALSE /\ NewConn(FALSE).replies = <<>>
        /\ Len(NewConn(FALSE).requests) <= 1 /\ NewConn(FALSE).at <= now
    BY DEF NewConn, Blank, ConnInv, TypeOK
  <2>4. \A k \in Conns : conns'[k] = IF k = Fresh THEN NewConn(FALSE) ELSE conns[k]
    BY <1>4, <2>1 DEF ConnInv, TypeOK
  <2> QED
    BY <1>1, <1>2, <2>2, <2>3, <2>4, FailInv DEF ConnectFails
<1> QED
  BY <1>3, <1>4 DEF ConnectFails

---------------------------------------------------------------------------
(* Steps that change one connection and leave the call where it is. *)

\* It is enough to look at the connection that changes.
LEMMA OneConnInv ==
  ASSUME ConnInv, NEW k \in Conns, NEW c \in Conn,
         conns' = [conns EXCEPT ![k] = c],
         UNCHANGED <<now, clientVars, restarts>>,
         session' \in [fitDone : BOOLEAN, lastScore : 0..now],
         c.client <=> conns[k].client,
         Len(c.requests) <= 1, Len(c.replies) <= 1, c.at <= now,
         k # current => c.replies = <<>>,
         k = current => IF client \in {"wait", "pong"} THEN InFlight(c) ELSE Quiet(c)
  PROVE  ConnInv'
<1> USE DEF clientVars
<1>1. conns' \in [Conns -> Conn] /\ conns'[k] = c
  BY DEF ConnInv, TypeOK
<1>2. \A j \in Conns : j # k => conns'[j] = conns[j]
  BY DEF ConnInv, TypeOK
<1>3. ASSUME NEW j \in Conns
      PROVE  /\ conns'[j].client <=> j = current
             /\ Len(conns'[j].requests) <= 1 /\ Len(conns'[j].replies) <= 1
             /\ conns'[j].at <= now
             /\ j # current => conns'[j].replies = <<>>
  <2>1. CASE j = k
    BY <1>1, <2>1 DEF ConnInv, TypeOK
  <2>2. CASE j # k
    BY <1>2, <2>2 DEF ConnInv, TypeOK, Abandoned
  <2> QED
    BY <2>1, <2>2
<1>4. TypeOK'
  BY <1>1, <1>3 DEF ConnInv, TypeOK, Conns
<1>5. Abandoned' /\ CallState'
  BY <1>3 DEF Abandoned, ConnInv, CallState, AnswerIsForQuestion, Conns
<1>6. Carried'
  <2>1. CASE k = current
    BY <1>1, <2>1 DEF Carried, InFlight, Quiet
  <2>2. CASE k # current
    <3>1. current # 0 => conns'[current] = conns[current]
      BY <1>2, <2>2, ServiceConstants DEF ConnInv, TypeOK, Conns
    <3> QED
      BY <3>1 DEF ConnInv, Carried, InFlight, Quiet
  <2> QED
    BY <2>1, <2>2
<1> QED
  BY <1>4, <1>5, <1>6 DEF ConnInv

\* A reply is queued, unless the collector has left.
LEMMA RepliedConn ==
  ASSUME NEW c \in Conn, c.replies = <<>>
  PROVE  /\ Replied(c) \in Conn
         /\ Replied(c).client = c.client /\ Replied(c).requests = c.requests
         /\ Replied(c).server = "receive" /\ Replied(c).at = 0
         /\ Replied(c).replies = IF c.client THEN <<c.seq>> ELSE <<>>
<1> DEFINE replies == IF c.client THEN Append(c.replies, c.seq) ELSE c.replies
<1>1. replies = IF c.client THEN <<c.seq>> ELSE <<>>
  BY OneElement
<1>2. c.seq \in 0..MaxQuestions /\ c.client \in BOOLEAN
  BY DEF Conn
<1>3. replies \in Seq(0..MaxQuestions)
  <2>1. <<c.seq>> \in Seq(0..MaxQuestions) /\ <<>> \in Seq(0..MaxQuestions)
    BY <1>2
  <2> QED
    BY <1>1, <1>2, <2>1
<1>4. Replied(c) = [c EXCEPT !.server = "receive", !.seq = 0, !.at = 0, !.replies = replies]
  BY DEF Replied
<1> HIDE DEF replies
<1>5. 0 \in 0..MaxQuestions /\ 0 \in 0..MaxNow
  BY ServiceConstants
<1>6. Replied(c) \in Conn
  BY <1>3, <1>4, <1>5 DEF Conn
<1>7. Replied(c).requests = c.requests
  BY <1>4 DEF Conn
<1>8. Replied(c).server = "receive" /\ Replied(c).replies = replies /\ Replied(c).at = 0
  BY <1>4 DEF Conn
<1>9. Replied(c).client = c.client
  BY <1>4 DEF Conn
<1> QED
  BY <1>1, <1>6, <1>7, <1>8, <1>9

\* A handler that reads finds one request and nothing unread behind it; on the
\* open connection the request is the question in hand.
LEMMA Reads ==
  ASSUME ConnInv, NEW k \in Conns, conns[k].server = "receive", conns[k].requests # <<>>
  PROVE  /\ conns[k] \in Conn
         /\ Head(conns[k].requests) \in [seq : 0..MaxQuestions, ts : 0..MaxNow]
         /\ Tail(conns[k].requests) = <<>> /\ conns[k].replies = <<>>
         /\ k = current => client \in {"wait", "pong"} /\ Head(conns[k].requests).seq = asked
<1>1. conns[k] \in Conn /\ Len(conns[k].requests) <= 1
  BY DEF ConnInv, TypeOK
<1>2. conns[k].requests \in Seq([seq : 0..MaxQuestions, ts : 0..MaxNow])
  BY <1>1 DEF Conn, Requests
<1>3. /\ Head(conns[k].requests) \in [seq : 0..MaxQuestions, ts : 0..MaxNow]
      /\ Tail(conns[k].requests) = <<>>
  BY <1>1, <1>2, ShortQueue
<1>4. CASE k # current
  BY <1>1, <1>3, <1>4 DEF ConnInv, Abandoned
<1>5. CASE k = current
  <2>1. current # 0
    BY <1>5 DEF Conns
  <2>2. client \in {"wait", "pong"} /\ InFlight(conns[k])
    BY <1>5, <2>1 DEF ConnInv, Carried, Quiet
  <2>3. /\ conns[k].requests = <<[seq |-> asked, ts |-> askedAt]>>
        /\ conns[k].replies = <<>>
    BY <2>2 DEF InFlight, Quiet
  <2>4. Head(conns[k].requests) = [seq |-> asked, ts |-> askedAt]
    BY <2>3, OneElement
  <2> QED
    BY <1>1, <1>3, <2>2, <2>3, <2>4
<1> QED
  BY <1>4, <1>5

\* A handler whose thread is busy has no other reply to send.
LEMMA Busy ==
  ASSUME ConnInv, NEW k \in Conns, conns[k].server \in {"fit", "score"}
  PROVE  /\ conns[k] \in Conn /\ conns[k].replies = <<>>
         /\ k = current => /\ client \in {"wait", "pong"} /\ conns[k].requests = <<>>
                           /\ conns[k].seq = asked
<1>1. conns[k] \in Conn
  BY DEF ConnInv, TypeOK
<1>2. CASE k # current
  BY <1>1, <1>2 DEF ConnInv, Abandoned
<1>3. CASE k = current
  <2>1. current # 0
    BY <1>3 DEF Conns
  <2> QED
    BY <1>1, <1>3, <2>1 DEF ConnInv, Carried, InFlight, Quiet
<1> QED
  BY <1>2, <1>3

\* A fit or a scoring ends, well or not, and the handler replies.
LEMMA EndsInv ==
  ASSUME ConnInv, NEW k \in Conns, FitDone(k) \/ FitFails(k) \/ ScoreEnds(k)
  PROVE  ConnInv'
<1> DEFINE c == Replied(conns[k])
<1>1. conns[k].server \in {"fit", "score"}
  BY DEF FitDone, FitFails, ScoreEnds
<1>2. conns' = [conns EXCEPT ![k] = c] /\ UNCHANGED <<now, clientVars, restarts>>
  BY DEF FitDone, FitFails, ScoreEnds, serviceVars
<1>3. /\ conns[k] \in Conn /\ conns[k].replies = <<>>
      /\ k = current => client \in {"wait", "pong"} /\ conns[k].requests = <<>> /\ conns[k].seq = asked
  BY <1>1, Busy
<1>4. /\ c \in Conn /\ c.client = conns[k].client /\ c.requests = conns[k].requests
      /\ c.server = "receive" /\ c.at = 0
      /\ c.replies = IF conns[k].client THEN <<conns[k].seq>> ELSE <<>>
  BY <1>3, RepliedConn
<1>5. conns[k].client <=> k = current
  BY DEF ConnInv, TypeOK
<1>6. session' \in [fitDone : BOOLEAN, lastScore : 0..now]
  <2>1. CASE FitDone(k)
    <3>1. conns[k].at \in 0..now
      BY <1>3 DEF ConnInv, TypeOK, Conn
    <3> QED
      BY <2>1, <3>1 DEF FitDone, ConnInv, TypeOK
  <2>2. CASE FitFails(k) \/ ScoreEnds(k)
    BY <2>2 DEF FitFails, ScoreEnds, serviceVars, ConnInv, TypeOK
  <2> QED
    BY <2>1, <2>2
<1> HIDE DEF c
<1>7. Len(c.requests) <= 1 /\ c.at <= now
  BY <1>4 DEF ConnInv, TypeOK
<1>8. Len(c.replies) <= 1 /\ (k # current => c.replies = <<>>)
  BY <1>4, <1>5, OneElement
<1>9. k = current => client \in {"wait", "pong"} /\ InFlight(c)
  BY <1>3, <1>4, <1>5 DEF InFlight
<1> QED
  BY <1>2, <1>4, <1>6, <1>7, <1>8, <1>9, OneConnInv

\* The handler of a connection reads its request.
LEMMA HandleInv ==
  ASSUME ConnInv, NEW k \in Conns, Handle(k)
  PROVE  ConnInv'
<1> DEFINE q == Head(conns[k].requests)
           read == [conns[k] EXCEPT !.requests = Tail(@), !.seq = q.seq, !.at = now]
           busy(server) == [read EXCEPT !.server = server]
<1>1. conns[k].server = "receive" /\ conns[k].requests # <<>>
  BY DEF Handle
<1>2. /\ conns[k] \in Conn /\ q \in [seq : 0..MaxQuestions, ts : 0..MaxNow]
      /\ Tail(conns[k].requests) = <<>> /\ conns[k].replies = <<>>
      /\ k = current => client \in {"wait", "pong"} /\ q.seq = asked
  BY <1>1, Reads
<1>3. read = [conns[k] EXCEPT !.requests = <<>>, !.seq = q.seq, !.at = now]
  BY <1>2
<1>4. <<>> \in Requests /\ q.seq \in 0..MaxQuestions /\ now \in 0..MaxNow
  BY <1>2 DEF Requests, ConnInv, TypeOK
<1> HIDE DEF q
<1>5. /\ read \in Conn /\ read.client = conns[k].client /\ read.requests = <<>>
      /\ read.replies = <<>> /\ read.server = "receive" /\ read.seq = q.seq /\ read.at = now
  BY <1>1, <1>2, <1>3, <1>4 DEF Conn
<1> HIDE DEF read
<1>6. \A server \in {"fit", "score"} :
        /\ busy(server) \in Conn /\ busy(server).client = read.client
        /\ busy(server).requests = <<>> /\ busy(server).replies = <<>>
        /\ busy(server).server = server /\ busy(server).seq = q.seq /\ busy(server).at = now
  BY <1>5 DEF Conn
<1>7. /\ Replied(read) \in Conn /\ Replied(read).client = read.client
      /\ Replied(read).requests = <<>> /\ Replied(read).server = "receive"
      /\ Replied(read).at = 0
      /\ Replied(read).replies = IF read.client THEN <<q.seq>> ELSE <<>>
  BY <1>5, RepliedConn
<1> HIDE DEF busy
<1>8. \E c \in {busy("fit"), busy("score"), Replied(read)} : conns' = [conns EXCEPT ![k] = c]
  BY DEF Handle, q, read, busy
<1>9. PICK c \in {busy("fit"), busy("score"), Replied(read)} : conns' = [conns EXCEPT ![k] = c]
  BY <1>8
<1>10. /\ UNCHANGED <<now, clientVars, restarts>>
       /\ session' \in [fitDone : BOOLEAN, lastScore : 0..now]
  <2>1. \A scoring \in BOOLEAN : Noted(scoring) \in 0..now
    BY DEF Noted, ConnInv, TypeOK
  <2>2. PICK scoring \in BOOLEAN : session' = [session EXCEPT !.lastScore = Noted(scoring)]
    BY DEF Handle
  <2> QED
    BY <2>1, <2>2 DEF Handle, ConnInv, TypeOK
<1>11. conns[k].client <=> k = current
  BY DEF ConnInv, TypeOK
<1>12. c \in Conn /\ c.client = conns[k].client /\ c.requests = <<>> /\ c.at <= now
  BY <1>5, <1>6, <1>7, <1>9 DEF ConnInv, TypeOK
<1>13. \/ c.replies = <<>> /\ c.server \in {"fit", "score"} /\ c.seq = q.seq
       \/ c.replies = <<>> /\ k # current /\ c.server = "receive"
       \/ c.replies = <<q.seq>> /\ k = current /\ c.server = "receive"
  BY <1>5, <1>6, <1>7, <1>9, <1>11
<1>14. Len(c.requests) <= 1
  BY <1>12, AtMostOne
<1>15. Len(c.replies) <= 1
  BY <1>13, AtMostOne
<1>16. k # current => c.replies = <<>>
  BY <1>13
<1>17. k = current => client \in {"wait", "pong"} /\ InFlight(c)
  BY <1>2, <1>12, <1>13 DEF InFlight
<1> QED
  BY <1>9, <1>10, <1>12, <1>14, <1>15, <1>16, <1>17, OneConnInv

\* The handler passes over a request, or ends.
LEMMA LostInv ==
  ASSUME ConnInv, NEW k \in Conns, Skip(k) \/ Disconnect(k)
  PROVE  ConnInv'
<1>1. /\ conns[k].server = "receive" /\ conns[k] \in Conn
      /\ UNCHANGED <<now, clientVars, restarts, session>>
  BY DEF Skip, Disconnect, serviceVars, ConnInv, TypeOK
<1>2. <<>> \in Requests
  BY DEF Requests
<1>3. PICK c \in Conn : /\ conns' = [conns EXCEPT ![k] = c] /\ c.client = conns[k].client
                        /\ c.requests = <<>> /\ c.replies = conns[k].replies
                        /\ c.server \in {"receive", "gone"} /\ c.at = conns[k].at
  <2>1. CASE Skip(k)
    <3> DEFINE c == [conns[k] EXCEPT !.requests = <<>>]
    <3>1. Tail(conns[k].requests) = <<>>
      BY <2>1, Reads DEF Skip
    <3>2. conns' = [conns EXCEPT ![k] = c]
      BY <2>1, <3>1 DEF Skip
    <3>3. c \in Conn /\ c.client = conns[k].client /\ c.requests = <<>>
          /\ c.replies = conns[k].replies /\ c.server = "receive" /\ c.at = conns[k].at
      BY <1>1, <1>2 DEF Conn
    <3> QED
      BY <3>2, <3>3
  <2>2. CASE Disconnect(k)
    <3> DEFINE c == [conns[k] EXCEPT !.server = "gone", !.requests = <<>>]
    <3>1. conns' = [conns EXCEPT ![k] = c]
      BY <2>2 DEF Disconnect
    <3>2. c \in Conn /\ c.client = conns[k].client /\ c.requests = <<>>
          /\ c.replies = conns[k].replies /\ c.server = "gone" /\ c.at = conns[k].at
      BY <1>1, <1>2 DEF Conn
    <3> QED
      BY <3>1, <3>2
  <2> QED
    BY <2>1, <2>2
<1>4. /\ conns[k].client <=> k = current
      /\ Len(conns[k].replies) <= 1 /\ conns[k].at <= now
      /\ k # current => conns[k].replies = <<>>
  BY DEF ConnInv, TypeOK, Abandoned
<1>5. k = current => IF client \in {"wait", "pong"} THEN InFlight(c) ELSE Quiet(c)
  <2>1. ASSUME k = current
        PROVE  IF client \in {"wait", "pong"} THEN InFlight(conns[k]) ELSE Quiet(conns[k])
    BY <2>1 DEF ConnInv, Carried, Conns
  <2> QED
    BY <1>1, <1>3, <2>1 DEF InFlight, Quiet
<1>6. session' \in [fitDone : BOOLEAN, lastScore : 0..now]
  BY <1>1 DEF ConnInv, TypeOK
<1>7. Len(c.requests) <= 1
  BY <1>3
<1> QED
  BY <1>1, <1>3, <1>4, <1>5, <1>6, <1>7, OneConnInv

\* The question goes out on a connection that carries nothing else.
LEMMA SendInv ==
  ASSUME ConnInv, Send  PROVE ConnInv'
<1>1. current \in Conns /\ current # 0 /\ client = "send"
  <2>1. client = "send" /\ current # 0 /\ current \in 0..MaxConns
    BY DEF Send, ConnInv, TypeOK
  <2> QED
    BY <2>1, ServiceConstants DEF Conns
<1>2. /\ Quiet(conns[current]) /\ conns[current] \in Conn
      /\ UNCHANGED <<now, current, asked, askedAt, answered, failures, restarts, session>>
      /\ client' = "wait" /\ deadline' = now + Timeout /\ UNCHANGED stalled
  BY <1>1 DEF Send, Poll, serviceVars, ConnInv, TypeOK, Carried
<1>3. PICK c \in Conn : /\ conns' = [conns EXCEPT ![current] = c]
                        /\ c.client = conns[current].client /\ c.replies = <<>>
                        /\ Len(c.requests) <= 1 /\ c.at = conns[current].at /\ InFlight(c)
  <2>1. CASE conns[current].server = "gone"
    <3>1. conns' = [conns EXCEPT ![current] = conns[current]]
      BY <1>1, <2>1 DEF Send, ConnInv, TypeOK
    <3>2. InFlight(conns[current])
      BY <1>2 DEF InFlight
    <3> QED
      BY <1>1, <1>2, <3>1, <3>2 DEF ConnInv, TypeOK, Quiet
  <2>2. CASE conns[current].server # "gone"
    <3> DEFINE q == [seq |-> asked, ts |-> askedAt]
               c == [conns[current] EXCEPT !.requests = <<q>>]
    <3>1. q \in [seq : 0..MaxQuestions, ts : 0..MaxNow]
      <4>1. asked \in 0..MaxQuestions /\ askedAt \in 0..MaxNow
        BY ServiceConstants DEF ConnInv, TypeOK
      <4> QED
        BY <4>1
    <3> HIDE DEF q
    <3>2. <<q>> \in Requests /\ Append(<<>>, q) = <<q>> /\ Len(<<q>>) = 1
      BY <3>1, OneElement DEF Requests
    <3>3. conns' = [conns EXCEPT ![current] = c]
      BY <1>1, <1>2, <2>2, <3>2 DEF Send, Quiet, q
    <3>4. c \in Conn /\ c.client = conns[current].client /\ c.replies = <<>>
          /\ c.requests = <<q>> /\ c.at = conns[current].at /\ c.server = "receive"
      BY <1>2, <2>2, <3>2 DEF Conn, Quiet
    <3>5. InFlight(c)
      BY <3>4 DEF InFlight, q
    <3>6. Len(c.requests) <= 1
      BY <3>2, <3>4
    <3> QED
      BY <3>3, <3>4, <3>5, <3>6
  <2> QED
    BY <2>1, <2>2
<1>4. /\ conns' \in [Conns -> Conn] /\ conns'[current] = c
      /\ \A j \in Conns : j # current => conns'[j] = conns[j]
  BY <1>1, <1>3 DEF ConnInv, TypeOK
<1>5. ASSUME NEW j \in Conns
      PROVE  /\ conns'[j].client <=> j = current
             /\ Len(conns'[j].requests) <= 1 /\ Len(conns'[j].replies) <= 1
             /\ conns'[j].at <= now
             /\ j # current => conns'[j].replies = <<>>
  BY <1>1, <1>3, <1>4 DEF ConnInv, TypeOK, Abandoned
<1>t. deadline' \in Nat /\ stalled' \in BOOLEAN
  <2>1. now \in Nat /\ stalled \in BOOLEAN
    BY DEF ConnInv, TypeOK
  <2> QED
    BY <1>2, <2>1, ServiceConstants
<1>6. TypeOK'
  BY <1>1, <1>2, <1>4, <1>5, <1>t DEF ConnInv, TypeOK, Conns
<1>7. Carried'
  <2>1. InFlight(conns'[current]) => InFlight(conns[current])'
    BY <1>2 DEF InFlight, Quiet
  <2> QED
    BY <1>2, <1>3, <1>4, <2>1 DEF Carried
<1>8. Abandoned' /\ CallState'
  BY <1>1, <1>2, <1>5 DEF Abandoned, ConnInv, CallState, AnswerIsForQuestion, Conns
<1> QED
  BY <1>6, <1>7, <1>8 DEF ConnInv

\* The answer taken is the one to the question asked, and leaves nothing behind.
LEMMA ReceiveInv ==
  ASSUME ConnInv, Receive  PROVE ConnInv'
<1>1. current \in Conns /\ current # 0 /\ client = "wait" /\ conns[current] \in Conn
  <2>1. client = "wait" /\ current # 0 /\ current \in 0..MaxConns /\ conns \in [Conns -> Conn]
    BY DEF Receive, ConnInv, TypeOK
  <2> QED
    BY <2>1, ServiceConstants DEF Conns
<1>2. /\ conns[current].requests = <<>> /\ conns[current].replies = <<asked>>
      /\ conns[current].server \in {"receive", "gone"}
  BY <1>1 DEF Receive, ConnInv, Carried, InFlight, Quiet
<1>3. answered' = asked /\ Tail(conns[current].replies) = <<>>
  BY <1>2, OneElement DEF Receive
<1> DEFINE c == [conns[current] EXCEPT !.replies = <<>>]
<1>4. <<>> \in Seq(0..MaxQuestions)
  OBVIOUS
<1>5. c \in Conn
  BY <1>1, <1>4, ConnUpdates, Zenon
<1>6. /\ c.client = conns[current].client /\ c.requests = <<>> /\ c.replies = <<>>
      /\ c.at = conns[current].at /\ c.server = conns[current].server
  BY <1>1, <1>2 DEF Conn
<1>7. conns' = [conns EXCEPT ![current] = c]
  BY <1>3 DEF Receive
<1> HIDE DEF c
<1>8. /\ conns' \in [Conns -> Conn] /\ conns'[current] = c
      /\ \A j \in Conns : j # current => conns'[j] = conns[j]
  BY <1>1, <1>5, <1>7 DEF ConnInv, TypeOK
<1>9. Len(c.requests) <= 1 /\ Len(c.replies) <= 1
  BY <1>6, AtMostOne
<1>10. /\ UNCHANGED <<now, current, asked, askedAt, restarts, session>>
       /\ client' = "idle" /\ failures' = 0
       /\ deadline' = 0 /\ UNCHANGED stalled
  BY DEF Receive, serviceVars
<1>11. ASSUME NEW j \in Conns
       PROVE  /\ conns'[j].client <=> j = current
              /\ Len(conns'[j].requests) <= 1 /\ Len(conns'[j].replies) <= 1
              /\ conns'[j].at <= now
              /\ j # current => conns'[j].replies = <<>>
  BY <1>1, <1>6, <1>8, <1>9 DEF ConnInv, TypeOK, Abandoned
<1>12. TypeOK'
  BY <1>1, <1>3, <1>8, <1>10, <1>11, ServiceConstants DEF ConnInv, TypeOK, Conns
<1>13. Carried' /\ Abandoned'
  BY <1>2, <1>6, <1>8, <1>10, <1>11 DEF Carried, Quiet, Abandoned, Conns
<1>14. CallState'
  BY <1>3, <1>10 DEF CallState, AnswerIsForQuestion
<1> QED
  BY <1>12, <1>13, <1>14 DEF ConnInv

\* A ping and its answer carry no question, nor does a stall of the other side.
LEMMA PingInv ==
  ASSUME ConnInv, Pinged \/ Pong \/ Stalls  PROVE ConnInv'
<1>1. /\ UNCHANGED <<now, current, callVars, conns, session, restarts>>
      /\ \/ client \in {"wait", "pong"} /\ client' \in {"wait", "pong"} /\ UNCHANGED stalled
         \/ client' = client /\ stalled' = ~stalled
      /\ deadline' \in {deadline, now + Timeout}
  BY DEF Pinged, Pong, Stalls, Poll, serviceVars
<1>2. deadline' \in Nat /\ stalled' \in BOOLEAN
  <2>1. deadline \in Nat /\ stalled \in BOOLEAN /\ now \in Nat
    BY DEF ConnInv, TypeOK
  <2>2. deadline' \in Nat
    BY <1>1, <2>1, ServiceConstants
  <2>3. stalled' = stalled \/ stalled' = ~stalled
    BY <1>1, Zenon
  <2>4. stalled' \in BOOLEAN
    BY <2>1, <2>3, Zenon
  <2> QED
    BY <2>2, <2>4
<1>t. /\ client' \in {"idle", "connect", "send", "wait", "pong"}
      /\ client' \in {"send", "wait", "pong"} => current' # 0
  BY <1>1 DEF ConnInv, TypeOK
<1>3. TypeOK'
  BY <1>1, <1>2, <1>t DEF ConnInv, TypeOK, Conns
<1>4. Carried' /\ Abandoned' /\ CallState'
  BY <1>1 DEF ConnInv, Carried, Abandoned, CallState, AnswerIsForQuestion, InFlight, Quiet, Conns
<1> QED
  BY <1>3, <1>4 DEF ConnInv

\* A restart of the service loses what is on its way to it.
LEMMA RestartInv ==
  ASSUME ConnInv, Restart  PROVE ConnInv'
<1> DEFINE c(k) == [conns[k] EXCEPT !.server = "gone", !.requests = <<>>, !.seq = 0, !.at = 0]
<1>1. <<>> \in Requests /\ 0 \in 0..MaxQuestions /\ 0 \in 0..MaxNow
  BY ServiceConstants DEF Requests
<1>2. ASSUME NEW k \in Conns
      PROVE  /\ conns'[k] \in Conn /\ conns'[k].client = conns[k].client
             /\ conns'[k].requests = <<>> /\ conns'[k].replies = conns[k].replies
             /\ conns'[k].server = "gone" /\ conns'[k].at = 0
  <2>1. conns'[k] = c(k) /\ conns[k] \in Conn
    BY DEF Restart, ConnInv, TypeOK
  <2> QED
    BY <1>1, <2>1 DEF Conn
<1>3. conns' \in [Conns -> Conn]
  BY <1>2 DEF Restart
<1>4. UNCHANGED <<now, clientVars>> /\ restarts' \in 0..MaxRestarts /\ session' = NewSession
  <2>1. restarts \in 0..MaxRestarts
    BY DEF ConnInv, TypeOK
  <2>2. restarts < MaxRestarts /\ restarts' = restarts + 1
    BY DEF Restart
  <2>3. restarts' \in 0..MaxRestarts
    BY <2>1, <2>2, ServiceConstants
  <2> QED
    BY <2>3 DEF Restart
<1>5. session' \in [fitDone : BOOLEAN, lastScore : 0..now]
  BY <1>4 DEF NewSession, ConnInv, TypeOK
<1>6. \A k \in Conns : Len(conns'[k].requests) <= 1
  BY <1>2, AtMostOne
<1>7. TypeOK'
  <2>1. \A k \in Conns : /\ conns'[k].client <=> k = current'
                         /\ Len(conns'[k].requests) <= 1 /\ Len(conns'[k].replies) <= 1
                         /\ conns'[k].at <= now'
    <3>1. \A k \in Conns : /\ conns[k].client <=> k = current
                           /\ Len(conns[k].replies) <= 1
      BY DEF ConnInv, TypeOK
    <3>2. 0 <= now' /\ current' = current
      BY <1>4, ServiceConstants DEF ConnInv, TypeOK, clientVars
    <3> QED
      BY <1>2, <1>6, <3>1, <3>2
  <2> QED
    BY <1>3, <1>4, <1>5, <2>1 DEF ConnInv, TypeOK, clientVars, callVars
<1>8. Abandoned' /\ CallState'
  BY <1>2, <1>4 DEF Abandoned, ConnInv, CallState, AnswerIsForQuestion, clientVars, Conns
<1>9. Carried'
  <2>1. SUFFICES ASSUME current # 0
                 PROVE  IF client \in {"wait", "pong"} THEN InFlight(conns[current])' ELSE Quiet(conns[current])'
    BY <1>4 DEF Carried, clientVars
  <2>2. current \in Conns
    BY <2>1, ServiceConstants DEF ConnInv, TypeOK, Conns
  <2> QED
    BY <1>2, <1>4, <2>1, <2>2 DEF ConnInv, Carried, InFlight, Quiet, clientVars
<1> QED
  BY <1>7, <1>8, <1>9 DEF ConnInv

\* Time passes.
LEMMA TickInv ==
  ASSUME ConnInv, Tick \/ UNCHANGED vars  PROVE ConnInv'
<1>1. UNCHANGED <<clientVars, conns, session, restarts>> /\ now' \in now..(now + 1) /\ now' \in 0..MaxNow
  <2>1. now \in 0..MaxNow
    BY DEF ConnInv, TypeOK
  <2> QED
    BY <2>1, ServiceConstants DEF Tick, vars, serviceVars, clientVars
<1>2. askedAt \in 0..now' /\ session \in [fitDone : BOOLEAN, lastScore : 0..now']
  BY <1>1 DEF ConnInv, TypeOK
<1>3. ASSUME NEW k \in Conns  PROVE conns[k].at <= now'
  <2>1. conns[k].at \in 0..MaxNow /\ conns[k].at <= now /\ now \in Nat
    BY DEF ConnInv, TypeOK, Conn
  <2> QED
    BY <1>1, <2>1
<1>4. TypeOK'
  BY <1>1, <1>2, <1>3 DEF ConnInv, TypeOK, clientVars, Conns
<1>5. Carried' /\ Abandoned' /\ CallState'
  BY <1>1 DEF ConnInv, Carried, Abandoned, CallState, AnswerIsForQuestion, InFlight, Quiet,
              clientVars, Conns
<1> QED
  BY <1>4, <1>5 DEF ConnInv

---------------------------------------------------------------------------
(* The scorings. *)

\* A scoring that begins is a stride after lastScore, and so after all noted before.
LEMMA HandleScores ==
  ASSUME IInv, NEW k \in Conns, Handle(k)
  PROVE  ScoresNoted'
<1>1. /\ session.lastScore \in Nat /\ session.lastScore <= now /\ now \in Nat
      /\ scores \in Seq(Nat) /\ now' = now
  BY DEF IInv, ConnInv, TypeOK, ScoresNoted, Handle
<1>2. PICK scoring \in BOOLEAN :
        /\ scoring => now - session.lastScore >= Stride
        /\ session'.lastScore = IF scoring THEN now ELSE session.lastScore
        /\ scores' = IF scoring THEN Append(scores, now) ELSE scores
  <2> DEFINE scoring == session.fitDone /\ now - session.lastScore >= Stride
  <2>1. /\ session' = [session EXCEPT !.lastScore = Noted(scoring)]
        /\ scores' = IF scoring THEN Append(scores, now) ELSE scores
    BY DEF Handle
  <2>2. session'.lastScore = Noted(scoring)
    BY <2>1 DEF IInv, ConnInv, TypeOK
  <2> QED
    BY <2>1, <2>2 DEF Noted
<1>3. CASE ~scoring
  BY <1>2, <1>3 DEF IInv, ScoresNoted, ScoresApart
<1>4. CASE scoring
  <2>1. /\ scores' \in Seq(Nat) /\ Len(scores') = Len(scores) + 1
        /\ \A i \in 1..Len(scores) : scores'[i] = scores[i]
        /\ scores'[Len(scores) + 1] = now
    BY <1>1, <1>2, <1>4, AppendProperties
  <2>2. /\ Len(scores) \in Nat
        /\ \A i \in 1..Len(scores) : scores[i] \in Nat /\ scores[i] <= session.lastScore
    BY <1>1, LenProperties DEF IInv, ScoresNoted
  <2>3. \A i \in 1..Len(scores') : scores'[i] <= session'.lastScore
    BY <1>1, <1>2, <1>4, <2>1, <2>2
  <2>4. ASSUME NEW i \in 1..Len(scores'), NEW j \in 1..Len(scores'), i < j
        PROVE  scores'[j] - scores'[i] >= Stride
    <3>1. CASE j = Len(scores) + 1
      <4>1. i \in 1..Len(scores)
        BY <2>1, <2>2, <2>4, <3>1
      <4>2. scores'[j] = now /\ scores'[i] = scores[i]
        BY <2>1, <3>1, <4>1
      <4>3. scores[i] \in Nat /\ scores[i] <= session.lastScore
        BY <2>2, <4>1
      <4> QED
        BY <1>1, <1>2, <1>4, <4>2, <4>3, ServiceConstants
    <3>2. CASE j # Len(scores) + 1
      <4>1. i \in 1..Len(scores) /\ j \in 1..Len(scores)
        BY <2>1, <2>2, <2>4, <3>2
      <4> QED
        BY <2>1, <2>4, <4>1 DEF IInv, ScoresNoted, ScoresApart
    <3> QED
      BY <3>1, <3>2
  <2> QED
    BY <2>1, <2>3, <2>4 DEF ScoresNoted, ScoresApart
<1> QED
  BY <1>3, <1>4

\* After a fit or a restart no scoring is noted yet.
LEMMA FreshScores ==
  ASSUME scores' = <<>>  PROVE ScoresNoted'
BY DEF ScoresNoted, ScoresApart

---------------------------------------------------------------------------
(* The theorems. *)

\* The collector does not touch the session.
LEMMA CallSession == Call => UNCHANGED <<scores, session>>
BY DEF Call, Ask, Connect, ConnectFails, Send, SendFails, Poll, Pong, Receive, RecvFails, Fail,
       serviceVars

\* Every step keeps the invariant.
LEMMA StepInv == IInv /\ [Next]_vars => IInv'
<1> SUFFICES ASSUME IInv, [Next]_vars PROVE IInv'
  OBVIOUS
<1> USE DEF IInv
<1>1. CASE Call
  <2>1. UNCHANGED <<scores, session>>
    BY <1>1, CallSession
  <2>2. ScoresNoted'
    BY <2>1 DEF ScoresNoted, ScoresApart
  <2>3. CASE SendFails \/ RecvFails
    <3>1. GiveUp /\ Fail /\ client # "idle" /\ current # 0
      BY <2>3 DEF SendFails, RecvFails, ConnInv, TypeOK
    <3> QED
      BY <2>2, <3>1, GiveUpInv
  <2> QED
    BY <1>1, <2>2, <2>3, AskInv, ConnectInv, ConnectFailsInv, SendInv, PingInv,
       ReceiveInv DEF Call
<1>2. ASSUME NEW k \in Conns, Handler(k)  PROVE IInv'
  <2>1. CASE Handle(k)
    BY <2>1, HandleInv, HandleScores
  <2>2. CASE FitDone(k)
    BY <2>2, EndsInv, FreshScores DEF FitDone
  <2>3. CASE FitFails(k) \/ ScoreEnds(k)
    BY <2>3, EndsInv DEF FitFails, ScoreEnds, serviceVars, ScoresNoted, ScoresApart
  <2>4. CASE Skip(k) \/ Disconnect(k)
    BY <2>4, LostInv DEF Skip, Disconnect, serviceVars, ScoresNoted, ScoresApart
  <2> QED
    BY <1>2, <2>1, <2>2, <2>3, <2>4 DEF Handler
<1>3. CASE Restart
  BY <1>3, RestartInv, FreshScores DEF Restart
<1>4. CASE Tick \/ UNCHANGED vars
  BY <1>4, TickInv DEF Tick, vars, serviceVars, ScoresNoted, ScoresApart
<1>5. CASE Pinged \/ Stalls
  BY <1>5, PingInv DEF Pinged, Stalls, serviceVars, ScoresNoted, ScoresApart
<1> QED
  BY <1>1, <1>2, <1>3, <1>4, <1>5 DEF Next

\* Type correctness of the conversation between collector and service.
THEOREM TypeCorrect == Spec => []TypeOK
<1>1. IInv => TypeOK
  BY DEF IInv, ConnInv
<1> QED
  BY <1>1, InitInv, StepInv, PTL DEF Spec

\* InferAnomaly returns the answer to its own question, although nothing compares
\* sequence numbers and a late answer may be on its way when it asks again.
THEOREM AnswersMatch == Spec => []AnswerIsForQuestion
<1>1. IInv => AnswerIsForQuestion
  BY DEF IInv, ConnInv, CallState
<1> QED
  BY <1>1, InitInv, StepInv, PTL DEF Spec

\* Scorings that follow the same fit begin a stride apart, with any number of
\* handlers scoring at once.
THEOREM ScoringsApart == Spec => []ScoresApart
<1>1. IInv => ScoresApart
  BY DEF IInv, ScoresNoted
<1> QED
  BY <1>1, InitInv, StepInv, PTL DEF Spec

\* A step that sets one connection begins a fit on no other.
LEMMA OnlyOneMoves ==
  ASSUME TypeOK, NEW j, NEW c, conns' = [conns EXCEPT ![j] = c],
         j \in Conns => c.server # "fit" \/ conns[j].server = "fit"
  PROVE  \A k \in Conns : conns'[k].server = "fit" => conns[k].server = "fit"
BY DEF TypeOK

\* No step of the collector begins a fit.
LEMMA CallFits ==
  ASSUME TypeOK, Call
  PROVE  \A k \in Conns : conns'[k].server = "fit" => conns[k].server = "fit"
<1>1. CASE Ask
  BY <1>1 DEF Ask
<1>2. CASE Connect
  BY <1>2, OnlyOneMoves DEF Connect, NewConn, Blank
<1>3. CASE ConnectFails
  BY <1>3, OnlyOneMoves DEF ConnectFails, NewConn, Blank
<1>4. \A k \in Conns : conns[k] \in Conn
  BY DEF TypeOK
<1>5. CASE Send
  <2> DEFINE c == [conns[current] EXCEPT
                     !.requests = Append(@, [seq |-> asked, ts |-> askedAt])]
  <2>1. CASE conns[current].server = "gone"
    BY <1>5, <2>1 DEF Send
  <2>2. CASE conns[current].server # "gone"
    <3>1. conns' = [conns EXCEPT ![current] = c]
      BY <1>5, <2>2 DEF Send
    <3>2. current \in Conns => c.server = conns[current].server
      BY <1>4 DEF Conn
    <3> HIDE DEF c
    <3> QED
      BY <3>1, <3>2, OnlyOneMoves
  <2> QED
    BY <2>1, <2>2
<1>6. CASE SendFails \/ RecvFails
  <2> DEFINE c == [conns[current] EXCEPT !.client = FALSE, !.replies = <<>>]
  <2>1. conns' = [conns EXCEPT ![current] = c]
    BY <1>6 DEF SendFails, RecvFails, GiveUp
  <2>2. current \in Conns => c.server = conns[current].server
    BY <1>4 DEF Conn
  <2> HIDE DEF c
  <2> QED
    BY <2>1, <2>2, OnlyOneMoves
<1>7. CASE Receive
  <2> DEFINE c == [conns[current] EXCEPT !.replies = Tail(@)]
  <2>1. conns' = [conns EXCEPT ![current] = c]
    BY <1>7 DEF Receive
  <2>2. current \in Conns => c.server = conns[current].server
    BY <1>4 DEF Conn
  <2> HIDE DEF c
  <2> QED
    BY <2>1, <2>2, OnlyOneMoves
<1>8. CASE Pong
  BY <1>8 DEF Pong
<1> QED
  BY <1>1, <1>2, <1>3, <1>5, <1>6, <1>7, <1>8 DEF Call

\* A handler begins a fit only when none has been done.
LEMMA HandlerFits ==
  ASSUME ConnInv, session.fitDone, NEW j \in Conns, Handler(j)
  PROVE  /\ session'.fitDone
         /\ \A k \in Conns : conns'[k].server = "fit" => conns[k].server = "fit"
<1>1. TypeOK /\ session \in [fitDone : BOOLEAN, lastScore : 0..now] /\ conns[j] \in Conn
  BY DEF ConnInv, TypeOK
<1>2. CASE Handle(j)
  <2> DEFINE q    == Head(conns[j].requests)
             read == [conns[j] EXCEPT !.requests = Tail(@), !.seq = q.seq, !.at = now]
             c    == IF now - session.lastScore >= Stride
                     THEN [read EXCEPT !.server = "score"] ELSE Replied(read)
  <2>1. conns' = [conns EXCEPT ![j] = c]
    BY <1>2 DEF Handle
  <2>2. c.server # "fit"
    BY <1>1 DEF Conn, Replied
  <2>3. session'.fitDone
    BY <1>1, <1>2 DEF Handle
  <2> HIDE DEF c
  <2> QED
    BY <1>1, <2>1, <2>2, <2>3, OnlyOneMoves
<1>3. CASE FitDone(j) \/ FitFails(j) \/ ScoreEnds(j)
  <2>1. conns' = [conns EXCEPT ![j] = Replied(conns[j])]
    BY <1>3 DEF FitDone, FitFails, ScoreEnds
  <2>2. Replied(conns[j]).server = "receive"
    BY <1>1 DEF Conn, Replied
  <2>3. session'.fitDone
    BY <1>1, <1>3 DEF FitDone, FitFails, ScoreEnds, serviceVars
  <2> QED
    BY <1>1, <2>1, <2>2, <2>3, OnlyOneMoves
<1>4. CASE Skip(j)
  <2> DEFINE c == [conns[j] EXCEPT !.requests = Tail(@)]
  <2>1. conns' = [conns EXCEPT ![j] = c] /\ session' = session
    BY <1>4 DEF Skip, serviceVars
  <2>2. c.server = conns[j].server
    BY <1>1 DEF Conn
  <2> HIDE DEF c
  <2> QED
    BY <1>1, <2>1, <2>2, OnlyOneMoves
<1>5. CASE Disconnect(j)
  <2> DEFINE c == [conns[j] EXCEPT !.server = "gone", !.requests = <<>>]
  <2>1. conns' = [conns EXCEPT ![j] = c] /\ session' = session
    BY <1>1, <1>5 DEF Disconnect, serviceVars, TypeOK
  <2>2. c.server = "gone"
    BY <1>1 DEF Conn
  <2> HIDE DEF c
  <2> QED
    BY <1>1, <2>1, <2>2, OnlyOneMoves
<1> QED
  BY <1>2, <1>3, <1>4, <1>5 DEF Handler

\* A fitted session stays fitted, and no fit begins, until the service restarts.
THEOREM FitKept == Spec => KeepsTheFit
<1>1. ASSUME IInv, [Next]_vars, session.fitDone, restarts' = restarts
      PROVE  /\ session'.fitDone
             /\ \A k \in Conns : conns'[k].server = "fit" => conns[k].server = "fit"
  <2>1. ConnInv /\ TypeOK
    BY <1>1 DEF IInv, ConnInv
  <2>2. CASE Call
    <3>1. session' = session
      BY <2>2, CallSession
    <3> QED
      BY <1>1, <2>1, <2>2, <3>1, CallFits
  <2>3. CASE \E k \in Conns : Handler(k)
    BY <1>1, <2>1, <2>3, HandlerFits
  <2>4. ~Restart
    <3>1. restarts \in Nat
      BY <2>1, ServiceConstants DEF TypeOK
    <3>2. restarts + 1 # restarts
      BY <3>1
    <3> QED
      BY <1>1, <3>2 DEF Restart
  <2>5. CASE Tick \/ Pinged \/ Stalls \/ UNCHANGED vars
    BY <1>1, <2>5 DEF Tick, Pinged, Stalls, vars, serviceVars
  <2> QED
    BY <1>1, <2>2, <2>3, <2>4, <2>5 DEF Next
<1> QED
  BY <1>1, InitInv, StepInv, PTL DEF Spec, KeepsTheFit

=============================================================================
