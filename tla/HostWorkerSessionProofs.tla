------------------------ MODULE HostWorkerSessionProofs ------------------------
(***************************************************************************)
(* That GUI thread, IO thread and Worker agree, and that an unbound        *)
(* session publishes no capability result, for any length of the command   *)
(* queue, any bound of the Worker's requests and any number of sessions.   *)
(*                                                                         *)
(* The invariant follows what is on its way through the threads.  A        *)
(* request of the Worker is in one place at a time: announced, in a        *)
(* callback, served, queued, being sent, written, delivered or answered.   *)
(* So is a route load.  One command is with the IO thread, and it is the   *)
(* active one.  While the controller believes that the session runs, the   *)
(* IO thread has either not ended it or has said so in an event that comes *)
(* before any that a command was too late.                                 *)
(***************************************************************************)
EXTENDS HostWorkerSession, SequenceTheorems, TLAPS

-----------------------------------------------------------------------------
\* What the variables hold.

Commands ==
    [id : Nat,
     type : {"none", "Response", "RouteLoad", "VisibilityChanged", "Shutdown"},
     ref : Nat, resume : BOOLEAN, completes : BOOLEAN, gated : BOOLEAN]
Posts ==
    [kind : {"abort", "shutdown", "resume"}]
    \cup [kind : {"send"}, command : Commands]
    \cup [kind : {"written"}, command : Commands,
          result : {"Ok", "Cancelled", "PeerClosed"}]
Asking == {"request", "navigation"}

\* Why a session ends, and what an event may say of it.
Causes == {"", "capability_bind_failed", "reattach_failed",
           "response_queue_failed", "outbound_queue_full",
           "navigation_callback_failed", "route_load_rejected",
           "capability_authority_mismatch", "send_failed",
           "shutdown_send_failed", "duplicate_request_id", "unknown_response",
           "peer_shutdown", "unexpected_message", "peer_closed",
           "request_timeout", "send_timeout", "shutdown_timeout"}
Events ==
    [kind : {"failLater", "threadFinished", "shutdownFinished"},
     gen : Nat, id : Nat]
    \cup [kind : Asking \cup {"response"}, gen : Nat, id : Nat, ok : BOOLEAN]
    \cup [kind : {"failed"}, gen : Nat, id : Nat, error : Causes]
    \cup [kind : {"finishedCommand"}, gen : Nat, id : Nat, ok : BOOLEAN,
          published : BOOLEAN, error : Causes \cup {"stale_command"}]
Controllers ==
    [state : {"Detached", "Running", "ShuttingDown", "Failed"},
     finalState : {"Detached", "Failed"}, generation : Nat,
     attached : BOOLEAN, stopRequested : BOOLEAN, pendingSession : BOOLEAN,
     pendingBinding : BOOLEAN, bound : BOOLEAN, admitted : BOOLEAN,
     serving : SUBSET Nat, outbound : Seq(Commands), active : Commands,
     request : Nat, routes : SUBSET Nat, latest : Nat, acknowledged : BOOLEAN,
     lastCommand : Nat, lastRoute : Nat, error : Causes,
     posted : Seq(Posts), events : Seq(Events)]
Calls == [kind : {"none", "navigate", "acknowledged", "observed", "sent"},
          gen : Nat, id : Nat]
Ios == [thread : {"none", "running", "finished"}, awaitingGui : BOOLEAN,
        stopping : BOOLEAN, terminal : BOOLEAN, command : Nat, live : BOOLEAN,
        bound : BOOLEAN, passed : BOOLEAN, pending : SUBSET Nat,
        published : SUBSET Nat, received : SUBSET Nat]
Messages ==
    [type : {"Request", "NavigationRequest", "Response", "Shutdown",
             "HandshakeAck"},
     id : Nat, ok : BOOLEAN]
Workers == [open : BOOLEAN, honest : BOOLEAN, route : Nat, navigating : Nat,
            lastRequest : 0 .. MaxRequests, asked : SUBSET (1 .. MaxRequests),
            answers : [1 .. MaxRequests -> Nat]]

\* The threads and the Worker have what they should.
ThreadsOK ==
    /\ io \in Ios /\ worker \in Workers
    /\ writes \in Seq(Commands) /\ toWorker \in Seq(Commands)
    /\ toHost \in Seq(Messages)
    /\ budget \in Budgets

-----------------------------------------------------------------------------
\* What is on its way: the commands of a queue by what they are about, the one
\* the IO thread is told to send, the events of the session that runs.

Refs(s, t) == {s[i].ref : i \in {j \in 1 .. Len(s) : s[j].type = t}}
EachOnce(s, t) ==
    \A i, j \in 1 .. Len(s) :
        s[i].type = t /\ s[j].type = t /\ s[i].ref = s[j].ref => i = j

Sends(p) == {i \in 1 .. Len(p) : p[i].kind = "send"}
Sent(p) == {p[i].command : i \in Sends(p)}
SentRefs(p, t) == {m.ref : m \in {n \in Sent(p) : n.type = t}}
OneSend(p) == \A i, j \in Sends(p) : i = j

News(e, g, ks) == {i \in 1 .. Len(e) : e[i].gen = g /\ e[i].kind \in ks}
NewsIds(e, g, ks) == {e[i].id : i \in News(e, g, ks)}
NewsOnce(e, g, ks) == \A i, j \in News(e, g, ks) : e[i].id = e[j].id => i = j
StaleIsLate(e, g) ==
    \A j \in News(e, g, {"finishedCommand"}) :
        e[j].error = "stale_command" => \E i \in News(e, g, {"failed"}) : i < j

-----------------------------------------------------------------------------
\* The inductive invariant, as predicates of the controller's record c and of
\* the call k it is in.

\* The authority of a session ends with it.
AuthorityMatches(c) ==
    /\ Running(c) => c.attached
    /\ c.admitted \/ c.serving # {} => Running(c) /\ c.bound

\* Nothing is about a later session than this one.
ReportsOK(c, k) ==
    /\ k.gen <= c.generation
    /\ \A i \in 1 .. Len(c.events) : c.events[i].gen <= c.generation

\* The IO thread is told to send one command at a time.
OneIsSent(c) == OneSend(c.posted) /\ (Sent(c.posted) # {} => io.command = 0)

\* Where the request of a Worker can be, from the moment it was received.
Announced(c) == NewsIds(c.events, c.generation, Asking)
Called(c, k) ==
    IF k.kind \in {"observed", "navigate"} /\ k.gen = c.generation
      THEN {k.id} ELSE {}
Queued(c) == Refs(c.outbound, "Response")
Sending(c) == SentRefs(c.posted, "Response")
Writing == Refs(writes, "Response")
Delivered == Refs(toWorker, "Response")
Answered == {r \in 1 .. MaxRequests : worker.answers[r] # 0}

Live == io.thread = "running" /\ ~io.terminal

\* It is in one of those places only, and there once.
RequestsOK(c, k) ==
    Live =>
      /\ Announced(c) \cup Called(c, k) \cup c.serving \cup Queued(c)
           \cup Sending(c) \cup Writing \cup Delivered \cup Answered
         \subseteq io.received
      /\ Answered \cap Delivered = {}
      /\ (Answered \cup Delivered) \cap Writing = {}
      /\ (Answered \cup Delivered \cup Writing) \cap Sending(c) = {}
      /\ (Answered \cup Delivered \cup Writing \cup Sending(c))
           \cap Queued(c) = {}
      /\ (Answered \cup Delivered \cup Writing \cup Sending(c) \cup Queued(c))
           \cap c.serving = {}
      /\ (Answered \cup Delivered \cup Writing \cup Sending(c) \cup Queued(c)
            \cup c.serving) \cap Called(c, k) = {}
      /\ (Answered \cup Delivered \cup Writing \cup Sending(c) \cup Queued(c)
            \cup c.serving \cup Called(c, k)) \cap Announced(c) = {}
      /\ NewsOnce(c.events, c.generation, Asking)
      /\ EachOnce(c.outbound, "Response")
      /\ EachOnce(writes, "Response") /\ EachOnce(toWorker, "Response")

\* What the Worker asked, and what was received of it.
WorkerOK ==
    /\ AnsweredOnce
    /\ worker.asked \subseteq 1 .. worker.lastRequest
    /\ Live =>
         /\ io.received \subseteq worker.asked
         /\ \A i \in 1 .. Len(toHost) :
              toHost[i].type \in {"Request", "NavigationRequest"} =>
                toHost[i].id \in worker.asked

\* The session is heard: its IO thread runs, is not told to stop, and if it has
\* ended the session the controller is going to hear it, before it hears of a
\* command that came too late.
Heard(c) ==
    /\ io.thread = "running" /\ ~io.stopping
    /\ \A i \in 1 .. Len(c.posted) : c.posted[i].kind \notin {"abort", "shutdown"}
    /\ io.terminal => News(c.events, c.generation, {"failed"}) # {}
    /\ StaleIsLate(c.events, c.generation)

\* The active command is told to the IO thread, sent by it or finished, and
\* nothing else is.
ActiveIsSent(c) ==
    LET finished == NewsIds(c.events, c.generation, {"finishedCommand"})
    IN  /\ \A i \in 1 .. Len(c.outbound) : c.outbound[i].id # 0
        /\ c.active.id = 0 => Sent(c.posted) = {} /\ io.command = 0 /\ finished = {}
        /\ \A m \in Sent(c.posted) : m.id = c.active.id
        /\ io.command \in {0, c.active.id}
        /\ finished \subseteq {c.active.id}
        /\ finished # {} => Sent(c.posted) = {} /\ io.command = 0
        /\ NewsOnce(c.events, c.generation, {"finishedCommand"})

\* A pending route load is queued, being sent, written or answered: the
\* controller knows each, and each is in one place.
Loaded(c) == NewsIds(c.events, c.generation, {"response"})
RoutesOK(c) ==
    LET queued == Refs(c.outbound, "RouteLoad")
        sending == SentRefs(c.posted, "RouteLoad")
    IN  /\ queued \cup sending \cup io.pending \cup Loaded(c) \subseteq c.routes
        /\ queued \cap sending = {}
        /\ (queued \cup sending) \cap io.pending = {}
        /\ (queued \cup sending \cup io.pending) \cap Loaded(c) = {}
        /\ EachOnce(c.outbound, "RouteLoad")
        /\ NewsOnce(c.events, c.generation, {"response"})
        /\ \A r \in c.routes : r <= c.lastRoute
        /\ c.routes # {} =>
             c.latest # 0 /\ (c.latest \in c.routes \/ c.acknowledged)

\* What holds of a session that runs, and of any.
Served(c) == Heard(c) /\ ActiveIsSent(c) /\ RoutesOK(c)
Base(c, k) ==
    /\ c \in Controllers /\ k \in Calls
    /\ AuthorityMatches(c) /\ ReportsOK(c, k) /\ OneIsSent(c)
    /\ RequestsOK(c, k)
Sound(c, k) == Base(c, k) /\ (Running(c) => Served(c))

IInv == ThreadsOK /\ WorkerOK /\ Sound(ctl, call)

-----------------------------------------------------------------------------
\* The queues.

\* A command at the end of a queue.
LEMMA AppendedRefs ==
    ASSUME NEW s \in Seq(Commands), NEW m \in Commands, NEW t
    PROVE  /\ m.type # t => /\ Refs(Append(s, m), t) = Refs(s, t)
                            /\ EachOnce(s, t) => EachOnce(Append(s, m), t)
           /\ m.type = t => /\ Refs(Append(s, m), t) = Refs(s, t) \cup {m.ref}
                            /\ EachOnce(s, t) /\ m.ref \notin Refs(s, t)
                                 => EachOnce(Append(s, m), t)
<1> DEFINE a == Append(s, m)
<1>1. /\ Len(s) \in Nat /\ Len(a) = Len(s) + 1 /\ a[Len(s) + 1] = m
      /\ \A i \in 1 .. Len(s) : a[i] = s[i]
    BY AppendProperties
<1>2. 1 .. Len(a) = (1 .. Len(s)) \cup {Len(s) + 1}
    BY <1>1
<1> HIDE DEF a
<1>3. /\ m.type # t => Refs(a, t) = Refs(s, t)
      /\ m.type = t => Refs(a, t) = Refs(s, t) \cup {m.ref}
    BY <1>1, <1>2 DEF Refs
<1>4. ASSUME EachOnce(s, t), m.type = t => m.ref \notin Refs(s, t)
      PROVE  EachOnce(a, t)
    BY <1>1, <1>2, <1>4 DEF EachOnce, Refs
<1> QED
    BY <1>3, <1>4 DEF a

\* A queue without its first command.
LEMMA TailRefs ==
    ASSUME NEW s \in Seq(Commands), s # <<>>, NEW t
    PROVE  /\ Refs(Tail(s), t) \subseteq Refs(s, t)
           /\ Head(s).type = t => Head(s).ref \in Refs(s, t)
           /\ EachOnce(s, t) =>
                /\ EachOnce(Tail(s), t)
                /\ Head(s).type = t => Head(s).ref \notin Refs(Tail(s), t)
<1> DEFINE b == Tail(s)
<1>1. /\ Len(s) \in Nat \ {0} /\ Len(b) = Len(s) - 1 /\ Head(s) = s[1]
      /\ \A i \in 1 .. Len(b) : b[i] = s[i + 1]
    BY HeadTailProperties, EmptySeq
<1> HIDE DEF b
<1>2. \A i \in 1 .. Len(b) : i + 1 \in 1 .. Len(s) /\ i + 1 # 1
    BY <1>1
<1>3. 1 \in 1 .. Len(s)
    BY <1>1
<1>4. Refs(b, t) \subseteq Refs(s, t)
    BY <1>1, <1>2 DEF Refs
<1>5. Head(s).type = t => Head(s).ref \in Refs(s, t)
    BY <1>1, <1>3 DEF Refs
<1>6. ASSUME EachOnce(s, t)
      PROVE  EachOnce(b, t) /\ (Head(s).type = t => Head(s).ref \notin Refs(b, t))
  <2>1. EachOnce(b, t)
    <3> SUFFICES ASSUME NEW i \in 1 .. Len(b), NEW j \in 1 .. Len(b),
                        b[i].type = t, b[j].type = t, b[i].ref = b[j].ref
                 PROVE  i = j
        BY DEF EachOnce
    <3>1. i + 1 = j + 1
        BY <1>1, <1>2, <1>6 DEF EachOnce
    <3> QED
        BY <3>1
  <2>2. ASSUME Head(s).type = t, Head(s).ref \in Refs(b, t)
        PROVE  FALSE
    <3>1. PICK i \in 1 .. Len(b) : b[i].type = t /\ b[i].ref = Head(s).ref
        BY <2>2 DEF Refs
    <3>2. i + 1 = 1
        BY <3>1, <2>2, <1>1, <1>2, <1>3, <1>6 DEF EachOnce
    <3> QED
        BY <3>2, <1>2
  <2> QED
    BY <2>1, <2>2
<1> QED
    BY <1>4, <1>5, <1>6 DEF b

\* Something more is posted to the IO thread.
LEMMA AppendedPost ==
    ASSUME NEW p \in Seq(Posts), NEW x \in Posts
    PROVE  /\ Append(p, x) \in Seq(Posts)
           /\ x.kind # "send" => /\ Sent(Append(p, x)) = Sent(p)
                                 /\ OneSend(p) => OneSend(Append(p, x))
           /\ x.kind = "send" /\ Sent(p) = {} =>
                Sent(Append(p, x)) = {x.command} /\ OneSend(Append(p, x))
           /\ \A ks : /\ x.kind \notin ks
                      /\ \A i \in 1 .. Len(p) : p[i].kind \notin ks
                      => \A i \in 1 .. Len(Append(p, x)) :
                           Append(p, x)[i].kind \notin ks
<1> DEFINE a == Append(p, x)
<1>1. /\ Len(p) \in Nat /\ Len(a) = Len(p) + 1 /\ a[Len(p) + 1] = x
      /\ a \in Seq(Posts)
      /\ \A i \in 1 .. Len(p) : a[i] = p[i]
    BY AppendProperties
<1>2. 1 .. Len(a) = (1 .. Len(p)) \cup {Len(p) + 1}
    BY <1>1
<1> HIDE DEF a
<1>3. ASSUME x.kind # "send"
      PROVE  Sends(a) = Sends(p)
    BY <1>1, <1>2, <1>3 DEF Sends
<1>4. \A i \in Sends(p) : a[i] = p[i]
    BY <1>1 DEF Sends
<1>5. ASSUME x.kind # "send"
      PROVE  Sent(a) = Sent(p) /\ (OneSend(p) => OneSend(a))
    BY <1>3, <1>4, <1>5 DEF Sent, OneSend
<1>6. ASSUME x.kind = "send", Sent(p) = {}
      PROVE  Sent(a) = {x.command} /\ OneSend(a)
  <2>1. Sends(p) = {}
    BY <1>6 DEF Sent
  <2>2. Sends(a) = {Len(p) + 1}
    BY <1>1, <1>2, <1>6, <2>1 DEF Sends
  <2> QED
    BY <1>1, <2>2 DEF Sent, OneSend
<1>7. \A ks : /\ x.kind \notin ks
              /\ \A i \in 1 .. Len(p) : p[i].kind \notin ks
              => \A i \in 1 .. Len(a) : a[i].kind \notin ks
    BY <1>1, <1>2
<1> QED
    BY <1>1, <1>5, <1>6, <1>7 DEF a

\* The IO thread takes what was posted first.
LEMMA TailPosts ==
    ASSUME NEW p \in Seq(Posts), p # <<>>
    PROVE  /\ Tail(p) \in Seq(Posts) /\ Head(p) \in Posts
           /\ Head(p).kind # "send" => Sent(Tail(p)) = Sent(p)
           /\ OneSend(p) =>
                /\ OneSend(Tail(p))
                /\ Head(p).kind = "send" =>
                     Sent(p) = {Head(p).command} /\ Sent(Tail(p)) = {}
           /\ \A ks : (\A i \in 1 .. Len(p) : p[i].kind \notin ks)
                      => /\ Head(p).kind \notin ks
                         /\ \A i \in 1 .. Len(Tail(p)) : Tail(p)[i].kind \notin ks
<1> DEFINE b == Tail(p)
<1>1. /\ Len(p) \in Nat \ {0} /\ Len(b) = Len(p) - 1 /\ Head(p) = p[1]
      /\ b \in Seq(Posts) /\ Head(p) \in Posts
      /\ \A i \in 1 .. Len(b) : b[i] = p[i + 1]
    BY HeadTailProperties, EmptySeq
<1> HIDE DEF b
<1>2. \A i \in 1 .. Len(b) : i + 1 \in 1 .. Len(p) /\ i + 1 # 1
    BY <1>1
<1>3. 1 \in 1 .. Len(p)
    BY <1>1
<1>4. \A i \in Sends(b) : i + 1 \in Sends(p) /\ p[i + 1] = b[i]
    BY <1>1, <1>2 DEF Sends
<1>5. \A j \in Sends(p) : j # 1 => j - 1 \in Sends(b) /\ b[j - 1] = p[j]
  <2> SUFFICES ASSUME NEW j \in Sends(p), j # 1
               PROVE  j - 1 \in Sends(b) /\ b[j - 1] = p[j]
    OBVIOUS
  <2>1. j \in 1 .. Len(p) /\ p[j].kind = "send"
    BY DEF Sends
  <2>2. j - 1 \in 1 .. Len(b) /\ (j - 1) + 1 = j
    BY <2>1, <1>1
  <2>3. b[j - 1] = p[j]
    BY <2>2, <1>1
  <2> QED
    BY <2>1, <2>2, <2>3 DEF Sends
<1>6. Sent(b) \subseteq Sent(p)
    BY <1>4 DEF Sent
<1>7. ASSUME Head(p).kind # "send"
      PROVE  Sent(b) = Sent(p)
  <2>1. 1 \notin Sends(p)
    BY <1>1, <1>7 DEF Sends
  <2>2. Sent(p) \subseteq Sent(b)
    BY <2>1, <1>5 DEF Sent
  <2> QED
    BY <2>2, <1>6
<1>8. ASSUME OneSend(p)
      PROVE  OneSend(b)
  <2> SUFFICES ASSUME NEW i \in Sends(b), NEW j \in Sends(b)
               PROVE  i = j
    BY DEF OneSend
  <2>1. i + 1 = j + 1
    BY <1>4, <1>8 DEF OneSend
  <2>2. i \in Nat /\ j \in Nat
    BY <1>1 DEF Sends
  <2> QED
    BY <2>1, <2>2
<1>9. ASSUME OneSend(p), Head(p).kind = "send"
      PROVE  Sent(p) = {Head(p).command} /\ Sent(b) = {}
  <2>1. 1 \in Sends(p)
    BY <1>1, <1>3, <1>9 DEF Sends
  <2>2. Sends(p) = {1}
    BY <2>1, <1>9 DEF OneSend
  <2>3. Sends(b) = {}
    BY <2>2, <1>4, <1>2 DEF Sends
  <2> QED
    BY <2>2, <2>3, <1>1 DEF Sent
<1>10. \A ks : (\A i \in 1 .. Len(p) : p[i].kind \notin ks)
               => /\ Head(p).kind \notin ks
                  /\ \A i \in 1 .. Len(b) : b[i].kind \notin ks
    BY <1>1, <1>2, <1>3
<1> QED
    BY <1>1, <1>7, <1>8, <1>9, <1>10 DEF b

\* Something more is reported to the GUI thread.
LEMMA AppendedEvent ==
    ASSUME NEW e \in Seq(Events), NEW x \in Events, NEW g, NEW ks
    PROVE  /\ Append(e, x) \in Seq(Events)
           /\ ~(x.gen = g /\ x.kind \in ks) =>
                /\ NewsIds(Append(e, x), g, ks) = NewsIds(e, g, ks)
                /\ NewsOnce(e, g, ks) => NewsOnce(Append(e, x), g, ks)
           /\ x.gen = g /\ x.kind \in ks =>
                /\ NewsIds(Append(e, x), g, ks) = NewsIds(e, g, ks) \cup {x.id}
                /\ NewsOnce(e, g, ks) /\ x.id \notin NewsIds(e, g, ks)
                     => NewsOnce(Append(e, x), g, ks)
<1> DEFINE a == Append(e, x)
<1>1. /\ Len(e) \in Nat /\ Len(a) = Len(e) + 1 /\ a[Len(e) + 1] = x
      /\ a \in Seq(Events)
      /\ \A i \in 1 .. Len(e) : a[i] = e[i]
    BY AppendProperties
<1>2. 1 .. Len(a) = (1 .. Len(e)) \cup {Len(e) + 1}
    BY <1>1
<1> HIDE DEF a
<1>3. \A i \in News(e, g, ks) : a[i] = e[i]
    BY <1>1 DEF News
<1>4. ASSUME ~(x.gen = g /\ x.kind \in ks)
      PROVE  News(a, g, ks) = News(e, g, ks)
    BY <1>1, <1>2, <1>4 DEF News
<1>5. ASSUME x.gen = g, x.kind \in ks
      PROVE  News(a, g, ks) = News(e, g, ks) \cup {Len(e) + 1}
    BY <1>1, <1>2, <1>5 DEF News
<1>6. ASSUME ~(x.gen = g /\ x.kind \in ks)
      PROVE  /\ NewsIds(a, g, ks) = NewsIds(e, g, ks)
             /\ NewsOnce(e, g, ks) => NewsOnce(a, g, ks)
    BY <1>3, <1>4, <1>6 DEF NewsIds, NewsOnce
<1>7. ASSUME x.gen = g, x.kind \in ks
      PROVE  /\ NewsIds(a, g, ks) = NewsIds(e, g, ks) \cup {x.id}
             /\ NewsOnce(e, g, ks) /\ x.id \notin NewsIds(e, g, ks)
                     => NewsOnce(a, g, ks)
    BY <1>1, <1>3, <1>5, <1>7 DEF NewsIds, NewsOnce
<1> QED
    BY <1>1, <1>6, <1>7 DEF a

\* The GUI thread takes what was reported first.
LEMMA TailEvents ==
    ASSUME NEW e \in Seq(Events), e # <<>>, NEW g, NEW ks
    PROVE  /\ Tail(e) \in Seq(Events) /\ Head(e) \in Events
           /\ NewsIds(Tail(e), g, ks) \subseteq NewsIds(e, g, ks)
           /\ ~(Head(e).gen = g /\ Head(e).kind \in ks) =>
                NewsIds(Tail(e), g, ks) = NewsIds(e, g, ks)
           /\ Head(e).gen = g /\ Head(e).kind \in ks =>
                Head(e).id \in NewsIds(e, g, ks)
           /\ NewsOnce(e, g, ks) =>
                /\ NewsOnce(Tail(e), g, ks)
                /\ Head(e).gen = g /\ Head(e).kind \in ks =>
                     Head(e).id \notin NewsIds(Tail(e), g, ks)
           /\ \A i \in 1 .. Len(Tail(e)) :
                i + 1 \in 1 .. Len(e) /\ Tail(e)[i] = e[i + 1]
           /\ \A j \in 1 .. Len(e) : j # 1 =>
                j - 1 \in 1 .. Len(Tail(e)) /\ Tail(e)[j - 1] = e[j]
           /\ 1 \in 1 .. Len(e) /\ Head(e) = e[1]
<1> DEFINE b == Tail(e)
<1>1. /\ Len(e) \in Nat \ {0} /\ Len(b) = Len(e) - 1 /\ Head(e) = e[1]
      /\ b \in Seq(Events) /\ Head(e) \in Events
      /\ \A i \in 1 .. Len(b) : b[i] = e[i + 1]
    BY HeadTailProperties, EmptySeq
<1> HIDE DEF b
<1>2. \A i \in 1 .. Len(b) : i + 1 \in 1 .. Len(e) /\ i + 1 # 1
    BY <1>1
<1>3. 1 \in 1 .. Len(e)
    BY <1>1
<1>4. \A j \in 1 .. Len(e) : j # 1 =>
        j - 1 \in 1 .. Len(b) /\ b[j - 1] = e[j]
  <2> SUFFICES ASSUME NEW j \in 1 .. Len(e), j # 1
               PROVE  j - 1 \in 1 .. Len(b) /\ b[j - 1] = e[j]
    OBVIOUS
  <2>1. j - 1 \in 1 .. Len(b) /\ (j - 1) + 1 = j
    BY <1>1
  <2> QED
    BY <2>1, <1>1
<1>5. \A i \in News(b, g, ks) : i + 1 \in News(e, g, ks) /\ e[i + 1] = b[i]
    BY <1>1, <1>2 DEF News
<1>6. \A j \in News(e, g, ks) : j # 1 => j - 1 \in News(b, g, ks) /\ b[j - 1] = e[j]
    BY <1>4 DEF News
<1>7. NewsIds(b, g, ks) \subseteq NewsIds(e, g, ks)
    BY <1>5 DEF NewsIds
<1>8. ASSUME ~(Head(e).gen = g /\ Head(e).kind \in ks)
      PROVE  NewsIds(e, g, ks) \subseteq NewsIds(b, g, ks)
  <2>1. 1 \notin News(e, g, ks)
    BY <1>1, <1>8 DEF News
  <2> QED
    BY <2>1, <1>6 DEF NewsIds
<1>9. ASSUME Head(e).gen = g, Head(e).kind \in ks
      PROVE  1 \in News(e, g, ks) /\ Head(e).id \in NewsIds(e, g, ks)
    BY <1>1, <1>3, <1>9 DEF News, NewsIds
<1>10. ASSUME NewsOnce(e, g, ks)
       PROVE  NewsOnce(b, g, ks)
  <2> SUFFICES ASSUME NEW i \in News(b, g, ks), NEW j \in News(b, g, ks),
                      b[i].id = b[j].id
               PROVE  i = j
    BY DEF NewsOnce
  <2>1. i + 1 = j + 1
    BY <1>5, <1>10 DEF NewsOnce
  <2>2. i \in Nat /\ j \in Nat
    BY <1>1 DEF News
  <2> QED
    BY <2>1, <2>2
<1>11. ASSUME NewsOnce(e, g, ks), Head(e).gen = g, Head(e).kind \in ks,
              Head(e).id \in NewsIds(b, g, ks)
       PROVE  FALSE
  <2>1. PICK i \in News(b, g, ks) : b[i].id = Head(e).id
    BY <1>11 DEF NewsIds
  <2>2. i + 1 = 1
    BY <2>1, <1>1, <1>5, <1>9, <1>11 DEF NewsOnce
  <2>3. i \in 1 .. Len(b)
    BY DEF News
  <2> QED
    BY <2>2, <2>3, <1>2
<1> QED
    BY <1>1, <1>2, <1>3, <1>4, <1>7, <1>8, <1>9, <1>10, <1>11 DEF b

-----------------------------------------------------------------------------
\* The controller's record.

\* A request that was received and is nowhere any more, so that it may be
\* answered.
Taken(c, k) ==
    Answered \cup Delivered \cup Writing \cup Sending(c) \cup Queued(c)
      \cup c.serving \cup Called(c, k) \cup Announced(c)
Free(c, k, r) == Live => r \in io.received /\ r \notin Taken(c, k)

\* An empty queue is about nothing.
LEMMA EmptyRefs ==
    ASSUME NEW t
    PROVE  /\ Refs(<<>>, t) = {} /\ EachOnce(<<>>, t)
           /\ Sent(<<>>) = {} /\ OneSend(<<>>)
<1>1. 1 .. Len(<<>>) = {}
    BY EmptySeq
<1> QED
    BY <1>1 DEF Refs, EachOnce, Sent, Sends, OneSend

\* Whatever else changes, it is the same session.
LEMMA SameSession ==
    ASSUME NEW c, NEW d, NEW k, Sound(c, k), d \in Controllers,
           d.state = c.state, d.attached = c.attached,
           d.generation = c.generation, d.events = c.events,
           d.posted = c.posted, d.outbound = c.outbound,
           d.active.id = c.active.id, d.routes = c.routes,
           d.latest = c.latest, d.acknowledged = c.acknowledged,
           d.lastRoute = c.lastRoute,
           d.serving \subseteq c.serving, d.admitted => c.admitted,
           d.bound = c.bound \/ (~d.admitted /\ d.serving = {})
    PROVE  Sound(d, k)
<1>1. /\ c \in Controllers /\ k \in Calls /\ AuthorityMatches(c) /\ ReportsOK(c, k)
      /\ OneIsSent(c) /\ RequestsOK(c, k)
    BY DEF Sound, Base
<1>2. AuthorityMatches(d)
    BY <1>1 DEF AuthorityMatches, Running
<1>3. ReportsOK(d, k) /\ OneIsSent(d)
    BY <1>1 DEF ReportsOK, OneIsSent
<1>4. RequestsOK(d, k)
  <2>1. /\ Announced(d) = Announced(c) /\ Called(d, k) = Called(c, k)
        /\ Queued(d) = Queued(c) /\ Sending(d) = Sending(c)
    BY DEF Announced, Called, Queued, Sending
  <2> QED
    BY <1>1, <2>1 DEF RequestsOK
<1>5. ASSUME Running(d)
      PROVE  Served(d)
  <2>1. Heard(c) /\ ActiveIsSent(c) /\ RoutesOK(c)
    BY <1>5 DEF Sound, Served, Running
  <2>2. Heard(d) /\ ActiveIsSent(d)
    BY <2>1 DEF Heard, ActiveIsSent
  <2>3. RoutesOK(d)
    BY <2>1 DEF RoutesOK, Loaded
  <2> QED
    BY <2>2, <2>3 DEF Served
<1> QED
    BY <1>1, <1>2, <1>3, <1>4, <1>5 DEF Sound, Base

\* A session that does not run any more keeps what was promised of any.
LEMMA SessionStops ==
    ASSUME NEW c, NEW d, NEW k, Base(c, k), d \in Controllers, ~Running(d),
           d.generation = c.generation, d.events = c.events,
           d.outbound \in {c.outbound, <<>>},
           ~d.admitted, d.serving = {},
           Sent(d.posted) = Sent(c.posted), OneSend(d.posted)
    PROVE  Sound(d, k)
<1>1. /\ c \in Controllers /\ k \in Calls /\ AuthorityMatches(c) /\ ReportsOK(c, k)
      /\ OneIsSent(c) /\ RequestsOK(c, k)
    BY DEF Base
<1>2. AuthorityMatches(d) /\ ReportsOK(d, k) /\ OneIsSent(d)
    BY <1>1 DEF AuthorityMatches, ReportsOK, OneIsSent
<1>3. RequestsOK(d, k)
  <2>1. /\ Announced(d) = Announced(c) /\ Called(d, k) = Called(c, k)
        /\ Sending(d) = Sending(c)
    BY DEF Announced, Called, Sending, SentRefs
  <2>2. /\ Queued(d) \subseteq Queued(c)
        /\ (EachOnce(c.outbound, "Response") => EachOnce(d.outbound, "Response"))
    BY EmptyRefs DEF Queued
  <2> QED
    BY <1>1, <2>1, <2>2 DEF RequestsOK
<1> QED
    BY <1>1, <1>2, <1>3 DEF Sound, Base

\* The IO thread is told something else than to send a command.
LEMMA OtherPost ==
    ASSUME NEW c \in Controllers, NEW x \in Posts, x.kind # "send"
    PROVE  /\ Post(c, x) \in Controllers
           /\ Post(c, x) = [c EXCEPT !.posted = Append(c.posted, x)]
           /\ Sent(Post(c, x).posted) = Sent(c.posted)
           /\ OneSend(c.posted) => OneSend(Post(c, x).posted)
<1>1. c.posted \in Seq(Posts)
    BY DEF Controllers
<1>2. Post(c, x) = [c EXCEPT !.posted = Append(c.posted, x)]
    BY DEF Post
<1>3. Append(c.posted, x) \in Seq(Posts)
    BY <1>1, AppendedPost
<1>4. Post(c, x) \in Controllers /\ Post(c, x).posted = Append(c.posted, x)
    BY <1>2, <1>3 DEF Controllers
<1> QED
    BY <1>1, <1>2, <1>4, AppendedPost

\* Polling resumes.
LEMMA ResumeIsSound ==
    ASSUME NEW c, NEW k, Sound(c, k)
    PROVE  Sound(resumeIoPolling(c), k)
<1> DEFINE x == [kind |-> "resume"]
           d == Post(c, x)
<1>1. CASE ~c.attached
    BY <1>1 DEF resumeIoPolling
<1>2. CASE c.attached
  <2>1. /\ c \in Controllers /\ k \in Calls /\ AuthorityMatches(c) /\ ReportsOK(c, k)
        /\ OneIsSent(c) /\ RequestsOK(c, k)
    BY DEF Sound, Base
  <2>2. x \in Posts /\ x.kind # "send" /\ x.kind \notin {"abort", "shutdown"}
    BY DEF Posts
  <2>3. /\ d \in Controllers
        /\ d = [c EXCEPT !.posted = Append(c.posted, x)]
        /\ Sent(d.posted) = Sent(c.posted)
        /\ OneSend(d.posted)
    BY <2>1, <2>2, OtherPost DEF OneIsSent
  <2>4. /\ d.state = c.state /\ d.attached = c.attached /\ d.bound = c.bound
        /\ d.admitted = c.admitted /\ d.serving = c.serving
        /\ d.generation = c.generation /\ d.events = c.events
        /\ d.error = c.error /\ d.outbound = c.outbound /\ d.active = c.active
        /\ d.routes = c.routes /\ d.latest = c.latest
        /\ d.acknowledged = c.acknowledged /\ d.lastRoute = c.lastRoute
        /\ d.posted = Append(c.posted, x)
    BY <2>1, <2>3 DEF Controllers
  <2>5. c.posted \in Seq(Posts)
    BY <2>1 DEF Controllers
  <2> HIDE DEF d, x
  <2>6. AuthorityMatches(d) /\ ReportsOK(d, k) /\ OneIsSent(d)
    BY <2>1, <2>3, <2>4 DEF AuthorityMatches, Running, ReportsOK, OneIsSent
  <2>7. RequestsOK(d, k)
    <3>1. /\ Announced(d) = Announced(c) /\ Called(d, k) = Called(c, k)
          /\ Queued(d) = Queued(c) /\ Sending(d) = Sending(c)
      BY <2>3, <2>4 DEF Announced, Called, Queued, Sending, SentRefs
    <3> QED
      BY <2>1, <2>4, <3>1 DEF RequestsOK
  <2>8. ASSUME Running(d)
        PROVE  Served(d)
    <3>1. Heard(c) /\ ActiveIsSent(c) /\ RoutesOK(c)
      BY <2>4, <2>8 DEF Sound, Served, Running
    <3>2. \A i \in 1 .. Len(d.posted) : d.posted[i].kind \notin {"abort", "shutdown"}
      BY <2>2, <2>4, <2>5, <3>1, AppendedPost DEF Heard
    <3>3. Heard(d)
      BY <2>4, <3>1, <3>2 DEF Heard
    <3>4. ActiveIsSent(d)
      BY <2>3, <2>4, <3>1 DEF ActiveIsSent
    <3>5. RoutesOK(d)
      BY <2>3, <2>4, <3>1 DEF RoutesOK, Loaded, SentRefs
    <3> QED
      BY <3>3, <3>4, <3>5 DEF Served
  <2>9. Sound(d, k)
    BY <2>1, <2>3, <2>6, <2>7, <2>8 DEF Sound, Base
  <2> QED
    BY <1>2, <2>9 DEF resumeIoPolling, d, x
<1> QED
    BY <1>1, <1>2

\* dropWork and invalidateCapabilityBinding leave a record, without work and
\* without authority.
LEMMA WithoutWork ==
    ASSUME NEW c \in Controllers
    PROVE  LET d == dropWork(c)
           IN  /\ d \in Controllers
               /\ d.outbound = <<>> /\ d.active = NoCommand /\ d.routes = {}
               /\ d.state = c.state /\ d.finalState = c.finalState
               /\ d.generation = c.generation /\ d.events = c.events
               /\ d.posted = c.posted /\ d.error = c.error
               /\ d.serving = c.serving /\ d.admitted = c.admitted
               /\ d.bound = c.bound /\ d.attached = c.attached
<1> DEFINE e == [c EXCEPT !.routes = {}, !.latest = 0, !.acknowledged = FALSE]
           f == [e EXCEPT !.outbound = <<>>, !.active = NoCommand, !.request = 0]
<1>1. NoCommand \in Commands
    BY DEF NoCommand, Commands
<1>2. <<>> \in Seq(Commands)
    BY EmptySeq
<1>3. /\ e \in Controllers /\ e.routes = {}
      /\ e.state = c.state /\ e.finalState = c.finalState
      /\ e.generation = c.generation /\ e.events = c.events
      /\ e.posted = c.posted /\ e.error = c.error
      /\ e.serving = c.serving /\ e.admitted = c.admitted
      /\ e.bound = c.bound /\ e.attached = c.attached
    BY DEF Controllers
<1> HIDE DEF e
<1>4. f \in Controllers
    BY <1>1, <1>2, <1>3 DEF Controllers
<1>5. /\ f.outbound = <<>> /\ f.active = NoCommand /\ f.routes = e.routes
      /\ f.state = e.state /\ f.finalState = e.finalState
      /\ f.generation = e.generation /\ f.events = e.events
      /\ f.posted = e.posted /\ f.error = e.error
      /\ f.serving = e.serving /\ f.admitted = e.admitted
      /\ f.bound = e.bound /\ f.attached = e.attached
    BY <1>3 DEF Controllers
<1> HIDE DEF f
<1> QED
    BY <1>3, <1>4, <1>5 DEF dropWork, clearPendingRouteLoads, e, f
\* A session that gives its runtime up has no authority left to match.
LEMMA WithoutAuthority ==
    ASSUME NEW c \in Controllers
    PROVE  LET d == invalidateCapabilityBinding(c)
           IN  /\ d \in Controllers
               /\ ~d.bound /\ d.serving = {} /\ ~d.admitted
               /\ d.outbound = c.outbound /\ d.active = c.active
               /\ d.routes = c.routes /\ d.latest = c.latest
               /\ d.acknowledged = c.acknowledged /\ d.lastRoute = c.lastRoute
               /\ d.state = c.state /\ d.finalState = c.finalState
               /\ d.generation = c.generation /\ d.events = c.events
               /\ d.posted = c.posted /\ d.error = c.error
               /\ d.attached = c.attached
BY DEF invalidateCapabilityBinding, authorityLeft, Controllers

\* Asking the IO thread to end.
LEMMA StopAsked ==
    ASSUME NEW c \in Controllers
    PROVE  LET d == requestIoStop(c)
           IN  /\ d \in Controllers
               /\ d.state = c.state /\ d.generation = c.generation
               /\ d.events = c.events /\ d.outbound = c.outbound
               /\ d.error = c.error /\ d.admitted = c.admitted
               /\ d.serving = c.serving
               /\ Sent(d.posted) = Sent(c.posted)
               /\ OneSend(c.posted) => OneSend(d.posted)
<1> DEFINE x == [kind |-> "abort"]
           e == [c EXCEPT !.stopRequested = TRUE]
<1>1. x \in Posts /\ x.kind # "send"
    BY DEF Posts
<1>2. /\ e \in Controllers /\ e.posted = c.posted /\ e.state = c.state
      /\ e.generation = c.generation /\ e.events = c.events
      /\ e.outbound = c.outbound /\ e.error = c.error
      /\ e.admitted = c.admitted /\ e.serving = c.serving
    BY DEF Controllers
<1> HIDE DEF e
<1>3. /\ Post(e, x) \in Controllers
      /\ Post(e, x) = [e EXCEPT !.posted = Append(e.posted, x)]
      /\ Sent(Post(e, x).posted) = Sent(e.posted)
      /\ OneSend(e.posted) => OneSend(Post(e, x).posted)
    BY <1>1, <1>2, OtherPost
<1> DEFINE f == Post(e, x)
<1>4. /\ f.state = e.state /\ f.generation = e.generation /\ f.events = e.events
      /\ f.outbound = e.outbound /\ f.error = e.error
      /\ f.admitted = e.admitted /\ f.serving = e.serving
    BY <1>2, <1>3 DEF Controllers
<1>5. requestIoStop(c) = c \/ requestIoStop(c) = f
    BY DEF requestIoStop, e
<1> HIDE DEF f
<1> QED
    BY <1>2, <1>3, <1>4, <1>5 DEF f

\* A session that fails for a reason that is no surprise.
LEMMA FailIsSound ==
    ASSUME NEW c, NEW k, Base(c, k), NEW code \in Causes
    PROVE  Sound(failClosed(c, code), k)
<1>1. c \in Controllers /\ OneIsSent(c)
    BY DEF Base
<1>2. CASE c.state \in {"Failed", "Detached"}
    BY <1>2 DEF failClosed, Sound, Running
<1>3. CASE c.state \notin {"Failed", "Detached"}
  <2> DEFINE b == dropWork(c)
             i == invalidateCapabilityBinding(b)
             e == [i EXCEPT !.state = "Failed", !.error = code,
                            !.pendingBinding = FALSE, !.finalState = "Failed"]
             d == requestIoStop(e)
  <2>1. /\ b \in Controllers /\ b.outbound = <<>>
        /\ b.generation = c.generation /\ b.events = c.events
        /\ b.posted = c.posted
    BY <1>1, WithoutWork
  <2> HIDE DEF b
  <2>2. /\ i \in Controllers /\ i.outbound = <<>>
        /\ i.generation = c.generation /\ i.events = c.events
        /\ i.posted = c.posted /\ ~i.admitted /\ i.serving = {}
    BY <2>1, WithoutAuthority
  <2> HIDE DEF i
  <2>3. /\ e \in Controllers /\ e.outbound = <<>>
        /\ e.generation = c.generation /\ e.events = c.events
        /\ e.posted = c.posted /\ ~e.admitted /\ e.serving = {}
        /\ e.state = "Failed" /\ e.error = code
    BY <2>2 DEF Controllers
  <2> HIDE DEF e
  <2>4. /\ d \in Controllers /\ d.outbound = <<>>
        /\ d.generation = c.generation /\ d.events = c.events
        /\ ~d.admitted /\ d.serving = {}
        /\ d.state = "Failed" /\ d.error = code
        /\ Sent(d.posted) = Sent(c.posted) /\ OneSend(d.posted)
    BY <1>1, <2>3, StopAsked DEF OneIsSent
  <2> HIDE DEF d
  <2>5. Sound(d, k)
    BY <2>4, SessionStops DEF Running
  <2> QED
    BY <1>3, <2>5 DEF failClosed, b, i, e, d
<1> QED
    BY <1>2, <1>3

\* The next command is told to the IO thread when the last one has finished.
LEMMA PumpIsSound ==
    ASSUME NEW c, NEW k, Sound(c, k)
    PROVE  Sound(pumpOutbound(c), k)
<1> DEFINE h == Head(c.outbound)
           x == [kind |-> "send", command |-> h]
           e == [c EXCEPT !.active = h, !.outbound = Tail(c.outbound)]
           d == Post(e, x)
<1>1. CASE ~(Running(c) /\ c.attached /\ mayPump(c))
    BY <1>1 DEF pumpOutbound
<1>2. CASE Running(c) /\ c.attached /\ mayPump(c)
  <2>1. /\ c \in Controllers /\ k \in Calls /\ AuthorityMatches(c)
        /\ ReportsOK(c, k) /\ OneIsSent(c) /\ RequestsOK(c, k)
        /\ Heard(c) /\ ActiveIsSent(c) /\ RoutesOK(c)
    BY <1>2 DEF Sound, Base, Served
  <2>2. /\ c.outbound \in Seq(Commands) /\ c.outbound # <<>>
        /\ c.active.id = 0 /\ c.posted \in Seq(Posts)
    BY <1>2, <2>1 DEF mayPump, Controllers
  <2>3. /\ h \in Commands /\ Tail(c.outbound) \in Seq(Commands)
        /\ h = c.outbound[1] /\ 1 \in 1 .. Len(c.outbound)
        /\ \A i \in 1 .. Len(Tail(c.outbound)) :
             /\ i + 1 \in 1 .. Len(c.outbound)
             /\ Tail(c.outbound)[i] = c.outbound[i + 1]
    BY <2>2, HeadTailProperties, EmptySeq
  <2>4. /\ x \in Posts /\ x.kind = "send" /\ x.command = h
        /\ x.kind \notin {"abort", "shutdown"}
    BY <2>3 DEF Posts
  <2> HIDE DEF h, x
  <2>5. Append(c.posted, x) \in Seq(Posts)
    BY <2>2, <2>4, AppendedPost
  <2>6. /\ e \in Controllers
        /\ e.state = c.state /\ e.attached = c.attached /\ e.bound = c.bound
        /\ e.admitted = c.admitted /\ e.serving = c.serving
        /\ e.generation = c.generation /\ e.events = c.events
        /\ e.error = c.error /\ e.outbound = Tail(c.outbound) /\ e.active = h
        /\ e.routes = c.routes /\ e.latest = c.latest
        /\ e.acknowledged = c.acknowledged /\ e.lastRoute = c.lastRoute
        /\ e.posted = c.posted
    BY <2>1, <2>3 DEF Controllers
  <2> HIDE DEF e
  <2>7. d = [e EXCEPT !.posted = Append(c.posted, x)]
    BY <2>6 DEF Post
  <2>8. /\ d \in Controllers
        /\ d.state = c.state /\ d.attached = c.attached /\ d.bound = c.bound
        /\ d.admitted = c.admitted /\ d.serving = c.serving
        /\ d.generation = c.generation /\ d.events = c.events
        /\ d.error = c.error /\ d.outbound = Tail(c.outbound) /\ d.active = h
        /\ d.routes = c.routes /\ d.latest = c.latest
        /\ d.acknowledged = c.acknowledged /\ d.lastRoute = c.lastRoute
        /\ d.posted = Append(c.posted, x)
    BY <2>5, <2>6, <2>7 DEF Controllers
  <2> HIDE DEF d
  <2>9. /\ Sent(c.posted) = {} /\ io.command = 0
        /\ NewsIds(c.events, c.generation, {"finishedCommand"}) = {}
    BY <2>1, <2>2 DEF ActiveIsSent
  <2>10. Sent(d.posted) = {h} /\ OneSend(d.posted)
    BY <2>2, <2>4, <2>8, <2>9, AppendedPost
  <2>11. /\ Refs(Tail(c.outbound), "Response") \subseteq Refs(c.outbound, "Response")
         /\ Refs(Tail(c.outbound), "RouteLoad") \subseteq Refs(c.outbound, "RouteLoad")
    BY <2>2, TailRefs
  <2>12. \A t \in {"Response", "RouteLoad"} :
           /\ SentRefs(c.posted, t) = {}
           /\ SentRefs(d.posted, t) = IF h.type = t THEN {h.ref} ELSE {}
    BY <2>9, <2>10 DEF SentRefs
  <2>13. \A t \in {"Response", "RouteLoad"} :
           EachOnce(c.outbound, t) =>
             /\ EachOnce(Tail(c.outbound), t)
             /\ SentRefs(d.posted, t) \cap Refs(Tail(c.outbound), t) = {}
             /\ SentRefs(d.posted, t) \subseteq Refs(c.outbound, t)
    BY <2>2, <2>12, TailRefs DEF h
  <2>14. AuthorityMatches(d) /\ ReportsOK(d, k) /\ OneIsSent(d)
    BY <2>1, <2>8, <2>9, <2>10 DEF AuthorityMatches, Running, ReportsOK, OneIsSent
  <2>15. RequestsOK(d, k)
    <3>1. Announced(d) = Announced(c) /\ Called(d, k) = Called(c, k)
      BY <2>8 DEF Announced, Called
    <3>2. /\ Queued(d) \subseteq Queued(c)
          /\ EachOnce(c.outbound, "Response") =>
               /\ EachOnce(d.outbound, "Response")
               /\ Sending(d) \cap Queued(d) = {} /\ Sending(d) \subseteq Queued(c)
      BY <2>8, <2>11, <2>13 DEF Queued, Sending
    <3> QED
      BY <2>1, <2>8, <3>1, <3>2 DEF RequestsOK
  <2>16. Heard(d)
    <3>1. \A i \in 1 .. Len(d.posted) : d.posted[i].kind \notin {"abort", "shutdown"}
      BY <2>1, <2>2, <2>4, <2>8, AppendedPost DEF Heard
    <3> QED
      BY <2>1, <2>8, <3>1 DEF Heard
  <2>17. ActiveIsSent(d)
    <3>1. h.id # 0 /\ \A i \in 1 .. Len(d.outbound) : d.outbound[i].id # 0
      BY <2>1, <2>3, <2>8 DEF ActiveIsSent
    <3> QED
      BY <2>1, <2>8, <2>9, <2>10, <3>1 DEF ActiveIsSent
  <2>18. RoutesOK(d)
    BY <2>1, <2>8, <2>11, <2>12, <2>13 DEF RoutesOK, Loaded
  <2>19. Sound(d, k)
    BY <2>1, <2>8, <2>14, <2>15, <2>16, <2>17, <2>18 DEF Sound, Base, Served
  <2> QED
    BY <1>2, <2>19 DEF pumpOutbound, d, e, x, h
<1> QED
    BY <1>1, <1>2

\* A new command is queued: a response to a request that waits for it, the load
\* of a route that was just noted, or anything else.
LEMMA EnqueueIsSound ==
    ASSUME NEW c, NEW k, Sound(c, k), Running(c),
           NEW t \in {"Response", "RouteLoad", "VisibilityChanged"},
           NEW r \in Nat, NEW resume \in BOOLEAN, NEW completes \in BOOLEAN,
           NEW gated \in BOOLEAN,
           t = "Response" => Free(c, k, r),
           t = "RouteLoad" =>
             /\ r \in c.routes
             /\ r \notin Refs(c.outbound, t) \cup SentRefs(c.posted, t)
                           \cup io.pending \cup Loaded(c)
    PROVE  Sound(enqueue(c, t, r, resume, completes, gated), k)
<1> DEFINE m == [id |-> c.lastCommand + 1, type |-> t, ref |-> r,
                 resume |-> resume, completes |-> completes, gated |-> gated]
           d == [c EXCEPT !.lastCommand = c.lastCommand + 1,
                          !.outbound = Append(c.outbound, m)]
<1>1. /\ c \in Controllers /\ k \in Calls /\ AuthorityMatches(c)
      /\ ReportsOK(c, k) /\ OneIsSent(c) /\ RequestsOK(c, k)
      /\ Heard(c) /\ ActiveIsSent(c) /\ RoutesOK(c)
    BY DEF Sound, Base, Served
<1>2. /\ c.lastCommand \in Nat /\ c.lastCommand + 1 \in Nat
      /\ c.outbound \in Seq(Commands)
    BY <1>1 DEF Controllers
<1>3. m \in Commands /\ m.id # 0 /\ m.type = t /\ m.ref = r
    BY <1>2 DEF Commands
<1> HIDE DEF m
<1>4. /\ Append(c.outbound, m) \in Seq(Commands)
      /\ Len(Append(c.outbound, m)) = Len(c.outbound) + 1
      /\ Len(c.outbound) \in Nat
      /\ \A i \in 1 .. Len(c.outbound) : Append(c.outbound, m)[i] = c.outbound[i]
      /\ Append(c.outbound, m)[Len(c.outbound) + 1] = m
    BY <1>2, <1>3, AppendProperties
<1>5. /\ d \in Controllers
      /\ d.state = c.state /\ d.attached = c.attached /\ d.bound = c.bound
      /\ d.admitted = c.admitted /\ d.serving = c.serving
      /\ d.generation = c.generation /\ d.events = c.events
      /\ d.error = c.error /\ d.outbound = Append(c.outbound, m)
      /\ d.active = c.active
      /\ d.routes = c.routes /\ d.latest = c.latest
      /\ d.acknowledged = c.acknowledged /\ d.lastRoute = c.lastRoute
      /\ d.posted = c.posted
    BY <1>1, <1>2, <1>4 DEF Controllers
<1> HIDE DEF d
<1>6. \A u \in {"Response", "RouteLoad"} :
        /\ u # t => /\ Refs(d.outbound, u) = Refs(c.outbound, u)
                    /\ EachOnce(c.outbound, u) => EachOnce(d.outbound, u)
        /\ u = t => /\ Refs(d.outbound, u) = Refs(c.outbound, u) \cup {r}
                    /\ EachOnce(c.outbound, u) /\ r \notin Refs(c.outbound, u)
                         => EachOnce(d.outbound, u)
  <2> SUFFICES ASSUME NEW u \in {"Response", "RouteLoad"}
               PROVE  /\ u # t =>
                           /\ Refs(d.outbound, u) = Refs(c.outbound, u)
                           /\ EachOnce(c.outbound, u) => EachOnce(d.outbound, u)
                      /\ u = t =>
                           /\ Refs(d.outbound, u) = Refs(c.outbound, u) \cup {r}
                           /\ EachOnce(c.outbound, u) /\ r \notin Refs(c.outbound, u)
                                => EachOnce(d.outbound, u)
    OBVIOUS
  <2> DEFINE a == Append(c.outbound, m)
  <2>1. /\ m.type # u => /\ Refs(a, u) = Refs(c.outbound, u)
                         /\ EachOnce(c.outbound, u) => EachOnce(a, u)
        /\ m.type = u => /\ Refs(a, u) = Refs(c.outbound, u) \cup {m.ref}
                         /\ EachOnce(c.outbound, u) /\ m.ref \notin Refs(c.outbound, u)
                              => EachOnce(a, u)
    BY <1>2, <1>3, AppendedRefs
  <2> HIDE DEF a
  <2>2. d.outbound = a
    BY <1>5 DEF a
  <2> QED
    BY <1>3, <2>1, <2>2
<1>7. AuthorityMatches(d) /\ ReportsOK(d, k) /\ OneIsSent(d)
    BY <1>1, <1>5 DEF AuthorityMatches, Running, ReportsOK, OneIsSent
<1>8. RequestsOK(d, k)
  <2>1. /\ Announced(d) = Announced(c) /\ Called(d, k) = Called(c, k)
        /\ Sending(d) = Sending(c)
    BY <1>5 DEF Announced, Called, Sending
  <2>2. CASE t # "Response"
    <3>1. /\ Queued(d) = Queued(c)
          /\ (EachOnce(c.outbound, "Response") => EachOnce(d.outbound, "Response"))
      BY <1>6, <2>2 DEF Queued
    <3> QED
      BY <1>1, <1>5, <2>1, <3>1 DEF RequestsOK
  <2>3. CASE t = "Response"
    <3>1. /\ Queued(d) = Queued(c) \cup {r}
          /\ (EachOnce(c.outbound, "Response") /\ r \notin Queued(c)
                => EachOnce(d.outbound, "Response"))
      BY <1>6, <2>3 DEF Queued
    <3> QED
      BY <1>1, <1>5, <2>1, <2>3, <3>1 DEF RequestsOK, Free, Taken
  <2> QED
    BY <2>2, <2>3
<1>9. Heard(d)
    BY <1>1, <1>5 DEF Heard
<1>10. ActiveIsSent(d)
  <2>1. \A i \in 1 .. Len(d.outbound) : d.outbound[i].id # 0
    BY <1>1, <1>3, <1>4, <1>5 DEF ActiveIsSent
  <2> QED
    BY <1>1, <1>5, <2>1 DEF ActiveIsSent
<1>11. RoutesOK(d)
    BY <1>1, <1>5, <1>6 DEF RoutesOK, Loaded
<1>12. Sound(d, k)
    BY <1>1, <1>5, <1>7, <1>8, <1>9, <1>10, <1>11 DEF Sound, Base, Served
<1> QED
    BY <1>12, PumpIsSound DEF enqueue, d, m

\* A queued command leaves the session as it is.
LEMMA EnqueueRuns ==
    ASSUME NEW c \in Controllers,
           NEW t \in {"Response", "RouteLoad", "VisibilityChanged"},
           NEW r \in Nat, NEW resume \in BOOLEAN, NEW completes \in BOOLEAN,
           NEW gated \in BOOLEAN
    PROVE  enqueue(c, t, r, resume, completes, gated).state = c.state
BY DEF enqueue, pumpOutbound, Post, Controllers

\* Another route load.
LEMMA RouteLoadIsSound ==
    ASSUME NEW c, NEW k, Sound(c, k), Running(c)
    PROVE  Sound(enqueueRouteLoad(c), k)
<1> DEFINE r == c.lastRoute + 1
           d == [c EXCEPT !.lastRoute = r, !.routes = c.routes \cup {r},
                          !.latest = r, !.acknowledged = FALSE]
<1>1. /\ c \in Controllers /\ k \in Calls /\ AuthorityMatches(c)
      /\ ReportsOK(c, k) /\ OneIsSent(c) /\ RequestsOK(c, k)
      /\ Heard(c) /\ ActiveIsSent(c) /\ RoutesOK(c)
    BY DEF Sound, Base, Served
<1>2. /\ r \in Nat /\ r # 0 /\ c.lastRoute \in Nat /\ c.lastRoute < r
      /\ c.routes \subseteq Nat
    BY <1>1 DEF Controllers
<1> HIDE DEF r
<1>3. /\ d \in Controllers
      /\ d.state = c.state /\ d.attached = c.attached /\ d.bound = c.bound
      /\ d.admitted = c.admitted /\ d.serving = c.serving
      /\ d.generation = c.generation /\ d.events = c.events
      /\ d.error = c.error /\ d.outbound = c.outbound
      /\ d.active = c.active /\ d.posted = c.posted
      /\ d.routes = c.routes \cup {r} /\ d.latest = r
      /\ d.lastRoute = r
    BY <1>1, <1>2 DEF Controllers
<1> HIDE DEF d
<1>4. r \notin c.routes
    BY <1>1, <1>2 DEF RoutesOK
<1>5. AuthorityMatches(d) /\ ReportsOK(d, k) /\ OneIsSent(d)
    BY <1>1, <1>3 DEF AuthorityMatches, Running, ReportsOK, OneIsSent
<1>6. RequestsOK(d, k)
  <2>1. /\ Announced(d) = Announced(c) /\ Called(d, k) = Called(c, k)
        /\ Queued(d) = Queued(c) /\ Sending(d) = Sending(c)
    BY <1>3 DEF Announced, Called, Queued, Sending
  <2> QED
    BY <1>1, <1>3, <2>1 DEF RequestsOK
<1>7. Heard(d) /\ ActiveIsSent(d)
    BY <1>1, <1>3 DEF Heard, ActiveIsSent
<1>8. RoutesOK(d)
  <2>1. \A q \in d.routes : q <= d.lastRoute
    BY <1>1, <1>2, <1>3 DEF RoutesOK
  <2> QED
    BY <1>1, <1>2, <1>3, <2>1 DEF RoutesOK, Loaded
<1>9. Sound(d, k) /\ Running(d)
    BY <1>1, <1>3, <1>5, <1>6, <1>7, <1>8 DEF Sound, Base, Served, Running
<1>10. r \notin Refs(d.outbound, "RouteLoad") \cup SentRefs(d.posted, "RouteLoad")
                  \cup io.pending \cup Loaded(d)
    BY <1>1, <1>3, <1>4 DEF RoutesOK, Loaded
<1>11. Sound(enqueue(d, "RouteLoad", r, FALSE, FALSE, FALSE), k)
    BY <1>2, <1>3, <1>9, <1>10, EnqueueIsSound
<1> QED
    BY <1>11 DEF enqueueRouteLoad, d, r

\* A response of the Host itself.
LEMMA ResponseIsSound ==
    ASSUME NEW c, NEW k, Sound(c, k), Running(c), NEW r \in Nat,
           NEW resume \in BOOLEAN, Free(c, k, r)
    PROVE  Sound(enqueueResponse(c, r, resume), k)
<1>1. Sound(failClosed(c, "response_queue_failed"), k)
  <2>1. Base(c, k) /\ "response_queue_failed" \in Causes
    BY DEF Sound, Causes
  <2> QED
    BY <2>1, FailIsSound
<1>2. Sound(enqueue(c, "Response", r, resume, FALSE, FALSE), k)
    BY EnqueueIsSound
<1> QED
    BY <1>1, <1>2 DEF enqueueResponse

\* A response of a capability.
LEMMA CapabilityResponseIsSound ==
    ASSUME NEW c, NEW k, Sound(c, k), NEW r \in Nat, Free(c, k, r),
           NEW completes \in BOOLEAN, NEW gated \in BOOLEAN, NEW gen \in Nat
    PROVE  Sound(queueCapabilityResponse(c, gen, r, completes, gated), k)
<1> DEFINE x == [kind |-> "failLater", gen |-> gen, id |-> 0]
           d == [c EXCEPT !.events = Append(c.events, x)]
<1>1. CASE \/ gen # c.generation \/ ~Running(c)
           \/ (completes /\ r # c.request)
           \/ (~completes /\ c.request \in {0, r})
           \/ gated # c.bound
    BY <1>1 DEF queueCapabilityResponse
<1>2. ASSUME gen = c.generation, Running(c)
      PROVE  /\ Sound(enqueue(c, "Response", r, FALSE, completes, gated), k)
             /\ Sound(d, k)
  <2>1. Sound(enqueue(c, "Response", r, FALSE, completes, gated), k)
    BY <1>2, EnqueueIsSound
  <2>2. /\ c \in Controllers /\ k \in Calls /\ AuthorityMatches(c)
        /\ ReportsOK(c, k) /\ OneIsSent(c) /\ RequestsOK(c, k)
        /\ Heard(c) /\ ActiveIsSent(c) /\ RoutesOK(c)
    BY <1>2 DEF Sound, Base, Served
  <2>3. /\ x \in Events /\ x.kind = "failLater" /\ x.gen = c.generation
        /\ c.events \in Seq(Events)
    BY <1>2, <2>2 DEF Events, Controllers
  <2> HIDE DEF x
  <2>4. /\ Append(c.events, x) \in Seq(Events) /\ Len(c.events) \in Nat
        /\ Len(Append(c.events, x)) = Len(c.events) + 1
        /\ \A i \in 1 .. Len(c.events) : Append(c.events, x)[i] = c.events[i]
        /\ Append(c.events, x)[Len(c.events) + 1] = x
    BY <2>3, AppendProperties
  <2>5. /\ d \in Controllers
        /\ d.state = c.state /\ d.attached = c.attached /\ d.bound = c.bound
        /\ d.admitted = c.admitted /\ d.serving = c.serving
        /\ d.generation = c.generation /\ d.events = Append(c.events, x)
        /\ d.error = c.error /\ d.outbound = c.outbound
        /\ d.active = c.active
        /\ d.routes = c.routes /\ d.latest = c.latest
        /\ d.acknowledged = c.acknowledged /\ d.lastRoute = c.lastRoute
        /\ d.posted = c.posted
    BY <2>2, <2>4 DEF Controllers
  <2> HIDE DEF d
  <2>6. \A ks \in {Asking, {"response"}, {"finishedCommand"}, {"failed"}} :
          /\ NewsIds(d.events, d.generation, ks) = NewsIds(c.events, c.generation, ks)
          /\ NewsOnce(c.events, c.generation, ks)
               => NewsOnce(d.events, d.generation, ks)
    <3>1. \A ks \in {Asking, {"response"}, {"finishedCommand"}, {"failed"}} :
            x.kind \notin ks
      BY <2>3 DEF Asking
    <3> QED
      BY <2>3, <2>5, <3>1, AppendedEvent
  <2>7. \A ks \in {{"finishedCommand"}, {"failed"}} :
          News(d.events, d.generation, ks) = News(c.events, c.generation, ks)
    <3>1. 1 .. Len(d.events) = (1 .. Len(c.events)) \cup {Len(c.events) + 1}
      BY <2>4, <2>5
    <3> QED
      BY <2>3, <2>4, <2>5, <3>1 DEF News
  <2>8. AuthorityMatches(d) /\ OneIsSent(d)
    BY <2>2, <2>5 DEF AuthorityMatches, Running, OneIsSent
  <2>9. ReportsOK(d, k)
    <3>1. c.generation \in Nat
      BY <2>2 DEF Controllers
    <3>2. \A i \in 1 .. Len(d.events) : i \in 1 .. Len(c.events) \/ d.events[i] = x
      BY <2>4, <2>5
    <3> QED
      BY <2>2, <2>3, <2>4, <2>5, <3>1, <3>2 DEF ReportsOK
  <2>10. RequestsOK(d, k)
    <3>1. /\ Announced(d) = Announced(c) /\ Called(d, k) = Called(c, k)
          /\ Queued(d) = Queued(c) /\ Sending(d) = Sending(c)
      BY <2>5, <2>6 DEF Announced, Called, Queued, Sending
    <3> QED
      BY <2>2, <2>5, <2>6, <3>1 DEF RequestsOK
  <2>11. Heard(d)
    <3>1. \A j \in News(c.events, c.generation, {"finishedCommand"}) :
            d.events[j] = c.events[j]
      BY <2>4, <2>5 DEF News
    <3> QED
      BY <2>2, <2>5, <2>7, <3>1 DEF Heard, StaleIsLate
  <2>12. ActiveIsSent(d)
    BY <2>2, <2>5, <2>6 DEF ActiveIsSent
  <2>13. RoutesOK(d)
    BY <2>2, <2>5, <2>6 DEF RoutesOK, Loaded
  <2>14. Sound(d, k)
    BY <2>2, <2>5, <2>8, <2>9, <2>10, <2>11, <2>12, <2>13 DEF Sound, Base, Served
  <2> QED
    BY <2>1, <2>14
<1> QED
    BY <1>1, <1>2 DEF queueCapabilityResponse, d, x

\* The last command of a queue is marked, which changes nothing of what it is
\* about.
LEMMA MarkedQueue ==
    ASSUME NEW s \in Seq(Commands), s # <<>>
    PROVE  LET a == [s EXCEPT ![Len(s)].resume = TRUE]
           IN  /\ a \in Seq(Commands) /\ Len(a) = Len(s)
               /\ \A i \in 1 .. Len(s) :
                    a[i].id = s[i].id /\ a[i].type = s[i].type /\ a[i].ref = s[i].ref
<1> DEFINE n == Len(s)
           a == [s EXCEPT ![n].resume = TRUE]
<1>1. /\ n \in Nat /\ n \in 1 .. n /\ DOMAIN s = 1 .. n
      /\ \A i \in 1 .. n : s[i] \in Commands
    BY EmptySeq, ElementOfSeq
<1>2. /\ [s[n] EXCEPT !.resume = TRUE] \in Commands
      /\ [s[n] EXCEPT !.resume = TRUE].id = s[n].id
      /\ [s[n] EXCEPT !.resume = TRUE].type = s[n].type
      /\ [s[n] EXCEPT !.resume = TRUE].ref = s[n].ref
    BY <1>1 DEF Commands
<1>3. a = [i \in 1 .. n |-> IF i = n THEN [s[n] EXCEPT !.resume = TRUE] ELSE s[i]]
    BY <1>1
<1>4. a \in [1 .. n -> Commands]
    BY <1>1, <1>2, <1>3
<1>5. a \in Seq(Commands) /\ Len(a) = n
    BY <1>1, <1>4
<1> QED
    BY <1>1, <1>2, <1>3, <1>5

\* Polling will resume after the last of the commands.
LEMMA ResumeAfterIsSound ==
    ASSUME NEW c, NEW k, Sound(c, k)
    PROVE  Sound(resumeAfterLast(c), k)
<1>1. c \in Controllers /\ c.outbound \in Seq(Commands) /\ c.active \in Commands
    BY DEF Sound, Base, Controllers
<1>2. CASE c.outbound = <<>> /\ c.active.id = 0
    BY <1>2 DEF resumeAfterLast
<1>3. CASE c.outbound = <<>> /\ c.active.id # 0
  <2> DEFINE d == [c EXCEPT !.active = [c.active EXCEPT !.resume = TRUE]]
  <2>1. /\ [c.active EXCEPT !.resume = TRUE] \in Commands
        /\ [c.active EXCEPT !.resume = TRUE].id = c.active.id
    BY <1>1 DEF Commands
  <2>2. /\ d \in Controllers
        /\ d.state = c.state /\ d.attached = c.attached /\ d.bound = c.bound
        /\ (d.admitted => c.admitted) /\ d.serving \subseteq c.serving
        /\ d.generation = c.generation /\ d.events = c.events
        /\ d.outbound = c.outbound /\ d.posted = c.posted
        /\ d.active.id = c.active.id
        /\ d.routes = c.routes /\ d.latest = c.latest
        /\ d.acknowledged = c.acknowledged /\ d.lastRoute = c.lastRoute
    BY <1>1, <2>1 DEF Controllers
  <2> HIDE DEF d
  <2>3. Sound(d, k)
    BY <2>2, SameSession
  <2> QED
    BY <1>1, <1>3, <2>3 DEF resumeAfterLast, d, Controllers
<1>4. CASE c.outbound # <<>>
  <2> DEFINE a == [c.outbound EXCEPT ![Len(c.outbound)].resume = TRUE]
             d == [c EXCEPT !.outbound = a]
  <2>1. /\ a \in Seq(Commands) /\ Len(a) = Len(c.outbound)
        /\ \A i \in 1 .. Len(c.outbound) :
             /\ a[i].id = c.outbound[i].id /\ a[i].type = c.outbound[i].type
             /\ a[i].ref = c.outbound[i].ref
    BY <1>1, <1>4, MarkedQueue
  <2> HIDE DEF a
  <2>2. \A t \in {"Response", "RouteLoad"} :
          /\ Refs(a, t) = Refs(c.outbound, t)
          /\ EachOnce(c.outbound, t) => EachOnce(a, t)
    BY <2>1 DEF Refs, EachOnce
  <2>3. /\ d \in Controllers
        /\ d.state = c.state /\ d.attached = c.attached /\ d.bound = c.bound
        /\ d.admitted = c.admitted /\ d.serving = c.serving
        /\ d.generation = c.generation /\ d.events = c.events
        /\ d.outbound = a /\ d.posted = c.posted
        /\ d.active = c.active
        /\ d.routes = c.routes /\ d.latest = c.latest
        /\ d.acknowledged = c.acknowledged /\ d.lastRoute = c.lastRoute
    BY <1>1, <2>1 DEF Controllers
  <2> HIDE DEF d
  <2>4. /\ c \in Controllers /\ k \in Calls /\ AuthorityMatches(c)
        /\ ReportsOK(c, k) /\ OneIsSent(c) /\ RequestsOK(c, k)
    BY DEF Sound, Base
  <2>5. AuthorityMatches(d) /\ ReportsOK(d, k) /\ OneIsSent(d)
    BY <2>3, <2>4 DEF AuthorityMatches, Running, ReportsOK, OneIsSent
  <2>6. RequestsOK(d, k)
    <3>1. /\ Announced(d) = Announced(c) /\ Called(d, k) = Called(c, k)
          /\ Queued(d) = Queued(c) /\ Sending(d) = Sending(c)
      BY <2>2, <2>3 DEF Announced, Called, Queued, Sending
    <3> QED
      BY <2>2, <2>3, <2>4, <3>1 DEF RequestsOK
  <2>7. ASSUME Running(d)
        PROVE  Served(d)
    <3>1. Heard(c) /\ ActiveIsSent(c) /\ RoutesOK(c)
      BY <2>3, <2>7 DEF Sound, Served, Running
    <3>2. Heard(d)
      BY <2>3, <3>1 DEF Heard
    <3>3. ActiveIsSent(d)
      BY <2>1, <2>3, <3>1 DEF ActiveIsSent
    <3>4. RoutesOK(d)
      BY <2>2, <2>3, <3>1 DEF RoutesOK, Loaded
    <3> QED
      BY <3>2, <3>3, <3>4 DEF Served
  <2>8. Sound(d, k)
    BY <2>3, <2>4, <2>5, <2>6, <2>7 DEF Sound, Base
  <2>9. resumeAfterLast(c) = d
    BY <1>1, <1>4 DEF resumeAfterLast, d, a, Controllers
  <2> QED
    BY <2>8, <2>9
<1> QED
    BY <1>2, <1>3, <1>4

\* An event is taken from the queue.  One that says that the session has failed
\* cannot be passed over.
LEMMA PopIsSound ==
    ASSUME NEW c, NEW k, Sound(c, k), c.events # <<>>
    PROVE  LET d == [c EXCEPT !.events = Tail(c.events)]
               e == Head(c.events)
           IN  /\ Base(d, k)
               /\ ~(e.kind = "failed" /\ e.gen = c.generation) => Sound(d, k)
               /\ e.kind \in Asking /\ e.gen = c.generation => Free(d, k, e.id)
               /\ e \in Events
               /\ d.state = c.state /\ d.generation = c.generation
               /\ d.routes = c.routes /\ d.active = c.active
<1> DEFINE d == [c EXCEPT !.events = Tail(c.events)]
           e == Head(c.events)
           g == c.generation
<1>1. /\ c \in Controllers /\ k \in Calls /\ AuthorityMatches(c)
      /\ ReportsOK(c, k) /\ OneIsSent(c) /\ RequestsOK(c, k)
    BY DEF Sound, Base
<1>2. c.events \in Seq(Events)
    BY <1>1 DEF Controllers
<1>3. /\ Tail(c.events) \in Seq(Events) /\ e \in Events
      /\ \A i \in 1 .. Len(Tail(c.events)) :
           i + 1 \in 1 .. Len(c.events) /\ Tail(c.events)[i] = c.events[i + 1]
      /\ \A j \in 1 .. Len(c.events) : j # 1 =>
           j - 1 \in 1 .. Len(Tail(c.events)) /\ Tail(c.events)[j - 1] = c.events[j]
      /\ 1 \in 1 .. Len(c.events) /\ e = c.events[1]
    BY <1>2, TailEvents
<1>4. /\ d \in Controllers
      /\ d.state = c.state /\ d.attached = c.attached /\ d.bound = c.bound
      /\ d.admitted = c.admitted /\ d.serving = c.serving
      /\ d.generation = g /\ d.events = Tail(c.events)
      /\ d.outbound = c.outbound /\ d.posted = c.posted
      /\ d.active = c.active
      /\ d.routes = c.routes /\ d.latest = c.latest
      /\ d.acknowledged = c.acknowledged /\ d.lastRoute = c.lastRoute
    BY <1>1, <1>3 DEF Controllers
<1> HIDE DEF d, e, g
<1>5. \A ks \in {Asking, {"response"}, {"finishedCommand"}, {"failed"}} :
        /\ NewsIds(d.events, g, ks) \subseteq NewsIds(c.events, g, ks)
        /\ NewsOnce(c.events, g, ks) =>
             /\ NewsOnce(d.events, g, ks)
             /\ e.gen = g /\ e.kind \in ks =>
                  e.id \in NewsIds(c.events, g, ks) /\ e.id \notin NewsIds(d.events, g, ks)
    BY <1>2, <1>4, TailEvents DEF e
<1>6. AuthorityMatches(d) /\ OneIsSent(d)
    BY <1>1, <1>4 DEF AuthorityMatches, Running, OneIsSent
<1>7. ReportsOK(d, k)
    BY <1>1, <1>3, <1>4 DEF ReportsOK, g
<1>8. /\ Announced(d) \subseteq Announced(c) /\ Called(d, k) = Called(c, k)
      /\ Queued(d) = Queued(c) /\ Sending(d) = Sending(c)
    BY <1>4, <1>5 DEF Announced, Called, Queued, Sending, g
<1>9. RequestsOK(d, k)
    BY <1>1, <1>4, <1>5, <1>8 DEF RequestsOK, g
<1>10. ASSUME e.kind \in Asking, e.gen = g
       PROVE  Free(d, k, e.id)
  <2>1. ASSUME Live
        PROVE  e.id \in Announced(c) /\ e.id \notin Announced(d)
    BY <1>1, <1>4, <1>5, <1>10, <2>1 DEF RequestsOK, Announced, g
  <2> QED
    BY <1>1, <1>4, <1>8, <2>1 DEF RequestsOK, Free, Taken
<1>11. ASSUME ~(e.kind = "failed" /\ e.gen = g), Running(d)
       PROVE  Served(d)
  <2>1. Heard(c) /\ ActiveIsSent(c) /\ RoutesOK(c)
    BY <1>4, <1>11 DEF Sound, Served, Running
  <2>2. \A i \in News(c.events, g, {"failed"}) :
          i # 1 /\ i - 1 \in News(d.events, g, {"failed"})
    <3>1. ASSUME 1 \in News(c.events, g, {"failed"})
          PROVE  FALSE
      <4>1. c.events[1].gen = g /\ c.events[1].kind = "failed"
        BY <3>1 DEF News
      <4>2. e.gen = g /\ e.kind = "failed"
        BY <1>3, <4>1
      <4> QED
        BY <1>11, <4>2
    <3> QED
      BY <1>3, <1>4, <3>1 DEF News
  <2>3. \A j \in News(d.events, g, {"finishedCommand"}) :
          /\ j + 1 \in News(c.events, g, {"finishedCommand"})
          /\ d.events[j] = c.events[j + 1] /\ j \in Nat
    BY <1>3, <1>4 DEF News
  <2>4. Heard(d)
    <3>1. io.terminal => News(d.events, g, {"failed"}) # {}
      BY <1>4, <2>1, <2>2 DEF Heard, g
    <3>2. ASSUME NEW j \in News(d.events, g, {"finishedCommand"}),
                 d.events[j].error = "stale_command"
          PROVE  \E i \in News(d.events, g, {"failed"}) : i < j
      <4>1. PICK i \in News(c.events, g, {"failed"}) : i < j + 1
        BY <2>1, <2>3, <3>2 DEF Heard, StaleIsLate, g
      <4>2. i - 1 \in News(d.events, g, {"failed"}) /\ i \in Nat /\ j \in Nat
        <5>1. i - 1 \in News(d.events, g, {"failed"})
          BY <2>2, <4>1
        <5>2. i \in Nat
          BY <4>1 DEF News
        <5>3. j \in Nat
          BY <2>3, <3>2
        <5> QED
          BY <5>1, <5>2, <5>3
      <4>3. i - 1 < j
        BY <4>1, <4>2
      <4> QED
        BY <4>2, <4>3
    <3> QED
      BY <1>4, <2>1, <3>1, <3>2 DEF Heard, StaleIsLate
  <2>5. ActiveIsSent(d)
    BY <1>4, <1>5, <2>1 DEF ActiveIsSent, g
  <2>6. RoutesOK(d)
    BY <1>4, <1>5, <2>1 DEF RoutesOK, Loaded, g
  <2> QED
    BY <2>4, <2>5, <2>6 DEF Served
<1>12. Base(d, k)
    BY <1>1, <1>4, <1>6, <1>7, <1>9 DEF Base
<1>13. ~(e.kind = "failed" /\ e.gen = g) => Sound(d, k)
    BY <1>11, <1>12 DEF Sound
<1> QED
    BY <1>3, <1>4, <1>10, <1>12, <1>13 DEF d, e, g

\* A signal is entered: about a request that waits, or about none.
LEMMA CallIsSound ==
    ASSUME NEW c, Sound(c, NoCall), NEW k \in Calls, k.gen = c.generation,
           k.kind \in {"observed", "navigate"} => Free(c, NoCall, k.id)
    PROVE  Sound(c, k)
<1>1. /\ c \in Controllers /\ AuthorityMatches(c)
      /\ ReportsOK(c, NoCall) /\ OneIsSent(c) /\ RequestsOK(c, NoCall)
    BY DEF Sound, Base
<1>2. ReportsOK(c, k)
    BY <1>1 DEF ReportsOK, Controllers
<1>3. /\ Called(c, NoCall) = {}
      /\ Called(c, k) = IF k.kind \in {"observed", "navigate"} THEN {k.id} ELSE {}
    BY DEF Called, NoCall
<1>4. RequestsOK(c, k)
    BY <1>1, <1>3 DEF RequestsOK, Free, Taken
<1> QED
    BY <1>1, <1>2, <1>4 DEF Sound, Base

\* A signal has returned: the request it was about waits for its answer.
LEMMA ReturnIsSound ==
    ASSUME NEW c, NEW k, Sound(c, k)
    PROVE  /\ Sound(c, NoCall)
           /\ k.kind \in {"observed", "navigate"} /\ k.gen = c.generation =>
                Free(c, NoCall, k.id)
<1>1. /\ c \in Controllers /\ AuthorityMatches(c) /\ k \in Calls
      /\ ReportsOK(c, k) /\ OneIsSent(c) /\ RequestsOK(c, k)
    BY DEF Sound, Base
<1>2. NoCall \in Calls /\ NoCall.gen = 0
    BY DEF NoCall, Calls
<1>3. c.generation \in Nat
    BY <1>1 DEF Controllers
<1>4. ReportsOK(c, NoCall)
    BY <1>1, <1>2, <1>3 DEF ReportsOK
<1>5. Called(c, NoCall) = {}
    BY DEF Called, NoCall
<1>6. RequestsOK(c, NoCall)
    BY <1>1, <1>5 DEF RequestsOK
<1>7. ASSUME k.kind \in {"observed", "navigate"}, k.gen = c.generation
      PROVE  Free(c, NoCall, k.id)
  <2>1. Called(c, k) = {k.id}
    BY <1>7 DEF Called
  <2> QED
    BY <1>1, <1>5, <2>1 DEF RequestsOK, Free, Taken
<1>8. Sound(c, NoCall)
    BY <1>1, <1>2, <1>4, <1>6 DEF Sound, Base
<1> QED
    BY <1>7, <1>8

\* On the GUI thread only the controller changes, and what it calls.
LEMMA GuiStep ==
    ASSUME IInv, Sound(ctl', call'),
           UNCHANGED <<io, writes, toWorker, toHost, worker, budget>>
    PROVE  IInv'
<1>1. ThreadsOK' /\ WorkerOK'
    BY DEF IInv, ThreadsOK, WorkerOK, AnsweredOnce, Live
<1>2. /\ Writing' = Writing /\ Delivered' = Delivered /\ Answered' = Answered
      /\ (Live <=> Live')
    BY DEF Writing, Delivered, Answered, Live
<1>3. RequestsOK(ctl', call') => RequestsOK(ctl, call)'
    BY <1>2 DEF RequestsOK, Announced, Called, Queued, Sending
<1>4. (OneIsSent(ctl') => OneIsSent(ctl)') /\ (Heard(ctl') => Heard(ctl)')
      /\ (ActiveIsSent(ctl') => ActiveIsSent(ctl)')
      /\ (RoutesOK(ctl') => RoutesOK(ctl)')
    BY DEF OneIsSent, Heard, ActiveIsSent, RoutesOK, Loaded
<1>5. (AuthorityMatches(ctl') => AuthorityMatches(ctl)')
      /\ (ReportsOK(ctl', call') => ReportsOK(ctl, call)')
      /\ (Running(ctl)' => Running(ctl'))
    BY DEF AuthorityMatches, ReportsOK, Running
<1>6. Base(ctl', call') => Base(ctl, call)'
    BY <1>3, <1>4, <1>5 DEF Base
<1>7. Served(ctl') => Served(ctl)'
    BY <1>4 DEF Served
<1>8. Sound(ctl, call)'
    BY <1>5, <1>6, <1>7 DEF Sound
<1> QED
    BY <1>1, <1>8 DEF IInv

-----------------------------------------------------------------------------
\* Init, and the actions of the GUI thread.

\* A controller that was never attached satisfies every part of it.
LEMMA InitInv ==
    ASSUME Init
    PROVE  IInv
<1>1. /\ <<>> \in Seq(Commands) /\ <<>> \in Seq(Posts) /\ <<>> \in Seq(Events)
      /\ <<>> \in Seq(Messages) /\ 1 .. Len(<<>>) = {}
    BY EmptySeq
<1>2. NoCommand \in Commands /\ NoCall \in Calls /\ NoIo \in Ios
    BY DEF NoCommand, Commands, NoCall, Calls, NoIo, Ios
<1>3. NoWorker \in Workers
    BY SessionAssumption DEF NoWorker, Workers
<1>4. ThreadsOK
    BY <1>1, <1>2, <1>3 DEF Init, ThreadsOK
<1>5. ~Live
    BY DEF Init, NoIo, Live
<1>6. WorkerOK
  <2>1. AnsweredOnce
    <3> SUFFICES ASSUME NEW r \in 1 .. MaxRequests
                 PROVE  worker.answers[r] <= (IF r \in worker.asked THEN 1 ELSE 0)
      BY DEF AnsweredOnce
    <3>1. worker.answers = [q \in 1 .. MaxRequests |-> 0] /\ worker.asked = {}
      BY DEF Init, NoWorker
    <3>2. worker.answers[r] = 0
      BY <3>1
    <3> QED
      BY <3>1, <3>2
  <2>2. worker.asked = {}
    BY DEF Init, NoWorker
  <2> QED
    BY <1>5, <2>1, <2>2 DEF WorkerOK
<1>7. ctl \in Controllers
    BY <1>1, <1>2 DEF Init, Controllers, Causes
<1>8. AuthorityMatches(ctl) /\ ~Running(ctl)
    BY DEF Init, AuthorityMatches, Running
<1>9. ReportsOK(ctl, call)
  <2>1. ctl.events = <<>> /\ ctl.generation = 0 /\ call.gen = 0
    BY DEF Init, NoCall
  <2> QED
    BY <1>1, <2>1 DEF ReportsOK
<1>10. OneIsSent(ctl)
  <2>1. ctl.posted = <<>>
    BY DEF Init
  <2> QED
    BY <2>1, EmptyRefs DEF OneIsSent
<1>11. RequestsOK(ctl, call)
    BY <1>5 DEF RequestsOK
<1>12. call \in Calls
    BY <1>2 DEF Init
<1> QED
    BY <1>4, <1>6, <1>7, <1>8, <1>9, <1>10, <1>11, <1>12 DEF IInv, Sound, Base

\* What the GUI thread finds in its event loop.
LEMMA EventArrives ==
    ASSUME IInv, call = NoCall, ctl.events # <<>>
    PROVE  /\ Base(Popped, NoCall) /\ Popped \in Controllers
           /\ ~(Event.kind = "failed" /\ Event.gen = ctl.generation)
                => Sound(Popped, NoCall)
           /\ Event.kind \in Asking /\ Event.gen = ctl.generation
                => Free(Popped, NoCall, Event.id)
           /\ Event \in Events
           /\ Popped.state = ctl.state /\ Popped.generation = ctl.generation
           /\ Popped.routes = ctl.routes /\ Popped.active = ctl.active
<1>1. Sound(ctl, NoCall)
    BY DEF IInv
<1>2. Popped = [ctl EXCEPT !.events = Tail(ctl.events)] /\ Event = Head(ctl.events)
    BY DEF Popped, Event
<1>3. Base(Popped, NoCall) => Popped \in Controllers
    BY DEF Base
<1> QED
    BY <1>1, <1>2, <1>3, PopIsSound

\* A route load takes a new id, so that it is nowhere else.
LEMMA requestRouteLoadInv ==
    ASSUME IInv, UNCHANGED budget, requestRouteLoad
    PROVE  IInv'
<1>1. Sound(enqueueRouteLoad(ctl), call)
    BY RouteLoadIsSound DEF IInv, requestRouteLoad
<1>2. /\ ctl' = enqueueRouteLoad(ctl) /\ call' = call
      /\ UNCHANGED <<io, writes, toWorker, toHost, worker>>
    BY DEF requestRouteLoad, GuiOnly
<1> QED
    BY <1>1, <1>2, GuiStep

\* A notification is a command, but neither a response nor a route load.
LEMMA sendVisibilityChangedInv ==
    ASSUME IInv, UNCHANGED budget, sendVisibilityChanged
    PROVE  IInv'
<1> DEFINE d == enqueue(ctl, "VisibilityChanged", 0, FALSE, FALSE, FALSE)
<1>1. Sound(d, call)
    BY EnqueueIsSound DEF IInv, sendVisibilityChanged
<1>2. /\ ctl' = d /\ call' = call
      /\ UNCHANGED <<io, writes, toWorker, toHost, worker>>
    BY DEF sendVisibilityChanged, GuiOnly
<1> QED
    BY <1>1, <1>2, GuiStep

\* Shutting down drops what is queued and the authority with it.
LEMMA shutdownInv ==
    ASSUME IInv, UNCHANGED budget, shutdown
    PROVE  IInv'
<1> DEFINE w == dropWork(ctl)
           s == [w EXCEPT !.state = "ShuttingDown", !.finalState = "Detached"]
           i == invalidateCapabilityBinding(s)
           x == [kind |-> "shutdown"]
           d == Post(i, x)
<1>1. Base(ctl, call) /\ ctl \in Controllers /\ OneIsSent(ctl)
    BY DEF IInv, Sound, Base
<1>2. /\ w \in Controllers /\ w.outbound = <<>> /\ w.posted = ctl.posted
      /\ w.generation = ctl.generation /\ w.events = ctl.events
    BY <1>1, WithoutWork
<1> HIDE DEF w
<1>3. /\ s \in Controllers /\ s.outbound = <<>> /\ s.posted = ctl.posted
      /\ s.generation = ctl.generation /\ s.events = ctl.events
      /\ s.state = "ShuttingDown"
    BY <1>2 DEF Controllers
<1> HIDE DEF s
<1>4. /\ i \in Controllers /\ i.outbound = <<>> /\ i.posted = ctl.posted
      /\ i.generation = ctl.generation /\ i.events = ctl.events
      /\ i.state = "ShuttingDown" /\ ~i.admitted /\ i.serving = {}
    BY <1>3, WithoutAuthority
<1> HIDE DEF i
<1>5. x \in Posts /\ x.kind # "send"
    BY DEF Posts
<1> HIDE DEF x
<1>6. /\ d \in Controllers /\ d = [i EXCEPT !.posted = Append(i.posted, x)]
      /\ Sent(d.posted) = Sent(ctl.posted) /\ OneSend(d.posted)
    BY <1>1, <1>4, <1>5, OtherPost DEF OneIsSent
<1>7. /\ d.outbound = <<>> /\ d.generation = ctl.generation
      /\ d.events = ctl.events /\ d.state = "ShuttingDown"
      /\ ~d.admitted /\ d.serving = {}
    BY <1>4, <1>6 DEF Controllers
<1> HIDE DEF d
<1>8. Sound(d, call)
    BY <1>1, <1>6, <1>7, SessionStops DEF Running
<1>9. /\ ctl' = d /\ call' = call
      /\ UNCHANGED <<io, writes, toWorker, toHost, worker>>
    BY DEF shutdown, GuiOnly, d, x, i, s, w
<1> QED
    BY <1>8, <1>9, GuiStep

\* So does replacing the session, which asks the IO thread to stop at once.
LEMMA replaceInv ==
    ASSUME IInv, UNCHANGED budget, NEW binding \in BOOLEAN, replace(binding)
    PROVE  IInv'
<1> DEFINE w == dropWork(ctl)
           s == [w EXCEPT !.pendingSession = TRUE, !.pendingBinding = binding,
                          !.finalState = "Detached", !.state = "ShuttingDown"]
           i == invalidateCapabilityBinding(s)
           d == requestIoStop(i)
<1>1. Base(ctl, call) /\ ctl \in Controllers /\ OneIsSent(ctl)
    BY DEF IInv, Sound, Base
<1>2. /\ w \in Controllers /\ w.outbound = <<>> /\ w.posted = ctl.posted
      /\ w.generation = ctl.generation /\ w.events = ctl.events
    BY <1>1, WithoutWork
<1> HIDE DEF w
<1>3. /\ s \in Controllers /\ s.outbound = <<>> /\ s.posted = ctl.posted
      /\ s.generation = ctl.generation /\ s.events = ctl.events
      /\ s.state = "ShuttingDown"
    BY <1>2 DEF Controllers
<1> HIDE DEF s
<1>4. /\ i \in Controllers /\ i.outbound = <<>> /\ i.posted = ctl.posted
      /\ i.generation = ctl.generation /\ i.events = ctl.events
      /\ i.state = "ShuttingDown" /\ ~i.admitted /\ i.serving = {}
    BY <1>3, WithoutAuthority
<1> HIDE DEF i
<1>5. /\ d \in Controllers /\ d.outbound = <<>>
      /\ d.generation = ctl.generation /\ d.events = ctl.events
      /\ d.state = "ShuttingDown" /\ ~d.admitted /\ d.serving = {}
      /\ Sent(d.posted) = Sent(ctl.posted) /\ OneSend(d.posted)
    BY <1>1, <1>4, StopAsked DEF OneIsSent
<1> HIDE DEF d
<1>6. Sound(d, call)
    BY <1>1, <1>5, SessionStops DEF Running
<1>7. /\ ctl' = d /\ call' = call
      /\ UNCHANGED <<io, writes, toWorker, toHost, worker>>
    BY DEF replace, GuiOnly, d, i, s, w
<1> QED
    BY <1>6, <1>7, GuiStep

\* The end of a shutdown only asks the IO thread to stop.
LEMMA shutdownFinishedInv ==
    ASSUME IInv, UNCHANGED budget, shutdownFinished
    PROVE  IInv'
<1> DEFINE w == dropWork(Popped)
           s == [w EXCEPT !.finalState = "Detached"]
           d == requestIoStop(s)
<1>1. call = NoCall /\ ctl.events # <<>> /\ Event.kind = "shutdownFinished"
    BY DEF shutdownFinished, Arrives
<1>2. /\ Sound(Popped, NoCall) /\ Base(Popped, NoCall) /\ Popped \in Controllers
      /\ Popped.state = ctl.state
    BY <1>1, EventArrives
<1>3. AuthorityMatches(Popped) /\ OneIsSent(Popped)
    BY <1>2 DEF Base
<1>4. ASSUME ctl.state = "ShuttingDown"
      PROVE  Sound(d, NoCall)
  <2>1. ~Popped.admitted /\ Popped.serving = {}
    BY <1>2, <1>3, <1>4 DEF AuthorityMatches, Running, Controllers
  <2>2. /\ w \in Controllers /\ w.outbound = <<>> /\ w.posted = Popped.posted
        /\ w.generation = Popped.generation /\ w.events = Popped.events
        /\ w.state = "ShuttingDown" /\ ~w.admitted /\ w.serving = {}
    BY <1>2, <1>4, <2>1, WithoutWork
  <2> HIDE DEF w
  <2>3. /\ s \in Controllers /\ s.outbound = <<>> /\ s.posted = Popped.posted
        /\ s.generation = Popped.generation /\ s.events = Popped.events
        /\ s.state = "ShuttingDown" /\ ~s.admitted /\ s.serving = {}
    BY <2>2 DEF Controllers
  <2> HIDE DEF s
  <2>4. /\ d \in Controllers /\ d.outbound = <<>>
        /\ d.generation = Popped.generation /\ d.events = Popped.events
        /\ d.state = "ShuttingDown" /\ ~d.admitted /\ d.serving = {}
        /\ Sent(d.posted) = Sent(Popped.posted) /\ OneSend(d.posted)
    BY <1>3, <2>3, StopAsked DEF OneIsSent
  <2> HIDE DEF d
  <2> QED
    BY <1>2, <2>4, SessionStops DEF Running
<1>5. /\ \/ ctl.state = "ShuttingDown" /\ ctl' = d
         \/ ctl' = Popped
      /\ call' = NoCall
      /\ UNCHANGED <<io, writes, toWorker, toHost, worker>>
    BY <1>1 DEF shutdownFinished, GuiOnly
<1> HIDE DEF d
<1>6. Sound(ctl', call')
    BY <1>2, <1>4, <1>5
<1> QED
    BY <1>5, <1>6, GuiStep

\* An unbound runtime serves nothing and has no authority.
LEMMA unbindCapabilityRuntimeInv ==
    ASSUME IInv, UNCHANGED budget, unbindCapabilityRuntime
    PROVE  IInv'
<1> DEFINE d == invalidateCapabilityBinding(ctl)
<1>1. Sound(ctl, call) /\ ctl \in Controllers
    BY DEF IInv, Sound, Base
<1>2. /\ d \in Controllers /\ ~d.bound /\ d.serving = {} /\ ~d.admitted
      /\ d.outbound = ctl.outbound /\ d.active = ctl.active
      /\ d.routes = ctl.routes /\ d.latest = ctl.latest
      /\ d.acknowledged = ctl.acknowledged /\ d.lastRoute = ctl.lastRoute
      /\ d.state = ctl.state /\ d.generation = ctl.generation
      /\ d.events = ctl.events /\ d.posted = ctl.posted
      /\ d.attached = ctl.attached
    BY <1>1, WithoutAuthority
<1>3. /\ ctl' = d /\ call' = call
      /\ UNCHANGED <<io, writes, toWorker, toHost, worker>>
    BY DEF unbindCapabilityRuntime, GuiOnly
<1> HIDE DEF d
<1>4. Sound(d, call)
    BY <1>1, <1>2, SameSession
<1> QED
    BY <1>3, <1>4, GuiStep

\* A token that is being revoked admits nothing more.
LEMMA beginRevokeInv ==
    ASSUME IInv, UNCHANGED budget, beginRevoke
    PROVE  IInv'
<1> DEFINE d == [ctl EXCEPT !.admitted = FALSE]
<1>1. Sound(ctl, call) /\ ctl \in Controllers
    BY DEF IInv, Sound, Base
<1>2. /\ d \in Controllers /\ d.bound = ctl.bound /\ d.serving = ctl.serving
      /\ ~d.admitted /\ d.outbound = ctl.outbound /\ d.active = ctl.active
      /\ d.routes = ctl.routes /\ d.latest = ctl.latest
      /\ d.acknowledged = ctl.acknowledged /\ d.lastRoute = ctl.lastRoute
      /\ d.state = ctl.state /\ d.generation = ctl.generation
      /\ d.events = ctl.events /\ d.posted = ctl.posted
      /\ d.attached = ctl.attached
    BY <1>1 DEF Controllers
<1>3. /\ ctl' = d /\ call' = call
      /\ UNCHANGED <<io, writes, toWorker, toHost, worker>>
    BY DEF beginRevoke, GuiOnly
<1> HIDE DEF d
<1>4. Sound(d, call)
    BY <1>1, <1>2, SameSession
<1> QED
    BY <1>3, <1>4, GuiStep

\* An event of an earlier session is no news of this one.
LEMMA ignoreEventInv ==
    ASSUME IInv, UNCHANGED budget, ignoreEvent
    PROVE  IInv'
<1>1. /\ call = NoCall /\ ctl.events # <<>> /\ Event.kind # "failed"
    BY DEF ignoreEvent, Arrives
<1>2. Sound(Popped, NoCall)
    BY <1>1, EventArrives
<1>3. /\ ctl' = Popped /\ call' = NoCall
      /\ UNCHANGED <<io, writes, toWorker, toHost, worker>>
    BY <1>1 DEF ignoreEvent, GuiOnly
<1> QED
    BY <1>2, <1>3, GuiStep

\* A response that could not be queued fails the session.
LEMMA failLaterInv ==
    ASSUME IInv, UNCHANGED budget, failLater
    PROVE  IInv'
<1> DEFINE d == failClosed(Popped, "response_queue_failed")
<1>1. /\ call = NoCall /\ ctl.events # <<>> /\ Event.kind # "failed"
    BY DEF failLater, Arrives
<1>2. Sound(Popped, NoCall) /\ Base(Popped, NoCall)
    BY <1>1, EventArrives
<1>3. Sound(d, NoCall)
  <2>1. "response_queue_failed" \in Causes
    BY DEF Causes
  <2> QED
    BY <1>2, <2>1, FailIsSound
<1>4. /\ ctl' \in {d, Popped} /\ call' = NoCall
      /\ UNCHANGED <<io, writes, toWorker, toHost, worker>>
    BY <1>1 DEF failLater, GuiOnly
<1> HIDE DEF d
<1>5. Sound(ctl', call')
    BY <1>2, <1>3, <1>4
<1> QED
    BY <1>4, <1>5, GuiStep

\* The failure that the IO thread reported ends the session here too.
LEMMA sessionFailedInv ==
    ASSUME IInv, UNCHANGED budget, sessionFailed
    PROVE  IInv'
<1> DEFINE d == failClosed(Popped, Event.error)
<1>1. /\ call = NoCall /\ ctl.events # <<>> /\ Event.kind = "failed"
    BY DEF sessionFailed, Arrives
<1>2. /\ Base(Popped, NoCall) /\ Event \in Events
      /\ Event.gen # ctl.generation => Sound(Popped, NoCall)
    BY <1>1, EventArrives
<1>3. Event.error \in Causes
    BY <1>1, <1>2 DEF Events, Asking
<1>4. Sound(d, NoCall)
    BY <1>2, <1>3, FailIsSound
<1>5. /\ \/ ctl' = d
         \/ Event.gen # ctl.generation /\ ctl' = Popped
      /\ call' = NoCall
      /\ UNCHANGED <<io, writes, toWorker, toHost, worker>>
    BY <1>1 DEF sessionFailed, GuiOnly
<1> HIDE DEF d
<1>6. Sound(ctl', call')
    BY <1>2, <1>4, <1>5
<1> QED
    BY <1>5, <1>6, GuiStep

\* A signal of the session that runs is entered.
LEMMA EnterIsSound ==
    ASSUME NEW c, Sound(c, NoCall), NEW k \in {"navigate", "acknowledged", "observed", "sent"},
           NEW r \in Nat, c.generation = ctl.generation,
           k \in {"observed", "navigate"} => Free(c, NoCall, r)
    PROVE  Sound(c, Emit(k, r))
<1>1. c \in Controllers /\ c.generation \in Nat
    BY DEF Sound, Base, Controllers
<1>2. /\ Emit(k, r) \in Calls /\ Emit(k, r).gen = c.generation
      /\ Emit(k, r).kind = k /\ Emit(k, r).id = r
    BY <1>1 DEF Emit, Calls
<1> HIDE DEF Emit
<1> QED
    BY <1>2, CallIsSound

\* A navigation moves from its event to the callback.
LEMMA handleNavigationRequestInv ==
    ASSUME IInv, UNCHANGED budget, handleNavigationRequest
    PROVE  IInv'
<1> DEFINE r == Event.id
           d == enqueueResponse(Popped, r, TRUE)
<1>1. /\ call = NoCall /\ ctl.events # <<>> /\ Event.kind = "navigation"
      /\ Event.gen = ctl.generation /\ Running(ctl)
    BY DEF handleNavigationRequest, Arrives, Current
<1>2. /\ Sound(Popped, NoCall) /\ Free(Popped, NoCall, r) /\ Event \in Events
      /\ Popped.state = ctl.state /\ Popped.generation = ctl.generation
    BY <1>1, EventArrives DEF Asking
<1>3. r \in Nat /\ Running(Popped)
    BY <1>1, <1>2 DEF Events, Asking, Running
<1>4. Sound(d, NoCall)
    BY <1>2, <1>3, ResponseIsSound
<1>5. Sound(Popped, Emit("navigate", r))
    BY <1>2, <1>3, EnterIsSound
<1>6. /\ \/ ctl' = d /\ call' = NoCall
         \/ ctl' = Popped /\ call' = Emit("navigate", r)
      /\ UNCHANGED <<io, writes, toWorker, toHost, worker>>
    BY <1>1 DEF handleNavigationRequest, GuiOnly, Enter
<1> HIDE DEF d, r
<1>7. Sound(ctl', call')
    BY <1>4, <1>5, <1>6
<1> QED
    BY <1>6, <1>7, GuiStep

\* What is left to show of a signal that returns.
LEMMA ReturnInv ==
    ASSUME IInv, UNCHANGED budget, NEW k, NEW c, Return(k, c),
           /\ StillCurrent /\ Running(ctl) /\ call.kind = k
             /\ Sound(ctl, NoCall) /\ call.id \in Nat
             /\ (k \in {"observed", "navigate"} => Free(ctl, NoCall, call.id))
           => Sound(c, NoCall)
    PROVE  IInv'
<1>1. Sound(ctl, call) /\ call.kind = k /\ call.id \in Nat
    BY DEF IInv, Return, Sound, Base, Calls
<1>2. /\ Sound(ctl, NoCall)
      /\ k \in {"observed", "navigate"} /\ call.gen = ctl.generation =>
           Free(ctl, NoCall, call.id)
    BY <1>1, ReturnIsSound
<1>3. StillCurrent => call.gen = ctl.generation /\ Running(ctl)
    BY DEF StillCurrent
<1>4. StillCurrent => Sound(c, NoCall)
    BY <1>1, <1>2, <1>3
<1>5. /\ \/ StillCurrent /\ ctl' = c
         \/ ctl' = ctl
      /\ call' = NoCall
      /\ UNCHANGED <<io, writes, toWorker, toHost, worker>>
    BY DEF Return
<1>6. Sound(ctl', call')
    BY <1>2, <1>4, <1>5
<1> QED
    BY <1>5, <1>6, GuiStep

\* A navigation that is refused moves from the callback to the queue.
LEMMA navigateDeniesInv ==
    ASSUME IInv, UNCHANGED budget, navigateDenies
    PROVE  IInv'
<1> DEFINE d == enqueueResponse(ctl, call.id, TRUE)
<1>1. Return("navigate", d)
    BY DEF navigateDenies
<1>2. ASSUME Running(ctl), Sound(ctl, NoCall), call.id \in Nat,
             Free(ctl, NoCall, call.id)
      PROVE  Sound(d, NoCall)
    BY <1>2, ResponseIsSound
<1> HIDE DEF d
<1> QED
    BY <1>1, <1>2, ReturnInv

\* A navigation that succeeds does so too, with a route load or without.
LEMMA navigateSucceedsInv ==
    ASSUME IInv, UNCHANGED budget, navigateSucceeds
    PROVE  IInv'
<1> DEFINE a == enqueue(ctl, "Response", call.id, FALSE, FALSE, FALSE)
           d == IF queueFull(ctl)
                  THEN failClosed(ctl, "outbound_queue_full")
                  ELSE IF routeLoadRefused(a)
                         THEN failClosed(a, "outbound_queue_full")
                         ELSE resumeAfterLast(enqueueRouteLoad(a))
<1>1. Return("navigate", d)
    BY DEF navigateSucceeds
<1>2. ASSUME Running(ctl), Sound(ctl, NoCall), call.id \in Nat,
             Free(ctl, NoCall, call.id)
      PROVE  Sound(d, NoCall)
  <2>1. Base(ctl, NoCall) /\ ctl \in Controllers /\ "outbound_queue_full" \in Causes
    BY <1>2 DEF Sound, Base, Causes
  <2>2. Sound(failClosed(ctl, "outbound_queue_full"), NoCall)
    BY <2>1, FailIsSound
  <2>3. Sound(a, NoCall)
    BY <1>2, EnqueueIsSound
  <2>4. a.state = ctl.state
    BY <1>2, <2>1, EnqueueRuns
  <2> HIDE DEF a
  <2>5. Running(a) /\ Base(a, NoCall)
    BY <1>2, <2>3, <2>4 DEF Running, Sound
  <2>6. Sound(failClosed(a, "outbound_queue_full"), NoCall)
    BY <2>1, <2>5, FailIsSound
  <2>7. Sound(enqueueRouteLoad(a), NoCall)
    BY <2>3, <2>5, RouteLoadIsSound
  <2>8. Sound(resumeAfterLast(enqueueRouteLoad(a)), NoCall)
    BY <2>7, ResumeAfterIsSound
  <2> QED
    BY <2>2, <2>6, <2>8
<1> HIDE DEF d
<1> QED
    BY <1>1, <1>2, ReturnInv

\* A callback that throws fails the session.
LEMMA navigateThrowsInv ==
    ASSUME IInv, UNCHANGED budget, navigateThrows
    PROVE  IInv'
<1> DEFINE d == failClosed(ctl, "navigation_callback_failed")
<1>1. Sound(ctl, NoCall)
    BY ReturnIsSound DEF IInv
<1>2. Base(ctl, NoCall) /\ "navigation_callback_failed" \in Causes
    BY <1>1 DEF Sound, Causes
<1>3. Sound(d, NoCall)
    BY <1>2, FailIsSound
<1>4. /\ ctl' = d /\ call' = NoCall
      /\ UNCHANGED <<io, writes, toWorker, toHost, worker>>
    BY DEF navigateThrows, Enter
<1> HIDE DEF d
<1> QED
    BY <1>3, <1>4, GuiStep

\* After an acknowledgement the IO thread polls on.
LEMMA routeLoadAcknowledgedInv ==
    ASSUME IInv, UNCHANGED budget, routeLoadAcknowledged
    PROVE  IInv'
<1> DEFINE d == resumeIoPolling(ctl)
<1>1. Return("acknowledged", d)
    BY DEF routeLoadAcknowledged
<1>2. ASSUME Sound(ctl, NoCall)
      PROVE  Sound(d, NoCall)
    BY <1>2, ResumeIsSound
<1> HIDE DEF d
<1> QED
    BY <1>1, <1>2, ReturnInv

\* After a capability response was sent the next command goes out.
LEMMA capabilityResponseSentInv ==
    ASSUME IInv, UNCHANGED budget, capabilityResponseSent
    PROVE  IInv'
<1> DEFINE d == pumpOutbound(ctl)
<1>1. Return("sent", d)
    BY DEF capabilityResponseSent
<1>2. ASSUME Sound(ctl, NoCall)
      PROVE  Sound(d, NoCall)
    BY <1>2, PumpIsSound
<1> HIDE DEF d
<1> QED
    BY <1>1, <1>2, ReturnInv

\* The response to a route load is about one that is pending, and when none is
\* left the latest has been acknowledged.
LEMMA LoadAnswered ==
    ASSUME IInv, call = NoCall, ctl.events # <<>>, Event.kind = "response",
           Event.gen = ctl.generation, Running(ctl)
    PROVE  LET d == [Popped EXCEPT !.routes = Popped.routes \ {Event.id},
                                   !.acknowledged = Popped.acknowledged
                                                      \/ Event.id = ctl.latest]
           IN  /\ Event.id \in ctl.routes
               /\ Sound(d, NoCall)
               /\ d.generation = ctl.generation /\ d.latest \in Nat
               /\ d.routes = {} =>
                    /\ d.acknowledged /\ d.latest # 0
                    /\ Sound(clearPendingRouteLoads(d), NoCall)
                    /\ clearPendingRouteLoads(d).generation = ctl.generation
<1> DEFINE r == Event.id
           p == Popped
           d == [p EXCEPT !.routes = p.routes \ {r},
                          !.acknowledged = p.acknowledged \/ r = ctl.latest]
           f == clearPendingRouteLoads(d)
<1>1. /\ Sound(p, NoCall) /\ p.state = ctl.state /\ p.generation = ctl.generation
      /\ p.routes = ctl.routes
    BY EventArrives
<1>2. ctl \in Controllers /\ RoutesOK(ctl)
    BY DEF IInv, Sound, Base, Served
<1>3. /\ r \in Loaded(ctl) /\ r \notin Loaded(p)
      /\ p.latest = ctl.latest /\ p.acknowledged = ctl.acknowledged
  <2>1. ctl.events \in Seq(Events)
    BY <1>2 DEF Controllers
  <2>2. p.events = Tail(ctl.events)
    BY <1>2 DEF Popped, Controllers
  <2>3. NewsOnce(ctl.events, ctl.generation, {"response"})
    BY <1>2 DEF RoutesOK
  <2>4. /\ r \in NewsIds(ctl.events, ctl.generation, {"response"})
        /\ r \notin NewsIds(Tail(ctl.events), ctl.generation, {"response"})
    BY <2>1, <2>3, TailEvents DEF Event
  <2>5. p.latest = ctl.latest /\ p.acknowledged = ctl.acknowledged
    BY <1>2 DEF Popped, Controllers
  <2> QED
    BY <1>1, <2>2, <2>4, <2>5 DEF Loaded
<1> HIDE DEF p, r
<1>4. r \in ctl.routes
    BY <1>2, <1>3 DEF RoutesOK
<1>5. /\ p \in Controllers /\ AuthorityMatches(p) /\ ReportsOK(p, NoCall)
      /\ OneIsSent(p) /\ RequestsOK(p, NoCall) /\ NoCall \in Calls
      /\ Running(p) /\ Heard(p) /\ ActiveIsSent(p) /\ RoutesOK(p)
    BY <1>1 DEF Sound, Base, Served, Running
<1>6. /\ d \in Controllers
      /\ d.state = p.state /\ d.attached = p.attached /\ d.bound = p.bound
      /\ d.admitted = p.admitted /\ d.serving = p.serving
      /\ d.generation = p.generation /\ d.events = p.events
      /\ d.error = p.error /\ d.outbound = p.outbound
      /\ d.active = p.active /\ d.posted = p.posted
      /\ d.routes = p.routes \ {r} /\ d.latest = p.latest
      /\ d.acknowledged = (p.acknowledged \/ r = p.latest)
      /\ d.lastRoute = p.lastRoute /\ d.latest \in Nat
    BY <1>3, <1>5 DEF Controllers
<1> HIDE DEF d
<1>7. /\ r \notin Refs(p.outbound, "RouteLoad") /\ r \notin SentRefs(p.posted, "RouteLoad")
      /\ r \notin io.pending
  <2>1. /\ p.outbound = ctl.outbound /\ p.posted = ctl.posted
    BY <1>2 DEF p, Popped, Controllers
  <2> QED
    BY <1>2, <1>3, <2>1 DEF RoutesOK
<1>8. RoutesOK(d)
    BY <1>3, <1>5, <1>6, <1>7 DEF RoutesOK, Loaded
<1>9. ASSUME NEW x \in {d, f}, x \in Controllers, RoutesOK(x),
             x.state = p.state, x.attached = p.attached, x.bound = p.bound,
             x.admitted = p.admitted, x.serving = p.serving,
             x.generation = p.generation, x.events = p.events,
             x.outbound = p.outbound, x.active = p.active, x.posted = p.posted
      PROVE  Sound(x, NoCall)
  <2> HIDE DEF f
  <2>1. AuthorityMatches(x) /\ ReportsOK(x, NoCall) /\ OneIsSent(x)
    BY <1>5, <1>9 DEF AuthorityMatches, Running, ReportsOK, OneIsSent
  <2>2. /\ Announced(x) = Announced(p) /\ Called(x, NoCall) = Called(p, NoCall)
        /\ Queued(x) = Queued(p) /\ Sending(x) = Sending(p)
    BY <1>9 DEF Announced, Called, Queued, Sending
  <2>3. RequestsOK(x, NoCall)
    BY <1>5, <1>9, <2>2 DEF RequestsOK
  <2>4. Heard(x) /\ ActiveIsSent(x)
    BY <1>5, <1>9 DEF Heard, ActiveIsSent
  <2> QED
    BY <1>5, <1>9, <2>1, <2>3, <2>4 DEF Sound, Base, Served
<1>10. Sound(d, NoCall)
    BY <1>6, <1>8, <1>9
<1>11. ASSUME d.routes = {}
       PROVE  /\ d.acknowledged /\ d.latest # 0
              /\ Sound(f, NoCall) /\ f.generation = ctl.generation
  <2>1. p.latest # 0 /\ (p.latest \in p.routes \/ p.acknowledged)
    BY <1>1, <1>4, <1>5 DEF RoutesOK
  <2>2. d.acknowledged /\ d.latest # 0
    BY <1>6, <1>11, <2>1
  <2>3. /\ f \in Controllers
        /\ f.state = d.state /\ f.attached = d.attached /\ f.bound = d.bound
        /\ f.admitted = d.admitted /\ f.serving = d.serving
        /\ f.generation = d.generation /\ f.events = d.events
        /\ f.outbound = d.outbound
        /\ f.active = d.active /\ f.posted = d.posted
        /\ f.routes = {} /\ f.lastRoute = d.lastRoute
    BY <1>6 DEF clearPendingRouteLoads, Controllers
  <2> HIDE DEF f
  <2>4. RoutesOK(f)
    BY <1>8, <1>11, <2>3 DEF RoutesOK, Loaded
  <2>5. Sound(f, NoCall)
    BY <1>6, <1>9, <2>3, <2>4
  <2> QED
    BY <1>1, <1>6, <2>2, <2>3, <2>5
<1> QED
    BY <1>1, <1>4, <1>6, <1>10, <1>11 DEF d, f, p, r

\* A route load that is answered leaves the pending ones.
LEMMA handleRouteLoadResponseInv ==
    ASSUME IInv, UNCHANGED budget, handleRouteLoadResponse
    PROVE  IInv'
<1> DEFINE d == [Popped EXCEPT !.routes = Popped.routes \ {Event.id},
                               !.acknowledged = Popped.acknowledged
                                                  \/ Event.id = ctl.latest]
           x == failClosed(Popped, "route_load_rejected")
           f == clearPendingRouteLoads(d)
<1>1. /\ call = NoCall /\ ctl.events # <<>> /\ Event.kind = "response"
      /\ Event.gen = ctl.generation /\ Running(ctl)
    BY DEF handleRouteLoadResponse, Arrives, Current
<1>2. /\ Event.id \in ctl.routes /\ Sound(d, NoCall)
      /\ d.latest \in Nat
      /\ d.routes = {} =>
           /\ d.acknowledged /\ d.latest # 0 /\ Sound(f, NoCall)
           /\ f.generation = ctl.generation
    BY <1>1, LoadAnswered
<1>3. Sound(x, NoCall)
  <2>1. Base(Popped, NoCall) /\ "route_load_rejected" \in Causes
    BY <1>1, EventArrives DEF Causes
  <2> QED
    BY <2>1, FailIsSound
<1>4. /\ \/ ctl' = x /\ call' = NoCall
         \/ ctl' = resumeIoPolling(d) /\ call' = NoCall
         \/ d.routes = {} /\ ctl' = f /\ call' = Emit("acknowledged", d.latest)
      /\ UNCHANGED <<io, writes, toWorker, toHost, worker>>
    BY <1>1, <1>2 DEF handleRouteLoadResponse, GuiOnly, Enter
<1> HIDE DEF d, x, f
<1>5. Sound(resumeIoPolling(d), NoCall)
    BY <1>2, ResumeIsSound
<1>6. d.routes = {} => Sound(f, Emit("acknowledged", d.latest))
    BY <1>2, EnterIsSound
<1>7. Sound(ctl', call')
    BY <1>3, <1>4, <1>5, <1>6
<1> QED
    BY <1>4, <1>7, GuiStep

\* A capability request moves from its event to the observer.
LEMMA handleCapabilityRequestInv ==
    ASSUME IInv, UNCHANGED budget, handleCapabilityRequest
    PROVE  IInv'
<1>1. /\ call = NoCall /\ ctl.events # <<>> /\ Event.kind = "request"
      /\ Event.gen = ctl.generation
    BY DEF handleCapabilityRequest, Arrives, Current
<1>2. /\ Sound(Popped, NoCall) /\ Free(Popped, NoCall, Event.id)
      /\ Event \in Events /\ Popped.generation = ctl.generation
    BY <1>1, EventArrives DEF Asking
<1>3. Event.id \in Nat
    BY <1>1, <1>2 DEF Events, Asking
<1>4. Sound(Popped, Emit("observed", Event.id))
    BY <1>2, <1>3, EnterIsSound
<1>5. /\ ctl' = Popped /\ call' = Emit("observed", Event.id)
      /\ UNCHANGED <<io, writes, toWorker, toHost, worker>>
    BY DEF handleCapabilityRequest, Enter
<1> QED
    BY <1>4, <1>5, GuiStep

\* An observed request is answered, served, dropped, or fails the session.
LEMMA capabilityRequestObservedInv ==
    ASSUME IInv, UNCHANGED budget, capabilityRequestObserved
    PROVE  IInv'
<1> DEFINE r == call.id
           g == ctl.generation
           taken == [ctl EXCEPT !.request = r]
           busy == queueCapabilityResponse(ctl, g, r, FALSE, TRUE)
           denied == queueCapabilityResponse(taken, g, r, TRUE, FALSE)
           served == [taken EXCEPT !.serving = taken.serving \cup {r}]
           mismatch == failClosed(ctl, "capability_authority_mismatch")
           full == failClosed(ctl, "response_queue_failed")
           d == CASE io.bound # ctl.bound -> mismatch
                  [] ~ctl.bound /\ ctl.request = 0 -> denied
                  [] ~ctl.bound /\ ctl.request # 0 -> mismatch
                  [] ctl.bound /\ ctl.request # 0 ->
                       IF ctl.admitted /\ ~queueFull(ctl) THEN busy ELSE full
                  [] OTHER -> IF ctl.admitted THEN served ELSE taken
<1>1. Return("observed", d)
    BY DEF capabilityRequestObserved, answeredBusy
<1>2. ASSUME Running(ctl), Sound(ctl, NoCall), r \in Nat, Free(ctl, NoCall, r)
      PROVE  Sound(d, NoCall)
  <2> HIDE DEF r
  <2>1. /\ ctl \in Controllers /\ Base(ctl, NoCall) /\ g \in Nat
        /\ "capability_authority_mismatch" \in Causes
        /\ "response_queue_failed" \in Causes
    BY <1>2 DEF Sound, Base, Causes, Controllers
  <2>2. Sound(mismatch, NoCall) /\ Sound(full, NoCall)
    BY <2>1, FailIsSound
  <2>3. Sound(busy, NoCall)
    BY <1>2, <2>1, CapabilityResponseIsSound
  <2>4. /\ taken \in Controllers
        /\ taken.state = ctl.state /\ taken.attached = ctl.attached
        /\ taken.bound = ctl.bound /\ taken.admitted = ctl.admitted
        /\ taken.serving = ctl.serving
        /\ taken.generation = ctl.generation /\ taken.events = ctl.events
        /\ taken.outbound = ctl.outbound /\ taken.posted = ctl.posted
        /\ taken.active = ctl.active
        /\ taken.routes = ctl.routes /\ taken.latest = ctl.latest
        /\ taken.acknowledged = ctl.acknowledged
        /\ taken.lastRoute = ctl.lastRoute
    BY <1>2, <2>1 DEF Controllers
  <2> HIDE DEF taken
  <2>5. Sound(taken, NoCall)
    BY <1>2, <2>4, SameSession
  <2>6. Free(taken, NoCall, r)
    BY <1>2, <2>4 DEF Free, Taken, Sending, Queued, Called, Announced
  <2>7. Sound(denied, NoCall)
    BY <1>2, <2>1, <2>5, <2>6, CapabilityResponseIsSound
  <2>8. ASSUME ctl.bound, ctl.admitted
        PROVE  Sound(served, NoCall)
    <3>1. /\ served \in Controllers
          /\ served.state = taken.state /\ served.attached = taken.attached
          /\ served.bound = taken.bound /\ served.admitted = taken.admitted
          /\ served.serving = taken.serving \cup {r}
          /\ served.generation = taken.generation /\ served.events = taken.events
          /\ served.outbound = taken.outbound /\ served.posted = taken.posted
          /\ served.active = taken.active
          /\ served.routes = taken.routes /\ served.latest = taken.latest
          /\ served.acknowledged = taken.acknowledged
          /\ served.lastRoute = taken.lastRoute
      BY <1>2, <2>4 DEF Controllers
    <3> HIDE DEF served
    <3>2. /\ AuthorityMatches(taken) /\ ReportsOK(taken, NoCall)
          /\ OneIsSent(taken) /\ RequestsOK(taken, NoCall) /\ NoCall \in Calls
          /\ Running(taken) /\ Heard(taken) /\ ActiveIsSent(taken)
          /\ RoutesOK(taken)
      BY <1>2, <2>4, <2>5 DEF Sound, Base, Served, Running
    <3>3. AuthorityMatches(served) /\ ReportsOK(served, NoCall) /\ OneIsSent(served)
      BY <2>4, <2>8, <3>1, <3>2 DEF AuthorityMatches, Running, ReportsOK, OneIsSent
    <3>4. /\ Announced(served) = Announced(taken)
          /\ Called(served, NoCall) = Called(taken, NoCall)
          /\ Queued(served) = Queued(taken) /\ Sending(served) = Sending(taken)
      BY <3>1 DEF Announced, Called, Queued, Sending
    <3>5. RequestsOK(served, NoCall)
      BY <2>6, <3>1, <3>2, <3>4 DEF RequestsOK, Free, Taken
    <3>6. Heard(served) /\ ActiveIsSent(served) /\ RoutesOK(served)
      BY <3>1, <3>2 DEF Heard, ActiveIsSent, RoutesOK, Loaded
    <3> QED
      BY <3>1, <3>2, <3>3, <3>5, <3>6 DEF Sound, Base, Served
  <2> HIDE DEF mismatch, full, busy, denied, served
  <2> QED
    BY <2>2, <2>3, <2>5, <2>7, <2>8
<1> HIDE DEF d
<1> QED
    BY <1>1, <1>2, ReturnInv

\* The result of a served request moves to the queue.
LEMMA submitCapabilityCompletionInv ==
    ASSUME IInv, UNCHANGED budget, NEW r, submitCapabilityCompletion(r)
    PROVE  IInv'
<1> DEFINE c == [ctl EXCEPT !.serving = ctl.serving \ {r}]
           d == queueCapabilityResponse(c, ctl.generation, r, TRUE, TRUE)
<1>1. /\ call = NoCall /\ r \in ctl.serving
      /\ Sound(ctl, NoCall) /\ ctl \in Controllers /\ RequestsOK(ctl, NoCall)
    BY DEF submitCapabilityCompletion, IInv, Sound, Base
<1>2. r \in Nat /\ ctl.generation \in Nat
    BY <1>1 DEF Controllers
<1>3. /\ c \in Controllers
      /\ c.state = ctl.state /\ c.attached = ctl.attached
      /\ c.bound = ctl.bound /\ c.admitted = ctl.admitted
      /\ c.serving = ctl.serving \ {r}
      /\ c.generation = ctl.generation /\ c.events = ctl.events
      /\ c.outbound = ctl.outbound /\ c.posted = ctl.posted
      /\ c.active = ctl.active
      /\ c.routes = ctl.routes /\ c.latest = ctl.latest
      /\ c.acknowledged = ctl.acknowledged
      /\ c.lastRoute = ctl.lastRoute
    BY <1>1 DEF Controllers
<1> HIDE DEF c
<1>4. Sound(c, NoCall)
    BY <1>1, <1>3, SameSession
<1>5. Free(c, NoCall, r)
  <2>1. /\ Announced(c) = Announced(ctl) /\ Called(c, NoCall) = Called(ctl, NoCall)
        /\ Queued(c) = Queued(ctl) /\ Sending(c) = Sending(ctl)
    BY <1>3 DEF Announced, Called, Queued, Sending
  <2> QED
    BY <1>1, <1>3, <2>1 DEF Free, Taken, RequestsOK
<1>6. Sound(d, NoCall)
    BY <1>2, <1>4, <1>5, CapabilityResponseIsSound
<1>7. /\ ctl' \in {c, d} /\ call' = NoCall
      /\ UNCHANGED <<io, writes, toWorker, toHost, worker>>
    BY <1>1 DEF submitCapabilityCompletion, GuiOnly, c
<1> HIDE DEF d
<1>8. Sound(ctl', call')
    BY <1>4, <1>6, <1>7
<1> QED
    BY <1>7, <1>8, GuiStep

\* The active command is finished, in time.
LEMMA CommandIsDone ==
    ASSUME IInv, call = NoCall, ctl.events # <<>>, Event.kind = "finishedCommand",
           Event.gen = ctl.generation, Running(ctl), Event.id = ctl.active.id
    PROVE  LET d == [Popped EXCEPT !.active = NoCommand]
           IN  /\ Event.error \in Causes
               /\ Sound(d, NoCall)
               /\ d \in Controllers /\ d.generation = ctl.generation
<1> DEFINE e == ctl.events
           g == ctl.generation
           p == Popped
           d == [p EXCEPT !.active = NoCommand]
           ks == {"finishedCommand"}
<1>1. /\ Sound(p, NoCall) /\ p.state = ctl.state /\ p.generation = ctl.generation
      /\ p.active = ctl.active /\ Event \in Events
    BY EventArrives
<1>2. ctl \in Controllers /\ Heard(ctl) /\ ActiveIsSent(ctl)
    BY DEF IInv, Sound, Base, Served
<1>3. e \in Seq(Events) /\ p.events = Tail(e) /\ p.posted = ctl.posted
    BY <1>2 DEF Popped, Controllers
<1>4. /\ 1 \in 1 .. Len(e) /\ Event = e[1]
      /\ Event.id \in NewsIds(e, g, ks)
      /\ NewsIds(Tail(e), g, ks) \subseteq NewsIds(e, g, ks)
      /\ NewsOnce(e, g, ks) =>
           NewsOnce(Tail(e), g, ks) /\ Event.id \notin NewsIds(Tail(e), g, ks)
    BY <1>3, TailEvents DEF Event
<1>5. Event.error \in Causes
  <2>1. Event.error \in Causes \cup {"stale_command"}
    BY <1>1 DEF Events, Asking
  <2>2. 1 \in News(e, g, ks)
    BY <1>4 DEF News
  <2>3. ASSUME Event.error = "stale_command"
        PROVE  FALSE
    <3>1. PICK i \in News(e, g, {"failed"}) : i < 1
      BY <1>2, <1>4, <2>2, <2>3 DEF Heard, StaleIsLate
    <3>2. i \in 1 .. Len(e)
      BY DEF News
    <3>3. Len(e) \in Nat
      BY <1>3
    <3> QED
      BY <3>1, <3>2, <3>3
  <2> QED
    BY <2>1, <2>3
<1>6. /\ Sent(ctl.posted) = {} /\ io.command = 0
      /\ NewsIds(Tail(e), g, ks) = {} /\ NewsOnce(Tail(e), g, ks)
    BY <1>2, <1>4 DEF ActiveIsSent
<1> HIDE DEF p, g, e
<1>7. /\ p \in Controllers /\ AuthorityMatches(p) /\ ReportsOK(p, NoCall)
      /\ OneIsSent(p) /\ RequestsOK(p, NoCall) /\ NoCall \in Calls
      /\ Running(p) /\ Heard(p) /\ ActiveIsSent(p) /\ RoutesOK(p)
    BY <1>1 DEF Sound, Base, Served, Running
<1>8. /\ d \in Controllers
      /\ d.state = p.state /\ d.attached = p.attached /\ d.bound = p.bound
      /\ d.admitted = p.admitted /\ d.serving = p.serving
      /\ d.generation = p.generation /\ d.events = p.events
      /\ d.error = p.error /\ d.outbound = p.outbound
      /\ d.active = NoCommand /\ d.posted = p.posted
      /\ d.routes = p.routes /\ d.latest = p.latest
      /\ d.acknowledged = p.acknowledged
      /\ d.lastRoute = p.lastRoute
  <2>1. NoCommand \in Commands
    BY DEF NoCommand, Commands
  <2> QED
    BY <1>7, <2>1 DEF Controllers
<1> HIDE DEF d
<1>9. AuthorityMatches(d) /\ ReportsOK(d, NoCall) /\ OneIsSent(d)
    BY <1>7, <1>8 DEF AuthorityMatches, Running, ReportsOK, OneIsSent
<1>10. RequestsOK(d, NoCall)
  <2>1. /\ Announced(d) = Announced(p) /\ Called(d, NoCall) = Called(p, NoCall)
        /\ Queued(d) = Queued(p) /\ Sending(d) = Sending(p)
    BY <1>8 DEF Announced, Called, Queued, Sending
  <2> QED
    BY <1>7, <1>8, <2>1 DEF RequestsOK
<1>11. Heard(d)
    BY <1>7, <1>8 DEF Heard
<1>12. ActiveIsSent(d)
  <2>1. NewsIds(d.events, d.generation, ks) = {} /\ NewsOnce(d.events, d.generation, ks)
    BY <1>1, <1>3, <1>6, <1>8 DEF g
  <2>2. Sent(d.posted) = {}
    BY <1>3, <1>6, <1>8
  <2>3. d.active.id = 0
    BY <1>8 DEF NoCommand
  <2>4. \A i \in 1 .. Len(d.outbound) : d.outbound[i].id # 0
    BY <1>7, <1>8 DEF ActiveIsSent
  <2> QED
    BY <1>6, <2>1, <2>2, <2>3, <2>4 DEF ActiveIsSent
<1>13. RoutesOK(d)
    BY <1>7, <1>8 DEF RoutesOK, Loaded
<1>14. Sound(d, NoCall)
    BY <1>7, <1>8, <1>9, <1>10, <1>11, <1>12, <1>13 DEF Sound, Base, Served
<1> QED
    BY <1>1, <1>5, <1>8, <1>14 DEF d, p

\* The command that finished is the active one, so none is left on its way.
LEMMA handleCommandFinishedInv ==
    ASSUME IInv, UNCHANGED budget, handleCommandFinished
    PROVE  IInv'
<1> DEFINE done == [Popped EXCEPT !.active = NoCommand]
           answers == ctl.active.completes /\ ctl.active.ref = ctl.request
           given == [done EXCEPT !.request = 0]
           freed == IF answers THEN given ELSE done
           d == IF ctl.active.resume THEN resumeIoPolling(pumpOutbound(freed))
                                     ELSE pumpOutbound(freed)
<1>1. /\ call = NoCall /\ ctl.events # <<>> /\ Event.kind = "finishedCommand"
      /\ Event.gen = ctl.generation /\ Running(ctl)
    BY DEF handleCommandFinished, Arrives, Current
<1>2. Sound(Popped, NoCall) /\ ctl.active.ref \in Nat
    BY <1>1, EventArrives DEF IInv, Sound, Base, Controllers, Commands
<1>3. /\ \/ ctl' = Popped /\ call' = NoCall
         \/ /\ Event.id = ctl.active.id
            /\ \/ ctl' = failClosed(done, Event.error) /\ call' = NoCall
               \/ ctl' = freed /\ call' = Emit("sent", ctl.active.ref)
               \/ ctl' = d /\ call' = NoCall
      /\ UNCHANGED <<io, writes, toWorker, toHost, worker>>
  <2>1. /\ \/ GuiOnly(Popped)
           \/ /\ Event.id = ctl.active.id
              /\ \/ GuiOnly(failClosed(done, Event.error))
                 \/ Enter(freed, Emit("sent", ctl.active.ref))
                 \/ GuiOnly(d)
    BY DEF handleCommandFinished
  <2> QED
    BY <1>1, <2>1 DEF GuiOnly, Enter
<1>4. ASSUME Event.id = ctl.active.id
      PROVE  /\ Event.error \in Causes /\ Sound(freed, NoCall)
             /\ Base(done, NoCall) /\ freed.generation = ctl.generation
  <2>1. /\ Event.error \in Causes /\ Sound(done, NoCall)
        /\ done \in Controllers /\ done.generation = ctl.generation
    BY <1>1, <1>4, CommandIsDone
  <2> HIDE DEF done
  <2>2. /\ given \in Controllers
        /\ given.state = done.state /\ given.attached = done.attached
        /\ given.bound = done.bound /\ given.admitted = done.admitted
        /\ given.serving = done.serving
        /\ given.generation = done.generation /\ given.events = done.events
        /\ given.outbound = done.outbound /\ given.posted = done.posted
        /\ given.active = done.active
        /\ given.routes = done.routes /\ given.latest = done.latest
        /\ given.acknowledged = done.acknowledged
        /\ given.lastRoute = done.lastRoute
    BY <2>1 DEF Controllers
  <2> HIDE DEF given
  <2>3. Sound(given, NoCall)
    BY <2>1, <2>2, SameSession
  <2> QED
    BY <2>1, <2>2, <2>3 DEF Sound
<1> HIDE DEF freed, done
<1>5. ASSUME Event.id = ctl.active.id
      PROVE  /\ Sound(failClosed(done, Event.error), NoCall)
             /\ Sound(freed, Emit("sent", ctl.active.ref))
             /\ Sound(d, NoCall)
  <2>1. Sound(failClosed(done, Event.error), NoCall)
    BY <1>4, <1>5, FailIsSound
  <2>2. Sound(freed, Emit("sent", ctl.active.ref))
    BY <1>2, <1>4, <1>5, EnterIsSound
  <2>3. Sound(pumpOutbound(freed), NoCall)
    BY <1>4, <1>5, PumpIsSound
  <2>4. Sound(d, NoCall)
    BY <2>3, ResumeIsSound
  <2> QED
    BY <2>1, <2>2, <2>4
<1> HIDE DEF d
<1>6. Sound(ctl', call')
    BY <1>2, <1>3, <1>5
<1> QED
    BY <1>3, <1>6, GuiStep

-----------------------------------------------------------------------------
\* A session starts, and ends.

\* No session is left, so that nothing can go wrong any more.
LEMMA NoneIsSound ==
    ASSUME IInv, ctl' \in Controllers, ~Running(ctl'), ctl'.serving = {},
           ~ctl'.admitted, OneSend(ctl'.posted), ReportsOK(ctl', call),
           io' = NoIo,
           UNCHANGED <<call, writes, toWorker, toHost, worker, budget>>
    PROVE  IInv'
<1>1. ~Live'
    BY DEF Live, NoIo
<1>2. io' \in Ios /\ io'.command = 0
    BY DEF NoIo, Ios
<1>3. ThreadsOK'
    BY <1>2 DEF IInv, ThreadsOK
<1>4. WorkerOK'
    BY <1>1 DEF IInv, WorkerOK, AnsweredOnce
<1>5. AuthorityMatches(ctl)' /\ ReportsOK(ctl, call)' /\ ~Running(ctl)'
    BY DEF AuthorityMatches, ReportsOK, Running
<1>6. OneIsSent(ctl)' /\ RequestsOK(ctl, call)'
    BY <1>1, <1>2 DEF OneIsSent, RequestsOK
<1>7. call \in Calls
    BY DEF IInv, Sound, Base
<1> QED
    BY <1>3, <1>4, <1>5, <1>6, <1>7 DEF IInv, Sound, Base

\* startSession: what is on its way to the GUI thread is about an earlier
\* session, and all the rest is new.
LEMMA StartIsSound ==
    ASSUME IInv, NEW c \in Controllers, ~Running(c), c.serving = {},
           ~c.admitted, OneSend(c.posted), ReportsOK(c, call),
           NEW binding \in BOOLEAN, NEW binds \in BOOLEAN, NEW code \in Causes,
           startSession(c, binding, binds, code), UNCHANGED <<call, budget>>
    PROVE  IInv'
<1>1. c.generation \in Nat /\ c.generation + 1 \in Nat /\ call \in Calls
    BY DEF Controllers, IInv, Sound, Base
<1>2. CASE binding /\ ~binds
  <2> DEFINE d == [c EXCEPT !.generation = c.generation + 1, !.bound = FALSE,
                            !.error = code]
  <2>1. /\ d \in Controllers /\ d.state = c.state /\ d.serving = {}
        /\ ~d.admitted /\ d.posted = c.posted /\ d.events = c.events
        /\ d.generation = c.generation + 1
    BY <1>1 DEF Controllers
  <2>2. /\ ctl' = d /\ io' = NoIo
        /\ UNCHANGED <<writes, toWorker, toHost, worker>>
    BY <1>2 DEF startSession
  <2> HIDE DEF d
  <2>3. ReportsOK(d, call)
    <3>1. /\ \A i \in 1 .. Len(c.events) : c.events[i] \in Events
          /\ \A e \in Events : e.gen \in Nat
      BY ElementOfSeq DEF Controllers, Events
    <3>2. call.gen \in Nat
      BY <1>1 DEF Calls
    <3> QED
      BY <1>1, <2>1, <3>1, <3>2 DEF ReportsOK
  <2>4. ~Running(d)
    BY <2>1 DEF Running
  <2> QED
    BY <2>1, <2>2, <2>3, <2>4, NoneIsSound
<1>3. CASE ~(binding /\ ~binds)
  <2> DEFINE w == dropWork(c)
             d == [w EXCEPT !.generation = w.generation + 1, !.attached = TRUE,
                            !.bound = binding, !.admitted = binding,
                            !.state = "Running", !.finalState = "Failed",
                            !.stopRequested = FALSE, !.error = "",
                            !.posted = <<>>]
             n == [NoIo EXCEPT !.thread = "running", !.live = TRUE,
                               !.bound = binding]
             v == [NoWorker EXCEPT !.open = TRUE,
                                   !.lastRequest = worker.lastRequest]
  <2>1. /\ w \in Controllers /\ w.outbound = <<>> /\ w.active = NoCommand
        /\ w.routes = {} /\ w.generation = c.generation
        /\ w.events = c.events /\ w.serving = {}
    BY WithoutWork
  <2>2. /\ ctl' = d /\ io' = n /\ worker' = v
        /\ writes' = <<>> /\ toWorker' = <<>> /\ toHost' = <<>>
    BY <1>3 DEF startSession
  <2> HIDE DEF w
  <2>3. <<>> \in Seq(Posts) /\ "" \in Causes
    BY EmptySeq DEF Causes
  <2>4. /\ d \in Controllers /\ d.outbound = <<>> /\ d.active = NoCommand
        /\ d.routes = {} /\ d.generation = c.generation + 1
        /\ d.events = c.events /\ d.serving = {} /\ d.posted = <<>>
        /\ d.attached /\ d.bound = binding /\ d.admitted = binding
        /\ d.state = "Running"
    <3>1. /\ d.outbound = <<>> /\ d.active = NoCommand
          /\ d.routes = {} /\ d.generation = c.generation + 1
          /\ d.events = c.events /\ d.serving = {} /\ d.posted = <<>>
          /\ d.attached /\ d.bound = binding /\ d.admitted = binding
          /\ d.state = "Running"
      BY <2>1 DEF Controllers
    <3>2. w.generation + 1 \in Nat /\ binding \in BOOLEAN
      BY <1>1, <2>1 DEF Controllers
    <3>3. d \in Controllers
      BY <2>1, <2>3, <3>2 DEF Controllers
    <3> QED
      BY <3>1, <3>3
  <2> HIDE DEF d
  <2>5. /\ n \in Ios /\ n.thread = "running" /\ ~n.terminal /\ ~n.stopping
        /\ n.command = 0 /\ n.pending = {} /\ n.received = {}
    BY DEF NoIo, Ios
  <2> HIDE DEF n
  <2>6. /\ v \in Workers /\ v.asked = {}
        /\ v.answers = [r \in 1 .. MaxRequests |-> 0]
    BY DEF IInv, ThreadsOK, NoWorker, Workers
  <2> HIDE DEF v
  <2>7. ThreadsOK'
    <3>1. <<>> \in Seq(Commands) /\ <<>> \in Seq(Messages)
      BY EmptySeq
    <3>2. io' \in Ios /\ worker' \in Workers
      BY <2>2, <2>5, <2>6
    <3>3. budget' \in Budgets
      BY DEF IInv, ThreadsOK
    <3> QED
      BY <2>2, <3>1, <3>2, <3>3 DEF ThreadsOK
  <2>8. Answered' = {} /\ AnsweredOnce'
    <3>1. \A r \in 1 .. MaxRequests : worker'.answers[r] = 0
      BY <2>2, <2>6
    <3>2. Answered' = {}
      BY <3>1 DEF Answered
    <3>3. \A r \in 1 .. MaxRequests :
            worker'.answers[r] <= (IF r \in worker'.asked THEN 1 ELSE 0)
      BY <3>1
    <3>4. AnsweredOnce'
      BY <3>3 DEF AnsweredOnce
    <3> QED
      BY <3>2, <3>4
  <2>9. WorkerOK'
    <3>1. Len(toHost') = 0
      BY <2>2, EmptySeq
    <3> QED
      BY <2>2, <2>5, <2>6, <2>8, <3>1 DEF WorkerOK
  <2>10. call.gen <= c.generation /\ call.gen < d.generation
    <3>1. call.gen \in Nat
      BY <1>1 DEF Calls
    <3> QED
      BY <1>1, <2>4, <3>1 DEF ReportsOK
  <2>11. \A i \in 1 .. Len(c.events) :
           c.events[i].gen <= d.generation /\ c.events[i].gen # d.generation
    <3>1. /\ \A i \in 1 .. Len(c.events) : c.events[i] \in Events
          /\ \A e \in Events : e.gen \in Nat
      BY ElementOfSeq DEF Controllers, Events
    <3>2. \A i \in 1 .. Len(c.events) : c.events[i].gen \in Nat
      BY <3>1
    <3> QED
      BY <1>1, <2>4, <3>2 DEF ReportsOK
  <2>12. \A ks : News(d.events, d.generation, ks) = {}
    BY <2>4, <2>11 DEF News
  <2>13. \A ks : /\ NewsIds(d.events, d.generation, ks) = {}
                 /\ NewsOnce(d.events, d.generation, ks)
    BY <2>12 DEF NewsIds, NewsOnce
  <2>14. /\ Sent(d.posted) = {} /\ OneSend(d.posted)
         /\ \A t : Refs(d.outbound, t) = {} /\ EachOnce(d.outbound, t)
         /\ \A t : SentRefs(d.posted, t) = {}
    BY <2>4, EmptyRefs DEF SentRefs
  <2>15. AuthorityMatches(ctl)'
    BY <2>2, <2>4 DEF AuthorityMatches, Running
  <2>16. ReportsOK(ctl, call)'
    BY <1>1, <2>2, <2>4, <2>10, <2>11 DEF ReportsOK, Calls
  <2>17. OneIsSent(ctl)'
    BY <2>2, <2>14 DEF OneIsSent
  <2>18. RequestsOK(ctl, call)'
    <3>1. /\ Writing' = {} /\ Delivered' = {}
          /\ EachOnce(writes', "Response") /\ EachOnce(toWorker', "Response")
      BY <2>2, EmptyRefs DEF Writing, Delivered
    <3>2. /\ Announced(ctl)' = {} /\ Called(ctl, call)' = {}
          /\ Queued(ctl)' = {} /\ Sending(ctl)' = {}
      <4>1. Announced(ctl)' = {}
        BY <2>2, <2>13 DEF Announced
      <4>2. call'.gen # ctl'.generation
        <5>1. call.gen \in Nat /\ d.generation \in Nat
          BY <1>1, <2>4 DEF Calls
        <5> QED
          BY <2>2, <2>10, <5>1
      <4>3. Called(ctl, call)' = {}
        BY <4>2 DEF Called
      <4>4. Queued(ctl)' = {} /\ Sending(ctl)' = {}
        BY <2>2, <2>14 DEF Queued, Sending
      <4> QED
        BY <4>1, <4>3, <4>4
    <3>3. ctl'.serving = {} /\ NewsOnce(ctl'.events, ctl'.generation, Asking)
          /\ EachOnce(ctl'.outbound, "Response")
      BY <2>2, <2>4, <2>13, <2>14
    <3> QED
      BY <2>8, <3>1, <3>2, <3>3 DEF RequestsOK
  <2>19. Heard(ctl)'
    <3>1. Len(ctl'.posted) = 0
      BY <2>2, <2>4, EmptySeq
    <3> QED
      BY <2>2, <2>5, <2>12, <3>1 DEF Heard, StaleIsLate
  <2>20. ActiveIsSent(ctl)'
    <3>1. Len(ctl'.outbound) = 0
      BY <2>2, <2>4, EmptySeq
    <3> QED
      BY <2>2, <2>4, <2>5, <2>13, <2>14, <3>1 DEF ActiveIsSent, NoCommand
  <2>21. RoutesOK(ctl)'
    BY <2>2, <2>4, <2>5, <2>13, <2>14 DEF RoutesOK, Loaded
  <2>22. ctl' \in Controllers /\ call' \in Calls
    BY <1>1, <2>2, <2>4
  <2> QED
    BY <2>7, <2>9, <2>15, <2>16, <2>17, <2>18, <2>19, <2>20, <2>21, <2>22
       DEF IInv, Sound, Base, Served
<1> QED
    BY <1>2, <1>3

\* A session starts when there is none: nothing of an earlier one is left.
LEMMA attachInv ==
    ASSUME IInv, UNCHANGED budget, NEW binding \in BOOLEAN,
           NEW binds \in BOOLEAN, attach(binding, binds)
    PROVE  IInv'
<1>1. /\ ctl \in Controllers /\ AuthorityMatches(ctl) /\ OneIsSent(ctl)
      /\ ReportsOK(ctl, call)
    BY DEF IInv, Sound, Base
<1>2. /\ ~ctl.attached /\ UNCHANGED call
      /\ startSession(ctl, binding, binds, "capability_bind_failed")
    BY DEF attach
<1>3. ~Running(ctl) /\ ctl.serving = {} /\ ~ctl.admitted /\ OneSend(ctl.posted)
    BY <1>1, <1>2 DEF AuthorityMatches, OneIsSent, Controllers
<1>4. "capability_bind_failed" \in Causes
    BY DEF Causes
<1> QED
    BY <1>1, <1>2, <1>3, <1>4, StartIsSound

\* The end of the IO thread ends the session, and starts the one that waits.
LEMMA handleIoThreadFinishedInv ==
    ASSUME IInv, UNCHANGED budget, NEW binds \in BOOLEAN,
           handleIoThreadFinished(binds)
    PROVE  IInv'
<1> DEFINE w == dropWork(Popped)
           i == invalidateCapabilityBinding(w)
           c == [i EXCEPT !.attached = FALSE, !.stopRequested = FALSE,
                          !.pendingSession = FALSE, !.pendingBinding = FALSE]
           f == [c EXCEPT !.state = ctl.finalState]
           s == [c EXCEPT !.state = IF binds \/ ~ctl.pendingBinding
                                      THEN "Detached" ELSE "Failed"]
<1>1. call = NoCall /\ ctl.events # <<>> /\ ctl \in Controllers
    BY DEF handleIoThreadFinished, Arrives, IInv, Sound, Base
<1>2. /\ Base(Popped, NoCall) /\ Popped \in Controllers
      /\ OneIsSent(Popped) /\ ReportsOK(Popped, NoCall)
    BY <1>1, EventArrives DEF Base
<1>3. /\ w \in Controllers /\ w.posted = Popped.posted
      /\ w.generation = Popped.generation /\ w.events = Popped.events
    BY <1>2, WithoutWork
<1>4. \/ ~ctl.pendingSession /\ ctl' = f /\ io' = NoIo
           /\ UNCHANGED <<call, writes, toWorker, toHost, worker>>
      \/ /\ ctl.pendingSession
         /\ startSession(s, ctl.pendingBinding, binds, "reattach_failed")
         /\ UNCHANGED call
    BY DEF handleIoThreadFinished
<1> HIDE DEF w
<1>5. /\ i \in Controllers /\ i.posted = Popped.posted
      /\ i.generation = Popped.generation /\ i.events = Popped.events
      /\ ~i.admitted /\ i.serving = {}
    BY <1>3, WithoutAuthority
<1> HIDE DEF i
<1>6. /\ c \in Controllers /\ c.posted = Popped.posted
      /\ c.generation = Popped.generation /\ c.events = Popped.events
      /\ ~c.admitted /\ c.serving = {}
    BY <1>5 DEF Controllers
<1> HIDE DEF c
<1>7. /\ ctl.finalState \in {"Detached", "Failed"}
      /\ ctl.pendingBinding \in BOOLEAN
    BY <1>1 DEF Controllers
<1>8. ASSUME NEW x \in {f, s}
      PROVE  /\ x \in Controllers /\ ~Running(x) /\ x.serving = {}
             /\ ~x.admitted /\ OneSend(x.posted) /\ ReportsOK(x, call)
  <2>1. /\ x \in Controllers /\ x.serving = {} /\ ~x.admitted
        /\ x.posted = Popped.posted /\ x.generation = Popped.generation
        /\ x.events = Popped.events /\ x.state \in {"Detached", "Failed"}
    BY <1>6, <1>7 DEF Controllers
  <2> HIDE DEF f, s
  <2> QED
    BY <1>1, <1>2, <2>1 DEF Running, OneIsSent, ReportsOK
<1> HIDE DEF f, s
<1>9. "reattach_failed" \in Causes
    BY DEF Causes
<1>10. CASE ~ctl.pendingSession
    BY <1>4, <1>8, <1>10, NoneIsSound
<1>11. CASE ctl.pendingSession
    BY <1>4, <1>7, <1>8, <1>9, <1>11, StartIsSound
<1> QED
    BY <1>10, <1>11

-----------------------------------------------------------------------------
\* The threads of a session, with which only the queues of the controller
\* change.

Queues(d) ==
    /\ d \in Controllers
    /\ d.state = ctl.state /\ d.attached = ctl.attached
    /\ d.bound = ctl.bound /\ d.admitted = ctl.admitted
    /\ d.serving = ctl.serving /\ d.generation = ctl.generation
    /\ d.outbound = ctl.outbound /\ d.active = ctl.active
    /\ d.routes = ctl.routes /\ d.latest = ctl.latest
    /\ d.acknowledged = ctl.acknowledged /\ d.lastRoute = ctl.lastRoute

\* A record that differs from the controller in its two queues only.
LEMMA QueuesOnly ==
    ASSUME ctl \in Controllers, NEW p \in Seq(Posts), NEW e \in Seq(Events)
    PROVE  LET d == [ctl EXCEPT !.posted = p, !.events = e]
           IN  Queues(d) /\ d.posted = p /\ d.events = e
BY DEF Queues, Controllers

\* What has to be shown of a step of the threads.
LEMMA ThreadStep ==
    ASSUME IInv, UNCHANGED call, Queues(ctl'), ThreadsOK', WorkerOK',
           \A i \in 1 .. Len(ctl'.events) : ctl'.events[i].gen <= ctl.generation,
           OneIsSent(ctl)', RequestsOK(ctl, call)',
           Running(ctl) => Heard(ctl)' /\ ActiveIsSent(ctl)' /\ RoutesOK(ctl)'
    PROVE  IInv'
<1>1. /\ AuthorityMatches(ctl) /\ ReportsOK(ctl, call) /\ call \in Calls
    BY DEF IInv, Sound, Base
<1>2. /\ ctl' \in Controllers /\ call' \in Calls
      /\ ctl'.state = ctl.state /\ ctl'.generation = ctl.generation
    BY <1>1 DEF Queues
<1>3. AuthorityMatches(ctl)'
    BY <1>1 DEF Queues, AuthorityMatches, Running
<1>4. ReportsOK(ctl, call)'
    BY <1>1, <1>2 DEF ReportsOK
<1>5. Running(ctl)' => Running(ctl)
    BY <1>2 DEF Running
<1> QED
    BY <1>2, <1>3, <1>4, <1>5 DEF IInv, Sound, Base, Served

\* What the IO thread was told first is taken.
LEMMA PostTaken ==
    ASSUME IInv, ctl.posted # <<>>
    PROVE  LET p == Tail(ctl.posted)
           IN  /\ p \in Seq(Posts) /\ Posted \in Posts
               /\ Handled = [ctl EXCEPT !.posted = p]
               /\ OneSend(p) /\ Sent(p) \subseteq Sent(ctl.posted)
               /\ Posted.kind = "send" =>
                    /\ Sent(ctl.posted) = {Posted.command} /\ Sent(p) = {}
                    /\ io.command = 0
               /\ Heard(ctl) =>
                    /\ Posted.kind \notin {"abort", "shutdown"}
                    /\ \A i \in 1 .. Len(p) : p[i].kind \notin {"abort", "shutdown"}
<1> DEFINE p == Tail(ctl.posted)
<1>1. /\ ctl \in Controllers /\ OneSend(ctl.posted)
      /\ Sent(ctl.posted) # {} => io.command = 0
    BY DEF IInv, Sound, Base, OneIsSent
<1>2. ctl.posted \in Seq(Posts)
    BY <1>1 DEF Controllers
<1>3. /\ p \in Seq(Posts) /\ Posted \in Posts
      /\ OneSend(p)
      /\ Posted.kind # "send" => Sent(p) = Sent(ctl.posted)
      /\ Posted.kind = "send" =>
           Sent(ctl.posted) = {Posted.command} /\ Sent(p) = {}
    BY <1>1, <1>2, TailPosts DEF Posted
<1>4. Heard(ctl) =>
        /\ Posted.kind \notin {"abort", "shutdown"}
        /\ \A i \in 1 .. Len(p) : p[i].kind \notin {"abort", "shutdown"}
    BY <1>2, TailPosts DEF Heard, Posted
<1>5. Handled = [ctl EXCEPT !.posted = p]
    BY DEF Handled
<1> QED
    BY <1>1, <1>3, <1>4, <1>5

\* What reporting x adds to the queue of events e.
LEMMA AppendedNews ==
    ASSUME NEW e \in Seq(Events), NEW x \in Events, NEW g \in Nat
    PROVE  LET a == Append(e, x)
           IN  /\ x.gen <= g /\ (\A i \in 1 .. Len(e) : e[i].gen <= g) =>
                    \A i \in 1 .. Len(a) : a[i].gen <= g
               /\ News(e, g, {"failed"}) # {} => News(a, g, {"failed"}) # {}
               /\ x.kind = "failed" /\ x.gen = g => News(a, g, {"failed"}) # {}
               /\ StaleIsLate(e, g) /\ News(e, g, {"failed"}) # {}
                    => StaleIsLate(a, g)
               /\ StaleIsLate(e, g)
                    /\ (x.kind # "finishedCommand" \/ x.error # "stale_command")
                    => StaleIsLate(a, g)
<1> DEFINE a == Append(e, x)
<1>1. /\ Len(e) \in Nat /\ Len(a) = Len(e) + 1 /\ a[Len(e) + 1] = x
      /\ a \in Seq(Events)
      /\ \A i \in 1 .. Len(e) : a[i] = e[i]
    BY AppendProperties
<1>2. 1 .. Len(a) = (1 .. Len(e)) \cup {Len(e) + 1}
    BY <1>1
<1> HIDE DEF a
<1>3. \A ks : \A i \in News(e, g, ks) : i \in News(a, g, ks) /\ i < Len(e) + 1
    BY <1>1, <1>2 DEF News
<1>4. x.kind = "failed" /\ x.gen = g => News(a, g, {"failed"}) # {}
    BY <1>1, <1>2 DEF News
<1>5. ASSUME x.gen <= g, \A i \in 1 .. Len(e) : e[i].gen <= g
      PROVE  \A i \in 1 .. Len(a) : a[i].gen <= g
    BY <1>1, <1>2, <1>5
<1>6. ASSUME StaleIsLate(e, g),
             \/ News(e, g, {"failed"}) # {}
             \/ x.kind # "finishedCommand" \/ x.error # "stale_command"
      PROVE  StaleIsLate(a, g)
  <2> SUFFICES ASSUME NEW j \in News(a, g, {"finishedCommand"}),
                      a[j].error = "stale_command"
               PROVE  \E i \in News(a, g, {"failed"}) : i < j
    BY DEF StaleIsLate
  <2>1. CASE j \in 1 .. Len(e)
    <3>1. j \in News(e, g, {"finishedCommand"}) /\ e[j].error = "stale_command"
      BY <1>1, <2>1 DEF News
    <3>2. \E i \in News(e, g, {"failed"}) : i < j
      BY <1>6, <3>1 DEF StaleIsLate
    <3> QED
      BY <1>3, <3>2
  <2>2. CASE j = Len(e) + 1
    <3>1. x.kind = "finishedCommand" /\ x.error = "stale_command"
      BY <1>1, <2>2 DEF News
    <3> QED
      BY <1>3, <1>6, <2>2, <3>1
  <2> QED
    BY <1>2, <2>1, <2>2 DEF News
<1>7. News(e, g, {"failed"}) # {} => News(a, g, {"failed"}) # {}
    BY <1>3
<1> QED
    BY <1>4, <1>5, <1>6, <1>7 DEF a

\* One event, or two, at the end of the queue.
LEMMA Reported ==
    ASSUME NEW e \in Seq(Events), NEW x \in Events, NEW y \in Events
    PROVE  /\ e \o <<x>> = Append(e, x)
           /\ e \o Append(<<>>, x) = Append(e, x)
           /\ e \o Append(<<y>>, x) = Append(Append(e, y), x)
<1>1. /\ <<x>> \in Seq(Events) /\ <<y>> \in Seq(Events) /\ <<>> \in Seq(Events)
    BY EmptySeq
<1>2. \A s \in Seq(Events) : Append(s, x) = s \o <<x>> /\ Append(s, y) = s \o <<y>>
    BY AppendIsConcat
<1>3. <<>> \o <<x>> = <<x>>
    BY <1>1, ConcatEmptySeq
<1>4. e \o (<<y>> \o <<x>>) = (e \o <<y>>) \o <<x>>
    BY <1>1, ConcatAssociative
<1>5. Append(e, y) \in Seq(Events)
    BY AppendProperties
<1> QED
    BY <1>1, <1>2, <1>3, <1>4, <1>5

\* The IO thread closes the session: nobody hears of it but the controller.
LEMMA ClosedStep ==
    ASSUME IInv, UNCHANGED <<call, budget>>, NEW thread \in {"running", "finished"},
           Close(thread), Queues(ctl'), OneSend(ctl'.posted),
           \A i \in 1 .. Len(ctl'.events) : ctl'.events[i].gen <= ctl.generation,
           Running(ctl) =>
             /\ thread = "running"
             /\ \A i \in 1 .. Len(ctl'.posted) :
                  ctl'.posted[i].kind \notin {"abort", "shutdown"}
             /\ Sent(ctl'.posted) \subseteq Sent(ctl.posted)
             /\ News(ctl'.events, ctl.generation, {"failed"}) # {}
             /\ StaleIsLate(ctl'.events, ctl.generation)
             /\ Loaded(ctl)' = Loaded(ctl)
             /\ NewsOnce(ctl'.events, ctl.generation, {"response"})
             /\ ActiveIsSent(ctl)'
    PROVE  IInv'
<1> DEFINE n == [NoIo EXCEPT !.thread = thread, !.terminal = TRUE,
                             !.bound = io.bound]
           v == [NoWorker EXCEPT !.lastRequest = worker.lastRequest]
<1>1. io \in Ios /\ worker \in Workers /\ budget \in Budgets
    BY DEF IInv, ThreadsOK
<1>2. /\ io' = n /\ worker' = v
      /\ writes' = <<>> /\ toWorker' = <<>> /\ toHost' = <<>>
    BY DEF Close
<1>3. /\ n \in Ios /\ n.thread = thread /\ n.terminal /\ ~n.stopping
      /\ n.command = 0 /\ n.pending = {}
    BY <1>1 DEF NoIo, Ios
<1> HIDE DEF n
<1>4. /\ v \in Workers /\ v.asked = {}
      /\ v.answers = [r \in 1 .. MaxRequests |-> 0]
    BY <1>1 DEF NoWorker, Workers
<1> HIDE DEF v
<1>5. ThreadsOK'
  <2>1. <<>> \in Seq(Commands) /\ <<>> \in Seq(Messages)
    BY EmptySeq
  <2>2. io' \in Ios /\ worker' \in Workers /\ budget' \in Budgets
    BY <1>1, <1>2, <1>3, <1>4
  <2> QED
    BY <1>2, <2>1, <2>2 DEF ThreadsOK
<1>6. ~Live'
    BY <1>2, <1>3 DEF Live
<1>7. WorkerOK'
  <2>1. \A r \in 1 .. MaxRequests : worker'.answers[r] = 0
    BY <1>2, <1>4
  <2>2. \A r \in 1 .. MaxRequests :
          worker'.answers[r] <= (IF r \in worker'.asked THEN 1 ELSE 0)
    BY <2>1
  <2>3. AnsweredOnce'
    BY <2>2 DEF AnsweredOnce
  <2> QED
    BY <1>2, <1>4, <1>6, <2>3 DEF WorkerOK
<1>8. OneIsSent(ctl)'
    BY <1>2, <1>3 DEF OneIsSent
<1>9. RequestsOK(ctl, call)'
    BY <1>6 DEF RequestsOK
<1>10. ASSUME Running(ctl)
       PROVE  Heard(ctl)' /\ ActiveIsSent(ctl)' /\ RoutesOK(ctl)'
  <2>1. RoutesOK(ctl)
    BY <1>10 DEF IInv, Sound, Served
  <2>2. ctl'.generation = ctl.generation
    BY DEF Queues
  <2>3. Heard(ctl)'
    BY <1>2, <1>3, <1>10, <2>2 DEF Heard
  <2>4. RoutesOK(ctl)'
    <3>1. SentRefs(ctl'.posted, "RouteLoad") \subseteq SentRefs(ctl.posted, "RouteLoad")
      BY <1>10 DEF SentRefs
    <3>2. /\ ctl'.outbound = ctl.outbound /\ ctl'.routes = ctl.routes
          /\ ctl'.latest = ctl.latest /\ ctl'.acknowledged = ctl.acknowledged
          /\ ctl'.lastRoute = ctl.lastRoute
      BY DEF Queues
    <3>3. io'.pending = {}
      BY <1>2, <1>3
    <3> QED
      BY <1>10, <2>1, <2>2, <3>1, <3>2, <3>3 DEF RoutesOK
  <2> QED
    BY <1>10, <2>3, <2>4
<1> QED
    BY <1>5, <1>7, <1>8, <1>9, <1>10, ThreadStep

\* fail, and what was posted to the IO thread is p then; a command that could
\* not be sent is finished by it.
LEMMA IoFails ==
    ASSUME IInv, UNCHANGED <<call, budget>>,
           NEW p \in Seq(Posts), OneSend(p), Sent(p) \subseteq Sent(ctl.posted),
           Heard(ctl) => \A i \in 1 .. Len(p) : p[i].kind \notin {"abort", "shutdown"},
           NEW es, NEW code \in Causes, ioFail([ctl EXCEPT !.posted = p], es, code),
           \/ es = <<>>
           \/ /\ es = <<Finished(io.command, FALSE, FALSE, "send_failed")>>
              /\ io.command # 0
    PROVE  IInv'
<1> DEFINE c == [ctl EXCEPT !.posted = p]
           g == ctl.generation
           x == [kind |-> "failed", gen |-> g, id |-> 0, error |-> code]
           y == Finished(io.command, FALSE, FALSE, "send_failed")
           m == IF es = <<>> THEN ctl.events ELSE Append(ctl.events, y)
           e == Append(m, x)
           d == [ctl EXCEPT !.posted = p, !.events = e]
           fin == {"finishedCommand"}
<1>1. /\ ctl \in Controllers /\ OneIsSent(ctl) /\ ReportsOK(ctl, call)
      /\ ctl.events \in Seq(Events) /\ g \in Nat /\ io \in Ios
      /\ g <= g
    BY DEF IInv, Sound, Base, Controllers, ThreadsOK
<1>2. /\ x \in Events /\ x.gen = g /\ x.kind = "failed"
    BY <1>1 DEF Events
<1>3. /\ y \in Events /\ y.gen = g /\ y.kind = "finishedCommand"
      /\ y.id = io.command /\ y.error = "send_failed"
  <2>1. "send_failed" \in Causes /\ io.command \in Nat
    BY <1>1 DEF Causes, Ios
  <2> QED
    BY <1>1, <2>1 DEF Events, Finished
<1>4. ctl' = d /\ Close("running")
  <2>1. ctl' = Signals(c, Append(es, [kind |-> "failed", gen |-> c.generation,
                                      id |-> 0, error |-> code]))
    BY DEF ioFail
  <2>2. c.generation = g /\ c.events = ctl.events
    BY <1>1 DEF Controllers
  <2>3. ctl' = [c EXCEPT !.events = ctl.events \o Append(es, x)]
    BY <2>1, <2>2 DEF Signals
  <2>4. ctl.events \o Append(es, x) = e
    <3> HIDE DEF x, y
    <3>1. /\ ctl.events \o Append(<<>>, x) = Append(ctl.events, x)
          /\ ctl.events \o Append(<<y>>, x) = Append(Append(ctl.events, y), x)
      BY <1>1, <1>2, <1>3, Reported
    <3>2. es = <<>> \/ es = <<y>>
      BY DEF y
    <3>3. CASE es = <<>>
      BY <3>1, <3>3
    <3>4. CASE es = <<y>> /\ es # <<>>
      BY <3>1, <3>4
    <3> QED
      BY <3>2, <3>3, <3>4
  <2> HIDE DEF e
  <2>5. [c EXCEPT !.events = e] = d
    BY <1>1 DEF Controllers
  <2> QED
    BY <2>3, <2>4, <2>5 DEF ioFail, Terminate
<1> HIDE DEF x, y
<1>5. m \in Seq(Events)
    BY <1>1, <1>3, AppendProperties
<1>6. \A i \in 1 .. Len(m) : m[i].gen <= g
    BY <1>1, <1>3, AppendedNews DEF ReportsOK
<1>7. StaleIsLate(ctl.events, g) => StaleIsLate(m, g)
  <2>1. StaleIsLate(ctl.events, g) => StaleIsLate(Append(ctl.events, y), g)
    BY <1>1, <1>3, AppendedNews
  <2> QED
    BY <2>1
<1>8. /\ NewsIds(m, g, {"response"}) = NewsIds(ctl.events, g, {"response"})
      /\ NewsOnce(ctl.events, g, {"response"}) => NewsOnce(m, g, {"response"})
  <2>1. y.kind \notin {"response"}
    BY <1>3
  <2> QED
    BY <1>1, <1>3, <2>1, AppendedEvent
<1>9. \/ m = ctl.events
      \/ /\ io.command # 0
         /\ NewsIds(m, g, fin) = NewsIds(ctl.events, g, fin) \cup {io.command}
         /\ NewsIds(ctl.events, g, fin) = {} => NewsOnce(m, g, fin)
  <2>1. /\ NewsIds(Append(ctl.events, y), g, fin)
             = NewsIds(ctl.events, g, fin) \cup {y.id}
        /\ NewsOnce(ctl.events, g, fin) /\ y.id \notin NewsIds(ctl.events, g, fin)
             => NewsOnce(Append(ctl.events, y), g, fin)
    <3>1. y.gen = g /\ y.kind \in fin
      BY <1>3
    <3> HIDE DEF fin, g
    <3> QED
      BY <1>1, <1>3, <3>1, AppendedEvent
  <2>2. NewsIds(ctl.events, g, fin) = {} => NewsOnce(ctl.events, g, fin)
    BY DEF NewsIds, NewsOnce
  <2> QED
    BY <1>3, <2>1, <2>2
<1> HIDE DEF m
<1>10. /\ e \in Seq(Events) /\ \A i \in 1 .. Len(e) : e[i].gen <= g
       /\ News(e, g, {"failed"}) # {}
       /\ StaleIsLate(m, g) => StaleIsLate(e, g)
    BY <1>1, <1>2, <1>5, <1>6, AppendProperties, AppendedNews
<1>11. \A ks \in {fin, {"response"}} :
         /\ NewsIds(e, g, ks) = NewsIds(m, g, ks)
         /\ NewsOnce(m, g, ks) => NewsOnce(e, g, ks)
  <2>1. \A ks \in {fin, {"response"}} : x.kind \notin ks
    BY <1>2
  <2> QED
    BY <1>2, <1>5, <2>1, AppendedEvent
<1> HIDE DEF e
<1>12. Queues(d) /\ d.posted = p /\ d.events = e
    BY <1>1, <1>10, QueuesOnly
<1> HIDE DEF d
<1>13. ASSUME Running(ctl)
       PROVE  /\ \A i \in 1 .. Len(p) : p[i].kind \notin {"abort", "shutdown"}
              /\ StaleIsLate(e, g)
              /\ Loaded(ctl)' = Loaded(ctl)
              /\ NewsOnce(e, g, {"response"})
              /\ ActiveIsSent(ctl)'
  <2>1. Heard(ctl) /\ ActiveIsSent(ctl) /\ RoutesOK(ctl)
    BY <1>13 DEF IInv, Sound, Served
  <2>2. StaleIsLate(e, g) /\ NewsOnce(e, g, {"response"})
    BY <1>7, <1>8, <1>10, <1>11, <2>1 DEF Heard, RoutesOK
  <2>3. Loaded(ctl)' = Loaded(ctl)
    BY <1>4, <1>8, <1>11, <1>12 DEF Queues, Loaded
  <2>4. ActiveIsSent(ctl)'
    <3>1. io'.command = 0
      BY <1>4 DEF Close, NoIo
    <3>2. /\ ctl'.outbound = ctl.outbound /\ ctl'.active = ctl.active
          /\ ctl'.generation = g /\ ctl'.posted = p /\ ctl'.events = e
      BY <1>4, <1>12 DEF Queues
    <3>3. CASE m = ctl.events
      BY <1>11, <2>1, <3>1, <3>2, <3>3 DEF ActiveIsSent
    <3>4. CASE m # ctl.events
      <4>1. /\ io.command # 0 /\ io.command = ctl.active.id
            /\ NewsIds(ctl.events, g, fin) = {}
        BY <1>9, <2>1, <3>4 DEF ActiveIsSent
      <4>2. NewsIds(e, g, fin) = {ctl.active.id} /\ NewsOnce(e, g, fin)
        BY <1>9, <1>11, <3>4, <4>1
      <4>3. Sent(p) = {}
        BY <1>1, <4>1 DEF OneIsSent
      <4> QED
        BY <2>1, <3>1, <3>2, <4>1, <4>2, <4>3 DEF ActiveIsSent
    <3> QED
      BY <3>3, <3>4
  <2> QED
    BY <2>1, <2>2, <2>3, <2>4
<1> QED
    BY <1>4, <1>10, <1>12, <1>13, ClosedStep

\* A failure with nothing before it.
LEMMA IoFailsAtOnce ==
    ASSUME IInv, UNCHANGED <<call, budget>>, NEW code \in Causes,
           ioFail(ctl, <<>>, code)
    PROVE  IInv'
<1>1. ctl \in Controllers /\ OneIsSent(ctl)
    BY DEF IInv, Sound, Base
<1>2. ctl.posted \in Seq(Posts) /\ ctl = [ctl EXCEPT !.posted = ctl.posted]
    BY <1>1 DEF Controllers
<1>3. ioFail([ctl EXCEPT !.posted = ctl.posted], <<>>, code)
    BY <1>2
<1>4. /\ OneSend(ctl.posted)
      /\ Heard(ctl) => \A i \in 1 .. Len(ctl.posted) :
                          ctl.posted[i].kind \notin {"abort", "shutdown"}
    BY <1>1 DEF OneIsSent, Heard
<1> QED
    BY <1>2, <1>3, <1>4, IoFails

\* A shutdown ends only a session that was told to stop.
LEMMA ShutdownEnds ==
    ASSUME IInv, UNCHANGED <<call, budget>>, io.stopping, finishShutdown
    PROVE  IInv'
<1> DEFINE x == [kind |-> "shutdownFinished", gen |-> ctl.generation, id |-> 0]
           e == Append(ctl.events, x)
           d == [ctl EXCEPT !.posted = ctl.posted, !.events = e]
<1>1. /\ ctl \in Controllers /\ OneIsSent(ctl) /\ ReportsOK(ctl, call)
      /\ ctl.events \in Seq(Events) /\ ctl.generation \in Nat
      /\ ctl.generation <= ctl.generation
      /\ ctl.posted \in Seq(Posts)
    BY DEF IInv, Sound, Base, Controllers
<1>2. ~Running(ctl)
    BY DEF IInv, Sound, Served, Heard
<1>3. x \in Events /\ x.gen = ctl.generation
    BY <1>1 DEF Events
<1>4. ctl' = [ctl EXCEPT !.events = ctl.events \o <<x>>] /\ Close("running")
    BY DEF finishShutdown, Signals, shutdownSignals, Signal, Terminate
<1> HIDE DEF x
<1>5. ctl.events \o <<x>> = e
    BY <1>1, <1>3, Reported
<1>6. e \in Seq(Events) /\ \A i \in 1 .. Len(e) : e[i].gen <= ctl.generation
    BY <1>1, <1>3, AppendProperties, AppendedNews DEF ReportsOK
<1> HIDE DEF e
<1>7. ctl' = d
    BY <1>1, <1>4, <1>5 DEF Controllers
<1>8. Queues(d) /\ d.posted = ctl.posted /\ d.events = e
    BY <1>1, <1>6, QueuesOnly
<1> HIDE DEF d
<1>9. OneSend(ctl.posted)
    BY <1>1 DEF OneIsSent
<1> QED
    BY <1>2, <1>4, <1>6, <1>7, <1>8, <1>9, ClosedStep

\* The end of the pipe fails a session that was not told to stop.
LEMMA peerClosedInv ==
    ASSUME IInv, UNCHANGED budget, peerClosed
    PROVE  IInv'
<1>1. "peer_closed" \in Causes
    BY DEF Causes
<1>2. \/ io.stopping /\ finishShutdown
      \/ ioFail(ctl, <<>>, "peer_closed")
    BY DEF peerClosed
<1>3. UNCHANGED call
    BY DEF peerClosed
<1> QED
    BY <1>1, <1>2, <1>3, IoFailsAtOnce, ShutdownEnds

\* So does a route load that is not answered in time,
LEMMA routeLoadTimesOutInv ==
    ASSUME IInv, UNCHANGED budget, routeLoadTimesOut
    PROVE  IInv'
<1>1. "request_timeout" \in Causes
    BY DEF Causes
<1>2. ioFail(ctl, <<>>, "request_timeout") /\ UNCHANGED call
    BY DEF routeLoadTimesOut
<1> QED
    BY <1>1, <1>2, IoFailsAtOnce

\* and a command that the writer does not finish.
LEMMA sendDeadlineInv ==
    ASSUME IInv, UNCHANGED budget, sendDeadline
    PROVE  IInv'
<1>1. "send_timeout" \in Causes
    BY DEF Causes
<1>2. ioFail(ctl, <<>>, "send_timeout") /\ UNCHANGED call
    BY DEF sendDeadline
<1> QED
    BY <1>1, <1>2, IoFailsAtOnce

\* A shutdown that takes too long ends the session.
LEMMA shutdownDeadlineInv ==
    ASSUME IInv, UNCHANGED budget, shutdownDeadline
    PROVE  IInv'
<1>1. "shutdown_timeout" \in Causes
    BY DEF Causes
<1>2. ioFail(ctl, <<>>, "shutdown_timeout") /\ UNCHANGED call
    BY DEF shutdownDeadline
<1> QED
    BY <1>1, <1>2, IoFailsAtOnce

\* What was posted is taken, and nothing comes of it that matters here.
LEMMA HandledStep ==
    ASSUME IInv, UNCHANGED <<call, toWorker, toHost, worker, budget>>,
           writes' \in Seq(Commands), Writing' = Writing,
           EachOnce(writes, "Response") => EachOnce(writes', "Response"),
           ctl.posted # <<>>, ctl' = Handled, Posted.kind # "send", io' \in Ios,
           io'.command = io.command, io'.pending = io.pending,
           io'.received = io.received, Live' => Live,
           Heard(ctl) => /\ io'.thread = io.thread /\ io'.stopping = io.stopping
                         /\ io'.terminal = io.terminal
    PROVE  IInv'
<1> DEFINE p == Tail(ctl.posted)
           d == [ctl EXCEPT !.posted = p, !.events = ctl.events]
<1>1. /\ ctl \in Controllers /\ OneIsSent(ctl) /\ ReportsOK(ctl, call)
      /\ RequestsOK(ctl, call)
      /\ ctl.events \in Seq(Events)
    BY DEF IInv, Sound, Base, Controllers
<1>2. /\ p \in Seq(Posts) /\ Handled = [ctl EXCEPT !.posted = p]
      /\ OneSend(p) /\ Sent(p) \subseteq Sent(ctl.posted)
      /\ Heard(ctl) => \A i \in 1 .. Len(p) : p[i].kind \notin {"abort", "shutdown"}
    BY PostTaken
<1> HIDE DEF p
<1>3. Queues(d) /\ d.posted = p /\ d.events = ctl.events
    BY <1>1, <1>2, QueuesOnly
<1>4. ctl' = d
    BY <1>1, <1>2 DEF Controllers
<1> HIDE DEF d
<1>5. /\ ctl'.generation = ctl.generation /\ ctl'.events = ctl.events
      /\ ctl'.posted = p /\ ctl'.outbound = ctl.outbound
      /\ ctl'.active = ctl.active /\ ctl'.serving = ctl.serving
      /\ ctl'.routes = ctl.routes /\ ctl'.latest = ctl.latest
      /\ ctl'.acknowledged = ctl.acknowledged
      /\ ctl'.lastRoute = ctl.lastRoute
    BY <1>3, <1>4 DEF Queues
<1>6. ThreadsOK'
    BY DEF IInv, ThreadsOK
<1>7. WorkerOK'
    BY DEF IInv, WorkerOK, AnsweredOnce
<1>8. OneIsSent(ctl)'
    BY <1>1, <1>2, <1>5 DEF OneIsSent
<1>9. \A t : SentRefs(p, t) \subseteq SentRefs(ctl.posted, t)
    BY <1>2 DEF SentRefs
<1>10. RequestsOK(ctl, call)'
  <2>1. /\ Announced(ctl)' = Announced(ctl) /\ Called(ctl, call)' = Called(ctl, call)
        /\ Queued(ctl)' = Queued(ctl)
    BY <1>5 DEF Announced, Called, Queued
  <2>2. Sending(ctl)' \subseteq Sending(ctl)
    BY <1>5, <1>9 DEF Sending
  <2>3. Delivered' = Delivered /\ Answered' = Answered
    BY DEF Delivered, Answered
  <2> QED
    BY <1>1, <1>5, <2>1, <2>2, <2>3 DEF RequestsOK
<1>11. ASSUME Running(ctl)
       PROVE  Heard(ctl)' /\ ActiveIsSent(ctl)' /\ RoutesOK(ctl)'
  <2>1. Heard(ctl) /\ ActiveIsSent(ctl) /\ RoutesOK(ctl)
    BY <1>11 DEF IInv, Sound, Served
  <2>2. Heard(ctl)'
    BY <1>2, <1>5, <2>1 DEF Heard
  <2>3. ActiveIsSent(ctl)'
    BY <1>2, <1>5, <2>1 DEF ActiveIsSent
  <2>4. RoutesOK(ctl)'
    <3>1. SentRefs(ctl'.posted, "RouteLoad") \subseteq SentRefs(ctl.posted, "RouteLoad")
      BY <1>5, <1>9
    <3> QED
      BY <1>5, <2>1, <3>1 DEF RoutesOK, Loaded
  <2> QED
    BY <2>2, <2>3, <2>4
<1>12. \A i \in 1 .. Len(ctl'.events) : ctl'.events[i].gen <= ctl.generation
    BY <1>1, <1>5 DEF ReportsOK
<1> QED
    BY <1>3, <1>4, <1>6, <1>7, <1>8, <1>10, <1>11, <1>12, ThreadStep

\* Polling goes on: nothing else changes.
LEMMA resumePollingInv ==
    ASSUME IInv, UNCHANGED budget, resumePolling
    PROVE  IInv'
<1>1. /\ ctl.posted # <<>> /\ Posted.kind = "resume" /\ ctl' = Handled
      /\ UNCHANGED <<call, writes, toWorker, toHost, worker>>
    BY DEF resumePolling, Polls
<1>2. io \in Ios
    BY DEF IInv, ThreadsOK
<1>3. /\ io' \in Ios /\ io'.command = io.command /\ io'.pending = io.pending
      /\ io'.received = io.received /\ io'.thread = io.thread
      /\ io'.stopping = io.stopping /\ io'.terminal = io.terminal
    BY <1>2 DEF resumePolling, Ios
<1>4. Live' => Live
    BY <1>3 DEF Live
<1>5. writes' \in Seq(Commands) /\ Writing' = Writing
    BY <1>1 DEF IInv, ThreadsOK, Writing
<1>6. EachOnce(writes, "Response") => EachOnce(writes', "Response")
    BY <1>1 DEF EachOnce
<1> QED
    BY <1>1, <1>3, <1>4, <1>5, <1>6, HandledStep

\* An abort closes the IO thread of a session that runs no more.
LEMMA abortInv ==
    ASSUME IInv, UNCHANGED budget, abort
    PROVE  IInv'
<1> DEFINE x == [kind |-> "threadFinished", gen |-> ctl.generation, id |-> 0]
           e == Append(ctl.events, x)
           d == [ctl EXCEPT !.posted = <<>>, !.events = e]
<1>1. /\ ctl \in Controllers /\ ReportsOK(ctl, call)
      /\ ctl.events \in Seq(Events) /\ ctl.generation \in Nat
      /\ ctl.generation <= ctl.generation /\ <<>> \in Seq(Posts)
    BY EmptySeq DEF IInv, Sound, Base, Controllers
<1>2. ~Running(ctl)
  <2>1. ctl.posted # <<>> /\ Posted.kind = "abort"
    BY DEF abort, Polls
  <2>2. ~Heard(ctl)
    BY <2>1, PostTaken
  <2> QED
    BY <2>2 DEF IInv, Sound, Served
<1>3. x \in Events /\ x.gen = ctl.generation
    BY <1>1 DEF Events
<1>4. /\ ctl' = Signals([ctl EXCEPT !.posted = <<>>], <<x>>)
      /\ Close("finished") /\ UNCHANGED call
    BY DEF abort, Signal
<1> HIDE DEF x
<1>5. ctl.events \o <<x>> = e
    BY <1>1, <1>3, Reported
<1>6. e \in Seq(Events) /\ \A i \in 1 .. Len(e) : e[i].gen <= ctl.generation
    BY <1>1, <1>3, AppendProperties, AppendedNews DEF ReportsOK
<1> HIDE DEF e
<1>7. ctl' = d
    BY <1>1, <1>4, <1>5 DEF Controllers, Signals
<1>8. Queues(d) /\ d.posted = <<>> /\ d.events = e
    BY <1>1, <1>6, QueuesOnly
<1> HIDE DEF d
<1>9. OneSend(<<>>)
    BY EmptyRefs
<1> QED
    BY <1>2, <1>4, <1>6, <1>7, <1>8, <1>9, ClosedStep

\* A shutdown is only begun of a session that runs no more.
LEMMA beginShutdownInv ==
    ASSUME IInv, UNCHANGED budget, beginShutdown
    PROVE  IInv'
<1> DEFINE m == [NoCommand EXCEPT !.type = "Shutdown"]
<1>1. /\ ctl.posted # <<>> /\ Posted.kind = "shutdown" /\ ctl' = Handled
      /\ UNCHANGED <<call, toWorker, toHost, worker>>
    BY DEF beginShutdown, Polls
<1>2. io \in Ios /\ writes \in Seq(Commands)
    BY DEF IInv, ThreadsOK
<1>3. \/ io' = io /\ writes' = writes
      \/ /\ io' = [io EXCEPT !.stopping = TRUE, !.awaitingGui = FALSE,
                             !.live = FALSE]
         /\ writes' = Append(writes, m)
    BY DEF beginShutdown
<1>4. m \in Commands /\ m.type # "Response"
    BY DEF NoCommand, Commands
<1> HIDE DEF m
<1>5. /\ io' \in Ios /\ io'.command = io.command /\ io'.pending = io.pending
      /\ io'.received = io.received /\ io'.thread = io.thread
      /\ io'.terminal = io.terminal
    BY <1>2, <1>3 DEF Ios
<1>6. Live' => Live
    BY <1>5 DEF Live
<1>7. ~Heard(ctl)
    BY <1>1, PostTaken
<1>8. /\ writes' \in Seq(Commands) /\ Writing' = Writing
      /\ EachOnce(writes, "Response") => EachOnce(writes', "Response")
  <2>1. CASE writes' = writes
    BY <1>2, <2>1 DEF Writing, EachOnce
  <2>2. CASE writes' = Append(writes, m)
    <3>1. /\ Append(writes, m) \in Seq(Commands)
          /\ Refs(Append(writes, m), "Response") = Refs(writes, "Response")
          /\ EachOnce(writes, "Response") => EachOnce(Append(writes, m), "Response")
      BY <1>2, <1>4, AppendProperties, AppendedRefs
    <3> QED
      BY <2>2, <3>1 DEF Writing
  <2> QED
    BY <1>3, <2>1, <2>2
<1> QED
    BY <1>1, <1>5, <1>6, <1>7, <1>8, HandledStep

\* The report that a command is finished.
LEMMA AppendedFinish ==
    ASSUME NEW e \in Seq(Events), NEW x \in Events, x.kind = "finishedCommand"
    PROVE  LET fin == {"finishedCommand"}
               a == Append(e, x)
           IN  /\ NewsIds(a, x.gen, fin) = NewsIds(e, x.gen, fin) \cup {x.id}
               /\ NewsOnce(e, x.gen, fin) /\ x.id \notin NewsIds(e, x.gen, fin)
                    => NewsOnce(a, x.gen, fin)
<1>1. x.kind \in {"finishedCommand"}
    OBVIOUS
<1> QED
    BY <1>1, AppendedEvent

\* A command is finished: it was written, or came too late.
LEMMA FinishedStep ==
    ASSUME IInv, UNCHANGED <<call, writes, toWorker, toHost, worker, budget>>,
           ctl.posted # <<>>, NEW id \in Nat, NEW ok \in BOOLEAN,
           NEW published \in BOOLEAN, NEW cause \in Causes \cup {"stale_command"},
           ctl' = Signals(Handled, <<Finished(id, ok, published, cause)>>),
           io' = [io EXCEPT !.command = 0],
           \/ /\ Posted.kind = "send" /\ id = Posted.command.id
              /\ (io.terminal \/ io.stopping) /\ cause = "stale_command"
           \/ cause # "stale_command" /\ id = io.command /\ id # 0
    PROVE  IInv'
<1> DEFINE p == Tail(ctl.posted)
           g == ctl.generation
           x == Finished(id, ok, published, cause)
           e == Append(ctl.events, x)
           d == [ctl EXCEPT !.posted = p, !.events = e]
           fin == {"finishedCommand"}
<1>1. /\ ctl \in Controllers /\ OneIsSent(ctl) /\ ReportsOK(ctl, call)
      /\ RequestsOK(ctl, call) /\ g \in Nat /\ g <= g
      /\ ctl.events \in Seq(Events) /\ io \in Ios
  <2>1. /\ ctl \in Controllers /\ OneIsSent(ctl) /\ ReportsOK(ctl, call)
        /\ RequestsOK(ctl, call) /\ io \in Ios
    BY DEF IInv, Sound, Base, ThreadsOK
  <2>2. g \in Nat /\ ctl.events \in Seq(Events)
    BY <2>1 DEF Controllers
  <2> QED
    BY <2>1, <2>2
<1>2. /\ p \in Seq(Posts) /\ Handled = [ctl EXCEPT !.posted = p]
      /\ OneSend(p) /\ Sent(p) \subseteq Sent(ctl.posted)
      /\ Posted.kind = "send" =>
           Sent(ctl.posted) = {Posted.command} /\ Sent(p) = {}
      /\ Heard(ctl) => \A i \in 1 .. Len(p) : p[i].kind \notin {"abort", "shutdown"}
    BY PostTaken
<1> HIDE DEF p
<1>3. /\ x \in Events /\ x.gen = g /\ x.kind = "finishedCommand"
      /\ x.id = id /\ x.error = cause
    BY <1>1 DEF Events, Finished
<1> HIDE DEF x
<1>4. ctl.events \o <<x>> = e
    BY <1>1, <1>3, Reported
<1>5. e \in Seq(Events) /\ \A i \in 1 .. Len(e) : e[i].gen <= g
    BY <1>1, <1>3, AppendProperties, AppendedNews DEF ReportsOK
<1>6. ctl' = d
  <2>1. ctl' = [Handled EXCEPT !.events = Handled.events \o <<x>>]
    BY DEF Signals, x
  <2>2. Handled.events = ctl.events
    BY <1>1, <1>2 DEF Controllers
  <2> HIDE DEF e
  <2> QED
    BY <1>1, <1>2, <1>4, <2>1, <2>2 DEF Controllers
<1>7. /\ \A ks \in {Asking, {"response"}} :
           /\ NewsIds(e, g, ks) = NewsIds(ctl.events, g, ks)
           /\ NewsOnce(ctl.events, g, ks) => NewsOnce(e, g, ks)
      /\ NewsIds(e, g, fin) = NewsIds(ctl.events, g, fin) \cup {id}
      /\ NewsIds(ctl.events, g, fin) = {} => NewsOnce(e, g, fin)
  <2>1. /\ \A ks \in {Asking, {"response"}} : x.kind \notin ks
        /\ x.kind \in fin
    BY <1>3 DEF Asking
  <2>2. NewsIds(ctl.events, g, fin) = {} => NewsOnce(ctl.events, g, fin)
    BY DEF NewsIds, NewsOnce
  <2>5. /\ ctl.events \in Seq(Events) /\ x \in Events /\ x.gen = g /\ x.id = id
    BY <1>1, <1>3
  <2> HIDE DEF fin, g
  <2>3. \A ks \in {Asking, {"response"}} :
          /\ NewsIds(e, g, ks) = NewsIds(ctl.events, g, ks)
          /\ NewsOnce(ctl.events, g, ks) => NewsOnce(e, g, ks)
    BY <2>1, <2>5, AppendedEvent
  <2>4. /\ NewsIds(e, g, fin) = NewsIds(ctl.events, g, fin) \cup {x.id}
        /\ NewsOnce(ctl.events, g, fin) /\ x.id \notin NewsIds(ctl.events, g, fin)
             => NewsOnce(e, g, fin)
    BY <1>3, <2>5, AppendedFinish DEF fin
  <2> QED
    BY <2>2, <2>3, <2>4, <2>5
<1>8. /\ News(ctl.events, g, {"failed"}) # {} => News(e, g, {"failed"}) # {}
      /\ StaleIsLate(ctl.events, g) /\ News(ctl.events, g, {"failed"}) # {}
           => StaleIsLate(e, g)
      /\ StaleIsLate(ctl.events, g) /\ cause # "stale_command"
           => StaleIsLate(e, g)
    BY <1>1, <1>3, AppendedNews
<1> HIDE DEF e
<1>9. Queues(d) /\ d.posted = p /\ d.events = e
    BY <1>1, <1>2, <1>5, QueuesOnly
<1> HIDE DEF d
<1>10. /\ ctl'.generation = g /\ ctl'.events = e
       /\ ctl'.posted = p /\ ctl'.outbound = ctl.outbound
       /\ ctl'.active = ctl.active /\ ctl'.serving = ctl.serving
       /\ ctl'.routes = ctl.routes /\ ctl'.latest = ctl.latest
       /\ ctl'.acknowledged = ctl.acknowledged
       /\ ctl'.lastRoute = ctl.lastRoute
    BY <1>6, <1>9 DEF Queues
<1>11. /\ io' \in Ios /\ io'.command = 0 /\ io'.pending = io.pending
       /\ io'.received = io.received /\ io'.thread = io.thread
       /\ io'.stopping = io.stopping /\ io'.terminal = io.terminal
    BY <1>1 DEF Ios
<1>12. Sent(p) = {}
    BY <1>1, <1>2 DEF OneIsSent
<1>13. ThreadsOK'
    BY <1>11 DEF IInv, ThreadsOK
<1>14. Live' <=> Live
    BY <1>11 DEF Live
<1>15. WorkerOK'
    BY <1>11, <1>14 DEF IInv, WorkerOK, AnsweredOnce
<1>16. OneIsSent(ctl)'
    BY <1>2, <1>10, <1>11 DEF OneIsSent
<1>17. \A t : SentRefs(p, t) = {}
    BY <1>12 DEF SentRefs
<1>18. RequestsOK(ctl, call)'
  <2>1. /\ Announced(ctl)' = Announced(ctl) /\ Called(ctl, call)' = Called(ctl, call)
        /\ Queued(ctl)' = Queued(ctl) /\ Sending(ctl)' = {}
    BY <1>7, <1>10, <1>17 DEF Announced, Called, Queued, Sending
  <2>2. Writing' = Writing /\ Delivered' = Delivered /\ Answered' = Answered
    BY DEF Writing, Delivered, Answered
  <2>3. NewsOnce(ctl.events, g, Asking) => NewsOnce(e, g, Asking)
    BY <1>7
  <2> QED
    BY <1>1, <1>10, <1>11, <1>14, <2>1, <2>2, <2>3 DEF RequestsOK
<1>19. ASSUME Running(ctl)
       PROVE  Heard(ctl)' /\ ActiveIsSent(ctl)' /\ RoutesOK(ctl)'
  <2>1. Heard(ctl) /\ ActiveIsSent(ctl) /\ RoutesOK(ctl)
    BY <1>19 DEF IInv, Sound, Served
  <2>2. Heard(ctl)'
    BY <1>2, <1>8, <1>10, <1>11, <2>1 DEF Heard
  <2>3. ActiveIsSent(ctl)'
    <3>1. id = ctl.active.id /\ id # 0 /\ NewsIds(ctl.events, g, fin) = {}
      BY <1>2, <2>1 DEF ActiveIsSent
    <3>2. NewsIds(e, g, fin) = {ctl.active.id} /\ NewsOnce(e, g, fin)
      BY <1>7, <3>1
    <3> QED
      BY <1>10, <1>11, <1>12, <2>1, <3>1, <3>2 DEF ActiveIsSent
  <2>4. RoutesOK(ctl)'
    <3>1. SentRefs(ctl'.posted, "RouteLoad") = {}
      BY <1>10, <1>17
    <3>2. /\ NewsIds(e, g, {"response"}) = NewsIds(ctl.events, g, {"response"})
          /\ NewsOnce(ctl.events, g, {"response"}) => NewsOnce(e, g, {"response"})
      BY <1>7
    <3> QED
      BY <1>10, <1>11, <2>1, <3>1, <3>2 DEF RoutesOK, Loaded
  <2> QED
    BY <2>2, <2>3, <2>4
<1>20. \A i \in 1 .. Len(ctl'.events) : ctl'.events[i].gen <= ctl.generation
    BY <1>5, <1>10
<1> QED
    BY <1>6, <1>9, <1>13, <1>15, <1>16, <1>18, <1>19, <1>20, ThreadStep

\* What was written is the command in hand, which is then finished.
LEMMA writeCompletesInv ==
    ASSUME IInv, UNCHANGED budget, writeCompletes
    PROVE  IInv'
<1> DEFINE cmd == Posted.command
           ok == Posted.result = "Ok"
<1>1. ctl.posted # <<>> /\ Posted.kind = "written" /\ UNCHANGED call
    BY DEF writeCompletes, Polls
<1>2. /\ Tail(ctl.posted) \in Seq(Posts) /\ Posted \in Posts
      /\ Handled = [ctl EXCEPT !.posted = Tail(ctl.posted)]
      /\ OneSend(Tail(ctl.posted))
      /\ Sent(Tail(ctl.posted)) \subseteq Sent(ctl.posted)
      /\ Heard(ctl) => \A i \in 1 .. Len(Tail(ctl.posted)) :
                          Tail(ctl.posted)[i].kind \notin {"abort", "shutdown"}
    BY <1>1, PostTaken
<1>3. \/ ctl' = Handled /\ UNCHANGED <<io, writes, Pipe>>
      \/ /\ cmd.id = io.command /\ cmd.id # 0
         /\ ctl' = Signals(Handled, <<Finished(cmd.id, TRUE, ok, "")>>)
         /\ io' = [io EXCEPT !.command = 0]
         /\ UNCHANGED <<writes, Pipe>>
      \/ /\ cmd.id = io.command /\ cmd.id # 0
         /\ ioFail(Handled, <<Finished(cmd.id, FALSE, FALSE, "send_failed")>>,
                   "send_failed")
      \/ ioFail(Handled, <<>>, "shutdown_send_failed")
    BY DEF writeCompletes
<1>4. CASE ctl' = Handled /\ UNCHANGED <<io, writes, Pipe>>
  <2>1. io \in Ios /\ writes \in Seq(Commands)
    BY DEF IInv, ThreadsOK
  <2>2. /\ UNCHANGED <<call, toWorker, toHost, worker, budget>>
        /\ writes' \in Seq(Commands) /\ Writing' = Writing
        /\ EachOnce(writes, "Response") => EachOnce(writes', "Response")
        /\ io' = io /\ (Live' => Live)
    BY <1>1, <1>4, <2>1 DEF Pipe, Writing, EachOnce, Live
  <2> QED
    BY <1>1, <1>4, <2>1, <2>2, HandledStep
<1>5. CASE /\ cmd.id = io.command /\ cmd.id # 0
           /\ ctl' = Signals(Handled, <<Finished(cmd.id, TRUE, ok, "")>>)
           /\ io' = [io EXCEPT !.command = 0]
           /\ UNCHANGED <<writes, Pipe>>
  <2>1. /\ cmd.id \in Nat /\ ok \in BOOLEAN
    BY <1>1, <1>2 DEF Posts, Commands
  <2>3. "" \in Causes /\ "" # "stale_command"
    BY DEF Causes
  <2>2. UNCHANGED <<call, writes, toWorker, toHost, worker, budget>>
    BY <1>1, <1>5 DEF Pipe
  <2> HIDE DEF cmd, ok
  <2> QED
    BY <1>1, <1>5, <2>1, <2>2, <2>3, FinishedStep
<1>6. CASE /\ cmd.id = io.command /\ cmd.id # 0
           /\ ioFail(Handled, <<Finished(cmd.id, FALSE, FALSE, "send_failed")>>,
                     "send_failed")
  <2>1. /\ ioFail([ctl EXCEPT !.posted = Tail(ctl.posted)],
                  <<Finished(io.command, FALSE, FALSE, "send_failed")>>,
                  "send_failed")
        /\ io.command # 0 /\ "send_failed" \in Causes
    BY <1>2, <1>6 DEF Causes
  <2> QED
    BY <1>1, <1>2, <2>1, IoFails
<1>7. CASE ioFail(Handled, <<>>, "shutdown_send_failed")
  <2>1. /\ ioFail([ctl EXCEPT !.posted = Tail(ctl.posted)], <<>>,
                  "shutdown_send_failed")
        /\ "shutdown_send_failed" \in Causes
    BY <1>2, <1>7 DEF Causes
  <2> QED
    BY <1>1, <1>2, <2>1, IoFails
<1> QED
    BY <1>3, <1>4, <1>5, <1>6, <1>7

\* A command goes to the writer, or is refused because it came too late.
LEMMA sendMessageInv ==
    ASSUME IInv, UNCHANGED budget, sendMessage
    PROVE  IInv'
<1> DEFINE p == Tail(ctl.posted)
           cmd == Posted.command
           d == [ctl EXCEPT !.posted = p, !.events = ctl.events]
           q == Append(writes, cmd)
           n == [io EXCEPT !.command = cmd.id,
                           !.pending = IF cmd.type = "RouteLoad"
                                         THEN io.pending \cup {cmd.ref}
                                         ELSE io.pending]
<1>1. ctl.posted # <<>> /\ Posted.kind = "send" /\ UNCHANGED call
    BY DEF sendMessage, Polls
<1>2. /\ p \in Seq(Posts) /\ Posted \in Posts
      /\ Handled = [ctl EXCEPT !.posted = p]
      /\ OneSend(p) /\ Sent(ctl.posted) = {cmd} /\ Sent(p) = {} /\ io.command = 0
      /\ Heard(ctl) => \A i \in 1 .. Len(p) : p[i].kind \notin {"abort", "shutdown"}
    BY <1>1, PostTaken
<1>3. io \in Ios /\ writes \in Seq(Commands) /\ cmd \in Commands
    BY <1>1, <1>2 DEF IInv, ThreadsOK, Posts
<1>4. \/ /\ io.terminal \/ io.stopping
         /\ ctl' = Signals(Handled, <<Finished(cmd.id, FALSE, FALSE, "stale_command")>>)
         /\ UNCHANGED <<io, writes, Pipe>>
      \/ /\ ~io.terminal /\ ~io.stopping
         /\ ctl' = Handled /\ io' = n /\ writes' = q /\ UNCHANGED Pipe
    BY <1>2 DEF sendMessage
<1>5. CASE /\ io.terminal \/ io.stopping
           /\ ctl' = Signals(Handled, <<Finished(cmd.id, FALSE, FALSE, "stale_command")>>)
           /\ UNCHANGED <<io, writes, Pipe>>
  <2>1. UNCHANGED <<call, writes, toWorker, toHost, worker, budget>>
    BY <1>1, <1>5 DEF Pipe
  <2>2. io' = [io EXCEPT !.command = 0]
    BY <1>2, <1>3, <1>5 DEF Ios
  <2>3. cmd.id \in Nat
    BY <1>3 DEF Commands
  <2> QED
    BY <1>1, <1>5, <2>1, <2>2, <2>3, FinishedStep
<1>6. CASE /\ ~io.terminal /\ ~io.stopping
           /\ ctl' = Handled /\ io' = n /\ writes' = q /\ UNCHANGED Pipe
  <2>1. /\ ctl \in Controllers /\ ReportsOK(ctl, call) /\ RequestsOK(ctl, call)
    BY DEF IInv, Sound, Base
  <2>2. ctl.events \in Seq(Events)
    BY <2>1 DEF Controllers
  <2> HIDE DEF p
  <2>3. Queues(d) /\ d.posted = p /\ d.events = ctl.events
    BY <1>2, <2>1, <2>2, QueuesOnly
  <2>4. ctl' = d
    BY <1>2, <1>6, <2>1 DEF Controllers
  <2> HIDE DEF d
  <2>5. /\ ctl'.generation = ctl.generation /\ ctl'.events = ctl.events
        /\ ctl'.posted = p /\ ctl'.outbound = ctl.outbound
        /\ ctl'.active = ctl.active /\ ctl'.serving = ctl.serving
        /\ ctl'.routes = ctl.routes /\ ctl'.latest = ctl.latest
        /\ ctl'.acknowledged = ctl.acknowledged
        /\ ctl'.lastRoute = ctl.lastRoute
    BY <2>3, <2>4 DEF Queues
  <2> HIDE DEF cmd
  <2>6. /\ n \in Ios /\ n.command = cmd.id /\ n.received = io.received
        /\ n.thread = io.thread /\ n.stopping = io.stopping
        /\ n.terminal = io.terminal
        /\ cmd.type = "RouteLoad" => n.pending = io.pending \cup {cmd.ref}
        /\ cmd.type # "RouteLoad" => n.pending = io.pending
    BY <1>3 DEF Ios, Commands
  <2> HIDE DEF n
  <2>7. /\ q \in Seq(Commands)
        /\ cmd.type # "Response" =>
             /\ Refs(q, "Response") = Refs(writes, "Response")
             /\ EachOnce(writes, "Response") => EachOnce(q, "Response")
        /\ cmd.type = "Response" =>
             /\ Refs(q, "Response") = Refs(writes, "Response") \cup {cmd.ref}
             /\ EachOnce(writes, "Response") /\ cmd.ref \notin Refs(writes, "Response")
                  => EachOnce(q, "Response")
    BY <1>3, AppendedRefs, AppendProperties
  <2> HIDE DEF q
  <2>8. \A t : /\ SentRefs(p, t) = {}
               /\ SentRefs(ctl.posted, t) = IF cmd.type = t THEN {cmd.ref} ELSE {}
    BY <1>2 DEF SentRefs
  <2>9. UNCHANGED <<call, toWorker, toHost, worker, budget>>
    BY <1>1, <1>6 DEF Pipe
  <2>10. ThreadsOK'
    BY <1>6, <2>6, <2>7, <2>9 DEF IInv, ThreadsOK
  <2>11. Live' <=> Live
    BY <1>6, <2>6 DEF Live
  <2>12. WorkerOK'
    BY <1>6, <2>6, <2>9, <2>11 DEF IInv, WorkerOK, AnsweredOnce
  <2>13. OneIsSent(ctl)'
    BY <1>2, <2>5 DEF OneIsSent
  <2>14. RequestsOK(ctl, call)'
    <3>1. /\ Announced(ctl)' = Announced(ctl)
          /\ Called(ctl, call)' = Called(ctl, call)
          /\ Queued(ctl)' = Queued(ctl) /\ Sending(ctl)' = {}
          /\ Sending(ctl) = IF cmd.type = "Response" THEN {cmd.ref} ELSE {}
      BY <2>5, <2>8, <2>9 DEF Announced, Called, Queued, Sending
    <3>2. Delivered' = Delivered /\ Answered' = Answered
      BY <2>9 DEF Delivered, Answered
    <3>3. Writing' = Refs(q, "Response") /\ Writing = Refs(writes, "Response")
      BY <1>6 DEF Writing
    <3>4. CASE cmd.type # "Response"
      <4>1. Writing' = Writing
        BY <2>7, <3>3, <3>4
      <4> QED
        BY <1>6, <2>1, <2>5, <2>6, <2>7, <2>9, <2>11, <3>1, <3>2, <3>4, <4>1
           DEF RequestsOK
    <3>5. CASE cmd.type = "Response"
      <4>1. Writing' = Writing \cup {cmd.ref}
        BY <2>7, <3>3, <3>5
      <4>2. Live => cmd.ref \notin Writing
        BY <2>1, <3>1, <3>5 DEF RequestsOK
      <4>3. Live => EachOnce(writes', "Response")
        BY <1>6, <2>1, <2>7, <3>3, <3>5, <4>2 DEF RequestsOK
      <4> QED
        BY <1>6, <2>1, <2>5, <2>6, <2>9, <2>11, <3>1, <3>2, <3>5, <4>1, <4>3
           DEF RequestsOK
    <3> QED
      BY <3>4, <3>5
  <2>15. ASSUME Running(ctl)
         PROVE  Heard(ctl)' /\ ActiveIsSent(ctl)' /\ RoutesOK(ctl)'
    <3>1. Heard(ctl) /\ ActiveIsSent(ctl) /\ RoutesOK(ctl)
      BY <2>15 DEF IInv, Sound, Served
    <3>2. Heard(ctl)'
      BY <1>2, <1>6, <2>5, <2>6, <3>1 DEF Heard
    <3>3. ActiveIsSent(ctl)'
      <4>1. /\ cmd.id = ctl.active.id /\ ctl.active.id # 0
            /\ NewsIds(ctl.events, ctl.generation, {"finishedCommand"}) = {}
        BY <1>2, <3>1 DEF ActiveIsSent
      <4>2. io'.command = ctl.active.id
        BY <1>6, <2>6, <4>1
      <4> QED
        BY <1>2, <2>5, <3>1, <4>1, <4>2 DEF ActiveIsSent
    <3>4. RoutesOK(ctl)'
      <4>1. /\ SentRefs(ctl'.posted, "RouteLoad") = {}
            /\ SentRefs(ctl.posted, "RouteLoad")
                 = IF cmd.type = "RouteLoad" THEN {cmd.ref} ELSE {}
        BY <2>5, <2>8
      <4>2. io'.pending = io.pending \cup SentRefs(ctl.posted, "RouteLoad")
        BY <1>6, <2>6, <4>1
      <4> QED
        BY <2>5, <3>1, <4>1, <4>2 DEF RoutesOK, Loaded
    <3> QED
      BY <3>2, <3>3, <3>4
  <2>16. \A i \in 1 .. Len(ctl'.events) : ctl'.events[i].gen <= ctl.generation
    BY <2>1, <2>5 DEF ReportsOK
  <2> QED
    BY <2>3, <2>4, <2>9, <2>10, <2>12, <2>13, <2>14, <2>15, <2>16, ThreadStep
<1> QED
    BY <1>4, <1>5, <1>6

\* A message is taken from the pipe and reported: a request that was not
\* received yet, or the response to a route load that is pending.
LEMMA ReceivedStep ==
    ASSUME IInv, UNCHANGED <<call, budget>>, Live, toHost # <<>>,
           NEW k \in {"request", "navigation", "response"},
           NEW answered \in {{}, {Message.id}}, NEW asked \in {{}, {Message.id}},
           received(k, answered, asked),
           k \in Asking => /\ Message.type \in {"Request", "NavigationRequest"}
                           /\ Message.id \notin io.received
                           /\ asked = {Message.id} /\ answered = {},
           k = "response" => /\ Message.id \in io.pending
                             /\ answered = {Message.id} /\ asked = {}
    PROVE  IInv'
<1> DEFINE r == Message.id
           g == ctl.generation
           x == [kind |-> k, gen |-> g, id |-> r, ok |-> Message.ok]
           e == Append(ctl.events, x)
           d == [ctl EXCEPT !.posted = ctl.posted, !.events = e]
           n == [io EXCEPT !.awaitingGui = k # "request",
                           !.pending = io.pending \ answered,
                           !.published = io.published \ answered,
                           !.received = io.received \cup asked]
<1>1. /\ ctl \in Controllers /\ OneIsSent(ctl) /\ ReportsOK(ctl, call)
      /\ RequestsOK(ctl, call) /\ io \in Ios /\ toHost \in Seq(Messages)
      /\ WorkerOK /\ writes \in Seq(Commands) /\ toWorker \in Seq(Commands)
      /\ worker \in Workers /\ budget \in Budgets
    BY DEF IInv, Sound, Base, ThreadsOK
<1>2. /\ g \in Nat /\ g <= g /\ ctl.events \in Seq(Events)
      /\ ctl.posted \in Seq(Posts)
    BY <1>1 DEF Controllers
<1>3. /\ Message \in Messages /\ Tail(toHost) \in Seq(Messages)
      /\ Message = toHost[1] /\ 1 \in 1 .. Len(toHost)
      /\ \A i \in 1 .. Len(Tail(toHost)) :
           i + 1 \in 1 .. Len(toHost) /\ Tail(toHost)[i] = toHost[i + 1]
    BY <1>1, HeadTailProperties, EmptySeq DEF Message
<1>4. r \in Nat /\ Message.ok \in BOOLEAN
    BY <1>3 DEF Messages
<1>5. /\ x \in Events /\ x.gen = g /\ x.kind = k /\ x.id = r
    BY <1>2, <1>4 DEF Events, Asking
<1>6. /\ ctl' = [ctl EXCEPT !.events = ctl.events \o <<x>>]
      /\ io' = n /\ toHost' = Tail(toHost)
      /\ UNCHANGED <<writes, toWorker, worker>>
    BY DEF received, Signals
<1> HIDE DEF x, r
<1>7. ctl.events \o <<x>> = e
    BY <1>2, <1>5, Reported
<1>8. e \in Seq(Events) /\ \A i \in 1 .. Len(e) : e[i].gen <= g
    BY <1>1, <1>2, <1>5, AppendProperties, AppendedNews DEF ReportsOK
<1>9. /\ News(ctl.events, g, {"failed"}) # {} => News(e, g, {"failed"}) # {}
      /\ StaleIsLate(ctl.events, g) => StaleIsLate(e, g)
    BY <1>2, <1>5, AppendedNews
<1>10. \A ks \in {Asking, {"response"}, {"finishedCommand"}} :
         /\ k \notin ks =>
              /\ NewsIds(e, g, ks) = NewsIds(ctl.events, g, ks)
              /\ NewsOnce(ctl.events, g, ks) => NewsOnce(e, g, ks)
         /\ k \in ks =>
              /\ NewsIds(e, g, ks) = NewsIds(ctl.events, g, ks) \cup {r}
              /\ NewsOnce(ctl.events, g, ks) /\ r \notin NewsIds(ctl.events, g, ks)
                   => NewsOnce(e, g, ks)
  <2> SUFFICES ASSUME NEW ks \in {Asking, {"response"}, {"finishedCommand"}}
               PROVE  /\ k \notin ks =>
                           /\ NewsIds(e, g, ks) = NewsIds(ctl.events, g, ks)
                           /\ NewsOnce(ctl.events, g, ks) => NewsOnce(e, g, ks)
                      /\ k \in ks =>
                           /\ NewsIds(e, g, ks) = NewsIds(ctl.events, g, ks) \cup {r}
                           /\ NewsOnce(ctl.events, g, ks)
                                /\ r \notin NewsIds(ctl.events, g, ks)
                                => NewsOnce(e, g, ks)
    OBVIOUS
  <2>1. /\ ~(x.gen = g /\ x.kind \in ks) =>
             /\ NewsIds(e, g, ks) = NewsIds(ctl.events, g, ks)
             /\ NewsOnce(ctl.events, g, ks) => NewsOnce(e, g, ks)
        /\ x.gen = g /\ x.kind \in ks =>
             /\ NewsIds(e, g, ks) = NewsIds(ctl.events, g, ks) \cup {x.id}
             /\ NewsOnce(ctl.events, g, ks) /\ x.id \notin NewsIds(ctl.events, g, ks)
                  => NewsOnce(e, g, ks)
    BY <1>2, <1>5, AppendedEvent
  <2> HIDE DEF e
  <2> QED
    BY <1>5, <2>1
<1> HIDE DEF e
<1>11. ctl' = d
    BY <1>1, <1>6, <1>7 DEF Controllers
<1>12. Queues(d) /\ d.posted = ctl.posted /\ d.events = e
    BY <1>1, <1>2, <1>8, QueuesOnly
<1> HIDE DEF d
<1>13. /\ ctl'.generation = g /\ ctl'.events = e
       /\ ctl'.posted = ctl.posted /\ ctl'.outbound = ctl.outbound
       /\ ctl'.active = ctl.active /\ ctl'.serving = ctl.serving
       /\ ctl'.routes = ctl.routes /\ ctl'.latest = ctl.latest
       /\ ctl'.acknowledged = ctl.acknowledged
       /\ ctl'.lastRoute = ctl.lastRoute
    BY <1>11, <1>12 DEF Queues
<1>14. /\ n \in Ios /\ n.command = io.command /\ n.thread = io.thread
       /\ n.stopping = io.stopping /\ n.terminal = io.terminal
       /\ n.pending = io.pending \ answered
       /\ n.received = io.received \cup asked
    BY <1>1, <1>4 DEF Ios, r
<1> HIDE DEF n
<1>15. ThreadsOK'
    BY <1>1, <1>3, <1>6, <1>14 DEF ThreadsOK
<1>16. Live'
    BY <1>6, <1>14 DEF Live
<1>17. WorkerOK'
  <2>1. AnsweredOnce'
    BY <1>1, <1>6 DEF WorkerOK, AnsweredOnce
  <2>2. /\ worker.asked \subseteq 1 .. worker.lastRequest
        /\ io.received \subseteq worker.asked
        /\ \A i \in 1 .. Len(toHost) :
             toHost[i].type \in {"Request", "NavigationRequest"} =>
               toHost[i].id \in worker.asked
    BY <1>1 DEF WorkerOK
  <2>3. asked \subseteq worker.asked
    BY <1>3, <2>2 DEF Asking
  <2>4. \A i \in 1 .. Len(toHost') :
          toHost'[i].type \in {"Request", "NavigationRequest"} =>
            toHost'[i].id \in worker.asked
    BY <1>3, <1>6, <2>2
  <2> QED
    BY <1>6, <1>14, <2>1, <2>2, <2>3, <2>4 DEF WorkerOK
<1>18. OneIsSent(ctl)'
    BY <1>1, <1>6, <1>13, <1>14 DEF OneIsSent
<1>19. /\ Called(ctl, call)' = Called(ctl, call)
       /\ Queued(ctl)' = Queued(ctl) /\ Sending(ctl)' = Sending(ctl)
       /\ Writing' = Writing /\ Delivered' = Delivered /\ Answered' = Answered
    BY <1>6, <1>13 DEF Called, Queued, Sending, Writing, Delivered, Answered
<1>20. RequestsOK(ctl, call)'
  <2>1. CASE k \notin Asking
    <3>1. /\ Announced(ctl)' = Announced(ctl)
          /\ NewsOnce(ctl.events, g, Asking) => NewsOnce(e, g, Asking)
      BY <1>10, <1>13, <2>1 DEF Announced
    <3>2. io'.received = io.received \cup asked
      BY <1>6, <1>14
    <3> QED
      BY <1>1, <1>6, <1>13, <1>19, <3>1, <3>2 DEF RequestsOK
  <2>2. CASE k \in Asking
    <3>1. /\ Announced(ctl)' = Announced(ctl) \cup {r}
          /\ NewsOnce(ctl.events, g, Asking) /\ r \notin Announced(ctl)
               => NewsOnce(e, g, Asking)
      BY <1>10, <1>13, <2>2 DEF Announced
    <3>2. io'.received = io.received \cup {r} /\ r \notin io.received
      BY <1>6, <1>14, <2>2 DEF r
    <3>3. /\ r \notin Announced(ctl) /\ r \notin Called(ctl, call)
          /\ r \notin ctl.serving /\ r \notin Queued(ctl)
          /\ r \notin Sending(ctl) /\ r \notin Writing
          /\ r \notin Delivered /\ r \notin Answered
      BY <1>1, <3>2 DEF RequestsOK
    <3> DEFINE taken == Answered \cup Delivered \cup Writing \cup Sending(ctl)
                         \cup Queued(ctl) \cup ctl.serving \cup Called(ctl, call)
    <3>4. /\ taken \cap Announced(ctl) = {} /\ r \notin taken
          /\ NewsOnce(e, g, Asking)
      BY <1>1, <3>1, <3>3 DEF RequestsOK
    <3>5. /\ (taken \cap Announced(ctl) = {})'
          /\ NewsOnce(ctl.events, ctl.generation, Asking)'
      BY <1>13, <1>19, <3>1, <3>4
    <3>6. ctl'.serving = ctl.serving /\ ctl'.outbound = ctl.outbound
      BY <1>13
    <3>7. (Announced(ctl) \cup Called(ctl, call) \cup ctl.serving \cup Queued(ctl)
             \cup Sending(ctl) \cup Writing \cup Delivered \cup Answered
           \subseteq io.received)'
      BY <1>1, <1>19, <3>1, <3>2, <3>6 DEF RequestsOK
    <3> HIDE DEF taken
    <3>8. /\ writes' = writes /\ toWorker' = toWorker
      BY <1>6
    <3>9. /\ Answered \cap Delivered = {}
          /\ (Answered \cup Delivered) \cap Writing = {}
          /\ (Answered \cup Delivered \cup Writing) \cap Sending(ctl) = {}
          /\ (Answered \cup Delivered \cup Writing \cup Sending(ctl))
               \cap Queued(ctl) = {}
          /\ (Answered \cup Delivered \cup Writing \cup Sending(ctl)
                \cup Queued(ctl)) \cap ctl.serving = {}
          /\ (Answered \cup Delivered \cup Writing \cup Sending(ctl)
                \cup Queued(ctl) \cup ctl.serving) \cap Called(ctl, call) = {}
          /\ EachOnce(ctl.outbound, "Response")
          /\ EachOnce(writes, "Response") /\ EachOnce(toWorker, "Response")
      BY <1>1 DEF RequestsOK
    <3>10. (/\ Answered \cap Delivered = {}
           /\ (Answered \cup Delivered) \cap Writing = {}
           /\ (Answered \cup Delivered \cup Writing) \cap Sending(ctl) = {}
           /\ (Answered \cup Delivered \cup Writing \cup Sending(ctl))
                \cap Queued(ctl) = {}
           /\ (Answered \cup Delivered \cup Writing \cup Sending(ctl)
                 \cup Queued(ctl)) \cap ctl.serving = {}
           /\ (Answered \cup Delivered \cup Writing \cup Sending(ctl)
                 \cup Queued(ctl) \cup ctl.serving) \cap Called(ctl, call) = {}
           /\ EachOnce(ctl.outbound, "Response")
           /\ EachOnce(writes, "Response") /\ EachOnce(toWorker, "Response"))'
      BY <1>19, <3>6, <3>8, <3>9
    <3> QED
      BY <3>5, <3>7, <3>10 DEF RequestsOK, taken
  <2> QED
    BY <2>1, <2>2
<1>21. ASSUME Running(ctl)
       PROVE  Heard(ctl)' /\ ActiveIsSent(ctl)' /\ RoutesOK(ctl)'
  <2>1. Heard(ctl) /\ ActiveIsSent(ctl) /\ RoutesOK(ctl)
    BY <1>21 DEF IInv, Sound, Served
  <2>2. Heard(ctl)'
    BY <1>6, <1>9, <1>13, <1>14, <2>1 DEF Heard
  <2>3. ActiveIsSent(ctl)'
    <3>1. /\ NewsIds(e, g, {"finishedCommand"})
               = NewsIds(ctl.events, g, {"finishedCommand"})
          /\ NewsOnce(ctl.events, g, {"finishedCommand"})
               => NewsOnce(e, g, {"finishedCommand"})
      BY <1>10
    <3> QED
      BY <1>6, <1>13, <1>14, <2>1, <3>1 DEF ActiveIsSent
  <2>4. RoutesOK(ctl)'
    <3>1. io'.pending = io.pending \ answered
      BY <1>6, <1>14
    <3>2. CASE k # "response"
      <4>1. /\ Loaded(ctl)' = Loaded(ctl)
            /\ NewsOnce(ctl.events, g, {"response"}) => NewsOnce(e, g, {"response"})
        BY <1>10, <1>13, <3>2 DEF Loaded
      <4> QED
        BY <1>13, <2>1, <3>1, <4>1 DEF RoutesOK
    <3>3. CASE k = "response"
      <4>1. /\ Loaded(ctl)' = Loaded(ctl) \cup {r}
            /\ NewsOnce(ctl.events, g, {"response"}) /\ r \notin Loaded(ctl)
                 => NewsOnce(e, g, {"response"})
        BY <1>10, <1>13, <3>3 DEF Loaded
      <4>2. r \in io.pending /\ io'.pending = io.pending \ {r}
        BY <3>1, <3>3 DEF r
      <4> QED
        BY <1>13, <2>1, <4>1, <4>2 DEF RoutesOK
    <3> QED
      BY <3>2, <3>3
  <2> QED
    BY <2>2, <2>3, <2>4
<1>22. \A i \in 1 .. Len(ctl'.events) : ctl'.events[i].gen <= ctl.generation
    BY <1>8, <1>13
<1> QED
    BY <1>11, <1>12, <1>15, <1>17, <1>18, <1>20, <1>21, <1>22, ThreadStep

\* What is received of the Worker is checked before it becomes news.
LEMMA pollSessionInv ==
    ASSUME IInv, UNCHANGED budget, pollSession
    PROVE  IInv'
<1>1. /\ UNCHANGED call /\ toHost # <<>> /\ Live
    BY DEF pollSession, Polling, IoRuns, Live
<1>2. \/ ioFail(ctl, <<>>, "duplicate_request_id")
      \/ /\ Message.type \in {"Request", "NavigationRequest"}
         /\ Message.id \notin io.received
         /\ received(IF Message.type = "Request" THEN "request" ELSE "navigation",
                     {}, {Message.id})
      \/ ioFail(ctl, <<>>, "unknown_response")
      \/ Message.id \in io.pending /\ received("response", {Message.id}, {})
      \/ io.stopping /\ finishShutdown
      \/ ioFail(ctl, <<>>, "peer_shutdown")
      \/ ioFail(ctl, <<>>, "unexpected_message")
    BY DEF pollSession
<1>3. /\ "duplicate_request_id" \in Causes /\ "unknown_response" \in Causes
      /\ "peer_shutdown" \in Causes /\ "unexpected_message" \in Causes
    BY DEF Causes
<1>4. CASE \/ ioFail(ctl, <<>>, "duplicate_request_id")
           \/ ioFail(ctl, <<>>, "unknown_response")
           \/ ioFail(ctl, <<>>, "peer_shutdown")
           \/ ioFail(ctl, <<>>, "unexpected_message")
    BY <1>1, <1>3, <1>4, IoFailsAtOnce
<1>5. CASE /\ Message.type \in {"Request", "NavigationRequest"}
           /\ Message.id \notin io.received
           /\ received(IF Message.type = "Request" THEN "request" ELSE "navigation",
                       {}, {Message.id})
  <2> DEFINE k == IF Message.type = "Request" THEN "request" ELSE "navigation"
  <2>1. k \in {"request", "navigation", "response"} /\ k # "response"
    OBVIOUS
  <2>2. received(k, {}, {Message.id})
    BY <1>5
  <2> HIDE DEF k
  <2> QED
    BY <1>1, <1>5, <2>1, <2>2, ReceivedStep
<1>6. CASE Message.id \in io.pending /\ received("response", {Message.id}, {})
  <2>1. "response" \notin Asking
    BY DEF Asking
  <2> QED
    BY <1>1, <1>6, <2>1, ReceivedStep
<1>7. CASE io.stopping /\ finishShutdown
    BY <1>1, <1>7, ShutdownEnds
<1> QED
    BY <1>2, <1>4, <1>5, <1>6, <1>7

\* Passing a gate changes only the writer's own step.
LEMMA passGateInv ==
    ASSUME IInv, UNCHANGED budget, passGate
    PROVE  IInv'
<1>1. /\ io' = [io EXCEPT !.passed = TRUE]
      /\ UNCHANGED <<ctl, call, writes, toWorker, toHost, worker, budget>>
    BY DEF passGate
<1>2. io \in Ios
    BY DEF IInv, Sound, Base, ThreadsOK
<1>3. /\ io' \in Ios /\ io'.command = io.command /\ io'.received = io.received
      /\ io'.thread = io.thread /\ io'.stopping = io.stopping
      /\ io'.terminal = io.terminal /\ io'.pending = io.pending
    BY <1>1, <1>2 DEF Ios
<1>4. Live' <=> Live
    BY <1>3 DEF Live
<1>5. ThreadsOK' /\ WorkerOK'
  <2>1. ThreadsOK'
    BY <1>1, <1>3 DEF IInv, ThreadsOK
  <2>2. WorkerOK'
    BY <1>1, <1>3, <1>4 DEF IInv, WorkerOK, AnsweredOnce
  <2> QED
    BY <2>1, <2>2
<1>6. AuthorityMatches(ctl)' /\ ReportsOK(ctl, call)' /\ OneIsSent(ctl)'
    BY <1>1, <1>3 DEF IInv, Sound, Base, AuthorityMatches, Running, ReportsOK,
       OneIsSent
<1>7. RequestsOK(ctl, call)'
  <2>1. /\ Delivered' = Delivered /\ Answered' = Answered /\ Writing' = Writing
        /\ Announced(ctl)' = Announced(ctl) /\ Called(ctl, call)' = Called(ctl, call)
        /\ Queued(ctl)' = Queued(ctl) /\ Sending(ctl)' = Sending(ctl)
    BY <1>1 DEF Delivered, Answered, Writing, Announced, Called, Queued, Sending
  <2>2. RequestsOK(ctl, call)
    BY DEF IInv, Sound, Base
  <2> QED
    BY <1>1, <1>3, <1>4, <2>1, <2>2 DEF RequestsOK
<1>8. Running(ctl)' => Served(ctl)'
  <2>1. SUFFICES ASSUME Running(ctl)
                 PROVE  Heard(ctl)' /\ ActiveIsSent(ctl)' /\ RoutesOK(ctl)'
    BY <1>1 DEF Served, Running
  <2>2. Heard(ctl) /\ ActiveIsSent(ctl) /\ RoutesOK(ctl)
    BY <2>1 DEF IInv, Sound, Served
  <2>3. Heard(ctl)'
    BY <1>1, <1>3, <2>2 DEF Heard
  <2>4. ActiveIsSent(ctl)'
    BY <1>1, <1>3, <2>2 DEF ActiveIsSent
  <2>5. RoutesOK(ctl)'
    BY <1>1, <1>3, <2>2 DEF RoutesOK, Loaded
  <2> QED
    BY <2>3, <2>4, <2>5
<1>9. ctl' \in Controllers /\ call' \in Calls
    BY <1>1 DEF IInv, Sound, Base
<1> QED
    BY <1>5, <1>6, <1>7, <1>8, <1>9 DEF IInv, Sound, Base

\* What the writer takes goes to the pipe or is dropped.
LEMMA writeNextInv ==
    ASSUME IInv, UNCHANGED budget, writeNext
    PROVE  IInv'
<1> DEFINE w == Head(writes)
           result == CASE Gated -> "Cancelled"
                       [] ~Gated /\ ~worker.open -> "PeerClosed"
                       [] OTHER -> "Ok"
           next == [io EXCEPT !.passed = FALSE]
           x == [kind |-> "written", command |-> w, result |-> result]
           p == Append(ctl.posted, x)
           d == [ctl EXCEPT !.posted = p, !.events = ctl.events]
<1>1. /\ ctl \in Controllers /\ OneIsSent(ctl) /\ ReportsOK(ctl, call)
      /\ RequestsOK(ctl, call) /\ io \in Ios /\ toHost \in Seq(Messages)
      /\ WorkerOK /\ writes \in Seq(Commands) /\ toWorker \in Seq(Commands)
      /\ worker \in Workers /\ budget \in Budgets
    BY DEF IInv, Sound, Base, ThreadsOK
<1>2. ctl.events \in Seq(Events) /\ ctl.posted \in Seq(Posts)
    BY <1>1 DEF Controllers
<1>3. /\ writes # <<>> /\ writes' = Tail(writes)
      /\ toWorker' = IF result = "Ok" THEN Append(toWorker, w) ELSE toWorker
      /\ io' = IF w.type = "RouteLoad"
                 THEN IF result = "Ok"
                        THEN [next EXCEPT !.published =
                                            next.published \cup armedBy(w)]
                        ELSE [next EXCEPT !.pending = next.pending \ {w.ref}]
                 ELSE next
      /\ ctl' = [ctl EXCEPT !.posted = p]
      /\ UNCHANGED <<call, toHost, worker>>
    BY DEF writeNext, Post
<1>4. w \in Commands /\ Tail(writes) \in Seq(Commands)
    BY <1>1, <1>3, HeadTailProperties, EmptySeq
<1>5. result \in {"Ok", "Cancelled", "PeerClosed"}
    OBVIOUS
<1> HIDE DEF result
<1>6. /\ Refs(Tail(writes), "Response") \subseteq Refs(writes, "Response")
      /\ w.type = "Response" => w.ref \in Refs(writes, "Response")
      /\ EachOnce(writes, "Response") =>
           /\ EachOnce(Tail(writes), "Response")
           /\ w.type = "Response" => w.ref \notin Refs(Tail(writes), "Response")
    BY <1>1, <1>3, TailRefs
<1> HIDE DEF w
<1>7. x \in Posts /\ x.kind # "send" /\ x.kind \notin {"abort", "shutdown"}
    BY <1>4, <1>5 DEF Posts
<1> HIDE DEF x
<1>8. /\ p \in Seq(Posts) /\ Sent(p) = Sent(ctl.posted)
      /\ OneSend(ctl.posted) => OneSend(p)
      /\ Heard(ctl) => \A i \in 1 .. Len(p) : p[i].kind \notin {"abort", "shutdown"}
    BY <1>2, <1>7, AppendedPost DEF Heard
<1> HIDE DEF p
<1>9. Queues(d) /\ d.posted = p /\ d.events = ctl.events
    BY <1>1, <1>2, <1>8, QueuesOnly
<1>10. ctl' = d
    BY <1>1, <1>3 DEF Controllers
<1> HIDE DEF d
<1>11. /\ ctl'.generation = ctl.generation /\ ctl'.events = ctl.events
       /\ ctl'.posted = p /\ ctl'.outbound = ctl.outbound
       /\ ctl'.active = ctl.active /\ ctl'.serving = ctl.serving
       /\ ctl'.routes = ctl.routes /\ ctl'.latest = ctl.latest
       /\ ctl'.acknowledged = ctl.acknowledged
       /\ ctl'.lastRoute = ctl.lastRoute
    BY <1>9, <1>10 DEF Queues
<1>12. /\ io' \in Ios /\ io'.command = io.command /\ io'.received = io.received
       /\ io'.thread = io.thread /\ io'.stopping = io.stopping
       /\ io'.terminal = io.terminal /\ io'.pending \subseteq io.pending
    BY <1>1, <1>3 DEF Ios, armedBy
<1>13. Live' <=> Live
    BY <1>12 DEF Live
<1>14. Writing' \subseteq Writing /\ Answered' = Answered
    BY <1>3, <1>6 DEF Writing, Answered
<1>15. /\ toWorker' \in Seq(Commands)
       /\ Live =>
            /\ Delivered' \subseteq Delivered \cup Writing
            /\ Delivered' \cap Writing' = {}
            /\ EachOnce(toWorker', "Response")
  <2>1. Live => /\ EachOnce(writes, "Response") /\ EachOnce(toWorker, "Response")
                /\ Delivered \cap Writing = {}
    BY <1>1 DEF RequestsOK
  <2>2. CASE toWorker' = toWorker
    BY <1>1, <1>14, <2>1, <2>2 DEF Delivered
  <2>3. CASE toWorker' = Append(toWorker, w)
    <3>1. Append(toWorker, w) \in Seq(Commands)
      BY <1>1, <1>4, AppendProperties
    <3>2. /\ w.type # "Response" =>
               /\ Refs(Append(toWorker, w), "Response") = Refs(toWorker, "Response")
               /\ EachOnce(toWorker, "Response")
                    => EachOnce(Append(toWorker, w), "Response")
          /\ w.type = "Response" =>
               /\ Refs(Append(toWorker, w), "Response")
                    = Refs(toWorker, "Response") \cup {w.ref}
               /\ EachOnce(toWorker, "Response")
                    /\ w.ref \notin Refs(toWorker, "Response")
                    => EachOnce(Append(toWorker, w), "Response")
      BY <1>1, <1>4, AppendedRefs
    <3>3. Delivered' = Refs(Append(toWorker, w), "Response")
      BY <2>3 DEF Delivered
    <3>4. Delivered = Refs(toWorker, "Response") /\ Writing = Refs(writes, "Response")
          /\ Writing' = Refs(Tail(writes), "Response")
      BY <1>3 DEF Delivered, Writing
    <3>5. CASE w.type # "Response"
      BY <1>14, <2>1, <2>3, <3>1, <3>2, <3>3, <3>4, <3>5
    <3>6. CASE w.type = "Response"
      <4>1. Delivered' = Delivered \cup {w.ref} /\ w.ref \in Writing
        BY <1>6, <3>2, <3>3, <3>4, <3>6
      <4>2. Live => w.ref \notin Writing' /\ w.ref \notin Delivered
        BY <1>6, <2>1, <3>4, <3>6, <4>1
      <4>3. Live => EachOnce(toWorker', "Response")
        BY <2>1, <2>3, <3>2, <3>4, <3>6, <4>2
      <4> QED
        BY <1>14, <2>1, <2>3, <3>1, <4>1, <4>2, <4>3
    <3> QED
      BY <3>5, <3>6
  <2> QED
    BY <1>3, <2>2, <2>3
<1>16. ThreadsOK'
    BY <1>1, <1>3, <1>4, <1>12, <1>15 DEF ThreadsOK
<1>17. WorkerOK'
    BY <1>1, <1>3, <1>12, <1>13 DEF WorkerOK, AnsweredOnce
<1>18. OneIsSent(ctl)'
    BY <1>1, <1>8, <1>11, <1>12 DEF OneIsSent
<1>19. \A t : SentRefs(p, t) = SentRefs(ctl.posted, t)
    BY <1>8 DEF SentRefs
<1>20. RequestsOK(ctl, call)'
  <2>1. /\ Announced(ctl)' = Announced(ctl) /\ Called(ctl, call)' = Called(ctl, call)
        /\ Queued(ctl)' = Queued(ctl) /\ Sending(ctl)' = Sending(ctl)
    BY <1>3, <1>11, <1>19 DEF Announced, Called, Queued, Sending
  <2>2. Live => EachOnce(writes', "Response")
    BY <1>1, <1>3, <1>6 DEF RequestsOK
  <2> QED
    BY <1>1, <1>11, <1>12, <1>13, <1>14, <1>15, <2>1, <2>2 DEF RequestsOK
<1>21. ASSUME Running(ctl)
       PROVE  Heard(ctl)' /\ ActiveIsSent(ctl)' /\ RoutesOK(ctl)'
  <2>1. Heard(ctl) /\ ActiveIsSent(ctl) /\ RoutesOK(ctl)
    BY <1>21 DEF IInv, Sound, Served
  <2>2. Heard(ctl)'
    BY <1>8, <1>11, <1>12, <2>1 DEF Heard
  <2>3. ActiveIsSent(ctl)'
    BY <1>8, <1>11, <1>12, <2>1 DEF ActiveIsSent
  <2>4. RoutesOK(ctl)'
    <3>1. SentRefs(ctl'.posted, "RouteLoad") = SentRefs(ctl.posted, "RouteLoad")
      BY <1>11, <1>19
    <3> QED
      BY <1>11, <1>12, <2>1, <3>1 DEF RoutesOK, Loaded
  <2> QED
    BY <2>2, <2>3, <2>4
<1>22. \A i \in 1 .. Len(ctl'.events) : ctl'.events[i].gen <= ctl.generation
    BY <1>1, <1>11 DEF ReportsOK
<1> QED
    BY <1>3, <1>9, <1>10, <1>16, <1>17, <1>18, <1>20, <1>21, <1>22, ThreadStep

-----------------------------------------------------------------------------
\* The Worker.

\* A step of the Worker, which only empties its pipe and answers.
LEMMA WorkerStep ==
    ASSUME IInv, UNCHANGED <<ctl, call, io, writes>>, ThreadsOK', WorkerOK',
           Live => /\ Delivered' \subseteq Delivered
                   /\ Answered' \subseteq Answered \cup Delivered
                   /\ Answered' \cap Delivered' = {}
                   /\ EachOnce(toWorker', "Response")
    PROVE  IInv'
<1>1. /\ AuthorityMatches(ctl) /\ ReportsOK(ctl, call) /\ call \in Calls
      /\ ctl \in Controllers /\ OneIsSent(ctl) /\ RequestsOK(ctl, call)
      /\ Running(ctl) => Served(ctl)
    BY DEF IInv, Sound, Base
<1>2. /\ AuthorityMatches(ctl)' /\ ReportsOK(ctl, call)' /\ OneIsSent(ctl)'
    BY <1>1 DEF AuthorityMatches, Running, ReportsOK, OneIsSent
<1>3. RequestsOK(ctl, call)'
  <2>1. /\ Announced(ctl)' = Announced(ctl) /\ Called(ctl, call)' = Called(ctl, call)
        /\ Queued(ctl)' = Queued(ctl) /\ Sending(ctl)' = Sending(ctl)
        /\ Writing' = Writing /\ (Live' <=> Live)
    BY DEF Announced, Called, Queued, Sending, Writing, Live
  <2> QED
    BY <1>1, <2>1 DEF RequestsOK
<1>4. (Running(ctl) => Served(ctl))'
    BY <1>1 DEF Running, Served, Heard, ActiveIsSent, RoutesOK, Loaded
<1> QED
    BY <1>1, <1>2, <1>3, <1>4 DEF IInv, Sound, Base

\* It sends something, and what it asks it has noted.
LEMMA WorkerSendsStep ==
    ASSUME IInv, UNCHANGED <<ctl, call, io, writes, toWorker, budget>>,
           worker' \in Workers, worker'.answers = worker.answers,
           worker.asked \subseteq worker'.asked,
           worker'.asked \subseteq 1 .. worker'.lastRequest,
           \/ toHost' = toHost
           \/ \E t \in {"Request", "NavigationRequest", "Response", "Shutdown",
                        "HandshakeAck"}, r \in Nat, ok \in BOOLEAN :
                /\ Send(t, r, ok)
                /\ t \in {"Request", "NavigationRequest"} => r \in worker'.asked
    PROVE  IInv'
<1>1. /\ ThreadsOK /\ WorkerOK /\ toHost \in Seq(Messages)
      /\ toWorker \in Seq(Commands) /\ RequestsOK(ctl, call)
    BY DEF IInv, ThreadsOK, Sound, Base
<1>2. /\ toHost' \in Seq(Messages)
      /\ \A i \in 1 .. Len(toHost') :
           \/ i \in 1 .. Len(toHost) /\ toHost'[i] = toHost[i]
           \/ toHost'[i].type \in {"Request", "NavigationRequest"} =>
                toHost'[i].id \in worker'.asked
  <2>1. CASE toHost' = toHost
    BY <1>1, <2>1
  <2>2. CASE toHost' # toHost
    <3>1. PICK t \in {"Request", "NavigationRequest", "Response", "Shutdown",
                      "HandshakeAck"}, r \in Nat, ok \in BOOLEAN :
            /\ Send(t, r, ok)
            /\ t \in {"Request", "NavigationRequest"} => r \in worker'.asked
      BY <2>2
    <3> DEFINE m == [type |-> t, id |-> r, ok |-> ok]
    <3>2. m \in Messages /\ m.type = t /\ m.id = r /\ toHost' = Append(toHost, m)
      BY <3>1 DEF Messages, Send
    <3> HIDE DEF m
    <3>3. /\ toHost' \in Seq(Messages) /\ Len(toHost') = Len(toHost) + 1
          /\ \A i \in 1 .. Len(toHost) : toHost'[i] = toHost[i]
          /\ toHost'[Len(toHost) + 1] = m /\ Len(toHost) \in Nat
      BY <1>1, <3>2, AppendProperties
    <3>4. \A i \in 1 .. Len(toHost') : i \in 1 .. Len(toHost) \/ i = Len(toHost) + 1
      BY <3>3
    <3> QED
      BY <3>1, <3>2, <3>3, <3>4
  <2> QED
    BY <2>1, <2>2
<1>3. ThreadsOK'
    BY <1>1, <1>2 DEF ThreadsOK
<1>4. Live' <=> Live
    BY DEF Live
<1>5. AnsweredOnce'
  <2> SUFFICES ASSUME NEW r \in 1 .. MaxRequests
               PROVE  worker'.answers[r] <= (IF r \in worker'.asked THEN 1 ELSE 0)
    BY DEF AnsweredOnce
  <2>1. worker.answers[r] <= (IF r \in worker.asked THEN 1 ELSE 0)
    BY <1>1 DEF WorkerOK, AnsweredOnce
  <2>2. worker.answers[r] \in Nat
    BY <1>1 DEF ThreadsOK, Workers
  <2>3. worker'.answers[r] = worker.answers[r]
    OBVIOUS
  <2> QED
    BY <2>1, <2>2, <2>3
<1>6. WorkerOK'
  <2>1. ASSUME Live'
        PROVE  /\ io'.received \subseteq worker'.asked
               /\ \A i \in 1 .. Len(toHost') :
                    toHost'[i].type \in {"Request", "NavigationRequest"} =>
                      toHost'[i].id \in worker'.asked
    BY <1>1, <1>2, <1>4, <2>1 DEF WorkerOK
  <2> QED
    BY <1>5, <2>1 DEF WorkerOK
<1>7. Live => /\ Delivered' \subseteq Delivered
              /\ Answered' \subseteq Answered \cup Delivered
              /\ Answered' \cap Delivered' = {}
              /\ EachOnce(toWorker', "Response")
    BY <1>1 DEF Delivered, Answered, RequestsOK
<1> QED
    BY <1>3, <1>6, <1>7, WorkerStep

\* A Worker that closes its pipe.
LEMMA workerClosesInv ==
    ASSUME IInv, UNCHANGED budget, workerCloses
    PROVE  IInv'
<1> DEFINE v == [worker EXCEPT !.open = FALSE]
<1>1. worker \in Workers /\ worker.asked \subseteq 1 .. worker.lastRequest
    BY DEF IInv, ThreadsOK, WorkerOK
<1>2. /\ worker' = v
      /\ UNCHANGED <<ctl, call, io, writes, toWorker, toHost>>
    BY DEF workerCloses
<1>3. /\ v \in Workers /\ v.answers = worker.answers /\ v.asked = worker.asked
      /\ v.lastRequest = worker.lastRequest
    BY <1>1 DEF Workers
<1> HIDE DEF v
<1> QED
    BY <1>1, <1>2, <1>3, WorkerSendsStep

\* A Worker that sends what it should not.
LEMMA workerMisbehavesInv ==
    ASSUME IInv, UNCHANGED budget, workerMisbehaves
    PROVE  IInv'
<1> DEFINE v == [worker EXCEPT !.honest = FALSE]
<1>1. /\ worker \in Workers /\ worker.asked \subseteq 1 .. worker.lastRequest
      /\ io \in Ios
    BY DEF IInv, ThreadsOK, WorkerOK
<1>2. /\ worker' = v
      /\ UNCHANGED <<ctl, call, io, writes, toWorker>>
      /\ \/ \E r \in io.pending : Send("Response", r, TRUE)
         \/ \E r \in io.pending \cup {0} : Send("Response", r, FALSE)
         \/ \E r \in worker.asked : Send("Request", r, TRUE)
         \/ Send("Shutdown", 0, TRUE)
         \/ Send("HandshakeAck", 0, TRUE)
    BY DEF workerMisbehaves
<1>3. /\ v \in Workers /\ v.answers = worker.answers /\ v.asked = worker.asked
      /\ v.lastRequest = worker.lastRequest
    BY <1>1 DEF Workers
<1> HIDE DEF v
<1>4. io.pending \subseteq Nat /\ worker.asked \subseteq Nat
    BY <1>1 DEF Ios, Workers
<1>5. \E t \in {"Request", "NavigationRequest", "Response", "Shutdown",
                "HandshakeAck"}, r \in Nat, ok \in BOOLEAN :
        /\ Send(t, r, ok)
        /\ t \in {"Request", "NavigationRequest"} => r \in worker'.asked
    BY <1>2, <1>3, <1>4
<1> QED
    BY <1>1, <1>2, <1>3, <1>5, WorkerSendsStep

\* It asks what it has not asked yet.
LEMMA AskedOnce ==
    ASSUME IInv, NextRequest <= budget.requests
    PROVE  /\ Asked \in Workers /\ NextRequest \in 1 .. MaxRequests
           /\ Asked.answers = worker.answers /\ worker.asked \subseteq Asked.asked
           /\ Asked.asked \subseteq 1 .. Asked.lastRequest
           /\ NextRequest \in Asked.asked
<1>1. /\ worker \in Workers /\ worker.asked \subseteq 1 .. worker.lastRequest
      /\ budget \in Budgets
    BY DEF IInv, ThreadsOK, WorkerOK
<1>2. budget.requests \in 0 .. MaxRequests /\ MaxRequests \in Nat
    BY <1>1, SessionAssumption
<1>3. worker.lastRequest \in 0 .. MaxRequests
    BY <1>1 DEF Workers
<1>4. NextRequest = worker.lastRequest + 1
    BY DEF NextRequest
<1>5. NextRequest \in 1 .. MaxRequests /\ NextRequest \in 0 .. MaxRequests
    BY <1>2, <1>3, <1>4
<1>6. /\ Asked.answers = worker.answers
      /\ Asked.asked = worker.asked \cup {NextRequest}
      /\ Asked.lastRequest = NextRequest
      /\ Asked \in Workers
    BY <1>1, <1>5 DEF Asked, Workers
<1>7. Asked.asked \subseteq 1 .. Asked.lastRequest
    BY <1>1, <1>2, <1>3, <1>4, <1>6
<1> QED
    BY <1>5, <1>6, <1>7

\* A Worker asks with an id of its own,
LEMMA sendCapabilityRequestInv ==
    ASSUME IInv, UNCHANGED budget, sendCapabilityRequest
    PROVE  IInv'
<1>1. /\ NextRequest <= budget.requests /\ worker' = Asked
      /\ Send("Request", NextRequest, TRUE)
      /\ UNCHANGED <<ctl, call, io, writes, toWorker>>
    BY DEF sendCapabilityRequest
<1>2. /\ Asked \in Workers /\ NextRequest \in 1 .. MaxRequests
      /\ Asked.answers = worker.answers /\ worker.asked \subseteq Asked.asked
      /\ Asked.asked \subseteq 1 .. Asked.lastRequest
      /\ NextRequest \in Asked.asked
    BY <1>1, AskedOnce
<1>3. NextRequest \in Nat
    BY <1>2
<1> HIDE DEF Asked, NextRequest
<1>4. \E t \in {"Request", "NavigationRequest", "Response", "Shutdown",
                "HandshakeAck"}, r \in Nat, ok \in BOOLEAN :
        /\ Send(t, r, ok)
        /\ t \in {"Request", "NavigationRequest"} => r \in worker'.asked
    BY <1>1, <1>2, <1>3
<1> QED
    BY <1>1, <1>2, <1>4, WorkerSendsStep

\* of either kind.
LEMMA sendNavigationRequestInv ==
    ASSUME IInv, UNCHANGED budget, sendNavigationRequest
    PROVE  IInv'
<1> DEFINE v == [Asked EXCEPT !.navigating = NextRequest]
<1>1. /\ NextRequest <= budget.requests /\ worker' = v
      /\ Send("NavigationRequest", NextRequest, TRUE)
      /\ UNCHANGED <<ctl, call, io, writes, toWorker>>
    BY DEF sendNavigationRequest
<1>2. /\ Asked \in Workers /\ NextRequest \in 1 .. MaxRequests
      /\ Asked.answers = worker.answers /\ worker.asked \subseteq Asked.asked
      /\ Asked.asked \subseteq 1 .. Asked.lastRequest
      /\ NextRequest \in Asked.asked
    BY <1>1, AskedOnce
<1>3. NextRequest \in Nat
    BY <1>2
<1>4. /\ v \in Workers /\ v.answers = worker.answers
      /\ v.asked = Asked.asked /\ v.lastRequest = Asked.lastRequest
    BY <1>2, <1>3 DEF Workers
<1> HIDE DEF v
<1>5. \E t \in {"Request", "NavigationRequest", "Response", "Shutdown",
                "HandshakeAck"}, r \in Nat, ok \in BOOLEAN :
        /\ Send(t, r, ok)
        /\ t \in {"Request", "NavigationRequest"} => r \in worker'.asked
    BY <1>1, <1>2, <1>3, <1>4
<1> QED
    BY <1>1, <1>2, <1>4, <1>5, WorkerSendsStep

\* The answer to a request reaches the Worker, which asked for it and has none
\* yet.
LEMMA AnswerArrives ==
    ASSUME IInv, UNCHANGED <<ctl, call, io, writes, toHost, budget>>, Live,
           toWorker # <<>>, toWorker' = Tail(toWorker),
           NEW m, m = Head(toWorker), m.type = "Response",
           worker' = [worker EXCEPT
                        !.answers[m.ref] = worker.answers[m.ref] + 1,
                        !.navigating = IF worker.navigating = m.ref
                                         THEN 0 ELSE worker.navigating]
    PROVE  IInv'
<1>1. /\ toWorker \in Seq(Commands) /\ RequestsOK(ctl, call) /\ WorkerOK
      /\ worker \in Workers /\ ThreadsOK
    BY DEF IInv, Sound, Base, ThreadsOK
<1>2. /\ Refs(Tail(toWorker), "Response") \subseteq Refs(toWorker, "Response")
      /\ m.ref \in Refs(toWorker, "Response")
      /\ EachOnce(toWorker, "Response") =>
           /\ EachOnce(Tail(toWorker), "Response")
           /\ m.ref \notin Refs(Tail(toWorker), "Response")
    BY <1>1, TailRefs
<1>3. Tail(toWorker) \in Seq(Commands)
    BY <1>1, HeadTailProperties, EmptySeq
<1>4. /\ m.ref \in Delivered /\ m.ref \notin Answered /\ m.ref \in worker.asked
      /\ Delivered' \subseteq Delivered /\ m.ref \notin Delivered'
      /\ EachOnce(toWorker', "Response") /\ Answered \cap Delivered = {}
    BY <1>1, <1>2 DEF RequestsOK, WorkerOK, Delivered
<1>5. m.ref \in 1 .. MaxRequests
    BY <1>1, <1>4 DEF Workers
<1>6. /\ worker.answers \in [1 .. MaxRequests -> Nat]
      /\ worker.answers[m.ref] = 0
    BY <1>1, <1>4, <1>5 DEF Workers, Answered
<1>7. worker'.answers = [worker.answers EXCEPT ![m.ref] = 1]
    BY <1>1, <1>6 DEF Workers
<1>8. /\ worker'.asked = worker.asked /\ worker'.lastRequest = worker.lastRequest
    BY <1>1 DEF Workers
<1>9. /\ worker'.answers[m.ref] = 1
      /\ \A r \in 1 .. MaxRequests :
           r # m.ref => worker'.answers[r] = worker.answers[r]
  <2> DEFINE a == [worker.answers EXCEPT ![m.ref] = 1]
  <2>1. a[m.ref] = 1
    BY <1>5, <1>6
  <2>2. ASSUME NEW r \in 1 .. MaxRequests, r # m.ref
        PROVE  a[r] = worker.answers[r]
    BY <1>5, <1>6, <2>2
  <2>3. worker'.answers = a
    BY <1>7
  <2> HIDE DEF a
  <2> QED
    BY <2>1, <2>2, <2>3
<1>10. worker' \in Workers
  <2> DEFINE a == [worker.answers EXCEPT ![m.ref] = 1]
             n == IF worker.navigating = m.ref THEN 0 ELSE worker.navigating
  <2>1. a \in [1 .. MaxRequests -> Nat]
    BY <1>5, <1>6
  <2>2. n \in Nat
    BY <1>1 DEF Workers
  <2>3. worker' = [worker EXCEPT !.answers = a, !.navigating = n]
    BY <1>6
  <2> HIDE DEF a, n
  <2> QED
    BY <1>1, <2>1, <2>2, <2>3 DEF Workers
<1>11. ThreadsOK'
    BY <1>1, <1>3, <1>10 DEF ThreadsOK
<1>12. Answered' = Answered \cup {m.ref}
    BY <1>5, <1>9 DEF Answered
<1>13. WorkerOK'
  <2>1. AnsweredOnce'
    <3> SUFFICES ASSUME NEW r \in 1 .. MaxRequests
                 PROVE  worker'.answers[r] <= (IF r \in worker'.asked THEN 1 ELSE 0)
      BY DEF AnsweredOnce
    <3>1. CASE r = m.ref
      BY <1>4, <1>8, <1>9, <3>1
    <3>2. CASE r # m.ref
      BY <1>1, <1>8, <1>9, <3>2 DEF WorkerOK, AnsweredOnce
    <3> QED
      BY <3>1, <3>2
  <2>2. Live' <=> Live
    BY DEF Live
  <2> QED
    BY <1>1, <1>8, <2>1, <2>2 DEF WorkerOK
<1> QED
    BY <1>4, <1>11, <1>12, <1>13, WorkerStep

\* A Worker handles the message at the head of its pipe.
LEMMA handleMessageInv ==
    ASSUME IInv, UNCHANGED budget, handleMessage
    PROVE  IInv'
<1> DEFINE m == Head(toWorker)
<1>1. /\ Live /\ toWorker # <<>> /\ toWorker' = Tail(toWorker)
      /\ UNCHANGED <<ctl, call, io, writes>>
    BY DEF handleMessage, Connected, IoRuns, Live
<1>2. /\ toWorker \in Seq(Commands) /\ RequestsOK(ctl, call) /\ WorkerOK
      /\ worker \in Workers /\ ThreadsOK
    BY DEF IInv, Sound, Base, ThreadsOK
<1>3. m \in Commands /\ Tail(toWorker) \in Seq(Commands)
    BY <1>1, <1>2, HeadTailProperties, EmptySeq
<1> HIDE DEF m
<1>4. CASE m.type = "Response"
  <2>1. /\ worker' = [worker EXCEPT
                        !.answers[m.ref] = worker.answers[m.ref] + 1,
                        !.navigating = IF worker.navigating = m.ref
                                         THEN 0 ELSE worker.navigating]
        /\ UNCHANGED toHost
    BY <1>4, <1>2 DEF handleMessage, m, Workers
  <2>2. m = Head(toWorker)
    BY DEF m
  <2> QED
    BY <1>1, <1>4, <2>1, <2>2, AnswerArrives
<1>5. CASE m.type # "Response"
  <2>1. \/ worker' = [worker EXCEPT !.route = m.ref] /\ Send("Response", m.ref, TRUE)
        \/ worker' = [worker EXCEPT !.open = FALSE] /\ Send("Shutdown", 0, TRUE)
        \/ UNCHANGED <<worker, toHost>>
    BY <1>5 DEF handleMessage, m
  <2>2. m.ref \in Nat
    BY <1>3 DEF Commands
  <2>3. /\ worker' \in Workers /\ worker'.answers = worker.answers
        /\ worker'.asked = worker.asked
        /\ worker'.lastRequest = worker.lastRequest
    BY <1>2, <2>1, <2>2 DEF Workers
  <2>4. \/ toHost' = toHost
        \/ \E t \in {"Response", "Shutdown"}, r \in Nat :
             toHost' = Append(toHost, [type |-> t, id |-> r, ok |-> TRUE])
    BY <2>1, <2>2 DEF Send
  <2>5. /\ toHost' \in Seq(Messages)
        /\ \A i \in 1 .. Len(toHost') :
             \/ i \in 1 .. Len(toHost) /\ toHost'[i] = toHost[i]
             \/ toHost'[i].type \notin {"Request", "NavigationRequest"}
    <3>1. toHost \in Seq(Messages)
      BY <1>2 DEF ThreadsOK
    <3>2. CASE toHost' = toHost
      BY <3>1, <3>2
    <3>3. CASE toHost' # toHost
      <4>1. PICK t \in {"Response", "Shutdown"}, r \in Nat :
              toHost' = Append(toHost, [type |-> t, id |-> r, ok |-> TRUE])
        BY <2>4, <3>3
      <4> DEFINE x == [type |-> t, id |-> r, ok |-> TRUE]
      <4>2. x \in Messages /\ x.type = t /\ toHost' = Append(toHost, x)
        BY <4>1 DEF Messages
      <4> HIDE DEF x
      <4>3. /\ toHost' \in Seq(Messages) /\ Len(toHost') = Len(toHost) + 1
            /\ \A i \in 1 .. Len(toHost) : toHost'[i] = toHost[i]
            /\ toHost'[Len(toHost) + 1] = x /\ Len(toHost) \in Nat
        BY <3>1, <4>2, AppendProperties
      <4>4. \A i \in 1 .. Len(toHost') : i \in 1 .. Len(toHost) \/ i = Len(toHost) + 1
        BY <4>3
      <4> QED
        BY <4>2, <4>3, <4>4
    <3> QED
      BY <3>2, <3>3
  <2>6. ThreadsOK'
    BY <1>1, <1>2, <1>3, <2>3, <2>5 DEF ThreadsOK
  <2>7. WorkerOK'
    <3>1. AnsweredOnce' /\ (Live' <=> Live)
      BY <1>1, <1>2, <2>3 DEF WorkerOK, AnsweredOnce, Live
    <3>2. worker'.asked \subseteq 1 .. worker'.lastRequest
      BY <1>2, <2>3 DEF WorkerOK
    <3>3. /\ io'.received \subseteq worker'.asked
          /\ \A i \in 1 .. Len(toHost') :
               toHost'[i].type \in {"Request", "NavigationRequest"} =>
                 toHost'[i].id \in worker'.asked
      BY <1>1, <1>2, <2>3, <2>5 DEF WorkerOK
    <3> QED
      BY <3>1, <3>2, <3>3 DEF WorkerOK
  <2>8. /\ Delivered' \subseteq Delivered /\ Answered' = Answered
        /\ Answered \cap Delivered = {} /\ EachOnce(toWorker', "Response")
    <3>1. EachOnce(toWorker, "Response") /\ Answered \cap Delivered = {}
      BY <1>1, <1>2 DEF RequestsOK
    <3>2. /\ Refs(Tail(toWorker), "Response") \subseteq Refs(toWorker, "Response")
          /\ EachOnce(Tail(toWorker), "Response")
      BY <1>1, <1>2, <3>1, TailRefs
    <3> QED
      BY <1>1, <2>3, <3>1, <3>2 DEF Delivered, Answered
  <2> QED
    BY <1>1, <2>6, <2>7, <2>8, WorkerStep
<1> QED
    BY <1>4, <1>5
-----------------------------------------------------------------------------
\* The invariant, and the two theorems it gives.

\* Every step keeps the invariant.
LEMMA NextInv ==
    ASSUME IInv, Next
    PROVE  IInv'
<1>1. UNCHANGED budget
    BY DEF Next
<1>2. CASE Usual
  <2>1. CASE Client
    BY <1>1, <2>1, attachInv, shutdownInv, requestRouteLoadInv DEF Client
  <2>2. CASE GuiEvent
    BY <1>1, <2>2, ignoreEventInv, handleNavigationRequestInv,
       handleRouteLoadResponseInv, handleCapabilityRequestInv, failLaterInv,
       handleCommandFinishedInv, sessionFailedInv, shutdownFinishedInv,
       handleIoThreadFinishedInv DEF GuiEvent
  <2>3. CASE GuiReturn
    BY <1>1, <2>3, navigateDeniesInv, navigateSucceedsInv,
       routeLoadAcknowledgedInv, capabilityRequestObservedInv,
       capabilityResponseSentInv DEF GuiReturn
  <2>4. CASE \E r \in ctl.serving : submitCapabilityCompletion(r)
    BY <1>1, <2>4, submitCapabilityCompletionInv
  <2>5. CASE IoEvent
    BY <1>1, <2>5, sendMessageInv, resumePollingInv, beginShutdownInv,
       abortInv, writeCompletesInv DEF IoEvent
  <2>6. CASE Poll
    BY <1>1, <2>6, pollSessionInv, peerClosedInv DEF Poll
  <2>7. CASE passGate \/ writeNext
    BY <1>1, <2>7, passGateInv, writeNextInv
  <2>8. CASE handleMessage
    BY <1>1, <2>8, handleMessageInv
  <2>9. CASE WorkerSends
    BY <1>1, <2>9, sendCapabilityRequestInv, sendNavigationRequestInv
       DEF WorkerSends
  <2> QED
    BY <1>2, <2>1, <2>2, <2>3, <2>4, <2>5, <2>6, <2>7, <2>8, <2>9 DEF Usual
<1>3. CASE Deadline
    BY <1>1, <1>3, routeLoadTimesOutInv, sendDeadlineInv, shutdownDeadlineInv
       DEF Deadline
<1>4. CASE Incident
  <2>1. CASE attach(FALSE, TRUE) \/ attach(TRUE, FALSE)
    BY <1>1, <2>1, attachInv
  <2>2. CASE handleIoThreadFinished(FALSE)
    BY <1>1, <2>2, handleIoThreadFinishedInv
  <2>3. CASE \E binding \in BOOLEAN : replace(binding)
    BY <1>1, <2>3, replaceInv
  <2>4. CASE sendVisibilityChanged \/ unbindCapabilityRuntime \/ beginRevoke
    BY <1>1, <2>4, sendVisibilityChangedInv, unbindCapabilityRuntimeInv,
       beginRevokeInv
  <2>5. CASE navigateThrows \/ workerCloses \/ workerMisbehaves
    BY <1>1, <2>5, navigateThrowsInv, workerClosesInv, workerMisbehavesInv
  <2> QED
    BY <1>4, <2>1, <2>2, <2>3, <2>4, <2>5 DEF Incident
<1> QED
    BY <1>2, <1>3, <1>4 DEF Next

\* A step of other components disturbs nothing.
LEMMA StutterInv ==
    ASSUME IInv, UNCHANGED vars
    PROVE  IInv'
<1>1. UNCHANGED <<ctl, call, io, writes, toWorker, toHost, worker, budget>>
    BY DEF vars, system
<1>2. Live' <=> Live
    BY <1>1 DEF Live
<1>3. ThreadsOK'
    BY <1>1 DEF IInv, ThreadsOK
<1>4. WorkerOK'
    BY <1>1, <1>2 DEF IInv, WorkerOK, AnsweredOnce
<1>5. /\ Delivered' = Delivered /\ Answered' = Answered
    BY <1>1 DEF Delivered, Answered
<1> QED
    BY <1>1, <1>3, <1>4, <1>5, WorkerStep DEF IInv, Sound, Base, RequestsOK

\* The inductive invariant of the session.
THEOREM SessionInvariant == Spec => []IInv
<1>1. Init => IInv
    BY InitInv
<1>2. IInv /\ [Next]_vars => IInv'
    BY NextInv, StutterInv
<1> QED
    BY <1>1, <1>2, PTL DEF Spec

\* GUI thread, IO thread and Worker agree on what was asked and answered: none
\* of the checks the threads make of each other ever fails, and a Worker reads
\* at most one answer to a request, and only to one it made.
THEOREM SessionIsSound == Spec => []SessionIsConsistent
<1>1. IInv => SessionIsConsistent
  <2> SUFFICES ASSUME IInv
               PROVE  SessionIsConsistent
    OBVIOUS
  <2>1. ctl.error \in Causes
    BY DEF IInv, Sound, Base, Controllers
  <2>2. ThreadsAgree
    BY <2>1 DEF ThreadsAgree, Causes
  <2>3. AnsweredOnce
    BY DEF IInv, WorkerOK
  <2> QED
    BY <2>2, <2>3 DEF SessionIsConsistent
<1> QED
    BY <1>1, SessionInvariant, PTL

\* Only the writer's thread puts anything into the pipe to the Worker.
LEMMA OnlyTheWriterWrites ==
    ASSUME Next, ~writeNext
    PROVE  \/ toWorker' = toWorker
           \/ toWorker # <<>> /\ toWorker' = Tail(toWorker)
           \/ toWorker' = <<>>
<1>1. ASSUME NEW c, NEW binding, NEW binds, NEW code,
             startSession(c, binding, binds, code)
      PROVE  toWorker' = toWorker \/ toWorker' = <<>>
    BY <1>1 DEF startSession
<1>2. ASSUME NEW thread, Close(thread)
      PROVE  toWorker' = <<>>
    BY <1>2 DEF Close
<1>3. CASE Usual
  <2>1. CASE Client
    BY <1>1, <2>1 DEF Client, attach, shutdown, requestRouteLoad, GuiOnly
  <2>2. CASE GuiEvent
    BY <1>1, <2>2 DEF GuiEvent, ignoreEvent, handleNavigationRequest,
       handleRouteLoadResponse, handleCapabilityRequest, failLater,
       handleCommandFinished, sessionFailed, shutdownFinished,
       handleIoThreadFinished, GuiOnly, Enter
  <2>3. CASE GuiReturn
    BY <2>3 DEF GuiReturn, navigateDenies, navigateSucceeds,
       routeLoadAcknowledged, capabilityRequestObserved,
       capabilityResponseSent, Return
  <2>4. CASE \E r \in ctl.serving : submitCapabilityCompletion(r)
    BY <2>4 DEF submitCapabilityCompletion, GuiOnly
  <2>5. CASE IoEvent
    BY <1>2, <2>5 DEF IoEvent, sendMessage, resumePolling, beginShutdown,
       abort, writeCompletes, ioFail, Terminate, finishShutdown, Pipe
  <2>6. CASE Poll
    BY <1>2, <2>6 DEF Poll, pollSession, peerClosed, received, ioFail,
       Terminate, finishShutdown, Pipe
  <2>7. CASE handleMessage
    BY <2>7 DEF handleMessage
  <2>8. CASE WorkerSends
    BY <2>8 DEF WorkerSends, sendCapabilityRequest, sendNavigationRequest
  <2>9. CASE passGate
    BY <2>9 DEF passGate
  <2> QED
    BY <1>3, <2>1, <2>2, <2>3, <2>4, <2>5, <2>6, <2>7, <2>8, <2>9 DEF Usual
<1>4. CASE Deadline
    BY <1>2, <1>4 DEF Deadline, routeLoadTimesOut, sendDeadline,
       shutdownDeadline, ioFail, Terminate, finishShutdown
<1>5. CASE Incident
  <2>1. CASE attach(FALSE, TRUE) \/ attach(TRUE, FALSE)
    BY <1>1, <2>1 DEF attach
  <2>2. CASE handleIoThreadFinished(FALSE)
    BY <1>1, <2>2 DEF handleIoThreadFinished
  <2>3. CASE \E binding \in BOOLEAN : replace(binding)
    BY <2>3 DEF replace, GuiOnly
  <2>4. CASE sendVisibilityChanged \/ unbindCapabilityRuntime
    BY <2>4 DEF sendVisibilityChanged, unbindCapabilityRuntime, GuiOnly
  <2>5. CASE beginRevoke
    BY <2>5 DEF beginRevoke, GuiOnly
  <2>6. CASE navigateThrows
    BY <2>6 DEF navigateThrows, Enter
  <2>7. CASE workerCloses \/ workerMisbehaves
    BY <2>7 DEF workerCloses, workerMisbehaves
  <2> QED
    BY <1>5, <2>1, <2>2, <2>3, <2>4, <2>5, <2>6, <2>7 DEF Incident
<1> QED
    BY <1>3, <1>4, <1>5 DEF Next

\* What is new in the pipe to the Worker is what the writer took last.
LEMMA WrittenByTheWriter ==
    ASSUME IInv, Next, NEW w \in ToSet(toWorker'), w \notin ToSet(toWorker)
    PROVE  writeNext /\ writes # <<>> /\ w = Head(writes)
<1>1. /\ toWorker \in Seq(Commands) /\ writes \in Seq(Commands)
      /\ AuthorityMatches(ctl)
  BY DEF IInv, ThreadsOK, Sound, Base
<1>2. toWorker' # toWorker
  OBVIOUS
<1>3. ~(toWorker' = Tail(toWorker) /\ toWorker # <<>>)
  <2>1. SUFFICES ASSUME toWorker' = Tail(toWorker), toWorker # <<>>
                 PROVE  FALSE
    OBVIOUS
  <2>2. /\ Len(toWorker) \in Nat \ {0} /\ DOMAIN toWorker = 1 .. Len(toWorker)
        /\ DOMAIN Tail(toWorker) = 1 .. Len(toWorker) - 1
        /\ \A i \in 1 .. Len(toWorker) - 1 : Tail(toWorker)[i] = toWorker[i + 1]
    BY <1>1, <2>1, HeadTailProperties, EmptySeq
  <2>3. PICK i \in 1 .. Len(toWorker) - 1 : w = Tail(toWorker)[i]
    BY <2>1, <2>2 DEF ToSet
  <2>4. i + 1 \in DOMAIN toWorker /\ w = toWorker[i + 1]
    BY <2>2, <2>3
  <2> QED
    BY <2>4 DEF ToSet
<1>4. toWorker' # <<>>
  BY DEF ToSet
<1>5. writeNext
  BY <1>1, <1>2, <1>3, <1>4, OnlyTheWriterWrites DEF vars, system
<1>6. /\ writes # <<>> /\ toWorker' = Append(toWorker, Head(writes))
  BY <1>2, <1>5 DEF writeNext
<1>7. w = Head(writes)
  <2>1. Head(writes) \in Commands
    BY <1>1, <1>6, HeadTailProperties, EmptySeq
  <2>2. /\ Len(toWorker) \in Nat /\ DOMAIN toWorker = 1 .. Len(toWorker)
        /\ DOMAIN toWorker' = 1 .. Len(toWorker) + 1
        /\ \A i \in 1 .. Len(toWorker) : toWorker'[i] = toWorker[i]
        /\ toWorker'[Len(toWorker) + 1] = Head(writes)
    BY <1>1, <1>6, <2>1, AppendProperties
  <2>3. PICK i \in 1 .. Len(toWorker) + 1 : w = toWorker'[i]
    BY <2>2 DEF ToSet
  <2>4. i \notin 1 .. Len(toWorker)
    BY <2>2, <2>3 DEF ToSet
  <2> QED
    BY <2>2, <2>3, <2>4
<1> QED
  BY <1>5, <1>6, <1>7

\* Only the writer's thread passes a gate.
LEMMA OnlyTheWriterPasses ==
    ASSUME IInv, Next, ~passGate
    PROVE  io'.passed => io.passed
<1>1. io \in Ios
    BY DEF IInv, Sound, Base, ThreadsOK
<1>2. ~NoIo.passed
    BY DEF NoIo
<1>3. ASSUME NEW c, NEW binding, NEW binds, NEW code,
             startSession(c, binding, binds, code)
      PROVE  ~io'.passed
  <2>1. \/ io' = NoIo
        \/ io' = [NoIo EXCEPT !.thread = "running", !.live = TRUE,
                              !.bound = binding]
    BY <1>3 DEF startSession
  <2>2. ~[NoIo EXCEPT !.thread = "running", !.live = TRUE,
                      !.bound = binding].passed
    BY DEF NoIo
  <2> QED
    BY <1>2, <2>1, <2>2
<1>4. ASSUME NEW thread, Close(thread)
      PROVE  ~io'.passed
    BY <1>4 DEF Close, NoIo
<1>5. CASE Usual
  <2>1. CASE Client
    BY <1>3, <2>1 DEF Client, attach, shutdown, requestRouteLoad, GuiOnly
  <2>2. CASE GuiEvent /\ ~handleIoThreadFinished(TRUE)
    BY <2>2 DEF GuiEvent, ignoreEvent, handleNavigationRequest,
       handleRouteLoadResponse, handleCapabilityRequest, failLater,
       handleCommandFinished, sessionFailed, shutdownFinished, GuiOnly, Enter
  <2>3. CASE GuiReturn
    BY <2>3 DEF GuiReturn, navigateDenies, navigateSucceeds,
       routeLoadAcknowledged, capabilityRequestObserved,
       capabilityResponseSent, Return
  <2>4. CASE \E r \in ctl.serving : submitCapabilityCompletion(r)
    BY <2>4 DEF submitCapabilityCompletion, GuiOnly
  <2>5. CASE IoEvent
    BY <1>1, <1>4, <2>5 DEF IoEvent, sendMessage, resumePolling, beginShutdown,
       abort, writeCompletes, ioFail, Terminate, finishShutdown, Pipe, Ios
  <2>6. CASE Poll
    BY <1>1, <1>4, <2>6 DEF Poll, pollSession, peerClosed, received, ioFail,
       Terminate, finishShutdown, Pipe, Ios
  <2>7. CASE handleMessage \/ WorkerSends
    BY <2>7 DEF handleMessage, WorkerSends, sendCapabilityRequest,
       sendNavigationRequest
  <2>8. CASE writeNext
    BY <1>1, <2>8 DEF writeNext, Ios
  <2>9. CASE handleIoThreadFinished(TRUE)
    BY <1>3, <1>2, <2>9 DEF handleIoThreadFinished
  <2> QED
    BY <1>5, <2>1, <2>2, <2>3, <2>4, <2>5, <2>6, <2>7, <2>8, <2>9
       DEF Usual, GuiEvent
<1>6. CASE Deadline
    BY <1>4, <1>6 DEF Deadline, routeLoadTimesOut, sendDeadline,
       shutdownDeadline, ioFail, Terminate, finishShutdown
<1>7. CASE Incident
  <2>1. CASE attach(FALSE, TRUE) \/ attach(TRUE, FALSE)
    BY <1>3, <2>1 DEF attach
  <2>2. CASE handleIoThreadFinished(FALSE)
    BY <1>3, <1>2, <2>2 DEF handleIoThreadFinished
  <2>3. CASE \E binding \in BOOLEAN : replace(binding)
    BY <2>3 DEF replace, GuiOnly
  <2>4. CASE sendVisibilityChanged \/ unbindCapabilityRuntime \/ beginRevoke
    BY <2>4 DEF sendVisibilityChanged, unbindCapabilityRuntime, beginRevoke,
       GuiOnly
  <2>5. CASE navigateThrows
    BY <2>5 DEF navigateThrows, Enter
  <2>6. CASE workerCloses \/ workerMisbehaves
    BY <2>6 DEF workerCloses, workerMisbehaves
  <2> QED
    BY <1>7, <2>1, <2>2, <2>3, <2>4, <2>5, <2>6 DEF Incident
<1> QED
    BY <1>5, <1>6, <1>7 DEF Next

\* The result of a capability is published on an authority that was there when
\* its gate was asked: once the session is shut down, has failed or is unbound,
\* no result passes its gate, and at most the one already past it is written.
THEOREM UnboundStaysSilent == Spec => UnboundIsSilent
<1> DEFINE Silent ==
             ~(Running(ctl) /\ ctl.bound) =>
               /\ io'.passed => io.passed
               /\ \A w \in ToSet(toWorker') \ ToSet(toWorker) :
                    w.gated => io.passed /\ ~io'.passed
<1>1. ASSUME IInv, Next
      PROVE  Silent
  <2>1. io \in Ios /\ AuthorityMatches(ctl)
    BY <1>1 DEF IInv, Sound, Base, ThreadsOK
  <2>2. SUFFICES ASSUME ~(Running(ctl) /\ ctl.bound)
                 PROVE  /\ io'.passed => io.passed
                        /\ \A w \in ToSet(toWorker') \ ToSet(toWorker) :
                             w.gated => io.passed /\ ~io'.passed
    OBVIOUS
  <2>3. io'.passed => io.passed
    <3>1. ~ctl.admitted
      BY <2>1, <2>2 DEF AuthorityMatches
    <3>2. ~passGate
      BY <3>1 DEF passGate, publicationGate
    <3> QED
      BY <1>1, <3>2, OnlyTheWriterPasses
  <2>4. ASSUME NEW w \in ToSet(toWorker'), w \notin ToSet(toWorker), w.gated
        PROVE  io.passed /\ ~io'.passed
    <3>1. writeNext /\ writes # <<>> /\ w = Head(writes)
      BY <1>1, <2>4, WrittenByTheWriter
    <3>2. toWorker' # toWorker
      BY <2>4
    <3>3. ~Gated
      BY <3>1, <3>2 DEF writeNext
    <3>4. io.passed
      BY <2>4, <3>1, <3>3 DEF Gated
    <3>5. ~io'.passed
      BY <2>1, <3>1 DEF writeNext, Ios
    <3> QED
      BY <3>4, <3>5
  <2> QED
    BY <2>3, <2>4
<1>2. ASSUME UNCHANGED vars
      PROVE  Silent
    BY <1>2 DEF vars, system
<1>3. [][Silent]_vars <=> UnboundIsSilent
    BY DEF UnboundIsSilent
<1>4. IInv /\ [Next]_vars => [Silent]_vars
    BY <1>1, <1>2
<1> QED
    BY <1>3, <1>4, SessionInvariant, PTL DEF Spec

===============================================================================
