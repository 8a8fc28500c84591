------------------------------ MODULE Listener ------------------------------
(***************************************************************************)
(* The command line client on the live feed: the connection loop, renderer *)
(* and channel of runListen (cli/cmd/listen.go), Stream of cli/internal/   *)
(* sseclient and the Forwarder of cli/internal/forward.  Four goroutines   *)
(* in a row, with a bounded channel between each two:                      *)
(*    server -- wire --> Stream -- events --> renderer -- queue --> worker *)
(***************************************************************************)
EXTENDS Feed

CONSTANTS
    Listened,       \* the stream the command was given
    EventsCap,      \* room in the channel to the renderer
    QueueCap,       \* room in the forward queue
    MaxDelay,       \* the longest pause between two connections
    NoRequest

ASSUME ListenerAssumption ==
    /\ Listened \in Streams
    /\ EventsCap \in Nat \ {0}
    /\ QueueCap \in Nat \ {0}
    /\ MaxDelay \in Nat \ {0}
    /\ NoRequest \notin Requests

VARIABLES
    loop,       \* the connection loop
    events,     \* the channel from Stream to the renderer
    queue,      \* the forward queue
    worker,     \* the request being forwarded
    forwarded,  \* history: requests the local target was sent, in order
    dropped     \* requests reported as dropped

listenerVars == <<loop, events, queue, worker, forwarded, dropped>>
vars == <<feedVars, listenerVars>>

----------------------------------------------------------------------------
\* ready: about to call Stream.  waiting: sleeping for `delay`.
LoopState ==
    [phase: {"ready", "streaming", "waiting", "stopped"},
     source: Conns \cup {NoConn}, delay: 1 .. MaxDelay]

TypeOK ==
    /\ FeedTypeOK
    /\ loop \in LoopState
    /\ events \in Seq(Requests \cup {Connected})
    /\ queue \in Seq(Requests)
    /\ worker \in Requests \cup {NoRequest}
    /\ forwarded \in Seq(Requests)
    /\ dropped \subseteq Requests
    /\ Len(events) <= EventsCap
    /\ Len(queue) <= QueueCap

Init ==
    /\ FeedInit
    /\ loop = [phase |-> "ready", source |-> NoConn, delay |-> 1]
    /\ events = <<>>
    /\ queue = <<>>
    /\ worker = NoRequest
    /\ forwarded = <<>>
    /\ dropped = {}

----------------------------------------------------------------------------
(* The connection loop and Stream *)

Running == loop.phase # "stopped"

Connect(c) ==
    /\ loop.phase = "ready"
    /\ conn[c].phase = "free"
    /\ conn' = DialledBy(conn, c, Listened)
    /\ loop' = [loop EXCEPT !.phase = "streaming", !.source = c]
    /\ UNCHANGED <<received, stored, capture, todo,
                   events, queue, worker, forwarded, dropped>>

\* A whole event has been read. Stream blocks while the channel is full.
Dispatch ==
    LET c == loop.source IN
    /\ loop.phase = "streaming"
    /\ Alive(c) /\ conn[c].wire # <<>>
    /\ Len(events) < EventsCap
    /\ events' = Append(events, Head(conn[c].wire))
    /\ conn' = ReadBy(conn, c)
    /\ UNCHANGED <<received, stored, capture, todo,
                   loop, queue, worker, forwarded, dropped>>

\* The read fails, or the watchdog has heard nothing for three keep-alives.
\* A connection that has lasted resets the delay.
StreamEnds ==
    /\ loop.phase = "streaming"
    /\ ~Alive(loop.source)
    /\ \E stable \in BOOLEAN :
          loop' = [loop EXCEPT !.phase = "waiting", !.source = NoConn,
                               !.delay = IF stable THEN 1 ELSE @]
    /\ UNCHANGED <<feedVars, events, queue, worker, forwarded, dropped>>

\* Faulty variant: the delay is doubled without end.
WaitedUncapped ==
    /\ loop.phase = "waiting"
    /\ loop' = [loop EXCEPT !.phase = "ready", !.delay = 2 * @]
    /\ UNCHANGED <<feedVars, events, queue, worker, forwarded, dropped>>

Waited ==
    /\ loop.phase = "waiting"
    /\ loop' = [loop EXCEPT !.phase = "ready",
                            !.delay = IF 2 * @ > MaxDelay THEN MaxDelay ELSE 2 * @]
    /\ UNCHANGED <<feedVars, events, queue, worker, forwarded, dropped>>

\* 401, 402 and 404 end the command instead of being tried again.
Refused ==
    /\ "refuse" \in Faults
    /\ loop.phase = "streaming"
    /\ Alive(loop.source) /\ conn[loop.source].phase = "dialled"
    /\ conn' = RefusedBy(conn, loop.source)
    /\ loop' = [loop EXCEPT !.phase = "stopped", !.source = NoConn]
    /\ UNCHANGED <<received, stored, capture, todo,
                   events, queue, worker, forwarded, dropped>>

\* ctrl-c. What is in the channels goes with the process.
Interrupt ==
    /\ Running
    /\ conn' = HungUp(conn, loop.source)
    /\ loop' = [loop EXCEPT !.phase = "stopped", !.source = NoConn]
    /\ UNCHANGED <<received, stored, capture, todo,
                   events, queue, worker, forwarded, dropped>>

----------------------------------------------------------------------------
(* The renderer *)

\* Faulty variant: Enqueue waits for room.
EnqueueBlocking(r) ==
    /\ Len(queue) < QueueCap
    /\ queue' = Append(queue, r)
    /\ UNCHANGED dropped

\* Faulty variant: the oldest makes room, the newest is reported.
EnqueueEvict(r) ==
    IF Len(queue) < QueueCap
    THEN queue' = Append(queue, r) /\ UNCHANGED dropped
    ELSE dropped' = dropped \cup {r} /\ queue' = Append(Tail(queue), r)

\* Faulty variant: what does not fit is not reported.
EnqueueSilent(r) ==
    /\ queue' = IF Len(queue) < QueueCap THEN Append(queue, r) ELSE queue
    /\ UNCHANGED dropped

\* Enqueue never blocks; the caller reports what did not fit.
Enqueue(r) ==
    IF Len(queue) < QueueCap
    THEN queue' = Append(queue, r) /\ UNCHANGED dropped
    ELSE dropped' = dropped \cup {r} /\ UNCHANGED queue

Render ==
    /\ Running
    /\ events # <<>>
    /\ events' = Tail(events)
    /\ IF Head(events) = Connected THEN UNCHANGED <<queue, dropped>>
       ELSE Enqueue(Head(events))
    /\ UNCHANGED <<feedVars, loop, worker, forwarded>>

----------------------------------------------------------------------------
(* The forwarder's worker *)

\* Faulty variant: the worker lives and dies with a connection's context.
TakeWhileStreaming ==
    /\ loop.phase = "streaming"
    /\ worker = NoRequest /\ queue # <<>>
    /\ worker' = Head(queue)
    /\ queue' = Tail(queue)
    /\ UNCHANGED <<feedVars, loop, events, forwarded, dropped>>

Take ==
    /\ Running
    /\ worker = NoRequest /\ queue # <<>>
    /\ worker' = Head(queue)
    /\ queue' = Tail(queue)
    /\ UNCHANGED <<feedVars, loop, events, forwarded, dropped>>

\* Faulty variant: an attempt that timed out is made again.
DeliverAgain ==
    /\ Running
    /\ worker # NoRequest
    /\ forwarded' = Append(forwarded, worker)
    /\ worker' \in {NoRequest, worker}
    /\ UNCHANGED <<feedVars, loop, events, queue, dropped>>

\* deliver: one attempt, whatever comes of it within the client's timeout.
Deliver ==
    /\ Running
    /\ worker # NoRequest
    /\ forwarded' = Append(forwarded, worker)
    /\ worker' = NoRequest
    /\ UNCHANGED <<feedVars, loop, events, queue, dropped>>

----------------------------------------------------------------------------
LoopStep == Waited \/ StreamEnds \/ \E c \in Conns : Connect(c)
WorkerStep == Take \/ Deliver

Next ==
    \/ FeedNext /\ UNCHANGED listenerVars
    \/ LoopStep
    \/ Dispatch
    \/ Refused
    \/ Interrupt
    \/ Render
    \/ WorkerStep

\* The goroutines of the server and those of the client that wait for nobody
\* but each other. The worker waits for the local target.
Fairness ==
    /\ \A r \in Requests : WF_vars(CaptureStep(r) /\ UNCHANGED listenerVars)
    /\ \A c \in Conns : WF_vars(ConnStep(c) /\ UNCHANGED listenerVars)
    /\ WF_vars(LoopStep)
    /\ WF_vars(Dispatch)
    /\ WF_vars(Render)

Spec == Init /\ [][Next]_vars /\ Fairness

----------------------------------------------------------------------------
(* Properties *)

AtMostOnceIn(seq, r) == Cardinality({i \in DOMAIN seq : seq[i] = r}) <= 1

\* The local target is sent a request once, whatever reconnections happen
\* while it is broadcast and however many connections the server believes
\* to be alive.
ForwardedOnce == \A r \in Requests : AtMostOnceIn(forwarded, r)

\* What the user has been told is dropped is not forwarded as well.
DroppedIsNot == \A i \in DOMAIN forwarded : forwarded[i] \notin dropped

\* No client, however slow, dead or on its way out, holds up a broadcast.
BroadcastEnds ==
    \A r \in Requests : capture[r] = "sending" ~> capture[r] \in {"done", "cut"}

\* A client that has hung up is deregistered: nothing it leaves in its channel
\* and no broadcast keeps its goroutine.
HungUpIsForgotten ==
    \A c \in Conns :
        conn[c].phase \in Registered /\ ~conn[c].peer ~> conn[c].phase = "free"

InEvents(r) == \E i \in DOMAIN events : events[i] = r
InQueue(r) == \E i \in DOMAIN queue : queue[i] = r
Forwarded(r) == \E i \in DOMAIN forwarded : forwarded[i] = r

OnTheWire(r) ==
    /\ loop.phase = "streaming" /\ Alive(loop.source)
    /\ \E i \in DOMAIN conn[loop.source].wire : conn[loop.source].wire[i] = r

Rendered(r) == InQueue(r) \/ worker = r \/ r \in dropped \/ Forwarded(r)

\* "Never block the SSE reader on a slow local server": the events of a
\* connection are read and shown even if the target never answers.
ReaderGoesOn ==
    \A r \in Requests :
        OnTheWire(r) ~> Rendered(r) \/ ~Running \/ loop.phase = "waiting"

\* If the target answers, or the client's timeout does in its place, the queue
\* is worked off, on top of connections that come and go.
QueueIsWorkedOff ==
    WF_vars(WorkerStep)
    => \A r \in Requests : InQueue(r) ~> Forwarded(r) \/ ~Running

\* Requests of the stream that the command may yet be sent: their broadcast has
\* not begun, or has yet to visit its connection.
Fresh ==
    {r \in Requests :
        /\ StreamOf[r] = Listened
        /\ capture[r] \in {"none", "stamped", "queued"} \/ loop.source \in todo[r]}

\* What is on its way to the command.
Coming ==
    IF Alive(loop.source) THEN conn[loop.source].wire \o conn[loop.source].send ELSE <<>>

\* What is on its way through it, the worker's request first.
InHand == (IF worker = NoRequest THEN <<>> ELSE <<worker>>) \o queue \o events

\* Goroutines with a channel between each two, and connections that come and
\* go, amount to one line: each request joins it once, lost or dropped it never
\* returns, and what has been read is sent in order or reported.
Promise ==
    INSTANCE Relay WITH Greeting <- Connected, fresh <- Fresh, coming <- Coming,
                        held <- InHand, over <- ~Running

ImplementsRelay == Promise!RelaySpec
=============================================================================
