-------------------------------- MODULE Feed --------------------------------
(***************************************************************************)
(* The server half of the live feed: the inbox handler that stores a       *)
(* captured request (internal/handler/inbox.go), the Broadcaster           *)
(* (internal/sse/broadcaster.go) and the goroutine behind every event      *)
(* stream (internal/handler/sse.go).                                       *)
(*                                                                         *)
(* A captured request is handled by a goroutine of net/http, broadcast by  *)
(* a second one, and written to the network by one per connection.  What a *)
(* connection's peer does is left to the modules Viewer and Listener.      *)
(***************************************************************************)
EXTENDS Integers, Sequences, FiniteSets

CONSTANTS
    Requests,       \* captured requests, each named by its id
    Streams,        \* what requests are stored and broadcast under
    NoStream,
    StreamOf,       \* the stream each request is sent to
    Conns,          \* event streams the server can be serving at once
    NoConn,
    SendCap,        \* room in a client's Send channel
    WireCap,        \* events the network holds of one connection
    PageLimit,      \* rows GetRequests returns at most
    Faults          \* what may go wrong: see FaultKinds

FaultKinds == {"store", "break", "crash", "refuse"}

ASSUME FeedAssumption ==
    /\ StreamOf \in [Requests -> Streams]
    /\ NoConn \notin Conns
    /\ NoStream \notin Streams
    /\ SendCap \in Nat \ {0}
    /\ WireCap \in Nat \ {0}
    /\ PageLimit \in Nat \ {0}
    /\ Faults \subseteq FaultKinds

\* The event a stream opens with. It is no request.
Connected == "connected"
ASSUME ConnectedAssumption == Connected \notin Requests

VARIABLES
    received,   \* requests in the order of their received_at
    stored,     \* rows of the requests table
    capture,    \* how far the goroutines of each request have come
    todo,       \* clients a running broadcast has yet to visit
    conn        \* the connections: client, channel and network

feedVars == <<received, stored, capture, todo, conn>>

----------------------------------------------------------------------------
\* stamped: received_at is set.  queued: stored, broadcast not begun.
\* sending: Broadcast holds the read lock.  cut: the process died before the
\* broadcast was over.
CaptureSteps == {"none", "stamped", "refused", "queued", "sending", "done", "cut"}

\* dialled: the GET is on its way.  open: registered, in the main loop.
\* leaving: out of the loop, Deregister still to come.  A peer that has hung
\* up (peer = FALSE) stays registered until its goroutine notices.
Phases == {"free", "dialled", "open", "leaving"}
Registered == {"open", "leaving"}

FreeConn == [phase |-> "free", peer |-> FALSE, stream |-> NoStream,
             send |-> <<>>, wire |-> <<>>]

Connection ==
    [phase: Phases, peer: BOOLEAN, stream: Streams \cup {NoStream},
     send: Seq(Requests), wire: Seq(Requests \cup {Connected})]

FeedTypeOK ==
    /\ received \in Seq(Requests)
    /\ stored \subseteq Requests
    /\ capture \in [Requests -> CaptureSteps]
    /\ todo \in [Requests -> SUBSET Conns]
    /\ conn \in [Conns -> Connection]
    /\ \A c \in Conns : /\ Len(conn[c].send) <= SendCap
                       /\ Len(conn[c].wire) <= WireCap

FeedInit ==
    /\ received = <<>>
    /\ stored = {}
    /\ capture = [r \in Requests |-> "none"]
    /\ todo = [r \in Requests |-> {}]
    /\ conn = [c \in Conns |-> FreeConn]

----------------------------------------------------------------------------
(* The store *)

\* q has a later received_at than r.
Later(q, r) ==
    \E i, j \in DOMAIN received : received[i] = r /\ received[j] = q /\ i < j

\* SELECT ... ORDER BY received_at DESC LIMIT n. The order is that of the
\* column, so the rows are given as a set.
Newest(rows) ==
    {r \in rows : Cardinality({q \in rows : Later(q, r)}) < PageLimit}

----------------------------------------------------------------------------
(* The inbox *)

\* The endpoint is found, the body read and received_at set.
Receive(r) ==
    /\ capture[r] = "none"
    /\ capture' = [capture EXCEPT ![r] = "stamped"]
    /\ received' = Append(received, r)
    /\ UNCHANGED <<stored, todo, conn>>

SaveFails(r) ==
    /\ "store" \in Faults
    /\ capture' = [capture EXCEPT ![r] = "refused"]
    /\ UNCHANGED stored

SaveWorks(r) ==
    /\ capture' = [capture EXCEPT ![r] = "queued"]
    /\ stored' = stored \cup {r}

\* Faulty variant: the error is logged, and the request broadcast all the same.
SaveGoOn(r) ==
    /\ capture[r] = "stamped"
    /\ \/ SaveWorks(r)
       \/ /\ "store" \in Faults
          /\ capture' = [capture EXCEPT ![r] = "queued"]
          /\ UNCHANGED stored
    /\ UNCHANGED <<received, todo, conn>>

\* SaveRequest. Only if it succeeds is the broadcast goroutine started.
Save(r) ==
    /\ capture[r] = "stamped"
    /\ SaveWorks(r) \/ SaveFails(r)
    /\ UNCHANGED <<received, todo, conn>>

----------------------------------------------------------------------------
(* The broadcaster *)

Clients(s) == {c \in Conns : conn[c].phase \in Registered /\ conn[c].stream = s}

\* Register and Deregister need the lock no broadcast may hold for reading.
ReadLocked == \E r \in Requests : capture[r] = "sending"

BeginBroadcast(r) ==
    LET clients == Clients(StreamOf[r]) IN
    /\ capture[r] = "queued"
    /\ todo' = [todo EXCEPT ![r] = clients]
    /\ capture' = [capture EXCEPT ![r] = IF clients = {} THEN "done" ELSE "sending"]
    /\ UNCHANGED <<received, stored, conn>>

\* Faulty variants: the channel taken to be larger, or smaller, than it is.
HasRoomPlusOne(c) == Len(conn[c].send) <= SendCap
HasRoomMinusOne(c) == Len(conn[c].send) < SendCap - 1

HasRoom(c) == Len(conn[c].send) < SendCap

\* Faulty variant: the send waits for room in the channel.
SendToBlocking(r, c) ==
    /\ c \in todo[r] /\ HasRoom(c)
    /\ todo' = [todo EXCEPT ![r] = @ \ {c}]
    /\ capture' = [capture EXCEPT ![r] = IF todo[r] = {c} THEN "done" ELSE @]
    /\ conn' = [conn EXCEPT ![c].send = Append(@, r)]
    /\ UNCHANGED <<received, stored>>

\* Faulty variant: Broadcast returns without RUnlock.
SendToNoUnlock(r, c) ==
    /\ c \in todo[r]
    /\ todo' = [todo EXCEPT ![r] = @ \ {c}]
    /\ conn' = IF HasRoom(c)
               THEN [conn EXCEPT ![c].send = Append(@, r)]
               ELSE conn
    /\ UNCHANGED <<received, stored, capture>>

\* One turn of the loop over the clients: a full channel is skipped. Several
\* broadcasts can hold the read lock, so their turns interleave.
SendTo(r, c) ==
    /\ c \in todo[r]
    /\ todo' = [todo EXCEPT ![r] = @ \ {c}]
    /\ capture' = [capture EXCEPT ![r] = IF todo[r] = {c} THEN "done" ELSE @]
    /\ conn' = IF HasRoom(c)
               THEN [conn EXCEPT ![c].send = Append(@, r)]
               ELSE conn
    /\ UNCHANGED <<received, stored>>

Broadcast(r) == BeginBroadcast(r) \/ \E c \in Conns : SendTo(r, c)

----------------------------------------------------------------------------
(* The goroutine of a connection *)

\* Faulty variant: a new client is sent what is already stored.
RegisterReplaying(c) ==
    /\ conn[c].phase = "dialled"
    /\ ~ReadLocked
    /\ \E r \in stored :
          /\ StreamOf[r] = conn[c].stream
          /\ conn' = [conn EXCEPT ![c].phase = "open", ![c].send = <<r>>]
    /\ UNCHANGED <<received, stored, capture, todo>>

Register(c) ==
    /\ conn[c].phase = "dialled"
    /\ ~ReadLocked
    /\ conn' = [conn EXCEPT ![c].phase = "open",
                            ![c].wire = IF conn[c].peer THEN <<Connected>> ELSE <<>>]
    /\ UNCHANGED <<received, stored, capture, todo>>

\* The select statement: a payload is written, to a peer or into the void.
\* The keep-alive changes nothing.
Write(c) ==
    /\ conn[c].phase = "open" /\ conn[c].send # <<>>
    /\ conn[c].peer => Len(conn[c].wire) < WireCap
    /\ conn' = [conn EXCEPT ![c].send = Tail(@),
                            ![c].wire = IF conn[c].peer
                                        THEN Append(@, Head(conn[c].send))
                                        ELSE @]
    /\ UNCHANGED <<received, stored, capture, todo>>

\* The other case of the select: r.Context() is done.
Exit(c) ==
    /\ conn[c].phase = "open" /\ ~conn[c].peer
    /\ conn' = [conn EXCEPT ![c].phase = "leaving"]
    /\ UNCHANGED <<received, stored, capture, todo>>

\* The deferred call, once it gets the lock.
Deregister(c) ==
    /\ conn[c].phase = "leaving"
    /\ ~ReadLocked
    /\ conn' = [conn EXCEPT ![c] = FreeConn]
    /\ UNCHANGED <<received, stored, capture, todo>>

----------------------------------------------------------------------------
(* What peers do to a table of connections *)

DialledBy(table, c, s) ==
    [table EXCEPT ![c] = [FreeConn EXCEPT !.phase = "dialled", !.peer = TRUE,
                                          !.stream = s]]

HungUp(table, c) ==
    IF c = NoConn THEN table
    ELSE [table EXCEPT ![c].peer = FALSE, ![c].wire = <<>>]

\* The GET is answered 401 or 404, before anything is registered.
RefusedBy(table, c) == [table EXCEPT ![c] = FreeConn]

\* The first event on its way to the peer is read.
ReadBy(table, c) == [table EXCEPT ![c].wire = Tail(@)]

Alive(c) == c # NoConn /\ conn[c].peer

----------------------------------------------------------------------------
(* Faults *)

\* The network loses a connection and what is on it.
Break(c) ==
    /\ "break" \in Faults
    /\ conn[c].peer
    /\ conn' = HungUp(conn, c)
    /\ UNCHANGED <<received, stored, capture, todo>>

AfterCrash(step) ==
    IF step = "stamped" THEN "refused"
    ELSE IF step \in {"queued", "sending"} THEN "cut" ELSE step

\* The process dies. Its database is all that is left.
Crash ==
    /\ "crash" \in Faults
    /\ capture' = [r \in Requests |-> AfterCrash(capture[r])]
    /\ todo' = [r \in Requests |-> {}]
    /\ conn' = [c \in Conns |-> FreeConn]
    /\ UNCHANGED <<received, stored>>

----------------------------------------------------------------------------
\* What the goroutines of a request and of a connection do next.
CaptureStep(r) == Save(r) \/ Broadcast(r)
ConnStep(c) == Register(c) \/ Write(c) \/ Exit(c) \/ Deregister(c)

FeedNext ==
    \/ \E r \in Requests : Receive(r) \/ CaptureStep(r)
    \/ \E c \in Conns : ConnStep(c) \/ Break(c)
    \/ Crash
=============================================================================
