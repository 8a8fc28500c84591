------------------------------- MODULE Viewer -------------------------------
(***************************************************************************)
(* A browser on the live feed: useRequestFeed (ui/src/hooks) and the parts *)
(* of App.tsx that drive it.  The list on the page is fed by two sources   *)
(* nothing orders: answers to GET /requests, which replace it, and live    *)
(* events, which are put in front.                                         *)
(***************************************************************************)
EXTENDS Feed

CONSTANTS
    Fetches,        \* GET /requests calls that can be under way at once
    Filters,        \* what the filter bar can be set to
    NoFilter,
    Passes,         \* the requests each filter lets through
    UserActs        \* what the user does besides opening a stream

ASSUME ViewerAssumption ==
    /\ NoFilter \in Filters
    /\ Passes \in [Filters -> SUBSET Requests]
    /\ Passes[NoFilter] = Requests
    /\ UserActs \subseteq {"switch", "filter", "clear"}

VARIABLES
    page,       \* the hook's state
    fetch       \* its calls to GET /requests

viewerVars == <<page, fetch>>
vars == <<feedVars, viewerVars>>

----------------------------------------------------------------------------
\* The list is the live events, newest first, before the rows of the last
\* answer. The handler of live events sees the filters of the render that
\* opened the stream.
Page ==
    [stream: Streams \cup {NoStream}, filter: Filters, handlerFilter: Filters,
     source: Conns \cup {NoConn},
     live: Seq(Requests), history: SUBSET Requests]

BlankPage ==
    [stream |-> NoStream, filter |-> NoFilter, handlerFilter |-> NoFilter,
     source |-> NoConn, live |-> <<>>, history |-> {}]

Fetch ==
    [phase: {"idle", "asked", "answered"}, stream: Streams \cup {NoStream},
     filter: Filters, rows: SUBSET Requests]

IdleFetch ==
    [phase |-> "idle", stream |-> NoStream, filter |-> NoFilter, rows |-> {}]

TypeOK ==
    /\ FeedTypeOK
    /\ page \in Page
    /\ fetch \in [Fetches -> Fetch]

Init ==
    /\ FeedInit
    /\ page = BlankPage
    /\ fetch = [f \in Fetches |-> IdleFetch]

----------------------------------------------------------------------------
(* What is on the page *)

Live == {page.live[i] : i \in DOMAIN page.live}
Shown == page.history \cup Live

Asked(s, f) == [IdleFetch EXCEPT !.phase = "asked", !.stream = s, !.filter = f]

\* Calls of fetchHistory, each from a slot that is free.
FetchHistory(slots, s, f) ==
    /\ \A i \in slots : fetch[i].phase = "idle"
    /\ fetch' = [i \in Fetches |-> IF i \in slots THEN Asked(s, f) ELSE fetch[i]]

----------------------------------------------------------------------------
(* The user *)

\* Faulty variant: the effect's cleanup does not close the old source, which
\* stays the one that is read while the page has moved on.
OpenStreamKeepSource(s, f, c, slots) ==
    /\ page.stream # s
    /\ page.stream = NoStream \/ "switch" \in UserActs
    /\ f \in {NoFilter, page.filter}
    /\ conn[c].phase = "free" /\ c # page.source
    /\ Cardinality(slots) = 2
    /\ FetchHistory(slots, s, f)
    /\ page' = [page EXCEPT !.stream = s, !.filter = f, !.handlerFilter = f,
                            !.source = IF @ = NoConn THEN c ELSE @]
    /\ conn' = DialledBy(conn, c, s)
    /\ UNCHANGED <<received, stored, capture, todo>>

\* Another stream is picked. The old source is closed, a new one opened, and
\* the history fetched by both effects; the list stays until an answer comes.
\* Choosing an endpoint resets the filters, a new session keeps them.
OpenStream(s, f, c, slots) ==
    /\ page.stream # s
    /\ page.stream = NoStream \/ "switch" \in UserActs
    /\ f \in {NoFilter, page.filter}
    /\ conn[c].phase = "free" /\ c # page.source
    /\ Cardinality(slots) = 2
    /\ FetchHistory(slots, s, f)
    /\ page' = [page EXCEPT !.stream = s, !.filter = f, !.handlerFilter = f,
                            !.source = c]
    /\ conn' = DialledBy(HungUp(conn, page.source), c, s)
    /\ UNCHANGED <<received, stored, capture, todo>>

\* While a session is being replaced the page has none.
CloseStream ==
    /\ "switch" \in UserActs
    /\ page.stream # NoStream
    /\ page' = [page EXCEPT !.stream = NoStream, !.source = NoConn]
    /\ conn' = HungUp(conn, page.source)
    /\ UNCHANGED <<received, stored, capture, todo, fetch>>

\* Only the second effect depends on the filters.
SetFilter(f, slot) ==
    /\ "filter" \in UserActs
    /\ page.filter # f
    /\ IF page.stream = NoStream THEN UNCHANGED fetch
       ELSE FetchHistory({slot}, page.stream, f)
    /\ page' = [page EXCEPT !.filter = f]
    /\ UNCHANGED feedVars

ClearRequests ==
    /\ "clear" \in UserActs
    /\ Shown # {}
    /\ page' = [page EXCEPT !.live = <<>>, !.history = {}]
    /\ UNCHANGED <<feedVars, fetch>>

----------------------------------------------------------------------------
(* History *)

\* RequestsHandler runs the query.
Answer(i) ==
    /\ fetch[i].phase = "asked"
    /\ fetch' = [fetch EXCEPT
          ![i].phase = "answered",
          ![i].rows = Newest({r \in stored \cap Passes[fetch[i].filter] :
                                 StreamOf[r] = fetch[i].stream})]
    /\ UNCHANGED <<feedVars, page>>

\* The answer, or the call, is lost: "Non-fatal".
FetchFails(i) ==
    /\ "break" \in Faults
    /\ fetch[i].phase # "idle"
    /\ fetch' = [fetch EXCEPT ![i] = IdleFetch]
    /\ UNCHANGED <<feedVars, page>>

\* setRequests(history), whatever the page shows by now.
SetRequests(i) ==
    /\ fetch[i].phase = "answered"
    /\ page' = [page EXCEPT !.history = fetch[i].rows, !.live = <<>>]
    /\ fetch' = [fetch EXCEPT ![i] = IdleFetch]
    /\ UNCHANGED feedVars

----------------------------------------------------------------------------
(* Live events *)

\* The next event of the page's source. "connected" only sets the status.
OnEvent ==
    LET c == page.source  r == Head(conn[c].wire) IN
    /\ Alive(c)
    /\ conn[c].wire # <<>>
    /\ conn' = ReadBy(conn, c)
    /\ page' = IF r # Connected /\ r \in Passes[page.handlerFilter]
               THEN [page EXCEPT !.live = <<r>> \o @]
               ELSE page
    /\ UNCHANGED <<received, stored, capture, todo, fetch>>

\* EventSource connects again by itself. Nothing fetches what was missed.
Reconnect(c) ==
    /\ page.source # NoConn /\ ~Alive(page.source)
    /\ conn[c].phase = "free"
    /\ page' = [page EXCEPT !.source = c]
    /\ conn' = DialledBy(conn, c, page.stream)
    /\ UNCHANGED <<received, stored, capture, todo, fetch>>

\* The stream is not, or no longer, the user's: EventSource gives up.
Refused ==
    LET c == page.source IN
    /\ "refuse" \in Faults
    /\ Alive(c) /\ conn[c].phase = "dialled"
    /\ conn' = RefusedBy(conn, c)
    /\ page' = [page EXCEPT !.source = NoConn]
    /\ UNCHANGED <<received, stored, capture, todo, fetch>>

----------------------------------------------------------------------------
BrowserStep == OnEvent \/ \E c \in Conns : Reconnect(c)

User ==
    \/ \E s \in Streams, f \in Filters, c \in Conns, slots \in SUBSET Fetches :
          OpenStream(s, f, c, slots)
    \/ CloseStream
    \/ \E f \in Filters, i \in Fetches : SetFilter(f, i)
    \/ ClearRequests

History == \E i \in Fetches : Answer(i) \/ FetchFails(i) \/ SetRequests(i)

Next ==
    \/ FeedNext /\ UNCHANGED viewerVars
    \/ User
    \/ History
    \/ BrowserStep
    \/ Refused

\* Goroutines run, and the browser handles the events that have reached it.
Fairness ==
    /\ \A r \in Requests : WF_vars(CaptureStep(r) /\ UNCHANGED viewerVars)
    /\ \A c \in Conns : WF_vars(ConnStep(c) /\ UNCHANGED viewerVars)
    /\ WF_vars(OnEvent)

Spec == Init /\ [][Next]_vars /\ Fairness

----------------------------------------------------------------------------
(* Properties *)

\* Whatever is on the page is in the database: a request is broadcast only
\* after SaveRequest has succeeded, so a page that is loaded again after a
\* failure or a crash shows no less.
ShownWasStored == Shown \subseteq stored

\* A live event that reaches the list is of the stream the page is on, even
\* if the user has switched with events on their way: the cleanup of the
\* effect closes the old source before the new one opens.
LiveIsOfPage ==
    [][OnEvent => \A r \in Requests :
          page'.live = <<r>> \o page.live => StreamOf[r] = page.stream]_vars

Occurrences(r) ==
    Cardinality({i \in DOMAIN page.live : page.live[i] = r})
    + (IF r \in page.history THEN 1 ELSE 0)

\* A live event can repeat what an answer already brought, and nothing
\* filters it out; but reconnects, switches and connections the server still
\* believes alive do not multiply it further.
ShownAtMostTwice == \A r \in Requests : Occurrences(r) <= 2

\* The page is on r's stream, connected, and owed no answer.
Settled(r) ==
    /\ page.stream = StreamOf[r]
    /\ Alive(page.source) /\ conn[page.source].phase = "open"
    /\ \A i \in Fetches : fetch[i].phase = "idle"
    /\ r \in Passes[page.handlerFilter]

\* What arrives while the page is settled shows up, unless it leaves that
\* state, the request is not stored, or the process dies before it was sent.
\* The channels are assumed not to fill up.
SettledShowsNew ==
    \A r \in Requests :
        capture[r] = "stamped" /\ Settled(r)
        ~> r \in Live \/ ~Settled(r) \/ capture[r] \in {"refused", "cut"}

\* The page is settled, and nothing of r is on its way to it.
Quiet(r) ==
    /\ Settled(r)
    /\ capture[r] = "done"
    /\ conn[page.source].send = <<>> /\ conn[page.source].wire = <<>>

\* "The moment a webhook arrives at your URL, it shows up here instantly. No
\* refresh": a request that has been stored and broadcast is on the page.
StoredIsShown == \A r \in Requests : Quiet(r) => r \in Shown
=============================================================================
