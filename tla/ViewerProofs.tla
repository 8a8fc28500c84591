---------------------------- MODULE ViewerProofs ----------------------------
(***************************************************************************)
(* Theorems about the browser on the live feed: what is on the page is     *)
(* stored, a request is there at most twice, once as a live event and once *)
(* as a row of an answer, and live events are of the page's stream.        *)
(***************************************************************************)
EXTENDS Viewer, FeedProofs

PageTypeOK == page \in Page /\ fetch \in [Fetches -> Fetch]

\* Answers are made of stored rows, on their way and on the page.
RowsInv ==
    /\ page.history \subseteq stored
    /\ \A i \in Fetches : fetch[i].rows \subseteq stored

\* The live events are behind every broadcast, and will not come again on the
\* page's source, nor on one that is yet to be opened.
LiveInv ==
    /\ NoDup(page.live)
    /\ \A r \in Requests : In(r, page.live) =>
          /\ \E c \in Conns : Gone(r, c)
          /\ page.source \in Conns => Gone(r, page.source)

ViewerInv == FeedInv /\ PageTypeOK /\ RowsInv /\ LiveInv

LEMMA ViewerInitInv == Init => ViewerInv
  <1> SUFFICES ASSUME Init PROVE ViewerInv OBVIOUS
  <1>1. PageTypeOK
    BY EmptySeq, ViewerAssumption
       DEF Init, PageTypeOK, BlankPage, Page, IdleFetch, Fetch
  <1>2. RowsInv /\ LiveInv
    BY EmptyFacts DEF Init, RowsInv, LiveInv, BlankPage, IdleFetch
  <1> QED BY <1>1, <1>2, FeedInitInv DEF Init, ViewerInv

----------------------------------------------------------------------------
(* What the steps have in common *)

\* The live events stay, and the source or nothing but what is on its way
\* changes.
LEMMA LiveStays ==
    ASSUME ViewerInv, GoneStays, NEW src, page'.source = src,
           page'.live = page.live,
           \/ src \in {page.source, NoConn}
           \/ src \in Conns /\ conn[src].phase = "free"
    PROVE  LiveInv'
  <1>1. ASSUME NEW r \in Requests, In(r, page.live)
        PROVE  /\ \E c \in Conns : Gone(r, c)'
               /\ src \in Conns => Gone(r, src)'
    <2>1. PICK c \in Conns : Gone(r, c) BY <1>1 DEF ViewerInv, LiveInv
    <2>2. src \in Conns => Gone(r, src)
      BY <1>1, <2>1, FreshGone, FeedAssumption DEF ViewerInv, LiveInv
    <2> QED BY <2>1, <2>2 DEF GoneStays
  <1>2. NoDup(page'.live) BY DEF ViewerInv, LiveInv
  <1>3. \A r \in Requests : In(r, page'.live) =>
          /\ \E c \in Conns : Gone(r, c)'
          /\ page'.source \in Conns => Gone(r, src)'
    BY <1>1
  <1>4. \A r \in Requests : Gone(r, src)' = Gone(r, page.source)'
    BY DEF Gone, Passed, OnItsWay
  <1> QED BY <1>2, <1>3, <1>4 DEF LiveInv

LEMMA NoLive ==
    ASSUME page'.live = <<>> PROVE LiveInv'
  BY EmptyFacts DEF LiveInv

LEMMA PageFacts ==
    ASSUME PageTypeOK
    PROVE  /\ page.stream \in Streams \cup {NoStream}
           /\ page.filter \in Filters /\ page.handlerFilter \in Filters
           /\ page.source \in Conns \cup {NoConn}
           /\ page.live \in Seq(Requests) /\ page.history \subseteq Requests
  BY DEF PageTypeOK, Page

LEMMA LiveIsIn == \A r : r \in Live <=> In(r, page.live)
  BY DEF Live, In

----------------------------------------------------------------------------
(* The steps of the server, and of the network *)

LEMMA ServerStep ==
    ASSUME ViewerInv, FeedNext, UNCHANGED viewerVars PROVE ViewerInv'
  <1>1. FeedInv' /\ GoneStays BY FeedStep DEF ViewerInv
  <1>2. UNCHANGED <<page, fetch>> BY DEF viewerVars
  <1>3. RowsInv' BY <1>2, StoredStays DEF ViewerInv, RowsInv
  <1>4. PageTypeOK' BY <1>2 DEF ViewerInv, PageTypeOK
  <1>5. LiveInv' BY <1>1, <1>2, LiveStays
  <1> QED BY <1>1, <1>3, <1>4, <1>5 DEF ViewerInv

----------------------------------------------------------------------------
(* The user *)

LEMMA FetchHistoryStep ==
    ASSUME PageTypeOK, RowsInv, UNCHANGED stored,
           NEW slots, NEW s \in Streams, NEW f \in Filters,
           FetchHistory(slots, s, f)
    PROVE  /\ fetch' \in [Fetches -> Fetch]
           /\ \A i \in Fetches : fetch'[i].rows \subseteq stored'
  BY DEF PageTypeOK, RowsInv, FetchHistory, Asked, IdleFetch, Fetch

LEMMA OpenStreamStep ==
    ASSUME ViewerInv, NEW s \in Streams, NEW f \in Filters, NEW c \in Conns,
           NEW slots \in SUBSET Fetches, OpenStream(s, f, c, slots)
    PROVE  ViewerInv'
  <1> USE DEF OpenStream
  <1>1. FeedInv' /\ GoneStays
    BY RedialledStep, PageFacts DEF ViewerInv
  <1>2. /\ page' \in Page /\ page'.history = page.history
        /\ page'.live = page.live /\ page'.source = c
    BY DEF ViewerInv, PageTypeOK, Page
  <1>3. /\ fetch' \in [Fetches -> Fetch]
        /\ \A i \in Fetches : fetch'[i].rows \subseteq stored'
    BY FetchHistoryStep DEF ViewerInv
  <1>4. LiveInv' BY <1>1, <1>2, LiveStays
  <1> QED BY <1>1, <1>2, <1>3, <1>4 DEF ViewerInv, PageTypeOK, RowsInv

LEMMA CloseStreamStep == ASSUME ViewerInv, CloseStream PROVE ViewerInv'
  <1> USE DEF CloseStream
  <1>1. FeedInv' /\ GoneStays BY HungUpStep, PageFacts DEF ViewerInv
  <1>2. /\ page' \in Page /\ page'.history = page.history
        /\ page'.live = page.live /\ page'.source = NoConn
    BY DEF ViewerInv, PageTypeOK, Page
  <1>3. LiveInv' BY <1>1, <1>2, LiveStays
  <1> QED BY <1>1, <1>2, <1>3 DEF ViewerInv, PageTypeOK, RowsInv

LEMMA SetFilterStep ==
    ASSUME ViewerInv, NEW f \in Filters, NEW i \in Fetches, SetFilter(f, i)
    PROVE  ViewerInv'
  <1> USE DEF SetFilter
  <1>1. FeedInv' /\ GoneStays /\ UNCHANGED stored BY FeedStays DEF ViewerInv
  <1>2. /\ page' \in Page /\ page'.history = page.history
        /\ page'.live = page.live /\ page'.source = page.source
    BY DEF ViewerInv, PageTypeOK, Page
  <1>3. /\ fetch' \in [Fetches -> Fetch]
        /\ \A j \in Fetches : fetch'[j].rows \subseteq stored'
    <2>1. CASE page.stream = NoStream
      BY <1>1, <2>1 DEF ViewerInv, PageTypeOK, RowsInv
    <2>2. CASE page.stream # NoStream
      BY <1>1, <2>2, FetchHistoryStep, PageFacts DEF ViewerInv
    <2> QED BY <2>1, <2>2
  <1>4. LiveInv' BY <1>1, <1>2, LiveStays
  <1> QED BY <1>1, <1>2, <1>3, <1>4 DEF ViewerInv, PageTypeOK, RowsInv

LEMMA ClearRequestsStep == ASSUME ViewerInv, ClearRequests PROVE ViewerInv'
  <1> USE DEF ClearRequests
  <1>1. FeedInv' /\ GoneStays /\ UNCHANGED <<stored, fetch>>
    BY FeedStays DEF ViewerInv
  <1>2. page' \in Page /\ page'.history = {} /\ page'.live = <<>>
    BY EmptySeq DEF ViewerInv, PageTypeOK, Page
  <1>3. LiveInv' BY <1>2, NoLive
  <1> QED BY <1>1, <1>2, <1>3 DEF ViewerInv, PageTypeOK, RowsInv

----------------------------------------------------------------------------
(* History *)

LEMMA AnswerStep ==
    ASSUME ViewerInv, NEW i \in Fetches, Answer(i) PROVE ViewerInv'
  <1> DEFINE rows == Newest({r \in stored \cap Passes[fetch[i].filter] :
                                StreamOf[r] = fetch[i].stream})
  <1>1. FeedInv' /\ GoneStays /\ UNCHANGED <<stored, page>>
    BY FeedStays DEF ViewerInv, Answer
  <1>2. rows \subseteq stored /\ rows \subseteq Requests
    BY DEF Newest, ViewerInv, FeedInv, FeedTypeOK
  <1>3. fetch' = [fetch EXCEPT ![i].phase = "answered", ![i].rows = rows]
    BY DEF Answer
  <1> HIDE DEF rows
  <1>4. /\ fetch' \in [Fetches -> Fetch]
        /\ \A j \in Fetches : fetch'[j].rows \subseteq stored
    BY <1>2, <1>3 DEF ViewerInv, PageTypeOK, RowsInv, Fetch
  <1>5. LiveInv' BY <1>1, LiveStays
  <1> QED BY <1>1, <1>4, <1>5 DEF ViewerInv, PageTypeOK, RowsInv

LEMMA FetchFailsStep ==
    ASSUME ViewerInv, NEW i \in Fetches, FetchFails(i) PROVE ViewerInv'
  <1> USE DEF FetchFails
  <1>1. FeedInv' /\ GoneStays /\ UNCHANGED <<stored, page>>
    BY FeedStays DEF ViewerInv
  <1>2. /\ fetch' \in [Fetches -> Fetch]
        /\ \A j \in Fetches : fetch'[j].rows \subseteq stored
    BY ViewerAssumption DEF ViewerInv, PageTypeOK, RowsInv, Fetch, IdleFetch
  <1>3. LiveInv' BY <1>1, LiveStays
  <1> QED BY <1>1, <1>2, <1>3 DEF ViewerInv, PageTypeOK, RowsInv

LEMMA SetRequestsStep ==
    ASSUME ViewerInv, NEW i \in Fetches, SetRequests(i) PROVE ViewerInv'
  <1> USE DEF SetRequests
  <1>1. FeedInv' /\ GoneStays /\ UNCHANGED stored BY FeedStays DEF ViewerInv
  <1>2. fetch[i].rows \subseteq Requests /\ fetch[i].rows \subseteq stored
    BY DEF ViewerInv, PageTypeOK, RowsInv, Fetch
  <1>3. /\ page' \in Page /\ page'.history = fetch[i].rows /\ page'.live = <<>>
    BY <1>2, EmptySeq DEF ViewerInv, PageTypeOK, Page
  <1>4. /\ fetch' \in [Fetches -> Fetch]
        /\ \A j \in Fetches : fetch'[j].rows \subseteq stored
    BY ViewerAssumption DEF ViewerInv, PageTypeOK, RowsInv, Fetch, IdleFetch
  <1>5. LiveInv' BY <1>3, NoLive
  <1> QED BY <1>1, <1>2, <1>3, <1>4, <1>5 DEF ViewerInv, PageTypeOK, RowsInv

----------------------------------------------------------------------------
(* Live events *)

LEMMA OnEventStep == ASSUME ViewerInv, OnEvent PROVE ViewerInv'
  <1>0. PICK c \in Conns : c = page.source
    BY PageFacts DEF OnEvent, Alive, ViewerInv
  <1> DEFINE e == Head(conn[c].wire)
             shown == e # Connected /\ e \in Passes[page.handlerFilter]
  <1>1. /\ conn[c].wire # <<>> /\ conn' = ReadBy(conn, c)
        /\ UNCHANGED <<received, stored, capture, todo, fetch>>
    BY <1>0 DEF OnEvent
  <1>2. /\ FeedInv' /\ GoneStays
        /\ e \in Requests \cup {Connected}
        /\ \A r \in Requests : r = e => ~Gone(r, c) /\ Gone(r, c)'
    BY <1>1, ReadStep DEF ViewerInv
  <1>3. page' = IF shown THEN [page EXCEPT !.live = <<e>> \o @] ELSE page
    BY <1>0 DEF OnEvent
  <1> HIDE DEF shown
  <1>4. CASE ~shown
    BY <1>1, <1>2, <1>3, <1>4, LiveStays DEF ViewerInv, PageTypeOK, RowsInv
  <1>5. CASE shown
    <2>1. e \in Requests BY <1>2, <1>5 DEF shown
    <2> DEFINE live == <<e>> \o page.live
    <2>2. /\ live \in Seq(Requests)
          /\ \A x : In(x, live) <=> In(x, page.live) \/ x = e
          /\ NoDup(page.live) /\ ~In(e, page.live) => NoDup(live)
      BY <2>1, PageFacts, PrependFacts DEF ViewerInv
    <2>3. ~In(e, page.live) /\ NoDup(page.live)
      BY <1>0, <1>2, <2>1 DEF ViewerInv, LiveInv
    <2>4. page' = [page EXCEPT !.live = live] BY <1>3, <1>5
    <2> HIDE DEF live, e
    <2>5. /\ page' \in Page /\ page'.live = live /\ page'.history = page.history
          /\ page'.source = c
      BY <1>0, <2>2, <2>4 DEF ViewerInv, PageTypeOK, Page
    <2>6. ASSUME NEW r \in Requests, In(r, live)
          PROVE  Gone(r, page.source)'
      <3>1. CASE In(r, page.live)
        <4>1. Gone(r, c) BY <1>0, <3>1 DEF ViewerInv, LiveInv
        <4> QED BY <1>2, <2>5, <4>1 DEF GoneStays, Gone, Passed, OnItsWay
      <3>2. CASE r = e
        BY <1>2, <2>5, <3>2 DEF Gone, Passed, OnItsWay
      <3> QED BY <2>2, <2>6, <3>1, <3>2
    <2>7. LiveInv'
      BY <1>1, <2>2, <2>3, <2>5, <2>6 DEF LiveInv
    <2> QED BY <1>1, <1>2, <2>5, <2>7 DEF ViewerInv, PageTypeOK, RowsInv
  <1> QED BY <1>4, <1>5

LEMMA ReconnectStep ==
    ASSUME ViewerInv, NEW c \in Conns, Reconnect(c) PROVE ViewerInv'
  <1> USE DEF Reconnect
  <1>1. FeedInv' /\ GoneStays BY DialledStep, PageFacts DEF ViewerInv
  <1>2. /\ page' \in Page /\ page'.history = page.history
        /\ page'.live = page.live /\ page'.source = c
    BY DEF ViewerInv, PageTypeOK, Page
  <1>3. LiveInv' BY <1>1, <1>2, LiveStays
  <1> QED BY <1>1, <1>2, <1>3 DEF ViewerInv, PageTypeOK, RowsInv

LEMMA RefusalStep == ASSUME ViewerInv, Refused PROVE ViewerInv'
  <1> USE DEF Refused, Alive
  <1>1. page.source \in Conns BY PageFacts DEF ViewerInv
  <1>2. FeedInv' /\ GoneStays BY <1>1, RefusedStep DEF ViewerInv
  <1>3. /\ page' \in Page /\ page'.history = page.history
        /\ page'.live = page.live /\ page'.source = NoConn
    BY DEF ViewerInv, PageTypeOK, Page
  <1>4. LiveInv' BY <1>2, <1>3, LiveStays
  <1> QED BY <1>2, <1>3, <1>4 DEF ViewerInv, PageTypeOK, RowsInv

----------------------------------------------------------------------------
(* Theorems *)

LEMMA ViewerStepInv == ViewerInv /\ [Next]_vars => ViewerInv'
  <1> SUFFICES ASSUME ViewerInv, [Next]_vars PROVE ViewerInv' OBVIOUS
  <1>1. CASE FeedNext /\ UNCHANGED viewerVars BY <1>1, ServerStep
  <1>2. CASE User
    BY <1>2, OpenStreamStep, CloseStreamStep, SetFilterStep, ClearRequestsStep
       DEF User
  <1>3. CASE History
    BY <1>3, AnswerStep, FetchFailsStep, SetRequestsStep DEF History
  <1>4. CASE BrowserStep
    BY <1>4, OnEventStep, ReconnectStep DEF BrowserStep
  <1>5. CASE Refused BY <1>5, RefusalStep
  <1>6. CASE UNCHANGED vars
    <2>1. UNCHANGED feedVars /\ UNCHANGED <<page, fetch>>
      BY <1>6 DEF vars, viewerVars
    <2>2. FeedInv' /\ GoneStays /\ UNCHANGED stored
      BY <2>1, FeedStays DEF ViewerInv
    <2> QED
      BY <2>1, <2>2, LiveStays DEF ViewerInv, PageTypeOK, RowsInv
  <1> QED BY <1>1, <1>2, <1>3, <1>4, <1>5, <1>6 DEF Next

LEMMA ViewerInvariant == Spec => []ViewerInv
  BY ViewerInitInv, ViewerStepInv, PTL DEF Spec

\* The state of the server, the network, the page and its calls keeps its type,
\* and no channel or connection holds more than it has room for.
THEOREM ViewerTypeCorrect == Spec => []TypeOK
  <1>1. ViewerInv => TypeOK BY DEF ViewerInv, FeedInv, PageTypeOK, TypeOK
  <1> QED BY <1>1, ViewerInvariant, PTL

\* Whatever is on the page is in the database: answers and broadcasts are only
\* ever made of stored requests, across failures of the store and crashes.
THEOREM PageIsStored == Spec => []ShownWasStored
  <1>1. ASSUME ViewerInv PROVE ShownWasStored
    <2>1. \A r \in Live : r \in Requests
      BY <1>1, PageFacts DEF ViewerInv, Live
    <2>2. \A r \in Live : r \in stored
      BY <1>1, <2>1, LiveIsIn DEF ViewerInv, LiveInv, Gone
    <2> QED BY <1>1, <2>2 DEF ViewerInv, RowsInv, ShownWasStored, Shown
  <1> QED BY <1>1, ViewerInvariant, PTL

\* A request is on the page at most once as a live event, whatever reconnections
\* and switches there have been, and at most once as a row of an answer.
THEOREM PageShowsAtMostTwice == Spec => []ShownAtMostTwice
  <1>1. ASSUME ViewerInv, NEW r \in Requests PROVE Occurrences(r) <= 2
    <2> DEFINE at == {i \in DOMAIN page.live : page.live[i] = r}
    <2>1. \A i, j \in at : i = j BY <1>1 DEF ViewerInv, LiveInv, NoDup
    <2>2. at = {} \/ \E i : at = {i} BY <2>1
    <2>3. Cardinality(at) \in {0, 1} BY <2>2, FS_EmptySet, FS_Singleton
    <2> HIDE DEF at
    <2> QED BY <2>3 DEF Occurrences, at
  <1>2. ViewerInv => ShownAtMostTwice BY <1>1 DEF ShownAtMostTwice
  <1> QED BY <1>2, ViewerInvariant, PTL
----------------------------------------------------------------------------
(* The page's stream *)

\* A source that is alive is of the stream the page is on.
SourceInv ==
    page.source \in Conns /\ conn[page.source].peer
    => conn[page.source].stream = page.stream

PageInv == ViewerInv /\ StreamInv /\ SourceInv

LEMMA DialledConn ==
    ASSUME NEW s
    PROVE  LET x == [FreeConn EXCEPT !.phase = "dialled", !.peer = TRUE, !.stream = s] IN
           x.send = <<>> /\ x.wire = <<>> /\ x.stream = s
  BY DEF FreeConn

\* The source stays, or goes; so does the page's stream.
LEMMA SourceStays ==
    ASSUME PageInv, PeersStay, page'.source \in {page.source, NoConn},
           page'.source = page.source => page'.stream = page.stream
    PROVE  SourceInv'
  BY FeedAssumption DEF PageInv, SourceInv, PeersStay

LEMMA UserStream == ASSUME PageInv, User PROVE StreamInv' /\ SourceInv'
  <1> USE DEF PageInv
  <1>0. page \in Page /\ page.source \in Conns \cup {NoConn} /\ NoConn \notin Conns
    BY PageFacts, FeedAssumption DEF ViewerInv, PageTypeOK
  <1>1. ASSUME NEW s \in Streams, NEW f \in Filters, NEW c \in Conns,
               NEW slots \in SUBSET Fetches, OpenStream(s, f, c, slots)
        PROVE  StreamInv' /\ SourceInv'
    <2> DEFINE x == [FreeConn EXCEPT !.phase = "dialled", !.peer = TRUE, !.stream = s]
               d == page.source
               y == [conn[d] EXCEPT !.peer = FALSE, !.wire = <<>>]
    <2>1. /\ conn \in [Conns -> Connection] /\ conn[c].phase = "free" /\ c # d
          /\ \A r \in Requests : c \notin todo[r]
      BY <1>1, NotToVisit, FreeConnFacts
         DEF OpenStream, ViewerInv, FeedInv, FeedTypeOK
    <2>2. x.send = <<>> /\ x.wire = <<>> /\ x.stream = s BY DialledConn
    <2>3. d \in Conns => y.send = conn[d].send /\ y.wire = <<>> /\ y.stream = conn[d].stream
      BY <2>1 DEF Connection
    <2>4. /\ UNCHANGED todo /\ page'.stream = s /\ page'.source = c
          /\ conn' = [(IF d = NoConn THEN conn ELSE [conn EXCEPT ![d] = y]) EXCEPT ![c] = x]
      BY <1>0, <1>1, <2>1 DEF OpenStream, HungUp, DialledBy, Page
    <2> HIDE DEF x, y
    <2>5. \A b \in Conns : conn'[b] = IF b = c THEN x ELSE IF b = d THEN y ELSE conn[b]
      BY <1>0, <2>1, <2>4
    <2> HIDE DEF d
    <2>6. StreamInv'
      BY <2>1, <2>2, <2>3, <2>4, <2>5, EmptyFacts DEF StreamInv, OnItsWay
    <2> QED BY <2>2, <2>4, <2>5, <2>6 DEF SourceInv
  <1>2. ASSUME CloseStream PROVE StreamInv' /\ SourceInv'
    <2>1. StreamInv'
      <3>1. CASE page.source = NoConn
        BY <1>2, <3>1, SameStreams DEF CloseStream, HungUp
      <3>2. CASE page.source \in Conns
        BY <1>2, <3>2, HungUpStream DEF CloseStream, ViewerInv
      <3> QED BY <1>0, <3>1, <3>2
    <2>2. page'.source = NoConn BY <1>0, <1>2 DEF CloseStream, Page
    <2> QED BY <1>0, <2>1, <2>2 DEF SourceInv
  <1>3. ASSUME UNCHANGED feedVars, page'.source = page.source, page'.stream = page.stream
        PROVE  StreamInv' /\ SourceInv'
    <2>1. StreamInv' /\ PeersStay BY <1>3, SameStreams DEF feedVars
    <2> QED BY <1>3, <2>1, SourceStays
  <1>4. ASSUME NEW f \in Filters, NEW i \in Fetches, SetFilter(f, i)
        PROVE  StreamInv' /\ SourceInv'
    BY <1>0, <1>3, <1>4 DEF SetFilter, Page
  <1>5. ASSUME ClearRequests PROVE StreamInv' /\ SourceInv'
    BY <1>0, <1>3, <1>5 DEF ClearRequests, Page
  <1> QED BY <1>1, <1>2, <1>4, <1>5 DEF User

LEMMA PageStream == ASSUME PageInv, [Next]_vars PROVE StreamInv' /\ SourceInv'
  <1> USE DEF PageInv
  <1>0. page \in Page /\ page.source \in Conns \cup {NoConn} /\ NoConn \notin Conns
    BY PageFacts, FeedAssumption DEF ViewerInv, PageTypeOK
  <1>1. CASE FeedNext /\ UNCHANGED viewerVars
    BY <1>1, FeedStream, SourceStays DEF ViewerInv, viewerVars
  <1>2. CASE User BY <1>2, UserStream
  <1>3. CASE History \/ UNCHANGED vars
    <2>1. UNCHANGED <<conn, todo>>
      BY <1>3 DEF History, Answer, FetchFails, SetRequests, feedVars, vars
    <2>2. page'.source = page.source /\ page'.stream = page.stream
      BY <1>0, <1>3 DEF History, Answer, FetchFails, SetRequests, vars, viewerVars, Page
    <2> QED BY <2>1, <2>2, SameStreams, SourceStays
  <1>4. CASE OnEvent
    <2>1. /\ page.source \in Conns /\ conn[page.source].wire # <<>>
          /\ conn' = ReadBy(conn, page.source) /\ UNCHANGED todo
      BY <1>0, <1>4 DEF OnEvent, Alive
    <2>2. page'.source = page.source /\ page'.stream = page.stream
      BY <1>0, <1>4 DEF OnEvent, Page
    <2> QED BY <2>1, <2>2, ReadStream, SourceStays DEF ViewerInv
  <1>5. ASSUME NEW c \in Conns, Reconnect(c) PROVE StreamInv' /\ SourceInv'
    <2> DEFINE x == [FreeConn EXCEPT !.phase = "dialled", !.peer = TRUE,
                                     !.stream = page.stream]
    <2>1. /\ conn' = [conn EXCEPT ![c] = x] /\ UNCHANGED todo
          /\ page'.source = c /\ page'.stream = page.stream
          /\ conn \in [Conns -> Connection]
          /\ \A r \in Requests : c \notin todo[r]
      BY <1>0, <1>5, NotToVisit, FreeConnFacts
         DEF Reconnect, DialledBy, Page, ViewerInv, FeedInv, FeedTypeOK
    <2>2. x.send = <<>> /\ x.wire = <<>> /\ x.stream = page.stream BY DialledConn
    <2> HIDE DEF x
    <2> QED BY <2>1, <2>2, FreshStream DEF SourceInv, ViewerInv
  <1>6. CASE Refused
    <2>1. /\ page.source \in Conns /\ conn[page.source].phase = "dialled"
          /\ conn' = [conn EXCEPT ![page.source] = FreeConn] /\ UNCHANGED todo
          /\ page'.source = NoConn
      BY <1>0, <1>6 DEF Refused, Alive, RefusedBy, Page
    <2>2. StreamInv'
      BY <2>1, NotToVisit, FreshStream, FreeConnFacts DEF ViewerInv
    <2> QED BY <1>0, <2>1, <2>2 DEF SourceInv
  <1> QED BY <1>1, <1>2, <1>3, <1>4, <1>5, <1>6 DEF Next, BrowserStep

\* A live event that reaches the list is of the stream the page is on, for any
\* number of switches, reconnections and connections still open on the server.
THEOREM LiveOfPage == Spec => LiveIsOfPage
  <1>1. Init => PageInv
    <2>1. Init => StreamInv
      BY EmptyFacts, FreeConnFacts DEF Init, FeedInit, StreamInv, OnItsWay
    <2>2. Init => SourceInv
      BY FeedAssumption DEF Init, SourceInv, BlankPage
    <2> QED BY <2>1, <2>2, ViewerInitInv DEF PageInv
  <1>2. PageInv /\ [Next]_vars => PageInv'
    BY ViewerStepInv, PageStream DEF PageInv
  <1>3. PageInv => [OnEvent => \A r \in Requests :
            page'.live = <<r>> \o page.live => StreamOf[r] = page.stream]_vars
    <2> SUFFICES ASSUME PageInv, OnEvent, NEW r \in Requests,
                        page'.live = <<r>> \o page.live
                 PROVE  StreamOf[r] = page.stream
      OBVIOUS
    <2> DEFINE c == page.source
               e == Head(conn[c].wire)
    <2>1. /\ c \in Conns /\ conn[c].peer /\ conn[c].wire # <<>> /\ page \in Page
          /\ page.live \in Seq(Requests)
      BY PageFacts DEF OnEvent, Alive, PageInv, ViewerInv, PageTypeOK
    <2>2. /\ In(e, conn[c].wire) /\ e \in Requests \cup {Connected}
      BY <2>1, FeedFacts, TailFacts DEF PageInv, ViewerInv
    <2>3. page.live # <<r>> \o page.live
      BY <2>1, ConcatProperties, LenProperties
    <2>4. e \in Passes[page.handlerFilter] /\ e # Connected /\ page'.live = <<e>> \o page.live
      BY <2>1, <2>3 DEF OnEvent, Page
    <2>5. r = e
      <3>1. e \in Requests BY <2>2, <2>4
      <3>2. (<<e>> \o page.live)[1] = e /\ (<<r>> \o page.live)[1] = r
        BY <2>1, <3>1
      <3> QED BY <2>4, <3>2
    <2>6. StreamOf[r] = conn[c].stream
      BY <2>1, <2>2, <2>5 DEF PageInv, StreamInv, OnItsWay
    <2> QED BY <2>1, <2>6 DEF PageInv, SourceInv
  <1> QED BY <1>1, <1>2, <1>3, PTL DEF Spec, LiveIsOfPage
=============================================================================
