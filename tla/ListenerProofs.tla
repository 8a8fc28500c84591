--------------------------- MODULE ListenerProofs ---------------------------
(***************************************************************************)
(* Theorems about the command line client: what it is sent is forwarded at *)
(* most once, and not at all if it has been reported as dropped.  With all *)
(* its connections, channels and goroutines it implements Relay.           *)
(***************************************************************************)
EXTENDS Listener, FeedProofs

ClientTypeOK ==
    /\ loop \in LoopState
    /\ events \in Seq(Requests \cup {Connected})
    /\ queue \in Seq(Requests)
    /\ worker \in Requests \cup {NoRequest}
    /\ forwarded \in Seq(Requests)
    /\ dropped \subseteq Requests
    /\ Len(events) <= EventsCap
    /\ Len(queue) <= QueueCap

\* The channel to the renderer has Connected once per connection.
OnceEach(s) ==
    \A i, j \in DOMAIN s : s[i] = s[j] /\ s[i] \in Requests => i = j

\* A request is in one place of the client only.
PlaceInv ==
    /\ OnceEach(events) /\ NoDup(queue) /\ NoDup(forwarded)
    /\ \A r \in Requests :
          /\ In(r, events) => ~In(r, queue) /\ worker # r
          /\ In(r, events) => ~In(r, forwarded) /\ r \notin dropped
          /\ In(r, queue) => worker # r /\ ~In(r, forwarded) /\ r \notin dropped
          /\ worker = r => ~In(r, forwarded) /\ r \notin dropped
          /\ In(r, forwarded) => r \notin dropped

Held(r) ==
    \/ In(r, events) \/ In(r, queue) \/ worker = r
    \/ In(r, forwarded) \/ r \in dropped

\* What the client has will not come again on its connection, nor on one that is
\* yet to be opened.
HeldInv ==
    \A r \in Requests : Held(r) =>
        /\ \E c \in Conns : Gone(r, c)
        /\ loop.source \in Conns => Gone(r, loop.source)

ListenerInv == FeedInv /\ ClientTypeOK /\ PlaceInv /\ HeldInv

----------------------------------------------------------------------------
LEMMA AppendOnce ==
    ASSUME NEW s \in Seq(Requests \cup {Connected}),
           NEW e \in Requests \cup {Connected},
           OnceEach(s), e \in Requests => ~In(e, s)
    PROVE  OnceEach(Append(s, e))
  <1>1. /\ DOMAIN s = 1 .. Len(s) /\ DOMAIN Append(s, e) = 1 .. Len(s) + 1
        /\ \A i \in 1 .. Len(s) : Append(s, e)[i] = s[i]
        /\ Append(s, e)[Len(s) + 1] = e /\ Len(s) \in Nat
    BY AppendProperties, LenProperties
  <1> QED BY <1>1 DEF OnceEach, In

LEMMA TailOnce ==
    ASSUME NEW s \in Seq(Requests \cup {Connected}), s # <<>>, OnceEach(s)
    PROVE  OnceEach(Tail(s)) /\ (Head(s) \in Requests => ~In(Head(s), Tail(s)))
  <1>1. Len(s) \in Nat \ {0} /\ DOMAIN s = 1 .. Len(s) BY EmptySeq, LenProperties
  <1>2. /\ Tail(s) \in Seq(Requests \cup {Connected})
        /\ Len(Tail(s)) = Len(s) - 1
        /\ \A i \in 1 .. Len(Tail(s)) : Tail(s)[i] = s[i + 1]
    BY HeadTailProperties
  <1>3. DOMAIN Tail(s) = 1 .. Len(s) - 1 BY <1>2, LenProperties
  <1>4. Head(s) = s[1] BY <1>1
  <1> QED BY <1>1, <1>2, <1>3, <1>4 DEF OnceEach, In

LEMMA ListenerInitInv == Init => ListenerInv
  <1> SUFFICES ASSUME Init PROVE ListenerInv OBVIOUS
  <1> USE DEF Init
  <1>1. ClientTypeOK
    <2>1. <<>> \in Seq(Requests) /\ <<>> \in Seq(Requests \cup {Connected})
          /\ Len(<<>>) = 0
      BY EmptySeq
    <2> QED BY <2>1, ListenerAssumption DEF ClientTypeOK, LoopState
  <1>2. PlaceInv /\ HeldInv
    BY EmptyFacts, ListenerAssumption DEF PlaceInv, HeldInv, Held, OnceEach
  <1> QED BY <1>1, <1>2, FeedInitInv DEF ListenerInv

----------------------------------------------------------------------------
(* What the steps have in common *)

\* Nothing new is held, and the source is kept, given up or opened anew.
LEMMA HeldStays ==
    ASSUME ListenerInv, GoneStays, NEW src, loop'.source = src,
           \A r \in Requests : Held(r)' => Held(r),
           \/ src \in {loop.source, NoConn}
           \/ src \in Conns /\ conn[src].phase = "free"
    PROVE  HeldInv'
  <1>1. ASSUME NEW r \in Requests, Held(r)
        PROVE  /\ \E c \in Conns : Gone(r, c)'
               /\ src \in Conns => Gone(r, src)'
    <2>1. PICK c \in Conns : Gone(r, c) BY <1>1 DEF ListenerInv, HeldInv
    <2>2. src \in Conns => Gone(r, src)
      BY <1>1, <2>1, FreshGone, FeedAssumption DEF ListenerInv, HeldInv
    <2> QED BY <2>1, <2>2 DEF GoneStays
  <1>2. \A r \in Requests : Gone(r, src)' = Gone(r, loop.source)'
    BY DEF Gone, Passed, OnItsWay
  <1> QED BY <1>1, <1>2 DEF HeldInv

LEMMA ClientStays ==
    ASSUME ListenerInv, UNCHANGED <<events, queue, worker, forwarded, dropped>>
    PROVE  PlaceInv' /\ \A r \in Requests : Held(r)' => Held(r)
  BY DEF ListenerInv, PlaceInv, Held, OnceEach

LEMMA LoopFacts ==
    ASSUME ClientTypeOK
    PROVE  /\ loop.source \in Conns \cup {NoConn}
           /\ loop.delay \in 1 .. MaxDelay /\ MaxDelay \in Nat \ {0}
           /\ loop \in LoopState
  BY ListenerAssumption DEF ClientTypeOK, LoopState

\* A step of the loop: the connection changes, the contents of the client stay.
LEMMA LoopMoves ==
    ASSUME ListenerInv, FeedInv', GoneStays, loop' \in LoopState,
           UNCHANGED <<events, queue, worker, forwarded, dropped>>,
           NEW src, loop'.source = src,
           \/ src \in {loop.source, NoConn}
           \/ src \in Conns /\ conn[src].phase = "free"
    PROVE  ListenerInv'
  <1>1. PlaceInv' /\ \A r \in Requests : Held(r)' => Held(r) BY ClientStays
  <1>2. HeldInv' BY <1>1, HeldStays
  <1>3. ClientTypeOK' BY DEF ListenerInv, ClientTypeOK
  <1> QED BY <1>1, <1>2, <1>3 DEF ListenerInv

----------------------------------------------------------------------------
(* The server and the loop *)

LEMMA ServerStep ==
    ASSUME ListenerInv, FeedNext, UNCHANGED listenerVars PROVE ListenerInv'
  <1>1. FeedInv' /\ GoneStays BY FeedStep DEF ListenerInv
  <1> QED BY <1>1, LoopMoves DEF listenerVars, ListenerInv, ClientTypeOK

LEMMA ConnectStep ==
    ASSUME ListenerInv, NEW c \in Conns, Connect(c) PROVE ListenerInv'
  <1> USE DEF Connect
  <1>1. FeedInv' /\ GoneStays BY DialledStep, ListenerAssumption DEF ListenerInv
  <1>2. loop' \in LoopState /\ loop'.source = c
    BY LoopFacts DEF ListenerInv, LoopState
  <1> QED BY <1>1, <1>2, LoopMoves

LEMMA StreamEndsStep == ASSUME ListenerInv, StreamEnds PROVE ListenerInv'
  <1> USE DEF StreamEnds
  <1>1. FeedInv' /\ GoneStays BY FeedStays DEF ListenerInv
  <1>2. PICK delay \in 1 .. MaxDelay :
          loop' = [loop EXCEPT !.phase = "waiting", !.source = NoConn, !.delay = delay]
    <2>1. PICK stable \in BOOLEAN :
            loop' = [loop EXCEPT !.phase = "waiting", !.source = NoConn,
                                 !.delay = IF stable THEN 1 ELSE loop.delay]
      BY LoopFacts DEF ListenerInv, LoopState
    <2>2. (IF stable THEN 1 ELSE loop.delay) \in 1 .. MaxDelay
      BY LoopFacts DEF ListenerInv
    <2> QED BY <2>1, <2>2
  <1>3. loop' \in LoopState /\ loop'.source = NoConn
    BY <1>2, LoopFacts DEF ListenerInv, LoopState
  <1> QED BY <1>1, <1>3, LoopMoves

LEMMA WaitedStep == ASSUME ListenerInv, Waited PROVE ListenerInv'
  <1> USE DEF Waited
  <1>1. FeedInv' /\ GoneStays BY FeedStays DEF ListenerInv
  <1> DEFINE delay == IF 2 * loop.delay > MaxDelay THEN MaxDelay ELSE 2 * loop.delay
  <1>2. delay \in 1 .. MaxDelay BY LoopFacts DEF ListenerInv
  <1>3. loop' = [loop EXCEPT !.phase = "ready", !.delay = delay]
    BY LoopFacts DEF ListenerInv, LoopState
  <1> HIDE DEF delay
  <1>4. loop' \in LoopState /\ loop'.source = loop.source
    BY <1>2, <1>3, LoopFacts DEF ListenerInv, LoopState
  <1> QED BY <1>1, <1>4, LoopMoves

LEMMA RefusalStep == ASSUME ListenerInv, Refused PROVE ListenerInv'
  <1> USE DEF Refused, Alive
  <1>1. loop.source \in Conns BY LoopFacts DEF ListenerInv
  <1>2. FeedInv' /\ GoneStays BY <1>1, RefusedStep DEF ListenerInv
  <1>3. loop' \in LoopState /\ loop'.source = NoConn
    BY LoopFacts DEF ListenerInv, LoopState
  <1> QED BY <1>2, <1>3, LoopMoves

LEMMA InterruptStep == ASSUME ListenerInv, Interrupt PROVE ListenerInv'
  <1> USE DEF Interrupt
  <1>1. FeedInv' /\ GoneStays BY LoopFacts, HungUpStep DEF ListenerInv
  <1>2. loop' \in LoopState /\ loop'.source = NoConn
    BY LoopFacts DEF ListenerInv, LoopState
  <1> QED BY <1>1, <1>2, LoopMoves

----------------------------------------------------------------------------
(* The way of a request through the client *)

LEMMA DispatchStep == ASSUME ListenerInv, Dispatch PROVE ListenerInv'
  <1>0. PICK c \in Conns : c = loop.source
    BY LoopFacts DEF Dispatch, Alive, ListenerInv
  <1> DEFINE e == Head(conn[c].wire)
  <1>1. /\ conn[c].wire # <<>> /\ conn' = ReadBy(conn, c)
        /\ Len(events) < EventsCap /\ events' = Append(events, e)
        /\ UNCHANGED <<received, stored, capture, todo,
                       loop, queue, worker, forwarded, dropped>>
    BY <1>0 DEF Dispatch
  <1>2. /\ FeedInv' /\ GoneStays
        /\ e \in Requests \cup {Connected}
        /\ \A r \in Requests : r = e => ~Gone(r, c) /\ Gone(r, c)'
    BY <1>1, ReadStep DEF ListenerInv
  <1>3. e \in Requests => ~Held(e) BY <1>0, <1>2 DEF ListenerInv, HeldInv
  <1> HIDE DEF e
  <1>4. /\ events' \in Seq(Requests \cup {Connected})
        /\ Len(events') = Len(events) + 1 /\ Len(events) \in Nat
        /\ \A x : In(x, events') <=> In(x, events) \/ x = e
    BY <1>1, <1>2, AppendFacts, LenProperties DEF ListenerInv, ClientTypeOK
  <1>5. OnceEach(events')
    BY <1>1, <1>2, <1>3, AppendOnce DEF ListenerInv, ClientTypeOK, PlaceInv, Held
  <1>6. ClientTypeOK'
    BY <1>1, <1>4, ListenerAssumption DEF ListenerInv, ClientTypeOK
  <1>7. PlaceInv'
    BY <1>1, <1>3, <1>4, <1>5 DEF ListenerInv, PlaceInv, Held
  <1>8. ASSUME NEW r \in Requests, Held(r)' PROVE Gone(r, c)'
    <2>1. CASE r = e BY <1>2, <2>1
    <2>2. CASE r # e
      <3>1. Held(r) BY <1>1, <1>4, <1>8, <2>2 DEF Held
      <3>2. Gone(r, c) BY <1>0, <3>1 DEF ListenerInv, HeldInv
      <3> QED BY <1>2, <3>2 DEF GoneStays
    <2> QED BY <2>1, <2>2
  <1>9. loop'.source = c BY <1>0, <1>1
  <1>10. \A r \in Requests : Gone(r, c)' = Gone(r, loop.source)'
    BY <1>9 DEF Gone, Passed, OnItsWay
  <1>11. HeldInv' BY <1>8, <1>10 DEF HeldInv
  <1> QED BY <1>2, <1>6, <1>7, <1>11 DEF ListenerInv

\* A step inside the client.
LEMMA ClientMoves ==
    ASSUME ListenerInv, UNCHANGED <<feedVars, loop>>,
           ClientTypeOK', PlaceInv', \A r \in Requests : Held(r)' => Held(r)
    PROVE  ListenerInv'
  <1>1. FeedInv' /\ GoneStays BY FeedStays DEF ListenerInv
  <1>2. HeldInv' BY <1>1, HeldStays
  <1> QED BY <1>1, <1>2 DEF ListenerInv

LEMMA RenderStep == ASSUME ListenerInv, Render PROVE ListenerInv'
  <1> DEFINE e == Head(events)
  <1>1. /\ events # <<>> /\ events' = Tail(events)
        /\ UNCHANGED <<feedVars, loop, worker, forwarded>>
    BY DEF Render
  <1>2. events \in Seq(Requests \cup {Connected}) BY DEF ListenerInv, ClientTypeOK
  <1>3. /\ e \in Requests \cup {Connected} /\ In(e, events)
        /\ events' \in Seq(Requests \cup {Connected})
        /\ Len(events') = Len(events) - 1 /\ Len(events) \in Nat
        /\ \A x : In(x, events') => In(x, events)
    BY <1>1, <1>2, TailFacts, LenProperties
  <1>4. OnceEach(events') /\ (e \in Requests => ~In(e, events'))
    BY <1>1, <1>2, TailOnce DEF ListenerInv, PlaceInv
  <1>5. Len(events') <= EventsCap
    BY <1>3, ListenerAssumption DEF ListenerInv, ClientTypeOK
  <1>6. \/ UNCHANGED <<queue, dropped>>
        \/ /\ e \in Requests /\ Len(queue) < QueueCap
           /\ queue' = Append(queue, e) /\ dropped' = dropped
        \/ /\ e \in Requests
           /\ queue' = queue /\ dropped' = dropped \cup {e}
    BY <1>3 DEF Render, Enqueue
  <1> HIDE DEF e
  <1>7. CASE UNCHANGED <<queue, dropped>>
    <2>1. ClientTypeOK'
      BY <1>1, <1>3, <1>5, <1>7 DEF ListenerInv, ClientTypeOK
    <2>2. PlaceInv'
      BY <1>1, <1>3, <1>4, <1>7 DEF ListenerInv, PlaceInv
    <2> QED BY <1>1, <1>3, <1>7, <2>1, <2>2, ClientMoves DEF Held
  <1>8. CASE /\ e \in Requests /\ Len(queue) < QueueCap
             /\ queue' = Append(queue, e) /\ dropped' = dropped
    <2>1. /\ queue' \in Seq(Requests)
          /\ Len(queue') = Len(queue) + 1 /\ Len(queue) \in Nat
          /\ \A x : In(x, queue') <=> In(x, queue) \/ x = e
          /\ NoDup(queue) /\ ~In(e, queue) => NoDup(queue')
      BY <1>8, AppendFacts, LenProperties DEF ListenerInv, ClientTypeOK
    <2>2. ClientTypeOK'
      BY <1>1, <1>3, <1>5, <1>8, <2>1, ListenerAssumption DEF ListenerInv, ClientTypeOK
    <2>3. PlaceInv'
      BY <1>1, <1>3, <1>4, <1>8, <2>1 DEF ListenerInv, PlaceInv
    <2> QED BY <1>1, <1>3, <1>8, <2>1, <2>2, <2>3, ClientMoves DEF Held
  <1>9. CASE e \in Requests /\ queue' = queue /\ dropped' = dropped \cup {e}
    <2>1. ClientTypeOK'
      BY <1>1, <1>3, <1>5, <1>9 DEF ListenerInv, ClientTypeOK
    <2>2. PlaceInv'
      BY <1>1, <1>3, <1>4, <1>9 DEF ListenerInv, PlaceInv
    <2> QED BY <1>1, <1>3, <1>9, <2>1, <2>2, ClientMoves DEF Held
  <1> QED BY <1>6, <1>7, <1>8, <1>9

LEMMA TakeStep == ASSUME ListenerInv, Take PROVE ListenerInv'
  <1> USE DEF Take
  <1>1. /\ worker' \in Requests /\ In(worker', queue)
        /\ queue' \in Seq(Requests)
        /\ Len(queue') = Len(queue) - 1 /\ Len(queue) \in Nat
        /\ \A x : In(x, queue') => In(x, queue)
        /\ NoDup(queue') /\ ~In(worker', queue')
    BY TailFacts, LenProperties DEF ListenerInv, ClientTypeOK, PlaceInv
  <1>2. ClientTypeOK'
    BY <1>1, ListenerAssumption DEF ListenerInv, ClientTypeOK
  <1>3. PlaceInv' BY <1>1, ListenerAssumption DEF ListenerInv, PlaceInv
  <1> QED BY <1>1, <1>2, <1>3, ClientMoves DEF Held

LEMMA DeliverStep == ASSUME ListenerInv, Deliver PROVE ListenerInv'
  <1> USE DEF Deliver
  <1>1. /\ worker \in Requests /\ ~In(worker, forwarded)
        /\ forwarded' \in Seq(Requests)
        /\ \A x : In(x, forwarded') <=> In(x, forwarded) \/ x = worker
        /\ NoDup(forwarded')
    BY AppendFacts DEF ListenerInv, ClientTypeOK, PlaceInv
  <1>2. ClientTypeOK' BY <1>1 DEF ListenerInv, ClientTypeOK
  <1>3. PlaceInv' BY <1>1, ListenerAssumption DEF ListenerInv, PlaceInv
  <1>4. \A r \in Requests : Held(r)' => Held(r)
    BY <1>1, ListenerAssumption DEF Held
  <1> QED BY <1>2, <1>3, <1>4, ClientMoves

----------------------------------------------------------------------------
(* Theorems *)

LEMMA ListenerStepInv == ListenerInv /\ [Next]_vars => ListenerInv'
  <1> SUFFICES ASSUME ListenerInv, [Next]_vars PROVE ListenerInv' OBVIOUS
  <1>1. CASE FeedNext /\ UNCHANGED listenerVars BY <1>1, ServerStep
  <1>2. CASE LoopStep
    BY <1>2, WaitedStep, StreamEndsStep, ConnectStep DEF LoopStep
  <1>3. CASE UNCHANGED vars
    <2>1. UNCHANGED feedVars /\ UNCHANGED listenerVars BY <1>3 DEF vars
    <2>2. FeedInv' /\ GoneStays BY <2>1, FeedStays DEF ListenerInv
    <2> QED BY <2>1, <2>2, LoopMoves DEF listenerVars, ListenerInv, ClientTypeOK
  <1> QED
    BY <1>1, <1>2, <1>3, DispatchStep, RefusalStep, InterruptStep, RenderStep,
       TakeStep, DeliverStep
       DEF Next, WorkerStep

LEMMA ListenerInvariant == Spec => []ListenerInv
  BY ListenerInitInv, ListenerStepInv, PTL DEF Spec

\* The state of the client keeps its type, its channels hold no more than they
\* have room for, and the delay between connections stays within its limit.
THEOREM ListenerTypeCorrect == Spec => []TypeOK
  <1>1. ListenerInv => TypeOK BY DEF ListenerInv, FeedInv, ClientTypeOK, TypeOK
  <1> QED BY <1>1, ListenerInvariant, PTL

\* The local target is sent a request at most once, for any number of
\* connections, reconnections, channels that overflow and crashes of the server.
THEOREM ListenerForwardsOnce == Spec => []ForwardedOnce
  <1>1. ASSUME ListenerInv, NEW r \in Requests PROVE AtMostOnceIn(forwarded, r)
    <2> DEFINE at == {i \in DOMAIN forwarded : forwarded[i] = r}
    <2>1. \A i, j \in at : i = j BY <1>1 DEF ListenerInv, PlaceInv, NoDup
    <2>2. at = {} \/ \E i : at = {i} BY <2>1
    <2>3. Cardinality(at) \in {0, 1} BY <2>2, FS_EmptySet, FS_Singleton
    <2> HIDE DEF at
    <2> QED BY <2>3 DEF AtMostOnceIn, at
  <1>2. ListenerInv => ForwardedOnce BY <1>1 DEF ForwardedOnce
  <1> QED BY <1>2, ListenerInvariant, PTL

\* What the user has been told is dropped is never forwarded as well, not even
\* by another connection.
THEOREM ListenerDropsForGood == Spec => []DroppedIsNot
  <1>1. ASSUME ListenerInv, NEW i \in DOMAIN forwarded
        PROVE  forwarded[i] \notin dropped
    <2>1. forwarded[i] \in Requests BY <1>1 DEF ListenerInv, ClientTypeOK
    <2>2. In(forwarded[i], forwarded) BY <1>1 DEF In
    <2> QED BY <1>1, <2>1, <2>2 DEF ListenerInv, PlaceInv
  <1>2. ListenerInv => DroppedIsNot BY <1>1 DEF DroppedIsNot
  <1> QED BY <1>2, ListenerInvariant, PTL

----------------------------------------------------------------------------
(* Sequences that are read at one end and written at the other *)

LEMMA AppendConcat ==
    ASSUME NEW S, NEW s \in Seq(S), NEW t \in Seq(S), NEW e \in S
    PROVE  s \o Append(t, e) = Append(s \o t, e)
  <1>1. <<e>> \in Seq(S) /\ s \o t \in Seq(S) BY ConcatProperties
  <1>2. Append(t, e) = t \o <<e>> /\ Append(s \o t, e) = (s \o t) \o <<e>>
    BY <1>1, AppendIsConcat
  <1> QED BY <1>1, <1>2, ConcatAssociative

LEMMA HeadAndTail ==
    ASSUME NEW S, NEW s \in Seq(S), s # <<>>
    PROVE  s = <<Head(s)>> \o Tail(s) /\ Head(s) \in S /\ Tail(s) \in Seq(S)
  <1>1. Len(s) \in Nat \ {0} BY EmptySeq
  <1>2. SubSeq(s, 1, Len(s)) = <<s[1]>> \o SubSeq(s, 1 + 1, Len(s))
    BY <1>1, SubSeqRecursiveFirst
  <1>3. SubSeq(s, 1, Len(s)) = s /\ Tail(s) = SubSeq(s, 2, Len(s))
    BY SubSeqFull, TailIsSubSeq
  <1> QED BY <1>1, <1>2, <1>3, HeadTailProperties

\* The head of one becomes the end of the other.
LEMMA HeadMoves ==
    ASSUME NEW S, NEW s \in Seq(S), NEW t \in Seq(S), t # <<>>
    PROVE  Append(s, Head(t)) \o Tail(t) = s \o t
  <1>1. t = <<Head(t)>> \o Tail(t) /\ Head(t) \in S /\ Tail(t) \in Seq(S)
    BY HeadAndTail
  <1>2. Append(s, Head(t)) = s \o <<Head(t)>> /\ <<Head(t)>> \in Seq(S)
    BY <1>1, AppendIsConcat
  <1>3. (s \o <<Head(t)>>) \o Tail(t) = s \o (<<Head(t)>> \o Tail(t))
    BY <1>1, <1>2, ConcatAssociative
  <1> QED BY <1>1, <1>2, <1>3

LEMMA HeadOfConcat ==
    ASSUME NEW S, NEW s \in Seq(S), NEW t \in Seq(S), s # <<>>
    PROVE  /\ s \o t # <<>> /\ Head(s \o t) = Head(s)
           /\ Tail(s \o t) = Tail(s) \o t
  <1>1. Len(s) \in Nat \ {0} /\ Len(t) \in Nat BY EmptySeq, LenProperties
  <1>2. /\ s \o t \in Seq(S) /\ Len(s \o t) = Len(s) + Len(t)
        /\ \A i \in 1 .. Len(s) + Len(t) :
              (s \o t)[i] = IF i <= Len(s) THEN s[i] ELSE t[i - Len(s)]
    BY ConcatProperties
  <1>3. s \o t # <<>> BY <1>1, <1>2, EmptySeq
  <1>4. (s \o t)[1] = s[1] BY <1>1, <1>2
  <1>5. /\ Tail(s) \in Seq(S) /\ Len(Tail(s)) = Len(s) - 1
        /\ \A i \in 1 .. Len(Tail(s)) : Tail(s)[i] = s[i + 1]
        /\ Tail(s \o t) \in Seq(S) /\ Len(Tail(s \o t)) = Len(s) + Len(t) - 1
        /\ \A i \in 1 .. Len(Tail(s \o t)) : Tail(s \o t)[i] = (s \o t)[i + 1]
    BY <1>2, <1>3, HeadTailProperties
  <1>6. /\ Tail(s) \o t \in Seq(S) /\ Len(Tail(s) \o t) = Len(s) - 1 + Len(t)
        /\ \A i \in 1 .. Len(s) - 1 + Len(t) :
              (Tail(s) \o t)[i] = IF i <= Len(s) - 1 THEN Tail(s)[i]
                                 ELSE t[i - (Len(s) - 1)]
    BY <1>5, ConcatProperties
  <1>7. ASSUME NEW i \in 1 .. Len(s) + Len(t) - 1
        PROVE  Tail(s \o t)[i] = (Tail(s) \o t)[i]
    <2>1. Tail(s \o t)[i] = (s \o t)[i + 1] BY <1>5
    <2>2. i + 1 \in 1 .. Len(s) + Len(t) BY <1>1
    <2>3. CASE i <= Len(s) - 1
      BY <1>1, <1>2, <1>5, <1>6, <2>1, <2>2, <2>3
    <2>4. CASE ~(i <= Len(s) - 1)
      <3>1. i - (Len(s) - 1) = i + 1 - Len(s) /\ ~(i + 1 <= Len(s))
        BY <1>1, <2>4
      <3> QED BY <1>1, <1>2, <1>6, <2>1, <2>2, <2>4, <3>1
    <2> QED BY <2>3, <2>4
  <1>8. Tail(s \o t) = Tail(s) \o t
    BY <1>1, <1>5, <1>6, <1>7, SeqEqual
  <1> QED BY <1>1, <1>3, <1>4, <1>8

LEMMA RestOfLength ==
    ASSUME NEW m \in Nat, NEW n \in Nat \ {0}, NEW i, i = m + 1, NEW l, l = m + n
    PROVE  (i + 1 <= l <=> n >= 2) /\ l - (i + 1) + 1 = n - 1
  OBVIOUS

\* What follows s is taken out of s \o t.
LEMMA HeadTakenOut ==
    ASSUME NEW S, NEW s \in Seq(S), NEW t \in Seq(S), t # <<>>
    PROVE  /\ Len(s) + 1 \in DOMAIN (s \o t) /\ (s \o t)[Len(s) + 1] = Head(t)
           /\ Promise!RemoveAt(s \o t, Len(s) + 1) = s \o Tail(t)
  <1> DEFINE u == s \o t
             i == Len(s) + 1
  <1>0. u = s \o t /\ i = Len(s) + 1 OBVIOUS
  <1> HIDE DEF u, i
  <1> USE <1>0
  <1>1. Len(s) \in Nat /\ Len(t) \in Nat \ {0} BY EmptySeq, LenProperties
  <1>2. /\ u \in Seq(S) /\ Len(u) = Len(s) + Len(t)
        /\ \A k \in 1 .. Len(s) + Len(t) :
              u[k] = IF k <= Len(s) THEN s[k] ELSE t[k - Len(s)]
    BY ConcatProperties
  <1>3. DOMAIN u = 1 .. Len(s) + Len(t) /\ i \in 1 .. Len(s) + Len(t)
    BY <1>1, <1>2, LenProperties
  <1>4. u[i] = t[1] /\ Head(t) = t[1]
    <2>1. ~(i <= Len(s)) /\ i - Len(s) = 1 BY <1>1
    <2> QED BY <1>1, <1>2, <1>3, <2>1
  <1>5. \A k \in 1 .. Len(u) : u[k] \in S BY <1>2, ElementOfSeq
  <1>6. SubSeq(u, 1, i - 1) = s
    <2>1. /\ SubSeq(u, 1, Len(s)) \in Seq(S)
          /\ Len(SubSeq(u, 1, Len(s))) = Len(s)
          /\ \A k \in 1 .. Len(s) : SubSeq(u, 1, Len(s))[k] = u[k]
      <3>1. \A k \in 1 .. Len(s) : u[k] \in S BY <1>1, <1>2, <1>5
      <3>2. Len(s) - 1 + 1 = Len(s) /\ \A k \in 1 .. Len(s) : 1 + k - 1 = k
        BY <1>1
      <3>3. /\ SubSeq(u, 1, Len(s)) \in Seq(S)
            /\ Len(SubSeq(u, 1, Len(s))) = IF 1 <= Len(s) THEN Len(s) - 1 + 1 ELSE 0
            /\ \A k \in 1 .. Len(s) - 1 + 1 : SubSeq(u, 1, Len(s))[k] = u[1 + k - 1]
        BY <1>1, <3>1, SubSeqProperties
      <3> QED BY <1>1, <3>2, <3>3
    <2>2. \A k \in 1 .. Len(s) : u[k] = s[k] BY <1>1, <1>2
    <2>3. i - 1 = Len(s) BY <1>1
    <2> QED BY <1>1, <2>1, <2>2, <2>3, SeqEqual
  <1>7. SubSeq(u, i + 1, Len(u)) = Tail(t)
    <2> DEFINE v == SubSeq(u, i + 1, Len(u))
    <2>1. /\ Tail(t) \in Seq(S) /\ Len(Tail(t)) = Len(t) - 1
          /\ \A k \in 1 .. Len(t) - 1 : Tail(t)[k] = t[k + 1]
      BY HeadTailProperties
    <2>2. /\ v \in Seq(S)
          /\ Len(v) = IF i + 1 <= Len(u) THEN Len(u) - (i + 1) + 1 ELSE 0
          /\ \A k \in 1 .. Len(u) - (i + 1) + 1 : v[k] = u[i + 1 + k - 1]
      <3>1. \A k \in i + 1 .. Len(u) : u[k] \in S BY <1>1, <1>2, <1>5
      <3> QED BY <1>1, <1>2, <3>1, SubSeqProperties
    <2> HIDE DEF v
    <2> DEFINE m == Len(s)
               n == Len(t)
               l == Len(u)
    <2>3. /\ Len(v) = n - 1
          /\ \A k \in 1 .. n - 1 : v[k] = u[i + k]
      <3>1. /\ m \in Nat /\ n \in Nat \ {0} /\ i = m + 1
            /\ l = m + n
        BY <1>1, <1>2
      <3>2. /\ Len(v) = IF i + 1 <= l THEN l - (i + 1) + 1 ELSE 0
            /\ \A k \in 1 .. l - (i + 1) + 1 : v[k] = u[i + 1 + k - 1]
        BY <2>2
      <3> HIDE DEF m, n, l
      <3>3. (i + 1 <= l <=> n >= 2) /\ l - (i + 1) + 1 = n - 1
        BY <3>1, RestOfLength
      <3>4. \A k \in 1 .. n - 1 : i + 1 + k - 1 = i + k BY <3>1
      <3>5. Len(v) = n - 1 BY <3>1, <3>2, <3>3
      <3> QED BY <3>2, <3>3, <3>4, <3>5
    <2>4. ASSUME NEW k \in 1 .. Len(t) - 1 PROVE v[k] = Tail(t)[k]
      <3>1. v[k] = u[i + k] BY <2>3
      <3>2. i + k \in 1 .. Len(s) + Len(t) /\ ~(i + k <= Len(s)) /\ i + k - Len(s) = k + 1
        BY <1>1
      <3> QED BY <1>2, <2>1, <3>1, <3>2
    <2>5. v = Tail(t) BY <2>1, <2>2, <2>3, <2>4, SeqEqual
    <2> QED BY <2>5 DEF v
  <1>8. Promise!RemoveAt(u, i) = s \o Tail(t)
    BY <1>6, <1>7 DEF Promise!RemoveAt
  <1>9. i \in DOMAIN u /\ u[i] = Head(t) BY <1>2, <1>3, <1>4
  <1> QED BY <1>8, <1>9 DEF u, i

----------------------------------------------------------------------------
(* The line of requests *)

\* A source that is alive is of the stream the command listens to.
SourceInv ==
    loop.source \in Conns /\ conn[loop.source].peer
    => conn[loop.source].stream = Listened

RelayInv == ListenerInv /\ StreamInv /\ SourceInv

Early == {"none", "stamped", "queued"}

LEMMA SourceStays ==
    ASSUME SourceInv, PeersStay, loop'.source \in {loop.source, NoConn}
    PROVE  SourceInv'
  BY FeedAssumption DEF SourceInv, PeersStay

LEMMA SourceStream == ASSUME RelayInv, [Next]_vars PROVE StreamInv' /\ SourceInv'
  <1> USE DEF RelayInv
  <1>0. loop \in LoopState /\ loop.source \in Conns \cup {NoConn} /\ NoConn \notin Conns
    BY LoopFacts, FeedAssumption DEF ListenerInv
  <1>1. CASE FeedNext /\ UNCHANGED listenerVars
    BY <1>1, FeedStream, SourceStays DEF ListenerInv, listenerVars
  <1>2. ASSUME NEW c \in Conns, Connect(c) PROVE StreamInv' /\ SourceInv'
    <2> DEFINE x == [FreeConn EXCEPT !.phase = "dialled", !.peer = TRUE,
                                     !.stream = Listened]
    <2>1. /\ conn' = [conn EXCEPT ![c] = x] /\ UNCHANGED todo
          /\ loop'.source = c
          /\ conn \in [Conns -> Connection]
          /\ \A r \in Requests : c \notin todo[r]
      BY <1>0, <1>2, NotToVisit, FreeConnFacts
         DEF Connect, DialledBy, LoopState, ListenerInv, FeedInv, FeedTypeOK
    <2>2. x.send = <<>> /\ x.wire = <<>> /\ x.stream = Listened BY DEF FreeConn
    <2> HIDE DEF x
    <2> QED BY <2>1, <2>2, FreshStream DEF SourceInv, ListenerInv
  <1>3. CASE UNCHANGED <<conn, todo>> /\ loop'.source \in {loop.source, NoConn}
    BY <1>3, SameStreams, SourceStays
  <1>4. CASE StreamEnds \/ Waited \/ Render \/ WorkerStep \/ UNCHANGED vars
    BY <1>0, <1>3, <1>4
       DEF StreamEnds, Waited, Render, WorkerStep, Take, Deliver, feedVars, vars,
           listenerVars, LoopState
  <1>5. CASE Dispatch
    <2>1. /\ loop.source \in Conns /\ conn[loop.source].wire # <<>>
          /\ conn' = ReadBy(conn, loop.source) /\ UNCHANGED <<todo, loop>>
      BY <1>0, <1>5 DEF Dispatch, Alive
    <2> QED BY <2>1, ReadStream, SourceStays DEF ListenerInv
  <1>6. CASE Refused
    <2>1. /\ loop.source \in Conns /\ conn[loop.source].phase = "dialled"
          /\ conn' = [conn EXCEPT ![loop.source] = FreeConn] /\ UNCHANGED todo
          /\ loop'.source = NoConn
      BY <1>0, <1>6 DEF Refused, Alive, RefusedBy, LoopState
    <2>2. StreamInv'
      BY <2>1, NotToVisit, FreshStream, FreeConnFacts DEF ListenerInv
    <2> QED BY <1>0, <2>1, <2>2 DEF SourceInv
  <1>7. CASE Interrupt
    <2>1. StreamInv'
      <3>1. CASE loop.source = NoConn
        BY <1>7, <3>1, SameStreams DEF Interrupt, HungUp
      <3>2. CASE loop.source \in Conns
        BY <1>7, <3>2, HungUpStream DEF Interrupt, ListenerInv
      <3> QED BY <1>0, <3>1, <3>2
    <2>2. loop'.source = NoConn BY <1>0, <1>7 DEF Interrupt, LoopState
    <2> QED BY <1>0, <2>1, <2>2 DEF SourceInv
  <1> QED
    BY <1>1, <1>2, <1>4, <1>5, <1>6, <1>7 DEF Next, LoopStep

LEMMA RelayInvariant == Spec => []RelayInv
  <1>1. Init => RelayInv
    <2>1. Init => StreamInv
      BY EmptyFacts, FreeConnFacts DEF Init, FeedInit, StreamInv, OnItsWay
    <2>2. Init => SourceInv BY FeedAssumption DEF Init, SourceInv
    <2> QED BY <2>1, <2>2, ListenerInitInv DEF RelayInv
  <1>2. RelayInv /\ [Next]_vars => RelayInv'
    BY ListenerStepInv, SourceStream DEF RelayInv
  <1> QED BY <1>1, <1>2, PTL DEF Spec

----------------------------------------------------------------------------
(* What each step is to the line *)

LEMMA RelayFacts ==
    ASSUME RelayInv
    PROVE  /\ loop \in LoopState /\ loop.source \in Conns \cup {NoConn}
           /\ NoConn \notin Conns
           /\ \A r \in Requests : loop.source \in todo[r] => loop.source \in Conns
           /\ Alive(loop.source) => loop.source \in Conns
  BY LoopFacts, FeedAssumption
     DEF RelayInv, ListenerInv, FeedInv, FeedTypeOK, Alive

\* Nothing in the client's hands changes.
ClientWaits ==
    UNCHANGED <<events, queue, worker, forwarded, dropped>> /\ Running' = Running

LEMMA Loses ==
    ASSUME ClientWaits, Fresh' \subseteq Fresh, Coming' \in {Coming, <<>>}
    PROVE  Promise!RelayNext
  BY DEF ClientWaits, Promise!RelayNext, Promise!Lose, InHand

LEMMA Greets ==
    ASSUME ClientWaits, Fresh' = Fresh, Coming' = Append(Coming, Connected)
    PROVE  Promise!RelayNext
  BY DEF ClientWaits, Promise!RelayNext, Promise!Greet, InHand

LEMMA Joins ==
    ASSUME ClientWaits, NEW r \in Fresh, Fresh' = Fresh \ {r},
           Coming' = Append(Coming, r)
    PROVE  Promise!RelayNext
  <1>1. r \in Requests BY DEF Fresh
  <1>2. Promise!Join(r) BY DEF ClientWaits, Promise!Join, InHand
  <1> QED BY <1>1, <1>2 DEF Promise!RelayNext

\* Broadcasts go on, and none comes to visit a connection anew.
LEMMA FreshShrinks ==
    ASSUME \A r \in Requests :
               /\ capture'[r] \in Early => capture[r] \in Early
               /\ loop'.source \in todo'[r] =>
                     loop.source \in todo[r] \/ capture[r] \in Early
    PROVE  Fresh' \subseteq Fresh
  BY DEF Fresh, Early

LEMMA ServerFresh ==
    ASSUME RelayInv, FeedNext, UNCHANGED loop PROVE Fresh' \subseteq Fresh
  <1> USE DEF RelayInv, ListenerInv, FeedInv, FeedTypeOK, Early
  <1>1. ASSUME UNCHANGED <<capture, todo>> PROVE Fresh' \subseteq Fresh
    BY <1>1, FreshShrinks
  <1>2. ASSUME NEW r \in Requests, Receive(r) \/ Save(r)
        PROVE  Fresh' \subseteq Fresh
    <2>1. PICK step \in CaptureSteps :
            /\ capture[r] \in Early /\ capture' = [capture EXCEPT ![r] = step]
            /\ UNCHANGED todo
      BY <1>2 DEF Receive, Save, SaveWorks, SaveFails, CaptureSteps
    <2> QED BY <2>1, FreshShrinks
  <1>3. ASSUME NEW r \in Requests, BeginBroadcast(r)
        PROVE  Fresh' \subseteq Fresh
    <2>1. /\ capture[r] \in Early /\ todo' = [todo EXCEPT ![r] = Clients(StreamOf[r])]
          /\ \A q \in Requests : capture'[q] \in Early => capture[q] \in Early
      BY <1>3 DEF BeginBroadcast
    <2> QED BY <2>1, FreshShrinks
  <1>4. ASSUME NEW r \in Requests, NEW c \in Conns, SendTo(r, c)
        PROVE  Fresh' \subseteq Fresh
    <2>1. /\ todo' = [todo EXCEPT ![r] = @ \ {c}]
          /\ \A q \in Requests : capture'[q] \in Early => capture[q] \in Early
      BY <1>4 DEF SendTo
    <2> QED BY <2>1, FreshShrinks
  <1>5. ASSUME Crash PROVE Fresh' \subseteq Fresh
    BY <1>5, FreshShrinks DEF Crash, AfterCrash
  <1>6. ASSUME NEW c \in Conns, ConnStep(c) \/ Break(c) PROVE Fresh' \subseteq Fresh
    BY <1>1, <1>6 DEF ConnStep, Register, Write, Exit, Deregister, Break
  <1> QED
    BY <1>2, <1>3, <1>4, <1>5, <1>6 DEF FeedNext, CaptureStep, Broadcast

LEMMA SameComing ==
    ASSUME RelayInv, UNCHANGED loop,
           loop.source \in Conns => conn'[loop.source] = conn[loop.source]
    PROVE  Coming' = Coming
  BY RelayFacts DEF Coming, Alive

LEMMA LostComing ==
    ASSUME ~(loop'.source # NoConn /\ conn'[loop'.source].peer)
    PROVE  Coming' = <<>>
  BY DEF Coming, Alive

LEMMA LineFacts ==
    ASSUME RelayInv, NEW c \in Conns
    PROVE  /\ conn[c] \in Connection
           /\ conn[c].send \in Seq(Requests \cup {Connected})
           /\ conn[c].wire \in Seq(Requests \cup {Connected})
           /\ Coming \in Seq(Requests \cup {Connected})
  <1>1. \A d \in Conns :
          /\ conn[d] \in Connection
          /\ conn[d].send \in Seq(Requests \cup {Connected})
          /\ conn[d].wire \in Seq(Requests \cup {Connected})
    BY FeedFacts, SeqMonotonic, Requests \subseteq Requests \cup {Connected}
       DEF RelayInv, ListenerInv
  <1>2. Coming \in Seq(Requests \cup {Connected})
    BY <1>1, RelayFacts, ConcatProperties, EmptySeq DEF Coming
  <1> QED BY <1>1, <1>2

\* A request joins the line when it is put in the channel of the source.
LEMMA CaptureLine ==
    ASSUME RelayInv, NEW r \in Requests, Receive(r) \/ CaptureStep(r),
           UNCHANGED listenerVars
    PROVE  Promise!RelayNext
  <1>1. /\ ClientWaits /\ UNCHANGED loop
        /\ loop.source \in Conns \cup {NoConn} /\ NoConn \notin Conns
    BY RelayFacts DEF ClientWaits, listenerVars, Running
  <1>2. Fresh' \subseteq Fresh BY <1>1, ServerFresh DEF FeedNext
  <1>3. CASE Coming' \in {Coming, <<>>} BY <1>1, <1>2, <1>3, Loses
  <1>4. CASE Receive(r) \/ Save(r) \/ BeginBroadcast(r)
    <2>1. Coming' = Coming
      BY <1>1, <1>4, SameComing DEF Receive, Save, BeginBroadcast
    <2> QED BY <2>1, <1>3
  <1>5. ASSUME NEW c \in Conns, SendTo(r, c) PROVE Promise!RelayNext
    <2> DEFINE x == [conn[c] EXCEPT !.send = Append(@, r)]
    <2>1. /\ c \in todo[r] /\ capture[r] = "sending"
          /\ todo \in [Requests -> SUBSET Conns] /\ conn \in [Conns -> Connection]
          /\ capture \in [Requests -> CaptureSteps]
      BY <1>5 DEF SendTo, RelayInv, ListenerInv, FeedInv, FeedTypeOK, BroadcastInv
    <2>2. CASE c # loop.source \/ ~HasRoom(c)
      <3>1. Coming' = Coming
        BY <1>1, <1>5, <2>1, <2>2, SameComing DEF SendTo
      <3> QED BY <3>1, <1>3
    <2>3. CASE c = loop.source /\ HasRoom(c)
      <3>1. /\ x.send = Append(conn[c].send, r) /\ x.wire = conn[c].wire
            /\ x.peer = conn[c].peer
            /\ conn'[c] = x
        BY <1>5, <2>1, <2>3, LineFacts DEF SendTo, Connection
      <3> HIDE DEF x
      <3>2. CASE ~conn[c].peer
        <4>1. Coming' = <<>> BY <1>1, <2>3, <3>1, <3>2, LostComing
        <4> QED BY <4>1, <1>3
      <3>3. CASE conn[c].peer
        <4>1. Coming' = Append(Coming, r)
          <5>1. /\ Coming = conn[c].wire \o conn[c].send
                /\ Coming' = conn[c].wire \o Append(conn[c].send, r)
            BY <1>1, <2>3, <3>1, <3>3 DEF Coming, Alive
          <5>2. /\ conn[c].wire \in Seq(Requests \cup {Connected})
                /\ conn[c].send \in Seq(Requests \cup {Connected})
                /\ r \in Requests \cup {Connected}
            BY LineFacts
          <5>3. conn[c].wire \o Append(conn[c].send, r)
                = Append(conn[c].wire \o conn[c].send, r)
            <6> DEFINE s == conn[c].wire
                       t == conn[c].send
                       S == Requests \cup {Connected}
            <6>1. s \in Seq(S) /\ t \in Seq(S) /\ r \in S BY <5>2
            <6> HIDE DEF s, t, S
            <6>2. s \o Append(t, r) = Append(s \o t, r) BY <6>1, AppendConcat
            <6> QED BY <6>2 DEF s, t
          <5> QED BY <5>1, <5>3
        <4>2. r \in Fresh
          BY <2>1, <2>3, <3>3 DEF Fresh, RelayInv, StreamInv, SourceInv
        <4>3. Fresh' = Fresh \ {r}
          <5>1. /\ todo' = [todo EXCEPT ![r] = @ \ {c}]
                /\ capture' = [capture EXCEPT ![r] = IF todo[r] = {c} THEN "done" ELSE @]
            BY <1>5 DEF SendTo
          <5> QED BY <1>1, <2>1, <2>3, <5>1 DEF Fresh
        <4> QED BY <1>1, <4>1, <4>2, <4>3, Joins
      <3> QED BY <3>2, <3>3
    <2> QED BY <2>2, <2>3
  <1> QED BY <1>4, <1>5 DEF CaptureStep, Broadcast

\* The goroutine of the source greets it, and moves what it has along the line.
LEMMA ConnLine ==
    ASSUME RelayInv, NEW c \in Conns, ConnStep(c) \/ Break(c), UNCHANGED listenerVars
    PROVE  Promise!RelayNext
  <1>1. /\ ClientWaits /\ UNCHANGED loop
        /\ loop.source \in Conns \cup {NoConn} /\ NoConn \notin Conns
        /\ conn \in [Conns -> Connection]
    BY RelayFacts
       DEF ClientWaits, listenerVars, Running, RelayInv, ListenerInv, FeedInv, FeedTypeOK
  <1>2. Fresh' = Fresh
    BY <1>1 DEF Fresh, ConnStep, Register, Write, Exit, Deregister, Break
  <1>3. CASE Coming' \in {Coming, <<>>} BY <1>1, <1>2, <1>3, Loses
  <1>4. CASE c # loop.source
    <2>1. \A d \in Conns : d # c => conn'[d] = conn[d]
      BY <1>1 DEF ConnStep, Register, Write, Exit, Deregister, Break, HungUp
    <2>2. Coming' = Coming BY <1>1, <1>4, <2>1, SameComing
    <2> QED BY <2>2, <1>3
  <1>5. CASE c = loop.source /\ ~conn[c].peer
    <2>1. ~conn'[c].peer
      BY <1>1, <1>5, ConnStream, FeedStream
         DEF RelayInv, ListenerInv, PeersStay, FeedNext
    <2>2. Coming' = <<>> BY <1>1, <1>5, <2>1, LostComing
    <2> QED BY <2>2, <1>3
  <1>6. CASE c = loop.source /\ conn[c].peer
    <2>0. Coming = conn[c].wire \o conn[c].send BY <1>1, <1>6 DEF Coming, Alive
    <2>1. CASE Register(c)
      <3>1. conn[c].send = <<>> /\ conn[c].wire = <<>>
        BY <2>1, FeedFacts, FreeConnFacts DEF Register, RelayInv, ListenerInv
      <3>2. conn'[c].wire = <<Connected>> /\ conn'[c].send = <<>> /\ conn'[c].peer
        BY <1>1, <1>6, <2>1, <3>1, LineFacts DEF Register, Connection
      <3>3. Coming = <<>> /\ Coming' = <<Connected>>
        BY <1>1, <1>6, <2>0, <3>1, <3>2 DEF Coming, Alive
      <3> QED BY <1>1, <1>2, <3>3, Greets
    <2>2. CASE Write(c)
      <3> DEFINE x == [conn[c] EXCEPT !.send = Tail(@),
                                      !.wire = Append(conn[c].wire, Head(conn[c].send))]
      <3>1. conn'[c] = x /\ conn[c].send # <<>>
        BY <1>1, <1>6, <2>2, LineFacts DEF Write, Connection
      <3>2. /\ x.send = Tail(conn[c].send) /\ x.peer
            /\ x.wire = Append(conn[c].wire, Head(conn[c].send))
        BY <1>6, LineFacts DEF Connection
      <3> HIDE DEF x
      <3>3. Coming' = Append(conn[c].wire, Head(conn[c].send)) \o Tail(conn[c].send)
        BY <1>1, <1>6, <3>1, <3>2 DEF Coming, Alive
      <3>4. Coming' = Coming BY <2>0, <3>1, <3>3, LineFacts, HeadMoves
      <3> QED BY <3>4, <1>3
    <2>3. CASE Exit(c) BY <1>6, <2>3 DEF Exit
    <2>4. CASE Deregister(c) \/ Break(c)
      <3>1. ~conn'[c].peer
        BY <1>1, <2>4, LineFacts, FreeConnFacts DEF Deregister, Break, HungUp, Connection
      <3>2. Coming' = <<>> BY <1>1, <1>6, <3>1, LostComing
      <3> QED BY <3>2, <1>3
    <2> QED BY <2>1, <2>2, <2>3, <2>4 DEF ConnStep
  <1> QED BY <1>4, <1>5, <1>6

LEMMA ServerLine ==
    ASSUME RelayInv, FeedNext, UNCHANGED listenerVars PROVE Promise!RelayNext
  <1>1. ASSUME Crash PROVE Promise!RelayNext
    <2>1. /\ ClientWaits /\ UNCHANGED loop
          /\ loop.source \in Conns \cup {NoConn}
      BY RelayFacts DEF ClientWaits, listenerVars, Running
    <2>2. Fresh' \subseteq Fresh BY <1>1, <2>1, ServerFresh DEF FeedNext
    <2>3. Coming' = <<>>
      BY <1>1, <2>1, LostComing, FreeConnFacts DEF Crash
    <2> QED BY <2>1, <2>2, <2>3, Loses
  <1> QED BY <1>1, CaptureLine, ConnLine DEF FeedNext

----------------------------------------------------------------------------
(* The command's own steps *)

AtWorker == IF worker = NoRequest THEN <<>> ELSE <<worker>>

LEMMA HandFacts ==
    ASSUME RelayInv
    PROVE  /\ AtWorker \in Seq(Requests \cup {Connected})
           /\ queue \in Seq(Requests \cup {Connected})
           /\ events \in Seq(Requests \cup {Connected})
           /\ AtWorker \o queue \in Seq(Requests \cup {Connected})
           /\ InHand = (AtWorker \o queue) \o events
           /\ InHand \in Seq(Requests \cup {Connected})
  <1>1. /\ worker \in Requests \cup {NoRequest} /\ queue \in Seq(Requests)
        /\ events \in Seq(Requests \cup {Connected})
    BY DEF RelayInv, ListenerInv, ClientTypeOK
  <1>2. AtWorker \in Seq(Requests \cup {Connected})
    <2>1. \A r \in Requests : <<r>> \in Seq(Requests \cup {Connected}) OBVIOUS
    <2> QED BY <1>1, <2>1, EmptySeq DEF AtWorker
  <1>3. queue \in Seq(Requests \cup {Connected})
    BY <1>1, SeqMonotonic, Requests \subseteq Requests \cup {Connected}
  <1>4. InHand = (AtWorker \o queue) \o events BY DEF InHand, AtWorker
  <1> QED BY <1>1, <1>2, <1>3, <1>4, ConcatProperties

LEMMA SameLine ==
    ASSUME RelayInv, UNCHANGED <<feedVars, loop>>
    PROVE  /\ Fresh' = Fresh /\ Coming' = Coming /\ Running' = Running
  BY RelayFacts, SameComing DEF Fresh, Running, feedVars

\* The connection is replaced or given up.
LEMMA LoopLine ==
    ASSUME RelayInv,
           StreamEnds \/ Waited \/ (\E c \in Conns : Connect(c))
    PROVE  Promise!RelayNext
  <1>1. /\ loop \in LoopState /\ NoConn \notin Conns
        /\ loop.source \in Conns \cup {NoConn}
        /\ conn \in [Conns -> Connection]
        /\ \A r \in Requests : todo[r] \subseteq Conns
    BY RelayFacts DEF RelayInv, ListenerInv, FeedInv, FeedTypeOK
  <1>2. CASE StreamEnds
    <2>1. loop'.source = NoConn /\ loop'.phase = "waiting" /\ ClientWaits
      BY <1>1, <1>2 DEF StreamEnds, LoopState, ClientWaits, Running
    <2>2. Fresh' \subseteq Fresh
      BY <1>1, <1>2, <2>1, FreshShrinks DEF StreamEnds, feedVars
    <2>3. Coming' = <<>> BY <2>1, LostComing
    <2> QED BY <2>1, <2>2, <2>3, Loses
  <1>3. CASE Waited
    <2>1. loop'.source = loop.source /\ ClientWaits
      BY <1>1, <1>3 DEF Waited, LoopState, ClientWaits, Running
    <2>2. Fresh' \subseteq Fresh
      BY <1>1, <1>3, <2>1, FreshShrinks DEF Waited, feedVars
    <2>3. Coming' = Coming BY <1>3, <2>1 DEF Waited, feedVars, Coming, Alive
    <2> QED BY <2>1, <2>2, <2>3, Loses
  <1>4. ASSUME NEW c \in Conns, Connect(c) PROVE Promise!RelayNext
    <2> DEFINE x == [FreeConn EXCEPT !.phase = "dialled", !.peer = TRUE,
                                     !.stream = Listened]
    <2>1. /\ conn' = [conn EXCEPT ![c] = x] /\ UNCHANGED <<capture, todo>>
          /\ loop'.source = c /\ ClientWaits
      BY <1>1, <1>4 DEF Connect, DialledBy, LoopState, ClientWaits, Running
    <2>2. \A r \in Requests : c \notin todo[r]
      BY <1>4, NotToVisit, FreeConnFacts DEF Connect, RelayInv, ListenerInv
    <2>3. x.send = <<>> /\ x.wire = <<>> BY DEF FreeConn
    <2> HIDE DEF x
    <2>4. Fresh' \subseteq Fresh BY <2>1, <2>2, FreshShrinks
    <2>5. Coming' = <<>>
      BY <1>1, <2>1, <2>3, ConcatEmptySeq, EmptySeq DEF Coming, Alive
    <2> QED BY <2>1, <2>4, <2>5, Loses
  <1> QED BY <1>2, <1>3, <1>4

LEMMA DispatchLine == ASSUME RelayInv, Dispatch PROVE Promise!RelayNext
  <1> DEFINE c == loop.source
             S == Requests \cup {Connected}
  <1>1. /\ c \in Conns /\ conn[c].peer /\ conn[c].wire # <<>> /\ Running
        /\ conn \in [Conns -> Connection] /\ c # NoConn
    BY RelayFacts
       DEF Dispatch, Running, Alive, RelayInv, ListenerInv, FeedInv, FeedTypeOK
  <1>2. /\ conn[c].wire \in Seq(S) /\ conn[c].send \in Seq(S)
        /\ Coming = conn[c].wire \o conn[c].send
    BY <1>1, LineFacts DEF Coming, Alive
  <1>3. /\ events' = Append(events, Head(conn[c].wire))
        /\ UNCHANGED <<capture, todo, loop, queue, worker, forwarded, dropped>>
        /\ conn'[c].wire = Tail(conn[c].wire) /\ conn'[c].send = conn[c].send
        /\ conn'[c].peer
    BY <1>1, LineFacts DEF Dispatch, ReadBy, Connection
  <1>4. /\ Coming # <<>> /\ Head(Coming) = Head(conn[c].wire)
        /\ Tail(Coming) = Tail(conn[c].wire) \o conn[c].send
    BY <1>1, <1>2, HeadOfConcat
  <1>5. Coming' = Tail(Coming) BY <1>1, <1>3, <1>4 DEF Coming, Alive
  <1>6. InHand' = Append(InHand, Head(Coming))
    <2>1. InHand' = (AtWorker \o queue) \o Append(events, Head(conn[c].wire))
      BY <1>3 DEF InHand, AtWorker
    <2>2. Head(conn[c].wire) \in S BY <1>1, <1>2, HeadAndTail
    <2> DEFINE front == AtWorker \o queue
               e == Head(conn[c].wire)
    <2>3. front \in Seq(S) /\ events \in Seq(S) /\ InHand = front \o events
      BY HandFacts
    <2> HIDE DEF front, e, S
    <2>4. front \o Append(events, e) = Append(front \o events, e)
      BY <2>2, <2>3, AppendConcat DEF e
    <2> QED BY <1>4, <2>1, <2>3, <2>4 DEF front, e
  <1>7. Fresh' = Fresh /\ Running' = Running BY <1>3 DEF Fresh, Running
  <1>8. Promise!Read BY <1>1, <1>3, <1>4, <1>5, <1>6, <1>7 DEF Promise!Read
  <1> QED BY <1>8 DEF Promise!RelayNext

\* Refused for good, or interrupted.
LEMMA FinishLine ==
    ASSUME RelayInv, Refused \/ Interrupt PROVE Promise!RelayNext
  <1>1. /\ loop'.source = NoConn /\ ~Running'
        /\ UNCHANGED <<capture, todo, events, queue, worker, forwarded, dropped>>
    BY RelayFacts DEF Refused, Interrupt, LoopState, Running
  <1>2. Fresh' \subseteq Fresh
    BY <1>1, RelayFacts, FreshShrinks
       DEF RelayInv, ListenerInv, FeedInv, FeedTypeOK
  <1>3. Coming' = <<>> BY <1>1, LostComing
  <1>4. Promise!Finish BY <1>1, <1>2, <1>3 DEF Promise!Finish, InHand
  <1> QED BY <1>4 DEF Promise!RelayNext

LEMMA RenderLine ==
    ASSUME RelayInv, Render PROVE Promise!RelayNext \/ UNCHANGED Promise!relayVars
  <1> DEFINE e == Head(events)
             i == Len(AtWorker \o queue) + 1
  <1>1. /\ events # <<>> /\ events' = Tail(events) /\ Running
        /\ UNCHANGED <<feedVars, loop, worker, forwarded>>
    BY DEF Render
  <1>2. Fresh' = Fresh /\ Coming' = Coming /\ Running' = Running
    BY <1>1, SameLine
  <1>3. e \in Requests \cup {Connected} BY <1>1, HandFacts, HeadAndTail
  <1>4. /\ i \in DOMAIN InHand /\ InHand[i] = e
        /\ Promise!RemoveAt(InHand, i) = (AtWorker \o queue) \o Tail(events)
    <2> DEFINE front == AtWorker \o queue
               S == Requests \cup {Connected}
    <2>1. front \in Seq(S) /\ events \in Seq(S) /\ InHand = front \o events
          /\ i = Len(front) + 1 /\ InHand \in Seq(S)
      BY HandFacts
    <2> HIDE DEF front, S, i
    <2>2. /\ i \in DOMAIN InHand /\ InHand[i] = e
          /\ Promise!RemoveAt(InHand, i) = front \o Tail(events)
      <3>1. /\ Len(front) + 1 \in DOMAIN (front \o events)
            /\ (front \o events)[Len(front) + 1] = Head(events)
            /\ Promise!RemoveAt(front \o events, Len(front) + 1) = front \o Tail(events)
        BY <1>1, <2>1, HeadTakenOut
      <3> QED BY <2>1, <3>1
    <2> QED BY <2>2 DEF front
  <1> HIDE DEF e, i
  <1>5. ASSUME queue' = queue, dropped' = dropped \cup ({e} \ {Connected})
        PROVE  Promise!RelayNext
    <2>1. InHand' = (AtWorker \o queue) \o Tail(events)
      BY <1>1, <1>5 DEF InHand, AtWorker
    <2>2. Promise!TakeOut(i)
      BY <1>1, <1>2, <1>4, <1>5, <2>1 DEF Promise!TakeOut
    <2> QED BY <1>4, <2>2 DEF Promise!RelayNext
  <1>6. CASE e = Connected
    BY <1>5, <1>6 DEF Render, e
  <1>7. CASE e # Connected /\ Len(queue) < QueueCap
    <2>1. queue' = Append(queue, e) /\ dropped' = dropped
      BY <1>7 DEF Render, Enqueue, e
    <2>2. InHand' = (AtWorker \o Append(queue, e)) \o Tail(events)
      BY <1>1, <2>1 DEF InHand, AtWorker
    <2>3. AtWorker \o Append(queue, e) = Append(AtWorker \o queue, e)
      BY <1>3, HandFacts, AppendConcat
    <2>4. Append(AtWorker \o queue, e) \o Tail(events) = (AtWorker \o queue) \o events
      BY <1>1, HandFacts, HeadMoves DEF e
    <2>5. InHand' = InHand BY <2>2, <2>3, <2>4, HandFacts
    <2> QED BY <1>1, <1>2, <2>1, <2>5 DEF Promise!relayVars
  <1>8. CASE e # Connected /\ ~(Len(queue) < QueueCap)
    BY <1>5, <1>8 DEF Render, Enqueue, e
  <1> QED BY <1>6, <1>7, <1>8

LEMMA WorkerLine ==
    ASSUME RelayInv, WorkerStep
    PROVE  Promise!RelayNext \/ UNCHANGED Promise!relayVars
  <1> DEFINE S == Requests \cup {Connected}
  <1>1. UNCHANGED <<feedVars, loop, events, dropped>> /\ Running
    BY DEF WorkerStep, Take, Deliver
  <1>2. Fresh' = Fresh /\ Coming' = Coming /\ Running' = Running
    BY <1>1, SameLine
  <1>3. /\ queue \in Seq(S) /\ events \in Seq(S) /\ queue \in Seq(Requests)
        /\ worker \in Requests \cup {NoRequest}
    BY HandFacts DEF RelayInv, ListenerInv, ClientTypeOK
  <1>4. CASE Take
    <2>1. /\ worker = NoRequest /\ queue # <<>> /\ worker' = Head(queue)
          /\ queue' = Tail(queue) /\ UNCHANGED forwarded
      BY <1>4 DEF Take
    <2>2. /\ Head(queue) \in Requests /\ queue = <<Head(queue)>> \o Tail(queue)
      BY <1>3, <2>1, HeadAndTail
    <2>3. AtWorker = <<>> /\ AtWorker' = <<Head(queue)>>
      BY <2>1, <2>2, ListenerAssumption DEF AtWorker
    <2>4. InHand = (<<>> \o queue) \o events BY <2>3, HandFacts
    <2>5. InHand' = (<<Head(queue)>> \o Tail(queue)) \o events
      BY <1>1, <2>1, <2>3 DEF InHand, AtWorker
    <2>6. InHand' = InHand BY <1>3, <2>2, <2>4, <2>5, ConcatEmptySeq
    <2> QED BY <1>1, <1>2, <2>1, <2>6 DEF Promise!relayVars
  <1>5. CASE Deliver
    <2>1. /\ worker \in Requests /\ worker # Connected /\ UNCHANGED queue
          /\ forwarded' = Append(forwarded, worker) /\ worker' = NoRequest
      BY <1>3, <1>5, ConnectedAssumption DEF Deliver
    <2>2. AtWorker = <<worker>> /\ AtWorker' = <<>>
      BY <2>1, ListenerAssumption DEF AtWorker
    <2>3. /\ <<worker>> \in Seq(S) /\ <<worker>> # <<>>
          /\ Head(<<worker>>) = worker /\ Tail(<<worker>>) = <<>>
      BY <2>1
    <2>4. InHand = <<worker>> \o (queue \o events) /\ queue \o events \in Seq(S)
      <3> DEFINE w == <<worker>>
      <3>1. w \in Seq(S) /\ InHand = (w \o queue) \o events
        BY <2>2, <2>3, HandFacts
      <3> HIDE DEF w, S
      <3>2. (w \o queue) \o events = w \o (queue \o events)
        BY <1>3, <3>1, ConcatAssociative
      <3>3. queue \o events \in Seq(S) BY <1>3, ConcatProperties
      <3> QED BY <3>1, <3>2, <3>3 DEF w
    <2>5. /\ InHand # <<>> /\ Head(InHand) = worker
          /\ Tail(InHand) = <<>> \o (queue \o events)
      BY <2>3, <2>4, HeadOfConcat
    <2>6. InHand' = (<<>> \o queue) \o events
      BY <1>1, <2>1, <2>2 DEF InHand, AtWorker
    <2>7. InHand' = Tail(InHand) BY <1>3, <2>4, <2>5, <2>6, ConcatEmptySeq
    <2>8. Promise!Forward
      BY <1>1, <1>2, <2>1, <2>5, <2>7 DEF Promise!Forward
    <2> QED BY <2>8 DEF Promise!RelayNext
  <1> QED BY <1>4, <1>5 DEF WorkerStep

\* The command and its four goroutines, on connections that break, overflow, are
\* refused and are reopened, keep the promise of one line: a request is sent at
\* most once, in the order in which it came, and what has been read is sent or
\* reported until the command ends.
THEOREM ListenerRefinement == Spec => ImplementsRelay
  <1>1. Init => Promise!RelayInit
    <2> SUFFICES ASSUME Init PROVE Promise!RelayInit OBVIOUS
    <2>1. /\ loop.source = NoConn /\ loop.phase = "ready"
          /\ events = <<>> /\ queue = <<>> /\ worker = NoRequest
          /\ forwarded = <<>> /\ dropped = {}
      BY DEF Init
    <2>2. Coming = <<>> BY <2>1 DEF Coming, Alive
    <2>3. InHand = <<>> BY <2>1, ConcatEmptySeq, EmptySeq DEF InHand
    <2>4. Fresh \subseteq Requests /\ Running BY <2>1 DEF Fresh, Running
    <2> QED BY <2>1, <2>2, <2>3, <2>4 DEF Promise!RelayInit
  <1>2. RelayInv /\ [Next]_vars => [Promise!RelayNext]_(Promise!relayVars)
    <2> SUFFICES ASSUME RelayInv, [Next]_vars
                 PROVE  Promise!RelayNext \/ UNCHANGED Promise!relayVars
      OBVIOUS
    <2>1. CASE UNCHANGED vars
      <3>1. Fresh' = Fresh /\ Coming' = Coming /\ Running' = Running
        BY <2>1, SameLine DEF vars, listenerVars
      <3>2. InHand' = InHand /\ UNCHANGED <<forwarded, dropped>>
        BY <2>1 DEF vars, listenerVars, InHand
      <3> QED BY <3>1, <3>2 DEF Promise!relayVars
    <2>2. CASE LoopStep BY <2>2, LoopLine DEF LoopStep
    <2> QED
      BY <2>1, <2>2, ServerLine, DispatchLine, FinishLine, RenderLine, WorkerLine
         DEF Next
  <1> QED
    BY <1>1, <1>2, RelayInvariant, PTL DEF Spec, ImplementsRelay, Promise!RelaySpec
=============================================================================
