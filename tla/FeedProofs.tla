----------------------------- MODULE FeedProofs -----------------------------
(***************************************************************************)
(* Lemmas about the server half of the live feed, for any peers: a request *)
(* travels to a connection at most once, only if it is stored, and only to *)
(* one that was opened for its stream.                                     *)
(***************************************************************************)
EXTENDS Feed, FiniteSetTheorems, SequenceTheorems, TLAPS

(* Sequences without duplicates *)

In(x, s) == \E i \in DOMAIN s : s[i] = x
NoDup(s) == \A i, j \in DOMAIN s : s[i] = s[j] => i = j

LEMMA EmptyFacts == NoDup(<<>>) /\ \A x : ~In(x, <<>>)
  BY DEF NoDup, In

LEMMA OneFacts ==
    ASSUME NEW e
    PROVE  NoDup(<<e>>) /\ (\A x : In(x, <<e>>) <=> x = e)
  BY DEF NoDup, In

LEMMA AppendFacts ==
    ASSUME NEW S, NEW s \in Seq(S), NEW e \in S
    PROVE  /\ Append(s, e) \in Seq(S) /\ Len(Append(s, e)) = Len(s) + 1
           /\ \A x : In(x, Append(s, e)) <=> In(x, s) \/ x = e
           /\ NoDup(s) /\ ~In(e, s) => NoDup(Append(s, e))
  <1> DEFINE t == Append(s, e)
  <1>1. /\ t \in Seq(S) /\ Len(t) = Len(s) + 1
        /\ \A i \in 1 .. Len(s) : t[i] = s[i]
        /\ t[Len(s) + 1] = e
    BY AppendProperties
  <1>2. DOMAIN t = 1 .. Len(s) + 1 /\ DOMAIN s = 1 .. Len(s) /\ Len(s) \in Nat
    BY <1>1, LenProperties
  <1> HIDE DEF t
  <1>3. \A x : In(x, t) <=> In(x, s) \/ x = e BY <1>1, <1>2 DEF In
  <1>4. NoDup(s) /\ ~In(e, s) => NoDup(t) BY <1>1, <1>2 DEF In, NoDup
  <1> QED BY <1>1, <1>3, <1>4 DEF t

LEMMA TailFacts ==
    ASSUME NEW S, NEW s \in Seq(S), s # <<>>
    PROVE  /\ Head(s) \in S /\ Tail(s) \in Seq(S) /\ Len(Tail(s)) = Len(s) - 1
           /\ In(Head(s), s)
           /\ \A x : In(x, Tail(s)) => In(x, s)
           /\ NoDup(s) => NoDup(Tail(s)) /\ ~In(Head(s), Tail(s))
  <1>1. Len(s) \in Nat \ {0} /\ DOMAIN s = 1 .. Len(s) BY EmptySeq, LenProperties
  <1>2. /\ Head(s) \in S /\ Tail(s) \in Seq(S) /\ Len(Tail(s)) = Len(s) - 1
        /\ \A i \in 1 .. Len(Tail(s)) : Tail(s)[i] = s[i + 1]
    BY HeadTailProperties
  <1>3. DOMAIN Tail(s) = 1 .. Len(s) - 1 BY <1>2, LenProperties
  <1>4. Head(s) = s[1] BY <1>1
  <1> QED BY <1>1, <1>2, <1>3, <1>4 DEF In, NoDup

LEMMA PrependFacts ==
    ASSUME NEW S, NEW s \in Seq(S), NEW e \in S
    PROVE  /\ <<e>> \o s \in Seq(S)
           /\ \A x : In(x, <<e>> \o s) <=> In(x, s) \/ x = e
           /\ NoDup(s) /\ ~In(e, s) => NoDup(<<e>> \o s)
  <1> DEFINE t == <<e>> \o s
  <1>1. /\ t \in Seq(S) /\ Len(t) = Len(s) + 1
        /\ t[1] = e
        /\ \A i \in 1 .. Len(s) : t[i + 1] = s[i]
        /\ \A i \in 2 .. Len(s) + 1 : t[i] = s[i - 1]
    BY ConcatProperties
  <1>2. DOMAIN t = 1 .. Len(s) + 1 /\ DOMAIN s = 1 .. Len(s) /\ Len(s) \in Nat
    BY <1>1, LenProperties
  <1> HIDE DEF t
  <1>3. \A x : In(x, t) <=> In(x, s) \/ x = e
    <2> SUFFICES ASSUME NEW x PROVE In(x, t) <=> In(x, s) \/ x = e OBVIOUS
    <2>1. ASSUME In(x, t) PROVE In(x, s) \/ x = e
      <3>1. PICK i \in 1 .. Len(s) + 1 : t[i] = x BY <2>1, <1>2 DEF In
      <3>2. i = 1 \/ (i \in 2 .. Len(s) + 1 /\ i - 1 \in 1 .. Len(s)) BY <1>2
      <3> QED BY <3>1, <3>2, <1>1, <1>2 DEF In
    <2>2. ASSUME In(x, s) PROVE In(x, t)
      <3>1. PICK i \in 1 .. Len(s) : s[i] = x BY <2>2, <1>2 DEF In
      <3>2. i + 1 \in 1 .. Len(s) + 1 BY <1>2
      <3> QED BY <3>1, <3>2, <1>1, <1>2 DEF In
    <2>3. In(e, t) BY <1>1, <1>2 DEF In
    <2> QED BY <2>1, <2>2, <2>3
  <1>4. ASSUME NoDup(s), ~In(e, s) PROVE NoDup(t)
    <2> SUFFICES ASSUME NEW i \in 1 .. Len(s) + 1, NEW j \in 1 .. Len(s) + 1,
                        t[i] = t[j], i < j
                 PROVE  FALSE
      BY <1>2 DEF NoDup
    <2>1. j \in 2 .. Len(s) + 1 /\ j - 1 \in 1 .. Len(s) BY <1>2
    <2>2. t[j] = s[j - 1] BY <2>1, <1>1
    <2>3. i # 1 BY <1>4, <2>1, <2>2, <1>1, <1>2 DEF In
    <2>4. i \in 2 .. Len(s) + 1 /\ i - 1 \in 1 .. Len(s) BY <2>3, <1>2
    <2>5. t[i] = s[i - 1] BY <2>4, <1>1
    <2> QED BY <1>4, <2>1, <2>2, <2>4, <2>5, <1>2 DEF NoDup
  <1> QED BY <1>1, <1>3, <1>4 DEF t

----------------------------------------------------------------------------
(* The invariant of the server *)

\* The broadcast of r has begun, and is past c.
Passed(r, c) == capture[r] \in {"sending", "done", "cut"} /\ c \notin todo[r]

OnItsWay(r, c) == In(r, conn[c].send) \/ In(r, conn[c].wire)

\* c's peer may have r: nothing will bring it there again.
Gone(r, c) == r \in stored /\ Passed(r, c) /\ ~OnItsWay(r, c)

ConnInv ==
    \A c \in Conns :
        /\ NoDup(conn[c].send) /\ NoDup(conn[c].wire)
        /\ \A r \in Requests : ~(In(r, conn[c].send) /\ In(r, conn[c].wire))
        /\ conn[c].phase \notin Registered => conn[c].send = <<>> /\ conn[c].wire = <<>>

PipeInv ==
    \A c \in Conns, r \in Requests :
        OnItsWay(r, c) => r \in stored /\ Passed(r, c)

BroadcastInv ==
    \A r \in Requests :
        /\ capture[r] \in {"queued", "sending"} => r \in stored
        /\ \A c \in todo[r] :
              capture[r] = "sending" /\ conn[c].phase \in Registered

FeedInv == FeedTypeOK /\ ConnInv /\ PipeInv /\ BroadcastInv

\* What a peer has stays behind every broadcast.
GoneStays == \A r \in Requests, c \in Conns : Gone(r, c) => Gone(r, c)'

LEMMA FeedInitInv == FeedInit => FeedInv
  <1> SUFFICES ASSUME FeedInit PROVE FeedInv OBVIOUS
  <1>1. FreeConn \in Connection
    BY DEF FreeConn, Connection, Phases
  <1>2. FeedTypeOK
    BY <1>1, FeedAssumption DEF FeedInit, FeedTypeOK, CaptureSteps, FreeConn
  <1>3. ConnInv /\ PipeInv /\ BroadcastInv
    BY EmptyFacts
       DEF FeedInit, ConnInv, PipeInv, BroadcastInv, FreeConn, OnItsWay
  <1> QED BY <1>2, <1>3 DEF FeedInv

\* Connections change, and nothing is put on its way to a peer.
LEMMA TableChanges ==
    ASSUME FeedInv, conn' \in [Conns -> Connection],
           UNCHANGED <<received, stored, capture, todo>>,
           \A c \in Conns :
               /\ Len(conn'[c].send) <= SendCap /\ Len(conn'[c].wire) <= WireCap
               /\ NoDup(conn'[c].send) /\ NoDup(conn'[c].wire)
               /\ \A r \in Requests :
                     ~(In(r, conn'[c].send) /\ In(r, conn'[c].wire))
               /\ \A r \in Requests : OnItsWay(r, c)' => OnItsWay(r, c)
               /\ conn'[c].phase \notin Registered =>
                     conn'[c].send = <<>> /\ conn'[c].wire = <<>>
               /\ conn'[c].phase \in Registered \/ \A r \in Requests : c \notin todo[r]
    PROVE  FeedInv' /\ GoneStays
  <1>1. FeedTypeOK' BY DEF FeedInv, FeedTypeOK
  <1>2. ConnInv' BY DEF ConnInv
  <1>3. PipeInv' BY DEF FeedInv, PipeInv, Passed
  <1>4. BroadcastInv' BY DEF FeedInv, FeedTypeOK, BroadcastInv
  <1>5. GoneStays BY DEF GoneStays, Gone, Passed
  <1> QED BY <1>1, <1>2, <1>3, <1>4, <1>5 DEF FeedInv

\* One connection changes.
LEMMA ConnChanges ==
    ASSUME FeedInv, NEW c \in Conns, NEW x \in Connection,
           conn' = [conn EXCEPT ![c] = x],
           UNCHANGED <<received, stored, capture, todo>>,
           Len(x.send) <= SendCap, Len(x.wire) <= WireCap,
           NoDup(x.send), NoDup(x.wire),
           \A r \in Requests : ~(In(r, x.send) /\ In(r, x.wire)),
           \A r \in Requests : In(r, x.send) \/ In(r, x.wire) => OnItsWay(r, c),
           x.phase \notin Registered => x.send = <<>> /\ x.wire = <<>>,
           x.phase \in Registered \/ \A r \in Requests : c \notin todo[r]
    PROVE  FeedInv' /\ GoneStays
  <1>1. conn \in [Conns -> Connection] BY DEF FeedInv, FeedTypeOK
  <1>2. \A d \in Conns : conn'[d] = IF d = c THEN x ELSE conn[d] BY <1>1
  <1>3. conn' \in [Conns -> Connection] BY <1>1
  <1>4. \A d \in Conns, r \in Requests : OnItsWay(r, d)' => OnItsWay(r, d)
    BY <1>2 DEF OnItsWay
  <1>5. ASSUME NEW d \in Conns, d # c
        PROVE  /\ Len(conn[d].send) <= SendCap /\ Len(conn[d].wire) <= WireCap
               /\ NoDup(conn[d].send) /\ NoDup(conn[d].wire)
               /\ \A r \in Requests : ~(In(r, conn[d].send) /\ In(r, conn[d].wire))
               /\ conn[d].phase \notin Registered =>
                     conn[d].send = <<>> /\ conn[d].wire = <<>>
               /\ conn[d].phase \in Registered \/ \A r \in Requests : d \notin todo[r]
    BY DEF FeedInv, FeedTypeOK, ConnInv, BroadcastInv
  <1> QED BY <1>2, <1>3, <1>4, <1>5, TableChanges

----------------------------------------------------------------------------
(* Every step of the server keeps it *)

LEMMA FeedFacts ==
    ASSUME FeedInv, NEW c \in Conns
    PROVE  /\ conn \in [Conns -> Connection] /\ conn[c] \in Connection
           /\ conn[c].send \in Seq(Requests)
           /\ conn[c].wire \in Seq(Requests \cup {Connected})
           /\ conn[c].peer \in BOOLEAN /\ conn[c].phase \in Phases
           /\ conn[c].stream \in Streams \cup {NoStream}
           /\ Len(conn[c].send) <= SendCap /\ Len(conn[c].wire) <= WireCap
           /\ NoDup(conn[c].send) /\ NoDup(conn[c].wire)
           /\ \A r \in Requests : ~(In(r, conn[c].send) /\ In(r, conn[c].wire))
           /\ conn[c].phase \notin Registered =>
                 conn[c].send = <<>> /\ conn[c].wire = <<>>
  BY DEF FeedInv, FeedTypeOK, ConnInv, Connection

\* Nobody is to be visited while nobody holds the read lock.
LEMMA NoneToVisit ==
    ASSUME FeedInv, ~ReadLocked, NEW c \in Conns
    PROVE  \A r \in Requests : c \notin todo[r]
  BY DEF FeedInv, BroadcastInv, ReadLocked

\* Nobody visits a connection that is not registered.
LEMMA NotToVisit ==
    ASSUME FeedInv, NEW c \in Conns, conn[c].phase \notin Registered
    PROVE  \A r \in Requests : c \notin todo[r]
  BY DEF FeedInv, BroadcastInv

LEMMA FreeConnFacts ==
    /\ FreeConn \in Connection /\ FreeConn.send = <<>> /\ FreeConn.wire = <<>>
    /\ FreeConn.phase = "free" /\ FreeConn.peer = FALSE
    /\ "free" \notin Registered /\ "dialled" \notin Registered
    /\ "open" \in Registered /\ "leaving" \in Registered
    /\ Len(<<>>) = 0 /\ 0 <= SendCap /\ 0 <= WireCap /\ 1 <= WireCap
  BY FeedAssumption DEF FreeConn, Connection, Phases, Registered

\* A connection without contents, registered or visited by no broadcast.
LEMMA EmptyChanges ==
    ASSUME FeedInv, NEW c \in Conns, NEW x \in Connection,
           conn' = [conn EXCEPT ![c] = x],
           UNCHANGED <<received, stored, capture, todo>>,
           x.send = <<>>, x.wire = <<>>,
           \A r \in Requests : c \notin todo[r]
    PROVE  FeedInv' /\ GoneStays
  BY ConnChanges, EmptyFacts, FreeConnFacts

LEMMA HungUpStep ==
    ASSUME FeedInv, NEW c \in Conns \cup {NoConn},
           conn' = HungUp(conn, c),
           UNCHANGED <<received, stored, capture, todo>>
    PROVE  FeedInv' /\ GoneStays
  <1>1. CASE c = NoConn
    <2>1. conn' = conn BY <1>1 DEF HungUp
    <2> QED
      BY <2>1 DEF FeedInv, FeedTypeOK, ConnInv, PipeInv, BroadcastInv, OnItsWay,
                  Passed, GoneStays, Gone
  <1>2. CASE c \in Conns
    <2> DEFINE x == [conn[c] EXCEPT !.peer = FALSE, !.wire = <<>>]
    <2>1. conn' = [conn EXCEPT ![c] = x]
      BY <1>2, FeedAssumption, FeedFacts DEF HungUp
    <2>2. /\ x \in Connection /\ x.send = conn[c].send /\ x.wire = <<>>
          /\ x.phase = conn[c].phase
      <3>1. <<>> \in Seq(Requests \cup {Connected}) BY EmptySeq
      <3> QED BY <1>2, <3>1, FeedFacts DEF Connection
    <2> HIDE DEF x
    <2>3. /\ \A r \in Requests : ~(In(r, x.send) /\ In(r, x.wire))
          /\ \A r \in Requests : In(r, x.send) \/ In(r, x.wire) => OnItsWay(r, c)
      BY <2>2, EmptyFacts DEF OnItsWay
    <2>4. x.phase \in Registered \/ \A r \in Requests : c \notin todo[r]
      BY <1>2, <2>2, NotToVisit
    <2>5. /\ x.phase \notin Registered => x.send = <<>> /\ x.wire = <<>>
          /\ Len(x.send) <= SendCap /\ Len(x.wire) <= WireCap
          /\ NoDup(x.send) /\ NoDup(x.wire)
      BY <1>2, <2>2, FeedFacts, EmptyFacts, FreeConnFacts
    <2> QED BY <1>2, <2>1, <2>2, <2>3, <2>4, <2>5, ConnChanges
  <1> QED BY <1>1, <1>2

LEMMA DialledStep ==
    ASSUME FeedInv, NEW c \in Conns, NEW s \in Streams \cup {NoStream},
           conn[c].phase = "free", conn' = DialledBy(conn, c, s),
           UNCHANGED <<received, stored, capture, todo>>
    PROVE  FeedInv' /\ GoneStays
  <1> DEFINE x == [FreeConn EXCEPT !.phase = "dialled", !.peer = TRUE, !.stream = s]
  <1>1. x \in Connection /\ x.send = <<>> /\ x.wire = <<>>
    BY EmptySeq DEF FreeConn, Connection, Phases
  <1>2. conn' = [conn EXCEPT ![c] = x] BY DEF DialledBy
  <1> HIDE DEF x
  <1> QED BY <1>1, <1>2, EmptyChanges, NotToVisit, FreeConnFacts

\* One connection is hung up, another dialled.
LEMMA RedialledStep ==
    ASSUME FeedInv, NEW c \in Conns, NEW d \in Conns \cup {NoConn}, c # d,
           NEW s \in Streams \cup {NoStream},
           conn[c].phase = "free", conn' = DialledBy(HungUp(conn, d), c, s),
           UNCHANGED <<received, stored, capture, todo>>
    PROVE  FeedInv' /\ GoneStays
  <1>1. CASE d = NoConn
    BY <1>1, DialledStep DEF HungUp
  <1>2. CASE d \in Conns
    <2> DEFINE x == [FreeConn EXCEPT !.phase = "dialled", !.peer = TRUE, !.stream = s]
               y == [conn[d] EXCEPT !.peer = FALSE, !.wire = <<>>]
    <2>1. conn' = [[conn EXCEPT ![d] = y] EXCEPT ![c] = x]
      BY <1>2, FeedAssumption, FeedFacts DEF HungUp, DialledBy
    <2>2. x \in Connection /\ x.send = <<>> /\ x.wire = <<>>
      BY EmptySeq DEF FreeConn, Connection, Phases
    <2>3. /\ y \in Connection /\ y.send = conn[d].send /\ y.wire = <<>>
          /\ y.phase = conn[d].phase
      <3>1. <<>> \in Seq(Requests \cup {Connected}) BY EmptySeq
      <3> QED BY <1>2, <3>1, FeedFacts DEF Connection
    <2> HIDE DEF x, y
    <2>4. /\ conn'[c] = x /\ conn'[d] = y
          /\ \A b \in Conns \ {c, d} : conn'[b] = conn[b]
          /\ conn' \in [Conns -> Connection]
      BY <1>2, <2>1, <2>2, <2>3, FeedFacts
    <2> SUFFICES ASSUME NEW b \in Conns
        PROVE  /\ Len(conn'[b].send) <= SendCap /\ Len(conn'[b].wire) <= WireCap
               /\ NoDup(conn'[b].send) /\ NoDup(conn'[b].wire)
               /\ \A r \in Requests :
                     ~(In(r, conn'[b].send) /\ In(r, conn'[b].wire))
               /\ \A r \in Requests : OnItsWay(r, b)' => OnItsWay(r, b)
               /\ conn'[b].phase \notin Registered =>
                     conn'[b].send = <<>> /\ conn'[b].wire = <<>>
               /\ conn'[b].phase \in Registered \/ \A r \in Requests : b \notin todo[r]
      BY <2>4, TableChanges
    <2>5. conn[b].phase \in Registered \/ \A r \in Requests : b \notin todo[r]
      BY NotToVisit
    <2>6. CASE b = c
      BY <2>2, <2>4, <2>5, <2>6, EmptyFacts, FreeConnFacts DEF OnItsWay
    <2>7. CASE b = d
      BY <2>3, <2>4, <2>5, <2>7, FeedFacts, EmptyFacts, FreeConnFacts DEF OnItsWay
    <2>8. CASE b \notin {c, d}
      BY <2>4, <2>5, <2>8, FeedFacts DEF OnItsWay
    <2> QED BY <2>6, <2>7, <2>8
  <1> QED BY <1>1, <1>2

LEMMA RefusedStep ==
    ASSUME FeedInv, NEW c \in Conns, conn[c].phase = "dialled",
           conn' = RefusedBy(conn, c),
           UNCHANGED <<received, stored, capture, todo>>
    PROVE  FeedInv' /\ GoneStays
  BY EmptyChanges, NotToVisit, FreeConnFacts DEF RefusedBy

\* What is read is on its way no more.
LEMMA ReadStep ==
    ASSUME FeedInv, NEW c \in Conns, conn[c].wire # <<>>,
           conn' = ReadBy(conn, c),
           UNCHANGED <<received, stored, capture, todo>>
    PROVE  /\ FeedInv' /\ GoneStays
           /\ Head(conn[c].wire) \in Requests \cup {Connected}
           /\ \A r \in Requests :
                 r = Head(conn[c].wire) => ~Gone(r, c) /\ Gone(r, c)'
  <1> DEFINE x == [conn[c] EXCEPT !.wire = Tail(conn[c].wire)]
             e == Head(conn[c].wire)
  <1>1. conn' = [conn EXCEPT ![c] = x] BY FeedFacts DEF ReadBy
  <1>2. /\ e \in Requests \cup {Connected}
        /\ Tail(conn[c].wire) \in Seq(Requests \cup {Connected})
        /\ Len(Tail(conn[c].wire)) = Len(conn[c].wire) - 1
        /\ Len(conn[c].wire) \in Nat
        /\ In(e, conn[c].wire) /\ NoDup(Tail(conn[c].wire))
        /\ ~In(e, Tail(conn[c].wire))
        /\ \A r : In(r, Tail(conn[c].wire)) => In(r, conn[c].wire)
    BY FeedFacts, TailFacts, LenProperties
  <1>3. /\ x \in Connection /\ x.send = conn[c].send
        /\ x.wire = Tail(conn[c].wire) /\ x.phase = conn[c].phase
    BY <1>2, FeedFacts DEF Connection
  <1>4. Len(x.wire) <= WireCap /\ conn[c].phase \in Registered
    BY <1>2, <1>3, FeedFacts, FeedAssumption
  <1> HIDE DEF x
  <1>5. FeedInv' /\ GoneStays
    <2>1. /\ \A r \in Requests : ~(In(r, x.send) /\ In(r, x.wire))
          /\ \A r \in Requests : In(r, x.send) \/ In(r, x.wire) => OnItsWay(r, c)
      BY <1>2, <1>3, FeedFacts DEF OnItsWay
    <2>2. /\ Len(x.send) <= SendCap
          /\ NoDup(x.send) /\ NoDup(x.wire)
      BY <1>2, <1>3, FeedFacts
    <2> QED BY <1>1, <1>3, <1>4, <2>1, <2>2, ConnChanges
  <1> HIDE DEF e
  <1>6. ASSUME NEW r \in Requests, r = e PROVE ~Gone(r, c) /\ Gone(r, c)'
    <2>1. OnItsWay(r, c) BY <1>2, <1>6 DEF OnItsWay
    <2>2. ~In(r, conn[c].send) BY <1>2, <1>6, FeedFacts
    <2>3. conn'[c] = x BY <1>1, FeedFacts
    <2>4. ~In(r, x.send) /\ ~In(r, x.wire) BY <1>2, <1>3, <1>6, <2>2
    <2>5. ~OnItsWay(r, c)' BY <2>3, <2>4 DEF OnItsWay
    <2>6. r \in stored /\ Passed(r, c) BY <2>1 DEF FeedInv, PipeInv
    <2> QED BY <2>1, <2>5, <2>6 DEF Gone, Passed
  <1> QED BY <1>2, <1>5, <1>6 DEF e

LEMMA RegisterStep ==
    ASSUME FeedInv, NEW c \in Conns, Register(c) PROVE FeedInv' /\ GoneStays
  <1> DEFINE w == IF conn[c].peer THEN <<Connected>> ELSE <<>>
             x == [conn[c] EXCEPT !.phase = "open", !.wire = w]
  <1>1. conn' = [conn EXCEPT ![c] = x] BY FeedFacts DEF Register
  <1>2. /\ w \in Seq(Requests \cup {Connected}) /\ Len(w) <= WireCap /\ NoDup(w)
        /\ \A r \in Requests : ~In(r, w)
    <2>1. /\ <<>> \in Seq(Requests \cup {Connected})
          /\ <<Connected>> \in Seq(Requests \cup {Connected})
          /\ Len(<<Connected>>) = 1
      BY EmptySeq
    <2>2. CASE conn[c].peer
      BY <2>1, <2>2, OneFacts, ConnectedAssumption, FreeConnFacts
    <2>3. CASE ~conn[c].peer
      BY <2>1, <2>3, EmptyFacts, FreeConnFacts
    <2> QED BY <2>2, <2>3
  <1>3. conn[c].send = <<>>
    BY FeedFacts, FreeConnFacts DEF Register
  <1> HIDE DEF w
  <1>4. x \in Connection /\ x.send = <<>> /\ x.wire = w /\ x.phase = "open"
    BY <1>2, <1>3, FeedFacts DEF Connection, Phases
  <1> HIDE DEF x
  <1>5. /\ Len(x.send) <= SendCap /\ Len(x.wire) <= WireCap
        /\ NoDup(x.send) /\ NoDup(x.wire)
    BY <1>2, <1>4, EmptyFacts, FreeConnFacts
  <1>6. \A r \in Requests : ~In(r, x.send) /\ ~In(r, x.wire)
    BY <1>2, <1>4, EmptyFacts
  <1>7. x.phase \in Registered BY <1>4, FreeConnFacts
  <1>8. UNCHANGED <<received, stored, capture, todo>> BY DEF Register
  <1> QED BY <1>1, <1>4, <1>5, <1>6, <1>7, <1>8, ConnChanges

LEMMA WriteStep ==
    ASSUME FeedInv, NEW c \in Conns, Write(c) PROVE FeedInv' /\ GoneStays
  <1> DEFINE e == Head(conn[c].send)
             w == IF conn[c].peer THEN Append(conn[c].wire, e) ELSE conn[c].wire
             x == [conn[c] EXCEPT !.send = Tail(conn[c].send), !.wire = w]
  <1>1. conn' = [conn EXCEPT ![c] = x] BY FeedFacts DEF Write
  <1>2. /\ e \in Requests /\ In(e, conn[c].send)
        /\ Tail(conn[c].send) \in Seq(Requests)
        /\ Len(Tail(conn[c].send)) = Len(conn[c].send) - 1
        /\ Len(conn[c].send) \in Nat
        /\ NoDup(Tail(conn[c].send)) /\ ~In(e, Tail(conn[c].send))
        /\ \A r : In(r, Tail(conn[c].send)) => In(r, conn[c].send)
    BY FeedFacts, TailFacts, LenProperties DEF Write
  <1>3. ~In(e, conn[c].wire) BY <1>2, FeedFacts
  <1>4. /\ w \in Seq(Requests \cup {Connected}) /\ NoDup(w)
        /\ \A r : In(r, w) => In(r, conn[c].wire) \/ r = e
    BY <1>2, <1>3, FeedFacts, AppendFacts
  <1>5. Len(w) <= WireCap
    BY <1>2, FeedFacts, AppendFacts, LenProperties, FeedAssumption DEF Write
  <1> HIDE DEF w, e
  <1>6. /\ x \in Connection /\ x.send = Tail(conn[c].send) /\ x.wire = w
        /\ x.phase = "open"
    BY <1>2, <1>4, FeedFacts DEF Connection, Write
  <1>7. Len(x.send) <= SendCap
    BY <1>2, <1>6, FeedFacts, FeedAssumption
  <1> HIDE DEF x
  <1>8. \A r \in Requests : ~(In(r, x.send) /\ In(r, x.wire))
    BY <1>2, <1>4, <1>6, FeedFacts
  <1>9. \A r \in Requests : In(r, x.send) \/ In(r, x.wire) => OnItsWay(r, c)
    BY <1>2, <1>4, <1>6 DEF OnItsWay
  <1> QED
    BY <1>1, <1>2, <1>4, <1>5, <1>6, <1>7, <1>8, <1>9, ConnChanges, FreeConnFacts
       DEF Write

LEMMA ExitStep ==
    ASSUME FeedInv, NEW c \in Conns, Exit(c) PROVE FeedInv' /\ GoneStays
  <1> DEFINE x == [conn[c] EXCEPT !.phase = "leaving"]
  <1>1. conn' = [conn EXCEPT ![c] = x] BY FeedFacts DEF Exit
  <1>2. /\ x \in Connection /\ x.send = conn[c].send /\ x.wire = conn[c].wire
        /\ x.phase = "leaving"
    BY FeedFacts DEF Connection, Phases
  <1> HIDE DEF x
  <1>3. /\ \A r \in Requests : ~(In(r, x.send) /\ In(r, x.wire))
        /\ \A r \in Requests : In(r, x.send) \/ In(r, x.wire) => OnItsWay(r, c)
    BY <1>2, FeedFacts DEF OnItsWay
  <1>4. /\ x.phase \in Registered
        /\ Len(x.send) <= SendCap /\ Len(x.wire) <= WireCap
        /\ NoDup(x.send) /\ NoDup(x.wire)
    BY <1>2, FeedFacts, FreeConnFacts
  <1> QED BY <1>1, <1>2, <1>3, <1>4, ConnChanges DEF Exit

LEMMA DeregisterStep ==
    ASSUME FeedInv, NEW c \in Conns, Deregister(c) PROVE FeedInv' /\ GoneStays
  BY EmptyChanges, NoneToVisit, FreeConnFacts DEF Deregister

\* The steps of a captured request leave the connections alone, or put it in
\* the channel of one the broadcast had yet to visit.
LEMMA ReceiveStep ==
    ASSUME FeedInv, NEW r \in Requests, Receive(r) PROVE FeedInv' /\ GoneStays
  <1>1. FeedTypeOK'
    BY AppendProperties DEF FeedInv, FeedTypeOK, Receive, CaptureSteps
  <1>2. capture[r] = "none" /\ capture' = [capture EXCEPT ![r] = "stamped"]
    BY DEF Receive
  <1>3. ConnInv' BY DEF FeedInv, ConnInv, Receive
  <1>4. PipeInv'
    BY <1>2 DEF FeedInv, FeedTypeOK, PipeInv, OnItsWay, Passed, Receive
  <1>5. BroadcastInv'
    BY <1>2 DEF FeedInv, FeedTypeOK, BroadcastInv, Receive
  <1>6. GoneStays
    BY <1>2 DEF FeedInv, FeedTypeOK, GoneStays, Gone, OnItsWay, Passed, Receive
  <1> QED BY <1>1, <1>3, <1>4, <1>5, <1>6 DEF FeedInv

LEMMA SaveStep ==
    ASSUME FeedInv, NEW r \in Requests, Save(r) PROVE FeedInv' /\ GoneStays
  <1> PICK step \in {"queued", "refused"} :
        /\ capture' = [capture EXCEPT ![r] = step]
        /\ step = "queued" => stored' = stored \cup {r}
        /\ step = "refused" => stored' = stored
    BY DEF Save, SaveWorks, SaveFails
  <1> USE DEF Save
  <1>1. FeedTypeOK' BY DEF FeedInv, FeedTypeOK, CaptureSteps
  <1>3. ConnInv' BY DEF FeedInv, ConnInv
  <1>4. PipeInv' BY DEF FeedInv, FeedTypeOK, PipeInv, OnItsWay, Passed
  <1>5. BroadcastInv' BY DEF FeedInv, FeedTypeOK, BroadcastInv
  <1>6. GoneStays BY DEF FeedInv, FeedTypeOK, GoneStays, Gone, OnItsWay, Passed
  <1> QED BY <1>1, <1>3, <1>4, <1>5, <1>6 DEF FeedInv

LEMMA BeginBroadcastStep ==
    ASSUME FeedInv, NEW r \in Requests, BeginBroadcast(r)
    PROVE  FeedInv' /\ GoneStays
  <1> DEFINE clients == Clients(StreamOf[r])
             step == IF clients = {} THEN "done" ELSE "sending"
  <1>1. /\ capture[r] = "queued" /\ r \in stored
        /\ capture' = [capture EXCEPT ![r] = step]
        /\ todo' = [todo EXCEPT ![r] = clients]
        /\ UNCHANGED <<received, stored, conn>>
    BY DEF BeginBroadcast, FeedInv, BroadcastInv
  <1>2. /\ clients \subseteq Conns
        /\ \A c \in clients : conn[c].phase \in Registered
        /\ step \in {"done", "sending"}
        /\ clients # {} => step = "sending"
    BY DEF Clients
  <1>3. \A c \in Conns : ~OnItsWay(r, c)
    BY <1>1 DEF FeedInv, PipeInv, Passed
  <1> HIDE DEF clients, step
  <1>4. FeedTypeOK' BY <1>1, <1>2 DEF FeedInv, FeedTypeOK, CaptureSteps
  <1>5. ConnInv' BY <1>1 DEF FeedInv, ConnInv
  <1>6. PipeInv'
    BY <1>1, <1>2, <1>3 DEF FeedInv, FeedTypeOK, PipeInv, OnItsWay, Passed
  <1>7. BroadcastInv'
    BY <1>1, <1>2 DEF FeedInv, FeedTypeOK, BroadcastInv
  <1>8. GoneStays
    BY <1>1, <1>2 DEF FeedInv, FeedTypeOK, GoneStays, Gone, OnItsWay, Passed
  <1> QED BY <1>4, <1>5, <1>6, <1>7, <1>8 DEF FeedInv

LEMMA SendToStep ==
    ASSUME FeedInv, NEW r \in Requests, NEW c \in Conns, SendTo(r, c)
    PROVE  FeedInv' /\ GoneStays
  <1> DEFINE s == IF HasRoom(c) THEN Append(conn[c].send, r) ELSE conn[c].send
             x == [conn[c] EXCEPT !.send = s]
             step == IF todo[r] = {c} THEN "done" ELSE capture[r]
  <1>1. /\ c \in todo[r] /\ capture[r] = "sending" /\ r \in stored
        /\ conn[c].phase \in Registered
        /\ todo' = [todo EXCEPT ![r] = @ \ {c}]
        /\ capture' = [capture EXCEPT ![r] = step]
        /\ UNCHANGED <<received, stored>>
    BY DEF SendTo, FeedInv, FeedTypeOK, BroadcastInv
  <1>2. conn' = [conn EXCEPT ![c] = x] BY FeedFacts DEF SendTo, Connection
  <1>3. /\ step \in {"done", "sending"}
        /\ todo[r] \ {c} # {} => step = "sending"
    BY <1>1
  <1>4. ~OnItsWay(r, c) BY <1>1 DEF FeedInv, PipeInv, Passed
  <1>5. /\ s \in Seq(Requests) /\ NoDup(s) /\ Len(s) <= SendCap
        /\ \A q : In(q, s) => In(q, conn[c].send) \/ q = r
    BY <1>4, FeedFacts, AppendFacts, LenProperties, FeedAssumption
       DEF HasRoom, OnItsWay
  <1> HIDE DEF s, step
  <1>6. x \in Connection /\ x.send = s /\ x.wire = conn[c].wire /\ x.phase = conn[c].phase
    BY <1>5, FeedFacts DEF Connection
  <1> HIDE DEF x
  <1>7. \A d \in Conns : conn'[d] = IF d = c THEN x ELSE conn[d]
    BY <1>2, FeedFacts
  <1>8. \A q \in Requests, d \in Conns :
            OnItsWay(q, d)' => OnItsWay(q, d) \/ (q = r /\ d = c)
    BY <1>5, <1>6, <1>7 DEF OnItsWay
  <1>9. FeedTypeOK'
    <2>1. conn' \in [Conns -> Connection] BY <1>2, <1>6, FeedFacts
    <2>2. \A d \in Conns : /\ Len(conn'[d].send) <= SendCap
                           /\ Len(conn'[d].wire) <= WireCap
      BY <1>5, <1>6, <1>7 DEF FeedInv, FeedTypeOK
    <2>3. capture' \in [Requests -> CaptureSteps] /\ todo' \in [Requests -> SUBSET Conns]
      BY <1>1, <1>3 DEF FeedInv, FeedTypeOK, CaptureSteps
    <2> QED BY <1>1, <2>1, <2>2, <2>3 DEF FeedInv, FeedTypeOK
  <1>10. ConnInv'
    <2> SUFFICES ASSUME NEW d \in Conns
                 PROVE  /\ NoDup(conn'[d].send) /\ NoDup(conn'[d].wire)
                        /\ \A q \in Requests :
                              ~(In(q, conn'[d].send) /\ In(q, conn'[d].wire))
                        /\ conn'[d].phase \notin Registered =>
                              conn'[d].send = <<>> /\ conn'[d].wire = <<>>
      BY DEF ConnInv
    <2>1. CASE d = c
      BY <2>1, <1>1, <1>4, <1>5, <1>6, <1>7, FeedFacts DEF OnItsWay
    <2>2. CASE d # c BY <2>2, <1>7, FeedFacts
    <2> QED BY <2>1, <2>2
  <1>11. PipeInv'
    BY <1>1, <1>3, <1>8 DEF FeedInv, FeedTypeOK, PipeInv, Passed
  <1>12. BroadcastInv'
    BY <1>1, <1>3, <1>6, <1>7 DEF FeedInv, FeedTypeOK, BroadcastInv
  <1>13. GoneStays
    BY <1>1, <1>3, <1>8 DEF FeedInv, FeedTypeOK, GoneStays, Gone, Passed
  <1> QED BY <1>9, <1>10, <1>11, <1>12, <1>13 DEF FeedInv

LEMMA CrashStep == ASSUME FeedInv, Crash PROVE FeedInv' /\ GoneStays
  <1> USE DEF Crash
  <1>1. \A c \in Conns : /\ conn'[c].send = <<>> /\ conn'[c].wire = <<>>
                         /\ \A r : ~In(r, conn'[c].send) /\ ~In(r, conn'[c].wire)
                         /\ NoDup(conn'[c].send) /\ NoDup(conn'[c].wire)
    BY EmptyFacts, FreeConnFacts
  <1>2. \A r \in Requests : capture'[r] \in CaptureSteps
    BY DEF FeedInv, FeedTypeOK, AfterCrash, CaptureSteps
  <1>3. FeedTypeOK' BY <1>1, <1>2, FreeConnFacts DEF FeedInv, FeedTypeOK
  <1>4. ConnInv' BY <1>1 DEF ConnInv
  <1>5. PipeInv' BY <1>1 DEF PipeInv, OnItsWay
  <1>6. BroadcastInv' BY DEF FeedInv, BroadcastInv, AfterCrash
  <1>7. GoneStays
    BY <1>1 DEF FeedInv, FeedTypeOK, GoneStays, Gone, OnItsWay, Passed, AfterCrash
  <1> QED BY <1>3, <1>4, <1>5, <1>6, <1>7 DEF FeedInv

LEMMA FeedStep == ASSUME FeedInv, FeedNext PROVE FeedInv' /\ GoneStays
  <1>1. ASSUME NEW r \in Requests, Receive(r) \/ CaptureStep(r)
        PROVE  FeedInv' /\ GoneStays
    BY <1>1, ReceiveStep, SaveStep, BeginBroadcastStep, SendToStep
       DEF CaptureStep, Broadcast
  <1>2. ASSUME NEW c \in Conns, ConnStep(c) PROVE FeedInv' /\ GoneStays
    BY <1>2, RegisterStep, WriteStep, ExitStep, DeregisterStep DEF ConnStep
  <1>3. ASSUME NEW c \in Conns, Break(c) PROVE FeedInv' /\ GoneStays
    BY <1>3, HungUpStep DEF Break
  <1> QED BY <1>1, <1>2, <1>3, CrashStep DEF FeedNext

\* Steps that leave the server alone.
LEMMA FeedStays ==
    ASSUME FeedInv, UNCHANGED feedVars
    PROVE  FeedInv' /\ GoneStays /\ UNCHANGED stored
  BY DEF feedVars, FeedInv, FeedTypeOK, ConnInv, PipeInv, BroadcastInv, OnItsWay,
         Passed, GoneStays, Gone

\* Rows are never deleted.
LEMMA StoredStays == ASSUME FeedNext PROVE stored \subseteq stored'
  BY DEF FeedNext, Receive, CaptureStep, Save, SaveWorks, SaveFails, Broadcast,
         BeginBroadcast, SendTo, ConnStep, Register, Write, Exit, Deregister, Break,
         Crash

\* What some peer has will come to no connection that is yet to be opened.
LEMMA FreshGone ==
    ASSUME FeedInv, NEW c \in Conns, NEW d \in Conns, NEW r \in Requests,
           conn[c].phase = "free", Gone(r, d)
    PROVE  Gone(r, c)
  BY FeedFacts, NotToVisit, EmptyFacts, FreeConnFacts DEF Gone, Passed, OnItsWay
----------------------------------------------------------------------------
(* Streams *)

\* What is on its way to a connection, or still to be sent to it, is of the
\* stream the connection was opened for.
StreamInv ==
    \A c \in Conns, r \in Requests :
        OnItsWay(r, c) \/ c \in todo[r] => conn[c].stream = StreamOf[r]

\* No step of the server brings a peer back, or gives it another stream.
PeersStay ==
    \A c \in Conns : conn'[c].peer => conn[c].peer /\ conn'[c].stream = conn[c].stream

LEMMA OneStream ==
    ASSUME FeedInv, StreamInv, NEW c \in Conns, NEW x,
           conn' = [conn EXCEPT ![c] = x], UNCHANGED todo,
           \A r \in Requests :
               In(r, x.send) \/ In(r, x.wire) => OnItsWay(r, c) /\ x.stream = conn[c].stream,
           x.stream = conn[c].stream \/ \A r \in Requests : c \notin todo[r]
    PROVE  StreamInv'
  <1>1. \A d \in Conns : conn'[d] = IF d = c THEN x ELSE conn[d]
    BY FeedFacts
  <1> QED BY <1>1 DEF StreamInv, OnItsWay

LEMMA SameStreams ==
    ASSUME StreamInv, UNCHANGED <<conn, todo>> PROVE StreamInv' /\ PeersStay
  BY DEF StreamInv, OnItsWay, PeersStay

LEMMA HungUpStream ==
    ASSUME FeedInv, StreamInv, NEW c \in Conns, conn' = HungUp(conn, c), UNCHANGED todo
    PROVE  StreamInv' /\ PeersStay
  <1> DEFINE x == [conn[c] EXCEPT !.peer = FALSE, !.wire = <<>>]
  <1>1. conn' = [conn EXCEPT ![c] = x] BY FeedAssumption, FeedFacts DEF HungUp
  <1>2. /\ x.send = conn[c].send /\ x.wire = <<>> /\ x.stream = conn[c].stream
        /\ x.peer = FALSE
    BY FeedFacts DEF Connection
  <1> HIDE DEF x
  <1>3. StreamInv' BY <1>1, <1>2, OneStream, EmptyFacts DEF OnItsWay
  <1>4. PeersStay BY <1>1, <1>2, FeedFacts DEF PeersStay
  <1> QED BY <1>3, <1>4

\* A connection is given to a peer, or given up, that no broadcast is to visit.
LEMMA FreshStream ==
    ASSUME FeedInv, StreamInv, NEW c \in Conns, NEW x, conn' = [conn EXCEPT ![c] = x],
           UNCHANGED todo, x.send = <<>>, x.wire = <<>>,
           \A r \in Requests : c \notin todo[r]
    PROVE  StreamInv'
  BY OneStream, EmptyFacts

LEMMA ReadStream ==
    ASSUME FeedInv, StreamInv, NEW c \in Conns, conn[c].wire # <<>>,
           conn' = ReadBy(conn, c), UNCHANGED todo
    PROVE  StreamInv' /\ PeersStay
  <1> DEFINE x == [conn[c] EXCEPT !.wire = Tail(conn[c].wire)]
  <1>1. conn' = [conn EXCEPT ![c] = x] BY FeedFacts DEF ReadBy
  <1>2. /\ x.send = conn[c].send /\ x.wire = Tail(conn[c].wire)
        /\ x.stream = conn[c].stream /\ x.peer = conn[c].peer
    BY FeedFacts DEF Connection
  <1> HIDE DEF x
  <1>3. \A r : In(r, x.wire) => In(r, conn[c].wire) BY <1>2, FeedFacts, TailFacts
  <1>4. StreamInv' BY <1>1, <1>2, <1>3, OneStream DEF OnItsWay
  <1>5. PeersStay BY <1>1, <1>2, FeedFacts DEF PeersStay
  <1> QED BY <1>4, <1>5

LEMMA CaptureStream ==
    ASSUME FeedInv, StreamInv, NEW r \in Requests, Receive(r) \/ CaptureStep(r)
    PROVE  StreamInv' /\ PeersStay
  <1>1. CASE Receive(r) \/ Save(r)
    BY <1>1, SameStreams DEF Receive, Save
  <1>2. CASE BeginBroadcast(r)
    <2>1. /\ todo' = [todo EXCEPT ![r] = Clients(StreamOf[r])] /\ UNCHANGED conn
      BY <1>2 DEF BeginBroadcast
    <2> QED
      BY <2>1 DEF StreamInv, OnItsWay, Clients, PeersStay, FeedInv, FeedTypeOK
  <1>3. ASSUME NEW c \in Conns, SendTo(r, c) PROVE StreamInv' /\ PeersStay
    <2> DEFINE x == [conn[c] EXCEPT !.send = IF HasRoom(c) THEN Append(@, r) ELSE @]
    <2>1. /\ c \in todo[r] /\ todo' = [todo EXCEPT ![r] = @ \ {c}]
          /\ conn' = [conn EXCEPT ![c] = x]
      BY <1>3, FeedFacts DEF SendTo, Connection
    <2>2. /\ x.send = IF HasRoom(c) THEN Append(conn[c].send, r) ELSE conn[c].send
          /\ x.wire = conn[c].wire /\ x.stream = conn[c].stream /\ x.peer = conn[c].peer
      BY FeedFacts DEF Connection
    <2> HIDE DEF x
    <2>3. \A q : In(q, x.send) => In(q, conn[c].send) \/ q = r
      BY <2>2, FeedFacts, AppendFacts
    <2>4. \A d \in Conns : conn'[d] = IF d = c THEN x ELSE conn[d]
      BY <2>1, FeedFacts
    <2>5. \A q \in Requests : todo'[q] \subseteq todo[q]
      BY <2>1 DEF FeedInv, FeedTypeOK
    <2> QED BY <2>1, <2>2, <2>3, <2>4, <2>5 DEF StreamInv, OnItsWay, PeersStay
  <1> QED BY <1>1, <1>2, <1>3 DEF CaptureStep, Broadcast

LEMMA ConnStream ==
    ASSUME FeedInv, StreamInv, NEW c \in Conns, ConnStep(c)
    PROVE  StreamInv' /\ PeersStay
  <1>1. CASE Register(c)
    <2> DEFINE w == IF conn[c].peer THEN <<Connected>> ELSE <<>>
               x == [conn[c] EXCEPT !.phase = "open", !.wire = w]
    <2>1. conn' = [conn EXCEPT ![c] = x] /\ UNCHANGED todo
      BY <1>1, FeedFacts DEF Register
    <2>2. \A r \in Requests : ~In(r, w)
      BY OneFacts, EmptyFacts, ConnectedAssumption
    <2> HIDE DEF w
    <2>3. /\ x.send = conn[c].send /\ x.wire = w /\ x.stream = conn[c].stream
          /\ x.peer = conn[c].peer
      BY FeedFacts DEF Connection
    <2> HIDE DEF x
    <2>4. StreamInv' BY <2>1, <2>2, <2>3, OneStream DEF OnItsWay
    <2> QED BY <2>1, <2>3, <2>4, FeedFacts DEF PeersStay
  <1>2. CASE Write(c)
    <2> DEFINE e == Head(conn[c].send)
               w == IF conn[c].peer THEN Append(conn[c].wire, e) ELSE conn[c].wire
               x == [conn[c] EXCEPT !.send = Tail(conn[c].send), !.wire = w]
    <2>1. conn' = [conn EXCEPT ![c] = x] /\ UNCHANGED todo /\ conn[c].send # <<>>
      BY <1>2, FeedFacts DEF Write
    <2>2. /\ e \in Requests /\ In(e, conn[c].send)
          /\ \A r : In(r, Tail(conn[c].send)) => In(r, conn[c].send)
      BY <2>1, FeedFacts, TailFacts
    <2>3. \A r : In(r, w) => In(r, conn[c].wire) \/ r = e
      BY <2>2, FeedFacts, AppendFacts
    <2> HIDE DEF e, w
    <2>4. /\ x.send = Tail(conn[c].send) /\ x.wire = w /\ x.stream = conn[c].stream
          /\ x.peer = conn[c].peer
      BY FeedFacts DEF Connection
    <2> HIDE DEF x
    <2>5. StreamInv' BY <2>1, <2>2, <2>3, <2>4, OneStream DEF OnItsWay
    <2> QED BY <2>1, <2>4, <2>5, FeedFacts DEF PeersStay
  <1>3. CASE Exit(c)
    <2> DEFINE x == [conn[c] EXCEPT !.phase = "leaving"]
    <2>1. conn' = [conn EXCEPT ![c] = x] /\ UNCHANGED todo
      BY <1>3, FeedFacts DEF Exit
    <2>2. /\ x.send = conn[c].send /\ x.wire = conn[c].wire
          /\ x.stream = conn[c].stream /\ x.peer = conn[c].peer
      BY FeedFacts DEF Connection
    <2> HIDE DEF x
    <2>3. StreamInv' BY <2>1, <2>2, OneStream DEF OnItsWay
    <2> QED BY <2>1, <2>2, <2>3, FeedFacts DEF PeersStay
  <1>4. CASE Deregister(c)
    <2>1. conn' = [conn EXCEPT ![c] = FreeConn] /\ UNCHANGED todo
      BY <1>4 DEF Deregister
    <2>2. StreamInv'
      BY <1>4, <2>1, NoneToVisit, FreshStream, FreeConnFacts DEF Deregister
    <2> QED BY <2>1, <2>2, FeedFacts, FreeConnFacts DEF PeersStay
  <1> QED BY <1>1, <1>2, <1>3, <1>4 DEF ConnStep

\* Every step of the server keeps events to their streams.
LEMMA FeedStream ==
    ASSUME FeedInv, StreamInv, FeedNext PROVE StreamInv' /\ PeersStay
  <1>1. ASSUME NEW c \in Conns, Break(c) PROVE StreamInv' /\ PeersStay
    BY <1>1, HungUpStream DEF Break
  <1>2. ASSUME Crash PROVE StreamInv' /\ PeersStay
    BY <1>2, EmptyFacts, FreeConnFacts DEF Crash, StreamInv, OnItsWay, PeersStay
  <1> QED BY <1>1, <1>2, CaptureStream, ConnStream DEF FeedNext
=============================================================================
