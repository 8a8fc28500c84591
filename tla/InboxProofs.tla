----------------------------- MODULE InboxProofs -----------------------------
(***************************************************************************)
(* Theorems about endpoints, identifiers, captured requests and their      *)
(* verdicts, for any number of users, names, secrets and goroutines.       *)
(***************************************************************************)
EXTENDS Inbox, FiniteSetTheorems, TLAPS

----------------------------------------------------------------------------
(* The plan's limit *)

\* A creation under way has a user and a slug.
CreateOK(k) ==
    create[k].pc # "idle" => create[k].user \in Users /\ create[k].slug \in Names

\* Endpoints of u, and creations on their way to be one.
Taken(u) == Cardinality(OwnedBy(u)) + Cardinality(Passed(u))

\* A user who was never on the plan without limit is on the free plan.
PlanInv ==
    /\ now \in Nat
    /\ EndpointsTypeOK
    /\ \A k \in Creators : CreateOK(k)
    /\ IsFiniteSet(endpoints)
    /\ \A u \in Users \ wasPro : plan[u] = "free"
    /\ OverrunIsBounded

LEMMA CreationFacts ==
    ASSUME PlanInv, NEW k \in Creators
    PROVE  /\ create[k] \in Creation
           /\ create[k].pc # "idle" => create[k].user \in Users /\ create[k].slug \in Names
  BY DEF PlanInv, EndpointsTypeOK, CreateOK

LEMMA IdleCreateFacts == IdleCreate \in Creation /\ IdleCreate.pc = "idle"
  BY DEF IdleCreate, Creation

\* The counts are numbers.
LEMMA CountFacts ==
    ASSUME PlanInv, NEW u \in Users
    PROVE  /\ IsFiniteSet(OwnedBy(u)) /\ IsFiniteSet(Passed(u))
           /\ Cardinality(OwnedBy(u)) \in Nat /\ Cardinality(Passed(u)) \in Nat
           /\ Cardinality(Creators) \in Nat
           /\ Cardinality(Passed(u)) <= Cardinality(Creators)
  <1>1. IsFiniteSet(endpoints) /\ IsFiniteSet(Creators) BY CreatorsAssumption DEF PlanInv
  <1>2. OwnedBy(u) \subseteq endpoints /\ Passed(u) \subseteq Creators BY DEF OwnedBy, Passed
  <1>3. IsFiniteSet(OwnedBy(u)) /\ IsFiniteSet(Passed(u))
        /\ Cardinality(Passed(u)) <= Cardinality(Creators)
    BY <1>1, <1>2, FS_Subset
  <1> QED BY <1>1, <1>3, FS_CardinalityType

\* Fewer endpoints and fewer creations on their way are no more.
LEMMA FewerIsFewer ==
    ASSUME PlanInv, NEW u \in Users, OwnedBy(u)' \subseteq OwnedBy(u), Passed(u)' \subseteq Passed(u)
    PROVE  Cardinality(OwnedBy(u))' + Cardinality(Passed(u))' <= Taken(u)
  <1>1. Cardinality(OwnedBy(u)') <= Cardinality(OwnedBy(u)) /\ IsFiniteSet(OwnedBy(u)')
    BY CountFacts, FS_Subset
  <1>2. Cardinality(Passed(u)') <= Cardinality(Passed(u)) /\ IsFiniteSet(Passed(u)')
    BY CountFacts, FS_Subset
  <1>3. Cardinality(OwnedBy(u)') \in Nat /\ Cardinality(Passed(u)') \in Nat
    BY <1>1, <1>2, FS_CardinalityType
  <1> QED BY <1>1, <1>2, <1>3, CountFacts DEF Taken

LEMMA BoundOf ==
    ASSUME PlanInv, NEW u \in Users \ wasPro
    PROVE  Taken(u) <= MaxNamedEndpoints("free") + Cardinality(Creators) - 1
  BY DEF PlanInv, OverrunIsBounded, Taken

LEMMA BoundKept ==
    ASSUME PlanInv, wasPro \subseteq wasPro',
           \A u \in Users : OwnedBy(u)' \subseteq OwnedBy(u) /\ Passed(u)' \subseteq Passed(u)
    PROVE  OverrunIsBounded'
  <1> SUFFICES ASSUME NEW u \in Users \ wasPro
               PROVE  Cardinality(OwnedBy(u))' + Cardinality(Passed(u))'
                          <= MaxNamedEndpoints("free") + Cardinality(Creators) - 1
    BY DEF OverrunIsBounded
  <1>1. OwnedBy(u)' \subseteq OwnedBy(u) /\ Passed(u)' \subseteq Passed(u) OBVIOUS
  <1>2. Cardinality(OwnedBy(u))' + Cardinality(Passed(u))' <= Taken(u) BY <1>1, FewerIsFewer
  <1>3. Taken(u) <= MaxNamedEndpoints("free") + Cardinality(Creators) - 1 BY BoundOf
  <1>4. Cardinality(OwnedBy(u)') \in Nat /\ Cardinality(Passed(u)') \in Nat
    BY <1>1, CountFacts, FS_Subset, FS_CardinalityType
  <1>5. Taken(u) \in Nat /\ Cardinality(Creators) \in Nat BY CountFacts DEF Taken
  <1> QED BY <1>2, <1>3, <1>4, <1>5 DEF MaxNamedEndpoints

\* Only the creation of k moves, and is not let past the check by it.
LEMMA CreationMoves ==
    ASSUME PlanInv, now' = now,
           UNCHANGED <<plan, endpoints, sessions, issued, holders, read, wasPro>>,
           NEW k \in Creators, NEW c \in Creation, create' = [create EXCEPT ![k] = c],
           c.pc # "idle" => c.user \in Users /\ c.slug \in Names,
           c.pc \in {"slug", "insert"} => c.user \in wasPro \/ k \in Passed(c.user)
    PROVE  PlanInv'
  <1>1. create'[k] = c /\ \A j \in Creators \ {k} : create'[j] = create[j]
    BY DEF PlanInv, EndpointsTypeOK
  <1>2. EndpointsTypeOK' BY <1>1 DEF PlanInv, EndpointsTypeOK
  <1>3. \A j \in Creators : CreateOK(j)' BY <1>1 DEF PlanInv, CreateOK
  <1>4. OverrunIsBounded'
    <2> SUFFICES ASSUME NEW u \in Users \ wasPro
                 PROVE  Cardinality(OwnedBy(u))' + Cardinality(Passed(u))'
                            <= MaxNamedEndpoints("free") + Cardinality(Creators) - 1
      BY DEF OverrunIsBounded
    <2>1. OwnedBy(u)' = OwnedBy(u) BY DEF OwnedBy
    <2>2. Passed(u)' \subseteq Passed(u) BY <1>1 DEF Passed
    <2>3. Cardinality(OwnedBy(u))' + Cardinality(Passed(u))' <= Taken(u)
      BY <2>1, <2>2, FewerIsFewer
    <2>4. Taken(u) <= MaxNamedEndpoints("free") + Cardinality(Creators) - 1 BY BoundOf
    <2>5. Cardinality(OwnedBy(u)') \in Nat /\ Cardinality(Passed(u)') \in Nat
      BY <2>1, <2>2, CountFacts, FS_Subset, FS_CardinalityType
    <2>6. Taken(u) \in Nat /\ Cardinality(Creators) \in Nat BY CountFacts DEF Taken
    <2> QED BY <2>3, <2>4, <2>5, <2>6 DEF MaxNamedEndpoints
  <1> QED BY <1>2, <1>3, <1>4 DEF PlanInv

LEMMA StartCreateStep ==
    ASSUME PlanInv, NEW k \in Creators, NEW u \in Users, NEW n \in Names,
           StartCreate(k, u, n), now' = now
    PROVE  PlanInv'
  <1>1. PICK c : c = [pc |-> IF MaxNamedEndpoints(plan[u]) = -1 THEN "slug" ELSE "count",
                      user |-> u, slug |-> n]
    OBVIOUS
  <1>2. c \in Creation /\ c.user = u /\ c.slug = n /\ c.pc \in {"slug", "count"}
    BY <1>1 DEF Creation
  <1>3. c.pc = "slug" => u \in wasPro
    <2>1. u \notin wasPro => plan[u] = "free" BY DEF PlanInv
    <2>2. MaxNamedEndpoints("free") # -1 BY DEF MaxNamedEndpoints
    <2> QED BY <1>1, <2>1, <2>2
  <1>4. create' = [create EXCEPT ![k] = c] BY <1>1 DEF StartCreate
  <1> QED BY <1>2, <1>3, <1>4, CreationMoves DEF StartCreate

LEMMA EndCreateStep ==
    ASSUME PlanInv, now' = now, NEW k \in Creators, EndCreate(k),
           UNCHANGED <<plan, endpoints, sessions, issued, holders, read, wasPro>>
    PROVE  PlanInv'
  BY IdleCreateFacts, CreationMoves DEF EndCreate

LEMMA CheckSlugStep ==
    ASSUME PlanInv, NEW k \in Creators, CheckSlug(k), now' = now
    PROVE  PlanInv'
  <1>1. CASE EndCreate(k) BY <1>1, EndCreateStep DEF CheckSlug
  <1>2. CASE create' = [create EXCEPT ![k].pc = "insert"]
    <2>1. PICK c : c = [create[k] EXCEPT !.pc = "insert"] OBVIOUS
    <2>2. create[k] \in Creation /\ create[k].pc = "slug"
          /\ create[k].user \in Users /\ create[k].slug \in Names
      BY CreationFacts DEF CheckSlug
    <2>3. c \in Creation /\ c.pc = "insert" /\ c.user = create[k].user /\ c.slug = create[k].slug
      BY <2>1, <2>2 DEF Creation
    <2>4. k \in Passed(c.user) BY <2>2, <2>3 DEF Passed
    <2>5. create' = [create EXCEPT ![k] = c] BY <1>2, <2>1
    <2> QED BY <2>2, <2>3, <2>4, <2>5, CreationMoves DEF CheckSlug
  <1> QED BY <1>1, <1>2 DEF CheckSlug

\* Whoever is let past the check has no endpoint yet. The others past it are
\* at most all the other creations.
LEMMA CountEndpointsStep ==
    ASSUME PlanInv, NEW k \in Creators, CountEndpoints(k), now' = now
    PROVE  PlanInv'
  <1>1. CASE EndCreate(k) BY <1>1, EndCreateStep DEF CountEndpoints
  <1>2. CASE /\ ~(Cardinality(OwnedBy(create[k].user)) >= MaxNamedEndpoints("free"))
             /\ create' = [create EXCEPT ![k].pc = "slug"]
    <2>1. PICK c : c = [create[k] EXCEPT !.pc = "slug"] OBVIOUS
    <2>2. create[k] \in Creation /\ create[k].pc = "count"
          /\ create[k].user \in Users /\ create[k].slug \in Names
      BY CreationFacts DEF CountEndpoints
    <2>3. c \in Creation /\ c.pc = "slug" /\ c.user = create[k].user /\ c.slug = create[k].slug
      BY <2>1, <2>2 DEF Creation
    <2>4. create' = [create EXCEPT ![k] = c] BY <1>2, <2>1
    <2>5. create'[k] = c /\ \A j \in Creators \ {k} : create'[j] = create[j]
      BY <2>4 DEF PlanInv, EndpointsTypeOK
    <2>6. UNCHANGED <<plan, endpoints, sessions, issued, holders, read, wasPro>> BY DEF CountEndpoints
    <2>7. EndpointsTypeOK' BY <2>2, <2>3, <2>4, <2>5, <2>6 DEF PlanInv, EndpointsTypeOK
    <2>8. \A j \in Creators : CreateOK(j)' BY <2>2, <2>3, <2>5 DEF PlanInv, CreateOK
    <2>9. ASSUME NEW u \in Users \ wasPro
          PROVE  Cardinality(OwnedBy(u))' + Cardinality(Passed(u))'
                     <= MaxNamedEndpoints("free") + Cardinality(Creators) - 1
      <3>1. OwnedBy(u)' = OwnedBy(u) BY <2>6 DEF OwnedBy
      <3>2. CASE u = create[k].user
        <4>1. Passed(u)' \subseteq Creators BY DEF Passed
        <4>2. Cardinality(Passed(u)') <= Cardinality(Creators) /\ IsFiniteSet(Passed(u)')
          BY <4>1, CreatorsAssumption, FS_Subset
        <4>3. Cardinality(Passed(u)') \in Nat BY <4>2, FS_CardinalityType
        <4> QED BY <1>2, <3>1, <3>2, <4>2, <4>3, CountFacts DEF MaxNamedEndpoints
      <3>3. CASE u # create[k].user
        <4>1. Passed(u)' = Passed(u) BY <2>2, <2>3, <2>5, <3>3 DEF Passed
        <4>2. Taken(u) <= MaxNamedEndpoints("free") + Cardinality(Creators) - 1 BY BoundOf
        <4> QED BY <3>1, <4>1, <4>2 DEF Taken
      <3> QED BY <3>2, <3>3
    <2>10. OverrunIsBounded' BY <2>6, <2>9 DEF OverrunIsBounded
    <2> QED BY <2>6, <2>7, <2>8, <2>10 DEF PlanInv
  <1> QED BY <1>1, <1>2 DEF CountEndpoints

\* The creation that inserts was counted as one on its way.
LEMMA InsertEndpointStep ==
    ASSUME PlanInv, NEW k \in Creators, InsertEndpoint(k), now' = now
    PROVE  PlanInv'
  <1>1. CASE UNCHANGED <<endpoints, issued>> BY <1>1, EndCreateStep DEF InsertEndpoint
  <1>2. ASSUME NEW id \in EndpointIds \ issued,
               endpoints' = endpoints \cup
                   {[id |-> id, user |-> create[k].user, slug |-> create[k].slug]},
               issued' = issued \cup {id}
        PROVE  PlanInv'
    <2>1. create[k].pc = "insert" /\ create[k].user \in Users /\ create[k].slug \in Names
      BY CreationFacts DEF InsertEndpoint
    <2>2. PICK n : n = [id |-> id, user |-> create[k].user, slug |-> create[k].slug] OBVIOUS
    <2>3. n \in Endpoint /\ n.user = create[k].user BY <2>1, <2>2 DEF Endpoint
    <2>4. endpoints' = endpoints \cup {n} BY <1>2, <2>2
    <2>5. create' = [create EXCEPT ![k] = IdleCreate]
          /\ UNCHANGED <<plan, sessions, holders, read, wasPro>>
      BY DEF InsertEndpoint, EndCreate
    <2>6. create'[k] = IdleCreate /\ \A j \in Creators \ {k} : create'[j] = create[j]
      BY <2>5 DEF PlanInv, EndpointsTypeOK
    <2>7. EndpointsTypeOK'
      BY <1>2, <2>3, <2>4, <2>5, <2>6, IdleCreateFacts DEF PlanInv, EndpointsTypeOK
    <2>8. \A j \in Creators : CreateOK(j)' BY <2>6, IdleCreateFacts DEF PlanInv, CreateOK
    <2>9. IsFiniteSet(endpoints') BY <2>4, FS_AddElement DEF PlanInv
    <2>10. ASSUME NEW u \in Users \ wasPro
           PROVE  Cardinality(OwnedBy(u))' + Cardinality(Passed(u))'
                      <= MaxNamedEndpoints("free") + Cardinality(Creators) - 1
      <3>1. Taken(u) <= MaxNamedEndpoints("free") + Cardinality(Creators) - 1 BY BoundOf
      <3>2. Cardinality(OwnedBy(u)') + Cardinality(Passed(u)') <= Taken(u)
        <4>1. CASE u = create[k].user
          <5>1. OwnedBy(u)' = OwnedBy(u) \cup {n} BY <2>3, <2>4, <4>1 DEF OwnedBy
          <5>2. Passed(u)' = Passed(u) \ {k} /\ k \in Passed(u)
            BY <2>1, <2>6, <4>1, IdleCreateFacts DEF Passed
          <5>3. Cardinality(OwnedBy(u)') <= Cardinality(OwnedBy(u)) + 1
                /\ Cardinality(OwnedBy(u)') \in Nat
            <6>1. IsFiniteSet(OwnedBy(u)) /\ Cardinality(OwnedBy(u)) \in Nat BY CountFacts
            <6>2. PICK T : T = OwnedBy(u) \cup {n} OBVIOUS
            <6>3. IsFiniteSet(T) /\ Cardinality(T) <= Cardinality(OwnedBy(u)) + 1
              <7>1. IsFiniteSet(T) BY <6>1, <6>2, FS_AddElement
              <7>2. Cardinality(T) = IF n \in OwnedBy(u) THEN Cardinality(OwnedBy(u))
                                     ELSE Cardinality(OwnedBy(u)) + 1
                BY <6>1, <6>2, FS_AddElement
              <7> QED BY <6>1, <7>1, <7>2
            <6>4. Cardinality(T) \in Nat BY <6>3, FS_CardinalityType
            <6> QED BY <5>1, <6>2, <6>3, <6>4
          <5>4. Cardinality(Passed(u)') = Cardinality(Passed(u)) - 1
            BY <5>2, CountFacts, FS_RemoveElement
          <5> QED BY <5>3, <5>4, CountFacts DEF Taken
        <4>2. CASE u # create[k].user
          <5>1. OwnedBy(u)' = OwnedBy(u) BY <2>3, <2>4, <4>2 DEF OwnedBy
          <5>2. Passed(u)' = Passed(u) BY <2>1, <2>6, <4>2, IdleCreateFacts DEF Passed
          <5> QED BY <5>1, <5>2, CountFacts DEF Taken
        <4> QED BY <4>1, <4>2
      <3>3. OwnedBy(u)' \subseteq endpoints' /\ Passed(u)' \subseteq Creators
        BY DEF OwnedBy, Passed
      <3>4. Cardinality(OwnedBy(u)') \in Nat /\ Cardinality(Passed(u)') \in Nat
        BY <2>9, <3>3, CreatorsAssumption, FS_Subset, FS_CardinalityType
      <3>5. Taken(u) \in Nat /\ Cardinality(Creators) \in Nat BY CountFacts DEF Taken
      <3> QED BY <3>1, <3>2, <3>4, <3>5 DEF MaxNamedEndpoints
    <2>11. OverrunIsBounded' BY <2>5, <2>10 DEF OverrunIsBounded
    <2> QED BY <2>5, <2>7, <2>8, <2>9, <2>11 DEF PlanInv
  <1> QED BY <1>1, <1>2 DEF InsertEndpoint

\* The steps of endpoints and sessions that no creation takes.
LEMMA ManageStep ==
    ASSUME PlanInv, ManageRequest, now' = now PROVE PlanInv'
  <1>1. ASSUME NEW u \in Users, NEW id \in EndpointIds, DeleteEndpoint(u, id) PROVE PlanInv'
    <2>1. endpoints' \subseteq endpoints
          /\ UNCHANGED <<plan, sessions, issued, holders, create, read, wasPro>>
      BY <1>1 DEF DeleteEndpoint
    <2>2. EndpointsTypeOK' /\ \A k \in Creators : CreateOK(k)'
      BY <2>1 DEF PlanInv, EndpointsTypeOK, CreateOK
    <2>3. IsFiniteSet(endpoints') BY <2>1, FS_Subset DEF PlanInv
    <2>4. OverrunIsBounded' BY <2>1, BoundKept DEF OwnedBy, Passed
    <2> QED BY <2>1, <2>2, <2>3, <2>4 DEF PlanInv
  <1>2. ASSUME NEW u \in Users, NEW p \in Plans, ChangePlan(u, p) PROVE PlanInv'
    <2>1. UNCHANGED <<endpoints, sessions, issued, holders, create, read>>
          /\ plan' = [plan EXCEPT ![u] = p]
          /\ wasPro' = IF MaxNamedEndpoints(p) = -1 THEN wasPro \cup {u} ELSE wasPro
      BY <1>2 DEF ChangePlan
    <2>2. EndpointsTypeOK' /\ \A k \in Creators : CreateOK(k)'
      BY <2>1 DEF PlanInv, EndpointsTypeOK, CreateOK
    <2>3. OverrunIsBounded' BY <2>1, BoundKept DEF OwnedBy, Passed
    <2>4. \A v \in Users \ wasPro' : plan'[v] = "free"
      <3>1. MaxNamedEndpoints(p) # -1 => p = "free" BY DEF MaxNamedEndpoints, Plans
      <3> QED BY <2>1, <3>1 DEF PlanInv, EndpointsTypeOK
    <2> QED BY <2>1, <2>2, <2>3, <2>4 DEF PlanInv
  <1>3. ASSUME UNCHANGED <<plan, endpoints, create, read, wasPro>>,
               sessions' \subseteq Session, UNCHANGED issued,
               holders' \in [Names -> SUBSET (Users \cup {NoUser})]
        PROVE  PlanInv'
    <2>1. EndpointsTypeOK' /\ \A k \in Creators : CreateOK(k)'
      BY <1>3 DEF PlanInv, EndpointsTypeOK, CreateOK
    <2>2. OverrunIsBounded' BY <1>3, BoundKept DEF OwnedBy, Passed
    <2> QED BY <1>3, <2>1, <2>2 DEF PlanInv
  <1>4. ASSUME NEW u \in Users, NEW n \in Names, CreateSession(u, n) PROVE PlanInv'
    <2>1. PICK s : s = [id |-> n, user |-> u, expires |-> now + SessionLife] OBVIOUS
    <2>2. s \in Session BY <2>1, EndpointsAssumption DEF Session, PlanInv
    <2> QED BY <1>3, <1>4, <2>1, <2>2 DEF CreateSession, PlanInv, EndpointsTypeOK
  <1>5. CASE DeleteExpiredSessions
    BY <1>3, <1>5 DEF DeleteExpiredSessions, PlanInv, EndpointsTypeOK
  <1> QED BY <1>1, <1>2, <1>4, <1>5 DEF ManageRequest

\* Resolving an identifier moves one reader.
LEMMA ReaderStep ==
    ASSUME PlanInv, now' = now, UNCHANGED <<plan, endpoints, sessions, issued, holders, create, wasPro>>,
           read' \in [Readers -> Reading]
    PROVE  PlanInv'
  <1>1. EndpointsTypeOK' /\ \A k \in Creators : CreateOK(k)'
    BY DEF PlanInv, EndpointsTypeOK, CreateOK
  <1>2. OverrunIsBounded' BY BoundKept DEF OwnedBy, Passed
  <1> QED BY <1>1, <1>2 DEF PlanInv

LEMMA IdleReadFacts == IdleRead \in Reading /\ IdleRead.pc = "idle"
  BY DEF IdleRead, Reading

LEMMA ReadingTypes ==
    ASSUME PlanInv, NEW d \in Readers
    PROVE  /\ read[d] \in Reading
           /\ EndRead(d) => read' \in [Readers -> Reading]
           /\ \A p \in {"idle", "slug", "id", "owner", "session", "fetch"} :
                 read' = [read EXCEPT ![d].pc = p] => read' \in [Readers -> Reading]
           /\ \A id \in EndpointIds :
                 read' = [read EXCEPT ![d].pc = "fetch", ![d].under = id]
                 => read' \in [Readers -> Reading]
  <1>1. read \in [Readers -> Reading] BY DEF PlanInv, EndpointsTypeOK
  <1>2. EndRead(d) => read' \in [Readers -> Reading] BY <1>1, IdleReadFacts DEF EndRead
  <1>3. ASSUME NEW p \in {"idle", "slug", "id", "owner", "session", "fetch"},
               read' = [read EXCEPT ![d].pc = p]
        PROVE  read' \in [Readers -> Reading]
    <2>1. [read[d] EXCEPT !.pc = p] \in Reading BY <1>1 DEF Reading
    <2> QED BY <1>1, <1>3, <2>1
  <1>4. ASSUME NEW id \in EndpointIds,
               read' = [read EXCEPT ![d].pc = "fetch", ![d].under = id]
        PROVE  read' \in [Readers -> Reading]
    <2>1. PICK r : r = [read[d] EXCEPT !.pc = "fetch", !.under = id] OBVIOUS
    <2>2. r \in Reading BY <1>1, <2>1 DEF Reading
    <2>3. read' = [read EXCEPT ![d] = r] BY <1>1, <1>4, <2>1
    <2> QED BY <1>1, <2>2, <2>3
  <1> QED BY <1>1, <1>2, <1>3, <1>4

LEMMA ResolveSteps ==
    ASSUME PlanInv, NEW d \in Readers, ResolveStep(d), now' = now PROVE PlanInv'
  <1>1. CASE ResolveSlug(d)
    <2>1. ASSUME NEW ep \in WithSlug(read[d].under),
                 read' = [read EXCEPT ![d].pc = "fetch", ![d].under = ep.id]
          PROVE  read' \in [Readers -> Reading]
      <3>1. ep.id \in EndpointIds BY DEF WithSlug, PlanInv, EndpointsTypeOK, Endpoint
      <3> QED BY <2>1, <3>1, ReadingTypes
    <2> QED BY <1>1, <2>1, ReadingTypes, ReaderStep DEF ResolveSlug
  <1>2. CASE ResolveID(d) BY <1>2, ReadingTypes, ReaderStep DEF ResolveID
  <1>3. CASE ResolveOwner(d) BY <1>3, ReadingTypes, ReaderStep DEF ResolveOwner
  <1>4. CASE ResolveSession(d) BY <1>4, ReadingTypes, ReaderStep DEF ResolveSession
  <1> QED BY <1>1, <1>2, <1>3, <1>4 DEF ResolveStep

LEMMA PlanNext ==
    ASSUME PlanInv, [InboxNext]_<<now, endpointVars, inboxVars>> PROVE PlanInv'
  <1>1. ASSUME EndpointsNext, now' = now PROVE PlanInv'
    <2>1. ASSUME CreateRequest PROVE PlanInv'
      <3>1. ASSUME NEW k \in Creators, CreateStep(k) PROVE PlanInv'
        <4>1. CASE CreateFails(k) BY <1>1, <4>1, EndCreateStep DEF CreateFails
        <4> QED BY <1>1, <3>1, <4>1, CountEndpointsStep, CheckSlugStep, InsertEndpointStep
             DEF CreateStep
      <3> QED BY <1>1, <2>1, <3>1, StartCreateStep DEF CreateRequest
    <2>2. ASSUME NEW d \in Readers, NEW u \in Users, NEW i \in Names \cup EndpointIds,
                 AskFor(d, u, i)
          PROVE  PlanInv'
      <3>1. PICK r : r = [pc |-> "slug", user |-> u, under |-> i] OBVIOUS
      <3>2. r \in Reading BY <3>1 DEF Reading
      <3>3. read' = [read EXCEPT ![d] = r] BY <2>2, <3>1 DEF AskFor
      <3>4. read' \in [Readers -> Reading] BY <3>2, <3>3 DEF PlanInv, EndpointsTypeOK
      <3> QED BY <1>1, <2>2, <3>4, ReaderStep DEF AskFor
    <2> QED BY <1>1, <2>1, <2>2, ManageStep, ResolveSteps DEF EndpointsNext
  <1>2. ASSUME NEW d \in Readers, GetRequests(d), now' = now PROVE PlanInv'
    BY <1>2, ReadingTypes, ReaderStep DEF GetRequests
  <1>3. ASSUME now' \in Nat, UNCHANGED endpointVars PROVE PlanInv'
    <2>1. UNCHANGED <<plan, endpoints, sessions, issued, holders, create, read, wasPro>>
      BY <1>3 DEF endpointVars
    <2>2. EndpointsTypeOK' /\ \A k \in Creators : CreateOK(k)'
      BY <2>1 DEF PlanInv, EndpointsTypeOK, CreateOK
    <2>3. OverrunIsBounded' BY <2>1, BoundKept DEF OwnedBy, Passed
    <2> QED BY <1>3, <2>1, <2>2, <2>3 DEF PlanInv
  <1>4. now \in Nat BY DEF PlanInv
  <1>5. Tick => now' \in Nat BY <1>4 DEF Tick
  <1> QED BY <1>1, <1>2, <1>3, <1>4, <1>5 DEF InboxNext

LEMMA PlanStart == now = 0 /\ EndpointsInit => PlanInv
  <1> SUFFICES ASSUME now = 0, EndpointsInit PROVE PlanInv OBVIOUS
  <1>1. EndpointsTypeOK
    <2>1. \A n \in Legacy : [id |-> n, user |-> NoUser, expires |-> SessionLife] \in Session
      BY EndpointsAssumption DEF Session
    <2> QED BY <2>1, IdleCreateFacts, IdleReadFacts, EndpointsAssumption
         DEF EndpointsInit, EndpointsTypeOK, Plans
  <1>2. \A k \in Creators : CreateOK(k) BY IdleCreateFacts DEF EndpointsInit, CreateOK
  <1>3. IsFiniteSet(endpoints) BY FS_EmptySet DEF EndpointsInit
  <1>4. OverrunIsBounded
    <2>1. \A u \in Users : OwnedBy(u) = {} /\ Passed(u) = {}
      BY IdleCreateFacts DEF EndpointsInit, OwnedBy, Passed
    <2>2. Cardinality({}) = 0 /\ Cardinality(Creators) \in Nat
      BY CreatorsAssumption, FS_EmptySet, FS_CardinalityType
    <2> QED BY <2>1, <2>2 DEF OverrunIsBounded, MaxNamedEndpoints
  <1> QED BY <1>1, <1>2, <1>3, <1>4 DEF PlanInv, EndpointsInit

\* Endpoints, sessions and the goroutines that make and resolve them keep their
\* types.
THEOREM EndpointsTypeCorrect == InboxSpec => []EndpointsTypeOK
  <1>1. now = 0 /\ EndpointsInit => PlanInv BY PlanStart
  <1>2. PlanInv /\ [InboxNext]_<<now, endpointVars, inboxVars>> => PlanInv' BY PlanNext
  <1>3. PlanInv => EndpointsTypeOK BY DEF PlanInv
  <1> QED BY <1>1, <1>2, <1>3, PTL DEF InboxSpec

\* EndpointsHandler.create lets a user exceed the plan by the creations that
\* overlap, less one.
THEOREM OverrunBounded == InboxSpec => []OverrunIsBounded
  <1>1. now = 0 /\ EndpointsInit => PlanInv BY PlanStart
  <1>2. PlanInv /\ [InboxNext]_<<now, endpointVars, inboxVars>> => PlanInv' BY PlanNext
  <1>3. PlanInv => OverrunIsBounded BY DEF PlanInv
  <1> QED BY <1>1, <1>2, <1>3, PTL DEF InboxSpec

----------------------------------------------------------------------------
(* The verdict *)

Ids == EndpointIds \cup Names
Holders == Users \cup {NoUser}

----------------------------------------------------------------------------
(* Types and verdicts *)

\* Nobody has judged a request that is not past its secrets; the secrets it
\* had all the while are rows, and all rows are among those it had.
Judging(r) ==
    /\ capture[r].pc \in {"new", "slug", "session", "secrets", "done"} =>
          capture[r].verdict = Unverified
    /\ capture[r].pc \in {"new", "slug", "session"} => capture[r].always = {}
    /\ capture[r].pc \in {"slug", "session"} => capture[r].under \in Names
    /\ capture[r].pc = "save" => capture[r].under \in Ids
    /\ capture[r].pc \in {"secrets", "save"} => capture[r].at <= now
    /\ capture[r].pc = "secrets" =>
          /\ capture[r].under \in EndpointIds
          /\ capture[r].always \subseteq SecretsOf(capture[r].under)
          /\ SecretsOf(capture[r].under) \subseteq capture[r].some

\* VerifiedWasSigned of one request.
WasSigned(r) ==
    capture[r].verdict.status = "verified"
    => \E s \in capture[r].some :
          /\ s.provider = capture[r].verdict.provider /\ Signed(r, s)
          /\ s.provider = "stripe" => capture[r].at <= SignedAt[r] + MaxAge

\* SignedIsVerified of one request.
IsVerified(r) ==
    /\ capture[r].pc = "save" /\ ~capture[r].blind
    /\ \E s \in capture[r].always : Matches(r, s)
    => capture[r].verdict.status = "verified"

\* The invariant behind the two properties of the verdict.
CaptureInv ==
    /\ InboxTypeOK
    /\ \A r \in Captured : Judging(r) /\ WasSigned(r) /\ IsVerified(r)

LEMMA UnverifiedFacts == Unverified \in Verdict /\ Unverified.status = "unverified"
  BY DEF Unverified, Verdict

LEMMA CaptureFacts ==
    ASSUME CaptureInv, NEW r \in Captured
    PROVE  /\ capture[r] \in Capture
           /\ capture[r].under \in Ids \cup {NoId} /\ capture[r].owner \in Holders
           /\ capture[r].at \in Nat /\ capture[r].verdict \in Verdict
           /\ capture[r].some \subseteq Secret /\ capture[r].always \subseteq Secret
           /\ capture[r].blind \in BOOLEAN
           /\ Judging(r) /\ WasSigned(r) /\ IsVerified(r)
  <1>1. capture[r] \in Capture BY DEF CaptureInv, InboxTypeOK
  <1> QED BY <1>1 DEF CaptureInv, Capture, Ids, Holders

LEMMA SecretsAreSecrets ==
    ASSUME CaptureInv, NEW id PROVE SecretsOf(id) \subseteq Secret
  BY DEF CaptureInv, InboxTypeOK, SecretsOf

\* What Verify says of some rows.
LEMMA VerifySound ==
    ASSUME NEW r \in Captured, NEW rows, rows \subseteq Secret, NEW v \in Verify(r, rows)
    PROVE  /\ v \in Verdict
           /\ v.status = "verified" => \E s \in rows : Matches(r, s) /\ s.provider = v.provider
           /\ (\E s \in rows : Matches(r, s)) => v.status = "verified"
  <1>1. \A s \in rows : s.provider \in SigningProviders BY DEF Secret
  <1> DEFINE good == {s \in rows : Matches(r, s)}
  <1>2. CASE rows = {}
    <2>1. v = Unverified BY <1>2 DEF Verify
    <2> QED BY <1>2, <2>1, UnverifiedFacts
  <1>3. CASE rows # {} /\ good # {}
    <2>1. PICK s \in good : v = Says("verified", s) BY <1>3 DEF Verify
    <2>2. v.status = "verified" /\ v.provider = s.provider /\ v \in Verdict
      BY <1>1, <2>1 DEF Says, Verdict
    <2> QED BY <2>1, <2>2
  <1>4. CASE rows # {} /\ good = {}
    <2>1. PICK s \in rows : v = Says("failed", s) BY <1>4 DEF Verify
    <2>2. v.status = "failed" /\ v \in Verdict BY <1>1, <2>1 DEF Says, Verdict
    <2> QED BY <1>4, <2>2
  <1> QED BY <1>2, <1>3, <1>4

\* Only the request r moves, in capture and perhaps in requests.
LEMMA CaptureMoves ==
    ASSUME CaptureInv, now' = now, UNCHANGED <<secrets, secretReq, shown>>,
           NEW r \in Captured, NEW c \in Capture, capture' = [capture EXCEPT ![r] = c],
           requests' \subseteq [id : Captured, under : Ids, owner : Holders],
           Judging(r)', WasSigned(r)', IsVerified(r)'
    PROVE  CaptureInv'
  <1>1. InboxTypeOK' BY DEF CaptureInv, InboxTypeOK, Ids, Holders
  <1>2. ASSUME NEW q \in Captured, q # r PROVE Judging(q)' /\ WasSigned(q)' /\ IsVerified(q)'
    <2>1. capture'[q] = capture[q] BY <1>2 DEF CaptureInv, InboxTypeOK
    <2>2. Judging(q) /\ WasSigned(q) /\ IsVerified(q) BY DEF CaptureInv
    <2> QED BY <2>1, <2>2 DEF Judging, WasSigned, IsVerified, SecretsOf, Matches
  <1> QED BY <1>1, <1>2 DEF CaptureInv

LEMMA MovedCapture ==
    ASSUME CaptureInv, NEW r \in Captured, NEW c, capture' = [capture EXCEPT ![r] = c]
    PROVE  capture'[r] = c
  BY DEF CaptureInv, InboxTypeOK

LEMMA RequestsTyped ==
    CaptureInv => requests \subseteq [id : Captured, under : Ids, owner : Holders]
  BY DEF CaptureInv, InboxTypeOK, Ids, Holders

LEMMA NewCaptureFacts ==
    /\ NewCapture \in Capture
    /\ NewCapture.pc = "new" /\ NewCapture.under = NoId /\ NewCapture.owner = NoUser
    /\ NewCapture.at = 0 /\ NewCapture.verdict = Unverified
    /\ NewCapture.some = {} /\ NewCapture.always = {} /\ NewCapture.blind = FALSE
  BY UnverifiedFacts DEF NewCapture, Capture

LEMMA EndCaptureStep ==
    ASSUME CaptureInv, now' = now, UNCHANGED <<secrets, secretReq, shown>>,
           NEW r \in Captured, EndCapture(r),
           requests' \subseteq [id : Captured, under : Ids, owner : Holders]
    PROVE  CaptureInv'
  <1>1. PICK c : c = [NewCapture EXCEPT !.pc = "done"] OBVIOUS
  <1>2. c \in Capture /\ c.pc = "done" /\ c.verdict = Unverified
    BY <1>1, NewCaptureFacts DEF NewCapture, Capture
  <1>3. capture' = [capture EXCEPT ![r] = c] BY <1>1 DEF EndCapture
  <1>4. capture'[r] = c BY <1>3, MovedCapture
  <1>5. Judging(r)' /\ WasSigned(r)' /\ IsVerified(r)'
    BY <1>2, <1>4, UnverifiedFacts DEF Judging, WasSigned, IsVerified
  <1> QED BY <1>2, <1>3, <1>5, CaptureMoves

LEMMA ReceiveStep ==
    ASSUME CaptureInv, NEW r \in Captured, NEW n \in Names, Receive(r, n), now' = now
    PROVE  CaptureInv'
  <1>1. PICK c : c = [capture[r] EXCEPT !.pc = "slug", !.under = n] OBVIOUS
  <1>2. c \in Capture /\ c.pc = "slug" /\ c.under = n
        /\ c.verdict = capture[r].verdict /\ c.always = capture[r].always
    BY <1>1, CaptureFacts DEF Capture
  <1>3. c.verdict = Unverified /\ c.always = {} BY <1>2, CaptureFacts DEF Receive, Judging
  <1>4. capture' = [capture EXCEPT ![r] = c]
    BY <1>1 DEF Receive, CaptureInv, InboxTypeOK
  <1>5. capture'[r] = c BY <1>4, MovedCapture
  <1>6. Judging(r)' /\ WasSigned(r)' /\ IsVerified(r)'
    BY <1>2, <1>3, <1>5, UnverifiedFacts DEF Judging, WasSigned, IsVerified
  <1> QED BY <1>2, <1>4, <1>6, CaptureMoves, RequestsTyped DEF Receive

LEMMA FindEndpointStep ==
    ASSUME PlanInv, CaptureInv, NEW r \in Captured, FindEndpoint(r), now' = now
    PROVE  CaptureInv'
  <1>1. capture[r].pc = "slug" /\ UNCHANGED <<secrets, secretReq, requests, shown>>
    BY DEF FindEndpoint
  <1>2. CASE capture' = [capture EXCEPT ![r].pc = "session"]
    <2>1. PICK c : c = [capture[r] EXCEPT !.pc = "session"] OBVIOUS
    <2>2. c \in Capture /\ c.pc = "session" /\ c.under = capture[r].under
          /\ c.verdict = capture[r].verdict /\ c.always = capture[r].always
      BY <2>1, CaptureFacts DEF Capture
    <2>3. c.verdict = Unverified /\ c.always = {} /\ c.under \in Names
      BY <1>1, <2>2, CaptureFacts DEF Judging
    <2>4. capture' = [capture EXCEPT ![r] = c] BY <1>2, <2>1
    <2>5. capture'[r] = c BY <2>4, MovedCapture
    <2>6. Judging(r)' /\ WasSigned(r)' /\ IsVerified(r)'
      BY <2>2, <2>3, <2>5, UnverifiedFacts DEF Judging, WasSigned, IsVerified
    <2> QED BY <1>1, <2>2, <2>4, <2>6, CaptureMoves, RequestsTyped
  <1>3. ASSUME NEW ep \in WithSlug(capture[r].under),
               capture' = [capture EXCEPT ![r] =
                [NewCapture EXCEPT !.pc = "secrets", !.under = ep.id, !.owner = ep.user,
                                   !.at = now, !.some = SecretsOf(ep.id),
                                   !.always = SecretsOf(ep.id)]]
        PROVE  CaptureInv'
    <2>1. PICK c : c = [NewCapture EXCEPT !.pc = "secrets", !.under = ep.id, !.owner = ep.user,
                                          !.at = now, !.some = SecretsOf(ep.id),
                                          !.always = SecretsOf(ep.id)]
      OBVIOUS
    <2>2. ep.id \in EndpointIds /\ ep.user \in Users /\ now \in Nat
      BY DEF WithSlug, PlanInv, EndpointsTypeOK, Endpoint
    <2>3. SecretsOf(ep.id) \subseteq Secret BY SecretsAreSecrets
    <2>4. c \in Capture /\ c.pc = "secrets" /\ c.under = ep.id /\ c.at = now
          /\ c.some = SecretsOf(ep.id) /\ c.always = SecretsOf(ep.id)
          /\ c.verdict = Unverified
      BY <2>1, <2>2, <2>3, UnverifiedFacts DEF NewCapture, Capture
    <2>5. capture' = [capture EXCEPT ![r] = c] BY <1>3, <2>1
    <2>6. capture'[r] = c BY <2>5, MovedCapture
    <2>7. SecretsOf(ep.id)' = SecretsOf(ep.id) BY <1>1 DEF SecretsOf
    <2>8. Judging(r)'
      <3>1. capture'[r].pc = "secrets" /\ capture'[r].under = ep.id BY <2>4, <2>6
      <3>2. SecretsOf(capture[r].under)' = SecretsOf(ep.id) BY <1>1, <3>1 DEF SecretsOf
      <3> QED BY <2>2, <2>4, <2>6, <3>1, <3>2 DEF Judging
    <2>9. WasSigned(r)' /\ IsVerified(r)'
      BY <2>4, <2>6, UnverifiedFacts DEF WasSigned, IsVerified
    <2> QED BY <1>1, <2>4, <2>5, <2>8, <2>9, CaptureMoves, RequestsTyped
  <1> QED BY <1>2, <1>3 DEF FindEndpoint

LEMMA FindSessionStep ==
    ASSUME PlanInv, CaptureInv, NEW r \in Captured, FindSession(r), now' = now
    PROVE  CaptureInv'
  <1>1. capture[r].pc = "session" /\ UNCHANGED <<secrets, secretReq, requests, shown>>
    BY DEF FindSession
  <1>2. CASE EndCapture(r) BY <1>1, <1>2, EndCaptureStep, RequestsTyped
  <1>3. ASSUME NEW s \in LiveSession(capture[r].under),
               capture' = [capture EXCEPT ![r].pc = "save", ![r].owner = s.user, ![r].at = now]
        PROVE  CaptureInv'
    <2>1. s.user \in Users \cup {NoUser} /\ now \in Nat
      BY DEF LiveSession, PlanInv, EndpointsTypeOK, Session
    <2>2. PICK c : c = [capture[r] EXCEPT !.pc = "save", !.owner = s.user, !.at = now] OBVIOUS
    <2>3. c \in Capture /\ c.pc = "save" /\ c.under = capture[r].under /\ c.at = now
          /\ c.verdict = capture[r].verdict /\ c.always = capture[r].always
      BY <2>1, <2>2, CaptureFacts DEF Capture
    <2>4. c.verdict = Unverified /\ c.always = {} /\ c.under \in Ids
      BY <1>1, <2>3, CaptureFacts DEF Judging, Ids
    <2>5. capture' = [capture EXCEPT ![r] = c]
      BY <1>3, <2>2 DEF CaptureInv, InboxTypeOK
    <2>6. capture'[r] = c BY <2>5, MovedCapture
    <2>7. Judging(r)' /\ WasSigned(r)' /\ IsVerified(r)'
      BY <2>1, <2>3, <2>4, <2>6, UnverifiedFacts DEF Judging, WasSigned, IsVerified
    <2> QED BY <1>1, <2>3, <2>5, <2>7, CaptureMoves, RequestsTyped
  <1> QED BY <1>2, <1>3 DEF FindSession

LEMMA FetchSecretsStep ==
    ASSUME PlanInv, CaptureInv, NEW r \in Captured, FetchSecrets(r), now' = now
    PROVE  CaptureInv'
  <1>1. capture[r].pc = "secrets" /\ UNCHANGED <<secrets, secretReq, requests, shown>>
    BY DEF FetchSecrets
  <1>2. /\ capture[r].verdict = Unverified /\ capture[r].under \in EndpointIds
        /\ capture[r].at <= now
        /\ capture[r].always \subseteq SecretsOf(capture[r].under)
        /\ SecretsOf(capture[r].under) \subseteq capture[r].some
    BY <1>1, CaptureFacts DEF Judging
  <1>3. ASSUME NEW v \in Verify(r, SecretsOf(capture[r].under)),
               capture' = [capture EXCEPT ![r].pc = "save", ![r].verdict = v]
        PROVE  CaptureInv'
    <2>1. /\ v \in Verdict
          /\ v.status = "verified" =>
                \E s \in SecretsOf(capture[r].under) : Matches(r, s) /\ s.provider = v.provider
          /\ (\E s \in SecretsOf(capture[r].under) : Matches(r, s)) => v.status = "verified"
      BY SecretsAreSecrets, VerifySound
    <2>2. PICK c : c = [capture[r] EXCEPT !.pc = "save", !.verdict = v] OBVIOUS
    <2>3. c \in Capture /\ c.pc = "save" /\ c.under = capture[r].under /\ c.at = capture[r].at
          /\ c.verdict = v /\ c.always = capture[r].always /\ c.some = capture[r].some
      BY <2>1, <2>2, CaptureFacts DEF Capture
    <2>4. capture' = [capture EXCEPT ![r] = c]
      BY <1>3, <2>2 DEF CaptureInv, InboxTypeOK
    <2>5. capture'[r] = c BY <2>4, MovedCapture
    <2>6. Judging(r)' BY <1>2, <2>3, <2>5 DEF Judging, Ids
    <2>7. WasSigned(r)'
      <3>1. SUFFICES ASSUME v.status = "verified"
                     PROVE  \E s \in capture[r].some :
                               /\ s.provider = v.provider /\ Signed(r, s)
                               /\ s.provider = "stripe" => capture[r].at <= SignedAt[r] + MaxAge
        BY <2>3, <2>5 DEF WasSigned, Signed
      <3>2. PICK s \in SecretsOf(capture[r].under) : Matches(r, s) /\ s.provider = v.provider
        BY <2>1, <3>1
      <3>3. now \in Nat /\ SignedAt[r] \in Nat /\ MaxAge \in Nat /\ capture[r].at \in Nat
        BY InboxAssumption, CaptureFacts DEF PlanInv
      <3>4. s.provider = "stripe" => capture[r].at <= SignedAt[r] + MaxAge
        BY <1>2, <3>2, <3>3 DEF Matches
      <3> QED BY <1>2, <3>2, <3>4 DEF Matches
    <2>8. IsVerified(r)'
      BY <1>2, <2>1, <2>3, <2>5 DEF IsVerified, Matches, Signed
    <2> QED BY <1>1, <2>3, <2>4, <2>6, <2>7, <2>8, CaptureMoves, RequestsTyped
  <1>4. CASE capture' = [capture EXCEPT ![r].pc = "save", ![r].blind = TRUE]
    <2>1. PICK c : c = [capture[r] EXCEPT !.pc = "save", !.blind = TRUE] OBVIOUS
    <2>2. c \in Capture /\ c.pc = "save" /\ c.under = capture[r].under /\ c.at = capture[r].at
          /\ c.verdict = capture[r].verdict /\ c.blind = TRUE
      BY <2>1, CaptureFacts DEF Capture
    <2>3. capture' = [capture EXCEPT ![r] = c]
      BY <1>4, <2>1 DEF CaptureInv, InboxTypeOK
    <2>4. capture'[r] = c BY <2>3, MovedCapture
    <2>5. Judging(r)' /\ WasSigned(r)' /\ IsVerified(r)'
      BY <1>2, <2>2, <2>4, UnverifiedFacts DEF Judging, WasSigned, IsVerified, Ids
    <2> QED BY <1>1, <2>2, <2>3, <2>5, CaptureMoves, RequestsTyped
  <1> QED BY <1>3, <1>4 DEF FetchSecrets

LEMMA SaveRequestStep ==
    ASSUME CaptureInv, NEW r \in Captured, SaveRequest(r), now' = now
    PROVE  CaptureInv'
  <1>1. PICK q : q = [id |-> r, under |-> capture[r].under, owner |-> capture[r].owner] OBVIOUS
  <1>2. capture[r].under \in Ids /\ capture[r].owner \in Holders
    BY CaptureFacts DEF SaveRequest, Judging
  <1>3. q \in [id : Captured, under : Ids, owner : Holders] BY <1>1, <1>2
  <1>4. requests' = requests \cup {q} BY <1>1 DEF SaveRequest
  <1> QED BY <1>3, <1>4, EndCaptureStep, RequestsTyped DEF SaveRequest

LEMMA CaptureFailsStep ==
    ASSUME CaptureInv, NEW r \in Captured, CaptureFails(r), now' = now
    PROVE  CaptureInv'
  BY EndCaptureStep, RequestsTyped DEF CaptureFails

----------------------------------------------------------------------------
(* Secrets *)

LEMMA SecretReqMoves ==
    ASSUME CaptureInv, now' = now, UNCHANGED <<secrets, capture, requests, shown>>,
           secretReq' \in [Writers -> SUBSET Change],
           \A w \in Writers : Cardinality(secretReq'[w]) <= 1
    PROVE  CaptureInv'
  <1>1. InboxTypeOK' BY DEF CaptureInv, InboxTypeOK
  <1> QED BY <1>1 DEF CaptureInv, Judging, WasSigned, IsVerified, SecretsOf, Matches

LEMMA ChangeSecretStep ==
    ASSUME CaptureInv, NEW w \in Writers, NEW u, NEW c \in Change, ChangeSecret(w, u, c),
           now' = now
    PROVE  CaptureInv'
  <1>1. secretReq' = [secretReq EXCEPT ![w] = {c}] BY DEF ChangeSecret
  <1>2. Cardinality({c}) = 1 BY FS_Singleton
  <1>3. secretReq' \in [Writers -> SUBSET Change]
        /\ \A x \in Writers : Cardinality(secretReq'[x]) <= 1
    BY <1>1, <1>2 DEF CaptureInv, InboxTypeOK
  <1> QED BY <1>3, SecretReqMoves DEF ChangeSecret

LEMMA WriterDone ==
    ASSUME CaptureInv, NEW w \in Writers, secretReq' = [secretReq EXCEPT ![w] = {}]
    PROVE  secretReq' \in [Writers -> SUBSET Change]
           /\ \A x \in Writers : Cardinality(secretReq'[x]) <= 1
  BY FS_EmptySet DEF CaptureInv, InboxTypeOK

LEMMA WriteFailsStep ==
    ASSUME CaptureInv, NEW w \in Writers, WriteFails(w), now' = now
    PROVE  CaptureInv'
  BY WriterDone, SecretReqMoves DEF WriteFails

\* What is noted of the requests on their way to their judgement is what is
\* written.
LEMMA WriteSecretStep ==
    ASSUME CaptureInv, NEW w \in Writers, WriteSecret(w), now' = now
    PROVE  CaptureInv'
  <1>1. PICK c \in secretReq[w] :
            LET old == {s \in secrets : s.endpoint = c.endpoint /\ s.provider = c.provider} IN
            /\ secrets' = (secrets \ old) \cup Row(c)
            /\ capture' = Noting(c, old)
            /\ secretReq' = [secretReq EXCEPT ![w] = {}]
            /\ UNCHANGED <<requests, shown>>
    BY DEF WriteSecret
  <1>2. PICK old : old = {s \in secrets : s.endpoint = c.endpoint /\ s.provider = c.provider}
    OBVIOUS
  <1>3. /\ secrets' = (secrets \ old) \cup Row(c) /\ capture' = Noting(c, old)
        /\ secretReq' = [secretReq EXCEPT ![w] = {}] /\ UNCHANGED <<requests, shown>>
    BY <1>1, <1>2
  <1>4. c \in Change BY DEF CaptureInv, InboxTypeOK
  <1>5. Row(c) \subseteq Secret /\ \A s \in Row(c) : s.endpoint = c.endpoint
    BY <1>4 DEF Row, Change, Secret
  <1>6. \A s \in old : s \in secrets /\ s.endpoint = c.endpoint BY <1>2
  <1>7. secrets' \subseteq Secret BY <1>3, <1>5 DEF CaptureInv, InboxTypeOK
  <1>8. ASSUME NEW r \in Captured
        PROVE  /\ capture'[r] \in Capture
               /\ Judging(r)' /\ WasSigned(r)' /\ IsVerified(r)'
    <2>1. CASE capture[r].pc = "secrets" /\ capture[r].under = c.endpoint
      <3>1. capture'[r] = [capture[r] EXCEPT !.some = @ \cup Row(c), !.always = @ \ (old \ Row(c))]
        BY <1>3, <2>1 DEF Noting
      <3>2. PICK d : d = capture'[r] OBVIOUS
      <3>3. /\ d \in Capture /\ d.pc = "secrets" /\ d.under = c.endpoint
            /\ d.at = capture[r].at /\ d.verdict = capture[r].verdict
            /\ d.some = capture[r].some \cup Row(c)
            /\ d.always = capture[r].always \ (old \ Row(c))
        <4>1. PICK x, y : x = capture[r].some \cup Row(c)
                          /\ y = capture[r].always \ (old \ Row(c))
          OBVIOUS
        <4>2. x \in SUBSET Secret /\ y \in SUBSET Secret BY <1>5, <4>1, CaptureFacts
        <4>3. d = [capture[r] EXCEPT !.some = x, !.always = y] BY <3>1, <3>2, <4>1
        <4>4. d \in Capture /\ d.pc = capture[r].pc /\ d.under = capture[r].under
              /\ d.at = capture[r].at /\ d.verdict = capture[r].verdict
              /\ d.some = x /\ d.always = y
          BY <4>2, <4>3, CaptureFacts DEF Capture
        <4> QED BY <2>1, <4>1, <4>4
      <3>4. SecretsOf(capture[r].under)' = (SecretsOf(c.endpoint) \ old) \cup Row(c)
        BY <1>3, <1>5, <3>2, <3>3 DEF SecretsOf
      <3>5. /\ capture[r].verdict = Unverified /\ capture[r].under \in EndpointIds
            /\ capture[r].at <= now
            /\ capture[r].always \subseteq SecretsOf(c.endpoint)
            /\ SecretsOf(c.endpoint) \subseteq capture[r].some
        BY <2>1, CaptureFacts DEF Judging
      <3>6. Judging(r)' BY <2>1, <3>2, <3>3, <3>4, <3>5 DEF Judging
      <3>7. WasSigned(r)' /\ IsVerified(r)'
        BY <3>2, <3>3, <3>5, UnverifiedFacts DEF WasSigned, IsVerified
      <3> QED BY <3>2, <3>3, <3>6, <3>7
    <2>2. CASE ~(capture[r].pc = "secrets" /\ capture[r].under = c.endpoint)
      <3>1. capture'[r] = capture[r] BY <1>3, <2>2 DEF Noting
      <3>2. capture[r].pc = "secrets" =>
                SecretsOf(capture[r].under)' = SecretsOf(capture[r].under)
        BY <1>3, <1>5, <1>6, <2>2, <3>1 DEF SecretsOf
      <3>3. Judging(r)' BY <3>1, <3>2, CaptureFacts DEF Judging
      <3>4. WasSigned(r)' /\ IsVerified(r)'
        BY <3>1, CaptureFacts DEF WasSigned, IsVerified, Matches
      <3> QED BY <3>1, <3>3, <3>4, CaptureFacts
    <2> QED BY <2>1, <2>2
  <1>9. capture' \in [Captured -> Capture] BY <1>3, <1>8 DEF Noting
  <1>10. InboxTypeOK' BY <1>3, <1>7, <1>9, WriterDone DEF CaptureInv, InboxTypeOK
  <1> QED BY <1>8, <1>10 DEF CaptureInv

----------------------------------------------------------------------------
(* The whole *)

\* The inbox is left alone, but for what is shown; time may pass.
LEMMA InboxStays ==
    ASSUME PlanInv, CaptureInv, now' \in Nat, now' >= now,
           UNCHANGED <<secrets, secretReq, capture, requests>>,
           shown' \subseteq Showing
    PROVE  CaptureInv'
  <1>1. InboxTypeOK' BY DEF CaptureInv, InboxTypeOK
  <1>2. now \in Nat /\ MaxAge \in Nat BY InboxAssumption DEF PlanInv
  <1>3. ASSUME NEW r \in Captured PROVE Judging(r)' /\ WasSigned(r)' /\ IsVerified(r)'
    <2>1. Judging(r)' BY <1>2, CaptureFacts DEF Judging, SecretsOf
    <2>2. WasSigned(r)' BY CaptureFacts DEF WasSigned
    <2>3. \A s \in capture[r].always : Matches(r, s)' => Matches(r, s)
      <3>1. SignedAt[r] \in Nat BY InboxAssumption
      <3> QED BY <1>2, <3>1 DEF Matches
    <2>4. IsVerified(r)' BY <2>3, CaptureFacts DEF IsVerified
    <2> QED BY <2>1, <2>2, <2>4
  <1> QED BY <1>1, <1>3 DEF CaptureInv

LEMMA ShownTyped == CaptureInv => shown \subseteq Showing
  BY DEF CaptureInv, InboxTypeOK

\* A reader that fetches is somebody's.
ReadersOK == \A d \in Readers : read[d].pc # "idle" => read[d].user \in Users

LEMMA CaptureNext ==
    ASSUME PlanInv, CaptureInv, ReadersOK, [InboxNext]_<<now, endpointVars, inboxVars>>
    PROVE  CaptureInv'
  <1>1. now \in Nat BY DEF PlanInv
  <1>2. ASSUME CaptureRequest, now' = now PROVE CaptureInv'
    <2>1. ASSUME NEW r \in Captured, CaptureStep(r) PROVE CaptureInv'
      BY <1>2, <2>1, FindEndpointStep, FindSessionStep, FetchSecretsStep, SaveRequestStep,
         CaptureFailsStep DEF CaptureStep
    <2> QED BY <1>2, <2>1, ReceiveStep DEF CaptureRequest
  <1>3. ASSUME SecretRequest, now' = now PROVE CaptureInv'
    <2>1. ASSUME NEW w \in Writers, NEW u \in Users, NEW id \in EndpointIds,
                 NEW p \in Configurable, NEW v \in Secrets \cup {Absent},
                 ChangeSecret(w, u, [endpoint |-> id, provider |-> p, value |-> v])
          PROVE  CaptureInv'
      <3>1. [endpoint |-> id, provider |-> p, value |-> v] \in Change
        BY InboxAssumption DEF Change
      <3> QED BY <1>3, <2>1, <3>1, ChangeSecretStep
    <2> QED BY <1>3, <2>1, WriteSecretStep, WriteFailsStep DEF SecretRequest
  <1>4. ASSUME NEW d \in Readers, GetRequests(d), now' = now PROVE CaptureInv'
    <2>1. \A q \in requests : q.owner \in Users \cup {NoUser} /\ q.under \in EndpointIds \cup Names
      BY DEF CaptureInv, InboxTypeOK
    <2>2. read[d].user \in Users BY <1>4 DEF GetRequests, ReadersOK
    <2>3. shown' \subseteq Showing
      BY <1>4, <2>1, <2>2, ShownTyped DEF GetRequests, Showing
    <2>4. now' \in Nat /\ now' >= now BY <1>1, <1>4
    <2> QED BY <1>4, <2>3, <2>4, InboxStays DEF GetRequests
  <1>5. ASSUME UNCHANGED inboxVars, now' \in {now, now + 1} PROVE CaptureInv'
    <2>1. now' \in Nat /\ now' >= now BY <1>1, <1>5
    <2> QED BY <1>5, <2>1, InboxStays, ShownTyped DEF inboxVars
  <1> QED BY <1>2, <1>3, <1>4, <1>5 DEF InboxNext, Tick

LEMMA CaptureStart == ASSUME InboxInit PROVE CaptureInv
  <1>1. \A w \in Writers : Cardinality(secretReq[w]) <= 1 BY FS_EmptySet DEF InboxInit
  <1>2. InboxTypeOK BY <1>1, NewCaptureFacts DEF InboxInit, InboxTypeOK
  <1>3. ASSUME NEW r \in Captured PROVE Judging(r) /\ WasSigned(r) /\ IsVerified(r)
    <2>1. capture[r] = NewCapture BY DEF InboxInit
    <2> QED BY <2>1, NewCaptureFacts, UnverifiedFacts DEF Judging, WasSigned, IsVerified
  <1> QED BY <1>2, <1>3 DEF CaptureInv

----------------------------------------------------------------------------
(* The owner *)

(* Who owns what is captured under an id *)

\* A row, or a request under way to become one, makes u the owner of id.
Fact(id, u) ==
    \/ \E ep \in endpoints : ep.id = id /\ ep.user = u
    \/ \E s \in sessions : s.id = id /\ s.user = u
    \/ \E r \in Captured :
          capture[r].pc \in {"secrets", "save"} /\ capture[r].under = id /\ capture[r].owner = u
    \/ \E q \in requests : q.under = id /\ q.owner = u

\* The id of an endpoint has one owner for good, deleted or not. That of a
\* session has those who have held it.
OneOwner ==
    /\ \A id \in EndpointIds : \A u, v \in Holders : Fact(id, u) /\ Fact(id, v) => u = v
    /\ \A id \in EndpointIds : \A u \in Holders : Fact(id, u) => id \in issued
    /\ \A n \in Names : \A u \in Holders : Fact(n, u) => u \in holders[n]

\* Nobody but u, or nobody at all, owns anything under the endpoint id.
OnlyOwner(id, u) ==
    id \in issued /\ \A v \in Holders : Fact(id, v) => v \in {u, NoUser}

\* The session id has been u's, or nobody's.
Held(n, u) == n \in Names /\ holders[n] \cap {u, NoUser} # {}

\* A reader about to fetch has resolved its identifier to an id it may read.
MayRead(d) ==
    read[d].pc = "fetch"
    => OnlyOwner(read[d].under, read[d].user) \/ Held(read[d].under, read[d].user)

\* The invariant behind ReadByOwner: what a reader has resolved stays true until
\* it fetches. Ids of endpoints are never issued twice, and who has held the id
\* of a session stays on record.
ReadInv ==
    /\ ReadersOK /\ OneOwner
    /\ \A d \in Readers : MayRead(d)
    /\ ReadByOwner

LEMMA IssuedIds == PlanInv => issued \subseteq EndpointIds
  BY DEF PlanInv, EndpointsTypeOK

LEMMA NobodyHolds == NoUser \in Holders /\ Users \subseteq Holders
  BY DEF Holders

LEMMA ReaderFacts ==
    ASSUME PlanInv, NEW d \in Readers
    PROVE  /\ read[d] \in Reading /\ read[d].user \in Holders
           /\ read[d].under \in Ids \cup {NoId}
  <1>1. read[d] \in Reading BY DEF PlanInv, EndpointsTypeOK
  <1> QED BY <1>1 DEF Reading, Ids, Holders

\* The step draws fresh endpoint ids with one owner at most, puts new holders of
\* session ids on record, and readers move by facts.
LEMMA FactsKept ==
    ASSUME PlanInv, ReadInv, issued \subseteq issued',
           \A n \in Names : holders[n] \subseteq holders'[n],
           \A id \in EndpointIds : \A u \in Holders :
              Fact(id, u)' => Fact(id, u) \/ (id \notin issued /\ id \in issued'),
           \A id \in EndpointIds \ issued :
              \A u, v \in Holders : Fact(id, u)' /\ Fact(id, v)' => u = v,
           \A n \in Names : \A u \in Holders : Fact(n, u)' => Fact(n, u) \/ u \in holders'[n],
           \A d \in Readers : read'[d].pc # "idle" => read'[d].user \in Users,
           \A d \in Readers :
              read'[d].pc = "fetch" =>
                 \/ read'[d] = read[d]
                 \/ \E o \in {read'[d].user, NoUser} : Fact(read'[d].under, o)
                                                      /\ read'[d].under \in Ids,
           UNCHANGED shown
    PROVE  ReadInv'
  <1>1. ReadersOK' BY DEF ReadersOK
  <1>2. OneOwner'
    <2>1. ASSUME NEW id \in EndpointIds, NEW u \in Holders, NEW v \in Holders,
                 Fact(id, u)', Fact(id, v)'
          PROVE  u = v
      <3>1. CASE id \in issued BY <2>1, <3>1 DEF ReadInv, OneOwner
      <3>2. CASE id \notin issued BY <2>1, <3>2
      <3> QED BY <3>1, <3>2
    <2>2. ASSUME NEW id \in EndpointIds, NEW u \in Holders, Fact(id, u)' PROVE id \in issued'
      BY <2>2 DEF ReadInv, OneOwner
    <2>3. ASSUME NEW n \in Names, NEW u \in Holders, Fact(n, u)' PROVE u \in holders'[n]
      <3>1. Fact(n, u) => u \in holders[n] BY DEF ReadInv, OneOwner
      <3> QED BY <2>3, <3>1
    <2> QED BY <2>1, <2>2, <2>3 DEF OneOwner
  <1>3. ASSUME NEW d \in Readers, read'[d].pc = "fetch" PROVE MayRead(d)'
    <2>1. PICK id, u : id = read'[d].under /\ u = read'[d].user OBVIOUS
    <2>2. OnlyOwner(id, u) \/ Held(id, u)
      <3>1. CASE read'[d] = read[d]
        <4>1. MayRead(d) BY DEF ReadInv
        <4> QED BY <1>3, <2>1, <3>1, <4>1 DEF MayRead
      <3>2. ASSUME NEW o \in {u, NoUser}, Fact(id, o), id \in Ids
            PROVE  OnlyOwner(id, u) \/ Held(id, u)
        <4>1. o \in Holders BY <1>3, <2>1, <3>2, NobodyHolds
        <4>2. CASE id \in EndpointIds
          BY <3>2, <4>1, <4>2 DEF ReadInv, OneOwner, OnlyOwner
        <4>3. CASE id \in Names
          <5>1. o \in holders[id] BY <3>2, <4>1, <4>3 DEF ReadInv, OneOwner
          <5> QED BY <3>2, <4>3, <5>1 DEF Held
        <4> QED BY <3>2, <4>2, <4>3 DEF Ids
      <3> QED BY <1>3, <2>1, <3>1, <3>2
    <2>3. CASE OnlyOwner(id, u)
      <3>1. id \in issued /\ id \in EndpointIds BY <2>3, IssuedIds DEF OnlyOwner
      <3>2. \A v \in Holders : Fact(id, v)' => Fact(id, v) BY <3>1
      <3>3. \A v \in Holders : Fact(id, v)' => v \in {u, NoUser}
        BY <2>3, <3>2 DEF OnlyOwner
      <3> QED BY <2>1, <3>1, <3>3 DEF MayRead, OnlyOwner
    <2>4. CASE Held(id, u) BY <2>1, <2>4 DEF MayRead, Held
    <2> QED BY <2>2, <2>3, <2>4
  <1>4. \A d \in Readers : MayRead(d)' BY <1>3 DEF MayRead
  <1>5. ReadByOwner'
    <2>1. ReadByOwner BY DEF ReadInv
    <2>2. \A n \in Names : \A u, v : Shared(n, u, v) => Shared(n, u, v)' BY DEF Shared
    <2> QED BY <2>1, <2>2 DEF ReadByOwner
  <1> QED BY <1>1, <1>2, <1>3, <1>4, <1>5 DEF ReadInv

\* Rows are only taken away, and readers stay.
LEMMA FactsFewer ==
    ASSUME PlanInv, ReadInv, UNCHANGED <<issued, holders, read, shown>>,
           \A id \in Ids : \A u \in Holders : Fact(id, u)' => Fact(id, u)
    PROVE  ReadInv'
  <1>1. \A id \in EndpointIds \ issued :
            \A u, v \in Holders : Fact(id, u)' /\ Fact(id, v)' => u = v
    BY DEF ReadInv, OneOwner, Ids
  <1>2. \A d \in Readers : read'[d].pc # "idle" => read'[d].user \in Users
    BY DEF ReadInv, ReadersOK
  <1> QED BY <1>1, <1>2, FactsKept DEF Ids

LEMMA FactsSame ==
    ASSUME UNCHANGED <<endpoints, sessions, capture, requests>>, NEW id, NEW u
    PROVE  Fact(id, u)' <=> Fact(id, u)
  BY DEF Fact

----------------------------------------------------------------------------
(* The steps *)

\* Nothing moves but one reader.
LEMMA ReaderMoves ==
    ASSUME PlanInv, ReadInv,
           UNCHANGED <<endpoints, sessions, issued, holders, capture, requests, shown>>,
           NEW d \in Readers, NEW c, read' = [read EXCEPT ![d] = c],
           c.pc # "idle" => c.user \in Users,
           c.pc = "fetch" => \E o \in {c.user, NoUser} : Fact(c.under, o) /\ c.under \in Ids
    PROVE  ReadInv'
  <1>1. \A e \in Readers : read'[e] = IF e = d THEN c ELSE read[e]
    BY DEF PlanInv, EndpointsTypeOK
  <1>2. \A id \in Ids : \A u \in Holders : Fact(id, u)' => Fact(id, u) BY FactsSame
  <1>3. \A id \in EndpointIds \ issued :
            \A u, v \in Holders : Fact(id, u)' /\ Fact(id, v)' => u = v
    BY <1>2 DEF ReadInv, OneOwner, Ids
  <1>4. \A e \in Readers : read'[e].pc # "idle" => read'[e].user \in Users
    BY <1>1 DEF ReadInv, ReadersOK
  <1>5. ASSUME NEW e \in Readers, read'[e].pc = "fetch"
        PROVE  \/ read'[e] = read[e]
               \/ \E o \in {read'[e].user, NoUser} : Fact(read'[e].under, o)
                                                    /\ read'[e].under \in Ids
    <2>1. CASE e # d BY <1>1, <2>1
    <2>2. CASE e = d
      <3>1. c = read'[e] BY <1>1, <2>2
      <3>2. PICK o \in {c.user, NoUser} : Fact(c.under, o) /\ c.under \in Ids BY <1>5, <3>1
      <3> QED BY <3>1, <3>2
    <2> QED BY <2>1, <2>2
  <1> QED BY <1>2, <1>3, <1>4, <1>5, FactsKept DEF Ids

LEMMA EndReadStep ==
    ASSUME PlanInv, ReadInv,
           UNCHANGED <<endpoints, sessions, issued, holders, capture, requests, shown>>,
           NEW d \in Readers, EndRead(d)
    PROVE  ReadInv'
  <1>1. IdleRead.pc = "idle" BY DEF IdleRead
  <1> QED BY <1>1, ReaderMoves DEF EndRead

LEMMA AskForStep ==
    ASSUME PlanInv, ReadInv, NEW d \in Readers, NEW u \in Users, NEW n, AskFor(d, u, n),
           UNCHANGED inboxVars
    PROVE  ReadInv'
  <1>1. PICK c : c = [pc |-> "slug", user |-> u, under |-> n] OBVIOUS
  <1>2. c.pc = "slug" /\ c.user = u BY <1>1
  <1> QED BY <1>1, <1>2, ReaderMoves DEF AskFor, inboxVars

\* The reader goes on to another lookup.
LEMMA ReaderGoesOn ==
    ASSUME PlanInv, ReadInv,
           UNCHANGED <<endpoints, sessions, issued, holders, capture, requests, shown>>,
           NEW d \in Readers, read[d].pc # "idle",
           NEW p \in {"id", "owner", "session"}, read' = [read EXCEPT ![d].pc = p]
    PROVE  ReadInv'
  <1>1. PICK c : c = [read[d] EXCEPT !.pc = p] OBVIOUS
  <1>2. c.pc = p /\ c.user = read[d].user BY <1>1, ReaderFacts DEF Reading
  <1>3. c.user \in Users BY <1>2 DEF ReadInv, ReadersOK
  <1>4. read' = [read EXCEPT ![d] = c] BY <1>1
  <1> QED BY <1>2, <1>3, <1>4, ReaderMoves

\* The reader has found that id is its own user's, or nobody's.
LEMMA ReaderFetches ==
    ASSUME PlanInv, ReadInv,
           UNCHANGED <<endpoints, sessions, issued, holders, capture, requests, shown>>,
           NEW d \in Readers, read[d].pc # "idle",
           NEW id \in Ids, NEW o \in {read[d].user, NoUser}, Fact(id, o),
           NEW c, c = [read[d] EXCEPT !.pc = "fetch", !.under = id],
           read' = [read EXCEPT ![d] = c]
    PROVE  ReadInv'
  <1>1. c.pc = "fetch" /\ c.user = read[d].user /\ c.under = id BY ReaderFacts DEF Reading
  <1>2. c.user \in Users BY <1>1 DEF ReadInv, ReadersOK
  <1>3. \E x \in {c.user, NoUser} : Fact(c.under, x) /\ c.under \in Ids BY <1>1
  <1> QED BY <1>1, <1>2, <1>3, ReaderMoves

LEMMA ResolveSlugStep ==
    ASSUME PlanInv, ReadInv, NEW d \in Readers, ResolveSlug(d), UNCHANGED inboxVars
    PROVE  ReadInv'
  <1>1. /\ read[d].pc = "slug" /\ read[d].pc # "idle"
        /\ UNCHANGED <<endpoints, sessions, issued, holders, capture, requests, shown>>
    BY DEF ResolveSlug, inboxVars
  <1>2. CASE read' = [read EXCEPT ![d].pc = "id"] BY <1>1, <1>2, ReaderGoesOn
  <1>3. ASSUME NEW ep \in WithSlug(read[d].under), ep.user = read[d].user,
               read' = [read EXCEPT ![d].pc = "fetch", ![d].under = ep.id]
        PROVE  ReadInv'
    <2>1. ep \in endpoints /\ ep.id \in Ids
      BY DEF WithSlug, PlanInv, EndpointsTypeOK, Endpoint, Ids
    <2>2. Fact(ep.id, read[d].user) BY <1>3, <2>1 DEF Fact
    <2>3. PICK c : c = [read[d] EXCEPT !.pc = "fetch", !.under = ep.id] OBVIOUS
    <2>4. read' = [read EXCEPT ![d] = c]
      BY <1>3, <2>3 DEF PlanInv, EndpointsTypeOK
    <2> QED BY <1>1, <2>1, <2>2, <2>3, <2>4, ReaderFetches
  <1>4. CASE EndRead(d) BY <1>1, <1>4, EndReadStep
  <1> QED BY <1>2, <1>3, <1>4 DEF ResolveSlug

LEMMA ResolveIDStep ==
    ASSUME PlanInv, ReadInv, NEW d \in Readers, ResolveID(d), UNCHANGED inboxVars
    PROVE  ReadInv'
  <1>1. /\ read[d].pc = "id" /\ read[d].pc # "idle"
        /\ UNCHANGED <<endpoints, sessions, issued, holders, capture, requests, shown>>
    BY DEF ResolveID, inboxVars
  <1>2. CASE read' = [read EXCEPT ![d].pc = "owner"] BY <1>1, <1>2, ReaderGoesOn
  <1>3. CASE read' = [read EXCEPT ![d].pc = "session"] BY <1>1, <1>3, ReaderGoesOn
  <1> QED BY <1>2, <1>3 DEF ResolveID

LEMMA FetchAsIs ==
    ASSUME PlanInv, NEW d \in Readers, read[d].under \in Ids,
           read' = [read EXCEPT ![d].pc = "fetch"]
    PROVE  \E c : /\ c = [read[d] EXCEPT !.pc = "fetch", !.under = read[d].under]
                  /\ read' = [read EXCEPT ![d] = c]
  <1>1. PICK c : c = [read[d] EXCEPT !.pc = "fetch", !.under = read[d].under] OBVIOUS
  <1>2. c = [read[d] EXCEPT !.pc = "fetch"] BY <1>1, ReaderFacts DEF Reading
  <1>3. read' = [read EXCEPT ![d] = c] BY <1>2
  <1> QED BY <1>1, <1>3

LEMMA ResolveOwnerStep ==
    ASSUME PlanInv, ReadInv, NEW d \in Readers, ResolveOwner(d), UNCHANGED inboxVars
    PROVE  ReadInv'
  <1>1. /\ read[d].pc = "owner" /\ read[d].pc # "idle"
        /\ UNCHANGED <<endpoints, sessions, issued, holders, capture, requests, shown>>
    BY DEF ResolveOwner, inboxVars
  <1>2. ASSUME NEW ep \in OwnedBy(read[d].user), ep.id = read[d].under,
               read' = [read EXCEPT ![d].pc = "fetch"]
        PROVE  ReadInv'
    <2>1. /\ ep \in endpoints /\ ep.user = read[d].user /\ read[d].under \in Ids
      BY <1>2 DEF OwnedBy, PlanInv, EndpointsTypeOK, Endpoint, Ids
    <2>2. Fact(read[d].under, read[d].user) BY <1>2, <2>1 DEF Fact
    <2>3. PICK c : /\ c = [read[d] EXCEPT !.pc = "fetch", !.under = read[d].under]
                   /\ read' = [read EXCEPT ![d] = c]
      BY <1>2, <2>1, FetchAsIs
    <2> QED BY <1>1, <2>1, <2>2, <2>3, ReaderFetches
  <1>3. CASE EndRead(d) BY <1>1, <1>3, EndReadStep
  <1> QED BY <1>2, <1>3 DEF ResolveOwner

LEMMA ResolveSessionStep ==
    ASSUME PlanInv, ReadInv, NEW d \in Readers, ResolveSession(d), UNCHANGED inboxVars
    PROVE  ReadInv'
  <1>1. /\ read[d].pc = "session" /\ read[d].pc # "idle"
        /\ UNCHANGED <<endpoints, sessions, issued, holders, capture, requests, shown>>
    BY DEF ResolveSession, inboxVars
  <1>2. ASSUME NEW s \in LiveSession(read[d].under), s.user \in {read[d].user, NoUser},
               read' = [read EXCEPT ![d].pc = "fetch"]
        PROVE  ReadInv'
    <2>1. /\ s \in sessions /\ s.id = read[d].under /\ read[d].under \in Ids
      BY DEF LiveSession, PlanInv, EndpointsTypeOK, Session, Ids
    <2>2. Fact(read[d].under, s.user) BY <2>1 DEF Fact
    <2>3. PICK c : /\ c = [read[d] EXCEPT !.pc = "fetch", !.under = read[d].under]
                   /\ read' = [read EXCEPT ![d] = c]
      BY <1>2, <2>1, FetchAsIs
    <2> QED BY <1>1, <1>2, <2>1, <2>2, <2>3, ReaderFetches
  <1>3. CASE EndRead(d) BY <1>1, <1>3, EndReadStep
  <1> QED BY <1>2, <1>3 DEF ResolveSession

LEMMA InsertFacts ==
    ASSUME PlanInv, ReadInv, NEW k \in Creators, InsertEndpoint(k), UNCHANGED inboxVars
    PROVE  ReadInv'
  <1>1. UNCHANGED <<sessions, holders, read, capture, requests, shown>>
    BY DEF InsertEndpoint, inboxVars
  <1>2. CASE UNCHANGED <<endpoints, issued>> BY <1>1, <1>2, FactsSame, FactsFewer
  <1>3. ASSUME NEW id \in EndpointIds \ issued,
               endpoints' = endpoints \cup
                      {[id |-> id, user |-> create[k].user, slug |-> create[k].slug]},
               issued' = issued \cup {id}
        PROVE  ReadInv'
    <2>1. \A i \in Ids : \A u \in Holders :
              Fact(i, u)' => Fact(i, u) \/ (i = id /\ u = create[k].user)
      <3> TAKE i \in Ids
      <3>1. TAKE u \in Holders
      <3>2. HAVE Fact(i, u)'
      <3>3. CASE \E ep \in endpoints' : ep.id = i /\ ep.user = u
        BY <1>3, <3>3 DEF Fact
      <3>4. CASE ~ \E ep \in endpoints' : ep.id = i /\ ep.user = u
        BY <1>1, <3>2, <3>4 DEF Fact
      <3> QED BY <3>3, <3>4
    <2>2. \A i \in EndpointIds : \A u \in Holders :
              Fact(i, u)' => Fact(i, u) \/ (i \notin issued /\ i \in issued')
      BY <1>3, <2>1 DEF Ids
    <2>3. \A i \in EndpointIds \ issued :
              \A u, v \in Holders : Fact(i, u)' /\ Fact(i, v)' => u = v
      BY <2>1 DEF ReadInv, OneOwner, Ids
    <2>4. \A d \in Readers : read'[d].pc # "idle" => read'[d].user \in Users
      BY <1>1 DEF ReadInv, ReadersOK
    <2>5. \A n \in Names : \A u \in Holders : Fact(n, u)' => Fact(n, u)
      BY <1>3, <2>1, EndpointsAssumption DEF Ids
    <2> QED BY <1>1, <1>3, <2>2, <2>3, <2>4, <2>5, FactsKept
  <1> QED BY <1>2, <1>3 DEF InsertEndpoint

LEMMA CreateSessionFacts ==
    ASSUME PlanInv, ReadInv, NEW w \in Users, NEW n \in Names, CreateSession(w, n),
           UNCHANGED inboxVars
    PROVE  ReadInv'
  <1>1. UNCHANGED <<endpoints, issued, read, capture, requests, shown>>
    BY DEF CreateSession, inboxVars
  <1>2. \A i \in Ids : \A u \in Holders :
            Fact(i, u)' => Fact(i, u) \/ (i = n /\ u = w)
    <2> TAKE i \in Ids
    <2>1. TAKE u \in Holders
    <2>2. HAVE Fact(i, u)'
    <2>3. CASE \E s \in sessions' : s.id = i /\ s.user = u
      BY <2>3 DEF CreateSession, Fact
    <2>4. CASE ~ \E s \in sessions' : s.id = i /\ s.user = u
      BY <1>1, <2>2, <2>4 DEF Fact
    <2> QED BY <2>3, <2>4
  <1>3. \A i \in EndpointIds : \A u \in Holders : Fact(i, u)' => Fact(i, u)
    BY <1>2, EndpointsAssumption DEF Ids
  <1>4. \A i \in EndpointIds \ issued :
            \A u, v \in Holders : Fact(i, u)' /\ Fact(i, v)' => u = v
    BY <1>3 DEF ReadInv, OneOwner
  <1>5. \A d \in Readers : read'[d].pc # "idle" => read'[d].user \in Users
    BY <1>1 DEF ReadInv, ReadersOK
  <1>6. \A m \in Names : holders'[m] = IF m = n THEN holders[m] \cup {w} ELSE holders[m]
    BY DEF CreateSession, PlanInv, EndpointsTypeOK
  <1>7. \A m \in Names : \A u \in Holders : Fact(m, u)' => Fact(m, u) \/ u \in holders'[m]
    BY <1>2, <1>6 DEF Ids
  <1> QED BY <1>1, <1>3, <1>4, <1>5, <1>6, <1>7, FactsKept

\* Deleting takes facts away.
LEMMA RowsFewer ==
    ASSUME PlanInv, ReadInv, UNCHANGED <<issued, holders, read, capture, requests, shown>>,
           endpoints' \subseteq endpoints, sessions' \subseteq sessions
    PROVE  ReadInv'
  <1>1. \A id \in Ids : \A u \in Holders : Fact(id, u)' => Fact(id, u) BY DEF Fact
  <1> QED BY <1>1, FactsFewer

LEMMA EndpointsFacts ==
    ASSUME PlanInv, ReadInv, EndpointsNext, UNCHANGED inboxVars
    PROVE  ReadInv'
  <1>1. UNCHANGED <<capture, requests, shown>> BY DEF inboxVars
  <1>2. CASE CreateRequest
    <2>1. ASSUME NEW k \in Creators, NEW u \in Users, NEW n \in Names, StartCreate(k, u, n)
          PROVE  ReadInv'
      BY <1>1, <2>1, RowsFewer DEF StartCreate
    <2>2. ASSUME NEW k \in Creators, CreateStep(k) PROVE ReadInv'
      <3>1. CASE CountEndpoints(k) BY <1>1, <3>1, RowsFewer DEF CountEndpoints
      <3>2. CASE CheckSlug(k) BY <1>1, <3>2, RowsFewer DEF CheckSlug
      <3>3. CASE InsertEndpoint(k) BY <3>3, InsertFacts
      <3>4. CASE CreateFails(k) BY <1>1, <3>4, RowsFewer DEF CreateFails
      <3> QED BY <2>2, <3>1, <3>2, <3>3, <3>4 DEF CreateStep
    <2> QED BY <1>2, <2>1, <2>2 DEF CreateRequest
  <1>3. CASE ManageRequest
    <2>1. ASSUME NEW u \in Users, NEW id \in EndpointIds, DeleteEndpoint(u, id) PROVE ReadInv'
      BY <1>1, <2>1, RowsFewer DEF DeleteEndpoint
    <2>2. ASSUME NEW u \in Users, NEW p \in Plans, ChangePlan(u, p) PROVE ReadInv'
      BY <1>1, <2>2, RowsFewer DEF ChangePlan
    <2>3. CASE DeleteExpiredSessions BY <1>1, <2>3, RowsFewer DEF DeleteExpiredSessions
    <2> QED BY <1>3, <2>1, <2>2, <2>3, CreateSessionFacts DEF ManageRequest
  <1>4. ASSUME NEW d \in Readers, ResolveStep(d) PROVE ReadInv'
    BY <1>4, ResolveSlugStep, ResolveIDStep, ResolveOwnerStep, ResolveSessionStep
    DEF ResolveStep
  <1> QED BY <1>2, <1>3, <1>4, AskForStep DEF EndpointsNext

\* A capture that moves has the facts it had, or those of what it found.
LEMMA CaptureFactsKept ==
    ASSUME PlanInv, CaptureInv, ReadInv,
           UNCHANGED <<endpoints, sessions, issued, holders, read, shown>>,
           NEW r \in Captured, NEW c, capture' = [capture EXCEPT ![r] = c],
           c.pc \in {"secrets", "save"} => Fact(c.under, c.owner),
           \A id \in Ids : \A u \in Holders :
              (\E q \in requests' : q.under = id /\ q.owner = u) => Fact(id, u)
    PROVE  ReadInv'
  <1>1. \A q \in Captured : capture'[q] = IF q = r THEN c ELSE capture[q]
    BY DEF CaptureInv, InboxTypeOK
  <1>2. \A id \in Ids : \A u \in Holders : Fact(id, u)' => Fact(id, u)
    <2> TAKE id \in Ids
    <2>1. TAKE u \in Holders
    <2>2. HAVE Fact(id, u)'
    <2>3. CASE \E q \in requests' : q.under = id /\ q.owner = u BY <2>3
    <2>4. ASSUME NEW q \in Captured, capture'[q].pc \in {"secrets", "save"},
                 capture'[q].under = id, capture'[q].owner = u
          PROVE  Fact(id, u)
      <3>1. CASE q = r
        <4>1. c.pc \in {"secrets", "save"} /\ c.under = id /\ c.owner = u BY <1>1, <2>4, <3>1
        <4> QED BY <4>1
      <3>2. CASE q # r
        <4>1. /\ capture[q].pc \in {"secrets", "save"}
              /\ capture[q].under = id /\ capture[q].owner = u
          BY <1>1, <2>4, <3>2
        <4> QED BY <4>1 DEF Fact
      <3> QED BY <3>1, <3>2
    <2>5. CASE \/ \E ep \in endpoints : ep.id = id /\ ep.user = u
               \/ \E s \in sessions : s.id = id /\ s.user = u
      BY <2>5 DEF Fact
    <2> QED BY <2>2, <2>3, <2>4, <2>5 DEF Fact
  <1> QED BY <1>2, FactsFewer

LEMMA RequestsAreFacts ==
    \A id \in Ids : \A u \in Holders :
        (\E q \in requests : q.under = id /\ q.owner = u) => Fact(id, u)
  BY DEF Fact

LEMMA ReceiveFacts ==
    ASSUME PlanInv, CaptureInv, ReadInv, NEW r \in Captured, NEW n \in Names, Receive(r, n),
           UNCHANGED endpointVars
    PROVE  ReadInv'
  <1>1. PICK c : c = [capture[r] EXCEPT !.pc = "slug", !.under = n] OBVIOUS
  <1>2. c.pc = "slug" BY <1>1, CaptureFacts DEF Capture
  <1>3. capture' = [capture EXCEPT ![r] = c]
    BY <1>1 DEF Receive, CaptureInv, InboxTypeOK
  <1> QED BY <1>2, <1>3, RequestsAreFacts, CaptureFactsKept DEF Receive, endpointVars

LEMMA EndCaptureFacts ==
    ASSUME PlanInv, CaptureInv, ReadInv, NEW r \in Captured, EndCapture(r),
           UNCHANGED endpointVars, UNCHANGED shown,
           \A id \in Ids : \A u \in Holders :
              (\E q \in requests' : q.under = id /\ q.owner = u) => Fact(id, u)
    PROVE  ReadInv'
  <1>1. PICK c : c = [NewCapture EXCEPT !.pc = "done"] OBVIOUS
  <1>2. c.pc = "done" BY <1>1 DEF NewCapture
  <1>3. capture' = [capture EXCEPT ![r] = c] BY <1>1 DEF EndCapture
  <1> QED BY <1>2, <1>3, CaptureFactsKept DEF endpointVars

LEMMA FindEndpointFacts ==
    ASSUME PlanInv, CaptureInv, ReadInv, NEW r \in Captured, FindEndpoint(r),
           UNCHANGED endpointVars
    PROVE  ReadInv'
  <1>1. UNCHANGED <<requests, shown>> BY DEF FindEndpoint
  <1>2. CASE capture' = [capture EXCEPT ![r].pc = "session"]
    <2>1. PICK c : c = [capture[r] EXCEPT !.pc = "session"] OBVIOUS
    <2>2. c.pc = "session" BY <2>1, CaptureFacts DEF Capture
    <2>3. capture' = [capture EXCEPT ![r] = c] BY <1>2, <2>1
    <2> QED BY <1>1, <2>2, <2>3, RequestsAreFacts, CaptureFactsKept DEF endpointVars
  <1>3. ASSUME NEW ep \in WithSlug(capture[r].under),
               capture' = [capture EXCEPT ![r] =
                [NewCapture EXCEPT !.pc = "secrets", !.under = ep.id, !.owner = ep.user,
                                   !.at = now, !.some = SecretsOf(ep.id),
                                   !.always = SecretsOf(ep.id)]]
        PROVE  ReadInv'
    <2>1. PICK c : c = [NewCapture EXCEPT !.pc = "secrets", !.under = ep.id, !.owner = ep.user,
                                          !.at = now, !.some = SecretsOf(ep.id),
                                          !.always = SecretsOf(ep.id)]
      OBVIOUS
    <2>2. c.under = ep.id /\ c.owner = ep.user BY <2>1 DEF NewCapture
    <2>3. Fact(c.under, c.owner) BY <2>2 DEF WithSlug, Fact
    <2>4. capture' = [capture EXCEPT ![r] = c] BY <1>3, <2>1
    <2> QED BY <1>1, <2>3, <2>4, RequestsAreFacts, CaptureFactsKept DEF endpointVars
  <1> QED BY <1>2, <1>3 DEF FindEndpoint

LEMMA FindSessionFacts ==
    ASSUME PlanInv, CaptureInv, ReadInv, NEW r \in Captured, FindSession(r),
           UNCHANGED endpointVars
    PROVE  ReadInv'
  <1>1. capture[r].pc = "session" /\ UNCHANGED <<requests, shown>> BY DEF FindSession
  <1>2. CASE EndCapture(r) BY <1>1, <1>2, EndCaptureFacts, RequestsAreFacts
  <1>3. ASSUME NEW s \in LiveSession(capture[r].under),
               capture' = [capture EXCEPT ![r].pc = "save", ![r].owner = s.user, ![r].at = now]
        PROVE  ReadInv'
    <2>1. PICK c : c = [capture[r] EXCEPT !.pc = "save", !.owner = s.user, !.at = now] OBVIOUS
    <2>2. c.under = capture[r].under /\ c.owner = s.user
      BY <2>1, CaptureFacts DEF Capture
    <2>3. Fact(c.under, c.owner) BY <2>2 DEF LiveSession, Fact
    <2>4. capture' = [capture EXCEPT ![r] = c]
      BY <1>3, <2>1 DEF CaptureInv, InboxTypeOK
    <2> QED BY <1>1, <2>3, <2>4, RequestsAreFacts, CaptureFactsKept DEF endpointVars
  <1> QED BY <1>2, <1>3 DEF FindSession

LEMMA FetchSecretsFacts ==
    ASSUME PlanInv, CaptureInv, ReadInv, NEW r \in Captured, FetchSecrets(r),
           UNCHANGED endpointVars
    PROVE  ReadInv'
  <1>1. capture[r].pc = "secrets" /\ UNCHANGED <<requests, shown>> BY DEF FetchSecrets
  <1>2. Fact(capture[r].under, capture[r].owner) BY <1>1 DEF Fact
  <1>3. ASSUME NEW c, c.under = capture[r].under, c.owner = capture[r].owner,
               capture' = [capture EXCEPT ![r] = c]
        PROVE  ReadInv'
    BY <1>1, <1>2, <1>3, RequestsAreFacts, CaptureFactsKept DEF endpointVars
  <1>4. ASSUME NEW v \in Verify(r, SecretsOf(capture[r].under)),
               capture' = [capture EXCEPT ![r].pc = "save", ![r].verdict = v]
        PROVE  ReadInv'
    <2>1. PICK c : c = [capture[r] EXCEPT !.pc = "save", !.verdict = v] OBVIOUS
    <2>2. c.under = capture[r].under /\ c.owner = capture[r].owner
      BY <2>1, CaptureFacts DEF Capture
    <2>3. capture' = [capture EXCEPT ![r] = c]
      BY <1>4, <2>1 DEF CaptureInv, InboxTypeOK
    <2> QED BY <1>3, <2>2, <2>3
  <1>5. CASE capture' = [capture EXCEPT ![r].pc = "save", ![r].blind = TRUE]
    <2>1. PICK c : c = [capture[r] EXCEPT !.pc = "save", !.blind = TRUE] OBVIOUS
    <2>2. c.under = capture[r].under /\ c.owner = capture[r].owner
      BY <2>1, CaptureFacts DEF Capture
    <2>3. capture' = [capture EXCEPT ![r] = c]
      BY <1>5, <2>1 DEF CaptureInv, InboxTypeOK
    <2> QED BY <1>3, <2>2, <2>3
  <1> QED BY <1>4, <1>5 DEF FetchSecrets

LEMMA SaveRequestFacts ==
    ASSUME PlanInv, CaptureInv, ReadInv, NEW r \in Captured, SaveRequest(r),
           UNCHANGED endpointVars
    PROVE  ReadInv'
  <1>1. Fact(capture[r].under, capture[r].owner) BY DEF SaveRequest, Fact
  <1>2. PICK x : x = [id |-> r, under |-> capture[r].under, owner |-> capture[r].owner] OBVIOUS
  <1>3. requests' = requests \cup {x} /\ x.under = capture[r].under /\ x.owner = capture[r].owner
    BY <1>2 DEF SaveRequest
  <1>4. \A id \in Ids : \A u \in Holders :
            (\E q \in requests' : q.under = id /\ q.owner = u) => Fact(id, u)
    BY <1>1, <1>3, RequestsAreFacts
  <1> QED BY <1>4, EndCaptureFacts DEF SaveRequest

LEMMA CaptureFailsFacts ==
    ASSUME PlanInv, CaptureInv, ReadInv, NEW r \in Captured, CaptureFails(r),
           UNCHANGED endpointVars
    PROVE  ReadInv'
  BY EndCaptureFacts, RequestsAreFacts DEF CaptureFails

LEMMA SecretFacts ==
    ASSUME PlanInv, CaptureInv, ReadInv, SecretRequest, UNCHANGED endpointVars
    PROVE  ReadInv'
  <1>1. UNCHANGED <<endpoints, sessions, issued, holders, read>> BY DEF endpointVars
  <1>2. CASE UNCHANGED <<capture, requests, shown>> BY <1>1, <1>2, RowsFewer
  <1>3. ASSUME NEW w \in Writers, WriteSecret(w) PROVE ReadInv'
    <2>1. PICK c \in secretReq[w] :
            LET old == {s \in secrets : s.endpoint = c.endpoint /\ s.provider = c.provider} IN
            capture' = Noting(c, old) /\ UNCHANGED <<requests, shown>>
      BY <1>3 DEF WriteSecret
    <2>2. PICK old : capture' = Noting(c, old) /\ UNCHANGED <<requests, shown>> BY <2>1
    <2>3. \A r \in Captured : /\ capture'[r].pc = capture[r].pc
                              /\ capture'[r].under = capture[r].under
                              /\ capture'[r].owner = capture[r].owner
      <3>1. TAKE r \in Captured
      <3>2. PICK a, b : a = capture[r].some \cup Row(c)
                        /\ b = capture[r].always \ (old \ Row(c))
        OBVIOUS
      <3>3. capture'[r] \in {capture[r], [capture[r] EXCEPT !.some = a, !.always = b]}
        BY <2>2, <3>2 DEF Noting
      <3> QED BY <3>3, CaptureFacts DEF Capture
    <2>4. \A id \in Ids : \A u \in Holders : Fact(id, u)' => Fact(id, u)
      BY <1>1, <2>2, <2>3 DEF Fact
    <2> QED BY <1>1, <2>2, <2>4, FactsFewer
  <1>4. ASSUME NEW w \in Writers, WriteFails(w) PROVE ReadInv'
    BY <1>2, <1>4 DEF WriteFails
  <1>5. ASSUME NEW w \in Writers, NEW u, NEW c, ChangeSecret(w, u, c) PROVE ReadInv'
    BY <1>2, <1>5 DEF ChangeSecret
  <1> QED BY <1>3, <1>4, <1>5 DEF SecretRequest

LEMMA GetRequestsFacts ==
    ASSUME PlanInv, CaptureInv, ReadInv, NEW d \in Readers, GetRequests(d)
    PROVE  ReadInv'
  <1>1. read[d].pc = "fetch" /\ EndRead(d) BY DEF GetRequests
  <1>2. UNCHANGED <<endpoints, sessions, issued, holders, capture, requests>> BY DEF GetRequests
  <1>3. OnlyOwner(read[d].under, read[d].user) \/ Held(read[d].under, read[d].user)
    BY <1>1 DEF ReadInv, MayRead
  <1>4. \A q \in requests : q.under \in Ids /\ q.owner \in Holders
    BY RequestsTyped
  <1>5. ASSUME NEW q \in requests, q.under = read[d].under
        PROVE  \/ q.owner \in {read[d].user, NoUser}
               \/ q.under \in Names /\ Shared(q.under, read[d].user, q.owner)
    <2>1. Fact(read[d].under, q.owner) BY <1>5 DEF Fact
    <2>2. CASE OnlyOwner(read[d].under, read[d].user)
      BY <1>4, <2>1, <2>2 DEF OnlyOwner
    <2>3. CASE Held(read[d].under, read[d].user)
      <3>1. q.owner \in holders[read[d].under]
        BY <1>4, <2>1, <2>3 DEF ReadInv, OneOwner, Held
      <3> QED BY <1>5, <2>3, <3>1 DEF Held, Shared
    <2> QED BY <1>3, <2>2, <2>3
  <1>6. ReadByOwner'
    <2>1. ReadByOwner BY DEF ReadInv
    <2>2. \A n, u, v : Shared(n, u, v)' <=> Shared(n, u, v) BY <1>2 DEF Shared
    <2>3. CASE UNCHANGED shown BY <2>1, <2>2, <2>3 DEF ReadByOwner
    <2>4. CASE shown' = shown \cup
             {[user |-> read[d].user, under |-> q.under, owner |-> q.owner] :
                 q \in {q \in requests : q.under = read[d].under}}
      <3>1. ASSUME NEW x \in shown', x \notin shown
            PROVE  \/ x.owner \in {x.user, NoUser}
                   \/ x.under \in Names /\ Shared(x.under, x.user, x.owner)
        <4>1. PICK q \in requests :
                 /\ q.under = read[d].under
                 /\ x = [user |-> read[d].user, under |-> q.under, owner |-> q.owner]
          BY <2>4, <3>1
        <4>2. x.user = read[d].user /\ x.under = q.under /\ x.owner = q.owner BY <4>1
        <4> QED BY <1>5, <4>1, <4>2
      <3> QED BY <2>1, <2>2, <3>1 DEF ReadByOwner
    <2> QED BY <2>3, <2>4 DEF GetRequests
  <1>7. \A e \in Readers : read'[e] = read[e] \/ read'[e].pc = "idle"
    BY <1>1 DEF EndRead, IdleRead, PlanInv, EndpointsTypeOK
  <1>8. ReadersOK' BY <1>7 DEF ReadInv, ReadersOK
  <1>9. \A i \in Ids : \A u \in Holders : Fact(i, u)' <=> Fact(i, u) BY <1>2, FactsSame
  <1>10. OneOwner' BY <1>2, <1>9 DEF ReadInv, OneOwner, Ids
  <1>11. \A e \in Readers : MayRead(e)'
    <2>1. ASSUME NEW e \in Readers, read'[e].pc = "fetch" PROVE MayRead(e)'
      <3>1. read'[e] = read[e] BY <1>7, <2>1
      <3>2. MayRead(e) BY DEF ReadInv
      <3>3. CASE OnlyOwner(read[e].under, read[e].user)
        <4>1. read[e].under \in Ids BY <3>3, IssuedIds DEF OnlyOwner, Ids
        <4> QED BY <1>2, <1>9, <3>1, <3>3, <4>1 DEF MayRead, OnlyOwner
      <3>4. CASE Held(read[e].under, read[e].user)
        BY <1>2, <3>1, <3>4 DEF MayRead, Held
      <3> QED BY <2>1, <3>1, <3>2, <3>3, <3>4 DEF MayRead
    <2> QED BY <2>1 DEF MayRead
  <1> QED BY <1>6, <1>8, <1>10, <1>11 DEF ReadInv

LEMMA ReadNext ==
    ASSUME PlanInv, CaptureInv, ReadInv, [InboxNext]_<<now, endpointVars, inboxVars>>
    PROVE  ReadInv'
  <1>1. ASSUME CaptureRequest, UNCHANGED endpointVars PROVE ReadInv'
    <2>1. ASSUME NEW r \in Captured, CaptureStep(r) PROVE ReadInv'
      BY <1>1, <2>1, FindEndpointFacts, FindSessionFacts, FetchSecretsFacts, SaveRequestFacts,
         CaptureFailsFacts DEF CaptureStep
    <2> QED BY <1>1, <2>1, ReceiveFacts DEF CaptureRequest
  <1>2. ASSUME UNCHANGED <<endpointVars, inboxVars>> PROVE ReadInv'
    BY <1>2, RowsFewer DEF endpointVars, inboxVars
  <1> QED BY <1>1, <1>2, SecretFacts, EndpointsFacts, GetRequestsFacts DEF InboxNext, Tick

LEMMA ReadStart == ASSUME EndpointsInit, InboxInit PROVE ReadInv
  <1>1. \A d \in Readers : read[d].pc = "idle" BY DEF EndpointsInit, IdleRead
  <1>2. \A r \in Captured : capture[r].pc = "new" BY DEF InboxInit, NewCapture
  <1>3. \A id \in Ids : \A u \in Holders : Fact(id, u) => id \in Legacy /\ u = NoUser
    BY <1>2 DEF EndpointsInit, InboxInit, Fact
  <1>4. Legacy \subseteq Names /\ EndpointIds \cap Names = {} BY EndpointsAssumption
  <1>5. OneOwner BY <1>3, <1>4 DEF OneOwner, EndpointsInit, Ids
  <1> QED BY <1>1, <1>5 DEF ReadInv, ReadersOK, MayRead, ReadByOwner, InboxInit

LEMMA InboxInvariant == InboxSpec => [](PlanInv /\ CaptureInv /\ ReadInv)
  <1>1. now = 0 /\ EndpointsInit /\ InboxInit => PlanInv /\ CaptureInv /\ ReadInv
    BY PlanStart, CaptureStart, ReadStart
  <1>2. PlanInv /\ CaptureInv /\ ReadInv /\ [InboxNext]_<<now, endpointVars, inboxVars>>
        => (PlanInv /\ CaptureInv /\ ReadInv)'
    <2>1. ReadInv => ReadersOK BY DEF ReadInv
    <2> QED BY <2>1, PlanNext, CaptureNext, ReadNext
  <1> QED BY <1>1, <1>2, PTL DEF InboxSpec

\* Secrets, captured requests and the goroutines of /i/ keep their types.
THEOREM InboxTypeCorrect == InboxSpec => []InboxTypeOK
  <1>1. CaptureInv => InboxTypeOK BY DEF CaptureInv
  <1> QED BY <1>1, InboxInvariant, PTL

\* GetRequests shows nobody a request captured for another account, although the
\* name is resolved in four lookups and rows go between them, unless the two have
\* held one session id in turn. Such an id can be drawn again after the purge, and
\* that is all the theorem leaves open: no endpoint's requests are ever another's.
THEOREM ReadersOwn == InboxSpec => []ReadByOwner
  <1>1. ReadInv => ReadByOwner BY DEF ReadInv
  <1> QED BY <1>1, InboxInvariant, PTL

\* A request stored as verified was signed with a secret its endpoint had, and not
\* too long ago, whoever changes the secrets.
THEOREM VerifiedSigned == InboxSpec => []VerifiedWasSigned
  <1>1. CaptureInv => VerifiedWasSigned BY DEF CaptureInv, WasSigned, VerifiedWasSigned
  <1> QED BY <1>1, InboxInvariant, PTL

\* verify.Verify misses no request signed with a secret that stayed.
THEOREM SignedVerified == InboxSpec => []SignedIsVerified
  <1>1. CaptureInv => SignedIsVerified BY DEF CaptureInv, IsVerified, SignedIsVerified
  <1> QED BY <1>1, InboxInvariant, PTL
=============================================================================
