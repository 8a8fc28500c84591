----------------------------- MODULE Endpoints -----------------------------
(***************************************************************************)
(* Named endpoints and sessions: creation under the plan's limit, deletion *)
(* (internal/handler/endpoints.go), sessions and their cleanup             *)
(* (internal/session/session.go), and what an identifier in a URL stands   *)
(* for (ResolveIdentifierForUser in internal/store/store.go).              *)
(*                                                                         *)
(* A session id is eight hexadecimal digits, so a slug can be equal to     *)
(* one: Names holds both.  So short an id can be drawn again once its row  *)
(* is gone; the id of an endpoint is a full UUID and never is.             *)
(***************************************************************************)
EXTENDS Backend, Entitlements

CONSTANTS
    Users,
    NoUser,         \* owner of a session from before sessions had one
    Names,          \* valid slugs and session ids
    Legacy,         \* the ids of those sessions
    EndpointIds,
    NoId,
    Creators,       \* goroutines in EndpointsHandler.create
    Readers,        \* goroutines in RequestsHandler and SSEHandler
    SessionLife     \* ticks a session lives

ASSUME EndpointsAssumption ==
    /\ NoUser \notin Users
    /\ Legacy \subseteq Names
    /\ NoId \notin EndpointIds \cup Names
    /\ EndpointIds \cap Names = {}
    /\ SessionLife \in Nat \ {0}

ASSUME CreatorsAssumption == IsFiniteSet(Creators)

VARIABLES
    plan,       \* the plan of each user's subscription, kept by billing
    endpoints,  \* rows of endpoints
    sessions,   \* rows of sessions
    issued,     \* history: endpoint ids drawn so far
    holders,    \* history: whose sessions have had each name for their id
    create,     \* the request of each creator
    read,       \* the request of each reader
    wasPro      \* history: users who have been on the plan without limit

endpointVars == <<plan, endpoints, sessions, issued, holders, create, read, wasPro>>

----------------------------------------------------------------------------
Endpoint == [id: EndpointIds, user: Users, slug: Names]
Session == [id: Names, user: Users \cup {NoUser}, expires: Nat]

Creation ==
    [pc: {"idle", "count", "slug", "insert"}, user: Users \cup {NoUser},
     slug: Names \cup {NoId}]

\* under: what the identifier has been resolved to.
Reading ==
    [pc: {"idle", "slug", "id", "owner", "session", "fetch"},
     user: Users \cup {NoUser}, under: EndpointIds \cup Names \cup {NoId}]

IdleCreate == [pc |-> "idle", user |-> NoUser, slug |-> NoId]
IdleRead == [pc |-> "idle", user |-> NoUser, under |-> NoId]

EndpointsTypeOK ==
    /\ plan \in [Users -> Plans]
    /\ endpoints \subseteq Endpoint
    /\ sessions \subseteq Session
    /\ issued \subseteq EndpointIds
    /\ holders \in [Names -> SUBSET (Users \cup {NoUser})]
    /\ create \in [Creators -> Creation]
    /\ \A k \in Creators : create[k].pc # "idle" => create[k].user \in Users
    /\ read \in [Readers -> Reading]
    /\ wasPro \subseteq Users

EndpointsInit ==
    /\ plan = [u \in Users |-> "free"]
    /\ endpoints = {}
    /\ sessions = {[id |-> n, user |-> NoUser, expires |-> SessionLife] : n \in Legacy}
    /\ issued = {}
    /\ holders = [n \in Names |-> IF n \in Legacy THEN {NoUser} ELSE {}]
    /\ create = [k \in Creators |-> IdleCreate]
    /\ read = [d \in Readers |-> IdleRead]
    /\ wasPro = {}

----------------------------------------------------------------------------
(* POST /endpoints *)

OwnedBy(u) == {ep \in endpoints : ep.user = u}
WithSlug(n) == {ep \in endpoints : ep.slug = n}
EndCreate(k) == create' = [create EXCEPT ![k] = IdleCreate]

\* The plan is read. Only a plan with a limit has its endpoints counted.
StartCreate(k, u, n) ==
    /\ create[k].pc = "idle"
    /\ create' = [create EXCEPT ![k] =
           [pc |-> IF MaxNamedEndpoints(plan[u]) = -1 THEN "slug" ELSE "count",
            user |-> u, slug |-> n]]
    /\ UNCHANGED <<plan, endpoints, sessions, issued, holders, read, wasPro>>

\* Faulty variant: the limit itself is let through.
CountEndpointsPlusOne(k) ==
    /\ create[k].pc = "count"
    /\ IF Cardinality(OwnedBy(create[k].user)) > MaxNamedEndpoints("free")
       THEN EndCreate(k)
       ELSE create' = [create EXCEPT ![k].pc = "slug"]
    /\ UNCHANGED <<plan, endpoints, sessions, issued, holders, read, wasPro>>

\* CountUserEndpoints, or 402.
CountEndpoints(k) ==
    /\ create[k].pc = "count"
    /\ IF Cardinality(OwnedBy(create[k].user)) >= MaxNamedEndpoints("free")
       THEN EndCreate(k)
       ELSE create' = [create EXCEPT ![k].pc = "slug"]
    /\ UNCHANGED <<plan, endpoints, sessions, issued, holders, read, wasPro>>

\* SlugExists, or 409.
CheckSlug(k) ==
    /\ create[k].pc = "slug"
    /\ IF WithSlug(create[k].slug) # {}
       THEN EndCreate(k)
       ELSE create' = [create EXCEPT ![k].pc = "insert"]
    /\ UNCHANGED <<plan, endpoints, sessions, issued, holders, read, wasPro>>

\* CreateEndpoint. Whoever has taken the slug meanwhile wins: the column is
\* unique and the loser is answered 500.
InsertEndpoint(k) ==
    /\ create[k].pc = "insert"
    /\ IF WithSlug(create[k].slug) # {}
       THEN UNCHANGED <<endpoints, issued>>
       ELSE \E id \in EndpointIds \ issued :
               /\ endpoints' = endpoints \cup
                      {[id |-> id, user |-> create[k].user, slug |-> create[k].slug]}
               /\ issued' = issued \cup {id}
    /\ EndCreate(k)
    /\ UNCHANGED <<plan, sessions, holders, read, wasPro>>

CreateFails(k) ==
    /\ "store" \in Faults /\ create[k].pc # "idle"
    /\ EndCreate(k)
    /\ UNCHANGED <<plan, endpoints, sessions, issued, holders, read, wasPro>>

\* DELETE /endpoints/{id}. Nothing that hangs on the endpoint goes with it:
\* SQLite leaves foreign keys alone unless told otherwise.
DeleteEndpoint(u, id) ==
    /\ endpoints' = {ep \in endpoints : ~(ep.id = id /\ ep.user = u)}
    /\ UNCHANGED <<plan, sessions, issued, holders, create, read, wasPro>>

\* A webhook, a payment or an expiry changes the plan.
ChangePlan(u, p) ==
    /\ plan' = [plan EXCEPT ![u] = p]
    /\ wasPro' = IF MaxNamedEndpoints(p) = -1 THEN wasPro \cup {u} ELSE wasPro
    /\ UNCHANGED <<endpoints, sessions, issued, holders, create, read>>

----------------------------------------------------------------------------
(* Sessions *)

\* The id is new among the rows there are, purged ones do not count.
CreateSession(u, n) ==
    /\ \A s \in sessions : s.id # n
    /\ sessions' = sessions \cup {[id |-> n, user |-> u, expires |-> now + SessionLife]}
    /\ holders' = [holders EXCEPT ![n] = @ \cup {u}]
    /\ UNCHANGED <<plan, endpoints, issued, create, read, wasPro>>

\* Hourly. Until then expired rows are only treated as gone. The requests of a
\* session stay.
DeleteExpiredSessions ==
    /\ sessions' = {s \in sessions : s.expires >= now}
    /\ UNCHANGED <<plan, endpoints, issued, holders, create, read, wasPro>>

LiveSession(n) == {s \in sessions : s.id = n /\ now < s.expires}

----------------------------------------------------------------------------
(* ResolveIdentifierForUser, one lookup at a time *)

EndRead(d) == read' = [read EXCEPT ![d] = IdleRead]

AskFor(d, u, n) ==
    /\ read[d].pc = "idle"
    /\ read' = [read EXCEPT ![d] = [pc |-> "slug", user |-> u, under |-> n]]
    /\ UNCHANGED <<plan, endpoints, sessions, issued, holders, create, wasPro>>

\* Faulty variant: what is stored under the slug is read, not under the id.
ResolveSlugAsIs(d) ==
    /\ read[d].pc = "slug"
    /\ \/ /\ WithSlug(read[d].under) = {} \/ "store" \in Faults
          /\ read' = [read EXCEPT ![d].pc = "id"]
       \/ \E ep \in WithSlug(read[d].under) :
             IF ep.user = read[d].user
             THEN read' = [read EXCEPT ![d].pc = "fetch"]
             ELSE EndRead(d)
    /\ UNCHANGED <<plan, endpoints, sessions, issued, holders, create, wasPro>>

\* GetEndpointBySlug. An endpoint of somebody else is answered 404; after an
\* error the search goes on as if there were none.
ResolveSlug(d) ==
    /\ read[d].pc = "slug"
    /\ \/ /\ WithSlug(read[d].under) = {} \/ "store" \in Faults
          /\ read' = [read EXCEPT ![d].pc = "id"]
       \/ \E ep \in WithSlug(read[d].under) :
             IF ep.user = read[d].user
             THEN read' = [read EXCEPT ![d].pc = "fetch", ![d].under = ep.id]
             ELSE EndRead(d)
    /\ UNCHANGED <<plan, endpoints, sessions, issued, holders, create, wasPro>>

\* EndpointIDExists: an error counts as no.
ResolveID(d) ==
    LET there == \E ep \in endpoints : ep.id = read[d].under IN
    /\ read[d].pc = "id"
    /\ \/ there /\ read' = [read EXCEPT ![d].pc = "owner"]
       \/ /\ ~there \/ "store" \in Faults
          /\ read' = [read EXCEPT ![d].pc = "session"]
    /\ UNCHANGED <<plan, endpoints, sessions, issued, holders, create, wasPro>>

\* EndpointBelongsToUser: an error counts as no, and is answered 404.
ResolveOwner(d) ==
    /\ read[d].pc = "owner"
    /\ \/ /\ \E ep \in OwnedBy(read[d].user) : ep.id = read[d].under
          /\ read' = [read EXCEPT ![d].pc = "fetch"]
       \/ /\ \/ \A ep \in OwnedBy(read[d].user) : ep.id # read[d].under
             \/ "store" \in Faults
          /\ EndRead(d)
    /\ UNCHANGED <<plan, endpoints, sessions, issued, holders, create, wasPro>>

\* Sessions without an owner are open to everybody who is signed in.
ResolveSession(d) ==
    /\ read[d].pc = "session"
    /\ \/ /\ \E s \in LiveSession(read[d].under) : s.user \in {read[d].user, NoUser}
          /\ read' = [read EXCEPT ![d].pc = "fetch"]
       \/ /\ \/ \A s \in LiveSession(read[d].under) : s.user \notin {read[d].user, NoUser}
             \/ "store" \in Faults
          /\ EndRead(d)
    /\ UNCHANGED <<plan, endpoints, sessions, issued, holders, create, wasPro>>

----------------------------------------------------------------------------
CreateStep(k) ==
    \/ CountEndpoints(k) \/ CheckSlug(k) \/ InsertEndpoint(k) \/ CreateFails(k)

ResolveStep(d) ==
    ResolveSlug(d) \/ ResolveID(d) \/ ResolveOwner(d) \/ ResolveSession(d)

CreateRequest ==
    \/ \E k \in Creators, u \in Users, n \in Names : StartCreate(k, u, n)
    \/ \E k \in Creators : CreateStep(k)

ManageRequest ==
    \/ \E u \in Users, id \in EndpointIds : DeleteEndpoint(u, id)
    \/ \E u \in Users, p \in Plans : ChangePlan(u, p)
    \/ \E u \in Users, n \in Names : CreateSession(u, n)
    \/ DeleteExpiredSessions

EndpointsNext ==
    \/ CreateRequest \/ ManageRequest
    \/ \E d \in Readers, u \in Users, i \in Names \cup EndpointIds : AskFor(d, u, i)
    \/ \E d \in Readers : ResolveStep(d)

----------------------------------------------------------------------------
(* Properties *)

\* Creations of u that are past the check of the limit.
Passed(u) == {k \in Creators : create[k].user = u /\ create[k].pc \in {"slug", "insert"}}

\* The check of the limit and the insert are statements apart, so requests that
\* overlap can exceed the plan, by one less than there are of them; requests
\* that follow one another cannot. Endpoints of a better plan are kept.
OverrunIsBounded ==
    \A u \in Users \ wasPro :
        Cardinality(OwnedBy(u)) + Cardinality(Passed(u))
            <= MaxNamedEndpoints("free") + Cardinality(Creators) - 1
=============================================================================
