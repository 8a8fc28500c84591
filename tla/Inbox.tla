------------------------------- MODULE Inbox -------------------------------
(***************************************************************************)
(* Captured requests: which endpoint or session one is stored under        *)
(* (internal/handler/inbox.go), the signing secrets it is judged by        *)
(* (internal/handler/secrets.go, internal/verify/verify.go), and who reads *)
(* it (internal/handler/requests.go).                                      *)
(*                                                                         *)
(* A signature header holds the secret it was made with, in the scheme of  *)
(* that header; Forged if it was made with none, or is malformed.          *)
(***************************************************************************)
EXTENDS Endpoints

CONSTANTS
    Captured,       \* requests that reach /i/
    Secrets,        \* values of secrets
    Absent, Forged,
    HeadersOf,      \* the signature headers of each request
    SignedAt,       \* the timestamp in its Stripe header
    MaxAge,         \* ticks a Stripe timestamp is accepted for
    Configurable,   \* providers users configure secrets for
    Writers         \* goroutines in SecretsHandler

Candidates == <<"X-Signature-256", "X-Webhook-Signature", "X-Signature", "Webhook-Signature">>

HeaderOf == [stripe |-> "Stripe-Signature", paystack |-> "X-Paystack-Signature",
             github |-> "X-Hub-Signature-256"]

HeaderNames == {HeaderOf[p] : p \in DOMAIN HeaderOf} \cup {Candidates[i] : i \in 1 .. 4}

SigningProviders == DOMAIN HeaderOf \cup {"generic"}

ASSUME InboxAssumption ==
    /\ {Absent, Forged} \cap Secrets = {}
    /\ HeadersOf \in [Captured -> [HeaderNames -> Secrets \cup {Absent, Forged}]]
    /\ SignedAt \in [Captured -> Nat]
    /\ MaxAge \in Nat
    /\ Configurable \subseteq SigningProviders

VARIABLES
    secrets,    \* rows of webhook_secrets
    secretReq,  \* the request of each writer
    capture,    \* the goroutine of each request
    requests,   \* rows of requests
    shown       \* history: whose requests each user has been shown, and under what

inboxVars == <<secrets, secretReq, capture, requests, shown>>

----------------------------------------------------------------------------
Secret == [endpoint: EndpointIds, provider: SigningProviders, value: Secrets]

\* A value Absent deletes the secret.
Change == [endpoint: EndpointIds, provider: SigningProviders, value: Secrets \cup {Absent}]

Verdict == [status: {"unverified", "verified", "failed"}, provider: SigningProviders \cup {""}]
Unverified == [status |-> "unverified", provider |-> ""]

\* owner, some, always and blind are history: who owned the endpoint or
\* session, the secrets it had at some time and all the time between its lookup
\* and the judgement, and whether the secrets could not be read.
Capture ==
    [pc: {"new", "slug", "session", "secrets", "save", "done"},
     under: EndpointIds \cup Names \cup {NoId}, owner: Users \cup {NoUser},
     at: Nat, verdict: Verdict, some: SUBSET Secret, always: SUBSET Secret, blind: BOOLEAN]

Showing == [user: Users, under: EndpointIds \cup Names, owner: Users \cup {NoUser}]

NewCapture ==
    [pc |-> "new", under |-> NoId, owner |-> NoUser, at |-> 0,
     verdict |-> Unverified, some |-> {}, always |-> {}, blind |-> FALSE]

InboxTypeOK ==
    /\ secrets \subseteq Secret
    /\ secretReq \in [Writers -> SUBSET Change]
    /\ \A w \in Writers : Cardinality(secretReq[w]) <= 1
    /\ capture \in [Captured -> Capture]
    /\ requests \subseteq [id: Captured, under: EndpointIds \cup Names,
                           owner: Users \cup {NoUser}]
    /\ shown \subseteq Showing

InboxInit ==
    /\ secrets = {}
    /\ secretReq = [w \in Writers |-> {}]
    /\ capture = [r \in Captured |-> NewCapture]
    /\ requests = {}
    /\ shown = {}

----------------------------------------------------------------------------
(* verify.Verify *)

\* The first of the generic headers that is there decides, right or wrong.
GenericHeader(headers) ==
    LET there == {i \in 1 .. 4 : headers[Candidates[i]] # Absent} IN
    IF there = {} THEN Absent
    ELSE headers[Candidates[CHOOSE i \in there : \A j \in there : i <= j]]

Signature(r, provider) ==
    IF provider = "generic"
    THEN GenericHeader(HeadersOf[r]) ELSE HeadersOf[r][HeaderOf[provider]]

Signed(r, s) == Signature(r, s.provider) = s.value

\* A Stripe signature is too old after MaxAge. One from the future is not.
Matches(r, s) ==
    Signed(r, s) /\ (s.provider = "stripe" => now - SignedAt[r] <= MaxAge)

Says(status, s) == [status |-> status, provider |-> s.provider]

\* Faulty variant: the verdict of the last secret, whatever the others say.
VerifyLast(r, rows) ==
    IF rows = {} THEN {Unverified}
    ELSE {Says(IF Matches(r, s) THEN "verified" ELSE "failed", s) : s \in rows}

\* The first success, or else the last failure. The rows come in any order.
Verify(r, rows) ==
    LET good == {s \in rows : Matches(r, s)} IN
    IF rows = {} THEN {Unverified}
    ELSE IF good # {} THEN {Says("verified", s) : s \in good}
    ELSE {Says("failed", s) : s \in rows}

----------------------------------------------------------------------------
(* /endpoints/{id}/secrets *)

\* The endpoint must be the user's. Saving and deleting begin alike.
ChangeSecret(w, u, c) ==
    /\ secretReq[w] = {}
    /\ \E ep \in OwnedBy(u) : ep.id = c.endpoint
    /\ secretReq' = [secretReq EXCEPT ![w] = {c}]
    /\ UNCHANGED <<secrets, capture, requests, shown>>

Row(c) == IF c.value = Absent THEN {} ELSE {c}

\* What captures under way to their judgement could have been judged by.
Noting(c, old) ==
    [r \in Captured |->
        IF capture[r].pc = "secrets" /\ capture[r].under = c.endpoint
        THEN [capture[r] EXCEPT !.some = @ \cup Row(c), !.always = @ \ (old \ Row(c))]
        ELSE capture[r]]

\* SaveWebhookSecret, one row per endpoint and provider, or DeleteWebhookSecret.
WriteSecret(w) ==
    \E c \in secretReq[w] :
        LET old == {s \in secrets : s.endpoint = c.endpoint /\ s.provider = c.provider} IN
        /\ secrets' = (secrets \ old) \cup Row(c)
        /\ capture' = Noting(c, old)
        /\ secretReq' = [secretReq EXCEPT ![w] = {}]
        /\ UNCHANGED <<requests, shown>>

WriteFails(w) ==
    /\ "store" \in Faults /\ secretReq[w] # {}
    /\ secretReq' = [secretReq EXCEPT ![w] = {}]
    /\ UNCHANGED <<secrets, capture, requests, shown>>

----------------------------------------------------------------------------
(* /i/{identifier} *)

EndCapture(r) == capture' = [capture EXCEPT ![r] = [NewCapture EXCEPT !.pc = "done"]]

Receive(r, n) ==
    /\ capture[r].pc = "new"
    /\ capture' = [capture EXCEPT ![r].pc = "slug", ![r].under = n]
    /\ UNCHANGED <<secrets, secretReq, requests, shown>>

SecretsOf(id) == {s \in secrets : s.endpoint = id}

\* GetEndpointBySlug.
FindEndpoint(r) ==
    LET found == WithSlug(capture[r].under) IN
    /\ capture[r].pc = "slug"
    /\ \/ /\ found = {}
          /\ capture' = [capture EXCEPT ![r].pc = "session"]
       \/ \E ep \in found :
             capture' = [capture EXCEPT ![r] =
                [NewCapture EXCEPT !.pc = "secrets", !.under = ep.id, !.owner = ep.user,
                                   !.at = now, !.some = SecretsOf(ep.id),
                                   !.always = SecretsOf(ep.id)]]
    /\ UNCHANGED <<secrets, secretReq, requests, shown>>

\* SessionExists, or 404. Nobody can sign for a session.
FindSession(r) ==
    /\ capture[r].pc = "session"
    /\ \/ LiveSession(capture[r].under) = {} /\ EndCapture(r)
       \/ \E s \in LiveSession(capture[r].under) :
             capture' = [capture EXCEPT ![r].pc = "save", ![r].owner = s.user, ![r].at = now]
    /\ UNCHANGED <<secrets, secretReq, requests, shown>>

\* Faulty variant: the secrets of all endpoints.
FetchAnySecrets(r) ==
    /\ capture[r].pc = "secrets"
    /\ \E v \in Verify(r, secrets) :
          capture' = [capture EXCEPT ![r].pc = "save", ![r].verdict = v]
    /\ UNCHANGED <<secrets, secretReq, requests, shown>>

\* GetWebhookSecretsWithValues and Verify. Without the secrets the request is
\* stored unverified.
FetchSecrets(r) ==
    /\ capture[r].pc = "secrets"
    /\ \/ \E v \in Verify(r, SecretsOf(capture[r].under)) :
             capture' = [capture EXCEPT ![r].pc = "save", ![r].verdict = v]
       \/ /\ "store" \in Faults
          /\ capture' = [capture EXCEPT ![r].pc = "save", ![r].blind = TRUE]
    /\ UNCHANGED <<secrets, secretReq, requests, shown>>

SaveRequest(r) ==
    /\ capture[r].pc = "save"
    /\ requests' = requests \cup
          {[id |-> r, under |-> capture[r].under, owner |-> capture[r].owner]}
    /\ EndCapture(r)
    /\ UNCHANGED <<secrets, secretReq, shown>>

\* The lookup of the endpoint or the insert fails: 500. For a session a failed
\* lookup is a missing one.
CaptureFails(r) ==
    /\ "store" \in Faults
    /\ capture[r].pc \in {"slug", "session", "save"}
    /\ EndCapture(r)
    /\ UNCHANGED <<secrets, secretReq, requests, shown>>

----------------------------------------------------------------------------
(* /requests/{identifier}, resolved *)

GetRequests(d) ==
    /\ read[d].pc = "fetch"
    /\ \/ shown' = shown \cup
             {[user |-> read[d].user, under |-> q.under, owner |-> q.owner] :
                 q \in {q \in requests : q.under = read[d].under}}
       \/ "store" \in Faults /\ UNCHANGED shown
    /\ EndRead(d)
    /\ UNCHANGED <<plan, endpoints, sessions, issued, holders, create, wasPro>>
    /\ UNCHANGED <<secrets, secretReq, capture, requests>>

----------------------------------------------------------------------------
CaptureStep(r) ==
    \/ FindEndpoint(r) \/ FindSession(r) \/ FetchSecrets(r) \/ SaveRequest(r)
    \/ CaptureFails(r)

CaptureRequest ==
    \/ \E r \in Captured, n \in Names : Receive(r, n)
    \/ \E r \in Captured : CaptureStep(r)

SecretRequest ==
    \/ \E w \in Writers, u \in Users, id \in EndpointIds, p \in Configurable :
          \E v \in Secrets \cup {Absent} :
             ChangeSecret(w, u, [endpoint |-> id, provider |-> p, value |-> v])
    \/ \E w \in Writers : WriteSecret(w) \/ WriteFails(w)

InboxNext ==
    \/ (CaptureRequest \/ SecretRequest) /\ UNCHANGED <<now, endpointVars>>
    \/ EndpointsNext /\ UNCHANGED <<now, inboxVars>>
    \/ (\E d \in Readers : GetRequests(d)) /\ UNCHANGED now
    \/ Tick /\ UNCHANGED <<endpointVars, inboxVars>>

InboxSpec ==
    now = 0 /\ EndpointsInit /\ InboxInit
    /\ [][InboxNext]_<<now, endpointVars, inboxVars>>

----------------------------------------------------------------------------
(* Properties *)

\* Both had a session of this id, one after the other, or one was nobody's.
Shared(n, u, v) == v \in holders[n] /\ holders[n] \cap {u, NoUser} # {}

\* Whoever is shown a request owned the endpoint or session when it was
\* captured, whatever slugs and endpoints have come and gone under the name.
\* The one exception is a session id drawn again after its row was purged: its
\* new owner, but nobody else, is shown the requests of the old one.
ReadByOwner ==
    \A x \in shown :
        \/ x.owner \in {x.user, NoUser}
        \/ x.under \in Names /\ Shared(x.under, x.user, x.owner)

\* A verdict "verified" names a provider whose secret the endpoint had while
\* the request was handled, and the request was signed with that secret. A
\* Stripe signature was not too old on arrival.
VerifiedWasSigned ==
    \A r \in Captured :
        capture[r].verdict.status = "verified"
        => \E s \in capture[r].some :
              /\ s.provider = capture[r].verdict.provider /\ Signed(r, s)
              /\ s.provider = "stripe" => capture[r].at <= SignedAt[r] + MaxAge

\* A request signed with a secret its endpoint had all the while is verified,
\* whatever other secrets there are and whoever changes them.
SignedIsVerified ==
    \A r \in Captured :
        /\ capture[r].pc = "save" /\ ~capture[r].blind
        /\ \E s \in capture[r].always : Matches(r, s)
        => capture[r].verdict.status = "verified"
=============================================================================
