------------------------------ MODULE MCAccess ------------------------------
(***************************************************************************)
(* The account side of the API on a small instance.  The limiters, signing *)
(* in, the tokens, the command line's login and the inbox hold no state in *)
(* common but the clock, and a limiter apiece.  TLC checks them side by    *)
(* side and not interleaved: part says which of them a behaviour is about, *)
(* and the variables of the others stay as they were.  AccessProofs is     *)
(* about all their interleavings.                                          *)
(***************************************************************************)
EXTENDS Access, TLC

VARIABLE part

Parts == {"limits", "signin", "tokens", "login", "plan", "names", "secrets"}

----------------------------------------------------------------------------
(* Constants *)

CONSTANTS r1, r2, x, y, n1, n2

MCMaxPerHour == [k \in Keys |-> 2]

MCNames == {n1, n2}
MCLegacy == {n2}

MCCaptured == {r1, r2}
MCSecrets == {x, y}

\* r1 has a Stripe signature made at time 0 and a forged generic one. Of the
\* two generic headers of r2 the first decides.
MCHeadersOf ==
    LET bare == [h \in HeaderNames |-> Absent] IN
    (r1 :> [bare EXCEPT !["Stripe-Signature"] = x, !["X-Signature"] = Forged])
    @@ (r2 :> [bare EXCEPT !["X-Webhook-Signature"] = x, !["X-Signature"] = y])

MCSignedAt == (r1 :> 0) @@ (r2 :> 0)

\* Bounds: how long each part runs, tokens and requests it has.
LastTick ==
    [limits |-> 6, signin |-> 2, tokens |-> 3, login |-> 0, plan |-> 0, names |-> 2,
     secrets |-> 2]

\* Goroutines and commands are alike, and rows, and so on. Sets that never
\* meet in a part share their values, which keeps the permutations few.
Alike ==
    Permutations(Requesters) \cup Permutations(Clickers) \cup Permutations(Accounts)
    \cup Permutations(EndpointIds)

----------------------------------------------------------------------------
\* Where secrets are checked a user has two endpoints from the start, and
\* changes the secrets of n1 only.
TwoEndpoints ==
    \E u \in Users, id1, id2 \in EndpointIds :
        /\ id1 # id2
        /\ plan = [v \in Users |-> "pro"]
        /\ endpoints = {[id |-> id1, user |-> u, slug |-> n1],
                        [id |-> id2, user |-> u, slug |-> n2]}
        /\ sessions = {}
        /\ issued = {id1, id2}
        /\ holders = [n \in Names |-> {}]
        /\ create = [k \in Creators |-> IdleCreate]
        /\ read = [d \in Readers |-> IdleRead]
        /\ wasPro = Users
        /\ secrets = {[endpoint |-> id2, provider |-> "stripe", value |-> x]}
        /\ secretReq = [w \in Writers |-> {}]
        /\ capture = [r \in Captured |-> NewCapture]
        /\ requests = {}
        /\ shown = {}

PartsInit ==
    /\ part \in Parts
    /\ LimitsInit /\ SignInInit /\ ApiTokensInit /\ LoginInit
    /\ IF part = "secrets" THEN TwoEndpoints ELSE EndpointsInit /\ InboxInit

\* One attempt to mint a token.
TokensPart ==
    /\ ApiTokensNext /\ UNCHANGED <<signInVars, loginVars, inboxSideVars>>
    /\ \A k \in Keys : Len(allowed'[k]) <= 1

LoginPart == LoginStep /\ \A a \in Calls : call'[a] = IdleCall

AccountsSame == UNCHANGED <<signInVars, tokenVars, loginVars>>

PlanPart ==
    /\ \/ CreateRequest
       \/ \E u \in Users, id \in EndpointIds : DeleteEndpoint(u, id)
       \/ \E u \in Users, p \in Plans : ChangePlan(u, p)
    /\ UNCHANGED <<limitsVars, inboxVars>> /\ AccountsSame

\* One request. Sessions and endpoints of both users get the name n1.
NamesPart ==
    /\ \/ ((\E n \in Names : Receive(r1, n)) \/ CaptureStep(r1)) /\ UNCHANGED <<now, endpointVars>>
       \/ /\ \/ \E k \in Creators, u \in Users :
                   (\A j \in Creators : create[j].pc = "idle") /\ StartCreate(k, u, n1)
             \/ \E k \in Creators : CreateStep(k)
             \/ \E u \in Users, id \in EndpointIds : DeleteEndpoint(u, id)
             \/ \E u \in Users : CreateSession(u, n1)
             \/ DeleteExpiredSessions
             \/ \E d \in Readers, u \in Users, i \in Names \cup EndpointIds : AskFor(d, u, i)
             \/ \E d \in Readers : ResolveStep(d)
          /\ UNCHANGED <<now, inboxVars>>
       \/ (\E d \in Readers : GetRequests(d)) /\ UNCHANGED now
       \/ Tick /\ UNCHANGED inboxSideVars
    /\ UNCHANGED <<bucketVars, windowVars>> /\ AccountsSame

\* Either of the two requests.
SecretsPart ==
    /\ \/ /\ \/ \E r \in Captured, n \in Names :
                   (\A q \in Captured : capture[q].pc = "new") /\ Receive(r, n)
             \/ \E r \in Captured : CaptureStep(r)
             \/ \E w \in Writers, ep \in WithSlug(n1), p \in Configurable :
                   \E v \in Secrets \cup {Absent} :
                      ChangeSecret(w, ep.user, [endpoint |-> ep.id, provider |-> p, value |-> v])
             \/ \E w \in Writers : WriteSecret(w) \/ WriteFails(w)
          /\ UNCHANGED <<now, endpointVars>>
       \/ Tick /\ UNCHANGED inboxSideVars
    /\ UNCHANGED <<bucketVars, windowVars>> /\ AccountsSame

PartsNext ==
    /\ \/ part = "limits" /\ LimitsStep
       \/ part = "signin" /\ SignInStep
       \/ part = "tokens" /\ TokensPart
       \/ part = "login" /\ LoginPart
       \/ part = "plan" /\ PlanPart
       \/ part = "names" /\ NamesPart
       \/ part = "secrets" /\ SecretsPart
    /\ now' <= LastTick[part]
    /\ UNCHANGED part

PartsSpec == PartsInit /\ [][PartsNext]_<<accessVars, part>>
=============================================================================
