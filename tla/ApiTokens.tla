----------------------------- MODULE ApiTokens -----------------------------
(***************************************************************************)
(* API tokens: minting and revocation (internal/handler/tokens.go), the    *)
(* middleware that lets a request in by its token and notes the use in the *)
(* background (internal/middleware/auth.go), and the table api_tokens      *)
(* (internal/store/api_tokens.go).                                         *)
(***************************************************************************)
EXTENDS Limits

CONSTANTS
    Owners,         \* user ids
    TokenIds,       \* rows api_tokens can have
    NoToken,        \* no row
    Calls,          \* goroutines in the middleware
    Lives,          \* lifetimes a token can be given; 0 is none
    TouchGap        \* ticks between two writes of last_used_at

ASSUME ApiTokensAssumption ==
    /\ Owners \subseteq Keys
    /\ Lives \subseteq Nat
    /\ TouchGap \in Nat
    /\ NoToken \notin TokenIds

VARIABLES
    apiTokens,  \* rows of api_tokens
    call,       \* the request of each goroutine
    touching,   \* TouchAPIToken goroutines that have not run yet
    admitted,   \* history: the requests let in
    ran         \* history: the latest use of each token that has been noted

tokenVars == <<apiTokens, call, touching, admitted, ran>>

----------------------------------------------------------------------------
\* expires 0 and lastUsed Never stand for NULL.
Token == [owner: Owners, expires: Nat, revoked: BOOLEAN, lastUsed: Nat \cup {Never}]

ASSUME NoTokenAssumption == NoToken \notin Token

\* late: the token had been revoked, or had expired, when the request arrived.
Call == [pc: {"idle", "token", "user"}, token: TokenIds \cup {NoToken}, late: BOOLEAN]
IdleCall == [pc |-> "idle", token |-> NoToken, late |-> FALSE]

ApiTokensTypeOK ==
    /\ apiTokens \in [TokenIds -> Token \cup {NoToken}]
    /\ call \in [Calls -> Call]
    /\ touching \subseteq [token: TokenIds, at: 0 .. now]
    /\ admitted \subseteq [token: TokenIds, late: BOOLEAN]
    /\ ran \in [TokenIds -> Nat \cup {Never}]
    /\ \A x \in touching \cup admitted : apiTokens[x.token] # NoToken

ApiTokensInit ==
    /\ apiTokens = [t \in TokenIds |-> NoToken]
    /\ call = [a \in Calls |-> IdleCall]
    /\ touching = {}
    /\ admitted = {}
    /\ ran = [t \in TokenIds |-> Never]

----------------------------------------------------------------------------
(* /tokens: only a request with a JWT gets here, one with a token gets 403 *)

Issued(t) == apiTokens[t] # NoToken

NewToken(u, life) ==
    [owner |-> u, expires |-> IF life = 0 THEN 0 ELSE now + life,
     revoked |-> FALSE, lastUsed |-> Never]

\* The limiter, the token and its row.
Mint(u, t, life) ==
    /\ AllowKey(u)
    /\ ~Issued(t)
    /\ apiTokens' = [apiTokens EXCEPT ![t] = NewToken(u, life)]
    /\ UNCHANGED <<call, touching, admitted, ran>>

\* A request that is refused, or fails, after the limiter has counted it.
MintFails(u) == AllowKey(u) /\ UNCHANGED tokenVars

Revoke(u, t) ==
    /\ Issued(t) /\ apiTokens[t].owner = u
    /\ apiTokens' = [apiTokens EXCEPT ![t].revoked = TRUE]
    /\ UNCHANGED <<windowVars, call, touching, admitted, ran>>

RevokeAll(u) ==
    /\ apiTokens' = [t \in TokenIds |->
           IF Issued(t) /\ apiTokens[t].owner = u
           THEN [apiTokens[t] EXCEPT !.revoked = TRUE] ELSE apiTokens[t]]
    /\ UNCHANGED <<windowVars, call, touching, admitted, ran>>

----------------------------------------------------------------------------
(* The middleware *)

Expired(t) == apiTokens[t].expires # 0 /\ apiTokens[t].expires <= now

\* Faulty variant: an expired token is found too.
FoundIfExpired(t) == ~apiTokens[t].revoked

\* The WHERE of GetAPITokenByHash.
Found(t) == ~apiTokens[t].revoked /\ ~Expired(t)

\* A request with token t reaches the middleware.
Arrive(a, t) ==
    /\ call[a].pc = "idle" /\ Issued(t)
    /\ call' = [call EXCEPT ![a] =
           [pc |-> "token", token |-> t, late |-> apiTokens[t].revoked \/ Expired(t)]]
    /\ UNCHANGED <<windowVars, apiTokens, touching, admitted, ran>>

\* GetAPITokenByHash, or 401.
FindToken(a) ==
    /\ call[a].pc = "token"
    /\ call' = [call EXCEPT ![a] =
           IF Found(call[a].token) THEN [@ EXCEPT !.pc = "user"] ELSE IdleCall]
    /\ UNCHANGED <<windowVars, apiTokens, touching, admitted, ran>>

\* GetUserByID, the touch in the background, and on to the handler.
FindOwner(a) ==
    LET t == call[a].token IN
    /\ call[a].pc = "user"
    /\ touching' = touching \cup {[token |-> t, at |-> now]}
    /\ admitted' = admitted \cup {[token |-> t, late |-> call[a].late]}
    /\ call' = [call EXCEPT ![a] = IdleCall]
    /\ UNCHANGED <<windowVars, apiTokens, ran>>

\* Either read fails: 401.
CallFails(a) ==
    /\ "store" \in Faults /\ call[a].pc # "idle"
    /\ call' = [call EXCEPT ![a] = IdleCall]
    /\ UNCHANGED <<windowVars, apiTokens, touching, admitted, ran>>

\* Faulty variant: only the first use is written.
TouchOnce(x) ==
    /\ x \in touching
    /\ touching' = touching \ {x}
    /\ apiTokens' = [apiTokens EXCEPT ![x.token].lastUsed = IF @ = Never THEN x.at ELSE @]
    /\ ran' = [ran EXCEPT ![x.token] = IF x.at > @ THEN x.at ELSE @]
    /\ UNCHANGED <<windowVars, call, admitted>>

\* TouchAPIToken: goroutines of one token run in any order.
Touch(x) ==
    /\ x \in touching
    /\ touching' = touching \ {x}
    /\ apiTokens' = [apiTokens EXCEPT ![x.token].lastUsed =
           IF @ = Never \/ @ < x.at - TouchGap THEN x.at ELSE @]
    /\ ran' = [ran EXCEPT ![x.token] = IF x.at > @ THEN x.at ELSE @]
    /\ UNCHANGED <<windowVars, call, admitted>>

\* Its error is dropped.
TouchFails(x) ==
    /\ "store" \in Faults
    /\ x \in touching
    /\ touching' = touching \ {x}
    /\ UNCHANGED <<windowVars, apiTokens, call, admitted, ran>>

----------------------------------------------------------------------------
CallStep(a) == FindToken(a) \/ FindOwner(a) \/ CallFails(a)

TokenRequest ==
    \/ \E u \in Owners, t \in TokenIds, life \in Lives : Mint(u, t, life)
    \/ \E u \in Owners : MintFails(u) \/ RevokeAll(u)
    \/ \E u \in Owners, t \in TokenIds : Revoke(u, t)
    \/ \E a \in Calls, t \in TokenIds : Arrive(a, t)
    \/ \E a \in Calls : CallStep(a)
    \/ \E x \in touching : Touch(x) \/ TouchFails(x)

ApiTokensNext ==
    \/ TokenRequest /\ UNCHANGED <<now, bucketVars>>
    \/ CleanupWindows /\ UNCHANGED tokenVars
    \/ Tick /\ UNCHANGED <<bucketVars, windowVars, tokenVars>>

ApiTokensSpec ==
    LimitsInit /\ ApiTokensInit /\ [][ApiTokensNext]_<<limitsVars, tokenVars>>

----------------------------------------------------------------------------
(* Properties *)

\* A request that arrives after its token has been revoked, or has expired, is
\* not let in; one that was past the lookup is.
LateIsRefused == \A x \in admitted : ~x.late

\* last_used_at is never further behind the latest use that a write has been
\* about than the gap, whatever the order in which the writes of overlapping
\* requests run.
LastUsedIsFresh ==
    \A t \in TokenIds : ran[t] # Never => apiTokens[t].lastUsed >= ran[t] - TouchGap
=============================================================================
