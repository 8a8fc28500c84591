---------------------------- MODULE AccessProofs -----------------------------
(***************************************************************************)
(* Theorems about the account side as a whole: what is proved of the       *)
(* limiters, signing in, the tokens, the login and the inbox one by one    *)
(* holds while all of them run together.                                   *)
(*                                                                         *)
(* Every step of the whole is a step of the limiters and of the inbox, or  *)
(* leaves their state alone, so these two keep their specifications.       *)
(* Signing in and the tokens do not: the counters they use are used by     *)
(* others too.  Their invariants do not mention the counters.              *)
(***************************************************************************)
EXTENDS Access, AccountProofs, InboxProofs

----------------------------------------------------------------------------
(* The clock *)

LEMMA ClockRuns == ASSUME [AccessNext]_accessVars PROVE now' = now \/ Tick
  <1>1. LimitsNext => now' = now \/ Tick
    BY DEF LimitsNext, Allow, CleanupBuckets, CleanupWindows
  <1>2. SignInNext => now' = now \/ Tick BY DEF SignInNext, CleanupWindows
  <1>3. LoginNext => now' = now \/ Tick
    BY DEF LoginNext, ApiTokensNext, CleanupWindows, limitsVars
  <1>4. InboxNext => now' = now \/ Tick BY DEF InboxNext
  <1> QED BY <1>1, <1>2, <1>3, <1>4
       DEF AccessNext, LimitsStep, SignInStep, LoginStep, InboxStep, accessVars, limitsVars

LEMMA ClockForward ==
    ASSUME now \in Nat, [AccessNext]_accessVars PROVE now' \in Nat /\ now' >= now
  BY ClockRuns DEF Tick

----------------------------------------------------------------------------
(* The limiters and the inbox keep to their specifications *)

\* Sign-in and minting use the counters as AllowKey does.
LEMMA SignInCounts ==
    ASSUME SignInNext PROVE [LimitsNext]_limitsVars
  <1>1. ASSUME NEW r \in Requesters, NEW e \in Emails, RequestLink(r, e),
               UNCHANGED <<now, bucketVars>>
        PROVE  LimitsNext
    BY <1>1, SignInAssumption DEF RequestLink, LimitsNext
  <1>2. ASSUME NEW r \in Requesters, RequestStep(r) PROVE UNCHANGED windowVars
    BY <1>2 DEF RequestStep, FindUser, InsertUser, RetireLinks, InsertLink, SendMagicLink,
                RequestFails
  <1>3. ASSUME NEW v \in Clickers, NEW m \in mailed, VerifyLink(v, m)
        PROVE  UNCHANGED windowVars
    BY <1>3 DEF VerifyLink
  <1>4. ASSUME NEW v \in Clickers, ClickStep(v) PROVE UNCHANGED windowVars
    BY <1>4 DEF ClickStep, ConsumeLink, ClickFails
  <1> QED BY <1>1, <1>2, <1>3, <1>4 DEF SignInNext, LimitsNext, limitsVars

LEMMA LoginCounts ==
    ASSUME LoginNext PROVE [LimitsNext]_limitsVars
  <1>1. ASSUME NEW u \in Owners, AllowKey(u), UNCHANGED <<now, bucketVars>> PROVE LimitsNext
    BY <1>1, ApiTokensAssumption DEF LimitsNext
  <1>2. ASSUME NEW b \in Tabs, NEW u \in Owners, NEW t \in TokenIds, Authorize(b, u, t)
        PROVE  AllowKey(u)
    BY <1>2 DEF Authorize, Mint
  <1>3. ASSUME TokenRequest PROVE (\E u \in Owners : AllowKey(u)) \/ UNCHANGED windowVars
    BY <1>3 DEF TokenRequest, Mint, MintFails, Revoke, RevokeAll, Arrive, CallStep, FindToken,
                FindOwner, CallFails, Touch, TouchFails
  <1>4. ApiTokensNext => [LimitsNext]_limitsVars
    BY <1>1, <1>3 DEF ApiTokensNext, LimitsNext, limitsVars
  <1> QED BY <1>1, <1>2, <1>4 DEF LoginNext

LEMMA LimitsSide == ASSUME [AccessNext]_accessVars PROVE [LimitsNext]_limitsVars
  <1>1. InboxStep => [LimitsNext]_limitsVars
    BY DEF InboxStep, InboxNext, LimitsNext, limitsVars
  <1> QED BY <1>1, SignInCounts, LoginCounts
       DEF AccessNext, LimitsStep, SignInStep, LoginStep, accessVars, limitsVars

LEMMA InboxSide ==
    ASSUME [AccessNext]_accessVars PROVE [InboxNext]_<<now, endpointVars, inboxVars>>
  <1>1. CASE UNCHANGED inboxSideVars BY <1>1, ClockRuns DEF inboxSideVars, InboxNext
  <1>2. CASE InboxStep BY <1>2 DEF InboxStep
  <1> QED BY <1>1, <1>2 DEF AccessNext, LimitsStep, SignInStep, LoginStep, accessVars

\* What the limiters and the inbox promise, they promise beside the others: the
\* limiter of addresses is still an ideal bucket.
THEOREM AccessKeepsParts == AccessSpec => LimitsSpec /\ InboxSpec
  <1>1. AccessInit => LimitsInit /\ now = 0 /\ EndpointsInit /\ InboxInit
    BY DEF AccessInit, LimitsInit
  <1>2. [AccessNext]_accessVars
        => [LimitsNext]_limitsVars /\ [InboxNext]_<<now, endpointVars, inboxVars>>
    BY LimitsSide, InboxSide
  <1> QED BY <1>1, <1>2, PTL DEF AccessSpec, LimitsSpec, InboxSpec

----------------------------------------------------------------------------
(* Signing in, tokens and the login beside the others *)

AccountInv == SignInInv /\ TokenInv /\ LoginInv

LEMMA AccountStart == AccessInit => AccountInv
  BY SignInStart, LoginStart DEF AccessInit, AccountInv

LEMMA AccountNext == ASSUME AccountInv, [AccessNext]_accessVars PROVE AccountInv'
  <1>1. now' \in Nat /\ now' >= now BY ClockForward DEF AccountInv, SignInInv
  <1>2. UNCHANGED signInVars => SignInInv' BY <1>1, SignInStays DEF AccountInv
  <1>3. UNCHANGED tokenVars /\ UNCHANGED loginVars => TokenInv' /\ LoginInv'
    BY <1>1, TokensStay, LoginStays DEF AccountInv, Issued, tokenVars
  <1>4. CASE SignInStep BY <1>3, <1>4, SignInNextStep DEF SignInStep, AccountInv
  <1>5. CASE LoginStep BY <1>2, <1>5, LoginNextStep DEF LoginStep, AccountInv
  <1> QED BY <1>2, <1>3, <1>4, <1>5
       DEF AccessNext, LimitsStep, InboxStep, accessVars, AccountInv

LEMMA AccountInvariant == AccessSpec => []AccountInv
  BY AccountStart, AccountNext, PTL DEF AccessSpec

\* In every reachable state of the whole account side every row, map and
\* goroutine has its type.
THEOREM AccessTypeCorrect == AccessSpec => []AccessTypeOK
  <1>1. AccountInv => SignInTypeOK /\ ApiTokensTypeOK /\ LoginTypeOK
    BY DEF AccountInv, SignInInv, TokenInv, LoginInv
  <1>2. LimitsTypeOK /\ EndpointsTypeOK /\ InboxTypeOK /\ AccountInv => AccessTypeOK
    BY <1>1 DEF AccessTypeOK
  <1> QED BY <1>2, AccessKeepsParts, AccountInvariant, LimitsTypeCorrect, EndpointsTypeCorrect,
             InboxTypeCorrect, PTL

\* Each promise of a part, with every other part's statements between its own:
\* the limiters', the sign-in's, the tokens', the login's and the inbox's.
THEOREM AccessSafe ==
    AccessSpec => [](/\ HourBound
                     /\ LinkSignsInOnce /\ NewestLinkIsOpen /\ AddressIsOneAccount
                     /\ LateIsRefused /\ LastUsedIsFresh
                     /\ TokenOfOwnTab
                     /\ OverrunIsBounded /\ ReadByOwner
                     /\ VerifiedWasSigned /\ SignedIsVerified)
  <1>1. AccountInv => /\ LinkSignsInOnce /\ NewestLinkIsOpen /\ AddressIsOneAccount
                      /\ LateIsRefused /\ LastUsedIsFresh /\ TokenOfOwnTab
    BY SignInPromises, TokenPromises, LoginPromises DEF AccountInv
  <1> QED BY <1>1, AccountInvariant, AccessKeepsParts, HourBoundSafe, OverrunBounded,
             ReadersOwn, VerifiedSigned, SignedVerified, PTL
=============================================================================
