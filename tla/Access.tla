------------------------------- MODULE Access -------------------------------
(***************************************************************************)
(* The account side of the API as main.go puts it together: the limiters,  *)
(* signing in, the tokens with the command line's login, and the inbox, on *)
(* one clock.  A request of any of them may run between two statements of  *)
(* any other.                                                              *)
(*                                                                         *)
(* emailLimiter and tokenMintLimiter are instances of one type and share   *)
(* the variable attempts, under e-mail addresses and under user ids.       *)
(***************************************************************************)
EXTENDS SignIn, Login, Inbox

inboxSideVars == <<endpointVars, inboxVars>>
accessVars == <<limitsVars, signInVars, tokenVars, loginVars, inboxSideVars>>

AccessInit ==
    LimitsInit /\ SignInInit /\ ApiTokensInit /\ LoginInit /\ EndpointsInit /\ InboxInit

----------------------------------------------------------------------------
\* A request only counted by a limiter, a limiter's cleanup, or the clock.
LimitsStep == LimitsNext /\ UNCHANGED <<signInVars, tokenVars, loginVars, inboxSideVars>>

\* /auth/request and /auth/verify.
SignInStep == SignInNext /\ UNCHANGED <<tokenVars, loginVars, inboxSideVars>>

\* /tokens, the middleware before the other paths, and hookdrop login with its
\* page and callback.
LoginStep == LoginNext /\ UNCHANGED <<signInVars, inboxSideVars>>

\* /i/, /endpoints with the secrets below it, /sessions and /requests/.
InboxStep == InboxNext /\ UNCHANGED <<bucketVars, windowVars, signInVars, tokenVars, loginVars>>

AccessNext == LimitsStep \/ SignInStep \/ LoginStep \/ InboxStep

AccessSpec == AccessInit /\ [][AccessNext]_accessVars

----------------------------------------------------------------------------
\* All of the account side's state has its type.
AccessTypeOK ==
    /\ LimitsTypeOK /\ SignInTypeOK /\ ApiTokensTypeOK /\ LoginTypeOK
    /\ EndpointsTypeOK /\ InboxTypeOK
=============================================================================
