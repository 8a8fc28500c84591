------------------------------- MODULE Login -------------------------------
(***************************************************************************)
(* "hookdrop login" through the browser, and "hookdrop logout"             *)
(* (cli/cmd/login.go, logout.go, cli/internal/config/config.go, with the   *)
(* page ui/src/pages/CliAuthPage.tsx).  A login listens on a port the      *)
(* system picks, prints a link with the port and a random state, and waits *)
(* for a tab to bring a token to /callback.  The state is the login        *)
(* itself: no two draw the same.                                           *)
(***************************************************************************)
EXTENDS ApiTokens

CONSTANTS
    Logins,         \* runs of "hookdrop login"
    NoLogin,
    Ports,
    NoPort,         \* before a listener is bound
    Tabs            \* browser tabs

ASSUME LoginAssumption ==
    /\ NoLogin \notin Logins
    /\ NoPort \notin Ports

VARIABLES
    login,      \* what each login is at
    tab,        \* what each tab shows
    stored,     \* the token in the configuration file
    opened,     \* history: the token minted in each tab and the link it had
    taken       \* history: the token each login took from its channel

loginVars == <<login, tab, stored, opened, taken>>

----------------------------------------------------------------------------
\* channel holds at most one token; token is the one the login goes on with.
LoginRun ==
    [pc: {"new", "wait", "prompt", "check", "save", "over"}, port: Ports \cup {NoPort},
     channel: TokenIds \cup {NoToken}, token: TokenIds \cup {NoToken}]

\* A tab with the link of a login, its port and state, authorizes or calls back.
Tab ==
    [pc: {"closed", "page", "callback"}, port: Ports \cup {NoPort},
     state: Logins \cup {NoLogin}, token: TokenIds \cup {NoToken}]

NewLogin == [pc |-> "new", port |-> NoPort, channel |-> NoToken, token |-> NoToken]
ClosedTab == [pc |-> "closed", port |-> NoPort, state |-> NoLogin, token |-> NoToken]

LoginTypeOK ==
    /\ login \in [Logins -> LoginRun]
    /\ tab \in [Tabs -> Tab]
    /\ stored \in TokenIds \cup {NoToken}
    /\ opened \subseteq [token: TokenIds, state: Logins]
    /\ taken \subseteq [login: Logins, token: TokenIds]

LoginInit ==
    /\ login = [g \in Logins |-> NewLogin]
    /\ tab = [b \in Tabs |-> ClosedTab]
    /\ stored = NoToken
    /\ opened = {}
    /\ taken = {}

----------------------------------------------------------------------------
(* browserLogin, waitForCallback *)

\* The system picks a port nobody listens on; it may have been one before.
Listen(g) ==
    /\ login[g].pc = "new"
    /\ \E p \in Ports \ {login[h].port : h \in {h \in Logins : login[h].pc = "wait"}} :
          login' = [login EXCEPT ![g].pc = "wait", ![g].port = p]
    /\ UNCHANGED <<tab, stored, opened, taken>>

\* --token, --no-browser, or a listener that cannot be bound.
SkipBrowser(g) ==
    /\ login[g].pc = "new"
    /\ login' = [login EXCEPT ![g].pc = "prompt"]
    /\ UNCHANGED <<tab, stored, opened, taken>>

\* The select: a token there is may be taken even if the time is up.
TakeToken(g) ==
    /\ login[g].pc = "wait" /\ login[g].channel # NoToken
    /\ login' = [login EXCEPT ![g].pc = "check", ![g].token = login[g].channel]
    /\ taken' = taken \cup {[login |-> g, token |-> login[g].channel]}
    /\ UNCHANGED <<tab, stored, opened>>

\* The select: the time is up, or the command is cancelled. A token may be
\* there, and stays unused; the user is asked for one.
StopWaiting(g) ==
    /\ login[g].pc = "wait"
    /\ login' = [login EXCEPT ![g].pc = "prompt"]
    /\ UNCHANGED <<tab, stored, opened, taken>>

\* promptForToken: a token of the user's, or nothing that looks like one.
Prompt(g) ==
    /\ login[g].pc = "prompt"
    /\ \/ \E t \in TokenIds :
             Issued(t) /\ login' = [login EXCEPT ![g].pc = "check", ![g].token = t]
       \/ login' = [login EXCEPT ![g].pc = "over"]
    /\ UNCHANGED <<tab, stored, opened, taken>>

\* Me: the server knows the token, or the command fails.
CheckToken(g) ==
    /\ login[g].pc = "check"
    /\ \/ Found(login[g].token) /\ login' = [login EXCEPT ![g].pc = "save"]
       \/ /\ ~Found(login[g].token) \/ "store" \in Faults
          /\ login' = [login EXCEPT ![g].pc = "over"]
    /\ UNCHANGED <<tab, stored, opened, taken>>

\* Save renames a complete file over the old one, or leaves the old one.
SaveToken(g) ==
    /\ login[g].pc = "save"
    /\ stored' = login[g].token \/ ("store" \in Faults /\ stored' = stored)
    /\ login' = [login EXCEPT ![g].pc = "over"]
    /\ UNCHANGED <<tab, opened, taken>>

Logout ==
    /\ stored # NoToken
    /\ stored' = NoToken
    /\ UNCHANGED <<login, tab, opened, taken>>

----------------------------------------------------------------------------
(* CliAuthPage and the callback *)

\* A link is opened when it is printed or any time later, and once more after
\* the sign-in it may have to wait for.
OpenLink(b, g) ==
    /\ tab[b].pc = "closed" /\ login[g].port # NoPort
    /\ tab' = [tab EXCEPT ![b] =
           [pc |-> "page", port |-> login[g].port, state |-> g, token |-> NoToken]]
    /\ UNCHANGED <<login, stored, opened, taken>>

\* handleAuthorize: a token for whoever is signed in, then the callback.
Authorize(b, u, t) ==
    /\ tab[b].pc = "page"
    /\ Mint(u, t, 0)
    /\ tab' = [tab EXCEPT ![b].pc = "callback", ![b].token = t]
    /\ opened' = opened \cup {[token |-> t, state |-> tab[b].state]}
    /\ UNCHANGED <<login, stored, taken>>

CloseTab(b) ==
    /\ tab[b].pc = "page"
    /\ tab' = [tab EXCEPT ![b] = ClosedTab]
    /\ UNCHANGED <<login, stored, opened, taken>>

\* Who serves /callback on the port of tab b.
Listening(b) == {g \in Logins : login[g].pc = "wait" /\ login[g].port = tab[b].port}

\* Faulty variant: the state is not compared.
CallbackAnyState(b) ==
    LET heard == {g \in Listening(b) : login[g].channel = NoToken} IN
    /\ tab[b].pc = "callback"
    /\ login' = [g \in Logins |-> IF g \in heard
                    THEN [login[g] EXCEPT !.channel = tab[b].token] ELSE login[g]]
    /\ tab' = [tab EXCEPT ![b] = ClosedTab]
    /\ UNCHANGED <<stored, opened, taken>>

\* The callback: with another login's state it is answered 404, and a second
\* token is dropped; if nobody listens any more nothing happens.
Callback(b) ==
    LET heard == {g \in Listening(b) : g = tab[b].state /\ login[g].channel = NoToken} IN
    /\ tab[b].pc = "callback"
    /\ login' = [g \in Logins |-> IF g \in heard
                    THEN [login[g] EXCEPT !.channel = tab[b].token] ELSE login[g]]
    /\ tab' = [tab EXCEPT ![b] = ClosedTab]
    /\ UNCHANGED <<stored, opened, taken>>

----------------------------------------------------------------------------
CommandStep(g) ==
    \/ Listen(g) \/ SkipBrowser(g) \/ TakeToken(g) \/ StopWaiting(g) \/ Prompt(g)
    \/ CheckToken(g) \/ SaveToken(g)

BrowserStep(b) ==
    \/ \E g \in Logins : OpenLink(b, g)
    \/ CloseTab(b) \/ Callback(b)

LoginNext ==
    \/ /\ \/ \E g \in Logins : CommandStep(g)
          \/ \E b \in Tabs : BrowserStep(b)
          \/ Logout
       /\ UNCHANGED <<limitsVars, tokenVars>>
    \/ /\ \E b \in Tabs, u \in Owners, t \in TokenIds : Authorize(b, u, t)
       /\ UNCHANGED <<now, bucketVars>>
    \/ ApiTokensNext /\ UNCHANGED loginVars

LoginSpec ==
    LimitsInit /\ ApiTokensInit /\ LoginInit
    /\ [][LoginNext]_<<limitsVars, tokenVars, loginVars>>

----------------------------------------------------------------------------
(* Properties *)

\* A login that gets its token from the browser gets it from a page that was
\* opened with its own link, although ports come back and links of logins long
\* over are authorized; and no two logins get the same.
TokenOfOwnTab ==
    /\ \A x \in taken : [token |-> x.token, state |-> x.login] \in opened
    /\ \A x, z \in taken : x.token = z.token => x = z
=============================================================================
