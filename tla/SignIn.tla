------------------------------- MODULE SignIn -------------------------------
(***************************************************************************)
(* Signing in by magic link: RequestLink and VerifyLink                    *)
(* (internal/handler/auth.go) on the tables users and magic_links          *)
(* (internal/store/store.go).  Several requests for one address and        *)
(* several clicks on one link can be in flight.                            *)
(***************************************************************************)
EXTENDS Limits

CONSTANTS
    Emails,         \* addresses, lower case and trimmed
    Accounts,       \* user ids
    Nobody,         \* no address, no account
    Requesters,     \* goroutines in RequestLink
    Clickers,       \* goroutines in VerifyLink
    LinkLife,       \* ticks a link is good for
    MaxLinks        \* bound: rows of magic_links

ASSUME SignInAssumption ==
    /\ Emails \subseteq Keys
    /\ Nobody \notin Accounts \cup Emails
    /\ LinkLife \in Nat

VARIABLES
    users,      \* rows of users
    links,      \* rows of magic_links in the order of their insertion
    mailed,     \* links that have reached a mailbox
    linkReq,    \* the request of each requester
    click,      \* the verification of each clicker
    signIns,    \* history: the verifications answered with a JWT
    stranded    \* history: accounts whose last new link could not be inserted

signInVars == <<users, links, mailed, linkReq, click, signIns, stranded>>

----------------------------------------------------------------------------
Link == [user: Accounts, expires: Nat, used: BOOLEAN]

LinkRequest ==
    [pc: {"idle", "find", "insert", "retire", "link", "mail"},
     email: Emails \cup {Nobody}, user: Accounts \cup {Nobody}, link: Nat]

\* late: a sign-in with the same link had been answered before.
Clicked == [pc: {"idle", "consume"}, link: Nat, late: BOOLEAN]

IdleRequest == [pc |-> "idle", email |-> Nobody, user |-> Nobody, link |-> 0]
IdleClick == [pc |-> "idle", link |-> 0, late |-> FALSE]

SignInTypeOK ==
    /\ users \subseteq [id: Accounts, email: Emails]
    /\ links \in Seq(Link)
    /\ mailed \subseteq [email: Emails, link: DOMAIN links]
    /\ linkReq \in [Requesters -> LinkRequest]
    /\ click \in [Clickers -> Clicked]
    /\ signIns \subseteq [link: DOMAIN links, late: BOOLEAN]
    /\ stranded \subseteq Accounts

SignInInit ==
    /\ users = {}
    /\ links = <<>>
    /\ mailed = {}
    /\ linkReq = [r \in Requesters |-> IdleRequest]
    /\ click = [v \in Clickers |-> IdleClick]
    /\ signIns = {}
    /\ stranded = {}

----------------------------------------------------------------------------
(* POST /auth/request *)

\* The request ends, with whatever answer.
EndRequest(r) == linkReq' = [linkReq EXCEPT ![r] = IdleRequest]

\* A request over the limit is answered 429 and changes nothing.
RequestLink(r, e) ==
    /\ linkReq[r].pc = "idle"
    /\ AllowKey(e)
    /\ linkReq' = [linkReq EXCEPT ![r] = [IdleRequest EXCEPT !.pc = "find", !.email = e]]
    /\ UNCHANGED <<users, links, mailed, click, signIns, stranded>>

\* GetOrCreateUser, SELECT.
FindUser(r) ==
    LET found == {u \in users : u.email = linkReq[r].email} IN
    /\ linkReq[r].pc = "find"
    /\ \/ /\ found = {}
          /\ linkReq' = [linkReq EXCEPT ![r].pc = "insert"]
       \/ \E u \in found :
             linkReq' = [linkReq EXCEPT ![r].pc = "retire", ![r].user = u.id]
    /\ UNCHANGED <<windowVars, users, links, mailed, click, signIns, stranded>>

\* Faulty variant: the address is not unique.
InsertUserTwice(r) ==
    /\ linkReq[r].pc = "insert"
    /\ \E id \in Accounts \ {u.id : u \in users} :
          /\ users' = users \cup {[id |-> id, email |-> linkReq[r].email]}
          /\ linkReq' = [linkReq EXCEPT ![r].pc = "retire", ![r].user = id]
    /\ UNCHANGED <<windowVars, links, mailed, click, signIns, stranded>>

\* GetOrCreateUser, INSERT. The second of two first requests for an address
\* meets the unique column and is answered 500.
InsertUser(r) ==
    /\ linkReq[r].pc = "insert"
    /\ IF \E u \in users : u.email = linkReq[r].email
       THEN EndRequest(r) /\ UNCHANGED users
       ELSE \E id \in Accounts \ {u.id : u \in users} :
               /\ users' = users \cup {[id |-> id, email |-> linkReq[r].email]}
               /\ linkReq' = [linkReq EXCEPT ![r].pc = "retire", ![r].user = id]
    /\ UNCHANGED <<windowVars, links, mailed, click, signIns, stranded>>

Retired(user) ==
    [i \in DOMAIN links |-> IF links[i].user = user
                            THEN [links[i] EXCEPT !.used = TRUE] ELSE links[i]]

\* CreateMagicLink, UPDATE: the user's unused links are used up.
RetireLinks(r) ==
    /\ linkReq[r].pc = "retire"
    /\ links' = Retired(linkReq[r].user)
    /\ linkReq' = [linkReq EXCEPT ![r].pc = "link"]
    /\ UNCHANGED <<windowVars, users, mailed, click, signIns, stranded>>

NewLink(user) == [user |-> user, expires |-> now + LinkLife, used |-> FALSE]

\* Faulty variant: the links are retired after the new one is inserted.
InsertLinkThenRetire(r) ==
    /\ linkReq[r].pc = "link" /\ Len(links) < MaxLinks
    /\ links' = Append(Retired(linkReq[r].user),
                       [NewLink(linkReq[r].user) EXCEPT !.used = TRUE])
    /\ linkReq' = [linkReq EXCEPT ![r].pc = "mail", ![r].link = Len(links) + 1]
    /\ stranded' = stranded \ {linkReq[r].user}
    /\ UNCHANGED <<windowVars, users, mailed, click, signIns>>

\* CreateMagicLink, INSERT.
InsertLink(r) ==
    /\ linkReq[r].pc = "link" /\ Len(links) < MaxLinks
    /\ links' = Append(links, NewLink(linkReq[r].user))
    /\ linkReq' = [linkReq EXCEPT ![r].pc = "mail", ![r].link = Len(links) + 1]
    /\ stranded' = stranded \ {linkReq[r].user}
    /\ UNCHANGED <<windowVars, users, mailed, click, signIns>>

\* A mail that cannot be sent is answered 500; the link stays in the table.
SendMagicLink(r) ==
    /\ linkReq[r].pc = "mail"
    /\ \/ mailed' = mailed \cup {[email |-> linkReq[r].email, link |-> linkReq[r].link]}
       \/ "mail" \in Faults /\ UNCHANGED mailed
    /\ EndRequest(r)
    /\ UNCHANGED <<windowVars, users, links, click, signIns, stranded>>

\* A statement fails and the request is answered 500.
RequestFails(r) ==
    /\ "store" \in Faults
    /\ linkReq[r].pc \in {"find", "insert", "retire", "link"}
    /\ stranded' = IF linkReq[r].pc = "link" THEN stranded \cup {linkReq[r].user} ELSE stranded
    /\ EndRequest(r)
    /\ UNCHANGED <<windowVars, users, links, mailed, click, signIns>>

----------------------------------------------------------------------------
(* GET /auth/verify *)

EndClick(v) == click' = [click EXCEPT ![v] = IdleClick]

\* ConsumeMagicLink, SELECT. A link used or expired is answered 401.
VerifyLink(v, m) ==
    /\ click[v].pc = "idle"
    /\ ~links[m.link].used
    /\ now <= links[m.link].expires
    /\ click' = [click EXCEPT ![v] =
           [pc |-> "consume", link |-> m.link, late |-> \E s \in signIns : s.link = m.link]]
    /\ UNCHANGED <<windowVars, users, links, mailed, linkReq, signIns, stranded>>

\* Faulty variant: the link is looked at and not used up.
ConsumeLinkUnmarked(v) ==
    /\ click[v].pc = "consume"
    /\ signIns' = signIns \cup {[link |-> click[v].link, late |-> click[v].late]}
    /\ EndClick(v)
    /\ UNCHANGED <<windowVars, users, links, mailed, linkReq, stranded>>

\* ConsumeMagicLink, UPDATE, whoever has used the link up meanwhile, and the
\* redirect with the JWT.
ConsumeLink(v) ==
    /\ click[v].pc = "consume"
    /\ links' = [links EXCEPT ![click[v].link].used = TRUE]
    /\ signIns' = signIns \cup {[link |-> click[v].link, late |-> click[v].late]}
    /\ EndClick(v)
    /\ UNCHANGED <<windowVars, users, mailed, linkReq, stranded>>

ClickFails(v) ==
    /\ "store" \in Faults /\ click[v].pc = "consume"
    /\ EndClick(v)
    /\ UNCHANGED <<windowVars, users, links, mailed, linkReq, signIns, stranded>>

----------------------------------------------------------------------------
RequestStep(r) ==
    \/ FindUser(r) \/ InsertUser(r) \/ RetireLinks(r) \/ InsertLink(r)
    \/ SendMagicLink(r) \/ RequestFails(r)

ClickStep(v) == ConsumeLink(v) \/ ClickFails(v)

SignInNext ==
    \/ /\ \/ \E r \in Requesters, e \in Emails : RequestLink(r, e)
          \/ \E r \in Requesters : RequestStep(r)
          \/ \E v \in Clickers, m \in mailed : VerifyLink(v, m)
          \/ \E v \in Clickers : ClickStep(v)
       /\ UNCHANGED <<now, bucketVars>>
    \/ CleanupWindows /\ UNCHANGED signInVars
    \/ Tick /\ UNCHANGED <<bucketVars, windowVars, signInVars>>

SignInSpec == LimitsInit /\ SignInInit /\ [][SignInNext]_<<limitsVars, signInVars>>

----------------------------------------------------------------------------
(* Properties *)

\* A link that has signed somebody in signs nobody in again who comes later.
\* Clicks that overlap are another matter: the check and the update are two
\* statements, and both succeed.
LinkSignsInOnce == \A s \in signIns : ~s.late

IsNewest(i) == \A j \in DOMAIN links : links[j].user = links[i].user => j <= i

\* However requests for one address interleave, retiring each other's links,
\* the newest link is left open until it has been used to sign in.
NewestLinkIsOpen ==
    \A i \in DOMAIN links :
        LET user == links[i].user IN
        /\ IsNewest(i) /\ links[i].used
        => \/ \E s \in signIns : s.link = i
           \/ \E r \in Requesters : linkReq[r].pc = "link" /\ linkReq[r].user = user
           \/ user \in stranded

\* All links mailed to an address sign in to one account, and to no other
\* address's, also if its first requests race.
AddressIsOneAccount ==
    \A m, n \in mailed :
        m.email = n.email <=> links[m.link].user = links[n.link].user
=============================================================================
