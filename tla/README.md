# Hookdrop in TLA+

Hookdrop captures webhooks at a public URL, streams them live to a browser and
to a CLI, replays and verifies them, and sells a Pro plan through two payment
providers. This directory is a verification development of its core: TLA+
modules translated from the Go source, TLC configurations that check them on
small instances, and TLAPS proofs that hold for every instance.

Run in this directory:

    tlc -workers 2 -config MCWebhook.cfg MCWebhook      # likewise the other cfgs
    tlapm WebhookProofs.tla                             # likewise the other *Proofs

`PROJECT.json` lists components, runs, properties, the source lines behind each
definition, findings, hazards and theorems.

## 1. The system

One Go server on one SQLite database. `net/http` gives every request a
goroutine. The store runs every method as separate statements: there is no
transaction anywhere, so requests interleave statement by statement. Background
goroutines prune billing events (hourly), expired sessions and rate-limiter
entries.

| Component | Source | State | Operations | What makes it correct |
|---|---|---|---|---|
| Billing webhooks | `internal/handler/billing.go` 182-427, 679-695 | `subscriptions`, `billing_events` | record, ordering check, resolve user, carry over, upsert, mark | a payload is applied at most once, not over a newer one, and not lost |
| Provider payloads | `internal/billing/paystack.go`, `lemonsqueezy.go` | none | `HandleWebhook` | the event says what the provider said |
| Checkout verification | `billing.go` 430-670 | the same tables | verify, claim, stack, upsert | a payment buys exactly one period |
| Cancellation | `billing.go` 698-788 | the same row, the provider | read, call, write | "cancelled" means the provider will not charge |
| Entitlements | `internal/billing/entitlements.go` | none | `IsActive`, `IsEntitledStatus`, limits | access ends with the period |
| Repair pass | `repair.go` | the same rows | list, look up, write | it never makes a row worse |
| Inbox and live feed | `handler/inbox.go`, `sse/broadcaster.go`, `handler/sse.go`, `ui/src/hooks/useRequestFeed.ts` | `requests`, subscriber channels, browser list | capture, broadcast, subscribe, load history | the list shows every stored request once |
| CLI | `cli/cmd/listen.go`, `cli/internal` | connection, forward queue | stream, reconnect, forward | bounded queue and backoff, no repeated forward |
| Sign-in | `handler/auth.go`, `auth/jwt.go`, `store.go` 448-535 | `magic_links` | request, verify | a link signs in once |
| API tokens | `handler/tokens.go`, `middleware/auth.go`, `store/api_tokens.go` | `api_tokens` | mint, revoke, authenticate, touch | a revoked token is refused |
| Rate limiters | `middleware/ratelimit.go`, `email_ratelimit.go` | buckets, windows | allow, cleanup | the documented rate is never exceeded |
| Endpoints and sessions | `handler/endpoints.go`, `store.go` 299-328, 548-653 | `endpoints`, `sessions`, `requests` | create, delete, resolve | the plan's limit, requests shown to their owner |
| Secrets and verification | `handler/secrets.go`, `verify/verify.go` | `webhook_secrets` | save, delete, verify | a request is judged by its own endpoint's secret |
| CLI login | `cli/cmd/login.go`, `logout.go`, `cli/internal/config`, `ui/src/pages/CliAuthPage.tsx` | listener, channel, configuration file | log in, call back, prompt, log out | a login takes the token of its own tab |
| Replay | `handler/replay.go`, `replay/engine.go` | none | replay | hop-by-hop headers are dropped |

The interactions that matter:

- Webhook deliveries, `POST /billing/verify-paystack` and `POST /billing/cancel`
  write **the same row** (one per user) as a whole, each from values read earlier.
  The webhook path and the verification share the unique key of `billing_events`
  as their only means of deduplication. The provider calls back in its own time,
  in its own order, and repeats itself.
- A captured request is stored by the goroutine that answers its sender, broadcast
  by a second goroutine, and written to each subscriber by a third, with a bounded
  channel in between. The broadcaster's lock is held for reading by broadcasts and
  for writing by registrations and deregistrations. The browser puts live events in
  front of a list that answers to `GET /requests` replace; nothing orders the two.
  The CLI hands events through two more bounded channels to a single worker.
- Creating a user, a link, an endpoint and capturing a request each read and
  write in separate statements; unique columns are the only arbiters between
  requests that overlap. `last_used_at` is written by a goroutine the request
  does not wait for. A login of the CLI gets its token from a browser tab that
  may have been opened for another login.

Hard behaviours, each listed with its line under "hazards" in `PROJECT.json`:
a failure between the claim and the effect; retries of what has already been
done; staleness checks that are true when read and false when used; two ids for
one subscription; a row written back as it was before a provider call; a period
computed by two parties; the pruning of the ledger that deduplication relies on;
a lock held while sending to slow or dead clients; a list replaced by an answer
that is older than what it replaces; two live connections where the client knows
of one; queues at their limit; a limit counted before the insert it is about;
names that change hands between lookups; secrets that change under a request
that is being judged; a port that comes back.

## 2. Modules

| Module | Models |
|---|---|
| `Entitlements` | plans, entitled statuses, the grace periods, `IsActive` |
| `Providers` | the payloads of Paystack and Lemon Squeezy and what `HandleWebhook` makes of them: which are acted on, status words, periods, timestamps |
| `BillingStore` | the tables `subscriptions` and `billing_events`, one operator per SQL statement, the day counter, the kinds of faults |
| `Webhook` | the delivery path; composes with the store; states the properties of deliveries |
| `EventLedger` | abstract specification: new, claimed, applied, settled or dropped, per payload |
| `Checkout` | `VerifyPaystack` |
| `Cancellation` | `CancelSubscription` |
| `Billing` | composition of the three on one store; a crash takes all of them down |
| `Feed` | the server half of the live feed: inbox handler, `Broadcaster`, the goroutine of an event stream, the network, crashes |
| `Viewer` | the browser: `useRequestFeed` and the parts of `App.tsx` that drive it; composed with `Feed` |
| `Listener` | the CLI: `runListen`, `Stream`, `Forwarder`; composed with `Feed` |
| `Relay` | abstract specification: one line that each request joins once, what has been read is forwarded in order or reported as dropped |
| `Backend` | what the account side shares: the clock and the kinds of faults |
| `Limits` | both rate limiters and their cleanup |
| `Quota` | abstract specification: a bucket that fills all the time and is never forgotten |
| `SignIn` | `RequestLink` and `VerifyLink` on `users` and `magic_links`; uses the window of `Limits` |
| `ApiTokens` | minting, revocation, the middleware, `last_used_at`; uses the window of `Limits` |
| `Login` | `hookdrop login` and `logout`, the page that authorizes, the callback; composed with `ApiTokens` |
| `Endpoints` | creation under the plan, deletion, sessions, `ResolveIdentifierForUser` |
| `Inbox` | the statements of a capture, signing secrets and `verify.Verify`, who reads a request; composed with `Endpoints` |
| `Access` | composition of the account side on one clock, as `main.go` wires it |
| `MCWebhook`, `MCBilling`, `MCViewer`, `MCListener`, `MCAccess` | instances |
| `WebhookProofs`, `BillingProofs`, `FeedProofs`, `ViewerProofs`, `ListenerProofs`, `AccountProofs`, `InboxProofs`, `AccessProofs` | theorems |

### State and actions: billing

`subs[u]` is the row of user u (`stored = FALSE` where there is none; the record
then holds what `GetSubscription` returns by default). `ledger[k]` is the
`billing_events` row of key k. A key is a payload (the code hashes its bytes) or a
Paystack reference (the code hashes it with a prefix). `hook[h]` holds the local
variables and the program counter of a goroutine in `handleWebhook`, `verify[c]` of
one in `VerifyPaystack`, `cancel[c]` of one in `CancelSubscription`. Every action is
one store statement or provider call and the Go code up to the next one, so TLC
interleaves requests exactly where the program can be interrupted. `acked` is
what providers have been told; `verdict`, `granted`, `told200`, `stopped`, and
the field `after` of a delivery are history that the properties speak about and no
action reads, except that a provider does not repeat a payload it has been
acknowledged for.

Webhook, step by step: `Deliver` (signature, parsing, event key), `Record` (the
insert; a duplicate or an event nobody acts on is answered 200), `CheckOrder`
(`LatestProcessedEventAt`), `ResolveBySub` and `ResolveByCustomer`
(`resolveWebhookUser`), `ReadPeriod`, `ReadTrial`, `ReadRenewal` (values carried
over), `Apply` (the upsert), `Mark` and the reply. `StoreError` is the 500 after a
failed statement; the reads whose error the code ignores have the ignored outcome
in their own action.

*Abstractions.* Time is a day counter; a date is a day and 0 is "no date". Ids,
users and payloads are model values or strings of small sets. Signatures and
malformed bodies are left out: they are refused before anything is stored. Currency
and the interval column are left out: no property reads them. `VerifyPaystack`'s
first six checks are a guard over a constant answer of Paystack. The customer code
it makes up where Paystack gives none is the reference itself: no webhook names it.

### State and actions: live feed

`received` orders the requests by `received_at`, `stored` is the `requests` table.
`capture[r]` is how far the two goroutines of r have come, and `todo[r]` the clients
its broadcast has yet to visit. `conn[c]` is a connection: its goroutine's phase,
whether the peer is still there, the stream it is registered for, the client's
`Send` channel and what the network holds.

Server: `Receive` (endpoint found, body read, time taken), `Save` (`SaveRequest`, or
the 500), `BeginBroadcast` (the read lock and the set of clients) and `SendTo`
(one turn of the loop: a full channel is skipped). Several broadcasts can hold the
read lock, so their turns interleave; `Register` and `Deregister` wait until none
holds it. `Write` is the `case payload` of the select, `Exit` the `ctx.Done()`, and
`Deregister` the deferred call. `Crash` leaves the table, `Break` loses a connection
without the server's knowledge until its goroutine notices.

Browser: `page` holds the hook's state, `fetch` its calls to `GET /requests`.
`OpenStream`, `CloseStream` and `SetFilter` are what the two effects do when their
dependencies change: both fetch, only the first closes and opens the
`EventSource`. `Answer` is the query, `SetRequests` the replacement of the list,
`OnEvent` the handler, which keeps the filters of the render that made it.
`Reconnect` and `Refused` are the `EventSource`'s own.

CLI: `Connect`, `Dispatch`, `StreamEnds`, `Waited` and `Refused` are the connection
loop and `Stream`; `Render` is the renderer and `Enqueue`; `Take` and `Deliver` are
the worker. `forwarded` and `dropped` are history. The line of `Relay` is made of what
lies between server and target: `Fresh` are the requests whose broadcast has not begun
or has yet to visit the connection in use, `Coming` is what network and channel hold
of that connection, and `InHand` is the worker's request, the queue and the
renderer's channel, in this order.

*Abstractions.* A request is its id and the stream it is sent to; the names an
endpoint goes by are one stream. The page's list is split into live events and
the rows of the last answer: their order inside an answer is that of the column.
The network holds `WireCap` events of a connection. The watchdog of the CLI and a
failed read are one action, `StreamEnds`. Keep-alives change nothing. Left out: the
count shown beside the list, the connection indicator, rendering, and what the
local target answers. The verdict on signatures, and the statements of a capture one
by one, are in `Inbox`.

### State and actions: accounts and inbox

Limiters (`Limits`): `buckets[c]` and `attempts[k]` are the entries of the two
maps. `Allow` and `AllowKey` are the methods, each under its mutex, so each is one
step; `CleanupBuckets` and `CleanupWindows` are turns of the tickers. The code's
tokens are floats: here a request costs `Cost` parts and a tick brings `Refill` of
them, which is exact. `BucketAssumption` says that an idle bucket is full by the time it is
forgotten; both limiters of `main.go` satisfy it with their default settings. `allowed` is history.

Sign-in (`SignIn`): `linkReq[r]` is a goroutine in `RequestLink`: the limiter, the
SELECT and INSERT of `GetOrCreateUser`, the UPDATE and INSERT of
`CreateMagicLink`, the mail. `click[v]` is one in `VerifyLink`: the SELECT and the
UPDATE of `ConsumeMagicLink`. `signIns` and `stranded` are history, and so is the
flag `late` of a click: a sign-in with its link had been answered before it came.

Tokens (`ApiTokens`): `Mint`, `Revoke`, `RevokeAll` are the handlers; `Arrive`,
`FindToken`, `FindOwner` the middleware; `Touch` the goroutine that writes
`last_used_at`, at any time later. `admitted` and `ran` are history.

Login (`Login`): `login[g]` is a run of the command with the port it listens on and
its channel, `tab[b]` a browser tab with a link, `stored` the configuration file.
`Listen` to `SaveToken` are the command, `OpenLink`, `Authorize` and `Callback` the
page and the request it makes. A port is free again when its login stops
waiting. `opened` and `taken` are history.

Endpoints (`Endpoints`): `create[k]` goes through count, slug check and insert,
`read[d]` through the four lookups of `ResolveIdentifierForUser`. `Names` holds
slugs and session ids alike, since a slug can look like a session id. The id of an
endpoint is a full UUID and never drawn twice (`issued`). That of a session is eight hexadecimal
digits (`session.go:24`), which the primary key compares with existing rows only, so
`CreateSession` may draw an id again once `DeleteExpiredSessions` has purged its row. Foreign
keys are not enforced (SQLite's default), so a deletion takes nothing with it: the requests
of a purged session stay. `holders` and `wasPro` are history. `ChangePlan` is all that is
left of billing here.

Inbox (`Inbox`): `capture[r]` goes from the endpoint or session over its secrets to
the insert. A header holds the secret it was signed with, or `Forged`. `Verify` is
the loop over the secrets, in any order of the rows; `GenericHeader` is the search
through the candidates. `WriteSecret` is the upsert or the DELETE, which names
endpoint and provider and not a row. `some`, `always`, `blind` and `owner` of a capture,
and `shown`, are history.

`Access` puts these together: a step of the account side is one of the limiters,
of sign-in, of tokens and login, or of the inbox. Sign-in and minting take their
turn at a limiter in their own steps. The bucket in front of `/i/` and `/auth/request`
takes its turn in a step of its own, before the handler's first.

*Abstractions.* Addresses are trimmed and in lower case. Hashes are the values they
stand for; a JWT is stateless and ends the model of a sign-in. Slug syntax and
headers other than signatures are left out.

## 3. Runs

| Run | Instance | Shows |
|---|---|---|
| `webhook` | 2 goroutines, 1 user, 3 Lemon Squeezy payloads (trial created, cancelled without user, expired), failing statements, lost replies, crashes, days 1 to 4, retention 2, retries for 1 day | type invariant; `AppliedOnce`; `ProcessedWasApplied`; `EntitledPlan`; `ImplementsLedger` |
| `webhook_live` | 2 goroutines, 4 Paystack payloads (create, disable, failed invoice without user, a charge of another plan), no faults | `NoReplayOverSettled`; `PeriodKnown`; `ClaimIsDecided` |
| `billing` | 1 delivery, 2 verify requests of one reference, 1 cancel request, store and provider failures, crashes, days 1 to 3, retention 1 | `GrantsAreSpaced`; `CancelledIsStopped`; `AppliedOnce` and `EntitledPlan` with everything running |
| `viewer` | 1 browser, 2 connections, 3 calls, 2 requests of one stream and a second stream to switch to, channels for one event, answers of one row; failing stores, a network that breaks, crashes | type invariant; `ShownWasStored`; `ShownAtMostTwice`; `LiveIsOfPage` |
| `viewer_live` | 2 requests, 2 filters, channels for two events, failing stores, crashes, refused streams | `SettledShowsNew` |
| `listener` | 1 CLI, 2 connections, 2 requests, every channel and queue with room for one, backoff of 1 or 2, a network that breaks, streams that are refused | type invariant; `ForwardedOnce`; `DroppedIsNot`; `ImplementsRelay`; `BroadcastEnds`; `HungUpIsForgotten`; `ReaderGoesOn`; `QueueIsWorkedOff` |
| `access` | seven small instances, see below; failing statements and mails | `AccessTypeOK`; `HourBound`, `ImplementsQuota`; `LinkSignsInOnce`, `NewestLinkIsOpen`, `AddressIsOneAccount`; `LateIsRefused`, `LastUsedIsFresh`; `TokenOfOwnTab`; `OverrunIsBounded`; `ReadByOwner`; `VerifiedWasSigned`, `SignedIsVerified` |
| `webhook_scope` | 1 goroutine, no faults | violation, finding 1 |
| `webhook_retry` | 1 goroutine, store failures | violation, finding 2 |
| `billing_answered` | 1 verify request, crashes | violation, finding 3 |
| `billing_renewal` | 1 verify request, no faults | violation, finding 4 |
| `viewer_lost` | 1 request, no faults, a user who only watches | violation, finding 5 |

Bounds of the billing runs. Two goroutines of a kind are enough for every race of the code, since no
step looks at more than one other request's effect. One user suffices for
these properties: rows are keyed by user and the ledger by payload. The days are
as many as it takes for a payload to be recorded, retried, settled and pruned, and
for a row to expire. `RetryWindow < Retention` is an assumption of the module: the
code's comment on `BillingEventRetention` says "far beyond either provider's retry
window". `Tick` lets at most one midnight pass while a request is in flight: requests
take seconds. `MaxDay` stops the clock, after which the system may rightly stop:
deadlock is not checked.

Bounds of the feed runs. Two connections are the one in use and one the server
still believes alive; a third could only repeat the second. Two requests let one
broadcast overtake another and fill a channel of one. Three calls are the two of
opening a stream and one left over from the stream before. Calls and connections
are interchangeable, and so are requests of one stream; `viewer`, which has no liveness property, uses that
symmetry. `listener` leaves crashes and failing stores out for size: the theorems
cover them, and `viewer` checks the same server with them. The system may stop once
every request is captured, so deadlock is not checked; that nobody waits for
ever is what the leads-to properties say.

The run `access`. Limiters, sign-in, tokens, logins, endpoints and captures share no
state but the clock, and a limiter each, so interleaving them would multiply the
states. TLC checks them side by side; that each keeps its promises with the others'
statements in between is proved (`AccessProofs`). The variable `part` says which one a behaviour is about, and
the others' variables stay as they are:

| Part | Ticks | Instance | Properties |
|---|---|---|---|
| `limits` | 6 | 1 address, 2 tokens of 2 parts, 1 part a tick, forgotten after 4; 1 key, 2 an hour of 1 tick | `HourBound`, `ImplementsQuota` |
| `signin` | 2 | 1 address, 2 accounts, 2 requests, 2 clicks, 3 links of 1 tick | `LinkSignsInOnce`, `NewestLinkIsOpen`, `AddressIsOneAccount` |
| `tokens` | 3 | 1 owner, 2 tokens for 2 ticks or for ever, 2 requests, a gap of 1, one attempt to mint | `LateIsRefused`, `LastUsedIsFresh` |
| `login` | 0 | 2 logins on one port, 2 tabs, 2 tokens | `TokenOfOwnTab` |
| `plan` | 0 | 2 users, 2 creations, 2 names, 2 ids, plans that change | `OverrunIsBounded` |
| `names` | 2 | 2 users, one creation at a time, sessions of 1 tick whose id is drawn again after the purge, one without owner, 1 request, 1 reader | `ReadByOwner` |
| `secrets` | 2 | 2 endpoints of one user, 2 secret values, Stripe and generic, 1 writer, either of 2 requests, a Stripe timestamp good for 1 tick | `VerifiedWasSigned`, `SignedIsVerified` |

Two goroutines are enough for every pair of statements to be torn apart; the ticks
suffice for a bucket to fill, be forgotten and be used again, for two windows to
follow each other, for links, tokens and sessions to expire while they are in use.
One address and one key suffice because rows and entries of different ones
never meet; two addresses matter for `AddressIsOneAccount`, whose theorem has any number.
All these are safety properties: no fairness is assumed.

Four of them state what the code keeps where its comments say more.
`LinkSignsInOnce` is about clicks that come after an answered sign-in: two clicks
that overlap both find the link unused and both sign in. `HourBound` is what fixed
windows give: up to one less than twice the limit in an hour that straddles two of
them, where the comment speaks of a sliding hour. `OverrunIsBounded` allows as many
endpoints over the plan as creations can overlap, less one: the count and
the insert are statements apart. `ReadByOwner` leaves out one case. "owned sessions only to
their creator" (`store.go:647-648`) is kept for the rows of `sessions`, but a session id
that is drawn again after the purge shows its new owner the requests captured under it for the
old one. The property says that this is the only way to see a request of
another account: two accounts that have held the same session id in turn (`Shared`).
It is exact: without that exception the run `access` fails, on a session that
expires, is purged and whose id goes to the other user.

The properties that carry a history condition say so: `NoReplayOverSettled` is
about payloads delivered after the newer one was settled. For overlapping
deliveries the code's check and its write are separate statements, and nothing
in the source promises an order.

Fairness, billing. `Spec` assumes weak fairness of `HookStep(h)`: a goroutine that has been
given a request runs to its end, which the Go scheduler provides. Nothing is
assumed of providers, users, the clock, the cleanup or of faults.
`ClaimIsDecided` is checked without faults; with them it is false, which is what
finding 2 is about. `PeriodKnown` and `NoReplayOverSettled` do not survive failing
statements either: the read that carries the period over ignores its error, and a
failed mark, which is only logged, hides an event from the ordering check.

Fairness, feed. Weak fairness of each goroutine of the server (`CaptureStep`,
`ConnStep`) and of the client's loop, reader and renderer: the Go scheduler runs
them, and they wait for locks and channels only, which is what is to be
checked. In the browser `OnEvent` is weakly fair: the event loop gets to events that
have arrived. Nothing is assumed of users, answers, reconnections, the
network or the local target. The worker is not fair, since it waits for that target;
`QueueIsWorkedOff` has its fairness as a hypothesis, which the timeout of the HTTP
client justifies, and `ReaderGoesOn` holds without. `SettledShowsNew` takes channels
with room for all requests: a full channel loses an event, by design.
`ShownAtMostTwice` says two because the code does not filter a live event that an
answer already brought.

### Findings

1. The ordering check is scoped by the id an event happens to name
   (`billing.go:224-229`), so a charge older than a settled disabling revives the
   subscription, against `billing.go:258-260`.
2. A 500 asks for a retry (`billing.go:283`), and the retry is absorbed as a
   duplicate because the claim is kept.
3. `VerifyPaystack` claims a reference before it grants the period; after a crash
   between the two, retries are answered 200 and grant nothing, against
   `billing.go:539-540` and `billing_test.go:901`.
4. The `charge.success` of an early renewal overwrites the stacked period
   (`paystack.go:405-407`, `billing.go:353-356`), against `billing.go:615-617`.
5. An answer computed before a request was stored replaces the list after its live
   event was shown (`useRequestFeed.ts:20`): the request is stored, broadcast and
   gone from the page until something fetches again, against "it shows up here
   instantly. No refresh" (`tourSteps.ts:35`).

A comment the code has outgrown, with no run of its own. `billing.go:731-733` ("If it
fails, we still honour the cancellation intent in our DB") and `billing.go:768-769` ("For
Paystack this is intent-only (the API call above is best-effort)") say that a failed
Paystack call still marks the row as cancelled, and line 756 implies it. The code answers 502 and
returns with the row untouched (`billing.go:739-744`), for Paystack as for Lemon Squeezy;
only a row without a `SUB_` code is cancelled locally. `Cancellation` follows the code, and
`CancelledIsStopped` says what the code thereby gives, which is more than these comments promise: its
mutant `CallProviderBestEffort` is what they describe.

`CancelledIsStopped` compares the row with the provider. It does not say that nothing is lost
when a cancel request writes back the row it read before the call: a webhook or verification
that lands meanwhile is overwritten.

## 4. Proofs

Assumed: the ASSUMEs of the modules, which type the constants, and three that say
more: `RetryWindow < Retention`, `BucketAssumption` (an idle bucket is full when
it is forgotten) and `CreatorsAssumption` (finitely many goroutines). What a theorem needs
beyond these is a hypothesis in its statement. Nothing bounds the number of users,
goroutines, payloads, references or days.

- **The claim argument** (`WebhookProofs`). `AppliedOnce` is not inductive: what
  keeps a payload from a second application is that its ledger row outlives every
  request and every retry. `ClaimInv` adds to the types: a busy goroutine has a
  payload (`BusyKey`) and, past resolution, a user (`UserFound`); a goroutine past
  the claim has its key recorded and undecided (`ClaimOwned`); no two of them
  have the same key (`OneOwner`); a delivery started at most a day ago and within
  the retry window (`InWindow`), and its record is no older than it
  (`RecordedSince`), so pruning cannot take it; a decided payload stays recorded
  as long as it can be repeated (`DecidedIsKept`). From it follow
  `ProcessedIsApplied` and `AtMostOnce`.
- **Refinement** (`WebhookProofs`): under `ClaimInv` every step of the path maps to a
  step of `EventLedger` or leaves `Stage` alone.
- **Order** (`WebhookProofs`). `SettledIsNotReplayed` proves `NoReplayOverSettled` from
  `OrderInv`: a goroutine's event and a ledger row have the object and date of their
  payload (`HookOrder`, `RowOrder`), and a settled payload stays recorded and processed
  until nobody sends an older one any more (`SettledCounts`); so the ordering check of a
  late delivery finds it. It has two hypotheses. Statements do not fail: a mark that
  fails is only logged, and hides its event from the check for good. And providers
  first send what happened first (`SentInOrder`), since the ledger forgets after
  `Retention`. Crashes and lost replies are allowed.
- **What a 200 stands for** (`WebhookProofs`). `DealtInv`: a payload that is recorded or
  acknowledged has been decided about, or its claim is held by a running request. Hence
  `AckedIsDecided`, and `AckedIsHandled` for `AckedWasHandled`. The hypotheses are what finding 2
  violates: no failing statement, no crash. The second also takes payloads that
  name their user (`NamesItsUser`): one whose user is not found is acknowledged and dropped.
- **Rows** (`BillingProofs`): `PlanIsEntitled` needs only the types. `PeriodIsKnown` has
  two hypotheses, stated in the theorem: no store failures (with one, the ignored
  error of `ReadPeriod` stores a nil period) and that a payload without a period
  names no user, so that a row existed when its user was found.
- **The composition** (`BillingProofs`): the invariants above are kept by verify and
  cancel requests; `ReferenceBuysOnce` proves `GrantsAreSpaced` from `GrantInv`: a
  request about to grant owns the recorded reference (`ReferenceOwned`), alone
  (`OneCaller`), since at most a day (`VerifyWindow`), and a reference granted
  within the retention is still recorded (`GrantIsKept`).
  `BillingSettledIsNotReplayed`, `BillingAckedIsHandled`, `BillingPeriodIsKnown` and
  `BillingRefinement` carry order, acknowledgements, periods and the ledger over to the
  whole subsystem; for the periods a cancel request also holds a row with a period
  (`HeldPeriod`).
- **Paid is granted** (`BillingProofs`): `AnsweredHasPeriod` proves `AnsweredIsGranted` from
  `PaidInv`: a reference that is recorded or answered has bought its period, or a running
  request is between its claim and its row. The hypotheses, no failing statement and no
  crash, are what finding 3 violates; tabs, retries and pruning are arbitrary.
- **Cancellations** (`BillingProofs`): `CancelledRowIsStopped` proves `CancelledIsStopped`
  across the write-back of a row that was read before the provider call. `StopInv`
  adds that an event under way that ends a subscription still carries its payload's
  id (`EndHeld`), and that a cancel request about to write has reached the
  provider, where there is one to reach (`StopHeld`). Its hypothesis `EndsNameTheirs` is a fact
  about the providers: an event that ends a subscription says which one.
- **The feed** (`FeedProofs`). Neither "at most once as a live event" nor "forwarded
  once" is inductive: both depend on what the server may still send. `FeedInv` says
  that a request is at most once on its way to a connection (`ConnInv`), only if its
  broadcast has passed that connection (`PipeInv`), and that a broadcast has only
  registered connections left to visit (`BroadcastInv`). `Gone(r, c)` is stored,
  passed, and not on its way: nothing will bring r to c's peer any more.
  `FeedStep` shows that every step keeps the invariant and that `Gone` is for good,
  `FreshGone` that it extends to every connection yet to be opened, and `ReadStep`
  that reading a request makes it gone.
- **The page** (`ViewerProofs`). `ViewerInv` adds that answers are made of stored rows
  and that live events are without repetition and gone for the page's source, so a
  reconnection or a switch cannot bring them again. `LiveOfPage` proves `LiveIsOfPage`
  from two further invariants: whatever is on its way to a connection is of the stream it
  was opened for (`StreamInv`), and a source that is alive is of the page's stream
  (`SourceInv`).
- **The client** (`ListenerProofs`). `ListenerInv` adds that a request is in one place
  of the client only (`PlaceInv`: channel, queue, worker, forwarded or dropped) and
  that whatever it has is gone for its connection (`HeldInv`).
- **The client as one line** (`ListenerProofs`). `ListenerRefinement` proves `ImplementsRelay`,
  one lemma to a step of server, network and client, under `RelayInv`: `ListenerInv`,
  `StreamInv`, and that a connection in use is of the stream listened to (`SourceInv`). A broadcast
  that finds room joins the line, one that does not passes the request over, for
  good since `FeedStep` keeps `Gone`. What is lost with a connection was in the line and
  not yet read. Lemmas about sequences say how the three parts of `InHand` move as one.

The theorems about the feed hold for any number of requests, streams, connections
and calls, any capacity and every fault, crashes included.

- **Limiters** (`AccountProofs`). `QuotaRefinement`: the level of a bucket, refilled when
  it is looked at and forgotten when idle, is at every step that of the bucket of `Quota`. It
  needs `BucketAssumption`. `HourBoundSafe`: `HourBound` is not inductive, since it
  says nothing of where the current window stands. `Fits` ties the counter to the
  history: the last `count` requests began with the window, and the request `max` back
  from that one, and any `2 * max - 1` back from any, is more than an hour older.
- **Accounts** (`AccountProofs`). `SignInInv`: one account to an address, a request
  that has got as far as a link holds the account of its own address, a link that has
  signed somebody in is used, and a click that came late never gets past the check;
  hence `LinkOnce`, `NewestOpen` and `OneAccount`. `TokenInv`: a request past the lookup was
  not late, revocation and expiry are for good, and the last use noted is within the gap of
  the one written; hence `LateRefused` and `LastUsedFresh`. `LoginInv` follows a token from the page that minted it to the
  tab, the channel and the login that takes it; hence `OwnTab`.
- **Inbox** (`InboxProofs`). `PlanInv` counts endpoints and creations past the limit check
  together (`OverrunBounded`; it needs `CreatorsAssumption`, that the goroutines are
  finitely many). `ReadInv`: the id of an endpoint has one owner for good, and whoever owns
  something under a session id has held it (`OneOwner`), so what a reader has resolved
  stays true until it fetches (`ReadersOwn`). Nothing is assumed of session ids: the
  exception of `ReadByOwner` is in the theorem too. `CaptureInv` relates a verdict to
  the secrets there have been since the lookup (`VerifiedSigned`, `SignedVerified`).
- **All together** (`AccessProofs`). Every step of `Access` is a step of the limiters, and of
  the inbox, or leaves them alone, the clock included: `AccessKeepsParts` gives the
  composition all that is proved of these two, the refinement of `Quota` too. The invariants of
  sign-in, tokens and login say nothing of the limiters' entries and survive the clock, so
  they hold in every interleaving: `AccessSafe` has the eleven invariants,
  `AccessTypeCorrect` the types.

The theorems about the account side hold for any number of users, addresses, tokens,
tabs, names, secrets and goroutines, for any limits and lifetimes, and with every
statement failing.

Model-checked only, since liveness under fairness is out of the prover's reach:
`ClaimIsDecided`, `SettledShowsNew`, `BroadcastEnds`, `HungUpIsForgotten`, `ReaderGoesOn`
and `QueueIsWorkedOff`. Of the five violated properties, two are proved under hypotheses that
exclude the violation (`AckedWasHandled`, `AnsweredIsGranted`); for
`NoReplayOverSettledCustomer`, `RenewalKeepsDays` and `StoredIsShown` there are only the
counterexamples.

## 5. Not modelled

`PROJECT.json` gives the status of every component. Left out, and why:

- **The repair pass** (`repair.go`): a tool run once by hand for rows from before a
  fix. It would be one more writer of `subscriptions`, and nothing in the source says
  which of two writers should win, so there is nothing to check it against.
- **Replay**: one outbound request per call, no state. Whose request it may be is the
  resolution in `Endpoints`.
- **Checkout and portal creation**: a provider call that stores nothing. What it starts
  comes back through webhooks and `VerifyPaystack`.
- **A second subscription of a user, two accounts of one provider customer**: the
  model allows both; the source has one row per user and says nothing of them.
- **JWT, HMAC, JSON, HTTP, e-mail**: stateless, and modelled by what they let through:
  a signature by its secret, a mail by its arrival, a token by its row.
- **Of the inbox and the feed**: deleting captured requests, the count beside the list,
  the connection indicator, slug syntax.
- **Of the CLI**: choosing an endpoint and a target, environment variables that override
  the configuration file, its permissions, output.
- **`IsActive`**, which two read-only handlers ask (`me.go:40`, `billing.go:47`), is
  translated in `Entitlements` and used by no action.
- **Dashboard components, styling, health, CORS, deployment and release scripts**: no
  state the properties speak about.
