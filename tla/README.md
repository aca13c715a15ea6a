# Wonderwall in TLA+

Wonderwall is a reverse proxy and OpenID Connect client that runs as a sidecar
of an application. It logs users in at an identity provider, keeps their tokens
in a server-side session, renews the tokens, and proxies requests with an access
token. This directory holds TLA+ models of its core, TLC configurations that
check them on small instances, and TLAPS proofs of the central results for every
instance. `PROJECT.json` is the machine-readable index: which definition models
which lines, which run checks what, and which hazards the properties answer.

## 1. Inventory

| component | state it keeps | operations | interacts with |
|---|---|---|---|
| session metadata (`pkg/session/data.go`) | created, ends, timeout, expiry and refresh instants of a session | decide on expiry, inactivity, cooldown, next refresh; report them | used by the handler and the session endpoints |
| session handler (`pkg/session/handler.go`) | none of its own | Create, Get, GetOrRefresh, Refresh, Update, Destroy | store, lock, provider |
| stores (`store_redis.go`, `store_memory.go`) | key to encrypted session, with a TTL in Redis | Read, Write, Update, Delete | shared by every replica (Redis) or private to one (memory) |
| refresh lock (`lock.go`) | `<key>.lock` with owner token and TTL; nothing in the no-op lock | Acquire, Release | Redis |
| session endpoints | none | GET /oauth2/session, POST /oauth2/session/refresh | handler |
| reverse proxy with auto-login | none | proxied request, redirect to login | handler, browser |
| login, callback | login cookies (two copies) and session cookie in the browser | start an authorization request, redeem its code, create the session | browser, provider, handler, loginstatus |
| logout (global, local, front-channel, callback) | none | destroy the session, clear cookies | browser, provider, handler |
| error handler (`pkg/handler/error`) | retry cookie in the browser | retry by redirect, or error page | every endpoint |
| loginstatus | its cookie | exchange of a token, presence test | login callback, proxy |
| OpenID client | none | authorization code and refresh grants | provider |
| JWKS provider | cached keys, a mutex, instant of the last refresh | Get, Refresh under a rate limit | login callback, provider |
| retries (`pkg/retry`) | a shared backoff value | retry until success or timeout | store, provider |
| ingresses, routes and URLs | configured ingresses | match host and path, canonical redirect, callback and login URLs, paths of cookies | every endpoint, browser |
| configuration, server, crypto, metrics, templates | start-up input | | |

What is hard about this system:

* *Concurrency on one session.* Tabs, background requests and replicas handle
  requests of one session at once. A refresh token that the provider rotates may
  be presented only once, so refreshes must exclude each other, and a request
  that waited must not act on what it read before waiting. `Update` of the Redis
  store is two commands.
* *Failure.* Redis and the provider may fail before or after applying a command;
  calls are retried; a replica may die with the lock in its hands; a holder may
  be slower than its lock.
* *Time.* Token expiry, refresh leeway, cooldown, inactivity, session lifetime,
  lock TTL and the wait for the lock all run at once.
* *State in the browser.* A login is spread over several requests whose state
  is in cookies that all tabs share and that responses overwrite in any order.
  Errors redirect to the login endpoint; only a counter in a cookie ends that.
* *Names.* A page, its ingress, the callback URL and the cookies of a login must
  agree on host and path, although each request is matched anew, by string
  prefixes and in the iteration order of a map.
* *Keys that change.* The provider rotates its signing keys while callbacks of
  several users share one cache behind a mutex and a rate limit.

What makes the components correct: refreshes exclude each other and present each
refresh token once; no refresh is lost; a session that was logged out, has timed
out or has reached its end does not come back; what the endpoints announce is
what happens; every request is answered; every journey of a tab comes to rest,
on the page asked for, within the retry budget; a key rotation costs few logins;
a session is stored where a front-channel logout finds it; cookies are set,
cleared and sent for the same path.

## 2. Modules

| module | models | used by |
|---|---|---|
| `SessionData` | arithmetic of `data.go`, as pure operators of an explicit instant | the next two |
| `SessionLifecycle` | one session, its reports and its refreshes against the clock | `MCSessionLifecycle` |
| `SessionHandler` | concurrent requests on the handler, a store, the lock and the provider | `SessionRefinement` |
| `AtomicSession` | abstract: a session as one object, without requests, lock or store | `SessionRefinement` |
| `SessionRefinement` | the mapping by which `SessionHandler` implements `AtomicSession` | `MCSessionHandler` |
| `LoginFlow` | tabs of one browser through login, callback, logout and error retries | `MCLoginFlow` |
| `Redemption` | concurrent callbacks redeeming codes, the key cache and session IDs | `MCRedemption` |
| `Routing` | ingress matching, routes, callback URLs and the paths of cookies | `MCRouting` |
| `SessionDataProofs`, `SessionLifecycleProofs` | facts about the arithmetic; the properties of `SessionLifecycle` | |
| `SessionHandlerProofs` | types of `SessionHandler`, and the lock | the next two |
| `StoredSessionProofs` | what becomes of a session: logouts, lifetimes, roll-backs, inactivity, stale answers | `RefreshTokenProofs` |
| `RefreshTokenProofs` | single use of refresh tokens; the refinement of `AtomicSession` | |
| `LoginFlowProofs`, `RedemptionProofs`, `RoutingProofs` | the properties of the module each is named after | |

`MC*` modules name the request sets and values of the runs. Definitions whose
name says what they get wrong and whose comment starts with "Mutant" are
plausible mistakes in the definition that follows them; no specification uses
them, they serve to test that the properties can fail.

### SessionData and SessionLifecycle

`Metadata` is the Go struct with its two parts flattened. Every method that
calls `time.Now()` takes the instant as a parameter. Instants are integers;
`TicksPerSecond` is the grain of the clock, so that the truncation in
`toSeconds` is visible. The zero time is 0 and the clock starts at 1.

In `SessionLifecycle` one session is created by `Login`, read by `Session` (which
keeps the last report, to be compared with what happens later), and refreshed by
`AutoRefresh` (guard `ShouldRefresh`) or `ManualRefresh` (guard: not on
cooldown), neither of them once the session has timed out; `Tick` advances the
clock. `RenewableBeforeExpiry` leaves that one exception: a token that outlives the
inactivity timeout may expire unrenewed.

### SessionHandler

A request is handled once and has a kind: `login`, `proxy`, `info`, `refresh`,
`logout` or `frontchannel`. `pc` is the command it will issue next:

    read -> acquire -> reread -> grant -> update -> set -> release -> done
    read -> delete -> done              write -> done

Each step is one command to Redis, to the lock or to the provider together with
the local computation up to the next one, which is the grain at which replicas
interleave. `update` and `set` are the two commands of `redisSessionStore.Update`;
the memory store, too, reads and then sets, under its mutex each, and `Set` has a
case for it. Every
command has a failing variant: not applied, or applied with the reply lost, and
in both cases retried or given up. An `Obtain` whose reply was lost and that the
Redis client repeats finds its own entry, so that the request waits for it to
expire (`AcquireFails`). `Crash` ends a request anywhere; `Restart`
empties the memory store. `seen` is what `GetOrRefresh` read before it called
`Refresh`, `work` what is read under the lock or about to be written, `timer` the
end of the wait for the lock and afterwards the end of the lease. `Timely` lets
the clock pass neither: the wait is a timer of the handler, and a holder ends
within its lease unless "slow" is among the faults.

The provider is external: `idpRT` is the generation of the refresh token it
accepts for each login. A successful response rotates the token, keeps it,
leaves it out, or is empty; another generation is answered with 4xx.

Ghost variables: `target` is the login that a logout request found in the store
on arrival, `loggedOut` the logins whose logout was answered with success, and
`raced` those that an `Update` was about to write at that moment.

Abstractions: encryption and JSON are left out, since ciphertexts are never
compared; one clock serves replicas, Redis and provider; the number of retries is
any number. The session ID is any key, so two logins may share one, as they do
when the provider sends the same `sid`.

### AtomicSession and SessionRefinement

`AtomicSession` is what the rest of the program assumes of a session: it is made
once per login, refreshed in one step from the token that the provider accepts to
the one it has moved on to, and ended for good. `SessionRefinement` maps
`SessionHandler` to it. A refresh takes effect in the step in which the provider
answers: from then on `Session(k)` is the data that the refreshing request holds,
as long as its `Update` can still find a session in the store, and once `Update`
has read one, whatever happens. `Orphan` is the answer to a request whose session
was removed during the grant. The mapping is for one login per key, Redis, and no
failures: a second login under the same `sid` may be overwritten by an `Update`
in flight, and an `Update` that fails after its grant leaves a token that the
provider no longer accepts, so neither is an atomic session. The abstract
specification has no inactivity and allows every refresh that the code allows and
more; that the code refreshes only when due is checked elsewhere.

A logout that hits the window between Read and SET maps to a stuttering step: the
atomic session is still there, as it will be in the store after the SET.
That this is the only way for a session to survive is `LogoutIsFinalUnlessRaced`.

### LoginFlow

The tabs share a cookie jar. `Send` copies the jar into the request; the cookies
of the response reach the jar when it is answered, possibly after those of
another tab. `at` is the endpoint or page a tab is at, with three positions
inside the callback handler (`redeem`, `create`, `status`). State, nonce, code
verifier and code of one authorization request are made together and stand for
one another, so they are one name from `Attempts`; a name that nobody holds any
more may be used again. The counter of the retry cookie saturates one above
`MaxAutoRetryAttempts`, since it is only compared with that. The session is a
Boolean, as all logins of the user have the same `sid`; its inner steps are those
of `SessionHandler`. `Browser` is `modern`, `legacy` (drops cookies with
`SameSite=None`, for which the second login cookie exists) or `nocookies`.
Pages are redirect targets that `CanonicalRedirect` leaves as they are.
`FrontChannel` is the frame in which the provider loads the front-channel
endpoint when the user logs out elsewhere; the browser may keep its cookies
apart. `ExpireCookie` ends the lifetime of a cookie: that of the login cookie
only while the tabs wait for the user, since it lives an hour.

Ghost variables: `want` is what the user asked a tab for; `redirects` are the
automatic retries of the login or logout that a tab is in, from the user's request
or from the end of the login before (`StartCount`); `cleared` are the front-channel
logouts meanwhile that deleted the retry cookie, each of which lets the error
handler retry `MaxAutoRetryAttempts` times more (`Allowance`); `fails` are the errors
since a tab last cleared the retry cookie. The budget is one of each login: when a
login succeeds and the page finds no session again, auto-login begins another one
with a budget of its own (section 5).

### Redemption

A callback that has passed the checks of `LoginFlow` exchanges its code, verifies
the id_token with the cached keys, and on failure calls `RefreshPublicJwkSet`,
whose mutex, rate limit, fetch and update of the cache are steps of their own, so
that a rotation may come between any two. The error of a refresh is dropped and
the attempt fails in any case, as in the code: the refresh is for the next
attempt, which presents the same, already exchanged code and is refused, and so
in effect for the next login. `TryAgain` and `GiveUp` are `retry.Do` with any
backoff. `Claims` is what `Validate` and `NewSessionID` look at. `lastRefresh`
and `since` are ages that saturate at the interval, and a callback is used again
when it has been answered, so the state is finite without a bound on time or
logins. `session` is the ID of the session made last, by its origin.

### Routing

A path is a sequence of segments; `Extends` says which segments begin with which,
so that `HasPrefix` cuts a segment where `strings.HasPrefix` does, while browsers
and ingress controllers compare whole segments (`Under`). `Init` chooses a
configuration and whether the host comes in `X-Forwarded-Host`; then a browser
visits pages and logs out, is sent through login and callback by auto-login, and
keeps cookies by host and path, sent with longer paths first. Cookies are
`Secure`, as in the program's default options (browsers that treat localhost as
secure are left out). `MatchingIngress` is the set of what the iteration of the
map may return. `MaxLogins` logins in a row are a loop. An error is retried or
not, as the retry cookie of `LoginFlow` would have it. Paths below an ingress's
`oauth2` that no endpoint has, which the subrouter answers with 404, are not pages.

## 3. Runs

All passing runs check for deadlock; `Finished`, `Idle` and `Rested` are the
only ways to stop, when every request is handled, every tab shows something or
the user has done everything.

| run | what it shows |
|---|---|
| `SessionLifecycle` | reports and decisions agree: a refresh is never due before it was announced, a cooldown lasts as long as reported, tokens can be renewed before they expire, the lifetimes count from where they should |
| `RefreshTabs` | two proxied requests, a manual refresh and a logout, no failures: the requests implement `AtomicSession`; no refresh token is presented after its rotation; a session survives its logout only if an `Update` was between Read and SET |
| `RefreshFaults` | two logins with one `sid` and two refreshes, every failure but slowness: mutual exclusion, no rollback of tokens, no revival of an inactive session, and a bound on how stale the data is that a request is proxied with when its refresh fails |
| `RefreshSlow` | holders that outlive the lock as well: one unexpired lease at a time, and every request is answered |
| `FrontChannel` | without `session.refresh`, failing store and crashes: a successful logout is final, and no session outlives its end |
| `MemoryStore` | the lock that excludes nobody: the store still ends up with the accepted token, and the lifetime does not move |
| `LoginRetry` | one tab, front-channel logouts, expiry and every failure but that of the login endpoint: retry budget of each login and logout, the user lands on the page asked for, a logout stays a logout |
| `LoginTabs` | two tabs of a legacy browser overwrite each other's cookies, login cookies expire, any login or redemption may fail: both come to rest |
| `Redemption` | two callbacks, two rotations, failing token and JWKS endpoints: the cache catches up, the rate limit costs one login per outage, nobody waits for the mutex for ever, sessions are stored under the `sid` where the provider logs out by `sid` |
| `Routing` | all sets of up to three ingresses out of ten: one login brings the user to the page, with the cookie on the path of the page's ingress and no login cookie left, and a logout reaches the cookies of nested ingresses |

Two runs end in a violation. Each states what a document or comment of the
repository says and shows an execution in which the code does otherwise:

* `LifetimeRace`: the SET with KEEPTTL of an `Update` whose Read came before a
  logout's DEL or the end of the TTL creates the session again, without any TTL,
  and nobody checks `EndsAt`.
* `LocalLogoutRetry`: a failed `/oauth2/logout/local` is retried at `/oauth2/login`.

### Bounds

The constants keep the order of the real ones, scaled. In `SessionLifecycle` the
leeway 5, the minimum interval 2 and two ticks per second stand to one another as
to be distinguishable, and the token lifetimes lie on both sides of every
boundary: zero and negative, odd and even below twice the interval, at the leeway,
above it, and on both sides of the inactivity timeout of 7. In the
`SessionHandler` runs a token lives 3 ticks with a leeway of 2 and an interval of
1, so that a refresh becomes due, cools down and becomes due again (7 and 7 in
`RefreshFaults`, where a refresh is due at once and the tokens outlive every wait,
so that only timeouts bound the fallback); the wait for the lock (3) is longer
than the lock (2), so that a waiter outlives a holder. The horizon lets the
session reach its end where that matters (`RefreshTabs`, `FrontChannel`,
`LifetimeRace`), and pass its inactivity timeout by more than the lock duration in
`RefreshFaults`. Beyond the horizon only waits for the lock run out. Each request
is handled once; three or four requests after the login suffice for a holder, a
waiter with stale data and a logout between any two of their steps. In
`LoginFlow`, `MaxVisits` bounds what the user does; four visits allow a half-done
login, a logout, a front-channel logout and a login after them.
`MaxAutoRetryAttempts` is the real 3 with one tab and 2 with two; `Attempts` is
large enough that a new name always exists, or `Login` would block and the
deadlock check would tell. In `Redemption` two callbacks are a holder of the mutex
and one that waits; two rotations let the second one overtake a fetch for the
first; an interval of 2 tells a refresh at its start, within it and after it
apart. In `Routing` nested paths of depth two on two hosts, one http twin and one
path that begins both a page and the endpoints' own segment give every way in
which matching goes right or wrong; four visits let the cookies of three earlier
ones meet the last.

### Fairness

`RefreshSlow`: the scheduler runs every handler (weak fairness of each request's
own steps), time passes, and a retried `Update` ends, because the backoff of
`pkg/retry` has a maximum duration (strong fairness of its success or its giving
up). No fairness is assumed of failures, crashes or of the arrival of requests.
`LoginTabs`: browsers follow redirects, requests are answered, and a user who was
sent to the provider comes back with a code (`Authorize`, by single sign-on or by
logging in there): one who stays at the provider's page is in no redirect loop.
Nothing is assumed of what the user visits, nor of failures.
`Redemption`: handlers run, time passes and users go on logging in (weak
fairness); Go's mutex starves no waiter and the backoff has a maximum duration
(strong fairness of taking the mutex and of giving up); an endpoint that is
called again and again answers once in a while (strong fairness of `Exchange`
and `Fetch`, each for all callbacks together). The background refresh of the
library, which would make `KeysCatchUp` trivial, has no fairness.

## 4. Proofs

Every safety property that a passing run checks is also a theorem, and so is the
refinement. The proofs hold for every set of requests, tabs, callbacks, pages and
ingresses and for every configuration that the named assumptions allow; TLC
evaluates these on every run. Most say what kind of value a constant is
(`IntervalAssumption`, `SessionConfigAssumption`, `HandlerAssumption`,
`LifecycleAssumption`, `FlowAssumption`, `RedemptionAssumption`). Those named
`NoneAssumption`, and `SummaryAssumption`, say that `None` is not a value of the
kind it stands in for. `ExtendsAssumption` is what is true of "begins with" among
strings: it is transitive, and of two strings that begin a third one, one begins
the other. `RoutingAssumption` also says that no page and no ingress has a segment
`oauth2` of its own and that no ingress has the internal host name of the pod.

A theorem about part of the configurations says so with a hypothesis. These come
from the code or from counterexamples, and each holds in the run that checks the
property (but for `StoredTokenUsable`, which is proved for Redis and checked for the
memory store):

| hypothesis | meaning | why |
|---|---|---|
| `"slow" \notin Faults`, `Punctual` | holders end within the lock duration, waits when their timer fires; Redis | a holder that outlives its lock shares the session with the next |
| `NoFailures` | Redis, nothing fails | a lost answer of the provider leaves an unusable token behind |
| `[]OneLoginPerKey` | no two logins have one session key | an `Update` for the first login may replace the session of the second, after a logout that met the second; TLC shows it |
| `HonestLogout` | no logout endpoint with a failing store | such a logout ignores a failed read and answers with success |
| `ShortLease` | lock duration at most the inactivity timeout (10 s and minutes in the code) | TLC: with 4 and 2 the bound is missed, as a SET may put the session of an earlier login back that was refreshed a lease ago |
| `CookiesKept`, `LoginKept`, `LogoutRetried` | one tab that keeps cookies; logins neither refused nor left lying; only the logout endpoint that `Retry` knows | section 5, and the run `LocalLogoutRetry` |

**Metadata.** `TypeCorrect`, `Renewable`, `AfterLeeway`,
`NotEarlierThanAnnounced`, `CooldownReport` and `LifetimesKept` prove every
property that the `SessionLifecycle` run checks. The reports need a
strengthening, `ReportInv`, that relates the last report to the metadata as they
were when it was made; integer halving and truncation are confined to lemmas of
`SessionDataProofs`.

**Types and lock.** `SessionHandlerProofs!TypeCorrect` proves the types and that
`Refresh` only works on data it has read, under every fault. `LeasesExclude`
rests on `LockInv`: a request that believes in an unexpired lease owns the entry
in Redis, and the entry expires exactly when the request believes it does. One entry
has one owner, so two such requests are equal. It needs no assumption on speed.
`RefreshExcludes` assumes that holders end within the lock duration; then every
request between Acquire and Release has an unexpired lease (`LeaseInv`), and the
critical section is one, whatever else fails.

**Stored sessions.** `StoredSessionProofs` first sums the many actions up, in
`StoreFlow` (a stored session stays, disappears or is replaced by what a request
carries), `WorkFlow` (a request carries what it carried, has made, has read under
the lock or got from the provider) and a few like them. The theorems argue from
these only, and under every fault that their hypothesis leaves:

* `LogoutFinalUnlessRaced` and `LogoutFinal`. `OriginInv` traces all data and all
  logouts to the login they stem from; `LogoutInv` adds what requests between Read
  and SET carry, which is what may come back.
* `LifetimeKept` needs no hypothesis. `HistoryInv` says that all data of one login,
  stored or carried, has one creation time, and how the other instants follow.
* `SessionsEnd`: `TTLInv` ties the TTL in Redis to `EndsAt`, which needs that a
  session is written in the tick it is made in.
* `TokensNotRolledBack`: `Ahead` says that what a holder of the lock is about to
  save is no older than what is stored. The second read under the lock
  establishes it, mutual exclusion keeps it.
* `InactiveForGood`: `LeaseActive` says that a lease with new tokens ends within
  `LockDuration` of the timeout of the session it found.
* `StalenessBounded`: `StaleInv` carries such a bound through the wait for the lock
  and the lease, for the data seen before as well as for the stored data.

**Refresh tokens.** `RefreshTokenUsedOnce` and `StoredTokenAccepted` assume
`NoFailures`. `TokenInv` says that the stored token is the
accepted one unless a request is between its grant and its SET, that this
request then carries the accepted one, and that a request about to present a
token has the accepted one in its hands. Mutual exclusion is what makes it inductive: no
other request can rotate the token between the read and the grant.

**Refinement.** `Refinement` proves that the initial state and every step of
`SessionHandler` map to `AtomicSession`, under `NoFailures` and `[]OneLoginPerKey`.
`StepInv` collects what the steps need: the invariants above, that the stored
session is still the one that the holder of the lock has read (`GrantSame`), and
that a TTL ends with the session (`TTLEnds`). `SessionFacts` is `Session(k)` without
its `CHOOSE`: one request at most saves a session, by mutual exclusion. `Login` maps
to `Authorize`, `Write` to `Make`, `Grant` to `Refresh` or `Orphan`, `Tick` to `Tick`,
and `Delete` to `End`, unless the session survives or is already gone. All others
map to stuttering steps, `UpdateRead` and `Set` in particular (`StepMaps`).

**Login flow.** `TypeCorrect` includes that a callback redeems a code only with
the login cookie of its own state. `LogoutIsNoLogin` is for any number of tabs, by
an invariant (`LoggingOut`) on where a tab that logs out may be. `RetriesBounded`
compares the counts with the retry cookie, in the jar and in pending requests
(`BudgetInv`): the cookie has counted all retries but those that the front-channel
logouts have wiped out, at most `MaxAutoRetryAttempts` for each. `LandsOnPage` follows the page through `redirect` parameter, login
cookie and callback (`OnTheWay`).

**Redemption.** `OutageIsShort` needs to know why the second login finds its key:
`OutageInv` says that a refresh begun after the last rotation has fetched, or will
fetch, the key that the provider signs with, and that after a refusal that counts no
callback is left with older keys. `FrontChannelFinds` needs no strengthening.

**Routing.** `MatchIsLongest` and `OwnIsMostSpecific` say what the loop over the
ingresses returns for a plain page, in any iteration order. `CourseInv` then says,
for each stage of a visit, which path the request is for, which cookies it comes
with and where they were set; the session cookie is sent first because all others
that reach the page are for shorter paths (`CookieIsSent`). `PlainLoginSucceeds`,
`SessionCookieOnOwnPath` and `LoginCookieIsCleared` follow from it.
`LogoutReachesEveryCookie` is for all pages, and rests on the one session of the `sid`.

**Only model-checked.** Liveness under fairness is out of the prover's reach:
`EveryRequestAnswered`, `NoRedirectLoop`, `KeysCatchUp` and `EveryCallbackAnswered`.
`StoredTokenUsable` is proved for Redis and model-checked for the memory store,
whose lock excludes nobody: there it depends on the provider refusing the second
of two grants.

## 5. Limits

Properties that hold only under the stated conditions:

* `NoRefreshTokenReuse` and `StoredTokenUsable` do not survive failures: a lost
  response of a rotating provider, or an `Update` that fails after the grant,
  leaves an unusable token in the store, and the user logs in again.
* `MutualExclusion` fails if a holder is slower than the lock; `LeaseExclusion`
  is what remains.
* `SessionEnds` fails with the memory store, which ignores the expiration, and
  with `session.refresh` (`LifetimeRace`).
* `LogoutIsFinal` is checked without `session.refresh`; with it an `Update` in
  flight brings the session back (`LogoutIsFinalUnlessRaced`). It is about logouts
  that found the session: one that cannot read the store is answered as a success
  and leaves the session behind.
* `BoundedStaleness` needs inactivity to be configured. Without it the fallback
  of `GetOrRefresh` is bounded by the expiry of the access token only.
* `LandsWhereAsked` fails with two tabs, whose login cookies replace each other,
  when the login endpoint itself fails with an older login cookie in the
  request (the retry then goes for the page of the older login), and when the
  login cookie expires while the user is at the provider.
* `AutoRetryBudget` is about one login or logout, in one tab of a browser that
  keeps cookies. One visit of the user may lead to several logins, each of which
  succeeds and is followed by a page that finds no session; nothing counts those.
* `NoRedirectLoop` fails where auto-login covers the error path, where the
  browser refuses cookies, and where each login succeeds but the request after
  it finds no session, because a successful callback clears the retry cookie.
* `FrontChannelReaches` says nothing of a callback that is between its redemption
  and its session when the front-channel logout arrives: it makes the session
  afterwards, as nothing remembers the logout.
* `LoginSucceeds` and `CookieOnMostSpecificPath` exclude the pages that ingress
  matching gets wrong (`Plain`): a page or endpoint that a longer ingress path
  begins as a string, such as `/orders` and `/oauth2/login` beside an ingress `/o`
  (the cookie is set for a path that the page is not under, and auto-login loops);
  a path that only another host has an ingress for (no callback URL, so neither
  login nor logout); and ingresses that differ in the scheme only.
* `LogoutReachesAllCookies` holds because all logins of a user have one `sid`; with
  generated session IDs a logout leaves the sessions of outer ingresses.

Not modelled: unescaping of redirect targets in `CanonicalRedirect`, glob patterns
of auto-login, the domain of the loginstatus cookie, the composition of
authorization URLs, client assertions and JWT parsing, configuration parsing and
discovery, server start and stop, cryptography, logging, metrics and templates.
These are formatting, input handling or work of a library, without state that
another step depends on; where they can fail, the models let them fail.

## 6. Plan

1. `SessionData`, `SessionLifecycle`: done, all properties proved.
2. `SessionHandler`, `AtomicSession`, `SessionRefinement`: done; every safety
   property and the refinement proved.
3. `LoginFlow`, `Redemption`, `Routing`: done; every safety property proved.
4. Left: `StoredTokenUsable` for the memory store, with an invariant that takes
   the refused grants into account; what is left of the lock and of the stored
   sessions when holders are slow; the parts of `LandsWhereAsked` that survive
   several tabs.

## 7. Running

    tlc -config RefreshTabs.cfg MCSessionHandler
    tlc -config LoginRetry.cfg MCLoginFlow
    tlc -config Redemption.cfg MCRedemption
    tlc -config Routing.cfg MCRouting
    tlapm RefreshTokenProofs.tla
