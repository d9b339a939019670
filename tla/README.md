# oob in TLA+

oob is a FastAPI application over PostgreSQL: accounts with passwords or Google and
Twitter sign-in, refresh sessions, a product catalogue, JSON routes and HTML pages. This
directory holds TLA+ models of the parts that keep state, TLC configurations that check
them on small instances, and TLAPS proofs, for instances of any size, of every safety and
action property that the passing configurations check.
Paths are relative to the repository's root (`src/` in `PROJECT.json`).

## Inventory

| component | code | state | operations |
|---|---|---|---|
| refresh sessions | `services/auth_service.py`, `services/auth_sessions_service.py`, `db/sessions_db.py`, `utils/security_ut.py`, `routes/auth_routes.py`, `routes/auth_sessions_routes.py` | table `sessions`; refresh cookie and access token at the client | login, refresh, logout, logout of all, revocation of one session, list |
| accounts | `services/auth_service.py`, `db/users_db.py`, `install/docker/create_admin.py` | table `users` | register, password login, provider login, create_admin |
| catalogue | `services/products_service.py`, `db/products_db.py`, `routes/products_routes.py` | table `products` | create, update, delete, get, list, statistics |
| HTML interface | `routes/ui_routes.py`, `templates/` | CSRF cookie | forms that call the services above |
| UI guard | `utils/ui_guard_ut.py` | `request.state.user`, for one request | redirects by path and session |
| provider sign-in | `routes/oauth_*_routes.py`, `services/oauth_*_service.py`, `utils/state_ut.py`, `utils/pkce_ut.py` | state and PKCE cookies, five minutes | start, callback |
| CSRF | `utils/csrf_ut.py` | none (signed nonces) | create, verify |
| pool and schema | `db/__init__.py`, `install/schema.sql` | the pool, an advisory lock | start, stop, apply schema |
| assembly, configuration, health, static client | `main.py`, `config.py`, `routes/health_routes.py`, `static/` | none that changes | |

How they interact. A route calls a service, which awaits functions of `db/`; each of those
takes a connection, runs one SQL statement and gives the connection back. There are no
transactions of several statements and no locks besides the schema's. Nothing in memory is
shared between requests. So **all coordination between concurrent requests, workers (two,
`install/oob.service`) and `create_admin` goes through single SQL statements**, and the
state a handler carries across an await is the state that may be stale. Clients keep two
credentials: an HttpOnly cookie with a refresh token, of which the database stores a bcrypt
hash, and a JWT, which the database does not know and nobody can revoke. The hash protects
refreshes only: a logout believes the session id in front of the cookie's dot
(`services/auth_service.py:113-115`).

What is hard, by component:

* sessions - refreshes with one cookie that overlap; a refresh that overlaps a logout; a
  login that dies between its two statements; replies that are lost or overtake each other;
  expiry between check and use. Correct means: a retired token opens nothing, a revocation
  is final and answered truthfully, a cookie is never garbage, a session ends only by a
  logout that names it or by a request of its user.
* accounts - two requests that both find an address free; writers that must all normalise
  it; accounts without a usable password; `create_admin` dying between INSERT and UPDATE.
  Correct means: one account per address (but for the made-up addresses of Twitter users,
  whose domain is used as configured), only the operator changes a password or a role,
  login needs a password somebody chose, exit code 0 is true and is reached in the end.
* catalogue - read, merge, write back; a product deleted or a role changed in between;
  rounding and CHECK in the database. Correct means: rights held during the request, no
  product comes back, no value is stored but those sent and the defaults for those left out,
  and only overlapping updates can be lost.
* HTML and guard - two places that decide who is signed in and redirect to each other, while
  the cookie and the session change in other tabs; answers that delete a cookie by name;
  tokens that a page must carry to the next form. Correct means: every navigation ends on a
  page, a dead cookie opens nothing, logged out is out, every form can be submitted.
* provider sign-in - nothing is kept on the server between start and callback; the cookies
  are shared by the tabs of a browser, expire, and are set and deleted in pairs. Correct
  means: a browser is signed in by its own sign-in only, state and verifier stay a pair, the
  sign-in started last gets through.
* pool and schema - several processes that start together, die with the lock, lose the
  database; more requests than connections. Correct means: one process at a time applies the
  schema, no connection is lost, every request ends, every worker gets to serve.
* listing - pages and counts are statements of their own over a table that changes. Correct
  means: what a reader sees is off by no more than what changed meanwhile.

`PROJECT.json` lists the hazards one by one, each at its line, with the properties that
watch it or the reason why none does.

## Plan

| order | module | status |
|---|---|---|
| 1 | `Sessions`, its contract `SessionContract`, the refinement, the proofs | done |
| 2 | `Accounts`, its contract `Registry`, the refinement | done, with proofs of its safety properties and of the refinement (`AccountsProofs`) |
| 3 | `Products` | done, with proofs of all its properties (`ProductsProofs`) |
| 4 | `OAuth`: state and PKCE cookies, tabs, repeated callbacks | done, with proofs of all its properties (`OAuthProofs`) |
| 5 | `Browsing`: pages, forms, CSRF tokens, guard and redirects, composed with `SessionContract` | done, with proofs of its safety properties (`BrowsingProofs`) |
| 6 | `Database`: pool, advisory lock, workers and `create_admin` starting together, crashes | done, with proofs of its safety properties (`DatabaseProofs`) |
| 7 | `Listing`: pages cut from a changing table, statistics | done, with proofs of its properties (`ListingProofs`) |

Abstract specifications: `SessionContract` is what `Sessions` implements and what `Browsing`
builds on; `Registry` is what `Accounts` implements. A catalogue with atomic patches would
not be one: `Products` implements it only for updates that do not overlap, which
`NoOverlapNoLoss` says directly.

## How the code becomes a model

A handler is a coroutine: between two awaited statements it runs undisturbed, at an await
anything may happen. An action is therefore one SQL statement with the code around it up to
the next await. What the handler holds (locals) is a record in `req[r]`, with the await it
stands at in `at`; `r` is a slot for a request in service, so that |Req| is the degree of
concurrency. Workers are not told apart: they share nothing but the database. `Abort` (in
`Products`, `Finish`) is everything that ends a handler early: the worker is killed
(`Restart=always`), a statement fails, the client hangs up. The table keeps what had been
written. What is committed stays; that
statements fail and the database goes away is part of the failure.

Some operators are called slips: they are forms of the operator after them with a plausible
mistake, and are used by the mutants of `PROJECT.json` only. Every property of a passing run
is violated by one of them.

### Sessions

| model | code |
|---|---|
| `sessions[s]` with `owner`, `hash`, `expires`, `revoked` | row of `sessions`; `owner = None`: no such row |
| `Token`, `HashOf`, `Verifies` | `"<id>.<random>"`, bcrypt; a random part is a number that is never repeated (`minted`) |
| `Pending` | the literal `'pending'`, which is not a bcrypt hash and verifies for no token |
| `jar`, `bearer` | refresh cookie and access token of a client |
| `StartLogin`, `Identify`, `InsertSession`, `SetHash` | `login_user_service`; tails of `complete_google_login`, `complete_twitter_login` |
| `StartRefresh`, `ReadSession`, `Rotate` | `refresh_token_service` |
| `StartLogout`, `RevokeSession`, `SwallowFailure` | `POST /auth/logout`, `POST /logout`, with a cookie that names any session: its random part is not looked at |
| `StartLogoutAll`, `RevokeAll` | `POST /auth/logout` with `all` |
| `StartRevoke`, `CheckOwner`, `RevokeSession` | `POST /auth/sessions/{id}/revoke` |
| `Deliver` | Set-Cookie and the JSON body reach the client; only the HTML logout deletes the cookie |
| `spent`, `sid` and `chk` of access tokens | history, read by properties only |

Time is a counter shared by database and workers; `expires_at <= now` and JWT's
`exp < now` are kept apart. Left out: user agent and address (stored, never compared),
cookie attributes (`COOKIE_DOMAIN` is taken to be empty, its default), `last_used_at`,
replies that change nothing at the client, and cookies nobody issued where they touch no
table (a refresh answers them 401 or, without a number before the dot, 500; a logout with
one of these ends in `Abort`). A logout with a cookie nobody issued is modelled, because it
does revoke. Users are never deleted by the application.

### Accounts

`users[i]` is a row, `chosen[i]` (history) the passwords anyone chose for it. Spellings of
an address are values, `Lower` maps each to its normal form. A password hash is the password
it verifies; `Empty` is the `''` of provider accounts. `RegisterSelect`/`InsertUser` are
`register_user_service`; `OAuthSelect`/`InsertUser`/`UpdateProfile` are
`ensure_user_for_oauth` as called by both providers; `AdminSelect`, `InsertUser`,
`AdminUpdate`, `AdminPromote` are `create_admin.upsert_user`, in the slot `Operator`. Display
names and avatars that are blank and NULL are one value.

Every writer lower-cases the address except one: a Twitter login is given
`twitter_<id>@<domain>` with the domain as it is configured
(`services/oauth_twitter_service.py:100-106`). So `StartGoogle` and `StartTwitter` differ, and
`Pseudo` is the set of addresses of the second kind. With a domain in upper case such an
address and its lower-case form are two accounts, and nobody reaches the first with a
password. `OneAccountPerAddress` therefore says: two accounts have one address only if one of
them is a Twitter user's, as it was made up.

`Registry` is what callers may rely on: accounts by address instead of by id, and each call
one atomic operation. `Enrol` claims an address, `Admit` and `Deny` answer who signs in,
`TurnAway` answers who found the address taken, `Grant` is create_admin, `Leave` the end of a
call. `AccountsRefinement` maps `Accounts` to it: an address is registered when a row has it,
a caller is answered when its handler has reached `reply`. The SELECT of a login, the INSERT
of a registration and the last UPDATE of the others are the moments at which a call takes
effect; the statements before change nothing a caller can see, except that an account made by
a provider login or by create_admin is there (as a buyer) before its maker is answered.

### Products

`products[i]` is a row; description and image_url are passed on and merged as the title is,
and left out. `Filled` is what a creation stores for what it was not given: 'USD' for a
currency that is missing or empty (`services/products_service.py:34,47`), 0.0 for a price that
the HTML form leaves out or that is no number (`routes/ui_routes.py:302-306`). An update stores
an empty currency as it is. `offered` (history) is what accepted requests asked for, with these
defaults, so `ValuesWereOffered` allows no other value. `Authenticate` reads the user row and its role, once; the HTML
guard reads it twice, and only the second counts. `InsertProduct` uses up an id even when
the row is refused, as a sequence does. Prices are sent in thousandths and stored in
hundredths: `Cents` rounds as NUMERIC(12,2) does and `Storable` is the CHECK and the
precision, after rounding. Prices at exactly half a cent are left out (their binary
approximation decides). `role` changes at any time (`SetRole`, create_admin). `held`, `seen`
and `offered` are history. The HTML deletion answers 303 where the model says 204.

### OAuth

| model | code |
|---|---|
| `flows[n]` | state, verifier and code of the n-th sign-in: random in the code, the number n here; `key` is the secret that signed the state (`utils/state_ut.py`) |
| `jar[b]` | cookies `oauth_state`, `oauth_state_tw`, `oauth_tw_pkce` with the end of their `max_age` |
| `tab[t]` | what a tab shows, or the request it waits for, with the cookies sent |
| `Start`, `Leave` | `GET /oauth/{p}/start`, and its answer at the browser |
| `Return` | the provider redirects to the callback, with a code or an error |
| `Check`, `Exchange`, `Complete`, `Arrive` | the callback: its guard, `exchange_code_for_tokens`, `fetch_userinfo` with `complete_*_login`, the answer |
| `Reopen`, `Break`, `GiveUp`, `Rotate` | a URL is requested again, here or in another browser; a connection breaks; a user gives up; `CSRF_SECRET` is changed |
| `hostOnly` | `COOKIE_DOMAIN` is empty: a deletion reaches the cookie |

Google and Twitter differ by the PKCE verifier and by the cookie names, and by nothing else
the model could tell. The provider is external: it exchanges a code once, and Twitter's only
with the verifier whose challenge came with it. `entered` and `due` are history.

### Browsing

`tab` is one tab with its request in service; `phase`, `cred` and `used` are the variables
of `SessionContract`, changed by its actions only, so that `Sessions` (which implements it)
stands behind this module. `expired` adds what the contract leaves out: time. `Guard` is
`UiAuthRedirectMiddleware.dispatch` with the default paths; `GetPage`, `LoginRefused`,
`LoginOpens`, `LoginInstalls`, `Register`, `LogoutRefused`, `Logout`, `DeleteForm`, `NewForm`
and `Write` are the handlers of `routes/ui_routes.py`; `Deliver`, `DeliverLogin` and
`DeliverLogout` are answers that arrive, redirects being followed at once with the cookie of
that moment. Everything else that may happen to the browser's cookie and to the sessions,
in other tabs, through the JSON routes or elsewhere, is `OpenElsewhere`, `InstallElsewhere`,
`CloseElsewhere`, `Expire`, `Land` and `Forget`. A form's token is valid, stale (signed
before `CSRF_SECRET` was changed) or missing; the `csrf_token` cookie is left out, because
`verify_csrf` ignores it. Who may create products is a choice of the handler here; it is
decided in `Products`.

`dead` and `out` are history. `dead`: the cookie sent with this request opened no session when
the request was sent, or ceased to before the last look the code takes at it. For a page that is
the guard's look; the deletion of a product looks a second time in its handler, and `Meanwhile`
marks a request whose session was closed, ran out or was given another token in between. `out`:
the tab has sent a logout, or been answered, and the browser has received no cookie since,
through this tab (`DeliverLogin`) or another (`Land`). It outlasts pages, forms and redirects. A
logout that is never answered counts for nothing (`NoAnswer`): the cookie may still be good.

### Database

`proc[p]` is how far a worker or a run of `create_admin` is in `init_database`, in serving,
or in shutting down; `free[p]`, `queue[p]` are its pool; `task[r]` a request with the
statements it has `left`, each `Want` (`pool.acquire()`), `Acquire`, `Statement`. `Lock`,
`Apply`, `Unlock` are `_apply_schema_from_file`. Of asyncpg and PostgreSQL the model takes
this: waiters get connections in turn; a connection that ends frees its advisory locks; those
who wait for a lock are queued; the statements of `schema.sql` are one transaction. A pool of
`PoolSize` opens connections when it needs them, which is why `free` counts those it can
still give out and is whole again after the database was away. `file` are the processes that find an
`install/schema.sql` that is not blank; the others skip the schema silently, without a lock
(`NoSchema`, `db/__init__.py:26-31`), and serve what is there. Without tables their statements
fail, and the requests end with that.

### Listing

`products[i]` is a row from the INSERT on, with the time at which that statement began;
`pending` are rows whose statement has not committed, `seen` those that have and are not
deleted. A client turns pages of `limit` lines (`walk`); products with the same `created_at`
come in any order, in every statement anew. `stats` is the request for the two counts.
Readers disturb nobody, so one of them at a time is enough. Offsets beyond the pages a client
reads one after the other are left out.

## Runs

| run | instance | shows |
|---|---|---|
| `sessions_races` | 2 users, 1 browser, 2 sessions, 2 requests, 3 tokens, clock 0..2, refresh tokens live 2, access tokens 1 | every pair of requests of every kind, of one user or of two, with logouts that name any session, in every interleaving, over a rotation of each session or two of one, with expiry before, between and after; the inductive invariant; the refinement |
| `sessions_serial` | 1 user, 2 browsers, 2 sessions, 4 tokens, no aborts | `CookieIsCurrent` over chains of rotations |
| `accounts_races` | 1 address in 3 spellings, one of them made up for a Twitter user, 2 ids, 2 requests and create_admin with 2 argument lists | every pair of writers with create_admin between them, and the refinement of `Registry` |
| `accounts_bootstrap` | 1 address in 2 spellings, 2 requests and create_admin | liveness of create_admin |
| `products_races` | 1 product, 1 owner, 2 requests; titles and currencies given, empty and missing; prices missing, below 0, below 0 but rounded to it, the largest that fits after rounding and the smallest that does not | overlapping updates of two columns, deletion between, what the table may come to hold |
| `products_rights` | 2 users with every role, 2 requests, 3 ways to fill in a form | rights across changes of role and deletion |
| `oauth_tabs` | 2 tabs of one browser and 1 of another, 2 sign-ins, cookies that live 1 tick, clock 0..1, 1 change of the secret, with and without `COOKIE_DOMAIN` | two sign-ins in every order through either provider, with every failure, and a callback URL in the wrong browser |
| `browsing_pages` | 1 tab, 2 sessions, 3 tokens, the guard's paths | safety of pages and logout, and that every navigation lands |
| `database_starts` | 2 workers, 1 create_admin, pools of 1, 2 requests of up to 2 statements, 2 crashes or failures; an empty database; `schema.sql` there or missing | the schema lock, the pool, liveness |
| `listing_pages` | 3 products, pages of 1 and 2, clock 0..2 | what page turning and the two counts may get wrong |
| `accounts_duplicate`, `browsing_forms` | | disagreements between the repository's words and the code, below |

The bounds. `MaxToken`, `MaxTime`, `MaxId`, `MaxStart`, `MaxSecret`, `MaxSession` and
`MaxFault` bound counters; they are enforced where a request starts (or the clock ticks, or
something fails), so no handler is held up in the middle. In `Sessions` and `OAuth` they are
the reason for `CHECK_DEADLOCK FALSE`: in the end nothing is left to call. Everywhere else
deadlock is checked. Properties of the handlers are about one or two of them and one row, and
a violation needs a reader, a writer and possibly a lost reply: two slots, two rows and three
tokens contain each of these cases, and the mutants show that they are reached. One browser
is enough in `sessions_races`, where no handler looks at another's jar and cookies reach a
jar in any order; `sessions_serial` has two. What two slots might still hide in `Sessions` is
covered by the proofs, which have no bounds on anything. One product suffices for `Products`,
because no statement touches two; one address for `Accounts`, because statements about
different addresses touch different rows, and what could go wrong is between spellings. In `Browsing` one session of the tab and one other with
three tokens give a login, a rotation under it and a login elsewhere. With
`APPLY_SCHEMA_ON_START` off a process does what it does without the file, but for the connection
it takes first; TLC leaves that case out, the proofs do not. A pool of one with two
requests is the smallest in which more requests want connections than there are; a pool of
ten with eleven is no different, because connections are alike. Three products are two pages
and a product that comes or goes between them.

Fairness.

* `BootstrapCompletes` (`OperatorPersists`): the operator runs `create_admin` again as long
  as it has not exited with 0 (weak fairness of `StartAdmin` and of the exit after a
  failure), and a process that is started again and again gets, sooner or later, past each
  statement (strong fairness of the four database actions, because an `Abort` disables them
  each time). Nothing is assumed of requests, which may stop at any point.
* `EveryNavigationLands` (weak fairness of `Serve`): the event loop runs every handler, and
  an answer that is not lost arrives. That is all a redirect needs: sessions and cookies may
  change between any two of them, as long as they do not change for ever, which the bounds on
  sessions and tokens see to. Without the bounds somebody could revoke and log in again
  between any two redirects for ever; a loop that needs no such help is what the property
  excludes.
* `EveryRequestEnds`, `WorkersServe` (`Fairness` of `Database`): processes and event loops
  run (weak fairness of `Advance` and `Perform`); workers and the database are started again
  (`Restart=always` in `install/oob.service`, `restart: always` in `docker-compose.yml`),
  `create_admin` is not (`restart: "no"`); PostgreSQL queues those who wait for a lock
  (strong fairness of `Lock`). Faults are finitely many.

`SerialSpec` of `Sessions` is not a fairness but a restricted environment: clients that wait
and a network that delivers; `CookieIsCurrent` does not hold without it (a lost reply after a
rotation).

What the violated properties say:

* `DuplicateAnswers400` - the loser of two racing registrations gets 500
  (`services/auth_service.py:38-42`); a test expects 400 for a duplicate.
* `EveryFormHasToken` - a login form with an empty field, and a login or registration form
  that was refused for its token, is shown again without a token
  (`routes/ui_routes.py:63-76`, `127`); README line 84 promises one. TLC's trace is the empty
  field, which any user can leave.

Other disagreements met while modelling, which follow from one line each and have no run:

* `POST /logout` swallows a failed revocation and deletes the cookie
  (`routes/ui_routes.py:184-189`); README line 76 promises the revocation. What is left of
  the promise is `LogoutIsOut`. A logout with a stale CSRF token revokes and deletes nothing,
  and is redirected like one that did.
* `POST /auth/logout` and `POST /logout` do not verify the cookie's secret
  (`services/auth_service.py:113-115`), unlike a refresh. `RevokedOnRequest` is what remains
  of "a user ends his own sessions".
* a Twitter user's address is the only one that is not lower-cased
  (`services/oauth_twitter_service.py:100-106`).
* update and delete do not ask for the role (`services/products_service.py:22-27`); README
  line 16 limits them to sellers and admins. `RightHeldMeanwhile` states the rule of the code.
* the HTML form creates a product for 0.0 when the price is missing or no number
  (`routes/ui_routes.py:302-306`), although the service says "Title and price are required"
  (`services/products_service.py:33`).
* a missing or blank `install/schema.sql` is no error (`db/__init__.py:26-31`): the process
  starts, and without tables every request that needs one fails.
* no service looks at the sign of a price; README line 88 says so. The table's CHECK refuses
  it, with 500 on the JSON routes.
* an update stores the empty title a creation refuses (`services/products_service.py:81`).
* with `COOKIE_DOMAIN` set no cookie is ever deleted: `delete_cookie` names no domain
  (`routes/ui_routes.py:189`, `routes/oauth_google_routes.py:80`).

## Proofs

Every safety and action property of a passing run is a theorem, for all values of the
constants that satisfy the assumption of its module, and so are the types of `Accounts` and
`Listing` (`Typed`), which no run repeats. What the assumptions say: `None` and the
like are none of the values they stand beside (NULL is no number, address, row or token); the
bounds are naturals, page sizes positive; normalising an address twice is normalising it once;
prices are integers, none of them half a cent (see Products above); 'USD' is a currency and
roles are the three of the schema; the operator's process is
no request; requests are finitely many where the model counts them (`Database`,
`Products`). Nothing is assumed of how many users, browsers, sessions, products or requests
there are, so what two request slots might hide in the runs is covered. None of the properties
is inductive as it stands; the inductive invariants below say what else is true, and TLC has
checked each of them on the instances of the runs before it was proved.

`SessionsProofs` and `SessionsRefinementProofs` are about `Sessions` (`ConstantsAssumption`).

That a spent token never verifies rests on a
handler's new token being nowhere in the table, nor in another handler, before it is stored;
that in turn on tokens being numbered in order; that a cookie is known on the same for every
reply under way. `SessionsInvariant` states these parts and their conjunction:

* `HandlerOK` - which fields are set at which await;
* `RowOK` - a row exists as a whole, and its hash is of a token that names it;
* `Numbered` - no token in the table, in `spent` or in a handler is ahead of `minted`;
* `FreshOK` - a token on its way to the table is nowhere else, and one login works on a
  pending row;
* `HeldOK` - tokens in cookies, requests and replies are known to the table; a handler that
  revokes with an access token has a row, whose owner asked for it (a logout need not);
* `TimeOK` - no grant rests on a check later than a revocation of its session;
* with `TypeOK`, `SpentNeverOpens` and `AnswerMeansRevoked`, this is `IInv`.

TLC checks `IInv` in `sessions_races`. `SessionsProofs` proves that `Init` implies it
(`Initially`) and one lemma per group of actions that keeps it: `QuietStep` for steps that
leave tables and other slots alone, from which `CallKeeps`, `ReadersKeep` and `DeliverKeeps`
follow; `RevokersKeep`; `TickKeeps`; `FreshTokenIsFresh` with `ReadSessionKeeps` and
`InsertSessionKeeps` for the two places where a token is made; `StoreKeeps` with
`SetHashKeeps` and `RotateKeeps` for the two where one is stored. `StepKeeps` puts them
together and `Invariance` concludes; the safety properties are corollaries. `IdleEnds` has an
invariant of its own, `ExpiryOK` (no row and no handler holds an expiry later than RefreshTTL
from now), which needs only types beside it.

`NobodyLockedOut` is about `SerialSpec`, whose steps are steps of `Next`, so that `IInv` holds
there too. Beside it stand `CurrentOK` (a browser has the credential of its session, or the
answer under way brings it) and `ApartOK` (one request per browser, whose refresh carries the
cookie the browser still has; no token is in two jars or answers), without which a rotation
for one browser could take the session from another.

`SessionsRefinementProofs` splits a step by what it does to the table (`TableSteps`), which
gives `RevocationHolds` and, with `HeldOK`, `RevocationIsAskedFor`. For the refinement a row that
exists is open or closed as `revoked_at` says, its credential is the token of its hash, and
the credentials used are `spent` with the present ones: an INSERT is `Open`, a stored hash is
`Install` (`StoreInstalls`, by `FreshOK`), a revocation is `Close`, all else stutters
(`KeepsContract`). `LockedOut` follows from the contract's steps.

`AccountsProofs` (from `AccountsAssumption`). Uniqueness of addresses is two things: what is
stored and what a handler is about to store is normalised or is a made-up Twitter address
(`NormalOK`), which rests on every route that calls `create_user`, and UNIQUE compares what is stored (`UniqueOK`). A password in
the table was chosen for that account (`ChosenOK`), so a login that verified one says so. What
a handler found by its SELECT or made by its INSERT is still there, with its address, at the
UPDATE (`StepOK`), because no statement deletes a row or changes an address; and what an exit
code says stays true until create_admin is run again (`CodeOK`), because no other writer
touches a password or a role. `AInv` is their conjunction with `TypeOK`; `Writers` lists which
steps write which columns, from which the two action properties follow.

For the refinement (`KeepsRegistry`), `Registered` says that the registry has what the one row
of an address has, and `RowWritten` what a written row does to it; both rest on uniqueness.
Then each step is one of the registry's or none: the SELECTs (`SelectRefines`), the INSERT,
which claims an address or finds it taken (`InsertRefines`), and the UPDATEs, which find the
account they were meant for (`ProfileRefines`, `GrantRefines`, by `StepOK`).

`ProductsProofs` (from `ProductsAssumption`). `PInv` says of each handler what its read and
its checks are still worth when it writes: the user has had every role a check looked at
(`RoleOK`); the owner that was compared is the owner of the row, if the row is still there
(`ReachOK`); each column about to be written was asked for, by this request or by one that was
accepted before, or is the default of a creation that left it out (`FilledColumns`), and of a row nobody has written since, the merged columns are those of the
row (`PutOK`); a 204 means the row is gone (`CodeOK`). That holds because `seller_id` never
changes and ids are handed out in order: no row is above `serial` (`FreshOK`), and requests
that still have an INSERT to come are counted against the bound (`BoundOK`). Numbers: `Cents`
of a multiple of ten is exact (a price that is read and written back does not drift), and what
passes `Storable` is within the type after rounding. `OthersKeep` carries all of it across
another handler's step (`Alike`, `Lasts`).

`ListingProofs` (from `ListingAssumption`). `Place(i)` counts the products created after `i`.
When no two share a time, the k-th line of every listing is the product of place k - 1
(`Lines`), so a page is the products whose places are on it (`Pages`). Between two pages, the
products `Missed` are behind the client without having been read, those `Again` will be read
once more. A deletion lets at most one product move up across the edge, a commit at most one
down (`DeleteMoves`, `CommitMoves`, `OnePlace`); reading a page takes from `Again` what it
repeats. `TurningOK` is that balance at every page, and `CountOK` the one between the two
counts. Updates keep every place, because `created_at` is what is sorted by.

`OAuthProofs` (from `OAuthAssumption`: every tab has a browser, `None` is no number) proves
every property of `OAuth`. Its invariant `OInv` follows a sign-in through the places its number
can be in: state and verifier lie in a jar together and belong to a sign-in of that browser
(`JarOK`); so do the cookies that came with a request (`SentOK`); past the guard the state
cookie sent is the state of the URL (`ViewOK`); a sign-in whose start has not been answered is
in no jar, no request and no other tab (`FreshOK`), without which a used state could come back
into a jar; the sign-in left for last has the state cookie of its provider (`DueOK`).

`BrowsingProofs` (from `BrowsingAssumption`) shows of `Browsing` that a dead cookie opens
nothing and that a logout holds. It uses the session store through its contract only: `Grows`
says what every `Open`, `Install` and `Close` keeps, namely that a known cookie stays known, a
closed session closed, and a known cookie that opens nothing never opens anything again (its
token has been stored, and only tokens that never were are installed). That cookies are known
(`KnownOK`) is part of the invariant `BInv`, with the stations of a dead request (`DeadOK`) and
of a logout (`OutOK`: it is on its way with the browser's own cookie, or the browser has no
cookie that opens anything). Two lemmas carry the long-lived parts: `MeanwhileKeeps` for a
session that ends while a request is looked at, `NoAnswerKeeps` for answers that are lost.

`DatabaseProofs` (from `DatabaseAssumption`; the requests are finitely many) has two
invariants. `DInv`: whoever is between lock and unlock holds the lock (`HolderOK`), and whoever
applies the schema, has the file and is past it finds the tables (`SchemaOK`); `SchemaAlone`
and `ServedBySchema` (which no run repeats) follow. The second claims nothing of a process
that was started with `APPLY_SCHEMA_ON_START` off or without the file. `PInv`: requests belong to live processes and have a statement left
(`TaskOK`), a queue holds those who wait, each once (`QueueOK`), and free connections and
running statements make up the pool, less the one that is with the schema (`FreeOK`). That a
cancelled waiter leaves its queue whole is `WithoutRemoves`, about `RemoveAt`.

Only model-checked: `BootstrapCompletes`, `EveryNavigationLands`, `EveryRequestEnds` and
`WorkersServe`. They are liveness under fairness, which the prover cannot handle (it has no
ENABLED). Two operators of `Accounts` (`ToProfile`, `Granted`) are named only because tlapm
misreads `@` inside a nested EXCEPT.

## Not modelled

Provider endpoints beyond what a callback can tell, logging, page content, the Brython client
(`static/brython/auth.bry` is loaded by no template), the health check, Docker and systemd
files except for what they say of workers and restarts, values of the configuration other
than those named above, `user_identities` (no code reads or writes it), `touch_session` and
`get_user_by_refresh_token_service` (no caller), the reading of a single product (one
statement). A price that is NaN: it can be stored, and no JSON reply can show it, but nothing
about it depends on an order of steps. The cryptography is taken at its word: bcrypt and HMAC
verify what was made and nothing else.
