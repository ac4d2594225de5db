# rami-server in TLA+

A verification development of `rami-server`, the backend of a personal site: a
tracker's analytics, an admin API and a Telegram bot, one Go process over
PostgreSQL. The modules are translated from the Go and SQL sources; TLC checks
them on small instances and TLAPS proves the main theorems for all values of the
constants. Paths below are relative to the repository, `internal/` unless they
start with another directory.

## 1. The system

### 1.1 Components

| Component | State it keeps | Operations | Model |
|---|---|---|---|
| Event ingestion: `transport/http/handler/event_handler.go`, `service/event_service.go`, `repository/event_repo.go` | the `events` table; the history a request holds between two statements; an alert goroutine | `TrackEvent`: sanitize, look the visitor up, insert, start an alert | `Tracking` |
| Schema migrations: `migrations/migrate.go`, called by `app.New` | `schema_migrations`, the session advisory lock, the open transaction | `Up`: lock, list what is applied, apply and record the rest | `Migrations`, `SchemaLog` |
| Alert broadcast: `notifier/telegram.go` `broadcast`, `sendMessage` | the time left of the shared context, the chats left, the attempts | one message to every admin who wants it, with retries | `BroadcastState`, `Broadcast` |
| Admin chats: `notifier/telegram.go` `handleStart`, `notifier/admin.go`, `repository/telegram_repo.go` | `telegram_admins` (chat, alert mode, digest flag) and the configured admins | `/start`, choosing a mode, switching the digest | `AdminChats` |
| Analytics: `service/analytics_service.go`, `repository/analytics_repo.go`, `handler/analytics_handler.go` | none of its own | overview, live view, sessions, one session, export | `Queries`, `Analytics` |
| Daily digest: `notifier/admin.go` `runDigest`, `sendDigest` | the timer | wait for the hour (`Digest`); read the day's overview and send it (`Broadcast`) | `Digest`, `Broadcast` |
| Bot menus, language, resume: `notifier/telegram.go`, `keyboard.go`, `i18n.go` | in memory: the languages picked, the ids of the resumes sent | commands, texts and buttons; the resume by id or by URL; the answer to a button | `Bot` |
| Authentication, limits: `service/auth_service.go`, `pkg/jwt`, `middleware/auth.go`, `server.go` | the limiter's windows; tokens are the clients' | login, token check, rate limit | `Edge` |
| Client address, geolocation: `middleware/clientip.go`, `service/geo_service.go`; cutting in `event_service.go` | the opened database | the address a request counts for, its country, what is kept of a text | `Edge` |
| Lifecycle: `cmd/server/main.go`, `app/app.go`, `transport/http/server.go`, `pkg/database/postgres.go` | the pool, the geo database, the HTTP server, the goroutines nothing waits for | `New`, `Start`, `Shutdown`, the exit code | `Lifecycle` |
| Configuration: `config/` | none | what `Validate` accepts and later steps refuse (`Lifecycle`) | partly |
| Bot profile; bot texts, formatting; logger, request log | none | wording and I/O | not modelled |

### 1.2 How they interact

- A tracking request runs in its own goroutine. It reads the visitor's history
  in one statement, stores the event in a later one, and leaves an alert
  goroutine behind that calls the notifier with a 30 second context. Nothing but
  the table is shared between requests, and no transaction spans the two.
- The handlers of the bot share two maps, and each reads, calls Telegram and
  writes in separate steps: what one finds in them another may have left there.
- Before any of this, a request has been given an address (`ClientIP`), counted
  against the limit of its route, and, for the panel, admitted by its token.
- The notifier reads `telegram_admins`, the table the bot's handlers write, each
  handler in a goroutine of its own.
- The digest loop and the bot's statistics screens call the analytics service,
  as the admin API does; its queries run one after the other while the trackers
  go on storing.
- `app.New` migrates before anything serves. Several instances, of different
  builds, may start over one database; the advisory lock is what they share.
- `app.Shutdown` waits for HTTP requests, up to its timeout, and for nothing
  else. Whatever the alert goroutines, the bot and the digest are doing then is
  lost; the table is the only thing that survives.

### 1.3 What is hard here, and what makes each part correct

| Part | Hard behaviour | Correct means |
|---|---|---|
| Ingestion | overlapping requests of a session; a lookup that fails; an insert that fails after taking effect; a process that ends before its alert | an alert repeats, is missing, or misnumbers the session only for a reason the code leaves open; rows are neither lost by an answer nor doubled |
| Migrations | two builds at once; sessions lost between any two statements; a COMMIT whose answer never comes; SQL that fails | exactly once, in order, under one migrator, before anyone serves; no dead session blocks the next start for good |
| Broadcast | one context for all chats; attempts that time out but arrive; rate limits longer than the context | no chat keeps the alert from the next; copies and failures are explained by lost answers and lost time; it ends |
| Admin chats | several rows of one chat; overlapping taps; errors after the fact; a changed list of admins | preferences change only by the admin's own tap, and rows of a chat agree |
| Analytics | nineteen queries without a snapshot; a list that moves under a reader; days, ranges and sessions that span them | parts of an answer differ only by what was stored in between; paging misses nothing; no one is new twice |
| Digest | two clocks; an hour that is skipped or comes twice; restarts; a minute for all chats | one digest a day, at its hour, every day the process was there |
| Bot | handlers of several readers over one cache of ids; a language picked while a resume is on its way; ids that Telegram forgets; slow handlers | nobody gets another's language or a dead id; who asked hears of it, and every button is answered, unless the calls themselves fail |
| Edge | headers written by whoever; windows; whole seconds against a finer clock; runes across a byte limit | one's own address, one's own limit; in by login and by nothing else; a text is cut between runes |
| Lifecycle | a step of New that fails; a drain that times out; a signal before the listener | what was taken up is answered over an open pool; what was opened is closed; what nothing waits for is lost to a shutdown only; it ends |

## 2. The modules

Each module is one component; the state that components share stays in one of
them. `MC*.tla` and `MC*.cfg` instantiate a module for TLC, `*Proofs.tla` hold
the theorems. A definition that begins `Mutation:` in its comment is no part of
a specification: it is the form a plausible bug would give the definition below
it, kept to show that the properties notice.

### 2.1 Tracking

One request is a process with a program counter `pc`: *idle*, *lookup* (before
the history query), *insert* (before the INSERT), *stored* (before the switch
that starts an alert), and the ways it can end. `hist` is the local variable
`history`; `events` is the table in the order its rows became visible. `Receive`
is everything up to the first statement: `sanitize`, the bot check, the decision
whether to look up. `LookUp`/`LookUpFails` and `Insert`/`InsertFails` are the
two statements; a failed insert may or may not have taken effect. `Dispatch` is
the switch over the two kinds of alert, `NotifyReturns` the end of the goroutine
it starts, `Stop` the end of the process and its start by docker.
`rowAt` and `readAt` are observers: no guard reads them.

Fields of an event that no guard and no alert's kind depends on are left out.
What becomes of an alert is `Broadcast`'s matter.

### 2.2 SchemaLog and Migrations

`SchemaLog` is the package comment as a specification: a log to which each
version is added once, in order. `Migrations` is `Up`, statement by statement,
for several instances; `applied` is that log. An instance and its PostgreSQL
session are two things: `alive` says whether the server still has the session,
`holder` whose session has the lock - an `Orphan` being one whose client is gone
and not yet missed - and `inFlight` a COMMIT that an orphan had sent. `Fault` is
an error or a crash at any statement, `Disconnect` a session ended by the
server, `Restart` a served-and-restarted process. A version in `broken` is one
whose SQL this database refuses.

### 2.3 BroadcastState and Broadcast

`BroadcastState` holds what the goroutine keeps and what must be true of it,
`Broadcast` the steps. One call of `broadcast`, or the sends of one digest
(`sendDigest`): the same loop with another budget, the digest flag in the place
of the mode, and an overview to read first. Time is the number of seconds `left`
of the context that all chats share; an attempt has the smaller of that and its
own budget. Telegram accepts, refuses (400, 403), limits the rate (429), fails,
is silent, or takes the message and loses the answer. `SetMode` is an admin
changing a mode meanwhile, `Register` one who sends `/start`: the rows were read
once (`chats`). The loop goes over rows, keyed by the username as spelled, and
sends to the chat each one names; `copies` and `lost` count what a *chat* has
got, `calls` and `outcome` what was done for a row, since several rows may name
one chat (`Naming`).

### 2.4 AdminChats

The table and the three writes to it, each a statement of a handler whose guard
ran earlier. The digest switch reads in one statement (`GetChat`) and writes the
negation in another (`Flip`). A row is keyed by the username as spelled and
statements go by chat, so several rows may be meant. `Start` is a restart with
another `TELEGRAM_ADMINS`. Observers: `switches`, what each tap on the digest
button that took effect made of the flag, and after how many switches it had read
it (`readAt`); `fresh` and `unswitched`, the rows that came to a chat after its
mode was last chosen, or its digest last switched.

### 2.5 Queries and Analytics

`Queries` holds the SQL as operators over the table: the range, the shared table
expressions (sessions, engagement, returning, first event), and every statement
of `Overview`, `Live`, `Sessions`, `Session` and `Export`. `Analytics` runs them
one at a time over a table that grows between them (`Store`). `Answer`
says which statement a part of the overview runs, `asOf` how many rows the table
had then, which is what lets a property say
"equal if nothing was stored in between, and no less otherwise". Requests only
read, so one at a time stands for all.

*Time.* The table is the sequence of its rows as they became visible.
`created_at` is another order: it is `DEFAULT NOW()`, the start of the INSERT,
so a row may become visible after later ones, and several may be of one instant.
A row has the instant `at`, of which `Day` gives the calendar day; `Store` takes
any. No query has a tie-breaker, so a statement sorts rows of one instant as it
likes and each statement anew: what it reads is one of the `Readings` of the
table, in which `nth` is a row's place in that sort. No query but the live view's
reads the clock, whose window of minutes begins at any instant here. The calendar
is assumed not to go back: where a change of the offset repeats a midnight,
a later instant could be of an earlier day.

*Limits.* The ranked lists are cut to `TopRows` as the code's are, whole rows
at a time: of sources and campaigns the conversions go with the visitors.

Abstracted: columns that are only grouped by are one column, `tag`;
averages and percentiles are their numerators or left out; a tracker keeps a
session id for one visitor id. An export is the set of its rows, cut at
`MaxExportRows`.

### 2.6 Digest

The wall clock, the monotonic clock the timer runs on, and a zone with one
change of its offset. `Date` is `time.Date`, algorithm and all: the offset in
force at the local time read as UTC, unless that leads to a time with the other
one. `Ordinary` are the zones the properties are about: less than a day from
Greenwich, with changes of an hour at most, none of which leaves out an hour that
is configured. An hour is the unit; what the loop does takes a minute at most, so time
stands still meanwhile. Jumps are the clock being set or the machine suspended.

### 2.7 Lifecycle

`main` is one process, from its first line to the exit code; the listener, the
requests and the signals are others. A request either looks its client up in the
geo database first, or only runs its statements, and may leave an alert behind;
`TakeUpdate` is an update of the bot or the hour of the digest. Both are
*background*: nothing waits for them, and their statements fail once the pool is
closed. `Kill` ends the process at any time. External behaviour that is assumed:
fasthttp's shutdown returns at once when there is no listener yet, and otherwise
waits for the requests it took; a lookup in a database that is being unmapped
may find nothing or kill the process.

### 2.8 Bot

The handler of each update is a process: `pc` is the call or the access to a map
it makes next, `lang` and `id` its local variables, `spent` whether its 30
seconds are over (commands other than `/start` have none). `langs` and `files`
are the two maps, gone at a restart; `docs` and `gone` are Telegram's, which
gives ids to the documents it fetches and may cease to accept one. A call may
fail, or succeed and have its answer lost (`Failed`). What a screen shows is its
language, or *panel* for the admins' panel, which is in English for all.

Observers: `said`, what reached the reader; `fails`; `during`, the languages the
reader had while the handler ran; `reported`, the ids that were refused to a
handler which then dropped them.

### 2.9 Edge

What a request meets before its handler. A client outside sends what headers it
likes (`Sent`), and the request comes directly or over one or two proxies
(`Ways`). The repository asks that the proxy "set `X-Real-IP` or
`X-Forwarded-For`" (`README.md:41`), so `Proxies` are all that write at least one
of the two: X-Real-IP is set to the peer, removed or passed on as it came, to
X-Forwarded-For the peer is appended or it is passed on as it came. The one
combination left out is a second proxy that overwrites the only header the first
one wrote: it destroys what the server could know. In a behaviour requests come
by the ways of one of the `Deployments`. Behind proxies none of which writes
X-Real-IP (`PassedOn`), `ClientIP` believes that of the client; the properties say
what holds then. Clients on the inside write no such headers. `Addresses` is what
`ClientIP` makes of them all. The limiter counts per route and address in windows of whole
seconds. A login is two steps, since the password takes time to check; a token
is the second it ends in and the secret it was signed with. Time is counted in
half seconds, because tokens and windows are rounded to whole ones and compared
with a finer clock; the clock does not jump. A text is the sequence of the
widths of its runes; `Truncated` is the loop of `truncate` as a recursive
function, `Offsets` where the runes begin. Seconds are a set of one number, or of
none where the tracker sends null. `passes` notes when the requests of an address
passed; `Recent` drops from it what is older than a window.

The routes do not interact, so a behaviour uses one of the `Mixes`.

## 3. The runs

| Run | Question | Bounds | Distinct states |
|---|---|---|---|
| `tracking` | When may an alert repeat, be missing, or carry a wrong number? | 3 requests, 2 sessions, 2 visitors, 9 bodies, 1 process end | 471 002 |
| `two_alerts` | Is a session announced once? (no) | 2 requests | trace |
| `migrations` | Exactly once, in order, under one migrator, and does everyone come up? | 2 instances of 2 builds, 3 versions, 3 faults, one version that may be refused | 20 130 |
| `broadcast` | What may a chat get, lose or be denied, and does it end? | 2 rows of 1 or 2 chats, 1 change of settings meanwhile, 30 s or 60 s, attempts of 20 s, answers after 5 s, 429s of 3 s and 40 s | 751 744 |
| `admin_chats` | Do preferences survive registration, and rows of a chat agree? | 4 updates, 4 spellings, 2 chats, 1 restart | 149 309 |
| `admin_dismissed` | Do only configured admins have rows? (no) | 2 updates | trace |
| `analytics` | Do the answers fit together while events come in? | 3 rows, 1 of them during a request, 3 instants of 3 days, lists cut at 2 rows, pages of 1 or 2, exports of 2 rows | 1.7 million |
| `digest` | One a day, every day, at its hour? | days of 4 hours, 4 days, 1 jump, 2 stops, zones that are `Ordinary` | 4.0 million |
| `digest_gap` | The same where the hour is skipped (no) | no jump, no stop | trace |
| `bot` | Whose language and whose resume reach a reader, and is everyone answered? | 3 updates of 2 or 3 readers in 5 combinations, 1 restart | 420 806 |
| `edge` | Whose address, whose limit, whose token, and what is kept of an event? | 2 clients outside with any headers, no proxy or any one or two of them, 2 secrets, limit 1, windows of 1 s, tokens of 1 s, half seconds 0 to 3, 1 restart | 945 692 |
| `lifecycle` | Is every request answered and everything closed before the end? | 2 requests, all 16 configurations | 13 542 |

### 3.1 Why the bounds are enough

- *Tracking.* A repeated alert takes two requests; the third is what tells "the
  two overlapped" from "a third came in between", and lets the visit number be
  off by more than one. Two visitors and a session id used by both tell the
  session's filter from the visitor's. The bodies include one for every way out
  before the insert. Requests are interchangeable (`SYMMETRY`).
- *Migrations.* Two instances of two builds are a rolling deployment; three
  versions leave one before and one after the one that may break. Three faults
  let the session of one be lost, its successor crash, and the lock be left
  behind once more. The proofs take over from there for any number.
- *Broadcast.* 30, 60 and 20 seconds are the code's; with answers of 5 seconds all
  three attempts can fit for one chat and not for two, and a 429 of 40 seconds
  outlasts the context of an alert. Two rows name two chats or one and the same;
  one change meanwhile moves a row, adds one, or changes what one wants.
- *AdminChats.* Two overlapping taps, with a registration before and another
  after them, are four updates; two spellings of an admin give a chat two rows.
- *Analytics.* A page of one row over three sessions turns twice; an event
  stored during a request falls before, between and after any two statements.
  Three instants, each of a day of its own, put a session across midnight and a
  range next to the one before; with three rows any two of them may tie, and the
  late one may be earlier than, as early as, or later than those before it.
  Three tags against a limit of two make the limit cut. No event is a section view:
  the funnel is counted as the scroll depths are, and left to them.
- *Digest.* The change of offset falls on any hour of the third day, so that
  its eve, itself and the day after are seen. Four hours a day keep every order
  of digest hour, change and midnight.
- *Bot.* The cache is harmed by one handler that stores, one that drops and one
  that reads in between, so three updates. The combinations are a language picked
  while its reader and another ask for their resumes; three resumes of one
  language; picks of a good and a bad code around a screen; and a button or
  command of every other kind. Telegram may forget any id at any time.
- *Edge.* A window that begins late in one second and ends early in another takes
  three half seconds, a token of one second lives in at most three. The texts have
  runes of every width on, before and across the limit of four bytes, the times
  lie on both sides of both ends, and one is null. The two `Deployments` are the
  ways on which some proxy writes X-Real-IP, or there is none, and the others. One
  login is checked at a time: two that are checked together share nothing but the
  limit, which counts them before. With a limit of one, the request that is refused
  is the second.
- *Lifecycle.* Two requests are one that is waited for and one that is not;
  there are no counters.

Deadlock is not checked in any run: each of these systems may rightly come to a
rest - all requests answered, the alert sent, the bound on faults reached, the
process ended. That it does not rest too early is what the liveness properties,
and `EveryRowHandled`, `EveryDay` and `OpeningPageviewAlerts`, are about.

### 3.2 Fairness

- `Broadcast!FairSpec`: weak fairness of the goroutine's step. It is
  scheduled, and each call it makes ends with its context at the latest: the
  query, the request and the wait all take it.
- `Migrations!FairSpec`: weak fairness of each instance's own steps, because the
  compose file restarts a process that exits (`unless-stopped`) and every
  statement has the two minutes of `app.New`; and of `Reap`, because PostgreSQL
  notices a client that is gone. Locks are not assumed to be granted fairly:
  faults are bounded, so contention is.
- `Lifecycle!FairSpec`: weak fairness of what `main` does. It is scheduled and
  each of its calls has a deadline; no request is assumed to end.

`Tracking`, `AdminChats`, `Analytics`, `Digest`, `Edge` and `Bot` state no
liveness. Of the bot's handlers none could be stated: the admins' commands
(`handleAdminCommand`) run the queries of their screens with the bot's own context,
which has no deadline, so that they end when the database lets them.

### 3.3 What the runs show

*Tracking.* Two alerts of a session come only from requests that each read
before the other stored (`DuplicateAlertsOverlap`); a visit number is one more
than the sessions its lookup saw and never exceeds the sessions stored
(`VisitNumberSound`); a session that opens with a pageview is silent only if
the lookup failed, the insert reported an error or the process ended
(`OpeningPageviewAlerts`); the table is what the requests made it
(`RowsFaithful`).

*Migrations.* `OneMigrator`, `ExactlyOnce`, `ReadyIsMigrated`,
`SnapshotIsCurrent`, the refinement `RunsOnceInOrder` and, once the faults are
over, `EveryoneGetsReady`.

*Broadcast.* A chat gets an alert or a digest once for each row that names it, plus
once for each answer that was lost: an admin sees it twice only for a lost answer or
for two spellings registered in one chat, gets one that is logged as failed only for
a lost answer, and never gets more than three for each row (`CopiesExplained`); the
loop comes to every row, whatever the rows before it did, and a row that was given
up untried was come to after the time was up (`EveryRowHandled`); and it ends
(`Ends`).

*Admin chats.* `/start` keeps the preferences and only a tap of the row's own
chat changes them (`PreferencesKept`); rows of a chat agree on the mode since it
was last chosen (`RowsOfChatAgree`); taps on the digest button alternate: each switches
to the opposite of what the switch it read the result of had left, so that two
of them say the same only if the one was written between the read and the
write of the other, or if a row that came to the chat in between was read; and what
the last of them said is what the rows hold (`TapsAlternate`).

*Analytics.* Sums over days, hours, sources, devices and leads fit the totals
and exceed them only by what came in between, and distinct counts lie within
them; a list that its limit may have cut is held to no more than the totals
(`PartsFitTotals`). The summary of a session fits its events (`DetailFits`). The two
periods compared tile the days they span, and call a visitor new once unless two of
the visitor's sessions began in one instant, or the row that is first became
visible between the two statements (`PeriodsTile`). Paging by offset shows every
session that was there when the list was opened, and no page is shorter than its
total promises, because the list is ordered by the start of the session, so that new
rows only push old ones on - as long as the starts are settled: two sessions that
began in one instant may change places between two statements, and a row that
becomes visible late may move the start of its session; then a session can be
missed (`PagingMissesNothing`, whose premises `StartsApart` and `StartsKept` are these
two). The live view counts a visitor once, on the last page known, and an
export is what the overview counts, or the newest rows of it
(`LiveAndExportFit`); of rows of one instant either may be the last.

*Digest.* `OncePerDay`, `EveryDay`, `OnTime` in every zone in which the digest
hour is shown every day, over restarts, failed digests and jumps; what a jump or
a stop excuses is part of the properties.

*Bot.* Everything that reaches a reader is in a language this reader had while
the handler ran (`SpeaksTheReadersLanguage`); a cached id is that of its
language's resume and is not one that was given up (`CacheSound`) - an id that
another handler was about to store as it was dropped may come back, which costs
its next reader a link in the place of the document, and the property leaves it
open; a button is always answered, though after a slow handler the answer fails,
and a reader who asked hears of it unless every call for it failed
(`HeardAndAnswered`).

*Edge.* An event of a client outside has its own address and country, its text up
to the last rune that fits and its time as sent, or null (`StoredAsSent`); no more than
twice the limit of an address's requests passes in the time of a window, and a request
is refused only for requests of its address, which is the client's own
(`LimitKept`); a token admits whoever logged in as the admin
under the same secret, for its lifetime less what the rounding takes
(`AdmittedByLogin`). A logout revokes nothing. Both address claims except a request
with a public address in an X-Real-IP that no proxy writes: it is stored, and
counted, under that address. A deployment behind a proxy that writes X-Forwarded-For
only, which the repository's README allows, has to have it remove X-Real-IP, or
its clients choose whom they are taken for.

*Lifecycle.* A request that was taken up is answered over an open pool unless
the drain ran out of time, which the exit code tells, or began before the
listener was up, or the process was killed; alerts and updates are lost to a
shutdown only (`AnsweredBeforeTheEnd`); New closes what it opened, whichever
step fails (`PoolIsClosed`); and a signal, or a listener that fails, ends the
process however long its requests take (`StopsWhenAsked`).

### 3.4 Where the code and its words part

| Run | The words | The code |
|---|---|---|
| `two_alerts` | "VisitNotification is sent once per session, on its first pageview." (`domain/notification.go:11`) | two overlapping pageviews of a session are both announced |
| `admin_dismissed` | "Telegram usernames that get alerts and the admin panel" (`.env.example:49`) | rows of former admins stay, and alerts go to rows |
| `digest_gap` | "DigestHour is the local hour (DB_TIMEZONE) of the daily traffic summary" (`config/config.go:69`) | where the clocks skip that hour, west of UTC, the next digest can be one that has gone by: with midnight skipped the loop sends digest after digest until the day is over |

Left open by a property rather than refuted by a run: a session that opens with
another event than a pageview is not announced (`OpeningPageviewAlerts`, against
"A session's first pageview is what triggers a visit alert",
`service/event_service.go:70`), and a slow chat can use up the time of those
after it (`EveryRowHandled`, against "broadcast sends s to every registered
admin", `notifier/telegram.go:574`); and the address counted is one the client chose
behind a proxy that passes X-Real-IP on (`StoredAsSent`, against "earlier
(client-supplied) entries can't win", `middleware/clientip.go:24`).

Noted in passing and stated by no run: `Validate` accepts a short JWT secret
outside production, which `jwt.New` refuses everywhere, so that the process
exits after it has migrated the database; a listener that fails ends the process
with exit code 0 when the shutdown itself goes well; the digest covers the day
from midnight to its own hour.

## 4. The proofs

Assumptions are the named ones of the modules, at their `ASSUME`: a missing id is
no id, versions are positive numbers and a build embeds every version before one
it embeds, a limit is positive, and the like. No set is assumed finite; process
ends, faults, restarts and requests may be any number. Every theorem is about
`Spec`, without fairness. Each module has an inductive invariant, mostly called
`IInv`, which is shown to hold at first and to be kept by every step.

### 4.1 TrackingProofs

The alerts depend on something that is gone by the time they are made: the table
as it was at the lookup. The invariant keeps it. `IInv` is

- `TypeOK`;
- `HistoryIsPrefix`: the local history is exactly the history of the first
  `readAt[r]` rows of the table - true forever, since rows are only appended
  (`AppendKeepsPrefix`);
- `RowsBelong`: a request's row is its own and lies after what it read;
- `PcAgrees`: what the program counter says of the row, the event and the alert;
- `RowsMatchRequests`.

`InvInit`, one lemma per kind of step and `InvNext` make it inductive. The
properties then follow from comparing two prefixes: a request that stored before
another's read is in the other's prefix, so its session is seen there
(`OnlyOverlappingRequestsRepeatAnAlert`), and counts one more
(`NewSessionCounts`, `VisitNumbersFollowTheTable`). `SilenceIsExplained` and
`RowsAreFaithful` are the other two, `TypeCorrect` the first.

### 4.2 MigrationsProofs

`ExactlyOnce` is not inductive: that the version about to be committed is not
there yet rests on a list read earlier. `IInv` adds

- `LoopInv`: of an instance in the loop, what it read and what it has passed is
  recorded, and, while its session lives, nothing else is;
- `OrphanInv`: a COMMIT on its way is for the smallest version missing;
- `NoGaps`: the recorded versions are a beginning of the shipped ones;
- that no broken version is recorded, and `OneMigrator`, `ExactlyOnce`,
  `InNameOrder`, `ReadyIsMigrated` themselves.

The lock gives `LoopInv`, which makes the version of an open transaction the
next one (`CommitIsNext`); its effect keeps the log whole (`EffectKeepsLog`).
From there come `OneMigratorAtATime`, `WhoServesIsMigrated`, `OnceAndInOrder`,
`SnapshotStaysCurrent`, and `Refinement`: `Spec => RunsOnceInOrder`, every step
being a step of `SchemaLog` or leaving the log alone. That versions run in name
order (`InNameOrder`) is proved with them, and checked as part of the
refinement; that none takes effect past a broken one is in `IInv`, whose
recorded versions are a beginning without a broken one.

### 4.3 NotifierProofs

The module has the theorems of `AdminChats`, which it extends, and those of
`Broadcast`, as the instance `B` over the state and promises of `BroadcastState`; the
assumption of that instance is a hypothesis, `B!BroadcastAssumption`.

`SendsInv` is the invariant of a broadcast. `EveryRowHandled` speaks of the end of
the loop, so the invariant has to say what its place means: `Accounts` splits the rows into those the loop has not come to,
which are untouched (`Ahead`), the one it is at, which has had a request per
attempt at most (`Here`), and those behind it, whose outcome fits the setting that
was read (`Behind`). With it come `TypeCorrect` (no time is spent that is not
left), `CopiesAreExplained` and `NoRowIsForgotten`, for any budgets, latencies
and numbers of attempts. The copies of a chat are the sum over the rows that name
it; the invariant bounds them by the rows behind the loop and the attempts made for
the one it is at.

For the chats, `ChatsInv` is the type invariant, `RowsOfChatAgree`, `TapsAlternate`,
that a handler with a statement to make knows what for (`Asked`), and that one about
to switch the digest has read what a switch had left, or a row that came later
(`Readers`). `RowWritten` and `RowsSet` say what each of the three writes does to a
row. `ChatsTypeCorrect`, `ChatsAgree` and `TapsTakeTurns` are the invariant;
`ChoicesAreKept` is the action property, which follows from it step by step.

### 4.4 AnalyticsProofs

The table grows while the statements of a request read it. `IInv` remembers what
each of them read: a part of an overview is what its query says of some reading of the
first `asOf[p]` rows of the table as it is now, and no part has fewer of them than the
totals (`IOverview`); the summary of a session is of a reading of its first rows too,
the events of all (`IDetail`); of the list, those who matched at the start and have not
been shown are in every reading of it, at the offset of the next page or behind it, as
long as the starts of its sessions are settled (`IList`). Nothing else about the
steps is needed, so the rest of the module is about two tables, U being T with more
rows (`Grown`), each sorted in its own way (`Table`, and `Read` for the readings of
one table):

- *Sums.* `Total` is a library fold, defined by recursion over subsets.
  `Strong` gives induction over the subsets of a finite set with the induction
  hypothesis as a set, so no theorem with an operator parameter is used, and `Summed`
  shows once that a sum of sizes is the size of a set of pairs. From there a sum
  over groups that do not meet is the size of their union (`Partition`) and a sum
  over groups that may is no less (`Cover`).
- *Parts.* Every query of an overview is the sizes of such groups: days of the
  range, first events by tag, conversions by name. `Sums` and `Distincts` compare
  them with the totals; `Growth`, `MoreCounted` and `SameFirst` carry that from T to
  U. `PartsAddUp` follows.
- *Periods.* `Tiles` is arithmetic on days; `NewInOne` maps a session that is not
  returning to its visitor, one to one, since it holds the visitor's first row and
  one session does (`InOrder`). `PeriodsMeet` follows.
- *Paging.* The place of a session in the list is how many come before it, and a page
  is a slice of the places (`PageIsSlice`, `PageSize`). Where the starts are settled, two
  readings have the sessions in one order, and a row stored meanwhile
  can only put sessions before another (`PushedAlong`). `NoSessionMissed` follows.
- *One session, live, export.* `Accounted`, `Present` and `Exported`, from which
  `EventsAccount` and `LiveAndExportCount` follow.

All of it holds for any number of rows, any ranges, filters and limits, and any
number of events stored during a request.

### 4.5 BotProofs

The cache is read, used and written in three steps of a handler with those of others in
between. `HandsHold` is what makes it sound: the id a handler carries is of the
resume in its language, and one about to be cached has not been reported since
Telegram accepted it. `SpeaksHold` keeps a handler's language among those of its
reader, `FailsHold` bounds the calls. `TypeCorrect`, `CacheStaysSound` and
`ReadersAreAddressed` follow. For `ReadersAreAnswered`, `RoutesHold` says which
handlers come to which place, and `SilenceHolds` that where the reader has heard
nothing and there is time, each call made so far has failed.

### 4.6 EdgeProofs

*Whose address.* `OwnAddress` says of the pure part, for every client `c` outside,
every request `m` it may send and every way of `Ways`, that `ClientIP(Arrived(way, m))`
is `c` - but for a public X-Real-IP of the client's where no proxy writes that header,
which then counts. `WaysAre` splits the ways; where X-Real-IP does not decide, by
`LastPublic` the last public address is the one a proxy appended, since those of
the proxies are not public. `InsideAddress` is the same of clients inside.
`OwnAddresses` carries both to `Addresses`, and so to each step: a request counts in
the window of the address it arrives under and in no other.

*What is stored.* `EventsAreStoredAsSent` is `StoredAsSent` for all texts, limits and
times. It needs what a recursive function computes, for every argument
(`OffsetsDef`, `StartsWithin`, `TruncatedFits`). The induction theorems of the
library take an operator, which the provers cannot instantiate; `Induction` is
first-order instead: a set that holds 0, and with each number the next, holds
them all. It comes from `Least`, which the library's well-founded ordering of
finite sets gives (0..x is a subset of 0..y for a smaller x), and `Recursion`
from it: a definition along 0..n has a function that satisfies it.

*How many pass.* `LimitsAreKept` is `LimitKept` for any limits and window. The
invariant `LimitsHold` says of each window and the requests of its address that
passed (`Counts`): the last ones, as many as the window counts and no more than
the limit, passed in it, those before them before it began, and of these all but
as many as the limit before the previous one could have begun. So a window that
begins leaves at most the limit of recent ones behind, and no more than twice the
limit are younger than a window. `CountsPass`, `CountsRefuse`, `CountsLater` and
`CountsFresh` are the steps of one window, over plain numbers.

*Who enters.* `TokensHold` - every token handed out was the admin's and ends where
it should - gives `PanelNeedsLogin`, with the arithmetic of the rounding.
`TypeCorrect` is the type invariant, which says of the windows that they count
one past the limit at most.

### 4.7 LifecycleProofs

`PoolHolds` ties the pool to where main is, `RequestsHold` the requests to the
listener and to what the drain gave up, `StopHolds` the stop to its reason.
`TypeCorrect`, `PoolIsAlwaysClosed` and `RequestsAreAnswered` follow, for any number
of requests.

### 4.8 DigestProofs

The theorems have a hypothesis, `OrdinaryZones`, for days of any length, and the run
`digest` checks them in all such zones of its size. Outside it they are false, as
`digest_gap` shows for an hour that is skipped; changes of more than an hour are
left open.

Whatever the clocks do, `Target == clock + due - mono - drift` is the time the timer
was armed for. `IInv` says that this is the time of a digest (`Timer`), that it lies
after the last one unless the clock was set back (`Behind`), and that every digest
time before it, or before now, is covered: tried, or excused by a stop or a jump
(`Coverage`). That `Target` is the *first* digest time after the clock is a
matter of arithmetic alone: local time is hours divided into days, `Date` finds the
offset in force, and a change of an hour moves no two digest times past each
other. `TypeCorrect`, `NoDayTwice`, `AtTheHour` and `NoDayMissed` follow.

### 4.9 What is model-checked only

- Liveness (`Ends`, `EveryoneGetsReady`, `StopsWhenAsked`):
  the prover does not take on fairness.
- `Digest` in zones that are not `Ordinary` (4.8), where the run shows what fails.

Every other property of a passing run is a theorem.

On the other side, the type invariants of `Tracking`, `Migrations` and
`Broadcast` are proved and not run.

## 5. What is not modelled

- The bot's profile: `setupProfile` and `ensureAdminCommands` write the same
  names and commands at every start, three attempts each, and nothing reads what
  they wrote.
- The configuration beyond what `Validate` accepts: reading the environment and
  the `.env` files is I/O without state.
- Texts, keyboards, formatting, logging: no state depends on them.
- The SQL of the migrations, the geo database, Fiber's and the bot library's own
  code, except as stated at the definitions marked external.
- A wall clock that is set while tokens are valid: `Edge` has one clock. `Digest`
  has the jumps.

## 6. Order and plan

What is stored and announced came first (`Tracking`, `Migrations`), then where it
goes (`Broadcast`, `AdminChats`), what is read from it (`Queries`, `Analytics`),
the process around it (`Digest`, `Lifecycle`), and what stands in front and
answers readers (`Edge`, `Bot`). What is left:

1. *Abstract specifications.* An outbox that `Tracking` and `Broadcast` both
   implement - each alert due, then delivered, given up or lost - to join the
   two by refinement.
2. *Proofs.* That refinement, step by step; and `Digest` where a zone skips the hour
   or changes by more than one: which of its days are still met.

## 7. Running it

    tlc -workers 2 -config MCTracking.cfg MCTracking
    tlapm TrackingProofs.tla

Every run finishes within a few minutes on two workers. A `.cfg` gives the
constants their values and replaces no definition.
