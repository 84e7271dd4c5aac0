# TLA+ verification of the NestJS boilerplate server

TLA+ modules, TLC configurations and TLAPS proofs for the TypeScript server in
`src/src/`: a NestJS/Fastify API with Better Auth, PostgreSQL (TypeORM for the
auth entities, Drizzle for the user API), Redis, a BullMQ e-mail queue with its
worker process, and a Socket.IO gateway. Paths and line numbers below are those
of the repository, which `PROJECT.json` prefixes with `src/`.

## 1. The system and where it is hard

The program runs as one or more **server** processes (HTTP, GraphQL,
websockets) and a **worker** process (`main.ts` starts either, by the
`IS_WORKER` setting). They share PostgreSQL and Redis and nothing else. Inside
one process JavaScript runs a handler up to its next `await` without
interruption; at every `await`, and between processes, anything interleaves. So
the natural step of a model is the code between two awaits, and every module
here is written that way.

| component | state | operations | talks to | hard because |
|---|---|---|---|---|
| `CacheService` (`shared/cache`) | Redis keys with expiry | `get`, `getTtl`, `set`, `storeGet`, `storeSet`, `delete` | Redis | expiry at the boundary, three meanings of "no ttl" |
| sending operations of `AuthService` (`auth/auth.service.ts`) | one "last sent" stamp per kind and user, in Redis | `sendSigninMagicLink`, `verifyEmail`, `resetPassword` | called by Better Auth; call `CacheService`, the queue, the user table | check, add and stamp are three awaits |
| e-mail queue and worker (`worker/queues/email`, `config/bull`) | BullMQ jobs in Redis, the run of each worker | `process` and three handlers | the queue, user table, `MailService` | redelivery, lost locks, crashes, retries |
| `MailService` (`shared/mail`) | none | three sends | SMTP | a reply may be lost after delivery |
| `SocketGateway`, `SocketService` (`shared/socket`) | a Map per process, a list of socket ids per user in Redis | connect, disconnect, message, `sendTo`, `sendToAll` | Better Auth, `CacheService` | read-modify-write of the list over awaits, crashes, expiry |
| `AuthGuard` (`auth/auth.guard.ts`) | `socket.session` / `request.session` | `canActivate` | Better Auth | replaces what other handlers read; the session store may fail |
| user listing (`api/user`) | the user table | `findAllUsers`, `findAllUsersCursor`, `getAllUsers` | PostgreSQL | the table changes between pages and between the two queries of a page; microseconds against milliseconds |
| user find, delete, update (`api/user`) | the user row | `findOneUser`, `deleteUser`, `updateUserProfile` | PostgreSQL, Better Auth | one update is two writes without a transaction |
| keyset paginator (`utils/pagination`) | a page request | `Paginator.paginate` | a TypeORM query | ordering, cursors in two directions |
| Better Auth integration (`auth/auth.module.ts`, `config/auth`) | sessions, kept by the library | native route, callbacks, hook wiring | `AuthService` | its own route passes Nest's guards and interceptors by |
| request throttler (`config/throttler`) | counters in Redis, per handler and peer | the global guard | Redis | windows meet, blocks outlast windows, headers decide who a client is |
| files and S3 (`api/file`, `services/aws`) | objects in S3 | single and multiple upload | S3 | several `PutObject`s at once, some of which fail |
| health (`api/health`) | none | `check` | PostgreSQL, Redis, the docs | three failures, two kinds of answer |
| field decorators (`decorators`, DTOs) | none | conversion, change and checks of each parameter | every handler | options that one decorator reads and another ignores |
| seeds, schemas, migrations (`drizzle`, `database`) | the tables | migrate, revert, two seeds | PostgreSQL | two tools over one database, find-then-insert, two definitions of uniqueness |
| startup and configuration (`main.ts`, `app.module.ts`, `config`) | the environment, where a process is in `bootstrap` | load, assemble, prepare, listen | everything | one text read by a validator, a reader and a factory, each in its own way; restarts |
| logging, Swagger, i18n, monitoring | none after startup | output | - | - |

What makes each part correct:

* throttle: mails are spaced; nobody is refused for a mail that does not exist or
  never settles; a lock-out is not shortened; every request is answered;
* queue: the number of mails per job is bounded and each duplicate has a cause;
  *completed* means *sent*; settled jobs stay settled; every job settles;
* both together: a refused request sends nothing, a successful one ends in a
  mail, in a job without a recipient or in a failed job;
* sockets: the Map is exact; what goes wrong with the list in Redis goes wrong for
  the socket it befell alone; a send reaches the right sockets and no closed one;
* listing: what a walk repeats and what it misses is exactly what its query
  explains; the walk ends;
* paginator: a forward walk misses and repeats only what the coarser cursor
  explains, turning round gives the page one came from, the walk ends;
* profile: answers are current, no update is lost, halves are written in order,
  a deleted user is gone;
* requests: each status has its cause, quotas hold per peer, the handlers get
  only what the DTOs tell (or a number below the minimum that nothing checks), an
  upload is answered when its files are stored;
* database: what is recorded is what is there, a revert undoes its migration,
  the programs of both tools fit, names stay unique, a half-made user has a cause;
* startup: a process comes up with exactly the environments that give what it
  needs, with numbers where it reads numbers, and comes up again after a crash.

`PROJECT.json` lists every component, and under `hazards` the places in the code
where these could go wrong, each with the properties that look there.

## 2. Modules

| module | models | built on |
|---|---|---|
| `CacheService` | `cache.service.ts` as operators on an entry `[value, expiresAt]` and a clock | |
| `MailThrottle` | the sending operations of `AuthService` | `CacheService` |
| `EmailPromise` | abstract: what the queue promises about a job | |
| `EmailWorker` | `EmailProcessor`, `EmailQueueService`, retry options; BullMQ as used | refines `EmailPromise` |
| `MailPipeline` | server and worker composed over the queue and the user table | EXTENDS `MailThrottle`, INSTANCE of `EmailWorker`, a behaviour of either |
| `SocketGateway` | `SocketGateway`, `SocketService`, websocket branch of `AuthGuard` | `CacheService` |
| `UserPages` | `findAllUsers`, `findAllUsersCursor` walked by a client | |
| `UserProfile` | `findOneUser`, `deleteUser`, `updateUserProfile` | |
| `KeysetPaginator` | `buildPaginator` and `Paginator.paginate` under clients that follow its cursors | |
| `Fields` | `field.decorators.ts`, `transform.decorators.ts`, the `ValidationPipe` over them | |
| `Requests` | a request through hooks, guards, pipes, handlers and interceptors: `main.ts`, throttler, `AuthGuard`, health, users, files, Better Auth's route | `Fields` |
| `Configuration` | the ten validators and `getConfig` functions of `config/` | |
| `Startup` | `bootstrap` of server and worker | `Configuration` |
| `Database` | migrations of both tools, entities, both seeds, sign-up and deletion | |
| `Deployment` | processes, tools and visitors over one `.env` file and one database | INSTANCEs of `Startup` and `Database` |
| `MC*` | the constants for TLC | the module of that name |
| `*Proofs` | theorems and their proofs (section 4) | the module of that name; those of `MailThrottle` are in `MailPipelineProofs` |

Operators whose comment begins with *Mutant* are variants of an operation with
a plausible mistake in it; no specification uses them. `PROJECT.json` pairs each
property with the mutant that breaks it.

### Correspondence

**CacheService.** `Set(v, ttl, now)` is `SET key v PX ttl`, or a plain `SET` for
an absent or zero ttl. Redis removes a key when its clock is *past* the expiry,
so `Live` holds at the expiry itself, where `GetTtl` is 0: this is the case the
`remainingTtl !== 0` test of the code sees. `NullTtl` stands for both -1 and -2,
as in `getTtl`. `storeGet` and `storeSet` are `get` and `set` on the same store.

**MailThrottle.** `pc[r]` is the await request *r* is at: `lookup` (`findOne`,
magic link only), `ttl`, `add`, `stamp`. `Arrive` is the callback of Better
Auth, `ReadTtl` the guard with its early 429, `AddJob` and `SetStamp` the two
writes. `AddJob` and `SetStamp` may take effect and still throw; `Fail` is a
call that throws without effect, or the death of the process. `readAt`,
`addedAt`, `stampedAt` are history only. Addresses, urls and the text of the
answer are left out; the magic link's lookup by address is a lookup of the user
the key names.

**EmailWorker.** The states `waiting`, `active`, `delayed`, `completed`,
`failed`, the lock, `attemptsMade` and the stalled count are BullMQ's, whose code
is not in the repository: they are modelled as the processor relies on them and
marked external. The switch in `process` and its `default` are `FindUser`;
`WithoutUser` is where the three handlers differ: the verification handler logs
a missing user and goes on to `user.email`, which throws. `SendMail` has three
outcomes: accepted, refused, accepted with the reply lost. `Complete` and
`FailAttempt` are refused by Redis when the lock is gone. `AfterFailure` is
`attemptsMade + 1 < attempts`. The limiter and the backoff only delay; the
worker's event listeners only log.

**MailPipeline.** Job *r* is the job of request *r*; `Enqueue` is the one step
both processes share, and `DeleteUser` the deletion both see: the user table
(`accounts`) is one variable of both. `Init`, `Next` and `Spec` are those of the
throttle, which the module extends; the composition's are `PipelineInit`,
`PipelineNext` and `PipelineSpec`. `Behind(r, q)` says which request a refusal is
due to: *q* has its mail queued and wrote, less than a `Window` before, the stamp
that *r* read. It may have ended in an error all the same, its reply being lost,
so that its mail settles is a property of its own (`RefusedIsSettled`) beside that
of the successful requests (`SuccessIsSettled`).

**SocketGateway.** `Connect` is the middleware and `handleConnection` up to its
first await (the Map is written before anything is awaited); `RegisterGet` and
`RegisterSet` are its two Redis calls. `StartUnregister`, `UnregisterGet`,
`UnregisterSet` are `handleDisconnect`, which ends early when the guard has
replaced `socket.session` by null. Two history variables hold the *sockets* an
accident befell, at the step where it does: `lost`, whose id something took or
will take off the list (it registered while another handler of the user held an
older copy: `PendingBeside`; the list expired under it), and `left`, closed
sockets whose id stays or will come back (a failed call of their
`handleDisconnect`, a crash of their process, a session replaced by null, a
departure beside a pending handler). A user's other sockets are held to the
exact list through all of these. One ioredis connection serves a process and
keeps its commands in order, which is why the read of a socket's
`handleDisconnect` follows that of its `handleConnection`.

**UserPages.** `createdAt` is a pair of millisecond and microseconds within it;
`Millis` is what survives reading it into a `Date`. `LookupCursor` finds
soft-deleted rows too, as the code does. `CountRows` and `FetchOffset` are the
two queries of one `Promise.all` in either order. `TopNewest` lets ties fall
anywhere, as `ORDER BY createdAt` does. `disturbed` records what happened to the
listing under a walk: an insertion, the deletion of a row that was given already
or came during the walk (that of a row still to come moves nobody it should not),
and `torn`, an insertion between the two queries of an offset page, after which
`totalPages` may be one short; `cursors` the rows used as cursors. Page size 0 is
an input because `PageOptionsDto` passes `minimum: 1` and `NumberField` reads
`min` (`field.decorators.ts:78-80`).

**UserProfile.** The username plugin of Better Auth (`better-auth.config.ts:33`)
stores usernames in lower case, `Stored` with the constant `Lower`; the code
compares the username as it came (`user.service.ts:211-214`), so a name that
differs in case alone is sent on. `Null` is a value to store, but for the
username, where `dto.username == null` takes it for `undefined` (`Asks`). The
column `displayUsername`, which the plugin fills beside, and `updatedAt` are left
out. `compare`, `auth`, `names`, `find` are the awaits of
`updateUserProfile`; `exists` and `mark` those of `deleteUser`. `Unset` is
`undefined`: such a field is left out of `.set({...})`. `touched[r]` holds the
fields other requests wrote while *r* was served.

**KeysetPaginator.** `Stored(i)` is what a row is sorted by, `Encoded(i)` what a
cursor keeps of it and what the query compares: `createdAt` cut to milliseconds
(`getTime`, `date_trunc`), the id whole. `Less` is the disjunction
`buildCursorQuery` builds key by key, `Beyond` adds the operator, `Backward` is
the flipped query. `Paginate` is one call of `paginate`; `Taken` is what `LIMIT`
keeps after the surplus row is cut off, and `Ends` picks the first and last
entity, after `reverse()`, for the new cursors. `Begin` and `Ask` are
`buildPaginator`: each page gets a new `Paginator`, whose answer's cursors start
as null. Base64, the `key:value` text and URI encoding are left out: of the
modelled types they lose nothing. No code of the repository calls the paginator
yet, so the clients are the model's: one walks forward, one browses to and fro.
`turned`, `prev` and `expected` remember the page a browsing client left; `calm`
counts queries since the table changed.

**Fields.** A field is what its decorator makes of its options: the class
`@Type` converts to, the changes of `@Transform`, the values a condition skips
and the checks. `Convert`, `ToBoolean`, `ToCase` and `HoldsFor` say what the
library does to one value; values are a type and a content, and a text is one of
two dozen words with its length, its number and what it looks like. A check
given `each` goes value by value when the value is a list and looks at the value
itself when it is not, as class-validator does. `Promised` says the same from
the outside, by kind and option, and does not mention checks; it takes the
`minimum` of the page DTOs, which Swagger publishes, at its word.

**Requests.** `Hook` is the `onRequest` hook with `basicAuthMiddleware`,
`Throttle` the global guard, `Guard` is `AuthGuard`, `Pipe` the upload
interceptor, `ParseUUIDPipe` and the `ValidationPipe`, `Handle` the handler up
to its answer or its first `PutObject`; `Store` and `Refuse` end one
`PutObject`. `Throw` is an error that passes `SentryInterceptor`; `Answer` one
that does not (guards run before interceptors, Better Auth's route outside
them). `Tracker` follows `getTracker`: with a proxy header `req.ips[0]`, which
is the peer, and a `TypeError` when Fastify was not told to trust proxies.
`Hit` is the script of the throttler's storage, a library. `Told` is what the
DTOs declare, `minimum: 1` included, and `Unchecked` the one thing they declare
that nothing checks. `faults[q]` collects the outside calls that failed;
`admitted` is the time the throttler let a request pass.

**Configuration.** `Validators` are the ten validator classes, each a function
from its settings to the rule their decorators make; `Fitting` is what a rule
lets through after the implicit conversion (`Boolean(text)` is true of every
text, `Number('')` is 0), `Refused` one call of `validateConfig`, and the
`...Config` operators are the `getConfig` functions with `parseInt` and
`=== 'true'`.

**Startup.** `pc` follows `bootstrap`: `Load` is the validation, `Assemble` the
modules of the role, where `FactoryThrows` is `getOrThrow`, pino and, in the
modules of a server alone, Better Auth, which parses its base URL
(`better-auth.config.ts:62`), and the S3 client of `AwsS3Service`
(`aws-s3.service.ts:21-29`), which takes no empty region; `Prepare` is the rest
up to `app.listen`. `.env.example` as it stands (`AWS_REGION=`) starts a worker
and no server where modules assemble at all. `image` is the environment a
container was made with: an edit of `.env` reaches it by `Recreate` only.
`build` says whether anything provides TypeORM's `DataSource`: at this commit
`app.module.ts` and `worker.module.ts` do not import `TypeOrmModule.forRoot`,
while `AuthModule` and `MailModule` ask for the repository of `UserEntity`, so
no process of this commit gets through `Assemble`. The builds with and without
it are both explored, the rest of the model would be out of reach otherwise.

**Database.** A schema is a set of tables, columns, enum types, unique indexes
and references. `Accepts` and `Droppable` say which statements PostgreSQL takes,
`Without` what a drop takes along. `MigrateUp` is one transaction over all that
is pending, as TypeORM runs it: each statement is judged over what those before
it have left (`Made` by earlier migrations, `Before` it in its own), and either
all of them happen or none; `Revert` is the last migration's `down` in the same
manner.
`Free` is the unique indexes, over all rows or over rows that are not deleted.
`SeedFind`, `SeedInsert`, `SeedAccount` are the three awaits of `seed.ts` for one
person; `InitialSeed` is TypeORM's, in one transaction. A sign-up goes through
Better Auth 1.2.7, a library: by form it looks up the username and the address,
with an account of GitHub the address alone, each over all rows, deleted ones
included (`SignUpFindName`, `SignUpFindEmail`); then it inserts the user
(`SignUpUser`) and, in a statement of its own and no transaction, the account
(`SignUpAccount`). A refused statement or failed call (`SignUpFails`) or the end of
the server (`SignUpsEnd`) leaves what is there. `LinkAccount` is what repairs a
user without an account: a password reset or a sign-in by GitHub. `cut` is
history: the rows left without an account whom nobody has given one since. A
row's id is who made it and its address (`Key`): a maker makes one row of an
address at most, since it looks the address up over all rows. The address of a
user does not change.

**Deployment.** `TypeOrmConnects` and `DrizzleConnects` are the two ways to the
database: TypeORM's tools and the pool of Better Auth
(`better-auth.config.ts:64-80`) use `DATABASE_HOST` and its four companions,
Drizzle's tools, its seed and the server's own queries `DATABASE_URL` alone. So
sign-ups need the former and deletions the latter (`UserStep`), both in the
settings the running server was started with. A server that stops ends its
sign-ups with the same step (`Alongside`).

## 3. Runs

All runs finish within two minutes on two cores. Deadlock checking is off
everywhere: when every request is answered, every job settled, or the bounded
clock and ids used up, the modelled system has stopped.

| run | instance | distinct states | shows |
|---|---|---|---|
| `throttle` | 2 requests, 1 user, 3 kinds, `Window` 2, clock to 5 | 353 k | `SpacedUnlessOverlapping`, `RefusalJustified`, `StampsOnlyExtend`, `EveryRequestAnswered` |
| `throttle_ratelimit` | the same | violation | `RateLimited`, the comment's claim |
| `worker` | 1 job, 2 workers, 3 attempts, 1 stall | 106 k | `MailsPerJob`, `DuplicatesExplained`, `CompletedDelivered`, `PromiseKept`, `EveryJobSettles` |
| `pipeline` | 2 requests of one key, 2 kinds, 1 worker, 1 attempt, `Window` 1, clock to 2 | 193 k | `OnlyAdmittedMails`, `RefusedHasJob`, `SuccessIsSettled`, `RefusedIsSettled` |
| `gateway` | 1 user, 2 sockets on 2 processes, `Hour` 1, clock to 3 | 757 k | `MapExact`, `RegistryExact`, `SendReachesLocal`, `SendReachesOnlyOpen` |
| `pages` | 3 ids, page sizes 0, 1, 2, 2 x 2 timestamps, pages to 4 | 955 k | `NoUserTwice`, `CursorWalkComplete`, `OffsetWalkComplete`, `OffsetRepeatsExplained`, `CursorWalkEnds` |
| `pages_listsall` | page sizes 1, 2 | violation | `CursorWalkListsAll` |
| `paginator` | 3 ids, limits 0, 1, 2, both key lists and orders, 2 milliseconds of 2 microseconds | 475 k | `ForwardComplete`, `RepeatsExplained`, `ThereAndBack`, `ForwardEnds` |
| `profile` | 2 requests, 1 user, 3 values, one of them another's lower case, bodies of up to 2 fields | 683 k | `ReturnsWhatWasAsked`, `DeletedIsGone`, `ChangesAreAsked` |
| `profile_returns` | the same | violation | `UpdateReturnsUser` |
| `deployment` | `.env.example` with a region and one setting changed, 2 roles, 2 seeds, 1 visitor | 43 k | `StartsExactly`, `NumbersRead`, `SchemaSound`, `NamesAreUnique`, `HalfMadeExplained`, `ComesUp` |
| `requests` | 1, 2 or 4 requests, 8 configurations, all routes | 150 k | `FieldsPromise`, `QuotaPerPeer`, `AnswersExplained`, `UploadsExplained`, `EveryRequestAnswered` |

Why the bounds are enough. *Throttle*: a property relates two mails of one key,
so two requests of one user meet every case; a window of 2 has an inside, and
the clock passes its end with room for a second window. *Worker*: jobs share
nothing but workers; two workers are what it takes to run a job twice at once,
and three attempts with one stall reach every branch of `AfterFailure` and
`Stall`. *Pipeline* (`MCMailPipeline`): two requests of one kind and user are
what a refusal needs, requests of different keys share nothing, and the clock
ticks between the two, overlaps being the matter of `throttle`; a password
reset is in the server like a verification mail and in the worker like a magic
link, so those two kinds stand for the three; retries are the matter of
`worker`, whose results `KeepsWorker` carries over for any number of attempts.
*Gateway*: a lost update takes two handlers; one socket per process gives a
list with a foreign id, and a clock of 3 lets a list with `Hour` 1 expire and
be written again. *Pages*: with three rows and pages of one or two there are a
first, a middle and a last page, ties, a deleted cursor, and rows inserted
behind it; an instance with four ids was run once as well. *Paginator*: as for
pages; two rows in one millisecond and one in the next give every disagreement
of sort and cursor, a default limit of 4 is more than the table, and without
the exemption for such rows each of the three safety properties fails on this
instance. *Profile*: two requests are enough for every interleaving of two
updates, or of an update and a deletion; bodies of two fields cover one of each
half; a username has two spellings, the third value is what other fields and
requests write, and every field may be null.

*Deployment* (`MCDeployment`): the conditions of a start are one per setting,
so environments that differ in one setting from `.env.example` (with a region
filled in, an empty one being among the changes) meet each of them (every text
for a setting with a rule of its own, absent and empty for those whose rule
takes any text), and those with a `DATABASE_URL` its interplay with the five it
makes optional. Both services run at once in the example environment; they
share nothing but the file. A wrong file is put right, never made wrong, which
is the direction `ComesUp` is about. The tools run while the server is down or
up but not while it boots, a seed runs once and one of them may fail, one user
is deleted: two seeds at once, or a seed and the visitor who asks for the name
`admin` under an address of their own, are what a collision needs, and a
deleted user what the two kinds of unique index differ in. The server boots and
dies while no seed runs, over the tables of all migrations, of Drizzle or none,
with one user at most: where it dies in the middle of a sign-up one user is
there. Nothing is reverted under a running server or seed. *Requests*
(`MCRequests`): every input goes alone through every configuration with every
failure and a crash; two uploads of two files run beside each other; and
requests of two clients behind one proxy run against quotas, four of them where
the quota of 2 in any window is the question: with a limit of 2 the bound is 3,
so the fourth request shows that it holds, and the clock of 3 has room for a
second window and a block. With four, failures and overlaps outside the
throttler are left out.

`MaxTime`, `MaxMilli` and `MaxPage` bound the clock, the timestamps and the page
number for TLC only (guards of `Tick`, the sets of the two `Insert`s and the
guard of `AskOffset`). In `KeysetPaginator` an id is inserted at most once
(`dead`), and `calm` stops at 3, the queries a turn needs. `profile` uses
symmetry of its requests and values; the runs with liveness use none.

### What the runs found

* **`RateLimited`** (`auth.service.ts:46`, "Rate limited to 1 email per 30
  seconds"). Two overlapping requests both find no stamp; both mails are queued
  in the same window. `SpacedUnlessOverlapping` says precisely how much of the
  claim is true.
* **`CursorWalkListsAll`** (`user.service.ts:78`, a listing of all users). The
  cursor row's `createdAt` loses its microseconds on the way through JavaScript,
  so the next page starts before the cursor's millisecond and skips the other
  rows in it. Rows that Better Auth creates carry whole milliseconds; seeded
  rows, stamped by `now()`, do not. `cursor-pagination.ts:187` of the same
  repository truncates both sides. `CursorWalkComplete` states what is missed.
* **`UpdateReturnsUser`** (`user.service.ts:206`). With neither `firstName` nor
  `lastName` in the body Drizzle is given an empty `.set({})` and throws, after
  Better Auth has stored image and username.

The passing runs record five more things worth a reader's attention, as
explicit exceptions or requirements in what they check. The first two contradict
what the repository says and are listed as findings:

* `.env.example:66` calls the GitHub settings optional, "Otherwise, leave empty";
  `GITHUB_CLIENT_ID` is `@IsNotEmpty` (`auth.config.ts:19-21`) and, left empty,
  stops both services. `StartsExactly` lists it in `NeedText`.
* The page DTOs declare `minimum: 1` (`page-options.dto.ts:14,21` of the offset
  pages, `:15` of the cursor pages), and Swagger publishes it; `NumberField`
  reads `min` only (`field.decorators.ts:78-80`). Zero and negative pages and
  limits reach the handlers: the exception `Unchecked` of `FieldsPromise`.

A process of this commit cannot start at
all (`build`, section 2). The throttler lets up to `2 * limit - 1` requests of a
peer through in one `ttl` (`QuotaPerPeer`), because its window is fixed at the
first hit. And the files of a failed multiple upload that did reach the bucket
stay there under keys nobody has (`UploadsExplained`).

### Fairness

* `MailThrottle!Fairness`: weak fairness of the step each request is at. An
  awaited call settles, by an answer, an error (`Fail` also ends the request) or
  a client timeout, and the event loop then runs the continuation.
* `EmailWorker!Fairness`: weak fairness of every await of a handler, of the
  backoff timer (`Promote`), of the restart policy of the container
  (`restart: unless-stopped`), and of the expiry of a lock whose holder no longer
  runs the job (a Redis ttl). Strong fairness of `Stall` and of taking a job:
  they need a worker that is up, and crashes may make them impossible again and
  again; the assumption is that workers do not always die between two fetches.
  A lock that is *renewed* may expire, but is not assumed to.
* `UserPages!FairSpec`: the client goes on asking and the database answers.
  Nothing is assumed about sign-ups, so the walk ends even if they go on; the
  ids of an instance are finitely many, yet a row once given is never given
  again and rows behind the cursor are what ends the walk.
* `KeysetPaginator!FairSpec`: the database answers (`Paginate`), and a client
  that walks forward asks on. A browsing client may stop at any page.
* `MailPipeline!FairPipelineSpec`, and `MCSpec` of its run, is the fairness of both
  parts.
* `Requests!Fairness`: weak fairness of each request's step and of each
  `PutObject`: the event loop runs every continuation, and every outside call
  ends, with its result or with an error. Nothing is assumed to succeed.
* `Startup!Fairness`: weak fairness of `Start`, the restart policy
  (`restart: unless-stopped`, `docker-compose.yml`), and strong fairness of each
  step of `bootstrap`: a process that is started again and again does not always
  die at the same line. `ComesUp` assumes on top that the service keeps a
  container that gives what is needed; nothing makes an operator fix `.env`.

## 4. Proofs

TLAPS proves, for all values of the constants that satisfy the named
assumptions, what the runs show on an instance:

| module | theorems | argument |
|---|---|---|
| `MailPipelineProofs`, of `MailThrottle` (`Spec`) | `TypeCorrect`, `Spacing`, `Refusals`, `LockoutsOnlyExtend` | the invariant ties the history to control and cache: history times are ordered and not in the future; a stamped request's key holds an entry that lives at least to `stampedAt + Window`; a live entry was written by some stamped request. Spacing alone is not inductive, since nothing in it relates the stamp in Redis to the request that wrote it. |
| the same, of the composition (`PipelineSpec`) | `KeepsThrottle`, `KeepsWorker`, `AdmittedOnly`, `RefusalHasJob` | each step of the whole is a step or stutter of each part, so that the parts' theorems are taken over (it is the way to them, and says nothing more of the code); the composition's own invariant says that a job exists exactly for a request that queued, and with the throttle's, which knows whose stamp a refusal has read, gives the job behind it. |
| `EmailWorkerProofs` | `TypeCorrect`, `BoundedRedelivery`, `DuplicatesHaveCause`, `CompletionMeansMail`, `SettledForGood`, `Refinement` | runs are counted against failures and stalls: a job was started at most once more than it failed or stalled, and delivered runs are among the started ones; a job with a lock is active; a run at `return` has delivered or skipped. The refinement maps the three pending states to one and uses the same invariant to show that a completed job has a cause to be complete. |
| `SocketGatewayProofs` | `TypeCorrect`, `MapIsExact`, `ListIsExact`, `OnlyOpenReached`, `LocalSocketsReached` | per socket: a handler between its read and its write holds a copy that has every registered socket that is not `lost`, its own change aside, and no id that is neither registered nor `left`; whoever writes beside it is marked by that write, so the list is right of every other socket whichever copy is written last. Of a send in progress, `SendsListed`: the sockets it owes a message were on the list it has read. |
| `UserPagesProofs`, cursor walks | `TypeCorrect`, `NoRepeats`, `NothingElseMissed` | the rows given so far lie ahead of the last cursor, rows from the bound on do not; what is missed lies between the cursor's row and its truncated stamp. |
| the same, offset walks | `NothingElseSkipped`, `RepeatsFollowSignUps` | `OffsetInv` counts: a row still to come has at least as many newer rows as places were fetched (`AllYetToCome`), a row that was given and is still listed has fewer (`NoneToCome`). A deletion of what was given breaks the first, an insertion the second, and the walk's end is judged by a count that an insertion between the two queries makes too small. |
| `KeysetPaginatorProofs` | `TypeCorrect`, `RepeatsAreTies`, `NothingElseMissed` | sort and where clause are two orders that need not agree. The where clause's is proved strict, so a walk's cursors ascend in it and no page gives a cursor's row again; of the sort only a page's own cut is used: rows given lie before some cursor, rows left out behind the last. What is repeated or missed is where the two disagree about a row and a cursor. |
| the same, browsing clients | `TurningBackReturns` | three pages and the queries between them, `BrowseInv`: by the number of queries since the table changed, a page ends at the rows of its cursors (`PageEnds`), the next query goes on from there (`GoesOn`), the page it gives is the neighbour of the one before (`Adjoins`), and a query that turns takes from the very rows that page was taken from (`TurnsBack`). |
| `UserProfileProofs` | `TypeCorrect`, `AnswersAreCurrent`, `HalvesInOrder`, `DeletionIsFinal`, `NoLostFields` | per control point, which fields of the body the row holds already, normalised, unless another request touched them, a username that was left alone included, since it was compared with a row that is in lower case throughout; a late request finds a deleted row at every await. |
| `RequestsProofs`, files | `TypeCorrect`, `UploadsListed` | per request, where its files are: none before the handler; while it is `storing`, each of its files is under way or in the bucket; a call still under way after the answer belongs to a request that failed. `UploadsExplained` alone is not inductive, since nothing in it says that the last `PutObject` is the last: the invariant does, and a failed one can end a request only with its fault on record, which stays. |
| the same, answers | `AnswersAreExplained` | `AnswerInv`: what each control point has behind it (a session where one is needed, the throttler's pass, a tracker that did not throw, an input the pipe took, no failed call yet), and of an answer what its status says of all of these. |
| the same, quotas | `QuotaHolds` | `Windows`: the requests admitted in the counter's window are at most its hits and its limit, one less behind the window's very start, and at most `limit - 1` in the ttl before it began; any stretch of one ttl meets two windows at most. The counts are cardinalities of sets of requests by time, which an admitted request, a refused one and the clock change by lemmas of their own. |
| the same, fields | `PromisesKept` | see below. |
| `DeploymentProofs`, startup | `BootsExactly`, `NumbersAreRead` | one lemma per validator says which texts pass it, `NothingElseAsked` that these are the needs `StartsExactly` names and the factories' the rest; `BootInv` then is the place in `bootstrap` against the container's environment. |
| the same, schema | `SchemaFollowsRecord` | `RevertUndoes`: the `down` of each migration takes the tables of the first *k* migrations to those of the first *k* - 1, whatever order tools ran in; that the programs fit is read off the columns of the two final schemas. |
| the same, names | `NamesStayUnique` | `NamesInv`: live rows are apart, and where there are rows there are tables with an index of either tool, so a row that is inserted was `Free` among the live ones, whatever its maker looked up before. |
| the same, rows | `HalvesAreExplained` | `RowsInv`: a row is known by its maker and address, so the row a maker is about to make (`Coming`) is not there yet and the account one owes (`Owing`) is owed to one row; rows without an account are owed or `cut`, and what is `cut` has none. That each such row has *a* run is not inductive alone, since nothing says two rows do not share it. |

With these every safety invariant and every action property that a passing run
checks has a theorem. `SettledStays` (`SettledForGood`) and `NamesComeLast`
(`HalvesInOrder`) are proved and have no run of their own; so are the type
invariants of the modules with proofs. Those of `Startup` and `Database` are
parts of `BootInv` and `SchemaInv`.

**The promise of the fields.** That every declaration of a field does for
everything a client may send what its kind and options promise is
`EveryFieldPromises`, an assumption of `MCRequests` that TLC evaluates before the run and a
theorem (`EveryFieldKeepsPromise`); `FieldKeepsPromise` proves it of every
declaration that `Fits`: every kind and every set of options that the decorator
reads, not the declared ones alone. (`Fits` is about the declaration, not the
input: its options have the types the decorator reads them at, `each` is given
to kinds that read it and not beside a change of case, and there is no
`TokenFieldOptional`.) The argument is in three layers: what each check holds
of (`HoldsMeans`, `ChecksMean`), which checks each decorator makes of its
options (`NumberPasses`, `StringPasses`, ... `ClassPasses`), and what
conversion and change of case leave of a value that came in (`ConvertedText`,
`TextGiven`, `OtherGiven`). `FieldsPromise` says that the handlers get only
what the DTOs tell, or a whole number below the minimum: `MeetsMean` shows that
the one with its exception is what an integer field without a minimum promises,
`RefusedMeans` that the pipe refuses exactly the queries that break a promise,
and `PipeInv` that a 200 of the listings and of the profile is never given to a
refused query and a 422 to no other.

The assumptions are those of the modules (`ThrottleAssumption`,
`WorkerAssumption`, `SentinelAssumption`, `PipelineAssumption`,
`GatewayAssumption`, `PagesAssumption`, `PaginatorAssumption`,
`ProfileAssumption`, `RequestsAssumption`, `DeploymentAssumption`): the window
and the hour are positive, counts are natural numbers, sentinels are no elements
of the sets they stand beside, sets of ids are finite, and inputs and
configurations are records of the fields the code reads, with two files at most
in an upload. No peer is called by the mark of a tracker that throws, and a query
carries texts and lists, as a URL does, where it is not the body of a profile
update. Environments give each setting one of the texts the model tells apart.
TLC evaluates each on the runs. Cardinalities are handled with the library's
`FiniteSetTheorems`.

Only model-checked: the liveness properties (`EveryRequestAnswered` of both
modules, `EveryJobSettles`, `SuccessIsSettled`, `RefusedIsSettled`,
`CursorWalkEnds`, `ForwardEnds`,
`ComesUp`), which are out of the prover's reach.

Two things about the form of the model come from the proofs. Statements of a
migration are judged by a formula over the statements before them, not by a fold
over them, and where a definition lists cases (`Change`, `ToCase`,
`ShortestText`, `Pipe`) the cases exclude one another: with overlapping ones TLC
takes the first and the prover may take none, so the two would not be about the
same definition.

## 5. Not modelled

* Loss of Redis data. The containers run `redis-server --save 120 1`
  (`docker-compose.yml:44`): a crash of Redis itself may forget the last two
  minutes of jobs, stamps and lists. All modules assume Redis keeps what it
  acknowledged; with a rollback to a snapshot `SuccessIsSettled` would fail by
  the shape of the model, which shows nothing about the code.
* Queries of the keyset paginator with both cursors, other key lists than the
  two, null key values and forged cursors.
* The job limiter's and the backoff's durations, and removal of settled jobs.
* Page numbers beyond PostgreSQL's range, empty proxy headers, forms with more
  than two files (`maxCount` is 10), and the content of files.
* The GraphQL side of requests: its driver hands guards and throttler another
  context, whose request they read the same way. Public and optional routes of
  `AuthGuard`: no guarded route is either.
* The shape of answers: `Serialize`, the `@Expose` lists, and so the fields of
  `pagination` that `OffsetPaginationDto` names otherwise than the service does.
* Ports already in use, TLS files, the list of CORS origins, log output.
* What deployment scripts of the `Dockerfile` and `package.json` do around the
  tools; only the tools themselves are steps of `Database`.
* Better Auth's own endpoints and sessions, BullMQ's scripts, the throttler's
  storage, class-validator and class-transformer, Socket.IO, TypeORM, Drizzle,
  Terminus and the S3 client: libraries, modelled where `src/` relies on them.
* Hook providers of `auth.module.ts`: no class of the repository is one.
* `utils/pagination/offset-pagination.ts`: `skip` and `take` of a query builder,
  which no code calls; mail templates, Swagger, i18n, loggers, monitoring assets.

Four observations from reading that no run can tell, because the code that
would show them is not called or the effect is a constant: `beforeCursor` of
`findAllUsersCursor` is looked up and not used, so such a request gets the
first page (`src/api/user/user.service.ts:109`); with both cursors in one query
only `afterCursor` counts in the paginator's where clause, while `beforeCursor`
still makes the last page offer a next one
(`src/utils/pagination/cursor-pagination.ts:126`); `OffsetPaginationDto`
computes `nextPage` from `totalPages` before it is assigned
(`src/common/dto/offset-pagination/offset-pagination.dto.ts:33`); the mutation
`deleteUser` is declared to return a `UserSchema` and returns `HttpStatus.OK`
(`src/api/user/user.resolver.ts:38`, `user.service.ts:186`).

## 6. Plan

Done: the modules of section 2, in the order mail, sockets, users, paginator,
requests, deployment, and the theorems of section 4. What is left, the most
useful first:

1. **PageWalk**: an abstract specification of what any listing promises its
   client, that `KeysetPaginator` and the cursor walk of `UserPages` implement,
   with the refinement proved from `WalkInv` and `PagesInv`.
2. **Throttler**: its counter as a specification of its own (so many per window,
   blocks that end), which `Requests` implements; `Windows` is most of the proof.
