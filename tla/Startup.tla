------------------------------- MODULE Startup -------------------------------
(***************************************************************************)
(* How a server or worker process comes up (src/main.ts, src/app.module.ts *)
(* and src/config): the environment is validated by ten validators, read   *)
(* into the configuration, handed to the factories of the modules, and at  *)
(* last the process listens.  A process that does not get through exits,   *)
(* and the restart policy starts it again in the same container.           *)
(***************************************************************************)
EXTENDS Configuration

CONSTANTS Environments, \* what .env may hold: functions from settings to texts
          Builds        \* sets of the providers that no class of src/ declares

Roles == {"server", "worker"}
-----------------------------------------------------------------------------
VARIABLES env,   \* the .env file
          build, \* the providers that are there beside those of src/
          pc,    \* Roles -> where its process is in bootstrap(); "off": not brought up
          image  \* Roles -> the environment its container was made with

vars == <<env, build, pc, image>>

Booting == {"loading", "assembling", "preparing", "listening"}

TypeOK ==
    /\ env \in Environments /\ build \in Builds
    /\ pc \in [Roles -> {"off", "down", "exited", "up"} \cup Booting]
    /\ image \in [Roles -> [Settings -> Texts]]

\* The compose file sets IS_WORKER for each service.
Container(e, r) == [e EXCEPT !["IS_WORKER"] = IF r = "worker" THEN "true" ELSE "unfit"]

Init ==
    /\ env \in Environments /\ build \in Builds
    /\ pc \in [Roles -> {"off", "down"}]
    /\ image = [r \in Roles |-> Container(env, r)]

Advance(r, at, exits, next) ==
    /\ pc[r] = at
    /\ pc' = [pc EXCEPT ![r] = IF exits THEN "exited" ELSE next]
    /\ UNCHANGED <<env, build, image>>

\* restart: unless-stopped; the container keeps the environment it was made with.
Start(r) ==
    /\ pc[r] \in {"down", "exited"}
    /\ pc' = [pc EXCEPT ![r] = "loading"]
    /\ UNCHANGED <<env, build, image>>

\* docker compose up makes a new container where .env has changed.
Recreate(r) ==
    /\ pc[r] # "off" /\ image[r] # Container(env, r)
    /\ image' = [image EXCEPT ![r] = Container(env, r)]
    /\ pc' = [pc EXCEPT ![r] = "loading"]
    /\ UNCHANGED <<env, build>>

\* ConfigModule: every validator, in both roles.
Load(r) == Advance(r, "loading", \E rules \in Validators : Refused(rules, image[r]), "assembling")

\* What the factories and constructors of the modules throw for: getOrThrow of the
\* Redis password (queue and cache), a log level pino does not know; and in the
\* modules of a server alone, a base url Better Auth cannot parse and an empty
\* region of the S3 client, which looks for an absent one when it is used.
FactoryThrows(r, e) ==
    \/ RedisConfig(e).password = "absent" \/ AppConfig(e).logLevel # "fit"
    \/ r = "server" /\ (AppConfig(e).url # "fit" \/ AwsConfig(e).region = "empty")

\* Nest resolves the modules of the role.  Both need the repository of
\* UserEntity (MailModule), which needs the DataSource of TypeOrmModule.forRoot.
Assemble(r) ==
    Advance(r, "assembling", "DataSource" \notin build \/ FactoryThrows(r, image[r]), "preparing")

\* Mutant: the DSN is read with get, as a validated optional setting.
PrepareLax(r) == Advance(r, "preparing", FALSE, "listening")

\* The rest of bootstrap(): cookie, pipes, CORS, helmet, docs, Sentry, hooks.
\* Of what it insists on only sentry.dsn may be missing.
Prepare(r) == Advance(r, "preparing", image[r]["SENTRY_DSN"] = "absent", "listening")

Port(e) == IF AppConfig(e).isWorker THEN AppConfig(e).workerPort ELSE AppConfig(e).port

\* app.listen: NaN is no port.
Listen(r) == Advance(r, "listening", Port(image[r]) = NaN, "up")

\* The process dies of something else.
Crash(r) ==
    /\ pc[r] \in Booting \cup {"up"}
    /\ pc' = [pc EXCEPT ![r] = "down"]
    /\ UNCHANGED <<env, build, image>>

\* The .env file is changed; containers keep theirs.
Edit(e) == env' = e /\ UNCHANGED <<build, pc, image>>

RoleStep(r) == Start(r) \/ Load(r) \/ Assemble(r) \/ Prepare(r) \/ Listen(r)

Next == \/ \E r \in Roles : RoleStep(r) \/ Crash(r) \/ Recreate(r)
        \/ \E e \in Environments : Edit(e)

\* The containers are restarted; a process does not always die at the same
\* line of bootstrap().
Fairness ==
    \A r \in Roles : /\ WF_vars(Start(r))
                     /\ SF_vars(Load(r)) /\ SF_vars(Assemble(r))
                     /\ SF_vars(Prepare(r)) /\ SF_vars(Listen(r))

Spec == Init /\ [][Next]_vars
-----------------------------------------------------------------------------
(* What a deployment has to give, told from outside: settings with a text, *)
(* settings that may be empty but not absent, numbers, and words of a list.*)
(* GITHUB_CLIENT_ID is among the first although .env.example:66 has it left*)
(* empty, and the region of .env.example is one no server starts with.     *)
NeedText == {"APP_NAME", "REDIS_HOST", "AUTH_SECRET", "BASIC_AUTH_PASSWORD", "GITHUB_CLIENT_ID",
             "MAIL_HOST", "GRAFANA_USERNAME", "GRAFANA_PASSWORD", "APP_PORT"}
NeedKey == {"REDIS_PASSWORD", "SENTRY_DSN", "MAIL_IGNORE_TLS", "MAIL_SECURE", "MAIL_REQUIRE_TLS",
            "MAIL_DEFAULT_NAME"}
NeedKeyOrUrl == {"DATABASE_HOST", "DATABASE_PASSWORD", "DATABASE_NAME", "DATABASE_USERNAME"}
MayBeNumber == {"PORT", "REDIS_PORT", "MAIL_PORT", "RETRY_ATTEMPTS_ON_FAIL", "THROTTLER_LIMIT",
                "THROTTLER_TTL"}
HasUrl(e) == e["DATABASE_URL"] \notin {"absent", "empty"}

Startable(r, e) ==
    /\ \A s \in NeedText : e[s] \notin {"absent"} \cup IF s = "APP_PORT" /\ r = "worker" THEN {} ELSE {"empty"}
    /\ \A s \in NeedKey : e[s] # "absent"
    /\ e[IF r = "worker" THEN "APP_WORKER_PORT" ELSE "APP_PORT"] \in Numerals
    /\ e["APP_PORT"] \in Numerals \cup {"empty"}
    /\ HasUrl(e) \/ /\ \A s \in NeedKeyOrUrl : e[s] # "absent"
                    /\ e["DATABASE_PORT"] \in Numerals \cup {"empty"}
    /\ \A s \in MayBeNumber : e[s] \in Numerals \cup {"empty", "absent"}
    /\ e["DATABASE_MAX_CONNECTIONS"] \in Numerals \cup {"absent"}
    /\ \A s \in {"NODE_ENV", "APP_LOG_SERVICE", "DATABASE_SSL_MODE"} : e[s] \in {"fit", "absent"}
    /\ e["APP_LOG_LEVEL"] \in {"fit", "absent", "empty"}
    /\ e["APP_URL"] \in {"fit", "absent"} \cup IF r = "worker" THEN {"true", "1e3"} ELSE {}
    /\ r = "server" => e["AWS_REGION"] # "empty"
    /\ e["APP_CORS_ORIGIN"] # "unfit"
    /\ e["MAIL_DEFAULT_EMAIL"] = "fit"

(* A process gets through bootstrap with exactly the environments that give*)
(* what is listed above: validators, readers and factories together refuse *)
(* nothing else, and let nothing else run.  REDIS_PASSWORD, SENTRY_DSN, the*)
(* log level, an empty APP_PORT, the worker's port, an empty AWS_REGION and*)
(* an APP_URL that is no url for a server pass the validators.             *)
StartsExactly ==
    \A r \in Roles :
        /\ pc[r] = "up" => "DataSource" \in build /\ Startable(r, image[r])
        /\ pc[r] = "exited" => "DataSource" \notin build \/ ~Startable(r, image[r])

(* A number a running process works with is a number, but for those that   *)
(* may be left out and have no default, for the database's port when a url *)
(* is given, and for the attempts of a job, which no validator looks at.   *)
NumbersRead ==
    \A r \in Roles, s \in DOMAIN Numbers(env) :
        pc[r] = "up" /\ Numbers(image[r])[s] = NaN =>
            \/ s \in {"REDIS_PORT", "THROTTLER_LIMIT", "THROTTLER_TTL"}
               /\ image[r][s] \in {"absent", "empty"}
            \/ s = "DATABASE_PORT" /\ HasUrl(image[r])
            \/ s = "QUEUE_FAILED_RETRY_ATTEMPTS"

(* Once a service has a container that gives what is needed, it is up again *)
(* and again, whatever went wrong before and however often it crashes.     *)
ComesUp ==
    \A r \in Roles :
        "DataSource" \in build /\ <>[](pc[r] # "off" /\ Startable(r, image[r])) => []<>(pc[r] = "up")
=============================================================================
