---------------------------- MODULE MCDeployment -----------------------------
EXTENDS Deployment, FiniteSets, Sequences

C == INSTANCE Configuration

\* .env.example; the same with a region, without which no server starts; and with
\* a DATABASE_URL too.
Example ==
    [s \in C!Settings |->
        CASE s \in {"APP_PORT", "DATABASE_PORT", "DATABASE_MAX_CONNECTIONS", "REDIS_PORT", "MAIL_PORT",
                    "THROTTLER_LIMIT", "THROTTLER_TTL", "QUEUE_FAILED_RETRY_ATTEMPTS"} -> "8000"
          [] s = "APP_WORKER_PORT" -> "8001"
          [] s \in {"QUEUE_REMOVE_ON_COMPLETE", "APP_LOGGING", "APP_LOCAL_FILE_UPLOAD",
                    "DATABASE_LOGGING", "MAIL_IGNORE_TLS"} -> "true"
          [] s \in {"IS_HTTPS", "IS_WORKER", "APP_DEBUG", "DATABASE_REJECT_UNAUTHORIZED", "REDIS_TLS",
                    "REDIS_REJECT_UNAUTHORIZED", "MAIL_SECURE", "MAIL_REQUIRE_TLS",
                    "THROTTLER_ENABLED", "QUEUE_REMOVE_ON_FAIL", "SENTRY_LOGGING"} -> "unfit"
          [] s \in {"DATABASE_URL", "PORT", "RETRY_ATTEMPTS_ON_FAIL"} -> "absent"
          [] s \in {"DATABASE_CA", "DATABASE_KEY", "DATABASE_CERT", "REDIS_CA", "REDIS_KEY", "REDIS_CERT",
                    "AWS_KEY", "AWS_SECRET", "AWS_S3_BUCKET", "AWS_REGION", "MAIL_USER",
                    "MAIL_PASSWORD", "SENTRY_DSN"} -> "empty"
          [] OTHER -> "fit"]
Filled == [Example EXCEPT !["AWS_REGION"] = "fit"]
Plain == [Filled EXCEPT !["DATABASE_URL"] = "fit"]

\* One setting changed to any text (to none or an empty one, where any text
\* will do); with a url, the settings that then count no more.
Free == UNION {{s \in DOMAIN rules : rules[s] \in {C!Opt("text"), C!Opt("boolean")}} : rules \in C!Validators}
MCEnvironments ==
    {Filled} \cup {[Filled EXCEPT ![s] = t] : s \in C!Settings \ Free, t \in C!Texts}
    \cup {[Filled EXCEPT ![s] = t] : s \in Free, t \in {"absent", "empty"}}
    \cup {[Plain EXCEPT ![s] = t] : s \in {"DATABASE_HOST", "DATABASE_PORT"}, t \in {"absent", "unfit"}}
    \cup {Plain}
MCBuilds == {{}, {"DataSource"}}
MCVisitors == {[username |-> "admin", email |-> "visitor@mail"]}

\* Bounds: one service at a time but in the example environment with a region; a
\* wrong .env is put right, not made wrong; tools and users act in the plain
\* environment, a seed runs once, and one of them fails; one user is deleted; the
\* server boots and dies while no seed runs, over the tables of all migrations, of
\* Drizzle or none, with one user at most; and nothing is reverted while a seed or
\* the server runs.
Services == {r \in S!Roles : pc[r] # "off"}
MCInit ==
    /\ Init
    /\ Services = S!Roles => env = Filled
    /\ env = Plain => Services = {"server"}
    /\ build = {} => env = Filled
Whole == applied \in {0, Len(D!Ups)}
SeedsAtRest == \A s \in Seeds : at[s] \notin {"find", "insert", "account"}
MCProcess ==
    \/ (env = Plain => SeedsAtRest /\ Cardinality(people) <= 1 /\ Whole) /\ \E r \in S!Roles : S!RoleStep(r) \/ S!Crash(r) \/ S!Recreate(r)
    \/ env \notin {Filled, Plain} /\ S!Edit(Filled)
Settled == env = Plain /\ pc["server"] \in {"down", "up"}
MCTypeOrmTool == Settled /\ TypeOrmTool /\ (applied' < applied => SeedsAtRest /\ pc["server"] = "down")
MCDrizzleTool ==
    /\ Settled /\ DrizzleTool
    /\ \A s \in Seeds : at[s] \in {"done", "failed"} => at'[s] = at[s]
    /\ Cardinality({s \in Seeds : at'[s] = "failed"}) <= 1
MCUserStep == Settled /\ UserStep /\ Cardinality({r \in people' : ~r.live}) <= 1
MCNext == (MCProcess /\ Alongside) \/ MCTypeOrmTool \/ MCDrizzleTool \/ MCUserStep
MCSpec == MCInit /\ [][MCNext]_vars /\ Fairness
=============================================================================
