---------------------------- MODULE Configuration ----------------------------
(***************************************************************************)
(* The settings of the environment (src/config): ten validators, and what  *)
(* the getConfig functions read.  A validator looks at Number(text) or     *)
(* Boolean(text), the configuration is read with parseInt(text) and        *)
(* === 'true': two readings of one text, and the factories (Startup) have  *)
(* a third.                                                                *)
(***************************************************************************)
EXTENDS Integers

\* A text is none of these words for its own sake: "fit" is what the setting's
\* rule asks for (a level, a mail address, a url ...), "unfit" some other words.
Numerals == {"8000", "8001", "1e3"}
Given == {"empty", "true", "fit", "unfit"} \cup Numerals
Texts == Given \cup {"absent"}
NaN == -1
-----------------------------------------------------------------------------
(* The validators. *)
Must(rule) == [asks |-> rule, optional |-> FALSE]
Opt(rule) == [asks |-> rule, optional |-> TRUE]

AppRules ==
    [NODE_ENV |-> Opt("member"), IS_HTTPS |-> Opt("boolean"), IS_WORKER |-> Opt("boolean"),
     APP_NAME |-> Must("nonempty"), APP_URL |-> Opt("url"), APP_PORT |-> Must("whole"),
     PORT |-> Opt("whole"), APP_DEBUG |-> Opt("boolean"), APP_FALLBACK_LANGUAGE |-> Opt("text"),
     APP_LOGGING |-> Opt("boolean"), APP_LOG_LEVEL |-> Opt("text"),
     APP_LOG_SERVICE |-> Opt("member"), APP_CORS_ORIGIN |-> Opt("origins"),
     APP_LOCAL_FILE_UPLOAD |-> Opt("boolean")]
DatabaseRules ==
    [DATABASE_URL |-> Opt("text"), DATABASE_HOST |-> Must("text"), DATABASE_PORT |-> Must("whole"),
     DATABASE_PASSWORD |-> Must("text"), DATABASE_NAME |-> Must("text"),
     DATABASE_USERNAME |-> Must("text"), DATABASE_LOGGING |-> Opt("boolean"),
     DATABASE_MAX_CONNECTIONS |-> Opt("positive"), DATABASE_SSL_MODE |-> Opt("member"),
     DATABASE_REJECT_UNAUTHORIZED |-> Opt("boolean"), DATABASE_CA |-> Opt("text"),
     DATABASE_KEY |-> Opt("text"), DATABASE_CERT |-> Opt("text")]
RedisRules ==
    [REDIS_HOST |-> Must("nonempty"), REDIS_PORT |-> Opt("whole"), REDIS_PASSWORD |-> Opt("text"),
     REDIS_TLS |-> Opt("boolean"), REDIS_REJECT_UNAUTHORIZED |-> Opt("boolean"),
     REDIS_CA |-> Opt("text"), REDIS_KEY |-> Opt("text"), REDIS_CERT |-> Opt("text")]
AuthRules ==
    [AUTH_SECRET |-> Must("nonempty"), BASIC_AUTH_USERNAME |-> Opt("text"),
     BASIC_AUTH_PASSWORD |-> Must("nonempty"), GITHUB_CLIENT_ID |-> Must("nonempty"),
     GITHUB_CLIENT_SECRET |-> Opt("text")]
MailRules ==
    [MAIL_HOST |-> Must("nonempty"), MAIL_PORT |-> Opt("whole"), MAIL_USER |-> Opt("text"),
     MAIL_PASSWORD |-> Opt("text"), MAIL_IGNORE_TLS |-> Must("boolean"),
     MAIL_SECURE |-> Must("boolean"), MAIL_REQUIRE_TLS |-> Must("boolean"),
     MAIL_DEFAULT_EMAIL |-> Must("email"), MAIL_DEFAULT_NAME |-> Must("text")]
BullRules == [QUEUE_REMOVE_ON_COMPLETE |-> Opt("boolean"), RETRY_ATTEMPTS_ON_FAIL |-> Opt("number")]
SentryRules == [SENTRY_DSN |-> Opt("text"), SENTRY_LOGGING |-> Opt("boolean")]
ThrottlerRules ==
    [THROTTLER_ENABLED |-> Opt("boolean"), THROTTLER_LIMIT |-> Opt("number"),
     THROTTLER_TTL |-> Opt("number")]
AwsRules ==
    [AWS_REGION |-> Opt("text"), AWS_KEY |-> Opt("text"), AWS_SECRET |-> Opt("text"),
     AWS_S3_BUCKET |-> Opt("text")]
GrafanaRules == [GRAFANA_USERNAME |-> Must("nonempty"), GRAFANA_PASSWORD |-> Must("nonempty")]

\* The ten of ConfigModule.forRoot({ load }).
Validators == {AppRules, DatabaseRules, RedisRules, AuthRules, MailRules, BullRules, SentryRules,
               ThrottlerRules, AwsRules, GrafanaRules}

\* Settings the program reads without a rule.
Unruled == {"APP_WORKER_PORT", "QUEUE_REMOVE_ON_FAIL", "QUEUE_FAILED_RETRY_ATTEMPTS"}
Settings == Unruled \cup UNION {DOMAIN rules : rules \in Validators}

\* Mutant: Number('') is taken for NaN.
FittingStrict ==
    [boolean |-> Given, text |-> Given, nonempty |-> Given \ {"empty"},
     whole |-> Numerals, number |-> Numerals, positive |-> Numerals,
     url |-> {"true", "fit", "1e3"}, member |-> {"fit"}, email |-> {"fit"},
     origins |-> Given \ {"unfit"}]

\* What the validators let through, after the implicit conversion: every text
\* is a boolean, and Number('') is 0.
Fitting ==
    [boolean |-> Given, text |-> Given, nonempty |-> Given \ {"empty"},
     whole |-> {"empty"} \cup Numerals, number |-> {"empty"} \cup Numerals, positive |-> Numerals,
     url |-> {"true", "fit", "1e3"}, member |-> {"fit"}, email |-> {"fit"},
     origins |-> Given \ {"unfit"}]

\* @ValidateIf: five settings of the database count only without a DATABASE_URL.
Ignored(e, s) ==
    /\ e["DATABASE_URL"] \notin {"absent", "empty"}
    /\ s \in {"DATABASE_HOST", "DATABASE_PORT", "DATABASE_PASSWORD", "DATABASE_NAME",
              "DATABASE_USERNAME"}

\* validateConfig throws; @IsOptional skips an absent text only.
Refused(rules, e) ==
    \E s \in DOMAIN rules :
        /\ ~Ignored(e, s)
        /\ IF e[s] = "absent" THEN ~rules[s].optional ELSE e[s] \notin Fitting[rules[s].asks]
-----------------------------------------------------------------------------
(* The configuration. *)
ParseInt(t) == CASE t = "8000" -> 8000 [] t = "8001" -> 8001 [] t = "1e3" -> 1 [] OTHER -> NaN

\* Mutant: the default is used only for a text that is absent.
OrDefaultAbsent(t, default) == IF t = "absent" THEN default ELSE ParseInt(t)

\* process.env.X ? parseInt(process.env.X, 10) : default
OrDefault(t, default) == IF t \in {"absent", "empty"} THEN default ELSE ParseInt(t)

DatabaseConfig(e) ==
    [port |-> OrDefault(e["DATABASE_PORT"], 5432),
     poolSize |-> OrDefault(e["DATABASE_MAX_CONNECTIONS"], 100)]
RedisConfig(e) == [host |-> e["REDIS_HOST"], port |-> ParseInt(e["REDIS_PORT"]),
                   password |-> e["REDIS_PASSWORD"]]
MailConfig(e) == [port |-> OrDefault(e["MAIL_PORT"], 587)]
BullConfig(e) == [attempts |-> OrDefault(e["QUEUE_FAILED_RETRY_ATTEMPTS"], 0)]
AwsConfig(e) == [region |-> e["AWS_REGION"]]
ThrottlerConfig(e) ==
    [limit |-> ParseInt(e["THROTTLER_LIMIT"]),
     ttl |-> IF e["THROTTLER_ENABLED"] = "true" THEN ParseInt(e["THROTTLER_TTL"]) ELSE 0]
AppConfig(e) ==
    [isWorker |-> e["IS_WORKER"] = "true",
     port |-> ParseInt(e["APP_PORT"]), workerPort |-> ParseInt(e["APP_WORKER_PORT"]),
     url |-> IF e["APP_URL"] \in {"absent", "empty"} THEN "fit" ELSE e["APP_URL"],
     logLevel |-> IF e["APP_LOG_LEVEL"] \in {"absent", "empty"} THEN "fit" ELSE e["APP_LOG_LEVEL"]]

\* The numbers a process works with, by the setting they come from.
Numbers(e) ==
    [DATABASE_PORT |-> DatabaseConfig(e).port,
     DATABASE_MAX_CONNECTIONS |-> DatabaseConfig(e).poolSize,
     REDIS_PORT |-> RedisConfig(e).port, MAIL_PORT |-> MailConfig(e).port,
     QUEUE_FAILED_RETRY_ATTEMPTS |-> BullConfig(e).attempts,
     THROTTLER_LIMIT |-> ThrottlerConfig(e).limit, THROTTLER_TTL |-> ThrottlerConfig(e).ttl]
=============================================================================
