-------------------------- MODULE DeploymentProofs --------------------------
(***************************************************************************)
(* Proofs about Deployment: a process starts with exactly the environments *)
(* that give what is needed, and works with numbers, for every environment *)
(* and every pair of containers; the schema is the one on record, names are*)
(* unique, and users without an account are explained, for any number of   *)
(* seed runs and visitors and whatever order the tools run in.             *)
(***************************************************************************)
EXTENDS Deployment, Sequences, TLAPS

-----------------------------------------------------------------------------
(* Startup: what a rule, a validator and all of bootstrap let through.     *)
Envs == [S!Settings -> S!Texts]

\* A rule lets a text through.
Lets(rule, t) == IF t = "absent" THEN rule.optional ELSE t \in S!Fitting[rule.asks]

\* What each rule lets through.
LEMMA RuleMeans ==
    ASSUME NEW t \in S!Texts
    PROVE  /\ Lets(S!Opt("boolean"), t)
           /\ Lets(S!Opt("text"), t)
           /\ Lets(S!Must("boolean"), t) <=> t # "absent"
           /\ Lets(S!Must("text"), t) <=> t # "absent"
           /\ Lets(S!Must("nonempty"), t) <=> t \notin {"absent", "empty"}
           /\ Lets(S!Opt("whole"), t) <=> t \in S!Numerals \cup {"empty", "absent"}
           /\ Lets(S!Opt("number"), t) <=> t \in S!Numerals \cup {"empty", "absent"}
           /\ Lets(S!Must("whole"), t) <=> t \in S!Numerals \cup {"empty"}
           /\ Lets(S!Opt("positive"), t) <=> t \in S!Numerals \cup {"absent"}
           /\ Lets(S!Opt("url"), t) <=> t \in {"true", "fit", "1e3", "absent"}
           /\ Lets(S!Opt("member"), t) <=> t \in {"fit", "absent"}
           /\ Lets(S!Must("email"), t) <=> t = "fit"
           /\ Lets(S!Opt("origins"), t) <=> t # "unfit"
  <1>1. \A a : /\ S!Must(a).asks = a /\ S!Must(a).optional = FALSE
               /\ S!Opt(a).asks = a /\ S!Opt(a).optional = TRUE
    BY DEF S!Must, S!Opt
  <1>2. /\ S!Fitting["boolean"] = S!Given
        /\ S!Fitting["text"] = S!Given
        /\ S!Fitting["nonempty"] = S!Given \ {"empty"}
        /\ S!Fitting["whole"] = {"empty"} \cup S!Numerals
        /\ S!Fitting["number"] = {"empty"} \cup S!Numerals
        /\ S!Fitting["positive"] = S!Numerals
        /\ S!Fitting["url"] = {"true", "fit", "1e3"}
        /\ S!Fitting["member"] = {"fit"}
        /\ S!Fitting["email"] = {"fit"}
        /\ S!Fitting["origins"] = S!Given \ {"unfit"}
    BY DEF S!Fitting
  <1>3. \A a : /\ Lets(S!Must(a), t) <=> (t # "absent" /\ t \in S!Fitting[a])
               /\ Lets(S!Opt(a), t) <=> (t = "absent" \/ t \in S!Fitting[a])
    BY <1>1 DEF Lets
  <1> QED BY <1>2, <1>3 DEF S!Texts, S!Given, S!Numerals

LEMMA RefusedMeans ==
    ASSUME NEW rules, NEW e
    PROVE  ~S!Refused(rules, e) <=> \A s \in DOMAIN rules : S!Ignored(e, s) \/ Lets(rules[s], e[s])
  BY DEF S!Refused, Lets

LEMMA SettingsHold == \A rules \in S!Validators : DOMAIN rules \subseteq S!Settings
  BY DEF S!Settings

DatabaseFive == {"DATABASE_HOST", "DATABASE_PORT", "DATABASE_PASSWORD", "DATABASE_NAME",
                   "DATABASE_USERNAME"}

LEMMA IgnoredMeans ==
    ASSUME NEW e
    PROVE  \A s : S!Ignored(e, s) <=> s \in DatabaseFive /\ S!HasUrl(e)
  BY DEF S!Ignored, S!HasUrl, DatabaseFive

LEMMA AppPasses ==
    ASSUME NEW e \in Envs
    PROVE  ~S!Refused(S!AppRules, e) <=>
             /\ e["NODE_ENV"] \in {"fit", "absent"}
             /\ e["APP_NAME"] \notin {"absent", "empty"}
             /\ e["APP_URL"] \in {"true", "fit", "1e3", "absent"}
             /\ e["APP_PORT"] \in S!Numerals \cup {"empty"}
             /\ e["PORT"] \in S!Numerals \cup {"empty", "absent"}
             /\ e["APP_LOG_SERVICE"] \in {"fit", "absent"}
             /\ e["APP_CORS_ORIGIN"] # "unfit"
  <1> DEFINE rules == S!AppRules
  <1>1. DOMAIN rules = {"NODE_ENV", "IS_HTTPS", "IS_WORKER", "APP_NAME", "APP_URL", "APP_PORT",
                        "PORT", "APP_DEBUG", "APP_FALLBACK_LANGUAGE", "APP_LOGGING",
                        "APP_LOG_LEVEL", "APP_LOG_SERVICE", "APP_CORS_ORIGIN",
                        "APP_LOCAL_FILE_UPLOAD"}
    BY DEF S!AppRules
  <1>2. /\ rules["NODE_ENV"] = S!Opt("member")
        /\ rules["IS_HTTPS"] = S!Opt("boolean")
        /\ rules["IS_WORKER"] = S!Opt("boolean")
        /\ rules["APP_NAME"] = S!Must("nonempty")
        /\ rules["APP_URL"] = S!Opt("url")
        /\ rules["APP_PORT"] = S!Must("whole")
        /\ rules["PORT"] = S!Opt("whole")
        /\ rules["APP_DEBUG"] = S!Opt("boolean")
        /\ rules["APP_FALLBACK_LANGUAGE"] = S!Opt("text")
        /\ rules["APP_LOGGING"] = S!Opt("boolean")
        /\ rules["APP_LOG_LEVEL"] = S!Opt("text")
        /\ rules["APP_LOG_SERVICE"] = S!Opt("member")
        /\ rules["APP_CORS_ORIGIN"] = S!Opt("origins")
        /\ rules["APP_LOCAL_FILE_UPLOAD"] = S!Opt("boolean")
    BY DEF S!AppRules
  <1>3. rules \in S!Validators
    BY DEF S!Validators
  <1> HIDE DEF rules
  <1>4. \A s \in DOMAIN rules : e[s] \in S!Texts
    BY <1>3, SettingsHold DEF Envs
  <1>5. /\ Lets(rules["NODE_ENV"], e["NODE_ENV"]) <=> e["NODE_ENV"] \in {"fit", "absent"}
        /\ Lets(rules["IS_HTTPS"], e["IS_HTTPS"])
        /\ Lets(rules["IS_WORKER"], e["IS_WORKER"])
        /\ Lets(rules["APP_NAME"], e["APP_NAME"]) <=> e["APP_NAME"] \notin {"absent", "empty"}
        /\ Lets(rules["APP_URL"], e["APP_URL"]) <=> e["APP_URL"] \in {"true", "fit", "1e3", "absent"}
        /\ Lets(rules["APP_PORT"], e["APP_PORT"]) <=> e["APP_PORT"] \in S!Numerals \cup {"empty"}
        /\ Lets(rules["PORT"], e["PORT"]) <=> e["PORT"] \in S!Numerals \cup {"empty", "absent"}
        /\ Lets(rules["APP_DEBUG"], e["APP_DEBUG"])
        /\ Lets(rules["APP_FALLBACK_LANGUAGE"], e["APP_FALLBACK_LANGUAGE"])
        /\ Lets(rules["APP_LOGGING"], e["APP_LOGGING"])
        /\ Lets(rules["APP_LOG_LEVEL"], e["APP_LOG_LEVEL"])
        /\ Lets(rules["APP_LOG_SERVICE"], e["APP_LOG_SERVICE"])
                 <=> e["APP_LOG_SERVICE"] \in {"fit", "absent"}
        /\ Lets(rules["APP_CORS_ORIGIN"], e["APP_CORS_ORIGIN"]) <=> e["APP_CORS_ORIGIN"] # "unfit"
        /\ Lets(rules["APP_LOCAL_FILE_UPLOAD"], e["APP_LOCAL_FILE_UPLOAD"])
    BY <1>1, <1>2, <1>4, RuleMeans
  <1>6. ~S!Refused(rules, e) <=> \A s \in DOMAIN rules : S!Ignored(e, s) \/ Lets(rules[s], e[s])
    BY RefusedMeans
  <1>7. \A s \in DOMAIN rules : ~S!Ignored(e, s)
    BY <1>1, IgnoredMeans DEF DatabaseFive
  <1> QED BY <1>1, <1>5, <1>6, <1>7 DEF rules

LEMMA DatabasePasses ==
    ASSUME NEW e \in Envs
    PROVE  ~S!Refused(S!DatabaseRules, e) <=>
             /\ (S!HasUrl(e) \/ e["DATABASE_HOST"] # "absent")
             /\ (S!HasUrl(e) \/ e["DATABASE_PORT"] \in S!Numerals \cup {"empty"})
             /\ (S!HasUrl(e) \/ e["DATABASE_PASSWORD"] # "absent")
             /\ (S!HasUrl(e) \/ e["DATABASE_NAME"] # "absent")
             /\ (S!HasUrl(e) \/ e["DATABASE_USERNAME"] # "absent")
             /\ e["DATABASE_MAX_CONNECTIONS"] \in S!Numerals \cup {"absent"}
             /\ e["DATABASE_SSL_MODE"] \in {"fit", "absent"}
  <1> DEFINE rules == S!DatabaseRules
  <1>1. DOMAIN rules = {"DATABASE_URL", "DATABASE_HOST", "DATABASE_PORT", "DATABASE_PASSWORD",
                        "DATABASE_NAME", "DATABASE_USERNAME", "DATABASE_LOGGING",
                        "DATABASE_MAX_CONNECTIONS", "DATABASE_SSL_MODE",
                        "DATABASE_REJECT_UNAUTHORIZED", "DATABASE_CA", "DATABASE_KEY",
                        "DATABASE_CERT"}
    BY DEF S!DatabaseRules
  <1>2. /\ rules["DATABASE_URL"] = S!Opt("text")
        /\ rules["DATABASE_HOST"] = S!Must("text")
        /\ rules["DATABASE_PORT"] = S!Must("whole")
        /\ rules["DATABASE_PASSWORD"] = S!Must("text")
        /\ rules["DATABASE_NAME"] = S!Must("text")
        /\ rules["DATABASE_USERNAME"] = S!Must("text")
        /\ rules["DATABASE_LOGGING"] = S!Opt("boolean")
        /\ rules["DATABASE_MAX_CONNECTIONS"] = S!Opt("positive")
        /\ rules["DATABASE_SSL_MODE"] = S!Opt("member")
        /\ rules["DATABASE_REJECT_UNAUTHORIZED"] = S!Opt("boolean")
        /\ rules["DATABASE_CA"] = S!Opt("text")
        /\ rules["DATABASE_KEY"] = S!Opt("text")
        /\ rules["DATABASE_CERT"] = S!Opt("text")
    BY DEF S!DatabaseRules
  <1>3. rules \in S!Validators
    BY DEF S!Validators
  <1> HIDE DEF rules
  <1>4. \A s \in DOMAIN rules : e[s] \in S!Texts
    BY <1>3, SettingsHold DEF Envs
  <1>5. /\ Lets(rules["DATABASE_URL"], e["DATABASE_URL"])
        /\ Lets(rules["DATABASE_HOST"], e["DATABASE_HOST"]) <=> e["DATABASE_HOST"] # "absent"
        /\ Lets(rules["DATABASE_PORT"], e["DATABASE_PORT"]) <=> e["DATABASE_PORT"] \in S!Numerals
                 \cup {"empty"}
        /\ Lets(rules["DATABASE_PASSWORD"], e["DATABASE_PASSWORD"])
                 <=> e["DATABASE_PASSWORD"] # "absent"
        /\ Lets(rules["DATABASE_NAME"], e["DATABASE_NAME"]) <=> e["DATABASE_NAME"] # "absent"
        /\ Lets(rules["DATABASE_USERNAME"], e["DATABASE_USERNAME"])
                 <=> e["DATABASE_USERNAME"] # "absent"
        /\ Lets(rules["DATABASE_LOGGING"], e["DATABASE_LOGGING"])
        /\ Lets(rules["DATABASE_MAX_CONNECTIONS"], e["DATABASE_MAX_CONNECTIONS"])
                 <=> e["DATABASE_MAX_CONNECTIONS"] \in S!Numerals \cup {"absent"}
        /\ Lets(rules["DATABASE_SSL_MODE"], e["DATABASE_SSL_MODE"])
                 <=> e["DATABASE_SSL_MODE"] \in {"fit", "absent"}
        /\ Lets(rules["DATABASE_REJECT_UNAUTHORIZED"], e["DATABASE_REJECT_UNAUTHORIZED"])
        /\ Lets(rules["DATABASE_CA"], e["DATABASE_CA"])
        /\ Lets(rules["DATABASE_KEY"], e["DATABASE_KEY"])
        /\ Lets(rules["DATABASE_CERT"], e["DATABASE_CERT"])
    BY <1>1, <1>2, <1>4, RuleMeans
  <1>6. ~S!Refused(rules, e) <=> \A s \in DOMAIN rules : S!Ignored(e, s) \/ Lets(rules[s], e[s])
    BY RefusedMeans
  <1>7. \A s : S!Ignored(e, s) <=> s \in DatabaseFive /\ S!HasUrl(e)
    BY IgnoredMeans
  <1> QED BY <1>1, <1>5, <1>6, <1>7 DEF rules, DatabaseFive

LEMMA RedisPasses ==
    ASSUME NEW e \in Envs
    PROVE  ~S!Refused(S!RedisRules, e) <=>
             /\ e["REDIS_HOST"] \notin {"absent", "empty"}
             /\ e["REDIS_PORT"] \in S!Numerals \cup {"empty", "absent"}
  <1> DEFINE rules == S!RedisRules
  <1>1. DOMAIN rules = {"REDIS_HOST", "REDIS_PORT", "REDIS_PASSWORD", "REDIS_TLS",
                        "REDIS_REJECT_UNAUTHORIZED", "REDIS_CA", "REDIS_KEY", "REDIS_CERT"}
    BY DEF S!RedisRules
  <1>2. /\ rules["REDIS_HOST"] = S!Must("nonempty")
        /\ rules["REDIS_PORT"] = S!Opt("whole")
        /\ rules["REDIS_PASSWORD"] = S!Opt("text")
        /\ rules["REDIS_TLS"] = S!Opt("boolean")
        /\ rules["REDIS_REJECT_UNAUTHORIZED"] = S!Opt("boolean")
        /\ rules["REDIS_CA"] = S!Opt("text")
        /\ rules["REDIS_KEY"] = S!Opt("text")
        /\ rules["REDIS_CERT"] = S!Opt("text")
    BY DEF S!RedisRules
  <1>3. rules \in S!Validators
    BY DEF S!Validators
  <1> HIDE DEF rules
  <1>4. \A s \in DOMAIN rules : e[s] \in S!Texts
    BY <1>3, SettingsHold DEF Envs
  <1>5. /\ Lets(rules["REDIS_HOST"], e["REDIS_HOST"]) <=> e["REDIS_HOST"] \notin {"absent", "empty"}
        /\ Lets(rules["REDIS_PORT"], e["REDIS_PORT"]) <=> e["REDIS_PORT"] \in S!Numerals
                 \cup {"empty", "absent"}
        /\ Lets(rules["REDIS_PASSWORD"], e["REDIS_PASSWORD"])
        /\ Lets(rules["REDIS_TLS"], e["REDIS_TLS"])
        /\ Lets(rules["REDIS_REJECT_UNAUTHORIZED"], e["REDIS_REJECT_UNAUTHORIZED"])
        /\ Lets(rules["REDIS_CA"], e["REDIS_CA"])
        /\ Lets(rules["REDIS_KEY"], e["REDIS_KEY"])
        /\ Lets(rules["REDIS_CERT"], e["REDIS_CERT"])
    BY <1>1, <1>2, <1>4, RuleMeans
  <1>6. ~S!Refused(rules, e) <=> \A s \in DOMAIN rules : S!Ignored(e, s) \/ Lets(rules[s], e[s])
    BY RefusedMeans
  <1>7. \A s \in DOMAIN rules : ~S!Ignored(e, s)
    BY <1>1, IgnoredMeans DEF DatabaseFive
  <1> QED BY <1>1, <1>5, <1>6, <1>7 DEF rules

LEMMA AuthPasses ==
    ASSUME NEW e \in Envs
    PROVE  ~S!Refused(S!AuthRules, e) <=>
             /\ e["AUTH_SECRET"] \notin {"absent", "empty"}
             /\ e["BASIC_AUTH_PASSWORD"] \notin {"absent", "empty"}
             /\ e["GITHUB_CLIENT_ID"] \notin {"absent", "empty"}
  <1> DEFINE rules == S!AuthRules
  <1>1. DOMAIN rules = {"AUTH_SECRET", "BASIC_AUTH_USERNAME", "BASIC_AUTH_PASSWORD",
                        "GITHUB_CLIENT_ID", "GITHUB_CLIENT_SECRET"}
    BY DEF S!AuthRules
  <1>2. /\ rules["AUTH_SECRET"] = S!Must("nonempty")
        /\ rules["BASIC_AUTH_USERNAME"] = S!Opt("text")
        /\ rules["BASIC_AUTH_PASSWORD"] = S!Must("nonempty")
        /\ rules["GITHUB_CLIENT_ID"] = S!Must("nonempty")
        /\ rules["GITHUB_CLIENT_SECRET"] = S!Opt("text")
    BY DEF S!AuthRules
  <1>3. rules \in S!Validators
    BY DEF S!Validators
  <1> HIDE DEF rules
  <1>4. \A s \in DOMAIN rules : e[s] \in S!Texts
    BY <1>3, SettingsHold DEF Envs
  <1>5. /\ Lets(rules["AUTH_SECRET"], e["AUTH_SECRET"]) <=> e["AUTH_SECRET"] \notin {"absent", "empty"}
        /\ Lets(rules["BASIC_AUTH_USERNAME"], e["BASIC_AUTH_USERNAME"])
        /\ Lets(rules["BASIC_AUTH_PASSWORD"], e["BASIC_AUTH_PASSWORD"])
                 <=> e["BASIC_AUTH_PASSWORD"] \notin {"absent", "empty"}
        /\ Lets(rules["GITHUB_CLIENT_ID"], e["GITHUB_CLIENT_ID"])
                 <=> e["GITHUB_CLIENT_ID"] \notin {"absent", "empty"}
        /\ Lets(rules["GITHUB_CLIENT_SECRET"], e["GITHUB_CLIENT_SECRET"])
    BY <1>1, <1>2, <1>4, RuleMeans
  <1>6. ~S!Refused(rules, e) <=> \A s \in DOMAIN rules : S!Ignored(e, s) \/ Lets(rules[s], e[s])
    BY RefusedMeans
  <1>7. \A s \in DOMAIN rules : ~S!Ignored(e, s)
    BY <1>1, IgnoredMeans DEF DatabaseFive
  <1> QED BY <1>1, <1>5, <1>6, <1>7 DEF rules

LEMMA MailPasses ==
    ASSUME NEW e \in Envs
    PROVE  ~S!Refused(S!MailRules, e) <=>
             /\ e["MAIL_HOST"] \notin {"absent", "empty"}
             /\ e["MAIL_PORT"] \in S!Numerals \cup {"empty", "absent"}
             /\ e["MAIL_IGNORE_TLS"] # "absent"
             /\ e["MAIL_SECURE"] # "absent"
             /\ e["MAIL_REQUIRE_TLS"] # "absent"
             /\ e["MAIL_DEFAULT_EMAIL"] = "fit"
             /\ e["MAIL_DEFAULT_NAME"] # "absent"
  <1> DEFINE rules == S!MailRules
  <1>1. DOMAIN rules = {"MAIL_HOST", "MAIL_PORT", "MAIL_USER", "MAIL_PASSWORD", "MAIL_IGNORE_TLS",
                        "MAIL_SECURE", "MAIL_REQUIRE_TLS", "MAIL_DEFAULT_EMAIL", "MAIL_DEFAULT_NAME"}
    BY DEF S!MailRules
  <1>2. /\ rules["MAIL_HOST"] = S!Must("nonempty")
        /\ rules["MAIL_PORT"] = S!Opt("whole")
        /\ rules["MAIL_USER"] = S!Opt("text")
        /\ rules["MAIL_PASSWORD"] = S!Opt("text")
        /\ rules["MAIL_IGNORE_TLS"] = S!Must("boolean")
        /\ rules["MAIL_SECURE"] = S!Must("boolean")
        /\ rules["MAIL_REQUIRE_TLS"] = S!Must("boolean")
        /\ rules["MAIL_DEFAULT_EMAIL"] = S!Must("email")
        /\ rules["MAIL_DEFAULT_NAME"] = S!Must("text")
    BY DEF S!MailRules
  <1>3. rules \in S!Validators
    BY DEF S!Validators
  <1> HIDE DEF rules
  <1>4. \A s \in DOMAIN rules : e[s] \in S!Texts
    BY <1>3, SettingsHold DEF Envs
  <1>5. /\ Lets(rules["MAIL_HOST"], e["MAIL_HOST"]) <=> e["MAIL_HOST"] \notin {"absent", "empty"}
        /\ Lets(rules["MAIL_PORT"], e["MAIL_PORT"]) <=> e["MAIL_PORT"] \in S!Numerals
                 \cup {"empty", "absent"}
        /\ Lets(rules["MAIL_USER"], e["MAIL_USER"])
        /\ Lets(rules["MAIL_PASSWORD"], e["MAIL_PASSWORD"])
        /\ Lets(rules["MAIL_IGNORE_TLS"], e["MAIL_IGNORE_TLS"]) <=> e["MAIL_IGNORE_TLS"] # "absent"
        /\ Lets(rules["MAIL_SECURE"], e["MAIL_SECURE"]) <=> e["MAIL_SECURE"] # "absent"
        /\ Lets(rules["MAIL_REQUIRE_TLS"], e["MAIL_REQUIRE_TLS"]) <=> e["MAIL_REQUIRE_TLS"] # "absent"
        /\ Lets(rules["MAIL_DEFAULT_EMAIL"], e["MAIL_DEFAULT_EMAIL"])
                 <=> e["MAIL_DEFAULT_EMAIL"] = "fit"
        /\ Lets(rules["MAIL_DEFAULT_NAME"], e["MAIL_DEFAULT_NAME"])
                 <=> e["MAIL_DEFAULT_NAME"] # "absent"
    BY <1>1, <1>2, <1>4, RuleMeans
  <1>6. ~S!Refused(rules, e) <=> \A s \in DOMAIN rules : S!Ignored(e, s) \/ Lets(rules[s], e[s])
    BY RefusedMeans
  <1>7. \A s \in DOMAIN rules : ~S!Ignored(e, s)
    BY <1>1, IgnoredMeans DEF DatabaseFive
  <1> QED BY <1>1, <1>5, <1>6, <1>7 DEF rules

LEMMA BullPasses ==
    ASSUME NEW e \in Envs
    PROVE  ~S!Refused(S!BullRules, e) <=>
             /\ e["RETRY_ATTEMPTS_ON_FAIL"] \in S!Numerals \cup {"empty", "absent"}
  <1> DEFINE rules == S!BullRules
  <1>1. DOMAIN rules = {"QUEUE_REMOVE_ON_COMPLETE", "RETRY_ATTEMPTS_ON_FAIL"}
    BY DEF S!BullRules
  <1>2. /\ rules["QUEUE_REMOVE_ON_COMPLETE"] = S!Opt("boolean")
        /\ rules["RETRY_ATTEMPTS_ON_FAIL"] = S!Opt("number")
    BY DEF S!BullRules
  <1>3. rules \in S!Validators
    BY DEF S!Validators
  <1> HIDE DEF rules
  <1>4. \A s \in DOMAIN rules : e[s] \in S!Texts
    BY <1>3, SettingsHold DEF Envs
  <1>5. /\ Lets(rules["QUEUE_REMOVE_ON_COMPLETE"], e["QUEUE_REMOVE_ON_COMPLETE"])
        /\ Lets(rules["RETRY_ATTEMPTS_ON_FAIL"], e["RETRY_ATTEMPTS_ON_FAIL"])
                 <=> e["RETRY_ATTEMPTS_ON_FAIL"] \in S!Numerals \cup {"empty", "absent"}
    BY <1>1, <1>2, <1>4, RuleMeans
  <1>6. ~S!Refused(rules, e) <=> \A s \in DOMAIN rules : S!Ignored(e, s) \/ Lets(rules[s], e[s])
    BY RefusedMeans
  <1>7. \A s \in DOMAIN rules : ~S!Ignored(e, s)
    BY <1>1, IgnoredMeans DEF DatabaseFive
  <1> QED BY <1>1, <1>5, <1>6, <1>7 DEF rules

LEMMA SentryPasses ==
    ASSUME NEW e \in Envs
    PROVE  ~S!Refused(S!SentryRules, e)
  <1> DEFINE rules == S!SentryRules
  <1>1. DOMAIN rules = {"SENTRY_DSN", "SENTRY_LOGGING"}
    BY DEF S!SentryRules
  <1>2. /\ rules["SENTRY_DSN"] = S!Opt("text")
        /\ rules["SENTRY_LOGGING"] = S!Opt("boolean")
    BY DEF S!SentryRules
  <1>3. rules \in S!Validators
    BY DEF S!Validators
  <1> HIDE DEF rules
  <1>4. \A s \in DOMAIN rules : e[s] \in S!Texts
    BY <1>3, SettingsHold DEF Envs
  <1>5. /\ Lets(rules["SENTRY_DSN"], e["SENTRY_DSN"])
        /\ Lets(rules["SENTRY_LOGGING"], e["SENTRY_LOGGING"])
    BY <1>1, <1>2, <1>4, RuleMeans
  <1>6. ~S!Refused(rules, e) <=> \A s \in DOMAIN rules : S!Ignored(e, s) \/ Lets(rules[s], e[s])
    BY RefusedMeans
  <1>7. \A s \in DOMAIN rules : ~S!Ignored(e, s)
    BY <1>1, IgnoredMeans DEF DatabaseFive
  <1> QED BY <1>1, <1>5, <1>6, <1>7 DEF rules

LEMMA ThrottlerPasses ==
    ASSUME NEW e \in Envs
    PROVE  ~S!Refused(S!ThrottlerRules, e) <=>
             /\ e["THROTTLER_LIMIT"] \in S!Numerals \cup {"empty", "absent"}
             /\ e["THROTTLER_TTL"] \in S!Numerals \cup {"empty", "absent"}
  <1> DEFINE rules == S!ThrottlerRules
  <1>1. DOMAIN rules = {"THROTTLER_ENABLED", "THROTTLER_LIMIT", "THROTTLER_TTL"}
    BY DEF S!ThrottlerRules
  <1>2. /\ rules["THROTTLER_ENABLED"] = S!Opt("boolean")
        /\ rules["THROTTLER_LIMIT"] = S!Opt("number")
        /\ rules["THROTTLER_TTL"] = S!Opt("number")
    BY DEF S!ThrottlerRules
  <1>3. rules \in S!Validators
    BY DEF S!Validators
  <1> HIDE DEF rules
  <1>4. \A s \in DOMAIN rules : e[s] \in S!Texts
    BY <1>3, SettingsHold DEF Envs
  <1>5. /\ Lets(rules["THROTTLER_ENABLED"], e["THROTTLER_ENABLED"])
        /\ Lets(rules["THROTTLER_LIMIT"], e["THROTTLER_LIMIT"])
                 <=> e["THROTTLER_LIMIT"] \in S!Numerals \cup {"empty", "absent"}
        /\ Lets(rules["THROTTLER_TTL"], e["THROTTLER_TTL"]) <=> e["THROTTLER_TTL"] \in S!Numerals
                 \cup {"empty", "absent"}
    BY <1>1, <1>2, <1>4, RuleMeans
  <1>6. ~S!Refused(rules, e) <=> \A s \in DOMAIN rules : S!Ignored(e, s) \/ Lets(rules[s], e[s])
    BY RefusedMeans
  <1>7. \A s \in DOMAIN rules : ~S!Ignored(e, s)
    BY <1>1, IgnoredMeans DEF DatabaseFive
  <1> QED BY <1>1, <1>5, <1>6, <1>7 DEF rules

LEMMA AwsPasses ==
    ASSUME NEW e \in Envs
    PROVE  ~S!Refused(S!AwsRules, e)
  <1> DEFINE rules == S!AwsRules
  <1>1. DOMAIN rules = {"AWS_REGION", "AWS_KEY", "AWS_SECRET", "AWS_S3_BUCKET"}
    BY DEF S!AwsRules
  <1>2. /\ rules["AWS_REGION"] = S!Opt("text")
        /\ rules["AWS_KEY"] = S!Opt("text")
        /\ rules["AWS_SECRET"] = S!Opt("text")
        /\ rules["AWS_S3_BUCKET"] = S!Opt("text")
    BY DEF S!AwsRules
  <1>3. rules \in S!Validators
    BY DEF S!Validators
  <1> HIDE DEF rules
  <1>4. \A s \in DOMAIN rules : e[s] \in S!Texts
    BY <1>3, SettingsHold DEF Envs
  <1>5. /\ Lets(rules["AWS_REGION"], e["AWS_REGION"])
        /\ Lets(rules["AWS_KEY"], e["AWS_KEY"])
        /\ Lets(rules["AWS_SECRET"], e["AWS_SECRET"])
        /\ Lets(rules["AWS_S3_BUCKET"], e["AWS_S3_BUCKET"])
    BY <1>1, <1>2, <1>4, RuleMeans
  <1>6. ~S!Refused(rules, e) <=> \A s \in DOMAIN rules : S!Ignored(e, s) \/ Lets(rules[s], e[s])
    BY RefusedMeans
  <1>7. \A s \in DOMAIN rules : ~S!Ignored(e, s)
    BY <1>1, IgnoredMeans DEF DatabaseFive
  <1> QED BY <1>1, <1>5, <1>6, <1>7 DEF rules

LEMMA GrafanaPasses ==
    ASSUME NEW e \in Envs
    PROVE  ~S!Refused(S!GrafanaRules, e) <=>
             /\ e["GRAFANA_USERNAME"] \notin {"absent", "empty"}
             /\ e["GRAFANA_PASSWORD"] \notin {"absent", "empty"}
  <1> DEFINE rules == S!GrafanaRules
  <1>1. DOMAIN rules = {"GRAFANA_USERNAME", "GRAFANA_PASSWORD"}
    BY DEF S!GrafanaRules
  <1>2. /\ rules["GRAFANA_USERNAME"] = S!Must("nonempty")
        /\ rules["GRAFANA_PASSWORD"] = S!Must("nonempty")
    BY DEF S!GrafanaRules
  <1>3. rules \in S!Validators
    BY DEF S!Validators
  <1> HIDE DEF rules
  <1>4. \A s \in DOMAIN rules : e[s] \in S!Texts
    BY <1>3, SettingsHold DEF Envs
  <1>5. /\ Lets(rules["GRAFANA_USERNAME"], e["GRAFANA_USERNAME"])
                 <=> e["GRAFANA_USERNAME"] \notin {"absent", "empty"}
        /\ Lets(rules["GRAFANA_PASSWORD"], e["GRAFANA_PASSWORD"])
                 <=> e["GRAFANA_PASSWORD"] \notin {"absent", "empty"}
    BY <1>1, <1>2, <1>4, RuleMeans
  <1>6. ~S!Refused(rules, e) <=> \A s \in DOMAIN rules : S!Ignored(e, s) \/ Lets(rules[s], e[s])
    BY RefusedMeans
  <1>7. \A s \in DOMAIN rules : ~S!Ignored(e, s)
    BY <1>1, IgnoredMeans DEF DatabaseFive
  <1> QED BY <1>1, <1>5, <1>6, <1>7 DEF rules

LEMMA ValidatorsAre ==
    ASSUME NEW e
    PROVE  (\E rules \in S!Validators : S!Refused(rules, e))
             <=> \/ S!Refused(S!AppRules, e) \/ S!Refused(S!DatabaseRules, e) \/ S!Refused(S!RedisRules, e)
                 \/ S!Refused(S!AuthRules, e) \/ S!Refused(S!MailRules, e) \/ S!Refused(S!BullRules, e)
                 \/ S!Refused(S!SentryRules, e) \/ S!Refused(S!ThrottlerRules, e) \/ S!Refused(S!AwsRules, e)
                 \/ S!Refused(S!GrafanaRules, e)
  BY DEF S!Validators

Loads(e) == \A rules \in S!Validators : ~S!Refused(rules, e)
GetsThrough(r, e) == /\ Loads(e) /\ ~S!FactoryThrows(r, e)
                     /\ e["SENTRY_DSN"] # "absent" /\ S!Port(e) # S!NaN

LEMMA ReadsNumber == \A t \in S!Texts : S!ParseInt(t) # S!NaN <=> t \in S!Numerals
  BY DEF S!Texts, S!Given, S!Numerals, S!ParseInt, S!NaN

LEMMA OtherSettings ==
    {"APP_WORKER_PORT", "QUEUE_FAILED_RETRY_ATTEMPTS", "APP_PORT", "APP_LOG_LEVEL", "REDIS_PASSWORD",
     "SENTRY_DSN", "IS_WORKER", "REDIS_PORT", "MAIL_PORT", "THROTTLER_LIMIT", "THROTTLER_TTL",
     "DATABASE_PORT", "DATABASE_MAX_CONNECTIONS"} \subseteq S!Settings
  <1>1. {"APP_WORKER_PORT", "QUEUE_FAILED_RETRY_ATTEMPTS"} \subseteq S!Settings
    BY DEF S!Settings, S!Unruled
  <1>2. {"APP_PORT", "APP_LOG_LEVEL", "IS_WORKER"} \subseteq DOMAIN S!AppRules
    BY DEF S!AppRules
  <1>3. {"REDIS_PASSWORD", "REDIS_PORT"} \subseteq DOMAIN S!RedisRules
    BY DEF S!RedisRules
  <1>4. {"SENTRY_DSN"} \subseteq DOMAIN S!SentryRules
    BY DEF S!SentryRules
  <1>5. {"MAIL_PORT"} \subseteq DOMAIN S!MailRules
    BY DEF S!MailRules
  <1>6. {"THROTTLER_LIMIT", "THROTTLER_TTL"} \subseteq DOMAIN S!ThrottlerRules
    BY DEF S!ThrottlerRules
  <1>7. {"DATABASE_PORT", "DATABASE_MAX_CONNECTIONS"} \subseteq DOMAIN S!DatabaseRules
    BY DEF S!DatabaseRules
  <1>8. /\ DOMAIN S!AppRules \subseteq S!Settings /\ DOMAIN S!RedisRules \subseteq S!Settings
        /\ DOMAIN S!SentryRules \subseteq S!Settings /\ DOMAIN S!MailRules \subseteq S!Settings
        /\ DOMAIN S!ThrottlerRules \subseteq S!Settings /\ DOMAIN S!DatabaseRules \subseteq S!Settings
    BY SettingsHold DEF S!Validators
  <1> QED BY <1>1, <1>2, <1>3, <1>4, <1>5, <1>6, <1>7, <1>8

\* Validators, readers, factories and bootstrap together ask for exactly what is needed.
LEMMA NothingElseAsked ==
    ASSUME NEW r \in S!Roles, NEW e \in Envs, e["IS_WORKER"] = IF r = "worker" THEN "true" ELSE "unfit"
    PROVE  GetsThrough(r, e) <=> S!Startable(r, e)
  <1> DEFINE port == IF r = "worker" THEN "APP_WORKER_PORT" ELSE "APP_PORT"
  <1>1. S!Port(e) # S!NaN <=> e[port] \in S!Numerals
    <2>1. S!Port(e) = S!ParseInt(e[port])
      BY DEF S!Port, S!AppConfig
    <2>2. e[port] \in S!Texts
      BY OtherSettings DEF Envs
    <2> QED BY <2>1, <2>2, ReadsNumber
  <1>2. ~S!FactoryThrows(r, e) <=>
           /\ e["REDIS_PASSWORD"] # "absent" /\ e["APP_LOG_LEVEL"] \in {"fit", "absent", "empty"}
           /\ r = "server" => /\ e["APP_URL"] \in {"fit", "absent", "empty"}
                              /\ e["AWS_REGION"] # "empty"
    BY DEF S!FactoryThrows, S!RedisConfig, S!AppConfig, S!AwsConfig
  <1>3. Loads(e) <=> /\ ~S!Refused(S!AppRules, e) /\ ~S!Refused(S!DatabaseRules, e) /\ ~S!Refused(S!RedisRules, e)
                     /\ ~S!Refused(S!AuthRules, e) /\ ~S!Refused(S!MailRules, e)
                              /\ ~S!Refused(S!BullRules, e)
                     /\ ~S!Refused(S!ThrottlerRules, e) /\ ~S!Refused(S!GrafanaRules, e)
    BY ValidatorsAre, SentryPasses, AwsPasses DEF Loads
  <1>4. Loads(e) <=>
           /\ e["NODE_ENV"] \in {"fit", "absent"} /\ e["APP_NAME"] \notin {"absent", "empty"}
           /\ e["APP_URL"] \in {"true", "fit", "1e3", "absent"}
           /\ e["APP_PORT"] \in S!Numerals \cup {"empty"}
           /\ e["PORT"] \in S!Numerals \cup {"empty", "absent"}
           /\ e["APP_LOG_SERVICE"] \in {"fit", "absent"} /\ e["APP_CORS_ORIGIN"] # "unfit"
           /\ S!HasUrl(e) \/ /\ e["DATABASE_HOST"] # "absent" /\ e["DATABASE_PASSWORD"] # "absent"
                             /\ e["DATABASE_NAME"] # "absent" /\ e["DATABASE_USERNAME"] # "absent"
                             /\ e["DATABASE_PORT"] \in S!Numerals \cup {"empty"}
           /\ e["DATABASE_MAX_CONNECTIONS"] \in S!Numerals \cup {"absent"}
           /\ e["DATABASE_SSL_MODE"] \in {"fit", "absent"}
           /\ e["REDIS_HOST"] \notin {"absent", "empty"}
           /\ e["REDIS_PORT"] \in S!Numerals \cup {"empty", "absent"}
           /\ e["AUTH_SECRET"] \notin {"absent", "empty"} /\ e["BASIC_AUTH_PASSWORD"] \notin {"absent",
                    "empty"}
           /\ e["GITHUB_CLIENT_ID"] \notin {"absent", "empty"}
           /\ e["MAIL_HOST"] \notin {"absent", "empty"} /\ e["MAIL_PORT"] \in S!Numerals
                    \cup {"empty", "absent"}
           /\ e["MAIL_IGNORE_TLS"] # "absent" /\ e["MAIL_SECURE"] # "absent"
                    /\ e["MAIL_REQUIRE_TLS"] # "absent"
           /\ e["MAIL_DEFAULT_EMAIL"] = "fit" /\ e["MAIL_DEFAULT_NAME"] # "absent"
           /\ e["RETRY_ATTEMPTS_ON_FAIL"] \in S!Numerals \cup {"empty", "absent"}
           /\ e["THROTTLER_LIMIT"] \in S!Numerals \cup {"empty", "absent"}
           /\ e["THROTTLER_TTL"] \in S!Numerals \cup {"empty", "absent"}
           /\ e["GRAFANA_USERNAME"] \notin {"absent", "empty"}
                    /\ e["GRAFANA_PASSWORD"] \notin {"absent", "empty"}
    BY <1>3, AppPasses, DatabasePasses, RedisPasses, AuthPasses, MailPasses, BullPasses,
       ThrottlerPasses,
       GrafanaPasses
  <1>5. S!Startable(r, e) <=>
           /\ \A s \in S!NeedText \ {"APP_PORT"} : e[s] \notin {"absent", "empty"}
           /\ e["APP_PORT"] # "absent" /\ (r # "worker" => e["APP_PORT"] # "empty")
           /\ \A s \in S!NeedKey : e[s] # "absent"
           /\ e[port] \in S!Numerals
           /\ e["APP_PORT"] \in S!Numerals \cup {"empty"}
           /\ S!HasUrl(e) \/ /\ \A s \in S!NeedKeyOrUrl : e[s] # "absent"
                             /\ e["DATABASE_PORT"] \in S!Numerals \cup {"empty"}
           /\ \A s \in S!MayBeNumber : e[s] \in S!Numerals \cup {"empty", "absent"}
           /\ e["DATABASE_MAX_CONNECTIONS"] \in S!Numerals \cup {"absent"}
           /\ e["NODE_ENV"] \in {"fit", "absent"} /\ e["APP_LOG_SERVICE"] \in {"fit", "absent"}
           /\ e["DATABASE_SSL_MODE"] \in {"fit", "absent"}
           /\ e["APP_LOG_LEVEL"] \in {"fit", "absent", "empty"}
           /\ e["APP_URL"] \in {"fit", "absent"} \cup IF r = "worker" THEN {"true", "1e3"} ELSE {}
           /\ r = "server" => e["AWS_REGION"] # "empty"
           /\ e["APP_CORS_ORIGIN"] # "unfit"
           /\ e["MAIL_DEFAULT_EMAIL"] = "fit"
    BY DEF S!Startable, S!NeedText
  <1>6. /\ (\A s \in S!NeedText \ {"APP_PORT"} : e[s] \notin {"absent", "empty"}) <=>
             /\ e["APP_NAME"] \notin {"absent", "empty"} /\ e["REDIS_HOST"] \notin {"absent", "empty"}
             /\ e["AUTH_SECRET"] \notin {"absent", "empty"}
                      /\ e["BASIC_AUTH_PASSWORD"] \notin {"absent", "empty"}
             /\ e["GITHUB_CLIENT_ID"] \notin {"absent", "empty"} /\ e["MAIL_HOST"] \notin {"absent",
                      "empty"}
             /\ e["GRAFANA_USERNAME"] \notin {"absent", "empty"}
                      /\ e["GRAFANA_PASSWORD"] \notin {"absent", "empty"}
        /\ (\A s \in S!NeedKey : e[s] # "absent") <=>
             /\ e["REDIS_PASSWORD"] # "absent" /\ e["SENTRY_DSN"] # "absent"
                      /\ e["MAIL_IGNORE_TLS"] # "absent"
             /\ e["MAIL_SECURE"] # "absent" /\ e["MAIL_REQUIRE_TLS"] # "absent"
                      /\ e["MAIL_DEFAULT_NAME"] # "absent"
        /\ (\A s \in S!NeedKeyOrUrl : e[s] # "absent") <=>
             /\ e["DATABASE_HOST"] # "absent" /\ e["DATABASE_PASSWORD"] # "absent"
             /\ e["DATABASE_NAME"] # "absent" /\ e["DATABASE_USERNAME"] # "absent"
        /\ (\A s \in S!MayBeNumber : e[s] \in S!Numerals \cup {"empty", "absent"}) <=>
             /\ e["PORT"] \in S!Numerals \cup {"empty", "absent"}
             /\ e["REDIS_PORT"] \in S!Numerals \cup {"empty", "absent"}
             /\ e["MAIL_PORT"] \in S!Numerals \cup {"empty", "absent"}
             /\ e["RETRY_ATTEMPTS_ON_FAIL"] \in S!Numerals \cup {"empty", "absent"}
             /\ e["THROTTLER_LIMIT"] \in S!Numerals \cup {"empty", "absent"}
             /\ e["THROTTLER_TTL"] \in S!Numerals \cup {"empty", "absent"}
    BY DEF S!NeedText, S!NeedKey, S!NeedKeyOrUrl, S!MayBeNumber
  <1>7. /\ e["APP_PORT"] \in S!Numerals \cup {"empty"} => e["APP_PORT"] # "absent"
        /\ r # "worker" /\ e[port] \in S!Numerals => e["APP_PORT"] # "empty"
    BY DEF S!Numerals
  <1>8. e["APP_URL"] \in {"fit", "absent"} \cup (IF r = "worker" THEN {"true", "1e3"} ELSE {})
           <=> /\ e["APP_URL"] \in {"true", "fit", "1e3", "absent"}
               /\ r = "server" => e["APP_URL"] \in {"fit", "absent", "empty"}
    BY DEF S!Roles
  <1> QED BY <1>1, <1>2, <1>4, <1>5, <1>6, <1>7, <1>8 DEF GetsThrough

\* Where a process is tells which checks its environment has passed; a process that exited
\* has failed one of them.
Booted(place, r, e) ==
    /\ place \in {"assembling", "preparing", "listening", "up"} => Loads(e)
    /\ place \in {"preparing", "listening", "up"} => "DataSource" \in build /\ ~S!FactoryThrows(r, e)
    /\ place \in {"listening", "up"} => e["SENTRY_DSN"] # "absent"
    /\ place = "up" => S!Port(e) # S!NaN
    /\ place = "exited" => "DataSource" \notin build \/ ~GetsThrough(r, e)

Role(r, e) == e["IS_WORKER"] = IF r = "worker" THEN "true" ELSE "unfit"
Places == {"off", "down", "exited", "up"} \cup S!Booting

BootInv ==
    /\ pc \in [S!Roles -> Places] /\ image \in [S!Roles -> Envs] /\ env \in Envs
    /\ \A r \in S!Roles : Role(r, image[r]) /\ Booted(pc[r], r, image[r])

LEMMA ContainerIs ==
    ASSUME NEW e \in Envs, NEW r \in S!Roles
    PROVE  S!Container(e, r) \in Envs /\ Role(r, S!Container(e, r))
  <1>1. "IS_WORKER" \in S!Settings
    BY OtherSettings
  <1>2. "true" \in S!Texts /\ "unfit" \in S!Texts
    BY DEF S!Texts, S!Given
  <1> QED BY <1>1, <1>2 DEF Envs, S!Container, Role

LEMMA BootStep == BootInv /\ [Next]_vars => BootInv'
  <1> SUFFICES ASSUME BootInv, [Next]_vars PROVE BootInv'
    OBVIOUS
  <1> DEFINE Keeps == /\ pc' \in [S!Roles -> Places] /\ image' \in [S!Roles -> Envs] /\ env' \in Envs
                      /\ build' = build
                      /\ \A r \in S!Roles : Role(r, image'[r]) /\ Booted(pc'[r], r, image'[r])
  <1>1. SUFFICES Keeps
    BY DEF BootInv, Role, Booted
  <1>2. ASSUME NEW r \in S!Roles, NEW place \in Places, pc' = [pc EXCEPT ![r] = place],
               Booted(place, r, image[r]), UNCHANGED <<env, build, image>>
        PROVE  Keeps
    <2>1. /\ \A q \in S!Roles \ {r} : pc'[q] = pc[q]
          /\ pc'[r] = place /\ pc' \in [S!Roles -> Places]
      BY <1>2 DEF BootInv
    <2> QED BY <1>2, <2>1 DEF BootInv
  <1> HIDE DEF Keeps
  <1>3. "loading" \in Places /\ "down" \in Places /\ \A p \in S!Booting
           \cup {"exited", "up"} : p \in Places
    BY DEF Places, S!Booting
  <1>4. \A r \in S!Roles : Booted(pc[r], r, image[r])
    BY DEF BootInv
  <1>5. ASSUME NEW r \in S!Roles, S!Start(r) \/ S!Crash(r) PROVE Keeps
    <2>1. PICK p \in {"loading", "down"} : pc' = [pc EXCEPT ![r] = p] /\ UNCHANGED <<env, build, image>>
      BY <1>5 DEF S!Start, S!Crash
    <2>2. Booted(p, r, image[r])
      BY DEF Booted
    <2> QED BY <1>2, <1>3, <2>1, <2>2
  <1>6. ASSUME NEW r \in S!Roles, S!Load(r) PROVE Keeps
    <2>1. PICK p \in {"exited", "assembling"} :
             /\ pc[r] = "loading" /\ pc' = [pc EXCEPT ![r] = p] /\ UNCHANGED <<env, build, image>>
             /\ p = "exited" <=> ~Loads(image[r])
      BY <1>6 DEF S!Load, S!Advance, Loads
    <2>2. Booted(p, r, image[r])
      BY <2>1 DEF Booted, GetsThrough
    <2>3. p \in Places
      BY <1>3 DEF S!Booting
    <2> QED BY <1>2, <2>1, <2>2, <2>3
  <1>7. ASSUME NEW r \in S!Roles, S!Assemble(r) PROVE Keeps
    <2>1. PICK p \in {"exited", "preparing"} :
             /\ pc[r] = "assembling" /\ pc' = [pc EXCEPT ![r] = p] /\ UNCHANGED <<env, build, image>>
             /\ p = "exited" <=> "DataSource" \notin build \/ S!FactoryThrows(r, image[r])
      BY <1>7 DEF S!Assemble, S!Advance
    <2>2. Booted(p, r, image[r])
      BY <1>4, <2>1 DEF Booted, GetsThrough
    <2>3. p \in Places
      BY <1>3 DEF S!Booting
    <2> QED BY <1>2, <2>1, <2>2, <2>3
  <1>8. ASSUME NEW r \in S!Roles, S!Prepare(r) PROVE Keeps
    <2>1. PICK p \in {"exited", "listening"} :
             /\ pc[r] = "preparing" /\ pc' = [pc EXCEPT ![r] = p] /\ UNCHANGED <<env, build, image>>
             /\ p = "exited" <=> image[r]["SENTRY_DSN"] = "absent"
      BY <1>8 DEF S!Prepare, S!Advance
    <2>2. Booted(p, r, image[r])
      BY <1>4, <2>1 DEF Booted, GetsThrough
    <2>3. p \in Places
      BY <1>3 DEF S!Booting
    <2> QED BY <1>2, <2>1, <2>2, <2>3
  <1>9. ASSUME NEW r \in S!Roles, S!Listen(r) PROVE Keeps
    <2>1. PICK p \in {"exited", "up"} :
             /\ pc[r] = "listening" /\ pc' = [pc EXCEPT ![r] = p] /\ UNCHANGED <<env, build, image>>
             /\ p = "exited" <=> S!Port(image[r]) = S!NaN
      BY <1>9 DEF S!Listen, S!Advance
    <2>2. Booted(p, r, image[r])
      BY <1>4, <2>1 DEF Booted, GetsThrough
    <2>3. p \in Places
      BY <1>3
    <2> QED BY <1>2, <2>1, <2>2, <2>3
  <1>10. ASSUME NEW r \in S!Roles, S!Recreate(r) PROVE Keeps
    <2>1. /\ image' = [image EXCEPT ![r] = S!Container(env, r)] /\ pc' = [pc EXCEPT ![r] = "loading"]
          /\ UNCHANGED <<env, build>>
      BY <1>10 DEF S!Recreate
    <2>2. S!Container(env, r) \in Envs /\ Role(r, S!Container(env, r))
      BY ContainerIs DEF BootInv
    <2>3. Booted("loading", r, S!Container(env, r))
      BY DEF Booted
    <2>4. /\ \A q \in S!Roles \ {r} : pc'[q] = pc[q] /\ image'[q] = image[q]
          /\ pc'[r] = "loading" /\ image'[r] = S!Container(env, r)
          /\ pc' \in [S!Roles -> Places] /\ image' \in [S!Roles -> Envs]
      BY <1>3, <2>1, <2>2 DEF BootInv
    <2> QED BY <1>4, <2>1, <2>2, <2>3, <2>4 DEF BootInv, Keeps
  <1>11. ASSUME NEW e \in Environments, S!Edit(e) PROVE Keeps
    <2>1. e \in Envs
      BY DeploymentAssumption DEF Envs
    <2> QED BY <1>11, <2>1 DEF S!Edit, BootInv, Keeps
  <1>12. CASE UNCHANGED startupVars
    BY <1>12 DEF startupVars, BootInv, Keeps
  <1> QED
    BY <1>5, <1>6, <1>7, <1>8, <1>9, <1>10, <1>11, <1>12
       DEF Next, Process, TypeOrmTool, DrizzleTool, UserStep, vars, S!Next, S!RoleStep

LEMMA BootAlways == Spec => []BootInv
  <1>1. Init => BootInv
    <2> SUFFICES ASSUME Init PROVE BootInv
      OBVIOUS
    <2>1. /\ env \in Envs /\ pc \in [S!Roles -> {"off", "down"}]
          /\ image = [r \in S!Roles |-> S!Container(env, r)]
      BY DeploymentAssumption DEF Init, S!Init, Envs
    <2>2. image \in [S!Roles -> Envs] /\ \A r \in S!Roles : Role(r, image[r])
      BY <2>1, ContainerIs
    <2>3. \A r \in S!Roles : Booted(pc[r], r, image[r])
      BY <2>1 DEF Booted
    <2>4. pc \in [S!Roles -> Places]
      BY <2>1 DEF Places
    <2> QED BY <2>1, <2>2, <2>3, <2>4 DEF BootInv
  <1> QED BY <1>1, BootStep, PTL DEF Spec

(* A process gets through bootstrap with exactly the environments that     *)
(* Startable lists, whatever the texts of all the settings: validators,    *)
(* readers, factories and bootstrap refuse nothing else and let nothing    *)
(* else run.                                                               *)
THEOREM BootsExactly == Spec => []StartsExactly
  <1>1. BootInv => StartsExactly
    <2> SUFFICES ASSUME BootInv, NEW r \in S!Roles
                 PROVE  /\ pc[r] = "up" => "DataSource" \in build /\ S!Startable(r, image[r])
                        /\ pc[r] = "exited" => "DataSource" \notin build \/ ~S!Startable(r, image[r])
      BY DEF StartsExactly, S!StartsExactly
    <2>1. GetsThrough(r, image[r]) <=> S!Startable(r, image[r])
      BY NothingElseAsked DEF BootInv, Role
    <2>2. Booted(pc[r], r, image[r])
      BY DEF BootInv
    <2> QED BY <2>1, <2>2 DEF Booted, GetsThrough
  <1> QED BY <1>1, BootAlways, PTL

(* A number a running process works with is a number, but for those that   *)
(* may be left out and have no default, the database's port when a url is  *)
(* given, and the attempts of a job: for every environment.                *)
THEOREM NumbersAreRead == Spec => []NumbersRead
  <1>1. BootInv => NumbersRead
    <2> SUFFICES ASSUME BootInv, NEW r \in S!Roles, NEW s \in DOMAIN S!Numbers(env), pc[r] = "up",
                        S!Numbers(image[r])[s] = S!NaN
                 PROVE  \/ s \in {"REDIS_PORT", "THROTTLER_LIMIT", "THROTTLER_TTL"}
                           /\ image[r][s] \in {"absent", "empty"}
                        \/ s = "DATABASE_PORT" /\ S!HasUrl(image[r])
                        \/ s = "QUEUE_FAILED_RETRY_ATTEMPTS"
      BY DEF NumbersRead, S!NumbersRead
    <2> DEFINE e == image[r]
    <2>1. e \in Envs /\ S!Startable(r, e)
      BY NothingElseAsked DEF BootInv, Booted, GetsThrough, Role
    <2>2. \A t \in S!Texts : S!ParseInt(t) = S!NaN => t \notin S!Numerals
      BY ReadsNumber
    <2>3. s \in {"DATABASE_PORT", "DATABASE_MAX_CONNECTIONS", "REDIS_PORT", "MAIL_PORT",
                 "QUEUE_FAILED_RETRY_ATTEMPTS", "THROTTLER_LIMIT", "THROTTLER_TTL"}
      BY DEF S!Numbers
    <2>4. e[s] \in S!Texts
      BY <2>1, <2>3, OtherSettings DEF Envs
    <2> HIDE DEF e
    <2>5. \A t, n : t \in S!Texts /\ n \in Nat /\ S!OrDefault(t, n) = S!NaN
                       => t \notin S!Numerals \cup {"absent", "empty"}
      BY <2>2 DEF S!OrDefault, S!NaN
    <2>6. CASE s = "DATABASE_PORT"
      <3>1. S!OrDefault(e[s], 5432) = S!NaN
        BY <2>6 DEF e, S!Numbers, S!DatabaseConfig
      <3>2. e[s] \notin S!Numerals \cup {"empty"}
        BY <2>4, <2>5, <3>1
      <3> QED BY <2>1, <2>6, <3>2 DEF S!Startable, e
    <2>7. CASE s = "DATABASE_MAX_CONNECTIONS"
      <3>1. S!OrDefault(e[s], 100) = S!NaN
        BY <2>7 DEF e, S!Numbers, S!DatabaseConfig
      <3>2. e[s] \notin S!Numerals \cup {"absent"}
        BY <2>4, <2>5, <3>1
      <3> QED BY <2>1, <2>7, <3>2 DEF S!Startable
    <2>8. CASE s = "MAIL_PORT"
      <3>1. S!OrDefault(e[s], 587) = S!NaN
        BY <2>8 DEF e, S!Numbers, S!MailConfig
      <3>2. e[s] \notin S!Numerals \cup {"absent", "empty"}
        BY <2>4, <2>5, <3>1
      <3>3. e[s] \in S!Numerals \cup {"absent", "empty"}
        BY <2>1, <2>8 DEF S!Startable, S!MayBeNumber
      <3> QED BY <3>2, <3>3
    <2>9. CASE s \in {"REDIS_PORT", "THROTTLER_LIMIT", "THROTTLER_TTL"}
      <3>1. e[s] \in S!Numerals \cup {"absent", "empty"}
        BY <2>1, <2>9 DEF S!Startable, S!MayBeNumber
      <3>2. S!ParseInt(e[s]) = S!NaN
        BY <2>9 DEF e, S!Numbers, S!RedisConfig, S!ThrottlerConfig, S!NaN
      <3>3. e[s] \in {"absent", "empty"}
        BY <2>2, <2>4, <3>1, <3>2
      <3> QED BY <2>9, <3>3 DEF e
    <2> QED BY <2>3, <2>6, <2>7, <2>8, <2>9
  <1> QED BY <1>1, BootAlways, PTL
-----------------------------------------------------------------------------
(* Database: the objects each migration creates and drops.                 *)
\* What the migrations create, each as one set.
LEMMA UpsAre ==
    /\ Len(D!Ups) = 5
    /\ D!Ups[1] = D!InitUp /\ D!Ups[2] = D!NamesUp /\ D!Ups[3] = D!DisplayUsernameUp
    /\ D!Ups[4] = D!TwoFactorUp /\ D!Ups[5] = D!PasskeyUp
  BY DEF D!Ups
LEMMA DownsAre ==
    /\ D!Downs[1] = D!InitDown /\ D!Downs[2] = D!NamesDown /\ D!Downs[3] = D!DisplayUsernameDown
    /\ D!Downs[4] = D!TwoFactorDown /\ D!Downs[5] = D!PasskeyDown
  BY DEF D!Downs

LEMMA OfTwo == ASSUME NEW a, NEW b PROVE D!All(<<a, b>>) = a \cup b
  <1>1. DOMAIN <<a, b>> = 1 .. 2
    OBVIOUS
  <1>2. \A n \in 1 .. 2 : n = 1 \/ n = 2
    OBVIOUS
  <1>3. D!ToSet(<<a, b>>) = {a, b}
    BY <1>1, <1>2 DEF D!ToSet
  <1> QED BY <1>3 DEF D!All
LEMMA OfThree == ASSUME NEW a, NEW b, NEW c PROVE D!All(<<a, b, c>>) = a \cup b \cup c
  <1>1. DOMAIN <<a, b, c>> = 1 .. 3
    OBVIOUS
  <1>2. \A n \in 1 .. 3 : n = 1 \/ n = 2 \/ n = 3
    OBVIOUS
  <1>3. D!ToSet(<<a, b, c>>) = {a, b, c}
    BY <1>1, <1>2 DEF D!ToSet
  <1> QED BY <1>3 DEF D!All
LEMMA OfNine ==
    ASSUME NEW a, NEW b, NEW c, NEW d, NEW e, NEW f, NEW g, NEW h, NEW i
    PROVE  D!All(<<a, b, c, d, e, f, g, h, i>>)
             = a \cup b \cup c \cup d \cup e \cup f \cup g \cup h \cup i
  <1> DEFINE all == <<a, b, c, d, e, f, g, h, i>>
  <1>1. DOMAIN all = 1 .. 9
    OBVIOUS
  <1>2. \A n \in 1 .. 9 : n = 1 \/ n = 2 \/ n = 3 \/ n = 4 \/ n = 5 \/ n = 6 \/ n = 7 \/ n = 8 \/ n = 9
    OBVIOUS
  <1>3. D!ToSet(all) = {a, b, c, d, e, f, g, h, i}
    <2>1. /\ all[1] = a /\ all[2] = b /\ all[3] = c /\ all[4] = d /\ all[5] = e /\ all[6] = f
          /\ all[7] = g /\ all[8] = h /\ all[9] = i
      OBVIOUS
    <2>2. \A n \in 1 .. 9 : all[n] \in {a, b, c, d, e, f, g, h, i}
      BY <1>2, <2>1
    <2>3. \A x \in {a, b, c, d, e, f, g, h, i} : \E n \in 1 .. 9 : x = all[n]
      BY <2>1
    <2> HIDE DEF all
    <2> QED BY <1>1, <2>2, <2>3 DEF D!ToSet
  <1> QED BY <1>3 DEF D!All

Objs(n) == D!All(D!Ups[n])

LEMMA ObjsAre ==
    /\ Objs(1) = D!CreateTable("verification", {"identifier", "value", "expiresAt"}, {}, {})
                 \cup {D!Enum("user_role_enum")}
                 \cup D!CreateTable("user", {"username", "email"}, {"isEmailVerified", "role"}, {"image", "bio"})
                 \cup {D!Unique("user", "username", "live")} \cup {D!Unique("user", "email", "live")}
                 \cup D!CreateTable("session", {"userId", "token", "expiresAt"}, {}, {"ipAddress", "userAgent"})
                 \cup D!CreateTable("account", {"userId", "accountId", "providerId"}, {}, D!Tokens)
                 \cup {D!Reference("session")} \cup {D!Reference("account")}
    /\ Objs(2) = D!Columns("user", {"firstName"}, "optional")
             \cup D!Columns("user", {"lastName"}, "optional")
    /\ Objs(3) = {D!Column("user", "displayUsername", "optional")}
             \cup {D!Index("user", "displayUsername")}
    /\ Objs(4) = D!CreateTable("twoFactor", {"userId"}, {}, {"secret", "backupCodes"})
                 \cup {D!Column("user", "twoFactorEnabled", "defaulted")}
                    \cup {D!Reference("twoFactor")}
    /\ Objs(5) = D!CreateTable("passkey", {"userId", "publicKey", "credentialID", "counter", "deviceType",
                                           "backedUp", "transports"}, {}, {"name"})
                 \cup {D!Reference("passkey")}
  BY UpsAre, OfTwo, OfThree, OfNine
     DEF Objs, D!InitUp, D!NamesUp, D!DisplayUsernameUp, D!TwoFactorUp, D!PasskeyUp

LEMMA DroppedAre ==
    /\ D!All(D!Downs[1]) = {D!Reference("account")} \cup {D!Reference("session")}
             \cup {D!Table("account")}
                           \cup {D!Table("session")} \cup {D!Unique("user", "email", "live")}
                           \cup {D!Unique("user", "username", "live")} \cup {D!Table("user")}
                           \cup {D!Enum("user_role_enum")} \cup {D!Table("verification")}
    /\ D!All(D!Downs[2]) = Objs(2)
    /\ D!All(D!Downs[3]) = Objs(3)
    /\ D!All(D!Downs[4]) = {D!Reference("twoFactor")}
             \cup {D!Column("user", "twoFactorEnabled", "defaulted")}
                           \cup {D!Table("twoFactor")}
    /\ D!All(D!Downs[5]) = {D!Reference("passkey")} \cup {D!Table("passkey")}
  <1>1. /\ D!All(D!Downs[2]) = D!Columns("user", {"lastName"}, "optional")
                 \cup D!Columns("user", {"firstName"}, "optional")
        /\ D!All(D!Downs[3]) = {D!Index("user", "displayUsername")}
                 \cup {D!Column("user", "displayUsername", "optional")}
    BY DownsAre, OfTwo DEF D!NamesDown, D!DisplayUsernameDown
  <1>2. D!All(D!Downs[2]) = Objs(2) /\ D!All(D!Downs[3]) = Objs(3)
    BY <1>1, ObjsAre
  <1> QED
    BY <1>2, DownsAre, OfTwo, OfThree, OfNine DEF D!InitDown, D!TwoFactorDown, D!PasskeyDown

\* The parts of the objects.
LEMMA Parts ==
    /\ \A t : /\ D!Table(t)[1] = "table" /\ D!Table(t)[2] = t /\ D!Table(t)[3] = "-"
             /\ D!Table(t)[4] = "-"
              /\ D!Enum(t)[1] = "type" /\ D!Enum(t)[2] = t /\ D!Enum(t)[3] = "-" /\ D!Enum(t)[4] = "-"
              /\ D!Reference(t)[1] = "reference" /\ D!Reference(t)[2] = t
                       /\ D!Reference(t)[3] = "userId"
              /\ D!Reference(t)[4] = "user"
    /\ \A t, c : /\ D!Index(t, c)[1] = "index" /\ D!Index(t, c)[2] = t /\ D!Index(t, c)[3] = c
                 /\ D!Index(t, c)[4] = "-"
    /\ \A t, c, k : /\ D!Column(t, c, k)[1] = "column" /\ D!Column(t, c, k)[2] = t
                    /\ D!Column(t, c, k)[3] = c /\ D!Column(t, c, k)[4] = k
                    /\ D!Unique(t, c, k)[1] = "unique" /\ D!Unique(t, c, k)[2] = t
                    /\ D!Unique(t, c, k)[3] = c /\ D!Unique(t, c, k)[4] = k
  BY DEF D!Table, D!Enum, D!Column, D!Unique, D!Index, D!Reference

\* The objects a CREATE TABLE makes.
LEMMA OfCreateTable ==
    ASSUME NEW t, NEW required, NEW defaulted, NEW optional,
           NEW o \in D!CreateTable(t, required, defaulted, optional)
    PROVE  \/ o = D!Table(t)
           \/ \E c \in {"id", "createdAt", "updatedAt", "deletedAt"} \cup required \cup defaulted
                    \cup optional,
                 k \in {"required", "defaulted", "optional"} : o = D!Column(t, c, k)
  BY DEF D!CreateTable, D!BaseColumns, D!Columns

LEMMA OfColumns ==
    ASSUME NEW t, NEW cs, NEW k, NEW o \in D!Columns(t, cs, k)
    PROVE  \E c \in cs : o = D!Column(t, c, k)
  BY DEF D!Columns

\* Which table each object belongs to, and the names that come later.
LEMMA ObjectsBelong ==
    /\ \A o \in Objs(1) : /\ o[2] \in {"verification", "user_role_enum", "user", "session", "account"}
                          /\ o[3] \notin {"firstName", "lastName", "displayUsername",
                                   "twoFactorEnabled"}
                          /\ o[1] = "type" => o = D!Enum("user_role_enum")
                          /\ o[1] # "type" => o[2] # "user_role_enum"
                          /\ o[1] = "unique" => o[4] = "live"
    /\ \A o \in Objs(2) : o[1] = "column" /\ o[2] = "user" /\ o[3] \in {"firstName", "lastName"}
    /\ \A o \in Objs(3) : o[1] \in {"column", "index"} /\ o[2] = "user" /\ o[3] = "displayUsername"
    /\ \A o \in Objs(4) : /\ o[1] \notin {"type", "unique"} /\ o[2] \in {"twoFactor", "user"}
                          /\ o[2] = "user" => o[3] = "twoFactorEnabled"
    /\ \A o \in Objs(5) : o[1] \notin {"type", "unique"} /\ o[2] = "passkey"
  <1>1. ASSUME NEW t, NEW required, NEW defaulted, NEW optional,
               NEW o \in D!CreateTable(t, required, defaulted, optional)
        PROVE  /\ o[2] = t /\ o[1] \in {"table", "column"}
               /\ o[3] \in {"-", "id", "createdAt", "updatedAt", "deletedAt"} \cup required
                        \cup defaulted \cup optional
    BY OfCreateTable, Parts
  <1>2. ASSUME NEW o \in Objs(1)
        PROVE  /\ o[2] \in {"verification", "user_role_enum", "user", "session", "account"}
               /\ o[3] \notin {"firstName", "lastName", "displayUsername", "twoFactorEnabled"}
               /\ o[1] = "type" => o = D!Enum("user_role_enum")
               /\ o[1] # "type" => o[2] # "user_role_enum"
               /\ o[1] = "unique" => o[4] = "live"
    <2>1. CASE o \in D!CreateTable("verification", {"identifier", "value", "expiresAt"}, {}, {})
      BY <1>1, <2>1
    <2>2. CASE o \in D!CreateTable("user", {"username", "email"}, {"isEmailVerified", "role"}, {"image", "bio"})
      BY <1>1, <2>2
    <2>3. CASE o \in D!CreateTable("session", {"userId", "token", "expiresAt"}, {}, {"ipAddress", "userAgent"})
      BY <1>1, <2>3
    <2>4. CASE o \in D!CreateTable("account", {"userId", "accountId", "providerId"}, {}, D!Tokens)
      BY <1>1, <2>4 DEF D!Tokens
    <2>5. CASE o \in {D!Enum("user_role_enum"), D!Unique("user", "username", "live"),
                      D!Unique("user", "email", "live"), D!Reference("session"), D!Reference("account")}
      BY <2>5, Parts
    <2> QED BY ObjsAre, <2>1, <2>2, <2>3, <2>4, <2>5
  <1>3. \A o \in Objs(2) : o[1] = "column" /\ o[2] = "user" /\ o[3] \in {"firstName", "lastName"}
    BY ObjsAre, OfColumns, Parts
  <1>4. \A o \in Objs(3) : o[1] \in {"column", "index"} /\ o[2] = "user" /\ o[3] = "displayUsername"
    BY ObjsAre, Parts
  <1>5. \A o \in Objs(4) : /\ o[1] \notin {"type", "unique"} /\ o[2] \in {"twoFactor", "user"}
                           /\ o[2] = "user" => o[3] = "twoFactorEnabled"
    BY ObjsAre, <1>1, Parts
  <1>6. \A o \in Objs(5) : o[1] \notin {"type", "unique"} /\ o[2] = "passkey"
    BY ObjsAre, <1>1, Parts
  <1> QED BY <1>2, <1>3, <1>4, <1>5, <1>6

\* The objects of the first k migrations.
Recorded(k) == D!Made(1, k)

LEMMA RecordedIs ==
    /\ Recorded(0) = {}
    /\ \A k \in 1 .. 5 : Recorded(k) = Recorded(k - 1) \cup Objs(k)
    /\ \A k \in 0 .. 4 : Recorded(k) \cup D!Made(k + 1, 5) = Recorded(5)
    /\ \A k \in 0 .. 5 : \A o \in Recorded(k) : \E i \in 1 .. k : o \in Objs(i)
    /\ \A k \in 1 .. 5 : \A i \in 1 .. k : Objs(i) \subseteq Recorded(k)
  <1>1. Recorded(0) = {}
    <2>1. 1 .. 0 = {}
      OBVIOUS
    <2> QED BY <2>1 DEF Recorded, D!Made
  <1>2. \A k \in 1 .. 5 : Recorded(k) = Recorded(k - 1) \cup Objs(k)
    <2>1. \A k \in 1 .. 5 : 1 .. k = (1 .. (k - 1)) \cup {k}
      OBVIOUS
    <2> QED BY <2>1 DEF Recorded, D!Made, Objs
  <1>3. \A k \in 0 .. 4 : Recorded(k) \cup D!Made(k + 1, 5) = Recorded(5)
    <2>1. \A k \in 0 .. 4 : (1 .. k) \cup (k + 1 .. 5) = 1 .. 5
      OBVIOUS
    <2> QED BY <2>1 DEF Recorded, D!Made
  <1>4. \A k \in 0 .. 5 : \A o \in Recorded(k) : \E i \in 1 .. k : o \in Objs(i)
    BY DEF Recorded, D!Made, Objs
  <1>5. \A k \in 1 .. 5 : \A i \in 1 .. k : Objs(i) \subseteq Recorded(k)
    BY DEF Recorded, D!Made, Objs
  <1> QED BY <1>1, <1>2, <1>3, <1>4, <1>5

\* A revert loses every object of its migration and none of an earlier one.
LEMMA RevertUndoes == \A k \in 1 .. 5 : D!Without(Recorded(k), D!All(D!Downs[k])) = Recorded(k - 1)
  <1> DEFINE gone(k) == D!All(D!Downs[k])
             Lost(o, k) == o \in gone(k) \/ (o[1] # "type" /\ D!Table(o[2]) \in gone(k))
  <1>1. \A k \in 1 .. 5 : \A o \in Objs(k) : Lost(o, k)
    <2>1. \A o \in Objs(1) : Lost(o, 1)
      <3>1. D!Enum("user_role_enum") \in gone(1)
            /\ \A t \in {"verification", "user", "session", "account"} : D!Table(t) \in gone(1)
        BY DroppedAre
      <3> HIDE DEF gone
      <3> QED BY <3>1, ObjectsBelong
    <2>2. \A o \in Objs(2) : Lost(o, 2)
      BY DroppedAre
    <2>3. \A o \in Objs(3) : Lost(o, 3)
      BY DroppedAre
    <2>4. \A o \in Objs(4) : Lost(o, 4)
      <3>1. /\ D!Reference("twoFactor") \in gone(4) /\ D!Table("twoFactor") \in gone(4)
            /\ D!Column("user", "twoFactorEnabled", "defaulted") \in gone(4)
        BY DroppedAre
      <3>2. \A o \in Objs(4) : o[1] # "type"
                                  /\ (o[2] = "twoFactor" \/ o = D!Column("user", "twoFactorEnabled", "defaulted"))
        <4>1. \A o \in D!CreateTable("twoFactor", {"userId"}, {}, {"secret", "backupCodes"}) : o[2] = "twoFactor"
          BY OfCreateTable, Parts
        <4> QED BY <4>1, ObjsAre, ObjectsBelong, Parts
      <3> HIDE DEF gone
      <3> QED BY <3>1, <3>2
    <2>5. \A o \in Objs(5) : Lost(o, 5)
      <3>1. D!Table("passkey") \in gone(5)
        BY DroppedAre
      <3> HIDE DEF gone
      <3> QED BY <3>1, ObjectsBelong
    <2> QED BY <2>1, <2>2, <2>3, <2>4, <2>5
  <1>2. \A k \in 1 .. 5 : \A o \in Recorded(k - 1) : ~Lost(o, k)
    <2>1. ASSUME NEW o \in Objs(1) PROVE ~Lost(o, 2) /\ ~Lost(o, 3) /\ ~Lost(o, 4) /\ ~Lost(o, 5)
      BY <2>1, ObjectsBelong, DroppedAre, Parts
    <2>2. ASSUME NEW o \in Objs(2) PROVE ~Lost(o, 3) /\ ~Lost(o, 4) /\ ~Lost(o, 5)
      BY <2>2, ObjectsBelong, DroppedAre, Parts
    <2>3. ASSUME NEW o \in Objs(3) PROVE ~Lost(o, 4) /\ ~Lost(o, 5)
      BY <2>3, ObjectsBelong, DroppedAre, Parts
    <2>4. ASSUME NEW o \in Objs(4) PROVE ~Lost(o, 5)
      BY <2>4, ObjectsBelong, DroppedAre, Parts
    <2>5. \A k \in 1 .. 5 : \A o \in Recorded(k - 1) : \E i \in 1 .. (k - 1) : o \in Objs(i)
      BY RecordedIs
    <2> HIDE DEF Lost
    <2>6. ASSUME NEW k \in 1 .. 5, NEW i \in 1 .. (k - 1), NEW o \in Objs(i) PROVE ~Lost(o, k)
      BY <2>1, <2>2, <2>3, <2>4
    <2> QED BY <2>5, <2>6
  <1>3. \A k \in 1 .. 5 : D!Without(Recorded(k), gone(k)) = {o \in Recorded(k) : ~Lost(o, k)}
    <2> HIDE DEF gone
    <2> QED BY DEF D!Without
  <1>4. \A k \in 1 .. 5 : Recorded(k) = Recorded(k - 1) \cup Objs(k)
    BY RecordedIs
  <1> HIDE DEF Lost, gone
  <1>5. \A k \in 1 .. 5 : D!Without(Recorded(k), gone(k)) = Recorded(k - 1)
    BY <1>1, <1>2, <1>3, <1>4
  <1> QED BY <1>5 DEF gone

\* The schemas there can be, by the number of migrations on record.
IsRecorded(objs, n) ==
    \/ objs = Recorded(n)
    \/ n = 0 /\ objs = D!DrizzleSchema

LEMMA RecordReads ==
    /\ D!SchemaIsRecorded <=> IsRecorded(schema, applied)
    /\ D!SchemaIsRecorded' <=> IsRecorded(schema', applied')
  BY DEF D!SchemaIsRecorded, IsRecorded, Recorded

\* What tells the schemas apart.
LEMMA SchemasDiffer ==
    /\ \A c \in {"username", "email"} : /\ D!Unique("user", c, "all") \in D!DrizzleSchema
                                        /\ D!Unique("user", c, "live") \in Recorded(1)
    /\ \A t \in {"user", "verification"} : D!Table(t) \in D!DrizzleSchema /\ D!Table(t) \in Recorded(1)
    /\ \A k \in 1 .. 5 : Recorded(1) \subseteq Recorded(k)
    /\ \A k \in 0 .. 5 : \A c : D!Unique("user", c, "all") \notin Recorded(k)
  <1>1. \A c \in {"username", "email"} : D!Unique("user", c, "all") \in D!DrizzleSchema
    BY DEF D!DrizzleSchema, D!users
  <1>2. \A t \in {"user", "verification"} : D!Table(t) \in D!DrizzleSchema
    BY DEF D!DrizzleSchema, D!users, D!verifications, D!CreateTable
  <1>3. /\ \A c \in {"username", "email"} : D!Unique("user", c, "live") \in Objs(1)
        /\ \A t \in {"user", "verification"} : D!Table(t) \in Objs(1)
    <2>1. \A t, r, d, o : D!Table(t) \in D!CreateTable(t, r, d, o)
      BY DEF D!CreateTable
    <2> QED BY <2>1, ObjsAre
  <1>4. Objs(1) \subseteq Recorded(1)
    BY RecordedIs
  <1>5. \A k \in 1 .. 5 : Recorded(1) \subseteq Recorded(k)
    <2>1. \A k \in 1 .. 5 : 1 \in 1 .. k
      OBVIOUS
    <2>2. Recorded(1) = Objs(1)
      BY RecordedIs
    <2> QED BY <2>1, <2>2, RecordedIs
  <1>6. \A k \in 0 .. 5 : \A c : D!Unique("user", c, "all") \notin Recorded(k)
    <2>1. \A k \in 1 .. 5 : \A o \in Objs(k) : o[1] = "unique" => o[4] = "live"
      BY ObjectsBelong
    <2>2. \A c : D!Unique("user", c, "all")[1] = "unique" /\ D!Unique("user", c, "all")[4] = "all"
      BY Parts
    <2>3. \A k \in 0 .. 5 : \A o \in Recorded(k) : \E i \in 1 .. 5 : o \in Objs(i)
      BY RecordedIs
    <2> QED BY <2>1, <2>2, <2>3
  <1> QED BY <1>1, <1>2, <1>3, <1>4, <1>5, <1>6

\* No migration is on record over Drizzle's tables, and none runs there.
LEMMA DrizzleStays ==
    ASSUME applied \in 0 .. 5, IsRecorded(schema, applied), schema = D!DrizzleSchema
    PROVE  applied = 0 /\ ~D!MigrateUp
  <1>1. applied = 0
    BY SchemasDiffer DEF IsRecorded
  <1>2. ASSUME D!MigrateUp PROVE FALSE
    <2>1. 1 \in (applied + 1) .. Len(D!Ups) /\ 1 \in DOMAIN D!Ups[1]
      BY <1>1, UpsAre DEF D!InitUp
    <2>2. D!Ups[1][1] \cap schema = {}
      BY <1>2, <2>1 DEF D!MigrateUp, D!Accepts
    <2>3. D!Table("verification") \in D!Ups[1][1]
      BY UpsAre DEF D!InitUp, D!CreateTable
    <2> QED BY <2>2, <2>3, SchemasDiffer
  <1> QED BY <1>1, <1>2

\* Drizzle's migration runs over nothing, TypeORM's not over Drizzle's tables.
LEMMA RecordStep == D!TypeOK /\ D!SchemaIsRecorded /\ [Next]_vars => D!SchemaIsRecorded'
  <1> SUFFICES ASSUME D!TypeOK, IsRecorded(schema, applied),
                         [Next]_vars PROVE IsRecorded(schema', applied')
    BY RecordReads
  <1>1. applied \in 0 .. 5
    BY UpsAre DEF D!TypeOK
  <1>2. CASE D!MigrateUp
    <2>1. /\ applied \in 0 .. 4 /\ applied' = 5
          /\ schema' = schema \cup D!Made(applied + 1, 5)
      BY <1>1, <1>2, UpsAre DEF D!MigrateUp
    <2>2. schema = Recorded(applied)
      BY <1>1, <1>2, DrizzleStays DEF IsRecorded
    <2>3. schema' = Recorded(5)
      BY <2>1, <2>2, RecordedIs DEF IsRecorded
    <2> QED BY <2>1, <2>3 DEF IsRecorded
  <1>3. CASE D!Revert
    <2>1. /\ applied \in 1 .. 5 /\ applied' = applied - 1
          /\ schema' = D!Without(schema, D!All(D!Downs[applied]))
      BY <1>1, <1>3 DEF D!Revert
    <2>2. schema = Recorded(applied)
      BY <2>1 DEF IsRecorded
    <2> QED BY <2>1, <2>2, RevertUndoes DEF IsRecorded
  <1>4. CASE D!DrizzleMigrate
    <2>1. applied' = applied /\ schema' = schema \cup D!DrizzleSchema
             /\ D!DrizzleSchema \cap schema = {}
      BY <1>4 DEF D!DrizzleMigrate, D!Accepts
    <2>2. D!Table("user") \notin schema
      BY <2>1, SchemasDiffer
    <2>3. applied = 0
      BY <1>1, <2>2, SchemasDiffer DEF IsRecorded
    <2>4. schema = {}
      BY <2>2, <2>3, SchemasDiffer, RecordedIs DEF IsRecorded
    <2> QED BY <2>1, <2>3, <2>4 DEF IsRecorded
  <1>5. CASE UNCHANGED <<schema, applied>>
    BY <1>5
  <1> QED
    BY <1>2, <1>3, <1>4, <1>5
       DEF Next, Process, Alongside, TypeOrmTool, DrizzleTool, UserStep, vars, databaseVars, D!TypeOrmTool,
           D!DrizzleTool, D!AuthStep, D!Deletion, D!SignUpStep, D!SignUpStart, D!SignUpFindName,
           D!SignUpFindEmail, D!SignUpFind, D!SignUpUser, D!SignUpAccount, D!SignUpFails, D!SignUpsEnd,
           D!LinkAccount, D!DeleteUser, D!InitialSeed, D!SeedStart, D!SeedStep, D!SeedFind, D!SeedInsert,
           D!SeedAccount, D!SeedFails, D!OfSeed, D!OfSignUp
-----------------------------------------------------------------------------
(* The columns each tool makes.                                            *)
Base == {"id", "createdAt", "updatedAt", "deletedAt"}

LEMMA ColumnsOfColumns ==
    ASSUME NEW t, NEW cs, NEW k, NEW u
    PROVE  /\ D!ColumnsOf(D!Columns(t, cs, k), u) = IF t = u THEN cs ELSE {}
           /\ D!RequiredOf(D!Columns(t, cs, k), u) = IF t = u /\ k = "required" THEN cs ELSE {}
  <1>1. \A c : /\ D!Column(t, c, k)[1] = "column" /\ D!Column(t, c, k)[2] = t
               /\ D!Column(t, c, k)[3] = c /\ D!Column(t, c, k)[4] = k
    BY Parts
  <1> QED BY <1>1 DEF D!ColumnsOf, D!RequiredOf, D!Columns

LEMMA ColumnsOfOne ==
    /\ \A t, c, k, u : /\ D!ColumnsOf({D!Column(t, c, k)}, u) = IF t = u THEN {c} ELSE {}
                       /\ D!RequiredOf({D!Column(t, c, k)}, u) = IF t = u /\ k = "required"
                                THEN {c} ELSE {}
    /\ \A o, u : o[1] # "column" => D!ColumnsOf({o}, u) = {} /\ D!RequiredOf({o}, u) = {}
  <1>1. ASSUME NEW t, NEW c, NEW k, NEW u
        PROVE  /\ D!ColumnsOf({D!Column(t, c, k)}, u) = IF t = u THEN {c} ELSE {}
               /\ D!RequiredOf({D!Column(t, c, k)}, u) = IF t = u /\ k = "required" THEN {c} ELSE {}
    <2>1. /\ D!Column(t, c, k)[1] = "column" /\ D!Column(t, c, k)[2] = t
          /\ D!Column(t, c, k)[3] = c /\ D!Column(t, c, k)[4] = k
      BY Parts
    <2> QED BY <2>1 DEF D!ColumnsOf, D!RequiredOf
  <1>2. \A o, u : o[1] # "column" => D!ColumnsOf({o}, u) = {} /\ D!RequiredOf({o}, u) = {}
    BY DEF D!ColumnsOf, D!RequiredOf
  <1> QED BY <1>1, <1>2

LEMMA ColumnsOfTable ==
    ASSUME NEW t, NEW required, NEW defaulted, NEW optional, NEW u
    PROVE  LET made == D!CreateTable(t, required, defaulted, optional)
           IN  /\ D!ColumnsOf(made, u) = IF t = u THEN Base \cup required \cup defaulted \cup optional
                        ELSE {}
               /\ D!RequiredOf(made, u) = IF t = u THEN required ELSE {}
  <1> DEFINE made == D!CreateTable(t, required, defaulted, optional)
             base == D!Columns(t, {"id", "createdAt", "updatedAt"}, "defaulted")
             deleted == {D!Column(t, "deletedAt", "optional")}
             table == {D!Table(t)}
             r == D!Columns(t, required, "required")
             d == D!Columns(t, defaulted, "defaulted")
             p == D!Columns(t, optional, "optional")
  <1>1. made = table \cup (base \cup deleted) \cup r \cup d \cup p
    BY DEF D!CreateTable, D!BaseColumns
  <1>2. /\ D!ColumnsOf(table, u) = {} /\ D!RequiredOf(table, u) = {}
        /\ D!ColumnsOf(base, u) = (IF t = u THEN {"id", "createdAt", "updatedAt"} ELSE {})
        /\ D!RequiredOf(base, u) = {}
        /\ D!ColumnsOf(deleted, u) = (IF t = u THEN {"deletedAt"} ELSE {})
                 /\ D!RequiredOf(deleted, u) = {}
        /\ D!ColumnsOf(r, u) = (IF t = u THEN required ELSE {})
        /\ D!RequiredOf(r, u) = (IF t = u THEN required ELSE {})
        /\ D!ColumnsOf(d, u) = (IF t = u THEN defaulted ELSE {}) /\ D!RequiredOf(d, u) = {}
        /\ D!ColumnsOf(p, u) = (IF t = u THEN optional ELSE {}) /\ D!RequiredOf(p, u) = {}
    <2>1. D!ColumnsOf(table, u) = {} /\ D!RequiredOf(table, u) = {}
      BY ColumnsOfOne, Parts
    <2>2. D!ColumnsOf(deleted, u) = (IF t = u THEN {"deletedAt"} ELSE {})
             /\ D!RequiredOf(deleted, u) = {}
      BY ColumnsOfOne
    <2>3. /\ D!ColumnsOf(base, u) = (IF t = u THEN {"id", "createdAt", "updatedAt"} ELSE {})
          /\ D!RequiredOf(base, u) = {}
      BY ColumnsOfColumns
    <2>4. /\ D!ColumnsOf(r, u) = (IF t = u THEN required ELSE {})
          /\ D!RequiredOf(r, u) = (IF t = u THEN required ELSE {})
      BY ColumnsOfColumns
    <2>5. /\ D!ColumnsOf(d, u) = (IF t = u THEN defaulted ELSE {}) /\ D!RequiredOf(d, u) = {}
          /\ D!ColumnsOf(p, u) = (IF t = u THEN optional ELSE {}) /\ D!RequiredOf(p, u) = {}
      BY ColumnsOfColumns
    <2> QED BY <2>1, <2>2, <2>3, <2>4, <2>5
  <1> HIDE DEF table, base, deleted, r, d, p, made
  <1>3. /\ D!ColumnsOf(made, u) = D!ColumnsOf(table, u)
                 \cup (D!ColumnsOf(base, u) \cup D!ColumnsOf(deleted, u))
                                  \cup D!ColumnsOf(r, u) \cup D!ColumnsOf(d, u) \cup D!ColumnsOf(p, u)
        /\ D!RequiredOf(made, u) = D!RequiredOf(table, u)
                 \cup (D!RequiredOf(base, u) \cup D!RequiredOf(deleted, u))
                                   \cup D!RequiredOf(r, u) \cup D!RequiredOf(d, u)
                                      \cup D!RequiredOf(p, u)
    <2> DEFINE own == table \cup (base \cup deleted)
    <2>1. /\ D!ColumnsOf(own, u) = D!ColumnsOf(table, u)
                   \cup (D!ColumnsOf(base, u) \cup D!ColumnsOf(deleted, u))
          /\ D!RequiredOf(own, u) = D!RequiredOf(table, u)
                   \cup (D!RequiredOf(base, u) \cup D!RequiredOf(deleted, u))
      BY DEF D!ColumnsOf, D!RequiredOf
    <2> HIDE DEF own
    <2>2. /\ D!ColumnsOf(own \cup r \cup d \cup p, u)
               = D!ColumnsOf(own, u) \cup D!ColumnsOf(r, u) \cup D!ColumnsOf(d, u)
                  \cup D!ColumnsOf(p, u)
          /\ D!RequiredOf(own \cup r \cup d \cup p, u)
               = D!RequiredOf(own, u) \cup D!RequiredOf(r, u) \cup D!RequiredOf(d, u)
                  \cup D!RequiredOf(p, u)
      BY DEF D!ColumnsOf, D!RequiredOf
    <2>3. made = own \cup r \cup d \cup p
      BY <1>1 DEF own
    <2> QED BY <2>1, <2>2, <2>3
  <1>4. /\ D!ColumnsOf(made, u) = IF t = u THEN Base \cup required \cup defaulted \cup optional ELSE {}
        /\ D!RequiredOf(made, u) = IF t = u THEN required ELSE {}
    BY <1>2, <1>3 DEF Base
  <1> QED BY <1>4 DEF made
Tables == {"verification", "user", "session", "account", "twoFactor", "passkey"}

\* The columns each migration adds to each table.
LEMMA ObjsColumns ==
    ASSUME NEW u
    PROVE  /\ D!ColumnsOf(Objs(1), u) =
                  CASE u = "verification" -> Base \cup {"identifier", "value", "expiresAt"}
                    [] u = "user" -> Base \cup {"username", "email", "isEmailVerified", "role", "image",
                       "bio"}
                    [] u = "session" -> Base \cup {"userId", "token", "expiresAt", "ipAddress",
                       "userAgent"}
                    [] u = "account" -> Base \cup {"userId", "accountId", "providerId"} \cup D!Tokens
                    [] OTHER -> {}
           /\ D!RequiredOf(Objs(1), "user") = {"username", "email"}
           /\ D!RequiredOf(Objs(1), "account") = {"userId", "accountId", "providerId"}
  <1> DEFINE a == D!CreateTable("verification", {"identifier", "value", "expiresAt"}, {}, {})
             b == {D!Enum("user_role_enum")}
             c == D!CreateTable("user", {"username", "email"}, {"isEmailVerified", "role"}, {"image", "bio"})
             d == {D!Unique("user", "username", "live")}
             e == {D!Unique("user", "email", "live")}
             f == D!CreateTable("session", {"userId", "token", "expiresAt"}, {}, {"ipAddress", "userAgent"})
             g == D!CreateTable("account", {"userId", "accountId", "providerId"}, {}, D!Tokens)
             h == {D!Reference("session")}
             i == {D!Reference("account")}
  <1>1. Objs(1) = a \cup b \cup c \cup d \cup e \cup f \cup g \cup h \cup i
    BY ObjsAre
  <1>2. \A v : /\ D!ColumnsOf(b, v) = {} /\ D!ColumnsOf(d, v) = {} /\ D!ColumnsOf(e, v) = {}
               /\ D!ColumnsOf(h, v) = {} /\ D!ColumnsOf(i, v) = {}
               /\ D!RequiredOf(b, v) = {} /\ D!RequiredOf(d, v) = {} /\ D!RequiredOf(e, v) = {}
               /\ D!RequiredOf(h, v) = {} /\ D!RequiredOf(i, v) = {}
    BY ColumnsOfOne, Parts
  <1>3. \A v : /\ D!ColumnsOf(a, v) = IF v = "verification" THEN Base
                        \cup {"identifier", "value", "expiresAt"} ELSE {}
               /\ D!RequiredOf(a, v) = IF v = "verification" THEN {"identifier", "value", "expiresAt"}
                        ELSE {}
    BY ColumnsOfTable
  <1>4. \A v : /\ D!ColumnsOf(c, v) = IF v = "user" THEN Base
                        \cup {"username", "email", "isEmailVerified", "role", "image", "bio"} ELSE {}
               /\ D!RequiredOf(c, v) = IF v = "user" THEN {"username", "email"} ELSE {}
    BY ColumnsOfTable
  <1>5. \A v : /\ D!ColumnsOf(f, v) = IF v = "session" THEN Base
                        \cup {"userId", "token", "expiresAt", "ipAddress", "userAgent"} ELSE {}
               /\ D!RequiredOf(f, v) = IF v = "session" THEN {"userId", "token", "expiresAt"} ELSE {}
    BY ColumnsOfTable
  <1>6. \A v : /\ D!ColumnsOf(g, v) = IF v = "account" THEN Base
                        \cup {"userId", "accountId", "providerId"} \cup D!Tokens ELSE {}
               /\ D!RequiredOf(g, v) = IF v = "account" THEN {"userId", "accountId", "providerId"}
                        ELSE {}
    BY ColumnsOfTable
  <1> HIDE DEF a, b, c, d, e, f, g, h, i
  <1>7. \A v : /\ D!ColumnsOf(Objs(1), v) = D!ColumnsOf(a, v) \cup D!ColumnsOf(c, v)
                        \cup D!ColumnsOf(f, v) \cup D!ColumnsOf(g, v)
               /\ D!RequiredOf(Objs(1), v) = D!RequiredOf(a, v) \cup D!RequiredOf(c, v)
                        \cup D!RequiredOf(f, v) \cup D!RequiredOf(g, v)
    <2> TAKE v
    <2>1. /\ D!ColumnsOf(Objs(1), v)
               = D!ColumnsOf(a, v) \cup D!ColumnsOf(b, v) \cup D!ColumnsOf(c, v)
                 \cup D!ColumnsOf(d, v) \cup D!ColumnsOf(e, v) \cup D!ColumnsOf(f, v)
                 \cup D!ColumnsOf(g, v) \cup D!ColumnsOf(h, v) \cup D!ColumnsOf(i, v)
          /\ D!RequiredOf(Objs(1), v)
               = D!RequiredOf(a, v) \cup D!RequiredOf(b, v) \cup D!RequiredOf(c, v)
                 \cup D!RequiredOf(d, v) \cup D!RequiredOf(e, v) \cup D!RequiredOf(f, v)
                 \cup D!RequiredOf(g, v) \cup D!RequiredOf(h, v) \cup D!RequiredOf(i, v)
      BY <1>1 DEF D!ColumnsOf, D!RequiredOf
    <2> QED BY <1>2, <2>1
  <1>8. D!RequiredOf(Objs(1), "user") = {"username", "email"}
        /\ D!RequiredOf(Objs(1), "account") = {"userId", "accountId", "providerId"}
    BY <1>3, <1>4, <1>5, <1>6, <1>7
  <1>9. D!ColumnsOf(Objs(1), u) =
                  CASE u = "verification" -> Base \cup {"identifier", "value", "expiresAt"}
                    [] u = "user" -> Base \cup {"username", "email", "isEmailVerified", "role", "image",
                       "bio"}
                    [] u = "session" -> Base \cup {"userId", "token", "expiresAt", "ipAddress",
                       "userAgent"}
                    [] u = "account" -> Base \cup {"userId", "accountId", "providerId"} \cup D!Tokens
                    [] OTHER -> {}
    BY <1>3, <1>4, <1>5, <1>6, <1>7
  <1> QED BY <1>8, <1>9

LEMMA LaterColumns ==
    /\ \A u : /\ D!ColumnsOf(Objs(2), u) = IF u = "user" THEN {"firstName", "lastName"} ELSE {}
              /\ D!RequiredOf(Objs(2), u) = {}
    /\ \A u : /\ D!ColumnsOf(Objs(3), u) = IF u = "user" THEN {"displayUsername"} ELSE {}
              /\ D!RequiredOf(Objs(3), u) = {}
    /\ \A u : /\ D!ColumnsOf(Objs(4), u) =
                    IF u = "user" THEN {"twoFactorEnabled"}
                    ELSE IF u = "twoFactor" THEN Base \cup {"userId", "secret", "backupCodes"} ELSE {}
              /\ u \in {"user", "account"} => D!RequiredOf(Objs(4), u) = {}
    /\ \A u : /\ D!ColumnsOf(Objs(5), u) =
                    IF u = "passkey"
                    THEN Base \cup {"userId", "publicKey", "credentialID", "counter", "deviceType",
                                    "backedUp", "transports", "name"}
                    ELSE {}
              /\ u \in {"user", "account"} => D!RequiredOf(Objs(5), u) = {}
  <1>1. ASSUME NEW u
        PROVE  /\ D!ColumnsOf(Objs(2), u) = IF u = "user" THEN {"firstName", "lastName"} ELSE {}
               /\ D!RequiredOf(Objs(2), u) = {}
    <2> DEFINE a == D!Columns("user", {"firstName"}, "optional")
               b == D!Columns("user", {"lastName"}, "optional")
    <2>1. /\ D!ColumnsOf(a, u) = (IF u = "user" THEN {"firstName"} ELSE {}) /\ D!RequiredOf(a, u) = {}
          /\ D!ColumnsOf(b, u) = (IF u = "user" THEN {"lastName"} ELSE {}) /\ D!RequiredOf(b, u) = {}
      BY ColumnsOfColumns
    <2>2. Objs(2) = a \cup b
      BY ObjsAre
    <2> HIDE DEF a, b
    <2>3. /\ D!ColumnsOf(Objs(2), u) = D!ColumnsOf(a, u) \cup D!ColumnsOf(b, u)
          /\ D!RequiredOf(Objs(2), u) = D!RequiredOf(a, u) \cup D!RequiredOf(b, u)
      BY <2>2 DEF D!ColumnsOf, D!RequiredOf
    <2> QED BY <2>1, <2>3
  <1>2. ASSUME NEW u
        PROVE  /\ D!ColumnsOf(Objs(3), u) = IF u = "user" THEN {"displayUsername"} ELSE {}
               /\ D!RequiredOf(Objs(3), u) = {}
    <2> DEFINE a == {D!Column("user", "displayUsername", "optional")}
               b == {D!Index("user", "displayUsername")}
    <2>1. /\ D!ColumnsOf(a, u) = (IF u = "user" THEN {"displayUsername"} ELSE {})
                   /\ D!RequiredOf(a, u) = {}
          /\ D!ColumnsOf(b, u) = {} /\ D!RequiredOf(b, u) = {}
      <3>1. D!Index("user", "displayUsername")[1] = "index"
        BY Parts
      <3>2. D!ColumnsOf(b, u) = {} /\ D!RequiredOf(b, u) = {}
        BY <3>1, ColumnsOfOne
      <3>3. D!ColumnsOf(a, u) = (IF u = "user" THEN {"displayUsername"} ELSE {})
               /\ D!RequiredOf(a, u) = {}
        BY ColumnsOfOne
      <3> QED BY <3>2, <3>3
    <2>2. Objs(3) = a \cup b
      BY ObjsAre
    <2> HIDE DEF a, b
    <2>3. /\ D!ColumnsOf(Objs(3), u) = D!ColumnsOf(a, u) \cup D!ColumnsOf(b, u)
          /\ D!RequiredOf(Objs(3), u) = D!RequiredOf(a, u) \cup D!RequiredOf(b, u)
      BY <2>2 DEF D!ColumnsOf, D!RequiredOf
    <2> QED BY <2>1, <2>3
  <1>3. ASSUME NEW u
        PROVE  /\ D!ColumnsOf(Objs(4), u) =
                    IF u = "user" THEN {"twoFactorEnabled"}
                    ELSE IF u = "twoFactor" THEN Base \cup {"userId", "secret", "backupCodes"} ELSE {}
               /\ u \in {"user", "account"} => D!RequiredOf(Objs(4), u) = {}
    <2> DEFINE a == D!CreateTable("twoFactor", {"userId"}, {}, {"secret", "backupCodes"})
               b == {D!Column("user", "twoFactorEnabled", "defaulted")}
               c == {D!Reference("twoFactor")}
    <2>1. /\ D!ColumnsOf(a, u) = IF u = "twoFactor" THEN Base \cup {"userId", "secret", "backupCodes"}
                   ELSE {}
          /\ u # "twoFactor" => D!RequiredOf(a, u) = {}
      BY ColumnsOfTable
    <2>2. /\ D!ColumnsOf(b, u) = (IF u = "user" THEN {"twoFactorEnabled"} ELSE {})
                   /\ D!RequiredOf(b, u) = {}
          /\ D!ColumnsOf(c, u) = {} /\ D!RequiredOf(c, u) = {}
      <3>1. D!Reference("twoFactor")[1] = "reference"
        BY Parts
      <3>2. D!ColumnsOf(c, u) = {} /\ D!RequiredOf(c, u) = {}
        BY <3>1, ColumnsOfOne
      <3>3. D!ColumnsOf(b, u) = (IF u = "user" THEN {"twoFactorEnabled"} ELSE {})
               /\ D!RequiredOf(b, u) = {}
        BY ColumnsOfOne
      <3> QED BY <3>2, <3>3
    <2>3. Objs(4) = a \cup b \cup c
      BY ObjsAre
    <2> HIDE DEF a, b, c
    <2>4. /\ D!ColumnsOf(Objs(4), u) = D!ColumnsOf(a, u) \cup D!ColumnsOf(b, u) \cup D!ColumnsOf(c, u)
          /\ D!RequiredOf(Objs(4), u) = D!RequiredOf(a, u) \cup D!RequiredOf(b, u)
                   \cup D!RequiredOf(c, u)
      BY <2>3 DEF D!ColumnsOf, D!RequiredOf
    <2> QED BY <2>1, <2>2, <2>4
  <1>4. ASSUME NEW u
        PROVE  /\ D!ColumnsOf(Objs(5), u) =
                    IF u = "passkey"
                    THEN Base \cup {"userId", "publicKey", "credentialID", "counter", "deviceType",
                                    "backedUp", "transports", "name"}
                    ELSE {}
               /\ u \in {"user", "account"} => D!RequiredOf(Objs(5), u) = {}
    <2> DEFINE a == D!CreateTable("passkey", {"userId", "publicKey", "credentialID", "counter", "deviceType",
                                              "backedUp", "transports"}, {}, {"name"})
               b == {D!Reference("passkey")}
    <2>1. /\ D!ColumnsOf(a, u) = IF u = "passkey"
                    THEN Base \cup {"userId", "publicKey", "credentialID", "counter", "deviceType",
                                    "backedUp", "transports", "name"}
                    ELSE {}
          /\ u # "passkey" => D!RequiredOf(a, u) = {}
      BY ColumnsOfTable
    <2>2. D!ColumnsOf(b, u) = {} /\ D!RequiredOf(b, u) = {}
      BY ColumnsOfOne, Parts
    <2>3. Objs(5) = a \cup b
      BY ObjsAre
    <2> HIDE DEF a, b
    <2>4. /\ D!ColumnsOf(Objs(5), u) = D!ColumnsOf(a, u) \cup D!ColumnsOf(b, u)
          /\ D!RequiredOf(Objs(5), u) = D!RequiredOf(a, u) \cup D!RequiredOf(b, u)
      BY <2>3 DEF D!ColumnsOf, D!RequiredOf
    <2> QED BY <2>1, <2>2, <2>4
  <1> QED BY <1>1, <1>2, <1>3, <1>4

\* The columns of each table, whichever tool made it.
Expected(u) ==
    Base \cup CASE u = "verification" -> {"identifier", "value", "expiresAt"}
                [] u = "user" -> {"username", "displayUsername", "email", "isEmailVerified", "role",
                   "firstName",
                                  "lastName", "image", "bio", "twoFactorEnabled"}
                [] u = "session" -> {"userId", "token", "expiresAt", "ipAddress", "userAgent"}
                [] u = "account" -> {"userId", "accountId", "providerId"} \cup D!Tokens
                [] u = "twoFactor" -> {"userId", "secret", "backupCodes"}
                [] u = "passkey" -> {"name", "userId", "publicKey", "credentialID", "counter",
                   "deviceType",
                                     "backedUp", "transports"}

LEMMA MigratedColumns ==
    /\ \A u \in Tables : D!ColumnsOf(Recorded(5), u) = Expected(u)
    /\ D!RequiredOf(Recorded(5), "user") = {"username", "email"}
    /\ D!RequiredOf(Recorded(5), "account") = {"userId", "accountId", "providerId"}
  <1> DEFINE a == Objs(1)
             b == Objs(2)
             c == Objs(3)
             d == Objs(4)
             e == Objs(5)
  <1>1. Recorded(5) = a \cup b \cup c \cup d \cup e
    <2>1. 1 - 1 = 0 /\ 2 - 1 = 1 /\ 3 - 1 = 2 /\ 4 - 1 = 3 /\ 5 - 1 = 4
      OBVIOUS
    <2>2. /\ Recorded(1) = {} \cup a /\ Recorded(2) = Recorded(1) \cup b /\ Recorded(3) = Recorded(2)
                   \cup c
          /\ Recorded(4) = Recorded(3) \cup d /\ Recorded(5) = Recorded(4) \cup e
      BY <2>1, RecordedIs
    <2> QED BY <2>2
  <1>2. \A u : /\ D!ColumnsOf(Recorded(5), u)
                    = D!ColumnsOf(a, u) \cup D!ColumnsOf(b, u) \cup D!ColumnsOf(c, u)
                      \cup D!ColumnsOf(d, u) \cup D!ColumnsOf(e, u)
               /\ D!RequiredOf(Recorded(5), u)
                    = D!RequiredOf(a, u) \cup D!RequiredOf(b, u) \cup D!RequiredOf(c, u)
                      \cup D!RequiredOf(d, u) \cup D!RequiredOf(e, u)
    BY <1>1 DEF D!ColumnsOf, D!RequiredOf
  <1>3. /\ D!RequiredOf(Recorded(5), "user") = {"username", "email"}
        /\ D!RequiredOf(Recorded(5), "account") = {"userId", "accountId", "providerId"}
    BY <1>2, ObjsColumns, LaterColumns
  <1>4. ASSUME NEW u \in Tables PROVE D!ColumnsOf(Recorded(5), u) = Expected(u)
    <2> HIDE DEF a, b, c, d, e
    <2>1. CASE u = "verification"
      BY <1>2, <2>1, ObjsColumns, LaterColumns DEF a, b, c, d, e, Expected
    <2>2. CASE u = "user"
      BY <1>2, <2>2, ObjsColumns, LaterColumns DEF a, b, c, d, e, Expected
    <2>3. CASE u = "session"
      BY <1>2, <2>3, ObjsColumns, LaterColumns DEF a, b, c, d, e, Expected
    <2>4. CASE u = "account"
      BY <1>2, <2>4, ObjsColumns, LaterColumns DEF a, b, c, d, e, Expected
    <2>5. CASE u = "twoFactor"
      BY <1>2, <2>5, ObjsColumns, LaterColumns DEF a, b, c, d, e, Expected
    <2>6. CASE u = "passkey"
      BY <1>2, <2>6, ObjsColumns, LaterColumns DEF a, b, c, d, e, Expected
    <2> QED BY <2>1, <2>2, <2>3, <2>4, <2>5, <2>6 DEF Tables
  <1> QED BY <1>3, <1>4

\* A table of Drizzle: its columns, beside what is no column.
LEMMA TableColumns ==
    ASSUME NEW t, NEW required, NEW defaulted, NEW optional, NEW rest,
           \A o \in rest : o[1] # "column", NEW u
    PROVE  /\ D!ColumnsOf(D!CreateTable(t, required, defaulted, optional) \cup rest, u)
                = IF t = u THEN Base \cup required \cup defaulted \cup optional ELSE {}
           /\ D!RequiredOf(D!CreateTable(t, required, defaulted, optional) \cup rest, u)
                = IF t = u THEN required ELSE {}
  <1> DEFINE made == D!CreateTable(t, required, defaulted, optional)
  <1>1. /\ D!ColumnsOf(made, u) = IF t = u THEN Base \cup required \cup defaulted \cup optional ELSE {}
        /\ D!RequiredOf(made, u) = IF t = u THEN required ELSE {}
    BY ColumnsOfTable
  <1> HIDE DEF made
  <1>2. D!ColumnsOf(made \cup rest, u) = D!ColumnsOf(made, u)
           /\ D!RequiredOf(made \cup rest, u) = D!RequiredOf(made, u)
    BY DEF D!ColumnsOf, D!RequiredOf
  <1> QED BY <1>1, <1>2 DEF made

LEMMA DrizzleColumns ==
    /\ \A u \in Tables : D!ColumnsOf(D!DrizzleSchema, u) = Expected(u)
    /\ D!RequiredOf(D!DrizzleSchema, "user") = {"username", "email"}
    /\ D!RequiredOf(D!DrizzleSchema, "account") = {"userId", "accountId"}
    /\ \A o \in D!DrizzleSchema : o[1] = "column" => o[2] \in Tables
  <1>1. \A u : /\ D!ColumnsOf(D!users, u) = IF u = "user" THEN Expected("user") ELSE {}
               /\ D!RequiredOf(D!users, u) = IF u = "user" THEN {"username", "email"} ELSE {}
    <2> TAKE u
    <2> DEFINE r == {"username", "email"}
               d == {"isEmailVerified", "role", "twoFactorEnabled"}
               p == {"displayUsername", "firstName", "lastName", "image", "bio"}
               rest == {D!Enum("Role"), D!Unique("user", "username", "all"),
                          D!Unique("user", "email", "all"),
                         D!Index("user", "username"), D!Index("user", "email"),
                            D!Index("user", "deletedAt")}
               made == D!CreateTable("user", r, d, p)
    <2>1. \A o \in rest : o[1] # "column"
      BY Parts
    <2>2. D!users = made \cup rest
      BY DEF D!users
    <2>3. Expected("user") = Base \cup r \cup d \cup p
      BY DEF Expected
    <2> HIDE DEF r, d, p, rest
    <2>4. /\ D!ColumnsOf(made \cup rest, u) = IF "user" = u THEN Base \cup r \cup d \cup p ELSE {}
          /\ D!RequiredOf(made \cup rest, u) = IF "user" = u THEN r ELSE {}
      BY <2>1, TableColumns
    <2> QED BY <2>2, <2>3, <2>4 DEF r
  <1>2. \A u : /\ D!ColumnsOf(D!accounts, u) = IF u = "account" THEN Expected("account") ELSE {}
               /\ D!RequiredOf(D!accounts, u) = IF u = "account" THEN {"userId", "accountId"} ELSE {}
    <2> TAKE u
    <2> DEFINE r == {"userId", "accountId"}
               d == {"providerId"}
               p == D!Tokens
               rest == {D!Reference("account"),
                         D!Index("account", "userId"), D!Index("account", "accountId")}
               made == D!CreateTable("account", r, d, p)
    <2>1. \A o \in rest : o[1] # "column"
      BY Parts
    <2>2. D!accounts = made \cup rest
      BY DEF D!accounts
    <2>3. Expected("account") = Base \cup r \cup d \cup p
      BY DEF Expected
    <2> HIDE DEF r, d, p, rest
    <2>4. /\ D!ColumnsOf(made \cup rest, u) = IF "account" = u THEN Base \cup r \cup d \cup p ELSE {}
          /\ D!RequiredOf(made \cup rest, u) = IF "account" = u THEN r ELSE {}
      BY <2>1, TableColumns
    <2> QED BY <2>2, <2>3, <2>4 DEF r
  <1>3. \A u : /\ D!ColumnsOf(D!sessions, u) = IF u = "session" THEN Expected("session") ELSE {}
               /\ D!RequiredOf(D!sessions, u) = IF u = "session"
                        THEN {"userId", "token", "expiresAt"} ELSE {}
    <2> TAKE u
    <2> DEFINE r == {"userId", "token", "expiresAt"}
               d == {}
               p == {"ipAddress", "userAgent"}
               rest == {D!Reference("session"), D!Unique("session", "token", "all"),
                         D!Index("session", "userId"), D!Index("session", "token"),
                            D!Index("session", "expiresAt")}
               made == D!CreateTable("session", r, d, p)
    <2>1. \A o \in rest : o[1] # "column"
      BY Parts
    <2>2. D!sessions = made \cup rest
      BY DEF D!sessions
    <2>3. Expected("session") = Base \cup r \cup d \cup p
      BY DEF Expected
    <2> HIDE DEF r, d, p, rest
    <2>4. /\ D!ColumnsOf(made \cup rest, u) = IF "session" = u THEN Base \cup r \cup d \cup p ELSE {}
          /\ D!RequiredOf(made \cup rest, u) = IF "session" = u THEN r ELSE {}
      BY <2>1, TableColumns
    <2> QED BY <2>2, <2>3, <2>4 DEF r
  <1>4. \A u : /\ D!ColumnsOf(D!verifications, u) = IF u = "verification"
                        THEN Expected("verification") ELSE {}
               /\ D!RequiredOf(D!verifications, u) = IF u = "verification"
                        THEN {"identifier", "value", "expiresAt"} ELSE {}
    <2> TAKE u
    <2> DEFINE r == {"identifier", "value", "expiresAt"}
               d == {}
               p == {}
               rest == {
                         D!Index("verification", "identifier"), D!Index("verification", "expiresAt")}
               made == D!CreateTable("verification", r, d, p)
    <2>1. \A o \in rest : o[1] # "column"
      BY Parts
    <2>2. D!verifications = made \cup rest
      BY DEF D!verifications
    <2>3. Expected("verification") = Base \cup r \cup d \cup p
      BY DEF Expected
    <2> HIDE DEF r, d, p, rest
    <2>4. /\ D!ColumnsOf(made \cup rest, u) = IF "verification" = u
                   THEN Base \cup r \cup d \cup p ELSE {}
          /\ D!RequiredOf(made \cup rest, u) = IF "verification" = u THEN r ELSE {}
      BY <2>1, TableColumns
    <2> QED BY <2>2, <2>3, <2>4 DEF r
  <1>5. \A u : /\ D!ColumnsOf(D!twoFactors, u) = IF u = "twoFactor" THEN Expected("twoFactor") ELSE {}
               /\ D!RequiredOf(D!twoFactors, u) = IF u = "twoFactor" THEN {"userId"} ELSE {}
    <2> TAKE u
    <2> DEFINE r == {"userId"}
               d == {}
               p == {"secret", "backupCodes"}
               rest == {D!Reference("twoFactor"), D!Index("twoFactor", "userId")}
               made == D!CreateTable("twoFactor", r, d, p)
    <2>1. \A o \in rest : o[1] # "column"
      BY Parts
    <2>2. D!twoFactors = made \cup rest
      BY DEF D!twoFactors
    <2>3. Expected("twoFactor") = Base \cup r \cup d \cup p
      BY DEF Expected
    <2> HIDE DEF r, d, p, rest
    <2>4. /\ D!ColumnsOf(made \cup rest, u) = IF "twoFactor" = u THEN Base \cup r \cup d \cup p ELSE {}
          /\ D!RequiredOf(made \cup rest, u) = IF "twoFactor" = u THEN r ELSE {}
      BY <2>1, TableColumns
    <2> QED BY <2>2, <2>3, <2>4 DEF r
  <1>6. \A u : /\ D!ColumnsOf(D!passKeys, u) = IF u = "passkey" THEN Expected("passkey") ELSE {}
               /\ D!RequiredOf(D!passKeys, u) = IF u = "passkey"
                        THEN {"userId", "publicKey", "credentialID", "counter", "deviceType",
                                              "backedUp", "transports"} ELSE {}
    <2> TAKE u
    <2> DEFINE r == {"userId", "publicKey", "credentialID", "counter", "deviceType",
                                              "backedUp", "transports"}
               d == {}
               p == {"name"}
               rest == {D!Reference("passkey"),
                         D!Index("passkey", "userId"), D!Index("passkey", "credentialID")}
               made == D!CreateTable("passkey", r, d, p)
    <2>1. \A o \in rest : o[1] # "column"
      BY Parts
    <2>2. D!passKeys = made \cup rest
      BY DEF D!passKeys
    <2>3. Expected("passkey") = Base \cup r \cup d \cup p
      BY DEF Expected
    <2> HIDE DEF r, d, p, rest
    <2>4. /\ D!ColumnsOf(made \cup rest, u) = IF "passkey" = u THEN Base \cup r \cup d \cup p ELSE {}
          /\ D!RequiredOf(made \cup rest, u) = IF "passkey" = u THEN r ELSE {}
      BY <2>1, TableColumns
    <2> QED BY <2>2, <2>3, <2>4 DEF r
  <1>7. \A u : /\ D!ColumnsOf(D!DrizzleSchema, u)
                    = D!ColumnsOf(D!users, u) \cup D!ColumnsOf(D!accounts, u)
                       \cup D!ColumnsOf(D!sessions, u)
                      \cup D!ColumnsOf(D!verifications, u) \cup D!ColumnsOf(D!twoFactors, u)
                      \cup D!ColumnsOf(D!passKeys, u)
               /\ D!RequiredOf(D!DrizzleSchema, u)
                    = D!RequiredOf(D!users, u) \cup D!RequiredOf(D!accounts, u)
                       \cup D!RequiredOf(D!sessions, u)
                      \cup D!RequiredOf(D!verifications, u) \cup D!RequiredOf(D!twoFactors, u)
                      \cup D!RequiredOf(D!passKeys, u)
    BY DEF D!DrizzleSchema, D!ColumnsOf, D!RequiredOf
  <1>8. /\ D!RequiredOf(D!DrizzleSchema, "user") = {"username", "email"}
        /\ D!RequiredOf(D!DrizzleSchema, "account") = {"userId", "accountId"}
    BY <1>1, <1>2, <1>3, <1>4, <1>5, <1>6, <1>7
  <1>9. \A u : D!ColumnsOf(D!DrizzleSchema, u) = IF u \in Tables THEN Expected(u) ELSE {}
    <2>1. \A u : D!ColumnsOf(D!DrizzleSchema, u) # {} => u \in Tables
      BY <1>1, <1>2, <1>3, <1>4, <1>5, <1>6, <1>7 DEF Tables
    <2>2. ASSUME NEW u \in Tables PROVE D!ColumnsOf(D!DrizzleSchema, u) = Expected(u)
      <3>1. CASE u = "verification"
        <4>1. /\ D!ColumnsOf(D!users, "verification") = {}
              /\ D!ColumnsOf(D!accounts, "verification") = {}
              /\ D!ColumnsOf(D!sessions, "verification") = {}
              /\ D!ColumnsOf(D!verifications, "verification") = Expected("verification")
              /\ D!ColumnsOf(D!twoFactors, "verification") = {}
              /\ D!ColumnsOf(D!passKeys, "verification") = {}
          BY <1>1, <1>2, <1>3, <1>4, <1>5, <1>6
        <4> QED BY <1>7, <3>1, <4>1
      <3>2. CASE u = "user"
        <4>1. /\ D!ColumnsOf(D!users, "user") = Expected("user")
              /\ D!ColumnsOf(D!accounts, "user") = {}
              /\ D!ColumnsOf(D!sessions, "user") = {}
              /\ D!ColumnsOf(D!verifications, "user") = {}
              /\ D!ColumnsOf(D!twoFactors, "user") = {}
              /\ D!ColumnsOf(D!passKeys, "user") = {}
          BY <1>1, <1>2, <1>3, <1>4, <1>5, <1>6
        <4> QED BY <1>7, <3>2, <4>1
      <3>3. CASE u = "session"
        <4>1. /\ D!ColumnsOf(D!users, "session") = {}
              /\ D!ColumnsOf(D!accounts, "session") = {}
              /\ D!ColumnsOf(D!sessions, "session") = Expected("session")
              /\ D!ColumnsOf(D!verifications, "session") = {}
              /\ D!ColumnsOf(D!twoFactors, "session") = {}
              /\ D!ColumnsOf(D!passKeys, "session") = {}
          BY <1>1, <1>2, <1>3, <1>4, <1>5, <1>6
        <4> QED BY <1>7, <3>3, <4>1
      <3>4. CASE u = "account"
        <4>1. /\ D!ColumnsOf(D!users, "account") = {}
              /\ D!ColumnsOf(D!accounts, "account") = Expected("account")
              /\ D!ColumnsOf(D!sessions, "account") = {}
              /\ D!ColumnsOf(D!verifications, "account") = {}
              /\ D!ColumnsOf(D!twoFactors, "account") = {}
              /\ D!ColumnsOf(D!passKeys, "account") = {}
          BY <1>1, <1>2, <1>3, <1>4, <1>5, <1>6
        <4> QED BY <1>7, <3>4, <4>1
      <3>5. CASE u = "twoFactor"
        <4>1. /\ D!ColumnsOf(D!users, "twoFactor") = {}
              /\ D!ColumnsOf(D!accounts, "twoFactor") = {}
              /\ D!ColumnsOf(D!sessions, "twoFactor") = {}
              /\ D!ColumnsOf(D!verifications, "twoFactor") = {}
              /\ D!ColumnsOf(D!twoFactors, "twoFactor") = Expected("twoFactor")
              /\ D!ColumnsOf(D!passKeys, "twoFactor") = {}
          BY <1>1, <1>2, <1>3, <1>4, <1>5, <1>6
        <4> QED BY <1>7, <3>5, <4>1
      <3>6. CASE u = "passkey"
        <4>1. /\ D!ColumnsOf(D!users, "passkey") = {}
              /\ D!ColumnsOf(D!accounts, "passkey") = {}
              /\ D!ColumnsOf(D!sessions, "passkey") = {}
              /\ D!ColumnsOf(D!verifications, "passkey") = {}
              /\ D!ColumnsOf(D!twoFactors, "passkey") = {}
              /\ D!ColumnsOf(D!passKeys, "passkey") = Expected("passkey")
          BY <1>1, <1>2, <1>3, <1>4, <1>5, <1>6
        <4> QED BY <1>7, <3>6, <4>1
      <3> QED BY <3>1, <3>2, <3>3, <3>4, <3>5, <3>6 DEF Tables
    <2> QED BY <2>1, <2>2
  <1>10. \A o \in D!DrizzleSchema : o[1] = "column" => o[2] \in Tables
    <2>1. \A o \in D!DrizzleSchema : o[1] = "column" => o[3] \in D!ColumnsOf(D!DrizzleSchema, o[2])
      BY DEF D!ColumnsOf
    <2> QED BY <1>9, <2>1
  <1> QED BY <1>8, <1>9, <1>10

\* The programs of both tools fit the tables that either of them has made.
LEMMA EitherFits ==
    ASSUME applied \in 0 .. 5, IsRecorded(schema, applied), applied = Len(D!Ups) \/ schema
              = D!DrizzleSchema
    PROVE  /\ \A u \in Tables : D!ColumnsOf(schema, u) = Expected(u)
           /\ D!RequiredOf(schema, "user") = {"username", "email"}
           /\ D!RequiredOf(schema, "account") \subseteq {"userId", "accountId", "providerId"}
  <1>1. schema = Recorded(5) \/ schema = D!DrizzleSchema
    BY UpsAre DEF IsRecorded
  <1> QED BY <1>1, MigratedColumns, DrizzleColumns

LEMMA RecordedFits == D!TypeOK /\ D!SchemaIsRecorded => D!ProgramsFit
  <1> SUFFICES ASSUME D!TypeOK, D!SchemaIsRecorded, applied = Len(D!Ups) \/ schema = D!DrizzleSchema
               PROVE  /\ \A e \in D!Entities :
                            e.columns \cup {"id", "createdAt", "updatedAt",
                               "deletedAt"} = D!ColumnsOf(schema, e.table)
                      /\ \A o \in D!DrizzleSchema : o[1] = "column"
                               => o[3] \in D!ColumnsOf(schema, o[2])
                      /\ D!Fits("user", D!UserInsert) /\ D!Fits("account", D!AccountInsert)
    BY DEF D!ProgramsFit
  <1>1. /\ \A u \in Tables : D!ColumnsOf(schema, u) = Expected(u)
        /\ D!RequiredOf(schema, "user") = {"username", "email"}
        /\ D!RequiredOf(schema, "account") \subseteq {"userId", "accountId", "providerId"}
    BY EitherFits, RecordReads, UpsAre DEF D!TypeOK
  <1>2. \A e \in D!Entities : e.table \in Tables /\ e.columns \cup Base = Expected(e.table)
    <2>1. D!UserEntity.table = "user" /\ D!UserEntity.columns \cup Base = Expected("user")
      BY DEF D!UserEntity, Expected
    <2>2. D!AccountEntity.table = "account" /\ D!AccountEntity.columns \cup Base = Expected("account")
      BY DEF D!AccountEntity, Expected
    <2>3. D!SessionEntity.table = "session" /\ D!SessionEntity.columns \cup Base = Expected("session")
      BY DEF D!SessionEntity, Expected
    <2>4. D!TwoFactorEntity.table = "twoFactor" /\ D!TwoFactorEntity.columns
             \cup Base = Expected("twoFactor")
      BY DEF D!TwoFactorEntity, Expected
    <2>5. D!PassKeyEntity.table = "passkey" /\ D!PassKeyEntity.columns \cup Base = Expected("passkey")
      BY DEF D!PassKeyEntity, Expected
    <2>6. D!VerificationEntity.table = "verification" /\ D!VerificationEntity.columns
             \cup Base = Expected("verification")
      BY DEF D!VerificationEntity, Expected
    <2> QED BY <2>1, <2>2, <2>3, <2>4, <2>5, <2>6 DEF D!Entities, Tables
  <1>3. \A o \in D!DrizzleSchema : o[1] = "column" => o[3] \in D!ColumnsOf(schema, o[2])
    <2>1. \A o \in D!DrizzleSchema : o[1] = "column" => o[3] \in D!ColumnsOf(D!DrizzleSchema, o[2])
      BY DEF D!ColumnsOf
    <2>2. \A o \in D!DrizzleSchema :
             o[1] = "column" => D!ColumnsOf(D!DrizzleSchema, o[2]) = D!ColumnsOf(schema, o[2])
      BY <1>1, DrizzleColumns
    <2> QED BY <2>1, <2>2
  <1>4. D!Fits("user", D!UserInsert)
    <2>1. "user" \in Tables /\ D!UserInsert \subseteq Expected("user") /\ {"username",
             "email"} \subseteq D!UserInsert
      BY DEF Tables, D!UserInsert, Expected
    <2> QED BY <1>1, <2>1 DEF D!Fits
  <1>5. D!Fits("account", D!AccountInsert)
    <2>1. /\ "account" \in Tables /\ D!AccountInsert \subseteq Expected("account")
          /\ {"userId", "accountId", "providerId"} \subseteq D!AccountInsert
      BY DEF Tables, D!AccountInsert, Expected, D!Tokens
    <2> QED BY <1>1, <2>1 DEF D!Fits
  <1> QED BY <1>1, <1>2, <1>3, <1>4, <1>5 DEF Base
-----------------------------------------------------------------------------
(* The rows: who made them, and who owes them an account.                  *)
PersonKey(s) == <<D!SeedRun(s), D!Persons[who[s]].email>>
OwnKey(p) == <<D!Visitor(p), p.email>>

\* Rows about to be made, and rows made whose account is to follow.
Coming == {PersonKey(s) : s \in {x \in Seeds : at[x] = "insert"}}
          \cup {OwnKey(p) : p \in {x \in Visitors : doing[x] = "insert"}}
Owing == {PersonKey(s) : s \in {x \in Seeds : at[x] = "account"}}
         \cup {OwnKey(p) : p \in {x \in Visitors : doing[x] = "account"}}

KeysOf(rows) == {D!Key(r) : r \in rows}
Bare == {r \in people : ~r.account}

RowsInv ==
    /\ D!TypeOK
    /\ \A r, q \in people : D!Key(r) = D!Key(q) => r = q
    /\ Coming \cap KeysOf(people) = {} /\ Coming \cap Owing = {} /\ Owing \cap cut = {}
    /\ KeysOf(Bare) \subseteq cut \cup Owing
    /\ cut \subseteq KeysOf(Bare)
    /\ ~tracked => \A r \in people : r.by # D!InitialSeedRun

LEMMA PersonsFacts ==
    /\ DOMAIN D!Persons = 1 .. 2 /\ Len(D!Persons) = 2
    /\ D!Persons[1] = [username |-> "admin", email |-> "admin@nestjs-boilerplate.com"]
    /\ D!Persons[2] = [username |-> "testuser", email |-> "user@nestjs-boilerplate.com"]
  BY DEF D!Persons

\* Every row is named by who made it.
LEMMA MakersDiffer ==
    /\ \A s \in Seeds : D!SeedRun(s) \in D!Makers /\ D!SeedRun(s) # D!InitialSeedRun
    /\ \A p \in Visitors : D!Visitor(p) \in D!Makers /\ D!Visitor(p) # D!InitialSeedRun
    /\ \A s \in Seeds, p \in Visitors : D!SeedRun(s) # D!Visitor(p)
    /\ \A s, q \in Seeds : D!SeedRun(s) = D!SeedRun(q) => s = q
    /\ \A p, q \in Visitors : D!Visitor(p) = D!Visitor(q) => p = q
    /\ D!InitialSeedRun \in D!Makers
  <1>1. /\ \A s : D!SeedRun(s)[1] = "seed" /\ D!SeedRun(s)[2] = s
        /\ \A p : D!Visitor(p)[1] = "visitor" /\ D!Visitor(p)[2] = p
        /\ D!InitialSeedRun[1] = "initial"
    BY DEF D!SeedRun, D!Visitor, D!InitialSeedRun
  <1>2. "seed" # "visitor" /\ "seed" # "initial" /\ "visitor" # "initial"
    OBVIOUS
  <1>3. /\ \A s \in Seeds : D!SeedRun(s) \in D!Makers
        /\ \A p \in Visitors : D!Visitor(p) \in D!Makers
        /\ D!InitialSeedRun \in D!Makers
    BY DEF D!Makers
  <1>4. \A s \in Seeds : D!SeedRun(s) # D!InitialSeedRun
    BY <1>1, <1>2
  <1>5. \A p \in Visitors : D!Visitor(p) # D!InitialSeedRun
    BY <1>1, <1>2
  <1>6. \A s \in Seeds, p \in Visitors : D!SeedRun(s) # D!Visitor(p)
    BY <1>1, <1>2
  <1>7. \A s, q \in Seeds : D!SeedRun(s) = D!SeedRun(q) => s = q
    BY <1>1
  <1>8. \A p, q \in Visitors : D!Visitor(p) = D!Visitor(q) => p = q
    BY <1>1
  <1> QED BY <1>3, <1>4, <1>5, <1>6, <1>7, <1>8

\* The row an insert adds, and what an update makes of a row.
Person(p) == p \in Visitors \/ p = D!Admin \/ p = D!Persons[1] \/ p = D!Persons[2]

LEMMA NewRow ==
    ASSUME NEW by \in D!Makers, NEW p, Person(p)
    PROVE  /\ D!Row(by, p, FALSE) \in D!Rows /\ D!Row(by, p, TRUE) \in D!Rows
           /\ D!Key(D!Row(by, p, FALSE)) = <<by, p.email>> /\ D!Key(D!Row(by, p, TRUE)) = <<by, p.email>>
           /\ ~D!Row(by, p, FALSE).account /\ D!Row(by, p, TRUE).account
           /\ D!Row(by, p, FALSE).by = by /\ D!Row(by, p, TRUE).by = by
  <1> DEFINE names == {q.username : q \in Visitors} \cup {"admin", "testuser"}
             mails == {q.email : q \in Visitors} \cup {D!Admin.email, D!Persons[1].email, D!Persons[2].email}
  <1>1. p.username \in names /\ p.email \in mails
    BY PersonsFacts DEF D!Admin, Person
  <1>2. D!Rows = [by : D!Makers, username : names, email : mails, live : BOOLEAN, account : BOOLEAN]
    BY DEF D!Rows
  <1>3. \A b : D!Row(by, p, b) = [by |-> by, username |-> p.username, email |-> p.email, live |-> TRUE, account |-> b]
    BY DEF D!Row
  <1>4. /\ D!Row(by, p, FALSE) = [by |-> by, username |-> p.username, email |-> p.email, live |-> TRUE, account |-> FALSE]
        /\ D!Row(by, p, TRUE) = [by |-> by, username |-> p.username, email |-> p.email, live |-> TRUE, account |-> TRUE]
    BY <1>3
  <1> HIDE DEF names, mails
  <1>5. ASSUME NEW u \in names, NEW m \in mails
        PROVE  /\ [by |-> by, username |-> u, email |-> m, live |-> TRUE, account |-> FALSE] \in D!Rows
               /\ [by |-> by, username |-> u, email |-> m, live |-> TRUE, account |-> TRUE] \in D!Rows
    BY <1>2
  <1>6. D!Row(by, p, FALSE) \in D!Rows /\ D!Row(by, p, TRUE) \in D!Rows
    BY <1>1, <1>4, <1>5, Zenon
  <1>7. \A b : /\ D!Row(by, p, b).by = by /\ D!Row(by, p, b).email = p.email
              /\ D!Row(by, p, b).account = b
    BY <1>3
  <1>8. D!Row(by, p, FALSE).account = FALSE /\ D!Row(by, p, TRUE).account = TRUE
    BY <1>7
  <1>9. \A b : D!Row(by, p, b).by = by /\ D!Key(D!Row(by, p, b)) = <<by, p.email>>
    BY <1>7 DEF D!Key
  <1>10. ~D!Row(by, p, FALSE).account /\ D!Row(by, p, TRUE).account
    BY <1>8
  <1> QED BY <1>6, <1>9, <1>10

LEMMA SameRow ==
    ASSUME NEW r \in D!Rows
    PROVE  /\ r.live \in BOOLEAN /\ r.account \in BOOLEAN
           /\ LET q == [r EXCEPT !.live = FALSE]
              IN  /\ q \in D!Rows /\ D!Key(q) = D!Key(r) /\ ~q.live /\ q.account = r.account
                  /\ q.by = r.by /\ q.username = r.username /\ q.email = r.email
           /\ LET q == [r EXCEPT !.account = TRUE]
              IN  /\ q \in D!Rows /\ D!Key(q) = D!Key(r) /\ q.account /\ q.live = r.live
                  /\ q.by = r.by /\ q.username = r.username /\ q.email = r.email
  BY DEF D!Rows, D!Key

\* Where a move of one seed run, or of one visitor, leaves the sets.
LEMMA SeedMoves ==
    ASSUME D!TypeOK, NEW s \in Seeds, NEW place, NEW n \in 1 .. 2, D!Move(s, place, n), doing' = doing
    PROVE  LET key == <<D!SeedRun(s), D!Persons[n].email>>
           IN  /\ Coming' = (Coming \ {PersonKey(s)}) \cup (IF place = "insert" THEN {key} ELSE {})
               /\ Owing' = (Owing \ {PersonKey(s)}) \cup (IF place = "account" THEN {key} ELSE {})
  <1>1. /\ at'[s] = place /\ who'[s] = n
        /\ \A q \in Seeds \ {s} : at'[q] = at[q] /\ who'[q] = who[q]
    BY DEF D!Move, D!TypeOK
  <1>2. /\ PersonKey(s)' = <<D!SeedRun(s), D!Persons[n].email>>
        /\ \A q \in Seeds \ {s} : PersonKey(q)' = PersonKey(q)
    BY <1>1 DEF PersonKey
  <1>3. /\ \A q \in Seeds \ {s} : PersonKey(q) # PersonKey(s)
        /\ \A p \in Visitors : OwnKey(p) # PersonKey(s)
    BY MakersDiffer DEF PersonKey, OwnKey
  <1>4. \A p \in Visitors : OwnKey(p)' = OwnKey(p) /\ doing'[p] = doing[p]
    BY DEF OwnKey
  <1>5. ASSUME NEW where
        PROVE  {PersonKey(q)' : q \in {x \in Seeds : at'[x] = where}}
                 = ({PersonKey(q) : q \in {x \in Seeds : at[x] = where}} \ {PersonKey(s)})
                   \cup (IF place = where THEN {<<D!SeedRun(s), D!Persons[n].email>>} ELSE {})
    BY <1>1, <1>2, <1>3
  <1>6. /\ Coming' = {PersonKey(q)' : q \in {x \in Seeds : at'[x] = "insert"}}
                     \cup {OwnKey(p) : p \in {x \in Visitors : doing[x] = "insert"}}
        /\ Owing' = {PersonKey(q)' : q \in {x \in Seeds : at'[x] = "account"}}
                    \cup {OwnKey(p) : p \in {x \in Visitors : doing[x] = "account"}}
    BY <1>4 DEF Coming, Owing
  <1> DEFINE Ps(where) == {PersonKey(q) : q \in {x \in Seeds : at[x] = where}}
             Os(where) == {OwnKey(p) : p \in {x \in Visitors : doing[x] = where}}
             key == <<D!SeedRun(s), D!Persons[n].email>>
  <1>7. /\ Coming = Ps("insert") \cup Os("insert") /\ Owing = Ps("account") \cup Os("account")
        /\ PersonKey(s) \notin Os("insert") /\ PersonKey(s) \notin Os("account")
    BY <1>3 DEF Coming, Owing
  <1>8. Coming' = ((Ps("insert") \ {PersonKey(s)}) \cup (IF place = "insert" THEN {key} ELSE {})) \cup Os("insert")
    BY <1>5, <1>6
  <1>9. Owing' = ((Ps("account") \ {PersonKey(s)}) \cup (IF place = "account" THEN {key} ELSE {})) \cup Os("account")
    BY <1>5, <1>6
  <1> HIDE DEF Ps, Os, key
  <1>10. /\ Coming' = (Coming \ {PersonKey(s)}) \cup (IF place = "insert" THEN {key} ELSE {})
         /\ Owing' = (Owing \ {PersonKey(s)}) \cup (IF place = "account" THEN {key} ELSE {})
    BY <1>7, <1>8, <1>9
  <1> QED BY <1>10 DEF key

LEMMA VisitorMoves ==
    ASSUME D!TypeOK, NEW p \in Visitors, NEW next, D!Go(p, next), UNCHANGED <<at, who>>
    PROVE  /\ Coming' = (Coming \ {OwnKey(p)}) \cup (IF next = "insert" THEN {OwnKey(p)} ELSE {})
           /\ Owing' = (Owing \ {OwnKey(p)}) \cup (IF next = "account" THEN {OwnKey(p)} ELSE {})
  <1>1. doing'[p] = next /\ \A q \in Visitors \ {p} : doing'[q] = doing[q]
    BY DEF D!Go, D!TypeOK
  <1>2. /\ \A q \in Visitors \ {p} : OwnKey(q) # OwnKey(p)
        /\ \A s \in Seeds : PersonKey(s) # OwnKey(p)
    BY MakersDiffer DEF PersonKey, OwnKey
  <1>3. ASSUME NEW where
        PROVE  {OwnKey(q) : q \in {x \in Visitors : doing'[x] = where}}
                 = ({OwnKey(q) : q \in {x \in Visitors : doing[x] = where}} \ {OwnKey(p)})
                   \cup (IF next = where THEN {OwnKey(p)} ELSE {})
    BY <1>1, <1>2
  <1>4. /\ Coming' = {PersonKey(s) : s \in {x \in Seeds : at[x] = "insert"}}
                     \cup {OwnKey(q) : q \in {x \in Visitors : doing'[x] = "insert"}}
        /\ Owing' = {PersonKey(s) : s \in {x \in Seeds : at[x] = "account"}}
                    \cup {OwnKey(q) : q \in {x \in Visitors : doing'[x] = "account"}}
    BY DEF Coming, Owing, PersonKey, OwnKey
  <1> DEFINE Ps(where) == {PersonKey(s) : s \in {x \in Seeds : at[x] = where}}
             Os(where) == {OwnKey(q) : q \in {x \in Visitors : doing[x] = where}}
  <1>5. /\ Coming = Ps("insert") \cup Os("insert") /\ Owing = Ps("account") \cup Os("account")
        /\ OwnKey(p) \notin Ps("insert") /\ OwnKey(p) \notin Ps("account")
    BY <1>2 DEF Coming, Owing
  <1>6. Coming' = Ps("insert") \cup ((Os("insert") \ {OwnKey(p)}) \cup (IF next = "insert" THEN {OwnKey(p)} ELSE {}))
    BY <1>3, <1>4
  <1>7. Owing' = Ps("account") \cup ((Os("account") \ {OwnKey(p)}) \cup (IF next = "account" THEN {OwnKey(p)} ELSE {}))
    BY <1>3, <1>4
  <1> HIDE DEF Ps, Os
  <1> QED BY <1>5, <1>6, <1>7

\* What the steps do to the rows, by kind.
Looks == /\ UNCHANGED <<people, cut, tracked>> /\ Owing' = Owing
         /\ (Coming' \ Coming) \cap (KeysOf(people) \cup Owing) = {}
Makes(k) == /\ k \in Coming /\ UNCHANGED <<cut, tracked>>
            /\ \E r : D!Key(r) = k /\ ~r.account /\ r.by # D!InitialSeedRun /\ people' = people \cup {r}
            /\ Coming' \subseteq Coming \ {k} /\ Owing' = Owing \cup {k}
Pays(k) == /\ k \in Owing /\ UNCHANGED <<cut, tracked>>
           /\ \E r \in people : D!Key(r) = k /\ D!Accounted(r)
           /\ Coming' \subseteq Coming /\ Owing' = Owing \ {k}
Leaves(ks) == /\ UNCHANGED <<people, tracked>>
              /\ cut' = cut \cup (ks \cap KeysOf(Bare)) /\ ks \subseteq Owing
              /\ Coming' \subseteq Coming /\ Owing' = Owing \ ks
Repairs == /\ UNCHANGED tracked /\ Coming' = Coming /\ Owing' = Owing
           /\ \E r \in people : ~r.account /\ D!Accounted(r) /\ cut' = cut \ {D!Key(r)}
Hides == /\ UNCHANGED <<tracked, cut>> /\ Coming' = Coming /\ Owing' = Owing
         /\ \E r \in people : people' = (people \ {r}) \cup {[r EXCEPT !.live = FALSE]}
Drops == UNCHANGED tracked /\ people' = {} /\ cut' = {} /\ Coming' = Coming /\ Owing' = Owing
Seeds1 == /\ ~tracked /\ tracked' /\ UNCHANGED cut /\ Coming' = Coming /\ Owing' = Owing
          /\ people' = people \cup {D!Row(D!InitialSeedRun, D!Admin, TRUE)}

RowStep == \/ Looks \/ (\E k : Makes(k) \/ Pays(k)) \/ (\E ks : Leaves(ks))
           \/ Repairs \/ Hides \/ Drops \/ Seeds1

LEMMA OwedOnly ==
    /\ \A s \in Seeds : /\ PersonKey(s) \in Owing <=> at[s] = "account"
                        /\ PersonKey(s) \in Coming <=> at[s] = "insert"
    /\ \A p \in Visitors : /\ OwnKey(p) \in Owing <=> doing[p] = "account"
                           /\ OwnKey(p) \in Coming <=> doing[p] = "insert"
  <1>1. \A s, q \in Seeds : PersonKey(s) = PersonKey(q) => s = q
    BY MakersDiffer DEF PersonKey
  <1>2. \A p, q \in Visitors : OwnKey(p) = OwnKey(q) => p = q
    BY MakersDiffer DEF OwnKey
  <1>3. \A s \in Seeds, p \in Visitors : PersonKey(s) # OwnKey(p)
    BY MakersDiffer DEF PersonKey, OwnKey
  <1> QED BY <1>1, <1>2, <1>3 DEF Owing, Coming

\* The keys of the half-made rows of one maker.
LEMMA HalfMadeIs ==
    \A by, email : D!HalfMade(by, email) = {<<by, email>>} \cap KeysOf(Bare)
  BY DEF D!HalfMade, KeysOf, Bare

LEMMA SeedRows ==
    ASSUME D!TypeOK, NEW s \in Seeds, D!SeedStart(s) \/ D!SeedStep(s) \/ D!SeedFails(s)
    PROVE  RowStep
  <1>1. who[s] \in 1 .. 2 /\ 1 \in 1 .. 2
    BY PersonsFacts DEF D!TypeOK
  <1>2. doing' = doing /\ tracked' = tracked
    BY DEF D!SeedStart, D!SeedStep, D!SeedFind, D!SeedInsert, D!SeedAccount, D!SeedFails, D!OfSeed
  <1>3. ASSUME D!NextPerson(s)
        PROVE  Coming' = Coming \ {PersonKey(s)} /\ Owing' = Owing \ {PersonKey(s)}
    <2>1. D!Move(s, "done", who[s]) \/ (who[s] + 1 \in 1 .. 2 /\ D!Move(s, "find", who[s] + 1))
      BY <1>1, <1>3, PersonsFacts DEF D!NextPerson
    <2>2. CASE D!Move(s, "done", who[s])
      BY <1>1, <1>2, <2>2, SeedMoves
    <2>3. CASE who[s] + 1 \in 1 .. 2 /\ D!Move(s, "find", who[s] + 1)
      BY <1>2, <2>3, SeedMoves
    <2> QED BY <2>1, <2>2, <2>3
  <1>4. CASE D!SeedStart(s)
    <2>1. D!Move(s, "find", 1) /\ UNCHANGED <<people, cut>> /\ at[s] \notin {"insert", "account"}
      BY <1>4 DEF D!SeedStart
    <2>2. Coming' = Coming \ {PersonKey(s)} /\ Owing' = Owing \ {PersonKey(s)}
      BY <1>1, <1>2, <2>1, SeedMoves
    <2> QED BY <1>2, <2>1, <2>2, OwedOnly DEF RowStep, Looks
  <1>5. CASE D!SeedFind(s)
    <2>1. UNCHANGED <<people, cut>> /\ at[s] = "find"
      BY <1>5 DEF D!SeedFind
    <2>2. CASE D!NextPerson(s)
      BY <1>2, <1>3, <2>1, <2>2, OwedOnly DEF RowStep, Looks
    <2>3. CASE D!Move(s, "insert", who[s]) /\ ~\E r \in people : r.email = D!Persons[who[s]].email
      <3>1. Coming' = (Coming \ {PersonKey(s)}) \cup {PersonKey(s)} /\ Owing' = Owing \ {PersonKey(s)}
        BY <1>1, <1>2, <2>3, SeedMoves DEF PersonKey
      <3>2. PersonKey(s) \notin KeysOf(people)
        BY <2>3 DEF KeysOf, D!Key, PersonKey
      <3> QED BY <1>2, <2>1, <3>1, <3>2, OwedOnly DEF RowStep, Looks
    <2> QED BY <1>5, <2>2, <2>3 DEF D!SeedFind
  <1>6. CASE D!SeedInsert(s)
    <2> DEFINE row == D!Row(D!SeedRun(s), D!Persons[who[s]], FALSE)
    <2>1. /\ at[s] = "insert" /\ cut' = cut /\ D!Move(s, "account", who[s])
          /\ people' = people \cup {row}
      BY <1>6 DEF D!SeedInsert, D!Insert
    <2>2. Coming' = Coming \ {PersonKey(s)} /\ Owing' = (Owing \ {PersonKey(s)}) \cup {PersonKey(s)}
      BY <1>1, <1>2, <2>1, SeedMoves DEF PersonKey
    <2>3. D!Key(row) = PersonKey(s) /\ ~row.account /\ row.by # D!InitialSeedRun
      <3>1. D!Persons[who[s]] = D!Persons[1] \/ D!Persons[who[s]] = D!Persons[2]
        BY <1>1
      <3>2. D!SeedRun(s) \in D!Makers /\ D!SeedRun(s) # D!InitialSeedRun
        BY MakersDiffer
      <3>3. Person(D!Persons[who[s]])
        BY <3>1 DEF Person
      <3> QED BY <3>2, <3>3, NewRow DEF PersonKey
    <2> HIDE DEF row
    <2>4. Makes(PersonKey(s))
      BY <1>2, <2>1, <2>2, <2>3, OwedOnly DEF Makes
    <2> QED BY <2>4 DEF RowStep
  <1>7. CASE D!SeedAccount(s)
    <2>1. at[s] = "account" /\ cut' = cut /\ D!NextPerson(s)
      BY <1>7 DEF D!SeedAccount
    <2>2. \E r \in people : D!Key(r) = PersonKey(s) /\ D!Accounted(r)
      BY <1>7 DEF D!SeedAccount, PersonKey
    <2>3. Pays(PersonKey(s))
      BY <1>2, <1>3, <2>1, <2>2, OwedOnly DEF Pays
    <2> QED BY <2>3 DEF RowStep
  <1>8. CASE D!SeedFails(s)
    <2>1. D!Move(s, "failed", who[s]) /\ people' = people
      BY <1>8 DEF D!SeedFails
    <2>2. Coming' = Coming \ {PersonKey(s)} /\ Owing' = Owing \ {PersonKey(s)}
      BY <1>1, <1>2, <2>1, SeedMoves
    <2>3. CASE at[s] = "account"
      <3>1. cut' = cut \cup ({PersonKey(s)} \cap KeysOf(Bare))
        BY <1>8, <2>3, HalfMadeIs DEF D!SeedFails, PersonKey
      <3>2. Leaves({PersonKey(s)})
        BY <1>2, <2>1, <2>2, <2>3, <3>1, OwedOnly DEF Leaves
      <3> QED BY <3>2 DEF RowStep
    <2>4. CASE at[s] # "account"
      <3>1. cut' = cut
        BY <1>8, <2>4 DEF D!SeedFails
      <3> QED BY <1>2, <2>1, <2>2, <2>4, <3>1, OwedOnly DEF RowStep, Looks
    <2> QED BY <2>3, <2>4
  <1> QED BY <1>4, <1>5, <1>6, <1>7, <1>8 DEF D!SeedStep

LEMMA SignUpRows ==
    ASSUME D!TypeOK, NEW p \in Visitors, D!SignUpStep(p) \/ D!SignUpFails(p)
    PROVE  RowStep
  <1>1. UNCHANGED <<at, who>> /\ tracked' = tracked
    BY DEF D!SignUpStep, D!SignUpFails, D!SignUpStart, D!SignUpFindName, D!SignUpFindEmail, D!SignUpFind,
           D!SignUpUser, D!SignUpAccount, D!OfSignUp
  <1>2. ASSUME NEW next \in {"idle", "name", "email"}, D!Go(p, next)
        PROVE  Coming' = Coming \ {OwnKey(p)} /\ Owing' = Owing \ {OwnKey(p)}
    BY <1>1, <1>2, VisitorMoves
  <1>3. CASE D!SignUpStart(p) \/ D!SignUpFindName(p)
    <2>1. PICK next \in {"idle", "name", "email"} : D!Go(p, next)
      BY <1>3 DEF D!SignUpStart, D!SignUpFindName, D!SignUpFind
    <2>2. UNCHANGED <<people, cut>> /\ doing[p] \in {"idle", "name"}
      BY <1>3 DEF D!SignUpStart, D!SignUpFindName, D!SignUpFind
    <2> QED BY <1>1, <1>2, <2>1, <2>2, OwedOnly DEF RowStep, Looks
  <1>4. CASE D!SignUpFindEmail(p)
    <2>1. UNCHANGED <<people, cut>> /\ doing[p] = "email"
      BY <1>4 DEF D!SignUpFindEmail, D!SignUpFind
    <2>2. CASE D!Go(p, "idle")
      BY <1>1, <1>2, <2>1, <2>2, OwedOnly DEF RowStep, Looks
    <2>3. CASE D!Go(p, "insert") /\ ~\E r \in people : r["email"] = p["email"]
      <3>1. Coming' = (Coming \ {OwnKey(p)}) \cup {OwnKey(p)} /\ Owing' = Owing \ {OwnKey(p)}
        BY <1>1, <2>3, VisitorMoves
      <3>2. OwnKey(p) \notin KeysOf(people)
        BY <2>3 DEF KeysOf, D!Key, OwnKey
      <3> QED BY <1>1, <2>1, <3>1, <3>2, OwedOnly DEF RowStep, Looks
    <2> QED BY <1>4, <2>2, <2>3 DEF D!SignUpFindEmail, D!SignUpFind
  <1>5. CASE D!SignUpUser(p)
    <2> DEFINE row == D!Row(D!Visitor(p), p, FALSE)
    <2>1. doing[p] = "insert" /\ cut' = cut /\ D!Go(p, "account") /\ people' = people \cup {row}
      BY <1>5 DEF D!SignUpUser, D!Insert
    <2>2. Coming' = Coming \ {OwnKey(p)} /\ Owing' = (Owing \ {OwnKey(p)}) \cup {OwnKey(p)}
      BY <1>1, <2>1, VisitorMoves
    <2>3. D!Key(row) = OwnKey(p) /\ ~row.account /\ row.by # D!InitialSeedRun
      BY MakersDiffer, NewRow DEF OwnKey, Person
    <2> HIDE DEF row
    <2>4. Makes(OwnKey(p))
      BY <1>1, <2>1, <2>2, <2>3, OwedOnly DEF Makes
    <2> QED BY <2>4 DEF RowStep
  <1>6. CASE D!SignUpAccount(p)
    <2>1. doing[p] = "account" /\ cut' = cut /\ D!Go(p, "idle")
      BY <1>6 DEF D!SignUpAccount
    <2>2. \E r \in people : D!Key(r) = OwnKey(p) /\ D!Accounted(r)
      BY <1>6 DEF D!SignUpAccount, OwnKey
    <2>3. Pays(OwnKey(p))
      BY <1>1, <1>2, <2>1, <2>2, OwedOnly DEF Pays
    <2> QED BY <2>3 DEF RowStep
  <1>7. CASE D!SignUpFails(p)
    <2>1. D!Go(p, "idle") /\ people' = people /\ cut' = D!Abandoned({p})
      BY <1>7 DEF D!SignUpFails
    <2>2. Coming' = Coming \ {OwnKey(p)} /\ Owing' = Owing \ {OwnKey(p)}
      BY <1>2, <2>1
    <2>3. CASE doing[p] = "account"
      <3>1. cut' = cut \cup ({OwnKey(p)} \cap KeysOf(Bare))
        BY <2>1, <2>3, HalfMadeIs DEF D!Abandoned, OwnKey
      <3>2. Leaves({OwnKey(p)})
        BY <1>1, <2>1, <2>2, <2>3, <3>1, OwedOnly DEF Leaves
      <3> QED BY <3>2 DEF RowStep
    <2>4. CASE doing[p] # "account"
      <3>1. cut' = cut
        BY <2>1, <2>4 DEF D!Abandoned
      <3> QED BY <1>1, <2>1, <2>2, <2>4, <3>1, OwedOnly DEF RowStep, Looks
    <2> QED BY <2>3, <2>4
  <1> QED BY <1>3, <1>4, <1>5, <1>6, <1>7 DEF D!SignUpStep

\* Steps that move no maker leave Coming and Owing as they are.
LEMMA Unmoved ==
    ASSUME UNCHANGED <<at, who, doing>> PROVE Coming' = Coming /\ Owing' = Owing
  BY DEF Coming, Owing, PersonKey, OwnKey

LEMMA StepOnRows == D!TypeOK /\ [Next]_vars => RowStep
  <1> SUFFICES ASSUME D!TypeOK, [Next]_vars PROVE RowStep
    OBVIOUS
  <1>1. CASE D!MigrateUp \/ D!DrizzleMigrate \/ UNCHANGED databaseVars
    BY <1>1, Unmoved DEF D!MigrateUp, D!DrizzleMigrate, databaseVars, D!makers, RowStep, Looks
  <1>2. CASE D!Revert
    BY <1>2, Unmoved DEF D!Revert, D!makers, RowStep, Looks, Drops
  <1>3. CASE D!InitialSeed
    BY <1>3, Unmoved DEF D!InitialSeed, D!makers, RowStep, Seeds1
  <1>4. ASSUME NEW r \in people, D!LinkAccount(r) PROVE RowStep
    BY <1>4, Unmoved DEF D!LinkAccount, D!OfSignUp, RowStep, Repairs
  <1>5. ASSUME NEW r \in people, D!DeleteUser(r) PROVE RowStep
    BY <1>5, Unmoved DEF D!DeleteUser, D!OfSignUp, RowStep, Hides
  <1>6. CASE D!SignUpsEnd
    <2> DEFINE ks == {OwnKey(p) : p \in {x \in Visitors : doing[x] = "account"}}
    <2>1. UNCHANGED <<people, tracked, at, who>> /\ \A p \in Visitors : doing'[p] = "idle"
      BY <1>6 DEF D!SignUpsEnd, D!OfSignUp
    <2>2. cut' = cut \cup (ks \cap KeysOf(Bare))
      <3>1. cut' = cut \cup UNION {D!HalfMade(D!Visitor(p), p.email) : p \in {x \in Visitors : doing[x] = "account"}}
        BY <1>6 DEF D!SignUpsEnd, D!Abandoned
      <3>2. \A p \in Visitors : D!HalfMade(D!Visitor(p), p.email) = {OwnKey(p)} \cap KeysOf(Bare)
        BY HalfMadeIs DEF OwnKey
      <3> QED BY <3>1, <3>2
    <2>3. /\ Coming' = {PersonKey(s) : s \in {x \in Seeds : at[x] = "insert"}}
          /\ Owing' = {PersonKey(s) : s \in {x \in Seeds : at[x] = "account"}}
      BY <2>1 DEF Coming, Owing, PersonKey, OwnKey
    <2>4. \A s \in Seeds : PersonKey(s) \notin ks
      BY MakersDiffer DEF PersonKey, OwnKey
    <2>5. Coming' \subseteq Coming /\ Owing' = Owing \ ks /\ ks \subseteq Owing
      BY <2>3, <2>4 DEF Coming, Owing
    <2>6. Leaves(ks)
      BY <2>1, <2>2, <2>5 DEF Leaves
    <2> QED BY <2>6 DEF RowStep
  <1> QED
    BY <1>1, <1>2, <1>3, <1>4, <1>5, <1>6, SeedRows, SignUpRows
       DEF Next, Process, Alongside, TypeOrmTool, DrizzleTool, UserStep, vars, databaseVars, D!TypeOrmTool,
           D!DrizzleTool, D!AuthStep, D!Deletion

\* What the steps that leave the tables alone do to them.
Adds(by, p, cs) == /\ Person(p) /\ D!Free(p) /\ D!Fits("user", cs) /\ "username" \in cs
                   /\ \/ people' = people \cup {D!Row(by, p, FALSE)}
                      \/ people' = people \cup {D!Row(by, p, TRUE)}
Added == \E by \in D!Makers : \E p, cs : Adds(by, p, cs)
Changed == \E r \in people : \/ people' = (people \ {r}) \cup {[r EXCEPT !.live = FALSE]}
                             \/ people' = (people \ {r}) \cup {[r EXCEPT !.account = TRUE]}
OnlyRows == /\ UNCHANGED <<schema, applied>>
            /\ people' = people \/ Added \/ Changed
            /\ cut' \subseteq cut \cup KeysOf(people)

LEMMA OtherSteps ==
    ASSUME D!TypeOK, [Next]_vars
    PROVE  D!MigrateUp \/ D!Revert \/ D!DrizzleMigrate \/ OnlyRows
  <1>1. \A by, email : D!HalfMade(by, email) \subseteq KeysOf(people)
    BY DEF D!HalfMade, KeysOf
  <1>2. CASE UNCHANGED databaseVars
    BY <1>2 DEF databaseVars, OnlyRows
  <1>3. CASE D!InitialSeed
    <2>1. /\ D!Free(D!Admin) /\ D!Fits("user", {"username", "email", "isEmailVerified", "role"})
          /\ people' = people \cup {D!Row(D!InitialSeedRun, D!Admin, TRUE)}
          /\ UNCHANGED <<schema, applied, cut>>
      BY <1>3 DEF D!InitialSeed
    <2>2. Adds(D!InitialSeedRun, D!Admin, {"username", "email", "isEmailVerified", "role"})
      BY <2>1 DEF Adds, Person
    <2>3. Added
      BY <2>2, MakersDiffer DEF Added
    <2> QED BY <2>1, <2>3 DEF OnlyRows
  <1>4. ASSUME NEW s \in Seeds, D!SeedStart(s) \/ D!SeedStep(s) \/ D!SeedFails(s) PROVE OnlyRows
    <2>1. UNCHANGED <<schema, applied>>
      BY <1>4 DEF D!SeedStart, D!SeedStep, D!SeedFind, D!SeedInsert, D!SeedAccount, D!SeedFails, D!OfSeed
    <2>2. cut' \subseteq cut \cup KeysOf(people)
      BY <1>1, <1>4 DEF D!SeedStart, D!SeedStep, D!SeedFind, D!SeedInsert, D!SeedAccount, D!SeedFails
    <2>3. CASE D!SeedInsert(s)
      <3>1. /\ D!Free(D!Persons[who[s]]) /\ D!Fits("user", D!UserInsert)
            /\ people' = people \cup {D!Row(D!SeedRun(s), D!Persons[who[s]], FALSE)}
        BY <2>3 DEF D!SeedInsert, D!Insert
      <3>2. Person(D!Persons[who[s]])
        BY PersonsFacts DEF Person, D!TypeOK
      <3>3. Adds(D!SeedRun(s), D!Persons[who[s]], D!UserInsert)
        BY <3>1, <3>2 DEF Adds, D!UserInsert
      <3>4. Added
        BY <3>3, MakersDiffer DEF Added
      <3> QED BY <2>1, <2>2, <3>4 DEF OnlyRows
    <2>4. CASE D!SeedAccount(s)
      <3>1. Changed
        BY <2>4 DEF D!SeedAccount, D!Accounted, Changed
      <3> QED BY <2>1, <2>2, <3>1 DEF OnlyRows
    <2>5. CASE D!SeedStart(s) \/ D!SeedFind(s) \/ D!SeedFails(s)
      <3>1. people' = people
        BY <2>5 DEF D!SeedStart, D!SeedFind, D!SeedFails
      <3> QED BY <2>1, <2>2, <3>1 DEF OnlyRows
    <2> QED BY <1>4, <2>3, <2>4, <2>5 DEF D!SeedStep
  <1>5. ASSUME NEW p \in Visitors, D!SignUpStep(p) \/ D!SignUpFails(p) PROVE OnlyRows
    <2>1. UNCHANGED <<schema, applied>>
      BY <1>5 DEF D!SignUpStep, D!SignUpFails, D!SignUpStart, D!SignUpFindName, D!SignUpFindEmail,
                  D!SignUpFind, D!SignUpUser, D!SignUpAccount, D!OfSignUp
    <2>2. cut' \subseteq cut \cup KeysOf(people)
      BY <1>1, <1>5 DEF D!SignUpStep, D!SignUpFails, D!SignUpStart, D!SignUpFindName, D!SignUpFindEmail,
                        D!SignUpFind, D!SignUpUser, D!SignUpAccount, D!Abandoned
    <2>3. CASE D!SignUpUser(p)
      <3>1. /\ D!Free(p) /\ D!Fits("user", D!SignUpInsert)
            /\ people' = people \cup {D!Row(D!Visitor(p), p, FALSE)}
        BY <2>3 DEF D!SignUpUser, D!Insert
      <3>2. Adds(D!Visitor(p), p, D!SignUpInsert)
        BY <3>1 DEF Adds, Person, D!SignUpInsert
      <3>3. Added
        BY <3>2, MakersDiffer DEF Added
      <3> QED BY <2>1, <2>2, <3>3 DEF OnlyRows
    <2>4. CASE D!SignUpAccount(p)
      <3>1. Changed
        BY <2>4 DEF D!SignUpAccount, D!Accounted, Changed
      <3> QED BY <2>1, <2>2, <3>1 DEF OnlyRows
    <2>5. CASE D!SignUpStart(p) \/ D!SignUpFindName(p) \/ D!SignUpFindEmail(p) \/ D!SignUpFails(p)
      <3>1. people' = people
        BY <2>5 DEF D!SignUpStart, D!SignUpFindName, D!SignUpFindEmail, D!SignUpFind, D!SignUpFails
      <3> QED BY <2>1, <2>2, <3>1 DEF OnlyRows
    <2> QED BY <1>5, <2>3, <2>4, <2>5 DEF D!SignUpStep
  <1>6. CASE D!SignUpsEnd
    <2>1. cut' \subseteq cut \cup KeysOf(people)
      BY <1>1, <1>6 DEF D!SignUpsEnd, D!Abandoned
    <2> QED BY <1>6, <2>1 DEF D!SignUpsEnd, D!OfSignUp, OnlyRows
  <1>7. ASSUME NEW r \in people, D!LinkAccount(r) \/ D!DeleteUser(r) PROVE OnlyRows
    <2>1. Changed /\ UNCHANGED <<schema, applied>> /\ cut' \subseteq cut
      BY <1>7 DEF D!LinkAccount, D!DeleteUser, D!Accounted, D!OfSignUp, Changed
    <2> QED BY <2>1 DEF OnlyRows
  <1> QED
    BY <1>2, <1>3, <1>4, <1>5, <1>6, <1>7
       DEF Next, Process, Alongside, TypeOrmTool, DrizzleTool, UserStep, vars, databaseVars, D!TypeOrmTool,
           D!DrizzleTool, D!AuthStep, D!Deletion

LEMMA DatabaseStarts == Init => D!TypeOK
  <1>1. 0 \in 0 .. Len(D!Ups) /\ 1 \in 1 .. Len(D!Persons)
    BY UpsAre, PersonsFacts
  <1> QED BY <1>1 DEF Init, D!Init, D!TypeOK

\* The awaits stay among those there are.
LEMMA PlacesTyped ==
    ASSUME D!TypeOK, [Next]_vars
    PROVE  /\ at' \in [Seeds -> {"idle", "find", "insert", "account", "done", "failed"}]
           /\ who' \in [Seeds -> 1 .. 2]
           /\ doing' \in [Visitors -> {"idle", "name", "email", "insert", "account"}]
  <1>1. /\ at \in [Seeds -> {"idle", "find", "insert", "account", "done", "failed"}]
        /\ who \in [Seeds -> 1 .. 2]
        /\ doing \in [Visitors -> {"idle", "name", "email", "insert", "account"}]
    BY PersonsFacts DEF D!TypeOK
  <1>2. ASSUME NEW s \in Seeds, D!SeedStart(s) \/ D!SeedStep(s) \/ D!SeedFails(s)
        PROVE  /\ \E place \in {"find", "insert", "account", "done", "failed"}, n \in 1 .. 2 : D!Move(s, place, n)
               /\ doing' = doing
    <2>1. who[s] \in 1 .. 2 /\ 1 \in 1 .. 2
      BY <1>1
    <2>2. D!NextPerson(s)
             => D!Move(s, "done", who[s]) \/ (who[s] + 1 \in 1 .. 2 /\ D!Move(s, "find", who[s] + 1))
      BY <2>1, PersonsFacts DEF D!NextPerson
    <2>3. \/ D!Move(s, "find", 1) \/ D!NextPerson(s)
          \/ \E place \in {"insert", "account", "failed"} : D!Move(s, place, who[s])
      BY <1>2 DEF D!SeedStart, D!SeedStep, D!SeedFind, D!SeedInsert, D!SeedAccount, D!SeedFails
    <2>4. \E place \in {"find", "insert", "account", "done", "failed"}, n \in 1 .. 2 : D!Move(s, place, n)
      BY <2>1, <2>2, <2>3, Zenon
    <2>5. doing' = doing
      BY <1>2 DEF D!SeedStart, D!SeedStep, D!SeedFind, D!SeedInsert, D!SeedAccount, D!SeedFails, D!OfSeed
    <2> QED BY <2>4, <2>5
  <1>3. ASSUME NEW p \in Visitors, D!SignUpStep(p) \/ D!SignUpFails(p)
        PROVE  (\E next \in {"idle", "name", "email", "insert", "account"} : D!Go(p, next)) /\ UNCHANGED <<at, who>>
    BY <1>3 DEF D!SignUpStep, D!SignUpFails, D!SignUpStart, D!SignUpFindName, D!SignUpFindEmail,
                D!SignUpFind, D!SignUpUser, D!SignUpAccount, D!OfSignUp
  <1>4. CASE \E s \in Seeds : D!SeedStart(s) \/ D!SeedStep(s) \/ D!SeedFails(s)
    BY <1>1, <1>2, <1>4 DEF D!Move
  <1>5. CASE \E p \in Visitors : D!SignUpStep(p) \/ D!SignUpFails(p)
    BY <1>1, <1>3, <1>5 DEF D!Go
  <1>6. CASE D!SignUpsEnd
    BY <1>1, <1>6 DEF D!SignUpsEnd, D!OfSignUp
  <1>7. CASE UNCHANGED <<at, who, doing>>
    BY <1>1, <1>7
  <1> QED
    BY <1>4, <1>5, <1>6, <1>7
       DEF Next, Process, Alongside, TypeOrmTool, DrizzleTool, UserStep, vars, databaseVars, D!TypeOrmTool,
           D!DrizzleTool, D!AuthStep, D!Deletion, D!MigrateUp, D!Revert, D!DrizzleMigrate, D!InitialSeed,
           D!LinkAccount, D!DeleteUser, D!makers, D!OfSignUp

LEMMA DatabaseTypes == D!TypeOK /\ [Next]_vars => D!TypeOK'
  <1> SUFFICES ASSUME D!TypeOK, [Next]_vars PROVE D!TypeOK'
    OBVIOUS
  <1> DEFINE keys == {D!Key(r) : r \in D!Rows}
  <1>1. applied \in 0 .. 5 /\ people \subseteq D!Rows /\ cut \subseteq keys /\ tracked \in BOOLEAN
    BY UpsAre DEF D!TypeOK
  <1>2. tracked' \in BOOLEAN
    <2>1. RowStep
      BY StepOnRows
    <2> QED BY <1>1, <2>1 DEF RowStep, Looks, Makes, Pays, Leaves, Repairs, Hides, Drops, Seeds1
  <1>3. applied' \in 0 .. 5 /\ people' \subseteq D!Rows /\ cut' \subseteq keys
    <2>1. CASE D!MigrateUp \/ D!DrizzleMigrate
      <3>1. UNCHANGED <<people, cut>> /\ applied' \in {applied, 5}
        BY <2>1, UpsAre DEF D!MigrateUp, D!DrizzleMigrate
      <3> HIDE DEF keys
      <3> QED BY <1>1, <3>1
    <2>2. CASE D!Revert
      <3>1. applied > 0 /\ applied' = applied - 1 /\ people' \in {people, {}} /\ cut' \in {cut, {}}
        BY <2>2 DEF D!Revert
      <3> HIDE DEF keys
      <3> QED BY <1>1, <3>1
    <2>3. CASE OnlyRows
      <3>1. applied' = applied /\ cut' \subseteq cut \cup KeysOf(people)
        BY <2>3 DEF OnlyRows
      <3>2. KeysOf(people) \subseteq keys
        BY <1>1 DEF KeysOf
      <3> HIDE DEF keys
      <3>3. ASSUME Added PROVE people' \subseteq D!Rows
        <4>1. PICK by \in D!Makers : \E p, cs : Adds(by, p, cs)
          BY <3>3 DEF Added
        <4>2. PICK p, cs : Adds(by, p, cs)
          BY <4>1
        <4>3. D!Row(by, p, FALSE) \in D!Rows /\ D!Row(by, p, TRUE) \in D!Rows
          BY <4>2, NewRow DEF Adds
        <4> QED BY <1>1, <4>2, <4>3 DEF Adds
      <3>4. ASSUME Changed PROVE people' \subseteq D!Rows
        <4>1. PICK r \in people : \/ people' = (people \ {r}) \cup {[r EXCEPT !.live = FALSE]}
                                 \/ people' = (people \ {r}) \cup {[r EXCEPT !.account = TRUE]}
          BY <3>4 DEF Changed
        <4>2. [r EXCEPT !.live = FALSE] \in D!Rows /\ [r EXCEPT !.account = TRUE] \in D!Rows
          BY <1>1, SameRow
        <4> QED BY <1>1, <4>1, <4>2
      <3>5. people' \subseteq D!Rows
        BY <1>1, <2>3, <3>3, <3>4 DEF OnlyRows
      <3> QED BY <1>1, <3>1, <3>2, <3>5
    <2> QED BY <2>1, <2>2, <2>3, OtherSteps
  <1>4. /\ at' \in [Seeds -> {"idle", "find", "insert", "account", "done", "failed"}]
        /\ who' \in [Seeds -> 1 .. 2]
        /\ doing' \in [Visitors -> {"idle", "name", "email", "insert", "account"}]
    BY PlacesTyped
  <1> QED BY <1>2, <1>3, <1>4, UpsAre, PersonsFacts DEF D!TypeOK

\* A row is rewritten under its key.
LEMMA Rewritten ==
    ASSUME RowsInv, NEW r \in people, NEW q, D!Key(q) = D!Key(r), q.by = r.by,
           people' = (people \ {r}) \cup {q}
    PROVE  /\ \A a, b \in people' : D!Key(a) = D!Key(b) => a = b
           /\ KeysOf(people') = KeysOf(people)
           /\ ~tracked => \A a \in people' : a.by # D!InitialSeedRun
           /\ q.account = r.account => KeysOf(Bare') = KeysOf(Bare)
           /\ ~r.account /\ q.account => KeysOf(Bare') = KeysOf(Bare) \ {D!Key(r)}
           /\ r.account /\ q.account => KeysOf(Bare') = KeysOf(Bare)
  <1>1. /\ \A a, b \in people : D!Key(a) = D!Key(b) => a = b
        /\ ~tracked => \A a \in people : a.by # D!InitialSeedRun
    BY DEF RowsInv
  <1>2. \A a, b \in people' : D!Key(a) = D!Key(b) => a = b
    BY <1>1
  <1>3. KeysOf(people') = KeysOf(people)
    BY DEF KeysOf
  <1>4. Bare' = {a \in people \ {r} : ~a.account} \cup {a \in {q} : ~a.account}
    BY DEF Bare
  <1>5. q.account = r.account => KeysOf(Bare') = KeysOf(Bare)
    BY <1>4 DEF KeysOf, Bare
  <1>6. ~r.account /\ q.account => KeysOf(Bare') = KeysOf(Bare) \ {D!Key(r)}
    BY <1>1, <1>4 DEF KeysOf, Bare
  <1>7. r.account /\ q.account => KeysOf(Bare') = KeysOf(Bare)
    BY <1>4 DEF KeysOf, Bare
  <1> QED BY <1>1, <1>2, <1>3, <1>5, <1>6, <1>7

\* Nobody but the initial seed makes its row.
LEMMA MakersKeys ==
    /\ \A k \in Coming \cup Owing : k[1] # D!InitialSeedRun
    /\ \A r : D!Key(r)[1] = r.by
  BY MakersDiffer DEF Coming, Owing, PersonKey, OwnKey, D!Key

LEMMA RowsKept == RowsInv /\ [Next]_vars => RowsInv'
  <1> SUFFICES ASSUME RowsInv, [Next]_vars PROVE RowsInv'
    OBVIOUS
  <1>1. D!TypeOK' /\ RowStep
    BY DatabaseTypes, StepOnRows DEF RowsInv
  <1> DEFINE Rest == /\ \A r, q \in people' : D!Key(r) = D!Key(q) => r = q
                     /\ Coming' \cap KeysOf(people') = {} /\ Coming' \cap Owing' = {} /\ Owing' \cap cut' = {}
                     /\ KeysOf(Bare') \subseteq cut' \cup Owing'
                     /\ cut' \subseteq KeysOf(Bare')
                     /\ ~tracked' => \A r \in people' : r.by # D!InitialSeedRun
  <1> SUFFICES Rest
    BY <1>1 DEF RowsInv, KeysOf, Bare
  <1>2. /\ \A r, q \in people : D!Key(r) = D!Key(q) => r = q
        /\ Coming \cap KeysOf(people) = {} /\ Coming \cap Owing = {} /\ Owing \cap cut = {}
        /\ KeysOf(Bare) \subseteq cut \cup Owing
        /\ cut \subseteq KeysOf(Bare)
        /\ ~tracked => \A r \in people : r.by # D!InitialSeedRun
    BY DEF RowsInv
  <1>3. KeysOf(Bare) \subseteq KeysOf(people)
    BY DEF KeysOf, Bare
  <1>4. CASE Looks
    <2>1. UNCHANGED <<people, cut, tracked>> /\ Owing' = Owing /\ Bare' = Bare
          /\ (Coming' \ Coming) \cap (KeysOf(people) \cup Owing) = {}
      BY <1>4 DEF Looks, Bare
    <2> QED BY <1>2, <2>1
  <1>5. ASSUME NEW k, Makes(k) PROVE Rest
    <2>1. PICK r : D!Key(r) = k /\ ~r.account /\ r.by # D!InitialSeedRun /\ people' = people \cup {r}
      BY <1>5 DEF Makes
    <2>2. k \in Coming /\ UNCHANGED <<cut, tracked>> /\ Coming' \subseteq Coming \ {k} /\ Owing' = Owing \cup {k}
      BY <1>5 DEF Makes
    <2>3. KeysOf(people') = KeysOf(people) \cup {k} /\ KeysOf(Bare') = KeysOf(Bare) \cup {k}
      BY <2>1 DEF KeysOf, Bare
    <2>4. \A a, b \in people' : D!Key(a) = D!Key(b) => a = b
      BY <1>2, <2>1, <2>2 DEF KeysOf
    <2>5. k \notin cut
      BY <1>2, <1>3, <2>2
    <2> QED BY <1>2, <1>3, <2>1, <2>2, <2>3, <2>4, <2>5
  <1>6. ASSUME NEW k, Pays(k) PROVE Rest
    <2>1. PICK r \in people : D!Key(r) = k /\ D!Accounted(r)
      BY <1>6 DEF Pays
    <2>2. k \in Owing /\ UNCHANGED <<cut, tracked>> /\ Coming' \subseteq Coming /\ Owing' = Owing \ {k}
      BY <1>6 DEF Pays
    <2> DEFINE q == [r EXCEPT !.account = TRUE]
    <2>3. people' = (people \ {r}) \cup {q}
      BY <2>1 DEF D!Accounted
    <2>4. D!Key(q) = D!Key(r) /\ q.by = r.by /\ q.account /\ r.account \in BOOLEAN
      BY SameRow DEF RowsInv, D!TypeOK
    <2> HIDE DEF q
    <2>5. /\ \A a, b \in people' : D!Key(a) = D!Key(b) => a = b
          /\ KeysOf(people') = KeysOf(people)
          /\ ~tracked => \A a \in people' : a.by # D!InitialSeedRun
          /\ KeysOf(Bare') = KeysOf(Bare) \/ KeysOf(Bare') = KeysOf(Bare) \ {k}
      BY <2>1, <2>3, <2>4, Rewritten
    <2>6. k \notin KeysOf(Bare')
      BY <1>2, <2>1, <2>3, <2>4 DEF KeysOf, Bare
    <2> QED BY <1>2, <2>2, <2>5, <2>6
  <1>7. ASSUME NEW ks, Leaves(ks) PROVE Rest
    <2>1. /\ UNCHANGED <<people, tracked>> /\ Bare' = Bare
          /\ cut' = cut \cup (ks \cap KeysOf(Bare)) /\ ks \subseteq Owing
          /\ Coming' \subseteq Coming /\ Owing' = Owing \ ks
      BY <1>7 DEF Leaves, Bare
    <2> QED BY <1>2, <2>1
  <1>8. CASE Repairs
    <2>1. PICK r \in people : ~r.account /\ D!Accounted(r) /\ cut' = cut \ {D!Key(r)}
      BY <1>8 DEF Repairs
    <2>2. UNCHANGED tracked /\ Coming' = Coming /\ Owing' = Owing
      BY <1>8 DEF Repairs
    <2> DEFINE q == [r EXCEPT !.account = TRUE]
    <2>3. people' = (people \ {r}) \cup {q}
      BY <2>1 DEF D!Accounted
    <2>4. D!Key(q) = D!Key(r) /\ q.by = r.by /\ q.account
      BY SameRow DEF RowsInv, D!TypeOK
    <2> HIDE DEF q
    <2>5. /\ \A a, b \in people' : D!Key(a) = D!Key(b) => a = b
          /\ KeysOf(people') = KeysOf(people)
          /\ ~tracked => \A a \in people' : a.by # D!InitialSeedRun
          /\ KeysOf(Bare') = KeysOf(Bare) \ {D!Key(r)}
      BY <2>1, <2>3, <2>4, Rewritten
    <2> QED BY <1>2, <2>1, <2>2, <2>5
  <1>9. CASE Hides
    <2>1. PICK r \in people : people' = (people \ {r}) \cup {[r EXCEPT !.live = FALSE]}
      BY <1>9 DEF Hides
    <2>2. UNCHANGED <<tracked, cut>> /\ Coming' = Coming /\ Owing' = Owing
      BY <1>9 DEF Hides
    <2> DEFINE q == [r EXCEPT !.live = FALSE]
    <2>3. D!Key(q) = D!Key(r) /\ q.by = r.by /\ q.account = r.account
      BY SameRow DEF RowsInv, D!TypeOK
    <2>4. people' = (people \ {r}) \cup {q}
      BY <2>1
    <2> HIDE DEF q
    <2>5. /\ \A a, b \in people' : D!Key(a) = D!Key(b) => a = b
          /\ KeysOf(people') = KeysOf(people)
          /\ ~tracked => \A a \in people' : a.by # D!InitialSeedRun
          /\ KeysOf(Bare') = KeysOf(Bare)
      BY <2>3, <2>4, Rewritten
    <2> QED BY <1>2, <2>2, <2>5
  <1>10. CASE Drops
    <2>1. people' = {} /\ cut' = {} /\ Coming' = Coming /\ Owing' = Owing
      BY <1>10 DEF Drops
    <2>2. KeysOf(people') = {} /\ KeysOf(Bare') = {}
      BY <2>1 DEF KeysOf, Bare
    <2> QED BY <1>2, <2>1, <2>2
  <1>11. CASE Seeds1
    <2> DEFINE r == D!Row(D!InitialSeedRun, D!Admin, TRUE)
    <2>1. ~tracked /\ tracked' /\ cut' = cut /\ Coming' = Coming /\ Owing' = Owing /\ people' = people \cup {r}
      BY <1>11 DEF Seeds1
    <2>2. r.account /\ r.by = D!InitialSeedRun /\ D!Key(r)[1] = D!InitialSeedRun
      BY NewRow, MakersDiffer, MakersKeys DEF Person
    <2> HIDE DEF r
    <2>3. KeysOf(people') = KeysOf(people) \cup {D!Key(r)} /\ KeysOf(Bare') = KeysOf(Bare)
      BY <2>1, <2>2 DEF KeysOf, Bare
    <2>4. D!Key(r) \notin KeysOf(people) /\ D!Key(r) \notin Coming
      BY <1>2, <2>1, <2>2, MakersKeys DEF KeysOf
    <2>5. \A a, b \in people' : D!Key(a) = D!Key(b) => a = b
      BY <1>2, <2>1, <2>4 DEF KeysOf
    <2> QED BY <1>2, <2>1, <2>3, <2>4, <2>5
  <1> HIDE DEF Rest
  <1> QED BY <1>1, <1>4, <1>5, <1>6, <1>7, <1>8, <1>9, <1>10, <1>11 DEF RowStep

LEMMA RowsAlways == Spec => []RowsInv
  <1>1. Init => RowsInv
    <2> SUFFICES ASSUME Init PROVE RowsInv
      OBVIOUS
    <2>1. people = {} /\ cut = {} /\ \A s \in Seeds : at[s] = "idle"
      BY DEF Init, D!Init
    <2>2. \A p \in Visitors : doing[p] = "idle"
      BY DEF Init, D!Init
    <2>3. Coming = {} /\ Owing = {}
      BY <2>1, <2>2 DEF Coming, Owing
    <2> QED BY <2>1, <2>3, DatabaseStarts DEF RowsInv, KeysOf, Bare
  <1> QED BY <1>1, RowsKept, PTL DEF Spec

(* A user without an account is one whose seed run or sign-up is between   *)
(* its two inserts or ended there, and one left so has no account until    *)
(* Better Auth gives it one: for any number of seed runs and visitors, with*)
(* deletions, migrations, reverts and stops of the server between any two  *)
(* statements.                                                             *)
THEOREM HalvesAreExplained == Spec => []HalfMadeExplained
  <1>1. RowsInv => HalfMadeExplained
    <2> SUFFICES ASSUME RowsInv PROVE HalfMadeExplained
      OBVIOUS
    <2>1. ASSUME NEW r \in people, ~r.account, D!Key(r) \notin cut
          PROVE  \/ \E s \in Seeds : at[s] = "account" /\ D!Key(r) = <<D!SeedRun(s), D!Persons[who[s]].email>>
                 \/ \E p \in Visitors : doing[p] = "account" /\ D!Key(r) = <<D!Visitor(p), p.email>>
      <3>1. D!Key(r) \in Owing
        BY <2>1 DEF RowsInv, KeysOf, Bare
      <3> QED BY <3>1 DEF Owing, PersonKey, OwnKey
    <2>2. \A k \in cut : \E r \in people : D!Key(r) = k /\ ~r.account
      BY DEF RowsInv, KeysOf, Bare
    <2> QED BY <2>1, <2>2 DEF HalfMadeExplained, D!HalfMadeExplained
  <1> QED BY <1>1, RowsAlways, PTL
-----------------------------------------------------------------------------
(* The rows: names.                                                        *)
SchemaInv == D!TypeOK /\ D!SchemaIsRecorded

LEMMA SchemaAlways == Spec => []SchemaInv
  <1>1. Init => SchemaInv
    <2>1. Init => IsRecorded(schema, applied)
      BY RecordedIs DEF Init, D!Init, IsRecorded
    <2> QED BY <2>1, DatabaseStarts, RecordReads DEF SchemaInv
  <1>2. SchemaInv /\ [Next]_vars => SchemaInv'
    BY DatabaseTypes, RecordStep DEF SchemaInv
  <1> QED BY <1>1, <1>2, PTL DEF Spec

(* The tables are what the record of the migrations says, or Drizzle's,    *)
(* after any sequence of migrations, reverts and seeds, and the programs of*)
(* both tools fit the tables that either of them has made.                 *)
THEOREM SchemaFollowsRecord == Spec => []SchemaSound
  <1>1. SchemaInv => SchemaSound
    BY RecordedFits DEF SchemaInv, SchemaSound, D!SchemaSound
  <1> QED BY <1>1, SchemaAlways, PTL

\* There are tables: those of a migration, or Drizzle's.
HasTables == applied >= 1 \/ schema = D!DrizzleSchema

Share(r, q) == r.username = q.username \/ r.email = q.email
LivesApart(rows) == \A r, q \in rows : r.live /\ q.live /\ Share(r, q) => r = q

NamesInv ==
    /\ SchemaInv
    /\ people # {} => HasTables
    /\ LivesApart(people)

\* Where there are tables, no live row holds a name that is free.
LEMMA FreeIsApart ==
    ASSUME SchemaInv, HasTables, NEW p, D!Free(p)
    PROVE  \A q \in people : q.live => q.username # p.username /\ q.email # p.email
  <1>1. \A c \in {"username", "email"} : D!Unique("user", c, "all") \in schema \/ D!Unique("user", c, "live") \in schema
    <2>1. applied \in 0 .. 5 /\ IsRecorded(schema, applied)
      BY UpsAre, RecordReads DEF SchemaInv, D!TypeOK
    <2>2. schema = D!DrizzleSchema \/ (applied \in 1 .. 5 /\ schema = Recorded(applied))
      BY <2>1 DEF IsRecorded, HasTables
    <2> QED BY <2>2, SchemasDiffer
  <1>2. D!Holders("username", p.username) = {} /\ D!Holders("email", p.email) = {}
    BY DEF D!Free
  <1>3. ASSUME NEW q \in people, q.live PROVE q.username # p.username /\ q.email # p.email
    <2>1. q["username"] = p.username => q \in D!Holders("username", p.username)
      BY <1>1, <1>3 DEF D!Holders
    <2>2. q["email"] = p.email => q \in D!Holders("email", p.email)
      BY <1>1, <1>3 DEF D!Holders
    <2> QED BY <1>2, <2>1, <2>2
  <1> QED BY <1>3

\* A program whose columns are there finds tables.
LEMMA FitsHasTables ==
    ASSUME SchemaInv, NEW cs, D!Fits("user", cs), "username" \in cs
    PROVE  HasTables
  <1>1. applied \in 0 .. 5 /\ IsRecorded(schema, applied)
    BY UpsAre, RecordReads DEF SchemaInv, D!TypeOK
  <1>2. schema # {}
    BY DEF D!Fits, D!ColumnsOf
  <1> QED BY <1>1, <1>2, RecordedIs DEF IsRecorded, HasTables

LEMMA AddApart ==
    ASSUME LivesApart(people), NEW r,
           \A q \in people : q.live => q.username # r.username /\ q.email # r.email
    PROVE  LivesApart(people \cup {r})
  BY DEF LivesApart, Share

\* A row is replaced by one of the same names that is live only if it was.
LEMMA ReplaceApart ==
    ASSUME LivesApart(people), NEW r \in people, NEW q,
           q.username = r.username, q.email = r.email, q.live => r.live
    PROVE  LivesApart((people \ {r}) \cup {q})
  BY DEF LivesApart, Share

LEMMA NamesStep == NamesInv /\ [Next]_vars => NamesInv'
  <1> SUFFICES ASSUME NamesInv, [Next]_vars PROVE NamesInv'
    OBVIOUS
  <1>1. SchemaInv'
    BY DatabaseTypes, RecordStep DEF SchemaInv, NamesInv
  <1>2. applied \in 0 .. 5 /\ IsRecorded(schema, applied)
    BY UpsAre, RecordReads DEF NamesInv, SchemaInv, D!TypeOK
  <1>3. /\ applied' \in 0 .. 5
    BY <1>1, UpsAre DEF SchemaInv, D!TypeOK
  <1> DEFINE Kept == /\ people' # {} => applied' >= 1 \/ schema' = D!DrizzleSchema
                     /\ LivesApart(people')
  <1> SUFFICES Kept
    BY <1>1 DEF NamesInv, HasTables, LivesApart, Share
  <1>4. CASE D!MigrateUp
    BY <1>4, UpsAre DEF D!MigrateUp, NamesInv
  <1>5. CASE D!Revert
    <2>1. applied \in 1 .. 5 /\ applied' = applied - 1
          /\ people' = IF D!Table("user") \in schema' THEN people ELSE {}
      BY <1>2, <1>5 DEF D!Revert
    <2>2. IsRecorded(schema', applied')
      BY <1>1, RecordReads DEF SchemaInv
    <2>3. applied' = 0 /\ schema' # D!DrizzleSchema => people' = {}
      BY <2>1, <2>2, RecordedIs DEF IsRecorded
    <2>4. LivesApart(people')
      BY <2>1 DEF NamesInv, LivesApart
    <2> QED BY <1>3, <2>3, <2>4
  <1>6. CASE D!DrizzleMigrate
    <2>1. /\ people' = people /\ applied' = applied
          /\ schema' = schema \cup D!DrizzleSchema /\ D!DrizzleSchema \cap schema = {}
      BY <1>6 DEF D!DrizzleMigrate, D!Accepts
    <2>2. D!Table("user") \notin schema
      BY <2>1, SchemasDiffer
    <2>3. applied = 0
      BY <1>2, <2>2, SchemasDiffer DEF IsRecorded
    <2>4. schema = {}
      BY <2>2, <2>3, SchemasDiffer, RecordedIs, <1>2 DEF IsRecorded
    <2> QED BY <2>1, <2>4 DEF NamesInv
  <1>7. CASE OnlyRows
    <2>1. UNCHANGED <<schema, applied>>
      BY <1>7 DEF OnlyRows
    <2>2. CASE people' = people
      BY <2>1, <2>2 DEF NamesInv, HasTables
    <2>3. CASE Added
      <3>1. PICK by \in D!Makers : \E p, cs : Adds(by, p, cs)
        BY <2>3 DEF Added
      <3>2. PICK p, cs : Adds(by, p, cs)
        BY <3>1
      <3>3. HasTables /\ D!Free(p)
        BY <3>2, FitsHasTables DEF NamesInv, Adds
      <3>4. \E r : people' = people \cup {r} /\ r.username = p.username /\ r.email = p.email
        <4>1. \A b : D!Row(by, p, b).username = p.username /\ D!Row(by, p, b).email = p.email
          BY DEF D!Row
        <4>2. /\ D!Row(by, p, FALSE).username = p.username /\ D!Row(by, p, FALSE).email = p.email
              /\ D!Row(by, p, TRUE).username = p.username /\ D!Row(by, p, TRUE).email = p.email
          BY <4>1
        <4> QED BY <3>2, <4>2 DEF Adds
      <3>5. \A q \in people : q.live => q.username # p.username /\ q.email # p.email
        BY <3>3, FreeIsApart DEF NamesInv
      <3>6. LivesApart(people')
        BY <3>4, <3>5, AddApart DEF NamesInv
      <3> QED BY <2>1, <3>3, <3>6 DEF HasTables
    <2>4. CASE Changed
      <3>1. PICK r \in people : \/ people' = (people \ {r}) \cup {[r EXCEPT !.live = FALSE]}
                               \/ people' = (people \ {r}) \cup {[r EXCEPT !.account = TRUE]}
        BY <2>4 DEF Changed
      <3>2. r \in D!Rows
        BY DEF NamesInv, SchemaInv, D!TypeOK
      <3>3. \E q : /\ people' = (people \ {r}) \cup {q}
                   /\ q.username = r.username /\ q.email = r.email /\ (q.live => r.live)
        <4> DEFINE hidden == [r EXCEPT !.live = FALSE]
                   paid == [r EXCEPT !.account = TRUE]
        <4>1. people' = (people \ {r}) \cup {hidden} \/ people' = (people \ {r}) \cup {paid}
          BY <3>1
        <4>2. /\ hidden.username = r.username /\ hidden.email = r.email /\ ~hidden.live
              /\ paid.username = r.username /\ paid.email = r.email /\ paid.live = r.live
          BY <3>2, SameRow
        <4> HIDE DEF hidden, paid
        <4>3. (hidden.live => r.live) /\ (paid.live => r.live)
          BY <4>2
        <4> QED BY <4>1, <4>2, <4>3
      <3>4. LivesApart(people')
        BY <3>3, ReplaceApart DEF NamesInv
      <3> QED BY <2>1, <3>4 DEF NamesInv, HasTables
    <2> QED BY <1>7, <2>2, <2>3, <2>4 DEF OnlyRows
  <1> HIDE DEF Kept
  <1> QED BY <1>4, <1>5, <1>6, <1>7, OtherSteps DEF NamesInv, SchemaInv

(* No two users that are not deleted share a name or an address, for any   *)
(* visitors and any number of seed runs at once, whoever looked before     *)
(* inserting and however long ago.                                         *)
THEOREM NamesStayUnique == Spec => []NamesAreUnique
  <1>1. Init => NamesInv
    <2>1. Init => SchemaInv
      <3>1. Init => IsRecorded(schema, applied)
        BY RecordedIs DEF Init, D!Init, IsRecorded
      <3> QED BY <3>1, DatabaseStarts, RecordReads DEF SchemaInv
    <2>2. Init => people = {}
      BY DEF Init, D!Init
    <2> QED BY <2>1, <2>2 DEF NamesInv, LivesApart
  <1>2. NamesInv => NamesAreUnique
    BY DEF NamesInv, LivesApart, Share, NamesAreUnique, D!NamesAreUnique
  <1> QED BY <1>1, <1>2, NamesStep, PTL DEF Spec
=============================================================================
