---- MODULE Environment ----
(***************************************************************************)
(* env.validation.ts: what the schema makes of the environment a process   *)
(* is started with, and what the constructors then ask of the result.  A   *)
(* raw value is absent, blank, the number zero, malformed for its purpose, *)
(* or fine; fine for a choice is the alternative to its default.           *)
(***************************************************************************)
EXTENDS Integers

CONSTANT Watched   \* the variables an operator may get wrong; the rest is fine

Raw == {"absent", "blank", "zero", "malformed", "fine"}
Parsed == {"error", "undefined", "default", "blank", "zero", "malformed", "set"}

\* What each kind of schema makes of each kind of raw value.
Kind ==
    LET Of(absent, blank, zero, malformed) ==
            [absent |-> absent, blank |-> blank, zero |-> zero,
             malformed |-> malformed, fine |-> "set"] IN
    [required |-> Of("error", "error", "error", "error"),
     choice   |-> Of("default", "error", "error", "error"),
     positive |-> Of("default", "error", "error", "error"),
     natural  |-> Of("default", "zero", "zero", "error"),  \* Number('') is 0
     duration |-> Of("default", "error", "zero", "error"), \* "0d" matches
     named    |-> Of("default", "error", "set", "malformed"), \* any other text
     version  |-> Of("default", "error", "error", "error"),
     text     |-> Of("default", "blank", "set", "malformed"),
     mimes    |-> Of("default", "default", "set", "malformed"),
     origins  |-> Of("undefined", "blank", "error", "error"),
     flag     |-> Of("undefined", "error", "error", "error"), \* no preprocessing of ''
     optional |-> Of("undefined", "undefined", "set", "malformed"),
     url      |-> Of("undefined", "undefined", "error", "error"),
     port     |-> Of("undefined", "undefined", "error", "error")]

envSchema ==
    [NODE_ENV |-> "choice", PORT |-> "positive", HOST |-> "text",
     APP_NAME |-> "named", APP_DESCRIPTION |-> "named", APP_VERSION |-> "version",
     DATABASE_URL |-> "required", DB_POOL_MAX |-> "positive",
     DB_CONN_TIMEOUT_MS |-> "natural", DB_IDLE_TIMEOUT_MS |-> "natural",
     DB_LOCK_TIMEOUT_MS |-> "natural", DB_STATEMENT_TIMEOUT_MS |-> "natural",
     DB_SSL |-> "flag", BODY_SIZE_LIMIT |-> "text", ALLOWED_ORIGINS |-> "origins",
     JWT_ACCESS_SECRET |-> "required", JWT_REFRESH_SECRET |-> "required",
     JWT_ACCESS_EXPIRES_IN |-> "duration", JWT_REFRESH_EXPIRES_IN |-> "duration",
     BCRYPT_ROUNDS |-> "positive", MAX_FAILED_ATTEMPTS |-> "positive",
     LOCK_DURATION_MINUTES |-> "positive",
     PASSWORD_RESET_TOKEN_EXPIRES_MINUTES |-> "positive",
     MAIL_PROVIDER |-> "choice", MAIL_FROM |-> "text", SMTP_HOST |-> "optional",
     SMTP_PORT |-> "port", SMTP_USER |-> "optional", SMTP_PASSWORD |-> "optional",
     SMTP_SECURE |-> "flag", GOOGLE_CLIENT_ID |-> "optional",
     GOOGLE_CLIENT_SECRET |-> "optional", GOOGLE_CALLBACK_URL |-> "url",
     APP_URL |-> "url", TRUST_PROXY |-> "text", REDIS_URL |-> "required",
     STORAGE_PROVIDER |-> "choice", LOCAL_STORAGE_DEST |-> "text",
     STORAGE_MAX_FILE_SIZE_MB |-> "positive", STORAGE_ALLOWED_MIME_TYPES |-> "mimes",
     STORAGE_AWS_ACCESS_KEY_ID |-> "optional",
     STORAGE_AWS_SECRET_ACCESS_KEY |-> "optional", STORAGE_AWS_REGION |-> "text",
     STORAGE_AWS_BUCKET_NAME |-> "optional", STORAGE_AWS_ENDPOINT |-> "url"]

Variables == DOMAIN envSchema
ASSUME WatchedAssumption == Watched \subseteq Variables

Environments ==
    {[v \in Variables |-> IF v \in Watched THEN env[v] ELSE "fine"] : env \in [Watched -> Raw]}

Smtp == {"SMTP_HOST", "SMTP_PORT", "SMTP_USER", "SMTP_PASSWORD"}
Aws == {"STORAGE_AWS_ACCESS_KEY_ID", "STORAGE_AWS_SECRET_ACCESS_KEY", "STORAGE_AWS_BUCKET_NAME"}

Chosen(config, v) == config[v] = "set"
Falsy(value) == value \in {"undefined", "blank", "zero"}

\* Mutation: one of the four is forgotten.
CrossChecksButPort(config) ==
    /\ Chosen(config, "STORAGE_PROVIDER") => \A v \in Aws : ~Falsy(config[v])
    /\ Chosen(config, "MAIL_PROVIDER") => \A v \in Smtp \ {"SMTP_PORT"} : ~Falsy(config[v])

\* The two superRefine steps.
CrossChecks(config) ==
    /\ Chosen(config, "STORAGE_PROVIDER") => \A v \in Aws : ~Falsy(config[v])
    /\ Chosen(config, "MAIL_PROVIDER") => \A v \in Smtp : ~Falsy(config[v])

Parse(env) == [v \in Variables |-> Kind[envSchema[v]][env[v]]]

\* validateEnv returns the parsed configuration, or throws.
Accepted(env) == LET config == Parse(env) IN
    (\A v \in Variables : config[v] # "error") /\ CrossChecks(config)

\* What the constructors of the providers that are built ask getOrThrow for.
Demanded(config) ==
    {"DATABASE_URL", "REDIS_URL", "JWT_ACCESS_SECRET", "JWT_ACCESS_EXPIRES_IN",
     "JWT_REFRESH_EXPIRES_IN", "APP_NAME", "APP_DESCRIPTION", "APP_VERSION"}
    \cup (IF Chosen(config, "STORAGE_PROVIDER") THEN Aws ELSE {})
    \cup (IF Chosen(config, "MAIL_PROVIDER") THEN Smtp \cup {"MAIL_FROM"} ELSE {})

\* Where getOrThrow throws: ConfigService looks into process.env for what the
\* schema left undefined.
Missing(env) == LET config == Parse(env) IN
    {v \in Demanded(config) : config[v] = "undefined" /\ env[v] = "absent"}

\* The local provider makes its directory when it is built; the client of the
\* other one takes any region but a blank one.
StorageUsable(config) ==
    IF Chosen(config, "STORAGE_PROVIDER") THEN config["STORAGE_AWS_REGION"] # "blank"
    ELSE config["LOCAL_STORAGE_DEST"] # "malformed"

\* Blank is nobody and a number so many hops; Express throws on any other text
\* that is no list of subnets.
TrustProxyUsable(config) == config["TRUST_PROXY"] # "malformed"

\* listen() needs an address of this host; blank is any.
HostUsable(config) == config["HOST"] # "malformed"
====
