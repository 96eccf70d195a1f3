---------------------------- MODULE Configuration ----------------------------
(***************************************************************************)
(* What the process reads from its environment.  validateEnv reads every   *)
(* variable once when the process starts, refuses to start on a bad one    *)
(* and writes back what it accepted; apiConfig and the services read the   *)
(* same variables again, each with defaults and bounds of its own.         *)
(*                                                                         *)
(* An environment maps the variables to raw values: absent, blank,         *)
(* malformed, a number, a switch or, where the code only tests a property  *)
(* of a text, that property (the length of a secret, whether an origin is  *)
(* https and local, the hosts of a list).                                  *)
(***************************************************************************)
EXTENDS Integers, FiniteSets

CONSTANTS
    Absent,     \* the variable is not set
    Blank,      \* it is set to nothing but blanks
    Malformed,  \* it does not parse as what it should be
    Unlimited   \* the largest integer a variable can hold

Missing == {Absent, Blank}

ASSUME RawAssumption ==
    /\ Unlimited \in Nat
    /\ Unlimited >= 20 * 1024 * 1024
    /\ (Missing \cup {Malformed}) \cap Int = {}

-----------------------------------------------------------------------------
(* The readers of validateEnv.                                              *)

Within(default, min, max) == [default |-> default, min |-> min, max |-> max]
Positive(default) == Within(default, 1, Unlimited)

Setting == [default : Int, min : Int, max : Int]

InBounds(setting, value) == value \in Int /\ setting.min <= value /\ value <= setting.max
Accepts(setting, raw) == raw \in Missing \/ InBounds(setting, raw)
Validated(setting, raw) == IF raw \in Missing THEN setting.default ELSE raw

AllAccepted(settings, env) == \A key \in DOMAIN settings : Accepts(settings[key], env[key])

Switches == {"true", "false"}
AcceptsSwitch(raw) == raw \in Switches \cup {Absent}
Switched(raw, default) == IF raw = Absent THEN default ELSE raw = "true"

Text(raw, default) == IF raw \in Missing THEN default ELSE raw
Present(raw) == raw \notin Missing
WellFormed(raw) == Present(raw) /\ raw # Malformed
MissingOrWellFormed(raw) == raw # Malformed

NodeEnv(env) == Text(env.NODE_ENV, "development")
IsProduction(env) == "production" \in {NodeEnv(env), Text(env.APP_ENV, NodeEnv(env))}

-----------------------------------------------------------------------------
(* What validateEnv accepts, group by group.                                *)

ServerSettings == [API_PORT |-> Within(3000, 1, 65535)]

ServerAccepted(env) ==
    /\ AllAccepted(ServerSettings, env)
    /\ MissingOrWellFormed(env.API_PREFIX)
    /\ AcceptsSwitch(env.API_INTERNAL_DOCS_ENABLED)
    /\ AcceptsSwitch(env.API_DOCS_ALLOW_IN_PRODUCTION)
    /\ Present(env.DATABASE_URL)

\* A secret of its own length, or outside production the built-in one.
SigningSecret(env, raw) ==
    IF Present(raw) THEN raw >= 32 ELSE ~IsProduction(env)

GrantSettings == [PUBLIC_MEDIA_GRANT_TTL_SECONDS  |-> Within(6 * 3600, 300, 24 * 3600),
                  PUBLIC_WATCH_RESUME_TTL_SECONDS |-> Within(8 * 3600, 300, 24 * 3600)]

SecretsAccepted(env) ==
    /\ Present(env.JWT_ACCESS_SECRET)
    /\ MissingOrWellFormed(env.JWT_ACCESS_EXPIRES_IN)
    /\ Present(env.REFRESH_TOKEN_PEPPER)
    /\ Present(env.SHARE_TOKEN_PEPPER)
    /\ SigningSecret(env, env.PUBLIC_MEDIA_GRANT_SECRET)
    /\ SigningSecret(env, env.PUBLIC_WATCH_RESUME_SECRET)
    /\ AllAccepted(GrantSettings, env)
    /\ Present(env.ACCESS_LOG_IP_PEPPER)

AdminSettings == [REFRESH_TOKEN_BYTES           |-> Within(32, 32, Unlimited),
                  REFRESH_TOKEN_EXPIRES_DAYS    |-> Positive(30),
                  ADMIN_TEMP_PASSWORD_TTL_HOURS |-> Within(24, 1, 168)]

AdminAccepted(env) ==
    /\ AllAccepted(AdminSettings, env)
    /\ AcceptsSwitch(env.ADMIN_REGISTER_ENABLED)
    /\ AcceptsSwitch(env.ADMIN_ACCOUNT_MANAGEMENT_ENABLED)
    /\ IsProduction(env) => Present(env.ADMIN_CHANGE_PASSWORD_SECRET)

\* An origin is its protocol and whether its host is this machine.
DefaultAdminOrigin == [https |-> FALSE, local |-> TRUE]

OriginSettings == [CORS_DB_ORIGIN_CACHE_TTL_MS |-> Positive(60000)]

OriginsAccepted(env) ==
    /\ IsProduction(env) => LET origin == Text(env.ADMIN_WEB_ORIGIN, DefaultAdminOrigin)
                            IN  origin # Malformed /\ origin.https /\ ~origin.local
    /\ AcceptsSwitch(env.ALLOW_LOCALHOST_DOMAIN_CLAIM)
    /\ MissingOrWellFormed(env.PUBLIC_SITE_PROTOCOL)
    /\ MissingOrWellFormed(env.PUBLIC_SHARE_LOCAL_PROTOCOL)
    /\ MissingOrWellFormed(env.PUBLIC_COMPATIBILITY_URL_HOSTS)
    /\ AcceptsSwitch(env.CORS_ALLOW_DB_DOMAINS)
    /\ AllAccepted(OriginSettings, env)
    /\ AcceptsSwitch(env.CORS_ALLOW_LOCALHOST_DB_DOMAINS)

ProxySettings == [TRUST_PROXY_HOPS |-> Positive(1)]

ProxyTrusted(env) == Switched(env.TRUST_PROXY_ENABLED, FALSE)

\* The addresses that are trusted, when any are given.
ProxyAccepted(env) ==
    /\ AcceptsSwitch(env.TRUST_PROXY_ENABLED)
    /\ AllAccepted(ProxySettings, env)
    /\ AcceptsSwitch(env.TRUST_PROXY_CLOUDFLARE_ONLY)
    /\ IsProduction(env) /\ ProxyTrusted(env) => Present(env.TRUSTED_PROXY_CIDRS)
    /\ env.TRUSTED_PROXY_CIDRS \notin {Malformed, {}}

CacheSettings == [MEMORY_CACHE_MAX_ENTRIES              |-> Within(1000, 100, 10000),
                  MEMORY_CACHE_DEFAULT_TTL_SECONDS      |-> Within(60, 1, 600),
                  MEMORY_CACHE_INFLIGHT_TTL_MS          |-> Within(5000, 500, 30000),
                  ADMIN_VIDEOS_LIST_CACHE_TTL_SECONDS   |-> Within(30, 1, 600),
                  ADMIN_WEBSITES_LIST_CACHE_TTL_SECONDS |-> Within(60, 1, 600),
                  PUBLIC_WATCH_METADATA_CACHE_TTL_SECONDS |-> Within(10, 1, 60),
                  MEDIA_METADATA_CACHE_TTL_SECONDS      |-> Within(300, 1, 3600)]

CacheAccepted(env) ==
    /\ AcceptsSwitch(env.MEMORY_CACHE_ENABLED)
    /\ AllAccepted(CacheSettings, env)

ThrottleSettings ==
    [GLOBAL_THROTTLE_TTL_SECONDS       |-> Positive(60), GLOBAL_THROTTLE_LIMIT       |-> Positive(120),
     AUTH_LOGIN_THROTTLE_TTL_SECONDS   |-> Positive(60), AUTH_LOGIN_THROTTLE_LIMIT   |-> Positive(5),
     AUTH_REFRESH_THROTTLE_TTL_SECONDS |-> Positive(60), AUTH_REFRESH_THROTTLE_LIMIT |-> Positive(20),
     AUTH_LOGOUT_THROTTLE_TTL_SECONDS  |-> Positive(60), AUTH_LOGOUT_THROTTLE_LIMIT  |-> Positive(30),
     ADMIN_API_THROTTLE_TTL_SECONDS    |-> Positive(60), ADMIN_API_THROTTLE_LIMIT    |-> Positive(120),
     PUBLIC_WATCH_THROTTLE_TTL_SECONDS |-> Positive(60), PUBLIC_WATCH_THROTTLE_LIMIT |-> Positive(60),
     PUBLIC_MEDIA_THROTTLE_TTL_SECONDS |-> Positive(60), PUBLIC_MEDIA_THROTTLE_LIMIT |-> Positive(1200)]

GrowthSettings == [VIDEO_VIEW_MAX_INCREMENT_PER_EVENT      |-> Within(99, 1, 99),
                   VIDEO_VIEW_MAX_INCREMENT_PER_VIDEO_HOUR |-> Positive(5000),
                   VIDEO_VIEW_DEDUPE_WINDOW_MINUTES        |-> Positive(15),
                   VIDEO_VIEW_MIN_WATCH_SECONDS            |-> Positive(5),
                   VIDEO_VIEW_RANDOM_MIN_INCREMENT         |-> Positive(1)]

GrowthValue(env, key) == Validated(GrowthSettings[key], env[key])

GrowthAccepted(env) ==
    /\ AcceptsSwitch(env.VIDEO_VIEW_GROWTH_ENABLED)
    /\ AllAccepted(GrowthSettings, env)
    /\ GrowthValue(env, "VIDEO_VIEW_RANDOM_MIN_INCREMENT")
           <= GrowthValue(env, "VIDEO_VIEW_MAX_INCREMENT_PER_EVENT")

DatabaseSettings == [DB_CONNECTION_LIMIT     |-> Positive(5),
                     DB_CONNECT_TIMEOUT_MS   |-> Positive(10000),
                     DB_ACQUIRE_TIMEOUT_MS   |-> Positive(10000),
                     DB_IDLE_TIMEOUT_SECONDS |-> Positive(60)]

DatabaseAccepted(env) ==
    /\ AllAccepted(DatabaseSettings, env)
    /\ AcceptsSwitch(env.DB_MARIADB_USE_TEXT_PROTOCOL)
    /\ env.DIAG_MARIADB_COLLATION_PROBE \in {Absent, "disabled", "confirmed"}

UploadSettings == [VIDEO_DB_UPLOAD_MAX_MB        |-> Within(50, 1, 100),
                   VIDEO_THUMBNAIL_UPLOAD_MAX_MB |-> Within(5, 1, 10)]

DatabaseStorage(env) == Switched(env.VIDEO_DB_STORAGE_ENABLED, FALSE)

\* VIDEO_UPLOAD_MAX_MB has no default: it may be absent, but not blank.
UploadsAccepted(env) ==
    /\ env.VIDEO_UPLOAD_MAX_MB = Absent \/ InBounds(Positive(500), env.VIDEO_UPLOAD_MAX_MB)
    /\ AcceptsSwitch(env.VIDEO_DB_STORAGE_ENABLED)
    /\ AcceptsSwitch(env.VIDEO_DB_STORAGE_ALLOW_PRODUCTION_OVERRIDE)
    /\ IsProduction(env) /\ DatabaseStorage(env)
           => Switched(env.VIDEO_DB_STORAGE_ALLOW_PRODUCTION_OVERRIDE, FALSE)
    /\ AllAccepted(UploadSettings, env)
    /\ AcceptsSwitch(env.CLOUDINARY_SECURE)

ProbeSettings == [VIDEO_METADATA_PROBE_TIMEOUT_MS    |-> Positive(8000),
                  VIDEO_METADATA_PROBE_MAX_REMOTE_MB |-> Positive(100)]

ProbeAccepted(env) ==
    /\ AcceptsSwitch(env.VIDEO_METADATA_PROBE_ENABLED)
    /\ AllAccepted(ProbeSettings, env)

LocalSettings == [LOCAL_VIDEO_UPLOAD_HARD_MAX_MB         |-> Within(1024, 1, 1024),
                  LOCAL_VIDEO_UPLOAD_MAX_MB              |-> Positive(500),
                  LOCAL_VIDEO_CHUNK_SIZE_MB              |-> Within(50, 1, 100),
                  LOCAL_VIDEO_UPLOAD_SESSION_TTL_MINUTES |-> Positive(120),
                  LOCAL_VIDEO_MIN_FREE_SPACE_MB          |-> Positive(1024),
                  LOCAL_VIDEO_STALE_UPLOAD_MAX_AGE_HOURS |-> Positive(24),
                  LOCAL_THUMBNAIL_UPLOAD_MAX_MB          |-> Within(10, 1, 10)]

LocalValue(env, key) == Validated(LocalSettings[key], env[key])
LocalStorage(env) == Switched(env.LOCAL_FILE_STORAGE_ENABLED, FALSE)

\* A storage root is whether it lies in a web root and whether it is absolute.
LocalAccepted(env) ==
    /\ AcceptsSwitch(env.LOCAL_FILE_STORAGE_ENABLED)
    /\ LocalStorage(env) => /\ Present(env.LOCAL_FILE_STORAGE_ROOT)
                            /\ ~env.LOCAL_FILE_STORAGE_ROOT.served
                            /\ IsProduction(env) => env.LOCAL_FILE_STORAGE_ROOT.absolute
    /\ AllAccepted(LocalSettings, env)
    /\ LocalValue(env, "LOCAL_VIDEO_UPLOAD_MAX_MB")
           <= LocalValue(env, "LOCAL_VIDEO_UPLOAD_HARD_MAX_MB")
    /\ LocalValue(env, "LOCAL_VIDEO_CHUNK_SIZE_MB")
           <= LocalValue(env, "LOCAL_VIDEO_UPLOAD_MAX_MB")

BunnySettings == [BUNNY_STREAM_TUS_TTL_SECONDS         |-> Within(3600, 300, 86400),
                  BUNNY_STREAM_EMBED_TOKEN_TTL_SECONDS |-> Within(300, 60, 3600)]

BunnyEnabled(env) == Switched(env.BUNNY_STREAM_ENABLED, FALSE)

BunnyAccepted(env) ==
    /\ AcceptsSwitch(env.BUNNY_STREAM_ENABLED)
    /\ BunnyEnabled(env) => /\ WellFormed(env.BUNNY_STREAM_LIBRARY_ID)
                            /\ Present(env.BUNNY_STREAM_API_KEY)
                            /\ Present(env.BUNNY_STREAM_TOKEN_SECURITY_KEY)
                            /\ WellFormed(env.BUNNY_STREAM_PULL_ZONE_HOSTNAME)
    /\ AllAccepted(BunnySettings, env)

ThumbnailSettings == [BUNNY_PUBLIC_THUMBNAIL_MAX_BYTES  |-> Within(5242880, 65536, 20971520),
                      BUNNY_PUBLIC_THUMBNAIL_TIMEOUT_MS |-> Within(5000, 1000, 15000)]

AuthMode(env) == Text(env.BUNNY_PUBLIC_THUMBNAIL_UPSTREAM_AUTH_MODE, "none")
ThumbnailProxy(env) == Switched(env.BUNNY_PUBLIC_THUMBNAIL_PROXY_ENABLED, FALSE)

ThumbnailProxyAccepted(env) ==
    /\ AcceptsSwitch(env.BUNNY_PUBLIC_THUMBNAIL_PROXY_ENABLED)
    /\ AuthMode(env) \in {"none", "referer"}
    /\ ThumbnailProxy(env) /\ AuthMode(env) = "referer"
           => WellFormed(env.BUNNY_PUBLIC_THUMBNAIL_UPSTREAM_REFERER)
    /\ AllAccepted(ThumbnailSettings, env)

\* A version is its length; a commit and a build time only parse or do not.
ReleaseAccepted(env) ==
    /\ Present(env.APP_RELEASE_VERSION) => env.APP_RELEASE_VERSION <= 64
    /\ MissingOrWellFormed(env.APP_BUILD_SHA)
    /\ MissingOrWellFormed(env.APP_BUILD_TIME)

\* The process starts.
Accepted(env) ==
    /\ ServerAccepted(env) /\ SecretsAccepted(env) /\ AdminAccepted(env)
    /\ OriginsAccepted(env) /\ ProxyAccepted(env)
    /\ CacheAccepted(env) /\ AllAccepted(ThrottleSettings, env) /\ GrowthAccepted(env)
    /\ DatabaseAccepted(env) /\ UploadsAccepted(env) /\ ProbeAccepted(env)
    /\ LocalAccepted(env) /\ BunnyAccepted(env) /\ ThumbnailProxyAccepted(env)
    /\ ReleaseAccepted(env)
=============================================================================
