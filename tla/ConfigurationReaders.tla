------------------------- MODULE ConfigurationReaders -------------------------
(***************************************************************************)
(* The second reading: apiConfig and the services parse again what         *)
(* validateEnv wrote back, each with its own default and its own bounds.   *)
(* Where those differ from the validator's, the process would run with     *)
(* another value than the one it was started with.                         *)
(***************************************************************************)
EXTENDS Configuration

Larger(a, b) == IF a < b THEN b ELSE a
Smaller(a, b) == IF a < b THEN a ELSE b
Clamped(value, min, max) == Smaller(Larger(value, min), max)

\* parsePositiveInteger and parseBoundedInteger: a value that is no positive integer
\* counts as missing, one out of bounds is moved to the nearer bound.
Parsed(reader, raw) ==
    Clamped(IF raw \in Nat \ {0} THEN raw ELSE reader.default, reader.min, reader.max)

\* The services' own readers differ for what validateEnv never lets through.
ReadBounded(reader, raw) ==
    Clamped(IF raw \in Int THEN raw ELSE reader.default, reader.min, reader.max)

\* parseBoolean for any switch, and !== "false" for the registration of administrators.
IsOn(raw, default) == IF raw \in Missing THEN default ELSE raw = "true"
IsNotOff(raw) == raw \notin Missing /\ raw # "false"

-----------------------------------------------------------------------------
(* The tables of apiConfig.                                                 *)

ApiServer == [API_PORT                      |-> Within(3000, 1, 65535),
              CORS_DB_ORIGIN_CACHE_TTL_MS   |-> Positive(60000),
              TRUST_PROXY_HOPS              |-> Positive(1),
              ADMIN_TEMP_PASSWORD_TTL_HOURS |-> Within(24, 1, 168)]

ApiCache == [MEMORY_CACHE_MAX_ENTRIES              |-> Within(1000, 100, 10000),
             MEMORY_CACHE_DEFAULT_TTL_SECONDS      |-> Within(60, 1, 600),
             MEMORY_CACHE_INFLIGHT_TTL_MS          |-> Within(5000, 500, 30000),
             ADMIN_VIDEOS_LIST_CACHE_TTL_SECONDS   |-> Within(30, 1, 600),
             ADMIN_WEBSITES_LIST_CACHE_TTL_SECONDS |-> Within(60, 1, 600),
             PUBLIC_WATCH_METADATA_CACHE_TTL_SECONDS |-> Within(10, 1, 60),
             MEDIA_METADATA_CACHE_TTL_SECONDS      |-> Within(300, 1, 3600)]

ApiThrottles ==
    [GLOBAL_THROTTLE_TTL_SECONDS       |-> Positive(60), GLOBAL_THROTTLE_LIMIT       |-> Positive(120),
     AUTH_LOGIN_THROTTLE_TTL_SECONDS   |-> Positive(60), AUTH_LOGIN_THROTTLE_LIMIT   |-> Positive(5),
     AUTH_REFRESH_THROTTLE_TTL_SECONDS |-> Positive(60), AUTH_REFRESH_THROTTLE_LIMIT |-> Positive(20),
     AUTH_LOGOUT_THROTTLE_TTL_SECONDS  |-> Positive(60), AUTH_LOGOUT_THROTTLE_LIMIT  |-> Positive(30),
     ADMIN_API_THROTTLE_TTL_SECONDS    |-> Positive(60), ADMIN_API_THROTTLE_LIMIT    |-> Positive(120),
     PUBLIC_WATCH_THROTTLE_TTL_SECONDS |-> Positive(60), PUBLIC_WATCH_THROTTLE_LIMIT |-> Positive(60),
     PUBLIC_MEDIA_THROTTLE_TTL_SECONDS |-> Positive(60), PUBLIC_MEDIA_THROTTLE_LIMIT |-> Positive(1200)]

ApiGrowth == [VIDEO_VIEW_MAX_INCREMENT_PER_EVENT      |-> Positive(99),
              VIDEO_VIEW_MAX_INCREMENT_PER_VIDEO_HOUR |-> Positive(5000),
              VIDEO_VIEW_DEDUPE_WINDOW_MINUTES        |-> Positive(15),
              VIDEO_VIEW_MIN_WATCH_SECONDS            |-> Positive(5),
              VIDEO_VIEW_RANDOM_MIN_INCREMENT         |-> Positive(1)]

ApiDatabase == [DB_CONNECTION_LIMIT     |-> Positive(5),
                DB_CONNECT_TIMEOUT_MS   |-> Positive(10000),
                DB_ACQUIRE_TIMEOUT_MS   |-> Positive(10000),
                DB_IDLE_TIMEOUT_SECONDS |-> Positive(60)]

ApiLocal == [LOCAL_VIDEO_UPLOAD_MAX_MB              |-> Positive(500),
             LOCAL_VIDEO_UPLOAD_HARD_MAX_MB         |-> Positive(1024),
             LOCAL_VIDEO_CHUNK_SIZE_MB              |-> Positive(50),
             LOCAL_VIDEO_UPLOAD_SESSION_TTL_MINUTES |-> Positive(120),
             LOCAL_VIDEO_MIN_FREE_SPACE_MB          |-> Positive(1024),
             LOCAL_VIDEO_STALE_UPLOAD_MAX_AGE_HOURS |-> Positive(24),
             LOCAL_THUMBNAIL_UPLOAD_MAX_MB          |-> Positive(10)]

ApiBunny == [BUNNY_STREAM_TUS_TTL_SECONDS         |-> Within(3600, 300, 86400),
             BUNNY_STREAM_EMBED_TOKEN_TTL_SECONDS |-> Within(300, 60, 3600),
             BUNNY_PUBLIC_THUMBNAIL_MAX_BYTES     |-> Within(5242880, 65536, 20971520),
             BUNNY_PUBLIC_THUMBNAIL_TIMEOUT_MS    |-> Within(5000, 1000, 15000)]

-----------------------------------------------------------------------------
(* The services' own.                                                       *)

CacheService == [MEMORY_CACHE_MAX_ENTRIES              |-> Within(1000, 100, 10000),
                 MEMORY_CACHE_DEFAULT_TTL_SECONDS      |-> Within(60, 1, 600),
                 MEMORY_CACHE_INFLIGHT_TTL_MS          |-> Within(5000, 500, 30000),
                 ADMIN_VIDEOS_LIST_CACHE_TTL_SECONDS   |-> Within(30, 1, 600),
                 ADMIN_WEBSITES_LIST_CACHE_TTL_SECONDS |-> Within(60, 1, 600),
                 PUBLIC_WATCH_METADATA_CACHE_TTL_SECONDS |-> Within(10, 1, 60),
                 MEDIA_METADATA_CACHE_TTL_SECONDS      |-> Within(300, 1, 3600)]

BunnyStream == [BUNNY_STREAM_TUS_TTL_SECONDS         |-> Within(3600, 300, 86400),
                BUNNY_STREAM_EMBED_TOKEN_TTL_SECONDS |-> Within(300, 60, 3600)]

BunnyThumbnails == [BUNNY_PUBLIC_THUMBNAIL_MAX_BYTES  |-> Within(5242880, 65536, 20971520),
                    BUNNY_PUBLIC_THUMBNAIL_TIMEOUT_MS |-> Within(5000, 1000, 15000)]

MediaGrants == [PUBLIC_MEDIA_GRANT_TTL_SECONDS |-> Within(6 * 3600, 300, 24 * 3600)]

ReviewResume == [PUBLIC_MEDIA_GRANT_TTL_SECONDS  |-> Positive(6 * 3600),
                 PUBLIC_WATCH_RESUME_TTL_SECONDS |-> Positive(8 * 3600)]

AdminTokens == [REFRESH_TOKEN_BYTES        |-> Within(32, 32, Unlimited),
                REFRESH_TOKEN_EXPIRES_DAYS |-> Positive(30)]

MetadataProbe == [VIDEO_METADATA_PROBE_TIMEOUT_MS    |-> Positive(8000),
                  VIDEO_METADATA_PROBE_MAX_REMOTE_MB |-> Positive(100)]

ThumbnailFiles == [VIDEO_THUMBNAIL_UPLOAD_MAX_MB |-> Within(5, 1, 10)]
DatabaseFiles == [VIDEO_DB_UPLOAD_MAX_MB |-> Within(50, 1, 100)]

\* The throttlers and the profile a route may name: the default one skips every route
\* that names a profile, the others every route but those that name theirs.
Profiles == {"login", "refresh", "logout", "admin", "publicWatch", "publicMedia"}
CountedBy(profile) ==
    {throttler \in {"default"} \cup Profiles :
        IF throttler = "default" THEN profile = Absent ELSE profile = throttler}

\* VIDEO_UPLOAD_MAX_MB, the one without a default in validateEnv.
UploadMax(raw) == IF raw \in Nat \ {0} THEN raw ELSE 500

-----------------------------------------------------------------------------
(* What the readings promise.                                               *)

\* A reader leaves every value alone that the validator lets through.
Covers(reader, setting) == reader.min <= setting.min /\ setting.max <= reader.max

Agree(readers, settings) ==
    \A key \in DOMAIN readers \cap DOMAIN settings :
        /\ Covers(readers[key], settings[key])
        /\ readers[key].default = settings[key].default

\* Every reader of the program agrees with the validator.
ReadersAgree ==
    /\ Agree(ApiServer, ServerSettings) /\ Agree(ApiServer, OriginSettings)
    /\ Agree(ApiServer, ProxySettings) /\ Agree(ApiServer, AdminSettings)
    /\ Agree(ApiCache, CacheSettings) /\ Agree(CacheService, CacheSettings)
    /\ Agree(ApiThrottles, ThrottleSettings)
    /\ Agree(ApiGrowth, GrowthSettings)
    /\ Agree(ApiDatabase, DatabaseSettings)
    /\ Agree(ApiLocal, LocalSettings)
    /\ Agree(ApiBunny, BunnySettings) /\ Agree(BunnyStream, BunnySettings)
    /\ Agree(ApiBunny, ThumbnailSettings) /\ Agree(BunnyThumbnails, ThumbnailSettings)
    /\ Agree(MediaGrants, GrantSettings) /\ Agree(ReviewResume, GrantSettings)
    /\ Agree(AdminTokens, AdminSettings)
    /\ Agree(MetadataProbe, ProbeSettings)
    /\ Agree(ThumbnailFiles, UploadSettings) /\ Agree(DatabaseFiles, UploadSettings)

\* What a reader makes of what validateEnv wrote for a raw value.
SecondReading(reader, setting, raw) == Parsed(reader, Validated(setting, raw))
ServiceReading(reader, setting, raw) == ReadBounded(reader, Validated(setting, raw))
=============================================================================
