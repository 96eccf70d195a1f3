---------------------------- MODULE MCViewGrowth -----------------------------
\* Instances of ViewGrowth for TLC, and of the settings it and the others read.
EXTENDS ViewGrowth, ConfigurationReaders, TLC

\* Scaled: the code allows 10 within 5 minutes, 30 within 15 and 75 within 30.
ScaledPace == <<[within |-> 1, most |-> 1], [within |-> 2, most |-> 2],
                [within |-> 3, most |-> 3]>>

Interchangeable == Permutations(Viewers) \cup Permutations(Requests)

-----------------------------------------------------------------------------
\* The variables a process cannot start without, and those of a production with
\* everything switched on.
Required ==
    [DATABASE_URL |-> "url", JWT_ACCESS_SECRET |-> 32, REFRESH_TOKEN_PEPPER |-> 32,
     SHARE_TOKEN_PEPPER |-> 32, ACCESS_LOG_IP_PEPPER |-> 32]
Production ==
    [NODE_ENV |-> "production", PUBLIC_MEDIA_GRANT_SECRET |-> 32,
     PUBLIC_WATCH_RESUME_SECRET |-> 32, ADMIN_CHANGE_PASSWORD_SECRET |-> 32,
     ADMIN_WEB_ORIGIN |-> [https |-> TRUE, local |-> FALSE],
     TRUST_PROXY_ENABLED |-> "true", TRUSTED_PROXY_CIDRS |-> {"proxy"},
     VIDEO_DB_STORAGE_ENABLED |-> "true",
     VIDEO_DB_STORAGE_ALLOW_PRODUCTION_OVERRIDE |-> "true",
     LOCAL_FILE_STORAGE_ENABLED |-> "true",
     LOCAL_FILE_STORAGE_ROOT |-> [served |-> FALSE, absolute |-> TRUE],
     BUNNY_STREAM_ENABLED |-> "true", BUNNY_STREAM_LIBRARY_ID |-> "library",
     BUNNY_STREAM_API_KEY |-> "key", BUNNY_STREAM_TOKEN_SECURITY_KEY |-> "key",
     BUNNY_STREAM_PULL_ZONE_HOSTNAME |-> "host",
     BUNNY_PUBLIC_THUMBNAIL_PROXY_ENABLED |-> "true",
     BUNNY_PUBLIC_THUMBNAIL_UPSTREAM_AUTH_MODE |-> "referer",
     BUNNY_PUBLIC_THUMBNAIL_UPSTREAM_REFERER |-> "referer"]
Others ==
    {"APP_ENV", "API_PREFIX", "API_INTERNAL_DOCS_ENABLED", "API_DOCS_ALLOW_IN_PRODUCTION",
     "JWT_ACCESS_EXPIRES_IN", "ADMIN_REGISTER_ENABLED", "ADMIN_ACCOUNT_MANAGEMENT_ENABLED",
     "ALLOW_LOCALHOST_DOMAIN_CLAIM", "PUBLIC_SITE_PROTOCOL", "PUBLIC_SHARE_LOCAL_PROTOCOL",
     "PUBLIC_COMPATIBILITY_URL_HOSTS", "CORS_ALLOW_DB_DOMAINS",
     "CORS_ALLOW_LOCALHOST_DB_DOMAINS", "TRUST_PROXY_CLOUDFLARE_ONLY", "MEMORY_CACHE_ENABLED",
     "VIDEO_VIEW_GROWTH_ENABLED", "DB_MARIADB_USE_TEXT_PROTOCOL",
     "DIAG_MARIADB_COLLATION_PROBE", "VIDEO_UPLOAD_MAX_MB", "CLOUDINARY_SECURE",
     "VIDEO_METADATA_PROBE_ENABLED", "APP_RELEASE_VERSION", "APP_BUILD_SHA", "APP_BUILD_TIME"}

\* Every integer the validator bounds.
IntegerSettings == ServerSettings @@ GrantSettings @@ AdminSettings @@ OriginSettings @@ ProxySettings
                     @@ CacheSettings @@ ThrottleSettings @@ GrowthSettings @@ DatabaseSettings
              @@ UploadSettings @@ ProbeSettings @@ LocalSettings @@ BunnySettings
              @@ ThumbnailSettings
Nothing == [key \in Others \cup DOMAIN Production \cup DOMAIN IntegerSettings |-> Absent]
Smallest == Required @@ Nothing
Largest == Production @@ Smallest

\* Around every bound.
Raws(key) == LET s == IntegerSettings[key]
             IN  {Absent, Blank, Malformed, -1, 0, s.min, s.default, s.max}
                   \cup (IF s.min > 1 THEN {s.min - 1} ELSE {})
                   \cup (IF s.max < Unlimited THEN {s.max + 1} ELSE {})

\* One variable changed, or two of those that validateEnv compares.
Varied == {[env EXCEPT ![key] = raw] : env \in {Smallest, Largest}, key \in {"APP_ENV"}, raw \in {Absent, "production"}}
            \cup UNION {{[Largest EXCEPT ![key] = raw] : raw \in Raws(key)} : key \in DOMAIN IntegerSettings}
            \cup {[Smallest EXCEPT !["VIDEO_VIEW_RANDOM_MIN_INCREMENT"] = a,
                                   !["VIDEO_VIEW_MAX_INCREMENT_PER_EVENT"] = b] :
                  a, b \in {Absent, 1, 2, 98, 99, 100}}
            \cup {[Smallest EXCEPT !["LOCAL_VIDEO_CHUNK_SIZE_MB"] = a,
                                   !["LOCAL_VIDEO_UPLOAD_MAX_MB"] = b,
                                   !["LOCAL_VIDEO_UPLOAD_HARD_MAX_MB"] = c] :
                  a, b, c \in {Absent, 1, 49, 50, 500, 1024}}

\* Both ends start, and neither starts without a variable it requires.
ASSUME EndsStart == Accepted(Smallest) /\ Accepted(Largest)
ASSUME RequiredIsRequired ==
    \A key \in DOMAIN Required : ~Accepted([Smallest EXCEPT ![key] = Blank])

Chosen == {"NODE_ENV", "TRUST_PROXY_ENABLED", "VIDEO_DB_STORAGE_ENABLED",
           "LOCAL_FILE_STORAGE_ENABLED", "BUNNY_STREAM_ENABLED",
           "BUNNY_PUBLIC_THUMBNAIL_PROXY_ENABLED",
           "BUNNY_PUBLIC_THUMBNAIL_UPSTREAM_AUTH_MODE"}
ASSUME ProductionIsRequired ==
    \A key \in DOMAIN Production \ Chosen : ~Accepted([Largest EXCEPT ![key] = Absent])

\* The validator takes nothing out of its bounds, and every reader keeps what it takes.
ASSUME TablesAgree == ReadersAgree
ASSUME OnlyWithinBounds ==
    \A key \in DOMAIN IntegerSettings : \A raw \in Raws(key) :
        Accepted([Largest EXCEPT ![key] = raw]) => Accepts(IntegerSettings[key], raw)

Readers == {ApiServer, ApiCache, ApiThrottles, ApiGrowth, ApiDatabase, ApiLocal, ApiBunny,
            CacheService, BunnyStream, BunnyThumbnails, MediaGrants, ReviewResume,
            AdminTokens, MetadataProbe, ThumbnailFiles, DatabaseFiles}
ASSUME ReadersKeepValues ==
    \A readers \in Readers : \A key \in DOMAIN readers : \A raw \in Raws(key) :
        LET setting == IntegerSettings[key]
        IN  Accepts(setting, raw) =>
                /\ SecondReading(readers[key], setting, raw) = Validated(setting, raw)
                /\ ServiceReading(readers[key], setting, raw) = Validated(setting, raw)

\* What is compared when the process starts still holds of what the services read.
ASSUME ComparisonsHold ==
    \A env \in Varied :
        LET growth(key) == SecondReading(ApiGrowth[key], GrowthSettings[key], env[key])
            upload(key) == SecondReading(ApiLocal[key], LocalSettings[key], env[key])
        IN  Accepted(env) =>
                /\ growth("VIDEO_VIEW_RANDOM_MIN_INCREMENT")
                     <= growth("VIDEO_VIEW_MAX_INCREMENT_PER_EVENT")
                /\ upload("LOCAL_VIDEO_CHUNK_SIZE_MB") <= upload("LOCAL_VIDEO_UPLOAD_MAX_MB")
                /\ upload("LOCAL_VIDEO_UPLOAD_MAX_MB") <= upload("LOCAL_VIDEO_UPLOAD_HARD_MAX_MB")

\* Every route is counted by exactly one throttler.
ASSUME OneThrottler ==
    \A profile \in Profiles \cup {Absent} : Cardinality(CountedBy(profile)) = 1
=============================================================================
