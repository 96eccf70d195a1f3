---------------------------- MODULE PublicSources ----------------------------
(***************************************************************************)
(* Where a viewer is sent for one video: which videos of a link are        *)
(* listed, which address each field of the answer carries, what the poster *)
(* route then does, and what the relay of a Bunny poster lets through.     *)
(*                                                                         *)
(* An address is None or has a kind: "plain", "admin" (an administrator's  *)
(* endpoint) or "parsed" (a poster, with what its parts are compared       *)
(* with); the API itself makes "binary", "local", "thumbnail", "signed".   *)
(***************************************************************************)
EXTENDS Integers, Sequences

CONSTANT None

\* An asset row: its media type and whether it has bytes.
Playable(asset) == asset # None /\ asset.type = "video" /\ asset.bytes > 0
Picture(asset) == asset # None /\ asset.type = "image" /\ asset.bytes > 0

-----------------------------------------------------------------------------
(* Bunny identity.                                                          *)

\* readBunnyMetadataMarker: the id the metadata names, if they name one.
Marked(video) == IF video.marker = None THEN None ELSE video.marker.id

isBunnyRemoteMissing(video) == video.marker # None /\ video.marker.missing

classifyBunnyVideoAsset(video) ==
    IF video.provider # "BUNNY" \/ video.source # "EMBED" THEN "not-bunny"
    ELSE IF video.asset # None /\ video.playback = video.asset /\ Marked(video) = video.asset
         THEN "bunny" ELSE "bunny-malformed"

canSignEmbedUrl(config) == config.bunny /\ config.library /\ config.key

\* loadSignableBunnyVideoIds: what the current row may be signed as, whatever a cached
\* row says. None: the row is gone, or refuses.
Signable(current) ==
    IF current # None /\ current.status = "READY" /\ ~isBunnyRemoteMissing(current)
       /\ classifyBunnyVideoAsset(current) = "bunny"
    THEN current.asset ELSE None

-----------------------------------------------------------------------------
(* The answer.                                                              *)

isPublicPlayableVideo(config, video) ==
    /\ video.status = "READY"
    /\ CASE video.source = "EMBED" ->
              LET kind == classifyBunnyVideoAsset(video)
              IN  \/ kind = "bunny" /\ canSignEmbedUrl(config)
                  \/ kind = "not-bunny" /\ video.embed # None
         [] video.source = "DB_BLOB" -> Playable(video.binary)
         [] video.source = "LOCAL_FILE" -> Playable(video.local)
         [] OTHER -> video.url # None

Address(kind) == [kind |-> kind]
IsAdmin(url) == url # None /\ url.kind = "admin"
toSafePublicMediaUrl(url) == IF IsAdmin(url) THEN None ELSE url

resolvePublicEmbedUrl(config, video, signable) ==
    LET kind == classifyBunnyVideoAsset(video)
    IN  IF kind = "not-bunny" THEN video.embed
        ELSE IF kind = "bunny" /\ signable = video.asset /\ canSignEmbedUrl(config)
             THEN Address("signed") ELSE None

Parsed(url) == url # None /\ url.kind = "parsed"

\* resolveBunnyThumbnailUpstreamUrl: the parts that must be the proven ones.
IsOwnPoster(config, video) ==
    /\ Parsed(video.poster)
    /\ video.poster.https
    /\ video.poster.bare        \* no credentials, port, query or fragment
    /\ video.poster.host = config.zone
    /\ video.poster.id = video.asset
    /\ video.poster.file        \* two segments, the second a safe file name

resolveBunnyThumbnailUpstream(config, video) ==
    /\ config.proxy
    /\ classifyBunnyVideoAsset(video) = "bunny"
    /\ ~isBunnyRemoteMissing(video)
    /\ config.zone # None
    /\ IsOwnPoster(config, video)

isBunnyPullZoneUrl(config, poster) ==
    config.zone # None /\ Parsed(poster) /\ poster.https /\ poster.host = config.zone

toSafePublicBunnyAwareUrl(config, video) ==
    LET kind == classifyBunnyVideoAsset(video)
    IN  IF config.proxy /\ \/ kind = "bunny-malformed"
                           \/ kind = "bunny" /\ isBunnyPullZoneUrl(config, video.poster)
        THEN None ELSE toSafePublicMediaUrl(video.poster)

ThumbnailUrl(config, video, signable) ==
    IF video.source = "LOCAL_FILE"
    THEN IF Picture(video.thumb) THEN Address("thumbnail") ELSE None
    ELSE IF signable # None /\ resolveBunnyThumbnailUpstream(config, video)
         THEN Address("thumbnail") ELSE toSafePublicBunnyAwareUrl(config, video)

\* toPublicVideoResponses for one video that is listed.
toPublicVideoResponse(config, video, signable) ==
    [playbackUrl       |-> IF video.source \in {"DB_BLOB", "LOCAL_FILE"} THEN None
                           ELSE toSafePublicMediaUrl(video.url),
     publicPlaybackUrl |-> CASE video.source = "DB_BLOB" -> Address("binary")
                             [] video.source = "LOCAL_FILE" -> Address("local")
                             [] OTHER -> None,
     embedUrl          |-> resolvePublicEmbedUrl(config, video, signable),
     thumbnailUrl      |-> ThumbnailUrl(config, video, signable)]

-----------------------------------------------------------------------------
(* The poster route, once the chain of authorisation has found the row.     *)

\* What the upstream is asked with; None: the relay refuses to ask.
UpstreamHeaders(config) ==
    IF ~config.proxy THEN None
    ELSE IF config.auth = "none" THEN "bare"
    ELSE IF config.referer THEN "referer" ELSE None

\* The upstream's reply: None when it never came, else its status, media type, declared
\* length and the sizes of the chunks of its body.
ReplyAccepted(config, reply) ==
    /\ reply # None
    /\ reply.status \in 200 .. 299
    /\ reply.image
    /\ reply.declared # None => reply.declared <= config.max

\* toCappedStream: the chunks that are passed on.
Passed(config, chunks) ==
    LET upTo[n \in 0 .. Len(chunks)] == IF n = 0 THEN 0 ELSE upTo[n - 1] + chunks[n]
    IN  {n \in 1 .. Len(chunks) : \A k \in 1 .. n : upTo[k] <= config.max}

\* The route: the local file's own thumbnail, the relayed poster, or 404.
PosterRoute(config, video, reply) ==
    IF video.status # "READY" THEN "notFound"
    ELSE IF video.source = "LOCAL_FILE"
    THEN IF Playable(video.local) /\ Picture(video.thumb) THEN "file" ELSE "notFound"
    ELSE IF /\ resolveBunnyThumbnailUpstream(config, video)
            /\ UpstreamHeaders(config) # None
            /\ ReplyAccepted(config, reply)
         THEN "relayed" ELSE "notFound"

-----------------------------------------------------------------------------
(* The administrator's side of the same record.                             *)

\* getBunnyVideoPreview: None when it refuses.
getBunnyVideoPreview(config, video) ==
    IF /\ config.bunny /\ canSignEmbedUrl(config)
       /\ video # None /\ classifyBunnyVideoAsset(video) = "bunny" /\ video.status = "READY"
    THEN Address("signed") ELSE None

\* BunnyStreamService.buildThumbnailUrl; the ids Bunny gives are safe path segments, the
\* name of the file is missing while Bunny encodes.
buildThumbnailUrl(config, id, name) ==
    IF config.zone = None \/ name \in {"missing", "unsafe"} THEN None
    ELSE [kind |-> "parsed", host |-> config.zone, id |-> id,
          https |-> TRUE, bare |-> TRUE, file |-> TRUE]

\* setBunnyVideoThumbnail: the row afterwards. stored: Bunny took the image; name: what it
\* says of the file then.
setBunnyVideoThumbnail(config, video, stored, name) ==
    LET url == buildThumbnailUrl(config, video.asset, name)
    IN  IF /\ config.bunny /\ stored /\ url # None
           /\ classifyBunnyVideoAsset(video) = "bunny" /\ video.status = "READY"
        THEN [video EXCEPT !.poster = url] ELSE video

-----------------------------------------------------------------------------
(* What the answers promise; a row is current when the cache holds no older *)
(* one.                                                                     *)

\* A listed video has an address it can be played at. Two rows are listed without one:
\* an administrator's endpoint as its address, and a READY video marked as missing.
ListedHasSource(config, video) ==
    LET answer == toPublicVideoResponse(config, video, Signable(video))
    IN  /\ isPublicPlayableVideo(config, video)
        /\ ~IsAdmin(video.url)
        /\ ~isBunnyRemoteMissing(video)
        => \E field \in {"playbackUrl", "publicPlaybackUrl", "embedUrl"} : answer[field] # None

\* The poster address of a current row leads to a route that serves it, when the upstream
\* does and the relay is configured.
AdvertisedIsServed(config, video, reply) ==
    /\ isPublicPlayableVideo(config, video)
    /\ ThumbnailUrl(config, video, Signable(video)) = Address("thumbnail")
    /\ UpstreamHeaders(config) # None
    /\ ReplyAccepted(config, reply)
    => PosterRoute(config, video, reply) \in {"file", "relayed"}

\* A video that claims to be Bunny's is never embedded unsigned and, when posters are
\* relayed, never answered with an address on the pull zone.
NothingRaw(config, video, signable) ==
    LET answer == toPublicVideoResponse(config, video, signable)
    IN  classifyBunnyVideoAsset(video) # "not-bunny" =>
            /\ answer.embedUrl \in {None, Address("signed")}
            /\ config.proxy =>
                   ~(Parsed(answer.thumbnailUrl) /\ isBunnyPullZoneUrl(config, answer.thumbnailUrl))

\* A poster the API has set itself is one its own relay accepts, and an administrator is
\* shown a signed address of every Bunny video that viewers are.
OwnPosterIsServed(config, video, name) ==
    LET after == setBunnyVideoThumbnail(config, video, TRUE, name)
    IN  /\ after # video /\ config.proxy /\ ~isBunnyRemoteMissing(video)
              => resolveBunnyThumbnailUpstream(config, after)
        /\ resolvePublicEmbedUrl(config, video, Signable(video)) = Address("signed")
              => getBunnyVideoPreview(config, video) = Address("signed")

\* Whatever row the cache holds, a signature is made only for the Bunny video of the
\* current row, and only while that row is READY and not known to be missing.
SignedIsCurrent(config, cached, current) ==
    resolvePublicEmbedUrl(config, cached, Signable(current)) = Address("signed") =>
        /\ current # None /\ current.status = "READY" /\ ~isBunnyRemoteMissing(current)
        /\ current.asset = cached.asset

\* The relay passes on a beginning of the body, and no more than the cap.
RelayIsCapped(config, chunks) ==
    LET passed == Passed(config, chunks)
        total[n \in 0 .. Len(chunks)] == IF n = 0 THEN 0 ELSE total[n - 1] + chunks[n]
    IN  \A n \in passed : total[n] <= config.max /\ 1 .. n \subseteq passed
=============================================================================
