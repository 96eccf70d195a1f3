---------------------------- MODULE MCPublicMedia ----------------------------
\* Instances of PublicMedia for TLC, and of what its answers are made of.
EXTENDS PublicMedia, MediaRanges, TLC

\* A link that expires and one with a view budget; and a link with neither.
EveryTerms == {<<2, None>>, <<None, 1>>}
UnlimitedTerms == {<<None, None>>}

-----------------------------------------------------------------------------
\* Byte ranges: files of up to 4 bytes, and numbers past every bound.
Sizes == 0 .. 4
Numbers == 0 .. MaxSafe + 1
SmallHeaders == {NoHeader, Malformed} \cup
                [first : Numbers \cup {Open}, last : Numbers \cup {Open}]

ASSUME RangesAreExact ==
    \A size \in Sizes, h \in SmallHeaders \ {NoHeader, Malformed} :
        Safe(h) => ExactRange(size, h)
ASSUME ReadingsFit ==
    \A size \in Sizes \ {0}, h \in SmallHeaders :
        ReadingFits(size, parseRangeHeader(size, h)) /\ ReadingFits(size, parseLocalRange(size, h))
ASSUME AnswersAreWhole ==
    \A size \in Sizes, h \in SmallHeaders, head \in BOOLEAN :
        /\ LengthIsSent(LocalAnswer(size, h, head), head)
        /\ LengthIsSent(AdminBinaryAnswer(size, h), FALSE)
        /\ LengthIsSent(ThumbnailAnswer(size, head), head)
        /\ \A stored \in Sizes \cup {Gone} :
              LengthIsSent(DatabaseAnswer(size, stored, h, head), head)

-----------------------------------------------------------------------------
\* Addresses: every row that differs in what one kind of video is decided by.
Addresses == INSTANCE PublicSources

Ids == {"id", "other"}
Marks == {None} \cup [id : {None, "id", "other"}, missing : BOOLEAN]
Files == {None, [type |-> "video", bytes |-> 0], [type |-> "video", bytes |-> 1],
          [type |-> "image", bytes |-> 1]}
Stored == {None, Addresses!Address("plain"), Addresses!Address("admin")}
Posters == Stored \cup
           [kind : {"parsed"}, host : {"zone", "elsewhere"}, id : Ids,
            https : BOOLEAN, bare : BOOLEAN, file : BOOLEAN]

Plain == [status |-> "READY", source |-> "DIRECT_URL", provider |-> "OTHER",
          asset |-> None, playback |-> None, marker |-> None, embed |-> None,
          binary |-> None, local |-> None, thumb |-> None, url |-> None, poster |-> None]
BunnyRows ==
    {[Plain EXCEPT !.source = "EMBED", !.provider = "BUNNY", !.status = status, !.asset = asset,
                   !.embed = Addresses!Address("plain"), !.playback = playback, !.marker = mark] :
        status \in {"READY", "FAILED"}, asset, playback \in {None} \cup Ids, mark \in Marks}
PosterRows ==
    {[row EXCEPT !.poster = poster] :
        poster \in Posters,
        row \in {r \in BunnyRows : r.status = "READY" /\ r.asset = "id" /\ r.playback = "id"}}
OtherRows ==
    {[Plain EXCEPT !.source = source, !.embed = embed, !.url = url, !.poster = url] :
        source \in {"EMBED", "DIRECT_URL"}, embed \in {None, Addresses!Address("plain")},
        url \in Stored}
    \cup {[Plain EXCEPT !.source = source, !.binary = file, !.local = file, !.thumb = thumb] :
        source \in {"DB_BLOB", "LOCAL_FILE"}, file, thumb \in Files}
Rows == BunnyRows \cup PosterRows \cup OtherRows

Configs == [bunny : BOOLEAN, library : {TRUE}, key : BOOLEAN, zone : {None, "zone"},
            proxy : BOOLEAN, auth : {"none", "referer"}, referer : BOOLEAN, max : {2}]
Replies == {None} \cup [status : {200, 302, 404}, image : BOOLEAN, declared : {None, 1, 3}]

ASSUME ListedVideosHaveSources ==
    \A config \in Configs, video \in Rows : Addresses!ListedHasSource(config, video)
ASSUME AdvertisedPostersAreServed ==
    \A config \in Configs, video \in Rows, reply \in Replies :
        Addresses!AdvertisedIsServed(config, video, reply)
ASSUME NothingRawIsAnswered ==
    \A config \in Configs, video \in Rows, signable \in {None} \cup Ids :
        Addresses!NothingRaw(config, video, signable)
ASSUME OwnPostersAreServed ==
    \A config \in Configs, video \in BunnyRows, name \in {"missing", "unsafe", "name"} :
        Addresses!OwnPosterIsServed(config, video, name)
ASSUME SignaturesAreCurrent ==
    \A cached \in BunnyRows, current \in BunnyRows \cup {None} :
        Addresses!SignedIsCurrent([bunny |-> TRUE, library |-> TRUE, key |-> TRUE], cached, current)
ASSUME RelaysAreCapped ==
    \A chunks \in UNION {[1 .. n -> 1 .. 3] : n \in 0 .. 3} :
        Addresses!RelayIsCapped([max |-> 3], chunks)
=============================================================================
