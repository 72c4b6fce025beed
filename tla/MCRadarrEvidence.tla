-------------------------- MODULE MCRadarrEvidence --------------------------
(***************************************************************************)
(* Instances of RadarrEvidence: a download of two parts of a movie, and a  *)
(* download that holds a Blu-ray and a DVD.                                *)
(***************************************************************************)
EXTENDS RadarrEvidence

Named(dir, kind, n, part, ext) ==
    [dir |-> dir, name |-> [kind |-> kind, n |-> n, part |-> part, ext |-> ext]]
Part(n) == Named(<<>>, "other", n, 0, "mkv")
PublishedOutput == Named(<<>>, "published", 1, 0, "mkv")
PublishedNames == {PublishedOutput}

Playlist == Named(<<"BDMV", "PLAYLIST">>, "numbered", 1, 0, "mpls")
Clip(n) == Named(<<"BDMV", "STREAM">>, "numbered", n, 0, "m2ts")
VideoTS == Named(<<"VIDEO_TS">>, "video_ts", 0, 0, "IFO")
TitleSet(part, ext) == Named(<<"VIDEO_TS">>, "vts", 1, part, ext)

PlainPaths == <<Part(1), Part(2)>>
DiscPaths == <<Playlist, Clip(1), Clip(2), VideoTS, TitleSet(0, "IFO"), TitleSet(1, "VOB")>>

Wanted(size) == [size |-> size, entry |-> {[selected |-> TRUE, length |-> size, completed |-> size]}]
Unwanted(size) == [size |-> size, entry |-> {[selected |-> FALSE, length |-> size, completed |-> size]}]

\* The second version of a part is longer, and the third one deselected; the
\* second version of a file of a disc is deselected.
PlainFile(p, version) == IF version = 3 THEN Unwanted(13) ELSE Wanted(10 + version)
DiscFile(p, version) == IF version = 2 THEN Unwanted(10) ELSE Wanted(10)

Stream(index, kind) ==
    [index |-> index, kind |-> {kind}, codec |-> {1}, profile |-> {}, timebase |-> {1}, format |-> {1},
     rate |-> {[num |-> 24, den |-> 1]}, duration |-> {100}, disposition |-> {1}]
Probe(size) ==
    [probed |-> {size}, names |-> {"matroska"}, duration |-> {100},
     streams |-> <<Stream(1, "video"), Stream(2, "audio")>>]
PlainProbe(p, version) == Probe(10 + version)
DiscProbe(p, version) == Probe(10)

Track(kind) == [kind |-> kind, codec |-> "c", language |-> "l"]
Tracks == <<Track("video"), Track("audio")>>
Feature == [duration |-> 100, chapters |-> 1, tracks |-> Tracks, clips |-> <<Clip(1).name, Clip(2).name>>]
Title(number, duration) ==
    [number |-> number, angles |-> 1, set |-> 1, inset |-> number, duration |-> duration, chapters |-> 1,
     tracks |-> Tracks]
Disc(p, version) == IF p = Playlist THEN Feature ELSE <<Title(1, 100), Title(2, 5)>>

Start(state, movie, hasFile) == [state |-> state, movie |-> movie, hasFile |-> hasFile]
Pending == {Start("importPending", {}, FALSE)}
Blocked == {Start("importBlocked", {Movie}, FALSE)}
Replacing == {Start("importBlocked", {Movie}, TRUE)}

Rejection(code, text) == [code |-> code, text |-> text]
NoOpinion == {<<>>}
CodesOnly ==
    {<<Rejection("sample", 1), Rejection(code, 2)>> : code \in {"notQualityUpgrade", "movieAlreadyImported"}}
PlainOpinions == NoOpinion \cup CodesOnly \cup {<<Rejection("", 2)>>}

Grab ==
    [type |-> "grabbed", id |-> 1, at |-> 0, movie |-> Movie, download |-> "d", quality |-> {"hd"},
     languages |-> {"l"}]
Grabbed == {<<Grab>>}
GrabbedOrNot == {<<>>, <<Grab>>}
WorkerFailures == {"timeout", "fingerprint_mismatch"}
Torrent == {"torrent"}
TellingMessage == {2}

Offered(a) == {DecisionFor(a, c) : c \in Offers(a)}
\* A planner may also refuse, or choose too few parts.
AnyAnswer(a) ==
    {[kind |-> NoRepair, case |-> a.request, capability |-> None, paths |-> <<>>]}
    \cup Offered(a) \cup {[d EXCEPT !.paths = Tail(@)] : d \in {o \in Offered(a) : o.kind = Join}}
=============================================================================
