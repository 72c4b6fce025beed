----------------------------- MODULE DiscTitles -----------------------------
(***************************************************************************)
(* The features of the discs in a download: ListFeaturePlaylists of a      *)
(* Blu-ray (internal/mkvmerge) and ListFeatureTitles of a DVD              *)
(* (internal/dvdvideo), and the repairs offered for them (bluray.go and    *)
(* dvd.go of internal/casebuilder).                                        *)
(*                                                                         *)
(* A path is a directory, as the sequence of its components, and a name; a *)
(* name is a kind ("numbered" for five digits, "video_ts", "vts", "other", *)
(* "published"), a number, a part number and an extension.  An inventory   *)
(* is the sequence of its files in the order of their paths; a file has a  *)
(* version (inode and mtime), the device it is mounted from, a size and at *)
(* most one entry of the download client's manifest.  The paths stand for  *)
(* the file IDs, which are made of them.  A result is a set: {} is an      *)
(* error or no result.                                                     *)
(***************************************************************************)
EXTENDS Integers, Sequences, FiniteSets, SequencesExt

CONSTANTS FeatureLength, \* minimumFeatureMS
          MaxPlaylists,  \* maximumPlaylists
          MaxDiscs,      \* maximumDiscs
          MinFiles,      \* the least number of files of a DVD
          MaxFiles,      \* maximumFiles, and the clips of a playlist
          MaxTracks      \* the tracks of a playlist or title

\* A file as a repair may read it: whole, and wanted if the client lists it.
available(file) ==
    /\ file.size > 0
    /\ \A e \in file.entry : e.selected /\ e.length = file.size /\ e.completed = file.size

Parent(dir) == Front(dir)
Mapped(Op(_), s) == [i \in DOMAIN s |-> Op(s[i])]
inventoryIndex(files, path) == {f \in Range(files) : f.path = path}

StrictFingerprint(f) == [version |-> f.version, size |-> f.size, device |-> f.device]
StableFingerprint(f) == [version |-> f.version, size |-> f.size]

-----------------------------------------------------------------------------
(* Blu-ray *)

NumberedPlaylist(name) == name.kind = "numbered" /\ name.ext = "mpls"
NumberedClip(name) == name.kind = "numbered" /\ name.ext = "m2ts"

playlistFiles(files) ==
    SelectSeq(files, LAMBDA f : /\ Len(f.path.dir) >= 2
                                /\ f.path.dir[Len(f.path.dir) - 1] = "BDMV"
                                /\ Last(f.path.dir) = "PLAYLIST"
                                /\ NumberedPlaylist(f.path.name))

StreamDirectory(playlist) == Append(Parent(playlist.dir), "STREAM")

\* The clips of a playlist, if each is an available file of the same disc.
inventoryClips(playlist, clips, files) ==
    IF /\ clips # <<>>
       /\ \A c \in Range(clips) :
            /\ c.dir = StreamDirectory(playlist) /\ NumberedClip(c.name)
            /\ \E f \in inventoryIndex(files, c) : available(f)
    THEN {clips} ELSE {}

\* identified[f] is what mkvmerge says of a playlist: {} if the file has changed.
ListFeaturePlaylists(files, identified) ==
    LET playlists == SelectSeq(playlistFiles(files), available)
        features == SelectSeq(playlists, LAMBDA f : \A d \in identified[f] :
                        /\ d.duration >= FeatureLength
                        /\ inventoryClips(f.path, d.clips, files) # {})
    IN  IF \/ Len(playlistFiles(files)) > MaxPlaylists
           \/ \E f \in Range(playlists) : identified[f] = {}
        THEN {}
        ELSE {Mapped(LAMBDA f : LET d == CHOOSE x \in identified[f] : TRUE
                                IN  [playlist |-> f.path, clips |-> d.clips, details |-> d],
                     features)}

\* A track keeps its kind, codec and language; one without codec or of another
\* kind makes the whole list invalid.
mapBluRayTracks(tracks) ==
    IF /\ tracks # <<>> /\ Len(tracks) <= MaxTracks
       /\ \A t \in Range(tracks) : t.codec # "" /\ t.kind \in {"video", "audio", "subtitles"}
    THEN {tracks} ELSE {}

Files(files, paths) == Mapped(LAMBDA p : CHOOSE f \in inventoryIndex(files, p) : TRUE, paths)
Identities(files, paths) == Mapped(StableFingerprint, Files(files, paths))

bindBluRayCapabilities(playlists, files) ==
    LET Bound(c) ==
            [action |-> "remux_bluray",
             id |-> [action |-> "remux_bluray", playlist |-> c.playlist, clips |-> c.clips,
                     files |-> Identities(files, <<c.playlist>> \o c.clips),
                     duration |-> c.details.duration, chapters |-> c.details.chapters],
             playlist |-> c.playlist, clips |-> c.clips, duration |-> c.details.duration,
             chapters |-> c.details.chapters, tracks |-> c.details.tracks]
    IN  IF /\ Len(playlists) <= MaxPlaylists
           /\ IsInjective(Mapped(LAMBDA c : c.playlist, playlists))
           /\ \A c \in Range(playlists) :
                /\ c.clips # <<>> /\ Len(c.clips) <= MaxFiles
                /\ \A p \in {c.playlist} \cup Range(c.clips) : inventoryIndex(files, p) # {}
                /\ mapBluRayTracks(c.details.tracks) # {}
        THEN {Mapped(Bound, playlists)} ELSE {}

-----------------------------------------------------------------------------
(* DVD *)

ValidFileName(name) ==
    name.kind \in {"video_ts", "vts"} /\ name.ext \in {"IFO", "BUP", "VOB"}
Navigation(name) == name.kind = "video_ts" /\ name.ext = "IFO"

\* The files of a directory, if they are those of a whole DVD and nothing else.
discFiles(files, dir) ==
    LET beside == SelectSeq(files, LAMBDA f : f.path.dir = dir)
    IN  IF /\ \A f \in Range(beside) : ValidFileName(f.path.name) /\ available(f)
           /\ Len(beside) >= MinFiles /\ Len(beside) <= MaxFiles
        THEN {beside} ELSE {}

hasTitleFiles(files, set) ==
    /\ set \in 1..99
    /\ \A need \in {<<0, "IFO">>, <<1, "VOB">>} : \E f \in Range(files) :
         f.path.name = [kind |-> "vts", n |-> set, part |-> need[1], ext |-> need[2]]

hasMovieTracks(tracks) == \A kind \in {"video", "audio"} : \E t \in Range(tracks) : t.kind = kind

\* identified[f] is what the worker reads from the navigation file.
ListFeatureTitles(files, identified) ==
    LET navigation == SelectSeq(files, LAMBDA f : Navigation(f.path.name))
        discs == SelectSeq(navigation, LAMBDA f : available(f) /\ discFiles(files, f.path.dir) # {})
        Offered(f) ==
            LET beside == CHOOSE s \in discFiles(files, f.path.dir) : TRUE
                titles == CHOOSE t \in identified[f] : TRUE
            IN  Mapped(LAMBDA t : [navigation |-> f.path, details |-> t,
                                   sources |-> Mapped(LAMBDA g : g.path, beside)],
                       SelectSeq(titles, LAMBDA t : /\ t.duration >= FeatureLength /\ t.angles = 1
                                                    /\ hasTitleFiles(beside, t.set)
                                                    /\ hasMovieTracks(t.tracks)))
    IN  IF Len(navigation) > MaxDiscs \/ \E f \in Range(discs) : identified[f] = {} THEN {}
        ELSE {FoldLeft(LAMBDA all, f : all \o Offered(f), <<>>, discs)}

ValidNavigation(d) ==
    /\ d.number \in 1..128 /\ d.angles = 1 /\ d.set \in 1..99 /\ d.inset \in 1..99
    /\ d.duration > 0 /\ d.chapters > 0

bindDVDCapabilities(titles, files) ==
    LET Bound(c) ==
            [action |-> "remux_dvd",
             id |-> [action |-> "remux_dvd", navigation |-> c.navigation, sources |-> c.sources,
                     number |-> c.details.number, set |-> c.details.set, inset |-> c.details.inset,
                     duration |-> c.details.duration, chapters |-> c.details.chapters,
                     files |-> Identities(files, <<c.navigation>> \o c.sources)],
             navigation |-> c.navigation, sources |-> c.sources, title |-> c.details,
             tracks |-> c.details.tracks]
    IN  IF /\ Len(titles) <= MaxPlaylists
           /\ \A c \in Range(titles) :
                /\ c.sources # <<>> /\ Len(c.sources) <= MaxFiles /\ IsInjective(c.sources)
                /\ \A p \in {c.navigation} \cup Range(c.sources) : inventoryIndex(files, p) # {}
                /\ c.navigation \in Range(c.sources)
                /\ ValidNavigation(c.details) /\ mapBluRayTracks(c.details.tracks) # {}
        THEN {Mapped(Bound, titles)} ELSE {}
=============================================================================
