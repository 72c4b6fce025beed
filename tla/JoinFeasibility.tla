-------------------------- MODULE JoinFeasibility --------------------------
(***************************************************************************)
(* Whether a movie's parts can be joined, and what the joined file must    *)
(* look like: AssessJoinFeasibility with the duration, stream and          *)
(* container assessments it is made of (internal/controller), and the test *)
(* of the finished file, ValidateOutput (internal/joinverification).       *)
(*                                                                         *)
(* A part is what the inventory and ffprobe say of one file.  An optional  *)
(* value is a set of at most one element.  Fields that are compared in the *)
(* same way are one field: `format` stands for width, height and pixel     *)
(* format of a video stream and for sample format, rate, channels and      *)
(* channel layout of an audio stream.                                      *)
(***************************************************************************)
EXTENDS Integers, Sequences, FiniteSets, FiniteSetsExt, SequencesExt

CONSTANTS MaxInt,    \* math.MaxInt64
          Agreement, \* durationAgreementToleranceMS and joinMuxToleranceMS
          RateParts  \* 1 / muxedAverageRateRelativeTolerance

ASSUME FeasibilityConstants ==
    /\ MaxInt \in Nat /\ Agreement \in Nat /\ RateParts \in Nat \ {0}

\* What int64 arithmetic makes of an integer.
Int64(n) == ((n + MaxInt + 1) % (2 * (MaxInt + 1))) - (MaxInt + 1)

Abs(n) == IF n < 0 THEN -n ELSE n
The(s) == CHOOSE x \in s : TRUE

-----------------------------------------------------------------------------
(* Durations *)

usableDuration(d) == {x \in d : x > 0}

longestAVStreamDuration(streams) ==
    LET known == UNION {usableDuration(s.duration) :
                          s \in {t \in Range(streams) : t.kind \cap {"video", "audio"} # {}}}
    IN  IF known = {} THEN {} ELSE {Max(known)}

\* Both measures of a probe, and the length they agree on: the longer one.
AssessProbeDuration(probe) ==
    LET format == usableDuration(probe.duration)
        stream == longestAVStreamDuration(probe.streams)
        known == format \cup stream
        conflict == known # {} /\ Max(known) - Min(known) > Agreement
    IN  [format |-> format, stream |-> stream, conflict |-> conflict,
         effective |-> IF known = {} \/ conflict THEN {} ELSE {Max(known)}]

absoluteDifference(left, right) == Abs(left - right)

\* Mutant: the tolerance of a part is what its two measures differ by, and a
\* part with one measure adds nothing.
PartToleranceOfTwo(d) ==
    IF d.format # {} /\ d.stream # {} THEN absoluteDifference(The(d.format), The(d.stream)) ELSE 0

PartTolerance(d) ==
    IF d.format # {} /\ d.stream # {}
    THEN absoluteDifference(The(d.format), The(d.stream))
    ELSE Agreement

\* One turn of the loop of AssessJoinDuration; the first issue ends it.
AddPartDuration(sum, d) ==
    IF \/ sum.failed \/ d.conflict \/ d.effective = {}
       \/ The(d.effective) > MaxInt - sum.expected
       \/ PartTolerance(d) > MaxInt - sum.tolerance
    THEN [sum EXCEPT !.failed = TRUE]
    ELSE [sum EXCEPT !.expected = Int64(@ + The(d.effective)),
                     !.tolerance = Int64(@ + PartTolerance(d))]

AssessJoinDuration(parts) ==
    LET total == FoldLeft(LAMBDA sum, p : AddPartDuration(sum, AssessProbeDuration(p)),
                          [expected |-> 0, tolerance |-> Agreement, failed |-> Len(parts) < 2],
                          parts)
    IN  IF total.failed THEN {} ELSE {[expected |-> total.expected, tolerance |-> total.tolerance]}

-----------------------------------------------------------------------------
(* The files *)

AddPartSize(sum, p) ==
    IF sum.failed \/ p.id \in sum.seen \/ p.size <= 0 \/ p.size > MaxInt - sum.bytes
    THEN [sum EXCEPT !.failed = TRUE]
    ELSE [sum EXCEPT !.bytes = Int64(@ + p.size), !.seen = @ \cup {p.id}]

\* The bytes of all parts, or nothing.
assessJoinStructure(parts) ==
    LET total == FoldLeft(AddPartSize, [bytes |-> 0, seen |-> {}, failed |-> Len(parts) < 2], parts)
    IN  IF total.failed THEN {} ELSE {total.bytes}

containerForExtension(extension) ==
    CASE extension = "ts" -> {"mpegts"}
      [] extension = "mp4" -> {"mp4"}
      [] extension = "mkv" -> {"matroska"}
      [] extension = "avi" -> {"avi"}
      [] OTHER -> {}

\* All parts have the first one's container by their names, and ffprobe says
\* the same of each.
AssessInputContainer(parts) ==
    IF Len(parts) < 2 THEN "unknown"
    ELSE LET want == containerForExtension(parts[1].extension)
         IN  IF \/ want = {}
                \/ \E p \in Range(parts) : containerForExtension(p.extension) # want
                \/ \E p \in Range(parts) : p.names # {} /\ want \cap p.names = {}
             THEN "incompatible"
             ELSE IF \E p \in Range(parts) : p.names = {} THEN "unknown"
             ELSE The(want)

\* The container is kept; MPEG-TS parts have no container to be joined into.
SelectOutputContainer(input) ==
    CASE input = "mp4" -> {"mp4"}
      [] input = "matroska" -> {"mkv"}
      [] input = "avi" -> {"avi"}
      [] OTHER -> {}

-----------------------------------------------------------------------------
(* Streams *)

\* The fields of two streams that differ, and those one of them lacks.
compareRequiredField(field, reference, candidate) ==
    IF reference = {} \/ candidate = {} THEN [missing |-> {field}, mismatch |-> {}]
    ELSE [missing |-> {}, mismatch |-> IF reference = candidate THEN {} ELSE {field}]

Same == [missing |-> {}, mismatch |-> {}]

\* Mutant: a profile only the other part has is no difference.
compareOptionalFieldOneSided(field, reference, candidate) ==
    IF reference = {} THEN Same ELSE compareRequiredField(field, reference, candidate)

compareOptionalField(field, reference, candidate) ==
    IF reference = {} /\ candidate = {} THEN Same ELSE compareRequiredField(field, reference, candidate)

\* The parts are remuxed to one time base first, so only a missing one counts.
compareStreams(r, c) ==
    LET always == {compareRequiredField("kind", r.kind, c.kind),
                   compareRequiredField("codec", r.codec, c.codec),
                   compareOptionalField("profile", r.profile, c.profile)}
        timing == IF r.timebase = {} \/ c.timebase = {}
                  THEN {compareRequiredField("timebase", r.timebase, c.timebase)} ELSE {}
        video == {compareRequiredField("format", r.format, c.format),
                  compareRequiredField("rate", r.rate, c.rate)}
        audio == {compareRequiredField("format", r.format, c.format)}
        fields == always \cup timing
                    \cup IF r.kind = {"video"} /\ c.kind = {"video"} THEN video
                         ELSE IF r.kind = {"audio"} /\ c.kind = {"audio"} THEN audio ELSE {}
    IN  [missing |-> UNION {f.missing : f \in fields}, mismatch |-> UNION {f.mismatch : f \in fields}]

orderedStreams(streams) == SortSeq(streams, LAMBDA left, right : left.index < right.index)

hasVideo(streams) == \E s \in Range(streams) : s.kind = {"video"}
hasUnknownKind(streams) == \E s \in Range(streams) : s.kind = {}

\* Every part that was probed against the first one that was.
ReferencePosition(parts) ==
    LET probed == {i \in DOMAIN parts : parts[i].streams # <<>>}
    IN  IF probed = {} THEN 0 ELSE Min(probed)

\* Only what is known to differ makes the parts incompatible.
AssessStreamCompatibility(parts) ==
    LET reference == ReferencePosition(parts)
        first == orderedStreams(parts[reference].streams)
        probed == {i \in DOMAIN parts : parts[i].streams # <<>>}
        others == probed \ {reference}
        Compared(i) == LET other == orderedStreams(parts[i].streams)
                       IN  {compareStreams(first[n], other[n]) : n \in DOMAIN first}
    IN  IF Len(parts) < 2 \/ reference = 0 THEN "unknown"
        ELSE IF \/ \E i \in probed : ~hasVideo(parts[i].streams) /\ ~hasUnknownKind(parts[i].streams)
                \/ \E i \in others : Len(parts[i].streams) # Len(first)
                \/ \E i \in others : \E c \in Compared(i) : c.mismatch # {}
        THEN "incompatible"
        ELSE IF \/ probed # DOMAIN parts
                \/ \E i \in probed : ~hasVideo(parts[i].streams)
                \/ \E i \in others : \E c \in Compared(i) : c.missing # {}
        THEN "unknown"
        ELSE "compatible"

\* What is kept of the first part's streams as the layout of the output.
layoutFromStreams(streams) ==
    [n \in DOMAIN streams |->
        [kind |-> streams[n].kind, codec |-> streams[n].codec, profile |-> streams[n].profile,
         timebase |-> streams[n].timebase,
         format |-> IF streams[n].kind \subseteq {"video", "audio"} THEN streams[n].format ELSE {},
         rate |-> IF streams[n].kind = {"video"} THEN streams[n].rate ELSE {}]]

rationalWithinRelativeTolerance(r, c) ==
    /\ r.num > 0 /\ r.den > 0 /\ c.num > 0 /\ c.den > 0
    /\ RateParts * Abs(c.num * r.den - r.num * c.den) <= r.num * c.den

\* The average rate of the whole file may differ a little from a part's.
compareMuxedStream(expected, actual) ==
    compareStreams(
        IF /\ expected.rate # {} /\ actual.rate # {}
           /\ rationalWithinRelativeTolerance(The(expected.rate), The(actual.rate))
        THEN [expected EXCEPT !.rate = actual.rate] ELSE expected,
        actual)

MatchesMuxedOutput(layout, streams) ==
    LET ordered == orderedStreams(streams)
    IN  /\ Len(streams) = Len(layout)
        /\ \A n \in DOMAIN layout :
              /\ n > 1 => ordered[n - 1].index # ordered[n].index
              /\ compareMuxedStream(layout[n], ordered[n]) = Same

-----------------------------------------------------------------------------
(* The verdict, and the test of the joined file *)

\* What the joined file must be, or nothing.
AssessJoinFeasibility(parts) ==
    LET bytes == assessJoinStructure(parts)
        duration == AssessJoinDuration(parts)
        container == SelectOutputContainer(AssessInputContainer(parts))
    IN  {[bytes |-> b, expected |-> d.expected, tolerance |-> d.tolerance, container |-> c,
          layout |-> layoutFromStreams(orderedStreams(parts[1].streams))] :
            b \in bytes, d \in duration,
            c \in IF AssessStreamCompatibility(parts) = "compatible" THEN container ELSE {}}

withinTolerance(actual, expected, tolerance) ==
    IF actual < expected THEN Int64(expected - actual) <= tolerance
    ELSE Int64(actual - expected) <= tolerance

matchesContainer(container, names) ==
    CASE container = "avi" -> "avi" \in names
      [] container = "mkv" -> "matroska" \in names
      [] container = "mp4" -> "mp4" \in names
      [] OTHER -> FALSE

\* ValidateOutput: the probe of the joined file against what was authorized.
ValidateOutput(authorized, output) ==
    LET d == AssessProbeDuration(output)
    IN  /\ output.size > 0 /\ output.probed = {output.size}
        /\ ~d.conflict /\ d.effective # {}
        /\ withinTolerance(The(d.effective), authorized.expected, authorized.tolerance)
        /\ matchesContainer(authorized.container, output.names)
        /\ MatchesMuxedOutput(authorized.layout, output.streams)
=============================================================================
