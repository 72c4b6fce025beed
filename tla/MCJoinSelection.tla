------------------------- MODULE MCJoinSelection -------------------------
(***************************************************************************)
(* Every selection of parts a planner can make of the parts below, each    *)
(* assessed by JoinFeasibility and compared with what the assessment is    *)
(* supposed to mean.                                                       *)
(***************************************************************************)
EXTENDS JoinFeasibility

CONSTANTS Vary,    \* "durations" or "streams": what the parts differ in
          MaxParts \* the longest selection

Video == [index |-> 1, kind |-> {"video"}, codec |-> {1}, profile |-> {1}, timebase |-> {1},
          format |-> {1}, rate |-> {[num |-> 24, den |-> 1]}, duration |-> {3}]
Audio == [index |-> 2, kind |-> {"audio"}, codec |-> {1}, profile |-> {}, timebase |-> {1},
          format |-> {1}, rate |-> {}, duration |-> {3}]
Text == [Audio EXCEPT !.kind = {"subtitle"}, !.format = {}]

Part(id, streams) ==
    [id |-> id, size |-> 1, probed |-> {1}, extension |-> "mkv", names |-> {"matroska", "webm"},
     duration |-> {3}, streams |-> streams]

\* Parts of three sizes whose two measures of length vary.
Sizes == <<4, 5, 1>>
TimedParts ==
    {[Part(id, <<[Video EXCEPT !.duration = stream]>>) EXCEPT !.size = Sizes[id], !.duration = format] :
        id \in 1..3, format \in {{}, {1}, {3}, {6}}, stream \in {{}, {1}, {4}}}

VideoVariants ==
    {Video, [Video EXCEPT !.timebase = {2}], [Video EXCEPT !.timebase = {}],
     [Video EXCEPT !.profile = {}], [Video EXCEPT !.codec = {}], [Video EXCEPT !.codec = {2}],
     [Video EXCEPT !.format = {2}], [Video EXCEPT !.format = {}],
     [Video EXCEPT !.rate = {[num |-> 25, den |-> 1]}], [Video EXCEPT !.kind = {}]}
StreamedParts ==
    {Part(id, streams) : id \in 1..2,
        streams \in {<<>>, <<Audio>>, <<Audio, Text>>, <<Audio, Video>>, <<Video, [Audio EXCEPT !.format = {2}]>>,
                     <<[Text EXCEPT !.index = 3], Audio, Video>>, <<Video>>}
                    \cup {<<v, Audio>> : v \in VideoVariants}}
    \cup {[Part(3, <<Video, Audio>>) EXCEPT !.extension = e, !.names = n] :
            e \in {"mkv", "ts", "m2ts"}, n \in {{}, {"matroska"}, {"mpegts"}}}

Candidates == IF Vary = "durations" THEN TimedParts ELSE StreamedParts

VARIABLE selected

Init == selected = <<>>
Select(p) == Len(selected) < MaxParts /\ selected' = Append(selected, p)
Start == selected # <<>> /\ selected' = <<>>
Next == (\E p \in Candidates : Select(p)) \/ Start
Spec == Init /\ [][Next]_selected

-----------------------------------------------------------------------------
\* The lengths a part may really have: between its two measures, or not far
\* from the only one.
Plausible(p) ==
    LET d == AssessProbeDuration(p)
        known == d.format \cup d.stream
    IN  IF d.format # {} /\ d.stream # {} THEN Min(known)..Max(known)
        ELSE (The(known) - Agreement)..(The(known) + Agreement)

Total(Of(_)) == FoldLeft(LAMBDA sum, p : sum + Of(p), 0, selected)

\* The expected length and its tolerance cover every length a proper join can
\* have: each part as long as its measures allow, and the mux error of one
\* second.  (AssessJoinDuration, joinMuxToleranceMS)
CoversTrueDuration ==
    \A join \in AssessJoinFeasibility(selected) :
        LET Shortest(p) == Min(Plausible(p))
            Longest(p) == Max(Plausible(p))
        IN  /\ join.expected - join.tolerance <= Total(Shortest) - Agreement
            /\ Total(Longest) + Agreement <= join.expected + join.tolerance

\* The sums of an accepted join are the sums of its parts, for any sizes and
\* lengths a 64-bit integer can hold.  (the checks against math.MaxInt64)
SumsAreExact ==
    \A join \in AssessJoinFeasibility(selected) :
        LET Size(p) == p.size
            Length(p) == The(AssessProbeDuration(p).effective)
        IN  join.bytes = Total(Size) /\ join.expected = Total(Length) /\ join.tolerance >= Agreement

\* No file is joined with itself, whatever order the planner lists the parts
\* in, so the bytes counted are bytes on disk.  (assessJoinStructure)
PartsAreDistinct ==
    AssessJoinFeasibility(selected) # {} => \A i, j \in DOMAIN selected :
        i # j => selected[i].id # selected[j].id

\* Comparing all parts with the first is enough: accepted parts are those of
\* which any two agree, stream by stream, and all have video.
\* (AssessStreamCompatibility)
CompatibleIsPairwise ==
    AssessStreamCompatibility(selected) = "compatible" <=>
        /\ Len(selected) >= 2
        /\ \A p \in Range(selected) : hasVideo(p.streams)
        /\ \A p, q \in Range(selected) :
              LET left == orderedStreams(p.streams)
                  right == orderedStreams(q.streams)
              IN  Len(left) = Len(right) /\ \A n \in DOMAIN left : compareStreams(left[n], right[n]) = Same

\* The ways in which a better probe could fill in what one stream lacks.
Completed(s) ==
    {[s EXCEPT !.kind = {k}] : k \in IF s.kind = {} THEN {"video", "audio"} ELSE s.kind}
    \cup {[s EXCEPT !.codec = {c}] : c \in IF s.codec = {} THEN {1, 2} ELSE s.codec}
    \cup {[s EXCEPT !.format = {f}] : f \in IF s.format = {} THEN {1, 2} ELSE s.format}
    \cup {[s EXCEPT !.timebase = {t}] : t \in IF s.timebase = {} THEN {1, 2} ELSE s.timebase}

\* Parts are refused for what is known of them.  No metadata a better probe
\* could add makes refused parts compatible; what is only unknown is never
\* called incompatible.  (StreamsIncompatible and StreamsUnknown)
RefusalIsFinal ==
    AssessStreamCompatibility(selected) = "incompatible" =>
        \A i \in DOMAIN selected :
            \A n \in DOMAIN selected[i].streams : \A s \in Completed(selected[i].streams[n]) :
                AssessStreamCompatibility([selected EXCEPT ![i].streams[n] = s]) = "incompatible"

\* The numbers of an accepted join are those of its parts.
JoinIsSound == CoversTrueDuration /\ SumsAreExact /\ PartsAreDistinct

\* The verdict on the parts' streams is right in both directions.
VerdictIsSound == CompatibleIsPairwise /\ RefusalIsFinal
=============================================================================
