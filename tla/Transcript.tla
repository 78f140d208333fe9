----------------------------- MODULE Transcript -----------------------------
(* What process() (server/pipeline/run.py) makes of the words and the speaker  *)
(* turns of a call: turns without text are decoded again (recover.py), words   *)
(* are marked as doubtful (reliability.py) and checked by a second pass        *)
(* (verify.py), each gets a speaker and a role (align.py), interruptions are   *)
(* counted (recover.py, metrics.py), and the findings of the language model    *)
(* are checked against the text (qa.py). The stages run one after the other    *)
(* in one thread; what the models answer is any choice.                        *)
EXTENDS Timeline, TLC

CONSTANTS
    NumSpeakers,  \* people on the call
    Duration,     \* bound: ticks of the recording
    MaxSize,      \* bound: words and turns together
    MaxWords,     \* bound: words of the first pass
    MinTurn,      \* MIN_TURN of recover.py
    Pad,          \* PAD of recover.py
    MaxAttempts,  \* MAX_ATTEMPTS of recover.py
    MinOverlap,   \* MIN_OVERLAP of recover.py
    InterruptionOverlap,  \* INTERRUPTION_OVERLAP of metrics.py
    Gap,          \* SAME_SPEAKER_GAP of align.py, gap of _spans in reliability.py
    MaxListed,    \* spans that the report lists, 50 in reliability.py
    MaxSpans,     \* MAX_SPANS of verify.py
    Confidences   \* of words, as reliability.py tells them apart: see Low

Speakers == 0..(NumSpeakers - 1)
None == -1   \* no speaker, no segment

ASSUME TranscriptAssumption ==
    /\ {NumSpeakers, Duration, MaxSize, MaxWords, MinTurn, Pad, MaxAttempts, MinOverlap,
        InterruptionOverlap, Gap, MaxListed, MaxSpans} \subseteq Nat
    /\ NumSpeakers > 0
    /\ 0 < MinOverlap /\ MinOverlap =< InterruptionOverlap
    /\ Confidences \subseteq {"floor", "low", "soft", "fine"}

VARIABLES
    stage,     \* what process() does next
    words,     \* of the transcript
    turns,     \* of the speakers
    regions,   \* recovery["crosstalk_regions"]
    spans,     \* report["spans"]
    segments,
    stats,     \* interruptions by role
    findings   \* of the language model, or None when its stage failed

vars == <<stage, words, turns, regions, spans, segments, stats, findings>>

Word(i, c, r, again) ==
    [from |-> i.from, to |-> i.to, confidence |-> c, risk |-> r, recovered |-> again,
     uncertain |-> FALSE, conflict |-> FALSE]

(* The words of the first pass follow one another. A window that had to be decoded
   without scores leaves its words without a confidence, the others keep theirs. *)
FirstPass(ws) == \A i, j \in DOMAIN ws : i < j => ws[i].to =< ws[j].from

SeqsUpTo(S, n) == UNION {[1..k -> S] : k \in 0..n}

Turns == {t \in [speaker : Speakers, from : 0..Duration, to : 0..Duration] : t.from < t.to}

(* Turns are sorted by start; those of two people may overlap. *)
Diarized(ts) ==
    \A i, j \in DOMAIN ts :
        i < j => /\ ts[i].from =< ts[j].from
                 /\ ts[i].speaker = ts[j].speaker => Apart(ts[i], ts[j])

(* What the speech and the diarization model return of the call *)
Init ==
    /\ words \in {ws \in SeqsUpTo({Word(i, c, r, FALSE) : i \in Intervals(Duration),
                                     c \in Confidences \cup {"none"}, r \in BOOLEAN}, MaxWords) :
                    FirstPass(ws)}
    /\ turns \in {ts \in SeqsUpTo(Turns, MaxSize - Len(words)) : Diarized(ts)}
    /\ stage = "recovering"
    /\ regions = <<>>
    /\ spans = <<>>
    /\ segments = <<>>
    /\ stats = [r \in {} |-> 0]
    /\ findings = {}

-----------------------------------------------------------------------------
(* recover.py                                                               *)

(* The turns a loop over the later turns b of a meets before it breaks off *)
Met == {m \in (DOMAIN turns) \X (DOMAIN turns) :
           m[1] < m[2] /\ \A k \in (m[1] + 1)..m[2] : turns[k].from < turns[m[1]].to}

TalkOver(least) ==
    {m \in Met : /\ turns[m[1]].speaker # turns[m[2]].speaker
                 /\ Common(turns[m[1]], turns[m[2]]) >= least}

(* A region another one, which starts earlier, is merged with *)
Reaches_Over(q, start) == q.from < start /\ start < q.to
Reaches(q, start) == q.from < start /\ start =< q.to

(* find_overlaps: where two people talk, in regions that are merged where they
   meet. A merged region starts where no other reaches, and ends with the last to
   end of those that start before the next does. *)
Merged(R) ==
    LET starts == {r.from : r \in {r \in R : \A q \in R : ~Reaches(q, r.from)}}
        part(x) == {r \in R : x =< r.from /\ \A y \in starts : x < y => r.from < y}
    IN InOrder({[from |-> x, to |-> Max({r.to : r \in part(x)})] : x \in starts}, Earlier)

Overlaps ==
    LET region(m) == [from |-> turns[m[2]].from,
                      to |-> turns[m[2]].from + Common(turns[m[1]], turns[m[2]])]
    IN Merged({region(m) : m \in TalkOver(MinOverlap)})

(* _empty_turns, as many as are tried *)
ToRecover ==
    LET empty == Kept(turns, {k \in DOMAIN turns :
                                 /\ turns[k].to - turns[k].from >= MinTurn
                                 /\ \A i \in DOMAIN words : Apart(words[i], turns[k])})
    IN SubSeq(empty, 1, Min({MaxAttempts, Len(empty)}))

(* recover_dropped: what the model finds in a clip, at most a word of it, joins
   the words; a decode that fails finds nothing. *)
Clip(t) == [from |-> Max({0, t.from - Pad}), to |-> Min({Duration, t.to + Pad})]
FoundIn(t) ==
    LET clip == Clip(t)
        shifted(i) == [from |-> i.from + clip.from, to |-> i.to + clip.from]
    IN {<<>>} \cup {<<Word(shifted(i), "none", r, TRUE)>> :
                      i \in Intervals(clip.to - clip.from), r \in BOOLEAN}

Recover ==
    /\ stage = "recovering"
    /\ regions' = Overlaps
    /\ \E found \in [DOMAIN ToRecover -> UNION {FoundIn(t) : t \in Range(ToRecover)}] :
          /\ \A i \in DOMAIN ToRecover : found[i] \in FoundIn(ToRecover[i])
          /\ LET heard == Kept(found, {i \in DOMAIN found : found[i] # <<>>})
             IN words' = SortedByStart(words \o [k \in DOMAIN heard |-> heard[k][1]])
    /\ stage' = "analysing"
    /\ UNCHANGED <<turns, spans, segments, stats, findings>>

-----------------------------------------------------------------------------
(* reliability.py                                                           *)

(* A word is under the floor, under the cutoff of the call, under its median (and
   the ceiling), or none of it. Cutoff and median are those of the whole call, of
   which the words here are a part. *)
Low(w) == w.confidence \in {"floor", "low"}
Soft(w) == w.confidence \in {"floor", "low", "soft"}

Available == \E i \in DOMAIN words : words[i].confidence # "none"

Doubtful(w) == Low(w) \/ (w.risk /\ Soft(w)) \/ w.recovered

(* _spans: doubtful words next to each other *)
SpansOf(ws) ==
    LET adjacent(v, w) == v.uncertain /\ w.uncertain /\ w.from - v.to =< Gap
        stretches == Stretches(ws, adjacent)
        doubtful == Kept(stretches, {k \in DOMAIN stretches : stretches[k][1].uncertain})
    IN [k \in DOMAIN doubtful |->
           [from |-> doubtful[k][1].from, to |-> Last(doubtful[k]).to, verdict |-> "unchecked"]]

Listed(all) == SubSeq(all, 1, Min({MaxListed, Len(all)}))

Analyse ==
    /\ stage = "analysing"
    /\ words' = [i \in DOMAIN words |-> [words[i] EXCEPT !.uncertain = Available
       /\ Doubtful(words[i])]]
    /\ spans' = IF Available THEN Listed(SpansOf(words')) ELSE <<>>
    /\ stage' = "verifying"
    /\ UNCHANGED <<turns, regions, segments, stats, findings>>

-----------------------------------------------------------------------------
(* verify.py                                                                *)

Verdicts == {"confirmed", "likely", "conflict"}

(* verify_spans: the first spans get a verdict, or none does when it fails. *)
Judged ==
    LET n == Min({MaxSpans, Len(spans)})
    IN {spans} \cup
       {[k \in DOMAIN spans |-> IF k =< n THEN [spans[k] EXCEPT !.verdict = v[k]] ELSE spans[k]] :
           v \in [1..n -> Verdicts]}

Covers(s, w) == w.from >= s.from /\ w.to =< s.to
Verdict(judged, w) == {judged[k].verdict : k \in {k \in DOMAIN judged : Covers(judged[k], w)}}

(* apply_to_words *)
Marked_Settled(judged, w) ==
    [w EXCEPT !.uncertain = @ /\ Verdict(judged, w) \cap Verdicts = {},
              !.conflict = "conflict" \in Verdict(judged, w)]
Marked(judged, w) ==
    [w EXCEPT !.uncertain = @ /\ "confirmed" \notin Verdict(judged, w),
              !.conflict = "conflict" \in Verdict(judged, w)]

Verify ==
    /\ stage = "verifying"
    /\ \E judged \in Judged :
          /\ spans' = judged
          /\ words' = [i \in DOMAIN words |-> Marked(judged, words[i])]
    /\ stage' = "aligning"
    /\ UNCHANGED <<turns, regions, segments, stats, findings>>

-----------------------------------------------------------------------------
(* align.py                                                                 *)

(* assign_speakers: the turn that overlaps a word longest, of those that start
   before it ends; if none does, the nearest to its middle. Of equals the first. *)
Before_Start(w) == {i \in DOMAIN turns : \A j \in 1..i : turns[j].from =< w.from}
Before(w) == {i \in DOMAIN turns : \A j \in 1..i : turns[j].from < w.to}
Away(w, t) ==
    LET from == 2 * t.from - (w.from + w.to)
        to == 2 * t.to - (w.from + w.to)
    IN Min({IF d < 0 THEN -d ELSE d : d \in {from, to}})

SpeakerOf(w) ==
    LET overlapping == {i \in Before(w) : Common(w, turns[i]) > 0}
        longest == {i \in overlapping : \A j \in overlapping : Common(w, turns[j]) =< Common(w,
            turns[i])}
        nearest == {i \in DOMAIN turns : \A j \in DOMAIN turns : Away(w, turns[i]) =< Away(w,
            turns[j])}
    IN IF turns = <<>> THEN 0 ELSE turns[Min(IF overlapping = {} THEN nearest ELSE longest)].speaker

(* group_segments: words of one speaker with no long pause between them *)
Grouped ==
    LET joins(v, w) == SpeakerOf(v) = SpeakerOf(w) /\ w.from - v.to =< Gap
    IN Stretches(words, joins)

(* segment_confidence of reliability.py: a conflict, a word under the floor, a
   doubtful word that matters, or three doubtful ones *)
Questionable(ws) ==
    \/ \E i \in DOMAIN ws : \/ ws[i].conflict
                            \/ ws[i].confidence = "floor"
                            \/ ws[i].uncertain /\ ws[i].risk
    \/ Cardinality({i \in DOMAIN ws : ws[i].uncertain}) >= 3

(* mark_crosstalk of recover.py *)
TalkedOver(seg) == \E k \in DOMAIN regions : ~Apart(regions[k], seg)

(* assign_roles and apply_role_override: the others in the order of their labels *)
Role(speaker, agent, present) ==
    LET others == {p \in present : p # agent /\ p < speaker}
    IN IF speaker = agent THEN "Agent"
       ELSE IF others = {} THEN "Customer" ELSE "Speaker"
WithRoles(segs, agent) ==
    LET present == {segs[k].speaker : k \in DOMAIN segs}
    IN IF agent \notin present THEN segs
       ELSE [k \in DOMAIN segs |-> [segs[k] EXCEPT !.role = Role(segs[k].speaker, agent, present)]]

(* interruption_events and metrics.compute: the later starter cuts in. *)
Interruptions(segs) ==
    LET roleOf(p) ==
            LET own == {segs[k].role : k \in {k \in DOMAIN segs : segs[k].speaker = p}}
            IN IF own = {} THEN "unknown" ELSE CHOOSE r \in own : TRUE
    IN [r \in {"Agent", "Customer"} |->
           Cardinality({m \in TalkOver(InterruptionOverlap) : roleOf(turns[m[2]].speaker) = r})]

(* build, and what run.py does with the segments before the language model sees
   them. Who is taken for the agent depends on what is said. *)
Align ==
    /\ stage = "aligning"
    /\ LET seg(ws) == [words |-> ws, speaker |-> SpeakerOf(ws[1]), role |-> "unknown",
                       from |-> ws[1].from, to |-> Last(ws).to, crosstalk |-> FALSE,
                       uncertain |-> Questionable(ws)]
           marked(g) == [g EXCEPT !.crosstalk = TalkedOver(g), !.uncertain = @ \/ TalkedOver(g)]
           built == [k \in DOMAIN Grouped |-> marked(seg(Grouped[k]))]
       IN \/ /\ built = <<>>
             /\ segments' = <<>>
          \/ \E k \in DOMAIN built : segments' = WithRoles(built, built[k].speaker)
    /\ stats' = Interruptions(segments')
    /\ stage' = "analyzing"
    /\ UNCHANGED <<words, turns, regions, spans, findings>>

-----------------------------------------------------------------------------
(* qa.py, and what run.py does with its answer                              *)

(* _check: a finding stays if a segment has its quote, with the role of the
   segment, and marked for review if the segment is uncertain. *)
Checked(k) == [segment |-> k, speaker |-> segments[k].role, review |-> segments[k].uncertain]

(* apply_role_override, with the metrics computed again *)
Override_StatsKept(agent) ==
    /\ segments' = WithRoles(segments, agent)
    /\ UNCHANGED stats
Override(agent) ==
    /\ segments' = WithRoles(segments, agent)
    /\ stats' = Interruptions(segments')

Analyze ==
    /\ stage = "analyzing"
    /\ \/ \E quoted \in {None} \cup DOMAIN segments, agent \in {None} \cup Speakers :
             /\ findings' = IF quoted = None THEN {} ELSE {Checked(quoted)}
             /\ Override(agent)
       \/ UNCHANGED <<findings, segments, stats>>
    /\ stage' = "done"
    /\ UNCHANGED <<words, turns, regions, spans>>

Next == Recover \/ Analyse \/ Verify \/ Align \/ Analyze
Spec == Init /\ [][Next]_vars

-----------------------------------------------------------------------------
(* Every word of either pass is in one segment, in the order of the recording, and
   nobody talks longer during it than the one it is given to. *)
WordsPlaced ==
    stage \in {"analyzing", "done"} =>
        /\ \E cut \in [0..Len(segments) -> 0..Len(words)] :
              /\ cut[0] = 0 /\ cut[Len(segments)] = Len(words)
              /\ \A k \in DOMAIN segments :
                    /\ cut[k - 1] < cut[k]
                    /\ segments[k].words = SubSeq(words, cut[k - 1] + 1, cut[k])
        /\ \A k \in DOMAIN segments : \A i \in DOMAIN segments[k].words :
              LET w == segments[k].words[i]
                  longest == Max({0} \cup {Common(w, t) : t \in Range(turns)})
              IN longest > 0 => \E t \in Range(turns) :
                                   t.speaker = segments[k].speaker /\ Common(w, t) = longest

(* The regions of cross-talk are apart, and are just when two people talk at the
   same time for long enough. *)
RegionsRight ==
    stage # "recovering" =>
        /\ \A k \in 1..(Len(regions) - 1) : regions[k].to < regions[k + 1].from
        /\ UNION {Ticks(r) : r \in Range(regions)} =
           UNION {Ticks(m[1]) \cap Ticks(m[2]) : m \in
                     {m \in Range(turns) \X Range(turns) :
                         m[1].speaker # m[2].speaker /\ Common(m[1], m[2]) >= MinOverlap}}

(* What is doubtful about a stretch of the call reaches the reader of a finding that
   quotes it: two readings that differ, talk over it, and a doubtful word that
   matters and was not confirmed. *)
DoubtReachesFindings ==
    \A f \in findings :
        LET seg == segments[f.segment]
            doubted(w) ==
                \/ \E k \in DOMAIN spans : spans[k].verdict = "conflict" /\ Covers(spans[k], w)
                \/ /\ Available /\ Doubtful(w) /\ w.risk
                   /\ \A k \in DOMAIN spans : spans[k].verdict = "confirmed" => ~Covers(spans[k], w)
            over(p, q) == p.speaker # q.speaker /\ Common(p, q) >= MinOverlap
        IN \/ \E i \in DOMAIN seg.words : doubted(seg.words[i])
           \/ \E p, q \in Range(turns) :
                  over(p, q) /\ Ticks(p) \cap Ticks(q) \cap Ticks(seg) # {}
           => f.review

(* Whoever the language model takes for the agent, the interruptions are counted
   for the role that the transcript gives to the one who started later. *)
MetricsMatchRoles ==
    stage = "done" =>
        \A r \in {"Agent", "Customer"} :
            stats[r] = Cardinality({m \in (DOMAIN turns) \X (DOMAIN turns) :
                                      /\ m[1] < m[2]
                                      /\ turns[m[1]].speaker # turns[m[2]].speaker
                                      /\ Common(turns[m[1]], turns[m[2]]) >= InterruptionOverlap
                                      /\ \E k \in DOMAIN segments :
                                            /\ segments[k].speaker = turns[m[2]].speaker
                                            /\ segments[k].role = r})

-----------------------------------------------------------------------------
(* Departures: what a doc or comment says and the code does not keep.         *)

(* "Recovered words ... are always marked uncertain" *)
RecoveredStaysUncertain ==
    stage = "done" => \A i \in DOMAIN words : words[i].recovered => words[i].uncertain

(* "the speaker it names is the one who said it" *)
FindingNamesSpeaker == \A f \in findings : f.speaker = segments[f.segment].role

(* "Segments are built from consecutive words and therefore never overlap" *)
SegmentsApart ==
    \A k, l \in DOMAIN segments : k # l => Apart(segments[k], segments[l])

=============================================================================
