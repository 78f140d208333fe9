------------------------------ MODULE Chunking ------------------------------
(* How the pieces of a long recording are joined: the words of each window    *)
(* (_transcribe_chunked, server/pipeline/asr.py) and the speaker turns of     *)
(* each window, whose labels mean something else every time                   *)
(* (_diarize_chunked and _stitch, server/pipeline/diarize.py). The recording  *)
(* itself is part of the state, and what the models hear of a window follows  *)
(* from it, so that the result can be compared with what was said.            *)
EXTENDS Windows, Timeline, TLC

CONSTANTS
    Voices,   \* people on the call
    MaxWord   \* bound: the longest word

ASSUME VoicesAssumption == IsFiniteSet(Voices)

(* No word is longer than the overlap, or than what a window has for itself: a
   longer one can be cut by one window and again by the next but one. *)
ASSUME WordsAssumption ==
    /\ MaxWord \in 1..ChunkOverlap
    /\ 2 * ChunkOverlap + MaxWord =< ChunkLength + 1

VARIABLES
    task,     \* "words" in transcribe(), "turns" in diarize()
    spoken,   \* the words of the recording, as intervals
    speech,   \* the ticks in which each voice speaks
    words,    \* the transcript so far
    turns,    \* the turns so far
    unknown   \* voices that were given a new label

recording == <<task, spoken, speech>>
vars == <<loopVars, recording, words, turns, unknown>>

-----------------------------------------------------------------------------
(* The recording                                                            *)

Words(d) == {w \in Intervals(d) : w.to - w.from =< MaxWord}

Utterances(d) ==
    {S \in SUBSET Words(d) : \A i, j \in S : i # j => Apart(i, j)}

Init ==
    /\ LoopInit
    /\ \/ /\ task = "words"
          /\ spoken \in Utterances(duration)
          /\ speech = [v \in Voices |-> {}]
       \/ /\ task = "turns"
          /\ spoken = {}
          /\ speech \in [Voices -> SUBSET (0..(duration - 1))]
    /\ words = <<>>
    /\ turns = <<>>
    /\ unknown = 0

-----------------------------------------------------------------------------
(* Words                                                                    *)

(* What the speech model may return for a window: the words inside it, and of
   one that an edge cuts the part inside, or nothing. *)
Heard(from, to) ==
    LET Inside == {w \in spoken : from =< w.from /\ w.to =< to}
        Cut == {w \in spoken \ Inside : ~Apart(w, [from |-> from, to |-> to])}
        Part(w) == [word |-> w, from |-> IF w.from < from THEN from ELSE w.from,
                                to |-> IF w.to > to THEN to ELSE w.to]
    IN {{Part(w) : w \in Inside \cup S} : S \in SUBSET Cut}

(* "Drop words the previous window already covered" *)
Uncovered_Overlapping(new) ==
    IF words = <<>> THEN new ELSE {w \in new : w.from > Last(words).from}
Uncovered(new) ==
    IF words = <<>> THEN new ELSE {w \in new : w.from >= Last(words).to}

ReadWords ==
    /\ task = "words"
    /\ ReadWindow
    /\ \E new \in Heard(offset, End) : words' = words \o InOrder(Uncovered(new), Earlier)
    /\ UNCHANGED <<recording, turns, unknown>>

-----------------------------------------------------------------------------
(* Turns                                                                    *)

(* The turns of a voice in a window, as long as it goes on *)
Runs(v, from, to) ==
    LET T == speech[v] \cap (from..(to - 1))
    IN {[from |-> t, to |-> Min({e \in t..to : e \notin T})] : t \in {t \in T : t - 1 \notin T}}

(* The diarization model numbers the voices of a window as they arrive in it *)
Numberings(from, to) ==
    LET Present == {v \in Voices : speech[v] \cap (from..(to - 1)) # {}}
        First(v) == Min(speech[v] \cap (from..(to - 1)))
    IN {n \in Bijection(Present, 1..Cardinality(Present)) :
           \A v, w \in Present : First(v) < First(w) => n[v] < n[w]}

Speaker(n) == [kind |-> "speaker", no |-> n]
NewSpeaker(n) == [kind |-> "speaker_x", no |-> n]

(* _run: the turns of a window by their start *)
ByStart(x, y) == x.from < y.from \/ (x.from = y.from /\ x.speaker.no < y.speaker.no)
Diarized(from, to) ==
    {InOrder(UNION {{[voice |-> v, speaker |-> Speaker(n[v]), from |-> r.from, to |-> r.to] :
                         r \in Runs(v, from, to)} : v \in DOMAIN n},
             ByStart) : n \in Numberings(from, to)}

Stronger_FirstMet(x, y) == x.first < y.first
Stronger(x, y) == x.time > y.time \/ (x.time = y.time /\ x.first < y.first)

(* The moments at which a turn of the window and one before it are heard together
   in their overlap, which begins at seam *)
Together(prev, new, seam) ==
    {m \in (DOMAIN new) \X (DOMAIN prev) \X (0..duration) :
        /\ new[m[1]].from < seam + ChunkOverlap
        /\ prev[m[2]].to > seam
        /\ m[3] \in Ticks(new[m[1]]) \cap Ticks(prev[m[2]])}

(* How long each two labels agree, and which of them were met first *)
Agreement(prev, new, seam) ==
    LET Pair(m) == <<new[m[1]].speaker, prev[m[2]].speaker>>
        Of(p) == {m \in Together(prev, new, seam) : Pair(m) = p}
    IN {[new |-> p[1], prev |-> p[2], time |-> Cardinality(Of(p)),
         first |-> Min({m[1] * (Len(prev) + 1) + m[2] : m \in Of(p)})] :
           p \in {Pair(m) : m \in Together(prev, new, seam)}}

(* _stitch: labels are matched by how long they speak together in the overlap,
   the pair that agrees longest first, and of those that agree equally long the
   one that was met first: a pair is taken unless a stronger one that is taken
   has one of its labels. Only one set of pairs is so. *)
Stitch(prev, new, seam) ==
    LET A == Agreement(prev, new, seam)
    IN {S \in SUBSET A : \A x \in A :
           x \in S <=> \A y \in S : Stronger(y, x) => y.new # x.new /\ y.prev # x.prev}

(* The labels of a window become labels of the recording, those that nothing
   matches new ones in the order in which they are met; ... *)
Newcomers(mapping, new) == {new[i].speaker : i \in DOMAIN new} \ {x.new : x \in mapping}

Relabel(mapping, new) ==
    LET Met(s) == Min({i \in DOMAIN new : new[i].speaker = s})
        Number(s) == Cardinality({r \in Newcomers(mapping, new) : Met(r) =< Met(s)})
        Label(s) == IF s \in Newcomers(mapping, new) THEN NewSpeaker(unknown + Number(s))
                    ELSE (CHOOSE x \in mapping : x.new = s).prev
    IN [i \in DOMAIN new |-> [new[i] EXCEPT !.speaker = Label(@)]]

(* ... what the last turn covered is cut off, and nothing empty is left. *)
CutOff_Whole(new) == Kept(new, {i \in DOMAIN new : new[i].from >= Last(turns).to})
CutOff(new) ==
    LET cutoff == Last(turns).to
        later == Kept(new, {i \in DOMAIN new : new[i].to > cutoff})
    IN [i \in DOMAIN later |-> [later[i] EXCEPT !.from = IF @ < cutoff THEN cutoff ELSE @]]

ReadTurns ==
    /\ task = "turns"
    /\ ReadWindow
    /\ \E new \in Diarized(offset, End) :
          IF turns = <<>>
          THEN turns' = new /\ UNCHANGED unknown
          ELSE \E mapping \in Stitch(turns, new, offset) :
                   /\ turns' = turns \o CutOff(Relabel(mapping, new))
                   /\ unknown' = unknown + Cardinality(Newcomers(mapping, new))
    /\ UNCHANGED <<recording, words>>

Done ==
    /\ Finish
    /\ turns' = SortedByStart(turns)
    /\ UNCHANGED <<recording, words, unknown>>

Next == ReadWords \/ ReadTurns \/ Done
Spec == Init /\ [][Next]_vars

-----------------------------------------------------------------------------
(* Every word of the recording is in the transcript, once and in its place,
   whatever the windows make of the words their edges cut. *)
EachWordOnce ==
    loop = "done" /\ task = "words" =>
        [i \in DOMAIN words |-> words[i].word] = InOrder(spoken, Earlier)

(* The turns of the whole recording say of every voice exactly when it speaks:
   no cut at a window loses speech or invents it. *)
SpeechCovered ==
    loop = "done" /\ task = "turns" =>
        \A v \in Voices :
            speech[v] = UNION {turns[i].from..(turns[i].to - 1) :
                                  i \in {i \in DOMAIN turns : turns[i].voice = v}}

(* The overlaps of the windows *)
Seams == {(Step * k)..(Step * k + ChunkOverlap - 1) : k \in 1..(idx - 1)}

(* Two people speak in an overlap, and only ever together, so that nothing in it
   tells one from the other. *)
Indistinct ==
    \E s \in Seams : \E v, w \in Voices :
        v # w /\ speech[v] \cap s = speech[w] \cap s /\ speech[v] \cap s # {}

(* A label is one person, from the first window to the last, and a person who
   speaks in every overlap keeps one label. *)
LabelsAreVoices ==
    task = "turns" /\ ~Indistinct =>
        \A i, j \in DOMAIN turns :
            LET v == turns[i].voice
                w == turns[j].voice
            IN /\ turns[i].speaker = turns[j].speaker => v = w
               /\ v = w /\ (\A s \in Seams : speech[v] \cap s # {}) =>
                      turns[i].speaker = turns[j].speaker

-----------------------------------------------------------------------------
(* A word is in the transcript as it was spoken. Not so: when the end of a
   window cuts it, its first part stands, and the next window's whole one is
   dropped as covered. *)
WordsWhole ==
    \A i \in DOMAIN words : words[i].from = words[i].word.from /\ words[i].to = words[i].word.to

=============================================================================
