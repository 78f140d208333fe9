-------------------------- MODULE Chunking_proofs --------------------------
(* Proof that nothing short enough is lost at the joints of a long recording, *)
(* whatever the window, the overlap and the recording measure: first of the   *)
(* loop alone, then of the two uses Chunking makes of it.                     *)
EXTENDS Chunking, Timeline_proofs

Bounds == \* the assumption, as the leaves use it
    /\ ChunkLength \in Nat /\ ChunkOverlap \in Nat
    /\ 0 < ChunkOverlap /\ 2 * ChunkOverlap < ChunkLength

(* The part of the recording up to t has been read, with every short interval
   of it in one piece. *)
Short(from, to) == from < to /\ to - from =< ChunkOverlap
Inside(k, from, to) == Step * k =< from /\ to =< Step * k + ChunkLength
HeardUpTo(t) ==
    \A from, to \in Nat :
        Short(from, to) /\ to =< t => \E k \in 0..(idx - 1) : Inside(k, from, to)

(* The windows read so far reach ChunkOverlap past where the next one starts. *)
LoopInv ==
    /\ duration \in Nat /\ offset \in Nat /\ idx \in Nat
    /\ loop \in {"reading", "left", "done"}
    /\ offset = Step * idx
    /\ idx > 0 => HeardUpTo(IF duration < offset + ChunkOverlap THEN duration ELSE offset + ChunkOverlap)
    /\ loop = "reading" => idx = 0 \/ offset + ChunkOverlap =< duration
    /\ loop # "reading" => HeardUpTo(duration)

LEMMA BoundsHold == Bounds
BY WindowsAssumption DEF Bounds

(* One window further: an interval that ends in it and that the ones before do
   not hold starts behind its left edge, for it is no longer than the overlap. *)
LEMMA OneMoreWindow ==
    ASSUME LoopInv, ReadWindow, NEW from \in Nat, NEW to \in Nat,
           Short(from, to), to =< offset + ChunkLength, to =< duration
    PROVE  \E k \in 0..(idx' - 1) : Inside(k, from, to)
<1>1. /\ idx \in Nat /\ offset \in Nat /\ duration \in Nat /\ offset = Step * idx
      /\ idx' = idx + 1
  BY DEF LoopInv, ReadWindow
<1>2. CASE idx > 0 /\ to =< offset + ChunkOverlap
  <2>1. HeardUpTo(IF duration < offset + ChunkOverlap THEN duration ELSE offset + ChunkOverlap)
    BY <1>2 DEF LoopInv
  <2>2. to =< (IF duration < offset + ChunkOverlap THEN duration ELSE offset + ChunkOverlap)
    BY <1>2
  <2>3. PICK k \in 0..(idx - 1) : Inside(k, from, to)
    BY <2>1, <2>2 DEF HeardUpTo
  <2>4. k \in 0..(idx' - 1)
    BY <1>1
  <2> QED
    BY <2>3, <2>4
<1>3. CASE ~(idx > 0 /\ to =< offset + ChunkOverlap)
  <2>1. offset =< from
    <3>1. CASE idx = 0
      <4>1. offset = 0
        BY <1>1, <3>1, BoundsHold DEF Bounds, Step
      <4> QED
        BY <4>1
    <3>2. CASE to > offset + ChunkOverlap
      BY <1>1, <3>2, BoundsHold DEF Bounds, Short
    <3> QED
      BY <1>1, <1>3, <3>1, <3>2, BoundsHold DEF Bounds
  <2>2. Inside(idx, from, to)
    BY <1>1, <2>1 DEF Inside
  <2>3. idx \in 0..(idx' - 1)
    BY <1>1
  <2> QED
    BY <2>2, <2>3
<1> QED
  BY <1>2, <1>3

LEMMA LoopStarts == LoopInit => LoopInv
<1> SUFFICES ASSUME LoopInit PROVE LoopInv
  OBVIOUS
<1>1. duration \in Nat
  BY WindowsAssumption DEF LoopInit
<1>2. Step * 0 = 0
  BY BoundsHold DEF Bounds, Step
<1> QED
  BY <1>1, <1>2 DEF LoopInit, LoopInv

LEMMA LoopSteps == LoopInv /\ [LoopNext]_loopVars => LoopInv'
<1> SUFFICES ASSUME LoopInv, [LoopNext]_loopVars PROVE LoopInv'
  OBVIOUS
<1>1. CASE ReadWindow
  <2>1. /\ duration \in Nat /\ offset \in Nat /\ idx \in Nat /\ offset = Step * idx
        /\ duration' = duration /\ idx' = idx + 1 /\ offset' = offset + Step
        /\ loop' \in {"reading", "left", "done"}
    BY <1>1 DEF LoopInv, ReadWindow
  <2>2. offset' \in Nat /\ offset' + ChunkOverlap = offset + ChunkLength
    BY <2>1, BoundsHold DEF Bounds, Step
  <2>3. offset' = Step * idx'
    <3>1. Step \in Nat
      BY BoundsHold DEF Bounds, Step
    <3>2. Step * (idx + 1) = Step * idx + Step
      BY <2>1, <3>1
    <3> QED
      BY <2>1, <3>2
  <2>4. (idx > 0 => HeardUpTo(IF duration < offset + ChunkOverlap THEN duration ELSE offset + ChunkOverlap))'
    BY <1>1, <2>1, <2>2, OneMoreWindow, BoundsHold DEF HeardUpTo, Bounds
  <2>5. (loop = "reading" => idx = 0 \/ offset + ChunkOverlap =< duration)'
    BY <1>1, <2>1, <2>2, BoundsHold DEF ReadWindow, Bounds
  <2>6. (loop # "reading" => HeardUpTo(duration))'
    <3> SUFFICES ASSUME loop' # "reading" PROVE HeardUpTo(duration)'
      OBVIOUS
    <3>1. duration =< offset + ChunkLength
      BY <1>1, <2>1, BoundsHold DEF ReadWindow, Bounds, Step
    <3> QED
      BY <1>1, <2>1, <3>1, OneMoreWindow, BoundsHold DEF HeardUpTo, Bounds
  <2> QED
    BY <2>1, <2>2, <2>3, <2>4, <2>5, <2>6 DEF LoopInv
<1>2. CASE Finish
  BY <1>2 DEF Finish, LoopInv, HeardUpTo
<1>3. CASE UNCHANGED loopVars
  BY <1>3 DEF loopVars, LoopInv, HeardUpTo
<1> QED
  BY <1>1, <1>2, <1>3 DEF LoopNext

(* Whatever ChunkLength, ChunkOverlap and the length of the recording are, what
   _transcribe_chunked and _diarize_chunked cut into windows has every interval
   no longer than the overlap whole in one of them. *)
THEOREM NothingIsCut == LoopSpec => []HeardWhole
<1>1. LoopInv => HeardWhole
  <2> SUFFICES ASSUME LoopInv, loop = "done",
                      NEW from \in 0..duration, NEW to \in from..duration,
                      from < to, to - from =< ChunkOverlap
               PROVE  \E k \in 0..(idx - 1) : Step * k =< from /\ to =< Step * k + ChunkLength
    BY DEF HeardWhole
  <2>1. HeardUpTo(duration) /\ duration \in Nat
    BY DEF LoopInv
  <2>2. from \in Nat /\ to \in Nat /\ to =< duration
    BY <2>1
  <2>3. PICK k \in 0..(idx - 1) : Inside(k, from, to)
    BY <2>1, <2>2 DEF HeardUpTo, Short
  <2> QED
    BY <2>3 DEF Inside
<1> QED
  BY LoopStarts, LoopSteps, <1>1, PTL DEF LoopSpec

(* Reading the words and reading the turns of a recording are runs of the loop,
   so both have read every interval no longer than the overlap in one piece. *)
THEOREM WordsAndTurnsAreHeardWhole == Spec => []HeardWhole
<1>1. Init => LoopInit
  BY DEF Init
<1>2. [Next]_vars => [LoopNext]_loopVars
  BY DEF Next, ReadWords, ReadTurns, Done, LoopNext, vars, loopVars
<1>3. Spec => LoopSpec
  BY <1>1, <1>2, PTL DEF Spec, LoopSpec
<1> QED
  BY <1>3, NothingIsCut, PTL

-----------------------------------------------------------------------------
(***************************************************************************)
(* The words. The windows read so far reach up to Reached, and the words    *)
(* heard of them are an initial stretch of those spoken, each of them once: *)
(* all that end by then, and at most one more that the last edge has cut.   *)
(* Its rest is in the next window and starts, in it, before what is         *)
(* covered; in the window after that it is no more.                         *)
(***************************************************************************)
Reached == IF idx = 0 THEN 0
           ELSE IF duration < offset + ChunkOverlap THEN duration ELSE offset + ChunkOverlap

(* The loop ends when the last window has reached the end. *)
LoopEnds ==
    /\ 0 < duration
    /\ loop # "reading" => idx > 0 /\ duration =< offset + ChunkOverlap

Pieces == [word : Intervals(duration), from : 0..duration, to : 0..duration]
PieceOf(p) == p.word \in spoken /\ p.word.from =< p.from /\ p.from < p.to /\ p.to =< p.word.to

SpokenOK ==
    /\ spoken \subseteq Words(duration)
    /\ \A v, w \in spoken : v # w => Apart(v, w)

WordsOK ==
    /\ words \in Seq(Pieces)
    /\ \A i \in DOMAIN words : PieceOf(words[i]) /\ words[i].to =< Reached
WordsApart == \A i, j \in DOMAIN words : i < j => words[i].word.from < words[j].word.from
WordsThere == \A w \in spoken : w.to =< Reached => \E i \in DOMAIN words : words[i].word = w
LastWord ==
    words # <<>> => LET last == Last(words) IN
        last.to = last.word.to \/ last.to = offset + ChunkOverlap \/ last.word.to =< offset

WordsInv ==
    /\ LoopInv /\ LoopEnds
    /\ task = "words" => SpokenOK /\ WordsOK /\ WordsApart /\ WordsThere /\ LastWord

LEMMA HeardIs ==
  ASSUME SpokenOK, duration \in Nat, offset \in Nat, End \in Nat, End =< duration, offset < End,
         NEW new \in Heard(offset, End)
  PROVE  /\ \A p \in new :
               /\ p \in Pieces /\ PieceOf(p) /\ offset =< p.from /\ p.to =< End
               /\ p.from = p.word.from \/ p.from = offset
               /\ p.to = p.word.to \/ p.to = End
         /\ \A p, q \in new : p.word = q.word => p = q
         /\ \A w \in spoken : offset =< w.from /\ w.to =< End =>
               \E p \in new : p.word = w
<1> DEFINE Inner == {w \in spoken : offset =< w.from /\ w.to =< End}
           Cut == {w \in spoken \ Inner : ~Apart(w, [from |-> offset, to |-> End])}
           Part(w) == [word |-> w, from |-> IF w.from < offset THEN offset ELSE w.from,
                                   to |-> IF w.to > End THEN End ELSE w.to]
<1>1. PICK C \in SUBSET Cut : new = {Part(w) : w \in Inner \cup C}
  BY DEF Heard
<1>2. ASSUME NEW w \in Inner \cup C
      PROVE  /\ Part(w) \in Pieces /\ PieceOf(Part(w)) /\ offset =< Part(w).from /\ Part(w).to =< End
             /\ Part(w).from = w.from \/ Part(w).from = offset
             /\ Part(w).to = w.to \/ Part(w).to = End
  <2>1. w \in spoken /\ w \in Intervals(duration) /\ w.from < End /\ offset < w.to
    BY <1>1, <1>2 DEF SpokenOK, Words, Apart, Intervals
  <2>2. w.from \in 0..duration /\ w.to \in 0..duration /\ w.from < w.to
    BY <2>1 DEF Intervals
  <2>3. Part(w).from \in 0..duration /\ Part(w).to \in 0..duration /\ Part(w).word = w
    BY <2>2
  <2>4. Part(w) \in Pieces
    BY <2>1, <2>3 DEF Pieces
  <2>5. QED BY <2>1, <2>2, <2>3, <2>4 DEF PieceOf
<1>3. \A w \in Inner \cup C : Part(w).word = w
  OBVIOUS
<1> HIDE DEF Part
<1>4. QED BY <1>1, <1>2, <1>3

LEMMA WindowFacts ==
  ASSUME LoopInv, LoopEnds, ReadWindow
  PROVE  /\ {duration, offset, idx, End, Reached} \subseteq Nat
         /\ duration' = duration /\ offset' = offset + ChunkLength - ChunkOverlap /\ idx' = idx + 1
         /\ offset < End /\ End =< duration /\ Reached =< End
         /\ idx = 0 => offset = 0
         /\ idx > 0 => Reached = offset + ChunkOverlap
         /\ End = duration \/ End = offset + ChunkLength
         /\ Reached' = End /\ LoopEnds'
<1>1. /\ duration \in Nat /\ offset \in Nat /\ idx \in Nat
      /\ duration' = duration /\ idx' = idx + 1 /\ offset' = offset + Step
      /\ loop = "reading" /\ loop' = IF duration - offset < ChunkLength \/ offset' >= duration THEN "left" ELSE "reading"
  BY DEF LoopInv, ReadWindow
<1>2. idx = 0 => offset = 0
  <2>1. Step * 0 = 0
    BY BoundsHold DEF Bounds, Step
  <2>2. QED BY <2>1 DEF LoopInv
<1>3. 0 < duration /\ (idx = 0 \/ offset + ChunkOverlap =< duration)
  BY <1>1 DEF LoopInv, LoopEnds
<1>4. Step = ChunkLength - ChunkOverlap /\ Bounds
  BY BoundsHold DEF Step
<1>5. QED BY <1>1, <1>2, <1>3, <1>4 DEF Bounds, End, Reached, LoopEnds

(* What is not covered is of words after all those heard, *)
LEMMA LaterWords ==
  ASSUME WordsInv, task = "words", ReadWindow, NEW new \in Heard(offset, End),
         NEW p \in Uncovered(new), NEW i \in DOMAIN words
  PROVE  words[i].word.from < p.word.from
<1> DEFINE last == Last(words)
           w == p.word
<1>1. SpokenOK /\ WordsOK /\ WordsApart /\ LastWord
  BY DEF WordsInv
<1>2. words # <<>> /\ words \in Seq(Pieces)
  BY <1>1 DEF WordsOK
<1>3. last = words[Len(words)] /\ Len(words) \in DOMAIN words /\ Len(words) \in Nat
  BY <1>2 DEF Last
<1>4. p \in new /\ p.from >= last.to
  BY <1>2 DEF Uncovered
<1>5. /\ p \in Pieces /\ PieceOf(p) /\ offset =< p.from
      /\ p.from = w.from \/ p.from = offset
  BY <1>1, <1>4, WindowFacts, HeardIs DEF WordsInv
<1>6. last \in Pieces /\ PieceOf(last)
  BY <1>1, <1>2, <1>3 DEF WordsOK
<1>7. /\ {p.from, p.to, w.from, w.to, last.from, last.to, last.word.from, last.word.to, offset} \subseteq Nat
      /\ w \in spoken /\ last.word \in spoken
      /\ w.from =< p.from /\ p.from < p.to /\ p.to =< w.to
      /\ last.word.from =< last.from /\ last.from < last.to /\ last.to =< last.word.to
  BY <1>5, <1>6, WindowFacts DEF PieceOf, Pieces, Intervals, WordsInv
<1>8. w # last.word
  <2> SUFFICES ASSUME w = last.word PROVE FALSE
    OBVIOUS
  <2>1. last.to = w.to \/ last.to = offset + ChunkOverlap \/ w.to =< offset
    BY <1>1, <1>2 DEF LastWord
  <2>2. QED BY <1>4, <1>5, <1>7, <2>1, BoundsHold DEF Bounds
<1>9. w.to =< last.word.from \/ last.word.to =< w.from
  BY <1>1, <1>7, <1>8 DEF SpokenOK, Apart
<1>10. last.word.from < w.from
  BY <1>4, <1>7, <1>9
<1>11. CASE i = Len(words)
  BY <1>3, <1>10, <1>11
<1>12. CASE i # Len(words)
  <2>1. i < Len(words)
    BY <1>2, <1>12
  <2>2. words[i].word.from < last.word.from
    BY <1>1, <1>3, <2>1 DEF WordsApart
  <2>3. words[i] \in Pieces
    BY <1>2
  <2>4. words[i].word.from \in Nat
    BY <2>3 DEF Pieces, Intervals
  <2>5. QED BY <1>7, <1>10, <2>2, <2>4
<1>13. QED BY <1>11, <1>12

(* ... in the order in which they are spoken, *)
LEMMA HeardInOrder ==
  ASSUME WordsInv, task = "words", ReadWindow, NEW new \in Heard(offset, End)
  PROVE  /\ DistinctStarts(Uncovered(new)) /\ IsFiniteSet(Uncovered(new))
         /\ \A p, q \in Uncovered(new) : p.from < q.from => p.word.from < q.word.from
<1> DEFINE N == Uncovered(new)
<1>1. SpokenOK /\ duration \in Nat
  BY WindowFacts DEF WordsInv
<1>2. \A p \in N : p \in new /\ p \in Pieces /\ PieceOf(p)
  BY <1>1, WindowFacts, HeardIs DEF WordsInv, Uncovered
<1>3. \A p, q \in N : p.word = q.word => p = q
  BY <1>1, <1>2, WindowFacts, HeardIs DEF WordsInv
<1>4. ASSUME NEW p \in N, NEW q \in N, p.word # q.word
      PROVE  p.word.to =< q.word.from \/ q.word.to =< p.word.from
  BY <1>1, <1>2, <1>4 DEF SpokenOK, Apart, PieceOf
<1>5. \A p \in N : /\ {p.from, p.to, p.word.from, p.word.to} \subseteq Nat /\ p.from \in 0..duration
                   /\ p.word.from =< p.from /\ p.from < p.to /\ p.to =< p.word.to
  BY <1>1, <1>2 DEF PieceOf, Pieces, Intervals
<1>6. DistinctStarts(N)
  BY <1>3, <1>4, <1>5 DEF DistinctStarts
<1>7. \A p, q \in N : p.from < q.from => p.word.from < q.word.from
  BY <1>3, <1>4, <1>5
<1>8. IsFiniteSet(N)
  BY <1>1, <1>5, <1>6, FewStarts
<1>9. QED BY <1>6, <1>7, <1>8

(* ... and there is all that the window holds and the ones before did not. *)
LEMMA NothingMissing ==
  ASSUME WordsInv, task = "words", ReadWindow, NEW new \in Heard(offset, End),
         NEW w \in spoken, w.to =< End, \A i \in DOMAIN words : words[i].word # w
  PROVE  \E p \in Uncovered(new) : p.word = w
<1>1. SpokenOK /\ WordsOK /\ WordsThere
  BY DEF WordsInv
<1>2. w \in Intervals(duration) /\ w.to - w.from =< MaxWord
  BY <1>1 DEF SpokenOK, Words
<1>3. w.from \in Nat /\ w.to \in Nat /\ w.from < w.to /\ w.to =< duration /\ Reached < w.to
  BY <1>1, <1>2, WindowFacts DEF Intervals, WordsThere, WordsInv
<1>4. offset =< w.from
  BY <1>2, <1>3, WindowFacts, BoundsHold, WordsAssumption DEF Bounds, WordsInv
<1>5. PICK p \in new : p.word = w
  BY <1>1, <1>4, WindowFacts, HeardIs DEF WordsInv
<1>6. PieceOf(p) /\ p \in Pieces
  BY <1>1, <1>5, WindowFacts, HeardIs DEF WordsInv
<1>7. CASE words = <<>>
  BY <1>5, <1>7 DEF Uncovered
<1>8. CASE words # <<>>
  <2> DEFINE last == Last(words)
  <2>1. last = words[Len(words)] /\ Len(words) \in DOMAIN words
    BY <1>1, <1>8 DEF Last, WordsOK
  <2>2. last \in Pieces /\ PieceOf(last) /\ last.to =< Reached /\ last.word # w
    BY <1>1, <2>1 DEF WordsOK
  <2>3. last.word.to =< w.from \/ w.to =< last.word.from
    BY <1>1, <2>2 DEF SpokenOK, Apart, PieceOf
  <2>4. /\ {last.from, last.to, last.word.from, last.word.to, p.from, Reached} \subseteq Nat
        /\ last.word.from =< last.from /\ last.from < last.to /\ last.to =< last.word.to
        /\ w.from =< p.from
    BY <1>5, <1>6, <2>2, WindowFacts DEF PieceOf, Pieces, Intervals, WordsInv
  <2>5. p.from >= last.to
    BY <1>3, <2>2, <2>3, <2>4
  <2>6. QED BY <1>5, <1>8, <2>5 DEF Uncovered
<1>9. QED BY <1>7, <1>8

LEMMA ReadWordsKeeps == ASSUME WordsInv, LoopInv', ReadWords PROVE WordsInv'
<1>1. /\ task = "words" /\ ReadWindow
      /\ UNCHANGED <<task, spoken>>
  BY DEF ReadWords, recording
<1>2. PICK new \in Heard(offset, End) : words' = words \o InOrder(Uncovered(new), Earlier)
  BY DEF ReadWords
<1> DEFINE N == Uncovered(new)
           s == InOrder(N, Earlier)
<1>3. /\ SpokenOK /\ WordsOK /\ WordsApart /\ WordsThere /\ LastWord
      /\ LoopInv /\ LoopEnds
  BY <1>1 DEF WordsInv
<1>4. /\ {duration, offset, idx, End, Reached} \subseteq Nat
      /\ duration' = duration /\ offset' = offset + ChunkLength - ChunkOverlap
      /\ End =< duration /\ Reached =< End
      /\ idx = 0 => offset = 0
      /\ End = duration \/ End = offset + ChunkLength
      /\ Reached' = End /\ LoopEnds'
  BY <1>1, <1>3, WindowFacts
<1>5. \A p \in N : /\ p \in Pieces /\ PieceOf(p) /\ p.to =< End
                   /\ p.to = p.word.to \/ p.to = End
  BY <1>1, <1>3, WindowFacts, HeardIs DEF Uncovered
<1>6. \A p \in N : \A i \in DOMAIN words : words[i].word.from < p.word.from
  BY <1>1, LaterWords
<1>7. /\ DistinctStarts(N) /\ IsFiniteSet(N)
      /\ \A p, q \in N : p.from < q.from => p.word.from < q.word.from
  BY <1>1, HeardInOrder
<1>8. /\ s \in Seq(N) /\ \A p \in N : \E k \in DOMAIN s : s[k] = p
      /\ \A i, j \in DOMAIN s : i < j => s[i] \in Sooner(N)[s[j]]
  BY <1>7, EarlierLists, ListsAll
<1> HIDE DEF s, N
<1>9. \A i, j \in DOMAIN s : s[i] \in N /\ (i < j => s[i].from < s[j].from)
  <2>1. \A i \in DOMAIN s : s[i] \in N
    BY <1>8
  <2>2. \A p, q \in N : p \in Sooner(N)[q] => p.from < q.from
    BY DEF Sooner, Earlier
  <2>3. QED BY <1>8, <2>1, <2>2
<1>10. /\ words \in Seq(Pieces) /\ s \in Seq(Pieces) /\ words' = words \o s
  BY <1>2, <1>3, <1>5, <1>8 DEF WordsOK, s, N
<1>11. /\ words' \in Seq(Pieces) /\ Len(words') = Len(words) + Len(s)
       /\ \A i \in DOMAIN words : i \in DOMAIN words' /\ words'[i] = words[i]
       /\ \A j \in DOMAIN s : Len(words) + j \in DOMAIN words' /\ words'[Len(words) + j] = s[j]
       /\ \A k \in DOMAIN words' :
             \/ k \in DOMAIN words
             \/ k > Len(words) /\ k - Len(words) \in DOMAIN s /\ words'[k] = s[k - Len(words)]
  BY <1>10, Joined
<1>12. SpokenOK' /\ Pieces' = Pieces
  BY <1>1, <1>3, <1>4 DEF SpokenOK, Pieces
<1>13. WordsOK'
  <2>1. ASSUME NEW k \in DOMAIN words' PROVE PieceOf(words'[k]) /\ words'[k].to =< End
    <3>1. CASE k \in DOMAIN words
      <4>1. words[k] \in Pieces /\ PieceOf(words[k]) /\ words[k].to =< Reached
        BY <1>3, <1>10, <3>1 DEF WordsOK
      <4>2. words[k].to \in Nat
        BY <4>1, <1>4 DEF Pieces
      <4>3. QED BY <1>4, <1>11, <3>1, <4>1, <4>2
    <3>2. CASE k - Len(words) \in DOMAIN s /\ words'[k] = s[k - Len(words)]
      BY <1>5, <1>9, <3>2
    <3>3. QED BY <1>11, <2>1, <3>1, <3>2
  <2>2. QED BY <1>1, <1>4, <1>11, <1>12, <2>1 DEF WordsOK, PieceOf
<1>14. WordsApart'
  <2> SUFFICES ASSUME NEW i \in DOMAIN words', NEW j \in DOMAIN words', i < j
               PROVE  words'[i].word.from < words'[j].word.from
    BY DEF WordsApart
  <2>1. DOMAIN words = 1..Len(words) /\ Len(words) \in Nat
    BY <1>10
  <2>2. CASE j \in DOMAIN words
    <3>1. i \in DOMAIN words
      BY <1>11, <2>1, <2>2
    <3>2. QED BY <1>3, <1>11, <2>2, <3>1 DEF WordsApart
  <2>3. CASE j \notin DOMAIN words /\ i \in DOMAIN words
    BY <1>6, <1>9, <1>11, <2>3
  <2>4. CASE j \notin DOMAIN words /\ i \notin DOMAIN words
    <3>1. /\ i - Len(words) \in DOMAIN s /\ words'[i] = s[i - Len(words)]
          /\ j - Len(words) \in DOMAIN s /\ words'[j] = s[j - Len(words)]
          /\ i \in Nat /\ j \in Nat
      BY <1>11, <2>4
    <3>2. i - Len(words) < j - Len(words)
      BY <2>1, <3>1
    <3>3. QED BY <1>7, <1>9, <3>1, <3>2 DEF N
  <2>5. QED BY <2>2, <2>3, <2>4
<1>15. WordsThere'
  <2> SUFFICES ASSUME NEW w \in spoken, w.to =< End PROVE \E k \in DOMAIN words' : words'[k].word = w
    BY <1>1, <1>4 DEF WordsThere
  <2>1. CASE \E i \in DOMAIN words : words[i].word = w
    BY <1>11, <2>1
  <2>2. CASE \A i \in DOMAIN words : words[i].word # w
    <3>1. PICK p \in N : p.word = w
      BY <1>1, <2>2, NothingMissing DEF N
    <3>2. PICK j \in DOMAIN s : s[j] = p
      BY <1>8
    <3>3. QED BY <1>11, <3>1, <3>2
  <2>3. QED BY <2>1, <2>2
<1>16. LastWord'
  <2> SUFFICES ASSUME words' # <<>>
               PROVE  LET last == words'[Len(words')] IN
                      \/ last.to = last.word.to \/ last.to = offset' + ChunkOverlap
                      \/ last.word.to =< offset'
    BY DEF LastWord, Last
  <2>1. CASE s = <<>>
    <3>1. words' = words /\ words # <<>> /\ Len(words) \in DOMAIN words
      BY <1>10, <2>1
    <3> DEFINE last == words[Len(words)]
    <3>2. last.to = last.word.to \/ last.to = offset + ChunkOverlap \/ last.word.to =< offset
      BY <1>3, <3>1 DEF LastWord, Last
    <3>3. last \in Pieces /\ PieceOf(last)
      BY <1>3, <3>1 DEF WordsOK
    <3>4. /\ {last.from, last.to, last.word.from, last.word.to} \subseteq Nat
          /\ last.word.from =< last.from /\ last.from < last.to
          /\ last.word.to - last.word.from =< MaxWord
      BY <1>3, <1>4, <3>3 DEF Pieces, PieceOf, Intervals, SpokenOK, Words
    <3> HIDE DEF last
    <3>5. ASSUME last.to = offset + ChunkOverlap PROVE last.word.to =< offset'
      <4>1. /\ MaxWord \in Nat /\ ChunkLength \in Nat /\ ChunkOverlap \in Nat
            /\ ChunkOverlap + MaxWord =< (ChunkLength - ChunkOverlap) + 1
        BY WordsAssumption, BoundsHold DEF Bounds
      <4>2. offset \in Nat /\ offset' = offset + ChunkLength - ChunkOverlap
        BY <1>4
      <4>3. last.from \in Nat /\ last.word.from \in Nat /\ last.word.to \in Nat
        BY <3>4
      <4>4. last.word.from < offset + ChunkOverlap
        BY <3>4, <3>5, <4>1, <4>2, <4>3
      <4>5. last.word.to =< last.word.from + MaxWord
        BY <3>4, <4>1, <4>3
      <4>6. QED BY <4>1, <4>2, <4>3, <4>4, <4>5
    <3>6. last.word.to =< offset => last.word.to =< offset'
      BY <1>4, <3>4, BoundsHold DEF Bounds
    <3>7. QED BY <3>1, <3>2, <3>5, <3>6 DEF last
  <2>2. CASE s # <<>>
    <3>1. Len(s) \in DOMAIN s /\ Len(words') = Len(words) + Len(s)
      BY <1>10, <1>11, <2>2
    <3> DEFINE last == s[Len(s)]
    <3>2. words'[Len(words')] = last /\ last \in N
      BY <1>9, <1>11, <3>1
    <3>3. last \in Pieces /\ PieceOf(last) /\ (last.to = last.word.to \/ last.to = End)
      BY <1>5, <3>2
    <3>4. last.to \in Nat /\ last.word.to \in Nat /\ last.to =< last.word.to /\ last.word.to =< duration
      BY <1>4, <3>3 DEF Pieces, PieceOf, Intervals
    <3> HIDE DEF last
    <3>5. last.to = last.word.to \/ last.to = offset' + ChunkOverlap
      <4>1. CASE last.to = End /\ End = duration
        BY <1>4, <3>4, <4>1
      <4>2. CASE last.to = End /\ End = offset + ChunkLength
        BY <1>4, <4>2, BoundsHold DEF Bounds
      <4>3. QED BY <1>4, <3>3, <4>1, <4>2
    <3>6. QED BY <3>2, <3>5 DEF last
  <2>3. QED BY <2>1, <2>2
<1>17. QED BY <1>4, <1>12, <1>13, <1>14, <1>15, <1>16 DEF WordsInv

LEMMA WordsInit == Init => WordsInv
<1> SUFFICES ASSUME Init PROVE WordsInv
  OBVIOUS
<1>1. LoopInv /\ LoopEnds
  BY LoopStarts, WindowsAssumption DEF Init, LoopInit, LoopEnds
<1>2. SpokenOK \/ task # "words"
  BY DEF Init, SpokenOK, Utterances
<1>3. words = <<>> /\ Reached = 0
  BY DEF Init, LoopInit, Reached
<1>4. WordsOK /\ WordsApart /\ LastWord
  BY <1>3 DEF WordsOK, WordsApart, LastWord
<1>5. SpokenOK => WordsThere
  BY <1>3 DEF SpokenOK, WordsThere, Words, Intervals
<1>6. QED BY <1>1, <1>2, <1>4, <1>5 DEF WordsInv

LEMMA WordsNext == WordsInv /\ [Next]_vars => WordsInv'
<1> SUFFICES ASSUME WordsInv, [Next]_vars PROVE WordsInv'
  OBVIOUS
<1>1. LoopInv'
  BY LoopSteps DEF WordsInv, Next, ReadWords, ReadTurns, Done, LoopNext, vars, loopVars
<1>2. CASE ReadWords
  BY <1>1, <1>2, ReadWordsKeeps
<1>3. CASE ReadTurns
  BY <1>1, <1>3, WindowFacts DEF ReadTurns, recording, WordsInv
<1>4. CASE Done \/ UNCHANGED vars
  <2>1. /\ UNCHANGED <<task, spoken, words, duration, offset, idx>>
        /\ loop' = loop \/ loop = "left"
    BY <1>4 DEF Done, Finish, recording, vars, loopVars
  <2>2. Reached' = Reached /\ LoopEnds'
    BY <2>1 DEF Reached, LoopEnds, WordsInv
  <2>3. QED BY <1>1, <2>1, <2>2
            DEF WordsInv, SpokenOK, WordsOK, WordsApart, WordsThere, LastWord, PieceOf, Pieces
<1>5. QED BY <1>2, <1>3, <1>4 DEF Next

(* Every word that is spoken is in the transcript, once and in its place,
   whatever the windows make of those their edges cut, for any window, overlap
   and recording (_transcribe_chunked of asr.py). *)
THEOREM WordsAreThereOnce == Spec => []EachWordOnce
<1>1. WordsInv => EachWordOnce
  <2> SUFFICES ASSUME WordsInv, loop = "done", task = "words"
               PROVE  [i \in DOMAIN words |-> words[i].word] = InOrder(spoken, Earlier)
    BY DEF EachWordOnce
  <2> DEFINE s == [i \in DOMAIN words |-> words[i].word]
             Before == Sooner(spoken)
  <2>1. SpokenOK /\ WordsOK /\ WordsApart /\ WordsThere /\ LoopInv /\ LoopEnds
    BY DEF WordsInv
  <2>2. DOMAIN s = 1..Len(words) /\ Len(words) \in Nat
    BY <2>1 DEF WordsOK
  <2>3. \A w \in spoken : w.from \in 0..duration /\ w.to \in 0..duration /\ w.from < w.to
    BY <2>1 DEF SpokenOK, Words, Intervals
  <2>4. DistinctStarts(spoken)
    BY <2>1, <2>3 DEF SpokenOK, DistinctStarts, Apart, LoopInv
  <2>5. IsFiniteSet(spoken)
    BY <2>1, <2>3, <2>4, FewStarts DEF LoopInv
  <2>6. Reached = duration
    <3>1. idx > 0 /\ duration =< offset + ChunkOverlap /\ {duration, offset, idx} \subseteq Nat
      BY <2>1 DEF LoopInv, LoopEnds
    <3>2. QED BY <3>1, BoundsHold DEF Bounds, Reached
  <2>7. \A w \in spoken : \E i \in DOMAIN s : s[i] = w
    BY <2>1, <2>3, <2>6 DEF WordsThere, LoopInv
  <2>8. \A i \in DOMAIN s : s[i] \in spoken
    BY <2>1 DEF WordsOK, PieceOf
  <2>9. \A i, j \in DOMAIN s : s[i] \in Before[s[j]] <=> i < j
    <3> SUFFICES ASSUME NEW i \in DOMAIN s, NEW j \in DOMAIN s PROVE s[i].from < s[j].from <=> i < j
      BY <2>8 DEF Sooner, Earlier
    <3>1. i < j => s[i].from < s[j].from
      BY <2>1 DEF WordsApart
    <3>2. j < i => s[j].from < s[i].from
      BY <2>1 DEF WordsApart
    <3>3. s[i].from \in Int /\ s[j].from \in Int /\ i \in Int /\ j \in Int
      BY <2>2, <2>3, <2>8
    <3>4. QED BY <3>1, <3>2, <3>3
  <2> HIDE DEF s, Before
  <2>10. TotalOrder(spoken, Before) /\ Lists(InOrder(spoken, Earlier), spoken, Before)
    BY <2>4, <2>5, EarlierLists DEF Before
  <2>11. Lists(s, spoken, Before)
    <3>1. s \in [1..Len(words) -> spoken]
      BY <2>2, <2>8 DEF s
    <3>2. QED BY <2>2, <2>5, <2>7, <2>9, <2>10, <3>1, ListedIs
  <2>12. QED BY <2>5, <2>10, <2>11, ListsUnique DEF s
<1>2. QED BY WordsInit, WordsNext, <1>1, PTL DEF Spec

-----------------------------------------------------------------------------
(***************************************************************************)
(* The turns. Whatever the labels are, the turns of the windows read so far *)
(* say of every voice when it speaks, up to Reached. Speech that is cut off *)
(* a new window ends before the last turn does, so before Reached.          *)
(***************************************************************************)
IsTurn(t) ==
    /\ t = [voice |-> t.voice, speaker |-> t.speaker, from |-> t.from, to |-> t.to]
    /\ t.voice \in Voices /\ t.from \in Nat /\ t.to \in Nat
    /\ t.from < t.to /\ t.from..(t.to - 1) \subseteq speech[t.voice]

Says(s, v, x) == \E i \in DOMAIN s : s[i].voice = v /\ s[i].from =< x /\ x < s[i].to

(* The turns at I have a label for each voice, and each moment of a voice once. *)
LabelsFit(s, I) == \A i, j \in I : s[i].speaker = s[j].speaker <=> s[i].voice = s[j].voice
SaidOnce(s, I) ==
    \A i, j \in I : s[i].voice = s[j].voice /\ Ticks(s[i]) \cap Ticks(s[j]) # {} => i = j

SpeechOK == speech \in [Voices -> SUBSET (0..(duration - 1))]
TurnsOK == IsList(turns) /\ \A i \in DOMAIN turns : IsTurn(turns[i]) /\ turns[i].to =< Reached
TurnsSay == \A v \in Voices : \A x \in speech[v] : x < Reached => Says(turns, v, x)

TurnsInv ==
    /\ LoopInv /\ LoopEnds
    /\ task = "turns" => SpeechOK /\ TurnsOK /\ TurnsSay

(* The turns of a voice in a window are its speech there, each as long as it
   goes on. *)
LEMMA RunsAre ==
  ASSUME NEW v \in Voices, NEW from \in Nat, NEW to \in Nat, SpeechOK
  PROVE  /\ \A r \in Runs(v, from, to) :
               /\ r = [from |-> r.from, to |-> r.to]
               /\ r.from \in Nat /\ r.to \in Nat /\ from =< r.from /\ r.from < r.to /\ r.to =< to
               /\ r.from..(r.to - 1) \subseteq speech[v]
         /\ \A r, q \in Runs(v, from, to) : Ticks(r) \cap Ticks(q) # {} => r = q
         /\ \A x \in speech[v] : from =< x /\ x < to => \E r \in Runs(v, from, to) : r.from =< x /\ x < r.to
<1> DEFINE T == speech[v] \cap (from..(to - 1))
           Silent(t) == {e \in t..to : e \notin T}
           Run(t) == [from |-> t, to |-> Min(Silent(t))]
<1>1. T \subseteq Nat /\ \A x \in T : from =< x /\ x < to
  OBVIOUS
<1>2. Runs(v, from, to) = {Run(t) : t \in {t \in T : t - 1 \notin T}}
  BY DEF Runs
<1>3. ASSUME NEW t \in T
      PROVE  /\ Min(Silent(t)) \in Nat /\ t < Min(Silent(t)) /\ Min(Silent(t)) =< to
             /\ Min(Silent(t)) \notin T
             /\ \A e \in t..to : e < Min(Silent(t)) => e \in T
  <2>1. Silent(t) \in SUBSET Nat /\ to \in Silent(t)
    BY <1>1
  <2>2. Min(Silent(t)) \in Silent(t) /\ \A e \in Silent(t) : Min(Silent(t)) =< e
    BY <2>1, LeastNumber
  <2>3. \A e : e \in Silent(t) <=> e \in t..to /\ e \notin T
    OBVIOUS
  <2> DEFINE m == Min(Silent(t))
  <2>4. t \in Nat /\ m \in Nat /\ m \in t..to /\ m \notin T /\ m # t
    BY <1>1, <1>3, <2>1, <2>2, <2>3
  <2> HIDE DEF m, Silent, T
  <2>5. t < m /\ m =< to
    BY <2>4
  <2>6. ASSUME NEW e \in t..to, e < m PROVE e \in T
    <3>1. e \notin Silent(t)
      BY <2>2, <2>4, <2>6 DEF m
    <3>2. QED BY <2>3, <3>1
  <2>7. QED BY <2>4, <2>5, <2>6 DEF m
<1> HIDE DEF Silent
<1>4. ASSUME NEW t \in T PROVE t..(Min(Silent(t)) - 1) \subseteq speech[v]
  <2>1. ASSUME NEW e \in t..(Min(Silent(t)) - 1) PROVE e \in T
    BY <1>1, <1>3, <2>1
  <2>2. QED BY <2>1
<1>5. ASSUME NEW x \in T PROVE \E t \in T : t - 1 \notin T /\ t =< x /\ x < Min(Silent(t))
  <2> DEFINE Starts == {t \in 0..x : t..x \subseteq T}
  <2>1. Starts \in SUBSET Nat /\ x \in Starts
    BY <1>1
  <2>2. PICK t \in Starts : \A u \in Starts : t =< u
    BY <2>1, LeastNumber
  <2>3. t \in T /\ t \in Nat /\ t =< x /\ x \in Nat
    BY <1>1, <2>1, <2>2
  <2>4. t - 1 \notin T
    <3> SUFFICES ASSUME t - 1 \in T PROVE FALSE
      OBVIOUS
    <3>1. t - 1 \in 0..x
      BY <1>1, <2>3
    <3>2. (t - 1)..x \subseteq T
      BY <2>2, <2>3
    <3>3. QED BY <2>2, <2>3, <3>1, <3>2
  <2>5. x < Min(Silent(t))
    <3> SUFFICES ASSUME Min(Silent(t)) =< x PROVE FALSE
      BY <1>3, <2>3
    <3>1. Min(Silent(t)) \in t..x
      BY <1>3, <2>3
    <3>2. QED BY <1>3, <2>2, <2>3, <3>1
  <2>6. QED BY <2>3, <2>4, <2>5
<1>6. ASSUME NEW r \in Runs(v, from, to)
      PROVE  /\ r = [from |-> r.from, to |-> r.to]
             /\ r.from \in Nat /\ r.to \in Nat /\ from =< r.from /\ r.from < r.to /\ r.to =< to
             /\ r.from..(r.to - 1) \subseteq speech[v]
  <2>1. PICK t \in T : r = Run(t)
    BY <1>2
  <2>2. r.from = t /\ r.to = Min(Silent(t)) /\ r = [from |-> r.from, to |-> r.to]
    BY <2>1
  <2>3. QED BY <1>1, <1>3, <1>4, <2>2
<1>7. ASSUME NEW r \in Runs(v, from, to), NEW q \in Runs(v, from, to), Ticks(r) \cap Ticks(q) # {}
      PROVE  r = q
  <2>1. PICK t \in T : t - 1 \notin T /\ r = Run(t)
    BY <1>2
  <2>2. PICK u \in T : u - 1 \notin T /\ q = Run(u)
    BY <1>2
  <2>3. \E x \in Int : t =< x /\ x < Min(Silent(t)) /\ u =< x /\ x < Min(Silent(u))
    <3>1. PICK x \in Ticks(r) : x \in Ticks(q)
      BY <1>7
    <3>2. r.from = t /\ r.to = Min(Silent(t)) /\ q.from = u /\ q.to = Min(Silent(u))
      BY <2>1, <2>2
    <3>3. {t, u, Min(Silent(t)), Min(Silent(u))} \subseteq Nat
      BY <1>1, <1>3
    <3>4. x \in t..(Min(Silent(t)) - 1) /\ x \in u..(Min(Silent(u)) - 1)
      BY <3>1, <3>2 DEF Ticks
    <3>5. QED BY <3>3, <3>4
  <2> PICK x \in Int : t =< x /\ x < Min(Silent(t)) /\ u =< x /\ x < Min(Silent(u))
    BY <2>3
  <2>4. \A a, b \in T : a < b /\ b =< x /\ x < Min(Silent(a)) => b - 1 \in T
    <3> SUFFICES ASSUME NEW a \in T, NEW b \in T, a < b, b =< x, x < Min(Silent(a)) PROVE b - 1 \in T
      OBVIOUS
    <3>1. a \in Nat /\ b \in Nat /\ Min(Silent(a)) \in Nat /\ Min(Silent(a)) =< to
      BY <1>1, <1>3
    <3>2. b - 1 \in a..to /\ b - 1 < Min(Silent(a))
      BY <3>1
    <3>3. QED BY <1>3, <3>2
  <2>5. ~(t < u) /\ ~(u < t)
    BY <2>1, <2>2, <2>4
  <2>6. t = u
    BY <1>1, <2>5
  <2>7. QED BY <2>1, <2>2, <2>6
<1>8. ASSUME NEW x \in speech[v], from =< x, x < to
      PROVE  \E r \in Runs(v, from, to) : r.from =< x /\ x < r.to
  <2>1. x \in T
    BY <1>8 DEF SpeechOK
  <2>2. PICK t \in T : t - 1 \notin T /\ t =< x /\ x < Min(Silent(t))
    BY <1>5, <2>1
  <2>3. Run(t) \in Runs(v, from, to) /\ Run(t).from = t /\ Run(t).to = Min(Silent(t))
    BY <1>2, <2>2
  <2>4. QED BY <2>2, <2>3
<1>9. QED BY <1>6, <1>7, <1>8

(* The turns of a window, listed by start: of two with the same start the one
   with the lower label first. *)
TurnOrder(S) == [x \in S |-> {y \in S : ByStart(y, x)}]

LEMMA TurnLists ==
  ASSUME NEW S, NEW n \in Nat, NEW m \in Nat,
         \A x \in S : x.from \in 0..m /\ x.speaker.no \in 1..n,
         \A x, y \in S : x.from = y.from /\ x.speaker.no = y.speaker.no => x = y
  PROVE  /\ IsFiniteSet(S) /\ InOrder(S, ByStart) \in Seq(S)
         /\ \A x \in S : \E k \in DOMAIN InOrder(S, ByStart) : InOrder(S, ByStart)[k] = x
         /\ \A k, l \in DOMAIN InOrder(S, ByStart) : InOrder(S, ByStart)[k] = InOrder(S, ByStart)[l] => k = l
<1> DEFINE place == [x \in S |-> <<x.from, x.speaker.no>>]
<1>1. IsFiniteSet((0..m) \X (1..n))
  <2>1. IsFiniteSet(0..m) /\ IsFiniteSet(1..n)
    BY FS_Interval
  <2>2. QED BY <2>1, FS_Product
<1>2. place \in Injection(S, (0..m) \X (1..n))
  BY DEF Injection, IsInjective
<1>3. IsFiniteSet(S)
  BY <1>1, <1>2, FS_Injection
<1>4. TotalOrder(S, TurnOrder(S))
  <2>1. \A x, y \in S : x \in TurnOrder(S)[y] <=> ByStart(x, y)
    BY DEF TurnOrder
  <2>2. TurnOrder(S) \in [S -> SUBSET S]
    BY DEF TurnOrder
  <2>3. ASSUME NEW x \in S, NEW y \in S, ByStart(x, y), NEW z \in S, ByStart(z, x)
        PROVE  ByStart(z, y)
    BY <2>3 DEF ByStart
  <2>4. \A x \in S : ~ByStart(x, x)
    BY DEF ByStart
  <2>5. \A x, y \in S : x = y \/ ByStart(x, y) \/ ByStart(y, x)
    BY DEF ByStart
  <2>6. \A x, y \in S : x \in TurnOrder(S)[y] => TurnOrder(S)[x] \subseteq TurnOrder(S)[y]
    <3> SUFFICES ASSUME NEW x \in S, NEW y \in S, x \in TurnOrder(S)[y], NEW z \in TurnOrder(S)[x]
                 PROVE  z \in TurnOrder(S)[y]
      OBVIOUS
    <3>1. z \in S
      BY <2>2
    <3>2. QED BY <2>1, <2>3, <3>1
  <2>7. QED BY <2>1, <2>2, <2>4, <2>5, <2>6 DEF TotalOrder
<1>5. ASSUME NEW k \in 1..Cardinality(S)
      PROVE  /\ InOrder(S, ByStart)[k] \in S
             /\ Cardinality(TurnOrder(S)[InOrder(S, ByStart)[k]]) = k - 1
  <2>1. PICK x \in S : Cardinality(TurnOrder(S)[x]) = k - 1
    BY <1>3, <1>4, EveryRank
  <2>2. \E y \in S : Cardinality({z \in S : ByStart(z, y)}) = k - 1
    BY <2>1 DEF TurnOrder
  <2>3. QED BY <2>2 DEF InOrder, TurnOrder
<1>6. InOrder(S, ByStart) \in [1..Cardinality(S) -> S]
  BY <1>5 DEF InOrder
<1>7. Lists(InOrder(S, ByStart), S, TurnOrder(S))
  BY <1>5, <1>6 DEF Lists
<1> DEFINE list == InOrder(S, ByStart)
<1>8. /\ list \in Seq(S) /\ \A x \in S : \E k \in DOMAIN list : list[k] = x
      /\ \A k, l \in DOMAIN list : k < l => list[k] \in TurnOrder(S)[list[l]]
  BY <1>3, <1>4, <1>7, ListsAll
<1> HIDE DEF list
<1>9. \A k, l \in DOMAIN list : k < l => list[k] # list[l]
  BY <1>4, <1>8 DEF TotalOrder
<1>10. \A k, l \in DOMAIN list : list[k] = list[l] => k = l
  <2>1. \A k \in DOMAIN list : k \in Int
    BY <1>8
  <2>2. QED BY <1>9, <2>1
<1>11. QED BY <1>3, <1>8, <1>10 DEF list

(* A window from from to to: its turns are turns of the recording, and say who
   speaks in it. *)
LEMMA DiarizedIs ==
  ASSUME NEW from \in Nat, NEW to \in Nat, to =< duration, duration \in Nat, SpeechOK,
         NEW new \in Diarized(from, to)
  PROVE  /\ IsList(new)
         /\ \A i \in DOMAIN new : IsTurn(new[i]) /\ from =< new[i].from /\ new[i].to =< to
         /\ \A v \in Voices : \A x \in speech[v] : from =< x /\ x < to => Says(new, v, x)
         /\ LabelsFit(new, DOMAIN new) /\ SaidOnce(new, DOMAIN new)
         /\ \A i \in DOMAIN new : new[i].speaker.kind = "speaker"
<1> DEFINE Present == {v \in Voices : speech[v] \cap (from..(to - 1)) # {}}
           count == Cardinality(Present)
<1>1. PICK n \in Numberings(from, to) :
         new = InOrder(UNION {{[voice |-> v, speaker |-> Speaker(n[v]), from |-> r.from, to |-> r.to] :
                                  r \in Runs(v, from, to)} : v \in DOMAIN n}, ByStart)
  BY DEF Diarized
<1>2. n \in Bijection(Present, 1..count)
  BY DEF Numberings
<1>3. count \in Nat
  BY VoicesAssumption, FS_Subset, FS_CardinalityType
<1> HIDE DEF count
<1>4. /\ DOMAIN n = Present /\ \A v \in Present : n[v] \in 1..count
      /\ \A v, w \in Present : n[v] = n[w] => v = w
  BY <1>2 DEF Bijection, Injection, IsInjective
<1> DEFINE Turn(v, r) == [voice |-> v, speaker |-> Speaker(n[v]), from |-> r.from, to |-> r.to]
           S == UNION {{Turn(v, r) : r \in Runs(v, from, to)} : v \in DOMAIN n}
<1>5. new = InOrder(S, ByStart)
  BY <1>1
<1>6. \A x : x \in S <=> \E v \in Present : \E r \in Runs(v, from, to) : x = Turn(v, r)
  BY <1>4
<1>7. ASSUME NEW v \in Present, NEW r \in Runs(v, from, to)
      PROVE  /\ IsTurn(Turn(v, r)) /\ from =< r.from /\ r.to =< to
             /\ Turn(v, r).voice = v /\ Turn(v, r).from = r.from /\ Turn(v, r).to = r.to
             /\ Turn(v, r).speaker.no = n[v] /\ r.from \in 0..duration
             /\ Turn(v, r).speaker.kind = "speaker" /\ Turn(v, r).speaker = Speaker(n[v])
  BY <1>7, RunsAre DEF IsTurn, Speaker
<1> HIDE DEF S, Turn, Present
<1>8. \A x \in S : x.from \in 0..duration /\ x.speaker.no \in 1..count
  BY <1>4, <1>6, <1>7
<1>9. ASSUME NEW x \in S, NEW y \in S, x.speaker.no = y.speaker.no, Ticks(x) \cap Ticks(y) # {} PROVE x = y
  <2>1. PICK v \in Present : \E r \in Runs(v, from, to) : x = Turn(v, r)
    BY <1>6
  <2>2. PICK r \in Runs(v, from, to) : x = Turn(v, r)
    BY <2>1
  <2>3. PICK w \in Present : \E q \in Runs(w, from, to) : y = Turn(w, q)
    BY <1>6
  <2>4. PICK q \in Runs(w, from, to) : y = Turn(w, q)
    BY <2>3
  <2>5. v = w
    BY <1>4, <1>7, <1>9, <2>2, <2>4
  <2>6. v \in Voices
    BY DEF Present
  <2>7. Ticks(r) = Ticks(x) /\ Ticks(q) = Ticks(y)
    BY <1>7, <2>2, <2>4 DEF Ticks
  <2>8. r = q
    BY <1>9, <2>4, <2>5, <2>6, <2>7, RunsAre
  <2>9. QED BY <2>2, <2>4, <2>5, <2>8
<1>10. ASSUME NEW x \in S PROVE IsTurn(x) /\ from =< x.from /\ x.to =< to /\ x.from \in Ticks(x)
  <2>1. IsTurn(x) /\ from =< x.from /\ x.to =< to
    BY <1>6, <1>7
  <2>2. QED BY <2>1 DEF IsTurn, Ticks
<1>11. ASSUME NEW x \in S, NEW y \in S, x.from = y.from, x.speaker.no = y.speaker.no PROVE x = y
  <2>1. x.from \in Ticks(x) \cap Ticks(y)
    BY <1>10, <1>11
  <2>2. QED BY <1>9, <1>11, <2>1
<1>12. /\ new \in Seq(S) /\ \A x \in S : \E k \in DOMAIN new : new[k] = x
       /\ \A k, l \in DOMAIN new : new[k] = new[l] => k = l
  <2> DEFINE list == InOrder(S, ByStart)
  <2>1. /\ count \in Nat /\ duration \in Nat
        /\ \A x \in S : x.from \in 0..duration /\ x.speaker.no \in 1..count
        /\ \A x, y \in S : x.from = y.from /\ x.speaker.no = y.speaker.no => x = y
    BY <1>3, <1>8, <1>11
  <2>2. /\ list \in Seq(S) /\ \A x \in S : \E k \in DOMAIN list : list[k] = x
        /\ \A k, l \in DOMAIN list : list[k] = list[l] => k = l
    BY <2>1, TurnLists
  <2>3. new = list
    BY <1>5
  <2> HIDE DEF list
  <2>4. QED BY <2>2, <2>3
<1>13. \A i \in DOMAIN new : new[i] \in S
  BY <1>12
<1>14. IsList(new)
  BY <1>12 DEF IsList, Range
<1>15. ASSUME NEW i \in DOMAIN new
       PROVE  /\ IsTurn(new[i]) /\ from =< new[i].from /\ new[i].to =< to
              /\ new[i].voice \in Present /\ new[i].speaker = Speaker(n[new[i].voice])
              /\ new[i].speaker.no = n[new[i].voice] /\ new[i].speaker.kind = "speaker"
  BY <1>6, <1>7, <1>10, <1>13
<1>16. LabelsFit(new, DOMAIN new)
  BY <1>4, <1>15 DEF LabelsFit
<1>17. SaidOnce(new, DOMAIN new)
  BY <1>9, <1>12, <1>13, <1>15 DEF SaidOnce
<1>18. ASSUME NEW v \in Voices, NEW x \in speech[v], from =< x, x < to PROVE Says(new, v, x)
  <2>1. v \in Present
    BY <1>18 DEF Present, SpeechOK
  <2>2. PICK r \in Runs(v, from, to) : r.from =< x /\ x < r.to
    BY <1>18, RunsAre
  <2>3. Turn(v, r) \in S
    BY <1>6, <2>1
  <2>4. PICK k \in DOMAIN new : new[k] = Turn(v, r)
    BY <1>12, <2>3
  <2>5. QED BY <1>7, <2>1, <2>2, <2>4 DEF Says
<1>19. QED BY <1>14, <1>15, <1>16, <1>17, <1>18

(* New labels leave a turn what it is, ... *)
LEMMA RelabelIs ==
  ASSUME NEW new, IsList(new), \A i \in DOMAIN new : IsTurn(new[i]), NEW mapping
  PROVE  LET old == Relabel(mapping, new) IN
         /\ IsList(old) /\ DOMAIN old = DOMAIN new
         /\ \A i \in DOMAIN new : /\ IsTurn(old[i]) /\ old[i].voice = new[i].voice
                                  /\ old[i].from = new[i].from /\ old[i].to = new[i].to
<1> DEFINE old == Relabel(mapping, new)
<1>1. \E label : old = [i \in DOMAIN new |-> [new[i] EXCEPT !.speaker = label[i]]]
  <2> DEFINE Met(s) == Min({i \in DOMAIN new : new[i].speaker = s})
             Number(s) == Cardinality({r \in Newcomers(mapping, new) : Met(r) =< Met(s)})
             Label(s) == IF s \in Newcomers(mapping, new) THEN NewSpeaker(unknown + Number(s))
                         ELSE (CHOOSE x \in mapping : x.new = s).prev
  <2>1. old = [i \in DOMAIN new |-> [new[i] EXCEPT !.speaker = Label(new[i].speaker)]]
    BY DEF Relabel
  <2> HIDE DEF Label, old
  <2> DEFINE label == [i \in DOMAIN new |-> Label(new[i].speaker)]
  <2>2. old = [i \in DOMAIN new |-> [new[i] EXCEPT !.speaker = label[i]]]
    BY <2>1
  <2> HIDE DEF label
  <2>3. QED BY <2>2
<1> HIDE DEF old
<1> PICK label : old = [i \in DOMAIN new |-> [new[i] EXCEPT !.speaker = label[i]]]
  BY <1>1
<1>2. DOMAIN old = DOMAIN new /\ DOMAIN new = 1..Len(new) /\ Len(new) \in Nat
  BY DEF IsList
<1>3. IsList(old)
  <2>1. old = [i \in 1..Len(new) |-> old[i]]
    BY <1>2
  <2>2. QED BY <1>2, <2>1, EveryListIs
<1>4. ASSUME NEW i \in DOMAIN new
      PROVE  /\ IsTurn(old[i]) /\ old[i].voice = new[i].voice
             /\ old[i].from = new[i].from /\ old[i].to = new[i].to
  <2>1. old[i] = [new[i] EXCEPT !.speaker = label[i]]
    OBVIOUS
  <2>2. old[i] = [voice |-> new[i].voice, speaker |-> label[i], from |-> new[i].from, to |-> new[i].to]
    BY <2>1 DEF IsTurn
  <2>3. QED BY <2>2 DEF IsTurn
<1>5. QED BY <1>2, <1>3, <1>4 DEF old

PartOf(t, u) ==
    t.voice = u.voice /\ t.speaker = u.speaker /\ u.from =< t.from /\ t.to = u.to

(* ... and the cut leaves of each what comes after the last turn's end. *)
LEMMA CutOffIs ==
  ASSUME NEW new, IsList(new), \A i \in DOMAIN new : IsTurn(new[i]), Last(turns).to \in Nat
  PROVE  LET late == CutOff(new) IN
         /\ IsList(late)
         /\ \A k \in DOMAIN late : IsTurn(late[k])
         /\ \E at \in [DOMAIN late -> DOMAIN new] :
               /\ \A k \in DOMAIN late : PartOf(late[k], new[at[k]])
               /\ \A k, l \in DOMAIN late : at[k] = at[l] => k = l
         /\ \A v \in Voices : \A x \in Nat : Last(turns).to =< x /\ Says(new, v, x) => Says(late, v, x)
<1> DEFINE cutoff == Last(turns).to
           I == {i \in DOMAIN new : new[i].to > cutoff}
           kept == Kept(new, I)
           late == CutOff(new)
           at == Places(I)
<1>1. late = [k \in DOMAIN kept |->
                 [kept[k] EXCEPT !.from = IF kept[k].from < cutoff THEN cutoff ELSE kept[k].from]]
  BY DEF CutOff
<1>2. I \in SUBSET (DOMAIN new) /\ new \in Seq(Range(new)) /\ cutoff \in Nat
  BY DEF IsList
<1> HIDE DEF late
<1>3. /\ kept \in Seq(Range(new))
      /\ \A i \in I : \E k \in DOMAIN kept : kept[k] = new[i]
      /\ at \in [DOMAIN kept -> I]
      /\ \A k, l \in DOMAIN kept : kept[k] = new[at[k]] /\ (at[k] = at[l] => k = l)
  <2> HIDE DEF I
  <2>1. QED BY <1>2, KeptIs
<1> HIDE DEF kept, at
<1>4. DOMAIN late = DOMAIN kept /\ DOMAIN kept = 1..Len(kept) /\ Len(kept) \in Nat
  BY <1>1, <1>3
<1>5. IsList(late)
  <2>1. late = [k \in 1..Len(kept) |-> late[k]]
    BY <1>1, <1>4
  <2>2. QED BY <1>4, <2>1, EveryListIs
<1>6. ASSUME NEW k \in DOMAIN late
      PROVE  /\ IsTurn(late[k]) /\ late[k].voice = kept[k].voice /\ late[k].to = kept[k].to
             /\ late[k].from = IF kept[k].from < cutoff THEN cutoff ELSE kept[k].from
             /\ PartOf(late[k], new[at[k]])
  <2>1. at[k] \in I /\ kept[k] = new[at[k]]
    BY <1>3, <1>4
  <2>2. IsTurn(kept[k]) /\ kept[k].to > cutoff
    BY <2>1
  <2> DEFINE start == IF kept[k].from < cutoff THEN cutoff ELSE kept[k].from
  <2>3. late[k] = [kept[k] EXCEPT !.from = start]
    BY <1>1, <1>4
  <2> HIDE DEF start
  <2>4. late[k] = [voice |-> kept[k].voice, speaker |-> kept[k].speaker, from |-> start, to |-> kept[k].to]
    BY <2>2, <2>3 DEF IsTurn
  <2>5. /\ late[k].voice = kept[k].voice /\ late[k].to = kept[k].to /\ late[k].from = start
        /\ late[k].speaker = kept[k].speaker
    BY <2>4
  <2>6. start \in Nat /\ kept[k].from =< start /\ start < kept[k].to
    BY <1>2, <2>2 DEF IsTurn, start
  <2>7. start..(kept[k].to - 1) \subseteq speech[kept[k].voice]
    BY <2>2, <2>6 DEF IsTurn
  <2>8. IsTurn(late[k])
    BY <2>2, <2>4, <2>5, <2>6, <2>7 DEF IsTurn
  <2>9. QED BY <2>1, <2>5, <2>6, <2>8 DEF start, PartOf
<1>7. ASSUME NEW v \in Voices, NEW x \in Nat, cutoff =< x, Says(new, v, x) PROVE Says(late, v, x)
  <2>1. PICK i \in DOMAIN new : new[i].voice = v /\ new[i].from =< x /\ x < new[i].to
    BY <1>7 DEF Says
  <2>2. IsTurn(new[i]) /\ i \in I
    BY <1>2, <1>7, <2>1 DEF IsTurn
  <2>3. PICK k \in DOMAIN kept : kept[k] = new[i]
    BY <1>3, <2>2
  <2>4. late[k].voice = v /\ late[k].from =< x /\ x < late[k].to /\ k \in DOMAIN late
    BY <1>2, <1>4, <1>6, <1>7, <2>1, <2>3
  <2>5. QED BY <2>4 DEF Says
<1>8. /\ at \in [DOMAIN late -> DOMAIN new]
      /\ \A k \in DOMAIN late : PartOf(late[k], new[at[k]])
      /\ \A k, l \in DOMAIN late : at[k] = at[l] => k = l
  BY <1>2, <1>3, <1>4, <1>6
<1>9. QED BY <1>5, <1>6, <1>7, <1>8 DEF late

LEMMA SaysJoined ==
  ASSUME NEW s, IsList(s), NEW t, IsList(t)
  PROVE  /\ IsList(s \o t)
         /\ \A k \in DOMAIN (s \o t) :
              \/ \E i \in DOMAIN s : (s \o t)[k] = s[i]
              \/ \E j \in DOMAIN t : (s \o t)[k] = t[j]
         /\ \A v, x : Says(s, v, x) \/ Says(t, v, x) => Says(s \o t, v, x)
<1> DEFINE X == Range(s) \cup Range(t)
           u == s \o t
<1>1. s \in Seq(X) /\ t \in Seq(X)
  <2>1. s \in Seq(Range(s)) /\ t \in Seq(Range(t))
    BY DEF IsList
  <2>2. QED BY <2>1
<1> HIDE DEF X
<1>2. /\ u \in Seq(X)
      /\ \A i \in DOMAIN s : i \in DOMAIN u /\ u[i] = s[i]
      /\ \A j \in DOMAIN t : Len(s) + j \in DOMAIN u /\ u[Len(s) + j] = t[j]
      /\ \A k \in DOMAIN u :
           \/ k \in DOMAIN s
           \/ k > Len(s) /\ k - Len(s) \in DOMAIN t /\ u[k] = t[k - Len(s)]
  <2>1. /\ s \o t \in Seq(X)
        /\ \A i \in DOMAIN s : i \in DOMAIN (s \o t) /\ (s \o t)[i] = s[i]
        /\ \A j \in DOMAIN t : Len(s) + j \in DOMAIN (s \o t) /\ (s \o t)[Len(s) + j] = t[j]
    BY <1>1, Joined
  <2>2. \A k \in DOMAIN (s \o t) :
           \/ k \in DOMAIN s
           \/ k > Len(s) /\ k - Len(s) \in DOMAIN t /\ (s \o t)[k] = t[k - Len(s)]
    BY <1>1, Joined
  <2>3. QED BY <2>1, <2>2
<1> HIDE DEF u
<1>3. IsList(u)
  <2>1. u = [k \in 1..Len(u) |-> u[k]] /\ Len(u) \in Nat
    BY <1>2
  <2>2. QED BY <2>1, EveryListIs
<1>4. \A k \in DOMAIN u : (\E i \in DOMAIN s : u[k] = s[i]) \/ (\E j \in DOMAIN t : u[k] = t[j])
  BY <1>2
<1>5. ASSUME NEW v, NEW x, Says(s, v, x) \/ Says(t, v, x) PROVE Says(u, v, x)
  BY <1>2, <1>5 DEF Says
<1>6. QED BY <1>3, <1>4, <1>5 DEF u

LEMMA ReadTurnsKeeps == ASSUME TurnsInv, LoopInv', ReadTurns PROVE TurnsInv'
<1>1. /\ task = "turns" /\ ReadWindow
      /\ UNCHANGED <<task, speech>>
  BY DEF ReadTurns, recording
<1>2. PICK new \in Diarized(offset, End) :
         IF turns = <<>> THEN turns' = new
         ELSE \E mapping : turns' = turns \o CutOff(Relabel(mapping, new))
  BY DEF ReadTurns
<1>3. SpeechOK /\ TurnsOK /\ TurnsSay /\ LoopInv /\ LoopEnds
  BY <1>1 DEF TurnsInv
<1>4. /\ {duration, offset, idx, End, Reached} \subseteq Nat /\ duration' = duration
      /\ End =< duration /\ Reached =< End /\ Reached' = End /\ LoopEnds'
      /\ offset =< Reached
  BY <1>1, <1>3, WindowFacts, BoundsHold DEF Bounds
<1>5. /\ IsList(new)
      /\ \A i \in DOMAIN new : IsTurn(new[i]) /\ new[i].to =< End
      /\ \A v \in Voices : \A x \in speech[v] : offset =< x /\ x < End => Says(new, v, x)
  BY <1>3, <1>4, DiarizedIs
<1>6. SpeechOK' /\ \A t : IsTurn(t)' <=> IsTurn(t)
  BY <1>1, <1>3, <1>4 DEF SpeechOK, IsTurn
<1>7. \A v \in Voices : \A x \in speech[v] : x \in Nat
  BY <1>3, <1>4 DEF SpeechOK
<1>8. CASE turns = <<>>
  <2>1. turns' = new
    BY <1>2, <1>8
  <2>2. TurnsOK'
    BY <1>4, <1>5, <1>6, <2>1 DEF TurnsOK, IsTurn
  <2>3. ASSUME NEW v \in Voices, NEW x \in speech[v], x < End PROVE Says(new, v, x)
    <3>1. ~(x < Reached)
      BY <1>3, <1>8 DEF TurnsSay, Says
    <3>2. QED BY <1>4, <1>5, <1>7, <2>3, <3>1
  <2>4. QED BY <1>1, <1>4, <1>6, <2>1, <2>2, <2>3 DEF TurnsInv, TurnsSay
<1>9. CASE turns # <<>>
  <2>0. PICK mapping : turns' = turns \o CutOff(Relabel(mapping, new))
    BY <1>2, <1>9
  <2> DEFINE old == Relabel(mapping, new)
             late == CutOff(old)
  <2>1. turns' = turns \o late
    BY <2>0
  <2>2. /\ IsList(old) /\ DOMAIN old = DOMAIN new
        /\ \A i \in DOMAIN new : /\ IsTurn(old[i]) /\ old[i].voice = new[i].voice
                                 /\ old[i].from = new[i].from /\ old[i].to = new[i].to
    BY <1>5, RelabelIs
  <2> HIDE DEF old
  <2>3. Last(turns).to \in Nat /\ Last(turns).to =< Reached
    <3>1. Len(turns) \in DOMAIN turns
      BY <1>3, <1>9 DEF TurnsOK, IsList
    <3>2. QED BY <1>3, <3>1 DEF TurnsOK, IsTurn, Last
  <2>4. /\ IsList(late)
        /\ \A k \in DOMAIN late : IsTurn(late[k]) /\ \E i \in DOMAIN old : late[k].to = old[i].to
        /\ \A v \in Voices : \A x \in Nat : Last(turns).to =< x /\ Says(old, v, x) => Says(late, v, x)
    BY <2>2, <2>3, CutOffIs DEF PartOf
  <2> HIDE DEF late
  <2>5. /\ IsList(turns')
        /\ \A k \in DOMAIN turns' :
             \/ \E i \in DOMAIN turns : turns'[k] = turns[i]
             \/ \E j \in DOMAIN late : turns'[k] = late[j]
        /\ \A v, x : Says(turns, v, x) \/ Says(late, v, x) => Says(turns', v, x)
    <3>1. IsList(turns) /\ IsList(late)
      BY <1>3, <2>4 DEF TurnsOK
    <3> DEFINE u == turns \o late
    <3>2. /\ IsList(u)
          /\ \A k \in DOMAIN u :
               \/ \E i \in DOMAIN turns : u[k] = turns[i]
               \/ \E j \in DOMAIN late : u[k] = late[j]
          /\ \A v, x : Says(turns, v, x) \/ Says(late, v, x) => Says(u, v, x)
      BY <3>1, SaysJoined
    <3> HIDE DEF u
    <3>3. turns' = u
      BY <2>1 DEF u
    <3>4. QED BY <3>2, <3>3
  <2>6. TurnsOK'
    <3>1. \A i \in DOMAIN turns : IsTurn(turns[i]) /\ turns[i].to =< End
      BY <1>3, <1>4 DEF TurnsOK, IsTurn
    <3>2. \A j \in DOMAIN late : IsTurn(late[j]) /\ late[j].to =< End
      BY <1>5, <2>2, <2>4
    <3>3. QED BY <1>4, <1>6, <2>5, <3>1, <3>2 DEF TurnsOK
  <2>7. ASSUME NEW v \in Voices, NEW x \in speech[v], x < End PROVE Says(turns', v, x)
    <3>1. CASE x < Reached
      BY <1>3, <2>5, <3>1 DEF TurnsSay
    <3>2. CASE Reached =< x
      <4>1. offset =< x /\ Last(turns).to =< x /\ x \in Nat
        BY <1>4, <1>7, <2>3, <3>2
      <4>2. Says(new, v, x)
        BY <1>5, <2>7, <4>1
      <4>3. Says(old, v, x)
        BY <2>2, <4>2 DEF Says
      <4>4. QED BY <2>4, <2>5, <4>1, <4>3
    <3>3. QED BY <1>4, <1>7, <3>1, <3>2
  <2>8. QED BY <1>1, <1>4, <1>6, <2>6, <2>7 DEF TurnsInv, TurnsSay
<1>10. QED BY <1>8, <1>9

LEMMA TurnsInit == Init => TurnsInv
<1> SUFFICES ASSUME Init PROVE TurnsInv
  OBVIOUS
<1>1. LoopInv /\ LoopEnds
  BY LoopStarts, WindowsAssumption DEF Init, LoopInit, LoopEnds
<1>2. SpeechOK \/ task # "turns"
  BY DEF Init, SpeechOK
<1>3. turns = <<>> /\ Reached = 0
  BY DEF Init, LoopInit, Reached
<1>4. TurnsOK
  BY <1>3 DEF TurnsOK, IsList, Range
<1>5. SpeechOK => TurnsSay
  BY <1>1, <1>3 DEF SpeechOK, TurnsSay, LoopInv
<1>6. QED BY <1>1, <1>2, <1>4, <1>5 DEF TurnsInv

LEMMA TurnsNext == TurnsInv /\ [Next]_vars => TurnsInv'
<1> SUFFICES ASSUME TurnsInv, [Next]_vars PROVE TurnsInv'
  OBVIOUS
<1>1. LoopInv'
  BY LoopSteps DEF TurnsInv, Next, ReadWords, ReadTurns, Done, LoopNext, vars, loopVars
<1>2. CASE ReadTurns
  BY <1>1, <1>2, ReadTurnsKeeps
<1>3. CASE ReadWords
  BY <1>1, <1>3, WindowFacts DEF ReadWords, recording, TurnsInv
<1>4. CASE Done \/ UNCHANGED vars
  <2>1. /\ UNCHANGED <<task, speech, duration, offset, idx>>
        /\ loop' = loop \/ loop = "left"
        /\ turns' = turns \/ turns' = SortedByStart(turns)
    BY <1>4 DEF Done, Finish, recording, vars, loopVars
  <2>2. Reached' = Reached /\ LoopEnds'
    BY <2>1 DEF Reached, LoopEnds, TurnsInv
  <2>3. ASSUME task = "turns" PROVE SpeechOK' /\ TurnsOK' /\ TurnsSay'
    <3>1. SpeechOK /\ TurnsOK /\ TurnsSay
      BY <2>3 DEF TurnsInv
    <3>2. SpeechOK' /\ \A t : IsTurn(t)' <=> IsTurn(t)
      BY <2>1, <3>1 DEF SpeechOK, IsTurn
    <3>3. CASE turns' = turns
      BY <2>1, <2>2, <3>1, <3>2, <3>3 DEF TurnsOK, TurnsSay, Says
    <3>4. CASE turns' = SortedByStart(turns)
      <4>1. \A i \in DOMAIN turns : turns[i].from \in Nat
        BY <3>1 DEF TurnsOK, IsTurn
      <4>2. /\ IsList(turns') /\ DOMAIN turns' = DOMAIN turns
            /\ \A k \in DOMAIN turns' : \E i \in DOMAIN turns : turns'[k] = turns[i]
            /\ \A i \in DOMAIN turns : \E k \in DOMAIN turns' : turns'[k] = turns[i]
        BY <3>1, <3>4, <4>1, SortedIs DEF TurnsOK
      <4>3. TurnsOK'
        BY <2>2, <3>1, <3>2, <4>2 DEF TurnsOK
      <4>4. TurnsSay'
        BY <2>1, <2>2, <3>1, <4>2 DEF TurnsSay, Says
      <4>5. QED BY <3>2, <4>3, <4>4
    <3>5. QED BY <2>1, <3>3, <3>4
  <2>4. QED BY <1>1, <2>1, <2>2, <2>3 DEF TurnsInv
<1>5. QED BY <1>2, <1>3, <1>4 DEF Next

(* The turns of the whole recording say of every voice exactly when it speaks,
   for any window, overlap and recording and any number of voices: no cut at a
   joint loses speech or invents it (_diarize_chunked of diarize.py). *)
THEOREM SpeechIsCovered == Spec => []SpeechCovered
<1>1. TurnsInv => SpeechCovered
  <2> SUFFICES ASSUME TurnsInv, loop = "done", task = "turns", NEW v \in Voices
               PROVE  speech[v] = UNION {turns[i].from..(turns[i].to - 1) :
                                            i \in {i \in DOMAIN turns : turns[i].voice = v}}
    BY DEF SpeechCovered
  <2>1. SpeechOK /\ TurnsOK /\ TurnsSay /\ LoopInv /\ LoopEnds
    BY DEF TurnsInv
  <2>2. Reached = duration /\ duration \in Nat
    <3>1. idx > 0 /\ duration =< offset + ChunkOverlap /\ {duration, offset, idx} \subseteq Nat
      BY <2>1 DEF LoopInv, LoopEnds
    <3>2. QED BY <3>1, BoundsHold DEF Bounds, Reached
  <2>3. ASSUME NEW x \in speech[v]
        PROVE  \E i \in DOMAIN turns : turns[i].voice = v /\ x \in turns[i].from..(turns[i].to - 1)
    <3>1. x \in Nat /\ x < Reached
      BY <2>1, <2>2 DEF SpeechOK
    <3>2. PICK i \in DOMAIN turns : turns[i].voice = v /\ turns[i].from =< x /\ x < turns[i].to
      BY <2>1, <3>1 DEF TurnsSay, Says
    <3>3. QED BY <2>1, <3>1, <3>2 DEF TurnsOK, IsTurn
  <2>4. ASSUME NEW i \in DOMAIN turns, turns[i].voice = v
        PROVE  turns[i].from..(turns[i].to - 1) \subseteq speech[v]
    BY <2>1, <2>4 DEF TurnsOK, IsTurn
  <2>5. QED BY <2>3, <2>4
<1>2. QED BY TurnsInit, TurnsNext, <1>1, PTL DEF Spec

-----------------------------------------------------------------------------
(***************************************************************************)
(* The labels. A set of pairs in which a pair is there unless a stronger    *)
(* one that is there has one of its labels has only pairs of one voice, as  *)
(* long as no two voices agree with each other as much as with themselves:  *)
(* of the wrong pairs the one that agrees longest would give way to that of *)
(* one of its two voices with itself.                                       *)
(***************************************************************************)
Distinct(T) == \A v, w \in DOMAIN T : v = w \/ T[v] # T[w] \/ T[v] = {}

Greedy(A, S) ==
    \A x \in A : x \in S <=> \A y \in S : Stronger(y, x) => y.new # x.new /\ y.prev # x.prev

(* The voices of the pairs in A, and how long each two are heard together *)
Voiced(V, M, T, A, nv, pv) ==
    /\ IsFiniteSet(M) /\ T \in [V -> SUBSET M] /\ nv \in [A -> V] /\ pv \in [A -> V]
    /\ \A x, y \in A : /\ x.new = y.new <=> nv[x] = nv[y]
                       /\ x.prev = y.prev <=> pv[x] = pv[y]
                       /\ x.new = y.new /\ x.prev = y.prev => x = y
    /\ \A x \in A : x.time = Cardinality(T[nv[x]] \cap T[pv[x]]) /\ T[nv[x]] \cap T[pv[x]] # {}
    /\ \A v \in V : T[v] # {} => \E x \in A : nv[x] = v /\ pv[x] = v

LEMMA GreedyIs ==
  ASSUME NEW V, NEW M, NEW T, NEW A, NEW nv, NEW pv, Voiced(V, M, T, A, nv, pv),
         Distinct(T), NEW S \in SUBSET A, Greedy(A, S)
  PROVE  /\ \A x \in S : nv[x] = pv[x]
         /\ \A v \in V : T[v] # {} => \E x \in S : nv[x] = v /\ pv[x] = v
<1>1. IsFiniteSet(M) /\ T \in [V -> SUBSET M] /\ nv \in [A -> V] /\ pv \in [A -> V]
  BY DEF Voiced
<1>2. \A x, y \in A : /\ x.new = y.new <=> nv[x] = nv[y]
                      /\ x.prev = y.prev <=> pv[x] = pv[y]
                      /\ x.new = y.new /\ x.prev = y.prev => x = y
  BY DEF Voiced
<1>3. \A x \in A : x.time = Cardinality(T[nv[x]] \cap T[pv[x]]) /\ T[nv[x]] \cap T[pv[x]] # {}
  BY DEF Voiced
<1>4. \A v \in V : T[v] # {} => \E x \in A : nv[x] = v /\ pv[x] = v
  BY DEF Voiced
<1> USE <1>1, <1>2, <1>3, <1>4
<1>5. \A v, w \in V : Cardinality(T[v] \cap T[w]) \in 0..Cardinality(M) /\ IsFiniteSet(T[v])
  <2> SUFFICES ASSUME NEW v \in V, NEW w \in V
               PROVE  Cardinality(T[v] \cap T[w]) \in 0..Cardinality(M) /\ IsFiniteSet(T[v])
    OBVIOUS
  <2>1. T[v] \in SUBSET M /\ T[v] \cap T[w] \in SUBSET M
    OBVIOUS
  <2>2. IsFiniteSet(T[v]) /\ IsFiniteSet(T[v] \cap T[w]) /\ Cardinality(T[v] \cap T[w]) =< Cardinality(M)
    BY <2>1, FS_Subset
  <2>3. Cardinality(T[v] \cap T[w]) \in Nat /\ Cardinality(M) \in Nat
    BY <2>2, FS_CardinalityType
  <2>4. QED BY <2>2, <2>3
<1>6. \A x \in A : x.time \in 0..Cardinality(M)
  <2> SUFFICES ASSUME NEW x \in A PROVE x.time \in 0..Cardinality(M)
    OBVIOUS
  <2>1. nv[x] \in V /\ pv[x] \in V
    OBVIOUS
  <2>2. Cardinality(T[nv[x]] \cap T[pv[x]]) \in 0..Cardinality(M)
    BY <1>5, <2>1
  <2>3. x.time = Cardinality(T[nv[x]] \cap T[pv[x]])
    OBVIOUS
  <2>4. QED BY <2>2, <2>3
<1>7. ASSUME NEW v \in V, NEW w \in V, ~(T[v] \subseteq T[w])
      PROVE  Cardinality(T[v] \cap T[w]) < Cardinality(T[v] \cap T[v])
  <2>1. T[v] \cap T[v] = T[v] /\ T[v] \cap T[w] \in SUBSET T[v] /\ T[v] # T[v] \cap T[w]
    BY <1>7
  <2>2. Cardinality(T[v] \cap T[w]) =< Cardinality(T[v]) /\ Cardinality(T[v] \cap T[w]) # Cardinality(T[v])
    BY <1>5, <2>1, FS_Subset
  <2>3. Cardinality(T[v] \cap T[w]) \in Nat /\ Cardinality(T[v] \cap T[v]) \in Nat
    BY <1>5
  <2>4. QED BY <2>1, <2>2, <2>3
<1> DEFINE Wrong == {x \in S : nv[x] # pv[x]}
<1>8. Wrong = {}
  <2> SUFFICES ASSUME Wrong # {} PROVE FALSE
    OBVIOUS
  <2>1. PICK x \in Wrong : \A z \in Wrong : z.time =< x.time
    <3> DEFINE top == Cardinality(M)
               Left == {top - x.time : x \in Wrong}
    <3>1. \A x \in Wrong : x.time \in 0..top
      BY <1>6
    <3>2. top \in Nat
      BY FS_CardinalityType
    <3> HIDE DEF top, Wrong
    <3>3. Left \in SUBSET Nat /\ Left # {}
      BY <3>1, <3>2
    <3>4. Min(Left) \in Left /\ \A j \in Left : Min(Left) =< j
      BY <3>3, LeastNumber
    <3>5. PICK x \in Wrong : Min(Left) = top - x.time
      BY <3>4
    <3>6. \A z \in Wrong : top - x.time =< top - z.time
      BY <3>4, <3>5
    <3>7. \A z \in Wrong : z.time =< x.time
      BY <3>1, <3>2, <3>6
    <3>8. QED BY <3>7
  <2>2. x \in S /\ x \in A /\ nv[x] # pv[x] /\ nv[x] \in V /\ pv[x] \in V
    OBVIOUS
  <2>3. ASSUME NEW d \in A, nv[d] = pv[d], x.time < d.time, d.new = x.new \/ d.prev = x.prev
        PROVE  FALSE
    <3>1. d \notin S
      BY <2>2, <2>3 DEF Greedy, Stronger
    <3>2. PICK z \in S : Stronger(z, d) /\ (z.new = d.new \/ z.prev = d.prev)
      BY <3>1 DEF Greedy
    <3>3. z.time \in Int /\ d.time \in Int /\ x.time \in Int
      BY <1>6, <2>2
    <3>4. x.time < z.time
      BY <2>3, <3>2, <3>3 DEF Stronger
    <3>5. z \notin Wrong
      BY <2>1, <3>3, <3>4
    <3>6. nv[z] = pv[z]
      BY <3>5
    <3>7. z.new = d.new /\ z.prev = d.prev
      BY <2>3, <3>2, <3>6
    <3>8. QED BY <3>1, <3>7
  <2>4. T[nv[x]] # T[pv[x]] /\ T[nv[x]] # {} /\ T[pv[x]] # {}
    <3>1. T[nv[x]] \cap T[pv[x]] # {} /\ DOMAIN T = V
      BY <2>2
    <3>2. T[nv[x]] # {} /\ T[pv[x]] # {}
      BY <3>1
    <3>3. QED BY <2>2, <3>1, <3>2 DEF Distinct
  <2>5. PICK d \in A : nv[d] = nv[x] /\ pv[d] = nv[x]
    BY <2>2, <2>4
  <2>6. PICK e \in A : nv[e] = pv[x] /\ pv[e] = pv[x]
    BY <2>2, <2>4
  <2>7. d.new = x.new /\ e.prev = x.prev
    BY <2>2, <2>5, <2>6
  <2>8. CASE ~(T[nv[x]] \subseteq T[pv[x]])
    <3>1. /\ x.time = Cardinality(T[nv[x]] \cap T[pv[x]])
          /\ d.time = Cardinality(T[nv[x]] \cap T[nv[x]])
      BY <2>2, <2>5
    <3>2. Cardinality(T[nv[x]] \cap T[pv[x]]) < Cardinality(T[nv[x]] \cap T[nv[x]])
      BY <1>7, <2>2, <2>8
    <3>3. QED BY <2>3, <2>5, <2>7, <3>1, <3>2
  <2>9. CASE ~(T[pv[x]] \subseteq T[nv[x]])
    <3>1. /\ x.time = Cardinality(T[pv[x]] \cap T[nv[x]])
          /\ e.time = Cardinality(T[pv[x]] \cap T[pv[x]])
      <4>1. T[nv[x]] \cap T[pv[x]] = T[pv[x]] \cap T[nv[x]]
        OBVIOUS
      <4>2. QED BY <2>2, <2>6, <4>1
    <3>2. Cardinality(T[pv[x]] \cap T[nv[x]]) < Cardinality(T[pv[x]] \cap T[pv[x]])
      BY <1>7, <2>2, <2>9
    <3>3. QED BY <2>3, <2>6, <2>7, <3>1, <3>2
  <2>10. T[nv[x]] \subseteq T[pv[x]] /\ T[pv[x]] \subseteq T[nv[x]]
    BY <2>8, <2>9
  <2>11. T[nv[x]] = T[pv[x]]
    BY <2>10
  <2>12. QED BY <2>4, <2>11
<1>9. ASSUME NEW v \in V, T[v] # {} PROVE \E x \in S : nv[x] = v /\ pv[x] = v
  <2>1. PICK d \in A : nv[d] = v /\ pv[d] = v
    BY <1>9
  <2>2. d \in S
    <3> SUFFICES ASSUME d \notin S PROVE FALSE
      OBVIOUS
    <3>1. PICK z \in S : z.new = d.new \/ z.prev = d.prev
      BY DEF Greedy
    <3>2. nv[z] = pv[z]
      BY <1>8
    <3>3. z.new = d.new /\ z.prev = d.prev
      BY <2>1, <3>1, <3>2
    <3>4. QED BY <3>3
  <2>3. QED BY <2>1, <2>2
<1>10. QED BY <1>8, <1>9

(* Where the window at hand overlaps what was read, who speaks there, and the
   turns that reach into it *)
Seam == offset..(offset + ChunkOverlap - 1)
InSeam == [v \in Voices |-> speech[v] \cap Seam]
Recent == {i \in DOMAIN turns : turns[i].to > offset}

AtSeam ==
    /\ SpeechOK /\ TurnsOK /\ TurnsSay
    /\ {duration, offset, End} \subseteq Nat
    /\ Reached = offset + ChunkOverlap /\ Reached =< End /\ End =< duration

WindowIs(new) ==
    /\ IsList(new)
    /\ \A i \in DOMAIN new : IsTurn(new[i]) /\ offset =< new[i].from /\ new[i].to =< End
    /\ \A v \in Voices : \A x \in speech[v] : offset =< x /\ x < End => Says(new, v, x)
    /\ LabelsFit(new, DOMAIN new) /\ SaidOnce(new, DOMAIN new)
    /\ \A i \in DOMAIN new : new[i].speaker.kind = "speaker"

(* The moments two labels are heard together are those at which their voices
   speak in the overlap, each of them once. *)
LEMMA TogetherIs ==
  ASSUME AtSeam, NEW new, WindowIs(new)
  PROVE  /\ \A m \in Together(turns, new, offset) :
               /\ m[1] \in DOMAIN new /\ m[2] \in Recent /\ m = <<m[1], m[2], m[3]>>
               /\ m[3] \in InSeam[new[m[1]].voice] \cap InSeam[turns[m[2]].voice]
               /\ m[3] \in Ticks(new[m[1]]) \cap Ticks(turns[m[2]])
         /\ \A v, w \in Voices : \A t \in InSeam[v] \cap InSeam[w] :
               \E m \in Together(turns, new, offset) :
                  new[m[1]].voice = v /\ turns[m[2]].voice = w /\ m[3] = t
<1>1. /\ {duration, offset, End, ChunkOverlap} \subseteq Nat
      /\ Reached = offset + ChunkOverlap /\ Reached =< End /\ End =< duration
  BY BoundsHold DEF AtSeam, Bounds
<1>2. ASSUME NEW m \in Together(turns, new, offset)
      PROVE  /\ m[1] \in DOMAIN new /\ m[2] \in Recent /\ m = <<m[1], m[2], m[3]>>
             /\ m[3] \in InSeam[new[m[1]].voice] \cap InSeam[turns[m[2]].voice]
             /\ m[3] \in Ticks(new[m[1]]) \cap Ticks(turns[m[2]])
  <2>1. /\ m[1] \in DOMAIN new /\ m[2] \in DOMAIN turns /\ m = <<m[1], m[2], m[3]>>
        /\ turns[m[2]].to > offset /\ m[3] \in Ticks(new[m[1]]) \cap Ticks(turns[m[2]])
    BY DEF Together
  <2>2. /\ IsTurn(new[m[1]]) /\ offset =< new[m[1]].from
        /\ IsTurn(turns[m[2]]) /\ turns[m[2]].to =< Reached
    BY <2>1 DEF WindowIs, AtSeam, TurnsOK
  <2>3. m[3] \in speech[new[m[1]].voice] /\ m[3] \in speech[turns[m[2]].voice]
    BY <2>1, <2>2 DEF IsTurn, Ticks
  <2>4. m[3] \in Seam
    BY <1>1, <2>1, <2>2 DEF IsTurn, Ticks, Seam
  <2>5. new[m[1]].voice \in Voices /\ turns[m[2]].voice \in Voices
    BY <2>2 DEF IsTurn
  <2>6. QED BY <2>1, <2>3, <2>4, <2>5 DEF InSeam, Recent
<1>3. ASSUME NEW v \in Voices, NEW w \in Voices, NEW t \in InSeam[v] \cap InSeam[w]
      PROVE  \E m \in Together(turns, new, offset) :
                new[m[1]].voice = v /\ turns[m[2]].voice = w /\ m[3] = t
  <2>1. /\ t \in speech[v] /\ t \in speech[w] /\ t \in Seam
    BY DEF InSeam
  <2>2. t \in Nat /\ offset =< t /\ t < Reached /\ t < End /\ t \in 0..duration
    BY <1>1, <2>1 DEF Seam
  <2>3. Says(new, v, t) /\ Says(turns, w, t)
    BY <2>1, <2>2 DEF WindowIs, AtSeam, TurnsSay
  <2>4. PICK i \in DOMAIN new : new[i].voice = v /\ new[i].from =< t /\ t < new[i].to
    BY <2>3 DEF Says
  <2>5. PICK j \in DOMAIN turns : turns[j].voice = w /\ turns[j].from =< t /\ t < turns[j].to
    BY <2>3 DEF Says
  <2>6. IsTurn(new[i]) /\ IsTurn(turns[j])
    BY DEF WindowIs, AtSeam, TurnsOK
  <2>7. t \in Ticks(new[i]) \cap Ticks(turns[j])
    BY <2>2, <2>4, <2>5, <2>6 DEF IsTurn, Ticks
  <2>8. new[i].from < offset + ChunkOverlap /\ turns[j].to > offset
    BY <1>1, <2>2, <2>4, <2>5, <2>6 DEF IsTurn
  <2> DEFINE m == <<i, j, t>>
  <2>9. m \in (DOMAIN new) \X (DOMAIN turns) \X (0..duration) /\ m[1] = i /\ m[2] = j /\ m[3] = t
    BY <2>2
  <2> HIDE DEF m
  <2>10. m \in Together(turns, new, offset)
    BY <2>7, <2>8, <2>9 DEF Together
  <2>11. QED BY <2>4, <2>5, <2>9, <2>10
<1>4. QED BY <1>2, <1>3

LEMMA AgreementIs ==
  ASSUME AtSeam, NEW new, WindowIs(new), LabelsFit(turns, Recent), SaidOnce(turns, Recent)
  PROVE  LET A == Agreement(turns, new, offset) IN
         /\ \A x \in A : \E i \in DOMAIN new, j \in Recent :
               /\ x.new = new[i].speaker /\ x.prev = turns[j].speaker
               /\ x.time = Cardinality(InSeam[new[i].voice] \cap InSeam[turns[j].voice])
               /\ InSeam[new[i].voice] \cap InSeam[turns[j].voice] # {}
         /\ \A x, y \in A : x.new = y.new /\ x.prev = y.prev => x = y
         /\ \A v, w \in Voices : InSeam[v] \cap InSeam[w] # {} =>
               \E x \in A, i \in DOMAIN new, j \in Recent :
                  /\ new[i].voice = v /\ x.new = new[i].speaker
                  /\ turns[j].voice = w /\ x.prev = turns[j].speaker
<1> DEFINE All == Together(turns, new, offset)
           Pair(m) == <<new[m[1]].speaker, turns[m[2]].speaker>>
           Of(p) == {m \in All : Pair(m) = p}
           Entry(p) == [new |-> p[1], prev |-> p[2], time |-> Cardinality(Of(p)),
                        first |-> Min({m[1] * (Len(turns) + 1) + m[2] : m \in Of(p)})]
           A == Agreement(turns, new, offset)
<1>1. A = {Entry(p) : p \in {Pair(m) : m \in All}}
  BY DEF Agreement
<1>2. /\ \A m \in All : /\ m[1] \in DOMAIN new /\ m[2] \in Recent /\ m = <<m[1], m[2], m[3]>>
                        /\ m[3] \in InSeam[new[m[1]].voice] \cap InSeam[turns[m[2]].voice]
                        /\ m[3] \in Ticks(new[m[1]]) \cap Ticks(turns[m[2]])
      /\ \A v, w \in Voices : \A t \in InSeam[v] \cap InSeam[w] :
            \E m \in All : new[m[1]].voice = v /\ turns[m[2]].voice = w /\ m[3] = t
  BY TogetherIs
<1> HIDE DEF All, A
<1>3. \A p : Entry(p).new = p[1] /\ Entry(p).prev = p[2] /\ Entry(p).time = Cardinality(Of(p))
  OBVIOUS
<1>4. ASSUME NEW m \in All
      PROVE  Cardinality(Of(Pair(m))) = Cardinality(InSeam[new[m[1]].voice] \cap InSeam[turns[m[2]].voice])
  <2> DEFINE v == new[m[1]].voice
             w == turns[m[2]].voice
             Both == InSeam[v] \cap InSeam[w]
             O == Of(Pair(m))
  <2>1. v \in Voices /\ w \in Voices /\ m[1] \in DOMAIN new /\ m[2] \in Recent
    BY <1>2 DEF WindowIs, AtSeam, TurnsOK, IsTurn, Recent
  <2>2. \A n \in All :
           n \in O <=> new[n[1]].speaker = new[m[1]].speaker /\ turns[n[2]].speaker = turns[m[2]].speaker
    OBVIOUS
  <2>3. \A n \in All : n \in O <=> new[n[1]].voice = v /\ turns[n[2]].voice = w
    BY <1>2, <2>1, <2>2 DEF LabelsFit, WindowIs
  <2>4. O \subseteq All
    OBVIOUS
  <2> DEFINE f == [n \in O |-> n[3]]
  <2> HIDE DEF O, v, w
  <2>5. \A n \in O : n[3] \in Both
    BY <1>2, <2>3, <2>4
  <2>6. ASSUME NEW n \in O, NEW o \in O, n[3] = o[3] PROVE n = o
    <3>1. /\ n[1] \in DOMAIN new /\ o[1] \in DOMAIN new /\ n[2] \in Recent /\ o[2] \in Recent
          /\ n = <<n[1], n[2], n[3]>> /\ o = <<o[1], o[2], o[3]>>
          /\ Ticks(new[n[1]]) \cap Ticks(new[o[1]]) # {}
          /\ Ticks(turns[n[2]]) \cap Ticks(turns[o[2]]) # {}
      BY <1>2, <2>4, <2>6
    <3>2. new[n[1]].voice = new[o[1]].voice /\ turns[n[2]].voice = turns[o[2]].voice
      BY <2>3, <2>4
    <3>3. n[1] = o[1] /\ n[2] = o[2]
      BY <3>1, <3>2 DEF SaidOnce, WindowIs
    <3>4. QED BY <2>6, <3>1, <3>3
  <2>7. \A t \in Both : \E n \in O : n[3] = t
    BY <1>2, <2>1, <2>3
  <2>8. f \in Bijection(O, Both)
    <3> HIDE DEF Both
    <3>1. f \in [O -> Both] /\ \A n \in O : f[n] = n[3]
      BY <2>5
    <3>2. f \in Injection(O, Both)
      BY <2>6, <3>1 DEF Injection, IsInjective
    <3>3. f \in Surjection(O, Both)
      BY <2>7, <3>1 DEF Surjection
    <3>4. QED BY <3>2, <3>3 DEF Bijection
  <2>9. IsFiniteSet(Both)
    <3>1. Seam = offset..(offset + ChunkOverlap - 1) /\ {offset, ChunkOverlap} \subseteq Nat
      BY BoundsHold DEF Seam, AtSeam, Bounds
    <3>2. offset \in Int /\ offset + ChunkOverlap - 1 \in Int
      BY <3>1
    <3>3. IsFiniteSet(Seam)
      BY <3>1, <3>2, FS_Interval
    <3>4. Both \in SUBSET Seam
      BY <2>1 DEF InSeam
    <3>5. QED BY <3>3, <3>4, FS_Subset
  <2>10. Cardinality(O) = Cardinality(Both)
    <3> HIDE DEF Both, f
    <3>1. f \in Injection(O, Both) /\ f \in Surjection(O, Both)
      BY <2>8 DEF Bijection
    <3>2. IsFiniteSet(O)
      BY <2>9, <3>1, FS_Injection
    <3>3. QED BY <3>1, <3>2, FS_Surjection
  <2>11. QED BY <2>10 DEF O, v, w
<1>5. ASSUME NEW x \in A
      PROVE  \E i \in DOMAIN new, j \in Recent :
               /\ x.new = new[i].speaker /\ x.prev = turns[j].speaker
               /\ x.time = Cardinality(InSeam[new[i].voice] \cap InSeam[turns[j].voice])
               /\ InSeam[new[i].voice] \cap InSeam[turns[j].voice] # {}
  <2>1. PICK m \in All : x = Entry(Pair(m))
    BY <1>1
  <2>2. x.new = new[m[1]].speaker /\ x.prev = turns[m[2]].speaker /\ x.time = Cardinality(Of(Pair(m)))
    BY <1>3, <2>1
  <2> HIDE DEF Of
  <2>3. /\ m[1] \in DOMAIN new /\ m[2] \in Recent
        /\ x.time = Cardinality(InSeam[new[m[1]].voice] \cap InSeam[turns[m[2]].voice])
        /\ InSeam[new[m[1]].voice] \cap InSeam[turns[m[2]].voice] # {}
    BY <1>2, <1>4, <2>2
  <2>4. QED BY <2>2, <2>3
<1>6. ASSUME NEW x \in A, NEW y \in A, x.new = y.new, x.prev = y.prev PROVE x = y
  <2>1. PICK m \in All : x = Entry(Pair(m))
    <3> HIDE DEF Entry, Pair
    <3>1. QED BY <1>1
  <2>2. PICK n \in All : y = Entry(Pair(n))
    <3> HIDE DEF Entry, Pair
    <3>1. QED BY <1>1
  <2>3. Pair(m)[1] = Pair(n)[1] /\ Pair(m)[2] = Pair(n)[2]
    BY <1>3, <1>6, <2>1, <2>2
  <2>4. Pair(m) = Pair(n)
    BY <2>3
  <2> HIDE DEF Entry, Pair
  <2>5. QED BY <2>1, <2>2, <2>4
<1>7. ASSUME NEW v \in Voices, NEW w \in Voices, InSeam[v] \cap InSeam[w] # {}
      PROVE  \E x \in A, i \in DOMAIN new, j \in Recent :
                  /\ new[i].voice = v /\ x.new = new[i].speaker
                  /\ turns[j].voice = w /\ x.prev = turns[j].speaker
  <2>1. PICK m \in All : new[m[1]].voice = v /\ turns[m[2]].voice = w
    BY <1>2, <1>7
  <2> DEFINE x == Entry(Pair(m))
  <2>2. x \in A
    BY <1>1
  <2>3. x.new = new[m[1]].speaker /\ x.prev = turns[m[2]].speaker
    BY <1>3
  <2> HIDE DEF x
  <2>4. m[1] \in DOMAIN new /\ m[2] \in Recent
    BY <1>2
  <2>5. QED BY <2>1, <2>2, <2>3, <2>4
<1>8. QED BY <1>5, <1>6, <1>7 DEF A

(* So a label of the window is matched with one of the same voice, and every
   voice that speaks in the overlap has its labels matched. *)
LEMMA StitchIs ==
  ASSUME AtSeam, NEW new, WindowIs(new), LabelsFit(turns, Recent), SaidOnce(turns, Recent),
         Distinct(InSeam), NEW mapping \in Stitch(turns, new, offset)
  PROVE  /\ \A x \in mapping : \E i \in DOMAIN new, j \in Recent :
               /\ x.new = new[i].speaker /\ x.prev = turns[j].speaker
               /\ new[i].voice = turns[j].voice
         /\ \A i \in DOMAIN new : InSeam[new[i].voice] # {} => \E x \in mapping : x.new = new[i].speaker
<1> DEFINE A == Agreement(turns, new, offset)
           NewVoice(x) == CHOOSE v \in Voices : \E i \in DOMAIN new : new[i].voice = v /\ new[i].speaker = x.new
           PrevVoice(x) == CHOOSE v \in Voices : \E j \in Recent : turns[j].voice = v /\ turns[j].speaker = x.prev
           nv == [x \in A |-> NewVoice(x)]
           pv == [x \in A |-> PrevVoice(x)]
<1>1. mapping \in SUBSET A /\ Greedy(A, mapping)
  BY DEF Stitch, Greedy
<1>2. /\ \A x \in A : \E i \in DOMAIN new, j \in Recent :
               /\ x.new = new[i].speaker /\ x.prev = turns[j].speaker
               /\ x.time = Cardinality(InSeam[new[i].voice] \cap InSeam[turns[j].voice])
               /\ InSeam[new[i].voice] \cap InSeam[turns[j].voice] # {}
      /\ \A x, y \in A : x.new = y.new /\ x.prev = y.prev => x = y
      /\ \A v, w \in Voices : InSeam[v] \cap InSeam[w] # {} =>
               \E x \in A, i \in DOMAIN new, j \in Recent :
                  /\ new[i].voice = v /\ x.new = new[i].speaker
                  /\ turns[j].voice = w /\ x.prev = turns[j].speaker
  <2>1. \A x \in A : \E i \in DOMAIN new, j \in Recent :
               /\ x.new = new[i].speaker /\ x.prev = turns[j].speaker
               /\ x.time = Cardinality(InSeam[new[i].voice] \cap InSeam[turns[j].voice])
               /\ InSeam[new[i].voice] \cap InSeam[turns[j].voice] # {}
    BY AgreementIs
  <2>2. \A x, y \in A : x.new = y.new /\ x.prev = y.prev => x = y
    BY AgreementIs
  <2>3. \A v, w \in Voices : InSeam[v] \cap InSeam[w] # {} =>
               \E x \in A, i \in DOMAIN new, j \in Recent :
                  /\ new[i].voice = v /\ x.new = new[i].speaker
                  /\ turns[j].voice = w /\ x.prev = turns[j].speaker
    BY AgreementIs
  <2> HIDE DEF A
  <2>4. QED BY <2>1, <2>2, <2>3
<1> HIDE DEF A
<1>3. /\ \A i \in DOMAIN new : new[i].voice \in Voices
      /\ \A j \in Recent : turns[j].voice \in Voices
      /\ \A i, k \in DOMAIN new : new[i].speaker = new[k].speaker <=> new[i].voice = new[k].voice
      /\ \A i, k \in Recent : turns[i].speaker = turns[k].speaker <=> turns[i].voice = turns[k].voice
  BY DEF WindowIs, AtSeam, TurnsOK, IsTurn, Recent, LabelsFit
<1>4. ASSUME NEW x \in A, NEW i \in DOMAIN new, x.new = new[i].speaker PROVE NewVoice(x) = new[i].voice
  <2>1. \E v \in Voices : \E k \in DOMAIN new : new[k].voice = v /\ new[k].speaker = x.new
    BY <1>3, <1>4
  <2>2. PICK k \in DOMAIN new : new[k].voice = NewVoice(x) /\ new[k].speaker = x.new
    BY <2>1
  <2> HIDE DEF NewVoice
  <2>3. QED BY <1>3, <1>4, <2>2
<1>5. ASSUME NEW x \in A, NEW j \in Recent, x.prev = turns[j].speaker PROVE PrevVoice(x) = turns[j].voice
  <2>1. \E v \in Voices : \E k \in Recent : turns[k].voice = v /\ turns[k].speaker = x.prev
    BY <1>3, <1>5
  <2>2. PICK k \in Recent : turns[k].voice = PrevVoice(x) /\ turns[k].speaker = x.prev
    BY <2>1
  <2> HIDE DEF PrevVoice
  <2>3. QED BY <1>3, <1>5, <2>2
<1> HIDE DEF NewVoice, PrevVoice
<1>6. ASSUME NEW x \in A
      PROVE  \E i \in DOMAIN new, j \in Recent :
                /\ x.new = new[i].speaker /\ nv[x] = new[i].voice
                /\ x.prev = turns[j].speaker /\ pv[x] = turns[j].voice
                /\ x.time = Cardinality(InSeam[nv[x]] \cap InSeam[pv[x]])
                /\ InSeam[nv[x]] \cap InSeam[pv[x]] # {}
  <2>1. PICK i \in DOMAIN new, j \in Recent :
                /\ x.new = new[i].speaker /\ x.prev = turns[j].speaker
                /\ x.time = Cardinality(InSeam[new[i].voice] \cap InSeam[turns[j].voice])
                /\ InSeam[new[i].voice] \cap InSeam[turns[j].voice] # {}
    BY <1>2
  <2>2. nv[x] = new[i].voice /\ pv[x] = turns[j].voice
    BY <1>4, <1>5, <2>1
  <2> HIDE DEF nv, pv
  <2>3. QED BY <2>1, <2>2
<1>7. nv \in [A -> Voices] /\ pv \in [A -> Voices]
  <2>1. \A x \in A : nv[x] \in Voices /\ pv[x] \in Voices
    <3> HIDE DEF nv, pv
    <3>1. QED BY <1>3, <1>6
  <2>2. QED BY <2>1
<1>8. ASSUME NEW v \in Voices, InSeam[v] # {} PROVE \E x \in A : nv[x] = v /\ pv[x] = v
  <2>1. InSeam[v] \cap InSeam[v] # {}
    BY <1>8
  <2>2. PICK x \in A, i \in DOMAIN new, j \in Recent :
                  /\ new[i].voice = v /\ x.new = new[i].speaker
                  /\ turns[j].voice = v /\ x.prev = turns[j].speaker
    BY <1>2, <2>1
  <2>3. nv[x] = v /\ pv[x] = v
    BY <1>4, <1>5, <2>2
  <2> HIDE DEF nv, pv
  <2>4. QED BY <2>3
<1> HIDE DEF nv, pv
<1>9. ASSUME NEW x \in A, NEW y \in A
      PROVE  /\ x.new = y.new <=> nv[x] = nv[y]
             /\ x.prev = y.prev <=> pv[x] = pv[y]
             /\ x.new = y.new /\ x.prev = y.prev => x = y
  <2>1. PICK i \in DOMAIN new, j \in Recent :
           x.new = new[i].speaker /\ nv[x] = new[i].voice /\ x.prev = turns[j].speaker /\ pv[x] = turns[j].voice
    BY <1>6
  <2>2. PICK k \in DOMAIN new, l \in Recent :
           y.new = new[k].speaker /\ nv[y] = new[k].voice /\ y.prev = turns[l].speaker /\ pv[y] = turns[l].voice
    BY <1>6
  <2>3. x.new = y.new /\ x.prev = y.prev => x = y
    BY <1>2
  <2>4. x.new = y.new <=> nv[x] = nv[y]
    BY <1>3, <2>1, <2>2
  <2>5. x.prev = y.prev <=> pv[x] = pv[y]
    BY <1>3, <2>1, <2>2
  <2>6. QED BY <2>3, <2>4, <2>5
<1>10. /\ Seam = offset..(offset + ChunkOverlap - 1) /\ IsFiniteSet(Seam)
       /\ InSeam \in [Voices -> SUBSET Seam]
  <2>1. Seam = offset..(offset + ChunkOverlap - 1) /\ {offset, ChunkOverlap} \subseteq Nat
    BY BoundsHold DEF Seam, AtSeam, Bounds
  <2>2. offset \in Int /\ offset + ChunkOverlap - 1 \in Int
    BY <2>1
  <2>3. IsFiniteSet(Seam)
    BY <2>1, <2>2, FS_Interval
  <2>4. QED BY <2>1, <2>3 DEF InSeam
<1>11. /\ \A x \in mapping : nv[x] = pv[x]
       /\ \A v \in Voices : InSeam[v] # {} => \E x \in mapping : nv[x] = v /\ pv[x] = v
  <2>1. \A x \in A : /\ x.time = Cardinality(InSeam[nv[x]] \cap InSeam[pv[x]])
                     /\ InSeam[nv[x]] \cap InSeam[pv[x]] # {}
    BY <1>6
  <2>2. Voiced(Voices, Seam, InSeam, A, nv, pv)
    <3>1. \A x, y \in A : /\ x.new = y.new <=> nv[x] = nv[y]
                          /\ x.prev = y.prev <=> pv[x] = pv[y]
                          /\ x.new = y.new /\ x.prev = y.prev => x = y
      BY <1>9
    <3>2. \A v \in Voices : InSeam[v] # {} => \E x \in A : nv[x] = v /\ pv[x] = v
      BY <1>8
    <3>3. /\ IsFiniteSet(Seam) /\ InSeam \in [Voices -> SUBSET Seam]
          /\ nv \in [A -> Voices] /\ pv \in [A -> Voices]
      BY <1>7, <1>10
    <3>4. QED BY <2>1, <3>1, <3>2, <3>3 DEF Voiced
  <2>3. QED BY <1>1, <2>2, GreedyIs
<1>12. ASSUME NEW x \in mapping
       PROVE  \E i \in DOMAIN new, j \in Recent :
               /\ x.new = new[i].speaker /\ x.prev = turns[j].speaker
               /\ new[i].voice = turns[j].voice
  <2>1. x \in A
    BY <1>1
  <2>2. PICK i \in DOMAIN new, j \in Recent :
           x.new = new[i].speaker /\ nv[x] = new[i].voice /\ x.prev = turns[j].speaker /\ pv[x] = turns[j].voice
    BY <1>6, <2>1
  <2>3. nv[x] = pv[x]
    BY <1>11
  <2>4. QED BY <2>2, <2>3
<1>13. ASSUME NEW i \in DOMAIN new, InSeam[new[i].voice] # {}
       PROVE  \E x \in mapping : x.new = new[i].speaker
  <2>1. PICK x \in mapping : nv[x] = new[i].voice
    BY <1>3, <1>11, <1>13
  <2>2. x \in A
    BY <1>1
  <2>3. PICK k \in DOMAIN new : x.new = new[k].speaker /\ nv[x] = new[k].voice
    BY <1>6, <2>2
  <2>4. QED BY <1>3, <2>1, <2>3
<1>14. QED BY <1>12, <1>13

(* The labels of a window after _stitch: a matched one gives way to that it is
   matched with, and each of the others to a number of its own that is not in
   use yet. *)
LEMMA LabelsAre ==
  ASSUME NEW new, IsList(new), \A i \in DOMAIN new : IsTurn(new[i]), unknown \in Nat, NEW mapping
  PROVE  LET old == Relabel(mapping, new)
             N == Newcomers(mapping, new)
         IN /\ Cardinality(N) \in Nat
            /\ \A i \in DOMAIN new :
                  /\ new[i].speaker \in N =>
                        \E n \in 1..Cardinality(N) : old[i].speaker = NewSpeaker(unknown + n)
                  /\ new[i].speaker \notin N =>
                        \E x \in mapping : x.new = new[i].speaker /\ old[i].speaker = x.prev
            /\ \A i, j \in DOMAIN new :
                  /\ new[i].speaker = new[j].speaker => old[i].speaker = old[j].speaker
                  /\ new[i].speaker \in N /\ new[j].speaker \in N /\ old[i].speaker = old[j].speaker =>
                        new[i].speaker = new[j].speaker
<1> DEFINE old == Relabel(mapping, new)
           N == Newcomers(mapping, new)
           Met(s) == Min({i \in DOMAIN new : new[i].speaker = s})
           Upto(s) == {r \in N : Met(r) =< Met(s)}
           Number(s) == Cardinality(Upto(s))
           Label(s) == IF s \in N THEN NewSpeaker(unknown + Number(s))
                       ELSE (CHOOSE x \in mapping : x.new = s).prev
<1>1. old = [i \in DOMAIN new |-> [new[i] EXCEPT !.speaker = Label(new[i].speaker)]]
  BY DEF Relabel
<1>2. DOMAIN new = 1..Len(new) /\ Len(new) \in Nat
  BY DEF IsList
<1>3. N = {new[i].speaker : i \in DOMAIN new} \ {x.new : x \in mapping}
  BY DEF Newcomers
<1> HIDE DEF old, N
<1>4. IsFiniteSet(N) /\ Cardinality(N) \in Nat
  <2> DEFINE f == [i \in DOMAIN new |-> new[i].speaker]
             All == {new[i].speaker : i \in DOMAIN new}
  <2>1. IsFiniteSet(DOMAIN new)
    BY <1>2, FS_Interval
  <2>2. f \in Surjection(DOMAIN new, All)
    BY DEF Surjection
  <2>3. IsFiniteSet(All)
    BY <2>1, <2>2, FS_Surjection
  <2>4. N \in SUBSET All
    BY <1>3
  <2>5. QED BY <2>3, <2>4, FS_Subset, FS_CardinalityType
<1>5. ASSUME NEW s \in N PROVE Met(s) \in DOMAIN new /\ new[Met(s)].speaker = s /\ Met(s) \in Nat
  <2> DEFINE I == {i \in DOMAIN new : new[i].speaker = s}
  <2>1. I \in SUBSET Nat /\ I # {}
    BY <1>2, <1>3
  <2>2. Min(I) \in I
    BY <2>1, LeastNumber
  <2>3. QED BY <2>1, <2>2
<1> HIDE DEF Met
<1>6. ASSUME NEW s \in N PROVE IsFiniteSet(Upto(s)) /\ Number(s) \in 1..Cardinality(N)
  <2>1. Upto(s) \in SUBSET N /\ s \in Upto(s)
    BY <1>5
  <2>2. IsFiniteSet(Upto(s)) /\ Cardinality(Upto(s)) =< Cardinality(N)
    BY <1>4, <2>1, FS_Subset
  <2>3. Cardinality(Upto(s)) \in Nat /\ Cardinality(Upto(s)) # 0
    BY <2>1, <2>2, FS_CardinalityType, FS_EmptySet
  <2>4. QED BY <1>4, <2>2, <2>3
<1>7. ASSUME NEW r \in N, NEW s \in N, Met(r) < Met(s) PROVE Number(r) < Number(s)
  <2>1. Met(r) \in Nat /\ Met(s) \in Nat /\ \A q \in N : Met(q) \in Nat
    BY <1>5
  <2>2. Upto(r) \in SUBSET Upto(s) /\ s \notin Upto(r) /\ s \in Upto(s)
    BY <1>7, <2>1
  <2>3. Cardinality(Upto(r)) =< Cardinality(Upto(s)) /\ Cardinality(Upto(r)) # Cardinality(Upto(s))
    <3> HIDE DEF Upto
    <3>1. Upto(r) # Upto(s)
      BY <2>2
    <3>2. QED BY <1>6, <2>2, <3>1, FS_Subset
  <2>4. Number(r) \in Nat /\ Number(s) \in Nat
    BY <1>4, <1>6
  <2>5. QED BY <2>3, <2>4
<1>8. ASSUME NEW r \in N, NEW s \in N, Number(r) = Number(s) PROVE r = s
  <2>1. Number(r) \in Nat /\ Number(s) \in Nat /\ Met(r) \in Nat /\ Met(s) \in Nat
    BY <1>4, <1>5, <1>6
  <2> HIDE DEF Number
  <2>2. ~(Met(r) < Met(s)) /\ ~(Met(s) < Met(r))
    BY <1>7, <1>8, <2>1
  <2>3. Met(r) = Met(s)
    BY <2>1, <2>2
  <2>4. QED BY <1>5, <2>3
<1> HIDE DEF Number
<1>9. ASSUME NEW i \in DOMAIN new PROVE old[i].speaker = Label(new[i].speaker)
  <2> HIDE DEF Label
  <2>1. old[i] = [new[i] EXCEPT !.speaker = Label(new[i].speaker)]
    BY <1>1
  <2>2. QED BY <2>1 DEF IsTurn
<1>10. ASSUME NEW i \in DOMAIN new, new[i].speaker \in N
       PROVE  \E n \in 1..Cardinality(N) : old[i].speaker = NewSpeaker(unknown + n)
  BY <1>6, <1>9, <1>10
<1>11. ASSUME NEW i \in DOMAIN new, new[i].speaker \notin N
       PROVE  \E x \in mapping : x.new = new[i].speaker /\ old[i].speaker = x.prev
  <2>1. \E x \in mapping : x.new = new[i].speaker
    BY <1>3, <1>11
  <2> DEFINE x == CHOOSE x \in mapping : x.new = new[i].speaker
  <2>2. x \in mapping /\ x.new = new[i].speaker
    BY <2>1
  <2>3. old[i].speaker = x.prev
    BY <1>9, <1>11
  <2> HIDE DEF x
  <2>4. QED BY <2>2, <2>3
<1>12. ASSUME NEW i \in DOMAIN new, NEW j \in DOMAIN new, new[i].speaker = new[j].speaker
       PROVE  old[i].speaker = old[j].speaker
  <2> HIDE DEF Label
  <2>1. QED BY <1>9, <1>12
<1>13. ASSUME NEW i \in DOMAIN new, NEW j \in DOMAIN new, new[i].speaker \in N, new[j].speaker \in N,
              old[i].speaker = old[j].speaker
       PROVE  new[i].speaker = new[j].speaker
  <2>1. /\ old[i].speaker = NewSpeaker(unknown + Number(new[i].speaker))
        /\ old[j].speaker = NewSpeaker(unknown + Number(new[j].speaker))
    BY <1>9, <1>13
  <2>2. \A s \in N : Number(s) \in Nat
    <3> SUFFICES ASSUME NEW s \in N PROVE Number(s) \in Nat
      OBVIOUS
    <3>1. Number(s) \in 1..Cardinality(N)
      BY <1>6
    <3>2. QED BY <1>4, <3>1
  <2>3. Number(new[i].speaker) \in Nat /\ Number(new[j].speaker) \in Nat
    BY <1>13, <2>2
  <2> DEFINE m == unknown + Number(new[i].speaker)
             n == unknown + Number(new[j].speaker)
  <2>4. NewSpeaker(m) = NewSpeaker(n)
    BY <1>13, <2>1
  <2> HIDE DEF m, n
  <2>5. m = n
    <3>1. NewSpeaker(m).no = m /\ NewSpeaker(n).no = n
      BY DEF NewSpeaker
    <3>2. QED BY <2>4, <3>1
  <2> USE DEF m, n
  <2>6. Number(new[i].speaker) = Number(new[j].speaker)
    BY <2>5, <2>3
  <2>7. QED BY <1>8, <1>13, <2>6
<1>14. QED BY <1>4, <1>10, <1>11, <1>12, <1>13 DEF old, N

Numbered ==
    /\ unknown \in Nat
    /\ \A i \in DOMAIN turns : turns[i].speaker.kind = "speaker_x" => turns[i].speaker.no \in 1..unknown
OneVoice == \A i, j \in DOMAIN turns : turns[i].speaker = turns[j].speaker => turns[i].voice = turns[j].voice
Steady ==
    \A i, j \in DOMAIN turns :
        turns[i].voice = turns[j].voice /\ (\A s \in Seams : speech[turns[i].voice] \cap s # {}) =>
            turns[i].speaker = turns[j].speaker
RecentLabels == \A i, j \in Recent : turns[i].voice = turns[j].voice => turns[i].speaker = turns[j].speaker

(* The labels are told apart by number, two of one voice only far from each
   other, unless the overlaps cannot tell voices apart. *)
LabelsInv ==
    task = "turns" =>
        /\ Numbered
        /\ loop # "done" => RecentLabels /\ SaidOnce(turns, Recent)
        /\ ~Indistinct => OneVoice /\ Steady

(* A label of the window that is one of the recording is so for the same voice,
   and a voice that speaks in the overlap keeps its label. *)
LEMMA LabelsCarry ==
  ASSUME AtSeam, NEW new, WindowIs(new), Numbered, OneVoice, RecentLabels, SaidOnce(turns, Recent),
         Distinct(InSeam), NEW mapping \in Stitch(turns, new, offset)
  PROVE  LET old == Relabel(mapping, new) IN
         /\ \A a \in DOMAIN new, j \in DOMAIN turns :
               old[a].speaker = turns[j].speaker => new[a].voice = turns[j].voice
         /\ \A a, b \in DOMAIN new : old[a].speaker = old[b].speaker <=> new[a].voice = new[b].voice
         /\ \A a \in DOMAIN new : InSeam[new[a].voice] # {} =>
               \E j \in DOMAIN turns : turns[j].voice = new[a].voice /\ old[a].speaker = turns[j].speaker
<1> DEFINE old == Relabel(mapping, new)
           N == Newcomers(mapping, new)
<1>1. LabelsFit(turns, Recent)
  BY DEF LabelsFit, Recent, OneVoice, RecentLabels
<1>2. /\ \A x \in mapping : \E i \in DOMAIN new, j \in Recent :
            x.new = new[i].speaker /\ x.prev = turns[j].speaker /\ new[i].voice = turns[j].voice
      /\ \A i \in DOMAIN new : InSeam[new[i].voice] # {} => \E x \in mapping : x.new = new[i].speaker
  BY <1>1, StitchIs
<1>3. /\ IsList(new) /\ unknown \in Nat /\ \A i \in DOMAIN new : IsTurn(new[i])
      /\ \A a, b \in DOMAIN new : new[a].speaker = new[b].speaker <=> new[a].voice = new[b].voice
  BY DEF WindowIs, Numbered, LabelsFit
<1>4. /\ \A i \in DOMAIN new :
            /\ new[i].speaker \in N => \E n \in Nat : n > 0 /\ old[i].speaker = NewSpeaker(unknown + n)
            /\ new[i].speaker \notin N => \E x \in mapping : x.new = new[i].speaker /\ old[i].speaker = x.prev
      /\ \A i, j \in DOMAIN new :
            /\ new[i].speaker = new[j].speaker => old[i].speaker = old[j].speaker
            /\ new[i].speaker \in N /\ new[j].speaker \in N /\ old[i].speaker = old[j].speaker =>
                  new[i].speaker = new[j].speaker
  <2>1. Cardinality(N) \in Nat
    BY <1>3, LabelsAre
  <2>2. \A i \in DOMAIN new : new[i].speaker \in N =>
           \E n \in 1..Cardinality(N) : old[i].speaker = NewSpeaker(unknown + n)
    BY <1>3, LabelsAre
  <2>3. \A i \in DOMAIN new : new[i].speaker \notin N =>
           \E x \in mapping : x.new = new[i].speaker /\ old[i].speaker = x.prev
    BY <1>3, LabelsAre
  <2>4. \A i, j \in DOMAIN new :
            /\ new[i].speaker = new[j].speaker => old[i].speaker = old[j].speaker
            /\ new[i].speaker \in N /\ new[j].speaker \in N /\ old[i].speaker = old[j].speaker =>
                  new[i].speaker = new[j].speaker
    BY <1>3, LabelsAre
  <2> HIDE DEF N, old
  <2>5. \A i \in DOMAIN new : new[i].speaker \in N =>
           \E n \in Nat : n > 0 /\ old[i].speaker = NewSpeaker(unknown + n)
    BY <2>1, <2>2
  <2>6. QED BY <2>3, <2>4, <2>5
<1>5. ASSUME NEW x, x \in mapping PROVE x.new \notin N
  BY <1>5 DEF Newcomers
<1> HIDE DEF N, old
<1>6. ASSUME NEW a \in DOMAIN new, new[a].speaker \notin N
      PROVE  \E j \in DOMAIN turns : turns[j].voice = new[a].voice /\ old[a].speaker = turns[j].speaker
  <2>1. PICK x \in mapping : x.new = new[a].speaker /\ old[a].speaker = x.prev
    BY <1>4, <1>6
  <2>2. PICK i \in DOMAIN new, j \in Recent :
           x.new = new[i].speaker /\ x.prev = turns[j].speaker /\ new[i].voice = turns[j].voice
    BY <1>2
  <2>3. new[a].voice = new[i].voice
    BY <1>3, <2>1, <2>2
  <2>4. QED BY <2>1, <2>2, <2>3 DEF Recent
<1>7. ASSUME NEW a \in DOMAIN new, new[a].speaker \in N, NEW j \in DOMAIN turns
      PROVE  old[a].speaker # turns[j].speaker
  <2>1. PICK n \in Nat : n > 0 /\ old[a].speaker = NewSpeaker(unknown + n)
    BY <1>4, <1>7
  <2>2. old[a].speaker.kind = "speaker_x" /\ old[a].speaker.no = unknown + n
    BY <2>1 DEF NewSpeaker
  <2>3. old[a].speaker.no \notin 1..unknown
    BY <1>3, <2>1, <2>2
  <2>4. QED BY <2>2, <2>3 DEF Numbered
<1>8. ASSUME NEW a \in DOMAIN new, NEW j \in DOMAIN turns, old[a].speaker = turns[j].speaker
      PROVE  new[a].voice = turns[j].voice
  <2>1. new[a].speaker \notin N
    BY <1>7, <1>8
  <2>2. PICK i \in DOMAIN turns : turns[i].voice = new[a].voice /\ old[a].speaker = turns[i].speaker
    BY <1>6, <2>1
  <2>3. QED BY <1>8, <2>2 DEF OneVoice
<1>9. ASSUME NEW a \in DOMAIN new, NEW b \in DOMAIN new, old[a].speaker = old[b].speaker
      PROVE  new[a].voice = new[b].voice
  <2>1. CASE new[a].speaker \in N /\ new[b].speaker \in N
    BY <1>3, <1>4, <1>9, <2>1
  <2>2. CASE new[a].speaker \notin N
    <3>1. PICK i \in DOMAIN turns : turns[i].voice = new[a].voice /\ old[a].speaker = turns[i].speaker
      BY <1>6, <2>2
    <3>2. QED BY <1>8, <1>9, <3>1
  <2>3. CASE new[b].speaker \notin N
    <3>1. PICK i \in DOMAIN turns : turns[i].voice = new[b].voice /\ old[b].speaker = turns[i].speaker
      BY <1>6, <2>3
    <3>2. QED BY <1>8, <1>9, <3>1
  <2>4. QED BY <2>1, <2>2, <2>3
<1>10. ASSUME NEW a \in DOMAIN new, InSeam[new[a].voice] # {}
       PROVE  \E j \in DOMAIN turns : turns[j].voice = new[a].voice /\ old[a].speaker = turns[j].speaker
  <2>1. PICK x \in mapping : x.new = new[a].speaker
    BY <1>2, <1>10
  <2>2. QED BY <1>5, <1>6, <2>1
<1>11. \A a, b \in DOMAIN new : new[a].voice = new[b].voice => old[a].speaker = old[b].speaker
  BY <1>3, <1>4
<1>12. QED BY <1>8, <1>9, <1>10, <1>11 DEF old

(* What a label is matched with is one of those in use. *)
LEMMA MatchedLabels ==
  ASSUME NEW new, NEW mapping \in Stitch(turns, new, offset), NEW x \in mapping
  PROVE  \E j \in DOMAIN turns : x.prev = turns[j].speaker
<1> DEFINE All == Together(turns, new, offset)
           Pair(m) == <<new[m[1]].speaker, turns[m[2]].speaker>>
           Of(p) == {m \in All : Pair(m) = p}
           Entry(p) == [new |-> p[1], prev |-> p[2], time |-> Cardinality(Of(p)),
                        first |-> Min({m[1] * (Len(turns) + 1) + m[2] : m \in Of(p)})]
<1>1. x \in Agreement(turns, new, offset)
  BY DEF Stitch
<1>2. Agreement(turns, new, offset) = {Entry(p) : p \in {Pair(m) : m \in All}}
  BY DEF Agreement
<1> HIDE DEF All, Of
<1>3. PICK m \in All : x = Entry(Pair(m))
  BY <1>1, <1>2
<1>4. x.prev = turns[m[2]].speaker
  BY <1>3
<1>5. m[2] \in DOMAIN turns
  BY DEF All, Together
<1>6. QED BY <1>4, <1>5

(* The turns after a window are those before it, and after them some of the
   window's, each with its new label and some or all of its time. *)
LEMMA TurnsJoined ==
  ASSUME IsList(turns), Last(turns).to \in Nat,
         NEW new, IsList(new), \A i \in DOMAIN new : IsTurn(new[i]), NEW mapping
  PROVE  LET old == Relabel(mapping, new)
             all == turns \o CutOff(old)
         IN /\ DOMAIN turns \subseteq DOMAIN all
            /\ \A k \in DOMAIN turns : all[k] = turns[k]
            /\ \E of \in [DOMAIN all \ DOMAIN turns -> DOMAIN new] :
                  /\ \A k \in DOMAIN all \ DOMAIN turns :
                        /\ all[k].voice = new[of[k]].voice /\ all[k].speaker = old[of[k]].speaker
                        /\ Ticks(all[k]) \subseteq Ticks(new[of[k]])
                  /\ \A k, l \in DOMAIN all \ DOMAIN turns : of[k] = of[l] => k = l
<1> DEFINE old == Relabel(mapping, new)
           late == CutOff(old)
           all == turns \o late
<1>1. /\ IsList(old) /\ DOMAIN old = DOMAIN new
      /\ \A i \in DOMAIN new : /\ IsTurn(old[i]) /\ old[i].voice = new[i].voice
                               /\ old[i].from = new[i].from /\ old[i].to = new[i].to
  BY RelabelIs
<1> HIDE DEF old
<1>2. /\ IsList(late) /\ \A k \in DOMAIN late : IsTurn(late[k])
      /\ \E at \in [DOMAIN late -> DOMAIN old] :
            /\ \A k \in DOMAIN late : PartOf(late[k], old[at[k]])
            /\ \A k, l \in DOMAIN late : at[k] = at[l] => k = l
  BY <1>1, CutOffIs
<1> HIDE DEF late
<1> PICK at \in [DOMAIN late -> DOMAIN old] :
            /\ \A k \in DOMAIN late : PartOf(late[k], old[at[k]])
            /\ \A k, l \in DOMAIN late : at[k] = at[l] => k = l
  BY <1>2
<1>3. /\ DOMAIN turns \subseteq DOMAIN all /\ \A k \in DOMAIN turns : all[k] = turns[k]
      /\ \A k \in DOMAIN all \ DOMAIN turns : k - Len(turns) \in DOMAIN late /\ all[k] = late[k - Len(turns)]
      /\ \A k \in DOMAIN all : k \in Nat
      /\ Len(turns) \in Nat
  <2> DEFINE X == Range(turns) \cup Range(late)
  <2>1. turns \in Seq(X) /\ late \in Seq(X)
    <3>1. turns \in Seq(Range(turns)) /\ late \in Seq(Range(late))
      BY <1>2 DEF IsList
    <3>2. QED BY <3>1
  <2> HIDE DEF X
  <2>2. /\ all \in Seq(X)
        /\ \A i \in DOMAIN turns : i \in DOMAIN all /\ all[i] = turns[i]
        /\ \A k \in DOMAIN all :
              \/ k \in DOMAIN turns
              \/ k > Len(turns) /\ k - Len(turns) \in DOMAIN late /\ all[k] = late[k - Len(turns)]
    BY <2>1, Joined
  <2> HIDE DEF all
  <2>3. Len(turns) \in Nat /\ \A k \in DOMAIN all : k \in Nat
    BY <2>1, <2>2
  <2>4. QED BY <2>2, <2>3
<1> HIDE DEF all
<1> DEFINE New == DOMAIN all \ DOMAIN turns
           of == [k \in New |-> at[k - Len(turns)]]
<1>4. ASSUME NEW k \in New
      PROVE  /\ of[k] \in DOMAIN new /\ of[k] = at[k - Len(turns)] /\ k - Len(turns) \in DOMAIN late
             /\ all[k].voice = new[of[k]].voice /\ all[k].speaker = old[of[k]].speaker
             /\ Ticks(all[k]) \subseteq Ticks(new[of[k]])
  <2>1. k - Len(turns) \in DOMAIN late /\ all[k] = late[k - Len(turns)] /\ of[k] = at[k - Len(turns)]
    BY <1>3
  <2>2. of[k] \in DOMAIN new
    BY <1>1, <2>1
  <2>3. PartOf(all[k], old[of[k]]) /\ IsTurn(all[k])
    BY <1>2, <2>1
  <2>4. IsTurn(old[of[k]]) /\ IsTurn(new[of[k]])
    BY <1>1, <2>2
  <2>5. all[k].voice = new[of[k]].voice /\ all[k].speaker = old[of[k]].speaker
    BY <1>1, <2>2, <2>3 DEF PartOf
  <2>6. new[of[k]].from =< all[k].from /\ all[k].to = new[of[k]].to
    BY <1>1, <2>2, <2>3 DEF PartOf
  <2>7. Ticks(all[k]) \subseteq Ticks(new[of[k]])
    <3>1. {new[of[k]].from, new[of[k]].to, all[k].from, all[k].to} \subseteq Nat
      BY <2>3, <2>4 DEF IsTurn
    <3>2. all[k].from..(all[k].to - 1) \subseteq new[of[k]].from..(new[of[k]].to - 1)
      BY <2>6, <3>1
    <3>3. QED BY <3>2 DEF Ticks
  <2>8. QED BY <2>1, <2>2, <2>5, <2>7
<1>5. of \in [New -> DOMAIN new]
  <2>1. \A k \in New : of[k] \in DOMAIN new
    BY <1>4
  <2>2. QED BY <2>1
<1> HIDE DEF of
<1>6. ASSUME NEW k \in New, NEW l \in New, of[k] = of[l] PROVE k = l
  <2>1. k - Len(turns) = l - Len(turns)
    BY <1>4, <1>6
  <2>2. k \in Nat /\ l \in Nat /\ Len(turns) \in Nat
    BY <1>3
  <2>3. QED BY <2>1, <2>2
<1>7. \E f \in [New -> DOMAIN new] :
         /\ \A k \in New : /\ all[k].voice = new[f[k]].voice /\ all[k].speaker = old[f[k]].speaker
                          /\ Ticks(all[k]) \subseteq Ticks(new[f[k]])
         /\ \A k, l \in New : f[k] = f[l] => k = l
  <2>1. /\ \A k \in New : /\ all[k].voice = new[of[k]].voice /\ all[k].speaker = old[of[k]].speaker
                         /\ Ticks(all[k]) \subseteq Ticks(new[of[k]])
        /\ \A k, l \in New : of[k] = of[l] => k = l
    BY <1>4, <1>6
  <2> HIDE DEF New
  <2>2. QED BY <1>5, <2>1, Zenon
<1>8. QED BY <1>3, <1>7 DEF old, all, late

LEMMA LabelsRead == ASSUME TurnsInv, TurnsInv', LabelsInv, ReadTurns PROVE LabelsInv'
<1>1. /\ task = "turns" /\ ReadWindow /\ loop = "reading"
      /\ UNCHANGED <<task, speech>>
  BY DEF ReadTurns, recording, ReadWindow
<1>2. PICK new \in Diarized(offset, End) :
         IF turns = <<>> THEN turns' = new /\ UNCHANGED unknown
         ELSE \E mapping \in Stitch(turns, new, offset) :
                 /\ turns' = turns \o CutOff(Relabel(mapping, new))
                 /\ unknown' = unknown + Cardinality(Newcomers(mapping, new))
  BY DEF ReadTurns
<1>3. /\ SpeechOK /\ TurnsOK /\ TurnsSay /\ LoopInv /\ LoopEnds
      /\ Numbered /\ RecentLabels /\ SaidOnce(turns, Recent) /\ (~Indistinct => OneVoice /\ Steady)
  BY <1>1 DEF TurnsInv, LabelsInv
<1>4. /\ {duration, offset, idx, End, Reached, ChunkOverlap} \subseteq Nat /\ duration' = duration
      /\ offset' = offset + ChunkLength - ChunkOverlap /\ offset + ChunkOverlap < offset'
      /\ idx' = idx + 1 /\ End =< duration /\ Reached =< End
      /\ idx > 0 => Reached = offset + ChunkOverlap
  BY <1>1, <1>3, WindowFacts, BoundsHold DEF Bounds
<1>5. WindowIs(new)
  BY <1>3, <1>4, DiarizedIs DEF WindowIs
<1>6. CASE turns = <<>>
  <2>1. turns' = new /\ unknown' = unknown
    BY <1>2, <1>6
  <2>2. Numbered'
    BY <1>3, <1>5, <2>1 DEF Numbered, WindowIs
  <2>3. OneVoice' /\ Steady'
    BY <1>5, <2>1 DEF OneVoice, Steady, WindowIs, LabelsFit
  <2>4. RecentLabels' /\ SaidOnce(turns, Recent)'
    BY <1>5, <2>1 DEF RecentLabels, SaidOnce, Recent, WindowIs, LabelsFit
  <2>5. QED BY <2>2, <2>3, <2>4 DEF LabelsInv
<1>7. CASE turns # <<>>
  <2>1. PICK mapping \in Stitch(turns, new, offset) :
           /\ turns' = turns \o CutOff(Relabel(mapping, new))
           /\ unknown' = unknown + Cardinality(Newcomers(mapping, new))
    BY <1>2, <1>7
  <2> DEFINE old == Relabel(mapping, new)
             N == Newcomers(mapping, new)
             New == DOMAIN turns' \ DOMAIN turns
  <2>2. 1 \in DOMAIN turns /\ Len(turns) \in DOMAIN turns
    BY <1>3, <1>7 DEF TurnsOK, IsList
  <2>3. Reached = offset + ChunkOverlap /\ idx > 0
    <3>1. IsTurn(turns[1]) /\ turns[1].to =< Reached
      BY <1>3, <2>2 DEF TurnsOK
    <3>2. Reached # 0
      BY <3>1 DEF IsTurn
    <3>3. QED BY <1>4, <3>2 DEF Reached
  <2>4. AtSeam
    BY <1>3, <1>4, <2>3 DEF AtSeam
  <2>5. Last(turns).to \in Nat
    BY <1>3, <2>2 DEF TurnsOK, IsTurn, Last
  <2>6. /\ DOMAIN turns \subseteq DOMAIN turns' /\ \A k \in DOMAIN turns : turns'[k] = turns[k]
        /\ \E of \in [New -> DOMAIN new] :
              /\ \A k \in New : /\ turns'[k].voice = new[of[k]].voice /\ turns'[k].speaker = old[of[k]].speaker
                               /\ Ticks(turns'[k]) \subseteq Ticks(new[of[k]])
              /\ \A k, l \in New : of[k] = of[l] => k = l
    <3> DEFINE all == turns \o CutOff(Relabel(mapping, new))
    <3>1. /\ DOMAIN turns \subseteq DOMAIN all /\ \A k \in DOMAIN turns : all[k] = turns[k]
          /\ \E of \in [DOMAIN all \ DOMAIN turns -> DOMAIN new] :
                /\ \A k \in DOMAIN all \ DOMAIN turns :
                      /\ all[k].voice = new[of[k]].voice /\ all[k].speaker = old[of[k]].speaker
                      /\ Ticks(all[k]) \subseteq Ticks(new[of[k]])
                /\ \A k, l \in DOMAIN all \ DOMAIN turns : of[k] = of[l] => k = l
      <4>1. IsList(turns) /\ IsList(new) /\ \A i \in DOMAIN new : IsTurn(new[i])
        BY <1>3, <1>5 DEF TurnsOK, WindowIs
      <4>2. QED BY <2>5, <4>1, TurnsJoined
    <3> HIDE DEF all, old
    <3>2. turns' = all
      BY <2>1 DEF all
    <3>3. QED BY <3>1, <3>2
  <2> PICK of \in [New -> DOMAIN new] :
         /\ \A k \in New : /\ turns'[k].voice = new[of[k]].voice /\ turns'[k].speaker = old[of[k]].speaker
                          /\ Ticks(turns'[k]) \subseteq Ticks(new[of[k]])
         /\ \A k, l \in New : of[k] = of[l] => k = l
    BY <2>6
  <2>7. /\ IsList(new) /\ unknown \in Nat /\ \A i \in DOMAIN new : IsTurn(new[i])
        /\ \A a, b \in DOMAIN new : new[a].speaker = new[b].speaker <=> new[a].voice = new[b].voice
    BY <1>3, <1>5 DEF WindowIs, Numbered, LabelsFit
  <2>8. /\ Cardinality(N) \in Nat
        /\ \A i \in DOMAIN new : new[i].speaker \in N =>
              \E n \in 1..Cardinality(N) : old[i].speaker = NewSpeaker(unknown + n)
        /\ \A i \in DOMAIN new : new[i].speaker \notin N =>
              \E x \in mapping : x.new = new[i].speaker /\ old[i].speaker = x.prev
        /\ \A i, j \in DOMAIN new : new[i].speaker = new[j].speaker => old[i].speaker = old[j].speaker
    <3>1. Cardinality(N) \in Nat
      BY <2>7, LabelsAre
    <3>2. \A i \in DOMAIN new : new[i].speaker \in N =>
              \E n \in 1..Cardinality(N) : old[i].speaker = NewSpeaker(unknown + n)
      BY <2>7, LabelsAre
    <3>3. \A i \in DOMAIN new : new[i].speaker \notin N =>
              \E x \in mapping : x.new = new[i].speaker /\ old[i].speaker = x.prev
      BY <2>7, LabelsAre
    <3>4. \A i, j \in DOMAIN new : new[i].speaker = new[j].speaker => old[i].speaker = old[j].speaker
      BY <2>7, LabelsAre
    <3> HIDE DEF N, old
    <3>5. QED BY <3>1, <3>2, <3>3, <3>4
  <2>9. unknown' = unknown + Cardinality(N)
    BY <2>1
  <2>10. \A x \in mapping : \E j \in DOMAIN turns : x.prev = turns[j].speaker
    BY MatchedLabels
  <2>11. ASSUME ~Indistinct'
         PROVE  /\ ~Indistinct /\ Distinct(InSeam) /\ Seams \subseteq Seams' /\ Seam \in Seams'
    <3>1. Seams = {(Step * k)..(Step * k + ChunkOverlap - 1) : k \in 1..(idx - 1)}
      BY DEF Seams
    <3>2. Seams' = {(Step * k)..(Step * k + ChunkOverlap - 1) : k \in 1..idx}
      <4>1. idx' - 1 = idx
        BY <1>4
      <4>2. QED BY <4>1 DEF Seams, Step
    <3>3. Seams \subseteq Seams'
      <4>1. 1..(idx - 1) \subseteq 1..idx
        BY <1>4
      <4>2. QED BY <3>1, <3>2, <4>1
    <3>4. Seam \in Seams'
      <4>1. idx \in 1..idx
        BY <1>4, <2>3
      <4>2. offset = Step * idx
        BY <1>3 DEF LoopInv
      <4>3. QED BY <3>2, <4>1, <4>2 DEF Seam
    <3>5. \A s \in Seams' : \A v, w \in Voices :
             v = w \/ speech[v] \cap s # speech[w] \cap s \/ speech[v] \cap s = {}
      BY <1>1, <2>11 DEF Indistinct
    <3> HIDE DEF Seam
    <3>6. ~Indistinct
      BY <3>3, <3>5 DEF Indistinct
    <3>7. Distinct(InSeam)
      BY <3>4, <3>5 DEF Distinct, InSeam
    <3>8. QED BY <3>3, <3>4, <3>6, <3>7
  <2>12. ASSUME ~Indistinct'
         PROVE  /\ \A a \in DOMAIN new, j \in DOMAIN turns :
                      old[a].speaker = turns[j].speaker => new[a].voice = turns[j].voice
                /\ \A a, b \in DOMAIN new : old[a].speaker = old[b].speaker <=> new[a].voice = new[b].voice
                /\ \A a \in DOMAIN new : InSeam[new[a].voice] # {} =>
                      \E j \in DOMAIN turns : turns[j].voice = new[a].voice /\ old[a].speaker = turns[j].speaker
    BY <1>3, <1>5, <2>4, <2>11, <2>12, LabelsCarry
  <2> HIDE DEF old, N
  <2>13. \A k \in DOMAIN turns' :
            \/ k \in DOMAIN turns /\ turns'[k] = turns[k]
            \/ k \in New /\ of[k] \in DOMAIN new
    BY <2>6
  <2>14. Numbered'
    <3>1. unknown' \in Nat /\ unknown =< unknown'
      BY <2>7, <2>8, <2>9
    <3>2. \A j \in DOMAIN turns : turns[j].speaker.kind = "speaker_x" => turns[j].speaker.no \in 1..unknown'
      BY <1>3, <2>7, <3>1 DEF Numbered
    <3>3. ASSUME NEW a \in DOMAIN new, old[a].speaker.kind = "speaker_x"
          PROVE  old[a].speaker.no \in 1..unknown'
      <4>1. CASE new[a].speaker \in N
        <5>1. PICK n \in 1..Cardinality(N) : old[a].speaker = NewSpeaker(unknown + n)
          BY <2>8, <4>1
        <5>2. old[a].speaker.no = unknown + n
          BY <5>1 DEF NewSpeaker
        <5>3. QED BY <2>7, <2>8, <2>9, <5>2
      <4>2. CASE new[a].speaker \notin N
        <5>1. PICK x \in mapping : old[a].speaker = x.prev
          BY <2>8, <4>2
        <5>2. QED BY <2>10, <3>2, <3>3, <5>1
      <4>3. QED BY <4>1, <4>2
    <3>4. QED BY <2>13, <3>1, <3>2, <3>3 DEF Numbered
  <2>15. Recent' \subseteq New
    <3>1. \A k \in DOMAIN turns : turns[k].to \in Nat /\ turns[k].to =< Reached
      BY <1>3 DEF TurnsOK, IsTurn
    <3>2. \A k \in DOMAIN turns : ~(turns'[k].to > offset')
      <4> SUFFICES ASSUME NEW k \in DOMAIN turns PROVE ~(turns'[k].to > offset')
        OBVIOUS
      <4>1. turns'[k] = turns[k]
        BY <2>6
      <4>2. QED BY <1>4, <2>3, <3>1, <4>1
    <3>3. QED BY <3>2 DEF Recent
  <2>16. RecentLabels'
    <3>1. \A k, l \in New : turns'[k].voice = turns'[l].voice => turns'[k].speaker = turns'[l].speaker
      BY <2>7, <2>8
    <3>2. QED BY <2>15, <3>1 DEF RecentLabels
  <2>17. SaidOnce(turns, Recent)'
    <3> SUFFICES ASSUME NEW k \in Recent', NEW l \in Recent', turns'[k].voice = turns'[l].voice,
                        Ticks(turns'[k]) \cap Ticks(turns'[l]) # {}
                 PROVE  k = l
      BY DEF SaidOnce, Ticks
    <3>1. k \in New /\ l \in New
      BY <2>15
    <3>2. Ticks(new[of[k]]) \cap Ticks(new[of[l]]) # {} /\ new[of[k]].voice = new[of[l]].voice
      BY <3>1
    <3>3. of[k] = of[l]
      BY <1>5, <3>1, <3>2 DEF WindowIs, SaidOnce
    <3>4. QED BY <3>1, <3>3
  <2>18. ASSUME ~Indistinct' PROVE OneVoice'
    <3> SUFFICES ASSUME NEW k \in DOMAIN turns', NEW l \in DOMAIN turns', turns'[k].speaker = turns'[l].speaker
                 PROVE  turns'[k].voice = turns'[l].voice
      BY DEF OneVoice
    <3>1. OneVoice
      BY <1>3, <2>11, <2>18
    <3>2. CASE k \in DOMAIN turns /\ l \in DOMAIN turns
      BY <2>6, <3>1, <3>2 DEF OneVoice
    <3>3. CASE k \in New /\ l \in New
      BY <2>12, <2>18, <3>3
    <3>4. CASE k \in New /\ l \in DOMAIN turns
      BY <2>6, <2>12, <2>18, <3>4
    <3>5. CASE k \in DOMAIN turns /\ l \in New
      BY <2>6, <2>12, <2>18, <3>5
    <3>6. QED BY <2>13, <3>2, <3>3, <3>4, <3>5
  <2>19. ASSUME ~Indistinct' PROVE Steady'
    <3> SUFFICES ASSUME NEW k \in DOMAIN turns', NEW l \in DOMAIN turns', turns'[k].voice = turns'[l].voice,
                        \A s \in Seams' : speech[turns'[k].voice] \cap s # {}
                 PROVE  turns'[k].speaker = turns'[l].speaker
      BY <1>1 DEF Steady
    <3> DEFINE v == turns'[k].voice
    <3>1. Steady /\ OneVoice /\ Seams \subseteq Seams' /\ Seam \in Seams'
      BY <1>3, <2>11, <2>19
    <3>2. turns'[k].voice \in Voices
      BY <1>1 DEF TurnsInv, TurnsOK, IsTurn
    <3>3. InSeam[v] # {} /\ \A s \in Seams : speech[v] \cap s # {}
      BY <3>1, <3>2 DEF InSeam
    <3> HIDE DEF v
    <3>4. \A i, j \in DOMAIN turns : turns[i].voice = v /\ turns[j].voice = v => turns[i].speaker = turns[j].speaker
      <4> SUFFICES ASSUME NEW i \in DOMAIN turns, NEW j \in DOMAIN turns,
                          turns[i].voice = v, turns[j].voice = v
                   PROVE  turns[i].speaker = turns[j].speaker
        OBVIOUS
      <4>1. \A s \in Seams : speech[turns[i].voice] \cap s # {}
        BY <3>3
      <4>2. Steady /\ turns[i].voice = turns[j].voice
        BY <3>1
      <4>3. QED BY <4>1, <4>2 DEF Steady
    <3>5. ASSUME NEW m \in DOMAIN turns', turns'[m].voice = v, NEW j \in DOMAIN turns, turns[j].voice = v
          PROVE  turns'[m].speaker = turns[j].speaker
      <4>1. CASE m \in DOMAIN turns
        BY <2>6, <3>4, <3>5, <4>1
      <4>2. CASE m \in New
        <5>1. new[of[m]].voice = v /\ of[m] \in DOMAIN new /\ turns'[m].speaker = old[of[m]].speaker
          BY <3>5, <4>2
        <5>2. PICK i \in DOMAIN turns : turns[i].voice = v /\ old[of[m]].speaker = turns[i].speaker
          BY <2>12, <2>19, <3>3, <5>1
        <5>3. QED BY <3>4, <3>5, <5>1, <5>2
      <4>3. QED BY <2>13, <4>1, <4>2
    <3>6. turns'[k].voice = v /\ turns'[l].voice = v
      BY DEF v
    <3>7. CASE k \in DOMAIN turns
      BY <2>6, <3>5, <3>6, <3>7
    <3>8. CASE l \in DOMAIN turns
      BY <2>6, <3>5, <3>6, <3>8
    <3>9. CASE k \in New /\ l \in New
      BY <2>7, <2>8, <3>6, <3>9
    <3>10. QED BY <2>13, <3>7, <3>8, <3>9
  <2>20. QED BY <2>14, <2>16, <2>17, <2>18, <2>19 DEF LabelsInv
<1>8. QED BY <1>6, <1>7

LEMMA LabelsInit == Init => LabelsInv
BY DEF Init, LabelsInv, Numbered, RecentLabels, SaidOnce, Recent, OneVoice, Steady

LEMMA LabelsNext == TurnsInv /\ TurnsInv' /\ LabelsInv /\ [Next]_vars => LabelsInv'
<1> SUFFICES ASSUME TurnsInv, TurnsInv', LabelsInv, [Next]_vars PROVE LabelsInv'
  OBVIOUS
<1>1. CASE ReadTurns
  BY <1>1, LabelsRead
<1>2. CASE ReadWords
  BY <1>2 DEF ReadWords, recording, LabelsInv
<1>3. CASE Done
  <2> SUFFICES ASSUME task = "turns" PROVE Numbered' /\ (~Indistinct' => OneVoice' /\ Steady') /\ loop' = "done"
    BY <1>3 DEF LabelsInv, Done, recording
  <2>1. /\ turns' = SortedByStart(turns) /\ loop' = "done"
        /\ unknown' = unknown /\ speech' = speech /\ idx' = idx
    BY <1>3 DEF Done, Finish, recording
  <2>2. \A k \in DOMAIN turns' : \E i \in DOMAIN turns : turns'[k] = turns[i]
    <3>1. IsList(turns) /\ \A i \in DOMAIN turns : turns[i].from \in Nat
      BY DEF TurnsInv, TurnsOK, IsTurn
    <3> DEFINE t == SortedByStart(turns)
    <3>2. \A k \in DOMAIN t : \E i \in DOMAIN turns : t[k] = turns[i]
      BY <3>1, SortedIs
    <3> HIDE DEF t
    <3>3. turns' = t
      BY <2>1 DEF t
    <3>4. QED BY <3>2, <3>3
  <2>3. Seams' = Seams /\ (Indistinct' <=> Indistinct)
    BY <2>1 DEF Seams, Indistinct, Step
  <2>4. Numbered'
    BY <2>1, <2>2 DEF LabelsInv, Numbered
  <2>5. OneVoice => OneVoice'
    BY <2>2 DEF OneVoice
  <2>6. Steady => Steady'
    BY <2>1, <2>2, <2>3 DEF Steady
  <2>7. QED BY <2>1, <2>3, <2>4, <2>5, <2>6 DEF LabelsInv
<1>4. CASE UNCHANGED vars
  <2>1. UNCHANGED <<task, loop, turns, unknown, offset, idx, speech>>
    BY <1>4 DEF vars, loopVars, recording
  <2>2. (Numbered' <=> Numbered) /\ (OneVoice' <=> OneVoice) /\ (RecentLabels' <=> RecentLabels)
    BY <2>1 DEF Numbered, OneVoice, RecentLabels, Recent
  <2>3. SaidOnce(turns, Recent)' <=> SaidOnce(turns, Recent)
    BY <2>1 DEF SaidOnce, Recent, Ticks
  <2>4. (Steady' <=> Steady) /\ (Indistinct' <=> Indistinct)
    BY <2>1 DEF Steady, Indistinct, Seams, Step
  <2>5. QED BY <2>1, <2>2, <2>3, <2>4 DEF LabelsInv
<1>5. QED BY <1>1, <1>2, <1>3, <1>4 DEF Next

(* A label is one person in the whole recording, and a person who speaks in
   every overlap keeps one label, for any number of people and of windows:
   what _stitch of diarize.py takes greedily, it takes right, unless two people
   speak in an overlap at the very same moments. *)
THEOREM LabelsAreThePeople == Spec => []LabelsAreVoices
<1>1. LabelsInv => LabelsAreVoices
  BY DEF LabelsInv, LabelsAreVoices, OneVoice, Steady
<1>2. QED BY TurnsInit, TurnsNext, LabelsInit, LabelsNext, <1>1, PTL DEF Spec

=============================================================================
