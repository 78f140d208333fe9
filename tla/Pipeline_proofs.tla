---------------------------- MODULE Pipeline_proofs ----------------------------
(* Proofs about what the pipeline makes of a call, for a recording of any      *)
(* length, any number of people, words and turns, and any settings: its        *)
(* transcript (module Transcript), and the decoder that the jobs which make    *)
(* transcripts share (module AsrDecoder, for any number of them).              *)
EXTENDS Transcript, AsrDecoder, Timeline_proofs

(* What the arguments need to know of words, turns and segments *)
WordSet ==
    [from : Nat, to : Nat, confidence : Confidences \cup {"none"}, risk : BOOLEAN,
     recovered : BOOLEAN, uncertain : BOOLEAN, conflict : BOOLEAN]

TurnsTyped == turns \in Seq(Turns) /\ Diarized(turns)

IsSegment(g) ==
    g = [words |-> g.words, speaker |-> g.speaker, role |-> g.role, from |-> g.from,
         to |-> g.to, crosstalk |-> g.crosstalk, uncertain |-> g.uncertain]
SegmentsTyped(segs) == IsList(segs) /\ \A k \in DOMAIN segs : IsSegment(segs[k])

LEMMA TurnFacts ==
  ASSUME TurnsTyped
  PROVE  /\ Len(turns) \in Nat /\ DOMAIN turns = 1..Len(turns)
         /\ \A i \in DOMAIN turns :
               /\ turns[i].from \in Nat /\ turns[i].to \in Nat /\ turns[i].from < turns[i].to
               /\ turns[i].to =< Duration /\ turns[i].speaker \in Speakers
         /\ \A i, j \in DOMAIN turns : i < j => turns[i].from =< turns[j].from
<1>1. Duration \in Nat
  BY TranscriptAssumption
<1>2. Len(turns) \in Nat /\ DOMAIN turns = 1..Len(turns) /\ \A i \in DOMAIN turns : turns[i] \in Turns
  BY DEF TurnsTyped
<1>3. \A t \in Turns : t.from \in Nat /\ t.to \in Nat /\ t.from < t.to /\ t.to =< Duration /\ t.speaker \in Speakers
  BY <1>1 DEF Turns
<1>4. QED BY <1>2, <1>3 DEF TurnsTyped, Diarized

-----------------------------------------------------------------------------
(***************************************************************************)
(* Two people at once                                                      *)
(***************************************************************************)
LEMMA CommonIs ==
  ASSUME NEW i, NEW j, i.from \in Nat, i.to \in Nat, j.from \in Nat, j.to \in Nat
  PROVE  /\ Common(i, j) \in Nat
         /\ Common(i, j) > 0 => i.from < j.to /\ j.from < i.to
         /\ Common(i, j) > 0 /\ i.from =< j.from =>
               /\ j.from + Common(i, j) =< j.to
               /\ \A x \in Nat : (j.from =< x /\ x < j.from + Common(i, j)
                                 <=> x \in Ticks(i) \cap Ticks(j))
         /\ Common(i, j) = Common(j, i)
  BY DEF Common, Ticks

(* Turns are sorted by their start, so a loop that breaks off at the first turn
   that starts after one has ended misses nobody who talks with it. *)
LEMMA TalkOverIs ==
  ASSUME TurnsTyped, NEW least \in Nat, least > 0
  PROVE  TalkOver(least) = {m \in (DOMAIN turns) \X (DOMAIN turns) :
                               /\ m[1] < m[2]
                               /\ turns[m[1]].speaker # turns[m[2]].speaker
                               /\ Common(turns[m[1]], turns[m[2]]) >= least}
<1>1. ASSUME NEW i \in DOMAIN turns, NEW j \in DOMAIN turns, i < j,
             Common(turns[i], turns[j]) >= least
      PROVE  \A k \in (i + 1)..j : turns[k].from < turns[i].to
  <2>1. turns[j].from < turns[i].to
    BY <1>1, TurnFacts, CommonIs
  <2>2. SUFFICES ASSUME NEW k \in (i + 1)..j PROVE turns[k].from < turns[i].to
    OBVIOUS
  <2>3. k \in DOMAIN turns /\ (k < j \/ k = j)
    BY TurnFacts
  <2>4. turns[k].from =< turns[j].from /\ turns[k].from \in Nat
    BY <2>3, TurnFacts
  <2>5. QED BY <2>1, <2>3, <2>4, TurnFacts
<1>2. QED BY <1>1 DEF TalkOver, Met

-----------------------------------------------------------------------------
(***************************************************************************)
(* Roles and interruptions. All segments of a speaker have one role, so    *)
(* that the role of an interrupter does not depend on the segment it is    *)
(* read from, and the count is made again whenever roles are given anew.   *)
(***************************************************************************)
OneRole(segs) ==
    \A k, l \in DOMAIN segs : segs[k].speaker = segs[l].speaker => segs[k].role = segs[l].role

CutIn(segs, r, ts) ==
    {m \in (DOMAIN ts) \X (DOMAIN ts) :
        /\ m[1] < m[2]
        /\ ts[m[1]].speaker # ts[m[2]].speaker
        /\ Common(ts[m[1]], ts[m[2]]) >= InterruptionOverlap
        /\ \E k \in DOMAIN segs : segs[k].speaker = ts[m[2]].speaker /\ segs[k].role = r}

Roles == {"Agent", "Customer"}
Counts(segs, counts, ts) == \A r \in Roles : counts[r] = Cardinality(CutIn(segs, r, ts))

LEMMA InterruptionsAre ==
  ASSUME TurnsTyped, NEW segs, OneRole(segs)
  PROVE  Counts(segs, Interruptions(segs), turns)
<1> DEFINE own(p) == {segs[k].role : k \in {k \in DOMAIN segs : segs[k].speaker = p}}
           roleOf(p) == IF own(p) = {} THEN "unknown" ELSE CHOOSE r \in own(p) : TRUE
<1>1. ASSUME NEW p, NEW r \in Roles
      PROVE  roleOf(p) = r <=> \E k \in DOMAIN segs : segs[k].speaker = p /\ segs[k].role = r
  <2>1. r # "unknown"
    BY DEF Roles
  <2>2. own(p) # {} => roleOf(p) \in own(p)
    OBVIOUS
  <2>3. \A a, b \in own(p) : a = b
    BY DEF OneRole
  <2>4. QED BY <2>1, <2>2, <2>3
<1>2. InterruptionOverlap \in Nat /\ InterruptionOverlap > 0
  BY TranscriptAssumption
<1>3. ASSUME NEW r \in Roles
      PROVE  {m \in TalkOver(InterruptionOverlap) : roleOf(turns[m[2]].speaker) = r} = CutIn(segs, r, turns)
  <2> HIDE DEF roleOf
  <2>1. QED BY <1>1, <1>2, TalkOverIs DEF CutIn
<1>4. Interruptions(segs) =
        [r \in Roles |-> Cardinality({m \in TalkOver(InterruptionOverlap) : roleOf(turns[m[2]].speaker) = r})]
  BY DEF Interruptions, Roles
<1> HIDE DEF roleOf
<1>5. QED BY <1>3, <1>4 DEF Counts

(* New roles leave the rest of the segments alone. *)
LEMMA WithRolesIs ==
  ASSUME NEW segs, SegmentsTyped(segs), OneRole(segs), NEW agent
  PROVE  LET new == WithRoles(segs, agent) IN
         /\ SegmentsTyped(new) /\ OneRole(new)
         /\ DOMAIN new = DOMAIN segs /\ Len(new) = Len(segs)
         /\ \A k \in DOMAIN segs : \E r : new[k] = [segs[k] EXCEPT !.role = r]
         /\ \A k \in DOMAIN segs :
               /\ new[k].words = segs[k].words /\ new[k].speaker = segs[k].speaker
               /\ new[k].from = segs[k].from /\ new[k].to = segs[k].to
               /\ new[k].uncertain = segs[k].uncertain
<1> DEFINE new == WithRoles(segs, agent)
           present == {segs[k].speaker : k \in DOMAIN segs}
           role(k) == Role(segs[k].speaker, agent, present)
<1>1. CASE agent \notin present
  <2>1. new = segs
    BY <1>1 DEF WithRoles
  <2>2. \A k \in DOMAIN segs : segs[k] = [segs[k] EXCEPT !.role = segs[k].role]
    BY DEF SegmentsTyped, IsSegment
  <2>3. QED BY <2>1, <2>2
<1>2. CASE agent \in present
  <2>1. new = [k \in DOMAIN segs |-> [segs[k] EXCEPT !.role = role(k)]]
    BY <1>2 DEF WithRoles
  <2>2. DOMAIN segs = 1..Len(segs) /\ Len(segs) \in Nat
    BY DEF SegmentsTyped, IsList
  <2>3. ASSUME NEW k \in DOMAIN segs
        PROVE  /\ new[k] = [segs[k] EXCEPT !.role = role(k)]
               /\ new[k].words = segs[k].words /\ new[k].speaker = segs[k].speaker
               /\ new[k].from = segs[k].from /\ new[k].to = segs[k].to
               /\ new[k].uncertain = segs[k].uncertain /\ new[k].role = role(k)
               /\ IsSegment(new[k])
    <3>1. new[k] = [segs[k] EXCEPT !.role = role(k)]
      BY <2>1
    <3>2. segs[k] = [words |-> segs[k].words, speaker |-> segs[k].speaker, role |-> segs[k].role,
                     from |-> segs[k].from, to |-> segs[k].to, crosstalk |-> segs[k].crosstalk,
                     uncertain |-> segs[k].uncertain]
      BY DEF SegmentsTyped, IsSegment
    <3> HIDE DEF role, new
    <3>3. new[k] = [words |-> segs[k].words, speaker |-> segs[k].speaker, role |-> role(k),
                    from |-> segs[k].from, to |-> segs[k].to, crosstalk |-> segs[k].crosstalk,
                    uncertain |-> segs[k].uncertain]
      BY <3>1, <3>2
    <3>4. QED BY <3>1, <3>3 DEF IsSegment
  <2>4. DOMAIN new = DOMAIN segs /\ new = [k \in 1..Len(segs) |-> new[k]]
    BY <2>1, <2>2
  <2>5. IsList(new) /\ Len(new) = Len(segs)
    BY <2>2, <2>4, EveryListIs
  <2>6. \A k, l \in DOMAIN segs : segs[k].speaker = segs[l].speaker => role(k) = role(l)
    OBVIOUS
  <2> HIDE DEF role, new
  <2>7. SegmentsTyped(new)
    BY <2>3, <2>4, <2>5 DEF SegmentsTyped
  <2>8. OneRole(new)
    <3>1. SUFFICES ASSUME NEW k \in DOMAIN segs, NEW l \in DOMAIN segs, new[k].speaker = new[l].speaker
                   PROVE  new[k].role = new[l].role
      BY <2>4 DEF OneRole
    <3>2. segs[k].speaker = segs[l].speaker
      BY <2>3, <3>1
    <3>3. role(k) = role(l)
      BY <2>6, <3>2
    <3>4. new[k].role = role(k) /\ new[l].role = role(l)
      BY <2>3
    <3>5. QED BY <3>3, <3>4
  <2>9. QED BY <2>3, <2>4, <2>5, <2>7, <2>8 DEF new
<1>3. QED BY <1>1, <1>2

-----------------------------------------------------------------------------
(***************************************************************************)
(* What the words are, through all the stages                              *)
(***************************************************************************)
LEMMA BoundsAre ==
  /\ Duration \in Nat /\ Pad \in Nat /\ MaxAttempts \in Nat /\ MinOverlap \in Nat
  /\ InterruptionOverlap \in Nat /\ MinOverlap > 0
  /\ \A a, b \in Int : Max({a, b}) \in {a, b} /\ Max({a, b}) >= a /\ Max({a, b}) >= b
  /\ \A a, b \in Int : Min({a, b}) \in {a, b} /\ Min({a, b}) =< a /\ Min({a, b}) =< b
<1>1. ASSUME NEW a \in Int, NEW b \in Int
      PROVE  /\ Max({a, b}) \in {a, b} /\ Max({a, b}) >= a /\ Max({a, b}) >= b
             /\ Min({a, b}) \in {a, b} /\ Min({a, b}) =< a /\ Min({a, b}) =< b
  <2>1. {a, b} \in SUBSET Int /\ a \in {a, b} /\ b \in {a, b}
    OBVIOUS
  <2>2. CASE a =< b
    <3>1. Max({a, b}) = b /\ Min({a, b}) = a
      BY <2>1, <2>2, GreatestIs, LeastIs
    <3>2. QED BY <2>2, <3>1
  <2>3. CASE b =< a
    <3>1. Max({a, b}) = a /\ Min({a, b}) = b
      BY <2>1, <2>3, GreatestIs, LeastIs
    <3>2. QED BY <2>3, <3>1
  <2>4. QED BY <2>2, <2>3
<1>2. QED BY <1>1, TranscriptAssumption

LEMMA WordIs ==
  ASSUME NEW i, i.from \in Nat, i.to \in Nat, NEW c \in Confidences \cup {"none"},
         NEW r \in BOOLEAN, NEW again \in BOOLEAN
  PROVE  Word(i, c, r, again) \in WordSet
BY DEF Word, WordSet

(* The words of a decode of a clip stand where the clip stands in the recording. *)
LEMMA FoundIs ==
  ASSUME NEW t \in Turns, NEW f \in FoundIn(t)
  PROVE  f = <<>> \/ \E w \in WordSet : f = <<w>>
<1> DEFINE clip == Clip(t)
           shifted(i) == [from |-> i.from + clip.from, to |-> i.to + clip.from]
<1>1. t.from \in Nat /\ t.to \in Nat
  BY BoundsAre DEF Turns
<1>2. clip.from \in Nat /\ clip.to \in Int
  <2>1. 0 \in Int /\ t.from - Pad \in Int /\ t.to + Pad \in Int /\ Duration \in Int
    BY <1>1, BoundsAre
  <2>2. Max({0, t.from - Pad}) \in {0, t.from - Pad} /\ Max({0, t.from - Pad}) >= 0
    BY <2>1, BoundsAre
  <2>3. Min({Duration, t.to + Pad}) \in {Duration, t.to + Pad}
    BY <2>1, BoundsAre
  <2>4. QED BY <2>1, <2>2, <2>3 DEF Clip
<1>3. \A i \in Intervals(clip.to - clip.from) : i.from \in Nat /\ i.to \in Nat
  <2>1. clip.to - clip.from \in Int
    BY <1>2
  <2> HIDE DEF clip
  <2>2. QED BY <2>1 DEF Intervals
<1>4. \A i \in Intervals(clip.to - clip.from), r \in BOOLEAN : Word(shifted(i), "none", r, TRUE) \in WordSet
  <2>1. SUFFICES ASSUME NEW i \in Intervals(clip.to - clip.from), NEW r \in BOOLEAN
                 PROVE  Word(shifted(i), "none", r, TRUE) \in WordSet
    OBVIOUS
  <2>2. i.from + clip.from \in Nat /\ i.to + clip.from \in Nat
    BY <1>2, <1>3
  <2>3. shifted(i).from \in Nat /\ shifted(i).to \in Nat
    BY <2>2
  <2>4. QED BY <2>3, WordIs
<1> DEFINE heard(i, r) == <<Word(shifted(i), "none", r, TRUE)>>
           S == {heard(i, r) : i \in Intervals(clip.to - clip.from), r \in BOOLEAN}
<1>5. FoundIn(t) = {<<>>} \cup S
  BY DEF FoundIn
<1>6. \A i \in Intervals(clip.to - clip.from), r \in BOOLEAN : \E w \in WordSet : heard(i, r) = <<w>>
  BY <1>4
<1> HIDE DEF clip, shifted, heard
<1>7. CASE f = <<>>
  BY <1>7
<1>8. CASE f # <<>>
  <2>1. f \in S
    BY <1>5, <1>8
  <2>2. PICK i \in Intervals(clip.to - clip.from), r \in BOOLEAN : f = heard(i, r)
    BY <2>1
  <2>3. QED BY <1>6, <2>2
<1>9. QED BY <1>7, <1>8

LEMMA InitialWords ==
  ASSUME Init
  PROVE  words \in Seq(WordSet) /\ TurnsTyped
<1>1. \A S, n, ws : ws \in SeqsUpTo(S, n) => \E k \in Nat : ws \in [1..k -> S]
  <2>1. SUFFICES ASSUME NEW S, NEW n, NEW ws \in UNION {[1..k -> S] : k \in 0..n}
                 PROVE  \E k \in Nat : ws \in [1..k -> S]
    BY DEF SeqsUpTo
  <2>2. QED OBVIOUS
<1> DEFINE word(i, c, r) == Word(i, c, r, FALSE)
           W == {word(i, c, r) : i \in Intervals(Duration),
                   c \in Confidences \cup {"none"}, r \in BOOLEAN}
<1>2. words \in SeqsUpTo(W, MaxWords)
  BY DEF Init
<1> HIDE DEF W
<1>3. W \subseteq WordSet
  <2>1. SUFFICES ASSUME NEW w \in W PROVE w \in WordSet
    OBVIOUS
  <2>2. PICK i \in Intervals(Duration), c \in Confidences \cup {"none"}, r \in BOOLEAN :
            w = word(i, c, r)
    <3> HIDE DEF word
    <3>1. QED BY DEF W
  <2>3. i.from \in Nat /\ i.to \in Nat
    BY BoundsAre DEF Intervals
  <2>4. word(i, c, r) \in WordSet
    BY <2>3, WordIs
  <2>5. QED BY <2>4, <2>2
<1>4. PICK n \in Nat : words \in [1..n -> W]
  BY <1>1, <1>2
<1>5. words \in Seq(WordSet)
  BY <1>3, <1>4
<1>6. turns \in SeqsUpTo(Turns, MaxSize - Len(words)) /\ Diarized(turns)
  BY DEF Init
<1>7. PICK m \in Nat : turns \in [1..m -> Turns]
  BY <1>1, <1>6
<1>8. turns \in Seq(Turns)
  BY <1>7
<1>9. QED BY <1>5, <1>6, <1>8 DEF TurnsTyped

LEMMA RecoverWords ==
  ASSUME TurnsTyped, words \in Seq(WordSet), Recover
  PROVE  words' \in Seq(WordSet)
<1> DEFINE empty == Kept(turns, {k \in DOMAIN turns :
                                   /\ turns[k].to - turns[k].from >= MinTurn
                                   /\ \A i \in DOMAIN words : Apart(words[i], turns[k])})
           least == Min({MaxAttempts, Len(empty)})
<1>1. empty \in Seq(Turns)
  <2>1. turns \in Seq(Turns)
    BY DEF TurnsTyped
  <2>2. QED BY <2>1, KeptIs
<1>2. ToRecover = SubSeq(empty, 1, least)
  BY DEF ToRecover
<1> HIDE DEF empty
<1>3. least \in Nat /\ least =< Len(empty)
  <2>1. MaxAttempts \in Nat /\ Len(empty) \in Nat /\ MaxAttempts \in Int /\ Len(empty) \in Int
    BY <1>1, BoundsAre
  <2>2. least \in {MaxAttempts, Len(empty)} /\ least =< Len(empty)
    BY <2>1, BoundsAre
  <2>3. QED BY <2>1, <2>2
<1> HIDE DEF least
<1>4. ToRecover \in Seq(Turns) /\ DOMAIN ToRecover = 1..least /\ \A i \in 1..least : ToRecover[i] \in Turns
  BY <1>1, <1>2, <1>3
<1>5. PICK found \in [DOMAIN ToRecover -> UNION {FoundIn(t) : t \in Range(ToRecover)}] :
          /\ \A i \in DOMAIN ToRecover : found[i] \in FoundIn(ToRecover[i])
          /\ LET heard == Kept(found, {i \in DOMAIN found : found[i] # <<>>})
             IN words' = SortedByStart(words \o [k \in DOMAIN heard |-> heard[k][1]])
  BY DEF Recover
<1> DEFINE X == UNION {FoundIn(t) : t \in Range(ToRecover)}
           I == {i \in DOMAIN found : found[i] # <<>>}
           heard == Kept(found, I)
           late == [k \in DOMAIN heard |-> heard[k][1]]
<1>6. found \in Seq(X) /\ DOMAIN found = 1..least
  BY <1>3, <1>4, <1>5
<1>7. words' = SortedByStart(words \o late)
  BY <1>5
<1>8. \A i \in I : found[i][1] \in WordSet
  <2>1. SUFFICES ASSUME NEW i \in I PROVE found[i][1] \in WordSet
    OBVIOUS
  <2>2. i \in 1..least /\ found[i] \in FoundIn(ToRecover[i]) /\ ToRecover[i] \in Turns /\ found[i] # <<>>
    BY <1>4, <1>5, <1>6
  <2>3. \E w \in WordSet : found[i] = <<w>>
    BY <2>2, FoundIs
  <2>4. QED BY <2>3
<1>9. I \in SUBSET (DOMAIN found)
  OBVIOUS
<1> HIDE DEF X, I
<1>10. /\ heard \in Seq(X)
       /\ Places(I) \in [DOMAIN heard -> I]
       /\ \A k \in DOMAIN heard : heard[k] = found[Places(I)[k]]
  <2> HIDE DEF heard
  <2>1. I \in SUBSET (DOMAIN found) /\ found \in Seq(X) /\ heard = Kept(found, I)
    BY <1>6, <1>9 DEF heard
  <2>2. /\ heard \in Seq(X) /\ Places(I) \in [DOMAIN heard -> I]
        /\ \A k, l \in DOMAIN heard :
              heard[k] = found[Places(I)[k]] /\ (Places(I)[k] = Places(I)[l] => k = l)
    BY <2>1, KeptIs
  <2>3. QED BY <2>2
<1> HIDE DEF heard
<1>11. \A k \in DOMAIN heard : heard[k][1] \in WordSet
  BY <1>8, <1>10
<1>12. late \in Seq(WordSet)
  <2>1. Len(heard) \in Nat /\ DOMAIN heard = 1..Len(heard)
    BY <1>10
  <2>2. QED BY <1>11, <2>1
<1> HIDE DEF late
<1> DEFINE all == words \o late
<1>13. all \in Seq(WordSet)
  BY <1>12, Joined
<1> HIDE DEF all
<1>14. /\ Len(all) \in Nat /\ DOMAIN all = 1..Len(all)
       /\ \A i \in DOMAIN all : all[i] \in WordSet /\ all[i].from \in Nat
  <2>1. \A w \in WordSet : w.from \in Nat
    BY DEF WordSet
  <2>2. QED BY <1>13, <2>1
<1>15. IsList(all)
  <2>1. all = [k \in 1..Len(all) |-> all[k]]
    BY <1>13
  <2>2. QED BY <1>14, <2>1, EveryListIs
<1>16. /\ IsList(SortedByStart(all))
       /\ \A k \in DOMAIN SortedByStart(all) : \E i \in DOMAIN all : SortedByStart(all)[k] = all[i]
  BY <1>14, <1>15, SortedIs
<1>17. words' = SortedByStart(all)
  BY <1>7 DEF all
<1>18. words' \in Seq(Range(words')) /\ \A k \in DOMAIN words' : words'[k] \in WordSet
  BY <1>14, <1>16, <1>17 DEF IsList
<1>19. Len(words') \in Nat /\ words' \in [1..Len(words') -> WordSet]
  BY <1>18
<1>20. QED BY <1>19

-----------------------------------------------------------------------------
(***************************************************************************)
(* Segments: the words of the call, cut where the speaker changes or a     *)
(* pause is too long.                                                      *)
(***************************************************************************)
LEMMA GroupsAre ==
  ASSUME words \in Seq(WordSet)
  PROVE  /\ Len(Grouped) \in Nat /\ DOMAIN Grouped = 1..Len(Grouped)
         /\ Grouped \in Seq(Seq(WordSet))
         /\ \E cut \in [0..Len(Grouped) -> 0..Len(words)] :
               /\ cut[0] = 0 /\ cut[Len(Grouped)] = Len(words)
               /\ \A k \in DOMAIN Grouped :
                     /\ cut[k - 1] < cut[k]
                     /\ Grouped[k] = SubSeq(words, cut[k - 1] + 1, cut[k])
                     /\ \A i \in (cut[k - 1] + 2)..cut[k] :
                           i \in DOMAIN words => SpeakerOf(words[i - 1]) = SpeakerOf(words[i])
<1> DEFINE joins(v, w) == SpeakerOf(v) = SpeakerOf(w) /\ w.from - v.to =< Gap
           first == {i \in DOMAIN words : i = 1 \/ ~joins(words[i - 1], words[i])}
<1>1. Grouped = CutBefore(words, first)
  BY DEF Grouped, Stretches, CutBefore
<1>2. first \in SUBSET (DOMAIN words) /\ (Len(words) > 0 => 1 \in first)
  OBVIOUS
<1>3. \A i \in DOMAIN words : i \notin first => SpeakerOf(words[i - 1]) = SpeakerOf(words[i])
  OBVIOUS
<1> HIDE DEF first
<1> DEFINE n == Cardinality(first)
           parts == CutBefore(words, first)
<1>4. PartsOf(WordSet, words, first, parts, n)
  BY <1>2, PartsAre
<1>5. /\ n \in Nat /\ Grouped \in Seq(Seq(WordSet)) /\ DOMAIN Grouped = 1..n /\ Len(Grouped) = n
      /\ \E cut \in [0..n -> 0..Len(words)] :
            /\ cut[0] = 0 /\ cut[n] = Len(words)
            /\ \A k \in 1..n :
                  /\ cut[k - 1] < cut[k]
                  /\ Grouped[k] = SubSeq(words, cut[k - 1] + 1, cut[k])
                  /\ \A i \in (cut[k - 1] + 2)..cut[k] : i \notin first
  BY <1>1, <1>4 DEF PartsOf
<1> HIDE DEF n
<1>6. PICK cut \in [0..n -> 0..Len(words)] :
            /\ cut[0] = 0 /\ cut[n] = Len(words)
            /\ \A k \in 1..n :
                  /\ cut[k - 1] < cut[k]
                  /\ Grouped[k] = SubSeq(words, cut[k - 1] + 1, cut[k])
                  /\ \A i \in (cut[k - 1] + 2)..cut[k] : i \notin first
  BY <1>5
<1>7. \A k \in 1..n :
         /\ cut[k - 1] < cut[k]
         /\ Grouped[k] = SubSeq(words, cut[k - 1] + 1, cut[k])
         /\ \A i \in (cut[k - 1] + 2)..cut[k] :
               i \in DOMAIN words => SpeakerOf(words[i - 1]) = SpeakerOf(words[i])
  BY <1>3, <1>6
<1>8. QED BY <1>5, <1>6, <1>7

(* A segment tells of its words what the transcript shows of them. *)
Tells(seg, ws) ==
    /\ seg.words = ws /\ seg.speaker = SpeakerOf(ws[1])
    /\ seg.from = ws[1].from /\ seg.to = Last(ws).to
    /\ seg.uncertain = (Questionable(ws) \/ TalkedOver(seg))

Built(segs) ==
    /\ SegmentsTyped(segs) /\ OneRole(segs)
    /\ DOMAIN segs = DOMAIN Grouped /\ Len(segs) = Len(Grouped)
    /\ \A k \in DOMAIN segs : Tells(segs[k], Grouped[k])

LEMMA SameTalk ==
  ASSUME NEW g, NEW h, g.from = h.from, g.to = h.to
  PROVE  TalkedOver(g) = TalkedOver(h)
BY DEF TalkedOver, Apart

LEMMA AlignBuilds ==
  ASSUME words \in Seq(WordSet), Align
  PROVE  \E built : /\ Built(built)
                    /\ segments' = built \/ \E agent : segments' = WithRoles(built, agent)
<1> DEFINE seg(ws) == [words |-> ws, speaker |-> SpeakerOf(ws[1]), role |-> "unknown",
                       from |-> ws[1].from, to |-> Last(ws).to, crosstalk |-> FALSE,
                       uncertain |-> Questionable(ws)]
           marked(g) == [g EXCEPT !.crosstalk = TalkedOver(g), !.uncertain = @ \/ TalkedOver(g)]
           built == [k \in DOMAIN Grouped |-> marked(seg(Grouped[k]))]
<1>1. \/ built = <<>> /\ segments' = <<>>
      \/ \E k \in DOMAIN built : segments' = WithRoles(built, built[k].speaker)
  BY DEF Align
<1>2. Len(Grouped) \in Nat /\ DOMAIN Grouped = 1..Len(Grouped)
  BY GroupsAre
<1>3. ASSUME NEW ws, NEW g, g = seg(ws), NEW h, h = marked(g)
      PROVE  /\ g.from = ws[1].from /\ g.to = Last(ws).to
             /\ h.words = ws /\ h.speaker = SpeakerOf(ws[1]) /\ h.role = "unknown"
             /\ h.from = ws[1].from /\ h.to = Last(ws).to
             /\ h.uncertain = (Questionable(ws) \/ TalkedOver(g))
             /\ IsSegment(h)
  <2> DEFINE one == SpeakerOf(ws[1])
             from == ws[1].from
             to == Last(ws).to
             doubt == Questionable(ws)
             over == TalkedOver(g)
  <2>1. /\ g = [words |-> ws, speaker |-> one, role |-> "unknown", from |-> from, to |-> to,
                crosstalk |-> FALSE, uncertain |-> doubt]
        /\ h = [g EXCEPT !.crosstalk = over, !.uncertain = @ \/ over]
    BY <1>3
  <2> HIDE DEF one, from, to, doubt, over
  <2>2. g.from = from /\ g.to = to
    BY <2>1
  <2>3. /\ h.words = ws /\ h.speaker = one /\ h.role = "unknown" /\ h.from = from /\ h.to = to
        /\ h.uncertain = (doubt \/ over)
    BY <2>1
  <2>4. IsSegment(h)
    BY <2>1 DEF IsSegment
  <2>5. QED BY <2>2, <2>3, <2>4 DEF one, from, to, doubt, over
<1>4. ASSUME NEW ws
      PROVE  /\ IsSegment(marked(seg(ws))) /\ Tells(marked(seg(ws)), ws)
             /\ marked(seg(ws)).role = "unknown"
  <2> DEFINE g == seg(ws)
             h == marked(g)
  <2> HIDE DEF seg, marked
  <2>1. /\ g.from = ws[1].from /\ g.to = Last(ws).to
        /\ h.words = ws /\ h.speaker = SpeakerOf(ws[1]) /\ h.role = "unknown"
        /\ h.from = ws[1].from /\ h.to = Last(ws).to
        /\ h.uncertain = (Questionable(ws) \/ TalkedOver(g))
        /\ IsSegment(h)
    BY <1>3
  <2> HIDE DEF g, h
  <2>2. TalkedOver(h) = TalkedOver(g)
    BY <2>1, SameTalk
  <2>3. IsSegment(h) /\ Tells(h, ws) /\ h.role = "unknown"
    BY <2>1, <2>2 DEF Tells
  <2>4. QED BY <2>3 DEF g, h
<1> HIDE DEF marked, seg
<1>5. /\ DOMAIN built = DOMAIN Grouped
      /\ \A k \in DOMAIN Grouped : /\ IsSegment(built[k]) /\ Tells(built[k], Grouped[k])
                                   /\ built[k].role = "unknown"
  BY <1>4
<1>6. IsList(built) /\ Len(built) = Len(Grouped)
  <2>1. built = [k \in 1..Len(Grouped) |-> built[k]]
    BY <1>2
  <2> HIDE DEF built
  <2>2. Len(built) = Len(Grouped)
    BY <1>2, <2>1
  <2>3. QED BY <1>2, <2>1, <2>2, EveryListIs
<1> HIDE DEF built
<1>7. OneRole(built)
  BY <1>5 DEF OneRole
<1>8. Built(built)
  BY <1>5, <1>6, <1>7 DEF Built, SegmentsTyped
<1>9. QED BY <1>1, <1>8

LEMMA OneSpeaker ==
  ASSUME words \in Seq(WordSet), NEW lo \in 0..Len(words), NEW hi \in 0..Len(words),
         \A i \in (lo + 2)..hi : i \in DOMAIN words => SpeakerOf(words[i - 1]) = SpeakerOf(words[i]),
         NEW j \in (lo + 1)..hi
  PROVE  SpeakerOf(words[j]) = SpeakerOf(words[lo + 1])
<1> DEFINE Other == {i \in (lo + 1)..hi : SpeakerOf(words[i]) # SpeakerOf(words[lo + 1])}
<1>1. Len(words) \in Nat /\ DOMAIN words = 1..Len(words) /\ lo \in Nat /\ hi \in Nat
  OBVIOUS
<1>2. SUFFICES Other = {}
  OBVIOUS
<1>3. SUFFICES ASSUME Other # {} PROVE FALSE
  OBVIOUS
<1>4. Other \in SUBSET Nat
  BY <1>1
<1> DEFINE i == Min(Other)
<1>5. i \in Other /\ \A k \in Other : i =< k
  <2> HIDE DEF Other
  <2>1. QED BY <1>3, <1>4, LeastNumber
<1> HIDE DEF i
<1>6. i \in (lo + 1)..hi /\ SpeakerOf(words[i]) # SpeakerOf(words[lo + 1])
  BY <1>5
<1>7. i \in (lo + 2)..hi /\ i - 1 \in (lo + 1)..hi /\ i \in DOMAIN words
  <2>1. i # lo + 1
    BY <1>6
  <2>2. QED BY <1>1, <1>6, <2>1
<1>8. i - 1 \notin Other
  BY <1>1, <1>5, <1>7
<1>9. QED BY <1>6, <1>7, <1>8

(* The words of a segment are words of the call, and all of them are given to the
   same speaker. *)
LEMMA GroupHolds ==
  ASSUME words \in Seq(WordSet), NEW k \in DOMAIN Grouped
  PROVE  /\ Grouped[k] \in Seq(WordSet) /\ Len(Grouped[k]) \in Nat /\ Len(Grouped[k]) > 0
         /\ DOMAIN Grouped[k] = 1..Len(Grouped[k])
         /\ \A i \in DOMAIN Grouped[k] :
               /\ Grouped[k][i] \in WordSet
               /\ \E j \in DOMAIN words : Grouped[k][i] = words[j]
               /\ SpeakerOf(Grouped[k][i]) = SpeakerOf(Grouped[k][1])
<1>1. Len(Grouped) \in Nat /\ DOMAIN Grouped = 1..Len(Grouped) /\ Grouped \in Seq(Seq(WordSet))
  BY GroupsAre
<1>2. PICK cut \in [0..Len(Grouped) -> 0..Len(words)] :
          \A l \in DOMAIN Grouped :
             /\ cut[l - 1] < cut[l]
             /\ Grouped[l] = SubSeq(words, cut[l - 1] + 1, cut[l])
             /\ \A i \in (cut[l - 1] + 2)..cut[l] :
                   i \in DOMAIN words => SpeakerOf(words[i - 1]) = SpeakerOf(words[i])
  BY GroupsAre
<1> DEFINE lo == cut[k - 1]
           hi == cut[k]
<1>3. lo \in 0..Len(words) /\ hi \in 0..Len(words) /\ lo < hi
  <2>1. k - 1 \in 0..Len(Grouped) /\ k \in 0..Len(Grouped)
    BY <1>1
  <2>2. QED BY <1>2, <2>1
<1>4. /\ Grouped[k] = SubSeq(words, lo + 1, hi)
      /\ \A i \in (lo + 2)..hi : i \in DOMAIN words => SpeakerOf(words[i - 1]) = SpeakerOf(words[i])
  BY <1>2
<1> HIDE DEF lo, hi
<1>5. Len(words) \in Nat /\ DOMAIN words = 1..Len(words) /\ lo \in Nat /\ hi \in Nat
  BY <1>3
<1>6. /\ Grouped[k] \in Seq(WordSet) /\ Len(Grouped[k]) = hi - lo
      /\ DOMAIN Grouped[k] = 1..(hi - lo)
      /\ \A i \in 1..(hi - lo) : Grouped[k][i] = words[lo + i]
  BY <1>3, <1>4, <1>5
<1>7. ASSUME NEW i \in 1..(hi - lo)
      PROVE  SpeakerOf(words[lo + i]) = SpeakerOf(words[lo + 1])
  <2>1. lo + i \in (lo + 1)..hi
    BY <1>5
  <2>2. QED BY <1>3, <1>4, <2>1, OneSpeaker
<1>8. 1 \in 1..(hi - lo) /\ \A i \in 1..(hi - lo) : lo + i \in DOMAIN words
  BY <1>3, <1>5
<1>9. ASSUME NEW i \in DOMAIN Grouped[k]
      PROVE  /\ Grouped[k][i] \in WordSet
             /\ \E j \in DOMAIN words : Grouped[k][i] = words[j]
             /\ SpeakerOf(Grouped[k][i]) = SpeakerOf(Grouped[k][1])
  <2>1. i \in 1..(hi - lo)
    BY <1>6
  <2>2. Grouped[k][i] = words[lo + i] /\ lo + i \in DOMAIN words /\ Grouped[k][1] = words[lo + 1]
    BY <1>6, <1>8, <2>1
  <2>3. Grouped[k][i] \in WordSet
    BY <1>6, <2>1
  <2>4. QED BY <1>7, <2>1, <2>2, <2>3
<1>10. Len(Grouped[k]) \in Nat /\ Len(Grouped[k]) > 0
  BY <1>3, <1>5, <1>6
<1>11. QED BY <1>6, <1>9, <1>10

(* A word is given to one of those who talk longest during it. The turns that are
   looked at, those that start before the word ends, are all that overlap it. *)
LongestTalk(w, ts) == Max({0} \cup {Common(w, t) : t \in Range(ts)})

LEMMA GivenToLongest ==
  ASSUME TurnsTyped, NEW w, w.from \in Nat, w.to \in Nat, LongestTalk(w, turns) > 0
  PROVE  \E t \in Range(turns) : t.speaker = SpeakerOf(w) /\ Common(w, t) = LongestTalk(w, turns)
<1> DEFINE S == {0} \cup {Common(w, t) : t \in Range(turns)}
           overlapping == {i \in Before(w) : Common(w, turns[i]) > 0}
           longest == {i \in overlapping : \A j \in overlapping : Common(w, turns[j]) =< Common(w, turns[i])}
           nearest == {i \in DOMAIN turns : \A j \in DOMAIN turns : Away(w, turns[i]) =< Away(w, turns[j])}
<1>1. \A i \in DOMAIN turns :
         /\ Common(w, turns[i]) \in Nat /\ Common(w, turns[i]) =< w.to
         /\ Common(w, turns[i]) > 0 => i \in Before(w)
  <2>1. SUFFICES ASSUME NEW i \in DOMAIN turns
                 PROVE  /\ Common(w, turns[i]) \in Nat /\ Common(w, turns[i]) =< w.to
                        /\ Common(w, turns[i]) > 0 => i \in Before(w)
    OBVIOUS
  <2>2. turns[i].from \in Nat /\ turns[i].to \in Nat
    BY TurnFacts
  <2>3. Common(w, turns[i]) \in Nat /\ Common(w, turns[i]) =< w.to
    BY <2>2 DEF Common
  <2>4. ASSUME Common(w, turns[i]) > 0 PROVE i \in Before(w)
    <3>1. turns[i].from < w.to
      BY <2>2, <2>4, CommonIs
    <3>2. \A j \in 1..i : turns[j].from < w.to
      <4>1. SUFFICES ASSUME NEW j \in 1..i PROVE turns[j].from < w.to
        OBVIOUS
      <4>2. j \in DOMAIN turns /\ (j < i \/ j = i)
        BY TurnFacts
      <4>3. turns[j].from \in Nat /\ turns[j].from =< turns[i].from
        BY <4>2, TurnFacts
      <4>4. QED BY <2>2, <3>1, <4>3
    <3>3. QED BY <3>2 DEF Before
  <2>5. QED BY <2>3, <2>4
<1>2. S \in SUBSET Nat /\ S \subseteq 0..w.to /\ S # {}
  <2>1. \A t \in Range(turns) : Common(w, t) \in Nat /\ Common(w, t) =< w.to
    BY <1>1 DEF Range
  <2>2. QED BY <2>1
<1>3. IsFiniteSet(S)
  <2>1. IsFiniteSet(0..w.to)
    BY FS_Interval
  <2> HIDE DEF S
  <2>2. QED BY <1>2, <2>1, FS_Subset
<1>4. Max(S) \in S /\ \A x \in S : x =< Max(S)
  <2> HIDE DEF S
  <2>1. QED BY <1>2, <1>3, GreatestNumber
<1> DEFINE m == LongestTalk(w, turns)
<1>5. m > 0 /\ m = Max(S)
  BY DEF LongestTalk
<1> HIDE DEF m
<1>6. PICK top \in DOMAIN turns : Common(w, turns[top]) = m
  <2>1. m \in S /\ m # 0
    BY <1>4, <1>5
  <2>2. PICK t \in Range(turns) : m = Common(w, t)
    BY <2>1
  <2>3. QED BY <2>2 DEF Range
<1>7. \A i \in DOMAIN turns : Common(w, turns[i]) =< m
  <2>1. \A t \in Range(turns) : Common(w, t) \in S
    OBVIOUS
  <2>2. QED BY <1>4, <1>5, <2>1 DEF Range
<1>8. m \in Nat /\ m > 0
  BY <1>2, <1>4, <1>5
<1>9. top \in overlapping /\ top \in longest
  <2>1. overlapping \subseteq DOMAIN turns
    BY DEF Before
  <2>2. top \in overlapping
    BY <1>1, <1>6, <1>8
  <2>3. QED BY <1>6, <1>7, <2>1, <2>2
<1> DEFINE one == Min(longest)
<1>10. one \in longest
  <2>1. longest \in SUBSET Nat
    BY TurnFacts DEF Before
  <2> HIDE DEF longest
  <2>2. QED BY <1>9, <2>1, LeastNumber
<1>11. SpeakerOf(w) = turns[one].speaker
  <2>1. turns # <<>> /\ overlapping # {}
    BY <1>9, TurnFacts
  <2>2. SpeakerOf(w) = IF turns = <<>> THEN 0
                       ELSE turns[Min(IF overlapping = {} THEN nearest ELSE longest)].speaker
    BY DEF SpeakerOf
  <2> HIDE DEF overlapping, nearest, longest
  <2>3. QED BY <2>1, <2>2
<1> HIDE DEF one
<1>12. one \in DOMAIN turns /\ Common(w, turns[top]) =< Common(w, turns[one])
  BY <1>9, <1>10 DEF Before
<1>13. Common(w, turns[one]) = m
  BY <1>1, <1>6, <1>7, <1>8, <1>12
<1>14. turns[one] \in Range(turns)
  BY <1>12 DEF Range
<1>15. QED BY <1>11, <1>13, <1>14 DEF m

(* What the transcript owes its readers, of any words, turns and regions: each word
   is in a segment of one who talks longest during it, and a segment is marked if
   its words or talk over it give a reason. *)
Divides(segs, ws) ==
    \E cut \in [0..Len(segs) -> 0..Len(ws)] :
       /\ cut[0] = 0 /\ cut[Len(segs)] = Len(ws)
       /\ \A k \in DOMAIN segs :
             /\ cut[k - 1] < cut[k]
             /\ segs[k].words = SubSeq(ws, cut[k - 1] + 1, cut[k])

Placed(segs, ts) ==
    \A k \in DOMAIN segs : \A i \in DOMAIN segs[k].words :
       LET w == segs[k].words[i]
       IN LongestTalk(w, ts) > 0 =>
             \E t \in Range(ts) : t.speaker = segs[k].speaker /\ Common(w, t) = LongestTalk(w, ts)

Warns(segs, ws, rs) ==
    \A k \in DOMAIN segs :
        /\ segs[k].from \in Nat /\ segs[k].to \in Nat
        /\ \A i \in DOMAIN segs[k].words : \E j \in DOMAIN ws : segs[k].words[i] = ws[j]
        /\ Questionable(segs[k].words) \/ (\E l \in DOMAIN rs : ~Apart(rs[l], segs[k]))
              => segs[k].uncertain

Sound(segs, ws, ts, rs) ==
    /\ SegmentsTyped(segs) /\ OneRole(segs)
    /\ Divides(segs, ws) /\ Placed(segs, ts) /\ Warns(segs, ws, rs)

LEMMA BuiltIsSound ==
  ASSUME TurnsTyped, words \in Seq(WordSet), NEW segs, Built(segs)
  PROVE  Sound(segs, words, turns, regions)
<1>1. /\ DOMAIN segs = DOMAIN Grouped /\ Len(segs) = Len(Grouped)
      /\ SegmentsTyped(segs) /\ OneRole(segs)
      /\ \A k \in DOMAIN segs :
            /\ segs[k].words = Grouped[k] /\ segs[k].speaker = SpeakerOf(Grouped[k][1])
            /\ segs[k].from = Grouped[k][1].from /\ segs[k].to = Last(Grouped[k]).to
            /\ segs[k].uncertain = (Questionable(Grouped[k]) \/ TalkedOver(segs[k]))
  BY DEF Built, Tells
<1>2. PICK cut \in [0..Len(Grouped) -> 0..Len(words)] :
          /\ cut[0] = 0 /\ cut[Len(Grouped)] = Len(words)
          /\ \A k \in DOMAIN Grouped :
                /\ cut[k - 1] < cut[k]
                /\ Grouped[k] = SubSeq(words, cut[k - 1] + 1, cut[k])
  BY GroupsAre
<1>3. ASSUME NEW k \in DOMAIN segs, NEW i \in DOMAIN segs[k].words, NEW w,
             w = segs[k].words[i], LongestTalk(w, turns) > 0
      PROVE  \E t \in Range(turns) : t.speaker = segs[k].speaker /\ Common(w, t) = LongestTalk(w, turns)
  <2>1. k \in DOMAIN Grouped /\ i \in DOMAIN Grouped[k] /\ w = Grouped[k][i]
    BY <1>1, <1>3
  <2>2. w \in WordSet /\ SpeakerOf(w) = segs[k].speaker
    BY <1>1, <2>1, GroupHolds
  <2>3. w.from \in Nat /\ w.to \in Nat
    BY <2>2 DEF WordSet
  <2>4. QED BY <1>3, <2>2, <2>3, GivenToLongest
<1>4. Divides(segs, words)
  <2>1. /\ Len(segs) = Len(Grouped)
        /\ \A k \in DOMAIN segs :
              /\ cut[k - 1] < cut[k]
              /\ segs[k].words = SubSeq(words, cut[k - 1] + 1, cut[k])
    BY <1>1, <1>2
  <2>2. cut \in [0..Len(segs) -> 0..Len(words)] /\ cut[0] = 0 /\ cut[Len(segs)] = Len(words)
    BY <1>2, <2>1
  <2>3. QED BY <2>1, <2>2 DEF Divides
<1>5. Placed(segs, turns)
  BY <1>3 DEF Placed
<1>6. ASSUME NEW k \in DOMAIN segs
      PROVE  /\ segs[k].from \in Nat /\ segs[k].to \in Nat
             /\ \A i \in DOMAIN segs[k].words : \E j \in DOMAIN words : segs[k].words[i] = words[j]
             /\ Questionable(segs[k].words) \/ (\E l \in DOMAIN regions : ~Apart(regions[l], segs[k]))
                   => segs[k].uncertain
  <2> DEFINE ws == Grouped[k]
  <2>1. /\ Len(ws) \in Nat /\ Len(ws) > 0 /\ DOMAIN ws = 1..Len(ws)
        /\ \A i \in DOMAIN ws : ws[i] \in WordSet /\ \E j \in DOMAIN words : ws[i] = words[j]
    BY <1>1, GroupHolds
  <2>2. segs[k].words = ws /\ segs[k].from = ws[1].from /\ segs[k].to = Last(ws).to
    BY <1>1
  <2> HIDE DEF ws
  <2>3. ws[1] \in WordSet /\ Last(ws) \in WordSet
    BY <2>1 DEF Last
  <2>4. segs[k].from \in Nat /\ segs[k].to \in Nat
    BY <2>2, <2>3 DEF WordSet
  <2>5. (\E l \in DOMAIN regions : ~Apart(regions[l], segs[k])) => TalkedOver(segs[k])
    BY DEF TalkedOver
  <2>6. QED BY <1>1, <2>1, <2>2, <2>4, <2>5
<1>7. Warns(segs, words, regions)
  BY <1>6 DEF Warns
<1>8. QED BY <1>1, <1>4, <1>5, <1>7 DEF Sound

LEMMA SoundAgain ==
  ASSUME NEW segs, NEW ws, NEW ts, NEW rs, Sound(segs, ws, ts, rs), NEW agent
  PROVE  Sound(WithRoles(segs, agent), ws, ts, rs)
<1> DEFINE new == WithRoles(segs, agent)
<1>1. /\ SegmentsTyped(segs) /\ OneRole(segs)
      /\ Divides(segs, ws) /\ Placed(segs, ts) /\ Warns(segs, ws, rs)
  BY DEF Sound
<1>2. /\ SegmentsTyped(new) /\ OneRole(new)
      /\ DOMAIN new = DOMAIN segs /\ Len(new) = Len(segs)
      /\ \A k \in DOMAIN segs :
            /\ new[k].words = segs[k].words /\ new[k].speaker = segs[k].speaker
            /\ new[k].from = segs[k].from /\ new[k].to = segs[k].to
            /\ new[k].uncertain = segs[k].uncertain
  BY <1>1, WithRolesIs
<1> HIDE DEF new
<1>3. Divides(new, ws)
  <2>1. PICK cut \in [0..Len(segs) -> 0..Len(ws)] :
            /\ cut[0] = 0 /\ cut[Len(segs)] = Len(ws)
            /\ \A k \in DOMAIN segs :
                  /\ cut[k - 1] < cut[k]
                  /\ segs[k].words = SubSeq(ws, cut[k - 1] + 1, cut[k])
    BY <1>1 DEF Divides
  <2>2. /\ Len(new) = Len(segs)
        /\ \A k \in DOMAIN new :
              /\ cut[k - 1] < cut[k]
              /\ new[k].words = SubSeq(ws, cut[k - 1] + 1, cut[k])
    BY <1>2, <2>1
  <2>3. cut \in [0..Len(new) -> 0..Len(ws)] /\ cut[0] = 0 /\ cut[Len(new)] = Len(ws)
    BY <2>1, <2>2
  <2>4. QED BY <2>2, <2>3 DEF Divides
<1>4. Placed(new, ts)
  <2>1. SUFFICES ASSUME NEW k \in DOMAIN new, NEW i \in DOMAIN new[k].words,
                        LongestTalk(new[k].words[i], ts) > 0
                 PROVE  \E t \in Range(ts) :
                           /\ t.speaker = new[k].speaker
                           /\ Common(new[k].words[i], t) = LongestTalk(new[k].words[i], ts)
    BY DEF Placed
  <2>2. k \in DOMAIN segs /\ new[k].words = segs[k].words /\ new[k].speaker = segs[k].speaker
    BY <1>2
  <2>3. QED BY <1>1, <2>1, <2>2 DEF Placed
<1>5. Warns(new, ws, rs)
  BY <1>1, <1>2 DEF Warns, Apart
<1>6. Sound(new, ws, ts, rs)
  BY <1>2, <1>4, <1>5, <1>3 DEF Sound
<1>7. QED BY <1>6 DEF new

-----------------------------------------------------------------------------
(***************************************************************************)
(* Regions of cross-talk. Merging keeps the ticks of the regions: a merged *)
(* region starts where a region does, and no tick of it lies between two   *)
(* regions, or the later of them would start a merged region of its own.   *)
(***************************************************************************)
Starts(R) == {r.from : r \in {r \in R : \A q \in R : ~Reaches(q, r.from)}}
Part(R, x) == {r \in R : x =< r.from /\ \A y \in Starts(R) : x < y => r.from < y}
End(R, x) == Max({r.to : r \in Part(R, x)})
Regions(R, d) == \A r \in R : r.from \in Nat /\ r.to \in Nat /\ r.from < r.to /\ r.to =< d

LEMMA PartEnds ==
  ASSUME NEW R, NEW d \in Nat, Regions(R, d), NEW x \in Starts(R)
  PROVE  /\ x \in Nat /\ End(R, x) \in Nat /\ x < End(R, x) /\ x =< d
         /\ \A r \in Part(R, x) : r.to =< End(R, x)
         /\ \E r \in Part(R, x) : r.to = End(R, x)
<1> DEFINE T == {r.to : r \in Part(R, x)}
<1>1. PICK r \in R : r.from = x /\ \A q \in R : ~Reaches(q, r.from)
  BY DEF Starts
<1>2. x \in Nat /\ r.to \in Nat /\ x < r.to /\ x =< d
  BY <1>1 DEF Regions
<1>3. r \in Part(R, x)
  BY <1>1, <1>2 DEF Part
<1>4. T \in SUBSET Nat /\ T \in SUBSET (0..d) /\ r.to \in T
  BY <1>3 DEF Regions, Part
<1>5. IsFiniteSet(T)
  <2>1. IsFiniteSet(0..d)
    BY FS_Interval
  <2> HIDE DEF T
  <2>2. QED BY <1>4, <2>1, FS_Subset
<1>6. End(R, x) = Max(T)
  BY DEF End
<1>7. Max(T) \in T /\ \A y \in T : y =< Max(T)
  <2> HIDE DEF T
  <2>1. QED BY <1>4, <1>5, GreatestNumber
<1>8. \A q \in Part(R, x) : q.to =< End(R, x)
  BY <1>6, <1>7
<1>9. \E q \in Part(R, x) : q.to = End(R, x)
  BY <1>6, <1>7
<1>10. End(R, x) \in Nat /\ r.to =< End(R, x)
  <2> HIDE DEF T
  <2>1. QED BY <1>4, <1>6, <1>7
<1>11. QED BY <1>2, <1>8, <1>9, <1>10

LEMMA PartsApart ==
  ASSUME NEW R, NEW d \in Nat, Regions(R, d), NEW x \in Starts(R), NEW y \in Starts(R), x < y
  PROVE  End(R, x) < y
<1>1. PICK r \in Part(R, x) : r.to = End(R, x)
  BY PartEnds
<1>2. r \in R /\ r.from < y
  BY DEF Part
<1>3. ~Reaches(r, y)
  BY <1>2 DEF Starts
<1>4. r.to \in Nat /\ y \in Nat /\ r.from \in Nat
  BY <1>2, PartEnds DEF Regions
<1>5. QED BY <1>1, <1>2, <1>3, <1>4 DEF Reaches

LEMMA EveryPart ==
  ASSUME NEW R, NEW d \in Nat, Regions(R, d), NEW r \in R
  PROVE  \E x \in Starts(R) : r \in Part(R, x)
<1> DEFINE F == {q.from : q \in R}
           U == {x \in Starts(R) : x =< r.from}
<1>1. F \in SUBSET Nat /\ F # {}
  BY DEF Regions
<1>2. PICK q \in R : \A p \in R : q.from =< p.from
  <2>1. Min(F) \in F /\ \A x \in F : Min(F) =< x
    <3> HIDE DEF F
    <3>1. QED BY <1>1, LeastNumber
  <2>2. PICK q \in R : q.from = Min(F)
    BY <2>1
  <2>3. \A p \in R : p.from \in F
    OBVIOUS
  <2> HIDE DEF F
  <2>4. QED BY <2>1, <2>2, <2>3
<1>3. q.from \in U
  <2>1. \A p \in R : ~Reaches(p, q.from)
    BY <1>2 DEF Regions, Reaches
  <2>2. q.from \in Starts(R)
    BY <2>1 DEF Starts
  <2>3. QED BY <1>2, <2>2
<1>4. U \in SUBSET Nat /\ U \in SUBSET (0..d)
  BY PartEnds
<1>5. IsFiniteSet(U)
  <2>1. IsFiniteSet(0..d)
    BY FS_Interval
  <2> HIDE DEF U
  <2>2. QED BY <1>4, <2>1, FS_Subset
<1> DEFINE x == Max(U)
<1>6. x \in U /\ \A y \in U : y =< x
  <2> HIDE DEF U
  <2>1. QED BY <1>3, <1>4, <1>5, GreatestNumber
<1> HIDE DEF x
<1>7. x \in Starts(R) /\ x =< r.from /\ x \in Nat /\ r.from \in Nat
  BY <1>4, <1>6 DEF Regions
<1>8. ASSUME NEW y \in Starts(R), x < y PROVE r.from < y
  <2>1. y \in Nat
    BY PartEnds
  <2>2. y \notin U
    BY <1>6, <1>7, <1>8, <2>1
  <2>3. QED BY <1>7, <1>8, <2>1, <2>2
<1>9. QED BY <1>7, <1>8 DEF Part

LEMMA NoHoles ==
  ASSUME NEW R, NEW d \in Nat, Regions(R, d), NEW x \in Starts(R),
         NEW i \in x..(End(R, x) - 1)
  PROVE  \E r \in R : i \in Ticks(r)
<1>1. x \in Nat /\ End(R, x) \in Nat /\ i \in Nat /\ x =< i /\ i < End(R, x)
  <2>1. x \in Nat /\ End(R, x) \in Nat
    BY PartEnds
  <2>2. QED BY <2>1
<1>2. PICK top \in Part(R, x) : top.to = End(R, x)
  BY PartEnds
<1>3. top \in R /\ top.from \in Nat
  BY DEF Part, Regions
<1>4. CASE top.from =< i
  BY <1>1, <1>2, <1>3, <1>4 DEF Ticks
<1>5. CASE i < top.from
  <2> DEFINE A == {r.from : r \in {r \in Part(R, x) : i < r.from}}
  <2>1. A \in SUBSET Nat /\ top.from \in A
    BY <1>2, <1>5 DEF Part, Regions
  <2> DEFINE s == Min(A)
  <2>2. s \in A /\ \A a \in A : s =< a
    <3> HIDE DEF A
    <3>1. QED BY <2>1, LeastNumber
  <2> HIDE DEF s
  <2>3. PICK r \in Part(R, x) : i < r.from /\ r.from = s
    BY <2>2
  <2>4. r \in R /\ s \in Nat /\ x < s
    BY <1>1, <2>3 DEF Part, Regions
  <2>5. s \notin Starts(R)
    BY <2>3, <2>4 DEF Part
  <2>6. PICK q \in R : Reaches(q, s)
    BY <2>3, <2>4, <2>5 DEF Starts
  <2>7. q.from \in Nat /\ q.to \in Nat /\ q.from < s /\ s =< q.to
    BY <2>6 DEF Regions, Reaches
  <2>8. x =< q.from
    <3>1. ~Reaches(q, x)
      BY DEF Starts
    <3>2. QED BY <1>1, <2>4, <2>7, <3>1 DEF Reaches
  <2>9. \A y \in Starts(R) : x < y => q.from < y
    <3>1. \A y \in Starts(R) : x < y => s < y /\ y \in Nat
      BY <2>3, PartEnds DEF Part
    <3>2. QED BY <2>4, <2>7, <3>1
  <2>10. q \in Part(R, x)
    BY <2>8, <2>9 DEF Part
  <2>11. ~(i < q.from)
    <3>1. SUFFICES ASSUME i < q.from PROVE FALSE
      OBVIOUS
    <3>2. q.from \in A
      BY <2>10, <3>1
    <3> HIDE DEF A
    <3>3. s =< q.from
      BY <2>2, <3>2
    <3>4. QED BY <2>4, <2>7, <3>3
  <2>12. q.from =< i /\ i < q.to
    BY <1>1, <2>3, <2>4, <2>7, <2>11
  <2>13. i \in Ticks(q)
    BY <1>1, <2>7, <2>12 DEF Ticks
  <2>14. QED BY <2>13
<1>6. QED BY <1>1, <1>3, <1>4, <1>5

MergedSet(R) == {[from |-> x, to |-> End(R, x)] : x \in Starts(R)}

LEMMA MergedIs ==
  ASSUME NEW R, NEW d \in Nat, Regions(R, d)
  PROVE  /\ Merged(R) \in Seq([from : Nat, to : Nat])
         /\ \A k \in 1..(Len(Merged(R)) - 1) : Merged(R)[k].to < Merged(R)[k + 1].from
         /\ \A i : (\E k \in DOMAIN Merged(R) : i \in Ticks(Merged(R)[k]))
                      <=> (\E r \in R : i \in Ticks(r))
<1> DEFINE M == MergedSet(R)
           list == InOrder(M, Earlier)
<1>1. Merged(R) = list
  BY DEF Merged, MergedSet, Starts, Part, End
<1>2. \A m \in M : /\ m.from \in Starts(R) /\ m.to = End(R, m.from)
                   /\ m = [from |-> m.from, to |-> m.to]
  BY DEF MergedSet
<1>3. ASSUME NEW x \in Starts(R) PROVE \E m \in M : m.from = x
  <2> DEFINE m == [from |-> x, to |-> End(R, x)]
  <2>1. m \in M
    BY DEF MergedSet
  <2>2. m.from = x
    OBVIOUS
  <2> HIDE DEF M, m
  <2>3. QED BY <2>1, <2>2
<1> HIDE DEF M
<1>4. \A m \in M : m.from \in Nat /\ m.to \in Nat /\ m.from < m.to /\ m.from \in 0..d
  BY <1>2, PartEnds
<1>5. M \subseteq [from : Nat, to : Nat]
  BY <1>2, <1>4
<1>6. DistinctStarts(M)
  <2>1. \A x, y \in M : x.from = y.from => x = y
    BY <1>2
  <2>2. QED BY <1>4, <2>1 DEF DistinctStarts
<1>7. IsFiniteSet(M)
  BY <1>4, <1>6, FewStarts
<1>8. TotalOrder(M, Sooner(M)) /\ Lists(list, M, Sooner(M))
  BY <1>6, <1>7, EarlierLists
<1> HIDE DEF list
<1>9. /\ list \in Seq(M) /\ DOMAIN list = 1..Len(list) /\ Len(list) \in Nat
      /\ \A m \in M : \E k \in DOMAIN list : list[k] = m
      /\ \A k, l \in DOMAIN list : k < l => list[k] \in Sooner(M)[list[l]]
  <2>1. /\ list \in Seq(M)
        /\ \A m \in M : \E k \in DOMAIN list : list[k] = m
        /\ \A k, l \in DOMAIN list : k < l => list[k] \in Sooner(M)[list[l]]
    BY <1>7, <1>8, ListsAll
  <2>2. QED BY <2>1
<1>10. list \in Seq([from : Nat, to : Nat])
  <2>1. \A k \in 1..Len(list) : list[k] \in [from : Nat, to : Nat]
    BY <1>5, <1>9
  <2>2. list = [k \in 1..Len(list) |-> list[k]]
    BY <1>9
  <2> DEFINE n == Len(list)
             T == [from : Nat, to : Nat]
  <2>3. n \in Nat
    BY <1>9
  <2> HIDE DEF n
  <2>4. list \in [1..n -> T]
    BY <2>1, <2>2 DEF n
  <2> HIDE DEF T
  <2>5. list \in Seq(T)
    BY <2>3, <2>4
  <2>6. QED BY <2>5 DEF T
<1>11. \A k \in DOMAIN list : list[k] \in M
  BY <1>9
<1>12. ASSUME NEW k \in 1..(Len(list) - 1)
       PROVE  list[k].to < list[k + 1].from
  <2>1. k \in DOMAIN list /\ k + 1 \in DOMAIN list /\ k < k + 1
    BY <1>9
  <2>2. list[k].from < list[k + 1].from
    <3>1. list[k] \in Sooner(M)[list[k + 1]] /\ list[k + 1] \in M
      BY <1>9, <1>11, <2>1
    <3>2. QED BY <3>1 DEF Sooner, Earlier
  <2>3. QED BY <1>2, <1>11, <2>1, <2>2, PartsApart
<1>13. ASSUME NEW i, NEW k \in DOMAIN list, i \in Ticks(list[k])
       PROVE  \E r \in R : i \in Ticks(r)
  <2>1. list[k].from \in Starts(R) /\ list[k].to = End(R, list[k].from)
    BY <1>2, <1>11
  <2>2. i \in list[k].from..(End(R, list[k].from) - 1)
    BY <1>13, <2>1 DEF Ticks
  <2>3. QED BY <2>1, <2>2, NoHoles
<1>14. ASSUME NEW i, NEW r \in R, i \in Ticks(r)
       PROVE  \E k \in DOMAIN list : i \in Ticks(list[k])
  <2>1. PICK x \in Starts(R) : r \in Part(R, x)
    BY EveryPart
  <2>2. x =< r.from /\ r.to =< End(R, x) /\ x \in Nat /\ End(R, x) \in Nat
    BY <2>1, PartEnds DEF Part
  <2>3. PICK m \in M : m.from = x
    BY <1>3
  <2>4. PICK k \in DOMAIN list : list[k] = m
    BY <1>9
  <2>5. r.from \in Nat /\ r.to \in Nat /\ m.to = End(R, x)
    BY <1>2, <2>3 DEF Regions
  <2>6. i \in Ticks(m)
    BY <1>14, <2>2, <2>3, <2>5 DEF Ticks
  <2>7. QED BY <2>4, <2>6
<1>15. QED BY <1>1, <1>10, <1>12, <1>13, <1>14

TalksOver(m) == m[1].speaker # m[2].speaker /\ Common(m[1], m[2]) >= MinOverlap

RegionsAre(list) ==
    /\ list \in Seq([from : Nat, to : Nat])
    /\ \A k \in 1..(Len(list) - 1) : list[k].to < list[k + 1].from
    /\ UNION {Ticks(r) : r \in Range(list)} =
       UNION {Ticks(m[1]) \cap Ticks(m[2]) :
                 m \in {m \in Range(turns) \X Range(turns) : TalksOver(m)}}

LEMMA OverlapsAre ==
  ASSUME TurnsTyped
  PROVE  RegionsAre(Overlaps)
<1> DEFINE region(m) == [from |-> turns[m[2]].from,
                         to |-> turns[m[2]].from + Common(turns[m[1]], turns[m[2]])]
           R == {region(m) : m \in TalkOver(MinOverlap)}
           list == Overlaps
           Both == {m \in Range(turns) \X Range(turns) : TalksOver(m)}
<1>1. list = Merged(R)
  BY DEF Overlaps
<1>2. MinOverlap \in Nat /\ MinOverlap > 0 /\ Duration \in Nat
  BY BoundsAre
<1>3. ASSUME NEW m \in TalkOver(MinOverlap)
      PROVE  /\ m[1] \in DOMAIN turns /\ m[2] \in DOMAIN turns
             /\ turns[m[1]].speaker # turns[m[2]].speaker
             /\ Common(turns[m[1]], turns[m[2]]) >= MinOverlap
             /\ region(m).from \in Nat /\ region(m).to \in Nat
             /\ region(m).from < region(m).to /\ region(m).to =< Duration
             /\ \A i : i \in Ticks(region(m)) <=> i \in Ticks(turns[m[1]]) \cap Ticks(turns[m[2]])
  <2>1. /\ m[1] \in DOMAIN turns /\ m[2] \in DOMAIN turns /\ m[1] < m[2]
        /\ turns[m[1]].speaker # turns[m[2]].speaker
        /\ Common(turns[m[1]], turns[m[2]]) >= MinOverlap
    BY <1>2, TalkOverIs
  <2> DEFINE a == turns[m[1]]
             b == turns[m[2]]
  <2>2. /\ a.from \in Nat /\ a.to \in Nat /\ b.from \in Nat /\ b.to \in Nat /\ b.to =< Duration
        /\ a.from =< b.from
    BY <2>1, TurnFacts
  <2>3. region(m).from = b.from /\ region(m).to = b.from + Common(a, b)
    OBVIOUS
  <2>4. Common(a, b) >= MinOverlap
    BY <2>1
  <2> HIDE DEF a, b, region
  <2>5. /\ Common(a, b) \in Nat /\ Common(a, b) > 0 /\ b.from + Common(a, b) =< b.to
        /\ \A i \in Nat : b.from =< i /\ i < b.from + Common(a, b) <=> i \in Ticks(a) \cap Ticks(b)
    BY <1>2, <2>2, <2>4, CommonIs
  <2>6. region(m).from \in Nat /\ region(m).to \in Nat
    BY <2>2, <2>3, <2>5
  <2>7. region(m).from < region(m).to /\ region(m).to =< Duration
    BY <1>2, <2>2, <2>3, <2>5
  <2>8. \A i : i \in Ticks(region(m)) <=> i \in Nat /\ b.from =< i /\ i < b.from + Common(a, b)
    BY <2>2, <2>3, <2>5, <2>6 DEF Ticks
  <2>9. \A i : i \in Ticks(a) => i \in Nat
    BY <2>2 DEF Ticks
  <2>10. \A i : i \in Ticks(region(m)) <=> i \in Ticks(a) \cap Ticks(b)
    BY <2>5, <2>8, <2>9
  <2>11. QED BY <2>1, <2>6, <2>7, <2>10 DEF a, b
<1> HIDE DEF region
<1>4. Regions(R, Duration)
  BY <1>3 DEF Regions
<1>5. /\ list \in Seq([from : Nat, to : Nat])
      /\ \A k \in 1..(Len(list) - 1) : list[k].to < list[k + 1].from
      /\ \A i : (\E k \in DOMAIN list : i \in Ticks(list[k])) <=> (\E r \in R : i \in Ticks(r))
  <2> HIDE DEF R, list
  <2>1. QED BY <1>1, <1>2, <1>4, MergedIs
<1> HIDE DEF list
<1>6. ASSUME NEW i, NEW r \in R, i \in Ticks(r)
      PROVE  \E m \in Both : i \in Ticks(m[1]) \cap Ticks(m[2])
  <2>1. PICK m \in TalkOver(MinOverlap) : r = region(m)
    OBVIOUS
  <2> DEFINE p == <<turns[m[1]], turns[m[2]]>>
  <2>2. p \in Both
    BY <1>3 DEF Range, TalksOver
  <2>3. i \in Ticks(p[1]) \cap Ticks(p[2])
    BY <1>3, <1>6, <2>1
  <2> HIDE DEF p, Both
  <2>4. QED BY <2>2, <2>3
<1>7. ASSUME NEW m \in Both, NEW i \in Ticks(m[1]) \cap Ticks(m[2])
      PROVE  \E r \in R : i \in Ticks(r)
  <2>1. /\ m[1] \in Range(turns) /\ m[2] \in Range(turns) /\ TalksOver(m)
    OBVIOUS
  <2>2. PICK a \in DOMAIN turns, b \in DOMAIN turns : m[1] = turns[a] /\ m[2] = turns[b]
    BY <2>1 DEF Range
  <2>3. turns[a].speaker # turns[b].speaker /\ Common(turns[a], turns[b]) >= MinOverlap
    BY <2>1, <2>2 DEF TalksOver
  <2>4. Common(turns[a], turns[b]) = Common(turns[b], turns[a])
    BY TurnFacts, CommonIs
  <2>5. a # b
    BY <2>3
  <2>6. ASSUME NEW c \in DOMAIN turns, NEW e \in DOMAIN turns, c < e,
               turns[c].speaker # turns[e].speaker, Common(turns[c], turns[e]) >= MinOverlap,
               i \in Ticks(turns[c]) \cap Ticks(turns[e])
        PROVE  \E r \in R : i \in Ticks(r)
    <3> DEFINE o == <<c, e>>
    <3>1. o \in TalkOver(MinOverlap)
      BY <1>2, <2>6, TalkOverIs
    <3>2. o[1] = c /\ o[2] = e
      OBVIOUS
    <3> HIDE DEF o
    <3>3. i \in Ticks(region(o))
      BY <1>3, <2>6, <3>1, <3>2
    <3>4. QED BY <3>1, <3>3
  <2>7. a < b \/ b < a
    BY <2>5, TurnFacts
  <2>8. CASE a < b
    BY <2>2, <2>3, <2>6, <2>8
  <2>9. CASE b < a
    BY <2>2, <2>3, <2>4, <2>6, <2>9
  <2>10. QED BY <2>7, <2>8, <2>9
<1>8. UNION {Ticks(r) : r \in Range(list)} = UNION {Ticks(m[1]) \cap Ticks(m[2]) : m \in Both}
  <2> HIDE DEF R, Both
  <2>1. ASSUME NEW i \in UNION {Ticks(r) : r \in Range(list)}
        PROVE  \E m \in Both : i \in Ticks(m[1]) \cap Ticks(m[2])
    <3>1. PICK k \in DOMAIN list : i \in Ticks(list[k])
      BY DEF Range
    <3>2. QED BY <1>5, <1>6, <3>1
  <2>2. ASSUME NEW m \in Both, NEW i \in Ticks(m[1]) \cap Ticks(m[2])
        PROVE  \E r \in Range(list) : i \in Ticks(r)
    <3>1. PICK k \in DOMAIN list : i \in Ticks(list[k])
      BY <1>5, <1>7
    <3>2. QED BY <3>1 DEF Range
  <2>3. QED BY <2>1, <2>2
<1>9. RegionsAre(list)
  BY <1>5, <1>8 DEF RegionsAre
<1>10. QED BY <1>9 DEF list

LEMMA RegionsAreRight ==
  ASSUME stage # "recovering" => RegionsAre(regions)
  PROVE  RegionsRight
BY DEF RegionsAre, RegionsRight, TalksOver

-----------------------------------------------------------------------------
(***************************************************************************)
(* Doubt. Each stage hands the doubt of the one before it on: from a word  *)
(* to its marks, from the marks to the segment, from it to the finding.    *)
(***************************************************************************)
Doubted(w) ==
    \/ \E k \in DOMAIN spans : spans[k].verdict = "conflict" /\ Covers(spans[k], w)
    \/ /\ Available /\ Doubtful(w) /\ w.risk
       /\ \A k \in DOMAIN spans : spans[k].verdict = "confirmed" => ~Covers(spans[k], w)

MarkedDoubtful ==
    stage = "verifying" =>
        \A i \in DOMAIN words : words[i].uncertain = (Available /\ Doubtful(words[i]))

DoubtIsMarked ==
    stage \in {"aligning", "analyzing", "done"} =>
        \A i \in DOMAIN words :
            Doubted(words[i]) => words[i].conflict \/ (words[i].uncertain /\ words[i].risk)

FindingsTell ==
    /\ stage # "done" => findings = {}
    /\ \A f \in findings : f.segment \in DOMAIN segments /\ f.review = segments[f.segment].uncertain

LEMMA AnalyseMarks ==
  ASSUME words \in Seq(WordSet), Analyse
  PROVE  words' \in Seq(WordSet) /\ MarkedDoubtful'
<1> DEFINE doubt(w) == Available /\ Doubtful(w)
<1>1. words' = [i \in DOMAIN words |-> [words[i] EXCEPT !.uncertain = doubt(words[i])]]
  BY DEF Analyse
<1>2. DOMAIN words = 1..Len(words) /\ Len(words) \in Nat /\ \A i \in DOMAIN words : words[i] \in WordSet
  OBVIOUS
<1>3. ASSUME NEW i \in DOMAIN words
      PROVE  /\ words'[i] \in WordSet /\ words'[i].uncertain = doubt(words[i])
             /\ words'[i].confidence = words[i].confidence
             /\ words'[i].risk = words[i].risk /\ words'[i].recovered = words[i].recovered
  <2> DEFINE d == doubt(words[i])
  <2>1. words'[i] = [words[i] EXCEPT !.uncertain = d] /\ words[i] \in WordSet
    BY <1>1, <1>2
  <2>2. d \in BOOLEAN
    OBVIOUS
  <2> HIDE DEF d
  <2>3. /\ words'[i] \in WordSet /\ words'[i].uncertain = d
        /\ words'[i].confidence = words[i].confidence
        /\ words'[i].risk = words[i].risk /\ words'[i].recovered = words[i].recovered
    BY <2>1, <2>2 DEF WordSet
  <2>4. QED BY <2>3 DEF d
<1> HIDE DEF doubt
<1>4. DOMAIN words' = DOMAIN words /\ words' = [i \in 1..Len(words) |-> words'[i]]
  BY <1>1, <1>2
<1>5. words' \in Seq(WordSet)
  <2>1. words' \in [1..Len(words) -> WordSet]
    BY <1>2, <1>3, <1>4
  <2>2. QED BY <1>2, <2>1
<1>6. Available' = Available
  BY <1>3, <1>4 DEF Available
<1>7. \A i \in DOMAIN words : Doubtful(words'[i]) = Doubtful(words[i])
  BY <1>3 DEF Doubtful, Low, Soft
<1>8. \A i \in DOMAIN words' : words'[i].uncertain = (Available' /\ Doubtful(words'[i]))
  BY <1>3, <1>4, <1>6, <1>7 DEF doubt
<1>9. QED BY <1>5, <1>8 DEF MarkedDoubtful

LEMMA VerifyMarks ==
  ASSUME words \in Seq(WordSet), MarkedDoubtful, Verify
  PROVE  words' \in Seq(WordSet) /\ DoubtIsMarked'
<1>1. stage = "verifying" /\ \A i \in DOMAIN words : words[i].uncertain = (Available /\ Doubtful(words[i]))
  BY DEF Verify, MarkedDoubtful
<1>2. words' = [i \in DOMAIN words |-> Marked(spans', words[i])]
  BY DEF Verify
<1>3. DOMAIN words = 1..Len(words) /\ Len(words) \in Nat /\ \A i \in DOMAIN words : words[i] \in WordSet
  OBVIOUS
<1>4. ASSUME NEW i \in DOMAIN words
      PROVE  /\ words'[i] \in WordSet
             /\ words'[i].from = words[i].from /\ words'[i].to = words[i].to
             /\ words'[i].confidence = words[i].confidence
             /\ words'[i].risk = words[i].risk /\ words'[i].recovered = words[i].recovered
             /\ words'[i].uncertain = (words[i].uncertain /\ "confirmed" \notin Verdict(spans', words[i]))
             /\ words'[i].conflict = ("conflict" \in Verdict(spans', words[i]))
  <2> DEFINE w == words[i]
             u == w.uncertain /\ "confirmed" \notin Verdict(spans', w)
             c == "conflict" \in Verdict(spans', w)
  <2>1. words'[i] = [w EXCEPT !.uncertain = u, !.conflict = c]
    BY <1>2 DEF Marked
  <2>2. w \in WordSet /\ u \in BOOLEAN /\ c \in BOOLEAN
    BY <1>3
  <2> HIDE DEF w, u, c
  <2>3. /\ words'[i] \in WordSet /\ words'[i].uncertain = u /\ words'[i].conflict = c
        /\ words'[i].from = w.from /\ words'[i].to = w.to
        /\ words'[i].confidence = w.confidence
        /\ words'[i].risk = w.risk /\ words'[i].recovered = w.recovered
    BY <2>1, <2>2 DEF WordSet
  <2>4. QED BY <2>3 DEF w, u, c
<1>5. DOMAIN words' = DOMAIN words /\ words' = [i \in 1..Len(words) |-> words'[i]]
  BY <1>2, <1>3
<1>6. words' \in Seq(WordSet)
  <2>1. words' \in [1..Len(words) -> WordSet]
    BY <1>3, <1>4, <1>5
  <2>2. QED BY <1>3, <2>1
<1>7. Available' = Available
  BY <1>4, <1>5 DEF Available
<1>8. \A i \in DOMAIN words : Doubtful(words'[i]) = Doubtful(words[i])
  BY <1>4 DEF Doubtful, Low, Soft
<1>9. \A s : \A i \in DOMAIN words : Covers(s, words'[i]) = Covers(s, words[i])
  BY <1>4 DEF Covers
<1>10. ASSUME NEW i \in DOMAIN words', Doubted(words[i])'
       PROVE  words'[i].conflict \/ (words'[i].uncertain /\ words'[i].risk)
  <2>1. i \in DOMAIN words
    BY <1>5
  <2>2. CASE \E k \in DOMAIN spans' : spans'[k].verdict = "conflict" /\ Covers(spans'[k], words'[i])
    <3>1. "conflict" \in Verdict(spans', words[i])
      BY <1>9, <2>1, <2>2 DEF Verdict
    <3>2. QED BY <1>4, <2>1, <3>1
  <2>3. CASE /\ Available' /\ Doubtful(words'[i]) /\ words'[i].risk
             /\ \A k \in DOMAIN spans' : spans'[k].verdict = "confirmed" => ~Covers(spans'[k], words'[i])
    <3>1. "confirmed" \notin Verdict(spans', words[i])
      BY <1>9, <2>1, <2>3 DEF Verdict
    <3>2. words[i].uncertain
      BY <1>1, <1>7, <1>8, <2>1, <2>3
    <3>3. QED BY <1>4, <2>1, <2>3, <3>1, <3>2
  <2>4. QED BY <1>10, <2>2, <2>3 DEF Doubted
<1>11. QED BY <1>6, <1>10 DEF DoubtIsMarked

LEMMA DoubtReaches ==
  ASSUME TurnsTyped, words \in Seq(WordSet), RegionsAre(regions), Warns(segments, words, regions),
         \A i \in DOMAIN words :
            Doubted(words[i]) => words[i].conflict \/ (words[i].uncertain /\ words[i].risk),
         NEW k \in DOMAIN segments
  PROVE  \/ \E i \in DOMAIN segments[k].words : Doubted(segments[k].words[i])
         \/ \E p, q \in Range(turns) :
               TalksOver(<<p, q>>) /\ Ticks(p) \cap Ticks(q) \cap Ticks(segments[k]) # {}
         => segments[k].uncertain
<1> DEFINE seg == segments[k]
<1>1. /\ seg.from \in Nat /\ seg.to \in Nat
      /\ \A i \in DOMAIN seg.words : \E j \in DOMAIN words : seg.words[i] = words[j]
      /\ Questionable(seg.words) => seg.uncertain
      /\ \A l \in DOMAIN regions : ~Apart(regions[l], seg) => seg.uncertain
  BY DEF Warns
<1> HIDE DEF seg
<1>2. ASSUME NEW i \in DOMAIN seg.words, Doubted(seg.words[i]) PROVE seg.uncertain
  <2>1. seg.words[i].conflict \/ (seg.words[i].uncertain /\ seg.words[i].risk)
    BY <1>1, <1>2
  <2>2. Questionable(seg.words)
    BY <2>1 DEF Questionable
  <2>3. QED BY <1>1, <2>2
<1>3. ASSUME NEW p \in Range(turns), NEW q \in Range(turns), TalksOver(<<p, q>>),
             NEW x \in Ticks(p) \cap Ticks(q) \cap Ticks(seg)
      PROVE  seg.uncertain
  <2>1. x \in UNION {Ticks(r) : r \in Range(regions)}
    <3> DEFINE m == <<p, q>>
    <3>1. m \in {o \in Range(turns) \X Range(turns) : TalksOver(o)} /\ x \in Ticks(m[1]) \cap Ticks(m[2])
      BY <1>3
    <3> HIDE DEF m
    <3>2. x \in UNION {Ticks(o[1]) \cap Ticks(o[2]) : o \in {o \in Range(turns) \X Range(turns) : TalksOver(o)}}
      BY <3>1
    <3>3. QED BY <3>2 DEF RegionsAre
  <2>2. PICK l \in DOMAIN regions : x \in Ticks(regions[l])
    BY <2>1 DEF Range
  <2>3. regions[l].from \in Nat /\ regions[l].to \in Nat
    <3> DEFINE T == [from : Nat, to : Nat]
    <3>1. regions \in Seq(T)
      BY DEF RegionsAre
    <3> HIDE DEF T
    <3>2. regions[l] \in T
      BY <3>1
    <3>3. QED BY <3>2 DEF T
  <2>4. regions[l].from =< x /\ x < regions[l].to /\ x \in Int
    BY <2>2, <2>3 DEF Ticks
  <2>5. seg.from =< x /\ x < seg.to
    BY <1>1, <1>3 DEF Ticks
  <2>6. ~Apart(regions[l], seg)
    BY <1>1, <2>3, <2>4, <2>5 DEF Apart
  <2>7. QED BY <1>1, <2>6
<1>4. ASSUME NEW p \in Range(turns), NEW q \in Range(turns), TalksOver(<<p, q>>),
             Ticks(p) \cap Ticks(q) \cap Ticks(seg) # {}
      PROVE  seg.uncertain
  BY <1>3, <1>4
<1>5. QED BY <1>2, <1>4 DEF seg

-----------------------------------------------------------------------------
(***************************************************************************)
(* The pipeline. The invariant says at each stage what the ones before it  *)
(* have left for it.                                                       *)
(***************************************************************************)
TranscriptInv ==
    /\ stage \in {"recovering", "analysing", "verifying", "aligning", "analyzing", "done"}
    /\ TurnsTyped /\ words \in Seq(WordSet)
    /\ stage # "recovering" => RegionsAre(regions)
    /\ MarkedDoubtful /\ DoubtIsMarked
    /\ stage \in {"analyzing", "done"} =>
          Sound(segments, words, turns, regions) /\ Counts(segments, stats, turns)
    /\ FindingsTell

LEMMA RegionsStay ==
  ASSUME RegionsAre(regions'), UNCHANGED turns
  PROVE  RegionsAre(regions)'
BY DEF RegionsAre

LEMMA TurnsStay ==
  ASSUME TurnsTyped, UNCHANGED turns
  PROVE  TurnsTyped'
BY DEF TurnsTyped, Diarized

LEMMA DoubtStays ==
  ASSUME DoubtIsMarked, UNCHANGED <<words, spans>>,
         stage \in {"aligning", "analyzing"}
  PROVE  DoubtIsMarked'
BY DEF DoubtIsMarked, Doubted, Available

LEMMA InitInv ==
  ASSUME Init
  PROVE  TranscriptInv
<1>1. TurnsTyped /\ words \in Seq(WordSet)
  BY InitialWords
<1>2. stage = "recovering" /\ findings = {}
  BY DEF Init
<1>3. QED BY <1>1, <1>2 DEF TranscriptInv, MarkedDoubtful, DoubtIsMarked, FindingsTell

LEMMA RecoverInv ==
  ASSUME TranscriptInv, Recover
  PROVE  TranscriptInv'
<1>1. /\ stage = "recovering" /\ stage' = "analysing" /\ regions' = Overlaps
      /\ turns' = turns /\ findings' = findings /\ segments' = segments
  BY DEF Recover
<1>2. TurnsTyped /\ words \in Seq(WordSet) /\ findings = {}
  BY <1>1 DEF TranscriptInv, FindingsTell
<1>3. words' \in Seq(WordSet)
  BY <1>2, RecoverWords
<1>4. TurnsTyped'
  BY <1>1, <1>2, TurnsStay
<1>5. RegionsAre(regions)'
  BY <1>1, <1>2, OverlapsAre, RegionsStay
<1>6. MarkedDoubtful' /\ DoubtIsMarked' /\ FindingsTell'
  BY <1>1, <1>2 DEF MarkedDoubtful, DoubtIsMarked, FindingsTell
<1>7. QED BY <1>1, <1>3, <1>4, <1>5, <1>6 DEF TranscriptInv

LEMMA AnalyseInv ==
  ASSUME TranscriptInv, Analyse
  PROVE  TranscriptInv'
<1>1. /\ stage = "analysing" /\ stage' = "verifying" /\ regions' = regions
      /\ turns' = turns /\ findings' = findings /\ segments' = segments
  BY DEF Analyse
<1>2. TurnsTyped /\ words \in Seq(WordSet) /\ findings = {} /\ RegionsAre(regions)
  BY <1>1 DEF TranscriptInv, FindingsTell
<1>3. words' \in Seq(WordSet) /\ MarkedDoubtful'
  BY <1>2, AnalyseMarks
<1>4. TurnsTyped' /\ RegionsAre(regions)'
  BY <1>1, <1>2, TurnsStay, RegionsStay
<1>5. DoubtIsMarked' /\ FindingsTell'
  BY <1>1, <1>2 DEF DoubtIsMarked, FindingsTell
<1>6. QED BY <1>1, <1>3, <1>4, <1>5 DEF TranscriptInv

LEMMA VerifyInv ==
  ASSUME TranscriptInv, Verify
  PROVE  TranscriptInv'
<1>1. /\ stage = "verifying" /\ stage' = "aligning" /\ regions' = regions
      /\ turns' = turns /\ findings' = findings /\ segments' = segments
  BY DEF Verify
<1>2. /\ TurnsTyped /\ words \in Seq(WordSet) /\ findings = {} /\ RegionsAre(regions)
      /\ MarkedDoubtful
  BY <1>1 DEF TranscriptInv, FindingsTell
<1>3. words' \in Seq(WordSet) /\ DoubtIsMarked'
  BY <1>2, VerifyMarks
<1>4. TurnsTyped' /\ RegionsAre(regions)'
  BY <1>1, <1>2, TurnsStay, RegionsStay
<1>5. MarkedDoubtful' /\ FindingsTell'
  BY <1>1, <1>2 DEF MarkedDoubtful, FindingsTell
<1>6. QED BY <1>1, <1>3, <1>4, <1>5 DEF TranscriptInv

LEMMA AlignInv ==
  ASSUME TranscriptInv, Align
  PROVE  TranscriptInv'
<1>1. /\ stage = "aligning" /\ stage' = "analyzing" /\ regions' = regions /\ words' = words
      /\ turns' = turns /\ spans' = spans /\ findings' = findings
      /\ stats' = Interruptions(segments')
  BY DEF Align
<1>2. /\ TurnsTyped /\ words \in Seq(WordSet) /\ findings = {} /\ RegionsAre(regions)
      /\ DoubtIsMarked
  BY <1>1 DEF TranscriptInv, FindingsTell
<1>3. Sound(segments', words, turns, regions)
  <2>1. PICK built : /\ Built(built)
                     /\ segments' = built \/ \E agent : segments' = WithRoles(built, agent)
    BY <1>2, AlignBuilds
  <2>2. Sound(built, words, turns, regions)
    BY <1>2, <2>1, BuiltIsSound
  <2>3. QED BY <2>1, <2>2, SoundAgain
<1>4. Counts(segments', stats', turns)
  BY <1>1, <1>2, <1>3, InterruptionsAre DEF Sound
<1>5. TurnsTyped' /\ RegionsAre(regions)' /\ DoubtIsMarked'
  BY <1>1, <1>2, TurnsStay, RegionsStay, DoubtStays
<1>6. MarkedDoubtful' /\ FindingsTell'
  BY <1>1, <1>2 DEF MarkedDoubtful, FindingsTell
<1>7. QED BY <1>1, <1>2, <1>3, <1>4, <1>5, <1>6 DEF TranscriptInv

LEMMA AnalyzeInv ==
  ASSUME TranscriptInv, Analyze
  PROVE  TranscriptInv'
<1>1. /\ stage = "analyzing" /\ stage' = "done" /\ regions' = regions /\ words' = words
      /\ turns' = turns /\ spans' = spans
  BY DEF Analyze
<1>2. /\ TurnsTyped /\ words \in Seq(WordSet) /\ findings = {} /\ RegionsAre(regions)
      /\ DoubtIsMarked
      /\ Sound(segments, words, turns, regions) /\ Counts(segments, stats, turns)
  BY <1>1 DEF TranscriptInv, FindingsTell
<1>3. /\ Sound(segments', words, turns, regions) /\ Counts(segments', stats', turns)
      /\ \A f \in findings' : /\ f.segment \in DOMAIN segments'
                              /\ f.review = segments'[f.segment].uncertain
  <2>1. CASE UNCHANGED <<findings, segments, stats>>
    BY <1>2, <2>1
  <2>2. ASSUME NEW quoted \in {None} \cup DOMAIN segments, NEW agent \in {None} \cup Speakers,
               findings' = IF quoted = None THEN {} ELSE {Checked(quoted)}, Override(agent)
        PROVE  <1>3
    <3>1. segments' = WithRoles(segments, agent) /\ stats' = Interruptions(segments')
      BY <2>2 DEF Override
    <3>2. Sound(segments', words, turns, regions)
      BY <1>2, <3>1, SoundAgain
    <3>3. OneRole(segments') /\ SegmentsTyped(segments) /\ OneRole(segments)
      BY <1>2, <3>2 DEF Sound
    <3>4. Counts(segments', stats', turns)
      BY <1>2, <3>1, <3>3, InterruptionsAre
    <3>5. /\ DOMAIN segments' = DOMAIN segments
          /\ \A k \in DOMAIN segments : segments'[k].uncertain = segments[k].uncertain
      BY <3>1, <3>3, WithRolesIs
    <3>6. ASSUME NEW f \in findings'
          PROVE  f.segment \in DOMAIN segments' /\ f.review = segments'[f.segment].uncertain
      <4>1. quoted # None /\ f = Checked(quoted)
        BY <2>2
      <4>2. quoted \in DOMAIN segments
        BY <2>2, <4>1
      <4>3. f.segment = quoted /\ f.review = segments[quoted].uncertain
        BY <4>1 DEF Checked
      <4>4. QED BY <3>5, <4>2, <4>3
    <3>7. QED BY <3>2, <3>4, <3>6
  <2>3. QED BY <2>1, <2>2 DEF Analyze
<1>4. Sound(segments, words, turns, regions)' /\ Counts(segments, stats, turns)'
  BY <1>1, <1>3
<1>5. TurnsTyped' /\ RegionsAre(regions)' /\ DoubtIsMarked'
  BY <1>1, <1>2, TurnsStay, RegionsStay, DoubtStays
<1>6. MarkedDoubtful' /\ FindingsTell'
  BY <1>1, <1>3 DEF MarkedDoubtful, FindingsTell
<1>7. QED BY <1>1, <1>2, <1>4, <1>5, <1>6 DEF TranscriptInv

(* The pipeline keeps the invariant, through all its stages. *)
THEOREM TranscriptIsTyped == Spec => []TranscriptInv
<1>1. Init => TranscriptInv
  BY InitInv
<1>2. TranscriptInv /\ [Next]_vars => TranscriptInv'
  <2>1. SUFFICES ASSUME TranscriptInv, [Next]_vars PROVE TranscriptInv'
    OBVIOUS
  <2>2. CASE UNCHANGED vars
    <3>1. UNCHANGED <<stage, words, turns, regions, spans, segments, stats, findings>>
      BY <2>2 DEF vars
    <3>2. TurnsTyped' /\ (stage' # "recovering" => RegionsAre(regions)')
      BY <2>1, <3>1, TurnsStay, RegionsStay DEF TranscriptInv
    <3>3. stage' \in {"analyzing", "done"} =>
             Sound(segments, words, turns, regions)' /\ Counts(segments, stats, turns)'
      BY <2>1, <3>1 DEF TranscriptInv
    <3>4. MarkedDoubtful' /\ DoubtIsMarked' /\ FindingsTell'
      BY <2>1, <3>1 DEF TranscriptInv, MarkedDoubtful, DoubtIsMarked, FindingsTell, Doubted, Available
    <3>5. QED BY <2>1, <3>1, <3>2, <3>3, <3>4 DEF TranscriptInv
  <2>3. QED BY <2>1, <2>2, RecoverInv, AnalyseInv, VerifyInv, AlignInv, AnalyzeInv DEF Next
<1>3. QED BY <1>1, <1>2, PTL DEF Spec

(* Each word is in one segment, in the order of the recording, and nobody talks
   longer during it than the one it is given to. *)
THEOREM WordsArePlaced == Spec => []WordsPlaced
<1>1. TranscriptInv => WordsPlaced
  BY DEF TranscriptInv, Sound, Divides, Placed, LongestTalk, WordsPlaced
<1>2. QED BY <1>1, TranscriptIsTyped, PTL

(* Cross-talk is where two people talk at the same time for long enough, in regions
   that are apart. *)
THEOREM CrosstalkIsRight == Spec => []RegionsRight
<1>1. TranscriptInv => RegionsRight
  BY RegionsAreRight DEF TranscriptInv
<1>2. QED BY <1>1, TranscriptIsTyped, PTL

(* A finding that quotes doubtful words, or words under cross-talk, is marked for
   review. *)
THEOREM FindingsCarryDoubt == Spec => []DoubtReachesFindings
<1>1. TranscriptInv => DoubtReachesFindings
  <2>1. SUFFICES ASSUME TranscriptInv, NEW f \in findings
                 PROVE  \/ \E i \in DOMAIN segments[f.segment].words :
                               Doubted(segments[f.segment].words[i])
                        \/ \E p, q \in Range(turns) :
                               /\ TalksOver(<<p, q>>)
                               /\ Ticks(p) \cap Ticks(q) \cap Ticks(segments[f.segment]) # {}
                        => f.review
    BY DEF DoubtReachesFindings, Doubted, TalksOver
  <2>2. stage = "done"
    BY <2>1 DEF TranscriptInv, FindingsTell
  <2>3. f.segment \in DOMAIN segments /\ f.review = segments[f.segment].uncertain
    BY <2>1 DEF TranscriptInv, FindingsTell
  <2>4. /\ TurnsTyped /\ words \in Seq(WordSet) /\ RegionsAre(regions)
        /\ Warns(segments, words, regions)
        /\ \A i \in DOMAIN words :
              Doubted(words[i]) => words[i].conflict \/ (words[i].uncertain /\ words[i].risk)
    BY <2>1, <2>2 DEF TranscriptInv, DoubtIsMarked, Sound
  <2>5. QED BY <2>3, <2>4, DoubtReaches
<1>2. QED BY <1>1, TranscriptIsTyped, PTL

(* The interruptions are counted for the roles that the transcript gives, whoever
   the language model takes for the agent. *)
THEOREM MetricsMatch == Spec => []MetricsMatchRoles
<1>1. TranscriptInv => MetricsMatchRoles
  BY DEF TranscriptInv, MetricsMatchRoles, Counts, CutIn, Roles
<1>2. QED BY <1>1, TranscriptIsTyped, PTL

-----------------------------------------------------------------------------
(***************************************************************************)
(* The decoder                                                             *)
(***************************************************************************)
(* Who is inside the model holds the lock: the settings change hands with it. *)
Inside == {"greedy", "retry", "beam"}
LockHeld == \A j \in Jobs : pc[j] \in Inside <=> holder = j

(* What a job that takes the lock finds, as long as no switch has failed. *)
Ready(s) == s.strategy = "greedy" /\ s.confidence
SettingsKept ==
    faults = 0 =>
        /\ cfg = decoder
        /\ ~resident => \A j \in Jobs : pc[j] \in {"start", "done"}
        /\ resident /\ Free => Ready(decoder)
        /\ \A j \in Jobs : pc[j] = "greedy" => Ready(decoder) /\ decoder.timestamps
        /\ \A j \in Jobs : pc[j] = "retry" => decoder.strategy = "greedy" /\ decoder.timestamps

DecoderInv == TypeOK /\ LockHeld /\ SecondPassIsBeam /\ SettingsKept

LEMMA LoadedTyped == Loaded \in Settings
<1>1. /\ "greedy" \in {"greedy", "beam"}
      /\ FALSE \in BOOLEAN
  OBVIOUS
<1>2. QED BY <1>1, Zenon DEF Loaded, Settings

LEMMA InitHolds == DecoderInit => DecoderInv
<1> SUFFICES ASSUME DecoderInit PROVE DecoderInv
  OBVIOUS
<1>1. TypeOK
  <2>1. resident \in BOOLEAN
    BY DEF DecoderInit
  <2>2. QED BY <2>1, BoundsAssumption, LoadedTyped DEF DecoderInit, TypeOK
<1>2. LockHeld /\ SecondPassIsBeam
  BY JobsAssumption DEF DecoderInit, LockHeld, SecondPassIsBeam, Inside
<1>3. SettingsKept
  BY DEF DecoderInit, SettingsKept
<1>4. QED BY <1>1, <1>2, <1>3 DEF DecoderInv

(* A job's own steps keep the kinds of all variables. *)
LEMMA StepTyped == ASSUME DecoderInv, NEW j \in Jobs, Step(j) PROVE TypeOK'
<1> USE DEF DecoderInv, TypeOK
<1>1. ASSUME NEW s \in Settings
      PROVE /\ EnableWordConfidence(s) \in Settings
            /\ DisableWordConfidence(s) \in Settings
            /\ VerificationDecoder(s) \in Settings
            /\ PrimaryDecoder(s) \in Settings
            /\ [s EXCEPT !.timestamps = TRUE] \in Settings
  <2>1. EnableWordConfidence(s) \in Settings
    BY DEF Settings, EnableWordConfidence
  <2>2. DisableWordConfidence(s) \in Settings /\ VerificationDecoder(s) \in Settings
    BY DEF Settings, DisableWordConfidence, VerificationDecoder
  <2>3. PrimaryDecoder(s) \in Settings
    BY DEF Settings, PrimaryDecoder, EnableWordConfidence
  <2>4. [s EXCEPT !.timestamps = TRUE] \in Settings
    BY DEF Settings
  <2>5. QED BY <2>1, <2>2, <2>3, <2>4
<1>2. Loaded \in Settings /\ EnableWordConfidence(Loaded) \in Settings
  BY <1>1, LoadedTyped
<1>3. ASSUME NEW s \in Settings, Build(s) \/ BuildFails(s)
      PROVE cfg' \in Settings /\ decoder' \in Settings /\ faults' \in 0..MaxFaults
  BY <1>3, BoundsAssumption DEF Build, BuildFails
<1>4. ASSUME Proceed(j)
      PROVE /\ passes' \in [Jobs -> 0..MaxPasses]
            /\ pc' \in [Jobs -> {"start", "decode", "greedy", "retry", "verify", "beam", "done"}]
  BY <1>4, BoundsAssumption DEF Proceed, Go
<1>5. CASE Load(j)
  <2>1. cfg' \in Settings /\ decoder' \in Settings /\ faults' \in 0..MaxFaults
    BY <1>5, <1>2, <1>3 DEF Load
  <2>2. QED BY <1>5, <2>1 DEF Load, Go
<1>6. CASE Decode(j)
  BY <1>6, <1>1, <1>3, <1>4 DEF Decode, Go
<1>7. CASE Decoded(j)
  BY <1>7, <1>4 DEF Decoded
<1>8. CASE DropConfidence(j)
  BY <1>8, <1>1, <1>3, <1>4 DEF DropConfidence, Go
<1>9. CASE Retried(j)
  BY <1>9, <1>1, <1>3, <1>4 DEF Retried
<1>10. CASE VerifySpans(j)
  BY <1>10, <1>1, <1>3 DEF VerifySpans, Go
<1>11. CASE Verified(j)
  BY <1>11, <1>1, <1>3 DEF Verified, Go
<1>12. QED
  BY <1>5, <1>6, <1>7, <1>8, <1>9, <1>10, <1>11 DEF Step

(* A job that leaves the model gives the lock back, and one that enters it
   finds it free; the others are outside as long as somebody is inside. *)
LEMMA StepKeepsLock == ASSUME DecoderInv, NEW j \in Jobs, Step(j) PROVE LockHeld'
<1> USE DEF DecoderInv, TypeOK, LockHeld, Inside, Free, Go, Proceed
<1>1. \A k \in Jobs : k # NoJob
  BY JobsAssumption
<1>2. CASE Load(j)
  BY <1>1, <1>2 DEF Load
<1>3. CASE Decode(j)
  BY <1>1, <1>3 DEF Decode
<1>4. CASE Decoded(j)
  BY <1>1, <1>4 DEF Decoded
<1>5. CASE DropConfidence(j)
  BY <1>1, <1>5 DEF DropConfidence
<1>6. CASE Retried(j)
  BY <1>1, <1>6 DEF Retried
<1>7. CASE VerifySpans(j)
  BY <1>1, <1>7 DEF VerifySpans
<1>8. CASE Verified(j)
  BY <1>1, <1>8 DEF Verified
<1>9. QED
  BY <1>2, <1>3, <1>4, <1>5, <1>6, <1>7, <1>8 DEF Step

(* What each switch makes of the settings. *)
LEMMA LoadedReady == Ready(EnableWordConfidence(Loaded))
  BY DEF Ready, EnableWordConfidence, Loaded

LEMMA TimestampsOn ==
  ASSUME NEW s \in Settings, Ready(s)
  PROVE Ready([s EXCEPT !.timestamps = TRUE]) /\ [s EXCEPT !.timestamps = TRUE].timestamps
  BY DEF Ready, Settings

LEMMA ConfidenceOff ==
  ASSUME NEW s \in Settings
  PROVE DisableWordConfidence(s).strategy = "greedy" /\ DisableWordConfidence(s).timestamps
  BY DEF DisableWordConfidence

LEMMA ConfidenceOn ==
  ASSUME NEW s \in Settings, s.strategy = "greedy"
  PROVE Ready(EnableWordConfidence(s))
  BY DEF Ready, EnableWordConfidence, Settings

LEMMA BeamOn == ASSUME NEW s \in Settings PROVE VerificationDecoder(s).strategy = "beam"
  BY DEF VerificationDecoder

LEMMA PrimaryBack == ASSUME NEW s \in Settings PROVE Ready(PrimaryDecoder(s))
  BY DEF Ready, PrimaryDecoder, EnableWordConfidence, Settings

(* The settings in use when a job is inside are those it asked for. Only the
   holder of the lock changes them, and it restores them on its way out. *)
LEMMA StepKeepsSettings ==
  ASSUME DecoderInv, NEW j \in Jobs, Step(j)
  PROVE SettingsKept' /\ SecondPassIsBeam'
<1> USE DEF DecoderInv, TypeOK, LockHeld, Inside, Free, Go, Proceed, SettingsKept,
            SecondPassIsBeam, Build, BuildFails
<1>1. \A k \in Jobs : k # NoJob
  BY JobsAssumption
<1>2. faults + 1 # 0 /\ (faults \in Nat)
  BY BoundsAssumption
<1>3. CASE Load(j)
  BY <1>1, <1>2, <1>3, LoadedReady DEF Load
<1>4. CASE Decode(j)
  <2>1. CASE cfg.timestamps
    BY <1>1, <1>4, <2>1 DEF Decode
  <2>2. CASE ~cfg.timestamps /\ Build([cfg EXCEPT !.timestamps = TRUE]) /\ Go(j, "greedy")
    BY <1>1, <1>4, <2>2, TimestampsOn DEF Decode
  <2>3. CASE ~cfg.timestamps /\ BuildFails([cfg EXCEPT !.timestamps = TRUE])
    BY <1>1, <1>2, <1>4, <2>3 DEF Decode
  <2>4. QED BY <1>4, <2>1, <2>2, <2>3 DEF Decode
<1>5. CASE Decoded(j)
  BY <1>1, <1>2, <1>5 DEF Decoded
<1>6. CASE DropConfidence(j)
  BY <1>1, <1>2, <1>6, ConfidenceOff DEF DropConfidence
<1>7. CASE Retried(j)
  BY <1>1, <1>2, <1>7, ConfidenceOn DEF Retried
<1>8. CASE VerifySpans(j)
  BY <1>1, <1>2, <1>8, BeamOn DEF VerifySpans
<1>9. CASE Verified(j)
  BY <1>1, <1>2, <1>9, PrimaryBack DEF Verified
<1>10. QED
  BY <1>3, <1>4, <1>5, <1>6, <1>7, <1>8, <1>9 DEF Step

THEOREM DecoderInvariant == DecoderSpec => []DecoderInv
<1>1. DecoderInv /\ [DecoderNext]_decoderVars => DecoderInv'
  <2> SUFFICES ASSUME DecoderInv, [DecoderNext]_decoderVars PROVE DecoderInv'
    OBVIOUS
  <2>1. ASSUME NEW j \in Jobs, Step(j) PROVE DecoderInv'
    BY <2>1, StepTyped, StepKeepsLock, StepKeepsSettings DEF DecoderInv
  <2>2. CASE UNCHANGED decoderVars
    BY <2>2 DEF decoderVars, DecoderInv, TypeOK, LockHeld, SecondPassIsBeam, SettingsKept, Free
  <2>3. QED BY <2>1, <2>2 DEF DecoderNext
<1>2. QED BY InitHolds, <1>1, PTL DEF DecoderSpec

(* As long as no switch fails, every first pass is decoded greedily, with
   timestamps and confidence, for any number of jobs that share the model. *)
THEOREM FirstPassesAreGreedy == DecoderSpec => []FirstPassIsGreedy
<1>1. DecoderInv => FirstPassIsGreedy
  BY DEF DecoderInv, SettingsKept, Ready, FirstPassIsGreedy
<1>2. QED BY DecoderInvariant, <1>1, PTL

(* Every second pass is made with beam search, whatever failed before. *)
THEOREM SecondPassesAreBeam == DecoderSpec => []SecondPassIsBeam
<1>1. DecoderInv => SecondPassIsBeam
  BY DEF DecoderInv
<1>2. QED BY DecoderInvariant, <1>1, PTL

(* No call is decoded with the settings another one left in the shared model:
   both of the above. *)
THEOREM PassesKeepTheirDecoder == DecoderSpec => []EachPassItsDecoder
<1>1. FirstPassIsGreedy /\ SecondPassIsBeam => EachPassItsDecoder
  BY DEF EachPassItsDecoder
<1>2. QED BY FirstPassesAreGreedy, SecondPassesAreBeam, <1>1, PTL

=============================================================================
