------------------------------ MODULE Windows ------------------------------
(* The loop in which _transcribe_chunked (server/pipeline/asr.py) and         *)
(* _diarize_chunked (server/pipeline/diarize.py) read a long recording: one   *)
(* window after the other, each of which overlaps the one before. Time is in  *)
(* ticks.                                                                     *)
EXTENDS Integers

CONSTANTS
    ChunkLength,   \* CHUNK_LENGTH
    ChunkOverlap,  \* CHUNK_OVERLAP
    Threshold,     \* CHUNK_THRESHOLD: shorter recordings are read in one go
    MaxDuration    \* bound: the longest recording

ASSUME WindowsAssumption ==
    /\ {ChunkLength, ChunkOverlap, Threshold, MaxDuration} \subseteq Nat
    /\ 0 < ChunkOverlap /\ 2 * ChunkOverlap < ChunkLength

VARIABLES
    duration,  \* of the recording
    offset,    \* where the next window starts
    idx,       \* windows read so far
    loop       \* "reading", "left" when the loop is over, "done" after what follows it

loopVars == <<duration, offset, idx, loop>>

LoopInit ==
    /\ duration \in (Threshold + 1)..MaxDuration
    /\ offset = 0
    /\ idx = 0
    /\ loop = "reading"

Step_NoOverlap == ChunkLength
Step == ChunkLength - ChunkOverlap

(* The window at hand: at most ChunkLength, or what is left *)
End == IF duration - offset < ChunkLength THEN duration ELSE offset + ChunkLength

(* One turn of the loop. It is the last one when the end of the recording cut
   the window short, or when the next would start behind it. *)
ReadWindow ==
    /\ loop = "reading"
    /\ idx' = idx + 1
    /\ offset' = offset + Step
    /\ loop' = IF duration - offset < ChunkLength \/ offset' >= duration THEN "left" ELSE "reading"
    /\ UNCHANGED duration

(* What comes after the loop: the chunk directory is removed, turns are sorted *)
Finish ==
    /\ loop = "left"
    /\ loop' = "done"
    /\ UNCHANGED <<duration, offset, idx>>

LoopNext == ReadWindow \/ Finish
LoopSpec == LoopInit /\ [][LoopNext]_loopVars

-----------------------------------------------------------------------------
(* Anything that lasts no longer than windows overlap, wherever in the
   recording it is, has been read in one piece, by some window of the loop:
   nothing is only ever heard as cut by an edge. *)
HeardWhole ==
    loop = "done" =>
        \A from \in 0..duration : \A to \in from..duration :
            from < to /\ to - from =< ChunkOverlap =>
                \E k \in 0..(idx - 1) : Step * k =< from /\ to =< Step * k + ChunkLength

=============================================================================
