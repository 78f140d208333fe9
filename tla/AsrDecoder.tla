----------------------------- MODULE AsrDecoder -----------------------------
(* The one resident speech model and the settings its decoder is switched     *)
(* between (server/pipeline/asr.py, verify.py): greedy search with timestamps *)
(* and word confidence for the first pass, greedy without confidence when     *)
(* NeMo cannot aggregate it, beam search for the second pass. Every job of    *)
(* every worker thread, and the warm-up, go through the same model.           *)
EXTENDS Naturals

CONSTANTS
    Jobs,       \* jobs at work, one a thread
    NoJob,      \* "nobody holds the lock"
    MaxPasses,  \* bound: windows and recovered turns a job decodes after its first
    MaxFaults   \* bound: failures to build a decoder

ASSUME JobsAssumption == NoJob \notin Jobs
ASSUME BoundsAssumption == {MaxPasses, MaxFaults} \subseteq Nat

VARIABLES
    resident,   \* _model is loaded
    cfg,        \* model.cfg.decoding, changed in place
    decoder,    \* the settings the decoder in use was built from
    holder,     \* the job that holds _lock
    pc,         \* where a job is
    passes,     \* windows and turns a job went on to after its first
    faults      \* failures to build a decoder so far

decoderVars == <<resident, cfg, decoder, holder, pc, passes, faults>>

Settings == [strategy : {"greedy", "beam"}, timestamps : BOOLEAN, confidence : BOOLEAN]
Loaded == [strategy |-> "greedy", timestamps |-> FALSE, confidence |-> FALSE]

DecoderInit ==
    /\ resident = FALSE
    /\ cfg = Loaded
    /\ decoder = Loaded
    /\ holder = NoJob
    /\ pc = [j \in Jobs |-> "start"]
    /\ passes = [j \in Jobs |-> 0]
    /\ faults = 0

-----------------------------------------------------------------------------
(* The settings each function asks for, given those in force               *)
EnableWordConfidence(c) == [c EXCEPT !.confidence = TRUE]
DisableWordConfidence(c) == [strategy |-> "greedy", timestamps |-> TRUE, confidence |-> FALSE]
VerificationDecoder(c) == [strategy |-> "beam", timestamps |-> FALSE, confidence |-> FALSE]
PrimaryDecoder(c) == EnableWordConfidence([c EXCEPT !.strategy = "greedy", !.timestamps = TRUE])

(* change_decoding_strategy(cfg), after cfg was changed in place: it builds a
   decoder, or raises and the old one stays in use. *)
Build(c) == cfg' = c /\ decoder' = c /\ UNCHANGED faults
BuildFails(c) ==
    /\ faults < MaxFaults
    /\ faults' = faults + 1
    /\ cfg' = c
    /\ UNCHANGED decoder

Free == holder = NoJob
Go(j, where) == pc' = [pc EXCEPT ![j] = where]

(* After a decode, or an exception of one that recovery catches: another
   window or turn, the second pass if spans are in doubt, or the job is over. *)
Proceed(j) ==
    \/ passes[j] < MaxPasses /\ passes' = [passes EXCEPT ![j] = @ + 1] /\ Go(j, "decode")
    \/ Go(j, "verify") /\ UNCHANGED passes
    \/ Go(j, "done") /\ UNCHANGED passes

-----------------------------------------------------------------------------
(* load(): the model is published when it is ready, or not at all *)
Load(j) ==
    /\ pc[j] = "start" /\ Free
    /\ \/ resident /\ Go(j, "decode") /\ UNCHANGED <<resident, cfg, decoder, faults>>
       \/ /\ ~resident
          /\ resident' = TRUE
          /\ Build(EnableWordConfidence(Loaded))
          /\ Go(j, "decode")
       \/ /\ ~resident
          /\ Go(j, "done")
          /\ UNCHANGED <<resident, cfg, decoder, faults>>
    /\ UNCHANGED <<holder, passes>>

(* decode() takes the lock; transcribe(timestamps=True) turns timestamps on if
   they are off, which builds the decoder anew *)
Decode(j) ==
    /\ pc[j] = "decode" /\ Free
    /\ \/ /\ cfg.timestamps
          /\ holder' = j
          /\ Go(j, "greedy")
          /\ UNCHANGED <<cfg, decoder, passes, faults>>
       \/ /\ ~cfg.timestamps
          /\ Build([cfg EXCEPT !.timestamps = TRUE])
          /\ holder' = j
          /\ Go(j, "greedy")
          /\ UNCHANGED passes
       \/ /\ ~cfg.timestamps
          /\ BuildFails([cfg EXCEPT !.timestamps = TRUE])
          /\ Proceed(j)
          /\ UNCHANGED holder
    /\ UNCHANGED resident

(* transcribe() returns, or raises anything but the confidence error *)
Decoded(j) ==
    /\ pc[j] = "greedy"
    /\ holder' = NoJob
    /\ Proceed(j)
    /\ UNCHANGED <<resident, cfg, decoder, faults>>

(* the confidence error: once more without confidence. The switch comes before
   the inner try, so when it fails nothing is put back. *)
DropConfidence(j) ==
    /\ pc[j] = "greedy"
    /\ decoder.confidence
    /\ \/ Build(DisableWordConfidence(cfg)) /\ Go(j, "retry") /\ UNCHANGED <<holder, passes>>
       \/ BuildFails(DisableWordConfidence(cfg)) /\ holder' = NoJob /\ Proceed(j)
    /\ UNCHANGED resident

(* the second attempt returns or raises; finally, confidence is put back *)
Retried_NoFinally(j) ==
    /\ pc[j] = "retry"
    /\ holder' = NoJob
    /\ Proceed(j)
    /\ UNCHANGED <<resident, cfg, decoder, faults>>
Retried(j) ==
    /\ pc[j] = "retry"
    /\ Build(EnableWordConfidence(cfg)) \/ BuildFails(EnableWordConfidence(cfg))
    /\ holder' = NoJob
    /\ Proceed(j)
    /\ UNCHANGED resident

(* verify_spans() takes the lock and switches to beam search; that, too, comes
   before the inner try *)
VerifySpans(j) ==
    /\ pc[j] = "verify" /\ Free
    /\ \/ Build(VerificationDecoder(cfg)) /\ Go(j, "beam") /\ holder' = j
       \/ BuildFails(VerificationDecoder(cfg)) /\ Go(j, "done") /\ UNCHANGED holder
    /\ UNCHANGED <<resident, passes>>

(* the second pass returns or raises; finally, the primary decoder is put back *)
Verified_LockKept(j) ==
    /\ pc[j] = "beam"
    /\ Build(PrimaryDecoder(cfg)) \/ BuildFails(PrimaryDecoder(cfg))
    /\ Go(j, "done")
    /\ UNCHANGED <<resident, holder, passes>>
Verified(j) ==
    /\ pc[j] = "beam"
    /\ Build(PrimaryDecoder(cfg)) \/ BuildFails(PrimaryDecoder(cfg))
    /\ holder' = NoJob
    /\ Go(j, "done")
    /\ UNCHANGED <<resident, passes>>

Step(j) ==
    \/ Load(j) \/ Decode(j) \/ Decoded(j) \/ DropConfidence(j) \/ Retried(j)
    \/ VerifySpans(j) \/ Verified(j)

DecoderNext == \E j \in Jobs : Step(j)

DecoderSpec == DecoderInit /\ [][DecoderNext]_decoderVars

(* Threads are scheduled, and a lock that is free is given to one that waits. *)
DecoderFairSpec == DecoderSpec /\ \A j \in Jobs : WF_decoderVars(Step(j))

-----------------------------------------------------------------------------
(* Every variable holds a value of its kind. *)
TypeOK ==
    /\ resident \in BOOLEAN
    /\ cfg \in Settings /\ decoder \in Settings
    /\ holder \in Jobs \cup {NoJob}
    /\ pc \in [Jobs -> {"start", "decode", "greedy", "retry", "verify", "beam", "done"}]
    /\ passes \in [Jobs -> 0..MaxPasses]
    /\ faults \in 0..MaxFaults

(* However jobs interleave and whatever inference raises, the first pass of
   every call is decoded greedily, with timestamps, and with confidence unless
   that is what NeMo could not do: no call gets the settings of another one's
   second pass or retry. *)
FirstPassIsGreedy ==
    faults = 0 =>
        \A j \in Jobs :
            /\ pc[j] \in {"greedy", "retry"} =>
                   decoder.strategy = "greedy" /\ decoder.timestamps
            /\ pc[j] = "greedy" => decoder.confidence

(* The second opinion is independent: it is always made with beam search, also
   when switches failed before. *)
SecondPassIsBeam ==
    \A j \in Jobs : pc[j] = "beam" => decoder.strategy = "beam"

(* The shared model never decodes with what another call left behind: each
   first pass and each second pass has its own settings. *)
EachPassItsDecoder == FirstPassIsGreedy /\ SecondPassIsBeam

(* Every job gets through the model: no exception and no failed switch leaves
   the lock taken. *)
EveryJobEnds == \A j \in Jobs : <>(pc[j] = "done")

-----------------------------------------------------------------------------
(* What does not hold when a switch itself fails (README, section 6)       *)

(* "A failure here must leave the call transcribed": a first pass is greedy
   also after a failed switch. *)
FaultsAreContained ==
    \A j \in Jobs : pc[j] \in {"greedy", "retry"} => decoder.strategy = "greedy"

=============================================================================
