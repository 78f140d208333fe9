----------------------------- MODULE MCBotQuota -----------------------------
(* Small instances of BotQuota for TLC. *)
EXTENDS BotQuota, TLC

Bots(callLimits, minuteLimits, windows) ==
    [enabled : {TRUE}, callLimit : callLimits, minuteLimit : minuteLimits, window : windows]

OneCall == Bots({{1}}, {{}}, {{}})
TwoMinutes == Bots({{}}, {{2}}, {{}})
LimitsOnly == OneCall \cup TwoMinutes
Windows == Bots({{1}}, {{}}, {{<<1, 3>>}, {<<3, 1>>}, {<<2, 2>>}})
EveryKind == OneCall \cup TwoMinutes \cup Windows
                \cup {[b EXCEPT !.enabled = FALSE] : b \in OneCall}

(* Uploads are interchangeable. *)
Symmetry == Permutations(Uploads)

=============================================================================
