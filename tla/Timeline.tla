------------------------------ MODULE Timeline ------------------------------
(* Intervals of a recording, as words, speaker turns and segments are: records *)
(* with the ticks they last from and to.                                      *)
EXTENDS SequencesExt

Intervals(d) == {i \in [from : 0..d, to : 0..d] : i.from < i.to}

Apart(i, j) == i.to =< j.from \/ j.to =< i.from

Ticks(i) == i.from..(i.to - 1)

(* How long two intervals have in common *)
Common(i, j) ==
    LET lo == IF i.from > j.from THEN i.from ELSE j.from
        hi == IF i.to < j.to THEN i.to ELSE j.to
    IN IF hi > lo THEN hi - lo ELSE 0

Earlier(i, j) == i.from < j.from

(* The elements of a set as a sequence, when before is a total order of them *)
InOrder(S, before(_, _)) ==
    [k \in 1..Cardinality(S) |-> CHOOSE x \in S : Cardinality({y \in S : before(y, x)}) = k - 1]

(* What a list has at the indices I *)
Kept(s, I) == [k \in 1..Cardinality(I) |-> s[InOrder(I, <)[k]]]

(* A list sorted by start, equal starts in the order they had *)
SortedByStart(s) ==
    LET order == InOrder(DOMAIN s, LAMBDA i, j : s[i].from < s[j].from \/ (s[i].from = s[j].from /\ i < j))
    IN [k \in DOMAIN s |-> s[order[k]]]

(* A list cut into stretches: each goes on as far as an element joins the one
   before it. *)
Stretches(s, joins(_, _)) ==
    LET first == {i \in DOMAIN s : i = 1 \/ ~joins(s[i - 1], s[i])}
        firsts == InOrder(first, <)
        last(i) == Max({j \in i..Len(s) : (i + 1)..j \cap first = {}})
    IN [k \in DOMAIN firsts |-> SubSeq(s, firsts[k], last(firsts[k]))]

=============================================================================
