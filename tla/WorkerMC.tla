------------------------------- MODULE WorkerMC -------------------------------
(* Three requests at once on one session, five in all, of which one fails or *)
(* ends early; two contents, a machine that is renamed, and one reader.      *)
EXTENDS Worker, TLC

CONSTANTS r1, r2, r3, x, y, a, b

Slots == {r1, r2, r3}
TwoBodies == {x, y}
TwoAuthors == {a, b}

(* Two chunks that begin alike, and one behind the first of them.            *)
ThreeRanges == {[offset |-> 0, length |-> 1], [offset |-> 0, length |-> 2],
                [offset |-> 1, length |-> 1]}

Symmetric == Permutations(Slots) \cup Permutations(TwoBodies) \cup Permutations(TwoAuthors)
=============================================================================
