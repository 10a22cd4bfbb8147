------------------------------ MODULE MCSharedL2 ------------------------------
(* Instances of SharedL2 for TLC. *)
EXTENDS SharedL2

CONSTANT x    \* a line

Fetch(t) == [tag |-> t, payload |-> 0, skip |-> FALSE]
Store(t) == [tag |-> t, payload |-> WordsPerLine, skip |-> FALSE]
Skipping(r) == [r EXCEPT !.skip = TRUE]

\* Both kinds of request for one line, and one that skips this cache.
MixedRequests == {Fetch(x), Store(x), Skipping(Store(x))}
=============================================================================
