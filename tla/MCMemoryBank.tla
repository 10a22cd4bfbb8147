---------------------------- MODULE MCMemoryBank ----------------------------
(***************************************************************************)
(* Small instances of MemoryBank: two lines of two words in the SRAM,      *)
(* three tags, two of which compete for one line; a local core with two    *)
(* channels and a remote requester.                                        *)
(***************************************************************************)
EXTENDS MemoryBankRefinement, TLC

CONSTANTS a, b, c           \* tags
CONSTANTS core1, core2, l2  \* channels

MCTag      == {a, b, c}
MCLineOf   == (a :> 0) @@ (b :> 0) @@ (c :> 1)
MCDest     == {core1, core2, l2}
MCCoreDest == {core1, core2}
MCVal      == 0 .. 4
MCOutQueue == {"data", "resp"}
MCQueueOf  == (core1 :> "data") @@ (core2 :> "data") @@ (l2 :> "resp")

MCAtomicUpdate(old, new) == (old + new) % 5

MCInitialMem ==
    (a :> (0 :> 1 @@ 1 :> 2)) @@ (b :> (0 :> 2 @@ 1 :> 0)) @@ (c :> (0 :> 0 @@ 1 :> 1))

\* A request for a word or line of tag t, and its payload.
Req(op, t, o, d, p) ==
    [op |-> op, tag |-> t, off |-> o, dest |-> d, skip |-> FALSE, data |-> p]
Skipping(r) == [r EXCEPT !.skip = TRUE]

\* Hits and misses of words and lines, from both kinds of requester.
AccessRequests == {
    Req("LOAD_W", a, 1, core1, <<>>),
    Req("STORE_W", a, 0, core1, <<3>>),
    Req("STORE_W", b, 1, core2, <<4>>),
    Req("LOAD_AND_OP", b, 0, core1, <<2>>),
    Req("IPK_READ", c, 0, core2, <<>>),
    Req("FETCH_LINE", b, 0, l2, <<>>),
    Req("STORE_LINE", a, 0, l2, <<4, 3>>),
    Req("STORE_W", c, 0, l2, <<3>>) }

\* Reservations, whole lines, and requests that skip this cache.
LineRequests == {
    Req("LOAD_LINKED", a, 0, core1, <<>>),
    Req("STORE_CONDITIONAL", a, 0, core1, <<3>>),
    Req("STORE_W", a, 0, core2, <<4>>),
    Req("MEMSET_LINE", b, 0, core2, <<3>>),
    Req("FLUSH_LINE", a, 0, core1, <<>>),
    Req("INVALIDATE_LINE", a, 0, core2, <<>>),
    Req("FLUSH_ALL_LINES", a, 0, core2, <<>>),
    Req("INVALIDATE_ALL_LINES", a, 0, core2, <<>>),
    Req("PREFETCH_LINE", c, 0, core1, <<>>),
    Skipping(Req("LOAD_W", c, 0, core1, <<>>)),
    Skipping(Req("STORE_W", c, 1, core2, <<2>>)),
    Skipping(Req("LOAD_AND_OP", c, 1, core2, <<1>>)),
    Req("UPDATE_DIRECTORY_ENTRY", b, 0, l2, <<1>>) }

MCWorkloads      == {AccessRequests, LineRequests}

=============================================================================
