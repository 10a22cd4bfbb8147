---------------------------- MODULE MemoryService ----------------------------
(***************************************************************************)
(* What a memory bank promises to its requesters, with no cache in sight.  *)
(* There is one memory, `mem`, and below it the memory it is kept in,      *)
(* `below`; the two differ where a line has been written and not cleaned.  *)
(* Requests of one channel are served in order, each word of a request in  *)
(* order; atomic operations and successful store-conditionals are single   *)
(* steps; FLUSH_LINE brings `below` up to date, INVALIDATE_LINE reverts to *)
(* it.  Of a request that skips the cache only its place in the order and  *)
(* the number of its results are promised.                                 *)
(***************************************************************************)
EXTENDS MemoryOperations

CONSTANTS InitialMem, OutQueue, QueueOf, Requests

VARIABLES
    mem, below,     \* contents of this memory and of the one it is kept in
    todo,           \* per channel, the requests accepted and not yet served
    output,         \* results sent and not yet taken
    link            \* the load-linked reservation in force

svars == <<mem, below, todo, output, link>>

Word(t, o) == mem[t][o]
Results(d, v) == output' = [output EXCEPT ![QueueOf[d]] =
                               Append(@, [dest |-> d, val |-> v])]

\* The request at the front of channel d's queue.
Serves(d, ops) == todo[d] # <<>> /\ ~todo[d][1].skip /\ todo[d][1].op \in ops

\* One more iteration of the first request of d is done, perhaps its last.
Progress(d, last) ==
    todo' = [todo EXCEPT ![d] = IF last THEN Tail(@)
                                ELSE <<Iterated(@[1])>> \o Tail(@)]
Last(r) == r.done + 1 = totalIterations(r)

\* A write ends the reservation of its word, and may end any other.
Write(t, o, v) ==
    /\ mem' = [mem EXCEPT ![t][o] = v]
    /\ link' \in {None} \cup (IF link # None /\ link.tag = t /\ link.off = o
                              THEN {} ELSE {link})

-----------------------------------------------------------------------------
Accept(h) ==
    /\ todo' = [todo EXCEPT ![h.dest] = Append(@, decodeMemoryRequest(h))]
    /\ UNCHANGED <<mem, below, output, link>>

Load(d) ==
    LET r == todo[d][1]
        w == Word(r.tag, CurrentOff(r))
    IN  /\ Serves(d, Loads)
        /\ Results(d, w)
        /\ Progress(d, Last(r) \/ (r.op = "IPK_READ" /\ w \in EndOfPacketWords))
        /\ link' = IF r.op = "LOAD_LINKED"
                   THEN [dest |-> d, tag |-> r.tag, off |-> r.off] ELSE link
        /\ UNCHANGED <<mem, below>>

Store(d) ==
    LET r == todo[d][1] IN
    /\ Serves(d, Stores)
    /\ Write(r.tag, CurrentOff(r),
             r.data[IF r.op = "MEMSET_LINE" THEN 1 ELSE r.done + 1])
    /\ Progress(d, Last(r))
    /\ UNCHANGED <<below, output>>

\* Read, modify and write in one step.
Atomic(d) ==
    LET r == todo[d][1] IN
    /\ Serves(d, Atomics)
    /\ Results(d, Word(r.tag, r.off))
    /\ Write(r.tag, r.off, AtomicUpdate(Word(r.tag, r.off), r.data[1]))
    /\ Progress(d, TRUE)
    /\ UNCHANGED below

\* A store-conditional may always fail, and succeeds only while linked.
StoreConditional(d) ==
    LET r == todo[d][1] IN
    /\ Serves(d, {"STORE_CONDITIONAL"})
    /\ \/ /\ link = [dest |-> d, tag |-> r.tag, off |-> r.off]
          /\ Results(d, 1) /\ Write(r.tag, r.off, r.data[1])
       \/ Results(d, 0) /\ UNCHANGED <<mem, link>>
    /\ Progress(d, TRUE)
    /\ UNCHANGED below

\* A prefetch is a hint: also one that skips this memory may be dropped here.
Prefetch(d) ==
    /\ todo[d] # <<>> /\ todo[d][1].op = "PREFETCH_LINE"
    /\ Progress(d, TRUE)
    /\ UNCHANGED <<mem, below, output, link>>

FlushLine(d) ==
    LET t == todo[d][1].tag IN
    /\ Serves(d, {"FLUSH_LINE"})
    /\ below' = [below EXCEPT ![t] = mem[t]]
    /\ Progress(d, TRUE)
    /\ UNCHANGED <<mem, output, link>>

InvalidateLine(d) ==
    LET t == todo[d][1].tag IN
    /\ Serves(d, {"INVALIDATE_LINE"})
    /\ mem' = [mem EXCEPT ![t] = below[t]]
    /\ Progress(d, TRUE)
    /\ UNCHANGED <<below, output, link>>

\* The all-lines operations visit one line of the cache per iteration, and
\* find there at most one tag.
FlushAllLines(d) ==
    /\ Serves(d, {"FLUSH_ALL_LINES"})
    /\ \/ \E t \in Tag : below' = [below EXCEPT ![t] = mem[t]]
       \/ UNCHANGED below
    /\ Progress(d, Last(todo[d][1]))
    /\ UNCHANGED <<mem, output, link>>

InvalidateAllLines(d) ==
    /\ Serves(d, {"INVALIDATE_ALL_LINES"})
    /\ \/ \E t \in Tag : mem' = [mem EXCEPT ![t] = below[t]]
       \/ UNCHANGED mem
    /\ Progress(d, Last(todo[d][1]))
    /\ UNCHANGED <<below, output, link>>

\* A request that skips this memory: its results come from elsewhere.
Bypass(d) ==
    LET r == todo[d][1] IN
    /\ todo[d] # <<>> /\ needsForwarding(r)
    /\ IF resultsToSend(r)
       THEN /\ \E v \in Val : Results(d, v)
            /\ Progress(d, Last(r))
       ELSE Progress(d, TRUE) /\ UNCHANGED output
    /\ UNCHANGED <<mem, below, link>>

\* A line is cleaned to make room for another.
Clean(t) ==
    /\ below' = [below EXCEPT ![t] = mem[t]]
    /\ UNCHANGED <<mem, todo, output, link>>

Unlink == link' = None /\ UNCHANGED <<mem, below, todo, output>>

Take(q) ==
    /\ output[q] # <<>>
    /\ output' = [output EXCEPT ![q] = Tail(@)]
    /\ UNCHANGED <<mem, below, todo, link>>

-----------------------------------------------------------------------------
SInit ==
    /\ mem = InitialMem /\ below = InitialMem
    /\ todo = [d \in Dest |-> <<>>]
    /\ output = [q \in OutQueue |-> <<>>]
    /\ link = None

Serve(d) ==
    \/ Load(d) \/ Store(d) \/ Atomic(d) \/ StoreConditional(d) \/ Prefetch(d)
    \/ FlushLine(d) \/ InvalidateLine(d) \/ FlushAllLines(d) \/ InvalidateAllLines(d)
    \/ Bypass(d)

SNext ==
    \/ \E h \in Requests : Accept(h)
    \/ \E d \in Dest : Serve(d)
    \/ \E t \in Tag : Clean(t)
    \/ Unlink
    \/ \E q \in OutQueue : Take(q)

ServiceSpec == SInit /\ [][SNext]_svars

=============================================================================
