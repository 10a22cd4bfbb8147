------------------------ MODULE MemoryBankRefinement ------------------------
(***************************************************************************)
(* The bank implements MemoryService: what its cache, its queues and the   *)
(* next level hold between them is one memory, and what its two request    *)
(* slots and its input queues hold is a queue of requests per channel.     *)
(***************************************************************************)
EXTENDS MemoryBank

\* A two-phase operation that has answered: the word it writes is decided,
\* and only its payload has to be waited for.
Decided(r) == r.op \in Atomics \cup {"STORE_CONDITIONAL"} /\ r.saved # None

AboutToWrite(t, o) ==
    /\ hitRequest # None /\ Decided(hitRequest)
    /\ hitRequest.tag = t /\ hitRequest.off = o
    /\ ~(hitRequest.op = "STORE_CONDITIONAL" /\ hitRequest.saved = 0)

WordToWrite == IF hitRequest.op \in Atomics
               THEN AtomicUpdate(hitRequest.saved, hitRequest.data[1])
               ELSE hitRequest.data[1]

\* The word written by a flush and still on its way to the next level.
Queued(q, t, o) == {i \in DOMAIN q : q[i].kind = "WORD" /\ q[i].tag = t /\ q[i].off = o}
LastQueued(q, t, o) ==
    q[CHOOSE i \in Queued(q, t, o) : \A j \in Queued(q, t, o) : j <= i].val

BelowWord(t, o) ==
    IF state = "FLUSH" /\ flushAddress.tag = t /\ o >= cacheLineCursor
    THEN data[flushAddress.line][o]
    ELSE IF Queued(outputReqQueue, t, o) # {}
         THEN LastQueued(outputReqQueue, t, o)
         ELSE nextLevel[t][o]

\* The SRAM has the word, rather than a place for it: the line is neither
\* asked for, nor claimed by a request that has yet to write the word.
Awaited(t) == missRequest # None /\ ~needsForwarding(missRequest) /\ missRequest.tag = t
Claimed(t, o) ==
    hitRequest # None /\ hitRequest.fresh /\ hitRequest.tag = t /\ o >= hitRequest.done
Filled(t, o) == contains(t) /\ ~Awaited(t) /\ ~Claimed(t, o)

MemWord(t, o) ==
    IF AboutToWrite(t, o) THEN WordToWrite
    ELSE IF Filled(t, o) THEN data[LineOf[t]][o] ELSE BelowWord(t, o)

\* A request as its requester sees it: how far it has got.
Seen(r) == [r EXCEPT !.saved = None, !.eop = FALSE, !.fresh = FALSE]

Served(r) ==
    \/ r.op \in {"FLUSH_LINE"} \cup AllLines /\ r.done = totalIterations(r)
    \/ Decided(r)

\* A slot's requests of channel d; while a flush makes room for the missing
\* line both slots hold the same request.
InSlot(slot, d) == IF slot # None /\ slot.dest = d /\ ~Served(slot)
                   THEN <<Seen(slot)>> ELSE <<>>

\* The requests of channel d in an input queue, in order.
InQueue(queue, d) ==
    LET upTo[k \in 0 .. Len(queue)] ==
            IF k = 0 THEN <<>>
            ELSE IF queue[k].head /\ queue[k].req.dest = d
                 THEN Append(upTo[k - 1], decodeMemoryRequest(queue[k].req))
                 ELSE upTo[k - 1]
    IN  upTo[Len(queue)]

\* The requests of channel d in the slots, and those that have not got there.
InHand(d) ==
    InSlot(missRequest, d)
      \o (IF hitRequest = missRequest THEN <<>> ELSE InSlot(hitRequest, d))
Waiting(d) == InQueue(inputQueue, d) \o InQueue(requestSig, d)

Todo(d) == InHand(d) \o Waiting(d)

Link == IF reservations # None /\ AboutToWrite(reservations.tag, reservations.off)
        THEN None ELSE reservations

Mem   == [t \in Tag |-> [o \in Off |-> MemWord(t, o)]]
Below == [t \in Tag |-> [o \in Off |-> BelowWord(t, o)]]
ToServe == [d \in Dest |-> Todo(d)]

Service == INSTANCE MemoryService WITH mem <- Mem, below <- Below, todo <- ToServe, link <- Link

(***************************************************************************)
(* Whatever order hits, misses, refills, evictions and late payloads       *)
(* happen in, requesters see one memory, served in order per channel       *)
(* (mainLoop() and copyToMissBuffer() of MemoryBank.cpp).                  *)
(***************************************************************************)
ImplementsMemoryService == Service!ServiceSpec

(***************************************************************************)
(* A request the bank has taken in is served: no hit waits for ever behind *)
(* a miss, no payload for a buffer that stays empty, no response for a     *)
(* slot.  The number of requests is bounded, so queues do empty.           *)
(***************************************************************************)
EveryRequestServed == \A d \in Dest : Todo(d) # <<>> ~> Todo(d) = <<>>

=============================================================================
