----------------------------- MODULE MemoryBank -----------------------------
(***************************************************************************)
(* One bank of the L1/L2 cache (src/src/Tile/Memory/MemoryBank.cpp) with   *)
(* the two things it talks to: the requesters that fill its input queues   *)
(* and empty its output queues, and the next level of the memory           *)
(* hierarchy, which answers its line fetches and absorbs its flushes.      *)
(*                                                                         *)
(* One action is one activation of the bank's SystemC process mainLoop(),  *)
(* or of one of its two other processes: copyToMissBuffer() and            *)
(* memoryRequestSent().  The bank retries every clock cycle, so a branch   *)
(* that only waits is a step not taken.  SRAM bandwidth and the artificial *)
(* delay of the output queues only cost cycles and are left out, as are    *)
(* scratchpad mode and the debug interface.                                *)
(***************************************************************************)
EXTENDS MemoryOperations

CONSTANTS
    LineOf,         \* getPosition(): the SRAM line a tag maps to
    ZeroTag,        \* the tag of address 0, which the all-lines operations test
    InitialMem,     \* what the next level holds at first
    hitUnderMiss,   \* the parameter memory-bank-hit-under-miss
    InputSize,      \* capacity of inputQueue
    OutputSize,     \* capacity of each output queue
    OutQueue,       \* the queues of results
    QueueOf,        \* the queue results for a channel go to
    Workloads,      \* sets of head flits; requesters send those of one set
    MaxRequests,    \* bound: the number of requests sent in a behaviour
    LatePayload     \* whether a payload may reach the bank after the refill

\* A null pointer is no request, line or word.
ASSUME NoneAssumption ==
    None \notin Operation \cup [line : Line, tag : Tag] \cup [tag : Tag, off : Off]
                          \cup [dest : Dest, tag : Tag, off : Off]

ASSUME BankAssumption ==
    /\ LineOf \in [Tag -> Line]
    /\ ZeroTag \in Tag /\ LineOf[ZeroTag] = 0
    /\ InitialMem \in [Tag -> [Off -> Val]]
    /\ QueueOf \in [Dest -> OutQueue]
    /\ hitUnderMiss \in BOOLEAN /\ LatePayload \in BOOLEAN
    /\ InputSize \in Nat \ {0} /\ OutputSize \in Nat \ {0}
    /\ MaxRequests \in Nat
    /\ \A h \in UNION Workloads :
          /\ h \in HeadFlit
          /\ Len(h.data) = payloadFlits(h.op)
          /\ wholeLine(h.op) => h.off = 0
          /\ h.op \in AllLines => h.tag = ZeroTag

Requests == UNION Workloads

VARIABLES
    state, previousState,   \* the state machine of mainLoop()
    hitRequest,             \* the request being served
    missRequest,            \* the request waiting for the next level
    metadata, data,         \* tag and words of each line in the SRAM
    cacheLineCursor,        \* next word of a line being flushed or refilled
    flushAddress,           \* the line being flushed, and whose data it is
    pendingFlushes,         \* tags whose STORE_LINE has not left the bank
    missBuffer, copyingToMissBuffer, readingFromMissBuffer,
    reservations,           \* the bank's only load-linked reservation
    inputQueue,             \* flits from the cores of the tile
    requestSig,             \* the flit offered by the L2 request filter
    inResponseQueue,        \* words from the next level
    outputReqQueue,         \* flits to the next level
    output                  \* results: the data, instruction and L2 queues

\* What surrounds the bank.
VARIABLES
    sending,                \* per input, the payload flits still to be sent
    workload,               \* what may be sent, and how many requests were
    nextLevel,              \* words held by the next level
    storing,                \* the line it is being sent, and the next word
    returning               \* words it has sent that have not arrived

control  == <<state, previousState, hitRequest, missRequest>>
sram     == <<metadata, data, reservations>>
flushing == <<cacheLineCursor, flushAddress, pendingFlushes>>
buffer   == <<missBuffer, copyingToMissBuffer, readingFromMissBuffer>>
inputs   == <<inputQueue, requestSig>>
beyond   == <<nextLevel, storing, returning>>
vars     == <<control, sram, flushing, buffer, inputs, inResponseQueue,
              outputReqQueue, output, sending, workload, beyond>>

-----------------------------------------------------------------------------
(* Flits, queues and the cache's tags.                                     *)

HeadOf(h)         == [head |-> TRUE, req |-> h]
PayloadOf(v, eop) == [head |-> FALSE, val |-> v, eop |-> eop]

\* requestQueueSize(): room for a fetch and a whole flushed line.
requestQueueSize  == 2 + WordsPerLine
canSendRequest    == Len(outputReqQueue) < requestQueueSize
responseAvailable == inResponseQueue # <<>>
canSendResponse(r) == HasReturnAddress(r) => Len(output[QueueOf[r.dest]]) < OutputSize

\* contains(): is the tag's line in the SRAM?
contains(t) == metadata[LineOf[t]].valid /\ metadata[LineOf[t]].tag = t
inCache(r)  == contains(r.tag)

HeadWaiting(queue) == queue # <<>> /\ queue[1].head
requestAvailable   == HeadWaiting(inputQueue) \/ HeadWaiting(requestSig)

\* peekRequest(): requests of local cores come first.
peekRequest == decodeMemoryRequest(
    IF HeadWaiting(inputQueue) THEN inputQueue[1].req ELSE requestSig[1].req)

\* The input that a request's payload arrives on.
Input(r) == IF IsL1(r) THEN inputQueue ELSE requestSig

PayloadWaiting(queue) == queue # <<>> /\ ~queue[1].head

payloadAvailable(r) ==
    IF readingFromMissBuffer THEN missBuffer # <<>> ELSE PayloadWaiting(Input(r))

NextPayload(r) ==
    IF readingFromMissBuffer THEN missBuffer[1].val ELSE Input(r)[1].val

\* Take a flit from the request's input.
Consume(r) ==
    IF IsL1(r) THEN inputQueue' = Tail(inputQueue) /\ UNCHANGED requestSig
               ELSE requestSig' = <<>> /\ UNCHANGED inputQueue

getPayload(r) ==
    IF readingFromMissBuffer
    THEN missBuffer' = Tail(missBuffer) /\ UNCHANGED inputs
    ELSE Consume(r) /\ UNCHANGED missBuffer

sendRequests(flits) == outputReqQueue' = outputReqQueue \o flits

\* sendResult(): nothing is sent to a requester that wants no answer.
sendResult(r, v) ==
    output' = [output EXCEPT ![QueueOf[r.dest]] =
                  IF HasReturnAddress(r)
                  THEN Append(@, [dest |-> r.dest, val |-> v]) ELSE @]

\* writeWord(): the line becomes dirty, a reservation of the word is lost.
writeWord(t, o, v) ==
    /\ data' = [data EXCEPT ![LineOf[t]][o] = v]
    /\ metadata' = [metadata EXCEPT ![LineOf[t]].dirty = TRUE]
    /\ reservations' =
          IF reservations # None /\ LineOf[reservations.tag] = LineOf[t]
                /\ reservations.off = o
          THEN None ELSE reservations
-----------------------------------------------------------------------------
(* Making room for a line.                                                 *)

(***************************************************************************)
(* flush(): a dirty line leaves as a STORE_LINE header now, and a word per *)
(* step of processFlush() later; previousState is where to go on.  `next`  *)
(* is the state the caller ends in when there is nothing to send.          *)
(***************************************************************************)
flush(line, next) ==
    IF metadata[line].valid /\ metadata[line].dirty
    THEN /\ sendRequests(<<[kind |-> "STORE_LINE", tag |-> metadata[line].tag]>>)
         /\ pendingFlushes' = pendingFlushes \cup {metadata[line].tag}
         /\ flushAddress' = [line |-> line, tag |-> metadata[line].tag]
         /\ cacheLineCursor' = 0
         /\ previousState' = state
         /\ state' = "FLUSH"
    ELSE /\ state' = next
         /\ UNCHANGED <<previousState, flushing, outputReqQueue>>

\* validate(): the line is the request's from now on, its data to follow.
validate(r, next) ==
    LET line  == LineOf[r.tag]
        other == metadata[line].tag # r.tag
    IN  /\ IF other THEN flush(line, next)
           ELSE state' = next /\ UNCHANGED <<previousState, flushing, outputReqQueue>>
        /\ metadata' = [metadata EXCEPT ![line] =
                           [tag |-> r.tag, valid |-> TRUE, dirty |-> @.dirty /\ ~other]]

-----------------------------------------------------------------------------
(* processIdle()                                                           *)

\* Faulty variants of mayStart: each forgets one reason to wait.
mayStartSameLine(r) ==
    (hitUnderMiss /\ missRequest # None) => r.dest # missRequest.dest /\ inCache(r)
mayStartMissing(r) ==
    (hitUnderMiss /\ missRequest # None) =>
        /\ r.dest # missRequest.dest /\ r.tag # missRequest.tag
        /\ r.op \notin {"FLUSH_LINE", "FLUSH_ALL_LINES"}
        /\ ~(needsForwarding(r) /\ resultsToSend(r))
\* What may be started while another request waits for its line.
mayStart(r) ==
    (hitUnderMiss /\ missRequest # None) =>
        /\ r.dest # missRequest.dest
        /\ r.tag # missRequest.tag
        /\ inCache(r)
        /\ r.op \notin {"FLUSH_LINE", "FLUSH_ALL_LINES"}
        /\ ~(needsForwarding(r) /\ resultsToSend(r))
        /\ (awaitingPayload(r) /\ IsL1(r)) =>
               Len(inputQueue) >= 1 + payloadFlitsRemaining(r)

StartRefill ==
    /\ state = "IDLE" /\ responseAvailable
    /\ state' = "REFILL"
    /\ cacheLineCursor' = 0
    /\ UNCHANGED <<previousState, hitRequest, missRequest, sram, flushAddress,
                   pendingFlushes, buffer, inputs, inResponseQueue,
                   outputReqQueue, output, sending, workload, beyond>>

StartRequest ==
    /\ state = "IDLE" /\ ~responseAvailable /\ requestAvailable
    /\ mayStart(peekRequest)
    /\ Consume(peekRequest)
    /\ hitRequest' = peekRequest
    /\ state' = "REQUEST"
    /\ UNCHANGED <<previousState, missRequest, sram, flushing, buffer,
                   inResponseQueue, outputReqQueue, output, sending, workload, beyond>>

-----------------------------------------------------------------------------
(* processRequest()                                                        *)

\* Faulty variant: the next request still reads the miss buffer.
RetireStillReading(r) ==
    /\ UNCHANGED readingFromMissBuffer
    /\ IF complete(r, inCache(r)) THEN state' = "IDLE" /\ hitRequest' = None
                                  ELSE hitRequest' = r /\ UNCHANGED state

\* The last lines of processRequest(): is the request done?
Retire(r) ==
    IF complete(r, inCache(r))
    THEN state' = "IDLE" /\ hitRequest' = None /\ readingFromMissBuffer' = FALSE
    ELSE hitRequest' = r /\ UNCHANGED <<state, readingFromMissBuffer>>

RetireRequest ==
    /\ state = "REQUEST" /\ complete(hitRequest, inCache(hitRequest))
    /\ canSendRequest => ~needsForwarding(hitRequest)
    /\ Retire(hitRequest)
    /\ UNCHANGED <<previousState, missRequest, sram, flushing, missBuffer,
                   copyingToMissBuffer, inputs, inResponseQueue, outputReqQueue,
                   output, sending, workload, beyond>>

\* A request that skips this cache goes to the next level.
ForwardRequest ==
    /\ state = "REQUEST" /\ canSendRequest /\ needsForwarding(hitRequest)
    /\ sendRequests(<<[kind |-> "FORWARD", req |-> hitRequest]>>)
    /\ IF awaitingPayload(hitRequest)
       THEN state' = "FORWARD" /\ UNCHANGED <<hitRequest, missRequest>>
       ELSE /\ missRequest = None       \* loki_assert
            /\ missRequest' = hitRequest
            /\ state' = "IDLE" /\ hitRequest' = None
    /\ UNCHANGED <<previousState, sram, flushing, buffer, inputs, inResponseQueue,
                   output, sending, workload, beyond>>

Serving(r) == state = "REQUEST" /\ canSendRequest /\ ~needsForwarding(r)

\* prepare() of a request that overwrites the whole line: validateLine().
PrepareLine ==
    LET r == hitRequest IN
    /\ Serving(r) /\ ~preconditionsMet(r, inCache(r)) /\ claimsLine(r)
    /\ validate(r, "REQUEST")
    /\ hitRequest' = [r EXCEPT !.fresh = TRUE]
    /\ UNCHANGED <<missRequest, data, reservations, buffer, inputs, inResponseQueue,
                   output, sending, workload, beyond>>

\* prepare() of any other request: allocateLine() asks for the line's data.
PrepareFetch ==
    LET r == hitRequest IN
    /\ Serving(r) /\ ~preconditionsMet(r, inCache(r)) /\ ~claimsLine(r)
    /\ sendRequests(<<[kind |-> "FETCH_LINE", tag |-> r.tag]>>)
    /\ state' = "ALLOCATE"
    /\ UNCHANGED <<previousState, hitRequest, missRequest, sram, flushing, buffer,
                   inputs, inResponseQueue, output, sending, workload, beyond>>

Executing(r) ==
    /\ Serving(r)
    /\ preconditionsMet(r, inCache(r)) /\ ~complete(r, inCache(r))
    /\ resultsToSend(r) => canSendResponse(r)

\* oneIteration() of a load.
ExecuteLoad ==
    LET r    == hitRequest
        word == data[LineOf[r.tag]][CurrentOff(r)]
        next == [Iterated(r) EXCEPT
                    !.eop = r.op = "IPK_READ" /\ word \in EndOfPacketWords]
    IN  /\ state = "REQUEST" /\ r.op \in Loads /\ Executing(r)
        /\ sendResult(r, word)
        /\ reservations' = IF r.op = "LOAD_LINKED"
                           THEN [dest |-> r.dest, tag |-> r.tag, off |-> r.off]
                           ELSE reservations
        /\ Retire(next)
        /\ UNCHANGED <<previousState, missRequest, metadata, data, flushing, missBuffer,
                       copyingToMissBuffer, inputs, inResponseQueue, outputReqQueue,
                       sending, workload, beyond>>

\* oneIteration() of a store, once its payload is there.
ExecuteStore ==
    LET r == hitRequest IN
    /\ state = "REQUEST" /\ r.op \in Stores \ {"MEMSET_LINE"} /\ Executing(r)
    /\ payloadAvailable(r)
    /\ getPayload(r)
    /\ writeWord(r.tag, CurrentOff(r), NextPayload(r))
    /\ Retire(Iterated(r))
    /\ UNCHANGED <<previousState, missRequest, flushing, copyingToMissBuffer,
                   inResponseQueue, outputReqQueue, output, sending, workload, beyond>>

\* A memset takes one payload flit and writes it to every word of the line.
ExecuteMemset ==
    LET r    == hitRequest
        word == IF r.saved = None THEN NextPayload(r) ELSE r.saved
    IN  /\ state = "REQUEST" /\ r.op = "MEMSET_LINE" /\ Executing(r)
        /\ r.saved = None => payloadAvailable(r)
        /\ IF r.saved = None THEN getPayload(r) ELSE UNCHANGED <<missBuffer, inputs>>
        /\ writeWord(r.tag, CurrentOff(r), word)
        /\ Retire([Iterated(r) EXCEPT !.saved = word])
        /\ UNCHANGED <<previousState, missRequest, flushing, copyingToMissBuffer,
                       inResponseQueue, outputReqQueue, output, sending, workload, beyond>>

\* Atomic operations and store-conditionals answer first ...
ExecuteFirstPhase ==
    LET r   == hitRequest
        old == data[LineOf[r.tag]][r.off]
        ok  == inCache(r) /\ reservations = [dest |-> r.dest, tag |-> r.tag, off |-> r.off]
        answer == IF r.op \in Atomics THEN old ELSE IF ok THEN 1 ELSE 0
    IN  /\ state = "REQUEST" /\ r.op \in Atomics \cup {"STORE_CONDITIONAL"}
        /\ Executing(r) /\ r.saved = None
        /\ sendResult(r, answer)
        /\ hitRequest' = [r EXCEPT !.saved = answer]
        /\ UNCHANGED <<state, previousState, missRequest, sram, flushing, buffer, inputs,
                       inResponseQueue, outputReqQueue, sending, workload, beyond>>

\* ... and take their payload in a second phase.
ExecuteSecondPhase ==
    LET r     == hitRequest
        word  == IF r.op \in Atomics THEN AtomicUpdate(r.saved, NextPayload(r))
                                     ELSE NextPayload(r)
    IN  /\ state = "REQUEST" /\ r.op \in Atomics \cup {"STORE_CONDITIONAL"}
        /\ Executing(r) /\ r.saved # None
        /\ payloadAvailable(r)
        /\ getPayload(r)
        /\ IF r.op = "STORE_CONDITIONAL" /\ r.saved = 0
           THEN UNCHANGED sram
           ELSE writeWord(r.tag, r.off, word)
        /\ Retire([Iterated(r) EXCEPT !.saved = None])
        /\ UNCHANGED <<previousState, missRequest, flushing, copyingToMissBuffer,
                       inResponseQueue, outputReqQueue, output, sending, workload, beyond>>

(***************************************************************************)
(* FLUSH_LINE, and each iteration of FLUSH_ALL_LINES.  The request retires *)
(* in this step when there was nothing to send, after the flush if not.    *)
(***************************************************************************)
ExecuteFlush ==
    LET r    == hitRequest
        line == IF r.op = "FLUSH_LINE" THEN LineOf[r.tag] ELSE r.done
        present == r.op = "FLUSH_LINE" => inCache(r)
    IN  /\ state = "REQUEST" /\ r.op \in {"FLUSH_LINE", "FLUSH_ALL_LINES"} /\ Executing(r)
        /\ IF present /\ metadata[line].valid /\ metadata[line].dirty
           THEN /\ flush(line, "REQUEST")
                /\ hitRequest' = Iterated(r)
                /\ UNCHANGED readingFromMissBuffer
           ELSE /\ Retire(Iterated(r))
                /\ UNCHANGED <<previousState, flushing, outputReqQueue>>
        /\ metadata' = IF present THEN [metadata EXCEPT ![line].dirty = FALSE]
                                  ELSE metadata
        /\ UNCHANGED <<missRequest, data, reservations, missBuffer,
                       copyingToMissBuffer, inputs, inResponseQueue, output,
                       sending, workload, beyond>>

\* INVALIDATE_LINE, and each iteration of INVALIDATE_ALL_LINES.
ExecuteInvalidate ==
    LET r    == hitRequest
        line == IF r.op = "INVALIDATE_LINE" THEN LineOf[r.tag] ELSE r.done
    IN  /\ state = "REQUEST"
        /\ r.op \in {"INVALIDATE_LINE", "INVALIDATE_ALL_LINES"} /\ Executing(r)
        /\ metadata' = IF r.op = "INVALIDATE_LINE" /\ ~inCache(r) THEN metadata
                       ELSE [metadata EXCEPT ![line].valid = FALSE]
        /\ Retire(Iterated(r))
        /\ UNCHANGED <<previousState, missRequest, data, reservations, flushing, missBuffer,
                       copyingToMissBuffer, inputs, inResponseQueue, outputReqQueue,
                       output, sending, workload, beyond>>

-----------------------------------------------------------------------------
(* processAllocate(), processFlush(), processRefill(), processForward()    *)

\* The fetch is on its way: make room, and put the request aside.
Allocate ==
    LET r == hitRequest IN
    /\ state = "ALLOCATE" /\ canSendRequest /\ ~inCache(r)
    /\ validate(r, "IDLE")
    /\ missRequest' = r
    /\ copyingToMissBuffer' = (copyingToMissBuffer \/ awaitingPayload(r))
    /\ hitRequest' = IF state' = "FLUSH" THEN r ELSE None
    /\ UNCHANGED <<data, reservations, missBuffer, readingFromMissBuffer, inputs,
                   inResponseQueue, output, sending, workload, beyond>>

\* The line that was in the way has been flushed.
Allocated ==
    /\ state = "ALLOCATE" /\ canSendRequest /\ inCache(hitRequest)
    /\ state' = "IDLE" /\ hitRequest' = None
    /\ UNCHANGED <<previousState, missRequest, sram, flushing, buffer, inputs,
                   inResponseQueue, outputReqQueue, output, sending, workload, beyond>>

Flush ==
    LET last == cacheLineCursor + 1 >= WordsPerLine IN
    /\ state = "FLUSH" /\ canSendRequest
    /\ sendRequests(<<[kind |-> "WORD", tag |-> flushAddress.tag, off |-> cacheLineCursor,
                       val |-> data[flushAddress.line][cacheLineCursor], eop |-> last]>>)
    /\ cacheLineCursor' = cacheLineCursor + 1
    /\ state' = IF last THEN previousState ELSE state
    /\ UNCHANGED <<previousState, hitRequest, missRequest, sram, flushAddress,
                   pendingFlushes, buffer, inputs, inResponseQueue, output,
                   sending, workload, beyond>>

\* A word of the missing line arrives; after the last the request resumes.
Refill ==
    LET r    == missRequest
        last == cacheLineCursor + 1 >= WordsPerLine
    IN  /\ state = "REFILL" /\ responseAvailable /\ ~needsForwarding(r)
        /\ inResponseQueue' = Tail(inResponseQueue)
        /\ data' = [data EXCEPT ![LineOf[r.tag]][cacheLineCursor] = Head(inResponseQueue)]
        /\ metadata' = [metadata EXCEPT ![LineOf[r.tag]].dirty = ~last]
        /\ reservations' =
              IF reservations # None /\ LineOf[reservations.tag] = LineOf[r.tag]
                    /\ reservations.off = cacheLineCursor
              THEN None ELSE reservations
        /\ cacheLineCursor' = cacheLineCursor + 1
        /\ IF last
           THEN /\ state' = "REQUEST" /\ hitRequest' = r /\ missRequest' = None
                /\ readingFromMissBuffer' = TRUE
           ELSE UNCHANGED <<state, hitRequest, missRequest, readingFromMissBuffer>>
        /\ UNCHANGED <<previousState, flushAddress, pendingFlushes, missBuffer,
                       copyingToMissBuffer, inputs, outputReqQueue, output,
                       sending, workload, beyond>>

\* A result for a request that skips this cache is passed on.
ForwardResult ==
    LET r == Iterated(missRequest) IN
    /\ state = "REFILL" /\ responseAvailable /\ needsForwarding(missRequest)
    /\ canSendResponse(missRequest)
    /\ inResponseQueue' = Tail(inResponseQueue)
    /\ sendResult(missRequest, Head(inResponseQueue))
    /\ IF resultsToSend(r)
       THEN missRequest' = r /\ UNCHANGED state
       ELSE state' = "IDLE" /\ missRequest' = None
    /\ UNCHANGED <<previousState, hitRequest, sram, flushing, buffer, inputs,
                   outputReqQueue, sending, workload, beyond>>

\* The payload of a request that skips this cache follows its head.
ForwardPayload ==
    LET r == hitRequest
        flit == Input(r)[1]
    IN  /\ state = "FORWARD" /\ canSendRequest /\ payloadAvailable(r)
        /\ Consume(r)
        /\ sendRequests(<<[kind |-> "FORWARDED_WORD", eop |-> flit.eop]>>)
        /\ IF ~flit.eop THEN UNCHANGED <<state, hitRequest, missRequest>>
           ELSE /\ state' = "IDLE" /\ hitRequest' = None
                /\ IF resultsToSend(r)
                   THEN missRequest = None /\ missRequest' = r    \* loki_assert
                   ELSE UNCHANGED missRequest
        /\ UNCHANGED <<previousState, sram, flushing, buffer, inResponseQueue,
                       output, sending, workload, beyond>>

(* The other processes of the bank.                                        *)

\* copyToMissBuffer(): the payload of a missing request is taken out of the
\* way, so that requests behind it can be served.
CopyToMissBuffer ==
    /\ copyingToMissBuffer
    /\ missRequest # None                        \* it is dereferenced
    /\ PayloadWaiting(Input(missRequest))         \* loki_assert
    /\ Len(missBuffer) < WordsPerLine             \* loki_assert
    /\ LET flit == Input(missRequest)[1] IN
          /\ missBuffer' = Append(missBuffer, flit)
          /\ copyingToMissBuffer' = ~flit.eop
    /\ Consume(missRequest)
    /\ UNCHANGED <<control, sram, flushing, readingFromMissBuffer, inResponseQueue,
                   outputReqQueue, output, sending, workload, beyond>>

(***************************************************************************)
(* A flit leaves for the next level, and memoryRequestSent() takes the     *)
(* line of a STORE_LINE header off pendingFlushes.  The next level serves  *)
(* requests in the order it gets them; what it answers a forwarded request *)
(* is its own affair.                                                      *)
(***************************************************************************)
SendRequest ==
    /\ outputReqQueue # <<>>
    /\ outputReqQueue' = Tail(outputReqQueue)
    /\ LET flit == Head(outputReqQueue) IN
       /\ pendingFlushes' =
             CASE flit.kind = "STORE_LINE" -> pendingFlushes \ {flit.tag}
               [] flit.kind = "FORWARD" /\ flit.req.op = "STORE_LINE"
                                          -> pendingFlushes \ {flit.req.tag}
               [] OTHER -> pendingFlushes
       /\ CASE flit.kind = "FETCH_LINE" ->
                  /\ returning' = returning \o [i \in 1 .. WordsPerLine |->
                                                   nextLevel[flit.tag][i - 1]]
                  /\ UNCHANGED <<nextLevel, storing>>
            [] flit.kind = "STORE_LINE" ->
                  /\ storing' = [tag |-> flit.tag, off |-> 0]
                  /\ UNCHANGED <<nextLevel, returning>>
            [] flit.kind = "WORD" ->
                  /\ nextLevel' = [nextLevel EXCEPT ![storing.tag][storing.off] = flit.val]
                  /\ storing' = IF flit.eop THEN None
                                ELSE [storing EXCEPT !.off = @ + 1]
                  /\ UNCHANGED returning
            [] flit.kind = "FORWARD" ->
                  /\ \E v \in Val :
                        returning' = returning \o
                            [i \in 1 .. (IF HasReturnAddress(flit.req)
                                         THEN resultFlitsRemaining(flit.req) ELSE 0) |-> v]
                  /\ UNCHANGED <<nextLevel, storing>>
            [] flit.kind = "FORWARDED_WORD" -> UNCHANGED beyond
    /\ UNCHANGED <<control, sram, cacheLineCursor, flushAddress, buffer, inputs,
                   inResponseQueue, output, sending, workload>>

-----------------------------------------------------------------------------
(* What surrounds the bank: external to it, as it is seen from its queues. *)

\* A requester sends the head flit of a request once its input has carried
\* the whole of the packet before.
SendHead(h) ==
    /\ h \in workload.requests /\ workload.sent < MaxRequests
    /\ workload' = [workload EXCEPT !.sent = @ + 1]
    /\ IF IsL1(h)
       THEN /\ sending.core = <<>> /\ Len(inputQueue) < InputSize
            /\ inputQueue' = Append(inputQueue, HeadOf(h))
            /\ sending' = [sending EXCEPT !.core = h.data]
            /\ UNCHANGED requestSig
       ELSE /\ sending.remote = <<>> /\ requestSig = <<>>
            /\ requestSig' = <<HeadOf(h)>>
            /\ sending' = [sending EXCEPT !.remote = h.data]
            /\ UNCHANGED inputQueue
    /\ UNCHANGED <<control, sram, flushing, buffer, inResponseQueue, outputReqQueue,
                   output, beyond>>

SendCorePayload ==
    /\ sending.core # <<>> /\ Len(inputQueue) < InputSize
    /\ inputQueue' = Append(inputQueue,
                            PayloadOf(Head(sending.core), Len(sending.core) = 1))
    /\ sending' = [sending EXCEPT !.core = Tail(@)]
    /\ UNCHANGED <<control, sram, flushing, buffer, requestSig, inResponseQueue,
                   outputReqQueue, output, workload, beyond>>

SendRemotePayload ==
    /\ sending.remote # <<>> /\ requestSig = <<>>
    /\ requestSig' = <<PayloadOf(Head(sending.remote), Len(sending.remote) = 1)>>
    /\ sending' = [sending EXCEPT !.remote = Tail(@)]
    /\ UNCHANGED <<control, sram, flushing, buffer, inputQueue, inResponseQueue,
                   outputReqQueue, output, workload, beyond>>

(***************************************************************************)
(* A word of the next level arrives.  The bank puts a request aside in the *)
(* clock cycle after it sent the fetch, long before an answer can be back; *)
(* the last word comes, unless LatePayload, after the payload that the     *)
(* request brought with it.                                                *)
(***************************************************************************)
ReceiveResponse ==
    /\ returning # <<>> /\ Len(inResponseQueue) < InputSize
    /\ missRequest # None
    /\ Len(returning) = 1 /\ ~LatePayload => ~copyingToMissBuffer
    /\ inResponseQueue' = Append(inResponseQueue, Head(returning))
    /\ returning' = Tail(returning)
    /\ UNCHANGED <<control, sram, flushing, buffer, inputs, outputReqQueue, output,
                   sending, workload, nextLevel, storing>>

\* The network takes a result from an output queue.
TakeResult(q) ==
    /\ output[q] # <<>>
    /\ output' = [output EXCEPT ![q] = Tail(@)]
    /\ UNCHANGED <<control, sram, flushing, buffer, inputs, inResponseQueue,
                   outputReqQueue, sending, workload, beyond>>

-----------------------------------------------------------------------------
Init ==
    /\ state = "IDLE" /\ previousState = "IDLE"
    /\ hitRequest = None /\ missRequest = None
    /\ metadata = [l \in Line |-> [tag |-> ZeroTag, valid |-> FALSE, dirty |-> FALSE]]
    /\ data = [l \in Line |-> [o \in Off |-> 0]]
    /\ cacheLineCursor = 0
    /\ flushAddress = None
    /\ pendingFlushes = {}
    /\ missBuffer = <<>>
    /\ copyingToMissBuffer = FALSE /\ readingFromMissBuffer = FALSE
    /\ reservations = None
    /\ inputQueue = <<>> /\ requestSig = <<>>
    /\ inResponseQueue = <<>> /\ outputReqQueue = <<>>
    /\ output = [q \in OutQueue |-> <<>>]
    /\ sending = [core |-> <<>>, remote |-> <<>>]
    /\ \E requests \in Workloads : workload = [requests |-> requests, sent |-> 0]
    /\ nextLevel = InitialMem
    /\ storing = None
    /\ returning = <<>>

\* processIdle() and the other methods called from mainLoop().
mainLoop ==
    \/ StartRefill \/ StartRequest
    \/ RetireRequest \/ ForwardRequest \/ PrepareLine \/ PrepareFetch
    \/ ExecuteLoad \/ ExecuteStore \/ ExecuteMemset
    \/ ExecuteFirstPhase \/ ExecuteSecondPhase \/ ExecuteFlush \/ ExecuteInvalidate
    \/ Allocate \/ Allocated \/ Flush
    \/ Refill \/ ForwardResult \/ ForwardPayload

Surroundings ==
    \/ \E h \in Requests : SendHead(h)
    \/ SendCorePayload \/ SendRemotePayload
    \/ ReceiveResponse
    \/ \E q \in OutQueue : TakeResult(q)

Next == mainLoop \/ CopyToMissBuffer \/ SendRequest \/ Surroundings

Spec == Init /\ [][Next]_vars

(***************************************************************************)
(* mainLoop() is activated on every clock edge and copyToMissBuffer() by   *)
(* the events it waits for; the networks drain every queue; and a          *)
(* requester that has sent a head flit sends its payload.                  *)
(***************************************************************************)
Fairness ==
    /\ WF_vars(mainLoop) /\ WF_vars(CopyToMissBuffer) /\ WF_vars(SendRequest)
    /\ WF_vars(SendCorePayload) /\ WF_vars(SendRemotePayload)
    /\ WF_vars(ReceiveResponse)
    /\ \A q \in OutQueue : WF_vars(TakeResult(q))

FairSpec == Spec /\ Fairness

-----------------------------------------------------------------------------
(* Invariants.                                                             *)

States == {"IDLE", "REQUEST", "ALLOCATE", "FLUSH", "REFILL", "FORWARD"}

InFlit == [head : {TRUE}, req : HeadFlit]
            \cup [head : {FALSE}, val : Val, eop : BOOLEAN]

OutFlit == [kind : {"FETCH_LINE", "STORE_LINE"}, tag : Tag]
            \cup [kind : {"WORD"}, tag : Tag, off : Off, val : Val, eop : BOOLEAN]
            \cup [kind : {"FORWARD"}, req : Operation]
            \cup [kind : {"FORWARDED_WORD"}, eop : BOOLEAN]

\* Every variable has its type, and no queue holds more than its capacity.
TypeOK ==
    /\ state \in States /\ previousState \in {"IDLE", "REQUEST", "ALLOCATE"}
    /\ hitRequest \in Operation \cup {None}
    /\ missRequest \in Operation \cup {None}
    /\ metadata \in [Line -> [tag : Tag, valid : BOOLEAN, dirty : BOOLEAN]]
    /\ data \in [Line -> [Off -> Val]]
    /\ cacheLineCursor \in 0 .. WordsPerLine
    /\ flushAddress \in [line : Line, tag : Tag] \cup {None}
    /\ pendingFlushes \in SUBSET Tag
    /\ missBuffer \in Seq(InFlit) /\ Len(missBuffer) <= WordsPerLine
    /\ copyingToMissBuffer \in BOOLEAN /\ readingFromMissBuffer \in BOOLEAN
    /\ reservations \in [dest : Dest, tag : Tag, off : Off] \cup {None}
    /\ inputQueue \in Seq(InFlit) /\ Len(inputQueue) <= InputSize
    /\ requestSig \in Seq(InFlit) /\ Len(requestSig) <= 1
    /\ inResponseQueue \in Seq(Val) /\ Len(inResponseQueue) <= InputSize
    /\ outputReqQueue \in Seq(OutFlit) /\ Len(outputReqQueue) <= requestQueueSize
    /\ output \in [OutQueue -> Seq([dest : Dest, val : Val])]
    /\ \A q \in OutQueue : Len(output[q]) <= OutputSize
    /\ sending \in [core : Seq(Val), remote : Seq(Val)]
    /\ workload \in [requests : Workloads, sent : 0 .. MaxRequests]
    /\ nextLevel \in [Tag -> [Off -> Val]]
    /\ storing \in [tag : Tag, off : Off] \cup {None}
    /\ returning \in Seq(Val)

(***************************************************************************)
(* Nothing the processes rely on is missing when they use it: a response   *)
(* has a missing request to go to, a request is parked only in an empty    *)
(* slot, and while a payload is copied aside its request is still the      *)
(* missing one, only payload arrives on its input and the miss buffer has  *)
(* room (the loki_asserts and dereferences of MemoryBank.cpp).             *)
(***************************************************************************)
ParksInEmptySlot ==
    \/ state = "ALLOCATE" /\ ~inCache(hitRequest)
    \/ state = "REQUEST" /\ needsForwarding(hitRequest) /\ ~awaitingPayload(hitRequest)
    \/ state = "FORWARD" /\ resultsToSend(hitRequest)
    => missRequest = None

CopyHasRequest == copyingToMissBuffer => missRequest # None

CopiesPayload ==
    copyingToMissBuffer /\ missRequest # None =>
        /\ Input(missRequest) # <<>> => ~Input(missRequest)[1].head
        /\ Len(missBuffer) < WordsPerLine

AssertionsHold ==
    /\ TypeOK
    /\ (state = "IDLE" /\ responseAvailable) \/ state = "REFILL" => missRequest # None
    /\ ParksInEmptySlot /\ CopyHasRequest /\ CopiesPayload

(***************************************************************************)
(* A forwarded request is parked only when there are results to wait for   *)
(* (the comment of processForward(), MemoryBank.cpp).                      *)
(***************************************************************************)
ParkedExpectsResults ==
    missRequest # None /\ needsForwarding(missRequest) => resultsToSend(missRequest)

=============================================================================
