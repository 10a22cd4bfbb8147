------------------------------- MODULE SharedL2 -------------------------------
(***************************************************************************)
(* The memory banks of a tile as one associative L2 cache.  L2Logic takes  *)
(* the requests of other tiles and broadcasts them on L2LToBankRequests;   *)
(* the L2RequestFilter in front of each bank looks at the bank's tags,     *)
(* answers hit or miss, and passes the request on if the bank is the one   *)
(* to serve it: the bank that has the line or, when all of them miss, the  *)
(* target bank.                                                            *)
(*                                                                         *)
(* L2Logic and the filters are SystemC methods.  Each waits for one event, *)
(* an event is heard in the delta cycle after its notification by those    *)
(* who wait for it by then, and SystemC does not say in which order the    *)
(* methods of one delta cycle run.  Of a bank the model keeps what its     *)
(* filter can tell: one line, the queue of its requests, and how far it is *)
(* with the request it serves; MemoryBank has the rest.                    *)
(***************************************************************************)
EXTENDS Naturals, Sequences, FiniteSets

CONSTANTS
  None,
  Bank,           \* the memory banks of the tile, each with its filter
  L2Logic,        \* the process that broadcasts requests
  Tag,            \* lines that other tiles ask for
  L1Bank,         \* the banks that the cores of this tile use too
  LocalTag,       \* stands for the lines they ask for, no two of them the same
  Requests,       \* requests that other tiles send
  WordsPerLine,
  NumBanks,
  ReferenceKernel,\* methods run in the order of the reference implementation
  Spaced          \* two requests for one line never follow each other
                  \* before the bank serving the first has looked at it

Process == Bank \cup {L2Logic}
requestQueueSize == 2 + WordsPerLine

ASSUME BankAssumption ==
  /\ IsFiniteSet(Bank) /\ NumBanks = Cardinality(Bank) /\ NumBanks > 0
  /\ L2Logic \notin Bank /\ L1Bank \subseteq Bank
ASSUME LineAssumption == WordsPerLine \in Nat \ {0} /\ LocalTag \notin Tag
ASSUME RequestAssumption ==
  /\ Spaced \in BOOLEAN /\ ReferenceKernel \in BOOLEAN
  /\ Requests \subseteq [tag : Tag, payload : {0, WordsPerLine}, skip : BOOLEAN]

\* The flits of a request: how many follow, and whether it is the first.
Flit == [tag : Tag \cup {LocalTag}, skip : BOOLEAN, left : 0 .. WordsPerLine, head : BOOLEAN]

ASSUME NoneAssumption == None \notin Bank \cup Tag \cup {LocalTag} /\ None \notin Flit

VARIABLES
  fromNetwork,      \* the flit at the head of requestsFromNetwork, or None
  rest,             \* the flit that follows it in its packet, or None
  newRemoteRequest, \* the next flit L2Logic reads starts a packet
  flit,             \* the flit on the channel to the banks
  target,           \* the bank to serve it if every bank misses
  numResponses, hit, consumed,
  state,            \* filter -> its state
  oRequest,         \* bank -> the flit its filter offers it, or None
  bankState,        \* bank -> the state of its main loop
  serving,          \* bank -> the request it is serving, or None
  line,             \* bank -> tag and dirty bit of its line
  cursor,           \* bank -> words of its flush that are written
  pendingFlushes,   \* bank -> tags it has promised to flush
  outputReqQueue,   \* bank -> its requests to the next level
  ready,            \* processes to run in this delta cycle
  waits,            \* process -> the event it waits for
  notified          \* process -> events it can hear in the next delta cycle

network == <<fromNetwork, rest>>
channel == <<flit, target, numResponses, hit, consumed>>
bank == <<bankState, serving, line, cursor, pendingFlushes, outputReqQueue>>
vars == <<fromNetwork, rest, newRemoteRequest, flit, target, numResponses, hit, consumed,
          state, oRequest, bankState, serving, line, cursor, pendingFlushes,
          outputReqQueue, ready, waits, notified>>

FlitOf(r, left) == [tag |-> r.tag, skip |-> r.skip, left |-> left, head |-> left = r.payload]

-----------------------------------------------------------------------------
(* Processes and events.                                                   *)

\* Process p runs, and waits for the event from then on.
Runs(p, event) ==
  /\ p \in ready
  /\ ready' = ready \ {p}
  /\ waits' = [waits EXCEPT ![p] = event]

\* Events are notified: some for one process only, some for all filters.
Notify(p, own, shared) ==
  notified' = [q \in Process |-> notified[q] \cup (IF q = p THEN own ELSE {})
                                    \cup (IF q \in Bank THEN shared ELSE {})]

\* The banks and the network act between the delta cycles of these methods:
\* what they do during one could as well have been done just before.
Between == ready = {}

DeltaCycle ==
  /\ ready = {}
  /\ \E p \in Process : notified[p] # {}
  /\ ready' = {p \in Process : waits[p] \in notified[p]}
  /\ notified' = [p \in Process |-> {}]
  /\ UNCHANGED <<network, newRemoteRequest, channel, state, oRequest, bank, waits>>

-----------------------------------------------------------------------------
(* The channel: L2LToBankRequests.                                         *)

allResponsesReceived == numResponses = NumBanks

(* Faulty variant: once all banks have answered the next flit may come. *)
canWriteOnceAnswered == allResponsesReceived
canWrite == consumed /\ allResponsesReceived

\* The events of the last response, for process p.
addResponse(p) ==
  IF numResponses + 1 < NumBanks THEN {}
  ELSE IF p \in Bank THEN {"allResponses"}
  ELSE IF consumed THEN {"canWrite"} ELSE {}

\* Bank b answers, and notifies itself of its own events.
Respond(b, own) ==
  /\ numResponses' = numResponses + 1
  /\ notified' = [p \in Process |-> notified[p] \cup addResponse(p)
                                       \cup (IF p = b THEN own ELSE {})]

(* Faulty variant: only the last response lets L2Logic go on. *)
NoReadEvents == {}
ReadEvents == IF allResponsesReceived THEN {"canWrite"} ELSE {}

\* The reference kernel runs methods in the reverse order of their events'
\* notifications, so nothing comes between a bank that hits and reads the
\* flit and the target bank that learns of the hit.
InOrder(b) ==
  ~(ReferenceKernel /\ waits[L2Logic] = "canRead" /\ b \in ready /\ state[b] = "WAIT")

\* Another tile's request may name the bank; otherwise it is chosen at random.
getTargetBank == Bank

newRequest(f) ==
  /\ flit' = f /\ consumed' = FALSE
  /\ target' \in getTargetBank
  /\ numResponses' = 0 /\ hit' = FALSE
  /\ Notify(L2Logic, {}, {"newRequest", "newFlit"})

newPayload(f) ==
  /\ flit' = f /\ consumed' = FALSE
  /\ Notify(L2Logic, {}, {"newFlit"})
  /\ UNCHANGED <<target, numResponses, hit>>

WaitForChannel ==
  /\ Runs(L2Logic, "canWrite")
  /\ ~canWrite
  /\ UNCHANGED <<network, newRemoteRequest, channel, state, oRequest, bank, notified>>

ForwardFlit ==
  /\ Runs(L2Logic, "canRead")
  /\ canWrite
  /\ \A b \in Bank : InOrder(b)
  /\ fromNetwork # None
  /\ fromNetwork' = None
  /\ IF newRemoteRequest THEN newRequest(fromNetwork) ELSE newPayload(fromNetwork)
  /\ newRemoteRequest' = (fromNetwork.left = 0)
  /\ UNCHANGED <<rest, state, oRequest, bank>>

forwardRequests == WaitForChannel \/ ForwardFlit
-----------------------------------------------------------------------------
(* The filters.                                                            *)

contains(b, t) == line[b].tag = t

(* Faulty variant: a line that is being flushed is not waited for. *)
flushingNothing(b, t) == FALSE
flushing(b, t) == t \in pendingFlushes[b]

(* Faulty variant: a request that skips this cache goes to whoever hits. *)
serveRequestOnHit(b) == IF flit.skip /\ target = b THEN TRUE ELSE contains(b, flit.tag)
serveRequest(b) == IF flit.skip THEN target = b ELSE contains(b, flit.tag)

\* The line is leaving this bank: nobody may fetch it before it has left.
DelayRequest(b) ==
  /\ state[b] = "IDLE"
  /\ Runs(b, "requestSent")
  /\ flushing(b, flit.tag)
  /\ UNCHANGED <<network, newRemoteRequest, channel, state, oRequest, bank, notified>>

AnswerHit(b) ==
  /\ state[b] = "IDLE"
  /\ Runs(b, "now")
  /\ ~flushing(b, flit.tag)
  /\ serveRequest(b)
  /\ ~hit                           \* loki_assert
  /\ hit' = TRUE
  /\ state' = [state EXCEPT ![b] = "SEND"]
  /\ Respond(b, {"now"})
  /\ UNCHANGED <<network, newRemoteRequest, flit, target, consumed, oRequest, bank>>

AnswerMiss(b) ==
  /\ state[b] = "IDLE"
  /\ Runs(b, IF target = b THEN "allResponses" ELSE "newRequest")
  /\ ~flushing(b, flit.tag)
  /\ ~serveRequest(b)
  /\ state' = [state EXCEPT ![b] = IF target = b THEN "WAIT" ELSE "IDLE"]
  /\ Respond(b, {})
  /\ UNCHANGED <<network, newRemoteRequest, flit, target, hit, consumed, oRequest, bank>>

\* The target bank knows every answer.
SomeoneHit(b) ==
  /\ state[b] = "WAIT"
  /\ Runs(b, "newRequest")
  /\ hit
  /\ state' = [state EXCEPT ![b] = "IDLE"]
  /\ UNCHANGED <<network, newRemoteRequest, channel, oRequest, bank, notified>>

(* Faulty variant: the target bank does not look at the others' answers. *)
EveryoneMissedOrNot == TRUE
EveryoneMissed == ~hit
ClaimAsTarget(b) ==
  /\ state[b] = "WAIT"
  /\ Runs(b, "now")
  /\ EveryoneMissed
  /\ state' = [state EXCEPT ![b] = "SEND"]
  /\ Notify(b, {"now"}, {})
  /\ UNCHANGED <<network, newRemoteRequest, channel, oRequest, bank>>

WaitForBank(b) ==
  /\ state[b] = "SEND"
  /\ Runs(b, "ack")
  /\ oRequest[b] # None
  /\ UNCHANGED <<network, newRemoteRequest, channel, state, oRequest, bank, notified>>

SendFlit(b) ==
  /\ state[b] = "SEND"
  /\ Runs(b, "newFlit")
  /\ oRequest[b] = None
  /\ ~consumed                      \* loki_assert
  /\ consumed' = TRUE
  /\ oRequest' = [oRequest EXCEPT ![b] = flit]
  /\ state' = [state EXCEPT ![b] = IF flit.left = 0 THEN "IDLE" ELSE @]
  /\ Notify(L2Logic, ReadEvents, {})
  /\ UNCHANGED <<network, newRemoteRequest, flit, target, numResponses, hit, bank>>

Filter(b) ==
  \/ DelayRequest(b) \/ AnswerHit(b) \/ AnswerMiss(b)
  \/ SomeoneHit(b) \/ ClaimAsTarget(b)
  \/ WaitForBank(b) \/ SendFlit(b)

-----------------------------------------------------------------------------
(* The banks.  requestSentEvent() is the canWriteEvent() of the queue: it  *)
(* is notified by a write that leaves room, and by the read that makes     *)
(* room in a full queue, but by no other read.                             *)

canSendRequest(b) == Len(outputReqQueue[b]) < requestQueueSize
WriteEvents(b) ==
  IF Len(outputReqQueue[b]) + 1 < requestQueueSize THEN {"requestSent"} ELSE {}
ReadRequestEvents(b) ==
  IF Len(outputReqQueue[b]) = requestQueueSize THEN {"requestSent"} ELSE {}

\* The bank writes a flit to its queue.
Write(b, f) ==
  /\ outputReqQueue' = [outputReqQueue EXCEPT ![b] = Append(@, f)]
  /\ Notify(b, WriteEvents(b), {})

Enter(b, s) == bankState' = [bankState EXCEPT ![b] = s]
Done(b) == Enter(b, "IDLE") /\ serving' = [serving EXCEPT ![b] = None]
around == <<network, newRemoteRequest, channel, state, ready, waits>>

TakeFlit(b) ==
  /\ oRequest' = [oRequest EXCEPT ![b] = None]
  /\ Notify(b, {"ack"}, {})

StartRequest(b) ==
  /\ Between
  /\ bankState[b] = "IDLE"
  /\ oRequest[b] # None
  /\ Enter(b, "REQUEST")
  /\ serving' = [serving EXCEPT ![b] = oRequest[b]]
  /\ TakeFlit(b)
  /\ UNCHANGED <<around, line, cursor, pendingFlushes, outputReqQueue>>

\* validate() and flush(): the line is given to tag t.  If it was dirty, the
\* header of its flush is written at once and its words one by one.
Validate(b, t, next) ==
  /\ line' = [line EXCEPT ![b] = [tag |-> t, dirty |-> FALSE]]
  /\ IF line[b].dirty
     THEN /\ Write(b, [kind |-> "STORE_LINE", tag |-> line[b].tag])
          /\ pendingFlushes' = [pendingFlushes EXCEPT ![b] = @ \cup {line[b].tag}]
          /\ Enter(b, "FLUSH")
     ELSE /\ UNCHANGED <<outputReqQueue, notified, pendingFlushes>>
          /\ Enter(b, next)
  /\ UNCHANGED cursor

Misses(b) == ~serving[b].skip /\ ~contains(b, serving[b].tag)

\* A whole line that is stored needs no data from the next level.
PrepareLine(b) ==
  /\ Between
  /\ bankState[b] = "REQUEST" /\ Misses(b) /\ canSendRequest(b)
  /\ serving[b].left > 0
  /\ Validate(b, serving[b].tag, "REQUEST")
  /\ UNCHANGED <<around, oRequest, serving>>

\* allocate(): any other request does.
PrepareFetch(b) ==
  /\ Between
  /\ bankState[b] = "REQUEST" /\ Misses(b) /\ canSendRequest(b)
  /\ serving[b].left = 0
  /\ Write(b, [kind |-> "FETCH_LINE", tag |-> serving[b].tag])
  /\ Enter(b, "ALLOCATE")
  /\ UNCHANGED <<around, oRequest, serving, line, cursor, pendingFlushes>>

\* A request of a core of this tile misses.
LocalMiss(b) ==
  /\ Between /\ b \in L1Bank
  /\ bankState[b] = "IDLE" /\ canSendRequest(b)
  /\ Write(b, [kind |-> "FETCH_LINE", tag |-> LocalTag])
  /\ serving' = [serving EXCEPT ![b] =
                   [tag |-> LocalTag, skip |-> FALSE, left |-> 0, head |-> TRUE]]
  /\ Enter(b, "ALLOCATE")
  /\ UNCHANGED <<around, oRequest, line, cursor, pendingFlushes>>

Allocate(b) ==
  /\ Between
  /\ bankState[b] = "ALLOCATE" /\ canSendRequest(b)
  /\ Validate(b, serving[b].tag, "MISS")
  /\ UNCHANGED <<around, oRequest, serving>>

Flush(b) ==
  /\ Between
  /\ bankState[b] = "FLUSH" /\ canSendRequest(b)
  /\ Write(b, [kind |-> "WORD", tag |-> None])
  /\ cursor' = [cursor EXCEPT ![b] = (@ + 1) % WordsPerLine]
  /\ IF cursor[b] + 1 < WordsPerLine
     THEN UNCHANGED bankState
     ELSE Enter(b, IF serving[b].left > 0 THEN "REQUEST" ELSE "MISS")
  /\ UNCHANGED <<around, oRequest, serving, line, pendingFlushes>>

StoreWord(b) ==
  /\ Between
  /\ bankState[b] = "REQUEST" /\ ~serving[b].skip /\ ~Misses(b)
  /\ serving[b].left > 0 /\ oRequest[b] # None /\ canSendRequest(b)
  /\ line' = [line EXCEPT ![b].dirty = TRUE]
  /\ TakeFlit(b)
  /\ IF oRequest[b].left = 0 THEN Done(b) ELSE UNCHANGED <<bankState, serving>>
  /\ UNCHANGED <<around, cursor, pendingFlushes, outputReqQueue>>

\* A read that hits is answered, and so is one that missed once the next
\* level has been asked for its line.
Answer(b) ==
  /\ Between
  /\ \/ /\ bankState[b] = "REQUEST" /\ ~serving[b].skip /\ ~Misses(b)
        /\ serving[b].left = 0 /\ canSendRequest(b)
     \/ /\ bankState[b] = "MISS"
        /\ \A i \in DOMAIN outputReqQueue[b] :
             outputReqQueue[b][i].kind \notin {"FETCH_LINE", "FORWARD"}
  /\ Done(b)
  /\ UNCHANGED <<around, oRequest, line, cursor, pendingFlushes, outputReqQueue, notified>>

\* A request that skips this cache goes to the next level.
ForwardRequest(b) ==
  /\ Between
  /\ bankState[b] = "REQUEST" /\ serving[b].skip /\ canSendRequest(b)
  /\ Write(b, [kind |-> "FORWARD", tag |-> serving[b].tag])
  /\ Enter(b, IF serving[b].left > 0 THEN "FORWARD" ELSE "MISS")
  /\ UNCHANGED <<around, oRequest, serving, line, cursor, pendingFlushes>>

ForwardPayload(b) ==
  /\ Between
  /\ bankState[b] = "FORWARD" /\ canSendRequest(b)
  /\ oRequest[b] # None
  /\ oRequest' = [oRequest EXCEPT ![b] = None]
  /\ outputReqQueue' = [outputReqQueue EXCEPT ![b] = Append(@, [kind |-> "WORD", tag |-> None])]
  /\ Notify(b, {"ack"} \cup WriteEvents(b), {})
  /\ IF oRequest[b].left = 0 THEN Done(b) ELSE UNCHANGED <<bankState, serving>>
  /\ UNCHANGED <<around, line, cursor, pendingFlushes>>

\* A flit leaves; memoryRequestSent() takes a flush off the list.
SendRequest(b) ==
  /\ Between
  /\ outputReqQueue[b] # <<>>
  /\ outputReqQueue' = [outputReqQueue EXCEPT ![b] = Tail(@)]
  /\ LET sent == Head(outputReqQueue[b]) IN
     pendingFlushes' = [pendingFlushes EXCEPT ![b] =
                          IF sent.kind = "STORE_LINE" THEN @ \ {sent.tag} ELSE @]
  /\ Notify(b, ReadRequestEvents(b), {})
  /\ UNCHANGED <<around, oRequest, bankState, serving, line, cursor>>

mainLoop(b) ==
  \/ StartRequest(b) \/ PrepareLine(b) \/ PrepareFetch(b) \/ Allocate(b) \/ Flush(b)
  \/ StoreWord(b) \/ Answer(b) \/ ForwardRequest(b) \/ ForwardPayload(b)

-----------------------------------------------------------------------------
(* The request network.                                                    *)

\* The bank serving an earlier request for the line has yet to look at it.
Unsettled(t) ==
  \/ ~consumed /\ flit.tag = t
  \/ \E b \in Bank :
       \/ oRequest[b] # None /\ oRequest[b].tag = t
       \/ serving[b] # None /\ serving[b].tag = t /\ Misses(b)

ArriveHead(r) ==
  /\ Between
  /\ fromNetwork = None /\ rest = None
  /\ Spaced => ~Unsettled(r.tag)
  /\ fromNetwork' = FlitOf(r, r.payload)
  /\ rest' = IF r.payload = 0 THEN None ELSE FlitOf(r, r.payload - 1)
  /\ Notify(L2Logic, {"canRead"}, {})
  /\ UNCHANGED <<newRemoteRequest, channel, state, oRequest, bank, ready, waits>>

ArrivePayload ==
  /\ Between
  /\ fromNetwork = None /\ rest # None
  /\ fromNetwork' = rest
  /\ rest' = IF rest.left = 0 THEN None ELSE [rest EXCEPT !.left = @ - 1]
  /\ Notify(L2Logic, {"canRead"}, {})
  /\ UNCHANGED <<newRemoteRequest, channel, state, oRequest, bank, ready, waits>>

-----------------------------------------------------------------------------
InitL2Logic == fromNetwork = None /\ rest = None /\ newRemoteRequest = TRUE

InitChannel ==
  /\ flit = None /\ target = None
  /\ numResponses = NumBanks /\ hit = FALSE /\ consumed = TRUE

InitFilters ==
  /\ state = [b \in Bank |-> "IDLE"]
  /\ oRequest = [b \in Bank |-> None]

Init ==
  /\ InitL2Logic /\ InitChannel /\ InitFilters
  /\ bankState = [b \in Bank |-> "IDLE"]
  /\ serving = [b \in Bank |-> None]
  /\ line = [b \in Bank |-> [tag |-> None, dirty |-> FALSE]]
  /\ cursor = [b \in Bank |-> 0]
  /\ pendingFlushes = [b \in Bank |-> {}]
  /\ outputReqQueue = [b \in Bank |-> <<>>]
  /\ ready = {}
  /\ waits = [p \in Process |-> IF p = L2Logic THEN "canRead" ELSE "newRequest"]
  /\ notified = [p \in Process |-> {}]

\* SystemC runs the methods that are due, then goes to the next delta cycle.
Kernel == DeltaCycle \/ forwardRequests \/ \E b \in Bank : Filter(b)

Next ==
  \/ Kernel
  \/ \E b \in Bank : mainLoop(b) \/ LocalMiss(b) \/ SendRequest(b)
  \/ \E r \in Requests : ArriveHead(r)
  \/ ArrivePayload

Spec == Init /\ [][Next]_vars

(* The kernel runs every method that is due, the banks go on with what     *)
(* they have, flits leave, and a packet that has begun arrives.  Nothing   *)
(* is asked of the cores of this tile.                                     *)
Fairness ==
  /\ WF_vars(Kernel) /\ WF_vars(ArrivePayload)
  /\ \A b \in Bank : WF_vars(mainLoop(b)) /\ WF_vars(SendRequest(b))

FairSpec == Spec /\ Fairness

-----------------------------------------------------------------------------
(* What the banks, filters and broadcast channel achieve together.        *)

ReqFlit == [kind : {"FETCH_LINE", "STORE_LINE", "WORD", "FORWARD"},
            tag : Tag \cup {LocalTag, None}]
Event == {"newRequest", "newFlit", "allResponses", "canWrite", "canRead", "ack",
          "requestSent", "now"}

\* Every variable has its type, and no bank writes to a full queue.
TypeOK ==
  /\ {fromNetwork, rest, flit} \subseteq Flit \cup {None}
  /\ newRemoteRequest \in BOOLEAN /\ hit \in BOOLEAN /\ consumed \in BOOLEAN
  /\ target \in Bank \cup {None}
  /\ numResponses \in 0 .. NumBanks
  /\ state \in [Bank -> {"IDLE", "WAIT", "SEND"}]
  /\ oRequest \in [Bank -> Flit \cup {None}]
  /\ bankState \in [Bank -> {"IDLE", "REQUEST", "ALLOCATE", "FLUSH", "MISS", "FORWARD"}]
  /\ serving \in [Bank -> Flit \cup {None}]
  /\ line \in [Bank -> [tag : Tag \cup {LocalTag, None}, dirty : BOOLEAN]]
  /\ cursor \in [Bank -> 0 .. WordsPerLine]
  /\ pendingFlushes \in [Bank -> SUBSET Tag]
  /\ outputReqQueue \in [Bank -> Seq(ReqFlit)]
  /\ \A b \in Bank : Len(outputReqQueue[b]) <= requestQueueSize
  /\ ready \subseteq Process
  /\ waits \in [Process -> Event]
  /\ notified \in [Process -> SUBSET Event]

(***************************************************************************)
(* The assertions of the channel and of the filters hold whenever a filter *)
(* runs: there is an answer to give and only one bank has hit ("Two cache  *)
(* hits for same request"), a flit is read once ("Two reads of same flit"),*)
(* what an idle filter or an idle bank looks at is no payload, and L2Logic *)
(* never reads where no flit is.                                           *)
(***************************************************************************)
OneHit ==
  \A b \in ready \cap Bank :
    state[b] = "IDLE" /\ ~flushing(b, flit.tag) /\ serveRequest(b) => ~hit

AssertionsHold ==
  /\ TypeOK /\ OneHit
  /\ \A b \in ready \cap Bank :
       /\ state[b] = "IDLE" => flit.head /\ ~allResponsesReceived
       /\ state[b] = "WAIT" => allResponsesReceived
       /\ state[b] = "SEND" /\ oRequest[b] = None => ~consumed
  /\ L2Logic \in ready /\ canWrite => fromNetwork # None
  /\ \A b \in Bank : bankState[b] = "IDLE" /\ oRequest[b] # None => oRequest[b].head

(* The banks are one associative cache: a line is in one of them at most,  *)
(* so that nobody reads a copy that misses the last write.                 *)
OneCopy ==
  \A t \in Tag : Cardinality({b \in Bank : contains(b, t)}) <= 1

Queued(b, kind, t) ==
  \E i \in DOMAIN outputReqQueue[b] :
    outputReqQueue[b][i].kind = kind /\ outputReqQueue[b][i].tag = t

(* While a bank has promised to flush a line no other bank asks the next   *)
(* level for it ("wait until the flush completes before allowing any bank  *)
(* to fetch it"): nothing orders the requests of two banks, and the fetch  *)
(* would find the old data.                                                *)
PendingFlushesFirst ==
  \A b, c \in Bank, t \in Tag :
    b # c /\ t \in pendingFlushes[b] => ~Queued(c, "FETCH_LINE", t)

(* The same for a flush that is still in the bank's queue.  The promises   *)
(* are a set of tags: with two flushes of one line in the queue the first  *)
(* to leave takes the promise off, and another bank may fetch the line     *)
(* before the second.  A bank with one other line to evict it in favour of *)
(* gets there.                                                             *)
FetchesFollowFlushes ==
  \A b, c \in Bank, t \in Tag :
    b # c /\ Queued(b, "STORE_LINE", t) => ~Queued(c, "FETCH_LINE", t)

\* The flit on offer, the bank that takes its packet, and the banks' tags.
offered == IF consumed THEN None ELSE flit
sender == IF \E b \in Bank : state[b] = "SEND"
          THEN CHOOSE b \in Bank : state[b] = "SEND" ELSE None
tags == [b \in Bank |-> line[b].tag]
Dispatch == INSTANCE RequestDispatch WITH flit <- offered, owner <- sender, holds <- tags

(* Although the banks answer at different times, and change their lines in *)
(* between, each packet goes to the one bank entitled to it.               *)
ImplementsDispatch == Dispatch!DispatchSpec

(* Every flit that arrives is broadcast, and taken by a bank: the flits    *)
(* come one after another, so either there is none left again and again or *)
(* banks keep taking them.  This needs each bank that the cores use to go  *)
(* on writing requests of its own, because of the next property, and to    *)
(* start a remote request now and then, because peekRequest() prefers      *)
(* those of the cores.                                                     *)
Idle == fromNetwork = None /\ consumed
Taken == ~consumed /\ consumed'
Writes(b) == Len(outputReqQueue'[b]) > Len(outputReqQueue[b])

EveryFlitDispatched ==
  (\A b \in L1Bank : []<><<Writes(b)>>_vars /\ SF_vars(StartRequest(b)))
    => []<>Idle \/ []<><<Taken>>_vars

(* A filter that waits for its bank to flush a line goes on when the flush *)
(* has left: "Event triggered every time a request flit is sent."  In the  *)
(* code it is triggered by a later write, and there may be none.           *)
DelayedRequestsResume ==
  \A b \in Bank : state[b] = "IDLE" /\ waits[b] = "requestSent" ~> waits[b] # "requestSent"
=============================================================================
