----------------------------- MODULE MainMemory -----------------------------
(***************************************************************************)
(* Main memory and its request handlers, one for each memory controller    *)
(* (OffChip/MainMemory, OffChip/MainMemoryRequestHandler).  A handler       *)
(* takes one request at a time from its input queue and moves one word of  *)
(* its line in each clock cycle; all handlers work on the same memory.     *)
(*                                                                         *)
(* The handlers' methods run on the edges of one clock: Negedge is one      *)
(* falling edge, on which every handler that can move a word does.         *)
(***************************************************************************)
EXTENDS Integers, Sequences, FiniteSetsExt

CONSTANTS Controllers,  \* one handler each; numbers, in the order of construction
          LineWords,    \* words of a cache line
          Lines,        \* lines of main memory
          InputSize,    \* flits of an input queue
          NoValue       \* what memory holds at the start

VARIABLES inputQueue,      \* [Controllers -> Seq(flit)]
          activeRequest,   \* [Controllers -> request in progress or Idle]
          outputQueue,     \* [Controllers -> Seq(response)]
          mData,           \* [word address -> value]
          cacheLineValid   \* [line -> tiles with an up-to-date copy]

Idle == [op |-> "NONE"]

Line(address) == address \div LineWords

HandlersInit ==
  /\ inputQueue = [c \in Controllers |-> <<>>]
  /\ activeRequest = [c \in Controllers |-> Idle]
  /\ outputQueue = [c \in Controllers |-> <<>>]

MemoryInit ==
  /\ HandlersInit
  /\ mData = [a \in 0 .. Lines * LineWords - 1 |-> NoValue]
  /\ cacheLineValid = [l \in 0 .. Lines - 1 |-> {}]

\* Main memory serves whole lines only.
Supported == {"FETCH_LINE", "STORE_LINE"}

\* The tile that reads a line has an up-to-date copy of it, the tile that
\* writes has the only one (checkSafeRead, checkSafeWrite).
Holders(flit) ==
  IF flit.op = "FETCH_LINE" THEN cacheLineValid[Line(flit.addr)] \cup {flit.tile}
  ELSE {flit.tile}

\* A head flit is decoded; the line is aligned.
Starts(c, flit) ==
  /\ activeRequest[c] = Idle
  /\ flit.op \in Supported
  /\ activeRequest' = [activeRequest EXCEPT ![c] =
       [op |-> flit.op, line |-> Line(flit.addr), bank |-> flit.bank, done |-> 0, head |-> flit]]
  /\ cacheLineValid' = [cacheLineValid EXCEPT ![Line(flit.addr)] = Holders(flit)]
  /\ UNCHANGED <<outputQueue, mData>>

\* Faulty variant: a fetch is taken from behind the stores that came before.
FetchFirst(c) == \E i \in DOMAIN inputQueue[c] :
  /\ inputQueue[c][i].op = "FETCH_LINE"
  /\ Starts(c, inputQueue[c][i])
  /\ inputQueue' = [inputQueue EXCEPT ![c] = SubSeq(@, 1, i - 1) \o SubSeq(@, i + 1, Len(@))]

processIdle(c) ==
  /\ inputQueue[c] # <<>>
  /\ Starts(c, Head(inputQueue[c]))
  /\ inputQueue' = [inputQueue EXCEPT ![c] = Tail(@)]

payloadAvailable(c) == inputQueue[c] # <<>> /\ Head(inputQueue[c]).op = "PAYLOAD"


\* The handlers that move a word on this edge: a store waits for its payload.
Moves(op) == {c \in Controllers :
  /\ activeRequest[c].op = op
  /\ op = "STORE_LINE" => payloadAvailable(c)}

WordAddress(c) == activeRequest[c].line * LineWords + activeRequest[c].done

\* The handlers run in the order of their construction, so that one which
\* reads a word sees what an earlier one has written on the same edge.
WrittenBefore(address, limit) ==
  {c \in Moves("STORE_LINE") : c < limit /\ WordAddress(c) = address}

WordAt(address, limit) ==
  IF WrittenBefore(address, limit) = {} THEN mData[address]
  ELSE Head(inputQueue[Max(WrittenBefore(address, limit))]).data

\* Faulty variant: the end of the line is counted one word late.
EndsLate(c) == [bank |-> activeRequest[c].bank,
                data |-> WordAt(WordAddress(c), c),
                from |-> c,
                eop  |-> activeRequest[c].done = LineWords]

Response(c) == [bank |-> activeRequest[c].bank,
                data |-> WordAt(WordAddress(c), c),
                from |-> c,
                eop  |-> activeRequest[c].done + 1 = LineWords]

Iterated(request) ==
  IF request.done + 1 = LineWords THEN Idle ELSE [request EXCEPT !.done = @ + 1]

\* processRequest of every handler, on a falling edge.
Negedge ==
  LET stores  == Moves("STORE_LINE")
      fetches == Moves("FETCH_LINE")
      limit   == Max(Controllers) + 1
  IN  /\ stores \cup fetches # {}
      /\ mData' = [a \in DOMAIN mData |-> WordAt(a, limit)]
      /\ inputQueue' = [c \in Controllers |->
           IF c \in stores THEN Tail(inputQueue[c]) ELSE inputQueue[c]]
      /\ outputQueue' = [c \in Controllers |->
           IF c \in fetches THEN Append(outputQueue[c], Response(c)) ELSE outputQueue[c]]
      /\ activeRequest' = [c \in Controllers |->
           IF c \in stores \cup fetches THEN Iterated(activeRequest[c]) ELSE activeRequest[c]]
      /\ UNCHANGED cacheLineValid
=============================================================================
