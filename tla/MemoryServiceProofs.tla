------------------------ MODULE MemoryServiceProofs ------------------------
(***************************************************************************)
(* The proof that the bank implements MemoryService, for any number of     *)
(* lines, words, channels and requests and any data.  On top of what       *)
(* MemoryBankProofs says of requests and queues, RInv says what data they  *)
(* carry, and each action is shown to keep it and to be a step of the      *)
(* service, or none that a requester can tell.                             *)
(***************************************************************************)
EXTENDS MemoryBankRefinement, MemoryBankProofs, NaturalsInduction, WellFoundedInduction

-----------------------------------------------------------------------------
(* What the data in the queues and the cache must be.                      *)

\* An input: the payload flits carry the data that their head announced.
ValueSteps == {s \in Seq(Val) \X InFlit \X Seq(Val) :
    IF s[2].head
    THEN s[1] = <<>> /\ s[3] = s[2].req.data /\ Len(s[3]) = payloadFlits(s[2].req.op)
    ELSE s[1] # <<>> /\ s[2].val = Head(s[1]) /\ s[3] = Tail(s[1])}

\* The queue to the next level: whose words follow a STORE_LINE, and which.
LineSteps == {s \in (Tag \X Nat) \X OutFlit \X (Tag \X Nat) :
    CASE s[2].kind = "STORE_LINE" -> s[1][2] = 0 /\ s[3] = <<s[2].tag, WordsPerLine>>
      [] s[2].kind = "WORD"       -> /\ s[1][1] = s[2].tag /\ s[3][1] = s[2].tag
                                     /\ s[1][2] = s[3][2] + 1
                                     /\ s[2].off = WordsPerLine - s[1][2]
      [] OTHER                    -> s[1][2] = 0 /\ s[3] = s[1]}

\* The words are those that r has not taken.
IsLeft(values, r) ==
    /\ Len(values) = Remaining(r)
    /\ \A k \in 1 .. Len(values) : values[k] = r.data[payloadFlits(r.op) - Len(values) + k]

DueValues(side, values) ==
    /\ CopyOwns(side) => IsLeft(values, missRequest)
    /\ HitOwns(side) /\ state # "FORWARD" => IsLeft(values, hitRequest)

\* An input carries the payload that its requests announced.
PayloadOK(side) ==
    \E values \in Seq(Val) :
        StreamOf(Seq(Val), ValueSteps, Queue(side), values, sending[side]) /\ DueValues(side, values)

Buffered == IF readingFromMissBuffer THEN hitRequest ELSE missRequest
BufferedOK ==
    /\ missBuffer # <<>> => missBuffer[1].val = Buffered.data[1]
    /\ readingFromMissBuffer => ~claimsLine(hitRequest)

StoredOK ==
    \E a, b \in Tag \X Nat :
        /\ StreamOf(Tag \X Nat, LineSteps, outputReqQueue, a, b)
        /\ IF storing = None THEN a[2] = 0 ELSE a = <<storing.tag, WordsPerLine - storing.off>>
        /\ IF state = "FLUSH" THEN b = <<flushAddress.tag, WordsPerLine - cacheLineCursor>> ELSE b[2] = 0

\* A request, and the words it came with.
Announced(r) == Len(r.data) = payloadFlits(r.op) /\ (r.fresh => claimsLine(r) /\ ~needsForwarding(r))

RequestsOK ==
    /\ hitRequest # None =>
        /\ Announced(hitRequest)
        /\ hitRequest.op \notin {"PREFETCH_LINE", "FLUSH_LINE", "FLUSH_ALL_LINES"} =>
              ~hitRequest.eop /\ hitRequest.done < totalIterations(hitRequest)
        /\ hitRequest.op = "MEMSET_LINE" => hitRequest.saved \in {None, hitRequest.data[1]}
        /\ hitRequest.op = "STORE_CONDITIONAL" => hitRequest.saved \in {None, 0} \/ inCache(hitRequest)
    /\ missRequest # None => Announced(missRequest)
    /\ missRequest # None /\ hitRequest # None /\ ~Parked => hitRequest.dest # missRequest.dest

TagsOK == \A l \in Line : metadata[l].valid => LineOf[metadata[l].tag] = l

\* The line that is asked for.
Fetching == IF missRequest # None THEN ~needsForwarding(missRequest) ELSE state = "ALLOCATE"
FetchTag == IF missRequest # None THEN missRequest.tag ELSE hitRequest.tag

IsWord(flit, t) == flit.kind = "WORD" /\ flit.tag = t
Refilled == IF state = "REFILL" THEN cacheLineCursor ELSE 0

FetchOK ==
    /\ \A k \in 1 .. Len(outputReqQueue) : outputReqQueue[k].kind = "FETCH_LINE" =>
          /\ Fetching /\ outputReqQueue[k].tag = FetchTag
          /\ \A j \in k .. Len(outputReqQueue) : ~IsWord(outputReqQueue[j], FetchTag)
    /\ Fetching =>
          /\ state = "FLUSH" => flushAddress.tag # FetchTag
          /\ \/ \E k \in 1 .. Len(outputReqQueue) : outputReqQueue[k].kind = "FETCH_LINE"
             \/ /\ Silent(outputReqQueue)
                /\ \A k \in 1 .. Len(outputReqQueue) : ~IsWord(outputReqQueue[k], FetchTag)
                /\ \A k \in 1 .. Len(inResponseQueue) :
                      inResponseQueue[k] = nextLevel[FetchTag][Refilled + k - 1]
                /\ \A k \in 1 .. Len(returning) :
                      returning[k] = nextLevel[FetchTag][Refilled + Len(inResponseQueue) + k - 1]
          /\ state = "REFILL" =>
                \A o \in 0 .. cacheLineCursor - 1 : data[LineOf[FetchTag]][o] = nextLevel[FetchTag][o]

\* What has not been written since it was read, is as it is below.
CleanOK ==
    \A t \in Tag, o \in Off :
        contains(t) /\ ~metadata[LineOf[t]].dirty /\ Filled(t, o) => data[LineOf[t]][o] = BelowWord(t, o)

\* All that the answers of the bank rest on, beyond BInv.
RInv ==
    /\ \A side \in Sides : PayloadOK(side)
    /\ BufferedOK /\ StoredOK /\ RequestsOK /\ TagsOK /\ FetchOK /\ CleanOK

-----------------------------------------------------------------------------
(* What a queue of flits asks for.                                         *)

(* A set of numbers has a least one.                                       *)
LEMMA Least ==
    ASSUME NEW S \in SUBSET Nat, S # {}
    PROVE  \E n \in S : \A m \in S : n <= m
<1> DEFINE less == {p \in Nat \X Nat : p[1] < p[2]}
<1>1. IsWellFoundedOn(less, Nat)
  BY NatLessThanWellFounded, Zenon DEF OpToRel
<1>2. \A n, m \in Nat : m < n => <<m, n>> \in less
  OBVIOUS
<1> HIDE DEF less
<1>3. PICK n \in S : \A m \in S : <<m, n>> \notin less
  BY <1>1, WFMin
<1>4. ASSUME NEW m \in S PROVE n <= m
  <2>1. n \in Nat /\ m \in Nat /\ ~ (m < n)
    BY <1>2, <1>3
  <2>. QED BY <2>1
<1>. QED BY <1>4

(* A flit in front of a stream.                                            *)
LEMMA StreamOfFirst ==
    ASSUME NEW T, NEW R, NEW S, NEW q \in Seq(S), q # <<>>, NEW n \in T, NEW l, NEW m,
           <<n, q[1], l>> \in R, StreamOf(T, R, Tail(q), l, m)
    PROVE  StreamOf(T, R, q, n, m)
<1>1. /\ Len(q) \in Nat \ {0} /\ Len(Tail(q)) = Len(q) - 1
      /\ \A k \in 1 .. Len(q) - 1 : Tail(q)[k] = q[k + 1]
  BY Taken
<1>2. PICK rest \in [0 .. Len(q) - 1 -> T] :
        /\ rest[0] = l /\ rest[Len(q) - 1] = m
        /\ \A k \in 1 .. Len(q) - 1 : <<rest[k - 1], Tail(q)[k], rest[k]>> \in R
  BY <1>1 DEF StreamOf
<1> DEFINE at == [k \in 0 .. Len(q) |-> IF k = 0 THEN n ELSE rest[k - 1]]
<1>3. /\ at \in [0 .. Len(q) -> T] /\ at[0] = n
      /\ \A k \in 1 .. Len(q) : at[k] = rest[k - 1]
  <2>1. \A k \in 1 .. Len(q) : k - 1 \in 0 .. Len(q) - 1
    BY <1>1
  <2>. QED BY <1>1, <2>1
<1> HIDE DEF at
<1>4. at[Len(q)] = m
  BY <1>1, <1>2, <1>3
<1>5. ASSUME NEW k \in 1 .. Len(q) PROVE <<at[k - 1], q[k], at[k]>> \in R
  <2>1. CASE k = 1
    BY <1>1, <1>2, <1>3, <2>1
  <2>2. CASE k # 1
    <3>1. k - 1 \in 1 .. Len(q) - 1 /\ k - 1 \in 1 .. Len(q) /\ (k - 1) + 1 = k
      BY <1>1, <2>2
    <3>2. at[k - 1] = rest[(k - 1) - 1] /\ at[k] = rest[k - 1] /\ q[k] = Tail(q)[k - 1]
      BY <1>1, <1>3, <3>1
    <3>. QED BY <1>2, <3>1, <3>2
  <2>. QED BY <2>1, <2>2
<1>. QED BY <1>3, <1>4, <1>5 DEF StreamOf

\* What a flit adds to the requests of channel d.
Adds(d, f) == f.head /\ f.req.dest = d
Collected(s, d, f) == IF Adds(d, f) THEN Append(s, decodeMemoryRequest(f.req)) ELSE s
CollectSteps(d) == {s \in Seq(Operation) \X InFlit \X Seq(Operation) :
                       s[3] = Collected(s[1], d, s[2])}

(* A request that is taken in.                                             *)
LEMMA CollectStep ==
    ASSUME NEW d, NEW s \in Seq(Operation), NEW f \in InFlit
    PROVE  /\ Collected(s, d, f) \in Seq(Operation)
           /\ <<s, f, Collected(s, d, f)>> \in CollectSteps(d)
           /\ \A p \in Seq(Operation) : Collected(p \o s, d, f) = p \o Collected(s, d, f)
<1>1. f.head => decodeMemoryRequest(f.req) \in Operation
  BY InFlits DEF HeadFlit, Operation, decodeMemoryRequest
<1>2. Collected(s, d, f) \in Seq(Operation)
  BY <1>1, Appended DEF Collected, Adds
<1>3. ASSUME NEW p \in Seq(Operation), NEW e \in Operation
      PROVE  Append(p \o s, e) = p \o Append(s, e)
  OBVIOUS
<1>4. ASSUME NEW p \in Seq(Operation)
      PROVE  Collected(p \o s, d, f) = p \o Collected(s, d, f)
  BY <1>1, <1>3 DEF Collected, Adds
<1>. QED BY <1>2, <1>4 DEF CollectSteps

(* Every queue asks for something.                                         *)
LEMMA CollectExists ==
    ASSUME NEW d, NEW q \in Seq(InFlit)
    PROVE  \E s \in Seq(Operation) : StreamOf(Seq(Operation), CollectSteps(d), q, <<>>, s)
<1> DEFINE Has(t) == \E s \in Seq(Operation) : StreamOf(Seq(Operation), CollectSteps(d), t, <<>>, s)
           Bad == {n \in 0 .. Len(q) : ~Has(SubSeq(q, 1, n))}
<1>1. Len(q) \in Nat /\ SubSeq(q, 1, Len(q)) = q
  BY Empties
<1>2. SUFFICES ASSUME Bad # {} PROVE FALSE
  <2>1. Len(q) \in 0 .. Len(q) /\ Len(q) \notin Bad
    BY <1>1, <1>2
  <2>. QED BY <1>1, <2>1
<1> HIDE DEF Has
<1>3. PICK n \in Bad : \A m \in Bad : n <= m
  <2>1. Bad \in SUBSET Nat
    BY <1>1
  <2> HIDE DEF Bad
  <2>. QED BY <1>2, <2>1, Least
<1>4. n # 0
  <2>1. SubSeq(q, 1, 0) = <<>> /\ <<>> \in Seq(Operation)
    BY <1>1
  <2>2. Has(<<>>)
    BY <2>1, StreamOfEmpty DEF Has
  <2>. QED BY <2>1, <2>2
<1>5. n \in Nat /\ n <= Len(q) /\ n - 1 \in 0 .. Len(q) /\ n - 1 \notin Bad
  BY <1>1, <1>3, <1>4
<1> DEFINE t == SubSeq(q, 1, n - 1)
<1>6. Has(t)
  BY <1>5
<1>7. /\ SubSeq(q, 1, n) = Append(t, q[n])
      /\ t \in Seq(InFlit) /\ q[n] \in InFlit
  BY <1>1, <1>4, <1>5
<1> HIDE DEF t
<1>8. Has(Append(t, q[n]))
  <2>1. PICK s \in Seq(Operation) : StreamOf(Seq(Operation), CollectSteps(d), t, <<>>, s)
    BY <1>6 DEF Has
  <2>2. StreamOf(Seq(Operation), CollectSteps(d), Append(t, q[n]), <<>>, Collected(s, d, q[n]))
        /\ Collected(s, d, q[n]) \in Seq(Operation)
    BY <1>7, <2>1, CollectStep, StreamOfMore
  <2>. QED BY <2>2 DEF Has
<1>. QED BY <1>3, <1>7, <1>8

(* ... and that is what InQueue says.                                      *)
LEMMA InQueueIs ==
    ASSUME NEW d, NEW q \in Seq(InFlit), NEW s,
           StreamOf(Seq(Operation), CollectSteps(d), q, <<>>, s)
    PROVE  InQueue(q, d) = s
<1>0. Len(q) \in Nat
  BY Empties
<1>1. PICK at \in [0 .. Len(q) -> Seq(Operation)] :
        /\ at[0] = <<>> /\ at[Len(q)] = s
        /\ \A k \in 1 .. Len(q) : <<at[k - 1], q[k], at[k]>> \in CollectSteps(d)
  BY DEF StreamOf
<1>2. \A k \in 1 .. Len(q) : at[k] = Collected(at[k - 1], d, q[k])
  BY <1>1 DEF CollectSteps
<1> DEFINE B(G) == [k \in 0 .. Len(q) |-> IF k = 0 THEN <<>> ELSE Collected(G[k - 1], d, q[k])]
           C == CHOOSE G : G = B(G)
<1>3. at = B(at)
  <2>1. ASSUME NEW k \in 0 .. Len(q) PROVE at[k] = B(at)[k]
    <3>1. CASE k = 0
      BY <1>1, <3>1
    <3>2. CASE k # 0
      <4>1. k \in 1 .. Len(q)
        BY <3>2
      <4>. QED BY <1>2, <3>2, <4>1
    <3>. QED BY <3>1, <3>2
  <2>2. B(at) = [k \in 0 .. Len(q) |-> B(at)[k]]
    OBVIOUS
  <2> HIDE DEF B
  <2>. QED BY <1>1, <2>1, <2>2
<1>4. InQueue(q, d) = C[Len(q)]
  BY DEF InQueue, Collected, Adds
<1>5. C = B(C)
  BY <1>3
<1> HIDE DEF C
<1>6. C[0] = <<>> /\ \A k \in 1 .. Len(q) : C[k] = Collected(C[k - 1], d, q[k])
  <2>1. \A k \in 0 .. Len(q) : C[k] = B(C)[k]
    BY <1>5
  <2>2. C[0] = <<>>
    BY <1>0, <2>1
  <2>3. ASSUME NEW k \in 1 .. Len(q) PROVE C[k] = Collected(C[k - 1], d, q[k])
    <3>1. k \in 0 .. Len(q) /\ k # 0
      BY <1>0
    <3>. QED BY <2>1, <3>1
  <2>. QED BY <2>2, <2>3
<1> DEFINE Bad == {k \in 0 .. Len(q) : C[k] # at[k]}
<1>7. Bad = {}
  <2>1. SUFFICES ASSUME Bad # {} PROVE FALSE
    OBVIOUS
  <2>2. PICK k \in Bad : \A m \in Bad : k <= m
    <3>1. Bad \in SUBSET Nat
      OBVIOUS
    <3> HIDE DEF Bad
    <3>. QED BY <2>1, <3>1, Least
  <2>3. k # 0
    BY <1>1, <1>6
  <2>4. k \in 1 .. Len(q) /\ k - 1 \in 0 .. Len(q) /\ k - 1 \notin Bad
    BY <1>0, <2>2, <2>3
  <2>5. C[k - 1] = at[k - 1]
    BY <2>4
  <2>. QED BY <1>2, <1>6, <2>2, <2>4, <2>5
<1>. QED BY <1>0, <1>1, <1>4, <1>7

(* An empty queue asks for nothing.                                        *)
LEMMA InQueueEmpty ==
    ASSUME NEW d
    PROVE  InQueue(<<>>, d) = <<>>
<1>1. <<>> \in Seq(InFlit) /\ <<>> \in Seq(Operation)
  OBVIOUS
<1>. QED BY <1>1, StreamOfEmpty, InQueueIs

(* A flit at the end adds its request at the end.                          *)
LEMMA InQueueAppend ==
    ASSUME NEW d, NEW q \in Seq(InFlit), NEW f \in InFlit
    PROVE  /\ InQueue(q, d) \in Seq(Operation)
           /\ InQueue(Append(q, f), d) = Collected(InQueue(q, d), d, f)
<1>1. PICK s \in Seq(Operation) : StreamOf(Seq(Operation), CollectSteps(d), q, <<>>, s)
  BY CollectExists
<1>2. InQueue(q, d) = s
  BY <1>1, InQueueIs
<1>3. StreamOf(Seq(Operation), CollectSteps(d), Append(q, f), <<>>, Collected(s, d, f))
  BY <1>1, CollectStep, StreamOfMore
<1>4. Append(q, f) \in Seq(InFlit)
  BY Appended
<1>. QED BY <1>2, <1>3, <1>4, InQueueIs

(* What is asked for may follow what has been asked for.                   *)
LEMMA CollectBehind ==
    ASSUME NEW d, NEW q \in Seq(InFlit), NEW n, NEW m, NEW p \in Seq(Operation),
           StreamOf(Seq(Operation), CollectSteps(d), q, n, m)
    PROVE  StreamOf(Seq(Operation), CollectSteps(d), q, p \o n, p \o m)
<1>0. Len(q) \in Nat
  BY Empties
<1>1. PICK at \in [0 .. Len(q) -> Seq(Operation)] :
        /\ at[0] = n /\ at[Len(q)] = m
        /\ \A k \in 1 .. Len(q) : <<at[k - 1], q[k], at[k]>> \in CollectSteps(d)
  BY DEF StreamOf
<1> DEFINE more == [k \in 0 .. Len(q) |-> p \o at[k]]
<1>2. /\ more \in [0 .. Len(q) -> Seq(Operation)] /\ \A k \in 0 .. Len(q) : more[k] = p \o at[k]
  OBVIOUS
<1> HIDE DEF more
<1>3. more[0] = p \o n /\ more[Len(q)] = p \o m
  <2>1. 0 \in 0 .. Len(q) /\ Len(q) \in 0 .. Len(q)
    BY <1>0
  <2>2. more[0] = p \o at[0] /\ more[Len(q)] = p \o at[Len(q)]
    BY <1>2, <2>1, Zenon
  <2>. QED BY <1>1, <2>2, Zenon
<1>4. ASSUME NEW k \in 1 .. Len(q) PROVE <<more[k - 1], q[k], more[k]>> \in CollectSteps(d)
  <2>1. k - 1 \in 0 .. Len(q) /\ k \in 0 .. Len(q)
    BY <1>0
  <2>2. at[k] = Collected(at[k - 1], d, q[k]) /\ q[k] \in InFlit /\ at[k - 1] \in Seq(Operation)
    BY <1>1, <2>1 DEF CollectSteps
  <2>3. more[k] = Collected(more[k - 1], d, q[k]) /\ more[k - 1] \in Seq(Operation)
    <3>1. more[k - 1] = p \o at[k - 1] /\ more[k] = p \o at[k]
      BY <1>2, <2>1, Zenon
    <3>2. Collected(p \o at[k - 1], d, q[k]) = p \o Collected(at[k - 1], d, q[k])
      BY <2>2, CollectStep
    <3>3. p \o at[k - 1] \in Seq(Operation)
      BY <2>2
    <3>. QED BY <2>2, <3>1, <3>2, <3>3, Zenon
  <2>. QED BY <2>2, <2>3, CollectStep
<1>. QED BY <1>2, <1>3, <1>4 DEF StreamOf

(* The flit in front asks for its request first.                           *)
LEMMA InQueueTail ==
    ASSUME NEW d, NEW q \in Seq(InFlit), q # <<>>
    PROVE  /\ InQueue(Tail(q), d) \in Seq(Operation)
           /\ InQueue(q, d) = (IF Adds(d, q[1]) THEN <<decodeMemoryRequest(q[1].req)>> ELSE <<>>)
                                 \o InQueue(Tail(q), d)
<1>1. Tail(q) \in Seq(InFlit) /\ q[1] \in InFlit /\ <<>> \in Seq(Operation)
  BY Taken
<1>2. PICK s \in Seq(Operation) : StreamOf(Seq(Operation), CollectSteps(d), Tail(q), <<>>, s)
  BY <1>1, CollectExists
<1>3. InQueue(Tail(q), d) = s
  BY <1>1, <1>2, InQueueIs
<1> DEFINE l == Collected(<<>>, d, q[1])
<1>4. l \in Seq(Operation) /\ <<<<>>, q[1], l>> \in CollectSteps(d)
  BY <1>1, CollectStep
<1>5. l = IF Adds(d, q[1]) THEN <<decodeMemoryRequest(q[1].req)>> ELSE <<>>
  BY DEF Collected
<1> HIDE DEF l
<1>6. StreamOf(Seq(Operation), CollectSteps(d), Tail(q), l, l \o s)
  <2>1. l \o <<>> = l
    BY <1>4
  <2>. QED BY <1>1, <1>2, <1>4, <2>1, CollectBehind
<1>7. StreamOf(Seq(Operation), CollectSteps(d), q, <<>>, l \o s)
  BY <1>1, <1>4, <1>6, StreamOfFirst
<1>. QED BY <1>3, <1>5, <1>7, InQueueIs

(* A queue without such requests.                                          *)
LEMMA InQueueNone ==
    ASSUME NEW d, NEW q \in Seq(InFlit), \A k \in 1 .. Len(q) : ~Adds(d, q[k])
    PROVE  InQueue(q, d) = <<>>
<1> DEFINE at == [k \in 0 .. Len(q) |-> <<>>]
<1>1. at \in [0 .. Len(q) -> Seq(Operation)] /\ Len(q) \in Nat
      /\ at[0] = <<>> /\ at[Len(q)] = <<>>
  BY Empties
<1>2. ASSUME NEW k \in 1 .. Len(q) PROVE <<at[k - 1], q[k], at[k]>> \in CollectSteps(d)
  <2>1. at[k - 1] = <<>> /\ at[k] = <<>> /\ q[k] \in InFlit
    BY <1>1, Empties
  <2>2. Collected(<<>>, d, q[k]) = <<>> /\ <<>> \in Seq(Operation)
    BY DEF Collected
  <2> HIDE DEF at
  <2>. QED BY <2>1, <2>2, CollectStep
<1> HIDE DEF at
<1>3. StreamOf(Seq(Operation), CollectSteps(d), q, <<>>, <<>>)
  BY <1>1, <1>2 DEF StreamOf
<1>. QED BY <1>3, InQueueIs

-----------------------------------------------------------------------------
(* Payloads.                                                               *)

(* An input that is left as it is.                                         *)
LEMMA PayloadKept ==
    ASSUME NEW side, PayloadOK(side), Queue(side)' = Queue(side),
           sending'[side] = sending[side],
           \A values \in Seq(Val) : DueValues(side, values) => DueValues(side, values)'
    PROVE  PayloadOK(side)'
BY DEF PayloadOK

(* An input from which a flit is taken.                                    *)
LEMMA PayloadLess ==
    ASSUME NEW side, PayloadOK(side), Queue(side) \in Seq(InFlit), Queue(side) # <<>>,
           Queue(side)' = Tail(Queue(side)), sending'[side] = sending[side],
           \A values, l \in Seq(Val) :
              DueValues(side, values) /\ <<values, Queue(side)[1], l>> \in ValueSteps
                 => DueValues(side, l)'
    PROVE  PayloadOK(side)'
<1>1. PICK values \in Seq(Val) :
        /\ StreamOf(Seq(Val), ValueSteps, Queue(side), values, sending[side])
        /\ DueValues(side, values)
  BY DEF PayloadOK
<1>2. PICK l \in Seq(Val) :
        /\ <<values, Queue(side)[1], l>> \in ValueSteps
        /\ StreamOf(Seq(Val), ValueSteps, Tail(Queue(side)), l, sending[side])
  BY <1>1, StreamOfTail
<1>3. DueValues(side, l)'
  BY <1>1, <1>2
<1>. QED BY <1>2, <1>3 DEF PayloadOK

(* Whose payload is due does not change with the requesters.               *)
LEMMA DueFrame ==
    ASSUME NEW side, NEW values, UNCHANGED <<control, buffer>>, DueValues(side, values)
    PROVE  DueValues(side, values)'
<1>1. state' = state /\ hitRequest' = hitRequest /\ missRequest' = missRequest
  BY DEF control
<1>. QED BY <1>1, OwnersFrame DEF DueValues

(* An input that a requester adds a flit to.                               *)
LEMMA PayloadMore ==
    ASSUME NEW side, PayloadOK(side), Queue(side) \in Seq(InFlit), UNCHANGED <<control, buffer>>,
           NEW f \in InFlit, Queue(side)' = Append(Queue(side), f), sending'[side] \in Seq(Val),
           <<sending[side], f, sending'[side]>> \in ValueSteps
    PROVE  PayloadOK(side)'
<1>1. PICK values \in Seq(Val) :
        /\ StreamOf(Seq(Val), ValueSteps, Queue(side), values, sending[side])
        /\ DueValues(side, values)
  BY DEF PayloadOK
<1>2. StreamOf(Seq(Val), ValueSteps, Append(Queue(side), f), values, sending'[side])
  BY <1>1, StreamOfMore
<1>3. DueValues(side, values)'
  BY <1>1, DueFrame
<1>. QED BY <1>2, <1>3 DEF PayloadOK

(* An input that is not concerned.                                         *)
LEMMA PayloadFrame ==
    ASSUME NEW side, PayloadOK(side), UNCHANGED <<control, buffer>>,
           Queue(side)' = Queue(side), sending'[side] = sending[side]
    PROVE  PayloadOK(side)'
BY PayloadKept, DueFrame

(* What a flit brings.                                                     *)
LEMMA ValueStep ==
    ASSUME NEW n, NEW f, NEW l, <<n, f, l>> \in ValueSteps
    PROVE  /\ n \in Seq(Val) /\ f \in InFlit /\ l \in Seq(Val)
           /\ f.head => l = f.req.data /\ Len(l) = payloadFlits(f.req.op)
           /\ ~f.head => n # <<>> /\ f.val = Head(n) /\ l = Tail(n)
BY DEF ValueSteps

(* A request as it starts has everything before it.                        *)
LEMMA AllLeft ==
    ASSUME NEW r, RequestOK(r), Untouched(r), Len(r.data) = payloadFlits(r.op)
    PROVE  IsLeft(r.data, r)
<1>1. Remaining(r) = payloadFlits(r.op) /\ r \in Operation
  BY Untaken DEF RequestOK
<1>2. payloadFlits(r.op) \in Nat
  BY <1>1, Totals
<1>. QED BY <1>1, <1>2 DEF IsLeft

(* The next word of a request, and those that are left after it.            *)
LEMMA NextLeft ==
    ASSUME NEW r \in Operation, NEW p, NEW values \in Seq(Val), values # <<>>, IsLeft(values, r),
           Remaining(p) = Remaining(r) - 1, p.op = r.op, p.data = r.data
    PROVE  /\ Head(values) = r.data[payloadFlits(r.op) - Remaining(r) + 1]
           /\ IsLeft(Tail(values), p)
<1>1. /\ Tail(values) \in Seq(Val) /\ Head(values) = values[1]
      /\ Len(values) \in Nat \ {0} /\ Len(Tail(values)) = Len(values) - 1
      /\ \A k \in 1 .. Len(values) - 1 : Tail(values)[k] = values[k + 1]
  BY Taken
<1>2. Len(values) = Remaining(r) /\ payloadFlits(r.op) \in Nat
  BY Totals DEF IsLeft
<1>3. Head(values) = r.data[payloadFlits(r.op) - Remaining(r) + 1]
  BY <1>1, <1>2 DEF IsLeft
<1>4. ASSUME NEW k \in 1 .. Len(Tail(values))
      PROVE  Tail(values)[k] = p.data[payloadFlits(p.op) - Len(Tail(values)) + k]
  <2>1. k \in 1 .. Len(values) - 1 /\ k + 1 \in 1 .. Len(values)
    BY <1>1
  <2>2. values[k + 1] = r.data[payloadFlits(r.op) - Len(values) + (k + 1)]
    BY <2>1 DEF IsLeft
  <2>3. payloadFlits(p.op) - Len(Tail(values)) + k = payloadFlits(r.op) - Len(values) + (k + 1)
    BY <1>1, <1>2, <2>1
  <2>. QED BY <1>1, <2>1, <2>2, <2>3
<1>. QED BY <1>1, <1>2, <1>3, <1>4 DEF IsLeft

(* The payload that a request takes is its next word.                       *)
LEMMA PayloadIs ==
    ASSUME BInv, RInv, state = "REQUEST", Takes(hitRequest)
    PROVE  /\ Remaining(hitRequest) \in Nat
           /\ NextPayload(hitRequest)
                 = hitRequest.data[payloadFlits(hitRequest.op) - Remaining(hitRequest) + 1]
<1>1. /\ hitRequest # None /\ RequestOK(hitRequest) /\ hitRequest \in Operation /\ ~Parked
      /\ TypeOK
  BY DEF BInv, HitOK, RequestOK, Parked
<1>2. CASE readingFromMissBuffer
  <2>1. missBuffer # <<>> /\ NextPayload(hitRequest) = missBuffer[1].val
    BY <1>2 DEF Takes, payloadAvailable, NextPayload
  <2>2. NextPayload(hitRequest) = hitRequest.data[1]
    BY <1>2, <2>1 DEF RInv, BufferedOK, Buffered
  <2>3. missBuffer \in Seq(InFlit) /\ Len(missBuffer) = Remaining(hitRequest)
    BY <1>2 DEF BInv, TypeOK, BufferOK
  <2>4. Len(missBuffer) \in Nat \ {0}
    BY <2>1, <2>3, Taken
  <2>5. hitRequest.op \notin NoPreconditions /\ ~claimsLine(hitRequest)
    BY <1>2 DEF BInv, ReadingOK, RInv, BufferedOK
  <2>6. payloadFlits(hitRequest.op) \in {0, 1}
    BY <2>5 DEF claimsLine, payloadFlits
  <2>7. Remaining(hitRequest) = 1 /\ payloadFlits(hitRequest.op) = 1
    <3>1. hitRequest.done \in Nat /\ hitRequest.op # "MEMSET_LINE"
      BY <1>1, <2>5, Fields DEF claimsLine
    <3>. QED BY <2>3, <2>4, <2>6, <3>1 DEF Remaining
  <2>. QED BY <2>1, <2>2, <2>7
<1>3. CASE ~readingFromMissBuffer
  <2>1. /\ Consume(hitRequest) /\ Input(hitRequest) # <<>> /\ ~Input(hitRequest)[1].head
        /\ NextPayload(hitRequest) = Input(hitRequest)[1].val
    BY <1>3 DEF Takes, payloadAvailable, getPayload, NextPayload, PayloadWaiting
  <2> DEFINE side == SideOf(hitRequest)
  <2>2. side \in Sides /\ Input(hitRequest) = Queue(side) /\ HitOwns(side)
        /\ Queue(side) \in Seq(InFlit)
    BY <1>1, <1>3, <2>1, Consumed DEF HitOwns
  <2> HIDE DEF side
  <2>3. PICK values \in Seq(Val) :
          /\ StreamOf(Seq(Val), ValueSteps, Queue(side), values, sending[side])
          /\ DueValues(side, values)
    BY <2>2 DEF RInv, PayloadOK
  <2>4. PICK l \in Seq(Val) : <<values, Queue(side)[1], l>> \in ValueSteps
    BY <2>1, <2>2, <2>3, StreamOfTail
  <2>5. values # <<>> /\ Queue(side)[1].val = Head(values)
    BY <2>1, <2>2, <2>4, ValueStep
  <2>6. IsLeft(values, hitRequest)
    BY <2>2, <2>3 DEF DueValues
  <2>7. /\ Head(values) = values[1] /\ Len(values) \in Nat \ {0}
    BY <2>5, Taken
  <2>8. Len(values) = Remaining(hitRequest) /\ payloadFlits(hitRequest.op) \in Nat
    BY <1>1, <2>6, Totals DEF IsLeft
  <2>9. values[1] = hitRequest.data[payloadFlits(hitRequest.op) - Len(values) + 1]
    BY <2>6, <2>7 DEF IsLeft
  <2>. QED BY <2>1, <2>2, <2>5, <2>7, <2>8, <2>9
<1>. QED BY <1>2, <1>3

(* The payloads while a request is served: it takes its own, in order.     *)
LEMMA PayloadServed ==
    ASSUME BInv, RInv, state = "REQUEST", NEW p, Same(p, hitRequest), p.data = hitRequest.data,
           p # None, UNCHANGED <<missRequest, copyingToMissBuffer, sending>>,
           Serves(p) \/ (Retires /\ Remaining(p) = 0),
           \/ TakesNone /\ Remaining(p) = Remaining(hitRequest)
           \/ Takes(hitRequest) /\ Remaining(p) = Remaining(hitRequest) - 1
    PROVE  BufferedOK' /\ \A side \in Sides : PayloadOK(side)'
<1>1. /\ hitRequest # None /\ RequestOK(hitRequest) /\ hitRequest \in Operation /\ ~Parked
      /\ state # "FORWARD" /\ p.op = hitRequest.op /\ TypeOK
      /\ readingFromMissBuffer => missRequest = None
  BY DEF BInv, HitOK, RequestOK, Parked, ReadingOK, Same
<1>2. \A side \in Sides : PayloadOK(side) /\ BufferedOK
  BY DEF RInv
<1>3. ASSUME NEW side \in Sides, NEW values \in Seq(Val), NEW left \in Seq(Val),
             DueValues(side, values), ~HitOwns(side) => left = values,
             HitOwns(side) /\ IsLeft(values, hitRequest) => IsLeft(left, p)
      PROVE  DueValues(side, left)'
  <2>1. CopyOwns(side)' => CopyOwns(side) /\ ~HitOwns(side) /\ missRequest' = missRequest
    BY OwnersServed DEF BInv, InputOK
  <2>2. IsLeft(left, missRequest) /\ missRequest' = missRequest => IsLeft(left, missRequest)'
    BY DEF IsLeft, Remaining
  <2>3. IsLeft(left, p) /\ hitRequest' = p => IsLeft(left, hitRequest)'
    BY DEF IsLeft, Remaining
  <2>4. HitOwns(side)' => HitOwns(side) /\ hitRequest' = p
    BY OwnersServed
  <2>. QED BY <1>1, <1>3, <2>1, <2>2, <2>3, <2>4 DEF DueValues
<1>4. Remaining(p) = Remaining(hitRequest) =>
        \A values \in Seq(Val) : IsLeft(values, hitRequest) => IsLeft(values, p)
  BY <1>1 DEF IsLeft
<1>5. readingFromMissBuffer' => ~claimsLine(hitRequest')
  <2>1. readingFromMissBuffer' => Serves(p) /\ readingFromMissBuffer
    BY DEF Serves, Retires
  <2>2. claimsLine(p) <=> claimsLine(hitRequest)
    BY SameRequest
  <2>3. Serves(p) => hitRequest' = p
    BY DEF Serves
  <2>. QED BY <1>2, <2>1, <2>2, <2>3 DEF BufferedOK, Sides
<1>6. readingFromMissBuffer => Len(missBuffer) = Remaining(hitRequest) /\ Remaining(hitRequest) \in {0, 1}
  <2>1. ASSUME readingFromMissBuffer
        PROVE  hitRequest.op \notin NoPreconditions /\ ~claimsLine(hitRequest)
               /\ Len(missBuffer) = Remaining(hitRequest)
    BY <1>2, <2>1 DEF BInv, ReadingOK, BufferOK, BufferedOK, Sides
  <2>2. hitRequest.op \notin NoPreconditions /\ ~claimsLine(hitRequest)
           => payloadFlits(hitRequest.op) \in {0, 1} /\ hitRequest.op # "MEMSET_LINE"
    BY DEF claimsLine, payloadFlits
  <2>3. /\ hitRequest.done \in Nat /\ Len(missBuffer) \in Nat
    BY <1>1, Fields, Empties DEF TypeOK
  <2>. QED BY <2>1, <2>2, <2>3 DEF Remaining
<1>7. missBuffer \in Seq(InFlit)
  BY <1>1 DEF TypeOK
<1>8. (missBuffer' = missBuffer \/ missBuffer' = <<>>)
        /\ (missBuffer' # <<>> => Serves(p) \/ ~readingFromMissBuffer)
      => BufferedOK'
  <2>1. ASSUME missBuffer' = missBuffer, missBuffer # <<>>, Serves(p) \/ ~readingFromMissBuffer
        PROVE  missBuffer'[1].val = Buffered'.data[1]
    <3>1. missBuffer[1].val = Buffered.data[1]
      BY <1>2, <2>1 DEF BufferedOK, Sides
    <3>2. CASE readingFromMissBuffer
      BY <2>1, <3>1, <3>2 DEF Serves, Buffered
    <3>3. CASE ~readingFromMissBuffer
      BY <2>1, <3>1, <3>3 DEF Serves, Retires, Buffered
    <3>. QED BY <3>2, <3>3
  <2>. QED BY <1>5, <2>1 DEF BufferedOK
<1>9. CASE TakesNone /\ Remaining(p) = Remaining(hitRequest)
  <2>1. ASSUME NEW side \in Sides PROVE PayloadOK(side)'
    <3>1. Queue(side)' = Queue(side)
      BY <1>9 DEF TakesNone, inputs, Queue
    <3>2. \A values \in Seq(Val) : DueValues(side, values) => DueValues(side, values)'
      BY <1>3, <1>4, <1>9
    <3>. QED BY <1>2, <3>1, <3>2, PayloadKept
  <2>2. missBuffer' = missBuffer
    BY <1>9 DEF TakesNone
  <2>3. missBuffer # <<>> => Serves(p) \/ ~readingFromMissBuffer
    BY <1>6, <1>7, <1>9, Empties
  <2>. QED BY <1>8, <2>1, <2>2, <2>3
<1>10. CASE Takes(hitRequest) /\ Remaining(p) = Remaining(hitRequest) - 1 /\ readingFromMissBuffer
  <2>1. UNCHANGED inputs /\ missBuffer # <<>> /\ missBuffer' = Tail(missBuffer)
    BY <1>10, PayloadTaken
  <2>2. ASSUME NEW side \in Sides PROVE PayloadOK(side)'
    <3>1. Queue(side)' = Queue(side)
      BY <2>1 DEF inputs, Queue
    <3>2. ~HitOwns(side)
      BY <1>10 DEF HitOwns
    <3>3. \A values \in Seq(Val) : DueValues(side, values) => DueValues(side, values)'
      BY <1>3, <3>2
    <3>. QED BY <1>2, <3>1, <3>3, PayloadKept
  <2>3. missBuffer' = <<>>
    BY <1>6, <1>7, <1>10, <2>1, Taken
  <2>. QED BY <1>8, <2>2, <2>3
<1>11. CASE Takes(hitRequest) /\ Remaining(p) = Remaining(hitRequest) - 1 /\ ~readingFromMissBuffer
  <2>1. /\ UNCHANGED missBuffer /\ Consume(hitRequest)
        /\ Input(hitRequest) # <<>> /\ ~Input(hitRequest)[1].head
    BY <1>11, PayloadTaken
  <2>2. /\ Input(hitRequest) = Queue(SideOf(hitRequest))
        /\ \A side \in Sides : Queue(side)' =
              IF side = SideOf(hitRequest) THEN Tail(Queue(side)) ELSE Queue(side)
    BY <1>1, <2>1, Consumed
  <2>3. ASSUME NEW side \in Sides PROVE PayloadOK(side)'
    <3>1. CASE side = SideOf(hitRequest)
      <4>1. /\ Queue(side) \in Seq(InFlit) /\ Queue(side) # <<>>
            /\ Queue(side)' = Tail(Queue(side)) /\ ~Queue(side)[1].head
        BY <1>1, <2>1, <2>2, <3>1, InputTypes
      <4>2. HitOwns(side)
        BY <1>1, <1>11, <3>1 DEF HitOwns
      <4>3. ASSUME NEW values \in Seq(Val), NEW left \in Seq(Val), DueValues(side, values),
                   <<values, Queue(side)[1], left>> \in ValueSteps
            PROVE  DueValues(side, left)'
        <5>1. values # <<>> /\ left = Tail(values) /\ IsLeft(values, hitRequest)
          BY <1>1, <4>1, <4>2, <4>3, ValueStep DEF DueValues
        <5>2. IsLeft(left, p)
          BY <1>1, <1>11, <5>1, NextLeft
        <5>. QED BY <1>3, <4>2, <4>3, <5>2
      <4>. QED BY <1>2, <4>1, <4>3, PayloadLess
    <3>2. CASE side # SideOf(hitRequest)
      <4>1. Queue(side)' = Queue(side) /\ ~HitOwns(side)
        BY <2>2, <3>2 DEF HitOwns
      <4>2. \A values \in Seq(Val) : DueValues(side, values) => DueValues(side, values)'
        BY <1>3, <4>1
      <4>. QED BY <1>2, <4>1, <4>2, PayloadKept
    <3>. QED BY <3>1, <3>2
  <2>. QED BY <1>8, <1>11, <2>1, <2>3
<1>. QED BY <1>9, <1>10, <1>11

-----------------------------------------------------------------------------
(* Words on their way to the next level.                                   *)

IsQueued(f, t, o) == f.kind = "WORD" /\ f.tag = t /\ f.off = o

\* What word o of line t will be, that is v now, when q has arrived.
PassedOn(q, t, o, v) == IF Queued(q, t, o) # {} THEN LastQueued(q, t, o) ELSE v

(* The last of some flits is the one that is chosen.                       *)
LEMMA LastIs ==
    ASSUME NEW q, NEW t, NEW o, NEW i, q \in Seq(OutFlit), i \in Queued(q, t, o),
           \A j \in Queued(q, t, o) : j <= i
    PROVE  LastQueued(q, t, o) = q[i].val
<1>1. Queued(q, t, o) \subseteq Nat
  BY Empties DEF Queued
<1>2. \A k \in Queued(q, t, o) : (\A j \in Queued(q, t, o) : j <= k) => k = i
  <2>1. ASSUME NEW k \in Queued(q, t, o), \A j \in Queued(q, t, o) : j <= k PROVE k = i
    <3>1. k \in Nat /\ i \in Nat /\ k <= i /\ i <= k
      BY <1>1, <2>1
    <3>. QED BY <3>1
  <2>. QED BY <2>1
<1>3. (CHOOSE k \in Queued(q, t, o) : \A j \in Queued(q, t, o) : j <= k) = i
  BY <1>2
<1>. QED BY <1>3 DEF LastQueued

(* There is a last one.                                                    *)
LEMMA LastExists ==
    ASSUME NEW q \in Seq(OutFlit), NEW t, NEW o, Queued(q, t, o) # {}
    PROVE  \E i \in Queued(q, t, o) : \A j \in Queued(q, t, o) : j <= i
<1>1. Len(q) \in Nat /\ Queued(q, t, o) \subseteq 1 .. Len(q)
  BY Empties DEF Queued
<1> DEFINE S == {n \in 0 .. Len(q) : Len(q) - n \in Queued(q, t, o)}
<1>2. S \in SUBSET Nat /\ S # {}
  <2>1. PICK i \in Queued(q, t, o) : TRUE
    OBVIOUS
  <2>2. Len(q) - i \in 0 .. Len(q) /\ Len(q) - (Len(q) - i) = i
    BY <1>1
  <2>. QED BY <1>1, <2>2
<1>3. PICK n \in S : \A m \in S : n <= m
  <2> HIDE DEF S
  <2>. QED BY <1>2, Least
<1>4. ASSUME NEW j \in Queued(q, t, o) PROVE j <= Len(q) - n
  <2>1. Len(q) - j \in 0 .. Len(q) /\ Len(q) - (Len(q) - j) = j /\ n \in 0 .. Len(q)
    BY <1>1, <1>3
  <2>2. n <= Len(q) - j
    BY <1>3, <2>1
  <2>. QED BY <1>1, <2>1, <2>2
<1>. QED BY <1>3, <1>4

(* A flit at the end of the queue.                                         *)
LEMMA PassedAppend ==
    ASSUME NEW q \in Seq(OutFlit), NEW f \in OutFlit, NEW t, NEW o, NEW v
    PROVE  PassedOn(Append(q, f), t, o, v)
              = IF IsQueued(f, t, o) THEN f.val ELSE PassedOn(q, t, o, v)
<1>0. Append(q, f) \in Seq(OutFlit)
  BY Appended
<1> SUFFICES ASSUME NEW p \in Seq(OutFlit), p = Append(q, f)
             PROVE  PassedOn(p, t, o, v) = IF IsQueued(f, t, o) THEN f.val ELSE PassedOn(q, t, o, v)
  BY <1>0
<1>1. /\ Len(q) \in Nat /\ Len(p) = Len(q) + 1 /\ p \in Seq(OutFlit)
      /\ p[Len(q) + 1] = f
      /\ \A k \in 1 .. Len(q) : p[k] = q[k]
      /\ DOMAIN q = 1 .. Len(q) /\ DOMAIN p = 1 .. Len(q) + 1
  BY Appended
<1>2. CASE IsQueued(f, t, o)
  <2>1. Len(q) + 1 \in Queued(p, t, o)
    BY <1>1, <1>2 DEF Queued, IsQueued
  <2>2. \A j \in Queued(p, t, o) : j <= Len(q) + 1
    BY <1>1 DEF Queued
  <2>3. LastQueued(p, t, o) = p[Len(q) + 1].val
    <3>1. p \in Seq(OutFlit)
      BY <1>1
    <3>. QED BY <2>1, <2>2, <3>1, LastIs, Zenon
  <2>. QED BY <1>1, <1>2, <2>1, <2>3 DEF PassedOn
<1>3. CASE ~IsQueued(f, t, o)
  <2>1. Queued(p, t, o) = Queued(q, t, o)
    <3>1. \A k \in 1 .. Len(q) + 1 : k = Len(q) + 1 \/ k \in 1 .. Len(q)
      BY <1>1
    <3>2. \A k \in 1 .. Len(q) : k \in 1 .. Len(q) + 1
      BY <1>1
    <3>. QED BY <1>1, <1>3, <3>1, <3>2 DEF Queued, IsQueued
  <2>2. CASE Queued(q, t, o) # {}
    <3>1. PICK i \in Queued(q, t, o) : \A j \in Queued(q, t, o) : j <= i
      BY <2>2, LastExists
    <3>2. LastQueued(q, t, o) = q[i].val /\ LastQueued(p, t, o) = p[i].val
      <4>1. p \in Seq(OutFlit)
        BY <1>1
      <4>2. LastQueued(q, t, o) = q[i].val
        BY <3>1, LastIs, Zenon
      <4>3. /\ i \in Queued(p, t, o)
            /\ \A j \in Queued(p, t, o) : j <= i
        BY <2>1, <3>1, Zenon
      <4>4. LastQueued(p, t, o) = p[i].val
        BY <4>1, <4>3, LastIs, Zenon
      <4>. QED BY <4>2, <4>4
    <3>3. i \in 1 .. Len(q)
      BY <1>1, <3>1 DEF Queued
    <3>. QED BY <1>1, <1>3, <2>1, <2>2, <3>2, <3>3 DEF PassedOn
  <2>3. CASE Queued(q, t, o) = {}
    BY <1>3, <2>1, <2>3 DEF PassedOn
  <2>. QED BY <2>2, <2>3
<1>. QED BY <1>2, <1>3

(* The flit in front arrives.                                              *)
LEMMA PassedTail ==
    ASSUME NEW q \in Seq(OutFlit), q # <<>>, NEW t, NEW o, NEW v
    PROVE  PassedOn(q, t, o, v)
              = PassedOn(Tail(q), t, o, IF IsQueued(q[1], t, o) THEN q[1].val ELSE v)
<1>1. /\ Len(q) \in Nat \ {0} /\ Len(Tail(q)) = Len(q) - 1 /\ Tail(q) \in Seq(OutFlit)
      /\ \A k \in 1 .. Len(q) - 1 : Tail(q)[k] = q[k + 1]
      /\ DOMAIN q = 1 .. Len(q) /\ DOMAIN Tail(q) = 1 .. Len(q) - 1
  BY Taken
<1>2. \A k \in Queued(Tail(q), t, o) : k + 1 \in Queued(q, t, o) /\ k \in 1 .. Len(q) - 1
  <2>1. \A k \in 1 .. Len(q) - 1 : k + 1 \in 1 .. Len(q)
    BY <1>1
  <2>. QED BY <1>1, <2>1 DEF Queued
<1>3. \A k \in Queued(q, t, o) : k # 1 => k - 1 \in Queued(Tail(q), t, o)
  <2>1. ASSUME NEW k \in 1 .. Len(q), k # 1 PROVE k - 1 \in 1 .. Len(q) - 1 /\ (k - 1) + 1 = k
    BY <1>1, <2>1
  <2>2. ASSUME NEW k \in Queued(q, t, o), k # 1 PROVE k - 1 \in Queued(Tail(q), t, o)
    <3>1. k \in 1 .. Len(q) /\ q[k].kind = "WORD" /\ q[k].tag = t /\ q[k].off = o
      BY <1>1 DEF Queued
    <3>2. k - 1 \in 1 .. Len(q) - 1 /\ Tail(q)[k - 1] = q[k]
      BY <1>1, <2>1, <2>2, <3>1
    <3>. QED BY <1>1, <3>1, <3>2 DEF Queued
  <2>. QED BY <2>2
<1>4. CASE Queued(Tail(q), t, o) # {}
  <2>1. PICK i \in Queued(Tail(q), t, o) : \A j \in Queued(Tail(q), t, o) : j <= i
    BY <1>1, <1>4, LastExists
  <2>2. i + 1 \in Queued(q, t, o) /\ i \in 1 .. Len(q) - 1 /\ Tail(q)[i] = q[i + 1]
    BY <1>1, <1>2
  <2>3. ASSUME NEW j \in Queued(q, t, o) PROVE j <= i + 1
    <3>1. j \in 1 .. Len(q) /\ i \in Nat
      BY <1>1, <2>2 DEF Queued
    <3>2. CASE j = 1
      BY <3>1, <3>2
    <3>3. CASE j # 1
      <4>1. j - 1 <= i
        BY <1>3, <2>1, <3>3
      <4>. QED BY <3>1, <4>1
    <3>. QED BY <3>2, <3>3
  <2>4. LastQueued(Tail(q), t, o) = Tail(q)[i].val /\ LastQueued(q, t, o) = q[i + 1].val
    <3>1. Tail(q) \in Seq(OutFlit)
      BY <1>1
    <3>2. LastQueued(Tail(q), t, o) = Tail(q)[i].val
      BY <2>1, <3>1, LastIs, Zenon
    <3>3. LastQueued(q, t, o) = q[i + 1].val
      BY <2>2, <2>3, LastIs, Zenon
    <3>. QED BY <3>2, <3>3
  <2>. QED BY <1>4, <2>2, <2>4 DEF PassedOn
<1>5. CASE Queued(Tail(q), t, o) = {} /\ IsQueued(q[1], t, o)
  <2>1. 1 \in Queued(q, t, o) /\ \A j \in Queued(q, t, o) : j <= 1
    BY <1>1, <1>3, <1>5 DEF Queued, IsQueued
  <2>2. LastQueued(q, t, o) = q[1].val
    BY <2>1, LastIs
  <2>. QED BY <1>5, <2>1, <2>2 DEF PassedOn
<1>6. CASE Queued(Tail(q), t, o) = {} /\ ~IsQueued(q[1], t, o)
  <2>1. Queued(q, t, o) = {}
    BY <1>3, <1>6 DEF Queued, IsQueued
  <2>. QED BY <1>6, <2>1 DEF PassedOn
<1>. QED BY <1>4, <1>5, <1>6

\* A word of the next level, and what a flush makes of it.
LEMMA BelowIs ==
    ASSUME NEW t, NEW o
    PROVE  BelowWord(t, o) = IF state = "FLUSH" /\ flushAddress.tag = t /\ o >= cacheLineCursor
                             THEN data[flushAddress.line][o]
                             ELSE PassedOn(outputReqQueue, t, o, nextLevel[t][o])
BY DEF BelowWord, PassedOn

KeepsBelow == \A t \in Tag, o \in Off : BelowWord(t, o)' = BelowWord(t, o)
NoWord(f) == f.kind # "WORD"

(* No word is on its way that was not before.                              *)
LEMMA BelowKept ==
    ASSUME TypeOK, state # "FLUSH", state' # "FLUSH", nextLevel' = nextLevel,
           \/ outputReqQueue' = outputReqQueue
           \/ \E f \in OutFlit : outputReqQueue' = Append(outputReqQueue, f) /\ NoWord(f)
    PROVE  KeepsBelow
<1>1. outputReqQueue \in Seq(OutFlit)
  BY DEF TypeOK
<1>2. ASSUME NEW t \in Tag, NEW o \in Off PROVE BelowWord(t, o)' = BelowWord(t, o)
  <2>1. BelowWord(t, o) = PassedOn(outputReqQueue, t, o, nextLevel[t][o])
    BY BelowIs
  <2>2. BelowWord(t, o)' = PassedOn(outputReqQueue', t, o, nextLevel[t][o])
    BY DEF BelowWord, PassedOn
  <2>3. PassedOn(outputReqQueue', t, o, nextLevel[t][o])
          = PassedOn(outputReqQueue, t, o, nextLevel[t][o])
    <3>1. CASE outputReqQueue' = outputReqQueue
      BY <3>1
    <3>2. CASE \E f \in OutFlit : outputReqQueue' = Append(outputReqQueue, f) /\ NoWord(f)
      BY <1>1, <3>2, PassedAppend DEF NoWord, IsQueued
    <3>. QED BY <3>1, <3>2
  <2>. QED BY <2>1, <2>2, <2>3
<1>. QED BY <1>2 DEF KeepsBelow

(* Nothing is sent.                                                        *)
LEMMA BelowFrame ==
    ASSUME state' = "FLUSH" <=> state = "FLUSH",
           UNCHANGED <<flushAddress, cacheLineCursor, data, outputReqQueue, nextLevel>>
    PROVE  KeepsBelow
BY DEF KeepsBelow, BelowWord

(* A flush starts: what is below will be what the line holds.              *)
LEMMA BelowFlushes ==
    ASSUME TypeOK, state # "FLUSH", Flushes, nextLevel' = nextLevel,
           NEW t \in Tag, NEW o \in Off
    PROVE  BelowWord(t, o)' = IF flushAddress'.tag = t THEN data'[flushAddress'.line][o]
                              ELSE BelowWord(t, o)
<1>1. outputReqQueue \in Seq(OutFlit)
  BY DEF TypeOK
<1>2. /\ \E f \in OutFlit : f.kind = "STORE_LINE" /\ outputReqQueue' = Append(outputReqQueue, f)
      /\ cacheLineCursor' = 0 /\ state' = "FLUSH"
  BY DEF Flushes
<1>3. PassedOn(outputReqQueue', t, o, nextLevel[t][o])
          = PassedOn(outputReqQueue, t, o, nextLevel[t][o])
  BY <1>1, <1>2, PassedAppend DEF IsQueued
<1>4. BelowWord(t, o) = PassedOn(outputReqQueue, t, o, nextLevel[t][o])
  BY BelowIs
<1>5. BelowWord(t, o)' = IF flushAddress'.tag = t /\ o >= 0 THEN data'[flushAddress'.line][o]
                         ELSE PassedOn(outputReqQueue', t, o, nextLevel[t][o])
  BY <1>2 DEF BelowWord, PassedOn
<1>6. o >= 0
  BY LineAssumption DEF Off
<1>. QED BY <1>3, <1>4, <1>5, <1>6

(* A word of the line leaves the SRAM.                                     *)
LEMMA BelowFlush ==
    ASSUME BInv, Flush
    PROVE  KeepsBelow
<1> DEFINE last == cacheLineCursor + 1 >= WordsPerLine
           f == [kind |-> "WORD", tag |-> flushAddress.tag, off |-> cacheLineCursor,
                 val |-> data[flushAddress.line][cacheLineCursor], eop |-> last]
<1>1. /\ state = "FLUSH" /\ canSendRequest /\ sendRequests(<<f>>)
      /\ cacheLineCursor' = cacheLineCursor + 1
      /\ state' = IF last THEN previousState ELSE state
      /\ flushAddress' = flushAddress /\ data' = data /\ nextLevel' = nextLevel
  BY DEF Flush, sram, beyond
<1>2. TypeOK /\ FlushOK
  BY DEF BInv
<1>3. /\ cacheLineCursor \in Nat /\ cacheLineCursor < WordsPerLine /\ WordsPerLine \in Nat
      /\ cacheLineCursor \in Off
      /\ flushAddress.tag \in Tag /\ flushAddress.line \in Line
      /\ previousState # "FLUSH"
  BY <1>1, <1>2, LineAssumption DEF TypeOK, FlushOK, Off
<1>4. /\ f \in OutFlit /\ f.val = data[flushAddress.line][cacheLineCursor]
      /\ \A t, o : IsQueued(f, t, o) <=> (t = flushAddress.tag /\ o = cacheLineCursor)
  <2>1. data[flushAddress.line][cacheLineCursor] \in Val
    BY <1>2, <1>3 DEF TypeOK
  <2>2. last \in BOOLEAN
    BY <1>3
  <2>3. f \in OutFlit
    BY <1>3, <2>1, <2>2, SentFlits
  <2>. QED BY <2>3 DEF IsQueued
<1> HIDE DEF f
<1>5. outputReqQueue' = Append(outputReqQueue, f) /\ outputReqQueue \in Seq(OutFlit)
  BY <1>1, <1>2, <1>4, Sent
<1>6. ASSUME NEW t \in Tag, NEW o \in Off PROVE BelowWord(t, o)' = BelowWord(t, o)
  <2> DEFINE was == PassedOn(outputReqQueue, t, o, nextLevel[t][o])
             is  == PassedOn(outputReqQueue', t, o, nextLevel[t][o])
  <2>1. is = IF t = flushAddress.tag /\ o = cacheLineCursor
             THEN data[flushAddress.line][cacheLineCursor] ELSE was
    <3>1. PassedOn(Append(outputReqQueue, f), t, o, nextLevel[t][o])
            = IF IsQueued(f, t, o) THEN f.val ELSE PassedOn(outputReqQueue, t, o, nextLevel[t][o])
      BY <1>4, <1>5, PassedAppend
    <3>2. f.val = data[flushAddress.line][cacheLineCursor]
      BY <1>4
    <3>3. IsQueued(f, t, o) <=> t = flushAddress.tag /\ o = cacheLineCursor
      BY <1>4, Zenon
    <3>. QED BY <1>5, <3>1, <3>2, <3>3
  <2>2. BelowWord(t, o) = IF flushAddress.tag = t /\ o >= cacheLineCursor
                          THEN data[flushAddress.line][o] ELSE was
    BY <1>1, BelowIs
  <2>3. BelowWord(t, o)' = IF state' = "FLUSH" /\ flushAddress.tag = t /\ o >= cacheLineCursor + 1
                           THEN data[flushAddress.line][o] ELSE is
    BY <1>1 DEF BelowWord, PassedOn
  <2> HIDE DEF was, is
  <2>4. o \in Nat /\ o < WordsPerLine
    BY <1>3 DEF Off
  <2>5. state' = "FLUSH" <=> ~last
    BY <1>1, <1>3
  <2>6. CASE flushAddress.tag # t
    BY <2>1, <2>2, <2>3, <2>6
  <2>7. CASE flushAddress.tag = t /\ o = cacheLineCursor
    <3>1. o >= cacheLineCursor /\ ~(o >= cacheLineCursor + 1)
      BY <1>3, <2>7
    <3>. QED BY <2>1, <2>2, <2>3, <2>7, <3>1
  <2>8. CASE flushAddress.tag = t /\ o < cacheLineCursor
    <3>1. ~(o >= cacheLineCursor) /\ ~(o >= cacheLineCursor + 1) /\ o # cacheLineCursor
      BY <1>3, <2>4, <2>8
    <3>. QED BY <2>1, <2>2, <2>3, <3>1
  <2>9. CASE flushAddress.tag = t /\ o > cacheLineCursor
    <3>1. o >= cacheLineCursor /\ o >= cacheLineCursor + 1 /\ ~last
      BY <1>3, <2>4, <2>9
    <3>. QED BY <2>2, <2>3, <2>5, <2>9, <3>1
  <2>. QED BY <1>3, <2>4, <2>6, <2>7, <2>8, <2>9
<1>. QED BY <1>6 DEF KeepsBelow

-----------------------------------------------------------------------------
(* The lines that are stored.                                              *)

(* What a flit does to the line that is being stored.                      *)
LEMMA LineStep ==
    ASSUME NEW n \in Tag \X Nat, NEW f \in OutFlit
    PROVE  /\ f.kind = "STORE_LINE" /\ n[2] = 0 => <<n, f, <<f.tag, WordsPerLine>>>> \in LineSteps
           /\ f.kind \notin {"STORE_LINE", "WORD"} /\ n[2] = 0 => <<n, f, n>> \in LineSteps
           /\ f.kind = "WORD" => \A k \in Nat :
                 n = <<f.tag, k + 1>> /\ f.off = WordsPerLine - (k + 1)
                    => <<n, f, <<f.tag, k>>>> \in LineSteps
<1>1. /\ f.kind \in {"FETCH_LINE", "STORE_LINE", "WORD", "FORWARD", "FORWARDED_WORD"}
      /\ f.kind \in {"FETCH_LINE", "STORE_LINE", "WORD"} => f.tag \in Tag
      /\ WordsPerLine \in Nat
  BY OutFlits, LineAssumption
<1>2. ASSUME f.kind = "STORE_LINE", n[2] = 0
      PROVE  <<n, f, <<f.tag, WordsPerLine>>>> \in LineSteps
  BY <1>1, <1>2 DEF LineSteps
<1>3. ASSUME f.kind \notin {"STORE_LINE", "WORD"}, n[2] = 0
      PROVE  <<n, f, n>> \in LineSteps
  BY <1>1, <1>3 DEF LineSteps
<1>4. ASSUME f.kind = "WORD", NEW k \in Nat, n = <<f.tag, k + 1>>, f.off = WordsPerLine - (k + 1)
      PROVE  <<n, f, <<f.tag, k>>>> \in LineSteps
  BY <1>1, <1>4 DEF LineSteps
<1>. QED BY <1>2, <1>3, <1>4

(* ... and what the first flit of the queue says of it.                    *)
LEMMA LineStepOf ==
    ASSUME NEW n, NEW f, NEW l, <<n, f, l>> \in LineSteps
    PROVE  /\ n \in Tag \X Nat /\ l \in Tag \X Nat /\ f \in OutFlit
           /\ f.kind = "STORE_LINE" => n[2] = 0 /\ l = <<f.tag, WordsPerLine>>
           /\ f.kind = "WORD" => /\ n[1] = f.tag /\ l[1] = f.tag /\ n[2] = l[2] + 1
                                 /\ f.off = WordsPerLine - n[2]
           /\ f.kind \notin {"STORE_LINE", "WORD"} => n[2] = 0 /\ l = n
<1>1. n \in Tag \X Nat /\ l \in Tag \X Nat /\ f \in OutFlit
  BY DEF LineSteps
<1>2. f.kind = "STORE_LINE" => n[2] = 0 /\ l = <<f.tag, WordsPerLine>>
  BY DEF LineSteps
<1>3. f.kind = "WORD" => /\ n[1] = f.tag /\ l[1] = f.tag /\ n[2] = l[2] + 1
                         /\ f.off = WordsPerLine - n[2]
  BY DEF LineSteps
<1>4. f.kind \notin {"STORE_LINE", "WORD"} => n[2] = 0 /\ l = n
  BY DEF LineSteps
<1>. QED BY <1>1, <1>2, <1>3, <1>4

\* flush() finds a dirty line.
FlushesLine(line) ==
    /\ metadata[line].valid /\ metadata[line].dirty
    /\ outputReqQueue' = Append(outputReqQueue, [kind |-> "STORE_LINE", tag |-> metadata[line].tag])
    /\ flushAddress' = [line |-> line, tag |-> metadata[line].tag]
    /\ cacheLineCursor' = 0
    /\ previousState' = state /\ state' = "FLUSH"

(* What flush() does.                                                      *)
LEMMA FlushIs ==
    ASSUME TypeOK, canSendRequest, NEW line \in Line, NEW next, flush(line, next)
    PROVE  \/ FlushesLine(line) /\ Flushes
           \/ Skips(next) /\ ~(metadata[line].valid /\ metadata[line].dirty)
<1> DEFINE f == [kind |-> "STORE_LINE", tag |-> metadata[line].tag]
<1>1. CASE metadata[line].valid /\ metadata[line].dirty
  <2>1. /\ sendRequests(<<f>>)
        /\ flushAddress' = [line |-> line, tag |-> metadata[line].tag]
        /\ cacheLineCursor' = 0
        /\ previousState' = state /\ state' = "FLUSH"
    BY <1>1 DEF flush
  <2>2. metadata[line].tag \in Tag
    BY DEF TypeOK
  <2>3. f \in OutFlit /\ f.kind = "STORE_LINE"
    BY <2>2, SentFlits
  <2>4. flushAddress' # None
    BY <2>1, <2>2, NoneAssumption
  <2> HIDE DEF f
  <2>5. outputReqQueue' = Append(outputReqQueue, f)
    BY <2>1, <2>3, Sent
  <2>6. Flushes
    BY <2>1, <2>3, <2>4, <2>5 DEF Flushes
  <2>7. FlushesLine(line)
    BY <1>1, <2>1, <2>5 DEF FlushesLine, f
  <2>. QED BY <2>6, <2>7
<1>2. CASE ~(metadata[line].valid /\ metadata[line].dirty)
  BY <1>2 DEF flush, Skips
<1>. QED BY <1>1, <1>2

(* A request or an address is sent.                                        *)
LEMMA StoredSent ==
    ASSUME StoredOK, TypeOK, NEW f \in OutFlit, storing' = storing,
           outputReqQueue' = Append(outputReqQueue, f), state # "FLUSH", state' # "FLUSH",
           f.kind \notin {"STORE_LINE", "WORD"}
    PROVE  StoredOK'
<1>1. PICK a, b \in Tag \X Nat :
        /\ StreamOf(Tag \X Nat, LineSteps, outputReqQueue, a, b)
        /\ IF storing = None THEN a[2] = 0 ELSE a = <<storing.tag, WordsPerLine - storing.off>>
        /\ b[2] = 0
  BY DEF StoredOK
<1>2. <<b, f, b>> \in LineSteps /\ outputReqQueue \in Seq(OutFlit)
  BY <1>1, LineStep DEF TypeOK
<1>3. StreamOf(Tag \X Nat, LineSteps, Append(outputReqQueue, f), a, b)
  BY <1>1, <1>2, StreamOfMore
<1>. QED BY <1>1, <1>3 DEF StoredOK

(* A flush announces the words of its line.                                *)
LEMMA StoredFlushes ==
    ASSUME StoredOK, TypeOK, NEW line \in Line, FlushesLine(line), storing' = storing,
           state # "FLUSH"
    PROVE  StoredOK'
<1> DEFINE f == [kind |-> "STORE_LINE", tag |-> metadata[line].tag]
<1>1. PICK a, b \in Tag \X Nat :
        /\ StreamOf(Tag \X Nat, LineSteps, outputReqQueue, a, b)
        /\ IF storing = None THEN a[2] = 0 ELSE a = <<storing.tag, WordsPerLine - storing.off>>
        /\ b[2] = 0
  BY DEF StoredOK
<1>2. metadata[line].tag \in Tag /\ outputReqQueue \in Seq(OutFlit) /\ WordsPerLine \in Nat
  BY LineAssumption DEF TypeOK
<1>3. f \in OutFlit /\ f.kind = "STORE_LINE" /\ f.tag = metadata[line].tag
  BY <1>2, SentFlits
<1>4. /\ outputReqQueue' = Append(outputReqQueue, f) /\ flushAddress'.tag = f.tag
      /\ cacheLineCursor' = 0 /\ state' = "FLUSH"
  BY DEF FlushesLine
<1> HIDE DEF f
<1>5. <<b, f, <<f.tag, WordsPerLine>>>> \in LineSteps /\ <<f.tag, WordsPerLine>> \in Tag \X Nat
  BY <1>1, <1>2, <1>3, LineStep
<1>6. StreamOf(Tag \X Nat, LineSteps, outputReqQueue', a, <<f.tag, WordsPerLine>>)
  <2> DEFINE c == <<f.tag, WordsPerLine>>
  <2>1. <<b, f, c>> \in LineSteps /\ c \in Tag \X Nat
    BY <1>5
  <2> HIDE DEF c
  <2>2. StreamOf(Tag \X Nat, LineSteps, Append(outputReqQueue, f), a, c)
    BY <1>1, <1>2, <1>3, <2>1, StreamOfMore
  <2>. QED BY <1>4, <2>2 DEF c
<1>7. WordsPerLine - cacheLineCursor' = WordsPerLine
  BY <1>2, <1>4
<1>. QED BY <1>1, <1>4, <1>5, <1>6, <1>7 DEF StoredOK

(* Nothing is sent.                                                        *)
LEMMA StoredKept ==
    ASSUME StoredOK, state' = "FLUSH" <=> state = "FLUSH", UNCHANGED <<outputReqQueue, storing>>,
           state = "FLUSH" => UNCHANGED <<flushAddress, cacheLineCursor>>
    PROVE  StoredOK'
BY DEF StoredOK

(* A word of the line is sent.                                             *)
LEMMA StoredFlush ==
    ASSUME BInv, StoredOK, Flush
    PROVE  StoredOK'
<1> DEFINE last == cacheLineCursor + 1 >= WordsPerLine
           f == [kind |-> "WORD", tag |-> flushAddress.tag, off |-> cacheLineCursor,
                 val |-> data[flushAddress.line][cacheLineCursor], eop |-> last]
           k == WordsPerLine - (cacheLineCursor + 1)
<1>1. /\ state = "FLUSH" /\ canSendRequest /\ sendRequests(<<f>>)
      /\ cacheLineCursor' = cacheLineCursor + 1
      /\ state' = IF last THEN previousState ELSE state
      /\ flushAddress' = flushAddress /\ storing' = storing
  BY DEF Flush, beyond
<1>2. TypeOK /\ FlushOK
  BY DEF BInv
<1>3. /\ cacheLineCursor \in Nat /\ cacheLineCursor < WordsPerLine /\ WordsPerLine \in Nat
      /\ cacheLineCursor \in Off
      /\ flushAddress.tag \in Tag /\ flushAddress.line \in Line
      /\ previousState # "FLUSH"
  BY <1>1, <1>2, LineAssumption DEF TypeOK, FlushOK, Off
<1>4. f \in OutFlit /\ f.kind = "WORD" /\ f.tag = flushAddress.tag /\ f.off = cacheLineCursor
  <2>1. data[flushAddress.line][cacheLineCursor] \in Val
    BY <1>2, <1>3 DEF TypeOK
  <2>2. last \in BOOLEAN
    BY <1>3
  <2>. QED BY <1>3, <2>1, <2>2, SentFlits
<1>5. /\ k \in Nat /\ WordsPerLine - cacheLineCursor = k + 1
      /\ cacheLineCursor = WordsPerLine - (k + 1)
      /\ last <=> k = 0
  BY <1>3
<1>6. state' = "FLUSH" <=> ~last
  BY <1>1, <1>3
<1> HIDE DEF f, last
<1>7. outputReqQueue' = Append(outputReqQueue, f) /\ outputReqQueue \in Seq(OutFlit)
  BY <1>1, <1>2, <1>4, Sent
<1>8. PICK a, b \in Tag \X Nat :
        /\ StreamOf(Tag \X Nat, LineSteps, outputReqQueue, a, b)
        /\ IF storing = None THEN a[2] = 0 ELSE a = <<storing.tag, WordsPerLine - storing.off>>
        /\ b = <<flushAddress.tag, WordsPerLine - cacheLineCursor>>
  BY <1>1 DEF StoredOK
<1>9. WordsPerLine - cacheLineCursor' = k
  BY <1>1
<1> HIDE DEF k
<1>10. <<b, f, <<f.tag, k>>>> \in LineSteps /\ <<f.tag, k>> \in Tag \X Nat
  BY <1>3, <1>4, <1>5, <1>8, LineStep
<1>11. StreamOf(Tag \X Nat, LineSteps, outputReqQueue', a, <<f.tag, k>>)
  <2> DEFINE c == <<f.tag, k>>
  <2>1. <<b, f, c>> \in LineSteps /\ c \in Tag \X Nat
    BY <1>10
  <2> HIDE DEF c
  <2>2. StreamOf(Tag \X Nat, LineSteps, Append(outputReqQueue, f), a, c)
    BY <1>4, <1>7, <1>8, <2>1, StreamOfMore
  <2>. QED BY <1>7, <2>2 DEF c
<1>12. IF state' = "FLUSH" THEN <<f.tag, k>> = <<flushAddress'.tag, WordsPerLine - cacheLineCursor'>>
       ELSE <<f.tag, k>>[2] = 0
  BY <1>1, <1>4, <1>5, <1>6, <1>9
<1>. QED BY <1>1, <1>8, <1>10, <1>11, <1>12 DEF StoredOK

(* A word that arrives is the next of the line that is stored.             *)
LEMMA WordStored ==
    ASSUME BInv, StoredOK, outputReqQueue # <<>>, outputReqQueue[1].kind = "WORD"
    PROVE  /\ storing # None /\ storing.tag \in Tag
           /\ outputReqQueue[1].tag = storing.tag /\ outputReqQueue[1].off = storing.off
<1> DEFINE f == outputReqQueue[1]
           n == IF storing = None THEN 0 ELSE WordsPerLine - storing.off
           m == IF state = "FLUSH" THEN WordsPerLine - cacheLineCursor ELSE 0
<1>1. /\ outputReqQueue \in Seq(OutFlit) /\ storing \in [tag : Tag, off : Off] \cup {None}
      /\ WordsPerLine \in Nat
  BY LineAssumption DEF BInv, TypeOK
<1>2. storing # None
  <2>1. Stream(FlushSteps, outputReqQueue, n, m)
    BY DEF BInv, StoringOK
  <2> HIDE DEF n, m
  <2>2. PICK l \in Nat : <<n, f, l>> \in FlushSteps
    BY <1>1, <2>1, StreamTail
  <2>3. n = l + 1
    BY <2>2, FlushStepOf
  <2>. QED BY <2>2, <2>3 DEF n
<1>3. PICK a, b \in Tag \X Nat :
        /\ StreamOf(Tag \X Nat, LineSteps, outputReqQueue, a, b)
        /\ a = <<storing.tag, WordsPerLine - storing.off>>
  BY <1>2 DEF StoredOK
<1>4. PICK c \in Tag \X Nat : <<a, f, c>> \in LineSteps
  BY <1>1, <1>3, StreamOfTail
<1>5. a[1] = f.tag /\ f.off = WordsPerLine - a[2]
  BY <1>4, LineStepOf
<1>. QED BY <1>1, <1>2, <1>3, <1>5 DEF Off

(* What the next level is sent reaches its word of the line.               *)
LEMMA StoredArrives ==
    ASSUME BInv, StoredOK, SendRequest
    PROVE  StoredOK' /\ KeepsBelow
<1> DEFINE f == outputReqQueue[1]
           n == IF storing = None THEN 0 ELSE WordsPerLine - storing.off
           m == IF state = "FLUSH" THEN WordsPerLine - cacheLineCursor ELSE 0
<1>1. /\ outputReqQueue # <<>> /\ outputReqQueue \in Seq(OutFlit)
      /\ outputReqQueue' = Tail(outputReqQueue) /\ f = Head(outputReqQueue)
      /\ UNCHANGED <<control, sram, cacheLineCursor, flushAddress>>
  BY DEF SendRequest, BInv, TypeOK
<1>2. f \in OutFlit /\ Tail(outputReqQueue) \in Seq(OutFlit)
  BY <1>1, Taken
<1>3. /\ f.kind = "STORE_LINE" => storing' = [tag |-> f.tag, off |-> 0] /\ nextLevel' = nextLevel
      /\ f.kind = "WORD" =>
           /\ nextLevel' = [nextLevel EXCEPT ![storing.tag][storing.off] = f.val]
           /\ storing' = IF f.eop THEN None ELSE [storing EXCEPT !.off = @ + 1]
      /\ f.kind \notin {"STORE_LINE", "WORD"} => storing' = storing /\ nextLevel' = nextLevel
  <2>1. f.kind \in {"FETCH_LINE", "STORE_LINE", "WORD", "FORWARD", "FORWARDED_WORD"}
    BY <1>2, OutFlits
  <2>2. CASE f.kind = "STORE_LINE"
    BY <1>1, <2>2 DEF SendRequest
  <2>3. CASE f.kind = "WORD"
    BY <1>1, <2>3 DEF SendRequest
  <2>4. CASE f.kind \notin {"STORE_LINE", "WORD"}
    BY <1>1, <2>1, <2>4 DEF SendRequest, beyond
  <2>. QED BY <2>2, <2>3, <2>4
<1> HIDE DEF f
<1>4. PICK l \in Nat : <<n, f, l>> \in FlushSteps
  <2>1. Stream(FlushSteps, outputReqQueue, n, m)
    BY DEF BInv, StoringOK
  <2> HIDE DEF n, m
  <2>. QED BY <1>1, <2>1, StreamTail DEF f
<1>5. /\ f.kind = "WORD" => n = l + 1 /\ (f.eop <=> l = 0)
      /\ f.kind # "WORD" => n = 0
  BY <1>4, FlushStepOf
<1>6. PICK a, b \in Tag \X Nat :
        /\ StreamOf(Tag \X Nat, LineSteps, outputReqQueue, a, b)
        /\ IF storing = None THEN a[2] = 0 ELSE a = <<storing.tag, WordsPerLine - storing.off>>
        /\ IF state = "FLUSH" THEN b = <<flushAddress.tag, WordsPerLine - cacheLineCursor>>
           ELSE b[2] = 0
  BY DEF StoredOK
<1>7. PICK c \in Tag \X Nat :
        <<a, f, c>> \in LineSteps /\ StreamOf(Tag \X Nat, LineSteps, Tail(outputReqQueue), c, b)
  BY <1>1, <1>6, StreamOfTail DEF f
<1>8. /\ storing \in [tag : Tag, off : Off] \cup {None} /\ nextLevel \in [Tag -> [Off -> Val]]
      /\ WordsPerLine \in Nat \ {0}
  BY LineAssumption DEF BInv, TypeOK
<1>9. storing # None => /\ storing \in [tag : Tag, off : Off] /\ storing.tag \in Tag
                        /\ storing.off \in 0 .. WordsPerLine - 1
                        /\ n = WordsPerLine - storing.off /\ n > 0
  BY <1>8 DEF Off
<1>10. f.kind = "WORD" => storing # None /\ f.tag = storing.tag /\ f.off = storing.off
  BY <1>1, WordStored DEF f
<1>11. IF storing' = None THEN c[2] = 0 ELSE c = <<storing'.tag, WordsPerLine - storing'.off>>
  <2>1. CASE f.kind = "STORE_LINE"
    <3>1. f.tag \in Tag /\ 0 \in Off
      BY <1>2, <1>8, <2>1, OutFlits DEF Off
    <3>2. storing' # None
      BY <1>3, <2>1, <3>1, NoneAssumption
    <3>3. c = <<f.tag, WordsPerLine>>
      BY <1>7, <2>1, LineStepOf
    <3>. QED BY <1>3, <1>8, <2>1, <3>2, <3>3
  <2>2. CASE f.kind = "WORD"
    <3>1. /\ storing # None /\ n = l + 1 /\ (f.eop <=> l = 0)
          /\ a = <<storing.tag, n>>
      BY <1>5, <1>6, <1>9, <1>10, <2>2
    <3>2. c \in Tag \X Nat /\ c[1] = f.tag /\ a[2] = c[2] + 1
      BY <1>7, <2>2, LineStepOf
    <3>3. c[2] = l /\ c = <<storing.tag, l>>
      BY <1>4, <1>10, <2>2, <3>1, <3>2
    <3>4. CASE f.eop
      BY <1>3, <2>2, <3>1, <3>3, <3>4
    <3>5. CASE ~f.eop
      <4>1. storing' = [storing EXCEPT !.off = storing.off + 1] /\ l # 0
        BY <1>3, <2>2, <3>1, <3>5
      <4>2. storing.off + 1 \in Off /\ l = WordsPerLine - (storing.off + 1)
        BY <1>4, <1>8, <1>9, <3>1, <4>1 DEF Off
      <4>3. /\ storing' \in [tag : Tag, off : Off] /\ storing' # None
            /\ storing'.off = storing.off + 1 /\ storing'.tag = storing.tag
        BY <1>9, <3>1, <4>1, <4>2, NoneAssumption
      <4>. QED BY <3>3, <4>2, <4>3
    <3>. QED BY <3>4, <3>5
  <2>3. CASE f.kind \notin {"STORE_LINE", "WORD"}
    BY <1>3, <1>6, <1>7, <2>3, LineStepOf
  <2>. QED BY <2>1, <2>2, <2>3
<1>12. UNCHANGED <<state, flushAddress, cacheLineCursor, data>>
  BY <1>1 DEF control, sram
<1>13. StoredOK'
  BY <1>1, <1>6, <1>7, <1>11, <1>12 DEF StoredOK
<1>14. ASSUME NEW t \in Tag, NEW o \in Off PROVE BelowWord(t, o)' = BelowWord(t, o)
  <2>1. nextLevel'[t][o] = IF IsQueued(f, t, o) THEN f.val ELSE nextLevel[t][o]
    <3>1. CASE f.kind = "WORD"
      <4>1. /\ nextLevel' = [nextLevel EXCEPT ![storing.tag] =
                                [nextLevel[storing.tag] EXCEPT ![storing.off] = f.val]]
            /\ storing.tag = f.tag /\ storing.off = f.off
            /\ f.tag \in Tag /\ f.off \in Off
        BY <1>3, <1>9, <1>10, <3>1 DEF Off
      <4>2. nextLevel[f.tag] \in [Off -> Val]
        BY <1>8, <4>1
      <4>. QED BY <1>8, <3>1, <4>1, <4>2 DEF IsQueued
    <3>2. CASE f.kind # "WORD"
      BY <1>3, <3>2 DEF IsQueued
    <3>. QED BY <3>1, <3>2
  <2>2. PassedOn(outputReqQueue, t, o, nextLevel[t][o])
          = PassedOn(Tail(outputReqQueue), t, o, nextLevel'[t][o])
    BY <1>1, <2>1, PassedTail DEF f
  <2>3. BelowWord(t, o)' = IF state = "FLUSH" /\ flushAddress.tag = t /\ o >= cacheLineCursor
                           THEN data[flushAddress.line][o]
                           ELSE PassedOn(outputReqQueue', t, o, nextLevel'[t][o])
    BY <1>12 DEF BelowWord, PassedOn
  <2>. QED BY <1>1, <2>2, <2>3, BelowIs
<1>. QED BY <1>13, <1>14 DEF KeepsBelow

-----------------------------------------------------------------------------
(* Requests that have not been taken up.                                   *)

(* The heads on an input are those of its channels.                        *)
LEMMA OnlyOwn ==
    ASSUME BInv, NEW side \in Sides, NEW d, d \in CoreDest <=> side = "remote"
    PROVE  InQueue(Queue(side), d) = <<>>
<1>1. Queue(side) \in Seq(InFlit)
  BY InputTypes DEF BInv
<1>2. PICK n \in Nat : Stream(InputSteps(side), Queue(side), n, Len(sending[side]))
  BY DEF BInv, InputOK
<1>3. PICK at \in [0 .. Len(Queue(side)) -> Nat] :
        \A k \in 1 .. Len(Queue(side)) : <<at[k - 1], Queue(side)[k], at[k]>> \in InputSteps(side)
  BY <1>2 DEF Stream, StreamOf
<1>4. ASSUME NEW k \in 1 .. Len(Queue(side)) PROVE ~Adds(d, Queue(side)[k])
  <2>1. Queue(side)[k].head => SideOf(Queue(side)[k].req) = side
    <3>1. PICK a, b, f : f = Queue(side)[k] /\ <<a, f, b>> \in InputSteps(side)
      BY <1>3
    <3>. QED BY <3>1, InputStep
  <2>. QED BY <2>1 DEF Adds, SideOf, IsL1, Sides
<1>. QED BY <1>1, <1>4, InQueueNone

(* What is waiting is a sequence of requests.                              *)
LEMMA WaitingTypes ==
    ASSUME TypeOK, NEW d
    PROVE  /\ Waiting(d) \in Seq(Operation)
           /\ InQueue(inputQueue, d) \in Seq(Operation) /\ InQueue(requestSig, d) \in Seq(Operation)
<1>1. inputQueue \in Seq(InFlit) /\ requestSig \in Seq(InFlit)
  BY DEF TypeOK
<1>2. \A q \in Seq(InFlit) : InQueue(q, d) \in Seq(Operation)
  <2>1. ASSUME NEW q \in Seq(InFlit) PROVE InQueue(q, d) \in Seq(Operation)
    <3>1. PICK s \in Seq(Operation) : StreamOf(Seq(Operation), CollectSteps(d), q, <<>>, s)
      BY CollectExists
    <3>. QED BY <3>1, InQueueIs
  <2>. QED BY <2>1
<1>. QED BY <1>1, <1>2 DEF Waiting

KeepsWaiting == \A d \in Dest : Waiting(d)' = Waiting(d)

(* Nothing is taken or sent.                                               *)
LEMMA WaitingKept ==
    ASSUME UNCHANGED inputs
    PROVE  KeepsWaiting
BY DEF KeepsWaiting, Waiting, inputs

(* A payload flit is taken.                                                *)
LEMMA WaitingTaken ==
    ASSUME TypeOK, NEW r, Input(r) # <<>>, ~Input(r)[1].head, Consume(r)
    PROVE  KeepsWaiting
<1>1. ASSUME NEW q \in Seq(InFlit), q # <<>>, ~q[1].head, NEW d
      PROVE  InQueue(Tail(q), d) = InQueue(q, d)
  <2>1. InQueue(Tail(q), d) \in Seq(Operation)
    BY <1>1, InQueueTail
  <2>2. InQueue(q, d) = <<>> \o InQueue(Tail(q), d)
    BY <1>1, InQueueTail DEF Adds
  <2>. QED BY <2>1, <2>2
<1>2. inputQueue \in Seq(InFlit) /\ requestSig \in Seq(InFlit) /\ Len(requestSig) <= 1
  BY DEF TypeOK
<1>3. CASE IsL1(r)
  <2>1. /\ inputQueue # <<>> /\ ~inputQueue[1].head
        /\ inputQueue' = Tail(inputQueue) /\ requestSig' = requestSig
    BY <1>3 DEF Input, Consume
  <2>2. ASSUME NEW d PROVE InQueue(inputQueue', d) = InQueue(inputQueue, d)
    BY <1>1, <1>2, <2>1
  <2>. QED BY <2>1, <2>2 DEF KeepsWaiting, Waiting
<1>4. CASE ~IsL1(r)
  <2>1. /\ requestSig # <<>> /\ ~requestSig[1].head
        /\ inputQueue' = inputQueue /\ requestSig' = <<>>
    BY <1>4 DEF Input, Consume
  <2>2. requestSig' = Tail(requestSig)
    BY <1>2, <2>1, Taken
  <2>3. ASSUME NEW d PROVE InQueue(requestSig', d) = InQueue(requestSig, d)
    BY <1>1, <1>2, <2>1, <2>2
  <2>. QED BY <2>1, <2>3 DEF KeepsWaiting, Waiting
<1>. QED BY <1>3, <1>4

(* A request is served without its payload, or takes a flit of it.          *)
LEMMA WaitingServed ==
    ASSUME BInv, state = "REQUEST", TakesNone \/ Takes(hitRequest)
    PROVE  KeepsWaiting
<1>1. CASE TakesNone
  BY <1>1, WaitingKept DEF TakesNone, inputs
<1>2. CASE Takes(hitRequest) /\ readingFromMissBuffer
  BY <1>2, PayloadTaken, WaitingKept
<1>3. CASE Takes(hitRequest) /\ ~readingFromMissBuffer
  BY <1>3, PayloadTaken, WaitingTaken DEF BInv
<1>. QED BY <1>1, <1>2, <1>3

(* A head is taken.                                                        *)
LEMMA WaitingLess ==
    ASSUME BInv, NEW side \in Sides, Queue(side) # <<>>, Queue(side)[1].head,
           \A s \in Sides : Queue(s)' = IF s = side THEN Tail(Queue(s)) ELSE Queue(s),
           SideOf(Queue(side)[1].req) = side, NEW d \in Dest
    PROVE  Waiting(d) = (IF Queue(side)[1].req.dest = d
                         THEN <<decodeMemoryRequest(Queue(side)[1].req)>> ELSE <<>>) \o Waiting(d)'
<1> DEFINE f == Queue(side)[1]
           x == IF f.req.dest = d THEN <<decodeMemoryRequest(f.req)>> ELSE <<>>
<1>1. /\ Queue(side) \in Seq(InFlit) /\ f \in InFlit
      /\ inputQueue \in Seq(InFlit) /\ requestSig \in Seq(InFlit)
  BY InputTypes, Taken DEF BInv
<1>2. /\ InQueue(Tail(Queue(side)), d) \in Seq(Operation)
      /\ InQueue(Queue(side), d) = x \o InQueue(Tail(Queue(side)), d)
  BY <1>1, InQueueTail DEF Adds
<1>3. x \in Seq(Operation)
  <2>1. decodeMemoryRequest(f.req) \in Operation
    BY <1>1, InFlits DEF HeadFlit, Operation, decodeMemoryRequest
  <2>. QED BY <2>1
<1>4. InQueue(inputQueue, d) \in Seq(Operation) /\ InQueue(requestSig, d) \in Seq(Operation)
  BY WaitingTypes DEF BInv
<1>5. \A a, b, c \in Seq(Operation) : (a \o b) \o c = a \o (b \o c) /\ <<>> \o a = a
  OBVIOUS
<1>6. Queue("core") = inputQueue /\ Queue("remote") = requestSig
      /\ Queue("core")' = inputQueue' /\ Queue("remote")' = requestSig'
  BY DEF Queue
<1> HIDE DEF x
<1>7. CASE side = "core"
  <2>1. inputQueue' = Tail(inputQueue) /\ requestSig' = requestSig
    BY <1>6, <1>7 DEF Sides
  <2>2. Waiting(d) = (x \o InQueue(Tail(inputQueue), d)) \o InQueue(requestSig, d)
    BY <1>2, <1>6, <1>7 DEF Waiting
  <2>3. Waiting(d)' = InQueue(Tail(inputQueue), d) \o InQueue(requestSig, d)
    BY <2>1 DEF Waiting
  <2>4. InQueue(Tail(inputQueue), d) \in Seq(Operation)
    BY <1>2, <1>6, <1>7
  <2>5. (x \o InQueue(Tail(inputQueue), d)) \o InQueue(requestSig, d)
           = x \o (InQueue(Tail(inputQueue), d) \o InQueue(requestSig, d))
    <3> DEFINE m == InQueue(Tail(inputQueue), d)
               n == InQueue(requestSig, d)
    <3>1. m \in Seq(Operation) /\ n \in Seq(Operation)
      BY <1>4, <2>4
    <3> HIDE DEF m, n
    <3>2. (x \o m) \o n = x \o (m \o n)
      BY <1>3, <1>5, <3>1
    <3>. QED BY <3>2 DEF m, n
  <2>6. Waiting(d) = x \o Waiting(d)'
    BY <2>2, <2>3, <2>5
  <2>. QED BY <2>6 DEF x
<1>8. CASE side = "remote"
  <2>1. inputQueue' = inputQueue /\ requestSig' = Tail(requestSig)
    BY <1>6, <1>8 DEF Sides
  <2>2. Waiting(d) = InQueue(inputQueue, d) \o (x \o InQueue(Tail(requestSig), d))
    BY <1>2, <1>6, <1>8 DEF Waiting
  <2>3. Waiting(d)' = InQueue(inputQueue, d) \o InQueue(Tail(requestSig), d)
    BY <2>1 DEF Waiting
  <2>4. InQueue(Tail(requestSig), d) \in Seq(Operation)
    BY <1>2, <1>6, <1>8
  <2>5. CASE f.req.dest = d
    <3>1. d \notin CoreDest
      BY <1>8, <2>5 DEF SideOf, IsL1
    <3>2. InQueue(inputQueue, d) = <<>>
      <4>1. InQueue(Queue("core"), d) = <<>>
        BY <3>1, OnlyOwn DEF Sides
      <4>. QED BY <1>6, <4>1
    <3>3. x \o InQueue(Tail(requestSig), d) \in Seq(Operation)
      BY <1>3, <2>4
    <3>. QED BY <1>3, <1>5, <2>2, <2>3, <2>4, <3>2, <3>3 DEF x
  <2>6. CASE f.req.dest # d
    <3>1. x = <<>>
      BY <2>6 DEF x
    <3>. QED BY <1>4, <1>5, <2>2, <2>3, <2>4, <3>1, <2>6
  <2>. QED BY <2>5, <2>6
<1>. QED BY <1>7, <1>8 DEF Sides

(* A flit is sent.                                                         *)
LEMMA WaitingMore ==
    ASSUME BInv, NEW side \in Sides, NEW f \in InFlit,
           \A s \in Sides : Queue(s)' = IF s = side THEN Append(Queue(s), f) ELSE Queue(s),
           f.head => SideOf(f.req) = side, NEW d \in Dest
    PROVE  Waiting(d)' = Collected(Waiting(d), d, f)
<1>1. inputQueue \in Seq(InFlit) /\ requestSig \in Seq(InFlit)
  BY DEF BInv, TypeOK
<1>2. InQueue(inputQueue, d) \in Seq(Operation) /\ InQueue(requestSig, d) \in Seq(Operation)
  BY WaitingTypes DEF BInv
<1>3. Queue("core") = inputQueue /\ Queue("remote") = requestSig
      /\ Queue("core")' = inputQueue' /\ Queue("remote")' = requestSig'
  BY DEF Queue
<1>4. CASE side = "core"
  <2>1. inputQueue' = Append(inputQueue, f) /\ requestSig' = requestSig
    BY <1>3, <1>4 DEF Sides
  <2>2. Waiting(d)' = Collected(InQueue(inputQueue, d), d, f) \o InQueue(requestSig, d)
    BY <1>1, <2>1, InQueueAppend DEF Waiting
  <2>3. CASE Adds(d, f)
    <3>1. d \in CoreDest
      BY <1>4, <2>3 DEF Adds, SideOf, IsL1
    <3>2. InQueue(requestSig, d) = <<>>
      <4>1. InQueue(Queue("remote"), d) = <<>>
        BY <3>1, OnlyOwn DEF Sides
      <4>. QED BY <1>3, <4>1
    <3>3. Collected(InQueue(inputQueue, d), d, f) \in Seq(Operation)
      BY <1>2, CollectStep
    <3>. QED BY <1>2, <2>2, <3>2, <3>3 DEF Waiting
  <2>4. CASE ~Adds(d, f)
    BY <2>2, <2>4 DEF Collected, Waiting
  <2>. QED BY <2>3, <2>4
<1>5. CASE side = "remote"
  <2>1. inputQueue' = inputQueue /\ requestSig' = Append(requestSig, f)
    BY <1>3, <1>5 DEF Sides
  <2>2. Waiting(d)' = InQueue(inputQueue, d) \o Collected(InQueue(requestSig, d), d, f)
    BY <1>1, <2>1, InQueueAppend DEF Waiting
  <2>. QED BY <1>2, <2>2, CollectStep DEF Waiting
<1>. QED BY <1>4, <1>5 DEF Sides

-----------------------------------------------------------------------------
(* Requests in hand.                                                       *)

\* The request of channel d in the slots.
Hand(hit, miss, d) == IF hit # None /\ hit.dest = d THEN InSlot(hit, d) ELSE InSlot(miss, d)

(* A slot holds a request, or nothing.                                     *)
LEMMA SlotTypes ==
    ASSUME NEW r \in Operation \cup {None}, NEW d
    PROVE  /\ InSlot(r, d) \in Seq(Operation)
           /\ r # None => Seen(r) \in Operation
<1>1. r # None => Seen(r) \in Operation
  BY DEF Operation, Seen
<1>. QED BY <1>1 DEF InSlot

(* A channel has at most one request in hand.                              *)
LEMMA HandIs ==
    ASSUME NEW hit \in Operation \cup {None}, NEW miss \in Operation \cup {None}, NEW d,
           hit # None /\ miss # None /\ hit # miss => hit.dest # miss.dest
    PROVE  InSlot(miss, d) \o (IF hit = miss THEN <<>> ELSE InSlot(hit, d)) = Hand(hit, miss, d)
<1>1. InSlot(hit, d) \in Seq(Operation) /\ InSlot(miss, d) \in Seq(Operation)
  BY SlotTypes
<1>2. \A s \in Seq(Operation) : s \o <<>> = s /\ <<>> \o s = s
  OBVIOUS
<1>3. CASE hit = miss
  BY <1>1, <1>2, <1>3 DEF Hand
<1>4. CASE hit # miss /\ hit # None /\ hit.dest = d
  <2>1. InSlot(miss, d) = <<>>
    BY <1>4 DEF InSlot
  <2>. QED BY <1>1, <1>2, <1>4, <2>1 DEF Hand
<1>5. CASE hit # miss /\ ~(hit # None /\ hit.dest = d)
  <2>1. InSlot(hit, d) = <<>>
    BY <1>5 DEF InSlot
  <2>. QED BY <1>1, <1>2, <1>5, <2>1 DEF Hand
<1>. QED BY <1>3, <1>4, <1>5

(* The requests in hand, before and after a step.                          *)
LEMMA HandsAre ==
    ASSUME BInv, BInv', RequestsOK, RequestsOK', NEW d
    PROVE  /\ InHand(d) = Hand(hitRequest, missRequest, d) /\ InHand(d) \in Seq(Operation)
           /\ InHand(d)' = Hand(hitRequest', missRequest', d) /\ InHand(d)' \in Seq(Operation)
<1>1. InHand(d) = Hand(hitRequest, missRequest, d)
  <2>1. hitRequest \in Operation \cup {None} /\ missRequest \in Operation \cup {None}
    BY DEF BInv, TypeOK
  <2>2. hitRequest # None /\ missRequest # None /\ hitRequest # missRequest
          => hitRequest.dest # missRequest.dest
    BY DEF BInv, MissOK, RequestsOK
  <2>. QED BY <2>1, <2>2, HandIs DEF InHand
<1>2. InHand(d)' = Hand(hitRequest', missRequest', d)
  <2> DEFINE hit == hitRequest'
             miss == missRequest'
  <2>1. hit \in Operation \cup {None} /\ miss \in Operation \cup {None}
    BY DEF BInv, TypeOK
  <2>2. hit # None /\ miss # None /\ hit # miss => hit.dest # miss.dest
    BY DEF BInv, MissOK, RequestsOK
  <2>3. InHand(d)' = InSlot(miss, d) \o (IF hit = miss THEN <<>> ELSE InSlot(hit, d))
    BY DEF InHand
  <2> HIDE DEF hit, miss
  <2>4. InSlot(miss, d) \o (IF hit = miss THEN <<>> ELSE InSlot(hit, d)) = Hand(hit, miss, d)
    BY <2>1, <2>2, HandIs
  <2>5. InHand(d)' = Hand(hit, miss, d)
    BY <2>3, <2>4
  <2>. QED BY <2>5 DEF hit, miss
<1>3. /\ hitRequest \in Operation \cup {None} /\ missRequest \in Operation \cup {None}
      /\ hitRequest' \in Operation \cup {None} /\ missRequest' \in Operation \cup {None}
  BY DEF BInv, TypeOK
<1>. QED BY <1>1, <1>2, <1>3, SlotTypes DEF Hand

(* What is to be served is in hand, or waits.                              *)
LEMMA ToServeIs ==
    ASSUME BInv, BInv', RequestsOK, RequestsOK'
    PROVE  /\ ToServe = [d \in Dest |-> InHand(d) \o Waiting(d)]
           /\ ToServe' = [d \in Dest |-> InHand(d)' \o Waiting(d)']
           /\ \A d \in Dest : /\ InHand(d) \in Seq(Operation) /\ InHand(d)' \in Seq(Operation)
                              /\ Waiting(d) \in Seq(Operation)
                              /\ InHand(d) = Hand(hitRequest, missRequest, d)
                              /\ InHand(d)' = Hand(hitRequest', missRequest', d)
                              /\ ToServe[d] = InHand(d) \o Waiting(d)
                              /\ ToServe'[d] = InHand(d)' \o Waiting(d)'
<1>1. ToServe = [d \in Dest |-> InHand(d) \o Waiting(d)]
  BY DEF ToServe, Todo
<1>2. ToServe' = [d \in Dest |-> InHand(d)' \o Waiting(d)']
  BY DEF ToServe, Todo
<1>3. \A d \in Dest : Waiting(d) \in Seq(Operation)
  BY WaitingTypes DEF BInv
<1>. QED BY <1>1, <1>2, <1>3, HandsAre

(* Requests that change slots are still to be served.                      *)
LEMMA TodoKept ==
    ASSUME BInv, BInv', RequestsOK, RequestsOK', KeepsWaiting,
           \A d \in Dest : Hand(hitRequest', missRequest', d) = Hand(hitRequest, missRequest, d)
    PROVE  ToServe' = ToServe
<1>1. ToServe = [d \in Dest |-> InHand(d) \o Waiting(d)]
      /\ ToServe' = [d \in Dest |-> InHand(d)' \o Waiting(d)']
  BY ToServeIs
<1>2. \A d \in Dest : InHand(d)' = InHand(d) /\ Waiting(d)' = Waiting(d)
  BY HandsAre DEF KeepsWaiting
<1>. QED BY <1>1, <1>2

(* One request advances: those of the other channels do not.               *)
LEMMA TodoMoves ==
    ASSUME BInv, BInv', RequestsOK, RequestsOK', KeepsWaiting,
           NEW r \in Operation, NEW slot \in Operation \cup {None}, ~Served(r),
           Hand(hitRequest, missRequest, r.dest) = InSlot(r, r.dest),
           Hand(hitRequest', missRequest', r.dest) = InSlot(slot, r.dest),
           \A d \in Dest : d # r.dest =>
              Hand(hitRequest', missRequest', d) = Hand(hitRequest, missRequest, d),
           NEW last \in BOOLEAN,
           IF last THEN slot = None \/ Served(slot)
           ELSE slot # None /\ slot.dest = r.dest /\ ~Served(slot) /\ Seen(slot) = Iterated(Seen(r))
    PROVE  /\ r.dest \in Dest /\ ToServe[r.dest] # <<>> /\ ToServe[r.dest][1] = Seen(r)
           /\ Service!Progress(r.dest, last)
<1> DEFINE e == r.dest
<1>1. /\ e \in Dest /\ Seen(r) \in Operation /\ r # None
      /\ Waiting(e) \in Seq(Operation) /\ Waiting(e)' = Waiting(e)
      /\ ToServe[e] = InHand(e) \o Waiting(e)
  BY Fields, SlotTypes, ToServeIs DEF KeepsWaiting
<1>2. InHand(e) = <<Seen(r)>>
  BY <1>1, ToServeIs DEF InSlot
<1>3. InHand(e)' = IF last THEN <<>> ELSE <<Iterated(Seen(r))>>
  <2>1. InHand(e)' = InSlot(slot, e)
    BY <1>1, ToServeIs
  <2>. QED BY <2>1 DEF InSlot
<1>4. /\ ToServe[e] # <<>> /\ ToServe[e][1] = Seen(r) /\ Tail(ToServe[e]) = Waiting(e)
  <2>1. \A s \in Seq(Operation), x \in Operation :
          LET q == <<x>> \o s IN q # <<>> /\ q[1] = x /\ Tail(q) = s
    OBVIOUS
  <2>. QED BY <1>1, <1>2, <2>1
<1>5. \A s \in Seq(Operation) : <<>> \o s = s
  OBVIOUS
<1>6. /\ ToServe = [d \in Dest |-> InHand(d) \o Waiting(d)]
      /\ ToServe' = [d \in Dest |-> InHand(d)' \o Waiting(d)']
      /\ \A d \in Dest : d # e => InHand(d)' = InHand(d) /\ Waiting(d)' = Waiting(d)
  BY ToServeIs DEF KeepsWaiting
<1> HIDE DEF e
<1>7. ToServe' = [ToServe EXCEPT ![e] = InHand(e)' \o Waiting(e)']
  BY <1>1, <1>6
<1>8. InHand(e)' \o Waiting(e)' = IF last THEN Tail(ToServe[e])
                                  ELSE <<Iterated(ToServe[e][1])>> \o Tail(ToServe[e])
  BY <1>1, <1>3, <1>4, <1>5
<1>9. ToServe' = [ToServe EXCEPT ![e] = IF last THEN Tail(ToServe[e])
                                        ELSE <<Iterated(ToServe[e][1])>> \o Tail(ToServe[e])]
  BY <1>7, <1>8
<1>10. Service!Progress(e, last)
  BY <1>9 DEF Service!Progress, Service!Iterated, Iterated
<1>. QED BY <1>1, <1>4, <1>10 DEF e

(* The request in hand is served.                                          *)
LEMMA HitMoves ==
    ASSUME BInv, BInv', RequestsOK, RequestsOK', state = "REQUEST" \/ state = "FORWARD",
           KeepsWaiting, missRequest' = missRequest, ~Served(hitRequest),
           hitRequest' # None => hitRequest'.dest = hitRequest.dest,
           NEW last \in BOOLEAN,
           IF last THEN hitRequest' = None \/ Served(hitRequest')
           ELSE /\ hitRequest' # None /\ ~Served(hitRequest')
                /\ Seen(hitRequest') = Iterated(Seen(hitRequest))
    PROVE  /\ hitRequest.dest \in Dest /\ ToServe[hitRequest.dest] # <<>>
           /\ ToServe[hitRequest.dest][1] = Seen(hitRequest)
           /\ Service!Progress(hitRequest.dest, last)
<1>1. /\ hitRequest # None /\ hitRequest \in Operation /\ ~Parked
      /\ hitRequest' \in Operation \cup {None}
  BY DEF BInv, HitOK, RequestOK, Parked, TypeOK
<1>2. missRequest # None => missRequest.dest # hitRequest.dest
  BY <1>1 DEF RequestsOK
<1>3. /\ Hand(hitRequest, missRequest, hitRequest.dest) = InSlot(hitRequest, hitRequest.dest)
      /\ Hand(hitRequest', missRequest', hitRequest.dest) = InSlot(hitRequest', hitRequest.dest)
      /\ \A d \in Dest : d # hitRequest.dest =>
              Hand(hitRequest', missRequest', d) = Hand(hitRequest, missRequest, d)
  BY <1>1, <1>2 DEF Hand, InSlot
<1>4. IF last THEN hitRequest' = None \/ Served(hitRequest')
      ELSE /\ hitRequest' # None /\ hitRequest'.dest = hitRequest.dest /\ ~Served(hitRequest')
           /\ Seen(hitRequest') = Iterated(Seen(hitRequest))
  OBVIOUS
<1> DEFINE slot == hitRequest'
<1>5. slot \in Operation \cup {None}
  BY <1>1
<1>6. /\ Hand(hitRequest', missRequest', hitRequest.dest) = InSlot(slot, hitRequest.dest)
      /\ IF last THEN slot = None \/ Served(slot)
         ELSE /\ slot # None /\ slot.dest = hitRequest.dest /\ ~Served(slot)
              /\ Seen(slot) = Iterated(Seen(hitRequest))
  BY <1>3, <1>4
<1> HIDE DEF slot
<1>. QED BY <1>1, <1>3, <1>5, <1>6, TodoMoves

(* A request that was served is forgotten.                                 *)
LEMMA HitLeaves ==
    ASSUME BInv, BInv', RequestsOK, RequestsOK', state = "REQUEST", KeepsWaiting,
           missRequest' = missRequest, Served(hitRequest), hitRequest' = None
    PROVE  ToServe' = ToServe
<1>1. hitRequest # None /\ ~Parked
  BY DEF BInv, HitOK, Parked
<1>2. missRequest # None => missRequest.dest # hitRequest.dest
  BY <1>1 DEF RequestsOK
<1>3. \A d \in Dest : Hand(hitRequest', missRequest', d) = Hand(hitRequest, missRequest, d)
  BY <1>1, <1>2 DEF Hand, InSlot
<1>. QED BY <1>3, TodoKept

(* The slots exchange their request, or both hold it.                      *)
LEMMA Exchanged ==
    ASSUME BInv, BInv', RequestsOK, RequestsOK', KeepsWaiting,
           NEW r \in Operation,
           <<hitRequest, missRequest>> \in {<<r, None>>, <<None, r>>, <<r, r>>},
           <<hitRequest', missRequest'>> \in {<<r, None>>, <<None, r>>, <<r, r>>}
    PROVE  ToServe' = ToServe
<1>1. r # None
  BY Fields
<1>2. ASSUME NEW d \in Dest
      PROVE  Hand(hitRequest', missRequest', d) = Hand(hitRequest, missRequest, d)
  <2>1. Hand(hitRequest, missRequest, d) = InSlot(r, d)
    BY <1>1 DEF Hand, InSlot
  <2>2. Hand(hitRequest', missRequest', d) = InSlot(r, d)
    BY <1>1 DEF Hand, InSlot
  <2>. QED BY <2>1, <2>2
<1>. QED BY <1>2, TodoKept

-----------------------------------------------------------------------------
(* The memory behind the cache.                                            *)

KeepsMem == \A t \in Tag, o \in Off : MemWord(t, o)' = MemWord(t, o)

(* Memories that are the same in every word.                               *)
LEMMA MemKept ==
    /\ KeepsMem => Mem' = Mem
    /\ KeepsBelow => Below' = Below
<1>1. KeepsMem => Mem' = Mem
  BY DEF KeepsMem, Mem
<1>2. KeepsBelow => Below' = Below
  BY DEF KeepsBelow, Below
<1>. QED BY <1>1, <1>2

(* What does not touch the cache does not touch the memory.                *)
LEMMA CacheFrame ==
    ASSUME KeepsBelow, UNCHANGED <<hitRequest, missRequest, sram>>, Parked' <=> Parked
    PROVE  /\ KeepsMem /\ Link' = Link
           /\ CleanOK => CleanOK'
           /\ TagsOK => TagsOK'
           /\ RequestsOK => RequestsOK'
<1>1. UNCHANGED <<hitRequest, missRequest, metadata, data, reservations>>
  BY DEF sram
<1>2. \A t, o : /\ AboutToWrite(t, o)' <=> AboutToWrite(t, o)
                /\ Filled(t, o)' <=> Filled(t, o)
                /\ contains(t)' <=> contains(t)
  BY <1>1 DEF AboutToWrite, Filled, contains, Awaited, Claimed
<1>3. WordToWrite' = WordToWrite
  BY <1>1 DEF WordToWrite
<1>4. KeepsMem
  BY <1>1, <1>2, <1>3 DEF KeepsMem, MemWord, KeepsBelow
<1>5. Link' = Link
  BY <1>1, <1>2 DEF Link
<1>6. CleanOK => CleanOK'
  BY <1>1, <1>2 DEF CleanOK, KeepsBelow
<1>7. TagsOK => TagsOK'
  BY <1>1 DEF TagsOK
<1>8. RequestsOK => RequestsOK'
  BY <1>1 DEF RequestsOK, inCache, contains
<1>. QED BY <1>4, <1>5, <1>6, <1>7, <1>8

\* A request that has not decided what it writes, nor claimed its line.
Plain(r) == r # None => ~Decided(r) /\ ~r.fresh
KeepsAwaited == \A t : Awaited(t)' <=> Awaited(t)

(* Requests come and go, and the cache stays as it is.                     *)
LEMMA PlainFrame ==
    ASSUME KeepsBelow, UNCHANGED <<metadata, data>>, Plain(hitRequest), Plain(hitRequest'),
           KeepsAwaited
    PROVE  /\ KeepsMem
           /\ CleanOK => CleanOK'
           /\ TagsOK => TagsOK'
<1>1. \A t, o : /\ ~AboutToWrite(t, o) /\ ~AboutToWrite(t, o)'
                /\ ~Claimed(t, o) /\ ~Claimed(t, o)'
  BY DEF Plain, AboutToWrite, Claimed
<1>2. \A t, o : (Filled(t, o)' <=> Filled(t, o)) /\ (contains(t)' <=> contains(t))
  BY <1>1 DEF Filled, contains, KeepsAwaited
<1>3. KeepsMem
  BY <1>1, <1>2 DEF KeepsMem, MemWord, KeepsBelow
<1>4. CleanOK => CleanOK'
  BY <1>2 DEF CleanOK, KeepsBelow
<1>5. TagsOK => TagsOK'
  BY DEF TagsOK
<1>. QED BY <1>3, <1>4, <1>5

(* The reservation in force.                                               *)
LEMMA PlainLink ==
    /\ Plain(hitRequest) => Link = reservations
    /\ Plain(hitRequest') => Link' = reservations'
<1>1. Plain(hitRequest) => \A t, o : ~AboutToWrite(t, o)
  BY DEF Plain, AboutToWrite
<1>2. Plain(hitRequest') => \A t, o : ~AboutToWrite(t, o)'
  BY DEF Plain, AboutToWrite
<1>. QED BY <1>1, <1>2 DEF Link

(* A request that is passed on, or of which nothing has been done.         *)
LEMMA PlainHit ==
    ASSUME BInv, RequestsOK, hitRequest # None,
           needsForwarding(hitRequest) \/ (Untouched(hitRequest) /\ ~claimsLine(hitRequest))
    PROVE  Plain(hitRequest)
<1>1. needsForwarding(hitRequest) => Untouched(hitRequest)
  BY DEF BInv, HitOK
<1>2. ~hitRequest.fresh
  BY DEF RequestsOK, Announced
<1>. QED BY <1>1, <1>2 DEF Plain, Decided, Untouched

-----------------------------------------------------------------------------
(* The line that is asked for.                                             *)

Fetches(q) == \E k \in 1 .. Len(q) : q[k].kind = "FETCH_LINE"
NoWords(q, t) == \A k \in 1 .. Len(q) : ~IsWord(q[k], t)

\* A fetch follows the words of its line.
FetchesAfter(q, t) ==
    \A k \in 1 .. Len(q) : q[k].kind = "FETCH_LINE" =>
        q[k].tag = t /\ \A j \in k .. Len(q) : ~IsWord(q[j], t)

\* What has been asked for, and what has come.
Coming(q, tag, done, arrived, sent, words) ==
    \/ Fetches(q)
    \/ /\ Silent(q) /\ NoWords(q, tag)
       /\ \A k \in 1 .. Len(arrived) : arrived[k] = words[tag][done + k - 1]
       /\ \A k \in 1 .. Len(sent) : sent[k] = words[tag][done + Len(arrived) + k - 1]

(* The invariant in these terms.                                           *)
LEMMA FetchIs ==
    /\ FetchOK <=>
          /\ Fetches(outputReqQueue) => Fetching /\ FetchesAfter(outputReqQueue, FetchTag)
          /\ Fetching =>
                /\ state = "FLUSH" => flushAddress.tag # FetchTag
                /\ Coming(outputReqQueue, FetchTag, Refilled, inResponseQueue, returning, nextLevel)
                /\ state = "REFILL" => \A o \in 0 .. cacheLineCursor - 1 :
                                          data[LineOf[FetchTag]][o] = nextLevel[FetchTag][o]
    /\ FetchOK' <=>
          /\ Fetches(outputReqQueue') => Fetching' /\ FetchesAfter(outputReqQueue', FetchTag')
          /\ Fetching' =>
                /\ state' = "FLUSH" => flushAddress'.tag # FetchTag'
                /\ Coming(outputReqQueue', FetchTag', Refilled', inResponseQueue', returning', nextLevel')
                /\ state' = "REFILL" => \A o \in 0 .. cacheLineCursor' - 1 :
                                          data'[LineOf[FetchTag']][o] = nextLevel'[FetchTag'][o]
<1>1. FetchOK <=>
          /\ Fetches(outputReqQueue) => Fetching /\ FetchesAfter(outputReqQueue, FetchTag)
          /\ Fetching =>
                /\ state = "FLUSH" => flushAddress.tag # FetchTag
                /\ Coming(outputReqQueue, FetchTag, Refilled, inResponseQueue, returning, nextLevel)
                /\ state = "REFILL" => \A o \in 0 .. cacheLineCursor - 1 :
                                          data[LineOf[FetchTag]][o] = nextLevel[FetchTag][o]
  BY DEF FetchOK, Fetches, FetchesAfter, NoWords, Coming
<1>2. FetchOK' <=>
          /\ Fetches(outputReqQueue') => Fetching' /\ FetchesAfter(outputReqQueue', FetchTag')
          /\ Fetching' =>
                /\ state' = "FLUSH" => flushAddress'.tag # FetchTag'
                /\ Coming(outputReqQueue', FetchTag', Refilled', inResponseQueue', returning', nextLevel')
                /\ state' = "REFILL" => \A o \in 0 .. cacheLineCursor' - 1 :
                                          data'[LineOf[FetchTag']][o] = nextLevel'[FetchTag'][o]
  BY DEF FetchOK, Fetches, FetchesAfter, NoWords, Coming
<1>. QED BY <1>1, <1>2

(* What is sent does not come between.                                     *)
LEMMA FetchAppend ==
    ASSUME NEW q \in Seq(OutFlit), NEW f \in OutFlit, f.kind # "FETCH_LINE",
           NEW p, p = Append(q, f)
    PROVE  /\ Fetches(p) <=> Fetches(q)
           /\ \A t : ~IsWord(f, t) => /\ FetchesAfter(q, t) => FetchesAfter(p, t)
                                      /\ NoWords(q, t) => NoWords(p, t)
           /\ Asks(f) = 0 /\ Silent(q) => Silent(p)
<1>1. /\ Len(q) \in Nat /\ Len(p) = Len(q) + 1
      /\ p[Len(q) + 1] = f
      /\ \A k \in 1 .. Len(q) : p[k] = q[k]
  BY Appended
<1>2. \A k \in 1 .. Len(q) + 1 : k = Len(q) + 1 \/ k \in 1 .. Len(q)
  BY <1>1
<1>3. Fetches(p) <=> Fetches(q)
  <2>1. \A k \in 1 .. Len(q) : k \in 1 .. Len(q) + 1
    BY <1>1
  <2>. QED BY <1>1, <1>2, <2>1 DEF Fetches
<1>4. ASSUME NEW t, ~IsWord(f, t), FetchesAfter(q, t) PROVE FetchesAfter(p, t)
  <2>1. ASSUME NEW k \in 1 .. Len(p), p[k].kind = "FETCH_LINE"
        PROVE  p[k].tag = t /\ \A j \in k .. Len(p) : ~IsWord(p[j], t)
    <3>1. k \in 1 .. Len(q) /\ q[k] = p[k]
      BY <1>1, <1>2, <2>1
    <3>2. ASSUME NEW j \in k .. Len(q) + 1 PROVE ~IsWord(p[j], t)
      <4>1. CASE j = Len(q) + 1
        BY <1>1, <1>4, <4>1
      <4>2. CASE j \in k .. Len(q)
        <5>1. j \in 1 .. Len(q) /\ p[j] = q[j]
          BY <1>1, <3>1, <4>2
        <5>. QED BY <1>4, <2>1, <3>1, <4>2, <5>1 DEF FetchesAfter
      <4>3. j = Len(q) + 1 \/ j \in k .. Len(q)
        BY <1>1, <3>1
      <4>. QED BY <4>1, <4>2, <4>3
    <3>. QED BY <1>1, <1>4, <2>1, <3>1, <3>2 DEF FetchesAfter
  <2>. QED BY <2>1 DEF FetchesAfter
<1>5. ASSUME NEW t, ~IsWord(f, t), NoWords(q, t) PROVE NoWords(p, t)
  BY <1>1, <1>2, <1>5 DEF NoWords
<1>6. Asks(f) = 0 /\ Silent(q) => Silent(p)
  BY QueueAsks
<1>. QED BY <1>3, <1>4, <1>5, <1>6

\* A flit that is sent has nothing to do with the line that is asked for.
SendsOther ==
    \/ outputReqQueue' = outputReqQueue
    \/ \E f \in OutFlit : /\ outputReqQueue' = Append(outputReqQueue, f) /\ f.kind # "FETCH_LINE"
                          /\ Fetching => Asks(f) = 0 /\ ~IsWord(f, FetchTag)

(* A step that does not concern the line that is asked for.                *)
LEMMA FetchFrame ==
    ASSUME TypeOK, FetchOK, Fetching' <=> Fetching, Fetching => FetchTag' = FetchTag,
           UNCHANGED <<inResponseQueue, returning, nextLevel>>, SendsOther,
           Fetching => Refilled' = Refilled,
           Fetching /\ state' = "FLUSH" => flushAddress'.tag # FetchTag,
           Fetching /\ state' = "REFILL" =>
              cacheLineCursor' = 0 \/ (state = "REFILL" /\ UNCHANGED <<cacheLineCursor, data>>)
    PROVE  FetchOK'
<1>1. outputReqQueue \in Seq(OutFlit)
  BY DEF TypeOK
<1>2. /\ Fetches(outputReqQueue) => Fetching /\ FetchesAfter(outputReqQueue, FetchTag)
      /\ Fetching =>
            /\ Coming(outputReqQueue, FetchTag, Refilled, inResponseQueue, returning, nextLevel)
            /\ state = "REFILL" => \A o \in 0 .. cacheLineCursor - 1 :
                                      data[LineOf[FetchTag]][o] = nextLevel[FetchTag][o]
  BY FetchIs
<1>3. /\ Fetches(outputReqQueue') <=> Fetches(outputReqQueue)
      /\ Fetching => /\ FetchesAfter(outputReqQueue, FetchTag) => FetchesAfter(outputReqQueue', FetchTag)
                     /\ NoWords(outputReqQueue, FetchTag) => NoWords(outputReqQueue', FetchTag)
                     /\ Silent(outputReqQueue) => Silent(outputReqQueue')
  BY <1>1, FetchAppend DEF SendsOther
<1>4. Fetches(outputReqQueue') => Fetching' /\ FetchesAfter(outputReqQueue', FetchTag')
  BY <1>2, <1>3
<1>5. Fetching' => Coming(outputReqQueue', FetchTag', Refilled', inResponseQueue', returning', nextLevel')
  BY <1>2, <1>3 DEF Coming
<1>6. Fetching' /\ state' = "REFILL" => \A o \in 0 .. cacheLineCursor' - 1 :
                                          data'[LineOf[FetchTag']][o] = nextLevel'[FetchTag'][o]
  <2>1. CASE cacheLineCursor' = 0
    <3>1. 0 .. 0 - 1 = {}
      OBVIOUS
    <3>. QED BY <2>1, <3>1
  <2>2. CASE state = "REFILL" /\ UNCHANGED <<cacheLineCursor, data>>
    BY <1>2, <2>2
  <2>. QED BY <2>1, <2>2
<1>7. Fetching' /\ state' = "FLUSH" => flushAddress'.tag # FetchTag'
  OBVIOUS
<1>. QED BY <1>4, <1>5, <1>6, <1>7, FetchIs

-----------------------------------------------------------------------------
(* The requesters and the next level.                                      *)

\* The bank, as its requesters see it, does a step or none.
ServiceStep == Service!SNext \/ UNCHANGED <<Mem, Below, ToServe, output, Link>>

(* What surrounds the bank does not touch its cache.                       *)
LEMMA SurroundingsServe ==
    ASSUME RInv, UNCHANGED <<control, sram, cacheLineCursor, flushAddress, buffer, outputReqQueue,
                             nextLevel, storing>>,
           \A side \in Sides : PayloadOK(side)', FetchOK'
    PROVE  /\ RInv'
           /\ Mem' = Mem /\ Below' = Below /\ Link' = Link
           /\ \A d : Hand(hitRequest', missRequest', d) = Hand(hitRequest, missRequest, d)
<1>1. UNCHANGED <<state, hitRequest, missRequest, metadata, data, reservations,
                  missBuffer, readingFromMissBuffer>>
  BY DEF control, sram, buffer
<1>2. KeepsBelow
  BY <1>1, BelowFrame
<1>3. KeepsMem /\ Link' = Link /\ CleanOK' /\ TagsOK' /\ RequestsOK'
  <2>1. Parked' <=> Parked
    BY <1>1 DEF Parked
  <2>. QED BY <1>1, <1>2, <2>1, CacheFrame DEF RInv
<1>4. StoredOK'
  BY <1>1, StoredKept DEF RInv
<1>5. BufferedOK'
  BY <1>1 DEF RInv, BufferedOK, Buffered
<1>6. RInv'
  BY <1>3, <1>4, <1>5 DEF RInv
<1>. QED BY <1>1, <1>2, <1>3, <1>6, MemKept

(* The line that is asked for, when nothing comes.                         *)
LEMMA FetchSame ==
    ASSUME BInv, RInv, UNCHANGED <<control, sram, cacheLineCursor, flushAddress, outputReqQueue,
                                   nextLevel, inResponseQueue, returning>>
    PROVE  FetchOK'
<1>1. UNCHANGED <<state, hitRequest, missRequest, metadata, data>>
  BY DEF control, sram
<1>2. FetchOK /\ TypeOK
  BY DEF BInv, RInv
<1>3. (Fetching' <=> Fetching) /\ FetchTag' = FetchTag /\ Refilled' = Refilled
  BY <1>1 DEF Fetching, FetchTag, Refilled
<1>4. SendsOther
  BY DEF SendsOther
<1>5. Fetching /\ state' = "FLUSH" => flushAddress'.tag # FetchTag
  BY <1>1, <1>2 DEF FetchOK
<1>. QED BY <1>1, <1>2, <1>3, <1>4, <1>5, FetchFrame

(* The payload of a head is to follow.                                     *)
LEMMA HeadValues ==
    ASSUME NEW h \in HeadFlit, Len(h.data) = payloadFlits(h.op)
    PROVE  HeadOf(h) \in InFlit /\ HeadOf(h).head /\ HeadOf(h).req = h
           /\ h.data \in Seq(Val) /\ <<<<>>, HeadOf(h), h.data>> \in ValueSteps
<1>1. HeadOf(h) \in InFlit /\ HeadOf(h).head /\ HeadOf(h).req = h /\ h.data \in Seq(Val)
  BY DEF InFlit, HeadOf, HeadFlit
<1>2. <<>> \in Seq(Val)
  OBVIOUS
<1>. QED BY <1>1, <1>2 DEF ValueSteps

(* A flit of a payload is its next word.                                   *)
LEMMA NextValue ==
    ASSUME NEW values \in Seq(Val), values # <<>>, NEW eop \in BOOLEAN
    PROVE  /\ PayloadOf(Head(values), eop) \in InFlit /\ ~PayloadOf(Head(values), eop).head
           /\ Tail(values) \in Seq(Val)
           /\ <<values, PayloadOf(Head(values), eop), Tail(values)>> \in ValueSteps
<1> DEFINE f == PayloadOf(Head(values), eop)
<1>1. Head(values) \in Val /\ Tail(values) \in Seq(Val)
  BY Taken
<1>2. f \in InFlit /\ ~f.head /\ f.val = Head(values)
  BY <1>1 DEF InFlit, PayloadOf
<1> HIDE DEF f
<1>3. <<values, f, Tail(values)>> \in ValueSteps
  BY <1>1, <1>2 DEF ValueSteps
<1>. QED BY <1>1, <1>2, <1>3 DEF f

(* A request arrives: it is accepted.                                      *)
LEMMA SendHeadServes ==
    ASSUME BInv, BInv', RInv, NEW h \in Requests, SendHead(h)
    PROVE  RInv' /\ ServiceStep
<1>1. /\ h \in HeadFlit /\ Len(h.data) = payloadFlits(h.op)
  BY BankAssumption DEF Requests
<1>2. UNCHANGED <<control, sram, flushing, buffer, inResponseQueue, outputReqQueue, output, beyond>>
  BY DEF SendHead
<1> DEFINE side == SideOf(h)
           f == HeadOf(h)
<1>3. /\ side \in Sides /\ sending[side] = <<>> /\ sending'[side] = h.data
      /\ \A s \in Sides : Queue(s)' = IF s = side THEN Append(Queue(s), f) ELSE Queue(s)
      /\ \A s \in Sides : s # side => sending'[s] = sending[s]
  <2>1. sending \in [core : Seq(Val), remote : Seq(Val)]
    BY DEF BInv, TypeOK
  <2>2. CASE IsL1(h)
    <3>1. side = "core" /\ sending.core = <<>> /\ inputQueue' = Append(inputQueue, f)
          /\ sending' = [sending EXCEPT !.core = h.data] /\ requestSig' = requestSig
      BY <2>2 DEF SendHead, SideOf
    <3>. QED BY <2>1, <3>1 DEF Sides, Queue
  <2>3. CASE ~IsL1(h)
    <3>1. side = "remote" /\ sending.remote = <<>> /\ requestSig = <<>> /\ requestSig' = <<f>>
          /\ sending' = [sending EXCEPT !.remote = h.data] /\ inputQueue' = inputQueue
      BY <2>3 DEF SendHead, SideOf
    <3>2. <<f>> = Append(<<>>, f)
      OBVIOUS
    <3>3. requestSig' = Append(requestSig, f)
      BY <3>1, <3>2
    <3> HIDE DEF f
    <3>. QED BY <2>1, <3>1, <3>3 DEF Sides, Queue
  <2>. QED BY <2>2, <2>3
<1>4. f \in InFlit /\ f.head /\ f.req = h /\ <<<<>>, f, h.data>> \in ValueSteps /\ h.data \in Seq(Val)
  BY <1>1, HeadValues
<1> HIDE DEF side, f
<1>5. \A s \in Sides : PayloadOK(s)'
  <2>1. ASSUME NEW s \in Sides PROVE PayloadOK(s)'
    <3>1. PayloadOK(s) /\ Queue(s) \in Seq(InFlit)
      BY InputTypes DEF RInv, BInv
    <3>2. CASE s = side
      <4>1. <<sending[s], f, sending'[s]>> \in ValueSteps /\ sending'[s] \in Seq(Val)
        BY <1>3, <1>4, <3>2
      <4>2. Queue(s)' = Append(Queue(s), f)
        BY <1>3, <3>2
      <4>. QED BY <1>2, <1>4, <3>1, <4>1, <4>2, PayloadMore
    <3>3. CASE s # side
      <4>1. Queue(s)' = Queue(s) /\ sending'[s] = sending[s]
        BY <1>3, <3>3
      <4>. QED BY <1>2, <3>1, <4>1, PayloadFrame
    <3>. QED BY <3>2, <3>3
  <2>. QED BY <2>1
<1>6. /\ RInv' /\ Mem' = Mem /\ Below' = Below /\ Link' = Link
      /\ \A d : Hand(hitRequest', missRequest', d) = Hand(hitRequest, missRequest, d)
  <2>1. UNCHANGED <<cacheLineCursor, flushAddress, nextLevel, storing, returning>>
    BY <1>2 DEF flushing, beyond
  <2>2. FetchOK'
    BY <1>2, <2>1, FetchSame
  <2>. QED BY <1>2, <1>5, <2>1, <2>2, SurroundingsServe
<1>7. h.dest \in Dest /\ decodeMemoryRequest(h) \in Operation
  BY <1>1 DEF HeadFlit, Operation, decodeMemoryRequest
<1>8. \A d \in Dest : Waiting(d)' = IF d = h.dest THEN Append(Waiting(d), decodeMemoryRequest(h))
                                   ELSE Waiting(d)
  <2>1. f.head => SideOf(f.req) = side
    BY <1>4 DEF side
  <2>2. \A d \in Dest : Waiting(d)' = Collected(Waiting(d), d, f)
    BY <1>3, <1>4, <2>1, WaitingMore
  <2>. QED BY <1>4, <2>2 DEF Collected, Adds
<1>9. ToServe' = [ToServe EXCEPT ![h.dest] = Append(ToServe[h.dest], decodeMemoryRequest(h))]
  <2> DEFINE r == decodeMemoryRequest(h)
  <2>1. RequestsOK /\ RequestsOK'
    BY <1>6 DEF RInv
  <2>2. /\ ToServe = [d \in Dest |-> InHand(d) \o Waiting(d)]
        /\ ToServe' = [d \in Dest |-> InHand(d)' \o Waiting(d)']
        /\ \A d \in Dest : /\ InHand(d) \in Seq(Operation) /\ Waiting(d) \in Seq(Operation)
                           /\ InHand(d)' = InHand(d)
                           /\ ToServe[d] = InHand(d) \o Waiting(d)
    BY <1>6, <2>1, ToServeIs
  <2>3. \A a, b \in Seq(Operation) : a \o Append(b, r) = Append(a \o b, r)
    BY <1>7
  <2> HIDE DEF r
  <2>4. ASSUME NEW d \in Dest
        PROVE  InHand(d)' \o Waiting(d)' = IF d = h.dest THEN Append(ToServe[d], r) ELSE ToServe[d]
    BY <1>8, <2>2, <2>3, <2>4 DEF r
  <2>5. ToServe' = [d \in Dest |-> IF d = h.dest THEN Append(ToServe[d], r) ELSE ToServe[d]]
    BY <2>2, <2>4
  <2>6. DOMAIN ToServe = Dest
    BY <2>2
  <2>7. ToServe' = [ToServe EXCEPT ![h.dest] = Append(ToServe[h.dest], r)]
    BY <1>7, <2>2, <2>5, <2>6
  <2>. QED BY <2>7 DEF r
<1>10. Service!Accept(h)
  BY <1>2, <1>6, <1>9 DEF Service!Accept, Service!decodeMemoryRequest, decodeMemoryRequest
<1>. QED BY <1>6, <1>10 DEF ServiceStep, Service!SNext

(* Payload arrives: nobody notices.                                        *)
LEMMA SendPayloadServes ==
    ASSUME BInv, BInv', RInv, SendCorePayload \/ SendRemotePayload
    PROVE  RInv' /\ ServiceStep
<1>1. UNCHANGED <<control, sram, flushing, buffer, inResponseQueue, outputReqQueue, output, beyond>>
  BY DEF SendCorePayload, SendRemotePayload
<1>2. PICK side \in Sides, f \in InFlit :
        /\ ~f.head
        /\ <<sending[side], f, sending'[side]>> \in ValueSteps /\ sending'[side] \in Seq(Val)
        /\ \A s \in Sides : Queue(s)' = IF s = side THEN Append(Queue(s), f) ELSE Queue(s)
        /\ \A s \in Sides : s # side => sending'[s] = sending[s]
  <2>1. sending \in [core : Seq(Val), remote : Seq(Val)]
    BY DEF BInv, TypeOK
  <2>2. CASE SendCorePayload
    <3> DEFINE g == PayloadOf(Head(sending.core), Len(sending.core) = 1)
    <3>1. sending.core # <<>> /\ inputQueue' = Append(inputQueue, g)
          /\ sending' = [sending EXCEPT !.core = Tail(sending.core)] /\ requestSig' = requestSig
      BY <2>2 DEF SendCorePayload
    <3>2. g \in InFlit /\ ~g.head /\ Tail(sending.core) \in Seq(Val)
          /\ <<sending.core, g, Tail(sending.core)>> \in ValueSteps
      BY <2>1, <3>1, NextValue
    <3> HIDE DEF g
    <3>3. "core" \in Sides /\ sending'["core"] = Tail(sending["core"])
          /\ sending'["remote"] = sending["remote"]
          /\ Queue("core")' = Append(Queue("core"), g) /\ Queue("remote")' = Queue("remote")
      BY <2>1, <3>1 DEF Sides, Queue
    <3>. QED BY <3>2, <3>3 DEF Sides
  <2>3. CASE SendRemotePayload
    <3> DEFINE g == PayloadOf(Head(sending.remote), Len(sending.remote) = 1)
    <3>1. sending.remote # <<>> /\ requestSig = <<>> /\ requestSig' = <<g>>
          /\ sending' = [sending EXCEPT !.remote = Tail(sending.remote)] /\ inputQueue' = inputQueue
      BY <2>3 DEF SendRemotePayload
    <3>2. g \in InFlit /\ ~g.head /\ Tail(sending.remote) \in Seq(Val)
          /\ <<sending.remote, g, Tail(sending.remote)>> \in ValueSteps
      BY <2>1, <3>1, NextValue
    <3> HIDE DEF g
    <3>3. <<g>> = Append(<<>>, g)
      OBVIOUS
    <3>4. "remote" \in Sides /\ sending'["remote"] = Tail(sending["remote"])
          /\ sending'["core"] = sending["core"]
          /\ Queue("remote")' = Append(Queue("remote"), g) /\ Queue("core")' = Queue("core")
      BY <2>1, <3>1, <3>3 DEF Sides, Queue
    <3>. QED BY <3>2, <3>4 DEF Sides
  <2>. QED BY <2>2, <2>3
<1>3. \A s \in Sides : PayloadOK(s)'
  <2>1. ASSUME NEW s \in Sides PROVE PayloadOK(s)'
    <3>1. PayloadOK(s) /\ Queue(s) \in Seq(InFlit)
      BY InputTypes DEF RInv, BInv
    <3>2. CASE s = side
      <4>1. Queue(s)' = Append(Queue(s), f)
        BY <1>2, <3>2
      <4>. QED BY <1>1, <1>2, <3>1, <3>2, <4>1, PayloadMore
    <3>3. CASE s # side
      <4>1. Queue(s)' = Queue(s) /\ sending'[s] = sending[s]
        BY <1>2, <3>3
      <4>. QED BY <1>1, <3>1, <4>1, PayloadFrame
    <3>. QED BY <3>2, <3>3
  <2>. QED BY <2>1
<1>4. /\ RInv' /\ Mem' = Mem /\ Below' = Below /\ Link' = Link
      /\ \A d : Hand(hitRequest', missRequest', d) = Hand(hitRequest, missRequest, d)
  <2>1. UNCHANGED <<cacheLineCursor, flushAddress, nextLevel, storing, returning>>
    BY <1>1 DEF flushing, beyond
  <2>2. FetchOK'
    BY <1>1, <2>1, FetchSame
  <2>. QED BY <1>1, <1>3, <2>1, <2>2, SurroundingsServe
<1>5. KeepsWaiting
  <2>1. \A d \in Dest : Waiting(d)' = Collected(Waiting(d), d, f)
    BY <1>2, WaitingMore
  <2>. QED BY <1>2, <2>1 DEF Collected, Adds, KeepsWaiting
<1>6. ToServe' = ToServe
  BY <1>4, <1>5, TodoKept DEF RInv
<1>. QED BY <1>1, <1>4, <1>6 DEF ServiceStep

(* A result is taken.                                                      *)
LEMMA TakeResultServes ==
    ASSUME BInv, BInv', RInv, NEW q \in OutQueue, TakeResult(q)
    PROVE  RInv' /\ ServiceStep
<1>1. /\ UNCHANGED <<control, sram, flushing, buffer, inputs, inResponseQueue,
                     outputReqQueue, sending, workload, beyond>>
      /\ output[q] # <<>> /\ output' = [output EXCEPT ![q] = Tail(output[q])]
  BY DEF TakeResult
<1>2. UNCHANGED <<cacheLineCursor, flushAddress, nextLevel, storing, returning>>
  BY <1>1 DEF flushing, beyond
<1>3. \A s \in Sides : PayloadOK(s)'
  <2>1. ASSUME NEW s \in Sides PROVE PayloadOK(s)'
    <3>1. PayloadOK(s) /\ Queue(s)' = Queue(s) /\ sending'[s] = sending[s]
      BY <1>1 DEF RInv, inputs, Queue
    <3>. QED BY <1>1, <3>1, PayloadFrame
  <2>. QED BY <2>1
<1>4. /\ RInv' /\ Mem' = Mem /\ Below' = Below /\ Link' = Link
      /\ \A d : Hand(hitRequest', missRequest', d) = Hand(hitRequest, missRequest, d)
  <2>1. FetchOK'
    BY <1>1, <1>2, FetchSame
  <2>. QED BY <1>1, <1>2, <1>3, <2>1, SurroundingsServe
<1>5. ToServe' = ToServe
  BY <1>1, <1>4, TodoKept, WaitingKept DEF RInv
<1>6. Service!Take(q)
  BY <1>1, <1>4, <1>5 DEF Service!Take
<1>. QED BY <1>4, <1>6 DEF ServiceStep, Service!SNext

(* A word that arrives is the next that was sent.                          *)
LEMMA ComingArrives ==
    ASSUME NEW q, NEW t, NEW done \in Nat, NEW arrived \in Seq(Val), NEW sent \in Seq(Val),
           sent # <<>>, NEW words, Coming(q, t, done, arrived, sent, words)
    PROVE  Coming(q, t, done, Append(arrived, Head(sent)), Tail(sent), words)
<1> DEFINE a == Append(arrived, Head(sent))
<1>1. /\ Head(sent) \in Val /\ Head(sent) = sent[1]
      /\ Len(sent) \in Nat \ {0} /\ Len(Tail(sent)) = Len(sent) - 1
      /\ \A k \in 1 .. Len(sent) - 1 : Tail(sent)[k] = sent[k + 1]
  BY Taken
<1>2. /\ Len(arrived) \in Nat /\ Len(a) = Len(arrived) + 1 /\ a[Len(arrived) + 1] = sent[1]
      /\ \A k \in 1 .. Len(arrived) : a[k] = arrived[k]
  BY <1>1, Appended
<1> HIDE DEF a
<1>3. CASE Fetches(q)
  BY <1>3 DEF Coming
<1>4. CASE /\ Silent(q) /\ NoWords(q, t)
           /\ \A k \in 1 .. Len(arrived) : arrived[k] = words[t][done + k - 1]
           /\ \A k \in 1 .. Len(sent) : sent[k] = words[t][done + Len(arrived) + k - 1]
  <2>1. ASSUME NEW k \in 1 .. Len(a) PROVE a[k] = words[t][done + k - 1]
    <3>1. CASE k = Len(arrived) + 1
      <4>1. sent[1] = words[t][done + Len(arrived) + 1 - 1]
        BY <1>1, <1>4
      <4>2. done + Len(arrived) + 1 - 1 = done + k - 1
        BY <1>2, <3>1
      <4>. QED BY <1>2, <3>1, <4>1, <4>2
    <3>2. CASE k \in 1 .. Len(arrived)
      BY <1>2, <1>4, <3>2
    <3>. QED BY <1>2, <3>1, <3>2
  <2>2. ASSUME NEW k \in 1 .. Len(Tail(sent))
        PROVE  Tail(sent)[k] = words[t][done + Len(a) + k - 1]
    <3>1. k + 1 \in 1 .. Len(sent) /\ Tail(sent)[k] = sent[k + 1]
      BY <1>1
    <3>2. done + Len(arrived) + (k + 1) - 1 = done + Len(a) + k - 1
      BY <1>2, <3>1
    <3>. QED BY <1>4, <3>1, <3>2
  <2>. QED BY <1>4, <2>1, <2>2 DEF Coming, a
<1>. QED BY <1>3, <1>4 DEF Coming

(* A word that is read is the next of the line.                            *)
LEMMA ComingRead ==
    ASSUME NEW q, NEW t, NEW done \in Nat, NEW arrived \in Seq(Val), NEW sent \in Seq(Val),
           arrived # <<>>, NEW words, Silent(q), ~Fetches(q),
           Coming(q, t, done, arrived, sent, words)
    PROVE  /\ Head(arrived) = words[t][done] /\ NoWords(q, t)
           /\ Coming(q, t, done + 1, Tail(arrived), sent, words)
<1>1. /\ Head(arrived) = arrived[1]
      /\ Len(arrived) \in Nat \ {0} /\ Len(Tail(arrived)) = Len(arrived) - 1
      /\ \A k \in 1 .. Len(arrived) - 1 : Tail(arrived)[k] = arrived[k + 1]
  BY Taken
<1>2. /\ Silent(q) /\ NoWords(q, t)
      /\ \A k \in 1 .. Len(arrived) : arrived[k] = words[t][done + k - 1]
      /\ \A k \in 1 .. Len(sent) : sent[k] = words[t][done + Len(arrived) + k - 1]
  BY DEF Coming
<1>3. Head(arrived) = words[t][done]
  <2>1. arrived[1] = words[t][done + 1 - 1] /\ done + 1 - 1 = done
    BY <1>1, <1>2
  <2>. QED BY <1>1, <2>1
<1>4. ASSUME NEW k \in 1 .. Len(Tail(arrived)) PROVE Tail(arrived)[k] = words[t][(done + 1) + k - 1]
  <2>1. k + 1 \in 1 .. Len(arrived) /\ Tail(arrived)[k] = arrived[k + 1]
        /\ done + (k + 1) - 1 = (done + 1) + k - 1
    BY <1>1
  <2>. QED BY <1>2, <2>1
<1>5. ASSUME NEW k \in 1 .. Len(sent)
      PROVE  sent[k] = words[t][(done + 1) + Len(Tail(arrived)) + k - 1]
  <2>1. done + Len(arrived) + k - 1 = (done + 1) + Len(Tail(arrived)) + k - 1
    BY <1>1, Empties
  <2>. QED BY <1>2, <2>1
<1>. QED BY <1>2, <1>3, <1>4, <1>5 DEF Coming

(* Inputs that are left alone.                                             *)
LEMMA PayloadsLeft ==
    ASSUME RInv, UNCHANGED <<inputs, sending>>,
           \A side \in Sides, values \in Seq(Val) : DueValues(side, values) => DueValues(side, values)'
    PROVE  \A side \in Sides : PayloadOK(side)'
<1>1. ASSUME NEW side \in Sides PROVE PayloadOK(side)'
  <2>1. PayloadOK(side) /\ Queue(side)' = Queue(side) /\ sending'[side] = sending[side]
    BY DEF RInv, inputs, Queue
  <2>2. \A values \in Seq(Val) : DueValues(side, values) => DueValues(side, values)'
    OBVIOUS
  <2>. QED BY <2>1, <2>2, PayloadKept
<1>. QED BY <1>1

(* ... while the requests stay as they are.                                *)
LEMMA PayloadsFrame ==
    ASSUME RInv, UNCHANGED <<control, buffer, inputs, sending>>
    PROVE  \A side \in Sides : PayloadOK(side)'
BY PayloadsLeft, DueFrame

(* Nothing that the requesters see has changed.                            *)
LEMMA Stutters ==
    ASSUME BInv, BInv', RInv, RInv', KeepsMem, KeepsBelow, KeepsWaiting, Link' = Link,
           UNCHANGED <<output, hitRequest, missRequest>>
    PROVE  ServiceStep
<1>1. \A d : Hand(hitRequest', missRequest', d) = Hand(hitRequest, missRequest, d)
  OBVIOUS
<1>2. ToServe' = ToServe
  BY <1>1, TodoKept DEF RInv
<1>. QED BY <1>2, MemKept DEF ServiceStep

(* A word of the next level reaches the bank.                              *)
LEMMA ReceiveResponseServes ==
    ASSUME BInv, BInv', RInv, ReceiveResponse
    PROVE  RInv' /\ ServiceStep
<1>1. /\ returning # <<>> /\ inResponseQueue' = Append(inResponseQueue, Head(returning))
      /\ returning' = Tail(returning)
      /\ UNCHANGED <<control, sram, flushing, buffer, inputs, outputReqQueue, output,
                     sending, workload, nextLevel, storing>>
  BY DEF ReceiveResponse
<1>2. UNCHANGED <<cacheLineCursor, flushAddress>>
  BY <1>1 DEF flushing
<1>3. FetchOK'
  <2>1. UNCHANGED <<state, hitRequest, missRequest, data>>
    BY <1>1 DEF control, sram
  <2>2. (Fetching' <=> Fetching) /\ FetchTag' = FetchTag /\ Refilled' = Refilled
    BY <1>2, <2>1 DEF Fetching, FetchTag, Refilled
  <2>3. inResponseQueue \in Seq(Val) /\ returning \in Seq(Val) /\ Refilled \in Nat
    BY DEF BInv, TypeOK, Refilled
  <2>4. Fetching =>
          Coming(outputReqQueue, FetchTag, Refilled, inResponseQueue, returning, nextLevel)
    BY FetchIs DEF RInv
  <2>5. Fetching =>
          Coming(outputReqQueue, FetchTag, Refilled, inResponseQueue', returning', nextLevel)
    BY <1>1, <2>3, <2>4, ComingArrives
  <2>. QED BY <1>1, <1>2, <2>1, <2>2, <2>5, FetchIs DEF RInv
<1>4. RInv' /\ Mem' = Mem /\ Below' = Below /\ Link' = Link
      /\ \A d : Hand(hitRequest', missRequest', d) = Hand(hitRequest, missRequest, d)
  BY <1>1, <1>2, <1>3, PayloadsFrame, SurroundingsServe
<1>5. ToServe' = ToServe
  BY <1>1, <1>4, TodoKept, WaitingKept DEF RInv
<1>. QED BY <1>1, <1>4, <1>5 DEF ServiceStep

(* The payload of the request that waits is moved aside.                   *)
LEMMA CopyToMissBufferServes ==
    ASSUME BInv, BInv', RInv, CopyToMissBuffer
    PROVE  RInv' /\ ServiceStep
<1> DEFINE r == missRequest
           own == SideOf(r)
           flit == Input(r)[1]
<1>1. /\ copyingToMissBuffer /\ r # None /\ PayloadWaiting(Input(r))
      /\ missBuffer' = Append(missBuffer, flit) /\ copyingToMissBuffer' = ~flit.eop
      /\ Consume(r)
      /\ UNCHANGED <<control, sram, flushing, readingFromMissBuffer, inResponseQueue,
                     outputReqQueue, output, sending, workload, beyond>>
  BY DEF CopyToMissBuffer
<1>2. UNCHANGED <<state, hitRequest, missRequest, metadata, data, reservations,
                  cacheLineCursor, flushAddress, nextLevel, storing, returning>>
  BY <1>1 DEF control, sram, flushing, beyond
<1>3. /\ TypeOK /\ missBuffer = <<>> /\ ~readingFromMissBuffer
      /\ RequestOK(r) /\ Untouched(r) /\ Remaining(r) = 1
  <2>1. ~readingFromMissBuffer
    BY <1>1 DEF BInv, ReadingOK
  <2>2. missBuffer \in Seq(InFlit) /\ Len(missBuffer) = 0
    BY <1>1, <2>1 DEF BInv, TypeOK, BufferOK
  <2>. QED BY <1>1, <2>1, <2>2, Empties DEF BInv, CopyingOK, MissOK
<1>4. payloadFlits(r.op) = 1
  BY <1>3, Untaken
<1>5. /\ Input(r) # <<>> /\ ~flit.head /\ Input(r) = Queue(own) /\ own \in Sides
      /\ Queue(own) \in Seq(InFlit) /\ flit \in InFlit /\ flit = Queue(own)[1]
      /\ \A s \in Sides : Queue(s)' = IF s = own THEN Tail(Queue(s)) ELSE Queue(s)
  BY <1>1, <1>3, Consumed DEF PayloadWaiting
<1> HIDE DEF flit
<1>6. CopyOwns(own) /\ \A s \in Sides : s # own => ~CopyOwns(s)
  BY <1>1 DEF CopyOwns
<1>7. ~HitOwns(own) /\ \A s : HitOwns(s)' <=> HitOwns(s)
  <2>1. ~HitOwns(own)
    BY <1>5, <1>6 DEF BInv, InputOK
  <2>2. \A s : HitOwns(s)' <=> HitOwns(s)
    BY <1>1, <1>2 DEF HitOwns, Parked, SideOf, IsL1
  <2>. QED BY <2>1, <2>2
<1>8. flit.eop
  <2>1. PICK n \in Nat : Stream(InputSteps(own), Queue(own), n, Len(sending[own])) /\ Due(own, n)
    BY <1>5 DEF BInv, InputOK
  <2>2. n = 1
    BY <1>6, <2>1 DEF Due
  <2>3. PICK l \in Nat : <<n, Queue(own)[1], l>> \in InputSteps(own)
    <3> HIDE DEF own
    <3>. QED BY <1>5, <2>1, StreamTail
  <2>4. n = l + 1 /\ (flit.eop <=> l = 0)
    <3>1. <<n, flit, l>> \in InputSteps(own)
      BY <1>5, <2>3
    <3>. QED BY <1>5, <3>1, InputStep
  <2>. QED BY <2>2, <2>3, <2>4
<1>9. ~copyingToMissBuffer' /\ \A s : ~CopyOwns(s)'
  BY <1>1, <1>8 DEF CopyOwns
<1>10. flit.val = r.data[1]
  <2>1. PICK values \in Seq(Val) :
          /\ StreamOf(Seq(Val), ValueSteps, Queue(own), values, sending[own])
          /\ DueValues(own, values)
    BY <1>5 DEF RInv, PayloadOK
  <2>2. IsLeft(values, r)
    BY <1>6, <2>1 DEF DueValues
  <2>3. PICK l : <<values, Queue(own)[1], l>> \in ValueSteps
    <3> HIDE DEF own
    <3>. QED BY <1>5, <2>1, StreamOfTail
  <2>4. <<values, flit, l>> \in ValueSteps
    BY <1>5, <2>3
  <2>5. values # <<>> /\ flit.val = Head(values)
    BY <1>5, <2>4, ValueStep
  <2>6. Head(values) = values[1]
    BY <2>5, Taken
  <2>. QED BY <1>3, <1>4, <2>2, <2>5, <2>6 DEF IsLeft
<1>11. BufferedOK'
  <2>1. missBuffer' = <<flit>>
    BY <1>1, <1>3
  <2>2. missBuffer'[1] = flit
    BY <2>1
  <2>. QED BY <1>1, <1>2, <1>3, <1>10, <2>2 DEF BufferedOK, Buffered
<1>12. \A s \in Sides : PayloadOK(s)'
  <2>1. ASSUME NEW s \in Sides PROVE PayloadOK(s)'
    <3>1. PayloadOK(s) /\ sending'[s] = sending[s] /\ Queue(s) \in Seq(InFlit)
      BY <1>1, <1>3, InputTypes DEF RInv
    <3>2. CASE s = own
      <4>1. \A l : DueValues(s, l)'
        BY <1>7, <1>9, <3>2 DEF DueValues
      <4>2. Queue(s) # <<>> /\ Queue(s)' = Tail(Queue(s))
        BY <1>5, <3>2
      <4>. QED BY <3>1, <4>1, <4>2, PayloadLess
    <3>3. CASE s # own
      <4>1. \A values : DueValues(s, values) => DueValues(s, values)'
        BY <1>2, <1>7, <1>9 DEF DueValues
      <4>2. Queue(s)' = Queue(s)
        BY <1>5, <3>3
      <4>. QED BY <3>1, <4>1, <4>2, PayloadKept
    <3>. QED BY <3>2, <3>3
  <2>. QED BY <2>1
<1>13. KeepsBelow /\ StoredOK' /\ FetchOK'
  <2>1. KeepsBelow
    BY <1>1, <1>2, BelowFrame
  <2>2. StoredOK'
    BY <1>1, <1>2, StoredKept DEF RInv
  <2>3. FetchOK'
    BY <1>1, <1>2, FetchSame
  <2>. QED BY <2>1, <2>2, <2>3
<1>14. KeepsMem /\ Link' = Link /\ CleanOK' /\ TagsOK' /\ RequestsOK'
  <2>1. Parked' <=> Parked
    BY <1>2 DEF Parked
  <2>. QED BY <1>1, <1>2, <1>13, <2>1, CacheFrame DEF RInv
<1>15. KeepsWaiting
  BY <1>1, <1>3, <1>5, WaitingTaken DEF flit
<1>16. RInv'
  BY <1>11, <1>12, <1>13, <1>14 DEF RInv
<1>. QED BY <1>1, <1>2, <1>13, <1>14, <1>15, <1>16, Stutters

(* A flit leaves: only the line that is asked for may change.              *)
LEMMA TailFetches ==
    ASSUME NEW q \in Seq(OutFlit), q # <<>>, NEW t
    PROVE  /\ q[1].kind # "FETCH_LINE" => (Fetches(Tail(q)) <=> Fetches(q))
           /\ q[1].kind = "FETCH_LINE" => Fetches(q)
           /\ FetchesAfter(q, t) => FetchesAfter(Tail(q), t)
           /\ NoWords(q, t) => ~IsWord(q[1], t) /\ NoWords(Tail(q), t)
           /\ q[1].kind = "FETCH_LINE" /\ FetchesAfter(q, t) => q[1].tag = t /\ NoWords(Tail(q), t)
<1> DEFINE p == Tail(q)
<1>1. /\ Len(q) \in Nat \ {0} /\ Len(p) = Len(q) - 1
      /\ \A k \in 1 .. Len(q) - 1 : p[k] = q[k + 1]
  BY Taken
<1> HIDE DEF p
<1>2. \A k \in 1 .. Len(p) : k + 1 \in 1 .. Len(q) /\ p[k] = q[k + 1]
  BY <1>1
<1>3. \A k \in 1 .. Len(q) : k = 1 \/ (k - 1 \in 1 .. Len(p) /\ p[k - 1] = q[k])
  <2>1. ASSUME NEW k \in 1 .. Len(q), k # 1 PROVE k - 1 \in 1 .. Len(p) /\ p[k - 1] = q[k]
    <3>1. k - 1 \in 1 .. Len(q) - 1 /\ (k - 1) + 1 = k
      BY <1>1, <2>1
    <3>. QED BY <1>1, <3>1
  <2>. QED BY <2>1
<1>4. 1 \in 1 .. Len(q)
  BY <1>1
<1>5. q[1].kind # "FETCH_LINE" => (Fetches(p) <=> Fetches(q))
  <2>1. Fetches(p) => Fetches(q)
    BY <1>2 DEF Fetches
  <2>2. ASSUME q[1].kind # "FETCH_LINE", NEW k \in 1 .. Len(q), q[k].kind = "FETCH_LINE"
        PROVE  Fetches(p)
    <3>1. k - 1 \in 1 .. Len(p) /\ p[k - 1] = q[k]
      BY <1>3, <2>2
    <3>. QED BY <2>2, <3>1 DEF Fetches
  <2>. QED BY <2>1, <2>2 DEF Fetches
<1>6. q[1].kind = "FETCH_LINE" => Fetches(q)
  BY <1>4 DEF Fetches
<1>7. ASSUME FetchesAfter(q, t) PROVE FetchesAfter(p, t)
  <2>1. ASSUME NEW k \in 1 .. Len(p), p[k].kind = "FETCH_LINE"
        PROVE  p[k].tag = t /\ \A j \in k .. Len(p) : ~IsWord(p[j], t)
    <3>1. /\ k + 1 \in 1 .. Len(q) /\ q[k + 1].kind = "FETCH_LINE" /\ p[k] = q[k + 1]
      BY <1>2, <2>1
    <3>2. q[k + 1].tag = t /\ \A j \in k + 1 .. Len(q) : ~IsWord(q[j], t)
      BY <1>7, <3>1 DEF FetchesAfter
    <3>3. ASSUME NEW j \in k .. Len(p) PROVE ~IsWord(p[j], t)
      <4>1. j \in 1 .. Len(p) /\ j + 1 \in k + 1 .. Len(q)
        BY <1>1
      <4>. QED BY <1>2, <3>2, <4>1
    <3>. QED BY <3>1, <3>2, <3>3
  <2>. QED BY <2>1 DEF FetchesAfter
<1>8. NoWords(q, t) => ~IsWord(q[1], t) /\ NoWords(p, t)
  BY <1>2, <1>4 DEF NoWords
<1>9. ASSUME q[1].kind = "FETCH_LINE", FetchesAfter(q, t)
      PROVE  q[1].tag = t /\ NoWords(p, t)
  <2>1. q[1].tag = t /\ \A j \in 1 .. Len(q) : ~IsWord(q[j], t)
    BY <1>4, <1>9 DEF FetchesAfter
  <2>. QED BY <1>2, <2>1 DEF NoWords
<1>. QED BY <1>5, <1>6, <1>7, <1>8, <1>9 DEF p

(* A queue that asks for nothing has no fetch in it.                       *)
LEMMA SilentFetches ==
    ASSUME NEW q, Silent(q)
    PROVE  ~Fetches(q)
BY LineAssumption DEF Silent, Fetches, Asks

(* While a fetch waits in the queue, nothing of the line has come.         *)
LEMMA Unanswered ==
    ASSUME BInv, FetchOK, Fetches(outputReqQueue)
    PROVE  /\ Fetching /\ inResponseQueue = <<>> /\ returning = <<>> /\ Refilled = 0
           /\ AsksOnce(outputReqQueue, WordsPerLine)
<1>1. Fetching
  BY FetchIs
<1>2. /\ ResponsesOK /\ TypeOK /\ ~Silent(outputReqQueue)
      /\ Wanted > 0 /\ inResponseQueue = <<>> /\ returning = <<>> /\ AsksOnce(outputReqQueue, Wanted)
  BY SilentFetches DEF BInv, ResponsesOK
<1>3. PICK k \in 1 .. Len(outputReqQueue) : Asks(outputReqQueue[k]) = WordsPerLine
  BY DEF Fetches, Asks
<1>4. Wanted = WordsPerLine
  BY <1>2, <1>3, LineAssumption DEF AsksOnce
<1>5. Refilled = 0
  <2>1. CASE state = "REFILL"
    <3>1. missRequest # None
      BY <2>1 DEF BInv, RefillOK
    <3>2. Wanted = WordsPerLine - cacheLineCursor
      BY <1>1, <2>1, <3>1 DEF Wanted, Fetching
    <3>3. cacheLineCursor \in Nat
      BY <1>2 DEF TypeOK
    <3>. QED BY <1>4, <2>1, <3>2, <3>3, LineAssumption DEF Refilled
  <2>2. CASE state # "REFILL"
    BY <2>2 DEF Refilled
  <2>. QED BY <2>1, <2>2
<1>. QED BY <1>1, <1>2, <1>4, <1>5

(* The line that is asked for is one.                                      *)
LEMMA FetchTags ==
    ASSUME BInv, Fetching
    PROVE  FetchTag \in Tag
<1>1. missRequest = None => hitRequest # None
  BY DEF BInv, HitOK, Fetching
<1>2. hitRequest \in Operation \cup {None} /\ missRequest \in Operation \cup {None}
  BY DEF BInv, TypeOK
<1>. QED BY <1>1, <1>2, Fields DEF FetchTag

(* A flit leaves, and the next level answers it.                           *)
LEMMA SendRequestFetches ==
    ASSUME BInv, BInv', RInv, SendRequest
    PROVE  FetchOK'
<1> DEFINE q == outputReqQueue
           f == q[1]
<1>1. /\ q # <<>> /\ q \in Seq(OutFlit) /\ q' = Tail(q) /\ f = Head(q) /\ f \in OutFlit
      /\ UNCHANGED <<control, sram, cacheLineCursor, flushAddress, inResponseQueue>>
  BY Taken DEF SendRequest, BInv, TypeOK
<1>2. UNCHANGED <<state, hitRequest, missRequest, data>>
  BY <1>1 DEF control, sram
<1>3. (Fetching' <=> Fetching) /\ FetchTag' = FetchTag /\ Refilled' = Refilled
  BY <1>1, <1>2 DEF Fetching, FetchTag, Refilled
<1>4. f.kind \in {"FETCH_LINE", "STORE_LINE", "WORD", "FORWARD", "FORWARDED_WORD"}
  BY <1>1, OutFlits
<1>5. /\ Fetches(q) => Fetching /\ FetchesAfter(q, FetchTag)
      /\ Fetching =>
            /\ state = "FLUSH" => flushAddress.tag # FetchTag
            /\ Coming(q, FetchTag, Refilled, inResponseQueue, returning, nextLevel)
            /\ state = "REFILL" => \A o \in 0 .. cacheLineCursor - 1 :
                                      data[LineOf[FetchTag]][o] = nextLevel[FetchTag][o]
  BY FetchIs DEF RInv
<1>6. /\ f.kind # "FETCH_LINE" => (Fetches(Tail(q)) <=> Fetches(q))
      /\ f.kind = "FETCH_LINE" => Fetches(q)
      /\ FetchesAfter(q, FetchTag) => FetchesAfter(Tail(q), FetchTag)
      /\ NoWords(q, FetchTag) => ~IsWord(f, FetchTag) /\ NoWords(Tail(q), FetchTag)
      /\ f.kind = "FETCH_LINE" /\ FetchesAfter(q, FetchTag) =>
            f.tag = FetchTag /\ NoWords(Tail(q), FetchTag)
  BY <1>1, TailFetches
<1>7. Fetches(q) => /\ inResponseQueue = <<>> /\ returning = <<>> /\ Refilled = 0
                    /\ AsksOnce(q, WordsPerLine)
  BY Unanswered DEF RInv
<1>8. CASE f.kind = "FETCH_LINE"
  <2>1. /\ returning' = returning \o [i \in 1 .. WordsPerLine |-> nextLevel[f.tag][i - 1]]
        /\ nextLevel' = nextLevel
    BY <1>1, <1>8 DEF SendRequest
  <2>2. Fetching /\ f.tag = FetchTag /\ NoWords(Tail(q), FetchTag)
    BY <1>5, <1>6, <1>8
  <2>3. Silent(Tail(q))
    <3>1. Asks(f) = WordsPerLine /\ WordsPerLine # 0
      BY <1>8, LineAssumption DEF Asks
    <3>. QED BY <1>1, <1>6, <1>7, <1>8, <3>1, TailAsks
  <2>4. /\ Len(returning') = WordsPerLine
        /\ \A k \in 1 .. WordsPerLine : returning'[k] = nextLevel[FetchTag][k - 1]
    <3> DEFINE words == [i \in 1 .. WordsPerLine |-> nextLevel[FetchTag][i - 1]]
    <3>1. words \in Seq(Val) /\ Len(words) = WordsPerLine
      <4>1. FetchTag \in Tag /\ nextLevel \in [Tag -> [Off -> Val]] /\ WordsPerLine \in Nat
        BY <1>1, <1>8, <2>2, OutFlits, LineAssumption DEF BInv, TypeOK
      <4>2. \A i \in 1 .. WordsPerLine : i - 1 \in Off
        BY <4>1 DEF Off
      <4>3. words \in [1 .. WordsPerLine -> Val]
        BY <4>1, <4>2
      <4>. QED BY <4>1, <4>3
    <3>2. returning' = <<>> \o words
      BY <1>6, <1>7, <1>8, <2>1, <2>2
    <3>3. \A s \in Seq(Val) : <<>> \o s = s
      OBVIOUS
    <3>4. returning' = words
      <4> HIDE DEF words
      <4>. QED BY <3>1, <3>2, <3>3
    <3>. QED BY <3>1, <3>4
  <2>5. Coming(q', FetchTag, Refilled, inResponseQueue', returning', nextLevel')
    <3>1. /\ Silent(q') /\ NoWords(q', FetchTag) /\ Refilled = 0 /\ inResponseQueue' = <<>>
          /\ nextLevel' = nextLevel
      BY <1>1, <1>6, <1>7, <1>8, <2>1, <2>2, <2>3
    <3>2. Len(<<>>) = 0 /\ \A k \in 1 .. Len(<<>>) : FALSE
      OBVIOUS
    <3>3. \A k \in 1 .. Len(returning') :
              returning'[k] = nextLevel'[FetchTag][0 + 0 + k - 1]
      <4>1. ASSUME NEW k \in 1 .. WordsPerLine PROVE 0 + 0 + k - 1 = k - 1
        BY LineAssumption
      <4>. QED BY <2>4, <3>1, <4>1
    <3>. QED BY <3>1, <3>2, <3>3 DEF Coming
  <2>6. ~Fetches(q')
    BY <1>1, <2>3, SilentFetches
  <2>7. state' = "REFILL" => \A o \in 0 .. cacheLineCursor' - 1 :
                                data'[LineOf[FetchTag']][o] = nextLevel'[FetchTag'][o]
    <3>1. state = "REFILL" => cacheLineCursor = 0
      BY <1>6, <1>7, <1>8 DEF Refilled
    <3>2. 0 .. 0 - 1 = {}
      OBVIOUS
    <3>. QED BY <1>1, <1>2, <3>1, <3>2
  <2>8. state' = "FLUSH" => flushAddress'.tag # FetchTag'
    BY <1>1, <1>2, <1>3, <1>5, <2>2
  <2>. QED BY <1>3, <2>5, <2>6, <2>7, <2>8, FetchIs
<1>9. CASE f.kind # "FETCH_LINE"
  <2>1. /\ f.kind = "WORD" => /\ nextLevel' = [nextLevel EXCEPT ![storing.tag][storing.off] = f.val]
                              /\ returning' = returning
        /\ f.kind # "WORD" => nextLevel' = nextLevel
        /\ f.kind \in {"STORE_LINE", "FORWARDED_WORD"} => returning' = returning
        /\ f.kind = "FORWARD" => \E v \in Val : returning' = returning \o [i \in 1 .. Asks(f) |-> v]
    <3>1. CASE f.kind = "STORE_LINE"
      BY <1>1, <3>1 DEF SendRequest
    <3>2. CASE f.kind = "WORD"
      BY <1>1, <3>2 DEF SendRequest
    <3>3. CASE f.kind = "FORWARD"
      BY <1>1, <3>3 DEF SendRequest, Asks, Results
    <3>4. CASE f.kind = "FORWARDED_WORD"
      BY <1>1, <3>4 DEF SendRequest, beyond
    <3>. QED BY <1>4, <1>9, <3>1, <3>2, <3>3, <3>4
  <2>2. (Fetches(q') <=> Fetches(q)) /\ (Fetches(q') => FetchesAfter(q', FetchTag))
    BY <1>1, <1>5, <1>6, <1>9
  <2>3. CASE Fetching /\ ~Fetches(q)
    <3>1. /\ Silent(q) /\ NoWords(q, FetchTag)
          /\ \A k \in 1 .. Len(inResponseQueue) : inResponseQueue[k] = nextLevel[FetchTag][Refilled + k - 1]
          /\ \A k \in 1 .. Len(returning) :
                returning[k] = nextLevel[FetchTag][Refilled + Len(inResponseQueue) + k - 1]
      BY <1>5, <2>3 DEF Coming
    <3>2. Asks(f) = 0 /\ Silent(Tail(q)) /\ ~IsWord(f, FetchTag) /\ NoWords(Tail(q), FetchTag)
      BY <1>1, <1>6, <3>1, TailAsks
    <3>3. nextLevel'[FetchTag] = nextLevel[FetchTag]
      <4>1. CASE f.kind = "WORD"
        <5>1. f.tag = storing.tag
          BY <1>1, <4>1, WordStored DEF RInv
        <5>2. FetchTag # storing.tag
          BY <3>2, <4>1, <5>1 DEF IsWord
        <5>3. FetchTag \in Tag /\ nextLevel \in [Tag -> [Off -> Val]]
          BY <2>3, FetchTags DEF BInv, TypeOK
        <5>. QED BY <2>1, <4>1, <5>2, <5>3
      <4>. QED BY <2>1, <4>1
    <3>4. returning' = returning
      <4>1. CASE f.kind = "FORWARD"
        <5>1. PICK v \in Val : returning' = returning \o [i \in 1 .. 0 |-> v]
          BY <2>1, <3>2, <4>1
        <5>2. returning \o [i \in 1 .. 0 |-> v] = returning
          <6>1. returning \in Seq(Val)
            BY DEF BInv, TypeOK
          <6>2. [i \in 1 .. 0 |-> v] = <<>>
            OBVIOUS
          <6>3. \A s \in Seq(Val) : s \o <<>> = s
            OBVIOUS
          <6>. QED BY <6>1, <6>2, <6>3
        <5>. QED BY <5>1, <5>2
      <4>. QED BY <1>4, <1>9, <2>1, <4>1
    <3>5. Coming(q', FetchTag, Refilled, inResponseQueue', returning', nextLevel')
      BY <1>1, <3>1, <3>2, <3>3, <3>4 DEF Coming
    <3>. QED BY <1>1, <1>2, <1>3, <1>5, <2>2, <2>3, <3>3, <3>5, FetchIs
  <2>4. CASE Fetching /\ Fetches(q)
    <3>1. Coming(q', FetchTag, Refilled, inResponseQueue', returning', nextLevel')
      BY <2>2, <2>4 DEF Coming
    <3>2. state' = "REFILL" => \A o \in 0 .. cacheLineCursor' - 1 :
                                  data'[LineOf[FetchTag']][o] = nextLevel'[FetchTag'][o]
      <4>1. state = "REFILL" => cacheLineCursor = 0
        BY <1>7, <2>4 DEF Refilled
      <4>2. 0 .. 0 - 1 = {}
        OBVIOUS
      <4>. QED BY <1>1, <1>2, <4>1, <4>2
    <3>. QED BY <1>1, <1>2, <1>3, <1>5, <2>2, <2>4, <3>1, <3>2, FetchIs
  <2>5. CASE ~Fetching
    BY <1>3, <1>5, <2>2, <2>5, FetchIs
  <2>. QED BY <2>3, <2>4, <2>5
<1>. QED BY <1>8, <1>9

(* ... which the requesters do not see.                                    *)
LEMMA SendRequestServes ==
    ASSUME BInv, BInv', RInv, SendRequest
    PROVE  RInv' /\ ServiceStep
<1>1. UNCHANGED <<control, sram, buffer, inputs, output, sending>>
  BY DEF SendRequest
<1>2. UNCHANGED <<state, hitRequest, missRequest>>
  BY <1>1 DEF control
<1>3. StoredOK' /\ KeepsBelow
  BY StoredArrives DEF RInv
<1>4. KeepsMem /\ Link' = Link /\ CleanOK' /\ TagsOK' /\ RequestsOK'
  <2>1. Parked' <=> Parked
    BY <1>2 DEF Parked
  <2>. QED BY <1>1, <1>2, <1>3, <2>1, CacheFrame DEF RInv
<1>5. \A side \in Sides : PayloadOK(side)'
  BY <1>1, PayloadsFrame
<1>6. BufferedOK'
  BY <1>1, <1>2 DEF RInv, BufferedOK, Buffered, buffer
<1>7. RInv'
  BY <1>3, <1>4, <1>5, <1>6, SendRequestFetches DEF RInv
<1>. QED BY <1>1, <1>2, <1>3, <1>4, <1>7, WaitingKept, Stutters

(* The bank turns to a response.                                           *)
LEMMA StartRefillServes ==
    ASSUME BInv, BInv', RInv, StartRefill
    PROVE  RInv' /\ ServiceStep
<1>1. /\ state = "IDLE" /\ responseAvailable /\ state' = "REFILL" /\ cacheLineCursor' = 0
      /\ UNCHANGED <<previousState, hitRequest, missRequest, sram, flushAddress,
                     pendingFlushes, buffer, inputs, inResponseQueue,
                     outputReqQueue, output, sending, workload, beyond>>
  BY DEF StartRefill
<1>2. UNCHANGED <<metadata, data, reservations, missBuffer, copyingToMissBuffer,
                  readingFromMissBuffer, nextLevel, storing, returning>>
  BY <1>1 DEF sram, buffer, beyond
<1>3. hitRequest = None /\ missRequest # None
  BY <1>1 DEF BInv, HitOK, ResponsesOK, responseAvailable
<1>4. KeepsBelow /\ StoredOK'
  BY <1>1, <1>2, BelowKept, StoredKept DEF RInv, BInv
<1>5. KeepsMem /\ Link' = Link /\ CleanOK' /\ TagsOK' /\ RequestsOK'
  <2>1. Parked' <=> Parked
    BY <1>1 DEF Parked
  <2>. QED BY <1>1, <1>4, <2>1, CacheFrame DEF RInv
<1>6. \A side \in Sides : PayloadOK(side)'
  <2>1. \A side \in Sides, values \in Seq(Val) : DueValues(side, values) => DueValues(side, values)'
    BY <1>1, <1>2, <1>3 DEF DueValues, CopyOwns, HitOwns, SideOf, IsL1
  <2>. QED BY <1>1, <2>1, PayloadsLeft
<1>7. BufferedOK'
  BY <1>1, <1>2 DEF RInv, BufferedOK, Buffered
<1>8. FetchOK'
  <2>1. FetchOK /\ TypeOK
    BY DEF RInv, BInv
  <2>2. (Fetching' <=> Fetching) /\ FetchTag' = FetchTag /\ Refilled' = Refilled
    BY <1>1, <1>3 DEF Fetching, FetchTag, Refilled
  <2>3. SendsOther
    BY <1>1 DEF SendsOther
  <2>. QED BY <1>1, <1>2, <2>1, <2>2, <2>3, FetchFrame
<1>9. RInv'
  BY <1>4, <1>5, <1>6, <1>7, <1>8 DEF RInv
<1>. QED BY <1>1, <1>4, <1>5, <1>9, WaitingKept, Stutters

(* A word of a line that is flushed is sent.                               *)
LEMMA FlushServes ==
    ASSUME BInv, BInv', RInv, Flush
    PROVE  RInv' /\ ServiceStep
<1> DEFINE last == cacheLineCursor + 1 >= WordsPerLine
           f == [kind |-> "WORD", tag |-> flushAddress.tag, off |-> cacheLineCursor,
                 val |-> data[flushAddress.line][cacheLineCursor], eop |-> last]
<1>1. /\ state = "FLUSH" /\ canSendRequest /\ sendRequests(<<f>>)
      /\ state' = IF last THEN previousState ELSE state
      /\ UNCHANGED <<previousState, hitRequest, missRequest, sram, flushAddress,
                     pendingFlushes, buffer, inputs, inResponseQueue, output,
                     sending, workload, beyond>>
  BY DEF Flush
<1>2. UNCHANGED <<metadata, data, reservations, missBuffer, copyingToMissBuffer,
                  readingFromMissBuffer, nextLevel, storing, returning>>
  BY <1>1 DEF sram, buffer, beyond
<1>3. /\ TypeOK /\ flushAddress # None
      /\ previousState = (IF missRequest # None THEN "ALLOCATE" ELSE "REQUEST")
  BY <1>1 DEF BInv, FlushOK
<1>4. (Parked' <=> Parked) /\ state' # "FORWARD" /\ state' # "REFILL"
  BY <1>1, <1>3 DEF Parked
<1>5. f \in OutFlit /\ f.kind = "WORD" /\ f.tag = flushAddress.tag
  <2>1. /\ cacheLineCursor \in Off /\ WordsPerLine \in Nat
        /\ flushAddress.tag \in Tag /\ flushAddress.line \in Line
    <3>1. flushAddress \in [line : Line, tag : Tag] \cup {None} /\ cacheLineCursor \in Nat
      BY <1>3 DEF TypeOK
    <3>2. cacheLineCursor < WordsPerLine
      BY <1>1 DEF BInv, FlushOK
    <3>. QED BY <1>3, <3>1, <3>2, LineAssumption DEF Off
  <2>2. data[flushAddress.line][cacheLineCursor] \in Val
    BY <1>3, <2>1 DEF TypeOK
  <2>3. last \in BOOLEAN
    BY <2>1 DEF Off
  <2>. QED BY <2>1, <2>2, <2>3, SentFlits
<1> HIDE DEF f, last
<1>6. outputReqQueue' = Append(outputReqQueue, f)
  BY <1>1, <1>3, <1>5, Sent
<1>7. KeepsBelow /\ StoredOK'
  BY BelowFlush, StoredFlush DEF RInv
<1>8. KeepsMem /\ Link' = Link /\ CleanOK' /\ TagsOK' /\ RequestsOK'
  BY <1>1, <1>4, <1>7, CacheFrame DEF RInv
<1>9. \A side \in Sides : PayloadOK(side)'
  <2>1. \A side \in Sides, values \in Seq(Val) : DueValues(side, values) => DueValues(side, values)'
    BY <1>1, <1>2, <1>4 DEF DueValues, CopyOwns, HitOwns, SideOf, IsL1, IsLeft, Remaining
  <2>. QED BY <1>1, <2>1, PayloadsLeft
<1>10. BufferedOK'
  BY <1>1, <1>2 DEF RInv, BufferedOK, Buffered
<1>11. FetchOK'
  <2>1. FetchOK /\ (Fetching /\ state = "FLUSH" => flushAddress.tag # FetchTag)
    BY FetchIs DEF RInv
  <2>2. (Fetching' <=> Fetching) /\ FetchTag' = FetchTag /\ Refilled' = Refilled
    BY <1>1, <1>3, <1>4 DEF Fetching, FetchTag, Refilled
  <2>3. SendsOther
    BY <1>1, <1>5, <1>6, <2>1 DEF SendsOther, Asks, IsWord
  <2>. QED BY <1>1, <1>2, <1>3, <1>4, <2>1, <2>2, <2>3, FetchFrame
<1>12. RInv'
  BY <1>7, <1>8, <1>9, <1>10, <1>11 DEF RInv
<1>. QED BY <1>1, <1>7, <1>8, <1>12, WaitingKept, Stutters

(* The line has been made room for.                                        *)
LEMMA AllocatedServes ==
    ASSUME BInv, BInv', RInv, Allocated
    PROVE  RInv' /\ ServiceStep
<1>1. /\ state = "ALLOCATE" /\ inCache(hitRequest) /\ state' = "IDLE" /\ hitRequest' = None
      /\ UNCHANGED <<previousState, missRequest, sram, flushing, buffer, inputs,
                     inResponseQueue, outputReqQueue, output, sending, workload, beyond>>
  BY DEF Allocated
<1>2. UNCHANGED <<metadata, data, reservations, missBuffer, copyingToMissBuffer, cacheLineCursor,
                  readingFromMissBuffer, nextLevel, storing, returning, flushAddress>>
  BY <1>1 DEF sram, buffer, beyond, flushing
<1>3. /\ hitRequest # None /\ RequestOK(hitRequest) /\ ~claimsLine(hitRequest)
      /\ Untouched(hitRequest) /\ missRequest # None
      /\ hitRequest = missRequest /\ Parked
  <2>1. /\ hitRequest # None /\ RequestOK(hitRequest) /\ ~claimsLine(hitRequest)
        /\ Untouched(hitRequest) /\ missRequest # None
    BY <1>1 DEF BInv, HitOK
  <2>. QED BY <1>1, <2>1 DEF BInv, MissOK, Parked
<1>4. KeepsBelow /\ StoredOK'
  BY <1>1, <1>2, BelowKept, StoredKept DEF RInv, BInv
<1>5. Plain(hitRequest) /\ Plain(hitRequest')
  BY <1>1, <1>3, PlainHit DEF Plain, RInv
<1>6. KeepsMem /\ CleanOK' /\ TagsOK'
  <2>1. KeepsAwaited
    BY <1>1 DEF KeepsAwaited, Awaited
  <2>. QED BY <1>2, <1>4, <1>5, <2>1, PlainFrame DEF RInv
<1>7. Link' = Link
  BY <1>2, <1>5, PlainLink
<1>8. RequestsOK'
  BY <1>1 DEF RInv, RequestsOK
<1>9. \A side \in Sides : PayloadOK(side)'
  <2>1. \A side \in Sides, values \in Seq(Val) : DueValues(side, values) => DueValues(side, values)'
    BY <1>1, <1>2, <1>3 DEF DueValues, CopyOwns, HitOwns, SideOf, IsL1
  <2>. QED BY <1>1, <2>1, PayloadsLeft
<1>10. BufferedOK'
  <2>1. ~readingFromMissBuffer
    BY <1>1 DEF BInv, ReadingOK
  <2>. QED BY <1>1, <1>2, <2>1 DEF RInv, BufferedOK, Buffered
<1>11. FetchOK'
  <2>1. FetchOK /\ TypeOK
    BY DEF RInv, BInv
  <2>2. (Fetching' <=> Fetching) /\ FetchTag' = FetchTag /\ Refilled' = Refilled
    BY <1>1, <1>3 DEF Fetching, FetchTag, Refilled
  <2>3. SendsOther
    BY <1>1 DEF SendsOther
  <2>. QED BY <1>1, <1>2, <2>1, <2>2, <2>3, FetchFrame
<1>12. RInv'
  BY <1>4, <1>6, <1>8, <1>9, <1>10, <1>11 DEF RInv
<1>13. ToServe' = ToServe
  <2>1. missRequest \in Operation
    BY <1>3 DEF BInv, TypeOK
  <2>2. /\ <<hitRequest, missRequest>> \in {<<missRequest, None>>, <<None, missRequest>>, <<missRequest, missRequest>>}
        /\ <<hitRequest', missRequest'>> \in {<<missRequest, None>>, <<None, missRequest>>, <<missRequest, missRequest>>}
    BY <1>1, <1>3
  <2>. QED BY <1>1, <1>12, <2>1, <2>2, WaitingKept, Exchanged DEF RInv
<1>. QED BY <1>1, <1>4, <1>6, <1>7, <1>12, <1>13, MemKept DEF ServiceStep

-----------------------------------------------------------------------------
(* Requests that are taken up, passed on or done.                          *)

(* What is still waiting after a step is a sequence of requests.           *)
LEMMA WaitingAfter ==
    ASSUME BInv', NEW d
    PROVE  Waiting(d)' \in Seq(Operation)
<1> DEFINE a == inputQueue'
           b == requestSig'
<1>1. a \in Seq(InFlit) /\ b \in Seq(InFlit)
  BY DEF BInv, TypeOK
<1>2. Waiting(d)' = InQueue(a, d) \o InQueue(b, d)
  BY DEF Waiting
<1> HIDE DEF a, b
<1>3. \A q \in Seq(InFlit) : InQueue(q, d) \in Seq(Operation)
  <2>1. ASSUME NEW q \in Seq(InFlit) PROVE InQueue(q, d) \in Seq(Operation)
    <3>1. PICK s \in Seq(Operation) : StreamOf(Seq(Operation), CollectSteps(d), q, <<>>, s)
      BY CollectExists
    <3>. QED BY <3>1, InQueueIs
  <2>. QED BY <2>1
<1>. QED BY <1>1, <1>2, <1>3

(* A request is seen as it is before anything has been done of it.         *)
LEMMA SeenFresh ==
    ASSUME NEW r \in Operation, r.saved = None, r.eop = FALSE, r.fresh = FALSE
    PROVE  Seen(r) = r
BY DEF Seen, Operation

(* A request of which nothing has been done is not served.                 *)
LEMMA Unserved ==
    ASSUME NEW r, RequestOK(r), Untouched(r)
    PROVE  ~Served(r) /\ ~Decided(r) /\ r.done < totalIterations(r)
<1>1. r \in Operation
  BY DEF RequestOK
<1>2. totalIterations(r) \in Nat \ {0}
  BY <1>1, Totals
<1>. QED BY <1>2 DEF Untouched, Served, Decided

(* While a request is served, what is below and the requests that wait     *)
(* stay as they are.                                                       *)
LEMMA ServedFrame ==
    ASSUME BInv, RInv, state = "REQUEST", state' \in {"REQUEST", "IDLE"},
           UNCHANGED <<missRequest, outputReqQueue, inResponseQueue, beyond>>
    PROVE  FetchOK' /\ StoredOK' /\ KeepsBelow /\ KeepsAwaited
<1>1. UNCHANGED <<nextLevel, storing, returning>> /\ TypeOK /\ FetchOK /\ StoredOK
  BY DEF beyond, BInv, RInv
<1>2. KeepsBelow /\ StoredOK'
  BY <1>1, BelowKept, StoredKept
<1>3. (Fetching' <=> Fetching) /\ (Fetching => FetchTag' = FetchTag) /\ Refilled' = Refilled
  BY DEF Fetching, FetchTag, Refilled
<1>4. SendsOther
  BY DEF SendsOther
<1>5. FetchOK'
  BY <1>1, <1>3, <1>4, FetchFrame
<1>6. KeepsAwaited
  BY DEF KeepsAwaited, Awaited
<1>. QED BY <1>2, <1>5, <1>6

(* A request is taken up.                                                  *)
LEMMA StartRequestServes ==
    ASSUME BInv, BInv', RInv, StartRequest, hitUnderMiss
    PROVE  RInv' /\ ServiceStep
<1>1. /\ state = "IDLE" /\ requestAvailable /\ mayStart(peekRequest)
      /\ Consume(peekRequest) /\ hitRequest' = peekRequest /\ state' = "REQUEST"
      /\ UNCHANGED <<previousState, missRequest, sram, flushing, buffer,
                     inResponseQueue, outputReqQueue, output, sending, workload, beyond>>
  BY DEF StartRequest
<1>2. UNCHANGED <<metadata, data, reservations, missBuffer, copyingToMissBuffer, cacheLineCursor,
                  readingFromMissBuffer, nextLevel, storing, returning, flushAddress>>
  BY <1>1 DEF sram, buffer, beyond, flushing
<1>3. PICK h \in HeadFlit :
        /\ peekRequest = decodeMemoryRequest(h)
        /\ Input(peekRequest) # <<>> /\ Input(peekRequest)[1].head
        /\ Input(peekRequest)[1].req = h
  BY <1>1, Peeked
<1> DEFINE r == peekRequest
           s == SideOf(r)
<1>4. /\ RequestOK(r) /\ Untouched(r) /\ Remaining(r) = payloadFlits(h.op)
      /\ r \in Operation /\ r # None /\ ~r.fresh /\ Seen(r) = r
      /\ r.op = h.op /\ r.data = h.data /\ r.dest = h.dest
  <2>1. r = decodeMemoryRequest(h)
    BY <1>3
  <2>2. ~r.fresh /\ r.data = h.data /\ Seen(r) = r
    <3> DEFINE x == decodeMemoryRequest(h)
    <3>1. x.saved = None /\ x.eop = FALSE /\ x.fresh = FALSE /\ x.data = h.data
      BY DEF decodeMemoryRequest
    <3>2. x \in Operation
      BY Decoded DEF RequestOK
    <3> HIDE DEF x
    <3>3. Seen(x) = x
      BY <3>1, <3>2, SeenFresh
    <3>. QED BY <2>1, <3>1, <3>3 DEF x
  <2>. QED BY <2>1, <2>2, Decoded, Fields DEF RequestOK
<1>5. /\ s \in Sides /\ Queue(s) # <<>> /\ Queue(s)[1].head /\ Queue(s)[1].req = h
      /\ Queue(s) \in Seq(InFlit)
      /\ \A side \in Sides : Queue(side)' = IF side = s THEN Tail(Queue(side)) ELSE Queue(side)
  <2>1. TypeOK
    BY DEF BInv
  <2>2. /\ Input(r) = Queue(s) /\ s \in Sides /\ Input(r) \in Seq(InFlit)
        /\ \A side \in Sides : Queue(side)' = IF side = s THEN Tail(Queue(side)) ELSE Queue(side)
    BY <1>1, <1>3, <2>1, Consumed
  <2>. QED BY <1>3, <2>2
<1>6. missRequest # None => r.dest # missRequest.dest
  BY <1>1 DEF mayStart
<1>7. SideOf(h) = s
  BY <1>4 DEF SideOf, IsL1
<1> HIDE DEF r
<1>8. hitRequest' = r /\ hitRequest = None /\ ~readingFromMissBuffer /\ ~Parked /\ ~Parked'
  BY <1>1 DEF r, BInv, HitOK, ReadingOK, Parked
<1>9. KeepsBelow /\ StoredOK'
  BY <1>1, <1>2, BelowKept, StoredKept DEF RInv, BInv
<1>10. Plain(hitRequest) /\ Plain(hitRequest')
  BY <1>4, <1>8, Unserved DEF Plain
<1>11. KeepsMem /\ CleanOK' /\ TagsOK'
  <2>1. KeepsAwaited
    BY <1>1 DEF KeepsAwaited, Awaited
  <2>. QED BY <1>2, <1>9, <1>10, <2>1, PlainFrame DEF RInv
<1>12. Link' = Link
  BY <1>2, <1>10, PlainLink
<1>13. /\ \A side \in Sides : PayloadOK(side)'
       /\ Announced(r)
  <2>1. PICK n \in Nat : /\ Stream(InputSteps(s), Queue(s), n, Len(sending[s]))
                         /\ Due(s, n)
    BY <1>5 DEF BInv, InputOK
  <2> DEFINE f == Queue(s)[1]
  <2>2. PICK l \in Nat : <<n, f, l>> \in InputSteps(s)
    BY <1>5, <2>1, StreamTail
  <2>3. n = 0
    BY <1>5, <2>2, InputStep
  <2>4. ~CopyOwns(s)
    BY <2>1, <2>3 DEF Due
  <2>5. PICK values \in Seq(Val) :
          StreamOf(Seq(Val), ValueSteps, Queue(s), values, sending[s]) /\ DueValues(s, values)
    BY <1>5 DEF RInv, PayloadOK
  <2>6. PICK left \in Seq(Val) : <<values, f, left>> \in ValueSteps
    BY <1>5, <2>5, StreamOfTail
  <2>7. f.head /\ f.req = h
    BY <1>5
  <2> HIDE DEF f
  <2>8. left = r.data /\ Len(left) = payloadFlits(r.op)
    BY <1>4, <2>6, <2>7, ValueStep
  <2>9. Announced(r)
    BY <1>4, <2>8 DEF Announced
  <2>10. IsLeft(r.data, r)
    BY <1>4, <2>8, AllLeft
  <2>11. ASSUME NEW side \in Sides PROVE PayloadOK(side)'
    <3>1. /\ CopyOwns(side)' <=> CopyOwns(side)
          /\ HitOwns(side)' <=> side = s
          /\ ~HitOwns(side)
      <4>1. SideOf(hitRequest)' = s
        BY <1>8 DEF SideOf, IsL1
      <4>. QED BY <1>1, <1>2, <1>4, <1>8, <4>1 DEF HitOwns, CopyOwns, SideOf, IsL1
    <3>2. CASE side = s
      <4>1. ASSUME NEW v \in Seq(Val), NEW l1 \in Seq(Val), DueValues(side, v),
                   <<v, Queue(side)[1], l1>> \in ValueSteps
            PROVE  DueValues(side, l1)'
        <5>1. <<v, f, l1>> \in ValueSteps
          BY <3>2, <4>1 DEF f
        <5>2. l1 = r.data
          BY <1>4, <2>7, <5>1, ValueStep
        <5>3. IsLeft(l1, hitRequest)'
          BY <1>8, <2>10, <5>2 DEF IsLeft, Remaining
        <5>. QED BY <2>4, <3>1, <3>2, <5>3 DEF DueValues
      <4>. QED BY <1>1, <1>5, <2>11, <3>2, <4>1, PayloadLess DEF RInv
    <3>3. CASE side # s
      <4>1. Queue(side)' = Queue(side)
        BY <1>5, <3>3
      <4>2. ASSUME NEW v \in Seq(Val), DueValues(side, v) PROVE DueValues(side, v)'
        BY <1>1, <3>1, <3>3, <4>2 DEF DueValues, IsLeft, Remaining
      <4>. QED BY <1>1, <4>1, <4>2, PayloadKept DEF RInv
    <3>. QED BY <3>2, <3>3
  <2>. QED BY <2>9, <2>11
<1>14. RequestsOK'
  <2>1. ~r.eop /\ r.done < totalIterations(r) /\ r.saved = None
    BY <1>4, Unserved DEF Untouched
  <2>. QED BY <1>1, <1>6, <1>8, <1>13, <2>1 DEF RInv, RequestsOK, Announced
<1>15. BufferedOK'
  BY <1>1, <1>2, <1>8 DEF RInv, BufferedOK, Buffered
<1>16. FetchOK'
  <2>1. FetchOK /\ TypeOK
    BY DEF RInv, BInv
  <2>2. (Fetching' <=> Fetching) /\ (Fetching => FetchTag' = FetchTag) /\ Refilled' = Refilled
    BY <1>1 DEF Fetching, FetchTag, Refilled
  <2>3. SendsOther
    BY <1>1 DEF SendsOther
  <2>. QED BY <1>1, <1>2, <2>1, <2>2, <2>3, FetchFrame
<1>17. RInv'
  BY <1>9, <1>11, <1>13, <1>14, <1>15, <1>16 DEF RInv
<1>18. ToServe' = ToServe
  <2>1. ASSUME NEW d \in Dest PROVE InHand(d)' \o Waiting(d)' = InHand(d) \o Waiting(d)
    <3>1. /\ InHand(d) = Hand(hitRequest, missRequest, d)
          /\ InHand(d)' = Hand(hitRequest', missRequest', d)
          /\ InHand(d) \in Seq(Operation)
      BY <1>17, ToServeIs DEF RInv
    <3>2. Waiting(d) = (IF h.dest = d THEN <<decodeMemoryRequest(h)>> ELSE <<>>) \o Waiting(d)'
      BY <1>5, <1>7, WaitingLess
    <3>3. Waiting(d)' \in Seq(Operation)
      BY WaitingAfter
    <3>4. CASE h.dest = d
      <4>1. InHand(d)' = <<r>>
        <5>1. ~Served(r) /\ r # None /\ r.dest = d /\ Seen(r) = r
          BY <1>4, <3>4, Unserved
        <5>. QED BY <1>8, <3>1, <5>1 DEF Hand, InSlot
      <4>2. InHand(d) = <<>>
        BY <1>4, <1>6, <1>8, <3>1, <3>4 DEF Hand, InSlot
      <4>3. Waiting(d) = <<r>> \o Waiting(d)'
        BY <1>3, <3>2, <3>4 DEF r
      <4>4. <<r>> \in Seq(Operation) /\ \A a \in Seq(Operation) : <<>> \o a = a
        BY <1>4
      <4>5. <<r>> \o Waiting(d)' \in Seq(Operation)
        BY <3>3, <4>4
      <4>. QED BY <4>1, <4>2, <4>3, <4>4, <4>5
    <3>5. CASE h.dest # d
      <4>1. InHand(d)' = InHand(d)
        BY <1>1, <1>4, <1>8, <3>1, <3>5 DEF Hand
      <4>2. Waiting(d) = Waiting(d)'
        BY <3>2, <3>3, <3>5
      <4>. QED BY <4>1, <4>2
    <3>. QED BY <3>4, <3>5
  <2>2. /\ ToServe = [d \in Dest |-> InHand(d) \o Waiting(d)]
        /\ ToServe' = [d \in Dest |-> InHand(d)' \o Waiting(d)']
    BY <1>17, ToServeIs DEF RInv
  <2>. QED BY <2>1, <2>2
<1>. QED BY <1>1, <1>9, <1>11, <1>12, <1>17, <1>18, MemKept DEF ServiceStep

(* A request asks for its line.                                            *)
LEMMA PrepareFetchServes ==
    ASSUME BInv, BInv', RInv, PrepareFetch
    PROVE  RInv' /\ ServiceStep
<1> DEFINE q == outputReqQueue
           f == [kind |-> "FETCH_LINE", tag |-> hitRequest.tag]
<1>1. /\ Serving(hitRequest) /\ ~preconditionsMet(hitRequest, inCache(hitRequest))
      /\ sendRequests(<<f>>) /\ state' = "ALLOCATE"
      /\ UNCHANGED <<previousState, hitRequest, missRequest, sram, flushing, buffer,
                     inputs, inResponseQueue, output, sending, workload, beyond>>
  BY DEF PrepareFetch
<1>2. UNCHANGED <<metadata, data, reservations, missBuffer, copyingToMissBuffer, cacheLineCursor,
                  readingFromMissBuffer, nextLevel, storing, returning, flushAddress>>
  BY <1>1 DEF sram, buffer, beyond, flushing
<1>3. /\ missRequest = None /\ hitRequest \in Operation /\ state = "REQUEST" /\ canSendRequest
      /\ TypeOK
  BY <1>1, Misses DEF Serving, BInv
<1>4. f \in OutFlit /\ f.kind = "FETCH_LINE" /\ f.tag = hitRequest.tag
  BY <1>3, SentFlits, Fields
<1> HIDE DEF f
<1>5. q \in Seq(OutFlit) /\ q' = Append(q, f)
  BY <1>1, <1>3, <1>4, Sent
<1>6. ~Parked /\ ~Parked' /\ state' # "FLUSH" /\ state' # "FORWARD" /\ state' # "REFILL"
  BY <1>1, <1>3 DEF Parked
<1>7. KeepsBelow
  BY <1>1, <1>2, <1>3, <1>4, <1>5, <1>6, BelowKept DEF NoWord
<1>8. StoredOK'
  BY <1>1, <1>2, <1>3, <1>4, <1>5, <1>6, StoredSent DEF RInv
<1>9. KeepsMem /\ Link' = Link /\ CleanOK' /\ TagsOK' /\ RequestsOK'
  BY <1>1, <1>6, <1>7, CacheFrame DEF RInv
<1>10. \A side \in Sides : PayloadOK(side)'
  <2>1. \A side \in Sides, values \in Seq(Val) : DueValues(side, values) => DueValues(side, values)'
    BY <1>1, <1>2, <1>3, <1>6 DEF DueValues, CopyOwns, HitOwns, SideOf, IsL1, IsLeft, Remaining
  <2>. QED BY <1>1, <2>1, PayloadsLeft
<1>11. BufferedOK'
  BY <1>1, <1>2 DEF RInv, BufferedOK, Buffered
<1>12. FetchOK'
  <2>1. ~Fetches(q)
    BY <1>3, FetchIs DEF RInv, Fetching
  <2>2. Fetching' /\ FetchTag' = f.tag
    BY <1>1, <1>3, <1>4 DEF Fetching, FetchTag
  <2>3. /\ Len(Append(q, f)) = Len(q) + 1 /\ Len(q) \in Nat /\ Append(q, f)[Len(q) + 1] = f
        /\ \A k \in 1 .. Len(q) : Append(q, f)[k] = q[k]
    BY <1>4, <1>5, Appended
  <2>4. Fetches(q')
    <3>1. Len(q) + 1 \in 1 .. Len(q')
      BY <1>5, <2>3
    <3>. QED BY <1>4, <1>5, <2>3, <3>1 DEF Fetches
  <2>5. FetchesAfter(q', f.tag)
    <3>1. ASSUME NEW k \in 1 .. Len(q'), q'[k].kind = "FETCH_LINE"
          PROVE  q'[k].tag = f.tag /\ \A j \in k .. Len(q') : ~IsWord(q'[j], f.tag)
      <4>1. k = Len(q) + 1
        BY <1>5, <2>1, <2>3, <3>1 DEF Fetches
      <4>2. \A j \in k .. Len(q') : q'[j] = f
        BY <1>5, <2>3, <4>1
      <4>. QED BY <1>4, <1>5, <2>3, <4>1, <4>2 DEF IsWord
    <3>. QED BY <3>1 DEF FetchesAfter
  <2>6. Coming(q', FetchTag', Refilled', inResponseQueue', returning', nextLevel')
    BY <2>4 DEF Coming
  <2>. QED BY <1>6, <2>2, <2>5, <2>6, FetchIs
<1>13. RInv'
  BY <1>8, <1>9, <1>10, <1>11, <1>12 DEF RInv
<1>. QED BY <1>1, <1>7, <1>9, <1>13, WaitingKept, Stutters

(* A request is passed on.                                                 *)
LEMMA ForwardRequestServes ==
    ASSUME BInv, BInv', RInv, ForwardRequest
    PROVE  RInv' /\ ServiceStep
<1> DEFINE r == hitRequest
           f == [kind |-> "FORWARD", req |-> r]
<1>1. /\ state = "REQUEST" /\ canSendRequest /\ needsForwarding(r)
      /\ sendRequests(<<f>>)
      /\ \/ state' = "FORWARD" /\ hitRequest' = r /\ missRequest' = missRequest
         \/ /\ missRequest = None
            /\ missRequest' = r /\ state' = "IDLE" /\ hitRequest' = None
      /\ UNCHANGED <<previousState, sram, flushing, buffer, inputs, inResponseQueue,
                     output, sending, workload, beyond>>
  BY DEF ForwardRequest
<1>2. UNCHANGED <<metadata, data, reservations, missBuffer, copyingToMissBuffer, cacheLineCursor,
                  readingFromMissBuffer, nextLevel, storing, returning, flushAddress>>
  BY <1>1 DEF sram, buffer, beyond, flushing
<1>3. /\ TypeOK /\ r # None /\ RequestOK(r) /\ r \in Operation /\ Untouched(r)
      /\ ~readingFromMissBuffer /\ ~Parked
  BY <1>1 DEF BInv, HitOK, RequestOK, ReadingOK, Parked
<1>4. f \in OutFlit /\ f.kind = "FORWARD" /\ Asks(f) = Results(r)
  BY <1>3, SentFlits DEF Asks
<1> HIDE DEF f
<1>5. outputReqQueue \in Seq(OutFlit) /\ outputReqQueue' = Append(outputReqQueue, f)
  BY <1>1, <1>3, <1>4, Sent
<1>6. ~Parked' /\ state' # "FLUSH" /\ state' # "REFILL"
  BY <1>1 DEF Parked
<1>7. KeepsBelow
  BY <1>1, <1>2, <1>3, <1>4, <1>5, <1>6, BelowKept DEF NoWord
<1>8. StoredOK'
  BY <1>1, <1>2, <1>3, <1>4, <1>5, <1>6, StoredSent DEF RInv
<1>9. CASE state' = "FORWARD" /\ hitRequest' = r /\ missRequest' = missRequest
  <2>1. KeepsMem /\ Link' = Link /\ CleanOK' /\ TagsOK' /\ RequestsOK'
    BY <1>1, <1>3, <1>6, <1>7, <1>9, CacheFrame DEF RInv
  <2>2. \A side \in Sides : PayloadOK(side)'
    <3>1. \A side \in Sides, values \in Seq(Val) : DueValues(side, values) => DueValues(side, values)'
      BY <1>1, <1>2, <1>9 DEF DueValues, CopyOwns, HitOwns, SideOf, IsL1, IsLeft, Remaining
    <3>. QED BY <1>1, <3>1, PayloadsLeft
  <2>3. BufferedOK'
    BY <1>1, <1>2, <1>9 DEF RInv, BufferedOK, Buffered
  <2>4. FetchOK'
    <3>1. FetchOK
      BY DEF RInv
    <3>2. (Fetching' <=> Fetching) /\ (Fetching => FetchTag' = FetchTag) /\ Refilled' = Refilled
      BY <1>1, <1>9 DEF Fetching, FetchTag, Refilled
    <3>3. Fetching => Asks(f) = 0
      <4>1. Fetching => missRequest # None
        BY <1>1 DEF Fetching
      <4>2. missRequest # None => ~resultsToSend(r)
        BY <1>1, <1>3 DEF BInv, MissOK
      <4>3. resultFlitsRemaining(r) \in Nat
        BY <1>3, Untaken
      <4>. QED BY <1>4, <4>1, <4>2, <4>3 DEF Results, resultsToSend
    <3>4. SendsOther
      BY <1>4, <1>5, <3>3 DEF SendsOther, IsWord
    <3>. QED BY <1>1, <1>2, <1>3, <1>6, <3>1, <3>2, <3>4, FetchFrame
  <2>5. RInv'
    BY <1>8, <2>1, <2>2, <2>3, <2>4 DEF RInv
  <2>. QED BY <1>1, <1>7, <1>9, <2>1, <2>5, WaitingKept, Stutters
<1>10. CASE /\ missRequest = None
            /\ missRequest' = r /\ state' = "IDLE" /\ hitRequest' = None
  <2>1. needsForwarding(missRequest') /\ missRequest' # None
    BY <1>1, <1>3, <1>10
  <2>2. KeepsAwaited
    BY <1>10, <2>1 DEF KeepsAwaited, Awaited
  <2>3. Plain(hitRequest) /\ Plain(hitRequest')
    BY <1>1, <1>3, <1>10, PlainHit DEF Plain, RInv
  <2>4. KeepsMem /\ CleanOK' /\ TagsOK' /\ Link' = Link
    BY <1>2, <1>7, <2>2, <2>3, PlainFrame, PlainLink DEF RInv
  <2>5. RequestsOK'
    BY <1>3, <1>10 DEF RInv, RequestsOK, Announced
  <2>6. ~copyingToMissBuffer
    BY <1>10 DEF BInv, CopyingOK
  <2>7. \A side \in Sides : PayloadOK(side)'
    <3>1. \A side \in Sides, values \in Seq(Val) : DueValues(side, values) => DueValues(side, values)'
      BY <1>2, <1>10, <2>6 DEF DueValues, CopyOwns, HitOwns
    <3>. QED BY <1>1, <3>1, PayloadsLeft
  <2>8. BufferedOK'
    <3>1. missBuffer' \in Seq(InFlit)
      BY DEF BInv, TypeOK
    <3>2. Len(missBuffer') = 0
      BY <1>2, <1>3, <2>1 DEF BInv, BufferOK
    <3>3. missBuffer' = <<>>
      BY <3>1, <3>2, Empties
    <3>. QED BY <1>2, <1>3, <3>3 DEF BufferedOK
  <2>9. FetchOK'
    <3>1. FetchOK
      BY DEF RInv
    <3>2. ~Fetching /\ ~Fetching'
      BY <1>1, <1>10, <2>1 DEF Fetching
    <3>3. SendsOther
      BY <1>4, <1>5, <3>2 DEF SendsOther
    <3>. QED BY <1>1, <1>2, <1>3, <3>1, <3>2, <3>3, FetchFrame
  <2>10. RInv'
    BY <1>8, <2>4, <2>5, <2>7, <2>8, <2>9 DEF RInv
  <2>11. ToServe' = ToServe
    <3>1. /\ <<hitRequest, missRequest>> \in {<<r, None>>, <<None, r>>, <<r, r>>}
          /\ <<hitRequest', missRequest'>> \in {<<r, None>>, <<None, r>>, <<r, r>>}
      BY <1>10
    <3>2. KeepsWaiting
      BY <1>1, WaitingKept
    <3> HIDE DEF r
    <3>. QED BY <1>3, <2>10, <3>1, <3>2, Exchanged DEF RInv
  <2>. QED BY <1>1, <1>7, <2>4, <2>10, <2>11, MemKept DEF ServiceStep
<1>. QED BY <1>1, <1>9, <1>10

(* A request is done.                                                      *)
LEMMA RetireRequestServes ==
    ASSUME BInv, BInv', RInv, RetireRequest
    PROVE  RInv' /\ ServiceStep
<1> DEFINE p == hitRequest
<1>1. /\ state = "REQUEST" /\ complete(p, inCache(p)) /\ Retire(p)
      /\ UNCHANGED <<previousState, missRequest, sram, flushing, missBuffer,
                     copyingToMissBuffer, inputs, inResponseQueue, outputReqQueue,
                     output, sending, workload, beyond>>
  BY DEF RetireRequest
<1>2. RequestOK(p) /\ Same(p, hitRequest) /\ p # None /\ p \in Operation
  BY <1>1 DEF BInv, HitOK, Same, RequestOK
<1>3. Retires /\ Remaining(p) = 0
  BY <1>1, <1>2, DoneHasPayload DEF Retire, Retires
<1>4. hitRequest' = None /\ state' = "IDLE" /\ TakesNone
  BY <1>1, <1>3 DEF Retires, TakesNone
<1>5. FetchOK' /\ StoredOK' /\ KeepsBelow /\ KeepsAwaited
  BY <1>1, <1>4, ServedFrame
<1>6. BufferedOK' /\ \A side \in Sides : PayloadOK(side)'
  <2>1. p.data = hitRequest.data /\ Remaining(p) = Remaining(hitRequest)
    OBVIOUS
  <2> HIDE DEF p
  <2>. QED BY <1>1, <1>2, <1>3, <1>4, <2>1, PayloadServed
<1>7. p.op \in {"PREFETCH_LINE", "FLUSH_LINE", "FLUSH_ALL_LINES"}
  <2>1. ASSUME p.op \notin {"PREFETCH_LINE", "FLUSH_LINE", "FLUSH_ALL_LINES"} PROVE FALSE
    <3>1. ~p.eop /\ p.done < totalIterations(p)
      BY <1>2, <2>1 DEF RInv, RequestsOK
    <3>2. p.op = "INVALIDATE_LINE" => totalIterations(p) = 1
      BY <1>2, Totals DEF LineOps
    <3>3. p.done \in Nat /\ totalIterations(p) \in Nat
      BY <1>2, Fields, Totals
    <3>. QED BY <1>1, <2>1, <3>1, <3>2, <3>3 DEF complete
  <2>. QED BY <2>1
<1>8. p.op \in {"FLUSH_LINE", "FLUSH_ALL_LINES"} => Served(p)
  <2>1. CASE p.op = "FLUSH_LINE"
    <3>1. totalIterations(p) = 1
      BY <1>2, <2>1, Totals DEF LineOps
    <3>. QED BY <1>1, <2>1, <3>1 DEF complete, Served
  <2>2. CASE p.op = "FLUSH_ALL_LINES"
    BY <1>1, <1>2, <2>2 DEF complete, Served, RequestOK, AllLines, Loads
  <2>. QED BY <2>1, <2>2
<1>9. p.op = "PREFETCH_LINE" => ~Served(p)
  BY DEF Served, Decided, AllLines, Atomics
<1>10. Plain(hitRequest) /\ Plain(hitRequest')
  BY <1>2, <1>4, <1>7 DEF Plain, Decided, Atomics, RInv, RequestsOK, Announced, claimsLine
<1>11. UNCHANGED <<metadata, data, reservations>>
  BY <1>1 DEF sram
<1>12. KeepsMem /\ CleanOK' /\ TagsOK' /\ Link' = Link
  BY <1>5, <1>10, <1>11, PlainFrame, PlainLink DEF RInv
<1>13. RequestsOK'
  BY <1>1, <1>4 DEF RInv, RequestsOK, Announced
<1>14. RInv'
  BY <1>5, <1>6, <1>12, <1>13 DEF RInv
<1>15. KeepsWaiting
  BY <1>1, WaitingKept
<1>16. CASE p.op = "PREFETCH_LINE"
  <2>1. /\ p.dest \in Dest /\ ToServe[p.dest] # <<>> /\ ToServe[p.dest][1] = Seen(p)
        /\ Service!Progress(p.dest, TRUE)
    BY <1>1, <1>4, <1>9, <1>14, <1>15, <1>16, HitMoves DEF RInv
  <2>2. Seen(p).op = p.op
    BY DEF Seen
  <2>3. Mem' = Mem /\ Below' = Below
    BY <1>5, <1>12, MemKept
  <2>4. Service!Prefetch(p.dest)
    BY <1>1, <1>12, <1>16, <2>1, <2>2, <2>3 DEF Service!Prefetch
  <2>5. Service!SNext
    BY <2>1, <2>4 DEF Service!SNext, Service!Serve
  <2>. QED BY <1>14, <2>5 DEF ServiceStep
<1>17. CASE p.op # "PREFETCH_LINE"
  <2>1. ToServe' = ToServe
    BY <1>1, <1>4, <1>7, <1>8, <1>14, <1>15, <1>17, HitLeaves DEF RInv
  <2>. QED BY <1>1, <1>5, <1>12, <1>14, <2>1, MemKept DEF ServiceStep
<1>. QED BY <1>16, <1>17

(* What a requester sees of a request.                                     *)
LEMMA SeenIs ==
    ASSUME NEW r \in Operation
    PROVE  /\ Seen(r) \in Operation /\ Same(Seen(r), r)
           /\ Seen(r).op = r.op /\ Seen(r).tag = r.tag /\ Seen(r).off = r.off
           /\ Seen(r).dest = r.dest /\ Seen(r).skip = r.skip
           /\ Seen(r).data = r.data /\ Seen(r).done = r.done
           /\ Seen(r).saved = None /\ Seen(r).eop = FALSE /\ Seen(r).fresh = FALSE
BY DEF Seen, Operation, Same

(* ... when it has come further.                                           *)
LEMMA SeenMoves ==
    ASSUME NEW r \in Operation, NEW p \in Operation, Same(p, r), p.data = r.data,
           p.done = r.done + 1
    PROVE  Seen(p) = Iterated(Seen(r))
<1> DEFINE a == Seen(p)
           b == Seen(r)
           c == Iterated(b)
<1>1. /\ a \in Operation /\ b \in Operation
      /\ Same(a, b) /\ a.data = b.data /\ a.done = b.done + 1
      /\ a.saved = b.saved /\ a.eop = b.eop /\ a.fresh = b.fresh
  <2>1. /\ a \in Operation /\ Same(a, p) /\ a.data = p.data /\ a.done = p.done
        /\ a.saved = None /\ a.eop = FALSE /\ a.fresh = FALSE
    BY SeenIs
  <2>2. /\ b \in Operation /\ Same(b, r) /\ b.data = r.data /\ b.done = r.done
        /\ b.saved = None /\ b.eop = FALSE /\ b.fresh = FALSE
    BY SeenIs
  <2> HIDE DEF a, b
  <2>. QED BY <2>1, <2>2 DEF Same
<1> HIDE DEF a, b
<1>2. /\ c \in Operation /\ Same(c, b) /\ c.data = b.data /\ c.done = b.done + 1
      /\ c.saved = b.saved /\ c.eop = b.eop /\ c.fresh = b.fresh
  BY <1>1 DEF Iterated, Operation, Same
<1> HIDE DEF c
<1>3. a = c
  BY <1>1, <1>2 DEF Same, Operation
<1>. QED BY <1>3 DEF a, b, c

(* The words a request came with, and whether it claimed its line, do not  *)
(* depend on its progress.                                                 *)
LEMMA Carried ==
    ASSUME NEW r \in Operation, NEW v, NEW e
    PROVE  /\ Iterated(r).data = r.data /\ Iterated(r).fresh = r.fresh
           /\ [Iterated(r) EXCEPT !.eop = e].data = r.data
           /\ [Iterated(r) EXCEPT !.eop = e].fresh = r.fresh
           /\ [Iterated(r) EXCEPT !.saved = v].data = r.data
           /\ [Iterated(r) EXCEPT !.saved = v].fresh = r.fresh
           /\ [r EXCEPT !.saved = v].data = r.data /\ [r EXCEPT !.saved = v].fresh = r.fresh
           /\ [r EXCEPT !.fresh = TRUE].data = r.data /\ [r EXCEPT !.fresh = TRUE].fresh = TRUE
BY DEF Iterated, Operation

(* The service counts as the bank does.                                    *)
LEMMA ServiceIs ==
    ASSUME NEW r
    PROVE  /\ Service!needsForwarding(r) <=> needsForwarding(r)
           /\ Service!totalIterations(r) = totalIterations(r)
           /\ Service!CurrentOff(r) = CurrentOff(r)
           /\ Service!resultsToSend(r) <=> resultsToSend(r)
           /\ Service!Iterated(r) = Iterated(r)
           /\ Service!Loads = Loads /\ Service!Stores = Stores /\ Service!Atomics = Atomics
<1>1. Service!totalIterations(r) = totalIterations(r) /\ Service!CurrentOff(r) = CurrentOff(r)
  BY DEF Service!totalIterations, totalIterations, Service!CurrentOff, CurrentOff,
         Service!wholeLine, wholeLine, Service!AllLines, AllLines
<1>2. Service!Loads = Loads /\ Service!Stores = Stores /\ Service!Atomics = Atomics
  BY DEF Service!Loads, Loads, Service!Stores, Stores, Service!Atomics, Atomics
<1>3. Service!resultsToSend(r) <=> resultsToSend(r)
  BY <1>1, <1>2 DEF Service!resultsToSend, resultsToSend, Service!resultFlitsRemaining,
                    resultFlitsRemaining
<1>. QED BY <1>1, <1>2, <1>3
         DEF Service!needsForwarding, needsForwarding, Service!Directory, Directory,
             Service!Iterated, Iterated

(* A payload flit is passed on.                                            *)
LEMMA ForwardPayloadServes ==
    ASSUME BInv, BInv', RInv, ForwardPayload
    PROVE  RInv' /\ ServiceStep
<1> DEFINE r    == hitRequest
           own  == SideOf(r)
           flit == Input(r)[1]
           f    == [kind |-> "FORWARDED_WORD", eop |-> flit.eop]
<1>1. /\ state = "FORWARD" /\ canSendRequest /\ payloadAvailable(r) /\ Consume(r)
      /\ sendRequests(<<f>>)
      /\ \/ ~flit.eop /\ UNCHANGED <<state, hitRequest, missRequest>>
         \/ /\ flit.eop /\ state' = "IDLE" /\ hitRequest' = None
            /\ \/ missRequest = None /\ missRequest' = r
               \/ ~resultsToSend(r) /\ missRequest' = missRequest
      /\ UNCHANGED <<previousState, sram, flushing, buffer, inResponseQueue,
                     output, sending, workload, beyond>>
  BY DEF ForwardPayload
<1>2. UNCHANGED <<metadata, data, reservations, missBuffer, copyingToMissBuffer, cacheLineCursor,
                  readingFromMissBuffer, nextLevel, storing, returning, flushAddress>>
  BY <1>1 DEF sram, buffer, beyond, flushing
<1>3. /\ TypeOK /\ r # None /\ RequestOK(r) /\ r \in Operation /\ Untouched(r)
      /\ needsForwarding(r) /\ ~readingFromMissBuffer /\ ~Parked /\ ~Parked'
  BY <1>1 DEF BInv, HitOK, RequestOK, ReadingOK, Parked
<1>4. Input(r) # <<>> /\ ~flit.head
  BY <1>1, <1>3 DEF payloadAvailable, PayloadWaiting
<1>5. /\ Input(r) = Queue(own) /\ own \in Sides
      /\ flit \in InFlit /\ flit.eop \in BOOLEAN
      /\ \A side \in Sides : Queue(side)' = IF side = own THEN Tail(Queue(side)) ELSE Queue(side)
  BY <1>1, <1>3, <1>4, Consumed, InFlits
<1>6. f \in OutFlit /\ f.kind = "FORWARDED_WORD" /\ Asks(f) = 0
  BY <1>5, SentFlits DEF Asks
<1> HIDE DEF f
<1>7. /\ outputReqQueue \in Seq(OutFlit) /\ outputReqQueue' = Append(outputReqQueue, f)
  BY <1>1, <1>3, <1>6, Sent
<1>8. state' # "FLUSH" /\ state' # "REFILL"
  BY <1>1
<1>9. KeepsBelow
  BY <1>1, <1>2, <1>3, <1>6, <1>7, <1>8, BelowKept DEF NoWord
<1>10. StoredOK'
  BY <1>1, <1>2, <1>3, <1>6, <1>7, <1>8, StoredSent DEF RInv
<1>11. copyingToMissBuffer => missRequest # None /\ missRequest' = missRequest
  BY <1>1, <1>3 DEF BInv, CopyingOK
<1>12. \A side \in Sides : PayloadOK(side)'
  <2>1. ASSUME NEW side \in Sides
        PROVE  /\ CopyOwns(side)' <=> CopyOwns(side)
               /\ CopyOwns(side) => missRequest' = missRequest
               /\ HitOwns(side) <=> side = own
               /\ ~(CopyOwns(side) /\ HitOwns(side))
               /\ HitOwns(side)' => side = own /\ state' = "FORWARD"
    <3>1. ~(CopyOwns(side) /\ HitOwns(side)) /\ (HitOwns(side) <=> side = own)
      BY <1>3 DEF BInv, InputOK, HitOwns
    <3>2. CopyOwns(side)' <=> CopyOwns(side)
      BY <1>2, <1>11 DEF CopyOwns, SideOf, IsL1
    <3>3. HitOwns(side)' => side = own /\ state' = "FORWARD"
      BY <1>1 DEF HitOwns, SideOf, IsL1
    <3>. QED BY <1>11, <3>1, <3>2, <3>3 DEF CopyOwns
  <2>2. ASSUME NEW side \in Sides PROVE PayloadOK(side)'
    <3>1. PayloadOK(side) /\ sending'[side] = sending[side] /\ Queue(side) \in Seq(InFlit)
      BY <1>1, <1>3, InputTypes DEF RInv
    <3>2. CASE side = own
      <4>1. \A l : DueValues(side, l)'
        BY <2>1, <3>2 DEF DueValues
      <4>2. Queue(side) # <<>> /\ Queue(side)' = Tail(Queue(side))
        BY <1>4, <1>5, <3>2
      <4>. QED BY <3>1, <4>1, <4>2, PayloadLess
    <3>3. CASE side # own
      <4>1. ASSUME NEW v \in Seq(Val), DueValues(side, v) PROVE DueValues(side, v)'
        <5>1. CopyOwns(side)' => IsLeft(v, missRequest)'
          BY <2>1, <4>1 DEF DueValues, IsLeft, Remaining
        <5>. QED BY <2>1, <3>3, <5>1 DEF DueValues
      <4>2. Queue(side)' = Queue(side)
        BY <1>5, <3>3
      <4>. QED BY <3>1, <4>1, <4>2, PayloadKept
    <3>. QED BY <3>2, <3>3
  <2>. QED BY <2>2
<1>13. KeepsWaiting
  BY <1>1, <1>3, <1>4, WaitingTaken
<1>14. FetchOK'
  <2>1. FetchOK
    BY DEF RInv
  <2>2. (Fetching' <=> Fetching) /\ (Fetching => FetchTag' = FetchTag) /\ Refilled' = Refilled
    BY <1>1, <1>3 DEF Fetching, FetchTag, Refilled
  <2>3. SendsOther
    BY <1>6, <1>7 DEF SendsOther, IsWord
  <2>. QED BY <1>1, <1>2, <1>3, <1>8, <2>1, <2>2, <2>3, FetchFrame
<1>15. KeepsAwaited
  BY <1>1, <1>3 DEF KeepsAwaited, Awaited
<1>16. Plain(hitRequest) /\ Plain(hitRequest')
  <2>1. Plain(hitRequest)
    BY <1>3, PlainHit DEF RInv
  <2>. QED BY <1>1, <2>1 DEF Plain
<1>17. KeepsMem /\ CleanOK' /\ TagsOK' /\ Link' = Link
  BY <1>2, <1>9, <1>15, <1>16, PlainFrame, PlainLink DEF RInv
<1>18. CASE ~flit.eop /\ UNCHANGED <<state, hitRequest, missRequest>>
  <2>1. RequestsOK'
    BY <1>1, <1>3, <1>9, <1>18, CacheFrame DEF RInv
  <2>2. BufferedOK'
    BY <1>2, <1>3, <1>18 DEF RInv, BufferedOK, Buffered
  <2>3. RInv'
    BY <1>10, <1>12, <1>14, <1>17, <2>1, <2>2 DEF RInv
  <2>. QED BY <1>1, <1>9, <1>13, <1>17, <1>18, <2>3, Stutters
<1>19. CASE /\ state' = "IDLE" /\ hitRequest' = None
            /\ missRequest = None /\ missRequest' = r
  <2>1. RequestsOK'
    BY <1>3, <1>19 DEF RInv, RequestsOK, Announced
  <2>2. BufferedOK'
    <3>1. missBuffer' \in Seq(InFlit)
      BY DEF BInv, TypeOK
    <3>2. needsForwarding(missRequest') /\ missRequest' # None
      BY <1>3, <1>19
    <3>3. Len(missBuffer') = 0
      BY <1>2, <1>3, <3>2 DEF BInv, BufferOK
    <3>4. missBuffer' = <<>>
      BY <3>1, <3>3, Empties
    <3>. QED BY <1>2, <1>3, <3>4 DEF BufferedOK
  <2>3. RInv'
    BY <1>10, <1>12, <1>14, <1>17, <2>1, <2>2 DEF RInv
  <2>4. ToServe' = ToServe
    <3>1. /\ <<hitRequest, missRequest>> \in {<<r, None>>, <<None, r>>, <<r, r>>}
          /\ <<hitRequest', missRequest'>> \in {<<r, None>>, <<None, r>>, <<r, r>>}
      BY <1>19
    <3> HIDE DEF r
    <3>. QED BY <1>3, <1>13, <2>3, <3>1, Exchanged DEF RInv
  <2>. QED BY <1>1, <1>9, <1>17, <2>3, <2>4, MemKept DEF ServiceStep
<1>20. CASE /\ state' = "IDLE" /\ hitRequest' = None
            /\ ~resultsToSend(r) /\ missRequest' = missRequest
  <2>1. RequestsOK'
    BY <1>3, <1>20 DEF RInv, RequestsOK, Announced
  <2>2. BufferedOK'
    BY <1>2, <1>3, <1>20 DEF RInv, BufferedOK, Buffered
  <2>3. RInv'
    BY <1>10, <1>12, <1>14, <1>17, <2>1, <2>2 DEF RInv
  <2>4. ~Served(r)
    BY <1>3, Unserved
  <2>5. /\ r.dest \in Dest /\ ToServe[r.dest] # <<>> /\ ToServe[r.dest][1] = Seen(r)
        /\ Service!Progress(r.dest, TRUE)
    BY <1>1, <1>13, <1>20, <2>3, <2>4, HitMoves DEF RInv
  <2>6. Service!needsForwarding(Seen(r)) /\ ~Service!resultsToSend(Seen(r))
    <3>1. Same(Seen(r), r) /\ Seen(r).saved = None /\ Seen(r).done = r.done /\ r.saved = None
      BY <1>3, SeenIs DEF Untouched
    <3>2. needsForwarding(Seen(r)) /\ totalIterations(Seen(r)) = totalIterations(r)
      BY <1>3, <3>1, SameRequest
    <3>3. ~resultsToSend(Seen(r))
      BY <1>20, <3>1, <3>2 DEF resultsToSend, resultFlitsRemaining, Same
    <3>. QED BY <3>2, <3>3, ServiceIs
  <2>7. Mem' = Mem /\ Below' = Below
    BY <1>9, <1>17, MemKept
  <2>8. Service!Bypass(r.dest)
    BY <1>1, <1>17, <2>5, <2>6, <2>7 DEF Service!Bypass
  <2>9. Service!SNext
    BY <2>5, <2>8 DEF Service!SNext, Service!Serve
  <2>. QED BY <2>3, <2>9 DEF ServiceStep
<1>. QED BY <1>1, <1>18, <1>19, <1>20

(* A result of a request that was passed on is passed back.                *)
LEMMA ForwardResultServes ==
    ASSUME BInv, BInv', RInv, ForwardResult
    PROVE  RInv' /\ ServiceStep
<1> DEFINE r == missRequest
           p == Iterated(r)
           v == Head(inResponseQueue)
<1>1. /\ state = "REFILL" /\ responseAvailable /\ needsForwarding(r)
      /\ sendResult(r, v)
      /\ \/ resultsToSend(p) /\ missRequest' = p /\ state' = state
         \/ ~resultsToSend(p) /\ state' = "IDLE" /\ missRequest' = None
      /\ UNCHANGED <<previousState, hitRequest, sram, flushing, buffer, inputs,
                     outputReqQueue, sending, workload, beyond>>
  BY DEF ForwardResult
<1>2. UNCHANGED <<metadata, data, reservations, missBuffer, copyingToMissBuffer, cacheLineCursor,
                  readingFromMissBuffer, nextLevel, storing, returning, flushAddress>>
  BY <1>1 DEF sram, buffer, beyond, flushing
<1>3. /\ hitRequest = None /\ r # None /\ ~Parked /\ v \in Val /\ Wanted \in Nat \ {0}
      /\ TypeOK
  BY <1>1, Response DEF BInv
<1>4. /\ RequestOK(r) /\ r \in Operation /\ r.saved = None /\ r.done \in Nat /\ r.eop \in BOOLEAN
      /\ ~readingFromMissBuffer /\ ~copyingToMissBuffer /\ missBuffer = <<>>
  <2>1. /\ RequestOK(r) /\ r \in Operation /\ r.saved = None
        /\ ~readingFromMissBuffer /\ ~copyingToMissBuffer
    BY <1>1, <1>3 DEF BInv, MissOK, RequestOK, ReadingOK, CopyingOK
  <2>2. missBuffer \in Seq(InFlit) /\ Len(missBuffer) = 0
    BY <1>1, <2>1 DEF BInv, TypeOK, BufferOK
  <2>. QED BY <2>1, <2>2, Empties, Fields
<1>5. /\ p \in Operation /\ Same(p, r) /\ p.done = r.done + 1
      /\ p.saved = None /\ p.data = r.data /\ p.fresh = r.fresh
  <2>1. Moved(p, r, r.done + 1, r.saved, r.eop)
    BY <1>4, Progress
  <2>. QED BY <1>4, <2>1, Carried DEF Moved
<1> HIDE DEF p, v
<1>6. /\ Wanted = resultFlitsRemaining(r) /\ HasReturnAddress(r)
      /\ r.op \in Loads \cup Atomics \cup {"STORE_CONDITIONAL"}
  <2>1. Wanted = Results(r)
    BY <1>1, <1>3 DEF Wanted
  <2>. QED BY <1>3, <2>1 DEF Results, HasReturnAddress, resultFlitsRemaining
<1>7. totalIterations(p) = totalIterations(r) /\ totalIterations(r) \in Nat
      /\ needsForwarding(p) /\ p.op = r.op /\ p.dest = r.dest /\ p # None
  BY <1>1, <1>4, <1>5, SameRequest, Totals, Fields DEF Same
<1>8. resultFlitsRemaining(p) = totalIterations(r) - (r.done + 1)
      /\ resultFlitsRemaining(r) = totalIterations(r) - r.done
  BY <1>4, <1>5, <1>6, <1>7 DEF resultFlitsRemaining
<1>9. ~Served(r) /\ ~Served(p)
  BY <1>4, <1>5, <1>6, <1>7 DEF Served, Decided, Loads, AllLines, Atomics
<1>10. state' # "FLUSH"
  BY <1>1
<1>11. KeepsBelow /\ StoredOK'
  BY <1>1, <1>2, <1>3, <1>10, BelowKept, StoredKept DEF RInv
<1>12. KeepsAwaited
  <2>1. missRequest' # None => needsForwarding(missRequest')
    BY <1>1, <1>7
  <2>. QED BY <1>1, <2>1 DEF KeepsAwaited, Awaited
<1>13. Plain(hitRequest) /\ Plain(hitRequest')
  BY <1>1, <1>3 DEF Plain
<1>14. KeepsMem /\ CleanOK' /\ TagsOK' /\ Link' = Link
  BY <1>2, <1>11, <1>12, <1>13, PlainFrame, PlainLink DEF RInv
<1>15. RequestsOK'
  <2>1. Announced(r)
    BY <1>3 DEF RInv, RequestsOK
  <2>2. Announced(p)
    BY <1>1, <1>5, <1>7, <2>1 DEF Announced
  <2>. QED BY <1>1, <1>3, <2>2 DEF RequestsOK
<1>16. \A side \in Sides : PayloadOK(side)'
  <2>1. \A side \in Sides, values \in Seq(Val) : DueValues(side, values) => DueValues(side, values)'
    BY <1>1, <1>2, <1>3, <1>4 DEF DueValues, CopyOwns, HitOwns
  <2>. QED BY <1>1, <2>1, PayloadsLeft
<1>17. BufferedOK'
  BY <1>2, <1>4 DEF BufferedOK
<1>18. FetchOK'
  <2>1. ~Fetching
    BY <1>1, <1>3 DEF Fetching
  <2>2. missRequest' # None => needsForwarding(missRequest')
    BY <1>1, <1>7
  <2>3. ~Fetching'
    BY <1>1, <2>2 DEF Fetching
  <2>4. ~Fetches(outputReqQueue')
    BY <1>1, <2>1, FetchIs DEF RInv
  <2>. QED BY <2>3, <2>4, FetchIs
<1>19. RInv'
  BY <1>11, <1>14, <1>15, <1>16, <1>17, <1>18 DEF RInv
<1> DEFINE last == Service!Last(Seen(r))
           slot == missRequest'
<1>20. /\ last <=> ~resultsToSend(p)
       /\ last \in BOOLEAN
       /\ Service!needsForwarding(Seen(r)) /\ Service!resultsToSend(Seen(r))
       /\ Seen(p) = Iterated(Seen(r))
  <2>1. Seen(r).done = r.done /\ Same(Seen(r), r) /\ Seen(r).saved = None
    BY <1>4, SeenIs
  <2>2. totalIterations(Seen(r)) = totalIterations(r) /\ needsForwarding(Seen(r))
    BY <1>1, <2>1, SameRequest
  <2>3. last <=> r.done + 1 = totalIterations(r)
    BY <2>1, <2>2, ServiceIs DEF Service!Last
  <2>4. last <=> ~resultsToSend(p)
    BY <1>3, <1>4, <1>6, <1>7, <1>8, <2>3 DEF resultsToSend
  <2>5. resultsToSend(Seen(r))
    BY <1>3, <1>4, <1>6, <1>8, <2>1, <2>2 DEF resultsToSend, resultFlitsRemaining, Same
  <2>6. Seen(p) = Iterated(Seen(r))
    BY <1>4, <1>5, SeenMoves
  <2>7. last \in BOOLEAN
    BY DEF Service!Last
  <2>. QED BY <2>2, <2>4, <2>5, <2>6, <2>7, ServiceIs
<1>21. /\ slot \in Operation \cup {None}
       /\ IF last THEN slot = None \/ Served(slot)
          ELSE slot # None /\ slot.dest = r.dest /\ ~Served(slot) /\ Seen(slot) = Iterated(Seen(r))
  BY <1>1, <1>5, <1>7, <1>9, <1>20
<1>22. /\ Hand(hitRequest, missRequest, r.dest) = InSlot(r, r.dest)
       /\ Hand(hitRequest', missRequest', r.dest) = InSlot(slot, r.dest)
       /\ \A d \in Dest : d # r.dest =>
              Hand(hitRequest', missRequest', d) = Hand(hitRequest, missRequest, d)
  <2>1. hitRequest = None /\ hitRequest' = None
    BY <1>1, <1>3
  <2>2. \A d : d # r.dest => InSlot(r, d) = <<>> /\ InSlot(slot, d) = <<>>
    BY <1>1, <1>7 DEF InSlot
  <2>. QED BY <2>1, <2>2 DEF Hand
<1>23. KeepsWaiting
  BY <1>1, WaitingKept
<1>24. /\ r.dest \in Dest /\ ToServe[r.dest] # <<>> /\ ToServe[r.dest][1] = Seen(r)
       /\ Service!Progress(r.dest, last)
  <2>1. RequestsOK /\ RequestsOK' /\ last \in BOOLEAN
    BY <1>19, <1>20 DEF RInv
  <2> HIDE DEF last, slot, r
  <2>. QED BY <1>4, <1>9, <1>21, <1>22, <1>23, <2>1, TodoMoves
<1>25. Mem' = Mem /\ Below' = Below
  BY <1>11, <1>14, MemKept
<1>26. Service!Results(r.dest, v)
  BY <1>1, <1>6 DEF sendResult, Service!Results
<1>27. Service!Bypass(r.dest)
  BY <1>3, <1>14, <1>20, <1>24, <1>25, <1>26 DEF Service!Bypass
<1>28. Service!SNext
  BY <1>24, <1>27 DEF Service!SNext, Service!Serve
<1>. QED BY <1>19, <1>28 DEF ServiceStep

-----------------------------------------------------------------------------
(* A request works on its line.                                            *)

(* A request that is executed has its line, which is not waited for.       *)
LEMMA Present ==
    ASSUME BInv, RInv, state = "REQUEST", Executing(hitRequest),
           hitRequest.op \notin NoPreconditions
    PROVE  contains(hitRequest.tag) /\ ~Awaited(hitRequest.tag)
<1>1. hitRequest # None /\ inCache(hitRequest) /\ ~Parked
  BY Executes, Fields DEF preconditionsMet, Parked
<1>2. missRequest # None => hitRequest.tag # missRequest.tag
  BY <1>1 DEF BInv, MissOK
<1>. QED BY <1>1, <1>2 DEF inCache, Awaited

(* When a request is done.                                                 *)
LEMMA Completes ==
    ASSUME NEW r, NEW p, Same(p, r), RequestOK(p), preconditionsMet(r, inCache(r)),
           r.op # "PREFETCH_LINE"
    PROVE  /\ complete(p, inCache(p)) <=> p.eop \/ p.done = totalIterations(r)
           /\ ~complete(p, inCache(p)) => p.done < totalIterations(r)
<1>1. /\ totalIterations(p) = totalIterations(r) /\ inCache(p) = inCache(r)
      /\ p.op = r.op /\ p \in Operation
  BY SameRequest DEF Same, RequestOK, inCache
<1>2. p.done \in Nat /\ totalIterations(p) \in Nat /\ p.done <= totalIterations(p)
  BY <1>1, Fields, Totals DEF RequestOK
<1>3. CASE p.op \in {"FLUSH_LINE", "INVALIDATE_LINE"}
  <2>1. ~p.eop /\ totalIterations(p) = 1
    BY <1>1, <1>3, Totals DEF RequestOK, Loads, LineOps
  <2>. QED BY <1>1, <1>2, <1>3, <2>1 DEF complete
<1>4. CASE p.op \notin {"FLUSH_LINE", "INVALIDATE_LINE"}
  <2>1. complete(p, inCache(p)) <=> p.eop \/ p.done = totalIterations(p)
    BY <1>1, <1>4 DEF complete, preconditionsMet
  <2>. QED BY <1>1, <1>2, <2>1
<1>. QED BY <1>3, <1>4

(* The requests, when the one in hand has come further.                    *)
LEMMA RequestsServed ==
    ASSUME BInv, RInv, state = "REQUEST", NEW p, Same(p, hitRequest), RequestOK(p),
           p.data = hitRequest.data, p.fresh = hitRequest.fresh,
           preconditionsMet(hitRequest, inCache(hitRequest)), hitRequest.op # "PREFETCH_LINE",
           Retire(p), missRequest' = missRequest,
           p.op = "MEMSET_LINE" => p.saved \in {None, p.data[1]},
           p.op = "STORE_CONDITIONAL" => p.saved \in {None, 0}
    PROVE  /\ RequestsOK'
           /\ hitRequest' = IF p.eop \/ p.done = totalIterations(hitRequest) THEN None ELSE p
           /\ state' \in {"REQUEST", "IDLE"} /\ p # None /\ hitRequest # None
<1>1. /\ complete(p, inCache(p)) <=> p.eop \/ p.done = totalIterations(hitRequest)
      /\ ~complete(p, inCache(p)) => p.done < totalIterations(hitRequest)
  BY Completes
<1>2. /\ hitRequest' = IF p.eop \/ p.done = totalIterations(hitRequest) THEN None ELSE p
      /\ state' \in {"REQUEST", "IDLE"}
  BY <1>1 DEF Retire
<1>3. p # None /\ hitRequest # None
  BY Fields DEF BInv, HitOK, RequestOK
<1>4. ~Parked /\ ~Parked'
  BY <1>2 DEF Parked
<1>5. /\ payloadFlits(p.op) = payloadFlits(hitRequest.op) /\ p.op = hitRequest.op
      /\ (claimsLine(p) <=> claimsLine(hitRequest))
      /\ (needsForwarding(p) <=> needsForwarding(hitRequest))
      /\ totalIterations(p) = totalIterations(hitRequest) /\ p.dest = hitRequest.dest
  BY SameRequest DEF Same
<1>6. Announced(p)
  BY <1>3, <1>5 DEF RInv, RequestsOK, Announced
<1>7. hitRequest' # None => /\ hitRequest' = p /\ ~p.eop
                            /\ p.done < totalIterations(p)
  BY <1>1, <1>2, <1>5
<1>8. missRequest' # None => Announced(missRequest)
  BY DEF RInv, RequestsOK
<1>9. RequestsOK'
  <2>1. hitRequest' # None => /\ Announced(hitRequest)'
                              /\ ~hitRequest'.eop /\ hitRequest'.done < totalIterations(hitRequest')
                              /\ hitRequest'.op = "MEMSET_LINE" =>
                                    hitRequest'.saved \in {None, hitRequest'.data[1]}
                              /\ hitRequest'.op = "STORE_CONDITIONAL" =>
                                    hitRequest'.saved \in {None, 0}
    <3>1. Announced(hitRequest)' <=> Announced(hitRequest')
      BY DEF Announced, claimsLine, needsForwarding
    <3>. QED BY <1>6, <1>7, <3>1
  <2>2. missRequest' # None => Announced(missRequest)'
    BY <1>8 DEF Announced
  <2>3. missRequest' # None /\ hitRequest' # None => hitRequest'.dest # missRequest'.dest
    BY <1>3, <1>4, <1>5, <1>7 DEF RInv, RequestsOK
  <2>. QED BY <2>1, <2>2, <2>3 DEF RequestsOK
<1>. QED BY <1>2, <1>3, <1>9

(* ... and its requester sees it come further.                             *)
LEMMA Advances ==
    ASSUME BInv, BInv', RInv, RInv', state = "REQUEST", NEW p, Same(p, hitRequest), RequestOK(p),
           p.data = hitRequest.data, p.done = hitRequest.done + 1,
           hitRequest.op \notin Atomics \cup {"STORE_CONDITIONAL"},
           NEW last, last <=> p.eop \/ p.done = totalIterations(hitRequest),
           hitRequest' = IF last THEN None ELSE p, missRequest' = missRequest, KeepsWaiting
    PROVE  /\ hitRequest.dest \in Dest /\ ToServe[hitRequest.dest] # <<>>
           /\ ToServe[hitRequest.dest][1] = Seen(hitRequest)
           /\ Service!Progress(hitRequest.dest, last)
<1>1. /\ hitRequest \in Operation /\ p \in Operation /\ p # None
      /\ totalIterations(p) = totalIterations(hitRequest)
      /\ p.op = hitRequest.op /\ p.dest = hitRequest.dest
  BY Fields, SameRequest DEF BInv, HitOK, RequestOK, Same
<1>2. Seen(p) = Iterated(Seen(hitRequest))
  BY <1>1, SeenMoves
<1>3. p.done <= totalIterations(hitRequest) /\ hitRequest.done \in Nat
      /\ totalIterations(hitRequest) \in Nat
  BY <1>1, Fields, Totals DEF RequestOK
<1>4. ~Served(hitRequest) /\ (~last => ~Served(p))
  BY <1>1, <1>3 DEF Served, Decided
<1> DEFINE b == hitRequest' = None
<1>5. b \in BOOLEAN /\ (b <=> last)
  BY <1>1
<1>6. IF b THEN hitRequest' = None \/ Served(hitRequest')
      ELSE hitRequest' # None /\ ~Served(hitRequest') /\ Seen(hitRequest') = Iterated(Seen(hitRequest))
  BY <1>1, <1>2, <1>4, <1>5
<1>7. hitRequest' # None => hitRequest'.dest = hitRequest.dest
  BY <1>1
<1> HIDE DEF b
<1>8. /\ hitRequest.dest \in Dest /\ ToServe[hitRequest.dest] # <<>>
      /\ ToServe[hitRequest.dest][1] = Seen(hitRequest)
      /\ Service!Progress(hitRequest.dest, b)
  BY <1>4, <1>5, <1>6, <1>7, HitMoves DEF RInv
<1>9. Service!Progress(hitRequest.dest, b) <=> Service!Progress(hitRequest.dest, last)
  BY <1>5 DEF Service!Progress
<1>. QED BY <1>8, <1>9

(* A load answers with the word that is in memory.                         *)
LEMMA ExecuteLoadServes ==
    ASSUME BInv, BInv', RInv, ExecuteLoad
    PROVE  RInv' /\ ServiceStep
<1> DEFINE r    == hitRequest
           word == data[LineOf[r.tag]][CurrentOff(r)]
           e    == r.op = "IPK_READ" /\ word \in EndOfPacketWords
           p    == [Iterated(r) EXCEPT !.eop = e]
<1>1. /\ state = "REQUEST" /\ r.op \in Loads /\ Executing(r)
      /\ sendResult(r, word)
      /\ reservations' = IF r.op = "LOAD_LINKED"
                         THEN [dest |-> r.dest, tag |-> r.tag, off |-> r.off]
                         ELSE reservations
      /\ Retire(p)
      /\ UNCHANGED <<previousState, missRequest, metadata, data, flushing, missBuffer,
                     copyingToMissBuffer, inputs, inResponseQueue, outputReqQueue,
                     sending, workload, beyond>>
  BY DEF ExecuteLoad
<1>2. /\ RequestOK(r) /\ r \in Operation /\ r # None
      /\ r.done + 1 <= totalIterations(r)
      /\ ~needsForwarding(r) /\ preconditionsMet(r, inCache(r))
      /\ CurrentOff(r) \in Off /\ r.tag \in Tag /\ r.saved \in Val \cup {None}
      /\ r.done \in Nat /\ totalIterations(r) \in Nat
  BY <1>1, Executes, Fields, Totals DEF Loads, AllLines
<1>3. word \in Val /\ e \in BOOLEAN
  BY <1>2, ServedTypes
<1>4. Moved(p, r, r.done + 1, r.saved, e) /\ p.data = r.data /\ p.fresh = r.fresh
  BY <1>2, <1>3, Progress, Carried
<1> HIDE DEF e, p, word
<1>5. p \in Operation /\ Same(p, r) /\ p.done = r.done + 1 /\ p.saved = r.saved /\ p.eop = e
      /\ totalIterations(p) = totalIterations(r) /\ p.op = r.op
  BY <1>4, SameRequest DEF Moved, Same
<1>6. RequestOK(p) /\ Remaining(p) = 0 /\ Remaining(r) = 0
  <2>1. r.saved = None
    BY <1>1, <1>2 DEF RequestOK, Loads, Atomics
  <2>2. RequestOK(p)
    BY <1>1, <1>2, <1>5, <2>1 DEF RequestOK, Loads, Atomics
  <2>3. Remaining(p) = 0 /\ Remaining(r) = 0
    BY <1>1, <1>5 DEF Remaining, payloadFlits, Loads, Atomics, Directory
  <2>. QED BY <2>2, <2>3
<1>7. TakesNone
  BY <1>1 DEF TakesNone
<1>8. Serves(p) \/ (Retires /\ Remaining(p) = 0)
  BY <1>1, <1>6, Retiring
<1>9. r.op # "PREFETCH_LINE" /\ r.op # "MEMSET_LINE" /\ r.op # "STORE_CONDITIONAL"
      /\ r.op \notin NoPreconditions /\ ~claimsLine(r) /\ r.op \notin Atomics
  BY <1>1 DEF Loads, NoPreconditions, AllLines, Directory, claimsLine, Atomics
<1> DEFINE last == p.eop \/ p.done = totalIterations(r)
<1>10. /\ RequestsOK' /\ hitRequest' = (IF last THEN None ELSE p)
       /\ state' \in {"REQUEST", "IDLE"} /\ p # None
  BY <1>1, <1>2, <1>4, <1>5, <1>6, <1>9, RequestsServed
<1>11. BufferedOK' /\ \A side \in Sides : PayloadOK(side)'
  BY <1>1, <1>4, <1>5, <1>6, <1>7, <1>8, <1>10, PayloadServed
<1>12. FetchOK' /\ StoredOK' /\ KeepsBelow /\ KeepsAwaited
  BY <1>1, <1>10, ServedFrame
<1>13. ~r.fresh /\ Plain(hitRequest) /\ Plain(hitRequest')
  <2>1. ~r.fresh
    BY <1>2, <1>9 DEF RInv, RequestsOK, Announced
  <2>. QED BY <1>4, <1>5, <1>9, <1>10, <2>1 DEF Plain, Decided
<1>14. KeepsMem /\ CleanOK' /\ TagsOK'
  BY <1>1, <1>12, <1>13, PlainFrame DEF RInv
<1>15. Link = reservations /\ Link' = reservations'
  BY <1>13, PlainLink
<1>16. RInv'
  BY <1>10, <1>11, <1>12, <1>14 DEF RInv
<1>17. Mem' = Mem /\ Below' = Below
  BY <1>12, <1>14, MemKept
<1>18. KeepsWaiting
  BY <1>1, WaitingKept
<1>19. /\ r.dest \in Dest /\ ToServe[r.dest] # <<>> /\ ToServe[r.dest][1] = Seen(r)
       /\ Service!Progress(r.dest, last)
  BY <1>1, <1>4, <1>5, <1>6, <1>9, <1>10, <1>16, <1>18, Advances
<1> DEFINE s == Seen(r)
<1>20. /\ s.op = r.op /\ s.tag = r.tag /\ s.off = r.off /\ s.skip = r.skip /\ s.done = r.done
       /\ Same(s, r)
  BY <1>2, SeenIs
<1>21. Mem[r.tag][CurrentOff(r)] = word
  <2>1. Filled(r.tag, CurrentOff(r))
    BY <1>1, <1>9, <1>13, Present DEF Filled, Claimed
  <2>2. ~AboutToWrite(r.tag, CurrentOff(r))
    BY <1>9 DEF AboutToWrite, Decided
  <2>. QED BY <1>2, <2>1, <2>2 DEF Mem, MemWord, word
<1> HIDE DEF s
<1>22. CurrentOff(s) = CurrentOff(r)
  BY <1>20 DEF CurrentOff
<1>23. last <=> Service!Last(s) \/ (s.op = "IPK_READ" /\ word \in EndOfPacketWords)
  <2>1. totalIterations(s) = totalIterations(r)
    BY <1>20, SameRequest
  <2>2. Service!Last(s) <=> r.done + 1 = totalIterations(r)
    BY <1>20, <2>1, ServiceIs DEF Service!Last
  <2>. QED BY <1>5, <1>20, <2>2 DEF e
<1>24. Service!Word(s.tag, Service!CurrentOff(s)) = word
  BY <1>20, <1>21, <1>22, ServiceIs DEF Service!Word
<1>25. Service!Serves(r.dest, Loads)
  <2>1. ~s.skip /\ s.op \in Loads
    BY <1>1, <1>2, <1>20 DEF needsForwarding
  <2>. QED BY <1>19, <2>1 DEF Service!Serves, s
<1>26. Service!Results(r.dest, word)
  BY <1>1, <1>9 DEF sendResult, HasReturnAddress, Service!Results
<1>27. Service!Load(r.dest)
  <2>1. Service!Progress(r.dest, last)
          <=> Service!Progress(r.dest, Service!Last(s) \/ (s.op = "IPK_READ" /\ word \in EndOfPacketWords))
    BY <1>23 DEF Service!Progress
  <2>2. ToServe[r.dest][1] = s
    BY <1>19 DEF s
  <2> HIDE DEF last, r
  <2>3. Service!Results(r.dest, word) /\ Service!Serves(r.dest, Loads)
    BY <1>25, <1>26
  <2>4. Link' = IF s.op = "LOAD_LINKED"
                THEN [dest |-> r.dest, tag |-> s.tag, off |-> s.off] ELSE Link
    BY <1>1, <1>15, <1>20 DEF r
  <2>5. Service!Loads = Loads
    BY ServiceIs
  <2>. QED BY <1>17, <1>19, <1>24, <2>1, <2>2, <2>3, <2>4, <2>5 DEF Service!Load
<1>28. Service!SNext
  BY <1>19, <1>27 DEF Service!SNext, Service!Serve
<1>. QED BY <1>16, <1>28 DEF ServiceStep

(* The reservation in force, when no write is decided.                     *)
LEMMA LinkIs ==
    /\ (hitRequest = None \/ ~Decided(hitRequest)) => Link = reservations
    /\ (hitRequest' = None \/ ~Decided(hitRequest')) => Link' = reservations'
<1>1. ASSUME hitRequest = None \/ ~Decided(hitRequest) PROVE Link = reservations
  BY <1>1 DEF Link, AboutToWrite
<1>2. ASSUME hitRequest' = None \/ ~Decided(hitRequest') PROVE Link' = reservations'
  BY <1>2 DEF Link, AboutToWrite, Decided
<1>. QED BY <1>1, <1>2

(* What writeWord() does to the tags and the words.                        *)
LEMMA WriteIs ==
    ASSUME SramTypes, NEW t \in Tag, NEW o \in Off, NEW v \in Val, writeWord(t, o, v)
    PROVE  /\ LineOf[t] \in Line /\ metadata'[LineOf[t]].dirty
           /\ \A l \in Line : /\ metadata'[l].tag = metadata[l].tag
                              /\ metadata'[l].valid = metadata[l].valid
                              /\ l # LineOf[t] => metadata'[l].dirty = metadata[l].dirty
                              /\ \A x \in Off : data'[l][x] = IF l = LineOf[t] /\ x = o THEN v
                                                              ELSE data[l][x]
           /\ reservations' \in {reservations, None}
           /\ reservations # None /\ reservations.tag = t /\ reservations.off = o
                => reservations' = None
<1> DEFINE line == LineOf[t]
<1>1. line \in Line
  BY BankAssumption
<1>2. /\ data' = [data EXCEPT ![line][o] = v]
      /\ metadata' = [metadata EXCEPT ![line].dirty = TRUE]
      /\ reservations' = IF reservations # None /\ LineOf[reservations.tag] = line
                               /\ reservations.off = o
                         THEN None ELSE reservations
      /\ metadata \in [Line -> [tag : Tag, valid : BOOLEAN, dirty : BOOLEAN]]
      /\ data \in [Line -> [Off -> Val]]
  BY DEF writeWord, SramTypes
<1>3. /\ reservations' \in {reservations, None}
      /\ reservations # None /\ reservations.tag = t /\ reservations.off = o
           => reservations' = None
  BY <1>2
<1> HIDE DEF line
<1>4. /\ metadata'[line].dirty
      /\ \A l \in Line : /\ metadata'[l].tag = metadata[l].tag
                         /\ metadata'[l].valid = metadata[l].valid
                         /\ l # line => metadata'[l].dirty = metadata[l].dirty
  BY <1>1, <1>2
<1>5. \A l \in Line, x \in Off : data'[l][x] = IF l = line /\ x = o THEN v ELSE data[l][x]
  BY <1>1, <1>2
<1>. QED BY <1>1, <1>3, <1>4, <1>5 DEF line

(* A word is written, by the request that has its line.                    *)
LEMMA WriteMem ==
    ASSUME SramTypes, TagsOK, CleanOK, NEW t \in Tag, NEW o \in Off, NEW v \in Val,
           writeWord(t, o, v), contains(t), ~Awaited(t), KeepsBelow, KeepsAwaited,
           hitRequest # None, hitRequest.tag = t, hitRequest.done \in Nat,
           hitRequest.fresh => hitRequest.done = o,
           hitRequest' # None => /\ hitRequest'.tag = t
                                 /\ hitRequest'.fresh = hitRequest.fresh
                                 /\ hitRequest'.done = hitRequest.done + 1,
           hitRequest.fresh /\ hitRequest' = None => o = WordsPerLine - 1,
           \A u, x : AboutToWrite(u, x) => u = t /\ x = o,
           \A u, x : ~AboutToWrite(u, x)'
    PROVE  /\ \A u \in Tag, x \in Off : MemWord(u, x)' = IF u = t /\ x = o THEN v ELSE MemWord(u, x)
           /\ CleanOK' /\ TagsOK'
<1>1. /\ LineOf[t] \in Line /\ metadata'[LineOf[t]].dirty
      /\ \A l \in Line : /\ metadata'[l].tag = metadata[l].tag
                         /\ metadata'[l].valid = metadata[l].valid
                         /\ l # LineOf[t] => metadata'[l].dirty = metadata[l].dirty
                         /\ \A x \in Off : data'[l][x] = IF l = LineOf[t] /\ x = o THEN v
                                                         ELSE data[l][x]
  BY WriteIs
<1>2. \A u \in Tag : LineOf[u] \in Line
  BY BankAssumption
<1>3. \A u \in Tag : contains(u)' <=> contains(u)
  BY <1>1, <1>2 DEF contains
<1>4. TagsOK'
  BY <1>1 DEF TagsOK
<1>5. \A u \in Tag, x \in Off : contains(u) /\ ~(u = t /\ x = o)
                                  => data'[LineOf[u]][x] = data[LineOf[u]][x]
  <2>1. \A u \in Tag : contains(u) /\ u # t => LineOf[u] # LineOf[t]
    BY DEF contains
  <2>. QED BY <1>1, <1>2, <2>1
<1>6. \A u \in Tag, x \in Off : ~(u = t /\ x = o) => (Claimed(u, x)' <=> Claimed(u, x))
  <2>. SUFFICES ASSUME NEW u \in Tag, NEW x \in Off, ~(u = t /\ x = o)
                PROVE  Claimed(u, x)' <=> Claimed(u, x)
    OBVIOUS
  <2>1. x \in Nat /\ o \in Nat /\ x <= WordsPerLine - 1
    BY LineAssumption DEF Off
  <2>2. CASE u # t
    BY <2>2 DEF Claimed
  <2>3. CASE u = t
    <3>1. x # o
      BY <2>3
    <3>2. CASE ~hitRequest.fresh
      BY <2>3, <3>2 DEF Claimed
    <3>3. CASE hitRequest.fresh
      <4>1. hitRequest.done = o /\ (Claimed(u, x) <=> x >= o)
        BY <2>3, <3>3 DEF Claimed
      <4>2. CASE hitRequest' = None
        BY <2>1, <3>1, <3>3, <4>1, <4>2, LineAssumption DEF Claimed
      <4>3. CASE hitRequest' # None
        <5>1. Claimed(u, x)' <=> x >= o + 1
          BY <2>3, <3>3, <4>1, <4>3 DEF Claimed
        <5>. QED BY <2>1, <3>1, <4>1, <5>1
      <4>. QED BY <4>2, <4>3
    <3>. QED BY <3>2, <3>3
  <2>. QED BY <2>2, <2>3
<1>7. ~Claimed(t, o)'
  <2>1. o \in Nat
    BY LineAssumption DEF Off
  <2>. QED BY <2>1 DEF Claimed
<1>8. /\ \A u \in Tag, x \in Off : ~(u = t /\ x = o) => (Filled(u, x)' <=> Filled(u, x))
      /\ Filled(t, o)'
  BY <1>3, <1>6, <1>7 DEF Filled, KeepsAwaited
<1>9. \A u \in Tag, x \in Off : MemWord(u, x)' = IF u = t /\ x = o THEN v ELSE MemWord(u, x)
  <2>1. ASSUME NEW u \in Tag, NEW x \in Off, ~(u = t /\ x = o)
        PROVE  MemWord(u, x)' = MemWord(u, x)
    <3>1. BelowWord(u, x)' = BelowWord(u, x)
      BY DEF KeepsBelow
    <3>2. ~AboutToWrite(u, x) /\ ~AboutToWrite(u, x)'
      BY <2>1
    <3>3. (Filled(u, x)' <=> Filled(u, x)) /\ (Filled(u, x) => contains(u))
      BY <1>8, <2>1 DEF Filled
    <3>. QED BY <1>5, <2>1, <3>1, <3>2, <3>3 DEF MemWord
  <2>2. MemWord(t, o)' = v
    <3>1. data'[LineOf[t]][o] = v
      BY <1>1
    <3>. QED BY <1>8, <3>1 DEF MemWord
  <2>. QED BY <2>1, <2>2
<1>10. CleanOK'
  <2>1. ASSUME NEW u \in Tag, NEW x \in Off, contains(u)', ~metadata'[LineOf[u]].dirty, Filled(u, x)'
        PROVE  data'[LineOf[u]][x] = BelowWord(u, x)'
    <3>1. LineOf[u] # LineOf[t] /\ u # t
      BY <1>1, <2>1
    <3>2. contains(u) /\ ~metadata[LineOf[u]].dirty /\ Filled(u, x)
      BY <1>1, <1>2, <1>3, <1>8, <2>1, <3>1
    <3>3. data[LineOf[u]][x] = BelowWord(u, x)
      BY <3>2 DEF CleanOK
    <3>. QED BY <1>5, <3>1, <3>2, <3>3 DEF KeepsBelow
  <2>. QED BY <2>1 DEF CleanOK
<1>. QED BY <1>4, <1>9, <1>10

(* ... as its requester sees it.                                           *)
LEMMA MemWritten ==
    ASSUME NEW t \in Tag, NEW o \in Off, NEW v,
           \A u \in Tag, x \in Off : MemWord(u, x)' = IF u = t /\ x = o THEN v ELSE MemWord(u, x)
    PROVE  Mem' = [Mem EXCEPT ![t][o] = v]
<1> DEFINE before == Mem
           after  == Mem'
<1>1. /\ after = [u \in Tag |-> [x \in Off |-> MemWord(u, x)']]
      /\ before = [u \in Tag |-> [x \in Off |-> MemWord(u, x)]]
  BY DEF Mem
<1> HIDE DEF before, after
<1>2. after = [before EXCEPT ![t][o] = v]
  BY <1>1
<1>. QED BY <1>2 DEF before, after

(* The reservation that is left is one the service may leave.              *)
LEMMA ServiceWrites ==
    ASSUME SramTypes, NEW t \in Tag, NEW o \in Off, NEW v \in Val, writeWord(t, o, v),
           Link = reservations, Link' = reservations',
           \A u \in Tag, x \in Off : MemWord(u, x)' = IF u = t /\ x = o THEN v ELSE MemWord(u, x)
    PROVE  Service!Write(t, o, v)
<1>1. Mem' = [Mem EXCEPT ![t][o] = v]
  BY MemWritten
<1>2. /\ Link' \in {Link, None}
      /\ Link # None /\ Link.tag = t /\ Link.off = o => Link' = None
  BY WriteIs
<1>. QED BY <1>1, <1>2 DEF Service!Write

(* A store writes the next word that it came with.                         *)
LEMMA StoreServes ==
    ASSUME BInv, BInv', RInv, state = "REQUEST", Executing(hitRequest), hitRequest.op \in Stores,
           NEW p, Same(p, hitRequest), RequestOK(p), p.data = hitRequest.data,
           p.fresh = hitRequest.fresh, p.eop = hitRequest.eop, p.done = hitRequest.done + 1,
           p.op = "MEMSET_LINE" => p.saved \in {None, p.data[1]},
           NEW v \in Val,
           v = hitRequest.data[IF hitRequest.op = "MEMSET_LINE" THEN 1 ELSE hitRequest.done + 1],
           writeWord(hitRequest.tag, CurrentOff(hitRequest), v), Retire(p),
           \/ TakesNone /\ Remaining(p) = Remaining(hitRequest)
           \/ Takes(hitRequest) /\ Remaining(p) = Remaining(hitRequest) - 1,
           UNCHANGED <<previousState, missRequest, flushing, copyingToMissBuffer,
                       inResponseQueue, outputReqQueue, output, sending, workload, beyond>>
    PROVE  RInv' /\ ServiceStep
<1> DEFINE r == hitRequest
           o == CurrentOff(r)
           last == p.eop \/ p.done = totalIterations(r)
<1>1. /\ RequestOK(r) /\ r \in Operation /\ r # None
      /\ r.done + 1 <= totalIterations(r)
      /\ ~needsForwarding(r) /\ preconditionsMet(r, inCache(r))
      /\ o \in Off /\ r.tag \in Tag /\ r.dest \in Dest
      /\ r.done \in Nat /\ totalIterations(r) \in Nat
  BY Executes, Fields, Totals DEF Stores, AllLines
<1>2. /\ r.op # "PREFETCH_LINE" /\ r.op # "STORE_CONDITIONAL" /\ r.op \notin NoPreconditions
      /\ r.op \notin Atomics \cup {"STORE_CONDITIONAL"} /\ p.op = r.op /\ p.tag = r.tag
      /\ totalIterations(p) = totalIterations(r) /\ ~r.eop
  BY <1>1, SameRequest DEF Stores, NoPreconditions, AllLines, Directory, Atomics, Same,
                           RequestOK, Loads
<1>3. /\ RequestsOK' /\ hitRequest' = (IF last THEN None ELSE p)
      /\ state' \in {"REQUEST", "IDLE"} /\ p # None
  BY <1>1, <1>2, RequestsServed
<1>4. Serves(p) \/ (Retires /\ Remaining(p) = 0)
  BY Retiring
<1>5. BufferedOK' /\ \A side \in Sides : PayloadOK(side)'
  BY <1>3, <1>4, PayloadServed
<1>6. FetchOK' /\ StoredOK' /\ KeepsBelow /\ KeepsAwaited
  BY <1>3, ServedFrame
<1>7. KeepsWaiting
  BY WaitingServed
<1>8. ~Decided(r) /\ (hitRequest' = None \/ ~Decided(hitRequest'))
  BY <1>2, <1>3 DEF Decided
<1>9. Link = reservations /\ Link' = reservations'
  BY <1>8, LinkIs
<1>10. /\ r.fresh => r.done = o
       /\ r.fresh /\ hitRequest' = None => o = WordsPerLine - 1
  <2>. SUFFICES ASSUME r.fresh
                PROVE  r.done = o /\ (hitRequest' = None => o = WordsPerLine - 1)
    OBVIOUS
  <2>1. wholeLine(r.op)
    BY <1>1 DEF RInv, RequestsOK, Announced, claimsLine, wholeLine, Stores
  <2>2. r.done = o
    BY <2>1 DEF CurrentOff
  <2>3. totalIterations(r) = WordsPerLine
    BY <2>1 DEF totalIterations
  <2>4. hitRequest' = None => r.done + 1 = WordsPerLine
    BY <1>2, <1>3, <2>3
  <2>. QED BY <1>1, <2>2, <2>4, LineAssumption
<1>11. SramTypes /\ contains(r.tag) /\ ~Awaited(r.tag)
  BY <1>2, Present, ServedTypes
<1>12. /\ \A u, x : ~AboutToWrite(u, x)
       /\ \A u, x : ~AboutToWrite(u, x)'
  BY <1>8 DEF AboutToWrite, Decided
<1>13. TagsOK /\ CleanOK
  BY DEF RInv
<1>14. hitRequest' # None => /\ hitRequest'.tag = r.tag
                             /\ hitRequest'.fresh = r.fresh
                             /\ hitRequest'.done = r.done + 1
  BY <1>2, <1>3
<1> DEFINE t == r.tag
<1> HIDE DEF o, last, t
<1>15. /\ \A u \in Tag, x \in Off : MemWord(u, x)' = IF u = t /\ x = o THEN v ELSE MemWord(u, x)
       /\ CleanOK' /\ TagsOK'
  <2>1. t \in Tag /\ r.tag = t /\ writeWord(t, o, v) /\ contains(t) /\ ~Awaited(t)
        /\ (hitRequest' # None => hitRequest'.tag = t)
    BY <1>1, <1>11, <1>14 DEF t, o
  <2>. QED BY <1>1, <1>6, <1>10, <1>11, <1>12, <1>13, <1>14, <2>1, WriteMem
<1>16. RInv'
  BY <1>3, <1>5, <1>6, <1>15 DEF RInv
<1>17. Service!Write(t, o, v)
  <2>1. t \in Tag /\ writeWord(t, o, v)
    BY <1>1 DEF t, o
  <2>. QED BY <1>1, <1>9, <1>11, <1>15, <2>1, ServiceWrites
<1>18. /\ r.dest \in Dest /\ ToServe[r.dest] # <<>> /\ ToServe[r.dest][1] = Seen(r)
       /\ Service!Progress(r.dest, last)
  <2>1. last <=> p.eop \/ p.done = totalIterations(hitRequest)
    BY DEF last
  <2>. QED BY <1>2, <1>3, <1>7, <1>16, <2>1, Advances
<1> DEFINE s == Seen(r)
<1>19. /\ s.op = r.op /\ s.tag = r.tag /\ s.off = r.off /\ s.skip = r.skip /\ s.done = r.done
       /\ s.data = r.data /\ Same(s, r)
  BY <1>1, SeenIs
<1> HIDE DEF s
<1>20. Service!CurrentOff(s) = o
  BY <1>19, ServiceIs DEF CurrentOff, o
<1>21. last <=> Service!Last(s)
  <2>1. totalIterations(s) = totalIterations(r)
    BY <1>19, SameRequest
  <2>. QED BY <1>2, <1>19, <2>1, ServiceIs DEF Service!Last, last
<1>22. Service!Serves(r.dest, Service!Stores)
  <2>1. ~s.skip /\ s.op \in Service!Stores
    BY <1>1, <1>19, ServiceIs DEF needsForwarding
  <2>. QED BY <1>18, <2>1 DEF Service!Serves, s
<1>23. Service!Progress(r.dest, Service!Last(s))
  BY <1>18, <1>21 DEF Service!Progress
<1>24. Service!Store(r.dest)
  <2>1. ToServe[r.dest][1] = s
    BY <1>18 DEF s
  <2>2. Below' = Below
    BY <1>6, MemKept
  <2>3. v = s.data[IF s.op = "MEMSET_LINE" THEN 1 ELSE s.done + 1] /\ s.tag = t
    BY <1>19 DEF t
  <2> HIDE DEF r
  <2>. QED BY <1>17, <1>20, <1>22, <1>23, <2>1, <2>2, <2>3 DEF Service!Store
<1>25. Service!SNext
  BY <1>18, <1>24 DEF Service!SNext, Service!Serve
<1>. QED BY <1>16, <1>25 DEF ServiceStep

(* A store takes a payload flit and writes it.                             *)
LEMMA ExecuteStoreServes ==
    ASSUME BInv, BInv', RInv, ExecuteStore
    PROVE  RInv' /\ ServiceStep
<1> DEFINE p == Iterated(hitRequest)
           v == NextPayload(hitRequest)
<1>1. /\ state = "REQUEST" /\ hitRequest.op \in Stores \ {"MEMSET_LINE"}
      /\ Executing(hitRequest) /\ Takes(hitRequest)
      /\ writeWord(hitRequest.tag, CurrentOff(hitRequest), v)
      /\ Retire(p)
      /\ UNCHANGED <<previousState, missRequest, flushing, copyingToMissBuffer,
                     inResponseQueue, outputReqQueue, output, sending, workload, beyond>>
  BY DEF ExecuteStore, Takes
<1>2. /\ RequestOK(hitRequest) /\ hitRequest \in Operation
      /\ hitRequest.done + 1 <= totalIterations(hitRequest)
  BY <1>1, Executes DEF Stores, AllLines
<1>3. /\ v \in Val /\ hitRequest.done \in Nat
      /\ hitRequest.saved \in Val \cup {None} /\ hitRequest.eop \in BOOLEAN
  BY <1>1, <1>2, Fields, PayloadTaken
<1>4. Moved(p, hitRequest, hitRequest.done + 1, hitRequest.saved, hitRequest.eop)
      /\ p.data = hitRequest.data /\ p.fresh = hitRequest.fresh
  BY <1>2, <1>3, Progress, Carried
<1> HIDE DEF p
<1>5. p \in Operation /\ Same(p, hitRequest) /\ p.done = hitRequest.done + 1
      /\ p.saved = hitRequest.saved /\ p.eop = hitRequest.eop
  BY <1>4 DEF Moved
<1>6. RequestOK(p) /\ p.op = hitRequest.op
  <2>1. p.op \in Stores \ {"MEMSET_LINE"} /\ p.op = hitRequest.op
        /\ totalIterations(p) = totalIterations(hitRequest)
    BY <1>1, <1>5, SameRequest DEF Same
  <2>2. hitRequest.saved = None /\ ~hitRequest.eop
    BY <1>1, <1>2 DEF RequestOK, Loads, Atomics, Stores
  <2>. QED BY <1>2, <1>5, <2>1, <2>2 DEF RequestOK, Loads, Stores, Atomics
<1>7. /\ Remaining(p) = Remaining(hitRequest) - 1
      /\ payloadFlits(hitRequest.op) - Remaining(hitRequest) = hitRequest.done
  BY <1>1, <1>3, <1>5, LineAssumption DEF Same, Remaining, payloadFlits, Stores, Atomics, Directory
<1>8. v = hitRequest.data[hitRequest.done + 1]
  BY <1>1, <1>7, PayloadIs
<1> HIDE DEF v
<1>9. hitRequest.op \in Stores /\ hitRequest.op # "MEMSET_LINE"
  BY <1>1
<1>. QED BY <1>1, <1>3, <1>4, <1>5, <1>6, <1>7, <1>8, <1>9, StoreServes

(* MEMSET_LINE takes one payload flit and writes it to each word.          *)
LEMMA ExecuteMemsetServes ==
    ASSUME BInv, BInv', RInv, ExecuteMemset
    PROVE  RInv' /\ ServiceStep
<1> DEFINE word == IF hitRequest.saved = None THEN NextPayload(hitRequest) ELSE hitRequest.saved
           p    == [Iterated(hitRequest) EXCEPT !.saved = word]
<1>1. /\ state = "REQUEST" /\ hitRequest.op = "MEMSET_LINE" /\ Executing(hitRequest)
      /\ IF hitRequest.saved = None THEN Takes(hitRequest) ELSE TakesNone
      /\ writeWord(hitRequest.tag, CurrentOff(hitRequest), word)
      /\ Retire(p)
      /\ UNCHANGED <<previousState, missRequest, flushing, copyingToMissBuffer,
                     inResponseQueue, outputReqQueue, output, sending, workload, beyond>>
  BY DEF ExecuteMemset, Takes, TakesNone
<1>2. /\ RequestOK(hitRequest) /\ hitRequest \in Operation /\ hitRequest # None
      /\ hitRequest.done + 1 <= totalIterations(hitRequest)
  BY <1>1, Executes, Fields DEF AllLines
<1>3. /\ hitRequest.done \in Nat
      /\ hitRequest.saved \in Val \cup {None} /\ hitRequest.eop \in BOOLEAN
      /\ word \in Val
  BY <1>1, <1>2, Fields, PayloadTaken
<1> HIDE DEF word
<1>4. Moved(p, hitRequest, hitRequest.done + 1, word, hitRequest.eop)
      /\ p.data = hitRequest.data /\ p.fresh = hitRequest.fresh
  BY <1>2, <1>3, Progress, Carried
<1>5. word = hitRequest.data[1]
  <2>1. CASE hitRequest.saved = None
    <3>1. payloadFlits(hitRequest.op) - Remaining(hitRequest) + 1 = 1
      BY <1>1, <2>1 DEF payloadFlits, Remaining
    <3>. QED BY <1>1, <2>1, <3>1, PayloadIs DEF word
  <2>2. CASE hitRequest.saved # None
    BY <1>1, <1>2, <2>2 DEF RInv, RequestsOK, word
  <2>. QED BY <2>1, <2>2
<1> HIDE DEF p
<1>6. p \in Operation /\ Same(p, hitRequest) /\ p.done = hitRequest.done + 1
      /\ p.saved = word /\ word # None /\ p.eop = hitRequest.eop
  BY <1>3, <1>4, ValAssumption DEF Moved
<1>7. RequestOK(p) /\ p.op = "MEMSET_LINE"
  <2>1. p.op = "MEMSET_LINE" /\ totalIterations(p) = totalIterations(hitRequest)
    BY <1>1, <1>6, SameRequest DEF Same
  <2>2. ~hitRequest.eop /\ p.done # 0
    BY <1>1, <1>2, <1>3, <1>6 DEF RequestOK, Loads
  <2>. QED BY <1>2, <1>6, <2>1, <2>2 DEF RequestOK, Loads, Atomics
<1>8. Remaining(p) = 0 /\ Remaining(hitRequest) = IF hitRequest.saved = None THEN 1 ELSE 0
  BY <1>1, <1>6 DEF Same, Remaining
<1>9. \/ TakesNone /\ Remaining(p) = Remaining(hitRequest)
      \/ Takes(hitRequest) /\ Remaining(p) = Remaining(hitRequest) - 1
  BY <1>1, <1>8
<1>10. hitRequest.op \in Stores
  BY <1>1 DEF Stores
<1>. QED BY <1>1, <1>3, <1>4, <1>5, <1>6, <1>7, <1>9, <1>10, StoreServes

(* The cache is as it was, but for what is about to be written.            *)
LEMMA UnclaimedFrame ==
    ASSUME KeepsBelow, UNCHANGED <<metadata, data>>, KeepsAwaited,
           hitRequest # None => ~hitRequest.fresh, hitRequest' # None => ~hitRequest'.fresh
    PROVE  /\ CleanOK => CleanOK'
           /\ TagsOK => TagsOK'
           /\ \A u \in Tag, x \in Off :
                 /\ ~AboutToWrite(u, x) /\ ~AboutToWrite(u, x)' => MemWord(u, x)' = MemWord(u, x)
                 /\ AboutToWrite(u, x)' => MemWord(u, x)' = WordToWrite'
                 /\ AboutToWrite(u, x) => MemWord(u, x) = WordToWrite
                 /\ contains(u) /\ ~Awaited(u) /\ ~AboutToWrite(u, x)
                      => MemWord(u, x) = data[LineOf[u]][x]
<1>1. \A u, x : contains(u)' <=> contains(u)
  BY DEF contains
<1>2. \A u, x : ~Claimed(u, x) /\ ~Claimed(u, x)'
  BY DEF Claimed
<1>3. \A u, x : (Filled(u, x)' <=> Filled(u, x)) /\ (contains(u) /\ ~Awaited(u) => Filled(u, x))
  BY <1>1, <1>2 DEF Filled, KeepsAwaited
<1>4. CleanOK => CleanOK'
  BY <1>1, <1>3 DEF CleanOK, KeepsBelow
<1>5. TagsOK => TagsOK'
  BY DEF TagsOK
<1>6. ASSUME NEW u \in Tag, NEW x \in Off
      PROVE  /\ ~AboutToWrite(u, x) /\ ~AboutToWrite(u, x)' => MemWord(u, x)' = MemWord(u, x)
             /\ AboutToWrite(u, x)' => MemWord(u, x)' = WordToWrite'
             /\ AboutToWrite(u, x) => MemWord(u, x) = WordToWrite
             /\ contains(u) /\ ~Awaited(u) /\ ~AboutToWrite(u, x)
                  => MemWord(u, x) = data[LineOf[u]][x]
  <2>1. BelowWord(u, x)' = BelowWord(u, x)
    BY DEF KeepsBelow
  <2>. QED BY <1>3, <2>1 DEF MemWord
<1>. QED BY <1>4, <1>5, <1>6

(* Atomic operations and conditional stores take effect when they answer.  *)
LEMMA ExecuteFirstPhaseServes ==
    ASSUME BInv, BInv', RInv, ExecuteFirstPhase
    PROVE  RInv' /\ ServiceStep
<1> DEFINE r   == hitRequest
           old == data[LineOf[r.tag]][r.off]
           ok  == inCache(r) /\ reservations = [dest |-> r.dest, tag |-> r.tag, off |-> r.off]
           answer == IF r.op \in Atomics THEN old ELSE IF ok THEN 1 ELSE 0
           p == [r EXCEPT !.saved = answer]
<1>1. /\ state = "REQUEST" /\ r.op \in Atomics \cup {"STORE_CONDITIONAL"}
      /\ Executing(r) /\ r.saved = None
      /\ sendResult(r, answer)
      /\ hitRequest' = p
      /\ UNCHANGED <<state, previousState, missRequest, sram, flushing, buffer, inputs,
                     inResponseQueue, outputReqQueue, sending, workload, beyond>>
  BY DEF ExecuteFirstPhase
<1>2. UNCHANGED <<metadata, data, reservations, missBuffer, copyingToMissBuffer,
                  readingFromMissBuffer>>
  BY <1>1 DEF sram, buffer
<1>3. /\ RequestOK(r) /\ r \in Operation /\ r # None
      /\ r.done + 1 <= totalIterations(r) /\ totalIterations(r) = 1
      /\ ~needsForwarding(r) /\ preconditionsMet(r, inCache(r))
      /\ r.off \in Off /\ r.tag \in Tag /\ r.dest \in Dest /\ r.done = 0
      /\ ~r.eop
  <2>1. /\ RequestOK(r) /\ r \in Operation /\ r # None
        /\ r.done + 1 <= totalIterations(r)
        /\ ~needsForwarding(r) /\ preconditionsMet(r, inCache(r))
        /\ r.off \in Off /\ r.tag \in Tag /\ r.dest \in Dest /\ r.done \in Nat
    BY <1>1, Executes, Fields
  <2>2. totalIterations(r) = 1 /\ ~r.eop
    BY <1>1, <2>1, Totals DEF RequestOK, Loads, Atomics
  <2>. QED BY <2>1, <2>2
<1>4. answer \in Val /\ answer # None
  <2>1. old \in Val /\ 0 \in Val /\ 1 \in Val
    BY <1>3, ServedTypes, ValAssumption
  <2>. QED BY <2>1, ValAssumption
<1> HIDE DEF answer
<1>5. Moved(p, r, r.done, answer, r.eop) /\ p.data = r.data /\ p.fresh = r.fresh
  <2>1. Moved(p, r, r.done, answer, r.eop)
    BY <1>3, <1>4, Progress
  <2>2. p.data = r.data /\ p.fresh = r.fresh
    BY <1>3, Carried
  <2>. QED BY <2>1, <2>2
<1> HIDE DEF p
<1>6. p \in Operation /\ Same(p, r) /\ p.done = r.done /\ p.saved = answer /\ p.eop = r.eop
      /\ totalIterations(p) = 1 /\ p.op = r.op /\ p.tag = r.tag /\ p.off = r.off /\ p.dest = r.dest
      /\ (claimsLine(p) <=> claimsLine(r)) /\ (needsForwarding(p) <=> needsForwarding(r)) /\ p # None
  BY <1>3, <1>5, SameRequest, Fields DEF Moved, Same
<1>7. RequestOK(p) /\ Remaining(p) = Remaining(r)
  <2>1. RequestOK(p)
    BY <1>1, <1>3, <1>5, <1>6 DEF RequestOK, Atomics, Loads
  <2>2. Remaining(p) = Remaining(r)
    BY <1>1, <1>6 DEF Remaining, Atomics
  <2>. QED BY <2>1, <2>2
<1>8. Serves(p) /\ TakesNone /\ state' = "REQUEST" /\ ~Parked /\ ~Parked'
  BY <1>1, <1>2 DEF Serves, TakesNone, Parked
<1>9. BufferedOK' /\ \A side \in Sides : PayloadOK(side)'
  BY <1>1, <1>2, <1>5, <1>6, <1>7, <1>8, PayloadServed
<1>10. FetchOK' /\ StoredOK' /\ KeepsBelow /\ KeepsAwaited
  BY <1>1, <1>8, ServedFrame
<1>11. ~r.fresh /\ ~p.fresh /\ Announced(r) /\ Announced(p)
  <2>1. Announced(r)
    BY <1>3 DEF RInv, RequestsOK
  <2>2. ~claimsLine(r)
    BY <1>1 DEF claimsLine, Atomics
  <2>. QED BY <1>5, <1>6, <2>1, <2>2 DEF Announced
<1>12. ~Decided(r) /\ Decided(p) /\ Served(p) /\ ~Served(r)
  <2>1. ~Decided(r) /\ Decided(p)
    BY <1>1, <1>4, <1>6 DEF Decided
  <2>. QED BY <1>1, <2>1 DEF Served, AllLines, Atomics
<1>13. /\ CleanOK' /\ TagsOK'
       /\ \A u \in Tag, x \in Off :
             /\ ~AboutToWrite(u, x)
             /\ ~AboutToWrite(u, x)' => MemWord(u, x)' = MemWord(u, x)
             /\ AboutToWrite(u, x)' => MemWord(u, x)' = WordToWrite'
             /\ contains(u) /\ ~Awaited(u) => MemWord(u, x) = data[LineOf[u]][x]
  <2>1. \A u, x : ~AboutToWrite(u, x)
    BY <1>12 DEF AboutToWrite
  <2>2. /\ hitRequest # None => ~hitRequest.fresh
        /\ hitRequest' # None => ~hitRequest'.fresh
    BY <1>1, <1>11
  <2>. QED BY <1>2, <1>10, <2>1, <2>2, UnclaimedFrame DEF RInv
<1>14. RequestsOK'
  <2>1. p.op = "STORE_CONDITIONAL" => p.saved \in {None, 0} \/ inCache(hitRequest)'
    <3>1. inCache(hitRequest)' <=> inCache(r)
      BY <1>1, <1>2, <1>6 DEF inCache, contains
    <3>. QED BY <1>6, <3>1 DEF answer, Atomics
  <2>2. Announced(hitRequest)'
    BY <1>1, <1>11 DEF Announced, claimsLine, needsForwarding
  <2>3. p.op # "MEMSET_LINE" /\ ~p.eop /\ p.done < totalIterations(p)
    BY <1>1, <1>3, <1>6 DEF Atomics
  <2>4. missRequest' # None => Announced(missRequest)'
    BY <1>1 DEF RInv, RequestsOK, Announced, claimsLine, needsForwarding
  <2>5. missRequest' # None => hitRequest'.dest # missRequest'.dest
    BY <1>1, <1>3, <1>6, <1>8 DEF RInv, RequestsOK
  <2>6. totalIterations(hitRequest)' = totalIterations(p)
    BY <1>1 DEF totalIterations
  <2>. QED BY <1>1, <2>1, <2>2, <2>3, <2>4, <2>5, <2>6 DEF RequestsOK
<1>15. RInv'
  BY <1>9, <1>10, <1>13, <1>14 DEF RInv
<1>16. KeepsWaiting
  BY <1>1, WaitingKept
<1>17. /\ r.dest \in Dest /\ ToServe[r.dest] # <<>> /\ ToServe[r.dest][1] = Seen(r)
       /\ Service!Progress(r.dest, TRUE)
  BY <1>1, <1>6, <1>12, <1>15, <1>16, HitMoves DEF RInv
<1>18. Below' = Below
  BY <1>10, MemKept
<1>19. Service!Results(r.dest, answer)
  <2>1. HasReturnAddress(r)
    BY <1>1 DEF HasReturnAddress, Atomics
  <2>. QED BY <1>1, <2>1 DEF sendResult, Service!Results
<1> DEFINE s == Seen(r)
           d == r.dest
           t == r.tag
           o == r.off
<1>20. s.op = r.op /\ s.tag = t /\ s.off = o /\ s.dest = r.dest /\ ~s.skip /\ s.data = r.data
       /\ ToServe[d][1] = s /\ t \in Tag /\ o \in Off
  BY <1>3, <1>17, SeenIs DEF needsForwarding
<1>21. Link = reservations
  BY <1>12, LinkIs
<1>22. \A u, x : AboutToWrite(u, x)' <=> /\ u = t /\ x = o
                                         /\ ~(r.op = "STORE_CONDITIONAL" /\ answer = 0)
  <2>1. Decided(hitRequest)' <=> Decided(p)
    BY <1>1 DEF Decided
  <2>. QED BY <1>1, <1>6, <1>12, <2>1 DEF AboutToWrite
<1>23. WordToWrite' = IF r.op \in Atomics THEN AtomicUpdate(answer, r.data[1]) ELSE r.data[1]
  BY <1>1, <1>5, <1>6 DEF WordToWrite
<1> HIDE DEF s, d, t, o
<1>24. /\ ~(r.op = "STORE_CONDITIONAL" /\ answer = 0) =>
             /\ Mem' = [Mem EXCEPT ![t][o] = WordToWrite']
             /\ Link' = IF Link # None /\ Link.tag = t /\ Link.off = o THEN None ELSE Link
       /\ r.op = "STORE_CONDITIONAL" /\ answer = 0 => Mem' = Mem /\ Link' = Link
  <2>1. CASE ~(r.op = "STORE_CONDITIONAL" /\ answer = 0)
    <3>1. \A u \in Tag, x \in Off :
            MemWord(u, x)' = IF u = t /\ x = o THEN WordToWrite' ELSE MemWord(u, x)
      BY <1>13, <1>22, <2>1
    <3>2. Mem' = [Mem EXCEPT ![t][o] = WordToWrite']
      BY <1>20, <3>1, MemWritten
    <3>3. \A u, x : AboutToWrite(u, x)' <=> u = t /\ x = o
      BY <1>22, <2>1
    <3>4. Link' = IF reservations # None /\ reservations.tag = t /\ reservations.off = o
                  THEN None ELSE reservations
      BY <1>2, <3>3 DEF Link, AboutToWrite
    <3>5. Link' = IF Link # None /\ Link.tag = t /\ Link.off = o THEN None ELSE Link
      BY <1>21, <3>4
    <3>. QED BY <2>1, <3>2, <3>5
  <2>2. CASE r.op = "STORE_CONDITIONAL" /\ answer = 0
    <3>1. KeepsMem
      BY <1>13, <1>22, <2>2 DEF KeepsMem
    <3>2. Link' = reservations
      BY <1>2, <1>22, <2>2 DEF Link
    <3>. QED BY <1>21, <2>2, <3>1, <3>2, MemKept
  <2>. QED BY <2>1, <2>2
<1>25. CASE r.op \in Atomics
  <2>1. answer = old
    BY <1>25 DEF answer
  <2>2. Mem[t][o] = answer
    <3>1. contains(r.tag) /\ ~Awaited(r.tag)
      BY <1>1, <1>25, Present DEF Atomics, NoPreconditions, AllLines, Directory
    <3>2. MemWord(t, o) = data[LineOf[t]][o]
      BY <1>13, <1>20, <3>1 DEF t
    <3>. QED BY <1>20, <2>1, <3>2 DEF Mem, t, o
  <2>3. Mem' = [Mem EXCEPT ![t][o] = AtomicUpdate(answer, r.data[1])]
    BY <1>23, <1>24, <1>25 DEF Atomics
  <2>4. Service!Write(t, o, AtomicUpdate(answer, r.data[1]))
    BY <1>24, <1>25, <2>3 DEF Service!Write, Atomics
  <2>5. Service!Serves(d, Service!Atomics)
    BY <1>17, <1>20, <1>25, ServiceIs DEF Service!Serves, d
  <2>6. Service!Atomic(d)
    <3>1. Service!Results(d, answer) /\ Service!Progress(d, TRUE)
      BY <1>17, <1>19 DEF d
    <3> HIDE DEF r, old
    <3>. QED BY <1>18, <1>20, <2>2, <2>4, <2>5, <3>1 DEF Service!Atomic, Service!Word
  <2>7. Service!SNext
    BY <1>17, <2>6 DEF Service!SNext, Service!Serve, d
  <2>. QED BY <1>15, <2>7 DEF ServiceStep
<1>26. CASE r.op = "STORE_CONDITIONAL"
  <2>1. answer = IF ok THEN 1 ELSE 0
    BY <1>26 DEF answer, Atomics
  <2>2. Service!Serves(d, {"STORE_CONDITIONAL"})
    BY <1>17, <1>20, <1>26 DEF Service!Serves, d
  <2>3. \/ Link = [dest |-> d, tag |-> t, off |-> o]
              /\ Service!Results(d, 1) /\ Service!Write(t, o, r.data[1])
        \/ Service!Results(d, 0) /\ UNCHANGED <<Mem, Link>>
    <3>1. CASE ok
      <4>1. Link = [dest |-> d, tag |-> t, off |-> o]
        BY <1>21, <3>1 DEF d, t, o
      <4>2. Service!Results(d, 1)
        BY <1>19, <2>1, <3>1 DEF d
      <4>3. Mem' = [Mem EXCEPT ![t][o] = r.data[1]]
        BY <1>23, <1>24, <1>26, <2>1, <3>1 DEF Atomics
      <4>4. Link' = IF Link # None /\ Link.tag = t /\ Link.off = o THEN None ELSE Link
        BY <1>24, <2>1, <3>1
      <4>5. Service!Write(t, o, r.data[1])
        BY <4>3, <4>4 DEF Service!Write
      <4>. QED BY <4>1, <4>2, <4>5
    <3>2. CASE ~ok
      BY <1>19, <1>24, <1>26, <2>1, <3>2 DEF d
    <3>. QED BY <3>1, <3>2
  <2>4. Service!StoreConditional(d)
    <3>1. Service!Progress(d, TRUE)
      BY <1>17 DEF d
    <3> HIDE DEF r
    <3>. QED BY <1>18, <1>20, <2>2, <2>3, <3>1 DEF Service!StoreConditional
  <2>5. Service!SNext
    BY <1>17, <2>4 DEF Service!SNext, Service!Serve, d
  <2>. QED BY <1>15, <2>5 DEF ServiceStep
<1>. QED BY <1>1, <1>25, <1>26

(* At most a reservation is lost.                                          *)
LEMMA Unlinks ==
    ASSUME Mem' = Mem, Below' = Below, ToServe' = ToServe, output' = output,
           Link' \in {Link, None}
    PROVE  ServiceStep
<1>1. CASE Link' = Link
  BY <1>1 DEF ServiceStep
<1>2. CASE Link' = None
  <2>1. Service!Unlink
    BY <1>2 DEF Service!Unlink
  <2>. QED BY <2>1 DEF Service!SNext, ServiceStep
<1>. QED BY <1>1, <1>2

(* The second phase writes what was decided.                               *)
LEMMA ExecuteSecondPhaseServes ==
    ASSUME BInv, BInv', RInv, ExecuteSecondPhase
    PROVE  RInv' /\ ServiceStep
<1> DEFINE r    == hitRequest
           fails == r.op = "STORE_CONDITIONAL" /\ r.saved = 0
           word == IF r.op \in Atomics
                   THEN AtomicUpdate(r.saved, NextPayload(r)) ELSE NextPayload(r)
           p    == [Iterated(r) EXCEPT !.saved = None]
<1>1. /\ state = "REQUEST" /\ r.op \in Atomics \cup {"STORE_CONDITIONAL"}
      /\ Executing(r) /\ r.saved # None /\ Takes(r)
      /\ IF fails THEN UNCHANGED sram ELSE writeWord(r.tag, r.off, word)
      /\ Retire(p)
      /\ UNCHANGED <<previousState, missRequest, flushing, copyingToMissBuffer,
                     inResponseQueue, outputReqQueue, output, sending, workload, beyond>>
  BY DEF ExecuteSecondPhase, Takes
<1>2. /\ RequestOK(r) /\ r \in Operation /\ r # None
      /\ r.done + 1 <= totalIterations(r) /\ totalIterations(r) = 1
      /\ ~needsForwarding(r) /\ preconditionsMet(r, inCache(r))
      /\ r.off \in Off /\ r.tag \in Tag /\ r.dest \in Dest /\ r.done = 0
      /\ r.eop \in BOOLEAN /\ r.saved \in Val /\ NextPayload(r) \in Val
  <2>1. /\ RequestOK(r) /\ r \in Operation /\ r # None
        /\ r.done + 1 <= totalIterations(r)
        /\ ~needsForwarding(r) /\ preconditionsMet(r, inCache(r))
        /\ r.off \in Off /\ r.tag \in Tag /\ r.dest \in Dest /\ r.done \in Nat
        /\ r.eop \in BOOLEAN /\ r.saved \in Val
    BY <1>1, Executes, Fields
  <2>2. totalIterations(r) = 1
    BY <1>1, <2>1, Totals
  <2>3. NextPayload(r) \in Val
    BY <1>1, PayloadTaken
  <2>. QED BY <2>1, <2>2, <2>3
<1>3. Moved(p, r, r.done + 1, None, r.eop) /\ p.data = r.data /\ p.fresh = r.fresh
  <2>1. Moved(p, r, r.done + 1, None, r.eop)
    BY <1>2, Progress
  <2>2. p.data = r.data /\ p.fresh = r.fresh
    BY <1>2, Carried
  <2>. QED BY <2>1, <2>2
<1>4. word \in Val /\ word = WordToWrite
  <2>1. word \in Val
    BY <1>2, ValAssumption
  <2>2. NextPayload(r) = r.data[1]
    <3>1. payloadFlits(r.op) - Remaining(r) + 1 = 1
      BY <1>1, <1>2 DEF payloadFlits, Remaining, Atomics
    <3>. QED BY <1>1, <3>1, PayloadIs
  <2>. QED BY <2>1, <2>2 DEF WordToWrite
<1> HIDE DEF p, word
<1>5. p \in Operation /\ Same(p, r) /\ p.done = 1 /\ p.saved = None /\ p.eop = r.eop
      /\ p.op = r.op /\ totalIterations(p) = 1
  BY <1>2, <1>3, SameRequest DEF Moved, Same
<1>6. RequestOK(p) /\ Remaining(p) = Remaining(r) - 1
  <2>1. RequestOK(p)
    BY <1>1, <1>2, <1>5 DEF RequestOK, Atomics, Loads
  <2>2. Remaining(p) = Remaining(r) - 1
    BY <1>1, <1>2, <1>5 DEF Remaining, payloadFlits, Atomics
  <2>. QED BY <2>1, <2>2
<1>7. Serves(p) \/ (Retires /\ Remaining(p) = 0)
  BY <1>1, <1>6, Retiring
<1>8. r.op # "PREFETCH_LINE" /\ r.op # "MEMSET_LINE" /\ ~claimsLine(r) /\ ~r.eop
  BY <1>1, <1>2 DEF Atomics, claimsLine, RequestOK, Loads
<1>9. RequestsOK' /\ hitRequest' = None /\ state' \in {"REQUEST", "IDLE"} /\ p # None
  BY <1>1, <1>2, <1>3, <1>5, <1>6, <1>8, RequestsServed
<1>10. BufferedOK' /\ \A side \in Sides : PayloadOK(side)'
  BY <1>1, <1>3, <1>5, <1>6, <1>7, <1>9, PayloadServed
<1>11. FetchOK' /\ StoredOK' /\ KeepsBelow /\ KeepsAwaited
  BY <1>1, <1>9, ServedFrame
<1>12. KeepsWaiting
  BY <1>1, WaitingServed
<1>13. ~r.fresh /\ Decided(r) /\ Served(r)
  BY <1>1, <1>2, <1>8 DEF RInv, RequestsOK, Announced, Decided, Served
<1>14. /\ \A u, x : ~AboutToWrite(u, x)'
       /\ \A u, x : AboutToWrite(u, x) <=> u = r.tag /\ x = r.off /\ ~fails
  BY <1>2, <1>9, <1>13 DEF AboutToWrite
<1>15. Link' = reservations'
  BY <1>9, LinkIs
<1>16. KeepsMem /\ CleanOK' /\ TagsOK' /\ Link' \in {Link, None}
  <2>1. CASE fails
    <3>1. UNCHANGED <<metadata, data, reservations>>
      BY <1>1, <2>1 DEF sram
    <3>2. /\ hitRequest # None => ~hitRequest.fresh
          /\ hitRequest' # None => ~hitRequest'.fresh
      BY <1>9, <1>13
    <3>3. KeepsMem /\ CleanOK' /\ TagsOK'
      <4>1. \A u, x : ~AboutToWrite(u, x) /\ ~AboutToWrite(u, x)'
        BY <1>14, <2>1
      <4>2. CleanOK' /\ TagsOK' /\ \A u \in Tag, x \in Off : MemWord(u, x)' = MemWord(u, x)
        BY <1>11, <3>1, <3>2, <4>1, UnclaimedFrame DEF RInv
      <4>. QED BY <4>2 DEF KeepsMem
    <3>4. Link = reservations
      BY <1>14, <2>1 DEF Link
    <3>. QED BY <1>15, <3>1, <3>3, <3>4
  <2>2. CASE ~fails
    <3> DEFINE t == r.tag
               o == r.off
    <3>1. writeWord(t, o, word) /\ t \in Tag /\ o \in Off
      BY <1>1, <1>2, <2>2
    <3>2. contains(t) /\ ~Awaited(t)
      <4>1. ~Parked
        BY <1>1 DEF Parked
      <4>2. ~Awaited(t)
        BY <1>2, <4>1 DEF BInv, MissOK, Awaited
      <4>3. CASE r.op \in Atomics
        BY <1>2, <4>2, <4>3 DEF preconditionsMet, NoPreconditions, Atomics, AllLines, Directory,
                                inCache
      <4>4. CASE r.op = "STORE_CONDITIONAL"
        BY <1>1, <1>2, <2>2, <4>2, <4>4 DEF RInv, RequestsOK, inCache
      <4>. QED BY <1>1, <4>3, <4>4
    <3>3. SramTypes /\ TagsOK /\ CleanOK
      BY ServedTypes DEF RInv
    <3>4. /\ r.tag = t
          /\ \A u, x : AboutToWrite(u, x) <=> u = t /\ x = o
      BY <1>14, <2>2
    <3>5. reservations' \in {reservations, None}
          /\ (reservations # None /\ reservations.tag = t /\ reservations.off = o
                => reservations' = None)
      BY <1>4, <3>1, <3>3, WriteIs
    <3> HIDE DEF t, o
    <3>6. /\ \A u \in Tag, x \in Off :
                 MemWord(u, x)' = IF u = t /\ x = o THEN word ELSE MemWord(u, x)
          /\ CleanOK' /\ TagsOK'
      <4>1. hitRequest.done \in Nat /\ ~hitRequest.fresh /\ hitRequest # None /\ hitRequest' = None
            /\ hitRequest.tag = t
        BY <1>2, <1>9, <1>13, <3>4
      <4>2. /\ \A u, x : AboutToWrite(u, x) => u = t /\ x = o
            /\ \A u, x : ~AboutToWrite(u, x)'
        BY <1>14, <3>4
      <4>. QED BY <1>4, <1>11, <3>1, <3>2, <3>3, <4>1, <4>2, WriteMem
    <3>7. MemWord(t, o) = word
      BY <1>4, <3>4 DEF MemWord
    <3>8. KeepsMem
      BY <3>6, <3>7 DEF KeepsMem
    <3>9. Link' \in {Link, None}
      BY <1>15, <3>4, <3>5 DEF Link
    <3>. QED BY <3>6, <3>8, <3>9
  <2>. QED BY <2>1, <2>2
<1>17. RInv'
  BY <1>9, <1>10, <1>11, <1>16 DEF RInv
<1>18. ToServe' = ToServe
  BY <1>1, <1>9, <1>12, <1>13, <1>17, HitLeaves DEF RInv
<1>19. Mem' = Mem /\ Below' = Below
  BY <1>11, <1>16, MemKept
<1>20. output' = output
  BY <1>1
<1>. QED BY <1>16, <1>17, <1>18, <1>19, <1>20, Unlinks

-----------------------------------------------------------------------------
(* Lines are invalidated and flushed.                                      *)

(* A line is taken away: its words are as they are below.                  *)
LEMMA InvalidMem ==
    ASSUME SramTypes, TagsOK, CleanOK, NEW line \in Line, data' = data,
           metadata' = [metadata EXCEPT ![line].valid = FALSE],
           KeepsBelow, KeepsAwaited, Plain(hitRequest), Plain(hitRequest')
    PROVE  /\ CleanOK' /\ TagsOK'
           /\ \A u \in Tag, x \in Off :
                 MemWord(u, x)' = IF metadata[line].valid /\ metadata[line].tag = u
                                  THEN BelowWord(u, x) ELSE MemWord(u, x)
<1>1. \A l \in Line : /\ metadata'[l].tag = metadata[l].tag
                      /\ metadata'[l].dirty = metadata[l].dirty
                      /\ metadata'[l].valid <=> metadata[l].valid /\ l # line
  BY DEF SramTypes
<1>2. \A u \in Tag : LineOf[u] \in Line
  BY BankAssumption
<1>3. \A u \in Tag : contains(u)' <=> contains(u) /\ LineOf[u] # line
  BY <1>1, <1>2 DEF contains
<1>4. \A u \in Tag : contains(u) /\ LineOf[u] = line
                       <=> metadata[line].valid /\ metadata[line].tag = u
  BY DEF contains, TagsOK
<1>5. \A u, x : ~Claimed(u, x) /\ ~Claimed(u, x)' /\ ~AboutToWrite(u, x) /\ ~AboutToWrite(u, x)'
  BY DEF Claimed, AboutToWrite, Plain, Decided
<1>6. \A u \in Tag, x \in Off : Filled(u, x)' <=> Filled(u, x) /\ LineOf[u] # line
  BY <1>3, <1>5 DEF Filled, KeepsAwaited
<1>7. TagsOK'
  BY <1>1 DEF TagsOK
<1>8. CleanOK'
  BY <1>1, <1>2, <1>3, <1>6 DEF CleanOK, KeepsBelow
<1>9. ASSUME NEW u \in Tag, NEW x \in Off
      PROVE  MemWord(u, x)' = IF metadata[line].valid /\ metadata[line].tag = u
                              THEN BelowWord(u, x) ELSE MemWord(u, x)
  <2>1. BelowWord(u, x)' = BelowWord(u, x)
    BY DEF KeepsBelow
  <2>2. MemWord(u, x)' = IF Filled(u, x) /\ LineOf[u] # line THEN data[LineOf[u]][x]
                         ELSE BelowWord(u, x)
    BY <1>5, <1>6, <2>1 DEF MemWord
  <2>3. MemWord(u, x) = IF Filled(u, x) THEN data[LineOf[u]][x] ELSE BelowWord(u, x)
    BY <1>5 DEF MemWord
  <2>4. Filled(u, x) => contains(u)
    BY DEF Filled
  <2>. QED BY <1>4, <2>2, <2>3, <2>4
<1>. QED BY <1>7, <1>8, <1>9

(* ... as the requesters see it.                                           *)
LEMMA MemReverts ==
    ASSUME NEW t \in Tag,
           \A u \in Tag, x \in Off : MemWord(u, x)' = IF u = t THEN BelowWord(u, x) ELSE MemWord(u, x)
    PROVE  Mem' = [Mem EXCEPT ![t] = Below[t]]
<1> DEFINE before == Mem
           after  == Mem'
           under  == Below
<1>1. /\ after = [u \in Tag |-> [x \in Off |-> MemWord(u, x)']]
      /\ before = [u \in Tag |-> [x \in Off |-> MemWord(u, x)]]
      /\ under = [u \in Tag |-> [x \in Off |-> BelowWord(u, x)]]
  BY DEF Mem, Below
<1> HIDE DEF before, after, under
<1>2. ASSUME NEW u \in Tag PROVE after[u] = [before EXCEPT ![t] = under[t]][u]
  BY <1>1
<1>3. after = [before EXCEPT ![t] = under[t]]
  BY <1>1, <1>2
<1>. QED BY <1>3 DEF before, after, under

(* A line is invalidated.                                                  *)
LEMMA ExecuteInvalidateServes ==
    ASSUME BInv, BInv', RInv, ExecuteInvalidate
    PROVE  RInv' /\ ServiceStep
<1> DEFINE r    == hitRequest
           line == IF r.op = "INVALIDATE_LINE" THEN LineOf[r.tag] ELSE r.done
           p    == Iterated(r)
<1>1. /\ state = "REQUEST"
      /\ r.op \in {"INVALIDATE_LINE", "INVALIDATE_ALL_LINES"} /\ Executing(r)
      /\ metadata' = IF r.op = "INVALIDATE_LINE" /\ ~inCache(r) THEN metadata
                     ELSE [metadata EXCEPT ![line].valid = FALSE]
      /\ Retire(p)
      /\ UNCHANGED <<previousState, missRequest, data, reservations, flushing, missBuffer,
                     copyingToMissBuffer, inputs, inResponseQueue, outputReqQueue,
                     output, sending, workload, beyond>>
  BY DEF ExecuteInvalidate
<1>2. /\ RequestOK(r) /\ r \in Operation /\ r # None
      /\ r.done + 1 <= totalIterations(r)
      /\ ~needsForwarding(r) /\ preconditionsMet(r, inCache(r))
      /\ r.tag \in Tag /\ r.done \in Nat /\ r.saved \in Val \cup {None} /\ r.eop \in BOOLEAN
      /\ r.dest \in Dest
  BY <1>1, Executes, Fields
<1>3. line \in Line
  BY <1>1, <1>2, Totals, BankAssumption, LineAssumption DEF Line, AllLines
<1>4. Moved(p, r, r.done + 1, r.saved, r.eop) /\ p.data = r.data /\ p.fresh = r.fresh
  BY <1>2, Progress, Carried
<1> HIDE DEF p, line
<1>5. p \in Operation /\ Same(p, r) /\ p.done = r.done + 1 /\ p.saved = r.saved /\ p.eop = r.eop
      /\ p.op = r.op /\ totalIterations(p) = totalIterations(r)
  BY <1>4, SameRequest DEF Moved, Same
<1>6. RequestOK(p) /\ Remaining(p) = 0 /\ Remaining(r) = 0 /\ ~r.eop
  <2>1. r.saved = None /\ ~r.eop
    BY <1>1, <1>2 DEF RequestOK, Atomics, Loads
  <2>2. RequestOK(p)
    BY <1>1, <1>2, <1>5, <2>1 DEF RequestOK, Atomics, Loads
  <2>3. Remaining(p) = 0 /\ Remaining(r) = 0
    BY <1>1, <1>5 DEF Remaining, payloadFlits, Atomics, Directory
  <2>. QED BY <2>1, <2>2, <2>3
<1>7. TakesNone
  BY <1>1 DEF TakesNone
<1>8. Serves(p) \/ (Retires /\ Remaining(p) = 0)
  BY <1>1, <1>6, Retiring
<1>9. r.op # "PREFETCH_LINE" /\ r.op # "MEMSET_LINE" /\ r.op # "STORE_CONDITIONAL"
      /\ r.op \notin Atomics \cup {"STORE_CONDITIONAL"} /\ ~claimsLine(r)
  BY <1>1 DEF Atomics, claimsLine
<1> DEFINE last == p.eop \/ p.done = totalIterations(r)
<1>10. /\ RequestsOK' /\ hitRequest' = (IF last THEN None ELSE p)
       /\ state' \in {"REQUEST", "IDLE"} /\ p # None
  BY <1>1, <1>2, <1>4, <1>5, <1>6, <1>9, RequestsServed
<1>11. BufferedOK' /\ \A side \in Sides : PayloadOK(side)'
  BY <1>1, <1>4, <1>5, <1>6, <1>7, <1>8, <1>10, PayloadServed
<1>12. FetchOK' /\ StoredOK' /\ KeepsBelow /\ KeepsAwaited
  BY <1>1, <1>10, ServedFrame
<1>13. Plain(hitRequest) /\ Plain(hitRequest')
  <2>1. ~r.fresh
    BY <1>2, <1>9 DEF RInv, RequestsOK, Announced
  <2>. QED BY <1>4, <1>5, <1>9, <1>10, <2>1 DEF Plain, Decided
<1>14. Link' = Link
  BY <1>1, <1>13, PlainLink
<1>15. SramTypes /\ TagsOK /\ CleanOK
  BY ServedTypes DEF RInv
<1>16. /\ CleanOK' /\ TagsOK'
       /\ \/ Mem' = Mem
          \/ \E u \in Tag : Mem' = [Mem EXCEPT ![u] = Below[u]]
       /\ r.op = "INVALIDATE_LINE" => Mem' = [Mem EXCEPT ![r.tag] = Below[r.tag]]
  <2>1. CASE r.op = "INVALIDATE_LINE" /\ ~inCache(r)
    <3> DEFINE t == r.tag
    <3>1. UNCHANGED <<metadata, data>>
      BY <1>1, <2>1
    <3>2. CleanOK' /\ TagsOK' /\ KeepsMem
      BY <1>12, <1>13, <1>15, <3>1, PlainFrame
    <3>3. \A x \in Off : MemWord(t, x) = BelowWord(t, x)
      BY <1>13, <2>1, <1>2 DEF MemWord, Filled, AboutToWrite, Plain, inCache
    <3>4. t \in Tag /\ \A u \in Tag, x \in Off :
            MemWord(u, x)' = IF u = t THEN BelowWord(u, x) ELSE MemWord(u, x)
      BY <1>2, <3>2, <3>3 DEF KeepsMem
    <3> HIDE DEF t
    <3>5. Mem' = [Mem EXCEPT ![t] = Below[t]]
      BY <3>4, MemReverts
    <3>. QED BY <3>2, <3>4, <3>5 DEF t
  <2>2. CASE ~(r.op = "INVALIDATE_LINE" /\ ~inCache(r))
    <3> DEFINE t == metadata[line].tag
    <3>1. metadata' = [metadata EXCEPT ![line].valid = FALSE]
      BY <1>1, <2>2
    <3>2. /\ CleanOK' /\ TagsOK'
          /\ \A u \in Tag, x \in Off :
                MemWord(u, x)' = IF metadata[line].valid /\ metadata[line].tag = u
                                 THEN BelowWord(u, x) ELSE MemWord(u, x)
      BY <1>1, <1>3, <1>12, <1>13, <1>15, <3>1, InvalidMem
    <3>3. t \in Tag
      BY <1>3, <1>15 DEF SramTypes
    <3>4. r.op = "INVALIDATE_LINE" => metadata[line].valid /\ t = r.tag
      BY <2>2 DEF inCache, contains, line
    <3>5. metadata[line].valid => \A u \in Tag, x \in Off :
                MemWord(u, x)' = IF u = t THEN BelowWord(u, x) ELSE MemWord(u, x)
      BY <3>2
    <3>6. ~metadata[line].valid => KeepsMem
      BY <3>2 DEF KeepsMem
    <3> HIDE DEF t
    <3>7. metadata[line].valid => Mem' = [Mem EXCEPT ![t] = Below[t]]
      BY <3>3, <3>5, MemReverts
    <3>8. ~metadata[line].valid => Mem' = Mem
      BY <3>6, MemKept
    <3>. QED BY <3>2, <3>3, <3>4, <3>7, <3>8
  <2>. QED BY <2>1, <2>2
<1>17. RInv'
  BY <1>10, <1>11, <1>12, <1>16 DEF RInv
<1>18. KeepsWaiting
  BY <1>1, WaitingKept
<1>19. /\ r.dest \in Dest /\ ToServe[r.dest] # <<>> /\ ToServe[r.dest][1] = Seen(r)
       /\ Service!Progress(r.dest, last)
  BY <1>1, <1>5, <1>6, <1>4, <1>9, <1>10, <1>17, <1>18, Advances
<1>20. Below' = Below
  BY <1>12, MemKept
<1>21. last <=> r.done + 1 = totalIterations(r)
  BY <1>2, <1>5, <1>6
<1> DEFINE s == ToServe[r.dest][1]
<1>22. /\ s.op = r.op /\ s.tag = r.tag /\ ~s.skip
       /\ (s.done + 1 = totalIterations(s) <=> last)
  <2>1. s = Seen(r) /\ ~r.skip
    BY <1>2, <1>19 DEF needsForwarding
  <2>2. totalIterations(Seen(r)) = totalIterations(r)
    BY <1>2, SeenIs, SameRequest
  <2>3. s.op = r.op /\ s.tag = r.tag /\ s.skip = r.skip /\ s.done = r.done
    <3>1. r \in Operation
      BY <1>2
    <3> HIDE DEF r, s
    <3>. QED BY <2>1, <3>1, SeenIs
  <2>. QED BY <1>21, <2>1, <2>2, <2>3
<1>23. CASE r.op = "INVALIDATE_LINE"
  <2>1. last
    BY <1>2, <1>21, <1>23, Totals DEF LineOps
  <2>2. Service!InvalidateLine(r.dest)
    BY <1>1, <1>14, <1>16, <1>19, <1>20, <1>22, <1>23, <2>1
       DEF Service!InvalidateLine, Service!Serves
  <2>. QED BY <1>17, <1>19, <2>2 DEF ServiceStep, Service!SNext, Service!Serve
<1>24. CASE r.op = "INVALIDATE_ALL_LINES"
  <2>1. Service!Last(s) <=> last
    BY <1>22, ServiceIs DEF Service!Last
  <2>2. Service!Progress(r.dest, Service!Last(s))
    BY <1>19, <2>1 DEF Service!Progress
  <2>3. Service!InvalidateAllLines(r.dest)
    BY <1>1, <1>14, <1>16, <1>19, <1>20, <1>22, <1>24, <2>2
       DEF Service!InvalidateAllLines, Service!Serves
  <2>. QED BY <1>17, <1>19, <2>3 DEF ServiceStep, Service!SNext, Service!Serve
<1>. QED BY <1>1, <1>23, <1>24

(* A line is brought up to date below, as the requesters see it.           *)
LEMMA BelowReverts ==
    ASSUME NEW t \in Tag,
           \A u \in Tag, x \in Off : BelowWord(u, x)' = IF u = t THEN MemWord(u, x) ELSE BelowWord(u, x)
    PROVE  Below' = [Below EXCEPT ![t] = Mem[t]]
<1> DEFINE before == Below
           after  == Below'
           above  == Mem
<1>1. /\ after = [u \in Tag |-> [x \in Off |-> BelowWord(u, x)']]
      /\ before = [u \in Tag |-> [x \in Off |-> BelowWord(u, x)]]
      /\ above = [u \in Tag |-> [x \in Off |-> MemWord(u, x)]]
  BY DEF Mem, Below
<1> HIDE DEF before, after, above
<1>2. ASSUME NEW u \in Tag PROVE after[u] = [before EXCEPT ![t] = above[t]][u]
  BY <1>1
<1>3. after = [before EXCEPT ![t] = above[t]]
  BY <1>1, <1>2
<1>. QED BY <1>3 DEF before, after, above

(* Lines stay where they are, and those that are there stay as they are.   *)
LEMMA PlainTags ==
    ASSUME KeepsBelow, data' = data, Plain(hitRequest), Plain(hitRequest'), KeepsAwaited,
           \A l \in Line : /\ metadata'[l].tag = metadata[l].tag
                           /\ metadata'[l].valid = metadata[l].valid
                           /\ metadata[l].valid => metadata'[l].dirty = metadata[l].dirty
    PROVE  /\ KeepsMem
           /\ CleanOK => CleanOK'
           /\ TagsOK => TagsOK'
<1>1. \A t, o : ~Claimed(t, o) /\ ~Claimed(t, o)' /\ ~AboutToWrite(t, o) /\ ~AboutToWrite(t, o)'
  BY DEF Claimed, AboutToWrite, Plain, Decided
<1>2. \A t \in Tag : LineOf[t] \in Line
  BY BankAssumption
<1>3. \A t \in Tag : /\ contains(t)' <=> contains(t)
                     /\ contains(t) => metadata'[LineOf[t]].dirty = metadata[LineOf[t]].dirty
  BY <1>2 DEF contains
<1>4. \A t \in Tag, o \in Off : Filled(t, o)' <=> Filled(t, o)
  BY <1>1, <1>3 DEF Filled, KeepsAwaited
<1>5. KeepsMem
  BY <1>1, <1>4 DEF KeepsMem, MemWord, KeepsBelow
<1>6. CleanOK => CleanOK'
  BY <1>3, <1>4 DEF CleanOK, KeepsBelow
<1>7. TagsOK => TagsOK'
  BY DEF TagsOK
<1>. QED BY <1>5, <1>6, <1>7

(* A dirty line starts to leave, and is clean from now on.                 *)
LEMMA FlushMem ==
    ASSUME TypeOK, TagsOK, CleanOK, state # "FLUSH", missRequest = None, missRequest' = None,
           Plain(hitRequest), Plain(hitRequest'), NEW line \in Line, FlushesLine(line), Flushes,
           data' = data, nextLevel' = nextLevel,
           metadata' = [metadata EXCEPT ![line].dirty = FALSE]
    PROVE  /\ KeepsMem /\ CleanOK' /\ TagsOK' /\ metadata[line].tag \in Tag
           /\ contains(metadata[line].tag) /\ LineOf[metadata[line].tag] = line
           /\ \A u \in Tag, x \in Off :
                 BelowWord(u, x)' = IF u = metadata[line].tag THEN MemWord(u, x) ELSE BelowWord(u, x)
<1> DEFINE e == metadata[line].tag
<1>1. /\ e \in Tag /\ LineOf[e] = line /\ contains(e)
      /\ metadata \in [Line -> [tag : Tag, valid : BOOLEAN, dirty : BOOLEAN]]
  BY DEF TypeOK, TagsOK, FlushesLine, contains
<1>2. \A l \in Line : /\ metadata'[l].tag = metadata[l].tag
                      /\ metadata'[l].valid = metadata[l].valid
                      /\ metadata'[l].dirty <=> metadata[l].dirty /\ l # line
  BY <1>1
<1>3. \A t \in Tag : LineOf[t] \in Line
  BY BankAssumption
<1>4. flushAddress'.line = line /\ flushAddress'.tag = e
  BY DEF FlushesLine
<1>5. \A t, o : /\ ~Claimed(t, o) /\ ~Claimed(t, o)' /\ ~AboutToWrite(t, o) /\ ~AboutToWrite(t, o)'
                /\ ~Awaited(t) /\ ~Awaited(t)'
  BY DEF Claimed, AboutToWrite, Plain, Decided, Awaited
<1>6. \A t \in Tag : (contains(t)' <=> contains(t)) /\ (contains(t) /\ LineOf[t] = line => t = e)
  BY <1>2, <1>3 DEF contains
<1>7. \A t \in Tag, o \in Off : (Filled(t, o) <=> contains(t)) /\ (Filled(t, o)' <=> contains(t))
  BY <1>5, <1>6 DEF Filled
<1>8. \A u \in Tag, x \in Off : BelowWord(u, x)' = IF u = e THEN data[line][x] ELSE BelowWord(u, x)
  <2>1. ASSUME NEW u \in Tag, NEW x \in Off
        PROVE  BelowWord(u, x)' = IF flushAddress'.tag = u THEN data'[flushAddress'.line][x]
                                  ELSE BelowWord(u, x)
    BY BelowFlushes
  <2>. QED BY <1>4, <2>1
<1>9. \A u \in Tag, x \in Off : MemWord(u, x) = IF contains(u) THEN data[LineOf[u]][x] ELSE BelowWord(u, x)
  BY <1>5, <1>7 DEF MemWord
<1>10. \A u \in Tag, x \in Off :
          MemWord(u, x)' = IF contains(u) THEN data[LineOf[u]][x] ELSE BelowWord(u, x)'
  BY <1>5, <1>7 DEF MemWord
<1> HIDE DEF e
<1>11. KeepsMem
  BY <1>1, <1>8, <1>9, <1>10 DEF KeepsMem
<1>12. CleanOK'
  BY <1>1, <1>2, <1>3, <1>6, <1>7, <1>8 DEF CleanOK
<1>13. TagsOK'
  BY <1>2 DEF TagsOK
<1>14. \A u \in Tag, x \in Off : BelowWord(u, x)' = IF u = e THEN MemWord(u, x) ELSE BelowWord(u, x)
  BY <1>1, <1>8, <1>9
<1>. QED BY <1>1, <1>11, <1>12, <1>13, <1>14 DEF e

(* A line takes the place of another, which leaves if it is dirty.         *)
LEMMA Evicts ==
    ASSUME TypeOK, TagsOK, CleanOK, state # "FLUSH", missRequest = None,
           NEW t \in Tag, ~contains(t), NEW next, next # "FLUSH",
           \A u, x : ~AboutToWrite(u, x),
           \A u \in Tag, x \in Off : u # t => ~Claimed(u, x),
           data' = data, nextLevel' = nextLevel,
           metadata'[LineOf[t]].tag = t, metadata'[LineOf[t]].valid,
           \A l \in Line : l # LineOf[t] => metadata'[l] = metadata[l],
           \/ FlushesLine(LineOf[t]) /\ Flushes
           \/ Skips(next) /\ ~(metadata[LineOf[t]].valid /\ metadata[LineOf[t]].dirty),
           \A u, x : ~AboutToWrite(u, x)',
           \A x \in Off : ~Filled(t, x)',
           \A u \in Tag, x \in Off : u # t => ~Awaited(u)' /\ ~Claimed(u, x)'
    PROVE  /\ KeepsMem /\ CleanOK' /\ TagsOK'
           /\ \/ Below' = Below
              \/ \E e \in Tag : Below' = [Below EXCEPT ![e] = Mem[e]]
<1> DEFINE line == LineOf[t]
           e == metadata[line].tag
<1>1. /\ line \in Line /\ e \in Tag /\ \A u \in Tag : LineOf[u] \in Line
      /\ metadata \in [Line -> [tag : Tag, valid : BOOLEAN, dirty : BOOLEAN]]
  BY BankAssumption DEF TypeOK
<1>2. \A u : ~Awaited(u)
  BY DEF Awaited
<1>3. \A u \in Tag : /\ contains(u) /\ LineOf[u] = line => u = e /\ metadata[line].valid /\ u # t
                     /\ contains(u)' <=> u = t \/ (contains(u) /\ LineOf[u] # line)
  BY <1>1 DEF contains
<1>4. \A u \in Tag, x \in Off :
         /\ Filled(u, x) <=> contains(u)
         /\ Filled(u, x)' <=> contains(u) /\ LineOf[u] # line
  <2>1. \A u \in Tag, x \in Off : Filled(u, x) <=> contains(u)
    BY <1>2 DEF Filled
  <2>2. \A u \in Tag, x \in Off : u # t => (Filled(u, x)' <=> contains(u) /\ LineOf[u] # line)
    BY <1>3 DEF Filled
  <2>. QED BY <2>1, <2>2
<1>5. \A u \in Tag, x \in Off : MemWord(u, x) = IF contains(u) THEN data[LineOf[u]][x] ELSE BelowWord(u, x)
  BY <1>2, <1>4 DEF MemWord
<1>6. \A u \in Tag, x \in Off :
         MemWord(u, x)' = IF contains(u) /\ LineOf[u] # line THEN data[LineOf[u]][x]
                          ELSE BelowWord(u, x)'
  BY <1>4 DEF MemWord
<1>7. TagsOK'
  BY <1>1 DEF TagsOK
<1>8. CASE FlushesLine(line) /\ Flushes
  <2>1. LineOf[e] = line /\ contains(e) /\ e # t
    BY <1>1, <1>8 DEF FlushesLine, TagsOK, contains
  <2>2. flushAddress'.line = line /\ flushAddress'.tag = e
    BY <1>8 DEF FlushesLine
  <2>3. ASSUME NEW u \in Tag, NEW x \in Off
        PROVE  BelowWord(u, x)' = IF flushAddress'.tag = u THEN data'[flushAddress'.line][x]
                                  ELSE BelowWord(u, x)
    BY <1>8, BelowFlushes
  <2> HIDE DEF e, line
  <2>4. \A u \in Tag, x \in Off : BelowWord(u, x)' = IF u = e THEN data[line][x] ELSE BelowWord(u, x)
    BY <2>2, <2>3
  <2>5. KeepsMem
    BY <1>3, <1>5, <1>6, <2>1, <2>4 DEF KeepsMem
  <2>6. CleanOK'
    <3>1. \A u \in Tag, x \in Off : Filled(u, x)' =>
             /\ contains(u) /\ LineOf[u] # line /\ u # e /\ Filled(u, x)
             /\ metadata'[LineOf[u]] = metadata[LineOf[u]]
      BY <1>1, <1>4, <2>1 DEF line
    <3>. QED BY <2>4, <3>1 DEF CleanOK
  <2>7. \A u \in Tag, x \in Off : BelowWord(u, x)' = IF u = e THEN MemWord(u, x) ELSE BelowWord(u, x)
    BY <1>5, <2>1, <2>4
  <2>8. Below' = [Below EXCEPT ![e] = Mem[e]]
    BY <1>1, <2>7, BelowReverts
  <2>. QED BY <1>1, <1>7, <2>5, <2>6, <2>8
<1>9. CASE Skips(next) /\ ~(metadata[line].valid /\ metadata[line].dirty)
  <2>1. KeepsBelow
    BY <1>9, BelowKept DEF Skips
  <2>2. \A u \in Tag, x \in Off : contains(u) /\ LineOf[u] = line => data[line][x] = BelowWord(u, x)
    BY <1>3, <1>4, <1>9 DEF CleanOK
  <2> HIDE DEF e, line
  <2>3. KeepsMem
    BY <1>5, <1>6, <2>1, <2>2 DEF KeepsMem, KeepsBelow
  <2>4. CleanOK'
    <3>1. \A u \in Tag, x \in Off : Filled(u, x)' =>
             /\ contains(u) /\ LineOf[u] # line /\ Filled(u, x)
             /\ metadata'[LineOf[u]] = metadata[LineOf[u]]
      BY <1>1, <1>4 DEF line
    <3>. QED BY <2>1, <3>1 DEF CleanOK, KeepsBelow
  <2>. QED BY <1>7, <2>1, <2>3, <2>4, MemKept
<1>. QED BY <1>8, <1>9

(* Room is made, or a line is written back, for the request in hand.       *)
LEMMA ClearsFrame ==
    ASSUME BInv, RInv, state = "REQUEST", missRequest = None, ~readingFromMissBuffer,
           NEW p, Same(p, hitRequest), RequestOK(p), p.data = hitRequest.data,
           Remaining(p) = Remaining(hitRequest), hitRequest' = p, hitRequest # None,
           NEW line \in Line, (FlushesLine(line) /\ Flushes) \/ Skips("REQUEST"),
           UNCHANGED <<missRequest, buffer, inputs, inResponseQueue, sending, beyond>>
    PROVE  FetchOK' /\ StoredOK' /\ BufferedOK' /\ \A side \in Sides : PayloadOK(side)'
<1>1. /\ UNCHANGED <<missBuffer, copyingToMissBuffer, readingFromMissBuffer,
                     nextLevel, storing, returning>>
      /\ TypeOK /\ FetchOK /\ StoredOK /\ ~copyingToMissBuffer
  BY DEF buffer, beyond, RInv, BInv, CopyingOK
<1>2. state' \in {"REQUEST", "FLUSH"} /\ p # None
  <2>1. p # None
    BY Fields DEF RequestOK
  <2>. QED BY <2>1 DEF Flushes, Skips
<1>3. StoredOK'
  <2>1. CASE FlushesLine(line) /\ Flushes
    BY <1>1, <2>1, StoredFlushes
  <2>2. CASE Skips("REQUEST")
    BY <1>1, <2>2, StoredKept DEF Skips
  <2>. QED BY <2>1, <2>2
<1>4. FetchOK'
  <2>1. ~Fetching /\ ~Fetching'
    BY <1>2 DEF Fetching
  <2>2. SendsOther
    BY <2>1 DEF SendsOther, Flushes, Skips
  <2>. QED BY <1>1, <2>1, <2>2, FetchFrame
<1>5. BufferedOK'
  <2>1. Len(missBuffer) = 0 /\ missBuffer \in Seq(InFlit)
    BY <1>1 DEF BInv, BufferOK, TypeOK
  <2>2. missBuffer = <<>>
    BY <2>1, Empties
  <2>. QED BY <1>1, <2>2 DEF BufferedOK
<1>6. \A side \in Sides : PayloadOK(side)'
  <2>1. SideOf(p) = SideOf(hitRequest) /\ p.op = hitRequest.op
    BY SameRequest DEF Same
  <2>2. ASSUME NEW values, IsLeft(values, hitRequest) PROVE IsLeft(values, p)
    BY <2>1, <2>2 DEF IsLeft
  <2>3. ASSUME NEW side \in Sides, NEW values \in Seq(Val), DueValues(side, values)
        PROVE  DueValues(side, values)'
    <3>1. ~CopyOwns(side)'
      BY <1>1 DEF CopyOwns
    <3>2. HitOwns(side)' => SideOf(p) = side
      BY DEF HitOwns, SideOf, IsL1
    <3>3. SideOf(p) = side => HitOwns(side)
      BY <2>1 DEF HitOwns, Parked
    <3>4. SideOf(p) = side => IsLeft(values, p)
      BY <2>2, <2>3, <3>3 DEF DueValues
    <3>5. IsLeft(values, hitRequest)' <=> IsLeft(values, p)
      BY DEF IsLeft, Remaining
    <3>. QED BY <3>1, <3>2, <3>4, <3>5 DEF DueValues
  <2>. QED BY <2>3, PayloadsLeft
<1>. QED BY <1>3, <1>4, <1>5, <1>6

(* A flush request writes a dirty line back, or finds nothing to write.    *)
LEMMA ExecuteFlushServes ==
    ASSUME BInv, BInv', RInv, ExecuteFlush
    PROVE  RInv' /\ ServiceStep
<1> DEFINE r    == hitRequest
           line == IF r.op = "FLUSH_LINE" THEN LineOf[r.tag] ELSE r.done
           present == r.op = "FLUSH_LINE" => inCache(r)
           dirty == present /\ metadata[line].valid /\ metadata[line].dirty
           p    == Iterated(r)
<1>1. /\ state = "REQUEST" /\ r.op \in {"FLUSH_LINE", "FLUSH_ALL_LINES"} /\ Executing(r)
      /\ IF dirty THEN /\ flush(line, "REQUEST") /\ hitRequest' = p
                       /\ UNCHANGED readingFromMissBuffer
         ELSE Retire(p) /\ UNCHANGED <<previousState, flushing, outputReqQueue>>
      /\ metadata' = IF present THEN [metadata EXCEPT ![line].dirty = FALSE] ELSE metadata
      /\ UNCHANGED <<missRequest, data, reservations, missBuffer,
                     copyingToMissBuffer, inputs, inResponseQueue, output,
                     sending, workload, beyond>>
  BY DEF ExecuteFlush
<1>2. /\ RequestOK(r) /\ r \in Operation /\ r # None
      /\ r.done + 1 <= totalIterations(r)
      /\ ~needsForwarding(r) /\ preconditionsMet(r, inCache(r))
      /\ r.tag \in Tag /\ r.done \in Nat /\ r.saved \in Val \cup {None} /\ r.eop \in BOOLEAN
      /\ r.dest \in Dest
  BY <1>1, Executes, Fields
<1>3. line \in Line
  BY <1>1, <1>2, Totals, BankAssumption, LineAssumption DEF Line, AllLines
<1>4. Moved(p, r, r.done + 1, r.saved, r.eop) /\ p.data = r.data /\ p.fresh = r.fresh
  BY <1>2, Progress, Carried
<1>5. missRequest = None /\ missRequest' = None /\ ~readingFromMissBuffer
  BY <1>1, <1>2 DEF BInv, MissOK, Parked, ReadingOK, NoPreconditions, AllLines
<1> HIDE DEF p, line
<1>6. p \in Operation /\ Same(p, r) /\ p.done = r.done + 1 /\ p.saved = r.saved /\ p.eop = r.eop
      /\ p.op = r.op /\ totalIterations(p) = totalIterations(r) /\ p # None /\ p.dest = r.dest
  BY <1>4, SameRequest, Fields DEF Moved, Same
<1>7. RequestOK(p) /\ Remaining(p) = 0 /\ Remaining(r) = 0 /\ ~r.eop /\ r.saved = None
  <2>1. r.saved = None /\ ~r.eop
    BY <1>1, <1>2 DEF RequestOK, Atomics, Loads
  <2>2. RequestOK(p)
    BY <1>1, <1>2, <1>6, <2>1 DEF RequestOK, Atomics, Loads
  <2>3. Remaining(p) = 0 /\ Remaining(r) = 0
    BY <1>1, <1>6 DEF Remaining, payloadFlits, Atomics, Directory
  <2>. QED BY <2>1, <2>2, <2>3
<1>8. r.op # "PREFETCH_LINE" /\ r.op # "MEMSET_LINE" /\ r.op # "STORE_CONDITIONAL"
      /\ r.op \notin Atomics \cup {"STORE_CONDITIONAL"} /\ ~claimsLine(r)
  BY <1>1 DEF Atomics, claimsLine
<1>9. ~r.fresh /\ Announced(r)
  BY <1>2, <1>8 DEF RInv, RequestsOK, Announced
<1>10. SramTypes /\ TagsOK /\ CleanOK /\ TypeOK /\ UNCHANGED <<nextLevel, storing, returning>>
  BY <1>1, ServedTypes DEF RInv, BInv, beyond
<1> DEFINE last == r.done + 1 = totalIterations(r)
<1>11. Plain(hitRequest) /\ (hitRequest' = p \/ hitRequest' = None => Plain(hitRequest'))
  BY <1>4, <1>6, <1>8, <1>9 DEF Plain, Decided
<1>12. KeepsWaiting /\ KeepsAwaited
  BY <1>1, <1>5, WaitingKept DEF KeepsAwaited, Awaited
<1>13. /\ RInv' /\ Mem' = Mem /\ Link' = Link
       /\ \/ Below' = Below
          \/ \E e \in Tag : Below' = [Below EXCEPT ![e] = Mem[e]]
       /\ r.op = "FLUSH_LINE" => Below' = [Below EXCEPT ![r.tag] = Mem[r.tag]]
       /\ ToServe[r.dest] # <<>> /\ ToServe[r.dest][1] = Seen(r)
       /\ Service!Progress(r.dest, last)
  <2>1. CASE dirty
    <3>1. flush(line, "REQUEST") /\ hitRequest' = p /\ UNCHANGED readingFromMissBuffer
          /\ metadata' = [metadata EXCEPT ![line].dirty = FALSE] /\ UNCHANGED buffer
      BY <1>1, <2>1 DEF buffer
    <3>2. FlushesLine(line) /\ Flushes
      <4>1. canSendRequest
        BY <1>1 DEF Executing, Serving
      <4>2. metadata[line].valid /\ metadata[line].dirty
        BY <2>1
      <4>3. ASSUME NEW next, flush(line, next) PROVE FlushesLine(line) /\ Flushes
        BY <1>3, <1>10, <4>1, <4>2, <4>3, FlushIs
      <4>. QED BY <3>1, <4>3
    <3>3. FetchOK' /\ StoredOK' /\ BufferedOK' /\ \A side \in Sides : PayloadOK(side)'
      BY <1>1, <1>2, <1>3, <1>4, <1>5, <1>6, <1>7, <3>1, <3>2, ClearsFrame
    <3>4. RequestsOK'
      <4>1. Announced(p)
        BY <1>4, <1>6, <1>9 DEF Announced
      <4>. QED BY <1>1, <1>5, <1>6, <3>1, <4>1 DEF RequestsOK
    <3> DEFINE e == metadata[line].tag
    <3>5. /\ KeepsMem /\ CleanOK' /\ TagsOK' /\ e \in Tag
          /\ contains(e) /\ LineOf[e] = line
          /\ \A u \in Tag, x \in Off : BelowWord(u, x)' = IF u = e THEN MemWord(u, x) ELSE BelowWord(u, x)
      BY <1>1, <1>3, <1>5, <1>10, <1>11, <3>1, <3>2, FlushMem
    <3>6. r.op = "FLUSH_LINE" => r.tag = e
      BY <2>1 DEF inCache, contains, line
    <3>7. Link' = Link
      BY <1>1, <1>11, <3>1, PlainLink
    <3>8. RInv'
      BY <3>3, <3>4, <3>5 DEF RInv
    <3>9. Below' = [Below EXCEPT ![e] = Mem[e]]
      <4> HIDE DEF e
      <4>. QED BY <3>5, BelowReverts
    <3>10. Mem' = Mem
      BY <3>5, MemKept
    <3>11. /\ ToServe[r.dest] # <<>> /\ ToServe[r.dest][1] = Seen(r)
           /\ Service!Progress(r.dest, last)
      <4>1. ~Served(hitRequest) /\ (last => Served(p)) /\ (~last => ~Served(p))
        BY <1>1, <1>2, <1>6, <1>8 DEF Served, Decided, AllLines, Atomics
      <4>2. Seen(p) = Iterated(Seen(r))
        BY <1>2, <1>4, <1>6, SeenMoves
      <4>3. last \in BOOLEAN
        OBVIOUS
      <4>4. IF last THEN hitRequest' = None \/ Served(hitRequest')
            ELSE /\ hitRequest' # None /\ ~Served(hitRequest')
                 /\ Seen(hitRequest') = Iterated(Seen(hitRequest))
        BY <1>6, <3>1, <4>1, <4>2
      <4>5. RequestsOK /\ (hitRequest' # None => hitRequest'.dest = hitRequest.dest)
        BY <1>6, <3>1 DEF RInv
      <4> HIDE DEF last
      <4>. QED BY <1>1, <1>12, <3>4, <4>1, <4>3, <4>4, <4>5, HitMoves
    <3>. QED BY <3>5, <3>6, <3>7, <3>8, <3>9, <3>10, <3>11
  <2>2. CASE ~dirty
    <3>1. Retire(p) /\ UNCHANGED <<previousState, flushing, outputReqQueue>>
      BY <1>1, <2>2
    <3>2. TakesNone
      BY <1>1 DEF TakesNone
    <3>3. Serves(p) \/ (Retires /\ Remaining(p) = 0)
      BY <1>7, <3>1, Retiring
    <3>4. p.eop \/ p.done = totalIterations(r) <=> last
      BY <1>6, <1>7
    <3>5. /\ RequestsOK' /\ hitRequest' = (IF p.eop \/ p.done = totalIterations(r) THEN None ELSE p)
          /\ state' \in {"REQUEST", "IDLE"}
      BY <1>1, <1>2, <1>4, <1>6, <1>7, <1>8, <3>1, RequestsServed
    <3>6. BufferedOK' /\ \A side \in Sides : PayloadOK(side)'
      BY <1>1, <1>4, <1>6, <1>7, <3>2, <3>3, PayloadServed
    <3>7. FetchOK' /\ StoredOK' /\ KeepsBelow
      BY <1>1, <3>1, <3>5, ServedFrame
    <3>8. \A l \in Line : /\ metadata'[l].tag = metadata[l].tag
                          /\ metadata'[l].valid = metadata[l].valid
                          /\ metadata[l].valid => metadata'[l].dirty = metadata[l].dirty
      <4>1. CASE present
        <5>1. metadata' = [metadata EXCEPT ![line].dirty = FALSE]
          BY <1>1, <4>1
        <5>2. metadata[line].valid => ~metadata[line].dirty
          BY <2>2, <4>1
        <5>3. metadata \in [Line -> [tag : Tag, valid : BOOLEAN, dirty : BOOLEAN]]
          BY <1>10 DEF SramTypes
        <5>. QED BY <1>3, <5>1, <5>2, <5>3
      <4>2. CASE ~present
        BY <1>1, <4>2
      <4>. QED BY <4>1, <4>2
    <3>9. Plain(hitRequest')
      BY <1>11, <3>5
    <3>10. KeepsMem /\ CleanOK' /\ TagsOK'
      BY <1>1, <1>10, <1>11, <1>12, <3>7, <3>8, <3>9, PlainTags
    <3>11. Link' = Link
      BY <1>1, <1>11, <3>9, PlainLink
    <3>12. RInv'
      BY <3>5, <3>6, <3>7, <3>10 DEF RInv
    <3>13. Mem' = Mem /\ Below' = Below
      BY <3>7, <3>10, MemKept
    <3>14. r.op = "FLUSH_LINE" => Below' = [Below EXCEPT ![r.tag] = Mem[r.tag]]
      <4> DEFINE t == r.tag
      <4>1. r.op = "FLUSH_LINE" => \A x \in Off : MemWord(t, x) = BelowWord(t, x)
        <5>1. ASSUME r.op = "FLUSH_LINE", NEW x \in Off
              PROVE  MemWord(t, x) = BelowWord(t, x)
          <6>1. ~AboutToWrite(t, x)
            BY <1>11 DEF AboutToWrite, Plain
          <6>2. Filled(t, x) => contains(t) /\ ~metadata[LineOf[t]].dirty
            BY <2>2, <5>1 DEF Filled, contains, inCache, line
          <6>3. Filled(t, x) => data[LineOf[t]][x] = BelowWord(t, x)
            BY <1>2, <1>10, <6>2 DEF CleanOK
          <6>. QED BY <6>1, <6>3 DEF MemWord
        <5>. QED BY <5>1
      <4>2. r.op = "FLUSH_LINE" => \A u \in Tag, x \in Off :
                BelowWord(u, x)' = IF u = t THEN MemWord(u, x) ELSE BelowWord(u, x)
        BY <3>7, <4>1 DEF KeepsBelow
      <4>3. t \in Tag
        BY <1>2
      <4> HIDE DEF t
      <4>4. r.op = "FLUSH_LINE" => Below' = [Below EXCEPT ![t] = Mem[t]]
        BY <4>2, <4>3, BelowReverts
      <4>. QED BY <4>4 DEF t
    <3>15. /\ ToServe[r.dest] # <<>> /\ ToServe[r.dest][1] = Seen(r)
           /\ Service!Progress(r.dest, last)
      <4>1. hitRequest' = IF last THEN None ELSE p
        BY <3>4, <3>5
      <4>2. last <=> p.eop \/ p.done = totalIterations(hitRequest)
        BY <3>4
      <4> HIDE DEF last
      <4>. QED BY <1>1, <1>4, <1>6, <1>7, <1>8, <1>12, <3>12, <4>1, <4>2, Advances
    <3>. QED BY <3>11, <3>12, <3>13, <3>14, <3>15
  <2>. QED BY <2>1, <2>2
<1> DEFINE s == ToServe[r.dest][1]
<1>14. /\ s.op = r.op /\ s.tag = r.tag /\ ~s.skip
       /\ (s.done + 1 = totalIterations(s) <=> last)
  <2>1. s = Seen(r) /\ ~r.skip
    BY <1>2, <1>13 DEF needsForwarding
  <2>2. totalIterations(Seen(r)) = totalIterations(r)
    BY <1>2, SeenIs, SameRequest
  <2>3. s.op = r.op /\ s.tag = r.tag /\ s.skip = r.skip /\ s.done = r.done
    <3>1. r \in Operation
      BY <1>2
    <3> HIDE DEF r, s
    <3>. QED BY <2>1, <3>1, SeenIs
  <2>. QED BY <1>2, <2>1, <2>2, <2>3
<1>15. CASE r.op = "FLUSH_LINE"
  <2>1. last
    BY <1>2, <1>15, Totals DEF LineOps
  <2>2. Service!FlushLine(r.dest)
    BY <1>1, <1>13, <1>14, <1>15, <2>1 DEF Service!FlushLine, Service!Serves
  <2>. QED BY <1>2, <1>13, <2>2 DEF ServiceStep, Service!SNext, Service!Serve
<1>16. CASE r.op = "FLUSH_ALL_LINES"
  <2>1. Service!Last(s) <=> last
    BY <1>14, ServiceIs DEF Service!Last
  <2>2. Service!Progress(r.dest, Service!Last(s))
    BY <1>13, <2>1 DEF Service!Progress
  <2>3. Service!FlushAllLines(r.dest)
    BY <1>1, <1>13, <1>14, <1>16, <2>2 DEF Service!FlushAllLines, Service!Serves
  <2>. QED BY <1>2, <1>13, <2>3 DEF ServiceStep, Service!SNext, Service!Serve
<1>. QED BY <1>1, <1>15, <1>16

(* What validate() does for a line that is not there.                      *)
LEMMA Validates ==
    ASSUME TypeOK, canSendRequest, NEW r \in Operation, ~inCache(r), NEW next, validate(r, next)
    PROVE  /\ metadata'[LineOf[r.tag]].tag = r.tag /\ metadata'[LineOf[r.tag]].valid
           /\ \A l \in Line : l # LineOf[r.tag] => metadata'[l] = metadata[l]
           /\ \/ FlushesLine(LineOf[r.tag]) /\ Flushes /\ metadata[LineOf[r.tag]].tag # r.tag
              \/ Skips(next) /\ ~(metadata[LineOf[r.tag]].valid /\ metadata[LineOf[r.tag]].dirty)
<1> DEFINE line  == LineOf[r.tag]
           other == metadata[line].tag # r.tag
<1>1. line \in Line
  BY Fields, BankAssumption
<1>2. /\ metadata' = [metadata EXCEPT ![line] =
              [tag |-> r.tag, valid |-> TRUE, dirty |-> metadata[line].dirty /\ ~other]]
      /\ IF other THEN flush(line, next) ELSE Skips(next)
  BY DEF validate, Skips
<1>3. metadata \in [Line -> [tag : Tag, valid : BOOLEAN, dirty : BOOLEAN]]
  BY DEF TypeOK
<1> HIDE DEF line
<1>4. /\ metadata'[line].tag = r.tag /\ metadata'[line].valid
      /\ \A l \in Line : l # line => metadata'[l] = metadata[l]
  BY <1>1, <1>2, <1>3
<1>5. \/ FlushesLine(line) /\ Flushes /\ metadata[line].tag # r.tag
      \/ Skips(next) /\ ~(metadata[line].valid /\ metadata[line].dirty)
  <2>1. CASE other
    <3>1. flush(line, next)
      BY <1>2, <2>1
    <3>. QED BY <1>1, <2>1, <3>1, FlushIs
  <2>2. CASE ~other
    <3>1. ~metadata[line].valid
      BY <2>2 DEF inCache, contains, line
    <3>. QED BY <1>2, <2>2, <3>1
  <2>. QED BY <2>1, <2>2
<1>. QED BY <1>4, <1>5 DEF line

(* A line that is cleaned for another is all that is seen below.           *)
LEMMA Cleans ==
    ASSUME Mem' = Mem, ToServe' = ToServe, output' = output, Link' = Link,
           \/ Below' = Below
           \/ \E e \in Tag : Below' = [Below EXCEPT ![e] = Mem[e]]
    PROVE  ServiceStep
<1>1. CASE Below' = Below
  BY <1>1 DEF ServiceStep
<1>2. ASSUME NEW e \in Tag, Below' = [Below EXCEPT ![e] = Mem[e]]
      PROVE  ServiceStep
  <2>1. Service!Clean(e)
    BY <1>2 DEF Service!Clean
  <2>. QED BY <2>1 DEF Service!SNext, ServiceStep
<1>. QED BY <1>1, <1>2

(* A request that overwrites its line makes room for it.                   *)
LEMMA PrepareLineServes ==
    ASSUME BInv, BInv', RInv, PrepareLine
    PROVE  RInv' /\ ServiceStep
<1> DEFINE r == hitRequest
           p == [r EXCEPT !.fresh = TRUE]
<1>1. /\ Serving(r) /\ ~preconditionsMet(r, inCache(r)) /\ claimsLine(r)
      /\ validate(r, "REQUEST") /\ hitRequest' = p
      /\ UNCHANGED <<missRequest, data, reservations, buffer, inputs, inResponseQueue,
                     output, sending, workload, beyond>>
  BY DEF PrepareLine
<1>2. /\ missRequest = None /\ ~readingFromMissBuffer
      /\ RequestOK(r) /\ r \in Operation /\ Untouched(r)
      /\ r.op \notin NoPreconditions /\ ~inCache(r)
  BY <1>1, Misses
<1>3. state = "REQUEST" /\ canSendRequest /\ ~needsForwarding(r) /\ missRequest' = None
  BY <1>1, <1>2 DEF Serving
<1>4. r # None /\ r.tag \in Tag /\ LineOf[r.tag] \in Line /\ r.saved \in Val \cup {None}
      /\ r.eop \in BOOLEAN /\ r.done \in Nat
  BY <1>2, Fields, BankAssumption
<1>5. Moved(p, r, r.done, r.saved, r.eop) /\ p.data = r.data /\ p.fresh
  BY <1>2, <1>4, Progress, Carried
<1>6. Seen(p) = Seen(r)
  BY <1>2 DEF Seen, Operation
<1> HIDE DEF p
<1>7. /\ p \in Operation /\ Same(p, r) /\ p.op = r.op /\ p.tag = r.tag /\ p.dest = r.dest
      /\ p.done = r.done /\ p.saved = r.saved /\ p.eop = r.eop /\ p # None
  BY <1>5, Fields DEF Moved, Same
<1>8. RequestOK(p) /\ Untouched(p) /\ totalIterations(p) = totalIterations(r)
  <2>1. totalIterations(p) = totalIterations(r)
    BY <1>7, SameRequest
  <2>. QED BY <1>2, <1>7, <2>1 DEF RequestOK, Untouched
<1>9. Remaining(p) = Remaining(r) /\ (claimsLine(p) <=> claimsLine(r))
      /\ (needsForwarding(p) <=> needsForwarding(r))
  BY <1>7, SameRequest DEF Remaining
<1>10. TypeOK /\ TagsOK /\ CleanOK /\ UNCHANGED nextLevel
  BY <1>1 DEF RInv, BInv, beyond
<1>11. /\ metadata'[LineOf[r.tag]].tag = r.tag /\ metadata'[LineOf[r.tag]].valid
       /\ \A l \in Line : l # LineOf[r.tag] => metadata'[l] = metadata[l]
       /\ \/ FlushesLine(LineOf[r.tag]) /\ Flushes
          \/ Skips("REQUEST") /\ ~(metadata[LineOf[r.tag]].valid /\ metadata[LineOf[r.tag]].dirty)
  BY <1>1, <1>2, <1>3, <1>10, Validates
<1>12. FetchOK' /\ StoredOK' /\ BufferedOK' /\ \A side \in Sides : PayloadOK(side)'
  BY <1>1, <1>2, <1>3, <1>4, <1>5, <1>7, <1>8, <1>9, <1>11, ClearsFrame
<1>13. RequestsOK'
  <2>1. Announced(p)
    BY <1>1, <1>3, <1>4, <1>5, <1>7, <1>9 DEF RInv, RequestsOK, Announced
  <2>2. ~p.eop /\ p.done < totalIterations(p) /\ p.saved = None /\ p.op # "STORE_CONDITIONAL"
    BY <1>2, <1>7, <1>8, Unserved DEF Untouched, NoPreconditions
  <2>. QED BY <1>1, <1>3, <2>1, <2>2 DEF RequestsOK
<1>14. ~Decided(r) /\ ~Decided(p)
  BY <1>2, <1>8 DEF Decided, Untouched
<1>15. KeepsMem /\ CleanOK' /\ TagsOK'
       /\ (Below' = Below \/ \E e \in Tag : Below' = [Below EXCEPT ![e] = Mem[e]])
  <2> SUFFICES ASSUME NEW t \in Tag, t = r.tag
               PROVE  KeepsMem /\ CleanOK' /\ TagsOK'
                      /\ (Below' = Below \/ \E e \in Tag : Below' = [Below EXCEPT ![e] = Mem[e]])
    BY <1>4
  <2>1. /\ \A u, x : ~AboutToWrite(u, x)
        /\ \A u, x : ~AboutToWrite(u, x)'
    BY <1>1, <1>14 DEF AboutToWrite
  <2>2. \A u, x : u # t => ~Claimed(u, x) /\ ~Claimed(u, x)'
    BY <1>1, <1>7 DEF Claimed
  <2>3. \A x \in Off : Claimed(t, x)'
    BY <1>1, <1>5, <1>7, <1>8 DEF Claimed, Untouched, Off
  <2>4. \A x \in Off : ~Filled(t, x)'
    BY <2>3 DEF Filled
  <2>5. \A u : ~Awaited(u)'
    BY <1>3 DEF Awaited
  <2>6. ~contains(t)
    BY <1>2 DEF inCache
  <2>7. /\ metadata'[LineOf[t]].tag = t /\ metadata'[LineOf[t]].valid
        /\ \A l \in Line : l # LineOf[t] => metadata'[l] = metadata[l]
        /\ \/ FlushesLine(LineOf[t]) /\ Flushes
           \/ Skips("REQUEST") /\ ~(metadata[LineOf[t]].valid /\ metadata[LineOf[t]].dirty)
    BY <1>11
  <2>. QED BY <1>1, <1>2, <1>3, <1>10, <2>1, <2>2, <2>4, <2>5, <2>6, <2>7, Evicts
<1>16. RInv'
  BY <1>12, <1>13, <1>15 DEF RInv
<1>17. ToServe' = ToServe
  <2>1. Served(p) <=> Served(r)
    BY <1>7, <1>8, <1>14 DEF Served
  <2>2. \A d \in Dest : Hand(hitRequest', missRequest', d) = Hand(hitRequest, missRequest, d)
    BY <1>1, <1>3, <1>2, <1>4, <1>6, <1>7, <2>1 DEF Hand, InSlot
  <2>. QED BY <1>1, <1>13, <2>2, WaitingKept, TodoKept DEF RInv
<1>18. Link' = Link
  <2>1. hitRequest' = None \/ ~Decided(hitRequest')
    BY <1>1, <1>14
  <2>. QED BY <1>1, <1>14, <2>1, LinkIs
<1>. QED BY <1>1, <1>15, <1>16, <1>17, <1>18, MemKept, Cleans

(* The request is put aside, and its line takes the place of another.      *)
LEMMA AllocateServes ==
    ASSUME BInv, BInv', RInv, Allocate
    PROVE  RInv' /\ ServiceStep
<1> DEFINE r == hitRequest
<1>1. /\ state = "ALLOCATE" /\ canSendRequest /\ ~inCache(r)
      /\ validate(r, "IDLE")
      /\ missRequest' = r
      /\ hitRequest' = IF state' = "FLUSH" THEN r ELSE None
      /\ UNCHANGED <<data, reservations, missBuffer, readingFromMissBuffer, inputs,
                     inResponseQueue, output, sending, workload, beyond>>
  BY DEF Allocate
<1>2. /\ r # None /\ RequestOK(r) /\ r \in Operation /\ ~needsForwarding(r)
      /\ r.op \notin NoPreconditions /\ ~claimsLine(r) /\ Untouched(r)
  BY <1>1 DEF BInv, HitOK, RequestOK
<1>3. missRequest = None
  BY <1>1, <1>2 DEF BInv, MissOK, Parked, inCache
<1>4. /\ ~copyingToMissBuffer /\ ~readingFromMissBuffer /\ ~readingFromMissBuffer'
      /\ missBuffer' = missBuffer /\ missBuffer = <<>>
  <2>1. ~copyingToMissBuffer /\ ~readingFromMissBuffer
    BY <1>1, <1>3 DEF BInv, CopyingOK, ReadingOK
  <2>2. Len(missBuffer) = 0 /\ missBuffer \in Seq(InFlit)
    BY <1>3, <2>1 DEF BInv, BufferOK, TypeOK
  <2>. QED BY <1>1, <2>1, <2>2, Empties
<1>5. r.tag \in Tag /\ LineOf[r.tag] \in Line
  BY <1>2, Fields, BankAssumption
<1>6. /\ TypeOK /\ TagsOK /\ CleanOK /\ FetchOK /\ StoredOK /\ RequestsOK
      /\ UNCHANGED <<nextLevel, storing, returning>>
  BY <1>1 DEF RInv, BInv, beyond
<1>7. ~r.fresh /\ ~Decided(r) /\ Announced(r)
  BY <1>2, <1>6 DEF RequestsOK, Announced, Decided, Untouched
<1>8. /\ metadata'[LineOf[r.tag]].tag = r.tag /\ metadata'[LineOf[r.tag]].valid
      /\ \A l \in Line : l # LineOf[r.tag] => metadata'[l] = metadata[l]
      /\ \/ FlushesLine(LineOf[r.tag]) /\ Flushes /\ metadata[LineOf[r.tag]].tag # r.tag
         \/ Skips("IDLE") /\ ~(metadata[LineOf[r.tag]].valid /\ metadata[LineOf[r.tag]].dirty)
  BY <1>1, <1>2, <1>6, Validates
<1>9. \/ state' = "FLUSH" /\ hitRequest' = r
      \/ state' = "IDLE" /\ hitRequest' = None
  BY <1>1, <1>8 DEF Flushes, Skips
<1>10. StoredOK'
  <2>1. CASE FlushesLine(LineOf[r.tag])
    BY <1>1, <1>5, <1>6, <2>1, StoredFlushes
  <2>2. CASE Skips("IDLE")
    BY <1>1, <1>6, <2>2, StoredKept DEF Skips
  <2>. QED BY <1>8, <2>1, <2>2
<1>11. FetchOK'
  <2>1. /\ Fetching /\ FetchTag = r.tag /\ Refilled = 0
        /\ Fetching' /\ FetchTag' = r.tag /\ Refilled' = 0
    BY <1>1, <1>2, <1>3, <1>9 DEF Fetching, FetchTag, Refilled
  <2>2. SendsOther
    BY <1>8 DEF SendsOther, Flushes, Skips, Asks, IsWord
  <2>3. state' = "FLUSH" => flushAddress'.tag # FetchTag
    BY <1>8, <2>1 DEF FlushesLine, Skips
  <2>4. state' # "REFILL"
    BY <1>9
  <2>. QED BY <1>1, <1>6, <2>1, <2>2, <2>3, <2>4, FetchFrame
<1>12. BufferedOK'
  BY <1>4 DEF BufferedOK
<1>13. RequestsOK'
  <2>1. /\ r.op \notin {"PREFETCH_LINE", "FLUSH_LINE", "FLUSH_ALL_LINES"} =>
              ~r.eop /\ r.done < totalIterations(r)
        /\ r.saved = None /\ r.op # "STORE_CONDITIONAL"
    BY <1>2, Unserved DEF Untouched, NoPreconditions
  <2>2. hitRequest' # None => Parked'
    BY <1>1, <1>2, <1>9 DEF Parked
  <2>. QED BY <1>1, <1>7, <1>9, <2>1, <2>2 DEF RequestsOK
<1>14. \A side \in Sides : PayloadOK(side)'
  <2>1. ASSUME NEW side \in Sides, NEW values \in Seq(Val), DueValues(side, values)
        PROVE  DueValues(side, values)'
    <3>1. ~HitOwns(side)'
      BY <1>1, <1>2, <1>9 DEF HitOwns, Parked
    <3>2. CopyOwns(side)' => SideOf(r) = side
      BY <1>1 DEF CopyOwns, SideOf, IsL1
    <3>3. SideOf(r) = side => IsLeft(values, r)
      BY <1>1, <1>2, <1>3, <1>4, <2>1 DEF DueValues, HitOwns, Parked
    <3>4. IsLeft(values, missRequest)' <=> IsLeft(values, r)
      BY <1>1 DEF IsLeft, Remaining
    <3>. QED BY <3>1, <3>2, <3>3, <3>4 DEF DueValues
  <2>. QED BY <1>1, <2>1, PayloadsLeft
<1>15. KeepsMem /\ CleanOK' /\ TagsOK'
       /\ (Below' = Below \/ \E e \in Tag : Below' = [Below EXCEPT ![e] = Mem[e]])
  <2> SUFFICES ASSUME NEW t \in Tag, t = r.tag
               PROVE  KeepsMem /\ CleanOK' /\ TagsOK'
                      /\ (Below' = Below \/ \E e \in Tag : Below' = [Below EXCEPT ![e] = Mem[e]])
    BY <1>5
  <2>1. /\ \A u, x : ~AboutToWrite(u, x) /\ ~Claimed(u, x)
        /\ \A u, x : ~AboutToWrite(u, x)' /\ ~Claimed(u, x)'
    BY <1>7, <1>9 DEF AboutToWrite, Claimed
  <2>2. Awaited(t)' /\ \A u : u # t => ~Awaited(u)'
    BY <1>1, <1>2 DEF Awaited
  <2>3. \A x \in Off : ~Filled(t, x)'
    BY <2>2 DEF Filled
  <2>4. ~contains(t)
    BY <1>1 DEF inCache
  <2>5. /\ metadata'[LineOf[t]].tag = t /\ metadata'[LineOf[t]].valid
        /\ \A l \in Line : l # LineOf[t] => metadata'[l] = metadata[l]
        /\ \/ FlushesLine(LineOf[t]) /\ Flushes
           \/ Skips("IDLE") /\ ~(metadata[LineOf[t]].valid /\ metadata[LineOf[t]].dirty)
    BY <1>8
  <2>. QED BY <1>1, <1>3, <1>6, <2>1, <2>2, <2>3, <2>4, <2>5, Evicts
<1>16. RInv'
  BY <1>10, <1>11, <1>12, <1>13, <1>14, <1>15 DEF RInv
<1>17. ToServe' = ToServe
  <2>1. /\ r \in Operation
        /\ <<hitRequest, missRequest>> \in {<<r, None>>, <<None, r>>, <<r, r>>}
        /\ <<hitRequest', missRequest'>> \in {<<r, None>>, <<None, r>>, <<r, r>>}
    BY <1>1, <1>2, <1>3, <1>9
  <2>2. KeepsWaiting
    BY <1>1, WaitingKept
  <2>3. RequestsOK'
    BY <1>13
  <2> HIDE DEF r
  <2>. QED BY <1>6, <2>1, <2>2, <2>3, Exchanged
<1>18. Link' = Link
  <2>1. hitRequest' = None \/ ~Decided(hitRequest')
    BY <1>7, <1>9
  <2>. QED BY <1>1, <1>7, <2>1, LinkIs
<1>. QED BY <1>1, <1>15, <1>16, <1>17, <1>18, MemKept, Cleans

-----------------------------------------------------------------------------
(* The line that was asked for arrives.                                    *)

(* What a step of Refill does.                                             *)
LEMMA RefillIs ==
    ASSUME BInv, RInv, Refill
    PROVE  /\ state = "REFILL" /\ hitRequest = None /\ ~readingFromMissBuffer
           /\ missRequest \in Operation /\ RequestOK(missRequest) /\ Untouched(missRequest)
           /\ missRequest # None /\ ~needsForwarding(missRequest) /\ ~claimsLine(missRequest)
           /\ missRequest.op \notin NoPreconditions /\ ~missRequest.fresh /\ Announced(missRequest)
           /\ contains(missRequest.tag) /\ missRequest.tag \in Tag
           /\ cacheLineCursor \in Off /\ cacheLineCursor' = cacheLineCursor + 1
           /\ inResponseQueue' = Tail(inResponseQueue)
           /\ Head(inResponseQueue) = nextLevel[missRequest.tag][cacheLineCursor]
           /\ NoWords(outputReqQueue, missRequest.tag) /\ ~Fetches(outputReqQueue)
           /\ Coming(outputReqQueue, missRequest.tag, cacheLineCursor + 1, Tail(inResponseQueue),
                     returning, nextLevel)
           /\ \A o \in Off : o < cacheLineCursor =>
                 data[LineOf[missRequest.tag]][o] = nextLevel[missRequest.tag][o]
<1> DEFINE r == missRequest
<1>1. /\ state = "REFILL" /\ responseAvailable /\ ~needsForwarding(r)
      /\ inResponseQueue' = Tail(inResponseQueue) /\ cacheLineCursor' = cacheLineCursor + 1
  BY DEF Refill
<1>2. hitRequest = None /\ r # None /\ Silent(outputReqQueue)
  BY <1>1, Response
<1>3. /\ RequestOK(r) /\ r \in Operation /\ r.op \notin NoPreconditions /\ ~claimsLine(r)
      /\ Untouched(r) /\ inCache(r) /\ ~readingFromMissBuffer
  BY <1>1, <1>2 DEF BInv, MissOK, RequestOK, ReadingOK
<1>4. Announced(r) /\ ~r.fresh
  BY <1>2, <1>3 DEF RInv, RequestsOK, Announced
<1>5. cacheLineCursor \in Off /\ cacheLineCursor \in Nat
  BY <1>1, <1>2, LineAssumption DEF BInv, TypeOK, RefillOK, Off
<1>6. /\ ~Fetches(outputReqQueue) /\ Fetching /\ FetchTag = r.tag /\ Refilled = cacheLineCursor
      /\ inResponseQueue # <<>> /\ inResponseQueue \in Seq(Val) /\ returning \in Seq(Val)
  BY <1>1, <1>2, SilentFetches DEF Fetching, FetchTag, Refilled, responseAvailable, BInv, TypeOK
<1>7. /\ Coming(outputReqQueue, r.tag, cacheLineCursor, inResponseQueue, returning, nextLevel)
      /\ \A o \in 0 .. cacheLineCursor - 1 : data[LineOf[r.tag]][o] = nextLevel[r.tag][o]
  BY <1>1, <1>6, FetchIs DEF RInv
<1>8. /\ Head(inResponseQueue) = nextLevel[r.tag][cacheLineCursor] /\ NoWords(outputReqQueue, r.tag)
      /\ Coming(outputReqQueue, r.tag, cacheLineCursor + 1, Tail(inResponseQueue), returning, nextLevel)
  <2> DEFINE t == r.tag
             q == outputReqQueue
             n == cacheLineCursor
             arrived == inResponseQueue
             sent == returning
             words == nextLevel
  <2>1. /\ Coming(q, t, n, arrived, sent, words) /\ Silent(q) /\ ~Fetches(q) /\ n \in Nat
        /\ arrived \in Seq(Val) /\ arrived # <<>> /\ sent \in Seq(Val)
    BY <1>2, <1>5, <1>6, <1>7
  <2> HIDE DEF t, q, n, arrived, sent, words
  <2>2. Head(arrived) = words[t][n] /\ NoWords(q, t) /\ Coming(q, t, n + 1, Tail(arrived), sent, words)
    BY <2>1, ComingRead
  <2>. QED BY <2>2 DEF t, q, n, arrived, sent, words
<1>9. \A o \in Off : o < cacheLineCursor => data[LineOf[r.tag]][o] = nextLevel[r.tag][o]
  BY <1>5, <1>7 DEF Off
<1>. QED BY <1>1, <1>2, <1>3, <1>4, <1>5, <1>6, <1>8, <1>9, Fields DEF inCache

(* A word of the line arrives; after the last the request resumes.         *)
LEMMA RefillServes ==
    ASSUME BInv, BInv', RInv, Refill
    PROVE  RInv' /\ ServiceStep
<1> DEFINE r == missRequest
<1>1. /\ state = "REFILL" /\ hitRequest = None /\ ~readingFromMissBuffer
      /\ r \in Operation /\ RequestOK(r) /\ Untouched(r) /\ r # None
      /\ ~needsForwarding(r) /\ ~claimsLine(r) /\ r.op \notin NoPreconditions
      /\ ~r.fresh /\ Announced(r) /\ contains(r.tag) /\ r.tag \in Tag
      /\ cacheLineCursor \in Off /\ cacheLineCursor' = cacheLineCursor + 1
      /\ inResponseQueue' = Tail(inResponseQueue)
      /\ Head(inResponseQueue) = nextLevel[r.tag][cacheLineCursor]
      /\ NoWords(outputReqQueue, r.tag) /\ ~Fetches(outputReqQueue)
      /\ Coming(outputReqQueue, r.tag, cacheLineCursor + 1, Tail(inResponseQueue),
                returning, nextLevel)
      /\ \A o \in Off : o < cacheLineCursor => data[LineOf[r.tag]][o] = nextLevel[r.tag][o]
  BY RefillIs
<1> PICK t \in Tag : t = r.tag
  BY <1>1
<1> DEFINE line == LineOf[t]
           last == cacheLineCursor + 1 >= WordsPerLine
<1>2. /\ data' = [data EXCEPT ![line] =
                     [data[line] EXCEPT ![cacheLineCursor] = Head(inResponseQueue)]]
      /\ metadata' = [metadata EXCEPT ![line] = [metadata[line] EXCEPT !.dirty = ~last]]
      /\ reservations' \in {reservations, None}
      /\ \/ /\ last /\ state' = "REQUEST" /\ hitRequest' = r /\ missRequest' = None
            /\ readingFromMissBuffer' = TRUE
         \/ ~last /\ UNCHANGED <<state, hitRequest, missRequest, readingFromMissBuffer>>
      /\ UNCHANGED <<previousState, flushAddress, pendingFlushes, missBuffer,
                     copyingToMissBuffer, inputs, outputReqQueue, output,
                     sending, workload, beyond>>
  BY DEF Refill
<1>3. /\ TypeOK /\ TagsOK /\ CleanOK /\ FetchOK /\ StoredOK /\ RequestsOK /\ BufferedOK
      /\ UNCHANGED <<nextLevel, storing, returning>>
  BY <1>2 DEF RInv, BInv, beyond
<1>4. /\ line \in Line /\ \A u \in Tag : LineOf[u] \in Line
      /\ WordsPerLine \in Nat \ {0} /\ cacheLineCursor \in Nat
      /\ last => \A o \in Off : o < cacheLineCursor \/ o = cacheLineCursor
  BY <1>1, BankAssumption, LineAssumption DEF Off
<1>5. /\ \A l \in Line : /\ metadata'[l].tag = metadata[l].tag
                         /\ metadata'[l].valid = metadata[l].valid
                         /\ l # line => metadata'[l].dirty = metadata[l].dirty
      /\ \A l \in Line, o \in Off : data'[l][o] =
            IF l = line /\ o = cacheLineCursor THEN nextLevel[t][cacheLineCursor] ELSE data[l][o]
  <2>1. /\ metadata \in [Line -> [tag : Tag, valid : BOOLEAN, dirty : BOOLEAN]]
        /\ data \in [Line -> [Off -> Val]]
    BY <1>3 DEF TypeOK
  <2>2. Head(inResponseQueue) = nextLevel[t][cacheLineCursor]
    BY <1>1
  <2> HIDE DEF line, last
  <2>3. \A l \in Line : /\ metadata'[l].tag = metadata[l].tag
                        /\ metadata'[l].valid = metadata[l].valid
                        /\ l # line => metadata'[l].dirty = metadata[l].dirty
    BY <1>2, <1>4, <2>1
  <2>4. \A l \in Line, o \in Off : data'[l][o] =
            IF l = line /\ o = cacheLineCursor THEN nextLevel[t][cacheLineCursor] ELSE data[l][o]
    BY <1>2, <1>4, <2>1, <2>2
  <2>. QED BY <2>3, <2>4
<1> HIDE DEF line
<1>6. KeepsBelow /\ StoredOK'
  <2>1. state' # "FLUSH"
    BY <1>1, <1>2
  <2>. QED BY <1>1, <1>2, <1>3, <2>1, BelowKept, StoredKept
<1>7. \A o \in Off : BelowWord(t, o) = nextLevel[t][o]
  <2>1. ASSUME NEW o \in Off PROVE Queued(outputReqQueue, t, o) = {}
    <3>1. DOMAIN outputReqQueue = 1 .. Len(outputReqQueue)
      BY <1>3 DEF TypeOK
    <3>. QED BY <1>1, <3>1 DEF Queued, NoWords, IsWord
  <2>. QED BY <1>1, <2>1 DEF BelowWord
<1>8. /\ \A u, x : /\ ~AboutToWrite(u, x) /\ ~AboutToWrite(u, x)'
                   /\ ~Claimed(u, x) /\ ~Claimed(u, x)'
      /\ \A u : /\ Awaited(u) <=> u = t
                /\ Awaited(u)' <=> u = t /\ ~last
  <2>1. /\ hitRequest' = None \/ hitRequest' = r
        /\ missRequest' = (IF last THEN None ELSE r)
    BY <1>1, <1>2
  <2>2. \A u, x : /\ ~AboutToWrite(u, x) /\ ~AboutToWrite(u, x)'
                  /\ ~Claimed(u, x) /\ ~Claimed(u, x)'
    BY <1>1, <2>1 DEF AboutToWrite, Claimed, Decided, Untouched
  <2>3. \A u : Awaited(u) <=> u = t
    BY <1>1 DEF Awaited
  <2> HIDE DEF last
  <2>4. \A u : Awaited(u)' <=> u = t /\ ~last
    BY <1>1, <2>1 DEF Awaited
  <2>. QED BY <2>2, <2>3, <2>4
<1>9. \A u \in Tag : /\ contains(u)' <=> contains(u)
                     /\ contains(u) /\ LineOf[u] = line => u = t
  BY <1>1, <1>4, <1>5 DEF contains, line
<1>10. contains(t)
  BY <1>1
<1>11. last => \A x \in Off : data'[line][x] = BelowWord(t, x)
  <2>1. last => \A x \in Off : data'[line][x] = nextLevel[t][x]
    BY <1>1, <1>4, <1>5 DEF line
  <2>. QED BY <1>7, <2>1
<1> HIDE DEF last
<1>12. \A u \in Tag, x \in Off : /\ Filled(u, x) <=> contains(u) /\ u # t
                                 /\ Filled(u, x)' <=> contains(u) /\ (u # t \/ last)
  BY <1>8, <1>9 DEF Filled
<1>13. \A u \in Tag, x \in Off : u # t /\ contains(u) =>
          /\ LineOf[u] # line /\ data'[LineOf[u]][x] = data[LineOf[u]][x]
          /\ metadata'[LineOf[u]].dirty = metadata[LineOf[u]].dirty
  BY <1>4, <1>5, <1>9
<1>14. LineOf[t] = line
  BY DEF line
<1>15. KeepsMem
  <2>1. ASSUME NEW u \in Tag, NEW x \in Off
        PROVE  MemWord(u, x)' = MemWord(u, x)
    <3>1. MemWord(u, x) = IF contains(u) /\ u # t THEN data[LineOf[u]][x] ELSE BelowWord(u, x)
      BY <1>8, <1>12 DEF MemWord
    <3>2. MemWord(u, x)' = IF contains(u) /\ (u # t \/ last) THEN data'[LineOf[u]][x]
                           ELSE BelowWord(u, x)
      BY <1>6, <1>8, <1>12 DEF MemWord, KeepsBelow
    <3>. QED BY <1>10, <1>11, <1>13, <1>14, <3>1, <3>2
  <2>. QED BY <2>1 DEF KeepsMem
<1>16. CleanOK'
  <2>1. ASSUME NEW u \in Tag, NEW x \in Off, contains(u)', ~metadata'[LineOf[u]].dirty, Filled(u, x)'
        PROVE  data'[LineOf[u]][x] = BelowWord(u, x)'
    <3>1. BelowWord(u, x)' = BelowWord(u, x)
      BY <1>6 DEF KeepsBelow
    <3>2. CASE u = t
      BY <1>11, <1>12, <1>14, <2>1, <3>1, <3>2
    <3>3. CASE u # t
      BY <1>3, <1>9, <1>12, <1>13, <2>1, <3>1, <3>3 DEF CleanOK
    <3>. QED BY <3>2, <3>3
  <2>. QED BY <2>1 DEF CleanOK
<1>17. TagsOK'
  BY <1>3, <1>5 DEF TagsOK
<1>18. \/ /\ last /\ state' = "REQUEST" /\ hitRequest' = r /\ missRequest' = None
          /\ readingFromMissBuffer' = TRUE
       \/ ~last /\ UNCHANGED <<state, hitRequest, missRequest, readingFromMissBuffer>>
  BY <1>2 DEF last
<1>19. FetchOK'
  <2>1. ~Fetches(outputReqQueue') /\ outputReqQueue' = outputReqQueue
    BY <1>1, <1>2
  <2>2. CASE last
    <3>1. ~Fetching'
      BY <1>18, <2>2 DEF Fetching
    <3>. QED BY <2>1, <3>1, FetchIs
  <2>3. CASE ~last
    <3>1. /\ Fetching' /\ FetchTag' = t /\ Refilled' = cacheLineCursor + 1 /\ state' = "REFILL"
      BY <1>1, <1>18, <2>3 DEF Fetching, FetchTag, Refilled
    <3>2. Coming(outputReqQueue', FetchTag', Refilled', inResponseQueue', returning', nextLevel')
      BY <1>1, <1>3, <2>1, <3>1
    <3>3. \A o \in 0 .. cacheLineCursor' - 1 : data'[LineOf[t]][o] = nextLevel'[t][o]
      <4>1. \A o \in 0 .. cacheLineCursor' - 1 : o \in Off /\ (o < cacheLineCursor \/ o = cacheLineCursor)
        BY <1>1, <1>4 DEF Off
      <4>. QED BY <1>1, <1>3, <1>4, <1>5, <1>14, <4>1
    <3>4. state' # "FLUSH"
      BY <3>1
    <3>. QED BY <2>1, <3>1, <3>2, <3>3, <3>4, FetchIs
  <2>. QED BY <2>2, <2>3
<1>20. RequestsOK'
  <2>1. /\ r.op \notin {"PREFETCH_LINE", "FLUSH_LINE", "FLUSH_ALL_LINES"} =>
              ~r.eop /\ r.done < totalIterations(r)
        /\ r.saved = None /\ r.op # "STORE_CONDITIONAL"
    BY <1>1, Unserved DEF Untouched, NoPreconditions
  <2>. QED BY <1>1, <1>18, <2>1 DEF RequestsOK
<1>21. BufferedOK'
  <2>1. missBuffer' # <<>> => missBuffer'[1].val = r.data[1]
    BY <1>1, <1>2, <1>3 DEF BufferedOK, Buffered
  <2>2. Buffered' = r
    BY <1>1, <1>18 DEF Buffered
  <2>3. readingFromMissBuffer' => ~claimsLine(hitRequest')
    BY <1>1, <1>18
  <2>. QED BY <2>1, <2>2, <2>3 DEF BufferedOK
<1>22. \A side \in Sides : PayloadOK(side)'
  <2>1. ASSUME NEW side \in Sides, NEW values \in Seq(Val), DueValues(side, values)
        PROVE  DueValues(side, values)'
    <3>1. ~HitOwns(side)'
      BY <1>1, <1>18 DEF HitOwns
    <3>2. CopyOwns(side)' => CopyOwns(side) /\ missRequest' = r
      <4>1. copyingToMissBuffer' => missRequest' # None
        BY DEF BInv, CopyingOK
      <4>. QED BY <1>2, <1>18, <4>1 DEF CopyOwns, SideOf, IsL1
    <3>3. IsLeft(values, missRequest)' <=> IsLeft(values, missRequest')
      BY DEF IsLeft, Remaining
    <3>. QED BY <2>1, <3>1, <3>2, <3>3 DEF DueValues
  <2>. QED BY <1>2, <2>1, PayloadsLeft
<1>23. RInv'
  BY <1>6, <1>16, <1>17, <1>19, <1>20, <1>21, <1>22 DEF RInv
<1>24. ToServe' = ToServe
  <2>1. /\ r \in Operation
        /\ <<hitRequest, missRequest>> \in {<<r, None>>, <<None, r>>, <<r, r>>}
        /\ <<hitRequest', missRequest'>> \in {<<r, None>>, <<None, r>>, <<r, r>>}
    BY <1>1, <1>18
  <2>2. KeepsWaiting
    BY <1>2, WaitingKept
  <2> HIDE DEF r
  <2>. QED BY <1>3, <1>20, <2>1, <2>2, Exchanged
<1>25. Link' \in {Link, None}
  <2>1. (hitRequest' = None \/ ~Decided(hitRequest')) /\ hitRequest = None
    BY <1>1, <1>18 DEF Decided, Untouched
  <2>2. Link = reservations /\ Link' = reservations'
    BY <2>1, LinkIs
  <2>. QED BY <1>2, <2>2
<1>26. Mem' = Mem /\ Below' = Below
  BY <1>6, <1>15, MemKept
<1>. QED BY <1>2, <1>23, <1>24, <1>25, <1>26, Unlinks

-----------------------------------------------------------------------------
(* The theorem.                                                            *)

(* Nothing happens.                                                        *)
LEMMA UnchangedServes ==
    ASSUME BInv, BInv', RInv, UNCHANGED vars
    PROVE  RInv' /\ ServiceStep
<1>1. UNCHANGED <<control, sram, flushing, buffer, inputs, inResponseQueue,
                  outputReqQueue, output, sending, workload, beyond>>
  BY DEF vars
<1>2. UNCHANGED <<hitRequest, missRequest, cacheLineCursor, flushAddress, nextLevel, storing,
                  returning>>
  BY <1>1 DEF control, flushing, beyond
<1>3. FetchOK' /\ \A side \in Sides : PayloadOK(side)'
  BY <1>1, <1>2, FetchSame, PayloadsFrame
<1>4. /\ RInv' /\ Mem' = Mem /\ Below' = Below /\ Link' = Link
      /\ \A d : Hand(hitRequest', missRequest', d) = Hand(hitRequest, missRequest, d)
  BY <1>1, <1>2, <1>3, SurroundingsServe
<1>5. ToServe' = ToServe
  BY <1>1, <1>4, WaitingKept, TodoKept DEF RInv
<1>. QED BY <1>1, <1>4, <1>5 DEF ServiceStep

(* Whatever the bank and its surroundings do, the requesters are served.   *)
LEMMA StepServes ==
    ASSUME BInv, BInv', RInv, hitUnderMiss, [Next]_vars
    PROVE  RInv' /\ ServiceStep
<1>1. CASE mainLoop
  BY <1>1, StartRefillServes, StartRequestServes, RetireRequestServes, ForwardRequestServes,
     PrepareLineServes, PrepareFetchServes, ExecuteLoadServes, ExecuteStoreServes,
     ExecuteMemsetServes, ExecuteFirstPhaseServes, ExecuteSecondPhaseServes, ExecuteFlushServes,
     ExecuteInvalidateServes, AllocateServes, AllocatedServes, FlushServes, RefillServes,
     ForwardResultServes, ForwardPayloadServes
     DEF mainLoop
<1>2. CASE CopyToMissBuffer \/ SendRequest
  BY <1>2, CopyToMissBufferServes, SendRequestServes
<1>3. CASE Surroundings
  BY <1>3, SendHeadServes, SendPayloadServes, ReceiveResponseServes, TakeResultServes
     DEF Surroundings
<1>4. CASE UNCHANGED vars
  BY <1>4, UnchangedServes
<1>. QED BY <1>1, <1>2, <1>3, <1>4 DEF Next

(* A bank that has been reset has nothing to serve.                        *)
LEMMA InitServes ==
    ASSUME Init
    PROVE  RInv /\ Service!SInit
<1>1. /\ state = "IDLE" /\ hitRequest = None /\ missRequest = None
      /\ metadata = [l \in Line |-> [tag |-> ZeroTag, valid |-> FALSE, dirty |-> FALSE]]
      /\ missBuffer = <<>> /\ copyingToMissBuffer = FALSE /\ readingFromMissBuffer = FALSE
      /\ reservations = None /\ inputQueue = <<>> /\ requestSig = <<>>
      /\ outputReqQueue = <<>> /\ output = [q \in OutQueue |-> <<>>]
      /\ sending = [core |-> <<>>, remote |-> <<>>]
      /\ nextLevel = InitialMem /\ storing = None
  BY DEF Init
<1>2. \A u \in Tag : ~contains(u) /\ LineOf[u] \in Line
  BY <1>1, BankAssumption DEF contains
<1>3. \A side \in Sides : PayloadOK(side)
  <2>1. ASSUME NEW side \in Sides PROVE PayloadOK(side)
    <3>1. Queue(side) = <<>> /\ sending[side] = <<>> /\ <<>> \in Seq(Val)
      BY <1>1 DEF Queue, Sides
    <3>2. DueValues(side, <<>>)
      BY <1>1 DEF DueValues, CopyOwns, HitOwns
    <3>3. StreamOf(Seq(Val), ValueSteps, <<>>, <<>>, <<>>)
      BY <3>1, StreamOfEmpty
    <3>. QED BY <3>1, <3>2, <3>3 DEF PayloadOK
  <2>. QED BY <2>1
<1>4. StoredOK
  <2>1. <<ZeroTag, 0>> \in Tag \X Nat /\ <<ZeroTag, 0>>[2] = 0
    BY BankAssumption
  <2>2. StreamOf(Tag \X Nat, LineSteps, <<>>, <<ZeroTag, 0>>, <<ZeroTag, 0>>)
    BY <2>1, StreamOfEmpty
  <2>. QED BY <1>1, <2>1, <2>2 DEF StoredOK
<1>5. BufferedOK /\ RequestsOK /\ TagsOK /\ CleanOK
  BY <1>1, <1>2 DEF BufferedOK, RequestsOK, TagsOK, CleanOK
<1>6. FetchOK
  BY <1>1 DEF FetchOK, Fetching
<1>7. \A u \in Tag, x \in Off : BelowWord(u, x) = InitialMem[u][x] /\ MemWord(u, x) = InitialMem[u][x]
  <2>1. \A u, x : Queued(outputReqQueue, u, x) = {}
    BY <1>1 DEF Queued
  <2>2. \A u \in Tag, x \in Off : BelowWord(u, x) = InitialMem[u][x]
    BY <1>1, <2>1 DEF BelowWord
  <2>. QED BY <1>1, <1>2, <2>2 DEF MemWord, AboutToWrite, Filled
<1>8. Mem = InitialMem /\ Below = InitialMem
  <2>1. InitialMem = [u \in Tag |-> [x \in Off |-> InitialMem[u][x]]]
    BY BankAssumption
  <2>. QED BY <1>7, <2>1 DEF Mem, Below
<1>9. ToServe = [d \in Dest |-> <<>>]
  <2>1. ASSUME NEW d PROVE Todo(d) = <<>>
    <3>1. Waiting(d) = <<>>
      BY <1>1, InQueueEmpty DEF Waiting
    <3>2. InHand(d) = <<>>
      BY <1>1 DEF InHand, InSlot
    <3>. QED BY <3>1, <3>2 DEF Todo
  <2>. QED BY <2>1 DEF ToServe
<1>10. Link = None
  BY <1>1 DEF Link
<1>. QED BY <1>1, <1>3, <1>4, <1>5, <1>6, <1>8, <1>9, <1>10 DEF RInv, Service!SInit

(***************************************************************************)
(* Whatever order hits, misses, refills, evictions and late payloads       *)
(* happen in, requesters see one memory, and each channel is served in     *)
(* order.                                                                  *)
(***************************************************************************)
THEOREM RequestersAreServed ==
    ASSUME hitUnderMiss, ~LatePayload
    PROVE  Spec /\ []LineStaysUnderMiss => ImplementsMemoryService
<1>1. Init => BInv /\ RInv /\ Service!SInit
  BY InitHolds, InitServes
<1>2. BInv /\ RInv /\ LineStaysUnderMiss /\ [Next]_vars
         => BInv' /\ RInv' /\ [Service!SNext]_(Service!svars)
  <2>. SUFFICES ASSUME BInv, RInv, LineStaysUnderMiss, [Next]_vars
                PROVE  BInv' /\ RInv' /\ [Service!SNext]_(Service!svars)
    OBVIOUS
  <2>1. BInv'
    BY StepKeeps
  <2>2. RInv' /\ ServiceStep
    BY <2>1, StepServes
  <2>. QED BY <2>1, <2>2 DEF ServiceStep, Service!svars
<1>. QED BY <1>1, <1>2, PTL DEF Spec, ImplementsMemoryService, Service!ServiceSpec
=============================================================================
