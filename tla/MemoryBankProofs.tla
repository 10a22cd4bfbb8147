-------------------------- MODULE MemoryBankProofs --------------------------
(***************************************************************************)
(* Proofs about MemoryBank: what its processes rely on is there when they  *)
(* use it, for any number of lines, words, channels and requests.          *)
(***************************************************************************)
EXTENDS MemoryBank, SequenceTheorems, TLAPS

-----------------------------------------------------------------------------
(* Streams: sequences of flits that belong together.                       *)

(***************************************************************************)
(* A queue is a stream from n to m if there is a value of S before and     *)
(* after each of its flits, n at first and m in the end, and each flit     *)
(* leads from one to the other as a step of R does.  Often it is a count.  *)
(***************************************************************************)
StreamOf(S, R, q, n, m) ==
    \E at \in [0 .. Len(q) -> S] :
        /\ at[0] = n /\ at[Len(q)] = m
        /\ \A k \in 1 .. Len(q) : <<at[k - 1], q[k], at[k]>> \in R

Stream(R, q, n, m) == StreamOf(Nat, R, q, n, m)

(* What Append adds and keeps.                                             *)
LEMMA Appended ==
    ASSUME NEW S, NEW q \in Seq(S), NEW f \in S
    PROVE  /\ Append(q, f) \in Seq(S) /\ q \o <<f>> = Append(q, f)
           /\ Append(q, f) # <<>>
           /\ Len(Append(q, f)) = Len(q) + 1 /\ Len(q) \in Nat
           /\ Append(q, f)[Len(q) + 1] = f
           /\ \A k \in 1 .. Len(q) : Append(q, f)[k] = q[k]
<1>1. Append(q, f) = q \o <<f>>
  BY AppendIsConcat
<1>2. Len(q) \in Nat
  BY LenProperties
<1>. QED BY <1>1, <1>2, AppendProperties

(* What Tail removes and keeps.                                            *)
LEMMA Taken ==
    ASSUME NEW S, NEW q \in Seq(S), q # <<>>
    PROVE  /\ Tail(q) \in Seq(S) /\ Head(q) = q[1] /\ q[1] \in S
           /\ Len(q) \in Nat \ {0} /\ Len(Tail(q)) = Len(q) - 1
           /\ \A k \in 1 .. Len(q) - 1 : Tail(q)[k] = q[k + 1]
           /\ Tail(q) = <<>> <=> Len(q) = 1
<1>1. Len(q) \in Nat \ {0}
  BY EmptySeq, LenProperties
<1>2. Tail(q) \in Seq(S) /\ Len(Tail(q)) = Len(q) - 1
  BY HeadTailProperties
<1>3. \A k \in 1 .. Len(q) - 1 : Tail(q)[k] = q[k + 1]
  BY <1>1, <1>2, HeadTailProperties
<1>4. Tail(q) = <<>> <=> Len(q) = 1
  <2>1. ASSUME NEW t \in Seq(S), Len(t) = Len(q) - 1 PROVE t = <<>> <=> Len(q) = 1
    BY <1>1, <2>1, EmptySeq
  <2>. QED BY <1>2, <2>1
<1>5. Head(q) = q[1] /\ q[1] \in S
  BY <1>1, ElementOfSeq
<1>. QED BY <1>1, <1>2, <1>3, <1>4, <1>5

(* A sequence is empty if its length is 0.                                 *)
LEMMA Empties ==
    ASSUME NEW S, NEW q \in Seq(S)
    PROVE  Len(q) \in Nat /\ (q = <<>> <=> Len(q) = 0) /\ \A k \in 1 .. Len(q) : q[k] \in S
BY EmptySeq, LenProperties, ElementOfSeq

(* An empty queue leaves everything as it is.                            *)
LEMMA StreamOfEmpty ==
    ASSUME NEW T, NEW R, NEW n \in T
    PROVE  StreamOf(T, R, <<>>, n, n)
<1> DEFINE count == [k \in 0 .. 0 |-> n]
<1>1. count \in [0 .. Len(<<>>) -> T] /\ count[0] = n /\ count[Len(<<>>)] = n
  BY EmptySeq
<1>2. \A k \in 1 .. Len(<<>>) : FALSE
  BY EmptySeq
<1> HIDE DEF count
<1>. QED BY <1>1, <1>2 DEF StreamOf

(* ... and no other.                                                       *)
LEMMA StreamOfNothing ==
    ASSUME NEW T, NEW R, NEW n, NEW m, StreamOf(T, R, <<>>, n, m)
    PROVE  n = m
BY EmptySeq DEF StreamOf

(* A stream goes on with a flit that is due.                               *)
LEMMA StreamOfMore ==
    ASSUME NEW T, NEW R, NEW S, NEW q \in Seq(S), NEW n, NEW m, StreamOf(T, R, q, n, m),
           NEW f \in S, NEW l \in T, <<m, f, l>> \in R
    PROVE  StreamOf(T, R, Append(q, f), n, l)
<1>1. PICK count \in [0 .. Len(q) -> T] :
        /\ count[0] = n /\ count[Len(q)] = m
        /\ \A k \in 1 .. Len(q) : <<count[k - 1], q[k], count[k]>> \in R
  BY DEF StreamOf
<1>2. /\ Len(q) \in Nat /\ Len(Append(q, f)) = Len(q) + 1
      /\ Append(q, f)[Len(q) + 1] = f
      /\ \A k \in 1 .. Len(q) : Append(q, f)[k] = q[k]
  BY Appended
<1> DEFINE more == [k \in 0 .. Len(q) + 1 |-> IF k = Len(q) + 1 THEN l ELSE count[k]]
<1>3. /\ more \in [0 .. Len(q) + 1 -> T]
      /\ more[Len(q) + 1] = l /\ \A k \in 0 .. Len(q) : more[k] = count[k]
  BY <1>2
<1> HIDE DEF more
<1>4. ASSUME NEW k \in 1 .. Len(q) + 1
      PROVE  <<more[k - 1], Append(q, f)[k], more[k]>> \in R
  <2>1. CASE k = Len(q) + 1
    <3>1. more[k - 1] = m /\ more[k] = l /\ Append(q, f)[k] = f
      BY <1>1, <1>2, <1>3, <2>1
    <3>. QED BY <3>1
  <2>2. CASE k \in 1 .. Len(q)
    <3>1. more[k - 1] = count[k - 1] /\ more[k] = count[k] /\ Append(q, f)[k] = q[k]
      <4>1. k - 1 \in 0 .. Len(q) /\ k \in 0 .. Len(q)
        BY <1>2, <2>2
      <4>. QED BY <1>2, <1>3, <2>2, <4>1
    <3>. QED BY <1>1, <2>2, <3>1
  <2>3. k = Len(q) + 1 \/ k \in 1 .. Len(q)
    BY <1>2
  <2>. QED BY <2>1, <2>2, <2>3
<1>5. more[0] = n
  BY <1>1, <1>2, <1>3
<1>. QED BY <1>2, <1>3, <1>4, <1>5 DEF StreamOf

(* The first flit of a stream, and the stream behind it.                   *)
LEMMA StreamOfTail ==
    ASSUME NEW T, NEW R, NEW S, NEW q \in Seq(S), q # <<>>, NEW n, NEW m, StreamOf(T, R, q, n, m)
    PROVE  \E l \in T : n \in T /\ <<n, q[1], l>> \in R /\ StreamOf(T, R, Tail(q), l, m)
<1>1. PICK count \in [0 .. Len(q) -> T] :
        /\ count[0] = n /\ count[Len(q)] = m
        /\ \A k \in 1 .. Len(q) : <<count[k - 1], q[k], count[k]>> \in R
  BY DEF StreamOf
<1>2. /\ Len(q) \in Nat \ {0} /\ Len(Tail(q)) = Len(q) - 1
      /\ \A k \in 1 .. Len(q) - 1 : Tail(q)[k] = q[k + 1]
  BY Taken
<1> DEFINE rest == [k \in 0 .. Len(q) - 1 |-> count[k + 1]]
<1>3. rest \in [0 .. Len(q) - 1 -> T] /\ \A k \in 0 .. Len(q) - 1 : rest[k] = count[k + 1]
  BY <1>2
<1> HIDE DEF rest
<1>4. rest[0] = count[1] /\ rest[Len(q) - 1] = m
  BY <1>1, <1>2, <1>3
<1>5. ASSUME NEW k \in 1 .. Len(q) - 1
      PROVE  <<rest[k - 1], Tail(q)[k], rest[k]>> \in R
  <2>1. k + 1 \in 1 .. Len(q) /\ rest[k - 1] = count[(k + 1) - 1] /\ rest[k] = count[k + 1]
    BY <1>2, <1>3
  <2>2. Tail(q)[k] = q[k + 1]
    BY <1>2
  <2>. QED BY <1>1, <2>1, <2>2
<1>6. StreamOf(T, R, Tail(q), count[1], m)
  BY <1>2, <1>3, <1>4, <1>5 DEF StreamOf
<1>7. 1 \in 1 .. Len(q) /\ count[1] \in T /\ count[0] \in T /\ count[1 - 1] = n
  BY <1>1, <1>2
<1>8. <<n, q[1], count[1]>> \in R
  BY <1>1, <1>7
<1>. QED BY <1>1, <1>6, <1>7, <1>8

(* The same of counts.                                                     *)
LEMMA StreamEmpty ==
    ASSUME NEW R, NEW n \in Nat
    PROVE  Stream(R, <<>>, n, n)
BY StreamOfEmpty DEF Stream

(* No flits, and no change of the count.                                   *)
LEMMA StreamOfNone ==
    ASSUME NEW R, NEW n, NEW m, Stream(R, <<>>, n, m)
    PROVE  n = m
BY StreamOfNothing DEF Stream

(* A stream of counts goes on with a flit that is due.                     *)
LEMMA StreamAppend ==
    ASSUME NEW R, NEW S, NEW q \in Seq(S), NEW n, NEW m, Stream(R, q, n, m),
           NEW f \in S, NEW l \in Nat, <<m, f, l>> \in R
    PROVE  Stream(R, Append(q, f), n, l)
BY StreamOfMore DEF Stream

(* The first flit of a stream of counts, and the stream behind it.         *)
LEMMA StreamTail ==
    ASSUME NEW R, NEW S, NEW q \in Seq(S), q # <<>>, NEW n, NEW m, Stream(R, q, n, m)
    PROVE  \E l \in Nat : n \in Nat /\ <<n, q[1], l>> \in R /\ Stream(R, Tail(q), l, m)
BY StreamOfTail DEF Stream

-----------------------------------------------------------------------------
(* What the bank waits for.                                                *)

\* The two inputs: requests of the cores, and of other tiles' banks.
Sides == {"core", "remote"}
SideOf(r) == IF IsL1(r) THEN "core" ELSE "remote"
Queue(side) == IF side = "core" THEN inputQueue ELSE requestSig

\* An input: a head when no payload is due, and then its payload.
InputSteps(side) == {s \in Nat \X InFlit \X Nat :
    IF s[2].head
    THEN s[1] = 0 /\ s[3] = payloadFlits(s[2].req.op) /\ SideOf(s[2].req) = side
    ELSE s[1] = s[3] + 1 /\ s[2].eop = (s[3] = 0)}

\* The queue to the next level: each STORE_LINE is followed by its words.
FlushSteps == {s \in Nat \X OutFlit \X Nat :
    CASE s[2].kind = "STORE_LINE" -> s[1] = 0 /\ s[3] = WordsPerLine
      [] s[2].kind = "WORD"       -> s[1] = s[3] + 1 /\ s[2].eop = (s[3] = 0)
      [] OTHER                    -> s[1] = 0 /\ s[3] = 0}

\* Payload flits of a request that have not been read.
Remaining(r) ==
    IF r.op = "MEMSET_LINE" THEN IF r.saved = None THEN 1 ELSE 0
    ELSE IF payloadFlits(r.op) = 0 THEN 0
    ELSE payloadFlits(r.op) - r.done

\* Words that the next level returns for a request that is passed on to it.
Results(r) == IF HasReturnAddress(r) THEN resultFlitsRemaining(r) ELSE 0
Asks(flit) ==
    IF flit.kind = "FETCH_LINE" THEN WordsPerLine
    ELSE IF flit.kind = "FORWARD" THEN Results(flit.req)
    ELSE 0

\* The request in hand has been put aside and waits for a flush.
Parked == state \in {"ALLOCATE", "FLUSH"} /\ missRequest # None

\* Words that are to come from the next level.
Wanted ==
    IF missRequest # None
    THEN IF needsForwarding(missRequest) THEN Results(missRequest)
         ELSE IF state = "REFILL" THEN WordsPerLine - cacheLineCursor
         ELSE WordsPerLine
    ELSE IF state = "ALLOCATE" THEN WordsPerLine
    ELSE IF state = "FORWARD" THEN Results(hitRequest)
    ELSE 0

-----------------------------------------------------------------------------
(* The invariant.                                                          *)

\* A request of which nothing has been done.
Untouched(r) == r.done = 0 /\ r.saved = None /\ ~r.eop

\* A request and its progress.
RequestOK(r) ==
    /\ r \in Operation
    /\ r.done <= totalIterations(r)
    /\ r.op \notin Loads => ~r.eop
    /\ r.saved # None => r.op \in Atomics \cup {"STORE_CONDITIONAL", "MEMSET_LINE"}
    /\ r.op \in Atomics \cup {"STORE_CONDITIONAL"} /\ r.saved # None => r.done = 0
    /\ r.op = "MEMSET_LINE" => (r.saved = None <=> r.done = 0)

\* The request in hand, in each state of mainLoop().
HitOK ==
    /\ hitRequest = None <=> state \in {"IDLE", "REFILL"}
    /\ hitRequest # None =>
        /\ RequestOK(hitRequest)
        /\ needsForwarding(hitRequest) =>
              Untouched(hitRequest) /\ state \in {"REQUEST", "FORWARD"}
        /\ state # "FORWARD" /\ hitRequest.op \notin NoPreconditions
              /\ ~Untouched(hitRequest) => inCache(hitRequest)
        /\ state = "FORWARD" => needsForwarding(hitRequest) /\ awaitingPayload(hitRequest)
        /\ state = "ALLOCATE" =>
              /\ hitRequest.op \notin NoPreconditions /\ ~claimsLine(hitRequest)
              /\ Untouched(hitRequest)
              /\ missRequest = None => ~inCache(hitRequest)

\* The request that was put aside has its line, and no request that is
\* served in the meantime takes it away or would have to be put aside too.
MissOK ==
    missRequest # None =>
        /\ RequestOK(missRequest)
        /\ needsForwarding(missRequest) => missRequest.saved = None
        /\ ~needsForwarding(missRequest) =>
              /\ missRequest.op \notin NoPreconditions /\ ~claimsLine(missRequest)
              /\ Untouched(missRequest) /\ inCache(missRequest)
        /\ Parked => hitRequest = missRequest
        /\ hitRequest # None /\ ~Parked =>
              /\ hitRequest.tag # missRequest.tag
              /\ hitRequest.op \notin {"FLUSH_LINE", "FLUSH_ALL_LINES"}
              /\ hitRequest.op \notin NoPreconditions => inCache(hitRequest)
              /\ ~(needsForwarding(hitRequest) /\ resultsToSend(hitRequest))

\* A line that is being flushed has words left, and whose line it is is known.
FlushOK ==
    state = "FLUSH" =>
        /\ cacheLineCursor < WordsPerLine /\ flushAddress # None
        /\ previousState = (IF missRequest # None THEN "ALLOCATE" ELSE "REQUEST")

\* A response that is being read belongs to a request that wants it.
RefillOK ==
    state = "REFILL" =>
        /\ missRequest # None
        /\ ~needsForwarding(missRequest) => cacheLineCursor < WordsPerLine

\* The miss buffer is read by the request that resumes, while it has its line.
ReadingOK ==
    readingFromMissBuffer =>
        /\ state = "REQUEST" /\ missRequest = None
        /\ hitRequest.op \notin NoPreconditions /\ ~needsForwarding(hitRequest)
        /\ inCache(hitRequest)

\* A payload that is being copied is one flit of a request that waits for its line.
CopyingOK ==
    copyingToMissBuffer =>
        missRequest # None /\ ~needsForwarding(missRequest) /\ Remaining(missRequest) = 1

\* The miss buffer holds what the request has not read, and no head flit.
BufferOK ==
    /\ \A k \in 1 .. Len(missBuffer) : ~missBuffer[k].head
    /\ Len(missBuffer) =
          IF readingFromMissBuffer THEN Remaining(hitRequest)
          ELSE IF missRequest # None /\ ~needsForwarding(missRequest) /\ ~copyingToMissBuffer
          THEN Remaining(missRequest) ELSE 0

\* Whose payload an input carries next.
CopyOwns(side) == copyingToMissBuffer /\ SideOf(missRequest) = side
HitOwns(side) ==
    hitRequest # None /\ ~readingFromMissBuffer /\ ~Parked /\ SideOf(hitRequest) = side

\* n payload flits are to come before the next head.
Due(side, n) ==
    /\ CopyOwns(side) => n = 1
    /\ HitOwns(side) => IF state = "FORWARD" THEN n > 0 ELSE n = Remaining(hitRequest)
    /\ ~CopyOwns(side) /\ ~HitOwns(side) => n = 0

\* An input carries whole requests, and starts with what its owner has not read.
InputOK(side) ==
    /\ ~(CopyOwns(side) /\ HitOwns(side))
    /\ \E n \in Nat : Stream(InputSteps(side), Queue(side), n, Len(sending[side])) /\ Due(side, n)

\* No flit asks for words; one asks for w.
Silent(q) == \A k \in 1 .. Len(q) : Asks(q[k]) = 0
AsksOnce(q, w) ==
    \E k \in 1 .. Len(q) :
        Asks(q[k]) = w /\ \A j \in 1 .. Len(q) : j # k => Asks(q[j]) = 0

\* What is wanted either has been asked for, or is on its way.
ResponsesOK ==
    /\ missRequest = None => inResponseQueue = <<>>
    /\ \/ /\ Wanted > 0 /\ inResponseQueue = <<>> /\ returning = <<>>
          /\ AsksOnce(outputReqQueue, Wanted)
       \/ /\ Silent(outputReqQueue)
          /\ Len(inResponseQueue) + Len(returning) = Wanted
          /\ copyingToMissBuffer => returning # <<>>

\* The flits to the next level are whole lines and single requests.
StoringOK ==
    Stream(FlushSteps, outputReqQueue,
           IF storing = None THEN 0 ELSE WordsPerLine - storing.off,
           IF state = "FLUSH" THEN WordsPerLine - cacheLineCursor ELSE 0)

\* The inductive invariant.
BInv ==
    /\ TypeOK
    /\ HitOK /\ MissOK /\ FlushOK /\ RefillOK
    /\ ReadingOK /\ CopyingOK /\ BufferOK
    /\ \A side \in Sides : InputOK(side)
    /\ ResponsesOK /\ StoringOK

(***************************************************************************)
(* What the programs have to see to: while a request waits for its line,   *)
(* no request invalidates all lines, and none passes on a line operation,  *)
(* for which processIdle() does not look (MemoryBank.cpp:346-376).         *)
(***************************************************************************)
LineStaysUnderMiss ==
    missRequest # None /\ hitRequest # None =>
        /\ hitRequest.op # "INVALIDATE_ALL_LINES"
        /\ hitRequest.skip => hitRequest.op \notin LineOps

-----------------------------------------------------------------------------
(* Requests.                                                               *)

(* The fields of a request.                                                *)
LEMMA Fields ==
    ASSUME NEW r \in Operation
    PROVE  /\ r.op \in Opcode /\ r.tag \in Tag /\ r.off \in Off /\ r.dest \in Dest
           /\ r.skip \in BOOLEAN /\ r.done \in Nat /\ r.saved \in Val \cup {None}
           /\ r.eop \in BOOLEAN /\ r # None
BY NoneAssumption DEF Operation

(* How much a request has to do.                                           *)
LEMMA Totals ==
    ASSUME NEW r \in Operation
    PROVE  /\ totalIterations(r) \in Nat \ {0}
           /\ r.op \in AllLines => totalIterations(r) = NumLines
           /\ r.op \in {"STORE_LINE", "PUSH_LINE", "MEMSET_LINE"} => totalIterations(r) = WordsPerLine
           /\ r.op \in {"STORE_W", "STORE_CONDITIONAL"} \cup Atomics \cup Directory \cup LineOps
                 => totalIterations(r) = 1
           /\ payloadFlits(r.op) \in Nat
           /\ r.op \notin AllLines /\ r.done < totalIterations(r) => CurrentOff(r) \in Off
<1>1. r.op \in Opcode /\ r.off \in 0 .. WordsPerLine - 1 /\ r.done \in Nat
  BY Fields DEF Off
<1>2. WordsPerLine \in Nat \ {0} /\ NumLines \in Nat \ {0}
  BY LineAssumption
<1>3. totalIterations(r) \in Nat \ {0} /\ payloadFlits(r.op) \in Nat
  BY <1>1, <1>2 DEF totalIterations, payloadFlits, wholeLine, AllLines
<1>4. r.op \notin AllLines /\ r.done < totalIterations(r) => CurrentOff(r) \in Off
  <2>1. CASE wholeLine(r.op)
    BY <1>1, <1>2, <2>1 DEF totalIterations, CurrentOff, Off
  <2>2. CASE ~wholeLine(r.op) /\ r.op = "IPK_READ"
    BY <1>1, <1>2, <2>2 DEF totalIterations, CurrentOff, Off
  <2>3. CASE ~wholeLine(r.op) /\ r.op # "IPK_READ"
    BY <1>1, <1>2, <2>3 DEF totalIterations, CurrentOff, Off
  <2>. QED BY <2>1, <2>2, <2>3
<1>. QED
  BY <1>1, <1>2, <1>3, <1>4
     DEF totalIterations, wholeLine, AllLines, Atomics, Directory, LineOps

(* Whether a request is passed on, and to whom it answers, is decided by    *)
(* what does not change.                                                   *)
Same(p, r) ==
    p.op = r.op /\ p.tag = r.tag /\ p.off = r.off /\ p.dest = r.dest /\ p.skip = r.skip

(* What is asked of a request does not depend on its progress.              *)
LEMMA SameRequest ==
    ASSUME NEW p, NEW r, Same(p, r)
    PROVE  /\ totalIterations(p) = totalIterations(r)
           /\ needsForwarding(p) <=> needsForwarding(r)
           /\ claimsLine(p) <=> claimsLine(r)
           /\ HasReturnAddress(p) <=> HasReturnAddress(r)
           /\ inCache(p) <=> inCache(r)
           /\ SideOf(p) = SideOf(r)
BY DEF Same, totalIterations, needsForwarding, claimsLine, HasReturnAddress, inCache, SideOf, IsL1

(* The progress of a request.                                              *)
Moved(p, r, done, saved, eop) ==
    p \in Operation /\ Same(p, r) /\ p.done = done /\ p.saved = saved /\ p.eop = eop

(* What each step of execute() makes of a request.                          *)
LEMMA Progress ==
    ASSUME NEW r \in Operation, NEW v \in Val \cup {None}, NEW e \in BOOLEAN
    PROVE  /\ Moved(Iterated(r), r, r.done + 1, r.saved, r.eop)
           /\ Moved([Iterated(r) EXCEPT !.eop = e], r, r.done + 1, r.saved, e)
           /\ Moved([Iterated(r) EXCEPT !.saved = v], r, r.done + 1, v, r.eop)
           /\ Moved([r EXCEPT !.saved = v], r, r.done, v, r.eop)
           /\ Moved([r EXCEPT !.fresh = TRUE], r, r.done, r.saved, r.eop)
<1>1. r.done + 1 \in Nat
  BY Fields
<1>2. Moved(Iterated(r), r, r.done + 1, r.saved, r.eop)
  BY <1>1 DEF Operation, Iterated, Same, Moved
<1>3. Moved([Iterated(r) EXCEPT !.eop = e], r, r.done + 1, r.saved, e)
  BY <1>1 DEF Operation, Iterated, Same, Moved
<1>4. Moved([Iterated(r) EXCEPT !.saved = v], r, r.done + 1, v, r.eop)
  BY <1>1 DEF Operation, Iterated, Same, Moved
<1>5. Moved([r EXCEPT !.saved = v], r, r.done, v, r.eop)
  BY DEF Operation, Same, Moved
<1>6. Moved([r EXCEPT !.fresh = TRUE], r, r.done, r.saved, r.eop)
  BY DEF Operation, Same, Moved
<1>. QED BY <1>2, <1>3, <1>4, <1>5, <1>6

(* A request that has just been taken from a queue.                        *)
LEMMA Decoded ==
    ASSUME NEW h \in HeadFlit
    PROVE  LET r == decodeMemoryRequest(h)
           IN  /\ RequestOK(r) /\ Untouched(r)
               /\ r.op = h.op /\ r.tag = h.tag /\ r.dest = h.dest
               /\ Remaining(r) = payloadFlits(h.op)
<1> DEFINE r == decodeMemoryRequest(h)
<1>1. r \in Operation
  BY DEF HeadFlit, Operation, decodeMemoryRequest
<1>2. Untouched(r) /\ r.op = h.op /\ r.tag = h.tag /\ r.dest = h.dest
  BY DEF decodeMemoryRequest, Untouched
<1> HIDE DEF r
<1>3. RequestOK(r)
  BY <1>1, <1>2, Totals DEF RequestOK, Untouched
<1>4. Remaining(r) = payloadFlits(h.op)
  BY <1>1, <1>2, Totals DEF Remaining, Untouched, payloadFlits
<1>. QED BY <1>2, <1>3, <1>4 DEF r

(* The payload a request waits for, and the results it has to send.         *)
LEMMA Untaken ==
    ASSUME NEW r, RequestOK(r), Untouched(r)
    PROVE  /\ Remaining(r) = payloadFlits(r.op)
           /\ awaitingPayload(r) <=> Remaining(r) > 0
           /\ resultFlitsRemaining(r) \in Nat /\ Results(r) \in Nat
           /\ r.op \notin NoPreconditions /\ ~claimsLine(r) => Remaining(r) \in {0, 1}
<1>1. r \in Operation /\ r.op \in Opcode /\ r.done = 0 /\ r.saved = None
  BY Fields DEF RequestOK, Untouched
<1>2. totalIterations(r) \in Nat \ {0} /\ payloadFlits(r.op) \in Nat /\ WordsPerLine \in Nat \ {0}
  BY <1>1, Totals, LineAssumption
<1>3. Remaining(r) = payloadFlits(r.op)
  BY <1>1, <1>2 DEF Remaining, payloadFlits
<1>4. awaitingPayload(r) <=> Remaining(r) > 0
  BY <1>1, <1>2, <1>3
     DEF awaitingPayload, payloadFlitsRemaining, payloadFlits, Directory, Stores, Atomics
<1>5. resultFlitsRemaining(r) \in Nat
  BY <1>1, <1>2 DEF resultFlitsRemaining
<1>6. r.op \notin NoPreconditions /\ ~claimsLine(r) => Remaining(r) \in {0, 1}
  BY <1>3 DEF claimsLine, payloadFlits
<1>. QED BY <1>3, <1>4, <1>5, <1>6 DEF Results

(* A request is not done while it is passed on, unless it only prefetches.  *)
LEMMA NotDone ==
    ASSUME NEW r \in Operation, Untouched(r), r.op # "PREFETCH_LINE"
    PROVE  ~complete(r, inCache(r))
BY Totals DEF Untouched, complete

(* A request that is done needs no payload.                                *)
LEMMA DoneHasPayload ==
    ASSUME NEW r, RequestOK(r), complete(r, inCache(r))
    PROVE  Remaining(r) = 0
<1>1. r \in Operation /\ r.op \in Opcode /\ r.done \in Nat
  BY Fields DEF RequestOK
<1>2. CASE payloadFlits(r.op) = 0 /\ r.op # "MEMSET_LINE"
  BY <1>2 DEF Remaining
<1>3. CASE ~(payloadFlits(r.op) = 0 /\ r.op # "MEMSET_LINE")
  <2>1. r.op \notin Loads \cup {"PREFETCH_LINE", "FLUSH_LINE", "INVALIDATE_LINE"}
    BY <1>3 DEF payloadFlits, Loads, Atomics, Directory
  <2>2. r.done = totalIterations(r)
    BY <1>1, <2>1 DEF complete, RequestOK
  <2>. QED
    BY <1>1, <1>3, <2>1, <2>2, Totals, LineAssumption
       DEF Remaining, payloadFlits, RequestOK, Atomics, Directory
<1>. QED BY <1>2, <1>3

-----------------------------------------------------------------------------
(* Flits.                                                                  *)

(* The flits of an input.                                                  *)
LEMMA InFlits ==
    ASSUME NEW f \in InFlit
    PROVE  /\ f.head \in BOOLEAN
           /\ f.head => f.req \in HeadFlit /\ f = HeadOf(f.req)
           /\ ~f.head => f.val \in Val /\ f.eop \in BOOLEAN
BY DEF InFlit, HeadOf

(* A head flit announces its payload.                                       *)
LEMMA HeadStep ==
    ASSUME NEW h \in HeadFlit
    PROVE  HeadOf(h) \in InFlit /\ <<0, HeadOf(h), payloadFlits(h.op)>> \in InputSteps(SideOf(h))
<1>1. HeadOf(h) \in InFlit /\ HeadOf(h).head /\ HeadOf(h).req = h
  BY DEF InFlit, HeadOf
<1>2. payloadFlits(h.op) \in Nat
  BY LineAssumption DEF payloadFlits
<1>. QED BY <1>1, <1>2 DEF InputSteps

(* The last flit of a payload ends its packet.                              *)
LEMMA PayloadStep ==
    ASSUME NEW side, NEW v \in Val, NEW n \in Nat \ {0}
    PROVE  /\ PayloadOf(v, n = 1) \in InFlit
           /\ <<n, PayloadOf(v, n = 1), n - 1>> \in InputSteps(side)
<1> DEFINE f == PayloadOf(v, n = 1)
<1>1. f \in InFlit /\ ~f.head /\ f.eop = (n = 1)
  BY DEF InFlit, PayloadOf
<1>2. n - 1 \in Nat /\ (n = 1 <=> n - 1 = 0)
  OBVIOUS
<1> HIDE DEF f
<1>3. f.eop = (n - 1 = 0)
  BY <1>1, <1>2
<1>4. <<n, f, n - 1>> \in InputSteps(side)
  BY <1>1, <1>2, <1>3 DEF InputSteps
<1>. QED BY <1>1, <1>4 DEF f

(* What a flit at the head of an input says of the count.                  *)
LEMMA InputStep ==
    ASSUME NEW side, NEW n, NEW f, NEW l, <<n, f, l>> \in InputSteps(side)
    PROVE  /\ n \in Nat /\ l \in Nat /\ f \in InFlit
           /\ f.head => n = 0 /\ l = payloadFlits(f.req.op) /\ SideOf(f.req) = side
           /\ ~f.head => n = l + 1 /\ (f.eop <=> l = 0)
BY InFlits DEF InputSteps

(* The flits to the next level.                                            *)
LEMMA OutFlits ==
    ASSUME NEW f \in OutFlit
    PROVE  /\ f.kind \in {"FETCH_LINE", "STORE_LINE", "WORD", "FORWARD", "FORWARDED_WORD"}
           /\ f.kind \in {"FETCH_LINE", "STORE_LINE", "WORD"} => f.tag \in Tag
           /\ f.kind = "WORD" => f.val \in Val /\ f.eop \in BOOLEAN
           /\ f.kind = "FORWARD" => f.req \in Operation
BY DEF OutFlit

(* The flits that the bank sends, and what they do to the count.           *)
LEMMA FlushStep ==
    ASSUME NEW f \in OutFlit
    PROVE  /\ f.kind = "STORE_LINE" => <<0, f, WordsPerLine>> \in FlushSteps
           /\ f.kind \notin {"STORE_LINE", "WORD"} => <<0, f, 0>> \in FlushSteps
           /\ f.kind = "WORD" => \A n \in Nat : f.eop = (n = 0) => <<n + 1, f, n>> \in FlushSteps
BY LineAssumption DEF FlushSteps

(* What the bank sends to the next level.                                   *)
LEMMA SentFlits ==
    /\ \A t \in Tag : /\ [kind |-> "FETCH_LINE", tag |-> t] \in OutFlit
                      /\ [kind |-> "STORE_LINE", tag |-> t] \in OutFlit
    /\ \A t \in Tag, o \in Off, v \in Val, e \in BOOLEAN :
          [kind |-> "WORD", tag |-> t, off |-> o, val |-> v, eop |-> e] \in OutFlit
    /\ \A r \in Operation : [kind |-> "FORWARD", req |-> r] \in OutFlit
    /\ \A e \in BOOLEAN : [kind |-> "FORWARDED_WORD", eop |-> e] \in OutFlit
BY DEF OutFlit

(* What the queue to the next level asks for.                              *)
LEMMA QueueAsks ==
    ASSUME NEW q \in Seq(OutFlit), NEW f \in OutFlit, NEW w
    PROVE  /\ Silent(q) /\ Asks(f) = 0 => Silent(Append(q, f))
           /\ Silent(q) /\ Asks(f) = w => AsksOnce(Append(q, f), w)
           /\ AsksOnce(q, w) /\ Asks(f) = 0 => AsksOnce(Append(q, f), w)
<1>1. /\ Len(q) \in Nat /\ Len(Append(q, f)) = Len(q) + 1
      /\ Append(q, f)[Len(q) + 1] = f
      /\ \A k \in 1 .. Len(q) : Append(q, f)[k] = q[k]
  BY Appended
<1>2. \A k \in 1 .. Len(q) + 1 : k = Len(q) + 1 \/ k \in 1 .. Len(q)
  BY <1>1
<1>3. Silent(q) /\ Asks(f) = 0 => Silent(Append(q, f))
  BY <1>1, <1>2 DEF Silent
<1>4. ASSUME Silent(q), Asks(f) = w PROVE AsksOnce(Append(q, f), w)
  <2>1. Len(q) + 1 \in 1 .. Len(q) + 1
    BY <1>1
  <2>. QED BY <1>1, <1>2, <1>4, <2>1 DEF Silent, AsksOnce
<1>5. ASSUME AsksOnce(q, w), Asks(f) = 0 PROVE AsksOnce(Append(q, f), w)
  <2>1. PICK k \in 1 .. Len(q) :
          Asks(q[k]) = w /\ \A j \in 1 .. Len(q) : j # k => Asks(q[j]) = 0
    BY <1>5 DEF AsksOnce
  <2>2. k \in 1 .. Len(q) + 1 /\ Asks(Append(q, f)[k]) = w
    BY <1>1, <2>1
  <2>3. \A j \in 1 .. Len(q) + 1 : j # k => Asks(Append(q, f)[j]) = 0
    BY <1>1, <1>2, <1>5, <2>1
  <2>. QED BY <1>1, <2>2, <2>3 DEF AsksOnce
<1>. QED BY <1>3, <1>4, <1>5

(* The flit that leaves is the one that asks, or it is still in the queue.  *)
LEMMA TailAsks ==
    ASSUME NEW q \in Seq(OutFlit), q # <<>>, NEW w
    PROVE  /\ Silent(q) => Asks(q[1]) = 0 /\ Silent(Tail(q))
           /\ AsksOnce(q, w) => \/ Asks(q[1]) = w /\ Silent(Tail(q))
                                \/ Asks(q[1]) = 0 /\ AsksOnce(Tail(q), w)
<1>1. /\ Len(q) \in Nat \ {0} /\ Len(Tail(q)) = Len(q) - 1
      /\ \A k \in 1 .. Len(q) - 1 : Tail(q)[k] = q[k + 1]
  BY Taken
<1>2. Silent(q) => Asks(q[1]) = 0 /\ Silent(Tail(q))
  BY <1>1 DEF Silent
<1>3. ASSUME AsksOnce(q, w)
      PROVE  \/ Asks(q[1]) = w /\ Silent(Tail(q))
             \/ Asks(q[1]) = 0 /\ AsksOnce(Tail(q), w)
  <2>1. PICK k \in 1 .. Len(q) :
          Asks(q[k]) = w /\ \A j \in 1 .. Len(q) : j # k => Asks(q[j]) = 0
    BY <1>3 DEF AsksOnce
  <2>2. CASE k = 1
    BY <1>1, <2>1, <2>2 DEF Silent
  <2>3. CASE k # 1
    <3>1. k - 1 \in 1 .. Len(q) - 1 /\ Asks(Tail(q)[k - 1]) = w
      BY <1>1, <2>1, <2>3
    <3>2. ASSUME NEW j \in 1 .. Len(q) - 1, j # k - 1 PROVE Asks(Tail(q)[j]) = 0
      <4>1. j + 1 \in 1 .. Len(q) /\ j + 1 # k
        BY <1>1, <2>1, <3>2
      <4>. QED BY <1>1, <2>1, <4>1
    <3>3. AsksOnce(Tail(q), w)
      BY <1>1, <3>1, <3>2 DEF AsksOnce
    <3>4. 1 \in 1 .. Len(q)
      BY <1>1
    <3>. QED BY <2>1, <2>3, <3>3, <3>4
  <2>. QED BY <2>2, <2>3
<1>. QED BY <1>2, <1>3

-----------------------------------------------------------------------------
(* What the parts of the invariant depend on.                              *)

(* How a request counts, while nothing is put aside or taken up.           *)
LEMMA OwnersFrame ==
    ASSUME UNCHANGED <<control, buffer>>
    PROVE  /\ Parked' <=> Parked
           /\ \A side : /\ CopyOwns(side)' <=> CopyOwns(side)
                        /\ HitOwns(side)' <=> HitOwns(side)
                        /\ \A n : Due(side, n)' <=> Due(side, n)
BY DEF control, buffer, CopyOwns, HitOwns, Parked, SideOf, IsL1, Due, Remaining

(* Most of the invariant is about the bank's requests and its tags.        *)
LEMMA RequestsFrame ==
    ASSUME UNCHANGED <<control, metadata, cacheLineCursor, flushAddress, buffer>>
    PROVE  /\ HitOK => HitOK'
           /\ MissOK => MissOK'
           /\ FlushOK => FlushOK'
           /\ RefillOK => RefillOK'
           /\ ReadingOK => ReadingOK'
           /\ CopyingOK => CopyingOK'
           /\ BufferOK => BufferOK'
           /\ Wanted' = Wanted
BY DEF control, buffer, HitOK, MissOK, FlushOK, RefillOK, ReadingOK, CopyingOK, BufferOK,
       Wanted, Parked, inCache, contains

(* An input that is left alone: what is due on it may only have other owners. *)
LEMMA InputKept ==
    ASSUME NEW side, InputOK(side), Queue(side)' = Queue(side),
           sending'[side] = sending[side],
           ~(CopyOwns(side)' /\ HitOwns(side)'),
           \A n \in Nat : Due(side, n) => Due(side, n)'
    PROVE  InputOK(side)'
BY DEF InputOK

(* An input from which a flit is taken.                                    *)
LEMMA InputTaken ==
    ASSUME NEW side, InputOK(side), Queue(side) \in Seq(InFlit), Queue(side) # <<>>,
           Queue(side)' = Tail(Queue(side)), sending'[side] = sending[side],
           ~(CopyOwns(side)' /\ HitOwns(side)'),
           \A n, l \in Nat : Due(side, n) /\ <<n, Queue(side)[1], l>> \in InputSteps(side)
                                => Due(side, l)'
    PROVE  InputOK(side)'
<1>1. PICK n \in Nat : Stream(InputSteps(side), Queue(side), n, Len(sending[side])) /\ Due(side, n)
  BY DEF InputOK
<1>2. PICK l \in Nat : <<n, Queue(side)[1], l>> \in InputSteps(side)
                       /\ Stream(InputSteps(side), Tail(Queue(side)), l, Len(sending[side]))
  BY <1>1, StreamTail
<1>3. Due(side, l)'
  BY <1>1, <1>2
<1>. QED BY <1>2, <1>3 DEF InputOK

(* An input that a requester adds a flit to.                               *)
LEMMA InputMore ==
    ASSUME NEW side, InputOK(side), Queue(side) \in Seq(InFlit), UNCHANGED <<control, buffer>>,
           NEW f \in InFlit, Queue(side)' = Append(Queue(side), f), Len(sending'[side]) \in Nat,
           <<Len(sending[side]), f, Len(sending'[side])>> \in InputSteps(side)
    PROVE  InputOK(side)'
<1>1. PICK n \in Nat : Stream(InputSteps(side), Queue(side), n, Len(sending[side])) /\ Due(side, n)
  BY DEF InputOK
<1>2. Stream(InputSteps(side), Append(Queue(side), f), n, Len(sending'[side]))
  BY <1>1, StreamAppend
<1>3. Due(side, n)' /\ ~(CopyOwns(side)' /\ HitOwns(side)')
  BY <1>1, OwnersFrame DEF InputOK
<1>. QED BY <1>2, <1>3 DEF InputOK

(* What is wanted stays on its way.                                        *)
LEMMA ResponsesKept ==
    ASSUME ResponsesOK, UNCHANGED <<inResponseQueue, returning>>, Wanted' = Wanted,
           outputReqQueue \in Seq(OutFlit),
           \/ outputReqQueue' = outputReqQueue
           \/ \E f \in OutFlit : outputReqQueue' = Append(outputReqQueue, f) /\ Asks(f) = 0,
           missRequest' = None => inResponseQueue = <<>>,
           copyingToMissBuffer' =>
              copyingToMissBuffer \/ (Wanted \in Nat \ {0} /\ inResponseQueue = <<>>),
           returning \in Seq(Val)
    PROVE  ResponsesOK'
<1>1. Silent(outputReqQueue) => Silent(outputReqQueue')
  BY QueueAsks
<1>2. AsksOnce(outputReqQueue, Wanted) => AsksOnce(outputReqQueue', Wanted)
  BY QueueAsks
<1>3. Len(<<>>) = 0 /\ (returning = <<>> => Len(returning) = 0)
  BY EmptySeq
<1>. QED BY <1>1, <1>2, <1>3 DEF ResponsesOK, Silent, AsksOnce

(* The bank asks for what it wants.                                        *)
LEMMA ResponsesAsked ==
    ASSUME ResponsesOK, UNCHANGED <<inResponseQueue, returning>>, Wanted = 0, Wanted' \in Nat,
           outputReqQueue \in Seq(OutFlit), NEW f \in OutFlit,
           outputReqQueue' = Append(outputReqQueue, f), Asks(f) = Wanted',
           returning \in Seq(Val), inResponseQueue \in Seq(Val), ~copyingToMissBuffer'
    PROVE  ResponsesOK'
<1>1. Silent(outputReqQueue) /\ Len(inResponseQueue) + Len(returning) = 0
  BY DEF ResponsesOK
<1>2. inResponseQueue = <<>> /\ returning = <<>>
  BY <1>1, Empties
<1>3. Len(inResponseQueue') = 0 /\ Len(returning') = 0
  BY <1>2, EmptySeq
<1>4. CASE Wanted' = 0
  <2>1. Silent(outputReqQueue')
    BY <1>1, <1>4, QueueAsks
  <2>. QED BY <1>2, <1>3, <1>4, <2>1 DEF ResponsesOK, Silent
<1>5. CASE Wanted' > 0
  <2>1. AsksOnce(outputReqQueue', Wanted')
    BY <1>1, QueueAsks
  <2>. QED BY <1>2, <1>5, <2>1 DEF ResponsesOK, AsksOnce
<1>. QED BY <1>4, <1>5

-----------------------------------------------------------------------------
(* The requesters and the networks.                                        *)

(* The queues that the inputs are made of.                                  *)
LEMMA InputTypes ==
    ASSUME TypeOK
    PROVE  /\ inputQueue \in Seq(InFlit) /\ requestSig \in Seq(InFlit)
           /\ \A side \in Sides : Queue(side) \in Seq(InFlit) /\ sending[side] \in Seq(Val)
BY DEF TypeOK, Sides, Queue

(* What leaves the bank's state alone disturbs its queues only.            *)
LEMMA SurroundingsKeep ==
    ASSUME BInv, UNCHANGED <<control, sram, flushing, buffer, outputReqQueue, storing>>, TypeOK',
           InputOK("core")', InputOK("remote")', ResponsesOK'
    PROVE  BInv'
<1>1. UNCHANGED <<control, metadata, cacheLineCursor, flushAddress, buffer>>
  BY DEF sram, flushing
<1>2. /\ HitOK' /\ MissOK' /\ FlushOK' /\ RefillOK' /\ ReadingOK' /\ CopyingOK' /\ BufferOK'
  BY <1>1, RequestsFrame DEF BInv
<1>3. StoringOK'
  BY <1>1 DEF BInv, StoringOK, control
<1>. QED BY <1>2, <1>3 DEF BInv, Sides

(* An input that is not concerned.                                         *)
LEMMA InputFrame ==
    ASSUME NEW side, InputOK(side), UNCHANGED <<control, buffer>>,
           Queue(side)' = Queue(side), sending'[side] = sending[side]
    PROVE  InputOK(side)'
BY OwnersFrame, InputKept DEF InputOK

(* Responses that are not concerned.                                       *)
LEMMA ResponsesFrame ==
    ASSUME ResponsesOK, UNCHANGED <<control, cacheLineCursor, copyingToMissBuffer, inResponseQueue,
                                    returning, outputReqQueue>>
    PROVE  ResponsesOK'
BY DEF ResponsesOK, Wanted, control, Silent, AsksOnce

(* A requester sends a head flit, with its payload to follow.               *)
LEMMA SendHeadKeeps ==
    ASSUME BInv, NEW h \in Requests, SendHead(h)
    PROVE  BInv'
<1>1. h \in HeadFlit /\ Len(h.data) = payloadFlits(h.op) /\ h.data \in Seq(Val)
  BY BankAssumption DEF Requests, HeadFlit
<1>2. HeadOf(h) \in InFlit /\ <<0, HeadOf(h), payloadFlits(h.op)>> \in InputSteps(SideOf(h))
  BY <1>1, HeadStep
<1>3. /\ UNCHANGED <<control, sram, flushing, buffer, inResponseQueue, outputReqQueue,
                     output, beyond>>
      /\ workload' = [workload EXCEPT !.sent = @ + 1] /\ workload.sent < MaxRequests
  BY DEF SendHead
<1>4. Len(<<>>) = 0 /\ payloadFlits(h.op) \in Nat
  BY <1>1, EmptySeq, LenProperties
<1>5. /\ inputQueue \in Seq(InFlit) /\ Len(inputQueue) <= InputSize
      /\ requestSig \in Seq(InFlit) /\ Len(requestSig) <= 1
      /\ sending \in [core : Seq(Val), remote : Seq(Val)]
      /\ InputOK("core") /\ InputOK("remote")
  BY DEF BInv, TypeOK, Sides
<1> DEFINE Arrives ==
             /\ inputQueue' \in Seq(InFlit) /\ Len(inputQueue') <= InputSize
             /\ requestSig' \in Seq(InFlit) /\ Len(requestSig') <= 1
             /\ sending' \in [core : Seq(Val), remote : Seq(Val)]
             /\ InputOK("core")' /\ InputOK("remote")'
<1>6. ASSUME IsL1(h) PROVE Arrives
  <2>. SideOf(h) = "core"
    BY <1>6 DEF SideOf
  <2>1. /\ sending.core = <<>> /\ Len(inputQueue) < InputSize
        /\ inputQueue' = Append(inputQueue, HeadOf(h)) /\ requestSig' = requestSig
        /\ sending' = [sending EXCEPT !.core = h.data]
    BY <1>6 DEF SendHead
  <2>2. inputQueue' \in Seq(InFlit) /\ Len(inputQueue') <= InputSize
    BY <1>2, <1>5, <2>1, Appended, BankAssumption
  <2>3. sending' \in [core : Seq(Val), remote : Seq(Val)]
        /\ sending'["core"] = h.data /\ sending'["remote"] = sending["remote"]
    BY <1>1, <1>5, <2>1
  <2>4. InputOK("core")'
    <3>1. Queue("core")' = Append(Queue("core"), HeadOf(h)) /\ Queue("core") \in Seq(InFlit)
      BY <1>5, <2>1 DEF Queue
    <3>2. Len(sending["core"]) = 0 /\ Len(sending'["core"]) = payloadFlits(h.op)
      BY <1>1, <1>4, <2>1, <2>3
    <3>. QED BY <1>2, <1>3, <1>4, <1>5, <3>1, <3>2, InputMore
  <2>5. InputOK("remote")'
    BY <1>3, <1>5, <2>1, <2>3, InputFrame DEF Queue
  <2>. QED BY <1>5, <2>1, <2>2, <2>3, <2>4, <2>5
<1>7. ASSUME ~IsL1(h) PROVE Arrives
  <2>. SideOf(h) = "remote"
    BY <1>7 DEF SideOf
  <2>1. /\ sending.remote = <<>> /\ requestSig = <<>>
        /\ requestSig' = <<HeadOf(h)>> /\ inputQueue' = inputQueue
        /\ sending' = [sending EXCEPT !.remote = h.data]
    BY <1>7 DEF SendHead
  <2>2. requestSig' = Append(requestSig, HeadOf(h))
    BY <1>2, <2>1
  <2>3. requestSig' \in Seq(InFlit) /\ Len(requestSig') <= 1
    BY <1>2, <1>4, <1>5, <2>1, <2>2, Appended
  <2>4. sending' \in [core : Seq(Val), remote : Seq(Val)]
        /\ sending'["remote"] = h.data /\ sending'["core"] = sending["core"]
    BY <1>1, <1>5, <2>1
  <2>5. InputOK("remote")'
    <3>1. Queue("remote")' = Append(Queue("remote"), HeadOf(h)) /\ Queue("remote") \in Seq(InFlit)
      BY <1>5, <2>2 DEF Queue
    <3>2. Len(sending["remote"]) = 0 /\ Len(sending'["remote"]) = payloadFlits(h.op)
      BY <1>1, <1>4, <2>1, <2>4
    <3>. QED BY <1>2, <1>3, <1>4, <1>5, <3>1, <3>2, InputMore
  <2>6. InputOK("core")'
    BY <1>3, <1>5, <2>1, <2>4, InputFrame DEF Queue
  <2>. QED BY <1>5, <2>1, <2>3, <2>4, <2>5, <2>6
<1>8. Arrives
  BY <1>6, <1>7
<1>9. TypeOK'
  <2>1. workload' \in [requests : Workloads, sent : 0 .. MaxRequests]
    <3>1. workload \in [requests : Workloads, sent : 0 .. MaxRequests] /\ MaxRequests \in Nat
      BY BankAssumption DEF BInv, TypeOK
    <3>2. workload.sent + 1 \in 0 .. MaxRequests
      BY <1>3, <3>1
    <3>. QED BY <1>3, <3>1, <3>2
  <2>. QED BY <1>3, <1>8, <2>1
           DEF BInv, TypeOK, control, sram, flushing, buffer, beyond
<1>10. ResponsesOK'
  BY <1>3, ResponsesFrame DEF BInv, control, flushing, buffer, beyond
<1>. QED BY <1>3, <1>8, <1>9, <1>10, SurroundingsKeep DEF beyond

(* A requester sends the next flit of its payload.                          *)
LEMMA SendPayloadKeeps ==
    ASSUME BInv, SendCorePayload \/ SendRemotePayload
    PROVE  BInv'
<1>1. /\ UNCHANGED <<control, sram, flushing, buffer, inResponseQueue, outputReqQueue,
                     output, workload, beyond>>
  BY DEF SendCorePayload, SendRemotePayload
<1>2. /\ inputQueue \in Seq(InFlit) /\ Len(inputQueue) <= InputSize
      /\ requestSig \in Seq(InFlit) /\ Len(requestSig) <= 1
      /\ sending \in [core : Seq(Val), remote : Seq(Val)]
      /\ InputOK("core") /\ InputOK("remote")
  BY DEF BInv, TypeOK, Sides
<1> DEFINE Arrives ==
             /\ inputQueue' \in Seq(InFlit) /\ Len(inputQueue') <= InputSize
             /\ requestSig' \in Seq(InFlit) /\ Len(requestSig') <= 1
             /\ sending' \in [core : Seq(Val), remote : Seq(Val)]
             /\ InputOK("core")' /\ InputOK("remote")'
<1>3. ASSUME NEW side, NEW q \in Seq(Val), q # <<>>
      PROVE  LET f == PayloadOf(Head(q), Len(q) = 1)
             IN  /\ f \in InFlit /\ <<Len(q), f, Len(Tail(q))>> \in InputSteps(side)
                 /\ Tail(q) \in Seq(Val) /\ Len(Tail(q)) \in Nat
  <2>1. /\ Len(q) \in Nat \ {0} /\ Head(q) \in Val /\ Len(Tail(q)) = Len(q) - 1
        /\ Tail(q) \in Seq(Val) /\ Len(Tail(q)) \in Nat
    BY <1>3, Taken
  <2>. QED BY <2>1, PayloadStep
<1>4. ASSUME SendCorePayload PROVE Arrives
  <2> DEFINE f == PayloadOf(Head(sending.core), Len(sending.core) = 1)
  <2>1. /\ sending.core # <<>> /\ Len(inputQueue) < InputSize
        /\ inputQueue' = Append(inputQueue, f) /\ requestSig' = requestSig
        /\ sending' = [sending EXCEPT !.core = Tail(sending.core)]
    BY <1>4 DEF SendCorePayload
  <2>2. /\ f \in InFlit /\ <<Len(sending.core), f, Len(Tail(sending.core))>> \in InputSteps("core")
        /\ Tail(sending.core) \in Seq(Val) /\ Len(Tail(sending.core)) \in Nat
    BY <1>2, <1>3, <2>1
  <2> HIDE DEF f
  <2>3. inputQueue' \in Seq(InFlit) /\ Len(inputQueue') <= InputSize
    BY <1>2, <2>1, <2>2, Appended, BankAssumption
  <2>4. sending' \in [core : Seq(Val), remote : Seq(Val)]
        /\ sending'["core"] = Tail(sending["core"]) /\ sending'["remote"] = sending["remote"]
    BY <1>2, <2>1, <2>2
  <2>5. Queue("core")' = Append(Queue("core"), f) /\ Queue("core") \in Seq(InFlit)
    BY <1>2, <2>1 DEF Queue
  <2>6. InputOK("core")'
    BY <1>1, <1>2, <2>2, <2>4, <2>5, InputMore
  <2>7. InputOK("remote")'
    BY <1>1, <1>2, <2>1, <2>4, InputFrame DEF Queue
  <2>. QED BY <1>2, <2>1, <2>3, <2>4, <2>6, <2>7
<1>5. ASSUME SendRemotePayload PROVE Arrives
  <2> DEFINE f == PayloadOf(Head(sending.remote), Len(sending.remote) = 1)
  <2>1. /\ sending.remote # <<>> /\ requestSig = <<>>
        /\ requestSig' = <<f>> /\ inputQueue' = inputQueue
        /\ sending' = [sending EXCEPT !.remote = Tail(sending.remote)]
    BY <1>5 DEF SendRemotePayload
  <2>2. /\ f \in InFlit /\ <<Len(sending.remote), f, Len(Tail(sending.remote))>> \in InputSteps("remote")
        /\ Tail(sending.remote) \in Seq(Val) /\ Len(Tail(sending.remote)) \in Nat
    BY <1>2, <1>3, <2>1
  <2> HIDE DEF f
  <2>3. requestSig' = Append(requestSig, f) /\ Len(requestSig) = 0
    BY <2>1, <2>2, EmptySeq
  <2>4. requestSig' \in Seq(InFlit) /\ Len(requestSig') <= 1
    BY <1>2, <2>2, <2>3, Appended
  <2>5. sending' \in [core : Seq(Val), remote : Seq(Val)]
        /\ sending'["remote"] = Tail(sending["remote"]) /\ sending'["core"] = sending["core"]
    BY <1>2, <2>1, <2>2
  <2>6. Queue("remote")' = Append(Queue("remote"), f) /\ Queue("remote") \in Seq(InFlit)
    BY <1>2, <2>3 DEF Queue
  <2>7. InputOK("remote")'
    BY <1>1, <1>2, <2>2, <2>5, <2>6, InputMore
  <2>8. InputOK("core")'
    BY <1>1, <1>2, <2>1, <2>5, InputFrame DEF Queue
  <2>. QED BY <1>2, <2>1, <2>4, <2>5, <2>7, <2>8
<1>6. Arrives
  BY <1>4, <1>5
<1>7. TypeOK'
  BY <1>1, <1>6 DEF BInv, TypeOK, control, sram, flushing, buffer, beyond
<1>8. ResponsesOK'
  BY <1>1, ResponsesFrame DEF BInv, control, flushing, buffer, beyond
<1>. QED BY <1>1, <1>6, <1>7, <1>8, SurroundingsKeep DEF beyond

(* A word of a response reaches the bank.                                   *)
LEMMA ReceiveResponseKeeps ==
    ASSUME BInv, ReceiveResponse, ~LatePayload
    PROVE  BInv'
<1>1. /\ returning # <<>> /\ Len(inResponseQueue) < InputSize /\ missRequest # None
      /\ Len(returning) = 1 => ~copyingToMissBuffer
      /\ inResponseQueue' = Append(inResponseQueue, Head(returning))
      /\ returning' = Tail(returning)
      /\ UNCHANGED <<control, sram, flushing, buffer, inputs, outputReqQueue, output,
                     sending, workload, nextLevel, storing>>
  BY DEF ReceiveResponse
<1>2. returning \in Seq(Val) /\ inResponseQueue \in Seq(Val)
  BY DEF BInv, TypeOK
<1>3. /\ Tail(returning) \in Seq(Val) /\ Len(Tail(returning)) = Len(returning) - 1
      /\ Len(returning) \in Nat \ {0} /\ Head(returning) \in Val
      /\ Tail(returning) = <<>> <=> Len(returning) = 1
  BY <1>1, <1>2, Taken
<1>4. /\ inResponseQueue' \in Seq(Val) /\ Len(inResponseQueue') = Len(inResponseQueue) + 1
      /\ Len(inResponseQueue) \in Nat
  BY <1>1, <1>2, <1>3, Appended
<1>5. TypeOK'
  <2>1. Len(inResponseQueue') <= InputSize
    BY <1>1, <1>4, BankAssumption
  <2>. QED BY <1>1, <1>3, <1>4, <2>1
           DEF BInv, TypeOK, control, sram, flushing, buffer, inputs
<1>6. InputOK("core")' /\ InputOK("remote")'
  BY <1>1, InputFrame DEF BInv, Sides, Queue, inputs
<1>7. ResponsesOK'
  <2>1. Wanted' = Wanted /\ missRequest' # None /\ copyingToMissBuffer' = copyingToMissBuffer
        /\ outputReqQueue' = outputReqQueue
    BY <1>1, RequestsFrame DEF sram, flushing, control, buffer
  <2>2. /\ Silent(outputReqQueue) /\ Len(inResponseQueue) + Len(returning) = Wanted
    BY <1>1 DEF BInv, ResponsesOK
  <2>3. Len(inResponseQueue') + Len(returning') = Len(inResponseQueue) + Len(returning)
    BY <1>1, <1>3, <1>4
  <2>4. copyingToMissBuffer' => returning' # <<>>
    BY <1>1, <1>3, <2>1
  <2>. QED BY <2>1, <2>2, <2>3, <2>4 DEF ResponsesOK, Silent
<1>. QED BY <1>1, <1>5, <1>6, <1>7, SurroundingsKeep

(* The network takes a result.                                              *)
LEMMA TakeResultKeeps ==
    ASSUME BInv, NEW q \in OutQueue, TakeResult(q)
    PROVE  BInv'
<1>1. /\ output[q] # <<>> /\ output' = [output EXCEPT ![q] = Tail(output[q])]
      /\ UNCHANGED <<control, sram, flushing, buffer, inputs, inResponseQueue,
                     outputReqQueue, sending, workload, beyond>>
  BY DEF TakeResult
<1>2. output' \in [OutQueue -> Seq([dest : Dest, val : Val])]
      /\ \A p \in OutQueue : Len(output'[p]) <= OutputSize
  <2>1. /\ output \in [OutQueue -> Seq([dest : Dest, val : Val])]
        /\ \A p \in OutQueue : Len(output[p]) <= OutputSize
    BY DEF BInv, TypeOK
  <2>2. /\ Tail(output[q]) \in Seq([dest : Dest, val : Val]) /\ Len(output[q]) \in Nat
        /\ Len(Tail(output[q])) = Len(output[q]) - 1
    BY <1>1, <2>1, Taken
  <2>3. OutputSize \in Nat /\ Len(Tail(output[q])) <= OutputSize
    BY <2>1, <2>2, BankAssumption
  <2>4. ASSUME NEW p \in OutQueue PROVE Len(output'[p]) <= OutputSize
    BY <1>1, <2>1, <2>3
  <2>. QED BY <1>1, <2>1, <2>2, <2>4
<1>3. TypeOK'
  BY <1>1, <1>2 DEF BInv, TypeOK, control, sram, flushing, buffer, inputs, beyond
<1>4. InputOK("core")' /\ InputOK("remote")'
  BY <1>1, InputFrame DEF BInv, Sides, Queue, inputs
<1>5. ResponsesOK'
  BY <1>1, ResponsesFrame DEF BInv, control, flushing, buffer, beyond
<1>. QED BY <1>1, <1>3, <1>4, <1>5, SurroundingsKeep DEF beyond

-----------------------------------------------------------------------------
(* What mainLoop() takes and sends.                                        *)

(* A flit is taken from the input of a request.                            *)
LEMMA Consumed ==
    ASSUME TypeOK, NEW r, Input(r) # <<>>, Consume(r)
    PROVE  /\ Input(r) = Queue(SideOf(r)) /\ SideOf(r) \in Sides
           /\ Input(r) \in Seq(InFlit) /\ Input(r)[1] \in InFlit
           /\ \A side \in Sides :
                 Queue(side)' = IF side = SideOf(r) THEN Tail(Queue(side)) ELSE Queue(side)
           /\ inputQueue' \in Seq(InFlit) /\ Len(inputQueue') <= InputSize
           /\ requestSig' \in Seq(InFlit) /\ Len(requestSig') <= 1
<1>1. /\ inputQueue \in Seq(InFlit) /\ Len(inputQueue) <= InputSize
      /\ requestSig \in Seq(InFlit) /\ Len(requestSig) <= 1
      /\ InputSize \in Nat
  BY BankAssumption DEF TypeOK
<1>2. CASE IsL1(r)
  <2>1. Input(r) = inputQueue /\ SideOf(r) = "core"
        /\ inputQueue' = Tail(inputQueue) /\ requestSig' = requestSig
    BY <1>2 DEF Input, SideOf, Consume
  <2>2. /\ inputQueue[1] \in InFlit /\ Tail(inputQueue) \in Seq(InFlit)
        /\ Len(inputQueue) \in Nat /\ Len(Tail(inputQueue)) = Len(inputQueue) - 1
    BY <1>1, <2>1, Taken
  <2>3. Len(Tail(inputQueue)) <= InputSize
    BY <1>1, <2>2
  <2>. QED BY <1>1, <2>1, <2>2, <2>3 DEF Sides, Queue
<1>3. CASE ~IsL1(r)
  <2>1. Input(r) = requestSig /\ SideOf(r) = "remote"
        /\ requestSig' = <<>> /\ inputQueue' = inputQueue
    BY <1>3 DEF Input, SideOf, Consume
  <2>2. /\ requestSig[1] \in InFlit /\ Tail(requestSig) \in Seq(InFlit)
        /\ Len(requestSig) \in Nat \ {0} /\ Tail(requestSig) = <<>> <=> Len(requestSig) = 1
    BY <1>1, <2>1, Taken
  <2>3. requestSig' = Tail(requestSig)
    BY <1>1, <2>1, <2>2
  <2>4. requestSig' \in Seq(InFlit) /\ Len(requestSig') <= 1
    BY <2>1, EmptySeq
  <2>. QED BY <1>1, <2>1, <2>2, <2>3, <2>4 DEF Sides, Queue
<1>. QED BY <1>2, <1>3

(* The request being served, or a later state p of it.                     *)
Serves(p) == state' = state /\ hitRequest' = p /\ readingFromMissBuffer' = readingFromMissBuffer
Retires   == state' = "IDLE" /\ hitRequest' = None /\ readingFromMissBuffer' = FALSE
TakesNone == UNCHANGED <<missBuffer, inputs>>
Takes(r)  == payloadAvailable(r) /\ getPayload(r)

(* A payload flit comes from the miss buffer or from the input.            *)
LEMMA PayloadTaken ==
    ASSUME BInv, state = "REQUEST", Takes(hitRequest)
    PROVE  /\ NextPayload(hitRequest) \in Val
           /\ IF readingFromMissBuffer
              THEN /\ UNCHANGED inputs /\ missBuffer # <<>> /\ missBuffer' = Tail(missBuffer)
              ELSE /\ UNCHANGED missBuffer /\ Consume(hitRequest)
                   /\ Input(hitRequest) # <<>> /\ ~Input(hitRequest)[1].head
           /\ inputQueue' \in Seq(InFlit) /\ Len(inputQueue') <= InputSize
           /\ requestSig' \in Seq(InFlit) /\ Len(requestSig') <= 1
           /\ missBuffer' \in Seq(InFlit) /\ Len(missBuffer') <= WordsPerLine
<1>1. /\ TypeOK /\ BufferOK
      /\ missBuffer \in Seq(InFlit) /\ Len(missBuffer) <= WordsPerLine
      /\ WordsPerLine \in Nat
  BY LineAssumption DEF BInv, TypeOK
<1>2. CASE readingFromMissBuffer
  <2>1. missBuffer # <<>> /\ missBuffer' = Tail(missBuffer) /\ UNCHANGED inputs
        /\ NextPayload(hitRequest) = missBuffer[1].val
    BY <1>2 DEF Takes, payloadAvailable, getPayload, NextPayload
  <2>2. /\ missBuffer[1] \in InFlit /\ Tail(missBuffer) \in Seq(InFlit)
        /\ Len(missBuffer) \in Nat \ {0} /\ Len(Tail(missBuffer)) = Len(missBuffer) - 1
    BY <1>1, <2>1, Taken
  <2>3. ~missBuffer[1].head
    BY <1>1, <2>2 DEF BufferOK
  <2>4. missBuffer[1].val \in Val
    BY <2>2, <2>3, InFlits
  <2>5. Len(Tail(missBuffer)) <= WordsPerLine
    BY <1>1, <2>2
  <2>. QED BY <1>1, <1>2, <2>1, <2>2, <2>4, <2>5 DEF TypeOK, inputs
<1>3. CASE ~readingFromMissBuffer
  <2>1. Consume(hitRequest) /\ UNCHANGED missBuffer
        /\ Input(hitRequest) # <<>> /\ ~Input(hitRequest)[1].head
        /\ NextPayload(hitRequest) = Input(hitRequest)[1].val
    BY <1>3 DEF Takes, payloadAvailable, getPayload, NextPayload, PayloadWaiting
  <2>2. Input(hitRequest)[1] \in InFlit
        /\ inputQueue' \in Seq(InFlit) /\ Len(inputQueue') <= InputSize
        /\ requestSig' \in Seq(InFlit) /\ Len(requestSig') <= 1
    BY <1>1, <2>1, Consumed
  <2>3. Input(hitRequest)[1].val \in Val
    BY <2>1, <2>2, InFlits
  <2>. QED BY <1>1, <1>3, <2>1, <2>2, <2>3
<1>. QED BY <1>2, <1>3

(* While a request is served, it alone may be done with an input.           *)
LEMMA OwnersServed ==
    ASSUME BInv, state = "REQUEST", NEW p, Same(p, hitRequest), p # None,
           UNCHANGED <<missRequest, copyingToMissBuffer>>,
           Serves(p) \/ (Retires /\ Remaining(p) = 0),
           NEW side \in Sides
    PROVE  /\ CopyOwns(side)' <=> CopyOwns(side)
           /\ HitOwns(side)' => HitOwns(side) /\ hitRequest' = p
           /\ HitOwns(side) /\ ~HitOwns(side)' => Remaining(p) = 0
           /\ ~(CopyOwns(side)' /\ HitOwns(side)')
<1>1. /\ hitRequest # None /\ ~Parked /\ ~Parked'
      /\ SideOf(p) = SideOf(hitRequest) /\ InputOK(side)
  BY SameRequest DEF BInv, HitOK, Parked, Serves, Retires
<1>2. CopyOwns(side)' <=> CopyOwns(side)
  BY DEF CopyOwns, SideOf, IsL1
<1>3. CASE Serves(p)
  <2>1. hitRequest' = p /\ hitRequest' # None
        /\ (readingFromMissBuffer' <=> readingFromMissBuffer)
    BY <1>3 DEF Serves
  <2>2. SideOf(hitRequest)' = SideOf(hitRequest)
    BY <1>1, <2>1 DEF SideOf, IsL1
  <2>3. HitOwns(side)' <=> HitOwns(side)
    BY <1>1, <2>1, <2>2 DEF HitOwns
  <2>. QED BY <1>1, <1>2, <2>1, <2>3 DEF InputOK
<1>4. CASE Retires /\ Remaining(p) = 0
  <2>1. ~HitOwns(side)'
    BY <1>4 DEF HitOwns, Retires
  <2>. QED BY <1>2, <1>4, <2>1
<1>. QED BY <1>3, <1>4

(* The inputs while a request is served: what it takes is its own.         *)
LEMMA InputServed ==
    ASSUME BInv, state = "REQUEST", NEW p, Same(p, hitRequest), p # None,
           UNCHANGED <<missRequest, copyingToMissBuffer, sending>>,
           Serves(p) \/ (Retires /\ Remaining(p) = 0),
           \/ TakesNone /\ Remaining(p) = Remaining(hitRequest)
           \/ Takes(hitRequest) /\ Remaining(p) = Remaining(hitRequest) - 1
    PROVE  BufferOK' /\ \A side \in Sides : InputOK(side)'
<1>1. /\ hitRequest # None /\ ~Parked /\ ~Parked' /\ state \notin {"FORWARD"}
      /\ state' # "FORWARD" /\ SideOf(p) = SideOf(hitRequest)
      /\ \A side \in Sides : InputOK(side)
      /\ readingFromMissBuffer => missRequest = None
  BY SameRequest DEF BInv, HitOK, Parked, Serves, Retires, ReadingOK
<1>2. ASSUME NEW side \in Sides
      PROVE  /\ CopyOwns(side)' <=> CopyOwns(side)
             /\ HitOwns(side)' => HitOwns(side) /\ hitRequest' = p
             /\ HitOwns(side) /\ ~HitOwns(side)' => Remaining(p) = 0
             /\ ~(CopyOwns(side)' /\ HitOwns(side)')
  BY OwnersServed
<1>3. ASSUME NEW side \in Sides, NEW n \in Nat, NEW l \in Nat, Due(side, n),
             ~HitOwns(side) => l = n,
             HitOwns(side) /\ n = Remaining(hitRequest) => l = Remaining(p)
      PROVE  Due(side, l)'
  <2>1. CopyOwns(side)' => l = 1
    BY <1>1, <1>2, <1>3 DEF Due, InputOK
  <2>2. HitOwns(side)' => l = Remaining(hitRequest)'
    <3>1. hitRequest' = p => Remaining(hitRequest)' = Remaining(p)
      BY DEF Remaining
    <3>. QED BY <1>1, <1>2, <1>3, <3>1 DEF Due
  <2>3. ~CopyOwns(side)' /\ ~HitOwns(side)' => l = 0
    BY <1>1, <1>2, <1>3 DEF Due
  <2>. QED BY <1>1, <2>1, <2>2, <2>3 DEF Due
<1>4. CASE TakesNone /\ Remaining(p) = Remaining(hitRequest)
  <2>1. ASSUME NEW side \in Sides PROVE InputOK(side)'
    <3>1. Queue(side)' = Queue(side)
      BY <1>4 DEF TakesNone, inputs, Queue
    <3>2. \A n \in Nat : Due(side, n) => Due(side, n)'
      BY <1>3, <1>4
    <3>. QED BY <1>1, <1>2, <3>1, <3>2, InputKept
  <2>2. BufferOK'
    <3>1. missBuffer' = missBuffer /\ BufferOK
      BY <1>4 DEF TakesNone, BInv
    <3>2. CASE Serves(p)
      <4>1. hitRequest' = p /\ (readingFromMissBuffer' <=> readingFromMissBuffer)
        BY <3>2 DEF Serves
      <4>. QED BY <1>4, <3>1, <4>1 DEF BufferOK, Remaining
    <3>3. CASE Retires /\ Remaining(p) = 0
      <4>1. ~readingFromMissBuffer'
        BY <3>3 DEF Retires
      <4>2. CASE readingFromMissBuffer
        BY <1>1, <1>4, <3>1, <3>3, <4>1, <4>2 DEF BufferOK
      <4>3. CASE ~readingFromMissBuffer
        BY <1>4, <3>1, <4>1, <4>3 DEF BufferOK, Remaining
      <4>. QED BY <4>2, <4>3
    <3>. QED BY <3>2, <3>3
  <2>. QED BY <2>1, <2>2
<1>5. CASE Takes(hitRequest) /\ Remaining(p) = Remaining(hitRequest) - 1 /\ readingFromMissBuffer
  <2>1. UNCHANGED inputs /\ missBuffer # <<>> /\ missBuffer' = Tail(missBuffer)
    BY <1>5, PayloadTaken
  <2>2. ASSUME NEW side \in Sides PROVE InputOK(side)'
    <3>1. Queue(side)' = Queue(side)
      BY <2>1 DEF inputs, Queue
    <3>2. ~HitOwns(side)
      BY <1>5 DEF HitOwns
    <3>3. \A n \in Nat : Due(side, n) => Due(side, n)'
      BY <1>3, <3>2
    <3>. QED BY <1>1, <1>2, <3>1, <3>3, InputKept
  <2>3. BufferOK'
    <3>1. /\ missBuffer \in Seq(InFlit) /\ BufferOK /\ Len(missBuffer) = Remaining(hitRequest)
          /\ missRequest' = None
      BY <1>1, <1>5 DEF BInv, TypeOK, BufferOK
    <3>2. /\ Len(missBuffer) \in Nat \ {0} /\ Len(Tail(missBuffer)) = Len(missBuffer) - 1
          /\ \A k \in 1 .. Len(missBuffer) - 1 : Tail(missBuffer)[k] = missBuffer[k + 1]
      BY <2>1, <3>1, Taken
    <3>3. Len(missBuffer') = Remaining(p)
      BY <1>5, <2>1, <3>1, <3>2
    <3>4. ASSUME NEW k \in 1 .. Len(missBuffer') PROVE ~missBuffer'[k].head
      <4>1. k + 1 \in 1 .. Len(missBuffer) /\ missBuffer'[k] = missBuffer[k + 1]
        BY <2>1, <3>2
      <4>. QED BY <3>1, <4>1 DEF BufferOK
    <3>5. CASE Serves(p)
      <4>1. hitRequest' = p /\ readingFromMissBuffer'
        BY <1>5, <3>5 DEF Serves
      <4>2. Len(missBuffer') = Remaining(hitRequest')
        BY <3>3, <4>1
      <4>. QED BY <3>4, <4>1, <4>2 DEF BufferOK, Remaining
    <3>6. CASE Retires /\ Remaining(p) = 0
      BY <3>1, <3>3, <3>4, <3>6 DEF BufferOK, Retires
    <3>. QED BY <3>5, <3>6
  <2>. QED BY <2>2, <2>3
<1>6. CASE Takes(hitRequest) /\ Remaining(p) = Remaining(hitRequest) - 1 /\ ~readingFromMissBuffer
  <2>1. /\ UNCHANGED missBuffer /\ Consume(hitRequest)
        /\ Input(hitRequest) # <<>> /\ ~Input(hitRequest)[1].head
    BY <1>6, PayloadTaken
  <2>2. /\ Input(hitRequest) = Queue(SideOf(hitRequest))
        /\ \A side \in Sides : Queue(side)' =
              IF side = SideOf(hitRequest) THEN Tail(Queue(side)) ELSE Queue(side)
    BY <2>1, Consumed DEF BInv
  <2>3. ASSUME NEW side \in Sides PROVE InputOK(side)'
    <3>1. CASE side = SideOf(hitRequest)
      <4>1. /\ Queue(side) \in Seq(InFlit) /\ Queue(side) # <<>>
            /\ Queue(side)' = Tail(Queue(side)) /\ ~Queue(side)[1].head
        BY <2>1, <2>2, <3>1, InputTypes DEF BInv
      <4>2. HitOwns(side)
        BY <1>1, <1>6, <3>1 DEF HitOwns
      <4>3. ASSUME NEW n \in Nat, NEW l \in Nat, Due(side, n),
                   <<n, Queue(side)[1], l>> \in InputSteps(side)
            PROVE  Due(side, l)'
        <5>1. n = l + 1 /\ n = Remaining(hitRequest)
          BY <1>1, <4>1, <4>2, <4>3, InputStep DEF Due
        <5>2. l = Remaining(p)
          BY <1>6, <5>1
        <5>. QED BY <1>3, <4>2, <4>3, <5>2
      <4>. QED BY <1>1, <1>2, <4>1, <4>3, InputTaken
    <3>2. CASE side # SideOf(hitRequest)
      <4>1. Queue(side)' = Queue(side) /\ ~HitOwns(side)
        BY <2>2, <3>2 DEF HitOwns
      <4>2. \A n \in Nat : Due(side, n) => Due(side, n)'
        BY <1>3, <4>1
      <4>. QED BY <1>1, <1>2, <4>1, <4>2, InputKept
    <3>. QED BY <3>1, <3>2
  <2>4. BufferOK'
    <3>1. missBuffer' = missBuffer /\ BufferOK /\ ~readingFromMissBuffer'
      BY <1>6, <2>1 DEF BInv, Serves, Retires
    <3>. QED BY <1>6, <3>1 DEF BufferOK, Remaining
  <2>. QED BY <2>3, <2>4
<1>. QED BY <1>4, <1>5, <1>6

-----------------------------------------------------------------------------
(* processRequest(): a request works on its line.                          *)

\* The types that writeWord() and the reservations keep.
SramTypes ==
    /\ metadata \in [Line -> [tag : Tag, valid : BOOLEAN, dirty : BOOLEAN]]
    /\ data \in [Line -> [Off -> Val]]
    /\ reservations \in [dest : Dest, tag : Tag, off : Off] \cup {None}

OutputTypes ==
    /\ output \in [OutQueue -> Seq([dest : Dest, val : Val])]
    /\ \A q \in OutQueue : Len(output[q]) <= OutputSize

\* A line that is there stays.
KeepsLine(t) == contains(t) => metadata'[LineOf[t]].valid /\ metadata'[LineOf[t]].tag = t

(* A word is written: every line stays where it is.                        *)
LEMMA Written ==
    ASSUME SramTypes, NEW t \in Tag, NEW o \in Off, NEW v \in Val, writeWord(t, o, v)
    PROVE  SramTypes' /\ \A u \in Tag : KeepsLine(u)
<1>1. LineOf \in [Tag -> Line] /\ LineOf[t] \in Line
  BY BankAssumption
<1>2. data' = [data EXCEPT ![LineOf[t]] = [data[LineOf[t]] EXCEPT ![o] = v]]
      /\ metadata' = [metadata EXCEPT ![LineOf[t]] = [metadata[LineOf[t]] EXCEPT !.dirty = TRUE]]
      /\ reservations' \in {None, reservations}
  BY DEF writeWord
<1>3. data[LineOf[t]] \in [Off -> Val]
      /\ metadata[LineOf[t]] \in [tag : Tag, valid : BOOLEAN, dirty : BOOLEAN]
  BY <1>1 DEF SramTypes
<1>4. [data[LineOf[t]] EXCEPT ![o] = v] \in [Off -> Val]
  BY <1>3
<1>5. data' \in [Line -> [Off -> Val]]
  BY <1>1, <1>2, <1>4 DEF SramTypes
<1>6. metadata' \in [Line -> [tag : Tag, valid : BOOLEAN, dirty : BOOLEAN]]
      /\ \A l \in Line : metadata'[l].valid = metadata[l].valid /\ metadata'[l].tag = metadata[l].tag
  BY <1>1, <1>2, <1>3 DEF SramTypes
<1>7. \A u \in Tag : LineOf[u] \in Line
  BY <1>1
<1>. QED BY <1>2, <1>5, <1>6, <1>7 DEF SramTypes, KeepsLine, contains

(* A result has room in its queue.                                         *)
LEMMA Answered ==
    ASSUME OutputTypes, NEW r \in Operation, NEW v \in Val, canSendResponse(r), sendResult(r, v)
    PROVE  OutputTypes'
<1> DEFINE q == QueueOf[r.dest]
           f == [dest |-> r.dest, val |-> v]
<1>1. q \in OutQueue /\ OutputSize \in Nat /\ f \in [dest : Dest, val : Val]
  BY BankAssumption, Fields
<1> HIDE DEF q, f
<1>2. output' = [output EXCEPT ![q] = IF HasReturnAddress(r) THEN Append(output[q], f) ELSE output[q]]
      /\ (HasReturnAddress(r) => Len(output[q]) < OutputSize)
  BY DEF sendResult, canSendResponse, q, f
<1>3. output[q] \in Seq([dest : Dest, val : Val]) /\ Len(output[q]) <= OutputSize
  BY <1>1 DEF OutputTypes
<1>4. /\ Append(output[q], f) \in Seq([dest : Dest, val : Val])
      /\ Len(Append(output[q], f)) = Len(output[q]) + 1 /\ Len(output[q]) \in Nat
  BY <1>1, <1>3, Appended
<1>5. output'[q] \in Seq([dest : Dest, val : Val]) /\ Len(output'[q]) <= OutputSize
  <2>1. CASE HasReturnAddress(r)
    <3>1. output'[q] = Append(output[q], f) /\ Len(output[q]) < OutputSize
      BY <1>1, <1>2, <2>1 DEF OutputTypes
    <3>2. Len(output[q]) + 1 <= OutputSize
      BY <1>1, <1>4, <3>1
    <3>. QED BY <1>4, <3>1, <3>2
  <2>2. CASE ~HasReturnAddress(r)
    BY <1>1, <1>2, <1>3, <2>2 DEF OutputTypes
  <2>. QED BY <2>1, <2>2
<1>6. \A p \in OutQueue : p # q => output'[p] = output[p]
  BY <1>2 DEF OutputTypes
<1>7. output' \in [OutQueue -> Seq([dest : Dest, val : Val])]
  BY <1>1, <1>2, <1>3, <1>4 DEF OutputTypes
<1>. QED BY <1>5, <1>6, <1>7 DEF OutputTypes

(* The request goes on, or it is done.                                     *)
LEMMA Retiring ==
    ASSUME NEW p, RequestOK(p), Retire(p)
    PROVE  Serves(p) \/ (Retires /\ Remaining(p) = 0)
BY DoneHasPayload DEF Retire, Serves, Retires

(* A step of a request that works on its line, and leaves that of the      *)
(* request that waits alone.                                               *)
LEMMA ServedKeeps ==
    ASSUME BInv, state = "REQUEST", NEW p, Same(p, hitRequest), RequestOK(p),
           \/ Serves(p) /\ ~needsForwarding(hitRequest)
                /\ preconditionsMet(hitRequest, inCache(hitRequest))
           \/ Retires /\ Remaining(p) = 0,
           \/ TakesNone /\ Remaining(p) = Remaining(hitRequest)
           \/ Takes(hitRequest) /\ Remaining(p) = Remaining(hitRequest) - 1,
           hitRequest.op \notin NoPreconditions => KeepsLine(hitRequest.tag),
           missRequest # None => KeepsLine(missRequest.tag),
           SramTypes', OutputTypes',
           UNCHANGED <<previousState, missRequest, flushing, copyingToMissBuffer,
                       inResponseQueue, outputReqQueue, sending, workload, beyond>>
    PROVE  BInv'
<1>1. TypeOK /\ HitOK /\ MissOK /\ FlushOK /\ RefillOK /\ ReadingOK /\ CopyingOK
      /\ BufferOK /\ ResponsesOK /\ StoringOK
  BY DEF BInv
<1>2. p \in Operation /\ p # None /\ hitRequest # None /\ RequestOK(hitRequest)
      /\ hitRequest \in Operation
  BY <1>1, Fields DEF RequestOK, HitOK
<1>3. BufferOK' /\ \A side \in Sides : InputOK(side)'
  BY <1>2, InputServed
<1>4. /\ state' \in {"REQUEST", "IDLE"} /\ readingFromMissBuffer' \in BOOLEAN
      /\ hitRequest' \in {p, None} /\ (hitRequest' = None <=> state' = "IDLE")
      /\ readingFromMissBuffer' => readingFromMissBuffer /\ hitRequest' = p
  <2>1. readingFromMissBuffer \in BOOLEAN
    BY <1>1 DEF TypeOK
  <2>2. CASE Serves(p)
    <3>1. state' = "REQUEST" /\ hitRequest' = p /\ readingFromMissBuffer' = readingFromMissBuffer
      BY <2>2 DEF Serves
    <3>2. readingFromMissBuffer' \in BOOLEAN
      BY <2>1, <3>1
    <3>. QED BY <1>2, <3>1, <3>2
  <2>3. CASE Retires
    <3>1. state' = "IDLE" /\ hitRequest' = None /\ readingFromMissBuffer' = FALSE
      BY <2>3 DEF Retires
    <3>2. readingFromMissBuffer' \in BOOLEAN
      BY <3>1
    <3>. QED BY <1>2, <3>1, <3>2
  <2>. QED BY <2>2, <2>3
<1>5. TypeOK'
  <2>1. inputQueue' \in Seq(InFlit) /\ Len(inputQueue') <= InputSize
        /\ requestSig' \in Seq(InFlit) /\ Len(requestSig') <= 1
        /\ missBuffer' \in Seq(InFlit) /\ Len(missBuffer') <= WordsPerLine
    <3>1. CASE TakesNone
      BY <1>1, <3>1 DEF TakesNone, TypeOK, inputs
    <3>2. CASE Takes(hitRequest)
      BY <3>2, PayloadTaken
    <3>. QED BY <3>1, <3>2
  <2>. QED BY <1>1, <1>2, <1>4, <2>1
           DEF TypeOK, States, SramTypes, OutputTypes, flushing, beyond
<1>6. hitRequest' = p =>
        /\ ~needsForwarding(p) /\ (p.op \notin NoPreconditions => inCache(p)')
        /\ (p.op \notin NoPreconditions => inCache(hitRequest))
  <2>1. ASSUME hitRequest' = p
        PROVE  ~needsForwarding(hitRequest) /\ preconditionsMet(hitRequest, inCache(hitRequest))
    BY <1>2, <2>1 DEF Retires
  <2>. QED BY <2>1, SameRequest DEF Same, preconditionsMet, KeepsLine, inCache, contains
<1>7. HitOK'
  <2>1. CASE hitRequest' = None
    BY <1>4, <2>1 DEF HitOK
  <2>2. CASE hitRequest' = p
    BY <1>2, <1>4, <1>6, <2>2 DEF HitOK, inCache, contains
  <2>. QED BY <1>4, <2>1, <2>2
<1>8. MissOK'
  <2>1. missRequest # None => (inCache(missRequest) => inCache(missRequest)')
    BY DEF KeepsLine, inCache, contains
  <2>2. ~Parked /\ ~Parked'
    BY <1>4 DEF Parked
  <2>3. CASE hitRequest' = None
    BY <1>1, <2>1, <2>2, <2>3 DEF MissOK
  <2>4. CASE hitRequest' = p
    <3>1. missRequest # None =>
             /\ p.tag # missRequest.tag
             /\ p.op \notin {"FLUSH_LINE", "FLUSH_ALL_LINES"}
      BY <1>1, <1>2, <2>2 DEF MissOK, Same
    <3>2. hitRequest'.op \notin NoPreconditions => inCache(hitRequest)'
      BY <1>6, <2>4 DEF inCache, contains
    <3>. QED BY <1>1, <1>6, <2>1, <2>2, <2>4, <3>1, <3>2 DEF MissOK
  <2>. QED BY <1>4, <2>3, <2>4
<1>9. FlushOK' /\ RefillOK' /\ CopyingOK'
  BY <1>1, <1>4 DEF FlushOK, RefillOK, CopyingOK, Remaining
<1>10. ReadingOK'
  <2>1. ASSUME readingFromMissBuffer'
        PROVE  /\ state' = "REQUEST" /\ missRequest' = None /\ hitRequest' = p
               /\ p.op \notin NoPreconditions
    BY <1>1, <1>2, <1>4, <2>1 DEF ReadingOK, Same
  <2>. QED BY <1>6, <2>1 DEF ReadingOK, inCache, contains
<1>11. Wanted' = Wanted
  BY <1>4 DEF Wanted
<1>12. ResponsesOK'
  BY <1>1, <1>11 DEF ResponsesOK, beyond, Silent, AsksOnce
<1>13. StoringOK'
  BY <1>1, <1>4 DEF StoringOK, beyond
<1>. QED BY <1>3, <1>5, <1>7, <1>8, <1>9, <1>10, <1>12, <1>13 DEF BInv

(* What a request may rely on when it is executed.                         *)
LEMMA Executes ==
    ASSUME BInv, state = "REQUEST", Executing(hitRequest)
    PROVE  /\ RequestOK(hitRequest) /\ hitRequest \in Operation
           /\ hitRequest.done + 1 <= totalIterations(hitRequest)
           /\ ~needsForwarding(hitRequest)
           /\ preconditionsMet(hitRequest, inCache(hitRequest))
           /\ resultsToSend(hitRequest) => canSendResponse(hitRequest)
           /\ hitRequest.op \notin AllLines => CurrentOff(hitRequest) \in Off
<1>1. RequestOK(hitRequest) /\ hitRequest \in Operation /\ TypeOK
  BY DEF BInv, HitOK, RequestOK
<1>2. /\ ~needsForwarding(hitRequest)
      /\ preconditionsMet(hitRequest, inCache(hitRequest))
      /\ ~complete(hitRequest, inCache(hitRequest))
      /\ resultsToSend(hitRequest) => canSendResponse(hitRequest)
  BY DEF Executing, Serving
<1>3. hitRequest.done \in Nat /\ totalIterations(hitRequest) \in Nat
      /\ hitRequest.done <= totalIterations(hitRequest)
  BY <1>1, Fields, Totals DEF RequestOK
<1>4. hitRequest.done # totalIterations(hitRequest)
  BY <1>1, <1>2, Totals
     DEF complete, preconditionsMet, NoPreconditions, LineOps, AllLines, Directory
<1>5. hitRequest.done < totalIterations(hitRequest)
  BY <1>3, <1>4
<1>. QED BY <1>1, <1>2, <1>3, <1>5, Totals

(* The bank's types, in parts.                                             *)
LEMMA ServedTypes ==
    ASSUME BInv
    PROVE  /\ SramTypes /\ OutputTypes
           /\ \A r \in Operation :
                 /\ LineOf[r.tag] \in Line
                 /\ \A o \in Off : data[LineOf[r.tag]][o] \in Val
<1>1. SramTypes /\ OutputTypes
  BY DEF BInv, TypeOK, SramTypes, OutputTypes
<1>2. ASSUME NEW r \in Operation
      PROVE  LineOf[r.tag] \in Line /\ \A o \in Off : data[LineOf[r.tag]][o] \in Val
  <2>1. LineOf[r.tag] \in Line
    BY Fields, BankAssumption
  <2>. QED BY <1>1, <2>1 DEF SramTypes
<1>. QED BY <1>1, <1>2

(* A request that is complete gives way.                                    *)
LEMMA RetireRequestKeeps ==
    ASSUME BInv, RetireRequest
    PROVE  BInv'
<1> DEFINE p == hitRequest
<1>1. /\ state = "REQUEST" /\ complete(p, inCache(p)) /\ Retire(p)
      /\ UNCHANGED <<previousState, missRequest, sram, flushing, missBuffer,
                     copyingToMissBuffer, inputs, inResponseQueue, outputReqQueue,
                     output, sending, workload, beyond>>
  BY DEF RetireRequest
<1>2. RequestOK(p) /\ Same(p, hitRequest)
  BY <1>1 DEF BInv, HitOK, Same
<1>3. Retires /\ Remaining(p) = 0
  BY <1>1, <1>2, DoneHasPayload DEF Retire, Retires
<1>4. TakesNone /\ SramTypes' /\ OutputTypes' /\ \A u \in Tag : KeepsLine(u)
  BY <1>1, ServedTypes DEF TakesNone, sram, inputs, SramTypes, OutputTypes, KeepsLine, contains
<1>5. KeepsLine(hitRequest.tag) /\ (missRequest # None => KeepsLine(missRequest.tag))
  BY <1>1 DEF sram, KeepsLine, contains
<1> HIDE DEF p
<1>6. Remaining(p) = Remaining(hitRequest)
  BY DEF p
<1>. QED BY <1>1, <1>2, <1>3, <1>4, <1>5, <1>6, ServedKeeps

(* A load sends a word, and reserves it if it is linked.                    *)
LEMMA ExecuteLoadKeeps ==
    ASSUME BInv, ExecuteLoad
    PROVE  BInv'
<1> DEFINE word == data[LineOf[hitRequest.tag]][CurrentOff(hitRequest)]
           e    == hitRequest.op = "IPK_READ" /\ word \in EndOfPacketWords
           p    == [Iterated(hitRequest) EXCEPT !.eop = e]
<1>1. /\ state = "REQUEST" /\ hitRequest.op \in Loads /\ Executing(hitRequest)
      /\ sendResult(hitRequest, word)
      /\ reservations' = IF hitRequest.op = "LOAD_LINKED"
                         THEN [dest |-> hitRequest.dest, tag |-> hitRequest.tag,
                               off |-> hitRequest.off]
                         ELSE reservations
      /\ Retire(p)
      /\ UNCHANGED <<previousState, missRequest, metadata, data, flushing, missBuffer,
                     copyingToMissBuffer, inputs, inResponseQueue, outputReqQueue,
                     sending, workload, beyond>>
  BY DEF ExecuteLoad
<1>2. /\ RequestOK(hitRequest) /\ hitRequest \in Operation
      /\ hitRequest.done + 1 <= totalIterations(hitRequest)
      /\ ~needsForwarding(hitRequest) /\ preconditionsMet(hitRequest, inCache(hitRequest))
      /\ resultsToSend(hitRequest) => canSendResponse(hitRequest)
      /\ CurrentOff(hitRequest) \in Off
  BY <1>1, Executes DEF Loads, AllLines
<1>3. word \in Val /\ e \in BOOLEAN
  BY <1>2, ServedTypes
<1>4. Moved(p, hitRequest, hitRequest.done + 1, hitRequest.saved, e)
  BY <1>2, <1>3, Progress
<1>5. canSendResponse(hitRequest)
  <2>1. hitRequest.done \in Nat /\ totalIterations(hitRequest) \in Nat
    BY <1>2, Fields, Totals
  <2>2. resultsToSend(hitRequest)
    BY <1>1, <1>2, <2>1 DEF resultsToSend, resultFlitsRemaining
  <2>. QED BY <1>2, <2>2
<1>6. OutputTypes'
  BY <1>1, <1>2, <1>3, <1>5, Answered, ServedTypes
<1> HIDE DEF e, p, word
<1>7. p \in Operation /\ Same(p, hitRequest) /\ p.done = hitRequest.done + 1
      /\ p.saved = hitRequest.saved /\ p.eop = e
  BY <1>4 DEF Moved
<1>8. RequestOK(p) /\ Remaining(p) = 0 /\ Remaining(hitRequest) = 0
  <2>1. p.op \in Loads /\ totalIterations(p) = totalIterations(hitRequest)
    BY <1>1, <1>7, SameRequest DEF Same
  <2>2. hitRequest.saved = None
    BY <1>1, <1>2 DEF RequestOK, Loads, Atomics
  <2>3. RequestOK(p)
    BY <1>2, <1>7, <2>1, <2>2 DEF RequestOK, Loads, Atomics
  <2>4. Remaining(p) = 0 /\ Remaining(hitRequest) = 0
    BY <1>1, <2>1 DEF Remaining, payloadFlits, Loads, Atomics, Directory
  <2>. QED BY <2>3, <2>4
<1>9. SramTypes'
  <2>1. reservations' \in [dest : Dest, tag : Tag, off : Off] \cup {None}
    BY <1>1, <1>2, Fields, ServedTypes DEF SramTypes
  <2>. QED BY <1>1, <2>1, ServedTypes DEF SramTypes
<1>10. KeepsLine(hitRequest.tag) /\ (missRequest # None => KeepsLine(missRequest.tag))
  BY <1>1 DEF KeepsLine, contains
<1>11. TakesNone
  BY <1>1 DEF TakesNone
<1>12. Serves(p) \/ (Retires /\ Remaining(p) = 0)
  BY <1>1, <1>8, Retiring
<1>. QED BY <1>1, <1>2, <1>6, <1>7, <1>8, <1>9, <1>10, <1>11, <1>12, ServedKeeps

(* A store takes a payload flit and writes it.                              *)
LEMMA ExecuteStoreKeeps ==
    ASSUME BInv, ExecuteStore
    PROVE  BInv'
<1> DEFINE p == Iterated(hitRequest)
<1>1. /\ state = "REQUEST" /\ hitRequest.op \in Stores \ {"MEMSET_LINE"}
      /\ Executing(hitRequest) /\ Takes(hitRequest)
      /\ writeWord(hitRequest.tag, CurrentOff(hitRequest), NextPayload(hitRequest))
      /\ Retire(p)
      /\ UNCHANGED <<previousState, missRequest, flushing, copyingToMissBuffer,
                     inResponseQueue, outputReqQueue, output, sending, workload, beyond>>
  BY DEF ExecuteStore, Takes
<1>2. /\ RequestOK(hitRequest) /\ hitRequest \in Operation
      /\ hitRequest.done + 1 <= totalIterations(hitRequest)
      /\ ~needsForwarding(hitRequest) /\ preconditionsMet(hitRequest, inCache(hitRequest))
      /\ CurrentOff(hitRequest) \in Off
  BY <1>1, Executes DEF Stores, AllLines
<1>3. /\ hitRequest.tag \in Tag /\ NextPayload(hitRequest) \in Val
      /\ hitRequest.done \in Nat /\ hitRequest.saved \in Val \cup {None}
      /\ hitRequest.eop \in BOOLEAN
  BY <1>1, <1>2, Fields, PayloadTaken
<1>4. Moved(p, hitRequest, hitRequest.done + 1, hitRequest.saved, hitRequest.eop)
  BY <1>2, <1>3, Progress
<1>5. SramTypes' /\ \A u \in Tag : KeepsLine(u)
  BY <1>1, <1>2, <1>3, ServedTypes, Written
<1> HIDE DEF p
<1>6. p \in Operation /\ Same(p, hitRequest) /\ p.done = hitRequest.done + 1
      /\ p.saved = hitRequest.saved /\ p.eop = hitRequest.eop
  BY <1>4 DEF Moved
<1>7. RequestOK(p)
  <2>1. p.op \in Stores \ {"MEMSET_LINE"} /\ p.op = hitRequest.op
        /\ totalIterations(p) = totalIterations(hitRequest)
    BY <1>1, <1>6, SameRequest DEF Same
  <2>2. hitRequest.saved = None /\ ~hitRequest.eop
    BY <1>1, <1>2 DEF RequestOK, Loads, Atomics, Stores
  <2>. QED BY <1>2, <1>6, <2>1, <2>2 DEF RequestOK, Loads, Stores, Atomics
<1>8. Remaining(p) = Remaining(hitRequest) - 1
  BY <1>1, <1>3, <1>6, LineAssumption DEF Same, Remaining, payloadFlits, Stores, Atomics, Directory
<1>9. KeepsLine(hitRequest.tag) /\ (missRequest # None => KeepsLine(missRequest.tag))
  BY <1>3, <1>5, Fields DEF BInv, TypeOK
<1>10. OutputTypes'
  BY <1>1, ServedTypes DEF OutputTypes
<1>11. Serves(p) \/ (Retires /\ Remaining(p) = 0)
  BY <1>1, <1>7, Retiring
<1>. QED BY <1>1, <1>2, <1>5, <1>6, <1>7, <1>8, <1>9, <1>10, <1>11, ServedKeeps

(* MEMSET_LINE takes one payload flit and writes it to each word.           *)
LEMMA ExecuteMemsetKeeps ==
    ASSUME BInv, ExecuteMemset
    PROVE  BInv'
<1> DEFINE word == IF hitRequest.saved = None THEN NextPayload(hitRequest) ELSE hitRequest.saved
           p    == [Iterated(hitRequest) EXCEPT !.saved = word]
<1>1. /\ state = "REQUEST" /\ hitRequest.op = "MEMSET_LINE" /\ Executing(hitRequest)
      /\ IF hitRequest.saved = None THEN Takes(hitRequest) ELSE TakesNone
      /\ writeWord(hitRequest.tag, CurrentOff(hitRequest), word)
      /\ Retire(p)
      /\ UNCHANGED <<previousState, missRequest, flushing, copyingToMissBuffer,
                     inResponseQueue, outputReqQueue, output, sending, workload, beyond>>
  BY DEF ExecuteMemset, Takes, TakesNone
<1>2. /\ RequestOK(hitRequest) /\ hitRequest \in Operation
      /\ hitRequest.done + 1 <= totalIterations(hitRequest)
      /\ ~needsForwarding(hitRequest) /\ preconditionsMet(hitRequest, inCache(hitRequest))
      /\ CurrentOff(hitRequest) \in Off
  BY <1>1, Executes DEF AllLines
<1>3. /\ hitRequest.tag \in Tag /\ hitRequest.done \in Nat
      /\ hitRequest.saved \in Val \cup {None} /\ hitRequest.eop \in BOOLEAN
      /\ word \in Val
  BY <1>1, <1>2, Fields, PayloadTaken
<1>4. Moved(p, hitRequest, hitRequest.done + 1, word, hitRequest.eop)
  BY <1>2, <1>3, Progress
<1>5. SramTypes' /\ \A u \in Tag : KeepsLine(u)
  BY <1>1, <1>2, <1>3, ServedTypes, Written
<1> HIDE DEF p, word
<1>6. p \in Operation /\ Same(p, hitRequest) /\ p.done = hitRequest.done + 1
      /\ p.saved = word /\ word # None /\ p.eop = hitRequest.eop
  BY <1>3, <1>4, ValAssumption DEF Moved
<1>7. RequestOK(p)
  <2>1. p.op = "MEMSET_LINE" /\ totalIterations(p) = totalIterations(hitRequest)
    BY <1>1, <1>6, SameRequest DEF Same
  <2>2. ~hitRequest.eop /\ p.done # 0
    BY <1>1, <1>2, <1>3, <1>6 DEF RequestOK, Loads
  <2>. QED BY <1>2, <1>6, <2>1, <2>2 DEF RequestOK, Loads, Atomics
<1>8. Remaining(p) = 0 /\ Remaining(hitRequest) = IF hitRequest.saved = None THEN 1 ELSE 0
  BY <1>1, <1>6 DEF Same, Remaining
<1>9. \/ TakesNone /\ Remaining(p) = Remaining(hitRequest)
      \/ Takes(hitRequest) /\ Remaining(p) = Remaining(hitRequest) - 1
  BY <1>1, <1>8
<1>10. KeepsLine(hitRequest.tag) /\ (missRequest # None => KeepsLine(missRequest.tag))
  BY <1>3, <1>5, Fields DEF BInv, TypeOK
<1>11. OutputTypes'
  BY <1>1, ServedTypes DEF OutputTypes
<1>12. Serves(p) \/ (Retires /\ Remaining(p) = 0)
  BY <1>1, <1>7, Retiring
<1>. QED BY <1>1, <1>2, <1>5, <1>6, <1>7, <1>9, <1>10, <1>11, <1>12, ServedKeeps

(* An atomic operation or a conditional store answers first.                *)
LEMMA ExecuteFirstPhaseKeeps ==
    ASSUME BInv, ExecuteFirstPhase
    PROVE  BInv'
<1>1. PICK answer \in Val :
        /\ sendResult(hitRequest, answer)
        /\ hitRequest' = [hitRequest EXCEPT !.saved = answer]
  <2>1. /\ state = "REQUEST" /\ hitRequest.op \in Atomics \cup {"STORE_CONDITIONAL"}
        /\ Executing(hitRequest)
    BY DEF ExecuteFirstPhase
  <2>2. hitRequest \in Operation /\ hitRequest.off \in Off
    BY <2>1, Executes, Fields
  <2>3. data[LineOf[hitRequest.tag]][hitRequest.off] \in Val /\ 0 \in Val /\ 1 \in Val
    BY <2>2, ServedTypes, ValAssumption
  <2>. QED BY <2>3 DEF ExecuteFirstPhase
<1> DEFINE p == [hitRequest EXCEPT !.saved = answer]
<1>2. /\ state = "REQUEST" /\ hitRequest.op \in Atomics \cup {"STORE_CONDITIONAL"}
      /\ Executing(hitRequest) /\ hitRequest.saved = None
      /\ UNCHANGED <<state, previousState, missRequest, sram, flushing, buffer, inputs,
                     inResponseQueue, outputReqQueue, sending, workload, beyond>>
  BY DEF ExecuteFirstPhase
<1>3. /\ RequestOK(hitRequest) /\ hitRequest \in Operation
      /\ hitRequest.done + 1 <= totalIterations(hitRequest)
      /\ ~needsForwarding(hitRequest) /\ preconditionsMet(hitRequest, inCache(hitRequest))
      /\ resultsToSend(hitRequest) => canSendResponse(hitRequest)
      /\ hitRequest.done = 0 /\ totalIterations(hitRequest) = 1
  <2>1. hitRequest \in Operation /\ hitRequest.done + 1 <= totalIterations(hitRequest)
    BY <1>2, Executes
  <2>2. hitRequest.done \in Nat /\ totalIterations(hitRequest) = 1
    BY <1>2, <2>1, Fields, Totals
  <2>3. hitRequest.done = 0
    BY <2>1, <2>2
  <2>. QED BY <1>2, <2>2, <2>3, Executes
<1>4. Moved(p, hitRequest, hitRequest.done, answer, hitRequest.eop)
  BY <1>3, Progress
<1>5. OutputTypes'
  <2>1. resultsToSend(hitRequest)
    BY <1>2, <1>3 DEF resultsToSend, resultFlitsRemaining, Atomics, Loads
  <2>. QED BY <1>1, <1>3, <2>1, Answered, ServedTypes
<1>6. hitRequest' = p
  BY <1>1
<1> HIDE DEF p
<1>7. p \in Operation /\ Same(p, hitRequest) /\ p.done = hitRequest.done
      /\ p.saved = answer /\ p.eop = hitRequest.eop
  BY <1>4 DEF Moved
<1>8. RequestOK(p) /\ Remaining(p) = Remaining(hitRequest)
  <2>1. p.op = hitRequest.op /\ totalIterations(p) = totalIterations(hitRequest)
    BY <1>7, SameRequest DEF Same
  <2>2. RequestOK(p)
    BY <1>2, <1>3, <1>7, <2>1 DEF RequestOK, Atomics, Loads
  <2>3. Remaining(p) = Remaining(hitRequest)
    BY <1>2, <1>7, <2>1 DEF Remaining, Atomics
  <2>. QED BY <2>2, <2>3
<1>9. Serves(p) /\ TakesNone /\ SramTypes'
      /\ KeepsLine(hitRequest.tag) /\ (missRequest # None => KeepsLine(missRequest.tag))
  BY <1>2, <1>6, ServedTypes DEF Serves, TakesNone, buffer, sram, SramTypes, KeepsLine, contains
<1>10. UNCHANGED copyingToMissBuffer
  BY <1>2 DEF buffer
<1>. QED BY <1>2, <1>3, <1>5, <1>7, <1>8, <1>9, <1>10, ServedKeeps

(* ... and then takes its payload flit and may write.                       *)
LEMMA ExecuteSecondPhaseKeeps ==
    ASSUME BInv, ExecuteSecondPhase
    PROVE  BInv'
<1> DEFINE word == IF hitRequest.op \in Atomics
                   THEN AtomicUpdate(hitRequest.saved, NextPayload(hitRequest))
                   ELSE NextPayload(hitRequest)
           p    == [Iterated(hitRequest) EXCEPT !.saved = None]
<1>1. /\ state = "REQUEST" /\ hitRequest.op \in Atomics \cup {"STORE_CONDITIONAL"}
      /\ Executing(hitRequest) /\ hitRequest.saved # None /\ Takes(hitRequest)
      /\ UNCHANGED sram \/ writeWord(hitRequest.tag, hitRequest.off, word)
      /\ Retire(p)
      /\ UNCHANGED <<previousState, missRequest, flushing, copyingToMissBuffer,
                     inResponseQueue, outputReqQueue, output, sending, workload, beyond>>
  BY DEF ExecuteSecondPhase, Takes
<1>2. /\ RequestOK(hitRequest) /\ hitRequest \in Operation
      /\ hitRequest.done + 1 <= totalIterations(hitRequest)
      /\ ~needsForwarding(hitRequest) /\ preconditionsMet(hitRequest, inCache(hitRequest))
  BY <1>1, Executes
<1>3. /\ hitRequest.tag \in Tag /\ hitRequest.off \in Off /\ hitRequest.done \in Nat
      /\ hitRequest.saved \in Val /\ NextPayload(hitRequest) \in Val
      /\ hitRequest.eop \in BOOLEAN
  BY <1>1, <1>2, Fields, PayloadTaken
<1>4. word \in Val
  BY <1>3, ValAssumption
<1>5. Moved(p, hitRequest, hitRequest.done + 1, None, hitRequest.eop)
  BY <1>2, <1>3, Progress
<1> HIDE DEF p, word
<1>6. SramTypes' /\ KeepsLine(hitRequest.tag) /\ (missRequest # None => KeepsLine(missRequest.tag))
  <2>1. CASE UNCHANGED sram
    BY <2>1, ServedTypes DEF sram, SramTypes, KeepsLine, contains
  <2>2. CASE writeWord(hitRequest.tag, hitRequest.off, word)
    <3>1. SramTypes' /\ \A u \in Tag : KeepsLine(u)
      BY <1>3, <1>4, <2>2, ServedTypes, Written
    <3>. QED BY <1>3, <3>1, Fields DEF BInv, TypeOK
  <2>. QED BY <1>1, <2>1, <2>2
<1>7. p \in Operation /\ Same(p, hitRequest) /\ p.done = hitRequest.done + 1
      /\ p.saved = None /\ p.eop = hitRequest.eop
  BY <1>5 DEF Moved
<1>8. RequestOK(p) /\ Remaining(p) = Remaining(hitRequest) - 1
  <2>1. p.op = hitRequest.op /\ totalIterations(p) = totalIterations(hitRequest)
    BY <1>7, SameRequest DEF Same
  <2>2. RequestOK(p)
    BY <1>1, <1>2, <1>7, <2>1 DEF RequestOK, Atomics, Loads
  <2>3. Remaining(p) = Remaining(hitRequest) - 1
    BY <1>1, <1>3, <1>7, <2>1 DEF Remaining, payloadFlits, Atomics
  <2>. QED BY <2>2, <2>3
<1>9. OutputTypes'
  BY <1>1, ServedTypes DEF OutputTypes
<1>10. Serves(p) \/ (Retires /\ Remaining(p) = 0)
  BY <1>1, <1>8, Retiring
<1>. QED BY <1>1, <1>2, <1>6, <1>7, <1>8, <1>9, <1>10, ServedKeeps

(* An invalidation takes a line away: not one that is waited for.           *)
LEMMA ExecuteInvalidateKeeps ==
    ASSUME BInv, LineStaysUnderMiss, ExecuteInvalidate
    PROVE  BInv'
<1> DEFINE line == IF hitRequest.op = "INVALIDATE_LINE" THEN LineOf[hitRequest.tag]
                   ELSE hitRequest.done
           p    == Iterated(hitRequest)
<1>1. /\ state = "REQUEST"
      /\ hitRequest.op \in {"INVALIDATE_LINE", "INVALIDATE_ALL_LINES"} /\ Executing(hitRequest)
      /\ metadata' = IF hitRequest.op = "INVALIDATE_LINE" /\ ~inCache(hitRequest) THEN metadata
                     ELSE [metadata EXCEPT ![line].valid = FALSE]
      /\ Retire(p)
      /\ UNCHANGED <<previousState, missRequest, data, reservations, flushing, missBuffer,
                     copyingToMissBuffer, inputs, inResponseQueue, outputReqQueue,
                     output, sending, workload, beyond>>
  BY DEF ExecuteInvalidate
<1>2. /\ RequestOK(hitRequest) /\ hitRequest \in Operation /\ hitRequest # None
      /\ hitRequest.done + 1 <= totalIterations(hitRequest)
      /\ ~needsForwarding(hitRequest) /\ preconditionsMet(hitRequest, inCache(hitRequest))
      /\ hitRequest.tag \in Tag /\ hitRequest.done \in Nat /\ hitRequest.saved \in Val \cup {None}
      /\ hitRequest.eop \in BOOLEAN
  BY <1>1, Executes, Fields
<1>3. line \in Line
  BY <1>1, <1>2, Totals, BankAssumption, LineAssumption DEF Line, AllLines
<1>4. Moved(p, hitRequest, hitRequest.done + 1, hitRequest.saved, hitRequest.eop)
  BY <1>2, Progress
<1>5. missRequest # None => KeepsLine(missRequest.tag)
  <2>. SUFFICES ASSUME missRequest # None PROVE KeepsLine(missRequest.tag)
    OBVIOUS
  <2>1. hitRequest.op = "INVALIDATE_LINE" /\ hitRequest.tag # missRequest.tag
    BY <1>1, <1>2 DEF LineStaysUnderMiss, BInv, MissOK, Parked
  <2>2. missRequest.tag \in Tag /\ LineOf[missRequest.tag] \in Line
    BY Fields, BankAssumption DEF BInv, TypeOK
  <2>3. CASE metadata' = metadata
    BY <2>3 DEF KeepsLine, contains
  <2>4. CASE inCache(hitRequest) /\ contains(missRequest.tag)
    <3>1. LineOf[missRequest.tag] # line
      BY <2>1, <2>4 DEF inCache, contains
    <3>2. metadata'[LineOf[missRequest.tag]] = metadata[LineOf[missRequest.tag]]
      BY <1>1, <1>3, <2>2, <3>1 DEF BInv, TypeOK
    <3>. QED BY <3>2 DEF KeepsLine, contains
  <2>. QED BY <1>1, <2>1, <2>3, <2>4 DEF KeepsLine
<1>6. SramTypes'
  <2>1. metadata \in [Line -> [tag : Tag, valid : BOOLEAN, dirty : BOOLEAN]]
    BY ServedTypes DEF SramTypes
  <2>2. [metadata[line] EXCEPT !.valid = FALSE] \in [tag : Tag, valid : BOOLEAN, dirty : BOOLEAN]
    BY <1>3, <2>1
  <2>3. metadata' \in [Line -> [tag : Tag, valid : BOOLEAN, dirty : BOOLEAN]]
    BY <1>1, <1>3, <2>1, <2>2
  <2>. QED BY <1>1, <2>3, ServedTypes DEF SramTypes
<1> HIDE DEF p, line
<1>7. p \in Operation /\ Same(p, hitRequest) /\ p.done = hitRequest.done + 1
      /\ p.saved = hitRequest.saved /\ p.eop = hitRequest.eop
  BY <1>4 DEF Moved
<1>8. RequestOK(p) /\ Remaining(p) = 0 /\ Remaining(hitRequest) = 0
  <2>1. p.op = hitRequest.op /\ totalIterations(p) = totalIterations(hitRequest)
    BY <1>7, SameRequest DEF Same
  <2>2. hitRequest.saved = None
    BY <1>1, <1>2 DEF RequestOK, Atomics
  <2>3. RequestOK(p)
    BY <1>1, <1>2, <1>7, <2>1, <2>2 DEF RequestOK, Atomics, Loads
  <2>4. Remaining(p) = 0 /\ Remaining(hitRequest) = 0
    BY <1>1, <2>1 DEF Remaining, payloadFlits, Atomics, Directory
  <2>. QED BY <2>3, <2>4
<1>9. OutputTypes' /\ TakesNone
  BY <1>1, ServedTypes DEF OutputTypes, TakesNone
<1>10. Serves(p) \/ (Retires /\ Remaining(p) = 0)
  BY <1>1, <1>8, Retiring
<1>11. hitRequest.op \in NoPreconditions
  BY <1>1 DEF NoPreconditions, AllLines
<1>. QED BY <1>1, <1>2, <1>5, <1>6, <1>7, <1>8, <1>9, <1>10, <1>11, ServedKeeps

-----------------------------------------------------------------------------
(* Room is made for a line.                                                *)

(* A flit goes to the next level.                                          *)
LEMMA Sent ==
    ASSUME TypeOK, canSendRequest, NEW f \in OutFlit, sendRequests(<<f>>)
    PROVE  /\ outputReqQueue \in Seq(OutFlit) /\ outputReqQueue' = Append(outputReqQueue, f)
           /\ outputReqQueue' \in Seq(OutFlit) /\ Len(outputReqQueue') <= requestQueueSize
<1>1. outputReqQueue \in Seq(OutFlit) /\ Len(outputReqQueue) < requestQueueSize
      /\ outputReqQueue' = outputReqQueue \o <<f>> /\ requestQueueSize \in Nat
  BY LineAssumption DEF TypeOK, canSendRequest, sendRequests, requestQueueSize
<1>2. /\ outputReqQueue' = Append(outputReqQueue, f) /\ outputReqQueue' \in Seq(OutFlit)
      /\ Len(outputReqQueue') = Len(outputReqQueue) + 1 /\ Len(outputReqQueue) \in Nat
  BY <1>1, Appended
<1>. QED BY <1>1, <1>2

\* What flush() does when there is something to send, and when there is not.
Flushes ==
    /\ \E f \in OutFlit : f.kind = "STORE_LINE" /\ outputReqQueue' = Append(outputReqQueue, f)
    /\ flushAddress' # None /\ cacheLineCursor' = 0
    /\ previousState' = state /\ state' = "FLUSH"
Skips(next) == state' = next /\ UNCHANGED <<previousState, flushing, outputReqQueue>>

(* Either step of flush() keeps the types.                                  *)
LEMMA Flushed ==
    ASSUME TypeOK, canSendRequest, NEW line \in Line, NEW next,
           flush(line, next) \/ Skips(next)
    PROVE  /\ Flushes \/ Skips(next)
           /\ outputReqQueue' \in Seq(OutFlit) /\ Len(outputReqQueue') <= requestQueueSize
           /\ cacheLineCursor' \in 0 .. WordsPerLine
           /\ flushAddress' \in [line : Line, tag : Tag] \cup {None}
           /\ pendingFlushes' \in SUBSET Tag
<1>1. CASE flush(line, next) /\ metadata[line].valid /\ metadata[line].dirty
  <2> DEFINE f == [kind |-> "STORE_LINE", tag |-> metadata[line].tag]
  <2>1. /\ sendRequests(<<f>>)
        /\ pendingFlushes' = pendingFlushes \cup {metadata[line].tag}
        /\ flushAddress' = [line |-> line, tag |-> metadata[line].tag]
        /\ cacheLineCursor' = 0
        /\ previousState' = state
        /\ state' = "FLUSH"
    BY <1>1 DEF flush
  <2>2. metadata[line].tag \in Tag /\ pendingFlushes \in SUBSET Tag
    BY DEF TypeOK
  <2>3. f \in OutFlit /\ f.kind = "STORE_LINE"
    BY <2>2, SentFlits
  <2> HIDE DEF f
  <2>4. /\ outputReqQueue' = Append(outputReqQueue, f)
        /\ outputReqQueue' \in Seq(OutFlit) /\ Len(outputReqQueue') <= requestQueueSize
    BY <2>1, <2>3, Sent
  <2>5. flushAddress' \in [line : Line, tag : Tag] /\ flushAddress' # None
    BY <2>1, <2>2, NoneAssumption
  <2>6. cacheLineCursor' \in 0 .. WordsPerLine
    BY <2>1, LineAssumption
  <2>. QED BY <2>1, <2>2, <2>3, <2>4, <2>5, <2>6 DEF Flushes
<1>2. CASE Skips(next)
  BY <1>2 DEF Skips, flushing, TypeOK
<1>3. CASE flush(line, next) /\ ~(metadata[line].valid /\ metadata[line].dirty)
  <2>1. Skips(next)
    BY <1>3 DEF flush, Skips
  <2>. QED BY <1>2, <2>1
<1>. QED BY <1>1, <1>2, <1>3

(* Inputs from which nothing is taken.                                     *)
LEMMA InputsLeft ==
    ASSUME BInv, UNCHANGED <<inputs, sending>>,
           \A side \in Sides :
              /\ ~(CopyOwns(side)' /\ HitOwns(side)')
              /\ \A n \in Nat : Due(side, n) => Due(side, n)'
    PROVE  \A side \in Sides : InputOK(side)'
<1>1. \A side \in Sides : Queue(side)' = Queue(side) /\ sending'[side] = sending[side]
  BY DEF Queue, inputs
<1>. QED BY <1>1, InputKept DEF BInv

(* What the queue to the next level carries, and the lines it stores.      *)
LEMMA StoringSent ==
    ASSUME BInv, outputReqQueue \in Seq(OutFlit), NEW f \in OutFlit, storing' = storing,
           outputReqQueue' = Append(outputReqQueue, f), state # "FLUSH", state' # "FLUSH",
           f.kind \notin {"STORE_LINE", "WORD"}
    PROVE  StoringOK'
<1>1. Stream(FlushSteps, outputReqQueue,
             IF storing = None THEN 0 ELSE WordsPerLine - storing.off, 0)
  BY DEF BInv, StoringOK
<1>2. <<0, f, 0>> \in FlushSteps
  BY FlushStep
<1>3. Stream(FlushSteps, Append(outputReqQueue, f),
             IF storing = None THEN 0 ELSE WordsPerLine - storing.off, 0)
  BY <1>1, <1>2, StreamAppend
<1>. QED BY <1>3 DEF StoringOK

(* A flush that starts announces the words of a line.                       *)
LEMMA StoringFlushes ==
    ASSUME BInv, outputReqQueue \in Seq(OutFlit), storing' = storing, state # "FLUSH",
           NEW next, next # "FLUSH", Flushes \/ Skips(next)
    PROVE  StoringOK'
<1>1. Stream(FlushSteps, outputReqQueue,
             IF storing = None THEN 0 ELSE WordsPerLine - storing.off, 0)
  BY DEF BInv, StoringOK
<1>2. CASE Flushes
  <2>1. PICK f \in OutFlit : f.kind = "STORE_LINE" /\ outputReqQueue' = Append(outputReqQueue, f)
    BY <1>2 DEF Flushes
  <2>2. <<0, f, WordsPerLine>> \in FlushSteps /\ WordsPerLine \in Nat
    BY <2>1, FlushStep, LineAssumption
  <2>3. Stream(FlushSteps, outputReqQueue',
               IF storing = None THEN 0 ELSE WordsPerLine - storing.off, WordsPerLine)
    BY <1>1, <2>1, <2>2, StreamAppend
  <2>4. state' = "FLUSH" /\ WordsPerLine - cacheLineCursor' = WordsPerLine
    BY <1>2, <2>2 DEF Flushes
  <2>. QED BY <2>3, <2>4 DEF StoringOK
<1>3. CASE Skips(next)
  BY <1>1, <1>3 DEF StoringOK, Skips
<1>. QED BY <1>2, <1>3

(* A flush asks the next level for nothing.                                 *)
LEMMA FlushAsks ==
    ASSUME NEW next, Flushes \/ Skips(next)
    PROVE  \/ outputReqQueue' = outputReqQueue
           \/ \E f \in OutFlit : outputReqQueue' = Append(outputReqQueue, f) /\ Asks(f) = 0
BY DEF Flushes, Skips, Asks

(* A request makes room for its line, or writes back what it finds, and    *)
(* goes on when the line has left.                                         *)
LEMMA Clearing ==
    ASSUME BInv, Serving(hitRequest), missRequest = None, ~readingFromMissBuffer,
           NEW p, RequestOK(p), Same(p, hitRequest), Remaining(p) = Remaining(hitRequest),
           p.op \notin NoPreconditions => Untouched(p),
           hitRequest' = p, NEW line \in Line, flush(line, "REQUEST") \/ Skips("REQUEST"),
           metadata' \in [Line -> [tag : Tag, valid : BOOLEAN, dirty : BOOLEAN]],
           UNCHANGED <<missRequest, data, reservations, buffer, inputs, inResponseQueue, output,
                       sending, workload, beyond>>
    PROVE  BInv'
<1>1. TypeOK /\ HitOK /\ MissOK /\ FlushOK /\ RefillOK /\ ReadingOK /\ CopyingOK
      /\ BufferOK /\ ResponsesOK /\ StoringOK
      /\ state = "REQUEST" /\ canSendRequest /\ ~needsForwarding(hitRequest)
  BY DEF BInv, Serving
<1>2. p \in Operation /\ p # None /\ ~needsForwarding(p) /\ hitRequest # None
      /\ SideOf(p) = SideOf(hitRequest)
  BY <1>1, Fields, SameRequest DEF RequestOK, HitOK
<1>3. /\ Flushes \/ Skips("REQUEST")
      /\ outputReqQueue' \in Seq(OutFlit) /\ Len(outputReqQueue') <= requestQueueSize
      /\ cacheLineCursor' \in 0 .. WordsPerLine
      /\ flushAddress' \in [line : Line, tag : Tag] \cup {None}
      /\ pendingFlushes' \in SUBSET Tag
  BY <1>1, Flushed
<1>4. /\ state' \in {"REQUEST", "FLUSH"}
      /\ state' = "FLUSH" => /\ flushAddress' # None /\ cacheLineCursor' = 0
                             /\ previousState' = "REQUEST"
      /\ previousState' \in {"IDLE", "REQUEST", "ALLOCATE"}
  BY <1>1, <1>3 DEF Flushes, Skips, TypeOK
<1>5. /\ missRequest' = None /\ readingFromMissBuffer' = readingFromMissBuffer
      /\ copyingToMissBuffer' = copyingToMissBuffer /\ missBuffer' = missBuffer
      /\ ~readingFromMissBuffer'
  BY DEF buffer
<1>6. TypeOK'
  BY <1>1, <1>2, <1>3, <1>4, <1>5 DEF TypeOK, States, inputs, beyond
<1>7. HitOK' /\ MissOK' /\ RefillOK' /\ ReadingOK' /\ CopyingOK' /\ BufferOK'
  BY <1>1, <1>2, <1>4, <1>5
     DEF HitOK, MissOK, RefillOK, ReadingOK, CopyingOK, BufferOK
<1>8. FlushOK'
  BY <1>4, <1>5, LineAssumption DEF FlushOK
<1>9. \A side \in Sides : InputOK(side)'
  <2>1. ASSUME NEW side \in Sides
        PROVE  /\ ~CopyOwns(side) /\ ~CopyOwns(side)'
               /\ HitOwns(side) <=> SideOf(p) = side
               /\ HitOwns(side)' <=> SideOf(p) = side
    <3>1. ~CopyOwns(side) /\ ~CopyOwns(side)'
      BY <1>1, <1>5 DEF CopyOwns, CopyingOK
    <3>2. ~Parked /\ ~Parked'
      BY <1>5 DEF Parked
    <3>3. SideOf(hitRequest)' = SideOf(p)
      BY DEF SideOf, IsL1
    <3>. QED BY <1>2, <1>5, <3>1, <3>2, <3>3 DEF HitOwns
  <2>2. Remaining(hitRequest)' = Remaining(p)
    BY DEF Remaining
  <2>3. \A side \in Sides : \A n \in Nat : Due(side, n) => Due(side, n)'
    BY <1>1, <1>4, <2>1, <2>2 DEF Due
  <2>. QED BY <2>1, <2>3, InputsLeft
<1>10. Wanted = 0 /\ Wanted' = 0
  BY <1>1, <1>4, <1>5 DEF Wanted
<1>11. ResponsesOK'
  <2>1. \/ outputReqQueue' = outputReqQueue
        \/ \E f \in OutFlit : outputReqQueue' = Append(outputReqQueue, f) /\ Asks(f) = 0
    BY <1>3, FlushAsks
  <2>2. missRequest = None => inResponseQueue = <<>>
    BY <1>1 DEF ResponsesOK
  <2>. QED BY <1>1, <1>5, <1>10, <2>1, <2>2, ResponsesKept DEF TypeOK, beyond
<1>12. StoringOK'
  BY <1>1, <1>3, StoringFlushes DEF TypeOK, beyond
<1>. QED BY <1>6, <1>7, <1>8, <1>9, <1>11, <1>12 DEF BInv

(* A request that misses is alone: no other waits, and it has no buffer.   *)
LEMMA Misses ==
    ASSUME BInv, Serving(hitRequest), ~preconditionsMet(hitRequest, inCache(hitRequest))
    PROVE  /\ missRequest = None /\ ~readingFromMissBuffer
           /\ RequestOK(hitRequest) /\ hitRequest \in Operation /\ Untouched(hitRequest)
           /\ hitRequest.op \notin NoPreconditions /\ ~inCache(hitRequest)
<1>1. HitOK /\ MissOK /\ ReadingOK /\ state = "REQUEST"
      /\ hitRequest.op \notin NoPreconditions /\ ~inCache(hitRequest)
  BY DEF BInv, Serving, preconditionsMet
<1>2. hitRequest # None /\ RequestOK(hitRequest) /\ Untouched(hitRequest)
  BY <1>1 DEF HitOK
<1>3. missRequest = None
  BY <1>1, <1>2 DEF MissOK, Parked
<1>. QED BY <1>1, <1>2, <1>3 DEF ReadingOK, RequestOK

(* A request that overwrites its line makes room for it.                    *)
LEMMA PrepareLineKeeps ==
    ASSUME BInv, PrepareLine
    PROVE  BInv'
<1> DEFINE line  == LineOf[hitRequest.tag]
           other == metadata[line].tag # hitRequest.tag
           p     == [hitRequest EXCEPT !.fresh = TRUE]
<1>1. /\ Serving(hitRequest) /\ ~preconditionsMet(hitRequest, inCache(hitRequest))
      /\ validate(hitRequest, "REQUEST")
      /\ hitRequest' = p
      /\ UNCHANGED <<missRequest, data, reservations, buffer, inputs, inResponseQueue,
                     output, sending, workload, beyond>>
  BY DEF PrepareLine
<1>2. /\ missRequest = None /\ ~readingFromMissBuffer
      /\ RequestOK(hitRequest) /\ hitRequest \in Operation /\ Untouched(hitRequest)
  BY <1>1, Misses
<1>3. Moved(p, hitRequest, hitRequest.done, hitRequest.saved, hitRequest.eop)
  BY <1>2, Fields, Progress
<1>4. /\ flush(line, "REQUEST") \/ Skips("REQUEST")
      /\ metadata' = [metadata EXCEPT ![line] =
            [tag |-> hitRequest.tag, valid |-> TRUE, dirty |-> metadata[line].dirty /\ ~other]]
  BY <1>1 DEF validate, Skips
<1>5. line \in Line /\ hitRequest.tag \in Tag
  BY <1>2, Fields, BankAssumption
<1>6. metadata' \in [Line -> [tag : Tag, valid : BOOLEAN, dirty : BOOLEAN]]
  <2>1. metadata \in [Line -> [tag : Tag, valid : BOOLEAN, dirty : BOOLEAN]]
    BY DEF BInv, TypeOK
  <2>2. (metadata[line].dirty /\ ~other) \in BOOLEAN
    OBVIOUS
  <2> HIDE DEF other, line
  <2>. QED BY <1>4, <1>5, <2>1, <2>2
<1> HIDE DEF p, line, other
<1>7. Same(p, hitRequest) /\ p \in Operation /\ p.done = hitRequest.done
      /\ p.saved = hitRequest.saved /\ p.eop = hitRequest.eop
  BY <1>3 DEF Moved
<1>8. RequestOK(p) /\ Untouched(p) /\ Remaining(p) = Remaining(hitRequest)
  BY <1>2, <1>7, SameRequest DEF RequestOK, Untouched, Remaining, Same
<1>. QED BY <1>1, <1>2, <1>4, <1>5, <1>6, <1>7, <1>8, Clearing

(* A flush request writes a dirty line back.                                *)
LEMMA ExecuteFlushKeeps ==
    ASSUME BInv, ExecuteFlush
    PROVE  BInv'
<1> DEFINE line == IF hitRequest.op = "FLUSH_LINE" THEN LineOf[hitRequest.tag]
                   ELSE hitRequest.done
           present == hitRequest.op = "FLUSH_LINE" => inCache(hitRequest)
           p    == Iterated(hitRequest)
<1>1. /\ state = "REQUEST"
      /\ hitRequest.op \in {"FLUSH_LINE", "FLUSH_ALL_LINES"} /\ Executing(hitRequest)
      /\ \/ flush(line, "REQUEST") /\ hitRequest' = p /\ UNCHANGED readingFromMissBuffer
         \/ Retire(p) /\ UNCHANGED <<previousState, flushing, outputReqQueue>>
      /\ metadata' = IF present THEN [metadata EXCEPT ![line].dirty = FALSE] ELSE metadata
      /\ UNCHANGED <<missRequest, data, reservations, missBuffer,
                     copyingToMissBuffer, inputs, inResponseQueue, output,
                     sending, workload, beyond>>
  BY DEF ExecuteFlush
<1>2. /\ RequestOK(hitRequest) /\ hitRequest \in Operation /\ hitRequest # None
      /\ hitRequest.done + 1 <= totalIterations(hitRequest)
      /\ ~needsForwarding(hitRequest) /\ preconditionsMet(hitRequest, inCache(hitRequest))
      /\ hitRequest.tag \in Tag /\ hitRequest.done \in Nat /\ hitRequest.saved \in Val \cup {None}
      /\ hitRequest.eop \in BOOLEAN
  BY <1>1, Executes, Fields
<1>3. line \in Line
  BY <1>1, <1>2, Totals, BankAssumption, LineAssumption DEF Line, AllLines
<1>4. Moved(p, hitRequest, hitRequest.done + 1, hitRequest.saved, hitRequest.eop)
  BY <1>2, Progress
<1>5. /\ metadata' \in [Line -> [tag : Tag, valid : BOOLEAN, dirty : BOOLEAN]]
      /\ \A l \in Line : metadata'[l].valid = metadata[l].valid /\ metadata'[l].tag = metadata[l].tag
  <2>1. metadata \in [Line -> [tag : Tag, valid : BOOLEAN, dirty : BOOLEAN]]
    BY DEF BInv, TypeOK
  <2> HIDE DEF line, present
  <2>2. [metadata[line] EXCEPT !.dirty = FALSE] \in [tag : Tag, valid : BOOLEAN, dirty : BOOLEAN]
    BY <1>3, <2>1
  <2>. QED BY <1>1, <1>3, <2>1, <2>2
<1> HIDE DEF p, line, present
<1>6. p \in Operation /\ Same(p, hitRequest) /\ p.done = hitRequest.done + 1
      /\ p.saved = hitRequest.saved /\ p.eop = hitRequest.eop
  BY <1>4 DEF Moved
<1>7. RequestOK(p) /\ Remaining(p) = 0 /\ Remaining(hitRequest) = 0
  <2>1. p.op = hitRequest.op /\ totalIterations(p) = totalIterations(hitRequest)
    BY <1>6, SameRequest DEF Same
  <2>2. hitRequest.saved = None
    BY <1>1, <1>2 DEF RequestOK, Atomics
  <2>3. RequestOK(p)
    BY <1>1, <1>2, <1>6, <2>1, <2>2 DEF RequestOK, Atomics, Loads
  <2>4. Remaining(p) = 0 /\ Remaining(hitRequest) = 0
    BY <1>1, <2>1 DEF Remaining, payloadFlits, Atomics, Directory
  <2>. QED BY <2>3, <2>4
<1>8. CASE flush(line, "REQUEST") /\ hitRequest' = p /\ UNCHANGED readingFromMissBuffer
  <2>1. missRequest = None /\ ~readingFromMissBuffer /\ Serving(hitRequest)
    BY <1>1, <1>2 DEF BInv, MissOK, Parked, ReadingOK, NoPreconditions, AllLines, Executing
  <2>2. p.op \in NoPreconditions
    BY <1>1, <1>6 DEF Same, NoPreconditions, AllLines
  <2>3. UNCHANGED buffer
    BY <1>1, <1>8 DEF buffer
  <2>. QED BY <1>1, <1>3, <1>5, <1>6, <1>7, <1>8, <2>1, <2>2, <2>3, Clearing
<1>9. CASE Retire(p) /\ UNCHANGED <<previousState, flushing, outputReqQueue>>
  <2>1. OutputTypes' /\ TakesNone
    BY <1>1, ServedTypes DEF OutputTypes, TakesNone
  <2>2. SramTypes'
    BY <1>1, <1>5, ServedTypes DEF SramTypes
  <2>3. Serves(p) \/ (Retires /\ Remaining(p) = 0)
    BY <1>7, <1>9, Retiring
  <2>4. KeepsLine(hitRequest.tag) /\ (missRequest # None => KeepsLine(missRequest.tag))
    <3>1. LineOf[hitRequest.tag] \in Line /\ (missRequest # None => LineOf[missRequest.tag] \in Line)
      BY <1>2, Fields, BankAssumption DEF BInv, TypeOK
    <3>. QED BY <1>5, <3>1 DEF KeepsLine, contains
  <2>. QED BY <1>1, <1>2, <1>6, <1>7, <1>9, <2>1, <2>2, <2>3, <2>4, ServedKeeps
<1>. QED BY <1>1, <1>8, <1>9

-----------------------------------------------------------------------------
(* A line is fetched, and the line in its place flushed.                   *)

(* A request that misses asks for its line.                                 *)
LEMMA PrepareFetchKeeps ==
    ASSUME BInv, PrepareFetch
    PROVE  BInv'
<1> DEFINE f == [kind |-> "FETCH_LINE", tag |-> hitRequest.tag]
<1>1. /\ Serving(hitRequest) /\ ~preconditionsMet(hitRequest, inCache(hitRequest))
      /\ ~claimsLine(hitRequest)
      /\ sendRequests(<<f>>) /\ state' = "ALLOCATE"
      /\ UNCHANGED <<previousState, hitRequest, missRequest, sram, flushing, buffer,
                     inputs, inResponseQueue, output, sending, workload, beyond>>
  BY DEF PrepareFetch
<1>2. /\ missRequest = None /\ ~readingFromMissBuffer
      /\ RequestOK(hitRequest) /\ hitRequest \in Operation /\ Untouched(hitRequest)
      /\ hitRequest.op \notin NoPreconditions /\ ~inCache(hitRequest)
  BY <1>1, Misses
<1>3. TypeOK /\ HitOK /\ MissOK /\ FlushOK /\ RefillOK /\ ReadingOK /\ CopyingOK
      /\ BufferOK /\ ResponsesOK
      /\ state = "REQUEST" /\ canSendRequest /\ ~needsForwarding(hitRequest)
  BY <1>1 DEF BInv, Serving
<1>4. f \in OutFlit /\ f.kind = "FETCH_LINE" /\ Asks(f) = WordsPerLine
  BY <1>2, Fields, SentFlits DEF Asks
<1> HIDE DEF f
<1>5. /\ outputReqQueue \in Seq(OutFlit) /\ outputReqQueue' = Append(outputReqQueue, f)
      /\ outputReqQueue' \in Seq(OutFlit) /\ Len(outputReqQueue') <= requestQueueSize
  BY <1>1, <1>3, <1>4, Sent
<1>6. /\ UNCHANGED <<hitRequest, missRequest, missBuffer, copyingToMissBuffer,
                     readingFromMissBuffer, metadata, cacheLineCursor>>
      /\ ~copyingToMissBuffer
  BY <1>1, <1>2, <1>3 DEF sram, flushing, buffer, CopyingOK
<1>7. TypeOK'
  BY <1>1, <1>3, <1>5, <1>6 DEF TypeOK, States, sram, flushing, buffer, inputs, beyond
<1>8. HitOK'
  <2>1. hitRequest # None
    BY <1>2, Fields
  <2>. QED BY <1>1, <1>2, <1>3, <1>6, <2>1 DEF HitOK, inCache, contains
<1>9. MissOK' /\ FlushOK' /\ RefillOK' /\ ReadingOK' /\ CopyingOK' /\ BufferOK'
  BY <1>1, <1>2, <1>3, <1>6 DEF MissOK, FlushOK, RefillOK, ReadingOK, CopyingOK, BufferOK
<1>10. \A side \in Sides : InputOK(side)'
  <2>1. ASSUME NEW side \in Sides
        PROVE  /\ ~CopyOwns(side) /\ ~CopyOwns(side)'
               /\ HitOwns(side)' <=> HitOwns(side)
    <3>1. ~Parked /\ ~Parked' /\ SideOf(hitRequest)' = SideOf(hitRequest)
      BY <1>2, <1>6 DEF Parked, SideOf, IsL1
    <3>. QED BY <1>6, <3>1 DEF HitOwns, CopyOwns
  <2>2. Remaining(hitRequest)' = Remaining(hitRequest)
    BY <1>6 DEF Remaining
  <2>3. \A side \in Sides : \A n \in Nat : Due(side, n) => Due(side, n)'
    BY <1>1, <1>3, <2>1, <2>2 DEF Due
  <2>. QED BY <1>1, <2>1, <2>3, InputsLeft
<1>11. ResponsesOK'
  <2>1. Wanted = 0 /\ Wanted' = WordsPerLine /\ WordsPerLine \in Nat
    BY <1>1, <1>2, <1>3, <1>6, LineAssumption DEF Wanted
  <2>. QED BY <1>1, <1>3, <1>4, <1>5, <1>6, <2>1, ResponsesAsked DEF TypeOK, beyond
<1>12. StoringOK'
  BY <1>1, <1>3, <1>4, <1>5, StoringSent DEF beyond
<1>. QED BY <1>7, <1>8, <1>9, <1>10, <1>11, <1>12 DEF BInv

(* The request is put aside, and its line takes the place of another.       *)
LEMMA AllocateKeeps ==
    ASSUME BInv, Allocate
    PROVE  BInv'
<1> DEFINE r     == hitRequest
           line  == LineOf[r.tag]
           other == metadata[line].tag # r.tag
<1>1. /\ state = "ALLOCATE" /\ canSendRequest /\ ~inCache(r)
      /\ validate(r, "IDLE")
      /\ missRequest' = r
      /\ copyingToMissBuffer' = (copyingToMissBuffer \/ awaitingPayload(r))
      /\ hitRequest' = IF state' = "FLUSH" THEN r ELSE None
      /\ UNCHANGED <<data, reservations, missBuffer, readingFromMissBuffer, inputs,
                     inResponseQueue, output, sending, workload, beyond>>
  BY DEF Allocate
<1>2. TypeOK /\ HitOK /\ MissOK /\ FlushOK /\ RefillOK /\ ReadingOK /\ CopyingOK
      /\ BufferOK /\ ResponsesOK
  BY DEF BInv
<1>3. /\ r # None /\ RequestOK(r) /\ r \in Operation /\ ~needsForwarding(r)
      /\ r.op \notin NoPreconditions /\ ~claimsLine(r) /\ Untouched(r)
  BY <1>1, <1>2 DEF HitOK, RequestOK
<1>4. missRequest = None
  BY <1>1, <1>2, <1>3 DEF MissOK, Parked, inCache
<1>5. ~copyingToMissBuffer /\ ~readingFromMissBuffer /\ ~readingFromMissBuffer'
      /\ missBuffer' = missBuffer /\ inResponseQueue = <<>>
  BY <1>1, <1>2, <1>4 DEF CopyingOK, ReadingOK, ResponsesOK
<1>6. /\ flush(line, "IDLE") \/ Skips("IDLE")
      /\ metadata' = [metadata EXCEPT ![line] =
            [tag |-> r.tag, valid |-> TRUE, dirty |-> metadata[line].dirty /\ ~other]]
  BY <1>1 DEF validate, Skips
<1>7. line \in Line /\ r.tag \in Tag
  BY <1>3, Fields, BankAssumption
<1>8. /\ metadata' \in [Line -> [tag : Tag, valid : BOOLEAN, dirty : BOOLEAN]]
      /\ metadata'[line].valid /\ metadata'[line].tag = r.tag
  <2>1. metadata \in [Line -> [tag : Tag, valid : BOOLEAN, dirty : BOOLEAN]]
    BY <1>2 DEF TypeOK
  <2>2. (metadata[line].dirty /\ ~other) \in BOOLEAN
    OBVIOUS
  <2> HIDE DEF other, line, r
  <2>. QED BY <1>6, <1>7, <2>1, <2>2
<1>9. /\ Remaining(r) \in {0, 1} /\ (awaitingPayload(r) <=> Remaining(r) = 1)
      /\ (copyingToMissBuffer' <=> Remaining(r) = 1)
  <2>1. Remaining(r) \in {0, 1} /\ (awaitingPayload(r) <=> Remaining(r) > 0)
    BY <1>3, Untaken
  <2>2. copyingToMissBuffer' <=> awaitingPayload(r)
    BY <1>1, <1>5, Zenon
  <2>. QED BY <2>1, <2>2
<1>10. copyingToMissBuffer' \in BOOLEAN
  BY <1>1
<1> HIDE DEF line, other
<1>11. /\ Flushes \/ Skips("IDLE")
       /\ outputReqQueue' \in Seq(OutFlit) /\ Len(outputReqQueue') <= requestQueueSize
       /\ cacheLineCursor' \in 0 .. WordsPerLine
       /\ flushAddress' \in [line : Line, tag : Tag] \cup {None}
       /\ pendingFlushes' \in SUBSET Tag
  BY <1>1, <1>2, <1>6, <1>7, Flushed
<1>12. /\ \/ state' = "FLUSH" /\ hitRequest' = r
          \/ state' = "IDLE" /\ hitRequest' = None
       /\ state' = "FLUSH" => /\ flushAddress' # None /\ cacheLineCursor' = 0
                              /\ previousState' = "ALLOCATE"
       /\ previousState' \in {"IDLE", "REQUEST", "ALLOCATE"}
  BY <1>1, <1>2, <1>11 DEF Flushes, Skips, TypeOK
<1>13. inCache(missRequest)' /\ SideOf(missRequest)' = SideOf(r)
       /\ Remaining(missRequest)' = Remaining(r)
  BY <1>1, <1>8 DEF inCache, contains, line, SideOf, IsL1, Remaining
<1>14. RequestOK(missRequest') /\ missRequest' # None /\ ~needsForwarding(missRequest')
       /\ missRequest'.op \notin NoPreconditions /\ ~claimsLine(missRequest')
       /\ Untouched(missRequest') /\ missRequest' \in Operation
  BY <1>1, <1>3
<1>15. TypeOK'
  BY <1>1, <1>2, <1>3, <1>8, <1>10, <1>11, <1>12 DEF TypeOK, States, inputs, beyond
<1>16. HitOK'
  <2>1. CASE state' = "FLUSH" /\ hitRequest' = r
    BY <1>3, <2>1 DEF HitOK
  <2>2. CASE state' = "IDLE" /\ hitRequest' = None
    BY <2>2 DEF HitOK
  <2>. QED BY <1>12, <2>1, <2>2
<1>17. MissOK'
  <2>1. Parked' => hitRequest' = missRequest'
    BY <1>1, <1>12 DEF Parked
  <2>2. hitRequest' # None => Parked'
    BY <1>12, <1>14 DEF Parked
  <2>. QED BY <1>13, <1>14, <2>1, <2>2 DEF MissOK, RequestOK, Untouched
<1>18. FlushOK' /\ RefillOK' /\ ReadingOK'
  BY <1>5, <1>12, <1>14, LineAssumption DEF FlushOK, RefillOK, ReadingOK
<1>19. CopyingOK' /\ BufferOK'
  <2>1. Len(missBuffer) = 0 /\ \A k \in 1 .. Len(missBuffer) : ~missBuffer[k].head
    BY <1>2, <1>4, <1>5 DEF BufferOK
  <2>2. CopyingOK'
    BY <1>9, <1>13, <1>14 DEF CopyingOK
  <2>3. BufferOK'
    BY <1>5, <1>9, <1>13, <1>14, <2>1 DEF BufferOK
  <2>. QED BY <2>2, <2>3
<1>20. \A side \in Sides : InputOK(side)'
  <2>1. ASSUME NEW side \in Sides
        PROVE  /\ ~CopyOwns(side) /\ ~HitOwns(side)'
               /\ HitOwns(side) <=> SideOf(r) = side
               /\ CopyOwns(side)' <=> SideOf(r) = side /\ Remaining(r) = 1
    <3>1. ~CopyOwns(side) /\ (CopyOwns(side)' <=> SideOf(r) = side /\ Remaining(r) = 1)
      BY <1>5, <1>9, <1>13 DEF CopyOwns
    <3>2. ~HitOwns(side)'
      BY <1>12, <1>14 DEF HitOwns, Parked
    <3>3. HitOwns(side) <=> SideOf(r) = side
      BY <1>3, <1>4, <1>5 DEF HitOwns, Parked
    <3>. QED BY <3>1, <3>2, <3>3
  <2>2. ASSUME NEW side \in Sides, NEW n \in Nat, Due(side, n)
        PROVE  Due(side, n)'
    <3>1. HitOwns(side) => n = Remaining(r)
      BY <1>1, <2>2 DEF Due
    <3>2. ~HitOwns(side) => n = 0
      BY <2>1, <2>2 DEF Due
    <3>. QED BY <1>9, <2>1, <3>1, <3>2 DEF Due
  <2>. QED BY <1>1, <2>1, <2>2, InputsLeft
<1>21. ResponsesOK'
  <2>1. Wanted = WordsPerLine /\ Wanted' = WordsPerLine
    BY <1>1, <1>4, <1>12, <1>14 DEF Wanted
  <2>2. \/ outputReqQueue' = outputReqQueue
        \/ \E f \in OutFlit : outputReqQueue' = Append(outputReqQueue, f) /\ Asks(f) = 0
    BY <1>11, FlushAsks
  <2>. QED BY <1>1, <1>2, <1>5, <2>1, <2>2, LineAssumption, ResponsesKept DEF TypeOK, beyond
<1>22. StoringOK'
  BY <1>1, <1>2, <1>11, StoringFlushes DEF TypeOK, beyond
<1>. QED BY <1>15, <1>16, <1>17, <1>18, <1>19, <1>20, <1>21, <1>22 DEF BInv

(* The line has been made room for: other requests may be served.           *)
LEMMA AllocatedKeeps ==
    ASSUME BInv, Allocated
    PROVE  BInv'
<1>1. /\ state = "ALLOCATE" /\ inCache(hitRequest)
      /\ state' = "IDLE" /\ hitRequest' = None
      /\ UNCHANGED <<previousState, missRequest, sram, flushing, buffer, inputs,
                     inResponseQueue, outputReqQueue, output, sending, workload, beyond>>
  BY DEF Allocated
<1>2. TypeOK /\ HitOK /\ MissOK /\ FlushOK /\ RefillOK /\ ReadingOK /\ CopyingOK
      /\ BufferOK /\ ResponsesOK /\ StoringOK
  BY DEF BInv
<1>3. hitRequest # None /\ missRequest # None /\ Parked /\ ~needsForwarding(missRequest)
      /\ ~readingFromMissBuffer
  BY <1>1, <1>2 DEF HitOK, MissOK, Parked, ReadingOK
<1>4. UNCHANGED <<metadata, cacheLineCursor, flushAddress, missBuffer, copyingToMissBuffer,
                  readingFromMissBuffer>>
  BY <1>1 DEF sram, flushing, buffer
<1>5. TypeOK'
  BY <1>1, <1>2 DEF TypeOK, States, sram, flushing, buffer, inputs, beyond
<1>6. HitOK' /\ FlushOK' /\ RefillOK' /\ ReadingOK'
  BY <1>1, <1>3, <1>4 DEF HitOK, FlushOK, RefillOK, ReadingOK
<1>7. MissOK'
  BY <1>1, <1>2, <1>3, <1>4 DEF MissOK, Parked, inCache, contains
<1>8. CopyingOK' /\ BufferOK'
  BY <1>1, <1>2, <1>3, <1>4 DEF CopyingOK, BufferOK, Remaining
<1>9. \A side \in Sides : InputOK(side)'
  <2>1. ASSUME NEW side \in Sides
        PROVE  ~HitOwns(side) /\ ~HitOwns(side)' /\ (CopyOwns(side)' <=> CopyOwns(side))
    BY <1>1, <1>3, <1>4 DEF HitOwns, CopyOwns, SideOf, IsL1
  <2>2. \A side \in Sides : \A n \in Nat : Due(side, n) => Due(side, n)'
    BY <2>1 DEF Due
  <2>. QED BY <1>1, <2>1, <2>2, InputsLeft
<1>10. Wanted' = Wanted
  BY <1>1, <1>3, <1>4 DEF Wanted
<1>11. ResponsesOK'
  BY <1>1, <1>2, <1>4, <1>10 DEF ResponsesOK, beyond, Silent, AsksOnce
<1>12. StoringOK'
  BY <1>1, <1>2, <1>4 DEF StoringOK, beyond
<1>. QED BY <1>5, <1>6, <1>7, <1>8, <1>9, <1>11, <1>12 DEF BInv

(* A word of the line is sent.                                              *)
LEMMA FlushKeeps ==
    ASSUME BInv, Flush
    PROVE  BInv'
<1> DEFINE last == cacheLineCursor + 1 >= WordsPerLine
           f == [kind |-> "WORD", tag |-> flushAddress.tag, off |-> cacheLineCursor,
                 val |-> data[flushAddress.line][cacheLineCursor], eop |-> last]
<1>1. /\ state = "FLUSH" /\ canSendRequest
      /\ sendRequests(<<f>>)
      /\ cacheLineCursor' = cacheLineCursor + 1
      /\ state' = IF last THEN previousState ELSE state
      /\ UNCHANGED <<previousState, hitRequest, missRequest, sram, flushAddress,
                     pendingFlushes, buffer, inputs, inResponseQueue, output,
                     sending, workload, beyond>>
  BY DEF Flush
<1>2. TypeOK /\ HitOK /\ MissOK /\ FlushOK /\ RefillOK /\ ReadingOK /\ CopyingOK
      /\ BufferOK /\ ResponsesOK /\ StoringOK
  BY DEF BInv
<1>3. /\ cacheLineCursor < WordsPerLine /\ flushAddress \in [line : Line, tag : Tag]
      /\ previousState = (IF missRequest # None THEN "ALLOCATE" ELSE "REQUEST")
      /\ cacheLineCursor \in Nat /\ WordsPerLine \in Nat /\ cacheLineCursor \in Off
  BY <1>1, <1>2, LineAssumption DEF FlushOK, TypeOK, Off
<1>4. /\ cacheLineCursor + 1 \in 0 .. WordsPerLine
      /\ last <=> WordsPerLine - (cacheLineCursor + 1) = 0
      /\ ~last => cacheLineCursor + 1 < WordsPerLine
      /\ WordsPerLine - (cacheLineCursor + 1) \in Nat
      /\ WordsPerLine - cacheLineCursor = (WordsPerLine - (cacheLineCursor + 1)) + 1
  BY <1>3
<1>5. f \in OutFlit /\ f.kind = "WORD" /\ f.eop = last /\ Asks(f) = 0
  <2>1. data[flushAddress.line][cacheLineCursor] \in Val /\ flushAddress.tag \in Tag
    BY <1>2, <1>3 DEF TypeOK
  <2>2. last \in BOOLEAN
    BY <1>3
  <2> HIDE DEF last
  <2>. QED BY <1>3, <2>1, <2>2, SentFlits DEF Asks
<1> HIDE DEF f, last
<1>6. /\ outputReqQueue \in Seq(OutFlit) /\ outputReqQueue' = Append(outputReqQueue, f)
      /\ outputReqQueue' \in Seq(OutFlit) /\ Len(outputReqQueue') <= requestQueueSize
  BY <1>1, <1>2, <1>5, Sent
<1>7. /\ UNCHANGED <<hitRequest, missRequest, missBuffer, copyingToMissBuffer,
                     readingFromMissBuffer, metadata>>
      /\ hitRequest # None /\ ~needsForwarding(hitRequest) /\ ~readingFromMissBuffer
      /\ missRequest # None => hitRequest = missRequest
  BY <1>1, <1>2 DEF sram, buffer, HitOK, ReadingOK, MissOK, Parked
<1>8. /\ state' \in {"FLUSH", "REQUEST", "ALLOCATE"}
      /\ missRequest # None => state' \in {"FLUSH", "ALLOCATE"}
      /\ missRequest = None => state' \in {"FLUSH", "REQUEST"}
      /\ state' = "FLUSH" <=> ~last
  BY <1>1, <1>3
<1>9. TypeOK'
  BY <1>1, <1>2, <1>4, <1>6, <1>8 DEF TypeOK, States, sram, buffer, inputs, beyond
<1>10. HitOK'
  BY <1>1, <1>2, <1>7, <1>8 DEF HitOK, MissOK, inCache, contains
<1>11. (Parked' <=> Parked) /\ (Parked <=> missRequest # None)
  BY <1>1, <1>7, <1>8 DEF Parked
<1>12. MissOK'
  BY <1>2, <1>7, <1>11 DEF MissOK, inCache, contains
<1>13. FlushOK' /\ RefillOK' /\ ReadingOK' /\ CopyingOK' /\ BufferOK'
  BY <1>1, <1>2, <1>3, <1>4, <1>7, <1>8
     DEF FlushOK, RefillOK, ReadingOK, CopyingOK, BufferOK, Remaining
<1>14. \A side \in Sides : InputOK(side)'
  <2>1. ASSUME NEW side \in Sides
        PROVE  /\ CopyOwns(side)' <=> CopyOwns(side)
               /\ HitOwns(side)' <=> HitOwns(side)
               /\ ~(CopyOwns(side) /\ HitOwns(side))
    BY <1>7, <1>11 DEF HitOwns, CopyOwns, SideOf, IsL1, BInv, InputOK
  <2>2. Remaining(hitRequest)' = Remaining(hitRequest)
    BY <1>7 DEF Remaining
  <2>3. \A side \in Sides : \A n \in Nat : Due(side, n) => Due(side, n)'
    BY <1>1, <1>8, <2>1, <2>2 DEF Due
  <2>. QED BY <1>1, <2>1, <2>3, InputsLeft
<1>15. Wanted' = Wanted
  BY <1>1, <1>7, <1>8 DEF Wanted
<1>16. ResponsesOK'
  <2>1. missRequest' = None => inResponseQueue = <<>>
    BY <1>2, <1>7 DEF ResponsesOK
  <2>. QED BY <1>1, <1>2, <1>5, <1>6, <1>7, <1>15, <2>1, ResponsesKept DEF TypeOK, beyond
<1>17. StoringOK'
  <2> DEFINE n == WordsPerLine - (cacheLineCursor + 1)
             m == IF storing = None THEN 0 ELSE WordsPerLine - storing.off
  <2>1. Stream(FlushSteps, outputReqQueue, m, n + 1)
    BY <1>1, <1>2, <1>4 DEF StoringOK
  <2>2. n \in Nat /\ f.eop = (n = 0)
    BY <1>4, <1>5 DEF last
  <2> HIDE DEF n, m
  <2>3. <<n + 1, f, n>> \in FlushSteps
    BY <1>5, <2>2, FlushStep
  <2>4. Stream(FlushSteps, outputReqQueue', m, n)
    BY <1>5, <1>6, <2>1, <2>2, <2>3, StreamAppend
  <2>5. n = IF state' = "FLUSH" THEN WordsPerLine - cacheLineCursor' ELSE 0
    BY <1>1, <1>4, <1>8 DEF n
  <2>. QED BY <1>1, <2>4, <2>5 DEF StoringOK, m, beyond
<1>. QED BY <1>9, <1>10, <1>12, <1>13, <1>14, <1>16, <1>17 DEF BInv

-----------------------------------------------------------------------------
(* A request is taken up, or passed on to the next level.                  *)

(* The bank turns to a response.                                            *)
LEMMA StartRefillKeeps ==
    ASSUME BInv, StartRefill
    PROVE  BInv'
<1>1. /\ state = "IDLE" /\ inResponseQueue # <<>> /\ state' = "REFILL" /\ cacheLineCursor' = 0
      /\ UNCHANGED <<previousState, hitRequest, missRequest, sram, flushAddress,
                     pendingFlushes, buffer, inputs, inResponseQueue,
                     outputReqQueue, output, sending, workload, beyond>>
  BY DEF StartRefill, responseAvailable
<1>2. TypeOK /\ HitOK /\ MissOK /\ FlushOK /\ RefillOK /\ ReadingOK /\ CopyingOK
      /\ BufferOK /\ ResponsesOK /\ StoringOK
  BY DEF BInv
<1>3. hitRequest = None /\ missRequest # None /\ ~Parked /\ ~Parked'
      /\ WordsPerLine \in Nat \ {0}
  BY <1>1, <1>2, LineAssumption DEF HitOK, ResponsesOK, Parked
<1>4. UNCHANGED <<metadata, missBuffer, copyingToMissBuffer, readingFromMissBuffer>>
  BY <1>1 DEF sram, buffer
<1>5. TypeOK'
  <2>1. cacheLineCursor' \in 0 .. WordsPerLine
    BY <1>1, <1>3
  <2>. QED BY <1>1, <1>2, <2>1 DEF TypeOK, States, sram, buffer, inputs, beyond
<1>6. HitOK' /\ FlushOK' /\ RefillOK' /\ ReadingOK' /\ CopyingOK' /\ BufferOK'
  BY <1>1, <1>2, <1>3, <1>4
     DEF HitOK, FlushOK, RefillOK, ReadingOK, CopyingOK, BufferOK, Remaining
<1>7. MissOK'
  BY <1>1, <1>2, <1>3, <1>4 DEF MissOK, inCache, contains
<1>8. \A side \in Sides : InputOK(side)'
  <2>1. ASSUME NEW side \in Sides
        PROVE  ~HitOwns(side) /\ ~HitOwns(side)' /\ (CopyOwns(side)' <=> CopyOwns(side))
    BY <1>1, <1>3, <1>4 DEF HitOwns, CopyOwns, SideOf, IsL1
  <2>2. \A side \in Sides : \A n \in Nat : Due(side, n) => Due(side, n)'
    BY <2>1 DEF Due
  <2>. QED BY <1>1, <2>1, <2>2, InputsLeft
<1>9. Wanted' = Wanted
  BY <1>1, <1>3 DEF Wanted
<1>10. ResponsesOK'
  BY <1>1, <1>2, <1>4, <1>9 DEF ResponsesOK, beyond, Silent, AsksOnce
<1>11. StoringOK'
  BY <1>1, <1>2 DEF StoringOK, beyond
<1>. QED BY <1>5, <1>6, <1>7, <1>8, <1>10, <1>11 DEF BInv

(* The request that peekRequest() finds is the head of its own input.      *)
LEMMA Peeked ==
    ASSUME BInv, requestAvailable
    PROVE  \E h \in HeadFlit :
              /\ peekRequest = decodeMemoryRequest(h)
              /\ Input(peekRequest) # <<>> /\ Input(peekRequest)[1].head
              /\ Input(peekRequest)[1].req = h
<1>1. PICK side \in Sides : /\ HeadWaiting(Queue(side))
                            /\ peekRequest = decodeMemoryRequest(Queue(side)[1].req)
  BY DEF requestAvailable, peekRequest, Sides, Queue
<1>2. Queue(side) \in Seq(InFlit) /\ Queue(side) # <<>> /\ Queue(side)[1].head
  BY <1>1, InputTypes DEF BInv, HeadWaiting
<1>3. Queue(side)[1] \in InFlit
  BY <1>2, Taken
<1>4. Queue(side)[1].req \in HeadFlit
  BY <1>2, <1>3, InFlits
<1>5. SideOf(Queue(side)[1].req) = side
  <2>1. PICK n \in Nat : Stream(InputSteps(side), Queue(side), n, Len(sending[side]))
    BY DEF BInv, InputOK
  <2>2. PICK l \in Nat : <<n, Queue(side)[1], l>> \in InputSteps(side)
    BY <1>2, <2>1, StreamTail
  <2>. QED BY <1>2, <2>2, InputStep
<1>6. IsL1(peekRequest) <=> side = "core"
  BY <1>1, <1>4, <1>5 DEF SideOf, IsL1, decodeMemoryRequest
<1>7. Input(peekRequest) = Queue(side)
  BY <1>6 DEF Input, Queue, Sides
<1>. QED BY <1>1, <1>2, <1>4, <1>7

(* The bank takes up a request: under a miss, one that hits elsewhere.      *)
LEMMA StartRequestKeeps ==
    ASSUME BInv, StartRequest, hitUnderMiss
    PROVE  BInv'
<1>1. /\ state = "IDLE" /\ requestAvailable /\ mayStart(peekRequest)
      /\ Consume(peekRequest) /\ hitRequest' = peekRequest /\ state' = "REQUEST"
      /\ UNCHANGED <<previousState, missRequest, sram, flushing, buffer,
                     inResponseQueue, outputReqQueue, output, sending, workload, beyond>>
  BY DEF StartRequest
<1>2. TypeOK /\ HitOK /\ MissOK /\ FlushOK /\ RefillOK /\ ReadingOK /\ CopyingOK
      /\ BufferOK /\ ResponsesOK /\ StoringOK
  BY DEF BInv
<1>3. PICK h \in HeadFlit :
        /\ peekRequest = decodeMemoryRequest(h)
        /\ Input(peekRequest) # <<>> /\ Input(peekRequest)[1].head
        /\ Input(peekRequest)[1].req = h
  BY <1>1, Peeked
<1> DEFINE r == peekRequest
<1>4. /\ RequestOK(r) /\ Untouched(r) /\ Remaining(r) = payloadFlits(h.op)
      /\ r \in Operation /\ r # None
  BY <1>3, Decoded, Fields DEF RequestOK
<1>5. /\ Input(r) = Queue(SideOf(r)) /\ SideOf(r) \in Sides
      /\ \A side \in Sides :
            Queue(side)' = IF side = SideOf(r) THEN Tail(Queue(side)) ELSE Queue(side)
      /\ inputQueue' \in Seq(InFlit) /\ Len(inputQueue') <= InputSize
      /\ requestSig' \in Seq(InFlit) /\ Len(requestSig') <= 1
  BY <1>1, <1>2, <1>3, Consumed
<1>6. /\ missRequest # None =>
           /\ r.tag # missRequest.tag /\ inCache(r)
           /\ r.op \notin {"FLUSH_LINE", "FLUSH_ALL_LINES"}
           /\ ~(needsForwarding(r) /\ resultsToSend(r))
  BY <1>1 DEF mayStart
<1> HIDE DEF r
<1>7. hitRequest' = r /\ hitRequest = None
  BY <1>1, <1>2 DEF r, HitOK
<1>8. /\ UNCHANGED <<metadata, missBuffer, copyingToMissBuffer, readingFromMissBuffer,
                     cacheLineCursor, missRequest>>
      /\ ~readingFromMissBuffer /\ ~Parked'
  BY <1>1, <1>2 DEF sram, buffer, flushing, ReadingOK, Parked
<1>9. TypeOK'
  BY <1>1, <1>2, <1>4, <1>5, <1>7 DEF TypeOK, States, sram, flushing, buffer, beyond
<1>10. HitOK'
  BY <1>1, <1>4, <1>7 DEF HitOK
<1>11. MissOK'
  <2>1. inCache(r) => inCache(hitRequest)'
    BY <1>7, <1>8 DEF inCache, contains
  <2>. QED BY <1>2, <1>6, <1>7, <1>8, <2>1 DEF MissOK, inCache, contains
<1>12. FlushOK' /\ RefillOK' /\ ReadingOK' /\ CopyingOK' /\ BufferOK'
  BY <1>1, <1>2, <1>8 DEF FlushOK, RefillOK, ReadingOK, CopyingOK, BufferOK, Remaining
<1>13. ASSUME NEW side \in Sides
       PROVE  /\ ~HitOwns(side) /\ (CopyOwns(side)' <=> CopyOwns(side))
              /\ HitOwns(side)' <=> side = SideOf(r)
  <2>1. SideOf(hitRequest)' = SideOf(r)
    BY <1>7 DEF SideOf, IsL1
  <2>. QED BY <1>4, <1>7, <1>8, <2>1 DEF HitOwns, CopyOwns, SideOf, IsL1
<1>14. ASSUME NEW side \in Sides PROVE InputOK(side)'
  <2>1. CASE side = SideOf(r)
    <3>1. /\ Queue(side) \in Seq(InFlit) /\ Queue(side) # <<>>
          /\ Queue(side)' = Tail(Queue(side)) /\ Queue(side)[1].head
          /\ Queue(side)[1].req = h
      BY <1>2, <1>3, <1>5, <2>1, InputTypes DEF r
    <3>2. ASSUME NEW n, NEW l, <<n, Queue(side)[1], l>> \in InputSteps(side)
          PROVE  n = 0 /\ l = Remaining(r)
      BY <1>4, <3>1, <3>2, InputStep
    <3>3. ~CopyOwns(side)
      <4>1. PICK n \in Nat : /\ Stream(InputSteps(side), Queue(side), n, Len(sending[side]))
                             /\ Due(side, n)
        BY DEF BInv, InputOK
      <4>2. PICK l \in Nat : <<n, Queue(side)[1], l>> \in InputSteps(side)
        BY <3>1, <4>1, StreamTail
      <4>. QED BY <3>2, <4>1, <4>2 DEF Due
    <3>4. ASSUME NEW n \in Nat, NEW l \in Nat, Due(side, n),
                 <<n, Queue(side)[1], l>> \in InputSteps(side)
          PROVE  Due(side, l)'
      <4>1. l = Remaining(r) /\ Remaining(hitRequest)' = Remaining(r)
        BY <1>7, <3>2, <3>4 DEF Remaining
      <4>. QED BY <1>1, <1>13, <2>1, <3>3, <4>1 DEF Due
    <3>. QED BY <1>1, <1>13, <3>1, <3>3, <3>4, InputTaken DEF BInv
  <2>2. CASE side # SideOf(r)
    <3>1. Queue(side)' = Queue(side)
      BY <1>5, <2>2
    <3>2. \A n \in Nat : Due(side, n) => Due(side, n)'
      BY <1>13, <2>2 DEF Due
    <3>. QED BY <1>1, <1>13, <2>2, <3>1, <3>2, InputKept DEF BInv
  <2>. QED BY <2>1, <2>2
<1>15. Wanted' = Wanted
  BY <1>1, <1>8 DEF Wanted
<1>16. ResponsesOK'
  BY <1>1, <1>2, <1>8, <1>15 DEF ResponsesOK, beyond, Silent, AsksOnce
<1>17. StoringOK'
  BY <1>1, <1>2 DEF StoringOK, beyond
<1>. QED BY <1>9, <1>10, <1>11, <1>12, <1>14, <1>16, <1>17 DEF BInv

(* A request is passed on, and waits for its results if it has any.         *)
LEMMA ForwardRequestKeeps ==
    ASSUME BInv, ForwardRequest
    PROVE  BInv'
<1> DEFINE r == hitRequest
           f == [kind |-> "FORWARD", req |-> r]
<1>1. /\ state = "REQUEST" /\ canSendRequest /\ needsForwarding(r)
      /\ sendRequests(<<f>>)
      /\ \/ /\ awaitingPayload(r)
            /\ state' = "FORWARD" /\ hitRequest' = r /\ missRequest' = missRequest
         \/ /\ ~awaitingPayload(r) /\ missRequest = None
            /\ missRequest' = r /\ state' = "IDLE" /\ hitRequest' = None
      /\ UNCHANGED <<previousState, sram, flushing, buffer, inputs, inResponseQueue,
                     output, sending, workload, beyond>>
  BY DEF ForwardRequest
<1>2. TypeOK /\ HitOK /\ MissOK /\ FlushOK /\ RefillOK /\ ReadingOK /\ CopyingOK
      /\ BufferOK /\ ResponsesOK
  BY DEF BInv
<1>3. /\ r # None /\ RequestOK(r) /\ r \in Operation /\ Untouched(r)
      /\ ~readingFromMissBuffer /\ ~Parked
  BY <1>1, <1>2 DEF HitOK, RequestOK, ReadingOK, Parked
<1>4. /\ awaitingPayload(r) <=> Remaining(r) > 0
      /\ Remaining(r) = payloadFlits(r.op) /\ payloadFlits(r.op) \in Nat
      /\ Results(r) \in Nat /\ resultFlitsRemaining(r) \in Nat
      /\ ~resultsToSend(r) => Results(r) = 0
  <2>1. /\ awaitingPayload(r) <=> Remaining(r) > 0
        /\ Remaining(r) = payloadFlits(r.op) /\ Results(r) \in Nat /\ resultFlitsRemaining(r) \in Nat
    BY <1>3, Untaken
  <2>. QED BY <1>3, <2>1, Totals DEF Results, resultsToSend
<1>5. f \in OutFlit /\ f.kind = "FORWARD" /\ Asks(f) = Results(r)
  BY <1>3, SentFlits DEF Asks
<1> HIDE DEF f
<1>6. /\ outputReqQueue \in Seq(OutFlit) /\ outputReqQueue' = Append(outputReqQueue, f)
      /\ outputReqQueue' \in Seq(OutFlit) /\ Len(outputReqQueue') <= requestQueueSize
  BY <1>1, <1>2, <1>5, Sent
<1>7. UNCHANGED <<metadata, cacheLineCursor, missBuffer, copyingToMissBuffer, readingFromMissBuffer>>
  BY <1>1 DEF sram, flushing, buffer
<1>8. StoringOK'
  BY <1>1, <1>5, <1>6, StoringSent DEF beyond
<1>9. hitRequest' \in Operation \cup {None} /\ missRequest' \in Operation \cup {None}
      /\ state' \in States
  BY <1>1, <1>2, <1>3 DEF TypeOK, States
<1>10. TypeOK'
  BY <1>1, <1>2, <1>6, <1>9 DEF TypeOK, sram, flushing, buffer, inputs, beyond
<1>11. CASE /\ awaitingPayload(r)
            /\ state' = "FORWARD" /\ hitRequest' = r /\ missRequest' = missRequest
  <2>1. HitOK' /\ FlushOK' /\ RefillOK' /\ ReadingOK' /\ CopyingOK' /\ BufferOK'
    BY <1>1, <1>2, <1>3, <1>7, <1>11
       DEF HitOK, FlushOK, RefillOK, ReadingOK, CopyingOK, BufferOK, Remaining
  <2>2. ~Parked'
    BY <1>11 DEF Parked
  <2>3. MissOK'
    BY <1>2, <1>3, <1>7, <1>11, <2>2 DEF MissOK, inCache, contains
  <2>4. \A side \in Sides : InputOK(side)'
    <3>1. ASSUME NEW side \in Sides
          PROVE  /\ CopyOwns(side)' <=> CopyOwns(side)
                 /\ HitOwns(side)' <=> HitOwns(side)
                 /\ ~(CopyOwns(side) /\ HitOwns(side))
      BY <1>3, <1>7, <1>11, <2>2 DEF HitOwns, CopyOwns, SideOf, IsL1, BInv, InputOK
    <3>2. \A side \in Sides : \A n \in Nat : Due(side, n) => Due(side, n)'
      BY <1>1, <1>4, <1>11, <3>1 DEF Due
    <3>. QED BY <1>1, <3>1, <3>2, InputsLeft
  <2>5. ResponsesOK'
    <3>1. CASE missRequest = None
      <4>1. Wanted = 0 /\ Wanted' = Results(r) /\ ~copyingToMissBuffer'
        BY <1>1, <1>2, <1>7, <1>11, <3>1
           DEF Wanted, CopyingOK, Results, HasReturnAddress, resultFlitsRemaining, totalIterations
      <4>. QED BY <1>1, <1>2, <1>4, <1>5, <1>6, <4>1, ResponsesAsked DEF TypeOK, beyond
    <3>2. CASE missRequest # None
      <4>1. Wanted' = Wanted /\ Asks(f) = 0
        BY <1>1, <1>2, <1>3, <1>4, <1>5, <1>7, <1>11, <3>2 DEF Wanted, MissOK
      <4>. QED BY <1>1, <1>2, <1>5, <1>6, <1>7, <1>11, <3>2, <4>1, ResponsesKept
               DEF TypeOK, beyond
    <3>. QED BY <3>1, <3>2
  <2>. QED BY <1>8, <1>10, <2>1, <2>3, <2>4, <2>5 DEF BInv
<1>12. CASE /\ ~awaitingPayload(r) /\ missRequest = None
            /\ missRequest' = r /\ state' = "IDLE" /\ hitRequest' = None
  <2>1. ~copyingToMissBuffer /\ ~copyingToMissBuffer' /\ ~readingFromMissBuffer' /\ ~Parked'
    BY <1>2, <1>3, <1>7, <1>12 DEF CopyingOK, Parked
  <2>2. HitOK' /\ FlushOK' /\ RefillOK' /\ ReadingOK' /\ CopyingOK'
    BY <1>12, <2>1 DEF HitOK, FlushOK, RefillOK, ReadingOK, CopyingOK
  <2>3. missRequest' # None /\ needsForwarding(missRequest') /\ RequestOK(missRequest')
        /\ missRequest'.saved = None
    BY <1>1, <1>3, <1>12 DEF Untouched
  <2>4. MissOK'
    BY <1>12, <2>1, <2>3 DEF MissOK, RequestOK
  <2>5. BufferOK'
    BY <1>2, <1>3, <1>7, <1>12, <2>1, <2>3 DEF BufferOK
  <2>6. \A side \in Sides : InputOK(side)'
    <3>1. ASSUME NEW side \in Sides
          PROVE  ~CopyOwns(side) /\ ~CopyOwns(side)' /\ ~HitOwns(side)'
      BY <1>12, <2>1 DEF HitOwns, CopyOwns
    <3>2. Remaining(r) = 0
      BY <1>4, <1>12
    <3>3. \A side \in Sides : \A n \in Nat : Due(side, n) => Due(side, n)'
      BY <1>1, <3>1, <3>2 DEF Due
    <3>. QED BY <1>1, <3>1, <3>3, InputsLeft
  <2>7. Wanted = 0 /\ Wanted' = Results(r)
    BY <1>1, <1>3, <1>12
       DEF Wanted, Results, HasReturnAddress, resultFlitsRemaining, totalIterations
  <2>8. ResponsesOK'
    BY <1>1, <1>2, <1>4, <1>5, <1>6, <2>1, <2>7, ResponsesAsked DEF TypeOK, beyond
  <2>. QED BY <1>8, <1>10, <2>2, <2>4, <2>5, <2>6, <2>8 DEF BInv
<1>. QED BY <1>1, <1>11, <1>12

(* A payload flit is passed on.                                             *)
LEMMA ForwardPayloadKeeps ==
    ASSUME BInv, ForwardPayload
    PROVE  BInv'
<1> DEFINE r    == hitRequest
           flit == Input(r)[1]
           f    == [kind |-> "FORWARDED_WORD", eop |-> flit.eop]
<1>1. /\ state = "FORWARD" /\ canSendRequest /\ payloadAvailable(r) /\ Consume(r)
      /\ sendRequests(<<f>>)
      /\ \/ ~flit.eop /\ UNCHANGED <<state, hitRequest, missRequest>>
         \/ /\ flit.eop /\ state' = "IDLE" /\ hitRequest' = None
            /\ \/ resultsToSend(r) /\ missRequest = None /\ missRequest' = r
               \/ ~resultsToSend(r) /\ missRequest' = missRequest
      /\ UNCHANGED <<previousState, sram, flushing, buffer, inResponseQueue,
                     output, sending, workload, beyond>>
  BY DEF ForwardPayload
<1>2. TypeOK /\ HitOK /\ MissOK /\ FlushOK /\ RefillOK /\ ReadingOK /\ CopyingOK
      /\ BufferOK /\ ResponsesOK
  BY DEF BInv
<1>3. /\ r # None /\ RequestOK(r) /\ r \in Operation /\ Untouched(r)
      /\ needsForwarding(r) /\ awaitingPayload(r)
      /\ ~readingFromMissBuffer /\ ~Parked /\ ~Parked'
  BY <1>1, <1>2 DEF HitOK, RequestOK, ReadingOK, Parked
<1>4. Input(r) # <<>> /\ ~flit.head
  BY <1>1, <1>3 DEF payloadAvailable, PayloadWaiting
<1>5. /\ Input(r) = Queue(SideOf(r)) /\ SideOf(r) \in Sides
      /\ flit \in InFlit /\ flit.eop \in BOOLEAN
      /\ \A side \in Sides :
            Queue(side)' = IF side = SideOf(r) THEN Tail(Queue(side)) ELSE Queue(side)
      /\ inputQueue' \in Seq(InFlit) /\ Len(inputQueue') <= InputSize
      /\ requestSig' \in Seq(InFlit) /\ Len(requestSig') <= 1
  BY <1>1, <1>2, <1>4, Consumed, InFlits
<1>6. f \in OutFlit /\ f.kind = "FORWARDED_WORD" /\ Asks(f) = 0
  BY <1>5, SentFlits DEF Asks
<1> HIDE DEF f
<1>7. /\ outputReqQueue \in Seq(OutFlit) /\ outputReqQueue' = Append(outputReqQueue, f)
      /\ outputReqQueue' \in Seq(OutFlit) /\ Len(outputReqQueue') <= requestQueueSize
  BY <1>1, <1>2, <1>6, Sent
<1>8. UNCHANGED <<metadata, cacheLineCursor, missBuffer, copyingToMissBuffer, readingFromMissBuffer>>
  BY <1>1 DEF sram, flushing, buffer
<1>9. StoringOK'
  BY <1>1, <1>6, <1>7, StoringSent DEF beyond
<1>10. hitRequest' \in Operation \cup {None} /\ missRequest' \in Operation \cup {None}
       /\ state' \in {"IDLE", "FORWARD"}
  BY <1>1, <1>2, <1>3 DEF TypeOK
<1>11. TypeOK'
  BY <1>1, <1>2, <1>5, <1>7, <1>10 DEF TypeOK, States, sram, flushing, buffer, beyond
<1>12. /\ resultFlitsRemaining(r) \in Nat /\ Results(r) \in Nat
       /\ ~resultsToSend(r) => Results(r) = 0
  <2>1. Results(r) \in Nat /\ resultFlitsRemaining(r) \in Nat
    BY <1>3, Untaken
  <2>. QED BY <2>1 DEF Results, resultsToSend
<1>13. ASSUME NEW side \in Sides
       PROVE  /\ CopyOwns(side) => missRequest' = missRequest
              /\ CopyOwns(side)' <=> CopyOwns(side)
              /\ HitOwns(side) <=> side = SideOf(r)
              /\ HitOwns(side)' <=> side = SideOf(r) /\ ~flit.eop
              /\ ~(CopyOwns(side) /\ HitOwns(side))
  <2>1. ~(CopyOwns(side) /\ HitOwns(side)) /\ (HitOwns(side) <=> side = SideOf(r))
    BY <1>3 DEF BInv, InputOK, HitOwns
  <2>2. copyingToMissBuffer => missRequest # None /\ missRequest' = missRequest
    BY <1>1, <1>2 DEF CopyingOK, MissOK
  <2>3. CopyOwns(side)' <=> CopyOwns(side)
    BY <1>8, <2>2 DEF CopyOwns, SideOf, IsL1
  <2>4. HitOwns(side)' <=> side = SideOf(r) /\ ~flit.eop
    <3>1. CASE ~flit.eop
      BY <1>1, <1>3, <1>8, <3>1 DEF HitOwns, SideOf, IsL1
    <3>2. CASE flit.eop
      BY <1>1, <3>2 DEF HitOwns
    <3>. QED BY <3>1, <3>2
  <2>. QED BY <2>1, <2>2, <2>3, <2>4 DEF CopyOwns
<1>14. ASSUME NEW side \in Sides PROVE InputOK(side)'
  <2>1. CASE side = SideOf(r)
    <3>1. /\ Queue(side) \in Seq(InFlit) /\ Queue(side) # <<>>
          /\ Queue(side)' = Tail(Queue(side)) /\ Queue(side)[1] = flit
      BY <1>2, <1>4, <1>5, <2>1, InputTypes
    <3>2. ASSUME NEW n \in Nat, NEW l \in Nat, Due(side, n),
                 <<n, Queue(side)[1], l>> \in InputSteps(side)
          PROVE  Due(side, l)'
      <4>1. flit.eop <=> l = 0
        BY <1>4, <3>1, <3>2, InputStep
      <4>. QED BY <1>1, <1>13, <2>1, <4>1 DEF Due
    <3>. QED BY <1>1, <1>13, <2>1, <3>1, <3>2, InputTaken DEF BInv
  <2>2. CASE side # SideOf(r)
    <3>1. Queue(side)' = Queue(side)
      BY <1>5, <2>2
    <3>2. \A n \in Nat : Due(side, n) => Due(side, n)'
      BY <1>13, <2>2 DEF Due
    <3>. QED BY <1>1, <1>13, <2>2, <3>1, <3>2, InputKept DEF BInv
  <2>. QED BY <2>1, <2>2
<1>15. CASE ~flit.eop /\ UNCHANGED <<state, hitRequest, missRequest>>
  <2>1. HitOK' /\ FlushOK' /\ RefillOK' /\ ReadingOK' /\ CopyingOK' /\ BufferOK'
    BY <1>1, <1>2, <1>3, <1>8, <1>15
       DEF HitOK, FlushOK, RefillOK, ReadingOK, CopyingOK, BufferOK, Remaining
  <2>2. MissOK'
    BY <1>2, <1>3, <1>8, <1>15 DEF MissOK, inCache, contains
  <2>3. Wanted' = Wanted
    BY <1>8, <1>15 DEF Wanted
  <2>4. missRequest' = None => inResponseQueue = <<>>
    BY <1>2, <1>15 DEF ResponsesOK
  <2>5. ResponsesOK'
    BY <1>1, <1>2, <1>6, <1>7, <1>8, <2>3, <2>4, ResponsesKept DEF TypeOK, beyond
  <2>. QED BY <1>9, <1>11, <1>14, <2>1, <2>2, <2>5 DEF BInv
<1>16. CASE /\ flit.eop /\ state' = "IDLE" /\ hitRequest' = None
            /\ \/ resultsToSend(r) /\ missRequest = None /\ missRequest' = r
               \/ ~resultsToSend(r) /\ missRequest' = missRequest
  <2>1. HitOK' /\ FlushOK' /\ RefillOK' /\ ReadingOK'
    BY <1>3, <1>8, <1>16 DEF HitOK, FlushOK, RefillOK, ReadingOK
  <2>2. CASE resultsToSend(r) /\ missRequest = None /\ missRequest' = r
    <3>1. ~copyingToMissBuffer /\ ~copyingToMissBuffer'
      BY <1>2, <1>8, <2>2 DEF CopyingOK
    <3>2. missRequest' # None /\ needsForwarding(missRequest') /\ RequestOK(missRequest')
          /\ missRequest'.saved = None
      BY <1>3, <2>2 DEF Untouched
    <3>3. MissOK'
      BY <1>3, <1>16, <3>2 DEF MissOK, RequestOK
    <3>4. CopyingOK' /\ BufferOK'
      BY <1>2, <1>3, <1>8, <2>2, <3>1, <3>2 DEF BufferOK, CopyingOK
    <3>5. Wanted' = Wanted
      BY <1>1, <1>3, <1>16, <2>2
         DEF Wanted, Results, HasReturnAddress, resultFlitsRemaining, totalIterations
    <3>6. ResponsesOK'
      BY <1>1, <1>2, <1>6, <1>7, <1>8, <2>2, <3>2, <3>5, ResponsesKept DEF TypeOK, beyond
    <3>. QED BY <1>9, <1>11, <1>14, <2>1, <3>3, <3>4, <3>6 DEF BInv
  <2>3. CASE ~resultsToSend(r) /\ missRequest' = missRequest
    <3>1. MissOK'
      BY <1>2, <1>3, <1>8, <1>16, <2>3 DEF MissOK, inCache, contains
    <3>2. CopyingOK' /\ BufferOK'
      BY <1>2, <1>3, <1>8, <2>3 DEF BufferOK, CopyingOK, Remaining
    <3>3. Wanted' = Wanted
      BY <1>1, <1>12, <1>16, <2>3 DEF Wanted
    <3>4. missRequest' = None => inResponseQueue = <<>>
      BY <1>2, <2>3 DEF ResponsesOK
    <3>5. ResponsesOK'
      BY <1>1, <1>2, <1>6, <1>7, <1>8, <3>3, <3>4, ResponsesKept DEF TypeOK, beyond
    <3>. QED BY <1>9, <1>11, <1>14, <2>1, <3>1, <3>2, <3>5 DEF BInv
  <2>. QED BY <1>16, <2>2, <2>3
<1>. QED BY <1>1, <1>15, <1>16

-----------------------------------------------------------------------------
(* What was asked for arrives.                                             *)

(* A response is there: it is one of those that are wanted.                *)
LEMMA Response ==
    ASSUME BInv, state = "REFILL", responseAvailable
    PROVE  /\ hitRequest = None /\ missRequest # None /\ ~Parked
           /\ Silent(outputReqQueue) /\ Head(inResponseQueue) \in Val
           /\ Tail(inResponseQueue) \in Seq(Val) /\ Len(Tail(inResponseQueue)) <= InputSize
           /\ Len(Tail(inResponseQueue)) + Len(returning) = Wanted - 1
           /\ Len(Tail(inResponseQueue)) \in Nat /\ Len(returning) \in Nat
           /\ Wanted \in Nat \ {0}
           /\ copyingToMissBuffer => returning # <<>>
<1>1. /\ inResponseQueue \in Seq(Val) /\ Len(inResponseQueue) <= InputSize
      /\ returning \in Seq(Val) /\ inResponseQueue # <<>> /\ InputSize \in Nat
  BY BankAssumption DEF BInv, TypeOK, responseAvailable
<1>2. /\ Head(inResponseQueue) \in Val /\ Tail(inResponseQueue) \in Seq(Val)
      /\ Len(inResponseQueue) \in Nat \ {0}
      /\ Len(Tail(inResponseQueue)) = Len(inResponseQueue) - 1
  BY <1>1, Taken
<1>3. Len(returning) \in Nat
  BY <1>1, LenProperties
<1>4. /\ Silent(outputReqQueue) /\ Len(inResponseQueue) + Len(returning) = Wanted
      /\ copyingToMissBuffer => returning # <<>>
  BY <1>1 DEF BInv, ResponsesOK
<1>5. /\ Len(Tail(inResponseQueue)) <= InputSize /\ Len(Tail(inResponseQueue)) \in Nat
      /\ Len(Tail(inResponseQueue)) + Len(returning) = Wanted - 1 /\ Wanted \in Nat \ {0}
  BY <1>1, <1>2, <1>3, <1>4
<1>6. hitRequest = None /\ missRequest # None /\ ~Parked
  BY DEF BInv, HitOK, RefillOK, Parked
<1>. QED BY <1>2, <1>3, <1>4, <1>5, <1>6

(* The responses that are left.                                            *)
LEMMA ResponseTaken ==
    ASSUME BInv, state = "REFILL", responseAvailable, Wanted' = Wanted - 1,
           inResponseQueue' = Tail(inResponseQueue), UNCHANGED <<outputReqQueue, returning>>,
           missRequest' = None => Wanted' = 0, copyingToMissBuffer' => copyingToMissBuffer
    PROVE  ResponsesOK'
<1>1. /\ Silent(outputReqQueue) /\ Tail(inResponseQueue) \in Seq(Val)
      /\ Len(Tail(inResponseQueue)) + Len(returning) = Wanted - 1
      /\ Len(Tail(inResponseQueue)) \in Nat /\ Len(returning) \in Nat
      /\ copyingToMissBuffer => returning # <<>>
  BY Response
<1>2. Len(inResponseQueue') + Len(returning') = Wanted'
  BY <1>1
<1>3. Silent(outputReqQueue)'
  BY <1>1 DEF Silent
<1>4. missRequest' = None => inResponseQueue' = <<>>
  <2>1. Wanted' = 0 => Len(Tail(inResponseQueue)) = 0
    <3>1. \A a, b \in Nat : a + b = 0 => a = 0
      OBVIOUS
    <3>2. Len(Tail(inResponseQueue)) + Len(returning) = Wanted'
      BY <1>1
    <3>. QED BY <1>1, <3>1, <3>2
  <2>2. Len(Tail(inResponseQueue)) = 0 => Tail(inResponseQueue) = <<>>
    BY <1>1, Empties
  <2>. QED BY <2>1, <2>2
<1>. QED BY <1>1, <1>2, <1>3, <1>4 DEF ResponsesOK

(* A word of the line arrives; after the last the request resumes.          *)
LEMMA RefillKeeps ==
    ASSUME BInv, Refill
    PROVE  BInv'
<1> DEFINE r    == missRequest
           line == LineOf[r.tag]
           last == cacheLineCursor + 1 >= WordsPerLine
<1>1. /\ state = "REFILL" /\ responseAvailable /\ ~needsForwarding(r)
      /\ inResponseQueue' = Tail(inResponseQueue)
      /\ data' = [data EXCEPT ![line] =
                     [data[line] EXCEPT ![cacheLineCursor] = Head(inResponseQueue)]]
      /\ metadata' = [metadata EXCEPT ![line] = [metadata[line] EXCEPT !.dirty = ~last]]
      /\ reservations' \in {reservations, None}
      /\ cacheLineCursor' = cacheLineCursor + 1
      /\ \/ /\ last /\ state' = "REQUEST" /\ hitRequest' = r /\ missRequest' = None
            /\ readingFromMissBuffer' = TRUE
         \/ ~last /\ UNCHANGED <<state, hitRequest, missRequest, readingFromMissBuffer>>
      /\ UNCHANGED <<previousState, flushAddress, pendingFlushes, missBuffer,
                     copyingToMissBuffer, inputs, outputReqQueue, output,
                     sending, workload, beyond>>
  BY DEF Refill
<1>2. TypeOK /\ HitOK /\ MissOK /\ FlushOK /\ RefillOK /\ ReadingOK /\ CopyingOK
      /\ BufferOK /\ ResponsesOK /\ StoringOK
  BY DEF BInv
<1>3. /\ hitRequest = None /\ r # None /\ ~Parked
      /\ Head(inResponseQueue) \in Val /\ Tail(inResponseQueue) \in Seq(Val)
      /\ Len(Tail(inResponseQueue)) <= InputSize
      /\ Len(Tail(inResponseQueue)) + Len(returning) = Wanted - 1
      /\ Len(Tail(inResponseQueue)) \in Nat /\ Len(returning) \in Nat
      /\ copyingToMissBuffer => returning # <<>>
  BY <1>1, Response
<1>4. /\ RequestOK(r) /\ r \in Operation /\ r.op \notin NoPreconditions /\ ~claimsLine(r)
      /\ Untouched(r) /\ inCache(r)
      /\ ~readingFromMissBuffer
  BY <1>1, <1>2, <1>3 DEF MissOK, RequestOK, ReadingOK
<1>5. /\ cacheLineCursor \in Nat /\ cacheLineCursor < WordsPerLine /\ WordsPerLine \in Nat
      /\ cacheLineCursor \in Off /\ cacheLineCursor + 1 \in 0 .. WordsPerLine
      /\ Wanted = WordsPerLine - cacheLineCursor
  <2>1. cacheLineCursor \in 0 .. WordsPerLine /\ WordsPerLine \in Nat
        /\ cacheLineCursor < WordsPerLine
    BY <1>1, <1>2, <1>3, LineAssumption DEF RefillOK, TypeOK
  <2>2. Wanted = WordsPerLine - cacheLineCursor
    BY <1>1, <1>3 DEF Wanted
  <2>. QED BY <2>1, <2>2 DEF Off
<1>6. /\ last => Wanted = 1
      /\ ~last => cacheLineCursor + 1 < WordsPerLine
  BY <1>5
<1>7. line \in Line /\ \A t \in Tag : LineOf[t] \in Line
  BY <1>4, Fields, BankAssumption
<1>8. data' \in [Line -> [Off -> Val]]
  <2>1. data \in [Line -> [Off -> Val]]
    BY <1>2 DEF TypeOK
  <2> HIDE DEF line
  <2>2. [data[line] EXCEPT ![cacheLineCursor] = Head(inResponseQueue)] \in [Off -> Val]
    BY <1>3, <1>5, <1>7, <2>1
  <2>. QED BY <1>1, <1>7, <2>1, <2>2
<1>9. /\ metadata' \in [Line -> [tag : Tag, valid : BOOLEAN, dirty : BOOLEAN]]
      /\ \A l \in Line : metadata'[l].valid = metadata[l].valid /\ metadata'[l].tag = metadata[l].tag
  <2>1. metadata \in [Line -> [tag : Tag, valid : BOOLEAN, dirty : BOOLEAN]]
    BY <1>2 DEF TypeOK
  <2>2. (~last) \in BOOLEAN
    OBVIOUS
  <2> HIDE DEF line, last
  <2>3. [metadata[line] EXCEPT !.dirty = ~last] \in [tag : Tag, valid : BOOLEAN, dirty : BOOLEAN]
    BY <1>7, <2>1, <2>2
  <2>. QED BY <1>1, <1>7, <2>1, <2>3
<1>10. metadata'[LineOf[r.tag]].valid /\ metadata'[LineOf[r.tag]].tag = r.tag
  BY <1>4, <1>7, <1>9, Fields DEF inCache, contains
<1> HIDE DEF line, last
<1>11. TypeOK'
  <2>1. readingFromMissBuffer' \in BOOLEAN
    <3>1. CASE last
      BY <1>1, <3>1
    <3>2. CASE ~last
      BY <1>1, <1>2, <3>2 DEF TypeOK
    <3>. QED BY <3>1, <3>2
  <2>2. hitRequest' \in Operation \cup {None} /\ missRequest' \in Operation \cup {None}
        /\ state' \in States
    BY <1>1, <1>2, <1>4 DEF TypeOK, States
  <2>3. reservations' \in [dest : Dest, tag : Tag, off : Off] \cup {None}
    BY <1>1, <1>2 DEF TypeOK
  <2>. QED BY <1>1, <1>2, <1>3, <1>5, <1>8, <1>9, <2>1, <2>2, <2>3 DEF TypeOK, inputs, beyond
<1>12. StoringOK'
  BY <1>1, <1>2 DEF StoringOK, beyond
<1>13. CASE /\ last /\ state' = "REQUEST" /\ hitRequest' = r /\ missRequest' = None
            /\ readingFromMissBuffer' = TRUE
  <2>1. Wanted = 1 /\ Wanted' = 0
    BY <1>6, <1>13 DEF Wanted
  <2>2. ~copyingToMissBuffer /\ ~copyingToMissBuffer'
    <3>1. Len(returning) = 0
      BY <1>3, <2>1
    <3>2. returning = <<>>
      BY <1>2, <3>1, Empties DEF TypeOK
    <3>. QED BY <1>1, <1>3, <3>2
  <2>3. inCache(hitRequest)'
    BY <1>10, <1>13 DEF inCache, contains
  <2>4. HitOK'
    BY <1>1, <1>3, <1>4, <1>13, <2>3 DEF HitOK
  <2>5. MissOK' /\ FlushOK' /\ RefillOK' /\ CopyingOK'
    BY <1>13, <2>2 DEF MissOK, FlushOK, RefillOK, CopyingOK
  <2>6. ReadingOK'
    BY <1>1, <1>4, <1>13, <2>3 DEF ReadingOK
  <2>7. BufferOK'
    <3>1. Len(missBuffer) = Remaining(r) /\ \A k \in 1 .. Len(missBuffer) : ~missBuffer[k].head
      BY <1>1, <1>2, <1>3, <1>4, <2>2 DEF BufferOK
    <3>2. Remaining(hitRequest)' = Remaining(r)
      BY <1>13 DEF Remaining
    <3>. QED BY <1>1, <1>13, <3>1, <3>2 DEF BufferOK
  <2>8. \A side \in Sides : InputOK(side)'
    <3>1. ASSUME NEW side \in Sides
          PROVE  ~CopyOwns(side) /\ ~HitOwns(side) /\ ~CopyOwns(side)' /\ ~HitOwns(side)'
      BY <1>3, <1>13, <2>2 DEF HitOwns, CopyOwns
    <3>2. \A side \in Sides : \A n \in Nat : Due(side, n) => Due(side, n)'
      BY <3>1 DEF Due
    <3>. QED BY <1>1, <3>1, <3>2, InputsLeft
  <2>9. ResponsesOK'
    BY <1>1, <2>1, <2>2, ResponseTaken DEF beyond
  <2>. QED BY <1>11, <1>12, <2>4, <2>5, <2>6, <2>7, <2>8, <2>9 DEF BInv
<1>14. CASE ~last /\ UNCHANGED <<state, hitRequest, missRequest, readingFromMissBuffer>>
  <2>1. Wanted' = Wanted - 1
    BY <1>1, <1>3, <1>5, <1>14 DEF Wanted
  <2>2. HitOK' /\ FlushOK' /\ ReadingOK' /\ CopyingOK' /\ BufferOK'
    BY <1>1, <1>2, <1>3, <1>4, <1>14
       DEF HitOK, FlushOK, ReadingOK, CopyingOK, BufferOK, Remaining
  <2>3. RefillOK'
    BY <1>1, <1>3, <1>6, <1>14 DEF RefillOK
  <2>4. inCache(missRequest)' /\ ~Parked'
    BY <1>1, <1>10, <1>14 DEF inCache, contains, Parked
  <2>5. MissOK'
    BY <1>2, <1>3, <1>14, <2>4 DEF MissOK
  <2>6. \A side \in Sides : InputOK(side)'
    <3>1. ASSUME NEW side \in Sides
          PROVE  ~HitOwns(side) /\ ~HitOwns(side)' /\ (CopyOwns(side)' <=> CopyOwns(side))
      BY <1>1, <1>3, <1>14 DEF HitOwns, CopyOwns, SideOf, IsL1
    <3>2. \A side \in Sides : \A n \in Nat : Due(side, n) => Due(side, n)'
      BY <3>1 DEF Due
    <3>. QED BY <1>1, <3>1, <3>2, InputsLeft
  <2>7. ResponsesOK'
    BY <1>1, <1>3, <1>14, <2>1, ResponseTaken DEF beyond
  <2>. QED BY <1>11, <1>12, <2>2, <2>3, <2>5, <2>6, <2>7 DEF BInv
<1>. QED BY <1>1, <1>13, <1>14

(* A result of a request that was passed on is passed back.                 *)
LEMMA ForwardResultKeeps ==
    ASSUME BInv, ForwardResult
    PROVE  BInv'
<1> DEFINE p == Iterated(missRequest)
<1>1. /\ state = "REFILL" /\ responseAvailable /\ needsForwarding(missRequest)
      /\ canSendResponse(missRequest)
      /\ inResponseQueue' = Tail(inResponseQueue)
      /\ sendResult(missRequest, Head(inResponseQueue))
      /\ \/ resultsToSend(p) /\ missRequest' = p /\ state' = state
         \/ ~resultsToSend(p) /\ state' = "IDLE" /\ missRequest' = None
      /\ UNCHANGED <<previousState, hitRequest, sram, flushing, buffer, inputs,
                     outputReqQueue, sending, workload, beyond>>
  BY DEF ForwardResult
<1>2. TypeOK /\ HitOK /\ MissOK /\ FlushOK /\ RefillOK /\ ReadingOK /\ CopyingOK
      /\ BufferOK /\ ResponsesOK /\ StoringOK
  BY DEF BInv
<1>3. /\ hitRequest = None /\ missRequest # None /\ ~Parked
      /\ Head(inResponseQueue) \in Val /\ Tail(inResponseQueue) \in Seq(Val)
      /\ Len(Tail(inResponseQueue)) <= InputSize /\ Wanted \in Nat \ {0}
  BY <1>1, Response
<1>4. /\ RequestOK(missRequest) /\ missRequest \in Operation /\ missRequest.saved = None
      /\ missRequest.done \in Nat /\ missRequest.eop \in BOOLEAN
      /\ ~readingFromMissBuffer /\ ~copyingToMissBuffer
  BY <1>1, <1>2, <1>3, Fields DEF MissOK, RequestOK, ReadingOK, CopyingOK
<1>5. Moved(p, missRequest, missRequest.done + 1, missRequest.saved, missRequest.eop)
  BY <1>4, Progress
<1> HIDE DEF p
<1>6. p \in Operation /\ Same(p, missRequest) /\ p.done = missRequest.done + 1
      /\ p.saved = None /\ p.eop = missRequest.eop /\ p # None
  BY <1>4, <1>5, Fields DEF Moved
<1>7. /\ Wanted = resultFlitsRemaining(missRequest) /\ HasReturnAddress(missRequest)
      /\ missRequest.op \in Loads \cup Atomics \cup {"STORE_CONDITIONAL"}
  <2>1. Wanted = Results(missRequest)
    BY <1>1, <1>3 DEF Wanted
  <2>. QED BY <1>3, <2>1 DEF Results, HasReturnAddress, resultFlitsRemaining
<1>8. totalIterations(p) = totalIterations(missRequest) /\ totalIterations(missRequest) \in Nat
      /\ needsForwarding(p) /\ HasReturnAddress(p) /\ p.op = missRequest.op
  BY <1>1, <1>4, <1>6, <1>7, SameRequest, Totals DEF Same
<1>9. Wanted = totalIterations(missRequest) - missRequest.done
      /\ Results(p) = Wanted - 1 /\ resultFlitsRemaining(p) = Wanted - 1
  BY <1>4, <1>6, <1>7, <1>8 DEF Results, resultFlitsRemaining
<1>10. RequestOK(p)
  <2>1. p.done <= totalIterations(p)
    BY <1>3, <1>4, <1>6, <1>8, <1>9
  <2>. QED BY <1>4, <1>6, <1>7, <1>8, <2>1 DEF RequestOK, Loads, Atomics
<1>11. OutputTypes'
  BY <1>1, <1>3, <1>4, Answered, ServedTypes
<1>12. UNCHANGED <<metadata, cacheLineCursor, missBuffer, copyingToMissBuffer, readingFromMissBuffer>>
  BY <1>1 DEF sram, flushing, buffer
<1>13. TypeOK'
  <2>1. missRequest' \in Operation \cup {None} /\ state' \in States
    BY <1>1, <1>6 DEF States
  <2>. QED BY <1>1, <1>2, <1>3, <1>11, <2>1
           DEF TypeOK, OutputTypes, sram, flushing, buffer, inputs, beyond
<1>14. StoringOK'
  BY <1>1, <1>2 DEF StoringOK, beyond
<1>15. \A side \in Sides : InputOK(side)'
  <2>1. ASSUME NEW side \in Sides
        PROVE  ~CopyOwns(side) /\ ~HitOwns(side) /\ ~CopyOwns(side)' /\ ~HitOwns(side)'
    BY <1>1, <1>3, <1>4, <1>12 DEF HitOwns, CopyOwns
  <2>2. \A side \in Sides : \A n \in Nat : Due(side, n) => Due(side, n)'
    BY <2>1 DEF Due
  <2>. QED BY <1>1, <2>1, <2>2, InputsLeft
<1>16. HitOK' /\ FlushOK' /\ ReadingOK' /\ CopyingOK'
  BY <1>1, <1>3, <1>4, <1>12 DEF HitOK, FlushOK, ReadingOK, CopyingOK
<1>17. Len(missBuffer) = 0 /\ \A k \in 1 .. Len(missBuffer) : ~missBuffer[k].head
  BY <1>1, <1>2, <1>4 DEF BufferOK
<1>18. CASE resultsToSend(p) /\ missRequest' = p /\ state' = state
  <2>1. Wanted' = Wanted - 1
    <3>1. Results(missRequest)' = Results(p)
      BY <1>18 DEF Results, HasReturnAddress, resultFlitsRemaining, totalIterations
    <3>. QED BY <1>6, <1>8, <1>9, <1>18, <3>1 DEF Wanted
  <2>2. missRequest' # None /\ needsForwarding(missRequest') /\ RequestOK(missRequest')
        /\ missRequest'.saved = None
    BY <1>6, <1>8, <1>10, <1>18
  <2>3. MissOK' /\ RefillOK'
    BY <1>1, <1>3, <1>18, <2>2 DEF MissOK, RefillOK, RequestOK, Parked
  <2>4. BufferOK'
    BY <1>4, <1>12, <1>17, <2>2 DEF BufferOK
  <2>5. ResponsesOK'
    BY <1>1, <1>12, <2>1, <2>2, ResponseTaken DEF beyond
  <2>. QED BY <1>13, <1>14, <1>15, <1>16, <2>3, <2>4, <2>5 DEF BInv
<1>19. CASE ~resultsToSend(p) /\ state' = "IDLE" /\ missRequest' = None
  <2>1. Wanted' = 0 /\ Wanted = 1
    <3>1. Wanted - 1 <= 0
      BY <1>3, <1>9, <1>19 DEF resultsToSend
    <3>. QED BY <1>3, <1>19, <3>1 DEF Wanted
  <2>2. MissOK' /\ RefillOK'
    BY <1>19 DEF MissOK, RefillOK
  <2>3. BufferOK'
    BY <1>4, <1>12, <1>17, <1>19 DEF BufferOK
  <2>4. ResponsesOK'
    BY <1>1, <1>12, <2>1, ResponseTaken DEF beyond
  <2>. QED BY <1>13, <1>14, <1>15, <1>16, <2>2, <2>3, <2>4 DEF BInv
<1>. QED BY <1>1, <1>18, <1>19

(* The waiting request's payload is moved out of the other requests' way.   *)
LEMMA CopyToMissBufferKeeps ==
    ASSUME BInv, CopyToMissBuffer
    PROVE  BInv'
<1> DEFINE r    == missRequest
           flit == Input(r)[1]
<1>1. /\ copyingToMissBuffer /\ r # None
      /\ Input(r) # <<>> /\ ~flit.head
      /\ missBuffer' = Append(missBuffer, flit)
      /\ copyingToMissBuffer' = ~flit.eop
      /\ Consume(r)
      /\ UNCHANGED <<control, sram, flushing, readingFromMissBuffer, inResponseQueue,
                     outputReqQueue, output, sending, workload, beyond>>
  BY DEF CopyToMissBuffer, PayloadWaiting
<1>2. TypeOK /\ HitOK /\ MissOK /\ FlushOK /\ RefillOK /\ ReadingOK /\ CopyingOK
      /\ BufferOK /\ ResponsesOK /\ StoringOK
  BY DEF BInv
<1>3. ~needsForwarding(r) /\ Remaining(r) = 1 /\ ~readingFromMissBuffer
      /\ Len(missBuffer) = 0 /\ missBuffer \in Seq(InFlit)
  BY <1>1, <1>2 DEF CopyingOK, ReadingOK, BufferOK, TypeOK
<1>4. /\ Input(r) = Queue(SideOf(r)) /\ SideOf(r) \in Sides
      /\ flit \in InFlit /\ flit.eop \in BOOLEAN
      /\ \A side \in Sides :
            Queue(side)' = IF side = SideOf(r) THEN Tail(Queue(side)) ELSE Queue(side)
      /\ inputQueue' \in Seq(InFlit) /\ Len(inputQueue') <= InputSize
      /\ requestSig' \in Seq(InFlit) /\ Len(requestSig') <= 1
  BY <1>1, <1>2, Consumed, InFlits
<1> HIDE DEF flit
<1>5. /\ UNCHANGED <<state, hitRequest, missRequest, metadata, readingFromMissBuffer,
                     cacheLineCursor, previousState, flushAddress>>
  BY <1>1 DEF control, sram, flushing
<1>6. ASSUME NEW side \in Sides, side = SideOf(r)
      PROVE  /\ Queue(side) \in Seq(InFlit) /\ Queue(side) # <<>>
             /\ Queue(side)' = Tail(Queue(side)) /\ Queue(side)[1] = flit
             /\ CopyOwns(side) /\ ~HitOwns(side)
  <2>1. /\ Queue(side) \in Seq(InFlit) /\ Queue(side) # <<>>
        /\ Queue(side)' = Tail(Queue(side)) /\ Queue(side)[1] = flit
    BY <1>1, <1>2, <1>4, <1>6, InputTypes DEF flit
  <2>2. CopyOwns(side) /\ ~HitOwns(side)
    BY <1>1, <1>6 DEF CopyOwns, BInv, InputOK
  <2>. QED BY <2>1, <2>2
<1>7. flit.eop
  <2>1. PICK side \in Sides : side = SideOf(r)
    BY <1>4
  <2>2. PICK n \in Nat : /\ Stream(InputSteps(side), Queue(side), n, Len(sending[side]))
                         /\ Due(side, n)
    BY DEF BInv, InputOK
  <2>3. PICK l \in Nat : <<n, Queue(side)[1], l>> \in InputSteps(side)
    BY <1>6, <2>1, <2>2, StreamTail
  <2>4. n = 1 /\ n = l + 1 /\ (flit.eop <=> l = 0)
    BY <1>1, <1>6, <2>1, <2>2, <2>3, InputStep DEF Due, flit
  <2>. QED BY <2>4
<1>8. ~copyingToMissBuffer'
  BY <1>1, <1>7
<1>9. /\ missBuffer' \in Seq(InFlit) /\ Len(missBuffer') = 1 /\ ~missBuffer'[1].head
  <2>1. /\ missBuffer' \in Seq(InFlit) /\ Len(missBuffer') = Len(missBuffer) + 1
        /\ missBuffer'[Len(missBuffer) + 1] = flit
    BY <1>1, <1>3, <1>4, Appended
  <2>2. Len(missBuffer) + 1 = 1
    BY <1>3
  <2>. QED BY <1>1, <2>1, <2>2 DEF flit
<1>10. TypeOK'
  <2>1. Len(missBuffer') <= WordsPerLine
    BY <1>9, LineAssumption
  <2>2. copyingToMissBuffer' \in BOOLEAN
    BY <1>1
  <2>. QED BY <1>1, <1>2, <1>4, <1>9, <2>1, <2>2
           DEF TypeOK, control, sram, flushing, beyond
<1>11. HitOK' /\ MissOK' /\ FlushOK' /\ RefillOK' /\ ReadingOK' /\ CopyingOK'
  BY <1>2, <1>5, <1>8
     DEF HitOK, MissOK, FlushOK, RefillOK, ReadingOK, CopyingOK, Parked, inCache, contains
<1>12. BufferOK'
  <2>1. Remaining(missRequest)' = 1 /\ missRequest' # None /\ ~needsForwarding(missRequest)'
    BY <1>1, <1>3, <1>5 DEF Remaining, needsForwarding
  <2>2. \A k \in 1 .. 1 : k = 1
    OBVIOUS
  <2>. QED BY <1>3, <1>5, <1>8, <1>9, <2>1, <2>2 DEF BufferOK, needsForwarding
<1>13. ASSUME NEW side \in Sides
       PROVE  ~CopyOwns(side)' /\ (HitOwns(side)' <=> HitOwns(side))
  BY <1>5, <1>8 DEF CopyOwns, HitOwns, Parked, SideOf, IsL1
<1>14. ASSUME NEW side \in Sides PROVE InputOK(side)'
  <2>1. CASE side = SideOf(r)
    <3>1. ASSUME NEW n \in Nat, NEW l \in Nat, Due(side, n),
                 <<n, Queue(side)[1], l>> \in InputSteps(side)
          PROVE  Due(side, l)'
      <4>1. l = 0
        BY <1>1, <1>6, <1>7, <2>1, <3>1, InputStep DEF flit
      <4>. QED BY <1>6, <1>13, <2>1, <4>1 DEF Due
    <3>. QED BY <1>1, <1>6, <1>13, <2>1, <3>1, InputTaken DEF BInv
  <2>2. CASE side # SideOf(r)
    <3>1. Queue(side)' = Queue(side) /\ ~CopyOwns(side)
      BY <1>4, <2>2 DEF CopyOwns
    <3>2. \A n \in Nat : Due(side, n) => Due(side, n)'
      BY <1>5, <1>13, <3>1 DEF Due, Remaining
    <3>. QED BY <1>1, <1>13, <3>1, <3>2, InputKept DEF BInv
  <2>. QED BY <2>1, <2>2
<1>15. Wanted' = Wanted
  BY <1>5 DEF Wanted
<1>16. ResponsesOK'
  BY <1>1, <1>2, <1>5, <1>8, <1>15 DEF ResponsesOK, beyond, Silent, AsksOnce
<1>17. StoringOK'
  BY <1>1, <1>2, <1>5 DEF StoringOK, beyond
<1>. QED BY <1>10, <1>11, <1>12, <1>14, <1>16, <1>17 DEF BInv

-----------------------------------------------------------------------------
(* A flit leaves for the next level.                                       *)

(* What the first flit of the queue says of the line that is stored.       *)
LEMMA FlushStepOf ==
    ASSUME NEW n, NEW f, NEW l, <<n, f, l>> \in FlushSteps
    PROVE  /\ n \in Nat /\ l \in Nat /\ f \in OutFlit
           /\ f.kind = "STORE_LINE" => n = 0 /\ l = WordsPerLine
           /\ f.kind = "WORD" => n = l + 1 /\ (f.eop <=> l = 0)
           /\ f.kind \notin {"STORE_LINE", "WORD"} => n = 0 /\ l = 0
<1>1. f \in OutFlit /\ n \in Nat /\ l \in Nat
  BY DEF FlushSteps
<1>2. f.kind = "STORE_LINE" => n = 0 /\ l = WordsPerLine
  BY DEF FlushSteps
<1>3. f.kind = "WORD" => n = l + 1 /\ (f.eop <=> l = 0)
  BY DEF FlushSteps
<1>4. f.kind \notin {"STORE_LINE", "WORD"} => n = 0 /\ l = 0
  BY DEF FlushSteps
<1>. QED BY <1>1, <1>2, <1>3, <1>4

(* k words more are on the way.                                            *)
LEMMA Returned ==
    ASSUME NEW q \in Seq(Val), NEW k \in Nat, NEW words \in [1 .. k -> Val]
    PROVE  q \o words \in Seq(Val) /\ Len(q \o words) = Len(q) + k
<1>1. words \in Seq(Val)
  BY SeqDef
<1>2. Len(words) = k
  <2>1. DOMAIN words = 1 .. k /\ DOMAIN words = 1 .. Len(words) /\ Len(words) \in Nat
    BY <1>1, LenProperties
  <2>. QED BY <2>1
<1>. QED BY <1>1, <1>2, ConcatProperties

(* What was asked for is on its way.                                       *)
LEMMA ResponsesSent ==
    ASSUME BInv, outputReqQueue # <<>>, outputReqQueue' = Tail(outputReqQueue),
           NEW k \in Nat, k = Asks(outputReqQueue[1]),
           returning' \in Seq(Val), Len(returning') = Len(returning) + k,
           Wanted' = Wanted, UNCHANGED <<missRequest, inResponseQueue, copyingToMissBuffer>>
    PROVE  ResponsesOK'
<1>1. /\ ResponsesOK /\ outputReqQueue \in Seq(OutFlit) /\ returning \in Seq(Val)
      /\ inResponseQueue \in Seq(Val)
  BY DEF BInv, TypeOK
<1>2. Len(returning) \in Nat /\ Len(<<>>) = 0 /\ (returning = <<>> <=> Len(returning) = 0)
      /\ (returning' = <<>> <=> Len(returning') = 0)
  BY <1>1, Empties, EmptySeq
<1>3. CASE /\ Wanted > 0 /\ inResponseQueue = <<>> /\ returning = <<>>
           /\ AsksOnce(outputReqQueue, Wanted)
  <2>1. \/ k = Wanted /\ Silent(Tail(outputReqQueue))
        \/ k = 0 /\ AsksOnce(Tail(outputReqQueue), Wanted)
    BY <1>1, <1>3, TailAsks
  <2>2. CASE k = Wanted /\ Silent(Tail(outputReqQueue))
    <3>1. Len(returning') = k /\ k > 0 /\ Len(inResponseQueue') = 0 /\ returning' # <<>>
      BY <1>2, <1>3, <2>2
    <3>2. Len(inResponseQueue') + Len(returning') = Wanted'
      BY <2>2, <3>1
    <3>. QED BY <1>1, <2>2, <3>1, <3>2 DEF ResponsesOK, Silent
  <2>3. CASE k = 0 /\ AsksOnce(Tail(outputReqQueue), Wanted)
    <3>1. returning' = <<>>
      BY <1>2, <1>3, <2>3
    <3>. QED BY <1>1, <1>3, <2>3, <3>1 DEF ResponsesOK, AsksOnce
  <2>. QED BY <2>1, <2>2, <2>3
<1>4. CASE /\ Silent(outputReqQueue)
           /\ Len(inResponseQueue) + Len(returning) = Wanted
           /\ copyingToMissBuffer => returning # <<>>
  <2>1. k = 0 /\ Silent(Tail(outputReqQueue))
    BY <1>1, <1>4, TailAsks
  <2>2. Len(returning') = Len(returning)
    BY <1>2, <2>1
  <2>3. Len(inResponseQueue') + Len(returning') = Wanted'
    BY <1>4, <2>2
  <2>4. copyingToMissBuffer' => returning' # <<>>
    BY <1>2, <1>4, <2>2
  <2>. QED BY <1>1, <2>1, <2>3, <2>4 DEF ResponsesOK, Silent
<1>. QED BY <1>1, <1>3, <1>4 DEF ResponsesOK

(* A flit leaves for the next level, which answers what it is asked.        *)
LEMMA SendRequestKeeps ==
    ASSUME BInv, SendRequest
    PROVE  BInv'
<1> DEFINE f == outputReqQueue[1]
           n == IF storing = None THEN 0 ELSE WordsPerLine - storing.off
           m == IF state = "FLUSH" THEN WordsPerLine - cacheLineCursor ELSE 0
<1>1. outputReqQueue # <<>> /\ outputReqQueue \in Seq(OutFlit)
      /\ Len(outputReqQueue) <= requestQueueSize /\ requestQueueSize \in Nat
  BY LineAssumption DEF SendRequest, BInv, TypeOK, requestQueueSize
<1>2. /\ Head(outputReqQueue) = f /\ f \in OutFlit
      /\ Tail(outputReqQueue) \in Seq(OutFlit) /\ Len(Tail(outputReqQueue)) <= requestQueueSize
  <2>1. /\ Head(outputReqQueue) = f /\ f \in OutFlit
        /\ Tail(outputReqQueue) \in Seq(OutFlit)
        /\ Len(Tail(outputReqQueue)) = Len(outputReqQueue) - 1 /\ Len(outputReqQueue) \in Nat
    BY <1>1, Taken
  <2>. QED BY <1>1, <2>1
<1>3. /\ f.kind \in {"FETCH_LINE", "STORE_LINE", "WORD", "FORWARD", "FORWARDED_WORD"}
      /\ f.kind \in {"FETCH_LINE", "STORE_LINE", "WORD"} => f.tag \in Tag
      /\ f.kind = "WORD" => f.val \in Val /\ f.eop \in BOOLEAN
      /\ f.kind = "FORWARD" => f.req \in Operation
  BY <1>2, OutFlits
<1>4. /\ outputReqQueue' = Tail(outputReqQueue)
      /\ UNCHANGED <<control, sram, cacheLineCursor, flushAddress, buffer, inputs,
                     inResponseQueue, output, sending, workload>>
      /\ pendingFlushes' \in {pendingFlushes, pendingFlushes \ {f.tag}, pendingFlushes \ {f.req.tag}}
  <2>1. /\ outputReqQueue' = Tail(outputReqQueue)
        /\ UNCHANGED <<control, sram, cacheLineCursor, flushAddress, buffer, inputs,
                       inResponseQueue, output, sending, workload>>
        /\ pendingFlushes' =
             CASE f.kind = "STORE_LINE" -> pendingFlushes \ {f.tag}
               [] f.kind = "FORWARD" /\ f.req.op = "STORE_LINE" -> pendingFlushes \ {f.req.tag}
               [] OTHER -> pendingFlushes
    BY <1>2 DEF SendRequest
  <2>. QED BY <2>1
<1>5. \/ /\ f.kind = "FETCH_LINE"
         /\ returning' = returning \o [i \in 1 .. WordsPerLine |-> nextLevel[f.tag][i - 1]]
         /\ UNCHANGED <<nextLevel, storing>>
      \/ /\ f.kind = "STORE_LINE"
         /\ storing' = [tag |-> f.tag, off |-> 0] /\ UNCHANGED <<nextLevel, returning>>
      \/ /\ f.kind = "WORD"
         /\ nextLevel' = [nextLevel EXCEPT ![storing.tag][storing.off] = f.val]
         /\ storing' = IF f.eop THEN None ELSE [storing EXCEPT !.off = @ + 1]
         /\ UNCHANGED returning
      \/ /\ f.kind = "FORWARD" /\ UNCHANGED <<nextLevel, storing>>
         /\ \E v \in Val : returning' = returning \o [i \in 1 .. Results(f.req) |-> v]
      \/ f.kind = "FORWARDED_WORD" /\ UNCHANGED beyond
  BY <1>2, <1>3 DEF SendRequest, Results
<1> HIDE DEF f
<1>6. PICK l \in Nat : <<n, f, l>> \in FlushSteps /\ Stream(FlushSteps, Tail(outputReqQueue), l, m)
  <2>1. Stream(FlushSteps, outputReqQueue, n, m)
    BY DEF BInv, StoringOK
  <2> HIDE DEF n, m
  <2>. QED BY <1>1, <2>1, StreamTail DEF f
<1>7. /\ f.kind = "STORE_LINE" => n = 0 /\ l = WordsPerLine
      /\ f.kind = "WORD" => n = l + 1 /\ (f.eop <=> l = 0)
      /\ f.kind \notin {"STORE_LINE", "WORD"} => n = 0 /\ l = 0
  BY <1>6, FlushStepOf
<1>8. /\ storing \in [tag : Tag, off : Off] \cup {None} /\ nextLevel \in [Tag -> [Off -> Val]]
      /\ returning \in Seq(Val) /\ pendingFlushes \in SUBSET Tag
      /\ WordsPerLine \in Nat \ {0}
  BY LineAssumption DEF BInv, TypeOK
<1>9. storing # None => storing.off \in 0 .. WordsPerLine - 1 /\ n = WordsPerLine - storing.off
  BY <1>8 DEF Off
<1>10. /\ storing' \in [tag : Tag, off : Off] \cup {None} /\ nextLevel' \in [Tag -> [Off -> Val]]
       /\ l = IF storing' = None THEN 0 ELSE WordsPerLine - storing'.off
  <2>1. CASE f.kind = "STORE_LINE"
    <3>1. storing' = [tag |-> f.tag, off |-> 0] /\ nextLevel' = nextLevel /\ 0 \in Off
      BY <1>5, <1>8, <2>1 DEF Off
    <3>2. storing' \in [tag : Tag, off : Off] /\ storing' # None
      BY <1>3, <2>1, <3>1, NoneAssumption
    <3>. QED BY <1>7, <1>8, <2>1, <3>1, <3>2
  <2>2. CASE f.kind = "WORD"
    <3>1. storing # None /\ n = l + 1
      BY <1>6, <1>7, <2>2
    <3>2. storing.tag \in Tag /\ storing.off \in Off /\ storing \in [tag : Tag, off : Off]
      BY <1>8, <3>1
    <3>3. nextLevel' = [nextLevel EXCEPT ![storing.tag] =
                           [nextLevel[storing.tag] EXCEPT ![storing.off] = f.val]]
      BY <1>5, <2>2
    <3>4. [nextLevel[storing.tag] EXCEPT ![storing.off] = f.val] \in [Off -> Val]
      BY <1>3, <1>8, <2>2, <3>2
    <3>5. nextLevel' \in [Tag -> [Off -> Val]]
      BY <1>8, <3>2, <3>3, <3>4
    <3>6. CASE f.eop
      BY <1>5, <1>7, <2>2, <3>5, <3>6
    <3>7. CASE ~f.eop
      <4>1. storing' = [storing EXCEPT !.off = storing.off + 1] /\ l # 0
        BY <1>5, <1>7, <2>2, <3>7
      <4>2. storing.off + 1 \in Off /\ l = WordsPerLine - (storing.off + 1)
        BY <1>6, <1>8, <1>9, <3>1, <3>2, <4>1 DEF Off
      <4>3. storing' \in [tag : Tag, off : Off] /\ storing' # None
            /\ storing'.off = storing.off + 1
        BY <3>2, <4>1, <4>2, NoneAssumption
      <4>. QED BY <3>5, <4>2, <4>3
    <3>. QED BY <3>6, <3>7
  <2>3. CASE f.kind \notin {"STORE_LINE", "WORD"}
    <3>1. storing' = storing /\ nextLevel' = nextLevel /\ l = 0 /\ n = 0
      BY <1>5, <1>7, <2>3 DEF beyond
    <3>2. storing = None
      BY <1>8, <1>9, <3>1
    <3>. QED BY <1>8, <3>1, <3>2
  <2>. QED BY <2>1, <2>2, <2>3
<1>11. returning' \in Seq(Val) /\ Len(returning') = Len(returning) + Asks(f) /\ Asks(f) \in Nat
  <2>1. CASE f.kind = "FETCH_LINE"
    <3> DEFINE words == [i \in 1 .. WordsPerLine |-> nextLevel[f.tag][i - 1]]
    <3>1. words \in [1 .. WordsPerLine -> Val]
      <4>1. \A i \in 1 .. WordsPerLine : i - 1 \in Off
        BY <1>8 DEF Off
      <4>2. nextLevel[f.tag] \in [Off -> Val]
        BY <1>3, <1>8, <2>1
      <4>. QED BY <4>1, <4>2
    <3>2. returning' = returning \o words /\ Asks(f) = WordsPerLine
      BY <1>5, <2>1 DEF Asks
    <3> HIDE DEF words
    <3>. QED BY <1>8, <3>1, <3>2, Returned
  <2>2. CASE f.kind = "FORWARD"
    <3>1. PICK v \in Val : returning' = returning \o [i \in 1 .. Results(f.req) |-> v]
      BY <1>5, <2>2
    <3>2. Asks(f) = Results(f.req) /\ f.req \in Operation
      BY <1>3, <2>2 DEF Asks
    <3>3. Asks(f) \in Nat
      <4>1. Asks(f) \in Int
        <5>1. totalIterations(f.req) \in Nat /\ f.req.done \in Nat
          BY <3>2, Totals, Fields
        <5>. QED BY <3>2, <5>1 DEF Results, resultFlitsRemaining
      <4>2. Asks(f) = 0 \/ (Asks(f) = Wanted /\ Wanted > 0)
        BY <1>1, TailAsks DEF BInv, ResponsesOK, f
      <4>. QED BY <4>1, <4>2
    <3> DEFINE words == [i \in 1 .. Results(f.req) |-> v]
    <3>4. words \in [1 .. Results(f.req) -> Val]
      OBVIOUS
    <3> HIDE DEF words
    <3>. QED BY <1>8, <3>1, <3>2, <3>3, <3>4, Returned DEF words
  <2>3. CASE f.kind \notin {"FETCH_LINE", "FORWARD"}
    <3>1. returning' = returning /\ Asks(f) = 0
      BY <1>5, <2>3 DEF beyond, Asks
    <3>2. Len(returning) \in Nat
      BY <1>8, LenProperties
    <3>. QED BY <1>8, <3>1, <3>2
  <2>. QED BY <2>1, <2>2, <2>3
<1> HIDE DEF n
<1>12. /\ UNCHANGED <<control, metadata, cacheLineCursor, flushAddress, buffer>>
  BY <1>4 DEF sram
<1>13. /\ HitOK' /\ MissOK' /\ FlushOK' /\ RefillOK' /\ ReadingOK' /\ CopyingOK' /\ BufferOK'
       /\ Wanted' = Wanted
  BY <1>12, RequestsFrame DEF BInv
<1>14. \A side \in Sides : InputOK(side)'
  BY <1>4, InputFrame DEF BInv, Queue, inputs
<1>15. StoringOK'
  <2>1. m = IF state' = "FLUSH" THEN WordsPerLine - cacheLineCursor' ELSE 0
    BY <1>4 DEF control
  <2>. QED BY <1>4, <1>6, <1>10, <2>1 DEF StoringOK
<1>16. ResponsesOK'
  BY <1>1, <1>4, <1>11, <1>13, ResponsesSent DEF f, control, buffer
<1>17. TypeOK'
  <2>1. pendingFlushes' \in SUBSET Tag
    BY <1>4, <1>8
  <2>. QED BY <1>2, <1>4, <1>10, <1>11, <2>1
           DEF BInv, TypeOK, control, sram, buffer, inputs
<1>. QED BY <1>13, <1>14, <1>15, <1>16, <1>17 DEF BInv

-----------------------------------------------------------------------------
(* The theorem.                                                            *)

(* The invariant holds when the bank has been reset.                        *)
LEMMA InitHolds ==
    ASSUME Init
    PROVE  BInv
<1>1. /\ state = "IDLE" /\ previousState = "IDLE"
      /\ hitRequest = None /\ missRequest = None
      /\ metadata = [l \in Line |-> [tag |-> ZeroTag, valid |-> FALSE, dirty |-> FALSE]]
      /\ data = [l \in Line |-> [o \in Off |-> 0]]
      /\ cacheLineCursor = 0 /\ flushAddress = None /\ pendingFlushes = {}
      /\ missBuffer = <<>>
      /\ copyingToMissBuffer = FALSE /\ readingFromMissBuffer = FALSE
      /\ reservations = None
      /\ inputQueue = <<>> /\ requestSig = <<>>
      /\ inResponseQueue = <<>> /\ outputReqQueue = <<>>
      /\ output = [q \in OutQueue |-> <<>>]
      /\ sending = [core |-> <<>>, remote |-> <<>>]
      /\ \E requests \in Workloads : workload = [requests |-> requests, sent |-> 0]
      /\ nextLevel = InitialMem /\ storing = None /\ returning = <<>>
  BY DEF Init
<1>2. /\ ZeroTag \in Tag /\ 0 \in Val /\ InitialMem \in [Tag -> [Off -> Val]]
      /\ InputSize \in Nat /\ OutputSize \in Nat /\ MaxRequests \in Nat
      /\ WordsPerLine \in Nat /\ requestQueueSize \in Nat
  BY BankAssumption, ValAssumption, LineAssumption DEF requestQueueSize
<1>3. Len(<<>>) = 0 /\ \A S : <<>> \in Seq(S)
  BY EmptySeq
<1>4. TypeOK
  <2>1. cacheLineCursor \in 0 .. WordsPerLine
        /\ metadata \in [Line -> [tag : Tag, valid : BOOLEAN, dirty : BOOLEAN]]
        /\ data \in [Line -> [Off -> Val]]
    BY <1>1, <1>2
  <2>2. /\ missBuffer \in Seq(InFlit) /\ Len(missBuffer) <= WordsPerLine
        /\ inputQueue \in Seq(InFlit) /\ Len(inputQueue) <= InputSize
        /\ requestSig \in Seq(InFlit) /\ Len(requestSig) <= 1
        /\ inResponseQueue \in Seq(Val) /\ Len(inResponseQueue) <= InputSize
        /\ outputReqQueue \in Seq(OutFlit) /\ Len(outputReqQueue) <= requestQueueSize
        /\ returning \in Seq(Val)
    BY <1>1, <1>2, <1>3
  <2>3. output \in [OutQueue -> Seq([dest : Dest, val : Val])]
        /\ \A q \in OutQueue : Len(output[q]) <= OutputSize
    BY <1>1, <1>2, <1>3
  <2>4. sending \in [core : Seq(Val), remote : Seq(Val)]
    BY <1>1, <1>3
  <2>5. workload \in [requests : Workloads, sent : 0 .. MaxRequests]
    BY <1>1, <1>2
  <2>. QED BY <1>1, <1>2, <2>1, <2>2, <2>3, <2>4, <2>5 DEF TypeOK, States
<1>5. /\ HitOK /\ MissOK /\ FlushOK /\ RefillOK /\ ReadingOK /\ CopyingOK
  BY <1>1 DEF HitOK, MissOK, FlushOK, RefillOK, ReadingOK, CopyingOK
<1>6. BufferOK
  BY <1>1, <1>3 DEF BufferOK
<1>7. ASSUME NEW side \in Sides PROVE InputOK(side)
  <2>1. Queue(side) = <<>> /\ Len(sending[side]) = 0
    BY <1>1, <1>3 DEF Sides, Queue
  <2>2. ~CopyOwns(side) /\ ~HitOwns(side)
    BY <1>1 DEF CopyOwns, HitOwns
  <2>3. Stream(InputSteps(side), Queue(side), 0, Len(sending[side])) /\ Due(side, 0)
    BY <2>1, <2>2, StreamEmpty DEF Due
  <2>. QED BY <2>2, <2>3 DEF InputOK
<1>8. ResponsesOK
  BY <1>1, <1>3 DEF ResponsesOK, Wanted, Silent
<1>9. StoringOK
  BY <1>1, StreamEmpty DEF StoringOK
<1>. QED BY <1>4, <1>5, <1>6, <1>7, <1>8, <1>9 DEF BInv

(***************************************************************************)
(* BInv is inductive, as long as nothing invalidates the line of a request *)
(* that waits for it.                                                      *)
(***************************************************************************)
LEMMA StepKeeps ==
    ASSUME BInv, LineStaysUnderMiss, hitUnderMiss, ~LatePayload, [Next]_vars
    PROVE  BInv'
<1>1. CASE mainLoop
  BY <1>1, StartRefillKeeps, StartRequestKeeps, RetireRequestKeeps, ForwardRequestKeeps,
     PrepareLineKeeps, PrepareFetchKeeps, ExecuteLoadKeeps, ExecuteStoreKeeps,
     ExecuteMemsetKeeps, ExecuteFirstPhaseKeeps, ExecuteSecondPhaseKeeps, ExecuteFlushKeeps,
     ExecuteInvalidateKeeps, AllocateKeeps, AllocatedKeeps, FlushKeeps, RefillKeeps,
     ForwardResultKeeps, ForwardPayloadKeeps
     DEF mainLoop
<1>2. CASE CopyToMissBuffer \/ SendRequest
  BY <1>2, CopyToMissBufferKeeps, SendRequestKeeps
<1>3. CASE Surroundings
  BY <1>3, SendHeadKeeps, SendPayloadKeeps, ReceiveResponseKeeps, TakeResultKeeps
     DEF Surroundings
<1>4. CASE UNCHANGED vars
  <2>1. UNCHANGED <<control, sram, flushing, buffer, inputs, inResponseQueue,
                    outputReqQueue, output, sending, workload, beyond>>
    BY <1>4 DEF vars
  <2>2. TypeOK'
    BY <2>1 DEF BInv, TypeOK, control, sram, flushing, buffer, inputs, beyond
  <2>3. InputOK("core")' /\ InputOK("remote")'
    BY <2>1, InputFrame DEF BInv, Sides, Queue, inputs
  <2>4. ResponsesOK'
    BY <2>1, ResponsesFrame DEF BInv, control, flushing, buffer, beyond
  <2>. QED BY <2>1, <2>2, <2>3, <2>4, SurroundingsKeep DEF beyond
<1>. QED BY <1>1, <1>2, <1>3, <1>4 DEF Next

(* ... and implies what the processes rely on.                             *)
LEMMA InvHolds ==
    ASSUME BInv, LineStaysUnderMiss
    PROVE  AssertionsHold
<1>1. TypeOK /\ HitOK /\ MissOK /\ RefillOK /\ ReadingOK /\ CopyingOK /\ BufferOK /\ ResponsesOK
  BY DEF BInv
<1>2. (state = "IDLE" /\ responseAvailable) \/ state = "REFILL" => missRequest # None
  BY <1>1 DEF RefillOK, ResponsesOK, responseAvailable
<1>3. ParksInEmptySlot
  <2>1. ASSUME missRequest # None PROVE ~(state = "ALLOCATE" /\ ~inCache(hitRequest))
    BY <1>1, <2>1 DEF HitOK, MissOK, Parked, inCache
  <2>2. ASSUME missRequest # None, state = "REQUEST", needsForwarding(hitRequest)
        PROVE  awaitingPayload(hitRequest)
    <3>1. /\ hitRequest # None /\ RequestOK(hitRequest) /\ Untouched(hitRequest)
          /\ hitRequest.op \notin {"FLUSH_LINE", "FLUSH_ALL_LINES"}
          /\ ~resultsToSend(hitRequest)
      BY <1>1, <2>2 DEF HitOK, MissOK, Parked
    <3>2. hitRequest.op # "INVALIDATE_ALL_LINES" /\ (hitRequest.skip => hitRequest.op \notin LineOps)
      BY <2>2, <3>1 DEF LineStaysUnderMiss
    <3>3. hitRequest \in Operation /\ hitRequest.op \in Opcode /\ hitRequest.done = 0
          /\ hitRequest.saved = None /\ totalIterations(hitRequest) \in Nat \ {0}
      BY <3>1, Fields, Totals DEF RequestOK, Untouched
    <3>4. CASE hitRequest.op \in Loads \cup {"PREFETCH_LINE"} \cup Atomics \cup {"STORE_CONDITIONAL"}
      BY <3>1, <3>3, <3>4 DEF resultsToSend, resultFlitsRemaining
    <3>5. CASE hitRequest.op \in Stores \cup Directory
      BY <3>3, <3>5 DEF awaitingPayload, payloadFlitsRemaining
    <3>6. CASE hitRequest.op \in LineOps \cup AllLines
      <4>1. hitRequest.op \in LineOps
        BY <3>1, <3>2, <3>6 DEF AllLines
      <4>. QED BY <2>2, <3>2, <4>1 DEF needsForwarding, LineOps, Directory
    <3>. QED BY <3>3, <3>4, <3>5, <3>6 DEF Opcode
  <2>3. ASSUME missRequest # None, state = "FORWARD" PROVE ~resultsToSend(hitRequest)
    BY <1>1, <2>3 DEF HitOK, MissOK, Parked
  <2>. QED BY <2>1, <2>2, <2>3 DEF ParksInEmptySlot
<1>4. CopyHasRequest
  BY <1>1 DEF CopyingOK, CopyHasRequest
<1>5. CopiesPayload
  <2>. SUFFICES ASSUME copyingToMissBuffer
                PROVE  /\ Input(missRequest) # <<>> => ~Input(missRequest)[1].head
                       /\ Len(missBuffer) < WordsPerLine
    BY DEF CopiesPayload
  <2>1. Len(missBuffer) = 0
    BY <1>1 DEF BufferOK, CopyingOK, ReadingOK
  <2>2. PICK side \in Sides : CopyOwns(side) /\ Input(missRequest) = Queue(side)
    BY DEF CopyOwns, SideOf, Sides, Input, Queue
  <2>3. ASSUME Input(missRequest) # <<>> PROVE ~Input(missRequest)[1].head
    <3>1. Queue(side) \in Seq(InFlit) /\ Queue(side) # <<>>
      BY <1>1, <2>2, <2>3, InputTypes
    <3>2. PICK n \in Nat : /\ Stream(InputSteps(side), Queue(side), n, Len(sending[side]))
                           /\ Due(side, n)
      BY DEF BInv, InputOK
    <3>3. PICK l \in Nat : <<n, Queue(side)[1], l>> \in InputSteps(side)
      BY <3>1, <3>2, StreamTail
    <3>. QED BY <2>2, <3>2, <3>3, InputStep DEF Due
  <2>. QED BY <2>1, <2>3, LineAssumption
<1>. QED BY <1>1, <1>2, <1>3, <1>4, <1>5 DEF AssertionsHold

(***************************************************************************)
(* What mainLoop() and copyToMissBuffer() rely on is there whenever they   *)
(* run: a response has a request to go to, a request is put aside only     *)
(* when no other is waiting, and a payload that is copied into the miss    *)
(* buffer is the waiting request's own and fits (the loki_asserts and      *)
(* dereferences of MemoryBank.cpp).                                        *)
(***************************************************************************)
THEOREM AssertionsNeverFail ==
    ASSUME hitUnderMiss, ~LatePayload
    PROVE  Spec /\ []LineStaysUnderMiss => []AssertionsHold
<1>1. Init => BInv
  BY InitHolds
<1>2. BInv /\ LineStaysUnderMiss /\ [Next]_vars => BInv'
  BY StepKeeps
<1>3. BInv /\ LineStaysUnderMiss => AssertionsHold
  BY InvHolds
<1>. QED BY <1>1, <1>2, <1>3, PTL DEF Spec
=============================================================================
