------------------------------ MODULE Statistics ------------------------------
(***************************************************************************)
(* What the simulator counts while it collects statistics                  *)
(* (Utility/Instrumentation): the times between the events of a memory     *)
(* request (Latency), the accesses of the memory banks (L1Cache) and the   *)
(* instructions (Operations).                                              *)
(*                                                                         *)
(* All of it is one record.  A CounterMap is a bag of what has been        *)
(* counted: numEvents is its cardinality.                                  *)
(***************************************************************************)
EXTENDS ISA, BagsExt

increment(counters, event) == BagAdd(counters, event)
getCount(counters, event) == CopiesIn(event, counters)
numEvents(counters) == BagCardinality(counters)
-----------------------------------------------------------------------------
(* Latency: a timer per event, by number of the message or, once a bank has *)
(* begun, of the operation; and durations, a pair of their sum and their   *)
(* number for each component.                                              *)

Timers == {"coreBufferedReq", "coreSentReq", "memoryReceivedReq", "memoryStartedReq",
           "memoryBufferedResp", "memorySentResp", "coreReceivedResp"}
Durations ==
  {"coreOutBufferTime", "networkToL1Time", "l1InBufferTime", "l1HitLatency", "l1MissPenalty",
   "l1OutBufferTime", "l2HitLatency", "l2MissPenalty", "l2OutBufferTime", "networkToCoreTime"}
NoTimers == [t \in Timers |-> <<>>]
NoDurations == [d \in Durations |-> <<>>]

addDuration(map, component, duration) ==
  LET total == IF component \in DOMAIN map THEN map[component] ELSE <<0, 0>>
  IN  (component :> <<duration + total[1], 1 + total[2]>>) @@ map

Happens(s, timer, key, time) == [s EXCEPT !.timers[timer] = (key :> time) @@ @]

(* The event that ends a duration, if the one that began it is known.      *)
Elapses(s, timer, key, duration, component) ==
  IF key \notin DOMAIN s.timers[timer] THEN s
  ELSE [s EXCEPT !.timers[timer] = Restrict(@, DOMAIN @ \ {key}),
                 !.durations[duration] =
                    addDuration(@, component, s.now - s.timers[timer][key])]

(* Data is buffered a cycle before the pipeline would have had it.         *)
coreBufferedMemoryRequest(s, e) == Happens(s, "coreBufferedReq", e.message, s.now + 1)
coreSentMemoryRequest(s, e) ==
  Elapses(Happens(s, "coreSentReq", e.message, s.now),
          "coreBufferedReq", e.message, "coreOutBufferTime", e.at)
memoryReceivedRequest(s, e) ==
  Elapses(Happens(s, "memoryReceivedReq", e.message, s.now),
          "coreSentReq", e.message, "networkToL1Time", e.at)
memoryStartedRequest(s, e) ==
  Elapses(Happens(s, "memoryStartedReq", e.operation, s.now),
          "memoryReceivedReq", e.message, "l1InBufferTime", e.at)

memoryBufferedResult(s, e) ==
  Elapses(Happens(s, "memoryBufferedResp", e.message, s.now),
          "memoryStartedReq", e.operation,
          IF e.l1 THEN IF e.hit THEN "l1HitLatency" ELSE "l1MissPenalty"
          ELSE IF e.hit THEN "l2HitLatency" ELSE "l2MissPenalty", e.at)
memorySentResult(s, e) ==
  Elapses(Happens(s, "memorySentResp", e.message, s.now),
          "memoryBufferedResp", e.message,
          IF e.l1 THEN "l1OutBufferTime" ELSE "l2OutBufferTime", e.at)
coreReceivedResult(s, e) ==
  Elapses(Happens(s, "coreReceivedResp", e.message, s.now),
          "memorySentResp", e.message, "networkToCoreTime", e.at)

(* The sum and the number an average is taken of.                          *)
averageDuration(map) ==
  <<MapThenSumSet(LAMBDA c : map[c][1], DOMAIN map), MapThenSumSet(LAMBDA c : map[c][2], DOMAIN map)>>

(* The table of banks has a line for each that has served a request, and   *)
(* asks for the time requests waited there: a bank without one ends the    *)
(* program.                                                                *)
BanksListed(s) ==
  UNION {DOMAIN s.durations[d] : d \in {"l1HitLatency", "l1MissPenalty", "l2HitLatency", "l2MissPenalty"}}
TableFails(s) == ~(BanksListed(s) \subseteq DOMAIN s.durations.l1InBufferTime)
-----------------------------------------------------------------------------
(* L1Cache: hits and misses by operation, over all banks.  The table of the *)
(* cores' channels is left out: reset() leaves it without an entry.        *)

SingleAccess ==
  {"LOAD_W", "LOAD_LINKED", "LOAD_HW", "LOAD_B", "STORE_W", "STORE_CONDITIONAL", "STORE_HW",
   "STORE_B", "LOAD_AND_ADD", "LOAD_AND_OR", "LOAD_AND_AND", "LOAD_AND_XOR", "EXCHANGE",
   "UPDATE_DIRECTORY_ENTRY", "UPDATE_DIRECTORY_MASK"}
BurstReads == {"FETCH_LINE", "FLUSH_LINE"}
BurstWrites == {"STORE_LINE", "MEMSET_LINE", "PUSH_LINE"}

Accessed(s, op, miss) ==
  IF miss THEN [s EXCEPT !.misses = increment(@, op)] ELSE [s EXCEPT !.hits = increment(@, op)]

startOperation(s, op, miss) ==
  CASE op \in SingleAccess -> Accessed(s, op, miss)
    [] op \in BurstReads -> [s EXCEPT !.bursts = increment(@, "read")]
    [] op = "IPK_READ" -> [s EXCEPT !.bursts = increment(@, "ipk")]
    [] op \in BurstWrites -> [s EXCEPT !.bursts = increment(@, "write")]
    [] OTHER -> s
continueOperation(s, op, miss) ==
  IF op \in BurstReads \cup BurstWrites \cup {"IPK_READ"} THEN Accessed(s, op, miss) ELSE s
checkTags(s) == [s EXCEPT !.tagChecks = @ + 1]
replaceCacheLine(s, isValid, isDirty) ==
  [s EXCEPT !.replaced = increment(@, IF ~isValid THEN "invalid" ELSE IF isDirty THEN "dirty" ELSE "clean")]

Hits(s, ops) == MapThenSumSet(LAMBDA op : getCount(s.hits, op), ops)
All(s, ops) == Hits(s, ops) + MapThenSumSet(LAMBDA op : getCount(s.misses, op), ops)

Atomic == {"LOAD_AND_ADD", "LOAD_AND_OR", "LOAD_AND_AND", "LOAD_AND_XOR", "EXCHANGE"}
totalWordReads(s) == All(s, {"LOAD_W", "LOAD_LINKED"})
totalHalfwordReads(s) == All(s, {"LOAD_HW"})
totalByteReads(s) == All(s, {"LOAD_B"})
totalBurstReads(s) == All(s, {"FETCH_LINE", "IPK_READ", "FLUSH_LINE"})
totalWordWrites(s) == All(s, {"STORE_W", "STORE_CONDITIONAL"} \cup Atomic)
totalHalfwordWrites(s) == All(s, {"STORE_HW"})
totalByteWrites(s) == All(s, {"STORE_B"})
totalBurstWrites(s) == All(s, {"STORE_LINE", "MEMSET_LINE", "PUSH_LINE"})
totalReads(s) == totalWordReads(s) + totalHalfwordReads(s) + totalByteReads(s) + totalBurstReads(s)
totalWrites(s) == totalWordWrites(s) + totalHalfwordWrites(s) + totalByteWrites(s) + totalBurstWrites(s)
totalLineReplacements(s) == numEvents(s.replaced)

(* The cache's part of the summary: hits and accesses.  An atomic operation *)
(* is a read and a write, and one access of the total.                     *)
CacheSummary(s) ==
  LET Loads == {"LOAD_B", "LOAD_HW", "LOAD_W", "LOAD_LINKED"}
      Stores == {"STORE_B", "STORE_HW", "STORE_W", "STORE_CONDITIONAL"}
      dataReads == <<Hits(s, Atomic) + Hits(s, Loads), All(s, Atomic) + All(s, Loads)>>
      dataWrites == <<Hits(s, Atomic) + Hits(s, Stores), All(s, Atomic) + All(s, Stores)>>
      instructions == <<Hits(s, {"IPK_READ"}), All(s, {"IPK_READ"})>>
  IN  [instructions |-> instructions, dataReads |-> dataReads, dataWrites |-> dataWrites,
       total |-> <<instructions[1] + dataReads[1] + dataWrites[1] - Hits(s, Atomic),
                   instructions[2] + dataReads[2] + dataWrites[2] - All(s, Atomic)>>]
-----------------------------------------------------------------------------
(* Operations: instructions by kind, and with the energy trace by          *)
(* operation, for one core.                                                *)

FN_OR == 2
FN_SETEQ == 4
FN_SETGTEU == 9
ArithmeticOps == {2, 3, 6, 7, 10, 11, 14, 15, 42, 46, 47, 50, 54, 55, 8, 12, 16}
ConditionalOps == {18, 19, 22, 23, 26, 27, 30, 31, 34, 35, 38, 39, 4, OP_PSEL_FETCH, OP_PSEL_FETCHR}

(* Operations that the execute stage completes; the decode stage does the  *)
(* others.                                                                 *)
isExecuteStageOperation(op) ==
  op \in isALUOperation \cup {73, 76, 78, 80, 82, 95, 99, 105, 106, 109, 110}

hammingDistance(a, b) == Cardinality({k \in 0..3 : (a \div 2^k) % 2 # (b \div 2^k) % 2})

decoded(s, i) == [s EXCEPT !.numDecodes = @ + 1]

(* What the kinds of an instruction are, from its fields.                  *)
Kinds(i) ==
  LET regs == {i.sourceReg1, i.sourceReg2}
      useful == i.function # FN_OR \/ i.sourceReg2 # 0
      sends == i.channelMapEntry \in 2..14
      One(kind, counted) == IF counted THEN SetToBag({kind}) ELSE EmptyBag
      arithmetic == i.opcode \in {0, 1} /\ i.function \notin FN_SETEQ..FN_SETGTEU
      conditional == i.opcode \in {0, 1} /\ i.function \in FN_SETEQ..FN_SETGTEU
  IN  One("memLoads", i.opcode \in LoadOps)
      (+) One("memLoads", 2 \in regs /\ ~useful)
      (+) One("memStores", i.opcode \in StoreOps)
      (+) One("mergedMemLoads", 2 \in regs /\ useful)
      (+) One("chanReads", regs \cap 3..7 # {})
      (+) One("mergedChanReads", regs \cap 3..7 # {} /\ useful)
      (+) One("chanWrites", sends)
      (+) One("mergedChanWrites", sends /\ (i.function # FN_OR \/ 2 \in regs))
      (+) One("arithOps", arithmetic \/ i.opcode \in ArithmeticOps)
      (+) One("condOps", conditional \/ i.opcode \in ConditionalOps)

(* Every call counts an operation, executed or not; the operations of the  *)
(* arithmetic unit are counted by function, the rest by opcode.  (The count *)
(* that tells progress, which goes on without collection, is in Simulation.)*)
executed(s, i, done) ==
  LET total == [s EXCEPT !.numOps = @ + 1]
      kinds == [total EXCEPT !.kinds = @ (+) Kinds(i)]
      named == IF i.opcode > 1 THEN [kinds EXCEPT !.executedOps = increment(@, i.opcode)]
               ELSE [kinds EXCEPT !.executedFns = increment(@, i.function)]
      values == <<i.operand1, i.operand2, i.result>>
  IN  CASE ~s.collecting -> s
        [] s.collecting /\ ~done -> [total EXCEPT !.unexecuted = @ + 1]
        [] s.collecting /\ done /\ ~s.energyTrace -> kinds
        [] OTHER ->
             IF ~isExecuteStageOperation(i.opcode) THEN named
             ELSE [named EXCEPT !.hd = [k \in 1..3 |-> @[k] + hammingDistance(values[k], s.last[k])],
                                !.sameOp = IF i.function = s.lastFn THEN @ + 1 ELSE @,
                                !.last = values, !.lastFn = i.function]

(* The decode stage's part, and the execute stage's, for which the second  *)
(* flit of a store is not an instruction.                                  *)
Decoded(s, i, execute) ==
  LET once == IF s.collecting THEN decoded(s, i) ELSE s
  IN  IF isExecuteStageOperation(i.opcode) THEN once ELSE executed(once, i, execute)
Completed(s, i, willExecute, isPayload) ==
  IF isExecuteStageOperation(i.opcode) /\ ~isPayload THEN executed(s, i, willExecute) ELSE s

(* The event counts an energy model is given.                              *)
EventCounts(s) ==
  LET Ops(ops) == MapThenSumSet(LAMBDA op : getCount(s.executedOps, op), ops)
      Fns(fns) == MapThenSumSet(LAMBDA f : getCount(s.executedFns, f), fns)
      multiplies == Ops({8, 12, 16})
  IN  [decodeCycles |-> s.numDecodes + Ops(StoreOps),
       totalOps |-> numEvents(s.executedOps) + numEvents(s.executedFns) - multiplies
                    - Ops({65, 69, 77, 97, 101, 103}),
       highEnergy |-> Fns({8, 13}) + Ops({34, 35, 54, 55}),
       multiplies |-> multiplies, highWord |-> Ops({8, 16}),
       operations |-> numEvents(s.executedOps) + numEvents(s.executedFns)]
-----------------------------------------------------------------------------
(* Collecting, all counters together.                                      *)

ResetLatency(s) == [s EXCEPT !.timers = NoTimers, !.durations = NoDurations]
StartLatency(s) == [s EXCEPT !.timers = NoTimers]
ResetCache(s) ==
  [s EXCEPT !.tagChecks = 0, !.hits = EmptyBag, !.misses = EmptyBag, !.bursts = EmptyBag,
            !.replaced = EmptyBag]
ResetOperations(s) ==
  [s EXCEPT !.numDecodes = 0, !.numOps = 0, !.unexecuted = 0, !.kinds = EmptyBag,
            !.executedOps = EmptyBag, !.executedFns = EmptyBag, !.hd = <<0, 0, 0>>, !.sameOp = 0,
            !.last = <<0, 0, 0>>, !.lastFn = 0]

NewStatistics(collecting, energyTrace) ==
  [collecting |-> collecting, energyTrace |-> energyTrace, now |-> 0,
   timers |-> NoTimers, durations |-> NoDurations,
   tagChecks |-> 0, hits |-> EmptyBag, misses |-> EmptyBag, bursts |-> EmptyBag,
   replaced |-> EmptyBag,
   numDecodes |-> 0, numOps |-> 0, unexecuted |-> 0, kinds |-> EmptyBag, executedOps |-> EmptyBag,
   executedFns |-> EmptyBag, hd |-> <<0, 0, 0>>, sameOp |-> 0, last |-> <<0, 0, 0>>, lastFn |-> 0]

startCollecting(s) == [StartLatency(s) EXCEPT !.collecting = TRUE]
stopCollecting(s) == [s EXCEPT !.collecting = FALSE]
resetStatistics(s) == ResetOperations(ResetCache(ResetLatency(s)))

(* What an event does to the statistics: nothing while none are collected. *)
Records(s, e) ==
  CASE e.call = "start" -> startCollecting(s)
    [] e.call = "stop" -> stopCollecting(s)
    [] e.call = "reset" -> resetStatistics(s)
    [] e.call = "decode" -> Decoded(s, e.instruction, e.execute)
    [] e.call = "complete" -> Completed(s, e.instruction, e.execute, e.isPayload)
    [] OTHER ->
         IF ~s.collecting THEN s
         ELSE CASE e.call = "coreBuffered" -> coreBufferedMemoryRequest(s, e)
                [] e.call = "coreSent" -> coreSentMemoryRequest(s, e)
                [] e.call = "memoryReceived" -> memoryReceivedRequest(s, e)
                [] e.call = "memoryStarted" -> memoryStartedRequest(s, e)
                [] e.call = "memoryBuffered" -> memoryBufferedResult(s, e)
                [] e.call = "memorySent" -> memorySentResult(s, e)
                [] e.call = "coreReceived" -> coreReceivedResult(s, e)
                [] e.call = "startOperation" -> startOperation(s, e.op, e.miss)
                [] e.call = "continueOperation" -> continueOperation(s, e.op, FALSE)
                [] e.call = "checkTags" -> checkTags(s)
                [] e.call = "replaceCacheLine" -> replaceCacheLine(s, e.valid, e.dirty)
=============================================================================
