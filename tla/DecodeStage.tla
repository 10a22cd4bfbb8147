----------------------------- MODULE DecodeStage -----------------------------
(* The decode stage of the pipeline, and what surrounds the core. The stage is *)
(* a thread that waits where it stands: for the predicate, for operands from   *)
(* the network or from the execute stage, for credits, for room. NXIPK may     *)
(* come while it does.                                                         *)
EXTENDS Pipeline

rest == <<fetching, r1, executing, r2, writing, regs, pred, map, channel, table, bounds, computed, sent>>

(* The thread's steps come after those of the write and the execute stage. *)
Decodes(at) == Running /\ phase = "run" /\ dAt = at /\ wAt # "new" /\ xAt # "new"

Available == arrived > taken
IsChannelEnd(reg) == reg = Channel
Arrives(reg) == IsChannelEnd(reg) => Available \/ instructionCancelled


(* Faulty variant: the result comes from the register file only. *)
NeedsNoForwarding(reg) == FALSE

NeedsForwarding(reg) == reg # 0 /\ ~IsChannelEnd(reg) /\ reg = x.dest

(* readReg(): the write stage's result is seen before it is stored. *)
ReadReg(reg, read) ==
    CASE reg = 0 -> 0
      [] IsChannelEnd(reg) -> FirstDatum + read
      [] reg # 0 /\ reg = w.dest -> w.result
      [] OTHER -> regs[reg]

(* stall(): where cancelInstruction() finds the decoder blocked. *)
WaitsForData ==
    \/ dAt = "src1" /\ ~Arrives(d.src1)
    \/ dAt = "src2" /\ ~Arrives(d.src2)

(* Faulty variant: any instruction in the stage is cancelled. *)
IsBusy == dAt # "idle"
(* Faulty variant: none is. *)
IsNeverBlocked == FALSE

(* The other waits that the decoder calls being blocked. *)
WaitsOtherwise ==
    \/ dAt \in {"woche", "reread"}
    \/ dAt = "fetch" /\ fetchFull

IsBlocked == WaitsForData \/ dAt = "forward" \/ WaitsOtherwise

GoTo(at) == dAt' = at /\ slept' = FALSE

(* newInput() ends: the instruction was issued, or not executed at all. *)
Issue(inst) ==
    /\ issued' = Append(issued, [i |-> inst.i, outcome |-> inst.outcome])
    /\ IF inst.persistent
       THEN d' = [inst EXCEPT !.looping = TRUE] /\ GoTo("again")
       ELSE d' = inst /\ GoTo("idle")

(***************************************************************************)
(* Whether to execute, and the operands                                    *)
(***************************************************************************)
(* shouldExecute(): what cannot be undone needs the predicate here. *)
NeedsPredicate(inst) ==
    /\ inst.pred # "always"
    /\ IsDecodeStageOperation(inst.op) \/ IsChannelEnd(inst.src1) \/ IsChannelEnd(inst.src2)

(* What the channel map says when the instruction is decoded, is what it uses. *)
ReadChannelMapTable(inst) == [inst EXCEPT !.map = map]

(* The instruction itself becomes the data to send, and does nothing else. *)
RemoteExecute(inst) ==
    [inst EXCEPT !.map = previousMap, !.hasResult = TRUE, !.result = inst.i, !.to = "core",
                 !.dest = 0, !.sets = FALSE, !.pred = "always", !.remote = TRUE]

(* newInput(): to another core, or on to the decoder. *)
Begin ==
    /\ Decodes("new")
    /\ LET inst == ReadChannelMapTable(d)
       IN  CASE remote ->
                  /\ d' = RemoteExecute(d)
                  /\ remote' = ~d.eop /\ GoTo("credits")
                  /\ UNCHANGED <<previousMap, issued>>
             [] ~remote /\ NeedsPredicate(d) /\ x.sets ->
                  /\ d' = inst /\ GoTo("pred")
                  /\ UNCHANGED <<remote, previousMap, issued>>
             [] ~remote /\ NeedsPredicate(d) /\ ~x.sets /\ ~Core!Passes(d.pred, pred) ->
                  /\ Issue(inst)
                  /\ UNCHANGED <<remote, previousMap>>
             [] OTHER ->
                  /\ d' = inst /\ GoTo("src1")
                  /\ UNCHANGED <<remote, previousMap, issued>>
    /\ UNCHANGED <<rest, instructionCancelled, entry, fetched, aborted, failed>>

(* readPredReg(): once around, at least. *)
Predicate ==
    /\ Decodes("pred") /\ slept
    /\ IF ~x.hasResult
       THEN GoTo("pred") /\ UNCHANGED <<d, issued>>
       ELSE IF Core!Passes(d.pred, pred)
            THEN GoTo("src1") /\ UNCHANGED <<d, issued>>
            ELSE Issue(d)
    /\ UNCHANGED <<rest, instructionCancelled, remote, previousMap, entry, fetched, aborted, failed>>

(* waitForOperands(): one after the other. *)
Operand1 ==
    /\ Decodes("src1") /\ Arrives(d.src1)
    /\ GoTo(IF IsDecodeStageOperation(d.op) /\ NeedsForwarding(d.src1) THEN "forward" ELSE "src2")
    /\ UNCHANGED <<rest, d, instructionCancelled, remote, previousMap, entry, issued, fetched, aborted, failed>>

Forward ==
    /\ Decodes("forward") /\ slept
    /\ GoTo("src2")
    /\ UNCHANGED <<rest, d, instructionCancelled, remote, previousMap, entry, issued, fetched, aborted, failed>>

(* A cancelled instruction that was to repeat begins to, but for the one that *)
(* does already.                                                               *)
Abort ==
    IF d.looping
    THEN GoTo("idle") /\ UNCHANGED <<d, aborted>>
    ELSE /\ GoTo(IF d.persistent THEN "again" ELSE "idle")
         /\ d' = [d EXCEPT !.looping = d.persistent]
         /\ aborted' = Append(aborted, d.i)

(* Faulty variant: the channels are read all the same. *)
Operand2Uncancelled ==
    /\ Decodes("src2") /\ Arrives(d.src2)
    /\ GoTo("op") /\ instructionCancelled' = FALSE
    /\ UNCHANGED <<rest, d, remote, previousMap, entry, issued, fetched, aborted, failed>>

Operand2 ==
    /\ Decodes("src2") /\ Arrives(d.src2)
    /\ IF instructionCancelled THEN Abort ELSE GoTo("op") /\ UNCHANGED <<d, aborted>>
    /\ instructionCancelled' = FALSE
    /\ UNCHANGED <<rest, remote, previousMap, entry, issued, fetched, failed>>

(***************************************************************************)
(* The operation                                                           *)
(***************************************************************************)
(* Repeated instructions read what is constant only once. *)
IsConstant(inst, reg) == inst.looping /\ reg # inst.dest /\ ~IsChannelEnd(reg)

WithOperands(inst) ==
    LET second == taken + (IF IsChannelEnd(inst.src1) THEN 1 ELSE 0)
    IN  [inst EXCEPT
            !.op1 = IF IsConstant(inst, inst.src1) THEN @ ELSE ReadReg(inst.src1, taken),
            !.by1 = IF IsConstant(inst, inst.src1) THEN @ ELSE NeedsForwarding(inst.src1),
            !.op2 = IF IsConstant(inst, inst.src2) THEN @ ELSE ReadReg(inst.src2, second),
            !.by2 = IF IsConstant(inst, inst.src2) THEN @ ELSE NeedsForwarding(inst.src2)]

SetOperands(inst) ==
    LET read == (IF IsChannelEnd(inst.src1) THEN 1 ELSE 0) + (IF IsChannelEnd(inst.src2) THEN 1 ELSE 0)
    IN  /\ d' = WithOperands(inst)
        /\ taken' = taken + read
        /\ Check("read of an empty channel", taken + read <= arrived)

untouched == <<fetching, r1, executing, r2, writing, regs, pred, map, arrived, table, bounds, computed, sent>>

(* decodeInstruction() is called once, also for an instruction that repeats. *)
Does(op) == Decodes("op") /\ ~d.looping /\ d.op = op

Fetches ==
    /\ Does("fetch")
    /\ SetOperands(d) /\ GoTo("fetch")
    /\ UNCHANGED <<untouched, instructionCancelled, remote, previousMap, entry, issued, fetched, aborted>>

Goes(inst) ==
    /\ SetOperands(inst)
    /\ GoTo(IF SendsOnNetwork(inst) /\ ~inst.looping THEN "credits" ELSE "next")
    /\ UNCHANGED <<untouched, instructionCancelled, remote, previousMap, entry, issued, fetched, aborted>>

GoesOn ==
    /\ Decodes("op") /\ (d.looping \/ ~IsDecodeStageOperation(d.op))
    /\ Goes(d)

TestChannel ==
    /\ Does("tstchi")
    /\ Goes([d EXCEPT !.hasResult = TRUE, !.result = d.i, !.outcome = Available])

(* selectChannelEnd(): it waits, and is not counted as blocked. *)
SelectChannel ==
    /\ Does("selch") /\ Available
    /\ Goes([d EXCEPT !.hasResult = TRUE, !.result = d.i])

Ends ==
    /\ Issue(d)
    /\ UNCHANGED <<r1, executing, r2, writing, regs, pred, map, entry, channel, table, bounds, computed,
                   sent, instructionCancelled, fetched, aborted, failed>>

WaitForChannelEnds ==
    /\ Does("woche")
    /\ IF CM!haveNCredits(entry, d.needs)
       THEN Ends /\ UNCHANGED <<fetching, remote, previousMap>>
       ELSE /\ GoTo("woche")
            /\ UNCHANGED <<rest, d, instructionCancelled, remote, previousMap, entry, issued, fetched, aborted, failed>>

ChannelEndsReady ==
    /\ Decodes("woche") /\ CM!haveNCredits(entry, d.needs)
    /\ Ends /\ UNCHANGED <<fetching, remote, previousMap>>

DiscardInstruction == r0' = <<>>

(* ibjmp over the next instruction, which is discarded if it has been read. *)
Jump ==
    /\ Does("ibjmp")
    /\ DiscardInstruction /\ pc' = d.i + 2
    /\ Ends /\ UNCHANGED <<program, fetchFull, remote, previousMap>>

StartRemoteExecution ==
    /\ Does("rmtexecute")
    /\ remote' = TRUE /\ previousMap' = d.map
    /\ Ends /\ UNCHANGED fetching

(* fetch(): a forwarded operand is read again when a cycle is over. *)
DoFetch(inst) ==
    /\ fetched' = Append(fetched, <<inst.i, inst.op1>>)
    /\ fetchFull' = TRUE
    /\ Issue(inst)
    /\ UNCHANGED <<program, pc, r0, r1, executing, r2, writing, regs, pred, map, entry, channel, table,
                   bounds, computed, sent, instructionCancelled, remote, previousMap, aborted, failed>>

FetchAllowed ==
    /\ Decodes("fetch") /\ ~fetchFull
    /\ IF d.by1
       THEN /\ GoTo("reread")
            /\ UNCHANGED <<rest, d, instructionCancelled, remote, previousMap, entry, issued, fetched, aborted, failed>>
       ELSE DoFetch(d)

Reread ==
    /\ Decodes("reread") /\ slept
    /\ DoFetch([d EXCEPT !.op1 = ReadReg(d.src1, taken)])

Operation ==
    \/ Fetches \/ GoesOn \/ TestChannel \/ SelectChannel \/ WaitForChannelEnds \/ ChannelEndsReady
    \/ Jump \/ StartRemoteExecution \/ FetchAllowed \/ Reread

(***************************************************************************)
(* To the execute stage                                                    *)
(***************************************************************************)
WaitOnCredits ==
    /\ Decodes("credits") /\ (ToCore(d) => CM!canSend(entry))
    /\ entry' = IF ToCore(d) THEN CM!removeCredit(entry) ELSE entry
    /\ GoTo(IF ready THEN "next" ELSE "space")
    /\ UNCHANGED <<rest, d, instructionCancelled, remote, previousMap, issued, fetched, aborted, failed>>

WaitForSpace ==
    /\ Decodes("space") /\ ready
    /\ GoTo("next")
    /\ UNCHANGED <<rest, d, instructionCancelled, remote, previousMap, entry, issued, fetched, aborted, failed>>

Output ==
    /\ Decodes("next") /\ r1 = <<>>
    /\ r1' = <<d>> /\ Issue(d)
    /\ UNCHANGED <<fetching, executing, r2, writing, regs, pred, map, entry, channel, table, bounds, computed,
                   sent, instructionCancelled, remote, previousMap, fetched, aborted, failed>>

(* persistentInstruction(): from the edge on, operands and output once more. *)
Again ==
    /\ Decodes("again") /\ slept /\ repeats < MaxRepeats
    /\ GoTo("src1") /\ repeats' = repeats + 1
    /\ UNCHANGED <<fetching, r1, executing, r2, writing, regs, pred, map, entry, channel, table, phase, hit,
                   computed, sent, d, instructionCancelled, remote, previousMap, inDecode, failed>>

Decode ==
    \/ Begin \/ Predicate \/ Operand1 \/ Forward \/ Operand2 \/ Operation
    \/ WaitOnCredits \/ WaitForSpace \/ Output \/ Again

(***************************************************************************)
(* Around the pipeline                                                     *)
(***************************************************************************)
(* When nothing is left to do before the next edge. The order within a cycle is *)
(* that of the delta cycles: first the stages, then the send table, and what     *)
(* comes from outside the core when all of that has settled.                     *)
DecodeSettled ==
    /\ wAt = "idle" /\ xAt # "new" /\ ~(xAt = "wait" /\ CanSend(x))
    /\ \/ dAt = "idle"
       \/ dAt \in {"pred", "forward", "reread", "again"} /\ (~slept \/ repeats = MaxRepeats)
       \/ WaitsForData
       \/ dAt = "op" /\ ~d.looping /\ d.op = "selch" /\ ~Available
       \/ dAt = "woche" /\ ~CM!haveNCredits(entry, d.needs)
       \/ dAt = "fetch" /\ fetchFull
       \/ dAt = "credits" /\ ToCore(d) /\ ~CM!canSend(entry)
       \/ dAt = "space" /\ ~ready
       \/ dAt = "next" /\ r1 # <<>>

SendTableRuns == phase = "run" /\ DecodeSettled /\ SendTable

Settled == Running /\ phase = "run" /\ DecodeSettled /\ ready = ~Full /\ ~CanReceive

(* The write stage is not held up while a fetch waits for a result, unless      *)
(* Allows has "stalled write".                                                   *)
Tick ==
    /\ Settled
    /\ "stalled write" \in Allows \/ dAt \notin {"forward", "reread"} \/ ~Full
    /\ phase' = "edge"
    /\ UNCHANGED <<fetching, decoding, r1, executing, r2, writing, regs, pred, map, entry, channel, table,
                   repeats, hit, inDecode, computed, sent, failed>>

(* The fetch stage: after a repeated instruction, when the repetition is over. *)
Supply ==
    /\ Settled /\ r0 = <<>> /\ pc <= Len(program)
    /\ pc > 1 /\ program[pc - 1].persistent => d.i = pc - 1 /\ dAt = "idle"
    /\ r0' = <<pc>> /\ pc' = pc + 1
    /\ UNCHANGED <<program, fetchFull, decoding, r1, executing, r2, writing, regs, pred, map, entry, channel,
                   table, bounds, inDecode, computed, sent, failed>>

(* The fetch buffer is emptied, by a request that is sent or by a hit. *)
FetchTaken ==
    /\ Settled /\ fetchFull
    /\ fetchFull' = FALSE
    /\ request' \in {request, request + 1}
    /\ UNCHANGED <<program, pc, r0, decoding, r1, executing, r2, writing, regs, pred, map, entry, channel, data,
                   receiveState, received, filled, ready, owed, bounds, inDecode, computed, sent, failed>>

NetworkTakes ==
    /\ Settled /\ filled > 0
    /\ filled' = filled - 1
    /\ UNCHANGED <<fetching, decoding, r1, executing, r2, writing, regs, pred, map, entry, channel, data, request,
                   receiveState, received, ready, owed, bounds, inDecode, computed, sent, failed>>

DataArrives ==
    /\ Settled /\ arrived < MaxData /\ arrived - taken < ChannelSize
    /\ arrived' = arrived + 1
    /\ UNCHANGED <<fetching, decoding, r1, executing, r2, writing, regs, pred, map, entry, taken, table, bounds,
                   inDecode, computed, sent, failed>>

CreditArrives ==
    /\ Settled /\ owed > 0
    /\ entry' = CM!addCredits(entry, 1) /\ owed' = owed - 1
    /\ UNCHANGED <<fetching, decoding, r1, executing, r2, writing, regs, pred, map, channel, data, request,
                   receiveState, received, filled, ready, bounds, inDecode, computed, sent, failed>>

(* unstall(): an NXIPK skips what is left of the packet. It finds the     *)
(* decoder waiting for data, or not blocked, unless Allows has "any stall"; it  *)
(* finds a persistent instruction repeating, and waiting for data, unless       *)
(* Allows has "unheard". That unstall() clears the instruction's persistent bit  *)
(* has no effect: newInput() sets it again, and the loop does not look at it.    *)
IsNextPacket(n) == program[n - 1].eop /\ \A m \in (pc - 1)..(n - 2) : ~program[m].eop

CancelInstruction == instructionCancelled' = (instructionCancelled \/ IsBlocked)

Nxipk ==
    /\ Settled /\ hit = <<>> /\ MaxNxipk > 0
    /\ pc > 1 /\ ~remote
    /\ "any stall" \in Allows \/ ~WaitsOtherwise
    /\ "unheard" \in Allows \/ (d.persistent /\ dAt # "idle" => d.looping /\ WaitsForData)
    /\ hit' = <<d.i, dAt>>
    /\ CancelInstruction
    /\ DiscardInstruction /\ \E n \in pc..(Len(program) + 1) : IsNextPacket(n) /\ pc' = n
    /\ UNCHANGED <<program, fetchFull, d, dAt, slept, remote, previousMap, r1, executing, r2, writing, regs, pred, map,
                   entry, channel, table, phase, repeats, inDecode, computed, sent, failed>>

Environment == Supply \/ FetchTaken \/ NetworkTakes \/ DataArrives \/ CreditArrives

(***************************************************************************)
(* The specification                                                       *)
(***************************************************************************)
InitCore ==
    /\ program \in Programs /\ pc = 1 /\ fetchFull = FALSE
    /\ regs = [r \in Regs |-> 0] /\ pred = FALSE /\ map = 0
    /\ entry = [network |-> "GLOBAL", destination |-> 1, credits |-> MaxCredits, acquired |-> TRUE]

InitRegisters == r0 = <<>> /\ r1 = <<>> /\ r2 = <<>>

InitDecode ==
    /\ d = [i |-> 0, looping |-> FALSE, persistent |-> FALSE] /\ dAt = "idle" /\ slept = FALSE
    /\ remote = FALSE /\ previousMap = 0

InitDecoder == instructionCancelled = FALSE

InitReceiveTable == arrived = 0 /\ taken = 0

InitExecute ==
    /\ x = NoInst /\ xAt = "idle" /\ xWaits = {}
    /\ continuingStore = FALSE /\ forwardedResult = 0 /\ previousInstExecuted = FALSE

InitWrite == w = NoInst /\ wAt = "idle"

InitSendTable ==
    /\ data = <<>> /\ request = 0 /\ receiveState = "RS_READY" /\ received = FALSE
    /\ filled = 0 /\ ready = TRUE /\ owed = 0

Init ==
    /\ InitCore /\ InitRegisters /\ InitDecode /\ InitDecoder /\ InitReceiveTable
    /\ InitExecute /\ InitWrite /\ InitSendTable
    /\ phase = "edge" /\ repeats = 0 /\ hit = <<>>
    /\ issued = <<>> /\ computed = <<>> /\ fetched = <<>> /\ sent = <<>> /\ aborted = <<>>
    /\ failed = {}

Stages == Edge \/ WriteResult \/ Execute \/ SendTableRuns \/ Decode \/ Tick

Next == Stages \/ Environment \/ Nxipk

Spec == Init /\ [][Next]_vars /\ WF_vars(Stages) /\ SF_vars(Environment)
-----------------------------------------------------------------------------
(* What the pipeline must keep to: a program's effects are those of the core   *)
(* that finishes each instruction before the next.                             *)
Order == INSTANCE SequencesExt

(* The state has the types of the source, within the capacities. *)
TypeOK ==
    /\ regs \in [Regs -> 0..(FirstDatum + MaxData)] /\ pred \in BOOLEAN
    /\ Len(r0) <= 1 /\ Len(r1) <= 1 /\ Len(r2) <= 1 /\ Len(data) <= 1
    /\ xAt \in {"idle", "new", "wait", "mul", "store"} /\ wAt \in {"idle", "new"}
    /\ xWaits \subseteq {"edge", "read", "ack"}
    /\ dAt \in {"idle", "new", "pred", "src1", "forward", "src2", "op", "woche", "fetch", "reread",
                "credits", "space", "next", "again"}
    /\ filled \in 0..OutputSize /\ taken <= arrived /\ arrived - taken <= ChannelSize
    /\ receiveState \in {"RS_READY", "RS_PACKET"} /\ ready \in BOOLEAN

(* No assertion of the source fails: no pipeline register is written before it *)
(* has been read, no empty channel is read.                                     *)
AssertionsHold == failed = {} /\ TypeOK

Empty == r1 = <<>> /\ r2 = <<>> /\ data = <<>> /\ dAt = "idle" /\ xAt = "idle" /\ wAt = "idle"

(* Each instruction computes with the operands, fetches from the address and   *)
(* sends over the channel map entry that program order gives it, whatever is   *)
(* forwarded, bypassed, squashed or stalled (Decoder::setOperand1,             *)
(* ExecuteStage::newInput, Core::readReg); packets are sent in that order, and *)
(* when the pipeline is empty the registers are as they would be.              *)
EffectsInOrder ==
    LET due == Core!Effects(program, issued, Regs)
    IN  /\ Order!IsPrefix(computed, due.computed)
        /\ Order!IsPrefix(fetched, due.fetched)
        /\ Order!IsPrefix(sent, due.sent)
        /\ Empty => /\ regs = due.regs /\ pred = due.pred /\ map = due.map
                    /\ Len(sent) = Len(due.sent)

(* Who has a credit of the connection that has not been used up. *)
Holds(where) == IF where # <<>> /\ ToCore(Head(where)) THEN 1 ELSE 0
Held ==
    Holds(r1) + Holds(data)
        + Holds(IF dAt \in {"space", "next"} THEN <<d>> ELSE <<>>)
        + Holds(IF xAt \in {"new", "wait", "mul"} THEN <<x>> ELSE <<>>)

(* A credit is taken for each flit that is sent to another tile's core, and    *)
(* comes back, also when the execute stage finds that nothing is to be sent     *)
(* (ExecuteStage::newInput, the HACK).                                          *)
CreditsConserved == entry.credits + owed + Held = MaxCredits

(* NXIPK ends what the decode stage was at, never an instruction of the next    *)
(* packet (DecodeStage::unstall, "Cancel the current operation").               *)
SparesNextPacket == \A k \in 1..Len(aborted) : aborted[k] = hit[1]

(* An instruction that repeats is issued no more than once after NXIPK           *)
(* ("until unstall() is called").                                                *)
UnstallEndsRepetition ==
    [][hit # <<>> /\ d.looping /\ dAt = "again" /\ hit[1] = d.i => UNCHANGED repeats]_vars

(* Every instruction leaves the decode stage, or repeats. *)
EveryInstructionLeaves == []<>(dAt \in {"idle", "again"})
=============================================================================
