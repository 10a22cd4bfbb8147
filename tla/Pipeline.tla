------------------------------- MODULE Pipeline -------------------------------
(* A core's pipeline behind the fetch stage: decode, execute and write, the     *)
(* registers between them, and the table through which they send. In a clock   *)
(* cycle each stage takes an instruction at the edge; then the write stage     *)
(* stores its result, the execute stage computes, and the decode stage, which  *)
(* waits for the stores, reads registers. It goes on, at any time, with what   *)
(* it waited for.                                                              *)
EXTENDS Naturals, Sequences

CONSTANTS
    Programs,       \* sequences of instructions
    Regs,           \* the numbers of the registers
    Channel, FirstDatum, \* the input channel's register, and the first datum
    ChannelSize, OutputSize, \* capacities of the input and the output buffer
    MaxCredits, MaxData, MaxNxipk, MaxRepeats,
    Allows          \* what programs and other cores may do besides (see README)

(* What the decoder makes of an instruction word. *)
Instructions ==
    [op : {"alu", "mul", "store", "setchmap", "fetch", "tstchi", "selch", "woche", "ibjmp", "rmtexecute"},
     dest : Regs \cup {0}, src1 : Regs \cup {0, Channel}, src2 : Regs \cup {0, Channel},
     pred : {"always", "p", "not_p"}, sets : BOOLEAN, outcome : BOOLEAN,
     to : {"none", "core", "memory"}, eop : BOOLEAN, persistent : BOOLEAN, needs : Nat]

(* Stores go to memory. An instruction does not read one channel twice: it would   *)
(* wait for one datum only (Decoder::waitForOperands). One that repeats does not   *)
(* send to other cores: only the first time would it wait for a credit             *)
(* (DecodeStage::persistentInstruction).                                           *)
ASSUME ProgramsAssumption == \A p \in Programs :
    /\ p \in Seq(Instructions) /\ Len(p) < FirstDatum
    /\ \A k \in 1..Len(p) :
          /\ p[k].op = "store" => p[k].to # "core"
          /\ p[k].src1 # Channel \/ p[k].src2 # Channel
          /\ p[k].persistent => p[k].to # "core" /\ \A j \in 1..Len(p) : p[j].op # "rmtexecute"

(* A count of 63 would stand for any number of credits (ChannelMapEntry). *)
ASSUME PipelineAssumption ==
    /\ Regs \subseteq Nat \ {0, Channel} /\ Channel \in Nat \ {0}
    /\ {FirstDatum, ChannelSize, MaxData} \subseteq Nat /\ OutputSize \in Nat \ {0}
    /\ MaxCredits \in 0..62

VARIABLES
    program, pc, r0,    \* the fetch stage, and what it has handed over
    d, dAt, slept,      \* decode: its instruction, where it is, one cycle over
    instructionCancelled, remote, previousMap,
    r1, x, xAt, xWaits, \* execute: its instruction (kept when done), what it awaits
    continuingStore, forwardedResult, previousInstExecuted,
    r2, w, wAt,         \* write
    regs, pred, map, entry, \* register file, predicate, channel map and its credits
    arrived, taken,     \* data that came over the channel, and that were read
    data, request, receiveState, received, filled, ready, owed, \* send table
    phase, fetchFull, repeats,
    hit,                \* where the decode stage was when NXIPK came
    issued, computed, fetched, sent, aborted,
    failed              \* the assertions that have failed

fetching == <<program, pc, r0, fetchFull>>
decoding == <<d, dAt, slept, instructionCancelled, remote, previousMap>>
executing == <<x, xAt, xWaits, continuingStore, forwardedResult, previousInstExecuted>>
writing == <<w, wAt>>
table == <<data, request, receiveState, received, filled, ready, owed>>
channel == <<arrived, taken>>
bounds == <<phase, repeats, hit>>
inDecode == <<issued, fetched, aborted>>
vars == <<fetching, decoding, r1, executing, r2, writing, regs, pred, map, entry, channel, table,
          bounds, inDecode, computed, sent, failed>>

CM == INSTANCE ChannelMapEntry WITH None <- 0
Core == INSTANCE InOrderCore

(* A failed assertion ends the simulation. *)
Check(name, condition) == failed' = IF condition THEN failed ELSE failed \cup {name}
Running == failed = {}

IsDecodeStageOperation(op) == Core!InDecode(op)
SendsOnNetwork(inst) == inst.to # "none"
ToCore(inst) == inst.to = "core"

Undecided(i) == [i |-> i, op1 |-> 0, op2 |-> 0, by1 |-> FALSE, by2 |-> FALSE, result |-> 0, hasResult |-> FALSE,
                 part |-> "result", map |-> 0, remote |-> FALSE, looping |-> FALSE, busy |-> FALSE]
DecodedInst(i) ==
    [f \in (DOMAIN program[i]) \cup (DOMAIN Undecided(i)) |->
        IF f \in DOMAIN program[i] THEN program[i][f] ELSE Undecided(i)[f]]
NoInst == [i |-> 0, dest |-> 0, sets |-> FALSE, result |-> 0, hasResult |-> FALSE, to |-> "none"]

(***************************************************************************)
(* The clock's edge: stages take instructions                              *)
(***************************************************************************)
CanRead(latch) == latch # <<>>
CanWrite(latch) == latch = <<>>
Full == filled = OutputSize
WriteTakes == CanRead(r2) /\ wAt = "idle" /\ ~Full
ExecuteTakes == CanRead(r1) /\ (CanWrite(r2) \/ WriteTakes) /\ xAt = "idle" /\ ready
DecodeTakes == CanRead(r0) /\ (CanWrite(r1) \/ ExecuteTakes) /\ dAt = "idle"

Edge ==
    /\ Running /\ phase = "edge"
    /\ phase' = "run" /\ slept' = TRUE /\ received' = FALSE
    /\ IF WriteTakes THEN w' = Head(r2) /\ wAt' = "new" /\ r2' = <<>> ELSE UNCHANGED <<w, wAt, r2>>
    /\ IF ExecuteTakes THEN x' = Head(r1) /\ r1' = <<>> ELSE UNCHANGED <<x, r1>>
    /\ LET awaited == xWaits \ ({"edge"} \cup (IF WriteTakes THEN {"read"} ELSE {}))
       IN  /\ xWaits' = awaited
           /\ xAt' = IF \/ ExecuteTakes \/ xAt = "mul"
                        \/ xAt = "store" /\ awaited = {}
                     THEN "new" ELSE xAt
    /\ IF DecodeTakes THEN d' = DecodedInst(Head(r0)) /\ dAt' = "new" /\ r0' = <<>> ELSE UNCHANGED <<d, dAt, r0>>
    /\ UNCHANGED <<program, pc, fetchFull, instructionCancelled, remote, previousMap, continuingStore,
                   forwardedResult, previousInstExecuted, regs, pred, map, entry, channel, data, request,
                   receiveState, filled, ready, owed, repeats, hit, inDecode, computed, sent, failed>>

(***************************************************************************)
(* The write stage                                                         *)
(***************************************************************************)
WriteResult ==
    /\ Running /\ wAt = "new"
    /\ wAt' = "idle"
    /\ regs' = IF w.dest = 0 THEN regs ELSE [regs EXCEPT ![w.dest] = w.result]
    /\ UNCHANGED <<fetching, decoding, r1, executing, r2, w, pred, map, entry, channel, table, bounds,
                   inDecode, computed, sent, failed>>

(***************************************************************************)
(* The execute stage                                                       *)
(***************************************************************************)
CanSend(inst) == SendsOnNetwork(inst) => ready /\ data = <<>>

Blocked ==
    /\ Running /\ xAt = "new" /\ ~CanSend(x)
    /\ xAt' = "wait"
    /\ UNCHANGED <<fetching, decoding, r1, x, xWaits, continuingStore, forwardedResult,
                   previousInstExecuted, r2, writing, regs, pred, map, entry, channel, table, bounds,
                   inDecode, computed, sent, failed>>

Executes == Running /\ xAt \in {"new", "wait"} /\ CanSend(x)

(* One buffer of the send table holds what goes to memory and to other     *)
(* tiles.                                                                  *)
Buffered(inst) == IF SendsOnNetwork(inst) THEN <<inst>> ELSE data

(* sendOutput(): to the send table, and to the write stage. *)
SendOutput(inst) ==
    /\ r2' = <<inst>>
    /\ data' = Buffered(inst)
    /\ Check("pipeline register written twice", CanWrite(r2))

UpdatePredicate(inst) == pred' = IF inst.sets THEN inst.outcome ELSE pred

HasResult ==
    /\ Executes /\ x.hasResult /\ ~continuingStore
    /\ SendOutput(x) /\ UpdatePredicate(x)
    /\ previousInstExecuted' = TRUE /\ forwardedResult' = x.result /\ xAt' = "idle"
    /\ UNCHANGED <<fetching, decoding, r1, x, xWaits, continuingStore, writing, regs, map, entry, channel,
                   request, receiveState, received, filled, ready, owed, bounds, inDecode, computed, sent>>

NewInput == Executes /\ (~x.hasResult \/ continuingStore)

(* Faulty variant: the instruction stays as it is. *)
KeepForwarding(inst) == inst

PreventForwarding(inst) == [inst EXCEPT !.dest = 0, !.sets = FALSE, !.hasResult = TRUE]

(* Faulty variant: what decode has taken stays taken. *)
NothingReturned(inst) == entry

CreditReturned(inst) == IF ToCore(inst) THEN CM!addCredits(entry, 1) ELSE entry

Squash ==
    /\ NewInput /\ ~Core!Passes(x.pred, pred)
    /\ x' = PreventForwarding(x)
    /\ entry' = CreditReturned(x)
    /\ previousInstExecuted' = FALSE /\ forwardedResult' = x.result /\ xAt' = "idle"
    /\ UNCHANGED <<fetching, decoding, r1, xWaits, continuingStore, r2, writing, regs, pred, map, channel,
                   table, bounds, inDecode, computed, sent, failed>>

(* The operands, with the last result if it is for them; from then on they are *)
(* the instruction's own.                                                      *)
Collected(inst) ==
    LET forwards(by) == by /\ previousInstExecuted
    IN  [inst EXCEPT !.op1 = IF forwards(inst.by1) THEN forwardedResult ELSE @,
                     !.op2 = IF forwards(inst.by2) THEN forwardedResult ELSE @,
                     !.by1 = @ /\ ~previousInstExecuted, !.by2 = @ /\ ~previousInstExecuted]

StartMultiply ==
    /\ NewInput /\ Core!Passes(x.pred, pred) /\ x.op = "mul" /\ ~x.busy
    /\ x' = [Collected(x) EXCEPT !.busy = TRUE]
    /\ previousInstExecuted' = TRUE /\ forwardedResult' = x.result /\ xAt' = "mul"
    /\ UNCHANGED <<fetching, decoding, r1, xWaits, continuingStore, r2, writing, regs, pred, map, entry,
                   channel, table, bounds, inDecode, computed, sent, failed>>

Compute ==
    /\ NewInput /\ Core!Passes(x.pred, pred) /\ x.op # "store" /\ (x.op = "mul" => x.busy)
    /\ LET inst == IF x.busy THEN x ELSE Collected(x)
           done == [inst EXCEPT !.result = inst.i, !.hasResult = TRUE]
       IN  /\ x' = done
           /\ computed' = Append(computed, <<inst.i, inst.op1, inst.op2>>)
           /\ SendOutput(done) /\ UpdatePredicate(done)
           /\ forwardedResult' = done.result
    /\ map' = IF x.op = "setchmap" THEN x.i ELSE map
    /\ previousInstExecuted' = TRUE /\ xAt' = "idle"
    /\ UNCHANGED <<fetching, decoding, r1, xWaits, continuingStore, writing, regs, entry, channel, request,
                   receiveState, received, filled, ready, owed, bounds, inDecode, sent>>

(* memoryStorePhase1(): the address first. *)
SendAddress ==
    /\ NewInput /\ Core!Passes(x.pred, pred) /\ x.op = "store" /\ ~continuingStore
    /\ LET inst == [Collected(x) EXCEPT !.part = "address", !.hasResult = TRUE]
       IN  /\ x' = inst
           /\ computed' = Append(computed, <<inst.i, inst.op1, inst.op2>>)
           /\ SendOutput(inst)
    /\ forwardedResult' = x.result
    /\ continuingStore' = TRUE /\ previousInstExecuted' = TRUE
    /\ xAt' = "store" /\ xWaits' = {"edge", "read", "ack"}
    /\ UNCHANGED <<fetching, decoding, r1, writing, regs, pred, map, entry, channel, request, receiveState,
                   received, filled, ready, owed, bounds, inDecode, sent>>

(* memoryStorePhase2(): the predicate is looked at again. *)
SendPayload ==
    /\ NewInput /\ Core!Passes(x.pred, pred) /\ continuingStore
    /\ LET inst == [x EXCEPT !.part = "data"]
       IN  x' = inst /\ SendOutput(inst)
    /\ continuingStore' = FALSE /\ previousInstExecuted' = TRUE /\ xAt' = "idle"
    /\ UNCHANGED <<fetching, decoding, r1, xWaits, forwardedResult, writing, regs, pred, map, entry, channel,
                   request, receiveState, received, filled, ready, owed, bounds, inDecode, computed, sent>>

Execute == Blocked \/ HasResult \/ Squash \/ StartMultiply \/ Compute \/ SendAddress \/ SendPayload

(***************************************************************************)
(* The send channel-end table                                              *)
(***************************************************************************)
CanReceive == ~received /\ ~Full /\ (data # <<>> \/ (request > 0 /\ receiveState = "RS_READY"))

ReceiveRequest ==
    /\ Running /\ CanReceive /\ receiveState = "RS_READY" /\ request > 0
    /\ request' = request - 1 /\ filled' = filled + 1 /\ received' = TRUE
    /\ UNCHANGED <<fetching, decoding, r1, executing, r2, writing, regs, pred, map, entry, channel, data,
                   receiveState, ready, owed, bounds, inDecode, computed, sent, failed>>

ReceiveData ==
    /\ Running /\ CanReceive /\ (receiveState = "RS_READY" => request = 0)
    /\ LET flit == Head(data)
       IN  /\ sent' = Append(sent, [i |-> flit.i, map |-> flit.map,
                                    part |-> IF flit.remote THEN "instruction" ELSE flit.part])
           /\ owed' = owed + (IF ToCore(flit) THEN 1 ELSE 0)
           /\ receiveState' = IF flit.part = "address" THEN "RS_PACKET" ELSE "RS_READY"
    /\ data' = <<>> /\ filled' = filled + 1 /\ received' = TRUE
    /\ xWaits' = xWaits \ {"ack"}
    /\ xAt' = IF xAt = "store" /\ xWaits' = {} THEN "new" ELSE xAt
    /\ UNCHANGED <<fetching, decoding, r1, x, continuingStore, forwardedResult, previousInstExecuted, r2,
                   writing, regs, pred, map, entry, channel, request, ready, bounds, inDecode, computed,
                   failed>>

(* The write stage's ready signal follows the buffer. *)
UpdateReady ==
    /\ Running /\ ready # ~Full
    /\ ready' = ~Full
    /\ UNCHANGED <<fetching, decoding, r1, executing, r2, writing, regs, pred, map, entry, channel, data,
                   request, receiveState, received, filled, owed, bounds, inDecode, computed, sent, failed>>

SendTable == ReceiveRequest \/ ReceiveData \/ UpdateReady
=============================================================================
