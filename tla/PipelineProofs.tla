---------------------------- MODULE PipelineProofs ----------------------------
(* Theorems about DecodeStage, for every size of its buffers, every number of   *)
(* credits and all programs that keep to ProgramsAssumption.                    *)
EXTENDS DecodeStage, WellFoundedInduction, TLAPS

Places == {"idle", "new", "pred", "src1", "forward", "src2", "op", "woche", "fetch", "reread",
           "credits", "space", "next", "again"}

(* What the proofs know of a decoded instruction, wherever it is. *)
Fields(e) ==
    /\ "i" \in DOMAIN e /\ "op" \in DOMAIN e /\ "dest" \in DOMAIN e /\ "src1" \in DOMAIN e
    /\ "src2" \in DOMAIN e /\ "pred" \in DOMAIN e /\ "sets" \in DOMAIN e /\ "outcome" \in DOMAIN e
    /\ "to" \in DOMAIN e /\ "persistent" \in DOMAIN e /\ "looping" \in DOMAIN e
    /\ "result" \in DOMAIN e /\ "hasResult" \in DOMAIN e

Valid(e) ==
    /\ Fields(e)
    /\ e.i \in 0..FirstDatum /\ e.result \in 0..FirstDatum
    /\ e.dest \in Regs \cup {0} /\ e.sets \in BOOLEAN /\ e.outcome \in BOOLEAN
    /\ e.persistent \in BOOLEAN /\ e.looping \in BOOLEAN
    /\ e.looping => e.persistent
    /\ e.persistent => e.to # "core"
    /\ e.op = "store" /\ e.to = "core" => e.hasResult = TRUE
    /\ e.src1 # Channel \/ e.src2 # Channel

Latch(s) == s = <<>> \/ (s = <<s[1]>> /\ Valid(s[1]))

(* Instructions are read in order, each once. *)
ReadOnce ==
    /\ program \in Programs /\ pc \in Nat
    /\ d.i \in Nat /\ d.i < pc
    /\ r0 # <<>> => r0 = <<r0[1]>> /\ r0[1] \in 1..Len(program) /\ d.i < r0[1] /\ r0[1] < pc

NoRepeats == \A k \in 1..Len(program) : ~program[k].persistent

(* The instruction in the decode stage is that of the program. *)
Decoding ==
    /\ dAt \in Places
    /\ d.persistent \in BOOLEAN /\ d.looping \in BOOLEAN /\ (d.looping => d.persistent)
    /\ dAt # "idle" =>
          /\ Valid(d) /\ d.i \in 1..Len(program)
          /\ d.op = program[d.i].op /\ d.persistent = program[d.i].persistent
    /\ remote => NoRepeats

(* Data that an instruction has waited for are there, unless it is cancelled. *)
Reads ==
    /\ arrived \in Nat /\ taken \in Nat /\ taken <= arrived /\ arrived - taken <= ChannelSize
    /\ instructionCancelled \in BOOLEAN
    /\ dAt \in {"forward", "src2"} => Arrives(d.src1)
    /\ dAt = "op" => (IsChannelEnd(d.src1) \/ IsChannelEnd(d.src2) => Available)

(* An instruction is executed when the next register is empty. *)
Executing ==
    /\ xAt \in {"idle", "new", "wait", "mul", "store"} /\ xWaits \subseteq {"edge", "read", "ack"}
    /\ xAt # "idle" => Valid(x)
    /\ continuingStore \in BOOLEAN
    /\ xAt \in {"new", "wait", "mul"} => r2 = <<>>
    /\ xAt = "store" => continuingStore /\ ("read" \in xWaits \/ r2 = <<>>)
    /\ continuingStore =>
          xAt \in {"new", "wait", "store"} /\ x.op = "store" /\ x.to # "core" /\ Core!Passes(x.pred, pred)

Writing ==
    /\ wAt \in {"idle", "new"}
    /\ wAt = "new" => Valid(w)
    /\ regs \in [Regs -> 0..(FirstDatum + MaxData)] /\ pred \in BOOLEAN

Sending ==
    /\ Latch(r1) /\ Latch(r2) /\ Latch(data)
    /\ filled \in 0..OutputSize /\ ready \in BOOLEAN
    /\ receiveState \in {"RS_READY", "RS_PACKET"}

Credits ==
    /\ entry \in [network : {"GLOBAL"}, destination : {1}, credits : Nat, acquired : {TRUE}]
    /\ owed \in Nat
    /\ CreditsConserved

WaitingPlaces == {"src1", "forward", "src2"}

(* What NXIPK has cancelled is what it found, and it does not repeat. *)
Cancelling ==
    /\ aborted \in Seq(Nat)
    /\ hit = <<>> => aborted = <<>> /\ ~instructionCancelled
    /\ hit # <<>> => hit[1] \in Nat /\ hit[1] <= d.i
    /\ "any stall" \notin Allows =>
          /\ instructionCancelled => dAt \in WaitingPlaces /\ hit[1] = d.i
          /\ SparesNextPacket
    /\ "unheard" \notin Allows =>
          (hit # <<>> /\ hit[1] = d.i /\ d.persistent =>
              dAt = "idle" \/ (dAt \in WaitingPlaces /\ instructionCancelled /\ d.looping))

PInv ==
    /\ failed = {}
    /\ ReadOnce /\ Decoding /\ Reads /\ Executing /\ Writing /\ Sending /\ Credits /\ Cancelling

-----------------------------------------------------------------------------
(* What the operators make of a decoded instruction.                           *)

(* It says of itself as before what the invariants read. *)
Alike(f, e) ==
    /\ f.i = e.i /\ f.op = e.op /\ f.src1 = e.src1 /\ f.src2 = e.src2
    /\ f.to = e.to /\ f.persistent = e.persistent /\ f.pred = e.pred

(* The decoder's instruction is the program's (DecodedInst), and valid.        *)
LEMMA DecodedIsValid ==
    ASSUME program \in Programs, NEW k \in 1..Len(program)
    PROVE  /\ Valid(DecodedInst(k)) /\ DecodedInst(k).i = k /\ DecodedInst(k).looping = FALSE
           /\ DecodedInst(k).op = program[k].op
           /\ DecodedInst(k).persistent = program[k].persistent
<1> DEFINE ins == program[k]
           e == DecodedInst(k)
<1>1. /\ ins \in Instructions /\ k \in 0..FirstDatum
      /\ ins.op = "store" => ins.to # "core"
      /\ ins.src1 # Channel \/ ins.src2 # Channel
      /\ ins.persistent => ins.to # "core"
  BY ProgramsAssumption, PipelineAssumption
<1>2. /\ DOMAIN ins = {"op", "dest", "src1", "src2", "pred", "sets", "outcome", "to", "eop", "persistent", "needs"}
      /\ ins.dest \in Regs \cup {0} /\ ins.sets \in BOOLEAN /\ ins.outcome \in BOOLEAN
      /\ ins.persistent \in BOOLEAN
  BY <1>1 DEF Instructions
<1>3. /\ Fields(e)
      /\ e.op = ins.op /\ e.dest = ins.dest /\ e.src1 = ins.src1 /\ e.src2 = ins.src2 /\ e.sets = ins.sets
      /\ e.outcome = ins.outcome /\ e.to = ins.to /\ e.persistent = ins.persistent
      /\ e.i = k /\ e.result = 0 /\ e.looping = FALSE
  <2> DEFINE own == Undecided(k)
  <2>1. e = [n \in (DOMAIN ins) \cup (DOMAIN own) |-> IF n \in DOMAIN ins THEN ins[n] ELSE own[n]]
    BY DEF DecodedInst
  <2>2. /\ {"i", "result", "hasResult", "looping"} \subseteq DOMAIN own
        /\ own.i = k /\ own.result = 0 /\ own.looping = FALSE
    BY DEF Undecided
  <2> HIDE DEF e, own
  <2>3. \A n \in DOMAIN ins : n \in DOMAIN e /\ e[n] = ins[n]
    BY <2>1
  <2>4. \A n \in {"i", "result", "hasResult", "looping"} : n \in DOMAIN e /\ e[n] = own[n]
    BY <1>2, <2>1, <2>2
  <2>. QED BY <1>2, <2>2, <2>3, <2>4 DEF Fields
<1>4. 0 \in 0..FirstDatum
  BY PipelineAssumption
<1>. QED BY <1>1, <1>2, <1>3, <1>4 DEF Valid

(* DecodeStage::execute: an instruction that repeats begins to.                *)
LEMMA RepeatsAlike ==
    ASSUME NEW e, Valid(e), NEW v \in BOOLEAN, v => e.persistent
    PROVE  LET f == [e EXCEPT !.looping = v] IN Valid(f) /\ Alike(f, e) /\ f.looping = v
BY DEF Valid, Fields, Alike

(* What the channel map says is kept with the instruction.                     *)
LEMMA MapAlike ==
    ASSUME NEW e, Valid(e), NEW v
    PROVE  LET f == [e EXCEPT !.map = v] IN Valid(f) /\ Alike(f, e) /\ f.looping = e.looping
BY DEF Valid, Fields, Alike

(* Decoder::setOperand1 and setOperand2 change the operands only.              *)
LEMMA OperandsAlike ==
    ASSUME NEW e, Valid(e)
    PROVE  Valid(WithOperands(e)) /\ Alike(WithOperands(e), e) /\ WithOperands(e).looping = e.looping
BY DEF Valid, Fields, Alike, WithOperands

(* DecodeStage::fetch reads an operand again.                                  *)
LEMMA RereadAlike ==
    ASSUME NEW e, Valid(e), NEW v
    PROVE  LET f == [e EXCEPT !.op1 = v] IN Valid(f) /\ Alike(f, e) /\ f.looping = e.looping
BY DEF Valid, Fields, Alike

(* The decoder has a result itself: of tstchi or selch.                        *)
LEMMA ResultAlike ==
    ASSUME NEW e, Valid(e), NEW v \in 0..FirstDatum, NEW o \in BOOLEAN
    PROVE  LET f == [e EXCEPT !.hasResult = TRUE, !.result = v, !.outcome = o]
               g == [e EXCEPT !.hasResult = TRUE, !.result = v]
           IN  /\ Valid(f) /\ Alike(f, e) /\ f.looping = e.looping
               /\ Valid(g) /\ Alike(g, e) /\ g.looping = e.looping
BY DEF Valid, Fields, Alike

(* DecodeStage::remoteExecute makes it a word to send.                         *)
LEMMA RemoteIsValid ==
    ASSUME NEW e, Valid(e), ~e.persistent
    PROVE  /\ Valid(RemoteExecute(e)) /\ RemoteExecute(e).i = e.i /\ RemoteExecute(e).op = e.op
           /\ RemoteExecute(e).persistent = e.persistent /\ RemoteExecute(e).looping = e.looping
BY DEF Valid, Fields, RemoteExecute

(* The operands that were forwarded become the instruction's own.              *)
LEMMA CollectedAlike ==
    ASSUME NEW e, Valid(e)
    PROVE  Valid(Collected(e)) /\ Alike(Collected(e), e)
BY DEF Valid, Fields, Alike, Collected

-----------------------------------------------------------------------------
(* Who has a credit.                                                           *)
Takes(e) == IF e.to = "core" THEN 1 ELSE 0
AtDecode == IF dAt \in {"space", "next"} THEN Takes(d) ELSE 0
AtExecute == IF xAt \in {"new", "wait", "mul"} THEN Takes(x) ELSE 0

(* A register holds the credit of its instruction.                             *)
LEMMA HoldsOne ==
    /\ Holds(<<>>) = 0
    /\ \A e : Holds(<<e>>) = Takes(e)
    /\ \A s : Holds(s) \in {0, 1}
    /\ \A e : Takes(e) \in {0, 1}
<1>1. Holds(<<>>) = 0
  BY DEF Holds
<1>2. ASSUME NEW e PROVE Holds(<<e>>) = Takes(e)
  <2>1. <<e>> # <<>> /\ Head(<<e>>) = e
    OBVIOUS
  <2>. QED BY <2>1 DEF Holds, Takes, ToCore
<1>. QED BY <1>1, <1>2 DEF Holds, Takes

(* The credits that are held, stage by stage.                                  *)
LEMMA HeldIs ==
    /\ Held = Holds(r1) + Holds(data) + AtDecode + AtExecute
    /\ Held' = Holds(r1') + Holds(data') + AtDecode' + AtExecute'
<1>1. /\ Holds(IF dAt \in {"space", "next"} THEN <<d>> ELSE <<>>) = AtDecode
      /\ Holds(IF dAt' \in {"space", "next"} THEN <<d'>> ELSE <<>>) = AtDecode'
      /\ Holds(IF xAt \in {"new", "wait", "mul"} THEN <<x>> ELSE <<>>) = AtExecute
      /\ Holds(IF xAt' \in {"new", "wait", "mul"} THEN <<x'>> ELSE <<>>) = AtExecute'
  BY HoldsOne DEF AtDecode, AtExecute
<1>2. /\ Held = Holds(r1) + Holds(data)
                   + Holds(IF dAt \in {"space", "next"} THEN <<d>> ELSE <<>>)
                   + Holds(IF xAt \in {"new", "wait", "mul"} THEN <<x>> ELSE <<>>)
      /\ Held' = Holds(r1') + Holds(data')
                   + Holds(IF dAt' \in {"space", "next"} THEN <<d'>> ELSE <<>>)
                   + Holds(IF xAt' \in {"new", "wait", "mul"} THEN <<x'>> ELSE <<>>)
  BY Zenon DEF Held, Holds
<1>. QED BY <1>1, <1>2

(* When credits, what is owed and the holders change together, they still add *)
(* up.                                                                         *)
LEMMA CreditsMove ==
    ASSUME Credits, entry' \in [network : {"GLOBAL"}, destination : {1}, credits : Nat, acquired : {TRUE}],
           owed' \in Nat,
           entry'.credits + owed' + (Holds(r1') + Holds(data') + AtDecode' + AtExecute')
             = entry.credits + owed + (Holds(r1) + Holds(data) + AtDecode + AtExecute)
    PROVE  Credits'
<1>1. PICK h \in Nat : h = Holds(r1) + Holds(data) + AtDecode + AtExecute
  BY HoldsOne DEF AtDecode, AtExecute
<1>2. PICK g \in Nat : g = Holds(r1') + Holds(data') + AtDecode' + AtExecute'
  BY HoldsOne DEF AtDecode, AtExecute
<1>3. h = Held /\ g = Held'
  BY <1>1, <1>2, HeldIs
<1>4. entry.credits + owed + Held = MaxCredits
  BY DEF Credits, CreditsConserved
<1>5. entry'.credits + owed' + Held' = MaxCredits
  BY <1>1, <1>2, <1>3, <1>4
<1>. QED BY <1>5 DEF Credits, CreditsConserved

(* Those who take part keep what they have.                                    *)
LEMMA CreditsKept ==
    ASSUME Credits, entry' = entry, owed' = owed, Holds(r1') = Holds(r1), Holds(data') = Holds(data),
           AtDecode' = AtDecode, AtExecute' = AtExecute
    PROVE  Credits'
BY CreditsMove DEF Credits

(* The count stays within its bound.                                           *)
LEMMA CreditsBounded ==
    ASSUME Credits
    PROVE  entry.credits \in 0..62
<1>1. PICK h \in Nat : h = Holds(r1) + Holds(data) + AtDecode + AtExecute
  BY HoldsOne DEF AtDecode, AtExecute
<1>2. entry.credits \in Nat /\ owed \in Nat /\ entry.credits + owed + h = MaxCredits
  BY <1>1, HeldIs DEF Credits, CreditsConserved
<1>. QED BY <1>2, PipelineAssumption

-----------------------------------------------------------------------------
(* What keeps each part of the invariant.                                      *)

(* The decode stage leaves the later stages and the send table alone.          *)
LEMMA LaterKept ==
    ASSUME Executing, Writing, UNCHANGED <<executing, r2, writing, regs, pred>>
    PROVE  Executing' /\ Writing'
BY DEF Executing, Writing, executing, writing

(* The registers and the send table are left alone.                            *)
LEMMA SendingKept ==
    ASSUME Sending, UNCHANGED <<r1, r2, data, filled, ready, receiveState>>
    PROVE  Sending'
BY DEF Sending, Latch

(* The decode stage goes on with its instruction, or leaves it.                *)
LEMMA DecodingKept ==
    ASSUME ReadOnce, Decoding, program' = program, Valid(d'), d'.i = d.i, d'.op = d.op,
           d'.persistent = d.persistent, dAt # "idle", dAt' \in Places,
           remote' => NoRepeats, r0' = r0, pc' = pc
    PROVE  ReadOnce' /\ Decoding'
<1>1. d'.looping \in BOOLEAN /\ (d'.looping => d'.persistent) /\ d'.persistent \in BOOLEAN
  BY DEF Valid
<1>2. ReadOnce'
  BY DEF ReadOnce
<1>3. NoRepeats' = NoRepeats
  BY DEF NoRepeats
<1>. QED BY <1>1, <1>2, <1>3 DEF Decoding

(* It does not get to a place where data have to be there.                     *)
LEMMA ReadsKept ==
    ASSUME Reads, UNCHANGED <<arrived, taken, instructionCancelled>>,
           dAt' \notin {"forward", "src2", "op"}
    PROVE  Reads'
BY DEF Reads

(* NXIPK is not heard, and what it has cancelled still waits.                  *)
LEMMA CancellingKept ==
    ASSUME Cancelling, UNCHANGED <<hit, aborted, instructionCancelled>>, dAt # "idle",
           d'.i = d.i, d'.persistent = d.persistent,
           dAt \in WaitingPlaces => dAt' \in WaitingPlaces /\ d'.looping = d.looping
    PROVE  Cancelling'
BY DEF Cancelling, SparesNextPacket

(* A step of the decode stage that sends nothing, and issues nothing for       *)
(* another core.                                                               *)
LEMMA CreditsKeptByDecode ==
    ASSUME Credits, UNCHANGED <<entry, owed, r1, data, x, xAt>>,
           dAt \notin {"space", "next"}, dAt' \in {"space", "next"} => d'.to # "core"
    PROVE  Credits'
<1>1. AtDecode = 0 /\ AtDecode' = 0 /\ AtExecute' = AtExecute
  BY DEF AtDecode, AtExecute, Takes
<1>. QED BY <1>1, CreditsKept

(* The instruction leaves the decode stage (newInput ends).                    *)
LEMMA Issued ==
    ASSUME NEW e, Valid(e), Issue(e)
    PROVE  /\ Valid(d') /\ Alike(d', e) /\ dAt' \in {"again", "idle"}
           /\ dAt' = "idle" => d'.looping = e.looping
           /\ e.persistent => dAt' = "again"
<1>1. CASE e.persistent
  BY <1>1, RepeatsAlike DEF Issue, GoTo
<1>2. CASE ~e.persistent
  BY <1>2 DEF Issue, GoTo, Alike
<1>. QED BY <1>1, <1>2

(***************************************************************************)
(* The decode stage                                                        *)
(***************************************************************************)
(* A step that waits, or goes from place to place.                             *)
LEMMA GoesKeeps ==
    ASSUME PInv, failed' = {}, dAt # "idle",
           UNCHANGED <<program, r0, pc, executing, r2, writing, regs, pred, filled, ready, receiveState,
                       data, owed, hit, r1, entry, arrived, taken, instructionCancelled, aborted>>,
           remote' => NoRepeats, Valid(d'), d'.i = d.i, d'.op = d.op, d'.persistent = d.persistent,
           dAt \notin {"space", "next"}, dAt' \in {"space", "next"} => d'.to # "core",
           dAt \in WaitingPlaces => dAt' \in WaitingPlaces /\ d'.looping = d.looping,
           dAt' \in Places \ {"forward", "src2", "op"}
    PROVE  PInv'
<1>1. ReadOnce' /\ Decoding'
  BY DecodingKept DEF PInv
<1>2. Reads'
  BY ReadsKept DEF PInv
<1>3. Executing' /\ Writing' /\ Sending'
  BY LaterKept, SendingKept DEF PInv
<1>4. Credits'
  BY CreditsKeptByDecode DEF PInv, executing
<1>5. Cancelling'
  BY CancellingKept DEF PInv
<1>. QED BY <1>1, <1>2, <1>3, <1>4, <1>5 DEF PInv

(* newInput(): to another core, on to the decoder, or past it.                 *)
LEMMA BeginKeeps ==
    ASSUME PInv, Begin
    PROVE  PInv'
<1>1. /\ Valid(d) /\ dAt = "new" /\ failed' = {} /\ d.i \in 1..Len(program)
      /\ d.persistent = program[d.i].persistent
  BY DEF PInv, Decoding, Begin, Decodes, Running
<1>2. UNCHANGED <<program, r0, pc, executing, r2, writing, regs, pred, filled, ready, receiveState,
                  data, owed, hit, r1, entry, arrived, taken, instructionCancelled, aborted>>
  BY DEF Begin, rest, fetching, executing, writing, channel, table, bounds
<1>3. /\ Valid(d') /\ d'.i = d.i /\ d'.op = d.op /\ d'.persistent = d.persistent
      /\ dAt' \in Places \ {"forward", "src2", "op", "space", "next"}
      /\ remote' => NoRepeats
  <2>1. CASE remote
    <3>1. ~d.persistent
      BY <1>1, <2>1 DEF PInv, Decoding, NoRepeats
    <3>2. d' = RemoteExecute(d) /\ dAt' = "credits" /\ NoRepeats
      BY <2>1 DEF Begin, GoTo, PInv, Decoding
    <3>. QED BY <1>1, <3>1, <3>2, RemoteIsValid DEF Places
  <2>2. CASE ~remote
    <3> DEFINE e == ReadChannelMapTable(d)
    <3>1. Valid(e) /\ Alike(e, d)
      BY <1>1, MapAlike DEF ReadChannelMapTable
    <3>2. remote' = remote /\ (Issue(e) \/ (d' = e /\ (GoTo("pred") \/ GoTo("src1"))))
      BY <2>2 DEF Begin
    <3> HIDE DEF e
    <3>. QED BY <2>2, <3>1, <3>2, Issued DEF Alike, GoTo, Places
  <2>. QED BY <1>1, <2>1, <2>2
<1>. QED BY <1>1, <1>2, <1>3, GoesKeeps DEF WaitingPlaces

(* readPredReg(): the instruction waits, goes on or is not executed.           *)
LEMMA PredicateKeeps ==
    ASSUME PInv, Predicate
    PROVE  PInv'
<1>1. Valid(d) /\ dAt = "pred" /\ failed' = {} /\ (remote' => NoRepeats)
  BY DEF PInv, Decoding, Predicate, Decodes, Running
<1>2. UNCHANGED <<program, r0, pc, executing, r2, writing, regs, pred, filled, ready, receiveState,
                  data, owed, hit, r1, entry, arrived, taken, instructionCancelled, aborted>>
  BY DEF Predicate, rest, fetching, executing, writing, channel, table, bounds
<1>3. Issue(d) \/ (d' = d /\ (GoTo("pred") \/ GoTo("src1")))
  BY DEF Predicate
<1>4. /\ Valid(d') /\ d'.i = d.i /\ d'.op = d.op /\ d'.persistent = d.persistent
      /\ dAt' \in Places \ {"forward", "src2", "op", "space", "next"}
  BY <1>1, <1>3, Issued DEF Alike, GoTo, Places
<1>. QED BY <1>1, <1>2, <1>4, GoesKeeps DEF WaitingPlaces

(* waitForOperands(): what was waited for is there for the next step.          *)
LEMMA Operand1Keeps ==
    ASSUME PInv, Operand1 \/ Forward
    PROVE  PInv'
<1>1. /\ Valid(d) /\ dAt \in {"src1", "forward"} /\ failed' = {} /\ d' = d /\ dAt' \in {"forward", "src2"}
      /\ Arrives(d.src1)
  BY DEF PInv, Decoding, Reads, Operand1, Forward, Decodes, Running, GoTo
<1>2. UNCHANGED <<program, r0, pc, executing, r2, writing, regs, pred, filled, ready, receiveState, remote,
                  data, owed, hit, r1, entry, arrived, taken, instructionCancelled, aborted>>
  BY DEF Operand1, Forward, rest, fetching, executing, writing, channel, table, bounds
<1>3. ReadOnce' /\ Decoding'
  BY <1>1, <1>2, DecodingKept DEF PInv, Decoding, Places
<1>4. Reads'
  BY <1>1, <1>2 DEF PInv, Reads, Arrives, Available
<1>5. Executing' /\ Writing' /\ Sending'
  BY <1>2, LaterKept, SendingKept DEF PInv
<1>6. Credits'
  BY <1>1, <1>2, CreditsKeptByDecode DEF PInv, executing
<1>7. Cancelling'
  BY <1>1, <1>2, CancellingKept DEF PInv, WaitingPlaces
<1>. QED BY <1>1, <1>3, <1>4, <1>5, <1>6, <1>7 DEF PInv

(* An instruction that was cancelled is the one that NXIPK found, and does not *)
(* begin again if it repeats.                                                  *)
LEMMA Operand2Keeps ==
    ASSUME PInv, Operand2
    PROVE  PInv'
<1>1. /\ Valid(d) /\ dAt = "src2" /\ failed' = {} /\ (remote' => NoRepeats)
      /\ Arrives(d.src1) /\ Arrives(d.src2) /\ instructionCancelled' = FALSE
  BY DEF PInv, Decoding, Reads, Operand2, Decodes, Running
<1>2. UNCHANGED <<program, r0, pc, executing, r2, writing, regs, pred, filled, ready, receiveState,
                  data, owed, hit, r1, entry, arrived, taken>>
  BY DEF Operand2, rest, fetching, executing, writing, channel, table, bounds
<1>3. \/ /\ ~instructionCancelled /\ d' = d /\ aborted' = aborted /\ dAt' = "op"
      \/ /\ instructionCancelled /\ d.looping /\ d' = d /\ aborted' = aborted /\ dAt' = "idle"
      \/ /\ instructionCancelled /\ ~d.looping /\ aborted' = Append(aborted, d.i)
         /\ d' = [d EXCEPT !.looping = d.persistent] /\ dAt' = IF d.persistent THEN "again" ELSE "idle"
  BY DEF Operand2, Abort, GoTo
<1>4. /\ Valid(d') /\ d'.i = d.i /\ d'.op = d.op /\ d'.persistent = d.persistent
      /\ dAt' \in {"op", "idle", "again"}
  <2>1. CASE d' = d
    BY <1>1, <1>3, <2>1
  <2>2. CASE d' = [d EXCEPT !.looping = d.persistent]
    <3>1. d.persistent \in BOOLEAN
      BY <1>1 DEF Valid
    <3>. QED BY <1>1, <1>3, <2>2, <3>1, RepeatsAlike DEF Alike
  <2>. QED BY <1>3, <2>1, <2>2
<1>5. ReadOnce' /\ Decoding'
  BY <1>1, <1>2, <1>4, DecodingKept DEF PInv, Places
<1>6. Reads'
  <2>1. CASE ~instructionCancelled
    <3>1. d' = d /\ dAt' = "op"
      BY <1>3, <2>1
    <3>. QED BY <1>1, <1>2, <2>1, <3>1 DEF PInv, Reads, Arrives, Available
  <2>2. CASE instructionCancelled
    <3>1. dAt' \in {"idle", "again"}
      BY <1>3, <2>2
    <3>. QED BY <1>1, <1>2, <2>2, <3>1 DEF PInv, Reads
  <2>. QED BY <2>1, <2>2
<1>7. Executing' /\ Writing' /\ Sending'
  BY <1>2, LaterKept, SendingKept DEF PInv
<1>8. Credits'
  BY <1>1, <1>2, <1>4, CreditsKeptByDecode DEF PInv, executing
<1>9. Cancelling'
  <2>1. d.i \in Nat /\ aborted \in Seq(Nat) /\ aborted' \in Seq(Nat)
    <3>1. d.i \in Nat /\ aborted \in Seq(Nat)
      BY DEF PInv, ReadOnce, Cancelling
    <3>2. Append(aborted, d.i) \in Seq(Nat)
      BY <3>1
    <3>. QED BY <1>3, <3>1, <3>2
  <2>2. hit = <<>> => aborted' = <<>> /\ ~instructionCancelled
    BY <1>3 DEF PInv, Cancelling
  <2>3. ASSUME "any stall" \notin Allows PROVE SparesNextPacket'
    <3>1. /\ \A k \in 1..Len(aborted) : aborted[k] = hit[1]
          /\ instructionCancelled => hit[1] = d.i
      BY <2>3 DEF PInv, Cancelling, SparesNextPacket
    <3>2. CASE aborted' = aborted
      BY <1>2, <3>1, <3>2 DEF SparesNextPacket
    <3>3. CASE instructionCancelled /\ aborted' = Append(aborted, d.i)
      BY <1>2, <2>1, <3>1, <3>3 DEF SparesNextPacket
    <3>. QED BY <1>3, <3>2, <3>3
  <2>4. ASSUME "unheard" \notin Allows, hit # <<>>, hit[1] = d.i, d.persistent
        PROVE  dAt' = "idle"
    BY <1>1, <1>3, <2>4 DEF PInv, Cancelling
  <2>. QED BY <1>1, <1>2, <1>4, <2>1, <2>2, <2>3, <2>4 DEF PInv, Cancelling
<1>. QED BY <1>1, <1>5, <1>6, <1>7, <1>8, <1>9 DEF PInv

(* A step that ends the instruction in the decode stage (Issue).               *)
LEMMA EndsKeeps ==
    ASSUME PInv, failed' = {}, dAt # "idle", dAt \notin WaitingPlaces \cup {"space", "next"},
           NEW e, Valid(e), Alike(e, d), Issue(e),
           UNCHANGED <<program, executing, r2, writing, regs, pred, filled, ready, receiveState,
                       data, owed, hit, r1, entry, arrived, taken, instructionCancelled, aborted>>,
           (r0' = r0 /\ pc' = pc) \/ (r0' = <<>> /\ pc' = d.i + 2),
           remote' => NoRepeats
    PROVE  PInv'
<1>1. /\ Valid(d') /\ d'.i = d.i /\ d'.op = d.op /\ d'.persistent = d.persistent
      /\ dAt' \in {"again", "idle"}
  BY Issued DEF Alike
<1>2. CASE r0' = r0 /\ pc' = pc
  BY <1>1, <1>2, GoesKeeps DEF WaitingPlaces, Places
<1>3. CASE r0' = <<>> /\ pc' = d.i + 2
  <2>1. ReadOnce'
    BY <1>1, <1>3 DEF PInv, ReadOnce
  <2>2. Decoding'
    BY <1>1 DEF PInv, Decoding, Places, Valid, NoRepeats
  <2>3. Reads'
    BY <1>1, ReadsKept DEF PInv
  <2>4. Executing' /\ Writing' /\ Sending'
    BY LaterKept, SendingKept DEF PInv
  <2>5. Credits'
    BY <1>1, CreditsKeptByDecode DEF PInv, executing
  <2>6. Cancelling'
    BY <1>1, CancellingKept DEF PInv
  <2>. QED BY <2>1, <2>2, <2>3, <2>4, <2>5, <2>6 DEF PInv
<1>. QED BY <1>2, <1>3

(* The operands are read: no empty channel is.                                 *)
LEMMA OperandsRead ==
    ASSUME PInv, dAt = "op", NEW e, Valid(e), Alike(e, d), SetOperands(e), Running
    PROVE  /\ failed' = {} /\ Valid(d') /\ Alike(d', e) /\ d'.looping = e.looping
           /\ taken' \in Nat /\ taken' <= arrived /\ arrived - taken' <= ChannelSize
<1> DEFINE read == (IF IsChannelEnd(e.src1) THEN 1 ELSE 0) + (IF IsChannelEnd(e.src2) THEN 1 ELSE 0)
<1>1. ~IsChannelEnd(e.src1) \/ ~IsChannelEnd(e.src2)
  BY DEF Valid, IsChannelEnd
<1>2. arrived \in Nat /\ taken \in Nat /\ taken <= arrived /\ arrived - taken <= ChannelSize
  BY DEF PInv, Reads
<1>3. read = 0 \/ (read = 1 /\ arrived > taken)
  BY <1>1 DEF PInv, Reads, Alike, Available
<1>4. d' = WithOperands(e) /\ taken' = taken + read /\ Check("read of an empty channel", taken + read <= arrived)
  BY DEF SetOperands
<1> HIDE DEF read
<1>5. taken + read <= arrived /\ taken + read \in Nat /\ arrived - (taken + read) <= ChannelSize
  BY <1>2, <1>3, PipelineAssumption
<1>6. failed' = {}
  BY <1>4, <1>5 DEF Check, PInv
<1>. QED BY <1>4, <1>5, <1>6, OperandsAlike

(* Operations that read operands and go on.                                    *)
LEMMA OperandsKeep ==
    ASSUME PInv, dAt = "op", NEW e, Valid(e), Alike(e, d), SetOperands(e), Running,
           UNCHANGED <<untouched, instructionCancelled, remote, previousMap, entry, issued, fetched, aborted>>,
           dAt' \in {"fetch", "credits", "next"}, dAt' = "next" => e.to # "core"
    PROVE  PInv'
<1>1. /\ failed' = {} /\ Valid(d') /\ Alike(d', e) /\ d'.looping = e.looping
      /\ taken' \in Nat /\ taken' <= arrived /\ arrived - taken' <= ChannelSize
  BY OperandsRead
<1>2. UNCHANGED <<program, r0, pc, executing, r2, writing, regs, pred, filled, ready, receiveState, arrived,
                  data, owed, hit, r1, entry, instructionCancelled, remote, aborted>>
  BY DEF untouched, fetching, executing, writing, table, bounds
<1>3. d'.i = d.i /\ d'.op = d.op /\ d'.persistent = d.persistent /\ d'.to = e.to
  BY <1>1 DEF Alike
<1>4. ReadOnce' /\ Decoding'
  BY <1>1, <1>2, <1>3, DecodingKept DEF PInv, Decoding, Places
<1>5. Reads'
  BY <1>1, <1>2 DEF PInv, Reads
<1>6. Executing' /\ Writing' /\ Sending'
  BY <1>2, LaterKept, SendingKept DEF PInv
<1>7. Credits'
  BY <1>2, <1>3, CreditsKeptByDecode DEF PInv, executing
<1>8. Cancelling'
  BY <1>2, <1>3, CancellingKept DEF PInv, WaitingPlaces
<1>. QED BY <1>1, <1>4, <1>5, <1>6, <1>7, <1>8 DEF PInv

(* To the execute stage with credits, unless it sends nothing to another core. *)
LEMMA GoesOnKeeps ==
    ASSUME PInv, Fetches \/ GoesOn \/ TestChannel \/ SelectChannel
    PROVE  PInv'
<1>1. Valid(d) /\ dAt = "op" /\ Running /\ d.i \in 0..FirstDatum
  BY DEF PInv, Decoding, Valid, Fetches, GoesOn, TestChannel, SelectChannel, Does, Decodes
<1>2. Alike(d, d)
  BY DEF Alike
<1>3. ASSUME NEW e, Valid(e), Alike(e, d), Goes(e) PROVE PInv'
  <2>1. dAt' = IF SendsOnNetwork(e) /\ ~e.looping THEN "credits" ELSE "next"
    BY <1>3 DEF Goes, GoTo
  <2>2. dAt' \in {"fetch", "credits", "next"} /\ (dAt' = "next" => e.to # "core")
    BY <1>3, <2>1 DEF SendsOnNetwork, Valid
  <2>. QED BY <1>1, <1>3, <2>2, OperandsKeep DEF Goes
<1>4. CASE Fetches
  BY <1>1, <1>2, <1>4, OperandsKeep DEF Fetches, GoTo
<1>5. CASE GoesOn
  BY <1>1, <1>2, <1>3, <1>5 DEF GoesOn
<1>6. CASE TestChannel
  <2> DEFINE e == [d EXCEPT !.hasResult = TRUE, !.result = d.i, !.outcome = Available]
  <2>1. Available \in BOOLEAN
    BY DEF Available
  <2>2. Valid(e) /\ Alike(e, d)
    BY <1>1, <2>1, ResultAlike
  <2>3. Goes(e)
    BY <1>6 DEF TestChannel
  <2> HIDE DEF e
  <2>. QED BY <1>3, <2>2, <2>3
<1>7. CASE SelectChannel
  <2>1. TRUE \in BOOLEAN
    OBVIOUS
  <2>. QED BY <1>1, <1>3, <1>7, <2>1, ResultAlike DEF SelectChannel
<1>. QED BY <1>4, <1>5, <1>6, <1>7

(* Operations that end in the decode stage.                                    *)
LEMMA EndsInDecodeKeeps ==
    ASSUME PInv, WaitForChannelEnds \/ ChannelEndsReady \/ Jump \/ StartRemoteExecution
    PROVE  PInv'
<1>1. /\ Valid(d) /\ dAt \in {"op", "woche"} /\ failed' = {} /\ Alike(d, d)
      /\ UNCHANGED <<program, executing, r2, writing, regs, pred, filled, ready, receiveState,
                     data, owed, hit, r1, entry, arrived, taken, instructionCancelled, aborted>>
  BY DEF PInv, Decoding, Alike, WaitForChannelEnds, ChannelEndsReady, Jump, StartRemoteExecution, Does, Decodes,
         Running, Ends, rest, fetching, executing, writing, channel, table, bounds
<1>2. remote' => NoRepeats
  <2>1. CASE StartRemoteExecution
    <3>1. program \in Programs /\ d.i \in 1..Len(program) /\ program[d.i].op = "rmtexecute"
      BY <2>1 DEF StartRemoteExecution, Does, Decodes, PInv, ReadOnce, Decoding
    <3>. QED BY <3>1, ProgramsAssumption DEF NoRepeats
  <2>2. CASE ~StartRemoteExecution
    BY <2>2 DEF PInv, Decoding, WaitForChannelEnds, ChannelEndsReady, Jump
  <2>. QED BY <2>1, <2>2
<1>3. CASE Issue(d)
  <2>1. (r0' = r0 /\ pc' = pc) \/ (r0' = <<>> /\ pc' = d.i + 2)
    BY DEF WaitForChannelEnds, ChannelEndsReady, Jump, StartRemoteExecution, DiscardInstruction, fetching, rest
  <2>. QED BY <1>1, <1>2, <1>3, <2>1, EndsKeeps DEF WaitingPlaces
<1>4. CASE WaitForChannelEnds /\ ~Issue(d)
  <2>1. d' = d /\ dAt' = "woche" /\ UNCHANGED <<r0, pc>>
    BY <1>4 DEF WaitForChannelEnds, Ends, GoTo, rest, fetching
  <2>. QED BY <1>1, <1>2, <2>1, GoesKeeps DEF Places, WaitingPlaces
<1>. QED BY <1>3, <1>4 DEF ChannelEndsReady, Jump, StartRemoteExecution, Ends

(* The fetch that waited for the fetch stage.                                  *)
LEMMA FetchKeeps ==
    ASSUME PInv, FetchAllowed \/ Reread
    PROVE  PInv'
<1>1. /\ Valid(d) /\ dAt \in {"fetch", "reread"} /\ failed' = {} /\ Alike(d, d) /\ remote' = remote
      /\ UNCHANGED <<program, pc, r0, executing, r2, writing, regs, pred, filled, ready, receiveState,
                     data, owed, hit, r1, entry, arrived, taken, instructionCancelled, aborted>>
  BY DEF PInv, Decoding, Alike, FetchAllowed, Reread, DoFetch, Decodes, Running, rest, fetching, executing,
         writing, channel, table, bounds
<1>2. remote' => NoRepeats
  BY <1>1 DEF PInv, Decoding
<1>3. ASSUME NEW e, Valid(e), Alike(e, d), Issue(e) PROVE PInv'
  BY <1>1, <1>2, <1>3, EndsKeeps DEF WaitingPlaces
<1>4. CASE FetchAllowed /\ d.by1
  BY <1>1, <1>2, <1>4, GoesKeeps DEF FetchAllowed, GoTo, Places, WaitingPlaces, rest
<1>5. CASE FetchAllowed /\ ~d.by1
  BY <1>1, <1>3, <1>5 DEF FetchAllowed, DoFetch
<1>6. CASE Reread
  <2> DEFINE v == ReadReg(d.src1, taken)
             e == [d EXCEPT !.op1 = v]
  <2>1. Issue(e)
    BY <1>6 DEF Reread, DoFetch
  <2>2. Valid(e) /\ Alike(e, d)
    BY <1>1, RereadAlike
  <2> HIDE DEF e
  <2>. QED BY <1>3, <2>1, <2>2
<1>. QED BY <1>4, <1>5, <1>6

(* The entry counts (ChannelMapEntry): it is that of a connection that is used. *)
LEMMA Counts ==
    ASSUME Credits
    PROVE  /\ CM!canSend(entry) <=> entry.credits >= 1
           /\ CM!canSend(entry) => /\ CM!removeCredit(entry).credits = entry.credits - 1
                                   /\ CM!removeCredit(entry) \in
                                        [network : {"GLOBAL"}, destination : {1}, credits : Nat, acquired : {TRUE}]
           /\ CM!addCredits(entry, 1).credits = entry.credits + 1
           /\ CM!addCredits(entry, 1) \in
                [network : {"GLOBAL"}, destination : {1}, credits : Nat, acquired : {TRUE}]
<1>1. entry.credits \in 0..62
  BY CreditsBounded
<1>2. /\ entry \in [network : {"GLOBAL"}, destination : {1}, credits : Nat, acquired : {TRUE}]
      /\ CM!useCredits(entry) /\ entry.acquired = TRUE
  BY DEF Credits, CM!useCredits
<1>3. CM!canSend(entry) <=> entry.credits >= 1
  BY <1>2 DEF CM!canSend, CM!haveNCredits
<1>4. ASSUME entry.credits >= 1
      PROVE  CM!removeCredit(entry) = [entry EXCEPT !.credits = entry.credits - 1]
  BY <1>1, <1>2 DEF CM!removeCredit, CM!INFINITE_CREDIT_COUNT
<1>5. CM!addCredits(entry, 1) = [entry EXCEPT !.credits = entry.credits + 1]
  <2>1. CM!addCredits(entry, 1) = CM!incrementCredits(entry, 1)
    BY <1>2 DEF CM!addCredits
  <2>2. (entry.credits + 1) % 64 = entry.credits + 1
    BY <1>1
  <2>. QED BY <1>1, <2>1, <2>2 DEF CM!incrementCredits, CM!INFINITE_CREDIT_COUNT
<1>6. ASSUME NEW n \in Nat
      PROVE  /\ [entry EXCEPT !.credits = n].credits = n
             /\ [entry EXCEPT !.credits = n] \in
                  [network : {"GLOBAL"}, destination : {1}, credits : Nat, acquired : {TRUE}]
  BY <1>2
<1>7. entry.credits + 1 \in Nat /\ (entry.credits >= 1 => entry.credits - 1 \in Nat)
  BY <1>1
<1>. QED BY <1>3, <1>4, <1>5, <1>6, <1>7

(* A credit is taken for what goes to another core (waitOnCredits).            *)
LEMMA WaitOnCreditsKeeps ==
    ASSUME PInv, WaitOnCredits \/ WaitForSpace
    PROVE  PInv'
<1>1. /\ Valid(d) /\ dAt \in {"credits", "space"} /\ failed' = {} /\ d' = d /\ dAt' \in {"next", "space"}
      /\ UNCHANGED <<program, pc, r0, executing, r2, writing, regs, pred, filled, ready, receiveState, remote,
                     data, owed, hit, r1, arrived, taken, instructionCancelled, aborted>>
  BY DEF PInv, Decoding, WaitOnCredits, WaitForSpace, Decodes, Running, GoTo, rest, fetching, executing,
         writing, channel, table, bounds
<1>2. ReadOnce' /\ Decoding'
  BY <1>1, DecodingKept DEF PInv, Decoding, Places
<1>3. Reads'
  BY <1>1, ReadsKept DEF PInv
<1>4. Executing' /\ Writing' /\ Sending'
  BY <1>1, LaterKept, SendingKept DEF PInv
<1>5. Cancelling'
  BY <1>1, CancellingKept DEF PInv, WaitingPlaces
<1>6. Credits'
  <2>1. Credits /\ AtExecute' = AtExecute
    BY <1>1 DEF PInv, AtExecute, executing
  <2>2. CASE WaitForSpace
    <3>1. AtDecode' = AtDecode /\ entry' = entry
      BY <1>1, <2>2 DEF AtDecode, WaitForSpace, Decodes
    <3>. QED BY <1>1, <2>1, <3>1, CreditsKept
  <2>3. CASE WaitOnCredits
    <3>1. AtDecode = 0 /\ AtDecode' = Takes(d)
      BY <1>1, <2>3 DEF AtDecode, WaitOnCredits, Decodes
    <3>2. CASE d.to = "core"
      <4>1. CM!canSend(entry) /\ entry' = CM!removeCredit(entry)
        BY <2>3, <3>2 DEF WaitOnCredits, ToCore
      <4>2. entry'.credits = entry.credits - 1 /\ entry.credits \in Nat
        BY <2>1, <4>1, Counts, CreditsBounded
      <4>3. Takes(d) = 1 /\ owed \in Nat
        BY <2>1, <3>2 DEF Takes, Credits
      <4>4. PICK h \in Nat : h = Holds(r1) + Holds(data) + AtExecute
        BY HoldsOne DEF AtExecute
      <4>5. /\ Holds(r1) + Holds(data) + AtDecode + AtExecute = h
            /\ Holds(r1') + Holds(data') + AtDecode' + AtExecute' = h + 1
        BY <1>1, <2>1, <3>1, <4>3, <4>4, HoldsOne DEF AtExecute
      <4>6. /\ entry'.credits + owed' + (h + 1) = entry.credits + owed + h
            /\ owed' \in Nat
        BY <1>1, <4>2, <4>3
      <4>. QED BY <2>1, <4>1, <4>5, <4>6, Counts, CreditsMove
    <3>3. CASE d.to # "core"
      <4>1. entry' = entry /\ Takes(d) = 0
        BY <2>3, <3>3 DEF WaitOnCredits, ToCore, Takes
      <4>. QED BY <1>1, <2>1, <3>1, <4>1, CreditsKept
    <3>. QED BY <3>2, <3>3
  <2>. QED BY <2>2, <2>3, <1>1 DEF WaitOnCredits, WaitForSpace
<1>. QED BY <1>1, <1>2, <1>3, <1>4, <1>5, <1>6 DEF PInv

(* The instruction goes to the execute stage, with its credit.                 *)
LEMMA OutputKeeps ==
    ASSUME PInv, Output
    PROVE  PInv'
<1>1. /\ Valid(d) /\ dAt = "next" /\ failed' = {} /\ r1 = <<>> /\ r1' = <<d>> /\ Issue(d) /\ Alike(d, d)
      /\ UNCHANGED <<program, pc, r0, executing, r2, writing, regs, pred, filled, ready, receiveState, remote,
                     data, owed, hit, entry, arrived, taken, instructionCancelled, aborted>>
  BY DEF PInv, Decoding, Alike, Output, Decodes, Running, fetching, executing, writing, channel, table, bounds
<1>2. /\ Valid(d') /\ d'.i = d.i /\ d'.op = d.op /\ d'.persistent = d.persistent
      /\ dAt' \in {"again", "idle"}
  BY <1>1, Issued DEF Alike
<1>3. ReadOnce' /\ Decoding'
  BY <1>1, <1>2, DecodingKept DEF PInv, Decoding, Places
<1>4. Reads'
  BY <1>1, <1>2, ReadsKept DEF PInv
<1>5. Executing' /\ Writing'
  BY <1>1, LaterKept DEF PInv
<1>6. Sending'
  BY <1>1 DEF PInv, Sending, Latch
<1>7. Credits'
  <2>1. AtDecode = Takes(d) /\ AtDecode' = 0 /\ AtExecute' = AtExecute /\ Holds(r1) = 0 /\ Holds(r1') = Takes(d)
    BY <1>1, <1>2, HoldsOne DEF AtDecode, AtExecute, executing
  <2>2. /\ {AtExecute, Holds(data), Takes(d)} \subseteq Nat
        /\ Holds(data') = Holds(data)
    BY <1>1, HoldsOne DEF AtExecute
  <2>3. Holds(r1') + Holds(data') + AtDecode' + AtExecute' = Holds(r1) + Holds(data) + AtDecode + AtExecute
    BY <2>1, <2>2
  <2>. QED BY <1>1, <2>3, CreditsMove DEF PInv, Credits
<1>8. Cancelling'
  BY <1>1, <1>2, CancellingKept DEF PInv, WaitingPlaces
<1>. QED BY <1>1, <1>3, <1>4, <1>5, <1>6, <1>7, <1>8 DEF PInv

(* persistentInstruction(): once more, unless NXIPK has found it.              *)
LEMMA AgainKeeps ==
    ASSUME PInv, Again
    PROVE  PInv'
<1>1. /\ Valid(d) /\ dAt = "again" /\ failed' = {} /\ d' = d /\ dAt' = "src1"
      /\ UNCHANGED <<program, pc, r0, executing, r2, writing, regs, pred, filled, ready, receiveState, remote,
                     data, owed, hit, r1, entry, arrived, taken, instructionCancelled, aborted>>
  BY DEF PInv, Decoding, Again, Decodes, Running, GoTo, fetching, executing, writing, channel, table, inDecode
<1>2. remote' => NoRepeats
  BY <1>1 DEF PInv, Decoding
<1>. QED BY <1>1, <1>2, GoesKeeps DEF Places, WaitingPlaces

(* The steps of the decode stage.                                              *)
LEMMA DecodeKeeps ==
    ASSUME PInv, Decode
    PROVE  PInv'
BY BeginKeeps, PredicateKeeps, Operand1Keeps, Operand2Keeps, GoesOnKeeps, EndsInDecodeKeeps, FetchKeeps,
   WaitOnCreditsKeeps, OutputKeeps, AgainKeeps DEF Decode, Operation

-----------------------------------------------------------------------------
(* The other stages, and what surrounds the core.                              *)

(* The decode stage is left alone.                                             *)
LEMMA DecodeLeftAlone ==
    ASSUME ReadOnce, Decoding, Reads, Cancelling,
           UNCHANGED <<program, pc, r0, d, dAt, instructionCancelled, remote, arrived, taken, hit, aborted>>
    PROVE  ReadOnce' /\ Decoding' /\ Reads' /\ Cancelling'
<1>1. ReadOnce' /\ Decoding'
  BY DEF ReadOnce, Decoding, NoRepeats
<1>2. Reads'
  BY DEF Reads, Arrives, Available
<1>3. Cancelling'
  BY DEF Cancelling, SparesNextPacket
<1>. QED BY <1>1, <1>2, <1>3

(* At the edge each stage takes what its register has.                         *)
LEMMA EdgeKeeps ==
    ASSUME PInv, Edge
    PROVE  PInv'
<1>1. /\ failed' = {}
      /\ UNCHANGED <<program, pc, instructionCancelled, remote, continuingStore, regs, pred, entry, arrived,
                     taken, data, receiveState, filled, ready, owed, hit, aborted>>
  BY DEF Edge, Running, channel, inDecode
<1>2. \/ DecodeTakes /\ d' = DecodedInst(Head(r0)) /\ dAt' = "new" /\ r0' = <<>>
      \/ UNCHANGED <<d, dAt, r0>>
  BY DEF Edge
<1>3. ReadOnce' /\ Decoding' /\ Reads' /\ Cancelling'
  <2>1. CASE UNCHANGED <<d, dAt, r0>>
    BY <1>1, <2>1, DecodeLeftAlone DEF PInv
  <2>2. CASE DecodeTakes /\ d' = DecodedInst(Head(r0)) /\ dAt' = "new" /\ r0' = <<>>
    <3>1. /\ program \in Programs /\ pc \in Nat /\ dAt = "idle" /\ d.i \in Nat
          /\ r0 = <<r0[1]>> /\ r0[1] \in 1..Len(program) /\ d.i < r0[1] /\ r0[1] < pc
      BY <2>2 DEF PInv, ReadOnce, DecodeTakes, CanRead
    <3>2. PICK k \in 1..Len(program) : k = r0[1]
      BY <3>1
    <3>3. Head(r0) = k
      BY <3>1, <3>2
    <3>4. /\ Valid(d') /\ d'.i = k /\ d'.looping = FALSE
          /\ d'.op = program[k].op /\ d'.persistent = program[k].persistent
      BY <2>2, <3>1, <3>3, DecodedIsValid
    <3>5. ReadOnce'
      BY <1>1, <2>2, <3>1, <3>2, <3>4 DEF ReadOnce
    <3>6. Decoding'
      BY <1>1, <2>2, <3>1, <3>4 DEF PInv, Decoding, Places, NoRepeats, Valid
    <3>7. Reads'
      BY <1>1, <2>2, ReadsKept DEF PInv
    <3>8. Cancelling'
      <4>1. ASSUME hit # <<>> PROVE hit[1] \in Nat /\ hit[1] < k
        <5>1. hit[1] \in Nat /\ hit[1] <= d.i
          BY <4>1 DEF PInv, Cancelling
        <5>2. d.i < k
          BY <3>1, <3>2
        <5>. QED BY <3>1, <5>1, <5>2
      <4>2. "any stall" \notin Allows => ~instructionCancelled /\ SparesNextPacket
        BY <3>1 DEF PInv, Cancelling, WaitingPlaces
      <4>3. hit # <<>> => hit'[1] \in Nat /\ hit'[1] <= d'.i /\ hit'[1] # d'.i
        BY <1>1, <3>2, <3>4, <4>1
      <4>4. SparesNextPacket' = SparesNextPacket
        BY <1>1 DEF SparesNextPacket
      <4>. QED BY <1>1, <4>2, <4>3, <4>4 DEF PInv, Cancelling
    <3>. QED BY <3>5, <3>6, <3>7, <3>8
  <2>. QED BY <1>2, <2>1, <2>2
<1>4. \/ WriteTakes /\ w' = Head(r2) /\ wAt' = "new" /\ r2' = <<>>
      \/ ~WriteTakes /\ UNCHANGED <<w, wAt, r2>>
  BY DEF Edge
<1>5. \/ ExecuteTakes /\ x' = Head(r1) /\ r1' = <<>> /\ xAt' = "new"
      \/ ~ExecuteTakes /\ UNCHANGED <<x, r1>> /\ xAt' = xAt
      \/ ~ExecuteTakes /\ UNCHANGED <<x, r1>> /\ xAt \in {"mul", "store"} /\ xAt' = "new"
  BY DEF Edge
<1>6. Latch(r1) /\ Latch(r2) /\ (ExecuteTakes => r1 # <<>> /\ xAt = "idle") /\ (WriteTakes => r2 # <<>>)
  BY DEF PInv, Sending, ExecuteTakes, WriteTakes, CanRead
<1>7. ASSUME NEW s, Latch(s), s # <<>>
      PROVE  Valid(Head(s)) /\ Holds(s) = Takes(Head(s))
  <2>1. PICK e : s = <<e>> /\ Valid(e)
    BY <1>7 DEF Latch
  <2>2. Head(s) = e
    BY <2>1
  <2>. QED BY <2>1, <2>2, HoldsOne
<1>8. Writing'
  BY <1>1, <1>4, <1>6, <1>7 DEF PInv, Writing
<1>9. Sending'
  BY <1>1, <1>4, <1>5, <1>6 DEF PInv, Sending, Latch
<1>10. Executing'
  <2>1. Executing
    BY DEF PInv
  <2>2. xAt' # "idle" => Valid(x')
    BY <1>5, <1>6, <1>7, <2>1 DEF Executing
  <2>3. r2 = <<>> => r2' = <<>>
    BY <1>4
  <2>4. /\ xWaits' \subseteq {"edge", "read", "ack"}
        /\ "read" \in xWaits /\ "read" \notin xWaits' => r2' = <<>>
        /\ xAt = "store" /\ xAt' = "new" => xWaits' = {} \/ ExecuteTakes
    BY <1>4, <2>1 DEF Edge, Executing
  <2>5. ExecuteTakes => r2' = <<>>
    BY <1>4, <1>6, <2>3 DEF ExecuteTakes, CanWrite
  <2>6. xAt' \in {"new", "wait", "mul"} => r2' = <<>>
    BY <1>5, <1>6, <2>1, <2>3, <2>4, <2>5 DEF Executing
  <2>7. xAt' = "store" => continuingStore' /\ ("read" \in xWaits' \/ r2' = <<>>)
    BY <1>1, <1>5, <2>1, <2>3, <2>4 DEF Executing
  <2>8. continuingStore' =>
          /\ xAt' \in {"new", "wait", "store"} /\ x'.op = "store" /\ x'.to # "core"
          /\ Core!Passes(x'.pred, pred')
    BY <1>1, <1>5, <1>6, <2>1 DEF Executing
  <2>9. continuingStore' \in BOOLEAN /\ xAt' \in {"idle", "new", "wait", "mul", "store"}
    BY <1>1, <1>5, <2>1 DEF Executing
  <2>. QED BY <2>2, <2>4, <2>6, <2>7, <2>8, <2>9 DEF Executing
<1>11. Credits'
  <2>1. AtDecode' = AtDecode
    BY <1>2 DEF AtDecode, DecodeTakes
  <2>2. Holds(data') = Holds(data)
    BY <1>1
  <2>3. CASE ExecuteTakes /\ x' = Head(r1) /\ r1' = <<>> /\ xAt' = "new"
    <3>1. AtExecute = 0 /\ AtExecute' = Holds(r1) /\ Holds(r1') = 0
      BY <1>6, <1>7, <2>3, HoldsOne DEF AtExecute
    <3>2. {AtDecode, Holds(data), Holds(r1)} \subseteq Nat
      BY HoldsOne DEF AtDecode
    <3>3. Holds(r1') + Holds(data') + AtDecode' + AtExecute' = Holds(r1) + Holds(data) + AtDecode + AtExecute
      BY <2>1, <2>2, <3>1, <3>2
    <3>. QED BY <1>1, <3>3, CreditsMove DEF PInv, Credits
  <2>4. CASE ~ExecuteTakes /\ UNCHANGED <<x, r1>>
    <3>1. xAt = "store" => Takes(x) = 0
      BY DEF PInv, Executing, Takes
    <3>2. AtExecute' = AtExecute
      BY <1>5, <2>4, <3>1 DEF AtExecute
    <3>. QED BY <1>1, <2>1, <2>4, <3>2, CreditsKept DEF PInv
  <2>. QED BY <1>5, <2>3, <2>4
<1>. QED BY <1>1, <1>3, <1>8, <1>9, <1>10, <1>11 DEF PInv

(* The write stage stores its result.                                          *)
LEMMA WriteKeeps ==
    ASSUME PInv, WriteResult
    PROVE  PInv'
<1>1. /\ failed' = {} /\ wAt = "new" /\ wAt' = "idle"
      /\ regs' = IF w.dest = 0 THEN regs ELSE [regs EXCEPT ![w.dest] = w.result]
      /\ UNCHANGED <<fetching, decoding, r1, executing, r2, w, pred, entry, channel, table, bounds, inDecode>>
  BY DEF WriteResult, Running
<1>2. ReadOnce' /\ Decoding' /\ Reads' /\ Cancelling'
  BY <1>1, DecodeLeftAlone DEF PInv, fetching, decoding, channel, bounds, inDecode
<1>3. Sending'
  BY <1>1, SendingKept DEF PInv, table
<1>4. Executing'
  BY <1>1 DEF PInv, Executing, executing
<1>5. Writing'
  <2>1. /\ w.dest \in Regs \cup {0} /\ w.result \in 0..FirstDatum
        /\ regs \in [Regs -> 0..(FirstDatum + MaxData)] /\ pred \in BOOLEAN
    BY <1>1 DEF PInv, Writing, Valid
  <2>2. w.result \in 0..(FirstDatum + MaxData)
    BY <2>1, PipelineAssumption
  <2>. QED BY <1>1, <2>1, <2>2 DEF Writing
<1>6. Credits'
  BY <1>1, CreditsKept DEF PInv, AtDecode, AtExecute, decoding, executing, table
<1>. QED BY <1>1, <1>2, <1>3, <1>4, <1>5, <1>6 DEF PInv

(***************************************************************************)
(* The execute stage                                                       *)
(***************************************************************************)
(* The execute stage leaves decode and write alone.                            *)
LEMMA ExecuteLeaves ==
    ASSUME PInv, UNCHANGED <<fetching, decoding, r1, writing, regs, channel, filled, ready, owed,
                             receiveState, bounds, inDecode>>
    PROVE  /\ ReadOnce' /\ Decoding' /\ Reads' /\ Cancelling'
           /\ pred' \in BOOLEAN => Writing'
           /\ Latch(r2') /\ Latch(data') => Sending'
           /\ AtDecode' = AtDecode /\ Holds(r1') = Holds(r1)
<1>1. ReadOnce' /\ Decoding' /\ Reads' /\ Cancelling'
  BY DecodeLeftAlone DEF PInv, fetching, decoding, channel, bounds, inDecode
<1>2. pred' \in BOOLEAN => Writing'
  BY DEF PInv, Writing, writing
<1>3. Latch(r2') /\ Latch(data') => Sending'
  BY DEF PInv, Sending, Latch
<1>4. AtDecode' = AtDecode
  BY DEF AtDecode, decoding
<1>. QED BY <1>1, <1>2, <1>3, <1>4

(* A result goes to the write stage, and to the send table with its credit: no *)
(* register is written twice (ExecuteStage::sendOutput).                       *)
LEMMA OutputSent ==
    ASSUME PInv, xAt \in {"new", "wait"}, CanSend(x), Running,
           NEW e, Valid(e), e.to = x.to, SendOutput(e)
    PROVE  /\ failed' = {} /\ r2 = <<>> /\ Latch(r2') /\ Latch(data')
           /\ Holds(data') = Holds(data) + Takes(x) /\ AtExecute = Takes(x)
<1>1. r2 = <<>> /\ failed = {}
  BY DEF PInv, Executing, Running
<1>2. failed' = {}
  BY <1>1 DEF SendOutput, Check, CanWrite
<1>3. Latch(r2')
  BY DEF SendOutput, Latch
<1>4. AtExecute = Takes(x)
  BY DEF AtExecute
<1>5. CASE SendsOnNetwork(e)
  <2>1. data = <<>> /\ data' = <<e>>
    BY <1>5 DEF CanSend, SendOutput, Buffered, SendsOnNetwork
  <2>2. Holds(data) = 0 /\ Holds(data') = Takes(e) /\ Takes(e) = Takes(x) /\ Takes(x) \in {0, 1}
    BY <2>1, HoldsOne DEF Takes
  <2>. QED BY <1>1, <1>2, <1>3, <1>4, <2>1, <2>2 DEF Latch
<1>6. CASE ~SendsOnNetwork(e)
  <2>1. data' = data /\ Takes(x) = 0
    BY <1>6 DEF SendOutput, Buffered, SendsOnNetwork, Takes
  <2>2. Latch(data) /\ Holds(data) \in {0, 1}
    BY HoldsOne DEF PInv, Sending
  <2>. QED BY <1>1, <1>2, <1>3, <1>4, <2>1, <2>2 DEF Latch
<1>. QED BY <1>5, <1>6

(* A step that sends.                                                          *)
LEMMA SendingKeeps ==
    ASSUME PInv, xAt \in {"new", "wait"}, CanSend(x), Running,
           NEW e, Valid(e), e.to = x.to, SendOutput(e),
           UNCHANGED <<fetching, decoding, r1, writing, regs, channel, filled, ready, owed, entry,
                       receiveState, bounds, inDecode>>,
           pred' \in BOOLEAN, Executing', xAt' \in {"idle", "store"}
    PROVE  PInv'
<1>1. /\ failed' = {} /\ r2 = <<>> /\ Latch(r2') /\ Latch(data')
      /\ Holds(data') = Holds(data) + Takes(x) /\ AtExecute = Takes(x)
  BY OutputSent
<1>2. /\ ReadOnce' /\ Decoding' /\ Reads' /\ Cancelling' /\ Writing' /\ Sending'
      /\ AtDecode' = AtDecode /\ Holds(r1') = Holds(r1)
  BY <1>1, ExecuteLeaves
<1>3. Credits'
  <2>1. AtExecute' = 0
    BY DEF AtExecute
  <2>2. {AtDecode, Holds(data), Holds(r1), Takes(x)} \subseteq Nat
    BY HoldsOne DEF AtDecode
  <2>3. Holds(r1') + Holds(data') + AtDecode' + AtExecute' = Holds(r1) + Holds(data) + AtDecode + AtExecute
    BY <1>1, <1>2, <2>1, <2>2
  <2>. QED BY <2>3, CreditsMove DEF PInv, Credits
<1>. QED BY <1>1, <1>2, <1>3 DEF PInv

(* The execute stage waits for the send table.                                 *)
LEMMA BlockedKeeps ==
    ASSUME PInv, Blocked
    PROVE  PInv'
<1>1. /\ failed' = {} /\ xAt = "new" /\ xAt' = "wait"
      /\ UNCHANGED <<fetching, decoding, r1, x, xWaits, continuingStore, r2, data, pred, writing, regs, channel,
                     filled, ready, owed, entry, receiveState, bounds, inDecode>>
  BY DEF Blocked, Running, table
<1>2. /\ ReadOnce' /\ Decoding' /\ Reads' /\ Cancelling' /\ Writing' /\ Sending' /\ AtDecode' = AtDecode
  BY <1>1, ExecuteLeaves DEF PInv, Writing, Sending
<1>3. Executing'
  BY <1>1 DEF PInv, Executing
<1>4. Credits'
  <2>1. AtExecute' = AtExecute
    BY <1>1 DEF AtExecute
  <2>. QED BY <1>1, <1>2, <2>1, CreditsKept DEF PInv
<1>. QED BY <1>1, <1>2, <1>3, <1>4 DEF PInv

(* What was computed in the decode stage passes on.                            *)
LEMMA HasResultKeeps ==
    ASSUME PInv, HasResult
    PROVE  PInv'
<1>1. /\ xAt \in {"new", "wait"} /\ CanSend(x) /\ Running /\ Valid(x) /\ SendOutput(x)
      /\ ~continuingStore /\ UpdatePredicate(x) /\ xAt' = "idle" /\ UNCHANGED <<x, xWaits, continuingStore>>
      /\ UNCHANGED <<fetching, decoding, r1, writing, regs, channel, filled, ready, owed, entry,
                     receiveState, bounds, inDecode>>
  BY DEF HasResult, Executes, PInv, Executing
<1>2. pred' \in BOOLEAN
  BY <1>1 DEF UpdatePredicate, Valid, PInv, Writing
<1>3. Executing'
  BY <1>1 DEF PInv, Executing
<1>. QED BY <1>1, <1>2, <1>3, SendingKeeps

(* A squashed instruction gives its credit back (the HACK).                    *)
LEMMA SquashKeeps ==
    ASSUME PInv, Squash
    PROVE  PInv'
<1>1. /\ xAt \in {"new", "wait"} /\ failed' = {} /\ ~Core!Passes(x.pred, pred)
      /\ xAt' = "idle" /\ UNCHANGED <<xWaits, continuingStore, r2, data, pred>>
      /\ UNCHANGED <<fetching, decoding, r1, writing, regs, channel, filled, ready, owed,
                     receiveState, bounds, inDecode>>
      /\ entry' = CreditReturned(x)
  BY DEF Squash, NewInput, Executes, Running, table
<1>2. ~continuingStore
  BY <1>1 DEF PInv, Executing
<1>3. /\ ReadOnce' /\ Decoding' /\ Reads' /\ Cancelling' /\ Writing' /\ Sending' /\ AtDecode' = AtDecode
  BY <1>1, ExecuteLeaves DEF PInv, Writing, Sending
<1>4. Executing'
  BY <1>1, <1>2 DEF PInv, Executing
<1>5. Credits'
  <2>1. AtExecute = Takes(x) /\ AtExecute' = 0
    BY <1>1 DEF AtExecute
  <2>2. /\ entry'.credits = entry.credits + Takes(x)
        /\ entry' \in [network : {"GLOBAL"}, destination : {1}, credits : Nat, acquired : {TRUE}]
    <3>1. Credits /\ entry.credits \in Nat
          /\ entry \in [network : {"GLOBAL"}, destination : {1}, credits : Nat, acquired : {TRUE}]
      BY DEF PInv, Credits
    <3>2. CASE x.to = "core"
      BY <1>1, <3>1, <3>2, Counts DEF CreditReturned, ToCore, Takes
    <3>3. CASE x.to # "core"
      <4>1. entry' = entry /\ Takes(x) = 0
        BY <1>1, <3>3 DEF CreditReturned, ToCore, Takes
      <4>2. entry'.credits = entry.credits + Takes(x)
        <5>1. PICK n \in Nat : n = entry.credits
          BY <3>1
        <5>. QED BY <4>1, <5>1
      <4>3. entry' \in [network : {"GLOBAL"}, destination : {1}, credits : Nat, acquired : {TRUE}]
        BY <3>1, <4>1
      <4>. QED BY <4>2, <4>3
    <3>. QED BY <3>2, <3>3
  <2>3. PICK h \in Nat : h = Holds(r1) + Holds(data) + AtDecode
    BY HoldsOne DEF AtDecode
  <2>4. Takes(x) \in Nat /\ entry.credits \in Nat /\ owed \in Nat
    BY HoldsOne DEF PInv, Credits
  <2>5. Holds(r1') + Holds(data') + AtDecode' + AtExecute' = h
    BY <1>1, <1>3, <2>1, <2>3, HoldsOne DEF AtDecode
  <2>6. Holds(r1) + Holds(data) + AtDecode + AtExecute = h + Takes(x)
    BY <2>1, <2>3
  <2>7. entry'.credits + owed' + h = entry.credits + owed + (h + Takes(x))
    BY <1>1, <2>2, <2>4
  <2>. QED BY <1>1, <2>2, <2>4, <2>5, <2>6, <2>7, CreditsMove DEF PInv
<1>. QED BY <1>1, <1>3, <1>4, <1>5 DEF PInv

(* A multiplication takes another cycle.                                       *)
LEMMA StartMultiplyKeeps ==
    ASSUME PInv, StartMultiply
    PROVE  PInv'
<1>1. /\ xAt \in {"new", "wait"} /\ failed' = {} /\ x.op = "mul" /\ Valid(x)
      /\ xAt' = "mul" /\ UNCHANGED <<xWaits, continuingStore, r2, data, pred>>
      /\ UNCHANGED <<fetching, decoding, r1, writing, regs, channel, filled, ready, owed, entry,
                     receiveState, bounds, inDecode>>
      /\ x' = [Collected(x) EXCEPT !.busy = TRUE]
  BY DEF StartMultiply, NewInput, Executes, Running, table, PInv, Executing
<1>2. Valid(x') /\ x'.to = x.to
  <2>1. Valid(Collected(x)) /\ Collected(x).to = x.to
    BY <1>1, CollectedAlike DEF Alike
  <2>2. ASSUME NEW e, Valid(e) PROVE LET f == [e EXCEPT !.busy = TRUE] IN Valid(f) /\ f.to = e.to
    BY <2>2 DEF Valid, Fields
  <2>. QED BY <1>1, <2>1, <2>2
<1>3. /\ ReadOnce' /\ Decoding' /\ Reads' /\ Cancelling' /\ Writing' /\ Sending' /\ AtDecode' = AtDecode
  BY <1>1, ExecuteLeaves DEF PInv, Writing, Sending
<1>4. Executing'
  BY <1>1, <1>2 DEF PInv, Executing
<1>5. Credits'
  <2>1. AtExecute' = AtExecute
    BY <1>1, <1>2 DEF AtExecute, Takes
  <2>. QED BY <1>1, <1>3, <2>1, CreditsKept DEF PInv
<1>. QED BY <1>1, <1>3, <1>4, <1>5 DEF PInv

(* The instruction has its result.                                             *)
LEMMA ComputeKeeps ==
    ASSUME PInv, Compute
    PROVE  PInv'
<1> DEFINE inst == IF x.busy THEN x ELSE Collected(x)
           done == [inst EXCEPT !.result = inst.i, !.hasResult = TRUE]
<1>1. /\ xAt \in {"new", "wait"} /\ CanSend(x) /\ Running /\ Valid(x) /\ SendOutput(done) /\ x' = done
      /\ UpdatePredicate(done) /\ xAt' = "idle" /\ UNCHANGED <<xWaits, continuingStore>> /\ x.op # "store"
      /\ UNCHANGED <<fetching, decoding, r1, writing, regs, channel, filled, ready, owed, entry,
                     receiveState, bounds, inDecode>>
  BY DEF Compute, NewInput, Executes, PInv, Executing
<1>2. Valid(done) /\ done.to = x.to
  <2>1. Valid(inst) /\ inst.to = x.to
    BY <1>1, CollectedAlike DEF Alike
  <2> HIDE DEF inst
  <2>. QED BY <2>1 DEF Valid, Fields
<1> HIDE DEF done
<1>3. pred' \in BOOLEAN
  BY <1>1, <1>2 DEF UpdatePredicate, Valid, PInv, Writing
<1>4. Executing'
  BY <1>1 DEF PInv, Executing
<1>. QED BY <1>1, <1>2, <1>3, <1>4, SendingKeeps

(* A store sends its address, and waits for the cycle to end, for the register *)
(* to be read and for the send table to take it (memoryStorePhase1).           *)
LEMMA SendAddressKeeps ==
    ASSUME PInv, SendAddress
    PROVE  PInv'
<1> DEFINE e == [Collected(x) EXCEPT !.part = "address", !.hasResult = TRUE]
<1>1. /\ xAt \in {"new", "wait"} /\ CanSend(x) /\ Running /\ Valid(x) /\ SendOutput(e) /\ x' = e
      /\ xAt' = "store" /\ xWaits' = {"edge", "read", "ack"} /\ continuingStore' = TRUE /\ pred' = pred
      /\ x.op = "store" /\ ~x.hasResult /\ Core!Passes(x.pred, pred)
      /\ UNCHANGED <<fetching, decoding, r1, writing, regs, channel, filled, ready, owed, entry,
                     receiveState, bounds, inDecode>>
  BY DEF SendAddress, NewInput, Executes, PInv, Executing
<1>2. Valid(e) /\ e.to = x.to /\ e.op = x.op /\ e.pred = x.pred
  <2>1. Valid(Collected(x)) /\ Collected(x).to = x.to /\ Collected(x).op = x.op /\ Collected(x).pred = x.pred
    BY <1>1, CollectedAlike DEF Alike
  <2>2. ASSUME NEW f, Valid(f)
        PROVE  LET g == [f EXCEPT !.part = "address", !.hasResult = TRUE]
               IN  Valid(g) /\ g.to = f.to /\ g.op = f.op /\ g.pred = f.pred
    BY <2>2 DEF Valid, Fields
  <2>. QED BY <2>1, <2>2
<1>3. x.to # "core"
  BY <1>1 DEF Valid
<1> HIDE DEF e
<1>4. pred' \in BOOLEAN
  BY <1>1 DEF PInv, Writing
<1>5. Executing'
  <2>1. Core!Passes(x'.pred, pred') = Core!Passes(x.pred, pred)
    BY <1>1, <1>2
  <2>. QED BY <1>1, <1>2, <1>3, <2>1 DEF Executing
<1>. QED BY <1>1, <1>2, <1>4, <1>5, SendingKeeps

(* And then its data, since the predicate is as it was (memoryStorePhase2).    *)
LEMMA SendPayloadKeeps ==
    ASSUME PInv, SendPayload
    PROVE  PInv'
<1> DEFINE e == [x EXCEPT !.part = "data"]
<1>1. /\ xAt \in {"new", "wait"} /\ CanSend(x) /\ Running /\ Valid(x) /\ SendOutput(e)
      /\ xAt' = "idle" /\ xWaits' = xWaits /\ continuingStore' = FALSE /\ pred' = pred
      /\ UNCHANGED <<fetching, decoding, r1, writing, regs, channel, filled, ready, owed, entry,
                     receiveState, bounds, inDecode>>
  BY DEF SendPayload, NewInput, Executes, PInv, Executing
<1>2. Valid(e) /\ e.to = x.to
  BY <1>1 DEF Valid, Fields
<1> HIDE DEF e
<1>3. pred' \in BOOLEAN /\ Executing'
  BY <1>1 DEF PInv, Writing, Executing
<1>. QED BY <1>1, <1>2, <1>3, SendingKeeps

(***************************************************************************)
(* The send table, the clock and the surroundings                          *)
(***************************************************************************)
(* The second half of a store goes on when the send table takes the first, and *)
(* the next register has been read.                                            *)
StoreGoesOn == xAt = "store" /\ xAt' = "new" /\ xWaits' = {}

(* The stages are left alone, but for what the execute stage waits for.        *)
LEMMA StagesLeftAlone ==
    ASSUME PInv, UNCHANGED <<program, pc, r0, decoding, r1, x, continuingStore, r2, writing, regs, pred,
                             arrived, taken, hit, aborted>>,
           xWaits' = xWaits \/ xWaits' = xWaits \ {"ack"},
           xAt' = xAt \/ StoreGoesOn
    PROVE  /\ ReadOnce' /\ Decoding' /\ Reads' /\ Cancelling' /\ Writing' /\ Executing'
           /\ AtDecode' = AtDecode /\ AtExecute' = AtExecute /\ Holds(r1') = Holds(r1)
<1>1. ReadOnce' /\ Decoding' /\ Reads' /\ Cancelling'
  BY DecodeLeftAlone DEF PInv, decoding
<1>2. Writing'
  BY DEF PInv, Writing, writing
<1>3. Executing'
  <2>1. Executing /\ xWaits' \subseteq xWaits /\ ("read" \in xWaits' <=> "read" \in xWaits)
    BY DEF PInv, Executing
  <2>2. CASE xAt' = xAt
    BY <2>1, <2>2 DEF Executing
  <2>3. CASE StoreGoesOn
    <3>1. r2 = <<>> /\ continuingStore /\ xAt = "store" /\ xAt' = "new" /\ xWaits' = {}
      BY <2>1, <2>3 DEF Executing, StoreGoesOn
    <3>. QED BY <2>1, <3>1 DEF Executing
  <2>. QED BY <2>2, <2>3
<1>4. AtDecode' = AtDecode /\ AtExecute' = AtExecute
  <2>1. StoreGoesOn => Takes(x) = 0
    BY DEF PInv, Executing, StoreGoesOn, Takes, ToCore
  <2>. QED BY <2>1 DEF AtDecode, AtExecute, decoding, StoreGoesOn
<1>. QED BY <1>1, <1>2, <1>3, <1>4

(* The send table takes a flit, and a credit is owed for one to another core.  *)
LEMMA SendTableKeeps ==
    ASSUME PInv, SendTable
    PROVE  PInv'
<1>1. /\ failed' = {}
      /\ UNCHANGED <<program, pc, r0, decoding, r1, x, continuingStore, r2, writing, regs, pred,
                     arrived, taken, hit, aborted, entry>>
      /\ xWaits' = xWaits \/ xWaits' = xWaits \ {"ack"}
      /\ xAt' = xAt \/ StoreGoesOn
  BY DEF SendTable, ReceiveRequest, ReceiveData, UpdateReady, Running, fetching, executing, channel, bounds, inDecode,
         StoreGoesOn
<1>2. /\ ReadOnce' /\ Decoding' /\ Reads' /\ Cancelling' /\ Writing' /\ Executing'
      /\ AtDecode' = AtDecode /\ AtExecute' = AtExecute
  BY <1>1, StagesLeftAlone
<1>3. filled' \in 0..OutputSize
  <2>1. filled \in 0..OutputSize /\ OutputSize \in Nat
    BY PipelineAssumption DEF PInv, Sending
  <2>2. filled' = filled \/ (filled # OutputSize /\ filled' = filled + 1)
    BY DEF SendTable, ReceiveRequest, ReceiveData, UpdateReady, CanReceive, Full
  <2>. QED BY <2>1, <2>2
<1>4. /\ Latch(data') /\ ready' \in BOOLEAN /\ receiveState' \in {"RS_READY", "RS_PACKET"}
  BY DEF PInv, Sending, SendTable, ReceiveRequest, ReceiveData, UpdateReady, Latch, Full
<1>5. Sending'
  BY <1>1, <1>3, <1>4 DEF PInv, Sending, Latch
<1>6. Credits'
  <2>1. CASE ReceiveData
    <3>1. data # <<>>
      BY <2>1 DEF ReceiveData, CanReceive
    <3>2. PICK e : data = <<e>>
      BY <3>1 DEF PInv, Sending, Latch
    <3>3. Head(data) = e
      BY <3>2
    <3>4. owed' = owed + Takes(e) /\ Holds(data) = Takes(e) /\ Holds(data') = 0
      BY <2>1, <3>2, <3>3, HoldsOne DEF ReceiveData, ToCore, Takes
    <3>5. {AtDecode, AtExecute, Holds(r1), Takes(e), owed, entry.credits} \subseteq Nat
      BY HoldsOne DEF AtDecode, AtExecute, PInv, Credits
    <3>6. /\ Holds(r1') + Holds(data') + AtDecode' + AtExecute' = Holds(r1) + AtDecode + AtExecute
          /\ Holds(r1) + Holds(data) + AtDecode + AtExecute = Holds(r1) + AtDecode + AtExecute + Takes(e)
      BY <1>1, <1>2, <3>4, <3>5
    <3>7. PICK h \in Nat : h = Holds(r1) + AtDecode + AtExecute
      BY <3>5
    <3>8. entry'.credits + owed' + h = entry.credits + owed + (h + Takes(e)) /\ owed' \in Nat
      BY <1>1, <3>4, <3>5
    <3>. QED BY <1>1, <3>6, <3>7, <3>8, CreditsMove DEF PInv, Credits
  <2>2. CASE ~ReceiveData
    <3>1. data' = data /\ owed' = owed
      BY <2>2 DEF SendTable, ReceiveRequest, UpdateReady
    <3>. QED BY <1>1, <1>2, <3>1, CreditsKept DEF PInv
  <2>. QED BY <2>1, <2>2
<1>. QED BY <1>1, <1>2, <1>5, <1>6 DEF PInv

(* The clock, and the networks.                                                *)
LEMMA SurroundingsKeep ==
    ASSUME PInv, Tick \/ FetchTaken \/ NetworkTakes
    PROVE  PInv'
<1>1. /\ failed' = {}
      /\ UNCHANGED <<program, pc, r0, decoding, r1, x, xAt, xWaits, continuingStore, r2, writing, regs, pred,
                     arrived, taken, hit, aborted, entry, data, owed, ready, receiveState>>
      /\ filled' = filled \/ (filled > 0 /\ filled' = filled - 1)
  BY DEF Tick, FetchTaken, NetworkTakes, Settled, Running, fetching, executing, channel, table, bounds, inDecode
<1>2. /\ ReadOnce' /\ Decoding' /\ Reads' /\ Cancelling' /\ Writing' /\ Executing'
      /\ AtDecode' = AtDecode /\ AtExecute' = AtExecute
  BY <1>1, StagesLeftAlone
<1>3. Sending'
  <2>1. filled \in 0..OutputSize /\ OutputSize \in Nat
    BY PipelineAssumption DEF PInv, Sending
  <2>2. filled' \in 0..OutputSize
    BY <1>1, <2>1
  <2>. QED BY <1>1, <2>2 DEF PInv, Sending, Latch
<1>4. Credits'
  BY <1>1, <1>2, CreditsKept DEF PInv
<1>. QED BY <1>1, <1>2, <1>3, <1>4 DEF PInv

(* Data come over the channel while it has room.                               *)
LEMMA DataArrivesKeeps ==
    ASSUME PInv, DataArrives
    PROVE  PInv'
<1>1. /\ failed' = {} /\ arrived' = arrived + 1 /\ arrived - taken < ChannelSize
      /\ UNCHANGED <<fetching, decoding, r1, executing, r2, writing, regs, pred, entry, taken, table, bounds, inDecode>>
  BY DEF DataArrives, Settled, Running
<1>2. ReadOnce' /\ Decoding' /\ Executing' /\ Writing' /\ Sending'
  BY <1>1, LaterKept, SendingKept DEF PInv, ReadOnce, Decoding, NoRepeats, fetching, decoding, table
<1>3. Reads'
  <2>1. /\ arrived \in Nat /\ taken \in Nat /\ taken <= arrived /\ ChannelSize \in Nat
    BY PipelineAssumption DEF PInv, Reads
  <2>2. /\ arrived' \in Nat /\ taken' \in Nat /\ taken' <= arrived' /\ arrived' - taken' <= ChannelSize
        /\ Available' = TRUE
    BY <1>1, <2>1 DEF Available
  <2>. QED BY <1>1, <2>2 DEF PInv, Reads, Arrives, decoding
<1>4. Cancelling'
  BY <1>1 DEF PInv, Cancelling, SparesNextPacket, decoding, bounds, inDecode
<1>5. Credits'
  BY <1>1, CreditsKept DEF PInv, AtDecode, AtExecute, decoding, executing, table
<1>. QED BY <1>1, <1>2, <1>3, <1>4, <1>5 DEF PInv

(* A credit comes back.                                                        *)
LEMMA CreditArrivesKeeps ==
    ASSUME PInv, CreditArrives
    PROVE  PInv'
<1>1. /\ failed' = {} /\ owed > 0 /\ owed' = owed - 1 /\ entry' = CM!addCredits(entry, 1)
      /\ UNCHANGED <<program, pc, r0, decoding, r1, x, xAt, xWaits, continuingStore, r2, writing, regs, pred,
                     arrived, taken, hit, aborted, data, ready, receiveState, filled>>
  BY DEF CreditArrives, Settled, Running, fetching, executing, channel, bounds, inDecode
<1>2. /\ ReadOnce' /\ Decoding' /\ Reads' /\ Cancelling' /\ Writing' /\ Executing' /\ Sending'
      /\ AtDecode' = AtDecode /\ AtExecute' = AtExecute
  BY <1>1, StagesLeftAlone, SendingKept DEF PInv
<1>3. Credits'
  <2>1. Credits /\ owed \in Nat /\ entry.credits \in Nat
    BY DEF PInv, Credits
  <2>2. PICK h \in Nat : h = Holds(r1) + Holds(data) + AtDecode + AtExecute
    BY HoldsOne DEF AtDecode, AtExecute
  <2>3. Holds(r1') + Holds(data') + AtDecode' + AtExecute' = h
    BY <1>1, <1>2, <2>2
  <2>4. entry'.credits + owed' + h = entry.credits + owed + h /\ owed' \in Nat
    BY <1>1, <2>1, Counts
  <2>. QED BY <1>1, <2>1, <2>2, <2>3, <2>4, Counts, CreditsMove
<1>. QED BY <1>1, <1>2, <1>3 DEF PInv

(* The fetch stage hands over the next instruction.                            *)
LEMMA SupplyKeeps ==
    ASSUME PInv, Supply
    PROVE  PInv'
<1>1. /\ failed' = {} /\ r0' = <<pc>> /\ pc' = pc + 1 /\ pc <= Len(program)
      /\ UNCHANGED <<program, decoding, r1, executing, r2, writing, regs, pred, entry, channel, table, bounds, inDecode>>
  BY DEF Supply, Settled, Running
<1>2. ReadOnce'
  <2>1. pc \in Nat /\ d.i \in Nat /\ d.i < pc /\ program \in Programs
    BY DEF PInv, ReadOnce
  <2>2. Len(program) \in Nat
    BY <2>1, ProgramsAssumption
  <2>3. r0'[1] = pc /\ r0' = <<r0'[1]>> /\ pc \in 1..Len(program) /\ pc < pc'
    BY <1>1, <2>1, <2>2
  <2>. QED BY <1>1, <2>1, <2>3 DEF ReadOnce, decoding
<1>3. Decoding' /\ Reads' /\ Executing' /\ Writing' /\ Sending'
  BY <1>1, LaterKept, SendingKept DEF PInv, Decoding, NoRepeats, Reads, Arrives, Available, decoding, channel, table
<1>4. Cancelling'
  BY <1>1 DEF PInv, Cancelling, SparesNextPacket, decoding, bounds, inDecode
<1>5. Credits'
  BY <1>1, CreditsKept DEF PInv, AtDecode, AtExecute, decoding, executing, table
<1>. QED BY <1>1, <1>2, <1>3, <1>4, <1>5 DEF PInv

(* NXIPK cancels the instruction that waits, and skips to the next packet.     *)
LEMMA NxipkKeeps ==
    ASSUME PInv, Nxipk
    PROVE  PInv'
<1>1. /\ failed' = {} /\ hit = <<>> /\ hit' = <<d.i, dAt>> /\ CancelInstruction /\ r0' = <<>>
      /\ UNCHANGED <<program, d, dAt, remote, r1, executing, r2, writing, regs, pred, entry, channel, table, inDecode>>
      /\ "any stall" \in Allows \/ ~WaitsOtherwise
      /\ "unheard" \in Allows \/ (d.persistent /\ dAt # "idle" => d.looping /\ WaitsForData)
  BY DEF Nxipk, Settled, Running, DiscardInstruction
<1>2. ReadOnce'
  <2>1. PICK n \in pc..(Len(program) + 1) : pc' = n
    BY DEF Nxipk
  <2>2. pc \in Nat /\ d.i \in Nat /\ d.i < pc /\ program \in Programs
    BY DEF PInv, ReadOnce
  <2>3. Len(program) \in Nat
    BY <2>2, ProgramsAssumption
  <2>4. pc' \in Nat /\ d.i < pc'
    BY <2>1, <2>2, <2>3
  <2>. QED BY <1>1, <2>2, <2>4 DEF ReadOnce
<1>3. Decoding' /\ Executing' /\ Writing' /\ Sending'
  BY <1>1, LaterKept, SendingKept DEF PInv, Decoding, NoRepeats, table
<1>4. instructionCancelled' \in BOOLEAN /\ (instructionCancelled => instructionCancelled')
  BY <1>1 DEF CancelInstruction
<1>5. Reads'
  BY <1>1, <1>4 DEF PInv, Reads, Arrives, Available, channel
<1>6. Cancelling'
  <2>1. aborted = <<>> /\ ~instructionCancelled /\ d.i \in Nat /\ hit'[1] = d.i /\ hit' # <<>>
    BY <1>1 DEF PInv, Cancelling, ReadOnce
  <2>2. ASSUME "any stall" \notin Allows, instructionCancelled' PROVE dAt \in WaitingPlaces
    BY <1>1, <2>1, <2>2 DEF CancelInstruction, IsBlocked, WaitsForData, WaitingPlaces
  <2>3. ASSUME "unheard" \notin Allows, d.persistent, dAt # "idle"
        PROVE  dAt \in WaitingPlaces /\ instructionCancelled' /\ d.looping
    BY <1>1, <2>3 DEF CancelInstruction, IsBlocked, WaitsForData, WaitingPlaces
  <2>4. aborted' = <<>> /\ aborted' \in Seq(Nat) /\ Len(aborted') = 0
    <3>1. aborted \in Seq(Nat) /\ Len(<<>>) = 0
      BY DEF PInv, Cancelling
    <3>. QED BY <1>1, <2>1, <3>1 DEF inDecode
  <2>5. SparesNextPacket'
    BY <2>4 DEF SparesNextPacket
  <2>6. hit' # <<>> => hit'[1] \in Nat /\ hit'[1] <= d'.i
    <3>1. PICK n \in Nat : n = d.i
      BY <2>1
    <3>2. d'.i = n /\ hit'[1] = n
      BY <1>1, <2>1, <3>1
    <3>. QED BY <3>1, <3>2
  <2>7. "any stall" \notin Allows =>
          /\ instructionCancelled' => dAt' \in WaitingPlaces /\ hit'[1] = d'.i
          /\ SparesNextPacket'
    BY <1>1, <2>1, <2>2, <2>5
  <2>8. "unheard" \notin Allows =>
          (hit' # <<>> /\ hit'[1] = d'.i /\ d'.persistent =>
              dAt' = "idle" \/ (dAt' \in WaitingPlaces /\ instructionCancelled' /\ d'.looping))
    BY <1>1, <2>3
  <2>. QED BY <2>1, <2>4, <2>6, <2>7, <2>8 DEF Cancelling
<1>7. Credits'
  BY <1>1, CreditsKept DEF PInv, AtDecode, AtExecute, executing, table
<1>. QED BY <1>1, <1>2, <1>3, <1>5, <1>6, <1>7 DEF PInv

-----------------------------------------------------------------------------
(* A set of numbers has a least one. What goes step by step is proved by looking *)
(* at the first step at which it would not hold.                                 *)
LEMMA Least ==
    ASSUME NEW S \in SUBSET Nat, S # {}
    PROVE  \E n \in S : \A m \in S : n <= m
<1> DEFINE less == {p \in Nat \X Nat : p[1] < p[2]}
<1>1. IsWellFoundedOn(less, Nat)
  BY NatLessThanWellFounded, Zenon DEF OpToRel
<1>2. \A n, m \in Nat : m < n => <<m, n>> \in less
  OBVIOUS
<1> HIDE DEF less
<1>3. PICK n \in S : \A m \in S : <<m, n>> \notin less
  BY <1>1, WFMin
<1>4. ASSUME NEW m \in S PROVE n <= m
  <2>1. n \in Nat /\ m \in Nat /\ ~ (m < n)
    BY <1>2, <1>3
  <2>. QED BY <2>1
<1>. QED BY <1>4

-----------------------------------------------------------------------------
(* The invariant holds at first.                                               *)
LEMMA InitInv == Init => PInv
<1> SUFFICES ASSUME Init PROVE PInv
  OBVIOUS
<1> USE DEF Init, InitCore, InitRegisters, InitDecode, InitDecoder, InitReceiveTable, InitExecute, InitWrite,
            InitSendTable
<1>1. ReadOnce
  BY DEF ReadOnce
<1>2. Decoding
  BY DEF Decoding, Places
<1>3. Reads
  <2>1. arrived \in Nat /\ taken \in Nat /\ taken <= arrived /\ arrived - taken <= ChannelSize
    BY PipelineAssumption
  <2>2. instructionCancelled \in BOOLEAN /\ dAt \notin {"forward", "src2"} /\ dAt # "op"
    OBVIOUS
  <2>. QED BY <2>1, <2>2 DEF Reads
<1>4. Executing
  BY DEF Executing
<1>5. Writing
  <2>1. 0 \in 0..(FirstDatum + MaxData)
    BY PipelineAssumption
  <2>. QED BY <2>1 DEF Writing
<1>6. Sending
  BY PipelineAssumption DEF Sending, Latch
<1>7. Credits
  <2>1. Holds(r1) = 0 /\ Holds(data) = 0 /\ AtDecode = 0 /\ AtExecute = 0
    BY HoldsOne DEF AtDecode, AtExecute
  <2>2. Held = 0
    BY <2>1, HeldIs
  <2>3. MaxCredits \in Nat
    BY PipelineAssumption
  <2>. QED BY <2>2, <2>3 DEF Credits, CreditsConserved
<1>8. Cancelling
  <2>1. <<>> \in Seq(Nat) /\ Len(<<>>) = 0
    OBVIOUS
  <2>2. aborted = <<>> /\ hit = <<>> /\ ~instructionCancelled /\ SparesNextPacket
    BY <2>1 DEF SparesNextPacket
  <2>. QED BY <2>1, <2>2 DEF Cancelling
<1>. QED BY <1>1, <1>2, <1>3, <1>4, <1>5, <1>6, <1>7, <1>8 DEF PInv

(* And after every step.                                                       *)
LEMMA NextInv == PInv /\ [Next]_vars => PInv'
<1> SUFFICES ASSUME PInv, [Next]_vars PROVE PInv'
  OBVIOUS
<1>1. CASE Stages
  BY <1>1, EdgeKeeps, WriteKeeps, BlockedKeeps, HasResultKeeps, SquashKeeps, StartMultiplyKeeps, ComputeKeeps,
     SendAddressKeeps, SendPayloadKeeps, SendTableKeeps, DecodeKeeps, SurroundingsKeep
  DEF Stages, Execute, SendTableRuns
<1>2. CASE Environment
  BY <1>2, SupplyKeeps, SurroundingsKeep, DataArrivesKeeps, CreditArrivesKeeps DEF Environment
<1>3. CASE Nxipk
  BY <1>3, NxipkKeeps
<1>4. CASE UNCHANGED vars
  <2>1. UNCHANGED <<fetching, decoding, r1, executing, r2, writing, regs, pred, entry, channel, table, bounds,
                    inDecode, failed>>
    BY <1>4 DEF vars
  <2>2. ReadOnce' /\ Decoding' /\ Reads' /\ Cancelling' /\ Executing' /\ Writing' /\ Sending'
    BY <2>1, DecodeLeftAlone, LaterKept, SendingKept
       DEF PInv, fetching, decoding, channel, table, bounds, inDecode
  <2>3. Credits'
    BY <2>1, CreditsKept DEF PInv, AtDecode, AtExecute, decoding, executing, table
  <2>. QED BY <2>1, <2>2, <2>3 DEF PInv
<1>. QED BY <1>1, <1>2, <1>3, <1>4 DEF Next

(* The invariant holds always.                                                 *)
LEMMA PInvariant == Spec => []PInv
BY InitInv, NextInv, PTL DEF Spec

(* No pipeline register is written before it has been read, no empty channel is *)
(* read, and the state keeps its types and capacities (the assertions of         *)
(* PipelineRegister::write and ReceiveChannelEndTable::read), whatever NXIPK     *)
(* finds and wherever it comes.                                                  *)
THEOREM AssertionsNeverFail == Spec => []AssertionsHold
<1>1. ASSUME NEW s, s = <<>> \/ s = <<s[1]>> PROVE Len(s) <= 1
  <2>1. CASE s = <<>>
    BY <2>1
  <2>2. ASSUME NEW e, s = <<e>> PROVE Len(s) <= 1
    BY <2>2
  <2>. QED BY <1>1, <2>1, <2>2
<1>2. PInv => AssertionsHold
  <2> SUFFICES ASSUME PInv PROVE AssertionsHold
    OBVIOUS
  <2>1. Len(r0) <= 1
    BY <1>1 DEF PInv, ReadOnce
  <2>2. Len(r1) <= 1 /\ Len(r2) <= 1 /\ Len(data) <= 1
    BY <1>1 DEF PInv, Sending, Latch
  <2>3. failed = {}
    BY DEF PInv
  <2>. QED BY <2>1, <2>2, <2>3 DEF PInv, Decoding, Reads, Executing, Writing, Sending, AssertionsHold, TypeOK, Places
<1>. QED BY <1>2, PInvariant, PTL

(* No credit of a connection is lost or made up, wherever the instruction that  *)
(* has it is squashed, stalled or passed on (DecodeStage::waitOnCredits,         *)
(* ExecuteStage::newInput).                                                      *)
THEOREM CreditsAreConserved == Spec => []CreditsConserved
<1>1. PInv => CreditsConserved
  BY DEF PInv, Credits
<1>. QED BY <1>1, PInvariant, PTL

(* An instruction is aborted only if it is the one that the decode stage was at *)
(* when NXIPK came (DecodeStage::unstall), as long as NXIPK does not find the    *)
(* decoder waiting for something else than data.                                 *)
THEOREM NextPacketIsSpared ==
    ASSUME "any stall" \notin Allows
    PROVE  Spec => []SparesNextPacket
<1>1. PInv => SparesNextPacket
  BY DEF PInv, Cancelling
<1>. QED BY <1>1, PInvariant, PTL

(* An instruction that repeats does not begin again once NXIPK has found it     *)
(* (DecodeStage::persistentInstruction), as long as NXIPK finds it waiting for   *)
(* data.                                                                         *)
THEOREM RepetitionsEnd ==
    ASSUME "unheard" \notin Allows
    PROVE  Spec => UnstallEndsRepetition
<1>1. PInv /\ PInv' /\ [Next]_vars =>
        [hit # <<>> /\ d.looping /\ dAt = "again" /\ hit[1] = d.i => UNCHANGED repeats]_vars
  <2> SUFFICES ASSUME PInv, hit # <<>>, d.looping, dAt = "again", hit[1] = d.i
               PROVE  FALSE
    OBVIOUS
  <2>1. d.persistent
    BY DEF PInv, Decoding
  <2>. QED BY <2>1 DEF PInv, Cancelling, WaitingPlaces
<1>. QED BY <1>1, PInvariant, PTL DEF Spec, UnstallEndsRepetition

-----------------------------------------------------------------------------
(* The effects come in order. EInv says what the core that finishes each         *)
(* instruction before the next has come to, in terms of what the stages hold:    *)
(* with the instruction in the execute stage and what the write stage and the    *)
(* send table have yet to do done, the pipeline is where that core is before the *)
(* instruction that waits for the execute stage; and whatever the decode stage   *)
(* has read or decided is what that core reads and decides.                      *)

(* after[k] is the state of the core that has finished k instructions.           *)
Runs(p, s, after) ==
    /\ after = [n \in 0..Len(s) |-> after[n]]
    /\ after[0] = Core!Start(Regs)
    /\ \A k \in 1..Len(s) : after[k] = Core!Step(after[k - 1], p[s[k].i], s[k])

(* One instruction more.                                                         *)
LEMMA RunsOn ==
    ASSUME NEW p, NEW s, NEW after, Runs(p, s, after), NEW e, Len(s) \in Nat,
           Len(Append(s, e)) = Len(s) + 1, Append(s, e)[Len(s) + 1] = e,
           \A k \in 1..Len(s) : Append(s, e)[k] = s[k],
           NEW l, l = Core!Step(after[Len(s)], p[e.i], e)
    PROVE  \E more : Runs(p, Append(s, e), more) /\ more[Len(s) + 1] = l
<1> DEFINE more == [k \in 0..(Len(s) + 1) |-> IF k = Len(s) + 1 THEN l ELSE after[k]]
<1>1. /\ more[Len(s) + 1] = l /\ \A k \in 0..Len(s) : more[k] = after[k]
      /\ more = [k \in 0..(Len(s) + 1) |-> more[k]]
  <2>1. Len(s) + 1 \in 0..(Len(s) + 1) /\ \A k \in 0..Len(s) : k \in 0..(Len(s) + 1) /\ k # Len(s) + 1
    OBVIOUS
  <2>. QED BY <2>1
<1> HIDE DEF more
<1>2. more[0] = Core!Start(Regs)
  <2>1. 0 \in 0..Len(s)
    OBVIOUS
  <2>. QED BY <1>1, <2>1 DEF Runs
<1>3. ASSUME NEW k \in 1..(Len(s) + 1)
      PROVE  more[k] = Core!Step(more[k - 1], p[Append(s, e)[k].i], Append(s, e)[k])
  <2>1. CASE k = Len(s) + 1
    <3>1. more[k - 1] = after[Len(s)]
      BY <1>1, <2>1
    <3>. QED BY <1>1, <2>1, <3>1
  <2>2. CASE k # Len(s) + 1
    <3>1. k \in 1..Len(s) /\ k - 1 \in 0..Len(s) /\ k \in 0..Len(s)
      BY <2>2
    <3>2. more[k - 1] = after[k - 1] /\ more[k] = after[k]
      BY <1>1, <3>1
    <3>. QED BY <3>1, <3>2 DEF Runs
  <2>. QED BY <2>1, <2>2
<1>. QED BY <1>1, <1>2, <1>3 DEF Runs

(* Every sequence of instructions can be run.                                    *)
LEMMA RunExists ==
    ASSUME NEW p, NEW T, NEW s \in Seq(T)
    PROVE  \E after : Runs(p, s, after)
<1> DEFINE Bad == {n \in 0..Len(s) : ~ \E after : Runs(p, SubSeq(s, 1, n), after)}
<1>2. Len(s) \in Nat /\ SubSeq(s, 1, Len(s)) = s
  OBVIOUS
<1>3. SUFFICES ASSUME Bad # {} PROVE FALSE
  <2>1. Bad = {} => Len(s) \notin Bad
    OBVIOUS
  <2>2. Len(s) \in 0..Len(s)
    BY <1>2
  <2>. QED BY <1>2, <2>1, <2>2
<1>4. PICK n \in Bad : \A m \in Bad : n <= m
  <2>1. Bad \in SUBSET Nat
    BY <1>2
  <2> HIDE DEF Bad
  <2>. QED BY <1>3, <2>1, Least
<1>5. n # 0
  <2> DEFINE after == [k \in 0..0 |-> Core!Start(Regs)]
  <2>1. SubSeq(s, 1, 0) = <<>> /\ Len(SubSeq(s, 1, 0)) = 0
    BY <1>2
  <2>2. after = [k \in 0..0 |-> after[k]] /\ after[0] = Core!Start(Regs)
    OBVIOUS
  <2>3. \A k \in 1..0 : FALSE
    OBVIOUS
  <2> HIDE DEF after
  <2>4. Runs(p, SubSeq(s, 1, 0), after)
    BY <2>1, <2>2, <2>3 DEF Runs
  <2>. QED BY <2>4
<1>6. n \in Nat /\ n <= Len(s) /\ n - 1 \in 0..Len(s) /\ n - 1 \notin Bad
  BY <1>2, <1>4, <1>5
<1> DEFINE t == SubSeq(s, 1, n - 1)
<1>7. PICK after : Runs(p, t, after)
  BY <1>6
<1>8. /\ Len(t) = n - 1 /\ SubSeq(s, 1, n) = Append(t, s[n])
      /\ t \in Seq(T) /\ s[n] \in T
  BY <1>2, <1>5, <1>6
<1> HIDE DEF t
<1>9. /\ Len(t) \in Nat /\ Len(Append(t, s[n])) = Len(t) + 1 /\ Append(t, s[n])[Len(t) + 1] = s[n]
      /\ \A k \in 1..Len(t) : Append(t, s[n])[k] = t[k]
  BY <1>8
<1>10. \E more : Runs(p, Append(t, s[n]), more)
  BY <1>7, <1>9, RunsOn
<1>. QED BY <1>4, <1>8, <1>10

(* A run is the one that Effects looks at.                                       *)
LEMMA EffectsAre ==
    ASSUME NEW p, NEW s, Len(s) \in Nat, NEW after, Runs(p, s, after)
    PROVE  Core!Effects(p, s, Regs) = after[Len(s)]
<1> DEFINE B(G) == [n \in 0..Len(s) |-> IF n = 0 THEN Core!Start(Regs)
                                        ELSE Core!Step(G[n - 1], p[s[n].i], s[n])]
           C == CHOOSE G : G = B(G)
<1>1. after = B(after)
  <2>1. ASSUME NEW i \in 0..Len(s) PROVE after[i] = B(after)[i]
    <3>1. CASE i = 0
      BY <3>1 DEF Runs
    <3>2. CASE i # 0
      <4>1. i \in 1..Len(s)
        BY <3>2
      <4>. QED BY <3>2, <4>1 DEF Runs
    <3>. QED BY <3>1, <3>2
  <2>2. after = [n \in 0..Len(s) |-> after[n]]
    BY DEF Runs
  <2>3. B(after) = [n \in 0..Len(s) |-> B(after)[n]]
    OBVIOUS
  <2> HIDE DEF B
  <2>. QED BY <2>1, <2>2, <2>3
<1>2. Core!Effects(p, s, Regs) = C[Len(s)]
  BY DEF Core!Effects
<1>3. C = B(C)
  BY <1>1
<1> HIDE DEF C
<1>4. C[0] = Core!Start(Regs) /\ \A k \in 1..Len(s) : C[k] = Core!Step(C[k - 1], p[s[k].i], s[k])
  <2>1. \A n \in 0..Len(s) : C[n] = B(C)[n]
    BY <1>3
  <2>2. C[0] = Core!Start(Regs)
    BY <2>1
  <2>3. ASSUME NEW k \in 1..Len(s) PROVE C[k] = Core!Step(C[k - 1], p[s[k].i], s[k])
    <3>1. k \in 0..Len(s) /\ k # 0
      OBVIOUS
    <3>. QED BY <2>1, <3>1
  <2>. QED BY <2>2, <2>3
<1> DEFINE Bad == {k \in 0..Len(s) : C[k] # after[k]}
<1>5. Bad = {}
  <2>1. SUFFICES ASSUME Bad # {} PROVE FALSE
    OBVIOUS
  <2>2. PICK k \in Bad : \A m \in Bad : k <= m
    <3>1. Bad \in SUBSET Nat
      OBVIOUS
    <3> HIDE DEF Bad
    <3>. QED BY <2>1, <3>1, Least
  <2>3. k # 0
    BY <1>4 DEF Runs
  <2>4. k \in 1..Len(s) /\ k - 1 \in 0..Len(s) /\ k - 1 \notin Bad
    BY <2>2, <2>3
  <2>5. C[k - 1] = after[k - 1]
    BY <2>4
  <2>. QED BY <1>4, <2>2, <2>4, <2>5 DEF Runs
<1>. QED BY <1>2, <1>5

(* When one instruction more is issued, the core that does everything in order   *)
(* does one step more.                                                           *)
LEMMA EffectsOfOneMore ==
    ASSUME NEW p, NEW T, NEW s \in Seq(T), NEW e \in T
    PROVE  Core!Effects(p, Append(s, e), Regs) = Core!Step(Core!Effects(p, s, Regs), p[e.i], e)
<1>1. /\ Len(s) \in Nat /\ Len(Append(s, e)) = Len(s) + 1 /\ Append(s, e)[Len(s) + 1] = e
      /\ \A k \in 1..Len(s) : Append(s, e)[k] = s[k]
  OBVIOUS
<1>2. PICK after : Runs(p, s, after)
  BY RunExists
<1> DEFINE l == Core!Step(after[Len(s)], p[e.i], e)
<1> HIDE DEF l
<1>3. PICK more : Runs(p, Append(s, e), more) /\ more[Len(s) + 1] = l
  BY <1>1, <1>2, RunsOn DEF l
<1>4. Core!Effects(p, Append(s, e), Regs) = more[Len(s) + 1]
  <2>1. Len(s) + 1 \in Nat
    BY <1>1
  <2>. QED BY <1>1, <1>3, <2>1, EffectsAre
<1>5. Core!Effects(p, s, Regs) = after[Len(s)]
  BY <1>1, <1>2, EffectsAre
<1>. QED BY <1>3, <1>4, <1>5 DEF l

(* Nothing has been done yet.                                                    *)
LEMMA EffectsOfNone ==
    ASSUME NEW p
    PROVE  Core!Effects(p, <<>>, Regs) = Core!Start(Regs)
<1>1. <<>> \in Seq(Nat) /\ Len(<<>>) = 0
  OBVIOUS
<1>2. PICK after : Runs(p, <<>>, after)
  BY <1>1, RunExists
<1>3. Core!Effects(p, <<>>, Regs) = after[0]
  BY <1>1, <1>2, EffectsAre
<1>. QED BY <1>2, <1>3 DEF Runs

(* The states of the core that does everything in order.                         *)
Packets == [i : Nat, part : {"address", "data", "result", "instruction"}, map : Nat]
Computations == Nat \X Nat \X Nat
Fetched == Nat \X Nat
Machine ==
    [regs : [Regs -> Nat], pred : BOOLEAN, map : Nat, remote : BOOLEAN, remoteMap : Nat, read : Nat,
     computed : Seq(Computations), fetched : Seq(Fetched), sent : Seq(Packets)]

Issues == [i : Nat, outcome : BOOLEAN]

ReadBy(ins) == (IF ins.src1 = Channel THEN 1 ELSE 0) + (IF ins.src2 = Channel THEN 1 ELSE 0)
ReadFirst(ins) == IF ins.src1 = Channel THEN 1 ELSE 0

(* It begins with nothing done.                                                  *)
LEMMA StartIs ==
    Core!Start(Regs) \in Machine
<1>1. [r \in Regs |-> 0] \in [Regs -> Nat]
  OBVIOUS
<1>. QED BY <1>1 DEF Core!Start, Machine

(* An operand is a number.                                                       *)
LEMMA ValueIsNumber ==
    ASSUME NEW s \in Machine, NEW reg \in Regs \cup {0, Channel}, NEW read \in Nat
    PROVE  Core!Value(s, reg, read) \in Nat
BY PipelineAssumption DEF Core!Value, Machine

(* An instruction's word or result is sent.                                      *)
LEMMA SendIs ==
    ASSUME NEW s \in Machine, NEW e \in Issues, NEW m \in Nat,
           NEW part \in {"address", "data", "result", "instruction"}
    PROVE  LET t == Core!Send(s, e, part, m)
           IN  /\ t \in Machine
               /\ t.sent = Append(s.sent, [i |-> e.i, part |-> part, map |-> m])
               /\ t.regs = s.regs /\ t.pred = s.pred /\ t.map = s.map /\ t.remote = s.remote
               /\ t.remoteMap = s.remoteMap /\ t.read = s.read /\ t.computed = s.computed /\ t.fetched = s.fetched
<1>1. [i |-> e.i, part |-> part, map |-> m] \in Packets
  BY DEF Packets, Issues
<1>2. Append(s.sent, [i |-> e.i, part |-> part, map |-> m]) \in Seq(Packets)
  BY <1>1 DEF Machine
<1>. QED BY <1>2 DEF Core!Send, Machine

(* What an instruction sends.                                                    *)
Sends(s, ins, e) ==
    CASE ins.to = "none" \/ ins.op = "rmtexecute" -> s.sent
      [] ~(ins.to = "none" \/ ins.op = "rmtexecute") /\ ins.op = "store" ->
            Append(Append(s.sent, [i |-> e.i, part |-> "address", map |-> s.map]),
                   [i |-> e.i, part |-> "data", map |-> s.map])
      [] OTHER -> Append(s.sent, [i |-> e.i, part |-> "result", map |-> s.map])

(* What is sent is that, and nothing else changes.                               *)
LEMMA SentIs ==
    ASSUME NEW s \in Machine, NEW ins, NEW e \in Issues
    PROVE  LET t == Core!Sent(s, ins, e)
           IN  /\ t \in Machine
               /\ t.sent = Sends(s, ins, e)
               /\ t.regs = s.regs /\ t.pred = s.pred /\ t.map = s.map /\ t.remote = s.remote
               /\ t.remoteMap = s.remoteMap /\ t.read = s.read /\ t.computed = s.computed /\ t.fetched = s.fetched
<1>1. CASE ins.to = "none" \/ ins.op = "rmtexecute"
  <2>1. Core!Sent(s, ins, e) = s
    BY <1>1 DEF Core!Sent
  <2>2. Sends(s, ins, e) = s.sent
    BY <1>1 DEF Sends
  <2>. QED BY <2>1, <2>2
<1>2. CASE ~(ins.to = "none" \/ ins.op = "rmtexecute") /\ ins.op = "store"
  <2> DEFINE first == Core!Send(s, e, "address", s.map)
             t == Core!Send(first, e, "data", s.map)
  <2>1. s.map \in Nat
    BY DEF Machine
  <2>2. /\ first \in Machine
        /\ first.sent = Append(s.sent, [i |-> e.i, part |-> "address", map |-> s.map])
        /\ first.regs = s.regs /\ first.pred = s.pred /\ first.map = s.map /\ first.remote = s.remote
        /\ first.remoteMap = s.remoteMap /\ first.read = s.read /\ first.computed = s.computed
        /\ first.fetched = s.fetched
    BY <2>1, SendIs
  <2>3. Core!Sent(s, ins, e) = t
    BY <1>2 DEF Core!Sent
  <2> HIDE DEF first
  <2>4. /\ t \in Machine
        /\ t.sent = Append(first.sent, [i |-> e.i, part |-> "data", map |-> s.map])
        /\ t.regs = first.regs /\ t.pred = first.pred /\ t.map = first.map /\ t.remote = first.remote
        /\ t.remoteMap = first.remoteMap /\ t.read = first.read /\ t.computed = first.computed
        /\ t.fetched = first.fetched
    BY <2>1, <2>2, SendIs
  <2> HIDE DEF t
  <2>. QED BY <1>2, <2>2, <2>3, <2>4 DEF Sends
<1>3. CASE ~(ins.to = "none" \/ ins.op = "rmtexecute") /\ ins.op # "store"
  <2>1. s.map \in Nat
    BY DEF Machine
  <2>2. Core!Sent(s, ins, e) = Core!Send(s, e, "result", s.map)
    BY <1>3 DEF Core!Sent
  <2>3. Sends(s, ins, e) = Append(s.sent, [i |-> e.i, part |-> "result", map |-> s.map])
    BY <1>3 DEF Sends
  <2> DEFINE t == Core!Send(s, e, "result", s.map)
  <2>4. /\ t \in Machine
        /\ t.sent = Append(s.sent, [i |-> e.i, part |-> "result", map |-> s.map])
        /\ t.regs = s.regs /\ t.pred = s.pred /\ t.map = s.map /\ t.remote = s.remote
        /\ t.remoteMap = s.remoteMap /\ t.read = s.read /\ t.computed = s.computed /\ t.fetched = s.fetched
    BY <2>1, SendIs
  <2> HIDE DEF t
  <2>. QED BY <2>2, <2>3, <2>4 DEF t
<1>. QED BY <1>1, <1>2, <1>3

(* An instruction that is executed.                                              *)
LEMMA PerformIs ==
    ASSUME NEW s \in Machine, NEW ins \in Instructions, NEW e \in Issues
    PROVE  LET t == Core!Perform(s, ins, e)
               op1 == Core!Value(s, ins.src1, s.read)
               op2 == Core!Value(s, ins.src2, s.read + ReadFirst(ins))
           IN  /\ t \in Machine
               /\ t.regs = IF ins.dest = 0 THEN s.regs ELSE [s.regs EXCEPT ![ins.dest] = e.i]
               /\ t.pred = IF ins.sets THEN e.outcome ELSE s.pred
               /\ t.map = IF ins.op = "setchmap" THEN e.i ELSE s.map
               /\ t.remote = (ins.op = "rmtexecute")
               /\ t.remoteMap = IF ins.op = "rmtexecute" THEN s.map ELSE s.remoteMap
               /\ t.read = s.read + ReadBy(ins)
               /\ t.computed = IF Core!InDecode(ins.op) THEN s.computed ELSE Append(s.computed, <<e.i, op1, op2>>)
               /\ t.fetched = IF ins.op = "fetch" THEN Append(s.fetched, <<e.i, op1>>) ELSE s.fetched
               /\ t.sent = Sends(s, ins, e)
<1> DEFINE op1 == Core!Value(s, ins.src1, s.read)
           op2 == Core!Value(s, ins.src2, s.read + ReadFirst(ins))
           after == Core!Sent(s, ins, e)
           t == Core!Perform(s, ins, e)
<1>1. op1 \in Nat /\ op2 \in Nat
  <2>1. s.read \in Nat /\ s.read + ReadFirst(ins) \in Nat
    BY DEF Machine, ReadFirst
  <2>2. ins.src1 \in Regs \cup {0, Channel} /\ ins.src2 \in Regs \cup {0, Channel}
    BY DEF Instructions
  <2>. QED BY <2>1, <2>2, ValueIsNumber
<1>2. /\ after \in Machine
      /\ after.sent = Sends(s, ins, e)
      /\ after.regs = s.regs /\ after.pred = s.pred /\ after.map = s.map /\ after.remote = s.remote
      /\ after.remoteMap = s.remoteMap /\ after.read = s.read /\ after.computed = s.computed
      /\ after.fetched = s.fetched
  BY SentIs
<1>3. t = [after EXCEPT
            !.regs = IF ins.dest = 0 THEN @ ELSE [@ EXCEPT ![ins.dest] = e.i],
            !.pred = IF ins.sets THEN e.outcome ELSE @,
            !.map = IF ins.op = "setchmap" THEN e.i ELSE @,
            !.remote = (ins.op = "rmtexecute"),
            !.remoteMap = IF ins.op = "rmtexecute" THEN s.map ELSE @,
            !.read = @ + ReadFirst(ins) + (IF ins.src2 = Channel THEN 1 ELSE 0),
            !.computed = IF Core!InDecode(ins.op) THEN @ ELSE Append(@, <<e.i, op1, op2>>),
            !.fetched = IF ins.op = "fetch" THEN Append(@, <<e.i, op1>>) ELSE @]
  BY DEF Core!Perform, ReadFirst
<1> HIDE DEF after, t, op1, op2
<1> DEFINE rg == IF ins.dest = 0 THEN s.regs ELSE [s.regs EXCEPT ![ins.dest] = e.i]
           pr == IF ins.sets THEN e.outcome ELSE s.pred
           mp == IF ins.op = "setchmap" THEN e.i ELSE s.map
           rm == IF ins.op = "rmtexecute" THEN s.map ELSE s.remoteMap
           rd == s.read + ReadFirst(ins) + (IF ins.src2 = Channel THEN 1 ELSE 0)
           cp == IF Core!InDecode(ins.op) THEN s.computed ELSE Append(s.computed, <<e.i, op1, op2>>)
           ft == IF ins.op = "fetch" THEN Append(s.fetched, <<e.i, op1>>) ELSE s.fetched
<1>4. t = [after EXCEPT !.regs = rg, !.pred = pr, !.map = mp, !.remote = (ins.op = "rmtexecute"),
                        !.remoteMap = rm, !.read = rd, !.computed = cp, !.fetched = ft]
  BY <1>2, <1>3
<1>5. /\ s.regs \in [Regs -> Nat] /\ s.pred \in BOOLEAN /\ s.map \in Nat /\ s.remoteMap \in Nat
      /\ s.read \in Nat /\ s.computed \in Seq(Computations) /\ s.fetched \in Seq(Fetched)
      /\ e.i \in Nat /\ e.outcome \in BOOLEAN
  BY DEF Machine, Issues
<1>6. rg \in [Regs -> Nat]
  BY <1>5
<1>7. pr \in BOOLEAN /\ mp \in Nat /\ rm \in Nat /\ (ins.op = "rmtexecute") \in BOOLEAN
  BY <1>5
<1>8. rd \in Nat /\ rd = s.read + ReadBy(ins)
  BY <1>5 DEF ReadFirst, ReadBy
<1>9. cp \in Seq(Computations)
  <2>1. <<e.i, op1, op2>> \in Computations
    BY <1>1, <1>5 DEF Computations
  <2>. QED BY <1>5, <2>1
<1>10. ft \in Seq(Fetched)
  <2>1. <<e.i, op1>> \in Fetched
    BY <1>1, <1>5 DEF Fetched
  <2>. QED BY <1>5, <2>1
<1> DEFINE rmt == (ins.op = "rmtexecute")
<1>11. /\ t = [after EXCEPT !.regs = rg, !.pred = pr, !.map = mp, !.remote = rmt,
                        !.remoteMap = rm, !.read = rd, !.computed = cp, !.fetched = ft]
       /\ rmt \in BOOLEAN
  BY <1>4
<1> HIDE DEF rg, pr, mp, rm, rd, cp, ft, rmt
<1>12. /\ t \in Machine /\ t.regs = rg /\ t.pred = pr /\ t.map = mp
       /\ t.remoteMap = rm /\ t.read = rd /\ t.computed = cp /\ t.fetched = ft /\ t.sent = after.sent
  BY <1>2, <1>6, <1>7, <1>8, <1>9, <1>10, <1>11 DEF Machine
<1>13. t.remote = rmt
  BY <1>2, <1>11 DEF Machine
<1>. QED BY <1>2, <1>8, <1>12, <1>13 DEF rg, pr, mp, rm, cp, ft, t, op1, op2, rmt

(* In remote execution mode.                                                     *)
LEMMA SendAwayIs ==
    ASSUME NEW s \in Machine, NEW ins \in Instructions, NEW e \in Issues
    PROVE  LET t == Core!SendAway(s, ins, e)
           IN  /\ t \in Machine
               /\ t.sent = Append(s.sent, [i |-> e.i, part |-> "instruction", map |-> s.remoteMap])
               /\ t.remote = ~ins.eop
               /\ t.regs = s.regs /\ t.pred = s.pred /\ t.map = s.map
               /\ t.remoteMap = s.remoteMap /\ t.read = s.read /\ t.computed = s.computed /\ t.fetched = s.fetched
<1> DEFINE after == Core!Send(s, e, "instruction", s.remoteMap)
           t == Core!SendAway(s, ins, e)
           r == ~ins.eop
<1>1. /\ after \in Machine
      /\ after.sent = Append(s.sent, [i |-> e.i, part |-> "instruction", map |-> s.remoteMap])
      /\ after.regs = s.regs /\ after.pred = s.pred /\ after.map = s.map
      /\ after.remoteMap = s.remoteMap /\ after.read = s.read /\ after.computed = s.computed
      /\ after.fetched = s.fetched
  <2>1. s.remoteMap \in Nat
    BY DEF Machine
  <2>. QED BY <2>1, SendIs
<1>2. t = [after EXCEPT !.remote = r] /\ r \in BOOLEAN
  BY DEF Core!SendAway
<1> HIDE DEF after, t, r
<1>3. /\ t \in Machine /\ t.sent = after.sent /\ t.remote = r
      /\ t.regs = after.regs /\ t.pred = after.pred /\ t.map = after.map
      /\ t.remoteMap = after.remoteMap /\ t.read = after.read /\ t.computed = after.computed
      /\ t.fetched = after.fetched
  BY <1>1, <1>2 DEF Machine
<1>. QED BY <1>1, <1>3 DEF t, r

(* An instruction goes to another core, is executed, or is not.                  *)
LEMMA StepIs ==
    ASSUME NEW s \in Machine, NEW ins \in Instructions, NEW e \in Issues
    PROVE  /\ Core!Step(s, ins, e) \in Machine
           /\ s.remote => Core!Step(s, ins, e) = Core!SendAway(s, ins, e)
           /\ ~s.remote /\ Core!Passes(ins.pred, s.pred) => Core!Step(s, ins, e) = Core!Perform(s, ins, e)
           /\ ~s.remote /\ ~Core!Passes(ins.pred, s.pred) => Core!Step(s, ins, e) = s
<1>1. CASE s.remote
  BY <1>1, SendAwayIs DEF Core!Step
<1>2. CASE ~s.remote /\ Core!Passes(ins.pred, s.pred)
  BY <1>2, PerformIs DEF Core!Step
<1>3. CASE ~s.remote /\ ~Core!Passes(ins.pred, s.pred)
  BY <1>3 DEF Core!Step
<1>. QED BY <1>1, <1>2, <1>3

(* Programs whose effects come in order: nothing repeats (the constant operands *)
(* of an instruction that repeats are read once, and stay what they were when   *)
(* the result of the one before it was forwarded to it), and a test of a channel *)
(* that sends its result does not set the predicate (Core::readPredReg does not  *)
(* wait for it). The rest are the instruction set's own rules.                   *)
Ordinary(p) == \A k \in 1..Len(p) :
    LET ins == p[k]
    IN  /\ ~ins.persistent
        /\ ins.sets => ins.op \in {"alu", "mul"} \/ (ins.op = "tstchi" /\ ins.to = "none")
        /\ ins.op = "store" => ins.to = "memory"
        /\ ins.op \in {"setchmap", "fetch", "woche", "ibjmp"} => ins.to = "none"
        /\ ins.op \in {"store", "setchmap", "fetch", "woche", "ibjmp", "rmtexecute"} => ins.dest = 0
        /\ ins.op \in {"woche", "ibjmp", "rmtexecute"} => ins.src1 # Channel /\ ins.src2 # Channel

(* The fixed time that a fetch waits for a result is enough (Decoder.cpp, "HACK! *)
(* May take multiple cycles. FIXME"): at the end of a cycle that it waits, the     *)
(* write stage has a place to write to, and the execute stage does not wait for    *)
(* the send table.                                                                 *)
NotHeldUp == dAt \in {"forward", "reread"} => ~Full /\ xAt # "wait"
FetchesInTime == [][Tick => NotHeldUp]_vars

(* The core that finishes each instruction before the next, and the same before *)
(* the instruction that waits for the execute stage.                            *)
Due == Core!Effects(program, issued, Regs)
Before == IF r1 = <<>> THEN Due ELSE Core!Effects(program, SubSeq(issued, 1, Len(issued) - 1), Regs)

(* What becomes of the registers when the write stage is through.               *)
Stored(to, e) == IF e.dest = 0 THEN to ELSE [to EXCEPT ![e.dest] = e.result]
Arriving == IF wAt = "new" THEN Stored(regs, w) ELSE regs
Written == IF r2 = <<>> THEN Arriving ELSE Stored(Arriving, r2[1])

Active == xAt # "idle"
Passing == Active /\ Core!Passes(x.pred, pred)
Computes(e) == ~e.remote /\ ~Core!InDecode(e.op)

Resolved(by, op) == IF by /\ previousInstExecuted THEN forwardedResult ELSE op
First == IF x.busy THEN x.op1 ELSE Resolved(x.by1, x.op1)
Second == IF x.busy THEN x.op2 ELSE Resolved(x.by2, x.op2)

Packet(e, part) == [i |-> e.i, part |-> part, map |-> e.map]
InTable == IF data = <<>> THEN <<>>
           ELSE <<Packet(data[1], IF data[1].remote THEN "instruction" ELSE data[1].part)>>
ToSend ==
    CASE x.remote -> <<Packet(x, "instruction")>>
      [] ~x.remote /\ x.to = "none" -> <<>>
      [] ~x.remote /\ x.to # "none" /\ x.op = "store" ->
            IF continuingStore THEN <<Packet(x, "data")>> ELSE <<Packet(x, "address"), Packet(x, "data")>>
      [] OTHER -> <<Packet(x, "result")>>

(* What the execute stage has yet to do, done.                                   *)
Behind(s) ==
    /\ s.regs = IF Passing /\ x.dest # 0 THEN [Written EXCEPT ![x.dest] = x.i] ELSE Written
    /\ s.pred = IF Passing /\ x.sets THEN x.outcome ELSE pred
    /\ s.map = IF Passing /\ ~x.remote /\ x.op = "setchmap" THEN x.i ELSE map
    /\ s.computed = IF Passing /\ Computes(x) /\ ~continuingStore
                    THEN Append(computed, <<x.i, First, Second>>) ELSE computed
    /\ s.sent = (sent \o InTable) \o (IF Passing THEN ToSend ELSE <<>>)
    /\ s.fetched = fetched

(* An instruction as the decoder has it: the program's, or a word to send.      *)
Whole(e) == {"op1", "op2", "by1", "by2", "part", "map", "remote", "busy", "eop"} \subseteq DOMAIN e

Own(e) ==
    LET ins == program[e.i]
    IN  /\ e.op = ins.op /\ e.dest = ins.dest /\ e.src1 = ins.src1 /\ e.src2 = ins.src2
        /\ e.pred = ins.pred /\ e.sets = ins.sets /\ e.to = ins.to

Shaped(e) ==
    /\ Valid(e) /\ Whole(e) /\ e.i \in 1..Len(program) /\ e.map \in Nat
    /\ e.remote \in BOOLEAN /\ e.hasResult \in BOOLEAN /\ e.by1 \in BOOLEAN /\ e.by2 \in BOOLEAN /\ e.busy \in BOOLEAN
    /\ e.eop = program[e.i].eop
    /\ e.remote => e.hasResult /\ e.dest = 0 /\ ~e.sets /\ e.pred = "always" /\ e.to = "core"
    /\ ~e.remote => Own(e)

Decoded(e) == Shaped(e) /\ e.part = "result" /\ ~e.busy

InDecoder == {"tstchi", "selch"}
Passed == {"alu", "mul", "store", "setchmap", "tstchi", "selch"}

Final(e) ==
    /\ ~e.remote => e.op \in Passed
    /\ e.hasResult = (e.remote \/ e.op \in InDecoder)
    /\ e.hasResult => e.result = e.i

(* The result of the instruction before is forwarded to an operand, or is not   *)
(* needed.                                                                       *)
Forwards(s, src, op) ==
    IF Active THEN src = x.dest /\ (~Passing => op = s.regs[src])
              ELSE Resolved(TRUE, op) = s.regs[src]

OperandOK(s, src, read, op, by) ==
    IF by THEN src \in Regs /\ Forwards(s, src, op) ELSE op = Core!Value(s, src, read)

Loaded(e, s) ==
    /\ e.remote = s.remote
    /\ e.map = IF e.remote THEN s.remoteMap ELSE s.map
    /\ ~e.remote =>
        /\ NeedsPredicate(e) => Core!Passes(e.pred, s.pred)
        /\ OperandOK(s, e.src1, s.read, e.op1, e.by1)
        /\ OperandOK(s, e.src2, s.read + ReadFirst(e), e.op2, e.by2)

IssuedInOrder ==
    /\ issued \in Seq(Issues) /\ \A k \in 1..Len(issued) : issued[k].i \in 1..Len(program)
    /\ Due \in Machine /\ Before \in Machine
    /\ Behind(Before)
    /\ r1 # <<>> =>
          /\ dAt = "idle" /\ issued # <<>>
          /\ issued[Len(issued)] = [i |-> r1[1].i, outcome |-> r1[1].outcome]
          /\ Decoded(r1[1]) /\ Final(r1[1]) /\ Loaded(r1[1], Before)

Executed ==
    /\ Shaped(x)
    /\ ~x.remote => x.op \in Passed
    /\ x.hasResult = (x.remote \/ x.op \in InDecoder \/ continuingStore)
    /\ x.hasResult /\ ~continuingStore => x.result = x.i
    /\ ~x.remote /\ x.op \in InDecoder => Passing
    /\ x.part = IF continuingStore THEN "address" ELSE "result"
    /\ x.busy => ~x.remote /\ x.op = "mul"
    /\ continuingStore => ~x.remote
    /\ xAt = "mul" => x.busy

ExecuteInOrder ==
    /\ map \in Nat /\ previousInstExecuted \in BOOLEAN
    /\ computed \in Seq(Computations) /\ sent \in Seq(Packets) /\ InTable \in Seq(Packets)
    /\ x.dest \in Regs \cup {0} /\ x.sets \in BOOLEAN /\ x.hasResult \in BOOLEAN
    /\ Active => Executed
    /\ xAt = "wait" => x.to # "none"
    /\ xAt = "idle" /\ x.dest # 0 => previousInstExecuted /\ Written[x.dest] = forwardedResult
    /\ r2 # <<>> => r2[1].dest \in {0, x.dest}
    /\ wAt = "idle" /\ w.dest # 0 => w.dest \in Regs /\ regs[w.dest] = w.result

Operands == {"fetch", "reread", "credits", "space", "next"}

Deciding(e) ==
    /\ e.remote = Due.remote
    /\ e.remote => dAt \in {"credits", "space", "next"} /\ previousMap = Due.remoteMap
    /\ remote = (e.remote /\ ~program[e.i].eop)
    /\ ~e.remote => e.map = Due.map
    /\ ~e.remote /\ dAt # "pred" /\ NeedsPredicate(e) => Core!Passes(e.pred, Due.pred)
    /\ taken = Due.read + (IF dAt \in Operands /\ ~e.remote THEN ReadBy(e) ELSE 0)

DecodeInOrder ==
    /\ slept \in BOOLEAN /\ remote \in BOOLEAN /\ previousMap \in Nat
    /\ dAt \in {"idle", "new"} =>
          remote = Due.remote /\ (remote => previousMap = Due.remoteMap) /\ taken = Due.read
    /\ dAt # "idle" => r1 = <<>> /\ Decoded(d)
    /\ dAt = "new" => ~d.remote
    /\ dAt \notin {"idle", "new"} => Deciding(d)
    /\ dAt \in {"credits", "space", "next"} => Final(d) /\ Loaded(d, Due)
    /\ dAt = "woche" => d.op = "woche"
    /\ dAt \in {"fetch", "reread"} => d.op = "fetch"
    /\ dAt = "fetch" => IF d.by1 THEN d.src1 \in Regs ELSE d.op1 = Core!Value(Due, d.src1, Due.read)
    /\ dAt = "reread" => d.src1 \in Regs
    /\ dAt \in {"new", "pred", "src1", "forward", "src2", "op", "woche"} => ~d.hasResult
    /\ dAt # "again"

(* The execute stage has what is forwarded, or does not start to multiply.      *)
MulStarted == x.op = "mul" /\ ~x.remote => x.busy
Resolves == xAt = "idle" \/ (xAt = "wait" /\ x.dest # 0 /\ MulStarted)

InTime ==
    /\ phase = "edge" => /\ wAt = "idle" /\ xAt # "new"
                         /\ dAt \in {"forward", "reread"} => xAt # "wait" /\ ~Full
    /\ dAt = "forward" /\ slept => xAt # "mul" /\ (xAt \in {"new", "wait"} => MulStarted)
    /\ dAt \in {"src2", "op"} /\ d.op = "fetch" /\ ~d.remote /\ d.src1 \in Regs /\ d.src1 = x.dest => Resolves
    /\ dAt = "fetch" /\ d.by1 => Resolves
    /\ dAt = "reread" => Resolves /\ (slept => xAt = "idle" /\ r2 = <<>>)

EInv == IssuedInOrder /\ ExecuteInOrder /\ DecodeInOrder /\ InTime

(* What is known of a program's instruction.                                     *)
LEMMA ProgramIs ==
    ASSUME program \in Programs, Ordinary(program), NEW k \in 1..Len(program)
    PROVE  /\ program[k] \in Instructions /\ k \in Nat
           /\ program[k].src1 \in Regs \cup {0, Channel} /\ program[k].src2 \in Regs \cup {0, Channel}
           /\ ~program[k].persistent
           /\ program[k].sets => program[k].op \in {"alu", "mul"} \/ (program[k].op = "tstchi" /\ program[k].to = "none")
           /\ program[k].op = "store" => program[k].to = "memory"
           /\ program[k].op \in {"setchmap", "fetch", "woche", "ibjmp"} => program[k].to = "none"
           /\ program[k].op \in {"store", "setchmap", "fetch", "woche", "ibjmp", "rmtexecute"} => program[k].dest = 0
           /\ program[k].op \in {"woche", "ibjmp", "rmtexecute"} =>
                  program[k].src1 # Channel /\ program[k].src2 # Channel
<1>1. program[k] \in Instructions /\ k \in Nat
  BY ProgramsAssumption
<1>. QED BY <1>1 DEF Ordinary, Instructions

(* The decoder begins with the program's instruction.                            *)
LEMMA DecodedIs ==
    ASSUME program \in Programs, NEW k \in 1..Len(program)
    PROVE  Decoded(DecodedInst(k)) /\ ~DecodedInst(k).hasResult /\ ~DecodedInst(k).remote /\ DecodedInst(k).i = k
<1> DEFINE ins == program[k]
           e == DecodedInst(k)
<1>1. ins \in Instructions
  BY ProgramsAssumption
<1>2. /\ DOMAIN ins = {"op", "dest", "src1", "src2", "pred", "sets", "outcome", "to", "eop", "persistent", "needs"}
  BY <1>1 DEF Instructions
<1>3. /\ Whole(e)
      /\ e.op = ins.op /\ e.dest = ins.dest /\ e.src1 = ins.src1 /\ e.src2 = ins.src2 /\ e.sets = ins.sets
      /\ e.pred = ins.pred /\ e.to = ins.to /\ e.eop = ins.eop
      /\ e.i = k /\ e.by1 = FALSE /\ e.by2 = FALSE /\ e.part = "result" /\ e.map = 0 /\ e.remote = FALSE
      /\ e.busy = FALSE /\ e.hasResult = FALSE
  <2> DEFINE own == Undecided(k)
  <2>1. e = [n \in (DOMAIN ins) \cup (DOMAIN own) |-> IF n \in DOMAIN ins THEN ins[n] ELSE own[n]]
    BY DEF DecodedInst
  <2>2. /\ {"i", "op1", "op2", "by1", "by2", "part", "map", "remote", "busy", "hasResult"} \subseteq DOMAIN own
        /\ own.i = k /\ own.by1 = FALSE /\ own.by2 = FALSE /\ own.part = "result" /\ own.map = 0
        /\ own.remote = FALSE /\ own.busy = FALSE /\ own.hasResult = FALSE
    BY DEF Undecided
  <2> HIDE DEF e, own
  <2>3. \A n \in DOMAIN ins : n \in DOMAIN e /\ e[n] = ins[n]
    BY <2>1
  <2>4. \A n \in {"i", "op1", "op2", "by1", "by2", "part", "map", "remote", "busy", "hasResult"} :
           n \in DOMAIN e /\ e[n] = own[n]
    BY <1>2, <2>1, <2>2
  <2>. QED BY <1>2, <2>2, <2>3, <2>4 DEF Whole
<1>4. Valid(e)
  BY DecodedIsValid
<1> HIDE DEF e
<1>5. Own(e)
  BY <1>3 DEF Own
<1>6. e.eop = program[e.i].eop /\ e.i \in 1..Len(program) /\ e.map \in Nat
  BY <1>3
<1>7. Shaped(e)
  BY <1>3, <1>4, <1>5, <1>6 DEF Shaped
<1>. QED BY <1>3, <1>7 DEF Decoded, e

(* What the channel map says is kept with it.                                    *)
LEMMA MapShaped ==
    ASSUME NEW e, Decoded(e), NEW m \in Nat
    PROVE  LET f == [e EXCEPT !.map = m]
           IN  Decoded(f) /\ Alike(f, e) /\ f.map = m /\ f.hasResult = e.hasResult /\ f.remote = e.remote
               /\ f.outcome = e.outcome
<1> DEFINE f == [e EXCEPT !.map = m]
<1>1. Valid(f) /\ Alike(f, e)
  BY MapAlike DEF Decoded, Shaped
<1>2. /\ DOMAIN f = DOMAIN e /\ f.map = m /\ f.dest = e.dest /\ f.sets = e.sets /\ f.remote = e.remote
      /\ f.hasResult = e.hasResult /\ f.by1 = e.by1 /\ f.by2 = e.by2 /\ f.busy = e.busy /\ f.eop = e.eop
      /\ f.part = e.part /\ f.outcome = e.outcome
  BY DEF Decoded, Shaped, Whole, Valid, Fields
<1> HIDE DEF f
<1>. QED BY <1>1, <1>2 DEF Decoded, Shaped, Own, Whole, Alike, f

(* Its operands are read, or will be forwarded.                                  *)
LEMMA OperandsShaped ==
    ASSUME NEW e, Decoded(e), ~e.looping
    PROVE  LET f == WithOperands(e)
               second == taken + ReadFirst(e)
           IN  /\ Decoded(f) /\ Alike(f, e) /\ f.map = e.map /\ f.hasResult = e.hasResult /\ f.remote = e.remote
               /\ f.outcome = e.outcome /\ f.result = e.result /\ ~f.looping
               /\ f.op1 = ReadReg(e.src1, taken) /\ f.by1 = NeedsForwarding(e.src1)
               /\ f.op2 = ReadReg(e.src2, second) /\ f.by2 = NeedsForwarding(e.src2)
<1> DEFINE f == WithOperands(e)
<1>1. Valid(f) /\ Alike(f, e) /\ f.looping = e.looping
  BY OperandsAlike DEF Decoded, Shaped
<1> DEFINE o1 == ReadReg(e.src1, taken)
           o2 == ReadReg(e.src2, taken + ReadFirst(e))
           b1 == NeedsForwarding(e.src1)
           b2 == NeedsForwarding(e.src2)
<1>2. f = [e EXCEPT !.op1 = o1, !.by1 = b1, !.op2 = o2, !.by2 = b2] /\ b1 \in BOOLEAN /\ b2 \in BOOLEAN
  BY DEF WithOperands, IsConstant, IsChannelEnd, ReadFirst, NeedsForwarding
<1> HIDE DEF f, o1, o2, b1, b2
<1>3. /\ DOMAIN f = DOMAIN e /\ f.map = e.map /\ f.dest = e.dest /\ f.sets = e.sets /\ f.remote = e.remote
      /\ f.hasResult = e.hasResult /\ f.busy = e.busy /\ f.eop = e.eop
      /\ f.part = e.part /\ f.outcome = e.outcome /\ f.result = e.result
      /\ f.op1 = o1 /\ f.by1 = b1 /\ f.op2 = o2 /\ f.by2 = b2
  BY <1>2 DEF Decoded, Shaped, Whole, Valid, Fields
<1>4. Decoded(f)
  BY <1>1, <1>2, <1>3 DEF Decoded, Shaped, Own, Whole, Alike
<1>. QED BY <1>1, <1>3, <1>4 DEF f, o1, o2, b1, b2

(* An operand is read again.                                                     *)
LEMMA RereadShaped ==
    ASSUME NEW e, Decoded(e), NEW v
    PROVE  LET f == [e EXCEPT !.op1 = v]
           IN  Decoded(f) /\ Alike(f, e) /\ f.op1 = v /\ f.remote = e.remote /\ f.outcome = e.outcome
<1> DEFINE f == [e EXCEPT !.op1 = v]
<1>1. Valid(f) /\ Alike(f, e)
  BY RereadAlike DEF Decoded, Shaped
<1>2. /\ DOMAIN f = DOMAIN e /\ f.map = e.map /\ f.dest = e.dest /\ f.sets = e.sets /\ f.remote = e.remote
      /\ f.hasResult = e.hasResult /\ f.by1 = e.by1 /\ f.by2 = e.by2 /\ f.busy = e.busy /\ f.eop = e.eop
      /\ f.part = e.part /\ f.outcome = e.outcome /\ f.op1 = v
  BY DEF Decoded, Shaped, Whole, Valid, Fields
<1> HIDE DEF f
<1>. QED BY <1>1, <1>2 DEF Decoded, Shaped, Own, Whole, Alike, f

(* The decoder has a result.                                                     *)
LEMMA ResultShaped ==
    ASSUME NEW e, Decoded(e), ~e.remote, NEW o \in BOOLEAN
    PROVE  LET f == [e EXCEPT !.hasResult = TRUE, !.result = e.i, !.outcome = o]
               g == [e EXCEPT !.hasResult = TRUE, !.result = e.i]
           IN  /\ Decoded(f) /\ Alike(f, e) /\ f.hasResult /\ f.result = e.i /\ ~f.remote /\ f.map = e.map
               /\ Decoded(g) /\ Alike(g, e) /\ g.hasResult /\ g.result = e.i /\ ~g.remote /\ g.map = e.map
<1> DEFINE f == [e EXCEPT !.hasResult = TRUE, !.result = e.i, !.outcome = o]
           g == [e EXCEPT !.hasResult = TRUE, !.result = e.i]
<1>1. Valid(f) /\ Alike(f, e) /\ Valid(g) /\ Alike(g, e)
  <2>1. e.i \in 0..FirstDatum
    BY DEF Decoded, Shaped, Valid
  <2>. QED BY <2>1, ResultAlike DEF Decoded, Shaped
<1>2. /\ DOMAIN f = DOMAIN e /\ f.map = e.map /\ f.dest = e.dest /\ f.sets = e.sets /\ f.remote = e.remote
      /\ f.hasResult = TRUE /\ f.by1 = e.by1 /\ f.by2 = e.by2 /\ f.busy = e.busy /\ f.eop = e.eop
      /\ f.part = e.part /\ f.result = e.i
  BY DEF Decoded, Shaped, Whole, Valid, Fields
<1>3. /\ DOMAIN g = DOMAIN e /\ g.map = e.map /\ g.dest = e.dest /\ g.sets = e.sets /\ g.remote = e.remote
      /\ g.hasResult = TRUE /\ g.by1 = e.by1 /\ g.by2 = e.by2 /\ g.busy = e.busy /\ g.eop = e.eop
      /\ g.part = e.part /\ g.result = e.i
  BY DEF Decoded, Shaped, Whole, Valid, Fields
<1> HIDE DEF f, g
<1>4. Decoded(f)
  BY <1>1, <1>2 DEF Decoded, Shaped, Own, Whole, Alike
<1>5. Decoded(g)
  BY <1>1, <1>3 DEF Decoded, Shaped, Own, Whole, Alike
<1>. QED BY <1>1, <1>2, <1>3, <1>4, <1>5 DEF f, g

(* It becomes a word to send.                                                    *)
LEMMA RemoteShaped ==
    ASSUME NEW e, Decoded(e), ~e.persistent, previousMap \in Nat
    PROVE  LET f == RemoteExecute(e)
           IN  Decoded(f) /\ f.i = e.i /\ f.remote /\ f.map = previousMap /\ f.hasResult /\ f.result = e.i
<1> DEFINE f == RemoteExecute(e)
<1>1. Valid(f) /\ f.i = e.i /\ f.op = e.op /\ f.persistent = e.persistent
  BY RemoteIsValid DEF Decoded, Shaped
<1>2. /\ DOMAIN f = DOMAIN e /\ f.map = previousMap /\ f.dest = 0 /\ f.sets = FALSE /\ f.remote = TRUE
      /\ f.hasResult = TRUE /\ f.by1 = e.by1 /\ f.by2 = e.by2 /\ f.busy = e.busy /\ f.eop = e.eop
      /\ f.part = e.part /\ f.result = e.i /\ f.pred = "always" /\ f.to = "core"
  BY DEF Decoded, Shaped, Whole, Valid, Fields, RemoteExecute
<1> HIDE DEF f
<1>. QED BY <1>1, <1>2 DEF Decoded, Shaped, Whole, f

(* The operands that were forwarded become the instruction's own.                *)
LEMMA CollectedShaped ==
    ASSUME NEW e, Shaped(e), previousInstExecuted \in BOOLEAN
    PROVE  LET f == Collected(e)
           IN  /\ Shaped(f) /\ Alike(f, e) /\ f.map = e.map /\ f.hasResult = e.hasResult /\ f.remote = e.remote
               /\ f.outcome = e.outcome /\ f.result = e.result /\ f.part = e.part /\ f.busy = e.busy
               /\ f.dest = e.dest /\ f.sets = e.sets
               /\ f.op1 = Resolved(e.by1, e.op1) /\ f.op2 = Resolved(e.by2, e.op2)
<1> DEFINE f == Collected(e)
           o1 == Resolved(e.by1, e.op1)
           o2 == Resolved(e.by2, e.op2)
           b1 == e.by1 /\ ~previousInstExecuted
           b2 == e.by2 /\ ~previousInstExecuted
<1>1. Valid(f) /\ Alike(f, e)
  BY CollectedAlike DEF Shaped
<1>2. f = [e EXCEPT !.op1 = o1, !.op2 = o2, !.by1 = b1, !.by2 = b2] /\ b1 \in BOOLEAN /\ b2 \in BOOLEAN
  BY DEF Collected, Resolved, Shaped
<1> HIDE DEF f, o1, o2, b1, b2
<1>3. /\ DOMAIN f = DOMAIN e /\ f.map = e.map /\ f.dest = e.dest /\ f.sets = e.sets /\ f.remote = e.remote
      /\ f.hasResult = e.hasResult /\ f.busy = e.busy /\ f.eop = e.eop
      /\ f.part = e.part /\ f.outcome = e.outcome /\ f.result = e.result
      /\ f.op1 = o1 /\ f.by1 = b1 /\ f.op2 = o2 /\ f.by2 = b2
  BY <1>2 DEF Shaped, Whole, Valid, Fields
<1>4. Shaped(f)
  BY <1>1, <1>2, <1>3 DEF Shaped, Own, Whole, Alike
<1>. QED BY <1>1, <1>3, <1>4 DEF f, o1, o2

(* The values of the registers are numbers.                                      *)
LEMMA WrittenIs ==
    ASSUME PInv
    PROVE  Arriving \in [Regs -> Nat] /\ Written \in [Regs -> Nat]
<1>1. \A v \in 0..(FirstDatum + MaxData) : v \in Nat
  BY PipelineAssumption
<1>2. regs \in [Regs -> Nat]
  BY <1>1 DEF PInv, Writing
<1>3. ASSUME NEW to \in [Regs -> Nat], NEW e, Valid(e) PROVE Stored(to, e) \in [Regs -> Nat]
  <2>1. e.result \in Nat /\ e.dest \in Regs \cup {0}
    BY <1>3, PipelineAssumption DEF Valid
  <2>. QED BY <2>1 DEF Stored
<1>4. Arriving \in [Regs -> Nat]
  BY <1>2, <1>3 DEF PInv, Writing, Arriving
<1>. QED BY <1>3, <1>4 DEF PInv, Sending, Latch, Written

(* Sequences of packets.                                                         *)
LEMMA Joined ==
    ASSUME NEW s \in Seq(Packets), NEW t \in Seq(Packets), NEW p \in Packets, NEW q \in Packets
    PROVE  /\ s \o <<>> = s /\ s \o t \in Seq(Packets) /\ (s \o t) \o <<p>> = s \o (t \o <<p>>)
           /\ <<>> \o <<p>> = <<p>> /\ Append(s, p) = s \o <<p>> /\ <<p>> \in Seq(Packets)
           /\ s \o <<p, q>> = Append(Append(s, p), q)
OBVIOUS

(* Two packets, one after the other.                                             *)
LEMMA JoinedPair ==
    ASSUME NEW s \in Seq(Packets), NEW p \in Packets, NEW q \in Packets
    PROVE  (s \o <<p>>) \o <<q>> = s \o <<p, q>>
<1> DEFINE u == Append(s, p)
<1>1. u \in Seq(Packets) /\ s \o <<p>> = u
  OBVIOUS
<1>2. s \o <<p, q>> = Append(u, q)
  OBVIOUS
<1> HIDE DEF u
<1>3. u \o <<q>> = Append(u, q)
  BY <1>1
<1>. QED BY <1>1, <1>2, <1>3

(* What the execute stage's steps begin with, and what they leave.               *)
OperandsKept(s) == \A src \in Regs : \A op : Forwards(s, src, op) => Forwards(s, src, op)'

Later(s) ==
    /\ PInv /\ program \in Programs /\ Ordinary(program) /\ s \in Machine
    /\ Behind(s) /\ ExecuteInOrder /\ InTime

LaterKeeps(s) == Behind(s)' /\ ExecuteInOrder' /\ InTime' /\ OperandsKept(s)

(* The instruction that is executed.                                             *)
LEMMA AtWork ==
    ASSUME NEW s, Later(s), Executes
    PROVE  /\ Active /\ Shaped(x) /\ Executed /\ xAt \in {"new", "wait"} /\ r2 = <<>>
           /\ x.to # "none" => data = <<>>
           /\ x.i \in 1..Len(program) /\ x.i \in Nat /\ x.map \in Nat /\ x.result \in Nat
           /\ x.dest \in Regs \cup {0} /\ x.remote \in BOOLEAN /\ x.sets \in BOOLEAN /\ x.busy \in BOOLEAN
           /\ x.hasResult \in BOOLEAN /\ x.outcome \in BOOLEAN
           /\ x.remote => x.hasResult /\ x.dest = 0 /\ ~x.sets /\ x.pred = "always" /\ x.to = "core"
           /\ ~x.remote /\ x.op = "store" => x.dest = 0 /\ x.to = "memory" /\ ~x.sets
           /\ ~x.remote /\ x.op = "setchmap" => x.to = "none" /\ ~x.sets
           /\ ~x.remote => x.op \in Passed
           /\ xAt # "idle" /\ Passing = Core!Passes(x.pred, pred)
           /\ phase = "edge" => xAt = "wait"
<1>1. Active /\ Executed /\ Shaped(x) /\ xAt \in {"new", "wait"} /\ r2 = <<>> /\ (x.to # "none" => data = <<>>)
      /\ xAt # "idle"
  BY DEF Later, PInv, Executing, Executes, Active, ExecuteInOrder, Executed, CanSend, SendsOnNetwork
<1>2. /\ x.i \in 1..Len(program) /\ x.map \in Nat /\ x.result \in 0..FirstDatum
      /\ x.dest \in Regs \cup {0} /\ x.remote \in BOOLEAN /\ x.sets \in BOOLEAN /\ x.busy \in BOOLEAN
      /\ x.hasResult \in BOOLEAN /\ x.outcome \in BOOLEAN
      /\ x.remote => x.hasResult /\ x.dest = 0 /\ ~x.sets /\ x.pred = "always" /\ x.to = "core"
      /\ ~x.remote => Own(x)
  BY <1>1 DEF Shaped, Valid
<1>3. x.i \in Nat /\ x.result \in Nat
  BY <1>2, PipelineAssumption
<1>4. ~x.remote => x.op \in Passed
  BY <1>1 DEF Executed
<1>5. /\ ~x.remote /\ x.op = "store" => x.dest = 0 /\ x.to = "memory" /\ ~x.sets
      /\ ~x.remote /\ x.op = "setchmap" => x.to = "none" /\ ~x.sets
  <2>1. program \in Programs /\ Ordinary(program)
    BY DEF Later
  <2> HIDE DEF Ordinary
  <2>. QED BY <1>2, <2>1, ProgramIs DEF Own
<1>6. Passing = Core!Passes(x.pred, pred)
  BY <1>1 DEF Passing, Core!Passes
<1>7. phase = "edge" => xAt = "wait"
  BY <1>1 DEF Later, InTime
<1>. QED BY <1>1, <1>2, <1>3, <1>4, <1>5, <1>6, <1>7

(* The result is on its way to the registers.                                    *)
LEMMA WrittenNext ==
    ASSUME PInv, r2 = <<>>, NEW e, r2' = <<e>>, UNCHANGED <<wAt, w, regs>>, e.dest \in Regs \cup {0},
           e.result \in Nat
    PROVE  /\ e.dest = 0 => Written' = Written
           /\ e.dest # 0 => Written' = [Written EXCEPT ![e.dest] = e.result] /\ Written'[e.dest] = e.result
           /\ Arriving' = Arriving
<1>1. Arriving' = Arriving
  BY DEF Arriving, Stored
<1>2. r2' # <<>> /\ r2'[1] = e
  OBVIOUS
<1>3. Written' = Stored(Arriving, e) /\ Written = Arriving
  BY <1>1, <1>2 DEF Written, Stored
<1>4. Written \in [Regs -> Nat]
  BY WrittenIs
<1>. QED BY <1>1, <1>3, <1>4 DEF Stored

(* The instruction is on its way to the network, if it sends.                    *)
LEMMA TableNext ==
    ASSUME NEW e, data' = Buffered(e), e.to # "none" => data = <<>>,
           e.i \in Nat, e.map \in Nat, e.remote \in BOOLEAN, e.part \in {"address", "data", "result"},
           InTable \in Seq(Packets)
    PROVE  /\ InTable' \in Seq(Packets)
           /\ e.to = "none" => InTable' = InTable
           /\ e.to # "none" => InTable = <<>> /\ InTable' = <<Packet(e, IF e.remote THEN "instruction" ELSE e.part)>>
<1>1. CASE e.to = "none"
  BY <1>1 DEF Buffered, SendsOnNetwork, InTable
<1>2. CASE e.to # "none"
  <2> DEFINE p == Packet(e, IF e.remote THEN "instruction" ELSE e.part)
  <2>1. data' = <<e>> /\ data' # <<>> /\ data'[1] = e
    BY <1>2 DEF Buffered, SendsOnNetwork
  <2>2. InTable = <<>> /\ InTable' = <<p>>
    BY <1>2, <2>1 DEF InTable, Packet
  <2>3. p \in Packets
    BY DEF Packet, Packets
  <2> HIDE DEF p
  <2>4. <<p>> \in Seq(Packets)
    BY <2>3
  <2>. QED BY <1>2, <2>2, <2>4 DEF p
<1>. QED BY <1>1, <1>2

(* When nothing has changed of what is to come, it is as before.                 *)
LEMMA BehindKept ==
    ASSUME NEW s, Behind(s), Passing' = Passing, Written' = Written, InTable' = InTable,
           UNCHANGED <<x, pred, map, computed, sent, fetched, continuingStore, previousInstExecuted, forwardedResult>>
    PROVE  Behind(s)'
<1>1. First' = First /\ Second' = Second /\ Computes(x)' = Computes(x) /\ ToSend' = ToSend
  BY DEF First, Second, Resolved, Computes, ToSend, Packet
<1>. QED BY <1>1 DEF Behind

(* While the decode stage waits for a result, and when it has it.                *)
LEMMA DoneInTime ==
    ASSUME NEW s, Later(s), Executes, xAt' = "idle", UNCHANGED <<phase, wAt, filled, d, dAt, slept>>
    PROVE  InTime'
BY DEF Later, InTime, Resolves, Full, Executes

(* The execute stage waits for room in the send table.                           *)
LEMMA BlockedInOrder ==
    ASSUME NEW s, Later(s), Blocked
    PROVE  LaterKeeps(s)
<1>1. /\ xAt = "new" /\ xAt' = "wait" /\ x.to # "none"
      /\ UNCHANGED <<r2, w, wAt, regs, x, pred, map, computed, sent, data, fetched, continuingStore, previousInstExecuted,
                     forwardedResult, program, phase, filled, d, dAt, slept>>
  BY DEF Blocked, CanSend, SendsOnNetwork, writing, table, bounds, inDecode, fetching, decoding
<1>2. Active /\ Active' /\ Passing' = Passing
  BY <1>1 DEF Active, Passing
<1>3. Arriving' = Arriving /\ Written' = Written /\ InTable' = InTable
  BY <1>1 DEF Arriving, Written, InTable, Stored, Packet
<1>4. Behind(s)'
  BY <1>1, <1>2, <1>3, BehindKept DEF Later
<1>5. Executed'
  <2>1. Executed
    BY <1>2 DEF Later, ExecuteInOrder
  <2>2. Shaped(x)'
    BY <1>1, <2>1 DEF Executed, Shaped, Own, Whole, Valid, Fields
  <2>. QED BY <1>1, <1>2, <2>1, <2>2 DEF Executed
<1>6. ExecuteInOrder'
  BY <1>1, <1>2, <1>3, <1>5 DEF Later, ExecuteInOrder
<1>7. InTime'
  BY <1>1 DEF Later, InTime, Resolves, MulStarted, Full
<1>8. OperandsKept(s)
  BY <1>1, <1>2 DEF OperandsKept, Forwards
<1>. QED BY <1>4, <1>6, <1>7, <1>8 DEF LaterKeeps

(* The execute stage does not do what the predicate forbids.                     *)
LEMMA SquashInOrder ==
    ASSUME NEW s, Later(s), Squash
    PROVE  LaterKeeps(s)
<1>1. /\ Executes /\ ~Core!Passes(x.pred, pred) /\ x' = PreventForwarding(x)
      /\ previousInstExecuted' = FALSE /\ xAt' = "idle"
      /\ UNCHANGED <<r2, w, wAt, regs, pred, map, computed, sent, data, fetched, continuingStore,
                     program, phase, filled, d, dAt, slept>>
  BY DEF Squash, NewInput, writing, table, bounds, inDecode, fetching, decoding
<1>2. Active /\ ~Passing /\ ~Active' /\ ~Passing' /\ r2 = <<>> /\ Shaped(x)
  BY <1>1, AtWork DEF Active, Passing
<1>3. Arriving' = Arriving /\ Written' = Written /\ InTable' = InTable
  BY <1>1 DEF Arriving, Written, InTable, Stored, Packet
<1>4. x'.dest = 0 /\ x'.sets = FALSE /\ x'.hasResult = TRUE
  BY <1>1, <1>2 DEF PreventForwarding, Shaped, Valid, Fields
<1>5. Behind(s)'
  BY <1>1, <1>2, <1>3 DEF Later, Behind
<1>6. ExecuteInOrder'
  BY <1>1, <1>2, <1>3, <1>4 DEF Later, ExecuteInOrder
<1>7. InTime'
  BY <1>1, DoneInTime
<1>8. OperandsKept(s)
  BY <1>1, <1>2 DEF OperandsKept, Forwards, Resolved
<1>. QED BY <1>5, <1>6, <1>7, <1>8 DEF LaterKeeps

(* An instruction that is done leaves its result, and what it sends, behind.     *)
LEMMA Finishes ==
    ASSUME NEW s, Later(s), Executes, Passing, NEW e, x' = e, xAt' = "idle", r2' = <<e>>, data' = Buffered(e),
           UNCHANGED <<w, wAt, regs, fetched, sent, program, phase, filled, d, dAt, slept>>,
           previousInstExecuted' = TRUE, forwardedResult' = e.result,
           e.i = x.i, e.dest = x.dest, e.to = x.to, e.sets = x.sets, e.map = x.map, e.remote = x.remote,
           e.hasResult = TRUE, e.part = "result", e.result = x.i, x.remote \/ x.op # "store",
           pred' = (IF x.sets THEN x.outcome ELSE pred),
           map' = (IF ~x.remote /\ x.op = "setchmap" THEN x.i ELSE map),
           computed' = (IF Computes(x) THEN Append(computed, <<x.i, First, Second>>) ELSE computed), ~continuingStore
    PROVE  LaterKeeps(s)
<1>1. /\ Active /\ Shaped(x) /\ r2 = <<>> /\ (x.to # "none" => data = <<>>) /\ x.i \in Nat /\ x.map \in Nat
      /\ x.dest \in Regs \cup {0} /\ x.remote \in BOOLEAN /\ x.sets \in BOOLEAN /\ xAt \in {"new", "wait"}
  BY AtWork
<1>2. ~Active' /\ ~Passing'
  BY DEF Active, Passing
<1>3. /\ x.dest = 0 => Written' = Written
      /\ x.dest # 0 => Written' = [Written EXCEPT ![x.dest] = x.i] /\ Written'[x.dest] = x.i
      /\ Arriving' = Arriving
  BY <1>1, WrittenNext DEF Later
<1>4. Written' = s.regs
  BY <1>3 DEF Later, Behind
<1>5. /\ InTable \in Seq(Packets) /\ sent \in Seq(Packets)
      /\ InTable' \in Seq(Packets)
      /\ x.to = "none" => InTable' = InTable
      /\ x.to # "none" => InTable = <<>> /\ InTable' = <<Packet(e, IF x.remote THEN "instruction" ELSE "result")>>
  BY <1>1, TableNext DEF Later, ExecuteInOrder
<1>6. /\ x.to = "none" => ToSend = <<>>
      /\ x.to # "none" => ToSend = <<Packet(e, IF x.remote THEN "instruction" ELSE "result")>>
  <2>1. \A p : Packet(e, p) = Packet(x, p)
    BY DEF Packet
  <2>2. x.remote => x.to = "core"
    BY <1>1 DEF Shaped
  <2>3. CASE x.remote
    BY <2>1, <2>2, <2>3 DEF ToSend
  <2>4. CASE ~x.remote /\ x.to = "none"
    BY <2>1, <2>4 DEF ToSend
  <2>5. CASE ~x.remote /\ x.to # "none" /\ x.op # "store"
    BY <2>1, <2>5 DEF ToSend
  <2>. QED BY <2>3, <2>4, <2>5, <2>2
<1>7. s.sent = sent \o InTable'
  <2>1. s.sent = (sent \o InTable) \o ToSend
    BY DEF Later, Behind
  <2>2. CASE x.to = "none"
    <3>1. sent \o InTable \in Seq(Packets)
      BY <1>5
    <3>2. (sent \o InTable) \o <<>> = sent \o InTable
      BY <3>1
    <3>. QED BY <1>5, <1>6, <2>1, <2>2, <3>2
  <2>3. CASE x.to # "none"
    <3>1. sent \o <<>> = sent
      BY <1>5
    <3>. QED BY <1>5, <1>6, <2>1, <2>3, <3>1
  <2>. QED BY <2>2, <2>3
<1>9. (sent' \o InTable') \o <<>> = sent \o InTable'
  <2>1. sent \o InTable' \in Seq(Packets)
    BY <1>5
  <2>. QED BY <2>1
<1>10. s.pred = pred'
  BY DEF Later, Behind
<1>11. s.map = map' /\ s.computed = computed' /\ s.fetched = fetched'
  BY DEF Later, Behind
<1>12. Behind(s)'
  BY <1>2, <1>4, <1>7, <1>9, <1>10, <1>11 DEF Behind
<1>13. map' \in Nat /\ computed' \in Seq(Computations)
  BY <1>11 DEF Later, Machine
<1>14. ExecuteInOrder'
  <2>1. r2'[1] = e
    OBVIOUS
  <2>2. sent' \in Seq(Packets) /\ (wAt' = "idle" /\ w'.dest # 0 => w'.dest \in Regs /\ regs'[w'.dest] = w'.result)
    BY <1>5 DEF Later, ExecuteInOrder
  <2>3. x'.hasResult \in BOOLEAN /\ x'.sets \in BOOLEAN /\ x'.dest \in Regs \cup {0}
    BY <1>1
  <2>. QED BY <1>1, <1>2, <1>3, <1>5, <1>13, <2>1, <2>2, <2>3 DEF ExecuteInOrder
<1>15. InTime'
  BY DoneInTime
<1>16. OperandsKept(s)
  <2>1. \A src \in Regs : src # 0
    BY PipelineAssumption
  <2>. QED BY <1>1, <1>2, <1>3, <1>4, <2>1 DEF OperandsKept, Forwards, Resolved
<1>. QED BY <1>12, <1>14, <1>15, <1>16 DEF LaterKeeps

(* A result that the decoder had already, or a word for another core.            *)
LEMMA HasResultInOrder ==
    ASSUME NEW s, Later(s), HasResult
    PROVE  LaterKeeps(s)
<1>1. /\ Executes /\ x.hasResult /\ ~continuingStore /\ xAt' = "idle" /\ x' = x
      /\ r2' = <<x>> /\ data' = Buffered(x) /\ pred' = (IF x.sets THEN x.outcome ELSE pred)
      /\ previousInstExecuted' = TRUE /\ forwardedResult' = x.result
      /\ UNCHANGED <<w, wAt, regs, map, computed, sent, fetched, program, phase, filled, d, dAt, slept>>
  BY DEF HasResult, SendOutput, UpdatePredicate, writing, bounds, inDecode, fetching, decoding
<1>2. Executed /\ Active /\ x.hasResult \in BOOLEAN
  BY <1>1, AtWork
<1>3. x.remote \/ x.op \in InDecoder
  BY <1>1, <1>2 DEF Executed
<1>4. Passing
  <2>1. x.remote => Core!Passes(x.pred, pred)
    BY <1>1, AtWork DEF Core!Passes
  <2>. QED BY <1>2, <1>3, <2>1 DEF Executed, Passing
<1>5. x.result = x.i /\ x.part = "result"
  BY <1>1, <1>2 DEF Executed
<1>6. ~Computes(x) /\ (x.remote \/ (x.op # "store" /\ x.op # "setchmap"))
  BY <1>3 DEF Computes, InDecoder, Core!InDecode
<1>7. x.hasResult = TRUE
  BY <1>1, <1>2
<1>. QED BY <1>1, <1>4, <1>5, <1>6, <1>7, Finishes

(* An instruction that has no result yet.                                        *)
LEMMA AtNewWork ==
    ASSUME NEW s, Later(s), NewInput, Core!Passes(x.pred, pred)
    PROVE  /\ Executes /\ Passing /\ ~x.remote /\ x.op \in Passed /\ x.op \notin InDecoder
           /\ continuingStore => x.op = "store"
           /\ x.part = IF continuingStore THEN "address" ELSE "result"
           /\ x.hasResult = continuingStore
<1>1. Executes /\ Executed /\ Active /\ (~x.hasResult \/ continuingStore)
  BY AtWork DEF NewInput
<1>2. Passing
  BY <1>1 DEF Passing
<1>3. continuingStore \in BOOLEAN /\ (continuingStore => x.op = "store")
  BY DEF Later, PInv, Executing
<1>. QED BY <1>1, <1>2, <1>3 DEF Executed, Shaped, InDecoder

(* The result is computed, from what was forwarded or read.                      *)
LEMMA ComputeInOrder ==
    ASSUME NEW s, Later(s), Compute
    PROVE  LaterKeeps(s)
<1> DEFINE inst == IF x.busy THEN x ELSE Collected(x)
           done == [inst EXCEPT !.result = inst.i, !.hasResult = TRUE]
<1>1. /\ NewInput /\ Core!Passes(x.pred, pred) /\ x.op # "store" /\ (x.op = "mul" => x.busy)
      /\ x' = done /\ xAt' = "idle"
      /\ computed' = Append(computed, <<inst.i, inst.op1, inst.op2>>)
      /\ r2' = <<done>> /\ data' = Buffered(done) /\ pred' = (IF done.sets THEN done.outcome ELSE pred)
      /\ map' = (IF x.op = "setchmap" THEN x.i ELSE map)
      /\ previousInstExecuted' = TRUE /\ forwardedResult' = done.result
      /\ UNCHANGED <<w, wAt, regs, sent, fetched, program, phase, filled, d, dAt, slept>>
  BY DEF Compute, SendOutput, UpdatePredicate, writing, bounds, inDecode, fetching, decoding
<1>2. Executes /\ Passing /\ ~x.remote /\ ~continuingStore /\ x.part = "result" /\ x.op \in Passed
      /\ x.op \notin InDecoder
  BY <1>1, AtNewWork
<1>3. /\ Shaped(inst) /\ inst.i = x.i /\ inst.dest = x.dest /\ inst.to = x.to /\ inst.sets = x.sets
      /\ inst.map = x.map /\ inst.remote = x.remote /\ inst.outcome = x.outcome /\ inst.part = x.part
      /\ inst.op1 = First /\ inst.op2 = Second
  <2>1. Shaped(x) /\ previousInstExecuted \in BOOLEAN /\ x.busy \in BOOLEAN
    BY <1>2, AtWork DEF Later, ExecuteInOrder
  <2>2. CASE x.busy
    BY <2>1, <2>2 DEF First, Second
  <2>3. CASE ~x.busy
    <3> DEFINE f == Collected(x)
    <3>1. /\ Shaped(f) /\ Alike(f, x) /\ f.map = x.map /\ f.remote = x.remote
          /\ f.outcome = x.outcome /\ f.part = x.part /\ f.dest = x.dest /\ f.sets = x.sets
          /\ f.op1 = Resolved(x.by1, x.op1) /\ f.op2 = Resolved(x.by2, x.op2)
      BY <2>1, CollectedShaped
    <3> HIDE DEF f
    <3>2. inst = f
      BY <2>3 DEF f
    <3>. QED BY <2>3, <3>1, <3>2 DEF First, Second, Alike
  <2>. QED BY <2>1, <2>2, <2>3
<1> HIDE DEF inst
<1>4. /\ done.i = x.i /\ done.dest = x.dest /\ done.to = x.to /\ done.sets = x.sets
      /\ done.map = x.map /\ done.remote = x.remote /\ done.outcome = x.outcome /\ done.part = x.part
      /\ done.result = x.i /\ done.hasResult = TRUE
  BY <1>3 DEF Shaped, Valid, Fields, Whole
<1> HIDE DEF done
<1>5. Computes(x)
  BY <1>2 DEF Computes, Core!InDecode, Passed, InDecoder
<1>6. computed' = Append(computed, <<x.i, First, Second>>)
  BY <1>1, <1>3
<1>. QED BY <1>1, <1>2, <1>4, <1>5, <1>6, Finishes

(* A multiplication takes its operands at once, and more time.                   *)
LEMMA StartMultiplyInOrder ==
    ASSUME NEW s, Later(s), StartMultiply
    PROVE  LaterKeeps(s)
<1> DEFINE f == Collected(x)
           e == [f EXCEPT !.busy = TRUE]
<1>1. /\ NewInput /\ Core!Passes(x.pred, pred) /\ x.op = "mul" /\ ~x.busy
      /\ x' = e /\ xAt' = "mul" /\ previousInstExecuted' = TRUE
      /\ UNCHANGED <<r2, w, wAt, regs, pred, map, computed, sent, data, fetched, continuingStore, program, phase, filled,
                     d, dAt, slept>>
  BY DEF StartMultiply, writing, table, bounds, inDecode, fetching, decoding
<1>2. /\ Executes /\ Passing /\ ~x.remote /\ ~continuingStore /\ x.part = "result" /\ ~x.hasResult
      /\ Active /\ Shaped(x) /\ xAt \in {"new", "wait"}
  BY <1>1, AtNewWork, AtWork
<1>3. /\ Shaped(f) /\ Alike(f, x) /\ f.map = x.map /\ f.hasResult = x.hasResult /\ f.remote = x.remote
      /\ f.outcome = x.outcome /\ f.result = x.result /\ f.part = x.part
      /\ f.dest = x.dest /\ f.sets = x.sets
      /\ f.op1 = Resolved(x.by1, x.op1) /\ f.op2 = Resolved(x.by2, x.op2)
  BY <1>2, CollectedShaped DEF Later, ExecuteInOrder
<1> HIDE DEF f
<1>4. /\ Alike(e, x) /\ e.map = x.map /\ e.hasResult = x.hasResult /\ e.remote = x.remote
      /\ e.outcome = x.outcome /\ e.result = x.result /\ e.part = x.part
      /\ e.dest = x.dest /\ e.sets = x.sets /\ e.op1 = First /\ e.op2 = Second /\ e.busy = TRUE
      /\ e.by1 = f.by1 /\ e.by2 = f.by2 /\ e.eop = f.eop /\ e.looping = f.looping
      /\ DOMAIN e = DOMAIN f
  BY <1>1, <1>3 DEF Shaped, Valid, Fields, Whole, Alike, First, Second
<1> HIDE DEF e
<1>5. Shaped(e)
  <2>1. Valid(e) /\ Whole(e)
    BY <1>3, <1>4 DEF Shaped, Valid, Fields, Whole, Alike
  <2>2. ~e.remote => Own(e)
    BY <1>3, <1>4 DEF Shaped, Own, Alike
  <2>. QED BY <1>3, <1>4, <2>1, <2>2 DEF Shaped, Alike
<1>6. Active' /\ Passing'
  BY <1>1, <1>2, <1>4 DEF Active, Passing, Alike
<1>7. Arriving' = Arriving /\ Written' = Written /\ InTable' = InTable
  BY <1>1 DEF Arriving, Written, InTable, Stored, Packet
<1>8. First' = First /\ Second' = Second /\ Computes(x)' = Computes(x) /\ ToSend' = ToSend
  BY <1>1, <1>2, <1>4 DEF First, Second, Computes, ToSend, Packet, Alike
<1>9. Behind(s)'
  BY <1>1, <1>2, <1>4, <1>6, <1>7, <1>8 DEF Later, Behind, Alike
<1>10. Executed'
  <2>1. Executed
    BY <1>2 DEF Later, ExecuteInOrder
  <2>2. Shaped(x)'
    BY <1>1, <1>5 DEF Shaped, Own, Whole, Valid, Fields
  <2>. QED BY <1>1, <1>2, <1>4, <1>6, <2>1, <2>2 DEF Executed, Alike
<1>11. ExecuteInOrder'
  BY <1>1, <1>4, <1>7, <1>10 DEF Later, ExecuteInOrder
<1>12. InTime'
  BY <1>1, <1>2, <1>4 DEF Later, InTime, Resolves, MulStarted, Full, Alike
<1>13. OperandsKept(s)
  BY <1>1, <1>2, <1>4, <1>6 DEF OperandsKept, Forwards
<1>. QED BY <1>9, <1>11, <1>12, <1>13 DEF LaterKeeps

(* The address that a store sends.                                               *)
LEMMA SendAddressInOrder ==
    ASSUME NEW s, Later(s), SendAddress
    PROVE  LaterKeeps(s)
<1> DEFINE f == Collected(x)
           e == [f EXCEPT !.part = "address", !.hasResult = TRUE]
<1>1. /\ NewInput /\ Core!Passes(x.pred, pred) /\ x.op = "store" /\ ~continuingStore
      /\ x' = e /\ xAt' = "store" /\ previousInstExecuted' = TRUE /\ continuingStore' = TRUE
      /\ computed' = Append(computed, <<e.i, e.op1, e.op2>>)
      /\ r2' = <<e>> /\ data' = Buffered(e)
      /\ UNCHANGED <<w, wAt, regs, pred, map, sent, fetched, program, phase, filled, d, dAt, slept>>
  BY DEF SendAddress, SendOutput, writing, table, bounds, inDecode, fetching, decoding
<1>2. /\ Executes /\ Passing /\ ~x.remote /\ x.part = "result" /\ ~x.hasResult
      /\ Active /\ Shaped(x) /\ Executed /\ xAt \in {"new", "wait"} /\ x.dest = 0 /\ x.to = "memory" /\ ~x.sets
      /\ r2 = <<>> /\ data = <<>> /\ ~x.busy /\ x.i \in Nat /\ x.map \in Nat /\ x.result \in Nat /\ x.remote \in BOOLEAN
  <2>1. Executes /\ Passing /\ ~x.remote /\ x.part = "result" /\ ~x.hasResult
    BY <1>1, AtNewWork
  <2>2. Executed
    BY <2>1, AtWork
  <2>3. ~x.busy
    BY <1>1, <2>2 DEF Executed
  <2>. QED BY <1>1, <2>1, <2>3, AtWork
<1>3. /\ Shaped(f) /\ Alike(f, x) /\ f.map = x.map /\ f.hasResult = x.hasResult /\ f.remote = x.remote
      /\ f.outcome = x.outcome /\ f.result = x.result /\ f.part = x.part /\ f.busy = x.busy
      /\ f.dest = x.dest /\ f.sets = x.sets
      /\ f.op1 = Resolved(x.by1, x.op1) /\ f.op2 = Resolved(x.by2, x.op2)
  BY <1>2, CollectedShaped DEF Later, ExecuteInOrder
<1> HIDE DEF f
<1>4. /\ Alike(e, x) /\ e.map = x.map /\ e.hasResult = TRUE /\ e.remote = x.remote
      /\ e.outcome = x.outcome /\ e.result = x.result /\ e.part = "address"
      /\ e.dest = x.dest /\ e.sets = x.sets /\ e.op1 = First /\ e.op2 = Second /\ e.busy = x.busy
      /\ e.by1 = f.by1 /\ e.by2 = f.by2 /\ e.eop = f.eop /\ e.looping = f.looping
      /\ DOMAIN e = DOMAIN f
  BY <1>2, <1>3 DEF Shaped, Valid, Fields, Whole, Alike, First, Second
<1> HIDE DEF e
<1>5. Shaped(e)
  <2>1. Valid(e) /\ Whole(e)
    BY <1>3, <1>4 DEF Shaped, Valid, Fields, Whole, Alike
  <2>2. ~e.remote => Own(e)
    BY <1>3, <1>4 DEF Shaped, Own, Alike
  <2>. QED BY <1>3, <1>4, <2>1, <2>2 DEF Shaped, Alike
<1>6. Active' /\ Passing'
  BY <1>1, <1>2, <1>4 DEF Active, Passing, Alike
<1>7. Arriving' = Arriving /\ Written' = Written
  <2>1. e.dest = 0 /\ e.result \in Nat
    BY <1>2, <1>4
  <2>. QED BY <1>1, <1>2, <2>1, WrittenNext DEF Later
<1>8. InTable' \in Seq(Packets) /\ InTable = <<>> /\ InTable' = <<Packet(x, "address")>>
  <2>1. /\ e.i \in Nat /\ e.map \in Nat /\ e.remote \in BOOLEAN /\ e.part \in {"address", "data", "result"}
        /\ e.to # "none" /\ ~e.remote /\ InTable \in Seq(Packets)
    BY <1>2, <1>4 DEF Alike, Later, ExecuteInOrder
  <2>2. InTable' \in Seq(Packets) /\ InTable = <<>> /\ InTable' = <<Packet(e, "address")>>
    BY <1>1, <1>2, <1>4, <2>1, TableNext
  <2>3. Packet(e, "address") = Packet(x, "address")
    BY <1>4 DEF Packet, Alike
  <2>. QED BY <2>2, <2>3
<1>9. s.sent = (sent' \o InTable') \o ToSend'
  <2> DEFINE a == Packet(x, "address")
             b == Packet(x, "data")
  <2>1. a \in Packets /\ b \in Packets
    BY <1>2 DEF Packet, Packets
  <2>2. ToSend = <<a, b>>
    BY <1>1, <1>2 DEF ToSend
  <2>3. ToSend' = <<Packet(e, "data")>>
    BY <1>1, <1>2, <1>4 DEF ToSend, Alike
  <2>4. Packet(e, "data") = b
    BY <1>4 DEF Packet, Alike
  <2>5. s.sent = (sent \o <<>>) \o <<a, b>>
    BY <1>2, <1>8, <2>2 DEF Later, Behind
  <2> HIDE DEF a, b
  <2>6. sent \in Seq(Packets)
    BY DEF Later, ExecuteInOrder
  <2>7. (sent \o <<>>) \o <<a, b>> = (sent \o <<a>>) \o <<b>>
    <3>1. sent \o <<>> = sent
      BY <2>6
    <3>2. (sent \o <<a>>) \o <<b>> = sent \o <<a, b>>
      BY <2>1, <2>6, JoinedPair
    <3>. QED BY <3>1, <3>2
  <2>. QED BY <1>1, <1>8, <2>3, <2>4, <2>5, <2>7 DEF a
<1>10. Computes(x) /\ computed' = s.computed
  <2>1. Computes(x)
    BY <1>1, <1>2 DEF Computes, Core!InDecode
  <2>. QED BY <1>1, <1>2, <1>4, <2>1 DEF Later, Behind, Alike
<1>11. Behind(s)'
  <2>1. x'.dest = 0 /\ ~x'.sets /\ x'.op = "store"
    BY <1>1, <1>2, <1>4 DEF Alike
  <2>. QED BY <1>1, <1>2, <1>6, <1>7, <1>9, <1>10, <2>1 DEF Later, Behind
<1>12. Executed'
  <2>1. Shaped(x)'
    BY <1>1, <1>5 DEF Shaped, Own, Whole, Valid, Fields
  <2>. QED BY <1>1, <1>2, <1>4, <1>6, <2>1 DEF Executed, Alike, InDecoder
<1>13. ExecuteInOrder'
  <2>1. computed' \in Seq(Computations)
    BY <1>10 DEF Later, Machine
  <2>2. r2'[1] = e
    BY <1>1
  <2>. QED BY <1>1, <1>2, <1>4, <1>6, <1>7, <1>8, <1>12, <2>1, <2>2 DEF Later, ExecuteInOrder
<1>14. 0 \notin Regs
  BY PipelineAssumption
<1>15. InTime'
  BY <1>1, <1>2, <1>4, <1>14 DEF Later, InTime, Resolves, Full, Alike
<1>16. OperandsKept(s)
  BY <1>1, <1>2, <1>14 DEF OperandsKept, Forwards
<1>. QED BY <1>11, <1>13, <1>15, <1>16 DEF LaterKeeps

(* The payload that a store sends.                                               *)
LEMMA SendPayloadInOrder ==
    ASSUME NEW s, Later(s), SendPayload
    PROVE  LaterKeeps(s)
<1> DEFINE e == [x EXCEPT !.part = "data"]
<1>1. /\ NewInput /\ Core!Passes(x.pred, pred) /\ continuingStore
      /\ x' = e /\ xAt' = "idle" /\ previousInstExecuted' = TRUE /\ continuingStore' = FALSE
      /\ r2' = <<e>> /\ data' = Buffered(e)
      /\ UNCHANGED <<w, wAt, regs, pred, map, computed, sent, fetched, program, phase, filled, d, dAt, slept>>
  BY DEF SendPayload, SendOutput, writing, table, bounds, inDecode, fetching, decoding
<1>2. /\ Executes /\ Passing /\ ~x.remote /\ x.op = "store" /\ x.hasResult
      /\ Active /\ Shaped(x) /\ xAt \in {"new", "wait"} /\ x.dest = 0 /\ x.to = "memory" /\ ~x.sets
      /\ r2 = <<>> /\ data = <<>> /\ x.i \in Nat /\ x.map \in Nat /\ x.result \in Nat /\ x.remote \in BOOLEAN
  <2>1. Executes /\ Passing /\ ~x.remote /\ x.op = "store" /\ x.hasResult
    BY <1>1, AtNewWork
  <2>. QED BY <2>1, AtWork
<1>3. /\ e.i = x.i /\ e.map = x.map /\ e.hasResult = x.hasResult /\ e.remote = x.remote /\ e.to = x.to
      /\ e.result = x.result /\ e.part = "data" /\ e.dest = x.dest /\ e.sets = x.sets
  BY <1>2 DEF Shaped, Valid, Fields, Whole
<1> HIDE DEF e
<1>4. ~Active' /\ ~Passing'
  BY <1>1 DEF Active, Passing
<1>5. Arriving' = Arriving /\ Written' = Written
  <2>1. e.dest = 0 /\ e.result \in Nat
    BY <1>2, <1>3
  <2>. QED BY <1>1, <1>2, <2>1, WrittenNext DEF Later
<1>6. InTable' \in Seq(Packets) /\ InTable = <<>> /\ InTable' = <<Packet(x, "data")>>
  <2>1. /\ e.i \in Nat /\ e.map \in Nat /\ e.remote \in BOOLEAN /\ e.part \in {"address", "data", "result"}
        /\ e.to # "none" /\ ~e.remote /\ InTable \in Seq(Packets)
    BY <1>2, <1>3 DEF Later, ExecuteInOrder
  <2>2. InTable' \in Seq(Packets) /\ InTable = <<>> /\ InTable' = <<Packet(e, "data")>>
    BY <1>1, <1>2, <1>3, <2>1, TableNext
  <2>3. Packet(e, "data") = Packet(x, "data")
    BY <1>3 DEF Packet
  <2>. QED BY <2>2, <2>3
<1>7. s.sent = (sent' \o InTable') \o <<>>
  <2> DEFINE b == Packet(x, "data")
  <2>1. b \in Packets
    BY <1>2 DEF Packet, Packets
  <2>2. ToSend = <<b>>
    BY <1>1, <1>2 DEF ToSend
  <2>3. s.sent = (sent \o <<>>) \o <<b>>
    BY <1>2, <1>6, <2>2 DEF Later, Behind
  <2>4. InTable' = <<b>>
    BY <1>6
  <2> HIDE DEF b
  <2>5. sent \in Seq(Packets)
    BY DEF Later, ExecuteInOrder
  <2>6. (sent \o <<>>) \o <<b>> = (sent \o <<b>>) \o <<>>
    <3>1. sent \o <<>> = sent /\ sent \o <<b>> \in Seq(Packets)
      BY <2>1, <2>5
    <3>. QED BY <3>1
  <2>. QED BY <1>1, <2>3, <2>4, <2>6
<1>8. Behind(s)'
  BY <1>1, <1>2, <1>4, <1>5, <1>7 DEF Later, Behind
<1>9. ExecuteInOrder'
  <2>1. r2'[1] = e
    BY <1>1
  <2>. QED BY <1>1, <1>2, <1>3, <1>4, <1>5, <1>6, <2>1 DEF Later, ExecuteInOrder
<1>10. InTime'
  BY <1>1, <1>2, DoneInTime
<1>11. OperandsKept(s)
  <2>1. 0 \notin Regs
    BY PipelineAssumption
  <2>. QED BY <1>2, <2>1 DEF OperandsKept, Forwards
<1>. QED BY <1>8, <1>9, <1>10, <1>11 DEF LaterKeeps

(* The write stage stores a result.                                              *)
LEMMA WriteResultInOrder ==
    ASSUME NEW s, Later(s), WriteResult
    PROVE  LaterKeeps(s)
<1>1. /\ wAt = "new" /\ wAt' = "idle" /\ regs' = (IF w.dest = 0 THEN regs ELSE [regs EXCEPT ![w.dest] = w.result])
      /\ UNCHANGED <<w, r2, x, xAt, pred, map, computed, sent, data, fetched, continuingStore, previousInstExecuted,
                     forwardedResult, program, phase, filled, d, dAt, slept>>
  BY DEF WriteResult, executing, table, bounds, inDecode, fetching, decoding
<1>2. Arriving' = Arriving
  BY <1>1 DEF Arriving, Stored
<1>3. Written' = Written /\ InTable' = InTable /\ Active' = Active /\ Passing' = Passing
  BY <1>1, <1>2 DEF Written, InTable, Stored, Packet, Active, Passing
<1>4. Behind(s)'
  BY <1>1, <1>3, BehindKept DEF Later
<1>5. w.dest # 0 => w.dest \in Regs /\ regs'[w.dest] = w.result
  <2>1. w.dest \in Regs \cup {0} /\ DOMAIN regs = Regs
    BY <1>1 DEF Later, PInv, Writing, Valid
  <2>. QED BY <1>1, <2>1
<1>6. Executed' = Executed
  BY <1>1, <1>3 DEF Executed, Shaped, Own, Whole, Valid, Fields
<1>7. ExecuteInOrder'
  BY <1>1, <1>3, <1>5, <1>6 DEF Later, ExecuteInOrder
<1>8. InTime'
  BY <1>1 DEF Later, InTime, Resolves, MulStarted, Full
<1>9. OperandsKept(s)
  BY <1>1, <1>3 DEF OperandsKept, Forwards, Resolved
<1>. QED BY <1>4, <1>7, <1>8, <1>9 DEF LaterKeeps

(* The send table takes a flit from its buffer.                                  *)
LEMMA ReceiveDataInOrder ==
    ASSUME NEW s, Later(s), ReceiveData, phase = "run"
    PROVE  LaterKeeps(s)
<1>1. /\ data' = <<>> /\ data # <<>>
      /\ sent' = Append(sent, [i |-> Head(data).i, map |-> Head(data).map,
                               part |-> IF Head(data).remote THEN "instruction" ELSE Head(data).part])
      /\ UNCHANGED <<w, wAt, regs, r2, x, pred, map, computed, fetched, continuingStore, previousInstExecuted,
                     forwardedResult, program, phase, d, dAt, slept>>
      /\ xAt' = xAt \/ StoreGoesOn
  BY DEF ReceiveData, CanReceive, writing, bounds, inDecode, fetching, decoding, StoreGoesOn
<1>2. Head(data) = data[1]
  BY <1>1 DEF Later, PInv, Sending, Latch
<1> DEFINE p == Packet(data[1], IF data[1].remote THEN "instruction" ELSE data[1].part)
<1>3. InTable = <<p>> /\ InTable' = <<>>
  BY <1>1 DEF InTable
<1>4. sent' = Append(sent, p)
  BY <1>1, <1>2 DEF Packet
<1> HIDE DEF p
<1>5. p \in Packets /\ sent \in Seq(Packets)
  <2>1. <<p>> \in Seq(Packets) /\ sent \in Seq(Packets)
    BY <1>3 DEF Later, ExecuteInOrder
  <2>2. 1 \in 1..Len(<<p>>) /\ <<p>>[1] = p
    OBVIOUS
  <2>. QED BY <2>1, <2>2
<1>6. sent' \o InTable' = sent \o InTable /\ sent' \in Seq(Packets)
  <2>1. Append(sent, p) = sent \o <<p>> /\ Append(sent, p) \in Seq(Packets) /\ Append(sent, p) \o <<>> = Append(sent, p)
    BY <1>5
  <2>. QED BY <1>3, <1>4, <2>1
<1>7. Written' = Written /\ Arriving' = Arriving /\ Active' = Active /\ Passing' = Passing
  BY <1>1 DEF Written, Arriving, Stored, Active, Passing, StoreGoesOn
<1>8. First' = First /\ Second' = Second /\ Computes(x)' = Computes(x) /\ ToSend' = ToSend
  BY <1>1 DEF First, Second, Resolved, Computes, ToSend, Packet
<1>9. Behind(s)'
  BY <1>1, <1>6, <1>7, <1>8 DEF Later, Behind
<1>10. Executed' = (Executed /\ (xAt' = "mul" => x.busy))
  BY <1>1, <1>7 DEF Executed, Shaped, Own, Whole, Valid, Fields, StoreGoesOn
<1>11. ExecuteInOrder'
  <2>1. <<>> \in Seq(Packets)
    OBVIOUS
  <2>2. xAt' # "idle" <=> xAt # "idle"
    BY <1>7 DEF Active
  <2>3. xAt' \in {"mul", "wait"} => xAt' = xAt
    BY <1>1 DEF StoreGoesOn
  <2>4. Active' => Executed'
    BY <1>7, <1>10, <2>3 DEF Later, ExecuteInOrder, Executed
  <2>. QED BY <1>1, <1>3, <1>6, <1>7, <2>1, <2>2, <2>3, <2>4 DEF Later, ExecuteInOrder
<1>12. InTime'
  <2>1. xAt' = "new" /\ xAt' # xAt => x.op = "store"
    BY <1>1 DEF Later, PInv, Executing, StoreGoesOn
  <2>2. Resolves => xAt \in {"idle", "wait"}
    BY DEF Resolves
  <2>3. Resolves' = Resolves
    BY <1>1, <2>2 DEF Resolves, MulStarted, StoreGoesOn
  <2>4. MulStarted' = MulStarted /\ (x.op = "store" => MulStarted)
    BY <1>1 DEF MulStarted
  <2>. QED BY <1>1, <2>1, <2>3, <2>4 DEF Later, InTime, StoreGoesOn
<1>13. OperandsKept(s)
  BY <1>1, <1>7 DEF OperandsKept, Forwards, Resolved
<1>. QED BY <1>9, <1>11, <1>12, <1>13 DEF LaterKeeps

(* What the operands of an instruction need is still there.                      *)
LEMMA LoadedKept ==
    ASSUME NEW s, NEW e, Loaded(e, s), OperandsKept(s)
    PROVE  Loaded(e, s)'
<1>1. ASSUME NEW src, NEW read, NEW op, NEW by, OperandOK(s, src, read, op, by)
      PROVE  OperandOK(s, src, read, op, by)'
  BY <1>1 DEF OperandOK, OperandsKept
<1>. QED BY <1>1 DEF Loaded

(* The decode stage has nothing, or has just begun.                              *)
LEMMA AtRest ==
    ASSUME dAt' \in {"idle", "new"}, slept' \in BOOLEAN, remote' \in BOOLEAN, previousMap' \in Nat,
           remote' = Due'.remote, remote' => previousMap' = Due'.remoteMap, taken' = Due'.read,
           dAt' = "new" => r1' = <<>> /\ Decoded(d)' /\ ~d'.remote /\ ~d'.hasResult
    PROVE  DecodeInOrder'
BY DEF DecodeInOrder

(* The decode stage finds what it counts on after a step of the later stages.    *)
LEMMA LaterStepKeeps ==
    ASSUME EInv, NEW s, s = Before, LaterKeeps(s),
           UNCHANGED <<program, issued, r1, d, dAt, slept, remote, previousMap, taken>>
    PROVE  EInv'
<1>1. Due' = Due /\ Before' = s
  BY DEF Due, Before
<1>2. r1 = <<>> => Due = s
  BY DEF Before
<1>3. \A e : Decoded(e)' = Decoded(e) /\ Final(e)' = Final(e)
  BY DEF Decoded, Final, Shaped, Own, Whole, Valid, Fields
<1>4. ASSUME r1 # <<>>
      PROVE  /\ dAt = "idle" /\ issued # <<>>
             /\ issued[Len(issued)] = [i |-> r1[1].i, outcome |-> r1[1].outcome]
             /\ Decoded(r1[1]) /\ Final(r1[1]) /\ Loaded(r1[1], s)'
  BY <1>4, LoadedKept DEF EInv, IssuedInOrder, LaterKeeps
<1>5. IssuedInOrder'
  BY <1>1, <1>3, <1>4 DEF EInv, IssuedInOrder, LaterKeeps
<1>6. dAt \in {"credits", "space", "next"} => Final(d) /\ Loaded(d, s)'
  BY <1>2, LoadedKept DEF EInv, DecodeInOrder, LaterKeeps
<1>7. dAt \notin {"idle", "new"} => Deciding(d)'
  BY <1>1 DEF EInv, DecodeInOrder, Deciding, NeedsPredicate
<1>8. DecodeInOrder'
  <2>1. dAt \in {"credits", "space", "next"} => Final(d)' /\ Loaded(d, Due)'
    <3>1. SUFFICES ASSUME dAt \in {"credits", "space", "next"} PROVE Loaded(d, Due)'
      BY <1>3, <1>6
    <3>2. Due' = s /\ Loaded(d, s)'
      BY <1>1, <1>2, <1>6, <3>1 DEF EInv, DecodeInOrder
    <3>. QED BY <3>2 DEF Loaded, OperandOK, Forwards
  <2>. QED BY <1>1, <1>3, <1>7, <2>1 DEF EInv, DecodeInOrder
<1>. QED BY <1>5, <1>8 DEF EInv, LaterKeeps

(* What the invariant reads, but for the bounds.                                 *)
same == <<program, issued, r1, d, dAt, slept, remote, previousMap, taken, x, xAt, continuingStore, forwardedResult,
          previousInstExecuted, r2, w, wAt, regs, pred, map, data, computed, fetched, sent>>

(* What comes from around the pipeline does not change what it does.             *)
LEMMA AroundKeeps ==
    ASSUME EInv, UNCHANGED same, InTime'
    PROVE  EInv'
<1>1. PICK s : s = Before
  OBVIOUS
<1>2. /\ UNCHANGED <<x, pred, map, computed, sent, fetched, continuingStore, previousInstExecuted, forwardedResult>>
      /\ UNCHANGED <<program, issued, r1, d, dAt, slept, remote, previousMap, taken>>
      /\ UNCHANGED <<xAt, r2, w, wAt, regs, data>>
  BY DEF same
<1>3. Arriving' = Arriving /\ Written' = Written /\ InTable' = InTable /\ Active' = Active /\ Passing' = Passing
  BY <1>2 DEF Arriving, Written, InTable, Stored, Packet, Active, Passing
<1>4. Behind(s)'
  BY <1>1, <1>2, <1>3, BehindKept DEF EInv, IssuedInOrder
<1>5. Executed' = Executed
  BY <1>2, <1>3 DEF Executed, Shaped, Own, Whole, Valid, Fields
<1>6. ExecuteInOrder'
  BY <1>2, <1>3, <1>5 DEF EInv, ExecuteInOrder
<1>7. OperandsKept(s)
  BY <1>2, <1>3 DEF OperandsKept, Forwards, Resolved
<1>. QED BY <1>1, <1>2, <1>4, <1>6, <1>7, LaterStepKeeps DEF LaterKeeps

(* The sequence that has been issued, and what the core in order has come to.    *)
LEMMA DueIs ==
    ASSUME IssuedInOrder, r1 # <<>>
    PROVE  Due = Core!Step(Before, program[r1[1].i], [i |-> r1[1].i, outcome |-> r1[1].outcome])
<1> DEFINE s == SubSeq(issued, 1, Len(issued) - 1)
           e == issued[Len(issued)]
<1>1. issued \in Seq(Issues) /\ issued # <<>> /\ e = [i |-> r1[1].i, outcome |-> r1[1].outcome]
  BY DEF IssuedInOrder
<1>2. s \in Seq(Issues) /\ e \in Issues /\ issued = Append(s, e)
  <2>1. \A t \in Seq(Issues) : t # <<>> =>
           /\ SubSeq(t, 1, Len(t) - 1) \in Seq(Issues) /\ t[Len(t)] \in Issues
           /\ t = Append(SubSeq(t, 1, Len(t) - 1), t[Len(t)])
    OBVIOUS
  <2>. QED BY <1>1, <2>1
<1> HIDE DEF s, e
<1>3. Core!Effects(program, Append(s, e), Regs) = Core!Step(Core!Effects(program, s, Regs), program[e.i], e)
  BY <1>2, EffectsOfOneMore
<1>4. Before = Core!Effects(program, s, Regs)
  BY DEF Before, s
<1>5. e.i = r1[1].i
  BY <1>1
<1>. QED BY <1>1, <1>2, <1>3, <1>4, <1>5 DEF Due

(* What the execute stage takes is the next step of the core in order.           *)
LEMMA TakenInOrder ==
    ASSUME program \in Programs, Ordinary(program), NEW s \in Machine, Behind(s), ExecuteInOrder, ~Active,
           NEW e, Decoded(e), Final(e), Loaded(e, s),
           x' = e, xAt' = "new", ~continuingStore, Written' = Written,
           UNCHANGED <<program, pred, map, computed, sent, fetched, data, continuingStore, previousInstExecuted,
                       forwardedResult>>,
           NEW t, t = Core!Step(s, program[e.i], [i |-> e.i, outcome |-> e.outcome])
    PROVE  Behind(t)' /\ Executed'
<1> DEFINE ins == program[e.i]
           ie == [i |-> e.i, outcome |-> e.outcome]
<1>0. t = Core!Step(s, ins, ie)
  OBVIOUS
<1>1. /\ Shaped(e) /\ e.i \in 1..Len(program) /\ e.part = "result" /\ ~e.busy /\ e.remote \in BOOLEAN
      /\ e.outcome \in BOOLEAN /\ e.map \in Nat
  BY DEF Decoded, Shaped, Valid
<1>2. ins \in Instructions /\ e.i \in Nat /\ ie \in Issues
  BY <1>1, ProgramIs DEF Issues
<1>3. /\ s.regs = Written /\ s.pred = pred /\ s.map = map /\ s.computed = computed /\ s.fetched = fetched
      /\ s.sent = sent \o InTable
  <2>1. s.sent = (sent \o InTable) \o <<>> /\ sent \o InTable \in Seq(Packets)
    BY DEF Behind, Passing, ExecuteInOrder
  <2>2. \A u \in Seq(Packets) : u \o <<>> = u
    OBVIOUS
  <2>3. s.sent = sent \o InTable
    BY <2>1, <2>2
  <2>. QED BY <2>3 DEF Behind, Passing
<1>4. InTable' = InTable
  BY DEF InTable, Packet
<1>5. Active' /\ (Passing' <=> Core!Passes(e.pred, pred))
  BY DEF Active, Passing
<1>6. sent \o InTable \in Seq(Packets)
  BY DEF ExecuteInOrder
<1> HIDE DEF ins, ie
<1>7. ASSUME e.remote PROVE Behind(t)'
  <2>0. t = Core!SendAway(s, ins, ie)
    BY <1>0, <1>2, <1>7, StepIs DEF Loaded
  <2>1. /\ t.sent = Append(s.sent, [i |-> ie.i, part |-> "instruction", map |-> s.remoteMap])
        /\ t.regs = s.regs /\ t.pred = s.pred /\ t.map = s.map /\ t.computed = s.computed /\ t.fetched = s.fetched
    BY <2>0, SendAwayIs, <1>2
  <2>2. Passing' /\ e.dest = 0 /\ ~e.sets
    BY <1>1, <1>5, <1>7 DEF Shaped, Core!Passes
  <2>3. Packet(e, "instruction") = [i |-> ie.i, part |-> "instruction", map |-> s.remoteMap]
    BY <1>7 DEF Packet, ie, Loaded
  <2>4. ToSend' = <<Packet(e, "instruction")>>
    BY <1>7 DEF ToSend
  <2>5. Packet(e, "instruction") \in Packets
    BY <1>1, <1>2 DEF Packet, Packets
  <2> DEFINE a == Packet(e, "instruction")
  <2>7. \A u \in Seq(Packets) : u \o <<a>> = Append(u, a)
    <3> HIDE DEF a
    <3>. QED BY <2>5
  <2>6. t.sent = (sent' \o InTable') \o ToSend'
    BY <1>3, <1>4, <1>6, <2>1, <2>3, <2>4, <2>7
  <2>. QED BY <1>3, <1>7, <2>1, <2>2, <2>6 DEF Behind, Computes
<1>8. ASSUME ~e.remote, ~Core!Passes(e.pred, pred) PROVE Behind(t)'
  <2>1. t = s
    BY <1>0, <1>1, <1>2, <1>3, <1>8, StepIs DEF Loaded, Shaped, Own, ins
  <2>2. ~Passing' /\ (sent \o InTable) \o <<>> = sent \o InTable
    BY <1>5, <1>6, <1>8
  <2>. QED BY <1>3, <1>4, <2>1, <2>2 DEF Behind
<1>9. ASSUME ~e.remote, Core!Passes(e.pred, pred) PROVE Behind(t)'
  <2> DEFINE op1 == Core!Value(s, ins.src1, s.read)
             op2 == Core!Value(s, ins.src2, s.read + ReadFirst(ins))
  <2>1. /\ e.op = ins.op /\ e.dest = ins.dest /\ e.src1 = ins.src1 /\ e.src2 = ins.src2
        /\ e.pred = ins.pred /\ e.sets = ins.sets /\ e.to = ins.to /\ e.op \in Passed
    BY <1>1, <1>9 DEF Shaped, Own, ins, Final
  <2>2. t = Core!Perform(s, ins, ie)
    BY <1>0, <1>2, <1>3, <1>9, <2>1, StepIs DEF Loaded
  <2>3. /\ t.regs = IF ins.dest = 0 THEN s.regs ELSE [s.regs EXCEPT ![ins.dest] = ie.i]
        /\ t.pred = IF ins.sets THEN ie.outcome ELSE s.pred
        /\ t.map = IF ins.op = "setchmap" THEN ie.i ELSE s.map
        /\ t.computed = IF Core!InDecode(ins.op) THEN s.computed ELSE Append(s.computed, <<ie.i, op1, op2>>)
        /\ t.fetched = IF ins.op = "fetch" THEN Append(s.fetched, <<ie.i, op1>>) ELSE s.fetched
        /\ t.sent = Sends(s, ins, ie)
    BY <1>2, <2>2, PerformIs
  <2>4. ie.i = e.i /\ ie.outcome = e.outcome /\ Passing' /\ e.map = s.map
    BY <1>5, <1>9 DEF ie, Loaded
  <2>5. First' = op1 /\ Second' = op2
    <3>1. previousInstExecuted' = previousInstExecuted /\ forwardedResult' = forwardedResult
      OBVIOUS
    <3>2. /\ OperandOK(s, e.src1, s.read, e.op1, e.by1)
          /\ OperandOK(s, e.src2, s.read + ReadFirst(e), e.op2, e.by2)
      BY <1>9 DEF Loaded
    <3>3. \A src \in Regs : src # 0 /\ src # Channel
      BY PipelineAssumption
    <3>4. Resolved(e.by1, e.op1) = op1
      BY <2>1, <3>2, <3>3 DEF OperandOK, Forwards, Core!Value, Resolved
    <3>5. ReadFirst(e) = ReadFirst(ins)
      BY <2>1 DEF ReadFirst
    <3>6. Resolved(e.by2, e.op2) = op2
      BY <2>1, <3>2, <3>3, <3>5 DEF OperandOK, Forwards, Core!Value, Resolved
    <3>. QED BY <1>1, <3>1, <3>4, <3>6 DEF First, Second, Resolved
  <2> HIDE DEF op1, op2
  <2>6. t.sent = (sent' \o InTable') \o ToSend'
    <3>1. \A p : Packet(e, p) = [i |-> ie.i, part |-> p, map |-> s.map]
      BY <2>4 DEF Packet
    <3>2. \A p \in {"address", "data", "result"} : Packet(e, p) \in Packets
      BY <1>1, <1>2 DEF Packet, Packets
    <3>3. ins.op # "rmtexecute"
      BY <2>1 DEF Passed
    <3>4. CASE ins.to = "none"
      <4>1. ToSend' = <<>>
        BY <1>9, <2>1, <3>4 DEF ToSend
      <4>2. t.sent = s.sent
        BY <2>3, <3>4 DEF Sends
      <4>. QED BY <1>3, <1>4, <1>6, <4>1, <4>2
    <3>5. CASE ins.to # "none" /\ ins.op = "store"
      <4> DEFINE a == Packet(e, "address")
                 b == Packet(e, "data")
      <4>1. ToSend' = <<a, b>>
        BY <1>9, <2>1, <3>5 DEF ToSend
      <4>2. t.sent = Append(Append(s.sent, a), b)
        <5>1. ~(ins.to = "none" \/ ins.op = "rmtexecute") /\ ins.op = "store"
          BY <3>3, <3>5
        <5>2. Sends(s, ins, ie) = Append(Append(s.sent, [i |-> ie.i, part |-> "address", map |-> s.map]),
                                         [i |-> ie.i, part |-> "data", map |-> s.map])
          BY <5>1 DEF Sends
        <5>. QED BY <2>3, <3>1, <5>2
      <4>3. a \in Packets /\ b \in Packets
        BY <3>2
      <4> HIDE DEF a, b
      <4>4. \A u \in Seq(Packets) : u \o <<a, b>> = Append(Append(u, a), b)
        BY <4>3
      <4>. QED BY <1>3, <1>4, <1>6, <4>1, <4>2, <4>4
    <3>6. CASE ins.to # "none" /\ ins.op # "store"
      <4> DEFINE a == Packet(e, "result")
      <4>1. ToSend' = <<a>>
        BY <1>9, <2>1, <3>6 DEF ToSend
      <4>2. t.sent = Append(s.sent, a)
        BY <2>3, <3>1, <3>3, <3>6 DEF Sends
      <4>3. a \in Packets
        BY <3>2
      <4> HIDE DEF a
      <4>4. \A u \in Seq(Packets) : u \o <<a>> = Append(u, a)
        BY <4>3
      <4>. QED BY <1>3, <1>4, <1>6, <4>1, <4>2, <4>4
    <3>. QED BY <3>4, <3>5, <3>6
  <2>7. t.regs = IF e.dest # 0 THEN [Written' EXCEPT ![e.dest] = e.i] ELSE Written'
    BY <1>3, <2>1, <2>3, <2>4
  <2>8. t.pred = IF e.sets THEN e.outcome ELSE pred'
    BY <1>3, <2>1, <2>3, <2>4
  <2>9. t.map = (IF e.op = "setchmap" THEN e.i ELSE map') /\ t.fetched = fetched'
    BY <1>3, <2>1, <2>3, <2>4 DEF Passed
  <2>10. t.computed = IF Computes(e) THEN Append(computed', <<e.i, First', Second'>>) ELSE computed'
    BY <1>3, <1>9, <2>1, <2>3, <2>4, <2>5 DEF Computes
  <2>11. /\ t.regs = (IF Passing' /\ x'.dest # 0 THEN [Written' EXCEPT ![x'.dest] = x'.i] ELSE Written')
         /\ t.pred = (IF Passing' /\ x'.sets THEN x'.outcome ELSE pred')
         /\ t.map = (IF Passing' /\ ~x'.remote /\ x'.op = "setchmap" THEN x'.i ELSE map')
         /\ t.computed = (IF Passing' /\ Computes(x') /\ ~continuingStore'
                          THEN Append(computed', <<x'.i, First', Second'>>) ELSE computed')
         /\ t.sent = (sent' \o InTable') \o (IF Passing' THEN ToSend' ELSE <<>>)
         /\ t.fetched = fetched'
    BY <1>9, <2>4, <2>6, <2>7, <2>8, <2>9, <2>10
  <2>. QED BY <2>11 DEF Behind, Computes
<1>10. Behind(t)'
  BY <1>1, <1>7, <1>8, <1>9
<1>11. Executed'
  <2>1. Shaped(x)'
    BY <1>1 DEF Shaped, Own, Whole, Valid, Fields
  <2>2. e.hasResult = (e.remote \/ e.op \in InDecoder)
    BY DEF Final
  <2>3. ~e.remote /\ e.op \in InDecoder => Passing'
    <3>1. SUFFICES ASSUME ~e.remote, e.op \in InDecoder PROVE Core!Passes(e.pred, pred)
      BY <1>5
    <3>2. CASE e.pred = "always"
      BY <3>2 DEF Core!Passes
    <3>3. CASE e.pred # "always"
      <4>1. NeedsPredicate(e)
        BY <3>1, <3>3 DEF NeedsPredicate, IsDecodeStageOperation, Core!InDecode, InDecoder
      <4>. QED BY <1>3, <3>1, <4>1 DEF Loaded
    <3>. QED BY <3>2, <3>3
  <2>. QED BY <1>1, <2>1, <2>2, <2>3 DEF Executed, Final
<1>. QED BY <1>10, <1>11

(* What the lemmas about single steps begin with.                                *)
Given == PInv /\ PInv' /\ program \in Programs /\ Ordinary(program) /\ EInv

(* What the later stages begin with.                                             *)
LEMMA LaterIs ==
    ASSUME Given, NEW s, s = Before
    PROVE  Later(s)
BY DEF Given, Later, EInv, IssuedInOrder

(* A step of the execute or the write stage, or of the send table.               *)
LEMMA LaterStagesKeep ==
    ASSUME Given, WriteResult \/ Execute \/ (ReceiveData /\ phase = "run")
    PROVE  EInv'
<1>1. PICK s : s = Before
  OBVIOUS
<1>2. Later(s)
  BY <1>1, LaterIs
<1>3. LaterKeeps(s)
  BY <1>2, WriteResultInOrder, BlockedInOrder, HasResultInOrder, SquashInOrder, StartMultiplyInOrder, ComputeInOrder,
     SendAddressInOrder, SendPayloadInOrder, ReceiveDataInOrder DEF Execute
<1>4. UNCHANGED <<program, issued, r1, d, dAt, slept, remote, previousMap, taken>>
  BY DEF WriteResult, Execute, ReceiveData, Blocked, HasResult, Squash, StartMultiply, Compute, SendAddress, SendPayload,
         fetching, decoding, inDecode, channel
<1>. QED BY <1>1, <1>3, <1>4, LaterStepKeeps DEF Given

(* The stages take what waits for them.                                          *)
LEMMA EdgeTakes ==
    ASSUME Given, Edge
    PROVE  /\ Written' = Written /\ InTable' = InTable
           /\ r2' # <<>> => r2' = r2
           /\ ExecuteTakes => r2' = <<>>
           /\ wAt' = "idle" => w' = w
           /\ phase = "edge" /\ phase' = "run" /\ slept' = TRUE /\ wAt = "idle"
           /\ UNCHANGED <<regs, pred, map, computed, sent, fetched, data, continuingStore, previousInstExecuted,
                          forwardedResult, program, issued, remote, previousMap, taken, filled>>
           /\ r2' # <<>> => Full
<1>1. /\ phase = "edge" /\ phase' = "run" /\ slept' = TRUE
      /\ IF WriteTakes THEN w' = Head(r2) /\ wAt' = "new" /\ r2' = <<>> ELSE UNCHANGED <<w, wAt, r2>>
      /\ UNCHANGED <<regs, pred, map, computed, sent, fetched, data, continuingStore, previousInstExecuted,
                     forwardedResult, program, issued, remote, previousMap, taken, filled>>
  BY DEF Edge, inDecode, channel
<1>2. wAt = "idle"
  BY <1>1 DEF Given, EInv, InTime
<1>3. Written' = Written
  <2>1. CASE WriteTakes
    <3>1. r2 # <<>> /\ Head(r2) = r2[1]
      BY <2>1 DEF WriteTakes, CanRead, Given, PInv, Sending, Latch
    <3>2. w' = r2[1] /\ wAt' = "new" /\ r2' = <<>>
      BY <1>1, <2>1, <3>1
    <3>. QED BY <1>1, <1>2, <3>1, <3>2 DEF Written, Arriving, Stored
  <2>2. CASE ~WriteTakes
    BY <1>1, <2>2 DEF Written, Arriving, Stored
  <2>. QED BY <2>1, <2>2
<1>4. InTable' = InTable
  BY <1>1 DEF InTable, Packet
<1>5. ExecuteTakes => r2' = <<>>
  BY <1>1 DEF ExecuteTakes, CanWrite
<1>6. r2' # <<>> => Full
  BY <1>1, <1>2 DEF WriteTakes, CanRead
<1>. QED BY <1>1, <1>2, <1>3, <1>4, <1>5, <1>6

(* The execute stage goes on with what it has.                                   *)
LEMMA EdgeWithoutTaking ==
    ASSUME Given, Edge, ~ExecuteTakes, NEW s, s = Before
    PROVE  /\ Behind(s)' /\ ExecuteInOrder' /\ OperandsKept(s) /\ x' = x
           /\ xAt' = IF xAt = "mul" \/ (xAt = "store" /\ xAt' # "store") THEN "new" ELSE xAt
<1>1. x' = x /\ xAt' = (IF xAt = "mul" \/ (xAt = "store" /\ xAt' # "store") THEN "new" ELSE xAt)
  BY DEF Edge
<1>2. Later(s)
  BY LaterIs
<1>3. Active' = Active /\ Passing' = Passing
  BY <1>1, EdgeTakes DEF Active, Passing
<1>4. Behind(s)'
  BY <1>1, <1>2, <1>3, EdgeTakes, BehindKept DEF Later
<1>5. ASSUME Active PROVE Executed'
  <2>1. Executed
    BY <1>2, <1>5 DEF Later, ExecuteInOrder
  <2>2. Shaped(x)'
    BY <1>1, <2>1, EdgeTakes DEF Executed, Shaped, Own, Whole, Valid, Fields
  <2>3. xAt' # "mul"
    BY <1>1
  <2>. QED BY <1>1, <1>3, <2>1, <2>2, <2>3, EdgeTakes DEF Executed
<1>6. ExecuteInOrder'
  BY <1>1, <1>2, <1>3, <1>5, EdgeTakes DEF Later, ExecuteInOrder, Active
<1>7. OperandsKept(s)
  BY <1>1, <1>3, EdgeTakes DEF OperandsKept, Forwards, Resolved
<1>. QED BY <1>1, <1>4, <1>6, <1>7

(* The clock's edge.                                                             *)
LEMMA EdgeInOrder ==
    ASSUME Given, Edge
    PROVE  EInv'
<1> DEFINE s == Before
<1>1. /\ IF ExecuteTakes THEN x' = Head(r1) /\ r1' = <<>> ELSE UNCHANGED <<x, r1>>
      /\ ExecuteTakes => xAt' = "new"
      /\ IF DecodeTakes THEN d' = DecodedInst(Head(r0)) /\ dAt' = "new" /\ r0' = <<>> ELSE UNCHANGED <<d, dAt, r0>>
  BY DEF Edge
<1>2. Later(s)
  BY LaterIs
<1>3. Due' = Due
  BY EdgeTakes DEF Due
<1>4. \A e : Decoded(e)' = Decoded(e) /\ Final(e)' = Final(e)
  BY EdgeTakes DEF Decoded, Final, Shaped, Own, Whole, Valid, Fields
<1>5. ASSUME DecodeTakes
      PROVE  /\ dAt = "idle" /\ r1' = <<>> /\ dAt' = "new"
             /\ Decoded(d)' /\ ~d'.remote /\ ~d'.hasResult
  <2>1. dAt = "idle" /\ r1' = <<>> /\ dAt' = "new" /\ d' = DecodedInst(Head(r0)) /\ r0 # <<>>
    BY <1>1, <1>5 DEF DecodeTakes, CanRead, CanWrite
  <2>2. Head(r0) \in 1..Len(program)
    BY <2>1 DEF Given, PInv, ReadOnce
  <2>3. Decoded(d') /\ ~d'.remote /\ ~d'.hasResult
    BY <2>1, <2>2, DecodedIs DEF Given
  <2>4. Decoded(d)'
    BY <2>3, EdgeTakes DEF Decoded, Shaped, Own, Whole, Valid, Fields
  <2>. QED BY <2>1, <2>3, <2>4
<1>6. dAt \in {"idle", "new"} => remote = Due.remote /\ (remote => previousMap = Due.remoteMap) /\ taken = Due.read
  BY DEF Given, EInv, DecodeInOrder
<1>7. CASE ExecuteTakes
  <2> DEFINE e == r1[1]
  <2>1. /\ r1 # <<>> /\ xAt = "idle" /\ Head(r1) = e
    BY <1>7 DEF ExecuteTakes, CanRead, Given, PInv, Sending, Latch
  <2>2. /\ dAt = "idle" /\ issued # <<>>
        /\ issued[Len(issued)] = [i |-> e.i, outcome |-> e.outcome]
        /\ Decoded(e) /\ Final(e) /\ Loaded(e, s)
    BY <2>1 DEF Given, EInv, IssuedInOrder
  <2>3. PICK t : t = Due
    OBVIOUS
  <2>4. t = Core!Step(s, program[e.i], [i |-> e.i, outcome |-> e.outcome])
    BY <2>1, <2>3, DueIs DEF Given, EInv
  <2>5. x' = e /\ xAt' = "new" /\ r1' = <<>> /\ ~Active /\ ~continuingStore
    BY <1>1, <1>7, <2>1 DEF Active, Given, PInv, Executing
  <2>6. Behind(t)' /\ Executed'
    <3>1. PICK z : z = s
      OBVIOUS
    <3>2. PICK f : f = e
      OBVIOUS
    <3> HIDE DEF s, e
    <3>3. /\ program \in Programs /\ Ordinary(program) /\ z \in Machine /\ Behind(z) /\ ExecuteInOrder
      BY <1>2, <3>1 DEF Later
    <3>4. Decoded(f) /\ Final(f) /\ Loaded(f, z) /\ x' = f
      BY <2>2, <2>5, <3>1, <3>2
    <3>5. t = Core!Step(z, program[f.i], [i |-> f.i, outcome |-> f.outcome])
      BY <2>4, <3>1, <3>2
    <3>6. /\ Written' = Written
          /\ UNCHANGED <<program, pred, map, computed, sent, fetched, data, continuingStore, previousInstExecuted,
                         forwardedResult>>
      BY EdgeTakes
    <3>. QED BY <2>5, <3>3, <3>4, <3>5, <3>6, TakenInOrder
  <2>7. Before' = t /\ Due' = t
    BY <1>3, <2>3, <2>5 DEF Before
  <2>8. IssuedInOrder'
    BY <2>3, <2>5, <2>6, <2>7, EdgeTakes DEF Given, EInv, IssuedInOrder
  <2>9. ExecuteInOrder'
    <3>1. e.dest \in Regs \cup {0} /\ e.sets \in BOOLEAN /\ e.hasResult \in BOOLEAN
      BY <2>2 DEF Decoded, Shaped, Valid
    <3>2. Active'
      BY <2>5 DEF Active
    <3>. QED BY <2>5, <2>6, <3>1, <3>2, <1>7, EdgeTakes DEF Given, EInv, ExecuteInOrder
  <2>10. dAt' \in {"idle", "new"}
    BY <1>1, <1>5, <2>2
  <2>11. DecodeInOrder'
    <3>1. remote \in BOOLEAN /\ previousMap \in Nat
      BY DEF Given, EInv, DecodeInOrder
    <3>2. UNCHANGED <<remote, previousMap, taken>> /\ slept' \in BOOLEAN
      BY EdgeTakes
    <3>3. dAt' = "new" => r1' = <<>> /\ Decoded(d)' /\ ~d'.remote /\ ~d'.hasResult
      BY <1>1, <1>5, <2>2
    <3>. QED BY <1>3, <1>6, <2>2, <2>10, <3>1, <3>2, <3>3, AtRest
  <2>12. InTime'
    BY <2>10, EdgeTakes DEF InTime
  <2>. QED BY <2>8, <2>9, <2>11, <2>12 DEF EInv
<1>8. CASE ~ExecuteTakes
  <2>0. PICK z : z = s
    OBVIOUS
  <2>1. /\ Behind(z)' /\ ExecuteInOrder' /\ OperandsKept(z) /\ x' = x /\ r1' = r1
        /\ xAt' = IF xAt = "mul" \/ (xAt = "store" /\ xAt' # "store") THEN "new" ELSE xAt
    BY <1>1, <1>8, <2>0, EdgeWithoutTaking
  <2>2. Before' = z
    BY <1>3, <2>0, <2>1, EdgeTakes DEF Before, Due
  <2>3. InTime'
    <3>1. CASE DecodeTakes
      BY <1>5, <3>1, EdgeTakes DEF InTime
    <3>2. CASE ~DecodeTakes
      <4>1. d' = d /\ dAt' = dAt
        BY <1>1, <3>2
      <4>2. /\ dAt \in {"forward", "reread"} => xAt # "wait" /\ ~Full
            /\ xAt # "new" /\ xAt \in {"idle", "new", "wait", "mul", "store"}
            /\ xAt = "store" => x.op = "store"
        BY EdgeTakes DEF Given, EInv, InTime, PInv, Executing
      <4>3. xAt = "mul" => x.busy
        BY DEF Given, EInv, ExecuteInOrder, Executed, Active
      <4>4. dAt = "forward" => xAt' # "mul" /\ (xAt' \in {"new", "wait"} => MulStarted')
        BY <2>1, <4>2, <4>3 DEF MulStarted
      <4>5. dAt = "reread" => xAt = "idle" /\ r2' = <<>>
        BY <4>1, <4>2, EdgeTakes DEF Given, EInv, InTime, Resolves
      <4>6. Resolves => Resolves'
        BY <2>1 DEF Resolves, MulStarted
      <4>. QED BY <2>1, <4>1, <4>4, <4>5, <4>6, EdgeTakes DEF Given, EInv, InTime
    <3>. QED BY <3>1, <3>2
  <2>4. ASSUME r1 # <<>>
        PROVE  /\ dAt' = "idle" /\ issued # <<>>
               /\ issued[Len(issued)] = [i |-> r1[1].i, outcome |-> r1[1].outcome]
               /\ Decoded(r1[1]) /\ Final(r1[1]) /\ Loaded(r1[1], z)'
    <3>1. Loaded(r1[1], z)
      BY <2>0, <2>4 DEF Given, EInv, IssuedInOrder
    <3>2. PICK f : f = r1[1]
      OBVIOUS
    <3>3. Loaded(f, z)'
      BY <2>1, <3>1, <3>2, LoadedKept
    <3>4. r1'[1] = f
      BY <2>1, <3>2
    <3>5. Loaded(r1[1], z)'
      BY <3>3, <3>4 DEF Loaded, OperandOK, NeedsPredicate
    <3>6. ~DecodeTakes
      BY <1>5, <2>1, <2>4
    <3>. QED BY <1>1, <2>4, <3>5, <3>6 DEF Given, EInv, IssuedInOrder
  <2>5. IssuedInOrder'
    BY <1>3, <1>4, <2>1, <2>2, <2>0, <2>4, EdgeTakes DEF Given, EInv, IssuedInOrder
  <2>6. DecodeInOrder'
    <3>1. CASE DecodeTakes
      <4>1. remote \in BOOLEAN /\ previousMap \in Nat
        BY DEF Given, EInv, DecodeInOrder
      <4>2. UNCHANGED <<remote, previousMap, taken>> /\ slept' \in BOOLEAN
        BY EdgeTakes
      <4>. QED BY <1>3, <1>5, <1>6, <3>1, <4>1, <4>2, AtRest
    <3>2. CASE ~DecodeTakes
      <4>1. d' = d /\ dAt' = dAt
        BY <1>1, <3>2
      <4>2. dAt \notin {"idle", "new"} => Deciding(d)'
        BY <1>3, <4>1, EdgeTakes DEF Given, EInv, DecodeInOrder, Deciding, NeedsPredicate
      <4>4. Decoded(d) => Decoded(d)'
        BY <4>1, EdgeTakes DEF Decoded, Shaped, Own, Whole, Valid, Fields
      <4>3. dAt \in {"credits", "space", "next"} => Final(d)' /\ Loaded(d, Due)'
        <5>1. SUFFICES ASSUME dAt \in {"credits", "space", "next"} PROVE Final(d)' /\ Loaded(d, Due)'
          OBVIOUS
        <5>2. Due = z /\ Final(d) /\ Loaded(d, z)
          BY <2>0, <5>1 DEF Given, EInv, DecodeInOrder, Before
        <5>3. PICK f : f = d
          OBVIOUS
        <5>4. Loaded(f, z)'
          BY <2>1, <5>2, <5>3, LoadedKept
        <5>5. Due' = z /\ d' = f
          BY <1>3, <4>1, <5>2, <5>3
        <5>6. Loaded(d, Due)'
          BY <5>4, <5>5 DEF Loaded, OperandOK, Forwards
        <5>. QED BY <1>4, <4>1, <5>2, <5>6
      <4>5. UNCHANGED <<remote, previousMap, taken>> /\ slept' \in BOOLEAN
        BY EdgeTakes
      <4>6. DecodeInOrder
        BY DEF Given, EInv
      <4>7. dAt = "fetch" => d.by1 \/ d'.op1 = Core!Value(Due', d'.src1, Due'.read)
        BY <1>3, <4>1, <4>6 DEF DecodeInOrder
      <4>. QED BY <1>3, <2>1, <4>1, <4>2, <4>3, <4>4, <4>5, <4>6, <4>7 DEF DecodeInOrder
    <3>. QED BY <3>1, <3>2
  <2>. QED BY <2>1, <2>3, <2>5, <2>6 DEF EInv
<1>. QED BY <1>7, <1>8

(* When all has settled the clock goes on, if a fetch that waits for a result has *)
(* its time.                                                                      *)
LEMMA TickInOrder ==
    ASSUME Given, Tick, NotHeldUp
    PROVE  EInv'
<1>1. UNCHANGED same
  BY DEF Tick, same, fetching, decoding, executing, writing, table, channel, inDecode
<1>2. wAt = "idle" /\ xAt # "new" /\ (dAt \notin {"forward", "reread"} \/ (~Full /\ xAt # "wait"))
  BY DEF Tick, Settled, DecodeSettled, NotHeldUp
<1>3. InTime'
  BY <1>1, <1>2 DEF Given, EInv, InTime, Resolves, MulStarted, Full, same, Tick, table
<1>. QED BY <1>1, <1>3, AroundKeeps DEF Given

(* What comes from the send table and from around the core.                      *)
LEMMA SurroundingsInOrder ==
    ASSUME Given,
           (SendTableRuns /\ (ReceiveRequest \/ UpdateReady)) \/ Environment \/ Nxipk \/ UNCHANGED vars
    PROVE  EInv'
<1>1. UNCHANGED same
  BY DEF SendTableRuns, ReceiveRequest, UpdateReady, Environment, Supply, FetchTaken, NetworkTakes, DataArrives,
         CreditArrives, Nxipk, same, vars, fetching, decoding, executing, writing, table, channel, inDecode
<1>2. phase' = phase /\ (filled' = filled \/ phase = "run")
  BY DEF SendTableRuns, ReceiveRequest, UpdateReady, Environment, Supply, FetchTaken, NetworkTakes, DataArrives,
         CreditArrives, Nxipk, Settled, vars, bounds, table
<1>3. InTime'
  BY <1>1, <1>2 DEF Given, EInv, InTime, Resolves, MulStarted, Full, same
<1>. QED BY <1>1, <1>3, AroundKeeps DEF Given

(* The instruction in the decode stage.                                          *)
LEMMA AtHand ==
    ASSUME Given, dAt # "idle"
    PROVE  /\ Decoded(d) /\ Shaped(d) /\ d.i \in 1..Len(program) /\ d.i \in Nat /\ program[d.i] \in Instructions
           /\ ~d.persistent /\ ~d.looping /\ r1 = <<>> /\ Before = Due /\ Due \in Machine /\ dAt # "again"
           /\ d.outcome \in BOOLEAN /\ d.remote \in BOOLEAN /\ remote \in BOOLEAN /\ previousMap \in Nat
           /\ d.src1 \in Regs \cup {0, Channel} \/ d.remote
           /\ d.src2 \in Regs \cup {0, Channel} \/ d.remote
           /\ dAt \notin {"credits", "space", "next"} => ~d.remote
           /\ ~d.remote => Own(d)
<1>1. Decoded(d) /\ r1 = <<>> /\ dAt # "again" /\ remote \in BOOLEAN /\ previousMap \in Nat
  BY DEF Given, EInv, DecodeInOrder
<1>2. d.persistent = program[d.i].persistent /\ d.persistent \in BOOLEAN /\ (d.looping => d.persistent)
  BY DEF Given, PInv, Decoding
<1>3. Shaped(d) /\ d.i \in 1..Len(program) /\ d.outcome \in BOOLEAN /\ d.remote \in BOOLEAN /\ (~d.remote => Own(d))
  BY <1>1 DEF Decoded, Shaped, Valid
<1>4. /\ program[d.i] \in Instructions /\ d.i \in Nat /\ ~program[d.i].persistent
      /\ program[d.i].src1 \in Regs \cup {0, Channel} /\ program[d.i].src2 \in Regs \cup {0, Channel}
  BY <1>3, ProgramIs DEF Given
<1>5. Before = Due /\ Due \in Machine
  BY <1>1 DEF Before, Given, EInv, IssuedInOrder
<1>6. dAt \notin {"credits", "space", "next"} => ~d.remote
  BY DEF Given, EInv, DecodeInOrder, Deciding
<1>. QED BY <1>1, <1>2, <1>3, <1>4, <1>5, <1>6 DEF Own

(* What the program says of it.                                                  *)
LEMMA HandRules ==
    ASSUME Given, dAt # "idle", ~d.remote
    PROVE  /\ d.sets => d.op \in {"alu", "mul"} \/ (d.op = "tstchi" /\ d.to = "none")
           /\ d.op = "store" => d.to = "memory"
           /\ d.op \in {"setchmap", "fetch", "woche", "ibjmp"} => d.to = "none"
           /\ d.op \in {"store", "setchmap", "fetch", "woche", "ibjmp", "rmtexecute"} => d.dest = 0
           /\ d.op \in {"woche", "ibjmp", "rmtexecute"} => d.src1 # Channel /\ d.src2 # Channel
           /\ d.op \in Passed \cup {"fetch", "woche", "ibjmp", "rmtexecute"}
<1>1. Own(d) /\ d.i \in 1..Len(program) /\ program \in Programs /\ Ordinary(program)
  BY AtHand DEF Given
<1>2. program[d.i].op \in Passed \cup {"fetch", "woche", "ibjmp", "rmtexecute"}
  BY AtHand DEF Instructions, Passed
<1>3. /\ program[d.i].sets =>
             program[d.i].op \in {"alu", "mul"} \/ (program[d.i].op = "tstchi" /\ program[d.i].to = "none")
      /\ program[d.i].op = "store" => program[d.i].to = "memory"
      /\ program[d.i].op \in {"setchmap", "fetch", "woche", "ibjmp"} => program[d.i].to = "none"
      /\ program[d.i].op \in {"store", "setchmap", "fetch", "woche", "ibjmp", "rmtexecute"} => program[d.i].dest = 0
      /\ program[d.i].op \in {"woche", "ibjmp", "rmtexecute"} =>
             program[d.i].src1 # Channel /\ program[d.i].src2 # Channel
  BY <1>1, ProgramIs
<1>. QED BY <1>1, <1>2, <1>3 DEF Own

(* When the execute stage has done what it can for now, the channel map and,     *)
(* unless it is to be set, the predicate are what they will be.                  *)
LEMMA DueSettled ==
    ASSUME Given, r1 = <<>>, xAt # "new"
    PROVE  /\ Due.map = map
           /\ ~x.sets \/ x.hasResult => Due.pred = pred
<1>1. Behind(Due) /\ ExecuteInOrder
  BY DEF Given, EInv, IssuedInOrder, Before
<1>2. CASE ~Passing
  BY <1>1, <1>2 DEF Behind
<1>3. CASE Passing
  <2>1. /\ Executed /\ Shaped(x) /\ x.i \in 1..Len(program) /\ x.remote \in BOOLEAN
        /\ x.remote => ~x.sets
        /\ ~x.remote => Own(x)
    BY <1>1, <1>3 DEF Passing, ExecuteInOrder, Executed, Shaped
  <2>2. \/ xAt = "wait" /\ x.to # "none"
        \/ xAt = "mul" /\ ~x.remote /\ x.op = "mul" /\ ~x.hasResult
        \/ xAt = "store" /\ ~x.remote /\ x.op = "store"
    <3>1. xAt \in {"wait", "mul", "store"}
      BY <1>3 DEF Passing, Active, Given, PInv, Executing
    <3>2. xAt = "wait" => x.to # "none"
      BY <1>1 DEF ExecuteInOrder
    <3>3. xAt = "store" => ~x.remote /\ x.op = "store"
      BY <2>1 DEF Executed, Given, PInv, Executing
    <3>4. xAt = "mul" => ~x.remote /\ x.op = "mul" /\ ~continuingStore
      BY <2>1 DEF Executed, Given, PInv, Executing
    <3>5. xAt = "mul" => ~x.hasResult
      BY <2>1, <3>4 DEF Executed, InDecoder
    <3>. QED BY <3>1, <3>2, <3>3, <3>4, <3>5
  <2>3. ~x.remote => /\ x.op = "setchmap" => x.to = "none"
                     /\ x.op = "store" => ~x.sets
                     /\ x.sets /\ x.op \in InDecoder => x.to = "none"
    <3>1. program \in Programs /\ Ordinary(program)
      BY DEF Given
    <3>2. /\ program[x.i].sets =>
                 program[x.i].op \in {"alu", "mul"} \/ (program[x.i].op = "tstchi" /\ program[x.i].to = "none")
          /\ program[x.i].op = "setchmap" => program[x.i].to = "none"
      BY <2>1, <3>1, ProgramIs
    <3>. QED BY <2>1, <3>2 DEF Own, InDecoder
  <2>4. ~(~x.remote /\ x.op = "setchmap")
    BY <2>2, <2>3
  <2>5. x.hasResult => ~x.sets
    <3>1. x.hasResult => x.remote \/ x.op \in InDecoder \/ x.op = "store"
      BY <2>1 DEF Executed, Given, PInv, Executing
    <3>. QED BY <2>1, <2>2, <2>3, <3>1 DEF InDecoder
  <2>. QED BY <1>1, <1>3, <2>4, <2>5 DEF Behind
<1>. QED BY <1>2, <1>3

(* A register is read before the execute stage is done with it only if its       *)
(* result will be forwarded.                                                     *)
LEMMA ReadRegIs ==
    ASSUME Given, r1 = <<>>, xAt # "new", wAt # "new", NEW reg \in Regs \cup {0, Channel}, NEW read
    PROVE  OperandOK(Due, reg, read, ReadReg(reg, read), NeedsForwarding(reg))
<1>1. Behind(Due) /\ ExecuteInOrder /\ wAt = "idle" /\ Due \in Machine
  BY DEF Given, EInv, IssuedInOrder, Before, PInv, Writing
<1>2. reg \in Regs => reg # 0 /\ reg # Channel
  BY PipelineAssumption
<1>3. CASE reg \notin Regs
  <2>1. ~NeedsForwarding(reg)
    BY <1>3 DEF NeedsForwarding, IsChannelEnd
  <2>2. Channel # 0
    BY PipelineAssumption
  <2>3. CASE reg = 0
    <3>1. ReadReg(reg, read) = 0
      BY <2>2, <2>3 DEF ReadReg, IsChannelEnd
    <3>2. Core!Value(Due, reg, read) = 0
      BY <2>2, <2>3 DEF Core!Value
    <3>. QED BY <2>1, <3>1, <3>2 DEF OperandOK
  <2>4. CASE reg = Channel
    <3>1. reg # w.dest
      BY <1>1, <2>2, <2>4, PipelineAssumption DEF ExecuteInOrder
    <3>2. ReadReg(reg, read) = FirstDatum + read
      BY <2>2, <2>4, <3>1 DEF ReadReg, IsChannelEnd
    <3>3. Core!Value(Due, reg, read) = FirstDatum + read
      BY <2>2, <2>4 DEF Core!Value
    <3>. QED BY <2>1, <3>2, <3>3 DEF OperandOK
  <2>. QED BY <1>3, <2>3, <2>4
<1>4. CASE reg \in Regs
  <2>1. ReadReg(reg, read) = regs[reg] /\ Core!Value(Due, reg, read) = Due.regs[reg]
    BY <1>1, <1>2, <1>4 DEF ReadReg, IsChannelEnd, ExecuteInOrder, Core!Value
  <2>2. Arriving = regs /\ Written \in [Regs -> Nat]
    BY <1>1, WrittenIs DEF Arriving, Given
  <2>3. CASE reg # x.dest
    <3>1. ~NeedsForwarding(reg)
      BY <2>3 DEF NeedsForwarding
    <3>2. Written[reg] = regs[reg]
      BY <1>1, <1>2, <1>4, <2>2, <2>3 DEF Written, Stored, ExecuteInOrder
    <3>3. Due.regs[reg] = Written[reg]
      BY <1>1, <1>4, <2>2, <2>3 DEF Behind
    <3>. QED BY <2>1, <3>1, <3>2, <3>3 DEF OperandOK
  <2>4. CASE reg = x.dest
    <3>1. NeedsForwarding(reg)
      BY <1>2, <1>4, <2>4 DEF NeedsForwarding, IsChannelEnd
    <3>2. CASE Active
      <4>1. r2 = <<>>
        <5>1. xAt \in {"wait", "mul"} => r2 = <<>>
          BY DEF Given, PInv, Executing
        <5>2. xAt \in {"wait", "mul", "store"}
          BY <3>2 DEF Active, Given, PInv, Executing
        <5>3. xAt # "store"
          <6>1. SUFFICES ASSUME xAt = "store" PROVE FALSE
            OBVIOUS
          <6>2. x.op = "store" /\ ~x.remote /\ Own(x) /\ x.i \in 1..Len(program)
            BY <1>1, <3>2, <6>1 DEF Given, PInv, Executing, ExecuteInOrder, Executed, Shaped
          <6>3. x.dest = 0
            BY <6>2, ProgramIs DEF Given, Own
          <6>. QED BY <1>2, <1>4, <2>4, <6>3
        <5>. QED BY <5>1, <5>2, <5>3
      <4>2. ~Passing => regs[reg] = Due.regs[reg]
        BY <1>1, <2>2, <4>1 DEF Behind, Written
      <4>. QED BY <1>4, <2>1, <2>4, <3>1, <3>2, <4>2 DEF OperandOK, Forwards
    <3>3. CASE ~Active
      <4>1. previousInstExecuted /\ Written[reg] = forwardedResult
        BY <1>1, <1>2, <1>4, <2>4, <3>3 DEF ExecuteInOrder, Active
      <4>2. Due.regs[reg] = Written[reg]
        BY <1>1, <3>3 DEF Behind, Passing
      <4>. QED BY <1>4, <3>1, <3>3, <4>1, <4>2 DEF OperandOK, Forwards, Resolved
    <3>. QED BY <3>2, <3>3
  <2>. QED BY <2>3, <2>4
<1>. QED BY <1>3, <1>4

-----------------------------------------------------------------------------
(* What the invariant reads of the execute and the write stage and the send table. *)
laterSame == <<program, x, xAt, continuingStore, forwardedResult, previousInstExecuted, r2, w, wAt, regs, pred, map,
               data, computed, sent>>

(* The decode stage leaves the later stages alone.                               *)
LEMMA LaterLeftAlone ==
    ASSUME ExecuteInOrder, UNCHANGED laterSame
    PROVE  /\ ExecuteInOrder'
           /\ \A s, t : /\ Behind(s)
                        /\ t.regs = s.regs /\ t.pred = s.pred /\ t.map = s.map /\ t.computed = s.computed
                        /\ t.sent = s.sent /\ t.fetched = fetched'
                        => Behind(t)'
<1>1. UNCHANGED <<program, x, xAt, continuingStore, forwardedResult, previousInstExecuted, r2, w, wAt, regs, pred, map,
               data, computed, sent>>
  BY DEF laterSame
<1>2. Arriving' = Arriving /\ Written' = Written /\ InTable' = InTable /\ Active' = Active /\ Passing' = Passing
      /\ First' = First /\ Second' = Second /\ Computes(x)' = Computes(x) /\ ToSend' = ToSend
  BY <1>1 DEF Arriving, Written, InTable, Stored, Packet, Active, Passing, First, Second, Resolved, Computes, ToSend
<1>3. Executed' = Executed
  BY <1>1, <1>2 DEF Executed, Shaped, Own, Whole, Valid, Fields
<1>4. ExecuteInOrder'
  BY <1>1, <1>2, <1>3 DEF ExecuteInOrder
<1>5. ASSUME NEW s, NEW t, Behind(s), t.regs = s.regs, t.pred = s.pred, t.map = s.map, t.computed = s.computed,
             t.sent = s.sent, t.fetched = fetched'
      PROVE  Behind(t)'
  BY <1>1, <1>2, <1>5 DEF Behind
<1>. QED BY <1>4, <1>5

(* The decode stage goes on with its instruction, or leaves it.                  *)
LEMMA StaysKeeps ==
    ASSUME Given, dAt # "idle", UNCHANGED laterSame, UNCHANGED <<fetched, issued, r1>>,
           DecodeInOrder', InTime'
    PROVE  EInv'
<1>1. program' = program /\ Due' = Due /\ r1 = <<>> /\ Before' = Due /\ Before = Due
  BY AtHand DEF laterSame, Due, Before
<1>2. PICK s : s = Due
  OBVIOUS
<1>3. Behind(s) /\ ExecuteInOrder /\ s.fetched = fetched
  BY <1>1, <1>2 DEF Given, EInv, IssuedInOrder, Behind
<1>4. Behind(s)' /\ ExecuteInOrder'
  BY <1>3, LaterLeftAlone
<1>5. IssuedInOrder'
  BY <1>1, <1>2, <1>4 DEF Given, EInv, IssuedInOrder
<1>. QED BY <1>4, <1>5 DEF EInv

(* What is issued is what the core in order does next.                           *)
LEMMA IssueIs ==
    ASSUME Given, dAt # "idle", program' = program, NEW e, Issue(e), e.i = d.i, ~e.persistent, e.outcome \in BOOLEAN
    PROVE  LET ie == [i |-> d.i, outcome |-> e.outcome]
           IN  /\ issued' = Append(issued, ie) /\ ie \in Issues /\ issued \in Seq(Issues)
               /\ issued' \in Seq(Issues) /\ (\A k \in 1..Len(issued') : issued'[k].i \in 1..Len(program))
               /\ issued' # <<>> /\ issued'[Len(issued')] = ie
               /\ SubSeq(issued', 1, Len(issued') - 1) = issued
               /\ Due' = Core!Step(Due, program[d.i], ie) /\ Due' \in Machine
               /\ d' = e /\ dAt' = "idle" /\ slept' = FALSE
<1> DEFINE ie == [i |-> d.i, outcome |-> e.outcome]
<1>1. issued' = Append(issued, ie) /\ d' = e /\ dAt' = "idle" /\ slept' = FALSE
  BY DEF Issue, GoTo
<1>2. ie \in Issues /\ issued \in Seq(Issues) /\ ie.i \in 1..Len(program)
      /\ \A k \in 1..Len(issued) : issued[k].i \in 1..Len(program)
  BY AtHand DEF Issues, Given, EInv, IssuedInOrder
<1>3. ie.i = d.i
  OBVIOUS
<1> HIDE DEF ie
<1>4. \A s \in Seq(Issues) : \A a \in Issues :
         /\ Append(s, a) \in Seq(Issues) /\ Append(s, a) # <<>> /\ Append(s, a)[Len(Append(s, a))] = a
         /\ SubSeq(Append(s, a), 1, Len(Append(s, a)) - 1) = s
  OBVIOUS
<1>5. \A k \in 1..Len(issued') : issued'[k].i \in 1..Len(program)
  <2>1. SUFFICES ASSUME NEW k \in 1..Len(issued') PROVE issued'[k].i \in 1..Len(program)
    OBVIOUS
  <2>2. (k \in 1..Len(issued) /\ issued'[k] = issued[k]) \/ issued'[k] = ie
    BY <1>1, <1>2
  <2>. QED BY <1>2, <2>2
<1>6. Due' = Core!Step(Due, program[d.i], ie)
  BY <1>1, <1>2, <1>3, EffectsOfOneMore DEF Due
<1>7. Due' \in Machine
  BY <1>2, <1>6, AtHand, StepIs
<1>. QED BY <1>1, <1>2, <1>4, <1>5, <1>6, <1>7 DEF ie

(* An instruction ends in the decode stage.                                      *)
LEMMA EndsInOrder ==
    ASSUME Given, dAt # "idle", phase' # "edge", UNCHANGED laterSame, r1' = r1,
           NEW e, Issue(e), e.i = d.i, ~e.persistent, e.outcome \in BOOLEAN,
           NEW t, t = Core!Step(Due, program[d.i], [i |-> d.i, outcome |-> e.outcome]),
           t.regs = Due.regs, t.pred = Due.pred, t.map = Due.map, t.computed = Due.computed, t.sent = Due.sent,
           t.fetched = fetched', remote' = t.remote, remote' \in BOOLEAN,
           remote' => previousMap' = t.remoteMap, previousMap' \in Nat, taken' = t.read
    PROVE  EInv'
<1>1. program' = program
  BY DEF laterSame
<1>2. /\ issued' \in Seq(Issues) /\ (\A k \in 1..Len(issued') : issued'[k].i \in 1..Len(program))
      /\ Due' = t /\ t \in Machine /\ dAt' = "idle" /\ slept' = FALSE
  BY <1>1, IssueIs
<1>3. r1 = <<>> /\ Before = Due /\ Before' = t
  BY <1>2, AtHand DEF Before
<1>4. PICK s : s = Due
  OBVIOUS
<1>5. Behind(s) /\ ExecuteInOrder
  BY <1>3, <1>4 DEF Given, EInv, IssuedInOrder
<1>6. /\ t.regs = s.regs /\ t.pred = s.pred /\ t.map = s.map /\ t.computed = s.computed /\ t.sent = s.sent
  BY <1>4
<1>7. Behind(t)' /\ ExecuteInOrder'
  BY <1>5, <1>6, LaterLeftAlone
<1>8. IssuedInOrder'
  BY <1>1, <1>2, <1>3, <1>7 DEF IssuedInOrder
<1>9. DecodeInOrder'
  BY <1>2, AtRest
<1>10. InTime'
  BY <1>2 DEF InTime
<1>. QED BY <1>7, <1>8, <1>9, <1>10 DEF EInv

(* The later stages have done what they can when the decode stage goes on.       *)
LEMMA DecodesIs ==
    ASSUME Given, NEW at, Decodes(at), at # "idle"
    PROVE  /\ dAt = at /\ dAt # "idle" /\ phase = "run" /\ wAt = "idle" /\ wAt # "new" /\ xAt # "new"
           /\ xAt \in {"idle", "wait", "mul", "store"}
BY DEF Decodes, Given, PInv, Writing, Executing

(* Where the decode stage is before the operands have been read.                 *)
Early == {"pred", "src1", "forward", "src2", "op", "woche"}

(* The decode stage goes on with its instruction as it is.                       *)
LEMMA MovesOn ==
    ASSUME Given, NEW to, GoTo(to), d' = d, UNCHANGED laterSame, phase' # "edge",
           UNCHANGED <<fetched, issued, r1, remote, previousMap, taken>>,
           \/ dAt \in Early /\ to \in Early
           \/ dAt = "fetch" /\ to = "reread"
           \/ dAt \in {"credits", "space"} /\ to \in {"space", "next"},
           dAt = "pred" /\ to # "pred" /\ NeedsPredicate(d) => Core!Passes(d.pred, Due.pred),
           to = "woche" => d.op = "woche",
           to = "reread" => d.src1 \in Regs /\ Resolves,
           to \in {"src2", "op"} /\ d.op = "fetch" /\ d.src1 \in Regs /\ d.src1 = x.dest => Resolves
    PROVE  EInv'
<1>1. /\ dAt \notin {"idle", "new"} /\ dAt' = to /\ slept' = FALSE /\ program' = program /\ Due' = Due
      /\ to \notin {"idle", "new", "again", "fetch", "credits"}
  BY DEF GoTo, laterSame, Due, Early
<1>2. DecodeInOrder /\ InTime /\ Deciding(d) /\ r1 = <<>> /\ Decoded(d) /\ d.remote \in BOOLEAN
  BY <1>1, AtHand DEF Given, EInv, DecodeInOrder
<1>3. Deciding(d)'
  <2>1. dAt \in Early => ~d.remote
    BY <1>2, AtHand, <1>1 DEF Early
  <2>2. dAt \in Operands <=> to \in Operands
    BY DEF Early, Operands
  <2>3. taken = Due.read + (IF dAt \in Operands /\ ~d.remote THEN ReadBy(d) ELSE 0)
    BY <1>2 DEF Deciding
  <2>4. d.remote => to \in {"credits", "space", "next"}
    BY <1>2, <2>1 DEF Deciding, Early
  <2>5. taken = Due.read + (IF to \in Operands /\ ~d.remote THEN ReadBy(d) ELSE 0)
    BY <2>2, <2>3
  <2>6. ~d.remote /\ to # "pred" /\ NeedsPredicate(d) => Core!Passes(d.pred, Due.pred)
    BY <1>2 DEF Deciding
  <2>7. NeedsPredicate(d)' = NeedsPredicate(d)
    BY DEF NeedsPredicate
  <2>. QED BY <1>1, <1>2, <2>4, <2>5, <2>6, <2>7 DEF Deciding
<1>4. to \in {"space", "next"} => Final(d)' /\ Loaded(d, Due)'
  <2>1. SUFFICES ASSUME to \in {"space", "next"} PROVE Final(d)' /\ Loaded(d, Due)'
    OBVIOUS
  <2>2. Final(d) /\ Loaded(d, Due)
    BY <1>2, <2>1 DEF DecodeInOrder, Early
  <2>3. PICK f, s : f = d /\ s = Due
    OBVIOUS
  <2>4. Active' = Active /\ Passing' = Passing /\ x' = x /\ previousInstExecuted' = previousInstExecuted
        /\ forwardedResult' = forwardedResult
    BY DEF laterSame, Active, Passing
  <2>5. Loaded(f, s)'
    BY <2>2, <2>3, <2>4 DEF Loaded, OperandOK, Forwards, Resolved
  <2>. QED BY <1>1, <2>2, <2>3, <2>5 DEF Final, Loaded, OperandOK, Forwards
<1>5. Decoded(d)'
  BY <1>1, <1>2 DEF Decoded, Shaped, Own, Whole, Valid, Fields
<1>6. to \in {"pred", "src1", "forward", "src2", "op", "woche"} => ~d.hasResult
  BY <1>2 DEF DecodeInOrder, Early
<1>7. DecodeInOrder'
  <2>1. to = "reread" => d.op = "fetch"
    BY <1>2 DEF DecodeInOrder, Early
  <2>2. slept' \in BOOLEAN /\ remote' \in BOOLEAN /\ previousMap' \in Nat
    BY <1>1, <1>2 DEF DecodeInOrder
  <2>. QED BY <1>1, <1>2, <1>3, <1>4, <1>5, <1>6, <2>1, <2>2 DEF DecodeInOrder
<1>8. InTime'
  <2>1. Resolves' = Resolves
    BY DEF laterSame, Resolves, MulStarted
  <2>. QED BY <1>1, <2>1 DEF InTime, laterSame
<1>. QED BY <1>1, <1>7, <1>8, StaysKeeps

(* An operand that is not forwarded, is not what the execute stage works on.     *)
LEMMA NotForwarded ==
    ASSUME NEW reg \in Regs, ~NeedsForwarding(reg)
    PROVE  reg # x.dest
BY PipelineAssumption DEF NeedsForwarding, IsChannelEnd

(* A store has no result.                                                        *)
LEMMA StoreHasNoResult ==
    ASSUME Given, xAt = "store"
    PROVE  x.dest = 0
<1>1. Executed /\ Shaped(x)
  BY DEF Given, EInv, ExecuteInOrder, Executed, Active
<1>2. x.op = "store" /\ ~x.remote /\ Own(x) /\ x.i \in 1..Len(program)
  BY <1>1 DEF Given, PInv, Executing, Executed, Shaped
<1>. QED BY <1>2, ProgramIs DEF Given, Own

(* An instruction that does not pass does nothing.                               *)
LEMMA NotPassing ==
    ASSUME Given, dAt \notin {"idle", "new"}, ~d.remote, ~Core!Passes(d.pred, Due.pred),
           NEW e, e.i = d.i, e.outcome \in BOOLEAN
    PROVE  Core!Step(Due, program[d.i], [i |-> d.i, outcome |-> e.outcome]) = Due
<1>1. Deciding(d) /\ Own(d) /\ program[d.i] \in Instructions /\ d.i \in Nat /\ Due \in Machine
  BY AtHand DEF Given, EInv, DecodeInOrder
<1>2. ~Due.remote /\ program[d.i].pred = d.pred
  BY <1>1 DEF Deciding, Own
<1>. QED BY <1>2 DEF Core!Step

(* Before it reads its operands an instruction has changed nothing.              *)
LEMMA EarlyIs ==
    ASSUME Given, dAt \in Early
    PROVE  /\ remote = Due.remote /\ ~remote /\ remote \in BOOLEAN /\ previousMap \in Nat /\ taken = Due.read
           /\ Due.fetched = fetched /\ ~d.hasResult /\ d.map = Due.map
           /\ dAt # "pred" /\ NeedsPredicate(d) => Core!Passes(d.pred, Due.pred)
<1>1. dAt \notin {"idle", "new"} /\ dAt \notin Operands
  BY DEF Early, Operands
<1>2. d.remote = FALSE /\ Due \in Machine /\ Before = Due
  BY <1>1, AtHand DEF Operands
<1>3. Deciding(d) /\ Behind(Due) /\ remote \in BOOLEAN /\ previousMap \in Nat /\ ~d.hasResult
  BY <1>1, <1>2 DEF Given, EInv, DecodeInOrder, IssuedInOrder, Early
<1>4. taken = Due.read
  BY <1>1, <1>2, <1>3 DEF Deciding, Machine
<1>5. remote = FALSE
  BY <1>2, <1>3 DEF Deciding
<1>6. Due.remote = FALSE /\ Due.fetched = fetched
  BY <1>2, <1>3 DEF Deciding, Behind
<1>. QED BY <1>2, <1>3, <1>4, <1>5, <1>6 DEF Deciding

(* readPredReg(): the predicate is what it will be.                              *)
LEMMA PredicateInOrder ==
    ASSUME Given, Predicate
    PROVE  EInv'
<1>1. dAt = "pred" /\ phase = "run" /\ xAt # "new"
  BY DecodesIs DEF Predicate
<1>2. /\ phase' # "edge" /\ UNCHANGED laterSame /\ UNCHANGED <<fetched, r1, remote, previousMap, taken>>
  BY <1>1 DEF Predicate, rest, laterSame, fetching, executing, writing, channel, table, bounds
<1>3. r1 = <<>> /\ ~d.remote /\ ~d.persistent /\ d.outcome \in BOOLEAN /\ Due \in Machine
  BY <1>1, AtHand
<1>4. CASE ~x.hasResult
  <2>1. GoTo("pred") /\ UNCHANGED <<d, issued>>
    BY <1>4 DEF Predicate
  <2>. QED BY <1>1, <1>2, <2>1, MovesOn DEF Early
<1>5. CASE x.hasResult
  <2>1. Due.pred = pred
    BY <1>1, <1>3, <1>5, DueSettled
  <2>2. CASE Core!Passes(d.pred, pred)
    <3>1. GoTo("src1") /\ UNCHANGED <<d, issued>>
      BY <1>5, <2>2 DEF Predicate
    <3>. QED BY <1>1, <1>2, <2>1, <2>2, <3>1, MovesOn DEF Early
  <2>3. CASE ~Core!Passes(d.pred, pred)
    <3>1. Issue(d)
      BY <1>5, <2>3 DEF Predicate
    <3>2. Due = Core!Step(Due, program[d.i], [i |-> d.i, outcome |-> d.outcome])
      BY <1>1, <1>3, <2>1, <2>3, NotPassing
    <3>3. /\ remote' = Due.remote /\ remote' \in BOOLEAN /\ ~remote' /\ previousMap' \in Nat /\ taken' = Due.read
          /\ Due.fetched = fetched'
      BY <1>1, <1>2, EarlyIs DEF Early
    <3>4. PICK t : t = Due
      OBVIOUS
    <3>. QED BY <1>1, <1>2, <1>3, <3>1, <3>2, <3>3, <3>4, EndsInOrder
  <2>. QED BY <2>2, <2>3
<1>. QED BY <1>4, <1>5
(* waitForOperands(): what a fetch needs is there, or will be forwarded.         *)
LEMMA Operand1InOrder ==
    ASSUME Given, Operand1
    PROVE  EInv'
<1>1. dAt = "src1" /\ phase = "run" /\ ~d.remote
  BY DecodesIs, AtHand DEF Operand1
<1>2. /\ phase' # "edge" /\ UNCHANGED laterSame /\ UNCHANGED <<d, fetched, issued, r1, remote, previousMap, taken>>
  BY <1>1 DEF Operand1, rest, laterSame, fetching, executing, writing, channel, table, bounds
<1>3. CASE IsDecodeStageOperation(d.op) /\ NeedsForwarding(d.src1)
  <2>1. GoTo("forward")
    BY <1>3 DEF Operand1
  <2>. QED BY <1>1, <1>2, <2>1, MovesOn DEF Early
<1>4. CASE ~(IsDecodeStageOperation(d.op) /\ NeedsForwarding(d.src1))
  <2>1. GoTo("src2")
    BY <1>4 DEF Operand1
  <2>2. d.op = "fetch" /\ d.src1 \in Regs => d.src1 # x.dest
    BY <1>4, NotForwarded DEF IsDecodeStageOperation, Core!InDecode
  <2>. QED BY <1>1, <1>2, <2>1, <2>2, MovesOn DEF Early
<1>. QED BY <1>3, <1>4

(* The result has been forwarded when the cycle is over.                         *)
LEMMA ForwardInOrder ==
    ASSUME Given, Forward
    PROVE  EInv'
<1>1. dAt = "forward" /\ slept /\ phase = "run" /\ xAt \in {"idle", "wait", "mul", "store"}
  BY DecodesIs DEF Forward
<1>2. /\ phase' # "edge" /\ UNCHANGED laterSame /\ UNCHANGED <<d, fetched, issued, r1, remote, previousMap, taken>>
      /\ GoTo("src2")
  BY <1>1 DEF Forward, rest, laterSame, fetching, executing, writing, channel, table, bounds
<1>3. d.src1 \in Regs /\ d.src1 = x.dest => Resolves
  <2>1. SUFFICES ASSUME d.src1 \in Regs, d.src1 = x.dest PROVE Resolves
    OBVIOUS
  <2>2. xAt # "store" /\ x.dest # 0
    BY <2>1, StoreHasNoResult, PipelineAssumption
  <2>. QED BY <1>1, <2>2 DEF Given, EInv, InTime, Resolves
<1>. QED BY <1>1, <1>2, <1>3, MovesOn DEF Early

(* An instruction that is cancelled has no effect.                               *)
LEMMA Operand2InOrder ==
    ASSUME Given, Operand2
    PROVE  EInv'
<1>1. dAt = "src2" /\ phase = "run" /\ ~d.looping /\ ~d.persistent
  BY DecodesIs, AtHand DEF Operand2
<1>2. /\ phase' # "edge" /\ UNCHANGED laterSame /\ UNCHANGED <<fetched, issued, r1, remote, previousMap, taken>>
  BY <1>1 DEF Operand2, rest, laterSame, fetching, executing, writing, channel, table, bounds
<1>3. CASE instructionCancelled
  <2>1. GoTo("idle")
    BY <1>1, <1>3 DEF Operand2, Abort
  <2>2. Due' = Due
    BY <1>2 DEF Due, laterSame
  <2>3. DecodeInOrder'
    BY <1>1, <1>2, <2>1, <2>2, EarlyIs, AtRest DEF GoTo, Early
  <2>4. InTime'
    BY <1>2, <2>1 DEF InTime, GoTo
  <2>. QED BY <1>1, <1>2, <2>3, <2>4, StaysKeeps
<1>4. CASE ~instructionCancelled
  <2>1. GoTo("op") /\ d' = d
    BY <1>4 DEF Operand2
  <2>2. d.op = "fetch" /\ d.src1 \in Regs /\ d.src1 = x.dest => Resolves
    BY <1>1, AtHand DEF Given, EInv, InTime
  <2>. QED BY <1>1, <1>2, <2>1, <2>2, MovesOn DEF Early
<1>. QED BY <1>3, <1>4

(* The instruction waits for a credit and for room.                              *)
LEMMA WaitsToSendInOrder ==
    ASSUME Given, WaitOnCredits \/ WaitForSpace
    PROVE  EInv'
<1>1. dAt \in {"credits", "space"} /\ phase = "run"
  BY DecodesIs DEF WaitOnCredits, WaitForSpace
<1>2. /\ phase' # "edge" /\ UNCHANGED laterSame /\ UNCHANGED <<d, fetched, issued, r1, remote, previousMap, taken>>
  BY <1>1 DEF WaitOnCredits, WaitForSpace, rest, laterSame, fetching, executing, writing, channel, table, bounds
<1>3. GoTo("next") \/ (GoTo("space") /\ dAt = "credits")
  BY DEF WaitOnCredits, WaitForSpace, Decodes
<1>. QED BY <1>1, <1>2, <1>3, MovesOn DEF Early

(* The instruction begins to be decoded.                                         *)
LEMMA BeginsOn ==
    ASSUME Given, dAt = "new", NEW to, to \in {"pred", "src1"}, GoTo(to), UNCHANGED laterSame, phase' # "edge",
           UNCHANGED <<fetched, issued, r1, remote, previousMap, taken>>, ~remote,
           NEW e, d' = e, e = ReadChannelMapTable(d), Due.map = map,
           to # "pred" /\ NeedsPredicate(d) => Core!Passes(d.pred, Due.pred)
    PROVE  EInv'
<1>1. /\ dAt' = to /\ slept' = FALSE /\ program' = program /\ Due' = Due
  BY DEF GoTo, laterSame, Due
<1>2. DecodeInOrder /\ r1 = <<>> /\ Decoded(d) /\ ~d.remote /\ ~d.hasResult /\ map \in Nat /\ d.remote \in BOOLEAN
  BY AtHand DEF Given, EInv, DecodeInOrder, ExecuteInOrder
<1>3. Decoded(e) /\ Alike(e, d) /\ e.map = map /\ ~e.hasResult /\ e.remote = d.remote
  BY <1>2, MapShaped DEF ReadChannelMapTable
<1>4. Deciding(d)'
  <2>1. Due.remote = FALSE /\ remote = FALSE /\ e.remote = FALSE /\ taken = Due.read /\ Due.read \in Nat
    BY <1>2, <1>3, AtHand DEF DecodeInOrder, Machine
  <2>2. NeedsPredicate(e) = NeedsPredicate(d)
    BY <1>3 DEF NeedsPredicate, Alike
  <2>3. to # "pred" /\ NeedsPredicate(e) => Core!Passes(e.pred, Due.pred)
    BY <1>3, <2>2 DEF Alike
  <2>4. NeedsPredicate(e)' = NeedsPredicate(e)
    BY DEF NeedsPredicate
  <2>5. to \notin Operands
    BY DEF Operands
  <2>6. taken' = Due'.read + (IF dAt' \in Operands /\ ~d'.remote THEN ReadBy(d') ELSE 0)
    BY <1>1, <2>1, <2>5
  <2>7. NeedsPredicate(d)' = NeedsPredicate(e)
    BY <1>1 DEF NeedsPredicate
  <2>8. d'.remote = Due'.remote /\ ~d'.remote /\ d'.map = Due'.map
        /\ remote' = (d'.remote /\ ~program'[d'.i].eop)
    BY <1>1, <1>3, <2>1
  <2>9. dAt' # "pred" /\ NeedsPredicate(d)' => Core!Passes(d.pred, Due.pred)'
    BY <1>1, <2>3, <2>7 DEF Core!Passes
  <2>. QED BY <2>6, <2>8, <2>9 DEF Deciding, ReadBy
<1>5. Decoded(d)'
  BY <1>1, <1>3 DEF Decoded, Shaped, Own, Whole, Valid, Fields
<1>6. DecodeInOrder'
  <2>1. slept' \in BOOLEAN /\ remote' \in BOOLEAN /\ previousMap' \in Nat
    BY <1>1, <1>2 DEF DecodeInOrder
  <2>. QED BY <1>1, <1>2, <1>3, <1>4, <1>5, <2>1 DEF DecodeInOrder
<1>7. InTime'
  BY <1>1 DEF InTime
<1>. QED BY <1>6, <1>7, StaysKeeps

(* A packet's instruction is sent to another core as it is.                      *)
LEMMA RemoteInOrder ==
    ASSUME Given, dAt = "new", remote, GoTo("credits"), UNCHANGED laterSame, phase' # "edge",
           UNCHANGED <<fetched, issued, r1, previousMap, taken>>, d' = RemoteExecute(d), remote' = ~d.eop
    PROVE  EInv'
<1>1. /\ dAt' = "credits" /\ slept' = FALSE /\ program' = program /\ Due' = Due
  BY DEF GoTo, laterSame, Due
<1>2. /\ DecodeInOrder /\ r1 = <<>> /\ Decoded(d) /\ ~d.persistent /\ previousMap \in Nat
      /\ remote = Due.remote /\ previousMap = Due.remoteMap /\ taken = Due.read /\ Due \in Machine
      /\ d.eop = program[d.i].eop /\ program[d.i] \in Instructions
  BY AtHand DEF Given, EInv, DecodeInOrder, Decoded, Shaped
<1>3. PICK e : e = RemoteExecute(d)
  OBVIOUS
<1>4. Decoded(e) /\ e.i = d.i /\ e.remote /\ e.map = previousMap /\ e.hasResult /\ e.result = e.i
  BY <1>2, <1>3, RemoteShaped
<1>5. e.remote = TRUE /\ e.hasResult = TRUE /\ Due.remote = TRUE
  <2>1. e.remote \in BOOLEAN /\ e.hasResult \in BOOLEAN /\ Due.remote \in BOOLEAN
    BY <1>2, <1>4 DEF Decoded, Shaped, Machine
  <2>. QED BY <1>2, <1>4, <2>1
<1>6. Final(e) /\ Loaded(e, Due)
  BY <1>2, <1>4, <1>5 DEF Final, Loaded
<1>7. d' = e
  BY <1>3
<1>8. Final(d)' /\ Loaded(d, Due)'
  <2>1. Final(e)'
    BY <1>6 DEF Final
  <2>2. e.remote /\ e.remote = Due.remote /\ e.map = Due.remoteMap
    BY <1>2, <1>4, <1>5
  <2>. QED BY <1>1, <1>7, <2>1, <2>2 DEF Final, Loaded
<1>9. Decoded(d)'
  BY <1>1, <1>4, <1>7 DEF Decoded, Shaped, Own, Whole, Valid, Fields
<1>10. Deciding(d)'
  <2>1. remote' = (e.remote /\ ~program[e.i].eop)
    BY <1>2, <1>4, <1>5
  <2>2. Due.read \in Nat
    BY <1>2 DEF Machine
  <2>3. taken' = Due'.read + (IF dAt' \in Operands /\ ~d'.remote THEN ReadBy(d') ELSE 0)
    BY <1>1, <1>2, <1>4, <1>7, <2>2
  <2>4. d'.remote = Due'.remote /\ d'.remote /\ previousMap' = Due'.remoteMap
        /\ remote' = (d'.remote /\ ~program'[d'.i].eop)
    BY <1>1, <1>2, <1>4, <1>5, <1>7, <2>1
  <2>. QED BY <1>1, <2>3, <2>4 DEF Deciding, ReadBy
<1>11. DecodeInOrder'
  <2>1. slept' \in BOOLEAN /\ remote' \in BOOLEAN /\ previousMap' \in Nat
    BY <1>1, <1>2 DEF Instructions
  <2>. QED BY <1>1, <1>2, <1>8, <1>9, <1>10, <2>1 DEF DecodeInOrder
<1>12. InTime'
  BY <1>1 DEF InTime
<1>. QED BY <1>11, <1>12, StaysKeeps

(* newInput(): to another core, on to the decoder, or past it.                   *)
LEMMA BeginInOrder ==
    ASSUME Given, Begin
    PROVE  EInv'
<1>1. dAt = "new" /\ phase = "run" /\ xAt # "new" /\ remote \in BOOLEAN
  BY DecodesIs, AtHand DEF Begin
<1>2. /\ phase' # "edge" /\ UNCHANGED laterSame /\ UNCHANGED <<fetched, r1, taken>>
  BY <1>1 DEF Begin, rest, laterSame, fetching, executing, writing, channel, table, bounds
<1>3. /\ r1 = <<>> /\ ~d.remote /\ ~d.persistent /\ d.outcome \in BOOLEAN /\ Due \in Machine /\ Decoded(d)
      /\ Own(d) /\ program[d.i] \in Instructions /\ previousMap \in Nat /\ d.i \in Nat
  BY <1>1, AtHand
<1>4. Due.map = map /\ (~x.sets => Due.pred = pred)
  BY <1>1, <1>3, DueSettled
<1>5. CASE remote
  <2>1. /\ d' = RemoteExecute(d) /\ remote' = ~d.eop /\ GoTo("credits")
        /\ UNCHANGED <<previousMap, issued>>
    BY <1>5 DEF Begin
  <2>. QED BY <1>1, <1>2, <1>5, <2>1, RemoteInOrder
<1>6. CASE ~remote
  <2>1. PICK e : e = ReadChannelMapTable(d)
    OBVIOUS
  <2>2. UNCHANGED <<remote, previousMap>>
    BY <1>6 DEF Begin
  <2>3. CASE NeedsPredicate(d) /\ x.sets
    <3>1. d' = e /\ GoTo("pred") /\ UNCHANGED issued
      BY <1>6, <2>1, <2>3 DEF Begin
    <3>. QED BY <1>1, <1>2, <1>4, <1>6, <2>1, <2>2, <3>1, BeginsOn
  <2>4. CASE NeedsPredicate(d) /\ ~x.sets /\ ~Core!Passes(d.pred, pred)
    <3>1. Issue(e)
      BY <1>6, <2>1, <2>4 DEF Begin
    <3>2. Decoded(e) /\ Alike(e, d) /\ e.outcome = d.outcome
      <4>1. map \in Nat
        BY DEF Given, EInv, ExecuteInOrder
      <4>. QED BY <1>3, <2>1, <4>1, MapShaped DEF ReadChannelMapTable
    <3>3. e.i = d.i /\ ~e.persistent /\ e.outcome \in BOOLEAN
      BY <1>3, <3>2 DEF Alike
    <3>4. /\ remote = Due.remote /\ taken = Due.read /\ Due.fetched = fetched /\ ~Due.remote
      <4>1. Behind(Due) /\ DecodeInOrder
        BY <1>3 DEF Given, EInv, IssuedInOrder, Before
      <4>. QED BY <1>1, <1>6, <4>1 DEF DecodeInOrder, Behind
    <3>5. ~Core!Passes(program[d.i].pred, Due.pred)
      BY <1>3, <1>4, <2>4 DEF Own
    <3>6. Due = Core!Step(Due, program[d.i], [i |-> d.i, outcome |-> e.outcome])
      BY <3>4, <3>5 DEF Core!Step
    <3>7. PICK t : t = Due
      OBVIOUS
    <3>. QED BY <1>1, <1>2, <1>3, <1>6, <2>2, <3>1, <3>3, <3>4, <3>6, <3>7, EndsInOrder
  <2>5. CASE ~(NeedsPredicate(d) /\ x.sets) /\ ~(NeedsPredicate(d) /\ ~x.sets /\ ~Core!Passes(d.pred, pred))
    <3>1. d' = e /\ GoTo("src1") /\ UNCHANGED issued
      BY <1>6, <2>1, <2>5 DEF Begin
    <3>2. NeedsPredicate(d) => Core!Passes(d.pred, Due.pred)
      BY <1>4, <2>5
    <3>. QED BY <1>1, <1>2, <1>4, <1>6, <2>1, <2>2, <3>1, <3>2, BeginsOn
  <2>. QED BY <2>3, <2>4, <2>5
<1>. QED BY <1>1, <1>5, <1>6

-----------------------------------------------------------------------------
(* The operands are read.                                                        *)
LEMMA OperandsInOrder ==
    ASSUME Given, dAt = "op", wAt # "new", xAt # "new", phase' # "edge", UNCHANGED laterSame,
           UNCHANGED <<fetched, issued, r1, remote, previousMap>>,
           NEW e, Decoded(e), Alike(e, d), ~e.remote, e.map = d.map, ~e.looping, SetOperands(e),
           NEW to, GoTo(to), to \in {"fetch", "credits", "next"},
           to = "fetch" => d.op = "fetch", to # "fetch" => Final(e)
    PROVE  EInv'
<1>1. dAt' = to /\ slept' = FALSE /\ program' = program /\ Due' = Due /\ r1 = <<>> /\ r1' = <<>>
  BY AtHand DEF GoTo, laterSame, Due
<1>2. PICK f : f = WithOperands(e)
  OBVIOUS
<1>3. d' = f /\ taken' = taken + ReadBy(e)
  <2>1. d' = f
    BY <1>2 DEF SetOperands
  <2>2. taken' = taken + ((IF IsChannelEnd(e.src1) THEN 1 ELSE 0) + (IF IsChannelEnd(e.src2) THEN 1 ELSE 0))
    BY DEF SetOperands
  <2>. QED BY <2>1, <2>2 DEF ReadBy, IsChannelEnd
<1>4. /\ Decoded(f) /\ Alike(f, e) /\ f.map = e.map /\ f.hasResult = e.hasResult /\ f.remote = e.remote
      /\ f.outcome = e.outcome /\ f.result = e.result
      /\ f.op1 = ReadReg(e.src1, taken) /\ f.by1 = NeedsForwarding(e.src1)
      /\ f.op2 = ReadReg(e.src2, taken + ReadFirst(e)) /\ f.by2 = NeedsForwarding(e.src2)
  BY <1>2, OperandsShaped
<1>5. /\ remote = Due.remote /\ ~remote /\ remote \in BOOLEAN /\ previousMap \in Nat /\ taken = Due.read
      /\ d.map = Due.map /\ (NeedsPredicate(d) => Core!Passes(d.pred, Due.pred))
  BY EarlyIs DEF Early
<1>6. f.remote = FALSE /\ Due.remote = FALSE /\ remote = FALSE
  BY <1>4, <1>5 DEF Decoded, Shaped
<1>7. /\ f.src1 = d.src1 /\ f.src2 = d.src2 /\ e.src1 = d.src1 /\ e.src2 = d.src2 /\ f.pred = d.pred /\ f.op = d.op
      /\ f.i = d.i /\ f.op = e.op /\ f.i = e.i
  BY <1>4 DEF Alike
<1>8. d.src1 \in Regs \cup {0, Channel} /\ d.src2 \in Regs \cup {0, Channel}
  BY AtHand
<1>9. OperandOK(Due, f.src1, Due.read, f.op1, f.by1)
  BY <1>1, <1>4, <1>5, <1>7, <1>8, ReadRegIs
<1>10. OperandOK(Due, f.src2, Due.read + ReadFirst(f), f.op2, f.by2)
  <2>1. ReadFirst(e) = ReadFirst(f)
    BY <1>7 DEF ReadFirst
  <2>. QED BY <1>1, <1>4, <1>5, <1>7, <1>8, <2>1, ReadRegIs
<1>11. NeedsPredicate(f) => Core!Passes(f.pred, Due.pred)
  BY <1>5, <1>7 DEF NeedsPredicate
<1>12. f.map = Due.map
  BY <1>4, <1>5
<1>13. Loaded(f, Due)
  BY <1>6, <1>9, <1>10, <1>11, <1>12 DEF Loaded
<1>14. PICK s : s = Due
  OBVIOUS
<1>15. OperandsKept(s)
  BY DEF OperandsKept, Forwards, Resolved, laterSame, Active, Passing
<1>16. Loaded(f, s)'
  BY <1>13, <1>14, <1>15, LoadedKept
<1>17. Loaded(d, Due)'
  BY <1>1, <1>3, <1>14, <1>16 DEF Loaded, OperandOK, Forwards
<1>18. Decoded(d)'
  BY <1>1, <1>3, <1>4 DEF Decoded, Shaped, Own, Whole, Valid, Fields
<1>19. to # "fetch" => Final(d)'
  <2>1. to # "fetch" => Final(f)
    BY <1>4, <1>7 DEF Final
  <2>. QED BY <1>3, <2>1 DEF Final
<1>20. Deciding(d)'
  <2>1. ReadBy(f) = ReadBy(e)
    BY <1>7 DEF ReadBy
  <2>2. to \in Operands
    BY DEF Operands
  <2>3. NeedsPredicate(f)' = NeedsPredicate(f)
    BY DEF NeedsPredicate
  <2>. QED BY <1>1, <1>3, <1>5, <1>6, <1>11, <1>12, <2>1, <2>2, <2>3 DEF Deciding, NeedsPredicate
<1>21. to = "fetch" => IF f.by1 THEN f.src1 \in Regs ELSE f.op1 = Core!Value(Due, f.src1, Due.read)
  BY <1>9 DEF OperandOK
<1>22. DecodeInOrder'
  <2>1. to = "fetch" => /\ d'.op = "fetch"
                        /\ IF d'.by1 THEN d'.src1 \in Regs ELSE d'.op1 = Core!Value(Due', d'.src1, Due'.read)
    BY <1>1, <1>3, <1>7, <1>21
  <2>2. slept' \in BOOLEAN /\ remote' \in BOOLEAN /\ previousMap' \in Nat
    BY <1>1, <1>5
  <2>. QED BY <1>1, <1>17, <1>18, <1>19, <1>20, <2>1, <2>2 DEF DecodeInOrder, Core!Value
<1>23. InTime'
  <2>1. to = "fetch" /\ f.by1 => Resolves
    <3>1. SUFFICES ASSUME to = "fetch", f.by1 PROVE Resolves
      OBVIOUS
    <3>2. f.src1 \in Regs /\ NeedsForwarding(d.src1) /\ d.op = "fetch"
      BY <1>4, <1>7, <1>21, <3>1
    <3>3. d.src1 = x.dest /\ d.src1 \in Regs /\ ~d.remote
      BY <1>7, <3>2, AtHand DEF NeedsForwarding
    <3>. QED BY <3>2, <3>3 DEF Given, EInv, InTime
  <2>2. Resolves' = Resolves
    BY DEF laterSame, Resolves, MulStarted
  <2>. QED BY <1>1, <1>3, <2>1, <2>2 DEF InTime
<1>. QED BY <1>1, <1>22, <1>23, StaysKeeps

(* The instruction goes on to the execute stage with its operands.               *)
LEMMA GoesInOrder ==
    ASSUME Given, GoesOn \/ TestChannel \/ SelectChannel
    PROVE  EInv'
<1>1. dAt = "op" /\ phase = "run" /\ wAt # "new" /\ xAt # "new"
  BY DecodesIs DEF GoesOn, TestChannel, SelectChannel, Does
<1>2. /\ Decoded(d) /\ d.remote = FALSE /\ ~d.hasResult /\ ~d.persistent /\ ~d.looping
      /\ d.op \in Passed \cup {"fetch", "woche", "ibjmp", "rmtexecute"} /\ d.hasResult \in BOOLEAN
  BY <1>1, AtHand, HandRules, EarlyIs DEF Early, Decoded, Shaped
<1>3. PICK e :
        /\ Goes(e) /\ Decoded(e) /\ Alike(e, d) /\ ~e.remote /\ e.map = d.map /\ e.hasResult \in BOOLEAN
        /\ e.hasResult = (d.op \in InDecoder) /\ (e.hasResult => e.result = e.i) /\ d.op \in Passed
  <2>1. CASE GoesOn
    <3>1. Goes(d) /\ d.op \notin InDecoder /\ d.op \in Passed
      BY <1>2, <2>1 DEF GoesOn, IsDecodeStageOperation, Core!InDecode, InDecoder
    <3>2. Alike(d, d) /\ d.hasResult = FALSE
      BY <1>2 DEF Alike
    <3>. QED BY <1>2, <3>1, <3>2
  <2>2. CASE TestChannel
    <3>0. Available \in BOOLEAN
      BY DEF Available, Given, PInv, Reads
    <3>1. PICK o \in BOOLEAN : o = Available
      BY <3>0
    <3>2. PICK e : e = [d EXCEPT !.hasResult = TRUE, !.result = d.i, !.outcome = o]
      OBVIOUS
    <3>3. Goes(e) /\ d.op = "tstchi"
      BY <2>2, <3>1, <3>2 DEF TestChannel, Does
    <3>4. Decoded(e) /\ Alike(e, d) /\ e.hasResult /\ e.result = d.i /\ ~e.remote /\ e.map = d.map
      BY <1>2, <3>2, ResultShaped
    <3>5. e.hasResult = TRUE
      BY <3>4 DEF Decoded, Shaped
    <3>. QED BY <3>3, <3>4, <3>5 DEF InDecoder, Alike, Passed
  <2>3. CASE SelectChannel
    <3>1. TRUE \in BOOLEAN
      OBVIOUS
    <3>2. PICK e : e = [d EXCEPT !.hasResult = TRUE, !.result = d.i]
      OBVIOUS
    <3>3. Goes(e) /\ d.op = "selch"
      BY <2>3, <3>2 DEF SelectChannel, Does
    <3>4. Decoded(e) /\ Alike(e, d) /\ e.hasResult /\ e.result = d.i /\ ~e.remote /\ e.map = d.map
      BY <1>2, <3>1, <3>2, ResultShaped
    <3>5. e.hasResult = TRUE
      BY <3>4 DEF Decoded, Shaped
    <3>. QED BY <3>3, <3>4, <3>5 DEF InDecoder, Alike, Passed
  <2>. QED BY <2>1, <2>2, <2>3
<1>4. /\ phase' # "edge" /\ UNCHANGED laterSame /\ UNCHANGED <<fetched, issued, r1, remote, previousMap>>
      /\ SetOperands(e)
  BY <1>1, <1>3 DEF Goes, untouched, laterSame, fetching, executing, writing, table, bounds
<1>5. PICK to : GoTo(to) /\ to \in {"credits", "next"}
  BY <1>3 DEF Goes
<1>6. ~e.looping
  BY <1>2, <1>3 DEF Decoded, Shaped, Valid, Alike
<1>7. Final(e)
  BY <1>3 DEF Final, Alike, InDecoder
<1>. QED BY <1>1, <1>3, <1>4, <1>5, <1>6, <1>7, OperandsInOrder

(* A fetch reads where to fetch from.                                            *)
LEMMA FetchesInOrder ==
    ASSUME Given, Fetches
    PROVE  EInv'
<1>1. dAt = "op" /\ phase = "run" /\ wAt # "new" /\ xAt # "new" /\ d.op = "fetch"
  BY DecodesIs DEF Fetches, Does
<1>2. /\ phase' # "edge" /\ UNCHANGED laterSame /\ UNCHANGED <<fetched, issued, r1, remote, previousMap>>
      /\ SetOperands(d) /\ GoTo("fetch")
  BY <1>1 DEF Fetches, untouched, laterSame, fetching, executing, writing, table, bounds
<1>3. Decoded(d) /\ Alike(d, d) /\ ~d.remote /\ ~d.looping
  BY <1>1, AtHand DEF Alike
<1>. QED BY <1>1, <1>2, <1>3, OperandsInOrder

-----------------------------------------------------------------------------
(* What the instructions do that end in the decode stage.                        *)
LEMMA PerformedIs ==
    ASSUME NEW s \in Machine, NEW ins \in Instructions, NEW e \in Issues,
           ins.op \in {"fetch", "woche", "ibjmp", "rmtexecute"}, ins.dest = 0, ~ins.sets,
           ins.op = "rmtexecute" \/ ins.to = "none",
           NEW t, t = Core!Perform(s, ins, e)
    PROVE  /\ t.regs = s.regs /\ t.pred = s.pred /\ t.map = s.map /\ t.computed = s.computed
           /\ t.sent = s.sent /\ t.remote = (ins.op = "rmtexecute")
           /\ t.remoteMap = IF ins.op = "rmtexecute" THEN s.map ELSE s.remoteMap
           /\ t.read = s.read + ReadBy(ins)
           /\ t.fetched = IF ins.op = "fetch" THEN Append(s.fetched, <<e.i, Core!Value(s, ins.src1, s.read)>>)
                          ELSE s.fetched
<1>1. /\ t.regs = s.regs /\ t.pred = s.pred /\ t.map = s.map
  BY PerformIs
<1>2. /\ t.remote = (ins.op = "rmtexecute") /\ t.read = s.read + ReadBy(ins)
      /\ t.remoteMap = IF ins.op = "rmtexecute" THEN s.map ELSE s.remoteMap
  BY PerformIs
<1>3. t.computed = s.computed
  <2>1. Core!InDecode(ins.op)
    BY DEF Core!InDecode
  <2>. QED BY <2>1, PerformIs
<1>4. t.fetched = IF ins.op = "fetch" THEN Append(s.fetched, <<e.i, Core!Value(s, ins.src1, s.read)>>)
                  ELSE s.fetched
  BY PerformIs
<1>5. t.sent = s.sent
  <2>1. Sends(s, ins, e) = s.sent
    BY DEF Sends
  <2>. QED BY <2>1, PerformIs
<1>. QED BY <1>1, <1>2, <1>3, <1>4, <1>5

(* What ends in the decode stage does nothing to the later stages.               *)
LEMMA EndedIs ==
    ASSUME Given, dAt \in {"op", "woche", "fetch", "reread"}, d.op \in {"fetch", "woche", "ibjmp", "rmtexecute"},
           NEW e, e.outcome \in BOOLEAN, e.i = d.i,
           NEW t, t = Core!Step(Due, program[d.i], [i |-> d.i, outcome |-> e.outcome])
    PROVE  /\ t.regs = Due.regs /\ t.pred = Due.pred /\ t.map = Due.map /\ t.computed = Due.computed
           /\ t.sent = Due.sent /\ t.remote = (d.op = "rmtexecute")
           /\ t.remoteMap = IF d.op = "rmtexecute" THEN d.map ELSE Due.remoteMap
           /\ t.read = Due.read + ReadBy(d)
           /\ t.fetched = IF d.op = "fetch"
                          THEN Append(Due.fetched, <<d.i, Core!Value(Due, d.src1, Due.read)>>)
                          ELSE Due.fetched
<1> DEFINE ie == [i |-> d.i, outcome |-> e.outcome]
           ins == program[d.i]
<1>1. /\ d.remote = FALSE /\ Own(d) /\ ins \in Instructions /\ ie \in Issues /\ Due \in Machine
  BY AtHand DEF Issues
<1>2. Deciding(d)
  BY DEF Given, EInv, DecodeInOrder
<1>3. /\ d.op \in {"fetch", "woche", "ibjmp"} => d.to = "none"
      /\ d.dest = 0 /\ ~d.sets
  BY <1>1, HandRules
<1>4. Due.remote = FALSE /\ Due.map = d.map
  BY <1>1, <1>2 DEF Deciding
<1>5. Core!Passes(ins.pred, Due.pred)
  <2>1. d.pred = "always" \/ NeedsPredicate(d)
    BY DEF NeedsPredicate, IsDecodeStageOperation, Core!InDecode
  <2>2. NeedsPredicate(d) => Core!Passes(d.pred, Due.pred)
    BY <1>1, <1>2 DEF Deciding
  <2>. QED BY <1>1, <2>1, <2>2 DEF Own, Core!Passes
<1>6. ie.i = d.i
  OBVIOUS
<1>7. /\ ins.op = d.op /\ ins.dest = d.dest /\ ins.src1 = d.src1 /\ ins.src2 = d.src2 /\ ins.sets = d.sets
      /\ ins.to = d.to
  BY <1>1 DEF Own
<1> HIDE DEF ie, ins
<1>8. t = Core!Perform(Due, ins, ie)
  BY <1>1, <1>4, <1>5, StepIs DEF ie, ins
<1>9. /\ t.regs = Due.regs /\ t.pred = Due.pred /\ t.map = Due.map /\ t.computed = Due.computed
      /\ t.sent = Due.sent /\ t.remote = (ins.op = "rmtexecute")
      /\ t.remoteMap = IF ins.op = "rmtexecute" THEN Due.map ELSE Due.remoteMap
      /\ t.read = Due.read + ReadBy(ins)
      /\ t.fetched = IF ins.op = "fetch" THEN Append(Due.fetched, <<ie.i, Core!Value(Due, ins.src1, Due.read)>>)
                     ELSE Due.fetched
  <2>1. ins.op \in {"fetch", "woche", "ibjmp", "rmtexecute"} /\ ins.dest = 0 /\ ~ins.sets
        /\ (ins.op = "rmtexecute" \/ ins.to = "none")
    BY <1>3, <1>7
  <2>2. PICK s \in Machine, k \in Instructions : s = Due /\ k = ins
    BY <1>1
  <2>. QED BY <1>1, <1>8, <2>1, <2>2, PerformedIs
<1>10. ReadBy(ins) = ReadBy(d)
  BY <1>7 DEF ReadBy
<1>. QED BY <1>4, <1>6, <1>7, <1>9, <1>10

(* Channel ends are waited for, a jump or remote execution begins.               *)
LEMMA EndsInDecodeInOrder ==
    ASSUME Given, WaitForChannelEnds \/ ChannelEndsReady \/ Jump \/ StartRemoteExecution
    PROVE  EInv'
<1>1. /\ dAt \in {"op", "woche"} /\ phase = "run" /\ dAt # "idle"
      /\ dAt = "woche" => d.op = "woche"
      /\ d.op \in {"woche", "ibjmp", "rmtexecute"}
  <2>1. dAt = "woche" => d.op = "woche"
    BY DEF Given, EInv, DecodeInOrder
  <2>. QED BY <2>1, DecodesIs DEF WaitForChannelEnds, ChannelEndsReady, Jump, StartRemoteExecution, Does
<1>2. /\ ~d.remote /\ ~d.persistent /\ d.outcome \in BOOLEAN /\ Due \in Machine /\ d.remote = FALSE
      /\ remote = FALSE /\ previousMap \in Nat /\ taken = Due.read /\ Due.fetched = fetched
      /\ d.map = Due.map /\ d.map \in Nat
  BY <1>1, AtHand, EarlyIs DEF Early, Decoded, Shaped
<1>3. CASE Ends
  <2>1. Issue(d) /\ UNCHANGED <<fetched, r1>> /\ phase' # "edge" /\ UNCHANGED laterSame
    <3>1. program' = program
      BY DEF WaitForChannelEnds, ChannelEndsReady, Jump, StartRemoteExecution, Decodes, fetching, rest
    <3>. QED BY <1>1, <1>3, <3>1 DEF Ends, laterSame, executing, writing, table, bounds
  <2>2. taken' = taken
    BY <1>3 DEF Ends, channel
  <2>3. PICK t : t = Core!Step(Due, program[d.i], [i |-> d.i, outcome |-> d.outcome])
    OBVIOUS
  <2>4. /\ t.regs = Due.regs /\ t.pred = Due.pred /\ t.map = Due.map /\ t.computed = Due.computed
        /\ t.sent = Due.sent /\ t.remote = (d.op = "rmtexecute")
        /\ t.remoteMap = IF d.op = "rmtexecute" THEN d.map ELSE Due.remoteMap
        /\ t.read = Due.read + ReadBy(d)
        /\ t.fetched = Due.fetched
    BY <1>1, <1>2, <2>3, EndedIs
  <2>5. ReadBy(d) = 0
    BY <1>1, <1>2, HandRules DEF ReadBy
  <2>6. t.read = taken'
    BY <1>2, <2>2, <2>4, <2>5 DEF Machine
  <2>7. CASE d.op = "rmtexecute"
    <3>1. StartRemoteExecution
      BY <1>1, <1>3, <2>7 DEF WaitForChannelEnds, ChannelEndsReady, Jump, Does, Decodes
    <3>2. remote' = TRUE /\ previousMap' = d.map /\ t.remote = TRUE /\ t.remoteMap = d.map
      BY <2>4, <2>7, <3>1 DEF StartRemoteExecution
    <3>. QED BY <1>1, <1>2, <2>1, <2>3, <2>4, <2>6, <3>2, EndsInOrder
  <2>8. CASE d.op # "rmtexecute"
    <3>1. UNCHANGED <<remote, previousMap>>
      BY <1>3, <2>8 DEF WaitForChannelEnds, ChannelEndsReady, Jump, StartRemoteExecution, Does, GoTo, Ends, Issue
    <3>2. remote' = FALSE /\ t.remote = FALSE /\ previousMap' \in Nat
      BY <1>2, <2>4, <2>8, <3>1
    <3>. QED BY <1>1, <1>2, <2>1, <2>3, <2>4, <2>6, <3>2, EndsInOrder
  <2>. QED BY <2>7, <2>8
<1>4. CASE ~Ends
  <2>1. /\ dAt = "op" /\ d.op = "woche" /\ GoTo("woche") /\ UNCHANGED laterSame /\ phase' # "edge"
        /\ UNCHANGED <<d, fetched, issued, r1, remote, previousMap, taken>>
    BY <1>1, <1>4 DEF WaitForChannelEnds, ChannelEndsReady, Jump, StartRemoteExecution, Does, Decodes, rest,
       laterSame, fetching, executing, writing, channel, table, bounds
  <2>. QED BY <2>1, MovesOn DEF Early
<1>. QED BY <1>3, <1>4

(* fetch(): from the address that program order gives it.                        *)
LEMMA DoFetchInOrder ==
    ASSUME Given, dAt \in {"fetch", "reread"}, phase = "run", NEW e, e.i = d.i, ~e.persistent, e.outcome = d.outcome,
           e.op1 = Core!Value(Due, d.src1, Due.read), DoFetch(e)
    PROVE  EInv'
<1>1. /\ d.op = "fetch" /\ Deciding(d) /\ d.remote = FALSE /\ d.outcome \in BOOLEAN /\ Due \in Machine
      /\ previousMap \in Nat
  BY AtHand DEF Given, EInv, DecodeInOrder
<1>2. /\ Issue(e) /\ UNCHANGED <<r1, remote, previousMap, taken>> /\ phase' # "edge" /\ UNCHANGED laterSame
      /\ fetched' = Append(fetched, <<e.i, e.op1>>)
  BY DEF DoFetch, laterSame, executing, writing, table, bounds, channel
<1>3. PICK t : t = Core!Step(Due, program[d.i], [i |-> d.i, outcome |-> e.outcome])
  OBVIOUS
<1>4. /\ t.regs = Due.regs /\ t.pred = Due.pred /\ t.map = Due.map /\ t.computed = Due.computed
      /\ t.sent = Due.sent /\ t.remote = (d.op = "rmtexecute") /\ t.read = Due.read + ReadBy(d)
      /\ t.fetched = Append(Due.fetched, <<d.i, Core!Value(Due, d.src1, Due.read)>>)
  BY <1>1, <1>3, EndedIs
<1>5. taken = Due.read + ReadBy(d) /\ remote = FALSE
  BY <1>1 DEF Deciding, Operands
<1>6. Due.fetched = fetched
  BY AtHand DEF Given, EInv, IssuedInOrder, Behind
<1>7. t.remote = FALSE
  BY <1>1, <1>4
<1>. QED BY <1>1, <1>2, <1>3, <1>4, <1>5, <1>6, <1>7, EndsInOrder

(* When there is room, from the operand or from the register, read again.        *)
LEMMA FetchInOrder ==
    ASSUME Given, FetchAllowed \/ Reread
    PROVE  EInv'
<1>1. CASE FetchAllowed
  <2>1. dAt = "fetch" /\ phase = "run"
    BY <1>1, DecodesIs DEF FetchAllowed
  <2>2. Decoded(d) /\ ~d.persistent /\ ~d.remote
    BY <2>1, AtHand
  <2>3. IF d.by1 THEN d.src1 \in Regs ELSE d.op1 = Core!Value(Due, d.src1, Due.read)
    BY <2>1 DEF Given, EInv, DecodeInOrder
  <2>4. CASE d.by1
    <3>1. /\ GoTo("reread") /\ UNCHANGED laterSame /\ phase' # "edge"
          /\ UNCHANGED <<d, fetched, issued, r1, remote, previousMap, taken>>
      BY <1>1, <2>1, <2>4 DEF FetchAllowed, rest, laterSame, fetching, executing, writing, channel, table, bounds
    <3>2. Resolves
      BY <2>1, <2>4 DEF Given, EInv, InTime
    <3>. QED BY <2>1, <2>3, <2>4, <3>1, <3>2, MovesOn DEF Early
  <2>5. CASE ~d.by1
    <3>1. DoFetch(d)
      BY <1>1, <2>5 DEF FetchAllowed
    <3>. QED BY <2>1, <2>2, <2>3, <2>5, <3>1, DoFetchInOrder
  <2>. QED BY <2>4, <2>5
<1>2. CASE Reread
  <2>1. dAt = "reread" /\ phase = "run" /\ wAt = "idle" /\ slept /\ r1 = <<>> /\ xAt # "new" /\ wAt # "new"
    BY <1>2, DecodesIs, AtHand DEF Reread
  <2>2. Decoded(d) /\ ~d.persistent /\ ~d.remote
    BY <2>1, AtHand
  <2>3. d.src1 \in Regs /\ xAt = "idle" /\ r2 = <<>>
    BY <2>1 DEF Given, EInv, InTime, DecodeInOrder
  <2>4. /\ Behind(Due) /\ ExecuteInOrder /\ Due \in Machine
    BY <2>1 DEF Given, EInv, IssuedInOrder, Before
  <2>5. Due.regs[d.src1] = regs[d.src1]
    <3>1. Written = regs
      BY <2>1, <2>3 DEF Written, Arriving
    <3>. QED BY <2>3, <2>4, <3>1 DEF Behind, Passing, Active
  <2>6. d.src1 # 0 /\ d.src1 # Channel
    BY <2>3, PipelineAssumption
  <2>7. ReadReg(d.src1, taken) = regs[d.src1]
    BY <2>1, <2>4, <2>6 DEF ReadReg, IsChannelEnd, ExecuteInOrder
  <2>8. Core!Value(Due, d.src1, Due.read) = Due.regs[d.src1]
    BY <2>6 DEF Core!Value
  <2>9. PICK v : v = ReadReg(d.src1, taken)
    OBVIOUS
  <2>10. PICK e : e = [d EXCEPT !.op1 = v]
    OBVIOUS
  <2>11. Alike(e, d) /\ e.op1 = v /\ e.outcome = d.outcome
    BY <2>2, <2>10, RereadShaped
  <2>12. DoFetch(e)
    BY <1>2, <2>9, <2>10 DEF Reread
  <2>. QED BY <2>1, <2>2, <2>5, <2>7, <2>8, <2>9, <2>11, <2>12, DoFetchInOrder DEF Alike
<1>. QED BY <1>1, <1>2

(* What the core in order does with the instruction that goes on.                *)
LEMMA OutputIs ==
    ASSUME Given, dAt = "next",
           NEW t, t = Core!Step(Due, program[d.i], [i |-> d.i, outcome |-> d.outcome])
    PROVE  /\ remote = t.remote /\ taken = t.read /\ (remote => previousMap = t.remoteMap)
<1> DEFINE ie == [i |-> d.i, outcome |-> d.outcome]
           ins == program[d.i]
<1>1. /\ ins \in Instructions /\ ie \in Issues /\ Due \in Machine /\ d.remote \in BOOLEAN /\ (~d.remote => Own(d))
      /\ remote \in BOOLEAN /\ Due.read \in Nat /\ Due.remote \in BOOLEAN
  BY AtHand DEF Issues, Machine
<1>2. /\ Deciding(d) /\ Final(d)
  BY DEF Given, EInv, DecodeInOrder
<1>3. /\ d.remote = Due.remote /\ (d.remote => previousMap = Due.remoteMap)
      /\ remote = (d.remote /\ ~ins.eop)
      /\ taken = Due.read + (IF ~d.remote THEN ReadBy(d) ELSE 0)
  BY <1>2 DEF Deciding, Operands
<1>4. ins.eop \in BOOLEAN
  BY <1>1 DEF Instructions
<1> HIDE DEF ie, ins
<1>5. PICK s \in Machine, k \in Instructions, e \in Issues : s = Due /\ k = ins /\ e = ie
  BY <1>1
<1>6. t = Core!Step(s, k, e)
  BY <1>5 DEF ie, ins
<1>7. CASE d.remote
  <2>1. t = Core!SendAway(s, k, e)
    BY <1>1, <1>3, <1>5, <1>6, <1>7, StepIs
  <2>2. t.remote = ~k.eop /\ t.remoteMap = s.remoteMap /\ t.read = s.read
    <3>1. PICK v : v = Core!SendAway(s, k, e)
      OBVIOUS
    <3>2. v.remote = ~k.eop /\ v.remoteMap = s.remoteMap /\ v.read = s.read
      <4>1. v.remote = ~k.eop
        BY <1>5, <3>1, SendAwayIs, Zenon
      <4>2. v.remoteMap = s.remoteMap
        BY <1>5, <3>1, SendAwayIs, Zenon
      <4>3. v.read = s.read
        BY <1>5, <3>1, SendAwayIs, Zenon
      <4>. QED BY <4>1, <4>2, <4>3
    <3>. QED BY <2>1, <3>1, <3>2
  <2>. QED BY <1>1, <1>3, <1>4, <1>5, <1>7, <2>2
<1>8. CASE ~d.remote /\ Core!Passes(k.pred, s.pred)
  <2>1. t = Core!Perform(s, k, e)
    BY <1>1, <1>3, <1>5, <1>6, <1>8, StepIs
  <2>2. t.remote = (k.op = "rmtexecute") /\ t.read = s.read + ReadBy(k)
    <3>1. PICK v : v = Core!Perform(s, k, e)
      OBVIOUS
    <3>2. v.remote = (k.op = "rmtexecute") /\ v.read = s.read + ReadBy(k)
      BY <1>5, <3>1, PerformIs
    <3>. QED BY <2>1, <3>1, <3>2
  <2>3. k.op # "rmtexecute" /\ ReadBy(k) = ReadBy(d)
    BY <1>1, <1>2, <1>5, <1>8 DEF Own, Final, Passed, ReadBy, ins
  <2>4. t.remote = FALSE /\ remote = FALSE
    BY <1>1, <1>3, <1>8, <2>2, <2>3
  <2>. QED BY <1>3, <1>5, <1>8, <2>2, <2>3, <2>4
<1>9. CASE ~d.remote /\ ~Core!Passes(k.pred, s.pred)
  <2>1. t = s
    BY <1>1, <1>3, <1>5, <1>6, <1>9, StepIs
  <2>2. d.pred = k.pred
    BY <1>1, <1>5, <1>9 DEF Own, ins
  <2>3. ~NeedsPredicate(d) /\ d.pred # "always"
    BY <1>2, <1>5, <1>9, <2>2 DEF Deciding, Core!Passes
  <2>4. ReadBy(d) = 0
    BY <2>3 DEF NeedsPredicate, IsChannelEnd, ReadBy
  <2>5. remote = FALSE /\ Due.remote = FALSE
    BY <1>1, <1>3, <1>9
  <2>. QED BY <1>1, <1>3, <1>5, <1>9, <2>1, <2>4, <2>5
<1>. QED BY <1>1, <1>7, <1>8, <1>9

(* The instruction goes to the execute stage.                                    *)
LEMMA OutputInOrder ==
    ASSUME Given, Output
    PROVE  EInv'
<1>1. dAt = "next" /\ phase = "run"
  BY DecodesIs DEF Output
<1>2. /\ phase' # "edge" /\ UNCHANGED laterSame /\ UNCHANGED <<fetched, remote, previousMap, taken>>
      /\ r1' = <<d>> /\ Issue(d) /\ program' = program
  BY <1>1 DEF Output, laterSame, fetching, executing, writing, channel, table, bounds
<1>3. /\ ~d.persistent /\ d.outcome \in BOOLEAN /\ r1 = <<>> /\ Before = Due /\ Decoded(d) /\ d.i \in 1..Len(program)
      /\ remote \in BOOLEAN /\ previousMap \in Nat
  BY <1>1, AtHand
<1>4. PICK t : t = Core!Step(Due, program[d.i], [i |-> d.i, outcome |-> d.outcome])
  OBVIOUS
<1>5. /\ issued' \in Seq(Issues) /\ (\A k \in 1..Len(issued') : issued'[k].i \in 1..Len(program))
      /\ issued' # <<>> /\ issued'[Len(issued')] = [i |-> d.i, outcome |-> d.outcome]
      /\ SubSeq(issued', 1, Len(issued') - 1) = issued
      /\ Due' = t /\ t \in Machine /\ d' = d /\ dAt' = "idle" /\ slept' = FALSE
  BY <1>1, <1>2, <1>3, <1>4, IssueIs
<1>6. Before' = Due
  BY <1>2, <1>5 DEF Before, Due
<1>7. PICK s : s = Due
  OBVIOUS
<1>8. PICK e : e = d
  OBVIOUS
<1>9. Behind(s) /\ ExecuteInOrder /\ s \in Machine /\ s.fetched = fetched
  BY <1>3, <1>7 DEF Given, EInv, IssuedInOrder, Behind
<1>10. Behind(s)' /\ ExecuteInOrder'
  BY <1>2, <1>9, LaterLeftAlone
<1>11. Decoded(e)' /\ Final(e)' /\ Loaded(e, s)'
  <2>1. Decoded(e) /\ Final(e) /\ Loaded(e, s)
    BY <1>1, <1>3, <1>7, <1>8 DEF Given, EInv, DecodeInOrder
  <2>2. OperandsKept(s)
    BY <1>2 DEF OperandsKept, Forwards, Resolved, laterSame, Active, Passing
  <2>. QED BY <1>2, <2>1, <2>2, LoadedKept DEF Decoded, Final, Shaped, Own, Whole, Valid, Fields
<1>12. r1'[1] = e /\ Before' = s
  BY <1>2, <1>6, <1>7, <1>8
<1>13. Decoded(r1[1])' /\ Final(r1[1])' /\ Loaded(r1[1], Before)'
  <2>1. Decoded(r1[1])'
    BY <1>11, <1>12 DEF Decoded, Shaped, Own, Whole, Valid, Fields
  <2>2. Final(r1[1])'
    BY <1>11, <1>12 DEF Final
  <2>3. Loaded(r1[1], Before)'
    BY <1>11, <1>12 DEF Loaded, OperandOK, Forwards
  <2>. QED BY <2>1, <2>2, <2>3
<1>14. IssuedInOrder'
  <2>1. Behind(Before)'
    BY <1>10, <1>12 DEF Behind
  <2>. QED BY <1>2, <1>5, <1>8, <1>9, <1>12, <1>13, <2>1 DEF IssuedInOrder
<1>15. DecodeInOrder'
  <2>1. remote = t.remote /\ taken = t.read /\ (remote => previousMap = t.remoteMap)
    BY <1>1, <1>4, OutputIs
  <2>. QED BY <1>2, <1>3, <1>5, <2>1, AtRest
<1>16. InTime'
  BY <1>2, <1>5 DEF InTime
<1>. QED BY <1>10, <1>14, <1>15, <1>16 DEF EInv

(* Nothing repeats.                                                              *)
LEMMA NeverAgain ==
    ASSUME Given, Again
    PROVE  EInv'
BY DEF Again, Decodes, Given, EInv, DecodeInOrder

(* The steps of the decode stage.                                                *)
LEMMA DecodeStepsInOrder ==
    ASSUME Given, Decode
    PROVE  EInv'
BY BeginInOrder, PredicateInOrder, Operand1InOrder, ForwardInOrder, Operand2InOrder, GoesInOrder, FetchesInOrder,
   EndsInDecodeInOrder, FetchInOrder, WaitsToSendInOrder, OutputInOrder, NeverAgain DEF Decode, Operation

-----------------------------------------------------------------------------
(* Nothing has been done at first.                                               *)
LEMMA InitInOrder ==
    Init => EInv
<1>1. SUFFICES ASSUME Init PROVE EInv
  OBVIOUS
<1>2. /\ issued = <<>> /\ r1 = <<>> /\ r2 = <<>> /\ data = <<>> /\ computed = <<>> /\ sent = <<>> /\ fetched = <<>>
      /\ regs = [r \in Regs |-> 0] /\ pred = FALSE /\ map = 0 /\ dAt = "idle" /\ slept = FALSE /\ remote = FALSE
      /\ previousMap = 0 /\ taken = 0 /\ x = NoInst /\ xAt = "idle" /\ continuingStore = FALSE
      /\ previousInstExecuted = FALSE /\ w = NoInst /\ wAt = "idle"
  BY <1>1 DEF Init, InitCore, InitRegisters, InitDecode, InitReceiveTable, InitExecute, InitWrite, InitSendTable
<1>3. Due = Core!Start(Regs) /\ Before = Due /\ Due \in Machine
  BY <1>2, EffectsOfNone, StartIs DEF Due, Before
<1>4. /\ Due.regs = [r \in Regs |-> 0] /\ Due.pred = FALSE /\ Due.map = 0 /\ Due.remote = FALSE /\ Due.read = 0
      /\ Due.computed = <<>> /\ Due.fetched = <<>> /\ Due.sent = <<>>
  BY <1>3 DEF Core!Start
<1>5. Written = regs /\ InTable = <<>> /\ ~Active /\ ~Passing
  BY <1>2 DEF Written, Arriving, InTable, Active, Passing
<1>6. (sent \o InTable) \o <<>> = <<>>
  BY <1>2, <1>5
<1>7. Behind(Before)
  BY <1>2, <1>3, <1>4, <1>5, <1>6 DEF Behind
<1>8. IssuedInOrder
  BY <1>2, <1>3, <1>7 DEF IssuedInOrder
<1>9. ExecuteInOrder
  <2>1. x.dest = 0 /\ x.sets = FALSE /\ x.hasResult = FALSE /\ w.dest = 0
    BY <1>2 DEF NoInst
  <2>2. computed \in Seq(Computations) /\ sent \in Seq(Packets) /\ InTable \in Seq(Packets)
    BY <1>2, <1>5
  <2>. QED BY <1>2, <1>5, <2>1, <2>2 DEF ExecuteInOrder
<1>10. DecodeInOrder
  BY <1>2, <1>4 DEF DecodeInOrder
<1>11. InTime
  BY <1>2 DEF InTime
<1>. QED BY <1>8, <1>9, <1>10, <1>11 DEF EInv

(* And every step is in order.                                                   *)
LEMMA NextInOrder ==
    ASSUME Given, [Next]_vars, [Tick => NotHeldUp]_vars
    PROVE  EInv'
<1>1. CASE Edge
  BY <1>1, EdgeInOrder
<1>2. CASE WriteResult \/ Execute
  BY <1>2, LaterStagesKeep
<1>3. CASE SendTableRuns
  BY <1>3, LaterStagesKeep, SurroundingsInOrder DEF SendTableRuns, SendTable
<1>4. CASE Decode
  BY <1>4, DecodeStepsInOrder
<1>5. CASE Tick
  <2>1. NotHeldUp \/ UNCHANGED vars
    BY <1>5
  <2>. QED BY <1>5, <2>1, TickInOrder, SurroundingsInOrder
<1>6. CASE Environment \/ Nxipk \/ UNCHANGED vars
  BY <1>6, SurroundingsInOrder
<1>. QED BY <1>1, <1>2, <1>3, <1>4, <1>5, <1>6 DEF Next, Stages

-----------------------------------------------------------------------------
(* t is s with more after it.                                                    *)
Continues(s, t, S) == \E more \in Seq(S) : t = s \o more

(* Effects that are followed by others.                                          *)
LEMMA ContinuesIs ==
    ASSUME NEW S, NEW s \in Seq(S), NEW t \in Seq(S)
    PROVE  /\ Continues(s, s, S)
           /\ \A a \in S : Continues(s, Append(s, a), S)
           /\ Continues(s, s \o t, S)
           /\ Continues(s, t, S) => Order!IsPrefix(s, t)
<1>1. <<>> \in Seq(S) /\ s = s \o <<>>
  OBVIOUS
<1>2. \A a \in S : <<a>> \in Seq(S) /\ Append(s, a) = s \o <<a>>
  OBVIOUS
<1>3. \A more \in Seq(S) : Len(s) <= Len(s \o more) /\ SubSeq(s \o more, 1, Len(s)) = SubSeq(s, 1, Len(s))
  OBVIOUS
<1>4. Continues(s, s, S) /\ Continues(s, s \o t, S)
  BY <1>1 DEF Continues
<1>5. ASSUME NEW a \in S PROVE Continues(s, Append(s, a), S)
  BY <1>2 DEF Continues
<1>6. ASSUME Continues(s, t, S) PROVE Order!IsPrefix(s, t)
  BY <1>3, <1>6 DEF Continues, Order!IsPrefix
<1>. QED BY <1>4, <1>5, <1>6

(* And by others yet.                                                            *)
LEMMA ContinuesOn ==
    ASSUME NEW S, NEW s \in Seq(S), NEW t \in Seq(S), NEW u \in Seq(S), Continues(s, t, S), Continues(t, u, S)
    PROVE  Continues(s, u, S)
<1>1. PICK v \in Seq(S) : t = s \o v
  BY DEF Continues
<1>2. PICK m \in Seq(S) : u = t \o m
  BY DEF Continues
<1>3. (s \o v) \o m = s \o (v \o m) /\ v \o m \in Seq(S)
  OBVIOUS
<1>. QED BY <1>1, <1>2, <1>3 DEF Continues

(* A step of the core in order adds to its effects.                              *)
LEMMA StepContinues ==
    ASSUME NEW s \in Machine, NEW ins \in Instructions, NEW e \in Issues, NEW t, t = Core!Step(s, ins, e)
    PROVE  /\ t \in Machine
           /\ Continues(s.computed, t.computed, Computations)
           /\ Continues(s.fetched, t.fetched, Fetched)
           /\ Continues(s.sent, t.sent, Packets)
<1>1. t \in Machine
  BY StepIs
<1>2. /\ s.computed \in Seq(Computations) /\ s.fetched \in Seq(Fetched) /\ s.sent \in Seq(Packets)
      /\ s.map \in Nat /\ s.remoteMap \in Nat /\ e.i \in Nat /\ s.read \in Nat
  BY DEF Machine, Issues
<1>3. /\ Continues(s.computed, s.computed, Computations) /\ Continues(s.fetched, s.fetched, Fetched)
      /\ Continues(s.sent, s.sent, Packets)
  BY <1>2, ContinuesIs
<1>4. \A part \in {"address", "data", "result", "instruction"} : \A m \in Nat :
          [i |-> e.i, part |-> part, map |-> m] \in Packets
  BY <1>2 DEF Packets
<1>5. CASE s.remote
  <2>1. /\ t.sent = Append(s.sent, [i |-> e.i, part |-> "instruction", map |-> s.remoteMap])
        /\ t.computed = s.computed /\ t.fetched = s.fetched
    BY <1>5, StepIs, SendAwayIs
  <2>2. Continues(s.sent, t.sent, Packets)
    BY <1>2, <1>4, <2>1, ContinuesIs
  <2>. QED BY <1>1, <1>3, <2>1, <2>2
<1>6. CASE ~s.remote /\ Core!Passes(ins.pred, s.pred)
  <2>1. t = Core!Perform(s, ins, e)
    BY <1>6, StepIs
  <2> DEFINE op1 == Core!Value(s, ins.src1, s.read)
             op2 == Core!Value(s, ins.src2, s.read + ReadFirst(ins))
  <2>2. op1 \in Nat /\ op2 \in Nat
    <3>1. ins.src1 \in Regs \cup {0, Channel} /\ ins.src2 \in Regs \cup {0, Channel} /\ s.read + ReadFirst(ins) \in Nat
      BY <1>2 DEF Instructions, ReadFirst
    <3>. QED BY <1>2, <3>1, ValueIsNumber
  <2>3. /\ t.computed = IF Core!InDecode(ins.op) THEN s.computed ELSE Append(s.computed, <<e.i, op1, op2>>)
        /\ t.fetched = IF ins.op = "fetch" THEN Append(s.fetched, <<e.i, op1>>) ELSE s.fetched
        /\ t.sent = Sends(s, ins, e)
    <3>1. PICK v : v = Core!Perform(s, ins, e)
      OBVIOUS
    <3>2. /\ v.computed = IF Core!InDecode(ins.op) THEN s.computed ELSE Append(s.computed, <<e.i, op1, op2>>)
          /\ v.fetched = IF ins.op = "fetch" THEN Append(s.fetched, <<e.i, op1>>) ELSE s.fetched
          /\ v.sent = Sends(s, ins, e)
      BY <3>1, PerformIs
    <3>. QED BY <2>1, <3>1, <3>2
  <2> HIDE DEF op1, op2
  <2>4. <<e.i, op1, op2>> \in Computations /\ <<e.i, op1>> \in Fetched
    BY <1>2, <2>2 DEF Computations, Fetched
  <2>5. Continues(s.computed, t.computed, Computations)
    BY <1>2, <1>3, <2>3, <2>4, ContinuesIs
  <2>6. Continues(s.fetched, t.fetched, Fetched)
    BY <1>2, <1>3, <2>3, <2>4, ContinuesIs
  <2>7. Continues(s.sent, t.sent, Packets)
    <3>1. CASE ins.to = "none" \/ ins.op = "rmtexecute"
      BY <1>3, <2>3, <3>1 DEF Sends
    <3>2. CASE ~(ins.to = "none" \/ ins.op = "rmtexecute") /\ ins.op = "store"
      <4>1. PICK p \in Packets, q \in Packets : t.sent = Append(Append(s.sent, p), q)
        BY <1>2, <1>4, <2>3, <3>2 DEF Sends
      <4>2. Append(s.sent, p) \in Seq(Packets) /\ Append(Append(s.sent, p), q) \in Seq(Packets)
        BY <1>2
      <4>3. Continues(s.sent, Append(s.sent, p), Packets)
        BY <1>2, ContinuesIs
      <4>4. Continues(Append(s.sent, p), Append(Append(s.sent, p), q), Packets)
        BY <4>2, ContinuesIs
      <4>. QED BY <1>2, <4>1, <4>2, <4>3, <4>4, ContinuesOn
    <3>3. CASE ~(ins.to = "none" \/ ins.op = "rmtexecute") /\ ins.op # "store"
      <4>1. t.sent = Append(s.sent, [i |-> e.i, part |-> "result", map |-> s.map])
        BY <2>3, <3>3 DEF Sends
      <4>. QED BY <1>2, <1>4, <4>1, ContinuesIs
    <3>. QED BY <3>1, <3>2, <3>3
  <2>. QED BY <1>1, <2>5, <2>6, <2>7
<1>7. CASE ~s.remote /\ ~Core!Passes(ins.pred, s.pred)
  BY <1>1, <1>3, <1>7, StepIs
<1>. QED BY <1>5, <1>6, <1>7

(* The pipeline's effects are those of the core in order so far.                 *)
LEMMA InOrderSoFar ==
    ASSUME PInv, EInv
    PROVE  EffectsInOrder
<1>1. /\ Behind(Before) /\ Before \in Machine /\ Due \in Machine
      /\ computed \in Seq(Computations) /\ sent \in Seq(Packets) /\ InTable \in Seq(Packets)
      /\ program \in Programs /\ ExecuteInOrder
  BY DEF EInv, IssuedInOrder, ExecuteInOrder, PInv, ReadOnce
<1>2. PICK s \in Machine : s = Before
  BY <1>1
<1>3. PICK t \in Machine : t = Due
  BY <1>1
<1>4. /\ s.computed \in Seq(Computations) /\ s.fetched \in Seq(Fetched) /\ s.sent \in Seq(Packets)
      /\ t.computed \in Seq(Computations) /\ t.fetched \in Seq(Fetched) /\ t.sent \in Seq(Packets)
  BY <1>2, <1>3 DEF Machine
<1>5. Behind(s)
  BY <1>1, <1>2
<1>6. Continues(computed, s.computed, Computations)
  <2>1. CASE s.computed = computed
    BY <1>1, <2>1, ContinuesIs
  <2>2. CASE s.computed # computed
    <3>1. PICK c : s.computed = Append(computed, c)
      BY <1>5, <2>2 DEF Behind
    <3>2. \A u \in Seq(Computations) : \A a : Append(u, a) \in Seq(Computations) => a \in Computations
      <4>1. SUFFICES ASSUME NEW u \in Seq(Computations), NEW a, Append(u, a) \in Seq(Computations)
                     PROVE  a \in Computations
        OBVIOUS
      <4>2. u \in Seq(Computations \cup {a}) /\ a \in Computations \cup {a}
        OBVIOUS
      <4>3. Len(Append(u, a)) = Len(u) + 1 /\ Append(u, a)[Len(u) + 1] = a /\ Len(u) \in Nat
        BY <4>2
      <4>. QED BY <4>1, <4>3
    <3>3. c \in Computations
      BY <1>1, <1>4, <3>1, <3>2
    <3>. QED BY <1>1, <3>1, <3>3, ContinuesIs
  <2>. QED BY <2>1, <2>2
<1>7. Continues(sent, s.sent, Packets)
  <2>1. ToSend \in Seq(Packets) \/ ~Passing
    <3>1. SUFFICES ASSUME Passing PROVE ToSend \in Seq(Packets)
      OBVIOUS
    <3>2. x.i \in Nat /\ x.map \in Nat
      <4>1. Shaped(x)
        BY <1>1, <3>1 DEF ExecuteInOrder, Passing, Executed
      <4>2. program \in Seq(Instructions)
        BY <1>1, ProgramsAssumption
      <4>. QED BY <4>1, <4>2 DEF Shaped
    <3>3. \A part \in {"address", "data", "result", "instruction"} : Packet(x, part) \in Packets
      BY <3>2 DEF Packet, Packets
    <3>4. CASE x.remote
      BY <3>3, <3>4 DEF ToSend
    <3>5. CASE ~x.remote /\ x.to = "none"
      BY <3>3, <3>5 DEF ToSend
    <3>6. CASE ~x.remote /\ x.to # "none" /\ x.op = "store"
      BY <3>3, <3>6 DEF ToSend
    <3>7. CASE ~x.remote /\ x.to # "none" /\ x.op # "store"
      BY <3>3, <3>7 DEF ToSend
    <3>. QED BY <3>4, <3>5, <3>6, <3>7
  <2>2. PICK more \in Seq(Packets) : s.sent = (sent \o InTable) \o more
    <3>1. s.sent = (sent \o InTable) \o (IF Passing THEN ToSend ELSE <<>>)
      BY <1>5 DEF Behind
    <3>2. (IF Passing THEN ToSend ELSE <<>>) \in Seq(Packets)
      BY <2>1
    <3>. QED BY <3>1, <3>2
  <2>3. sent \o InTable \in Seq(Packets)
    BY <1>1
  <2>4. Continues(sent, sent \o InTable, Packets) /\ Continues(sent \o InTable, s.sent, Packets)
    BY <1>1, <2>2, <2>3, ContinuesIs
  <2>. QED BY <1>1, <1>4, <2>3, <2>4, ContinuesOn
<1>8. Continues(fetched, s.fetched, Fetched) /\ fetched \in Seq(Fetched)
  BY <1>4, <1>5, ContinuesIs DEF Behind
<1>9. /\ Continues(s.computed, t.computed, Computations)
      /\ Continues(s.fetched, t.fetched, Fetched)
      /\ Continues(s.sent, t.sent, Packets)
  <2>1. CASE r1 = <<>>
    <3>1. t = s
      BY <1>2, <1>3, <2>1 DEF Before
    <3>. QED BY <1>4, <3>1, ContinuesIs
  <2>2. CASE r1 # <<>>
    <3>1. Due = Core!Step(Before, program[r1[1].i], [i |-> r1[1].i, outcome |-> r1[1].outcome])
      BY <2>2, DueIs DEF EInv
    <3>2. Decoded(r1[1]) /\ r1[1].i \in 1..Len(program) /\ r1[1].outcome \in BOOLEAN
      BY <2>2 DEF EInv, IssuedInOrder, Decoded, Shaped, Valid
    <3>3. program \in Seq(Instructions)
      BY <1>1, ProgramsAssumption
    <3>4. program[r1[1].i] \in Instructions /\ [i |-> r1[1].i, outcome |-> r1[1].outcome] \in Issues
      BY <3>2, <3>3 DEF Issues
    <3>5. PICK ins \in Instructions, e \in Issues :
             ins = program[r1[1].i] /\ e = [i |-> r1[1].i, outcome |-> r1[1].outcome]
      BY <3>4
    <3>6. t = Core!Step(s, ins, e)
      BY <1>2, <1>3, <3>1, <3>5
    <3>. QED BY <1>2, <3>5, <3>6, StepContinues
  <2>. QED BY <2>1, <2>2
<1>10. Order!IsPrefix(computed, t.computed)
  BY <1>1, <1>4, <1>6, <1>9, ContinuesOn, ContinuesIs
<1>11. Order!IsPrefix(fetched, t.fetched)
  BY <1>4, <1>8, <1>9, ContinuesOn, ContinuesIs
<1>12. Order!IsPrefix(sent, t.sent)
  BY <1>1, <1>4, <1>7, <1>9, ContinuesOn, ContinuesIs
<1>13. Empty => regs = t.regs /\ pred = t.pred /\ map = t.map /\ Len(sent) = Len(t.sent)
  <2>1. SUFFICES ASSUME Empty PROVE regs = t.regs /\ pred = t.pred /\ map = t.map /\ Len(sent) = Len(t.sent)
    OBVIOUS
  <2>2. t = s /\ ~Passing /\ Written = regs /\ InTable = <<>>
    BY <1>2, <1>3, <2>1 DEF Empty, Before, Passing, Active, Written, Arriving, InTable
  <2>3. (sent \o <<>>) \o <<>> = sent
    BY <1>1
  <2>. QED BY <1>5, <2>2, <2>3 DEF Behind
<1>. QED BY <1>3, <1>10, <1>11, <1>12, <1>13 DEF EffectsInOrder, Due

(* What is computed, fetched and sent, and what the registers come to, is as if  *)
(* each instruction were finished before the next (EffectsInOrder), in programs   *)
(* that are Ordinary and as long as the fixed time a fetch waits for a result is   *)
(* enough.                                                                        *)
THEOREM EffectsAreInOrder ==
    ASSUME \A p \in Programs : Ordinary(p)
    PROVE  Spec /\ FetchesInTime => []EffectsInOrder
<1>1. Init => PInv /\ EInv
  BY InitInv, InitInOrder
<1>2. PInv /\ EInv /\ [Next]_vars /\ [Tick => NotHeldUp]_vars => (PInv /\ EInv)'
  <2>1. SUFFICES ASSUME PInv, EInv, [Next]_vars, [Tick => NotHeldUp]_vars PROVE PInv' /\ EInv'
    OBVIOUS
  <2>2. PInv'
    BY <2>1, NextInv
  <2>3. Given
    BY <2>1, <2>2 DEF Given, PInv, ReadOnce
  <2>. QED BY <2>1, <2>2, <2>3, NextInOrder
<1>3. PInv /\ EInv => EffectsInOrder
  BY InOrderSoFar
<1>. QED BY <1>1, <1>2, <1>3, PTL DEF Spec, FetchesInTime
=============================================================================
