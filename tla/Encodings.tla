------------------------------ MODULE Encodings ------------------------------
(***************************************************************************)
(* What happens to a value on its way through the encodings of the         *)
(* simulator.  A behaviour follows one value:                              *)
(*   - a line of assembly becomes a word, an instruction, the text the     *)
(*     trace prints, and a word again;                                     *)
(*   - two operands go through the arithmetic unit (Execute/ALU) and the   *)
(*     predicate register;                                                 *)
(*   - a channel map entry is written (ChannelMapEntry) and an instruction *)
(*     sends its flits through it (ExecuteStage, DecodedInst, Flit);       *)
(*   - the identifier of a component becomes a number and an identifier    *)
(*     again (Identifier, Encoding, Chip);                                 *)
(*   - a message goes from a core to where its address leads, and a request*)
(*     to memory is answered, at once or after a miss (Chip);              *)
(*   - a core's instructions become accesses of magic memory (MagicMemory);*)
(*   - the events of requests and instructions are counted (Statistics).   *)
(***************************************************************************)
EXTENDS Statistics, MagicMemory, Chip

CONSTANTS
  WordBits,        \* bits of the arithmetic unit's words (32 in the source)
  CORES_PER_TILE,  \* cores of the tile that sends
  Addresses,       \* byte addresses a memory instruction may form
  TileWidths,      \* columns of compute tiles, of the chips tried
  CoreCounts,      \* cores per tile, of the chips tried
  MemoryCounts     \* memory banks per tile, of the chips tried

ASSUME EncodingConstants ==
  /\ WordBits \in 2..8 /\ CORES_PER_TILE \in 1..8
  /\ Addresses \subseteq Nat /\ TileWidths \subseteq 1..6
  /\ CoreCounts \subseteq 1..8 /\ MemoryCounts \subseteq 1..8

VARIABLES
  stage,    \* what the value is now
  text, word, inst, \* a line, the word it became, the instruction decoded
  first,    \* the instruction decoded before the text was printed
  alu,      \* an operation of the arithmetic unit
  cmt,      \* a channel map entry and what is sent through it
  sent,     \* the flits sent
  place,    \* a component of a chip, and its codes
  trip,     \* a message on its way through the tiles of a chip
  magic,    \* main memory, what a core's memory instructions have made of it, and
            \* the instructions it has still to issue
  counts    \* the statistics, the events they are made from, and the next of them

vars == <<stage, text, word, inst, first, alu, cmt, sent, place, trip, magic, counts>>
-----------------------------------------------------------------------------
(* The arithmetic unit.  Words are two's complement numbers.               *)

Words == -(2^(WordBits - 1))..(2^(WordBits - 1) - 1)
Unsigned(v) == v % 2^WordBits
Signed(u) == IF u % 2^WordBits >= 2^(WordBits - 1) THEN (u % 2^WordBits) - 2^WordBits
             ELSE u % 2^WordBits

Functions == 0..14 \cup 16..20
FunctionName(f) ==
  <<"NOR", "AND", "OR", "XOR", "SETEQ", "SETNE", "SETLT", "SETLTU", "SETGTE", "SETGTEU",
    "SLL", "SRL", "SRA", "ADDU", "SUBU", "", "PSEL", "MULHW", "MULLW", "MULHWU", "CLZ">>[f + 1]

Truth(b) == IF b THEN 1 ELSE 0

(* Copies the highest set bit into every lower position, by shifts of 1,   *)
(* 2, 4 and so on; the shifts are arithmetic because the value is signed.  *)
Smear(v) ==
  FoldLeft(LAMBDA x, k : Signed(Unsigned(x) | Unsigned(x \div 2^k)), v,
           SelectSeq(<<1, 2, 4, 8, 16>>, LAMBDA k : k < WordBits))
popcount(u) == Cardinality({b \in 0..(WordBits - 1) : (u \div 2^b) % 2 = 1})

(* ALU::execute, the operation itself: a shift by less than zero or by the *)
(* width of the word and more has no defined result.                       *)
Calculate(f, a, b, pred) ==
  LET u == Unsigned(a)
      v == Unsigned(b)
  IN  CASE f = "NOR" -> Signed(-1 - (u | v))
        [] f = "AND" -> Signed(u & v)
        [] f = "OR" -> Signed(u | v)
        [] f = "XOR" -> Signed(u ^^ v)
        [] f = "SETEQ" -> Truth(a = b)
        [] f = "SETNE" -> Truth(a # b)
        [] f = "SETLT" -> Truth(a < b)
        [] f = "SETLTU" -> Truth(u < v)
        [] f = "SETGTE" -> Truth(a >= b)
        [] f = "SETGTEU" -> Truth(u >= v)
        [] f = "SLL" -> Signed(u * 2^b)
        [] f = "SRL" -> Signed(u \div 2^b)
        [] f = "SRA" -> Signed(a \div 2^b)
        [] f = "ADDU" -> Signed(a + b)
        [] f = "SUBU" -> Signed(a - b)
        [] f = "PSEL" -> IF pred THEN a ELSE b
        [] f = "MULHW" -> Signed((a * b) \div 2^WordBits)
        [] f = "MULLW" -> Signed(a * b)
        [] f = "MULHWU" -> Signed((u * v) \div 2^WordBits)
        [] f = "CLZ" -> WordBits - popcount(Unsigned(Smear(a)))

Undefined(f, b) == f \in {"SLL", "SRL", "SRA"} /\ b \notin 0..(WordBits - 1)

getFunctionLatency(f) == IF f \in {"MULHW", "MULHWU", "MULLW"} THEN 1 ELSE 0

(* ExecuteStage::updatePredicate: the carry of an addition, the borrow of  *)
(* a subtraction, the lowest bit of anything else.                         *)
updatePredicate(f, a, b, result) ==
  CASE f = "ADDU" -> (Unsigned(a) + Unsigned(b)) \div 2^WordBits # 0
    [] f = "SUBU" -> Unsigned(a) < Unsigned(b)
    [] OTHER -> result % 2 = 1

NoAlu == [function |-> "", val1 |-> 0, val2 |-> 0, pred |-> FALSE, newPred |-> FALSE,
          cyclesRemaining |-> 0, cycles |-> 0, result |-> 0]

(* One call: a multiplication uses up its latency before it is computed.   *)
Execute ==
  /\ stage = "operands"
  /\ LET cycles == IF alu.cyclesRemaining > 0 THEN alu.cyclesRemaining - 1
                   ELSE getFunctionLatency(alu.function)
     IN  IF cycles > 0
         THEN /\ alu' = [alu EXCEPT !.cyclesRemaining = cycles, !.cycles = @ + 1]
              /\ UNCHANGED stage
         ELSE /\ \E r \in IF Undefined(alu.function, alu.val2) THEN Words
                          ELSE {Calculate(alu.function, alu.val1, alu.val2, alu.pred)} :
                   alu' = [alu EXCEPT !.cyclesRemaining = 0, !.cycles = @ + 1, !.result = r,
                                      !.newPred = updatePredicate(alu.function, alu.val1,
                                                                  alu.val2, r)]
              /\ stage' = "result"
  /\ UNCHANGED <<text, word, inst, first, cmt, sent, place, trip, magic, counts>>
-----------------------------------------------------------------------------
(* Channel map entries: three views of one word.                           *)

Field(v, shift, bits) == (v \div 2^shift) % 2^bits

isGlobal(e) == Field(e, 0, 1) = 1
isMemory(e) == ~isGlobal(e) /\ Field(e, 1, 1) = 1
MulticastChannel(e) == [pipelineStallMode |-> Field(e, 13, 1), coreMask |-> Field(e, 5, 8),
                        channel |-> Field(e, 2, 3)]
MemoryChannel(e) ==
  [scratchpadL1 |-> Field(e, 15, 1), l2Skip |-> Field(e, 14, 1), l1Skip |-> Field(e, 13, 1),
   groupSize |-> Field(e, 11, 2), returnChannel |-> Field(e, 8, 3), bank |-> Field(e, 5, 3),
   channel |-> Field(e, 2, 3)]
GlobalChannel(e) ==
  [creditWriteEnable |-> Field(e, 20, 1), credits |-> Field(e, 14, 6),
   tileX |-> Field(e, 11, 3), tileY |-> Field(e, 8, 3), core |-> Field(e, 5, 3),
   channel |-> Field(e, 2, 3), acquired |-> Field(e, 1, 1)]

flattenMemory(m) ==
  m.scratchpadL1 * 2^15 + m.l2Skip * 2^14 + m.l1Skip * 2^13 + m.groupSize * 2^11
  + m.returnChannel * 2^8 + (m.bank % 8) * 2^5 + m.channel * 2^2 + 2
flattenGlobal(g) ==
  g.creditWriteEnable * 2^20 + g.credits * 2^14 + g.tileX * 2^11 + g.tileY * 2^8
  + g.core * 2^5 + g.channel * 2^2 + g.acquired * 2 + 1

(* Faulty variant: takes over the new word's count of credits always. *)
writeOverCredits(old, data) ==
  IF ~isGlobal(data) THEN data
  ELSE flattenGlobal([GlobalChannel(data) EXCEPT !.creditWriteEnable = 0])

(* ChannelMapEntry::write.  The old count is read from the old word with   *)
(* the global view, whatever the old word was.                             *)
write(old, data) ==
  IF ~isGlobal(data) THEN data
  ELSE LET g == GlobalChannel(data)
       IN  flattenGlobal([g EXCEPT !.creditWriteEnable = 0,
                            !.credits = IF g.creditWriteEnable = 1 THEN @
                                        ELSE GlobalChannel(old).credits])

(* Where the channel map says an entry leads.                              *)
getDestination(e, tile) ==
  CASE isGlobal(e) -> LET g == GlobalChannel(e) IN ChannelTo(g.tileX, g.tileY, g.core, g.channel)
    [] isMemory(e) -> ChannelTo(tile[1], tile[2], MemoryChannel(e).bank + CORES_PER_TILE,
                                MemoryChannel(e).channel)
    [] OTHER -> MulticastTo(MulticastChannel(e).coreMask, MulticastChannel(e).channel)

(* Where the decoded instruction says it leads: the tile of a memory is    *)
(* filled in when the flit is made.                                        *)
networkDestination(e) ==
  CASE e = 0 -> NullMapping
    [] isGlobal(e) -> LET g == GlobalChannel(e) IN ChannelTo(g.tileX, g.tileY, g.core, g.channel)
    [] isMemory(e) -> ChannelTo(0, 0, MemoryChannel(e).bank + CORES_PER_TILE,
                                MemoryChannel(e).channel)
    [] OTHER -> MulticastTo(MulticastChannel(e).coreMask, MulticastChannel(e).channel)

getMemoryGroupSize(e) == IF isMemory(e) THEN 2^MemoryChannel(e).groupSize ELSE 1

computeAddressIncrement(e, address) ==
  (address % (getMemoryGroupSize(e) * LineBytes)) \div LineBytes
-----------------------------------------------------------------------------
(* Flits and their metadata.                                               *)

OpcodeOfMemoryOp ==
  [LOAD_W |-> 1, LOAD_LINKED |-> 3, LOAD_HW |-> 5, LOAD_B |-> 7, STORE_W |-> 0,
   STORE_CONDITIONAL |-> 2, STORE_HW |-> 4, STORE_B |-> 6, LOAD_AND_ADD |-> 16,
   LOAD_AND_OR |-> 18, LOAD_AND_AND |-> 20, LOAD_AND_XOR |-> 22, EXCHANGE |-> 24,
   PAYLOAD_EOP |-> 31]

(* The memory operation the decoder gives each instruction.                *)
memoryOp ==
  [ldw |-> "LOAD_W", ldhwu |-> "LOAD_HW", ldbu |-> "LOAD_B", ldl |-> "LOAD_LINKED",
   stw |-> "STORE_W", sthw |-> "STORE_HW", stb |-> "STORE_B", stc |-> "STORE_CONDITIONAL",
   ldadd |-> "LOAD_AND_ADD", ldor |-> "LOAD_AND_OR", ldand |-> "LOAD_AND_AND",
   ldxor |-> "LOAD_AND_XOR", exchange |-> "EXCHANGE"]
TwoFlitOps == {"stw", "sthw", "stb", "stc", "ldadd", "ldor", "ldand", "ldxor", "exchange"}

MemoryMetadata(flat) ==
  [returnTileX |-> Field(flat, 14, 3), returnTileY |-> Field(flat, 11, 3),
   returnChannel |-> Field(flat, 8, 3), scratchpad |-> Field(flat, 7, 1),
   skipL2 |-> Field(flat, 6, 1), skipL1 |-> Field(flat, 5, 1), opcode |-> Field(flat, 0, 5)]
CoreMetadata(flat) ==
  [acquired |-> Field(flat, 2, 1), allocate |-> Field(flat, 1, 1),
   endOfPacket |-> Field(flat, 0, 1)]
endOfPacket(flat) == Field(flat, 0, 1) = 1

(* The constructors of flits to a memory bank and to a core.               *)
flattenToMemory(m, op, eop) ==
  m.returnChannel * 2^8 + m.scratchpadL1 * 2^7 + m.l2Skip * 2^6 + m.l1Skip * 2^5
  + (OpcodeOfMemoryOp[op] | Truth(eop))
flattenToCore(acquired, allocate, eop) == acquired * 4 + Truth(allocate) * 2 + Truth(eop)

(* DecodedInst::toNetworkData.  No instruction sets the port claim: claims *)
(* are made with sendconfig, whose immediate is the metadata.              *)
toNetworkData(payload, e, tile, op, eop) ==
  [payload |-> payload,
   destination |-> IF isMemory(e)
                   THEN [networkDestination(e) EXCEPT !.x = tile[1], !.y = tile[2]]
                   ELSE networkDestination(e),
   metadata |->
     IF isMemory(e) THEN flattenToMemory(MemoryChannel(e), op, eop)
     ELSE flattenToCore(IF isGlobal(e) THEN GlobalChannel(e).acquired ELSE 0, FALSE, eop)]

(* ExecuteStage::adjustNetworkAddress: an address flit chooses the bank of *)
(* a group, and the payload that follows goes to the bank last chosen.     *)
adjusted(e, offset) ==
  IF isMemory(e) /\ getMemoryGroupSize(e) > 1
  THEN flattenMemory([MemoryChannel(e) EXCEPT !.bank = @ + offset]) ELSE e

NoCmt == [old |-> 0, data |-> 0, entry |-> 0, tile |-> <<0, 0>>, operation |-> "",
          base |-> 0, addressIncrement |-> 0]

(* setchmap or setchmapi.                                                  *)
WriteEntry ==
  /\ stage = "entry"
  /\ cmt' = [cmt EXCEPT !.entry = write(cmt.old, cmt.data)]
  /\ stage' = "written"
  /\ UNCHANGED <<text, word, inst, first, alu, sent, place, trip, magic, counts>>

(* Sending the address of a memory operation, or the result of another     *)
(* instruction: nothing is sent when the entry leads nowhere.              *)
SendFirst ==
  LET op == IF cmt.operation = "" THEN "LOAD_W" ELSE memoryOp[cmt.operation]
      offset == computeAddressIncrement(cmt.entry, cmt.base)
      last == cmt.operation \notin TwoFlitOps
  IN  /\ stage = "written"
      /\ sent' = IF networkDestination(cmt.entry) = NullMapping THEN sent
                 ELSE Append(sent, toNetworkData("first", adjusted(cmt.entry, offset),
                                                 cmt.tile, op, last))
      /\ cmt' = IF getMemoryGroupSize(cmt.entry) > 1
                THEN [cmt EXCEPT !.addressIncrement = offset] ELSE cmt
      /\ stage' = IF last THEN "sent" ELSE "payload"
      /\ UNCHANGED <<text, word, inst, first, alu, place, trip, magic, counts>>

(* The second cycle of a store: the data follow as a payload.              *)
SendPayload ==
  /\ stage = "payload"
  /\ sent' = IF networkDestination(cmt.entry) = NullMapping THEN sent
             ELSE Append(sent, toNetworkData("data", adjusted(cmt.entry, cmt.addressIncrement),
                                             cmt.tile, "PAYLOAD_EOP", TRUE))
  /\ stage' = "sent"
  /\ UNCHANGED <<text, word, inst, first, alu, cmt, place, trip, magic, counts>>
-----------------------------------------------------------------------------
(* Identifiers as numbers.                                                 *)

bitsRequired(value) == CHOOSE b \in 1..16 :
  /\ 2^(b - 1) >= value
  /\ \A c \in 1..(b - 1) : 2^(c - 1) < value

LargerOf(a, b) == IF a >= b THEN a ELSE b

SoftwareEncoding == [x |-> 3, y |-> 3, position |-> 4, coreMask |-> 8, channel |-> 3]
(* From the parameters of the chip; a border of tiles surrounds the        *)
(* compute tiles, and there are 8 input and 16 output channels.            *)
hardwareEncoding(chip) ==
  [x |-> bitsRequired(chip.width + 1), y |-> bitsRequired(chip.height + 1),
   position |-> bitsRequired(LargerOf(chip.cores, chip.memories) - 1),
   coreMask |-> chip.cores, channel |-> bitsRequired(15)]

flattenTile(x, y, e) == (x * 2^e.y) | y
flattenComponent(id, e) == (flattenTile(id.x, id.y, e) * 2^e.position) | id.position
flattenChannel(id, e) ==
  LET component == flattenComponent(id, e) * 2^(e.coreMask + 1 + e.channel)
      mask == id.coremask * 2^(1 + e.channel)
      flag == Truth(id.multicast) * 2^e.channel
  IN  ((component | mask) | flag) | id.channel

unflatten(flat, e) ==
  LET tile == Field(flat, e.channel + 1 + e.coreMask + e.position, e.x + e.y)
  IN  [multicast |-> Field(flat, e.channel, 1) = 1,
       coremask |-> Field(flat, e.channel + 1, e.coreMask),
       x |-> Field(tile, e.y, e.x), y |-> Field(tile, 0, e.y),
       position |-> Field(flat, e.channel + 1 + e.coreMask, e.position),
       channel |-> Field(flat, 0, e.channel)]

NoPlace == [chip |-> [width |-> 1, height |-> 1, cores |-> 1, memories |-> 1],
            id |-> NullMapping, hardware |-> 0, software |-> 0, index |-> 0, ofKind |-> 0,
            lines |-> <<>>, group |-> 1, stored |-> <<>>]

Flatten ==
  /\ stage = "identifier"
  /\ place' = [place EXCEPT !.hardware = flattenChannel(place.id, hardwareEncoding(place.chip)),
                            !.software = flattenChannel(place.id, SoftwareEncoding),
                            !.index = globalComponentIndex(place.chip, place.id),
                            !.ofKind = IF isCore(place.chip, place.id)
                                       THEN globalCoreIndex(place.chip, place.id)
                                       ELSE globalMemoryIndex(place.chip, place.id)]
  /\ stage' = "code"
  /\ UNCHANGED <<text, word, inst, first, alu, cmt, sent, trip, magic, counts>>

(* Two lines are kept: each in the bank of the group that its address      *)
(* chooses, at the position the bank chooses.                              *)
StoreLines ==
  /\ stage = "lines"
  /\ place' = [place EXCEPT !.stored =
                 [k \in DOMAIN place.lines |->
                    [bank |-> place.lines[k] % place.group,
                     slot |-> getSlot(place.lines[k], place.chip.memories)]]]
  /\ stage' = "stored"
  /\ UNCHANGED <<text, word, inst, first, alu, cmt, sent, trip, magic, counts>>
-----------------------------------------------------------------------------
(* Messages on their way, one network at a time.                           *)

NoTrip == [message |-> <<>>]
Arrived(m) == \A p \in m.places : p.at \in {"core", "credits", "nowhere"}

Travel ==
  /\ stage = "travelling"
  /\ \E p \in trip.message.places : \E m \in NextPlaces(trip.chip, trip.message, p) :
       /\ trip' = [trip EXCEPT !.message = m, !.path = @ \cup {p}]
       /\ stage' = IF Arrived(m) THEN "arrived" ELSE stage
  /\ UNCHANGED <<text, word, inst, first, alu, cmt, sent, place, magic, counts>>
-----------------------------------------------------------------------------
(* The memory instructions of a core with magic memory: a sendconfig, or   *)
(* one that makes a whole request.                                         *)

NoMagic == [script |-> <<>>]

IssueInstruction ==
  /\ stage = "issue"
  /\ LET i == Head(magic.script)
         s == IF i.sendconfig THEN sendConfig(magic.state, i.op, i.result)
              ELSE memoryInstruction(magic.state, i.op, i.result, i.operand1)
     IN  /\ magic' = [magic EXCEPT !.state = s, !.script = Tail(@)]
         /\ stage' = IF s.failed THEN "failed" ELSE IF Len(magic.script) = 1 THEN "issued"
                     ELSE stage
  /\ UNCHANGED <<text, word, inst, first, alu, cmt, sent, place, trip, counts>>
-----------------------------------------------------------------------------
(* The events of requests and instructions, one in each cycle.             *)

NoCounts == [events |-> <<>>]

CountEvent ==
  /\ stage = "counting"
  /\ LET n == counts.next
     IN  /\ counts' = [counts EXCEPT !.state = [Records(@, counts.events[n]) EXCEPT !.now = @ + 1],
                                     !.next = n + 1]
         /\ stage' = IF n = Len(counts.events) THEN "counted" ELSE stage
  /\ UNCHANGED <<text, word, inst, first, alu, cmt, sent, place, trip, magic>>
-----------------------------------------------------------------------------
(* From text to instruction and back.                                      *)

NoText == [predicate |-> "ALWAYS", name |-> <<>>, operands |-> <<>>, channel |-> NO_CHANNEL]
NoInst == [opcode |-> -1]

(* The names of the operations in parts: a base, which may be followed by  *)
(* "p", "fetch" or "fetchr".                                               *)
Suffixed == {<<n, s>> : n \in Names, s \in {"p", "fetch", "fetchr"}}
Mnemonics == {m \in {<<n>> : n \in Names \ {Join(m) : m \in Suffixed}} \cup Suffixed :
                Join(m) \in Names}
PartsOf == [n \in Names |-> CHOOSE m \in Mnemonics : Join(m) = n]

AssembleLine ==
  /\ stage = "text"
  /\ IF Assembles(text)
     THEN word' = Assemble(text) /\ stage' = "word"
     ELSE UNCHANGED word /\ stage' = "rejected"
  /\ UNCHANGED <<text, inst, first, alu, cmt, sent, place, trip, magic, counts>>

DecodeWord ==
  /\ stage = "word"
  /\ inst' = Decode(word)
  /\ stage' = "inst"
  /\ UNCHANGED <<text, word, first, alu, cmt, sent, place, trip, magic, counts>>

PrintInstruction ==
  /\ stage = "inst" /\ first = NoInst
  /\ first' = inst
  /\ text' = print(inst, PartsOf[name(inst.opcode, inst.function)])
  /\ stage' = "text"
  /\ UNCHANGED <<word, inst, alu, cmt, sent, place, trip, magic, counts>>
-----------------------------------------------------------------------------
(* The values that are followed.                                           *)

(* Immediates of the operation at the ends of their range, and one inside; *)
(* for lli, a multicast address as assembly names it.                      *)
ImmediatesOf(op) ==
  LET n == immediateLength(format(op))
  IN  IF op \notin hasImmediate THEN {0}
      ELSE IF op = OP_LLI THEN {0, 2^n - 1, MulticastAddress(6, 2)}
      ELSE IF op \in hasSignedImmediate \ Formats.FMT_2Rs
           THEN {-(2^(n - 1)), -1, 2^(n - 1) - 1} ELSE {0, 5, 2^n - 1}

(* The operands as the comments of ISA.h list them, except that the number *)
(* of a channel map entry is written before the register.                  *)
OperandsOf(op, regs, v) ==
  LET count == Cardinality({f \in {hasDestReg, hasSrcReg1, hasSrcReg2} : op \in f})
      imm == IF op \in hasImmediate THEN <<Immediate(v)>> ELSE <<>>
      registers == [i \in 1..count |-> Reg(regs[i])]
  IN  CASE op = 82 -> imm \o registers
        [] op \in LoadOps -> <<Address(v, regs[1])>>
        [] op \in StoreOps -> <<Reg(regs[1]), Address(v, regs[2])>>
        [] op = OP_PSEL_FETCHR -> <<Immediate(3), Immediate(v)>>
        [] OTHER -> registers \o imm

Lines ==
  UNION {LET op == OpcodeOf[Join(m)]
         IN  {[predicate |-> p, name |-> IF eop THEN Append(m, "eop") ELSE m,
               operands |-> OperandsOf(op, regs, v), channel |-> c] :
                p \in {"ALWAYS", "P", "NOT_P"}, eop \in BOOLEAN,
                regs \in {<<1, 2, 3>>, <<31, 16, 8>>}, v \in ImmediatesOf(op),
                c \in IF op \in hasRemoteChannel THEN {NO_CHANNEL, 0, 9} ELSE {NO_CHANNEL}}
         : m \in Mnemonics}

(* psel.fetchr as the compiler emits it: two immediates in one field.      *)
FetchPairs == {-(2^15), -1, 0, 2^15 - 1} \X {-64, -1, 0, 63}
FetchWord(pair) ==
  setBits(setBits(setBits(ZeroWord, 23, 29, OP_PSEL_FETCHR), 7, 22, pair[1]), 0, 6, pair[2])

MemoryWords ==
  {flattenMemory([scratchpadL1 |-> f[1], l2Skip |-> f[2], l1Skip |-> f[3], groupSize |-> g,
                  returnChannel |-> r, bank |-> b, channel |-> 3]) :
     f \in {<<0, 0, 0>>, <<1, 0, 0>>, <<0, 1, 0>>, <<0, 0, 1>>}, g \in 0..3, r \in {2, 5},
     b \in {0, 4, 7}}
GlobalWords ==
  {flattenGlobal([creditWriteEnable |-> we, credits |-> c, tileX |-> 2, tileY |-> 5,
                  core |-> 7, channel |-> 6, acquired |-> a]) :
     we \in {0, 1}, c \in {0, 63}, a \in {0, 1}}
MulticastWords == {m * 2^5 + c * 2^2 : m \in {0, 6, 255}, c \in {0, 7}}

Chips == {[width |-> w, height |-> w, cores |-> c, memories |-> m] :
            w \in TileWidths, c \in CoreCounts, m \in MemoryCounts}
ChannelsOf(chip) ==
  {ChannelTo(x, y, p, ch) : x \in 1..chip.width, y \in 1..chip.height,
                            p \in 0..(chip.cores + chip.memories - 1), ch \in {0, 7}}
  \cup {MulticastTo(mask, ch) : mask \in 1..(2^chip.cores - 1), ch \in {0, 7}}

(* Messages: from a core to cores of its tile, to a core of any tile and to*)
(* a bank of its own tile, where the channel is the core that wants the    *)
(* answer, and from an intertile unit to a core.                           *)
TripChips == {c \in Chips : c.width = 2 /\ c.cores \in {1, 3} /\ c.memories \in {2, 8}}
ComputeTilesOf(chip) == {t \in TilesOf(chip) : isComputeTile(chip, t)}
Message(id, start, tile, back) ==
  [id |-> id, places |-> {At(start, tile, 0)}, missed |-> <<>>,
   back |-> [x |-> 0, y |-> 0, channel |-> back]]
MessagesOf(chip, tile, core) ==
  LET Channels == {0, numInstructionChannels - 1, numInstructionChannels, numInputChannels - 1}
  IN  {Message(MulticastTo(mask, ch), "sender", tile, 0) :
         mask \in 1..(2^chip.cores - 1), ch \in Channels}
      \cup UNION {{Message(ChannelTo(to.x, to.y, n, ch), from, tile, 0) :
                     n \in 0..(chip.cores - 1), ch \in Channels, from \in {"sender", "creditRouter"}} :
                  to \in ComputeTilesOf(chip)}
      \cup {Message(ChannelTo(tile.x, tile.y, chip.cores + bank, core), "sender", tile, ch) :
              bank \in 0..(chip.memories - 1), ch \in Channels}

(* Requests to magic memory: main memory holds two packets in each line.   *)
InitialWords ==
  [w \in 0..(WordCount - 1) |-> IF w % 8 \in {2, 5} THEN WordRange - 1 - w
                          ELSE (w * 37 + 11) % (WordRange \div 2)]
MemoryOps ==
  {"LOAD_W", "LOAD_HW", "LOAD_B", "STORE_W", "STORE_HW", "STORE_B", "IPK_READ", "MEMSET_LINE",
   "LOAD_LINKED", "STORE_CONDITIONAL", "FETCH_LINE", "STORE_LINE"} \cup Atomics \cup NoEffect
AddressesFor(op) ==
  IF op = "IPK_READ" THEN {0, 4, 12, 24}
  ELSE IF op \in LineStores THEN {0, LineBytes} ELSE {0, 1, 6, LineBytes + 3}
RequestsOf(ops) ==
  UNION {{[op |-> op, address |-> a,
           data |-> [k \in 1..numPayloadFlits(op) |-> (d + 29 * k) % WordRange]] :
            a \in AddressesFor(op), d \in {0, WordRange - 30}} : op \in ops}
(* A request on its own, and a store of a line with another after it.      *)
RequestsTried ==
  {<<r>> : r \in RequestsOf(MemoryOps)}
  \cup {<<r, q>> : r \in RequestsOf({"STORE_LINE"}),
                   q \in RequestsOf({"STORE_W", "LOAD_HW", "IPK_READ", "EXCHANGE", "STORE_LINE"})}
OtherInstructions ==
  {[sendconfig |-> FALSE, op |-> r.op, result |-> r.address,
    operand1 |-> IF r.data = <<>> THEN 0 ELSE r.data[1]] :
     r \in RequestsOf({"STORE_B", "LOAD_W", "LOAD_AND_XOR", "STORE_LINE"})}
  \cup {[sendconfig |-> FALSE, op |-> "PAYLOAD_EOP", result |-> 9, operand1 |-> 9]}

Instructions(requests) ==
  LET Sendconfigs(r) ==
        <<[sendconfig |-> TRUE, op |-> r.op, result |-> r.address]>>
        \o [k \in 1..Len(r.data) |->
              [sendconfig |-> TRUE, op |-> IF k = Len(r.data) THEN "PAYLOAD_EOP" ELSE "PAYLOAD",
               result |-> r.data[k]]]
  IN  FlattenSeq([n \in 1..Len(requests) |-> Sendconfigs(requests[n])])

(* The events of a request: at the core, at the bank, and for each word of  *)
(* the answer.  A bank of the L1 buffers a word before it sends it, one of *)
(* the L2 reports them the other way round, and is asked by another bank.  *)
Call(call, r, message) ==
  [call |-> call, message |-> <<r.number, message>>, operation |-> r.number, at |-> r.core,
   l1 |-> r.l1, hit |-> ~r.miss, op |-> r.op, miss |-> r.miss]
AtBank(call, r, message) == [Call(call, r, message) EXCEPT !.at = r.bank]
CallsOf(r) ==
  LET flits == [k \in 1..(1 + r.payloads) |-> k]
      Each(calls(_)) == FlattenSeq([k \in DOMAIN flits |-> calls(k)])
      Answer(k) == <<AtBank("memoryBuffered", r, -k), AtBank("memorySent", r, -k)>>
      Results(k) ==
        (IF k > r.results THEN <<>>
         ELSE IF r.l1 THEN Answer(k) \o <<Call("coreReceived", r, -k)>>
         ELSE <<Answer(k)[2], Answer(k)[1]>>)
        \o IF k = 1 THEN <<>> ELSE <<AtBank("continueOperation", r, 0)>>
  IN  (IF r.l1 THEN Each(LAMBDA k : <<Call("coreBuffered", r, k)>>)
                    \o Each(LAMBDA k : <<Call("coreSent", r, k), AtBank("memoryReceived", r, k)>>)
       ELSE <<AtBank("memoryReceived", r, 1)>>)
      \o <<[call |-> "checkTags"], AtBank("startOperation", r, 0), AtBank("memoryStarted", r, 1)>>
      \o (IF r.miss THEN <<[call |-> "replaceCacheLine", valid |-> r.payloads = 0,
                            dirty |-> r.results > 1]>> ELSE <<>>)
      \o FlattenSeq([k \in 1..r.words |-> Results(k)])

Counted(op, l1, miss, payloads, words, results) ==
  [op |-> op, l1 |-> l1, miss |-> miss, payloads |-> payloads, words |-> words,
   results |-> results, number |-> 1, core |-> "core", bank |-> "bank"]
CountedRequests ==
  {Counted("LOAD_W", TRUE, FALSE, 0, 1, 1), Counted("LOAD_HW", TRUE, TRUE, 0, 1, 1),
   Counted("STORE_B", TRUE, TRUE, 1, 1, 0), Counted("EXCHANGE", TRUE, FALSE, 1, 1, 1),
   Counted("IPK_READ", TRUE, TRUE, 0, 2, 2), Counted("FETCH_LINE", FALSE, FALSE, 0, 2, 2),
   Counted("MEMSET_LINE", FALSE, TRUE, 0, 3, 0),
   Counted("UPDATE_DIRECTORY_ENTRY", FALSE, FALSE, 0, 1, 0)}
Second(r) == [r EXCEPT !.number = 2, !.bank = IF r.miss THEN "bank" ELSE "other"]
Commands == {[call |-> c] : c \in {"start", "stop", "reset"}}

(* The events of the second request among those of the first: from the k-th *)
(* event on, one of each in turn.                                          *)
RECURSIVE Alternate(_, _)
Alternate(a, b) == IF a = <<>> THEN b ELSE <<Head(a)>> \o Alternate(b, Tail(a))
TwoRequests(a, b, k) == SubSeq(a, 1, k) \o Alternate(b, SubSeq(a, k + 1, Len(a)))
With(events, k, command) == SubSeq(events, 1, k) \o <<command>> \o SubSeq(events, k + 1, Len(events))

EventsTried ==
  UNION {LET calls == CallsOf(r)
         IN  UNION {{With(With(calls, j, c), k, d) : j \in k..Len(calls)} :
                    k \in 0..Len(calls), c \in Commands, d \in Commands}
         : r \in {q \in CountedRequests : q.op \in {"LOAD_HW", "EXCHANGE", "IPK_READ", "FETCH_LINE"}}}
  \cup UNION {LET a == CallsOf(p[1])
                  b == CallsOf(Second(p[2]))
              IN  UNION {LET events == TwoRequests(a, b, k)
                         IN  {events} \cup {With(events, j, c) : j \in {4, 9} \cap 0..Len(events), c \in Commands}
                         : k \in {0, 3, 6, Len(a)} \cap 0..Len(a)}
              : p \in CountedRequests \X CountedRequests}

(* Instructions by name: those the decode stage completes, and the kinds    *)
(* the stall statistics list.                                              *)
DecodeStageNames ==
  {"rmtnxipk", "rmtexecute", "psel.fetch", "psel.fetchr", "fetch", "fetchr", "fetchpst", "fetchpstr",
   "fill", "fillr", "ibjmp", "irdr", "woche", "selch", "tstchi", "tstchi.p"}

(* An instruction, and an addition after it: decoded, and completed by the *)
(* execute stage when the decode stage has let it go, a store in two steps.*)
InstructionEvents(i, execute, willExecute) ==
  LET Complete(payload) == [call |-> "complete", instruction |-> i, execute |-> willExecute,
                            isPayload |-> payload]
  IN  <<[call |-> "decode", instruction |-> i, execute |-> execute]>>
      \o IF ~execute THEN <<>>
         ELSE IF i.opcode \in StoreOps THEN <<Complete(FALSE), Complete(TRUE)>>
         ELSE <<Complete(FALSE)>>
OfOperands(i, a, b, r) == i @@ [operand1 |-> a, operand2 |-> b, result |-> r]
LineOf(m, regs, c) ==
  LET op == OpcodeOf[Join(m)]
  IN  [predicate |-> "P", name |-> m,
       operands |-> OperandsOf(op, regs, CHOOSE v \in ImmediatesOf(op) : TRUE), channel |-> c]
CountedLines ==
  UNION {{LineOf(m, regs, c) : regs \in {<<10, 11, 12>>, <<10, 2, 0>>, <<2, 5, 2>>, <<7, 8, 3>>},
            c \in IF OpcodeOf[Join(m)] \in hasRemoteChannel THEN {NO_CHANNEL, 1, 2, 14}
                  ELSE {NO_CHANNEL}}
         : m \in Mnemonics \ {PartsOf["psel.fetchr"], PartsOf["setchmap"]}}
Addition == OfOperands(Decode(Assemble(LineOf(<<"addu">>, <<10, 11, 12>>, NO_CHANNEL))), 5, 10, 3)

NoWork(s) ==
  /\ stage = s /\ inst = NoInst /\ first = NoInst /\ sent = <<>>
  /\ s # "issue" => magic = NoMagic
  /\ s # "travelling" => trip = NoTrip
  /\ s # "counting" => counts = NoCounts

StartLine ==
  /\ NoWork("text") /\ text \in Lines /\ word = ZeroWord
  /\ alu = NoAlu /\ cmt = NoCmt /\ place = NoPlace
StartWord ==
  /\ NoWork("word") /\ text = NoText /\ word \in {FetchWord(pair) : pair \in FetchPairs}
  /\ alu = NoAlu /\ cmt = NoCmt /\ place = NoPlace
StartOperands ==
  /\ NoWork("operands") /\ text = NoText /\ word = ZeroWord
  /\ \E f \in Functions, a \in Words, b \in Words, p \in BOOLEAN :
       alu = [NoAlu EXCEPT !.function = FunctionName(f), !.val1 = a, !.val2 = b, !.pred = p]
  /\ cmt = NoCmt /\ place = NoPlace
StartEntry ==
  /\ NoWork("entry") /\ text = NoText /\ word = ZeroWord /\ alu = NoAlu /\ place = NoPlace
  /\ \E old \in {0} \cup GlobalWords \cup MulticastWords,
       new \in MemoryWords \cup GlobalWords \cup MulticastWords,
       op \in {"", "ldw", "ldhwu", "stw", "stc", "ldadd", "exchange"}, a \in Addresses :
       cmt = [NoCmt EXCEPT !.old = old, !.data = new, !.tile = <<3, 4>>, !.operation = op,
                           !.base = a]
StartIdentifier ==
  /\ NoWork("identifier") /\ text = NoText /\ word = ZeroWord /\ alu = NoAlu /\ cmt = NoCmt
  /\ \E chip \in Chips : \E id \in ChannelsOf(chip) :
       place = [NoPlace EXCEPT !.chip = chip, !.id = id]

StartLines ==
  /\ NoWork("lines") /\ text = NoText /\ word = ZeroWord /\ alu = NoAlu /\ cmt = NoCmt
  /\ \E chip \in {c \in Chips : c.cores = Max(CoreCounts) /\ c.width = 1 /\ c.memories \in {2, 4, 8}},
       group \in {1, 2, 4, 8} :
       \E l1, l2 \in 0..(2 * 8 * 2^indexBits - 1) :
         /\ group <= chip.memories
         /\ l1 \div (group * 2^indexBits) = l2 \div (group * 2^indexBits)
         /\ place = [NoPlace EXCEPT !.chip = chip, !.lines = <<l1, l2>>, !.group = group]

StartMessage ==
  /\ NoWork("travelling") /\ text = NoText /\ word = ZeroWord /\ alu = NoAlu /\ cmt = NoCmt
  /\ place = NoPlace
  /\ \E chip \in TripChips : \E tile \in ComputeTilesOf(chip), core \in 0..(chip.cores - 1) :
       \E m \in MessagesOf(chip, tile, core) :
         trip = [chip |-> chip, tile |-> tile, core |-> core, asked |-> m, message |-> m,
                 path |-> {}]

StartRequests ==
  /\ NoWork("issue") /\ text = NoText /\ word = ZeroWord /\ alu = NoAlu /\ cmt = NoCmt
  /\ place = NoPlace
  /\ \E requests \in RequestsTried, inserted \in {<<>>} \cup {<<i>> : i \in OtherInstructions} :
       \E k \in IF inserted = <<>> THEN {0} ELSE 0..Len(Instructions(requests)) :
         magic = [state |-> MagicState(InitialWords), requests |-> requests,
                  inserted |-> inserted, at |-> k,
                  script |-> SubSeq(Instructions(requests), 1, k) \o inserted
                             \o SubSeq(Instructions(requests), k + 1,
                                       Len(Instructions(requests)))]

StartEvents ==
  /\ NoWork("counting") /\ text = NoText /\ word = ZeroWord /\ alu = NoAlu /\ cmt = NoCmt
  /\ place = NoPlace
  /\ \E events \in EventsTried, c \in BOOLEAN :
       counts = [initially |-> c, state |-> NewStatistics(c, FALSE), events |-> events, next |-> 1]

StartCountedLine ==
  /\ NoWork("counting") /\ text \in CountedLines /\ word = ZeroWord /\ alu = NoAlu
  /\ cmt = NoCmt /\ place = NoPlace
  /\ \E execute \in BOOLEAN, willExecute \in BOOLEAN, energy \in BOOLEAN :
       LET i == OfOperands(Decode(Assemble(text)), 5, 9, 12)
       IN  /\ ~execute => ~willExecute
           /\ Join(text.name) \in DecodeStageNames => execute = willExecute
           /\ counts = [initially |-> TRUE, execute |-> execute, willExecute |-> willExecute,
                        state |-> NewStatistics(TRUE, energy),
                        events |-> InstructionEvents(i, execute, willExecute)
                                   \o InstructionEvents(Addition, TRUE, TRUE),
                        next |-> 1]

Init ==
  StartLine \/ StartWord \/ StartOperands \/ StartEntry \/ StartIdentifier \/ StartLines
  \/ StartMessage \/ StartRequests \/ StartEvents \/ StartCountedLine

Next ==
  \/ AssembleLine \/ DecodeWord \/ PrintInstruction
  \/ Execute
  \/ WriteEntry \/ SendFirst \/ SendPayload
  \/ Flatten \/ StoreLines \/ Travel
  \/ IssueInstruction
  \/ CountEvent

Spec == Init /\ [][Next]_vars
-----------------------------------------------------------------------------
WithoutEop(parts) == SelectSeq(parts, LAMBDA p : p # "eop")
RegistersOf(i) ==
  (IF i.opcode \in hasDestReg THEN <<i.destination>> ELSE <<>>)
  \o (IF i.opcode \in hasSrcReg1 THEN <<i.sourceReg1>> ELSE <<>>)
  \o (IF i.opcode \in hasSrcReg2 THEN <<i.sourceReg2>> ELSE <<>>)
RegistersIn(t) ==
  LET regs == SelectSeq(t.operands, LAMBDA o : o.kind # "immediate")
  IN  [k \in 1..Len(regs) |-> regs[k].reg]
ValuesIn(t) ==
  LET values == SelectSeq(t.operands, LAMBDA o : o.kind # "register")
  IN  [k \in 1..Len(values) |-> values[k].value]

(* Lines that the constructor is known to misread: psel.fetchr is taken    *)
(* for psel, and setchmap loses the first of its two registers.            *)
Misread(t) == WithoutEop(t.name) \in {<<"psel", "fetchr">>, <<"setchmap">>}

(* An instruction without the immediate field of one that does not use it. *)
MeaningOf(i) == [i EXCEPT !.immediate = IF i.opcode \in hasImmediate THEN @ ELSE 0]

SaysTheSame(t, i) ==
  /\ name(i.opcode, i.function) = Join(WithoutEop(t.name))
  /\ i.predicate = IF Last(t.name) = "eop" THEN "END_OF_PACKET" ELSE t.predicate
  /\ RegistersOf(i) = RegistersIn(t)
  /\ i.opcode \in hasImmediate => <<i.immediate>> = ValuesIn(t)
  /\ i.channelMapEntry =
       CASE i.opcode \in FetchOps -> 0
         [] i.opcode \in hasRemoteChannel \ FetchOps -> t.channel
         [] OTHER -> NO_CHANNEL

(* An instruction keeps its meaning: what is decoded is what the line of   *)
(* assembly says (operation, predicate, registers in their order,          *)
(* immediate with its sign, channel), the line the trace prints is read    *)
(* back as the same instruction, only a packet that ends in an operation   *)
(* with ".p" cannot be written, and a packed pair of immediates is         *)
(* unpacked with both signs (Instruction.cpp:75, DecodedInst.cpp:272, 350, *)
(* ISA.cpp).                                                               *)
InstructionsSurvive ==
  /\ stage = "inst" /\ first = NoInst /\ text # NoText =>
       (SaysTheSame(text, inst) <=> ~Misread(text))
  /\ stage = "inst" /\ first # NoInst /\ text.name # PartsOf["psel.fetchr"] =>
       MeaningOf(inst) = MeaningOf(first)
  /\ stage = "rejected" => Len(text.name) = 3 /\ text.name[2] = "p"
  /\ stage = "inst" /\ text = NoText =>
       \E pair \in FetchPairs :
         word = FetchWord(pair) /\ inst.immediate = pair[1] /\ inst.immediate2 = pair[2]

Positions == 0..(WordBits - 1)
SetBitsOf(v) == {k \in Positions : (v \div 2^k) % 2 = 1}

(* The result of the arithmetic unit, said of the positions of the bits    *)
(* that are set, or of the numbers the words stand for.                    *)
ResultExact ==
  LET f == alu.function
      a == alu.val1
      b == alu.val2
      r == alu.result
      A == SetBitsOf(a)
      B == SetBitsOf(b)
      R == SetBitsOf(r)
  IN  /\ alu.cycles = IF f \in {"MULHW", "MULLW", "MULHWU"} THEN 2 ELSE 1
      /\ f = "NOR" => R = Positions \ (A \cup B)
      /\ f = "AND" => R = A \cap B
      /\ f = "OR" => R = A \cup B
      /\ f = "XOR" => R = (A \cup B) \ (A \cap B)
      /\ f = "SLL" /\ b \in Positions => R = {k + b : k \in A} \cap Positions
      /\ f = "SRL" /\ b \in Positions => R = {k \in Positions : k + b \in A}
      /\ f = "SRA" /\ b \in Positions =>
           R = {k \in Positions : IF k + b < WordBits THEN k + b \in A ELSE a < 0}
      /\ f = "CLZ" => \A k \in Positions : (k \in A => r <= WordBits - 1 - k)
                                          /\ (k >= WordBits - r => k \notin A)
      /\ f \in {"MULHW", "MULLW"} =>
           LET high == IF f = "MULHW" THEN r ELSE (a * b) \div 2^WordBits
               low == IF f = "MULLW" THEN Unsigned(r) ELSE (a * b) % 2^WordBits
           IN  high * 2^WordBits + low = a * b
      /\ f = "MULHWU" => (Unsigned(a) * Unsigned(b)) - Unsigned(r) * 2^WordBits
                            \in 0..(2^WordBits - 1)
      /\ f = "ADDU" => a + b - r \in {-(2^WordBits), 0, 2^WordBits}
                       /\ (alu.newPred <=> Unsigned(r) < Unsigned(a))
      /\ f = "SUBU" => a - b - r \in {-(2^WordBits), 0, 2^WordBits}
                       /\ (alu.newPred <=> Unsigned(r) > Unsigned(a))
      /\ f \in {"SETLT", "SETGTE"} => (r = 1) = ((f = "SETLT") = (a < b))
      /\ f \in {"SETLTU", "SETGTEU"} =>
           (r = 1) = ((f = "SETLTU") = (Unsigned(a) < Unsigned(b)))
      /\ f = "PSEL" => r = IF alu.pred THEN a ELSE b

(* Every flit goes to the one place the channel map entry names, a memory  *)
(* group being interleaved by cache lines; a bank reads the operation, the *)
(* return channel and the modes that were meant, and only the last flit    *)
(* ends the packet; a global entry that is written without the enable bit  *)
(* keeps the credits it had.                                               *)
FlitsArrive ==
  LET e == cmt.entry
      m == MemoryChannel(e)
      bank == (m.bank + ((cmt.base \div LineBytes) % 2^m.groupSize)) % 8
      target == IF isMemory(e)
                THEN [getDestination(e, cmt.tile) EXCEPT !.position = CORES_PER_TILE + bank]
                ELSE getDestination(e, cmt.tile)
  IN  /\ Len(sent) = IF e = 0 THEN 0 ELSE IF cmt.operation \in TwoFlitOps THEN 2 ELSE 1
      /\ \A k \in DOMAIN sent :
           /\ sent[k].destination = target
           /\ endOfPacket(sent[k].metadata) = (k = Len(sent))
      /\ isMemory(e) => \A k \in DOMAIN sent :
           LET meta == MemoryMetadata(sent[k].metadata)
           IN  /\ meta.opcode = IF k = 2 THEN OpcodeOfMemoryOp.PAYLOAD_EOP
                                ELSE IF cmt.operation = "" THEN OpcodeOfMemoryOp.LOAD_W
                                ELSE OpcodeOfMemoryOp[memoryOp[cmt.operation]]
               /\ meta.returnChannel = m.returnChannel /\ meta.scratchpad = m.scratchpadL1
               /\ meta.skipL1 = m.l1Skip /\ meta.skipL2 = m.l2Skip
      /\ isGlobal(e) => \A k \in DOMAIN sent :
           CoreMetadata(sent[k].metadata).acquired = GlobalChannel(e).acquired
      /\ isGlobal(e) /\ isGlobal(cmt.old) =>
           GlobalChannel(e).credits = GlobalChannel(IF GlobalChannel(cmt.data).creditWriteEnable = 1
                                                    THEN cmt.data ELSE cmt.old).credits

(* The hardware code has room for the positions of a tile.                 *)
PositionsFit(chip) == chip.cores + chip.memories <= 2^hardwareEncoding(chip).position

(* Two components have different codes: both codes can be turned back into *)
(* the identifier, the hardware's as long as the positions fit, and the    *)
(* number of a component gives its tile and its position.                  *)
CodesDistinguish ==
  LET chip == place.chip
      id == place.id
      perTile == chip.cores + chip.memories
  IN  /\ id.position < 16 => unflatten(place.software, SoftwareEncoding) = id
      /\ PositionsFit(chip) => unflatten(place.hardware, hardwareEncoding(chip)) = id
      /\ ~id.multicast =>
           /\ place.index \in 0..(chip.width * chip.height * perTile - 1)
           /\ place.index % perTile = id.position
           /\ (place.index \div perTile) % chip.width = id.x - 1
           /\ place.ofKind \div (IF isCore(chip, id) THEN chip.cores ELSE chip.memories)
                = place.index \div perTile
           /\ isComputeTile(chip, TileOf(id)) /\ KindOf(chip, TileOf(id)) = "compute"

(* Lines whose addresses differ within the capacity of their group of      *)
(* banks never share a position; the position is one of the bank's as long *)
(* as the bits that choose a bank number no more banks than the tile has.  *)
LinesApart ==
  LET lines == place.lines
      stored == place.stored
  IN  /\ stored[1] = stored[2] => lines[1] = lines[2]
      /\ \A k \in 1..2 :
           stored[k].slot < 2^indexBits <=> lines[k] % 8 < place.chip.memories

(* A message reaches the components it names and no other; the answer to a *)
(* request comes to the channel of the core that asked for it, also when   *)
(* the line came from the next level: to the same bank, from a tile that   *)
(* can answer, the controller being one of the nearest.                    *)
MessagesArrive ==
  LET chip == trip.chip
      id == trip.asked.id
      asker == [at |-> "core", tile |-> trip.tile, number |-> trip.core,
                channel |-> trip.asked.back.channel]
      banks == {p \in trip.path : p.at = "bank"}
      Steps(t) == Distance(t, trip.tile)
  IN  /\ trip.message.places =
           IF id.multicast
           THEN {p \in {CoreInput(trip.tile, c, id.channel) : c \in 0..(chip.cores - 1)} :
                   (id.coremask \div 2^p.number) % 2 = 1}
           ELSE IF id.position >= chip.cores THEN {asker}
           ELSE IF trip.asked.places = {At("creditRouter", trip.tile, 0)}
           THEN {At("credits", TileOf(id), id.position)}
           ELSE {CoreInput(TileOf(id), id.position, id.channel)}
      /\ id.position >= chip.cores => banks = {At("bank", trip.tile, id.position - chip.cores)}
      /\ \A p \in trip.path : p.at = "controller" =>
           /\ KindOf(chip, p.tile) = "controller"
           /\ \A t \in TilesOf(chip) : KindOf(chip, t) = "controller" => Steps(p.tile) <= Steps(t)
      /\ \A p \in trip.path : p.at = "l2" => KindOf(chip, p.tile) = "compute"

(* What a request does to a memory of bytes, and the flits it returns.     *)
BytesOf(words) ==
  [a \in 0..(4 * WordCount - 1) |-> (words[a \div 4] \div Byte^(a % 4)) % Byte]
Access == [LOAD_W |-> 4, STORE_W |-> 4, LOAD_HW |-> 2, STORE_HW |-> 2, LOAD_B |-> 1, STORE_B |-> 1]
ValueAt(bytes, a, size) ==
  LET low == a - (a % size)
  IN  FoldLeft(LAMBDA v, k : v * Byte + bytes[low + size - k], 0, [k \in 1..size |-> k])
WithValue(bytes, a, size, v) ==
  [b \in DOMAIN bytes |-> IF b \div size = a \div size THEN (v \div Byte^(b % size)) % Byte
                         ELSE bytes[b]]
BitsOf(v) == {k \in 0..(4 * ByteBits - 1) : (v \div 2^k) % 2 = 1}
IsCombined(op, old, data, new) ==
  CASE op = "LOAD_AND_ADD" -> (new - old - data) % WordRange = 0 /\ new < WordRange
    [] op = "LOAD_AND_OR" -> BitsOf(new) = BitsOf(old) \cup BitsOf(data)
    [] op = "LOAD_AND_AND" -> BitsOf(new) = BitsOf(old) \cap BitsOf(data)
    [] op = "LOAD_AND_XOR" -> BitsOf(new) = (BitsOf(old) \cup BitsOf(data))
                                            \ (BitsOf(old) \cap BitsOf(data))
    [] op = "EXCHANGE" -> new = data

One(value) == <<[data |-> value, last |-> TRUE]>>
PacketFrom(bytes, a) ==
  LET words == [k \in 1..((LineBytes - (a % LineBytes)) \div 4) |-> ValueAt(bytes, a + 4 * (k - 1), 4)]
      ends == {k \in DOMAIN words : {4 * ByteBits - 1, 4 * ByteBits - 2} \subseteq BitsOf(words[k])}
      n == IF ends = {} THEN Len(words) ELSE Min(ends)
  IN  [k \in 1..n |-> [data |-> words[k], last |-> k = n]]

After(m, r) ==
  CASE r.op \in {"LOAD_W", "LOAD_HW", "LOAD_B"} ->
         [m EXCEPT !.flits = @ \o One(ValueAt(m.bytes, r.address, Access[r.op]))]
    [] r.op \in {"STORE_W", "STORE_HW", "STORE_B"} ->
         [m EXCEPT !.bytes = WithValue(@, r.address, Access[r.op], r.data)]
    [] r.op = "MEMSET_LINE" ->
         [m EXCEPT !.bytes = [b \in DOMAIN @ |-> IF b \div LineBytes = r.address \div LineBytes
                                                THEN (r.data \div Byte^(b % 4)) % Byte ELSE @[b]]]
    [] r.op = "IPK_READ" -> [m EXCEPT !.flits = @ \o PacketFrom(m.bytes, r.address)]
    [] r.op \in Atomics ->
         LET old == ValueAt(m.bytes, r.address, 4)
             new == CHOOSE v \in 0..(WordRange - 1) : IsCombined(r.op, old, r.data, v)
         IN  [bytes |-> WithValue(m.bytes, r.address, 4, new), flits |-> m.flits \o One(old)]
    [] OTHER -> m

(* The effects in the order of the instructions that complete them: the    *)
(* words of a stored line one by one, anything else with its last flit.    *)
EffectsOf(r) ==
  LET n == Len(r.data)
      Whole(d) == [op |-> r.op, address |-> r.address, data |-> d]
  IN  IF n = 0 THEN <<Whole(0)>>
      ELSE IF n = 1 THEN <<[op |-> "NONE"], Whole(r.data[1])>>
      ELSE <<[op |-> "NONE"]>>
           \o [k \in 1..n |-> [op |-> "STORE_W", address |-> r.address + 4 * (k - 1),
                               data |-> r.data[k]]]
MemoryAfter ==
  LET own == FlattenSeq([k \in 1..Len(magic.requests) |-> EffectsOf(magic.requests[k])])
      other == [k \in 1..Len(magic.inserted) |->
                  [op |-> magic.inserted[k].op, address |-> magic.inserted[k].result,
                   data |-> magic.inserted[k].operand1]]
      effects == SubSeq(own, 1, magic.at) \o other \o SubSeq(own, magic.at + 1, Len(own))
  IN  FoldLeft(After, [bytes |-> BytesOf(InitialWords), flits |-> <<>>], effects)

(* Magic memory answers as a memory of bytes does, one request after the   *)
(* other, also when the flits of a request come in several instructions    *)
(* and another instruction in between; the requests it refuses are those   *)
(* of load-linked, store-conditional and the fetching of lines, and lines  *)
(* stored by one instruction.                                              *)
MagicIsMemory ==
  /\ stage = "issued" =>
       /\ MemoryAfter = [bytes |-> BytesOf(magic.state.mem), flits |-> magic.state.flits]
       /\ magic.state.payloadsRemaining = 0 /\ magic.state.opcode = "PAYLOAD_EOP"
  /\ stage = "failed" =>
       \/ \E k \in DOMAIN magic.requests :
            magic.requests[k].op \in {"LOAD_LINKED", "STORE_CONDITIONAL", "FETCH_LINE"}
       \/ \E k \in DOMAIN magic.inserted : magic.inserted[k].op \in LineStores

(* The statistics, from the list of events: an event is counted when        *)
(* collection has been started and not stopped before it, and no reset     *)
(* comes after it.                                                         *)
IsCommand(e) == e.call \in {"start", "stop", "reset"}
CommandsBetween(j, k, names) == \E c \in j..k : counts.events[c].call \in names
IsCounted(k) ==
  LET before == {c \in 1..k : counts.events[c].call \in {"start", "stop"}}
  IN  /\ ~IsCommand(counts.events[k])
      /\ IF before = {} THEN counts.initially ELSE counts.events[Max(before)].call = "start"
Kept(k) == IsCounted(k) /\ ~CommandsBetween(k, Len(counts.events), {"reset"})

(* A time from one event of a message or operation to another is one that  *)
(* both events were counted for, and that no command to start or reset     *)
(* fell into: the first such end.                                          *)
Spans ==
  [coreOutBufferTime |-> <<"coreBuffered", "coreSent">>,
   networkToL1Time |-> <<"coreSent", "memoryReceived">>,
   l1InBufferTime |-> <<"memoryReceived", "memoryStarted">>,
   l1HitLatency |-> <<"memoryStarted", "memoryBuffered">>,
   l1MissPenalty |-> <<"memoryStarted", "memoryBuffered">>,
   l1OutBufferTime |-> <<"memoryBuffered", "memorySent">>,
   l2HitLatency |-> <<"memoryStarted", "memoryBuffered">>,
   l2MissPenalty |-> <<"memoryStarted", "memoryBuffered">>,
   l2OutBufferTime |-> <<"memoryBuffered", "memorySent">>,
   networkToCoreTime |-> <<"memorySent", "coreReceived">>]
OfKind(d, e) ==
  CASE d \in {"l1HitLatency", "l1MissPenalty", "l2HitLatency", "l2MissPenalty"} ->
         /\ e.l1 = (d \in {"l1HitLatency", "l1MissPenalty"})
         /\ e.hit = (d \in {"l1HitLatency", "l2HitLatency"})
    [] d = "l1OutBufferTime" -> e.l1
    [] d = "l2OutBufferTime" -> ~e.l1
    [] OTHER -> TRUE
Ends(d, j) ==
  LET e == counts.events
  IN  {k \in (j + 1)..Len(e) :
         /\ e[k].call = Spans[d][2] /\ IsCounted(k) /\ ~CommandsBetween(j, k, {"start", "reset"})
         /\ e[k].operation = e[j].operation
         /\ e[j].call = "memoryStarted" \/ e[k].message = e[j].message}
TimesOf(d, component) ==
  LET e == counts.events
      begun == {j \in 1..Len(e) : e[j].call = Spans[d][1] /\ IsCounted(j) /\ Ends(d, j) # {}}
  IN  {p \in {<<j, Min(Ends(d, j))>> : j \in begun} :
         Kept(p[2]) /\ e[p[2]].at = component /\ OfKind(d, e[p[2]])}

TimesExact ==
  /\ \A d \in Durations, component \in {"core", "bank", "other"} :
       LET times == TimesOf(d, component)
           map == counts.state.durations[d]
           early == IF d = "coreOutBufferTime" THEN 1 ELSE 0
       IN  IF times = {} THEN component \notin DOMAIN map
           ELSE map[component] = <<MapThenSumSet(LAMBDA p : p[2] - p[1] - early, times),
                                   Cardinality(times)>>
  /\ \A d \in Durations :
       averageDuration(counts.state.durations[d])[2] =
         MapThenSumSet(LAMBDA c : Cardinality(TimesOf(d, c)), {"core", "bank", "other"})
  /\ counts.state.durations.l2OutBufferTime = <<>>
  /\ TableFails(counts.state) =>
       \E j, k \in 1..Len(counts.events) :
         /\ counts.events[j].call = "memoryReceived" /\ counts.events[k].call = "memoryStarted"
         /\ counts.events[j].message = counts.events[k].message
         /\ Kept(k) /\ (~IsCounted(j) \/ CommandsBetween(j, k, {"start", "reset"}))

(* Accesses of the banks: every word is one access of a read or a write, an *)
(* atomic operation one of both, except an update of the directory and the *)
(* first word of an operation on a line; those on whole lines but packets  *)
(* of instructions are in the totals of the event counts only.             *)
AccessesExact ==
  LET e == counts.events
      Calls(call) == {k \in 1..Len(e) : e[k].call = call /\ Kept(k)}
      started == {k \in Calls("startOperation") :
                    e[k].op \in {"LOAD_W", "LOAD_HW", "STORE_B", "EXCHANGE"}}
      continued == Calls("continueOperation")
      Of(S, ops) == {k \in S : e[k].op \in ops}
      listed == started \cup Of(continued, {"IPK_READ"})
      exchanges == Of(started, {"EXCHANGE"})
      summary == CacheSummary(counts.state)
  IN  /\ totalReads(counts.state) = Cardinality(Of(started, {"LOAD_W", "LOAD_HW"}))
                                    + Cardinality(Of(continued, {"IPK_READ", "FETCH_LINE"}))
      /\ totalReads(counts.state) + totalWrites(counts.state) = Cardinality(started \cup continued)
      /\ summary.total = <<Cardinality({k \in listed : k \in continued \/ ~e[k].miss}),
                           Cardinality(listed)>>
      /\ summary.instructions[1] = summary.instructions[2]
      /\ summary.dataReads[2] + summary.dataWrites[2] = Cardinality(started) + Cardinality(exchanges)
      /\ counts.state.tagChecks = Cardinality(Calls("checkTags"))
      /\ totalLineReplacements(counts.state) = Cardinality(Calls("replaceCacheLine"))

(* Instructions, by name.                                                  *)
LoadNames == {"ldw", "ldhwu", "ldbu"}
StoreNames == {"stw", "sthw", "stb"}
Comparisons == {"seteq", "setne", "setlt", "setltu", "setgte", "setgteu"}
ConditionalNames ==
  UNION {{n, n \o ".p", n \o "i", n \o "i.p"} : n \in Comparisons} \cup {"psel", "psel.fetch"}
ArithmeticNames ==
  UNION {{n, n \o ".p", n \o "i", n \o "i.p"} :
           n \in {"nor", "and", "or", "xor", "sll", "srl", "sra", "addu", "subu"}}
  \cup {"mulhw", "mullw", "mulhwu"}
(* Not of the decode stage, and still counted there, before it is known    *)
(* whether they execute.                                                   *)
CountedEarly == {"nxipk", "lli", "sendconfig", "iwtr"}

(* An instruction is counted once, with the kinds its name and registers   *)
(* give it, except one that the decode stage drops before the execute      *)
(* stage could count it, and those counted early although they may not     *)
(* execute.                                                                *)
InstructionsExact ==
  LET n == Join(text.name)
      s == counts.state
      i == counts.events[1].instruction
      early == n \in DecodeStageNames \cup CountedEarly
      counted == early \/ counts.execute
      done == IF early THEN counts.execute ELSE counts.willExecute
      reads == {RegistersIn(text)[k] : k \in {k \in DOMAIN RegistersIn(text) :
                                               i.opcode \in hasDestReg => k > 1}}
      copies == n \in {"ori", "ori.p", "lui"} \/ (n \in {"or", "or.p"} /\ RegistersIn(text)[3] = 0)
      sends == text.channel \in 2..14
      kinds == [memLoads |-> IF n \in LoadNames \/ (2 \in reads /\ copies) THEN 1 ELSE 0,
                memStores |-> Truth(n \in StoreNames),
                mergedMemLoads |-> Truth(2 \in reads /\ ~copies),
                chanReads |-> Truth(reads \cap 3..7 # {}),
                mergedChanReads |-> Truth(reads \cap 3..7 # {} /\ ~copies),
                chanWrites |-> Truth(sends),
                mergedChanWrites |-> Truth(sends /\ (n \notin {"or", "or.p", "ori", "ori.p"}
                                                     \/ 2 \in reads)),
                arithOps |-> Truth(n \in ArithmeticNames) + 1,
                condOps |-> Truth(n \in ConditionalNames)]
      Kind(k) == IF done THEN kinds[k] ELSE IF k = "arithOps" THEN 1 ELSE 0
      unit == n \in {"tstchi", "tstchi.p", "selch", "ibjmp", "rmtexecute", "rmtnxipk",
                     "mulhw", "mullw", "mulhwu"}
      dump == EventCounts(s)
      Once(b) == Truth(done /\ b)
  IN  /\ s.numDecodes = 2 /\ s.numOps = 1 + Truth(counted)
      /\ s.unexecuted = Truth(counted /\ ~done)
      /\ \A k \in DOMAIN kinds : getCount(s.kinds, k) = Kind(k)
      /\ IF ~s.energyTrace THEN s.executedOps = EmptyBag /\ s.hd = <<0, 0, 0>>
         ELSE /\ dump.operations = 1 + Once(TRUE) /\ dump.totalOps = 1 + Once(~unit)
              /\ dump.decodeCycles = 2 + Once(n \in StoreNames)
              /\ dump.highEnergy = 1 + Once(n \in {"addu", "addu.p", "addui", "addui.p", "setgte",
                                                    "setgte.p", "setgtei", "setgtei.p"})
              /\ dump.multiplies = Once(n \in {"mulhw", "mullw", "mulhwu"})
              /\ s.sameOp = Once(isExecuteStageOperation(i.opcode) /\ i.function \in {0, 13})
              /\ s.hd = IF done /\ isExecuteStageOperation(i.opcode) THEN <<2, 4, 6>> ELSE <<2, 2, 2>>

(* Values keep their meaning on the way through the arithmetic unit, the   *)
(* channel map, the flits and the identifiers (ALU.cpp:19, ExecuteStage.cpp *)
(* :287, ChannelMapEntry.cpp:126, DecodedInst.cpp:215, Flit.h:230,         *)
(* Identifier.h:134, Encoding.cpp:105), through the positions of a memory  *)
(* bank (MemoryBank.cpp:71) and the networks of the tiles (ComputeTile.cpp *)
(* :184, Chip.cpp:208); what is written to magic memory is read again      *)
(* (MagicMemory.cpp:23, MagicMemoryConnection.cpp:83); and the statistics  *)
(* count what happened while they are collected (Latency.cpp, L1Cache.cpp, *)
(* Operations.cpp).                                                        *)
ValuesSurvive ==
  /\ stage = "result" => ResultExact
  /\ stage = "sent" => FlitsArrive
  /\ stage = "code" => CodesDistinguish
  /\ stage = "stored" => LinesApart
  /\ stage = "arrived" => MessagesArrive
  /\ MagicIsMemory
  /\ stage = "counted" /\ text = NoText => TimesExact /\ AccessesExact
  /\ stage = "counted" /\ text # NoText => InstructionsExact
=============================================================================
