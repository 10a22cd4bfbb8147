--------------------------------- MODULE ISA ---------------------------------
(***************************************************************************)
(* The instruction set (Utility/ISA, tables generated by update_isa.py),   *)
(* the encoded instruction word and the assembler's constructor            *)
(* (Datatype/Instruction), and the decoded instruction made from a word    *)
(* with its textual form (Datatype/DecodedInst).                           *)
(*                                                                         *)
(* A word is a function from bit positions to bits.  A line of assembly is *)
(* a record of what the constructor splits it into: the predicate prefix,  *)
(* the parts of the operation's name between full stops, the operands in   *)
(* the order they are written and the remote channel.                      *)
(***************************************************************************)
EXTENDS Integers, Sequences, FiniteSetsExt, SequencesExt

(* The opcodes with a destination register, and so on: each table of the
   source with a truth value per opcode is the set of its true entries. *)
hasDestReg ==
  {0, 1, 2, 3, 4, 6, 7, 8, 10, 11, 12, 14, 15, 16, 18, 19, 22, 23, 26,
   27, 30, 31, 34, 35, 38, 39, 42, 46, 47, 50, 54, 55, 62, 92, 97, 98,
   99, 101, 103, 105, 106, 107, 109, 110}

hasSrcReg1 ==
  {0, 1, 2, 3, 4, 6, 7, 8, 10, 11, 12, 14, 15, 16, 18, 19, 22, 23, 26,
   27, 30, 31, 32, 34, 35, 36, 38, 39, 40, 42, 44, 46, 47, 48, 50, 52,
   54, 55, 62, 64, 66, 67, 68, 70, 71, 72, 74, 76, 78, 80, 82, 84, 86,
   88, 90, 94, 95, 98, 106, 110}

hasSrcReg2 ==
  {0, 1, 4, 8, 12, 16, 32, 36, 40, 44, 48, 52, 64, 68, 72, 76, 80, 84,
   88}

hasImmediate ==
  {2, 3, 6, 7, 10, 11, 14, 15, 18, 19, 22, 23, 26, 27, 30, 31, 32, 34,
   35, 36, 38, 39, 40, 42, 44, 46, 47, 48, 50, 52, 54, 55, 66, 67, 70,
   71, 72, 73, 74, 77, 78, 81, 82, 84, 85, 88, 89, 92, 93, 95, 96, 97,
   99, 101, 103, 105, 107, 109}

hasRemoteChannel ==
  {0, 1, 2, 3, 4, 6, 7, 8, 10, 11, 12, 14, 15, 16, 18, 19, 22, 23, 26,
   27, 30, 31, 32, 34, 35, 36, 38, 39, 40, 42, 44, 46, 47, 48, 50, 52,
   54, 55, 62, 64, 65, 66, 67, 69, 70, 71, 72, 74, 81, 84, 88, 98, 99,
   101, 103, 105, 106, 109, 110}

setsPredicate ==
  {1, 3, 7, 11, 15, 19, 23, 27, 31, 35, 39, 47, 55, 103}

isALUOperation ==
  {0, 1, 2, 3, 4, 6, 7, 8, 10, 11, 12, 14, 15, 16, 18, 19, 22, 23, 26,
   27, 30, 31, 32, 34, 35, 36, 38, 39, 40, 42, 44, 46, 47, 48, 50, 52,
   54, 55, 62, 66, 67, 70, 72, 74, 84, 88, 92}

hasSignedImmediate ==
  {18, 19, 22, 23, 26, 27, 32, 34, 35, 36, 40, 44, 48, 52, 54, 55, 66,
   67, 70, 72, 74, 77, 84, 85, 88, 89, 93, 96}

opcode_to_name ==
  <<"subu", "subu.p", "nori", "nori.p", "psel", "nxipk", "andi",
    "andi.p", "mulhw", "", "ori", "ori.p", "mullw", "", "xori",
    "xori.p", "mulhwu", "", "seteqi", "seteqi.p", "", "", "setnei",
    "setnei.p", "", "", "setlti", "setlti.p", "", "", "setltui",
    "setltui.p", "stc", "", "setgtei", "setgtei.p", "ldadd", "",
    "setgteui", "setgteui.p", "ldor", "", "slli", "", "ldand", "",
    "srli", "srli.p", "ldxor", "", "srai", "", "exchange", "", "addui",
    "addui.p", "", "", "", "", "", "", "clz", "", "iwtr", "rmtnxipk",
    "ldw", "ldl", "psel.fetch", "rmtexecute", "ldhwu", "sendconfig",
    "stw", "syscall", "ldbu", "", "scratchwr", "ibjmp", "scratchwri",
    "", "setchmap", "woche", "setchmapi", "", "sthw", "fetchr", "fetch",
    "", "stb", "fillr", "fetchpst", "", "lui", "fetchpstr", "fill",
    "cregwri", "psel.fetchr", "selch", "irdr", "cregrdi", "", "tstchi",
    "", "tstchi.p", "", "getchmapi", "getchmap", "lli", "",
    "scratchrdi", "scratchrd">>

function_to_name ==
  <<"nor", "and", "or", "xor", "seteq", "setne", "setlt", "setltu",
    "setgte", "setgteu", "sll", "srl", "sra", "addu", "subu", "">>

function_to_name_p ==
  <<"nor.p", "and.p", "or.p", "xor.p", "seteq.p", "setne.p", "setlt.p",
    "setltu.p", "setgte.p", "setgteu.p", "", "srl.p", "", "addu.p",
    "subu.p", "">>

(* opcode_to_format: the opcodes of each format; any other entry is 0,
   which is FMT_FF. *)
Formats ==
  [FMT_0R |-> {5, 65, 69, 77, 81},
   FMT_0Rnc |-> {73},
   FMT_1R |-> {66, 67, 70, 71, 74, 99, 101, 103, 105, 109},
   FMT_1Rnc |-> {78, 82, 86, 90, 92, 94, 95, 97, 107},
   FMT_2R |-> {2, 3, 6, 7, 10, 11, 14, 15, 18, 19, 22, 23, 26, 27, 30, 31, 32, 34,
     35, 36, 38, 39, 40, 44, 48, 52, 54, 55, 62, 64, 72, 84, 88, 98,
     106, 110},
   FMT_2Rnc |-> {68, 76, 80},
   FMT_2Rs |-> {42, 46, 47, 50},
   FMT_3R |-> {0, 1, 4, 8, 12, 16},
   FMT_FF |-> {85, 89, 93},
   FMT_PFF |-> {96}]

(* The map from names to opcodes, written out in the source beside the
   table from opcodes to names. *)
name_to_opcode ==
  {<<"nor", 0>>, <<"and", 0>>, <<"or", 0>>, <<"xor", 0>>, <<"seteq", 0>>,
   <<"setne", 0>>, <<"setlt", 0>>, <<"setltu", 0>>, <<"setgte", 0>>,
   <<"setgteu", 0>>, <<"sll", 0>>, <<"srl", 0>>, <<"sra", 0>>,
   <<"addu", 0>>, <<"subu", 0>>, <<"nor.p", 1>>, <<"and.p", 1>>,
   <<"or.p", 1>>, <<"xor.p", 1>>, <<"seteq.p", 1>>, <<"setne.p", 1>>,
   <<"setlt.p", 1>>, <<"setltu.p", 1>>, <<"setgte.p", 1>>,
   <<"setgteu.p", 1>>, <<"srl.p", 1>>, <<"addu.p", 1>>, <<"subu.p", 1>>,
   <<"nori", 2>>, <<"nori.p", 3>>, <<"andi", 6>>, <<"andi.p", 7>>,
   <<"ori", 10>>, <<"ori.p", 11>>, <<"xori", 14>>, <<"xori.p", 15>>,
   <<"seteqi", 18>>, <<"seteqi.p", 19>>, <<"setnei", 22>>,
   <<"setnei.p", 23>>, <<"setlti", 26>>, <<"setlti.p", 27>>,
   <<"setltui", 30>>, <<"setltui.p", 31>>, <<"setgtei", 34>>,
   <<"setgtei.p", 35>>, <<"setgteui", 38>>, <<"setgteui.p", 39>>,
   <<"slli", 42>>, <<"srli", 46>>, <<"srli.p", 47>>, <<"srai", 50>>,
   <<"addui", 54>>, <<"addui.p", 55>>, <<"cregrdi", 99>>, <<"cregwri", 95>>,
   <<"scratchwr", 76>>, <<"scratchwri", 78>>, <<"scratchrd", 110>>,
   <<"scratchrdi", 109>>, <<"setchmap", 80>>, <<"setchmapi", 82>>,
   <<"getchmap", 106>>, <<"getchmapi", 105>>, <<"psel", 4>>,
   <<"rmtnxipk", 65>>, <<"mulhw", 8>>, <<"rmtexecute", 69>>,
   <<"psel.fetch", 68>>, <<"psel.fetchr", 96>>, <<"fetch", 86>>,
   <<"fetchr", 85>>, <<"fetchpst", 90>>, <<"fetchpstr", 93>>,
   <<"fill", 94>>, <<"fillr", 89>>, <<"mullw", 12>>, <<"ibjmp", 77>>,
   <<"irdr", 98>>, <<"mulhwu", 16>>, <<"syscall", 73>>, <<"iwtr", 64>>,
   <<"woche", 81>>, <<"clz", 62>>, <<"lui", 92>>, <<"lli", 107>>,
   <<"stw", 72>>, <<"ldw", 66>>, <<"sthw", 84>>, <<"ldhwu", 70>>,
   <<"stb", 88>>, <<"ldbu", 74>>, <<"ldl", 67>>, <<"stc", 32>>,
   <<"ldadd", 36>>, <<"ldor", 40>>, <<"ldand", 44>>, <<"ldxor", 48>>,
   <<"exchange", 52>>, <<"selch", 97>>, <<"tstchi", 101>>,
   <<"tstchi.p", 103>>, <<"sendconfig", 71>>, <<"nxipk", 5>>}

name_to_function ==
  {<<"nor", 0>>, <<"and", 1>>, <<"or", 2>>, <<"xor", 3>>, <<"seteq", 4>>,
   <<"setne", 5>>, <<"setlt", 6>>, <<"setltu", 7>>, <<"setgte", 8>>,
   <<"setgteu", 9>>, <<"sll", 10>>, <<"srl", 11>>, <<"sra", 12>>,
   <<"addu", 13>>, <<"subu", 14>>, <<"nor.p", 0>>, <<"and.p", 1>>,
   <<"or.p", 2>>, <<"xor.p", 3>>, <<"seteq.p", 4>>, <<"setne.p", 5>>,
   <<"setlt.p", 6>>, <<"setltu.p", 7>>, <<"setgte.p", 8>>,
   <<"setgteu.p", 9>>, <<"srl.p", 11>>, <<"addu.p", 13>>, <<"subu.p", 14>>}

opcode_to_function ==
  <<14, 14, 0, 0, 16, -1, 1, 1, 17, 0, 2, 2, 18, 0, 3, 3, 19, 0, 4, 4,
    0, 0, 5, 5, 0, 0, 6, 6, 0, 0, 7, 7, 13, 0, 8, 8, 13, 0, 9, 9, 13, 0,
    10, 0, 13, 0, 11, 11, 13, 0, 12, 0, 13, 0, 13, 13, 0, 0, 0, 0, 0, 0,
    20, 0, 31, 31, 13, 13, -1, -1, 13, 31, 13, -1, 13, 0, -1, -1, -1, 0,
    -1, -1, -1, 0, 13, -1, -1, 0, 13, -1, -1, 0, 2, -1, -1, -1, -1, 31,
    31, -1, 0, 31, 0, 31, 0, -1, -1, 31, 0, -1, -1>>

Names == {p[1] : p \in name_to_opcode}
OpcodeOf == [n \in Names |-> (CHOOSE p \in name_to_opcode : p[1] = n)[2]]
FunctionOf ==
  [n \in {p[1] : p \in name_to_function} |-> (CHOOSE p \in name_to_function : p[1] = n)[2]]

OP_PSEL_FETCH == 68
OP_PSEL_FETCHR == 96
OP_LLI == 107
SetChannelMapOps == {80, 82}               \* OP_SETCHMAP, OP_SETCHMAPI
FetchOps == {68, 85, 86, 89, 90, 93, 94, 96}
LoadOps == {66, 70, 74}                    \* OP_LDW, OP_LDHWU, OP_LDBU
StoreOps == {72, 84, 88}                   \* OP_STW, OP_STHW, OP_STB
NO_CHANNEL == 15
Predicate == {"ALWAYS", "P", "NOT_P", "END_OF_PACKET"}

name(opcode, function) ==
  CASE opcode = 0 -> function_to_name[function + 1]
    [] opcode = 1 -> function_to_name_p[function + 1]
    [] OTHER -> opcode_to_name[opcode + 1]

format(opcode) ==
  IF \E f \in DOMAIN Formats : opcode \in Formats[f]
  THEN CHOOSE f \in DOMAIN Formats : opcode \in Formats[f] ELSE "FMT_FF"

function(opcode) == opcode_to_function[opcode + 1]
-----------------------------------------------------------------------------
(* Bits of a word (Datatype/Word).                                         *)

Word == [0..31 -> {0, 1}]
ZeroWord == [b \in 0..31 |-> 0]

getBits(w, start, end) == MapThenSumSet(LAMBDA b : w[b] * 2^(b - start), start..end)

(* Only the low bits of the value that fit the field are stored; a field   *)
(* of no bits stores nothing.                                              *)
setBits(w, start, end, value) ==
  [b \in 0..31 |-> IF b \in start..end THEN (value \div 2^(b - start)) % 2 ELSE w[b]]

opcode(w) == getBits(w, 23, 29)
reg1(w) == getBits(w, 18, 22)
reg2(w) == getBits(w, 9, 13)
reg3(w) == getBits(w, 4, 8)
remoteChannel(w) == getBits(w, 14, 17)
functionField(w) == getBits(w, 0, 3)
predicate(w) == <<"ALWAYS", "P", "NOT_P", "END_OF_PACKET">>[getBits(w, 30, 31) + 1]

(* The lowest bits of the word as a number, sign-extended or not.          *)
signextend(w, bits, signed) ==
  LET value == getBits(w, 0, bits - 1)
  IN  IF signed /\ value >= 2^(bits - 1) THEN value - 2^bits ELSE value

(* Bits of the immediate field when an instruction is assembled.           *)
immediateLength(f) ==
  CASE f \in {"FMT_FF", "FMT_PFF"} -> 23
    [] f \in {"FMT_0R", "FMT_0Rnc", "FMT_1R"} -> 14
    [] f = "FMT_1Rnc" -> 16
    [] f \in {"FMT_2R", "FMT_2Rnc"} -> 9
    [] f = "FMT_2Rs" -> 5
    [] f = "FMT_3R" -> 0

setImmediate(w, value) == setBits(w, 0, immediateLength(format(opcode(w))) - 1, value)
-----------------------------------------------------------------------------
(* A line of assembly.  An operand is a register, an immediate, a load or  *)
(* store address such as 8(r2), or a multicast address (m00000110,2).      *)

Reg(r) == [kind |-> "register", reg |-> r, value |-> 0]
Immediate(v) == [kind |-> "immediate", reg |-> 0, value |-> v]
Address(v, r) == [kind |-> "address", reg |-> r, value |-> v]

(* ChannelID(mask, channel) flattened with the software encoding: three    *)
(* bits of channel below the multicast flag and the core mask.             *)
MulticastAddress(mask, channel) == mask * 16 + 8 + channel

Join(parts) == FoldLeft(LAMBDA a, b : IF a = "" THEN b ELSE a \o "." \o b, "", parts)

(* decodeOpcode: the suffix that follows the first full stop decides what  *)
(* is looked up.  The answer is the whole of what it sets, or Invalid when *)
(* the name is in no table.                                                *)
Invalid == [op |-> "invalid"]
decodeOpcode(prefix, parts) ==
  LET second == IF Len(parts) > 1 THEN parts[2] ELSE ""
      last == Len(parts) > 2 /\ parts[3] = "eop"
      opname == IF second = "p" THEN Join(parts) ELSE parts[1]
  IN  CASE second = "fetch" ->
             [op |-> "ok", opcode |-> OP_PSEL_FETCH, function |-> 0,
              predicate |-> IF last THEN "END_OF_PACKET" ELSE prefix]
        [] second # "fetch" /\ opname \notin Names -> Invalid
        [] OTHER ->
             [op |-> "ok", opcode |-> OpcodeOf[opname],
              function |-> IF OpcodeOf[opname] \in {0, 1} THEN FunctionOf[opname] ELSE 0,
              predicate |-> IF second = "eop" THEN "END_OF_PACKET" ELSE prefix]

PredicateCode == [ALWAYS |-> 0, P |-> 1, NOT_P |-> 2, END_OF_PACKET |-> 3]

setFields(w, regs) ==
  LET f == format(opcode(w))
      one == setBits(w, 18, 22, regs[1])
      two == setBits(one, 9, 13, regs[2])
  IN  CASE f \in {"FMT_1R", "FMT_1Rnc"} -> one
        [] f \in {"FMT_2R", "FMT_2Rnc", "FMT_2Rs"} -> two
        [] f = "FMT_3R" -> setBits(two, 4, 8, regs[3])
        [] OTHER -> w

(* The constructor from text: the channel first, the operation, each       *)
(* operand in turn (an immediate is stored as soon as it is met), and at   *)
(* last the registers; setchmap and setchmapi take their one register from *)
(* the second operand.                                                     *)
Assemble(text) ==
  LET decoded == decodeOpcode(text.predicate, text.name)
      word0 == setBits(ZeroWord, 14, 17, text.channel)
      word1 == setBits(word0, 23, 29, decoded.opcode)
      word2 == setBits(IF decoded.opcode \in {0, 1}
                       THEN setBits(word1, 0, 3, decoded.function) ELSE word1,
                       30, 31, PredicateCode[decoded.predicate])
      word3 == FoldLeft(LAMBDA w, o : IF o.kind = "register" THEN w
                                      ELSE setImmediate(w, o.value), word2, text.operands)
      reg(i) == IF i <= Len(text.operands) THEN text.operands[i].reg ELSE 0
      regs == IF decoded.opcode \in SetChannelMapOps
              THEN <<reg(2), 0, reg(3)>> ELSE <<reg(1), reg(2), reg(3)>>
  IN  setFields(word3, regs)

Assembles(text) == decodeOpcode(text.predicate, text.name).op = "ok"
-----------------------------------------------------------------------------
(* The decoded instruction.                                                *)

decodedImmediate(w, op) ==
  LET f == format(op)
      signed == op \in hasSignedImmediate
  IN  IF f = "FMT_3R" THEN 0
      ELSE signextend(w, immediateLength(f), signed /\ f # "FMT_2Rs")

(* Faulty variant: reads the source registers from their usual fields even *)
(* when the operation has no destination. *)
unpackFixed(w, op) ==
  <<IF op \in hasDestReg THEN reg1(w) ELSE 0,
    IF op \in hasSrcReg1 THEN reg2(w) ELSE 0,
    IF op \in hasSrcReg2 THEN reg3(w) ELSE 0>>

(* The register fields are dealt out, in order, to the destination and the *)
(* sources that the operation has.                                         *)
unpack(w, op) ==
  LET field == <<reg1(w), reg2(w), reg3(w)>>
      has == <<op \in hasDestReg, op \in hasSrcReg1, op \in hasSrcReg2>>
      before(i) == Cardinality({j \in 1..(i - 1) : has[j]})
  IN  [i \in 1..3 |-> IF has[i] THEN field[before(i) + 1] ELSE 0]

Decode(w) ==
  LET op == opcode(w)
      regs == unpack(w, op)
  IN  [opcode |-> op,
       function |-> IF op \in {0, 1} THEN functionField(w) ELSE function(op),
       predicate |-> predicate(w),
       channelMapEntry |-> CASE op \in FetchOps -> 0
                             [] op \in hasRemoteChannel \ FetchOps -> remoteChannel(w)
                             [] OTHER -> NO_CHANNEL,
       setsPredicate |-> op \in setsPredicate,
       immediate |-> IF op = OP_PSEL_FETCHR THEN decodedImmediate(w, op) \div 2^7
                     ELSE decodedImmediate(w, op),
       immediate2 |-> IF op = OP_PSEL_FETCHR THEN signextend(w, 7, TRUE) ELSE 0,
       destination |-> regs[1], sourceReg1 |-> regs[2], sourceReg2 |-> regs[3]]

(* The instruction as text: the order of the operands is that of the       *)
(* assembler for setchmap(i), loads and stores.  A second immediate is not *)
(* printed.  Names are given in parts.                                     *)
print(inst, parts) ==
  LET op == inst.opcode
      rd == IF op \in hasDestReg THEN <<Reg(inst.destination)>> ELSE <<>>
      rs == IF op \in hasSrcReg1 THEN <<Reg(inst.sourceReg1)>> ELSE <<>>
      rt == IF op \in hasSrcReg2 THEN <<Reg(inst.sourceReg2)>> ELSE <<>>
      imm == IF op \in hasImmediate THEN <<Immediate(inst.immediate)>> ELSE <<>>
  IN  [predicate |-> IF inst.predicate \in {"P", "NOT_P"} THEN inst.predicate ELSE "ALWAYS",
       name |-> IF inst.predicate = "END_OF_PACKET" THEN Append(parts, "eop") ELSE parts,
       operands |->
         CASE op \in SetChannelMapOps -> <<Immediate(inst.immediate), Reg(inst.sourceReg1)>>
           [] op \in LoadOps -> <<Address(inst.immediate, inst.sourceReg1)>>
           [] op \in StoreOps -> <<Reg(inst.sourceReg1),
                                   Address(inst.immediate, inst.sourceReg2)>>
           [] OTHER -> rd \o rs \o rt \o imm,
       channel |-> IF op \in SetChannelMapOps THEN NO_CHANNEL ELSE inst.channelMapEntry]
=============================================================================
