----------------------------- MODULE MagicMemory -----------------------------
(***************************************************************************)
(* Magic memory: memory requests performed at once on main memory, without *)
(* a network, and the connection in each core that makes up the requests   *)
(* from instructions.  State is a record with the fields                   *)
(*   mem     the words of main memory,                                     *)
(*   flits   the flits returned to the core,                               *)
(*   opcode, address, payloadsRemaining                                    *)
(*           what the connection remembers between sendconfigs,            *)
(*   failed  an assertion of the source has failed.                        *)
(***************************************************************************)
EXTENDS Integers, Sequences, Bitwise

CONSTANTS
  ByteBits,   \* bits of a byte (8 in the source)
  LineBytes,  \* bytes of a cache line
  WordCount   \* words of main memory

ASSUME MagicMemoryConstants ==
  ByteBits \in 1..6 /\ LineBytes \in {4 * n : n \in 1..8} /\ WordCount \in Nat \ {0}

BYTES_PER_WORD == 4
Byte == 2^ByteBits
Halfword == Byte^2
WordRange == Halfword^2

(* Reading and writing words, halfwords and bytes.  A halfword or a word   *)
(* at an odd address is only warned about: the low bits are dropped.       *)
readWord(mem, position) == mem[position \div BYTES_PER_WORD]
readHalfword(mem, position) ==
  (readWord(mem, position) \div Halfword^((position % 4) \div 2)) % Halfword
readByte(mem, position) == (readWord(mem, position) \div Byte^(position % 4)) % Byte

writeWord(mem, position, data) == [mem EXCEPT ![position \div BYTES_PER_WORD] = data]

(* The part of old that starts at unit^offset is replaced.                 *)
Replaced(old, unit, offset, data) ==
  old + ((data % unit) - ((old \div unit^offset) % unit)) * unit^offset
writeHalfword(mem, position, data) ==
  writeWord(mem, position, Replaced(readWord(mem, position), Halfword,
                                    (position \div 2) % 2, data))
writeByte(mem, position, data) ==
  writeWord(mem, position, Replaced(readWord(mem, position), Byte, position % 4, data))

getOffset(position) == position % LineBytes
getTag(address) == address - getOffset(address)

(* The two highest bits of an instruction are its predicate.               *)
EndsPacket(word) == word \div 2^(4 * ByteBits - 2) = 3

Atomics ==
  {"LOAD_AND_ADD", "LOAD_AND_OR", "LOAD_AND_AND", "LOAD_AND_XOR", "EXCHANGE"}
Combined(op, old, data) ==
  CASE op = "LOAD_AND_ADD" -> (old + data) % WordRange
    [] op = "LOAD_AND_OR" -> old | data
    [] op = "LOAD_AND_AND" -> old & data
    [] op = "LOAD_AND_XOR" -> old ^^ data
    [] op = "EXCHANGE" -> data

NoEffect ==
  {"VALIDATE_LINE", "PREFETCH_LINE", "FLUSH_LINE", "INVALIDATE_LINE", "FLUSH_ALL_LINES",
   "INVALIDATE_ALL_LINES", "PUSH_LINE", "UPDATE_DIRECTORY_ENTRY", "UPDATE_DIRECTORY_MASK"}

(* The words of a packet: up to its last instruction, or the last of the   *)
(* cache line.                                                             *)
PacketLength(mem, address) ==
  CHOOSE n \in 1..WordCount :
    LET Ends(k) == \/ EndsPacket(readWord(mem, address + 4 * (k - 1)))
                   \/ getOffset(address + 4 * k) = 0
    IN  Ends(n) /\ \A k \in 1..(n - 1) : ~Ends(k)

Respond(s, result) == [s EXCEPT !.flits = Append(@, [data |-> result, last |-> TRUE])]
Put(s, mem) == [s EXCEPT !.mem = mem]

(* MagicMemory::operate.                                                   *)
operate(s, op, address, data) ==
  LET mem == s.mem
  IN  CASE op = "LOAD_W" -> Respond(s, readWord(mem, address))
        [] op = "LOAD_HW" -> Respond(s, readHalfword(mem, address))
        [] op = "LOAD_B" -> Respond(s, readByte(mem, address))
        [] op = "STORE_W" -> Put(s, writeWord(mem, address, data))
        [] op = "STORE_HW" -> Put(s, writeHalfword(mem, address, data))
        [] op = "STORE_B" -> Put(s, writeByte(mem, address, data))
        [] op = "IPK_READ" ->
             LET n == PacketLength(mem, address)
             IN  [s EXCEPT !.flits = @ \o [k \in 1..n |->
                    [data |-> readWord(mem, address + 4 * (k - 1)), last |-> k = n]]]
        [] op = "MEMSET_LINE" ->
             Put(s, [w \in DOMAIN mem |-> IF getTag(4 * w) = getTag(address) THEN data
                                          ELSE mem[w]])
        [] op \in Atomics ->
             Put(Respond(s, readWord(mem, address)),
                 writeWord(mem, address, Combined(op, readWord(mem, address), data)))
        [] op \in NoEffect -> s
        [] OTHER -> [s EXCEPT !.failed = TRUE]
-----------------------------------------------------------------------------
(* The connection of a core.                                               *)

Payloads == {"PAYLOAD", "PAYLOAD_EOP"}
LineStores == {"STORE_LINE", "PUSH_LINE"}

numPayloadFlits(op) ==
  IF op \in LineStores THEN 8
  ELSE IF op \in Atomics \cup {"STORE_W", "STORE_CONDITIONAL", "STORE_HW", "STORE_B",
                               "MEMSET_LINE", "UPDATE_DIRECTORY_ENTRY",
                               "UPDATE_DIRECTORY_MASK"} THEN 1 ELSE 0

MagicState(mem) ==
  [mem |-> mem, flits |-> <<>>, opcode |-> "PAYLOAD_EOP", address |-> -1,
   payloadsRemaining |-> 0, failed |-> FALSE]

(* Back to rest when the last payload has come.                            *)
Settled(s) ==
  IF s.payloadsRemaining = 0 THEN [s EXCEPT !.opcode = "PAYLOAD_EOP", !.address = -1] ELSE s

(* A sendconfig brings the head of a request or one payload of it; eight   *)
(* payloads become eight stores of a word.                                 *)
sendConfig(s, op, result) ==
  IF op \in Payloads
  THEN IF s.opcode \in Payloads \/ s.payloadsRemaining = 0
       THEN [s EXCEPT !.failed = TRUE]
       ELSE Settled([operate(s, s.opcode, s.address, result)
                       EXCEPT !.address = s.address + BYTES_PER_WORD,
                              !.payloadsRemaining = s.payloadsRemaining - 1])
  ELSE LET begun == [s EXCEPT !.opcode = IF op \in LineStores THEN "STORE_W" ELSE op,
                              !.address = result, !.payloadsRemaining = numPayloadFlits(op)]
       IN  Settled(IF numPayloadFlits(op) = 0 THEN operate(begun, op, result, 0) ELSE begun)

(* Any other instruction brings all of its request; the second cycle of a  *)
(* store has nothing left to do.                                           *)
memoryInstruction(s, op, result, operand1) ==
  CASE op \in Payloads -> s
    [] op \in LineStores -> [s EXCEPT !.failed = TRUE]
    [] OTHER -> operate(s, op, result, IF numPayloadFlits(op) = 1 THEN operand1 ELSE 0)
=============================================================================
