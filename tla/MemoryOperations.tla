-------------------------- MODULE MemoryOperations --------------------------
(***************************************************************************)
(* The operations a memory bank is asked to perform                        *)
(* (src/src/Datatype/MemoryOperations).  A MemoryOperation object of the   *)
(* code is a record here: the fields of the head flit it was decoded from, *)
(* which never change, and the progress the object keeps.  The class       *)
(* hierarchy becomes one operator per virtual method, defined by opcode.   *)
(*                                                                         *)
(* An address is a cache-line tag and a word offset in the line; half-word *)
(* and byte accesses behave as the word accesses of their class, and the   *)
(* loads, stores and atomics of one class that differ in their arithmetic  *)
(* only are one opcode with AtomicUpdate left to the instance.             *)
(***************************************************************************)
EXTENDS Integers, Sequences, FiniteSets

CONSTANTS
    Tag,                \* tags of the cache lines in use
    WordsPerLine,       \* CACHE_LINE_WORDS
    NumLines,           \* lines in the bank's SRAM
    Dest,               \* channels that results are returned to
    CoreDest,           \* those of them that are input channels of local cores
    Val,                \* values of a memory word
    EndOfPacketWords,   \* the words that, fetched as instructions, end a packet
    AtomicUpdate(_, _), \* what an atomic operation stores: (original, payload)
    None                \* no value: a null pointer, or data not yet there

ASSUME LineAssumption ==
    /\ WordsPerLine \in Nat \ {0}
    /\ NumLines \in Nat \ {0}

ASSUME ValAssumption ==
    /\ {0, 1} \subseteq Val     \* the answers of a store-conditional
    /\ None \notin Val
    /\ EndOfPacketWords \subseteq Val
    /\ \A old, new \in Val : AtomicUpdate(old, new) \in Val

ASSUME DestAssumption == CoreDest \subseteq Dest

Off  == 0 .. WordsPerLine - 1
Line == 0 .. NumLines - 1

Loads     == {"LOAD_W", "LOAD_LINKED", "FETCH_LINE", "IPK_READ"}
Stores    == {"STORE_W", "STORE_LINE", "MEMSET_LINE", "PUSH_LINE"}
Atomics   == {"LOAD_AND_OP"}
LineOps   == {"VALIDATE_LINE", "FLUSH_LINE", "INVALIDATE_LINE"}
AllLines  == {"FLUSH_ALL_LINES", "INVALIDATE_ALL_LINES"}
Directory == {"UPDATE_DIRECTORY_ENTRY", "UPDATE_DIRECTORY_MASK"}
Opcode    == Loads \cup Stores \cup Atomics \cup LineOps \cup AllLines
                   \cup Directory \cup {"PREFETCH_LINE", "STORE_CONDITIONAL"}

(***************************************************************************)
(* A head flit.  `data` is what the requester will send as payload: the    *)
(* bank never looks at it, it says which words belong to this request.     *)
(***************************************************************************)
HeadFlit == [op : Opcode, tag : Tag, off : Off, dest : Dest, skip : BOOLEAN,
             data : Seq(Val)]

(***************************************************************************)
(* An operation in progress: `done` is iterationsComplete (`finished` for  *)
(* the two one-shot line operations); `saved` is what the first half of a  *)
(* two-phase operation leaves for the second (intermediateData, success,   *)
(* the word of a memset); `eop` is endOfPacketSeen; `fresh` is auxiliary:  *)
(* the line was claimed by validateLine() and not read from below.         *)
(***************************************************************************)
Operation == [op : Opcode, tag : Tag, off : Off, dest : Dest, skip : BOOLEAN,
              data : Seq(Val), done : Nat, saved : Val \cup {None},
              eop : BOOLEAN, fresh : BOOLEAN]

decodeMemoryRequest(h) ==
    [op |-> h.op, tag |-> h.tag, off |-> h.off, dest |-> h.dest,
     skip |-> h.skip, data |-> h.data,
     done |-> 0, saved |-> None, eop |-> FALSE, fresh |-> FALSE]

\* MEMORY_L1 when the request came from a core of this tile.
IsL1(r) == r.dest \in CoreDest

\* The words of a line count from its start, whatever the offset requested.
wholeLine(op) ==
    op \in {"FETCH_LINE", "PREFETCH_LINE", "STORE_LINE", "MEMSET_LINE", "PUSH_LINE"}

totalIterations(r) ==
    IF wholeLine(r.op) THEN WordsPerLine
    ELSE IF r.op = "IPK_READ" THEN WordsPerLine - r.off
    ELSE IF r.op \in AllLines THEN NumLines
    ELSE 1

\* getAddress(): the word the next iteration works on.
CurrentOff(r) == IF wholeLine(r.op) THEN r.done ELSE r.off + r.done

needsForwarding(r) == r.op \in Directory \/ r.skip

\* A requester that gave no return address gets no results.
HasReturnAddress(r) == r.op # "PREFETCH_LINE"

payloadFlitsRemaining(r) ==
    IF r.op \in Directory THEN 1
    ELSE IF r.op \in Stores \cup Atomics \cup {"STORE_CONDITIONAL"}
         THEN totalIterations(r) - r.done
         ELSE 0

\* A two-phase operation answers in its first phase, while nothing is saved.
resultFlitsRemaining(r) ==
    IF r.op \in Loads \cup {"PREFETCH_LINE"} THEN totalIterations(r) - r.done
    ELSE IF r.op \in Atomics \cup {"STORE_CONDITIONAL"}
         THEN totalIterations(r) - r.done - (IF r.saved = None THEN 0 ELSE 1)
         ELSE 0

awaitingPayload(r) == payloadFlitsRemaining(r) > 0
resultsToSend(r)   == resultFlitsRemaining(r) > 0

\* Operations that may run whether or not the line is in the cache.
NoPreconditions ==
    {"FLUSH_LINE", "INVALIDATE_LINE", "STORE_CONDITIONAL"} \cup AllLines \cup Directory

preconditionsMet(r, inCache) == r.op \in NoPreconditions \/ inCache

complete(r, inCache) ==
    CASE r.op = "PREFETCH_LINE" -> inCache
      [] r.op \in {"FLUSH_LINE", "INVALIDATE_LINE"} -> r.done = 1
      [] OTHER -> /\ preconditionsMet(r, inCache)
                  /\ r.eop \/ r.done = totalIterations(r)

\* prepare(): a whole line about to be written needs no data from below.
claimsLine(r) == r.op \in {"STORE_LINE", "MEMSET_LINE", "PUSH_LINE", "VALIDATE_LINE"}

\* execute(): the bookkeeping of a successful iteration.
Iterated(r) == [r EXCEPT !.done = @ + 1]

(***************************************************************************)
(* How many payload flits a requester sends: one per word, but the memory  *)
(* bank reuses the single word of a memset.                                *)
(***************************************************************************)
payloadFlits(op) ==
    IF op \in {"STORE_LINE", "PUSH_LINE"} THEN WordsPerLine
    ELSE IF op \in {"STORE_W", "MEMSET_LINE", "STORE_CONDITIONAL"}
                   \cup Atomics \cup Directory THEN 1
    ELSE 0

=============================================================================
