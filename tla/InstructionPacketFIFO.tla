----------------------- MODULE InstructionPacketFIFO -----------------------
(* The instruction store that other cores write to (InstructionPacketFIFO). It *)
(* remembers where the last packet began and under which tag, so that a tight  *)
(* loop can be read again without being fetched. Its buffer is the circular     *)
(* buffer of Network/FIFOs/FIFO.h that every queue of the simulator is made of:  *)
(* an array, two pointers that wrap around, and a count of what is stored        *)
(* between them.                                                               *)
EXTENDS Integers

(* LoopCounter: a pointer into an array of n cells. *)
Wrap(n, size) == n % size

NewFIFO(size, value) ==
    [data |-> [i \in 0..(size - 1) |-> value], size |-> size,
     readPos |-> 0, writePos |-> 0, fillCount |-> 0]

Empty(f) == f.fillCount = 0
Full(f) == f.fillCount = f.size

(* The value that peek() and read() return. *)
Peek(f) == f.data[f.readPos]

Pop(f) ==
    [f EXCEPT !.readPos = Wrap(@ + 1, f.size), !.fillCount = @ - 1]

Push(f, value) ==
    [f EXCEPT !.data[f.writePos] = value,
              !.writePos = Wrap(@ + 1, f.size), !.fillCount = @ + 1]

DiscardTop(f) == IF Empty(f) THEN f ELSE Pop(f)

(* The count is worked out anew, and equal pointers make it zero: a full *)
(* buffer whose read pointer is set to where its contents begin is empty. *)
SetReadPointer(f, pos) ==
    LET p == Wrap(pos, f.size)
    IN  [f EXCEPT !.readPos = p, !.fillCount = Wrap(f.writePos - p, f.size)]

(* A cell counted from one before a pointer, as lastDataRead() asks for it. *)
DebugRead(f, pos) == f.data[Wrap(pos, f.size)]

(* The values still to be read, oldest first. *)
Contents(f) == [i \in 1..f.fillCount |-> f.data[Wrap(f.readPos + i - 1, f.size)]]

(* Where they are. *)
Occupied(f) == {Wrap(f.readPos + i, f.size) : i \in 0..(f.fillCount - 1)}
-----------------------------------------------------------------------------
(* The store.                                                                  *)
NotInCache == -1
DefaultTag == -1

NewPacketFIFO(size) ==
    [buffer |-> NewFIFO(size, 0),
     fresh |-> {},                  \* cells that have not been read yet
     tag |-> DefaultTag,
     startOfPacket |-> NotInCache,
     tagMatched |-> FALSE,
     finishedPacketWrite |-> TRUE]

FifoIsEmpty(s) == Empty(s.buffer) /\ ~s.tagMatched
FifoIsFull(s) == Full(s.buffer)

(* write(): tag is what newPacketArriving() returns if a packet starts here. *)
FifoStore(s, inst, isEnd, tag) ==
    LET pos == s.buffer.writePos
        stored == [s EXCEPT !.buffer = Push(@, inst),
                            !.fresh = @ \cup {pos},
                            !.finishedPacketWrite = isEnd]
    IN  CASE s.finishedPacketWrite -> [stored EXCEPT !.tag = tag, !.startOfPacket = pos]
          [] ~s.finishedPacketWrite /\ pos = s.startOfPacket ->
                [stored EXCEPT !.tag = DefaultTag, !.startOfPacket = NotInCache]
          [] OTHER -> stored

FifoRead(s) ==
    [s EXCEPT !.buffer = Pop(@), !.fresh = @ \ {s.buffer.readPos}]

FifoLookup(s, tag) == IF s.tag = tag THEN s.startOfPacket ELSE NotInCache
FifoLookedUp(s, tag) == IF s.tag = tag THEN [s EXCEPT !.tagMatched = TRUE] ELSE s

FifoStartPacket(s, pos) ==
    [s EXCEPT !.buffer = SetReadPointer(@, pos), !.tagMatched = FALSE]

FifoCancelPacket(s) == [s EXCEPT !.buffer = SetReadPointer(@, @.writePos)]

FifoJump(s, amount) ==
    [s EXCEPT !.buffer = SetReadPointer(@, @.readPos + amount - 1)]
=============================================================================
