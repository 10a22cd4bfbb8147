----------------------- MODULE InstructionPacketCache -----------------------
(* The instruction store with tags (InstructionPacketCache around              *)
(* IPKCacheFullyAssociative): a circular buffer that packets are written to in *)
(* the order they arrive, and tags that point at where packets begin.          *)
EXTENDS Integers, FiniteSets

LOCAL INSTANCE TLC

CONSTANTS CacheSize, NumTags, MaxPacket

ASSUME CacheAssumption ==
    /\ CacheSize \in Nat \ {0} /\ NumTags \in Nat \ {0} /\ MaxPacket \in Nat

LOCAL None == -1
LOCAL Cell(n) == n % CacheSize

NewTags ==
    [tags |-> [i \in 0..(NumTags - 1) |-> None],
     packetPointers |-> [i \in 0..(NumTags - 1) |-> None],
     nextTag |-> NumTags - 1]

NewPacketCache ==
    NewTags @@
    [data |-> [i \in 0..(CacheSize - 1) |-> 0],
     fresh |-> {},
     readPointer |-> 0,
     writePointer |-> None,
     jumpAmount |-> 0,
     finishedPacketRead |-> TRUE,
     finishedPacketWrite |-> TRUE,
     lastOpWasARead |-> TRUE]

CacheIsEmpty(c) == c.readPointer = c.writePointer /\ c.lastOpWasARead

(* Equal pointers mean full or empty. The read pointer lags by one. *)
FillCount(c) ==
    LET between == CASE c.writePointer # c.readPointer -> Cell(c.writePointer - c.readPointer)
                     [] c.lastOpWasARead -> 0
                     [] OTHER -> CacheSize
    IN  CASE ~(c.finishedPacketRead /\ ~c.finishedPacketWrite) -> between
          [] between = CacheSize -> 1
          [] OTHER -> between + 1

CacheIsFull(c) == FillCount(c) = CacheSize

RemainingSpace(c) ==
    IF c.finishedPacketRead /\ c.finishedPacketWrite THEN CacheSize
    ELSE CacheSize - FillCount(c)

CanFetch(c) == RemainingSpace(c) > MaxPacket + 1

(* Where the next instruction will be read from: jumps are made only now. *)
NextRead(c) ==
    CASE c.finishedPacketRead -> c.readPointer
      [] c.jumpAmount # 0 -> Cell(c.readPointer + c.jumpAmount)
      [] OTHER -> Cell(c.readPointer + 1)

CacheRead(c, isEnd) ==
    [c EXCEPT !.readPointer = NextRead(c),
              !.jumpAmount = IF c.finishedPacketRead THEN @ ELSE 0,
              !.fresh = @ \ {NextRead(c)},
              !.finishedPacketRead = isEnd,
              !.lastOpWasARead = TRUE]

WriteTo(c) == Cell(c.writePointer + 1)

(* Faulty variant: the tags of the overwritten cell are kept. *)
CacheStoreKeepsTags(c, inst, isEnd) ==
    LET pos == WriteTo(c)
    IN  [c EXCEPT !.writePointer = pos, !.data[pos] = inst, !.fresh = @ \cup {pos},
                  !.finishedPacketWrite = isEnd, !.lastOpWasARead = FALSE]

(* A tag whose packet begins in the cell that is overwritten becomes invalid. *)
TagsWithout(c, pos) == [i \in DOMAIN c.tags |-> IF c.packetPointers[i] = pos THEN None ELSE c.tags[i]]

CacheStore(c, inst, isEnd) ==
    LET pos == WriteTo(c)
    IN  [c EXCEPT !.writePointer = pos,
                  !.data[pos] = inst,
                  !.fresh = @ \cup {pos},
                  !.tags = TagsWithout(c, pos),
                  !.finishedPacketWrite = isEnd,
                  !.lastOpWasARead = FALSE]

SetTag(c, tag) ==
    LET t == (c.nextTag + 1) % NumTags
    IN  [c EXCEPT !.nextTag = t, !.tags[t] = tag, !.packetPointers[t] = c.writePointer]

CacheLookup(c, tag) ==
    LET hits == {i \in DOMAIN c.tags : c.tags[i] = tag}
    IN  IF hits = {} THEN None
        ELSE c.packetPointers[CHOOSE i \in hits : \A j \in hits : i <= j]

CacheStartPacket(c, pos) == [c EXCEPT !.readPointer = Cell(pos), !.lastOpWasARead = FALSE]

CacheCancelPacket(c) == [c EXCEPT !.finishedPacketRead = TRUE]

(* Faulty variant: a packet that has ended is not resumed. *)
CacheJumpAtEnd(c, offset) == [c EXCEPT !.jumpAmount = offset, !.lastOpWasARead = FALSE]

CacheJump(c, offset) ==
    [c EXCEPT !.jumpAmount = offset, !.lastOpWasARead = FALSE, !.finishedPacketRead = FALSE]
=============================================================================
