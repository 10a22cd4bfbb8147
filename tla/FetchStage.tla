----------------------------- MODULE FetchStage -----------------------------
(* The first stage of a core's pipeline, its two instruction stores, and what  *)
(* the decode stage makes it do. readLoop() hands the instructions of one      *)
(* packet after the other to the pipeline register; writeLoop() looks up the   *)
(* packets that the program fetches, and has those that are missing sent from  *)
(* memory, a cache line at a time; other cores put packets into the FIFO.      *)
(*                                                                             *)
(* An instruction is the address it was loaded from. A process runs when it    *)
(* waits for nothing; the clock only decides when, and the model lets it be    *)
(* at any time.                                                                *)
EXTENDS InstructionPacketFIFO, InstructionPacketCache, Sequences

LOCAL INSTANCE SequencesExt

CONSTANTS
    LineWords,      \* instructions in a cache line
    Ends,           \* instructions that are marked as the end of a packet
    Boot,           \* the packet that is in the cache at the start
    Packets,        \* the packets in memory, by their first instruction
    Remote,         \* the packets that other cores send
    FifoSize,
    ReturnChannels, \* the store that packets are fetched to: 0 FIFO, 1 cache
    Operations,     \* of {"fetch", "fetchpst", "fill"}
    Back, Ahead,    \* how far the jumps within a packet go
    MaxFetches, MaxJumps, MaxRemote, MaxNxipk, MaxEvents,
    Allows          \* what the environment may do besides (see README)

VARIABLES
    cache, fifo,            \* the instruction stores
    readState, writeState,  \* of readLoop() and writeLoop()
    readWait, writeWait,    \* the events that each waits for
    currentPacket, fifoPendingPacket, cachePendingPacket,
    fetchBuffer, activeFetch,
    currentInst,            \* what was read last, and from where
    request,                \* oFetchRequest: an address and a return channel
    slot,                   \* the pipeline register between fetch and decode
    toCache, toFifo,        \* instructions on their way over the network
    decoding,               \* the instruction in the decode stage
    suppress, inPrevious,   \* fetchSuppressionMode, fetchInPreviousPacket
    fetches, jumps, remotes, nxipks,    \* how often the program did what
    failed                  \* the assertions that have failed

stores == <<cache, fifo>>
loops == <<readState, writeState, readWait, writeWait>>
packets == <<currentPacket, fifoPendingPacket, cachePendingPacket>>
fetching == <<fetchBuffer, activeFetch, request>>
network == <<toCache, toFifo>>
decode == <<decoding, suppress, inPrevious>>
counts == <<fetches, jumps, remotes, nxipks>>
vars == <<stores, loops, packets, fetching, currentInst, slot, network, decode, counts, failed>>

NXIPK == -2
Nothing == 0
IsEnd(inst) == inst \in Ends

(* PacketInfo: reset() leaves the component as it is. *)
Reset(p) == [p EXCEPT !.memAddr = DefaultTag, !.index = NotInCache,
                      !.inCache = FALSE, !.execute = TRUE, !.persistent = FALSE]
NoPacket == Reset([memAddr |-> DefaultTag, component |-> "unknown", index |-> NotInCache,
                   inCache |-> FALSE, execute |-> TRUE, persistent |-> FALSE])
Active(p) == p.memAddr # DefaultTag
Arriving(p) == Active(p) /\ ~p.inCache /\ p.index # NotInCache

StoreFor(channel) == IF channel = 0 THEN "fifo" ELSE "cache"

(* Faulty variant: the reader always waits for the cache. *)
WriteEventOfCache(store) == "cacheWrite"

WriteEvent(store) == IF store = "fifo" THEN "fifoWrite" ELSE "cacheWrite"
ReadEvent(store) == IF store = "fifo" THEN "fifoRead" ELSE "cacheRead"

(* A process that waits for one of these events may run. *)
Heard(wait, events) == IF wait \cap events # {} THEN {} ELSE wait
Notify(events) ==
    /\ readWait' = Heard(readWait, events)
    /\ writeWait' = Heard(writeWait, events)

(* A failed assertion ends the simulation. *)
Check(name, condition) == failed' = IF condition THEN failed ELSE failed \cup {name}
Running == failed = {}

(***************************************************************************)
(* readLoop(): from the stores to the pipeline register                    *)
(***************************************************************************)
SourceIsEmpty == IF currentPacket.component = "fifo" THEN FifoIsEmpty(fifo) ELSE CacheIsEmpty(cache)

StartPacket(p) ==
    IF p.component = "fifo"
    THEN fifo' = FifoStartPacket(fifo, p.index) /\ UNCHANGED cache
    ELSE cache' = CacheStartPacket(cache, p.index) /\ UNCHANGED fifo

(* switchToPacket(): the packet may not have begun to arrive. *)
SwitchTo(p) ==
    IF p.index = NotInCache
    THEN /\ readWait' = {WriteEvent(p.component)}
         /\ UNCHANGED <<stores, readState, currentPacket>>
    ELSE /\ currentPacket' = p
         /\ StartPacket(p)
         /\ readState' = "RS_READ"
         /\ UNCHANGED readWait

Runnable(p) == Active(p) /\ p.execute

SwitchToFifo ==
    /\ Runnable(fifoPendingPacket)
    /\ SwitchTo(fifoPendingPacket)
    /\ fifoPendingPacket' = IF fifoPendingPacket.index = NotInCache
                            THEN fifoPendingPacket ELSE Reset(fifoPendingPacket)
    /\ UNCHANGED cachePendingPacket

Restart ==
    /\ ~Runnable(fifoPendingPacket) /\ currentPacket.persistent
    /\ StartPacket(currentPacket)
    /\ readState' = "RS_READ"
    /\ UNCHANGED <<readWait, packets>>

SwitchToCache ==
    /\ ~Runnable(fifoPendingPacket) /\ ~currentPacket.persistent
    /\ Runnable(cachePendingPacket)
    /\ SwitchTo(cachePendingPacket)
    /\ cachePendingPacket' = IF cachePendingPacket.index = NotInCache
                             THEN cachePendingPacket ELSE Reset(cachePendingPacket)
    /\ UNCHANGED fifoPendingPacket

WaitForPacket ==
    /\ ~Runnable(fifoPendingPacket) /\ ~currentPacket.persistent
    /\ ~Runnable(cachePendingPacket)
    /\ readWait' = {"newPacket"}
    /\ UNCHANGED <<stores, readState, packets>>

NextPacket ==
    /\ Running /\ readState = "RS_READY" /\ readWait = {}
    /\ SwitchToFifo \/ Restart \/ SwitchToCache \/ WaitForPacket
    /\ UNCHANGED <<writeState, writeWait, fetching, currentInst, slot, network, decode, counts, failed>>

WaitForInstruction ==
    /\ Running /\ readState = "RS_READ" /\ readWait = {} /\ SourceIsEmpty
    /\ readWait' = {WriteEvent(currentPacket.component)}
    /\ UNCHANGED <<stores, readState, writeState, writeWait, packets, fetching, currentInst,
                   slot, network, decode, counts, failed>>

(* The instruction that is read; a FIFO may be read that only seems not empty. *)
NextInstruction ==
    IF currentPacket.component = "fifo" THEN Peek(fifo.buffer) ELSE cache.data[NextRead(cache)]

ReadInstruction ==
    /\ Running /\ readState = "RS_READ" /\ readWait = {} /\ ~SourceIsEmpty
    /\ slot = <<>>
    /\ LET inst == NextInstruction
           once == IsEnd(inst) /\ currentPacket.persistent /\ currentPacket.memAddr = inst
           read == [inst |-> inst, source |-> currentPacket.component, persistent |-> once]
       IN  /\ currentInst' = read
           /\ slot' = <<read>>
           /\ currentPacket' = [currentPacket EXCEPT !.persistent = @ /\ ~once]
           /\ readState' = IF IsEnd(inst) THEN "RS_READY" ELSE "RS_READ"
           /\ IF currentPacket.component = "fifo"
              THEN /\ fifo' = FifoRead(fifo) /\ UNCHANGED cache
                   /\ failed' = failed
                        \cup (IF Empty(fifo.buffer) THEN {"read of an empty FIFO"} ELSE {})
                        \cup (IF inst = Nothing THEN {"junk instruction"} ELSE {})
              ELSE /\ cache' = CacheRead(cache, IsEnd(inst)) /\ UNCHANGED fifo
                   /\ Check("junk instruction", inst # Nothing)
    /\ Notify({ReadEvent(currentPacket.component)})
    /\ UNCHANGED <<writeState, fifoPendingPacket, cachePendingPacket, fetching, network, decode, counts>>

ReadLoop == NextPacket \/ WaitForInstruction \/ ReadInstruction

(***************************************************************************)
(* writeLoop(): from the fetch buffer to a request for a line              *)
(***************************************************************************)
RoomToFetch == CanFetch(cache) /\ (~Active(currentPacket) \/ currentPacket.inCache)

(* The request's signal must be free; the write stage empties it. *)
SendRequest(address, channel) ==
    /\ request' = <<[address |-> address, channel |-> channel]>>
    /\ Check("request not taken yet", request = <<>>)
    /\ writeWait' = {WriteEvent(StoreFor(channel))}

(* WS_READY: the buffer is not empty, there is room, nothing is pending. *)
BeginFetch ==
    /\ Running /\ writeState = "WS_READY" /\ writeWait = {}
    /\ fetchBuffer # <<>>
    /\ IF ~RoomToFetch
       THEN writeWait' = {"cacheRead", "fifoRead"} /\ UNCHANGED writeState
       ELSE /\ ~Active(fifoPendingPacket) /\ ~Active(cachePendingPacket)
            /\ request = <<>>
            /\ writeState' = "WS_FETCH" /\ UNCHANGED writeWait
    /\ UNCHANGED <<stores, readState, readWait, packets, fetching, currentInst, slot, network,
                   decode, counts, failed>>

(* inCache(): where the packet is, in the order in which lookup() asks. *)
Location(fetch) ==
    CASE FifoLookup(fifo, fetch.address) # NotInCache ->
            [component |-> "fifo", index |-> FifoLookup(fifo, fetch.address)]
      [] CacheLookup(cache, fetch.address) # NotInCache ->
            [component |-> "cache", index |-> CacheLookup(cache, fetch.address)]
      [] OTHER -> [component |-> StoreFor(fetch.channel), index |-> NotInCache]

LookUp ==
    /\ Running /\ writeState = "WS_FETCH" /\ writeWait = {}
    /\ LET fetch == Head(fetchBuffer)
           at == Location(fetch)
           found == at.index # NotInCache
           asked == [memAddr |-> fetch.address, component |-> at.component, index |-> at.index,
                     inCache |-> found, execute |-> fetch.operation # "fill",
                     persistent |-> fetch.operation = "fetchpst"]
           packet == IF found /\ ~asked.execute THEN Reset(asked) ELSE asked
           hits == (IF FifoLookup(fifo, fetch.address) # NotInCache THEN {"fifoWrite"} ELSE {})
                   \cup (IF CacheLookup(cache, fetch.address) # NotInCache THEN {"cacheWrite"} ELSE {})
       IN  /\ activeFetch' = [fetch EXCEPT !.complete = FALSE]
           /\ fetchBuffer' = Tail(fetchBuffer)
           /\ fifo' = FifoLookedUp(fifo, fetch.address)
           /\ fifoPendingPacket' = CASE at.component = "fifo" -> packet
                                     [] fetch.channel = 0 -> Reset(fifoPendingPacket)
                                     [] OTHER -> fifoPendingPacket
           /\ cachePendingPacket' = CASE at.component = "cache" -> packet
                                      [] fetch.channel # 0 -> Reset(cachePendingPacket)
                                      [] OTHER -> cachePendingPacket
           /\ readWait' = Heard(readWait, hits \cup {"newPacket"})
           /\ IF found
              THEN writeState' = "WS_READY" /\ UNCHANGED <<request, failed, writeWait>>
              ELSE writeState' = "WS_RECEIVE" /\ SendRequest(fetch.address, fetch.channel)
    /\ UNCHANGED <<cache, readState, currentPacket, currentInst, slot, network, decode, counts>>

LineBoundary(address) == address % LineWords = 0

(* WS_RECEIVE: woken by a write to the store, or by what passes for one. *)
Receive ==
    /\ Running /\ writeState = "WS_RECEIVE" /\ writeWait = {}
    /\ \/ /\ activeFetch.complete
          /\ writeState' = "WS_READY" /\ UNCHANGED writeWait
       \/ /\ ~activeFetch.complete /\ LineBoundary(activeFetch.address)
          /\ writeState' = "WS_CONTINUE" /\ UNCHANGED writeWait
       \/ /\ ~activeFetch.complete /\ ~LineBoundary(activeFetch.address)
          /\ writeWait' = {WriteEvent(StoreFor(activeFetch.channel))} /\ UNCHANGED writeState
    /\ UNCHANGED <<stores, readState, readWait, packets, fetching, currentInst, slot, network,
                   decode, counts, failed>>

RequestNextLine ==
    /\ Running /\ writeState = "WS_CONTINUE" /\ writeWait = {}
    /\ IF ~CanFetch(cache)
       THEN writeWait' = {"cacheRead"} /\ UNCHANGED <<writeState, request, failed>>
       ELSE /\ request = <<>>
            /\ SendRequest(activeFetch.address, activeFetch.channel)
            /\ writeState' = "WS_RECEIVE"
    /\ UNCHANGED <<stores, readState, readWait, packets, fetchBuffer, activeFetch, currentInst, slot,
                   network, decode, counts>>

WriteLoop == BeginFetch \/ LookUp \/ Receive \/ RequestNextLine

(***************************************************************************)
(* Instructions arrive                                                     *)
(***************************************************************************)
(* The rest of the line from an address on, up to the end of the packet. *)
LineFrom(address) ==
    LET last == CHOOSE n \in address..(address + LineWords - 1) :
                    /\ IsEnd(n) \/ LineBoundary(n + 1)
                    /\ \A m \in address..(n - 1) : ~IsEnd(m) /\ ~LineBoundary(m + 1)
    IN  [i \in 1..(last - address + 1) |-> address + i - 1]

(* The write stage sends the request, and memory answers it (external). *)
MemoryAnswers ==
    /\ Running /\ request # <<>>
    /\ LET asked == Head(request)
       IN  IF asked.channel = 0
           THEN toFifo' = toFifo \o LineFrom(asked.address) /\ UNCHANGED toCache
           ELSE toCache' = toCache \o LineFrom(asked.address) /\ UNCHANGED toFifo
    /\ request' = <<>>
    /\ UNCHANGED <<stores, loops, packets, fetchBuffer, activeFetch, currentInst, slot, decode,
                   counts, failed>>

(* fifoInstructionArrived(), cacheInstructionArrived() *)
Counted(channel, inst) ==
    IF activeFetch.channel = channel
    THEN [activeFetch EXCEPT !.address = @ + 1, !.complete = IsEnd(inst)]
    ELSE activeFetch

(* newPacketArriving(): a packet that nobody fetched has the address 0. *)
Announced(pending, store, pos) ==
    [pending EXCEPT !.component = store, !.index = pos,
                    !.memAddr = IF @ = DefaultTag THEN 0 ELSE @]

(* packetFinishedArriving(): the first packet that is not complete. *)
Finished(p) == IF p.execute THEN [p EXCEPT !.inCache = TRUE] ELSE Reset(p)
IsForCurrent(store) ==
    Active(currentPacket) /\ ~currentPacket.inCache /\ currentPacket.component = store

Finish(store, pending) ==
    IF IsForCurrent(store)
    THEN [current |-> Finished(currentPacket), pending |-> pending]
    ELSE [current |-> currentPacket, pending |-> Finished(pending)]

ToCache ==
    /\ Running /\ toCache # <<>> /\ ~CacheIsFull(cache)
    /\ LET inst == Head(toCache)
           begins == cache.finishedPacketWrite
           written == CacheStore(cache, inst, IsEnd(inst))
           pending == IF begins THEN Announced(cachePendingPacket, "cache", written.writePointer)
                      ELSE cachePendingPacket
           after == IF IsEnd(inst) THEN Finish("cache", pending)
                    ELSE [current |-> currentPacket, pending |-> pending]
       IN  /\ toCache' = Tail(toCache)
           /\ activeFetch' = Counted(1, inst)
           /\ cache' = IF begins THEN SetTag(written, pending.memAddr) ELSE written
           /\ currentPacket' = after.current
           /\ cachePendingPacket' = after.pending
           /\ Notify({"cacheWrite"} \cup (IF begins THEN {"newPacket"} ELSE {}))
    /\ UNCHANGED <<fifo, readState, writeState, fifoPendingPacket, fetchBuffer, request, currentInst,
                   slot, toFifo, decode, counts, failed>>

ToFifo ==
    /\ Running /\ toFifo # <<>> /\ Head(toFifo) # NXIPK /\ ~FifoIsFull(fifo)
    /\ LET inst == Head(toFifo)
           begins == fifo.finishedPacketWrite
           pending == IF begins THEN Announced(fifoPendingPacket, "fifo", fifo.buffer.writePos)
                      ELSE fifoPendingPacket
           after == IF IsEnd(inst) THEN Finish("fifo", pending)
                    ELSE [current |-> currentPacket, pending |-> pending]
       IN  /\ toFifo' = Tail(toFifo)
           /\ activeFetch' = Counted(0, inst)
           /\ fifo' = FifoStore(fifo, inst, IsEnd(inst), pending.memAddr)
           /\ currentPacket' = after.current
           /\ fifoPendingPacket' = after.pending
           /\ Notify({"fifoWrite"} \cup (IF begins THEN {"newPacket"} ELSE {}))
    /\ UNCHANGED <<cache, readState, writeState, cachePendingPacket, fetchBuffer, request, currentInst,
                   slot, toCache, decode, counts, failed>>

(* nextIPK(): NXIPK is not stored. It ends the repetition of a packet, and    *)
(* moves the read position; readLoop() goes on with what it was at. The core  *)
(* discards what is in the pipeline register, and the decode stage gives up   *)
(* an instruction that waits for its operands.                                *)
NextIPK(waiting) ==
    /\ Running /\ toFifo # <<>> /\ Head(toFifo) = NXIPK /\ ~FifoIsFull(fifo)
    /\ toFifo' = Tail(toFifo)
    /\ activeFetch' = Counted(0, NXIPK)
    /\ currentPacket' = [currentPacket EXCEPT !.persistent = FALSE,
                                              !.execute = @ /\ ~Arriving(currentPacket)]
    /\ fifo' = IF currentPacket.component = "fifo" THEN FifoCancelPacket(fifo) ELSE fifo
    /\ cache' = IF currentPacket.component = "cache" THEN CacheCancelPacket(cache) ELSE cache
    /\ slot' = <<>>
    /\ decoding' = IF waiting THEN <<>> ELSE decoding
    /\ UNCHANGED <<loops, fifoPendingPacket, cachePendingPacket, fetchBuffer, request, currentInst,
                   toCache, suppress, inPrevious, counts, failed>>

(***************************************************************************)
(* The decode stage, and other cores                                       *)
(***************************************************************************)
Repeats == decoding # <<>> /\ Head(decoding).persistent
Decodes == decoding # <<>> /\ ~Head(decoding).looping

(* prepareNextInstruction(): an instruction that repeats has been completed    *)
(* for it, and is written over; the loop goes on with the one that is taken.   *)
Take ==
    /\ Running /\ slot # <<>> /\ ~Decodes
    /\ LET read == Head(slot)
           looping == decoding # <<>>
       IN  decoding' = <<[inst |-> read.inst, source |-> read.source, looping |-> looping,
                          persistent |-> read.persistent \/ looping]>>
    /\ slot' = <<>>
    /\ UNCHANGED <<stores, loops, packets, fetching, currentInst, network, suppress, inPrevious, counts,
                   failed>>

(* The bounds on what programs do. *)
MayAct(count, max) == count < max /\ fetches + jumps + remotes + nxipks < MaxEvents

(* The instructions of a packet. *)
PacketFrom(first) ==
    LET last == CHOOSE n \in first..(first + FifoSize + CacheSize) :
                    IsEnd(n) /\ \A m \in first..(n - 1) : ~IsEnd(m)
    IN  [i \in 1..(last - first + 1) |-> first + i - 1]

(* The end of newInput(): after a packet, fetches have an effect again, but  *)
(* not after an interrupt of a packet that had fetched its successor. An      *)
(* instruction that repeats stays.                                            *)
LeaveDecode(inst, suppressing) ==
    /\ decoding' = IF inst.persistent THEN <<[inst EXCEPT !.looping = TRUE]>> ELSE <<>>
    /\ IF IsEnd(inst.inst)
       THEN /\ inPrevious' = IF inst.source = "cache" THEN suppressing ELSE inPrevious
            /\ suppress' = (suppressing /\ inst.source = "fifo" /\ inPrevious)
       ELSE suppress' = suppressing /\ UNCHANGED inPrevious

Execute ==
    /\ Running /\ Decodes
    /\ LeaveDecode(Head(decoding), suppress)
    /\ UNCHANGED <<stores, loops, packets, fetching, currentInst, slot, network, counts, failed>>

(* The packet that repeats has been switched to, and nothing of it read. *)
NewLoop ==
    /\ currentPacket.persistent /\ readState = "RS_READ"
    /\ currentInst.inst \notin ToSet(PacketFrom(currentPacket.memAddr))

CanCheckTags == fetchBuffer = <<>>

(* fetch(), and checkTags(): the request waits in the buffer. A packet that *)
(* repeats does so no more.                                                  *)
Fetch(address, operation, channel) ==
    /\ Running /\ Decodes /\ MayAct(fetches, MaxFetches) /\ ~Repeats
    /\ suppress \/ CanCheckTags
    /\ "fetch over a new loop" \in Allows \/ ~NewLoop
    /\ IF suppress
       THEN UNCHANGED <<fetchBuffer, readState, readWait, currentPacket>>
       ELSE /\ fetchBuffer' = Append(fetchBuffer, [address |-> address, operation |-> operation,
                                                   channel |-> channel, complete |-> FALSE])
            /\ currentPacket' = [currentPacket EXCEPT !.persistent = FALSE]
            /\ readState' = IF currentPacket.persistent /\ IsEnd(currentInst.inst)
                            THEN "RS_READY" ELSE readState
            /\ UNCHANGED readWait
    /\ LeaveDecode(Head(decoding), TRUE)
    /\ fetches' = fetches + 1
    /\ UNCHANGED <<stores, writeState, writeWait, fifoPendingPacket, cachePendingPacket, activeFetch, request,
                   currentInst, slot, network, jumps, remotes, nxipks, failed>>

(* ibjmp, and jump(): the instruction after it is discarded if it has been *)
(* read, and the stores count from the instruction read last.               *)
JumpBy(offset) ==
    /\ IF currentPacket.component = "fifo"
       THEN fifo' = FifoJump(fifo, offset) /\ Notify({"newPacket"}) /\ UNCHANGED cache
       ELSE cache' = CacheJump(cache, offset) /\ Notify({"newPacket", "cacheWrite"}) /\ UNCHANGED fifo
    /\ readState' = "RS_READ"

(* What a program does: it jumps to where the packet has an instruction, not *)
(* to the next one unless Allows has "jump by one". A jump is decoded at once *)
(* unless Allows has "late jump": the read loop has    *)
(* not gone on to another packet; and unless it has "jump under fetch", while  *)
(* no line is on its way.                                                      *)
MovedOn(inst) ==
    \/ currentInst.inst \notin {inst, inst + 1}
    \/ readState = "RS_READ" /\ IsEnd(currentInst.inst)
    \/ currentPacket.component = "cache" /\ cache.data[cache.readPointer] # currentInst.inst

MayJump(inst, offset) ==
    /\ offset # 0 /\ (offset # 1 \/ "jump by one" \in Allows)
    /\ \A n \in inst..(inst + offset - 1) \cup (inst + offset)..(inst - 1) : ~IsEnd(n)
    /\ \E p \in Packets : p <= inst + offset /\ \A n \in p..(inst + offset - 1) : ~IsEnd(n)
    /\ offset > 0 => currentPacket.inCache
    /\ "late jump" \in Allows \/ ~MovedOn(inst)
    /\ "jump under fetch" \in Allows \/ writeState # "WS_RECEIVE"

Jump(offset) ==
    /\ Running /\ Decodes /\ MayAct(jumps, MaxJumps)
    /\ MayJump(Head(decoding).inst, offset)
    /\ JumpBy(IF slot # <<>> THEN offset - 1 ELSE offset)
    /\ slot' = <<>>
    /\ LeaveDecode(Head(decoding), suppress)
    /\ jumps' = jumps + 1
    /\ UNCHANGED <<writeState, packets, fetching, currentInst, network, fetches, remotes, nxipks, failed>>

(* Another core sends a packet: one at a time, unless Allows has "remote      *)
(* packets in a row".                                                          *)
RemotePacket(p) ==
    /\ Running /\ MayAct(remotes, MaxRemote)
    /\ "remote packets in a row" \in Allows \/ (toFifo = <<>> /\ ~Active(fifoPendingPacket))
    /\ toFifo' = toFifo \o PacketFrom(p)
    /\ remotes' = remotes + 1
    /\ UNCHANGED <<stores, loops, packets, fetching, currentInst, slot, toCache, decode, fetches, jumps,
                   nxipks, failed>>

RemoteNxipk ==
    /\ Running /\ MayAct(nxipks, MaxNxipk)
    /\ toFifo' = Append(toFifo, NXIPK)
    /\ nxipks' = nxipks + 1
    /\ UNCHANGED <<stores, loops, packets, fetching, currentInst, slot, toCache, decode, fetches, jumps,
                   remotes, failed>>

(* NXIPK comes between two packets, unless Allows has "nxipk in a packet"; it *)
(* finds a repeated instruction waiting for an operand, unless Allows has      *)
(* "nxipk unheard".                                                            *)
Nxipk ==
    /\ "nxipk in a packet" \in Allows \/ readState = "RS_READY"
    /\ \/ NextIPK(Repeats)
       \/ "nxipk unheard" \in Allows /\ Repeats /\ NextIPK(FALSE)

(***************************************************************************)
(* The specification                                                       *)
(***************************************************************************)
(* storeCode(): the first packet is written to the cache before the start. *)
Loaded == FoldLeft(LAMBDA c, inst : CacheStore(c, inst, IsEnd(inst)), NewPacketCache, PacketFrom(Boot))

InitStores == cache = Loaded /\ fifo = NewPacketFIFO(FifoSize)

(* It is pending from the start, at the address 0. *)
LoadedPacket == [NoPacket EXCEPT !.memAddr = 0, !.component = "cache", !.index = 0, !.inCache = TRUE]

Init ==
    /\ InitStores
    /\ readState = "RS_READY" /\ writeState = "WS_READY" /\ readWait = {} /\ writeWait = {}
    /\ currentPacket = NoPacket /\ fifoPendingPacket = NoPacket
    /\ cachePendingPacket = LoadedPacket
    /\ fetchBuffer = <<>>
    /\ activeFetch = [address |-> 0, operation |-> "fetch", channel |-> 0, complete |-> FALSE]
    /\ currentInst = [inst |-> Nothing, source |-> "unknown", persistent |-> FALSE]
    /\ request = <<>> /\ slot = <<>> /\ toCache = <<>> /\ toFifo = <<>> /\ decoding = <<>>
    /\ suppress = FALSE /\ inPrevious = FALSE
    /\ fetches = 0 /\ jumps = 0 /\ remotes = 0 /\ nxipks = 0
    /\ failed = {}

DecodeStage ==
    \/ Take
    \/ Execute
    \/ \E p \in Packets, op \in Operations, ch \in ReturnChannels : Fetch(p, op, ch)
    \/ \E offset \in {-Back, Ahead} : Jump(offset)

Arrivals == MemoryAnswers \/ ToCache \/ ToFifo \/ Nxipk

OtherCores == RemoteNxipk \/ \E p \in Remote : RemotePacket(p)

Next == ReadLoop \/ WriteLoop \/ DecodeStage \/ Arrivals \/ OtherCores

Fairness ==
    /\ WF_vars(ReadLoop \/ DecodeStage)
    /\ WF_vars(WriteLoop)
    /\ WF_vars(Arrivals)

Spec == Init /\ [][Next]_vars /\ Fairness

-----------------------------------------------------------------------------
(* What the fetch stage must keep to, and how it implements PacketStream.      *)
PacketInfos == [memAddr : Nat \cup {DefaultTag}, component : {"fifo", "cache", "unknown"},
                index : Nat \cup {NotInCache}, inCache : BOOLEAN, execute : BOOLEAN,
                persistent : BOOLEAN]
Events == {"newPacket", "cacheWrite", "fifoWrite", "cacheRead", "fifoRead"}

(* The state has the types of the source, and the pointers stay in bounds. *)
TypeOK ==
    /\ cache.readPointer \in 0..(CacheSize - 1)
    /\ cache.writePointer \in -1..(CacheSize - 1)
    /\ cache.fresh \subseteq 0..(CacheSize - 1)
    /\ fifo.buffer.readPos \in 0..(FifoSize - 1)
    /\ fifo.buffer.writePos \in 0..(FifoSize - 1)
    /\ fifo.buffer.fillCount \in 0..FifoSize
    /\ readState \in {"RS_READY", "RS_READ"}
    /\ writeState \in {"WS_READY", "WS_FETCH", "WS_RECEIVE", "WS_CONTINUE"}
    /\ readWait \subseteq Events /\ writeWait \subseteq Events
    /\ {currentPacket, fifoPendingPacket, cachePendingPacket} \subseteq PacketInfos
    /\ Len(fetchBuffer) <= 1 /\ Len(slot) <= 1 /\ Len(decoding) <= 1
    /\ suppress \in BOOLEAN /\ inPrevious \in BOOLEAN

(* No assertion of the source fails: no instruction is read that was never     *)
(* written, no empty FIFO is read, no request is written over another.         *)
AssertionsHold == failed = {} /\ TypeOK

(* A tag that matches leads to the packet of that address, and all of it is    *)
(* there, except for what is still on its way.                                 *)
Valid(tag) == cache.tags[tag] \notin {0, DefaultTag}
Whole(tag) ==
    LET p == PacketFrom(cache.tags[tag])
    IN  \A i \in 1..Len(p) :
            \/ cache.data[(cache.packetPointers[tag] + i - 1) % CacheSize] = p[i]
            \/ /\ ~activeFetch.complete /\ activeFetch.channel = 1
               /\ activeFetch.address \in cache.tags[tag]..p[i]
TagsLeadToPackets == \A tag \in DOMAIN cache.tags : Valid(tag) => Whole(tag)

(* A word in the FIFO that has not been read is one that will be read. *)
UnreadWordsAreAhead ==
    \/ fifo.fresh \subseteq Occupied(fifo.buffer)
    \/ Active(fifoPendingPacket)

(* What the stores hold is what they are asked for: no tag leads to a packet    *)
(* that has been overwritten in part (IPKCacheFullyAssociative::write), and no  *)
(* word is skipped whose sender waits for its credit (InstructionPacketFIFO,    *)
(* dataConsumedEvent); and no assertion about them fails.                       *)
StoresKeepPackets == TagsLeadToPackets /\ UnreadWordsAreAhead /\ AssertionsHold

(***************************************************************************)
(* The refinement                                                          *)
(***************************************************************************)
AsRequest(first, repeats) == [first |-> IF first = 0 THEN Boot ELSE first, repeats |-> repeats]
IsInterrupt(p) == Active(p) /\ p.memAddr = 0

Pending ==
    CASE Runnable(fifoPendingPacket) /\ ~IsInterrupt(fifoPendingPacket) ->
            <<AsRequest(fifoPendingPacket.memAddr, fifoPendingPacket.persistent)>>
      [] Runnable(cachePendingPacket) ->
            <<AsRequest(cachePendingPacket.memAddr, cachePendingPacket.persistent)>>
      [] OTHER -> <<>>

Buffered ==
    [i \in 1..Len(SelectSeq(fetchBuffer, LAMBDA f : f.operation # "fill")) |->
        AsRequest(fetchBuffer[i].address, fetchBuffer[i].operation = "fetchpst")]

Interrupts ==
    (IF IsInterrupt(fifoPendingPacket) THEN <<fifo.buffer.data[fifoPendingPacket.index]>> ELSE <<>>)
        \o SelectSeq(toFifo, LAMBDA inst : inst \in Remote)

(* What will be read next. *)
Upcoming ==
    CASE readState = "RS_READY" -> 0
      [] currentPacket.component = "fifo" ->
            IF Empty(fifo.buffer) THEN currentInst.inst + 1 ELSE Peek(fifo.buffer)
      [] cache.finishedPacketRead -> cache.data[cache.readPointer]
      [] OTHER -> currentInst.inst + (IF cache.jumpAmount = 0 THEN 1 ELSE cache.jumpAmount)

Stream == INSTANCE PacketStream WITH
    requested <- Pending \o Buffered,
    interrupts <- Interrupts,
    repeating <- IF currentPacket.persistent THEN currentPacket.memAddr ELSE 0,
    next <- Upcoming,
    given <- currentInst.inst,
    Reach <- CacheSize

(* The pipeline gets the packets that were asked for, whole and in order. *)
ImplementsPacketStream == Stream!Spec

(* A packet that was asked for is begun, unless the program has a packet        *)
(* repeated (readLoop, writeLoop: no wake-up is lost).                          *)
EveryRequestBegins ==
    []<>(\/ Pending \o Buffered = <<>>
         \/ currentPacket.persistent
         \/ Repeats)
=============================================================================
