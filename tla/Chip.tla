-------------------------------- MODULE Chip --------------------------------
(***************************************************************************)
(* The layout of a chip and the wiring of its tiles (Chip, ComputeTile and *)
(* the networks of Tile/Network): which tile is of which kind, how         *)
(* components are numbered, to which outputs each network of a tile takes  *)
(* an address, and what is wired to those outputs.  Arbitration and        *)
(* buffers of the networks are in Network, the mesh between the tiles in   *)
(* Mesh.                                                                   *)
(*                                                                         *)
(* A chip is a record of the columns and rows of compute tiles, and of the *)
(* cores and the memory banks of each.                                     *)
(***************************************************************************)
EXTENDS Integers, FiniteSets, Sequences, Bitwise

CONSTANTS
  numInputChannels,       \* input channels of a core
  numInstructionChannels, \* those of them that lead to the fetch stage
  indexBits               \* bits of the number of a cache line of a bank

ASSUME ChipConstants ==
  /\ numInputChannels \in Nat \ {0} /\ numInstructionChannels \in 1..numInputChannels
  /\ indexBits \in 3..12

ChannelTo(x, y, position, channel) ==
  [multicast |-> FALSE, coremask |-> 0, x |-> x, y |-> y, position |-> position,
   channel |-> channel]
MulticastTo(mask, channel) ==
  [multicast |-> TRUE, coremask |-> mask, x |-> 0, y |-> 0, position |-> 0,
   channel |-> channel]
NullMapping == ChannelTo(0, 0, 0, 0)
-----------------------------------------------------------------------------
(* The tiles: compute tiles with a border around them.                     *)

Tile(x, y) == [x |-> x, y |-> y]
TileOf(id) == Tile(id.x, id.y)
allTiles(chip) == [width |-> chip.width + 2, height |-> chip.height + 2]
TilesOf(chip) ==
  {Tile(x, y) : x \in 0..(allTiles(chip).width - 1), y \in 0..(allTiles(chip).height - 1)}

isComputeTile(chip, tile) ==
  /\ tile.x > 0 /\ tile.x < allTiles(chip).width - 1
  /\ tile.y > 0 /\ tile.y < allTiles(chip).height - 1
memoryControllerPositions(chip) ==
  {Tile(x, y) : x \in {1, chip.width}, y \in {0, chip.height + 1}}

(* Chip::makeComponents: the kind of tile made at each position.           *)
KindOf(chip, tile) ==
  CASE tile.x \in 1..chip.width /\ tile.y \in 1..chip.height -> "compute"
    [] tile \in memoryControllerPositions(chip) -> "controller"
    [] OTHER -> "empty"

Distance(a, b) ==
  LET Apart(m, n) == IF m > n THEN m - n ELSE n - m
  IN  Apart(a.x, b.x) + Apart(a.y, b.y)

(* The first of the closest, in the order of the set of positions: by      *)
(* column, then by row.                                                    *)
nearestMemoryController(chip, tile) ==
  CHOOSE mc \in memoryControllerPositions(chip) :
    \A other \in memoryControllerPositions(chip) \ {mc} :
      \/ Distance(mc, tile) < Distance(other, tile)
      \/ /\ Distance(mc, tile) = Distance(other, tile)
         /\ mc.x < other.x \/ (mc.x = other.x /\ mc.y < other.y)

(* The numbers of tiles and components.                                    *)
isCore(chip, id) == id.position < chip.cores
memoryIndex(chip, id) == id.position - chip.cores
computeTileIndex(chip, id) == (id.y - 1) * chip.width + (id.x - 1)
globalComponentIndex(chip, id) ==
  computeTileIndex(chip, id) * (chip.cores + chip.memories) + id.position
globalCoreIndex(chip, id) == computeTileIndex(chip, id) * chip.cores + id.position
globalMemoryIndex(chip, id) ==
  computeTileIndex(chip, id) * chip.memories + memoryIndex(chip, id)
-----------------------------------------------------------------------------
(* The networks of a tile: the outputs an address leads to.                *)

CoreMulticast(chip, id) ==
  {core * numInputChannels + id.channel :
     core \in {c \in 0..(chip.cores - 1) : (id.coremask \div 2^c) % 2 = 1}}
(* The last output leads to the router.                                    *)
ForwardCrossbar(chip, id) ==
  IF id.position < chip.cores THEN {chip.memories} ELSE {id.position - chip.cores}
DataReturn(chip, id) == {id.position * numInputChannels + id.channel}
InstructionReturn(chip, id) == {id.position * numInstructionChannels + id.channel}
CreditReturn(chip, id) == {id.position}
MHLToBankResponses(chip, id) == {id.position}

(* Where a flit can be.                                                    *)
CoreInput(tile, core, channel) ==
  [at |-> "core", tile |-> tile, number |-> core, channel |-> channel]
At(place, tile, number) == [at |-> place, tile |-> tile, number |-> number]
Nowhere == [at |-> "nowhere"]

(* ComputeTile::wireUp: what is wired to the outputs of each network.      *)
CoreInputs(chip, tile, channels, outputs) ==
  {IF o < chip.cores * channels THEN CoreInput(tile, o \div channels, o % channels)
   ELSE Nowhere : o \in outputs}
Numbered(place, tile, count, outputs) ==
  {IF o < count THEN At(place, tile, o) ELSE Nowhere : o \in outputs}

Through(network, chip, tile, id) ==
  CASE network = "coreToCore" ->
         CoreInputs(chip, tile, numInputChannels, CoreMulticast(chip, id))
    [] network = "coreToMemory" ->
         IF ForwardCrossbar(chip, id) = {chip.memories} THEN {At("router", tile, 0)}
         ELSE Numbered("bank", tile, chip.memories, ForwardCrossbar(chip, id))
    [] network = "dataReturn" ->
         CoreInputs(chip, tile, numInputChannels, DataReturn(chip, id))
    [] network = "instructionReturn" ->
         CoreInputs(chip, tile, numInstructionChannels, InstructionReturn(chip, id))
    [] network = "creditReturn" ->
         Numbered("credits", tile, chip.cores, CreditReturn(chip, id))
    [] network = "mhlToBankResponses" ->
         Numbered("bank", tile, chip.memories, MHLToBankResponses(chip, id))
-----------------------------------------------------------------------------
(* Where a message goes next.  A message has an address, the places it has *)
(* reached, and in its metadata the return address the sender asks for.  A *)
(* bank with a miss keeps the request that missed.                         *)

(* SendChannelEndTable::write chooses the network.                         *)
FromCore(chip, m, tile) ==
  [m EXCEPT !.places = Through(IF m.id.multicast THEN "coreToCore" ELSE "coreToMemory",
                               chip, tile, m.id)]

(* The mesh takes data to the intertile unit of the tile named, which      *)
(* feeds the last input of the data return network.                        *)
FromRouter(chip, m) ==
  [m EXCEPT !.places = Through("dataReturn", chip, TileOf(m.id), m.id)]
CreditFromRouter(chip, m) ==
  [m EXCEPT !.places = Through("creditReturn", chip, TileOf(m.id), m.id)]

(* MemoryBank::peekRequest: the channel of a core's request is the number  *)
(* of the core that wants the answer.                                      *)
returnAddress(tile, m) == ChannelTo(tile.x, tile.y, m.id.channel, m.back.channel)

(* MemoryBank::sendResponse chooses the network by the channel.            *)
BankResponds(chip, m, tile) ==
  LET to == returnAddress(tile, m)
  IN  [m EXCEPT !.id = to,
                !.places = Through(IF to.channel < numInstructionChannels
                                   THEN "instructionReturn" ELSE "dataReturn", chip, tile, to)]

(* A request from a bank to the next level names the bank as its origin,   *)
(* and no destination.                                                     *)
BankMisses(chip, m, bank) ==
  [m EXCEPT !.missed = <<m>>, !.id = NullMapping,
            !.back = [x |-> bank.tile.x, y |-> bank.tile.y, channel |-> bank.number],
            !.places = {At("mhl", bank.tile, 0)}]

(* The directory fills the destination in, and keeps the rest of it.       *)
MHLForwards(chip, m, next) ==
  [m EXCEPT !.id = [m.id EXCEPT !.x = next.x, !.y = next.y],
            !.places = {At(IF isComputeTile(chip, next) THEN "l2" ELSE "controller", next, 0)}]

(* The next level answers to the tile and the bank named in the request.   *)
NextLevelResponds(chip, m) ==
  LET to == ChannelTo(m.back.x, m.back.y, m.back.channel, 0)
  IN  [m EXCEPT !.id = to, !.places = Through("mhlToBankResponses", chip, TileOf(to), to)]

(* The bank's own operation goes on when the line has come.                *)
BankResumes(chip, m, tile) == BankResponds(chip, Head(m.missed), tile)
(* The next step of a message that a core or an intertile unit has sent: a *)
(* bank may have the line or miss; a directory leads to a memory           *)
(* controller, or to a tile software has chosen.                           *)
NextPlaces(chip, m, p) ==
  CASE p.at = "sender" -> {FromCore(chip, m, p.tile)}
    [] p.at = "router" -> {FromRouter(chip, m)}
    [] p.at = "creditRouter" -> {CreditFromRouter(chip, m)}
    [] p.at = "bank" /\ m.missed = <<>> -> {BankResponds(chip, m, p.tile), BankMisses(chip, m, p)}
    [] p.at = "bank" -> {BankResumes(chip, m, p.tile)}
    [] p.at = "mhl" ->
         {MHLForwards(chip, m, next) : next \in {nearestMemoryController(chip, p.tile)}
            \cup {t \in TilesOf(chip) : KindOf(chip, t) = "compute"}}
    [] p.at \in {"l2", "controller"} -> {NextLevelResponds(chip, m)}
-----------------------------------------------------------------------------
(* Where a bank keeps an address: three bits of the address choose the     *)
(* bank of a full group; those that did not are hashed into the upper bits *)
(* of the position.                                                        *)

log2(value) == CHOOSE b \in 1..30 : 2^b = value

getSlot(line, banks) ==
  LET index == (line \div banks) % 2^indexBits
      bank == line % 8
  IN  index ^^ (bank * 2^(indexBits - log2(banks)))
=============================================================================
