------------------------- MODULE MissHandlingLogic -------------------------
(***************************************************************************)
(* The miss handling logic of each compute tile (Tile/Memory/              *)
(* MissHandlingLogic): the requests its memory banks make of the next      *)
(* level pass through it one flit at a time.  Updates of the directory     *)
(* stop here; every other packet gets its destination, and its address     *)
(* there, from the directory when its head flit is read, and the flits     *)
(* that follow go the same way.                                            *)
(*                                                                         *)
(* A flit is a record: opcode, address (in words) or data, the bank it     *)
(* came from, the end-of-packet and scratchpad bits and the destination.   *)
(***************************************************************************)
EXTENDS Integers, Sequences

CONSTANTS DirectorySize,  \* entries of a directory, a power of two
          ReplaceWidth,   \* bits of an entry's replaceBits field
          Tiles,          \* compute tiles
          Controllers,    \* tiles with a memory controller
          RouterBuffer    \* flits the router's local input holds

ASSUME DirectoryAssumption == DirectorySize \in Nat \ {0} /\ ReplaceWidth \in Nat

VARIABLES requestsFromBanks,   \* [Tiles -> flit or None]: the channel from the banks
          requestHeader,       \* [Tiles -> flit or None]: an update whose payload is due
          newLocalRequest,     \* [Tiles -> BOOLEAN]
          requestDestination,  \* [Tiles -> destination of the packet in progress]
          directory,           \* [Tiles -> directory]
          oRequestToNetwork    \* [Tiles -> Seq(flit)]: the router's local input

(***************************************************************************)
(* The directory (Tile/Memory/Directory).  A few bits of the address of a  *)
(* miss select an entry; the entry names the tile that looks after the     *)
(* address at the next level, and the bits that replace the selecting ones *)
(* there.                                                                  *)
(*                                                                         *)
(* A directory is a record of the position of its index bits and of its    *)
(* entries.  Tiles are numbered as software writes them: three bits of     *)
(* column, three bits of row.                                              *)
(***************************************************************************)

\* The fields of the word software writes into an entry.
DirectoryEntry(flattened) ==
  [scratchpad  |-> (flattened \div 1024) % 2 = 1,
   replaceBits |-> (flattened \div 64) % 2^ReplaceWidth,
   tile        |-> flattened % 64]

setBitmaskLSB(d, lsb) == [d EXCEPT !.shift = lsb]

setEntry(d, entry, data) == [d EXCEPT !.entries[entry] = DirectoryEntry(data)]

\* Every entry points to one tile and leaves the address as it is.
initialise(tile) ==
  [shift   |-> 0,
   entries |-> [i \in 0 .. DirectorySize - 1 |->
                  [scratchpad |-> FALSE, replaceBits |-> i % 2^ReplaceWidth, tile |-> tile]]]

getEntry(d, address) == (address \div 2^d.shift) % DirectorySize

getNextTile(d, address) == d.entries[getEntry(d, address)].tile

inScratchpad(d, address) == d.entries[getEntry(d, address)].scratchpad

\* Replacement bits beyond the index bits are or-ed into the bits above them;
\* entries of the width of the index replace it exactly.
BitOr[x, y \in Nat] ==
  IF y = 0 THEN x
  ELSE 2 * BitOr[x \div 2, y \div 2] + (IF (x % 2) + (y % 2) > 0 THEN 1 ELSE 0)

updateAddress(d, address) ==
  LET cleared == (address \div 2^d.shift) - getEntry(d, address)
      replace == d.entries[getEntry(d, address)].replaceBits
  IN  BitOr[cleared, replace] * 2^d.shift + (address % 2^d.shift)

-----------------------------------------------------------------------------
(* The miss handling logic of each tile.                                   *)

None == [op |-> "NONE"]

mhlVars == <<requestsFromBanks, requestHeader, newLocalRequest, requestDestination,
             directory, oRequestToNetwork>>

DirectoryUpdates == {"UPDATE_DIRECTORY_ENTRY", "UPDATE_DIRECTORY_MASK"}
Payloads == {"PAYLOAD"}

Column(tile) == tile \div 8
Row(tile) == tile % 8

Distance(s, t) ==
  LET Abs(n) == IF n < 0 THEN -n ELSE n
  IN  Abs(Column(s) - Column(t)) + Abs(Row(s) - Row(t))

\* Controllers are tried by column, then row; the first of the closest is taken.
nearestMemoryController(tile) ==
  CHOOSE m \in Controllers : \A n \in Controllers \ {m} :
    \/ Distance(m, tile) < Distance(n, tile)
    \/ Distance(m, tile) = Distance(n, tile) /\ m < n

MHLInit ==
  /\ requestsFromBanks = [t \in Tiles |-> None]
  /\ requestHeader = [t \in Tiles |-> None]
  /\ newLocalRequest = [t \in Tiles |-> TRUE]
  /\ requestDestination = [t \in Tiles |-> t]
  /\ directory = [t \in Tiles |-> initialise(nearestMemoryController(t))]
  /\ oRequestToNetwork = [t \in Tiles |-> <<>>]

updateRequest(t, flit) ==
  [flit EXCEPT !.dest = getNextTile(directory[t], flit.addr),
               !.addr = updateAddress(directory[t], flit.addr),
               !.scratchpad = inScratchpad(directory[t], flit.addr)]

\* Nothing is read before the network can take it, not even an update of
\* the directory, which needs no network.
ReadsFlit(t) ==
  /\ requestsFromBanks[t] # None
  /\ Len(oRequestToNetwork[t]) < RouterBuffer
  /\ requestsFromBanks' = [requestsFromBanks EXCEPT ![t] = None]
  /\ newLocalRequest' = [newLocalRequest EXCEPT ![t] = requestsFromBanks[t].eop]

handleDirectoryUpdate(d, header, payload) == setEntry(d, getEntry(d, header.addr), payload.data)

handleDirectoryMaskUpdate(d, payload) == setBitmaskLSB(d, payload.data)

\* The header says which; the payload has come with this flit.
Updated(d, header, payload) ==
  IF header.op = "UPDATE_DIRECTORY_ENTRY" THEN handleDirectoryUpdate(d, header, payload)
                                          ELSE handleDirectoryMaskUpdate(d, payload)

UpdatesDirectory(t) ==
  /\ requestHeader[t] # None
  /\ ReadsFlit(t)
  /\ directory' = [directory EXCEPT ![t] = Updated(@, requestHeader[t], requestsFromBanks[t])]
  /\ requestHeader' = [requestHeader EXCEPT ![t] = None]
  /\ UNCHANGED <<requestDestination, oRequestToNetwork>>

\* Faulty variant: the skip bit is read the wrong way round.
UpdatesElsewhere(flit) == flit.op \in DirectoryUpdates /\ flit.scratchpad

\* An update that skips this level of cache is not for this directory: the
\* bank has put the skip bit it applied into the scratchpad bit.
UpdatesHere(flit) == flit.op \in DirectoryUpdates /\ ~flit.scratchpad

HoldsHeader(t) ==
  /\ requestHeader[t] = None
  /\ ReadsFlit(t)
  /\ UpdatesHere(requestsFromBanks[t])
  /\ requestHeader' = [requestHeader EXCEPT ![t] = requestsFromBanks[t]]
  /\ UNCHANGED <<requestDestination, directory, oRequestToNetwork>>

\* A flit leaves for the tile its packet was given.
Redirected(t) ==
  LET flit == requestsFromBanks[t]
  IN  IF newLocalRequest[t] THEN updateRequest(t, flit)
                            ELSE [flit EXCEPT !.dest = requestDestination[t]]

ForwardsFlit(t) ==
  /\ requestHeader[t] = None
  /\ ReadsFlit(t)
  /\ ~UpdatesHere(requestsFromBanks[t])
  /\ oRequestToNetwork' = [oRequestToNetwork EXCEPT ![t] = Append(@, Redirected(t))]
  /\ requestDestination' = [requestDestination EXCEPT ![t] = Redirected(t).dest]
  /\ UNCHANGED <<requestHeader, directory>>

localRequestLoop(t) == UpdatesDirectory(t) \/ HoldsHeader(t) \/ ForwardsFlit(t)

\* Faulty variant: the tile is looked up with the address it will receive.
TranslationOfNewAddress(tile, address) ==
  [tile       |-> getNextTile(directory[tile], updateAddress(directory[tile], address)),
   addr       |-> updateAddress(directory[tile], address),
   scratchpad |-> inScratchpad(directory[tile], address)]

\* One level of the translation of an address: where the directory of a tile
\* sends it.  It ends at a scratchpad and at a memory controller.
Translation(tile, address) ==
  [tile       |-> getNextTile(directory[tile], address),
   addr       |-> updateAddress(directory[tile], address),
   scratchpad |-> inScratchpad(directory[tile], address)]
=============================================================================
