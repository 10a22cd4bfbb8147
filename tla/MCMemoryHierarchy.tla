------------------------- MODULE MCMemoryHierarchy -------------------------
(***************************************************************************)
(* Two compute tiles, (1,1) and (2,1), and the controllers above them.     *)
(* Banks b1 and b2 are on the first tile, b3 on the second.  b2 moves the  *)
(* index bits of its tile's directory above the lines b1 uses and then makes *)
(* the second tile, with other index bits, their home; b3 serves as its level *)
(* 2 cache and has requests of its own.                                    *)
(***************************************************************************)
EXTENDS MemoryHierarchy

CONSTANTS b1, b2, b3

MCTiles == {9, 17}
MCControllers == {8, 16}
MCBanks == {b1, b2, b3}
MCTileOf == [b \in MCBanks |-> IF b = b3 THEN 17 ELSE 9]
MCHome == [t \in MCTiles |-> IF t = 17 THEN b3 ELSE b1]

Loads(lines) == {[op |-> "FETCH_LINE", addr |-> l * LineWords] : l \in lines}
Stores(lines) == {[op |-> "STORE_LINE", addr |-> l * LineWords] : l \in lines}
Update(op, addr, data) == [op |-> op, addr |-> addr, data |-> data]

MCOffers(b, n) ==
  CASE b = b1 -> IF n = 1 THEN Stores({0}) ELSE IF n = 2 THEN Loads({0}) ELSE {}
    [] b = b2 -> IF n = 1 THEN {Update("UPDATE_DIRECTORY_MASK", 0, 2)}
                ELSE IF n = 2 THEN {Update("UPDATE_DIRECTORY_ENTRY", 0, 64 + 17)} ELSE {}
    [] b = b3 -> IF n = 1 THEN Loads({0}) \cup Stores({0}) ELSE {}
=============================================================================
