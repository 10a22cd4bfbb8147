------------------------------ MODULE MeshProofs ------------------------------
(***************************************************************************)
(* Proofs about Mesh, for a mesh of any size, buffers of any size and any  *)
(* packets: routes never turn back to a lower link, and the routers, each  *)
(* of which knows only the next hop, together keep the promise of one      *)
(* crossbar.                                                               *)
(*                                                                         *)
(* sendData moves a flit without looking where it wants to go: the arbiter *)
(* repeats its last grant while the output is held.  That the flit wants   *)
(* this output follows from how packets lie in the mesh, from the tile     *)
(* that still has flits of one to send to the outputs that hold for it:    *)
(* invariant Coherent.  That flits arrive in order follows from numbers    *)
(* they could carry: invariant Numbered.                                   *)
(***************************************************************************)
EXTENDS Mesh, TLAPS

Types ==
  /\ buffer \in [Tile -> [Port -> Seq(AnyFlit)]]
  /\ shown \subseteq {tp \in Tile \X Port : buffer[tp[1]][tp[2]] # <<>>}
  /\ lastAccepted \in [Tile -> [Port -> Nat]]
  /\ held \subseteq Tile \X Port
  /\ rest \in [Tile -> AnyFlit \cup {None}]
  /\ sending \in [Reader -> Tile \cup {None}]

(* Where a flit's packet comes from and where it goes.                     *)
Journey(f) == [from |-> f.from, to |-> f.to]

(* T gives each output the journey of the packet it is held for.           *)
(* More of a packet on journey d is still to come at input p of t.         *)
Owed(T, t, p, d) ==
  IF p = LOCAL_PORT THEN rest[t] # None /\ Journey(rest[t]) = d
  ELSE <<Neighbour(t, p), Opposite(p)>> \in held /\ T[Neighbour(t, p)][Opposite(p)] = d

(* A flit that is not its packet's last has the next one behind it, or it  *)
(* is owed.                                                                *)
Contiguous(s) == \A n \in 1 .. Len(s) - 1 : s[n].left > 0 => Journey(s[n + 1]) = Journey(s[n])
PacketsWhole == \A t \in Tile, p \in Port : Contiguous(buffer[t][p])
TailsOwed(T) ==
  \A t \in Tile, p \in Port :
    buffer[t][p] # <<>> /\ buffer[t][p][Len(buffer[t][p])].left > 0
      => Owed(T, t, p, Journey(buffer[t][p][Len(buffer[t][p])]))

(* The next flit of the input an output is held for goes through it.       *)
HeldFor(T, t, o, p) ==
  /\ p \in Port
  /\ getDestination(t, T[t][o].to) = o
  /\ IF buffer[t][p] # <<>> THEN Journey(buffer[t][p][1]) = T[t][o] ELSE Owed(T, t, p, T[t][o])
HoldsCoherent(T) ==
  \A t \in Tile, o \in Port : <<t, o>> \in held => HeldFor(T, t, o, lastAccepted[t][o])

(* A tile's output is held for the packet that the tile is receiving.      *)
SendingOK(T) ==
  \A d \in Reader :
    sending[d] = IF <<d, LOCAL_PORT>> \in held THEN T[d][LOCAL_PORT].from ELSE None

Coherent(T) == PacketsWhole /\ TailsOwed(T) /\ HoldsCoherent(T) /\ SendingOK(T)

Journeys == [from : Tile, to : Target]
Plan == [Tile -> [Port -> Journeys]]
Inv == Types /\ (\E T \in Plan : Coherent(T)) /\ LinksAscend
-----------------------------------------------------------------------------
(* Geometry. *)

LEMMA LinkHasTwoEnds ==
  ASSUME NEW t \in Tile, NEW o \in Port, o # LOCAL_PORT
  PROVE  /\ Opposite(o) \in Port /\ Opposite(o) # LOCAL_PORT
         /\ Opposite(Opposite(o)) = o
         /\ Neighbour(Neighbour(t, o), Opposite(o)) = t
         /\ Neighbour(t, o) # t
<1>1. PICK x \in 0 .. Width - 1, y \in 0 .. Height - 1 : t = [x |-> x, y |-> y]
  BY DEF Tile
<1>2. o \in {NORTH, EAST, SOUTH, WEST}
  BY DEF Port, NORTH, EAST, SOUTH, WEST, LOCAL_PORT
<1>3. x \in Int /\ y \in Int
  BY MeshAssumption
<1>. QED
  BY <1>1, <1>2, <1>3
  DEF Neighbour, Opposite, Port, NORTH, EAST, SOUTH, WEST, LOCAL_PORT

(* A flit that follows its route over a link goes on to a higher one.      *)
LEMMA RoutesAscend ==
  ASSUME NEW t \in Tile, NEW o \in Port, o # LOCAL_PORT, ~DeadEnd(t, o),
         NEW d \in Target, getDestination(t, d) = o
  PROVE  Rank(Neighbour(t, o), getDestination(Neighbour(t, o), d)) > Rank(t, o)
<1>1. PICK x \in 0 .. Width - 1, y \in 0 .. Height - 1 : t = [x |-> x, y |-> y]
  BY DEF Tile
<1>2. PICK a \in Nat, b \in Nat : d = [x |-> a, y |-> b]
  BY DEF Target
<1>3. Width \in Nat /\ Height \in Nat /\ x \in Nat /\ y \in Nat
  BY MeshAssumption
<1>4. Neighbour(t, o) \in Tile
  BY DEF DeadEnd
<1>5. /\ o = EAST => a > x
      /\ o = WEST => a < x
      /\ o = SOUTH => a = x /\ b > y
      /\ o = NORTH => a = x /\ b < y
  BY <1>1, <1>2, <1>3 DEF getDestination, NORTH, EAST, SOUTH, WEST, LOCAL_PORT
<1>6. CASE o = EAST
  <2>1. Neighbour(t, o) = [x |-> x + 1, y |-> y]
    BY <1>1, <1>6 DEF Neighbour, NORTH, EAST, SOUTH, WEST, LOCAL_PORT
  <2>. QED
    BY <1>1, <1>2, <1>3, <1>5, <1>6, <2>1
    DEF getDestination, Rank, NORTH, EAST, SOUTH, WEST, LOCAL_PORT
<1>7. CASE o = WEST
  <2>1. Neighbour(t, o) = [x |-> x - 1, y |-> y]
    BY <1>1, <1>7 DEF Neighbour, NORTH, EAST, SOUTH, WEST, LOCAL_PORT
  <2>. QED
    BY <1>1, <1>2, <1>3, <1>5, <1>7, <2>1
    DEF getDestination, Rank, NORTH, EAST, SOUTH, WEST, LOCAL_PORT
<1>8. CASE o = SOUTH
  <2>1. Neighbour(t, o) = [x |-> x, y |-> y + 1]
    BY <1>1, <1>8 DEF Neighbour, NORTH, EAST, SOUTH, WEST, LOCAL_PORT
  <2>. QED
    BY <1>1, <1>2, <1>3, <1>5, <1>8, <2>1
    DEF getDestination, Rank, NORTH, EAST, SOUTH, WEST, LOCAL_PORT
<1>9. CASE o = NORTH
  <2>1. Neighbour(t, o) = [x |-> x, y |-> y - 1]
    BY <1>1, <1>9 DEF Neighbour, NORTH, EAST, SOUTH, WEST, LOCAL_PORT
  <2>. QED
    BY <1>1, <1>2, <1>3, <1>5, <1>9, <2>1
    DEF getDestination, Rank, NORTH, EAST, SOUTH, WEST, LOCAL_PORT
<1>. QED
  BY <1>6, <1>7, <1>8, <1>9 DEF Port, NORTH, EAST, SOUTH, WEST, LOCAL_PORT

LEMMA DestinationIsPort ==
  ASSUME NEW t \in Tile, NEW d \in Target
  PROVE  getDestination(t, d) \in Port
BY DEF getDestination, Port, NORTH, EAST, SOUTH, WEST, LOCAL_PORT
-----------------------------------------------------------------------------
(* The arbiter chooses one of the requests. *)

LEMMA LowestIsRequest ==
  ASSUME NEW R \in SUBSET Port, R # {}
  PROVE  Lowest(R) \in R
<1>1. \E i \in R : \A j \in R : i <= j
  <2>1. \A i \in R : i \in {0, 1, 2, 3, 4}
    BY DEF Port
  <2>2. CASE 0 \in R
    BY <2>1, <2>2
  <2>3. CASE 0 \notin R /\ 1 \in R
    BY <2>1, <2>3
  <2>4. CASE 0 \notin R /\ 1 \notin R /\ 2 \in R
    BY <2>1, <2>4
  <2>5. CASE 0 \notin R /\ 1 \notin R /\ 2 \notin R /\ 3 \in R
    BY <2>1, <2>5
  <2>6. CASE 0 \notin R /\ 1 \notin R /\ 2 \notin R /\ 3 \notin R
    BY <2>1, <2>6
  <2>. QED BY <2>2, <2>3, <2>4, <2>5, <2>6
<1>. QED BY <1>1, Zenon DEF Lowest

LEMMA SelectedIsRequest ==
  ASSUME NEW R \in SUBSET Port, R # {}, NEW last
  PROVE  selectRequester(R, last) \in R
<1>1. Above(R, last) \in SUBSET Port /\ Above(R, last) \subseteq R
  BY DEF Above
<1>2. Above(R, last) # {} => Lowest(Above(R, last)) \in R
  BY <1>1, LowestIsRequest
<1>3. Lowest(R) \in R
  BY LowestIsRequest
<1>. QED BY <1>2, <1>3 DEF selectRequester
-----------------------------------------------------------------------------
(* Sequences of flits. *)

LEMMA TailContiguous ==
  ASSUME NEW s \in Seq(AnyFlit), s # <<>>, Contiguous(s)
  PROVE  /\ Tail(s) \in Seq(AnyFlit)
         /\ Contiguous(Tail(s))
         /\ Tail(s) # <<>> => /\ Tail(s)[Len(Tail(s))] = s[Len(s)]
                              /\ s[1].left > 0 => Journey(Tail(s)[1]) = Journey(s[1])
         /\ Tail(s) = <<>> => Len(s) = 1
         /\ \A n \in DOMAIN Tail(s) : n + 1 \in DOMAIN s /\ Tail(s)[n] = s[n + 1]
<1>1. /\ Tail(s) \in Seq(AnyFlit) /\ Len(s) \in Nat /\ Len(s) > 0
      /\ Len(Tail(s)) = Len(s) - 1
      /\ DOMAIN s = 1 .. Len(s) /\ DOMAIN Tail(s) = 1 .. Len(s) - 1
  OBVIOUS
<1>2. \A n \in 1 .. Len(s) - 1 : n + 1 \in 1 .. Len(s) /\ Tail(s)[n] = s[n + 1]
  BY <1>1
<1>3. Contiguous(Tail(s))
  BY <1>1, <1>2 DEF Contiguous
<1>4. Tail(s) # <<>> => Len(s) - 1 \in 1 .. Len(s) - 1 /\ 1 \in 1 .. Len(s) - 1
  BY <1>1
<1>5. Tail(s) # <<>> => Tail(s)[Len(Tail(s))] = s[Len(s)]
  BY <1>1, <1>2, <1>4
<1>6. Tail(s) # <<>> /\ s[1].left > 0 => Journey(Tail(s)[1]) = Journey(s[1])
  BY <1>1, <1>2, <1>4 DEF Contiguous
<1>7. Tail(s) = <<>> => Len(s) = 1
  <2>1. Len(<<>>) = 0
    OBVIOUS
  <2>2. Tail(s) = <<>> => Len(Tail(s)) = 0
    BY <2>1, Zenon
  <2>. QED BY <1>1, <2>2
<1>. QED BY <1>1, <1>2, <1>3, <1>5, <1>6, <1>7

LEMMA AppendContiguous ==
  ASSUME NEW s \in Seq(AnyFlit), NEW f \in AnyFlit, Contiguous(s),
         s # <<>> /\ s[Len(s)].left > 0 => Journey(f) = Journey(s[Len(s)])
  PROVE  /\ Append(s, f) \in Seq(AnyFlit)
         /\ Append(s, f) # <<>>
         /\ Contiguous(Append(s, f))
         /\ Append(s, f)[Len(Append(s, f))] = f
         /\ s # <<>> => Append(s, f)[1] = s[1]
         /\ s = <<>> => Append(s, f)[1] = f
         /\ \A n \in DOMAIN Append(s, f) : Append(s, f)[n] = f \/ (n \in DOMAIN s /\ Append(s, f)[n] = s[n])
<1>1. /\ Append(s, f) \in Seq(AnyFlit)
      /\ Len(s) \in Nat /\ Len(Append(s, f)) = Len(s) + 1
      /\ \A n \in 1 .. Len(s) : Append(s, f)[n] = s[n]
      /\ Append(s, f)[Len(s) + 1] = f
      /\ s # <<>> => Len(s) > 0
      /\ s = <<>> => Len(s) = 0
  OBVIOUS
<1>2. ASSUME NEW n \in 1 .. Len(Append(s, f)) - 1, Append(s, f)[n].left > 0
      PROVE  Journey(Append(s, f)[n + 1]) = Journey(Append(s, f)[n])
  <2>1. CASE n = Len(s)
    <3>1. Append(s, f)[n] = s[Len(s)] /\ Append(s, f)[n + 1] = f /\ s # <<>>
      BY <1>1, <2>1
    <3>. QED BY <1>2, <3>1
  <2>2. CASE n # Len(s)
    <3>1. n \in 1 .. Len(s) - 1 /\ n \in 1 .. Len(s) /\ n + 1 \in 1 .. Len(s)
      BY <1>1, <2>2
    <3>2. Append(s, f)[n] = s[n] /\ Append(s, f)[n + 1] = s[n + 1]
      BY <1>1, <3>1
    <3>. QED BY <1>2, <3>1, <3>2 DEF Contiguous
  <2>. QED BY <2>1, <2>2
<1>3. Contiguous(Append(s, f))
  BY <1>2 DEF Contiguous
<1>4. /\ Append(s, f) # <<>>
      /\ s # <<>> => Append(s, f)[1] = s[1]
      /\ s = <<>> => Append(s, f)[1] = f
  OBVIOUS
<1>5. \A n \in DOMAIN Append(s, f) : Append(s, f)[n] = f \/ (n \in DOMAIN s /\ Append(s, f)[n] = s[n])
  BY <1>1
<1>. QED BY <1>1, <1>3, <1>4, <1>5
-----------------------------------------------------------------------------
(* A router's step. *)

(* Input q of tile u is where output o of tile t leads.                    *)
EndOf(t, o, u, q) == q # LOCAL_PORT /\ Neighbour(u, q) = t /\ Opposite(q) = o

(* The flit that moves wants the output that moves it.                     *)
LEMMA FlitMovesAlongRoute ==
  ASSUME Types, NEW T \in Plan, HoldsCoherent(T),
         NEW t \in Tile, NEW o \in Port, sendData(t, o)
  PROVE  /\ granted(t, o) \in Port
         /\ buffer[t][granted(t, o)] # <<>>
         /\ getDestination(t, buffer[t][granted(t, o)][1].to) = o
         /\ <<t, o>> \in held => Journey(buffer[t][granted(t, o)][1]) = T[t][o]
<1>1. <<t, granted(t, o)>> \in shown /\ requests(t, o) # {}
  BY DEF sendData
<1>2. granted(t, o) \in Port /\ buffer[t][granted(t, o)] # <<>>
  BY <1>1 DEF Types
<1>3. CASE <<t, o>> \in held
  <2>1. granted(t, o) = lastAccepted[t][o]
    BY <1>3 DEF granted, arbitrate
  <2>2. /\ getDestination(t, T[t][o].to) = o
        /\ Journey(buffer[t][granted(t, o)][1]) = T[t][o]
    BY <1>2, <1>3, <2>1 DEF HoldsCoherent, HeldFor
  <2>. QED BY <1>2, <2>2 DEF Journey
<1>4. CASE <<t, o>> \notin held
  <2>1. requests(t, o) \in SUBSET Port
    BY DEF requests
  <2>2. granted(t, o) \in requests(t, o)
    <3>1. granted(t, o) = selectRequester(requests(t, o), lastAccepted[t][o])
      BY <1>4 DEF granted, arbitrate
    <3>. QED BY <1>1, <2>1, <3>1, SelectedIsRequest
  <2>3. Head(buffer[t][granted(t, o)]) = buffer[t][granted(t, o)][1]
    BY <1>2 DEF Types
  <2>. QED BY <1>2, <1>4, <2>2, <2>3 DEF requests
<1>. QED BY <1>3, <1>4

(* Where the flit that moves comes from and where it goes.                 *)
Moves(T, t, o, p, f) ==
  /\ p = granted(t, o)
  /\ buffer[t][p] # <<>>
  /\ f = Head(buffer[t][p]) /\ f = buffer[t][p][1]
  /\ getDestination(t, f.to) = o
  /\ <<t, o>> \in held => Journey(f) = T[t][o]
  /\ buffer' \in [Tile -> [Port -> Seq(AnyFlit)]]
  /\ \A u \in Tile, q \in Port :
       buffer'[u][q] = IF u = t /\ q = p THEN Tail(buffer[t][p])
                       ELSE IF EndOf(t, o, u, q) THEN Append(buffer[u][q], f) ELSE buffer[u][q]

(* Where a link leads.                                                     *)
LEMMA LinkLeads ==
  ASSUME NEW t \in Tile, NEW o \in Port, NEW u \in Tile, NEW q \in Port
  PROVE  /\ EndOf(t, o, u, q) <=>
              o # LOCAL_PORT /\ ~DeadEnd(t, o) /\ u = Neighbour(t, o) /\ q = Opposite(o)
         /\ EndOf(t, o, u, q) => u # t
<1>1. ASSUME EndOf(t, o, u, q)
      PROVE  o # LOCAL_PORT /\ ~DeadEnd(t, o) /\ u = Neighbour(t, o) /\ q = Opposite(o)
  BY <1>1, LinkHasTwoEnds DEF EndOf, DeadEnd
<1>2. ASSUME o # LOCAL_PORT, u = Neighbour(t, o), q = Opposite(o)
      PROVE  EndOf(t, o, u, q)
  BY <1>2, LinkHasTwoEnds DEF EndOf
<1>3. EndOf(t, o, u, q) => u # t
  BY <1>1, LinkHasTwoEnds
<1>. QED BY <1>1, <1>2, <1>3

(* What sendData does to the buffers: one flit moves one hop.              *)
LEMMA FlitMoves ==
  ASSUME Types, NEW T \in Plan, HoldsCoherent(T),
         NEW t \in Tile, NEW o \in Port, sendData(t, o)
  PROVE  \E p \in Port, f \in AnyFlit : Moves(T, t, o, p, f)
<1>1. PICK p \in Port, f \in AnyFlit :
        /\ p = granted(t, o)
        /\ buffer[t][p] # <<>>
        /\ f = Head(buffer[t][p]) /\ f = buffer[t][p][1]
        /\ getDestination(t, f.to) = o
        /\ <<t, o>> \in held => Journey(f) = T[t][o]
  <2>1. /\ granted(t, o) \in Port
        /\ buffer[t][granted(t, o)] # <<>>
        /\ getDestination(t, buffer[t][granted(t, o)][1].to) = o
        /\ <<t, o>> \in held => Journey(buffer[t][granted(t, o)][1]) = T[t][o]
    BY FlitMovesAlongRoute
  <2>2. buffer[t][granted(t, o)] \in Seq(AnyFlit)
    BY <2>1 DEF Types
  <2>3. /\ Head(buffer[t][granted(t, o)]) = buffer[t][granted(t, o)][1]
        /\ buffer[t][granted(t, o)][1] \in AnyFlit
    BY <2>1, <2>2
  <2>. QED BY <2>1, <2>3
<1>2. /\ buffer' \in [Tile -> [Port -> Seq(AnyFlit)]]
      /\ \A u \in Tile, q \in Port :
           buffer'[u][q] = IF u = t /\ q = p THEN Tail(buffer[t][p])
                           ELSE IF EndOf(t, o, u, q) THEN Append(buffer[u][q], f) ELSE buffer[u][q]
  <2> DEFINE left == [buffer EXCEPT ![t][p] = Tail(@)]
  <2>1. buffer \in [Tile -> [Port -> Seq(AnyFlit)]] /\ Tail(buffer[t][p]) \in Seq(AnyFlit)
    BY <1>1 DEF Types
  <2>2. /\ left \in [Tile -> [Port -> Seq(AnyFlit)]]
        /\ \A u \in Tile, q \in Port :
             left[u][q] = IF u = t /\ q = p THEN Tail(buffer[t][p]) ELSE buffer[u][q]
    BY <2>1
  <2>3. buffer' = IF o = LOCAL_PORT \/ DeadEnd(t, o) THEN left
                  ELSE [left EXCEPT ![Neighbour(t, o)][Opposite(o)] = Append(@, f)]
    BY <1>1 DEF sendData, MoveFlit
  <2> HIDE DEF left
  <2>4. \A u \in Tile, q \in Port :
          /\ EndOf(t, o, u, q) <=>
               o # LOCAL_PORT /\ ~DeadEnd(t, o) /\ u = Neighbour(t, o) /\ q = Opposite(o)
          /\ EndOf(t, o, u, q) => u # t
    BY LinkLeads
  <2>5. CASE o = LOCAL_PORT \/ DeadEnd(t, o)
    BY <2>2, <2>3, <2>5, <2>4
  <2>6. CASE o # LOCAL_PORT /\ ~DeadEnd(t, o)
    <3>1. Neighbour(t, o) \in Tile /\ Opposite(o) \in Port
      BY <2>6, LinkHasTwoEnds DEF DeadEnd
    <3>2. Append(left[Neighbour(t, o)][Opposite(o)], f) \in Seq(AnyFlit)
      BY <2>2, <3>1
    <3>3. buffer' = [left EXCEPT ![Neighbour(t, o)][Opposite(o)] = Append(@, f)]
      BY <2>3, <2>6
    <3>4. /\ buffer' \in [Tile -> [Port -> Seq(AnyFlit)]]
          /\ \A u \in Tile, q \in Port :
               buffer'[u][q] = IF u = Neighbour(t, o) /\ q = Opposite(o)
                               THEN Append(left[u][q], f) ELSE left[u][q]
      BY <2>2, <3>1, <3>2, <3>3
    <3>5. \A u \in Tile, q \in Port : EndOf(t, o, u, q) <=> u = Neighbour(t, o) /\ q = Opposite(o)
      BY <2>6, <2>4
    <3>. QED BY <2>2, <2>4, <3>4, <3>5
  <2>. QED BY <2>5, <2>6
<1>. QED BY <1>1, <1>2 DEF Moves

LEMMA SendKeepsInv ==
  ASSUME Inv, NEW t \in Tile, NEW o \in Port, sendData(t, o)
  PROVE  Inv'
<1>. USE DEF Inv
<1>1. PICK T \in Plan : Coherent(T)
  OBVIOUS
<1>2. PICK p \in Port, f \in AnyFlit : Moves(T, t, o, p, f)
  BY <1>1, FlitMoves DEF Coherent
<1>3. /\ p = granted(t, o)
      /\ buffer[t][p] # <<>>
      /\ f = Head(buffer[t][p]) /\ f = buffer[t][p][1]
      /\ getDestination(t, f.to) = o
      /\ <<t, o>> \in held => Journey(f) = T[t][o]
  BY <1>2 DEF Moves
<1>4. f.left \in Nat /\ f.to \in Target /\ Journey(f) \in Journeys
  BY MeshAssumption DEF AnyFlit, Journey, Journeys
<1>5. PICK T2 \in Plan : T2 = [T EXCEPT ![t][o] = Journey(f)]
  BY <1>4 DEF Plan
<1>6. \A u \in Tile, q \in Port : T2[u][q] = IF u = t /\ q = o THEN Journey(f) ELSE T[u][q]
  BY <1>5 DEF Plan
<1> DEFINE end(u, q) == EndOf(t, o, u, q)
<1>7. /\ rest' = rest
      /\ held' = IF f.left > 0 THEN held \cup {<<t, o>>} ELSE held \ {<<t, o>>}
      /\ shown' = shown \ {<<t, p>>}
      /\ lastAccepted' = [lastAccepted EXCEPT ![t][o] = p]
  BY <1>3 DEF sendData, MoveFlit, keepsHold
<1>8. \A u \in Tile, q \in Port :
        end(u, q) <=> o # LOCAL_PORT /\ ~DeadEnd(t, o) /\ u = Neighbour(t, o) /\ q = Opposite(o)
  BY LinkLeads
<1>9. \A u \in Tile, q \in Port : end(u, q) => u # t
  BY LinkLeads
<1>10. /\ buffer' \in [Tile -> [Port -> Seq(AnyFlit)]]
       /\ \A u \in Tile, q \in Port :
            buffer'[u][q] = IF u = t /\ q = p THEN Tail(buffer[t][p])
                            ELSE IF end(u, q) THEN Append(buffer[u][q], f) ELSE buffer[u][q]
  BY <1>2 DEF Moves
<1> HIDE DEF end
<1>11. \A u \in Tile, q \in Port : <<u, q>> # <<t, o>> => (<<u, q>> \in held' <=> <<u, q>> \in held)
  BY <1>7
<1>12. <<t, o>> \in held' <=> f.left > 0
  BY <1>7
<1>13. \A u \in Tile, q \in Port :
         lastAccepted'[u][q] = IF u = t /\ q = o THEN p ELSE lastAccepted[u][q]
  BY <1>7 DEF Types
<1>14. /\ sending' \in [Reader -> Tile \cup {None}]
       /\ \A d \in Reader :
            sending'[d] = IF d = t /\ o = LOCAL_PORT THEN (IF f.left = 0 THEN None ELSE f.from)
                          ELSE sending[d]
  <2>1. sending \in [Reader -> Tile \cup {None}] /\ f.from \in Tile
    BY DEF Types, AnyFlit
  <2>2. CASE o = LOCAL_PORT /\ ~DeadEnd(t, o)
    <3>1. sending' = [sending EXCEPT ![t] = IF f.left = 0 THEN None ELSE f.from]
      BY <1>3, <2>2 DEF sendData, MoveFlit
    <3>. QED BY <2>1, <2>2, <3>1
  <2>3. CASE ~(o = LOCAL_PORT /\ ~DeadEnd(t, o))
    <3>1. sending' = sending
      BY <1>3, <2>3 DEF sendData, MoveFlit, history
    <3>2. \A d \in Reader : ~(d = t /\ o = LOCAL_PORT)
      BY <2>3 DEF DeadEnd, Reader
    <3>. QED BY <2>1, <3>1, <3>2
  <2>. QED BY <2>2, <2>3
<1>15. Types'
  <2>1. shown' \subseteq {tp \in Tile \X Port : buffer'[tp[1]][tp[2]] # <<>>}
    <3>1. ASSUME NEW tp \in shown' PROVE tp \in Tile \X Port /\ buffer'[tp[1]][tp[2]] # <<>>
      <4>1. tp \in Tile \X Port /\ tp # <<t, p>> /\ buffer[tp[1]][tp[2]] # <<>>
        BY <1>7, <3>1 DEF Types
      <4>2. PICK u \in Tile, q \in Port : tp = <<u, q>>
        BY <4>1
      <4>3. buffer[u][q] \in Seq(AnyFlit) /\ buffer[u][q] # <<>> /\ ~(u = t /\ q = p)
        BY <4>1, <4>2 DEF Types
      <4>4. Append(buffer[u][q], f) # <<>>
        BY <4>3
      <4>. QED BY <1>10, <4>1, <4>2, <4>3, <4>4
    <3>. QED BY <3>1
  <2>2. lastAccepted' \in [Tile -> [Port -> Nat]]
    <3>1. p \in Nat
      BY DEF Port
    <3>2. lastAccepted \in [Tile -> [Port -> Nat]]
      BY DEF Types
    <3>. QED BY <1>7, <3>1, <3>2
  <2>3. held' \subseteq Tile \X Port
    BY <1>7 DEF Types
  <2>4. rest' \in [Tile -> AnyFlit \cup {None}]
    BY <1>7 DEF Types
  <2>5. sending' \in [Reader -> Tile \cup {None}]
    BY <1>14 DEF Types
  <2>. QED BY <1>10, <2>1, <2>2, <2>3, <2>4, <2>5 DEF Types
(* What is owed at the end of the link comes, and what is owed elsewhere   *)
(* remains owed.                                                           *)
<1>16. \A u \in Tile, q \in Port : \A d : Owed(T, u, q, d) /\ end(u, q) => d = Journey(f)
  BY <1>3 DEF Owed, end, EndOf
<1>17. \A u \in Tile, q \in Port : \A d : Owed(T, u, q, d) /\ ~end(u, q) => Owed(T2, u, q, d)'
  <2>1. SUFFICES ASSUME NEW u \in Tile, NEW q \in Port, NEW d, Owed(T, u, q, d), ~end(u, q)
                 PROVE  Owed(T2, u, q, d)'
    OBVIOUS
  <2>2. CASE q = LOCAL_PORT
    BY <1>7, <2>1, <2>2 DEF Owed
  <2>3. CASE q # LOCAL_PORT
    <3>1. /\ <<Neighbour(u, q), Opposite(q)>> \in held
          /\ T[Neighbour(u, q)][Opposite(q)] = d
      BY <2>1, <2>3 DEF Owed
    <3>2. Neighbour(u, q) \in Tile /\ Opposite(q) \in Port
      BY <3>1 DEF Types
    <3>3. ~(Neighbour(u, q) = t /\ Opposite(q) = o)
      BY <2>1, <2>3 DEF end, EndOf
    <3>4. <<Neighbour(u, q), Opposite(q)>> \in held'
      BY <1>11, <3>1, <3>2, <3>3
    <3>5. T2[Neighbour(u, q)][Opposite(q)] = d
      BY <1>6, <3>1, <3>2, <3>3
    <3>. QED BY <2>3, <3>4, <3>5 DEF Owed
  <2>. QED BY <2>2, <2>3
<1>18. \A u \in Tile, q \in Port : end(u, q) /\ f.left > 0 => Owed(T2, u, q, Journey(f))'
  BY <1>6, <1>12 DEF Owed, end, EndOf
<1>19. /\ Contiguous(buffer[t][p])
       /\ buffer[t][p] \in Seq(AnyFlit)
  BY <1>1 DEF Coherent, PacketsWhole, Types
<1>20. ~end(t, p)
  BY <1>9
<1>21. PacketsWhole'
  <2>1. SUFFICES ASSUME NEW u \in Tile, NEW q \in Port
                 PROVE  Contiguous(buffer'[u][q])
    BY DEF PacketsWhole
  <2>2. Contiguous(buffer[u][q]) /\ buffer[u][q] \in Seq(AnyFlit)
    BY <1>1 DEF Coherent, PacketsWhole, Types
  <2>3. CASE u = t /\ q = p
    BY <1>3, <1>10, <1>19, <2>3, TailContiguous
  <2>4. CASE ~(u = t /\ q = p) /\ end(u, q)
    <3>1. buffer[u][q] # <<>> /\ buffer[u][q][Len(buffer[u][q])].left > 0
            => Journey(f) = Journey(buffer[u][q][Len(buffer[u][q])])
      BY <1>1, <1>16, <2>4 DEF Coherent, TailsOwed
    <3>2. Contiguous(Append(buffer[u][q], f))
      BY <2>2, <3>1, AppendContiguous
    <3>. QED BY <1>10, <2>4, <3>2
  <2>5. CASE ~(u = t /\ q = p) /\ ~end(u, q)
    BY <1>10, <2>2, <2>5
  <2>. QED BY <2>3, <2>4, <2>5
<1>22. TailsOwed(T2)'
  <2>1. SUFFICES ASSUME NEW u \in Tile, NEW q \in Port,
                        buffer'[u][q] # <<>>,
                        buffer'[u][q][Len(buffer'[u][q])].left > 0
                 PROVE  Owed(T2, u, q, Journey(buffer[u][q][Len(buffer[u][q])]))'
    BY DEF TailsOwed
  <2>2. buffer[u][q] \in Seq(AnyFlit)
    BY DEF Types
  <2>3. buffer[u][q] # <<>> /\ buffer[u][q][Len(buffer[u][q])].left > 0
          => Owed(T, u, q, Journey(buffer[u][q][Len(buffer[u][q])]))
    BY <1>1 DEF Coherent, TailsOwed
  <2>4. CASE ~end(u, q)
    <3>1. /\ buffer[u][q] # <<>>
          /\ buffer'[u][q][Len(buffer'[u][q])] = buffer[u][q][Len(buffer[u][q])]
      <4>1. CASE u = t /\ q = p
        <5>1. buffer'[u][q] = Tail(buffer[t][p])
          BY <1>10, <4>1
        <5>2. Tail(buffer[t][p])[Len(Tail(buffer[t][p]))] = buffer[t][p][Len(buffer[t][p])]
          BY <1>3, <1>19, <2>1, <5>1, TailContiguous
        <5>. QED BY <1>3, <4>1, <5>1, <5>2
      <4>2. CASE ~(u = t /\ q = p)
        BY <1>10, <2>1, <2>4, <4>2
      <4>. QED BY <4>1, <4>2
    <3>2. Owed(T, u, q, Journey(buffer[u][q][Len(buffer[u][q])]))
      BY <2>1, <2>3, <3>1
    <3>3. \A d : Owed(T, u, q, d) => Owed(T2, u, q, d)'
      BY <1>17, <2>4
    <3>. QED BY <3>1, <3>2, <3>3
  <2>5. CASE end(u, q)
    <3>1. buffer'[u][q] = Append(buffer[u][q], f)
      BY <1>9, <1>10, <2>5
    <3>2. buffer'[u][q][Len(buffer'[u][q])] = f
      BY <2>2, <3>1
    <3>3. Owed(T2, u, q, Journey(f))'
      BY <1>18, <2>1, <2>5, <3>2
    <3>. QED BY <3>2, <3>3
  <2>. QED BY <2>4, <2>5
<1>23. HoldsCoherent(T2)'
  <2>1. SUFFICES ASSUME NEW u \in Tile, NEW x \in Port, <<u, x>> \in held'
                 PROVE  HeldFor(T2, u, x, lastAccepted[u][x])'
    BY DEF HoldsCoherent
  <2>2. CASE u = t /\ x = o
    <3>1. getDestination(t, Journey(f).to) = o
      BY <1>3 DEF Journey
    <3>2. T2[u][x] = Journey(f) /\ lastAccepted'[u][x] = p /\ f.left > 0
      BY <1>6, <1>12, <1>13, <2>1, <2>2
    <3>3. buffer'[t][p] = Tail(buffer[t][p])
      BY <1>10
    <3>4. CASE Tail(buffer[t][p]) # <<>>
      <4>1. Journey(buffer'[t][p][1]) = Journey(f)
        BY <1>3, <1>19, <3>2, <3>3, <3>4, TailContiguous
      <4>. QED BY <1>3, <2>2, <3>1, <3>2, <3>3, <3>4, <4>1 DEF HeldFor
    <3>5. CASE Tail(buffer[t][p]) = <<>>
      <4>1. Len(buffer[t][p]) = 1
        BY <1>3, <1>19, <3>5, TailContiguous
      <4>2. Owed(T, t, p, Journey(f))
        BY <1>1, <1>3, <3>2, <4>1 DEF Coherent, TailsOwed
      <4>3. Owed(T2, t, p, Journey(f))'
        BY <1>17, <1>20, <4>2
      <4>. QED BY <1>3, <2>2, <3>1, <3>2, <3>3, <3>5, <4>3 DEF HeldFor
    <3>. QED BY <3>4, <3>5
  <2>3. CASE ~(u = t /\ x = o)
    <3>1. HeldFor(T, u, x, lastAccepted[u][x])
      BY <1>1, <1>11, <2>1, <2>3 DEF Coherent, HoldsCoherent
    <3>2. PICK q \in Port, d \in Journeys : q = lastAccepted[u][x] /\ d = T[u][x]
      BY <3>1 DEF HeldFor, Plan
    <3>3. /\ getDestination(u, d.to) = x
          /\ buffer[u][q] # <<>> => Journey(buffer[u][q][1]) = d
          /\ buffer[u][q] = <<>> => Owed(T, u, q, d)
      BY <3>2, <3>1 DEF HeldFor
    <3>4. T2[u][x] = d /\ lastAccepted'[u][x] = q
      BY <1>6, <1>13, <2>3, <3>2
    <3>5. ~(u = t /\ q = p)
      BY <1>3, <2>3, <3>3 DEF Journey
    <3>6. buffer[u][q] \in Seq(AnyFlit)
      BY DEF Types
    <3>7. \/ buffer'[u][q] # <<>> /\ Journey(buffer'[u][q][1]) = d
          \/ buffer'[u][q] = <<>> /\ Owed(T2, u, q, d)'
      <4>1. CASE end(u, q)
        <5>1. buffer'[u][q] = Append(buffer[u][q], f)
          BY <1>10, <3>3, <3>5, <4>1
        <5>2. CASE buffer[u][q] # <<>>
          <6>1. buffer'[u][q] # <<>> /\ buffer'[u][q][1] = buffer[u][q][1]
            BY <3>6, <5>1, <5>2
          <6>. QED BY <3>3, <5>2, <6>1
        <5>3. CASE buffer[u][q] = <<>>
          <6>1. buffer'[u][q] # <<>> /\ buffer'[u][q][1] = f
            BY <5>1, <5>3
          <6>2. d = Journey(f)
            BY <1>16, <3>3, <4>1, <5>3
          <6>. QED BY <6>1, <6>2
        <5>. QED BY <5>2, <5>3
      <4>2. CASE ~end(u, q)
        <5>1. buffer'[u][q] = buffer[u][q]
          BY <1>10, <3>3, <3>5, <4>2
        <5>2. Owed(T, u, q, d) => Owed(T2, u, q, d)'
          BY <1>17, <3>3, <4>2
        <5>. QED BY <3>3, <5>1, <5>2
      <4>. QED BY <4>1, <4>2
    <3>8. HeldFor(T2, u, x, q)'
      <4>1. getDestination(u, T2[u][x].to) = x
        BY <3>3, <3>4
      <4>2. CASE buffer'[u][q] # <<>>
        BY <3>4, <3>7, <4>1, <4>2 DEF HeldFor
      <4>3. CASE buffer'[u][q] = <<>>
        BY <3>4, <3>7, <4>1, <4>3 DEF HeldFor
      <4>. QED BY <4>2, <4>3
    <3>. QED BY <3>4, <3>8 DEF HeldFor
  <2>. QED BY <2>2, <2>3
<1>24. LinksAscend'
  <2>1. SUFFICES ASSUME NEW u \in Tile, NEW q \in Port \ {LOCAL_PORT},
                        NEW n \in DOMAIN buffer'[u][q]
                 PROVE  /\ ~DeadEnd(u, q)
                        /\ Rank(u, getDestination(u, buffer'[u][q][n].to))
                             > Rank(Neighbour(u, q), Opposite(q))
    BY DEF LinksAscend
  <2>2. \A m \in DOMAIN buffer[u][q] :
          /\ ~DeadEnd(u, q)
          /\ Rank(u, getDestination(u, buffer[u][q][m].to)) > Rank(Neighbour(u, q), Opposite(q))
    BY DEF LinksAscend
  <2>3. buffer[u][q] \in Seq(AnyFlit)
    BY DEF Types
  <2>4. CASE u = t /\ q = p
    <3>1. buffer'[u][q] = Tail(buffer[t][p])
      BY <1>10, <2>4
    <3>2. n + 1 \in DOMAIN buffer[u][q] /\ buffer'[u][q][n] = buffer[u][q][n + 1]
      BY <1>3, <1>19, <2>1, <2>4, <3>1, TailContiguous
    <3>. QED BY <2>2, <3>2
  <2>5. CASE end(u, q)
    <3>1. /\ o # LOCAL_PORT /\ ~DeadEnd(t, o)
          /\ u = Neighbour(t, o) /\ q = Opposite(o) /\ Neighbour(u, q) = t /\ Opposite(q) = o
      BY <1>8, <2>5 DEF end, EndOf
    <3>2. ~DeadEnd(u, q)
      BY <2>1, <3>1 DEF DeadEnd
    <3>3. Rank(u, getDestination(u, f.to)) > Rank(t, o)
      BY <1>3, <1>4, <3>1, RoutesAscend
    <3>4. buffer'[u][q] = Append(buffer[u][q], f)
      BY <1>9, <1>10, <2>5
    <3>5. buffer'[u][q][n] = f \/ (n \in DOMAIN buffer[u][q] /\ buffer'[u][q][n] = buffer[u][q][n])
      BY <2>1, <2>3, <3>4
    <3>. QED BY <2>2, <3>1, <3>2, <3>3, <3>5
  <2>6. CASE ~(u = t /\ q = p) /\ ~end(u, q)
    BY <1>10, <2>1, <2>2, <2>6
  <2>. QED BY <2>4, <2>5, <2>6
<1>25. SendingOK(T2)'
  <2>1. SUFFICES ASSUME NEW d \in Reader
                 PROVE  sending'[d] = IF <<d, LOCAL_PORT>> \in held'
                                      THEN T2[d][LOCAL_PORT].from ELSE None
    BY DEF SendingOK
  <2>2. d \in Tile /\ LOCAL_PORT \in Port
    BY MeshAssumption DEF Reader, Port, LOCAL_PORT
  <2>3. CASE d = t /\ o = LOCAL_PORT
    <3>1. T2[d][LOCAL_PORT].from = f.from
      BY <1>6, <2>2, <2>3 DEF Journey
    <3>. QED BY <1>4, <1>12, <1>14, <2>3, <3>1
  <2>4. CASE ~(d = t /\ o = LOCAL_PORT)
    <3>1. /\ T2[d][LOCAL_PORT] = T[d][LOCAL_PORT]
          /\ <<d, LOCAL_PORT>> \in held' <=> <<d, LOCAL_PORT>> \in held
      BY <1>6, <1>11, <2>2, <2>4
    <3>2. sending'[d] = sending[d]
      BY <1>14, <2>4
    <3>. QED BY <1>1, <3>1, <3>2 DEF Coherent, SendingOK
  <2>. QED BY <2>3, <2>4
<1>26. Coherent(T2)'
  BY <1>21, <1>22, <1>23, <1>25 DEF Coherent
<1>. QED BY <1>5, <1>15, <1>24, <1>26
-----------------------------------------------------------------------------
(* A tile's step: the flit continues the packet that the tile has started. *)

LEMMA WriteKeepsInv ==
  ASSUME Inv, NEW t \in Tile, NEW f \in AnyFlit, WriteFlit(t, f),
         rest[t] # None => f = rest[t]
  PROVE  Inv'
<1>. USE DEF Inv
<1>1. PICK T \in Plan : Coherent(T)
  OBVIOUS
<1>2. /\ LOCAL_PORT \in Port
      /\ f.left \in 0 .. MaxLength - 1 /\ f.left \in Nat
  BY MeshAssumption DEF Port, LOCAL_PORT, AnyFlit
<1>3. /\ buffer' = [buffer EXCEPT ![t][LOCAL_PORT] = Append(@, f)]
      /\ rest' = [rest EXCEPT ![t] = After(f)]
      /\ shown' = shown /\ lastAccepted' = lastAccepted /\ held' = held
      /\ sending' = sending
  BY DEF WriteFlit
<1>4. /\ After(f) \in AnyFlit \cup {None}
      /\ f.left > 0 => After(f) # None /\ Journey(After(f)) = Journey(f)
  <2>1. CASE f.left = 0
    BY <2>1 DEF After
  <2>2. CASE f.left # 0
    <3>1. After(f) = [f EXCEPT !.left = f.left - 1] /\ f.left - 1 \in 0 .. MaxLength - 1
      BY <1>2, <2>2, MeshAssumption DEF After
    <3>2. After(f) \in AnyFlit /\ Journey(After(f)) = Journey(f)
      BY <3>1 DEF AnyFlit, Journey
    <3>. QED BY <3>2, MeshAssumption
  <2>. QED BY <2>1, <2>2
<1>5. /\ rest' \in [Tile -> AnyFlit \cup {None}]
      /\ \A u \in Tile : rest'[u] = IF u = t THEN After(f) ELSE rest[u]
  BY <1>3, <1>4 DEF Types
<1>6. /\ buffer' \in [Tile -> [Port -> Seq(AnyFlit)]]
      /\ \A u \in Tile, q \in Port :
           buffer'[u][q] = IF u = t /\ q = LOCAL_PORT THEN Append(buffer[u][q], f) ELSE buffer[u][q]
  <2>1. buffer \in [Tile -> [Port -> Seq(AnyFlit)]]
    BY DEF Types
  <2>2. Append(buffer[t][LOCAL_PORT], f) \in Seq(AnyFlit)
    BY <1>2, <2>1
  <2>. QED BY <1>2, <1>3, <2>1, <2>2
<1>7. Types'
  <2>1. shown' \subseteq {tp \in Tile \X Port : buffer'[tp[1]][tp[2]] # <<>>}
    <3>1. ASSUME NEW tp \in shown' PROVE tp \in Tile \X Port /\ buffer'[tp[1]][tp[2]] # <<>>
      <4>1. tp \in Tile \X Port /\ buffer[tp[1]][tp[2]] # <<>>
        BY <1>3, <3>1 DEF Types
      <4>2. PICK u \in Tile, q \in Port : tp = <<u, q>>
        BY <4>1
      <4>3. buffer[u][q] \in Seq(AnyFlit) /\ buffer[u][q] # <<>>
        BY <4>1, <4>2 DEF Types
      <4>4. Append(buffer[u][q], f) # <<>>
        BY <4>3
      <4>. QED BY <1>6, <4>1, <4>2, <4>3, <4>4
    <3>. QED BY <3>1
  <2>. QED BY <1>3, <1>5, <1>6, <2>1 DEF Types
<1>8. \A d : Owed(T, t, LOCAL_PORT, d) => d = Journey(f)
  BY DEF Owed
<1>9. f.left > 0 => Owed(T, t, LOCAL_PORT, Journey(f))'
  BY <1>4, <1>5 DEF Owed
<1>10. \A u \in Tile, q \in Port : \A d :
         Owed(T, u, q, d) /\ ~(u = t /\ q = LOCAL_PORT) => Owed(T, u, q, d)'
  BY <1>3, <1>5 DEF Owed
<1>11. PacketsWhole'
  <2>1. SUFFICES ASSUME NEW u \in Tile, NEW q \in Port
                 PROVE  Contiguous(buffer'[u][q])
    BY DEF PacketsWhole
  <2>2. Contiguous(buffer[u][q]) /\ buffer[u][q] \in Seq(AnyFlit)
    BY <1>1 DEF Coherent, PacketsWhole, Types
  <2>3. CASE u = t /\ q = LOCAL_PORT
    <3>1. buffer[u][q] # <<>> /\ buffer[u][q][Len(buffer[u][q])].left > 0
            => Journey(f) = Journey(buffer[u][q][Len(buffer[u][q])])
      BY <1>1, <1>8, <2>3 DEF Coherent, TailsOwed
    <3>2. Contiguous(Append(buffer[u][q], f))
      BY <2>2, <3>1, AppendContiguous
    <3>. QED BY <1>6, <2>3, <3>2
  <2>4. CASE ~(u = t /\ q = LOCAL_PORT)
    BY <1>6, <2>2, <2>4
  <2>. QED BY <2>3, <2>4
<1>12. TailsOwed(T)'
  <2>1. SUFFICES ASSUME NEW u \in Tile, NEW q \in Port,
                        buffer'[u][q] # <<>>,
                        buffer'[u][q][Len(buffer'[u][q])].left > 0
                 PROVE  Owed(T, u, q, Journey(buffer[u][q][Len(buffer[u][q])]))'
    BY DEF TailsOwed
  <2>2. buffer[u][q] \in Seq(AnyFlit)
    BY DEF Types
  <2>3. CASE u = t /\ q = LOCAL_PORT
    <3>1. buffer'[u][q] = Append(buffer[u][q], f)
      BY <1>6, <2>3
    <3>2. buffer'[u][q][Len(buffer'[u][q])] = f
      BY <2>2, <3>1
    <3>. QED BY <1>9, <2>1, <2>3, <3>2
  <2>4. CASE ~(u = t /\ q = LOCAL_PORT)
    <3>1. buffer'[u][q] = buffer[u][q]
      BY <1>6, <2>4
    <3>2. Owed(T, u, q, Journey(buffer[u][q][Len(buffer[u][q])]))
      BY <1>1, <2>1, <3>1 DEF Coherent, TailsOwed
    <3>3. \A d : Owed(T, u, q, d) => Owed(T, u, q, d)'
      BY <1>10, <2>4
    <3>. QED BY <3>1, <3>2, <3>3
  <2>. QED BY <2>3, <2>4
<1>13. HoldsCoherent(T)'
  <2>1. SUFFICES ASSUME NEW u \in Tile, NEW x \in Port, <<u, x>> \in held'
                 PROVE  HeldFor(T, u, x, lastAccepted[u][x])'
    BY DEF HoldsCoherent
  <2>2. HeldFor(T, u, x, lastAccepted[u][x])
    BY <1>1, <1>3, <2>1 DEF Coherent, HoldsCoherent
  <2>3. PICK q \in Port, d \in Journeys : q = lastAccepted[u][x] /\ d = T[u][x]
    BY <2>2 DEF HeldFor, Plan
  <2>4. /\ getDestination(u, d.to) = x
        /\ buffer[u][q] # <<>> => Journey(buffer[u][q][1]) = d
        /\ buffer[u][q] = <<>> => Owed(T, u, q, d)
    BY <2>2, <2>3 DEF HeldFor
  <2>5. buffer[u][q] \in Seq(AnyFlit)
    BY DEF Types
  <2>6. \/ buffer'[u][q] # <<>> /\ Journey(buffer'[u][q][1]) = d
        \/ buffer'[u][q] = <<>> /\ Owed(T, u, q, d)'
    <3>1. CASE u = t /\ q = LOCAL_PORT
      <4>1. buffer'[u][q] = Append(buffer[u][q], f)
        BY <1>6, <3>1
      <4>2. CASE buffer[u][q] # <<>>
        <5>1. buffer'[u][q] # <<>> /\ buffer'[u][q][1] = buffer[u][q][1]
          BY <2>5, <4>1, <4>2
        <5>. QED BY <2>4, <4>2, <5>1
      <4>3. CASE buffer[u][q] = <<>>
        <5>1. buffer'[u][q] # <<>> /\ buffer'[u][q][1] = f
          BY <4>1, <4>3
        <5>2. d = Journey(f)
          BY <1>8, <2>4, <3>1, <4>3
        <5>. QED BY <5>1, <5>2
      <4>. QED BY <4>2, <4>3
    <3>2. CASE ~(u = t /\ q = LOCAL_PORT)
      <4>1. buffer'[u][q] = buffer[u][q]
        BY <1>6, <3>2
      <4>2. Owed(T, u, q, d) => Owed(T, u, q, d)'
        BY <1>10, <3>2
      <4>. QED BY <2>4, <4>1, <4>2
    <3>. QED BY <3>1, <3>2
  <2>7. HeldFor(T, u, x, q)'
    <3>1. CASE buffer'[u][q] # <<>>
      BY <2>3, <2>4, <2>6, <3>1 DEF HeldFor
    <3>2. CASE buffer'[u][q] = <<>>
      BY <2>3, <2>4, <2>6, <3>2 DEF HeldFor
    <3>. QED BY <3>1, <3>2
  <2>. QED BY <1>3, <2>3, <2>7 DEF HeldFor
<1>14. LinksAscend'
  <2>1. \A u \in Tile, q \in Port \ {LOCAL_PORT} : buffer'[u][q] = buffer[u][q]
    BY <1>6
  <2>. QED BY <2>1 DEF LinksAscend
<1>15. SendingOK(T)'
  BY <1>1, <1>3 DEF Coherent, SendingOK
<1>16. Coherent(T)'
  BY <1>11, <1>12, <1>13, <1>15 DEF Coherent
<1>. QED BY <1>7, <1>14, <1>16
-----------------------------------------------------------------------------
(* Steps that leave the routers alone but for what has been announced.     *)
LEMMA OthersKeepInv ==
  ASSUME Inv,
         \/ \E t \in Tile : Take(t)
         \/ \E t \in Tile, p \in Port : newData(t, p)
         \/ UNCHANGED vars
  PROVE  Inv'
<1>1. UNCHANGED <<buffer, lastAccepted, held, rest, sending>>
  BY DEF Take, newData, vars, history
<1>2. shown' \subseteq {tp \in Tile \X Port : buffer[tp[1]][tp[2]] # <<>>}
  <2>1. CASE shown' = shown
    BY <2>1 DEF Inv, Types
  <2>2. CASE \E t \in Tile, p \in Port : newData(t, p)
    BY <2>2 DEF Inv, Types, newData
  <2>. QED BY <2>1, <2>2 DEF Take, vars
<1>3. Types'
  BY <1>1, <1>2 DEF Inv, Types
<1>4. \A T \in Plan : Coherent(T) => Coherent(T)'
  BY <1>1 DEF Coherent, PacketsWhole, TailsOwed, HoldsCoherent, HeldFor, Owed, SendingOK
<1>5. LinksAscend'
  BY <1>1 DEF Inv, LinksAscend
<1>. QED BY <1>3, <1>4, <1>5 DEF Inv

LEMMA InitInv == Init => Inv
<1>. SUFFICES ASSUME Init PROVE Inv
  OBVIOUS
<1>1. /\ \A t \in Tile, p \in Port : buffer[t][p] = <<>>
      /\ shown = {} /\ held = {}
  BY DEF Init
<1>2. Types
  BY DEF Init, Types, NothingAccepted
<1>3. [t \in Tile |-> [o \in Port |-> [from |-> t, to |-> [x |-> 0, y |-> 0]]]] \in Plan
  BY DEF Plan, Journeys, Target
<1>4. PacketsWhole
  BY <1>1 DEF PacketsWhole, Contiguous
<1>5. \A T \in Plan : TailsOwed(T) /\ HoldsCoherent(T) /\ SendingOK(T)
  BY <1>1 DEF TailsOwed, HoldsCoherent, SendingOK, Init
<1>6. LinksAscend
  BY <1>1 DEF LinksAscend
<1>. QED BY <1>2, <1>3, <1>4, <1>5, <1>6 DEF Inv, Coherent

LEMMA NextKeepsInv == Inv /\ [Next]_vars => Inv'
<1>. SUFFICES ASSUME Inv, [Next]_vars PROVE Inv'
  OBVIOUS
<1>1. ASSUME NEW t \in Tile, StartPacket(t) PROVE Inv'
  <2>1. PICK f \in Packets : rest[t] = None /\ WriteFlit(t, f)
    BY <1>1 DEF StartPacket
  <2>2. f \in AnyFlit
    BY MeshAssumption
  <2>. QED BY <2>1, <2>2, WriteKeepsInv
<1>2. ASSUME NEW t \in Tile, ContinuePacket(t) PROVE Inv'
  <2>1. rest[t] # None /\ WriteFlit(t, rest[t])
    BY <1>2 DEF ContinuePacket
  <2>2. PICK f \in AnyFlit : f = rest[t]
    BY <2>1 DEF Inv, Types
  <2>. QED BY <2>1, <2>2, WriteKeepsInv
<1>3. ASSUME NEW t \in Tile, Take(t) PROVE Inv'
  BY <1>3, OthersKeepInv
<1>4. ASSUME NEW t \in Tile, NEW p \in Port, newData(t, p) PROVE Inv'
  BY <1>4, OthersKeepInv
<1>5. ASSUME NEW t \in Tile, NEW o \in Port, sendData(t, o) PROVE Inv'
  BY <1>5, SendKeepsInv
<1>6. CASE UNCHANGED vars
  BY <1>6, OthersKeepInv
<1>. QED BY <1>1, <1>2, <1>3, <1>4, <1>5, <1>6 DEF Next

(* In a mesh of any size, with buffers of any size, and for packets of any *)
(* number and length between any tiles, each flit in a router's buffer     *)
(* wants to leave over a link that ranks above the one it came over, and   *)
(* none has come from beyond the edge: packets that hold some links of     *)
(* Mesh.h and wait for others never wait in a circle.                      *)
THEOREM LinksAlwaysAscend == Spec => []LinksAscend
<1>1. Init => Inv
  BY InitInv
<1>2. Inv /\ [Next]_vars => Inv'
  BY NextKeepsInv
<1>3. Inv => LinksAscend
  BY DEF Inv
<1>. QED BY <1>1, <1>2, <1>3, PTL DEF Spec

(* The routers' crossbars (Network.cpp) repeat a grant without looking at  *)
(* the flit, and yet no output moves a flit that wants another one: at no  *)
(* router do packets that wait behind each other get onto the wrong way.   *)
RouteFollowed ==
  \A t \in Tile, o \in Port :
    sendData(t, o) => getDestination(t, buffer[t][granted(t, o)][1].to) = o

THEOREM FlitsFollowRoutes == Spec => [][RouteFollowed]_vars
<1>1. Init => Inv
  BY InitInv
<1>2. Inv /\ [Next]_vars => Inv'
  BY NextKeepsInv
<1>3. Inv => RouteFollowed
  <2>1. SUFFICES ASSUME Inv, NEW t \in Tile, NEW o \in Port, sendData(t, o)
                 PROVE  getDestination(t, buffer[t][granted(t, o)][1].to) = o
    BY DEF RouteFollowed
  <2>2. PICK T \in Plan : Coherent(T)
    BY <2>1 DEF Inv
  <2>. QED BY <2>1, <2>2, FlitMovesAlongRoute DEF Inv, Coherent
<1>. QED BY <1>1, <1>2, <1>3, PTL DEF Spec
-----------------------------------------------------------------------------
(* Flits from one tile to another stay in order: they all take the same    *)
(* way, and on each buffer of it the first to come is the first to go.     *)

Between(a, b) == IF a < b THEN b - a ELSE a - b
Distance(s, t) == Between(s.x, t.x) + Between(s.y, t.y)

(* The inputs a flit from s to d comes in at.                              *)
OnRoute(s, d, t, p) ==
  \/ p = LOCAL_PORT /\ t = s
  \/ p = WEST /\ t.y = s.y /\ s.x < t.x /\ t.x <= d.x
  \/ p = EAST /\ t.y = s.y /\ d.x <= t.x /\ t.x < s.x
  \/ p = NORTH /\ t.x = d.x /\ s.y < t.y /\ t.y <= d.y
  \/ p = SOUTH /\ t.x = d.x /\ d.y <= t.y /\ t.y < s.y

(* The flit in place k of input p of t is one from s to d.                 *)
Holds(s, d, t, p, k) ==
  k \in DOMAIN buffer[t][p] /\ buffer[t][p][k].from = s /\ buffer[t][p][k].to = d

(* What is in place k of an input of t goes before what is in place j of   *)
(* an input of u, when both come from s and go to the same tile.           *)
Before(s, t, k, u, j) == Distance(s, t) > Distance(s, u) \/ (t = u /\ k < j)

(* N numbers the flits in the buffers, those of one way in the order they  *)
(* were sent in; c counts the flits that have arrived.                     *)
Numbers == [Tile -> [Port -> Seq(Nat)]]
Counts == [Sender -> [Reader -> Nat]]

EachNumbered(N) == \A t \in Tile, p \in Port : DOMAIN N[t][p] = DOMAIN buffer[t][p]
NumbersRight(N, c) ==
  \A s \in Sender, d \in Reader : \A t \in Tile, p \in Port : \A k \in Nat :
    Holds(s, d, t, p, k) =>
      /\ OnRoute(s, d, t, p)
      /\ \E n \in 1 .. Len(inTransit[s][d]) :
           N[t][p][k] = c[s][d] + n /\ inTransit[s][d][n] = buffer[t][p][k]
NoneLost(N, c) ==
  \A s \in Sender, d \in Reader : \A n \in 1 .. Len(inTransit[s][d]) :
    \E t \in Tile, p \in Port : \E k \in Nat :
      Holds(s, d, t, p, k) /\ N[t][p][k] = c[s][d] + n
Ordered(N) ==
  \A s \in Sender, d \in Reader : \A t, u \in Tile, p, q \in Port : \A k, j \in Nat :
    Holds(s, d, t, p, k) /\ Holds(s, d, u, q, j) /\ Before(s, t, k, u, j)
      => N[t][p][k] < N[u][q][j]

Numbered(N, c) == EachNumbered(N) /\ NumbersRight(N, c) /\ NoneLost(N, c) /\ Ordered(N)

(* Only packets that tiles may send are on their way.                      *)
Known ==
  /\ \A t \in Tile, p \in Port : \A k \in DOMAIN buffer[t][p] : buffer[t][p][k] \in Flit
  /\ \A t \in Tile : rest[t] # None => rest[t] \in Flit /\ rest[t].from = t
  /\ received \in [Tile -> Seq(Flit)]
  /\ inTransit \in [Sender -> [Reader -> Seq(Flit)]]

OrderInv == Inv /\ Known /\ \E N \in Numbers, c \in Counts : Numbered(N, c)
-----------------------------------------------------------------------------
(* Packets are between a tile that sends and a target.                     *)
LEMMA FlitFacts ==
  /\ Flit \subseteq AnyFlit
  /\ Packets \subseteq Flit
  /\ \A f \in Flit : /\ f.from \in Sender /\ f.left \in Nat
                     /\ f.to \in Connected => f.to \in Reader
                     /\ After(f) # None => After(f) \in Flit /\ After(f).from = f.from
  /\ Sender \subseteq Tile /\ Reader \subseteq Tile /\ Reader \subseteq Connected
<1>1. ASSUME NEW f \in Flit
      PROVE  /\ f \in AnyFlit /\ f.from \in Sender /\ f.left \in Nat
             /\ f.to \in Connected => f.to \in Reader
             /\ After(f) # None => After(f) \in Flit /\ After(f).from = f.from
  <2>1. PICK p \in Packets, n \in 0 .. MaxLength - 1 : f = [p EXCEPT !.left = n]
    BY DEF Flit
  <2>2. p \in AnyFlit
    BY MeshAssumption
  <2>3. /\ f = [from |-> p.from, to |-> p.to, left |-> n]
        /\ f.from = p.from /\ f.to = p.to /\ f.left = n /\ n \in Nat
    BY <2>1, <2>2, MeshAssumption DEF AnyFlit
  <2>4. f \in AnyFlit
    BY <2>2, <2>3 DEF AnyFlit
  <2>5. f.from \in Sender /\ (f.to \in Connected => f.to \in Reader)
    BY <2>3 DEF Sender, Reader
  <2>6. ASSUME After(f) # None PROVE After(f) \in Flit /\ After(f).from = f.from
    <3>1. n # 0 /\ After(f) = [f EXCEPT !.left = n - 1]
      BY <2>3, <2>6 DEF After
    <3>2. n - 1 \in 0 .. MaxLength - 1 /\ After(f) = [p EXCEPT !.left = n - 1]
      BY <2>2, <2>3, <3>1, MeshAssumption DEF AnyFlit
    <3>3. After(f) \in Flit
      BY <3>2 DEF Flit
    <3>. QED BY <2>3, <3>1, <3>3
  <2>. QED BY <2>3, <2>4, <2>5, <2>6
<1>2. ASSUME NEW p \in Packets PROVE p \in Flit
  <2>1. p \in AnyFlit
    BY MeshAssumption
  <2>2. p.left \in 0 .. MaxLength - 1 /\ p = [p EXCEPT !.left = p.left]
    BY <2>1 DEF AnyFlit
  <2>. QED BY <2>2 DEF Flit
<1>3. Sender \subseteq Tile
  BY MeshAssumption DEF Sender, AnyFlit
<1>4. Reader \subseteq Tile /\ Reader \subseteq Connected
  BY MeshAssumption DEF Reader
<1>. QED BY <1>1, <1>2, <1>3, <1>4

LEMMA TileCoordinates ==
  ASSUME NEW t \in Tile
  PROVE  t.x \in Nat /\ t.y \in Nat /\ t.x < Width /\ t.y < Height
BY MeshAssumption DEF Tile

(* A queue of flits and that of their numbers have the same places.        *)
LEMMA NumbersAlongside ==
  ASSUME NEW a \in Seq(AnyFlit), NEW b \in Seq(Nat), Len(a) = Len(b), NEW f, NEW n
  PROVE  /\ DOMAIN a = DOMAIN b
         /\ a # <<>> => DOMAIN Tail(a) = DOMAIN Tail(b)
         /\ DOMAIN Append(a, f) = DOMAIN Append(b, n)
<1>1. /\ DOMAIN a = 1 .. Len(a) /\ DOMAIN b = 1 .. Len(a) /\ Len(a) \in Nat
      /\ (a # <<>>) <=> (Len(a) # 0)
      /\ (b # <<>>) <=> (Len(a) # 0)
  OBVIOUS
<1>2. /\ DOMAIN Append(a, f) = 1 .. Len(a) + 1
      /\ DOMAIN Append(b, n) = 1 .. Len(a) + 1
  OBVIOUS
<1>3. ASSUME a # <<>>
      PROVE  DOMAIN Tail(a) = 1 .. Len(a) - 1 /\ DOMAIN Tail(b) = 1 .. Len(a) - 1
  BY <1>1, <1>3
<1>. QED BY <1>1, <1>2, <1>3

LEMMA SameTile ==
  ASSUME NEW t \in Tile, NEW u \in Tile, t.x = u.x, t.y = u.y
  PROVE  t = u
BY DEF Tile

(* A route leads along the row first, then along the column.               *)
LEMMA RouteForm ==
  ASSUME NEW s \in Tile, NEW d \in Tile, NEW t \in Tile, NEW p, OnRoute(s, d, t, p)
  PROVE  \/ p = LOCAL_PORT /\ t.x = s.x /\ t.y = s.y /\ Distance(s, t) = 0
         \/ /\ p = WEST /\ t.y = s.y /\ s.x < t.x /\ t.x <= d.x
            /\ Distance(s, t) = t.x - s.x
         \/ /\ p = EAST /\ t.y = s.y /\ d.x <= t.x /\ t.x < s.x
            /\ Distance(s, t) = s.x - t.x
         \/ /\ p = NORTH /\ t.x = d.x /\ s.y < t.y /\ t.y <= d.y
            /\ Distance(s, t) = Between(s.x, d.x) + (t.y - s.y)
         \/ /\ p = SOUTH /\ t.x = d.x /\ d.y <= t.y /\ t.y < s.y
            /\ Distance(s, t) = Between(s.x, d.x) + (s.y - t.y)
<1>1. /\ s.x \in Nat /\ s.y \in Nat /\ d.x \in Nat /\ d.y \in Nat
      /\ t.x \in Nat /\ t.y \in Nat
  BY TileCoordinates
<1>2. CASE p = LOCAL_PORT /\ t = s
  BY <1>1, <1>2 DEF Distance, Between
<1>3. CASE p = WEST /\ t.y = s.y /\ s.x < t.x /\ t.x <= d.x
  BY <1>1, <1>3 DEF Distance, Between
<1>4. CASE p = EAST /\ t.y = s.y /\ d.x <= t.x /\ t.x < s.x
  BY <1>1, <1>4 DEF Distance, Between
<1>5. CASE p = NORTH /\ t.x = d.x /\ s.y < t.y /\ t.y <= d.y
  BY <1>1, <1>5 DEF Distance, Between
<1>6. CASE p = SOUTH /\ t.x = d.x /\ d.y <= t.y /\ t.y < s.y
  BY <1>1, <1>6 DEF Distance, Between
<1>. QED BY <1>2, <1>3, <1>4, <1>5, <1>6 DEF OnRoute

(* Along one coordinate.                                                   *)
LEMMA BetweenIs ==
  ASSUME NEW a \in Nat, NEW b \in Nat
  PROVE  /\ Between(a, b) \in Nat
         /\ a <= b => Between(a, b) = b - a
         /\ b <= a => Between(a, b) = a - b
BY DEF Between

(* A route has each of its inputs at a distance of its own, ...            *)
LEMMA RoutePlace ==
  ASSUME NEW s \in Tile, NEW d \in Tile, NEW t \in Tile, NEW u \in Tile, NEW p, NEW q,
         OnRoute(s, d, t, p), OnRoute(s, d, u, q), Distance(s, t) = Distance(s, u)
  PROVE  t = u /\ p = q
<1>1. /\ s.x \in Nat /\ s.y \in Nat /\ d.x \in Nat /\ d.y \in Nat
      /\ t.x \in Nat /\ t.y \in Nat /\ u.x \in Nat /\ u.y \in Nat
  BY TileCoordinates
<1>2. /\ Between(s.x, d.x) \in Nat
      /\ s.x <= d.x => Between(s.x, d.x) = d.x - s.x
      /\ d.x <= s.x => Between(s.x, d.x) = s.x - d.x
  BY <1>1, BetweenIs
<1>3. PICK X \in Nat, E \in Nat, z \in Nat :
        /\ X = Between(s.x, d.x) /\ E = Distance(s, t)
        /\ z = d.x /\ E = Distance(s, u)
  BY <1>1, <1>2, RouteForm DEF Distance, Between
<1>4. /\ \/ p = LOCAL_PORT /\ t.x = s.x /\ t.y = s.y /\ E = 0
         \/ p = WEST /\ t.y = s.y /\ s.x < t.x /\ t.x <= z /\ E = t.x - s.x
         \/ p = EAST /\ t.y = s.y /\ z <= t.x /\ t.x < s.x /\ E = s.x - t.x
         \/ p = NORTH /\ t.x = z /\ s.y < t.y /\ t.y <= d.y /\ E = X + (t.y - s.y)
         \/ p = SOUTH /\ t.x = z /\ d.y <= t.y /\ t.y < s.y /\ E = X + (s.y - t.y)
      /\ \/ q = LOCAL_PORT /\ u.x = s.x /\ u.y = s.y /\ E = 0
         \/ q = WEST /\ u.y = s.y /\ s.x < u.x /\ u.x <= z /\ E = u.x - s.x
         \/ q = EAST /\ u.y = s.y /\ z <= u.x /\ u.x < s.x /\ E = s.x - u.x
         \/ q = NORTH /\ u.x = z /\ s.y < u.y /\ u.y <= d.y /\ E = X + (u.y - s.y)
         \/ q = SOUTH /\ u.x = z /\ d.y <= u.y /\ u.y < s.y /\ E = X + (s.y - u.y)
      /\ s.x <= z => X = z - s.x
      /\ z <= s.x => X = s.x - z
  BY <1>2, <1>3, RouteForm
<1>5. t.x = u.x /\ t.y = u.y /\ p = q
  BY <1>1, <1>3, <1>4
<1>. QED BY <1>5, SameTile

(* ... ends at its target, ...                                             *)
LEMMA RouteEnds ==
  ASSUME NEW s \in Tile, NEW d \in Tile, NEW t \in Tile, NEW p, OnRoute(s, d, t, p)
  PROVE  Distance(s, t) \in Nat /\ Distance(s, d) \in Nat /\ Distance(s, t) <= Distance(s, d)
<1>1. /\ s.x \in Nat /\ s.y \in Nat /\ d.x \in Nat /\ d.y \in Nat
      /\ t.x \in Nat /\ t.y \in Nat
  BY TileCoordinates
<1>2. /\ Between(s.x, d.x) \in Nat /\ Between(s.y, d.y) \in Nat
      /\ s.x <= d.x => Between(s.x, d.x) = d.x - s.x
      /\ d.x <= s.x => Between(s.x, d.x) = s.x - d.x
      /\ s.y <= d.y => Between(s.y, d.y) = d.y - s.y
      /\ d.y <= s.y => Between(s.y, d.y) = s.y - d.y
  BY <1>1, BetweenIs
<1>3. Distance(s, d) = Between(s.x, d.x) + Between(s.y, d.y)
  BY DEF Distance
<1>. QED BY <1>1, <1>2, <1>3, RouteForm

(* Flits leave the mesh at the tile they are addressed to.                 *)
LEMMA LocalIsTarget ==
  ASSUME NEW t \in Tile, NEW d \in Target, getDestination(t, d) = LOCAL_PORT
  PROVE  d = t
<1>1. t.x \in Nat /\ t.y \in Nat /\ d.x \in Nat /\ d.y \in Nat
  BY TileCoordinates DEF Target
<1>2. d.x = t.x /\ d.y = t.y
  BY <1>1 DEF getDestination, NORTH, EAST, SOUTH, WEST, LOCAL_PORT
<1>. QED BY <1>2 DEF Target, Tile

(* ... and goes from each input to the next, where the router sends it.    *)
LEMMA RouteGoesOn ==
  ASSUME NEW s \in Tile, NEW d \in Tile, NEW t \in Tile, NEW p,
         OnRoute(s, d, t, p), NEW o, o = getDestination(t, d)
  PROVE  /\ o = LOCAL_PORT => t = d
         /\ o # LOCAL_PORT => /\ ~DeadEnd(t, o)
                              /\ OnRoute(s, d, Neighbour(t, o), Opposite(o))
                              /\ Distance(s, Neighbour(t, o)) = Distance(s, t) + 1
<1>1. /\ s.x \in Nat /\ s.y \in Nat /\ d.x \in Nat /\ d.y \in Nat
      /\ t.x \in Nat /\ t.y \in Nat /\ d.x < Width /\ d.y < Height
      /\ t.x < Width /\ t.y < Height /\ Width \in Nat /\ Height \in Nat
  BY TileCoordinates, MeshAssumption
<1>2. t = s => t.x = s.x /\ t.y = s.y
  OBVIOUS
<1>3. \/ o = EAST /\ d.x > t.x
      \/ o = WEST /\ d.x < t.x
      \/ o = SOUTH /\ d.x = t.x /\ d.y > t.y
      \/ o = NORTH /\ d.x = t.x /\ d.y < t.y
      \/ o = LOCAL_PORT /\ d.x = t.x /\ d.y = t.y
  BY <1>1 DEF getDestination, NORTH, EAST, SOUTH, WEST, LOCAL_PORT
<1>4. o = LOCAL_PORT => t = d
  BY <1>3, SameTile DEF NORTH, EAST, SOUTH, WEST, LOCAL_PORT
<1>5. \A x, y \in Nat :
        o # LOCAL_PORT /\ Neighbour(t, o) = [x |-> x, y |-> y] /\ x < Width /\ y < Height
          => ~DeadEnd(t, o)
  BY <1>1 DEF DeadEnd, Tile
<1>6. CASE o = EAST
  <2>1. d.x > t.x /\ o # LOCAL_PORT /\ Opposite(o) = WEST
    BY <1>3, <1>6 DEF Opposite, NORTH, EAST, SOUTH, WEST, LOCAL_PORT
  <2>2. Neighbour(t, o) = [x |-> t.x + 1, y |-> t.y]
    BY <1>6 DEF Neighbour, NORTH, EAST, SOUTH, WEST, LOCAL_PORT
  <2>3. t.y = s.y /\ s.x <= t.x
    BY <1>1, <1>2, <2>1 DEF OnRoute
  <2>4. OnRoute(s, d, Neighbour(t, o), Opposite(o))
    BY <1>1, <2>1, <2>2, <2>3 DEF OnRoute
  <2>5. Distance(s, Neighbour(t, o)) = Distance(s, t) + 1
    BY <1>1, <2>2, <2>3 DEF Distance, Between
  <2>6. ~DeadEnd(t, o)
    <3>1. PICK x \in Nat, y \in Nat : Neighbour(t, o) = [x |-> x, y |-> y] /\ x < Width /\ y < Height
      BY <1>1, <2>1, <2>2
    <3>. QED BY <1>5, <2>1, <3>1
  <2>. QED BY <2>1, <2>4, <2>5, <2>6
<1>7. CASE o = WEST
  <2>1. d.x < t.x /\ o # LOCAL_PORT /\ Opposite(o) = EAST
    BY <1>3, <1>7 DEF Opposite, NORTH, EAST, SOUTH, WEST, LOCAL_PORT
  <2>2. Neighbour(t, o) = [x |-> t.x - 1, y |-> t.y] /\ t.x - 1 \in Nat
    BY <1>1, <1>7, <2>1 DEF Neighbour, NORTH, EAST, SOUTH, WEST, LOCAL_PORT
  <2>3. t.y = s.y /\ t.x <= s.x
    BY <1>1, <1>2, <2>1 DEF OnRoute
  <2>4. OnRoute(s, d, Neighbour(t, o), Opposite(o))
    BY <1>1, <2>1, <2>2, <2>3 DEF OnRoute
  <2>5. Distance(s, Neighbour(t, o)) = Distance(s, t) + 1
    BY <1>1, <2>2, <2>3 DEF Distance, Between
  <2>6. ~DeadEnd(t, o)
    <3>1. PICK x \in Nat, y \in Nat : Neighbour(t, o) = [x |-> x, y |-> y] /\ x < Width /\ y < Height
      BY <1>1, <2>1, <2>2
    <3>. QED BY <1>5, <2>1, <3>1
  <2>. QED BY <2>1, <2>4, <2>5, <2>6
<1>8. CASE o = SOUTH
  <2>1. d.x = t.x /\ d.y > t.y /\ o # LOCAL_PORT /\ Opposite(o) = NORTH
    BY <1>3, <1>8 DEF Opposite, NORTH, EAST, SOUTH, WEST, LOCAL_PORT
  <2>2. Neighbour(t, o) = [x |-> t.x, y |-> t.y + 1]
    BY <1>8 DEF Neighbour, NORTH, EAST, SOUTH, WEST, LOCAL_PORT
  <2>3. s.y <= t.y
    BY <1>1, <1>2, <2>1 DEF OnRoute
  <2>4. OnRoute(s, d, Neighbour(t, o), Opposite(o))
    BY <1>1, <2>1, <2>2, <2>3 DEF OnRoute
  <2>5. Distance(s, Neighbour(t, o)) = Distance(s, t) + 1
    BY <1>1, <2>2, <2>3 DEF Distance, Between
  <2>6. ~DeadEnd(t, o)
    <3>1. PICK x \in Nat, y \in Nat : Neighbour(t, o) = [x |-> x, y |-> y] /\ x < Width /\ y < Height
      BY <1>1, <2>1, <2>2
    <3>. QED BY <1>5, <2>1, <3>1
  <2>. QED BY <2>1, <2>4, <2>5, <2>6
<1>9. CASE o = NORTH
  <2>1. d.x = t.x /\ d.y < t.y /\ o # LOCAL_PORT /\ Opposite(o) = SOUTH
    BY <1>3, <1>9 DEF Opposite, NORTH, EAST, SOUTH, WEST, LOCAL_PORT
  <2>2. Neighbour(t, o) = [x |-> t.x, y |-> t.y - 1] /\ t.y - 1 \in Nat
    BY <1>1, <1>9, <2>1 DEF Neighbour, NORTH, EAST, SOUTH, WEST, LOCAL_PORT
  <2>3. t.y <= s.y
    BY <1>1, <1>2, <2>1 DEF OnRoute
  <2>4. OnRoute(s, d, Neighbour(t, o), Opposite(o))
    BY <1>1, <2>1, <2>2, <2>3 DEF OnRoute
  <2>5. Distance(s, Neighbour(t, o)) = Distance(s, t) + 1
    BY <1>1, <2>2, <2>3 DEF Distance, Between
  <2>6. ~DeadEnd(t, o)
    <3>1. PICK x \in Nat, y \in Nat : Neighbour(t, o) = [x |-> x, y |-> y] /\ x < Width /\ y < Height
      BY <1>1, <2>1, <2>2
    <3>. QED BY <1>5, <2>1, <3>1
  <2>. QED BY <2>1, <2>4, <2>5, <2>6
<1>. QED BY <1>3, <1>4, <1>6, <1>7, <1>8, <1>9
-----------------------------------------------------------------------------
(* The first flit from s at its target is the next to arrive.              *)
LEMMA FirstArrives ==
  ASSUME NEW N \in Numbers, NEW c \in Counts, Types, Known, Numbered(N, c),
         NEW t \in Reader, NEW p \in Port, NEW s \in Sender, Holds(s, t, t, p, 1)
  PROVE  /\ N[t][p][1] = c[s][t] + 1
         /\ 1 \in 1 .. Len(inTransit[s][t]) /\ inTransit[s][t][1] = buffer[t][p][1]
         /\ \A u \in Tile, q \in Port : \A k \in Nat :
              Holds(s, t, u, q, k) /\ ~(u = t /\ q = p /\ k = 1) => N[u][q][k] > c[s][t] + 1
<1>1. /\ t \in Tile /\ s \in Tile /\ c[s][t] \in Nat
      /\ inTransit[s][t] \in Seq(Flit) /\ Len(inTransit[s][t]) \in Nat
  BY FlitFacts DEF Counts, Known
<1>2. ASSUME NEW u \in Tile, NEW q \in Port, NEW k \in Nat, Holds(s, t, u, q, k)
      PROVE  /\ OnRoute(s, t, u, q)
             /\ \E n \in 1 .. Len(inTransit[s][t]) :
                  N[u][q][k] = c[s][t] + n /\ inTransit[s][t][n] = buffer[u][q][k]
  BY <1>2 DEF Numbered, NumbersRight
<1>3. ASSUME NEW u \in Tile, NEW q \in Port, NEW k \in Nat, Holds(s, t, u, q, k),
             ~(u = t /\ q = p /\ k = 1)
      PROVE  N[t][p][1] < N[u][q][k]
  <2>1. OnRoute(s, t, u, q) /\ OnRoute(s, t, t, p)
    BY <1>1, <1>2, <1>3
  <2>2. Before(s, t, 1, u, k)
    <3>1. CASE Distance(s, u) = Distance(s, t)
      <4>1. u = t /\ q = p
        BY <1>1, <2>1, <3>1, RoutePlace
      <4>2. buffer[u][q] \in Seq(AnyFlit) /\ k \in DOMAIN buffer[u][q]
        BY <1>3 DEF Types, Holds
      <4>. QED BY <1>3, <4>1, <4>2 DEF Before
    <3>2. CASE Distance(s, u) # Distance(s, t)
      <4>1. Distance(s, u) < Distance(s, t)
        BY <1>1, <2>1, <3>2, RouteEnds
      <4>. QED BY <1>1, <2>1, <4>1, RouteEnds DEF Before
    <3>. QED BY <3>1, <3>2
  <2>. QED BY <1>1, <1>3, <2>2 DEF Numbered, Ordered
<1>4. PICK n \in 1 .. Len(inTransit[s][t]) :
        N[t][p][1] = c[s][t] + n /\ inTransit[s][t][n] = buffer[t][p][1]
  BY <1>1, <1>2
<1>5. 1 \in 1 .. Len(inTransit[s][t])
  BY <1>1
<1>6. PICK u \in Tile, q \in Port : \E k \in Nat :
        Holds(s, t, u, q, k) /\ N[u][q][k] = c[s][t] + 1
  BY <1>5 DEF Numbered, NoneLost
<1>7. PICK k \in Nat : Holds(s, t, u, q, k) /\ N[u][q][k] = c[s][t] + 1
  BY <1>6
<1>8. n = 1
  <2>1. CASE u = t /\ q = p /\ k = 1
    BY <1>1, <1>4, <1>7, <2>1
  <2>2. CASE ~(u = t /\ q = p /\ k = 1)
    <3>1. N[t][p][1] < N[u][q][k]
      BY <1>3, <1>7, <2>2
    <3>. QED BY <1>1, <1>4, <1>7, <3>1
  <2>. QED BY <2>1, <2>2
<1>9. N[t][p][1] = c[s][t] + 1
  BY <1>4, <1>8
<1>10. ASSUME NEW v \in Tile, NEW r \in Port, NEW j \in Nat, Holds(s, t, v, r, j),
             ~(v = t /\ r = p /\ j = 1)
      PROVE  N[v][r][j] > c[s][t] + 1
  <2>1. N[t][p][1] < N[v][r][j]
    BY <1>3, <1>10
  <2>2. PICK m \in 1 .. Len(inTransit[s][t]) : N[v][r][j] = c[s][t] + m
    BY <1>2, <1>10
  <2>. QED BY <1>1, <1>9, <2>1, <2>2
<1>. QED BY <1>4, <1>5, <1>8, <1>9, <1>10

(* A flit that moves a hop overtakes none that takes the same way.         *)
LEMMA SendKeepsOrder ==
  ASSUME OrderInv, NEW t \in Tile, NEW o \in Port, sendData(t, o)
  PROVE  Known' /\ \E N \in Numbers, c \in Counts : Numbered(N, c)'
<1>1. PICK N \in Numbers, c \in Counts : Numbered(N, c)
  BY DEF OrderInv
<1>2. PICK T \in Plan : Coherent(T)
  BY DEF OrderInv, Inv
<1>3. Types /\ Known
  BY DEF OrderInv, Inv
<1>4. PICK p \in Port, f \in AnyFlit : Moves(T, t, o, p, f)
  BY <1>2, <1>3, FlitMoves DEF Coherent
<1> DEFINE end(u, q) == EndOf(t, o, u, q)
<1>5. /\ buffer[t][p] \in Seq(AnyFlit) /\ buffer[t][p] # <<>> /\ 1 \in DOMAIN buffer[t][p]
      /\ f = Head(buffer[t][p]) /\ f = buffer[t][p][1] /\ o = getDestination(t, f.to)
      /\ f \in Flit
  <2>1. buffer[t][p] \in Seq(AnyFlit) /\ buffer[t][p] # <<>>
    BY <1>3, <1>4 DEF Types, Moves
  <2>2. 1 \in DOMAIN buffer[t][p]
    BY <2>1
  <2>3. f = Head(buffer[t][p]) /\ f = buffer[t][p][1] /\ o = getDestination(t, f.to)
    BY <1>4 DEF Moves
  <2>. QED BY <1>3, <2>1, <2>2, <2>3 DEF Known
<1>6. /\ buffer' \in [Tile -> [Port -> Seq(AnyFlit)]]
      /\ \A u \in Tile, q \in Port :
           buffer'[u][q] = IF u = t /\ q = p THEN Tail(buffer[t][p])
                           ELSE IF end(u, q) THEN Append(buffer[u][q], f) ELSE buffer[u][q]
  BY <1>4 DEF Moves
<1>7. \A u \in Tile, q \in Port :
        /\ end(u, q) <=> o # LOCAL_PORT /\ ~DeadEnd(t, o) /\ u = Neighbour(t, o) /\ q = Opposite(o)
        /\ end(u, q) => u # t
  BY LinkLeads
<1>8. /\ Sender \subseteq Tile /\ Reader \subseteq Tile
      /\ f.from \in Sender /\ f.from \in Tile
      /\ f.to \in Connected => f.to \in Reader
  BY <1>5, FlitFacts
<1>9. \A u \in Tile, q \in Port :
        /\ buffer[u][q] \in Seq(AnyFlit) /\ N[u][q] \in Seq(Nat)
        /\ Len(buffer[u][q]) \in Nat /\ Len(N[u][q]) = Len(buffer[u][q])
        /\ DOMAIN buffer[u][q] = 1 .. Len(buffer[u][q]) /\ DOMAIN N[u][q] = 1 .. Len(buffer[u][q])
  <2>1. SUFFICES ASSUME NEW u \in Tile, NEW q \in Port
                 PROVE  /\ buffer[u][q] \in Seq(AnyFlit) /\ N[u][q] \in Seq(Nat)
                        /\ Len(buffer[u][q]) \in Nat /\ Len(N[u][q]) = Len(buffer[u][q])
                        /\ DOMAIN buffer[u][q] = 1 .. Len(buffer[u][q])
                        /\ DOMAIN N[u][q] = 1 .. Len(buffer[u][q])
    OBVIOUS
  <2>2. /\ buffer[u][q] \in Seq(AnyFlit) /\ N[u][q] \in Seq(Nat)
        /\ DOMAIN N[u][q] = DOMAIN buffer[u][q]
    BY <1>1, <1>3 DEF Types, Numbers, Numbered, EachNumbered
  <2>3. \A a \in Seq(AnyFlit), b \in Seq(Nat) : DOMAIN b = DOMAIN a =>
          /\ Len(a) \in Nat /\ Len(b) = Len(a) /\ DOMAIN a = 1 .. Len(a) /\ DOMAIN b = 1 .. Len(a)
    OBVIOUS
  <2>. QED BY <2>2, <2>3
<1>10. PICK x \in Nat : x = N[t][p][1]
  BY <1>5, <1>9
\* The numbers move with their flits.
<1>11. PICK M \in Numbers :
        \A u \in Tile, q \in Port :
          M[u][q] = IF u = t /\ q = p THEN Tail(N[t][p])
                    ELSE IF end(u, q) THEN Append(N[u][q], x) ELSE N[u][q]
  <2> DEFINE M == [u \in Tile |-> [q \in Port |->
                    IF u = t /\ q = p THEN Tail(N[t][p])
                    ELSE IF end(u, q) THEN Append(N[u][q], x) ELSE N[u][q]]]
  <2>1. Tail(N[t][p]) \in Seq(Nat)
    <3>1. N[t][p] \in Seq(Nat) /\ N[t][p] # <<>>
      BY <1>5, <1>9
    <3>. QED BY <3>1
  <2>2. \A u \in Tile, q \in Port : M[u][q] \in Seq(Nat)
    BY <1>9, <1>10, <2>1
  <2>3. M \in Numbers
    BY <2>2 DEF Numbers
  <2>. QED BY <2>3
<1> HIDE DEF end
<1> DEFINE Origin(u, q, j, v, r, i) ==
             \/ u = t /\ q = p /\ v = t /\ r = p /\ i = j + 1
             \/ ~(u = t /\ q = p) /\ v = u /\ r = q /\ i = j /\ j \in DOMAIN buffer[u][q]
             \/ end(u, q) /\ j = Len(buffer[u][q]) + 1 /\ v = t /\ r = p /\ i = 1
<1>12. \A u \in Tile, q \in Port : \A j \in Nat : j \in DOMAIN buffer'[u][q] =>
         \E v \in Tile, r \in Port : \E i \in Nat :
           /\ Origin(u, q, j, v, r, i) /\ i \in DOMAIN buffer[v][r]
           /\ buffer'[u][q][j] = buffer[v][r][i] /\ M[u][q][j] = N[v][r][i]
  <2>1. SUFFICES ASSUME NEW u \in Tile, NEW q \in Port, NEW j \in Nat, j \in DOMAIN buffer'[u][q]
                 PROVE  \E v \in Tile, r \in Port : \E i \in Nat :
                          /\ Origin(u, q, j, v, r, i) /\ i \in DOMAIN buffer[v][r]
                          /\ buffer'[u][q][j] = buffer[v][r][i] /\ M[u][q][j] = N[v][r][i]
    OBVIOUS
  <2>2. /\ buffer[u][q] \in Seq(AnyFlit) /\ N[u][q] \in Seq(Nat)
        /\ Len(buffer[u][q]) \in Nat /\ Len(N[u][q]) = Len(buffer[u][q])
    BY <1>9
  <2>3. CASE u = t /\ q = p
    <3>1. buffer'[u][q] = Tail(buffer[u][q]) /\ M[u][q] = Tail(N[u][q]) /\ buffer[u][q] # <<>>
      BY <1>5, <1>6, <1>11, <2>3
    <3>2. /\ j + 1 \in 1 .. Len(buffer[u][q]) /\ j + 1 \in DOMAIN buffer[u][q] /\ j + 1 \in Nat
          /\ Tail(buffer[u][q])[j] = buffer[u][q][j + 1] /\ Tail(N[u][q])[j] = N[u][q][j + 1]
      BY <2>1, <2>2, <3>1
    <3>. QED BY <2>3, <3>1, <3>2
  <2>4. CASE ~(u = t /\ q = p) /\ end(u, q)
    <3>1. buffer'[u][q] = Append(buffer[u][q], f) /\ M[u][q] = Append(N[u][q], x)
      BY <1>6, <1>11, <2>4
    <3>2. CASE j = Len(buffer[u][q]) + 1
      <4>1. buffer'[u][q][j] = f /\ M[u][q][j] = x
        BY <2>2, <3>1, <3>2
      <4>. QED BY <1>5, <1>10, <2>4, <3>2, <4>1
    <3>3. CASE j # Len(buffer[u][q]) + 1
      <4>1. /\ j \in DOMAIN buffer[u][q]
            /\ buffer'[u][q][j] = buffer[u][q][j] /\ M[u][q][j] = N[u][q][j]
        BY <2>1, <2>2, <3>1, <3>3
      <4>. QED BY <2>4, <4>1
    <3>. QED BY <3>2, <3>3
  <2>5. CASE ~(u = t /\ q = p) /\ ~end(u, q)
    <3>1. buffer'[u][q] = buffer[u][q] /\ M[u][q] = N[u][q]
      BY <1>6, <1>11, <2>5
    <3>. QED BY <2>1, <2>5, <3>1
  <2>. QED BY <2>3, <2>4, <2>5
<1>13. \A v \in Tile, r \in Port : \A i \in Nat :
         i \in DOMAIN buffer[v][r] /\ ~(v = t /\ r = p /\ i = 1) =>
           \E j \in Nat : /\ j \in DOMAIN buffer'[v][r]
                          /\ buffer'[v][r][j] = buffer[v][r][i] /\ M[v][r][j] = N[v][r][i]
  <2>1. SUFFICES ASSUME NEW v \in Tile, NEW r \in Port, NEW i \in Nat,
                        i \in DOMAIN buffer[v][r], ~(v = t /\ r = p /\ i = 1)
                 PROVE  \E j \in Nat : /\ j \in DOMAIN buffer'[v][r]
                                       /\ buffer'[v][r][j] = buffer[v][r][i]
                                       /\ M[v][r][j] = N[v][r][i]
    OBVIOUS
  <2>2. /\ buffer[v][r] \in Seq(AnyFlit) /\ N[v][r] \in Seq(Nat)
        /\ Len(buffer[v][r]) \in Nat /\ Len(N[v][r]) = Len(buffer[v][r])
    BY <1>9
  <2>3. CASE v = t /\ r = p
    <3>1. buffer'[v][r] = Tail(buffer[v][r]) /\ M[v][r] = Tail(N[v][r]) /\ buffer[v][r] # <<>>
      BY <1>5, <1>6, <1>11, <2>3
    <3>2. PICK j \in Nat : j = i - 1 /\ j \in 1 .. Len(buffer[v][r]) - 1 /\ i = j + 1
      BY <2>1, <2>2, <2>3
    <3>3. /\ j \in DOMAIN Tail(buffer[v][r])
          /\ Tail(buffer[v][r])[j] = buffer[v][r][i] /\ Tail(N[v][r])[j] = N[v][r][i]
      BY <2>2, <3>1, <3>2
    <3>. QED BY <3>1, <3>3
  <2>4. CASE ~(v = t /\ r = p) /\ end(v, r)
    <3>1. buffer'[v][r] = Append(buffer[v][r], f) /\ M[v][r] = Append(N[v][r], x)
      BY <1>6, <1>11, <2>4
    <3>2. /\ i \in DOMAIN Append(buffer[v][r], f)
          /\ Append(buffer[v][r], f)[i] = buffer[v][r][i] /\ Append(N[v][r], x)[i] = N[v][r][i]
      BY <1>10, <2>1, <2>2
    <3>. QED BY <3>1, <3>2
  <2>5. CASE ~(v = t /\ r = p) /\ ~end(v, r)
    <3>1. buffer'[v][r] = buffer[v][r] /\ M[v][r] = N[v][r]
      BY <1>6, <1>11, <2>5
    <3>. QED BY <2>1, <3>1
  <2>. QED BY <2>3, <2>4, <2>5
<1>14. \A u \in Tile, q \in Port : end(u, q) =>
         \E j \in Nat : /\ j \in DOMAIN buffer'[u][q]
                        /\ buffer'[u][q][j] = f /\ M[u][q][j] = x
  <2>1. SUFFICES ASSUME NEW u \in Tile, NEW q \in Port, end(u, q)
                 PROVE  \E j \in Nat : /\ j \in DOMAIN buffer'[u][q]
                                       /\ buffer'[u][q][j] = f /\ M[u][q][j] = x
    OBVIOUS
  <2>2. /\ buffer[u][q] \in Seq(AnyFlit) /\ N[u][q] \in Seq(Nat)
        /\ Len(buffer[u][q]) \in Nat /\ Len(N[u][q]) = Len(buffer[u][q])
    BY <1>9
  <2>3. buffer'[u][q] = Append(buffer[u][q], f) /\ M[u][q] = Append(N[u][q], x)
    BY <1>6, <1>7, <1>11, <2>1
  <2>4. PICK j \in Nat : j = Len(buffer[u][q]) + 1
    BY <2>2
  <2>5. j \in DOMAIN Append(buffer[u][q], f)
    BY <2>2, <2>4
  <2>6. Append(buffer[u][q], f)[j] = f /\ Append(N[u][q], x)[j] = x
    BY <2>2, <2>4
  <2>. QED BY <2>3, <2>5, <2>6
<1>15. EachNumbered(M)'
  <2>1. SUFFICES ASSUME NEW u \in Tile, NEW q \in Port
                 PROVE  DOMAIN M[u][q] = DOMAIN buffer'[u][q]
    BY DEF EachNumbered
  <2>2. /\ buffer[u][q] \in Seq(AnyFlit) /\ N[u][q] \in Seq(Nat)
        /\ Len(buffer[u][q]) \in Nat /\ Len(N[u][q]) = Len(buffer[u][q])
    BY <1>9
  <2>3. CASE u = t /\ q = p
    <3>1. buffer'[u][q] = Tail(buffer[u][q]) /\ M[u][q] = Tail(N[u][q])
      BY <1>6, <1>11, <2>3
    <3>2. buffer[u][q] # <<>>
      BY <1>5, <2>3
    <3>3. DOMAIN Tail(buffer[u][q]) = DOMAIN Tail(N[u][q])
      BY <2>2, <3>2, NumbersAlongside
    <3>. QED BY <3>1, <3>3
  <2>4. CASE ~(u = t /\ q = p) /\ end(u, q)
    <3>1. buffer'[u][q] = Append(buffer[u][q], f) /\ M[u][q] = Append(N[u][q], x)
      BY <1>6, <1>11, <2>4
    <3>. QED BY <2>2, <3>1, NumbersAlongside
  <2>5. CASE ~(u = t /\ q = p) /\ ~end(u, q)
    <3>1. buffer'[u][q] = buffer[u][q] /\ M[u][q] = N[u][q]
      BY <1>6, <1>11, <2>5
    <3>. QED BY <2>2, <3>1, NumbersAlongside
  <2>. QED BY <2>3, <2>4, <2>5
\* Where a flit is, it was, or it has moved on along its route.
<1>16. ASSUME NEW s \in Sender, NEW d \in Reader, NEW u \in Tile, NEW q \in Port, NEW j \in Nat,
              Holds(s, d, u, q, j)'
       PROVE  /\ OnRoute(s, d, u, q)
              /\ \E v \in Tile, r \in Port : \E i \in Nat :
                   /\ Origin(u, q, j, v, r, i)
                   /\ Holds(s, d, v, r, i) /\ OnRoute(s, d, v, r)
                   /\ buffer'[u][q][j] = buffer[v][r][i] /\ M[u][q][j] = N[v][r][i]
                   /\ end(u, q) /\ v = t => Distance(s, u) = Distance(s, t) + 1
  <2>1. /\ j \in DOMAIN buffer'[u][q]
        /\ buffer'[u][q][j].from = s /\ buffer'[u][q][j].to = d
    BY <1>16 DEF Holds
  <2>2. PICK v \in Tile, r \in Port : \E i \in Nat :
          /\ Origin(u, q, j, v, r, i) /\ i \in DOMAIN buffer[v][r]
          /\ buffer'[u][q][j] = buffer[v][r][i] /\ M[u][q][j] = N[v][r][i]
    BY <1>12, <2>1
  <2>3. PICK i \in Nat :
          /\ Origin(u, q, j, v, r, i) /\ i \in DOMAIN buffer[v][r]
          /\ buffer'[u][q][j] = buffer[v][r][i] /\ M[u][q][j] = N[v][r][i]
    BY <2>2
  <2>4. Holds(s, d, v, r, i)
    BY <2>1, <2>3 DEF Holds
  <2>5. OnRoute(s, d, v, r)
    BY <1>1, <2>4 DEF Numbered, NumbersRight
  <2>6. CASE v = u /\ r = q
    <3>1. end(u, q) => v # t
      BY <1>7, <2>6
    <3>. QED BY <2>3, <2>4, <2>5, <2>6, <3>1
  <2>7. CASE ~(v = u /\ r = q)
    <3>1. end(u, q) /\ v = t /\ r = p /\ i = 1
      BY <2>3, <2>7
    <3>2. o = getDestination(t, d) /\ s \in Tile /\ d \in Tile
      BY <1>5, <1>8, <2>4, <3>1 DEF Holds
    <3>3. /\ OnRoute(s, d, Neighbour(t, o), Opposite(o))
          /\ Distance(s, Neighbour(t, o)) = Distance(s, t) + 1
      BY <1>7, <2>5, <3>1, <3>2, RouteGoesOn
    <3>4. OnRoute(s, d, u, q) /\ Distance(s, u) = Distance(s, t) + 1
      BY <1>7, <3>1, <3>3
    <3>. QED BY <2>3, <2>4, <2>5, <3>4
  <2>. QED BY <2>6, <2>7
<1>17. Ordered(M)'
  <2>1. SUFFICES ASSUME NEW s \in Sender, NEW d \in Reader,
                        NEW u1 \in Tile, NEW u2 \in Tile, NEW q1 \in Port, NEW q2 \in Port,
                        NEW j1 \in Nat, NEW j2 \in Nat,
                        Holds(s, d, u1, q1, j1)', Holds(s, d, u2, q2, j2)',
                        Before(s, u1, j1, u2, j2)
                 PROVE  M[u1][q1][j1] < M[u2][q2][j2]
    BY DEF Ordered
  <2>2. /\ OnRoute(s, d, u1, q1) /\ OnRoute(s, d, u2, q2)
        /\ \E v \in Tile, r \in Port : \E i \in Nat :
             /\ Origin(u1, q1, j1, v, r, i)
             /\ Holds(s, d, v, r, i) /\ OnRoute(s, d, v, r)
             /\ M[u1][q1][j1] = N[v][r][i]
             /\ end(u1, q1) /\ v = t => Distance(s, u1) = Distance(s, t) + 1
        /\ \E v \in Tile, r \in Port : \E i \in Nat :
             /\ Origin(u2, q2, j2, v, r, i)
             /\ Holds(s, d, v, r, i) /\ OnRoute(s, d, v, r)
             /\ M[u2][q2][j2] = N[v][r][i]
             /\ end(u2, q2) /\ v = t => Distance(s, u2) = Distance(s, t) + 1
    BY <1>16, <2>1
  <2>3. PICK v1 \in Tile, r1 \in Port : \E i \in Nat :
             /\ Origin(u1, q1, j1, v1, r1, i)
             /\ Holds(s, d, v1, r1, i) /\ OnRoute(s, d, v1, r1)
             /\ M[u1][q1][j1] = N[v1][r1][i]
             /\ end(u1, q1) /\ v1 = t => Distance(s, u1) = Distance(s, t) + 1
    BY <2>2
  <2>4. PICK i1 \in Nat :
             /\ Origin(u1, q1, j1, v1, r1, i1)
             /\ Holds(s, d, v1, r1, i1) /\ OnRoute(s, d, v1, r1)
             /\ M[u1][q1][j1] = N[v1][r1][i1]
             /\ end(u1, q1) /\ v1 = t => Distance(s, u1) = Distance(s, t) + 1
    BY <2>3
  <2>5. PICK v2 \in Tile, r2 \in Port : \E i \in Nat :
             /\ Origin(u2, q2, j2, v2, r2, i)
             /\ Holds(s, d, v2, r2, i) /\ OnRoute(s, d, v2, r2)
             /\ M[u2][q2][j2] = N[v2][r2][i]
             /\ end(u2, q2) /\ v2 = t => Distance(s, u2) = Distance(s, t) + 1
    BY <2>2
  <2>6. PICK i2 \in Nat :
             /\ Origin(u2, q2, j2, v2, r2, i2)
             /\ Holds(s, d, v2, r2, i2) /\ OnRoute(s, d, v2, r2)
             /\ M[u2][q2][j2] = N[v2][r2][i2]
             /\ end(u2, q2) /\ v2 = t => Distance(s, u2) = Distance(s, t) + 1
    BY <2>5
  <2>7. s \in Tile /\ d \in Tile
    BY <1>8
  <2>8. \A w1, w2 \in Tile : \A z1, z2 \in Port :
          /\ OnRoute(s, d, w1, z1) => Distance(s, w1) \in Nat
          /\ OnRoute(s, d, w1, z1) /\ OnRoute(s, d, w2, z2) /\ Distance(s, w1) = Distance(s, w2)
               => w1 = w2 /\ z1 = z2
    BY <2>7, RoutePlace, RouteEnds
  <2>9. \A k \in Nat : k \in DOMAIN buffer[u1][q1] => k <= Len(buffer[u1][q1])
    BY <1>9
  <2>10. \A k \in Nat : k \in DOMAIN buffer[t][p] => k >= 1
    BY <1>9
  <2>11. Len(buffer[u1][q1]) \in Nat /\ Len(buffer[u2][q2]) \in Nat
    BY <1>9
  <2>12. (v1 = u1 /\ r1 = q1) \/ (end(u1, q1) /\ v1 = t /\ r1 = p /\ i1 = 1
                                  /\ j1 = Len(buffer[u1][q1]) + 1)
    BY <2>4
  <2>13. (v2 = u2 /\ r2 = q2) \/ (end(u2, q2) /\ v2 = t /\ r2 = p /\ i2 = 1)
    BY <2>6
  <2>14. Before(s, v1, i1, v2, i2)
    <3>1. CASE v1 = u1 /\ r1 = q1 /\ v2 = u2 /\ r2 = q2
      <4>1. CASE Distance(s, u1) > Distance(s, u2)
        BY <3>1, <4>1 DEF Before
      <4>2. CASE u1 = u2 /\ j1 < j2
        <5>1. q1 = q2
          BY <2>2, <2>8, <4>2
        <5>2. i1 < i2
          <6>1. i1 = IF u1 = t /\ q1 = p THEN j1 + 1 ELSE j1
            BY <1>7, <2>4, <3>1
          <6>2. i2 = IF u2 = t /\ q2 = p THEN j2 + 1 ELSE j2
            BY <1>7, <2>6, <3>1
          <6>. QED BY <4>2, <5>1, <6>1, <6>2
        <5>. QED BY <3>1, <4>2, <5>2 DEF Before
      <4>. QED BY <2>1, <4>1, <4>2 DEF Before
    <3>2. CASE /\ end(u1, q1) /\ v1 = t /\ r1 = p /\ i1 = 1 /\ j1 = Len(buffer[u1][q1]) + 1
               /\ v2 = u2 /\ r2 = q2
      <4>1. Distance(s, u1) = Distance(s, t) + 1
        BY <2>4, <3>2
      <4>2. ~(u1 = u2 /\ j1 < j2)
        <5>1. SUFFICES ASSUME u1 = u2, j1 < j2 PROVE FALSE
          OBVIOUS
        <5>2. q1 = q2
          BY <2>2, <2>8, <5>1
        <5>3. ~(u2 = t /\ q2 = p) /\ ~(v2 = t)
          BY <1>7, <3>2, <5>1, <5>2
        <5>4. j2 \in DOMAIN buffer[u1][q1]
          BY <2>6, <5>1, <5>2, <5>3
        <5>. QED BY <2>9, <2>11, <3>2, <5>1, <5>4
      <4>3. Distance(s, u1) > Distance(s, u2)
        BY <2>1, <4>2 DEF Before
      <4>4. Distance(s, t) >= Distance(s, u2) /\ Distance(s, t) \in Nat /\ Distance(s, u2) \in Nat
        BY <2>2, <2>4, <2>8, <3>2, <4>1, <4>3
      <4>5. CASE Distance(s, t) = Distance(s, u2)
        <5>1. u2 = t /\ q2 = p
          BY <2>2, <2>4, <2>8, <3>2, <4>5
        <5>2. i2 = j2 + 1
          BY <1>7, <2>6, <3>2, <5>1
        <5>3. j2 \in DOMAIN buffer'[t][p] /\ buffer'[t][p] = Tail(buffer[t][p])
          BY <1>6, <2>1, <5>1 DEF Holds
        <5>4. j2 >= 1
          BY <1>5, <5>3
        <5>. QED BY <3>2, <5>1, <5>2, <5>4 DEF Before
      <4>6. CASE Distance(s, t) # Distance(s, u2)
        BY <3>2, <4>4, <4>6 DEF Before
      <4>. QED BY <4>5, <4>6
    <3>3. CASE v1 = u1 /\ r1 = q1 /\ end(u2, q2) /\ v2 = t /\ r2 = p /\ i2 = 1
      <4>1. Distance(s, u2) = Distance(s, t) + 1 /\ Distance(s, t) \in Nat
        BY <2>6, <2>8, <3>3
      <4>2. Distance(s, u1) >= Distance(s, u2) /\ Distance(s, u1) \in Nat
        BY <2>1, <2>2, <2>8, <4>1 DEF Before
      <4>. QED BY <3>3, <4>1, <4>2 DEF Before
    <3>4. CASE /\ end(u1, q1) /\ v1 = t /\ j1 = Len(buffer[u1][q1]) + 1
               /\ end(u2, q2) /\ v2 = t /\ r2 = p /\ i2 = 1
      <4>1. u1 = u2 /\ q1 = q2
        BY <1>7, <3>4
      <4>2. j2 = Len(buffer[u2][q2]) + 1
        <5>1. u2 # t
          BY <1>7, <3>4
        <5>. QED BY <2>6, <3>4, <5>1
      <4>3. FALSE
        BY <2>1, <2>2, <2>8, <2>11, <3>4, <4>1, <4>2 DEF Before
      <4>. QED BY <4>3
    <3>. QED BY <2>12, <2>13, <3>1, <3>2, <3>3, <3>4
  <2>15. N[v1][r1][i1] < N[v2][r2][i2]
    BY <1>1, <2>4, <2>6, <2>14 DEF Numbered, Ordered
  <2>. QED BY <2>4, <2>6, <2>15
\* What was in a buffer is in one still, except for a flit that has arrived.
<1>18. ASSUME NEW s \in Sender, NEW d \in Reader, NEW v \in Tile, NEW r \in Port, NEW i \in Nat,
              Holds(s, d, v, r, i), ~(o = LOCAL_PORT /\ v = t /\ r = p /\ i = 1)
       PROVE  \E u \in Tile, q \in Port : \E j \in Nat :
                Holds(s, d, u, q, j)' /\ M[u][q][j] = N[v][r][i]
  <2>1. CASE v = t /\ r = p /\ i = 1
    <3>1. o = getDestination(t, d) /\ s \in Tile /\ d \in Tile
      BY <1>5, <1>8, <1>18, <2>1 DEF Holds
    <3>2. OnRoute(s, d, t, p)
      BY <1>1, <1>18, <2>1 DEF Numbered, NumbersRight
    <3>3. o # LOCAL_PORT /\ ~DeadEnd(t, o)
      BY <1>18, <2>1, <3>1, <3>2, RouteGoesOn
    <3>4. PICK u \in Tile, q \in Port : end(u, q)
      <4>1. Neighbour(t, o) \in Tile /\ Opposite(o) \in Port
        BY <3>3, LinkHasTwoEnds DEF DeadEnd
      <4>. QED BY <1>7, <3>3, <4>1
    <3>5. PICK j \in Nat : /\ j \in DOMAIN buffer'[u][q]
                           /\ buffer'[u][q][j] = f /\ M[u][q][j] = x
      BY <1>14, <3>4
    <3>6. Holds(s, d, u, q, j)' /\ M[u][q][j] = N[v][r][i]
      BY <1>5, <1>10, <1>18, <2>1, <3>5 DEF Holds
    <3>. QED BY <3>6
  <2>2. CASE ~(v = t /\ r = p /\ i = 1)
    <3>1. PICK j \in Nat : /\ j \in DOMAIN buffer'[v][r]
                           /\ buffer'[v][r][j] = buffer[v][r][i] /\ M[v][r][j] = N[v][r][i]
      BY <1>13, <1>18, <2>2 DEF Holds
    <3>2. Holds(s, d, v, r, j)'
      BY <1>18, <3>1 DEF Holds
    <3>. QED BY <3>1, <3>2
  <2>. QED BY <2>1, <2>2
<1>19. /\ \A u \in Tile, q \in Port : \A k \in DOMAIN buffer'[u][q] : buffer'[u][q][k] \in Flit
       /\ rest' = rest
  <2>1. ASSUME NEW u \in Tile, NEW q \in Port, NEW k \in DOMAIN buffer'[u][q]
        PROVE  buffer'[u][q][k] \in Flit
    <3>1. k \in Nat
      <4>1. buffer'[u][q] \in Seq(AnyFlit)
        BY <1>6
      <4>. QED BY <4>1
    <3>2. PICK v \in Tile, r \in Port : \E i \in Nat :
            i \in DOMAIN buffer[v][r] /\ buffer'[u][q][k] = buffer[v][r][i]
      BY <1>12, <3>1
    <3>. QED BY <1>3, <3>2 DEF Known
  <2>2. rest' = rest
    BY DEF sendData
  <2>. QED BY <2>1, <2>2
<1> HIDE DEF Origin
<1>20. CASE ~(o = LOCAL_PORT /\ ~DeadEnd(t, o))
  <2>1. inTransit' = inTransit /\ received' = received
    BY <1>20 DEF sendData, MoveFlit, history
  <2>2. NumbersRight(M, c)'
    <3>1. SUFFICES ASSUME NEW s \in Sender, NEW d \in Reader, NEW u \in Tile, NEW q \in Port,
                          NEW j \in Nat, Holds(s, d, u, q, j)'
                   PROVE  /\ OnRoute(s, d, u, q)
                          /\ \E n \in 1 .. Len(inTransit'[s][d]) :
                               M[u][q][j] = c[s][d] + n /\ inTransit'[s][d][n] = buffer'[u][q][j]
      BY DEF NumbersRight
    <3>2. PICK v \in Tile, r \in Port : \E i \in Nat :
                   /\ Holds(s, d, v, r, i)
                   /\ buffer'[u][q][j] = buffer[v][r][i] /\ M[u][q][j] = N[v][r][i]
      BY <1>16, <3>1
    <3>3. \E n \in 1 .. Len(inTransit[s][d]) :
            M[u][q][j] = c[s][d] + n /\ inTransit[s][d][n] = buffer'[u][q][j]
      BY <1>1, <3>2 DEF Numbered, NumbersRight
    <3>. QED BY <1>16, <2>1, <3>1, <3>3
  <2>3. NoneLost(M, c)'
    <3>1. SUFFICES ASSUME NEW s \in Sender, NEW d \in Reader, NEW n \in 1 .. Len(inTransit'[s][d])
                   PROVE  \E u \in Tile, q \in Port : \E j \in Nat :
                            Holds(s, d, u, q, j)' /\ M[u][q][j] = c[s][d] + n
      BY DEF NoneLost
    <3>2. PICK v \in Tile, r \in Port : \E i \in Nat :
            Holds(s, d, v, r, i) /\ N[v][r][i] = c[s][d] + n
      BY <1>1, <2>1, <3>1 DEF Numbered, NoneLost
    <3>3. PICK i \in Nat : Holds(s, d, v, r, i) /\ N[v][r][i] = c[s][d] + n
      BY <3>2
    <3>4. ~(o = LOCAL_PORT /\ v = t /\ r = p /\ i = 1)
      <4>1. SUFFICES ASSUME o = LOCAL_PORT, v = t, r = p, i = 1 PROVE FALSE
        OBVIOUS
      <4>2. d = f.to /\ OnRoute(s, d, t, p) /\ s \in Tile /\ d \in Tile
        BY <1>1, <1>5, <1>8, <3>3, <4>1 DEF Holds, Numbered, NumbersRight
      <4>3. t = d
        BY <1>5, <4>1, <4>2, RouteGoesOn
      <4>4. t \in Connected
        BY <4>3, FlitFacts
      <4>. QED BY <1>20, <4>1, <4>4 DEF DeadEnd
    <3>. QED BY <1>18, <3>3, <3>4
  <2>4. Numbered(M, c)'
    BY <1>15, <1>17, <2>2, <2>3 DEF Numbered
  <2>5. Known'
    BY <1>3, <1>19, <2>1 DEF Known
  <2>. QED BY <2>4, <2>5
<1>21. CASE o = LOCAL_PORT /\ ~DeadEnd(t, o)
  <2>1. f.to = t /\ t \in Reader
    <3>1. f.to \in Target
      BY DEF AnyFlit
    <3>2. f.to = t
      BY <1>5, <1>21, <3>1, LocalIsTarget
    <3>. QED BY <1>8, <1>21, <3>2 DEF DeadEnd
  <2>2. PICK s0 \in Sender : s0 = f.from
    BY <1>8
  <2>3. Holds(s0, t, t, p, 1)
    BY <1>5, <2>1, <2>2 DEF Holds
  <2>4. /\ x = c[s0][t] + 1
        /\ 1 \in 1 .. Len(inTransit[s0][t]) /\ inTransit[s0][t][1] = f
        /\ \A u \in Tile, q \in Port : \A k \in Nat :
             Holds(s0, t, u, q, k) /\ ~(u = t /\ q = p /\ k = 1) => N[u][q][k] > c[s0][t] + 1
    BY <1>1, <1>3, <1>5, <1>10, <2>1, <2>3, FirstArrives
  <2>5. /\ inTransit' = [inTransit EXCEPT ![s0][t] = Tail(@)]
        /\ received' = [received EXCEPT ![t] = Append(@, f)]
    <3>1. p = granted(t, o)
      BY <1>4 DEF Moves
    <3>. QED BY <1>5, <1>21, <2>2, <3>1 DEF sendData, MoveFlit
  <2>6. /\ inTransit \in [Sender -> [Reader -> Seq(Flit)]] /\ received \in [Tile -> Seq(Flit)]
        /\ c \in [Sender -> [Reader -> Nat]]
    BY <1>3 DEF Known, Counts
  <2>7. inTransit[s0][t] \in Seq(Flit) /\ inTransit[s0][t] # <<>> /\ Tail(inTransit[s0][t]) \in Seq(Flit)
    <3>1. inTransit[s0][t] \in Seq(Flit)
      BY <2>1, <2>6
    <3>2. inTransit[s0][t] # <<>>
      BY <2>4, <3>1
    <3>. QED BY <3>1, <3>2
  <2>8. /\ inTransit' \in [Sender -> [Reader -> Seq(Flit)]]
        /\ \A s \in Sender, d \in Reader :
             inTransit'[s][d] = IF s = s0 /\ d = t THEN Tail(inTransit[s0][t]) ELSE inTransit[s][d]
    BY <2>1, <2>5, <2>6, <2>7
  <2>9. received' \in [Tile -> Seq(Flit)]
    <3>1. Append(received[t], f) \in Seq(Flit)
      BY <1>5, <2>6
    <3>. QED BY <2>5, <2>6, <3>1
  <2>10. PICK c2 \in Counts : c2 = [c EXCEPT ![s0][t] = c[s0][t] + 1]
    <3>1. [c EXCEPT ![s0][t] = c[s0][t] + 1] \in [Sender -> [Reader -> Nat]]
      BY <2>1, <2>6
    <3>. QED BY <3>1 DEF Counts
  <2>11. \A s \in Sender, d \in Reader :
           /\ c[s][d] \in Nat
           /\ c2[s][d] = IF s = s0 /\ d = t THEN c[s0][t] + 1 ELSE c[s][d]
    BY <2>1, <2>6, <2>10
  <2>12. \A n \in 1 .. Len(inTransit[s0][t]) : n # 1 =>
           n - 1 \in 1 .. Len(Tail(inTransit[s0][t])) /\ Tail(inTransit[s0][t])[n - 1] = inTransit[s0][t][n]
    BY <2>7
  <2>13. \A n \in 1 .. Len(Tail(inTransit[s0][t])) : n + 1 \in 1 .. Len(inTransit[s0][t])
    BY <2>7
  <2>14. NumbersRight(M, c2)'
    <3>1. SUFFICES ASSUME NEW s \in Sender, NEW d \in Reader, NEW u \in Tile, NEW q \in Port,
                          NEW j \in Nat, Holds(s, d, u, q, j)'
                   PROVE  /\ OnRoute(s, d, u, q)
                          /\ \E n \in 1 .. Len(inTransit'[s][d]) :
                               M[u][q][j] = c2[s][d] + n /\ inTransit'[s][d][n] = buffer'[u][q][j]
      BY DEF NumbersRight
    <3>2. PICK v \in Tile, r \in Port : \E i \in Nat :
                   /\ Origin(u, q, j, v, r, i) /\ Holds(s, d, v, r, i)
                   /\ buffer'[u][q][j] = buffer[v][r][i] /\ M[u][q][j] = N[v][r][i]
      BY <1>16, <3>1
    <3>3. PICK i \in Nat :
                   /\ Origin(u, q, j, v, r, i) /\ Holds(s, d, v, r, i)
                   /\ buffer'[u][q][j] = buffer[v][r][i] /\ M[u][q][j] = N[v][r][i]
      BY <3>2
    <3>4. PICK n \in 1 .. Len(inTransit[s][d]) :
            N[v][r][i] = c[s][d] + n /\ inTransit[s][d][n] = buffer[v][r][i]
      BY <1>1, <3>3 DEF Numbered, NumbersRight
    <3>5. CASE s = s0 /\ d = t
      <4>1. ~(v = t /\ r = p /\ i = 1)
        <5>1. ~end(u, q)
          BY <1>7, <1>21
        <5>2. j \in DOMAIN buffer'[u][q] /\ buffer'[u][q] \in Seq(AnyFlit)
          BY <1>6, <3>1 DEF Holds
        <5>3. j >= 1
          BY <5>2
        <5>. QED BY <3>3, <5>1, <5>3 DEF Origin
      <4>2. n # 1
        BY <2>4, <2>11, <3>3, <3>4, <3>5, <4>1
      <4>3. PICK m \in 1 .. Len(Tail(inTransit[s0][t])) :
              m = n - 1 /\ Tail(inTransit[s0][t])[m] = inTransit[s0][t][n]
        BY <2>12, <3>4, <3>5, <4>2
      <4>4. M[u][q][j] = c2[s][d] + m
        <5>1. M[u][q][j] = c[s0][t] + n /\ c2[s][d] = c[s0][t] + 1
          BY <2>11, <3>3, <3>4, <3>5
        <5>2. m = n - 1 /\ n \in Int /\ c[s0][t] \in Int
          BY <2>1, <2>11, <3>4, <4>3
        <5>. QED BY <5>1, <5>2
      <4>5. inTransit'[s][d][m] = buffer'[u][q][j] /\ m \in 1 .. Len(inTransit'[s][d])
        BY <2>8, <3>3, <3>4, <3>5, <4>3
      <4>. QED BY <1>16, <3>1, <4>4, <4>5
    <3>6. CASE ~(s = s0 /\ d = t)
      <4>1. inTransit'[s][d] = inTransit[s][d] /\ c2[s][d] = c[s][d]
        BY <2>8, <2>11, <3>6
      <4>. QED BY <1>16, <3>1, <3>3, <3>4, <4>1
    <3>. QED BY <3>5, <3>6
  <2>15. NoneLost(M, c2)'
    <3>1. SUFFICES ASSUME NEW s \in Sender, NEW d \in Reader, NEW n \in 1 .. Len(inTransit'[s][d])
                   PROVE  \E u \in Tile, q \in Port : \E j \in Nat :
                            Holds(s, d, u, q, j)' /\ M[u][q][j] = c2[s][d] + n
      BY DEF NoneLost
    <3>2. PICK m \in 1 .. Len(inTransit[s][d]) :
            c[s][d] + m = c2[s][d] + n /\ (s = s0 /\ d = t => m # 1)
      <4>1. CASE s = s0 /\ d = t
        <5>1. n + 1 \in 1 .. Len(inTransit[s][d])
          BY <2>8, <2>13, <3>1, <4>1
        <5>2. c[s][d] + (n + 1) = c2[s][d] + n /\ n + 1 # 1
          BY <2>11, <3>1, <4>1
        <5>. QED BY <5>1, <5>2
      <4>2. CASE ~(s = s0 /\ d = t)
        BY <2>8, <2>11, <3>1, <4>2
      <4>. QED BY <4>1, <4>2
    <3>3. PICK v \in Tile, r \in Port : \E i \in Nat :
            Holds(s, d, v, r, i) /\ N[v][r][i] = c[s][d] + m
      BY <1>1 DEF Numbered, NoneLost
    <3>4. PICK i \in Nat : Holds(s, d, v, r, i) /\ N[v][r][i] = c[s][d] + m
      BY <3>3
    <3>5. ~(v = t /\ r = p /\ i = 1)
      <4>1. SUFFICES ASSUME v = t, r = p, i = 1 PROVE FALSE
        OBVIOUS
      <4>2. s = s0 /\ d = t
        BY <1>5, <2>1, <2>2, <3>4, <4>1 DEF Holds
      <4>3. c[s][d] + m = c[s][d] + 1
        BY <1>10, <2>4, <3>4, <4>1, <4>2
      <4>. QED BY <2>11, <3>2, <4>2, <4>3
    <3>6. \E u \in Tile, q \in Port : \E j \in Nat :
                Holds(s, d, u, q, j)' /\ M[u][q][j] = N[v][r][i]
      BY <1>18, <3>4, <3>5
    <3>. QED BY <3>2, <3>4, <3>6
  <2>16. Numbered(M, c2)'
    BY <1>15, <1>17, <2>14, <2>15 DEF Numbered
  <2>17. Known'
    BY <1>3, <1>19, <2>8, <2>9 DEF Known
  <2>. QED BY <2>16, <2>17
<1>. QED BY <1>20, <1>21

(* A flit that a tile sends is the last on its way.                        *)
LEMMA WriteKeepsOrder ==
  ASSUME OrderInv, NEW t \in Tile, NEW f \in Flit, f.from = t, WriteFlit(t, f)
  PROVE  /\ \E N \in Numbers, c \in Counts : Numbered(N, c)'
         /\ Known'
<1>1. PICK N \in Numbers, c \in Counts : Numbered(N, c)
  BY DEF OrderInv
<1>2. Types /\ Known
  BY DEF OrderInv, Inv
<1>3. /\ f \in AnyFlit /\ t \in Sender /\ LOCAL_PORT \in Port
      /\ Sender \subseteq Tile /\ Reader \subseteq Tile
      /\ After(f) # None => After(f) \in Flit /\ After(f).from = t
  BY FlitFacts DEF Port, LOCAL_PORT
<1>4. /\ buffer' = [buffer EXCEPT ![t][LOCAL_PORT] = Append(@, f)]
      /\ rest' = [rest EXCEPT ![t] = After(f)]
      /\ inTransit' = IF f.to \in Reader THEN [inTransit EXCEPT ![t][f.to] = Append(@, f)]
                      ELSE inTransit
      /\ received' = received
  BY DEF WriteFlit
<1>5. \A u \in Tile, q \in Port :
        /\ buffer[u][q] \in Seq(AnyFlit) /\ N[u][q] \in Seq(Nat)
        /\ Len(buffer[u][q]) \in Nat /\ Len(N[u][q]) = Len(buffer[u][q])
  <2>1. SUFFICES ASSUME NEW u \in Tile, NEW q \in Port
                 PROVE  /\ buffer[u][q] \in Seq(AnyFlit) /\ N[u][q] \in Seq(Nat)
                        /\ Len(buffer[u][q]) \in Nat /\ Len(N[u][q]) = Len(buffer[u][q])
    OBVIOUS
  <2>2. /\ buffer[u][q] \in Seq(AnyFlit) /\ N[u][q] \in Seq(Nat)
        /\ DOMAIN N[u][q] = DOMAIN buffer[u][q]
    BY <1>1, <1>2 DEF Types, Numbers, Numbered, EachNumbered
  <2>3. \A a \in Seq(AnyFlit), b \in Seq(Nat) : DOMAIN b = DOMAIN a =>
          Len(a) \in Nat /\ Len(b) = Len(a)
    OBVIOUS
  <2>. QED BY <2>2, <2>3
<1>6. \A u \in Tile, q \in Port :
        buffer'[u][q] = IF u = t /\ q = LOCAL_PORT THEN Append(buffer[u][q], f) ELSE buffer[u][q]
  <2>1. buffer \in [Tile -> [Port -> Seq(AnyFlit)]]
    BY <1>2 DEF Types
  <2>. QED BY <1>3, <1>4, <2>1
<1>7. /\ inTransit \in [Sender -> [Reader -> Seq(Flit)]]
      /\ c \in [Sender -> [Reader -> Nat]]
  BY <1>2 DEF Known, Counts
<1>8. /\ inTransit' \in [Sender -> [Reader -> Seq(Flit)]]
      /\ \A s \in Sender, d \in Reader :
           inTransit'[s][d] = IF s = t /\ d = f.to THEN Append(inTransit[s][d], f)
                              ELSE inTransit[s][d]
  <2>1. CASE f.to \in Reader
    <3>1. Append(inTransit[t][f.to], f) \in Seq(Flit)
      BY <1>3, <1>7, <2>1
    <3>. QED BY <1>3, <1>4, <1>7, <2>1, <3>1
  <2>2. CASE f.to \notin Reader
    BY <1>4, <1>7, <2>2
  <2>. QED BY <2>1, <2>2
\* The flit's number is the next.
<1>9. PICK x \in Nat : f.to \in Reader => x = c[t][f.to] + Len(inTransit[t][f.to]) + 1
  <2>1. CASE f.to \in Reader
    <3>1. c[t][f.to] \in Nat /\ Len(inTransit[t][f.to]) \in Nat
      BY <1>3, <1>7, <2>1
    <3>2. c[t][f.to] + Len(inTransit[t][f.to]) + 1 \in Nat
      BY <3>1
    <3>. QED BY <3>2
  <2>2. CASE f.to \notin Reader
    <3>1. 0 \in Nat
      OBVIOUS
    <3>. QED BY <2>2, <3>1
  <2>. QED BY <2>1, <2>2
<1>10. PICK M \in Numbers :
         \A u \in Tile, q \in Port :
           M[u][q] = IF u = t /\ q = LOCAL_PORT THEN Append(N[u][q], x) ELSE N[u][q]
  <2> DEFINE M == [u \in Tile |-> [q \in Port |->
                    IF u = t /\ q = LOCAL_PORT THEN Append(N[u][q], x) ELSE N[u][q]]]
  <2>1. \A u \in Tile, q \in Port : M[u][q] \in Seq(Nat)
    BY <1>5
  <2>2. M \in Numbers
    BY <2>1 DEF Numbers
  <2>. QED BY <2>2
<1>11. \A a \in Seq(Nat), b \in Seq(AnyFlit) :
         Append(a, x)[Len(a) + 1] = x /\ Append(b, f)[Len(b) + 1] = f
  OBVIOUS
<1>12. EachNumbered(M)'
  <2>1. SUFFICES ASSUME NEW u \in Tile, NEW q \in Port
                 PROVE  DOMAIN M[u][q] = DOMAIN buffer'[u][q]
    BY DEF EachNumbered
  <2>2. /\ DOMAIN buffer[u][q] = DOMAIN N[u][q]
        /\ DOMAIN Append(buffer[u][q], f) = DOMAIN Append(N[u][q], x)
    BY <1>5, NumbersAlongside
  <2>. QED BY <1>6, <1>10, <2>2
\* A flit was there already, or it is the new one.
<1> DEFINE isNew(u, q, j) == u = t /\ q = LOCAL_PORT /\ j = Len(buffer[t][LOCAL_PORT]) + 1
<1>13. ASSUME NEW s \in Sender, NEW d \in Reader, NEW u \in Tile, NEW q \in Port, NEW j \in Nat,
              Holds(s, d, u, q, j)'
       PROVE  /\ isNew(u, q, j) => /\ s = t /\ d = f.to
                                   /\ buffer'[u][q][j] = f /\ M[u][q][j] = x
              /\ ~isNew(u, q, j) => /\ Holds(s, d, u, q, j)
                                    /\ buffer'[u][q][j] = buffer[u][q][j]
                                    /\ M[u][q][j] = N[u][q][j]
  <2>1. /\ j \in DOMAIN buffer'[u][q]
        /\ buffer'[u][q][j].from = s /\ buffer'[u][q][j].to = d
    BY <1>13 DEF Holds
  <2>2. /\ buffer[u][q] \in Seq(AnyFlit) /\ N[u][q] \in Seq(Nat)
        /\ Len(buffer[u][q]) \in Nat /\ Len(N[u][q]) = Len(buffer[u][q])
    BY <1>5
  <2>3. CASE u = t /\ q = LOCAL_PORT
    <3>1. buffer'[u][q] = Append(buffer[u][q], f) /\ M[u][q] = Append(N[u][q], x)
      BY <1>6, <1>10, <2>3
    <3>2. CASE isNew(u, q, j)
      <4>1. j = Len(buffer[u][q]) + 1 /\ j = Len(N[u][q]) + 1
        BY <2>2, <2>3, <3>2
      <4>2. Append(buffer[u][q], f)[j] = f /\ Append(N[u][q], x)[j] = x
        BY <1>11, <2>2, <4>1
      <4>. QED BY <1>3, <2>1, <3>1, <3>2, <4>2
    <3>3. CASE ~isNew(u, q, j)
      <4>1. j # Len(buffer[u][q]) + 1
        BY <2>3, <3>3
      <4>2. /\ j \in DOMAIN buffer[u][q]
            /\ Append(buffer[u][q], f)[j] = buffer[u][q][j] /\ Append(N[u][q], x)[j] = N[u][q][j]
        BY <2>1, <2>2, <3>1, <4>1
      <4>. QED BY <2>1, <3>1, <3>3, <4>2 DEF Holds
    <3>. QED BY <3>2, <3>3
  <2>4. CASE ~(u = t /\ q = LOCAL_PORT)
    <3>1. buffer'[u][q] = buffer[u][q] /\ M[u][q] = N[u][q]
      BY <1>6, <1>10, <2>4
    <3>. QED BY <2>1, <2>4, <3>1 DEF Holds
  <2>. QED BY <2>3, <2>4
<1>14. ASSUME NEW s \in Sender, NEW d \in Reader, NEW u \in Tile, NEW q \in Port, NEW j \in Nat,
              Holds(s, d, u, q, j)
       PROVE  Holds(s, d, u, q, j)' /\ M[u][q][j] = N[u][q][j]
  <2>1. /\ buffer[u][q] \in Seq(AnyFlit) /\ N[u][q] \in Seq(Nat)
        /\ Len(buffer[u][q]) \in Nat /\ Len(N[u][q]) = Len(buffer[u][q])
        /\ j \in DOMAIN buffer[u][q]
    BY <1>5, <1>14 DEF Holds
  <2>2. /\ j \in DOMAIN Append(buffer[u][q], f)
        /\ Append(buffer[u][q], f)[j] = buffer[u][q][j] /\ Append(N[u][q], x)[j] = N[u][q][j]
    BY <2>1
  <2>. QED BY <1>6, <1>10, <1>14, <2>1, <2>2 DEF Holds
<1>15. \A s \in Sender, d \in Reader, u \in Tile, q \in Port : \A j \in Nat :
         Holds(s, d, u, q, j) =>
           /\ OnRoute(s, d, u, q) /\ c[s][d] \in Nat /\ Len(inTransit[s][d]) \in Nat
           /\ \E n \in 1 .. Len(inTransit[s][d]) :
                N[u][q][j] = c[s][d] + n /\ inTransit[s][d][n] = buffer[u][q][j]
  BY <1>1, <1>7 DEF Numbered, NumbersRight
<1>16. Len(buffer[t][LOCAL_PORT]) \in Nat
  BY <1>3, <1>5
<1> HIDE DEF isNew
<1>17. ASSUME NEW s \in Sender, NEW d \in Reader, s = t, d = f.to
       PROVE  /\ inTransit'[s][d] = Append(inTransit[s][d], f) /\ c[s][d] \in Nat
              /\ Len(inTransit[s][d]) \in Nat /\ Len(inTransit'[s][d]) = Len(inTransit[s][d]) + 1
              /\ \A n \in 1 .. Len(inTransit[s][d]) : inTransit'[s][d][n] = inTransit[s][d][n]
              /\ inTransit'[s][d][Len(inTransit[s][d]) + 1] = f
              /\ x = c[s][d] + Len(inTransit[s][d]) + 1
  <2>1. inTransit[s][d] \in Seq(Flit) /\ c[s][d] \in Nat
    BY <1>7
  <2>2. inTransit'[s][d] = Append(inTransit[s][d], f)
    BY <1>8, <1>17
  <2>3. /\ Len(inTransit[s][d]) \in Nat /\ Len(Append(inTransit[s][d], f)) = Len(inTransit[s][d]) + 1
        /\ \A n \in 1 .. Len(inTransit[s][d]) : Append(inTransit[s][d], f)[n] = inTransit[s][d][n]
        /\ Append(inTransit[s][d], f)[Len(inTransit[s][d]) + 1] = f
    BY <2>1
  <2>. QED BY <1>9, <1>17, <2>1, <2>2, <2>3
<1>18. NumbersRight(M, c)'
  <2>1. SUFFICES ASSUME NEW s \in Sender, NEW d \in Reader, NEW u \in Tile, NEW q \in Port,
                        NEW j \in Nat, Holds(s, d, u, q, j)'
                 PROVE  /\ OnRoute(s, d, u, q)
                        /\ \E n \in 1 .. Len(inTransit'[s][d]) :
                             M[u][q][j] = c[s][d] + n /\ inTransit'[s][d][n] = buffer'[u][q][j]
    BY DEF NumbersRight
  <2>2. CASE isNew(u, q, j)
    <3>1. s = t /\ d = f.to /\ buffer'[u][q][j] = f /\ M[u][q][j] = x
      BY <1>13, <2>1, <2>2
    <3>2. OnRoute(s, d, u, q)
      BY <2>2, <3>1 DEF isNew, OnRoute
    <3>3. PICK n \in 1 .. Len(inTransit'[s][d]) : n = Len(inTransit[s][d]) + 1
      BY <1>17, <3>1
    <3>4. /\ x = c[s][d] + Len(inTransit[s][d]) + 1
          /\ c[s][d] \in Nat /\ Len(inTransit[s][d]) \in Nat
      BY <1>17, <3>1
    <3>5. M[u][q][j] = c[s][d] + n
      BY <3>1, <3>3, <3>4
    <3>6. inTransit'[s][d][n] = buffer'[u][q][j]
      BY <1>17, <3>1, <3>3
    <3>. QED BY <3>2, <3>5, <3>6
  <2>3. CASE ~isNew(u, q, j)
    <3>1. /\ Holds(s, d, u, q, j) /\ buffer'[u][q][j] = buffer[u][q][j]
          /\ M[u][q][j] = N[u][q][j]
      BY <1>13, <2>1, <2>3
    <3>2. PICK n \in 1 .. Len(inTransit[s][d]) :
            N[u][q][j] = c[s][d] + n /\ inTransit[s][d][n] = buffer[u][q][j]
      BY <1>15, <3>1
    <3>3. n \in 1 .. Len(inTransit'[s][d]) /\ inTransit'[s][d][n] = inTransit[s][d][n]
      <4>1. CASE s = t /\ d = f.to
        BY <1>17, <4>1
      <4>2. CASE ~(s = t /\ d = f.to)
        BY <1>8, <4>2
      <4>. QED BY <4>1, <4>2
    <3>. QED BY <1>15, <3>1, <3>2, <3>3
  <2>. QED BY <2>2, <2>3
<1>19. NoneLost(M, c)'
  <2>1. SUFFICES ASSUME NEW s \in Sender, NEW d \in Reader, NEW n \in 1 .. Len(inTransit'[s][d])
                 PROVE  \E u \in Tile, q \in Port : \E j \in Nat :
                          Holds(s, d, u, q, j)' /\ M[u][q][j] = c[s][d] + n
    BY DEF NoneLost
  <2>2. CASE s = t /\ d = f.to /\ n = Len(inTransit[s][d]) + 1
    <3>1. PICK j \in Nat : j = Len(buffer[t][LOCAL_PORT]) + 1
      BY <1>16
    <3>2. /\ buffer[t][LOCAL_PORT] \in Seq(AnyFlit) /\ N[t][LOCAL_PORT] \in Seq(Nat)
          /\ Len(N[t][LOCAL_PORT]) = Len(buffer[t][LOCAL_PORT])
      BY <1>3, <1>5
    <3>3. /\ j \in DOMAIN Append(buffer[t][LOCAL_PORT], f)
          /\ Append(buffer[t][LOCAL_PORT], f)[j] = f /\ Append(N[t][LOCAL_PORT], x)[j] = x
      <4>1. j \in DOMAIN Append(buffer[t][LOCAL_PORT], f)
        BY <3>1, <3>2
      <4>2. Append(buffer[t][LOCAL_PORT], f)[j] = f
        BY <3>1, <3>2
      <4>3. Append(N[t][LOCAL_PORT], x)[j] = x
        <5>1. j = Len(N[t][LOCAL_PORT]) + 1
          BY <3>1, <3>2
        <5>. QED BY <1>11, <3>2, <5>1
      <4>. QED BY <4>1, <4>2, <4>3
    <3>4. Holds(s, d, t, LOCAL_PORT, j)' /\ M[t][LOCAL_PORT][j] = x
      BY <1>3, <1>6, <1>10, <2>2, <3>3 DEF Holds
    <3>5. /\ x = c[s][d] + Len(inTransit[s][d]) + 1
          /\ c[s][d] \in Nat /\ Len(inTransit[s][d]) \in Nat
      BY <1>17, <2>2
    <3>6. x = c[s][d] + n
      BY <2>2, <3>5
    <3>. QED BY <1>3, <3>4, <3>6
  <2>3. CASE ~(s = t /\ d = f.to /\ n = Len(inTransit[s][d]) + 1)
    <3>1. n \in 1 .. Len(inTransit[s][d])
      <4>1. CASE s = t /\ d = f.to
        BY <1>17, <2>1, <2>3, <4>1
      <4>2. CASE ~(s = t /\ d = f.to)
        BY <1>8, <2>1, <4>2
      <4>. QED BY <4>1, <4>2
    <3>2. PICK u \in Tile, q \in Port : \E j \in Nat :
            Holds(s, d, u, q, j) /\ N[u][q][j] = c[s][d] + n
      BY <1>1, <3>1 DEF Numbered, NoneLost
    <3>. QED BY <1>14, <3>2
  <2>. QED BY <2>2, <2>3
<1>20. Ordered(M)'
  <2>1. SUFFICES ASSUME NEW s \in Sender, NEW d \in Reader,
                        NEW u1 \in Tile, NEW u2 \in Tile, NEW q1 \in Port, NEW q2 \in Port,
                        NEW j1 \in Nat, NEW j2 \in Nat,
                        Holds(s, d, u1, q1, j1)', Holds(s, d, u2, q2, j2)',
                        Before(s, u1, j1, u2, j2)
                 PROVE  M[u1][q1][j1] < M[u2][q2][j2]
    BY DEF Ordered
  <2>2. OnRoute(s, d, u1, q1) /\ OnRoute(s, d, u2, q2) /\ s \in Tile /\ d \in Tile
    BY <1>3, <1>18, <2>1 DEF NumbersRight
  <2>3. CASE isNew(u1, q1, j1)
    <3>1. s = t /\ u1 = t /\ q1 = LOCAL_PORT /\ j1 = Len(buffer[t][LOCAL_PORT]) + 1
      BY <1>13, <2>1, <2>3 DEF isNew
    <3>2. Distance(s, u1) = 0 /\ Distance(s, u2) \in Nat
      <4>1. Distance(s, u1) = 0
        BY <2>2, <3>1, RouteForm DEF NORTH, EAST, SOUTH, WEST, LOCAL_PORT
      <4>. QED BY <2>2, <4>1, RouteEnds
    <3>3. u1 = u2 /\ j1 < j2
      BY <2>1, <3>2 DEF Before
    <3>4. q2 = LOCAL_PORT
      BY <2>2, <3>1, <3>3, RoutePlace
    <3>5. buffer'[u2][q2] = Append(buffer[t][LOCAL_PORT], f) /\ buffer[t][LOCAL_PORT] \in Seq(AnyFlit)
      BY <1>3, <1>5, <1>6, <3>1, <3>3, <3>4
    <3>6. j2 \in DOMAIN Append(buffer[t][LOCAL_PORT], f)
      BY <2>1, <3>5 DEF Holds
    <3>7. j2 <= Len(buffer[t][LOCAL_PORT]) + 1
      BY <3>5, <3>6
    <3>8. FALSE
      BY <1>16, <3>1, <3>3, <3>7
    <3>. QED BY <3>8
  <2>4. CASE ~isNew(u1, q1, j1) /\ isNew(u2, q2, j2)
    <3>1. Holds(s, d, u1, q1, j1) /\ M[u1][q1][j1] = N[u1][q1][j1]
      BY <1>13, <2>1, <2>4
    <3>2. s = t /\ d = f.to /\ M[u2][q2][j2] = x
      BY <1>13, <2>1, <2>4
    <3>3. PICK n \in 1 .. Len(inTransit[s][d]) : N[u1][q1][j1] = c[s][d] + n
      BY <1>15, <3>1
    <3>4. x = c[s][d] + Len(inTransit[s][d]) + 1 /\ c[s][d] \in Nat /\ Len(inTransit[s][d]) \in Nat
      BY <1>17, <3>2
    <3>. QED BY <3>1, <3>2, <3>3, <3>4
  <2>5. CASE ~isNew(u1, q1, j1) /\ ~isNew(u2, q2, j2)
    <3>1. /\ Holds(s, d, u1, q1, j1) /\ M[u1][q1][j1] = N[u1][q1][j1]
          /\ Holds(s, d, u2, q2, j2) /\ M[u2][q2][j2] = N[u2][q2][j2]
      BY <1>13, <2>1, <2>5
    <3>2. N[u1][q1][j1] < N[u2][q2][j2]
      BY <1>1, <2>1, <3>1 DEF Numbered, Ordered
    <3>. QED BY <3>1, <3>2
  <2>. QED BY <2>3, <2>4, <2>5
<1>21. Numbered(M, c)'
  BY <1>12, <1>18, <1>19, <1>20 DEF Numbered
<1>22. \A u \in Tile, q \in Port : \A k \in DOMAIN buffer'[u][q] : buffer'[u][q][k] \in Flit
  <2>1. SUFFICES ASSUME NEW u \in Tile, NEW q \in Port, NEW k \in DOMAIN buffer'[u][q]
                 PROVE  buffer'[u][q][k] \in Flit
    OBVIOUS
  <2>2. buffer[u][q] \in Seq(AnyFlit) /\ \A i \in DOMAIN buffer[u][q] : buffer[u][q][i] \in Flit
    BY <1>2, <1>5 DEF Known
  <2>3. \A i \in DOMAIN Append(buffer[u][q], f) :
          Append(buffer[u][q], f)[i] = f \/ (i \in DOMAIN buffer[u][q] /\ Append(buffer[u][q], f)[i] = buffer[u][q][i])
    BY <1>3, <2>2
  <2>. QED BY <1>6, <2>1, <2>2, <2>3
<1>23. \A u \in Tile : rest'[u] # None => rest'[u] \in Flit /\ rest'[u].from = u
  <2>1. rest \in [Tile -> AnyFlit \cup {None}]
    BY <1>2 DEF Types
  <2>2. \A u \in Tile : rest'[u] = IF u = t THEN After(f) ELSE rest[u]
    BY <1>4, <2>1
  <2>. QED BY <1>2, <1>3, <2>2 DEF Known
<1>24. Known'
  BY <1>2, <1>4, <1>8, <1>22, <1>23 DEF Known
<1>. QED BY <1>21, <1>24

LEMMA OthersKeepOrder ==
  ASSUME OrderInv,
         \/ \E t \in Tile : Take(t)
         \/ \E t \in Tile, p \in Port : newData(t, p)
         \/ UNCHANGED vars
  PROVE  Known' /\ \E N \in Numbers, c \in Counts : Numbered(N, c)'
<1>1. UNCHANGED <<buffer, rest, inTransit>>
  BY DEF Take, newData, vars, history
<1>2. received' \in [Tile -> Seq(Flit)]
  <2>1. received \in [Tile -> Seq(Flit)]
    BY DEF OrderInv, Known
  <2>2. ASSUME NEW t \in Tile, Take(t) PROVE received' \in [Tile -> Seq(Flit)]
    <3>1. received[t] \in Seq(Flit) /\ received[t] # <<>> /\ received' = [received EXCEPT ![t] = Tail(@)]
      BY <2>1, <2>2 DEF Take
    <3>2. Tail(received[t]) \in Seq(Flit)
      BY <3>1
    <3>. QED BY <2>1, <3>1, <3>2
  <2>3. CASE (\E t \in Tile, p \in Port : newData(t, p)) \/ UNCHANGED vars
    BY <2>1, <2>3 DEF newData, vars
  <2>. QED BY <2>2, <2>3
<1>3. Known'
  BY <1>1, <1>2 DEF OrderInv, Known
<1>4. \A N \in Numbers, c \in Counts : Numbered(N, c) => Numbered(N, c)'
  BY <1>1 DEF Numbered, EachNumbered, NumbersRight, NoneLost, Ordered, Holds
<1>. QED BY <1>3, <1>4 DEF OrderInv

LEMMA InitOrder == Init => OrderInv
<1>. SUFFICES ASSUME Init PROVE OrderInv
  OBVIOUS
<1>1. Inv
  BY InitInv
<1>2. /\ \A t \in Tile, p \in Port : buffer[t][p] = <<>>
      /\ \A t \in Tile : rest[t] = None
      /\ received = [t \in Tile |-> <<>>]
      /\ inTransit = [s \in Sender |-> [d \in Reader |-> <<>>]]
  BY DEF Init
<1>3. \A t \in Tile, p \in Port : DOMAIN buffer[t][p] = {}
  BY <1>2
<1>4. Known
  BY <1>2, <1>3 DEF Known
<1>5. PICK N \in Numbers : N = [t \in Tile |-> [p \in Port |-> <<>>]]
  <2>1. <<>> \in Seq(Nat)
    OBVIOUS
  <2>2. [t \in Tile |-> [p \in Port |-> <<>>]] \in Numbers
    BY <2>1 DEF Numbers
  <2>. QED BY <2>2
<1>6. PICK c \in Counts : c = [s \in Sender |-> [d \in Reader |-> 0]]
  BY DEF Counts
<1>7. EachNumbered(N)
  BY <1>2, <1>5 DEF EachNumbered
<1>8. NumbersRight(N, c) /\ Ordered(N)
  BY <1>3 DEF NumbersRight, Ordered, Holds
<1>9. NoneLost(N, c)
  <2>1. \A s \in Sender, d \in Reader : 1 .. Len(inTransit[s][d]) = {}
    BY <1>2
  <2>. QED BY <2>1 DEF NoneLost
<1>. QED BY <1>1, <1>4, <1>7, <1>8, <1>9 DEF OrderInv, Numbered

LEMMA NextKeepsOrder == OrderInv /\ [Next]_vars => OrderInv'
<1>. SUFFICES ASSUME OrderInv, [Next]_vars PROVE OrderInv'
  OBVIOUS
<1>1. Inv'
  BY NextKeepsInv DEF OrderInv
<1>2. ASSUME NEW t \in Tile, StartPacket(t) PROVE OrderInv'
  <2>1. PICK f \in Packets : f.from = t /\ WriteFlit(t, f)
    BY <1>2 DEF StartPacket
  <2>. QED BY <1>1, <2>1, FlitFacts, WriteKeepsOrder DEF OrderInv
<1>3. ASSUME NEW t \in Tile, ContinuePacket(t) PROVE OrderInv'
  <2>1. PICK f \in Flit : f = rest[t] /\ f.from = t /\ WriteFlit(t, f)
    BY <1>3 DEF ContinuePacket, OrderInv, Known
  <2>. QED BY <1>1, <2>1, WriteKeepsOrder DEF OrderInv
<1>4. ASSUME NEW t \in Tile, Take(t) PROVE OrderInv'
  BY <1>1, <1>4, OthersKeepOrder DEF OrderInv
<1>5. ASSUME NEW t \in Tile, NEW p \in Port, newData(t, p) PROVE OrderInv'
  BY <1>1, <1>5, OthersKeepOrder DEF OrderInv
<1>6. ASSUME NEW t \in Tile, NEW o \in Port, sendData(t, o) PROVE OrderInv'
  BY <1>1, <1>6, SendKeepsOrder DEF OrderInv
<1>7. CASE UNCHANGED vars
  BY <1>1, <1>7, OthersKeepOrder DEF OrderInv
<1>. QED BY <1>2, <1>3, <1>4, <1>5, <1>6, <1>7 DEF Next
-----------------------------------------------------------------------------
(* The mesh as one crossbar. *)

(* A flit for one tile is a flit for a set of one.                         *)
LEMMA UnicastsFacts ==
  ASSUME NEW s \in Seq(Flit), NEW f \in Flit
  PROVE  /\ Unicasts(s) \in Seq({Unicast(g) : g \in Flit}) /\ Len(Unicasts(s)) = Len(s)
         /\ Unicasts(Append(s, f)) = Append(Unicasts(s), Unicast(f))
         /\ s # <<>> => /\ Unicasts(s) # <<>>
                        /\ Head(Unicasts(s)) = Unicast(Head(s))
                        /\ Unicasts(Tail(s)) = Tail(Unicasts(s))
<1> DEFINE U == {Unicast(g) : g \in Flit}
<1>1. /\ Len(s) \in Nat /\ DOMAIN s = 1 .. Len(s)
      /\ \A n \in 1 .. Len(s) : s[n] \in Flit
  OBVIOUS
<1>2. /\ DOMAIN Unicasts(s) = 1 .. Len(s)
      /\ \A n \in 1 .. Len(s) : Unicasts(s)[n] = Unicast(s[n]) /\ Unicasts(s)[n] \in U
  BY <1>1 DEF Unicasts
<1>3. Unicasts(s) \in Seq(U) /\ Len(Unicasts(s)) = Len(s)
  <2>1. Unicasts(s) \in [1 .. Len(s) -> U]
    BY <1>1 DEF Unicasts
  <2>. QED BY <1>1, <2>1
<1>4. Unicast(f) \in U
  OBVIOUS
<1> HIDE DEF U
<1>5. Unicasts(Append(s, f)) = Append(Unicasts(s), Unicast(f))
  <2>1. /\ Append(s, f) \in Seq(Flit) /\ Len(Append(s, f)) = Len(s) + 1
        /\ DOMAIN Append(s, f) = 1 .. Len(s) + 1
        /\ \A n \in 1 .. Len(s) : Append(s, f)[n] = s[n]
        /\ Append(s, f)[Len(s) + 1] = f
    BY <1>1
  <2>2. Unicasts(Append(s, f)) = [n \in 1 .. Len(s) + 1 |-> Unicast(Append(s, f)[n])]
    BY <2>1 DEF Unicasts
  <2>3. /\ Append(Unicasts(s), Unicast(f)) \in Seq(U)
        /\ Len(Append(Unicasts(s), Unicast(f))) = Len(s) + 1
        /\ \A n \in 1 .. Len(s) : Append(Unicasts(s), Unicast(f))[n] = Unicasts(s)[n]
        /\ Append(Unicasts(s), Unicast(f))[Len(s) + 1] = Unicast(f)
    BY <1>1, <1>3, <1>4
  <2>4. ASSUME NEW n \in 1 .. Len(s) + 1
        PROVE  Unicast(Append(s, f)[n]) = Append(Unicasts(s), Unicast(f))[n]
    <3>1. CASE n = Len(s) + 1
      BY <2>1, <2>3, <3>1
    <3>2. CASE n # Len(s) + 1
      <4>1. n \in 1 .. Len(s)
        BY <1>1, <3>2
      <4>. QED BY <1>2, <2>1, <2>3, <4>1
    <3>. QED BY <3>1, <3>2
  <2>5. \A a \in Seq(U) : a = [n \in 1 .. Len(a) |-> a[n]]
    OBVIOUS
  <2>6. Append(Unicasts(s), Unicast(f)) =
          [n \in 1 .. Len(s) + 1 |-> Append(Unicasts(s), Unicast(f))[n]]
    BY <2>3, <2>5
  <2>. QED BY <2>2, <2>4, <2>6
<1>6. ASSUME s # <<>>
      PROVE  /\ Unicasts(s) # <<>> /\ Head(Unicasts(s)) = Unicast(Head(s))
             /\ Unicasts(Tail(s)) = Tail(Unicasts(s))
  <2>1. Len(s) > 0 /\ 1 \in 1 .. Len(s) /\ Head(s) = s[1]
    BY <1>1, <1>6
  <2>2. Unicasts(s) # <<>>
    BY <1>3, <2>1
  <2>3. Head(Unicasts(s)) = Unicasts(s)[1]
    BY <1>3, <2>2
  <2>4. /\ DOMAIN Tail(s) = 1 .. Len(s) - 1
        /\ \A n \in 1 .. Len(s) - 1 : n + 1 \in 1 .. Len(s) /\ Tail(s)[n] = s[n + 1]
    BY <1>1, <1>6
  <2>5. Unicasts(Tail(s)) = [n \in 1 .. Len(s) - 1 |-> Unicast(Tail(s)[n])]
    BY <2>4 DEF Unicasts
  <2>6. /\ Tail(Unicasts(s)) = [n \in 1 .. Len(s) - 1 |-> Tail(Unicasts(s))[n]]
        /\ \A n \in 1 .. Len(s) - 1 : Tail(Unicasts(s))[n] = Unicasts(s)[n + 1]
    <3>1. /\ Tail(Unicasts(s)) \in Seq(U) /\ Len(Tail(Unicasts(s))) = Len(s) - 1
          /\ \A n \in 1 .. Len(s) - 1 : Tail(Unicasts(s))[n] = Unicasts(s)[n + 1]
      BY <1>1, <1>3, <2>2
    <3>2. \A a \in Seq(U) : a = [n \in 1 .. Len(a) |-> a[n]]
      OBVIOUS
    <3>. QED BY <3>1, <3>2
  <2>7. \A n \in 1 .. Len(s) - 1 : Unicast(Tail(s)[n]) = Tail(Unicasts(s))[n]
    BY <1>2, <2>4, <2>6
  <2>8. Unicasts(Tail(s)) = Tail(Unicasts(s))
    BY <2>5, <2>6, <2>7
  <2>. QED BY <1>2, <2>1, <2>2, <2>3, <2>8
<1>. QED BY <1>3, <1>5, <1>6 DEF U

(* What PacketCrossbar calls pending and received.                         *)
OnTheirWay == [s \in Sender |-> [d \in Reader |-> Unicasts(inTransit[s][d])]]
Arrived == [d \in Reader |-> Unicasts(received[d])]

(* What a tile sends, the crossbar accepts.                                *)
LEMMA WriteAccepts ==
  ASSUME OrderInv, NEW t \in Tile, NEW f \in Flit, f.from = t, WriteFlit(t, f)
  PROVE  Crossbar!Accept(t, Unicast(f))
<1>1. t \in Sender /\ f \in AnyFlit
  BY FlitFacts
<1>2. /\ inTransit' = IF f.to \in Reader THEN [inTransit EXCEPT ![t][f.to] = Append(@, f)]
                      ELSE inTransit
      /\ UNCHANGED <<sending, received>>
  BY DEF WriteFlit
<1>3. inTransit \in [Sender -> [Reader -> Seq(Flit)]]
  BY DEF OrderInv, Known
<1>4. Unicast(f).to = {f.to}
  BY <1>1 DEF Unicast, AnyFlit
<1>5. \A s \in Sender, d \in Reader :
        inTransit'[s][d] = IF s = t /\ d = f.to THEN Append(inTransit[s][d], f) ELSE inTransit[s][d]
  BY <1>1, <1>2, <1>3
<1>6. \A s \in Sender, d \in Reader :
        Unicasts(inTransit'[s][d]) =
          IF s = t /\ d \in Unicast(f).to THEN Append(Unicasts(inTransit[s][d]), Unicast(f))
          ELSE Unicasts(inTransit[s][d])
  <2>1. SUFFICES ASSUME NEW s \in Sender, NEW d \in Reader
                 PROVE  Unicasts(inTransit'[s][d]) =
                          IF s = t /\ d \in Unicast(f).to
                          THEN Append(Unicasts(inTransit[s][d]), Unicast(f))
                          ELSE Unicasts(inTransit[s][d])
    OBVIOUS
  <2>2. inTransit[s][d] \in Seq(Flit)
    BY <1>3
  <2>3. CASE s = t /\ d = f.to
    <3>1. inTransit'[s][d] = Append(inTransit[s][d], f)
      BY <1>5, <2>3
    <3>2. Unicasts(Append(inTransit[s][d], f)) = Append(Unicasts(inTransit[s][d]), Unicast(f))
      BY <2>2, UnicastsFacts
    <3>. QED BY <1>4, <2>3, <3>1, <3>2
  <2>4. CASE ~(s = t /\ d = f.to)
    <3>1. inTransit'[s][d] = inTransit[s][d]
      BY <1>5, <2>4
    <3>. QED BY <1>4, <2>4, <3>1
  <2>. QED BY <2>3, <2>4
<1>7. OnTheirWay' = [OnTheirWay EXCEPT ![t] =
                   [d \in Reader |-> IF d \in Unicast(f).to THEN Append(@[d], Unicast(f)) ELSE @[d]]]
  BY <1>1, <1>6 DEF OnTheirWay
<1>. QED BY <1>2, <1>7 DEF Crossbar!Accept, OnTheirWay

(* What a tile reads is taken from the crossbar.                           *)
LEMMA ReaderTakes ==
  ASSUME OrderInv, NEW t \in Tile, Take(t)
  PROVE  IF t \in Reader THEN Crossbar!Take(t) ELSE UNCHANGED <<OnTheirWay, sending, Arrived>>
<1>1. /\ received[t] # <<>> /\ received' = [received EXCEPT ![t] = Tail(@)]
      /\ UNCHANGED <<sending, inTransit>>
  BY DEF Take, history
<1>2. received \in [Tile -> Seq(Flit)] /\ received[t] \in Seq(Flit) /\ Reader \subseteq Tile
  BY FlitFacts DEF OrderInv, Known
<1>3. OnTheirWay' = OnTheirWay
  BY <1>1 DEF OnTheirWay
<1>4. CASE t \in Reader
  <2>1. \A d \in Reader : received'[d] = IF d = t THEN Tail(received[t]) ELSE received[d]
    BY <1>1, <1>2
  <2>2. Flit # {}
    BY <1>1, <1>2
  <2>3. Unicasts(received[t]) # <<>> /\ Unicasts(Tail(received[t])) = Tail(Unicasts(received[t]))
    BY <1>1, <1>2, <2>2, UnicastsFacts
  <2>4. \A d \in Reader : Unicasts(received'[d]) =
          IF d = t THEN Tail(Unicasts(received[t])) ELSE Unicasts(received[d])
    BY <2>1, <2>3
  <2>5. Arrived' = [Arrived EXCEPT ![t] = Tail(@)]
    BY <1>4, <2>4 DEF Arrived
  <2>6. Arrived[t] # <<>>
    BY <1>4, <2>3 DEF Arrived
  <2>. QED BY <1>1, <1>3, <1>4, <2>5, <2>6 DEF Crossbar!Take, Arrived, OnTheirWay
<1>5. CASE t \notin Reader
  <2>1. \A d \in Reader : received'[d] = received[d]
    BY <1>1, <1>2, <1>5
  <2>. QED BY <1>1, <1>3, <1>5, <2>1 DEF Arrived
<1>. QED BY <1>4, <1>5

(* A hop is nothing to the crossbar, unless it is the last.                *)
LEMMA SendTransfers ==
  ASSUME OrderInv, NEW t \in Tile, NEW o \in Port, sendData(t, o)
  PROVE  \/ \E s \in Sender, d \in Reader : Crossbar!Transfer(s, d)
         \/ UNCHANGED <<OnTheirWay, sending, Arrived>>
<1>1. PICK N \in Numbers, c \in Counts : Numbered(N, c)
  BY DEF OrderInv
<1>2. PICK T \in Plan : Coherent(T)
  BY DEF OrderInv, Inv
<1>3. Types /\ Known
  BY DEF OrderInv, Inv
<1>4. PICK p \in Port, f \in AnyFlit : Moves(T, t, o, p, f)
  BY <1>2, <1>3, FlitMoves DEF Coherent
<1>5. CASE ~(o = LOCAL_PORT /\ ~DeadEnd(t, o))
  <2>1. UNCHANGED <<received, sending, inTransit>>
    BY <1>5 DEF sendData, MoveFlit, history
  <2>. QED BY <2>1 DEF OnTheirWay, Arrived
<1>6. CASE o = LOCAL_PORT /\ ~DeadEnd(t, o)
  <2>1. /\ p = granted(t, o) /\ buffer[t][p] \in Seq(AnyFlit) /\ buffer[t][p] # <<>>
        /\ f = Head(buffer[t][p]) /\ f = buffer[t][p][1] /\ getDestination(t, f.to) = o
        /\ <<t, o>> \in held => Journey(f) = T[t][o]
    BY <1>3, <1>4 DEF Moves, Types
  <2>2. f \in Flit /\ 1 \in DOMAIN buffer[t][p]
    BY <1>3, <2>1 DEF Known
  <2>3. f.to = t /\ t \in Reader
    <3>1. f.to \in Target
      BY DEF AnyFlit
    <3>2. f.to = t
      BY <1>6, <2>1, <3>1, LocalIsTarget
    <3>. QED BY <1>6, <2>2, <3>2, FlitFacts DEF DeadEnd
  <2>4. PICK s \in Sender : s = f.from
    BY <2>2, FlitFacts
  <2>5. Holds(s, t, t, p, 1)
    BY <2>1, <2>2, <2>3, <2>4 DEF Holds
  <2>6. 1 \in 1 .. Len(inTransit[s][t]) /\ inTransit[s][t][1] = f
    BY <1>1, <1>3, <2>1, <2>3, <2>5, FirstArrives
  <2>7. /\ received' = [received EXCEPT ![t] = Append(@, f)]
        /\ sending' = [sending EXCEPT ![t] = IF f.left = 0 THEN None ELSE s]
        /\ inTransit' = [inTransit EXCEPT ![s][t] = Tail(@)]
    BY <1>6, <2>1, <2>4 DEF sendData, MoveFlit
  <2>8. /\ inTransit \in [Sender -> [Reader -> Seq(Flit)]] /\ inTransit[s][t] \in Seq(Flit)
        /\ received \in [Tile -> Seq(Flit)] /\ received[t] \in Seq(Flit)
        /\ Reader \subseteq Tile
    BY <1>3, <2>3, FlitFacts DEF Known
  <2>9. inTransit[s][t] # <<>> /\ Head(inTransit[s][t]) = f
    BY <2>6, <2>8
  <2>10. OnTheirWay[s][t] # <<>> /\ Head(OnTheirWay[s][t]) = Unicast(f)
    BY <2>2, <2>3, <2>8, <2>9, UnicastsFacts DEF OnTheirWay
  <2>11. OnTheirWay' = [OnTheirWay EXCEPT ![s][t] = Tail(@)]
    <3>1. \A r \in Sender, d \in Reader :
            inTransit'[r][d] = IF r = s /\ d = t THEN Tail(inTransit[s][t]) ELSE inTransit[r][d]
      BY <2>3, <2>7, <2>8
    <3>2. \A r \in Sender, d \in Reader :
            Unicasts(inTransit'[r][d]) =
              IF r = s /\ d = t THEN Tail(Unicasts(inTransit[s][t])) ELSE Unicasts(inTransit[r][d])
      BY <2>2, <2>8, <2>9, <3>1, UnicastsFacts
    <3>. QED BY <2>3, <3>2 DEF OnTheirWay
  <2>12. Arrived' = [Arrived EXCEPT ![t] = Append(@, Unicast(f))]
    <3>1. \A d \in Reader : received'[d] = IF d = t THEN Append(received[t], f) ELSE received[d]
      BY <2>7, <2>8
    <3>2. \A d \in Reader : Unicasts(received'[d]) =
            IF d = t THEN Append(Unicasts(received[t]), Unicast(f)) ELSE Unicasts(received[d])
      BY <2>2, <2>8, <3>1, UnicastsFacts
    <3>. QED BY <2>3, <3>2 DEF Arrived
  <2>13. Len(Arrived[t]) < BufferSize
    <3>1. Len(received[t]) < BufferSize
      BY <1>6 DEF sendData, canWrite
    <3>2. Len(Unicasts(received[t])) = Len(received[t])
      BY <2>2, <2>8, UnicastsFacts
    <3>. QED BY <2>3, <3>1, <3>2 DEF Arrived
  <2>14. sending[t] \in {None, s}
    <3>1. sending[t] = IF <<t, LOCAL_PORT>> \in held THEN T[t][LOCAL_PORT].from ELSE None
      BY <1>2, <2>3 DEF Coherent, SendingOK
    <3>2. <<t, LOCAL_PORT>> \in held => T[t][LOCAL_PORT].from = f.from
      BY <1>6, <2>1 DEF Journey
    <3>. QED BY <2>4, <3>1, <3>2
  <2>15. Unicast(f).left = f.left
    BY DEF Unicast, AnyFlit
  <2>16. Crossbar!Transfer(s, t)
    BY <2>7, <2>10, <2>11, <2>12, <2>13, <2>14, <2>15
    DEF Crossbar!Transfer, OnTheirWay, Arrived
  <2>. QED BY <2>3, <2>16
<1>. QED BY <1>5, <1>6

(* Every step of the mesh is a step of one crossbar, or none: whatever the *)
(* size of the mesh and of its buffers, the flits from one tile to another *)
(* arrive once and in order and no tile gets packets mixed, although the   *)
(* routers of Mesh.cpp, each on its own, know nothing but the next hop.    *)
THEOREM CrossbarIsImplemented == Spec => ImplementsCrossbar
<1>1. Init => Crossbar!Init
  <2>1. Unicasts(<<>>) = <<>>
    BY DEF Unicasts
  <2>2. Reader \subseteq Tile
    BY FlitFacts
  <2>. QED BY <2>1, <2>2 DEF Init, Crossbar!Init
<1>2. OrderInv /\ [Next]_vars => [Crossbar!Next]_<<OnTheirWay, sending, Arrived>>
  <2>. SUFFICES ASSUME OrderInv, [Next]_vars
                PROVE  [Crossbar!Next]_<<OnTheirWay, sending, Arrived>>
    OBVIOUS
  <2>1. ASSUME NEW t \in Tile, NEW f \in Flit, f.from = t, WriteFlit(t, f) PROVE Crossbar!Next
    <3>1. Crossbar!Accept(t, Unicast(f))
      BY <2>1, WriteAccepts
    <3>2. t \in Sender
      BY <2>1, FlitFacts
    <3>. QED BY <3>1, <3>2 DEF Crossbar!Next
  <2>2. ASSUME NEW t \in Tile, StartPacket(t) \/ ContinuePacket(t) PROVE Crossbar!Next
    <3>1. PICK f \in Flit : f.from = t /\ WriteFlit(t, f)
      BY <2>2, FlitFacts DEF StartPacket, ContinuePacket, OrderInv, Known
    <3>. QED BY <2>1, <3>1
  <2>3. ASSUME NEW t \in Tile, Take(t)
        PROVE  Crossbar!Next \/ UNCHANGED <<OnTheirWay, sending, Arrived>>
    <3>1. CASE t \in Reader
      <4>1. Crossbar!Take(t)
        BY <2>3, <3>1, ReaderTakes
      <4>. QED BY <3>1, <4>1 DEF Crossbar!Next
    <3>2. CASE t \notin Reader
      BY <2>3, <3>2, ReaderTakes
    <3>. QED BY <3>1, <3>2
  <2>4. ASSUME NEW t \in Tile, NEW p \in Port, newData(t, p)
        PROVE  UNCHANGED <<OnTheirWay, sending, Arrived>>
    BY <2>4 DEF newData, history, OnTheirWay, Arrived
  <2>5. ASSUME NEW t \in Tile, NEW o \in Port, sendData(t, o)
        PROVE  Crossbar!Next \/ UNCHANGED <<OnTheirWay, sending, Arrived>>
    BY <2>5, SendTransfers DEF Crossbar!Next
  <2>6. CASE UNCHANGED vars
    BY <2>6 DEF vars, history, OnTheirWay, Arrived
  <2>. QED BY <2>2, <2>3, <2>4, <2>5, <2>6 DEF Next
<1>3. Init => OrderInv
  BY InitOrder
<1>4. OrderInv /\ [Next]_vars => OrderInv'
  BY NextKeepsOrder
<1>. QED BY <1>1, <1>2, <1>3, <1>4, PTL
     DEF Spec, ImplementsCrossbar, Crossbar!CrossbarSpec, OnTheirWay, Arrived
-----------------------------------------------------------------------------
(* No queue holds more than it has room for. *)

Bounded ==
  /\ \A t \in Tile, p \in Port : Len(buffer[t][p]) <= BufferSize
  /\ \A t \in Tile : Len(received[t]) <= BufferSize
  /\ lastAccepted \in [Tile -> [Port -> Port \cup {NothingAccepted}]]
  /\ sending \in [Reader -> Sender \cup {None}]

LEMMA QueueLengths ==
  ASSUME NEW S, NEW s \in Seq(S), NEW f \in S
  PROVE  /\ Len(s) \in Nat /\ Len(Append(s, f)) = Len(s) + 1
         /\ s # <<>> => Len(Tail(s)) = Len(s) - 1
OBVIOUS

(* What enters a queue is let in by canWrite or by the tile's own check.   *)
LEMMA NextKeepsBounds == OrderInv /\ Bounded /\ [Next]_vars => Bounded'
<1>. SUFFICES ASSUME OrderInv, Bounded, [Next]_vars PROVE Bounded'
  OBVIOUS
<1>1. /\ buffer \in [Tile -> [Port -> Seq(AnyFlit)]]
      /\ received \in [Tile -> Seq(Flit)]
      /\ BufferSize \in Nat /\ LOCAL_PORT \in Port
  BY MeshAssumption DEF OrderInv, Inv, Types, Known, Port, LOCAL_PORT
<1>2. ASSUME NEW t \in Tile, NEW f \in Flit, WriteFlit(t, f) PROVE Bounded'
  <2>1. /\ Len(buffer[t][LOCAL_PORT]) < BufferSize
        /\ buffer' = [buffer EXCEPT ![t][LOCAL_PORT] = Append(@, f)]
        /\ UNCHANGED <<received, lastAccepted, sending>>
    BY <1>2 DEF WriteFlit
  <2>2. Len(Append(buffer[t][LOCAL_PORT], f)) <= BufferSize
    <3>1. buffer[t][LOCAL_PORT] \in Seq(AnyFlit) /\ f \in AnyFlit
      BY <1>1, FlitFacts
    <3>2. /\ Len(buffer[t][LOCAL_PORT]) \in Nat
          /\ Len(Append(buffer[t][LOCAL_PORT], f)) = Len(buffer[t][LOCAL_PORT]) + 1
      BY <3>1, QueueLengths
    <3>. QED BY <1>1, <2>1, <3>2
  <2>3. \A u \in Tile, q \in Port :
          buffer'[u][q] = IF u = t /\ q = LOCAL_PORT THEN Append(buffer[t][LOCAL_PORT], f)
                          ELSE buffer[u][q]
    BY <1>1, <2>1
  <2>. QED BY <2>1, <2>2, <2>3 DEF Bounded
<1>3. ASSUME NEW t \in Tile, StartPacket(t) \/ ContinuePacket(t) PROVE Bounded'
  <2>1. PICK f \in Flit : WriteFlit(t, f)
    BY <1>3, FlitFacts DEF StartPacket, ContinuePacket, OrderInv, Known
  <2>. QED BY <1>2, <2>1
<1>4. ASSUME NEW t \in Tile, Take(t) PROVE Bounded'
  <2>1. /\ received[t] # <<>> /\ received' = [received EXCEPT ![t] = Tail(@)]
        /\ UNCHANGED <<buffer, lastAccepted, sending>>
    BY <1>4 DEF Take, history
  <2>2. Len(Tail(received[t])) <= BufferSize
    <3>1. Len(received[t]) \in Nat /\ Len(received[t]) <= BufferSize
      BY <1>1 DEF Bounded
    <3>2. Len(Tail(received[t])) = Len(received[t]) - 1
      BY <1>1, <2>1
    <3>. QED BY <1>1, <3>1, <3>2
  <2>3. \A u \in Tile : received'[u] = IF u = t THEN Tail(received[t]) ELSE received[u]
    BY <1>1, <2>1
  <2>. QED BY <2>1, <2>2, <2>3 DEF Bounded
<1>5. ASSUME NEW t \in Tile, NEW p \in Port, newData(t, p) PROVE Bounded'
  BY <1>5 DEF newData, history, Bounded
<1>6. ASSUME NEW t \in Tile, NEW o \in Port, sendData(t, o) PROVE Bounded'
  <2>1. PICK T \in Plan : Coherent(T)
    BY DEF OrderInv, Inv
  <2>2. PICK p \in Port, f \in AnyFlit : Moves(T, t, o, p, f)
    BY <1>6, <2>1, FlitMoves DEF OrderInv, Inv, Coherent
  <2>3. /\ p = granted(t, o) /\ buffer[t][p] \in Seq(AnyFlit) /\ buffer[t][p] # <<>>
        /\ f = Head(buffer[t][p]) /\ f = buffer[t][p][1]
    BY <1>1, <2>2 DEF Moves
  <2>4. f \in Flit
    <3>1. 1 \in DOMAIN buffer[t][p]
      BY <2>3
    <3>. QED BY <2>3, <3>1 DEF OrderInv, Known
  <2>5. ASSUME NEW u \in Tile, NEW q \in Port PROVE Len(buffer'[u][q]) <= BufferSize
    <3>1. /\ Len(buffer[u][q]) \in Nat /\ Len(buffer[u][q]) <= BufferSize
          /\ Len(Append(buffer[u][q], f)) = Len(buffer[u][q]) + 1
      <4>1. buffer[u][q] \in Seq(AnyFlit)
        BY <1>1
      <4>. QED BY <4>1, QueueLengths DEF Bounded
    <3>2. CASE u = t /\ q = p
      <4>1. buffer'[u][q] = Tail(buffer[u][q])
        BY <2>2, <3>2 DEF Moves
      <4>2. Len(Tail(buffer[u][q])) = Len(buffer[u][q]) - 1
        BY <2>3, <3>2
      <4>. QED BY <1>1, <3>1, <4>1, <4>2
    <3>3. CASE ~(u = t /\ q = p) /\ EndOf(t, o, u, q)
      <4>1. buffer'[u][q] = Append(buffer[u][q], f)
        BY <2>2, <3>3 DEF Moves
      <4>2. o # LOCAL_PORT /\ ~DeadEnd(t, o) /\ u = Neighbour(t, o) /\ q = Opposite(o)
        BY <3>3, LinkLeads
      <4>3. Len(buffer[u][q]) < BufferSize
        BY <1>6, <4>2 DEF sendData, canWrite
      <4>. QED BY <1>1, <3>1, <4>1, <4>3
    <3>4. CASE ~(u = t /\ q = p) /\ ~EndOf(t, o, u, q)
      BY <2>2, <3>1, <3>4 DEF Moves
    <3>. QED BY <3>2, <3>3, <3>4
  <2>6. ASSUME NEW u \in Tile PROVE Len(received'[u]) <= BufferSize
    <3>1. CASE o = LOCAL_PORT /\ ~DeadEnd(t, o) /\ u = t
      <4>1. received'[u] = Append(received[t], f)
        BY <1>1, <1>6, <2>3, <3>1 DEF sendData, MoveFlit
      <4>2. Len(received[t]) < BufferSize
        BY <1>6, <3>1 DEF sendData, canWrite
      <4>3. Len(received[t]) \in Nat /\ Len(Append(received[t], f)) = Len(received[t]) + 1
        <5>1. received[t] \in Seq(Flit)
          BY <1>1
        <5>. QED BY <2>4, <5>1, QueueLengths
      <4>. QED BY <1>1, <4>1, <4>2, <4>3
    <3>2. CASE ~(o = LOCAL_PORT /\ ~DeadEnd(t, o) /\ u = t)
      <4>1. received'[u] = received[u]
        BY <1>1, <1>6, <2>3, <3>2 DEF sendData, MoveFlit
      <4>. QED BY <4>1 DEF Bounded
    <3>. QED BY <3>1, <3>2
  <2>7. lastAccepted' \in [Tile -> [Port -> Port \cup {NothingAccepted}]]
    <3>1. lastAccepted' = [lastAccepted EXCEPT ![t][o] = p]
      BY <1>6, <2>3 DEF sendData
    <3>. QED BY <3>1 DEF Bounded
  <2>8. sending' \in [Reader -> Sender \cup {None}]
    <3>1. \/ sending' = sending
          \/ sending' = [sending EXCEPT ![t] = IF f.left = 0 THEN None ELSE f.from]
      BY <1>6, <2>3 DEF sendData, MoveFlit, history
    <3>2. f.from \in Sender
      BY <2>4, FlitFacts
    <3>. QED BY <3>1, <3>2 DEF Bounded
  <2>. QED BY <2>5, <2>6, <2>7, <2>8 DEF Bounded
<1>7. CASE UNCHANGED vars
  BY <1>7 DEF vars, history, Bounded
<1>. QED BY <1>3, <1>4, <1>5, <1>6, <1>7 DEF Next

(* The types of all variables, and the bounds of the queues, for a mesh of *)
(* any size: no router's FIFO and no tile's is written when it is full,    *)
(* though sendData only looks whether the next one can be written.         *)
THEOREM TypesAreKept == Spec => []TypeOK
<1>1. Init => OrderInv /\ Bounded
  <2>. SUFFICES ASSUME Init PROVE OrderInv /\ Bounded
    OBVIOUS
  <2>1. Len(<<>>) <= BufferSize
    BY MeshAssumption
  <2>2. Bounded
    BY <2>1 DEF Init, Bounded
  <2>. QED BY <2>2, InitOrder
<1>2. OrderInv /\ Bounded /\ [Next]_vars => (OrderInv /\ Bounded)'
  BY NextKeepsOrder, NextKeepsBounds
<1>3. OrderInv /\ Bounded => TypeOK
  <2>. SUFFICES ASSUME OrderInv, Bounded PROVE TypeOK
    OBVIOUS
  <2>1. ASSUME NEW t \in Tile, NEW p \in Port PROVE buffer[t][p] \in Seq(Flit)
    <3>1. buffer[t][p] \in Seq(AnyFlit) /\ \A k \in DOMAIN buffer[t][p] : buffer[t][p][k] \in Flit
      BY DEF OrderInv, Inv, Types, Known
    <3>2. \A s \in Seq(AnyFlit) : (\A k \in DOMAIN s : s[k] \in Flit) => s \in Seq(Flit)
      OBVIOUS
    <3>. QED BY <3>1, <3>2
  <2>2. rest \in [Tile -> Flit \cup {None}]
    <3>1. rest \in [Tile -> AnyFlit \cup {None}] /\ \A t \in Tile : rest[t] # None => rest[t] \in Flit
      BY DEF OrderInv, Inv, Types, Known
    <3>. QED BY <3>1
  <2>3. /\ \A t \in Tile : received[t] \in Seq(Flit)
        /\ \A s \in Sender, d \in Reader : inTransit[s][d] \in Seq(Flit)
        /\ shown \subseteq {tp \in Tile \X Port : buffer[tp[1]][tp[2]] # <<>>}
        /\ held \subseteq Tile \X Port
    BY DEF OrderInv, Inv, Types, Known
  <2>. QED BY <2>1, <2>2, <2>3 DEF Bounded, TypeOK
<1>. QED BY <1>1, <1>2, <1>3, PTL DEF Spec
=============================================================================
