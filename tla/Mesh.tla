--------------------------------- MODULE Mesh ---------------------------------
(***************************************************************************)
(* A chip-wide network (Network/Topologies/Mesh): one five-port router per *)
(* tile, joined to its neighbours, to the tile, or to a dead end at the    *)
(* edge of the chip.  Each router has a FIFO per input and a crossbar.     *)
(* How a crossbar wakes its processes is module Network's business; here a *)
(* crossbar announces heads (newData) and moves flits (sendData).          *)
(*                                                                         *)
(* A flit is its target tile and the number of flits left in its packet;   *)
(* the field from, for the properties, is the tile that sent it.           *)
(***************************************************************************)
EXTENDS RoundRobinArbiter, Integers, Sequences

CONSTANTS Width, Height, BufferSize,
          Connected,  \* tiles that read what arrives; the other tiles tie the
                      \* network off with a dead end
          Packets,    \* the packets tiles may send: [from, to, left], by head flit
          MaxLength,  \* flits in the longest packet
          None

Tile == [x : 0 .. Width - 1, y : 0 .. Height - 1]

(* Software may address tiles that do not exist.                           *)
Target == [x : Nat, y : Nat]

AnyFlit == [from : Tile, to : Target, left : 0 .. MaxLength - 1]

ASSUME MeshAssumption ==
  /\ {Width, Height, BufferSize, MaxLength} \subseteq Nat \ {0}
  /\ Connected \subseteq Tile
  /\ Packets \subseteq AnyFlit
  /\ None \notin AnyFlit

NORTH == 0
EAST == 1
SOUTH == 2
WEST == 3
LOCAL_PORT == 4
Port == 0 .. 4

Flit == {[p EXCEPT !.left = n] : p \in Packets, n \in 0 .. MaxLength - 1}

VARIABLES
  buffer,        \* tile -> input port -> flits in the router's FIFO
  shown,         \* <<tile, input port>> whose head flit's request has been made
  lastAccepted,  \* tile -> output port -> the last input its arbiter granted
  held,          \* <<tile, output port>> in the middle of a packet
  rest,          \* tile -> next flit of the packet it is sending, or None
  received,      \* tile -> flits at the local sink
  \* For the properties:
  sending,       \* reader -> the tile whose packet it is in the middle of, or None
  inTransit      \* sender -> reader -> flits it has sent that have not arrived

history == <<sending, inTransit>>
vars == <<buffer, shown, lastAccepted, held, rest, received, history>>

Sender == {p.from : p \in Packets}
Reader == {p.to : p \in Packets} \cap Connected

Init ==
  /\ buffer = [t \in Tile |-> [p \in Port |-> <<>>]]
  /\ shown = {}
  /\ lastAccepted = [t \in Tile |-> [o \in Port |-> NothingAccepted]]
  /\ held = {}
  /\ rest = [t \in Tile |-> None]
  /\ received = [t \in Tile |-> <<>>]
  /\ sending = [d \in Reader |-> None]
  /\ inTransit = [s \in Sender |-> [d \in Reader |-> <<>>]]
-----------------------------------------------------------------------------
(* XY routing: to the right column first, then along it.                   *)
getDestinationPastColumn(position, target) ==
  CASE target.x >= position.x -> EAST
    [] target.x < position.x -> WEST
getDestination(position, target) ==
  CASE target.x > position.x -> EAST
    [] target.x < position.x -> WEST
    [] target.x = position.x /\ target.y > position.y -> SOUTH
    [] target.x = position.x /\ target.y < position.y -> NORTH
    [] OTHER -> LOCAL_PORT

(* Where an output leads: an input port of a router, the local tile, or    *)
(* nowhere.  The row with index 0 is the northern edge.                    *)
Neighbour(t, o) ==
  CASE o = NORTH -> [x |-> t.x, y |-> t.y - 1]
    [] o = SOUTH -> [x |-> t.x, y |-> t.y + 1]
    [] o = WEST -> [x |-> t.x - 1, y |-> t.y]
    [] o = EAST -> [x |-> t.x + 1, y |-> t.y]
    [] o = LOCAL_PORT -> t

Opposite(o) == CASE o = NORTH -> SOUTH [] o = SOUTH -> NORTH
                 [] o = WEST -> EAST [] o = EAST -> WEST

DeadEnd(t, o) == IF o = LOCAL_PORT THEN t \notin Connected ELSE Neighbour(t, o) \notin Tile

(* A dead end accepts everything, to be able to warn, and keeps nothing.   *)
canWrite(t, o) ==
  \/ DeadEnd(t, o)
  \/ o = LOCAL_PORT /\ Len(received[t]) < BufferSize
  \/ ~DeadEnd(t, o) /\ o # LOCAL_PORT /\ Len(buffer[Neighbour(t, o)][Opposite(o)]) < BufferSize
-----------------------------------------------------------------------------
(* The tiles: a packet's flits enter the mesh one after the other.         *)
After(f) == IF f.left = 0 THEN None ELSE [f EXCEPT !.left = @ - 1]

WriteFlit(t, f) ==
  /\ Len(buffer[t][LOCAL_PORT]) < BufferSize
  /\ buffer' = [buffer EXCEPT ![t][LOCAL_PORT] = Append(@, f)]
  /\ rest' = [rest EXCEPT ![t] = After(f)]
  /\ inTransit' = IF f.to \in Reader THEN [inTransit EXCEPT ![t][f.to] = Append(@, f)]
                  ELSE inTransit
  /\ UNCHANGED <<shown, lastAccepted, held, received, sending>>

StartPacket(t) == rest[t] = None /\ \E f \in Packets : f.from = t /\ WriteFlit(t, f)
ContinuePacket(t) == rest[t] # None /\ WriteFlit(t, rest[t])

Take(t) ==
  /\ received[t] # <<>>
  /\ received' = [received EXCEPT ![t] = Tail(@)]
  /\ UNCHANGED <<buffer, shown, lastAccepted, held, rest, history>>
-----------------------------------------------------------------------------
(* The routers.                                                            *)
newData(t, p) ==
  /\ buffer[t][p] # <<>>
  /\ <<t, p>> \notin shown
  /\ shown' = shown \cup {<<t, p>>}
  /\ UNCHANGED <<buffer, lastAccepted, held, rest, received, history>>

requests(t, o) ==
  {p \in Port : <<t, p>> \in shown /\ getDestination(t, Head(buffer[t][p]).to) = o}

granted(t, o) == arbitrate(requests(t, o), lastAccepted[t][o], <<t, o>> \in held)

(* An output is held between the flits of a packet.                        *)
keepsHoldNever(f) == FALSE
keepsHoldTooLong(f) == TRUE
keepsHold(f) == f.left > 0

(* The flit at the head of input p goes where output o leads.              *)

MoveFlit(t, p, o) ==
  LET flit == Head(buffer[t][p])
      left == [buffer EXCEPT ![t][p] = Tail(@)] IN
  /\ IF o = LOCAL_PORT /\ ~DeadEnd(t, o)
     THEN /\ received' = [received EXCEPT ![t] = Append(@, flit)]
          /\ sending' = [sending EXCEPT ![t] = IF flit.left = 0 THEN None ELSE flit.from]
          /\ inTransit' = [inTransit EXCEPT ![flit.from][t] = Tail(@)]
     ELSE UNCHANGED <<received, history>>
  /\ buffer' = IF o = LOCAL_PORT \/ DeadEnd(t, o) THEN left
               ELSE [left EXCEPT ![Neighbour(t, o)][Opposite(o)] = Append(@, flit)]
  /\ held' = IF keepsHold(flit) THEN held \cup {<<t, o>>} ELSE held \ {<<t, o>>}

sendData(t, o) ==
  /\ requests(t, o) # {}
  /\ canWrite(t, o)
  /\ LET p == granted(t, o) IN
     \* A held output waits for its packet's next flit.
     /\ <<t, p>> \in shown
     /\ MoveFlit(t, p, o)
     /\ shown' = shown \ {<<t, p>>}
     /\ lastAccepted' = [lastAccepted EXCEPT ![t][o] = p]
  /\ UNCHANGED rest
-----------------------------------------------------------------------------
Next ==
  \E t \in Tile :
    \/ StartPacket(t) \/ ContinuePacket(t) \/ Take(t)
    \/ \E p \in Port : newData(t, p) \/ sendData(t, p)

Spec == Init /\ [][Next]_vars

(* Every method that is due runs; tiles finish the packets they start and  *)
(* read what they get.                                                     *)
Fairness ==
  \A t \in Tile :
    /\ WF_vars(ContinuePacket(t))
    /\ WF_vars(Take(t))
    /\ \A p \in Port : WF_vars(newData(t, p)) /\ WF_vars(sendData(t, p))

FairSpec == Spec /\ Fairness
-----------------------------------------------------------------------------
TypeOK ==
  /\ \A t \in Tile, p \in Port :
       buffer[t][p] \in Seq(Flit) /\ Len(buffer[t][p]) <= BufferSize
  /\ shown \subseteq {tp \in Tile \X Port : buffer[tp[1]][tp[2]] # <<>>}
  /\ lastAccepted \in [Tile -> [Port -> Port \cup {NothingAccepted}]]
  /\ held \subseteq Tile \X Port
  /\ rest \in [Tile -> Flit \cup {None}]
  /\ \A t \in Tile : received[t] \in Seq(Flit) /\ Len(received[t]) <= BufferSize
  /\ sending \in [Reader -> Sender \cup {None}]
  /\ \A s \in Sender, d \in Reader : inTransit[s][d] \in Seq(Flit)

(* Every link of the mesh has a rank, and a flit that has come over a link *)
(* wants one of higher rank next, so that packets that hold links while    *)
(* they wait for others can never wait in a circle.                        *)
Rank(t, o) ==
  CASE o = EAST -> t.x
    [] o = WEST -> Width - t.x
    [] o = SOUTH -> Width + 1 + t.y
    [] o = NORTH -> Width + 1 + Height - t.y
    [] o = LOCAL_PORT -> Width + Height + 2

LinksAscend ==
  \A t \in Tile, p \in Port \ {LOCAL_PORT} :
    \A n \in DOMAIN buffer[t][p] :
      /\ ~DeadEnd(t, p)
      /\ Rank(t, getDestination(t, buffer[t][p][n].to)) > Rank(Neighbour(t, p), Opposite(p))
-----------------------------------------------------------------------------
(* What a mesh of routers promises is what one crossbar promises.          *)

Unicast(f) == [f EXCEPT !.to = {@}]
Unicasts(s) == [n \in DOMAIN s |-> Unicast(s[n])]

(* Flits reach the tile they are addressed to, once, in the order they     *)
(* were sent in, and packets are not mixed at any tile, although they      *)
(* share the buffers and links on their ways; what is addressed to a tile  *)
(* that does not exist or does not read disappears without harm to others. *)
Crossbar == INSTANCE PacketCrossbar WITH
  Input <- Sender,
  Output <- Reader,
  OutputSize <- BufferSize,
  Flit <- {Unicast(f) : f \in Flit},
  pending <- [s \in Sender |-> [d \in Reader |-> Unicasts(inTransit[s][d])]],
  sending <- sending,
  received <- [d \in Reader |-> Unicasts(received[d])]
ImplementsCrossbar == Crossbar!CrossbarSpec

(* No flit stays in a router for ever: packets that are spread over many   *)
(* small buffers never wait for each other in a circle, and no input of a  *)
(* router is passed over for ever, as long as the tiles go on reading.     *)
EveryBufferDrains ==
  \A t \in Tile, p \in Port :
    []<>(buffer[t][p] = <<>>) \/ []<><<Len(buffer'[t][p]) < Len(buffer[t][p])>>_vars
=============================================================================
