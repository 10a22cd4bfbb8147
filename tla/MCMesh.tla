-------------------------------- MODULE MCMesh --------------------------------
(* An instance of Mesh for TLC. *)
EXTENDS Mesh

At(x, y) == [x |-> x, y |-> y]
Send(s, d, n) == [from |-> s, to |-> d, left |-> n - 1]

(* Two by two tiles.  Packets from three tiles meet in two routers on     *)
(* their way to the south-eastern tile; one goes off the edge behind it,   *)
(* one to a tile that does not read.                                       *)
MCConnected == {At(0, 0), At(1, 0), At(1, 1)}
MCPackets ==
  {Send(At(0, 0), At(1, 1), 2), Send(At(1, 0), At(1, 1), 2), Send(At(1, 0), At(1, 2), 1),
   Send(At(1, 1), At(0, 1), 1)}
=============================================================================
