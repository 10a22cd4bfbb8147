---------------------------- MODULE PacketCrossbar ----------------------------
(***************************************************************************)
(* What a network promises: every flit reaches every output it is meant    *)
(* for once, flits from one input to one output stay in order, and the     *)
(* flits of different packets are never mixed on an output.                *)
(***************************************************************************)
EXTENDS Naturals, Sequences

CONSTANTS Input, Output, OutputSize, Flit, None

VARIABLES pending,   \* input -> output -> flits on their way
          sending,   \* output -> the input whose packet it is in the middle of, or None
          received   \* output -> flits that have arrived

Init ==
  /\ pending = [i \in Input |-> [o \in Output |-> <<>>]]
  /\ sending = [o \in Output |-> None]
  /\ received = [o \in Output |-> <<>>]

Accept(i, f) ==
  /\ pending' = [pending EXCEPT ![i] =
                   [o \in Output |-> IF o \in f.to THEN Append(@[o], f) ELSE @[o]]]
  /\ UNCHANGED <<sending, received>>

Transfer(i, o) ==
  /\ pending[i][o] # <<>>
  /\ sending[o] \in {None, i}
  /\ Len(received[o]) < OutputSize
  /\ LET f == Head(pending[i][o]) IN
     /\ pending' = [pending EXCEPT ![i][o] = Tail(@)]
     /\ received' = [received EXCEPT ![o] = Append(@, f)]
     /\ sending' = [sending EXCEPT ![o] = IF f.left = 0 THEN None ELSE i]

Take(o) ==
  /\ received[o] # <<>>
  /\ received' = [received EXCEPT ![o] = Tail(@)]
  /\ UNCHANGED <<pending, sending>>

Next ==
  \/ \E i \in Input, f \in Flit : Accept(i, f)
  \/ \E i \in Input, o \in Output : Transfer(i, o)
  \/ \E o \in Output : Take(o)

CrossbarSpec == Init /\ [][Next]_<<pending, sending, received>>
=============================================================================
