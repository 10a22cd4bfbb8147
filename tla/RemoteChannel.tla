---------------------------- MODULE RemoteChannel ----------------------------
(***************************************************************************)
(* What connections between tiles promise: an input channel belongs to one *)
(* remote sender at a time; only its owner puts words in, never more than  *)
(* the channel's FIFO has room for; and it changes hands empty.            *)
(***************************************************************************)
EXTENDS Naturals

CONSTANTS Port, Source, Capacity, None

VARIABLES owner,   \* port -> the source it belongs to, or None
          words    \* port -> words sent to it and not yet read

Init ==
  /\ owner = [p \in Port |-> None]
  /\ words = [p \in Port |-> 0]

Grant(p, s) ==
  /\ owner[p] = None
  /\ words[p] = 0
  /\ owner' = [owner EXCEPT ![p] = s]
  /\ UNCHANGED words

(* A source may own several channels over time but one at a time.          *)
Put(p, s) ==
  /\ owner[p] = s
  /\ words[p] < Capacity
  /\ words' = [words EXCEPT ![p] = @ + 1]
  /\ UNCHANGED owner

Get(p) ==
  /\ words[p] > 0
  /\ words' = [words EXCEPT ![p] = @ - 1]
  /\ UNCHANGED owner

Release(p) ==
  /\ owner[p] # None
  /\ words[p] = 0
  /\ owner' = [owner EXCEPT ![p] = None]
  /\ UNCHANGED words

Next == \E p \in Port :
  \/ Get(p) \/ Release(p)
  \/ \E s \in Source : Grant(p, s) \/ Put(p, s)

ChannelSpec == Init /\ [][Next]_<<owner, words>>
=============================================================================
