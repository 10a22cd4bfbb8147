-------------------------- MODULE HierarchyProofs --------------------------
(***************************************************************************)
(* Proofs about MemoryHierarchy, and about DelayFIFO, through which its    *)
(* banks and main memory send.  Requests reach the miss handling logic     *)
(* and main memory as whole packets, one after the other: every queue on   *)
(* the way is a stream, in which each flit is a payload that is due or,    *)
(* when none is, the head of the next packet.  And each goes where the     *)
(* directories led when it was made.  Of DelayFIFO: the announcements of   *)
(* head flits are exact, whenever the two ends act.                        *)
(***************************************************************************)
EXTENDS MemoryHierarchy, DelayFIFO, SequenceTheorems, WellFoundedInduction, TLAPS

-----------------------------------------------------------------------------
(* Packets in a queue.                                                     *)
Fields == {"op", "addr", "eop", "scratchpad", "dest", "final", "epoch"}
IsFlit(f) == Fields \subseteq DOMAIN f
IsSeq(q) == Len(q) \in Nat /\ q = SubSeq(q, 1, Len(q))

(* The payloads of a request.                                              *)
PayloadDue(op) == IF op = "STORE_LINE" THEN LineWords ELSE IF op \in DirectoryUpdates THEN 1 ELSE 0

(* A flit that comes when n payloads are due, after which m are.           *)
Follows(n, f, m) ==
  /\ IsFlit(f) /\ f.eop = (m = 0)
  /\ \/ n > 0 /\ f.op = "PAYLOAD" /\ m = n - 1
     \/ n = 0 /\ f.op \in Supported /\ m = PayloadDue(f.op)

(* The flits of a queue, before which n payloads are due and m after it.   *)
Stream(q, n, m) ==
  /\ IsSeq(q)
  /\ \E left \in [0 .. Len(q) -> Nat] :
       /\ left[0] = n /\ left[Len(q)] = m
       /\ \A k \in 1 .. Len(q) : Follows(left[k - 1], q[k], left[k])
       /\ \A k \in 0 .. Len(q) : \A j \in 0 .. left[k] :
            k + j <= Len(q) => left[k + j] = left[k] - j

-----------------------------------------------------------------------------
(* What is known of a sequence.                                            *)
Elements(q) == {q[k] : k \in 1 .. Len(q)}

(* A sequence consists of its elements.                                    *)
LEMMA SeqOfElements ==
  ASSUME NEW q, IsSeq(q)
  PROVE  q \in Seq(Elements(q)) /\ (q = <<>> <=> Len(q) = 0) /\ DOMAIN q = 1 .. Len(q)
<1>1. \A k \in 1 .. Len(q) : q[k] \in Elements(q)
  BY DEF Elements
<1>2. SubSeq(q, 1, Len(q)) \in Seq(Elements(q))
  BY <1>1, SubSeqProperties DEF IsSeq
<1>3. q \in Seq(Elements(q))
  BY <1>2 DEF IsSeq
<1>. QED BY <1>3, EmptySeq, LenProperties

(* Members of Seq(S) are sequences in the sense above.                     *)
LEMMA SeqIsSeq ==
  ASSUME NEW S, NEW q \in Seq(S)
  PROVE  IsSeq(q)
BY LenProperties, SubSeqFull DEF IsSeq

(* The empty sequence is one, too.                                         *)
LEMMA EmptyIsSeq == IsSeq(<<>>) /\ Len(<<>>) = 0
BY EmptySeq, SeqIsSeq

(* What Append adds and keeps.                                             *)
LEMMA SeqAppend ==
  ASSUME NEW q, IsSeq(q), NEW f
  PROVE  /\ IsSeq(Append(q, f)) /\ Len(Append(q, f)) = Len(q) + 1 /\ Len(q) \in Nat
         /\ \A k \in 1 .. Len(q) : Append(q, f)[k] = q[k]
         /\ Append(q, f)[Len(q) + 1] = f
<1> DEFINE S == Elements(q) \cup {f}
<1>1. q \in Seq(S) /\ f \in S
  BY SeqOfElements, SeqMonotonic
<1> HIDE DEF S
<1>2. Append(q, f) \in Seq(S)
  BY <1>1, AppendProperties
<1>3. IsSeq(Append(q, f))
  BY <1>2, SeqIsSeq
<1>4. Len(q) \in Nat
  BY <1>1, LenProperties
<1>. QED BY <1>1, <1>3, <1>4, AppendProperties

(* What Tail removes and keeps.                                            *)
LEMMA SeqTail ==
  ASSUME NEW q, IsSeq(q), q # <<>>
  PROVE  /\ IsSeq(Tail(q)) /\ Len(Tail(q)) = Len(q) - 1 /\ Len(q) \in Nat \ {0}
         /\ Head(q) = q[1]
         /\ \A k \in 1 .. Len(q) - 1 : Tail(q)[k] = q[k + 1]
<1>1. q \in Seq(Elements(q))
  BY SeqOfElements
<1>2. Tail(q) \in Seq(Elements(q))
  BY <1>1, HeadTailProperties
<1>3. IsSeq(Tail(q))
  BY <1>2, SeqIsSeq
<1>4. Len(q) \in Nat \ {0}
  BY <1>1, EmptySeq
<1>5. Len(Tail(q)) = Len(q) - 1 /\ \A k \in 1 .. Len(Tail(q)) : Tail(q)[k] = q[k + 1]
  BY <1>1, HeadTailProperties
<1>6. Head(q) = q[1]
  BY <1>1
<1>. QED BY <1>3, <1>4, <1>5, <1>6

(* What is left after the first n elements.                                *)
LEMMA SeqRest ==
  ASSUME NEW q, IsSeq(q), NEW n \in 0 .. Len(q)
  PROVE  /\ IsSeq(SubSeq(q, n + 1, Len(q))) /\ Len(SubSeq(q, n + 1, Len(q))) = Len(q) - n
         /\ \A k \in 1 .. Len(q) - n : SubSeq(q, n + 1, Len(q))[k] = q[k + n]
<1>1. Len(q) \in Nat /\ n + 1 \in Int
  BY DEF IsSeq
<1>2. \A k \in n + 1 .. Len(q) : q[k] \in Elements(q)
  BY <1>1 DEF Elements
<1>3. /\ SubSeq(q, n + 1, Len(q)) \in Seq(Elements(q))
      /\ Len(SubSeq(q, n + 1, Len(q))) = IF n + 1 <= Len(q) THEN Len(q) - (n + 1) + 1 ELSE 0
      /\ \A i \in 1 .. Len(q) - (n + 1) + 1 : SubSeq(q, n + 1, Len(q))[i] = q[n + 1 + i - 1]
  BY <1>1, <1>2, SubSeqProperties
<1>4. IsSeq(SubSeq(q, n + 1, Len(q)))
  BY <1>3, SeqIsSeq
<1>5. Len(SubSeq(q, n + 1, Len(q))) = Len(q) - n
  BY <1>1, <1>3
<1>6. ASSUME NEW k \in 1 .. Len(q) - n PROVE SubSeq(q, n + 1, Len(q))[k] = q[k + n]
  <2>1. k \in 1 .. Len(q) - (n + 1) + 1 /\ n + 1 + k - 1 = k + n
    BY <1>1
  <2>. QED BY <1>3, <2>1
<1>. QED BY <1>4, <1>5, <1>6

-----------------------------------------------------------------------------
(* Streams.                                                                *)
LEMMA StreamEmpty ==
  ASSUME NEW n \in Nat
  PROVE  Stream(<<>>, n, n)
<1> DEFINE left == [k \in 0 .. 0 |-> n]
<1>1. left \in [0 .. Len(<<>>) -> Nat] /\ left[0] = n /\ left[Len(<<>>)] = n
  BY EmptyIsSeq
<1>2. \A k \in 0 .. 0 : \A j \in 0 .. left[k] : k + j <= 0 => left[k + j] = left[k] - j
  OBVIOUS
<1> HIDE DEF left
<1>. QED BY <1>1, <1>2, EmptyIsSeq DEF Stream

(* A stream goes on with a flit that is due.                               *)
LEMMA StreamAppend ==
  ASSUME NEW q, NEW n, NEW m, Stream(q, n, m), NEW f, NEW l \in Nat, Follows(m, f, l)
  PROVE  Stream(Append(q, f), n, l)
<1>1. IsSeq(q) /\ Len(q) \in Nat
  BY DEF Stream, IsSeq
<1>2. PICK left \in [0 .. Len(q) -> Nat] :
       /\ left[0] = n /\ left[Len(q)] = m
       /\ \A k \in 1 .. Len(q) : Follows(left[k - 1], q[k], left[k])
       /\ \A k \in 0 .. Len(q) : \A j \in 0 .. left[k] :
            k + j <= Len(q) => left[k + j] = left[k] - j
  BY DEF Stream
<1> DEFINE more == [k \in 0 .. Len(q) + 1 |-> IF k = Len(q) + 1 THEN l ELSE left[k]]
<1>3. /\ more \in [0 .. Len(q) + 1 -> Nat]
      /\ more[Len(q) + 1] = l /\ \A k \in 0 .. Len(q) : more[k] = left[k]
  BY <1>1
<1> HIDE DEF more
<1>4. ASSUME NEW k \in 1 .. Len(q) + 1 PROVE Follows(more[k - 1], Append(q, f)[k], more[k])
  <2>1. CASE k = Len(q) + 1
    BY <1>1, <1>2, <1>3, <2>1, SeqAppend
  <2>2. CASE k \in 1 .. Len(q)
    <3>1. k - 1 \in 0 .. Len(q) /\ k \in 0 .. Len(q)
      BY <1>1, <2>2
    <3>2. Append(q, f)[k] = q[k]
      BY <1>1, <2>2, SeqAppend
    <3>3. more[k - 1] = left[k - 1] /\ more[k] = left[k]
      BY <1>3, <3>1
    <3>. QED BY <1>2, <2>2, <3>2, <3>3
  <2>. QED BY <1>1, <2>1, <2>2
<1>5. ASSUME NEW k \in 0 .. Len(q) + 1, NEW j \in 0 .. more[k], k + j <= Len(q) + 1
      PROVE  more[k + j] = more[k] - j
  <2>1. j \in Nat /\ more[k] \in Nat
    BY <1>1, <1>3
  <2>2. CASE j = 0
    BY <2>1, <2>2
  <2>3. CASE k + j \in 0 .. Len(q)
    BY <1>1, <1>2, <1>3, <2>1, <2>3
  <2>4. CASE k + j = Len(q) + 1 /\ j > 0
    <3>1. k \in 0 .. Len(q) /\ j - 1 \in 0 .. left[k] /\ k + (j - 1) = Len(q)
      BY <1>1, <1>3, <2>1, <2>4
    <3>2. m = left[k] - (j - 1)
      <4>1. k + (j - 1) <= Len(q)
        BY <1>1, <3>1
      <4>2. left[k + (j - 1)] = left[k] - (j - 1)
        BY <1>2, <3>1, <4>1
      <4>. QED BY <1>2, <3>1, <4>2
    <3>3. left[k] \in Nat /\ left[k] = more[k] /\ left[k] >= j
      BY <1>2, <1>3, <3>1, <2>1
    <3>4. l = m - 1
      BY <3>1, <3>2, <3>3, <2>1 DEF Follows
    <3>. QED BY <1>3, <2>1, <2>4, <3>2, <3>3, <3>4
  <2>5. k + j \in 0 .. Len(q) \/ (k + j = Len(q) + 1 /\ j > 0) \/ j = 0
    BY <1>1, <1>5, <2>1
  <2>. QED BY <2>2, <2>3, <2>4, <2>5
<1>6. IsSeq(Append(q, f)) /\ Len(Append(q, f)) = Len(q) + 1
  BY <1>1, SeqAppend
<1>7. more[0] = n
  BY <1>1, <1>2, <1>3
<1>. QED BY <1>3, <1>4, <1>5, <1>6, <1>7 DEF Stream

(* What is left of a stream after some of its flits.                       *)
LEMMA StreamRest ==
  ASSUME NEW q, NEW m, NEW left \in [0 .. Len(q) -> Nat], IsSeq(q),
         left[Len(q)] = m,
         \A k \in 1 .. Len(q) : Follows(left[k - 1], q[k], left[k]),
         \A k \in 0 .. Len(q) : \A j \in 0 .. left[k] :
           k + j <= Len(q) => left[k + j] = left[k] - j,
         NEW n \in 0 .. Len(q), NEW r, IsSeq(r), Len(r) = Len(q) - n,
         \A k \in 1 .. Len(q) - n : r[k] = q[k + n]
  PROVE  Stream(r, left[n], m)
<1>1. Len(q) \in Nat
  BY DEF IsSeq
<1> DEFINE rest == [k \in 0 .. Len(q) - n |-> left[k + n]]
<1>2. /\ rest \in [0 .. Len(r) -> Nat] /\ rest[0] = left[n] /\ rest[Len(r)] = m
      /\ \A k \in 0 .. Len(r) : rest[k] = left[k + n]
  BY <1>1
<1> HIDE DEF rest
<1>3. ASSUME NEW k \in 1 .. Len(r) PROVE Follows(rest[k - 1], r[k], rest[k])
  <2>1. k + n \in 1 .. Len(q) /\ k - 1 \in 0 .. Len(r) /\ (k - 1) + n = (k + n) - 1 /\ k \in 0 .. Len(r)
    BY <1>1
  <2>2. rest[k - 1] = left[(k + n) - 1] /\ rest[k] = left[k + n] /\ r[k] = q[k + n]
    BY <1>1, <1>2, <2>1
  <2>. QED BY <2>1, <2>2
<1>4. ASSUME NEW k \in 0 .. Len(r), NEW j \in 0 .. rest[k], k + j <= Len(r)
      PROVE  rest[k + j] = rest[k] - j
  <2>1. k + n \in 0 .. Len(q) /\ j \in Nat /\ k + j \in 0 .. Len(r) /\ (k + n) + j <= Len(q)
    BY <1>1, <1>2, <1>4
  <2>2. rest[k] = left[k + n] /\ rest[k + j] = left[(k + n) + j]
    BY <1>1, <1>2, <2>1
  <2>. QED BY <2>1, <2>2
<1>. QED BY <1>2, <1>3, <1>4 DEF Stream

(* The first flit of a stream is due; the rest is a stream.                *)
LEMMA StreamTail ==
  ASSUME NEW q, NEW n, NEW m, Stream(q, n, m), q # <<>>
  PROVE  \E l \in Nat : Follows(n, Head(q), l) /\ Stream(Tail(q), l, m)
<1>1. IsSeq(q)
  BY DEF Stream
<1>2. PICK left \in [0 .. Len(q) -> Nat] :
       /\ left[0] = n /\ left[Len(q)] = m
       /\ \A k \in 1 .. Len(q) : Follows(left[k - 1], q[k], left[k])
       /\ \A k \in 0 .. Len(q) : \A j \in 0 .. left[k] :
            k + j <= Len(q) => left[k + j] = left[k] - j
  BY DEF Stream
<1>3. /\ IsSeq(Tail(q)) /\ Len(Tail(q)) = Len(q) - 1 /\ Len(q) \in Nat \ {0} /\ Head(q) = q[1]
      /\ \A k \in 1 .. Len(q) - 1 : Tail(q)[k] = q[k + 1]
  BY <1>1, SeqTail
<1>4. 1 \in 0 .. Len(q) /\ 1 \in 1 .. Len(q) /\ 1 - 1 = 0
  BY <1>3
<1>5. Follows(n, Head(q), left[1]) /\ left[1] \in Nat
  BY <1>2, <1>3, <1>4
<1>6. Stream(Tail(q), left[1], m)
  BY <1>1, <1>2, <1>3, <1>4, StreamRest
<1>. QED BY <1>5, <1>6

(* A packet at the front of a stream.                                      *)
LEMMA StreamPacket ==
  ASSUME NEW q, NEW m, Stream(q, 0, m), q # <<>>, NEW size, size = PayloadDue(q[1].op) + 1, size <= Len(q)
  PROVE  /\ size \in Nat \ {0} /\ q[1].op \in Supported
         /\ \A k \in 1 .. size : /\ IsFlit(q[k]) /\ q[k].eop = (k = size)
                                 /\ k > 1 => q[k].op = "PAYLOAD"
         /\ Stream(SubSeq(q, size + 1, Len(q)), 0, m)
<1>1. IsSeq(q)
  BY DEF Stream
<1>2. PICK left \in [0 .. Len(q) -> Nat] :
       /\ left[0] = 0 /\ left[Len(q)] = m
       /\ \A k \in 1 .. Len(q) : Follows(left[k - 1], q[k], left[k])
       /\ \A k \in 0 .. Len(q) : \A j \in 0 .. left[k] :
            k + j <= Len(q) => left[k + j] = left[k] - j
  BY DEF Stream
<1>3. Len(q) \in Nat \ {0}
  BY <1>1, SeqTail
<1>4. Follows(0, q[1], left[1]) /\ left[1] \in Nat
  BY <1>2, <1>3
<1>5. q[1].op \in Supported /\ left[1] = size - 1 /\ size \in Nat \ {0}
  BY <1>4, HierarchyAssumption DEF Follows, PayloadDue
<1>6. ASSUME NEW k \in 1 .. size PROVE left[k] = size - k
  <2>1. k - 1 \in 0 .. left[1] /\ 1 + (k - 1) = k /\ k <= Len(q) /\ 1 \in 0 .. Len(q)
    BY <1>3, <1>5
  <2>. QED BY <1>2, <1>5, <2>1
<1>7. ASSUME NEW k \in 1 .. size
      PROVE  IsFlit(q[k]) /\ q[k].eop = (k = size) /\ (k > 1 => q[k].op = "PAYLOAD")
  <2>1. Follows(left[k - 1], q[k], left[k]) /\ left[k] = size - k
    BY <1>2, <1>3, <1>5, <1>6
  <2>2. q[k].eop = (size - k = 0) /\ IsFlit(q[k])
    BY <2>1 DEF Follows
  <2>3. ASSUME k > 1 PROVE left[k - 1] > 0
    BY <1>5, <1>6, <2>3
  <2>4. k > 1 => q[k].op = "PAYLOAD"
    BY <2>1, <2>3 DEF Follows
  <2>5. (size - k = 0) = (k = size)
    BY <1>5
  <2>. QED BY <2>2, <2>4, <2>5
<1>8. left[size] = 0
  BY <1>5, <1>6
<1>9. size \in 0 .. Len(q)
  BY <1>3, <1>5
<1>10. Stream(SubSeq(q, size + 1, Len(q)), 0, m)
  <2> DEFINE r == SubSeq(q, size + 1, Len(q))
  <2>1. /\ IsSeq(r) /\ Len(r) = Len(q) - size
        /\ \A k \in 1 .. Len(q) - size : r[k] = q[k + size]
    BY <1>1, <1>9, SeqRest
  <2> HIDE DEF r
  <2>2. Stream(r, left[size], m)
    BY <1>1, <1>2, <1>9, <2>1, StreamRest
  <2>. QED BY <1>8, <2>2 DEF r
<1>. QED BY <1>5, <1>7, <1>10

-----------------------------------------------------------------------------
(* The invariant.                                                          *)
DomainsOK ==
  /\ DOMAIN sending = Banks /\ requests \in [Banks -> Nat]
  /\ DOMAIN bus = Tiles /\ DOMAIN requestsFromBanks = Tiles /\ DOMAIN requestHeader = Tiles
  /\ DOMAIN newLocalRequest = Tiles /\ DOMAIN requestDestination = Tiles
  /\ DOMAIN oRequestToNetwork = Tiles /\ DOMAIN remote = Tiles
  /\ DOMAIN route = Destinations
  /\ DOMAIN inputQueue = Controllers /\ DOMAIN activeRequest = Controllers

(* A bank sends one packet at a time, whose rest it has; on the bus is one *)
(* that has begun.                                                         *)
HeadOps == Supported \cup DirectoryUpdates
PacketOK(b) ==
  LET q == sending[b]
  IN  /\ IsSeq(q)
      /\ \A k \in 1 .. Len(q) :
           /\ IsFlit(q[k]) /\ q[k].eop = (k = Len(q))
           /\ k > 1 \/ bus[TileOf[b]] = b => q[k].op = "PAYLOAD"
      /\ q # <<>> /\ bus[TileOf[b]] # b =>
           /\ q[1].op \in HeadOps /\ Len(q) = PayloadDue(q[1].op) + 1
           /\ q[1].op \in DirectoryUpdates => ~q[1].scratchpad
      /\ bus[TileOf[b]] = b => q # <<>>

(* What is still to come to the miss handling logic, and what it waits for. *)
ToCome(t) == IF bus[t] = Free THEN 0 ELSE Len(sending[bus[t]])
AtLogic(t) ==
  CASE requestsFromBanks[t] = None -> ToCome(t)
    [] requestsFromBanks[t] # None /\ requestsFromBanks[t].op = "PAYLOAD" -> ToCome(t) + 1
    [] OTHER -> 0

LogicOK(t) ==
  /\ bus[t] # Free => bus[t] \in Banks /\ TileOf[bus[t]] = t
  /\ newLocalRequest[t] = (AtLogic(t) = 0)
  /\ requestHeader[t] # None => AtLogic(t) = 1
  /\ LET f == requestsFromBanks[t]
     IN  f # None =>
           /\ IsFlit(f) /\ f.eop = (ToCome(t) = 0)
           /\ \/ f.op = "PAYLOAD"
              \/ f.op \in HeadOps /\ ToCome(t) = PayloadDue(f.op)
           /\ f.op \in DirectoryUpdates => ~f.scratchpad

(* The payloads that the packet last forwarded still lacks: none are       *)
(* forwarded of an update.                                                 *)
OutLeft(t) == IF requestHeader[t] = None THEN AtLogic(t) ELSE 0

(* The flits of a packet go one way.                                       *)
OneWay(t) ==
  LET q == oRequestToNetwork[t]
  IN  /\ q # <<>> => requestDestination[t] = q[Len(q)].dest
      /\ \A k \in 2 .. Len(q) : q[k].op = "PAYLOAD" => q[k].dest = q[k - 1].dest

NextDest(t) ==
  IF oRequestToNetwork[t] = <<>> THEN requestDestination[t] ELSE Head(oRequestToNetwork[t]).dest

(* The queues at the end of a route.                                       *)
Queue(d) == IF d \in Controllers THEN inputQueue[d] ELSE remote[d]
Begun(d) ==
  IF d \in Controllers
  THEN IF activeRequest[d].op = "STORE_LINE" THEN LineWords - activeRequest[d].done ELSE 0
  ELSE 0

ActiveOK(c) ==
  activeRequest[c] # Idle =>
    /\ {"op", "done"} \subseteq DOMAIN activeRequest[c]
    /\ activeRequest[c].op \in Supported /\ activeRequest[c].done \in 0 .. LineWords - 1

(* left: the payloads that are due where a tile's requests leave it.       *)
RouteOK(left, d) ==
  /\ route[d] \in Tiles \cup {Free}
  /\ Stream(Queue(d), Begun(d), IF route[d] = Free THEN 0 ELSE left[route[d]])
  /\ route[d] # Free => left[route[d]] > 0 /\ NextDest(route[d]) = d

OutOK(left, t) ==
  /\ Stream(oRequestToNetwork[t], left[t], OutLeft(t))
  /\ left[t] > 0 /\ NextDest(t) \in Destinations => route[NextDest(t)] = t

RoutesOK(left) == (\A t \in Tiles : OutOK(left, t)) /\ \A d \in Destinations : RouteOK(left, d)

HInv ==
  /\ DomainsOK
  /\ \A b \in Banks : PacketOK(b)
  /\ \A t \in Tiles : LogicOK(t) /\ OneWay(t)
  /\ \A c \in Controllers : ActiveOK(c)
  /\ \E left \in [Tiles -> Nat] : RoutesOK(left)

-----------------------------------------------------------------------------
(* What a step leaves alone.                                               *)
LEMMA PacketFrame ==
  ASSUME NEW b \in Banks, PacketOK(b), sending'[b] = sending[b],
         (bus'[TileOf[b]] = b) <=> (bus[TileOf[b]] = b)
  PROVE  PacketOK(b)'
BY DEF PacketOK

(* The miss handling logic sees neither its input nor its bus change.      *)
LEMMA LogicFrame ==
  ASSUME NEW t \in Tiles, LogicOK(t), bus'[t] = bus[t], ToCome(t)' = ToCome(t),
         requestsFromBanks'[t] = requestsFromBanks[t], requestHeader'[t] = requestHeader[t],
         newLocalRequest'[t] = newLocalRequest[t]
  PROVE  LogicOK(t)' /\ OutLeft(t)' = OutLeft(t)
<1>1. AtLogic(t)' = AtLogic(t)
  BY DEF AtLogic
<1>. QED BY <1>1 DEF LogicOK, OutLeft

(* No flit leaves the tile.                                                *)
LEMMA WayFrame ==
  ASSUME NEW t, oRequestToNetwork'[t] = oRequestToNetwork[t],
         requestDestination'[t] = requestDestination[t]
  PROVE  (OneWay(t) => OneWay(t)') /\ NextDest(t)' = NextDest(t)
BY DEF OneWay, NextDest

(* No flit leaves the tile and the route it holds is not taken.            *)
LEMMA OutFrame ==
  ASSUME NEW left \in [Tiles -> Nat], RoutesOK(left), NEW t \in Tiles,
         oRequestToNetwork'[t] = oRequestToNetwork[t], requestDestination'[t] = requestDestination[t],
         OutLeft(t)' = OutLeft(t), \A d \in Destinations : route[d] = t => route'[d] = t
  PROVE  OutOK(left, t)'
<1>1. NextDest(t)' = NextDest(t)
  BY WayFrame
<1>. QED BY <1>1 DEF RoutesOK, OutOK

(* Nothing arrives at a place and nothing is taken there.                  *)
LEMMA RouteFrame ==
  ASSUME NEW left \in [Tiles -> Nat], RoutesOK(left), NEW d \in Destinations,
         Queue(d)' = Queue(d), Begun(d)' = Begun(d), route'[d] = route[d],
         \A t \in Tiles : NextDest(t)' = NextDest(t)
  PROVE  RouteOK(left, d)'
BY DEF RoutesOK, RouteOK

(* What happens before a flit is forwarded leaves the queues alone.        *)
LEMMA Upstream ==
  ASSUME HInv, DomainsOK', \A b \in Banks : PacketOK(b)',
         \A t \in Tiles : LogicOK(t)' /\ OutLeft(t)' = OutLeft(t),
         UNCHANGED <<requestDestination, oRequestToNetwork, route, inputQueue, remote, activeRequest>>
  PROVE  HInv'
<1>1. PICK left \in [Tiles -> Nat] : RoutesOK(left)
  BY DEF HInv
<1>2. \A t \in Tiles : OneWay(t)' /\ NextDest(t)' = NextDest(t)
  BY WayFrame DEF HInv
<1>3. \A t \in Tiles : OutOK(left, t)'
  BY <1>1, OutFrame
<1>4. \A d \in Destinations : Queue(d)' = Queue(d) /\ Begun(d)' = Begun(d)
  BY DEF Queue, Begun
<1>5. \A d \in Destinations : RouteOK(left, d)'
  BY <1>1, <1>2, <1>4, RouteFrame
<1>6. \A c \in Controllers : ActiveOK(c)'
  BY DEF HInv, ActiveOK
<1>7. RoutesOK(left)'
  BY <1>3, <1>5 DEF RoutesOK
<1>. QED BY <1>1, <1>2, <1>6, <1>7 DEF HInv

-----------------------------------------------------------------------------
(* The steps.                                                              *)
LEMMA HInvStarts ==
  ASSUME Init
  PROVE  HInv
<1>1. DomainsOK
  BY DEF Init, MHLInit, MemoryInit, HandlersInit, DomainsOK, Destinations
<1>2. \A b \in Banks : PacketOK(b)
  BY HierarchyAssumption, EmptyIsSeq DEF Init, PacketOK
<1>3. /\ \A t \in Tiles : /\ oRequestToNetwork[t] = <<>> /\ AtLogic(t) = 0 /\ OutLeft(t) = 0 /\ bus[t] = Free
                          /\ requestsFromBanks[t] = None /\ requestHeader[t] = None /\ newLocalRequest[t] = TRUE
                          /\ remote[t] = <<>>
      /\ \A c \in Controllers : activeRequest[c] = Idle /\ inputQueue[c] = <<>>
      /\ \A d \in Destinations : route[d] = Free
  BY DEF Init, MHLInit, MemoryInit, HandlersInit, AtLogic, ToCome, OutLeft
<1>4. \A t \in Tiles : LogicOK(t) /\ OneWay(t)
  <2> SUFFICES ASSUME NEW t \in Tiles PROVE LogicOK(t) /\ OneWay(t)
    OBVIOUS
  <2>1. newLocalRequest[t] = (AtLogic(t) = 0)
    BY <1>3
  <2>2. LogicOK(t)
    BY <1>3, <2>1 DEF LogicOK
  <2>. QED BY <1>3, <2>2, EmptyIsSeq DEF OneWay
<1>5. \A c \in Controllers : ActiveOK(c)
  BY <1>3 DEF ActiveOK
<1>6. \E left \in [Tiles -> Nat] : RoutesOK(left)
  <2> DEFINE left == [t \in Tiles |-> 0]
  <2>1. left \in [Tiles -> Nat] /\ \A t \in Tiles : left[t] = 0
    OBVIOUS
  <2> HIDE DEF left
  <2>2. Stream(<<>>, 0, 0)
    BY StreamEmpty
  <2>3. \A t \in Tiles : OutOK(left, t)
    BY <1>3, <2>1, <2>2 DEF OutOK
  <2>4. \A d \in Destinations : Queue(d) = <<>> /\ Begun(d) = 0
    BY <1>3 DEF Queue, Begun, Destinations, Idle
  <2>5. \A d \in Destinations : RouteOK(left, d)
    BY <1>3, <2>2, <2>4 DEF RouteOK
  <2>. QED BY <2>1, <2>3, <2>5 DEF RoutesOK
<1>. QED BY <1>1, <1>2, <1>4, <1>5, <1>6 DEF HInv

(* A whole packet, whose head carries the translation of its address.      *)
WholePacket(q) ==
  /\ IsSeq(q) /\ q # <<>> /\ q[1].op \in HeadOps /\ Len(q) = PayloadDue(q[1].op) + 1
  /\ q[1].op \in DirectoryUpdates => ~q[1].scratchpad
  /\ \A k \in 1 .. Len(q) : /\ IsFlit(q[k]) /\ q[k].eop = (k = Len(q))
                            /\ k > 1 => q[k].op = "PAYLOAD"

Carries(b, r, q) ==
  /\ q[1].addr = r.addr /\ q[1].epoch = epoch
  /\ q[1].final = getAddressTranslation(TileOf[b], r.addr)

(* A new packet, on its own or for another tile, waits for the bus.        *)
LEMMA PacketMade ==
  ASSUME HInv, NEW b \in Banks, sending[b] = <<>>, NEW q, sending' = [sending EXCEPT ![b] = q],
         WholePacket(q), UNCHANGED <<bus, requestsFromBanks, requestHeader, newLocalRequest>>
  PROVE  /\ \A c \in Banks : PacketOK(c)'
         /\ \A t \in Tiles : LogicOK(t)' /\ OutLeft(t)' = OutLeft(t)
         /\ DOMAIN sending' = Banks
<1>1. bus[TileOf[b]] # b /\ TileOf[b] \in Tiles
  BY HierarchyAssumption DEF HInv, PacketOK
<1>2. sending'[b] = q /\ \A c \in Banks : c # b => sending'[c] = sending[c]
  BY DEF HInv, DomainsOK
<1>3. PacketOK(b)'
  BY <1>1, <1>2 DEF PacketOK, WholePacket
<1>4. ASSUME NEW c \in Banks, c # b PROVE PacketOK(c)'
  BY <1>2, <1>4, PacketFrame DEF HInv
<1>5. ASSUME NEW t \in Tiles PROVE LogicOK(t)' /\ OutLeft(t)' = OutLeft(t)
  <2>1. LogicOK(t)
    BY DEF HInv
  <2>2. bus[t] # Free => bus[t] # b /\ bus[t] \in Banks
    BY <1>1, <2>1 DEF LogicOK
  <2>3. ToCome(t)' = ToCome(t)
    BY <1>2, <2>2 DEF ToCome
  <2>. QED BY <2>1, <2>3, LogicFrame
<1>6. DOMAIN sending' = Banks
  BY DEF HInv, DomainsOK
<1>. QED BY <1>3, <1>4, <1>5, <1>6

(* The packet of a request: a head flit, which carries the translation of  *)
(* its address, and the payloads that are due.                             *)
LEMMA PacketShape ==
  ASSUME NEW b, NEW r, r.op \in HeadOps, NEW version, NEW q, q = Packet(b, r, version)
  PROVE  WholePacket(q) /\ Carries(b, r, q)
<1>. SUFFICES
       /\ IsSeq(q) /\ q # <<>> /\ q[1].op \in HeadOps /\ Len(q) = PayloadDue(q[1].op) + 1
       /\ q[1].op \in DirectoryUpdates => ~q[1].scratchpad
       /\ \A k \in 1 .. Len(q) : /\ IsFlit(q[k]) /\ q[k].eop = (k = Len(q))
                                 /\ k > 1 => q[k].op = "PAYLOAD"
       /\ q[1].addr = r.addr /\ q[1].epoch = epoch
       /\ q[1].final = getAddressTranslation(TileOf[b], r.addr)
  BY DEF WholePacket, Carries
<1>1. CASE r.op = "FETCH_LINE"
  <2>1. PICK f : f = Flit(b, r.op, r.addr, NoValue, TRUE, NoValue)
    OBVIOUS
  <2>2. q = <<f>>
    BY <1>1, <2>1 DEF Packet
  <2>3. /\ IsFlit(f) /\ f.eop = TRUE /\ f.op = r.op /\ f.addr = r.addr /\ f.epoch = epoch
        /\ f.final = getAddressTranslation(TileOf[b], r.addr)
    BY <2>1 DEF Flit, IsFlit, Fields
  <2>4. q \in Seq({f}) /\ Len(q) = 1 /\ q[1] = f /\ q # <<>>
    BY <2>2
  <2>5. IsSeq(q)
    BY <2>4, SeqIsSeq
  <2>6. PayloadDue(f.op) = 0 /\ f.op \in HeadOps /\ f.op \notin DirectoryUpdates
    BY <1>1, <2>3 DEF PayloadDue, DirectoryUpdates, HeadOps, Supported
  <2>7. ASSUME NEW k \in 1 .. Len(q)
        PROVE  IsFlit(q[k]) /\ q[k].eop = (k = Len(q)) /\ (k > 1 => q[k].op = "PAYLOAD")
    <3>1. k = 1 /\ Len(q) = k
      BY <2>4
    <3>2. (k = Len(q)) = TRUE
      BY <3>1
    <3>3. q[k] = f /\ ~(k > 1)
      BY <2>4, <3>1
    <3>. QED BY <2>3, <3>2, <3>3
  <2>8. Len(q) = PayloadDue(q[1].op) + 1 /\ q[1].op \in HeadOps /\ q[1].op \notin DirectoryUpdates
    BY <2>3, <2>4, <2>6
  <2>. QED BY <2>3, <2>4, <2>5, <2>7, <2>8
<1>2. CASE r.op = "STORE_LINE"
  <2>1. PICK f, S : /\ f = Flit(b, r.op, r.addr, NoValue, FALSE, version)
                    /\ S = {f} \cup {Flit(b, "PAYLOAD", 0, version, i = LineWords, NoValue) : i \in 1 .. LineWords}
    OBVIOUS
  <2> DEFINE words == [i \in 1 .. LineWords |-> Flit(b, "PAYLOAD", 0, version, i = LineWords, NoValue)]
  <2>2. q = <<f>> \o words
    BY <1>2, <2>1 DEF Packet
  <2>3. /\ IsFlit(f) /\ f.eop = FALSE /\ f.op = r.op /\ f.addr = r.addr /\ f.epoch = epoch
        /\ f.final = getAddressTranslation(TileOf[b], r.addr)
    BY <2>1 DEF Flit, IsFlit, Fields
  <2>4. words \in Seq(S) /\ Len(words) = LineWords
    <3>1. LineWords \in Nat /\ words \in [1 .. LineWords -> S]
      BY <2>1, HierarchyAssumption
    <3>. QED BY <3>1, SeqDef, LenProperties
  <2>5. \A i \in 1 .. LineWords :
          IsFlit(words[i]) /\ words[i].eop = (i = LineWords) /\ words[i].op = "PAYLOAD"
    BY DEF Flit, IsFlit, Fields
  <2> HIDE DEF words
  <2>6. <<f>> \in Seq(S) /\ Len(<<f>>) = 1 /\ <<f>>[1] = f
    BY <2>1
  <2>7. /\ q \in Seq(S) /\ Len(q) = 1 + LineWords
        /\ \A i \in 1 .. 1 + LineWords : q[i] = IF i <= 1 THEN <<f>>[i] ELSE words[i - 1]
    BY <2>2, <2>4, <2>6, ConcatProperties
  <2>8. IsSeq(q) /\ q # <<>> /\ q[1] = f
    <3>1. LineWords \in Nat
      BY HierarchyAssumption
    <3>2. IsSeq(q)
      BY <2>7, SeqIsSeq
    <3>3. q[1] = f
      BY <2>6, <2>7, <3>1
    <3>. QED BY <2>7, <3>1, <3>2, <3>3, EmptyIsSeq
  <2>9. PayloadDue(f.op) = LineWords /\ f.op \in HeadOps /\ f.op \notin DirectoryUpdates /\ LineWords \in Nat \ {0}
    BY <1>2, <2>3, HierarchyAssumption DEF PayloadDue, DirectoryUpdates, HeadOps, Supported
  <2>10. ASSUME NEW k \in 1 .. Len(q), k > 1
         PROVE  IsFlit(q[k]) /\ q[k].eop = (k = Len(q)) /\ q[k].op = "PAYLOAD"
    <3>1. k - 1 \in 1 .. LineWords /\ k \in 1 .. 1 + LineWords /\ ~(k <= 1)
      BY <2>7, <2>9, <2>10
    <3>2. q[k] = words[k - 1]
      BY <2>7, <3>1
    <3>3. IsFlit(q[k]) /\ q[k].eop = (k - 1 = LineWords) /\ q[k].op = "PAYLOAD"
      BY <2>5, <3>1, <3>2
    <3>4. (k - 1 = LineWords) = (k = Len(q))
      <4>1. k \in Nat /\ Len(q) = 1 + LineWords /\ LineWords \in Nat
        BY <2>7, <2>9, <2>10, <3>1
      <4>2. k - 1 = LineWords <=> k = Len(q)
        BY <4>1
      <4>. QED BY <4>2
    <3>. QED BY <3>3, <3>4
  <2>11. q[1].eop = (1 = Len(q)) /\ IsFlit(q[1])
    <3>1. (1 = Len(q)) = FALSE
      BY <2>7, <2>9
    <3>. QED BY <2>3, <2>8, <3>1
  <2>12. \A k \in 1 .. Len(q) : k = 1 \/ k > 1
    BY <2>7, <2>9
  <2>13. Len(q) = PayloadDue(q[1].op) + 1
    BY <2>7, <2>8, <2>9
  <2>. QED BY <2>3, <2>8, <2>9, <2>10, <2>11, <2>12, <2>13
<1>3. CASE r.op \in DirectoryUpdates
  <2>1. PICK f, g : /\ f = Flit(b, r.op, r.addr, NoValue, FALSE, NoValue)
                    /\ g = Flit(b, "PAYLOAD", 0, r.data, TRUE, NoValue)
    OBVIOUS
  <2>2. q = <<f, g>>
    BY <1>3, <2>1 DEF Packet, DirectoryUpdates
  <2>3. /\ IsFlit(f) /\ f.eop = FALSE /\ f.op = r.op /\ f.scratchpad = FALSE
        /\ f.addr = r.addr /\ f.epoch = epoch
        /\ f.final = getAddressTranslation(TileOf[b], r.addr)
        /\ IsFlit(g) /\ g.eop = TRUE /\ g.op = "PAYLOAD"
    BY <2>1 DEF Flit, IsFlit, Fields
  <2>4. q \in Seq({f, g}) /\ Len(q) = 2 /\ q[1] = f /\ q[2] = g
    BY <2>2
  <2>5. IsSeq(q) /\ q # <<>>
    <3>1. IsSeq(q)
      BY <2>4, SeqIsSeq
    <3>2. Len(q) # 0
      BY <2>4
    <3>. QED BY <3>1, <3>2, EmptyIsSeq
  <2>6. PayloadDue(f.op) = 1 /\ f.op \in HeadOps
    BY <1>3, <2>3 DEF PayloadDue, DirectoryUpdates, HeadOps
  <2>7. ASSUME NEW k \in 1 .. Len(q)
        PROVE  IsFlit(q[k]) /\ q[k].eop = (k = Len(q)) /\ (k > 1 => q[k].op = "PAYLOAD")
    <3>1. CASE k = 1
      <4>1. (k = Len(q)) = FALSE /\ ~(k > 1) /\ q[k] = f
        BY <2>4, <3>1
      <4>. QED BY <2>3, <4>1
    <3>2. CASE k = 2
      <4>1. (k = Len(q)) = TRUE
        BY <2>4, <3>2
      <4>. QED BY <2>3, <2>4, <3>2, <4>1
    <3>. QED BY <2>4, <3>1, <3>2
  <2>. QED BY <2>3, <2>4, <2>5, <2>6, <2>7
<1>. QED BY <1>1, <1>2, <1>3 DEF HeadOps, Supported

(* Banks make requests of whole packets (Request).                         *)
LEMMA RequestKeeps ==
  ASSUME HInv, NEW b \in Banks, Request(b)
  PROVE  HInv'
<1>1. PICK r, version :
        /\ r \in Offers(b, requests[b] + 1)
        /\ requests[b] < MaxRequests /\ sending[b] = <<>>
        /\ sending' = [sending EXCEPT ![b] = Packet(b, r, version)]
        /\ UNCHANGED <<mhlVars, memoryVars, bus, networkVars>>
  BY DEF Request
<1>2. r.op \in HeadOps
  <2>1. requests[b] + 1 \in 1 .. MaxRequests
    BY <1>1, HierarchyAssumption DEF HInv, DomainsOK
  <2>. QED BY <1>1, <2>1, HierarchyAssumption DEF HeadOps
<1>3. PICK q : q = Packet(b, r, version)
  OBVIOUS
<1>4. /\ \A c \in Banks : PacketOK(c)'
      /\ \A t \in Tiles : LogicOK(t)' /\ OutLeft(t)' = OutLeft(t)
      /\ DOMAIN sending' = Banks
  BY <1>1, <1>2, <1>3, PacketShape, PacketMade DEF mhlVars
<1>5. DomainsOK'
  <2>1. requests' \in [Banks -> Nat]
    BY DEF HInv, DomainsOK, Request
  <2>. QED BY <1>1, <1>4, <2>1 DEF HInv, DomainsOK, mhlVars, memoryVars, networkVars
<1>. QED BY <1>1, <1>4, <1>5, Upstream DEF mhlVars, memoryVars, networkVars

(* The bank that goes over a flit has sent one flit less.                  *)
LEMMA SendFlitKeeps ==
  ASSUME HInv, NEW b \in Banks, SendFlit(b)
  PROVE  HInv'
<1> DEFINE t == TileOf[b]  q == sending[b]
<1>1. t \in Tiles /\ Free \notin Banks
  BY HierarchyAssumption
<1>2. /\ q # <<>> /\ bus[t] \in {Free, b} /\ requestsFromBanks[t] = None
      /\ requestsFromBanks' = [requestsFromBanks EXCEPT ![t] = Head(q)]
      /\ bus' = [bus EXCEPT ![t] = IF Head(q).eop THEN Free ELSE b]
      /\ sending' = [sending EXCEPT ![b] = Tail(q)]
      /\ UNCHANGED <<requestHeader, newLocalRequest, requests>>
      /\ UNCHANGED <<requestDestination, oRequestToNetwork, route, inputQueue, remote, activeRequest>>
  BY DEF SendFlit, memoryVars, networkVars
<1>3. DomainsOK' /\ sending'[b] = Tail(q) /\ requestsFromBanks'[t] = Head(q)
  BY <1>1, <1>2 DEF HInv, DomainsOK
<1>4. bus'[t] = IF Head(q).eop THEN Free ELSE b
  BY <1>1, <1>2 DEF HInv, DomainsOK
<1>5. /\ IsSeq(Tail(q)) /\ Len(Tail(q)) = Len(q) - 1 /\ Len(q) \in Nat \ {0} /\ Head(q) = q[1]
      /\ \A k \in 1 .. Len(q) - 1 : Tail(q)[k] = q[k + 1]
  <2>1. IsSeq(q)
    BY DEF HInv, PacketOK
  <2>. QED BY <1>2, <2>1, SeqTail
<1>6. \A k \in 1 .. Len(q) : /\ IsFlit(q[k]) /\ q[k].eop = (k = Len(q))
                             /\ k > 1 \/ bus[t] = b => q[k].op = "PAYLOAD"
  BY DEF HInv, PacketOK
<1>7. bus[t] # b => /\ q[1].op \in HeadOps /\ Len(q) = PayloadDue(q[1].op) + 1
                    /\ q[1].op \in DirectoryUpdates => ~q[1].scratchpad
  BY <1>2 DEF HInv, PacketOK
<1>8. IsFlit(q[1]) /\ q[1].eop = (Len(q) = 1) /\ (bus[t] = b => q[1].op = "PAYLOAD")
  <2>1. 1 \in 1 .. Len(q)
    BY <1>5
  <2>2. (1 = Len(q)) = (Len(q) = 1)
    OBVIOUS
  <2>3. IsFlit(q[1]) /\ q[1].eop = (1 = Len(q)) /\ (bus[t] = b => q[1].op = "PAYLOAD")
    BY <1>6, <2>1
  <2>. QED BY <2>2, <2>3
<1>9. bus'[t] = IF Len(q) = 1 THEN Free ELSE b
  BY <1>4, <1>5, <1>8
<1>10. \A u \in Tiles \ {t} : bus'[u] = bus[u] /\ requestsFromBanks'[u] = requestsFromBanks[u]
  BY <1>2 DEF HInv, DomainsOK
<1>11. \A c \in Banks \ {b} : sending'[c] = sending[c]
  BY <1>2 DEF HInv, DomainsOK
<1> HIDE DEF t, q
<1>12. PacketOK(b)'
  <2> DEFINE r == Tail(q)
  <2>1. ASSUME NEW k \in 1 .. Len(r)
        PROVE  IsFlit(r[k]) /\ r[k].eop = (k = Len(r)) /\ r[k].op = "PAYLOAD"
    <3>1. k + 1 \in 1 .. Len(q) /\ k + 1 > 1 /\ r[k] = q[k + 1]
      BY <1>5
    <3>2. (k + 1 = Len(q)) = (k = Len(r))
      <4>1. k + 1 = Len(q) <=> k = Len(r)
        BY <1>5
      <4>. QED BY <4>1
    <3>3. IsFlit(q[k + 1]) /\ q[k + 1].eop = (k + 1 = Len(q)) /\ q[k + 1].op = "PAYLOAD"
      BY <1>6, <3>1
    <3>. QED BY <3>1, <3>2, <3>3
  <2>2. bus'[t] # b => Len(r) = 0
    BY <1>9, <1>5
  <2>3. bus'[t] = b => Len(r) # 0
    BY <1>1, <1>9, <1>5
  <2>4. IsSeq(r) /\ (r = <<>> <=> Len(r) = 0)
    BY <1>5, SeqOfElements
  <2> HIDE DEF r
  <2>5. sending'[b] = r /\ TileOf[b] = t
    BY <1>3 DEF r, t
  <2>. QED BY <2>1, <2>2, <2>3, <2>4, <2>5 DEF PacketOK
<1>13. ASSUME NEW c \in Banks, c # b PROVE PacketOK(c)'
  <2>1. (bus'[TileOf[c]] = c) <=> (bus[TileOf[c]] = c)
    <3>1. CASE TileOf[c] = t
      BY <1>1, <1>2, <1>9, <1>13, <3>1 DEF t
    <3>2. CASE TileOf[c] # t
      BY <1>10, <3>2, HierarchyAssumption
    <3>. QED BY <3>1, <3>2
  <2>. QED BY <1>11, <1>13, <2>1, PacketFrame DEF HInv
<1>14. ToCome(t)' = Len(q) - 1 /\ ToCome(t) = IF bus[t] = b THEN Len(q) ELSE 0
  <2>1. ToCome(t)' = Len(q) - 1
    <3>1. ToCome(t)' = IF bus'[t] = Free THEN 0 ELSE Len(sending'[bus'[t]])
      BY DEF ToCome
    <3>2. CASE Len(q) = 1
      BY <1>9, <3>1, <3>2
    <3>3. CASE Len(q) # 1
      <4>1. bus'[t] = b /\ b # Free
        BY <1>1, <1>9, <3>3
      <4>2. Len(sending'[b]) = Len(q) - 1
        BY <1>3, <1>5
      <4>. QED BY <3>1, <4>1, <4>2
    <3>. QED BY <3>2, <3>3
  <2>2. ToCome(t) = IF bus[t] = b THEN Len(q) ELSE 0
    BY <1>1, <1>2 DEF ToCome, t, q
  <2>. QED BY <2>1, <2>2
<1>15. LogicOK(t)' /\ OutLeft(t)' = OutLeft(t)
  <2>1. LogicOK(t) /\ AtLogic(t) = ToCome(t)
    BY <1>1, <1>2 DEF HInv, AtLogic, t
  <2>2. "PAYLOAD" \notin HeadOps /\ "NONE" \notin HeadOps
    BY DEF HeadOps, Supported, DirectoryUpdates
  <2>3. q[1].op = "PAYLOAD" \/ q[1].op \in HeadOps
    BY <1>7, <1>8
  <2>4. q[1] # None
    BY <2>2, <2>3 DEF None
  <2>5. requestsFromBanks'[t] = q[1]
    BY <1>3, <1>5
  <2>6. AtLogic(t)' = AtLogic(t)
    <3>1. CASE bus[t] = b
      <4>1. q[1].op = "PAYLOAD" /\ AtLogic(t) = Len(q)
        BY <1>8, <1>14, <2>1, <3>1
      <4>2. AtLogic(t)' = ToCome(t)' + 1
        BY <2>4, <2>5, <4>1 DEF AtLogic
      <4>. QED BY <1>5, <1>14, <4>1, <4>2
    <3>2. CASE bus[t] # b
      BY <1>7, <1>14, <2>1, <2>2, <2>4, <2>5, <3>2 DEF AtLogic
    <3>. QED BY <3>1, <3>2
  <2>7. q[1].eop = (ToCome(t)' = 0)
    <3>1. Len(q) = 1 <=> ToCome(t)' = 0
      BY <1>5, <1>14
    <3>. QED BY <1>8, <3>1
  <2>8. bus'[t] # Free => bus'[t] \in Banks /\ TileOf[bus'[t]] = t
    BY <1>9 DEF t
  <2>9. q[1].op = "PAYLOAD" \/ (q[1].op \in HeadOps /\ ToCome(t)' = PayloadDue(q[1].op))
    <3>1. CASE bus[t] = b
      BY <1>8, <3>1
    <3>2. CASE bus[t] # b
      <4>1. PayloadDue(q[1].op) \in Int
        BY HierarchyAssumption DEF PayloadDue
      <4>. QED BY <1>7, <1>14, <3>2, <4>1
    <3>. QED BY <3>1, <3>2
  <2>10. q[1].op \in DirectoryUpdates => ~q[1].scratchpad
    <3>1. "PAYLOAD" \notin DirectoryUpdates
      BY DEF DirectoryUpdates
    <3>. QED BY <1>7, <1>8, <3>1
  <2>11. LogicOK(t)'
    BY <1>2, <1>8, <2>1, <2>5, <2>6, <2>7, <2>8, <2>9, <2>10 DEF LogicOK
  <2>. QED BY <1>2, <2>6, <2>11 DEF OutLeft
<1>16. ASSUME NEW u \in Tiles, u # t PROVE LogicOK(u)' /\ OutLeft(u)' = OutLeft(u)
  <2>1. LogicOK(u)
    BY DEF HInv
  <2>2. bus[u] # Free => bus[u] \in Banks /\ bus[u] # b
    BY <1>16, <2>1 DEF LogicOK, t
  <2>3. ToCome(u)' = ToCome(u)
    BY <1>10, <1>11, <1>16, <2>2 DEF ToCome
  <2>. QED BY <1>2, <1>10, <1>16, <2>1, <2>3, LogicFrame
<1>. QED BY <1>2, <1>3, <1>12, <1>13, <1>15, <1>16, Upstream

(* What a tile still expects of a bank.                                    *)
LEMMA ToComeNat ==
  ASSUME HInv, NEW t \in Tiles
  PROVE  ToCome(t) \in Nat
<1>1. bus[t] # Free => bus[t] \in Banks
  BY DEF HInv, LogicOK
<1>2. \A b \in Banks : Len(sending[b]) \in Nat
  BY DEF HInv, PacketOK, IsSeq
<1>. QED BY <1>1, <1>2 DEF ToCome

(* An update of the directory is read, its head or its payload.            *)
LEMMA UpdateKeeps ==
  ASSUME HInv, NEW t \in Tiles, HoldsHeader(t) \/ UpdatesDirectory(t),
         UNCHANGED <<memoryVars, sending, requests, bus, networkVars>>
  PROVE  HInv'
<1> DEFINE f == requestsFromBanks[t]
<1>1. /\ f # None /\ LogicOK(t) /\ ToCome(t) \in Nat
      /\ requestsFromBanks' = [requestsFromBanks EXCEPT ![t] = None]
      /\ newLocalRequest' = [newLocalRequest EXCEPT ![t] = f.eop]
      /\ requestHeader' = [requestHeader EXCEPT ![t] = requestHeader'[t]]
      /\ UNCHANGED <<requestDestination, oRequestToNetwork>>
  <2>1. f # None /\ LogicOK(t) /\ ToCome(t) \in Nat
    BY ToComeNat DEF HInv, HoldsHeader, UpdatesDirectory, ReadsFlit
  <2>2. requestHeader' = [requestHeader EXCEPT ![t] = requestHeader'[t]]
    BY DEF HInv, DomainsOK, HoldsHeader, UpdatesDirectory
  <2>. QED BY <2>1, <2>2 DEF HoldsHeader, UpdatesDirectory, ReadsFlit
<1>2. DomainsOK' /\ requestsFromBanks'[t] = None /\ newLocalRequest'[t] = f.eop
  BY <1>1 DEF HInv, DomainsOK, memoryVars, networkVars
<1>3. \A u \in Tiles : ToCome(u)' = ToCome(u)
  BY DEF ToCome
<1>4. AtLogic(t)' = ToCome(t)
  BY <1>2, <1>3 DEF AtLogic
<1>5. "PAYLOAD" \notin DirectoryUpdates /\ "NONE" \notin DirectoryUpdates
  BY DEF DirectoryUpdates
<1>6. LogicOK(t)' /\ OutLeft(t)' = OutLeft(t)
  <2>1. CASE HoldsHeader(t)
    <3>1. f.op \in DirectoryUpdates /\ requestHeader[t] = None /\ requestHeader'[t] = f
      BY <2>1 DEF HoldsHeader, UpdatesHere, HInv, DomainsOK
    <3>2. ToCome(t) = 1 /\ f.eop = FALSE
      <4>1. ToCome(t) = PayloadDue(f.op) /\ f.eop = (ToCome(t) = 0)
        BY <1>1, <1>5, <3>1 DEF LogicOK
      <4>2. PayloadDue(f.op) = 1
        BY <3>1 DEF PayloadDue, DirectoryUpdates
      <4>3. (ToCome(t) = 0) = FALSE
        BY <4>1, <4>2
      <4>. QED BY <4>1, <4>2, <4>3
    <3>3. AtLogic(t) = 0
      BY <1>1, <1>5, <3>1 DEF AtLogic
    <3>4. newLocalRequest'[t] = (AtLogic(t)' = 0)
      <4>1. (AtLogic(t)' = 0) = FALSE
        BY <1>4, <3>2
      <4>. QED BY <1>2, <3>2, <4>1
    <3>5. AtLogic(t)' = 1 /\ bus' = bus
      BY <1>4, <3>2
    <3>6. LogicOK(t)'
      BY <1>1, <1>2, <3>4, <3>5 DEF LogicOK
    <3>7. OutLeft(t) = 0 /\ OutLeft(t)' = 0
      BY <1>1, <3>1, <3>3 DEF OutLeft
    <3>. QED BY <3>6, <3>7
  <2>2. CASE UpdatesDirectory(t)
    <3>1. requestHeader[t] # None /\ requestHeader'[t] = None
      BY <2>2 DEF UpdatesDirectory, HInv, DomainsOK
    <3>2. AtLogic(t) = 1
      BY <1>1, <3>1 DEF LogicOK
    <3>3. ToCome(t) = 0
      BY <1>1, <3>2 DEF AtLogic
    <3>4. f.eop = TRUE
      BY <1>1, <3>3 DEF LogicOK
    <3> HIDE DEF f
    <3>. QED BY <1>1, <1>2, <1>3, <1>4, <3>1, <3>3, <3>4 DEF LogicOK, OutLeft
  <2>. QED BY <2>1, <2>2
<1>7. ASSUME NEW u \in Tiles, u # t PROVE LogicOK(u)' /\ OutLeft(u)' = OutLeft(u)
  <2>1. /\ requestsFromBanks'[u] = requestsFromBanks[u] /\ newLocalRequest'[u] = newLocalRequest[u]
        /\ requestHeader'[u] = requestHeader[u]
    BY <1>1, <1>7 DEF HInv, DomainsOK
  <2>. QED BY <1>3, <2>1, LogicFrame DEF HInv
<1>8. \A b \in Banks : PacketOK(b)'
  BY PacketFrame DEF HInv
<1>. QED BY <1>1, <1>2, <1>6, <1>7, <1>8, Upstream DEF memoryVars, networkVars

(* Before an empty queue as much is due as after it.                       *)
LEMMA StreamOfNone ==
  ASSUME NEW n, NEW m, Stream(<<>>, n, m)
  PROVE  n = m
BY EmptyIsSeq DEF Stream

(* The miss handling logic forwards a flit after those of its packet.      *)
LEMMA ForwardsFlitKeeps ==
  ASSUME HInv, NEW t \in Tiles, ForwardsFlit(t),
         UNCHANGED <<memoryVars, sending, requests, bus, networkVars>>
  PROVE  HInv'
<1> DEFINE f == requestsFromBanks[t]  g == Redirected(t)  q == oRequestToNetwork[t]
<1>1. /\ f # None /\ LogicOK(t) /\ ToCome(t) \in Nat /\ requestHeader[t] = None
      /\ requestsFromBanks' = [requestsFromBanks EXCEPT ![t] = None]
      /\ newLocalRequest' = [newLocalRequest EXCEPT ![t] = f.eop]
      /\ oRequestToNetwork' = [oRequestToNetwork EXCEPT ![t] = Append(q, g)]
      /\ requestDestination' = [requestDestination EXCEPT ![t] = g.dest]
      /\ requestHeader' = requestHeader
  <2>1. f # None /\ LogicOK(t) /\ ToCome(t) \in Nat
    BY ToComeNat DEF HInv, ForwardsFlit, ReadsFlit
  <2>. QED BY <2>1 DEF ForwardsFlit, ReadsFlit
<1>2. f.op \notin DirectoryUpdates
  BY <1>1 DEF ForwardsFlit, UpdatesHere, LogicOK
<1>3. /\ DomainsOK' /\ requestsFromBanks'[t] = None /\ newLocalRequest'[t] = f.eop
      /\ oRequestToNetwork'[t] = Append(q, g) /\ requestDestination'[t] = g.dest
  BY <1>1 DEF HInv, DomainsOK, memoryVars, networkVars
<1>4. \A u \in Tiles \ {t} :
        /\ requestsFromBanks'[u] = requestsFromBanks[u] /\ newLocalRequest'[u] = newLocalRequest[u]
        /\ oRequestToNetwork'[u] = oRequestToNetwork[u]
        /\ requestDestination'[u] = requestDestination[u]
  BY <1>1 DEF HInv, DomainsOK
<1>5. \A u \in Tiles : ToCome(u)' = ToCome(u)
  BY DEF ToCome
<1>6. AtLogic(t)' = ToCome(t) /\ OutLeft(t)' = ToCome(t) /\ OutLeft(t) = AtLogic(t)
  BY <1>1, <1>3, <1>5 DEF AtLogic, OutLeft
<1>7. IsFlit(f) /\ f.eop = (ToCome(t) = 0)
      /\ (f.op = "PAYLOAD" \/ (f.op \in Supported /\ ToCome(t) = PayloadDue(f.op)))
  BY <1>1, <1>2 DEF LogicOK, HeadOps
<1>8. newLocalRequest[t] = (AtLogic(t) = 0)
  BY <1>1 DEF LogicOK
<1>9. "PAYLOAD" \notin Supported
  BY DEF Supported
<1> HIDE DEF f, g, q
<1>10. Follows(AtLogic(t), g, ToCome(t)) /\ (AtLogic(t) > 0 => g.dest = requestDestination[t])
       /\ (g.op = "PAYLOAD" => g.dest = requestDestination[t])
  <2>1. CASE f.op = "PAYLOAD"
    <3>1. AtLogic(t) = ToCome(t) + 1
      BY <1>1, <2>1 DEF AtLogic, f
    <3>2. newLocalRequest[t] = FALSE
      <4>1. (AtLogic(t) = 0) = FALSE
        BY <1>1, <3>1
      <4>. QED BY <1>8, <4>1
    <3>3. g = [f EXCEPT !.dest = requestDestination[t]]
      BY <3>2 DEF g, f, Redirected
    <3>4. IsFlit(g) /\ g.eop = f.eop /\ g.op = "PAYLOAD" /\ g.dest = requestDestination[t]
      BY <1>7, <2>1, <3>3 DEF IsFlit, Fields
    <3>5. AtLogic(t) > 0 /\ ToCome(t) = AtLogic(t) - 1
      BY <1>1, <3>1
    <3>. QED BY <1>7, <3>4, <3>5 DEF Follows
  <2>2. CASE f.op \in Supported /\ ToCome(t) = PayloadDue(f.op)
    <3>1. AtLogic(t) = 0
      BY <1>1, <1>9, <2>2 DEF AtLogic, f
    <3>2. newLocalRequest[t] = TRUE
      BY <1>8, <3>1
    <3>3. g = [f EXCEPT !.dest = getNextTile(directory[t], f.addr),
                        !.addr = updateAddress(directory[t], f.addr),
                        !.scratchpad = inScratchpad(directory[t], f.addr)]
      BY <3>2 DEF g, f, Redirected, updateRequest
    <3>4. IsFlit(g) /\ g.eop = f.eop /\ g.op = f.op
      BY <1>7, <3>3 DEF IsFlit, Fields
    <3>. QED BY <1>7, <1>9, <2>2, <3>1, <3>4 DEF Follows
  <2>. QED BY <1>7, <2>1, <2>2
<1>11. PICK left \in [Tiles -> Nat] : RoutesOK(left)
  BY DEF HInv
<1>12. Stream(q, left[t], AtLogic(t)) /\ IsSeq(q) /\ left[t] \in Nat
  <2>1. Stream(q, left[t], AtLogic(t))
    BY <1>6, <1>11 DEF RoutesOK, OutOK, q
  <2>. QED BY <2>1 DEF Stream
<1>13. Stream(Append(q, g), left[t], ToCome(t))
  BY <1>1, <1>10, <1>12, StreamAppend
<1>14. /\ IsSeq(Append(q, g)) /\ Len(Append(q, g)) = Len(q) + 1 /\ Len(q) \in Nat
       /\ \A k \in 1 .. Len(q) : Append(q, g)[k] = q[k]
       /\ Append(q, g)[Len(q) + 1] = g
  BY <1>12, SeqAppend
<1>15. Append(q, g) # <<>> /\ Head(Append(q, g)) = IF q = <<>> THEN g ELSE Head(q)
  <2>1. Append(q, g) # <<>>
    BY <1>14, EmptyIsSeq
  <2>2. Head(Append(q, g)) = Append(q, g)[1]
    BY <1>14, <2>1, SeqTail
  <2>3. q # <<>> => Head(q) = q[1] /\ Len(q) \in Nat \ {0}
    BY <1>12, SeqTail
  <2>. QED BY <1>14, <2>1, <2>2, <2>3, EmptyIsSeq
<1>16. LogicOK(t)'
  BY <1>1, <1>3, <1>6, <1>7 DEF LogicOK, f
<1>17. OneWay(t)'
  <2> DEFINE r == Append(q, g)
  <2>1. OneWay(t)
    BY DEF HInv
  <2>2. ASSUME NEW k \in 2 .. Len(r), r[k].op = "PAYLOAD" PROVE r[k].dest = r[k - 1].dest
    <3>1. CASE k \in 2 .. Len(q)
      <4>1. k \in 1 .. Len(q) /\ k - 1 \in 1 .. Len(q)
        BY <1>14, <3>1
      <4>2. r[k] = q[k] /\ r[k - 1] = q[k - 1]
        BY <1>14, <4>1
      <4>3. q[k].op = "PAYLOAD" => q[k].dest = q[k - 1].dest
        BY <2>1, <3>1 DEF OneWay, q
      <4>. QED BY <2>2, <4>2, <4>3
    <3>2. CASE k = Len(q) + 1
      <4>1. Len(q) \in Nat \ {0} /\ k - 1 \in 1 .. Len(q) /\ k - 1 = Len(q)
        BY <1>14, <3>2
      <4>2. r[k] = g /\ r[k - 1] = q[Len(q)]
        BY <1>14, <3>2, <4>1
      <4>3. q # <<>>
        BY <4>1, EmptyIsSeq
      <4>4. requestDestination[t] = q[Len(q)].dest
        BY <2>1, <4>3 DEF OneWay, q
      <4>. QED BY <1>10, <2>2, <4>2, <4>4
    <3>. QED BY <1>14, <3>1, <3>2
  <2>3. r[Len(r)] = g
    BY <1>14
  <2>4. oRequestToNetwork'[t] = r /\ requestDestination'[t] = g.dest
    BY <1>3
  <2> HIDE DEF r
  <2>. QED BY <2>2, <2>3, <2>4 DEF OneWay
<1>18. left[t] > 0 => NextDest(t)' = NextDest(t)
  <2>1. CASE q = <<>>
    <3>1. left[t] = AtLogic(t)
      BY <1>12, <2>1, StreamOfNone
    <3>. QED BY <1>3, <1>10, <1>15, <2>1, <3>1 DEF NextDest, q
  <2>2. CASE q # <<>>
    BY <1>3, <1>15, <2>2 DEF NextDest, q
  <2>. QED BY <2>1, <2>2
<1>19. \A u \in Tiles \ {t} : /\ LogicOK(u)' /\ OutLeft(u)' = OutLeft(u)
                              /\ OneWay(u)' /\ NextDest(u)' = NextDest(u)
  BY <1>1, <1>4, <1>5, LogicFrame, WayFrame DEF HInv
<1>20. OutOK(left, t)'
  <2>1. left[t] > 0 /\ NextDest(t) \in Destinations => route[NextDest(t)] = t
    BY <1>11 DEF RoutesOK, OutOK
  <2>2. Stream(oRequestToNetwork'[t], left[t], OutLeft(t)')
    BY <1>3, <1>6, <1>13
  <2>3. route' = route
    BY DEF networkVars
  <2>. QED BY <1>18, <2>1, <2>2, <2>3 DEF OutOK
<1>21. ASSUME NEW u \in Tiles, u # t PROVE OutOK(left, u)'
  BY <1>4, <1>11, <1>19, <1>21, OutFrame DEF networkVars
<1>22. ASSUME NEW d \in Destinations PROVE RouteOK(left, d)'
  <2>1. Queue(d)' = Queue(d) /\ Begun(d)' = Begun(d) /\ route' = route
    BY DEF Queue, Begun, memoryVars, networkVars
  <2>2. RouteOK(left, d)
    BY <1>11 DEF RoutesOK
  <2>3. CASE route[d] = Free
    BY <2>1, <2>2, <2>3 DEF RouteOK
  <2>4. CASE route[d] # Free
    <3>1. PICK u \in Tiles : u = route[d]
      BY <2>2, <2>4 DEF RouteOK
    <3>2. left[u] > 0 /\ NextDest(u) = d
      BY <2>2, <2>4, <3>1 DEF RouteOK
    <3>3. NextDest(u)' = d
      BY <1>18, <1>19, <3>2
    <3>. QED BY <2>1, <2>2, <2>4, <3>1, <3>3 DEF RouteOK
  <2>. QED BY <2>3, <2>4
<1>23. \A b \in Banks : PacketOK(b)'
  BY PacketFrame DEF HInv
<1>24. \A c \in Controllers : ActiveOK(c)'
  BY DEF HInv, ActiveOK, memoryVars
<1>25. RoutesOK(left)'
  BY <1>20, <1>21, <1>22 DEF RoutesOK
<1>. QED BY <1>3, <1>16, <1>17, <1>19, <1>23, <1>24, <1>25 DEF HInv

(* The flit that leaves a tile next goes the way of the one before, when   *)
(* it belongs to the same packet.                                          *)
LEMMA WayOfRest ==
  ASSUME NEW t, OneWay(t), NEW q, q = oRequestToNetwork[t], q # <<>>, IsSeq(q),
         NEW l \in Nat, NEW m, Stream(Tail(q), l, m),
         oRequestToNetwork'[t] = Tail(q), requestDestination'[t] = requestDestination[t]
  PROVE  OneWay(t)' /\ (l > 0 => NextDest(t)' = Head(q).dest)
<1> DEFINE r == Tail(q)
<1>1. /\ IsSeq(r) /\ Len(r) = Len(q) - 1 /\ Len(q) \in Nat \ {0} /\ Head(q) = q[1]
      /\ \A k \in 1 .. Len(q) - 1 : r[k] = q[k + 1]
  BY SeqTail
<1>2. /\ requestDestination[t] = q[Len(q)].dest
      /\ \A k \in 2 .. Len(q) : q[k].op = "PAYLOAD" => q[k].dest = q[k - 1].dest
  BY DEF OneWay
<1>3. r = <<>> <=> Len(r) = 0
  BY <1>1, SeqOfElements
<1>4. r # <<>> => r[Len(r)] = q[Len(q)]
  BY <1>1, <1>3
<1>5. ASSUME NEW k \in 2 .. Len(r), r[k].op = "PAYLOAD" PROVE r[k].dest = r[k - 1].dest
  <2>1. k + 1 \in 2 .. Len(q) /\ k \in 1 .. Len(q) - 1 /\ k - 1 \in 1 .. Len(q) - 1
        /\ (k + 1) - 1 = k /\ (k - 1) + 1 = k
    BY <1>1
  <2>2. r[k] = q[k + 1] /\ r[k - 1] = q[k]
    BY <1>1, <2>1
  <2>3. q[k + 1].op = "PAYLOAD" => q[k + 1].dest = q[(k + 1) - 1].dest
    BY <1>2, <2>1
  <2>. QED BY <1>5, <2>1, <2>2, <2>3
<1>6. Stream(r, l, m) /\ oRequestToNetwork'[t] = r
  OBVIOUS
<1> HIDE DEF r
<1>7. OneWay(t)'
  BY <1>2, <1>4, <1>5, <1>6 DEF OneWay
<1>8. ASSUME l > 0 PROVE NextDest(t)' = Head(q).dest
  <2>1. CASE r = <<>>
    BY <1>1, <1>2, <1>3, <1>6, <2>1 DEF NextDest
  <2>2. CASE r # <<>>
    <3>1. PICK h \in Nat : Follows(l, Head(r), h)
      BY <1>6, <2>2, StreamTail
    <3>2. Head(r).op = "PAYLOAD"
      BY <1>8, <3>1 DEF Follows
    <3>3. Head(r) = r[1] /\ r[1] = q[2] /\ 2 \in 2 .. Len(q)
      <4>1. Len(r) # 0
        BY <1>3, <2>2
      <4>2. Head(r) = r[1]
        BY <1>1, <2>2, SeqTail
      <4>3. Len(q) >= 2
        <5>1. PICK n \in Nat : n = Len(q)
          BY <1>1
        <5>2. n # 0 /\ n - 1 # 0
          BY <1>1, <4>1, <5>1
        <5>3. n >= 2
          BY <5>2
        <5>. QED BY <5>1, <5>3
      <4>4. 1 \in 1 .. Len(q) - 1 /\ 2 \in 2 .. Len(q) /\ 1 + 1 = 2
        BY <1>1, <4>3
      <4>. QED BY <1>1, <4>2, <4>4
    <3>4. q[2].op = "PAYLOAD" => q[2].dest = q[2 - 1].dest
      BY <1>2, <3>3
    <3>5. Head(r).dest = Head(q).dest
      BY <1>1, <3>2, <3>3, <3>4
    <3>. QED BY <1>6, <2>2, <3>5 DEF NextDest
  <2>. QED BY <2>1, <2>2
<1>. QED BY <1>7, <1>8

(* The network delivers a flit after those of its packet, and takes no     *)
(* other tile's before the last.                                           *)
LEMMA DeliverRequestKeeps ==
  ASSUME HInv, NEW t \in Tiles, DeliverRequest(t)
  PROVE  HInv'
<1> DEFINE q == oRequestToNetwork[t]  f == Head(q)
<1>0. PICK d : d = f.dest
  OBVIOUS
<1>1. /\ q # <<>> /\ route[d] \in {Free, t}
      /\ oRequestToNetwork' = [oRequestToNetwork EXCEPT ![t] = Tail(q)]
      /\ route' = [route EXCEPT ![d] = IF f.eop THEN Free ELSE t]
      /\ UNCHANGED <<requestsFromBanks, requestHeader, newLocalRequest, requestDestination,
                     activeRequest, sending, requests, bus>>
  BY <1>0 DEF DeliverRequest, bankVars
<1>2. /\ d \in Controllers => /\ inputQueue' = [inputQueue EXCEPT ![d] = Append(@, f)]
                              /\ UNCHANGED remote
      /\ d \notin Controllers => /\ remote' = [remote EXCEPT ![d] = Append(@, f)]
                                 /\ UNCHANGED inputQueue
  BY <1>0 DEF DeliverRequest
<1>3. DomainsOK' /\ oRequestToNetwork'[t] = Tail(q)
      /\ \A u \in Tiles \ {t} : oRequestToNetwork'[u] = oRequestToNetwork[u]
  BY <1>1, <1>2 DEF HInv, DomainsOK
<1>4. \A e \in Destinations : e # d => route'[e] = route[e]
  BY <1>1 DEF HInv, DomainsOK
<1>5. d \in Destinations => route'[d] = IF f.eop THEN Free ELSE t
  BY <1>1 DEF HInv, DomainsOK
<1>6. \A e \in Destinations : Begun(e)' = Begun(e) /\ (e # d => Queue(e)' = Queue(e))
  BY <1>1, <1>2 DEF HInv, DomainsOK, Begun, Queue, Destinations
<1>7. d \in Destinations => Queue(d)' = Append(Queue(d), f)
  <2>1. CASE d \in Controllers
    BY <1>2, <2>1 DEF HInv, DomainsOK, Queue
  <2>2. CASE d \notin Controllers /\ d \in Destinations
    <3>1. d \in Tiles /\ DOMAIN remote = Tiles
      BY <2>2 DEF HInv, DomainsOK, Destinations
    <3>2. remote'[d] = Append(remote[d], f)
      BY <1>2, <2>2, <3>1
    <3>. QED BY <2>2, <3>2 DEF Queue
  <2>. QED BY <2>1, <2>2
<1>8. NextDest(t) = d
  BY <1>0, <1>1 DEF NextDest
<1>9. Free \notin Tiles
  BY HierarchyAssumption
<1>10. PICK left \in [Tiles -> Nat] : RoutesOK(left)
  BY DEF HInv
<1>11. /\ Stream(q, left[t], OutLeft(t)) /\ IsSeq(q) /\ left[t] \in Nat
       /\ left[t] > 0 /\ d \in Destinations => route[d] = t
  BY <1>8, <1>10 DEF RoutesOK, OutOK, Stream
<1>12. PICK l \in Nat : Follows(left[t], f, l) /\ Stream(Tail(q), l, OutLeft(t))
  BY <1>1, <1>11, StreamTail
<1>13. OneWay(t)' /\ (l > 0 => NextDest(t)' = d)
  BY <1>0, <1>1, <1>3, <1>11, <1>12, WayOfRest DEF HInv
<1>14. f.eop = (l = 0)
  BY <1>12 DEF Follows
<1> HIDE DEF q, f
<1> DEFINE now == [left EXCEPT ![t] = l]
<1>15. now \in [Tiles -> Nat] /\ now[t] = l /\ \A u \in Tiles \ {t} : now[u] = left[u]
  OBVIOUS
<1> HIDE DEF now
<1>16. \A u \in Tiles : LogicOK(u)' /\ OutLeft(u)' = OutLeft(u)
  <2> SUFFICES ASSUME NEW u \in Tiles PROVE LogicOK(u)' /\ OutLeft(u)' = OutLeft(u)
    OBVIOUS
  <2>1. ToCome(u)' = ToCome(u)
    BY <1>1 DEF ToCome
  <2>. QED BY <1>1, <2>1, LogicFrame DEF HInv
<1>17. \A u \in Tiles \ {t} : OneWay(u)' /\ NextDest(u)' = NextDest(u)
  BY <1>1, <1>3, WayFrame DEF HInv
<1>18. OutOK(now, t)'
  <2>1. l > 0 /\ d \in Destinations => route'[d] = t
    <3>1. l > 0 => (l = 0) = FALSE
      OBVIOUS
    <3>. QED BY <1>5, <1>14, <3>1
  <2>. QED BY <1>3, <1>12, <1>13, <1>15, <1>16, <2>1 DEF OutOK, q
<1>19. ASSUME NEW u \in Tiles, u # t PROVE OutOK(now, u)'
  <2>1. Stream(oRequestToNetwork[u], left[u], OutLeft(u))
        /\ (left[u] > 0 /\ NextDest(u) \in Destinations => route[NextDest(u)] = u)
    BY <1>10 DEF RoutesOK, OutOK
  <2>2. ASSUME left[u] > 0, NextDest(u) \in Destinations PROVE route'[NextDest(u)] = u
    <3>1. NextDest(u) # d
      BY <1>1, <1>9, <1>19, <2>1, <2>2
    <3>. QED BY <1>4, <2>1, <2>2, <3>1
  <2>3. /\ oRequestToNetwork'[u] = oRequestToNetwork[u] /\ OutLeft(u)' = OutLeft(u)
        /\ now[u] = left[u] /\ NextDest(u)' = NextDest(u)
    BY <1>3, <1>15, <1>16, <1>17, <1>19
  <2>. QED BY <2>1, <2>2, <2>3 DEF OutOK
<1>20. ASSUME NEW e \in Destinations PROVE RouteOK(now, e)'
  <2>1. RouteOK(left, e)
    BY <1>10 DEF RoutesOK
  <2>2. CASE e = d
    <3>1. Stream(Queue(d), Begun(d), left[t])
      <4>1. CASE route[d] = t
        BY <1>9, <2>1, <2>2, <4>1 DEF RouteOK
      <4>2. CASE route[d] = Free
        <5>1. left[t] = 0
          BY <1>9, <1>11, <2>2, <4>2
        <5>. QED BY <2>1, <2>2, <4>2, <5>1 DEF RouteOK
      <4>. QED BY <1>1, <4>1, <4>2
    <3>2. Stream(Queue(d)', Begun(d)', l)
      <4>1. Stream(Append(Queue(d), f), Begun(d), l)
        BY <1>12, <3>1, StreamAppend
      <4>2. Queue(d)' = Append(Queue(d), f) /\ Begun(d)' = Begun(d)
        BY <1>6, <1>7, <2>2
      <4>. QED BY <4>1, <4>2
    <3>3. route'[d] = IF l = 0 THEN Free ELSE t
      BY <1>5, <1>14, <2>2
    <3>4. l # 0 => now[t] > 0 /\ NextDest(t)' = d
      BY <1>13, <1>15
    <3>5. CASE l = 0
      BY <2>2, <3>2, <3>3, <3>5 DEF RouteOK
    <3>6. CASE l # 0
      <4>1. route'[d] = t /\ t # Free
        BY <1>9, <3>3, <3>6
      <4>. QED BY <1>15, <2>2, <3>2, <3>4, <3>6, <4>1 DEF RouteOK
    <3>. QED BY <3>5, <3>6
  <2>3. CASE e # d
    <3>1. route'[e] = route[e] /\ Queue(e)' = Queue(e) /\ Begun(e)' = Begun(e)
      BY <1>4, <1>6, <2>3
    <3>2. CASE route[e] = Free
      BY <2>1, <3>1, <3>2 DEF RouteOK
    <3>3. CASE route[e] # Free
      <4>1. PICK u \in Tiles : u = route[e]
        BY <2>1, <3>3 DEF RouteOK
      <4>2. left[u] > 0 /\ NextDest(u) = e
        BY <2>1, <3>3, <4>1 DEF RouteOK
      <4>3. u # t
        BY <1>8, <2>3, <4>2
      <4>4. now[u] = left[u] /\ NextDest(u)' = e
        BY <1>15, <1>17, <4>2, <4>3
      <4>. QED BY <2>1, <3>1, <3>3, <4>1, <4>2, <4>4 DEF RouteOK
    <3>. QED BY <3>2, <3>3
  <2>. QED BY <2>2, <2>3
<1>21. RoutesOK(now)'
  BY <1>18, <1>19, <1>20 DEF RoutesOK
<1>22. \A b \in Banks : PacketOK(b)'
  BY <1>1, PacketFrame DEF HInv
<1>23. \A c \in Controllers : ActiveOK(c)'
  BY <1>1 DEF HInv, ActiveOK
<1>. QED BY <1>3, <1>13, <1>15, <1>16, <1>17, <1>21, <1>22, <1>23 DEF HInv

(* A bank passes on a whole packet that has come for it.                   *)
LEMMA ServeRemoteKeeps ==
  ASSUME HInv, NEW t \in Tiles, ServeRemote(t)
  PROVE  HInv'
<1> DEFINE q == remote[t]
<1>1. PICK size : size = IF Head(q).op = "STORE_LINE" THEN LineWords + 1 ELSE 1
  OBVIOUS
<1>2. PICK own : own = [i \in 1 .. size |-> [q[i] EXCEPT !.bank = Home[t], !.tile = t]]
  OBVIOUS
<1>3. /\ q # <<>> /\ Len(q) >= size /\ sending[Home[t]] = <<>>
      /\ sending' = [sending EXCEPT ![Home[t]] = own]
      /\ remote' = [remote EXCEPT ![t] = SubSeq(q, size + 1, Len(q))]
      /\ UNCHANGED <<requestsFromBanks, requestHeader, newLocalRequest, requestDestination,
                     oRequestToNetwork, inputQueue, activeRequest, requests, bus, route>>
  BY <1>1, <1>2 DEF ServeRemote, mhlVars, memoryVars
<1>4. /\ t \notin Controllers /\ t \in Destinations /\ Home[t] \in Banks
      /\ LineWords \in Nat \ {0}
  BY HierarchyAssumption DEF Destinations
<1>5. PICK left \in [Tiles -> Nat] : RoutesOK(left)
  BY DEF HInv
<1>6. PICK m : /\ Stream(q, 0, m)
               /\ m = IF route[t] = Free THEN 0 ELSE left[route[t]]
  <2>1. Queue(t) = q /\ Begun(t) = 0
    BY <1>4 DEF Queue, Begun
  <2>. QED BY <1>4, <1>5, <2>1 DEF RoutesOK, RouteOK
<1>7. IsSeq(q) /\ Head(q) = q[1] /\ q[1].op \in Supported
  <2>1. IsSeq(q)
    BY <1>6 DEF Stream
  <2>2. PICK l \in Nat : Follows(0, Head(q), l)
    BY <1>3, <1>6, StreamTail
  <2>. QED BY <1>3, <2>1, <2>2, SeqTail DEF Follows
<1>8. size = PayloadDue(q[1].op) + 1
  BY <1>1, <1>4, <1>7 DEF PayloadDue, Supported, DirectoryUpdates
<1>9. size \in Nat /\ size <= Len(q) /\ size > 0
  BY <1>1, <1>3, <1>4, <1>7 DEF IsSeq
<1>10. /\ \A k \in 1 .. size : /\ IsFlit(q[k]) /\ q[k].eop = (k = size)
                               /\ k > 1 => q[k].op = "PAYLOAD"
       /\ Stream(SubSeq(q, size + 1, Len(q)), 0, m)
  BY <1>3, <1>6, <1>8, <1>9, StreamPacket
<1> HIDE DEF q
<1>11. \A k \in 1 .. size : IsFlit(own[k]) /\ own[k].op = q[k].op /\ own[k].eop = q[k].eop
  <2> SUFFICES ASSUME NEW k \in 1 .. size
               PROVE  IsFlit(own[k]) /\ own[k].op = q[k].op /\ own[k].eop = q[k].eop
    OBVIOUS
  <2>1. IsFlit(q[k]) /\ own[k] = [q[k] EXCEPT !.bank = Home[t], !.tile = t]
    BY <1>2, <1>10
  <2>. QED BY <2>1 DEF IsFlit, Fields
<1>12. Len(own) = size /\ IsSeq(own) /\ own # <<>>
  <2>1. PICK S : S = {own[i] : i \in 1 .. size}
    OBVIOUS
  <2>2. own \in [1 .. size -> S]
    BY <1>2, <2>1
  <2>3. own \in Seq(S) /\ Len(own) = size
    BY <1>9, <2>2, SeqDef, LenProperties
  <2>4. IsSeq(own)
    BY <2>3, SeqIsSeq
  <2>. QED BY <1>9, <2>3, <2>4, EmptyIsSeq
<1>13. /\ own[1].op \in HeadOps /\ own[1].op \notin DirectoryUpdates
       /\ Len(own) = PayloadDue(own[1].op) + 1
  <2>1. own[1].op = q[1].op
    BY <1>9, <1>11
  <2>. QED BY <1>7, <1>8, <1>12, <2>1 DEF HeadOps, Supported, DirectoryUpdates
<1>14. \A k \in 1 .. Len(own) : /\ IsFlit(own[k]) /\ own[k].eop = (k = Len(own))
                                /\ k > 1 => own[k].op = "PAYLOAD"
  BY <1>10, <1>11, <1>12
<1>15. WholePacket(own)
  BY <1>12, <1>13, <1>14 DEF WholePacket
<1>16. /\ \A c \in Banks : PacketOK(c)'
       /\ \A u \in Tiles : LogicOK(u)' /\ OutLeft(u)' = OutLeft(u)
       /\ DOMAIN sending' = Banks
  BY <1>3, <1>4, <1>15, PacketMade
<1>17. DomainsOK' /\ remote'[t] = SubSeq(q, size + 1, Len(q))
       /\ \A u \in Tiles \ {t} : remote'[u] = remote[u]
  BY <1>3, <1>16 DEF HInv, DomainsOK
<1>18. \A u \in Tiles : OneWay(u)' /\ NextDest(u)' = NextDest(u)
  BY <1>3, WayFrame DEF HInv
<1>19. \A u \in Tiles : OutOK(left, u)'
  BY <1>3, <1>5, <1>16, OutFrame
<1>20. ASSUME NEW d \in Destinations PROVE RouteOK(left, d)'
  <2>1. Begun(d)' = Begun(d) /\ route' = route /\ Begun(t)' = 0
    BY <1>3, <1>4 DEF Begun
  <2>2. CASE d = t
    <3>1. Queue(t)' = SubSeq(q, size + 1, Len(q))
      BY <1>4, <1>17 DEF Queue
    <3>2. RouteOK(left, t)
      BY <1>4, <1>5 DEF RoutesOK
    <3>3. CASE route[t] = Free
      BY <1>6, <1>10, <2>1, <2>2, <3>1, <3>2, <3>3 DEF RouteOK
    <3>4. CASE route[t] # Free
      <4>1. PICK u \in Tiles : u = route[t]
        BY <3>2, <3>4 DEF RouteOK
      <4>2. left[u] > 0 /\ NextDest(u)' = t /\ m = left[u]
        BY <1>6, <1>18, <3>2, <3>4, <4>1 DEF RouteOK
      <4>. QED BY <1>10, <2>1, <2>2, <3>1, <3>4, <4>1, <4>2 DEF RouteOK
    <3>. QED BY <3>3, <3>4
  <2>3. CASE d # t
    <3>1. Queue(d)' = Queue(d)
      BY <1>3, <1>17, <2>3 DEF Queue, Destinations
    <3>. QED BY <1>5, <1>18, <2>1, <3>1, RouteFrame
  <2>. QED BY <2>2, <2>3
<1>21. \A c \in Controllers : ActiveOK(c)'
  BY <1>3 DEF HInv, ActiveOK
<1>22. RoutesOK(left)'
  BY <1>19, <1>20 DEF RoutesOK
<1>. QED BY <1>16, <1>17, <1>18, <1>21, <1>22 DEF HInv

(* Main memory takes whole requests, and the payloads that belong to them. *)
LEMMA MemoryFrame ==
  ASSUME HInv, NEW left \in [Tiles -> Nat], RoutesOK(left),
         DOMAIN inputQueue' = Controllers, DOMAIN activeRequest' = Controllers,
         \A c \in Controllers : ActiveOK(c)',
         \A c \in Controllers : \A m :
           Stream(inputQueue[c], Begun(c), m) => Stream(inputQueue'[c], Begun(c)', m),
         UNCHANGED <<mhlVars, bankVars, networkVars>>
  PROVE  HInv'
<1>1. DomainsOK'
  BY DEF HInv, DomainsOK, mhlVars, bankVars, networkVars
<1>2. \A b \in Banks : PacketOK(b)'
  BY PacketFrame DEF HInv, bankVars
<1>3. \A t \in Tiles : LogicOK(t)' /\ OutLeft(t)' = OutLeft(t)
  <2> SUFFICES ASSUME NEW t \in Tiles PROVE LogicOK(t)' /\ OutLeft(t)' = OutLeft(t)
    OBVIOUS
  <2>1. ToCome(t)' = ToCome(t)
    BY DEF ToCome, bankVars
  <2>. QED BY <2>1, LogicFrame DEF HInv, mhlVars, bankVars
<1>4. \A t \in Tiles : OneWay(t)' /\ NextDest(t)' = NextDest(t)
  BY WayFrame DEF HInv, mhlVars
<1>5. \A t \in Tiles : OutOK(left, t)'
  BY <1>3, OutFrame DEF mhlVars, networkVars
<1>6. ASSUME NEW d \in Destinations PROVE RouteOK(left, d)'
  <2>1. RouteOK(left, d)
    BY DEF RoutesOK
  <2>2. \A m : Stream(Queue(d), Begun(d), m) => Stream(Queue(d)', Begun(d)', m)
    <3>1. CASE d \in Controllers
      BY <3>1 DEF Queue
    <3>2. CASE d \notin Controllers
      BY <3>2 DEF Queue, Begun, networkVars
    <3>. QED BY <3>1, <3>2
  <2>3. route' = route
    BY DEF networkVars
  <2>4. CASE route[d] = Free
    BY <2>1, <2>2, <2>3, <2>4 DEF RouteOK
  <2>5. CASE route[d] # Free
    <3>1. PICK u \in Tiles : u = route[d]
      BY <2>1, <2>5 DEF RouteOK
    <3>2. left[u] > 0 /\ NextDest(u)' = d /\ Stream(Queue(d), Begun(d), left[u])
      BY <1>4, <2>1, <2>5, <3>1 DEF RouteOK
    <3>. QED BY <2>2, <2>3, <2>5, <3>1, <3>2 DEF RouteOK
  <2>. QED BY <2>4, <2>5
<1>7. RoutesOK(left)'
  BY <1>5, <1>6 DEF RoutesOK
<1>. QED BY <1>1, <1>2, <1>3, <1>4, <1>7 DEF HInv

(* A handler decodes a head flit and waits for its payloads.               *)
LEMMA ProcessIdleKeeps ==
  ASSUME HInv, NEW c \in Controllers, processIdle(c),
         UNCHANGED <<mhlVars, bankVars, networkVars>>
  PROVE  HInv'
<1>1. PICK left \in [Tiles -> Nat] : RoutesOK(left)
  BY DEF HInv
<1> DEFINE q == inputQueue[c]
<1>2. /\ q # <<>> /\ activeRequest[c] = Idle
      /\ inputQueue'[c] = Tail(q)
      /\ activeRequest'[c] = [op |-> Head(q).op, line |-> Line(Head(q).addr),
                              bank |-> Head(q).bank, done |-> 0, head |-> Head(q)]
      /\ \A e \in Controllers \ {c} : /\ inputQueue'[e] = inputQueue[e]
                                      /\ activeRequest'[e] = activeRequest[e]
      /\ DOMAIN inputQueue' = Controllers /\ DOMAIN activeRequest' = Controllers
  BY DEF HInv, DomainsOK, processIdle, Starts
<1>3. LineWords \in Nat \ {0} /\ Begun(c) = 0
  BY <1>2, HierarchyAssumption DEF Begun, Idle
<1>4. Head(q).op \in Supported
  BY DEF processIdle, Starts
<1>5. Begun(c)' = PayloadDue(Head(q).op)
  <2>1. activeRequest'[c].op = Head(q).op /\ activeRequest'[c].done = 0
    BY <1>2
  <2>. QED BY <1>3, <1>4, <2>1 DEF Begun, PayloadDue, Supported, DirectoryUpdates
<1>6. ASSUME NEW m, Stream(q, Begun(c), m) PROVE Stream(inputQueue'[c], Begun(c)', m)
  <2>1. PICK l \in Nat : Follows(0, Head(q), l) /\ Stream(Tail(q), l, m)
    BY <1>2, <1>3, <1>6, StreamTail
  <2>2. l = PayloadDue(Head(q).op)
    BY <2>1 DEF Follows
  <2>. QED BY <1>2, <1>5, <2>1, <2>2
<1>7. \A e \in Controllers \ {c} : Begun(e)' = Begun(e)
  BY <1>2 DEF Begun
<1>8. \A e \in Controllers : \A m :
        Stream(inputQueue[e], Begun(e), m) => Stream(inputQueue'[e], Begun(e)', m)
  <2> SUFFICES ASSUME NEW e \in Controllers, NEW m, Stream(inputQueue[e], Begun(e), m)
               PROVE  Stream(inputQueue'[e], Begun(e)', m)
    OBVIOUS
  <2>1. CASE e = c
    BY <1>6, <2>1
  <2>2. CASE e # c
    BY <1>2, <1>7, <2>2
  <2>. QED BY <2>1, <2>2
<1>9. ASSUME NEW e \in Controllers PROVE ActiveOK(e)'
  <2>1. CASE e = c
    <3>1. activeRequest'[c].op = Head(q).op /\ activeRequest'[c].done = 0
          /\ {"op", "done"} \subseteq DOMAIN activeRequest'[c]
      BY <1>2
    <3>2. 0 \in 0 .. LineWords - 1
      BY <1>3
    <3>. QED BY <1>4, <2>1, <3>1, <3>2 DEF ActiveOK
  <2>2. CASE e # c
    BY <1>2, <2>2 DEF HInv, ActiveOK
  <2>. QED BY <2>1, <2>2
<1>. QED BY <1>1, <1>2, <1>8, <1>9, MemoryFrame

(* On a falling edge each handler takes at most a payload of its own       *)
(* request.                                                                *)
LEMMA NegedgeKeeps ==
  ASSUME HInv, Negedge, UNCHANGED <<mhlVars, bankVars, networkVars>>
  PROVE  HInv'
<1>1. PICK left \in [Tiles -> Nat] : RoutesOK(left)
  BY DEF HInv
<1>2. DOMAIN inputQueue' = Controllers /\ DOMAIN activeRequest' = Controllers
  BY DEF Negedge
<1>3. LineWords \in Nat \ {0} /\ "PAYLOAD" \notin Supported
  BY HierarchyAssumption DEF Supported
<1>4. ASSUME NEW c \in Controllers
      PROVE  ActiveOK(c)' /\ \A m : Stream(inputQueue[c], Begun(c), m)
                                      => Stream(inputQueue'[c], Begun(c)', m)
  <2> DEFINE q == inputQueue[c]  r == activeRequest[c]
  <2>1. CASE c \notin Moves("STORE_LINE") \cup Moves("FETCH_LINE")
    <3>1. inputQueue'[c] = q /\ activeRequest'[c] = r
      BY <2>1 DEF Negedge
    <3>2. Begun(c)' = Begun(c)
      BY <3>1 DEF Begun
    <3>3. ActiveOK(c)'
      BY <3>1 DEF HInv, ActiveOK
    <3>. QED BY <3>1, <3>2, <3>3
  <2>2. CASE c \in Moves("STORE_LINE") \cup Moves("FETCH_LINE")
    <3>1. r # Idle /\ r.op \in Supported /\ r.done \in 0 .. LineWords - 1
          /\ {"op", "done"} \subseteq DOMAIN r
      <4>1. r # Idle
        BY <2>2 DEF Moves, Idle
      <4>. QED BY <4>1 DEF HInv, ActiveOK
    <3>2. activeRequest'[c] = Iterated(r)
      BY <2>2 DEF Negedge
    <3>3. \/ Iterated(r) = Idle /\ r.done + 1 = LineWords
          \/ /\ Iterated(r).op = r.op /\ Iterated(r).done = r.done + 1
             /\ {"op", "done"} \subseteq DOMAIN Iterated(r)
             /\ r.done + 1 \in 0 .. LineWords - 1
      <4>1. CASE r.done + 1 = LineWords
        BY <4>1 DEF Iterated
      <4>2. CASE r.done + 1 # LineWords
        <5>1. Iterated(r) = [r EXCEPT !.done = r.done + 1]
          BY <4>2 DEF Iterated
        <5>2. r.done + 1 \in 0 .. LineWords - 1
          BY <1>3, <3>1, <4>2
        <5>. QED BY <3>1, <5>1, <5>2
      <4>. QED BY <4>1, <4>2
    <3>4. ActiveOK(c)'
      BY <3>1, <3>2, <3>3 DEF ActiveOK
    <3>5. CASE c \in Moves("STORE_LINE")
      <4>1. r.op = "STORE_LINE" /\ q # <<>> /\ Head(q).op = "PAYLOAD" /\ inputQueue'[c] = Tail(q)
        BY <3>5 DEF Negedge, Moves, payloadAvailable
      <4>2. Begun(c) = LineWords - r.done /\ Begun(c) > 0 /\ Begun(c) \in Nat
        BY <1>3, <3>1, <4>1 DEF Begun
      <4>3. Begun(c)' = Begun(c) - 1
        <5>1. CASE Iterated(r) = Idle /\ r.done + 1 = LineWords
          BY <1>3, <3>1, <3>2, <4>2, <5>1 DEF Begun, Idle
        <5>2. CASE Iterated(r).op = r.op /\ Iterated(r).done = r.done + 1
          BY <1>3, <3>1, <3>2, <4>1, <4>2, <5>2 DEF Begun
        <5>. QED BY <3>3, <5>1, <5>2
      <4>4. ASSUME NEW m, Stream(q, Begun(c), m) PROVE Stream(inputQueue'[c], Begun(c)', m)
        <5>1. PICK l \in Nat : Follows(Begun(c), Head(q), l) /\ Stream(Tail(q), l, m)
          BY <4>1, <4>4, StreamTail
        <5>2. l = Begun(c) - 1
          BY <4>2, <5>1 DEF Follows
        <5>. QED BY <4>1, <4>3, <5>1, <5>2
      <4>. QED BY <3>4, <4>4
    <3>6. CASE c \in Moves("FETCH_LINE")
      <4>1. r.op = "FETCH_LINE" /\ inputQueue'[c] = q
        BY <3>6 DEF Negedge, Moves
      <4>2. Begun(c) = 0 /\ Begun(c)' = 0
        BY <3>2, <3>3, <4>1 DEF Begun, Idle
      <4>. QED BY <3>4, <4>1, <4>2
    <3>. QED BY <2>2, <3>5, <3>6
  <2>. QED BY <2>1, <2>2
<1>. QED BY <1>1, <1>2, <1>4, MemoryFrame

(* The steps that touch neither requests nor their queues.                 *)
LEMMA OtherStepsKeep ==
  ASSUME HInv,
         UNCHANGED <<mhlVars, inputQueue, activeRequest, sending, requests, bus, route, remote>>
  PROVE  HInv'
<1>1. DomainsOK'
  BY DEF HInv, DomainsOK, mhlVars
<1>2. \A b \in Banks : PacketOK(b)'
  BY PacketFrame DEF HInv
<1>3. \A t \in Tiles : LogicOK(t)' /\ OutLeft(t)' = OutLeft(t)
  <2> SUFFICES ASSUME NEW t \in Tiles PROVE LogicOK(t)' /\ OutLeft(t)' = OutLeft(t)
    OBVIOUS
  <2>1. ToCome(t)' = ToCome(t)
    BY DEF ToCome
  <2>. QED BY <2>1, LogicFrame DEF HInv, mhlVars
<1>. QED BY <1>1, <1>2, <1>3, Upstream DEF mhlVars

(* Every step keeps packets whole and in order.                            *)
LEMMA HInvKept ==
  ASSUME HInv, [Next]_vars
  PROVE  HInv'
<1>1. ASSUME NEW b \in Banks, Request(b) PROVE HInv'
  BY <1>1, RequestKeeps
<1>2. ASSUME NEW b \in Banks, SendFlit(b) PROVE HInv'
  BY <1>2, SendFlitKeeps
<1>3. ASSUME NEW t \in Tiles, MissHandling(t) PROVE HInv'
  BY <1>3, UpdateKeeps, ForwardsFlitKeeps DEF MissHandling, localRequestLoop
<1>4. ASSUME NEW t \in Tiles, DeliverRequest(t) PROVE HInv'
  BY <1>4, DeliverRequestKeeps
<1>5. ASSUME NEW t \in Tiles, DeliverReply(t) PROVE HInv'
  BY <1>5, OtherStepsKeep DEF DeliverReply, memoryVars, bankVars
<1>6. ASSUME NEW t \in Tiles, ServeRemote(t) PROVE HInv'
  BY <1>6, ServeRemoteKeeps
<1>7. ASSUME NEW t \in Tiles, ReceiveFlit(t) PROVE HInv'
  BY <1>7, OtherStepsKeep DEF ReceiveFlit, memoryVars
<1>8. ASSUME NEW c \in Controllers, DeliverResponse(c) PROVE HInv'
  BY <1>8, OtherStepsKeep DEF DeliverResponse, bankVars
<1>9. ASSUME MemoryStep PROVE HInv'
  BY <1>9, ProcessIdleKeeps, NegedgeKeeps DEF MemoryStep
<1>10. ASSUME UNCHANGED vars PROVE HInv'
  BY <1>10, OtherStepsKeep DEF vars, memoryVars, bankVars, networkVars
<1>. QED BY <1>1, <1>2, <1>3, <1>4, <1>5, <1>6, <1>7, <1>8, <1>9, <1>10
         DEF Next, Transport, Finished

(* Whole packets in order are what the code asserts.                       *)
LEMMA HInvAsserts ==
  ASSUME HInv
  PROVE  AssertionsHold
<1>1. ASSUME NEW c \in Controllers, activeRequest[c] = Idle, inputQueue[c] # <<>>
      PROVE  Head(inputQueue[c]).op \in Supported
  <2>1. PICK left \in [Tiles -> Nat] : RoutesOK(left)
    BY DEF HInv
  <2>2. PICK m : Stream(inputQueue[c], Begun(c), m)
    BY <2>1 DEF RoutesOK, RouteOK, Queue, Destinations
  <2>3. Begun(c) = 0
    BY <1>1 DEF Begun, Idle
  <2>4. PICK l \in Nat : Follows(0, Head(inputQueue[c]), l)
    BY <1>1, <2>2, <2>3, StreamTail
  <2>. QED BY <2>4 DEF Follows
<1>2. ASSUME NEW t \in Tiles, requestsFromBanks[t] # None, newLocalRequest[t]
      PROVE  requestsFromBanks[t].op \notin Payloads
  <2>1. AtLogic(t) = 0 /\ ToCome(t) \in Nat
    BY <1>2, ToComeNat DEF HInv, LogicOK
  <2>2. requestsFromBanks[t].op = "PAYLOAD" => AtLogic(t) = ToCome(t) + 1
    BY <1>2 DEF AtLogic
  <2>3. ToCome(t) + 1 # 0
    BY <2>1
  <2>. QED BY <2>1, <2>2, <2>3 DEF Payloads
<1>. QED BY <1>1, <1>2 DEF AssertionsHold

(* Main memory finds a request it supports whenever it looks for one, and  *)
(* the directory is looked up for head flits only, although the flits of a *)
(* packet travel one by one through banks, buses, directories that may be  *)
(* updated between them, and networks with any number of tiles and         *)
(* controllers (MainMemoryRequestHandler.cpp, processIdle; Directory.cpp,  *)
(* updateRequest).                                                         *)
THEOREM AssertionsNeverFail == Spec => []AssertionsHold
<1>1. Init => HInv
  BY HInvStarts
<1>2. HInv /\ [Next]_vars => HInv'
  BY HInvKept
<1>3. HInv => AssertionsHold
  BY HInvAsserts
<1>. QED BY <1>1, <1>2, <1>3, PTL DEF Spec

-----------------------------------------------------------------------------
(* Where requests go.                                                      *)

(* Two levels of directories lead every request to main memory.            *)
TwoHopsSuffice ==
  \A b \in Banks, n \in 1 .. MaxRequests : \A r \in Offers(b, n) :
    getAddressTranslation(TileOf[b], r.addr)[1] \in Controllers

(* Where an address may end up from a place on its way.                    *)
Ends(tile, address) ==
  {Reached(tile, address), LastHop(tile, address), getAddressTranslation(tile, address)}

(* A head flit at a tile is on its way to where the directories led when   *)
(* its request was made, unless one was updated since.                     *)
OnItsWay(tile, f) ==
  f.op \in Supported =>
    /\ f.epoch \in Nat /\ f.epoch <= epoch
    /\ f.epoch = epoch => f.final[1] \in Controllers /\ f.final \in Ends(tile, f.addr)

ArrivedOK(c) ==
  activeRequest[c] # Idle =>
    LET f == activeRequest[c].head
    IN  /\ {"head", "line"} \subseteq DOMAIN activeRequest[c]
        /\ f.epoch \in Nat /\ f.epoch <= epoch
        /\ f.epoch = epoch => f.final = <<c, activeRequest[c].line>>

TInv ==
  /\ epoch \in Nat /\ DOMAIN directory = Tiles
  /\ \A b \in Banks : \A f \in Elements(sending[b]) : OnItsWay(TileOf[b], f)
  /\ \A t \in Tiles : \A f \in {requestsFromBanks[t]} : OnItsWay(t, f)
  /\ \A t \in Tiles : \A f \in Elements(oRequestToNetwork[t]) : OnItsWay(f.dest, f)
  /\ \A d \in Destinations : \A f \in Elements(Queue(d)) : OnItsWay(d, f)
  /\ \A c \in Controllers : ArrivedOK(c)

(* While directories stay as they are, so do the ends of every way; an     *)
(* update makes older requests exempt.                                     *)
LEMMA OnItsWayKept ==
  ASSUME epoch \in Nat, (epoch' = epoch /\ directory' = directory) \/ epoch' = epoch + 1,
         NEW tile, NEW f, OnItsWay(tile, f)
  PROVE  OnItsWay(tile, f)'
<1>1. CASE epoch' = epoch /\ directory' = directory
  <2>1. /\ Reached(tile, f.addr)' = Reached(tile, f.addr)
        /\ LastHop(tile, f.addr)' = LastHop(tile, f.addr)
        /\ getAddressTranslation(tile, f.addr)' = getAddressTranslation(tile, f.addr)
    BY <1>1 DEF Reached, LastHop, getAddressTranslation, Onward, Translation, inScratchpad,
                getEntry, getNextTile, updateAddress
  <2>. QED BY <1>1, <2>1 DEF OnItsWay, Ends
<1>2. CASE epoch' = epoch + 1
  BY <1>2 DEF OnItsWay
<1>. QED BY <1>1, <1>2

(* A request in progress stays where it has arrived.                       *)
LEMMA ArrivedKept ==
  ASSUME epoch \in Nat, epoch' \in {epoch, epoch + 1}, NEW c, ArrivedOK(c),
         activeRequest'[c] = activeRequest[c]
  PROVE  ArrivedOK(c)'
BY DEF ArrivedOK

(* The flits of a queue that a step changes.                               *)
LEMMA ElementsTail ==
  ASSUME NEW q, IsSeq(q), q # <<>>
  PROVE  Head(q) \in Elements(q) /\ Elements(Tail(q)) \subseteq Elements(q)
<1>1. /\ Len(Tail(q)) = Len(q) - 1 /\ Len(q) \in Nat \ {0} /\ Head(q) = q[1]
      /\ \A k \in 1 .. Len(q) - 1 : Tail(q)[k] = q[k + 1]
  BY SeqTail
<1>2. ASSUME NEW k \in 1 .. Len(Tail(q)) PROVE Tail(q)[k] \in Elements(q)
  <2>1. k + 1 \in 1 .. Len(q) /\ k \in 1 .. Len(q) - 1
    BY <1>1
  <2>2. Tail(q)[k] = q[k + 1]
    BY <1>1, <2>1
  <2>. QED BY <2>1, <2>2 DEF Elements
<1>3. 1 \in 1 .. Len(q)
  BY <1>1
<1>. QED BY <1>1, <1>2, <1>3 DEF Elements

(* Append adds one element.                                                *)
LEMMA ElementsAppend ==
  ASSUME NEW q, IsSeq(q), NEW f
  PROVE  Elements(Append(q, f)) \subseteq Elements(q) \cup {f}
<1>1. /\ Len(Append(q, f)) = Len(q) + 1 /\ Len(q) \in Nat
      /\ \A k \in 1 .. Len(q) : Append(q, f)[k] = q[k]
      /\ Append(q, f)[Len(q) + 1] = f
  BY SeqAppend
<1>2. ASSUME NEW k \in 1 .. Len(Append(q, f)) PROVE Append(q, f)[k] \in Elements(q) \cup {f}
  <2>1. k \in 1 .. Len(q) \/ k = Len(q) + 1
    BY <1>1
  <2>. QED BY <1>1, <2>1 DEF Elements
<1>. QED BY <1>2 DEF Elements

(* The rest of a sequence has no other elements.                           *)
LEMMA ElementsRest ==
  ASSUME NEW q, IsSeq(q), NEW n \in 0 .. Len(q)
  PROVE  Elements(SubSeq(q, n + 1, Len(q))) \subseteq Elements(q)
<1> DEFINE r == SubSeq(q, n + 1, Len(q))
<1>1. Len(r) = Len(q) - n /\ (\A k \in 1 .. Len(q) - n : r[k] = q[k + n]) /\ Len(q) \in Nat
  BY SeqRest DEF IsSeq
<1> HIDE DEF r
<1>2. ASSUME NEW k \in 1 .. Len(r) PROVE r[k] \in Elements(q)
  <2>1. k + n \in 1 .. Len(q) /\ k \in 1 .. Len(q) - n
    BY <1>1
  <2>. QED BY <1>1, <2>1 DEF Elements
<1>3. Elements(r) \subseteq Elements(q)
  BY <1>2 DEF Elements
<1>. QED BY <1>3 DEF r

(* The empty sequence has no elements.                                     *)
LEMMA ElementsNone == Elements(<<>>) = {}
BY EmptyIsSeq DEF Elements

(* The queues are sequences.                                               *)
LEMMA QueuesAreSeqs ==
  ASSUME HInv
  PROVE  /\ \A b \in Banks : IsSeq(sending[b])
         /\ \A t \in Tiles : IsSeq(oRequestToNetwork[t])
         /\ \A d \in Destinations : IsSeq(Queue(d))
<1>1. PICK left \in [Tiles -> Nat] : RoutesOK(left)
  BY DEF HInv
<1>2. \A b \in Banks : IsSeq(sending[b])
  BY DEF HInv, PacketOK
<1>. QED BY <1>1, <1>2 DEF RoutesOK, OutOK, RouteOK, Stream

(* One hop of a head flit.                                                 *)
LEMMA HopKeepsTheWay ==
  ASSUME NEW t \in Tiles, NEW f, IsFlit(f), OnItsWay(t, f)
  PROVE  OnItsWay(updateRequest(t, f).dest, updateRequest(t, f))
<1> DEFINE g == updateRequest(t, f)
           next == Translation(t, f.addr)
<1>1. /\ g.op = f.op /\ g.epoch = f.epoch /\ g.final = f.final
      /\ g.dest = next.tile /\ g.addr = next.addr
  BY DEF updateRequest, Translation, IsFlit, Fields
<1>2. t \notin Controllers
  BY HierarchyAssumption
<1> HIDE DEF g
<1>3. ASSUME f.final[1] \in Controllers, f.final \in Ends(t, f.addr)
      PROVE  f.final \in Ends(g.dest, g.addr)
  <2>1. f.final # Reached(t, f.addr)
    BY <1>2, <1>3 DEF Reached
  <2>2. LastHop(t, f.addr) = Reached(next.tile, next.addr)
    BY <1>2 DEF LastHop, Onward
  <2>3. getAddressTranslation(t, f.addr) \in {Reached(next.tile, next.addr), LastHop(next.tile, next.addr)}
    BY <1>2 DEF getAddressTranslation, Onward
  <2> HIDE DEF next
  <2>. QED BY <1>1, <1>3, <2>1, <2>2, <2>3 DEF Ends
<1>. QED BY <1>1, <1>3 DEF OnItsWay, g

(* A step that puts head flits only where they are on their way.           *)
LEMMA TInvFrame ==
  ASSUME TInv, DOMAIN directory' = Tiles,
         (epoch' = epoch /\ directory' = directory) \/ epoch' = epoch + 1,
         \A b \in Banks : \A f \in Elements(sending'[b]) : OnItsWay(TileOf[b], f),
         \A t \in Tiles : \A f \in {requestsFromBanks'[t]} : OnItsWay(t, f),
         \A t \in Tiles : \A f \in Elements(oRequestToNetwork'[t]) : OnItsWay(f.dest, f),
         \A d \in Destinations : \A f \in Elements(Queue(d)') : OnItsWay(d, f),
         \A c \in Controllers : activeRequest'[c] = activeRequest[c] \/ ArrivedOK(c)'
  PROVE  TInv'
<1>1. \A tile, f : OnItsWay(tile, f) => OnItsWay(tile, f)'
  BY OnItsWayKept DEF TInv
<1>2. epoch \in Nat /\ epoch' \in {epoch, epoch + 1}
  BY DEF TInv
<1>3. \A b \in Banks : \A f \in Elements(sending'[b]) : OnItsWay(TileOf[b], f)'
  BY <1>1
<1>4. \A t \in Tiles : \A f \in {requestsFromBanks'[t]} : OnItsWay(t, f)'
  BY <1>1
<1>5. \A t \in Tiles : \A f \in Elements(oRequestToNetwork'[t]) : OnItsWay(f.dest, f)'
  BY <1>1
<1>6. \A d \in Destinations : \A f \in Elements(Queue(d)') : OnItsWay(d, f)'
  BY <1>1
<1>7. \A c \in Controllers : ArrivedOK(c)'
  BY <1>2, ArrivedKept DEF TInv
<1>8. epoch' \in Nat
  BY <1>2
<1>. QED BY <1>3, <1>4, <1>5, <1>6, <1>7, <1>8 DEF TInv

(* No request is on its way at the start.                                  *)
LEMMA TInvStarts ==
  ASSUME Init
  PROVE  TInv
<1>1. /\ epoch = 0 /\ DOMAIN directory = Tiles
      /\ \A b \in Banks : sending[b] = <<>>
      /\ \A t \in Tiles : requestsFromBanks[t] = None /\ oRequestToNetwork[t] = <<>> /\ remote[t] = <<>>
      /\ \A c \in Controllers : activeRequest[c] = Idle /\ inputQueue[c] = <<>>
  BY DEF Init, MHLInit, MemoryInit, HandlersInit
<1>2. \A d \in Destinations : Queue(d) = <<>>
  BY <1>1 DEF Queue, Destinations
<1>3. \A t : OnItsWay(t, None)
  BY DEF OnItsWay, None, Supported
<1>4. \A c \in Controllers : ArrivedOK(c)
  BY <1>1 DEF ArrivedOK
<1>. QED BY <1>1, <1>2, <1>3, <1>4, ElementsNone DEF TInv

(* A request starts with the translation of its address.                   *)
LEMMA RequestOnItsWay ==
  ASSUME TInv, HInv, TwoHopsSuffice, NEW b \in Banks, Request(b)
  PROVE  TInv'
<1>1. PICK r, version :
        /\ r \in Offers(b, requests[b] + 1)
        /\ requests[b] < MaxRequests
        /\ sending' = [sending EXCEPT ![b] = Packet(b, r, version)]
        /\ UNCHANGED <<mhlVars, memoryVars, networkVars, epoch>>
  BY DEF Request
<1>2. requests[b] + 1 \in 1 .. MaxRequests
  BY <1>1, HierarchyAssumption DEF HInv, DomainsOK
<1>3. r.op \in HeadOps /\ getAddressTranslation(TileOf[b], r.addr)[1] \in Controllers
  BY <1>1, <1>2, HierarchyAssumption DEF HeadOps, TwoHopsSuffice
<1>4. PICK q : q = Packet(b, r, version)
  OBVIOUS
<1>5. /\ \A k \in 1 .. Len(q) : k > 1 => q[k].op = "PAYLOAD"
      /\ q[1].addr = r.addr /\ q[1].epoch = epoch /\ IsSeq(q)
      /\ q[1].final = getAddressTranslation(TileOf[b], r.addr)
  <2>1. WholePacket(q) /\ Carries(b, r, q)
    BY <1>3, <1>4, PacketShape
  <2>. QED BY <2>1 DEF WholePacket, Carries
<1>6. OnItsWay(TileOf[b], q[1])
  BY <1>3, <1>5 DEF OnItsWay, Ends, TInv
<1>7. \A f \in Elements(q) : OnItsWay(TileOf[b], f)
  <2> SUFFICES ASSUME NEW k \in 1 .. Len(q) PROVE OnItsWay(TileOf[b], q[k])
    BY DEF Elements
  <2>1. k = 1 \/ k > 1
    <3>1. PICK n \in Nat : n = Len(q)
      BY <1>5 DEF IsSeq
    <3>2. k \in 1 .. n
      BY <3>1
    <3>. QED BY <3>2
  <2>2. ASSUME k > 1 PROVE OnItsWay(TileOf[b], q[k])
    <3>1. q[k].op = "PAYLOAD"
      BY <1>5, <2>2
    <3>. QED BY <3>1 DEF OnItsWay, Supported
  <2>. QED BY <1>6, <2>1, <2>2
<1>8. sending'[b] = q /\ \A c \in Banks \ {b} : sending'[c] = sending[c]
  BY <1>1, <1>4 DEF HInv, DomainsOK
<1>9. \A c \in Banks : \A f \in Elements(sending'[c]) : OnItsWay(TileOf[c], f)
  <2> SUFFICES ASSUME NEW c \in Banks PROVE \A f \in Elements(sending'[c]) : OnItsWay(TileOf[c], f)
    OBVIOUS
  <2>1. CASE c = b
    BY <1>7, <1>8, <2>1
  <2>2. CASE c # b
    BY <1>8, <2>2 DEF TInv
  <2>. QED BY <2>1, <2>2
<1>10. \A d \in Destinations : Queue(d)' = Queue(d)
  BY <1>1 DEF Queue, memoryVars, networkVars
<1>. QED BY <1>1, <1>9, <1>10, TInvFrame DEF TInv, mhlVars, memoryVars

(* Its head flit comes to the miss handling logic of its tile.             *)
LEMMA SendFlitOnItsWay ==
  ASSUME TInv, HInv, NEW b \in Banks, SendFlit(b)
  PROVE  TInv'
<1> DEFINE t == TileOf[b]  q == sending[b]
<1>1. t \in Tiles
  BY HierarchyAssumption
<1>2. /\ q # <<>>
      /\ requestsFromBanks' = [requestsFromBanks EXCEPT ![t] = Head(q)]
      /\ sending' = [sending EXCEPT ![b] = Tail(q)]
      /\ UNCHANGED <<oRequestToNetwork, directory, inputQueue, remote, activeRequest, epoch>>
  BY DEF SendFlit, memoryVars, networkVars, history
<1>3. Head(q) \in Elements(q) /\ Elements(Tail(q)) \subseteq Elements(q)
  BY <1>2, QueuesAreSeqs, ElementsTail
<1>4. \A f \in Elements(q) : OnItsWay(t, f)
  BY DEF TInv
<1>5. \A c \in Banks : \A f \in Elements(sending'[c]) : OnItsWay(TileOf[c], f)
  <2> SUFFICES ASSUME NEW c \in Banks PROVE \A f \in Elements(sending'[c]) : OnItsWay(TileOf[c], f)
    OBVIOUS
  <2>1. CASE c = b
    BY <1>2, <1>3, <1>4, <2>1 DEF HInv, DomainsOK
  <2>2. CASE c # b
    BY <1>2, <2>2 DEF HInv, DomainsOK, TInv
  <2>. QED BY <2>1, <2>2
<1>6. \A u \in Tiles : \A f \in {requestsFromBanks'[u]} : OnItsWay(u, f)
  <2> SUFFICES ASSUME NEW u \in Tiles PROVE OnItsWay(u, requestsFromBanks'[u])
    OBVIOUS
  <2>1. CASE u = t
    <3>1. requestsFromBanks'[u] = Head(q)
      BY <1>1, <1>2, <2>1 DEF HInv, DomainsOK
    <3>. QED BY <1>3, <1>4, <2>1, <3>1
  <2>2. CASE u # t
    BY <1>2, <2>2 DEF HInv, DomainsOK, TInv
  <2>. QED BY <2>1, <2>2
<1>7. \A d \in Destinations : Queue(d)' = Queue(d)
  BY <1>2 DEF Queue
<1>. QED BY <1>2, <1>5, <1>6, <1>7, TInvFrame DEF TInv

(* The directory sends a head flit one hop on, or is updated.              *)
LEMMA MissHandlingOnItsWay ==
  ASSUME TInv, HInv, NEW t \in Tiles, MissHandling(t)
  PROVE  TInv'
<1>1. /\ requestsFromBanks' = [requestsFromBanks EXCEPT ![t] = None]
      /\ UNCHANGED <<inputQueue, remote, activeRequest, sending>>
      /\ DOMAIN directory' = Tiles
      /\ (epoch' = epoch /\ directory' = directory) \/ epoch' = epoch + 1
  BY DEF MissHandling, localRequestLoop, UpdatesDirectory, HoldsHeader, ForwardsFlit, ReadsFlit,
         ForgetsStores, memoryVars, networkVars, TInv
<1>2. \A u \in Tiles : \A f \in {requestsFromBanks'[u]} : OnItsWay(u, f)
  <2>1. \A u : OnItsWay(u, None)
    BY DEF OnItsWay, None, Supported
  <2>. QED BY <1>1, <2>1 DEF HInv, DomainsOK, TInv
<1>3. \A d \in Destinations : Queue(d)' = Queue(d)
  BY <1>1 DEF Queue
<1>4. \A u \in Tiles : \A f \in Elements(oRequestToNetwork'[u]) : OnItsWay(f.dest, f)
  <2>1. CASE UNCHANGED oRequestToNetwork
    BY <2>1 DEF TInv
  <2>2. CASE ForwardsFlit(t)
    <3> DEFINE q == oRequestToNetwork[t]  f == requestsFromBanks[t]  g == Redirected(t)
    <3>1. oRequestToNetwork' = [oRequestToNetwork EXCEPT ![t] = Append(q, g)] /\ f # None
      BY <2>2 DEF ForwardsFlit, ReadsFlit
    <3>2. Elements(Append(q, g)) \subseteq Elements(q) \cup {g}
      BY QueuesAreSeqs, ElementsAppend
    <3>3. OnItsWay(g.dest, g)
      <4>1. OnItsWay(t, f) /\ IsFlit(f) /\ LogicOK(t) /\ ToCome(t) \in Nat
        BY <3>1, ToComeNat DEF TInv, HInv, LogicOK
      <4>2. CASE newLocalRequest[t]
        BY <4>1, <4>2, HopKeepsTheWay DEF Redirected
      <4>3. CASE ~newLocalRequest[t]
        <5>1. AtLogic(t) # 0
          BY <4>1, <4>3 DEF LogicOK
        <5>2. f.op = "PAYLOAD"
          BY <3>1, <5>1 DEF AtLogic
        <5>3. g = [f EXCEPT !.dest = requestDestination[t]]
          BY <4>3 DEF Redirected
        <5>4. g.op = "PAYLOAD"
          BY <4>1, <5>2, <5>3 DEF IsFlit, Fields
        <5> HIDE DEF g
        <5>. QED BY <5>4 DEF OnItsWay, Supported
      <4>. QED BY <4>2, <4>3
    <3> HIDE DEF g
    <3>4. oRequestToNetwork'[t] = Append(q, g)
          /\ \A u \in Tiles \ {t} : oRequestToNetwork'[u] = oRequestToNetwork[u]
      BY <3>1 DEF HInv, DomainsOK
    <3> SUFFICES ASSUME NEW u \in Tiles, NEW e \in Elements(oRequestToNetwork'[u])
                 PROVE  OnItsWay(e.dest, e)
      OBVIOUS
    <3>5. CASE u = t
      BY <3>2, <3>3, <3>4, <3>5 DEF TInv
    <3>6. CASE u # t
      BY <3>4, <3>6 DEF TInv
    <3>. QED BY <3>5, <3>6
  <2>. QED BY <2>1, <2>2 DEF MissHandling, localRequestLoop, UpdatesDirectory, HoldsHeader
<1>. QED BY <1>1, <1>2, <1>3, <1>4, TInvFrame DEF TInv

(* A head flit arrives where the directory sent it.                        *)
LEMMA DeliverRequestOnItsWay ==
  ASSUME TInv, HInv, NEW t \in Tiles, DeliverRequest(t)
  PROVE  TInv'
<1> DEFINE q == oRequestToNetwork[t]
<1>1. PICK f : f = Head(q)
  OBVIOUS
<1>2. PICK d : d = f.dest
  OBVIOUS
<1>3. /\ q # <<>>
      /\ oRequestToNetwork' = [oRequestToNetwork EXCEPT ![t] = Tail(q)]
      /\ UNCHANGED <<requestsFromBanks, directory, activeRequest, sending, epoch>>
  BY DEF DeliverRequest, bankVars, history
<1>4. /\ d \in Controllers => /\ inputQueue' = [inputQueue EXCEPT ![d] = Append(@, f)]
                              /\ UNCHANGED remote
      /\ d \notin Controllers => /\ remote' = [remote EXCEPT ![d] = Append(@, f)]
                                 /\ UNCHANGED inputQueue
  BY <1>1, <1>2 DEF DeliverRequest
<1>5. f \in Elements(q) /\ Elements(Tail(q)) \subseteq Elements(q)
  BY <1>1, <1>3, QueuesAreSeqs, ElementsTail
<1>6. OnItsWay(d, f)
  BY <1>2, <1>5 DEF TInv
<1>7. \A u \in Tiles : \A e \in Elements(oRequestToNetwork'[u]) : OnItsWay(e.dest, e)
  <2> SUFFICES ASSUME NEW u \in Tiles, NEW e \in Elements(oRequestToNetwork'[u])
               PROVE  OnItsWay(e.dest, e)
    OBVIOUS
  <2>1. CASE u = t
    BY <1>3, <1>5, <2>1 DEF TInv, HInv, DomainsOK
  <2>2. CASE u # t
    BY <1>3, <2>2 DEF TInv, HInv, DomainsOK
  <2>. QED BY <2>1, <2>2
<1> HIDE DEF q
<1>8. \A e \in Destinations : \A g \in Elements(Queue(e)') : OnItsWay(e, g)
  <2> SUFFICES ASSUME NEW e \in Destinations, NEW g \in Elements(Queue(e)') PROVE OnItsWay(e, g)
    OBVIOUS
  <2>1. CASE e = d
    <3>1. Queue(d)' = Append(Queue(d), f)
      <4>1. CASE d \in Controllers
        BY <1>4, <4>1 DEF HInv, DomainsOK, Queue
      <4>2. CASE d \notin Controllers
        BY <1>4, <2>1, <4>2 DEF HInv, DomainsOK, Queue, Destinations
      <4>. QED BY <4>1, <4>2
    <3>2. Elements(Append(Queue(d), f)) \subseteq Elements(Queue(d)) \cup {f}
      BY <2>1, QueuesAreSeqs, ElementsAppend
    <3>. QED BY <1>6, <2>1, <3>1, <3>2 DEF TInv
  <2>2. CASE e # d
    <3>1. Queue(e)' = Queue(e)
      BY <1>4, <2>2 DEF HInv, DomainsOK, Queue, Destinations
    <3>. QED BY <3>1 DEF TInv
  <2>. QED BY <2>1, <2>2
<1>. QED BY <1>3, <1>7, <1>8, TInvFrame DEF TInv

(* A bank passes a remote request on from its own tile.                    *)
LEMMA ServeRemoteOnItsWay ==
  ASSUME TInv, HInv, NEW t \in Tiles, ServeRemote(t)
  PROVE  TInv'
<1> DEFINE q == remote[t]
<1>1. PICK size : size = IF Head(q).op = "STORE_LINE" THEN LineWords + 1 ELSE 1
  OBVIOUS
<1>2. PICK own : own = [i \in 1 .. size |-> [q[i] EXCEPT !.bank = Home[t], !.tile = t]]
  OBVIOUS
<1>3. /\ Len(q) >= size
      /\ sending' = [sending EXCEPT ![Home[t]] = own]
      /\ remote' = [remote EXCEPT ![t] = SubSeq(q, size + 1, Len(q))]
      /\ UNCHANGED <<requestsFromBanks, directory, oRequestToNetwork, inputQueue, activeRequest, epoch>>
  BY <1>1, <1>2 DEF ServeRemote, mhlVars, memoryVars, history
<1>4. /\ t \notin Controllers /\ t \in Destinations /\ Home[t] \in Banks /\ TileOf[Home[t]] = t
      /\ LineWords \in Nat \ {0} /\ Queue(t) = q
  BY HierarchyAssumption DEF Destinations, Queue
<1>5. IsSeq(q) /\ Len(q) \in Nat
  BY <1>4, QueuesAreSeqs DEF IsSeq
<1>6. size \in 0 .. Len(q)
  BY <1>1, <1>3, <1>4, <1>5
<1>7. \A k \in 1 .. Len(q) : OnItsWay(t, q[k]) /\ IsFlit(q[k])
  <2>1. \A f \in Elements(q) : OnItsWay(t, f)
    BY <1>4 DEF TInv
  <2>2. PICK left \in [Tiles -> Nat] : RoutesOK(left)
    BY DEF HInv
  <2>3. \E m : Stream(q, Begun(t), m)
    BY <1>4, <2>2 DEF RoutesOK, RouteOK
  <2>4. \A k \in 1 .. Len(q) : IsFlit(q[k])
    BY <2>3 DEF Stream, Follows
  <2>. QED BY <2>1, <2>4 DEF Elements
<1>8. Len(own) = size
  <2>1. PICK S : S = {own[i] : i \in 1 .. size}
    OBVIOUS
  <2>2. own \in [1 .. size -> S]
    BY <1>2, <2>1
  <2>3. size \in Nat
    BY <1>6
  <2>. QED BY <2>2, <2>3, SeqDef, LenProperties
<1> HIDE DEF q
<1>9. ASSUME NEW k \in 1 .. size PROVE OnItsWay(t, own[k])
  <2>1. PICK f : f = q[k] /\ OnItsWay(t, f) /\ IsFlit(f)
    BY <1>6, <1>7
  <2>2. PICK g : g = own[k]
    OBVIOUS
  <2>3. g = [f EXCEPT !.bank = Home[t], !.tile = t]
    BY <1>2, <2>1, <2>2
  <2>4. g.op = f.op /\ g.addr = f.addr /\ g.epoch = f.epoch /\ g.final = f.final
    BY <2>1, <2>3 DEF IsFlit, Fields
  <2>5. OnItsWay(t, g)
    BY <2>1, <2>4 DEF OnItsWay
  <2>. QED BY <2>2, <2>5
<1>10. \A b \in Banks : \A f \in Elements(sending'[b]) : OnItsWay(TileOf[b], f)
  <2> SUFFICES ASSUME NEW b \in Banks, NEW f \in Elements(sending'[b])
               PROVE  OnItsWay(TileOf[b], f)
    OBVIOUS
  <2>1. CASE b = Home[t]
    <3>1. sending'[b] = own
      BY <1>3, <2>1 DEF HInv, DomainsOK
    <3>2. \E k \in 1 .. size : f = own[k]
      BY <1>8, <3>1 DEF Elements
    <3>. QED BY <1>4, <1>9, <2>1, <3>2
  <2>2. CASE b # Home[t]
    BY <1>3, <2>2 DEF TInv, HInv, DomainsOK
  <2>. QED BY <2>1, <2>2
<1>11. \A d \in Destinations : \A f \in Elements(Queue(d)') : OnItsWay(d, f)
  <2> SUFFICES ASSUME NEW d \in Destinations, NEW f \in Elements(Queue(d)') PROVE OnItsWay(d, f)
    OBVIOUS
  <2>1. CASE d = t
    <3>1. Queue(d)' = SubSeq(q, size + 1, Len(q))
      BY <1>3, <1>4, <2>1 DEF HInv, DomainsOK, Queue
    <3>2. Elements(SubSeq(q, size + 1, Len(q))) \subseteq Elements(q)
      BY <1>5, <1>6, ElementsRest
    <3>. QED BY <1>4, <2>1, <3>1, <3>2 DEF TInv
  <2>2. CASE d # t
    <3>1. Queue(d)' = Queue(d)
      BY <1>3, <2>2 DEF HInv, DomainsOK, Queue, Destinations
    <3>. QED BY <3>1 DEF TInv
  <2>. QED BY <2>1, <2>2
<1>. QED BY <1>3, <1>10, <1>11, TInvFrame DEF TInv

(* The handler that decodes a head flit is at the end of its way.          *)
LEMMA MemoryOnItsWay ==
  ASSUME TInv, HInv, MemoryStep
  PROVE  TInv'
<1>1. /\ UNCHANGED <<requestsFromBanks, directory, oRequestToNetwork, sending, remote, epoch>>
      /\ epoch \in Nat
  BY DEF MemoryStep, mhlVars, bankVars, networkVars, history, TInv
<1>2. \A c \in Controllers : c \in Destinations /\ Queue(c) = inputQueue[c] /\ IsSeq(inputQueue[c])
  BY QueuesAreSeqs DEF Queue, Destinations
<1>3. ASSUME NEW c \in Controllers
      PROVE  /\ Elements(inputQueue'[c]) \subseteq Elements(inputQueue[c])
             /\ activeRequest'[c] = activeRequest[c] \/ ArrivedOK(c)'
  <2> DEFINE q == inputQueue[c]  r == activeRequest[c]
  <2>1. CASE inputQueue'[c] = q /\ activeRequest'[c] = r
    BY <2>1
  <2>2. CASE processIdle(c)
    <3>1. /\ q # <<>> /\ inputQueue'[c] = Tail(q) /\ Head(q).op \in Supported
          /\ activeRequest'[c] = [op |-> Head(q).op, line |-> Line(Head(q).addr),
                                  bank |-> Head(q).bank, done |-> 0, head |-> Head(q)]
      BY <2>2 DEF HInv, DomainsOK, processIdle, Starts
    <3>2. Head(q) \in Elements(q) /\ Elements(Tail(q)) \subseteq Elements(q)
      BY <1>2, <3>1, ElementsTail
    <3>3. OnItsWay(c, Head(q))
      BY <1>2, <3>2 DEF TInv
    <3>4. \A address : /\ Reached(c, address) = <<c, Line(address)>>
                       /\ LastHop(c, address) = <<c, Line(address)>>
                       /\ getAddressTranslation(c, address) = <<c, Line(address)>>
      BY DEF Reached, LastHop, getAddressTranslation, Onward
    <3>5. PICK f : f = Head(q)
      OBVIOUS
    <3>6. /\ f.epoch \in Nat /\ f.epoch <= epoch
          /\ f.epoch = epoch => f.final = <<c, Line(f.addr)>>
      BY <3>1, <3>3, <3>4, <3>5 DEF OnItsWay, Ends
    <3>7. /\ activeRequest'[c].head = f /\ activeRequest'[c].line = Line(f.addr)
          /\ {"head", "line"} \subseteq DOMAIN activeRequest'[c]
      BY <3>1, <3>5
    <3>8. ArrivedOK(c)'
      BY <1>1, <3>6, <3>7 DEF ArrivedOK
    <3>. QED BY <3>1, <3>2, <3>8
  <2>3. CASE Negedge
    <3>1. inputQueue'[c] = q \/ (q # <<>> /\ inputQueue'[c] = Tail(q))
      BY <2>3 DEF Negedge, Moves, payloadAvailable
    <3>2. Elements(inputQueue'[c]) \subseteq Elements(q)
      BY <1>2, <3>1, ElementsTail
    <3>3. activeRequest'[c] = r \/ (r # Idle /\ activeRequest'[c] = Iterated(r))
      BY <2>3 DEF Negedge, Moves, Idle
    <3>4. ASSUME r # Idle, activeRequest'[c] = Iterated(r) PROVE ArrivedOK(c)'
      <4>1. CASE Iterated(r) = Idle
        BY <3>4, <4>1 DEF ArrivedOK
      <4>2. CASE Iterated(r) = [r EXCEPT !.done = @ + 1]
        <5>1. /\ {"head", "line"} \subseteq DOMAIN r /\ r.head.epoch \in Nat /\ r.head.epoch <= epoch
              /\ r.head.epoch = epoch => r.head.final = <<c, r.line>>
          BY <3>4 DEF TInv, ArrivedOK
        <5>2. /\ activeRequest'[c].head = r.head /\ activeRequest'[c].line = r.line
              /\ {"head", "line"} \subseteq DOMAIN activeRequest'[c]
          BY <3>4, <4>2, <5>1
        <5> HIDE DEF r
        <5>. QED BY <1>1, <5>1, <5>2 DEF ArrivedOK
      <4>. QED BY <4>1, <4>2 DEF Iterated
    <3>. QED BY <3>2, <3>3, <3>4
  <2>4. CASE \E e \in Controllers : processIdle(e) /\ e # c
    BY <2>1, <2>4 DEF processIdle, Starts, HInv, DomainsOK
  <2>. QED BY <2>2, <2>3, <2>4 DEF MemoryStep
<1>4. \A d \in Destinations : \A f \in Elements(Queue(d)') : OnItsWay(d, f)
  <2> SUFFICES ASSUME NEW d \in Destinations, NEW f \in Elements(Queue(d)') PROVE OnItsWay(d, f)
    OBVIOUS
  <2>1. CASE d \in Controllers
    <3>1. Queue(d)' = inputQueue'[d]
      BY <2>1 DEF Queue
    <3>. QED BY <1>2, <1>3, <2>1, <3>1 DEF TInv
  <2>2. CASE d \notin Controllers
    <3>1. Queue(d)' = Queue(d)
      BY <1>1, <2>2 DEF Queue
    <3>. QED BY <3>1 DEF TInv
  <2>. QED BY <2>1, <2>2
<1>. QED BY <1>1, <1>3, <1>4, TInvFrame DEF TInv

(* The other steps move no request.                                        *)
LEMMA OthersOnTheirWay ==
  ASSUME TInv, UNCHANGED <<mhlVars, inputQueue, activeRequest, sending, remote, epoch>>
  PROVE  TInv'
<1>1. \A d \in Destinations : Queue(d)' = Queue(d)
  BY DEF Queue
<1>. QED BY <1>1, TInvFrame DEF TInv, mhlVars

(* Every step keeps requests on their way.                                 *)
LEMMA TInvKept ==
  ASSUME TInv, HInv, TwoHopsSuffice, [Next]_vars
  PROVE  TInv'
<1>1. ASSUME NEW b \in Banks, Request(b) PROVE TInv'
  BY <1>1, RequestOnItsWay
<1>2. ASSUME NEW b \in Banks, SendFlit(b) PROVE TInv'
  BY <1>2, SendFlitOnItsWay
<1>3. ASSUME NEW t \in Tiles, MissHandling(t) PROVE TInv'
  BY <1>3, MissHandlingOnItsWay
<1>4. ASSUME NEW t \in Tiles, DeliverRequest(t) PROVE TInv'
  BY <1>4, DeliverRequestOnItsWay
<1>5. ASSUME NEW t \in Tiles, DeliverReply(t) PROVE TInv'
  BY <1>5, OthersOnTheirWay DEF DeliverReply, memoryVars, bankVars, history
<1>6. ASSUME NEW t \in Tiles, ServeRemote(t) PROVE TInv'
  BY <1>6, ServeRemoteOnItsWay
<1>7. ASSUME NEW t \in Tiles, ReceiveFlit(t) PROVE TInv'
  BY <1>7, OthersOnTheirWay DEF ReceiveFlit, memoryVars, history
<1>8. ASSUME NEW c \in Controllers, DeliverResponse(c) PROVE TInv'
  BY <1>8, OthersOnTheirWay DEF DeliverResponse, bankVars, history
<1>9. ASSUME MemoryStep PROVE TInv'
  BY <1>9, MemoryOnItsWay
<1>10. ASSUME UNCHANGED vars PROVE TInv'
  BY <1>10, OthersOnTheirWay DEF vars, memoryVars, bankVars, networkVars, history
<1>. QED BY <1>1, <1>2, <1>3, <1>4, <1>5, <1>6, <1>7, <1>8, <1>9, <1>10
         DEF Next, Transport, Finished

(* While directories lead every address to a memory controller in at most  *)
(* two hops, a request ends at the line of main memory that was its        *)
(* translation when it was made, unless a directory was updated since: what *)
(* Chip::getAddressTranslation computes at once is what the miss handling  *)
(* logic of the tiles on the way does one hop at a time (Chip.cpp,         *)
(* MissHandlingLogic.cpp, Directory.cpp).                                  *)
THEOREM RequestsGoWhereTranslated ==
  Spec /\ []TwoHopsSuffice => []RequestsFollowTranslation
<1>1. Init => HInv /\ TInv
  BY HInvStarts, TInvStarts
<1>2. HInv /\ TInv /\ TwoHopsSuffice /\ [Next]_vars => (HInv /\ TInv)'
  BY HInvKept, TInvKept
<1>3. TInv => RequestsFollowTranslation
  BY DEF TInv, ArrivedOK, RequestsFollowTranslation
<1>. QED BY <1>1, <1>2, <1>3, PTL DEF Spec

-----------------------------------------------------------------------------
(* The delay FIFOs.                                                        *)
Item == [quarters : Nat, triggered : BOOLEAN]
HeadWaits == waitFor["monitorHeadFlit"]
TimerWaits == waitFor["delayedWriteEvent"]

TypeOK ==
  /\ delay \in Nat
  /\ items \in Seq(Item)
  /\ reads \in Nat
  /\ phase \in 0 .. 3 /\ posedge \in BOOLEAN
  /\ waitFor \in [Method -> {"nothing", "delayed", "clock", "read", "write"}]
  /\ HeadWaits \in {"nothing", "delayed", "clock", "read"}
  /\ TimerWaits \in {"nothing", "delayed", "write"}
  /\ notified \subseteq {"read", "write", "head", "space", "delayed"}
  /\ timer \in {Never} \cup (Nat \ {0})
  /\ reader \in {"waiting", "ready"}

(* delayedWrite is scheduled for the flits in their order, one at a time:  *)
(* of those it has been scheduled for, all are visible but the one the     *)
(* timer runs for.  While no timer runs and delayedWrite is not about to   *)
(* be heard, each flit has had its turn.                                   *)
OneTimer ==
  /\ \A n \in DOMAIN items :
       items[n].triggered /\ items[n].quarters # 0 => items[n].quarters = timer
  /\ \A m, n \in DOMAIN items : m <= n /\ items[n].triggered => items[m].triggered
  /\ timer # Never => /\ TimerWaits = "delayed"
                      /\ \E n \in DOMAIN items :
                           items[n].triggered /\ items[n].quarters = timer
  /\ "delayed" \in notified => TimerWaits = "delayed" /\ timer = Never
  /\ TimerWaits = "delayed" => timer # Never \/ "delayed" \in notified
  /\ TimerWaits = "write" /\ "write" \notin notified =>
       \A n \in DOMAIN items : items[n].triggered

(* From the announcement of a flit until it is read, monitorHeadFlit waits *)
(* for the read; exactly one of the announcement, the reader's turn and    *)
(* the read is pending, and nothing takes the flit away.                   *)
Announced ==
  /\ HeadWaits = "read" <=> reader = "ready" \/ "head" \in notified \/ "read" \in notified
  /\ reader = "ready" => "head" \notin notified /\ "read" \notin notified
  /\ "head" \in notified => "read" \notin notified
  /\ reader = "ready" \/ "head" \in notified => canRead
  /\ "read" \in notified => reads > 0

(* Otherwise it waits for what can change its mind: for a flit to become   *)
(* visible only if there is none, beyond a clock edge only for bandwidth;  *)
(* and when it has yet to run, it will see the edge, or the reads since.   *)
Watching ==
  delay > 0 =>
    /\ HeadWaits = "delayed" => empty
    /\ HeadWaits = "clock" /\ phase = RisingEdge => ~BandwidthToRead
    /\ HeadWaits = "nothing" /\ phase = RisingEdge /\ ~empty => AppearsNow

IInv == TypeOK /\ OneTimer /\ Announced /\ Watching

-----------------------------------------------------------------------------
(* What is visible depends on the first flit alone.                        *)
LEMMA HeadVisible ==
  ASSUME TypeOK
  PROVE  /\ Len(items) \in Nat /\ DOMAIN items = 1 .. Len(items)
         /\ empty <=> ~ (1 \in DOMAIN items /\ items[1].quarters = 0)
         /\ \A n \in DOMAIN items : items[n] \in Item
  BY DEF TypeOK, empty, Visible

LEMMA HeadVisibleNext ==
  ASSUME TypeOK'
  PROVE  /\ Len(items') \in Nat /\ DOMAIN items' = 1 .. Len(items')
         /\ empty' <=> ~ (1 \in DOMAIN items' /\ items'[1].quarters = 0)
         /\ \A n \in DOMAIN items' : items'[n] \in Item
  BY DEF TypeOK, empty, Visible

(* A set of positions has a first one.                                     *)
LEMMA FirstOf ==
  ASSUME NEW S \in SUBSET Nat, S # {}
  PROVE  \E n \in S : \A k \in S : n <= k
<1> DEFINE less == {p \in Nat \X Nat : p[1] < p[2]}
<1>1. IsWellFoundedOn(less, Nat)
  BY NatLessThanWellFounded, Zenon DEF OpToRel
<1>2. \A x, y \in Nat : y < x => <<y, x>> \in less
  OBVIOUS
<1> HIDE DEF less
<1>3. PICK n \in S : \A k \in S : <<k, n>> \notin less
  BY <1>1, WFMin
<1>4. ASSUME NEW k \in S PROVE n <= k
  <2>1. n \in Nat /\ k \in Nat /\ ~ (k < n)
    BY <1>2, <1>3
  <2>. QED BY <2>1
<1>. QED BY <1>4

LEMMA Initially == FIFOInit => IInv
<1> SUFFICES ASSUME FIFOInit PROVE IInv
  OBVIOUS
<1>1. items = <<>> /\ DOMAIN items = {} /\ <<>> \in Seq(Item)
  BY DEF FIFOInit
<1>2. TypeOK
  <2>1. delay \in Nat
    BY FIFOAssumption DEF FIFOInit
  <2>2. /\ waitFor \in [Method -> {"nothing", "delayed", "clock", "read", "write"}]
        /\ HeadWaits = "nothing" /\ TimerWaits = "nothing"
    BY DEF FIFOInit, Method, HeadWaits, TimerWaits
  <2>3. items \in Seq(Item)
    BY <1>1
  <2>4. posedge \in BOOLEAN
    BY Zenon DEF FIFOInit
  <2>5. reads \in Nat /\ phase \in 0 .. 3 /\ notified = {} /\ timer = Never /\ reader = "waiting"
    BY DEF FIFOInit
  <2>. QED BY <2>1, <2>2, <2>3, <2>4, <2>5, Zenon DEF TypeOK
<1>3. OneTimer
  BY <1>1 DEF FIFOInit, OneTimer, Method, TimerWaits, Never
<1>4. Announced
  BY DEF FIFOInit, Announced, Method, HeadWaits
<1>5. Watching
  BY <1>1 DEF FIFOInit, Watching, Method, HeadWaits, RisingEdge, empty, Visible
<1>. QED BY <1>2, <1>3, <1>4, <1>5 DEF IInv

-----------------------------------------------------------------------------
(* The two ends.  The flit that is read is visible, so the timer runs for  *)
(* another one; the flit that is written is the last.                      *)
LEMMA ReadKeeps == IInv /\ read => IInv'
<1> SUFFICES ASSUME IInv, read PROVE IInv'
  OBVIOUS
<1> USE DEF IInv
<1>1. /\ 1 \in DOMAIN items /\ items[1].quarters = 0
      /\ reader = "ready" /\ reads \in Nat
      /\ UNCHANGED <<delay, phase, posedge, timer, waitFor>>
  BY HeadVisible DEF read, canRead, TypeOK, time
<1>2. /\ items' \in Seq(Item)
      /\ DOMAIN items' = 1 .. Len(items')
      /\ Len(items') = Len(items) - 1 /\ Len(items) \in Nat
      /\ \A n \in DOMAIN items' : n + 1 \in DOMAIN items /\ items'[n] = items[n + 1]
  BY <1>1 DEF read, TypeOK
<1>3. TypeOK'
  BY <1>1, <1>2 DEF read, TypeOK, HeadWaits, TimerWaits
<1>4. OneTimer'
  <2>1. \A n \in DOMAIN items' :
          items'[n].triggered /\ items'[n].quarters # 0 => items'[n].quarters = timer'
    BY <1>1, <1>2 DEF OneTimer
  <2>2. \A m, n \in DOMAIN items' : m <= n /\ items'[n].triggered => items'[m].triggered
    BY <1>2 DEF OneTimer
  <2>3. ASSUME timer # Never
        PROVE  \E n \in DOMAIN items' : items'[n].triggered /\ items'[n].quarters = timer
    <3>1. PICK n \in DOMAIN items : items[n].triggered /\ items[n].quarters = timer
      BY <2>3 DEF OneTimer
    <3>2. n # 1
      BY <1>1, <2>3, <3>1 DEF TypeOK, Never
    <3>3. n - 1 \in DOMAIN items' /\ items'[n - 1] = items[n]
      BY <1>2, <3>2, HeadVisible
    <3>. QED BY <3>1, <3>3
  <2>4. notified' = notified \cup {"read"}
    BY DEF read
  <2>. QED BY <1>1, <1>2, <2>1, <2>2, <2>3, <2>4 DEF OneTimer, TimerWaits
<1>5. Announced'
  BY <1>1 DEF Announced, read, HeadWaits, TypeOK
<1>6. HeadWaits' = "read"
  BY <1>1 DEF Announced, HeadWaits
<1>. QED BY <1>3, <1>4, <1>5, <1>6 DEF Watching

LEMMA WriteKeeps == IInv /\ write => IInv'
<1> SUFFICES ASSUME IInv, write PROVE IInv'
  OBVIOUS
<1> USE DEF IInv
<1> DEFINE new == [quarters |-> QuartersToWait, triggered |-> FALSE]
<1>1. /\ UNCHANGED <<delay, reads, phase, posedge, timer, waitFor, reader>>
      /\ notified' = notified \cup {"write"}
      /\ items' = Append(items, new)
  BY DEF write, time
<1>2. new \in Item /\ (delay > 0 => new.quarters # 0) /\ new.triggered = FALSE
  BY DEF TypeOK, QuartersToWait, Item
<1> HIDE DEF new
<1>3. /\ items' \in Seq(Item)
      /\ DOMAIN items' = 1 .. Len(items) + 1
      /\ Len(items) \in Nat /\ DOMAIN items = 1 .. Len(items)
      /\ \A n \in DOMAIN items : items'[n] = items[n]
      /\ items'[Len(items) + 1] = new
  BY <1>1, <1>2 DEF TypeOK
<1>4. TypeOK'
  BY <1>1, <1>3 DEF TypeOK, HeadWaits, TimerWaits
<1>5. OneTimer'
  <2>1. \A n \in DOMAIN items' : n \in DOMAIN items \/ n = Len(items) + 1
    BY <1>3
  <2>2. \A n \in DOMAIN items' : items'[n].triggered => n \in DOMAIN items /\ items[n].triggered
    BY <1>2, <1>3, <2>1
  <2>3. \A m, n \in DOMAIN items' : m <= n /\ n \in DOMAIN items => m \in DOMAIN items
    BY <1>3
  <2>. QED BY <1>1, <1>3, <2>2, <2>3 DEF OneTimer, TimerWaits
<1>6. 1 \in DOMAIN items => 1 \in DOMAIN items' /\ items'[1] = items[1]
  BY <1>3
<1>7. delay > 0 /\ empty => empty'
  <2>1. 1 \notin DOMAIN items => items'[1] = new
    BY <1>3
  <2>. QED BY <1>2, <1>4, <1>6, <2>1, HeadVisible, HeadVisibleNext
<1>8. ~empty => ~empty'
  BY <1>4, <1>6, HeadVisible, HeadVisibleNext
<1>9. Announced'
  BY <1>1, <1>8 DEF Announced, HeadWaits, canRead
<1>10. Watching'
  BY <1>1, <1>7 DEF Watching, HeadWaits, BandwidthToRead, AppearsNow
<1>. QED BY <1>4, <1>5, <1>9, <1>10

LEMMA FindNoSpaceKeeps == IInv /\ FindNoSpace => IInv'
  BY DEF IInv, FindNoSpace, stored, time, TypeOK, OneTimer, Announced, Watching, HeadWaits,
         TimerWaits, canRead, empty, Visible, BandwidthToRead, AppearsNow

-----------------------------------------------------------------------------
(* The methods.                                                            *)
LEMMA MonitorHeadFlitKeeps == IInv /\ monitorHeadFlit => IInv'
<1> SUFFICES ASSUME IInv, monitorHeadFlit PROVE IInv'
  OBVIOUS
<1> USE DEF IInv
<1>1. /\ UNCHANGED <<delay, items, reads, phase, posedge, timer, reader>>
      /\ HeadWaits = "nothing" /\ TimerWaits' = TimerWaits
      /\ notified' \in {notified, notified \cup {"head"}}
      /\ empty' = empty /\ canRead' = canRead
  BY DEF monitorHeadFlit, stored, time, Due, HeadWaits, TimerWaits, NextTrigger, TypeOK, Method,
         empty, Visible, canRead
<1>2. TypeOK'
  BY <1>1 DEF monitorHeadFlit, NextTrigger, TypeOK, Method, HeadWaits, OnNextRead, writeEvent
<1>3. OneTimer'
  BY <1>1 DEF OneTimer
<1>4. reader = "waiting" /\ "head" \notin notified /\ "read" \notin notified
  BY <1>1 DEF Announced, TypeOK
<1>5. CASE empty /\ HeadWaits' = "delayed" /\ notified' = notified
  BY <1>1, <1>2, <1>3, <1>4, <1>5 DEF Announced, Watching
<1>6. CASE /\ ~empty /\ HeadWaits' = "clock" /\ notified' = notified
           /\ ~(BandwidthToRead /\ AppearsNow)
  <2>1. Watching'
    BY <1>1, <1>6 DEF Watching, BandwidthToRead
  <2>. QED BY <1>1, <1>2, <1>3, <1>4, <1>6, <2>1 DEF Announced
<1>7. CASE /\ ~empty /\ HeadWaits' = "read" /\ notified' = notified \cup {"head"}
           /\ BandwidthToRead
  <2>1. Announced'
    BY <1>1, <1>4, <1>7 DEF Announced, canRead, BandwidthToRead
  <2>. QED BY <1>2, <1>3, <1>7, <2>1 DEF Watching
<1>8. \A e : NextTrigger("monitorHeadFlit", e) => HeadWaits' = e
  BY DEF NextTrigger, TypeOK, Method, HeadWaits
<1>. QED BY <1>5, <1>6, <1>7, <1>8 DEF monitorHeadFlit, OnNextRead, writeEvent

LEMMA MonitorSpaceAvailableKeeps == IInv /\ monitorSpaceAvailable => IInv'
<1> SUFFICES ASSUME IInv, monitorSpaceAvailable PROVE IInv'
  OBVIOUS
<1> USE DEF IInv
<1>1. /\ UNCHANGED <<delay, items, reads, phase, posedge, timer, reader>>
      /\ HeadWaits' = HeadWaits /\ TimerWaits' = TimerWaits
      /\ notified' \in {notified, notified \cup {"space"}}
      /\ empty' = empty /\ canRead' = canRead
  BY DEF monitorSpaceAvailable, stored, time, HeadWaits, TimerWaits, NextTrigger, TypeOK, Method,
         empty, Visible, canRead
<1>2. TypeOK'
  BY <1>1 DEF monitorSpaceAvailable, NextTrigger, TypeOK, Method, writeEvent
<1>. QED BY <1>1, <1>2 DEF OneTimer, Announced, Watching, BandwidthToRead, AppearsNow

LEMMA DelayedWriteEventKeeps == IInv /\ delayedWriteEvent => IInv'
<1> SUFFICES ASSUME IInv, delayedWriteEvent PROVE IInv'
  OBVIOUS
<1> USE DEF IInv
<1> DEFINE untriggered == {n \in DOMAIN items : ~items[n].triggered}
<1>1. /\ UNCHANGED <<delay, reads, phase, posedge, reader>>
      /\ TimerWaits = "nothing" /\ HeadWaits' = HeadWaits
      /\ timer = Never /\ "delayed" \notin notified
  <2>1. TimerWaits = "nothing"
    BY DEF delayedWriteEvent, Due, TimerWaits
  <2>. QED BY <2>1 DEF delayedWriteEvent, NextTrigger, TypeOK, Method, HeadWaits, OneTimer
<1>2. CASE untriggered = {}
  <2>1. /\ NextTrigger("delayedWriteEvent", "write")
        /\ UNCHANGED <<items, timer, notified>>
    BY <1>2 DEF delayedWriteEvent
  <2>2. TypeOK' /\ TimerWaits' = "write"
    BY <1>1, <2>1 DEF NextTrigger, TypeOK, Method, HeadWaits, TimerWaits
  <2>3. OneTimer'
    BY <1>1, <1>2, <2>1, <2>2 DEF OneTimer
  <2>4. Announced' /\ Watching'
    BY <1>1, <2>1 DEF Announced, Watching, canRead, empty, Visible, BandwidthToRead, AppearsNow
  <2>. QED BY <2>2, <2>3, <2>4
<1>3. CASE untriggered # {}
  <2> DEFINE n == CHOOSE n \in untriggered : \A k \in untriggered : n <= k
  <2>1. n \in untriggered /\ \A k \in untriggered : n <= k
    <3>1. untriggered \in SUBSET Nat
      BY HeadVisible
    <3>. QED BY <1>3, <3>1, FirstOf, Zenon
  <2>2. /\ items' = [items EXCEPT ![n].triggered = TRUE]
        /\ IF items[n].quarters = 0
           THEN notified' = notified \cup {"delayed"} /\ timer' = timer
           ELSE timer' = items[n].quarters /\ notified' = notified
        /\ NextTrigger("delayedWriteEvent", "delayed")
    BY <1>3, Zenon DEF delayedWriteEvent
  <2> HIDE DEF n
  <2>3. n \in DOMAIN items /\ ~items[n].triggered /\ items[n] \in Item
    BY <2>1, HeadVisible
  <2>4. /\ items' \in Seq(Item) /\ DOMAIN items' = DOMAIN items
        /\ \A k \in DOMAIN items : items'[k].quarters = items[k].quarters
        /\ \A k \in DOMAIN items : k # n => items'[k] = items[k]
        /\ items'[n].triggered
    <3>1. [items[n] EXCEPT !.triggered = TRUE] \in Item
      BY <2>3 DEF Item
    <3>2. items' = [items EXCEPT ![n] = [items[n] EXCEPT !.triggered = TRUE]]
      BY <2>2, Zenon
    <3>. QED BY <2>3, <3>1, <3>2, HeadVisible DEF TypeOK, Item
  <2>5. TypeOK' /\ TimerWaits' = "delayed"
    BY <1>1, <2>2, <2>3, <2>4 DEF NextTrigger, TypeOK, Method, HeadWaits, TimerWaits, Item
  <2>6. OneTimer'
    <3>1. \A k \in DOMAIN items' :
            items'[k].triggered /\ items'[k].quarters # 0 => items'[k].quarters = timer'
      <4> SUFFICES ASSUME NEW k \in DOMAIN items', items'[k].triggered, items'[k].quarters # 0
                   PROVE  items'[k].quarters = timer'
        OBVIOUS
      <4>1. k \in DOMAIN items /\ items'[k].quarters = items[k].quarters
        BY <2>4
      <4>2. items[k].triggered \/ k = n
        BY <2>4, <4>1, Zenon
      <4>3. items[k].quarters \in Nat
        BY <4>1, HeadVisible DEF Item
      <4>4. k = n
        BY <1>1, <4>1, <4>2, <4>3 DEF OneTimer, Never
      <4>. QED BY <2>2, <4>1, <4>4
    <3>2. \A j, k \in DOMAIN items' : j <= k /\ items'[k].triggered => items'[j].triggered
      <4> SUFFICES ASSUME NEW j \in DOMAIN items', NEW k \in DOMAIN items', j <= k,
                          items'[k].triggered
                   PROVE  items'[j].triggered
        OBVIOUS
      <4>1. j \in DOMAIN items /\ k \in DOMAIN items /\ (items[k].triggered \/ k = n)
        BY <2>4, Zenon
      <4>2. CASE items[k].triggered
        <5>1. items[j].triggered
          BY <4>1, <4>2 DEF OneTimer
        <5>. QED BY <2>4, <4>1, <5>1, Zenon
      <4>3. CASE k = n /\ ~items[j].triggered
        <5>1. n <= j /\ j \in Nat /\ n \in Nat
          BY <2>1, <2>3, <4>1, <4>3, HeadVisible
        <5>2. j = n
          BY <4>3, <5>1
        <5>. QED BY <2>4, <5>2, Zenon
      <4>. QED BY <2>4, <4>1, <4>2, <4>3, Zenon
    <3>3. timer' # Never => \E k \in DOMAIN items' : items'[k].triggered /\ items'[k].quarters = timer'
      BY <1>1, <2>2, <2>3, <2>4
    <3>4. /\ "delayed" \in notified' => timer' = Never
          /\ timer' # Never \/ "delayed" \in notified'
      BY <1>1, <2>2, <2>3 DEF Item, Never
    <3>. QED BY <2>5, <3>1, <3>2, <3>3, <3>4 DEF OneTimer
  <2>7. empty' <=> empty
    <3>1. 1 \in DOMAIN items => items'[1].quarters = items[1].quarters
      BY <2>4
    <3>. QED BY <2>4, <2>5, <3>1, HeadVisible, HeadVisibleNext
  <2>8. Announced' /\ Watching'
    BY <1>1, <2>2, <2>7 DEF Announced, Watching, canRead, BandwidthToRead, AppearsNow
  <2>. QED BY <2>5, <2>6, <2>8
<1>. QED BY <1>2, <1>3

-----------------------------------------------------------------------------
(* The kernel.  No method is due when time goes on, so that the timer runs *)
(* for the first flit if that one is not visible yet.                      *)
LEMMA DeltaCycleKeeps == IInv /\ DeltaCycle => IInv'
<1> SUFFICES ASSUME IInv, DeltaCycle PROVE IInv'
  OBVIOUS
<1> USE DEF IInv
<1>1. /\ UNCHANGED <<delay, items, reads, phase, timer>>
      /\ notified' = {} /\ posedge' = FALSE
      /\ HeadWaits # "nothing" /\ TimerWaits # "nothing"
      /\ empty' = empty /\ canRead' = canRead
  BY DEF DeltaCycle, stored, Due, Method, HeadWaits, TimerWaits, empty, Visible, canRead
<1>2. /\ HeadWaits' = IF HeadWaits \in notified THEN "nothing" ELSE HeadWaits
      /\ TimerWaits' = IF TimerWaits \in notified THEN "nothing" ELSE TimerWaits
      /\ reader' = IF "head" \in notified THEN "ready" ELSE reader
  BY DEF DeltaCycle, Woken, Method, HeadWaits, TimerWaits
<1>3. TypeOK'
  BY <1>1, <1>2 DEF DeltaCycle, Woken, TypeOK, Method
<1>4. OneTimer'
  BY <1>1, <1>2 DEF OneTimer, TypeOK
<1>5. Announced'
  BY <1>1, <1>2 DEF Announced, TypeOK
<1>6. Watching'
  BY <1>1, <1>2 DEF Watching, Announced, TypeOK, BandwidthToRead, AppearsNow
<1>. QED BY <1>3, <1>4, <1>5, <1>6

LEMMA TickKeeps == IInv /\ Tick => IInv'
<1> SUFFICES ASSUME IInv, Tick PROVE IInv'
  OBVIOUS
<1> USE DEF IInv
<1> DEFINE less(q) == IF q = 0 THEN 0 ELSE q - 1
<1>1. /\ UNCHANGED <<delay, notified, reader>>
      /\ notified = {} /\ posedge = FALSE
      /\ HeadWaits # "nothing" /\ TimerWaits # "nothing"
      /\ phase' \in 0 .. 3 /\ posedge' = (phase' = RisingEdge)
      /\ timer' = IF timer \in {Never, 1} THEN Never ELSE timer - 1
      /\ reads' = IF posedge' THEN 0 ELSE reads
  BY DEF Tick, Quiet, Due, Method, HeadWaits, TimerWaits, TypeOK
<1>2. /\ items' \in Seq(Item) /\ DOMAIN items' = DOMAIN items
      /\ \A n \in DOMAIN items : /\ items'[n].quarters = less(items[n].quarters)
                                  /\ items'[n].triggered = items[n].triggered
  <2>1. items' = [n \in DOMAIN items |-> [items[n] EXCEPT !.quarters = less(@)]]
    BY Zenon DEF Tick
  <2>2. ASSUME NEW n \in DOMAIN items
        PROVE  [items[n] EXCEPT !.quarters = less(@)] \in Item
    BY HeadVisible DEF Item
  <2>3. items' \in Seq(Item)
    BY <2>1, <2>2, HeadVisible
  <2>. QED BY <2>1, <2>3, HeadVisible DEF Item
<1>3. /\ HeadWaits' = IF (posedge' /\ HeadWaits = "clock") \/ (timer = 1 /\ HeadWaits = "delayed")
                      THEN "nothing" ELSE HeadWaits
      /\ TimerWaits' = IF timer = 1 /\ TimerWaits = "delayed" THEN "nothing" ELSE TimerWaits
  BY DEF Tick, Woken, Method, HeadWaits, TimerWaits, TypeOK
<1>4. TypeOK'
  BY <1>1, <1>2, <1>3 DEF Tick, Woken, TypeOK, Method, Never
<1>5. OneTimer'
  <2>1. \A n \in DOMAIN items' :
          items'[n].triggered /\ items'[n].quarters # 0 => items'[n].quarters = timer'
    BY <1>1, <1>2, HeadVisible DEF OneTimer, Item, Never
  <2>2. timer' # Never =>
          /\ TimerWaits' = "delayed"
          /\ \E n \in DOMAIN items' : items'[n].triggered /\ items'[n].quarters = timer'
    <3> SUFFICES ASSUME timer' # Never
                 PROVE  /\ TimerWaits' = "delayed"
                        /\ \E n \in DOMAIN items' : items'[n].triggered /\ items'[n].quarters = timer'
      OBVIOUS
    <3>1. timer # Never /\ timer # 1 /\ timer' = timer - 1
      BY <1>1
    <3>2. TimerWaits' = "delayed"
      BY <1>3, <3>1 DEF OneTimer
    <3>3. PICK n \in DOMAIN items : items[n].triggered /\ items[n].quarters = timer
      BY <3>1 DEF OneTimer
    <3>4. less(timer) = timer'
      BY <3>1 DEF TypeOK
    <3>. QED BY <1>2, <3>2, <3>3, <3>4
  <2>3. TimerWaits' = "delayed" => timer' # Never
    BY <1>1, <1>3 DEF OneTimer, TypeOK, Never
  <2>. QED BY <1>1, <1>2, <1>3, <2>1, <2>2, <2>3 DEF OneTimer
<1>6. ~empty => ~empty'
  BY <1>2, <1>4, HeadVisible, HeadVisibleNext
<1>7. Announced'
  BY <1>1, <1>3, <1>6, FIFOAssumption DEF Announced, canRead, TypeOK
<1>8. empty /\ ~empty' => timer = 1
  <2> SUFFICES ASSUME empty, ~empty' PROVE timer = 1
    OBVIOUS
  <2>1. 1 \in DOMAIN items /\ items[1].quarters = 1
    BY <1>2, <1>4, HeadVisible, HeadVisibleNext DEF Item
  <2>2. items[1].triggered
    <3>1. CASE TimerWaits = "write"
      BY <1>1, <2>1, <3>1 DEF OneTimer
    <3>2. CASE TimerWaits = "delayed"
      <4>1. PICK n \in DOMAIN items : items[n].triggered
        BY <1>1, <3>2 DEF OneTimer
      <4>2. 1 <= n
        BY HeadVisible
      <4>. QED BY <2>1, <4>1, <4>2 DEF OneTimer
    <3>. QED BY <1>1, <3>1, <3>2 DEF TypeOK
  <2>. QED BY <2>1, <2>2 DEF OneTimer
<1>9. Watching'
  BY <1>1, <1>3, <1>8 DEF Watching, AppearsNow
<1>. QED BY <1>4, <1>5, <1>7, <1>9

-----------------------------------------------------------------------------
LEMMA NextKeeps == IInv /\ [FIFONext]_fifoVars => IInv'
<1> SUFFICES ASSUME IInv, [FIFONext]_fifoVars PROVE IInv'
  OBVIOUS
<1>1. CASE UNCHANGED fifoVars
  BY <1>1 DEF fifoVars, stored, time, IInv, TypeOK, OneTimer, Announced, Watching, HeadWaits,
              TimerWaits, canRead, empty, Visible, BandwidthToRead, AppearsNow
<1>2. CASE read \/ write \/ FindNoSpace
  BY <1>2, ReadKeeps, WriteKeeps, FindNoSpaceKeeps
<1>3. CASE Methods
  BY <1>3, MonitorHeadFlitKeeps, MonitorSpaceAvailableKeeps, DelayedWriteEventKeeps DEF Methods
<1>4. CASE Kernel
  BY <1>4, DeltaCycleKeeps, TickKeeps DEF Kernel
<1>. QED BY <1>1, <1>2, <1>3, <1>4 DEF FIFONext

LEMMA InvariantSuffices == IInv => AnnouncementsExact
<1> SUFFICES ASSUME IInv PROVE AnnouncementsExact
  OBVIOUS
<1>1. ASSUME Quiet, phase = RisingEdge, reader = "waiting", delay > 0
      PROVE  ~canRead
  <2>1. HeadWaits \in {"delayed", "clock"}
    BY <1>1 DEF IInv, TypeOK, Announced, Quiet, Due, Method, HeadWaits
  <2>. QED BY <1>1, <2>1 DEF IInv, Watching, canRead, BandwidthToRead
<1>. QED BY <1>1 DEF AnnouncementsExact, IInv, Announced

(* A reader that has been told of a flit finds one to read, and a flit is  *)
(* announced at the clock edge it was delayed to: the assertions of        *)
(* NetworkFIFO and of Network::newData, from the three methods of          *)
(* DelayFIFO and NetworkFIFO, for any size, bandwidth and delays.          *)
THEOREM AnnouncementsAreExact == FIFOSpec => []AnnouncementsExact
<1>1. FIFOInit => IInv
  BY Initially
<1>2. IInv /\ [FIFONext]_fifoVars => IInv'
  BY NextKeeps
<1>3. IInv => AnnouncementsExact
  BY InvariantSuffices
<1>. QED BY <1>1, <1>2, <1>3, PTL DEF FIFOSpec
=============================================================================
