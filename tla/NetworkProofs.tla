---------------------------- MODULE NetworkProofs ----------------------------
(***************************************************************************)
(* Proofs about Network: its types, the assertions of newData and          *)
(* readData, and that it implements PacketCrossbar, for any number of      *)
(* inputs and outputs, any sizes and any multicasts.                       *)
(***************************************************************************)
EXTENDS Network, FiniteSetTheorems, SequenceTheorems, WellFoundedInduction, TLAPS

-----------------------------------------------------------------------------
(* The strengthening.                                                      *)
Requested(i) == {o \in Output : i \in requests[o]}

(* A head flit is there from its announcement until its last copy leaves.  *)
(* The outputs that have yet to take it are the ones that request it.      *)
HeadsOK ==
  \A i \in Input :
    /\ head[i] # "hidden" => canRead(i)
    /\ head[i] # "shown" => copiesRemaining[i] = 0 /\ Requested(i) = {}
    /\ head[i] = "shown" =>
         /\ copiesRemaining[i] # 0
         /\ copiesRemaining[i] = Cardinality(Requested(i))
         /\ Requested(i) \subseteq Head(inFIFO[i]).to

(* Packets arrive flit by flit, to one output if they are longer than one. *)
Unicast(f) == \E o \in Output : f.to = {o}

PacketsOK ==
  \A i \in Input :
    LET q == inFIFO[i] IN
    /\ rest[i] # None => Unicast(rest[i])
    /\ \A k \in 1 .. Len(q) : q[k].left # 0 => Unicast(q[k])
    /\ \A k \in 1 .. Len(q) - 1 : q[k].left # 0 => q[k + 1] = After(q[k])
    /\ q # <<>> => rest[i] = After(q[Len(q)])

(* An output in the middle of a packet is the one its next flit goes to.   *)
Upcoming(i) == IF inFIFO[i] = <<>> THEN rest[i] ELSE inFIFO[i][1]

HeldOK ==
  \A o \in held :
    /\ lastAccepted[o] \in Input
    /\ Upcoming(lastAccepted[o]) # None
    /\ Upcoming(lastAccepted[o]).to = {o}

IInv == TypeOK /\ HeadsOK /\ PacketsOK /\ HeldOK

(* When gaps settle: a flit whose head was not announced in this cycle but *)
(* could be read finds the output of its packet asleep until the next.     *)
AsleepAfterGap ==
  \A o \in held :
    LET i == lastAccepted[o] IN
    head[i] = "hidden" /\ canRead(i) =>
      /\ waitFor[o] \in {"data", "request"} /\ ~Due(o)
      /\ \A j \in Input : head[j] # "appearing"

-----------------------------------------------------------------------------
(* Facts about the data.                                                   *)
LEMMA SizesFinite ==
  /\ IsFiniteSet(Output) /\ Cardinality(Output) = NumOutputs
  /\ NumInputs \in Nat /\ NumOutputs \in Nat /\ NothingAccepted \in Nat
  /\ Input \subseteq Nat /\ NothingAccepted \notin Input
<1>1. NumOutputs \in Nat \ {0} /\ NumInputs \in Nat /\ NumInputs < NothingAccepted
  BY SizesAssumption
<1>2. IsFiniteSet(0 .. NumOutputs - 1) /\ Cardinality(0 .. NumOutputs - 1) = NumOutputs
  BY <1>1, FS_Interval
<1>. QED BY <1>1, <1>2 DEF Output, Input, NothingAccepted

(* A set of outputs can be counted.                                        *)
LEMMA SubsetsFinite ==
  ASSUME NEW S \in SUBSET Output
  PROVE  IsFiniteSet(S) /\ Cardinality(S) \in 0 .. NumOutputs /\ (Cardinality(S) = 0 <=> S = {})
<1>1. IsFiniteSet(S) /\ Cardinality(S) <= NumOutputs
  BY SizesFinite, FS_Subset
<1>2. Cardinality(S) \in Nat /\ (Cardinality(S) = 0 <=> S = {})
  BY <1>1, FS_CardinalityType, FS_EmptySet
<1>. QED BY <1>1, <1>2, SizesFinite

(* What is in an input.                                                    *)
LEMMA FIFOs ==
  ASSUME TypeOK, NEW i \in Input
  PROVE  /\ inFIFO[i] \in Seq(Flit) /\ Len(inFIFO[i]) \in Nat
         /\ DOMAIN inFIFO[i] = 1 .. Len(inFIFO[i])
         /\ \A k \in 1 .. Len(inFIFO[i]) : inFIFO[i][k] \in Flit
         /\ inFIFO[i] # <<>> <=> 1 \in 1 .. Len(inFIFO[i])
         /\ inFIFO[i] # <<>> => Head(inFIFO[i]) = inFIFO[i][1] /\ Head(inFIFO[i]) \in Flit
         /\ rest[i] \in Flit \cup {None}
  BY DEF TypeOK

(* A flit and the one after it.                                            *)
LEMMA FlitFacts ==
  ASSUME NEW f \in Flit
  PROVE  /\ f.to \in SUBSET Output /\ f.to # {} /\ f.left \in 0 .. MaxLength - 1
         /\ f # None
         /\ After(f) \in Flit \cup {None}
         /\ After(f) = None <=> f.left = 0
         /\ f.left # 0 => After(f).to = f.to
<1>1. MaxLength \in Nat /\ f.to \in Destinations /\ f.left \in 0 .. MaxLength - 1
  BY SizesAssumption DEF Flit
<1>2. f.to \in SUBSET Output /\ f.to # {}
  <2>1. f.to \in (SUBSET Output) \ {{}}
    BY <1>1, DestinationsAssumption
  <2>. QED BY <2>1
<1>3. CASE f.left = 0
  BY <1>1, <1>2, <1>3, NoneAssumption DEF After
<1>4. CASE f.left # 0
  <2>1. After(f) = [f EXCEPT !.left = @ - 1]
    BY <1>4 DEF After
  <2>2. After(f) \in Flit /\ After(f).to = f.to
    BY <1>1, <1>4, <2>1 DEF Flit
  <2>. QED BY <1>1, <1>2, <1>4, <2>2, NoneAssumption
<1>. QED BY <1>3, <1>4

(* A set of numbers has a least one.  What goes step by step is proved by  *)
(* looking at the first step at which it would not hold.                   *)
LEMMA Least ==
  ASSUME NEW S \in SUBSET Nat, S # {}
  PROVE  \E x \in S : \A y \in S : x <= y
<1> DEFINE less == {p \in Nat \X Nat : p[1] < p[2]}
<1>1. IsWellFoundedOn(less, Nat)
  BY NatLessThanWellFounded, Zenon DEF OpToRel
<1>2. \A x, y \in Nat : y < x => <<y, x>> \in less
  OBVIOUS
<1> HIDE DEF less
<1>3. PICK x \in S : \A y \in S : <<y, x>> \notin less
  BY <1>1, WFMin
<1>4. ASSUME NEW y \in S PROVE x <= y
  <2>1. x \in Nat /\ y \in Nat /\ ~ (y < x)
    BY <1>2, <1>3
  <2>. QED BY <2>1
<1>. QED BY <1>4

(* A request list that is not empty has a lowest index, and the arbiter    *)
(* grants one of the requests.                                             *)
LEMMA LowestInSet ==
  ASSUME NEW S \in SUBSET Nat, S # {}
  PROVE  Lowest(S) \in S
BY Least DEF Lowest

(* Outside packets the arbiter grants one of the requests.                 *)
LEMMA GrantIsRequest ==
  ASSUME TypeOK, NEW o \in Output, requests[o] # {}, o \notin held
  PROVE  granted(o) \in requests[o]
<1> DEFINE S == requests[o]
           A == Above(S, lastAccepted[o])
<1>1. S \in SUBSET Nat /\ S # {}
  BY SizesFinite DEF TypeOK
<1>2. A \in SUBSET S
  BY DEF Above
<1>3. granted(o) = IF A # {} THEN Lowest(A) ELSE Lowest(S)
  BY DEF granted, arbitrate, selectRequester
<1> HIDE DEF S, A
<1>4. granted(o) \in S
  BY <1>1, <1>2, <1>3, LowestInSet
<1>. QED BY <1>4 DEF S

-----------------------------------------------------------------------------
(* The invariant holds at first ...                                        *)
LEMMA Initially == Init => IInv
<1> SUFFICES ASSUME Init PROVE IInv
  OBVIOUS
<1>1. TypeOK
  BY SizesFinite, SizesAssumption DEF Init, TypeOK
<1>2. HeadsOK
  BY DEF Init, HeadsOK, Requested
<1>3. PacketsOK
  BY DEF Init, PacketsOK
<1>4. HeldOK
  BY DEF Init, HeldOK
<1>. QED BY <1>1, <1>2, <1>3, <1>4 DEF IInv

(* ... and so does what gaps need.                                         *)
LEMMA Asleep0 == Init => AsleepAfterGap
  BY DEF Init, AsleepAfterGap

-----------------------------------------------------------------------------
(* A source adds the next flit of its packet, or the first of a new one.   *)
LEMMA WriteFlitKeeps ==
  ASSUME IInv, NEW i \in Input, NEW f \in Flit, WriteFlit(i, f),
         Unicast(f) \/ f.left = 0, rest[i] \in {None, f}
  PROVE  IInv'
<1> USE DEF IInv
<1> DEFINE q == inFIFO[i]
           new == Append(q, f)
<1>1. /\ inFIFO' = [inFIFO EXCEPT ![i] = new] /\ rest' = [rest EXCEPT ![i] = After(f)]
      /\ Len(q) < InputSize
      /\ UNCHANGED <<head, readThisCycle, copiesRemaining, requests, lastAccepted, held,
                     newRequest, waitFor, outFIFO, wroteThisCycle>>
  BY DEF WriteFlit, readers, arbiters, sinks
<1>2. /\ q \in Seq(Flit) /\ Len(q) \in Nat /\ new \in Seq(Flit) /\ Len(new) = Len(q) + 1
      /\ \A k \in 1 .. Len(q) : new[k] = q[k]
      /\ new[Len(q) + 1] = f /\ new # <<>> /\ new[Len(new)] = f
      /\ q # <<>> => new[1] = q[1] /\ Head(new) = Head(q)
      /\ q = <<>> => new[1] = f
  <2>1. q \in Seq(Flit) /\ Len(q) \in Nat /\ DOMAIN q = 1 .. Len(q)
    BY FIFOs
  <2> HIDE DEF q
  <2>2. /\ new \in Seq(Flit) /\ Len(new) = Len(q) + 1
        /\ \A k \in 1 .. Len(q) : new[k] = q[k]
        /\ new[Len(q) + 1] = f
    BY <2>1, AppendProperties
  <2>3. q # <<>> => 1 \in 1 .. Len(q) /\ Head(q) = q[1] /\ Head(new) = new[1]
    BY <2>1, <2>2, EmptySeq
  <2>4. q = <<>> => Len(q) = 0
    OBVIOUS
  <2>5. new # <<>>
    BY <2>1, <2>2
  <2> HIDE DEF new
  <2>. QED BY <2>1, <2>2, <2>3, <2>4, <2>5
<1>3. inFIFO'[i] = new /\ (\A j \in Input : j # i => inFIFO'[j] = inFIFO[j])
  BY <1>1 DEF TypeOK
<1>4. rest'[i] = After(f) /\ (\A j \in Input : j # i => rest'[j] = rest[j])
  BY <1>1 DEF TypeOK
<1>5. q # <<>> => rest[i] = After(q[Len(q)])
  BY DEF PacketsOK
<1>6. TypeOK'
  <2>1. inFIFO' \in [Input -> Seq(Flit)] /\ rest' \in [Input -> Flit \cup {None}]
    BY <1>1, <1>2, FlitFacts DEF TypeOK
  <2>2. \A j \in Input : Len(inFIFO'[j]) <= InputSize
    BY <1>1, <1>2, <1>3, SizesAssumption DEF TypeOK
  <2>. QED BY <1>1, <2>1, <2>2 DEF TypeOK
<1> HIDE DEF q, new
<1>7. HeadsOK'
  <2>1. \A j \in Input : canRead(j) => canRead(j)' /\ Head(inFIFO'[j]) = Head(inFIFO[j])
    BY <1>1, <1>2, <1>3 DEF canRead, q
  <2>2. \A j \in Input : Requested(j)' = Requested(j)
    BY <1>1 DEF Requested
  <2>. QED BY <1>1, <2>1, <2>2 DEF HeadsOK
<1>8. PacketsOK'
  <2> SUFFICES ASSUME NEW j \in Input
               PROVE  LET p == inFIFO'[j] IN
                        /\ rest'[j] # None => Unicast(rest'[j])
                        /\ \A k \in 1 .. Len(p) : p[k].left # 0 => Unicast(p[k])
                        /\ \A k \in 1 .. Len(p) - 1 : p[k].left # 0 => p[k + 1] = After(p[k])
                        /\ p # <<>> => rest'[j] = After(p[Len(p)])
    BY DEF PacketsOK, Unicast
  <2>1. CASE j # i
    BY <1>3, <1>4, <2>1 DEF PacketsOK
  <2>2. CASE j = i
    <3>1. rest'[i] # None => Unicast(rest'[i])
      BY <1>4, FlitFacts DEF Unicast
    <3>2. \A k \in 1 .. Len(new) : k \in 1 .. Len(q) \/ k = Len(q) + 1
      BY <1>2
    <3>3. \A k \in 1 .. Len(new) : new[k].left # 0 => Unicast(new[k])
      BY <1>2, <3>2 DEF PacketsOK, q
    <3>4. \A k \in 1 .. Len(new) - 1 : new[k].left # 0 => new[k + 1] = After(new[k])
      <4> SUFFICES ASSUME NEW k \in 1 .. Len(new) - 1, new[k].left # 0
                   PROVE  new[k + 1] = After(new[k])
        OBVIOUS
      <4>1. k \in 1 .. Len(q) /\ new[k] = q[k] /\ q[k] \in Flit
        BY <1>2
      <4>2. CASE k = Len(q)
        <5>1. rest[i] = After(q[k]) /\ rest[i] # None
          BY <1>5, <4>1, <4>2, FlitFacts, <1>2
        <5>. QED BY <1>2, <4>1, <4>2, <5>1
      <4>3. CASE k # Len(q)
        <5>1. k \in 1 .. Len(q) - 1 /\ k + 1 \in 1 .. Len(q)
          BY <1>2, <4>1, <4>3
        <5>2. q[k + 1] = After(q[k])
          BY <4>1, <5>1 DEF PacketsOK, q
        <5>. QED BY <1>2, <4>1, <5>1, <5>2
      <4>. QED BY <4>2, <4>3
    <3>. QED BY <1>2, <1>3, <1>4, <2>2, <3>1, <3>3, <3>4
  <2>. QED BY <2>1, <2>2
<1>9. HeldOK'
  <2>1. \A j \in Input : Upcoming(j) # None => Upcoming(j)' = Upcoming(j)
    BY <1>2, <1>3, <1>4 DEF Upcoming, q
  <2>. QED BY <1>1, <2>1 DEF HeldOK
<1>. QED BY <1>6, <1>7, <1>8, <1>9

(* A source begins a packet.                                               *)
LEMMA StartPacketKeeps ==
  ASSUME IInv, NEW i \in Input, StartPacket(i) PROVE IInv'
<1>1. PICK f \in FirstFlits : WriteFlit(i, f)
  BY DEF StartPacket
<1>2. f \in Flit /\ rest[i] = None
  BY DEF FirstFlits, StartPacket
<1>3. ASSUME f.left # 0 PROVE Unicast(f)
  <2>1. f.to \in SUBSET Output /\ Cardinality(f.to) = 1
    BY <1>2, <1>3, FlitFacts DEF FirstFlits
  <2>2. PICK o : f.to = {o}
    BY <2>1, SubsetsFinite, FS_Singleton
  <2>. QED BY <2>1, <2>2 DEF Unicast
<1>. QED BY <1>1, <1>2, <1>3, WriteFlitKeeps

(* A source goes on with its packet.                                       *)
LEMMA ContinuePacketKeeps ==
  ASSUME IInv, NEW i \in Input, ContinuePacket(i) PROVE IInv'
<1>1. rest[i] \in Flit /\ WriteFlit(i, rest[i]) /\ Unicast(rest[i])
  BY DEF ContinuePacket, IInv, TypeOK, PacketsOK
<1>. QED BY <1>1, WriteFlitKeeps

-----------------------------------------------------------------------------
(* Sinks, the clock edge and the announcement of heads.                    *)
LEMMA TakeKeeps ==
  ASSUME IInv, NEW o \in Output, Take(o) PROVE IInv'
<1> USE DEF IInv
<1>1. /\ UNCHANGED <<inFIFO, rest, head, readThisCycle, copiesRemaining, requests, lastAccepted,
                     held, newRequest, wroteThisCycle>>
      /\ outFIFO' = [outFIFO EXCEPT ![o] = Tail(outFIFO[o])]
      /\ waitFor' \in [Output -> {"nothing", "request", "space", "data", "clock"}]
  BY DEF Take, sources, readers, arbiters, TypeOK
<1>2. /\ outFIFO[o] \in Seq(Flit) /\ Tail(outFIFO[o]) \in Seq(Flit)
      /\ Len(Tail(outFIFO[o])) <= OutputSize
  BY SizesAssumption DEF TypeOK, Take
<1>3. TypeOK'
  BY <1>1, <1>2 DEF TypeOK
<1>. QED BY <1>1, <1>3 DEF HeadsOK, PacketsOK, HeldOK, Requested, canRead, Upcoming

(* The clock edge.                                                         *)
LEMMA TickKeeps ==
  ASSUME IInv, Tick PROVE IInv'
<1> USE DEF IInv
<1>1. /\ UNCHANGED <<inFIFO, rest, copiesRemaining, requests, lastAccepted, held, outFIFO>>
      /\ readThisCycle' = {} /\ wroteThisCycle' = {} /\ newRequest' = {}
      /\ head' = [i \in Input |->
                    IF inFIFO[i] # <<>> /\ head[i] = "hidden" THEN "appearing" ELSE head[i]]
      /\ waitFor' \in [Output -> {"nothing", "request", "space", "data", "clock"}]
  BY DEF Tick, sources, arbiters, TypeOK
<1>2. TypeOK'
  BY <1>1 DEF TypeOK
<1>3. HeadsOK'
  BY <1>1 DEF HeadsOK, Requested, canRead, TypeOK
<1>. QED BY <1>1, <1>2, <1>3 DEF PacketsOK, HeldOK, Upcoming

(* A head flit is announced to its outputs.                                *)
LEMMA NewDataKeeps ==
  ASSUME IInv, NEW i \in Input, newData(i) PROVE IInv'
<1> USE DEF IInv
<1> DEFINE targets == Head(inFIFO[i]).to
<1>1. /\ UNCHANGED <<inFIFO, rest, readThisCycle, lastAccepted, held, outFIFO, wroteThisCycle>>
      /\ head[i] = "appearing"
      /\ copiesRemaining' = [copiesRemaining EXCEPT ![i] = Cardinality(targets)]
      /\ requests' = [o \in Output |->
                        IF o \in targets THEN requests[o] \cup {i} ELSE requests[o]]
      /\ newRequest' = newRequest \cup targets
      /\ head' = [head EXCEPT ![i] = "shown"]
      /\ waitFor' \in [Output -> {"nothing", "request", "space", "data", "clock"}]
  BY DEF newData, sources, sinks, TypeOK
<1>2. canRead(i) /\ Requested(i) = {}
  BY <1>1 DEF HeadsOK
<1>3. targets \in SUBSET Output /\ targets # {}
  BY <1>2, FIFOs, FlitFacts DEF canRead
<1>4. Cardinality(targets) \in 0 .. NumOutputs /\ Cardinality(targets) # 0
  BY <1>3, SubsetsFinite
<1> HIDE DEF targets
<1>5. TypeOK'
  BY <1>1, <1>3, <1>4 DEF TypeOK
<1>6. HeadsOK'
  <2> SUFFICES ASSUME NEW j \in Input
               PROVE  /\ head'[j] # "hidden" => canRead(j)'
                      /\ head'[j] # "shown" => copiesRemaining'[j] = 0 /\ Requested(j)' = {}
                      /\ head'[j] = "shown" =>
                           /\ copiesRemaining'[j] # 0
                           /\ copiesRemaining'[j] = Cardinality(Requested(j)')
                           /\ Requested(j)' \subseteq Head(inFIFO'[j]).to
    BY DEF HeadsOK
  <2>1. canRead(j)' <=> canRead(j)
    BY <1>1 DEF canRead
  <2>2. CASE j = i
    <3>1. Requested(i)' = targets
      <4>1. \A o \in Output : i \in requests'[o] <=> o \in targets
        BY <1>1, <1>2 DEF Requested
      <4>. QED BY <1>3, <4>1 DEF Requested
    <3>2. copiesRemaining'[i] = Cardinality(targets) /\ head'[i] = "shown"
      BY <1>1 DEF TypeOK
    <3>. QED BY <1>1, <1>2, <1>4, <2>1, <2>2, <3>1, <3>2 DEF targets
  <2>3. CASE j # i
    <3>1. Requested(j)' = Requested(j)
      BY <1>1, <2>3 DEF Requested
    <3>2. copiesRemaining'[j] = copiesRemaining[j] /\ head'[j] = head[j]
      BY <1>1, <2>3 DEF TypeOK
    <3>. QED BY <1>1, <2>1, <3>1, <3>2 DEF HeadsOK
  <2>. QED BY <2>2, <2>3
<1>. QED BY <1>1, <1>5, <1>6 DEF PacketsOK, HeldOK, Upcoming

-----------------------------------------------------------------------------
(* sendData.  What an output may take has been announced, and the output   *)
(* requests it.                                                            *)
LEMMA GrantedHead ==
  ASSUME IInv, NEW o \in Output, NEW i, i = granted(o), requests[o] # {}
  PROVE  /\ i \in Input
         /\ copiesRemaining[i] # 0 =>
              /\ head[i] = "shown" /\ canRead(i)
              /\ i \in requests[o] /\ o \in inFIFO[i][1].to
<1> USE DEF IInv
<1>1. CASE o \in held
  <2>1. i = lastAccepted[o] /\ i \in Input /\ Upcoming(i).to = {o}
    BY <1>1 DEF granted, arbitrate, HeldOK
  <2> SUFFICES ASSUME copiesRemaining[i] # 0
               PROVE  head[i] = "shown" /\ canRead(i) /\ i \in requests[o] /\ o \in inFIFO[i][1].to
    BY <2>1
  <2>2. head[i] = "shown" /\ canRead(i)
    BY <2>1 DEF HeadsOK
  <2>3. inFIFO[i] # <<>> /\ inFIFO[i][1].to = {o} /\ Head(inFIFO[i]) = inFIFO[i][1]
    BY <2>1, <2>2, FIFOs DEF Upcoming, canRead
  <2>4. Requested(i) \subseteq {o} /\ copiesRemaining[i] = Cardinality(Requested(i))
    BY <2>1, <2>2, <2>3 DEF HeadsOK
  <2>5. Requested(i) # {}
    BY <2>4, FS_EmptySet
  <2>6. o \in Requested(i)
    BY <2>4, <2>5
  <2>. QED BY <2>2, <2>3, <2>6 DEF Requested
<1>2. CASE o \notin held
  <2>1. i \in requests[o] /\ i \in Input
    BY <1>2, GrantIsRequest DEF TypeOK
  <2>2. o \in Requested(i)
    BY <2>1 DEF Requested
  <2>3. head[i] = "shown" /\ canRead(i) /\ o \in Head(inFIFO[i]).to
    BY <2>1, <2>2 DEF HeadsOK
  <2>. QED BY <2>1, <2>3, FIFOs DEF canRead
<1>. QED BY <1>1, <1>2

(* An output waits.                                                        *)
LEMMA WaitingKeeps ==
  ASSUME IInv, NEW o \in Output, WaitForSpace(o) \/ WaitForRequest(o) \/ WaitForData(o)
  PROVE  IInv'
<1> USE DEF IInv
<1>1. /\ UNCHANGED <<inFIFO, rest, head, readThisCycle, copiesRemaining, requests, held,
                     outFIFO, wroteThisCycle>>
      /\ waitFor' \in [Output -> {"nothing", "request", "space", "data", "clock"}]
      /\ newRequest' \subseteq Output
  BY DEF WaitForSpace, WaitForRequest, WaitForData, NextTrigger, sources, readers, arbiters,
         sinks, TypeOK
<1>2. /\ lastAccepted' \in [Output -> Input \cup {NothingAccepted}]
      /\ \A h \in held : lastAccepted'[h] = lastAccepted[h]
  <2>1. CASE WaitForSpace(o) \/ WaitForRequest(o)
    BY <2>1 DEF WaitForSpace, WaitForRequest, arbiters, TypeOK
  <2>2. CASE WaitForData(o)
    <3>1. requests[o] # {} /\ lastAccepted' = [lastAccepted EXCEPT ![o] = granted(o)]
      BY <2>2 DEF WaitForData, Grants
    <3>2. granted(o) \in Input
      BY <3>1, GrantedHead
    <3>3. o \in held => granted(o) = lastAccepted[o]
      BY DEF granted, arbitrate
    <3>. QED BY <3>1, <3>2, <3>3 DEF TypeOK
  <2>. QED BY <2>1, <2>2
<1>3. TypeOK'
  BY <1>1, <1>2 DEF TypeOK
<1>4. HeldOK'
  BY <1>1, <1>2 DEF HeldOK, Upcoming
<1>. QED BY <1>1, <1>3, <1>4 DEF HeadsOK, PacketsOK, Requested, canRead

(* An output takes a flit, which leaves the input with its last copy.      *)
LEMMA SendFlitKeeps ==
  ASSUME IInv, NEW o \in Output, SendFlit(o) PROVE IInv'
<1> USE DEF IInv
<1>1. PICK i : i = granted(o)
  OBVIOUS
<1> DEFINE q == inFIFO[i]
           flit == q[1]
<1>2. /\ i \in Input /\ head[i] = "shown" /\ canRead(i)
      /\ i \in requests[o] /\ o \in flit.to /\ copiesRemaining[i] # 0
  <2>1. requests[o] # {} /\ canRead(i) /\ copiesRemaining[i] > 0
    BY <1>1 DEF SendFlit, Grants, readData
  <2>. QED BY <1>1, <2>1, GrantedHead
<1>3. /\ q \in Seq(Flit) /\ q # <<>> /\ Head(q) = flit /\ flit \in Flit
      /\ Len(q) \in Nat \ {0} /\ Tail(q) \in Seq(Flit) /\ Len(Tail(q)) = Len(q) - 1
      /\ \A k \in 1 .. Len(q) - 1 : Tail(q)[k] = q[k + 1]
  BY <1>2, FIFOs, HeadTailProperties DEF canRead
<1>4. /\ requests' = [requests EXCEPT ![o] = requests[o] \ {i}]
      /\ lastAccepted' = [lastAccepted EXCEPT ![o] = i]
      /\ outFIFO' = [outFIFO EXCEPT ![o] = Append(outFIFO[o], flit)]
      /\ wroteThisCycle' = wroteThisCycle \cup {o}
      /\ rest' = rest
      /\ held' = IF flit.left = 0 THEN held \ {o} ELSE held \cup {o}
      /\ copiesRemaining' = [copiesRemaining EXCEPT ![i] = copiesRemaining[i] - 1]
  BY <1>1, <1>3, Zenon DEF SendFlit, readData, sources, remove
<1>5. /\ newRequest' \subseteq Output
      /\ waitFor' \in [Output -> {"nothing", "request", "space", "data", "clock"}]
  BY DEF SendFlit, NextTrigger, TypeOK
<1>6. IF copiesRemaining[i] = 1
      THEN /\ inFIFO' = [inFIFO EXCEPT ![i] = Tail(q)]
           /\ readThisCycle' = readThisCycle \cup {i}
           /\ head' = [head EXCEPT ![i] = "hidden"]
      ELSE UNCHANGED <<inFIFO, readThisCycle, head>>
  BY <1>1 DEF SendFlit, readData, consumed
<1> HIDE DEF q, flit
<1>7. /\ Requested(i)' = Requested(i) \ {o} /\ o \in Requested(i)
      /\ \A j \in Input : j # i => Requested(j)' = Requested(j)
  BY <1>2, <1>4 DEF Requested, TypeOK
<1>8. /\ copiesRemaining[i] \in 1 .. NumOutputs
      /\ copiesRemaining[i] = Cardinality(Requested(i))
      /\ copiesRemaining'[i] = Cardinality(Requested(i)')
      /\ Requested(i) \in SUBSET flit.to
  <2>1. /\ copiesRemaining[i] = Cardinality(Requested(i)) /\ copiesRemaining[i] \in 1 .. NumOutputs
        /\ Requested(i) \in SUBSET flit.to
    BY <1>2, <1>3, SizesFinite DEF HeadsOK, TypeOK, q
  <2>2. IsFiniteSet(Requested(i))
    BY SubsetsFinite DEF Requested
  <2>3. Cardinality(Requested(i) \ {o}) = copiesRemaining[i] - 1
    BY <1>7, <2>1, <2>2, FS_RemoveElement
  <2>. QED BY <1>2, <1>4, <1>7, <2>1, <2>3 DEF TypeOK
<1>9. ASSUME NEW j \in Input, j # i
      PROVE  /\ inFIFO'[j] = inFIFO[j] /\ head'[j] = head[j]
             /\ copiesRemaining'[j] = copiesRemaining[j]
             /\ j \in readThisCycle' <=> j \in readThisCycle
  BY <1>4, <1>6, <1>9 DEF TypeOK
<1>10. TypeOK'
  <2>1. /\ inFIFO' \in [Input -> Seq(Flit)] /\ \A j \in Input : Len(inFIFO'[j]) <= InputSize
        /\ readThisCycle' \subseteq Input /\ head' \in [Input -> {"hidden", "appearing", "shown"}]
    <3>1. CASE copiesRemaining[i] = 1
      <4>1. /\ inFIFO' = [inFIFO EXCEPT ![i] = Tail(q)]
            /\ readThisCycle' = readThisCycle \cup {i} /\ head' = [head EXCEPT ![i] = "hidden"]
        BY <1>6, <3>1
      <4>2. Len(Tail(q)) <= InputSize
        BY <1>2, <1>3, SizesAssumption DEF TypeOK, q
      <4>. QED BY <1>2, <1>3, <4>1, <4>2 DEF TypeOK
    <3>2. CASE copiesRemaining[i] # 1
      BY <1>6, <3>2 DEF TypeOK
    <3>. QED BY <3>1, <3>2
  <2>2. /\ outFIFO' \in [Output -> Seq(Flit)]
        /\ \A p \in Output : Len(outFIFO'[p]) <= OutputSize
    <3>1. outFIFO[o] \in Seq(Flit) /\ Len(outFIFO[o]) <= OutputSize /\ Len(outFIFO[o]) # OutputSize
      BY DEF TypeOK, SendFlit, Grants, canWrite, full
    <3>2. /\ Append(outFIFO[o], flit) \in Seq(Flit)
          /\ Len(Append(outFIFO[o], flit)) = Len(outFIFO[o]) + 1 /\ Len(outFIFO[o]) \in Nat
      BY <1>3, <3>1, AppendProperties
    <3>3. Len(Append(outFIFO[o], flit)) <= OutputSize
      BY <3>1, <3>2, SizesAssumption
    <3>. QED BY <1>4, <3>2, <3>3 DEF TypeOK
  <2>3. copiesRemaining' \in [Input -> 0 .. NumOutputs]
    <3>1. copiesRemaining[i] - 1 \in 0 .. NumOutputs
      BY <1>8, SizesFinite
    <3>. QED BY <1>4, <3>1 DEF TypeOK
  <2>4. /\ requests' \in [Output -> SUBSET Input] /\ held' \subseteq Output
        /\ lastAccepted' \in [Output -> Input \cup {NothingAccepted}]
        /\ wroteThisCycle' \subseteq Output
    BY <1>2, <1>4 DEF TypeOK
  <2>. QED BY <1>4, <1>5, <2>1, <2>2, <2>3, <2>4 DEF TypeOK
<1>11. HeadsOK'
  <2> SUFFICES ASSUME NEW j \in Input
               PROVE  /\ head'[j] # "hidden" => canRead(j)'
                      /\ head'[j] # "shown" => copiesRemaining'[j] = 0 /\ Requested(j)' = {}
                      /\ head'[j] = "shown" =>
                           /\ copiesRemaining'[j] # 0
                           /\ copiesRemaining'[j] = Cardinality(Requested(j)')
                           /\ Requested(j)' \subseteq Head(inFIFO'[j]).to
    BY DEF HeadsOK
  <2>1. CASE j # i
    <3>1. canRead(j)' <=> canRead(j)
      BY <1>9, <2>1 DEF canRead
    <3>2. /\ inFIFO'[j] = inFIFO[j] /\ head'[j] = head[j]
          /\ copiesRemaining'[j] = copiesRemaining[j] /\ Requested(j)' = Requested(j)
      BY <1>7, <1>9, <2>1
    <3>. QED BY <3>1, <3>2 DEF HeadsOK
  <2>2. CASE j = i /\ copiesRemaining[i] = 1
    <3>1. head'[i] = "hidden"
      BY <1>2, <1>6, <2>2 DEF TypeOK
    <3>2. copiesRemaining'[i] = 0
      BY <1>2, <1>4, <2>2 DEF TypeOK
    <3>3. Requested(i)' = {}
      <4>1. Requested(i)' \in SUBSET Output
        BY <1>7 DEF Requested
      <4>. QED BY <1>8, <3>2, <4>1, SubsetsFinite
    <3>. QED BY <2>2, <3>1, <3>2, <3>3
  <2>3. CASE j = i /\ copiesRemaining[i] # 1
    <3>1. head'[i] = "shown" /\ canRead(i)' /\ inFIFO'[i] = q
      BY <1>2, <1>6, <2>3 DEF canRead, q
    <3>2. copiesRemaining'[i] # 0
      BY <1>2, <1>4, <1>8, <2>3 DEF TypeOK
    <3>. QED BY <1>3, <1>7, <1>8, <2>3, <3>1, <3>2
  <2>. QED BY <2>1, <2>2, <2>3
<1>12. \/ inFIFO'[i] = q /\ copiesRemaining[i] # 1
       \/ inFIFO'[i] = Tail(q) /\ copiesRemaining[i] = 1
  BY <1>2, <1>6 DEF TypeOK, q
<1>13. PacketsOK'
  <2> SUFFICES ASSUME NEW j \in Input
               PROVE  LET p == inFIFO'[j] IN
                        /\ rest'[j] # None => Unicast(rest'[j])
                        /\ \A k \in 1 .. Len(p) : p[k].left # 0 => Unicast(p[k])
                        /\ \A k \in 1 .. Len(p) - 1 : p[k].left # 0 => p[k + 1] = After(p[k])
                        /\ p # <<>> => rest'[j] = After(p[Len(p)])
    BY DEF PacketsOK, Unicast
  <2>1. CASE inFIFO'[j] = inFIFO[j]
    BY <1>4, <2>1 DEF PacketsOK
  <2>2. CASE j = i /\ inFIFO'[i] = Tail(q)
    <3>0. /\ \A k \in 1 .. Len(q) : q[k].left # 0 => Unicast(q[k])
          /\ \A k \in 1 .. Len(q) - 1 : q[k].left # 0 => q[k + 1] = After(q[k])
          /\ q # <<>> => rest[i] = After(q[Len(q)])
      BY <1>2, Zenon DEF PacketsOK, q
    <3>1. \A k \in 1 .. Len(q) - 1 : k \in 1 .. Len(q) /\ k + 1 \in 1 .. Len(q)
      BY <1>3
    <3>2. \A k \in 1 .. Len(Tail(q)) : Tail(q)[k].left # 0 => Unicast(Tail(q)[k])
      <4> SUFFICES ASSUME NEW k \in 1 .. Len(q) - 1, Tail(q)[k].left # 0
                   PROVE  Unicast(Tail(q)[k])
        BY <1>3
      <4>1. Tail(q)[k] = q[k + 1] /\ k + 1 \in 1 .. Len(q)
        BY <1>3, <3>1
      <4>. QED BY <3>0, <4>1
    <3>3. \A k \in 1 .. Len(Tail(q)) - 1 :
            Tail(q)[k].left # 0 => Tail(q)[k + 1] = After(Tail(q)[k])
      <4> SUFFICES ASSUME NEW k \in 1 .. Len(Tail(q)) - 1, Tail(q)[k].left # 0
                   PROVE  Tail(q)[k + 1] = After(Tail(q)[k])
        OBVIOUS
      <4>1. k \in 1 .. Len(q) - 1 /\ k + 1 \in 1 .. Len(q) - 1
        BY <1>3
      <4>2. Tail(q)[k] = q[k + 1] /\ Tail(q)[k + 1] = q[(k + 1) + 1]
        BY <1>3, <4>1
      <4>. QED BY <3>0, <4>1, <4>2
    <3>4. Tail(q) # <<>> => rest[i] = After(Tail(q)[Len(Tail(q))])
      <4> SUFFICES ASSUME Tail(q) # <<>> PROVE rest[i] = After(Tail(q)[Len(Tail(q))])
        OBVIOUS
      <4>1. Len(Tail(q)) # 0
        BY <1>3
      <4>2. Len(q) - 1 \in 1 .. Len(q) - 1
        BY <1>3, <4>1
      <4>3. Tail(q)[Len(Tail(q))] = q[Len(q)]
        BY <1>3, <4>2
      <4>. QED BY <1>3, <3>0, <4>3
    <3>. QED BY <1>4, <2>2, <3>2, <3>3, <3>4 DEF PacketsOK
  <2>3. inFIFO'[j] = inFIFO[j] \/ (j = i /\ inFIFO'[i] = Tail(q))
    <3>1. CASE j = i
      BY <1>12, <3>1, Zenon DEF q
    <3>2. CASE j # i
      BY <1>9, <3>2, Zenon
    <3>. QED BY <3>1, <3>2, Zenon
  <2>. QED BY <2>1, <2>2, <2>3, Zenon
<1>14. flit.left # 0 => copiesRemaining[i] = 1 /\ flit.to = {o}
  <2> SUFFICES ASSUME flit.left # 0 PROVE copiesRemaining[i] = 1 /\ flit.to = {o}
    OBVIOUS
  <2>1. Unicast(flit)
    BY <1>2, <1>3 DEF PacketsOK, q, flit
  <2>2. flit.to = {o}
    BY <1>2, <2>1 DEF Unicast
  <2>3. Requested(i) = {o}
    BY <1>7, <1>8, <2>2
  <2>. QED BY <1>8, <2>2, <2>3, FS_Singleton
<1>15. flit.left # 0 => Upcoming(i)' # None /\ Upcoming(i)'.to = {o}
  <2> SUFFICES ASSUME flit.left # 0 PROVE Upcoming(i)' = After(flit)
    BY <1>3, <1>14, FlitFacts
  <2>1. inFIFO'[i] = Tail(q)
    BY <1>12, <1>14
  <2>2. CASE Tail(q) = <<>>
    <3>1. Len(q) = 1
      <4>1. Len(<<>>) = 0
        OBVIOUS
      <4>2. Len(Tail(q)) = Len(q) - 1 /\ Len(q) \in Nat
        BY <1>3
      <4>3. Len(Tail(q)) = 0
        BY <2>2, <4>1, Zenon
      <4>. QED BY <4>2, <4>3
    <3>2. rest[i] = After(flit)
      BY <1>2, <1>3, <3>1 DEF PacketsOK, q, flit
    <3>. QED BY <1>4, <2>1, <2>2, <3>2 DEF Upcoming
  <2>3. CASE Tail(q) # <<>>
    <3>1. 1 \in 1 .. Len(q) - 1
      BY <1>3, <2>3
    <3>2. Tail(q)[1] = q[1 + 1] /\ q[1 + 1] = After(flit)
      BY <1>2, <1>3, <3>1 DEF PacketsOK, q, flit
    <3>. QED BY <2>1, <2>3, <3>2 DEF Upcoming
  <2>. QED BY <2>2, <2>3
<1>16. HeldOK'
  <2> SUFFICES ASSUME NEW p \in held', NEW j, j = lastAccepted'[p]
               PROVE  j \in Input /\ Upcoming(j)' # None /\ Upcoming(j)'.to = {p}
    BY DEF HeldOK, Upcoming
  <2>1. CASE p = o
    <3>1. flit.left # 0 /\ lastAccepted'[o] = i
      BY <1>4, <2>1 DEF TypeOK
    <3>2. j = i
      BY <2>1, <3>1
    <3>. QED BY <1>2, <1>15, <2>1, <3>1, <3>2
  <2>2. CASE p # o
    <3>1. p \in held /\ lastAccepted'[p] = lastAccepted[p]
      BY <1>4, <2>2 DEF TypeOK
    <3>2. j \in Input /\ Upcoming(j) # None /\ Upcoming(j).to = {p}
      BY <3>1 DEF HeldOK
    <3>3. j # i
      <4>1. Upcoming(i) = flit
        BY <1>3 DEF Upcoming, q, flit
      <4>. QED BY <1>2, <2>2, <3>2, <4>1
    <3>4. inFIFO'[j] = inFIFO[j] /\ rest'[j] = rest[j]
      BY <1>4, <1>9, <3>2, <3>3
    <3>5. Upcoming(j)' = Upcoming(j)
      BY <3>4, Zenon DEF Upcoming
    <3>. QED BY <3>2, <3>5
  <2>. QED BY <2>1, <2>2
<1>. QED BY <1>10, <1>11, <1>13, <1>16

-----------------------------------------------------------------------------
(* Every step keeps the invariant.                                         *)
LEMMA NextKeeps == IInv /\ [Next]_vars => IInv'
<1> SUFFICES ASSUME IInv, [Next]_vars PROVE IInv'
  OBVIOUS
<1>1. CASE UNCHANGED vars
  <2> USE <1>1 DEF vars, sources, readers, arbiters, sinks, IInv
  <2>1. TypeOK'
    BY DEF TypeOK
  <2>2. HeadsOK'
    BY DEF HeadsOK, Requested, canRead
  <2>3. PacketsOK' /\ HeldOK'
    BY DEF PacketsOK, HeldOK, Upcoming
  <2>. QED BY <2>1, <2>2, <2>3
<1>2. CASE Tick
  BY <1>2, TickKeeps
<1>3. ASSUME NEW i \in Input, StartPacket(i) \/ ContinuePacket(i) \/ newData(i) PROVE IInv'
  BY <1>3, StartPacketKeeps, ContinuePacketKeeps, NewDataKeeps
<1>4. ASSUME NEW o \in Output, Take(o) \/ sendData(o) PROVE IInv'
  BY <1>4, TakeKeeps, WaitingKeeps, SendFlitKeeps DEF sendData
<1>. QED BY <1>1, <1>2, <1>3, <1>4 DEF Next

(* Every variable of a network has its type in all its states, and no FIFO *)
(* holds more than it has room for: newData and sendData of Network.cpp,   *)
(* for any number of inputs and outputs, any FIFOs and any multicasts.     *)
THEOREM TypesAreKept == Spec => []TypeOK
<1>1. IInv => TypeOK
  BY DEF IInv
<1>. QED BY <1>1, Initially, NextKeeps, PTL DEF Spec

-----------------------------------------------------------------------------
(* When gaps settle.                                                       *)
LEMMA AsleepKept == GapsSettle /\ IInv /\ AsleepAfterGap /\ [Next]_vars => AsleepAfterGap'
<1> SUFFICES ASSUME GapsSettle, IInv, AsleepAfterGap, [Next]_vars,
                    NEW o \in held',
                    NEW i, i = lastAccepted'[o], head'[i] = "hidden", canRead(i)'
             PROVE  /\ waitFor'[o] \in {"data", "request"} /\ ~Due(o)'
                    /\ \A j \in Input : head'[j] # "appearing"
  BY DEF AsleepAfterGap
<1> USE DEF IInv
<1>0. IInv' /\ o \in Output /\ i \in Input
  BY NextKeeps DEF HeldOK, TypeOK
<1> DEFINE Asleep == /\ waitFor[o] \in {"data", "request"} /\ ~Due(o)
                     /\ \A j \in Input : head[j] # "appearing"
<1>1. o \in held /\ i = lastAccepted[o] /\ head[i] = "hidden" /\ canRead(i) => Asleep
  BY DEF AsleepAfterGap
<1>2. CASE UNCHANGED vars
  BY <1>0, <1>1, <1>2 DEF vars, sources, readers, arbiters, sinks, canRead, Due
<1>3. CASE Tick
  BY <1>0, <1>3 DEF Tick, sources, arbiters, canRead, TypeOK
<1>4. ASSUME NEW j \in Input, NEW f \in Flit, WriteFlit(j, f),
             rest[j] = None \/ (Gap(j) => Settled(j))
      PROVE  /\ waitFor'[o] \in {"data", "request"} /\ ~Due(o)'
             /\ \A k \in Input : head'[k] # "appearing"
  <2>1. /\ UNCHANGED <<head, readThisCycle, lastAccepted, held, newRequest, waitFor>>
        /\ \A k \in Input : k # j => inFIFO'[k] = inFIFO[k]
    BY <1>4 DEF WriteFlit, readers, arbiters, TypeOK
  <2>2. Asleep
    <3>1. CASE canRead(i)
      BY <1>1, <2>1, <3>1
    <3>2. CASE ~canRead(i)
      <4>1. i = j /\ Gap(i) /\ i = lastAccepted[o] /\ o \in held
        BY <1>0, <2>1, <3>2 DEF canRead, Gap
      <4>2. rest[i] # None
        BY <4>1 DEF HeldOK, Upcoming, Gap
      <4>3. Settled(i)
        BY <1>4, <4>1, <4>2
      <4>. QED BY <1>0, <4>1, <4>3 DEF Settled, Quiet
    <3>. QED BY <3>1, <3>2
  <2>. QED BY <2>1, <2>2 DEF Due
<1>5. ASSUME NEW j \in Input, StartPacket(j) \/ ContinuePacket(j)
      PROVE  /\ waitFor'[o] \in {"data", "request"} /\ ~Due(o)'
             /\ \A k \in Input : head'[k] # "appearing"
  <2>1. CASE StartPacket(j)
    <3>1. PICK f \in FirstFlits : WriteFlit(j, f)
      BY <2>1 DEF StartPacket
    <3>. QED BY <1>4, <2>1, <3>1 DEF StartPacket, FirstFlits
  <2>2. CASE ContinuePacket(j)
    <3>1. rest[j] \in Flit
      BY <2>2 DEF ContinuePacket, TypeOK
    <3>. QED BY <1>4, <2>2, <3>1 DEF ContinuePacket
  <2>. QED BY <1>5, <2>1, <2>2
<1>6. ASSUME NEW j \in Input, newData(j) PROVE FALSE
  <2>1. /\ head[j] = "appearing" /\ head' = [head EXCEPT ![j] = "shown"]
        /\ UNCHANGED <<inFIFO, readThisCycle, lastAccepted, held>>
    BY <1>6 DEF newData
  <2>2. head[i] = "hidden" /\ canRead(i)
    BY <1>0, <2>1 DEF TypeOK, canRead
  <2>. QED BY <1>1, <2>1, <2>2
<1>7. ASSUME NEW p \in Output, Take(p)
      PROVE  /\ waitFor'[o] \in {"data", "request"} /\ ~Due(o)'
             /\ \A k \in Input : head'[k] # "appearing"
  <2>1. /\ UNCHANGED <<inFIFO, head, readThisCycle, lastAccepted, held, newRequest>>
        /\ waitFor[o] # "space" => waitFor'[o] = waitFor[o]
    BY <1>0, <1>7 DEF Take, readers, arbiters, TypeOK
  <2>2. Asleep
    BY <1>1, <2>1 DEF canRead
  <2>. QED BY <2>1, <2>2 DEF Due
<1>8. ASSUME NEW p \in Output, WaitForSpace(p) \/ WaitForRequest(p)
      PROVE  /\ waitFor'[o] \in {"data", "request"} /\ ~Due(o)'
             /\ \A k \in Input : head'[k] # "appearing"
  <2>1. /\ UNCHANGED <<inFIFO, head, readThisCycle, lastAccepted, held>> /\ Due(p)
        /\ p # o => waitFor'[o] = waitFor[o] /\ (o \in newRequest' <=> o \in newRequest)
    BY <1>0, <1>8 DEF WaitForSpace, WaitForRequest, NextTrigger, Runs, readers, arbiters, TypeOK
  <2>2. Asleep
    BY <1>1, <2>1 DEF canRead
  <2>3. p # o
    BY <2>1, <2>2
  <2>. QED BY <2>1, <2>2, <2>3 DEF Due
<1>9. ASSUME NEW p \in Output, WaitForData(p)
      PROVE  /\ waitFor'[o] \in {"data", "request"} /\ ~Due(o)'
             /\ \A k \in Input : head'[k] # "appearing"
  <2>1. /\ UNCHANGED <<inFIFO, head, readThisCycle, held>> /\ Due(p)
        /\ ~canRead(granted(p))
        /\ lastAccepted' = [lastAccepted EXCEPT ![p] = granted(p)]
        /\ p # o => waitFor'[o] = waitFor[o] /\ (o \in newRequest' <=> o \in newRequest)
    BY <1>0, <1>9 DEF WaitForData, NextTrigger, Grants, Runs, readers, TypeOK
  <2>2. p # o
    <3> SUFFICES ASSUME p = o PROVE FALSE
      OBVIOUS
    <3>1. lastAccepted'[o] = granted(p)
      BY <1>0, <2>1 DEF TypeOK
    <3>. QED BY <2>1, <3>1 DEF canRead
  <2>3. i = lastAccepted[o]
    BY <1>0, <2>1, <2>2 DEF TypeOK
  <2>4. Asleep
    BY <1>1, <2>1, <2>3 DEF canRead
  <2>. QED BY <2>1, <2>2, <2>4 DEF Due
<1>10. ASSUME NEW p \in Output, SendFlit(p)
       PROVE  /\ waitFor'[o] \in {"data", "request"} /\ ~Due(o)'
              /\ \A k \in Input : head'[k] # "appearing"
  <2>1. PICK g : g = granted(p)
    OBVIOUS
  <2>2. /\ g \in Input /\ head[g] = "shown" /\ Due(p)
    <3>1. requests[p] # {} /\ Due(p) /\ copiesRemaining[g] > 0
      BY <1>10, <2>1 DEF SendFlit, Grants, Runs, readData
    <3>. QED BY <2>1, <3>1, GrantedHead
  <2>3. /\ lastAccepted' = [lastAccepted EXCEPT ![p] = g]
        /\ held' \in {held \ {p}, held \cup {p}}
        /\ p # o => waitFor'[o] = waitFor[o] /\ (o \in newRequest' <=> o \in newRequest)
    BY <1>0, <1>10, <2>1 DEF SendFlit, NextTrigger, TypeOK
  <2>4. \/ UNCHANGED <<inFIFO, head, readThisCycle>>
        \/ /\ head' = [head EXCEPT ![g] = "hidden"]
           /\ readThisCycle' = readThisCycle \cup {g}
           /\ inFIFO' = [inFIFO EXCEPT ![g] = Tail(inFIFO[g])]
    BY <1>10, <2>1, Zenon DEF SendFlit, readData
  <2>5. i # g
    BY <2>2, <2>4 DEF canRead
  <2>6. p # o
    BY <1>0, <2>3, <2>5 DEF TypeOK
  <2>7. o \in held /\ i = lastAccepted[o] /\ head[i] = "hidden" /\ canRead(i)
    BY <1>0, <2>3, <2>4, <2>5, <2>6 DEF TypeOK, canRead
  <2>8. \A k \in Input : head[k] # "appearing" => head'[k] # "appearing"
    BY <2>4 DEF TypeOK
  <2>. QED BY <1>1, <2>3, <2>6, <2>7, <2>8 DEF Due
<1>. QED BY <1>2, <1>3, <1>5, <1>6, <1>7, <1>8, <1>9, <1>10 DEF Next, sendData

(* What is asserted follows.                                               *)
LEMMA AssertionsFollow == IInv /\ AsleepAfterGap => AssertionsHold
<1> SUFFICES ASSUME IInv, AsleepAfterGap PROVE AssertionsHold
  OBVIOUS
<1> USE DEF IInv
<1>1. \A i \in Input : head[i] = "appearing" => canRead(i)
  BY DEF HeadsOK
<1>2. ASSUME NEW o \in Output, Grants(o), canRead(granted(o))
      PROVE  copiesRemaining[granted(o)] > 0
  <2>1. PICK i \in Input : i = granted(o)
    BY <1>2, GrantedHead DEF Grants
  <2>2. head[i] = "shown"
    <3>1. CASE o \in held
      BY <1>2, <2>1, <3>1 DEF AsleepAfterGap, Grants, Runs, granted, arbitrate, TypeOK
    <3>2. CASE o \notin held
      <4>1. o \in Requested(i)
        BY <1>2, <2>1, <3>2, GrantIsRequest DEF Grants, Requested
      <4>. QED BY <4>1 DEF HeadsOK
    <3>. QED BY <3>1, <3>2
  <2>. QED BY <2>1, <2>2, SizesFinite DEF HeadsOK, TypeOK
<1>. QED BY <1>1, <1>2 DEF AssertionsHold

(* The assertions of newData and readData (Network.cpp) never fail when    *)
(* the gaps in packets settle: a flit that is announced is there, and an   *)
(* output takes a flit only after its announcement and no more often than  *)
(* it has targets, although a multicast is taken one output at a time and  *)
(* an output in the middle of a packet serves an input without a request.  *)
THEOREM AssertionsNeverFail ==
  ASSUME GapsSettle
  PROVE  Spec => []AssertionsHold
<1>1. IInv /\ AsleepAfterGap /\ [Next]_vars => IInv' /\ AsleepAfterGap'
  BY NextKeeps, AsleepKept
<1>2. Init => IInv /\ AsleepAfterGap
  BY Initially, Asleep0
<1>. QED BY <1>1, <1>2, AssertionsFollow, PTL DEF Spec
-----------------------------------------------------------------------------
(* Selections: the flits of a queue for one output.                        *)

\* F[k] is what the first k flits of q have for o.
Selects(q, o, n, F) ==
  /\ F[0] = <<>>
  /\ \A k \in 1 .. n : F[k] = IF o \in q[k].to THEN Append(F[k - 1], q[k]) ELSE F[k - 1]

SelectStep(q, o, n, F) == F \in [0 .. n -> Seq(Flit)] /\ Selects(q, o, n, F)

(* A queue has its selections, flit by flit ...                            *)
LEMMA SelectionExists ==
  ASSUME NEW q \in Seq(Flit), NEW o
  PROVE  \E F : SelectStep(q, o, Len(q), F)
<1>0. Len(q) \in Nat /\ \A k \in 1 .. Len(q) : q[k] \in Flit
  BY LenProperties, ElementOfSeq
<1> DEFINE Bad == {n \in 0 .. Len(q) : ~ \E F : SelectStep(q, o, n, F)}
<1>1. SUFFICES ASSUME Bad # {} PROVE FALSE
  BY <1>0
<1>2. PICK n \in Bad : \A m \in Bad : n <= m
  <2>1. Bad \in SUBSET Nat
    BY <1>0
  <2> HIDE DEF Bad
  <2>. QED BY <1>1, <2>1, Least
<1>3. n # 0
  <2> DEFINE F == [k \in 0 .. 0 |-> <<>>]
  <2>1. F \in [0 .. 0 -> Seq(Flit)] /\ F[0] = <<>>
    BY EmptySeq
  <2>2. \A k \in 1 .. 0 : FALSE
    OBVIOUS
  <2> HIDE DEF F
  <2>3. SelectStep(q, o, 0, F)
    BY <2>1, <2>2 DEF SelectStep, Selects
  <2>. QED BY <2>3
<1>4. n \in Nat /\ n <= Len(q) /\ n - 1 \in 0 .. Len(q) /\ n - 1 \notin Bad
  BY <1>0, <1>2, <1>3
<1>5. PICK F : SelectStep(q, o, n - 1, F)
  BY <1>4
<1> DEFINE l == IF o \in q[n].to THEN Append(F[n - 1], q[n]) ELSE F[n - 1]
           G == [k \in 0 .. n |-> IF k = n THEN l ELSE F[k]]
<1>6. l \in Seq(Flit)
  <2>1. F[n - 1] \in Seq(Flit) /\ q[n] \in Flit
    BY <1>0, <1>3, <1>4, <1>5 DEF SelectStep, Selects
  <2>2. Append(F[n - 1], q[n]) \in Seq(Flit)
    BY <2>1, AppendProperties
  <2>. QED BY <2>1, <2>2
<1>7. l = IF o \in q[n].to THEN Append(F[n - 1], q[n]) ELSE F[n - 1]
  OBVIOUS
<1> HIDE DEF l
<1>8. /\ G \in [0 .. n -> Seq(Flit)] /\ G[n] = l
      /\ \A k \in 0 .. n - 1 : G[k] = F[k]
  <2>1. ASSUME NEW k \in 0 .. n, k # n PROVE k \in 0 .. n - 1
    BY <1>4, <2>1
  <2>2. F \in [0 .. n - 1 -> Seq(Flit)]
    BY <1>5 DEF SelectStep, Selects
  <2>3. n \in 0 .. n /\ \A k \in 0 .. n - 1 : k \in 0 .. n /\ k # n
    BY <1>4
  <2>. QED BY <1>6, <2>1, <2>2, <2>3
<1> HIDE DEF G
<1>9. G[0] = <<>>
  BY <1>3, <1>4, <1>5, <1>8 DEF SelectStep, Selects
<1>10. ASSUME NEW k \in 1 .. n
       PROVE  G[k] = IF o \in q[k].to THEN Append(G[k - 1], q[k]) ELSE G[k - 1]
  <2>1. G[k - 1] = F[k - 1]
    BY <1>4, <1>8
  <2>2. CASE k = n
    BY <1>7, <1>8, <2>1, <2>2
  <2>3. CASE k # n
    <3>1. k \in 1 .. n - 1 /\ G[k] = F[k]
      BY <1>4, <1>8, <2>3
    <3>2. F[k] = IF o \in q[k].to THEN Append(F[k - 1], q[k]) ELSE F[k - 1]
      BY <1>5, <3>1 DEF SelectStep, Selects
    <3>. QED BY <2>1, <3>1, <3>2
  <2>. QED BY <2>2, <2>3
<1>11. SelectStep(q, o, n, G)
  BY <1>8, <1>9, <1>10 DEF SelectStep, Selects
<1>. QED BY <1>11

(* ... and they are determined, flit by flit ...                           *)
LEMMA SelectionUnique ==
  ASSUME NEW q \in Seq(Flit), NEW o, NEW F, NEW G,
         Selects(q, o, Len(q), F), Selects(q, o, Len(q), G)
  PROVE  F[Len(q)] = G[Len(q)]
<1>0. Len(q) \in Nat
  BY LenProperties
<1> DEFINE Bad == {k \in 0 .. Len(q) : F[k] # G[k]}
<1>1. SUFFICES ASSUME Bad # {} PROVE FALSE
  BY <1>0
<1>2. PICK k \in Bad : \A m \in Bad : k <= m
  <2>1. Bad \in SUBSET Nat
    BY <1>0
  <2> HIDE DEF Bad
  <2>. QED BY <1>1, <2>1, Least
<1>5. k # 0
  BY DEF Selects
<1>3. k \in 1 .. Len(q) /\ k - 1 \in 0 .. Len(q) /\ k - 1 \notin Bad
  BY <1>0, <1>2, <1>5
<1>4. F[k - 1] = G[k - 1]
  BY <1>3
<1>. QED BY <1>2, <1>3, <1>4 DEF Selects

(* ... so the last of them is what FlitsFor returns.                       *)
LEMMA FlitsForIs ==
  ASSUME NEW q \in Seq(Flit), NEW o, NEW F, SelectStep(q, o, Len(q), F)
  PROVE  FlitsFor(q, o) = F[Len(q)]
<1> DEFINE B(G) == [n \in 0 .. Len(q) |-> IF n = 0 THEN <<>>
                                         ELSE IF o \in q[n].to THEN Append(G[n - 1], q[n])
                                         ELSE G[n - 1]]
           C == CHOOSE G : G = B(G)
<1>0. Len(q) \in Nat
  BY LenProperties
<1>1. F = B(F)
  <2>1. ASSUME NEW i \in 0 .. Len(q) PROVE F[i] = B(F)[i]
    <3>1. CASE i = 0
      BY <3>1 DEF SelectStep, Selects
    <3>2. CASE i # 0
      <4>1. i \in 1 .. Len(q)
        BY <1>0, <3>2
      <4>. QED BY <3>2, <4>1 DEF SelectStep, Selects
    <3>. QED BY <3>1, <3>2
  <2>2. F = [n \in 0 .. Len(q) |-> F[n]]
    BY DEF SelectStep, Selects
  <2>3. B(F) = [n \in 0 .. Len(q) |-> B(F)[n]]
    OBVIOUS
  <2> HIDE DEF B
  <2>. QED BY <2>1, <2>2, <2>3
<1>2. FlitsFor(q, o) = C[Len(q)]
  BY DEF FlitsFor
<1>3. C = B(C)
  BY <1>1
<1> HIDE DEF C
<1>4. C[0] = <<>> /\ \A k \in 1 .. Len(q) :
        C[k] = IF o \in q[k].to THEN Append(C[k - 1], q[k]) ELSE C[k - 1]
  <2>1. \A n \in 0 .. Len(q) : C[n] = B(C)[n]
    BY <1>3
  <2>2. C[0] = <<>>
    BY <1>0, <2>1
  <2>3. ASSUME NEW k \in 1 .. Len(q)
        PROVE  C[k] = IF o \in q[k].to THEN Append(C[k - 1], q[k]) ELSE C[k - 1]
    <3>1. k \in 0 .. Len(q) /\ k # 0
      BY <1>0
    <3>. QED BY <2>1, <3>1
  <2>. QED BY <2>2, <2>3
<1>5. F[Len(q)] = C[Len(q)]
  <2>1. Selects(q, o, Len(q), C)
    BY <1>4 DEF Selects
  <2>2. Selects(q, o, Len(q), F)
    BY DEF SelectStep
  <2> HIDE DEF B
  <2>. QED BY <2>1, <2>2, SelectionUnique
<1>. QED BY <1>2, <1>5

(* A flit that is appended is the last of those it belongs to.             *)
LEMMA FlitsForAppend ==
  ASSUME NEW q \in Seq(Flit), NEW f \in Flit, NEW o
  PROVE  /\ FlitsFor(q, o) \in Seq(Flit)
         /\ FlitsFor(Append(q, f), o) = IF o \in f.to THEN Append(FlitsFor(q, o), f)
                                        ELSE FlitsFor(q, o)
<1>1. PICK F : SelectStep(q, o, Len(q), F)
  BY SelectionExists
<1>2. PICK G : SelectStep(Append(q, f), o, Len(Append(q, f)), G)
  <2>1. Append(q, f) \in Seq(Flit)
    BY AppendProperties
  <2>. QED BY <2>1, SelectionExists
<1>3. /\ Len(q) \in Nat /\ Append(q, f) \in Seq(Flit) /\ Len(Append(q, f)) = Len(q) + 1
      /\ Append(q, f)[Len(q) + 1] = f
      /\ \A k \in 1 .. Len(q) : Append(q, f)[k] = q[k]
  BY AppendProperties, LenProperties
<1>4. FlitsFor(q, o) = F[Len(q)] /\ FlitsFor(Append(q, f), o) = G[Len(q) + 1]
  BY <1>1, <1>2, <1>3, FlitsForIs
<1>5. F[Len(q)] = G[Len(q)]
  <2>1. Selects(q, o, Len(q), F)
    BY <1>1 DEF SelectStep
  <2>2. Selects(q, o, Len(q), G)
    BY <1>2, <1>3 DEF SelectStep, Selects
  <2>. QED BY <2>1, <2>2, SelectionUnique
<1>6. G[Len(q) + 1] = IF o \in f.to THEN Append(G[Len(q)], f) ELSE G[Len(q)]
  <2>1. Len(q) + 1 \in 1 .. Len(q) + 1 /\ (Len(q) + 1) - 1 = Len(q)
    BY <1>3
  <2>. QED BY <1>2, <1>3, <2>1 DEF SelectStep, Selects
<1>7. F[Len(q)] \in Seq(Flit)
  BY <1>1, <1>3 DEF SelectStep, Selects
<1>. QED BY <1>4, <1>5, <1>6, <1>7

(* The first flit is the first of those it belongs to.                     *)
LEMMA FlitsForTail ==
  ASSUME NEW q \in Seq(Flit), q # <<>>, NEW o
  PROVE  FlitsFor(q, o) = IF o \in q[1].to THEN <<q[1]>> \o FlitsFor(Tail(q), o)
                          ELSE FlitsFor(Tail(q), o)
<1>1. /\ Len(q) \in Nat \ {0} /\ Tail(q) \in Seq(Flit) /\ Len(Tail(q)) = Len(q) - 1
      /\ \A k \in 1 .. Len(q) - 1 : Tail(q)[k] = q[k + 1]
      /\ \A k \in 1 .. Len(q) : q[k] \in Flit
  BY EmptySeq, LenProperties, HeadTailProperties, ElementOfSeq
<1>2. PICK F : SelectStep(q, o, Len(q), F)
  BY SelectionExists
<1>3. PICK G : SelectStep(Tail(q), o, Len(q) - 1, G)
  BY <1>1, SelectionExists
<1> DEFINE first(s) == IF o \in q[1].to THEN <<q[1]>> \o s ELSE s
           Bad == {k \in 0 .. Len(q) - 1 : F[k + 1] # first(G[k])}
<1>4. Bad = {}
  <2>1. SUFFICES ASSUME Bad # {} PROVE FALSE
    OBVIOUS
  <2>2. PICK k \in Bad : \A m \in Bad : k <= m
    <3>1. Bad \in SUBSET Nat
      BY <1>1
    <3> HIDE DEF Bad
    <3>. QED BY <2>1, <3>1, Least
  <2>3. F[1] = IF o \in q[1].to THEN Append(<<>>, q[1]) ELSE <<>>
    <3>1. 1 \in 1 .. Len(q) /\ F[0] = <<>>
      BY <1>1, <1>2 DEF SelectStep, Selects
    <3>2. F[1] = IF o \in q[1].to THEN Append(F[1 - 1], q[1]) ELSE F[1 - 1]
      BY <1>2, <3>1 DEF SelectStep, Selects
    <3>3. 1 - 1 = 0
      OBVIOUS
    <3>. QED BY <3>1, <3>2, <3>3
  <2>4. F[1] = first(G[0])
    <3>1. G[0] = <<>> /\ 1 \in 1 .. Len(q) /\ q[1] \in Flit
      BY <1>1, <1>3 DEF SelectStep, Selects
    <3>2. <<q[1]>> \o <<>> = Append(<<>>, q[1])
      BY <3>1, EmptySeq, ConcatEmptySeq, AppendIsConcat
    <3>. QED BY <2>3, <3>1, <3>2
  <2>5. k # 0
    BY <2>2, <2>4
  <2>6. k \in 1 .. Len(q) - 1 /\ k - 1 \in 0 .. Len(q) - 1 /\ k - 1 \notin Bad
    BY <1>1, <2>2, <2>5
  <2>7. F[(k - 1) + 1] = first(G[k - 1]) /\ (k - 1) + 1 = k
    BY <1>1, <2>6
  <2>8. F[k + 1] = IF o \in q[k + 1].to THEN Append(F[k], q[k + 1]) ELSE F[k]
    <3>1. k + 1 \in 1 .. Len(q) /\ (k + 1) - 1 = k
      BY <1>1, <2>6
    <3>. QED BY <1>2, <3>1 DEF SelectStep, Selects
  <2>9. G[k] = IF o \in q[k + 1].to THEN Append(G[k - 1], q[k + 1]) ELSE G[k - 1]
    BY <1>1, <1>3, <2>6 DEF SelectStep, Selects
  <2>10. <<q[1]>> \in Seq(Flit) /\ G[k - 1] \in Seq(Flit) /\ q[k + 1] \in Flit
    <3>1. 1 \in 1 .. Len(q) /\ k + 1 \in 1 .. Len(q)
      BY <1>1, <2>6
    <3>2. q[1] \in Flit /\ q[k + 1] \in Flit
      BY <1>1, <3>1
    <3>3. G[k - 1] \in Seq(Flit)
      BY <1>3, <2>6 DEF SelectStep
    <3>. QED BY <3>2, <3>3
  <2>11. <<q[1]>> \o Append(G[k - 1], q[k + 1]) = Append(<<q[1]>> \o G[k - 1], q[k + 1])
    <3> DEFINE h == <<q[1]>>
               g == G[k - 1]
               e == q[k + 1]
    <3>0. h \in Seq(Flit) /\ g \in Seq(Flit) /\ e \in Flit
      BY <2>10
    <3> HIDE DEF h, g, e
    <3>1. Append(g, e) = g \o <<e>> /\ h \o g \in Seq(Flit) /\ <<e>> \in Seq(Flit)
      BY <3>0, AppendIsConcat, ConcatProperties
    <3>2. Append(h \o g, e) = (h \o g) \o <<e>>
      BY <3>0, <3>1, AppendIsConcat
    <3>3. h \o (g \o <<e>>) = (h \o g) \o <<e>>
      BY <3>0, <3>1, ConcatAssociative
    <3>4. h \o Append(g, e) = Append(h \o g, e)
      BY <3>1, <3>2, <3>3
    <3>. QED BY <3>4 DEF h, g, e
  <2>12. F[k + 1] = first(G[k])
    BY <2>7, <2>8, <2>9, <2>11
  <2>. QED BY <2>2, <2>12
<1>5. F[Len(q)] = first(G[Len(q) - 1])
  <2>1. Len(q) - 1 \in 0 .. Len(q) - 1 /\ Len(q) - 1 \notin Bad
    BY <1>1, <1>4
  <2>2. F[(Len(q) - 1) + 1] = first(G[Len(q) - 1])
    BY <2>1
  <2>. QED BY <1>1, <2>2
<1>6. FlitsFor(q, o) = F[Len(q)]
  BY <1>2, FlitsForIs
<1>7. FlitsFor(Tail(q), o) = G[Len(q) - 1]
  BY <1>1, <1>3, FlitsForIs
<1>. QED BY <1>5, <1>6, <1>7

(* Of no flits, none.                                                      *)
LEMMA FlitsForNone ==
  ASSUME NEW o
  PROVE  FlitsFor(<<>>, o) = <<>>
<1>1. <<>> \in Seq(Flit) /\ Len(<<>>) = 0
  BY EmptySeq
<1>2. PICK F : SelectStep(<<>>, o, 0, F)
  BY <1>1, SelectionExists
<1>3. FlitsFor(<<>>, o) = F[0]
  BY <1>1, <1>2, FlitsForIs
<1>. QED BY <1>2, <1>3 DEF SelectStep, Selects

-----------------------------------------------------------------------------
(* Network implements PacketCrossbar.                                      *)

(* Taking the first of a sequence gives back what it was put before.       *)
LEMMA FirstOf ==
  ASSUME NEW f \in Flit, NEW s \in Seq(Flit)
  PROVE  /\ <<f>> \o s # <<>> /\ Head(<<f>> \o s) = f /\ Tail(<<f>> \o s) = s
<1>1. /\ <<f>> \in Seq(Flit) /\ Len(<<f>>) = 1 /\ <<f>>[1] = f /\ Len(s) \in Nat
  BY LenProperties
<1>2. /\ <<f>> \o s \in Seq(Flit) /\ Len(<<f>> \o s) = 1 + Len(s)
      /\ \A k \in 1 .. 1 + Len(s) : (<<f>> \o s)[k] = IF k <= 1 THEN <<f>>[k] ELSE s[k - 1]
  BY <1>1, ConcatProperties
<1> DEFINE t == <<f>> \o s
<1>3. t \in Seq(Flit) /\ Len(t) = 1 + Len(s)
  BY <1>2
<1>4. t[1] = f /\ \A k \in 1 .. Len(s) : t[k + 1] = s[k]
  <2>1. 1 \in 1 .. 1 + Len(s) /\ \A k \in 1 .. Len(s) : k + 1 \in 1 .. 1 + Len(s) /\ (k + 1) - 1 = k
                                                       /\ ~(k + 1 <= 1)
    BY <1>1
  <2>2. t[1] = <<f>>[1]
    BY <1>2, <2>1
  <2>. QED BY <1>1, <1>2, <2>1, <2>2
<1> HIDE DEF t
<1>5. t # <<>> /\ Head(t) = t[1]
  BY <1>1, <1>3, EmptySeq
<1>6. /\ Tail(t) \in Seq(Flit) /\ Len(Tail(t)) = Len(s)
      /\ \A k \in 1 .. Len(s) : Tail(t)[k] = s[k]
  BY <1>1, <1>3, <1>4, <1>5, HeadTailProperties
<1>7. Tail(t) = s
  BY <1>6, SeqEqual
<1>. QED BY <1>4, <1>5, <1>7 DEF t

(* What an input has yet to give to an output.                             *)
Waiting(i, o) == FlitsFor(IF TakenHead(i, o) THEN Tail(inFIFO[i]) ELSE inFIFO[i], o)

(* When neither a FIFO nor what has been taken of its head changes.        *)
LEMMA StaysWaiting ==
  ASSUME NEW i \in Input, NEW o \in Output, inFIFO'[i] = inFIFO[i],
         TakenHead(i, o)' <=> TakenHead(i, o)
  PROVE  Waiting(i, o)' = Waiting(i, o)
BY DEF Waiting

(* A flit that is written comes last for each of its outputs.              *)
LEMMA WriteAccepts ==
  ASSUME IInv, NEW i \in Input, NEW f \in Flit, WriteFlit(i, f)
  PROVE  Crossbar!Accept(i, f)
<1>1. /\ inFIFO' = [inFIFO EXCEPT ![i] = Append(inFIFO[i], f)]
      /\ UNCHANGED <<head, requests, lastAccepted, held, outFIFO>>
  BY DEF WriteFlit, readers, arbiters, sinks
<1>2. inFIFO \in [Input -> Seq(Flit)] /\ inFIFO[i] \in Seq(Flit)
  BY DEF IInv, TypeOK
<1>3. inFIFO'[i] = Append(inFIFO[i], f) /\ \A j \in Input \ {i} : inFIFO'[j] = inFIFO[j]
  BY <1>1, <1>2
<1>4. inFIFO[i] # <<>> =>
        /\ Head(Append(inFIFO[i], f)) = Head(inFIFO[i])
        /\ Tail(Append(inFIFO[i], f)) = Append(Tail(inFIFO[i]), f)
        /\ Tail(inFIFO[i]) \in Seq(Flit)
  BY <1>2, HeadTailAppend, HeadTailProperties
<1>5. ASSUME NEW o \in Output
      PROVE  Waiting(i, o)' = IF o \in f.to THEN Append(Waiting(i, o), f) ELSE Waiting(i, o)
  <2>1. head[i] = "shown" => inFIFO[i] # <<>>
    BY DEF IInv, HeadsOK, canRead
  <2>2. TakenHead(i, o)' <=> TakenHead(i, o)
    BY <1>1, <1>3, <1>4, <2>1 DEF TakenHead
  <2>3. CASE TakenHead(i, o)
    <3>1. Waiting(i, o) = FlitsFor(Tail(inFIFO[i]), o)
      BY <2>3 DEF Waiting
    <3>2. Waiting(i, o)' = FlitsFor(Append(Tail(inFIFO[i]), f), o) /\ Tail(inFIFO[i]) \in Seq(Flit)
      BY <1>3, <1>4, <2>1, <2>2, <2>3 DEF Waiting, TakenHead
    <3>. QED BY <3>1, <3>2, FlitsForAppend
  <2>4. CASE ~TakenHead(i, o)
    <3>1. Waiting(i, o) = FlitsFor(inFIFO[i], o)
      BY <2>4 DEF Waiting
    <3>2. Waiting(i, o)' = FlitsFor(Append(inFIFO[i], f), o)
      BY <1>3, <2>2, <2>4 DEF Waiting
    <3>. QED BY <1>2, <3>1, <3>2, FlitsForAppend
  <2>. QED BY <2>3, <2>4
<1>6. ASSUME NEW j \in Input, NEW o \in Output, j # i
      PROVE  Waiting(j, o)' = Waiting(j, o)
  <2>1. inFIFO'[j] = inFIFO[j]
    BY <1>3, <1>6
  <2>2. TakenHead(j, o)' <=> TakenHead(j, o)
    BY <1>1, <2>1 DEF TakenHead
  <2>. QED BY <2>1, <2>2, StaysWaiting
<1>7. Pending' = [Pending EXCEPT ![i] =
                    [o \in Output |-> IF o \in f.to THEN Append(Pending[i][o], f) ELSE Pending[i][o]]]
  BY <1>5, <1>6 DEF Pending, Waiting
<1>8. UNCHANGED <<Sending, outFIFO>>
  BY <1>1 DEF Sending
<1>. QED BY <1>7, <1>8 DEF Crossbar!Accept

(* What moves no flit.                                                     *)
LEMMA NoFlitMoves ==
  ASSUME UNCHANGED <<inFIFO, held, outFIFO>>,
         \A i \in Input, o \in Output : TakenHead(i, o)' <=> TakenHead(i, o),
         \A o \in held : lastAccepted'[o] = lastAccepted[o]
  PROVE  UNCHANGED <<Pending, Sending, outFIFO>>
<1>1. ASSUME NEW i \in Input, NEW o \in Output PROVE Waiting(i, o)' = Waiting(i, o)
  BY StaysWaiting
<1>2. Pending' = Pending
  BY <1>1 DEF Pending, Waiting
<1>3. Sending' = Sending
  BY DEF Sending
<1>. QED BY <1>2, <1>3

(* newData tells all outputs of a head flit that none has taken.           *)
LEMMA NewDataMovesNone ==
  ASSUME IInv, NEW i \in Input, newData(i)
  PROVE  UNCHANGED <<Pending, Sending, outFIFO>>
<1>1. /\ head[i] = "appearing" /\ head' = [head EXCEPT ![i] = "shown"]
      /\ requests' = [o \in Output |-> IF o \in Head(inFIFO[i]).to THEN requests[o] \cup {i}
                                       ELSE requests[o]]
      /\ UNCHANGED <<inFIFO, lastAccepted, held, outFIFO>>
  BY DEF newData, sinks
<1>2. head'[i] = "shown" /\ \A j \in Input \ {i} : head'[j] = head[j]
  BY <1>1 DEF IInv, TypeOK
<1>3. ASSUME NEW j \in Input, NEW o \in Output PROVE TakenHead(j, o)' <=> TakenHead(j, o)
  <2>1. CASE j = i
    <3>1. ~TakenHead(i, o)
      BY <1>1 DEF TakenHead
    <3>2. ~TakenHead(i, o)'
      BY <1>1 DEF TakenHead
    <3>. QED BY <2>1, <3>1, <3>2
  <2>2. CASE j # i
    <3>1. head'[j] = head[j] /\ (j \in requests'[o] <=> j \in requests[o]) /\ inFIFO' = inFIFO
      BY <1>1, <1>2, <2>2
    <3>. QED BY <3>1 DEF TakenHead
  <2>. QED BY <2>1, <2>2
<1>. QED BY <1>1, <1>3, NoFlitMoves

(* An output that waits keeps what it is held for.                         *)
LEMMA WaitingMovesNone ==
  ASSUME IInv, NEW o \in Output, WaitForSpace(o) \/ WaitForRequest(o) \/ WaitForData(o)
  PROVE  UNCHANGED <<Pending, Sending, outFIFO>>
<1>1. UNCHANGED <<inFIFO, head, requests, held, outFIFO>>
  BY DEF WaitForSpace, WaitForRequest, WaitForData, readers, arbiters, sinks
<1>2. \A h \in held : lastAccepted'[h] = lastAccepted[h]
  <2>1. CASE WaitForSpace(o) \/ WaitForRequest(o)
    BY <2>1 DEF WaitForSpace, WaitForRequest, arbiters
  <2>2. CASE WaitForData(o)
    <3>1. lastAccepted' = [lastAccepted EXCEPT ![o] = granted(o)]
      BY <2>2 DEF WaitForData
    <3>2. o \in held => granted(o) = lastAccepted[o]
      BY DEF granted, arbitrate
    <3>. QED BY <3>1, <3>2 DEF IInv, TypeOK
  <2>. QED BY <2>1, <2>2
<1>3. \A i \in Input, p \in Output : TakenHead(i, p)' <=> TakenHead(i, p)
  BY <1>1 DEF TakenHead
<1>. QED BY <1>1, <1>2, <1>3, NoFlitMoves

(* A copy that an output takes is the next that waits for it.              *)
LEMMA SendFlitTransfers ==
  ASSUME IInv, NEW o \in Output, SendFlit(o)
  PROVE  \E i \in Input : Crossbar!Transfer(i, o)
<1>1. PICK i : i = granted(o)
  OBVIOUS
<1> DEFINE q == inFIFO[i]
           flit == q[1]
<1>2. /\ i \in Input /\ head[i] = "shown" /\ canRead(i)
      /\ i \in requests[o] /\ o \in flit.to /\ copiesRemaining[i] # 0
  <2>1. requests[o] # {} /\ canRead(i) /\ copiesRemaining[i] > 0
    BY <1>1 DEF SendFlit, Grants, readData
  <2>. QED BY <1>1, <2>1, GrantedHead
<1>3. /\ q \in Seq(Flit) /\ q # <<>> /\ Head(q) = flit /\ flit \in Flit /\ Tail(q) \in Seq(Flit)
  BY <1>2, FIFOs, HeadTailProperties DEF canRead, IInv
<1>4. /\ requests' = [requests EXCEPT ![o] = requests[o] \ {i}]
      /\ lastAccepted' = [lastAccepted EXCEPT ![o] = i]
      /\ outFIFO' = [outFIFO EXCEPT ![o] = Append(outFIFO[o], flit)]
      /\ held' = IF flit.left = 0 THEN held \ {o} ELSE held \cup {o}
      /\ canWrite(o) /\ readData(i)
  BY <1>1, <1>3 DEF SendFlit, remove, Grants
<1>5. \/ /\ copiesRemaining[i] = 1
         /\ inFIFO' = [inFIFO EXCEPT ![i] = Tail(q)] /\ head' = [head EXCEPT ![i] = "hidden"]
      \/ copiesRemaining[i] # 1 /\ UNCHANGED <<inFIFO, head>>
  BY <1>4 DEF readData, consumed
<1>6. /\ inFIFO \in [Input -> Seq(Flit)] /\ requests \in [Output -> SUBSET Input]
      /\ head \in [Input -> {"hidden", "appearing", "shown"}]
      /\ lastAccepted \in [Output -> Input \cup {NothingAccepted}]
      /\ outFIFO \in [Output -> Seq(Flit)] /\ Len(outFIFO[o]) <= OutputSize
      /\ held \subseteq Output
  BY DEF IInv, TypeOK
<1> HIDE DEF q, flit
\* It waited for o ...
<1>7. Waiting(i, o) = <<flit>> \o FlitsFor(Tail(q), o) /\ FlitsFor(Tail(q), o) \in Seq(Flit)
  <2>1. ~TakenHead(i, o)
    BY <1>2 DEF TakenHead
  <2>2. Waiting(i, o) = FlitsFor(q, o)
    BY <2>1 DEF Waiting, q
  <2>3. FlitsFor(q, o) = <<flit>> \o FlitsFor(Tail(q), o)
    BY <1>2, <1>3, FlitsForTail DEF flit
  <2>4. FlitsFor(Tail(q), o) \in Seq(Flit)
    BY <1>3, FlitsForAppend
  <2>. QED BY <2>2, <2>3, <2>4
\* ... and no longer does.
<1>8. Waiting(i, o)' = FlitsFor(Tail(q), o)
  <2>1. CASE copiesRemaining[i] = 1
    <3>1. inFIFO'[i] = Tail(q) /\ head'[i] = "hidden"
      BY <1>2, <1>5, <1>6, <2>1
    <3>2. ~TakenHead(i, o)'
      BY <3>1 DEF TakenHead
    <3>. QED BY <3>1, <3>2 DEF Waiting
  <2>2. CASE copiesRemaining[i] # 1
    <3>1. inFIFO'[i] = q /\ head'[i] = "shown" /\ i \notin requests'[o]
      BY <1>2, <1>4, <1>5, <1>6, <2>2 DEF q
    <3>2. o \in Head(inFIFO'[i]).to
      BY <1>2, <1>3, <3>1
    <3>3. TakenHead(i, o)'
      BY <3>1, <3>2 DEF TakenHead
    <3>. QED BY <3>1, <3>3 DEF Waiting
  <2>. QED BY <2>1, <2>2
\* The others wait for what they did.
<1>9. ASSUME NEW p \in Output, p # o PROVE Waiting(i, p)' = Waiting(i, p)
  <2>1. CASE copiesRemaining[i] = 1
    <3>1. inFIFO'[i] = Tail(q) /\ head'[i] = "hidden"
      BY <1>2, <1>5, <1>6, <2>1
    <3>2. ~TakenHead(i, p)'
      BY <3>1 DEF TakenHead
    <3>3. Waiting(i, p)' = FlitsFor(Tail(q), p)
      BY <3>1, <3>2 DEF Waiting
    <3>4. p \notin Requested(i)
      <4>1. o \in Requested(i) /\ Requested(i) \in SUBSET Output /\ Cardinality(Requested(i)) = 1
        BY <1>2, <2>1 DEF IInv, HeadsOK, Requested
      <4>2. IsFiniteSet(Requested(i))
        BY <4>1, SubsetsFinite
      <4>3. PICK x : Requested(i) = {x}
        BY <4>1, <4>2, FS_Singleton
      <4>. QED BY <1>9, <4>1, <4>3
    <3>5. CASE p \in flit.to
      <4>1. TakenHead(i, p)
        BY <1>2, <1>3, <3>4, <3>5 DEF TakenHead, Requested, q
      <4>. QED BY <3>3, <4>1 DEF Waiting, q
    <3>6. CASE p \notin flit.to
      <4>1. ~TakenHead(i, p)
        BY <1>3, <3>6 DEF TakenHead, q
      <4>2. Waiting(i, p) = FlitsFor(q, p)
        BY <4>1 DEF Waiting, q
      <4>3. FlitsFor(q, p) = FlitsFor(Tail(q), p)
        BY <1>3, <3>6, FlitsForTail DEF flit
      <4>. QED BY <3>3, <4>2, <4>3
    <3>. QED BY <3>5, <3>6
  <2>2. CASE copiesRemaining[i] # 1
    <3>1. UNCHANGED <<inFIFO, head>> /\ requests'[p] = requests[p]
      BY <1>4, <1>5, <1>6, <1>9, <2>2
    <3>2. TakenHead(i, p)' <=> TakenHead(i, p)
      BY <3>1 DEF TakenHead
    <3>. QED BY <1>2, <3>1, <3>2, StaysWaiting
  <2>. QED BY <2>1, <2>2
<1>10. ASSUME NEW j \in Input, NEW p \in Output, j # i PROVE Waiting(j, p)' = Waiting(j, p)
  <2>1. inFIFO'[j] = inFIFO[j] /\ head'[j] = head[j]
    BY <1>5, <1>6, <1>10
  <2>2. j \in requests'[p] <=> j \in requests[p]
    BY <1>4, <1>6, <1>10
  <2>3. TakenHead(j, p)' <=> TakenHead(j, p)
    BY <2>1, <2>2 DEF TakenHead
  <2>. QED BY <2>1, <2>3, StaysWaiting
<1>11. Pending[i][o] # <<>> /\ Head(Pending[i][o]) = flit /\ Tail(Pending[i][o]) = FlitsFor(Tail(q), o)
  <2>1. Pending[i][o] = <<flit>> \o FlitsFor(Tail(q), o)
    BY <1>2, <1>7 DEF Pending, Waiting
  <2>. QED BY <1>3, <1>7, <2>1, FirstOf
<1>12. Pending' = [Pending EXCEPT ![i][o] = Tail(Pending[i][o])]
  <2>1. \A j \in Input, p \in Output :
          Waiting(j, p)' = IF j = i /\ p = o THEN Tail(Pending[i][o]) ELSE Waiting(j, p)
    BY <1>8, <1>9, <1>10, <1>11
  <2>. QED BY <1>2, <2>1 DEF Pending, Waiting
<1>13. Len(outFIFO[o]) < OutputSize
  <2>1. Len(outFIFO[o]) # OutputSize /\ Len(outFIFO[o]) \in Nat /\ OutputSize \in Nat
    BY <1>4, <1>6, SizesAssumption, LenProperties DEF canWrite, full
  <2>. QED BY <1>6, <2>1
<1>14. Sending[o] \in {None, i}
  <2>1. o \in held => granted(o) = lastAccepted[o]
    BY DEF granted, arbitrate
  <2>. QED BY <1>1, <2>1 DEF Sending
<1>15. Sending' = [Sending EXCEPT ![o] = IF flit.left = 0 THEN None ELSE i]
  <2>1. \A p \in Output : /\ p \in held' <=> IF p = o THEN flit.left # 0 ELSE p \in held
                          /\ lastAccepted'[p] = IF p = o THEN i ELSE lastAccepted[p]
    BY <1>4, <1>6
  <2>. QED BY <2>1 DEF Sending
<1>. QED BY <1>2, <1>4, <1>11, <1>12, <1>13, <1>14, <1>15 DEF Crossbar!Transfer

(* Every step is a step of PacketCrossbar, or moves no flit.               *)
LEMMA StepsTransfer ==
  ASSUME IInv, [Next]_vars
  PROVE  [Crossbar!Next]_<<Pending, Sending, outFIFO>>
<1>1. CASE UNCHANGED vars
  <2>1. UNCHANGED <<inFIFO, head, requests, lastAccepted, held, outFIFO>>
    BY <1>1 DEF vars, readers, arbiters, sinks
  <2>. QED BY <2>1, NoFlitMoves DEF TakenHead
<1>2. CASE Tick
  <2>1. /\ UNCHANGED <<inFIFO, requests, lastAccepted, held, outFIFO>>
        /\ \A i \in Input : head'[i] = "shown" <=> head[i] = "shown"
    BY <1>2 DEF Tick, arbiters
  <2>. QED BY <2>1, NoFlitMoves DEF TakenHead
<1>3. ASSUME NEW i \in Input, StartPacket(i) \/ ContinuePacket(i)
      PROVE  Crossbar!Next
  <2>1. PICK f \in Flit : WriteFlit(i, f)
    BY <1>3 DEF StartPacket, ContinuePacket, FirstFlits, IInv, TypeOK
  <2>2. Crossbar!Accept(i, f)
    BY <2>1, WriteAccepts
  <2>. QED BY <2>2 DEF Crossbar!Next
<1>4. ASSUME NEW i \in Input, newData(i) PROVE UNCHANGED <<Pending, Sending, outFIFO>>
  BY <1>4, NewDataMovesNone
<1>5. ASSUME NEW o \in Output, Take(o) PROVE Crossbar!Next
  <2>1. /\ UNCHANGED <<inFIFO, head, requests, lastAccepted, held>>
        /\ outFIFO[o] # <<>> /\ outFIFO' = [outFIFO EXCEPT ![o] = Tail(@)]
    BY <1>5 DEF Take, readers, arbiters
  <2>2. UNCHANGED <<Pending, Sending>>
    <3>1. \A i \in Input, p \in Output : Waiting(i, p)' = Waiting(i, p)
      BY <2>1, StaysWaiting DEF TakenHead
    <3>. QED BY <2>1, <3>1 DEF Pending, Sending, Waiting
  <2>3. Crossbar!Take(o)
    BY <2>1, <2>2 DEF Crossbar!Take
  <2>. QED BY <2>3 DEF Crossbar!Next
<1>6. ASSUME NEW o \in Output, sendData(o)
      PROVE  Crossbar!Next \/ UNCHANGED <<Pending, Sending, outFIFO>>
  <2>1. CASE SendFlit(o)
    BY <2>1, SendFlitTransfers DEF Crossbar!Next
  <2>. QED BY <1>6, <2>1, WaitingMovesNone DEF sendData
<1>. QED BY <1>1, <1>2, <1>3, <1>4, <1>5, <1>6 DEF Next

(* A network of any size implements PacketCrossbar: each flit reaches each *)
(* of its targets once and in order, and no output mixes packets, whether  *)
(* or not gaps settle.                                                     *)
THEOREM CrossbarIsImplemented == Spec => ImplementsCrossbar
<1>1. Init => Crossbar!Init
  <2> SUFFICES ASSUME Init PROVE Crossbar!Init
    OBVIOUS
  <2>1. ASSUME NEW i \in Input, NEW o \in Output PROVE Waiting(i, o) = <<>>
    <3>1. Waiting(i, o) = FlitsFor(<<>>, o)
      BY DEF Init, Waiting, TakenHead
    <3>. QED BY <3>1, FlitsForNone
  <2>. QED BY <2>1 DEF Init, Crossbar!Init, Pending, Sending, Waiting
<1>2. IInv /\ [Next]_vars => [Crossbar!Next]_<<Pending, Sending, outFIFO>>
  BY StepsTransfer
<1>3. Init => IInv
  BY Initially
<1>4. IInv /\ [Next]_vars => IInv'
  BY NextKeeps
<1>. QED BY <1>1, <1>2, <1>3, <1>4, PTL
     DEF Spec, ImplementsCrossbar, Crossbar!CrossbarSpec
=============================================================================
