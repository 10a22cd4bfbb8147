---------------------------- MODULE SharedL2Proofs ----------------------------
(***************************************************************************)
(* Proofs about SharedL2, for any number of banks and lines: if methods    *)
(* run in the order of the reference kernel and requests for one line are  *)
(* spaced, no assertion of the channel and the filters fails, no line is   *)
(* in two banks, and no bank fetches a line that another has promised to   *)
(* flush.                                                                  *)
(*                                                                         *)
(* The invariant is in four parts: the packets on their way to the         *)
(* channel, the filters and the events they wait for, each bank and the    *)
(* packet it is given, and which bank has a claim to which line.           *)
(***************************************************************************)
EXTENDS SharedL2, FiniteSetTheorems, TLAPS

-----------------------------------------------------------------------------
(* The packets on their way to the channel.                                *)

\* f is the payload that follows flit g.
Follows(f, g) == ~f.head /\ f.tag = g.tag /\ f.skip = g.skip

PacketsOK ==
  /\ \A f \in {fromNetwork, rest, flit} \ {None} : f.tag \in Tag
  /\ \A b \in Bank : oRequest[b] # None => oRequest[b].tag \in Tag
  /\ newRemoteRequest <=> flit = None \/ flit.left = 0
  /\ fromNetwork # None =>
       /\ fromNetwork.head <=> newRemoteRequest
       /\ ~newRemoteRequest => Follows(fromNetwork, flit)
       /\ rest = None <=> fromNetwork.left = 0
       /\ rest # None => Follows(rest, fromNetwork)
  /\ fromNetwork = None =>
       /\ newRemoteRequest <=> rest = None
       /\ rest # None => Follows(rest, flit)
  /\ flit = None => consumed

-----------------------------------------------------------------------------
(* The filters.                                                            *)

\* Filter b has yet to answer the request on the channel.
Owes(b) ==
  /\ state[b] = "IDLE"
  /\ \/ b \in ready
     \/ waits[b] = "requestSent"
     \/ waits[b] \in {"newRequest", "newFlit"} /\ waits[b] \in notified[b]

Unanswered == {b \in Bank : Owes(b)}

(* Every bank that has not answered will; the answers are counted.         *)
AnswersOK ==
  /\ numResponses + Cardinality(Unanswered) = NumBanks
  /\ Unanswered # {} => flit # None /\ flit.head /\ (~flit.skip => ~consumed)
  /\ Unanswered # {} => (consumed => hit)

(* What each filter and L2Logic wait for, and what they are about to hear. *)
EventOK(b) ==
  /\ state[b] = "IDLE" => waits[b] \in {"newRequest", "newFlit", "requestSent"}
  /\ state[b] = "IDLE" /\ waits[b] = "newFlit" =>
       Owes(b) \/ (consumed /\ flit # None /\ flit.left = 0)
  /\ state[b] = "WAIT" => waits[b] = "allResponses"
  /\ state[b] = "SEND" => waits[b] \in {"now", "ack", "newFlit"}
  /\ notified[b] \cap {"newRequest", "newFlit"} # {} => ready \cap Bank = {} /\ ~consumed
  /\ "allResponses" \in notified[b] => Unanswered = {} \/ ready \cap Bank = {}

EventsOK == \A b \in Bank : EventOK(b)

LogicOK ==
  /\ L2Logic \in ready \/ waits[L2Logic] = "canWrite" \/ "canRead" \in notified[L2Logic]
       => fromNetwork # None
  /\ ready # {} => "canRead" \notin notified[L2Logic]
  /\ waits[L2Logic] \in {"canRead", "canWrite"}
  /\ "canWrite" \in notified[L2Logic] /\ (L2Logic \in ready \/ waits[L2Logic] = "canWrite")
       => canWrite
  /\ L2Logic \in ready /\ waits[L2Logic] = "canWrite"
       => canWrite /\ \A b \in Bank : state[b] # "WAIT"

(* The target bank waits for the answers of the others.                    *)
WaitOK(b) ==
  state[b] = "WAIT" =>
    /\ b = target /\ flit # None /\ flit.head /\ ~flit.skip
    /\ Unanswered = {} <=> b \in ready \/ "allResponses" \in notified[b]
    /\ consumed => hit /\ Unanswered = {} /\ b \in ready

WaitsOK == \A b \in Bank : WaitOK(b)

(* One bank takes the packet: it has hit, or all have missed.              *)
SendOK(b) ==
  state[b] = "SEND" =>
    /\ flit # None
    /\ hit \/ (b = target /\ Unanswered = {})
    /\ consumed => b \notin ready /\ waits[b] = "newFlit"
    /\ \A c \in Bank : state[c] = "WAIT" =>
         c \in ready \/ (waits[b] = "now" /\ b \notin ready)

OneSender == \A b, c \in Bank : state[b] = "SEND" /\ state[c] = "SEND" => b = c
SendsOK == OneSender /\ \A b \in Bank : SendOK(b)

(* A hit is known before another bank looks at its tags.                   *)
HitsOK ==
  hit /\ Unanswered # {} =>
    IF flit.skip THEN target \notin Unanswered
    ELSE /\ Unanswered \subseteq ready
         /\ \E b \in Bank : /\ state[b] = "SEND" /\ contains(b, flit.tag)
                            /\ waits[b] = "now" /\ b \notin ready

FiltersOK == AnswersOK /\ EventsOK /\ LogicOK /\ WaitsOK /\ SendsOK

-----------------------------------------------------------------------------
(* Each bank and the packet it is given.                                   *)

InPacket(b) == serving[b] # None /\ serving[b].left > 0

\* The last flit given to bank b is not the end of its packet.
Open(b) == IF oRequest[b] # None THEN oRequest[b].left # 0 ELSE InPacket(b)

FrameOK(b) ==
  /\ oRequest[b] # None => (oRequest[b].head <=> ~InPacket(b))
  /\ Open(b) => /\ state[b] = "SEND"
                /\ IF consumed THEN flit.left # 0 ELSE ~flit.head
  /\ state[b] = "SEND" /\ ~Open(b) => ~consumed /\ flit.head

FramesOK == \A b \in Bank : FrameOK(b)

BankOK(b) ==
  /\ bankState[b] = "IDLE" <=> serving[b] = None
  /\ serving[b] # None /\ (serving[b].left > 0 \/ bankState[b] = "REQUEST")
       => serving[b].tag \in Tag
  /\ bankState[b] \in {"ALLOCATE", "MISS"} => serving[b].left = 0
  /\ bankState[b] \in {"ALLOCATE", "FLUSH"} => ~serving[b].skip
  /\ bankState[b] = "ALLOCATE" /\ serving[b].tag \in Tag => ~contains(b, serving[b].tag)
  /\ bankState[b] = "FORWARD" => serving[b].left > 0
  /\ line[b].dirty => line[b].tag \in Tag
  /\ \A t \in Tag : Queued(b, "FETCH_LINE", t) =>
       /\ bankState[b] \in {"ALLOCATE", "FLUSH", "MISS"}
       /\ serving[b].left = 0 /\ ~serving[b].skip /\ serving[b].tag = t

BanksOK == \A b \in Bank : BankOK(b)

-----------------------------------------------------------------------------
(* Which bank has a claim to which line.                                   *)

Asks(f, t) == f # None /\ f.tag = t /\ ~f.skip

\* Bank b has line t, has promised to flush it, or is to get it.
Claims(b, t) ==
  \/ contains(b, t) \/ t \in pendingFlushes[b]
  \/ Asks(oRequest[b], t) \/ Asks(serving[b], t)
  \/ state[b] = "SEND" /\ Asks(flit, t)

OneClaim == \A t \in Tag : \A b, c \in Bank : Claims(b, t) /\ Claims(c, t) => b = c

\* The tag of bank b says all about line t.
SettledAt(b, t) ==
  /\ oRequest[b] # None => oRequest[b].tag # t
  /\ serving[b] # None /\ serving[b].tag = t => ~Misses(b)

Settled(t) == \A b \in Bank : SettledAt(b, t)

(* A request is broadcast when those for its line are settled; a bank that *)
(* has missed goes on missing until one bank takes the request, and while  *)
(* a bank delays its answer no other gets the line.                        *)
ArrivalSettled ==
  fromNetwork # None /\ fromNetwork.head =>
    Settled(fromNetwork.tag) /\ (consumed \/ flit.tag # fromNetwork.tag)

Offered == flit # None /\ flit.head /\ ~consumed

Undecided == Offered /\ ~flit.skip /\ ~hit /\ \A b \in Bank : state[b] # "SEND"

RequestsOK ==
  /\ ArrivalSettled
  /\ Offered => Settled(flit.tag)
  /\ Undecided => \A b \in Bank \ Unanswered :
                    ~contains(b, flit.tag) /\ flit.tag \notin pendingFlushes[b]
  /\ \A b, c \in Bank :
       waits[b] = "requestSent" /\ ~flit.skip /\ c # b => ~Claims(c, flit.tag)

IInv ==
  /\ TypeOK /\ PacketsOK /\ FiltersOK /\ HitsOK /\ FramesOK /\ BanksOK
  /\ OneClaim /\ RequestsOK

-----------------------------------------------------------------------------
(* Facts about the constants and the types.                                *)

LEMMA Constants ==
  /\ Bank \subseteq Process /\ L2Logic \in Process /\ L2Logic \notin Bank
  /\ NumBanks \in Nat /\ NumBanks > 0 /\ IsFiniteSet(Bank) /\ Cardinality(Bank) = NumBanks
  /\ WordsPerLine \in Nat /\ WordsPerLine > 0
  /\ None \notin Flit /\ None \notin Tag /\ LocalTag \notin Tag /\ None # LocalTag
  /\ None \notin Bank
  BY BankAssumption, LineAssumption, NoneAssumption, FS_CardinalityType DEF Process

LEMMA AnswersCounted ==
  ASSUME NEW S \in SUBSET Bank
  PROVE  IsFiniteSet(S) /\ Cardinality(S) \in 0 .. NumBanks /\ (Cardinality(S) = 0 <=> S = {})
<1>1. IsFiniteSet(S) /\ Cardinality(S) <= NumBanks
  BY Constants, FS_Subset
<1>2. Cardinality(S) \in Nat /\ (Cardinality(S) = 0 <=> S = {})
  BY <1>1, FS_CardinalityType, FS_EmptySet
<1>. QED BY <1>1, <1>2, Constants

LEMMA Initially == Init => IInv
<1> SUFFICES ASSUME Init PROVE IInv
  OBVIOUS
<1> USE Constants DEF Init, InitL2Logic, InitChannel, InitFilters
<1>1. TypeOK
  <2>1. outputReqQueue \in [Bank -> Seq(ReqFlit)] /\ \A b \in Bank : Len(outputReqQueue[b]) = 0
    OBVIOUS
  <2>2. \A b \in Bank : Len(outputReqQueue[b]) <= requestQueueSize
    BY <2>1 DEF requestQueueSize
  <2>3. {fromNetwork, rest, flit} \subseteq Flit \cup {None}
    OBVIOUS
  <2>4. waits \in [Process -> Event] /\ notified \in [Process -> SUBSET Event] /\ ready \subseteq Process
    BY DEF Event
  <2>5. line \in [Bank -> [tag : Tag \cup {LocalTag, None}, dirty : BOOLEAN]]
    OBVIOUS
  <2>6. numResponses \in 0 .. NumBanks /\ cursor \in [Bank -> 0 .. WordsPerLine]
    OBVIOUS
  <2>7. pendingFlushes \in [Bank -> SUBSET Tag] /\ serving \in [Bank -> Flit \cup {None}] /\ oRequest \in [Bank -> Flit \cup {None}]
    OBVIOUS
  <2>8. state \in [Bank -> {"IDLE", "WAIT", "SEND"}] /\ bankState \in [Bank -> {"IDLE", "REQUEST", "ALLOCATE", "FLUSH", "MISS", "FORWARD"}]
    OBVIOUS
  <2>9. target \in Bank \cup {None} /\ newRemoteRequest \in BOOLEAN /\ hit \in BOOLEAN /\ consumed \in BOOLEAN
    OBVIOUS
  <2>. QED BY <2>1, <2>2, <2>3, <2>4, <2>5, <2>6, <2>7, <2>8, <2>9 DEF TypeOK
<1>2. PacketsOK
  BY DEF PacketsOK
<1>3. Unanswered = {}
  BY DEF Unanswered, Owes
<1>4. FiltersOK
  <2>1. AnswersOK
    BY <1>3, FS_EmptySet DEF AnswersOK
  <2>2. EventsOK /\ LogicOK
    BY <1>3 DEF EventsOK, EventOK, LogicOK
  <2>3. WaitsOK /\ SendsOK
    BY DEF WaitsOK, WaitOK, SendsOK, SendOK, OneSender
  <2>. QED BY <2>1, <2>2, <2>3 DEF FiltersOK
<1>5. HitsOK
  BY <1>3 DEF HitsOK
<1>6. FramesOK /\ BanksOK
  BY DEF FramesOK, FrameOK, BanksOK, BankOK, Open, InPacket, Queued
<1>7. OneClaim
  BY DEF OneClaim, Claims, contains, Asks
<1>8. RequestsOK
  BY DEF RequestsOK, ArrivalSettled, Offered, Undecided
<1>. QED BY <1>1, <1>2, <1>4, <1>5, <1>6, <1>7, <1>8 DEF IInv

-----------------------------------------------------------------------------
(* The banks and the network act between the delta cycles.  What they      *)
(* notify concerns no filter's answer.                                     *)

Quiet == \A p \in Process :
           notified'[p] \ {"ack", "requestSent"} = notified[p] \ {"ack", "requestSent"}

LEMMA SameAnswers ==
  ASSUME UNCHANGED <<state, ready, waits>>, Quiet, TypeOK
  PROVE  Unanswered' = Unanswered /\ \A b \in Bank : Owes(b)' = Owes(b)
<1>1. ASSUME NEW b \in Bank PROVE Owes(b)' = Owes(b)
  <2>1. \A e \in {"newRequest", "newFlit"} : e \in notified'[b] <=> e \in notified[b]
    BY Constants DEF Quiet
  <2>. QED BY <2>1 DEF Owes
<1>. QED BY <1>1 DEF Unanswered

LEMMA BanksLeaveFilters ==
  ASSUME IInv, ready = {}, UNCHANGED around, Quiet
  PROVE  FiltersOK' /\ HitsOK'
<1> USE Constants DEF IInv, around, channel, network
<1>1. Unanswered' = Unanswered /\ \A b \in Bank : Owes(b)' = Owes(b)
  BY SameAnswers
<1>2. \A p \in Process, e \in Event \ {"ack", "requestSent"} : e \in notified'[p] <=> e \in notified[p]
  BY DEF Quiet
<1>3. AnswersOK'
  BY <1>1 DEF FiltersOK, AnswersOK
<1>4. EventsOK'
  BY <1>1, <1>2 DEF FiltersOK, EventsOK, EventOK, Event
<1>5. LogicOK'
  BY <1>1, <1>2 DEF FiltersOK, LogicOK, canWrite, allResponsesReceived, Event
<1>6. WaitsOK'
  BY <1>1, <1>2 DEF FiltersOK, WaitsOK, WaitOK, Event
<1>7. SendsOK'
  BY <1>1 DEF FiltersOK, SendsOK, SendOK, OneSender
<1>8. HitsOK'
  BY <1>1 DEF HitsOK
<1>. QED BY <1>3, <1>4, <1>5, <1>6, <1>7, <1>8 DEF FiltersOK

(* What the banks are given and have is the same: so is everything that is *)
(* said of it.                                                             *)
LEMMA SameBanks ==
  ASSUME UNCHANGED <<bank, oRequest, state, flit, consumed>>
  PROVE  /\ FramesOK => FramesOK'
         /\ BanksOK => BanksOK'
         /\ OneClaim => OneClaim'
         /\ \A t : Settled(t)' = Settled(t)
         /\ \A b, t : Claims(b, t)' = Claims(b, t)
<1> USE DEF bank
<1>1. \A b, t : Claims(b, t)' = Claims(b, t)
  BY DEF Claims, contains, Asks
<1>2. FramesOK => FramesOK'
  BY DEF FramesOK, FrameOK, Open, InPacket
<1>3. BanksOK => BanksOK'
  BY DEF BanksOK, BankOK, contains, Queued
<1>4. \A t : Settled(t)' = Settled(t)
  BY DEF Settled, SettledAt, Misses, contains
<1>. QED BY <1>1, <1>2, <1>3, <1>4 DEF OneClaim

(* The network notifies L2Logic, which does not hear it before it runs.     *)
LEMMA NetworkLeavesFilters ==
  ASSUME IInv, ready = {}, fromNetwork' # None,
         UNCHANGED <<newRemoteRequest, channel, state, oRequest, bank, ready, waits>>,
         Notify(L2Logic, {"canRead"}, {})
  PROVE  /\ FiltersOK' /\ HitsOK' /\ Unanswered' = Unanswered
         /\ notified' \in [Process -> SUBSET Event]
<1> USE Constants DEF IInv, channel
<1>1. /\ \A b \in Bank : notified'[b] = notified[b]
      /\ notified'[L2Logic] = notified[L2Logic] \cup {"canRead"}
      /\ notified' \in [Process -> SUBSET Event]
  BY DEF Notify, TypeOK, Event
<1>2. Unanswered' = Unanswered /\ \A b \in Bank : Owes(b)' = Owes(b)
  BY <1>1 DEF Unanswered, Owes
<1>3. AnswersOK'
  BY <1>2 DEF FiltersOK, AnswersOK
<1>4. EventsOK'
  BY <1>1, <1>2 DEF FiltersOK, EventsOK, EventOK
<1>5. LogicOK'
  BY <1>1 DEF FiltersOK, LogicOK, canWrite, allResponsesReceived
<1>6. WaitsOK' /\ SendsOK'
  BY <1>1, <1>2 DEF FiltersOK, WaitsOK, WaitOK, SendsOK, SendOK, OneSender
<1>7. HitsOK'
  BY <1>2 DEF HitsOK, contains, bank
<1>. QED BY <1>1, <1>2, <1>3, <1>4, <1>5, <1>6, <1>7 DEF FiltersOK

LEMMA Flits ==
  ASSUME NEW r \in Requests, NEW left \in 0 .. WordsPerLine
  PROVE  /\ r.tag \in Tag /\ r.payload \in 0 .. WordsPerLine
         /\ FlitOf(r, left) \in Flit
         /\ FlitOf(r, left).tag = r.tag /\ FlitOf(r, left).skip = r.skip
         /\ FlitOf(r, left).left = left /\ (FlitOf(r, left).head <=> left = r.payload)
<1>1. r \in [tag : Tag, payload : {0, WordsPerLine}, skip : BOOLEAN]
  BY RequestAssumption
<1>2. r.tag \in Tag /\ r.skip \in BOOLEAN /\ r.payload \in 0 .. WordsPerLine
  BY <1>1, Constants
<1> DEFINE h == left = r.payload
<1>3. FlitOf(r, left) = [tag |-> r.tag, skip |-> r.skip, left |-> left, head |-> h]
  BY DEF FlitOf
<1>4. h \in BOOLEAN
  OBVIOUS
<1> HIDE DEF h
<1>5. FlitOf(r, left) \in Flit /\ FlitOf(r, left).head = h
  BY <1>2, <1>3, <1>4 DEF Flit
<1>6. FlitOf(r, left).tag = r.tag /\ FlitOf(r, left).skip = r.skip /\ FlitOf(r, left).left = left
  BY <1>3
<1>. QED BY <1>2, <1>5, <1>6 DEF h

LEMMA ArriveHeadKeeps ==
  ASSUME IInv, Spaced, NEW r \in Requests, ArriveHead(r)
  PROVE  IInv'
<1> USE Constants DEF IInv
<1>1. /\ ready = {} /\ fromNetwork = None /\ rest = None
      /\ fromNetwork' = FlitOf(r, r.payload)
      /\ rest' = IF r.payload = 0 THEN None ELSE FlitOf(r, r.payload - 1)
      /\ ~Unsettled(r.tag)
      /\ UNCHANGED <<newRemoteRequest, channel, state, oRequest, bank, ready, waits>>
      /\ Notify(L2Logic, {"canRead"}, {})
  BY DEF ArriveHead, Between
<1>2. /\ fromNetwork' \in Flit /\ fromNetwork'.tag = r.tag /\ fromNetwork'.skip = r.skip
      /\ fromNetwork'.left = r.payload /\ fromNetwork'.head
      /\ r.tag \in Tag /\ r.payload \in 0 .. WordsPerLine
  BY <1>1, Flits
<1>3. rest' # None => rest' \in Flit /\ rest'.tag = r.tag /\ rest'.skip = r.skip /\ ~rest'.head
  BY <1>1, <1>2, Flits
<1>4. /\ FiltersOK' /\ HitsOK' /\ Unanswered' = Unanswered
      /\ notified' \in [Process -> SUBSET Event]
  BY <1>1, <1>2, NetworkLeavesFilters
<1>5. TypeOK'
  <2>2. {fromNetwork, rest, flit}' \subseteq Flit \cup {None}
    BY <1>1, <1>2, <1>3 DEF TypeOK, channel
  <2>. QED BY <1>1, <1>4, <2>2 DEF TypeOK, channel, bank
<1>6. PacketsOK'
  <2>1. rest' = None <=> fromNetwork'.left = 0
    BY <1>1, <1>2, Flits
  <2>. QED BY <1>1, <1>2, <1>3, <2>1 DEF PacketsOK, Follows, channel
<1>10. FramesOK' /\ BanksOK' /\ OneClaim'
  BY <1>1, SameBanks DEF channel
<1>11. RequestsOK'
  <2>1. Settled(r.tag) /\ (consumed \/ flit.tag # r.tag)
    BY <1>1 DEF Unsettled, Settled, SettledAt
  <2>2. Settled(r.tag)' /\ \A t : Settled(t)' = Settled(t)
    BY <1>1, <2>1, SameBanks DEF channel
  <2>3. ArrivalSettled'
    BY <1>1, <1>2, <2>1, <2>2 DEF ArrivalSettled, channel
  <2>4. \A b, t : Claims(b, t)' = Claims(b, t)
    BY <1>1, SameBanks DEF channel
  <2>. QED BY <1>1, <1>4, <2>2, <2>3, <2>4
          DEF RequestsOK, Offered, Undecided, channel, contains, bank
<1>. QED BY <1>4, <1>5, <1>6, <1>10, <1>11

LEMMA ArrivePayloadKeeps ==
  ASSUME IInv, ArrivePayload
  PROVE  IInv'
<1> USE Constants DEF IInv
<1>1. /\ ready = {} /\ fromNetwork = None /\ rest # None
      /\ fromNetwork' = rest
      /\ rest' = IF rest.left = 0 THEN None ELSE [rest EXCEPT !.left = @ - 1]
      /\ UNCHANGED <<newRemoteRequest, channel, state, oRequest, bank, ready, waits>>
      /\ Notify(L2Logic, {"canRead"}, {})
  BY DEF ArrivePayload, Between
<1>2. rest \in Flit /\ ~newRemoteRequest /\ Follows(rest, flit) /\ rest.tag \in Tag
  BY <1>1 DEF TypeOK, PacketsOK
<1>3. rest' # None => rest' \in Flit /\ rest'.tag = rest.tag /\ Follows(rest', rest)
  <2>1. CASE rest.left # 0
    BY <1>1, <1>2, <2>1 DEF Flit, Follows
  <2>2. CASE rest.left = 0
    BY <1>1, <2>2
  <2>. QED BY <2>1, <2>2
<1>4. /\ FiltersOK' /\ HitsOK' /\ Unanswered' = Unanswered
      /\ notified' \in [Process -> SUBSET Event]
  BY <1>1, <1>2, NetworkLeavesFilters
<1>5. TypeOK'
  <2>2. {fromNetwork, rest, flit}' \subseteq Flit \cup {None}
    BY <1>1, <1>2, <1>3 DEF TypeOK, channel
  <2>. QED BY <1>1, <1>4, <2>2 DEF TypeOK, channel, bank
<1>6. PacketsOK'
  <2>1. rest' = None <=> fromNetwork'.left = 0
    <3>1. rest.left # 0 => [rest EXCEPT !.left = @ - 1] \in Flit
      BY <1>2 DEF Flit
    <3>. QED BY <1>1, <3>1
  <2>. QED BY <1>1, <1>2, <1>3, <2>1 DEF PacketsOK, Follows, channel
<1>10. FramesOK' /\ BanksOK' /\ OneClaim'
  BY <1>1, SameBanks DEF channel
<1>11. RequestsOK'
  <2>1. ArrivalSettled'
    BY <1>1, <1>2 DEF ArrivalSettled, Follows
  <2>2. \A t : Settled(t)' = Settled(t)
    BY <1>1, SameBanks DEF channel
  <2>3. \A b, t : Claims(b, t)' = Claims(b, t)
    BY <1>1, SameBanks DEF channel
  <2>. QED BY <1>1, <1>4, <2>1, <2>2, <2>3
          DEF RequestsOK, Offered, Undecided, channel, contains, bank
<1>. QED BY <1>4, <1>5, <1>6, <1>10, <1>11

-----------------------------------------------------------------------------
(* Steps of the banks.                                                     *)

\* Bank b alone acts, between two delta cycles.
ActsAlone(b) ==
  /\ ready = {} /\ UNCHANGED around /\ Quiet
  /\ \A c \in Bank \ {b} :
       /\ oRequest'[c] = oRequest[c] /\ bankState'[c] = bankState[c]
       /\ serving'[c] = serving[c] /\ line'[c] = line[c]
       /\ pendingFlushes'[c] = pendingFlushes[c]
       /\ outputReqQueue'[c] = outputReqQueue[c]

\* It may give up claims, and gets no line of which Settled speaks.
ClaimsLess(b) ==
  \A t \in Tag :
    /\ Claims(b, t)' => Claims(b, t)
    /\ SettledAt(b, t) =>
         /\ SettledAt(b, t)'
         /\ contains(b, t)' => contains(b, t)
         /\ t \in pendingFlushes'[b] => t \in pendingFlushes[b] \/ contains(b, t)

LEMMA OthersSame ==
  ASSUME NEW b \in Bank, ActsAlone(b), NEW c \in Bank, c # b
  PROVE  /\ FrameOK(c) => FrameOK(c)'
         /\ BankOK(c) => BankOK(c)'
         /\ \A t : Claims(c, t)' = Claims(c, t)
         /\ \A t : SettledAt(c, t)' = SettledAt(c, t)
         /\ \A t : contains(c, t)' = contains(c, t)
<1> USE DEF ActsAlone, around, channel, contains
<1>1. /\ oRequest'[c] = oRequest[c] /\ bankState'[c] = bankState[c]
      /\ serving'[c] = serving[c] /\ line'[c] = line[c]
      /\ pendingFlushes'[c] = pendingFlushes[c]
      /\ outputReqQueue'[c] = outputReqQueue[c]
  OBVIOUS
<1>2. FrameOK(c) => FrameOK(c)'
  BY <1>1 DEF FrameOK, Open, InPacket
<1>3. BankOK(c) => BankOK(c)'
  BY <1>1 DEF BankOK, Queued
<1>4. \A t : Claims(c, t)' = Claims(c, t)
  BY <1>1 DEF Claims, Asks
<1>5. \A t : SettledAt(c, t)' = SettledAt(c, t)
  BY <1>1 DEF SettledAt, Misses
<1>. QED BY <1>1, <1>2, <1>3, <1>4, <1>5

LEMMA BankStepKeeps ==
  ASSUME IInv, NEW b \in Bank, ActsAlone(b), ClaimsLess(b),
         TypeOK', FrameOK(b)', BankOK(b)', oRequest'[b] \in {oRequest[b], None}
  PROVE  IInv'
<1> USE Constants DEF IInv
<1>1. ready = {} /\ UNCHANGED <<network, newRemoteRequest, channel, state, ready, waits>> /\ Quiet
  BY DEF ActsAlone, around
<1>2. FiltersOK' /\ HitsOK' /\ Unanswered' = Unanswered
  BY <1>1, BanksLeaveFilters, SameAnswers DEF around
<1>3. PacketsOK'
  <2>1. \A c \in Bank : oRequest'[c] \in {oRequest[c], None}
    BY DEF ActsAlone
  <2>. QED BY <1>1, <2>1 DEF PacketsOK, network, channel, Follows
<1>4. FramesOK' /\ BanksOK'
  BY OthersSame DEF FramesOK, BanksOK
<1>5. \A c \in Bank, t \in Tag : Claims(c, t)' => Claims(c, t)
  BY OthersSame DEF ClaimsLess
<1>6. OneClaim'
  BY <1>5 DEF OneClaim
<1>7. ASSUME NEW t \in Tag, Settled(t)
      PROVE  /\ Settled(t)'
             /\ \A c \in Bank : /\ contains(c, t)' => contains(c, t)
                                /\ t \in pendingFlushes'[c] =>
                                     t \in pendingFlushes[c] \/ contains(c, t)
  <2>1. ASSUME NEW c \in Bank, c # b
        PROVE  /\ SettledAt(c, t)' /\ contains(c, t)' = contains(c, t)
               /\ pendingFlushes'[c] = pendingFlushes[c]
    BY <1>7, <2>1, OthersSame DEF Settled, ActsAlone
  <2>. QED BY <1>7, <2>1 DEF ClaimsLess, Settled
<1>8. RequestsOK'
  <2> USE DEF channel, network
  <2>1. flit # None => flit.tag \in Tag
    BY DEF PacketsOK
  <2>2. ArrivalSettled'
    <3>1. fromNetwork # None => fromNetwork.tag \in Tag
      BY DEF PacketsOK
    <3>2. fromNetwork' = fromNetwork /\ consumed' = consumed /\ flit' = flit
      BY <1>1
    <3>. QED BY <1>7, <3>1, <3>2 DEF RequestsOK, ArrivalSettled
  <2>3. Offered' => Offered /\ Settled(flit.tag)'
    BY <1>1, <1>7, <2>1 DEF RequestsOK, Offered
  <2>4. ASSUME Undecided', NEW c \in Bank \ Unanswered
        PROVE  ~contains(c, flit.tag)' /\ flit.tag \notin pendingFlushes'[c]
    <3>1. Undecided /\ flit.tag \in Tag /\ Settled(flit.tag)
      BY <1>1, <2>1, <2>4 DEF Undecided, Offered, RequestsOK
    <3>2. PICK t \in Tag : t = flit.tag
      BY <3>1
    <3>3. /\ contains(c, t)' => contains(c, t)
          /\ t \in pendingFlushes'[c] => t \in pendingFlushes[c] \/ contains(c, t)
      BY <1>7, <3>1, <3>2
    <3>4. ~contains(c, t) /\ t \notin pendingFlushes[c]
      BY <3>1, <3>2, <2>4 DEF RequestsOK
    <3>5. flit'.tag = t
      BY <1>1, <3>2
    <3>. QED BY <3>2, <3>3, <3>4, <3>5 DEF contains
  <2>5. ASSUME NEW c \in Bank, NEW d \in Bank, waits'[c] = "requestSent", ~flit'.skip, d # c
        PROVE  ~Claims(d, flit.tag)'
    <3>1. waits[c] = "requestSent" /\ ~flit.skip /\ ~Claims(d, flit.tag)
      BY <1>1, <2>5 DEF RequestsOK
    <3>2. flit # None
      BY <3>1 DEF FiltersOK, EventsOK, EventOK, AnswersOK, Unanswered, Owes, TypeOK
    <3>3. PICK t \in Tag : t = flit.tag
      BY <2>1, <3>2
    <3>4. ~Claims(d, t)'
      BY <1>5, <3>1, <3>3
    <3>5. flit'.tag = t
      BY <1>1, <3>3
    <3>. QED BY <3>4, <3>5 DEF Claims, contains, Asks
  <2>6. flit' = flit
    BY <1>1
  <2>. QED BY <1>1, <1>2, <2>2, <2>3, <2>4, <2>5, <2>6 DEF RequestsOK
<1>. QED BY <1>2, <1>3, <1>4, <1>6, <1>8

(* What a bank notifies, and what its queue holds after a write or a read. *)
LEMMA OwnEvents ==
  ASSUME TypeOK, NEW b \in Bank, NEW own \in SUBSET {"ack", "requestSent"}, Notify(b, own, {})
  PROVE  Quiet /\ notified' \in [Process -> SUBSET Event]
  BY DEF Notify, Quiet, TypeOK, Event

LEMMA Written ==
  ASSUME TypeOK, NEW b \in Bank, NEW f \in ReqFlit, canSendRequest(b),
         outputReqQueue' = [outputReqQueue EXCEPT ![b] = Append(@, f)]
  PROVE  /\ outputReqQueue' \in [Bank -> Seq(ReqFlit)]
         /\ \A c \in Bank : Len(outputReqQueue'[c]) <= requestQueueSize
         /\ \A k, t : Queued(b, k, t)' => Queued(b, k, t) \/ (f.kind = k /\ f.tag = t)
<1> DEFINE q == outputReqQueue[b]
<1>1. q \in Seq(ReqFlit) /\ Len(q) < requestQueueSize /\ requestQueueSize \in Nat
  BY Constants DEF TypeOK, canSendRequest, requestQueueSize
<1>2. outputReqQueue'[b] = Append(q, f)
  BY DEF TypeOK
<1>3. /\ Append(q, f) \in Seq(ReqFlit) /\ Len(Append(q, f)) = Len(q) + 1
      /\ DOMAIN Append(q, f) = 1 .. Len(q) + 1 /\ DOMAIN q = 1 .. Len(q) /\ Len(q) \in Nat
      /\ \A i \in 1 .. Len(q) : Append(q, f)[i] = q[i]
      /\ Append(q, f)[Len(q) + 1] = f
  BY <1>1
<1>4. outputReqQueue' \in [Bank -> Seq(ReqFlit)]
  BY <1>3 DEF TypeOK
<1>5. \A c \in Bank : Len(outputReqQueue'[c]) <= requestQueueSize
  <2>1. \A c \in Bank \ {b} : outputReqQueue'[c] = outputReqQueue[c]
    BY DEF TypeOK
  <2>. QED BY <1>1, <1>2, <1>3, <2>1 DEF TypeOK
<1>6. ASSUME NEW k, NEW t, Queued(b, k, t)'
      PROVE  Queued(b, k, t) \/ (f.kind = k /\ f.tag = t)
  <2>1. PICK i \in DOMAIN Append(q, f) : Append(q, f)[i].kind = k /\ Append(q, f)[i].tag = t
    BY <1>2, <1>6 DEF Queued
  <2>2. CASE i \in 1 .. Len(q)
    BY <1>3, <2>1, <2>2 DEF Queued
  <2>3. CASE i = Len(q) + 1
    BY <1>3, <2>1, <2>3
  <2>. QED BY <1>3, <2>1, <2>2, <2>3
<1>. QED BY <1>4, <1>5, <1>6

LEMMA Sent ==
  ASSUME TypeOK, NEW b \in Bank, outputReqQueue[b] # <<>>,
         outputReqQueue' = [outputReqQueue EXCEPT ![b] = Tail(@)]
  PROVE  /\ outputReqQueue' \in [Bank -> Seq(ReqFlit)]
         /\ \A c \in Bank : Len(outputReqQueue'[c]) <= requestQueueSize
         /\ \A k, t : Queued(b, k, t)' => Queued(b, k, t)
<1> DEFINE q == outputReqQueue[b]
<1>1. q \in Seq(ReqFlit) /\ Len(q) <= requestQueueSize /\ requestQueueSize \in Nat
  BY Constants DEF TypeOK, requestQueueSize
<1>2. outputReqQueue'[b] = Tail(q)
  BY DEF TypeOK
<1>3. /\ Tail(q) \in Seq(ReqFlit) /\ Len(Tail(q)) = Len(q) - 1 /\ Len(q) \in Nat
      /\ DOMAIN Tail(q) = 1 .. Len(q) - 1 /\ DOMAIN q = 1 .. Len(q)
      /\ \A i \in 1 .. Len(q) - 1 : Tail(q)[i] = q[i + 1]
  BY <1>1
<1>4. outputReqQueue' \in [Bank -> Seq(ReqFlit)]
  BY <1>3 DEF TypeOK
<1>5. \A c \in Bank : Len(outputReqQueue'[c]) <= requestQueueSize
  <2>1. \A c \in Bank \ {b} : outputReqQueue'[c] = outputReqQueue[c]
    BY DEF TypeOK
  <2>. QED BY <1>1, <1>2, <1>3, <2>1 DEF TypeOK
<1>6. ASSUME NEW k, NEW t, Queued(b, k, t)'
      PROVE  Queued(b, k, t)
  <2>1. PICK i \in DOMAIN Tail(q) : Tail(q)[i].kind = k /\ Tail(q)[i].tag = t
    BY <1>2, <1>6 DEF Queued
  <2>. QED BY <1>3, <2>1 DEF Queued
<1>. QED BY <1>4, <1>5, <1>6

(* The bank begins with the flit it is offered.                            *)
LEMMA StartRequestKeeps ==
  ASSUME IInv, NEW b \in Bank, StartRequest(b)
  PROVE  IInv'
<1> USE Constants DEF IInv
<1>1. /\ ready = {} /\ bankState[b] = "IDLE" /\ oRequest[b] # None /\ serving[b] = None
      /\ bankState' = [bankState EXCEPT ![b] = "REQUEST"]
      /\ serving' = [serving EXCEPT ![b] = oRequest[b]]
      /\ oRequest' = [oRequest EXCEPT ![b] = None]
      /\ Notify(b, {"ack"}, {})
      /\ UNCHANGED <<around, line, cursor, pendingFlushes, outputReqQueue>>
  BY DEF StartRequest, Between, Enter, TakeFlit, BanksOK, BankOK
<1>2. Quiet /\ notified' \in [Process -> SUBSET Event]
  BY <1>1, OwnEvents
<1>3. oRequest[b] \in Flit /\ oRequest[b].tag \in Tag
  BY <1>1 DEF TypeOK, PacketsOK
<1>4. TypeOK'
  BY <1>1, <1>2, <1>3 DEF TypeOK, around, channel, network
<1>5. /\ bankState'[b] = "REQUEST" /\ serving'[b] = oRequest[b] /\ oRequest'[b] = None
      /\ line'[b] = line[b] /\ outputReqQueue'[b] = outputReqQueue[b]
      /\ pendingFlushes'[b] = pendingFlushes[b]
  BY <1>1 DEF TypeOK
<1>6. ActsAlone(b)
  BY <1>1, <1>2 DEF ActsAlone, TypeOK
<1>7. FrameOK(b)'
  BY <1>1, <1>3, <1>5 DEF FramesOK, FrameOK, Open, InPacket, Flit, around, channel
<1>8. BankOK(b)'
  BY <1>1, <1>3, <1>5 DEF BanksOK, BankOK, Queued, contains
<1>9. ClaimsLess(b)
  BY <1>1, <1>3, <1>5 DEF ClaimsLess, Claims, Asks, SettledAt, contains, Misses, around, channel
<1>. QED BY <1>4, <1>5, <1>6, <1>7, <1>8, <1>9, BankStepKeeps

LEMMA WriteFacts ==
  ASSUME TypeOK, NEW b \in Bank, NEW f \in ReqFlit, canSendRequest(b), Write(b, f)
  PROVE  /\ Quiet /\ notified' \in [Process -> SUBSET Event]
         /\ outputReqQueue' = [outputReqQueue EXCEPT ![b] = Append(@, f)]
         /\ outputReqQueue' \in [Bank -> Seq(ReqFlit)]
         /\ \A c \in Bank : Len(outputReqQueue'[c]) <= requestQueueSize
         /\ \A k, t : Queued(b, k, t)' => Queued(b, k, t) \/ (f.kind = k /\ f.tag = t)
<1>1. outputReqQueue' = [outputReqQueue EXCEPT ![b] = Append(@, f)]
  BY DEF Write
<1>2. Quiet /\ notified' \in [Process -> SUBSET Event]
  <2>1. WriteEvents(b) \in SUBSET {"ack", "requestSent"}
    BY DEF WriteEvents
  <2>. QED BY <2>1, OwnEvents DEF Write
<1>. QED BY <1>1, <1>2, Written

\* What validate() and flush() leave, for the tag that bank b is serving.
Placed(b, next) ==
  /\ Quiet /\ notified' \in [Process -> SUBSET Event]
  /\ outputReqQueue' \in [Bank -> Seq(ReqFlit)]
  /\ \A c \in Bank : Len(outputReqQueue'[c]) <= requestQueueSize
  /\ line' \in [Bank -> [tag : Tag \cup {LocalTag, None}, dirty : BOOLEAN]]
  /\ pendingFlushes' \in [Bank -> SUBSET Tag]
  /\ bankState' \in [Bank -> {"IDLE", "REQUEST", "ALLOCATE", "FLUSH", "MISS", "FORWARD"}]
  /\ bankState'[b] \in {"FLUSH", next}
  /\ line'[b].tag = serving[b].tag /\ ~line'[b].dirty
  /\ \A t \in pendingFlushes'[b] : t \in pendingFlushes[b] \/ contains(b, t)
  /\ \A t : Queued(b, "FETCH_LINE", t)' => Queued(b, "FETCH_LINE", t)
  /\ \A c \in Bank \ {b} :
       /\ line'[c] = line[c] /\ pendingFlushes'[c] = pendingFlushes[c]
       /\ outputReqQueue'[c] = outputReqQueue[c] /\ bankState'[c] = bankState[c]
  /\ cursor' = cursor

LEMMA Validated ==
  ASSUME IInv, NEW b \in Bank, canSendRequest(b), serving[b] # None,
         NEW next \in {"REQUEST", "MISS"}, Validate(b, serving[b].tag, next)
  PROVE  Placed(b, next)
<1> USE Constants DEF IInv
<1> DEFINE t == serving[b].tag
           f == [kind |-> "STORE_LINE", tag |-> line[b].tag]
<1>1. /\ line' = [line EXCEPT ![b] = [tag |-> t, dirty |-> FALSE]]
      /\ cursor' = cursor
  BY DEF Validate
<1>2. t \in Tag \cup {LocalTag}
  BY DEF TypeOK, Flit
<1>3. /\ line' \in [Bank -> [tag : Tag \cup {LocalTag, None}, dirty : BOOLEAN]]
      /\ line'[b].tag = t /\ ~line'[b].dirty
      /\ \A c \in Bank \ {b} : line'[c] = line[c]
  <2>1. [tag |-> t, dirty |-> FALSE] \in [tag : Tag \cup {LocalTag, None}, dirty : BOOLEAN]
    BY <1>2
  <2>. HIDE DEF t
  <2>. QED BY <1>1, <2>1 DEF TypeOK
<1>4. CASE line[b].dirty
  <2>1. /\ Write(b, f)
        /\ pendingFlushes' = [pendingFlushes EXCEPT ![b] = @ \cup {line[b].tag}]
        /\ bankState' = [bankState EXCEPT ![b] = "FLUSH"]
    BY <1>4 DEF Validate, Enter
  <2>2. f \in ReqFlit /\ line[b].tag \in Tag
    BY <1>4 DEF BanksOK, BankOK, TypeOK, ReqFlit
  <2>3. f.kind # "FETCH_LINE"
    OBVIOUS
  <2>4. /\ bankState' \in [Bank -> {"IDLE", "REQUEST", "ALLOCATE", "FLUSH", "MISS", "FORWARD"}]
        /\ bankState'[b] = "FLUSH" /\ \A c \in Bank \ {b} : bankState'[c] = bankState[c]
    BY <2>1 DEF TypeOK
  <2>5. /\ pendingFlushes' \in [Bank -> SUBSET Tag]
        /\ pendingFlushes'[b] = pendingFlushes[b] \cup {line[b].tag}
        /\ \A c \in Bank \ {b} : pendingFlushes'[c] = pendingFlushes[c]
    BY <2>1, <2>2 DEF TypeOK
  <2>. HIDE DEF f
  <2>6. /\ Quiet /\ notified' \in [Process -> SUBSET Event]
        /\ outputReqQueue' = [outputReqQueue EXCEPT ![b] = Append(@, f)]
        /\ outputReqQueue' \in [Bank -> Seq(ReqFlit)]
        /\ \A c \in Bank : Len(outputReqQueue'[c]) <= requestQueueSize
        /\ \A u : Queued(b, "FETCH_LINE", u)' => Queued(b, "FETCH_LINE", u)
    BY <2>1, <2>2, <2>3, WriteFacts
  <2>7. \A c \in Bank \ {b} : outputReqQueue'[c] = outputReqQueue[c]
    BY <2>6 DEF TypeOK
  <2>. QED BY <1>1, <1>3, <2>4, <2>5, <2>6, <2>7 DEF Placed, contains
<1>5. CASE ~line[b].dirty
  <2>1. /\ UNCHANGED <<outputReqQueue, notified, pendingFlushes>>
        /\ bankState' = [bankState EXCEPT ![b] = next]
    BY <1>5 DEF Validate, Enter
  <2>2. /\ bankState' \in [Bank -> {"IDLE", "REQUEST", "ALLOCATE", "FLUSH", "MISS", "FORWARD"}]
        /\ bankState'[b] = next /\ \A c \in Bank \ {b} : bankState'[c] = bankState[c]
    BY <2>1 DEF TypeOK
  <2>3. \A u : Queued(b, "FETCH_LINE", u)' => Queued(b, "FETCH_LINE", u)
    BY <2>1 DEF Queued
  <2>4. Quiet
    BY <2>1 DEF Quiet
  <2>. QED BY <1>1, <1>3, <2>1, <2>2, <2>3, <2>4 DEF Placed, TypeOK
<1>. QED BY <1>4, <1>5

(* A whole line is to be stored: the bank gives it a place.                *)
LEMMA PrepareLineKeeps ==
  ASSUME IInv, NEW b \in Bank, PrepareLine(b)
  PROVE  IInv'
<1> USE Constants DEF IInv
<1>1. /\ ready = {} /\ bankState[b] = "REQUEST" /\ Misses(b) /\ canSendRequest(b)
      /\ serving[b].left > 0 /\ Validate(b, serving[b].tag, "REQUEST")
      /\ UNCHANGED <<around, oRequest, serving>>
  BY DEF PrepareLine, Between
<1>2. serving[b] # None /\ serving[b].tag \in Tag /\ ~serving[b].skip
  BY <1>1 DEF BanksOK, BankOK, Misses
<1>3. Placed(b, "REQUEST")
  BY <1>1, <1>2, Validated
<1>4. TypeOK'
  BY <1>1, <1>3 DEF Placed, TypeOK, around, channel, network
<1>5. ActsAlone(b)
  BY <1>1, <1>3 DEF Placed, ActsAlone
<1>6. FrameOK(b)'
  BY <1>1 DEF FramesOK, FrameOK, Open, InPacket, around, channel
<1>7. \A t \in Tag : ~Queued(b, "FETCH_LINE", t)
  BY <1>1 DEF BanksOK, BankOK
<1>8. BankOK(b)'
  BY <1>1, <1>2, <1>3, <1>7 DEF Placed, BankOK, contains
<1>9. ClaimsLess(b)
  <2>1. ASSUME NEW t \in Tag PROVE Claims(b, t)' => Claims(b, t)
    BY <1>1, <1>2, <1>3 DEF Placed, Claims, Asks, contains, around, channel
  <2>2. ASSUME NEW t \in Tag, SettledAt(b, t)
        PROVE  /\ SettledAt(b, t)' /\ (contains(b, t)' => contains(b, t))
               /\ t \in pendingFlushes'[b] => t \in pendingFlushes[b] \/ contains(b, t)
    <3>1. serving[b].tag # t
      BY <1>1, <1>2, <2>2 DEF SettledAt
    <3>. QED BY <1>1, <1>2, <1>3, <2>2, <3>1 DEF Placed, SettledAt, contains
  <2>. QED BY <2>1, <2>2 DEF ClaimsLess
<1>. QED BY <1>1, <1>4, <1>5, <1>6, <1>8, <1>9, BankStepKeeps

(* The line that has been asked for gets its place.                        *)
LEMMA AllocateKeeps ==
  ASSUME IInv, NEW b \in Bank, Allocate(b)
  PROVE  IInv'
<1> USE Constants DEF IInv
<1>1. /\ ready = {} /\ bankState[b] = "ALLOCATE" /\ canSendRequest(b)
      /\ Validate(b, serving[b].tag, "MISS")
      /\ UNCHANGED <<around, oRequest, serving>>
  BY DEF Allocate, Between
<1>2. /\ serving[b] # None /\ serving[b].left = 0 /\ ~serving[b].skip
      /\ serving[b].tag \in Tag => ~contains(b, serving[b].tag)
  BY <1>1 DEF BanksOK, BankOK
<1>3. Placed(b, "MISS")
  BY <1>1, <1>2, Validated
<1>4. TypeOK'
  BY <1>1, <1>3 DEF Placed, TypeOK, around, channel, network
<1>5. ActsAlone(b)
  BY <1>1, <1>3 DEF Placed, ActsAlone
<1>6. FrameOK(b)'
  BY <1>1 DEF FramesOK, FrameOK, Open, InPacket, around, channel
<1>7. \A t \in Tag : Queued(b, "FETCH_LINE", t)' => serving[b].tag = t
  BY <1>1, <1>3 DEF Placed, BanksOK, BankOK
<1>8. BankOK(b)'
  BY <1>1, <1>2, <1>3, <1>7 DEF Placed, BankOK, contains
<1>9. ClaimsLess(b)
  <2>1. ASSUME NEW t \in Tag PROVE Claims(b, t)' => Claims(b, t)
    BY <1>1, <1>2, <1>3 DEF Placed, Claims, Asks, contains, around, channel
  <2>2. ASSUME NEW t \in Tag, SettledAt(b, t)
        PROVE  /\ SettledAt(b, t)' /\ (contains(b, t)' => contains(b, t))
               /\ t \in pendingFlushes'[b] => t \in pendingFlushes[b] \/ contains(b, t)
    <3>1. serving[b].tag # t
      BY <1>1, <1>2, <2>2 DEF SettledAt, Misses
    <3>. QED BY <1>1, <1>2, <1>3, <2>2, <3>1 DEF Placed, SettledAt, contains
  <2>. QED BY <2>1, <2>2 DEF ClaimsLess
<1>. QED BY <1>1, <1>4, <1>5, <1>6, <1>8, <1>9, BankStepKeeps

(* A read that misses: the next level is asked for the line.               *)
LEMMA PrepareFetchKeeps ==
  ASSUME IInv, NEW b \in Bank, PrepareFetch(b)
  PROVE  IInv'
<1> USE Constants DEF IInv
<1> DEFINE f == [kind |-> "FETCH_LINE", tag |-> serving[b].tag]
<1>1. /\ ready = {} /\ bankState[b] = "REQUEST" /\ Misses(b) /\ canSendRequest(b)
      /\ serving[b].left = 0 /\ Write(b, f)
      /\ bankState' = [bankState EXCEPT ![b] = "ALLOCATE"]
      /\ UNCHANGED <<around, oRequest, serving, line, cursor, pendingFlushes>>
  BY DEF PrepareFetch, Between, Enter
<1>2. serving[b] # None /\ serving[b].tag \in Tag /\ ~serving[b].skip
  BY <1>1 DEF BanksOK, BankOK, Misses
<1>3. f \in ReqFlit /\ f.tag = serving[b].tag
  BY <1>2 DEF ReqFlit
<1> HIDE DEF f
<1>4. /\ Quiet /\ notified' \in [Process -> SUBSET Event]
      /\ outputReqQueue' = [outputReqQueue EXCEPT ![b] = Append(@, f)]
      /\ outputReqQueue' \in [Bank -> Seq(ReqFlit)]
      /\ \A c \in Bank : Len(outputReqQueue'[c]) <= requestQueueSize
      /\ \A k, t : Queued(b, k, t)' => Queued(b, k, t) \/ (f.kind = k /\ f.tag = t)
  BY <1>1, <1>3, WriteFacts
<1>5. TypeOK'
  BY <1>1, <1>4 DEF TypeOK, around, channel, network
<1>6. ActsAlone(b)
  BY <1>1, <1>4 DEF ActsAlone, TypeOK
<1>7. FrameOK(b)'
  BY <1>1 DEF FramesOK, FrameOK, Open, InPacket, around, channel
<1>8. BankOK(b)'
  <2>1. bankState'[b] = "ALLOCATE"
    BY <1>1 DEF TypeOK
  <2>2. \A t \in Tag : Queued(b, "FETCH_LINE", t)' => t = serving[b].tag
    BY <1>1, <1>3, <1>4 DEF BanksOK, BankOK
  <2>. QED BY <1>1, <1>2, <2>1, <2>2 DEF BanksOK, BankOK, contains, Misses
<1>9. ClaimsLess(b)
  BY <1>1 DEF ClaimsLess, Claims, Asks, SettledAt, contains, Misses, around, channel
<1>. QED BY <1>1, <1>5, <1>6, <1>7, <1>8, <1>9, BankStepKeeps

(* A request of a core of this tile misses.                                *)
LEMMA LocalMissKeeps ==
  ASSUME IInv, NEW b \in Bank, LocalMiss(b)
  PROVE  IInv'
<1> USE Constants DEF IInv
<1> DEFINE f == [kind |-> "FETCH_LINE", tag |-> LocalTag]
           s == [tag |-> LocalTag, skip |-> FALSE, left |-> 0, head |-> TRUE]
<1>1. /\ ready = {} /\ bankState[b] = "IDLE" /\ canSendRequest(b) /\ Write(b, f)
      /\ serving' = [serving EXCEPT ![b] = s]
      /\ bankState' = [bankState EXCEPT ![b] = "ALLOCATE"]
      /\ UNCHANGED <<around, oRequest, line, cursor, pendingFlushes>>
  BY DEF LocalMiss, Between, Enter
<1>2. serving[b] = None
  BY <1>1 DEF BanksOK, BankOK
<1> HIDE DEF f, s
<1>3. f \in ReqFlit /\ f.tag = LocalTag
  BY DEF ReqFlit, f
<1>4. s \in Flit /\ s.tag = LocalTag /\ s.left = 0 /\ ~s.skip /\ s # None
  <2>1. 0 \in 0 .. WordsPerLine
    OBVIOUS
  <2>2. s \in Flit
    BY <2>1, Zenon DEF Flit, s
  <2>. QED BY <2>2 DEF s
<1>5. /\ Quiet /\ notified' \in [Process -> SUBSET Event]
      /\ outputReqQueue' = [outputReqQueue EXCEPT ![b] = Append(@, f)]
      /\ outputReqQueue' \in [Bank -> Seq(ReqFlit)]
      /\ \A c \in Bank : Len(outputReqQueue'[c]) <= requestQueueSize
      /\ \A k, t : Queued(b, k, t)' => Queued(b, k, t) \/ (f.kind = k /\ f.tag = t)
  BY <1>1, <1>3, WriteFacts
<1>6. TypeOK'
  BY <1>1, <1>4, <1>5 DEF TypeOK, around, channel, network
<1>7. bankState'[b] = "ALLOCATE" /\ serving'[b] = s
  BY <1>1 DEF TypeOK
<1>8. ActsAlone(b)
  BY <1>1, <1>5 DEF ActsAlone, TypeOK
<1>9. FrameOK(b)'
  BY <1>1, <1>2, <1>4, <1>7 DEF FramesOK, FrameOK, Open, InPacket, around, channel
<1>10. BankOK(b)'
  <2>1. \A t \in Tag : ~Queued(b, "FETCH_LINE", t)'
    BY <1>1, <1>3, <1>5 DEF BanksOK, BankOK
  <2>. QED BY <1>1, <1>4, <1>7, <2>1 DEF BanksOK, BankOK, contains
<1>11. ClaimsLess(b)
  BY <1>1, <1>4, <1>7 DEF ClaimsLess, Claims, Asks, SettledAt, contains, around, channel
<1>. QED BY <1>1, <1>6, <1>8, <1>9, <1>10, <1>11, BankStepKeeps

(* A word of the line that makes room is written.                          *)
LEMMA FlushKeeps ==
  ASSUME IInv, NEW b \in Bank, Flush(b)
  PROVE  IInv'
<1> USE Constants DEF IInv
<1> DEFINE f == [kind |-> "WORD", tag |-> None]
<1>1. /\ ready = {} /\ bankState[b] = "FLUSH" /\ canSendRequest(b) /\ Write(b, f)
      /\ cursor' = [cursor EXCEPT ![b] = (@ + 1) % WordsPerLine]
      /\ UNCHANGED <<around, oRequest, serving, line, pendingFlushes>>
  BY DEF Flush, Between
<1>2. /\ bankState' \in [Bank -> {"IDLE", "REQUEST", "ALLOCATE", "FLUSH", "MISS", "FORWARD"}]
      /\ bankState'[b] \in {"FLUSH", IF serving[b].left > 0 THEN "REQUEST" ELSE "MISS"}
      /\ \A c \in Bank \ {b} : bankState'[c] = bankState[c]
  <2>1. \/ bankState' = bankState
        \/ bankState' = [bankState EXCEPT ![b] = IF serving[b].left > 0 THEN "REQUEST" ELSE "MISS"]
    BY DEF Flush, Enter
  <2>. QED BY <1>1, <2>1 DEF TypeOK
<1>3. serving[b] # None /\ ~serving[b].skip /\ serving[b].left \in 0 .. WordsPerLine
  BY <1>1 DEF BanksOK, BankOK, TypeOK, Flit
<1>4. f \in ReqFlit /\ f.kind = "WORD"
  BY DEF ReqFlit
<1> HIDE DEF f
<1>5. /\ Quiet /\ notified' \in [Process -> SUBSET Event]
      /\ outputReqQueue' = [outputReqQueue EXCEPT ![b] = Append(@, f)]
      /\ outputReqQueue' \in [Bank -> Seq(ReqFlit)]
      /\ \A c \in Bank : Len(outputReqQueue'[c]) <= requestQueueSize
      /\ \A k, t : Queued(b, k, t)' => Queued(b, k, t) \/ (f.kind = k /\ f.tag = t)
  BY <1>1, <1>4, WriteFacts
<1>6. TypeOK'
  <2>1. (cursor[b] + 1) % WordsPerLine \in 0 .. WordsPerLine
    BY DEF TypeOK
  <2>2. cursor' \in [Bank -> 0 .. WordsPerLine]
    BY <1>1, <2>1 DEF TypeOK
  <2>. QED BY <1>1, <1>2, <1>5, <2>2 DEF TypeOK, around, channel, network
<1>7. ActsAlone(b)
  BY <1>1, <1>2, <1>5 DEF ActsAlone, TypeOK
<1>8. FrameOK(b)'
  BY <1>1 DEF FramesOK, FrameOK, Open, InPacket, around, channel
<1>9. BankOK(b)'
  <2>1. \A t \in Tag : Queued(b, "FETCH_LINE", t)' => Queued(b, "FETCH_LINE", t)
    BY <1>4, <1>5
  <2>. QED BY <1>1, <1>2, <1>3, <2>1 DEF BanksOK, BankOK, contains
<1>10. ClaimsLess(b)
  BY <1>1 DEF ClaimsLess, Claims, Asks, SettledAt, contains, Misses, around, channel
<1>. QED BY <1>1, <1>6, <1>7, <1>8, <1>9, <1>10, BankStepKeeps

(* The bank takes a flit of the packet it is serving, and is done with the *)
(* last.                                                                   *)
LEMMA PayloadTaken ==
  ASSUME IInv, NEW b \in Bank, serving[b] # None, serving[b].left > 0, oRequest[b] # None,
         oRequest' = [oRequest EXCEPT ![b] = None],
         IF oRequest[b].left = 0 THEN Done(b) ELSE UNCHANGED <<bankState, serving>>,
         UNCHANGED <<state, channel>>
  PROVE  /\ bankState' \in [Bank -> {"IDLE", "REQUEST", "ALLOCATE", "FLUSH", "MISS", "FORWARD"}]
         /\ serving' \in [Bank -> Flit \cup {None}]
         /\ oRequest' \in [Bank -> Flit \cup {None}] /\ oRequest'[b] = None
         /\ \/ serving'[b] = None /\ bankState'[b] = "IDLE"
            \/ serving'[b] = serving[b] /\ bankState'[b] = bankState[b]
         /\ \A c \in Bank \ {b} : /\ bankState'[c] = bankState[c] /\ serving'[c] = serving[c]
                                  /\ oRequest'[c] = oRequest[c]
         /\ FrameOK(b)'
<1> USE Constants DEF IInv
<1>1. oRequest' \in [Bank -> Flit \cup {None}] /\ oRequest'[b] = None
  BY DEF TypeOK
<1>2. \A c \in Bank \ {b} : oRequest'[c] = oRequest[c]
  BY DEF TypeOK
<1>3. CASE oRequest[b].left = 0
  <2>1. /\ bankState' = [bankState EXCEPT ![b] = "IDLE"]
        /\ serving' = [serving EXCEPT ![b] = None]
    BY <1>3 DEF Done, Enter
  <2>2. serving'[b] = None /\ bankState'[b] = "IDLE"
    BY <2>1 DEF TypeOK
  <2>3. FrameOK(b)'
    BY <1>1, <1>3, <2>2 DEF FramesOK, FrameOK, Open, InPacket, channel
  <2>. QED BY <1>1, <1>2, <2>1, <2>2, <2>3 DEF TypeOK
<1>4. CASE oRequest[b].left # 0
  <2>1. UNCHANGED <<bankState, serving>>
    BY <1>4
  <2>2. FrameOK(b)'
    BY <1>1, <1>4, <2>1 DEF FramesOK, FrameOK, Open, InPacket, channel
  <2>. QED BY <1>1, <1>2, <2>1, <2>2 DEF TypeOK
<1>. QED BY <1>3, <1>4

(* A word of a whole line is stored.                                       *)
LEMMA StoreWordKeeps ==
  ASSUME IInv, NEW b \in Bank, StoreWord(b)
  PROVE  IInv'
<1> USE Constants DEF IInv
<1>1. /\ ready = {} /\ bankState[b] = "REQUEST" /\ ~serving[b].skip /\ ~Misses(b)
      /\ serving[b].left > 0 /\ oRequest[b] # None
      /\ line' = [line EXCEPT ![b].dirty = TRUE]
      /\ oRequest' = [oRequest EXCEPT ![b] = None]
      /\ Notify(b, {"ack"}, {})
      /\ IF oRequest[b].left = 0 THEN Done(b) ELSE UNCHANGED <<bankState, serving>>
      /\ UNCHANGED <<around, cursor, pendingFlushes, outputReqQueue>>
  BY DEF StoreWord, Between, TakeFlit
<1>2. serving[b] # None /\ serving[b].tag \in Tag /\ contains(b, serving[b].tag)
  BY <1>1 DEF BanksOK, BankOK, Misses
<1>3. Quiet /\ notified' \in [Process -> SUBSET Event]
  BY <1>1, OwnEvents
<1>4. /\ bankState' \in [Bank -> {"IDLE", "REQUEST", "ALLOCATE", "FLUSH", "MISS", "FORWARD"}]
      /\ serving' \in [Bank -> Flit \cup {None}]
      /\ oRequest' \in [Bank -> Flit \cup {None}] /\ oRequest'[b] = None
      /\ \/ serving'[b] = None /\ bankState'[b] = "IDLE"
         \/ serving'[b] = serving[b] /\ bankState'[b] = bankState[b]
      /\ \A c \in Bank \ {b} : /\ bankState'[c] = bankState[c] /\ serving'[c] = serving[c]
                               /\ oRequest'[c] = oRequest[c]
      /\ FrameOK(b)'
  BY <1>1, <1>2, PayloadTaken DEF around
<1>5. /\ line' \in [Bank -> [tag : Tag \cup {LocalTag, None}, dirty : BOOLEAN]]
      /\ line'[b].tag = serving[b].tag
      /\ \A c \in Bank \ {b} : line'[c] = line[c]
  <2>1. [line[b] EXCEPT !.dirty = TRUE] \in [tag : Tag \cup {LocalTag, None}, dirty : BOOLEAN]
    <3>1. line[b] \in [tag : Tag \cup {LocalTag, None}, dirty : BOOLEAN] /\ TRUE \in BOOLEAN
      BY DEF TypeOK
    <3>. QED BY <3>1
  <2>2. [line[b] EXCEPT !.dirty = TRUE].tag = serving[b].tag
    BY <1>2 DEF TypeOK, contains
  <2>3. line' = [line EXCEPT ![b] = [line[b] EXCEPT !.dirty = TRUE]]
    BY <1>1
  <2>. QED BY <2>1, <2>2, <2>3 DEF TypeOK
<1>6. TypeOK'
  BY <1>1, <1>3, <1>4, <1>5 DEF TypeOK, around, channel, network
<1>7. ActsAlone(b)
  BY <1>1, <1>3, <1>4, <1>5 DEF ActsAlone
<1>8. BankOK(b)'
  <2>1. \A t \in Tag : ~Queued(b, "FETCH_LINE", t)'
    BY <1>1 DEF BanksOK, BankOK, Queued
  <2>. QED BY <1>1, <1>2, <1>4, <1>5, <2>1 DEF BankOK, contains
<1>9. ClaimsLess(b)
  <2>1. \A t : contains(b, t)' <=> contains(b, t)
    BY <1>2, <1>5 DEF contains
  <2>2. \A t : SettledAt(b, t) => SettledAt(b, t)'
    BY <1>2, <1>4, <2>1 DEF SettledAt, Misses
  <2>. QED BY <1>1, <1>4, <2>1, <2>2 DEF ClaimsLess, Claims, Asks, around, channel
<1>. QED BY <1>4, <1>6, <1>7, <1>8, <1>9, BankStepKeeps

(* A request that skips this cache goes to the next level, flit by flit.   *)
LEMMA ForwardPayloadKeeps ==
  ASSUME IInv, NEW b \in Bank, ForwardPayload(b)
  PROVE  IInv'
<1> USE Constants DEF IInv
<1> DEFINE f == [kind |-> "WORD", tag |-> None]
<1>1. /\ ready = {} /\ bankState[b] = "FORWARD" /\ oRequest[b] # None /\ canSendRequest(b)
      /\ oRequest' = [oRequest EXCEPT ![b] = None]
      /\ outputReqQueue' = [outputReqQueue EXCEPT ![b] = Append(@, f)]
      /\ Notify(b, {"ack"} \cup WriteEvents(b), {})
      /\ IF oRequest[b].left = 0 THEN Done(b) ELSE UNCHANGED <<bankState, serving>>
      /\ UNCHANGED <<around, line, cursor, pendingFlushes>>
  BY DEF ForwardPayload, Between
<1>2. serving[b] # None /\ serving[b].left > 0
  BY <1>1 DEF BanksOK, BankOK
<1>3. Quiet /\ notified' \in [Process -> SUBSET Event]
  <2>1. {"ack"} \cup WriteEvents(b) \in SUBSET {"ack", "requestSent"}
    BY DEF WriteEvents
  <2>. QED BY <1>1, <2>1, OwnEvents
<1>4. f \in ReqFlit /\ f.kind = "WORD"
  BY DEF ReqFlit
<1> HIDE DEF f
<1>5. /\ outputReqQueue' \in [Bank -> Seq(ReqFlit)]
      /\ \A c \in Bank : Len(outputReqQueue'[c]) <= requestQueueSize
      /\ \A k, t : Queued(b, k, t)' => Queued(b, k, t) \/ (f.kind = k /\ f.tag = t)
  BY <1>1, <1>4, Written
<1>6. /\ bankState' \in [Bank -> {"IDLE", "REQUEST", "ALLOCATE", "FLUSH", "MISS", "FORWARD"}]
      /\ serving' \in [Bank -> Flit \cup {None}]
      /\ oRequest' \in [Bank -> Flit \cup {None}] /\ oRequest'[b] = None
      /\ \/ serving'[b] = None /\ bankState'[b] = "IDLE"
         \/ serving'[b] = serving[b] /\ bankState'[b] = bankState[b]
      /\ \A c \in Bank \ {b} : /\ bankState'[c] = bankState[c] /\ serving'[c] = serving[c]
                               /\ oRequest'[c] = oRequest[c]
      /\ FrameOK(b)'
  BY <1>1, <1>2, PayloadTaken DEF around
<1>7. TypeOK'
  BY <1>1, <1>3, <1>5, <1>6 DEF TypeOK, around, channel, network
<1>8. ActsAlone(b)
  BY <1>1, <1>3, <1>6 DEF ActsAlone, TypeOK
<1>9. BankOK(b)'
  <2>1. \A t \in Tag : ~Queued(b, "FETCH_LINE", t)'
    BY <1>1, <1>4, <1>5 DEF BanksOK, BankOK
  <2>. QED BY <1>1, <1>2, <1>6, <2>1 DEF BanksOK, BankOK, contains
<1>10. ClaimsLess(b)
  <2>1. \A t : contains(b, t)' <=> contains(b, t)
    BY <1>1 DEF contains
  <2>2. \A t : SettledAt(b, t) => SettledAt(b, t)'
    BY <1>2, <1>6, <2>1 DEF SettledAt, Misses
  <2>. QED BY <1>1, <1>6, <2>1, <2>2 DEF ClaimsLess, Claims, Asks, around, channel
<1>. QED BY <1>6, <1>7, <1>8, <1>9, <1>10, BankStepKeeps

LEMMA ForwardRequestKeeps ==
  ASSUME IInv, NEW b \in Bank, ForwardRequest(b)
  PROVE  IInv'
<1> USE Constants DEF IInv
<1> DEFINE f == [kind |-> "FORWARD", tag |-> serving[b].tag]
<1>1. /\ ready = {} /\ bankState[b] = "REQUEST" /\ serving[b].skip /\ canSendRequest(b)
      /\ Write(b, f)
      /\ bankState' = [bankState EXCEPT ![b] = IF serving[b].left > 0 THEN "FORWARD" ELSE "MISS"]
      /\ UNCHANGED <<around, oRequest, serving, line, cursor, pendingFlushes>>
  BY DEF ForwardRequest, Between, Enter
<1>2. serving[b] # None /\ serving[b].tag \in Tag /\ serving[b].left \in 0 .. WordsPerLine
  BY <1>1 DEF BanksOK, BankOK, TypeOK, Flit
<1>3. f \in ReqFlit /\ f.kind = "FORWARD"
  BY <1>2 DEF ReqFlit
<1> HIDE DEF f
<1>4. /\ Quiet /\ notified' \in [Process -> SUBSET Event]
      /\ outputReqQueue' = [outputReqQueue EXCEPT ![b] = Append(@, f)]
      /\ outputReqQueue' \in [Bank -> Seq(ReqFlit)]
      /\ \A c \in Bank : Len(outputReqQueue'[c]) <= requestQueueSize
      /\ \A k, t : Queued(b, k, t)' => Queued(b, k, t) \/ (f.kind = k /\ f.tag = t)
  BY <1>1, <1>3, WriteFacts
<1>5. TypeOK'
  BY <1>1, <1>4 DEF TypeOK, around, channel, network
<1>6. ActsAlone(b)
  BY <1>1, <1>4 DEF ActsAlone, TypeOK
<1>7. FrameOK(b)'
  BY <1>1 DEF FramesOK, FrameOK, Open, InPacket, around, channel
<1>8. BankOK(b)'
  <2>1. bankState'[b] = IF serving[b].left > 0 THEN "FORWARD" ELSE "MISS"
    BY <1>1 DEF TypeOK
  <2>2. \A t \in Tag : ~Queued(b, "FETCH_LINE", t)'
    BY <1>1, <1>3, <1>4 DEF BanksOK, BankOK
  <2>. QED BY <1>1, <1>2, <2>1, <2>2 DEF BanksOK, BankOK, contains
<1>9. ClaimsLess(b)
  BY <1>1 DEF ClaimsLess, Claims, Asks, SettledAt, contains, Misses, around, channel
<1>. QED BY <1>1, <1>5, <1>6, <1>7, <1>8, <1>9, BankStepKeeps

(* A read is answered.                                                     *)
LEMMA AnswerKeeps ==
  ASSUME IInv, NEW b \in Bank, Answer(b)
  PROVE  IInv'
<1> USE Constants DEF IInv
<1>1. /\ ready = {}
      /\ bankState' = [bankState EXCEPT ![b] = "IDLE"]
      /\ serving' = [serving EXCEPT ![b] = None]
      /\ UNCHANGED <<around, oRequest, line, cursor, pendingFlushes, outputReqQueue, notified>>
  BY DEF Answer, Between, Done, Enter
<1>2. bankState[b] \in {"REQUEST", "MISS"} /\ serving[b] # None /\ serving[b].left = 0
  BY DEF Answer, BanksOK, BankOK
<1>3. \A t \in Tag : ~Queued(b, "FETCH_LINE", t)
  <2>1. CASE bankState[b] = "REQUEST"
    BY <2>1 DEF BanksOK, BankOK
  <2>2. CASE bankState[b] = "MISS"
    BY <2>2 DEF Answer, Queued
  <2>. QED BY <1>2, <2>1, <2>2
<1>4. bankState'[b] = "IDLE" /\ serving'[b] = None
  BY <1>1 DEF TypeOK
<1>5. TypeOK'
  BY <1>1 DEF TypeOK, around, channel, network
<1>6. ActsAlone(b)
  BY <1>1 DEF ActsAlone, TypeOK, Quiet
<1>7. FrameOK(b)'
  BY <1>1, <1>2, <1>4 DEF FramesOK, FrameOK, Open, InPacket, around, channel
<1>8. BankOK(b)'
  <2>1. \A t \in Tag : ~Queued(b, "FETCH_LINE", t)'
    BY <1>1, <1>3 DEF Queued
  <2>. QED BY <1>1, <1>4, <2>1 DEF BanksOK, BankOK, contains
<1>9. ClaimsLess(b)
  BY <1>1, <1>4 DEF ClaimsLess, Claims, Asks, SettledAt, contains, around, channel
<1>. QED BY <1>1, <1>5, <1>6, <1>7, <1>8, <1>9, BankStepKeeps

(* A flit leaves.                                                          *)
LEMMA SendRequestKeeps ==
  ASSUME IInv, NEW b \in Bank, SendRequest(b)
  PROVE  IInv'
<1> USE Constants DEF IInv
<1>1. /\ ready = {} /\ outputReqQueue[b] # <<>>
      /\ outputReqQueue' = [outputReqQueue EXCEPT ![b] = Tail(@)]
      /\ Notify(b, ReadRequestEvents(b), {})
      /\ UNCHANGED <<around, oRequest, bankState, serving, line, cursor>>
  BY DEF SendRequest, Between
<1>2. Quiet /\ notified' \in [Process -> SUBSET Event]
  <2>1. ReadRequestEvents(b) \in SUBSET {"ack", "requestSent"}
    BY DEF ReadRequestEvents
  <2>. QED BY <1>1, <2>1, OwnEvents
<1>3. /\ pendingFlushes' \in [Bank -> SUBSET Tag]
      /\ pendingFlushes'[b] \subseteq pendingFlushes[b]
      /\ \A c \in Bank \ {b} : pendingFlushes'[c] = pendingFlushes[c]
  BY DEF SendRequest, TypeOK
<1>4. /\ outputReqQueue' \in [Bank -> Seq(ReqFlit)]
      /\ \A c \in Bank : Len(outputReqQueue'[c]) <= requestQueueSize
      /\ \A k, t : Queued(b, k, t)' => Queued(b, k, t)
  BY <1>1, Sent
<1>5. TypeOK'
  BY <1>1, <1>2, <1>3, <1>4 DEF TypeOK, around, channel, network
<1>6. ActsAlone(b)
  BY <1>1, <1>2, <1>3 DEF ActsAlone, TypeOK
<1>7. FrameOK(b)'
  BY <1>1 DEF FramesOK, FrameOK, Open, InPacket, around, channel
<1>8. BankOK(b)'
  BY <1>1, <1>4 DEF BanksOK, BankOK, contains
<1>9. ClaimsLess(b)
  BY <1>1, <1>3 DEF ClaimsLess, Claims, Asks, SettledAt, contains, Misses, around, channel
<1>. QED BY <1>1, <1>5, <1>6, <1>7, <1>8, <1>9, BankStepKeeps

-----------------------------------------------------------------------------
(* Steps of the kernel.                                                    *)

(* What holds of a filter that is about to run.                            *)
LEMMA WhenReady ==
  ASSUME IInv, NEW b \in Bank, b \in ready
  PROVE  /\ \A c \in Bank : {"newRequest", "newFlit"} \cap notified[c] = {}
         /\ state[b] = "IDLE" =>
              /\ b \in Unanswered /\ flit \in Flit /\ flit.tag \in Tag /\ flit.head
              /\ ~canWrite /\ (~flit.skip => ~consumed) /\ (consumed => hit)
              /\ \A c \in Bank : "allResponses" \notin notified[c]
         /\ state[b] = "WAIT" => Unanswered = {} /\ ~flit.skip /\ flit \in Flit /\ (consumed => hit)
         /\ state[b] = "SEND" => flit \in Flit /\ ~consumed /\ (~flit.skip => Unanswered = {})
<1> USE Constants DEF IInv, FiltersOK
<1>1. \A c \in Bank : {"newRequest", "newFlit"} \cap notified[c] = {}
  BY DEF EventsOK, EventOK
<1>2. ASSUME state[b] = "IDLE"
      PROVE  /\ b \in Unanswered /\ flit \in Flit /\ flit.tag \in Tag /\ flit.head
             /\ ~canWrite /\ (~flit.skip => ~consumed) /\ (consumed => hit)
             /\ \A c \in Bank : "allResponses" \notin notified[c]
  <2>1. b \in Unanswered
    BY <1>2 DEF Unanswered, Owes
  <2>2. flit \in Flit /\ flit.tag \in Tag /\ flit.head /\ (~flit.skip => ~consumed) /\ (consumed => hit)
    BY <2>1 DEF AnswersOK, TypeOK, PacketsOK
  <2>3. ~canWrite
    <3>1. Cardinality(Unanswered) \in Nat /\ Cardinality(Unanswered) # 0
      BY <2>1, AnswersCounted DEF Unanswered
    <3>2. numResponses # NumBanks
      BY <3>1 DEF AnswersOK, TypeOK
    <3>. QED BY <3>2 DEF canWrite, allResponsesReceived
  <2>4. \A c \in Bank : "allResponses" \notin notified[c]
    BY <2>1 DEF EventsOK, EventOK
  <2>. QED BY <2>1, <2>2, <2>3, <2>4
<1>3. ASSUME state[b] = "WAIT"
      PROVE  Unanswered = {} /\ ~flit.skip /\ flit \in Flit /\ (consumed => hit)
  BY <1>3 DEF WaitsOK, WaitOK, TypeOK
<1>4. ASSUME state[b] = "SEND"
      PROVE  flit \in Flit /\ ~consumed /\ (~flit.skip => Unanswered = {})
  <2>1. flit \in Flit /\ ~consumed /\ (hit \/ Unanswered = {})
    BY <1>4 DEF SendsOK, SendOK, TypeOK
  <2>2. ASSUME ~flit.skip, hit, Unanswered # {} PROVE FALSE
    BY <1>4, <2>2 DEF HitsOK, SendsOK, OneSender
  <2>. QED BY <2>1, <2>2
<1>. QED BY <1>1, <1>2, <1>3, <1>4

(* A filter that delays its answer is idle and has yet to give it.         *)
LEMMA WhenDelayed ==
  ASSUME IInv, NEW b \in Bank, waits[b] = "requestSent"
  PROVE  state[b] = "IDLE" /\ b \in Unanswered
<1>1. state[b] = "IDLE"
  BY DEF IInv, FiltersOK, EventsOK, EventOK, TypeOK
<1>. QED BY <1>1 DEF Unanswered, Owes

(* Steps that change neither the flit nor who takes it.                    *)
LEMMA SameOffer ==
  ASSUME IInv, UNCHANGED <<network, newRemoteRequest, bank, oRequest, flit, consumed>>,
         \A b \in Bank : state'[b] = "SEND" <=> state[b] = "SEND"
  PROVE  /\ PacketsOK' /\ FramesOK' /\ BanksOK' /\ OneClaim' /\ ArrivalSettled'
         /\ Offered' => Settled(flit.tag)'
         /\ \A b \in Bank, t \in Tag : Claims(b, t)' = Claims(b, t)
<1> USE DEF IInv, network, bank
<1>1. PacketsOK'
  BY DEF PacketsOK, Follows
<1>2. FramesOK'
  BY DEF FramesOK, FrameOK, Open, InPacket
<1>3. BanksOK'
  BY DEF BanksOK, BankOK, contains, Queued
<1>4. \A b \in Bank, t \in Tag : Claims(b, t)' = Claims(b, t)
  BY DEF Claims, contains, Asks
<1>5. OneClaim'
  BY <1>4 DEF OneClaim
<1>6. \A t : Settled(t)' = Settled(t)
  BY DEF Settled, SettledAt, Misses, contains
<1>7. ArrivalSettled' /\ (Offered' => Settled(flit.tag)')
  BY <1>6 DEF RequestsOK, ArrivalSettled, Offered
<1>. QED BY <1>1, <1>2, <1>3, <1>4, <1>5, <1>7

LEMMA DeltaCycleKeeps ==
  ASSUME IInv, DeltaCycle
  PROVE  IInv'
<1> USE Constants DEF IInv, FiltersOK
<1>1. /\ ready = {} /\ ready' = {p \in Process : waits[p] \in notified[p]}
      /\ notified' = [p \in Process |-> {}]
      /\ UNCHANGED <<network, newRemoteRequest, channel, state, oRequest, bank, waits>>
  BY DEF DeltaCycle
<1>2. TypeOK'
  BY <1>1 DEF TypeOK, network, channel, bank
<1>3. \A b \in Bank : Owes(b)' = Owes(b)
  BY <1>1 DEF Owes, EventsOK, EventOK
<1>4. Unanswered' = Unanswered
  BY <1>3 DEF Unanswered
<1>5. \A p \in Process : notified'[p] = {}
  BY <1>1
<1>6. FiltersOK'
  <2> USE DEF channel, network
  <2>1. AnswersOK'
    BY <1>1, <1>4 DEF AnswersOK
  <2>2. EventsOK'
    BY <1>1, <1>3, <1>5 DEF EventsOK, EventOK
  <2>3. LogicOK'
    <3>1. "canRead" \notin notified'[L2Logic] /\ "canWrite" \notin notified'[L2Logic]
      BY <1>5
    <3>2. L2Logic \in ready' => waits[L2Logic] \in notified[L2Logic]
      BY <1>1
    <3>3. canWrite => \A b \in Bank : state[b] # "WAIT"
      BY <1>1 DEF canWrite, WaitsOK, WaitOK
    <3>4. canWrite' = canWrite
      BY <1>1 DEF canWrite, allResponsesReceived
    <3>. QED BY <1>1, <3>1, <3>2, <3>3, <3>4 DEF LogicOK
  <2>4. ASSUME NEW b \in Bank, state[b] = "WAIT"
        PROVE  Unanswered = {} <=> b \in ready'
    BY <1>1, <2>4 DEF WaitsOK, WaitOK, EventsOK, EventOK
  <2>5. WaitsOK'
    BY <1>1, <1>4, <1>5, <2>4 DEF WaitsOK, WaitOK
  <2>6. ASSUME NEW b \in Bank, state[b] = "SEND"
        PROVE  SendOK(b)'
    <3>1. consumed => b \notin ready' /\ waits[b] = "newFlit"
      BY <1>1, <2>6 DEF SendsOK, SendOK, EventsOK, EventOK
    <3>2. ASSUME NEW c \in Bank, state[c] = "WAIT" PROVE c \in ready'
      <4>1. hit /\ ~flit.skip
        BY <2>6, <3>2 DEF SendsOK, SendOK, WaitsOK, WaitOK
      <4>2. Unanswered = {}
        BY <1>1, <4>1 DEF HitsOK
      <4>. QED BY <2>4, <3>2, <4>2
    <3>. QED BY <1>1, <1>4, <2>6, <3>1, <3>2 DEF SendsOK, SendOK
  <2>7. SendsOK'
    BY <1>1, <2>6 DEF SendsOK, OneSender, SendOK
  <2>. QED BY <2>1, <2>2, <2>3, <2>5, <2>7
<1>7. HitsOK'
  BY <1>1, <1>4 DEF HitsOK, channel
<1>8. /\ PacketsOK' /\ FramesOK' /\ BanksOK' /\ OneClaim' /\ ArrivalSettled'
      /\ Offered' => Settled(flit.tag)'
  BY <1>1, SameOffer DEF channel
<1>9. RequestsOK'
  BY <1>1, <1>4, <1>8 DEF RequestsOK, Undecided, Offered, Claims, Asks, contains, channel, bank
<1>. QED BY <1>2, <1>6, <1>7, <1>8, <1>9

LEMMA WaitForChannelKeeps ==
  ASSUME IInv, WaitForChannel
  PROVE  IInv'
<1> USE Constants DEF IInv, FiltersOK
<1>1. /\ L2Logic \in ready /\ ready' = ready \ {L2Logic}
      /\ waits' = [waits EXCEPT ![L2Logic] = "canWrite"]
      /\ ~canWrite
      /\ UNCHANGED <<network, newRemoteRequest, channel, state, oRequest, bank, notified>>
  BY DEF WaitForChannel, Runs
<1>2. /\ waits'[L2Logic] = "canWrite" /\ \A b \in Bank : waits'[b] = waits[b]
      /\ \A b \in Bank : b \in ready' <=> b \in ready
  BY <1>1 DEF TypeOK
<1>3. TypeOK'
  BY <1>1 DEF TypeOK, network, channel, bank, Event
<1>4. \A b \in Bank : Owes(b)' = Owes(b)
  BY <1>1, <1>2 DEF Owes
<1>5. Unanswered' = Unanswered
  BY <1>4 DEF Unanswered
<1>6. ready' \cap Bank = ready \cap Bank
  BY <1>2
<1>7. FiltersOK'
  <2> USE DEF channel, network
  <2>1. AnswersOK'
    BY <1>1, <1>5 DEF AnswersOK
  <2>2. EventsOK'
    BY <1>1, <1>2, <1>4, <1>5, <1>6 DEF EventsOK, EventOK
  <2>3. LogicOK'
    BY <1>1, <1>2 DEF LogicOK, canWrite, allResponsesReceived
  <2>4. WaitsOK'
    BY <1>1, <1>2, <1>5 DEF WaitsOK, WaitOK
  <2>5. SendsOK'
    BY <1>1, <1>2, <1>5 DEF SendsOK, SendOK, OneSender
  <2>. QED BY <2>1, <2>2, <2>3, <2>4, <2>5
<1>8. HitsOK'
  <2>1. \A b \in Unanswered : b \in ready => b \in ready'
    BY <1>2 DEF Unanswered
  <2>. QED BY <1>1, <1>2, <1>5, <2>1 DEF HitsOK, channel, contains, bank
<1>9. /\ PacketsOK' /\ FramesOK' /\ BanksOK' /\ OneClaim' /\ ArrivalSettled'
      /\ Offered' => Settled(flit.tag)'
  BY <1>1, SameOffer DEF channel
<1>10. RequestsOK'
  BY <1>1, <1>2, <1>5, <1>9
     DEF RequestsOK, Undecided, Offered, Claims, Asks, contains, channel, bank
<1>. QED BY <1>3, <1>7, <1>8, <1>9, <1>10

(* The bank is still flushing the line: it is asked again later.           *)
LEMMA DelayRequestKeeps ==
  ASSUME IInv, NEW b \in Bank, DelayRequest(b)
  PROVE  IInv'
<1> USE Constants DEF IInv, FiltersOK
<1>1. /\ state[b] = "IDLE" /\ b \in ready /\ ready' = ready \ {b}
      /\ waits' = [waits EXCEPT ![b] = "requestSent"]
      /\ flit.tag \in pendingFlushes[b]
      /\ UNCHANGED <<network, newRemoteRequest, channel, state, oRequest, bank, notified>>
  BY DEF DelayRequest, Runs, flushing
<1>2. /\ waits'[b] = "requestSent" /\ \A p \in Process \ {b} : waits'[p] = waits[p]
      /\ \A p \in Process \ {b} : p \in ready' <=> p \in ready
      /\ b \notin ready'
  BY <1>1 DEF TypeOK
<1>3. /\ b \in Unanswered /\ flit \in Flit /\ flit.tag \in Tag /\ flit.head
      /\ \A c \in Bank : {"newRequest", "newFlit"} \cap notified[c] = {}
      /\ \A c \in Bank : "allResponses" \notin notified[c]
  BY <1>1, WhenReady
<1>4. TypeOK'
  BY <1>1 DEF TypeOK, network, channel, bank, Event
<1>5. \A c \in Bank : Owes(c)' = Owes(c)
  BY <1>1, <1>2 DEF Owes
<1>6. Unanswered' = Unanswered
  BY <1>5 DEF Unanswered
<1>7. \A c \in Bank : Claims(b, flit.tag) /\ (Claims(c, flit.tag) => c = b)
  BY <1>1, <1>3 DEF Claims, OneClaim
<1>8. FiltersOK'
  <2> USE DEF channel, network
  <2>1. AnswersOK'
    BY <1>1, <1>6 DEF AnswersOK
  <2>2. EventsOK'
    BY <1>1, <1>2, <1>3, <1>5 DEF EventsOK, EventOK
  <2>3. LogicOK'
    BY <1>1, <1>2 DEF LogicOK, canWrite, allResponsesReceived
  <2>4. WaitsOK'
    BY <1>1, <1>2, <1>6 DEF WaitsOK, WaitOK
  <2>5. SendsOK'
    BY <1>1, <1>2, <1>6 DEF SendsOK, SendOK, OneSender
  <2>. QED BY <2>1, <2>2, <2>3, <2>4, <2>5
<1>9. HitsOK'
  <2>1. ASSUME hit, ~flit.skip PROVE FALSE
    <3>1. PICK c \in Bank : state[c] = "SEND" /\ contains(c, flit.tag)
      BY <1>3, <2>1 DEF HitsOK
    <3>. QED BY <1>1, <1>7, <3>1 DEF Claims
  <2>. QED BY <1>1, <1>6, <2>1 DEF HitsOK, channel
<1>10. /\ PacketsOK' /\ FramesOK' /\ BanksOK' /\ OneClaim' /\ ArrivalSettled'
       /\ Offered' => Settled(flit.tag)'
       /\ \A c \in Bank, t \in Tag : Claims(c, t)' = Claims(c, t)
  BY <1>1, SameOffer DEF channel
<1>11. RequestsOK'
  <2>1. ASSUME NEW c \in Bank, NEW d \in Bank, waits'[c] = "requestSent", ~flit'.skip, d # c
        PROVE  ~Claims(d, flit.tag)'
    <3>1. ~Claims(d, flit.tag)
      BY <1>1, <1>2, <1>7, <2>1 DEF RequestsOK, channel
    <3>. QED BY <1>1, <3>1 DEF Claims, Asks, contains, channel, bank
  <2>. QED BY <1>1, <1>6, <1>10, <2>1 DEF RequestsOK, Undecided, Offered, contains, channel, bank
<1>. QED BY <1>4, <1>8, <1>9, <1>10, <1>11

(* Bank b answers: one answer less is owed, and the last one wakes those   *)
(* that wait for all of them.                                              *)
LEMMA Answered ==
  ASSUME IInv, NEW b \in Bank, b \in ready, state[b] = "IDLE",
         NEW own \in SUBSET {"now"}, Respond(b, own),
         NEW e \in Event, Runs(b, e),
         NEW s \in {"IDLE", "WAIT", "SEND"}, state' = [state EXCEPT ![b] = s],
         s # "IDLE" \/ e = "newRequest",
         UNCHANGED <<consumed, fromNetwork>>
  PROVE  /\ ready' = ready \ {b} /\ state'[b] = s /\ waits'[b] = e
         /\ \A p \in Process \ {b} : waits'[p] = waits[p]
         /\ \A c \in Bank \ {b} : state'[c] = state[c]
         /\ Unanswered' = Unanswered \ {b}
         /\ \A c \in Bank \ {b} : Owes(c)' = Owes(c)
         /\ numResponses' + Cardinality(Unanswered') = NumBanks
         /\ numResponses' \in 0 .. NumBanks
         /\ notified' \in [Process -> SUBSET Event]
         /\ \A c \in Bank : {"newRequest", "newFlit"} \cap notified'[c] = {}
         /\ \A c \in Bank : "allResponses" \in notified'[c] <=> Unanswered' = {}
         /\ LogicOK'
<1> USE Constants DEF IInv, FiltersOK
<1>1. /\ ready' = ready \ {b} /\ waits' = [waits EXCEPT ![b] = e]
      /\ numResponses' = numResponses + 1
      /\ notified' = [p \in Process |-> notified[p] \cup addResponse(p)
                                           \cup (IF p = b THEN own ELSE {})]
  BY DEF Runs, Respond
<1>2. /\ state'[b] = s /\ waits'[b] = e
      /\ \A p \in Process \ {b} : waits'[p] = waits[p]
      /\ \A c \in Bank \ {b} : state'[c] = state[c]
  BY <1>1 DEF TypeOK
<1>3. /\ b \in Unanswered /\ ~canWrite
      /\ \A c \in Bank : {"newRequest", "newFlit"} \cap notified[c] = {}
      /\ \A c \in Bank : "allResponses" \notin notified[c]
  BY WhenReady
<1>4. \A p \in Process : addResponse(p) \in SUBSET {"canWrite", "allResponses"}
  BY DEF addResponse
<1>5. notified' \in [Process -> SUBSET Event]
  BY <1>1, <1>4 DEF TypeOK, Event
<1>6. \A c \in Bank : {"newRequest", "newFlit"} \cap notified'[c] = {}
  BY <1>1, <1>3, <1>4
<1>7. /\ \A c \in Bank \ {b} : Owes(c)' = Owes(c)
      /\ ~Owes(b)'
  <2>1. ASSUME NEW c \in Bank \ {b} PROVE Owes(c)' = Owes(c)
    <3>1. \A x \in {"newRequest", "newFlit"} : x \notin notified[c] /\ x \notin notified'[c]
      BY <1>3, <1>6
    <3>. QED BY <1>1, <1>2, <3>1 DEF Owes
  <2>2. ~Owes(b)'
    BY <1>1, <1>2, <1>6 DEF Owes
  <2>. QED BY <2>1, <2>2
<1>8. Unanswered' = Unanswered \ {b}
  BY <1>7 DEF Unanswered
<1>9. /\ numResponses' + Cardinality(Unanswered') = NumBanks
      /\ numResponses' \in 0 .. NumBanks /\ (numResponses' = NumBanks <=> Unanswered' = {})
  <2>1. IsFiniteSet(Unanswered) /\ Cardinality(Unanswered) \in Nat
    BY AnswersCounted DEF Unanswered
  <2>2. Cardinality(Unanswered') = Cardinality(Unanswered) - 1
    BY <1>3, <1>8, <2>1, FS_RemoveElement
  <2>3. Unanswered' \in SUBSET Bank
    BY <1>8 DEF Unanswered
  <2>4. Cardinality(Unanswered') \in 0 .. NumBanks /\ (Cardinality(Unanswered') = 0 <=> Unanswered' = {})
    BY <2>3, AnswersCounted
  <2>. QED BY <1>1, <2>1, <2>2, <2>4 DEF AnswersOK, TypeOK
<1>10. \A c \in Bank : "allResponses" \in notified'[c] <=> Unanswered' = {}
  <2>1. ASSUME NEW c \in Bank
        PROVE  addResponse(c) = IF numResponses' = NumBanks THEN {"allResponses"} ELSE {}
    BY <1>1, <1>9, <2>1 DEF addResponse, TypeOK
  <2>. QED BY <1>1, <1>3, <1>9, <2>1
<1>11. LogicOK'
  <2>1. notified'[L2Logic] = notified[L2Logic] \cup addResponse(L2Logic)
    BY <1>1
  <2>2. addResponse(L2Logic) = IF consumed /\ numResponses' = NumBanks THEN {"canWrite"} ELSE {}
    BY <1>1, <1>9 DEF addResponse, TypeOK
  <2>3. ~("canWrite" \in notified[L2Logic] /\ (L2Logic \in ready \/ waits[L2Logic] = "canWrite"))
    BY <1>3 DEF LogicOK
  <2>4. ~(L2Logic \in ready /\ waits[L2Logic] = "canWrite")
    BY <1>3 DEF LogicOK
  <2>5. waits'[L2Logic] = waits[L2Logic] /\ (L2Logic \in ready' <=> L2Logic \in ready)
    BY <1>1, <1>2
  <2>6. "canRead" \in notified'[L2Logic] <=> "canRead" \in notified[L2Logic]
    BY <2>1, <2>2
  <2>7. "canWrite" \in notified'[L2Logic] /\ (L2Logic \in ready' \/ waits'[L2Logic] = "canWrite") => canWrite'
    BY <2>1, <2>2, <2>3, <2>5 DEF canWrite, allResponsesReceived
  <2>. QED BY <2>4, <2>5, <2>6, <2>7 DEF LogicOK
<1>. QED BY <1>1, <1>2, <1>5, <1>6, <1>7, <1>8, <1>9, <1>10, <1>11

LEMMA AnswerMissKeeps ==
  ASSUME IInv, NEW b \in Bank, AnswerMiss(b)
  PROVE  IInv'
<1> USE Constants DEF IInv, FiltersOK
<1> DEFINE e == IF target = b THEN "allResponses" ELSE "newRequest"
           s == IF target = b THEN "WAIT" ELSE "IDLE"
<1>1. /\ state[b] = "IDLE" /\ b \in ready /\ Runs(b, e)
      /\ state' = [state EXCEPT ![b] = s]
      /\ Respond(b, {})
      /\ UNCHANGED <<network, newRemoteRequest, flit, target, hit, consumed, oRequest, bank>>
  BY DEF AnswerMiss, Runs
<1>2. flit.tag \notin pendingFlushes[b] /\ ~serveRequest(b)
  BY DEF AnswerMiss, flushing
<1>3. e \in Event /\ s \in {"IDLE", "WAIT", "SEND"} /\ (s # "IDLE" \/ e = "newRequest")
  BY DEF Event
<1>4. /\ ready' = ready \ {b} /\ state'[b] = s /\ waits'[b] = e
      /\ \A p \in Process \ {b} : waits'[p] = waits[p]
      /\ \A c \in Bank \ {b} : state'[c] = state[c]
      /\ Unanswered' = Unanswered \ {b}
      /\ \A c \in Bank \ {b} : Owes(c)' = Owes(c)
      /\ numResponses' + Cardinality(Unanswered') = NumBanks
      /\ numResponses' \in 0 .. NumBanks
      /\ notified' \in [Process -> SUBSET Event]
      /\ \A c \in Bank : {"newRequest", "newFlit"} \cap notified'[c] = {}
      /\ \A c \in Bank : "allResponses" \in notified'[c] <=> Unanswered' = {}
      /\ LogicOK'
  <2>1. UNCHANGED <<consumed, fromNetwork>> /\ {} \in SUBSET {"now"}
    BY <1>1 DEF network
  <2> HIDE DEF e, s
  <2>. QED BY <1>1, <1>3, <2>1, Answered
<1>5. /\ b \in Unanswered /\ flit \in Flit /\ flit.tag \in Tag /\ flit.head
      /\ ~flit.skip => ~consumed
  BY <1>1, WhenReady
<1>6. target = b => ~flit.skip
  BY <1>2 DEF serveRequest
<1>7. ~flit.skip => ~contains(b, flit.tag)
  BY <1>2 DEF serveRequest
<1>8. TypeOK'
  <2>1. waits' \in [Process -> Event] /\ state' \in [Bank -> {"IDLE", "WAIT", "SEND"}]
    BY <1>1, <1>3 DEF TypeOK, Runs
  <2>. QED BY <1>1, <1>4, <2>1 DEF TypeOK, network, bank
<1>9. AnswersOK'
  BY <1>1, <1>4 DEF AnswersOK
<1>10. EventsOK'
  <2>1. EventOK(b)'
    BY <1>4 DEF EventOK
  <2>2. ASSUME NEW c \in Bank \ {b} PROVE EventOK(c)'
    BY <1>1, <1>4 DEF EventsOK, EventOK
  <2>. QED BY <2>1, <2>2 DEF EventsOK
<1>11. WaitsOK'
  <2>1. WaitOK(b)'
    BY <1>1, <1>4, <1>5, <1>6 DEF WaitOK
  <2>2. ASSUME NEW c \in Bank \ {b} PROVE WaitOK(c)'
    BY <1>1, <1>4, <1>5 DEF WaitsOK, WaitOK
  <2>. QED BY <2>1, <2>2 DEF WaitsOK
<1>12. SendsOK'
  <2>1. OneSender'
    BY <1>4 DEF SendsOK, OneSender
  <2>2. ASSUME NEW c \in Bank, state'[c] = "SEND" PROVE SendOK(c)'
    <3>1. c # b /\ state[c] = "SEND" /\ hit
      BY <1>4, <1>5, <2>2 DEF SendsOK, SendOK
    <3>2. ASSUME target = b PROVE waits[c] = "now" /\ c \notin ready
      BY <1>5, <1>6, <3>1, <3>2 DEF HitsOK, SendsOK, OneSender
    <3>3. ASSUME NEW d \in Bank, state'[d] = "WAIT"
          PROVE  d \in ready' \/ (waits'[c] = "now" /\ c \notin ready')
      BY <1>4, <3>1, <3>2, <3>3 DEF SendsOK, SendOK
    <3>. QED BY <1>1, <1>4, <3>1, <3>3 DEF SendsOK, SendOK
  <2>. QED BY <2>1, <2>2 DEF SendsOK, SendOK
<1>13. HitsOK'
  <2>1. ASSUME hit, Unanswered' # {}, flit.skip PROVE target \notin Unanswered'
    BY <1>4, <2>1 DEF HitsOK
  <2>2. ASSUME hit, Unanswered' # {}, ~flit.skip
        PROVE  /\ Unanswered' \subseteq ready'
               /\ \E c \in Bank : /\ state'[c] = "SEND" /\ contains(c, flit.tag)'
                                  /\ waits'[c] = "now" /\ c \notin ready'
    <3>1. PICK c \in Bank : /\ state[c] = "SEND" /\ contains(c, flit.tag)
                            /\ waits[c] = "now" /\ c \notin ready
      BY <1>5, <2>2 DEF HitsOK
    <3>2. contains(c, flit.tag)'
      BY <1>1, <3>1 DEF contains, bank
    <3>3. Unanswered' \subseteq ready'
      BY <1>4, <1>5, <2>2 DEF HitsOK
    <3>. QED BY <1>1, <1>4, <3>1, <3>2, <3>3
  <2>. QED BY <1>1, <2>1, <2>2 DEF HitsOK
<1>14. /\ PacketsOK' /\ FramesOK' /\ BanksOK' /\ OneClaim' /\ ArrivalSettled'
       /\ Offered' => Settled(flit.tag)'
       /\ \A c \in Bank, t \in Tag : Claims(c, t)' = Claims(c, t)
  BY <1>1, <1>4, SameOffer
<1>15. RequestsOK'
  <2>1. ASSUME Undecided', NEW c \in Bank \ Unanswered'
        PROVE  ~contains(c, flit.tag)' /\ flit'.tag \notin pendingFlushes'[c]
    <3>1. Undecided /\ ~flit.skip
      BY <1>1, <1>4, <2>1 DEF Undecided, Offered
    <3>2. ~contains(c, flit.tag) /\ flit.tag \notin pendingFlushes[c]
      BY <1>2, <1>4, <1>7, <2>1, <3>1 DEF RequestsOK
    <3>. QED BY <1>1, <3>2 DEF contains, bank
  <2>2. ASSUME NEW c \in Bank, NEW d \in Bank, waits'[c] = "requestSent", ~flit'.skip, d # c
        PROVE  ~Claims(d, flit.tag)'
    <3>1. c # b
      BY <1>4, <2>2
    <3>2. ~Claims(d, flit.tag)
      BY <1>1, <1>4, <2>2, <3>1 DEF RequestsOK
    <3>3. state'[d] = "SEND" <=> state[d] = "SEND"
      BY <1>1, <1>4
    <3>. QED BY <1>1, <3>2, <3>3 DEF Claims, Asks, contains, bank
  <2>. QED BY <1>14, <2>1, <2>2 DEF RequestsOK
<1>. QED BY <1>8, <1>9, <1>10, <1>4, <1>11, <1>12, <1>13, <1>14, <1>15

LEMMA AnswerHitKeeps ==
  ASSUME IInv, NEW b \in Bank, AnswerHit(b)
  PROVE  IInv'
<1> USE Constants DEF IInv, FiltersOK
<1>1. /\ state[b] = "IDLE" /\ b \in ready /\ Runs(b, "now")
      /\ state' = [state EXCEPT ![b] = "SEND"]
      /\ Respond(b, {"now"}) /\ ~hit /\ hit' = TRUE
      /\ UNCHANGED <<network, newRemoteRequest, flit, target, consumed, oRequest, bank>>
  BY DEF AnswerHit, Runs
<1>2. IF flit.skip THEN target = b ELSE contains(b, flit.tag)
  BY DEF AnswerHit, serveRequest
<1>3. /\ ready' = ready \ {b} /\ state'[b] = "SEND" /\ waits'[b] = "now"
      /\ \A p \in Process \ {b} : waits'[p] = waits[p]
      /\ \A c \in Bank \ {b} : state'[c] = state[c]
      /\ Unanswered' = Unanswered \ {b}
      /\ \A c \in Bank \ {b} : Owes(c)' = Owes(c)
      /\ numResponses' + Cardinality(Unanswered') = NumBanks
      /\ numResponses' \in 0 .. NumBanks
      /\ notified' \in [Process -> SUBSET Event]
      /\ \A c \in Bank : {"newRequest", "newFlit"} \cap notified'[c] = {}
      /\ \A c \in Bank : "allResponses" \in notified'[c] <=> Unanswered' = {}
      /\ LogicOK'
  BY <1>1, Answered DEF network, Event
<1>4. /\ b \in Unanswered /\ flit \in Flit /\ flit # None /\ flit.tag \in Tag /\ flit.head
      /\ ~consumed
      /\ \A c \in Bank : {"newRequest", "newFlit"} \cap notified[c] = {}
  BY <1>1, WhenReady
<1>5. \A c \in Bank : state[c] # "SEND"
  BY <1>1, <1>4 DEF SendsOK, SendOK
<1>6. TypeOK'
  <2>1. waits' \in [Process -> Event] /\ state' \in [Bank -> {"IDLE", "WAIT", "SEND"}]
    BY <1>1 DEF TypeOK, Runs, Event
  <2>. QED BY <1>1, <1>3, <2>1 DEF TypeOK, network, bank
<1>7. AnswersOK'
  BY <1>1, <1>3 DEF AnswersOK
<1>8. EventsOK'
  <2>1. EventOK(b)'
    BY <1>3 DEF EventOK
  <2>2. ASSUME NEW c \in Bank \ {b} PROVE EventOK(c)'
    BY <1>1, <1>3 DEF EventsOK, EventOK
  <2>. QED BY <2>1, <2>2 DEF EventsOK
<1>9. WaitsOK'
  <2>1. WaitOK(b)'
    BY <1>3 DEF WaitOK
  <2>2. ASSUME NEW c \in Bank \ {b} PROVE WaitOK(c)'
    BY <1>1, <1>3, <1>4 DEF WaitsOK, WaitOK
  <2>. QED BY <2>1, <2>2 DEF WaitsOK
<1>10. SendsOK'
  <2>1. \A c \in Bank : state'[c] = "SEND" => c = b
    BY <1>3, <1>5
  <2>2. SendOK(b)'
    BY <1>1, <1>3, <1>4 DEF SendOK
  <2>3. ASSUME NEW c \in Bank PROVE SendOK(c)'
    BY <2>1, <2>2 DEF SendOK
  <2>. QED BY <2>1, <2>3 DEF SendsOK, OneSender
<1>11. HitsOK'
  <2>1. ASSUME flit.skip PROVE target \notin Unanswered'
    BY <1>2, <1>3, <2>1
  <2>2. ASSUME ~flit.skip, NEW c \in Unanswered' PROVE c \in ready'
    <3>1. c \in Bank \ {b} /\ Owes(c)
      BY <1>3 DEF Unanswered
    <3>2. c \in ready \/ waits[c] = "requestSent"
      BY <1>4, <3>1 DEF Owes
    <3>3. waits[c] # "requestSent"
      BY <1>2, <1>4, <2>2, <3>1 DEF RequestsOK, Claims
    <3>. QED BY <1>3, <3>1, <3>2, <3>3
  <2>3. ~flit.skip => contains(b, flit.tag)'
    BY <1>1, <1>2 DEF contains, bank
  <2>. QED BY <1>1, <1>3, <2>1, <2>2, <2>3 DEF HitsOK
<1>12. PacketsOK' /\ BanksOK'
  BY <1>1 DEF PacketsOK, Follows, BanksOK, BankOK, contains, Queued, network, bank
<1>13. FramesOK'
  <2>1. ASSUME NEW c \in Bank \ {b} PROVE FrameOK(c)'
    BY <1>1, <1>3 DEF FramesOK, FrameOK, Open, InPacket, bank
  <2>2. FrameOK(b)'
    BY <1>1, <1>3, <1>4 DEF FramesOK, FrameOK, Open, InPacket, bank
  <2>. QED BY <2>1, <2>2 DEF FramesOK
<1>14. \A c \in Bank, t \in Tag : Claims(c, t)' => Claims(c, t)
  <2>1. ASSUME NEW c \in Bank \ {b}, NEW t \in Tag PROVE Claims(c, t)' => Claims(c, t)
    BY <1>1, <1>3 DEF Claims, contains, Asks, bank
  <2>2. ASSUME NEW t \in Tag PROVE Claims(b, t)' => Claims(b, t)
    BY <1>1, <1>2 DEF Claims, contains, Asks, bank
  <2>. QED BY <2>1, <2>2
<1>15. OneClaim'
  BY <1>14 DEF OneClaim
<1>16. RequestsOK'
  <2>1. ~Undecided'
    BY <1>1 DEF Undecided
  <2>2. \A t : Settled(t)' = Settled(t)
    BY <1>1 DEF Settled, SettledAt, Misses, contains, bank
  <2>3. ArrivalSettled' /\ (Offered' => Settled(flit.tag)')
    BY <1>1, <2>2 DEF RequestsOK, ArrivalSettled, Offered, network
  <2>4. ASSUME NEW c \in Bank, NEW d \in Bank, waits'[c] = "requestSent", ~flit'.skip, d # c
        PROVE  ~Claims(d, flit.tag)'
    <3>1. c # b
      BY <1>3, <2>4
    <3>2. ~Claims(d, flit.tag)
      BY <1>1, <1>3, <2>4, <3>1 DEF RequestsOK
    <3>3. PICK t \in Tag : t = flit.tag /\ t = flit'.tag
      BY <1>1, <1>4
    <3>4. ~Claims(d, t)'
      BY <1>14, <3>2, <3>3
    <3>. QED BY <3>3, <3>4
  <2>. QED BY <2>1, <2>3, <2>4 DEF RequestsOK
<1>. QED BY <1>3, <1>6, <1>7, <1>8, <1>9, <1>10, <1>11, <1>12, <1>13, <1>15, <1>16

(* The target bank learns that another one takes the request.              *)
LEMMA SomeoneHitKeeps ==
  ASSUME IInv, NEW b \in Bank, SomeoneHit(b)
  PROVE  IInv'
<1> USE Constants DEF IInv, FiltersOK
<1>1. /\ state[b] = "WAIT" /\ b \in ready /\ ready' = ready \ {b} /\ hit
      /\ waits' = [waits EXCEPT ![b] = "newRequest"]
      /\ state' = [state EXCEPT ![b] = "IDLE"]
      /\ UNCHANGED <<network, newRemoteRequest, channel, oRequest, bank, notified>>
  BY DEF SomeoneHit, Runs
<1>2. /\ waits'[b] = "newRequest" /\ \A p \in Process \ {b} : waits'[p] = waits[p]
      /\ state'[b] = "IDLE" /\ \A c \in Bank \ {b} : state'[c] = state[c]
      /\ b \notin ready'
  BY <1>1 DEF TypeOK
<1>3. /\ Unanswered = {} /\ \A c \in Bank : {"newRequest", "newFlit"} \cap notified[c] = {}
  BY <1>1, WhenReady
<1>4. TypeOK'
  BY <1>1 DEF TypeOK, network, channel, bank, Event
<1>5. Unanswered' = {}
  <2>1. ~Owes(b)'
    BY <1>1, <1>2, <1>3 DEF Owes
  <2>2. ASSUME NEW c \in Bank \ {b} PROVE ~Owes(c)'
    BY <1>1, <1>2, <1>3 DEF Owes, Unanswered
  <2>. QED BY <2>1, <2>2 DEF Unanswered
<1>6. \A c \in Bank : state'[c] # "WAIT"
  BY <1>1, <1>2 DEF WaitsOK, WaitOK
<1>7. FiltersOK'
  <2> USE DEF channel, network
  <2>1. AnswersOK'
    BY <1>1, <1>3, <1>5 DEF AnswersOK
  <2>2. EventsOK'
    <3>1. EventOK(b)'
      BY <1>1, <1>2, <1>3, <1>5 DEF EventOK
    <3>2. ASSUME NEW c \in Bank \ {b} PROVE EventOK(c)'
      <4>1. ~Owes(c)
        BY <1>3 DEF Unanswered
      <4>. QED BY <1>1, <1>2, <1>3, <1>5, <4>1 DEF EventsOK, EventOK
    <3>. QED BY <3>1, <3>2 DEF EventsOK
  <2>3. LogicOK'
    BY <1>1, <1>2, <1>6 DEF LogicOK, canWrite, allResponsesReceived
  <2>4. WaitsOK'
    BY <1>6 DEF WaitsOK, WaitOK
  <2>5. SendsOK'
    BY <1>1, <1>2, <1>6 DEF SendsOK, SendOK, OneSender
  <2>. QED BY <2>1, <2>2, <2>3, <2>4, <2>5
<1>8. HitsOK'
  BY <1>5 DEF HitsOK
<1>9. /\ PacketsOK' /\ FramesOK' /\ BanksOK' /\ OneClaim' /\ ArrivalSettled'
      /\ Offered' => Settled(flit.tag)'
  <2>1. \A c \in Bank : state'[c] = "SEND" <=> state[c] = "SEND"
    BY <1>1, <1>2
  <2>. QED BY <1>1, <2>1, SameOffer DEF channel
<1>10. RequestsOK'
  <2>1. ~Undecided'
    BY <1>1 DEF Undecided, channel
  <2>2. \A c \in Bank : waits'[c] # "requestSent"
    BY <1>2, <1>3, WhenDelayed
  <2>. QED BY <1>9, <2>1, <2>2 DEF RequestsOK
<1>. QED BY <1>4, <1>7, <1>8, <1>9, <1>10

(* Every bank has missed, and the target bank takes the request: no bank   *)
(* has a claim to its line.                                                *)
LEMMA ClaimAsTargetKeeps ==
  ASSUME IInv, NEW b \in Bank, ClaimAsTarget(b)
  PROVE  IInv'
<1> USE Constants DEF IInv, FiltersOK
<1>1. /\ state[b] = "WAIT" /\ b \in ready /\ ready' = ready \ {b} /\ ~hit
      /\ waits' = [waits EXCEPT ![b] = "now"]
      /\ state' = [state EXCEPT ![b] = "SEND"]
      /\ Notify(b, {"now"}, {})
      /\ UNCHANGED <<network, newRemoteRequest, channel, oRequest, bank>>
  BY DEF ClaimAsTarget, Runs, EveryoneMissed
<1>2. /\ waits'[b] = "now" /\ \A p \in Process \ {b} : waits'[p] = waits[p]
      /\ state'[b] = "SEND" /\ \A c \in Bank \ {b} : state'[c] = state[c]
      /\ \A p \in Process \ {b} : notified'[p] = notified[p]
      /\ notified'[b] = notified[b] \cup {"now"}
      /\ b \notin ready'
  BY <1>1 DEF TypeOK, Notify
<1>3. /\ Unanswered = {} /\ \A c \in Bank : {"newRequest", "newFlit"} \cap notified[c] = {}
      /\ flit \in Flit /\ flit # None /\ flit.tag \in Tag /\ ~flit.skip
  BY <1>1, WhenReady DEF PacketsOK
<1>4. b = target /\ flit.head /\ ~consumed /\ \A c \in Bank : state[c] # "SEND"
  BY <1>1 DEF WaitsOK, WaitOK, SendsOK, SendOK
<1>5. TypeOK'
  <2>1. notified' \in [Process -> SUBSET Event]
    BY <1>1 DEF Notify, TypeOK, Event
  <2>. QED BY <1>1, <2>1 DEF TypeOK, network, channel, bank, Event
<1>6. Unanswered' = {}
  <2>1. ~Owes(b)'
    BY <1>2 DEF Owes
  <2>2. ASSUME NEW c \in Bank \ {b} PROVE ~Owes(c)'
    BY <1>1, <1>2, <1>3 DEF Owes, Unanswered
  <2>. QED BY <2>1, <2>2 DEF Unanswered
<1>7. \A c \in Bank : state'[c] # "WAIT"
  BY <1>1, <1>2 DEF WaitsOK, WaitOK
<1>8. FiltersOK'
  <2> USE DEF channel, network
  <2>1. AnswersOK'
    BY <1>1, <1>3, <1>6 DEF AnswersOK
  <2>2. EventsOK'
    <3>1. EventOK(b)'
      BY <1>1, <1>2, <1>3, <1>6 DEF EventOK
    <3>2. ASSUME NEW c \in Bank \ {b} PROVE EventOK(c)'
      <4>1. ~Owes(c)
        BY <1>3 DEF Unanswered
      <4>. QED BY <1>1, <1>2, <1>3, <1>6, <4>1 DEF EventsOK, EventOK
    <3>. QED BY <3>1, <3>2 DEF EventsOK
  <2>3. LogicOK'
    BY <1>1, <1>2, <1>7 DEF LogicOK, canWrite, allResponsesReceived
  <2>4. WaitsOK'
    BY <1>7 DEF WaitsOK, WaitOK
  <2>5. SendsOK'
    <3>1. \A c \in Bank : state'[c] = "SEND" => c = b
      BY <1>2, <1>4
    <3>2. SendOK(b)'
      BY <1>1, <1>3, <1>4, <1>6, <1>7 DEF SendOK
    <3>3. ASSUME NEW c \in Bank PROVE SendOK(c)'
      BY <3>1, <3>2 DEF SendOK
    <3>. QED BY <3>1, <3>3 DEF SendsOK, OneSender
  <2>. QED BY <2>1, <2>2, <2>3, <2>4, <2>5
<1>9. HitsOK'
  BY <1>6 DEF HitsOK
<1>10. PacketsOK' /\ BanksOK'
  BY <1>1 DEF PacketsOK, Follows, BanksOK, BankOK, contains, Queued, network, bank, channel
<1>11. FramesOK'
  <2>1. ASSUME NEW c \in Bank \ {b} PROVE FrameOK(c)'
    BY <1>1, <1>2 DEF FramesOK, FrameOK, Open, InPacket, bank, channel
  <2>2. FrameOK(b)'
    BY <1>1, <1>2, <1>4 DEF FramesOK, FrameOK, Open, InPacket, bank, channel
  <2>. QED BY <2>1, <2>2 DEF FramesOK
<1>12. ASSUME NEW c \in Bank PROVE ~Claims(c, flit.tag)
  <2>1. Undecided /\ Offered
    BY <1>1, <1>3, <1>4 DEF Undecided, Offered
  <2>2. ~contains(c, flit.tag) /\ flit.tag \notin pendingFlushes[c]
    BY <1>3, <2>1 DEF RequestsOK
  <2>3. SettledAt(c, flit.tag)
    BY <2>1 DEF RequestsOK, Settled
  <2>4. ~Asks(oRequest[c], flit.tag) /\ ~Asks(serving[c], flit.tag)
    BY <2>2, <2>3 DEF SettledAt, Asks, Misses
  <2>. QED BY <1>4, <2>2, <2>4 DEF Claims
<1>13. OneClaim'
  <2>1. ASSUME NEW c \in Bank, NEW t \in Tag, Claims(c, t)'
        PROVE  Claims(c, t) \/ (c = b /\ t = flit.tag)
    BY <1>1, <1>2, <2>1 DEF Claims, contains, Asks, bank, channel
  <2>. QED BY <1>12, <2>1 DEF OneClaim
<1>14. RequestsOK'
  <2>1. ~Undecided'
    BY <1>2 DEF Undecided
  <2>2. \A c \in Bank : waits'[c] # "requestSent"
    BY <1>2, <1>3, WhenDelayed
  <2>3. \A t : Settled(t)' = Settled(t)
    BY <1>1 DEF Settled, SettledAt, Misses, contains, bank
  <2>4. ArrivalSettled' /\ (Offered' => Settled(flit.tag)')
    BY <1>1, <2>3 DEF RequestsOK, ArrivalSettled, Offered, network, channel
  <2>. QED BY <2>1, <2>2, <2>4 DEF RequestsOK
<1>. QED BY <1>5, <1>8, <1>9, <1>10, <1>11, <1>13, <1>14

(* The bank has yet to take the last flit.                                 *)
LEMMA WaitForBankKeeps ==
  ASSUME IInv, NEW b \in Bank, WaitForBank(b)
  PROVE  IInv'
<1> USE Constants DEF IInv, FiltersOK
<1>1. /\ state[b] = "SEND" /\ b \in ready /\ ready' = ready \ {b}
      /\ waits' = [waits EXCEPT ![b] = "ack"]
      /\ UNCHANGED <<network, newRemoteRequest, channel, state, oRequest, bank, notified>>
  BY DEF WaitForBank, Runs
<1>2. /\ waits'[b] = "ack" /\ \A p \in Process \ {b} : waits'[p] = waits[p]
      /\ b \notin ready'
  BY <1>1 DEF TypeOK
<1>3. /\ \A c \in Bank : {"newRequest", "newFlit"} \cap notified[c] = {}
      /\ ~consumed /\ (~flit.skip => Unanswered = {})
  BY <1>1, WhenReady
<1>4. TypeOK'
  BY <1>1 DEF TypeOK, network, channel, bank, Event
<1>5. \A c \in Bank : Owes(c)' = Owes(c)
  BY <1>1, <1>2 DEF Owes
<1>6. Unanswered' = Unanswered
  BY <1>5 DEF Unanswered
<1>7. FiltersOK'
  <2> USE DEF channel, network
  <2>1. AnswersOK'
    BY <1>1, <1>6 DEF AnswersOK
  <2>2. EventsOK'
    <3>1. EventOK(b)'
      BY <1>1, <1>2, <1>3, <1>6 DEF EventsOK, EventOK
    <3>2. ASSUME NEW c \in Bank \ {b} PROVE EventOK(c)'
      BY <1>1, <1>2, <1>3, <1>5, <1>6 DEF EventsOK, EventOK
    <3>. QED BY <3>1, <3>2 DEF EventsOK
  <2>3. LogicOK'
    BY <1>1, <1>2 DEF LogicOK, canWrite, allResponsesReceived
  <2>4. WaitsOK'
    BY <1>1, <1>2, <1>6 DEF WaitsOK, WaitOK
  <2>5. SendsOK'
    <3>1. \A c \in Bank : state[c] = "SEND" => c = b
      BY <1>1 DEF SendsOK, OneSender
    <3>2. SendOK(b)'
      BY <1>1, <1>2, <1>3, <1>6 DEF SendsOK, SendOK
    <3>3. ASSUME NEW c \in Bank PROVE SendOK(c)'
      BY <1>1, <3>1, <3>2 DEF SendOK
    <3>. QED BY <1>1, <3>1, <3>3 DEF SendsOK, OneSender
  <2>. QED BY <2>1, <2>2, <2>3, <2>4, <2>5
<1>8. HitsOK'
  BY <1>1, <1>3, <1>6 DEF HitsOK, channel
<1>9. /\ PacketsOK' /\ FramesOK' /\ BanksOK' /\ OneClaim' /\ ArrivalSettled'
      /\ Offered' => Settled(flit.tag)'
      /\ \A c \in Bank, t \in Tag : Claims(c, t)' = Claims(c, t)
  BY <1>1, SameOffer DEF channel
<1>10. RequestsOK'
  <2>1. ASSUME NEW c \in Bank, NEW d \in Bank, waits'[c] = "requestSent", ~flit'.skip, d # c
        PROVE  ~Claims(d, flit.tag)'
    <3>1. ~Claims(d, flit.tag)
      BY <1>1, <1>2, <2>1 DEF RequestsOK, channel
    <3>. QED BY <1>1, <3>1 DEF Claims, Asks, contains, channel, bank
  <2>. QED BY <1>1, <1>6, <1>9, <2>1 DEF RequestsOK, Undecided, Offered, contains, channel, bank
<1>. QED BY <1>4, <1>7, <1>8, <1>9, <1>10

(* The filter reads the flit and gives it to its bank.                     *)
LEMMA SendFlitKeeps ==
  ASSUME IInv, NEW b \in Bank, SendFlit(b)
  PROVE  IInv'
<1> USE Constants DEF IInv, FiltersOK
<1>1. /\ state[b] = "SEND" /\ b \in ready /\ ready' = ready \ {b}
      /\ waits' = [waits EXCEPT ![b] = "newFlit"]
      /\ oRequest[b] = None /\ ~consumed /\ consumed' = TRUE
      /\ oRequest' = [oRequest EXCEPT ![b] = flit]
      /\ state' = [state EXCEPT ![b] = IF flit.left = 0 THEN "IDLE" ELSE @]
      /\ Notify(L2Logic, ReadEvents, {})
      /\ UNCHANGED <<network, newRemoteRequest, flit, target, numResponses, hit, bank>>
  BY DEF SendFlit, Runs
<1>2. /\ waits'[b] = "newFlit" /\ \A p \in Process \ {b} : waits'[p] = waits[p]
      /\ \A c \in Bank \ {b} : state'[c] = state[c] /\ oRequest'[c] = oRequest[c]
      /\ state'[b] = (IF flit.left = 0 THEN "IDLE" ELSE "SEND") /\ oRequest'[b] = flit
      /\ \A c \in Bank : notified'[c] = notified[c]
      /\ notified'[L2Logic] = notified[L2Logic] \cup ReadEvents
      /\ b \notin ready'
  BY <1>1 DEF TypeOK, Notify
<1>3. /\ \A c \in Bank : {"newRequest", "newFlit"} \cap notified[c] = {}
      /\ flit \in Flit /\ flit # None /\ flit.tag \in Tag /\ (~flit.skip => Unanswered = {})
  BY <1>1, WhenReady DEF PacketsOK
<1>4. /\ hit \/ (b = target /\ Unanswered = {})
      /\ \A c \in Bank : state[c] = "SEND" => c = b
      /\ \A c \in Bank : state[c] = "WAIT" => c \in ready
  BY <1>1 DEF SendsOK, SendOK, OneSender
<1>5. TypeOK'
  <2>1. ReadEvents \subseteq Event
    BY DEF ReadEvents, Event
  <2>2. notified' \in [Process -> SUBSET Event]
    BY <1>1, <2>1 DEF Notify, TypeOK
  <2>3. state' \in [Bank -> {"IDLE", "WAIT", "SEND"}] /\ oRequest' \in [Bank -> Flit \cup {None}]
    BY <1>1, <1>3 DEF TypeOK
  <2>4. waits' \in [Process -> Event]
    BY <1>1 DEF TypeOK, Event
  <2>. QED BY <1>1, <2>2, <2>3, <2>4 DEF TypeOK, network, bank
<1>6. /\ ~Owes(b)' /\ ~Owes(b)
      /\ \A c \in Bank \ {b} : Owes(c)' = Owes(c)
  BY <1>1, <1>2, <1>3 DEF Owes
<1>7. Unanswered' = Unanswered
  BY <1>6 DEF Unanswered
<1>8. FiltersOK'
  <2> USE DEF network
  <2>1. AnswersOK'
    BY <1>1, <1>3, <1>4, <1>7 DEF AnswersOK
  <2>2. EventsOK'
    <3>1. EventOK(b)'
      BY <1>1, <1>2, <1>3, <1>7 DEF EventsOK, EventOK
    <3>2. ASSUME NEW c \in Bank \ {b} PROVE EventOK(c)'
      BY <1>1, <1>2, <1>3, <1>6, <1>7 DEF EventsOK, EventOK
    <3>. QED BY <3>1, <3>2 DEF EventsOK
  <2>3. LogicOK'
    <3>1. ~canWrite
      BY <1>1 DEF canWrite
    <3>2. waits'[L2Logic] = waits[L2Logic] /\ (L2Logic \in ready' <=> L2Logic \in ready)
      BY <1>1, <1>2
    <3>3. "canRead" \in notified'[L2Logic] <=> "canRead" \in notified[L2Logic]
      BY <1>2 DEF ReadEvents
    <3>4. ASSUME "canWrite" \in notified'[L2Logic], "canWrite" \notin notified[L2Logic]
          PROVE  canWrite'
      BY <1>1, <1>2, <3>4 DEF ReadEvents, canWrite, allResponsesReceived
    <3>. QED BY <1>1, <3>1, <3>2, <3>3, <3>4 DEF LogicOK
  <2>4. WaitsOK'
    <3>1. ASSUME NEW c \in Bank, state'[c] = "WAIT" PROVE WaitOK(c)'
      <4>1. c # b /\ state[c] = "WAIT" /\ c \in ready /\ c \in ready'
        BY <1>1, <1>2, <1>4, <3>1
      <4>2. c = target /\ Unanswered = {} /\ hit
        BY <1>4, <4>1 DEF WaitsOK, WaitOK
      <4>. QED BY <1>1, <1>2, <1>7, <4>1, <4>2 DEF WaitsOK, WaitOK
    <3>. QED BY <3>1 DEF WaitsOK, WaitOK
  <2>5. SendsOK'
    <3>1. \A c \in Bank : state'[c] = "SEND" => c = b
      BY <1>2, <1>4
    <3>2. \A c \in Bank : state'[c] = "WAIT" => c \in ready'
      BY <1>1, <1>2, <1>4
    <3>3. SendOK(b)'
      BY <1>1, <1>2, <1>3, <1>4, <1>7, <3>2 DEF SendOK
    <3>4. ASSUME NEW c \in Bank PROVE SendOK(c)'
      BY <3>1, <3>3 DEF SendOK
    <3>. QED BY <3>1, <3>4 DEF SendsOK, OneSender
  <2>. QED BY <2>1, <2>2, <2>3, <2>4, <2>5
<1>9. HitsOK'
  BY <1>1, <1>3, <1>7 DEF HitsOK
<1>10. PacketsOK'
  <2>1. ASSUME NEW c \in Bank, oRequest'[c] # None PROVE oRequest'[c].tag \in Tag
    BY <1>2, <1>3, <2>1 DEF PacketsOK
  <2>. QED BY <1>1, <2>1 DEF PacketsOK, Follows, network
<1>11. BanksOK'
  BY <1>1 DEF BanksOK, BankOK, contains, Queued, bank
<1>12. FramesOK'
  <2>1. FrameOK(b)'
    <3>1. InPacket(b)' = InPacket(b)
      BY <1>1 DEF InPacket, bank
    <3>2. flit.head <=> ~InPacket(b)
      BY <1>1 DEF FramesOK, FrameOK, Open
    <3>3. Open(b)' <=> flit.left # 0
      BY <1>2, <1>3 DEF Open
    <3>. QED BY <1>1, <1>2, <3>1, <3>2, <3>3 DEF FrameOK
  <2>2. ASSUME NEW c \in Bank \ {b} PROVE FrameOK(c)'
    <3>1. ~Open(c) /\ (oRequest[c] # None => (oRequest[c].head <=> ~InPacket(c)))
      BY <1>4 DEF FramesOK, FrameOK
    <3>2. /\ ~Open(c)'
          /\ oRequest'[c] # None => (oRequest'[c].head <=> ~InPacket(c)')
      BY <1>1, <1>2, <3>1 DEF Open, InPacket, bank
    <3>3. state'[c] # "SEND"
      BY <1>2, <1>4
    <3>. QED BY <3>2, <3>3 DEF FrameOK
  <2>. QED BY <2>1, <2>2 DEF FramesOK
<1>13. \A c \in Bank, t \in Tag : Claims(c, t)' => Claims(c, t)
  <2>1. ASSUME NEW c \in Bank \ {b}, NEW t \in Tag PROVE Claims(c, t)' => Claims(c, t)
    BY <1>1, <1>2 DEF Claims, contains, Asks, bank
  <2>2. ASSUME NEW t \in Tag PROVE Claims(b, t)' => Claims(b, t)
    BY <1>1, <1>2 DEF Claims, contains, Asks, bank
  <2>. QED BY <2>1, <2>2
<1>14. OneClaim'
  BY <1>13 DEF OneClaim
<1>15. RequestsOK'
  <2>1. ~Offered' /\ ~Undecided'
    BY <1>1 DEF Offered, Undecided
  <2>2. ASSUME fromNetwork # None, fromNetwork.head PROVE Settled(fromNetwork.tag)'
    <3>1. Settled(fromNetwork.tag) /\ flit.tag # fromNetwork.tag
      BY <1>1, <2>2 DEF RequestsOK, ArrivalSettled
    <3>2. ASSUME NEW c \in Bank PROVE SettledAt(c, fromNetwork.tag)'
      <4>1. SettledAt(c, fromNetwork.tag)
        BY <3>1 DEF Settled
      <4>2. oRequest'[c] \in {oRequest[c], flit}
        BY <1>2
      <4>. QED BY <1>1, <3>1, <4>1, <4>2 DEF SettledAt, Misses, contains, bank, network
    <3>. QED BY <3>2 DEF Settled
  <2>3. ArrivalSettled'
    BY <1>1, <2>2 DEF ArrivalSettled, network
  <2>4. ASSUME NEW c \in Bank, NEW d \in Bank, waits'[c] = "requestSent", ~flit'.skip, d # c
        PROVE  ~Claims(d, flit.tag)'
    <3>1. c # b
      BY <1>2, <2>4
    <3>2. ~Claims(d, flit.tag)
      BY <1>1, <1>2, <2>4, <3>1 DEF RequestsOK
    <3>3. PICK t \in Tag : t = flit.tag /\ t = flit'.tag
      BY <1>1, <1>3
    <3>4. ~Claims(d, t)'
      BY <1>13, <3>2, <3>3
    <3>. QED BY <3>3, <3>4
  <2>. QED BY <2>1, <2>3, <2>4 DEF RequestsOK
<1>. QED BY <1>5, <1>8, <1>9, <1>10, <1>11, <1>12, <1>14, <1>15

(* When L2Logic may forward a flit no filter is due: in the reference      *)
(* kernel's order the target bank has learnt of a hit by then.             *)
LEMMA WhenForwarded ==
  ASSUME ReferenceKernel, IInv, ForwardFlit
  PROVE  /\ Unanswered = {} /\ consumed /\ ready \cap Bank = {}
         /\ \A b \in Bank : state[b] \in {"IDLE", "SEND"} /\ waits[b] # "requestSent"
         /\ fromNetwork # None /\ fromNetwork \in Flit /\ fromNetwork.tag \in Tag
         /\ ready' = ready \ {L2Logic} /\ ready' \cap Bank = {} /\ L2Logic \notin ready'
         /\ waits' = [waits EXCEPT ![L2Logic] = "canRead"]
         /\ waits'[L2Logic] = "canRead" /\ \A b \in Bank : waits'[b] = waits[b]
         /\ "canRead" \notin notified[L2Logic]
<1> USE Constants DEF IInv, FiltersOK
<1>1. /\ L2Logic \in ready /\ ready' = ready \ {L2Logic}
      /\ waits' = [waits EXCEPT ![L2Logic] = "canRead"]
      /\ consumed /\ numResponses = NumBanks /\ fromNetwork # None
      /\ \A b \in Bank : InOrder(b)
  BY DEF ForwardFlit, Runs, canWrite, allResponsesReceived
<1>2. waits'[L2Logic] = "canRead" /\ \A b \in Bank : waits'[b] = waits[b]
  BY <1>1 DEF TypeOK
<1>3. Unanswered = {}
  <2>1. Cardinality(Unanswered) \in Nat /\ (Cardinality(Unanswered) = 0 <=> Unanswered = {})
    BY AnswersCounted DEF Unanswered
  <2>. QED BY <1>1, <2>1 DEF AnswersOK
<1>4. ASSUME NEW b \in Bank PROVE state[b] # "WAIT"
  <2>1. CASE waits[L2Logic] = "canWrite"
    BY <1>1, <2>1 DEF LogicOK
  <2>2. CASE waits[L2Logic] = "canRead"
    BY <1>1, <2>2 DEF InOrder, WaitsOK, WaitOK
  <2>. QED BY <2>1, <2>2 DEF LogicOK
<1>5. ASSUME NEW b \in Bank PROVE b \notin ready /\ state[b] \in {"IDLE", "SEND"}
  <2>1. state[b] \in {"IDLE", "SEND"}
    BY <1>4 DEF TypeOK
  <2>. QED BY <1>1, <1>3, <2>1, WhenReady
<1>6. \A b \in Bank : waits[b] # "requestSent"
  BY <1>3, WhenDelayed
<1>7. fromNetwork \in Flit /\ fromNetwork.tag \in Tag
  BY <1>1 DEF TypeOK, PacketsOK
<1>8. "canRead" \notin notified[L2Logic]
  BY <1>1 DEF LogicOK
<1>. QED BY <1>1, <1>2, <1>3, <1>5, <1>6, <1>7, <1>8

LEMMA ForwardFlitKeeps ==
  ASSUME ReferenceKernel, IInv, ForwardFlit
  PROVE  IInv'
<1> USE Constants DEF IInv, FiltersOK
<1>1. /\ Unanswered = {} /\ consumed /\ ready \cap Bank = {}
      /\ \A b \in Bank : state[b] \in {"IDLE", "SEND"} /\ waits[b] # "requestSent"
      /\ fromNetwork # None /\ fromNetwork \in Flit /\ fromNetwork.tag \in Tag
      /\ ready' = ready \ {L2Logic} /\ ready' \cap Bank = {} /\ L2Logic \notin ready'
      /\ waits' = [waits EXCEPT ![L2Logic] = "canRead"]
      /\ waits'[L2Logic] = "canRead" /\ \A b \in Bank : waits'[b] = waits[b]
      /\ "canRead" \notin notified[L2Logic]
  BY WhenForwarded
<1>2. /\ fromNetwork' = None /\ flit' = fromNetwork /\ consumed' = FALSE
      /\ newRemoteRequest' = (fromNetwork.left = 0)
      /\ IF newRemoteRequest
         THEN /\ target' \in Bank /\ numResponses' = 0 /\ hit' = FALSE
              /\ Notify(L2Logic, {}, {"newRequest", "newFlit"})
         ELSE /\ Notify(L2Logic, {}, {"newFlit"})
              /\ UNCHANGED <<target, numResponses, hit>>
      /\ UNCHANGED <<rest, state, oRequest, bank>>
  BY DEF ForwardFlit, newRequest, newPayload, getTargetBank
<1>3. notified'[L2Logic] = notified[L2Logic] /\ notified' \in [Process -> SUBSET Event]
  <2>1. PICK es \in SUBSET {"newRequest", "newFlit"} : Notify(L2Logic, {}, es)
    BY <1>2
  <2>2. notified \in [Process -> SUBSET Event] /\ es \subseteq Event
    BY DEF TypeOK, Event
  <2>. QED BY <2>1, <2>2 DEF Notify
<1>4. TypeOK'
  <2>1. numResponses' \in 0 .. NumBanks /\ target' \in Bank \cup {None}
    <3>1. numResponses \in 0 .. NumBanks /\ target \in Bank \cup {None}
      BY DEF TypeOK
    <3>. QED BY <1>2, <3>1
  <2>3. hit' \in BOOLEAN
    <3>1. hit \in BOOLEAN
      BY DEF TypeOK
    <3>. QED BY <1>2, <3>1
  <2>2. waits' \in [Process -> Event] /\ ready' \subseteq Process
    BY <1>1 DEF TypeOK, Event
  <2>. QED BY <1>1, <1>2, <1>3, <2>1, <2>2, <2>3 DEF TypeOK, bank
<1>5. PacketsOK'
  BY <1>1, <1>2 DEF PacketsOK, Follows
<1>6. LogicOK'
  BY <1>1, <1>2, <1>3 DEF LogicOK
<1>7. WaitsOK'
  BY <1>1, <1>2 DEF WaitsOK, WaitOK
<1>8. BanksOK'
  BY <1>2 DEF BanksOK, BankOK, contains, Queued, bank
<1>9. /\ ArrivalSettled' /\ \A t : Settled(t)' = Settled(t)
      /\ \A b \in Bank : waits'[b] # "requestSent"
  BY <1>1, <1>2 DEF ArrivalSettled, Settled, SettledAt, Misses, contains, bank
<1>10. CASE newRemoteRequest
  <2>1. ASSUME NEW b \in Bank PROVE state[b] = "IDLE" /\ ~Open(b)
    <3>1. state[b] # "SEND"
      BY <1>1, <1>10 DEF FramesOK, FrameOK, SendsOK, SendOK, PacketsOK
    <3>. QED BY <1>1, <3>1 DEF FramesOK, FrameOK
  <2>2. \A b \in Bank : /\ {"newRequest", "newFlit"} \subseteq notified'[b]
                        /\ waits'[b] \in {"newRequest", "newFlit"}
    BY <1>1, <1>2, <1>10, <2>1 DEF Notify, EventsOK, EventOK
  <2>3. Unanswered' = Bank /\ \A b \in Bank : Owes(b)'
    BY <1>2, <2>1, <2>2 DEF Unanswered, Owes
  <2>4. AnswersOK'
    BY <1>1, <1>2, <1>10, <2>3 DEF AnswersOK, PacketsOK
  <2>5. EventsOK'
    BY <1>1, <1>2, <2>1, <2>2, <2>3 DEF EventsOK, EventOK
  <2>6. SendsOK' /\ HitsOK'
    BY <1>2, <1>10, <2>1 DEF SendsOK, SendOK, OneSender, HitsOK
  <2>7. FramesOK'
    BY <1>2, <2>1 DEF FramesOK, FrameOK, Open, InPacket, bank
  <2>8. \A b \in Bank, t \in Tag : Claims(b, t)' = Claims(b, t)
    BY <1>2, <2>1 DEF Claims, contains, Asks, bank
  <2>9. OneClaim'
    BY <2>8 DEF OneClaim
  <2>10. Settled(fromNetwork.tag)
    BY <1>1, <1>10 DEF RequestsOK, ArrivalSettled, PacketsOK
  <2>11. Settled(flit.tag)'
    BY <1>2, <1>9, <2>10
  <2>12. RequestsOK'
    BY <1>9, <2>3, <2>11 DEF RequestsOK
  <2>. QED BY <1>4, <1>5, <1>6, <1>7, <1>8, <2>4, <2>5, <2>6, <2>7, <2>9, <2>12
<1>11. CASE ~newRemoteRequest
  <2>1. /\ flit # None /\ flit.left # 0
        /\ ~fromNetwork.head /\ fromNetwork.tag = flit.tag /\ fromNetwork.skip = flit.skip
    BY <1>1, <1>11 DEF PacketsOK, Follows
  <2>2. ASSUME NEW b \in Bank PROVE ~Owes(b)' /\ (state[b] = "IDLE" => waits[b] = "newRequest")
    <3>1. ~Owes(b)
      BY <1>1 DEF Unanswered
    <3>2. state[b] = "IDLE" => waits[b] = "newRequest" /\ "newRequest" \notin notified[b]
      BY <1>1, <2>1, <3>1 DEF EventsOK, EventOK, Owes
    <3>3. notified'[b] = notified[b] \cup {"newFlit"}
      BY <1>2, <1>11 DEF Notify
    <3>. QED BY <1>1, <1>2, <3>2, <3>3 DEF Owes
  <2>3. Unanswered' = {}
    BY <2>2 DEF Unanswered
  <2>4. AnswersOK'
    BY <1>1, <1>2, <1>11, <2>3 DEF AnswersOK
  <2>5. EventsOK'
    BY <1>1, <1>2, <2>2, <2>3 DEF EventsOK, EventOK
  <2>6. SendsOK' /\ HitsOK'
    BY <1>1, <1>2, <1>11, <2>3 DEF SendsOK, SendOK, OneSender, HitsOK
  <2>7. FramesOK'
    BY <1>1, <1>2, <2>1 DEF FramesOK, FrameOK, Open, InPacket, bank
  <2>8. \A b \in Bank, t \in Tag : Claims(b, t)' = Claims(b, t)
    BY <1>1, <1>2, <2>1 DEF Claims, contains, Asks, bank
  <2>9. OneClaim'
    BY <2>8 DEF OneClaim
  <2>10. RequestsOK'
    BY <1>2, <1>9, <2>1 DEF RequestsOK, Offered, Undecided
  <2>. QED BY <1>4, <1>5, <1>6, <1>7, <1>8, <2>4, <2>5, <2>6, <2>7, <2>9, <2>10
<1>. QED BY <1>10, <1>11

-----------------------------------------------------------------------------
(* The theorems.                                                           *)

LEMMA StepKeeps ==
  ASSUME ReferenceKernel, Spaced, IInv, [Next]_vars
  PROVE  IInv'
<1>1. CASE DeltaCycle
  BY <1>1, DeltaCycleKeeps
<1>2. CASE forwardRequests
  BY <1>2, WaitForChannelKeeps, ForwardFlitKeeps DEF forwardRequests
<1>3. ASSUME NEW b \in Bank, Filter(b) PROVE IInv'
  BY <1>3, DelayRequestKeeps, AnswerHitKeeps, AnswerMissKeeps, SomeoneHitKeeps,
     ClaimAsTargetKeeps, WaitForBankKeeps, SendFlitKeeps DEF Filter
<1>4. ASSUME NEW b \in Bank, mainLoop(b) PROVE IInv'
  BY <1>4, StartRequestKeeps, PrepareLineKeeps, PrepareFetchKeeps, AllocateKeeps, FlushKeeps,
     StoreWordKeeps, AnswerKeeps, ForwardRequestKeeps, ForwardPayloadKeeps DEF mainLoop
<1>5. ASSUME NEW b \in Bank, LocalMiss(b) \/ SendRequest(b) PROVE IInv'
  BY <1>5, LocalMissKeeps, SendRequestKeeps
<1>6. ASSUME NEW r \in Requests, ArriveHead(r) PROVE IInv'
  BY <1>6, ArriveHeadKeeps
<1>7. CASE ArrivePayload
  BY <1>7, ArrivePayloadKeeps
<1>8. CASE UNCHANGED vars
  <2> USE <1>8 DEF vars, IInv
  <2>1. TypeOK' /\ PacketsOK'
    BY DEF TypeOK, PacketsOK, Follows
  <2>2. Unanswered' = Unanswered /\ \A b \in Bank : Owes(b)' = Owes(b)
    BY DEF Unanswered, Owes
  <2>3. AnswersOK' /\ EventsOK' /\ WaitsOK'
    BY <2>2 DEF FiltersOK, AnswersOK, EventsOK, EventOK, WaitsOK, WaitOK
  <2>4. LogicOK' /\ SendsOK'
    BY <2>2 DEF FiltersOK, LogicOK, canWrite, allResponsesReceived, SendsOK, SendOK, OneSender
  <2>5. HitsOK'
    BY <2>2 DEF HitsOK, contains
  <2>6. FramesOK' /\ BanksOK'
    BY DEF FramesOK, FrameOK, Open, InPacket, BanksOK, BankOK, contains, Queued
  <2>7. \A b, t : Claims(b, t)' = Claims(b, t) /\ SettledAt(b, t)' = SettledAt(b, t)
    BY DEF Claims, Asks, contains, SettledAt, Misses
  <2>8. OneClaim'
    BY <2>7 DEF OneClaim
  <2>9. RequestsOK'
    BY <2>2, <2>7 DEF RequestsOK, ArrivalSettled, Settled, Offered, Undecided, contains
  <2>. QED BY <2>1, <2>3, <2>4, <2>5, <2>6, <2>8, <2>9 DEF FiltersOK
<1>. QED BY <1>1, <1>2, <1>3, <1>4, <1>5, <1>6, <1>7, <1>8 DEF Next, Kernel

(* The invariant holds in every reachable state.                           *)
LEMMA Invariance == ASSUME ReferenceKernel, Spaced PROVE Spec => []IInv
<1>1. IInv /\ [Next]_vars => IInv'
  BY StepKeeps
<1>. QED BY <1>1, Initially, PTL DEF Spec

(* At most one bank answers that it takes a request, no answer is given    *)
(* that was not asked for, no flit is read twice, and what starts a        *)
(* request is never a payload flit: the assertions of                      *)
(* AssociativeReadChannel and of L2RequestFilter::mainLoop(), for any      *)
(* number of banks, lines and words.                                       *)
THEOREM AssertionsNeverFail ==
  ASSUME ReferenceKernel, Spaced
  PROVE  Spec => []AssertionsHold
<1>1. ASSUME IInv PROVE AssertionsHold
  <2> USE <1>1, Constants DEF IInv, FiltersOK
  <2>1. Cardinality(Unanswered) \in Nat /\ (Cardinality(Unanswered) = 0 <=> Unanswered = {})
    BY AnswersCounted DEF Unanswered
  <2>2. allResponsesReceived <=> Unanswered = {}
    BY <2>1 DEF allResponsesReceived, AnswersOK, TypeOK
  <2>3. OneHit
    <3> SUFFICES ASSUME NEW b \in Bank, b \in ready, state[b] = "IDLE", serveRequest(b), hit
                 PROVE  FALSE
      BY DEF OneHit
    <3>1. b \in Unanswered /\ flit.tag \in Tag
      BY WhenReady
    <3>2. ~flit.skip /\ contains(b, flit.tag)
      BY <3>1 DEF HitsOK, serveRequest
    <3>3. PICK c \in Bank : state[c] = "SEND" /\ contains(c, flit.tag)
      BY <3>1, <3>2 DEF HitsOK
    <3>. QED BY <3>1, <3>2, <3>3 DEF OneClaim, Claims
  <2>4. ASSUME NEW b \in ready \cap Bank
        PROVE  /\ state[b] = "IDLE" => flit.head /\ ~allResponsesReceived
               /\ state[b] = "WAIT" => allResponsesReceived
               /\ state[b] = "SEND" /\ oRequest[b] = None => ~consumed
    BY <2>2, WhenReady
  <2>5. L2Logic \in ready /\ canWrite => fromNetwork # None
    BY DEF LogicOK
  <2>6. \A b \in Bank : bankState[b] = "IDLE" /\ oRequest[b] # None => oRequest[b].head
    BY DEF BanksOK, BankOK, FramesOK, FrameOK, InPacket
  <2>. QED BY <2>3, <2>4, <2>5, <2>6 DEF AssertionsHold
<1>. QED BY <1>1, Invariance, PTL

(* No two banks have the same line, for any number of banks and lines.     *)
THEOREM LinesInOneBank ==
  ASSUME ReferenceKernel, Spaced
  PROVE  Spec => []OneCopy
<1>1. ASSUME IInv PROVE OneCopy
  <2> SUFFICES ASSUME NEW t \in Tag
               PROVE  Cardinality({b \in Bank : contains(b, t)}) <= 1
    BY DEF OneCopy
  <2>1. CASE \E b \in Bank : contains(b, t)
    <3>1. PICK b \in Bank : contains(b, t)
      BY <2>1
    <3>2. {c \in Bank : contains(c, t)} = {b}
      BY <1>1, <3>1 DEF IInv, OneClaim, Claims
    <3>3. Cardinality({b}) = 1
      BY FS_Singleton
    <3>. QED BY <3>2, <3>3
  <2>2. CASE ~\E b \in Bank : contains(b, t)
    <3>1. {c \in Bank : contains(c, t)} = {}
      BY <2>2
    <3>. QED BY <3>1, FS_EmptySet
  <2>. QED BY <2>1, <2>2
<1>. QED BY <1>1, Invariance, PTL

(* While a bank has promised to flush a line no other bank asks the next   *)
(* level for it: L2RequestFilter holds the answer back.                    *)
THEOREM FlushesComeFirst ==
  ASSUME ReferenceKernel, Spaced
  PROVE  Spec => []PendingFlushesFirst
<1>1. ASSUME IInv PROVE PendingFlushesFirst
  <2> SUFFICES ASSUME NEW b \in Bank, NEW c \in Bank, NEW t \in Tag,
                      t \in pendingFlushes[b], Queued(c, "FETCH_LINE", t)
               PROVE  b = c
    BY DEF PendingFlushesFirst
  <2>1. serving[c] # None /\ serving[c].tag = t /\ ~serving[c].skip
    BY <1>1 DEF IInv, BanksOK, BankOK
  <2>. QED BY <1>1, <2>1 DEF IInv, OneClaim, Claims, Asks
<1>. QED BY <1>1, Invariance, PTL

-----------------------------------------------------------------------------
(* The banks implement RequestDispatch.                                    *)

(* Some bank takes the rest of a packet that has begun.                    *)
Owned ==
  flit # None /\ (IF consumed THEN flit.left # 0 ELSE ~flit.head)
    => \E b \in Bank : state[b] = "SEND"

LEMMA SenderIs ==
  ASSUME OneSender
  PROVE  /\ \A b \in Bank : state[b] = "SEND" => sender = b
         /\ (\A b \in Bank : state[b] # "SEND") => sender = None
<1>1. ASSUME NEW b \in Bank, state[b] = "SEND" PROVE sender = b
  <2>1. \A c \in Bank : state[c] = "SEND" => c = b
    BY <1>1 DEF OneSender
  <2>2. (CHOOSE c \in Bank : state[c] = "SEND") = b
    BY <1>1, <2>1
  <2>. QED BY <1>1, <2>2 DEF sender
<1>2. (\A b \in Bank : state[b] # "SEND") => sender = None
  BY DEF sender
<1>. QED BY <1>1, <1>2

LEMMA SenderBecomes ==
  ASSUME OneSender'
  PROVE  /\ \A b \in Bank : state'[b] = "SEND" => sender' = b
         /\ (\A b \in Bank : state'[b] # "SEND") => sender' = None
<1>1. ASSUME NEW b \in Bank, state'[b] = "SEND" PROVE sender' = b
  <2>1. \A c \in Bank : state'[c] = "SEND" => c = b
    BY <1>1 DEF OneSender
  <2>2. (CHOOSE c \in Bank : state'[c] = "SEND") = b
    BY <1>1, <2>1
  <2>. QED BY <1>1, <2>2 DEF sender
<1>2. (\A b \in Bank : state'[b] # "SEND") => sender' = None
  BY DEF sender
<1>. QED BY <1>1, <1>2

LEMMA SameSender ==
  ASSUME OneSender, OneSender', \A b \in Bank : state'[b] = "SEND" <=> state[b] = "SEND"
  PROVE  sender' = sender
<1>1. CASE \E b \in Bank : state[b] = "SEND"
  <2>1. PICK b \in Bank : state[b] = "SEND"
    BY <1>1
  <2>2. sender = b
    BY <2>1, SenderIs
  <2>3. sender' = b
    BY <2>1, SenderBecomes
  <2>. QED BY <2>2, <2>3
<1>2. CASE ~\E b \in Bank : state[b] = "SEND"
  <2>1. sender = None
    BY <1>2, SenderIs
  <2>2. sender' = None
    BY <1>2, SenderBecomes
  <2>. QED BY <2>1, <2>2
<1>. QED BY <1>1, <1>2

\* What a step of the abstract specification may look like.
DispatchStep == Dispatch!Next \/ UNCHANGED <<offered, target, sender, oRequest, tags>>

(* Steps that change neither who sends nor the channel.                    *)
LEMMA BanksAct ==
  ASSUME OneSender, OneSender', Owned,
         \A b \in Bank : state'[b] = "SEND" <=> state[b] = "SEND",
         UNCHANGED <<flit, consumed, target>>,
         \A b \in Bank : oRequest'[b] \in {oRequest[b], None}
  PROVE  DispatchStep /\ Owned'
<1>1. sender' = sender /\ offered' = offered
  BY SameSender DEF offered
<1>2. Dispatch!BankStep
  BY <1>1 DEF Dispatch!BankStep
<1>3. Owned'
  BY DEF Owned
<1>. QED BY <1>2, <1>3 DEF DispatchStep, Dispatch!Next

(* A bank that hits has the line or, if the request skips this cache, is   *)
(* the bank it names; no bank has taken the request before.                *)
LEMMA AnswerHitClaims ==
  ASSUME IInv, IInv', NEW b \in Bank, AnswerHit(b)
  PROVE  DispatchStep /\ Owned'
<1> USE Constants DEF IInv, FiltersOK
<1>1. /\ state[b] = "IDLE" /\ b \in ready /\ ~hit
      /\ state'[b] = "SEND"
      /\ IF flit.skip THEN target = b ELSE contains(b, flit.tag)
      /\ UNCHANGED <<flit, target, consumed, oRequest, bank>>
  BY DEF AnswerHit, Runs, serveRequest, TypeOK
<1>2. flit # None /\ ~consumed /\ flit \in Flit
  BY <1>1, WhenReady
<1>3. sender = None /\ sender' = b
  <2>1. \A c \in Bank : state[c] # "SEND"
    BY <1>1, <1>2, WhenReady DEF SendsOK, SendOK
  <2>. QED BY <1>1, <2>1, SenderIs, SenderBecomes DEF SendsOK
<1>4. offered = flit /\ offered' = flit /\ offered # None /\ tags' = tags
  BY <1>1, <1>2 DEF offered, tags, bank
<1>5. b \in Dispatch!Entitled(offered)
  <2>1. CASE flit.skip
    BY <1>1, <1>4, <2>1 DEF Dispatch!Entitled
  <2>2. CASE ~flit.skip
    <3>1. b \in Dispatch!Holders(flit.tag)
      BY <1>1, <2>2 DEF Dispatch!Holders, tags, contains
    <3>. QED BY <1>4, <2>2, <3>1 DEF Dispatch!Entitled
  <2>. QED BY <2>1, <2>2
<1>6. Dispatch!Claim(b)
  BY <1>1, <1>3, <1>4, <1>5 DEF Dispatch!Claim
<1>. QED BY <1>1, <1>6 DEF DispatchStep, Dispatch!Next, Owned

(* The target bank takes the request when no bank has the line.            *)
LEMMA TargetClaims ==
  ASSUME IInv, IInv', NEW b \in Bank, ClaimAsTarget(b)
  PROVE  DispatchStep /\ Owned'
<1> USE Constants DEF IInv, FiltersOK
<1>1. /\ state[b] = "WAIT" /\ b \in ready /\ ~hit
      /\ state'[b] = "SEND"
      /\ UNCHANGED <<flit, target, consumed, hit, oRequest, bank>>
  BY DEF ClaimAsTarget, Runs, EveryoneMissed, TypeOK, channel
<1>2. /\ Unanswered = {} /\ ~flit.skip /\ flit \in Flit
      /\ b = target /\ flit # None /\ flit.head /\ ~consumed
      /\ \A c \in Bank : state[c] # "SEND"
  BY <1>1, WhenReady DEF WaitsOK, WaitOK, SendsOK, SendOK
<1>3. sender = None /\ sender' = b
  BY <1>1, <1>2, SenderIs, SenderBecomes DEF SendsOK
<1>4. offered = flit /\ offered' = flit /\ offered # None /\ tags' = tags
  BY <1>1, <1>2 DEF offered, tags, bank
<1>5. \A c \in Bank : ~contains(c, flit.tag)
  BY <1>1, <1>2 DEF RequestsOK, Undecided, Offered
<1>6. Dispatch!Holders(flit.tag) = {}
  BY <1>5 DEF Dispatch!Holders, tags, contains
<1>7. b \in Dispatch!Entitled(offered)
  BY <1>2, <1>4, <1>6 DEF Dispatch!Entitled
<1>8. Dispatch!Claim(b)
  BY <1>1, <1>3, <1>4, <1>7 DEF Dispatch!Claim
<1>. QED BY <1>1, <1>8 DEF DispatchStep, Dispatch!Next, Owned

(* The flit read is the one on offer, and its bank has room for it.        *)
LEMMA SendFlitPasses ==
  ASSUME IInv, IInv', NEW b \in Bank, SendFlit(b)
  PROVE  DispatchStep /\ Owned'
<1> USE Constants DEF IInv, FiltersOK
<1>1. /\ state[b] = "SEND" /\ b \in ready /\ oRequest[b] = None
      /\ ~consumed /\ consumed' = TRUE
      /\ oRequest' = [oRequest EXCEPT ![b] = flit]
      /\ state' = [state EXCEPT ![b] = IF flit.left = 0 THEN "IDLE" ELSE @]
      /\ UNCHANGED <<flit, target, bank>>
  BY DEF SendFlit, Runs
<1>2. state'[b] = (IF flit.left = 0 THEN "IDLE" ELSE "SEND")
      /\ \A c \in Bank \ {b} : state'[c] = state[c]
  BY <1>1 DEF TypeOK
<1>3. flit \in Flit /\ flit # None
  BY <1>1, WhenReady
<1>4. offered = flit /\ offered' = None /\ offered # None /\ tags' = tags
  BY <1>1, <1>3 DEF offered, tags, bank
<1>5. sender = b
  BY <1>1, SenderIs DEF SendsOK
<1>6. sender' = IF flit.left = 0 THEN None ELSE b
  <2>1. \A c \in Bank \ {b} : state'[c] # "SEND"
    BY <1>1, <1>2 DEF SendsOK, OneSender
  <2>. QED BY <1>2, <2>1, SenderBecomes DEF SendsOK
<1>7. Dispatch!Pass(b)
  BY <1>1, <1>4, <1>5, <1>6 DEF Dispatch!Pass
<1>8. Owned'
  BY <1>1, <1>2 DEF Owned
<1>. QED BY <1>7, <1>8 DEF DispatchStep, Dispatch!Next

(* A packet is offered when no bank takes another, its payload to the bank *)
(* that took its head.                                                     *)
LEMMA ForwardFlitOffers ==
  ASSUME ReferenceKernel, IInv, IInv', Owned, ForwardFlit
  PROVE  DispatchStep /\ Owned'
<1> USE Constants DEF IInv, FiltersOK
<1>1. /\ flit' = fromNetwork /\ consumed' = FALSE
      /\ IF newRemoteRequest THEN target' \in Bank ELSE target' = target
      /\ UNCHANGED <<state, oRequest, bank>>
  BY DEF ForwardFlit, newRequest, newPayload, getTargetBank
<1>2. fromNetwork # None /\ fromNetwork \in Flit /\ consumed
  BY WhenForwarded
<1>3. offered = None /\ offered' = fromNetwork /\ tags' = tags
  BY <1>1, <1>2 DEF offered, tags, bank
<1>4. sender' = sender
  BY <1>1, SameSender DEF SendsOK
<1>5. fromNetwork.head <=> newRemoteRequest
  BY <1>2 DEF PacketsOK
<1>6. newRemoteRequest => \A b \in Bank : state[b] # "SEND"
  BY <1>2 DEF FramesOK, FrameOK, SendsOK, SendOK, PacketsOK
<1>7. ~newRemoteRequest => \E b \in Bank : state[b] = "SEND"
  BY <1>2 DEF Owned, PacketsOK
<1>8. fromNetwork.head <=> sender = None
  <2>1. CASE newRemoteRequest
    BY <1>5, <1>6, <2>1, SenderIs DEF SendsOK
  <2>2. CASE ~newRemoteRequest
    <3>1. PICK b \in Bank : state[b] = "SEND"
      BY <1>7, <2>2
    <3>2. sender = b
      BY <3>1, SenderIs DEF SendsOK
    <3>. QED BY <1>5, <2>2, <3>2
  <2>. QED BY <2>1, <2>2
<1>9. \E t \in Bank : target' = IF fromNetwork.head THEN t ELSE target
  <2>1. Bank # {}
    BY FS_EmptySet
  <2>. QED BY <1>1, <1>5, <2>1
<1>10. PICK t \in Bank : Dispatch!Offer(fromNetwork, t)
  BY <1>1, <1>3, <1>4, <1>8, <1>9 DEF Dispatch!Offer
<1>11. Owned'
  BY <1>1, <1>5, <1>7 DEF Owned
<1>. QED BY <1>2, <1>10, <1>11 DEF DispatchStep, Dispatch!Next

LEMMA StepDispatches ==
  ASSUME ReferenceKernel, Spaced, IInv, Owned, [Next]_vars
  PROVE  DispatchStep /\ Owned'
<1>1. IInv'
  BY StepKeeps
<1>2. OneSender /\ OneSender'
  BY <1>1 DEF IInv, FiltersOK, SendsOK
<1> DEFINE Alone == /\ \A b \in Bank : state'[b] = "SEND" <=> state[b] = "SEND"
                    /\ UNCHANGED <<flit, consumed, target>>
                    /\ \A b \in Bank : oRequest'[b] \in {oRequest[b], None}
<1>3. Alone => DispatchStep /\ Owned'
  BY <1>2, BanksAct
<1>4. state \in [Bank -> {"IDLE", "WAIT", "SEND"}] /\ oRequest \in [Bank -> Flit \cup {None}]
  BY DEF IInv, TypeOK
<1>5. CASE DeltaCycle \/ WaitForChannel
  BY <1>3, <1>5 DEF DeltaCycle, WaitForChannel, channel
<1>6. CASE ForwardFlit
  BY <1>1, <1>6, ForwardFlitOffers
<1>7. ASSUME NEW b \in Bank, Filter(b) PROVE DispatchStep /\ Owned'
  <2>1. CASE DelayRequest(b) \/ WaitForBank(b)
    BY <1>3, <2>1 DEF DelayRequest, WaitForBank, channel
  <2>2. CASE AnswerHit(b) \/ ClaimAsTarget(b) \/ SendFlit(b)
    BY <1>1, <2>2, AnswerHitClaims, TargetClaims, SendFlitPasses
  <2>3. CASE AnswerMiss(b) \/ SomeoneHit(b)
    BY <1>3, <1>4, <2>3 DEF AnswerMiss, SomeoneHit, channel
  <2>. QED BY <1>7, <2>1, <2>2, <2>3 DEF Filter
<1>8. ASSUME NEW b \in Bank, mainLoop(b) \/ LocalMiss(b) \/ SendRequest(b)
      PROVE  DispatchStep /\ Owned'
  <2>1. UNCHANGED around
    BY <1>8 DEF mainLoop, StartRequest, PrepareLine, PrepareFetch, Allocate, Flush, StoreWord,
                Answer, ForwardRequest, ForwardPayload, LocalMiss, SendRequest
  <2>2. oRequest' \in {oRequest, [oRequest EXCEPT ![b] = None]}
    BY <1>8 DEF mainLoop, StartRequest, PrepareLine, PrepareFetch, Allocate, Flush, StoreWord,
                Answer, ForwardRequest, ForwardPayload, LocalMiss, SendRequest, TakeFlit
  <2>. QED BY <1>3, <1>4, <2>1, <2>2 DEF around, channel
<1>9. ASSUME NEW r \in Requests, ArriveHead(r) PROVE DispatchStep /\ Owned'
  BY <1>3, <1>9 DEF ArriveHead, channel
<1>10. CASE ArrivePayload \/ UNCHANGED vars
  BY <1>3, <1>10 DEF ArrivePayload, channel, vars
<1>. QED BY <1>5, <1>6, <1>7, <1>8, <1>9, <1>10 DEF Next, Kernel, forwardRequests

(* The banks of a tile, with their filters and the broadcast channel, give *)
(* each packet as a whole and in order to the one bank entitled to it.     *)
THEOREM PacketsAreDispatched ==
  ASSUME ReferenceKernel, Spaced
  PROVE  Spec => ImplementsDispatch
<1>1. Init => Dispatch!Init /\ Owned
  <2> SUFFICES ASSUME Init PROVE Dispatch!Init /\ Owned
    OBVIOUS
  <2>1. offered = None /\ Owned
    BY DEF Init, InitChannel, offered, Owned
  <2>2. sender = None
    BY DEF Init, InitFilters, sender
  <2>3. tags = [b \in Bank |-> None]
    BY DEF Init, tags
  <2>. QED BY <2>1, <2>2, <2>3 DEF Init, InitChannel, InitFilters, Dispatch!Init
<1>2. IInv /\ Owned /\ [Next]_vars => Owned' /\ [Dispatch!Next]_<<offered, target, sender, oRequest, tags>>
  BY StepDispatches DEF DispatchStep
<1>. QED BY <1>1, <1>2, Invariance, PTL DEF Spec, ImplementsDispatch, Dispatch!DispatchSpec
=============================================================================
