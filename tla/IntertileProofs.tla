--------------------------- MODULE IntertileProofs ---------------------------
(***************************************************************************)
(* Proofs about IntertileUnit.  First its types, and the assertions of     *)
(* sendCreditFlit and acceptPortClaim, for any number of sources, cores,   *)
(* channels and credits, and whatever the programs do - provided that a    *)
(* core has no more channels than the tile has cores.  Then its            *)
(* connections: where their credits are while a channel is claimed, used   *)
(* and released, and that the unit, the sources' entries and the networks  *)
(* implement RemoteChannel.                                                *)
(***************************************************************************)
EXTENDS IntertileUnit, FiniteSetTheorems, SequenceTheorems,
        WellFoundedInduction, TLAPS

-----------------------------------------------------------------------------
(* A request list that is not empty has a lowest index, and the arbiter    *)
(* returns one of the requests.                                            *)
LEMMA LowestInSet ==
  ASSUME NEW S \in SUBSET Nat, S # {}
  PROVE  Lowest(S) \in S
<1> DEFINE less == {p \in Nat \X Nat : p[1] < p[2]}
<1>1. IsWellFoundedOn(less, Nat)
  BY NatLessThanWellFounded, Zenon DEF OpToRel
<1>2. \A x, y \in Nat : y < x => <<y, x>> \in less
  OBVIOUS
<1> HIDE DEF less
<1>3. PICK x \in S : \A y \in S : <<y, x>> \notin less
  BY <1>1, WFMin
<1>4. ASSUME NEW y \in S PROVE x <= y
  <2>1. x \in Nat /\ y \in Nat
    OBVIOUS
  <2>2. ~ (y < x)
    BY <1>2, <1>3, <2>1, Zenon
  <2>. QED BY <2>1, <2>2
<1>. QED BY <1>4 DEF Lowest

LEMMA SelectedIsRequested ==
  ASSUME NEW S \in SUBSET Nat, S # {}, NEW last \in Nat
  PROVE  /\ selectRequester(S, last) \in S
         /\ lastAfterSelect(S, last) \in Nat
<1>1. Above(S, last) \in SUBSET Nat /\ Above(S, last) \subseteq S
  BY DEF Above
<1>2. CASE Above(S, last) # {}
  BY <1>1, <1>2, LowestInSet, Zenon DEF selectRequester, lastAfterSelect
<1>3. CASE Above(S, last) = {}
  BY <1>3, LowestInSet, Zenon DEF selectRequester, lastAfterSelect
<1>. QED BY <1>2, <1>3

(* Flattening a port and turning it back is the identity when a row is as  *)
(* long as a core has channels.                                            *)
LEMMA RoundTrip ==
  ASSUME NEW N \in Nat \ {0}, NEW core \in 0..(N-1), NEW channel \in 0..(N-1)
  PROVE  /\ (core * N + channel) \in Nat
         /\ (core * N + channel) \div N = core
         /\ (core * N + channel) % N = channel
<1> DEFINE i == core * N + channel
           q == i \div N
           r == i % N
<1>1. i \in Nat /\ q \in Int /\ r \in 0..(N-1) /\ i = N * q + r
  OBVIOUS
<1>. QED BY <1>1

LEMMA IndexRoundTrip ==
  ASSUME NumChannels <= NumCores
  PROVE  \A p \in Port : /\ addressToIndex(p) \in Nat
                         /\ indexToAddress(addressToIndex(p)) = p
<1> SUFFICES ASSUME NEW core \in Core, NEW channel \in Channel
             PROVE  /\ addressToIndex(<<core, channel>>) \in Nat
                    /\ indexToAddress(addressToIndex(<<core, channel>>)) = <<core, channel>>
  BY DEF Port
<1>1. core \in 0..(NumCores - 1) /\ channel \in 0..(NumCores - 1)
  BY PortAssumption DEF Core, Channel
<1>. QED BY <1>1, RoundTrip, PortAssumption DEF addressToIndex, indexToAddress

-----------------------------------------------------------------------------
(* The strengthening.  The list of ports to serve holds exactly the ports  *)
(* that owe something; only owned ports do, and credits are used exactly   *)
(* while a port is owned.  A program that has a send in its pipeline, or   *)
(* is not idle, has pointed its entry at a port.                           *)
Bookkeeping ==
  \A p \in Port :
    /\ creditState[p].useCredits <=> creditState[p].source # None
    /\ creditState[p].creditsPending > 0 => creditState[p].useCredits
    /\ addressToIndex(p) \in creditsOutstanding <=> creditState[p].creditsPending > 0

Pointed ==
  \A s \in Source :
    /\ decoded[s] # None => phase[s] \in {"open", "connected"}
    /\ phase[s] # "idle" => cmt[s].destination \in Port

(* It is kept in three parts, for the unit, the programs with their        *)
(* entries, and the flits between, because a step concerns only some.      *)
UnitOK ==
  /\ creditState \in [Port -> PortState]
  /\ creditsOutstanding \subseteq {addressToIndex(p) : p \in Port}
  /\ Bookkeeping

ProgramOK ==
  /\ cmt \in [Source -> Entry(Port)]
  /\ phase \in [Source -> {"idle", "open", "claiming", "connected", "leaving"}]
  /\ decoded \in [Source -> {"claim", "data", "release", None}]
  /\ Pointed

FlitsOK ==
  /\ dataNet \in [Source -> Seq(Flit)]
  /\ inBuffer \in Seq(Flit)
  /\ outBuffer \in Flit \cup {None}
  /\ nackChannel \in Source \cup {None}
  /\ lastAccepted \in Nat
  /\ oCredit \in CreditFlit \cup {None}
  /\ creditNet \in [Source -> Seq(Nat)]
  /\ inputFIFO \in [Port -> Seq(Source)]

IInv == UnitOK /\ ProgramOK /\ FlitsOK

(* The invariant gives the asserted facts.                                 *)
LEMMA InvariantSuffices ==
  ASSUME NumChannels <= NumCores, IInv
  PROVE  TypeOK /\ SendsOwedCredits /\ FreePortsOweNothing
<1>1. SendsOwedCredits
  <2> SUFFICES ASSUME NEW index \in creditsOutstanding
               PROVE  LET state == creditState[indexToAddress(index)]
                      IN state.useCredits /\ state.source # None /\ state.creditsPending > 0
    BY DEF SendsOwedCredits
  <2>1. PICK p \in Port : index = addressToIndex(p)
    BY DEF IInv, UnitOK
  <2>2. indexToAddress(index) = p
    BY <2>1, IndexRoundTrip
  <2>. QED BY <2>1, <2>2 DEF IInv, UnitOK, Bookkeeping
<1>2. FreePortsOweNothing
  BY DEF IInv, UnitOK, Bookkeeping, FreePortsOweNothing, PortState
<1>3. TypeOK
  BY DEF IInv, UnitOK, ProgramOK, FlitsOK, TypeOK
<1>. QED BY <1>1, <1>2, <1>3

-----------------------------------------------------------------------------
(* Giving a credit to a port keeps the books.                              *)
LEMMA AddCreditKeepsBooks ==
  ASSUME NumChannels <= NumCores, UnitOK,
         NEW port \in Port, NEW state \in PortState,
         state.creditsPending = creditState[port].creditsPending,
         state.useCredits <=> state.source # None,
         creditState[port].useCredits => state.useCredits,
         addCredit(port, state)
  PROVE  UnitOK'
<1> DEFINE new == IF state.useCredits THEN [state EXCEPT !.creditsPending = @ + 1] ELSE state
<1>1. /\ new \in PortState
      /\ new.useCredits = state.useCredits
      /\ new.source = state.source
      /\ new.creditsPending = IF state.useCredits THEN state.creditsPending + 1
                              ELSE state.creditsPending
  BY DEF PortState
<1>2. creditState' = [creditState EXCEPT ![port] = new]
  BY DEF addCredit
<1>3. creditsOutstanding' = creditsOutstanding \cup
        (IF state.useCredits /\ state.creditsPending = 0 THEN {addressToIndex(port)} ELSE {})
  BY DEF addCredit
<1> HIDE DEF new
<1>4. creditState' \in [Port -> PortState]
  BY <1>1, <1>2 DEF UnitOK
<1>5. creditsOutstanding' \subseteq {addressToIndex(p) : p \in Port}
  BY <1>3 DEF UnitOK
<1>6. Bookkeeping'
  <2> SUFFICES ASSUME NEW p \in Port
               PROVE  /\ creditState'[p].useCredits <=> creditState'[p].source # None
                      /\ creditState'[p].creditsPending > 0 => creditState'[p].useCredits
                      /\ addressToIndex(p) \in creditsOutstanding'
                           <=> creditState'[p].creditsPending > 0
    BY DEF Bookkeeping, addressToIndex
  <2>1. CASE p = port
    <3>1. creditState'[p] = new /\ state.creditsPending \in Nat
      BY <1>2, <2>1 DEF UnitOK, PortState
    <3>. QED BY <1>1, <1>3, <2>1, <3>1 DEF UnitOK, Bookkeeping
  <2>2. CASE p # port
    <3>1. creditState'[p] = creditState[p]
      BY <1>2, <2>2 DEF UnitOK
    <3>2. addressToIndex(p) # addressToIndex(port)
      BY <2>2, IndexRoundTrip
    <3>. QED BY <1>3, <3>1, <3>2 DEF UnitOK, Bookkeeping
  <2>. QED BY <2>1, <2>2
<1>. QED BY <1>4, <1>5, <1>6 DEF UnitOK

(* So does sending the credits of a listed port, released or not.          *)
LEMMA SendCreditKeepsBooks ==
  ASSUME NumChannels <= NumCores, UnitOK,
         NEW index \in creditsOutstanding, sendCreditFlit(index)
  PROVE  UnitOK' /\ oCredit' \in CreditFlit
<1>1. PICK port \in Port : index = addressToIndex(port)
  BY DEF UnitOK
<1>2. indexToAddress(index) = port
  BY <1>1, IndexRoundTrip
<1> DEFINE state == creditState[port]
           new == IF state.disconnectPending THEN Free ELSE [state EXCEPT !.creditsPending = 0]
<1>3. state \in PortState /\ state.creditsPending > 0
  BY <1>1 DEF UnitOK, Bookkeeping
<1>4. state.useCredits /\ state.source \in Source
  BY <1>3 DEF UnitOK, Bookkeeping, PortState
<1>5. /\ new \in PortState
      /\ new.useCredits <=> new.source # None
      /\ new.creditsPending = 0
  BY <1>3, <1>4, SourceAssumption DEF PortState, Free
<1>6. /\ creditState' = [creditState EXCEPT ![port] = new]
      /\ creditsOutstanding' = creditsOutstanding \ {index}
      /\ oCredit' = [channel |-> state.source, count |-> state.creditsPending]
  BY <1>2 DEF sendCreditFlit
<1>7. oCredit' \in CreditFlit
  BY <1>3, <1>4, <1>6 DEF CreditFlit, PortState
<1> HIDE DEF new, state
<1>8. /\ creditState' \in [Port -> PortState]
      /\ creditsOutstanding' \subseteq {addressToIndex(p) : p \in Port}
  BY <1>5, <1>6 DEF UnitOK
<1>9. Bookkeeping'
  <2> SUFFICES ASSUME NEW p \in Port
               PROVE  /\ creditState'[p].useCredits <=> creditState'[p].source # None
                      /\ creditState'[p].creditsPending > 0 => creditState'[p].useCredits
                      /\ addressToIndex(p) \in creditsOutstanding'
                           <=> creditState'[p].creditsPending > 0
    BY DEF Bookkeeping, addressToIndex
  <2>1. CASE p = port
    <3>1. creditState'[p] = new /\ addressToIndex(p) \notin creditsOutstanding'
      BY <1>1, <1>6, <2>1 DEF UnitOK
    <3>. QED BY <1>5, <3>1
  <2>2. CASE p # port
    <3>1. creditState'[p] = creditState[p]
      BY <1>6, <2>2 DEF UnitOK
    <3>2. addressToIndex(p) # index
      BY <1>1, <2>2, IndexRoundTrip
    <3>. QED BY <1>6, <3>1, <3>2 DEF UnitOK, Bookkeeping
  <2>. QED BY <2>1, <2>2
<1>. QED BY <1>7, <1>8, <1>9 DEF UnitOK

-----------------------------------------------------------------------------
(* An entry stays an entry, and points where it pointed, through every     *)
(* credit taken or given.                                                  *)
LEMMA CreditsTaken ==
  ASSUME NEW e \in Entry(Port), canSend(e)
  PROVE  removeCredit(e) \in Entry(Port) /\ removeCredit(e).destination = e.destination
<1>1. CASE ~useCredits(e) \/ e.credits = INFINITE_CREDIT_COUNT
  BY <1>1 DEF removeCredit
<1>2. CASE useCredits(e) /\ e.credits # INFINITE_CREDIT_COUNT
  <2>1. e.credits - 1 \in CreditValues
    BY <1>2 DEF canSend, haveNCredits, Entry, CreditValues
  <2>. QED BY <1>2, <2>1 DEF removeCredit, Entry
<1>. QED BY <1>1, <1>2

LEMMA CreditsGiven ==
  ASSUME NEW e \in Entry(Port), NEW n \in Nat
  PROVE  addCredits(e, n) \in Entry(Port) /\ addCredits(e, n).destination = e.destination
<1>1. ASSUME NEW m \in Nat
      PROVE  incrementCredits(e, m) \in Entry(Port)
               /\ incrementCredits(e, m).destination = e.destination
  <2>1. e.credits + m \in Nat
    BY DEF Entry, CreditValues
  <2>2. \A k \in Nat : k % 64 \in 0..63
    OBVIOUS
  <2>3. (e.credits + m) % 64 \in CreditValues
    BY <2>1, <2>2, Zenon DEF CreditValues
  <2>. QED BY <2>3 DEF incrementCredits, Entry
<1>2. CASE ~useCredits(e)
  BY <1>2 DEF addCredits
<1>3. CASE useCredits(e) /\ e.acquired
  BY <1>1, <1>3 DEF addCredits
<1>4. CASE useCredits(e) /\ ~e.acquired
  <2>1. addCredits(e, n) = [incrementCredits(e, 1) EXCEPT !.acquired = (n = 1)]
    BY <1>4 DEF addCredits
  <2> DEFINE i == incrementCredits(e, 1)
  <2>2. i \in Entry(Port) /\ i.destination = e.destination
    BY <1>1
  <2> HIDE DEF i
  <2>3. [i EXCEPT !.acquired = (n = 1)] \in Entry(Port)
    BY <2>2 DEF Entry
  <2>. QED BY <2>1, <2>2, <2>3 DEF i, Entry
<1>. QED BY <1>2, <1>3, <1>4

LEMMA InitInvariant == Init => IInv
<1> SUFFICES ASSUME Init PROVE IInv
  OBVIOUS
<1>1. UnitOK
  BY DEF Init, UnitOK, Bookkeeping, Free, PortState
<1>2. ProgramOK
  BY DEF Init, ProgramOK, Pointed, EmptyEntry, Entry, CreditValues
<1>3. FlitsOK
  BY DEF Init, FlitsOK, NothingAccepted
<1>. QED BY <1>1, <1>2, <1>3 DEF IInv

LEMMA UnitUnchanged == UnitOK /\ UNCHANGED unit => UnitOK'
  PROOF BY DEF UnitOK, Bookkeeping, unit, addressToIndex

LEMMA ProgramUnchanged == ProgramOK /\ UNCHANGED program => ProgramOK'
  PROOF BY DEF ProgramOK, Pointed, program

-----------------------------------------------------------------------------
(* The steps of a program and its pipeline.                                *)
LEMMA ProgramSteps ==
  ASSUME IInv, NEW s \in Source,
         \/ \E port \in Connectable : Connect(s, port)
         \/ Send(s) \/ Pipeline(s) \/ AllCreditsBack(s) \/ ReceiveCredit(s)
  PROVE  IInv'
<1>1. ASSUME NEW port \in Connectable, Connect(s, port) PROVE IInv'
  <2>1. write(cmt[s], port, Capacity, TRUE) \in Entry(Port)
    BY PortAssumption, SizeAssumption
       DEF write, Entry, CreditValues, INFINITE_CREDIT_COUNT
  <2>2. write(cmt[s], port, Capacity, TRUE).destination \in Port
    BY PortAssumption DEF write
  <2>3. ProgramOK'
    BY <1>1, <2>1, <2>2 DEF Connect, IInv, ProgramOK, Pointed
  <2>. QED BY <1>1, <2>3, UnitUnchanged DEF Connect, IInv, FlitsOK
<1>2. ASSUME NEW kind \in {"claim", "data", "release"}, Decode(s, kind) PROVE IInv'
  <2>1. phase[s] \in {"open", "connected"}
    BY <1>2 DEF Decode, Intended
  <2>2. /\ removeCredit(cmt[s]) \in Entry(Port)
        /\ removeCredit(cmt[s]).destination = cmt[s].destination
    BY <1>2, CreditsTaken DEF Decode, IInv, ProgramOK
  <2>3. ProgramOK'
    BY <1>2, <2>1, <2>2 DEF Decode, IInv, ProgramOK, Pointed
  <2>. QED BY <1>2, <2>3, UnitUnchanged DEF Decode, IInv, FlitsOK
<1>3. CASE Execute(s)
  <2>1. FlitOf(s) \in Flit
    BY <1>3 DEF Execute, FlitOf, Flit, IInv, ProgramOK, Pointed
  <2>2. ProgramOK'
    BY <1>3 DEF Execute, IInv, ProgramOK, Pointed
  <2>3. FlitsOK'
    BY <1>3, <2>1 DEF Execute, IInv, FlitsOK
  <2>. QED BY <1>3, <2>2, <2>3, UnitUnchanged DEF Execute, IInv
<1>4. CASE Squash(s)
  <2>1. /\ addCredits(cmt[s], 1) \in Entry(Port)
        /\ addCredits(cmt[s], 1).destination = cmt[s].destination
    BY CreditsGiven DEF IInv, ProgramOK
  <2>2. ProgramOK'
    BY <1>4, <2>1 DEF Squash, IInv, ProgramOK, Pointed
  <2>. QED BY <1>4, <2>2, UnitUnchanged DEF Squash, IInv, FlitsOK
<1>5. CASE AllCreditsBack(s)
  <2>1. ProgramOK'
    BY <1>5 DEF AllCreditsBack, IInv, ProgramOK, Pointed
  <2>. QED BY <1>5, <2>1, UnitUnchanged DEF AllCreditsBack, IInv, FlitsOK
<1>6. CASE ReceiveCredit(s)
  <2>1. Head(creditNet[s]) \in Nat /\ Tail(creditNet[s]) \in Seq(Nat)
    BY <1>6 DEF ReceiveCredit, IInv, FlitsOK
  <2>2. /\ addCredits(cmt[s], Head(creditNet[s])) \in Entry(Port)
        /\ addCredits(cmt[s], Head(creditNet[s])).destination = cmt[s].destination
    BY <2>1, CreditsGiven DEF IInv, ProgramOK
  <2>3. ProgramOK'
    BY <1>6, <2>2 DEF ReceiveCredit, IInv, ProgramOK, Pointed
  <2>4. FlitsOK'
    BY <1>6, <2>1 DEF ReceiveCredit, IInv, FlitsOK
  <2>. QED BY <1>6, <2>3, <2>4, UnitUnchanged DEF ReceiveCredit, IInv
<1>. QED BY <1>1, <1>2, <1>3, <1>4, <1>5, <1>6 DEF Send, Pipeline

(* The steps of the unit and of the networks.                              *)
LEMMA ClaimKeepsBooks ==
  ASSUME NumChannels <= NumCores, UnitOK, NEW flit \in Flit, nackChannel = None,
         handlePortClaim(flit)
  PROVE  UnitOK' /\ nackChannel' \in Source \cup {None}
<1> DEFINE port == flit.port
           state == creditState[port]
<1>1. port \in Port /\ state \in PortState /\ flit.source \in Source
  BY DEF Flit, UnitOK
<1>2. CASE flit.acquired
  <2> DEFINE released == [state EXCEPT !.disconnectPending = TRUE]
  <2>1. /\ addCredit(port, released)
        /\ UNCHANGED nackChannel
    BY <1>2 DEF handlePortClaim
  <2>2. /\ released \in PortState
        /\ released.creditsPending = state.creditsPending
        /\ released.useCredits = state.useCredits
        /\ released.source = state.source
    BY <1>1 DEF PortState
  <2>3. state.useCredits <=> state.source # None
    BY <1>1 DEF UnitOK, Bookkeeping
  <2> HIDE DEF released
  <2>4. UnitOK'
    BY <1>1, <2>1, <2>2, <2>3, AddCreditKeepsBooks
  <2>. QED BY <2>1, <2>4
<1>3. CASE ~flit.acquired /\ state.source = None
  <2> DEFINE claimed == [state EXCEPT !.useCredits = TRUE, !.source = flit.source]
  <2>1. /\ addCredit(port, claimed)
        /\ UNCHANGED nackChannel
    BY <1>3 DEF handlePortClaim, acceptPortClaim
  <2>2. /\ claimed \in PortState
        /\ claimed.creditsPending = state.creditsPending
        /\ claimed.useCredits
        /\ claimed.source # None
    BY <1>1, SourceAssumption DEF PortState
  <2> HIDE DEF claimed
  <2>3. UnitOK'
    BY <1>1, <2>1, <2>2, AddCreditKeepsBooks
  <2>. QED BY <2>1, <2>3
<1>4. CASE ~flit.acquired /\ state.source # None
  <2>1. nackChannel' = flit.source /\ UNCHANGED unit
    BY <1>4 DEF handlePortClaim, rejectPortClaim
  <2>. QED BY <1>1, <2>1, UnitUnchanged
<1>. QED BY <1>2, <1>3, <1>4

LEMMA UnitSteps ==
  ASSUME NumChannels <= NumCores, IInv, Unit
  PROVE  IInv'
<1>1. CASE dataArrived
  <2> DEFINE flit == Head(inBuffer)
  <2>1. flit \in Flit /\ Tail(inBuffer) \in Seq(Flit)
    BY <1>1 DEF dataArrived, IInv, FlitsOK
  <2>2. CASE flit.allocate
    <3>1. UnitOK' /\ nackChannel' \in Source \cup {None}
      BY <1>1, <2>1, <2>2, ClaimKeepsBooks DEF dataArrived, IInv
    <3>2. FlitsOK'
      BY <1>1, <2>1, <2>2, <3>1 DEF dataArrived, IInv, FlitsOK
    <3>. QED BY <1>1, <3>1, <3>2, ProgramUnchanged DEF dataArrived, IInv
  <2>3. CASE ~flit.allocate
    <3>1. FlitsOK'
      BY <1>1, <2>1, <2>3 DEF dataArrived, IInv, FlitsOK
    <3>. QED BY <1>1, <2>3, <3>1, UnitUnchanged, ProgramUnchanged DEF dataArrived, IInv
  <2>. QED BY <2>2, <2>3
<1>2. CASE sendCredits /\ nackChannel # None
  <2>1. FlitsOK'
    BY <1>2 DEF sendCredits, sendNackFlit, IInv, FlitsOK, CreditFlit
  <2>. QED BY <1>2, <2>1, UnitUnchanged, ProgramUnchanged DEF sendCredits, sendNackFlit, IInv
<1>3. CASE sendCredits /\ nackChannel = None
  <2> DEFINE index == selectRequester(creditsOutstanding, lastAccepted)
  <2>1. /\ sendCreditFlit(index)
        /\ creditsOutstanding # {}
        /\ lastAccepted' = lastAfterSelect(creditsOutstanding, lastAccepted)
        /\ UNCHANGED <<program, dataNet, inBuffer, outBuffer, nackChannel, creditNet, inputFIFO>>
    BY <1>3 DEF sendCredits
  <2>2. creditsOutstanding \in SUBSET Nat
    BY IndexRoundTrip DEF IInv, UnitOK
  <2>3. index \in creditsOutstanding /\ lastAccepted' \in Nat
    BY <2>1, <2>2, SelectedIsRequested DEF IInv, FlitsOK
  <2> HIDE DEF index
  <2>4. UnitOK' /\ oCredit' \in CreditFlit
    BY <2>1, <2>3, SendCreditKeepsBooks DEF IInv
  <2>5. FlitsOK'
    BY <2>1, <2>3, <2>4 DEF IInv, FlitsOK
  <2>. QED BY <2>1, <2>4, <2>5, ProgramUnchanged DEF IInv
<1>. QED BY <1>1, <1>2, <1>3 DEF Unit

LEMMA NetworkSteps ==
  ASSUME IInv, Networks \/ \E s \in Source : Arrive(s)
  PROVE  IInv'
<1>1. CASE TakeCredit
  <2>1. FlitsOK'
    BY <1>1 DEF TakeCredit, IInv, FlitsOK, CreditFlit
  <2>. QED BY <1>1, <2>1, UnitUnchanged, ProgramUnchanged DEF TakeCredit, IInv
<1>2. CASE Deliver
  <2>1. outBuffer.port \in Port /\ outBuffer.source \in Source
    BY <1>2 DEF Deliver, IInv, FlitsOK, Flit
  <2>2. inputFIFO' \in [Port -> Seq(Source)]
    BY <1>2, <2>1 DEF Deliver, IInv, FlitsOK
  <2>3. FlitsOK'
    BY <1>2, <2>2 DEF Deliver, IInv, FlitsOK
  <2>. QED BY <1>2, <2>3, UnitUnchanged, ProgramUnchanged DEF Deliver, IInv
<1>3. ASSUME NEW s \in Source, Arrive(s) PROVE IInv'
  <2>1. FlitsOK'
    BY <1>3 DEF Arrive, IInv, FlitsOK
  <2>. QED BY <1>3, <2>1, UnitUnchanged, ProgramUnchanged DEF Arrive, IInv
<1>. QED BY <1>1, <1>2, <1>3 DEF Networks

(* A core that reads a word earns a credit for the port it reads from.     *)
LEMMA ConsumeStep ==
  ASSUME NumChannels <= NumCores, IInv, NEW port \in Port, Consume(port)
  PROVE  IInv'
<1>1. addCredit(port, creditState[port])
  BY IndexRoundTrip DEF Consume
<1>2. UnitOK'
  BY <1>1, AddCreditKeepsBooks DEF IInv, UnitOK, Bookkeeping
<1>3. FlitsOK'
  BY DEF Consume, IInv, FlitsOK
<1>. QED BY <1>2, <1>3, ProgramUnchanged DEF Consume, IInv

-----------------------------------------------------------------------------
LEMMA InvariantHolds ==
  ASSUME NumChannels <= NumCores
  PROVE  Spec => []IInv
<1>1. Init => IInv
  BY InitInvariant
<1>2. IInv /\ [Next]_vars => IInv'
  <2> SUFFICES ASSUME IInv, [Next]_vars PROVE IInv'
    OBVIOUS
  <2>1. CASE UNCHANGED vars
    <3>1. FlitsOK'
      BY <2>1 DEF vars, IInv, FlitsOK
    <3>. QED BY <2>1, <3>1, UnitUnchanged, ProgramUnchanged DEF vars, unit, program, IInv
  <2>2. CASE Next
    BY <2>2, ProgramSteps, UnitSteps, NetworkSteps, ConsumeStep DEF Next
  <2>. QED BY <2>1, <2>2
<1>. QED BY <1>1, <1>2, PTL DEF Spec

(* With no more channels than cores, all state of the connections keeps    *)
(* its type, and credit counters their six bits, whatever programs do.     *)
THEOREM TypesAreKept ==
  ASSUME NumChannels <= NumCores
  PROVE  Spec => []TypeOK
<1>1. IInv => TypeOK
  BY InvariantSuffices
<1>. QED BY <1>1, InvariantHolds, PTL

(* The ports that sendCredits serves use credits, have an owner and owe it *)
(* something: the assertions of sendCreditFlit, which no behaviour of the  *)
(* programs can trip.                                                      *)
THEOREM CreditsSentAreOwed ==
  ASSUME NumChannels <= NumCores
  PROVE  Spec => []SendsOwedCredits
<1>1. IInv => SendsOwedCredits
  BY InvariantSuffices
<1>. QED BY <1>1, InvariantHolds, PTL

(* A port that may be granted owes nothing: the assertion of               *)
(* acceptPortClaim.                                                        *)
THEOREM GrantedPortsOweNothing ==
  ASSUME NumChannels <= NumCores
  PROVE  Spec => []FreePortsOweNothing
<1>1. IInv => FreePortsOweNothing
  BY InvariantSuffices
<1>. QED BY <1>1, InvariantHolds, PTL

-----------------------------------------------------------------------------
(* Counting what sequences hold.                                           *)
LEMMA FromSize ==
  ASSUME NEW q \in Seq(Flit), NEW s
  PROVE  /\ IsFiniteSet(From(q, s)) /\ Cardinality(From(q, s)) \in Nat
         /\ Cardinality(From(q, s)) = 0 <=> \A k \in DOMAIN q : q[k].source # s
<1>1. Len(q) \in Nat /\ DOMAIN q = 1 .. Len(q)
  BY LenProperties
<1>2. IsFiniteSet(1 .. Len(q))
  BY <1>1, FS_Interval
<1>3. From(q, s) \in SUBSET (1 .. Len(q))
  BY <1>1 DEF From
<1>4. IsFiniteSet(From(q, s))
  BY <1>2, <1>3, FS_Subset
<1>. QED BY <1>4, FS_CardinalityType, FS_EmptySet DEF From

(* A flit that arrives is one more of its source.                          *)
LEMMA FromAppend ==
  ASSUME NEW q \in Seq(Flit), NEW f \in Flit, NEW s
  PROVE  Cardinality(From(Append(q, f), s)) = Cardinality(From(q, s)) + One(f.source = s)
<1>1. Len(q) \in Nat /\ DOMAIN q = 1 .. Len(q)
  BY LenProperties
<1>2. Append(q, f) \in Seq(Flit) /\ DOMAIN Append(q, f) = 1 .. Len(q) + 1
  BY AppendProperties, LenProperties
<1>3. \A k \in 1 .. Len(q) + 1 : Append(q, f)[k] = IF k = Len(q) + 1 THEN f ELSE q[k]
  BY <1>1, AppendProperties
<1>4. Len(q) + 1 \notin From(q, s)
  BY <1>1 DEF From
<1>5. CASE f.source = s
  <2>1. From(Append(q, f), s) = From(q, s) \cup {Len(q) + 1}
    BY <1>1, <1>2, <1>3, <1>5 DEF From
  <2>2. Cardinality(From(q, s) \cup {Len(q) + 1}) = Cardinality(From(q, s)) + 1
    BY <1>4, FromSize, FS_AddElement
  <2>3. One(f.source = s) = 1
    BY <1>5 DEF One
  <2>. QED BY <2>1, <2>2, <2>3
<1>6. CASE f.source # s
  <2>1. From(Append(q, f), s) = From(q, s)
    BY <1>1, <1>2, <1>3, <1>6 DEF From
  <2>. QED BY <1>6, <2>1, FromSize DEF One
<1>. QED BY <1>5, <1>6

(* A flit that is taken was one of its source.                             *)
LEMMA FromTail ==
  ASSUME NEW q \in Seq(Flit), q # <<>>, NEW s
  PROVE  Cardinality(From(q, s)) = Cardinality(From(Tail(q), s)) + One(Head(q).source = s)
<1> DEFINE T == From(Tail(q), s)
           S == From(q, s) \ {1}
           up == [k \in T |-> k + 1]
<1>1. Len(q) \in Nat \ {0} /\ DOMAIN q = 1 .. Len(q) /\ Head(q) = q[1]
  BY LenProperties, EmptySeq
<1>2. /\ Tail(q) \in Seq(Flit) /\ DOMAIN Tail(q) = 1 .. Len(q) - 1
      /\ \A k \in 1 .. Len(q) - 1 : Tail(q)[k] = q[k + 1]
  BY HeadTailProperties, LenProperties
<1>3. /\ \A k \in T : k \in Nat /\ k + 1 \in S
      /\ \A k \in S : k \in Nat /\ k - 1 \in T
  BY <1>1, <1>2 DEF From
<1>4. up \in Bijection(T, S)
  <2>1. up \in [T -> S]
    BY <1>3
  <2>2. \A a, b \in T : up[a] = up[b] => a = b
    BY <1>3
  <2>3. \A b \in S : \E a \in T : up[a] = b
    <3> SUFFICES ASSUME NEW b \in S PROVE \E a \in T : up[a] = b
      OBVIOUS
    <3>. QED BY <1>3 DEF up
  <2>. QED BY <2>1, <2>2, <2>3 DEF Bijection, Injection, Surjection, IsInjective
<1>5. Cardinality(S) = Cardinality(T)
  <2>1. ExistsBijection(T, S)
    BY <1>4 DEF ExistsBijection
  <2>. QED BY <1>2, <2>1, FromSize, FS_Bijection
<1>6. 1 \in From(q, s) <=> Head(q).source = s
  BY <1>1 DEF From
<1>7. IsFiniteSet(From(q, s)) /\ Cardinality(From(q, s)) \in Nat /\ Cardinality(T) \in Nat
  BY <1>2, FromSize
<1>8. Cardinality(S) = IF 1 \in From(q, s) THEN Cardinality(From(q, s)) - 1
                       ELSE Cardinality(From(q, s))
  BY <1>7, FS_RemoveElement
<1> HIDE DEF S, T
<1>. QED BY <1>5, <1>6, <1>7, <1>8 DEF One, T

(* A list of credit flits is worth a number, and nothing only when         *)
(* empty.                                                                  *)
LEMMA ReturningSize ==
  ASSUME NEW q \in Seq(Nat)
  PROVE  /\ IsFiniteSet(Returning(q)) /\ Cardinality(Returning(q)) \in Nat
         /\ Cardinality(Returning(q)) = 0 <=> q = <<>>
<1> DEFINE part == [k \in DOMAIN q |-> {k} \X (1 .. Worth(q[k]))]
           parts == {part[k] : k \in DOMAIN q}
<1>1. /\ Len(q) \in Nat /\ DOMAIN q = 1 .. Len(q)
      /\ \A k \in DOMAIN q : q[k] \in Nat /\ Worth(q[k]) \in Nat /\ 1 \in 1 .. Worth(q[k])
  BY LenProperties DEF Worth
<1>2. Returning(q) = UNION parts
  BY DEF Returning
<1>3. IsFiniteSet(parts)
  <2>1. part \in Surjection(DOMAIN q, parts)
    BY DEF Surjection
  <2>2. IsFiniteSet(DOMAIN q)
    BY <1>1, FS_Interval
  <2> HIDE DEF part, parts
  <2>. QED BY <2>1, <2>2, FS_Surjection
<1>4. \A T \in parts : IsFiniteSet(T)
  <2> SUFFICES ASSUME NEW k \in DOMAIN q PROVE IsFiniteSet({k} \X (1 .. Worth(q[k])))
    OBVIOUS
  <2>1. IsFiniteSet({k})
    BY FS_Singleton, Zenon
  <2>2. IsFiniteSet(1 .. Worth(q[k]))
    BY <1>1, FS_Interval
  <2>. QED BY <2>1, <2>2, FS_Product
<1>5. IsFiniteSet(Returning(q))
  <2> HIDE DEF parts
  <2>. QED BY <1>2, <1>3, <1>4, FS_UNION
<1>6. Returning(q) = {} <=> q = <<>>
  <2>1. ASSUME q # <<>> PROVE <<1, 1>> \in Returning(q)
    <3>1. 1 \in DOMAIN q
      BY <1>1, <2>1, EmptySeq
    <3>. QED BY <1>1, <3>1 DEF Returning
  <2>2. q = <<>> => Returning(q) = {}
    BY DEF Returning
  <2>. QED BY <2>1, <2>2
<1>. QED BY <1>5, <1>6, FS_CardinalityType, FS_EmptySet

(* A credit flit sent adds what it is worth to what returns.               *)
LEMMA ReturningAppend ==
  ASSUME NEW q \in Seq(Nat), NEW n \in Nat
  PROVE  Cardinality(Returning(Append(q, n))) = Cardinality(Returning(q)) + Worth(n)
<1> DEFINE last == Len(q) + 1
           P == {last} \X (1 .. Worth(n))
<1>1. Len(q) \in Nat /\ DOMAIN q = 1 .. Len(q) /\ Worth(n) \in Nat
  BY LenProperties DEF Worth
<1>2. /\ Append(q, n) \in Seq(Nat) /\ DOMAIN Append(q, n) = 1 .. last
      /\ \A k \in 1 .. last : Append(q, n)[k] = IF k = last THEN n ELSE q[k]
  BY <1>1, AppendProperties, LenProperties
<1>3. DOMAIN Append(q, n) = DOMAIN q \cup {last} /\ last \notin DOMAIN q
  BY <1>1, <1>2
<1>4. Returning(Append(q, n)) = Returning(q) \cup P
  <2>1. \A k \in DOMAIN q : Append(q, n)[k] = q[k]
    BY <1>1, <1>2
  <2>2. Append(q, n)[last] = n
    BY <1>1, <1>2
  <2> HIDE DEF last
  <2>. QED BY <1>3, <2>1, <2>2 DEF Returning
<1>5. Returning(q) \cap P = {}
  BY <1>3 DEF Returning
<1>6. IsFiniteSet(P) /\ Cardinality(P) = Worth(n)
  <2>1. IsFiniteSet({last}) /\ Cardinality({last}) = 1
    BY FS_Singleton
  <2>2. IsFiniteSet(1 .. Worth(n)) /\ Cardinality(1 .. Worth(n)) = Worth(n)
    <3>1. PICK w \in Nat : w = Worth(n)
      BY <1>1
    <3>2. IsFiniteSet(1 .. w) /\ Cardinality(1 .. w) = w
      BY FS_Interval
    <3>. QED BY <3>1, <3>2, Zenon
  <2>3. /\ IsFiniteSet({last} \X (1 .. Worth(n)))
        /\ Cardinality({last} \X (1 .. Worth(n))) = Cardinality({last}) * Cardinality(1 .. Worth(n))
    <3> HIDE DEF last
    <3>. QED BY <2>1, <2>2, FS_Product
  <2>4. Cardinality({last}) * Cardinality(1 .. Worth(n)) = 1 * Worth(n)
    <3> HIDE DEF last
    <3>. QED BY <2>1, <2>2, Zenon
  <2>5. 1 * Worth(n) = Worth(n)
    BY <1>1
  <2> HIDE DEF last
  <2>. QED BY <2>3, <2>4, <2>5, Zenon
<1> HIDE DEF P
<1>7. Cardinality(Returning(q) \cup P) = Cardinality(Returning(q)) + Cardinality(P) - Cardinality({})
  BY <1>5, <1>6, ReturningSize, FS_Union
<1>. QED BY <1>1, <1>4, <1>6, <1>7, ReturningSize, FS_EmptySet

(* A credit flit taken was worth one credit at least, and no longer        *)
(* returns.                                                                *)
LEMMA ReturningTail ==
  ASSUME NEW q \in Seq(Nat), q # <<>>
  PROVE  Cardinality(Returning(q)) = Cardinality(Returning(Tail(q))) + Worth(Head(q))
<1> DEFINE P == {1} \X (1 .. Worth(Head(q)))
           T == Returning(Tail(q))
           S == Returning(q) \ P
           up == [w \in T |-> <<w[1] + 1, w[2]>>]
<1>1. Len(q) \in Nat \ {0} /\ DOMAIN q = 1 .. Len(q) /\ Head(q) = q[1] /\ Worth(Head(q)) \in Nat \ {0}
  BY LenProperties, EmptySeq, HeadTailProperties DEF Worth
<1>2. /\ Tail(q) \in Seq(Nat) /\ DOMAIN Tail(q) = 1 .. Len(q) - 1
      /\ \A k \in 1 .. Len(q) - 1 : Tail(q)[k] = q[k + 1]
  BY HeadTailProperties, LenProperties
<1>3. \A w \in S : \E k \in 1 .. Len(q) - 1 : \E j \in 1 .. Worth(q[k + 1]) : w = <<k + 1, j>>
  <2> SUFFICES ASSUME NEW w \in S
               PROVE  \E k \in 1 .. Len(q) - 1 : \E j \in 1 .. Worth(q[k + 1]) : w = <<k + 1, j>>
    OBVIOUS
  <2>1. PICK i \in DOMAIN q : w \in {i} \X (1 .. Worth(q[i]))
    BY DEF Returning
  <2>2. PICK j \in 1 .. Worth(q[i]) : w = <<i, j>>
    BY <2>1
  <2>3. i # 1
    BY <1>1, <2>2
  <2>4. i - 1 \in 1 .. Len(q) - 1 /\ i = (i - 1) + 1
    BY <1>1, <2>3
  <2>. QED BY <2>2, <2>4
<1>4. \A w \in T : \E k \in 1 .. Len(q) - 1 : \E j \in 1 .. Worth(q[k + 1]) : w = <<k, j>>
  <2> SUFFICES ASSUME NEW w \in T
               PROVE  \E k \in 1 .. Len(q) - 1 : \E j \in 1 .. Worth(q[k + 1]) : w = <<k, j>>
    OBVIOUS
  <2>1. PICK k \in 1 .. Len(q) - 1 : w \in {k} \X (1 .. Worth(Tail(q)[k]))
    BY <1>2 DEF Returning
  <2>2. PICK j \in 1 .. Worth(Tail(q)[k]) : w = <<k, j>>
    BY <2>1
  <2>. QED BY <1>2, <2>2
<1>5. \A k \in 1 .. Len(q) - 1 : \A j \in 1 .. Worth(q[k + 1]) : <<k, j>> \in T /\ <<k + 1, j>> \in S
  <2> SUFFICES ASSUME NEW k \in 1 .. Len(q) - 1, NEW j \in 1 .. Worth(q[k + 1])
               PROVE  <<k, j>> \in T /\ <<k + 1, j>> \in S
    OBVIOUS
  <2>1. <<k, j>> \in T
    BY <1>2 DEF Returning
  <2>2. k + 1 \in DOMAIN q /\ k + 1 # 1
    BY <1>1
  <2>3. <<k + 1, j>> \in Returning(q)
    BY <2>2 DEF Returning
  <2>. QED BY <2>1, <2>2, <2>3
<1> HIDE DEF S, T
<1>6. up \in Bijection(T, S)
  <2>1. up \in [T -> S]
    <3> SUFFICES ASSUME NEW w \in T PROVE <<w[1] + 1, w[2]>> \in S
      OBVIOUS
    <3>. QED BY <1>4, <1>5
  <2>2. IsInjective(up)
    <3> SUFFICES ASSUME NEW a \in T, NEW b \in T, up[a] = up[b] PROVE a = b
      BY DEF IsInjective
    <3>1. a[1] + 1 = b[1] + 1 /\ a[2] = b[2]
      OBVIOUS
    <3>2. PICK k \in 1 .. Len(q) - 1 : \E j \in 1 .. Worth(q[k + 1]) : a = <<k, j>>
      BY <1>4
    <3>3. PICK m \in 1 .. Len(q) - 1 : \E j \in 1 .. Worth(q[m + 1]) : b = <<m, j>>
      BY <1>4
    <3>. QED BY <1>1, <3>1, <3>2, <3>3
  <2>3. \A b \in S : \E a \in T : up[a] = b
    <3> SUFFICES ASSUME NEW b \in S PROVE \E a \in T : up[a] = b
      OBVIOUS
    <3>1. PICK k \in 1 .. Len(q) - 1 : \E j \in 1 .. Worth(q[k + 1]) : b = <<k + 1, j>>
      BY <1>3
    <3>2. PICK j \in 1 .. Worth(q[k + 1]) : b = <<k + 1, j>>
      BY <3>1
    <3>3. <<k, j>> \in T
      BY <1>5
    <3>. QED BY <3>2, <3>3
  <2> HIDE DEF up
  <2>. QED BY <2>1, <2>2, <2>3 DEF Bijection, Injection, Surjection
<1>7. IsFiniteSet(S) /\ Cardinality(S) = Cardinality(T)
  <2>1. ExistsBijection(T, S)
    BY <1>6 DEF ExistsBijection
  <2>2. IsFiniteSet(T)
    BY <1>2, ReturningSize DEF T
  <2>. QED BY <2>1, <2>2, FS_Bijection
<1>8. IsFiniteSet(P) /\ Cardinality(P) = Worth(Head(q))
  <2>1. IsFiniteSet({1}) /\ Cardinality({1}) = 1
    BY FS_Singleton
  <2>2. IsFiniteSet(1 .. Worth(Head(q))) /\ Cardinality(1 .. Worth(Head(q))) = Worth(Head(q))
    BY <1>1, FS_Interval
  <2>. QED BY <1>1, <2>1, <2>2, FS_Product
<1>9. Returning(q) = S \cup P /\ S \cap P = {}
  <2>1. P \subseteq Returning(q)
    BY <1>1 DEF Returning
  <2>. QED BY <2>1 DEF S
<1>10. Cardinality(T) \in Nat
  BY <1>2, ReturningSize DEF T
<1> HIDE DEF P
<1>11. Cardinality(S \cup P) = Cardinality(S) + Cardinality(P) - Cardinality({})
  BY <1>7, <1>8, <1>9, FS_Union
<1>. QED BY <1>1, <1>7, <1>8, <1>9, <1>10, <1>11, FS_EmptySet DEF T

-----------------------------------------------------------------------------
(* The invariant: for each source, where its credits are and what each     *)
(* flit that carries one means.                                            *)
Target(s) == cmt[s].destination
Owns(s) == Target(s) \in Port /\ creditState[Target(s)].source = s

(* What a program knows of its connection.                                 *)
PhaseOK(s) ==
  LET e == cmt[s] IN
  /\ phase[s] # "idle" => useCredits(e)
  /\ phase[s] = "open" => decoded[s] \in {None, "claim"} /\ ~e.acquired
  /\ phase[s] = "claiming" =>
       /\ e.credits >= Capacity - 1
       /\ e.acquired <=> Owns(s) /\ e.credits = Capacity
  /\ phase[s] = "connected" =>
       /\ decoded[s] \in {None, "data", "release"} /\ e.acquired /\ Owns(s)
       /\ decoded[s] = "release" => e.credits = Capacity - 1
  /\ phase[s] = "leaving" =>
       /\ e.acquired /\ e.credits >= Capacity - 1
       /\ Owns(s) => e.credits = Capacity - 1

(* The ports of a source: at most the one it points at.  A release counts  *)
(* as pending as soon as its credit is owed, and finds no word unread.     *)
OwnedOK(s) ==
  \A p \in Port : creditState[p].source = s =>
    /\ Target(s) = p /\ phase[s] \in {"claiming", "connected", "leaving"}
    /\ creditState[p].disconnectPending =>
         phase[s] = "leaving" /\ creditState[p].creditsPending > 0
    /\ phase[s] = "leaving" /\ creditState[p].creditsPending > 0 => creditState[p].disconnectPending
    /\ \A k \in DOMAIN inputFIFO[p] : inputFIFO[p][k] = s /\ phase[s] = "connected"

(* The flits of a source on their way to the unit.                         *)
FlitOK(s, f) ==
  /\ f.port = Target(s)
  /\ \/ phase[s] = "claiming" /\ f.allocate /\ ~f.acquired /\ ~Owns(s)
     \/ phase[s] = "connected" /\ ~f.allocate
     \/ phase[s] = "leaving" /\ f.allocate /\ f.acquired /\ Owns(s)

OnTheWayOK(s) ==
  /\ \A k \in DOMAIN dataNet[s] : dataNet[s][k].source = s /\ FlitOK(s, dataNet[s][k])
  /\ \A k \in From(inBuffer, s) : FlitOK(s, inBuffer[k])
  /\ PassedFrom(s) => FlitOK(s, outBuffer) /\ ~outBuffer.allocate

(* What a credit flit means to the source it is for.                       *)
AnswerOK(s, count) ==
  \/ phase[s] = "claiming" /\ count = One(Owns(s))
  \/ phase[s] = "connected" /\ count > 0
  \/ phase[s] = "leaving" /\ count = 1 /\ ~Owns(s)

AnswersOK(s) ==
  /\ nackChannel = s => phase[s] = "claiming" /\ ~Owns(s)
  /\ oCredit # None /\ oCredit.channel = s => AnswerOK(s, oCredit.count)
  /\ \A k \in DOMAIN creditNet[s] : AnswerOK(s, creditNet[s][k])

(* Where the credits of a source are.                                      *)
Buffered(s) == Cardinality(From(inBuffer, s))
UnreadAt(s) == IF Owns(s) THEN Len(inputFIFO[Target(s)]) ELSE 0
OwedAt(s) == IF Owns(s) THEN creditState[Target(s)].creditsPending ELSE 0
Leaving(s) == IF oCredit # None /\ oCredit.channel = s THEN Worth(oCredit.count) ELSE 0
Coming(s) == Cardinality(Returning(creditNet[s]))

Spent(s) ==
  One(decoded[s] # None) + Len(dataNet[s]) + Buffered(s) + One(PassedFrom(s))
    + UnreadAt(s) + OwedAt(s) + One(nackChannel = s) + Leaving(s) + Coming(s)

Conserved(s) == useCredits(cmt[s]) => cmt[s].credits + Spent(s) = Capacity

ConnectionOK(s) == PhaseOK(s) /\ OwnedOK(s) /\ OnTheWayOK(s) /\ AnswersOK(s) /\ Conserved(s)

FreePortsOK ==
  \A p \in Port : creditState[p].source = None =>
    ~creditState[p].disconnectPending /\ inputFIFO[p] = <<>>

CInv == IInv /\ FreePortsOK /\ \A s \in Source : ConnectionOK(s)

-----------------------------------------------------------------------------
(* All amounts are natural numbers; one that is 0 is of nothing.           *)
LEMMA Amounts ==
  ASSUME IInv, NEW s \in Source
  PROVE  /\ cmt[s].credits \in 0 .. 63
         /\ One(decoded[s] # None) \in {0, 1} /\ (One(decoded[s] # None) = 0 <=> decoded[s] = None)
         /\ Len(dataNet[s]) \in Nat /\ (Len(dataNet[s]) = 0 <=> dataNet[s] = <<>>)
         /\ Buffered(s) \in Nat /\ (Buffered(s) = 0 <=> From(inBuffer, s) = {})
         /\ One(PassedFrom(s)) \in {0, 1} /\ (One(PassedFrom(s)) = 0 <=> ~PassedFrom(s))
         /\ UnreadAt(s) \in Nat
         /\ OwedAt(s) \in Nat
         /\ One(nackChannel = s) \in {0, 1} /\ (One(nackChannel = s) = 0 <=> nackChannel # s)
         /\ Leaving(s) \in Nat /\ (Leaving(s) = 0 <=> ~(oCredit # None /\ oCredit.channel = s))
         /\ Coming(s) \in Nat /\ (Coming(s) = 0 <=> creditNet[s] = <<>>)
<1> USE DEF IInv, ProgramOK, FlitsOK, UnitOK
<1>1. cmt[s].credits \in 0 .. 63
  BY DEF Entry, CreditValues
<1>2. \A condition : One(condition) \in {0, 1} /\ (One(condition) = 0 <=> ~condition)
  BY DEF One
<1>3. Len(dataNet[s]) \in Nat /\ (Len(dataNet[s]) = 0 <=> dataNet[s] = <<>>)
  <2>1. dataNet[s] \in Seq(Flit)
    OBVIOUS
  <2>. QED BY <2>1, LenProperties, EmptySeq
<1>4. Buffered(s) \in Nat /\ (Buffered(s) = 0 <=> From(inBuffer, s) = {})
  <2>1. inBuffer \in Seq(Flit)
    OBVIOUS
  <2>. QED BY <2>1, FromSize, FS_EmptySet DEF Buffered
<1>5. UnreadAt(s) \in Nat
  <2>1. ASSUME Owns(s) PROVE inputFIFO[Target(s)] \in Seq(Source)
    BY <2>1 DEF Owns
  <2>. QED BY <2>1, LenProperties DEF UnreadAt
<1>6. OwedAt(s) \in Nat
  BY DEF OwedAt, Owns, PortState
<1>7. Leaving(s) \in Nat /\ (Leaving(s) = 0 <=> ~(oCredit # None /\ oCredit.channel = s))
  BY DEF Leaving, Worth, CreditFlit
<1>8. Coming(s) \in Nat /\ (Coming(s) = 0 <=> creditNet[s] = <<>>)
  <2>1. creditNet[s] \in Seq(Nat)
    OBVIOUS
  <2>. QED BY <2>1, ReturningSize DEF Coming
<1>. QED BY <1>1, <1>2, <1>3, <1>4, <1>5, <1>6, <1>7, <1>8, Zenon

(* The spent credits of a source lie in nine places, each with a number    *)
(* of them.                                                                *)
LEMMA NineShares ==
  ASSUME IInv, NEW s \in Source
  PROVE  \E a, b, c, d, e, f, g, h, i \in Nat :
           /\ One(decoded[s] # None) = a /\ Len(dataNet[s]) = b /\ Buffered(s) = c
           /\ One(PassedFrom(s)) = d /\ UnreadAt(s) = e /\ OwedAt(s) = f
           /\ One(nackChannel = s) = g /\ Leaving(s) = h /\ Coming(s) = i
           /\ Spent(s) = a + b + c + d + e + f + g + h + i
<1>1. One(decoded[s] # None) \in Nat /\ One(PassedFrom(s)) \in Nat /\ One(nackChannel = s) \in Nat
  BY DEF One
<1>2. /\ Len(dataNet[s]) \in Nat /\ Buffered(s) \in Nat /\ UnreadAt(s) \in Nat /\ OwedAt(s) \in Nat
      /\ Leaving(s) \in Nat /\ Coming(s) \in Nat
  BY Amounts, Zenon
<1>3. PICK a \in Nat, b \in Nat, c \in Nat, d \in Nat :
        One(decoded[s] # None) = a /\ Len(dataNet[s]) = b /\ Buffered(s) = c /\ One(PassedFrom(s)) = d
  BY <1>1, <1>2, Zenon
<1>4. PICK e \in Nat, f \in Nat, g \in Nat, h \in Nat, i \in Nat :
        UnreadAt(s) = e /\ OwedAt(s) = f /\ One(nackChannel = s) = g /\ Leaving(s) = h /\ Coming(s) = i
  BY <1>1, <1>2, Zenon
<1>5. Spent(s) = a + b + c + d + e + f + g + h + i
  BY <1>3, <1>4, Zenon DEF Spent
<1> WITNESS a \in Nat, b \in Nat, c \in Nat, d \in Nat, e \in Nat, f \in Nat, g \in Nat, h \in Nat,
            i \in Nat
<1>. QED BY <1>3, <1>4, <1>5

(* A source has credits nowhere but in its counter and, perhaps, place.    *)
NowhereBut(s, place) ==
  /\ place # "pipeline" => decoded[s] = None
  /\ place # "network" => dataNet[s] = <<>>
  /\ place # "buffer" => From(inBuffer, s) = {}
  /\ place # "output" => ~PassedFrom(s)
  /\ place # "FIFO" => UnreadAt(s) = 0
  /\ place # "port" => OwedAt(s) = 0
  /\ place # "refusal" => nackChannel # s
  /\ place # "credit" => ~(oCredit # None /\ oCredit.channel = s)
  /\ place # "return" => creditNet[s] = <<>>

(* A source that has spent one credit has it in one place, and all         *)
(* others are empty.                                                       *)
LEMMA Spending ==
  ASSUME IInv, NEW s \in Source
  PROVE  /\ Spent(s) \in Nat
         /\ Spent(s) = 0 => NowhereBut(s, "nowhere")
         /\ Spent(s) = 1 => /\ \E place : NowhereBut(s, place)
                            /\ Buffered(s) <= 1 /\ OwedAt(s) <= 1 /\ Len(dataNet[s]) <= 1
<1> DEFINE a == One(decoded[s] # None)
           b == Len(dataNet[s])
           c == Buffered(s)
           d == One(PassedFrom(s))
           e == UnreadAt(s)
           f == OwedAt(s)
           g == One(nackChannel = s)
           h == Leaving(s)
           i == Coming(s)
<1>1. Spent(s) = a + b + c + d + e + f + g + h + i
  BY DEF Spent
<1>2. /\ a \in {0, 1} /\ b \in Nat /\ c \in Nat /\ d \in {0, 1} /\ e \in Nat /\ f \in Nat
      /\ g \in {0, 1} /\ h \in Nat /\ i \in Nat
  BY Amounts, Zenon
<1>3. /\ a = 0 <=> decoded[s] = None
      /\ b = 0 <=> dataNet[s] = <<>>
      /\ c = 0 <=> From(inBuffer, s) = {}
      /\ d = 0 <=> ~PassedFrom(s)
      /\ g = 0 <=> nackChannel # s
      /\ h = 0 <=> ~(oCredit # None /\ oCredit.channel = s)
      /\ i = 0 <=> creditNet[s] = <<>>
  BY Amounts, Zenon
<1>4. e = UnreadAt(s) /\ f = OwedAt(s) /\ c = Buffered(s) /\ b = Len(dataNet[s])
  OBVIOUS
<1> HIDE DEF a, b, c, d, e, f, g, h, i
<1>5. Spent(s) \in Nat
  BY <1>1, <1>2
<1>6. ASSUME Spent(s) = 0 PROVE NowhereBut(s, "nowhere")
  <2>1. a = 0 /\ b = 0 /\ c = 0 /\ d = 0 /\ e = 0 /\ f = 0 /\ g = 0 /\ h = 0 /\ i = 0
    BY <1>1, <1>2, <1>6
  <2>. QED BY <1>3, <1>4, <2>1 DEF NowhereBut
<1>7. ASSUME Spent(s) = 1
      PROVE  /\ \E place : NowhereBut(s, place)
             /\ Buffered(s) <= 1 /\ OwedAt(s) <= 1 /\ Len(dataNet[s]) <= 1
  <2> DEFINE place == CASE a # 0 -> "pipeline" [] b # 0 -> "network" [] c # 0 -> "buffer"
                        [] d # 0 -> "output" [] e # 0 -> "FIFO" [] f # 0 -> "port"
                        [] g # 0 -> "refusal" [] h # 0 -> "credit" [] OTHER -> "return"
  <2>1. /\ a # 0 => b = 0 /\ c = 0 /\ d = 0 /\ e = 0 /\ f = 0 /\ g = 0 /\ h = 0 /\ i = 0
        /\ b # 0 => a = 0 /\ c = 0 /\ d = 0 /\ e = 0 /\ f = 0 /\ g = 0 /\ h = 0 /\ i = 0
        /\ c # 0 => a = 0 /\ b = 0 /\ d = 0 /\ e = 0 /\ f = 0 /\ g = 0 /\ h = 0 /\ i = 0
        /\ d # 0 => a = 0 /\ b = 0 /\ c = 0 /\ e = 0 /\ f = 0 /\ g = 0 /\ h = 0 /\ i = 0
        /\ e # 0 => a = 0 /\ b = 0 /\ c = 0 /\ d = 0 /\ f = 0 /\ g = 0 /\ h = 0 /\ i = 0
        /\ f # 0 => a = 0 /\ b = 0 /\ c = 0 /\ d = 0 /\ e = 0 /\ g = 0 /\ h = 0 /\ i = 0
        /\ g # 0 => a = 0 /\ b = 0 /\ c = 0 /\ d = 0 /\ e = 0 /\ f = 0 /\ h = 0 /\ i = 0
        /\ h # 0 => a = 0 /\ b = 0 /\ c = 0 /\ d = 0 /\ e = 0 /\ f = 0 /\ g = 0 /\ i = 0
        /\ b <= 1 /\ c <= 1 /\ f <= 1
    BY <1>1, <1>2, <1>7
  <2>2. /\ place # "pipeline" => a = 0
        /\ place # "network" => b = 0
        /\ place # "buffer" => c = 0
        /\ place # "output" => d = 0
        /\ place # "FIFO" => e = 0
        /\ place # "port" => f = 0
        /\ place # "refusal" => g = 0
        /\ place # "credit" => h = 0
        /\ place # "return" => i = 0
    BY <2>1
  <2> HIDE DEF place
  <2>3. NowhereBut(s, place)
    BY <1>3, <1>4, <2>2 DEF NowhereBut
  <2>. QED BY <1>4, <2>1, <2>3
<1>. QED BY <1>5, <1>6, <1>7

(* In a phase without a connection a source has nothing on its way.        *)
LEMMA Quiet ==
  ASSUME CInv, NEW s \in Source, phase[s] \in {"idle", "open"}
  PROVE  /\ dataNet[s] = <<>> /\ From(inBuffer, s) = {} /\ ~PassedFrom(s) /\ nackChannel # s
         /\ ~(oCredit # None /\ oCredit.channel = s) /\ creditNet[s] = <<>> /\ ~Owns(s)
         /\ \A p \in Port : creditState[p].source # s
         /\ Spent(s) = One(decoded[s] # None)
<1> USE DEF CInv, ConnectionOK
<1>1. (\A p \in Port : creditState[p].source # s) /\ ~Owns(s)
  BY DEF OwnedOK, Owns
<1>2. \A f : ~FlitOK(s, f)
  BY DEF FlitOK
<1>3. \A n : ~AnswerOK(s, n)
  BY DEF AnswerOK
<1>4. dataNet[s] = <<>>
  <2>1. Len(dataNet[s]) \in Nat /\ DOMAIN dataNet[s] = 1 .. Len(dataNet[s])
    BY LenProperties DEF IInv, FlitsOK
  <2>2. 1 \notin DOMAIN dataNet[s]
    BY <1>2 DEF OnTheWayOK
  <2>. QED BY <2>1, <2>2, Amounts
<1>5. creditNet[s] = <<>>
  <2>1. Len(creditNet[s]) \in Nat /\ DOMAIN creditNet[s] = 1 .. Len(creditNet[s])
    BY LenProperties DEF IInv, FlitsOK
  <2>2. 1 \notin DOMAIN creditNet[s]
    BY <1>3 DEF AnswersOK
  <2>3. creditNet[s] \in Seq(Nat)
    BY DEF IInv, FlitsOK
  <2>. QED BY <2>1, <2>2, <2>3, EmptySeq
<1>6. /\ From(inBuffer, s) = {} /\ ~PassedFrom(s) /\ nackChannel # s
      /\ ~(oCredit # None /\ oCredit.channel = s)
  BY <1>2, <1>3 DEF OnTheWayOK, AnswersOK
<1>7. UnreadAt(s) = 0 /\ OwedAt(s) = 0
  BY <1>1 DEF UnreadAt, OwedAt
<1>8. /\ Len(dataNet[s]) = 0 /\ Buffered(s) = 0 /\ One(PassedFrom(s)) = 0 /\ One(nackChannel = s) = 0
      /\ Leaving(s) = 0 /\ Coming(s) = 0 /\ One(decoded[s] # None) \in {0, 1}
  BY <1>4, <1>5, <1>6, Amounts
<1>9. Spent(s) = One(decoded[s] # None)
  BY <1>7, <1>8 DEF Spent
<1>. QED BY <1>1, <1>4, <1>5, <1>6, <1>9

(* A step that is none of a source's business leaves its connection as it  *)
(* was.                                                                    *)
Untouched(t) ==
  /\ UNCHANGED <<cmt[t], phase[t], decoded[t], dataNet[t], creditNet[t]>>
  /\ \A p \in Port : creditState[p].source = t \/ creditState'[p].source = t =>
       UNCHANGED <<creditState[p], inputFIFO[p]>>
  /\ Buffered(t)' = Buffered(t)
  /\ \A k \in From(inBuffer, t)' : \E j \in From(inBuffer, t) : inBuffer'[k] = inBuffer[j]
  /\ PassedFrom(t)' = PassedFrom(t) /\ (PassedFrom(t) => UNCHANGED outBuffer)
  /\ (nackChannel = t)' = (nackChannel = t)
  /\ (oCredit # None /\ oCredit.channel = t)' = (oCredit # None /\ oCredit.channel = t)
  /\ oCredit # None /\ oCredit.channel = t => UNCHANGED oCredit

(* A source nothing of which changes stays as it was.                      *)
LEMMA UntouchedKeeps ==
  ASSUME NEW t \in Source, ConnectionOK(t), Untouched(t)
  PROVE  ConnectionOK(t)'
<1> USE DEF ConnectionOK, Untouched
<1>1. Target(t)' = Target(t) /\ Owns(t)' = Owns(t)
  BY DEF Target, Owns
<1>2. UnreadAt(t)' = UnreadAt(t) /\ OwedAt(t)' = OwedAt(t)
  BY <1>1 DEF UnreadAt, OwedAt, Owns
<1>3. \A f : FlitOK(t, f)' = FlitOK(t, f)
  BY <1>1 DEF FlitOK
<1>4. \A n : AnswerOK(t, n)' = AnswerOK(t, n)
  BY <1>1 DEF AnswerOK
<1>5. PhaseOK(t)'
  BY <1>1 DEF PhaseOK
<1>6. OwnedOK(t)'
  BY <1>1 DEF OwnedOK
<1>7. OnTheWayOK(t)'
  BY <1>3 DEF OnTheWayOK
<1>8. AnswersOK(t)'
  BY <1>1, <1>4 DEF AnswersOK
<1>9. Conserved(t)'
  <2>1. Leaving(t)' = Leaving(t) /\ Coming(t)' = Coming(t)
    BY DEF Leaving, Coming, Returning
  <2>. QED BY <1>2, <2>1 DEF Conserved, Spent
<1>. QED BY <1>5, <1>6, <1>7, <1>8, <1>9

-----------------------------------------------------------------------------
(* Taking and giving credits, while the counter does not overflow.         *)
LEMMA CreditTaken ==
  ASSUME NEW e \in Entry(Port), useCredits(e), canSend(e), e.credits <= Capacity
  PROVE  /\ removeCredit(e).credits = e.credits - 1 /\ e.credits > 0
         /\ removeCredit(e).acquired = e.acquired
         /\ removeCredit(e).destination = e.destination
         /\ useCredits(removeCredit(e))
<1>1. e.credits \in 0 .. 63 /\ e.credits <= 62 /\ e.credits >= 1
  BY SizeAssumption DEF Entry, CreditValues, INFINITE_CREDIT_COUNT, canSend, haveNCredits
<1>2. removeCredit(e) = [e EXCEPT !.credits = @ - 1]
  BY <1>1 DEF removeCredit, INFINITE_CREDIT_COUNT
<1>. QED BY <1>1, <1>2 DEF Entry, useCredits

(* What addCredits does to a counter below the infinite count, without     *)
(* wrapping.                                                               *)
LEMMA CreditGiven ==
  ASSUME NEW e \in Entry(Port), useCredits(e), NEW n \in Nat,
         NEW m \in Nat, m = IF e.acquired THEN n ELSE 1, e.credits + m <= Capacity
  PROVE  /\ addCredits(e, n).credits = e.credits + m
         /\ addCredits(e, n).acquired <=> e.acquired \/ n = 1
         /\ addCredits(e, n).destination = e.destination
         /\ useCredits(addCredits(e, n))
<1>1. e.credits \in 0 .. 63 /\ Capacity \in 1 .. 62
  BY SizeAssumption DEF Entry, CreditValues, INFINITE_CREDIT_COUNT
<1>2. e.credits # 63 /\ e.credits + m \in 0 .. 62
  BY <1>1
<1>3. (e.credits + m) % 64 = e.credits + m
  BY <1>2
<1>4. incrementCredits(e, m) = [e EXCEPT !.credits = e.credits + m]
  BY <1>2, <1>3 DEF incrementCredits, INFINITE_CREDIT_COUNT
<1>5. CASE e.acquired
  <2>1. addCredits(e, n) = [e EXCEPT !.credits = e.credits + m]
    BY <1>4, <1>5 DEF addCredits
  <2>. QED BY <1>5, <2>1 DEF Entry, useCredits
<1>6. CASE ~e.acquired
  <2> DEFINE i == incrementCredits(e, 1)
  <2>1. /\ i.credits = e.credits + m /\ i.destination = e.destination /\ i.network = e.network
        /\ i \in [network : {"MULTICAST", "GLOBAL"}, destination : Port \cup {None}, credits : Nat,
                  acquired : BOOLEAN]
    BY <1>2, <1>4, <1>6 DEF Entry
  <2>2. addCredits(e, n) = [i EXCEPT !.acquired = (n = 1)]
    BY <1>6 DEF addCredits
  <2> HIDE DEF i
  <2>3. addCredits(e, n).acquired = (n = 1)
    BY <2>1, <2>2
  <2>4. /\ addCredits(e, n).credits = i.credits /\ addCredits(e, n).destination = i.destination
        /\ addCredits(e, n).network = i.network
    BY <2>1, <2>2
  <2>. QED BY <1>6, <2>1, <2>3, <2>4 DEF useCredits
<1>. QED BY <1>5, <1>6

-----------------------------------------------------------------------------
(* A step of one program, its pipeline or its credits concerns its own     *)
(* connection only.                                                        *)
LEMMA OwnSteps ==
  ASSUME CInv, NEW s \in Source,
         UNCHANGED <<creditState, inputFIFO, inBuffer, outBuffer, nackChannel, oCredit>>,
         \A t \in Source \ {s} :
           UNCHANGED <<cmt[t], phase[t], decoded[t], dataNet[t], creditNet[t]>>,
         IInv', ConnectionOK(s)'
  PROVE  CInv'
<1>1. ASSUME NEW t \in Source \ {s} PROVE ConnectionOK(t)'
  <2>1. Untouched(t)
    BY DEF Untouched, Buffered, From, PassedFrom
  <2>. QED BY <2>1, UntouchedKeeps DEF CInv
<1>2. FreePortsOK'
  BY DEF CInv, FreePortsOK
<1>. QED BY <1>1, <1>2 DEF CInv

(* A setchmap on a channel in no use leaves all connections in order.      *)
LEMMA ConnectKeeps ==
  ASSUME CInv, IInv', NEW s \in Source, NEW p \in Connectable, Connect(s, p)
  PROVE  CInv'
<1>1. /\ phase[s] \in {"idle", "open"} /\ decoded[s] = None
      /\ cmt' = [cmt EXCEPT ![s] = write(@, p, Capacity, TRUE)]
      /\ phase' = [phase EXCEPT ![s] = "open"]
      /\ UNCHANGED <<decoded, dataNet, inBuffer, outBuffer, creditState, nackChannel, oCredit,
                     creditNet, inputFIFO>>
  BY DEF Connect, unit
<1>2. /\ useCredits(cmt'[s]) /\ cmt'[s].credits = Capacity /\ ~cmt'[s].acquired
      /\ cmt'[s].destination = p /\ phase'[s] = "open" /\ decoded'[s] = None
  BY <1>1 DEF write, useCredits, CInv, IInv, ProgramOK
<1>3. PhaseOK(s)'
  BY <1>2 DEF PhaseOK
<1>4. OwnedOK(s)' /\ ~Owns(s)'
  BY <1>1, Quiet DEF OwnedOK, Owns
<1>5. OnTheWayOK(s)'
  BY <1>1, Quiet DEF OnTheWayOK, From, PassedFrom
<1>6. AnswersOK(s)'
  BY <1>1, Quiet DEF AnswersOK
<1>7. Conserved(s)'
  <2>1. Spent(s) = 0
    BY <1>1, Quiet DEF One
  <2>2. Spent(s)' = Spent(s)
    BY <1>1, <1>4, Quiet DEF Spent, Buffered, UnreadAt, OwedAt, Leaving, Coming, PassedFrom
  <2>. QED BY <1>2, <2>1, <2>2, SizeAssumption DEF Conserved, INFINITE_CREDIT_COUNT
<1>8. ConnectionOK(s)'
  BY <1>3, <1>4, <1>5, <1>6, <1>7 DEF ConnectionOK
<1>. QED BY <1>1, <1>8, OwnSteps DEF CInv, IInv, ProgramOK

(* What a source in a connection has left, and what it has spent.          *)
LEMMA Balance ==
  ASSUME CInv, NEW s \in Source, phase[s] # "idle"
  PROVE  /\ cmt[s] \in Entry(Port) /\ useCredits(cmt[s]) /\ cmt[s].credits \in Nat
         /\ Spent(s) \in Nat /\ Capacity \in Nat \ {0}
         /\ cmt[s].credits + Spent(s) = Capacity /\ cmt[s].credits <= Capacity
<1>1. cmt[s] \in Entry(Port) /\ useCredits(cmt[s]) /\ cmt[s].credits \in Nat
  <2>1. IInv /\ PhaseOK(s)
    BY DEF CInv, ConnectionOK
  <2>2. cmt[s] \in Entry(Port) /\ useCredits(cmt[s])
    BY <2>1 DEF PhaseOK, IInv, ProgramOK
  <2>. QED BY <2>2 DEF Entry, CreditValues
<1>2. Spent(s) \in Nat /\ Capacity \in Nat \ {0}
  BY Spending, SizeAssumption DEF CInv, INFINITE_CREDIT_COUNT
<1>3. cmt[s].credits + Spent(s) = Capacity
  BY <1>1 DEF CInv, ConnectionOK, Conserved
<1>. QED BY <1>1, <1>2, <1>3

(* The shares of the others stay what they were.                           *)
LEMMA OwnSpending ==
  ASSUME IInv, IInv', NEW s \in Source,
         UNCHANGED <<creditState, inputFIFO, inBuffer, outBuffer, nackChannel, oCredit>>,
         Target(s)' = Target(s), Owns(s)' = Owns(s)
  PROVE  /\ Spent(s) \in Nat /\ Spent(s)' \in Nat
         /\ One(decoded[s] # None) \in Nat /\ Len(dataNet[s]) \in Nat /\ Coming(s) \in Nat
         /\ One(decoded[s] # None)' \in Nat /\ Len(dataNet[s])' \in Nat /\ Coming(s)' \in Nat
         /\ Spent(s)' + One(decoded[s] # None) + Len(dataNet[s]) + Coming(s)
              = Spent(s) + One(decoded[s] # None)' + Len(dataNet[s])' + Coming(s)'
<1> DEFINE a == One(decoded[s] # None)
           b == Len(dataNet[s])
           c == Buffered(s)
           d == One(PassedFrom(s))
           e == UnreadAt(s)
           f == OwedAt(s)
           g == One(nackChannel = s)
           h == Leaving(s)
           i == Coming(s)
           total == Spent(s)
<1>1. /\ total = a + b + c + d + e + f + g + h + i
      /\ total' = a' + b' + c' + d' + e' + f' + g' + h' + i'
  BY DEF Spent
<1>2. /\ a \in {0, 1} /\ b \in Nat /\ c \in Nat /\ d \in {0, 1} /\ e \in Nat /\ f \in Nat
      /\ g \in {0, 1} /\ h \in Nat /\ i \in Nat
  BY Amounts, Zenon
<1>3. a' \in {0, 1} /\ b' \in Nat /\ i' \in Nat
  <2>1. a' \in {0, 1}
    BY DEF One
  <2>2. dataNet'[s] \in Seq(Flit) /\ creditNet'[s] \in Seq(Nat)
    BY DEF IInv, FlitsOK
  <2>. QED BY <2>1, <2>2, LenProperties, ReturningSize DEF Coming
<1>4. c' = c /\ d' = d /\ e' = e /\ f' = f /\ g' = g /\ h' = h
  BY DEF Buffered, PassedFrom, UnreadAt, OwedAt, Leaving
<1>5. a \in Nat /\ a' \in Nat
  BY <1>2, <1>3
<1>. HIDE DEF a, b, c, d, e, f, g, h, i, total
<1>6. PICK x \in Nat, y \in Nat, z \in Nat, x2 \in Nat, y2 \in Nat, z2 \in Nat, r \in Nat :
        /\ a = x /\ b = y /\ i = z /\ a' = x2 /\ b' = y2 /\ i' = z2
        /\ r = c + d + e + f + g + h
  <2>1. c + d + e + f + g + h \in Nat
    BY <1>2
  <2>. QED BY <1>2, <1>3, <1>5, <2>1, Zenon
<1>7. total = x + y + z + r
  BY <1>1, <1>2, <1>6
<1>8. total' = x2 + y2 + z2 + r
  <2>1. total' = x2 + y2 + c + d + e + f + g + h + z2
    BY <1>1, <1>4, <1>6
  <2>. QED BY <1>2, <1>6, <2>1
<1>9. /\ x + y + z + r \in Nat /\ x2 + y2 + z2 + r \in Nat
      /\ (x2 + y2 + z2 + r) + x + y + z = (x + y + z + r) + x2 + y2 + z2
  OBVIOUS
<1>10. total \in Nat /\ total' \in Nat /\ total' + a + b + i = total + a' + b' + i'
  BY <1>6, <1>7, <1>8, <1>9, Zenon
<1>. QED BY <1>2, <1>3, <1>5, <1>10, Zenon DEF a, b, i, total

(* So does a decoded instruction, which takes a credit ahead of its        *)
(* flit.                                                                   *)
LEMMA DecodeKeeps ==
  ASSUME DrainBeforeRelease, CInv, IInv', NEW s \in Source,
         NEW kind \in {"claim", "data", "release"}, Decode(s, kind)
  PROVE  CInv'
<1> DEFINE e == cmt[s]
<1>1. /\ decoded[s] = None /\ Intended(s, kind) /\ canSend(e)
      /\ cmt' = [cmt EXCEPT ![s] = removeCredit(@)]
      /\ decoded' = [decoded EXCEPT ![s] = kind]
      /\ UNCHANGED <<phase, dataNet, inBuffer, outBuffer, creditState, nackChannel, oCredit,
                     creditNet, inputFIFO>>
  BY DEF Decode, unit
<1>2. /\ kind = "claim" => phase[s] = "open"
      /\ kind \in {"data", "release"} => phase[s] = "connected"
      /\ kind = "release" => haveNCredits(e, Capacity)
      /\ phase[s] \in {"open", "connected"}
  BY <1>1 DEF Intended
<1>3. /\ e \in Entry(Port) /\ useCredits(e) /\ e.credits \in Nat /\ e.credits <= Capacity
      /\ Spent(s) \in Nat /\ Capacity \in Nat /\ e.credits + Spent(s) = Capacity
  BY <1>2, Balance
<1>4. cmt'[s] = removeCredit(e) /\ decoded'[s] = kind
  BY <1>1 DEF CInv, IInv, ProgramOK
<1>5. /\ cmt'[s].credits = e.credits - 1 /\ e.credits > 0 /\ cmt'[s].acquired = e.acquired
      /\ cmt'[s].destination = e.destination /\ useCredits(cmt'[s])
  BY <1>1, <1>3, <1>4, CreditTaken
<1>6. Target(s)' = Target(s) /\ Owns(s)' = Owns(s)
  BY <1>1, <1>5 DEF Target, Owns
<1>7. PhaseOK(s)'
  <2>1. PhaseOK(s)
    BY DEF CInv, ConnectionOK
  <2>2. kind = "release" => e.credits = Capacity
    BY <1>2, <1>3 DEF haveNCredits
  <2>. QED BY <1>1, <1>2, <1>3, <1>4, <1>5, <1>6, <2>1, <2>2 DEF PhaseOK
<1>8. OwnedOK(s)' /\ OnTheWayOK(s)' /\ AnswersOK(s)'
  BY <1>1, <1>6 DEF CInv, ConnectionOK, OwnedOK, OnTheWayOK, AnswersOK, FlitOK, AnswerOK, From, PassedFrom
<1>9. Conserved(s)'
  <2>1. One(decoded[s] # None) = 0 /\ One(decoded[s] # None)' = 1
    <3>1. kind # None
      BY NoneAssumption
    <3>. QED BY <1>1, <1>4, <3>1 DEF One
  <2>2. Spent(s)' = Spent(s) + 1
    <3>1. Len(dataNet[s])' = Len(dataNet[s]) /\ Coming(s)' = Coming(s)
      BY <1>1 DEF Coming
    <3>2. Len(dataNet[s]) \in Nat /\ Coming(s) \in Nat
      BY Amounts DEF CInv
    <3>. QED BY <1>1, <1>6, <2>1, <3>1, <3>2, OwnSpending DEF CInv
  <2>. QED BY <1>3, <1>5, <2>2 DEF Conserved
<1>10. ConnectionOK(s)'
  BY <1>7, <1>8, <1>9 DEF ConnectionOK
<1>. QED BY <1>1, <1>10, OwnSteps DEF CInv, IInv, ProgramOK

(* A flit leaves the pipeline and joins the others of its source.          *)
LEMMA ExecuteKeeps ==
  ASSUME CInv, IInv', NEW s \in Source, Execute(s)
  PROVE  CInv'
<1> DEFINE e == cmt[s]
           f == FlitOf(s)
           q == dataNet[s]
<1>1. /\ decoded[s] # None
      /\ dataNet' = [dataNet EXCEPT ![s] = Append(@, f)]
      /\ decoded' = [decoded EXCEPT ![s] = None]
      /\ UNCHANGED <<cmt, inBuffer, outBuffer, creditState, nackChannel, oCredit, creditNet, inputFIFO>>
  BY DEF Execute, unit
<1>2. phase[s] \in {"open", "connected"}
  BY <1>1 DEF CInv, IInv, ProgramOK, Pointed
<1>3. /\ phase[s] = "open" => decoded[s] = "claim" /\ ~e.acquired
      /\ phase[s] = "connected" => decoded[s] \in {"data", "release"} /\ e.acquired /\ Owns(s)
      /\ phase[s] = "connected" /\ decoded[s] = "release" => e.credits = Capacity - 1
  BY <1>1, <1>2 DEF CInv, ConnectionOK, PhaseOK
<1>4. /\ useCredits(e) /\ e.credits \in Nat /\ e.credits <= Capacity
      /\ Spent(s) \in Nat /\ Capacity \in Nat /\ e.credits + Spent(s) = Capacity
  BY <1>2, Balance
<1>5. /\ phase'[s] = CASE decoded[s] = "claim" -> "claiming"
                        [] decoded[s] = "data" -> phase[s]
                        [] decoded[s] = "release" -> "leaving"
      /\ decoded'[s] = None
      /\ \A t \in Source \ {s} : UNCHANGED <<phase[t], decoded[t], dataNet[t]>>
  BY <1>1 DEF Execute, CInv, IInv, ProgramOK, FlitsOK
<1>6. /\ dataNet'[s] = Append(q, f) /\ q \in Seq(Flit) /\ Len(q) \in Nat /\ DOMAIN q = 1 .. Len(q)
      /\ Len(dataNet'[s]) = Len(q) + 1 /\ DOMAIN dataNet'[s] = 1 .. Len(q) + 1
      /\ \A k \in 1 .. Len(q) : dataNet'[s][k] = q[k]
      /\ dataNet'[s][Len(q) + 1] = f
  <2>1. q \in Seq(Flit) /\ dataNet'[s] = Append(q, f) /\ dataNet'[s] \in Seq(Flit)
    BY <1>1 DEF CInv, IInv, FlitsOK
  <2>2. f \in Flit
    BY <1>1 DEF FlitOf, Flit, CInv, IInv, ProgramOK, Pointed
  <2>. QED BY <2>1, <2>2, LenProperties, AppendProperties
<1>7. Target(s)' = Target(s) /\ Owns(s)' = Owns(s)
  BY <1>1 DEF Target, Owns
<1>8. f.port = Target(s) /\ f.source = s /\ f.allocate = (decoded[s] # "data") /\ f.acquired = (decoded[s] = "release")
  BY DEF FlitOf, Target
<1>9. Spent(s)' = Spent(s)
  <2>1. One(decoded[s] # None) = 1 /\ One(decoded[s] # None)' = 0
    BY <1>1, <1>5 DEF One
  <2>. QED BY <1>1, <1>6, <1>7, <2>1, Amounts
       DEF Spent, Buffered, UnreadAt, OwedAt, Leaving, Coming, PassedFrom, CInv
<1>10. Conserved(s)'
  BY <1>1, <1>4, <1>9 DEF Conserved
<1>11. CASE decoded[s] = "data"
  <2>1. phase[s] = "connected" /\ phase'[s] = "connected"
    BY <1>2, <1>3, <1>5, <1>11
  <2>2. OwnedOK(s) /\ AnswersOK(s) /\ OnTheWayOK(s)
    BY DEF CInv, ConnectionOK
  <2>3. PhaseOK(s)'
    BY <1>1, <1>3, <1>4, <1>5, <1>7, <2>1, NoneAssumption DEF PhaseOK
  <2>4. OwnedOK(s)'
    BY <1>1, <1>7, <2>1, <2>2 DEF OwnedOK
  <2>5. AnswersOK(s)'
    BY <1>1, <1>7, <2>1, <2>2 DEF AnswersOK, AnswerOK
  <2>6. OnTheWayOK(s)'
    <3>1. \A g : FlitOK(s, g)' = FlitOK(s, g)
      BY <1>7, <2>1 DEF FlitOK
    <3>2. FlitOK(s, f)
      BY <1>8, <1>11, <2>1 DEF FlitOK
    <3>3. \A k \in 1 .. Len(q) : q[k].source = s /\ FlitOK(s, q[k])
      BY <1>6, <2>2 DEF OnTheWayOK
    <3>4. \A k \in 1 .. Len(q) + 1 : dataNet'[s][k].source = s /\ FlitOK(s, dataNet'[s][k])
      BY <1>6, <1>8, <3>2, <3>3
    <3>. QED BY <1>1, <1>6, <2>2, <3>1, <3>4 DEF OnTheWayOK, From, PassedFrom
  <2>. QED BY <1>1, <1>5, <1>10, <2>3, <2>4, <2>5, <2>6, OwnSteps DEF ConnectionOK
<1>12. CASE decoded[s] = "claim"
  <2>1. phase[s] = "open" /\ phase'[s] = "claiming"
    BY <1>2, <1>3, <1>5, <1>12, NoneAssumption
  <2>2. Spent(s) = 1 /\ ~e.acquired
    BY <1>1, <1>3, <2>1, Quiet DEF One
  <2>3. /\ q = <<>> /\ From(inBuffer, s) = {} /\ ~PassedFrom(s) /\ nackChannel # s
        /\ ~(oCredit # None /\ oCredit.channel = s) /\ creditNet[s] = <<>> /\ ~Owns(s)
        /\ \A p \in Port : creditState[p].source # s
    BY <2>1, Quiet
  <2>4. PhaseOK(s)'
    <3>1. /\ cmt'[s] = e /\ useCredits(e) /\ e.credits = Capacity - 1 /\ ~e.acquired
          /\ e.credits >= Capacity - 1 /\ e.credits # Capacity
      BY <1>1, <1>4, <2>2
    <3>2. phase'[s] = "claiming" /\ ~Owns(s)'
      BY <1>7, <2>1, <2>3
    <3>. QED BY <3>1, <3>2 DEF PhaseOK
  <2>5. OwnedOK(s)' /\ AnswersOK(s)'
    BY <1>1, <1>7, <2>3 DEF OwnedOK, AnswersOK
  <2>6. OnTheWayOK(s)'
    <3>1. PICK g : g = f
      OBVIOUS
    <3>2. /\ g.port = Target(s)' /\ g.source = s /\ g.allocate /\ ~g.acquired
          /\ phase'[s] = "claiming" /\ ~Owns(s)'
      BY <1>7, <1>8, <1>12, <2>1, <2>3, <3>1
    <3>3. FlitOK(s, g)'
      BY <3>2 DEF FlitOK
    <3>4. DOMAIN dataNet'[s] = {1} /\ dataNet'[s][1] = g
      BY <1>6, <2>3, <3>1
    <3>5. From(inBuffer, s)' = {} /\ ~PassedFrom(s)'
      BY <1>1, <2>3 DEF From, PassedFrom
    <3>. QED BY <3>2, <3>3, <3>4, <3>5 DEF OnTheWayOK
  <2>. QED BY <1>1, <1>5, <1>10, <2>4, <2>5, <2>6, OwnSteps DEF ConnectionOK
<1>13. CASE decoded[s] = "release"
  <2>1. phase[s] = "connected" /\ phase'[s] = "leaving" /\ e.credits = Capacity - 1 /\ Owns(s) /\ e.acquired
    BY <1>2, <1>3, <1>5, <1>13
  <2>2. Spent(s) = 1
    BY <1>4, <2>1
  <2>3. NowhereBut(s, "pipeline")
    <3>1. PICK place : NowhereBut(s, place)
      BY <2>2, Spending DEF CInv
    <3>. QED BY <1>1, <3>1 DEF NowhereBut
  <2>4. /\ q = <<>> /\ From(inBuffer, s) = {} /\ ~PassedFrom(s) /\ UnreadAt(s) = 0 /\ OwedAt(s) = 0
        /\ nackChannel # s /\ ~(oCredit # None /\ oCredit.channel = s) /\ creditNet[s] = <<>>
    BY <2>3 DEF NowhereBut
  <2>5. PhaseOK(s)' /\ AnswersOK(s)'
    <3>1. /\ cmt'[s] = e /\ useCredits(e) /\ e.credits = Capacity - 1 /\ e.acquired
          /\ e.credits >= Capacity - 1 /\ phase'[s] = "leaving"
      BY <1>1, <1>4, <2>1
    <3>2. PhaseOK(s)'
      BY <3>1 DEF PhaseOK
    <3>. QED BY <1>1, <2>4, <3>2 DEF AnswersOK
  <2>6. OwnedOK(s)'
    <3> SUFFICES ASSUME NEW p \in Port, creditState[p].source = s
                 PROVE  /\ Target(s) = p
                        /\ ~creditState[p].disconnectPending
                        /\ creditState[p].creditsPending = 0
                        /\ DOMAIN inputFIFO[p] = {}
      BY <1>1, <1>7, <2>1 DEF OwnedOK
    <3>1. Target(s) = p /\ ~creditState[p].disconnectPending
      BY <2>1 DEF CInv, ConnectionOK, OwnedOK
    <3>2. creditState[p].creditsPending = 0 /\ Len(inputFIFO[p]) = 0
      BY <2>1, <2>4, <3>1 DEF UnreadAt, OwedAt
    <3>3. inputFIFO[p] \in Seq(Source)
      BY DEF CInv, IInv, FlitsOK
    <3>. QED BY <3>1, <3>2, <3>3, LenProperties
  <2>7. OnTheWayOK(s)'
    <3>1. PICK g : g = f
      OBVIOUS
    <3>2. /\ g.port = Target(s)' /\ g.source = s /\ g.allocate /\ g.acquired
          /\ phase'[s] = "leaving" /\ Owns(s)'
      BY <1>7, <1>8, <1>13, <2>1, <3>1
    <3>3. FlitOK(s, g)'
      BY <3>2 DEF FlitOK
    <3>4. DOMAIN dataNet'[s] = {1} /\ dataNet'[s][1] = g
      BY <1>6, <2>4, <3>1
    <3>5. From(inBuffer, s)' = {} /\ ~PassedFrom(s)'
      BY <1>1, <2>4 DEF From, PassedFrom
    <3>. QED BY <3>2, <3>3, <3>4, <3>5 DEF OnTheWayOK
  <2>. QED BY <1>1, <1>5, <1>10, <2>5, <2>6, <2>7, OwnSteps DEF ConnectionOK
<1>. QED BY <1>2, <1>3, <1>11, <1>12, <1>13, NoneAssumption, <1>1

(* So does an instruction whose predicate fails, which gives its credit    *)
(* back: on a connection that is acquired, the credit counts in full.      *)
LEMMA SquashKeeps ==
  ASSUME ~SquashUnacquired, CInv, IInv', NEW s \in Source, Squash(s)
  PROVE  CInv'
<1> DEFINE e == cmt[s]
<1>1. /\ decoded[s] # None /\ e.acquired
      /\ cmt' = [cmt EXCEPT ![s] = addCredits(@, 1)]
      /\ decoded' = [decoded EXCEPT ![s] = None]
      /\ UNCHANGED <<phase, dataNet, inBuffer, outBuffer, creditState, nackChannel, oCredit,
                     creditNet, inputFIFO>>
  BY DEF Squash, unit
<1>2. phase[s] = "connected" /\ Owns(s)
  BY <1>1 DEF CInv, IInv, ProgramOK, Pointed, ConnectionOK, PhaseOK
<1>3. /\ e \in Entry(Port) /\ useCredits(e) /\ e.credits \in Nat
      /\ Spent(s) \in Nat /\ Capacity \in Nat /\ e.credits + Spent(s) = Capacity
  BY <1>2, Balance
<1>4. cmt'[s] = addCredits(e, 1) /\ decoded'[s] = None
  BY <1>1 DEF CInv, IInv, ProgramOK
<1>5. Spent(s) # 0
  <2>1. ~NowhereBut(s, "nowhere")
    BY <1>1 DEF NowhereBut
  <2>. QED BY <2>1, Spending DEF CInv
<1>6. /\ cmt'[s].credits = e.credits + 1 /\ cmt'[s].acquired
      /\ cmt'[s].destination = e.destination /\ useCredits(cmt'[s])
  BY <1>1, <1>3, <1>4, <1>5, CreditGiven
<1>7. Target(s)' = Target(s) /\ Owns(s)' = Owns(s)
  BY <1>1, <1>6 DEF Target, Owns
<1>8. PhaseOK(s)'
  BY <1>1, <1>2, <1>4, <1>6, <1>7, NoneAssumption DEF PhaseOK
<1>9. OwnedOK(s)' /\ OnTheWayOK(s)' /\ AnswersOK(s)'
  BY <1>1, <1>7 DEF CInv, ConnectionOK, OwnedOK, OnTheWayOK, AnswersOK, FlitOK, AnswerOK, From, PassedFrom
<1>10. Conserved(s)'
  <2>1. One(decoded[s] # None) = 1 /\ One(decoded[s] # None)' = 0
    BY <1>1, <1>4 DEF One
  <2>2. Spent(s) = Spent(s)' + 1 /\ Spent(s)' \in Nat
    <3>1. Len(dataNet[s])' = Len(dataNet[s]) /\ Coming(s)' = Coming(s)
      BY <1>1 DEF Coming
    <3>2. Len(dataNet[s]) \in Nat /\ Coming(s) \in Nat
      BY Amounts DEF CInv
    <3>. QED BY <1>1, <1>7, <2>1, <3>1, <3>2, OwnSpending DEF CInv
  <2>. QED BY <1>3, <1>6, <2>2 DEF Conserved
<1>11. ConnectionOK(s)'
  BY <1>8, <1>9, <1>10 DEF ConnectionOK
<1>. QED BY <1>1, <1>11, OwnSteps DEF CInv, IInv, ProgramOK

(* So does a wait for all credits: with all of them back a claim is        *)
(* decided, and a release done.                                            *)
LEMMA AllCreditsBackKeeps ==
  ASSUME CInv, IInv', NEW s \in Source, AllCreditsBack(s)
  PROVE  CInv'
<1> DEFINE e == cmt[s]
<1>1. /\ phase[s] \in {"claiming", "leaving"} /\ haveNCredits(e, Capacity)
      /\ UNCHANGED <<cmt, decoded, dataNet, inBuffer, outBuffer, creditState, nackChannel, oCredit,
                     creditNet, inputFIFO>>
  BY DEF AllCreditsBack, unit
<1>2. /\ phase'[s] = CASE phase[s] = "leaving" -> "idle"
                        [] phase[s] = "claiming" /\ e.acquired -> "connected"
                        [] OTHER -> "open"
      /\ \A t \in Source \ {s} : phase'[t] = phase[t]
  BY DEF AllCreditsBack, CInv, IInv, ProgramOK
<1>3. /\ e \in Entry(Port) /\ useCredits(e) /\ e.credits \in Nat
      /\ Spent(s) \in Nat /\ Capacity \in Nat \ {0} /\ e.credits + Spent(s) = Capacity
  BY <1>1, Balance
<1>4. e.credits = Capacity /\ Spent(s) = 0
  BY <1>1, <1>3 DEF haveNCredits
<1>5. NowhereBut(s, "nowhere")
  BY <1>4, Spending DEF CInv
<1>6. Target(s)' = Target(s) /\ Owns(s)' = Owns(s)
  BY <1>1 DEF Target, Owns
<1>7. OnTheWayOK(s)' /\ AnswersOK(s)'
  <2>1. /\ decoded[s] = None /\ dataNet[s] = <<>> /\ From(inBuffer, s) = {} /\ ~PassedFrom(s)
        /\ nackChannel # s /\ ~(oCredit # None /\ oCredit.channel = s) /\ creditNet[s] = <<>>
    BY <1>5 DEF NowhereBut
  <2>. QED BY <1>1, <2>1 DEF OnTheWayOK, AnswersOK, From, PassedFrom
<1>8. Conserved(s)'
  BY <1>1, <1>6
     DEF CInv, ConnectionOK, Conserved, Spent, Buffered, UnreadAt, OwedAt, Leaving, Coming, PassedFrom
<1>9. PhaseOK(s) /\ OwnedOK(s) /\ decoded[s] = None
  BY <1>5 DEF NowhereBut, CInv, ConnectionOK
<1>10. CASE phase[s] = "leaving"
  <2>1. ~Owns(s) /\ phase'[s] = "idle"
    BY <1>2, <1>3, <1>4, <1>9, <1>10 DEF PhaseOK
  <2>2. \A p \in Port : creditState[p].source # s
    BY <1>9, <2>1 DEF OwnedOK, Owns
  <2>3. PhaseOK(s)' /\ OwnedOK(s)'
    BY <1>1, <2>1, <2>2 DEF PhaseOK, OwnedOK
  <2>. QED BY <1>1, <1>2, <1>7, <1>8, <2>3, OwnSteps DEF ConnectionOK
<1>11. CASE phase[s] = "claiming" /\ e.acquired
  <2>1. phase'[s] = "connected" /\ Owns(s)
    BY <1>2, <1>9, <1>11 DEF PhaseOK
  <2>2. PhaseOK(s)'
    BY <1>1, <1>6, <1>9, <1>11, <2>1, NoneAssumption DEF PhaseOK
  <2>3. OwnedOK(s)'
    BY <1>1, <1>6, <1>9, <1>11, <2>1 DEF OwnedOK
  <2>. QED BY <1>1, <1>2, <1>7, <1>8, <2>2, <2>3, OwnSteps DEF ConnectionOK
<1>12. CASE phase[s] = "claiming" /\ ~e.acquired
  <2>1. phase'[s] = "open" /\ ~Owns(s)
    BY <1>2, <1>4, <1>9, <1>12 DEF PhaseOK
  <2>2. \A p \in Port : creditState[p].source # s
    BY <1>9, <2>1 DEF OwnedOK, Owns
  <2>3. PhaseOK(s)' /\ OwnedOK(s)'
    BY <1>1, <1>3, <1>9, <1>12, <2>1, <2>2 DEF PhaseOK, OwnedOK
  <2>. QED BY <1>1, <1>2, <1>7, <1>8, <2>3, OwnSteps DEF ConnectionOK
<1>. QED BY <1>1, <1>10, <1>11, <1>12

(* A credit flit reaches its source, which counts what it is worth: the    *)
(* answer to a claim is counted as one credit whatever it says.            *)
LEMMA ReceiveCreditKeeps ==
  ASSUME CInv, IInv', NEW s \in Source, ReceiveCredit(s)
  PROVE  CInv'
<1> DEFINE e == cmt[s]
           q == creditNet[s]
           n == Head(q)
<1>1. /\ q # <<>>
      /\ cmt' = [cmt EXCEPT ![s] = addCredits(@, n)]
      /\ creditNet' = [creditNet EXCEPT ![s] = Tail(@)]
      /\ UNCHANGED <<phase, decoded, dataNet, inBuffer, outBuffer, creditState, nackChannel, oCredit,
                     inputFIFO>>
  BY DEF ReceiveCredit, unit
<1>2. cmt'[s] = addCredits(e, n) /\ creditNet'[s] = Tail(q) /\ q \in Seq(Nat)
  BY <1>1 DEF CInv, IInv, ProgramOK, FlitsOK
<1>3. /\ Len(q) \in Nat \ {0} /\ DOMAIN q = 1 .. Len(q) /\ n = q[1] /\ n \in Nat
      /\ DOMAIN Tail(q) = 1 .. Len(q) - 1
      /\ \A k \in 1 .. Len(q) - 1 : Tail(q)[k] = q[k + 1]
  BY <1>1, <1>2, HeadTailProperties, LenProperties, EmptySeq
<1>4. \A k \in DOMAIN q : AnswerOK(s, q[k])
  BY DEF CInv, ConnectionOK, AnswersOK
<1>5. AnswerOK(s, n) /\ phase[s] \in {"claiming", "connected", "leaving"}
  BY <1>3, <1>4 DEF AnswerOK
<1>6. /\ e \in Entry(Port) /\ useCredits(e) /\ e.credits \in Nat
      /\ Spent(s) \in Nat /\ Capacity \in Nat /\ e.credits + Spent(s) = Capacity
  BY <1>5, Balance
<1>7. Worth(n) \in Nat \ {0} /\ Coming(s) = Coming(s)' + Worth(n) /\ Coming(s)' \in Nat
  <2>1. Tail(q) \in Seq(Nat)
    BY <1>1, <1>2, HeadTailProperties
  <2>2. Worth(n) \in Nat \ {0}
    BY <1>3 DEF Worth
  <2>3. Cardinality(Returning(q)) = Cardinality(Returning(Tail(q))) + Worth(n)
    BY <1>1, <1>2, ReturningTail
  <2>4. Cardinality(Returning(Tail(q))) \in Nat
    BY <2>1, ReturningSize
  <2>5. Coming(s) = Cardinality(Returning(q)) /\ Coming(s)' = Cardinality(Returning(Tail(q)))
    BY <1>2 DEF Coming
  <2>. QED BY <2>2, <2>3, <2>4, <2>5
<1>8. /\ Spent(s) >= Worth(n) + One(decoded[s] # None)
      /\ One(decoded[s] # None) \in {0, 1}
      /\ decoded[s] # None => One(decoded[s] # None) = 1
  <2> DEFINE a == One(decoded[s] # None)
             b == Len(dataNet[s])
             c == Buffered(s)
             d == One(PassedFrom(s))
             u == UnreadAt(s)
             f == OwedAt(s)
             g == One(nackChannel = s)
             h == Leaving(s)
             i == Coming(s)
             r == Coming(s)'
             w == Worth(n)
  <2>1. Spent(s) = a + b + c + d + u + f + g + h + i
    BY DEF Spent
  <2>2. /\ a \in {0, 1} /\ b \in Nat /\ c \in Nat /\ d \in {0, 1} /\ u \in Nat /\ f \in Nat
        /\ g \in {0, 1} /\ h \in Nat /\ i \in Nat
    BY Amounts, Zenon DEF CInv
  <2>3. i = r + w /\ r \in Nat /\ w \in Nat
    BY <1>7
  <2>4. decoded[s] # None => a = 1
    BY DEF One
  <2> HIDE DEF a, b, c, d, u, f, g, h, i, r, w
  <2>5. a + b + c + d + u + f + g + h + i >= w + a
    BY <2>2, <2>3
  <2>6. Spent(s) >= w + a
    BY <2>1, <2>5
  <2>. QED BY <2>2, <2>4, <2>6 DEF a, w
<1>9. PhaseOK(s)
  BY DEF CInv, ConnectionOK
<1>10. Worth(n) = IF e.acquired THEN n ELSE 1
  <2>1. CASE phase[s] = "claiming"
    <3>1. n \in {0, 1} /\ e.credits # Capacity
      BY <1>5, <1>6, <1>7, <1>8, <2>1 DEF AnswerOK, One
    <3>2. ~e.acquired
      BY <1>9, <2>1, <3>1 DEF PhaseOK
    <3>. QED BY <3>1, <3>2 DEF Worth
  <2>2. CASE phase[s] \in {"connected", "leaving"}
    <3>1. n # 0
      BY <1>3, <1>5, <2>2 DEF AnswerOK
    <3>2. e.acquired
      BY <1>9, <2>2 DEF PhaseOK
    <3>. QED BY <3>1, <3>2 DEF Worth
  <2>. QED BY <1>5, <2>1, <2>2
<1>11. e.credits + Worth(n) <= Capacity
  BY <1>6, <1>7, <1>8
<1>12. /\ cmt'[s].credits = e.credits + Worth(n)
       /\ cmt'[s].acquired <=> e.acquired \/ n = 1
       /\ cmt'[s].destination = e.destination /\ useCredits(cmt'[s])
  <2>1. PICK w \in Nat : w = Worth(n)
    BY <1>7
  <2>2. w = (IF e.acquired THEN n ELSE 1) /\ e.credits + w <= Capacity
    BY <1>10, <1>11, <2>1
  <2> HIDE DEF e, n
  <2>3. /\ addCredits(e, n).credits = e.credits + w
        /\ addCredits(e, n).acquired <=> e.acquired \/ n = 1
        /\ addCredits(e, n).destination = e.destination
        /\ useCredits(addCredits(e, n))
    <3>1. e \in Entry(Port) /\ useCredits(e) /\ n \in Nat
      BY <1>3, <1>6
    <3>. QED BY <2>2, <3>1, CreditGiven
  <2>. QED BY <1>2, <2>1, <2>3
<1>13. Target(s)' = Target(s) /\ Owns(s)' = Owns(s)
  BY <1>1, <1>12 DEF Target, Owns
<1>14. OwnedOK(s)' /\ OnTheWayOK(s)'
  BY <1>1, <1>13 DEF CInv, ConnectionOK, OwnedOK, OnTheWayOK, FlitOK, From, PassedFrom
<1>15. AnswersOK(s)'
  <2>1. \A k : AnswerOK(s, k)' = AnswerOK(s, k)
    BY <1>1, <1>13 DEF AnswerOK
  <2>2. \A k \in DOMAIN creditNet'[s] : AnswerOK(s, creditNet'[s][k])
    <3> SUFFICES ASSUME NEW k \in 1 .. Len(q) - 1 PROVE AnswerOK(s, Tail(q)[k])
      BY <1>2, <1>3
    <3>1. k + 1 \in DOMAIN q /\ Tail(q)[k] = q[k + 1]
      BY <1>3
    <3>. QED BY <1>4, <3>1
  <2>3. AnswersOK(s)
    BY DEF CInv, ConnectionOK
  <2>. QED BY <1>1, <1>13, <2>1, <2>2, <2>3 DEF AnswersOK
<1>16. Conserved(s)'
  <2>1. One(decoded[s] # None)' = One(decoded[s] # None) /\ Len(dataNet[s])' = Len(dataNet[s])
    BY <1>1
  <2>2. Spent(s) = Spent(s)' + Worth(n) /\ Spent(s)' \in Nat
    <3>1. /\ Spent(s) \in Nat /\ Spent(s)' \in Nat
          /\ One(decoded[s] # None) \in Nat /\ Len(dataNet[s]) \in Nat /\ Coming(s) \in Nat
          /\ Spent(s)' + One(decoded[s] # None) + Len(dataNet[s]) + Coming(s)
               = Spent(s) + One(decoded[s] # None)' + Len(dataNet[s])' + Coming(s)'
      BY <1>1, <1>13, OwnSpending DEF CInv
    <3>2. PICK x \in Nat, y \in Nat, o \in Nat, b \in Nat, c \in Nat, w \in Nat :
            /\ Spent(s) = x /\ Spent(s)' = y /\ One(decoded[s] # None) = o /\ Len(dataNet[s]) = b
            /\ Coming(s)' = c /\ Worth(n) = w
      BY <1>7, <3>1
    <3>3. y + o + b + (c + w) = x + o + b + c
      BY <1>7, <2>1, <3>1, <3>2, Zenon
    <3>4. x = y + w
      BY <3>3
    <3>. QED BY <3>2, <3>4, Zenon
  <2>3. cmt'[s].credits + Spent(s)' = Capacity
    BY <1>6, <1>7, <1>12, <2>2
  <2>. QED BY <2>3 DEF Conserved
<1>17. PhaseOK(s)'
  <2>1. phase'[s] = phase[s] /\ decoded'[s] = decoded[s] /\ Owns(s)' = Owns(s)
    BY <1>1, <1>13
  <2>2. CASE phase[s] = "claiming"
    <3>1. n = One(Owns(s)) /\ e.credits = Capacity - 1 /\ Worth(n) = 1
      BY <1>5, <1>6, <1>7, <1>8, <1>9, <2>2 DEF AnswerOK, One, Worth, PhaseOK
    <3>2. cmt'[s].credits = Capacity /\ (cmt'[s].acquired <=> Owns(s)) /\ Capacity >= Capacity - 1
      BY <1>6, <1>9, <1>12, <2>2, <3>1 DEF PhaseOK, One
    <3>. QED BY <1>12, <2>1, <2>2, <3>2 DEF PhaseOK
  <2>3. CASE phase[s] = "connected"
    <3>1. decoded[s] # "release"
      <4> SUFFICES ASSUME decoded[s] = "release" PROVE FALSE
        OBVIOUS
      <4>1. e.credits = Capacity - 1 /\ One(decoded[s] # None) = 1
        BY <1>8, <1>9, <2>3, NoneAssumption DEF PhaseOK
      <4>. QED BY <1>6, <1>7, <1>8, <4>1
    <3>2. decoded[s] \in {None, "data"} /\ e.acquired /\ Owns(s)
      BY <1>9, <2>3, <3>1 DEF PhaseOK
    <3>. QED BY <1>12, <2>1, <2>3, <3>1, <3>2 DEF PhaseOK
  <2>4. CASE phase[s] = "leaving"
    <3>1. ~Owns(s) /\ e.acquired /\ e.credits >= Capacity - 1
      BY <1>5, <1>9, <2>4 DEF AnswerOK, PhaseOK
    <3>2. cmt'[s].credits >= Capacity - 1
      BY <1>6, <1>7, <1>12, <3>1
    <3>. QED BY <1>12, <2>1, <2>4, <3>1, <3>2 DEF PhaseOK
  <2>. QED BY <1>5, <2>2, <2>3, <2>4
<1>18. ConnectionOK(s)'
  BY <1>14, <1>15, <1>16, <1>17 DEF ConnectionOK
<1>. QED BY <1>1, <1>18, OwnSteps DEF CInv, IInv, ProgramOK, FlitsOK

-----------------------------------------------------------------------------
(* The steps of the unit and the networks, each on one flit of one source. *)
LEMMA OneConnection ==
  ASSUME CInv, IInv', FreePortsOK', NEW s \in Source, ConnectionOK(s)',
         \A t \in Source \ {s} : Untouched(t)
  PROVE  CInv'
<1>1. ASSUME NEW t \in Source \ {s} PROVE ConnectionOK(t)'
  BY UntouchedKeeps DEF CInv
<1>. QED BY <1>1 DEF CInv

(* So does a flit that enters the unit's buffer.                           *)
LEMMA ArriveKeeps ==
  ASSUME CInv, IInv', NEW s \in Source, Arrive(s)
  PROVE  CInv'
<1> DEFINE q == dataNet[s]
           f == Head(q)
<1>1. /\ q # <<>>
      /\ inBuffer' = Append(inBuffer, f)
      /\ dataNet' = [dataNet EXCEPT ![s] = Tail(@)]
      /\ UNCHANGED <<cmt, phase, decoded, outBuffer, creditState, nackChannel, oCredit, creditNet,
                     inputFIFO>>
  BY DEF Arrive, program, unit
<1>2. q \in Seq(Flit) /\ dataNet'[s] = Tail(q) /\ inBuffer \in Seq(Flit)
  BY <1>1 DEF CInv, IInv, FlitsOK
<1>3. /\ Len(q) \in Nat \ {0} /\ DOMAIN q = 1 .. Len(q) /\ f = q[1] /\ f \in Flit
      /\ Len(Tail(q)) = Len(q) - 1 /\ DOMAIN Tail(q) = 1 .. Len(q) - 1
      /\ \A k \in 1 .. Len(q) - 1 : Tail(q)[k] = q[k + 1]
  BY <1>1, <1>2, HeadTailProperties, LenProperties, EmptySeq
<1>4. /\ Len(inBuffer) \in Nat /\ DOMAIN inBuffer = 1 .. Len(inBuffer)
      /\ DOMAIN inBuffer' = 1 .. Len(inBuffer) + 1
      /\ \A k \in 1 .. Len(inBuffer) : inBuffer'[k] = inBuffer[k]
      /\ inBuffer'[Len(inBuffer) + 1] = f
  <2>1. inBuffer' \in Seq(Flit)
    BY DEF IInv, FlitsOK
  <2>. QED BY <1>1, <1>2, <1>3, <2>1, AppendProperties, LenProperties
<1>5. f.source = s /\ FlitOK(s, f)
  <2>1. 1 \in DOMAIN q
    BY <1>3
  <2>. QED BY <1>3, <2>1 DEF CInv, ConnectionOK, OnTheWayOK
<1>6. \A t \in Source : Buffered(t)' = Buffered(t) + One(f.source = t)
  BY <1>1, <1>2, <1>3, FromAppend DEF Buffered
<1>7. ASSUME NEW t \in Source \ {s} PROVE Untouched(t)
  <2>1. UNCHANGED <<cmt[t], phase[t], decoded[t], dataNet[t], creditNet[t]>>
    BY <1>1 DEF CInv, IInv, FlitsOK
  <2>2. Buffered(t)' = Buffered(t)
    <3>1. One(f.source = t) = 0 /\ Buffered(t) \in Nat
      BY <1>5, Amounts DEF One, CInv
    <3>. QED BY <1>6, <3>1
  <2>3. \A k \in From(inBuffer, t)' : \E j \in From(inBuffer, t) : inBuffer'[k] = inBuffer[j]
    <3> SUFFICES ASSUME NEW k \in From(inBuffer, t)' PROVE k \in From(inBuffer, t) /\ inBuffer'[k] = inBuffer[k]
      OBVIOUS
    <3>1. k \in 1 .. Len(inBuffer) + 1 /\ inBuffer'[k].source = t
      BY <1>4 DEF From
    <3>2. k \in 1 .. Len(inBuffer)
      BY <1>4, <1>5, <3>1
    <3>. QED BY <1>4, <3>1, <3>2 DEF From
  <2>. QED BY <1>1, <2>1, <2>2, <2>3 DEF Untouched, PassedFrom
<1>8. Target(s)' = Target(s) /\ Owns(s)' = Owns(s)
  BY <1>1 DEF Target, Owns
<1>9. PhaseOK(s)' /\ OwnedOK(s)' /\ AnswersOK(s)'
  BY <1>1, <1>8 DEF CInv, ConnectionOK, PhaseOK, OwnedOK, AnswersOK, AnswerOK
<1>10. OnTheWayOK(s)'
  <2>1. \A g : FlitOK(s, g)' = FlitOK(s, g)
    BY <1>1, <1>8 DEF FlitOK
  <2>2. OnTheWayOK(s)
    BY DEF CInv, ConnectionOK
  <2>3. \A k \in DOMAIN dataNet'[s] : dataNet'[s][k].source = s /\ FlitOK(s, dataNet'[s][k])
    <3> SUFFICES ASSUME NEW k \in 1 .. Len(q) - 1 PROVE Tail(q)[k].source = s /\ FlitOK(s, Tail(q)[k])
      BY <1>2, <1>3
    <3>1. k + 1 \in DOMAIN q /\ Tail(q)[k] = q[k + 1]
      BY <1>3
    <3>. QED BY <2>2, <3>1 DEF OnTheWayOK
  <2>4. \A k \in From(inBuffer, s)' : FlitOK(s, inBuffer'[k])
    <3> SUFFICES ASSUME NEW k \in From(inBuffer, s)' PROVE FlitOK(s, inBuffer'[k])
      OBVIOUS
    <3>1. k \in 1 .. Len(inBuffer) + 1 /\ inBuffer'[k].source = s
      BY <1>4 DEF From
    <3>2. CASE k = Len(inBuffer) + 1
      BY <1>4, <1>5, <3>2
    <3>3. CASE k \in 1 .. Len(inBuffer)
      <4>1. inBuffer'[k] = inBuffer[k] /\ k \in From(inBuffer, s)
        BY <1>4, <3>1, <3>3 DEF From
      <4>. QED BY <2>2, <4>1 DEF OnTheWayOK
    <3>. QED BY <1>4, <3>1, <3>2, <3>3
  <2>. QED BY <1>1, <2>1, <2>2, <2>3, <2>4 DEF OnTheWayOK, PassedFrom
<1>11. Conserved(s)'
  <2>1. Len(dataNet[s])' = Len(dataNet[s]) - 1
    BY <1>2, <1>3
  <2>2. Buffered(s)' = Buffered(s) + 1
    BY <1>5, <1>6 DEF One
  <2>3. /\ One(decoded[s] # None)' = One(decoded[s] # None)
        /\ One(PassedFrom(s))' = One(PassedFrom(s)) /\ UnreadAt(s)' = UnreadAt(s)
        /\ OwedAt(s)' = OwedAt(s) /\ One(nackChannel = s)' = One(nackChannel = s)
        /\ Leaving(s)' = Leaving(s) /\ Coming(s)' = Coming(s)
    BY <1>1, <1>8 DEF PassedFrom, UnreadAt, OwedAt, Leaving, Coming
  <2>4. Spent(s)' = Spent(s)
    <3>1. PICK a, b, c, d, u, o, g, h, i \in Nat :
            /\ One(decoded[s] # None) = a /\ Len(dataNet[s]) = b /\ Buffered(s) = c
            /\ One(PassedFrom(s)) = d /\ UnreadAt(s) = u /\ OwedAt(s) = o
            /\ One(nackChannel = s) = g /\ Leaving(s) = h /\ Coming(s) = i
            /\ Spent(s) = a + b + c + d + u + o + g + h + i
      BY NineShares DEF CInv
    <3>2. Spent(s)' = a + (b - 1) + (c + 1) + d + u + o + g + h + i
      BY <2>1, <2>2, <2>3, <3>1, Zenon DEF Spent
    <3>. QED BY <3>1, <3>2
  <2>. QED BY <1>1, <2>4 DEF CInv, ConnectionOK, Conserved
<1>12. ConnectionOK(s)'
  BY <1>9, <1>10, <1>11 DEF ConnectionOK
<1>13. FreePortsOK'
  BY <1>1 DEF CInv, FreePortsOK
<1>. QED BY <1>7, <1>12, <1>13, OneConnection

(* The flit that the unit takes from its input buffer.                     *)
LEMMA HeadTaken ==
  ASSUME CInv, dataArrived
  PROVE  /\ inBuffer # <<>> /\ nackChannel = None /\ outBuffer = None /\ inBuffer' = Tail(inBuffer)
         /\ UNCHANGED <<cmt, phase, decoded, dataNet, oCredit, creditNet, inputFIFO>>
         /\ Head(inBuffer) \in Flit /\ FlitOK(Head(inBuffer).source, Head(inBuffer))
         /\ From(inBuffer, Head(inBuffer).source) # {}
         /\ \A t \in Source :
              /\ Buffered(t) = Buffered(t)' + One(Head(inBuffer).source = t)
              /\ Buffered(t)' \in Nat
              /\ \A k \in From(inBuffer, t)' : \E j \in From(inBuffer, t) : inBuffer'[k] = inBuffer[j]
<1>1. /\ inBuffer # <<>> /\ nackChannel = None /\ outBuffer = None /\ inBuffer' = Tail(inBuffer)
      /\ UNCHANGED <<cmt, phase, decoded, dataNet, oCredit, creditNet, inputFIFO>>
  BY DEF dataArrived, program
<1>2. inBuffer \in Seq(Flit)
  BY DEF CInv, IInv, FlitsOK
<1>3. /\ Len(inBuffer) \in Nat \ {0} /\ DOMAIN inBuffer = 1 .. Len(inBuffer)
      /\ Head(inBuffer) = inBuffer[1] /\ Head(inBuffer) \in Flit
      /\ Tail(inBuffer) \in Seq(Flit) /\ DOMAIN Tail(inBuffer) = 1 .. Len(inBuffer) - 1
      /\ \A k \in 1 .. Len(inBuffer) - 1 : Tail(inBuffer)[k] = inBuffer[k + 1]
  BY <1>1, <1>2, HeadTailProperties, LenProperties, EmptySeq
<1>4. /\ FlitOK(Head(inBuffer).source, Head(inBuffer))
      /\ From(inBuffer, Head(inBuffer).source) # {}
  <2>1. Head(inBuffer).source \in Source /\ 1 \in From(inBuffer, Head(inBuffer).source)
    BY <1>3 DEF Flit, From
  <2>. QED BY <1>3, <2>1 DEF CInv, ConnectionOK, OnTheWayOK
<1>5. ASSUME NEW t \in Source
      PROVE  /\ Buffered(t) = Buffered(t)' + One(Head(inBuffer).source = t)
             /\ Buffered(t)' \in Nat
  <2>1. Cardinality(From(inBuffer, t))
          = Cardinality(From(Tail(inBuffer), t)) + One(Head(inBuffer).source = t)
    BY <1>1, <1>2, FromTail
  <2>2. Cardinality(From(Tail(inBuffer), t)) \in Nat
    BY <1>3, FromSize
  <2>. QED BY <1>1, <2>1, <2>2 DEF Buffered
<1>6. ASSUME NEW t \in Source, NEW k \in From(inBuffer, t)'
      PROVE  \E j \in From(inBuffer, t) : inBuffer'[k] = inBuffer[j]
  <2>1. k \in 1 .. Len(inBuffer) - 1 /\ inBuffer'[k].source = t
    BY <1>1, <1>3, <1>6 DEF From
  <2>2. k + 1 \in From(inBuffer, t) /\ inBuffer'[k] = inBuffer[k + 1]
    BY <1>1, <1>3, <2>1 DEF From
  <2>. QED BY <2>2
<1>. QED BY <1>1, <1>3, <1>4, <1>5, <1>6

(* A source that is not the one of the flit taken.                         *)
LEMMA OthersUntouched ==
  ASSUME CInv, dataArrived, NEW t \in Source, t # Head(inBuffer).source,
         \A p \in Port : creditState[p].source = t \/ creditState'[p].source = t =>
           UNCHANGED creditState[p],
         (nackChannel = t)' = (nackChannel = t),
         outBuffer' \in {None, Head(inBuffer)}
  PROVE  Untouched(t)
<1>1. UNCHANGED <<cmt[t], phase[t], decoded[t], dataNet[t], creditNet[t], inputFIFO, oCredit>>
  BY HeadTaken
<1>2. Buffered(t)' = Buffered(t)
  <2>1. One(Head(inBuffer).source = t) = 0
    BY DEF One
  <2>. QED BY <2>1, HeadTaken
<1>3. ~PassedFrom(t) /\ ~PassedFrom(t)'
  BY HeadTaken DEF PassedFrom
<1>4. \A k \in From(inBuffer, t)' : \E j \in From(inBuffer, t) : inBuffer'[k] = inBuffer[j]
  BY HeadTaken
<1>5. PassedFrom(t)' = PassedFrom(t) /\ (PassedFrom(t) => UNCHANGED outBuffer)
  BY <1>3 DEF PassedFrom
<1>6. /\ (oCredit # None /\ oCredit.channel = t)' = (oCredit # None /\ oCredit.channel = t)
      /\ oCredit # None /\ oCredit.channel = t => UNCHANGED oCredit
  BY <1>1
<1>7. \A p \in Port : creditState[p].source = t \/ creditState'[p].source = t =>
        UNCHANGED <<creditState[p], inputFIFO[p]>>
  BY <1>1
<1>. QED BY <1>1, <1>2, <1>4, <1>5, <1>6, <1>7, Zenon DEF Untouched

(* So does a data flit that leaves the buffer for its FIFO.                *)
LEMMA DataPassed ==
  ASSUME CInv, IInv', dataArrived, ~Head(inBuffer).allocate
  PROVE  CInv'
<1> DEFINE f == Head(inBuffer)
           s == f.source
<1>1. /\ f \in Flit /\ s \in Source /\ FlitOK(s, f) /\ nackChannel = None /\ outBuffer = None
      /\ UNCHANGED <<cmt, phase, decoded, dataNet, oCredit, creditNet, inputFIFO>>
  BY HeadTaken DEF Flit
<1>2. outBuffer' = f /\ UNCHANGED <<creditState, nackChannel>>
  BY DEF dataArrived, unit
<1>3. f # None
  BY <1>1, NoneAssumption
<1>4. PICK x \in Source : x = s
  BY <1>1
<1>5. PassedFrom(x)' /\ ~PassedFrom(x)
  BY <1>1, <1>2, <1>3, <1>4 DEF PassedFrom
<1>6. \A t \in Source \ {x} : Untouched(t)
  BY <1>1, <1>2, <1>4, OthersUntouched
<1>7. Target(x)' = Target(x) /\ Owns(x)' = Owns(x)
  BY <1>1, <1>2 DEF Target, Owns
<1>8. PhaseOK(x)' /\ OwnedOK(x)' /\ AnswersOK(x)'
  BY <1>1, <1>2, <1>7 DEF CInv, ConnectionOK, PhaseOK, OwnedOK, AnswersOK, AnswerOK
<1>9. OnTheWayOK(x)'
  <2>1. \A g : FlitOK(x, g)' = FlitOK(x, g)
    BY <1>1, <1>7 DEF FlitOK
  <2>2. OnTheWayOK(x)
    BY DEF CInv, ConnectionOK
  <2>3. \A k \in From(inBuffer, x)' : FlitOK(x, inBuffer'[k])
    BY <2>2, HeadTaken DEF OnTheWayOK
  <2>4. FlitOK(x, outBuffer') /\ ~outBuffer'.allocate
    BY <1>1, <1>2, <1>4
  <2>. QED BY <1>1, <2>1, <2>2, <2>3, <2>4 DEF OnTheWayOK
<1>10. Conserved(x)'
  <2>1. Buffered(x) = Buffered(x)' + 1 /\ Buffered(x)' \in Nat
    <3>1. One(f.source = x) = 1
      BY <1>4 DEF One
    <3>. QED BY <3>1, HeadTaken
  <2>2. One(PassedFrom(x)) = 0 /\ One(PassedFrom(x))' = 1
    BY <1>5 DEF One
  <2>3. /\ One(decoded[x] # None)' = One(decoded[x] # None) /\ Len(dataNet[x])' = Len(dataNet[x])
        /\ UnreadAt(x)' = UnreadAt(x) /\ OwedAt(x)' = OwedAt(x)
        /\ One(nackChannel = x)' = One(nackChannel = x)
        /\ Leaving(x)' = Leaving(x) /\ Coming(x)' = Coming(x)
    BY <1>1, <1>2, <1>7 DEF UnreadAt, OwedAt, Leaving, Coming
  <2>4. Spent(x)' = Spent(x)
    <3>1. PICK a, b, c, d, u, o, g, h, i \in Nat :
            /\ One(decoded[x] # None) = a /\ Len(dataNet[x]) = b /\ Buffered(x) = c
            /\ One(PassedFrom(x)) = d /\ UnreadAt(x) = u /\ OwedAt(x) = o
            /\ One(nackChannel = x) = g /\ Leaving(x) = h /\ Coming(x) = i
            /\ Spent(x) = a + b + c + d + u + o + g + h + i
      BY NineShares DEF CInv
    <3>2. Buffered(x)' = c - 1 /\ d = 0
      BY <2>1, <2>2, <3>1
    <3>3. Spent(x)' = a + b + (c - 1) + 1 + u + o + g + h + i
      BY <2>2, <2>3, <3>1, <3>2, Zenon DEF Spent
    <3>. QED BY <3>1, <3>2, <3>3
  <2>. QED BY <1>1, <2>4 DEF CInv, ConnectionOK, Conserved
<1>11. ConnectionOK(x)'
  BY <1>8, <1>9, <1>10 DEF ConnectionOK
<1>12. FreePortsOK'
  BY <1>1, <1>2 DEF CInv, FreePortsOK
<1>. QED BY <1>6, <1>11, <1>12, OneConnection

(* A release reaches the unit: it is the last that is to be heard of a     *)
(* source, which has all its other credits.                                *)
LEMMA ReleaseArrived ==
  ASSUME CInv, IInv', dataArrived, Head(inBuffer).allocate, Head(inBuffer).acquired
  PROVE  CInv'
<1>1. PICK f \in Flit : f = Head(inBuffer)
  BY HeadTaken
<1>2. PICK s \in Source : s = f.source
  BY DEF Flit
<1>3. PICK p \in Port : p = f.port
  BY DEF Flit
<1>4. /\ FlitOK(s, f) /\ nackChannel = None /\ outBuffer = None /\ From(inBuffer, s) # {}
      /\ UNCHANGED <<cmt, phase, decoded, dataNet, oCredit, creditNet, inputFIFO>>
      /\ f.allocate /\ f.acquired
  BY <1>1, <1>2, HeadTaken
<1>5. phase[s] = "leaving" /\ Owns(s) /\ Target(s) = p /\ creditState[p].source = s
  BY <1>3, <1>4 DEF FlitOK, Owns
<1>6. /\ cmt[s].credits \in Nat /\ Capacity \in Nat \ {0} /\ cmt[s].credits + Spent(s) = Capacity
      /\ Spent(s) \in Nat /\ cmt[s].credits = Capacity - 1
  BY <1>5, Balance DEF CInv, ConnectionOK, PhaseOK
<1>7. Spent(s) = 1
  BY <1>6
<1>8. NowhereBut(s, "buffer") /\ Buffered(s) = 1
  <2>1. PICK place : NowhereBut(s, place)
    BY <1>7, Spending DEF CInv
  <2>2. NowhereBut(s, "buffer")
    BY <1>4, <2>1 DEF NowhereBut
  <2>3. Buffered(s) \in Nat /\ Buffered(s) <= 1 /\ Buffered(s) # 0
    BY <1>4, <1>7, Spending, Amounts DEF CInv
  <2>. QED BY <2>2, <2>3
<1>9. /\ decoded[s] = None /\ dataNet[s] = <<>> /\ ~PassedFrom(s) /\ nackChannel # s
      /\ ~(oCredit # None /\ oCredit.channel = s) /\ creditNet[s] = <<>>
      /\ UnreadAt(s) = 0 /\ OwedAt(s) = 0
  BY <1>8 DEF NowhereBut
<1>10. /\ Len(inputFIFO[p]) = 0 /\ inputFIFO[p] \in Seq(Source)
       /\ creditState[p].creditsPending = 0 /\ creditState[p] \in PortState /\ creditState[p].useCredits
  BY <1>5, <1>9, SourceAssumption
     DEF UnreadAt, OwedAt, CInv, IInv, FlitsOK, UnitOK, Bookkeeping
<1>11. /\ creditState' = [creditState EXCEPT ![p] =
            [[creditState[p] EXCEPT !.disconnectPending = TRUE] EXCEPT !.creditsPending = @ + 1]]
       /\ UNCHANGED <<outBuffer, nackChannel>>
  <2>1. /\ addCredit(p, [creditState[p] EXCEPT !.disconnectPending = TRUE])
        /\ UNCHANGED <<outBuffer, nackChannel>>
    BY <1>1, <1>3, <1>4 DEF dataArrived, handlePortClaim
  <2>2. [creditState[p] EXCEPT !.disconnectPending = TRUE].useCredits
    BY <1>10 DEF PortState
  <2>. QED BY <2>1, <2>2 DEF addCredit
<1>12. /\ creditState'[p].source = s /\ creditState'[p].creditsPending = 1
       /\ creditState'[p].disconnectPending
       /\ \A q \in Port \ {p} : creditState'[q] = creditState[q]
  <2>1. creditState'[p] =
          [[creditState[p] EXCEPT !.disconnectPending = TRUE] EXCEPT !.creditsPending = @ + 1]
    BY <1>11 DEF CInv, IInv, UnitOK
  <2>2. \A q \in Port \ {p} : creditState'[q] = creditState[q]
    BY <1>11 DEF CInv, IInv, UnitOK
  <2>. QED BY <1>5, <1>10, <2>1, <2>2 DEF PortState
<1>13. \A t \in Source \ {s} : Untouched(t)
  BY <1>1, <1>2, <1>4, <1>5, <1>11, <1>12, OthersUntouched
<1>14. Target(s)' = Target(s) /\ Owns(s)'
  BY <1>4, <1>5, <1>12 DEF Target, Owns
<1>15. Buffered(s)' = 0 /\ From(inBuffer, s)' = {}
  <2>1. One(f.source = s) = 1
    BY <1>2 DEF One
  <2>2. Buffered(s)' = 0
    BY <1>1, <1>8, <2>1, HeadTaken
  <2>3. inBuffer' \in Seq(Flit)
    BY DEF IInv, FlitsOK
  <2>. QED BY <2>2, <2>3, FromSize, FS_EmptySet DEF Buffered
<1>16. PhaseOK(s)'
  BY <1>4, <1>5, <1>14 DEF CInv, ConnectionOK, PhaseOK
<1>17. OwnedOK(s)'
  <2>1. \A q \in Port : creditState'[q].source = s => q = p
    BY <1>5, <1>12 DEF CInv, ConnectionOK, OwnedOK
  <2>2. DOMAIN inputFIFO[p] = {}
    BY <1>10, LenProperties
  <2>. QED BY <1>4, <1>5, <1>12, <1>14, <2>1, <2>2 DEF OwnedOK
<1>18. OnTheWayOK(s)' /\ AnswersOK(s)'
  BY <1>4, <1>9, <1>11, <1>15 DEF OnTheWayOK, AnswersOK, PassedFrom
<1>19. Conserved(s)'
  <2>1. OwedAt(s)' = 1
    BY <1>5, <1>12, <1>14 DEF OwedAt
  <2>2. UnreadAt(s)' = 0
    BY <1>4, <1>5, <1>10, <1>14 DEF UnreadAt
  <2>3. /\ One(decoded[s] # None)' = 0 /\ Len(dataNet[s])' = 0
        /\ One(PassedFrom(s))' = 0 /\ One(nackChannel = s)' = 0 /\ Leaving(s)' = 0 /\ Coming(s)' = 0
    <3>1. /\ One(decoded[s] # None) = 0 /\ Len(dataNet[s]) = 0
          /\ One(PassedFrom(s)) = 0 /\ One(nackChannel = s) = 0 /\ Leaving(s) = 0 /\ Coming(s) = 0
      BY <1>9, Amounts DEF CInv
    <3>. QED BY <1>4, <1>11, <3>1 DEF PassedFrom, Leaving, Coming
  <2>4. Spent(s)' = 0 + 0 + 0 + 0 + 0 + 1 + 0 + 0 + 0
    BY <1>15, <2>1, <2>2, <2>3, Zenon DEF Spent
  <2>. QED BY <1>4, <1>6, <1>7, <2>4 DEF Conserved
<1>20. ConnectionOK(s)'
  BY <1>16, <1>17, <1>18, <1>19 DEF ConnectionOK
<1>21. FreePortsOK'
  BY <1>4, <1>12, SourceAssumption DEF CInv, FreePortsOK
<1>. QED BY <1>13, <1>20, <1>21, OneConnection

(* A claim reaches the unit: its source has its other credits, and holds   *)
(* no channel.                                                             *)
LEMMA ClaimAtUnit ==
  ASSUME CInv, IInv', dataArrived, Head(inBuffer).allocate, ~Head(inBuffer).acquired,
         NEW s \in Source, s = Head(inBuffer).source
  PROVE  /\ phase[s] = "claiming" /\ ~Owns(s) /\ Target(s) = Head(inBuffer).port
         /\ Target(s) \in Port /\ \A p \in Port : creditState[p].source # s
         /\ cmt[s].credits \in Nat /\ Capacity \in Nat \ {0} /\ cmt[s].credits = Capacity - 1
         /\ Spent(s) = 1 /\ ~cmt[s].acquired
         /\ decoded[s] = None /\ dataNet[s] = <<>> /\ ~PassedFrom(s) /\ nackChannel # s
         /\ ~(oCredit # None /\ oCredit.channel = s) /\ creditNet[s] = <<>>
         /\ From(inBuffer, s)' = {} /\ Buffered(s)' = 0
<1>1. PICK f \in Flit : f = Head(inBuffer)
  BY HeadTaken
<1>2. FlitOK(s, f) /\ From(inBuffer, s) # {} /\ f.allocate /\ ~f.acquired /\ f.port \in Port
  BY <1>1, HeadTaken DEF Flit
<1>3. phase[s] = "claiming" /\ ~Owns(s) /\ Target(s) = f.port
  BY <1>2 DEF FlitOK
<1>4. \A p \in Port : creditState[p].source # s
  BY <1>3 DEF CInv, ConnectionOK, OwnedOK, Owns
<1>5. /\ cmt[s].credits \in Nat /\ Capacity \in Nat \ {0} /\ cmt[s].credits + Spent(s) = Capacity
      /\ Spent(s) \in Nat /\ cmt[s].credits >= Capacity - 1
      /\ (cmt[s].acquired <=> Owns(s) /\ cmt[s].credits = Capacity)
  BY <1>3, Balance DEF CInv, ConnectionOK, PhaseOK
<1>6. Spent(s) # 0
  <2>1. ~NowhereBut(s, "nowhere")
    BY <1>2 DEF NowhereBut
  <2>. QED BY <2>1, Spending DEF CInv
<1>7. cmt[s].credits = Capacity - 1 /\ Spent(s) = 1 /\ ~cmt[s].acquired
  BY <1>3, <1>5, <1>6
<1>8. NowhereBut(s, "buffer")
  <2>1. PICK place : NowhereBut(s, place)
    BY <1>7, Spending DEF CInv
  <2>. QED BY <1>2, <2>1 DEF NowhereBut
<1>9. Buffered(s)' = 0
  <2>1. Buffered(s) \in Nat /\ Buffered(s) <= 1
    BY <1>7, Spending, Amounts DEF CInv
  <2>2. One(f.source = s) = 1
    BY <1>1 DEF One
  <2>. QED BY <1>1, <2>1, <2>2, HeadTaken
<1>10. From(inBuffer, s)' = {}
  <2>1. inBuffer' \in Seq(Flit)
    BY DEF IInv, FlitsOK
  <2>. QED BY <1>9, <2>1, FromSize, FS_EmptySet DEF Buffered
<1>. QED BY <1>1, <1>2, <1>3, <1>4, <1>5, <1>7, <1>8, <1>9, <1>10 DEF NowhereBut

(* So does a claim of a free port: acceptPortClaim() owes the source one   *)
(* credit.                                                                 *)
LEMMA ClaimGranted ==
  ASSUME CInv, IInv', dataArrived, Head(inBuffer).allocate, ~Head(inBuffer).acquired,
         creditState[Head(inBuffer).port].source = None
  PROVE  CInv'
<1>1. PICK f \in Flit : f = Head(inBuffer)
  BY HeadTaken
<1>2. PICK s \in Source : s = f.source
  BY DEF Flit
<1>3. PICK p \in Port : p = f.port
  BY DEF Flit
<1>4. /\ nackChannel = None /\ outBuffer = None
      /\ UNCHANGED <<cmt, phase, decoded, dataNet, oCredit, creditNet, inputFIFO>>
      /\ f.allocate /\ ~f.acquired /\ creditState[p].source = None
  BY <1>1, <1>2, <1>3, HeadTaken
<1>5. /\ phase[s] = "claiming" /\ ~Owns(s) /\ Target(s) = p
      /\ \A q \in Port : creditState[q].source # s
      /\ cmt[s].credits \in Nat /\ Capacity \in Nat \ {0} /\ cmt[s].credits = Capacity - 1
      /\ ~cmt[s].acquired
  BY <1>1, <1>2, <1>3, ClaimAtUnit
<1>6. /\ decoded[s] = None /\ dataNet[s] = <<>> /\ ~PassedFrom(s) /\ nackChannel # s
      /\ ~(oCredit # None /\ oCredit.channel = s) /\ creditNet[s] = <<>>
      /\ From(inBuffer, s)' = {} /\ Buffered(s)' = 0
  BY <1>1, <1>2, ClaimAtUnit
<1>7. /\ creditState[p] \in PortState /\ creditState[p].creditsPending = 0
      /\ ~creditState[p].disconnectPending /\ inputFIFO[p] = <<>>
  BY <1>4 DEF CInv, IInv, UnitOK, Bookkeeping, PortState, FreePortsOK
<1>8. /\ creditState' = [creditState EXCEPT ![p] =
            [[creditState[p] EXCEPT !.useCredits = TRUE, !.source = s] EXCEPT !.creditsPending = @ + 1]]
      /\ UNCHANGED <<outBuffer, nackChannel>>
  <2>1. /\ addCredit(p, [creditState[p] EXCEPT !.useCredits = TRUE, !.source = s])
        /\ UNCHANGED <<outBuffer, nackChannel>>
    BY <1>1, <1>2, <1>3, <1>4 DEF dataArrived, handlePortClaim, acceptPortClaim
  <2>2. [creditState[p] EXCEPT !.useCredits = TRUE, !.source = s].useCredits
    BY <1>7 DEF PortState
  <2>. QED BY <2>1, <2>2 DEF addCredit
<1>9. /\ creditState'[p].source = s /\ creditState'[p].creditsPending = 1
      /\ ~creditState'[p].disconnectPending
      /\ \A q \in Port \ {p} : creditState'[q] = creditState[q]
  <2>1. creditState'[p] =
          [[creditState[p] EXCEPT !.useCredits = TRUE, !.source = s] EXCEPT !.creditsPending = @ + 1]
    BY <1>8 DEF CInv, IInv, UnitOK
  <2>2. \A q \in Port \ {p} : creditState'[q] = creditState[q]
    BY <1>8 DEF CInv, IInv, UnitOK
  <2>. QED BY <1>7, <2>1, <2>2 DEF PortState
<1>10. \A t \in Source \ {s} : Untouched(t)
  <2> SUFFICES ASSUME NEW t \in Source \ {s} PROVE Untouched(t)
    OBVIOUS
  <2>1. \A q \in Port : creditState[q].source = t \/ creditState'[q].source = t => UNCHANGED creditState[q]
    BY <1>4, <1>9, SourceAssumption
  <2>. QED BY <1>1, <1>2, <1>4, <1>8, <2>1, OthersUntouched
<1>11. Target(s)' = Target(s) /\ Owns(s)'
  BY <1>4, <1>5, <1>9 DEF Target, Owns
<1>12. PhaseOK(s)'
  <2>1. phase'[s] = "claiming" /\ cmt'[s] = cmt[s] /\ cmt[s].credits >= Capacity - 1 /\ cmt[s].credits # Capacity
    BY <1>4, <1>5
  <2>2. useCredits(cmt[s])
    BY <1>5, Balance
  <2>. QED BY <1>5, <2>1, <2>2 DEF PhaseOK
<1>13. OwnedOK(s)'
  <2>1. \A q \in Port : creditState'[q].source = s => q = p
    BY <1>5, <1>9
  <2>2. DOMAIN inputFIFO[p] = {}
    BY <1>7
  <2>. QED BY <1>4, <1>5, <1>9, <1>11, <2>1, <2>2 DEF OwnedOK
<1>14. OnTheWayOK(s)' /\ AnswersOK(s)'
  BY <1>4, <1>6, <1>8 DEF OnTheWayOK, AnswersOK, PassedFrom
<1>15. Conserved(s)'
  <2>1. OwedAt(s)' = 1
    BY <1>5, <1>9, <1>11 DEF OwedAt
  <2>2. UnreadAt(s)' = 0
    BY <1>4, <1>5, <1>7, <1>11, EmptySeq DEF UnreadAt
  <2>3. /\ One(decoded[s] # None)' = 0 /\ Len(dataNet[s])' = 0
        /\ One(PassedFrom(s))' = 0 /\ One(nackChannel = s)' = 0 /\ Leaving(s)' = 0 /\ Coming(s)' = 0
    <3>1. /\ One(decoded[s] # None) = 0 /\ Len(dataNet[s]) = 0
          /\ One(PassedFrom(s)) = 0 /\ One(nackChannel = s) = 0 /\ Leaving(s) = 0 /\ Coming(s) = 0
      BY <1>6, Amounts DEF CInv
    <3>. QED BY <1>4, <1>8, <3>1 DEF PassedFrom, Leaving, Coming
  <2>4. Spent(s)' = 0 + 0 + 0 + 0 + 0 + 1 + 0 + 0 + 0
    BY <1>6, <2>1, <2>2, <2>3, Zenon DEF Spent
  <2>. QED BY <1>4, <1>5, <2>4 DEF Conserved
<1>16. ConnectionOK(s)'
  BY <1>12, <1>13, <1>14, <1>15 DEF ConnectionOK
<1>17. FreePortsOK'
  BY <1>4, <1>9, SourceAssumption DEF CInv, FreePortsOK
<1>. QED BY <1>10, <1>16, <1>17, OneConnection

(* So does a claim of a port that has an owner: it is remembered for a     *)
(* refusal.                                                                *)
LEMMA ClaimRefused ==
  ASSUME CInv, IInv', dataArrived, Head(inBuffer).allocate, ~Head(inBuffer).acquired,
         creditState[Head(inBuffer).port].source # None
  PROVE  CInv'
<1>1. PICK f \in Flit : f = Head(inBuffer)
  BY HeadTaken
<1>2. PICK s \in Source : s = f.source
  BY DEF Flit
<1>3. /\ nackChannel = None /\ outBuffer = None
      /\ UNCHANGED <<cmt, phase, decoded, dataNet, oCredit, creditNet, inputFIFO>>
  BY HeadTaken
<1>4. nackChannel' = s /\ UNCHANGED <<outBuffer, creditState>>
  BY <1>1, <1>2 DEF dataArrived, handlePortClaim, rejectPortClaim, unit
<1>5. /\ phase[s] = "claiming" /\ ~Owns(s)
      /\ cmt[s].credits \in Nat /\ Capacity \in Nat \ {0} /\ cmt[s].credits = Capacity - 1
  BY <1>1, <1>2, ClaimAtUnit
<1>6. /\ decoded[s] = None /\ dataNet[s] = <<>> /\ ~PassedFrom(s) /\ nackChannel # s
      /\ ~(oCredit # None /\ oCredit.channel = s) /\ creditNet[s] = <<>>
      /\ From(inBuffer, s)' = {} /\ Buffered(s)' = 0
  BY <1>1, <1>2, ClaimAtUnit
<1>7. \A t \in Source \ {s} : Untouched(t)
  <2> SUFFICES ASSUME NEW t \in Source \ {s} PROVE Untouched(t)
    OBVIOUS
  <2>1. (nackChannel = t)' = (nackChannel = t)
    BY <1>3, <1>4, SourceAssumption
  <2>. QED BY <1>1, <1>2, <1>3, <1>4, <2>1, OthersUntouched
<1>8. Target(s)' = Target(s) /\ Owns(s)' = Owns(s)
  BY <1>3, <1>4 DEF Target, Owns
<1>9. PhaseOK(s)' /\ OwnedOK(s)'
  BY <1>3, <1>4, <1>8 DEF CInv, ConnectionOK, PhaseOK, OwnedOK
<1>10. OnTheWayOK(s)' /\ AnswersOK(s)'
  BY <1>3, <1>4, <1>5, <1>6, <1>8 DEF OnTheWayOK, AnswersOK, PassedFrom
<1>11. Conserved(s)'
  <2>1. OwedAt(s)' = 0 /\ UnreadAt(s)' = 0
    BY <1>5, <1>8 DEF OwedAt, UnreadAt
  <2>2. One(nackChannel = s)' = 1
    BY <1>4 DEF One
  <2>3. /\ One(decoded[s] # None)' = 0 /\ Len(dataNet[s])' = 0
        /\ One(PassedFrom(s))' = 0 /\ Leaving(s)' = 0 /\ Coming(s)' = 0
    <3>1. /\ One(decoded[s] # None) = 0 /\ Len(dataNet[s]) = 0
          /\ One(PassedFrom(s)) = 0 /\ Leaving(s) = 0 /\ Coming(s) = 0
      BY <1>6, Amounts DEF CInv
    <3>. QED BY <1>3, <1>4, <3>1 DEF PassedFrom, Leaving, Coming
  <2>4. Spent(s)' = 0 + 0 + 0 + 0 + 0 + 0 + 1 + 0 + 0
    BY <1>6, <2>1, <2>2, <2>3, Zenon DEF Spent
  <2>. QED BY <1>3, <1>5, <2>4 DEF Conserved
<1>12. ConnectionOK(s)'
  BY <1>9, <1>10, <1>11 DEF ConnectionOK
<1>13. FreePortsOK'
  BY <1>3, <1>4 DEF CInv, FreePortsOK
<1>. QED BY <1>7, <1>12, <1>13, OneConnection

(* So does dataArrived(), whatever its flit is.                            *)
LEMMA ArrivedKeeps ==
  ASSUME CInv, IInv', dataArrived
  PROVE  CInv'
<1>1. CASE ~Head(inBuffer).allocate
  BY <1>1, DataPassed
<1>2. CASE Head(inBuffer).allocate /\ Head(inBuffer).acquired
  BY <1>2, ReleaseArrived
<1>3. CASE /\ Head(inBuffer).allocate /\ ~Head(inBuffer).acquired
           /\ creditState[Head(inBuffer).port].source = None
  BY <1>3, ClaimGranted
<1>4. CASE /\ Head(inBuffer).allocate /\ ~Head(inBuffer).acquired
           /\ creditState[Head(inBuffer).port].source # None
  BY <1>4, ClaimRefused
<1>. QED BY <1>1, <1>2, <1>3, <1>4

-----------------------------------------------------------------------------
(* The credit flits: a refusal says 0, an answer or a credit a number.     *)
LEMMA NackSent ==
  ASSUME CInv, IInv', sendCredits, nackChannel # None
  PROVE  CInv'
<1>1. PICK s \in Source : s = nackChannel
  BY DEF CInv, IInv, FlitsOK
<1>2. /\ oCredit = None /\ oCredit' = [channel |-> s, count |-> 0] /\ nackChannel' = None
      /\ UNCHANGED <<cmt, phase, decoded, dataNet, inBuffer, outBuffer, creditState, creditNet, inputFIFO>>
  BY <1>1 DEF sendCredits, sendNackFlit, program, unit
<1>3. oCredit' # None /\ oCredit'.channel = s /\ oCredit'.count = 0
  <2>1. [channel |-> s, count |-> 0] \in CreditFlit
    BY DEF CreditFlit
  <2>. QED BY <1>2, <2>1, NoneAssumption
<1>4. phase[s] = "claiming" /\ ~Owns(s)
  BY <1>1 DEF CInv, ConnectionOK, AnswersOK
<1>5. \A t \in Source \ {s} : Untouched(t)
  <2> SUFFICES ASSUME NEW t \in Source \ {s} PROVE Untouched(t)
    OBVIOUS
  <2>1. (nackChannel = t)' = (nackChannel = t)
    BY <1>1, <1>2, SourceAssumption
  <2>2. /\ (oCredit # None /\ oCredit.channel = t)' = (oCredit # None /\ oCredit.channel = t)
        /\ oCredit # None /\ oCredit.channel = t => UNCHANGED oCredit
    BY <1>2, <1>3
  <2>3. PassedFrom(t)' = PassedFrom(t) /\ Buffered(t)' = Buffered(t) /\ From(inBuffer, t)' = From(inBuffer, t)
    BY <1>2 DEF PassedFrom, Buffered, From
  <2>. QED BY <1>2, <2>1, <2>2, <2>3 DEF Untouched
<1>6. Target(s)' = Target(s) /\ Owns(s)' = Owns(s)
  BY <1>2 DEF Target, Owns
<1>7. PhaseOK(s)' /\ OwnedOK(s)' /\ OnTheWayOK(s)'
  BY <1>2, <1>6 DEF CInv, ConnectionOK, PhaseOK, OwnedOK, OnTheWayOK, FlitOK, From, PassedFrom
<1>8. AnswersOK(s)'
  <2>1. \A n : AnswerOK(s, n)' = AnswerOK(s, n)
    BY <1>2, <1>6 DEF AnswerOK
  <2>2. AnswerOK(s, 0)
    BY <1>4 DEF AnswerOK, One
  <2>3. AnswersOK(s)
    BY DEF CInv, ConnectionOK
  <2>4. nackChannel' # s
    BY <1>2, SourceAssumption
  <2>. QED BY <1>2, <1>3, <2>1, <2>2, <2>3, <2>4 DEF AnswersOK
<1>9. Conserved(s)'
  <2>1. One(nackChannel = s) = 1 /\ One(nackChannel = s)' = 0
    BY <1>1, <1>2, SourceAssumption DEF One
  <2>2. Leaving(s) = 0 /\ Leaving(s)' = 1
    BY <1>2, <1>3 DEF Leaving, Worth
  <2>3. /\ One(decoded[s] # None)' = One(decoded[s] # None) /\ Len(dataNet[s])' = Len(dataNet[s])
        /\ Buffered(s)' = Buffered(s) /\ One(PassedFrom(s))' = One(PassedFrom(s))
        /\ UnreadAt(s)' = UnreadAt(s) /\ OwedAt(s)' = OwedAt(s) /\ Coming(s)' = Coming(s)
    BY <1>2, <1>6 DEF Buffered, PassedFrom, UnreadAt, OwedAt, Coming
  <2>4. Spent(s)' = Spent(s)
    <3>1. PICK a, b, c, d, u, o, g, h, i \in Nat :
            /\ One(decoded[s] # None) = a /\ Len(dataNet[s]) = b /\ Buffered(s) = c
            /\ One(PassedFrom(s)) = d /\ UnreadAt(s) = u /\ OwedAt(s) = o
            /\ One(nackChannel = s) = g /\ Leaving(s) = h /\ Coming(s) = i
            /\ Spent(s) = a + b + c + d + u + o + g + h + i
      BY NineShares DEF CInv
    <3>2. g = 1 /\ h = 0
      BY <2>1, <2>2, <3>1
    <3>3. Spent(s)' = a + b + c + d + u + o + 0 + 1 + i
      BY <2>1, <2>2, <2>3, <3>1, Zenon DEF Spent
    <3>. QED BY <3>1, <3>2, <3>3
  <2>. QED BY <1>2, <2>4 DEF CInv, ConnectionOK, Conserved
<1>10. ConnectionOK(s)'
  BY <1>7, <1>8, <1>9 DEF ConnectionOK
<1>11. FreePortsOK'
  BY <1>2 DEF CInv, FreePortsOK
<1>. QED BY <1>5, <1>10, <1>11, OneConnection

(* The port that is served has an owner, which has its credits at least    *)
(* there.                                                                  *)
LEMMA PortServed ==
  ASSUME NumChannels <= NumCores, CInv, sendCredits, nackChannel = None
  PROVE  \E p \in Port, s \in Source :
           /\ Target(s) = p /\ Owns(s) /\ creditState[p].source = s /\ creditState[p] \in PortState
           /\ creditState[p].creditsPending \in Nat \ {0}
           /\ OwedAt(s) = creditState[p].creditsPending
           /\ oCredit = None
           /\ oCredit' = [channel |-> s, count |-> creditState[p].creditsPending]
           /\ creditState' = [creditState EXCEPT ![p] =
                IF creditState[p].disconnectPending THEN Free
                ELSE [creditState[p] EXCEPT !.creditsPending = 0]]
           /\ UNCHANGED <<cmt, phase, decoded, dataNet, inBuffer, outBuffer, nackChannel, creditNet,
                          inputFIFO>>
<1> DEFINE index == selectRequester(creditsOutstanding, lastAccepted)
<1>1. /\ oCredit = None /\ creditsOutstanding # {} /\ sendCreditFlit(index)
      /\ UNCHANGED <<cmt, phase, decoded, dataNet, inBuffer, outBuffer, nackChannel, creditNet, inputFIFO>>
  BY DEF sendCredits, program
<1>2. index \in creditsOutstanding
  <2>1. creditsOutstanding \in SUBSET Nat
    BY IndexRoundTrip DEF CInv, IInv, UnitOK
  <2>2. lastAccepted \in Nat
    BY DEF CInv, IInv, FlitsOK
  <2>. QED BY <1>1, <2>1, <2>2, SelectedIsRequested
<1>3. PICK p \in Port : index = addressToIndex(p)
  BY <1>2 DEF CInv, IInv, UnitOK
<1>4. indexToAddress(index) = p
  BY <1>3, IndexRoundTrip
<1>5. /\ creditState[p] \in PortState /\ creditState[p].creditsPending \in Nat \ {0}
      /\ creditState[p].source # None
  BY <1>2, <1>3 DEF CInv, IInv, UnitOK, Bookkeeping, PortState
<1>6. PICK s \in Source : s = creditState[p].source
  BY <1>5 DEF PortState
<1>7. Target(s) = p /\ Owns(s)
  BY <1>6 DEF CInv, ConnectionOK, OwnedOK, Owns
<1>8. OwedAt(s) = creditState[p].creditsPending
  BY <1>7 DEF OwedAt
<1>9. /\ oCredit' = [channel |-> s, count |-> creditState[p].creditsPending]
      /\ creditState' = [creditState EXCEPT ![p] =
           IF creditState[p].disconnectPending THEN Free
           ELSE [creditState[p] EXCEPT !.creditsPending = 0]]
  BY <1>1, <1>4, <1>6 DEF sendCreditFlit
<1>. QED BY <1>1, <1>5, <1>6, <1>7, <1>8, <1>9

(* So does sendCredits() without a refusal to send: it sends what one      *)
(* port owes, and frees a port that was released.                          *)
LEMMA CreditsSent ==
  ASSUME NumChannels <= NumCores, CInv, IInv', sendCredits, nackChannel = None
  PROVE  CInv'
<1>1. PICK p \in Port, s \in Source :
        /\ Target(s) = p /\ Owns(s) /\ creditState[p].source = s /\ creditState[p] \in PortState
        /\ creditState[p].creditsPending \in Nat \ {0}
        /\ OwedAt(s) = creditState[p].creditsPending
        /\ oCredit = None
        /\ oCredit' = [channel |-> s, count |-> creditState[p].creditsPending]
        /\ creditState' = [creditState EXCEPT ![p] =
             IF creditState[p].disconnectPending THEN Free
             ELSE [creditState[p] EXCEPT !.creditsPending = 0]]
        /\ UNCHANGED <<cmt, phase, decoded, dataNet, inBuffer, outBuffer, nackChannel, creditNet,
                       inputFIFO>>
  BY PortServed
<1>2. PICK n \in Nat \ {0} : n = creditState[p].creditsPending
  BY <1>1
<1>3. oCredit' # None /\ oCredit'.channel = s /\ oCredit'.count = n
  <2>1. [channel |-> s, count |-> n] \in CreditFlit
    BY DEF CreditFlit
  <2>. QED BY <1>1, <1>2, <2>1, NoneAssumption
<1>4. /\ creditState'[p] = IF creditState[p].disconnectPending THEN Free
                           ELSE [creditState[p] EXCEPT !.creditsPending = 0]
      /\ \A q \in Port \ {p} : creditState'[q] = creditState[q]
  BY <1>1 DEF CInv, IInv, UnitOK
<1>5. creditState'[p].source \in {s, None} /\ creditState'[p].creditsPending = 0
  BY <1>1, <1>4 DEF PortState, Free
<1>6. \A t \in Source \ {s} : Untouched(t)
  <2> SUFFICES ASSUME NEW t \in Source \ {s} PROVE Untouched(t)
    OBVIOUS
  <2>1. \A q \in Port : creditState[q].source = t \/ creditState'[q].source = t =>
          UNCHANGED <<creditState[q], inputFIFO[q]>>
    BY <1>1, <1>4, <1>5, SourceAssumption
  <2>2. /\ (oCredit # None /\ oCredit.channel = t)' = (oCredit # None /\ oCredit.channel = t)
        /\ oCredit # None /\ oCredit.channel = t => UNCHANGED oCredit
    BY <1>1, <1>3
  <2>3. PassedFrom(t)' = PassedFrom(t) /\ Buffered(t)' = Buffered(t) /\ From(inBuffer, t)' = From(inBuffer, t)
    BY <1>1 DEF PassedFrom, Buffered, From
  <2>. QED BY <1>1, <2>1, <2>2, <2>3 DEF Untouched
<1>7. /\ PhaseOK(s) /\ OwnedOK(s) /\ OnTheWayOK(s) /\ AnswersOK(s)
      /\ phase[s] \in {"claiming", "connected", "leaving"}
  BY <1>1 DEF CInv, ConnectionOK, OwnedOK
<1>8. /\ cmt[s].credits \in Nat /\ Capacity \in Nat \ {0} /\ cmt[s].credits + Spent(s) = Capacity
      /\ Spent(s) \in Nat /\ useCredits(cmt[s])
  BY <1>7, Balance
<1>9. phase[s] \in {"claiming", "leaving"} => n = 1 /\ Spent(s) = 1 /\ NowhereBut(s, "port")
  <2> SUFFICES ASSUME phase[s] \in {"claiming", "leaving"}
               PROVE  n = 1 /\ Spent(s) = 1 /\ NowhereBut(s, "port")
    OBVIOUS
  <2>1. cmt[s].credits >= Capacity - 1
    BY <1>7 DEF PhaseOK
  <2>2. ~NowhereBut(s, "nowhere")
    BY <1>1 DEF NowhereBut
  <2>3. Spent(s) # 0
    BY <2>2, Spending DEF CInv
  <2>4. Spent(s) = 1
    BY <1>8, <2>1, <2>3
  <2>5. n = 1
    BY <1>1, <1>2, <2>4, Spending DEF CInv
  <2>6. PICK place : NowhereBut(s, place)
    BY <2>4, Spending DEF CInv
  <2>7. NowhereBut(s, "port")
    BY <1>1, <2>6 DEF NowhereBut
  <2>. QED BY <2>4, <2>5, <2>7
<1>10. Target(s)' = Target(s)
  BY <1>1 DEF Target
<1>11. UnreadAt(s)' = UnreadAt(s)
  <2>1. CASE creditState[p].disconnectPending
    <3>1. phase[s] = "leaving"
      BY <1>1, <1>7, <2>1 DEF OwnedOK
    <3>2. UnreadAt(s) = 0
      BY <1>9, <3>1 DEF NowhereBut
    <3>3. ~Owns(s)'
      BY <1>1, <1>4, <1>10, <2>1, SourceAssumption DEF Owns, Free
    <3>. QED BY <3>2, <3>3 DEF UnreadAt
  <2>2. CASE ~creditState[p].disconnectPending
    <3>1. creditState'[p].source = s
      BY <1>1, <1>4, <2>2 DEF PortState
    <3>2. Owns(s)'
      BY <1>1, <1>10, <3>1 DEF Owns
    <3>. QED BY <1>1, <1>10, <3>2 DEF UnreadAt
  <2>. QED BY <2>1, <2>2
<1>12. Conserved(s)'
  <2>1. OwedAt(s)' = 0
    BY <1>1, <1>5, <1>10 DEF OwedAt
  <2>2. Leaving(s) = 0 /\ Leaving(s)' = n /\ OwedAt(s) = n
    BY <1>1, <1>2, <1>3 DEF Leaving, Worth
  <2>3. /\ One(decoded[s] # None)' = One(decoded[s] # None) /\ Len(dataNet[s])' = Len(dataNet[s])
        /\ Buffered(s)' = Buffered(s) /\ One(PassedFrom(s))' = One(PassedFrom(s))
        /\ One(nackChannel = s)' = One(nackChannel = s) /\ Coming(s)' = Coming(s)
    BY <1>1 DEF Buffered, PassedFrom, Coming
  <2>4. Spent(s)' = Spent(s)
    <3>1. PICK a, b, c, d, u, o, g, h, i \in Nat :
            /\ One(decoded[s] # None) = a /\ Len(dataNet[s]) = b /\ Buffered(s) = c
            /\ One(PassedFrom(s)) = d /\ UnreadAt(s) = u /\ OwedAt(s) = o
            /\ One(nackChannel = s) = g /\ Leaving(s) = h /\ Coming(s) = i
            /\ Spent(s) = a + b + c + d + u + o + g + h + i
      BY NineShares DEF CInv
    <3>2. o = n /\ h = 0
      BY <2>2, <3>1
    <3>3. Spent(s)' = a + b + c + d + u + 0 + g + n + i
      BY <1>11, <2>1, <2>2, <2>3, <3>1, Zenon DEF Spent
    <3>. QED BY <3>1, <3>2, <3>3
  <2>. QED BY <1>1, <2>4 DEF CInv, ConnectionOK, Conserved
<1>13. CASE ~creditState[p].disconnectPending
  <2>1. /\ creditState'[p].source = s /\ ~creditState'[p].disconnectPending
    BY <1>1, <1>4, <1>13 DEF PortState
  <2>2. Owns(s)' = Owns(s) /\ Owns(s)
    BY <1>1, <1>10, <2>1 DEF Owns
  <2>3. phase[s] # "leaving"
    BY <1>1, <1>7, <1>13 DEF OwnedOK
  <2>4. PhaseOK(s)' /\ OnTheWayOK(s)'
    BY <1>1, <1>7, <1>10, <2>2 DEF PhaseOK, OnTheWayOK, FlitOK, From, PassedFrom
  <2>5. OwnedOK(s)'
    <3>1. \A q \in Port : creditState'[q].source = s => q = p
      BY <1>1, <1>4, <1>7 DEF OwnedOK
    <3>2. \A k \in DOMAIN inputFIFO[p] : inputFIFO[p][k] = s /\ phase[s] = "connected"
      BY <1>1, <1>7 DEF OwnedOK
    <3>. QED BY <1>1, <1>5, <1>7, <1>10, <2>1, <2>3, <3>1, <3>2 DEF OwnedOK
  <2>6. AnswersOK(s)'
    <3>1. \A k : AnswerOK(s, k)' = AnswerOK(s, k)
      BY <1>1, <2>2 DEF AnswerOK
    <3>2. AnswerOK(s, n)
      BY <1>2, <1>7, <1>9, <2>2, <2>3 DEF AnswerOK, One
    <3>. QED BY <1>1, <1>3, <1>7, <2>2, <3>1, <3>2 DEF AnswersOK
  <2>7. ConnectionOK(s)'
    BY <1>12, <2>4, <2>5, <2>6 DEF ConnectionOK
  <2>8. FreePortsOK'
    BY <1>1, <1>4, <2>1, SourceAssumption DEF CInv, FreePortsOK
  <2>. QED BY <1>6, <2>7, <2>8, OneConnection
<1>14. CASE creditState[p].disconnectPending
  <2>1. phase[s] = "leaving" /\ creditState'[p] = Free
    BY <1>1, <1>4, <1>7, <1>14 DEF OwnedOK
  <2>2. /\ decoded[s] = None /\ dataNet[s] = <<>> /\ From(inBuffer, s) = {} /\ ~PassedFrom(s)
        /\ UnreadAt(s) = 0 /\ nackChannel # s /\ creditNet[s] = <<>> /\ n = 1
    BY <1>9, <2>1 DEF NowhereBut
  <2>3. \A q \in Port : creditState'[q].source # s
    BY <1>1, <1>4, <1>7, <2>1, SourceAssumption DEF OwnedOK, Free
  <2>4. ~Owns(s)'
    BY <1>1, <1>10, <2>3 DEF Owns
  <2>5. PhaseOK(s)'
    <3>1. /\ cmt'[s] = cmt[s] /\ phase'[s] = "leaving" /\ cmt[s].acquired
          /\ cmt[s].credits >= Capacity - 1 /\ useCredits(cmt[s])
      BY <1>1, <1>7, <2>1 DEF PhaseOK
    <3>. QED BY <2>4, <3>1 DEF PhaseOK
  <2>6. OwnedOK(s)'
    BY <2>3 DEF OwnedOK
  <2>7. OnTheWayOK(s)'
    BY <1>1, <2>2 DEF OnTheWayOK, From, PassedFrom
  <2>8. AnswersOK(s)'
    <3>1. AnswerOK(s, n)'
      BY <1>1, <2>1, <2>2, <2>4 DEF AnswerOK
    <3>. QED BY <1>1, <1>3, <2>2, <3>1 DEF AnswersOK
  <2>9. ConnectionOK(s)'
    BY <1>12, <2>5, <2>6, <2>7, <2>8 DEF ConnectionOK
  <2>10. FreePortsOK'
    <3>1. inputFIFO[p] = <<>>
      <4>1. inputFIFO[p] \in Seq(Source) /\ Len(inputFIFO[p]) = 0
        BY <1>1, <2>2 DEF UnreadAt, CInv, IInv, FlitsOK
      <4>. QED BY <4>1, EmptySeq
    <3>2. ~Free.disconnectPending
      BY DEF Free
    <3>. QED BY <1>1, <1>4, <2>1, <3>1, <3>2 DEF CInv, FreePortsOK
  <2>. QED BY <1>6, <2>9, <2>10, OneConnection
<1>. QED BY <1>13, <1>14

(* So does a credit flit that leaves for its source.                       *)
LEMMA TakeCreditKeeps ==
  ASSUME CInv, IInv', TakeCredit
  PROVE  CInv'
<1>1. /\ oCredit # None /\ oCredit' = None
      /\ creditNet' = [creditNet EXCEPT ![oCredit.channel] = Append(@, oCredit.count)]
      /\ UNCHANGED <<cmt, phase, decoded, dataNet, inBuffer, outBuffer, creditState, nackChannel, inputFIFO>>
  BY DEF TakeCredit, program, unit
<1>2. PICK s \in Source, n \in Nat : s = oCredit.channel /\ n = oCredit.count
  BY <1>1 DEF CInv, IInv, FlitsOK, CreditFlit
<1>3. /\ creditNet[s] \in Seq(Nat) /\ creditNet'[s] = Append(creditNet[s], n)
      /\ \A t \in Source \ {s} : creditNet'[t] = creditNet[t]
  BY <1>1, <1>2 DEF CInv, IInv, FlitsOK
<1>4. /\ Len(creditNet[s]) \in Nat /\ DOMAIN creditNet[s] = 1 .. Len(creditNet[s])
      /\ DOMAIN creditNet'[s] = 1 .. Len(creditNet[s]) + 1
      /\ \A k \in 1 .. Len(creditNet[s]) : creditNet'[s][k] = creditNet[s][k]
      /\ creditNet'[s][Len(creditNet[s]) + 1] = n
  <2>1. creditNet'[s] \in Seq(Nat)
    BY DEF IInv, FlitsOK
  <2>. QED BY <1>3, <2>1, AppendProperties, LenProperties
<1>5. \A t \in Source \ {s} : Untouched(t)
  <2> SUFFICES ASSUME NEW t \in Source \ {s} PROVE Untouched(t)
    OBVIOUS
  <2>1. /\ (oCredit # None /\ oCredit.channel = t)' = (oCredit # None /\ oCredit.channel = t)
        /\ oCredit # None /\ oCredit.channel = t => UNCHANGED oCredit
    BY <1>1, <1>2
  <2>2. PassedFrom(t)' = PassedFrom(t) /\ Buffered(t)' = Buffered(t) /\ From(inBuffer, t)' = From(inBuffer, t)
    BY <1>1 DEF PassedFrom, Buffered, From
  <2>. QED BY <1>1, <1>3, <2>1, <2>2 DEF Untouched
<1>6. Target(s)' = Target(s) /\ Owns(s)' = Owns(s)
  BY <1>1 DEF Target, Owns
<1>7. PhaseOK(s)' /\ OwnedOK(s)' /\ OnTheWayOK(s)'
  BY <1>1, <1>6 DEF CInv, ConnectionOK, PhaseOK, OwnedOK, OnTheWayOK, FlitOK, From, PassedFrom
<1>8. AnswersOK(s)'
  <2>1. \A k : AnswerOK(s, k)' = AnswerOK(s, k)
    BY <1>1, <1>6 DEF AnswerOK
  <2>2. AnswersOK(s) /\ AnswerOK(s, n)
    BY <1>1, <1>2 DEF CInv, ConnectionOK, AnswersOK
  <2>3. \A k \in DOMAIN creditNet'[s] : AnswerOK(s, creditNet'[s][k])
    <3> SUFFICES ASSUME NEW k \in 1 .. Len(creditNet[s]) + 1 PROVE AnswerOK(s, creditNet'[s][k])
      BY <1>4
    <3>1. CASE k = Len(creditNet[s]) + 1
      BY <1>4, <2>2, <3>1
    <3>2. CASE k \in 1 .. Len(creditNet[s])
      BY <1>4, <2>2, <3>2 DEF AnswersOK
    <3>. QED BY <1>4, <3>1, <3>2
  <2>. QED BY <1>1, <1>6, <2>1, <2>2, <2>3 DEF AnswersOK
<1>9. Conserved(s)'
  <2>1. Leaving(s) = Worth(n) /\ Leaving(s)' = 0
    BY <1>1, <1>2 DEF Leaving
  <2>2. Coming(s)' = Coming(s) + Worth(n)
    <3>1. Cardinality(Returning(Append(creditNet[s], n))) = Cardinality(Returning(creditNet[s])) + Worth(n)
      BY <1>3, ReturningAppend
    <3>. QED BY <1>3, <3>1 DEF Coming
  <2>3. /\ One(decoded[s] # None)' = One(decoded[s] # None) /\ Len(dataNet[s])' = Len(dataNet[s])
        /\ Buffered(s)' = Buffered(s) /\ One(PassedFrom(s))' = One(PassedFrom(s))
        /\ UnreadAt(s)' = UnreadAt(s) /\ OwedAt(s)' = OwedAt(s)
        /\ One(nackChannel = s)' = One(nackChannel = s)
    BY <1>1, <1>6 DEF Buffered, PassedFrom, UnreadAt, OwedAt
  <2>4. Spent(s)' = Spent(s)
    <3>1. PICK a, b, c, d, u, o, g, h, i \in Nat :
            /\ One(decoded[s] # None) = a /\ Len(dataNet[s]) = b /\ Buffered(s) = c
            /\ One(PassedFrom(s)) = d /\ UnreadAt(s) = u /\ OwedAt(s) = o
            /\ One(nackChannel = s) = g /\ Leaving(s) = h /\ Coming(s) = i
            /\ Spent(s) = a + b + c + d + u + o + g + h + i
      BY NineShares DEF CInv
    <3>2. Coming(s)' = i + h
      BY <2>1, <2>2, <3>1, Zenon
    <3>3. Spent(s)' = a + b + c + d + u + o + g + 0 + (i + h)
      BY <2>1, <2>3, <3>1, <3>2, Zenon DEF Spent
    <3>. QED BY <3>1, <3>3
  <2>. QED BY <1>1, <2>4 DEF CInv, ConnectionOK, Conserved
<1>10. ConnectionOK(s)'
  BY <1>7, <1>8, <1>9 DEF ConnectionOK
<1>11. FreePortsOK'
  BY <1>1 DEF CInv, FreePortsOK
<1>. QED BY <1>5, <1>10, <1>11, OneConnection

-----------------------------------------------------------------------------
(* A word enters the FIFO of its port, and leaves it.                      *)
LEMMA DeliverKeeps ==
  ASSUME CInv, IInv', Deliver
  PROVE  CInv'
<1>1. /\ outBuffer # None /\ outBuffer' = None
      /\ inputFIFO' = [inputFIFO EXCEPT ![outBuffer.port] = Append(@, outBuffer.source)]
      /\ UNCHANGED <<cmt, phase, decoded, dataNet, inBuffer, creditState, nackChannel, oCredit, creditNet>>
  BY DEF Deliver, program, unit
<1>2. outBuffer \in Flit
  BY <1>1 DEF CInv, IInv, FlitsOK
<1>3. PICK s \in Source, p \in Port : s = outBuffer.source /\ p = outBuffer.port
  BY <1>2 DEF Flit
<1>4. PassedFrom(s) /\ FlitOK(s, outBuffer) /\ ~outBuffer.allocate
  BY <1>1, <1>3 DEF PassedFrom, CInv, ConnectionOK, OnTheWayOK
<1>5. phase[s] = "connected" /\ Target(s) = p /\ Owns(s) /\ creditState[p].source = s
  BY <1>3, <1>4 DEF FlitOK, CInv, ConnectionOK, PhaseOK, Owns
<1>6. /\ inputFIFO[p] \in Seq(Source) /\ inputFIFO'[p] = Append(inputFIFO[p], s)
      /\ \A q \in Port \ {p} : inputFIFO'[q] = inputFIFO[q]
  BY <1>1, <1>3 DEF CInv, IInv, FlitsOK
<1>7. /\ Len(inputFIFO[p]) \in Nat /\ DOMAIN inputFIFO[p] = 1 .. Len(inputFIFO[p])
      /\ Len(inputFIFO'[p]) = Len(inputFIFO[p]) + 1
      /\ DOMAIN inputFIFO'[p] = 1 .. Len(inputFIFO[p]) + 1
      /\ \A k \in 1 .. Len(inputFIFO[p]) : inputFIFO'[p][k] = inputFIFO[p][k]
      /\ inputFIFO'[p][Len(inputFIFO[p]) + 1] = s
  <2>1. inputFIFO'[p] \in Seq(Source)
    BY DEF IInv, FlitsOK
  <2>. QED BY <1>6, <2>1, AppendProperties, LenProperties
<1>8. \A t \in Source \ {s} : Untouched(t)
  <2> SUFFICES ASSUME NEW t \in Source \ {s} PROVE Untouched(t)
    OBVIOUS
  <2>1. \A q \in Port : creditState[q].source = t \/ creditState'[q].source = t =>
          UNCHANGED <<creditState[q], inputFIFO[q]>>
    BY <1>1, <1>5, <1>6
  <2>2. ~PassedFrom(t) /\ ~PassedFrom(t)'
    BY <1>1, <1>3 DEF PassedFrom
  <2>3. PassedFrom(t)' = PassedFrom(t) /\ (PassedFrom(t) => UNCHANGED outBuffer)
    BY <2>2 DEF PassedFrom
  <2>4. Buffered(t)' = Buffered(t) /\ From(inBuffer, t)' = From(inBuffer, t)
    BY <1>1 DEF Buffered, From
  <2>. QED BY <1>1, <2>1, <2>3, <2>4 DEF Untouched
<1>9. Target(s)' = Target(s) /\ Owns(s)' = Owns(s)
  BY <1>1 DEF Target, Owns
<1>10. PhaseOK(s)' /\ AnswersOK(s)'
  BY <1>1, <1>9 DEF CInv, ConnectionOK, PhaseOK, AnswersOK, AnswerOK
<1>11. OnTheWayOK(s)'
  <2>1. \A g : FlitOK(s, g)' = FlitOK(s, g)
    BY <1>1, <1>9 DEF FlitOK
  <2>. QED BY <1>1, <2>1 DEF CInv, ConnectionOK, OnTheWayOK, From, PassedFrom
<1>12. OwnedOK(s)'
  <2>1. OwnedOK(s)
    BY DEF CInv, ConnectionOK
  <2>2. \A q \in Port : creditState[q].source = s => q = p
    BY <1>5, <2>1 DEF OwnedOK
  <2>3. \A k \in DOMAIN inputFIFO'[p] : inputFIFO'[p][k] = s
    <3> SUFFICES ASSUME NEW k \in 1 .. Len(inputFIFO[p]) + 1 PROVE inputFIFO'[p][k] = s
      BY <1>7
    <3>1. CASE k = Len(inputFIFO[p]) + 1
      BY <1>7, <3>1
    <3>2. CASE k \in 1 .. Len(inputFIFO[p])
      BY <1>5, <1>7, <2>1, <3>2 DEF OwnedOK
    <3>. QED BY <1>7, <3>1, <3>2
  <2>. QED BY <1>1, <1>5, <1>9, <2>1, <2>2, <2>3 DEF OwnedOK
<1>13. Conserved(s)'
  <2>1. One(PassedFrom(s)) = 1 /\ One(PassedFrom(s))' = 0
    BY <1>1, <1>4 DEF One, PassedFrom
  <2>2. UnreadAt(s)' = UnreadAt(s) + 1
    BY <1>5, <1>7, <1>9 DEF UnreadAt
  <2>3. /\ One(decoded[s] # None)' = One(decoded[s] # None) /\ Len(dataNet[s])' = Len(dataNet[s])
        /\ Buffered(s)' = Buffered(s) /\ OwedAt(s)' = OwedAt(s)
        /\ One(nackChannel = s)' = One(nackChannel = s)
        /\ Leaving(s)' = Leaving(s) /\ Coming(s)' = Coming(s)
    BY <1>1, <1>9 DEF Buffered, OwedAt, Leaving, Coming
  <2>4. Spent(s)' = Spent(s)
    <3>1. PICK a, b, c, d, u, o, g, h, i \in Nat :
            /\ One(decoded[s] # None) = a /\ Len(dataNet[s]) = b /\ Buffered(s) = c
            /\ One(PassedFrom(s)) = d /\ UnreadAt(s) = u /\ OwedAt(s) = o
            /\ One(nackChannel = s) = g /\ Leaving(s) = h /\ Coming(s) = i
            /\ Spent(s) = a + b + c + d + u + o + g + h + i
      BY NineShares DEF CInv
    <3>2. d = 1 /\ UnreadAt(s)' = u + 1
      BY <2>1, <2>2, <3>1
    <3>3. Spent(s)' = a + b + c + 0 + (u + 1) + o + g + h + i
      BY <2>1, <2>3, <3>1, <3>2, Zenon DEF Spent
    <3>. QED BY <3>1, <3>2, <3>3
  <2>. QED BY <1>1, <2>4 DEF CInv, ConnectionOK, Conserved
<1>14. ConnectionOK(s)'
  BY <1>10, <1>11, <1>12, <1>13 DEF ConnectionOK
<1>15. FreePortsOK'
  BY <1>1, <1>5, <1>6, SourceAssumption DEF CInv, FreePortsOK
<1>. QED BY <1>8, <1>14, <1>15, OneConnection

(* Only a connected source has words unread, so no release is pending.     *)
LEMMA ConsumeKeeps ==
  ASSUME NumChannels <= NumCores, CInv, IInv', NEW p \in Port, Consume(p)
  PROVE  CInv'
<1>1. /\ inputFIFO[p] # <<>>
      /\ inputFIFO' = [inputFIFO EXCEPT ![p] = Tail(@)]
      /\ addCredit(p, creditState[p])
      /\ UNCHANGED <<cmt, phase, decoded, dataNet, inBuffer, outBuffer, nackChannel, oCredit, creditNet>>
  BY IndexRoundTrip DEF Consume, program
<1>2. /\ inputFIFO[p] \in Seq(Source) /\ inputFIFO'[p] = Tail(inputFIFO[p])
      /\ \A q \in Port \ {p} : inputFIFO'[q] = inputFIFO[q]
  BY <1>1 DEF CInv, IInv, FlitsOK
<1>3. /\ Len(inputFIFO[p]) \in Nat \ {0} /\ DOMAIN inputFIFO[p] = 1 .. Len(inputFIFO[p])
      /\ Len(inputFIFO'[p]) = Len(inputFIFO[p]) - 1 /\ DOMAIN inputFIFO'[p] = 1 .. Len(inputFIFO[p]) - 1
      /\ \A k \in 1 .. Len(inputFIFO[p]) - 1 : inputFIFO'[p][k] = inputFIFO[p][k + 1]
  <2>1. PICK w \in Seq(Source) : w = inputFIFO[p] /\ w # <<>>
    BY <1>1, <1>2
  <2>2. /\ Len(w) \in Nat \ {0} /\ DOMAIN w = 1 .. Len(w)
        /\ Tail(w) \in Seq(Source) /\ Len(Tail(w)) = Len(w) - 1
        /\ \A k \in 1 .. Len(Tail(w)) : Tail(w)[k] = w[k + 1]
    BY <2>1, HeadTailProperties, LenProperties, EmptySeq
  <2>3. DOMAIN Tail(w) = 1 .. Len(w) - 1
    BY <2>2, LenProperties
  <2>. QED BY <1>2, <2>1, <2>2, <2>3
<1>4. creditState[p].source # None /\ creditState[p] \in PortState
  BY <1>1 DEF CInv, IInv, UnitOK, FreePortsOK
<1>5. PICK s \in Source : s = creditState[p].source
  BY <1>4 DEF PortState
<1>6. OwnedOK(s)
  BY DEF CInv, ConnectionOK
<1>7. Target(s) = p /\ Owns(s) /\ phase[s] = "connected" /\ \A q \in Port : creditState[q].source = s => q = p
  <2>1. 1 \in DOMAIN inputFIFO[p]
    BY <1>3
  <2>2. Target(s) = p /\ phase[s] = "connected"
    BY <1>5, <1>6, <2>1 DEF OwnedOK
  <2>3. \A q \in Port : creditState[q].source = s => q = p
    BY <1>6, <2>2 DEF OwnedOK
  <2>. QED BY <1>5, <2>2, <2>3 DEF Owns
<1>8. ~creditState[p].disconnectPending /\ creditState[p].useCredits
  BY <1>5, <1>6, <1>7, SourceAssumption DEF OwnedOK, CInv, IInv, UnitOK, Bookkeeping
<1>9. /\ creditState'[p].source = s /\ ~creditState'[p].disconnectPending
      /\ creditState'[p].creditsPending = creditState[p].creditsPending + 1
      /\ \A q \in Port \ {p} : creditState'[q] = creditState[q]
  <2>1. creditState' = [creditState EXCEPT ![p] = [creditState[p] EXCEPT !.creditsPending = @ + 1]]
    BY <1>1, <1>8 DEF addCredit
  <2>2. /\ creditState'[p] = [creditState[p] EXCEPT !.creditsPending = @ + 1]
        /\ \A q \in Port \ {p} : creditState'[q] = creditState[q]
    BY <2>1 DEF CInv, IInv, UnitOK
  <2>. QED BY <1>4, <1>5, <1>8, <2>2 DEF PortState
<1>10. \A t \in Source \ {s} : Untouched(t)
  <2> SUFFICES ASSUME NEW t \in Source \ {s} PROVE Untouched(t)
    OBVIOUS
  <2>1. \A q \in Port : creditState[q].source = t \/ creditState'[q].source = t =>
          UNCHANGED <<creditState[q], inputFIFO[q]>>
    BY <1>2, <1>5, <1>9
  <2>2. PassedFrom(t)' = PassedFrom(t) /\ Buffered(t)' = Buffered(t) /\ From(inBuffer, t)' = From(inBuffer, t)
    BY <1>1 DEF PassedFrom, Buffered, From
  <2>. QED BY <1>1, <2>1, <2>2 DEF Untouched
<1>11. Target(s)' = Target(s) /\ Owns(s)' = Owns(s) /\ Owns(s)'
  BY <1>1, <1>7, <1>9 DEF Target, Owns
<1>12. PhaseOK(s)' /\ OnTheWayOK(s)' /\ AnswersOK(s)'
  <2>1. PhaseOK(s) /\ OnTheWayOK(s) /\ AnswersOK(s)
    BY DEF CInv, ConnectionOK
  <2>2. PhaseOK(s)'
    BY <1>1, <1>11, <2>1 DEF PhaseOK
  <2>3. OnTheWayOK(s)'
    BY <1>1, <1>11, <2>1 DEF OnTheWayOK, FlitOK, From, PassedFrom
  <2>4. AnswersOK(s)'
    BY <1>1, <1>11, <2>1 DEF AnswersOK, AnswerOK
  <2>. QED BY <2>2, <2>3, <2>4
<1>13. OwnedOK(s)'
  <2>1. \A q \in Port : creditState'[q].source = s => q = p
    BY <1>7, <1>9
  <2>2. \A k \in DOMAIN inputFIFO'[p] : inputFIFO'[p][k] = s
    <3> SUFFICES ASSUME NEW k \in 1 .. Len(inputFIFO[p]) - 1 PROVE inputFIFO'[p][k] = s
      BY <1>3
    <3>1. k + 1 \in DOMAIN inputFIFO[p] /\ inputFIFO'[p][k] = inputFIFO[p][k + 1]
      BY <1>3
    <3>. QED BY <1>5, <1>6, <3>1 DEF OwnedOK
  <2>. QED BY <1>1, <1>7, <1>9, <1>11, <2>1, <2>2 DEF OwnedOK
<1>14. Conserved(s)'
  <2>1. UnreadAt(s)' = UnreadAt(s) - 1
    BY <1>3, <1>7, <1>11 DEF UnreadAt
  <2>2. OwedAt(s)' = OwedAt(s) + 1
    BY <1>7, <1>9, <1>11 DEF OwedAt
  <2>3. /\ One(decoded[s] # None)' = One(decoded[s] # None) /\ Len(dataNet[s])' = Len(dataNet[s])
        /\ Buffered(s)' = Buffered(s) /\ One(PassedFrom(s))' = One(PassedFrom(s))
        /\ One(nackChannel = s)' = One(nackChannel = s)
        /\ Leaving(s)' = Leaving(s) /\ Coming(s)' = Coming(s)
    BY <1>1 DEF Buffered, PassedFrom, Leaving, Coming
  <2>4. Spent(s)' = Spent(s)
    <3>1. PICK a, b, c, d, u, o, g, h, i \in Nat :
            /\ One(decoded[s] # None) = a /\ Len(dataNet[s]) = b /\ Buffered(s) = c
            /\ One(PassedFrom(s)) = d /\ UnreadAt(s) = u /\ OwedAt(s) = o
            /\ One(nackChannel = s) = g /\ Leaving(s) = h /\ Coming(s) = i
            /\ Spent(s) = a + b + c + d + u + o + g + h + i
      BY NineShares DEF CInv
    <3>2. UnreadAt(s)' = u - 1 /\ OwedAt(s)' = o + 1
      BY <2>1, <2>2, <3>1
    <3>3. Spent(s)' = a + b + c + d + (u - 1) + (o + 1) + g + h + i
      BY <2>3, <3>1, <3>2, Zenon DEF Spent
    <3>. QED BY <3>1, <3>3
  <2>. QED BY <1>1, <2>4 DEF CInv, ConnectionOK, Conserved
<1>15. ConnectionOK(s)'
  BY <1>12, <1>13, <1>14 DEF ConnectionOK
<1>16. FreePortsOK'
  BY <1>2, <1>5, <1>9, SourceAssumption DEF CInv, FreePortsOK
<1>. QED BY <1>10, <1>15, <1>16, OneConnection

-----------------------------------------------------------------------------
(* No connection is out of order at the start.                             *)
LEMMA ConnectionsStart ==
  ASSUME Init, IInv
  PROVE  CInv
<1>1. ASSUME NEW s \in Source PROVE ConnectionOK(s)
  <2>1. /\ cmt[s] = EmptyEntry /\ phase[s] = "idle" /\ decoded[s] = None /\ dataNet[s] = <<>>
        /\ inBuffer = <<>> /\ outBuffer = None /\ nackChannel = None /\ oCredit = None /\ creditNet[s] = <<>>
    BY DEF Init
  <2>2. \A p \in Port : creditState[p].source # s
    BY SourceAssumption DEF Init, Free
  <2>3. ~useCredits(cmt[s])
    BY <2>1 DEF EmptyEntry, useCredits
  <2>4. From(inBuffer, s) = {} /\ ~PassedFrom(s)
    BY <2>1 DEF From, PassedFrom
  <2>. QED BY <2>1, <2>2, <2>3, <2>4, SourceAssumption
       DEF ConnectionOK, PhaseOK, OwnedOK, OnTheWayOK, AnswersOK, Conserved
<1>2. FreePortsOK
  BY DEF Init, Free, FreePortsOK
<1>. QED BY <1>1, <1>2 DEF CInv

(* No step puts a connection out of order.                                 *)
LEMMA ConnectionsKept ==
  ASSUME NumChannels <= NumCores, DrainBeforeRelease, ~SquashUnacquired,
         CInv, IInv', [Next]_vars
  PROVE  CInv'
<1>1. CASE UNCHANGED vars
  <2>1. \A t \in Source : Untouched(t)
    BY <1>1 DEF vars, unit, Untouched, Buffered, From, PassedFrom
  <2>2. FreePortsOK'
    BY <1>1 DEF vars, CInv, FreePortsOK
  <2>. QED BY <2>1, <2>2, UntouchedKeeps DEF CInv
<1>2. ASSUME NEW s \in Source, NEW p \in Connectable, Connect(s, p) PROVE CInv'
  BY <1>2, ConnectKeeps
<1>3. ASSUME NEW s \in Source, Send(s) PROVE CInv'
  BY <1>3, DecodeKeeps DEF Send
<1>4. ASSUME NEW s \in Source, Pipeline(s) PROVE CInv'
  BY <1>4, ExecuteKeeps, SquashKeeps DEF Pipeline
<1>5. ASSUME NEW s \in Source, AllCreditsBack(s) \/ ReceiveCredit(s) \/ Arrive(s) PROVE CInv'
  BY <1>5, AllCreditsBackKeeps, ReceiveCreditKeeps, ArriveKeeps
<1>6. ASSUME NEW p \in Port, Consume(p) PROVE CInv'
  BY <1>6, ConsumeKeeps
<1>7. CASE Unit
  BY <1>7, ArrivedKeeps, NackSent, CreditsSent DEF Unit
<1>8. CASE Networks
  BY <1>8, TakeCreditKeeps, DeliverKeeps DEF Networks
<1>. QED BY <1>1, <1>2, <1>3, <1>4, <1>5, <1>6, <1>7, <1>8 DEF Next

(* The invariant holds of programs that drain a channel before they        *)
(* release it, and whose claims are not predicated away.                   *)
LEMMA ConnectionInvariant ==
  ASSUME NumChannels <= NumCores, DrainBeforeRelease, ~SquashUnacquired
  PROVE  Spec => []CInv
<1>1. Init /\ IInv => CInv
  BY ConnectionsStart
<1>2. CInv /\ IInv' /\ [Next]_vars => CInv'
  BY ConnectionsKept
<1>. QED BY <1>1, <1>2, InvariantHolds, PTL DEF Spec

-----------------------------------------------------------------------------
(* The shares of the invariant are the sets that CreditsOf counts.         *)
LEMMA UnreadShare ==
  ASSUME CInv, NEW s \in Source
  PROVE  Cardinality(UnreadFrom(s)) = UnreadAt(s)
<1> DEFINE part(p) == {p} \X {k \in DOMAIN inputFIFO[p] : inputFIFO[p][k] = s}
<1>1. ASSUME NEW p \in Port, NEW k \in DOMAIN inputFIFO[p], inputFIFO[p][k] = s
      PROVE  creditState[p].source = s /\ Target(s) = p /\ Owns(s)
  <2>1. creditState[p].source # None
    BY <1>1 DEF CInv, FreePortsOK
  <2>2. PICK t \in Source : t = creditState[p].source
    BY <2>1 DEF CInv, IInv, UnitOK, PortState
  <2>3. t = s /\ Target(s) = p
    BY <1>1, <2>2 DEF CInv, ConnectionOK, OwnedOK
  <2>. QED BY <2>2, <2>3 DEF Owns
<1>2. CASE ~Owns(s)
  <2>1. UnreadFrom(s) = {}
    BY <1>1, <1>2 DEF UnreadFrom
  <2>. QED BY <1>2, <2>1, FS_EmptySet DEF UnreadAt
<1>3. CASE Owns(s)
  <2>1. PICK p \in Port : p = Target(s)
    BY <1>3 DEF Owns
  <2>2. PICK n \in Nat : n = Len(inputFIFO[p]) /\ DOMAIN inputFIFO[p] = 1 .. n
    <3>1. inputFIFO[p] \in Seq(Source)
      BY DEF CInv, IInv, FlitsOK
    <3>. QED BY <3>1, LenProperties
  <2>3. \A k \in 1 .. n : inputFIFO[p][k] = s
    BY <1>3, <2>1, <2>2 DEF CInv, ConnectionOK, OwnedOK, Owns
  <2>4. UnreadFrom(s) = {p} \X (1 .. n)
    <3>1. {k \in DOMAIN inputFIFO[p] : inputFIFO[p][k] = s} = 1 .. n
      BY <2>2, <2>3
    <3>2. \A q \in Port \ {p} : {k \in DOMAIN inputFIFO[q] : inputFIFO[q][k] = s} = {}
      BY <1>1, <2>1
    <3>3. UnreadFrom(s) = UNION {{q} \X {k \in DOMAIN inputFIFO[q] : inputFIFO[q][k] = s} : q \in Port}
      BY DEF UnreadFrom
    <3>4. \A w : w \in UnreadFrom(s) <=>
                   \E q \in Port : w \in {q} \X {k \in DOMAIN inputFIFO[q] : inputFIFO[q][k] = s}
      BY <3>3
    <3>5. \A w \in UnreadFrom(s) : w \in {p} \X (1 .. n)
      BY <3>1, <3>2, <3>4
    <3>6. \A w \in {p} \X (1 .. n) : w \in UnreadFrom(s)
      BY <3>1, <3>4
    <3>. QED BY <3>5, <3>6
  <2>5. IsFiniteSet({p}) /\ Cardinality({p}) = 1
    BY FS_Singleton
  <2>6. IsFiniteSet(1 .. n) /\ Cardinality(1 .. n) = n
    BY FS_Interval
  <2>7. Cardinality({p} \X (1 .. n)) = 1 * n
    BY <2>5, <2>6, FS_Product
  <2>. QED BY <1>3, <2>1, <2>2, <2>4, <2>7 DEF UnreadAt
<1>. QED BY <1>2, <1>3

(* All that ports owe a source is owed by the port it owns.                *)
LEMMA OwedShare ==
  ASSUME CInv, NEW s \in Source
  PROVE  Cardinality(OwedTo(s)) = OwedAt(s)
<1>1. \A p \in Port : creditState[p].source = s => Target(s) = p /\ Owns(s)
  BY DEF CInv, ConnectionOK, OwnedOK, Owns
<1>2. CASE ~Owns(s)
  <2>1. OwedTo(s) = {}
    BY <1>1, <1>2 DEF OwedTo
  <2>. QED BY <1>2, <2>1, FS_EmptySet DEF OwedAt
<1>3. CASE Owns(s)
  <2>1. PICK p \in Port : p = Target(s) /\ creditState[p].source = s
    BY <1>3 DEF Owns
  <2>2. PICK n \in Nat : n = creditState[p].creditsPending
    BY DEF CInv, IInv, UnitOK, PortState
  <2>3. {q \in Port : creditState[q].source = s} = {p}
    BY <1>1, <2>1
  <2>4. OwedTo(s) = {p} \X (1 .. n)
    BY <2>2, <2>3 DEF OwedTo
  <2>5. IsFiniteSet({p}) /\ Cardinality({p}) = 1
    BY FS_Singleton
  <2>6. IsFiniteSet(1 .. n) /\ Cardinality(1 .. n) = n
    BY FS_Interval
  <2>7. Cardinality({p} \X (1 .. n)) = 1 * n
    BY <2>5, <2>6, FS_Product
  <2>. QED BY <1>3, <2>1, <2>2, <2>4, <2>7 DEF OwedAt
<1>. QED BY <1>2, <1>3

(* A program that drains its channel before it releases it, and whose      *)
(* claims are not predicated away, loses no credit and gains none, in the  *)
(* pipeline, the networks, the unit or the FIFOs.                          *)
THEOREM CreditsAreConserved ==
  ASSUME NumChannels <= NumCores, DrainBeforeRelease, ~SquashUnacquired
  PROVE  Spec => []CreditsConserved
<1>1. CInv => CreditsConserved
  <2> SUFFICES ASSUME CInv, NEW s \in Source, useCredits(cmt[s])
               PROVE  CreditsOf(s) = Capacity
    BY DEF CreditsConserved
  <2>1. cmt[s].credits + Spent(s) = Capacity
    BY DEF CInv, ConnectionOK, Conserved
  <2>2. PICK a, b, c, d, u, o, g, h, i \in Nat :
          /\ One(decoded[s] # None) = a /\ Len(dataNet[s]) = b /\ Buffered(s) = c
          /\ One(PassedFrom(s)) = d /\ UnreadAt(s) = u /\ OwedAt(s) = o
          /\ One(nackChannel = s) = g /\ Leaving(s) = h /\ Coming(s) = i
          /\ Spent(s) = a + b + c + d + u + o + g + h + i
    BY NineShares DEF CInv
  <2>3. PICK n \in Nat : n = cmt[s].credits
    <3>1. cmt[s].credits \in 0 .. 63
      BY Amounts DEF CInv
    <3>. QED BY <3>1
  <2>4. CreditsOf(s) = n + a + b + c + d + u + o + g + h + i
    BY <2>2, <2>3, UnreadShare, OwedShare, Zenon DEF CreditsOf, Buffered, Leaving, Coming
  <2>5. n + (a + b + c + d + u + o + g + h + i) = Capacity
    BY <2>1, <2>2, <2>3, Zenon
  <2>6. n + a + b + c + d + u + o + g + h + i = n + (a + b + c + d + u + o + g + h + i)
    OBVIOUS
  <2>. QED BY <2>4, <2>5, <2>6, Zenon
<1>. QED BY <1>1, ConnectionInvariant, PTL

(* No source claims a channel that it holds, and a channel that is free    *)
(* owes nothing: the assertions of rejectPortClaim and acceptPortClaim.    *)
THEOREM ClaimsMeetSettled ==
  ASSUME NumChannels <= NumCores, DrainBeforeRelease, ~SquashUnacquired
  PROVE  Spec => []ClaimsMeetSettledPorts
<1>1. CInv => ClaimsMeetSettledPorts
  <2> SUFFICES ASSUME CInv PROVE FreePortsOweNothing /\ NoSecondClaim
    BY DEF ClaimsMeetSettledPorts
  <2>1. FreePortsOweNothing
    BY InvariantSuffices DEF CInv
  <2>2. ASSUME inBuffer # <<>>, Head(inBuffer).allocate, ~Head(inBuffer).acquired
        PROVE  creditState[Head(inBuffer).port].source # Head(inBuffer).source
    <3>1. PICK f \in Flit : f = Head(inBuffer) /\ f = inBuffer[1] /\ 1 \in DOMAIN inBuffer
      <4>1. inBuffer \in Seq(Flit)
        BY DEF CInv, IInv, FlitsOK
      <4>. QED BY <2>2, <4>1, HeadTailProperties, LenProperties, EmptySeq
    <3>2. FlitOK(f.source, f) /\ f.port \in Port
      BY <3>1 DEF Flit, From, CInv, ConnectionOK, OnTheWayOK
    <3>. QED BY <2>2, <3>1, <3>2 DEF FlitOK, Owns
  <2>. QED BY <2>1, <2>2 DEF NoSecondClaim
<1>. QED BY <1>1, ConnectionInvariant, PTL

-----------------------------------------------------------------------------
(* The refinement of RemoteChannel.  The credits of a connection are with  *)
(* its words or elsewhere, so a step that changes nothing elsewhere moves  *)
(* words without losing any.                                               *)
Words(s) == Len(dataNet[s]) + Buffered(s) + One(PassedFrom(s)) + UnreadAt(s)
Elsewhere(s) ==
  cmt[s].credits + One(decoded[s] # None) + OwedAt(s) + One(nackChannel = s) + Leaving(s) + Coming(s)

Balanced(s) ==
  phase[s] # "idle" =>
    Words(s) \in Nat /\ Elsewhere(s) \in Nat /\ Words(s) + Elsewhere(s) = Capacity

WordsAt(p) ==
  /\ creditState[p].source = None => Unread(p) = 0
  /\ \A s \in Source : creditState[p].source = s =>
       /\ phase[s] \in {"claiming", "connected", "leaving"}
       /\ Unread(p) = IF phase[s] = "connected" THEN Words(s) ELSE 0

Accounts == (\A s \in Source : Balanced(s)) /\ \A p \in Port : WordsAt(p)

(* Of a source with a connection, its counter holds what its words do      *)
(* not.                                                                    *)
LEMMA BalanceKept ==
  ASSUME CInv, NEW s \in Source
  PROVE  Balanced(s)
<1> SUFFICES ASSUME phase[s] # "idle"
             PROVE  Words(s) \in Nat /\ Elsewhere(s) \in Nat /\ Words(s) + Elsewhere(s) = Capacity
  BY DEF Balanced
<1>1. PICK a, b, c, d, u, o, g, h, i \in Nat :
        /\ One(decoded[s] # None) = a /\ Len(dataNet[s]) = b /\ Buffered(s) = c
        /\ One(PassedFrom(s)) = d /\ UnreadAt(s) = u /\ OwedAt(s) = o
        /\ One(nackChannel = s) = g /\ Leaving(s) = h /\ Coming(s) = i
        /\ Spent(s) = a + b + c + d + u + o + g + h + i
  BY NineShares DEF CInv
<1>2. PICK n \in Nat : n = cmt[s].credits
  BY Balance
<1>3. n + (a + b + c + d + u + o + g + h + i) = Capacity
  <2>1. cmt[s].credits + Spent(s) = Capacity
    BY Balance
  <2>. QED BY <1>1, <1>2, <2>1, Zenon
<1>4. Words(s) = b + c + d + u
  BY <1>1, Zenon DEF Words
<1>5. Elsewhere(s) = n + a + o + g + h + i
  BY <1>1, <1>2, Zenon DEF Elsewhere
<1>6. /\ b + c + d + u \in Nat /\ n + a + o + g + h + i \in Nat
      /\ (b + c + d + u) + (n + a + o + g + h + i) = n + (a + b + c + d + u + o + g + h + i)
  OBVIOUS
<1>. QED BY <1>3, <1>4, <1>5, <1>6, Zenon

(* Only the connected owner of a port has words for it anywhere.           *)
LEMMA WordsHaveOwners ==
  ASSUME CInv, NEW p \in Port
  PROVE  /\ \A t \in Source : \A k \in DOMAIN dataNet[t] :
              IsWordFor(dataNet[t][k], p) <=> phase[t] = "connected" /\ creditState[p].source = t
         /\ \A k \in DOMAIN inBuffer :
              IsWordFor(inBuffer[k], p) <=> /\ phase[inBuffer[k].source] = "connected"
                                            /\ creditState[p].source = inBuffer[k].source
         /\ outBuffer # None => \A t \in Source : outBuffer.source = t =>
              (outBuffer.port = p <=> phase[t] = "connected" /\ creditState[p].source = t)
<1>1. ASSUME NEW t \in Source, NEW f, FlitOK(t, f)
      PROVE  IsWordFor(f, p) <=> phase[t] = "connected" /\ creditState[p].source = t
  <2>1. CASE phase[t] = "connected"
    <3>1. Target(t) \in Port /\ creditState[Target(t)].source = t
      BY <2>1 DEF CInv, ConnectionOK, PhaseOK, Owns
    <3>2. creditState[p].source = t => Target(t) = p
      BY DEF CInv, ConnectionOK, OwnedOK
    <3>3. ~f.allocate /\ f.port = Target(t)
      BY <1>1, <2>1 DEF FlitOK
    <3>. QED BY <2>1, <3>1, <3>2, <3>3 DEF IsWordFor
  <2>2. CASE phase[t] # "connected"
    <3>1. f.allocate
      BY <1>1, <2>2 DEF FlitOK
    <3>. QED BY <2>2, <3>1 DEF IsWordFor
  <2>. QED BY <2>1, <2>2
<1>2. \A t \in Source : \A k \in DOMAIN dataNet[t] :
        IsWordFor(dataNet[t][k], p) <=> phase[t] = "connected" /\ creditState[p].source = t
  BY <1>1 DEF CInv, ConnectionOK, OnTheWayOK
<1>3. ASSUME NEW k \in DOMAIN inBuffer
      PROVE  IsWordFor(inBuffer[k], p) <=> /\ phase[inBuffer[k].source] = "connected"
                                           /\ creditState[p].source = inBuffer[k].source
  <2>1. inBuffer[k].source \in Source
    <3>1. inBuffer \in Seq(Flit)
      BY DEF CInv, IInv, FlitsOK
    <3>2. inBuffer[k] \in Flit
      BY <3>1, ElementOfSeq, LenProperties
    <3>. QED BY <3>2 DEF Flit
  <2>2. FlitOK(inBuffer[k].source, inBuffer[k])
    BY <2>1 DEF CInv, ConnectionOK, OnTheWayOK, From
  <2>. QED BY <1>1, <2>1, <2>2
<1>4. ASSUME outBuffer # None, NEW t \in Source, outBuffer.source = t
      PROVE  outBuffer.port = p <=> phase[t] = "connected" /\ creditState[p].source = t
  <2>1. FlitOK(t, outBuffer) /\ ~outBuffer.allocate
    BY <1>4 DEF CInv, ConnectionOK, OnTheWayOK, PassedFrom
  <2>2. IsWordFor(outBuffer, p) <=> phase[t] = "connected" /\ creditState[p].source = t
    BY <1>1, <2>1
  <2>. QED BY <2>1, <2>2 DEF IsWordFor
<1>. QED BY <1>2, <1>3, <1>4

(* The words for a port are those of its owner.                            *)
LEMMA WordsCounted ==
  ASSUME CInv, NEW p \in Port
  PROVE  WordsAt(p)
<1> DEFINE sent == UNION {{s} \X {k \in DOMAIN dataNet[s] : IsWordFor(dataNet[s][k], p)} : s \in Source}
           waiting == {k \in DOMAIN inBuffer : IsWordFor(inBuffer[k], p)}
           passed == outBuffer # None /\ outBuffer.port = p
<1>1. Unread(p) = Cardinality(sent) + Cardinality(waiting) + One(passed) + Len(inputFIFO[p])
  BY DEF Unread
<1>2. outBuffer # None => outBuffer.source \in Source
  BY DEF CInv, IInv, FlitsOK, Flit
<1>3. \A k \in DOMAIN inBuffer : inBuffer[k].source \in Source
  <2>1. inBuffer \in Seq(Flit)
    BY DEF CInv, IInv, FlitsOK
  <2>2. \A k \in DOMAIN inBuffer : inBuffer[k] \in Flit
    BY <2>1, ElementOfSeq, LenProperties
  <2>. QED BY <2>2 DEF Flit
<1>4. inputFIFO[p] \in Seq(Source)
  BY DEF CInv, IInv, FlitsOK
<1>5. ASSUME \A t \in Source : ~(phase[t] = "connected" /\ creditState[p].source = t)
      PROVE  Unread(p) = 0
  <2>1. sent = {} /\ waiting = {} /\ ~passed
    <3>1. sent = {}
      BY <1>5, WordsHaveOwners
    <3>2. waiting = {}
      BY <1>3, <1>5, WordsHaveOwners
    <3>3. ~passed
      BY <1>2, <1>5, WordsHaveOwners
    <3>. QED BY <3>1, <3>2, <3>3
  <2>2. Len(inputFIFO[p]) = 0
    <3>1. CASE creditState[p].source = None
      BY <3>1, EmptySeq DEF CInv, FreePortsOK
    <3>2. CASE creditState[p].source # None
      <4>1. PICK t \in Source : t = creditState[p].source
        BY <3>2 DEF CInv, IInv, UnitOK, PortState
      <4>2. DOMAIN inputFIFO[p] = {}
        BY <1>5, <4>1 DEF CInv, ConnectionOK, OwnedOK
      <4>3. Len(inputFIFO[p]) \in Nat /\ DOMAIN inputFIFO[p] = 1 .. Len(inputFIFO[p])
        BY <1>4, LenProperties
      <4>4. 1 \notin 1 .. Len(inputFIFO[p])
        BY <4>2, <4>3
      <4>. QED BY <4>3, <4>4
    <3>. QED BY <3>1, <3>2
  <2>3. Cardinality(sent) = 0 /\ Cardinality(waiting) = 0 /\ One(passed) = 0
    BY <2>1, FS_EmptySet DEF One
  <2> HIDE DEF sent, waiting, passed
  <2>. QED BY <1>1, <2>2, <2>3
<1>6. ASSUME NEW s \in Source, creditState[p].source = s, phase[s] = "connected"
      PROVE  Unread(p) = Words(s)
  <2>1. Target(s) = p /\ Owns(s)
    BY <1>6 DEF CInv, ConnectionOK, OwnedOK, Owns
  <2>2. Cardinality(sent) = Len(dataNet[s]) /\ Len(dataNet[s]) \in Nat
    <3>1. PICK n \in Nat : n = Len(dataNet[s]) /\ DOMAIN dataNet[s] = 1 .. n
      <4>1. dataNet[s] \in Seq(Flit)
        BY DEF CInv, IInv, FlitsOK
      <4>. QED BY <4>1, LenProperties
    <3>2. {k \in DOMAIN dataNet[s] : IsWordFor(dataNet[s][k], p)} = 1 .. n
      BY <1>6, <3>1, WordsHaveOwners
    <3>3. \A t \in Source \ {s} : {k \in DOMAIN dataNet[t] : IsWordFor(dataNet[t][k], p)} = {}
      BY <1>6, WordsHaveOwners
    <3>4. sent = {s} \X (1 .. n)
      <4>1. \A w : w \in sent <=>
              \E t \in Source : w \in {t} \X {k \in DOMAIN dataNet[t] : IsWordFor(dataNet[t][k], p)}
        OBVIOUS
      <4> HIDE DEF sent
      <4>2. \A w \in sent : w \in {s} \X (1 .. n)
        BY <3>2, <3>3, <4>1
      <4>3. \A w \in {s} \X (1 .. n) : w \in sent
        BY <3>2, <4>1
      <4>. QED BY <4>2, <4>3
    <3>5. IsFiniteSet({s}) /\ Cardinality({s}) = 1
      BY FS_Singleton
    <3>6. IsFiniteSet(1 .. n) /\ Cardinality(1 .. n) = n
      BY FS_Interval
    <3>7. Cardinality({s} \X (1 .. n)) = 1 * n
      BY <3>5, <3>6, FS_Product
    <3> HIDE DEF sent
    <3>. QED BY <3>1, <3>4, <3>7
  <2>3. Cardinality(waiting) = Buffered(s)
    <3>1. waiting = From(inBuffer, s)
      <4>1. \A k \in DOMAIN inBuffer : IsWordFor(inBuffer[k], p) <=> inBuffer[k].source = s
        BY <1>3, <1>6, WordsHaveOwners
      <4>. QED BY <4>1 DEF From
    <3>. QED BY <3>1 DEF Buffered
  <2>4. One(passed) = One(PassedFrom(s))
    <3>1. passed <=> PassedFrom(s)
      BY <1>2, <1>6, WordsHaveOwners DEF PassedFrom
    <3>. QED BY <3>1 DEF One
  <2>5. Len(inputFIFO[p]) = UnreadAt(s)
    BY <2>1 DEF UnreadAt
  <2> HIDE DEF sent, waiting, passed
  <2>. QED BY <1>1, <2>2, <2>3, <2>4, <2>5, Zenon DEF Words
<1>7. CASE creditState[p].source = None
  <2>1. \A t \in Source : ~(phase[t] = "connected" /\ creditState[p].source = t)
    BY <1>7, SourceAssumption
  <2>. QED BY <1>5, <1>7, <2>1, SourceAssumption DEF WordsAt
<1>8. ASSUME NEW s \in Source, creditState[p].source = s
      PROVE  WordsAt(p)
  <2>1. phase[s] \in {"claiming", "connected", "leaving"}
    BY <1>8 DEF CInv, ConnectionOK, OwnedOK
  <2>2. phase[s] # "connected" => Unread(p) = 0
    BY <1>5, <1>8
  <2>3. phase[s] = "connected" => Unread(p) = Words(s)
    BY <1>6, <1>8
  <2>4. creditState[p].source # None
    BY <1>8, SourceAssumption
  <2>. QED BY <1>8, <2>1, <2>2, <2>3, <2>4 DEF WordsAt
<1>9. creditState[p].source \in Source \cup {None}
  BY DEF CInv, IInv, UnitOK, PortState
<1>. QED BY <1>7, <1>8, <1>9

-----------------------------------------------------------------------------
Owner == [p \in Port |-> creditState[p].source]
Pending == [p \in Port |-> Unread(p)]

(* A port whose owner has as many credits elsewhere as before has as many  *)
(* words; so has one where nothing that holds words has changed.           *)
LEMMA WordsFollow ==
  ASSUME NEW p \in Port, WordsAt(p), WordsAt(p)', creditState[p].source \in Source \cup {None},
         creditState'[p].source = creditState[p].source,
         \A s \in Source : creditState[p].source = s =>
           /\ Balanced(s) /\ Balanced(s)' /\ phase'[s] = phase[s] /\ Elsewhere(s)' = Elsewhere(s)
  PROVE  Unread(p)' = Unread(p)
<1>1. CASE creditState[p].source = None
  BY <1>1 DEF WordsAt
<1>2. CASE creditState[p].source \in Source
  <2>1. PICK s \in Source : s = creditState[p].source
    BY <1>2
  <2>2. phase[s] # "idle" /\ phase'[s] = phase[s] /\ Elsewhere(s)' = Elsewhere(s)
    BY <2>1 DEF WordsAt
  <2>3. /\ Words(s) \in Nat /\ Elsewhere(s) \in Nat /\ Words(s) + Elsewhere(s) = Capacity
        /\ Words(s)' \in Nat /\ Words(s)' + Elsewhere(s) = Capacity
    BY <2>1, <2>2 DEF Balanced
  <2>4. Words(s)' = Words(s)
    BY <2>3
  <2>. QED BY <2>1, <2>2, <2>4 DEF WordsAt
<1>. QED BY <1>1, <1>2

(* No word is sent or read while networks, unit and FIFOs keep theirs.     *)
LEMMA NothingMoved ==
  ASSUME UNCHANGED <<dataNet, inBuffer, outBuffer, inputFIFO>>
  PROVE  \A p \in Port : Unread(p)' = Unread(p)
BY DEF Unread

(* A step that keeps owners and words is no step of the abstract           *)
(* channel.                                                                *)
LEMMA Stutters ==
  ASSUME \A p \in Port : creditState'[p].source = creditState[p].source /\ Unread(p)' = Unread(p)
  PROVE  UNCHANGED <<Owner, Pending>>
BY DEF Owner, Pending

(* A data flit takes the credit that its instruction held, so there is     *)
(* room for it; the flits of claims and releases are no words.             *)
LEMMA ExecutePuts ==
  ASSUME CInv, CInv', Accounts, Accounts', NEW s \in Source, Execute(s)
  PROVE  \/ UNCHANGED <<Owner, Pending>>
         \/ \E p \in Port : Owner[p] = s /\ Pending[p] < Capacity
                            /\ Pending' = [Pending EXCEPT ![p] = @ + 1] /\ UNCHANGED Owner
<1>1. /\ decoded[s] # None /\ decoded' = [decoded EXCEPT ![s] = None]
      /\ phase' = [phase EXCEPT ![s] = CASE decoded[s] = "claim"   -> "claiming"
                                         [] decoded[s] = "data"    -> @
                                         [] decoded[s] = "release" -> "leaving"]
      /\ UNCHANGED <<cmt, creditState, nackChannel, oCredit, creditNet>>
  BY DEF Execute, unit
<1>2. /\ decoded'[s] = None
      /\ phase'[s] = CASE decoded[s] = "claim"   -> "claiming"
                       [] decoded[s] = "data"    -> phase[s]
                       [] decoded[s] = "release" -> "leaving"
      /\ \A t \in Source \ {s} : UNCHANGED <<decoded[t], phase[t]>>
  BY <1>1 DEF CInv, IInv, ProgramOK
<1>3. \A t \in Source : /\ OwedAt(t)' = OwedAt(t) /\ Leaving(t)' = Leaving(t) /\ Coming(t)' = Coming(t)
                        /\ One(nackChannel = t)' = One(nackChannel = t) /\ cmt'[t] = cmt[t]
  BY <1>1 DEF OwedAt, Owns, Target, Leaving, Coming
<1>4. \A t \in Source \ {s} : Elsewhere(t)' = Elsewhere(t)
  BY <1>2, <1>3 DEF Elsewhere
<1>5. \A p \in Port : creditState[p].source # s => Unread(p)' = Unread(p)
  <2> SUFFICES ASSUME NEW p \in Port, creditState[p].source # s PROVE Unread(p)' = Unread(p)
    OBVIOUS
  <2>1. creditState[p].source \in Source \cup {None} /\ creditState'[p].source = creditState[p].source
    BY <1>1 DEF CInv, IInv, UnitOK, PortState
  <2>. QED BY <1>2, <1>4, <2>1, WordsFollow DEF Accounts
<1>6. Elsewhere(s) \in Nat => Elsewhere(s)' = Elsewhere(s) - 1
  <2>1. PICK n \in Nat, o \in Nat, g \in Nat, h \in Nat, i \in Nat :
          cmt[s].credits = n /\ OwedAt(s) = o /\ One(nackChannel = s) = g /\ Leaving(s) = h /\ Coming(s) = i
    <3>1. cmt[s].credits \in Nat /\ OwedAt(s) \in Nat /\ Leaving(s) \in Nat /\ Coming(s) \in Nat
      <4>1. cmt[s].credits \in 0 .. 63
        BY Amounts DEF CInv
      <4>2. OwedAt(s) \in Nat /\ Leaving(s) \in Nat /\ Coming(s) \in Nat
        BY Amounts, Zenon DEF CInv
      <4>. QED BY <4>1, <4>2
    <3>2. One(nackChannel = s) \in Nat
      BY DEF One
    <3>. QED BY <3>1, <3>2, Zenon
  <2>2. One(decoded[s] # None) = 1 /\ One(decoded[s] # None)' = 0
    BY <1>1, <1>2 DEF One
  <2>3. Elsewhere(s) = n + 1 + o + g + h + i /\ Elsewhere(s)' = n + 0 + o + g + h + i
    BY <1>3, <2>1, <2>2, Zenon DEF Elsewhere
  <2>4. n + 0 + o + g + h + i = (n + 1 + o + g + h + i) - 1
    OBVIOUS
  <2>. QED BY <2>3, <2>4, Zenon
<1>7. CASE \E p \in Port : creditState[p].source = s
  <2>1. PICK p \in Port : creditState[p].source = s
    BY <1>7
  <2>2. Target(s) = p /\ phase[s] = "connected" /\ Owns(s)
    BY <1>1, <2>1 DEF CInv, IInv, ProgramOK, Pointed, ConnectionOK, OwnedOK, Owns
  <2>3. \A q \in Port \ {p} : Unread(q)' = Unread(q)
    BY <1>5, <2>2 DEF CInv, ConnectionOK, OwnedOK
  <2>4. /\ Words(s) \in Nat /\ Elsewhere(s) \in Nat /\ Words(s) + Elsewhere(s) = Capacity
        /\ Unread(p) = Words(s)
    BY <2>1, <2>2 DEF Accounts, Balanced, WordsAt
  <2>5. decoded[s] \in {"data", "release"} /\ (decoded[s] = "release" => cmt[s].credits = Capacity - 1)
    BY <1>1, <2>2 DEF CInv, ConnectionOK, PhaseOK
  <2>6. CASE decoded[s] = "data"
    <3>1. phase'[s] = "connected"
      BY <1>2, <2>2, <2>6
    <3>2. Words(s)' \in Nat /\ Elsewhere(s)' \in Nat /\ Words(s)' + Elsewhere(s)' = Capacity
      BY <3>1 DEF Accounts, Balanced
    <3>3. Unread(p)' = Words(s)'
      BY <1>1, <2>1, <3>1 DEF Accounts, WordsAt
    <3>4. PICK w \in Nat, e \in Nat, v \in Nat :
            /\ w = Words(s) /\ e = Elsewhere(s) /\ v = Words(s)' /\ w + e = Capacity
            /\ v + (e - 1) = Capacity /\ e - 1 \in Nat
      BY <1>6, <2>4, <3>2
    <3>5. v = w + 1 /\ w < Capacity
      BY <3>4, SizeAssumption DEF INFINITE_CREDIT_COUNT
    <3>6. Unread(p)' = Unread(p) + 1 /\ Unread(p) < Capacity
      BY <2>4, <3>3, <3>4, <3>5, Zenon
    <3>7. UNCHANGED Owner /\ Owner[p] = s /\ Pending[p] = Unread(p)
      BY <1>1, <2>1 DEF Owner, Pending
    <3>8. Pending' = [Pending EXCEPT ![p] = @ + 1]
      BY <2>3, <3>6 DEF Pending
    <3>. QED BY <3>6, <3>7, <3>8
  <2>7. CASE decoded[s] = "release"
    <3>1. Unread(p)' = 0
      <4>1. phase'[s] = "leaving"
        BY <1>2, <2>7
      <4>. QED BY <1>1, <2>1, <4>1 DEF Accounts, WordsAt
    <3>2. Unread(p) = 0
      <4>1. Spent(s) = 1
        BY <2>2, <2>5, <2>7, Balance
      <4>2. PICK place : NowhereBut(s, place)
        BY <4>1, Spending DEF CInv
      <4>3. NowhereBut(s, "pipeline")
        BY <1>1, <4>2 DEF NowhereBut
      <4>4. Len(dataNet[s]) = 0 /\ Buffered(s) = 0 /\ One(PassedFrom(s)) = 0 /\ UnreadAt(s) = 0
        BY <4>3, Amounts DEF NowhereBut, CInv
      <4>5. Words(s) = 0 + 0 + 0 + 0
        BY <4>4, Zenon DEF Words
      <4>. QED BY <2>4, <4>5
    <3>3. \A q \in Port : creditState'[q].source = creditState[q].source /\ Unread(q)' = Unread(q)
      BY <1>1, <2>3, <3>1, <3>2
    <3>. QED BY <3>3, Stutters
  <2>. QED BY <2>5, <2>6, <2>7
<1>8. CASE ~\E p \in Port : creditState[p].source = s
  BY <1>1, <1>5, <1>8, Stutters
<1>. QED BY <1>7, <1>8

(* Credits that are given to a port are its owner's.                       *)
LEMMA OwnersKept ==
  ASSUME CInv, NEW p \in Port, NEW state \in PortState, addCredit(p, state)
  PROVE  /\ creditState'[p].source = state.source
         /\ state.useCredits => creditState'[p].creditsPending = state.creditsPending + 1
         /\ \A q \in Port \ {p} : creditState'[q] = creditState[q]
<1>1. /\ creditState'[p] = IF state.useCredits THEN [state EXCEPT !.creditsPending = @ + 1] ELSE state
      /\ \A q \in Port \ {p} : creditState'[q] = creditState[q]
  BY DEF addCredit, CInv, IInv, UnitOK
<1>2. CASE state.useCredits
  <2>1. creditState'[p] = [state EXCEPT !.creditsPending = @ + 1]
    BY <1>1, <1>2
  <2>. QED BY <1>1, <2>1 DEF PortState
<1>3. CASE ~state.useCredits
  BY <1>1, <1>3
<1>. QED BY <1>2, <1>3

(* Flits that the unit takes are passed on, or are no words: only a grant  *)
(* changes an owner.                                                       *)
LEMMA ArrivedGrants ==
  ASSUME CInv, CInv', Accounts, Accounts', dataArrived
  PROVE  \/ UNCHANGED <<Owner, Pending>>
         \/ \E p \in Port, s \in Source :
              /\ Owner[p] = None /\ Pending[p] = 0
              /\ Owner' = [Owner EXCEPT ![p] = s] /\ UNCHANGED Pending
<1>1. PICK f \in Flit : f = Head(inBuffer)
  BY HeadTaken
<1>2. PICK s \in Source, p \in Port : s = f.source /\ p = f.port
  BY DEF Flit
<1>3. /\ nackChannel = None /\ FlitOK(s, f)
      /\ UNCHANGED <<cmt, phase, decoded, oCredit, creditNet>>
  BY <1>1, <1>2, HeadTaken
<1>4. \A q \in Port : creditState[q] \in PortState /\ creditState[q].source \in Source \cup {None}
  BY DEF CInv, IInv, UnitOK, PortState
<1>5. ASSUME NEW t \in Source, One(nackChannel = t)' = One(nackChannel = t),
             \A q \in Port : creditState[q].source = t \/ creditState'[q].source = t =>
               creditState'[q] = creditState[q]
      PROVE  Elsewhere(t)' = Elsewhere(t)
  <2>1. Target(t)' = Target(t) /\ (Owns(t)' <=> Owns(t))
    BY <1>3, <1>5 DEF Target, Owns
  <2>2. OwedAt(t)' = OwedAt(t)
    <3>1. CASE Owns(t)
      <4>1. creditState'[Target(t)] = creditState[Target(t)]
        BY <1>5, <3>1 DEF Owns
      <4>. QED BY <2>1, <3>1, <4>1 DEF OwedAt
    <3>2. CASE ~Owns(t)
      BY <2>1, <3>2 DEF OwedAt
    <3>. QED BY <3>1, <3>2
  <2>3. /\ cmt'[t] = cmt[t] /\ One(decoded[t] # None)' = One(decoded[t] # None)
        /\ Leaving(t)' = Leaving(t) /\ Coming(t)' = Coming(t)
    BY <1>3 DEF Leaving, Coming
  <2>. QED BY <1>5, <2>2, <2>3 DEF Elsewhere
<1>6. CASE ~f.allocate
  <2>1. UNCHANGED <<creditState, nackChannel>>
    BY <1>1, <1>6 DEF dataArrived, unit
  <2>2. \A t \in Source : Elsewhere(t)' = Elsewhere(t)
    BY <1>5, <2>1
  <2>3. \A q \in Port : Unread(q)' = Unread(q)
    BY <1>3, <1>4, <2>1, <2>2, WordsFollow DEF Accounts
  <2>. QED BY <2>1, <2>3, Stutters
<1>7. CASE f.allocate /\ f.acquired
  <2>1. phase[s] = "leaving" /\ Target(s) = p /\ creditState[p].source = s
    BY <1>2, <1>3, <1>7 DEF FlitOK, Owns
  <2>2. addCredit(p, [creditState[p] EXCEPT !.disconnectPending = TRUE]) /\ UNCHANGED nackChannel
    BY <1>1, <1>2, <1>7 DEF dataArrived, handlePortClaim
  <2>3. /\ [creditState[p] EXCEPT !.disconnectPending = TRUE] \in PortState
        /\ [creditState[p] EXCEPT !.disconnectPending = TRUE].source = s
    BY <1>4, <2>1 DEF PortState
  <2>4. creditState'[p].source = s /\ \A q \in Port \ {p} : creditState'[q] = creditState[q]
    BY <2>2, <2>3, OwnersKept
  <2>5. ASSUME NEW q \in Port PROVE Unread(q)' = Unread(q)
    <3>1. CASE q = p
      BY <1>3, <2>1, <2>4, <3>1 DEF Accounts, WordsAt
    <3>2. CASE q # p
      <4>1. creditState[q].source # s
        BY <2>1, <3>2 DEF CInv, ConnectionOK, OwnedOK
      <4>2. \A t \in Source \ {s} : Elsewhere(t)' = Elsewhere(t)
        BY <1>5, <2>1, <2>2, <2>4
      <4>. QED BY <1>3, <1>4, <2>4, <3>2, <4>1, <4>2, WordsFollow DEF Accounts
    <3>. QED BY <3>1, <3>2
  <2>. QED BY <2>1, <2>4, <2>5, Stutters
<1>8. CASE f.allocate /\ ~f.acquired
  <2>1. phase[s] = "claiming" /\ ~Owns(s) /\ \A q \in Port : creditState[q].source # s
    BY <1>2, <1>3, <1>8 DEF FlitOK, CInv, ConnectionOK, OwnedOK, Owns
  <2>2. CASE creditState[p].source = None
    <3>1. /\ addCredit(p, [creditState[p] EXCEPT !.useCredits = TRUE, !.source = s])
          /\ UNCHANGED nackChannel
      BY <1>1, <1>2, <1>8, <2>2 DEF dataArrived, handlePortClaim, acceptPortClaim
    <3>2. /\ [creditState[p] EXCEPT !.useCredits = TRUE, !.source = s] \in PortState
          /\ [creditState[p] EXCEPT !.useCredits = TRUE, !.source = s].source = s
      BY <1>4 DEF PortState
    <3>3. creditState'[p].source = s /\ \A q \in Port \ {p} : creditState'[q] = creditState[q]
      BY <3>1, <3>2, OwnersKept
    <3>4. \A t \in Source \ {s} : Elsewhere(t)' = Elsewhere(t)
      BY <1>5, <2>2, <3>1, <3>3, SourceAssumption
    <3>5. \A q \in Port \ {p} : Unread(q)' = Unread(q)
      BY <1>3, <1>4, <2>1, <3>3, <3>4, WordsFollow DEF Accounts
    <3>6. Unread(p) = 0 /\ Unread(p)' = 0
      BY <1>3, <2>1, <2>2, <3>3 DEF Accounts, WordsAt
    <3>7. Owner[p] = None /\ Pending[p] = 0 /\ UNCHANGED Pending
      BY <2>2, <3>5, <3>6 DEF Owner, Pending
    <3>8. Owner' = [Owner EXCEPT ![p] = s]
      BY <3>3 DEF Owner
    <3>. QED BY <3>7, <3>8
  <2>3. CASE creditState[p].source # None
    <3>1. nackChannel' = s /\ UNCHANGED creditState
      BY <1>1, <1>2, <1>8, <2>3 DEF dataArrived, handlePortClaim, rejectPortClaim, unit
    <3>2. \A t \in Source \ {s} : One(nackChannel = t)' = One(nackChannel = t)
      BY <1>3, <3>1, SourceAssumption
    <3>3. \A t \in Source \ {s} : Elsewhere(t)' = Elsewhere(t)
      BY <1>5, <3>1, <3>2
    <3>4. \A q \in Port : Unread(q)' = Unread(q)
      BY <1>3, <1>4, <2>1, <3>1, <3>3, WordsFollow DEF Accounts
    <3>. QED BY <3>1, <3>4, Stutters
  <2>. QED BY <2>2, <2>3
<1>. QED BY <1>6, <1>7, <1>8, <1>3 DEF FlitOK

(* A consumed word is the abstract channel's Get.                          *)
LEMMA ConsumeGets ==
  ASSUME NumChannels <= NumCores, CInv, CInv', Accounts, Accounts', NEW p \in Port, Consume(p)
  PROVE  /\ Pending[p] > 0
         /\ Pending' = [Pending EXCEPT ![p] = @ - 1] /\ UNCHANGED Owner
<1>1. /\ inputFIFO[p] # <<>> /\ addCredit(p, creditState[p])
      /\ UNCHANGED <<cmt, phase, decoded, dataNet, inBuffer, outBuffer, nackChannel, oCredit, creditNet>>
  BY IndexRoundTrip DEF Consume, program
<1>2. \A q \in Port : creditState[q] \in PortState /\ creditState[q].source \in Source \cup {None}
  BY DEF CInv, IInv, UnitOK, PortState
<1>3. PICK s \in Source : s = creditState[p].source /\ creditState[p].useCredits
  <2>1. creditState[p].source # None
    BY <1>1 DEF CInv, FreePortsOK
  <2>. QED BY <1>2, <2>1 DEF CInv, IInv, UnitOK, Bookkeeping
<1>4. /\ creditState'[p].source = s
      /\ creditState'[p].creditsPending = creditState[p].creditsPending + 1
      /\ \A q \in Port \ {p} : creditState'[q] = creditState[q]
  BY <1>1, <1>2, <1>3, OwnersKept
<1>5. Target(s) = p /\ Owns(s) /\ phase[s] = "connected"
  <2>1. Target(s) = p
    BY <1>3 DEF CInv, ConnectionOK, OwnedOK
  <2>2. 1 \in DOMAIN inputFIFO[p]
    <3>1. inputFIFO[p] \in Seq(Source)
      BY DEF CInv, IInv, FlitsOK
    <3>. QED BY <1>1, <3>1, LenProperties, EmptySeq
  <2>3. phase[s] = "connected"
    BY <1>3, <2>2 DEF CInv, ConnectionOK, OwnedOK
  <2>. QED BY <1>3, <2>1, <2>3 DEF Owns
<1>6. \A t \in Source : /\ One(decoded[t] # None)' = One(decoded[t] # None) /\ cmt'[t] = cmt[t]
                        /\ One(nackChannel = t)' = One(nackChannel = t) /\ Leaving(t)' = Leaving(t)
                        /\ Coming(t)' = Coming(t) /\ Target(t)' = Target(t)
  BY <1>1 DEF Leaving, Coming, Target
<1>7. ASSUME NEW q \in Port \ {p} PROVE Unread(q)' = Unread(q)
  <2>1. ASSUME NEW t \in Source, creditState[q].source = t PROVE Elsewhere(t)' = Elsewhere(t)
    <3>1. Target(t) = q /\ Owns(t)
      BY <2>1 DEF CInv, ConnectionOK, OwnedOK, Owns
    <3>2. OwedAt(t)' = OwedAt(t)
      BY <1>4, <1>6, <3>1 DEF OwedAt, Owns
    <3>. QED BY <1>6, <3>2 DEF Elsewhere
  <2>. QED BY <1>1, <1>2, <1>4, <2>1, WordsFollow DEF Accounts
<1>8. OwedAt(s)' = OwedAt(s) + 1 /\ OwedAt(s) \in Nat
  <2>1. Owns(s)'
    BY <1>4, <1>5, <1>6 DEF Owns
  <2>2. creditState[p].creditsPending \in Nat
    BY <1>2 DEF PortState
  <2>. QED BY <1>4, <1>5, <1>6, <2>1, <2>2 DEF OwedAt
<1>9. Elsewhere(s) \in Nat => Elsewhere(s)' = Elsewhere(s) + 1
  <2>1. PICK n \in Nat, a \in Nat, o \in Nat, g \in Nat, h \in Nat, i \in Nat :
          /\ cmt[s].credits = n /\ One(decoded[s] # None) = a /\ OwedAt(s) = o
          /\ One(nackChannel = s) = g /\ Leaving(s) = h /\ Coming(s) = i
    <3>1. cmt[s].credits \in Nat /\ OwedAt(s) \in Nat /\ Leaving(s) \in Nat /\ Coming(s) \in Nat
      <4>1. cmt[s].credits \in 0 .. 63
        BY Amounts DEF CInv
      <4>2. OwedAt(s) \in Nat /\ Leaving(s) \in Nat /\ Coming(s) \in Nat
        BY Amounts, Zenon DEF CInv
      <4>. QED BY <4>1, <4>2
    <3>2. One(nackChannel = s) \in Nat /\ One(decoded[s] # None) \in Nat
      BY DEF One
    <3>. QED BY <3>1, <3>2, Zenon
  <2>2. OwedAt(s)' = o + 1
    BY <1>8, <2>1
  <2>3. Elsewhere(s) = n + a + o + g + h + i /\ Elsewhere(s)' = n + a + (o + 1) + g + h + i
    BY <1>6, <2>1, <2>2, Zenon DEF Elsewhere
  <2>4. n + a + (o + 1) + g + h + i = (n + a + o + g + h + i) + 1
    OBVIOUS
  <2>. QED BY <2>3, <2>4, Zenon
<1>10. /\ Words(s) \in Nat /\ Elsewhere(s) \in Nat /\ Words(s) + Elsewhere(s) = Capacity
       /\ Words(s)' \in Nat /\ Elsewhere(s)' \in Nat /\ Words(s)' + Elsewhere(s)' = Capacity
       /\ Unread(p) = Words(s) /\ Unread(p)' = Words(s)'
  <2>1. Balanced(s) /\ Balanced(s)' /\ WordsAt(p) /\ WordsAt(p)' /\ phase'[s] = "connected"
    BY <1>1, <1>5 DEF Accounts
  <2>. QED BY <1>3, <1>4, <1>5, <2>1 DEF Balanced, WordsAt
<1>11. Unread(p) > 0 /\ Unread(p)' = Unread(p) - 1
  <2>1. PICK w \in Nat, e \in Nat, v \in Nat :
          /\ w = Words(s) /\ e = Elsewhere(s) /\ v = Words(s)' /\ w + e = Capacity
          /\ v + (e + 1) = Capacity
    BY <1>9, <1>10
  <2>2. v = w - 1 /\ w > 0
    BY <2>1
  <2>. QED BY <1>10, <2>1, <2>2, Zenon
<1>12. Pending[p] = Unread(p) /\ UNCHANGED Owner
  BY <1>3, <1>4 DEF Pending, Owner
<1>13. Pending' = [Pending EXCEPT ![p] = @ - 1]
  BY <1>7, <1>11 DEF Pending
<1>. QED BY <1>11, <1>12, <1>13

(* A connection is taken down when none of its words is left.              *)
LEMMA CreditsRelease ==
  ASSUME NumChannels <= NumCores, CInv, Accounts, Accounts', sendCredits
  PROVE  \/ UNCHANGED <<Owner, Pending>>
         \/ \E p \in Port : /\ Owner[p] # None /\ Pending[p] = 0
                            /\ Owner' = [Owner EXCEPT ![p] = None] /\ UNCHANGED Pending
<1>1. \A q \in Port : Unread(q)' = Unread(q)
  BY NothingMoved DEF sendCredits
<1>2. CASE nackChannel # None
  <2>1. UNCHANGED creditState
    BY <1>2 DEF sendCredits, sendNackFlit, unit
  <2>. QED BY <1>1, <2>1, Stutters
<1>3. CASE nackChannel = None
  <2>1. PICK p \in Port, s \in Source :
          /\ creditState[p].source = s /\ creditState[p] \in PortState
          /\ creditState' = [creditState EXCEPT ![p] =
               IF creditState[p].disconnectPending THEN Free
               ELSE [creditState[p] EXCEPT !.creditsPending = 0]]
    BY <1>3, PortServed
  <2>2. /\ creditState'[p] = IF creditState[p].disconnectPending THEN Free
                             ELSE [creditState[p] EXCEPT !.creditsPending = 0]
        /\ \A q \in Port \ {p} : creditState'[q] = creditState[q]
    BY <2>1 DEF CInv, IInv, UnitOK
  <2>3. CASE ~creditState[p].disconnectPending
    <3>1. creditState'[p].source = creditState[p].source
      BY <2>1, <2>2, <2>3 DEF PortState
    <3>. QED BY <1>1, <2>2, <3>1, Stutters
  <2>4. CASE creditState[p].disconnectPending
    <3>1. creditState'[p].source = None
      BY <2>2, <2>4 DEF Free
    <3>2. Unread(p)' = 0
      BY <3>1 DEF Accounts, WordsAt
    <3>3. Owner[p] # None /\ Pending[p] = 0 /\ UNCHANGED Pending
      BY <1>1, <2>1, <3>2, SourceAssumption DEF Owner, Pending
    <3>4. Owner' = [Owner EXCEPT ![p] = None]
      BY <2>2, <3>1 DEF Owner
    <3>. QED BY <3>3, <3>4
  <2>. QED BY <2>3, <2>4
<1>. QED BY <1>2, <1>3

(* Words move on without change of their number.                           *)
LEMMA WordsMove ==
  ASSUME CInv, Accounts, Accounts',
         UNCHANGED <<cmt, phase, decoded, creditState, nackChannel, oCredit, creditNet>>
  PROVE  UNCHANGED <<Owner, Pending>>
<1>1. \A t \in Source : Elsewhere(t)' = Elsewhere(t)
  BY DEF Elsewhere, OwedAt, Owns, Target, Leaving, Coming
<1>2. \A q \in Port : creditState[q].source \in Source \cup {None}
  BY DEF CInv, IInv, UnitOK, PortState
<1>3. \A q \in Port : Unread(q)' = Unread(q)
  BY <1>1, <1>2, WordsFollow DEF Accounts
<1>. QED BY <1>3, Stutters

(* Every step is a step of RemoteChannel, or changes no owner and no       *)
(* word.                                                                   *)
LEMMA StepsRefine ==
  ASSUME NumChannels <= NumCores, CInv, CInv', Accounts, Accounts', [Next]_vars
  PROVE  [Channels!Next]_<<Owner, Pending>>
<1> USE DEF Channels!Next
<1>1. CASE UNCHANGED vars
  <2>1. UNCHANGED <<dataNet, inBuffer, outBuffer, inputFIFO, creditState>>
    BY <1>1 DEF vars
  <2>. QED BY <2>1, NothingMoved, Stutters
<1>2. ASSUME NEW s \in Source,
             \/ \E p \in Connectable : Connect(s, p)
             \/ Send(s) \/ Squash(s) \/ AllCreditsBack(s) \/ ReceiveCredit(s)
      PROVE  UNCHANGED <<Owner, Pending>>
  <2>1. UNCHANGED <<dataNet, inBuffer, outBuffer, inputFIFO, creditState>>
    BY <1>2 DEF Connect, Send, Decode, Squash, AllCreditsBack, ReceiveCredit, unit
  <2>. QED BY <2>1, NothingMoved, Stutters
<1>3. ASSUME NEW s \in Source, Execute(s) PROVE [Channels!Next]_<<Owner, Pending>>
  <2>1. CASE UNCHANGED <<Owner, Pending>>
    BY <2>1
  <2>2. ASSUME NEW p \in Port, Owner[p] = s, Pending[p] < Capacity,
               Pending' = [Pending EXCEPT ![p] = @ + 1], UNCHANGED Owner
        PROVE  Channels!Put(p, s)
    BY <2>2 DEF Channels!Put, Owner, Pending
  <2>. QED BY <1>3, <2>1, <2>2, ExecutePuts
<1>4. ASSUME NEW s \in Source, Arrive(s) PROVE UNCHANGED <<Owner, Pending>>
  <2>1. UNCHANGED <<cmt, phase, decoded, creditState, nackChannel, oCredit, creditNet>>
    BY <1>4 DEF Arrive, program, unit
  <2>. QED BY <2>1, WordsMove
<1>5. ASSUME NEW p \in Port, Consume(p) PROVE Channels!Get(p)
  BY <1>5, ConsumeGets DEF Channels!Get, Owner, Pending
<1>6. CASE dataArrived
  <2>1. CASE UNCHANGED <<Owner, Pending>>
    BY <2>1
  <2>2. ASSUME NEW p \in Port, NEW s \in Source, Owner[p] = None, Pending[p] = 0,
               Owner' = [Owner EXCEPT ![p] = s], UNCHANGED Pending
        PROVE  Channels!Grant(p, s)
    BY <2>2 DEF Channels!Grant, Owner, Pending
  <2>. QED BY <1>6, <2>1, <2>2, ArrivedGrants
<1>7. CASE sendCredits
  <2>1. CASE UNCHANGED <<Owner, Pending>>
    BY <2>1
  <2>2. ASSUME NEW p \in Port, Owner[p] # None, Pending[p] = 0,
               Owner' = [Owner EXCEPT ![p] = None], UNCHANGED Pending
        PROVE  Channels!Release(p)
    BY <2>2 DEF Channels!Release, Owner, Pending
  <2>. QED BY <1>7, <2>1, <2>2, CreditsRelease
<1>8. CASE TakeCredit
  <2>1. UNCHANGED <<dataNet, inBuffer, outBuffer, inputFIFO, creditState>>
    BY <1>8 DEF TakeCredit, unit
  <2>. QED BY <2>1, NothingMoved, Stutters
<1>9. CASE Deliver
  <2>1. UNCHANGED <<cmt, phase, decoded, creditState, nackChannel, oCredit, creditNet>>
    BY <1>9 DEF Deliver, program, unit
  <2>. QED BY <2>1, WordsMove
<1>. QED BY <1>1, <1>2, <1>3, <1>4, <1>5, <1>6, <1>7, <1>8, <1>9 DEF Next, Pipeline, Unit, Networks

(* The unit, the entries and the networks implement RemoteChannel: a       *)
(* channel has one owner at a time and changes hands empty; only its owner *)
(* sends to it, never more than its FIFO holds.                            *)
THEOREM ChannelsAreImplemented ==
  ASSUME NumChannels <= NumCores, DrainBeforeRelease, ~SquashUnacquired
  PROVE  Spec => ImplementsRemoteChannel
<1>1. CInv => Accounts
  BY BalanceKept, WordsCounted DEF Accounts
<1>2. Init /\ CInv /\ Accounts => Channels!Init
  <2> SUFFICES ASSUME Init, Accounts PROVE Channels!Init
    OBVIOUS
  <2>1. \A p \in Port : creditState[p].source = None
    BY DEF Init, Free
  <2>2. \A p \in Port : Unread(p) = 0
    BY <2>1 DEF Accounts, WordsAt
  <2>. QED BY <2>1, <2>2 DEF Channels!Init
<1>3. CInv /\ CInv' /\ Accounts /\ Accounts' /\ [Next]_vars => [Channels!Next]_<<Owner, Pending>>
  BY StepsRefine
<1>4. Spec => []CInv
  BY ConnectionInvariant
<1>. QED BY <1>1, <1>2, <1>3, <1>4, PTL
     DEF Spec, ImplementsRemoteChannel, Channels!ChannelSpec, Owner, Pending

=============================================================================
