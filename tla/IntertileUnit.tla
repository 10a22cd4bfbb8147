---------------------------- MODULE IntertileUnit ----------------------------
(***************************************************************************)
(* Core-to-core communication between tiles: the intertile unit of one     *)
(* tile (Tile/Network/IntertileUnit), which grants the input channels of   *)
(* its cores to remote senders and returns credits to them; the channel    *)
(* map entries of those senders (ChannelMapEntry) with the pipeline stages *)
(* that take and give back their credits; and the two networks between.    *)
(*                                                                         *)
(* A Source is a channel map entry of a core on another tile, and stands   *)
(* for the program that uses it too.  Channels are claimed and released by *)
(* sendconfig instructions (only their immediate sets allocate/acquired),  *)
(* so the order of claims, sends and releases is the program's: it claims, *)
(* waits with woche until its credits are all back, looks at the acquired  *)
(* bit, sends, and releases.                                               *)
(***************************************************************************)
EXTENDS ChannelMapEntry, RoundRobinArbiter, Sequences, FiniteSets

CONSTANTS
  Source,            \* channel map entries on other tiles
  NumCores,          \* cores of this tile
  NumChannels,       \* input channels of each core
  Connectable,       \* the input channels programs use for remote data
  Capacity,          \* size of a core's input FIFO, and first credit count
  InBufferSize,      \* flits that IntertileUnit::inBuffer holds
  DrainBeforeRelease,\* a program releases a channel with all its credits back
  SquashUnacquired   \* a predicated send may turn out not to execute even
                     \* before the channel is acquired

Core == 0..(NumCores - 1)
Channel == 0..(NumChannels - 1)
Port == Core \X Channel

ASSUME SourceAssumption == None \notin Source
ASSUME PortAssumption ==
  /\ NumCores \in Nat \ {0}
  /\ NumChannels \in Nat \ {0}
  /\ Connectable \subseteq Port
ASSUME SizeAssumption ==
  /\ Capacity \in 1..(INFINITE_CREDIT_COUNT - 1)
  /\ InBufferSize \in Nat \ {0}
ASSUME ProgramAssumption ==
  /\ DrainBeforeRelease \in BOOLEAN
  /\ SquashUnacquired \in BOOLEAN

VARIABLES
  cmt,                 \* source -> channel map entry
  phase,               \* source -> what its program is doing with it
  decoded,             \* source -> the send between decode and execute
  dataNet,             \* source -> its flits on the data network, in order
  inBuffer,            \* flits waiting in the intertile unit
  outBuffer,           \* the flit it passes on to the cores, or None
  creditState,         \* port -> who holds it and what it is owed
  nackChannel,         \* the source to refuse, or None
  creditsOutstanding,  \* indices of the ports with credits to send
  lastAccepted,        \* state of the arbiter between them
  oCredit,             \* the credit flit leaving the tile, or None
  creditNet,           \* source -> counts on the credit network, in order
  inputFIFO            \* port -> senders of the flits a core has not read

program == <<cmt, phase, decoded>>
unit == <<creditState, creditsOutstanding>>
vars == <<cmt, phase, decoded, dataNet, inBuffer, outBuffer, creditState,
          nackChannel, creditsOutstanding, lastAccepted, oCredit, creditNet, inputFIFO>>

Flit == [allocate : BOOLEAN, acquired : BOOLEAN, source : Source, port : Port]
CreditFlit == [channel : Source, count : Nat]
ASSUME NoneAssumption == None \notin {"claim", "data", "release"} \cup Flit \cup CreditFlit

-----------------------------------------------------------------------------
(* Flow control signals are flattened to one index per channel, and turned *)
(* back: both use the number of cores as the length of a row.              *)
addressToIndex(port) == port[1] * NumCores + port[2]
indexToAddress(index) == <<index \div NumCores, index % NumCores>>

PortState == [source : Source \cup {None}, creditsPending : Nat,
              useCredits : BOOLEAN, disconnectPending : BOOLEAN]
Free == [source |-> None, creditsPending |-> 0, useCredits |-> FALSE, disconnectPending |-> FALSE]

(* addCredit() on a port whose state is being replaced by `state`: the     *)
(* port joins the list of ports to serve with its first credit only.       *)
addCredit(port, state) ==
  /\ creditState' = [creditState EXCEPT ![port] =
       IF state.useCredits THEN [state EXCEPT !.creditsPending = @ + 1] ELSE state]
  /\ creditsOutstanding' = creditsOutstanding \cup
       (IF state.useCredits /\ state.creditsPending = 0 THEN {addressToIndex(port)} ELSE {})

-----------------------------------------------------------------------------
(* The senders.  A program gives its entry the whole input FIFO as credit  *)
(* when it points it at a channel.                                         *)
Connect(s, port) ==
  /\ phase[s] \in {"idle", "open"}
  /\ decoded[s] = None
  /\ cmt' = [cmt EXCEPT ![s] = write(@, port, Capacity, TRUE)]
  /\ phase' = [phase EXCEPT ![s] = "open"]
  /\ UNCHANGED <<decoded, dataNet, inBuffer, outBuffer, unit, nackChannel,
                 lastAccepted, oCredit, creditNet, inputFIFO>>

Intended(s, kind) ==
  CASE kind = "claim"   -> phase[s] = "open"
    [] kind = "data"    -> phase[s] = "connected"
    [] kind = "release" -> /\ phase[s] = "connected"
                           /\ DrainBeforeRelease => haveNCredits(cmt[s], Capacity)

(* DecodeStage::waitOnCredits, which every instruction that may send runs. *)
Decode(s, kind) ==
  /\ decoded[s] = None
  /\ Intended(s, kind)
  /\ canSend(cmt[s])
  /\ cmt' = [cmt EXCEPT ![s] = removeCredit(@)]
  /\ decoded' = [decoded EXCEPT ![s] = kind]
  /\ UNCHANGED <<phase, dataNet, inBuffer, outBuffer, unit, nackChannel,
                 lastAccepted, oCredit, creditNet, inputFIFO>>

FlitOf(s) == [allocate |-> decoded[s] # "data", acquired |-> decoded[s] = "release",
              source |-> s, port |-> cmt[s].destination]

(* The execute stage sends the flit ...                                    *)
Execute(s) ==
  /\ decoded[s] # None
  /\ dataNet' = [dataNet EXCEPT ![s] = Append(@, FlitOf(s))]
  /\ phase' = [phase EXCEPT ![s] = CASE decoded[s] = "claim"   -> "claiming"
                                     [] decoded[s] = "data"    -> @
                                     [] decoded[s] = "release" -> "leaving"]
  /\ decoded' = [decoded EXCEPT ![s] = None]
  /\ UNCHANGED <<cmt, inBuffer, outBuffer, unit, nackChannel, lastAccepted,
                 oCredit, creditNet, inputFIFO>>

(* ... or finds that the predicate forbids it and gives the credit back,   *)
(* through the same function as an arriving credit flit.                   *)
Squash(s) ==
  /\ decoded[s] # None
  /\ SquashUnacquired \/ cmt[s].acquired
  /\ cmt' = [cmt EXCEPT ![s] = addCredits(@, 1)]
  /\ decoded' = [decoded EXCEPT ![s] = None]
  /\ UNCHANGED <<phase, dataNet, inBuffer, outBuffer, unit, nackChannel,
                 lastAccepted, oCredit, creditNet, inputFIFO>>

(* woche: the program goes on once all its credits are back, and reads     *)
(* the answer to its claim in the acquired bit.                            *)
AllCreditsBack(s) ==
  /\ phase[s] \in {"claiming", "leaving"}
  /\ haveNCredits(cmt[s], Capacity)
  /\ phase' = [phase EXCEPT ![s] = CASE @ = "leaving" -> "idle"
                                     [] @ = "claiming" /\ cmt[s].acquired -> "connected"
                                     [] OTHER -> "open"]
  /\ UNCHANGED <<cmt, decoded, dataNet, inBuffer, outBuffer, unit, nackChannel,
                 lastAccepted, oCredit, creditNet, inputFIFO>>

ReceiveCredit(s) ==
  /\ creditNet[s] # <<>>
  /\ cmt' = [cmt EXCEPT ![s] = addCredits(@, Head(creditNet[s]))]
  /\ creditNet' = [creditNet EXCEPT ![s] = Tail(@)]
  /\ UNCHANGED <<phase, decoded, dataNet, inBuffer, outBuffer, unit, nackChannel,
                 lastAccepted, oCredit, inputFIFO>>

-----------------------------------------------------------------------------
(* The intertile unit.  Flits of one source arrive in the order they were  *)
(* sent; those of different sources interleave.                            *)
Arrive(s) ==
  /\ dataNet[s] # <<>>
  /\ Len(inBuffer) < InBufferSize
  /\ inBuffer' = Append(inBuffer, Head(dataNet[s]))
  /\ dataNet' = [dataNet EXCEPT ![s] = Tail(@)]
  /\ UNCHANGED <<program, outBuffer, unit, nackChannel, lastAccepted, oCredit,
                 creditNet, inputFIFO>>

acceptPortClaim(port, source) ==
  /\ addCredit(port, [creditState[port] EXCEPT !.useCredits = TRUE, !.source = source])
  /\ UNCHANGED nackChannel

(* Faulty variant: forgets the source it refuses. *)
rejectPortClaimSilently(source) == UNCHANGED <<nackChannel, unit>>

rejectPortClaim(source) ==
  /\ nackChannel' = source
  /\ UNCHANGED unit

(* Faulty variant: a release takes effect before the last credits are sent. *)
handlePortClaimReleasingNow(flit) ==
  CASE flit.acquired ->
         /\ addCredit(flit.port, [creditState[flit.port] EXCEPT !.source = None])
         /\ UNCHANGED nackChannel
    [] ~flit.acquired /\ creditState[flit.port].source = None ->
         acceptPortClaim(flit.port, flit.source)
    [] OTHER -> rejectPortClaim(flit.source)

(* Faulty variant: does not look whether the port is taken. *)
handlePortClaimAlways(flit) ==
  IF flit.acquired
  THEN /\ addCredit(flit.port, [creditState[flit.port] EXCEPT !.disconnectPending = TRUE])
       /\ UNCHANGED nackChannel
  ELSE acceptPortClaim(flit.port, flit.source)

handlePortClaim(flit) ==
  CASE flit.acquired ->
         /\ addCredit(flit.port, [creditState[flit.port] EXCEPT !.disconnectPending = TRUE])
         /\ UNCHANGED nackChannel
    [] ~flit.acquired /\ creditState[flit.port].source = None ->
         acceptPortClaim(flit.port, flit.source)
    [] OTHER -> rejectPortClaim(flit.source)

(* Nothing is taken from the input buffer while a refusal is waiting, or   *)
(* while the output register is in use, even by a flit that needs neither. *)
dataArrived ==
  /\ inBuffer # <<>>
  /\ nackChannel = None
  /\ outBuffer = None
  /\ inBuffer' = Tail(inBuffer)
  /\ IF Head(inBuffer).allocate
     THEN handlePortClaim(Head(inBuffer)) /\ UNCHANGED outBuffer
     ELSE outBuffer' = Head(inBuffer) /\ UNCHANGED <<unit, nackChannel>>
  /\ UNCHANGED <<program, dataNet, lastAccepted, oCredit, creditNet, inputFIFO>>

sendNackFlit ==
  /\ oCredit' = [channel |-> nackChannel, count |-> 0]
  /\ nackChannel' = None
  /\ UNCHANGED <<unit, lastAccepted>>

(* Faulty variant: leaves the port in the list. *)
sendCreditFlitStillListed(index) ==
  LET port == indexToAddress(index)
      state == creditState[port]
  IN /\ oCredit' = [channel |-> state.source, count |-> state.creditsPending]
     /\ creditState' = [creditState EXCEPT ![port] =
          IF state.disconnectPending THEN Free ELSE [state EXCEPT !.creditsPending = 0]]
     /\ UNCHANGED creditsOutstanding

(* All the credits of one port leave in one flit, and take the connection  *)
(* down if its release has arrived.                                        *)
sendCreditFlit(index) ==
  LET port == indexToAddress(index)
      state == creditState[port]
  IN /\ oCredit' = [channel |-> state.source, count |-> state.creditsPending]
     /\ creditState' = [creditState EXCEPT ![port] =
          IF state.disconnectPending THEN Free ELSE [state EXCEPT !.creditsPending = 0]]
     /\ creditsOutstanding' = creditsOutstanding \ {index}

(* The unit asks its arbiter with selectRequester, not arbitrate.          *)
sendCredits ==
  /\ oCredit = None
  /\ \/ nackChannel # None /\ sendNackFlit
     \/ /\ nackChannel = None
        /\ creditsOutstanding # {}
        /\ sendCreditFlit(selectRequester(creditsOutstanding, lastAccepted))
        /\ lastAccepted' = lastAfterSelect(creditsOutstanding, lastAccepted)
        /\ UNCHANGED nackChannel
  /\ UNCHANGED <<program, dataNet, inBuffer, outBuffer, creditNet, inputFIFO>>

TakeCredit ==
  /\ oCredit # None
  /\ creditNet' = [creditNet EXCEPT ![oCredit.channel] = Append(@, oCredit.count)]
  /\ oCredit' = None
  /\ UNCHANGED <<program, dataNet, inBuffer, outBuffer, unit, nackChannel,
                 lastAccepted, inputFIFO>>

(* The data return network takes a flit when the core's FIFO has room.     *)
Deliver ==
  /\ outBuffer # None
  /\ Len(inputFIFO[outBuffer.port]) < Capacity
  /\ inputFIFO' = [inputFIFO EXCEPT ![outBuffer.port] = Append(@, outBuffer.source)]
  /\ outBuffer' = None
  /\ UNCHANGED <<program, dataNet, inBuffer, unit, nackChannel, lastAccepted,
                 oCredit, creditNet>>

(* A core reads a word: dataConsumed1D is told the flattened index.        *)
Consume(port) ==
  /\ inputFIFO[port] # <<>>
  /\ inputFIFO' = [inputFIFO EXCEPT ![port] = Tail(@)]
  /\ LET credited == indexToAddress(addressToIndex(port))
     IN addCredit(credited, creditState[credited])
  /\ UNCHANGED <<program, dataNet, inBuffer, outBuffer, nackChannel, lastAccepted,
                 oCredit, creditNet>>

-----------------------------------------------------------------------------
Init ==
  /\ cmt = [s \in Source |-> EmptyEntry]
  /\ phase = [s \in Source |-> "idle"]
  /\ decoded = [s \in Source |-> None]
  /\ dataNet = [s \in Source |-> <<>>]
  /\ inBuffer = <<>>
  /\ outBuffer = None
  /\ creditState = [p \in Port |-> Free]
  /\ nackChannel = None
  /\ creditsOutstanding = {}
  /\ lastAccepted = NothingAccepted
  /\ oCredit = None
  /\ creditNet = [s \in Source |-> <<>>]
  /\ inputFIFO = [p \in Port |-> <<>>]

Send(s) == \E kind \in {"claim", "data", "release"} : Decode(s, kind)
Networks == TakeCredit \/ Deliver
Unit == dataArrived \/ sendCredits
Pipeline(s) == Execute(s) \/ Squash(s)

Next ==
  \/ \E s \in Source :
       \/ \E p \in Connectable : Connect(s, p)
       \/ Send(s) \/ Pipeline(s) \/ AllCreditsBack(s) \/ ReceiveCredit(s) \/ Arrive(s)
  \/ \E p \in Port : Consume(p)
  \/ Unit \/ Networks

Spec == Init /\ [][Next]_vars

(* The methods of the unit, the stages of the pipelines and the networks   *)
(* run whenever they can; the routers serve their inputs in turn, so a     *)
(* flit is not overtaken for ever.  Nothing is asked of the programs       *)
(* except that woche ends, and nothing of the cores that read.             *)
Fairness ==
  /\ WF_vars(dataArrived) /\ WF_vars(sendCredits) /\ WF_vars(TakeCredit) /\ WF_vars(Deliver)
  /\ \A s \in Source :
       /\ WF_vars(Pipeline(s)) /\ WF_vars(AllCreditsBack(s)) /\ WF_vars(ReceiveCredit(s))
       /\ SF_vars(Arrive(s))

FairSpec == Spec /\ Fairness

-----------------------------------------------------------------------------
(* Types: entries keep their bit width, everything else its range.         *)
TypeOK ==
  /\ cmt \in [Source -> Entry(Port)]
  /\ phase \in [Source -> {"idle", "open", "claiming", "connected", "leaving"}]
  /\ decoded \in [Source -> {"claim", "data", "release", None}]
  /\ dataNet \in [Source -> Seq(Flit)]
  /\ inBuffer \in Seq(Flit)
  /\ outBuffer \in Flit \cup {None}
  /\ creditState \in [Port -> PortState]
  /\ nackChannel \in Source \cup {None}
  /\ creditsOutstanding \subseteq {addressToIndex(p) : p \in Port}
  /\ lastAccepted \in Nat
  /\ oCredit \in CreditFlit \cup {None}
  /\ creditNet \in [Source -> Seq(Nat)]
  /\ inputFIFO \in [Port -> Seq(Source)]

(* sendCreditFlit asserts that the port it is asked to serve uses credits, *)
(* has an owner and owes it something.  The request was made for an index, *)
(* perhaps long ago, and releases and other channels have come between.    *)
SendsOwedCredits ==
  \A index \in creditsOutstanding :
    LET state == creditState[indexToAddress(index)]
    IN state.useCredits /\ state.source # None /\ state.creditsPending > 0

(* acceptPortClaim asserts that a free port owes nothing, so the first     *)
(* credit flit of a connection is the answer to the claim and nothing else;*)
(* rejectPortClaim, that no source claims a channel it holds.              *)
FreePortsOweNothing ==
  \A p \in Port : creditState[p].source = None => creditState[p].creditsPending = 0
NoSecondClaim ==
  (inBuffer # <<>> /\ Head(inBuffer).allocate /\ ~Head(inBuffer).acquired)
    => creditState[Head(inBuffer).port].source # Head(inBuffer).source
ClaimsMeetSettledPorts == FreePortsOweNothing /\ NoSecondClaim

-----------------------------------------------------------------------------
(* Where the words and the credits of a connection are.                    *)
One(condition) == IF condition THEN 1 ELSE 0

PassedFrom(s) == outBuffer # None /\ outBuffer.source = s
From(flits, s) == {k \in DOMAIN flits : flits[k].source = s}
UnreadFrom(s) == UNION {{p} \X {k \in DOMAIN inputFIFO[p] : inputFIFO[p][k] = s} : p \in Port}

(* The credits a source will find in the credit flits on their way to it:  *)
(* a refusal brings one.                                                   *)
Worth(count) == IF count = 0 THEN 1 ELSE count
Returning(counts) == UNION {{k} \X (1 .. Worth(counts[k])) : k \in DOMAIN counts}
OwedTo(s) == UNION {{p} \X (1 .. creditState[p].creditsPending) :
                      p \in {q \in Port : creditState[q].source = s}}

CreditsOf(s) ==
  cmt[s].credits + One(decoded[s] # None)
    + Len(dataNet[s]) + Cardinality(From(inBuffer, s)) + One(PassedFrom(s))
    + Cardinality(UnreadFrom(s)) + Cardinality(OwedTo(s)) + One(nackChannel = s)
    + (IF oCredit # None /\ oCredit.channel = s THEN Worth(oCredit.count) ELSE 0)
    + Cardinality(Returning(creditNet[s]))

(* Every credit a program gave a connection is in one place at any time:   *)
(* in the counter, with an instruction between decode and execute, with a  *)
(* flit or an unread word, owed by the unit, or on its way back.  A credit *)
(* lost in a refusal or a release would leave woche waiting for ever; one  *)
(* created would overrun the receiver.                                     *)
CreditsConserved == \A s \in Source : useCredits(cmt[s]) => CreditsOf(s) = Capacity

(* The words for a port, wherever they are.                                *)
IsWordFor(f, p) == ~f.allocate /\ f.port = p
Unread(p) ==
  Cardinality(UNION {{s} \X {k \in DOMAIN dataNet[s] : IsWordFor(dataNet[s][k], p)} : s \in Source})
    + Cardinality({k \in DOMAIN inBuffer : IsWordFor(inBuffer[k], p)})
    + One(outBuffer # None /\ outBuffer.port = p) + Len(inputFIFO[p])

(* A connection is taken down and handed over only when empty, only its    *)
(* owner sends, and what it sends always fits: the unit, the entries and   *)
(* the networks together implement RemoteChannel.                          *)
Channels == INSTANCE RemoteChannel WITH
  owner <- [p \in Port |-> creditState[p].source],
  words <- [p \in Port |-> Unread(p)]
ImplementsRemoteChannel == Channels!ChannelSpec

(* A claim never gets stuck on its way: it is granted, or a refusal comes  *)
(* back, whether or not any core reads its words.  (The grant itself is a  *)
(* credit flit, which other ports and refusals can overtake for ever.)     *)
EveryClaimDecided ==
  \A s \in Source :
    phase[s] = "claiming" ~>
      \/ phase[s] # "claiming"
      \/ creditState[cmt[s].destination].source = s
=============================================================================
