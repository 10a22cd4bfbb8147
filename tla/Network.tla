------------------------------- MODULE Network -------------------------------
(***************************************************************************)
(* class Network (Network/Network.cpp), the base of every on-chip network  *)
(* and of the routers' crossbars, with the NetworkFIFOs at its inputs and  *)
(* outputs.  newData announces the flit at the head of an input to every   *)
(* output it goes to; sendData, one process per output, arbitrates, moves  *)
(* one flit, and waits for the event that would let it move the next.      *)
(*                                                                         *)
(* A flit is its set of target outputs and the number of flits left in its *)
(* packet after it (none: endOfPacket).  FIFOs pass one flit per clock     *)
(* cycle, the bandwidth all networks are given.  Tick is the clock edge:   *)
(* it comes when no process has anything left to do in the cycle.          *)
(***************************************************************************)
EXTENDS RoundRobinArbiter, SequencesExt

CONSTANTS NumInputs, NumOutputs, InputSize, OutputSize,
          Destinations,  \* the sets of outputs that getDestinations() may return
          MaxLength,     \* flits in the longest packet
          GapsSettle,    \* a flit that comes after a gap in its packet comes
                         \* when nothing can run its output in that cycle
          None

Input == 0 .. NumInputs - 1
Output == 0 .. NumOutputs - 1

ASSUME SizesAssumption ==
  /\ {NumInputs, NumOutputs, InputSize, OutputSize, MaxLength} \subseteq Nat \ {0}
  /\ NumInputs < NothingAccepted
  /\ GapsSettle \in BOOLEAN
(* A multicast with an empty core mask would never leave its input.        *)
ASSUME DestinationsAssumption == Destinations \subseteq (SUBSET Output) \ {{}}

Flit == [to : Destinations, left : 0 .. MaxLength - 1]
ASSUME NoneAssumption == None \notin Flit

VARIABLES
  inFIFO,          \* input -> flits in its FIFO
  rest,            \* input -> next flit of the packet its source is writing, or None
  head,            \* input -> its head flit is "hidden", "appearing" (newHeadFlit
                   \*   notified) or "shown" (newData has run)
  readThisCycle,   \* inputs whose read bandwidth is used up
  copiesRemaining, \* input -> outputs yet to take its head flit
  requests,        \* output -> inputs that want to send to it
  newRequest,      \* outputs whose newRequest event is notified
  lastAccepted,    \* output -> the last input its arbiter granted
  held,            \* outputs in the middle of a packet
  waitFor,         \* output -> the event that will run its sendData, "nothing" if due
  outFIFO,         \* output -> flits in its FIFO
  wroteThisCycle   \* outputs whose write bandwidth is used up

sources == <<rest>>
readers == <<head, readThisCycle, copiesRemaining>>
arbiters == <<requests, lastAccepted, held>>
sinks == <<outFIFO, wroteThisCycle>>
vars == <<inFIFO, sources, readers, arbiters, newRequest, waitFor, sinks>>

canRead(i) == inFIFO[i] # <<>> /\ i \notin readThisCycle
full(o) == Len(outFIFO[o]) = OutputSize
canWrite(o) == ~full(o) /\ o \notin wroteThisCycle

Init ==
  /\ inFIFO = [i \in Input |-> <<>>]
  /\ rest = [i \in Input |-> None]
  /\ head = [i \in Input |-> "hidden"]
  /\ readThisCycle = {}
  /\ copiesRemaining = [i \in Input |-> 0]
  /\ requests = [o \in Output |-> {}]
  /\ newRequest = {}
  /\ lastAccepted = [o \in Output |-> NothingAccepted]
  /\ held = {}
  /\ waitFor = [o \in Output |-> "request"]
  /\ outFIFO = [o \in Output |-> <<>>]
  /\ wroteThisCycle = {}
-----------------------------------------------------------------------------
(* The components around the network.  Only single flits are multicast:    *)
(* cores mark every flit but the first of a store as the end of a packet.  *)
FirstFlits == {f \in Flit : Cardinality(f.to) = 1 \/ f.left = 0}
After(f) == IF f.left = 0 THEN None ELSE [f EXCEPT !.left = @ - 1]

WriteFlit(i, f) ==
  /\ Len(inFIFO[i]) < InputSize
  /\ inFIFO' = [inFIFO EXCEPT ![i] = Append(@, f)]
  /\ rest' = [rest EXCEPT ![i] = After(f)]
  /\ UNCHANGED <<readers, arbiters, newRequest, waitFor, sinks>>

(* A sink reads from an output.  Its FIFO announces the space now, or at   *)
(* the clock edge if it has been written to in this cycle.                 *)
Take(o) ==
  /\ outFIFO[o] # <<>>
  /\ outFIFO' = [outFIFO EXCEPT ![o] = Tail(@)]
  /\ waitFor' = [waitFor EXCEPT ![o] =
                   IF @ = "space" /\ o \notin wroteThisCycle THEN "nothing" ELSE @]
  /\ UNCHANGED <<inFIFO, sources, readers, arbiters, newRequest, wroteThisCycle>>

(* The processes that have been woken in this cycle.  One clock edge can   *)
(* announce both a head flit and the space to send it; the simulation      *)
(* kernel runs newData first then, because a method's static sensitivity   *)
(* goes before a next_trigger, and because the FIFO a flit was written to  *)
(* starts to wait for the edge before the one it was read from.  Outputs   *)
(* in no packet serve inputs whose newData has run: any order will do.     *)
Due(o) == waitFor[o] = "nothing" \/ (waitFor[o] = "request" /\ o \in newRequest)
Runs(o) == Due(o) /\ (o \in held => \A i \in Input : head[i] # "appearing")

\* Nothing more happens in this cycle, unless a sink or a source acts.
Quiet == (\A o \in Output : ~Due(o)) /\ \A i \in Input : head[i] # "appearing"

(* A source leaves a gap in a packet if the flit before has left in an     *)
(* earlier cycle.  It is safe to end it when all methods of the cycle have *)
(* run and the packet's output does not wait for a sink to make space.     *)
Gap(i) == inFIFO[i] = <<>> /\ i \notin readThisCycle
Settled(i) ==
  Quiet /\ \A o \in held : lastAccepted[o] = i => waitFor[o] \in {"data", "request"}

StartPacket(i) == rest[i] = None /\ \E f \in FirstFlits : WriteFlit(i, f)
ContinuePacket(i) ==
  /\ rest[i] # None
  /\ GapsSettle /\ Gap(i) => Settled(i)
  /\ WriteFlit(i, rest[i])

(* The clock edge: bandwidth is available again, FIFOs announce the heads  *)
(* and the spaces that could not be announced in the cycle before.         *)
Tick ==
  /\ Quiet
  /\ head' = [i \in Input |->
                IF inFIFO[i] # <<>> /\ head[i] = "hidden" THEN "appearing" ELSE head[i]]
  /\ readThisCycle' = {}
  /\ wroteThisCycle' = {}
  /\ newRequest' = {}
  /\ waitFor' = [o \in Output |->
                   IF waitFor[o] = "clock" \/ (waitFor[o] = "space" /\ ~full(o))
                   THEN "nothing" ELSE waitFor[o]]
  /\ UNCHANGED <<inFIFO, sources, copiesRemaining, arbiters, outFIFO>>

newData(i) ==
  /\ head[i] = "appearing"
  /\ LET targets == Head(inFIFO[i]).to IN
     /\ copiesRemaining' = [copiesRemaining EXCEPT ![i] = Cardinality(targets)]
     /\ requests' = [o \in Output |-> IF o \in targets THEN requests[o] \cup {i} ELSE requests[o]]
     /\ newRequest' = newRequest \cup targets
  /\ head' = [head EXCEPT ![i] = "shown"]
  /\ waitFor' = [o \in Output |->
                   IF waitFor[o] = "data" /\ lastAccepted[o] = i THEN "nothing" ELSE waitFor[o]]
  /\ UNCHANGED <<inFIFO, sources, readThisCycle, lastAccepted, held, sinks>>
-----------------------------------------------------------------------------
(* sendData: the output's next trigger, and what it sends before.          *)
granted(o) == arbitrate(requests[o], lastAccepted[o], o \in held)

NextTrigger(o, event) ==
  /\ waitFor' = [waitFor EXCEPT ![o] = event]
  /\ newRequest' = IF waitFor[o] = "request" THEN newRequest \ {o} ELSE newRequest

WaitForSpace(o) ==
  /\ Runs(o)
  /\ ~canWrite(o)
  /\ NextTrigger(o, "space")
  /\ UNCHANGED <<inFIFO, sources, readers, arbiters, sinks>>

WaitForRequest(o) ==
  /\ Runs(o)
  /\ canWrite(o)
  /\ requests[o] = {}
  /\ NextTrigger(o, "request")
  /\ UNCHANGED <<inFIFO, sources, readers, arbiters, sinks>>

Grants(o) == Runs(o) /\ canWrite(o) /\ requests[o] # {}

WaitForData(o) ==
  /\ Grants(o)
  /\ ~canRead(granted(o))
  /\ lastAccepted' = [lastAccepted EXCEPT ![o] = granted(o)]
  /\ NextTrigger(o, "data")
  /\ UNCHANGED <<inFIFO, sources, readers, requests, held, sinks>>

(* A multicast flit is consumed with its last copy.                        *)
consumedAtOnce(i) == TRUE
consumed(i) == copiesRemaining[i] = 1

readData(i) ==
  /\ copiesRemaining[i] > 0
  /\ copiesRemaining' = [copiesRemaining EXCEPT ![i] = @ - 1]
  /\ IF consumed(i)
     THEN /\ inFIFO' = [inFIFO EXCEPT ![i] = Tail(@)]
          /\ readThisCycle' = readThisCycle \cup {i}
          /\ head' = [head EXCEPT ![i] = "hidden"]
     ELSE UNCHANGED <<inFIFO, readThisCycle, head>>

(* After the end of a packet the arbiter is released until the next cycle; *)
(* inside a packet it is held.                                             *)
removeNothing(o, i) == requests[o]
remove(o, i) == requests[o] \ {i}
SendFlit(o) ==
  LET i == granted(o)
      flit == Head(inFIFO[i]) IN
  /\ Grants(o)
  /\ canRead(i)
  /\ readData(i)
  /\ requests' = [requests EXCEPT ![o] = remove(o, i)]
  /\ lastAccepted' = [lastAccepted EXCEPT ![o] = i]
  /\ outFIFO' = [outFIFO EXCEPT ![o] = Append(@, flit)]
  /\ wroteThisCycle' = wroteThisCycle \cup {o}
  /\ IF flit.left = 0
     THEN held' = held \ {o} /\ NextTrigger(o, "clock")
     ELSE held' = held \cup {o} /\ NextTrigger(o, "request")
  /\ UNCHANGED sources

sendData(o) == WaitForSpace(o) \/ WaitForRequest(o) \/ WaitForData(o) \/ SendFlit(o)
-----------------------------------------------------------------------------
Next ==
  \/ Tick
  \/ \E i \in Input : StartPacket(i) \/ ContinuePacket(i) \/ newData(i)
  \/ \E o \in Output : Take(o) \/ sendData(o)

Spec == Init /\ [][Next]_vars

(* The kernel runs every process that is due and then advances the clock;  *)
(* sources finish the packets they start and sinks read what they get.     *)
Fairness ==
  /\ WF_vars(Tick)
  /\ \A i \in Input : WF_vars(newData(i)) /\ WF_vars(ContinuePacket(i))
  /\ \A o \in Output : WF_vars(sendData(o)) /\ WF_vars(Take(o))

FairSpec == Spec /\ Fairness
-----------------------------------------------------------------------------
TypeOK ==
  /\ inFIFO \in [Input -> Seq(Flit)] /\ \A i \in Input : Len(inFIFO[i]) <= InputSize
  /\ rest \in [Input -> Flit \cup {None}]
  /\ head \in [Input -> {"hidden", "appearing", "shown"}]
  /\ readThisCycle \subseteq Input
  /\ copiesRemaining \in [Input -> 0 .. NumOutputs]
  /\ requests \in [Output -> SUBSET Input]
  /\ newRequest \subseteq Output
  /\ lastAccepted \in [Output -> Input \cup {NothingAccepted}]
  /\ held \subseteq Output
  /\ waitFor \in [Output -> {"nothing", "request", "space", "data", "clock"}]
  /\ outFIFO \in [Output -> Seq(Flit)] /\ \A o \in Output : Len(outFIFO[o]) <= OutputSize
  /\ wroteThisCycle \subseteq Output

(* The assertions of newData and readData hold whenever they run: a head   *)
(* flit is still there when it is announced, and an output takes a flit    *)
(* only after it has been announced, and no more often than it has targets.*)
AssertionsHold ==
  /\ TypeOK
  /\ \A i \in Input : head[i] = "appearing" => canRead(i)
  /\ \A o \in Output : Grants(o) /\ canRead(granted(o)) => copiesRemaining[granted(o)] > 0
-----------------------------------------------------------------------------
(* Network implements PacketCrossbar, and every flit gets its turn.        *)

(* An output that has taken its copy of the head flit has withdrawn the    *)
(* request for it.                                                         *)
TakenHead(i, o) ==
  head[i] = "shown" /\ o \in Head(inFIFO[i]).to /\ i \notin requests[o]

(* The flits for one output, in their order.                               *)
FlitsFor(q, o) ==
  LET among[n \in 0 .. Len(q)] ==
        IF n = 0 THEN <<>>
        ELSE IF o \in q[n].to THEN Append(among[n - 1], q[n])
        ELSE among[n - 1]
  IN  among[Len(q)]

Pending ==
  [i \in Input |-> [o \in Output |->
     FlitsFor(IF TakenHead(i, o) THEN Tail(inFIFO[i]) ELSE inFIFO[i], o)]]
Sending == [o \in Output |-> IF o \in held THEN lastAccepted[o] ELSE None]

(* Each flit reaches each of its targets exactly once, in order, and never *)
(* inside another packet, although a multicast flit is taken by its        *)
(* outputs one at a time and requests, FIFOs and arbiters are told apart.  *)
Crossbar == INSTANCE PacketCrossbar WITH
  pending <- Pending, sending <- Sending, received <- outFIFO
ImplementsCrossbar == Crossbar!CrossbarSpec

(* No input waits for ever behind the others: if sources finish their      *)
(* packets and sinks keep reading, the head flit of every input leaves     *)
(* (the arbiters are fair, no wake-up is lost, no multicast is stuck).     *)
EveryFlitLeaves == \A i \in Input : inFIFO[i] # <<>> ~> i \in readThisCycle
=============================================================================
