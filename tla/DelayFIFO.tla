------------------------------ MODULE DelayFIFO ------------------------------
(***************************************************************************)
(* A NetworkFIFO whose contents become visible some cycles after they were *)
(* written (Network/FIFOs/DelayFIFO.h, NetworkFIFO.h), with the three      *)
(* methods that tell others when to look: monitorHeadFlit announces a flit *)
(* to read, monitorSpaceAvailable a space to write, delayedWriteEvent a    *)
(* flit that has become old enough.  A method runs once for the event it   *)
(* has asked for last, so an event nobody waits for is lost.               *)
(*                                                                         *)
(* Time is counted in quarters of a clock cycle: the rising edge, the      *)
(* moment before the falling edge, the falling edge, the moment before the *)
(* next rising edge.  DelayFIFO takes 0.01 off its delay, so that a flit   *)
(* is visible at the moment before the edge it is meant for.               *)
(***************************************************************************)
EXTENDS Integers, Sequences, FiniteSets

CONSTANTS Size,               \* buffer spaces, without those for the delay
          Delays,             \* the delays, in cycles, it may be constructed with
          Bandwidth,          \* flits per cycle in, and out
          WritePhases         \* the edges at which the writer may write

RisingEdge == 0
FallingEdge == 2

ASSUME FIFOAssumption ==
  /\ Size \in Nat \ {0} /\ Bandwidth \in Nat \ {0} /\ Delays \subseteq Nat
  /\ WritePhases \subseteq {RisingEdge, FallingEdge}

VARIABLES
  delay,         \* never changes
  items,         \* what is stored: quarters until visible, and triggered, whether
                 \*   delayedWrite has been scheduled for it
  reads, writes, \* bandwidth used in this cycle
  phase,         \* quarter of the cycle
  posedge,       \* clock.posedge(): true in the first delta cycle of the edge
  waitFor,       \* method -> the event it waits for, or "nothing" if it is due
  notified,      \* events that fire when this delta cycle ends
  timer,         \* quarters until delayedWrite fires, or Never
  reader,        \* "waiting" for a head flit, or "ready" to read it
  writer         \* "waiting" for space, or "ready" to write

stored == <<items, reads, writes>>
time == <<phase, posedge, timer>>
fifoVars == <<delay, stored, time, waitFor, notified, reader, writer>>

Method == {"monitorHeadFlit", "monitorSpaceAvailable", "delayedWriteEvent"}
Never == -1

FIFOInit ==
  /\ delay \in Delays
  /\ items = <<>>
  /\ reads = 0 /\ writes = 0
  /\ phase = 3 /\ posedge = FALSE    \* the first edge comes at time 0
  /\ waitFor = [m \in Method |-> "nothing"]   \* methods run once at the start
  /\ notified = {}
  /\ timer = Never
  /\ reader = "waiting" /\ writer = "ready"

trulyEmpty == items = <<>>
Visible == {n \in DOMAIN items : items[n].quarters = 0}
empty == 1 \notin Visible
full == Len(items) = Size + delay
canRead == ~empty /\ reads < Bandwidth
canWrite == ~full /\ writes < Bandwidth
-----------------------------------------------------------------------------
(* The components at both ends: each does one thing and then waits for the *)
(* event that tells it may go on.  They may take any time before they act. *)
read ==
  /\ reader = "ready"
  /\ canRead
  /\ items' = Tail(items)
  /\ reads' = reads + 1
  /\ notified' = notified \cup {"read"}
  /\ reader' = "waiting"
  /\ UNCHANGED <<delay, writes, time, waitFor, writer>>

QuartersToWait == IF delay = 0 THEN 0 ELSE 4 * delay - 1

write ==
  /\ writer = "ready" /\ phase \in WritePhases
  /\ canWrite
  /\ items' = Append(items, [quarters |-> QuartersToWait, triggered |-> FALSE])
  /\ writes' = writes + 1
  /\ notified' = notified \cup {"write"}
  /\ UNCHANGED <<delay, reads, time, waitFor, reader, writer>>

FindNoSpace ==
  /\ writer = "ready" /\ phase \in WritePhases
  /\ ~canWrite
  /\ writer' = "waiting"
  /\ UNCHANGED <<delay, stored, time, waitFor, notified, reader>>
-----------------------------------------------------------------------------
(* The methods.                                                            *)
Due(m) == waitFor[m] = "nothing"
NextTrigger(m, event) == waitFor' = [waitFor EXCEPT ![m] = event]

(* writeEvent() is virtual: what a DelayFIFO returns is delayedWrite, so a *)
(* space that is freed while a write is under way is announced only when   *)
(* that write has become visible.                                          *)
writeEvent == "delayed"

(* The first flit of a cycle appears on the clock edge.                    *)
AppearsNow == reads > 0 \/ posedge

(* Faulty variant: no limit on the flits read in a cycle.                  *)
MayReadAgain == TRUE
BandwidthToRead == reads < Bandwidth

(* Faulty variant: after a flit has been announced, waits for another.     *)
OnNextWrite == "delayed"
OnNextRead == "read"

monitorHeadFlit ==
  /\ Due("monitorHeadFlit")
  /\ \/ empty /\ NextTrigger("monitorHeadFlit", writeEvent) /\ UNCHANGED notified
     \/ /\ ~empty
        /\ ~(BandwidthToRead /\ AppearsNow)
        /\ NextTrigger("monitorHeadFlit", "clock") /\ UNCHANGED notified
     \/ /\ ~empty
        /\ BandwidthToRead /\ AppearsNow
        /\ notified' = notified \cup {"head"}
        /\ NextTrigger("monitorHeadFlit", OnNextRead)
  /\ UNCHANGED <<delay, stored, time, reader, writer>>

BandwidthToWrite == writes < Bandwidth

monitorSpaceAvailable ==
  /\ Due("monitorSpaceAvailable")
  /\ \/ full /\ NextTrigger("monitorSpaceAvailable", "read") /\ UNCHANGED notified
     \/ /\ ~full /\ ~BandwidthToWrite
        /\ NextTrigger("monitorSpaceAvailable", "clock") /\ UNCHANGED notified
     \/ /\ ~full /\ BandwidthToWrite
        /\ notified' = notified \cup {"space"}
        /\ NextTrigger("monitorSpaceAvailable", writeEvent)
  /\ UNCHANGED <<delay, stored, time, reader, writer>>

(* delayedWrite is scheduled for one flit at a time.                       *)
delayedWriteEvent ==
  LET untriggered == {n \in DOMAIN items : ~items[n].triggered} IN
  /\ Due("delayedWriteEvent")
  /\ IF untriggered = {}
     THEN NextTrigger("delayedWriteEvent", "write") /\ UNCHANGED <<items, timer, notified>>
     ELSE LET n == CHOOSE n \in untriggered : \A k \in untriggered : n <= k IN
          /\ items' = [items EXCEPT ![n].triggered = TRUE]
          /\ IF items[n].quarters = 0
             THEN notified' = notified \cup {"delayed"} /\ UNCHANGED timer
             ELSE timer' = items[n].quarters /\ UNCHANGED notified
          /\ NextTrigger("delayedWriteEvent", "delayed")
  /\ UNCHANGED <<delay, reads, writes, phase, posedge, reader, writer>>
-----------------------------------------------------------------------------
(* The simulation kernel.  When every method that is due has run, the      *)
(* events notified in this delta cycle wake those that wait for them; when *)
(* there are none, time goes on, and a clock edge or the timer wakes some. *)
Woken(events) ==
  [m \in Method |-> IF waitFor[m] \in events THEN "nothing" ELSE waitFor[m]]

DeltaCycle ==
  /\ \A m \in Method : ~Due(m)
  /\ notified # {} \/ posedge
  /\ waitFor' = Woken(notified)
  /\ reader' = IF "head" \in notified THEN "ready" ELSE reader
  /\ writer' = IF "space" \in notified THEN "ready" ELSE writer
  /\ notified' = {}
  /\ posedge' = FALSE
  /\ UNCHANGED <<delay, stored, phase, timer>>

Quiet == (\A m \in Method : ~Due(m)) /\ notified = {} /\ ~posedge

Tick ==
  /\ Quiet
  /\ phase' = (phase + 1) % 4
  /\ posedge' = (phase' = RisingEdge)
  /\ items' = [n \in DOMAIN items |-> [items[n] EXCEPT !.quarters = IF @ = 0 THEN 0 ELSE @ - 1]]
  /\ timer' = IF timer \in {Never, 1} THEN Never ELSE timer - 1
  /\ waitFor' = Woken((IF posedge' THEN {"clock"} ELSE {}) \cup
                      (IF timer = 1 THEN {"delayed"} ELSE {}))
  /\ IF posedge' THEN reads' = 0 /\ writes' = 0 ELSE UNCHANGED <<reads, writes>>
  /\ UNCHANGED <<delay, notified, reader, writer>>
-----------------------------------------------------------------------------
Methods == monitorHeadFlit \/ monitorSpaceAvailable \/ delayedWriteEvent
Kernel == DeltaCycle \/ Tick

FIFONext == read \/ write \/ FindNoSpace \/ Methods \/ Kernel

FIFOSpec == FIFOInit /\ [][FIFONext]_fifoVars

(* The kernel never stops, and a component that may read does so.          *)
FairSpec == FIFOSpec /\ WF_fifoVars(Methods \/ Kernel) /\ WF_fifoVars(read)
-----------------------------------------------------------------------------
(* A reader that has been told of a flit finds one (the assertions of the  *)
(* FIFO and of its users, Network::newData), and a flit is announced at    *)
(* the clock edge it was delayed to: once the edge has settled, a reader   *)
(* that still waits has nothing to read or has used its bandwidth.  Flits  *)
(* without delay have to wait for the next edge.                           *)
AnnouncementsExact ==
  /\ reader = "ready" => canRead
  /\ Quiet /\ phase = RisingEdge /\ reader = "waiting" /\ delay > 0 => ~canRead

(* Every flit is read, and a writer that waits for space hears of it: no   *)
(* announcement is lost between the methods.                               *)
NobodyWaitsForEver ==
  /\ ~trulyEmpty ~> reader = "ready"
  /\ writer = "waiting" ~> writer = "ready"
=============================================================================
