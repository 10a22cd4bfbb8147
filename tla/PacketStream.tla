---------------------------- MODULE PacketStream ----------------------------
(* What the fetch stage promises the pipeline: the packets that the program    *)
(* fetches come in the order of the fetches, each as a whole; the packets of   *)
(* other cores come between them; a jump stays in its packet; and a packet     *)
(* fetched to repeat does so until another is asked for.                       *)
EXTENDS Integers, Sequences

CONSTANTS Ends, Boot, Packets, Remote, Reach

VARIABLES
    requested,      \* packets asked for and not begun: [first, repeats]
    interrupts,     \* packets of other cores, not begun
    repeating,      \* the first instruction of the packet that repeats, or 0
    next,           \* the next instruction of the current packet, or 0
    given           \* the last instruction given to the pipeline

vars == <<requested, interrupts, repeating, next, given>>

Init ==
    /\ requested = <<[first |-> Boot, repeats |-> FALSE]>>
    /\ interrupts = <<>> /\ repeating = 0 /\ next = 0 /\ given = 0

SamePacket(a, b) == \A n \in a..(b - 1) \cup b..(a - 1) : n \notin Ends

(* The repetition ends at the end of the packet, or, if that has just been    *)
(* given, at once.                                                             *)
StopRepeating ==
    /\ repeating' = 0
    /\ \/ next' = next
       \/ repeating # 0 /\ next = repeating /\ SamePacket(next, given) /\ next' = 0

Request(p, repeats) ==
    /\ requested' = Append(requested, [first |-> p, repeats |-> repeats])
    /\ StopRepeating
    /\ UNCHANGED <<interrupts, given>>

(* A packet that is prefetched, or an NXIPK, ends the repetition too. *)
Stop == StopRepeating /\ UNCHANGED <<requested, interrupts, given>>

Interrupt(p) ==
    /\ interrupts' = Append(interrupts, p)
    /\ UNCHANGED <<requested, repeating, next, given>>

BeginInterrupt ==
    /\ next = 0 /\ interrupts # <<>>
    /\ next' = Head(interrupts) /\ interrupts' = Tail(interrupts)
    /\ repeating' = 0
    /\ UNCHANGED <<requested, given>>

Repeat ==
    /\ next = 0 /\ repeating # 0 /\ next' = repeating
    /\ UNCHANGED <<requested, interrupts, repeating, given>>

BeginRequested ==
    /\ next = 0 /\ repeating = 0 /\ requested # <<>>
    /\ next' = Head(requested).first
    /\ repeating' = IF Head(requested).repeats THEN Head(requested).first ELSE 0
    /\ requested' = Tail(requested)
    /\ UNCHANGED <<interrupts, given>>

(* A packet of one instruction is given once; the decode stage repeats it. *)
Give ==
    /\ next # 0
    /\ given' = next
    /\ next' = IF next \in Ends THEN 0 ELSE next + 1
    /\ repeating' = IF next = repeating /\ next \in Ends THEN 0 ELSE repeating
    /\ UNCHANGED <<requested, interrupts>>

Jump(to) ==
    /\ SamePacket(to, given)
    /\ next' = to
    /\ UNCHANGED <<requested, interrupts, repeating, given>>

Next ==
    \/ \E p \in Packets, r \in BOOLEAN : Request(p, r)
    \/ \E p \in Remote : Interrupt(p)
    \/ \E d \in -Reach..Reach : Jump(given + d)
    \/ Stop \/ BeginInterrupt \/ Repeat \/ BeginRequested \/ Give

Spec == Init /\ [][Next]_vars
=============================================================================
