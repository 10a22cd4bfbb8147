----------------------------- MODULE InOrderCore -----------------------------
(* What a core promises a program: its instructions have the effects that      *)
(* they have when each is finished before the next begins. An effect is named  *)
(* for the instruction that has it, and so is a register's value; the data of  *)
(* the input channel are numbered as they arrive.                              *)
EXTENDS Integers, Sequences

CONSTANTS Channel,      \* the register through which the input channel is read
          FirstDatum    \* the first of the values that arrive there

Passes(condition, predicate) ==
    \/ condition = "always"
    \/ condition = "p" /\ predicate
    \/ condition = "not_p" /\ ~predicate

InDecode(op) == op \in {"fetch", "tstchi", "selch", "woche", "ibjmp", "rmtexecute"}

(* The operand of a register, when so many data have been read. *)
Value(s, reg, read) ==
    CASE reg = 0 -> 0
      [] reg = Channel -> FirstDatum + read
      [] OTHER -> s.regs[reg]

Start(Regs) ==
    [regs |-> [r \in Regs |-> 0], pred |-> FALSE, map |-> 0, remote |-> FALSE, remoteMap |-> 0,
     read |-> 0, computed |-> <<>>, fetched |-> <<>>, sent |-> <<>>]

Send(s, e, part, map) == [s EXCEPT !.sent = Append(@, [i |-> e.i, part |-> part, map |-> map])]

(* In remote execution mode a packet's instructions are sent, not executed. *)
SendAway(s, ins, e) == [Send(s, e, "instruction", s.remoteMap) EXCEPT !.remote = ~ins.eop]

Sent(s, ins, e) ==
    CASE ins.to = "none" \/ ins.op = "rmtexecute" -> s
      [] ins.op = "store" /\ ins.to # "none" -> Send(Send(s, e, "address", s.map), e, "data", s.map)
      [] OTHER -> Send(s, e, "result", s.map)

Perform(s, ins, e) ==
    LET op1 == Value(s, ins.src1, s.read)
        op2 == Value(s, ins.src2, s.read + (IF ins.src1 = Channel THEN 1 ELSE 0))
        after == Sent(s, ins, e)
    IN  [after EXCEPT
            !.regs = IF ins.dest = 0 THEN @ ELSE [@ EXCEPT ![ins.dest] = e.i],
            !.pred = IF ins.sets THEN e.outcome ELSE @,
            !.map = IF ins.op = "setchmap" THEN e.i ELSE @,
            !.remote = (ins.op = "rmtexecute"),
            !.remoteMap = IF ins.op = "rmtexecute" THEN s.map ELSE @,
            !.read = @ + (IF ins.src1 = Channel THEN 1 ELSE 0) + (IF ins.src2 = Channel THEN 1 ELSE 0),
            !.computed = IF InDecode(ins.op) THEN @ ELSE Append(@, <<e.i, op1, op2>>),
            !.fetched = IF ins.op = "fetch" THEN Append(@, <<e.i, op1>>) ELSE @]

Step(s, ins, e) ==
    CASE s.remote -> SendAway(s, ins, e)
      [] ~s.remote /\ Passes(ins.pred, s.pred) -> Perform(s, ins, e)
      [] OTHER -> s

(* The effects of the instructions that were issued, one after the other. *)
Effects(program, issued, Regs) ==
    LET after[n \in 0..Len(issued)] ==
            IF n = 0 THEN Start(Regs) ELSE Step(after[n - 1], program[issued[n].i], issued[n])
    IN  after[Len(issued)]
=============================================================================
