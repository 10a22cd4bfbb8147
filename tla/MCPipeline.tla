------------------------------ MODULE MCPipeline ------------------------------
(* Programs of up to four instructions of a set that has each kind of hazard. *)
EXTENDS DecodeStage

Ins(op, dest, src1, src2) ==
    [op |-> op, dest |-> dest, src1 |-> src1, src2 |-> src2, pred |-> "always", sets |-> FALSE,
     outcome |-> FALSE, to |-> "none", eop |-> FALSE, persistent |-> FALSE, needs |-> 0]

Add == Ins("alu", 10, 10, 11)
Read == Ins("alu", 11, 2, 10)
Test == [Ins("alu", 0, 10, 11) EXCEPT !.sets = TRUE, !.outcome = TRUE]
TestIf == [Test EXCEPT !.pred = "p"]
SendIf == [Ins("alu", 10, 11, 0) EXCEPT !.to = "core", !.pred = "p"]
SendUnless == [Ins("alu", 0, 10, 0) EXCEPT !.to = "core", !.pred = "not_p"]
Multiply == Ins("mul", 10, 11, 10)
Store == [Ins("store", 0, 10, 11) EXCEPT !.to = "memory"]
FetchR == Ins("fetch", 0, 10, 0)
FetchIf == [Ins("fetch", 0, 11, 0) EXCEPT !.pred = "p"]
ReadIf == [Ins("alu", 11, 2, 0) EXCEPT !.pred = "p"]
Tstchi == [Ins("tstchi", 11, 0, 0) EXCEPT !.sets = TRUE]
Selch == Ins("selch", 10, 0, 0)
Woche == [Ins("woche", 0, 0, 0) EXCEPT !.needs = 1]
Ibjmp == Ins("ibjmp", 0, 0, 0)
Rmtexecute == [Ins("rmtexecute", 0, 0, 0) EXCEPT !.to = "core"]
Setchmap == Ins("setchmap", 0, 10, 0)

End(ins) == [ins EXCEPT !.eop = TRUE]
Repeat(ins) == [End(ins) EXCEPT !.persistent = TRUE]
JumpIf == [Ibjmp EXCEPT !.pred = "p"]

(* A packet of three, in which each can disturb those that follow. *)
Three == {<<a, b, End(c)>> :
    a \in {Test, Read, SendUnless, Multiply, Selch, Setchmap, Rmtexecute},
    b \in {TestIf, SendIf, Multiply, Store, ReadIf, Tstchi, Woche},
    c \in {Add, Read, SendIf, Store, FetchR, FetchIf}}
Jumps == {<<a, b, Add, End(Store)>> : a \in {Test, Read}, b \in {Ibjmp, JumpIf}}

(* Two packets; NXIPK skips what is left of the one being read. *)
Two == {<<a, End(b), c, End(d1)>> :
    a \in {Read, SendUnless}, b \in {Read, SendUnless, FetchR}, c \in {Test, SendIf}, d1 \in {Read, Store}}
Repeats == {<<End(Test), Repeat(a), End(b)>> : a \in {Read, Store, Add}, b \in {Add, SendIf}}

(* A request for instructions that the send table takes before a datum makes *)
(* the execute stage wait with the next. *)
Sends == {<<FetchR, SendUnless, SendUnless, End(Store)>>}

MCPrograms == Three \cup Jumps \cup Two \cup Repeats \cup Sends
MCRegs == {10, 11}
=============================================================================
