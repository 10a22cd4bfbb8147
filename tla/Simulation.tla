----------------------------- MODULE Simulation -----------------------------
(***************************************************************************)
(* A run of the simulator: simulate() of Main.cpp or the command loop of   *)
(* Utility/Debugger.cpp advance SystemC in steps of several cycles and     *)
(* decide between them whether to go on; the statistics of                 *)
(* Utility/Instrumentation.cpp are started, stopped and reset by the       *)
(* system calls of the simulated program.  The cores and banks appear as   *)
(* what they tell Stalls and Operations.                                   *)
(***************************************************************************)
EXTENDS Integers, FiniteSets, SequencesExt

CONSTANTS
    Components,         \* the cores and memory banks of the chip
    Reasons,            \* the reasons used, in the order of StallReason
    Cores,              \* the components that execute instructions; the others are banks
    BigStep,            \* cycles simulated in a row (100)
    IdleLimit,          \* idle cycles after which the simulation is aborted (100)
    ProgressInterval,   \* cycles without an instruction after which it is (100000)
    Timeout,            \* the parameter timeout
    MaxIdleTime,        \* idle probes after which the debugger gives up (10)
    Latency,            \* bound: cycles the memory takes to answer
    MaxInstructions,    \* bound: instructions executed
    MaxSyscalls,        \* bound: system calls among them
    MaxCycles           \* bound: cycles simulated under the debugger

ASSUME StallsAssumption ==
    /\ IsFiniteSet(Components) /\ Components # {}
    /\ IsInjective(Reasons)
    /\ ToSet(Reasons) \subseteq {"memory data", "core data", "instructions", "output",
                                 "forwarding", "fetch", "idle"}

ASSUME SimulationAssumption ==
    /\ Cores \subseteq Components
    /\ {BigStep, IdleLimit, ProgressInterval, Timeout, MaxIdleTime, Latency} \subseteq Nat \ {0}
    /\ MaxInstructions \in Nat /\ MaxSyscalls \in Nat /\ MaxCycles \in Nat
    /\ ProgressInterval % BigStep = 0

-----------------------------------------------------------------------------
(***************************************************************************)
(* The statistics of when components are stalled, and of when all of them  *)
(* are (Utility/Instrumentation/Stalls.cpp), as operations on a record:    *)
(*   reasons   the reasons each component is stalled for (stallReason)     *)
(*   since     when it began to be stalled for each reason (startStall),   *)
(*             and for any (startStall[STALL_ANY])                         *)
(*   spent     the cycles recorded per reason, and for any (timeSpent)     *)
(*   numStalled, endOfExecution, endExecutionCalled                        *)
(***************************************************************************)
Reason    == ToSet(Reasons)
ANY       == "any"
UNSTALLED == -1

\* The reasons whose bits are set in the number 7, the value of IDLE.
InIDLE == {"memory data", "core data"} \cap Reason

\* Everything is idle at first.
NewStalls ==
    [reasons |-> [c \in Components |-> {"idle"}],
     since   |-> [r \in Reason \cup {ANY} |->
                     [c \in Components |-> IF r \in {"idle", ANY} THEN 0 ELSE UNSTALLED]],
     spent   |-> [r \in Reason \cup {ANY} |-> [c \in Components |-> 0]],
     numStalled |-> Cardinality(Components),
     endOfExecution |-> 0, endExecutionCalled |-> FALSE]

\* unstall() at cycle t; the time is recorded only while collecting.
Unstall(s, c, r, t, collecting) ==
    IF r \notin s.reasons[c] THEN s
    ELSE LET free  == s.reasons[c] = {r}
             ended == IF free THEN {r, ANY} ELSE {r}
         IN  [s EXCEPT
                !.reasons[c] = @ \ {r},
                !.spent = [x \in DOMAIN @ |->
                             IF collecting /\ x \in ended
                             THEN [@[x] EXCEPT ![c] = @ + (t - s.since[x][c])] ELSE @[x]],
                !.since = [x \in DOMAIN @ |->
                             IF x \in ended THEN [@[x] EXCEPT ![c] = UNSTALLED] ELSE @[x]],
                !.numStalled = IF free THEN @ - 1 ELSE @]

\* stall() once it is known that the component becomes stalled for r.
BecomesStalled(s, c, r, t) ==
    LET first == s.reasons[c] = {}
    IN  [s EXCEPT
           !.reasons[c] = @ \cup {r},
           !.since = [x \in DOMAIN @ |->
                        IF x = r \/ (first /\ x = ANY) THEN [@[x] EXCEPT ![c] = t] ELSE @[x]],
           !.numStalled = IF first THEN @ + 1 ELSE @,
           !.endOfExecution = IF first /\ s.numStalled + 1 >= Cardinality(Components)
                              THEN t ELSE @]

\* The test that should ask whether the component is idle asks for the bits
\* of the number IDLE.
Stall(s, c, r, t, collecting) ==
    IF r \in s.reasons[c] \/ (r = "idle" /\ s.reasons[c] # {}) THEN s
    ELSE BecomesStalled(IF s.reasons[c] \cap InIDLE # {}
                        THEN Unstall(s, c, "idle", t, collecting) ELSE s, c, r, t)

\* Stalls that are going on count from now.
Restarted(since, t) ==
    [r \in DOMAIN since |-> [c \in Components |->
        IF since[r][c] = UNSTALLED THEN UNSTALLED ELSE t]]

ResetStalls(s, t) ==
    [s EXCEPT !.since = Restarted(@, t),
              !.spent = [r \in DOMAIN @ |-> [c \in Components |-> 0]]]

\* Faulty variant: cycles before statistics were started are counted.
StartStallsAtOnce(s, t, collecting) == s

StartStalls(s, t, collecting) ==
    IF collecting THEN s ELSE [s EXCEPT !.since = Restarted(@, t)]

\* stop(): each stall that is going on, reason by reason, ends and begins
\* again.
StopStalls(s, t, collecting) ==
    LET Flush(x, r, c) == IF x.since[r][c] = UNSTALLED THEN x
                          ELSE Stall(Unstall(x, c, r, t, collecting), c, r, t, collecting)
    IN  IF ~collecting THEN s
        ELSE FoldLeft(LAMBDA x, r : FoldSet(LAMBDA c, y : Flush(y, r, c), x, Components),
                      s, Reasons)

EndStalls(s, t) ==
    [s EXCEPT !.endOfExecution = IF s.numStalled < Cardinality(Components) THEN t ELSE @,
              !.endExecutionCalled = TRUE]

cyclesIdle(s, t) ==
    IF s.numStalled = Cardinality(Components) THEN t - s.endOfExecution ELSE 0

-----------------------------------------------------------------------------
VARIABLES
    now,            \* sc_time_stamp()
    stalls,         \* the record of Stalls.cpp
    stats,          \* collecting, and the counters of Instrumentation.cpp
    operations,     \* totalInstructions, and operationCount of checkProgress()
    loop,           \* where simulate() or the debugger is
    debugger,       \* local state of Debugger
    stopped,        \* sc_stop() was called
    outcome         \* why the simulation ended, and RETURN_CODE

\* What the components do, as far as the statistics tell.
VARIABLES
    decode,         \* per core, what its decode stage does
    due,            \* per core and reason, when the memory answers
    syscalls        \* system calls executed

\* History: cycles each stall lasted while statistics were collected, cycles
\* for which nothing has happened, and when an instruction was last executed.
VARIABLES lasted, quiet, lastInstruction

outside == <<decode, due, syscalls>>
history == <<lasted, quiet, lastInstruction>>
vars    == <<now, stalls, stats, operations, loop, debugger, stopped, outcome, outside, history>>

Never == -1     \* an answer that does not come
None  == -2     \* nothing is waited for
Waits == {"memory data", "instructions"}

usingDebugger == debugger.using
Running       == loop.at = "run" /\ ~stopped
Stalled       == \A c \in Components : stalls.reasons[c] # {}

-----------------------------------------------------------------------------
(* Instrumentation.                                                        *)

start(x) ==
    [x EXCEPT !.stalls = StartStalls(@, now, x.stats.collecting),
              !.stats.collecting = TRUE,
              !.stats.started = IF x.stats.collecting THEN @ ELSE now]

stop(x) ==
    [x EXCEPT !.stalls = StopStalls(@, now, x.stats.collecting),
              !.stats.collecting = FALSE,
              !.stats.recorded = IF x.stats.collecting THEN @ + (now - x.stats.started) ELSE @]

reset(x) ==
    [x EXCEPT !.stalls = ResetStalls(@, now),
              !.stats.started = IF x.stats.collecting THEN now ELSE @,
              !.stats.recorded = 0]

\* endExecution(); it calls sc_stop() too unless the debugger is used.
end(x) == stop([x EXCEPT !.stalls = EndStalls(@, now)])

Recorded == [stalls |-> stalls, stats |-> stats]
Records(x) == stalls' = x.stalls /\ stats' = x.stats

-----------------------------------------------------------------------------
(* The components.                                                         *)

\* What is said to Stalls; the history notices a component that wakes up.
Tell(s) ==
    /\ stalls' = s
    /\ quiet' = IF \E c \in Components : s.reasons[c] = {} THEN 0 ELSE quiet

Tells(c, r) == Tell(Stall(stalls, c, r, now, stats.collecting))
Untells(c, r) == Tell(Unstall(stalls, c, r, now, stats.collecting))

rest == <<now, stats, operations, loop, debugger, stopped, outcome, syscalls, lasted, lastInstruction>>

Answers == (now + 1) .. (now + Latency)

\* Nothing is left to happen in this cycle; an instruction does not stay in
\* the decode stage without a reason.
Settled == \A c \in Cores :
    /\ decode[c] # "busy" /\ \A r \in Waits : due[c][r] # now
    /\ ~(decode[c] = "waiting" /\ due[c]["instructions"] = None)

\* The next instruction reaches the decode stage: core().idle(false).  The one
\* after it is in the store soon, or never.
BeginInstruction(c) ==
    /\ Running /\ decode[c] = "waiting" /\ due[c]["instructions"] = None
    /\ decode' = [decode EXCEPT ![c] = "busy"]
    /\ \E t \in {Never} \cup (IF operations.total + 1 < MaxInstructions THEN Answers ELSE {}) :
          due' = [due EXCEPT ![c]["instructions"] = t]
    /\ Untells(c, "idle")
    /\ UNCHANGED rest

\* It waits for data of the memory, or for data that nobody sends.
WaitForData(c) ==
    /\ Running /\ decode[c] = "busy"
    /\ \E t \in Answers \cup {Never} : due' = [due EXCEPT ![c]["memory data"] = t]
    /\ decode' = [decode EXCEPT ![c] = "data"]
    /\ Tells(c, "memory data")
    /\ UNCHANGED rest

\* The fetch stage finds its store empty in the middle of a packet.
FetchStalls(c) ==
    /\ Running /\ due[c]["instructions"] > now
    /\ Tells(c, "instructions")
    /\ UNCHANGED <<rest, decode, due>>

InstructionArrives(c) ==
    /\ Running /\ due[c]["instructions"] = now
    /\ due' = [due EXCEPT ![c]["instructions"] = None]
    /\ Untells(c, "instructions")
    /\ UNCHANGED <<rest, decode>>

\* The memory answers through a bank, which is not idle then.
DataArrives(c) ==
    /\ Running /\ due[c]["memory data"] = now
    /\ \E b \in Components \ Cores : stalls.reasons[b] = {}
    /\ due' = [due EXCEPT ![c]["memory data"] = None]
    /\ decode' = [decode EXCEPT ![c] = "busy"]
    /\ Untells(c, "memory data")
    /\ UNCHANGED rest

\* updateIdle() of a bank.
BankWakes(b) ==
    /\ Running /\ \E c \in Cores, r \in Waits : due[c][r] >= now
    /\ Untells(b, "idle")
    /\ UNCHANGED <<rest, decode, due>>

BankSleeps(b) ==
    /\ Running /\ \A c \in Cores, r \in Waits : due[c][r] # now
    /\ Tells(b, "idle")
    /\ UNCHANGED <<rest, decode, due>>

\* An instruction leaves: the core is idle unless the next stage is blocked.
Executed(c) ==
    /\ operations' = [operations EXCEPT !.total = @ + 1]
    /\ decode' = [decode EXCEPT ![c] = "waiting"]
    /\ quiet' = 0 /\ lastInstruction' = now
    /\ \E atBreakpoint \in BOOLEAN :
          debugger' = [debugger EXCEPT !.hitBreakpoint =
                          @ \/ (usingDebugger /\ atBreakpoint /\ debugger.breakpoint)]

Execute(c) ==
    /\ Running /\ decode[c] = "busy"
    /\ Executed(c)
    /\ \E nextStageBlocked \in BOOLEAN :
          stalls' = IF nextStageBlocked THEN stalls
                    ELSE Stall(stalls, c, "idle", now, stats.collecting)
    /\ UNCHANGED <<now, stats, loop, stopped, outcome, due, syscalls, lasted>>

\* A system call of the program, executed by the ALU.
SystemCall(c, x) ==
    /\ Running /\ decode[c] = "busy" /\ syscalls < MaxSyscalls
    /\ syscalls' = syscalls + 1
    /\ Executed(c)
    /\ Records(x)
    /\ UNCHANGED <<now, loop, due>>

SysStartStats(c) == SystemCall(c, start(Recorded)) /\ UNCHANGED <<stopped, outcome, lasted>>
SysFreezeStats(c) == SystemCall(c, stop(Recorded)) /\ UNCHANGED <<stopped, outcome, lasted>>
SysClearStats(c) ==
    /\ SystemCall(c, reset(Recorded))
    /\ lasted' = [r \in Reason |-> [d \in Components |-> 0]]
    /\ UNCHANGED <<stopped, outcome>>

SysExit(c) ==
    /\ SystemCall(c, end(Recorded))
    /\ stopped' = ~usingDebugger
    /\ outcome' = [outcome EXCEPT !.exited = TRUE, !.failed = FALSE]
    /\ UNCHANGED lasted

-----------------------------------------------------------------------------
(* sc_start(): time passes until the step is over or sc_stop() was called. *)

Tick ==
    /\ Running /\ loop.left > 0 /\ Settled
    /\ now' = now + 1
    /\ loop' = [loop EXCEPT !.left = @ - 1]
    /\ quiet' = IF Stalled THEN quiet + 1 ELSE 0
    /\ lasted' = [r \in Reason |-> [c \in Components |->
                    IF stats.collecting /\ r \in stalls.reasons[c]
                    THEN lasted[r][c] + 1 ELSE lasted[r][c]]]
    /\ UNCHANGED <<stalls, stats, operations, debugger, stopped, outcome, outside, lastInstruction>>

StepIsOver == loop.at = "run" /\ ((loop.left = 0 /\ Settled) \/ stopped)

-----------------------------------------------------------------------------
(* simulate() of Main.cpp.                                                 *)

Timestep ==
    /\ ~usingDebugger /\ loop.at = "loop"
    /\ IF stopped
       THEN loop' = [loop EXCEPT !.at = "over"]
       ELSE LET step == IF loop.cycle + BigStep >= Timeout THEN 1 ELSE BigStep
            IN  loop' = [loop EXCEPT !.at = "run", !.step = step, !.left = step]
    /\ UNCHANGED <<now, stalls, stats, operations, debugger, stopped, outcome, outside, history>>

\* The loop counts the cycles of a whole step, whether they were simulated.
Counted == loop.cycle + loop.step

ProgressIsDue == Counted % ProgressInterval < loop.step

NoProgress == ProgressIsDue /\ operations.total = operations.seen

\* Faulty variant: the idle cycles are looked at when progress is.
IsIdleAtTimes == ProgressIsDue /\ cyclesIdle(stalls, now) >= IdleLimit

IsIdle == cyclesIdle(stalls, now) >= IdleLimit

Ends(reason, fails) ==
    /\ Records(end(Recorded))
    /\ stopped' = TRUE
    /\ outcome' = [outcome EXCEPT !.reason = reason, !.failed = @ \/ fails]
    /\ loop' = [loop EXCEPT !.at = "over", !.cycle = Counted]

checkProgress == operations' = [operations EXCEPT !.seen = IF ProgressIsDue THEN operations.total ELSE @]

AbortWithoutProgress ==
    /\ ~usingDebugger /\ StepIsOver
    /\ NoProgress
    /\ Ends("no progress", TRUE)
    /\ UNCHANGED <<now, operations, debugger, outside, history>>

AbortIdle ==
    /\ ~usingDebugger /\ StepIsOver
    /\ ~NoProgress /\ IsIdle
    /\ checkProgress
    /\ Ends("idle", TRUE)
    /\ UNCHANGED <<now, debugger, outside, history>>

TimeOut ==
    /\ ~usingDebugger /\ StepIsOver
    /\ ~NoProgress /\ ~IsIdle /\ Counted >= Timeout
    /\ checkProgress
    /\ Ends("timeout", FALSE)
    /\ UNCHANGED <<now, debugger, outside, history>>

GoOn ==
    /\ ~usingDebugger /\ StepIsOver
    /\ ~NoProgress /\ ~IsIdle /\ Counted < Timeout
    /\ checkProgress
    /\ loop' = [loop EXCEPT !.at = "loop", !.cycle = Counted]
    /\ UNCHANGED <<now, stalls, stats, debugger, stopped, outcome, outside, history>>

-----------------------------------------------------------------------------
(* The commands of the debugger.                                           *)

Prompt(command) == usingDebugger /\ loop.at = "loop" /\ debugger.command = command
untouched == <<now, operations, outside, history>>

\* executeNCycles(); sc_start() with the name of the command that calls it.
RunFor(n, command) ==
    /\ now + n <= MaxCycles
    /\ loop' = [loop EXCEPT !.at = "run", !.step = n, !.left = n]
    /\ debugger' = [debugger EXCEPT !.command = command]
    /\ UNCHANGED <<stalls, stats, stopped, outcome, untouched>>

Says(d) ==
    /\ debugger' = d
    /\ UNCHANGED <<stalls, stats, loop, stopped, outcome, untouched>>

setBreakPoint == Prompt("none") /\ Says([debugger EXCEPT !.breakpoint = ~@])

\* An instruction of the user is passed to a core.
ExecuteGiven(c) ==
    /\ Prompt("none") /\ due[c]["instructions"] = Never /\ operations.total < MaxInstructions
    /\ debugger' = [debugger EXCEPT !.cyclesIdle = 0]
    /\ due' = [due EXCEPT ![c]["instructions"] = None]
    /\ UNCHANGED <<now, stalls, stats, operations, loop, stopped, outcome, decode, syscalls, history>>

executeSingleCycle == Prompt("none") /\ RunFor(1, "step")

\* Without a breakpoint, continue is a single cycle.
executeUntilBreakpoint ==
    /\ Prompt("none")
    /\ IF debugger.breakpoint THEN Says([debugger EXCEPT !.command = "continue"])
       ELSE RunFor(1, "single")

finishExecution == Prompt("none") /\ Says([debugger EXCEPT !.command = "finish"])

MayGoOn ==
    /\ debugger.cyclesIdle < MaxIdleTime
    /\ \/ debugger.command = "continue" /\ ~debugger.hitBreakpoint
       \/ debugger.command = "finish" /\ ~stalls.endExecutionCalled

CommandGoesOn ==
    \/ Prompt("continue") /\ MayGoOn /\ RunFor(1, "continue")
    \/ Prompt("finish") /\ MayGoOn /\ RunFor(BigStep, "finish")

CommandEnds ==
    /\ \E command \in {"continue", "finish", "single"} : Prompt(command)
    /\ ~MayGoOn
    /\ debugger' = [debugger EXCEPT !.command = "none",
                                   !.hitBreakpoint = @ /\ debugger.command = "finish"]
    /\ outcome' = [outcome EXCEPT !.failed = @ \/ debugger.cyclesIdle >= MaxIdleTime]
    /\ UNCHANGED <<stalls, stats, loop, stopped, untouched>>

\* The idle count grows by one however many cycles the step had.
Probe ==
    /\ usingDebugger /\ StepIsOver
    /\ loop' = [loop EXCEPT !.at = "loop"]
    /\ debugger' = [debugger EXCEPT
                      !.cyclesIdle = IF stalls.numStalled = Cardinality(Components) THEN @ + 1 ELSE 0,
                      !.command = IF @ = "step" THEN "none" ELSE @]
    /\ UNCHANGED <<stalls, stats, stopped, outcome, untouched>>

Quit ==
    /\ Prompt("none")
    /\ Records(end(Recorded))
    /\ loop' = [loop EXCEPT !.at = "over"]
    /\ UNCHANGED <<debugger, stopped, outcome, untouched>>

-----------------------------------------------------------------------------

\* Whether statistics are collected from the start is an argument.
Init ==
    /\ now = 0 /\ stalls = NewStalls
    /\ \E collecting \in BOOLEAN :
          stats = [collecting |-> collecting, started |-> 0, recorded |-> 0]
    /\ operations = [total |-> 0, seen |-> 0]
    /\ loop = [at |-> "loop", cycle |-> 0, step |-> 0, left |-> 0]
    /\ \E using \in BOOLEAN :
          debugger = [using |-> using, command |-> "none", breakpoint |-> FALSE,
                      hitBreakpoint |-> FALSE, cyclesIdle |-> 0]
    /\ stopped = FALSE
    /\ outcome = [reason |-> "none", exited |-> FALSE, failed |-> FALSE]
    /\ decode = [c \in Cores |-> "waiting"]
    /\ \E t \in {None, Never} \cup (1 .. Latency) :
          due = [c \in Cores |-> [r \in Waits |-> IF r = "instructions" THEN t ELSE None]]
    /\ syscalls = 0
    /\ lasted = [r \in Reason |-> [c \in Components |-> 0]]
    /\ quiet = 0 /\ lastInstruction = 0

CoreActs == \E c \in Cores :
    \/ BeginInstruction(c) \/ WaitForData(c) \/ FetchStalls(c) \/ InstructionArrives(c)
    \/ DataArrives(c) \/ Execute(c)
    \/ SysStartStats(c) \/ SysFreezeStats(c) \/ SysClearStats(c) \/ SysExit(c)

BankActs == \E b \in Components \ Cores : BankWakes(b) \/ BankSleeps(b)

simulate == Timestep \/ AbortWithoutProgress \/ AbortIdle \/ TimeOut \/ GoOn

waitForInput ==
    \/ setBreakPoint \/ (\E c \in Cores : ExecuteGiven(c)) \/ executeSingleCycle \/ executeUntilBreakpoint
    \/ finishExecution \/ CommandGoesOn \/ CommandEnds \/ Probe \/ Quit

Next == CoreActs \/ BankActs \/ Tick \/ simulate \/ waitForInput

Spec == Init /\ [][Next]_vars

-----------------------------------------------------------------------------
(* Properties.                                                             *)

\* The counters have their types, and numStalled counts the components that
\* are stalled for some reason, since a time at which they began to be.
TypeOK ==
    /\ stalls.numStalled = Cardinality({c \in Components : stalls.reasons[c] # {}})
    /\ \A c \in Components :
          /\ stalls.reasons[c] \subseteq Reason
          /\ \A r \in Reason : (stalls.since[r][c] # UNSTALLED) <=> r \in stalls.reasons[c]
    /\ loop.left \in 0 .. BigStep /\ operations.seen <= operations.total

(***************************************************************************)
(* However statistics are started, stopped and reset between and during    *)
(* stalls, the cycles recorded for a reason (other than being idle) are    *)
(* those the stall lasted while they were collected (stop(), start() and   *)
(* reset() of Stalls.cpp).                                                 *)
(***************************************************************************)
StallTimesExact ==
    /\ TypeOK
    /\ \A c \in Components, r \in Reason \ {"idle"} :
          lasted[r][c] = stalls.spent[r][c]
                           + IF stats.collecting /\ r \in stalls.reasons[c]
                             THEN now - stalls.since[r][c] ELSE 0

\* As idle only when no answer of the memory is due, and for want of progress
\* only when no instruction was executed for the whole interval.
AbortsOnlyWhenStuck ==
    /\ outcome.reason = "idle" => \A c \in Cores, r \in Waits : due[c][r] \in {Never, None}
    /\ outcome.reason = "no progress" => now - lastInstruction >= ProgressInterval

\* Not on and on with all components stalled.
StuckIsNoticed == ~usingDebugger /\ loop.at = "loop" => quiet < IdleLimit

\* What is checked after the step in which a program has exited does not turn
\* its exit code into a failure.
ExitCodeKept == ~usingDebugger /\ outcome.exited => ~outcome.failed

(***************************************************************************)
(* simulate() gives up on a program if and only if it is stuck, and else   *)
(* returns what the program does (checkIdle(), checkProgress() of          *)
(* Main.cpp, cyclesIdle() of Stalls.cpp, SYS_EXIT of ALU.cpp).             *)
(***************************************************************************)
GivesUpIffStuck == AbortsOnlyWhenStuck /\ StuckIsNoticed /\ ExitCodeKept

=============================================================================
