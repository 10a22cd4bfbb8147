----------------------------- MODULE LineMemory -----------------------------
(***************************************************************************)
(* What the memory banks are promised of main memory: a memory of whole    *)
(* lines.  The requests that reach a memory controller are performed in    *)
(* the order in which they came, each of them in one step.  Controllers    *)
(* may perform one each at the same time; if these meet on a line, it is   *)
(* as if one was performed after the other, or else what becomes of the    *)
(* line, or of the fetch, is not known.                                    *)
(***************************************************************************)
EXTENDS SequencesExt

CONSTANTS Controllers, Banks, Lines, Versions, NoVersion, Unknown

VARIABLES line,    \* [Lines -> version of its content, or Unknown]
          inbox,   \* [Controllers -> Seq(request)]
          answer   \* [Banks -> version fetched, or Unknown; NoVersion while there is none]

Init ==
  /\ line \in [Lines -> Versions]
  /\ inbox = [c \in Controllers |-> <<>>]
  /\ answer = [b \in Banks |-> NoVersion]

Requests == [op : {"FETCH_LINE", "STORE_LINE"}, bank : Banks, line : Lines, version : Versions]

Arrive(c) ==
  /\ inbox'[c] # <<>>
  /\ LET r == Last(inbox'[c])
     IN  r \in Requests /\ inbox' = [inbox EXCEPT ![c] = Append(@, r)]
  /\ UNCHANGED <<line, answer>>

Stored(S, l) ==
  {Head(inbox[c]).version : c \in {d \in S : Head(inbox[d]).op = "STORE_LINE"
                                             /\ Head(inbox[d]).line = l}}

Answered(S, b) == {c \in S : Head(inbox[c]).op = "FETCH_LINE" /\ Head(inbox[c]).bank = b}

\* The controllers whose next request is for a line; when there are two, and
\* one of them stores it, there is doubt about what they do to each other.
Working(l) == {c \in Controllers : inbox[c] # <<>> /\ Head(inbox[c]).line = l}

Doubt(l) ==
  IF \E c, d \in Working(l) : c # d /\ Head(inbox[c]).op = "STORE_LINE" THEN {Unknown} ELSE {}

\* The next requests of some controllers are performed.  A line in doubt may
\* be spoilt before any of them is, and then stays so.
Perform(S) ==
  /\ \A c \in S : inbox[c] # <<>>
  /\ inbox' = [c \in Controllers |-> IF c \in S THEN Tail(inbox[c]) ELSE inbox[c]]
  /\ \A l \in Lines :
       line'[l] \in Doubt(l) \cup IF Stored(S, l) = {} \/ line[l] = Unknown THEN {line[l]}
                                 ELSE Stored(S, l)
  /\ \A b \in Banks :
       IF Answered(S, b) = {} THEN answer'[b] = answer[b]
       ELSE \E c \in Answered(S, b) :
              LET l == Head(inbox[c]).line
              IN  answer'[b] \in {line[l]} \cup Stored(S, l) \cup Doubt(l)

Receive(b) ==
  /\ answer[b] # NoVersion
  /\ answer' = [answer EXCEPT ![b] = NoVersion]
  /\ UNCHANGED <<line, inbox>>

Next == \/ \E c \in Controllers : Arrive(c)
        \/ \E S \in SUBSET Controllers : Perform(S)
        \/ \E b \in Banks : Receive(b)

Spec == Init /\ [][Next]_<<line, inbox, answer>>
=============================================================================
