-------------------------- MODULE MemoryHierarchy --------------------------
(***************************************************************************)
(* The levels of memory beyond the banks: the miss handling logic of each  *)
(* tile, main memory, and the networks and banks around them.              *)
(*                                                                         *)
(* The banks are their users and are modelled from the packets they        *)
(* exchange with the rest: a bank sends requests, waits for one fetched    *)
(* line at a time, may store a victim line while it waits, and may serve   *)
(* another tile's request as its level 2 cache, by a request of its own.   *)
(* The routers keep the order of the flits from one place to another and   *)
(* do not mix the packets that arrive at one.                              *)
(***************************************************************************)
EXTENDS MissHandlingLogic

CONSTANTS LineWords, Lines, InputSize, NoValue,   \* of MainMemory
          Banks, TileOf, Home,    \* a bank's tile; the bank that serves a tile's remote requests
          Offers(_, _),           \* requests a bank may make as its first, second, ...
          MaxRequests,            \* requests each bank makes
          RemoteSize,             \* flits of remote requests a tile buffers
          Free                    \* of a way that no packet occupies

VARIABLES inputQueue, activeRequest, outputQueue, mData, cacheLineValid  \* of MainMemory

INSTANCE MainMemory

VARIABLES sending,    \* [Banks -> Seq(flit)]: the rest of a bank's packet
          fetch,      \* [Banks -> the fetch it waits for, or NotWaiting]
          received,   \* [Banks -> Seq(response)] to that fetch
          requests,   \* [Banks -> requests made]
          bus,        \* [Tiles -> bank whose packet is on the way to the MHL, or Free]
          route,      \* [destinations -> tile whose packet is arriving, or Free]
          remote,     \* [Tiles -> Seq(flit)]: requests of other tiles
          reply,      \* [Tiles -> Seq(response)] to other tiles
          responses,  \* [Tiles -> response or None]: responsesFromNetwork
          latest,     \* history: [Banks -> [address -> number of the last store,
                      \*                     none, or Unordered]]
          epoch,      \* history: updates of directories made
          overtaken,  \* history: lines on which one store has overtaken another
          doubtful    \* history: banks whose last fetch has met such a line, or
                      \*          has itself overtaken a store

memoryVars == <<inputQueue, activeRequest, outputQueue, mData, cacheLineValid>>
bankVars == <<sending, fetch, received, requests, bus>>
networkVars == <<route, remote, reply, responses>>
races == <<overtaken, doubtful>>
history == <<latest, epoch, races>>
vars == <<mhlVars, memoryVars, bankVars, networkVars, history>>

NotWaiting == [op |-> "NONE"]
Unordered == -1
Destinations == Tiles \cup Controllers
Addresses == 0 .. Lines * LineWords - 1

\* The requests a bank may make: main memory serves whole lines, the rest is
\* for the directory of the bank's tile.
ASSUME HierarchyAssumption ==
  /\ LineWords \in Nat \ {0}
  /\ MaxRequests \in Nat
  /\ Tiles \cap Controllers = {}
  /\ Free \notin Tiles \cup Banks
  /\ TileOf \in [Banks -> Tiles]
  /\ Home \in [Tiles -> Banks] /\ \A t \in Tiles : TileOf[Home[t]] = t
  /\ \A b \in Banks, n \in 1 .. MaxRequests : \A r \in Offers(b, n) :
       r.op \in Supported \cup DirectoryUpdates

Init ==
  /\ MHLInit /\ MemoryInit
  /\ sending = [b \in Banks |-> <<>>]
  /\ fetch = [b \in Banks |-> NotWaiting]
  /\ received = [b \in Banks |-> <<>>]
  /\ requests = [b \in Banks |-> 0]
  /\ bus = [t \in Tiles |-> Free]
  /\ route = [d \in Destinations |-> Free]
  /\ remote = [t \in Tiles |-> <<>>]
  /\ reply = [t \in Tiles |-> <<>>]
  /\ responses = [t \in Tiles |-> None]
  /\ latest = [b \in Banks |-> [a \in Addresses |-> 0]]
  /\ epoch = 0
  /\ overtaken = {} /\ doubtful = {}

----------------------------------------------------------------------------
(* Where Chip::getAddressTranslation says that an address ends up: it      *)
(* follows the directories from tile to tile.  Directories that lead back  *)
(* to a tile would keep it following for ever: two hops are followed here. *)

Reached(tile, address) == <<tile, Line(address)>>

Onward(Rest(_, _), tile, address) ==
  IF tile \in Controllers THEN Reached(tile, address)
  ELSE LET next == Translation(tile, address)
       IN  IF next.scratchpad THEN Reached(next.tile, next.addr)
                              ELSE Rest(next.tile, next.addr)

LastHop(tile, address) == Onward(Reached, tile, address)

getAddressTranslation(tile, address) == Onward(LastHop, tile, address)

----------------------------------------------------------------------------
(* The banks.                                                              *)

Flit(b, op, addr, data, eop, version) ==
  [op |-> op, addr |-> addr, data |-> data, eop |-> eop, scratchpad |-> FALSE,
   bank |-> b, tile |-> TileOf[b], dest |-> TileOf[b], version |-> version,
   final |-> getAddressTranslation(TileOf[b], addr), epoch |-> epoch]

Packet(b, r, version) ==
  CASE r.op = "FETCH_LINE" -> <<Flit(b, r.op, r.addr, NoValue, TRUE, NoValue)>>
    [] r.op = "STORE_LINE" ->
         <<Flit(b, r.op, r.addr, NoValue, FALSE, version)>>
           \o [i \in 1 .. LineWords |->
                 Flit(b, "PAYLOAD", 0, version, i = LineWords, NoValue)]
    [] OTHER ->
         <<Flit(b, r.op, r.addr, NoValue, FALSE, NoValue),
           Flit(b, "PAYLOAD", 0, r.data, TRUE, NoValue)>>

Fetching(b, r) == [op |-> r.op, addr |-> r.addr, expected |-> latest[b][r.addr], client |-> None]

Request(b) == \E r \in Offers(b, requests[b] + 1) :
  /\ requests[b] < MaxRequests
  /\ sending[b] = <<>>
  /\ r.op # "STORE_LINE" => fetch[b] = NotWaiting
  /\ requests' = [requests EXCEPT ![b] = @ + 1]
  /\ sending' = [sending EXCEPT ![b] = Packet(b, r, <<b, requests[b] + 1>>)]
  /\ fetch' = IF r.op = "FETCH_LINE" THEN [fetch EXCEPT ![b] = Fetching(b, r)] ELSE fetch
  /\ latest' = IF r.op = "STORE_LINE"
               THEN [latest EXCEPT ![b][r.addr] =
                       IF @ = Unordered THEN @ ELSE requests[b] + 1]
               ELSE latest
  /\ UNCHANGED <<mhlVars, memoryVars, received, bus, networkVars, epoch, races>>

\* The banks of a tile share the way to its MHL, a packet at a time.
SendFlit(b) ==
  LET t == TileOf[b]
      flit == Head(sending[b])
  IN  /\ sending[b] # <<>>
      /\ bus[t] \in {Free, b}
      /\ requestsFromBanks[t] = None
      /\ requestsFromBanks' = [requestsFromBanks EXCEPT ![t] = flit]
      /\ bus' = [bus EXCEPT ![t] = IF flit.eop THEN Free ELSE b]
      /\ sending' = [sending EXCEPT ![b] = Tail(@)]
      /\ UNCHANGED <<requestHeader, newLocalRequest, requestDestination, directory,
                     oRequestToNetwork, memoryVars, fetch, received, requests,
                     networkVars, history>>

\* A bank that holds nothing of a line passes a remote request on as one of
\* its own, to which the directory of its tile applies.
ServeRemote(t) ==
  LET b == Home[t]
      head == Head(remote[t])
      size == IF head.op = "STORE_LINE" THEN LineWords + 1 ELSE 1
      own(flit) == [flit EXCEPT !.bank = b, !.tile = t]
  IN  /\ remote[t] # <<>> /\ Len(remote[t]) >= size
      /\ sending[b] = <<>> /\ fetch[b] = NotWaiting
      /\ sending' = [sending EXCEPT ![b] = [i \in 1 .. size |-> own(remote[t][i])]]
      /\ remote' = [remote EXCEPT ![t] = SubSeq(@, size + 1, Len(@))]
      /\ fetch' = IF head.op = "FETCH_LINE"
                  THEN [fetch EXCEPT ![b] = [op |-> head.op, addr |-> head.addr,
                                             expected |-> 0, client |-> head]]
                  ELSE fetch
      /\ UNCHANGED <<mhlVars, memoryVars, received, requests, bus, route, reply,
                     responses, history>>

\* The line is passed on to the bank it was fetched for.
Passed(b) ==
  LET words == Append(received[b], responses[TileOf[b]])
  IN  [i \in 1 .. Len(words) |->
         [words[i] EXCEPT !.bank = fetch[b].client.bank, !.from = TileOf[b]]]

ReceiveFlit(t) ==
  LET response == responses[t]
      b == response.bank
  IN  /\ response # None
      /\ responses' = [responses EXCEPT ![t] = None]
      /\ IF ~response.eop
         THEN received' = [received EXCEPT ![b] = Append(@, response)]
              /\ UNCHANGED <<fetch, reply>>
         ELSE /\ received' = [received EXCEPT ![b] = <<>>]
              /\ fetch' = [fetch EXCEPT ![b] = NotWaiting]
              /\ reply' = IF fetch[b].client = None THEN reply
                          ELSE [reply EXCEPT ![t] = @ \o Passed(b)]
      /\ UNCHANGED <<mhlVars, memoryVars, sending, requests, bus, route, remote, history>>

----------------------------------------------------------------------------
(* The networks between the tiles.                                         *)

Accepts(d) ==
  IF d \in Controllers THEN Len(inputQueue[d]) < InputSize ELSE Len(remote[d]) < RemoteSize

DeliverRequest(t) ==
  LET flit == Head(oRequestToNetwork[t])
      d == flit.dest
  IN  /\ oRequestToNetwork[t] # <<>>
      /\ route[d] \in {Free, t}
      /\ Accepts(d)
      /\ oRequestToNetwork' = [oRequestToNetwork EXCEPT ![t] = Tail(@)]
      /\ route' = [route EXCEPT ![d] = IF flit.eop THEN Free ELSE t]
      /\ IF d \in Controllers
         THEN inputQueue' = [inputQueue EXCEPT ![d] = Append(@, flit)] /\ UNCHANGED remote
         ELSE remote' = [remote EXCEPT ![d] = Append(@, flit)] /\ UNCHANGED inputQueue
      /\ UNCHANGED <<requestsFromBanks, requestHeader, newLocalRequest, requestDestination,
                     directory, activeRequest, outputQueue, mData, cacheLineValid,
                     bankVars, reply, responses, history>>

Arrives(response) ==
  LET t == TileOf[response.bank]
  IN  responses[t] = None /\ responses' = [responses EXCEPT ![t] = response]

DeliverResponse(c) ==
  /\ outputQueue[c] # <<>>
  /\ Arrives(Head(outputQueue[c]))
  /\ outputQueue' = [outputQueue EXCEPT ![c] = Tail(@)]
  /\ UNCHANGED <<mhlVars, inputQueue, activeRequest, mData, cacheLineValid, bankVars,
                 route, remote, reply, history>>

DeliverReply(t) ==
  /\ reply[t] # <<>>
  /\ Arrives(Head(reply[t]))
  /\ reply' = [reply EXCEPT ![t] = Tail(@)]
  /\ UNCHANGED <<mhlVars, memoryVars, bankVars, route, remote, history>>

----------------------------------------------------------------------------

\* After an update of a directory nothing is expected of the stores before it,
\* nor of later ones to the same address: they may go another way, and arrive
\* first.
ForgetsStores ==
  /\ latest' = [b \in Banks |-> [a \in Addresses |->
                  IF latest[b][a] = 0 THEN 0 ELSE Unordered]]
  /\ fetch' = [b \in Banks |-> IF fetch[b] = NotWaiting THEN NotWaiting
                               ELSE [fetch[b] EXCEPT !.expected = 0]]
  /\ epoch' = epoch + 1

MissHandling(t) ==
  /\ localRequestLoop(t)
  /\ IF requestHeader[t] # None THEN ForgetsStores ELSE UNCHANGED <<fetch, latest, epoch>>
  /\ UNCHANGED <<memoryVars, sending, received, requests, bus, networkVars, races>>

\* What MainMemory.h takes for impossible, noted as it happens: "one request
\* will never progress faster than another".  A store that waits for the next
\* word of its payload stands still while a request of another controller for
\* the same line goes on, from behind it to before it.
Leads(c, position, d, other) == position > other \/ (position = other /\ c < d)

Overtakes(d, c) ==
  LET store == activeRequest[c]
      request == activeRequest[d]
  IN  /\ store.op = "STORE_LINE" /\ c \notin Moves("STORE_LINE") /\ store.done > 0
      /\ store.line = request.line
      /\ Leads(c, store.done, d, request.done)
      /\ Leads(d, request.done + 1, c, store.done)

Overtaking(op) == {d \in Moves(op) : \E c \in Controllers \ {d} : Overtakes(d, c)}

NoteRaces ==
  LET fetches == Moves("FETCH_LINE")
      spoilt == {d \in fetches : activeRequest[d].line \in overtaken'}
      Clients(S) == {activeRequest[d].bank : d \in S}
  IN  /\ overtaken' = overtaken \cup {activeRequest[d].line : d \in Overtaking("STORE_LINE")}
      /\ doubtful' = (doubtful \ Clients({d \in fetches : activeRequest[d].done = 0}))
                     \cup Clients(Overtaking("FETCH_LINE") \cup spoilt)

MemoryStep ==
  /\ \/ Negedge /\ NoteRaces
     \/ (\E c \in Controllers : processIdle(c)) /\ UNCHANGED races
  /\ UNCHANGED <<mhlVars, bankVars, networkVars, latest, epoch>>

Transport ==
  \/ \E b \in Banks : SendFlit(b)
  \/ \E t \in Tiles : MissHandling(t) \/ DeliverRequest(t) \/ DeliverReply(t)
                      \/ ServeRemote(t) \/ ReceiveFlit(t)
  \/ \E c \in Controllers : DeliverResponse(c)

Finished ==
  /\ \A b \in Banks : sending[b] = <<>> /\ fetch[b] = NotWaiting
                     /\ (requests[b] = MaxRequests \/ Offers(b, requests[b] + 1) = {})
  /\ UNCHANGED vars

Next == (\E b \in Banks : Request(b)) \/ Transport \/ MemoryStep \/ Finished

\* As long as a component can do something, one of them does: the methods of
\* each are woken by the events they wait for.  No bank has to make a request.
Fairness == WF_vars(Transport \/ MemoryStep)

Spec == Init /\ [][Next]_vars /\ Fairness

----------------------------------------------------------------------------
(* Properties.                                                             *)

\* Main memory is given a request it supports whenever it looks for one, and
\* a directory is consulted for head flits only (MainMemoryRequestHandler.cpp,
\* processIdle; Directory.cpp, updateRequest): packets arrive whole and
\* unmixed, though the directory may change between their flits.
AssertionsHold ==
  /\ \A c \in Controllers :
       activeRequest[c] = Idle /\ inputQueue[c] # <<>> => Head(inputQueue[c]).op \in Supported
  /\ \A t \in Tiles :
       requestsFromBanks[t] # None /\ requestHeader[t] = None /\ newLocalRequest[t]
         => requestsFromBanks[t].op \notin Payloads

\* A bank that fetches a line after storing it never sees what was there
\* before its store, unless a directory was updated since its first store of
\* the line: nothing acknowledges a store, so this rests on the order kept all
\* the way.
BanksSeeTheirStores == \A t \in Tiles :
  LET word == responses[t]
      expected == fetch[word.bank].expected
  IN  word # None /\ expected > 0
        => word.data # NoValue /\ (word.data[1] = word.bank => word.data[2] >= expected)

\* A request ends at the line of main memory that getAddressTranslation gave
\* for its address when it was made, through as many tiles as it may go;
\* only an update of a directory may lead it elsewhere.
RequestsFollowTranslation == \A c \in Controllers :
  activeRequest[c] # Idle /\ activeRequest[c].head.epoch = epoch
    => activeRequest[c].head.final = <<c, activeRequest[c].line>>

\* The abstract memory of whole lines.  A store is performed with the last of
\* its words, a fetch when its last word is sent.  MainMemory.h assumes that
\* "one request will never progress faster than another, giving the same
\* behaviour as a fully sequential model".  Two controllers that work on one
\* line give that behaviour for as long as neither overtakes the other, which
\* nothing ensures: of a line on which a store was overtaken by another, and of
\* a fetch that overtook a store, nothing is promised.
Torn == <<"torn">>

VersionOf(words) == IF \A v, w \in words : v = w THEN CHOOSE v \in words : TRUE ELSE Torn

WordsFor(b) ==
  {w \in UNION {{outputQueue[c][i] : i \in DOMAIN outputQueue[c]} : c \in Controllers}
           \cup {responses[t] : t \in {u \in Tiles : responses[u] # None}}
           \cup {received[b][i] : i \in DOMAIN received[b]} :
     w.bank = b /\ w.from \in Controllers}

Answer(b) ==
  IF \A w \in WordsFor(b) : ~w.eop THEN <<"none">>
  ELSE IF b \in doubtful THEN <<"unknown">> ELSE VersionOf({w.data : w \in WordsFor(b)})

Content(l) == IF l \in overtaken THEN <<"unknown">> ELSE mData[l * LineWords + LineWords - 1]

Abstracted(flit) == [op |-> flit.op, bank |-> flit.bank, line |-> Line(flit.addr),
                     version |-> flit.version]

Inbox(c) ==
  LET heads == SelectSeq(inputQueue[c], LAMBDA f : f.op \in Supported)
      all == IF activeRequest[c] = Idle THEN heads ELSE <<activeRequest[c].head>> \o heads
  IN  [i \in DOMAIN all |-> Abstracted(all[i])]

LineMemory == INSTANCE LineMemory WITH
  Lines     <- 0 .. Lines - 1,
  Versions  <- {NoValue} \cup (Banks \X (1 .. MaxRequests)),
  NoVersion <- <<"none">>,
  Unknown   <- <<"unknown">>,
  line      <- [l \in 0 .. Lines - 1 |-> Content(l)],
  inbox     <- [c \in Controllers |-> Inbox(c)],
  answer    <- [b \in Banks |-> Answer(b)]


\* Every fetch is answered in the end, with the directories leading away
\* from the bank that waits: requests, other tiles' requests and responses
\* do not block each other's way.
EveryFetchAnswered == \A b \in Banks : fetch[b] # NotWaiting ~> fetch[b] = NotWaiting
=============================================================================
