--------------------------- MODULE ClientSockets ---------------------------
(***************************************************************************)
(* The sockets NornSockets opens itself (WebsocketServer::Parse), at the   *)
(* request of a webapp or of the peer of such a socket (OOPE), or of a     *)
(* line in the debug output of the game.  Each has a thread of its own     *)
(* that runs the server's callbacks.  A socket is destroyed by whoever     *)
(* drops the last shared_ptr to it, which joins that thread.  _clients     *)
(* holds one; a callback holds one to its own socket while it runs, and    *)
(* Parse() one to the socket it looks at, and to the one it found.         *)
(***************************************************************************)
EXTENDS Naturals, Sequences, FiniteSets

CONSTANTS
    Webapps,    \* threads of the connections the server accepted
    Sockets,    \* socket objects that Parse() may make
    Peers,      \* urls
    Protocols,
    MaxEvents   \* bound: OOPE requests and lost connections in one run

Main == "main"
Free == "free"
NoPeer == "noPeer"      \* the url of ws[protocol]
NoSocket == "noSocket"
Threads == Webapps \cup Sockets

(* What GetParseResult() makes of a line with a protocol; all of these are  *)
(* possible.  That it finds a message too, which none of the forms it       *)
(* documents gives it but 'ws://url:port:message[protocol]' does, is left   *)
(* to the loop that would send it.                                          *)
Line == [peer : Peers \cup {NoPeer}, protocol : Protocols]
NoLine == [peer |-> NoPeer, protocol |-> "noProtocol"]

ASSUME ThreadsAssumption ==
    /\ Webapps \cap Sockets = {}
    /\ {Main, Free, NoSocket} \cap Threads = {}
ASSUME PeersAssumption == NoPeer \notin Peers /\ "noProtocol" \notin Protocols
ASSUME EventsAssumption == MaxEvents \in Nat

VARIABLES
    mainPc,     \* where main is: its loop, or how far the destructor has got
    mutex,      \* owner of WebsocketServer::_mutex
    thread,     \* what the callback of a thread is doing
    line,       \* the line Parse() was called with
    match,      \* the socket a thread's Parse() holds, or is destroying
    looked,     \* those that a loop of the Parse() in progress has held
    events,     \* OOPE requests and lost connections so far
    sock,       \* life of a client socket
    peer, protocols, isGameConnection,
    clients,            \* _clients
    socketsByProtocol,  \* <<protocol, socket>> in the order of insertion
    crashed,    \* the process died, or does what C++ does not define
    threw       \* an exception nobody catches has ended it

socketVars == <<sock, peer, protocols, isGameConnection>>
tableVars == <<clients, socketsByProtocol>>
threadVars == <<mutex, thread, line, match, looked>>
vars == <<mainPc, threadVars, events, socketVars, tableVars, crashed, threw>>

Destroying == {"clear", "stop", "members", "done"}
Joining == {"joinSearch", "joinSend"}   \* what it comes back to
InParse == {"search", "parse", "send"} \cup Joining

TypeOK ==
    /\ mainPc \in {"loop", "scan", "closing"} \cup Destroying
    /\ mutex \in Threads \cup {Main, Free}
    /\ thread \in [Threads -> {"idle", "register", "ask"} \cup InParse]
    /\ line \in [Threads \cup {Main} -> Line \cup {NoLine}]
    /\ match \in [Threads \cup {Main} -> Sockets \cup {NoSocket}]
    /\ looked \in SUBSET Sockets
    /\ events \in 0..MaxEvents
    /\ sock \in [Sockets -> {"none", "connecting", "open", "aborting",
                             "stopping", "gone"}]
    /\ peer \in [Sockets -> Peers \cup {NoPeer}]
    /\ protocols \in [Sockets -> SUBSET Protocols]
    /\ isGameConnection \in [Sockets -> BOOLEAN]
    /\ clients \in Seq(Sockets)
    /\ socketsByProtocol \in Seq(Protocols \X Sockets)
    /\ crashed \in BOOLEAN
    /\ threw \in BOOLEAN

Init ==
    /\ mainPc = "loop"
    /\ mutex = Free
    /\ thread = [t \in Threads |-> "idle"]
    /\ line = [t \in Threads \cup {Main} |-> NoLine]
    /\ match = [t \in Threads \cup {Main} |-> NoSocket]
    /\ looked = {}
    /\ events = 0
    /\ sock = [s \in Sockets |-> "none"]
    /\ peer = [s \in Sockets |-> NoPeer]
    /\ protocols = [s \in Sockets |-> {}]
    /\ isGameConnection = [s \in Sockets |-> FALSE]
    /\ clients = <<>>
    /\ socketsByProtocol = <<>>
    /\ crashed = FALSE
    /\ threw = FALSE

Listed == {clients[i] : i \in 1..Len(clients)}
Entries == {socketsByProtocol[i] : i \in 1..Len(socketsByProtocol)}

(* A weak pointer to the socket can still be locked.                        *)
Alive(s) == sock[s] \in {"connecting", "open"}

(* A thread other than t holds it.  A callback locked its own socket when   *)
(* it began, if that was alive.                                             *)
HeldWithout(t, s) ==
    \/ s # t /\ thread[s] # "idle"
    \/ \E u \in Threads \ {t} : match[u] = s

(* The last reference has gone: the destructor stops the thread.            *)
Dying(s) ==
    sock' = [sock EXCEPT ![s] = IF @ = "open" THEN "stopping" ELSE "aborting"]

-----------------------------------------------------------------------------
(* Parse(), called by the thread of a connection or of a client socket, or  *)
(* by main.                                                                 *)

(* The live sockets listed under the protocol.                              *)
Under(l) == {s \in Sockets : <<l.protocol, s>> \in Entries /\ Alive(s)}

(* Those of them that have the url.  The port of the line is not looked at: *)
(* the url is rebuilt with this server's own.                               *)
Matches(l) == {s \in Under(l) : peer[s] = l.peer}

(* The next object not yet made; which one it is does not matter.           *)
NewSocket == CHOOSE s \in Sockets : sock[s] = "none"

(* A new socket, which starts its thread at once.                           *)
Make(l, forGame) ==
    LET s == NewSocket
    IN  /\ \E u \in Sockets : sock[u] = "none"
        /\ sock' = [sock EXCEPT ![s] = "connecting"]
        /\ peer' = [peer EXCEPT ![s] = l.peer]
        /\ protocols' = [protocols EXCEPT ![s] = {l.protocol}]
        /\ isGameConnection' = [isGameConnection EXCEPT ![s] = forGame]
        /\ clients' = Append(clients, s)
        /\ socketsByProtocol' = Append(socketsByProtocol, <<l.protocol, s>>)

(* Mutant of Reuse: the test for the protocol is left out.                  *)
ReuseAgain(s, l) ==
    /\ protocols' = [protocols EXCEPT ![s] = @ \cup {l.protocol}]
    /\ socketsByProtocol' = Append(socketsByProtocol, <<l.protocol, s>>)
    /\ UNCHANGED <<sock, peer, isGameConnection, clients>>

(* A socket that is there already is given the protocol if it lacks it.     *)
Reuse(s, l) ==
    /\ IF l.protocol \in protocols[s]
       THEN UNCHANGED <<protocols, socketsByProtocol>>
       ELSE /\ protocols' = [protocols EXCEPT ![s] = @ \cup {l.protocol}]
            /\ socketsByProtocol' =
                  Append(socketsByProtocol, <<l.protocol, s>>)
    /\ UNCHANGED <<sock, peer, isGameConnection, clients>>

(* Nobody else holds the socket that t's Parse() holds.                     *)
LastHolder(t) ==
    /\ match[t] \notin {NoSocket, t} \cup Listed
    /\ ~HeldWithout(t, match[t])

(* Mutant of ParseEnter: the lock is not waited for.                        *)
ParseEnterUnlocked(t) ==
    /\ thread[t] = "ask"
    /\ mutex' = t
    /\ thread' = [thread EXCEPT ![t] = IF line[t].peer = NoPeer THEN "send"
                                       ELSE "search"]
    /\ UNCHANGED <<mainPc, line, match, looked, events, socketVars, tableVars,
                   crashed>>

(* The lock is taken.  Without a url there is nothing to search for.        *)
ParseEnter(t) ==
    /\ thread[t] = "ask"
    /\ mutex = Free
    /\ mutex' = t
    /\ thread' = [thread EXCEPT ![t] = IF line[t].peer = NoPeer THEN "send"
                                       ELSE "search"]
    /\ UNCHANGED <<mainPc, line, match, looked, events, socketVars, tableVars,
                   crashed>>

(* The loop of the search, or the one that sends a message, holds a live    *)
(* socket listed under the protocol; in any order, once each.  The search   *)
(* goes on past one with another url.                                       *)
ParseLook(t) ==
    /\ thread[t] \in {"search", "send"}
    /\ match[t] = NoSocket
    /\ \E s \in Under(line[t]) \ looked :
          /\ thread[t] = "search" => peer[s] # line[t].peer
          /\ match' = [match EXCEPT ![t] = s]
          /\ looked' = looked \cup {s}
    /\ UNCHANGED <<mainPc, mutex, thread, line, events, socketVars, tableVars,
                   crashed>>

(* The search ends: at a socket with the url, or without one.               *)
ParseFound(t) ==
    /\ thread[t] = "search"
    /\ match[t] = NoSocket
    /\ thread' = [thread EXCEPT ![t] = "parse"]
    /\ looked' = {}
    /\ \/ Matches(line[t]) = {} /\ UNCHANGED match
       \/ \E s \in Matches(line[t]) : match' = [match EXCEPT ![t] = s]
    /\ UNCHANGED <<mainPc, mutex, line, events, socketVars, tableVars, crashed>>

(* The thread of a dying socket has no agent to pass on as the parent.  A   *)
(* vector that main is destroying is not one to append to.                  *)
ParseMake(t) ==
    /\ thread[t] = "parse"
    /\ match[t] = NoSocket
    /\ IF mainPc \in {"clear", "members"}
       THEN /\ crashed' = TRUE
            /\ UNCHANGED <<threadVars, socketVars, tableVars>>
       ELSE /\ Make(line[t], t \in Sockets /\ ~Alive(t))
            /\ thread' = [thread EXCEPT ![t] = "send"]
            /\ match' = [match EXCEPT ![t] = NewSocket]
            /\ UNCHANGED <<mutex, line, looked, crashed>>
    /\ UNCHANGED <<mainPc, events>>

ParseReuse(t) ==
    /\ thread[t] = "parse"
    /\ match[t] # NoSocket
    /\ Reuse(match[t], line[t])
    /\ thread' = [thread EXCEPT ![t] = "send"]
    /\ UNCHANGED <<mainPc, mutex, line, match, looked, events, crashed>>

(* The reference to the socket looked at, found or made is dropped, inside  *)
(* the lock; if main cleared _clients meanwhile it may be the last one.     *)
ParseDrop(t) ==
    /\ thread[t] \in {"search", "send"}
    /\ match[t] # NoSocket
    /\ ~LastHolder(t)
    /\ match' = [match EXCEPT ![t] = NoSocket]
    /\ UNCHANGED <<mainPc, mutex, thread, line, looked, events, socketVars,
                   tableVars, crashed>>

ParseDropLast(t) ==
    /\ thread[t] \in {"search", "send"}
    /\ LastHolder(t)
    /\ Dying(match[t])
    /\ thread' = [thread EXCEPT ![t] = IF @ = "search" THEN "joinSearch"
                                       ELSE "joinSend"]
    /\ UNCHANGED <<mainPc, mutex, line, match, looked, events, peer, protocols,
                   isGameConnection, tableVars, crashed>>

ParseJoined(t) ==
    /\ thread[t] \in Joining
    /\ thread[match[t]] = "idle"
    /\ sock' = [sock EXCEPT ![match[t]] = "gone"]
    /\ match' = [match EXCEPT ![t] = NoSocket]
    /\ thread' = [thread EXCEPT ![t] = IF @ = "joinSearch" THEN "search"
                                       ELSE "send"]
    /\ UNCHANGED <<mainPc, mutex, line, looked, events, peer, protocols,
                   isGameConnection, tableVars, crashed>>

(* The callback of t returns.  If it held the last reference to its own     *)
(* socket, the destructor joins the thread it runs on, and throws.          *)
Return(t) ==
    /\ thread' = [thread EXCEPT ![t] = "idle"]
    /\ line' = [line EXCEPT ![t] = NoLine]
    /\ crashed' = (/\ t \in Sockets
                   /\ Alive(t) /\ t \notin Listed /\ ~HeldWithout(t, t))

ParseReturn(t) ==
    /\ thread[t] = "send"
    /\ match[t] = NoSocket
    /\ mutex' = Free
    /\ looked' = {}
    /\ Return(t)
    /\ UNCHANGED <<mainPc, match, events, socketVars, tableVars>>

-----------------------------------------------------------------------------
(* The callbacks of webapps and of client sockets.                          *)

(* An OOPE message.  A line without a protocol is refused before the lock   *)
(* and changes nothing.                                                     *)
MayAsk(t) ==
    /\ thread[t] = "idle"
    /\ events < MaxEvents
    /\ IF t \in Webapps THEN mainPc \notin {"members", "done"}
       ELSE sock[t] \in {"open", "stopping"}

Ask(t) ==
    /\ MayAsk(t)
    /\ events' = events + 1
    /\ thread' = [thread EXCEPT ![t] = "ask"]
    /\ \E l \in Line : line' = [line EXCEPT ![t] = l]
    /\ UNCHANGED <<mainPc, mutex, match, looked, socketVars, tableVars, crashed>>

(* A line with a ':' and no number after it, or one that is no int: the     *)
(* exception of std::stoi leaves GetParseResult(), and the thread.          *)
ParseThrows ==
    /\ mainPc = "loop" \/ \E t \in Threads : MayAsk(t)
    /\ threw' = TRUE
    /\ UNCHANGED <<mainPc, threadVars, events, socketVars, tableVars, crashed>>

(* Open: the callback locks its own socket, and waits for the lock.         *)
Connect(s) ==
    /\ thread[s] = "idle"
    /\ sock[s] = "connecting"
    /\ sock' = [sock EXCEPT ![s] = "open"]
    /\ thread' = [thread EXCEPT ![s] = "register"]
    /\ UNCHANGED <<mainPc, mutex, line, match, looked, events, peer, protocols,
                   isGameConnection, tableVars, crashed>>

(* Open on a dying socket: the weak pointer yields nullptr, which is used.  *)
ConnectLate(s) ==
    /\ sock[s] = "aborting"
    /\ crashed' = TRUE
    /\ UNCHANGED <<mainPc, threadVars, events, socketVars, tableVars>>

(* Into _allConnections, which is the first member to be destroyed.         *)
Register(s) ==
    /\ thread[s] = "register"
    /\ mutex = Free
    /\ IF mainPc = "members"
       THEN crashed' = TRUE /\ UNCHANGED <<thread, line>>
       ELSE Return(s)
    /\ UNCHANGED <<mainPc, mutex, match, looked, events, socketVars, tableVars>>

(* The peer goes away, and the library connects again.                      *)
Reconnect(s) ==
    /\ thread[s] = "idle"
    /\ sock[s] = "open"
    /\ events < MaxEvents
    /\ events' = events + 1
    /\ sock' = [sock EXCEPT ![s] = "connecting"]
    /\ UNCHANGED <<mainPc, threadVars, peer, protocols, isGameConnection,
                   tableVars, crashed>>

-----------------------------------------------------------------------------
(* The main thread.                                                         *)

Busy == match[Main] # NoSocket      \* main is inside a socket's destructor

MainParsed(next) ==
    /\ \/ /\ Matches(line'[Main]) = {} /\ line'[Main].peer # NoPeer
          /\ Make(line'[Main], TRUE)
       \/ \E s \in Matches(line'[Main]) : Reuse(s, line'[Main])
       \/ line'[Main].peer = NoPeer /\ UNCHANGED <<socketVars, tableVars>>
    /\ mainPc' = next

(* Mutant of MainParse: the scan moves on past the line, and ends.          *)
MainParseNext ==
    /\ mainPc = "loop"
    /\ mutex = Free
    /\ \E l \in Line : line' = [line EXCEPT ![Main] = l]
    /\ MainParsed("loop")
    /\ UNCHANGED <<mutex, thread, match, looked, events, crashed>>

(* A line in the debug output of the game; once Parse() has accepted it the *)
(* scan finds the same line again, for ever.                                *)
MainParse ==
    /\ mutex = Free
    /\ \/ mainPc = "loop" /\ \E l \in Line : line' = [line EXCEPT ![Main] = l]
       \/ mainPc = "scan" /\ UNCHANGED line
    /\ MainParsed("scan")
    /\ UNCHANGED <<mutex, thread, match, looked, events, crashed>>

(* _clients drops its reference to its i-th socket.  If that was the last   *)
(* one, the socket is destroyed here and its thread joined.                 *)
Erase(i) ==
    LET s == clients[i]
    IN  /\ clients' = SubSeq(clients, 1, i - 1)
                           \o SubSeq(clients, i + 1, Len(clients))
        /\ IF HeldWithout(Main, s) THEN UNCHANGED <<sock, match>>
           ELSE Dying(s) /\ match' = [match EXCEPT ![Main] = s]
        /\ UNCHANGED <<peer, protocols, isGameConnection, socketsByProtocol>>

MainJoined ==
    /\ Busy
    /\ thread[match[Main]] = "idle"
    /\ sock' = [sock EXCEPT ![match[Main]] = "gone"]
    /\ match' = [match EXCEPT ![Main] = NoSocket]
    /\ UNCHANGED <<mainPc, mutex, thread, line, looked, events, peer, protocols,
                   isGameConnection, tableVars, crashed>>

(* OnGameClosed(), after the announcement: the sockets made for the game,   *)
(* one after the other, inside the lock.                                    *)
OnGameClosed ==
    /\ mainPc = "loop"
    /\ mutex = Free
    /\ mutex' = Main
    /\ mainPc' = "closing"
    /\ UNCHANGED <<thread, line, match, looked, events, socketVars, tableVars,
                   crashed>>

EraseForGame ==
    /\ mainPc = "closing"
    /\ ~Busy
    /\ \E i \in 1..Len(clients) :
          /\ isGameConnection[clients[i]]
          /\ \A j \in 1..(i - 1) : ~isGameConnection[clients[j]]
          /\ Erase(i)
    /\ UNCHANGED <<mainPc, mutex, thread, line, looked, events, crashed>>

ErasedForGame ==
    /\ mainPc = "closing"
    /\ ~Busy
    /\ \A s \in Listed : ~isGameConnection[s]
    /\ mutex' = Free
    /\ mainPc' = "loop"
    /\ UNCHANGED <<thread, line, match, looked, events, socketVars, tableVars,
                   crashed>>

(* ~WebsocketServer(): _clients.clear(), without the lock; stop(), which    *)
(* joins the webapps' threads; then the members, of which _clients may hold *)
(* sockets again.                                                           *)
MainExit ==
    /\ mainPc = "loop"
    /\ mainPc' = "clear"
    /\ UNCHANGED <<threadVars, events, socketVars, tableVars, crashed>>

(* Mutant of Clear: the lock is held meanwhile.                             *)
ClearLocked(here, next) ==
    /\ mainPc = here
    /\ ~Busy
    /\ mutex \in {Free, Main}
    /\ \/ clients # <<>> /\ Erase(1) /\ mutex' = Main /\ UNCHANGED mainPc
       \/ /\ clients = <<>>
          /\ mutex' = Free
          /\ mainPc' = next
          /\ UNCHANGED <<match, socketVars, tableVars>>
    /\ UNCHANGED <<thread, line, looked, events, crashed>>

Clear(here, next) ==
    /\ mainPc = here
    /\ ~Busy
    /\ \/ clients # <<>> /\ Erase(1) /\ UNCHANGED mainPc
       \/ /\ clients = <<>>
          /\ mainPc' = next
          /\ UNCHANGED <<match, socketVars, tableVars>>
    /\ UNCHANGED <<mutex, thread, line, looked, events, crashed>>

MainStop ==
    /\ mainPc = "stop"
    /\ \A w \in Webapps : thread[w] = "idle"
    /\ mainPc' = "members"
    /\ UNCHANGED <<threadVars, events, socketVars, tableVars, crashed>>

-----------------------------------------------------------------------------
ThreadStep(t) ==
    \/ ParseEnter(t) \/ ParseLook(t) \/ ParseFound(t)
    \/ ParseMake(t) \/ ParseReuse(t)
    \/ ParseDrop(t) \/ ParseDropLast(t) \/ ParseJoined(t) \/ ParseReturn(t)
    \/ t \in Sockets /\ Register(t)

MainStep ==
    \/ MainParse \/ MainJoined \/ EraseForGame \/ ErasedForGame
    \/ Clear("clear", "stop") \/ MainStop \/ Clear("members", "done")

Running == mainPc # "done" /\ ~crashed /\ ~threw

Next ==
    \/ /\ Running
       /\ UNCHANGED threw
       /\ \/ MainStep \/ OnGameClosed \/ MainExit
          \/ \E t \in Threads : ThreadStep(t) \/ Ask(t)
          \/ \E s \in Sockets : Connect(s) \/ ConnectLate(s) \/ Reconnect(s)
    \/ Running /\ ParseThrows
    \/ ~Running /\ UNCHANGED vars

Spec == Init /\ [][Next]_vars

FairSpec ==
    /\ Spec
    /\ WF_vars(Running /\ MainStep /\ UNCHANGED threw)
    /\ \A t \in Threads : WF_vars(Running /\ ThreadStep(t) /\ UNCHANGED threw)

-----------------------------------------------------------------------------
(* No two live sockets lead to one peer for one protocol, however many      *)
(* threads ask for it at once (Parse, WebsocketServer.cpp:391-424).         *)
OneSocketPerPeer ==
    \A s, u \in Sockets :
        Alive(s) /\ Alive(u) /\ s # u /\ peer[s] = peer[u]
            => protocols[s] # protocols[u]

(* The table and the sockets agree, nothing is listed twice, and no socket  *)
(* ever gets a second protocol: the branch that adds one, at                *)
(* WebsocketServer.cpp:433, cannot be reached.                              *)
EntriesAgree ==
    /\ Len(socketsByProtocol) = Cardinality(Entries)
    /\ \A s \in Sockets :
          /\ {p \in Protocols : <<p, s>> \in Entries} = protocols[s]
          /\ sock[s] = "none" <=> protocols[s] = {}
          /\ Cardinality(protocols[s]) <= 1

(* Until the destructor runs, no callback meets a destroyed socket, whoever *)
(* connects, asks and loses connections: OnGameClosed() would destroy some  *)
(* under their threads (WebsocketServer.cpp:116), but main never gets there *)
(* once it has made one, since its scan does not end.  Before then only a   *)
(* line that std::stoi() rejects ends the program.                          *)
CrashOnlyAtExit == crashed => mainPc \in Destroying

(* Until then nobody destroys a socket, and so waits for its thread, while  *)
(* he holds the lock that thread may want (WebsocketServer.cpp:120, :407,   *)
(* :439, :454).                                                             *)
NoJoinUnderLock ==
    mutex # Free /\ mainPc \notin Destroying
        => \A s \in Sockets : sock[s] \notin {"aborting", "stopping"}

(* Parse() destroys, inside the lock, a socket whose thread waits for it.   *)
Entangled ==
    \E t \in Threads : thread[t] \in Joining /\ thread[match[t]] = "ask"

(* t's callback waits: for the lock, or for the thread of a socket it       *)
(* destroys.                                                                *)
Waits(t) ==
    \/ thread[t] \in {"register", "ask"} /\ mutex # Free
    \/ thread[t] \in Joining /\ thread[match[t]] # "idle"

(* main waits: for the lock, for such a thread, or for the webapps'.        *)
MainWaits ==
    \/ mainPc = "scan" /\ mutex # Free
    \/ Busy /\ thread[match[Main]] # "idle"
    \/ mainPc = "stop" /\ \E w \in Webapps : thread[w] # "idle"

(* Parse() destroying a socket inside the lock is the only way in which     *)
(* everyone can come to wait for everyone: otherwise, if main waits, some   *)
(* callback does not (WebsocketServer.cpp:45-60, :120, :439).               *)
OnlyEntangledStuck ==
    Running /\ MainWaits /\ ~Entangled
        => \E t \in Threads : thread[t] # "idle" /\ ~Waits(t)

(* The destructor comes to its end, unless the process dies in it or gets   *)
(* into that one cycle (WebsocketServer.cpp:52, :439).                      *)
ExitCompletes ==
    mainPc = "clear" ~> mainPc = "done" \/ crashed \/ threw \/ Entangled

(* It does so always: "Server can be stoped by calling server.stop()"       *)
(* (WebsocketServer.cpp:45).                                                *)
ServerCanBeStopped == mainPc = "clear" ~> mainPc = "done" \/ crashed \/ threw
=============================================================================
