----------------------------- MODULE NornServer -----------------------------
(***************************************************************************)
(* The main loop of NornSockets (main.cpp) and the part of WebsocketServer *)
(* that ties the game to the webapps: the main thread opens and closes     *)
(* interfaces and announces that to every connection; each connection runs *)
(* its callbacks on a thread of its own.  The two kinds of thread share    *)
(* WebsocketServer::_mutex, the _allConnections list, and, without a lock, *)
(* the two raw pointers to the interface object the main thread owns.      *)
(*                                                                         *)
(* Interface objects are numbered 1, 2, ... in the order they are made; 0  *)
(* is nullptr.                                                             *)
(***************************************************************************)
EXTENDS EngineLink, Naturals, Sequences

CONSTANTS
    Conns,          \* webapp connections (one ix::WebSocket and thread each)
    Patient,        \* those that wait for OnGameOpened before they send
    Directives,     \* whether debug output may hold a line Parse() accepts
    MaxGames,       \* bound: interface objects made in one run
    MaxRequests     \* bound: requests a webapp sends

Main == "main"
Free == "free"

ASSUME ConnsAssumption ==
    /\ Main \notin Conns
    /\ Free \notin Conns
    /\ Patient \subseteq Conns
ASSUME DirectivesAssumption == Directives \in BOOLEAN
ASSUME BoundsAssumption == MaxGames \in Nat /\ MaxRequests \in Nat

VARIABLES
    running,     \* g_running
    listening,   \* the accept thread takes connections
    crashed,     \* the process died: undefined behaviour, or an uncaught exception
    mainPc,      \* where the main thread is
    games,       \* interface objects made so far
    interface,   \* main's unique_ptr
    lsInterface, \* LocalServer::_interface
    wsInterface, \* WebsocketServer::_interface
    mutex,       \* owner of WebsocketServer::_mutex
    allConnections,  \* _allConnections
    cursor,      \* position of the broadcast loop in allConnections
    conn,        \* life of each connection
    thread,      \* what its thread is doing while the connection is open
    callee,      \* interface pointer the thread's call was made on
    pending,     \* requests under way from the webapp to the callback
    asked,       \* requests the webapp has sent
    feed,        \* announcements written to the connection
    portClosed   \* WebsocketServer::portClosed

mainVars == <<running, listening, mainPc, games, interface, cursor>>
sharedVars == <<lsInterface, wsInterface, mutex, allConnections>>
connVars == <<conn, thread, callee, pending, asked, feed, portClosed>>
vars == <<mainVars, sharedVars, connVars, crashed, linkVars>>

MainPc == {"top", "localOpen", "lockOpen", "sendOpen", "check", "poll",
           "scan", "localClose", "lockClose", "sendClose", "destroy",
           "stop", "join", "done"}
ConnState == {"new", "accepted", "registered", "open", "closing", "gone"}
ThreadState == {"idle", "calling", "spinning", "path", "parse", "stuck", "threw",
                "text", "error"}
Interface == 1..MaxGames
Note == [kind: {"OnGameOpened", "OnGameClosed"}, game: Interface]

Opened(g) == [kind |-> "OnGameOpened", game |-> g]
Closed(g) == [kind |-> "OnGameClosed", game |-> g]

TypeOK ==
    /\ LinkTypeOK
    /\ running \in BOOLEAN
    /\ listening \in BOOLEAN
    /\ crashed \in BOOLEAN
    /\ mainPc \in MainPc
    /\ games \in 0..MaxGames
    /\ interface \in 0..MaxGames
    /\ lsInterface \in 0..MaxGames
    /\ wsInterface \in 0..MaxGames
    /\ mutex \in Conns \cup {Main, Free}
    /\ allConnections \in Seq(Conns)
    /\ cursor \in Nat \ {0}
    /\ conn \in [Conns -> ConnState]
    /\ thread \in [Conns -> ThreadState]
    /\ callee \in [Conns -> 0..MaxGames]
    /\ pending \in [Conns -> Nat]
    /\ asked \in [Conns -> 0..MaxRequests]
    /\ feed \in [Conns -> Seq(Note)]
    /\ portClosed \in BOOLEAN

(* The game the webapp at c believes to be open, from what it has received. *)
Told(c) ==
    LET f == feed[c]
    IN  IF f # <<>> /\ f[Len(f)].kind = "OnGameOpened" THEN f[Len(f)].game ELSE 0

(* item.lock() and sendUtf8Text(): reaches the peer of an open socket only. *)
Deliver(c, note) ==
    feed' = IF conn[c] = "open" THEN [feed EXCEPT ![c] = Append(@, note)] ELSE feed

(* The constructor either listens, or gives up through OnFatalError().      *)
Init ==
    /\ LinkInit
    /\ running \in BOOLEAN
    /\ listening = running
    /\ crashed = FALSE
    /\ mainPc = "top"
    /\ games = 0
    /\ interface = 0
    /\ lsInterface = 0
    /\ wsInterface = 0
    /\ mutex = Free
    /\ allConnections = <<>>
    /\ cursor = 1
    /\ conn = [c \in Conns |-> "new"]
    /\ thread = [c \in Conns |-> "idle"]
    /\ callee = [c \in Conns |-> 0]
    /\ pending = [c \in Conns |-> 0]
    /\ asked = [c \in Conns |-> 0]
    /\ feed = [c \in Conns |-> <<>>]
    /\ portClosed = FALSE

-----------------------------------------------------------------------------
(* The main thread.                                                         *)

(* Open() found nothing (or nothing usable): wait a second and look again.  *)
MainSleep ==
    /\ mainPc = "top"
    /\ running
    /\ interface = 0
    /\ UNCHANGED vars

MainOpen ==
    /\ mainPc = "top"
    /\ running
    /\ interface = 0
    /\ games < MaxGames
    /\ OpenLink
    /\ games' = games + 1
    /\ interface' = games + 1
    /\ mainPc' = "localOpen"
    /\ UNCHANGED <<running, listening, cursor, sharedVars, connVars, crashed>>

(* LocalServer::OnGameOpened/OnGameClosed, under LocalServer's own mutex.   *)
LocalOnGameOpened ==
    /\ mainPc = "localOpen"
    /\ lsInterface' = interface
    /\ mainPc' = "lockOpen"
    /\ UNCHANGED <<running, listening, games, interface, cursor, wsInterface,
                   mutex, allConnections, connVars, crashed, linkVars>>

OnGameOpened ==
    /\ mainPc = "lockOpen"
    /\ mutex = Free
    /\ mutex' = Main
    /\ wsInterface' = interface
    /\ cursor' = 1
    /\ mainPc' = "sendOpen"
    /\ UNCHANGED <<running, listening, games, interface, lsInterface,
                   allConnections, connVars, crashed, linkVars>>

(* Mutant of Broadcast: the loop stops one short of the end of the list.    *)
BroadcastOneShort(here, note, next) ==
    /\ mainPc = here
    /\ \/ /\ cursor < Len(allConnections)
          /\ Deliver(allConnections[cursor], note)
          /\ cursor' = cursor + 1
          /\ UNCHANGED <<mutex, mainPc>>
       \/ /\ cursor >= Len(allConnections)
          /\ mutex' = Free
          /\ mainPc' = next
          /\ UNCHANGED <<feed, cursor>>
    /\ UNCHANGED <<running, listening, games, interface, lsInterface,
                   wsInterface, allConnections, conn, thread, callee, pending,
                   asked, portClosed, crashed, linkVars>>

(* One turn of a broadcast loop, or its end, which releases the lock.       *)
Broadcast(here, note, next) ==
    /\ mainPc = here
    /\ \/ /\ cursor <= Len(allConnections)
          /\ Deliver(allConnections[cursor], note)
          /\ cursor' = cursor + 1
          /\ UNCHANGED <<mutex, mainPc>>
       \/ /\ cursor > Len(allConnections)
          /\ mutex' = Free
          /\ mainPc' = next
          /\ UNCHANGED <<feed, cursor>>
    /\ UNCHANGED <<running, listening, games, interface, lsInterface,
                   wsInterface, allConnections, conn, thread, callee, pending,
                   asked, portClosed, crashed, linkVars>>

SendOpened == Broadcast("sendOpen", Opened(interface), "check")

(* interface->isClosed(), at the head of the loop or right after opening.   *)
MainCheck ==
    /\ \/ mainPc = "check"
       \/ mainPc = "top" /\ running /\ interface # 0
    /\ \/ /\ \E closed \in BOOLEAN :
                /\ IsClosed(closed)
                /\ mainPc' = IF closed THEN "localClose"
                             ELSE IF IsDde THEN "top" ELSE "poll"
          /\ UNCHANGED crashed
       \/ /\ IsClosedThrows
          /\ crashed' = TRUE
          /\ UNCHANGED mainPc
    /\ UNCHANGED <<running, listening, games, interface, cursor, sharedVars,
                   connVars>>

(* Mutant of MainPoll: a poll that failed is repeated, g_running unread.     *)
MainPollRetrying ==
    /\ mainPc = "poll"
    /\ \E result \in Results :
          /\ Send(result)
          /\ mainPc' = IF result = "error" THEN "poll" ELSE "top"
    /\ UNCHANGED <<running, listening, games, interface, cursor, sharedVars,
                   connVars, crashed>>

(* interface->send("DBG: POLL") on an engine that is not DDE, and the scan  *)
(* of the answer, which ends unless a line of it asks for a socket.         *)
MainPoll ==
    /\ mainPc = "poll"
    /\ \E result \in Results :
          /\ Send(result)
          /\ \/ mainPc' = "top"
             \/ Directives /\ result = "text" /\ mainPc' = "scan"
    /\ UNCHANGED <<running, listening, games, interface, cursor, sharedVars,
                   connVars, crashed>>

(* A line that asks for a socket: Parse() takes the lock and gives it back, *)
(* and the scan, which moves on only when Parse() refuses a line, looks for *)
(* the next line where it found this one.                                   *)
MainScan ==
    /\ mainPc = "scan"
    /\ mutex = Free
    /\ UNCHANGED vars

LocalOnGameClosed ==
    /\ mainPc = "localClose"
    /\ lsInterface' = 0
    /\ mainPc' = "lockClose"
    /\ UNCHANGED <<running, listening, games, interface, cursor, wsInterface,
                   mutex, allConnections, connVars, crashed, linkVars>>

(* Mutant of OnGameClosed: the server keeps its pointer.                    *)
OnGameClosedKeeping ==
    /\ mainPc = "lockClose"
    /\ mutex = Free
    /\ mutex' = Main
    /\ cursor' = 1
    /\ mainPc' = "sendClose"
    /\ UNCHANGED <<running, listening, games, interface, lsInterface,
                   wsInterface, allConnections, connVars, crashed, linkVars>>

OnGameClosed ==
    /\ mainPc = "lockClose"
    /\ mutex = Free
    /\ mutex' = Main
    /\ wsInterface' = 0
    /\ cursor' = 1
    /\ mainPc' = "sendClose"
    /\ UNCHANGED <<running, listening, games, interface, lsInterface,
                   allConnections, connVars, crashed, linkVars>>

SendClosed == Broadcast("sendClose", Closed(interface), "destroy")

(* interface = nullptr deletes the object.                                  *)
MainDestroy ==
    /\ mainPc = "destroy"
    /\ DestroyLink
    /\ interface' = 0
    /\ mainPc' = "top"
    /\ UNCHANGED <<running, listening, games, cursor, sharedVars, connVars,
                   crashed>>

Signal ==
    /\ running
    /\ running' = FALSE
    /\ UNCHANGED <<listening, mainPc, games, interface, cursor, sharedVars,
                   connVars, crashed, linkVars>>

(* server.reset(): stop() ends the accept thread and closes every socket,   *)
(* then joins the connection threads; the interface is deleted after that,  *)
(* when main returns.                                                       *)
MainStop ==
    /\ mainPc = "top"
    /\ ~running
    /\ listening' = FALSE
    /\ mainPc' = "stop"
    /\ UNCHANGED <<running, games, interface, cursor, sharedVars, connVars,
                   crashed, linkVars>>

(* Mutant of MainJoin: the connection threads are not joined.               *)
MainJoinDetached ==
    /\ mainPc = "stop"
    /\ mainPc' = "join"
    /\ UNCHANGED <<running, listening, games, interface, cursor, sharedVars,
                   connVars, crashed, linkVars>>

MainJoin ==
    /\ mainPc = "stop"
    /\ \A c \in Conns : conn[c] \in {"new", "gone"}
    /\ mainPc' = "join"
    /\ UNCHANGED <<running, listening, games, interface, cursor, sharedVars,
                   connVars, crashed, linkVars>>

MainReturn ==
    /\ mainPc = "join"
    /\ interface' = 0
    /\ IF interface = 0 THEN UNCHANGED linkVars ELSE DestroyLink
    /\ mainPc' = "done"
    /\ UNCHANGED <<running, listening, games, cursor, sharedVars, connVars,
                   crashed>>

MainStep ==
    \/ MainOpen \/ LocalOnGameOpened \/ OnGameOpened \/ SendOpened
    \/ MainCheck \/ MainPoll \/ MainScan
    \/ LocalOnGameClosed \/ OnGameClosed \/ SendClosed \/ MainDestroy
    \/ MainStop \/ MainJoin \/ MainReturn

-----------------------------------------------------------------------------
(* The thread of connection c.                                              *)

ConnUnchanged == UNCHANGED <<mainVars, lsInterface, wsInterface, linkVars>>

(* OnConnection: a peer with a public address is dropped before a callback  *)
(* is set; the others have their sub-protocols noted under the lock.        *)
OnConnection(c) ==
    /\ conn[c] = "new"
    /\ listening
    /\ \/ conn' = [conn EXCEPT ![c] = "gone"]
       \/ mutex = Free /\ conn' = [conn EXCEPT ![c] = "accepted"]
    /\ UNCHANGED <<mutex, allConnections, thread, callee, pending, asked, feed,
                   portClosed, crashed>>
    /\ ConnUnchanged

(* The handshake failed: the thread ends without an Open event.             *)
HandshakeFail(c) ==
    /\ conn[c] = "accepted"
    /\ conn' = [conn EXCEPT ![c] = "gone"]
    /\ UNCHANGED <<mutex, allConnections, thread, callee, pending, asked, feed,
                   portClosed, crashed>>
    /\ ConnUnchanged

(* The Open event takes the lock and joins the list ...                     *)
OpenRegister(c) ==
    /\ conn[c] = "accepted"
    /\ mutex = Free
    /\ mutex' = c
    /\ allConnections' = Append(allConnections, c)
    /\ conn' = [conn EXCEPT ![c] = "registered"]
    /\ UNCHANGED <<thread, callee, pending, asked, feed, portClosed, crashed>>
    /\ ConnUnchanged

(* Mutant of OpenGreet: the game is taken from LocalServer, whose pointer   *)
(* another mutex guards.                                                    *)
OpenGreetFromLocal(c) ==
    /\ conn[c] = "registered"
    /\ mutex' = Free
    /\ conn' = [conn EXCEPT ![c] = "open"]
    /\ feed' = IF lsInterface = 0 THEN feed
               ELSE [feed EXCEPT ![c] = Append(@, Opened(lsInterface))]
    /\ UNCHANGED <<allConnections, thread, callee, pending, asked, portClosed,
                   crashed>>
    /\ ConnUnchanged

(* ... and, still under it, says which game is open.                        *)
OpenGreet(c) ==
    /\ conn[c] = "registered"
    /\ mutex' = Free
    /\ conn' = [conn EXCEPT ![c] = "open"]
    /\ feed' = IF wsInterface = 0 THEN feed
               ELSE [feed EXCEPT ![c] = Append(@, Opened(wsInterface))]
    /\ UNCHANGED <<allConnections, thread, callee, pending, asked, portClosed,
                   crashed>>
    /\ ConnUnchanged

(* The webapp sends a request.  The README asks it to wait for the message  *)
(* that a game is open; those in Patient do.                                *)
Submit(c) ==
    /\ conn[c] = "open"
    /\ asked[c] < MaxRequests
    /\ c \in Patient => Told(c) # 0
    /\ asked' = [asked EXCEPT ![c] = @ + 1]
    /\ pending' = [pending EXCEPT ![c] = @ + 1]
    /\ UNCHANGED <<mutex, allConnections, conn, thread, callee, feed,
                   portClosed, crashed>>
    /\ ConnUnchanged

(* An exception that leaves the callback of c: std::terminate().            *)
Throw(c) ==
    /\ thread' = [thread EXCEPT ![c] = "threw"]
    /\ crashed' = TRUE

(* Take one request off the socket; later it is a Message event.            *)
Take(c) ==
    /\ conn[c] = "open"
    /\ thread[c] = "idle"
    /\ pending[c] > 0
    /\ pending' = [pending EXCEPT ![c] = @ - 1]

(* A text message: _interface->send(), on the pointer as it is, no lock.    *)
TextMessage(c) ==
    /\ Take(c)
    /\ IF wsInterface = 0
       THEN crashed' = TRUE /\ UNCHANGED <<thread, callee>>
       ELSE /\ thread' = [thread EXCEPT ![c] = "calling"]
            /\ callee' = [callee EXCEPT ![c] = wsInterface]
            /\ UNCHANGED crashed
    /\ UNCHANGED <<mutex, allConnections, conn, asked, feed, portClosed>>
    /\ ConnUnchanged

(* Mutant of AfterSend: an empty answer is treated as an answer.            *)
AfterSendAlways(result) == result

AfterSend(result) == IF result = "empty" THEN "idle" ELSE result

(* The call comes back.  If main deleted the object meanwhile, what happens *)
(* is undefined: the process dies, or some answer is read from freed memory.*)
SendReturn(c) ==
    /\ thread[c] = "calling"
    /\ \E result \in Results :
          \/ /\ callee[c] = interface
             /\ Send(result)
             /\ thread' = [thread EXCEPT ![c] = AfterSend(result)]
             /\ UNCHANGED crashed
          \/ /\ callee[c] # interface
             /\ \/ thread' = [thread EXCEPT ![c] = AfterSend(result)] /\ UNCHANGED crashed
                \/ crashed' = TRUE /\ UNCHANGED thread
             /\ UNCHANGED linkVars
    /\ UNCHANGED <<mainVars, sharedVars, conn, callee, pending, asked, feed,
                   portClosed>>

(* Before it sends anything the call cuts the text into chunks, and never   *)
(* comes back if two neighbours of them reach the limit (Chunking); the     *)
(* text a DDE game gets is not cut.                                         *)
SendSpins(c) ==
    /\ thread[c] = "calling"
    /\ callee[c] = interface => Cuts
    /\ thread' = [thread EXCEPT ![c] = "spinning"]
    /\ UNCHANGED <<mutex, allConnections, conn, callee, pending, asked, feed,
                   portClosed, crashed>>
    /\ ConnUnchanged

(* A binary PATH request tests LocalServer::_interface, no lock ...         *)
PathMessage(c) ==
    /\ Take(c)
    /\ thread' = [thread EXCEPT ![c] = IF lsInterface = 0 THEN "error" ELSE "path"]
    /\ callee' = [callee EXCEPT ![c] = lsInterface]
    /\ UNCHANGED <<mutex, allConnections, conn, asked, feed, portClosed,
                   crashed>>
    /\ ConnUnchanged

(* ... and then copies a path, which may be empty, out of the object.  If   *)
(* the pointer has been cleared since, the code may follow nullptr or the   *)
(* pointer it read first.                                                   *)
PathRead(c) ==
    /\ thread[c] = "path"
    /\ \/ /\ \E next \in {"text", "idle"} : thread' = [thread EXCEPT ![c] = next]
          /\ UNCHANGED crashed
       \/ callee[c] # lsInterface /\ crashed' = TRUE /\ UNCHANGED thread
    /\ UNCHANGED <<mutex, allConnections, conn, callee, pending, asked, feed,
                   portClosed>>
    /\ ConnUnchanged

(* A binary message for one of LocalServer's files (LocalFiles), or one     *)
(* that is refused: answered without touching the state of this module,     *)
(* unless an exception leaves the callback and so ends the program.         *)
OtherBinaryMessage(c) ==
    /\ Take(c)
    /\ \/ /\ \E result \in Results : thread' = [thread EXCEPT ![c] = AfterSend(result)]
          /\ UNCHANGED crashed
       \/ Throw(c)
    /\ UNCHANGED <<mutex, allConnections, conn, callee, asked, feed, portClosed>>
    /\ ConnUnchanged

(* OOPE: Parse() reads the line before it takes the lock.  A line it has no *)
(* use for is dropped, and an empty port throws (std::stoi).                *)
ParseMessage(c) ==
    /\ Take(c)
    /\ \/ /\ \E next \in {"idle", "parse"} : thread' = [thread EXCEPT ![c] = next]
          /\ UNCHANGED crashed
       \/ Throw(c)
    /\ UNCHANGED <<mutex, allConnections, conn, callee, asked, feed, portClosed>>
    /\ ConnUnchanged

(* The part of Parse() under the lock, the subject of ClientSockets.  It    *)
(* ends, unless it destroys a client socket that ~WebsocketServer() has     *)
(* just dropped: that joins, inside the lock, a thread that may wait for it.*)
ParseSection(c) ==
    /\ thread[c] = "parse"
    /\ mutex = Free
    /\ \/ thread' = [thread EXCEPT ![c] = "idle"] /\ UNCHANGED mutex
       \/ /\ mainPc = "stop"
          /\ thread' = [thread EXCEPT ![c] = "stuck"]
          /\ mutex' = c
    /\ UNCHANGED <<allConnections, conn, callee, pending, asked, feed,
                   portClosed, crashed>>
    /\ ConnUnchanged

(* The answer is sent back; an error closes the connection instead.         *)
Reply(c) ==
    /\ thread[c] \in {"text", "error"}
    /\ thread' = [thread EXCEPT ![c] = "idle"]
    /\ conn' = IF thread[c] = "error" THEN [conn EXCEPT ![c] = "closing"] ELSE conn
    /\ UNCHANGED <<mutex, allConnections, callee, pending, asked, feed,
                   portClosed, crashed>>
    /\ ConnUnchanged

(* The Close event, after which the thread ends and the socket is deleted;  *)
(* the expired pointer stays in the list.                                   *)
OnClose(c) ==
    /\ conn[c] \in {"open", "closing"}
    /\ thread[c] = "idle"
    /\ conn' = [conn EXCEPT ![c] = "gone"]
    /\ portClosed' = TRUE
    /\ UNCHANGED <<mutex, allConnections, thread, callee, pending, asked, feed,
                   crashed>>
    /\ ConnUnchanged

ConnStep(c) ==
    \/ OnConnection(c) \/ HandshakeFail(c) \/ OpenRegister(c) \/ OpenGreet(c)
    \/ TextMessage(c) \/ SendReturn(c) \/ SendSpins(c)
    \/ PathMessage(c) \/ PathRead(c) \/ OtherBinaryMessage(c)
    \/ ParseMessage(c) \/ ParseSection(c)
    \/ Reply(c) \/ OnClose(c)

-----------------------------------------------------------------------------
Game ==
    /\ GameStart \/ GameExit
    /\ UNCHANGED <<mainVars, sharedVars, connVars, crashed>>

(* A crashed process, or one whose main has returned, takes no more steps.  *)
Halted == (crashed \/ mainPc = "done") /\ UNCHANGED vars

Next ==
    \/ /\ ~crashed
       /\ \/ MainStep \/ MainSleep \/ Signal \/ Game
          \/ \E c \in Conns : ConnStep(c) \/ Submit(c)
    \/ Halted

Spec == Init /\ [][Next]_vars

(* The main thread and the threads of live connections run; a lock that is  *)
(* held a bounded number of times is obtained.  Games, webapps and signals  *)
(* owe nothing.  A thread is made to finish its handshake or its socket     *)
(* only when the socket is being closed.  A call on the interface returns   *)
(* unless it spins, which no fairness excludes: SendSpins ends what         *)
(* SendReturn would have to do.                                             *)
Answering(c) ==
    OpenGreet(c) \/ SendReturn(c) \/ PathRead(c) \/ ParseSection(c) \/ Reply(c)
Ending(c) == /\ conn[c] = "closing" \/ mainPc = "stop"
             /\ HandshakeFail(c) \/ OnClose(c)

Fairness ==
    /\ WF_vars(~crashed /\ MainStep)
    /\ \A c \in Conns : /\ WF_vars(~crashed /\ Answering(c))
                        /\ WF_vars(~crashed /\ Ending(c))

FairSpec == Spec /\ Fairness

-----------------------------------------------------------------------------
(* Safety.                                                                  *)

(* The pointers the two servers keep never outlive the object they point   *)
(* to, and main's asserts hold: when OnGameOpened takes the lock no game is *)
(* announced, when OnGameClosed takes it the game announced is the one it   *)
(* was called for (main.cpp:105-115, WebsocketServer.cpp:65 and :96).       *)
PointersLive ==
    mainPc # "done" =>
        /\ wsInterface \in {0, interface}
        /\ lsInterface \in {0, interface}
        /\ mainPc = "lockOpen" => wsInterface = 0
        /\ mainPc = "lockClose" => wsInterface = interface

(* Whenever nobody holds the lock, every open connection has been told      *)
(* exactly what the server holds: a webapp that connects in the middle of a *)
(* broadcast neither misses the announcement nor gets a contradicting one   *)
(* (WebsocketServer.cpp:79-87, :105-113, :203-211).                         *)
FeedCurrent ==
    mutex = Free => \A c \in Conns : conn[c] = "open" => Told(c) = wsInterface

(* What one connection receives alternates: OnGameOpened of a game, then    *)
(* OnGameClosed of that same game, then a later game; no announcement is    *)
(* repeated, lost between two others, or reordered.                         *)
Alternates(f) ==
    /\ f # <<>> => f[1].kind = "OnGameOpened"
    /\ \A i \in 1..(Len(f) - 1) :
          IF f[i].kind = "OnGameOpened"
          THEN f[i+1] = Closed(f[i].game)
          ELSE f[i+1].kind = "OnGameOpened" /\ f[i].game < f[i+1].game

FeedAlternates == \A c \in Conns : Alternates(feed[c])

(* On the way out of main the interface is deleted only once no connection  *)
(* thread can still be inside a call on it (main.cpp:87, :209-212).         *)
ShutdownOrder ==
    mainPc \in {"join", "done"} =>
        \A c \in Conns : thread[c] = "idle" /\ conn[c] \in {"new", "gone"}

(* A game is announced closed only when its process has exited.             *)
ClosedMeansExited ==
    mainPc \in {"localClose", "lockClose", "sendClose"} => ~procAlive

(* With shared memory it is: isClosed() asks the process, and the flag that *)
(* a call of another thread may have set meanwhile agrees with it           *)
(* (Windows/WindowsSMI.cpp:221-224, :233-259).                              *)
ShmClosedMeansExited == engine = "shm" => ClosedMeansExited

(* The program died of a null or dead interface pointer, or of isClosed(),  *)
(* not of an exception that a webapp's own request threw.                   *)
BadPointer == crashed /\ \A c \in Conns : thread[c] # "threw"

(* A webapp that sends only after OnGameOpened never makes the server       *)
(* follow a null or a dead interface pointer.                               *)
PatientNeverCrashes == ~BadPointer

(* main has begun to withdraw a game from LocalServer and the webapps.      *)
Withdrawn ==
    \/ games > 1
    \/ games = 1 /\ interface = 0
    \/ mainPc \in {"lockClose", "sendClose", "destroy"}

(* Such webapps are safe at least until a game is withdrawn: nobody is told *)
(* that he may send before the pointers are set, and none of them is        *)
(* cleared, nor the object deleted, before main has seen the game close     *)
(* (WebsocketServer.cpp:208, :280, localserver.cpp:114, main.cpp:110-119).  *)
(* isClosed() may throw all the same for a DDE game without a process id.   *)
OnlyCloseCrashes ==
    Patient = Conns /\ engine # "ddeNoPid" /\ BadPointer => Withdrawn

-----------------------------------------------------------------------------
(* Liveness.                                                                *)

(* A game the server has taken up is announced to every open connection.    *)
OpenIsHeard ==
    \A c \in Conns, g \in Interface :
        (wsInterface = g /\ conn[c] = "open") ~>
            (Told(c) = g \/ wsInterface # g \/ conn[c] # "open" \/ crashed)

(* When the game exits, every open connection that was told of it is told   *)
(* that it closed, unless a game comes up again first or the program is     *)
(* being stopped.                                                           *)
CloseIsHeard ==
    \A c \in Conns, g \in Interface :
        (Told(c) = g /\ conn[c] = "open" /\ ~gameUp) ~>
            (Told(c) # g \/ conn[c] # "open" \/ gameUp \/ ~running \/ crashed)

(* The two ways in which the thread of a connection never ends: in the      *)
(* cutting of a text, or in Parse() with the lock held.                     *)
NeverEnds(c) == thread[c] \in {"spinning", "stuck"}

(* A signal, or a server that could not listen, ends the program, unless    *)
(* stop() joins a thread that never ends (main.cpp:93, :209,                *)
(* WebsocketServer.cpp:57).                                                 *)
Stops == ~running ~> (mainPc = "done" \/ crashed \/ \E c \in Conns : NeverEnds(c))
-----------------------------------------------------------------------------
(* The announcements implement the promise of GameFeed: the game announced  *)
(* is the pointer the server holds, the subscribers are the open            *)
(* connections, and a subscriber's view is the last announcement it got.    *)
Feed == INSTANCE GameFeed WITH
    Subscribers <- Conns,
    current <- wsInterface,
    last <- IF mainPc \in {"localOpen", "lockOpen"} THEN games - 1 ELSE games,
    subs <- {c \in Conns : conn[c] = "open"},
    view <- [c \in Conns |-> Told(c)]

FeedSpec == Feed!Spec
=============================================================================
