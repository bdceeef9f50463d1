------------------------------ MODULE PosixLink ------------------------------
(***************************************************************************)
(* How NornSockets finds and loses a game on Linux and macOS               *)
(* (Posix/PosixSMI.cpp): the game leaves its TCP port in a file; Create()  *)
(* tries a version of that file once, and remembers in two static          *)
(* variables whether to try again; every call opens a socket of its own,   *)
(* and the errors of these sockets are the only sign that the game has     *)
(* gone.                                                                   *)
(*                                                                         *)
(* Games are numbered in the order they start; 0 stands for "no game", for *)
(* "no object" and, among the times of the file, for "no file".            *)
(***************************************************************************)
EXTENDS Naturals

CONSTANTS
    Port,       \* TCP ports a game may listen on
    MaxGames,   \* bound: games started in one run
    Manners     \* how the games of a run may behave: an orderly game listens
                \* before it writes its port file, writes it in one go, and
                \* while it runs does not reset the connection of a call

ASSUME PortAssumption ==
    /\ Port \subseteq Nat \ {0}
    /\ MaxGames \in Nat

ASSUME MannersAssumption == Manners \subseteq BOOLEAN

VARIABLES
    orderly,    \* whether the games of this run are orderly
    game,       \* the game that is running
    port,       \* the port it has chosen
    listening,  \* it accepts connections there
    written,    \* how far it is with the port file
    started,    \* games started so far
    fileTime, filePort,     \* time and contents of the port file
    lastModified,           \* static of Create()
    connectionReset,        \* PosixSMI::_connectionReset
    attempt,    \* where Create() is
    tried,      \* port of the attempt
    object,     \* the game the interface object was opened for
    objectPort, \* PosixSMI::serv_addr
    isClosed,   \* PosixSMI::_isClosed
    peer        \* the game at the other end of the socket of a call

gameVars == <<orderly, game, port, listening, written, started>>
fileVars == <<fileTime, filePort>>
createVars == <<lastModified, attempt, tried>>
objectVars == <<object, objectPort, isClosed, peer>>
vars == <<gameVars, fileVars, createVars, connectionReset, objectVars>>

Game == 1..MaxGames

GameType ==
    /\ game \in 0..MaxGames /\ started \in 0..MaxGames
    /\ port \in Port \cup {0}
    /\ written \in {"no", "created", "yes"}

FileType ==
    /\ fileTime \in 0..(2 * MaxGames)
    /\ filePort \in Port \cup {0}

CreateType ==
    /\ lastModified \in 0..fileTime
    /\ attempt \in {"idle", "read", "construct"}
    /\ tried \in Port \cup {0}

ObjectType ==
    /\ object \in 0..MaxGames /\ peer \in 0..MaxGames
    /\ objectPort \in Port \cup {0}
    /\ object # 0 <=> objectPort # 0

FlagsType ==
    /\ orderly \in BOOLEAN /\ listening \in BOOLEAN
    /\ connectionReset \in BOOLEAN /\ isClosed \in BOOLEAN

TypeOK == FlagsType /\ GameType /\ FileType /\ CreateType /\ ObjectType

Init ==
    /\ orderly \in Manners
    /\ game = 0
    /\ port = 0
    /\ listening = FALSE
    /\ written = "no"
    /\ started = 0
    /\ fileTime = 0
    /\ filePort = 0
    /\ lastModified = 0
    /\ connectionReset = FALSE
    /\ attempt = "idle"
    /\ tried = 0
    /\ object = 0
    /\ objectPort = 0
    /\ isClosed = FALSE
    /\ peer = 0

-----------------------------------------------------------------------------
(* The game.                                                                *)

GameStart ==
    /\ game = 0
    /\ started < MaxGames
    /\ started' = started + 1
    /\ game' = started + 1
    /\ port' \in Port
    /\ listening' = FALSE
    /\ written' = "no"
    /\ UNCHANGED <<orderly, fileVars, createVars, connectionReset, objectVars>>

GameListen ==
    /\ game # 0
    /\ ~listening
    /\ listening' = TRUE
    /\ UNCHANGED <<orderly, game, port, written, started, fileVars, createVars,
                   connectionReset, objectVars>>

(* The file is there, but empty.                                            *)
FileCreate ==
    /\ game # 0 /\ written = "no" /\ ~orderly
    /\ written' = "created"
    /\ fileTime' = fileTime + 1
    /\ filePort' = 0
    /\ UNCHANGED <<orderly, game, port, listening, started, createVars,
                   connectionReset, objectVars>>

(* The port is in it; the clock of the file may not have moved since.       *)
FileWrite ==
    /\ game # 0 /\ written # "yes"
    /\ orderly => listening
    /\ written' = "yes"
    /\ filePort' = port
    /\ \/ fileTime' = fileTime + 1
       \/ written = "created" /\ UNCHANGED fileTime
    /\ UNCHANGED <<orderly, game, port, listening, started, createVars,
                   connectionReset, objectVars>>

GameExit ==
    /\ game # 0
    /\ game' = 0
    /\ listening' = FALSE
    /\ written' = "no"
    /\ port' = 0
    /\ UNCHANGED <<orderly, started, fileVars, createVars, connectionReset,
                   objectVars>>

-----------------------------------------------------------------------------
(* Create() and the constructor, called by main while there is no object.   *)

(* Nothing to try: main sleeps for a second.                                *)
CreateNothing ==
    /\ attempt = "idle"
    /\ object = 0
    /\ fileTime = 0 \/ (fileTime = lastModified /\ ~connectionReset)
    /\ UNCHANGED vars

(* Mutant of CreateStat: after a reset the time is remembered, the file is  *)
(* not read.                                                                *)
CreateStatAtReset ==
    /\ attempt = "idle"
    /\ object = 0
    /\ fileTime # 0
    /\ connectionReset \/ fileTime # lastModified
    /\ lastModified' = fileTime
    /\ connectionReset' = FALSE
    /\ IF connectionReset
       THEN tried' = 0 /\ attempt' = "construct"
       ELSE attempt' = "read" /\ UNCHANGED tried
    /\ UNCHANGED <<gameVars, fileVars, objectVars>>

(* A version of the file that has not been tried is taken; for one that has *)
(* been, a reset connection starts an attempt whose port is still zero.     *)
CreateStat ==
    /\ attempt = "idle"
    /\ object = 0
    /\ fileTime # 0
    /\ \/ /\ fileTime = lastModified
          /\ connectionReset
          /\ connectionReset' = FALSE
          /\ tried' = 0
          /\ attempt' = "construct"
          /\ UNCHANGED lastModified
       \/ /\ fileTime # lastModified
          /\ lastModified' = fileTime
          /\ attempt' = "read"
          /\ UNCHANGED <<connectionReset, tried>>
    /\ UNCHANGED <<gameVars, fileVars, objectVars>>

(* The file is read, by now perhaps a later version of it, or cannot be.    *)
CreateRead ==
    /\ attempt = "read"
    /\ \/ tried' = filePort /\ attempt' = "construct"
       \/ ~orderly /\ attempt' = "idle" /\ UNCHANGED tried
    /\ UNCHANGED <<gameVars, fileVars, lastModified, connectionReset,
                   objectVars>>

(* PosixSMI() asks the game for its version and name; an object that did    *)
(* not learn the name is thrown away by Open().  If a game was there and    *)
(* died meanwhile, EPIPE may be left behind.                                *)
Construct ==
    /\ attempt = "construct"
    /\ attempt' = "idle"
    /\ \/ /\ listening /\ tried = port
          /\ object' = game
          /\ objectPort' = tried
          /\ isClosed' = FALSE
          /\ UNCHANGED <<peer, connectionReset>>
       \/ /\ orderly => ~(listening /\ tried = port)
          /\ \/ UNCHANGED connectionReset
             \/ tried # 0 /\ connectionReset' = TRUE
          /\ UNCHANGED objectVars
    /\ UNCHANGED <<gameVars, fileVars, lastModified, tried>>

-----------------------------------------------------------------------------
(* A call on the object: main's poll.                                       *)

(* Mutant of Connect: a refused connection does not close the object.       *)
ConnectForgiving ==
    /\ object # 0 /\ ~isClosed /\ peer = 0
    /\ peer' = IF listening /\ port = objectPort THEN game ELSE 0
    /\ UNCHANGED <<gameVars, fileVars, createVars, connectionReset, object,
                   objectPort, isClosed>>

(* Socket(): a refused connection is an exception, which sets _isClosed.    *)
Connect ==
    /\ object # 0 /\ ~isClosed /\ peer = 0
    /\ IF listening /\ port = objectPort
       THEN peer' = game /\ UNCHANGED isClosed
       ELSE isClosed' = TRUE /\ UNCHANGED peer
    /\ UNCHANGED <<gameVars, fileVars, createVars, connectionReset, object,
                   objectPort>>

(* send() and recv().  A game that died meanwhile shows as an answer of no  *)
(* bytes, as ECONNRESET or, to send() alone, as EPIPE; only the last sets   *)
(* _connectionReset.  One that is not orderly may do the same while it      *)
(* runs.  No answer within the timeout passes for an empty one.             *)
Exchange ==
    /\ peer # 0
    /\ peer' = 0
    /\ \/ UNCHANGED <<isClosed, connectionReset>>
       \/ /\ peer # game \/ ~orderly
          /\ isClosed' = TRUE
          /\ connectionReset' = TRUE \/ UNCHANGED connectionReset
    /\ UNCHANGED <<gameVars, fileVars, createVars, object, objectPort>>

(* isClosed() and the end of the object.                                    *)
Close ==
    /\ object # 0 /\ isClosed
    /\ object' = 0
    /\ objectPort' = 0
    /\ isClosed' = FALSE
    /\ UNCHANGED <<gameVars, fileVars, createVars, connectionReset, peer>>

Server == CreateStat \/ CreateRead \/ Construct \/ Connect \/ Exchange \/ Close

Next ==
    \/ GameStart \/ GameListen \/ FileCreate \/ FileWrite \/ GameExit
    \/ Server \/ CreateNothing

Spec == Init /\ [][Next]_vars

(* The main loop goes round; the game and its file owe nothing.             *)
FairSpec == Spec /\ WF_vars(Server)

-----------------------------------------------------------------------------
(* A game whose port is in the file is running and takes connections.       *)
Reachable(g) == game = g /\ listening /\ written = "yes"

(* main has an interface object that talks to the running game.             *)
Reached == object # 0 /\ ~isClosed /\ objectPort = port

(* The port file of an orderly game that takes connections is not used up:   *)
(* main talks to that game, is about to, or has yet to try this version of  *)
(* the file, whatever games came and went before it and whoever had its     *)
(* port (PosixSMI.cpp:35-61, :199-203).                                     *)
NeverMissed ==
    orderly /\ listening /\ written = "yes" =>
        /\ filePort = port
        /\ \/ Reached
           \/ attempt = "read"
           \/ attempt = "construct" /\ tried = port
           \/ fileTime # lastModified

(* An orderly game that listens is reached, whatever games came and went    *)
(* before it, as long as it stays (PosixSMI.cpp:35-61).                     *)
GameReached ==
    \A g \in Game : (orderly /\ Reachable(g)) ~> (Reached \/ game # g)

(* The object of a game that has gone is given up, unless a later game has  *)
(* taken over its port (PosixSMI.cpp:199-203, main.cpp:110-119).            *)
ExitNoticed ==
    \A g \in Game : (object = g /\ game # g) ~> (object # g \/ objectPort = port)
=============================================================================
