--------------------------- MODULE NornServerInv ---------------------------
(***************************************************************************)
(* The inductive invariant of NornServer, in named parts.  NornServerProofs *)
(* proves each part inductive, with the help of those before it, and the   *)
(* safety properties from them.                                            *)
(***************************************************************************)
EXTENDS NornServer

Opening == {"localOpen", "lockOpen"}
Sending == {"sendOpen", "sendClose"}
Early   == {"new", "accepted", "registered"}
Stopped == {"stop", "join", "done"}

(* Where the two server pointers stand relative to main's own pointer at    *)
(* every point of the main loop.                                            *)
PtrInv ==
    /\ interface \in {0, games}
    /\ mainPc \in {"top", "stop", "join"} =>
          wsInterface = interface /\ lsInterface = interface
    /\ mainPc = "localOpen" =>
          interface # 0 /\ wsInterface = 0 /\ lsInterface = 0
    /\ mainPc = "lockOpen" =>
          interface # 0 /\ wsInterface = 0 /\ lsInterface = interface
    /\ mainPc \in {"sendOpen", "check", "poll", "scan", "localClose"} =>
          interface # 0 /\ wsInterface = interface /\ lsInterface = interface
    /\ mainPc = "lockClose" =>
          interface # 0 /\ wsInterface = interface /\ lsInterface = 0
    /\ mainPc \in {"sendClose", "destroy"} =>
          interface # 0 /\ wsInterface = 0 /\ lsInterface = 0

(* Who owns WebsocketServer::_mutex: main exactly while it broadcasts, a    *)
(* connection thread exactly while it is between push_back and the greeting,*)
(* or for ever if it waits in Parse() for a thread that waits for the lock. *)
MutexInv ==
    /\ mutex = Main <=> mainPc \in Sending
    /\ \A c \in Conns : mutex = c <=> conn[c] = "registered" \/ thread[c] = "stuck"

(* A thread handles a message only on an open connection, and the server    *)
(* accepts nothing once it is being torn down.                              *)
ThreadInv ==
    /\ \A c \in Conns : conn[c] # "open" => thread[c] = "idle"
    /\ mainPc \in Stopped => ~listening
    /\ mainPc \in {"join", "done"} => \A c \in Conns : conn[c] \in {"new", "gone"}

(* Every connection that is open, or about to be, is in the list once.      *)
ListInv ==
    /\ \A i \in 1..Len(allConnections) : conn[allConnections[i]] \notin {"new", "accepted"}
    /\ \A c \in Conns : conn[c] \in {"registered", "open"} =>
          \E i \in 1..Len(allConnections) : allConnections[i] = c
    /\ \A i, j \in 1..Len(allConnections) :
          allConnections[i] = allConnections[j] => i = j

(* What each open connection has been told: what the server holds, except   *)
(* that a broadcast has reached only the entries before the cursor.         *)
ToldInv ==
    /\ \A c \in Conns : conn[c] \in Early => feed[c] = <<>>
    /\ mainPc \notin Sending =>
          \A c \in Conns : conn[c] = "open" => Told(c) = wsInterface
    /\ mainPc = "sendOpen" =>
          \A i \in 1..Len(allConnections) : conn[allConnections[i]] = "open" =>
             Told(allConnections[i]) = IF i < cursor THEN wsInterface ELSE 0
    /\ mainPc = "sendClose" =>
          \A i \in 1..Len(allConnections) : conn[allConnections[i]] = "open" =>
             Told(allConnections[i]) = IF i < cursor THEN 0 ELSE interface

(* Every feed alternates, and mentions no game that is still to be          *)
(* announced to it.                                                         *)
FeedInv ==
    /\ FeedAlternates
    /\ \A c \in Conns : \A i \in 1..Len(feed[c]) :
          /\ feed[c][i].game <= games
          /\ mainPc \in Opening => feed[c][i].game < games
          /\ mainPc = "sendOpen" /\ Told(c) = 0 => feed[c][i].game < games

(* The conjunction, as one run checks it before any of it is proved.        *)
IInv == PtrInv /\ MutexInv /\ ThreadInv /\ ListInv /\ ToldInv /\ FeedInv
=============================================================================
