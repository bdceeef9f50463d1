------------------------------ MODULE PosixCall ------------------------------
(***************************************************************************)
(* PosixSMI::send1252() as main and the threads of the connections call it *)
(* at once.  Each call has a socket of its own; the buffer that recv()     *)
(* fills is static, and all of them share it.  When ChunkMessage() comes   *)
(* back it has left one chunk (Chunking!OneChunk), so the loop over the    *)
(* chunks runs once.                                                       *)
(***************************************************************************)
EXTENDS Naturals

CONSTANTS
    Threads,    \* main and the threads of the connections
    Webapps,    \* the latter: they send any text, main only short ones
    MaxSends    \* bound: calls in one run

ASSUME WebappsAssumption == Webapps \subseteq Threads
ASSUME SendsAssumption == MaxSends \in Nat

Results == {"text", "empty", "error"}
NoOne == 0      \* among the calls, which are numbered

VARIABLES
    up,         \* the game runs
    sends,      \* calls so far
    pc,         \* of each thread: its place in send1252()
    request,    \* the number of its call
    during,     \* the calls that were under way at some time of its call
    reply,      \* what of the answer has come to its socket when recv() looks
    answer,     \* the Response
    response,   \* the calls whose answers its text has bytes of
    buffer,     \* the call whose answer read_message()::buffer holds
    isClosed    \* PosixSMI::_isClosed

callVars == <<pc, request, during, reply, answer, response>>
vars == <<up, sends, callVars, buffer, isClosed>>

Connected == {"send", "recv", "copy", "return"}

TypeOK ==
    /\ up \in BOOLEAN
    /\ sends \in 0..MaxSends
    /\ pc \in [Threads -> {"idle", "chunk", "spin", "connect", "refused"} \cup Connected]
    /\ request \in [Threads -> 0..MaxSends]
    /\ during \in [Threads -> SUBSET (0..MaxSends)]
    /\ reply \in [Threads -> {"none", "lost", "part", "whole"}]
    /\ answer \in [Threads -> Results \cup {"none"}]
    /\ response \in [Threads -> SUBSET (0..MaxSends)]
    /\ buffer \in 0..MaxSends
    /\ isClosed \in BOOLEAN
    /\ \A t \in Threads : pc[t] \in {"chunk", "spin", "connect", "send", "recv"} <=>
                             pc[t] # "idle" /\ answer[t] = "none"

Init ==
    /\ up = TRUE
    /\ sends = 0
    /\ pc = [t \in Threads |-> "idle"]
    /\ request = [t \in Threads |-> NoOne]
    /\ during = [t \in Threads |-> {}]
    /\ reply = [t \in Threads |-> "none"]
    /\ answer = [t \in Threads |-> "none"]
    /\ response = [t \in Threads |-> {}]
    /\ buffer = NoOne
    /\ isClosed = FALSE

-----------------------------------------------------------------------------
(* The game.  It answers a request in one piece or in several, of which     *)
(* only the first may have come when recv() looks.                          *)
GameAnswers(t) ==
    /\ up
    /\ pc[t] = "recv" /\ reply[t] = "none"
    /\ \E r \in {"part", "whole"} : reply' = [reply EXCEPT ![t] = r]
    /\ UNCHANGED <<up, sends, pc, request, during, answer, response, buffer,
                   isClosed>>

GameExits ==
    /\ up
    /\ up' = FALSE
    /\ UNCHANGED <<sends, callVars, buffer, isClosed>>

-----------------------------------------------------------------------------
(* A call.                                                                  *)
Go(t, place) == pc' = [pc EXCEPT ![t] = place]

Result(t, result) == answer' = [answer EXCEPT ![t] = result]

UnderWay == {t \in Threads : pc[t] # "idle"}

(* "Port is not open."                                                      *)
CallClosed(t) ==
    /\ pc[t] = "idle"
    /\ isClosed
    /\ Result(t, "error")
    /\ response' = [response EXCEPT ![t] = {}]
    /\ UNCHANGED <<up, sends, pc, request, during, reply, buffer, isClosed>>

Call(t) ==
    /\ pc[t] = "idle"
    /\ ~isClosed
    /\ sends < MaxSends
    /\ sends' = sends + 1
    /\ Go(t, "chunk")
    /\ request' = [request EXCEPT ![t] = sends + 1]
    /\ during' = [u \in Threads |->
                     IF u = t THEN {request[v] : v \in UnderWay}
                     ELSE during[u] \cup {n \in {sends + 1} : u \in UnderWay}]
    /\ reply' = [reply EXCEPT ![t] = "none"]
    /\ Result(t, "none")
    /\ response' = [response EXCEPT ![t] = {}]
    /\ UNCHANGED <<up, buffer, isClosed>>

(* ChunkMessage() leaves one chunk ...                                      *)
Chunk(t) ==
    /\ pc[t] = "chunk"
    /\ Go(t, "connect")
    /\ UNCHANGED <<up, sends, request, during, reply, answer, response, buffer,
                   isClosed>>

(* ... or does not return, for a text with two commands that reach the      *)
(* limit together.                                                          *)
ChunkForever(t) ==
    /\ t \in Webapps
    /\ pc[t] = "chunk"
    /\ Go(t, "spin")
    /\ UNCHANGED <<up, sends, request, during, reply, answer, response, buffer,
                   isClosed>>

Spin(t) == pc[t] = "spin" /\ UNCHANGED vars

(* Socket()                                                                 *)
Connect(t) ==
    /\ pc[t] = "connect"
    /\ up
    /\ Go(t, "send")
    /\ UNCHANGED <<up, sends, request, during, reply, answer, response, buffer,
                   isClosed>>

(* It throws: nobody listens, or a signal came.                             *)
Refused(t) ==
    /\ pc[t] = "connect"
    /\ Go(t, "refused")
    /\ Result(t, "error")
    /\ isClosed' = TRUE
    /\ UNCHANGED <<up, sends, request, during, reply, response, buffer>>

(* ::send().  If it times out the game will not answer, but that is no      *)
(* error.                                                                   *)
Send(t) ==
    /\ pc[t] = "send"
    /\ Go(t, "recv")
    /\ \E r \in {"none", "lost"} : reply' = [reply EXCEPT ![t] = r]
    /\ UNCHANGED <<up, sends, request, during, answer, response, buffer, isClosed>>

(* Mutant of SocketFails: _isClosed is left alone.                          *)
SocketFailsOpen(t) ==
    /\ pc[t] \in {"send", "recv"}
    /\ Go(t, "return")
    /\ Result(t, "error")
    /\ UNCHANGED <<up, sends, request, during, reply, response, buffer, isClosed>>

(* HandleError() of ::send() or recv(): reset by the host or the peer, a    *)
(* signal, or an exception.  Each sets _isClosed.                           *)
SocketFails(t) ==
    /\ pc[t] \in {"send", "recv"}
    /\ Go(t, "return")
    /\ Result(t, "error")
    /\ isClosed' = TRUE
    /\ UNCHANGED <<up, sends, request, during, reply, response, buffer>>

(* Mutant of RecvNothing: the wait is repeated.                             *)
RecvNothingAgain(t) ==
    /\ pc[t] = "recv"
    /\ reply[t] \in {"none", "lost"}
    /\ reply' = [reply EXCEPT ![t] = "lost"]
    /\ UNCHANGED <<up, sends, pc, request, during, answer, response, buffer,
                   isClosed>>

(* Mutant of RecvNothing: a view of the buffer is returned all the same.    *)
RecvNothingStale(t) ==
    /\ pc[t] = "recv"
    /\ reply[t] \in {"none", "lost"}
    /\ Go(t, "copy")
    /\ Result(t, "text")
    /\ UNCHANGED <<up, sends, request, during, reply, response, buffer, isClosed>>

(* recv() returns no bytes: the answer was empty, 60 seconds are over, or   *)
(* the game has gone.  All three pass for an empty answer.                  *)
RecvNothing(t) ==
    /\ pc[t] = "recv"
    /\ reply[t] \in {"none", "lost"}
    /\ Go(t, "return")
    /\ Result(t, "empty")
    /\ UNCHANGED <<up, sends, request, during, reply, response, buffer, isClosed>>

(* What has come is put into the static buffer.                             *)
Recv(t) ==
    /\ pc[t] = "recv"
    /\ reply[t] \in {"part", "whole"}
    /\ buffer' = request[t]
    /\ Go(t, "copy")
    /\ Result(t, "text")
    /\ UNCHANGED <<up, sends, request, during, reply, response, isClosed>>

(* It is appended to the response, byte by byte: more of it is still to be  *)
(* read, or not.  The loop ends here whatever has come, since the           *)
(* string_view its condition looks at is another one, which stays empty.    *)
Copy(t) ==
    /\ pc[t] = "copy"
    /\ response' = [response EXCEPT ![t] = @ \cup {buffer}]
    /\ \E place \in {"copy", "return"} : Go(t, place)
    /\ UNCHANGED <<up, sends, request, during, reply, answer, buffer, isClosed>>

(* ~Socket()                                                                *)
Return(t) ==
    /\ pc[t] \in {"return", "refused"}
    /\ Go(t, "idle")
    /\ UNCHANGED <<up, sends, request, during, reply, answer, response, buffer,
                   isClosed>>

-----------------------------------------------------------------------------
(* What a thread does in a call.                                            *)
Runs(t) ==
    \/ Chunk(t) \/ Connect(t) \/ Refused(t) \/ Send(t) \/ RecvNothing(t)
    \/ Recv(t) \/ Return(t)

Next ==
    \/ GameExits
    \/ \E t \in Threads :
          \/ GameAnswers(t) \/ CallClosed(t) \/ Call(t) \/ Runs(t)
          \/ ChunkForever(t) \/ Spin(t) \/ SocketFails(t) \/ Copy(t)
    \/ sends = MaxSends /\ UnderWay = {} /\ UNCHANGED vars    \* the bound

Spec == Init /\ [][Next]_vars

(* A thread inside a call runs, without counting on a failure of its        *)
(* socket, and a copy comes to its end.  Callers and the game owe nothing.  *)
FairSpec ==
    /\ Spec
    /\ \A t \in Threads : WF_vars(Runs(t)) /\ WF_vars(Copy(t) /\ pc'[t] = "return")

-----------------------------------------------------------------------------
(* No byte of a text is older than the call: whatever the threads do to the *)
(* buffer they share, a text is made of the answer to its own call and of   *)
(* answers to calls that overlapped it (PosixSMI.cpp:281-302).              *)
NoStaleAnswer ==
    \A t \in Threads :
        answer[t] = "text" => response[t] \subseteq {request[t]} \cup during[t]

(* Every call returns, with the game or without, but for one whose text     *)
(* ChunkMessage() never lets go, which is a webapp's: the timeouts of the   *)
(* socket end each wait (PosixSMI.cpp:250-256), nothing is tried twice, and *)
(* main's own polls always return (Support.cpp:77-86).                      *)
CallReturns ==
    \A t \in Threads :
        pc[t] # "idle" ~> pc[t] = "idle" \/ (t \in Webapps /\ pc[t] = "spin")

-----------------------------------------------------------------------------
(* What the rest of the server is told about this class.  A call that was   *)
(* connected when the game went may still bring its answer home: for that   *)
(* long the game counts as running.                                         *)
Up == up \/ \E t \in Threads : pc[t] \in Connected

Link == INSTANCE EngineLink WITH
            Engines <- {"posix"}, engine <- "posix", gameUp <- Up,
            procAlive <- Up, broken <- isClosed, ddeOpen <- FALSE

(* Every step is one the EngineLink of NornServer allows: a call that gets  *)
(* its result, the end of the game, or nothing (PosixSMI.cpp:113-196).      *)
LinkStep ==
    \/ \E t \in Threads : answer'[t] \in Results /\ answer'[t] # answer[t]
                             /\ Link!Send(answer'[t])
    \/ /\ \A t \in Threads : answer'[t] \in {answer[t], "none"}
       /\ Link!GameExit \/ UNCHANGED Link!linkVars

PosixImplements == [][LinkStep]_vars
=============================================================================
