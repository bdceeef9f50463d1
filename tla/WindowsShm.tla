----------------------------- MODULE WindowsShm -----------------------------
(***************************************************************************)
(* WindowsSMI::send1252() as several threads call it at once: a named      *)
(* mutex, one piece of memory for the request and its answer, and two      *)
(* events, all of which belong to the game engine and are shared with      *)
(* other tools that talk to it.  Such a tool keeps to the protocol, but may *)
(* die with the mutex in its hands, or give up waiting and release it while *)
(* it is being served.  The engine may exit at any time.                   *)
(***************************************************************************)
EXTENDS Naturals

CONSTANTS
    Threads,    \* main and the threads of the connections
    Main,
    MaxSends    \* bound: requests in one run

Free  == "free"
Other == "other"        \* another tool

ASSUME ThreadsAssumption == Main \in Threads /\ {Free, Other} \cap Threads = {}
ASSUME SendsAssumption == MaxSends \in Nat

(* What ChunkMessage() makes of a message: one chunk, one that is above the *)
(* limit, or an endless loop.                                               *)
Messages == {"short", "long", "endless"}
Results  == {"text", "empty", "error"}

VARIABLES
    engine,     \* the game: "waiting" for the request event, "busy" with its
                \* own work, "serving" a request, or "exited"
    serving,    \* the request it serves
    memory,     \* whose request or answer *memory_ptr holds
    resultSet,  \* result_event is signalled
    owner,      \* of the mutex
    abandoned,  \* its last owner died
    kept,       \* its owner has taken it once more than he gives it back
    other,      \* what the other tool is doing
    otherLeft,  \* how it left the mutex in the middle of a request: it "never"
                \* did, "gaveUp" waiting, or "died"
    sends,      \* requests so far: they are numbered
    pc, asked, request, answer,     \* of each thread: its place in send1252(),
                                    \* the message, its number, the result
    answerTo,   \* the request to which that is the answer
    isClosed    \* WindowsSMI::_isClosed

engineVars == <<engine, serving>>
mutexVars == <<owner, abandoned, kept>>
otherVars == <<other, otherLeft>>
callVars == <<pc, asked, request, answer, answerTo>>
vars == <<engineVars, memory, resultSet, mutexVars, otherVars, sends, callVars,
          isClosed>>

Inside == {"chunk", "pulse", "wait", "done", "spin"}    \* with the mutex

NoOne == 0      \* among the requests: none, or one of the other tool

Memory == [kind : {"request", "answer"}, to : 0..MaxSends]

TypeOK ==
    /\ engine \in {"waiting", "busy", "serving", "exited"}
    /\ serving \in 0..MaxSends
    /\ memory \in Memory
    /\ resultSet \in BOOLEAN
    /\ owner \in Threads \cup {Free, Other}
    /\ abandoned \in BOOLEAN
    /\ kept \in BOOLEAN
    /\ other \in {"idle", "asking", "waiting"}
    /\ otherLeft \in {"never", "gaveUp", "died"}
    /\ sends \in 0..MaxSends
    /\ pc \in [Threads -> {"idle", "lock"} \cup Inside]
    /\ asked \in [Threads -> Messages]
    /\ request \in [Threads -> 0..MaxSends]
    /\ answer \in [Threads -> Results \cup {"none"}]
    /\ answerTo \in [Threads -> 0..MaxSends]
    /\ isClosed \in BOOLEAN
    /\ \A t \in Threads : pc[t] \in Inside => owner = t
    /\ owner = Other <=> other # "idle"

Init ==
    /\ engine \in {"waiting", "busy"}
    /\ serving = NoOne
    /\ memory = [kind |-> "answer", to |-> NoOne]
    /\ resultSet \in BOOLEAN
    /\ owner = Free
    /\ abandoned = FALSE
    /\ kept = FALSE
    /\ other = "idle"
    /\ otherLeft = "never"
    /\ sends = 0
    /\ pc = [t \in Threads |-> "idle"]
    /\ asked = [t \in Threads |-> "short"]
    /\ request = [t \in Threads |-> NoOne]
    /\ answer = [t \in Threads |-> "none"]
    /\ answerTo = [t \in Threads |-> NoOne]
    /\ isClosed = FALSE

-----------------------------------------------------------------------------
(* The engine and the other tool.                                           *)

(* A pulse wakes the engine only if it waits at that moment.                *)
Pulsed(to) ==
    IF engine = "waiting" THEN engine' = "serving" /\ serving' = to
    ELSE UNCHANGED engineVars

EngineTurns ==
    /\ \/ engine = "waiting" /\ engine' = "busy"
       \/ engine = "busy" /\ engine' = "waiting"
    /\ UNCHANGED <<serving, memory, resultSet, mutexVars, otherVars, sends,
                   callVars, isClosed>>

EngineAnswers ==
    /\ engine = "serving"
    /\ engine' = "busy"
    /\ memory' = [kind |-> "answer", to |-> serving]
    /\ resultSet' = TRUE
    /\ UNCHANGED <<serving, mutexVars, otherVars, sends, callVars, isClosed>>

EngineExits ==
    /\ engine # "exited"
    /\ engine' = "exited"
    /\ UNCHANGED <<serving, memory, resultSet, mutexVars, otherVars, sends,
                   callVars, isClosed>>

OtherTakes ==
    /\ other = "idle" /\ otherLeft # "died"
    /\ owner = Free
    /\ owner' = Other
    /\ other' = "asking"
    /\ abandoned' = FALSE
    /\ UNCHANGED <<engineVars, memory, resultSet, kept, otherLeft, sends,
                   callVars, isClosed>>

OtherAsks ==
    /\ other = "asking"
    /\ other' = "waiting"
    /\ memory' = [kind |-> "request", to |-> NoOne]
    /\ resultSet' = FALSE
    /\ Pulsed(NoOne)
    /\ UNCHANGED <<mutexVars, otherLeft, sends, callVars, isClosed>>

(* It has its answer, or has given up waiting for one that will not come.   *)
OtherReleases ==
    /\ other = "waiting"
    /\ engine # "serving"
    /\ other' = "idle"
    /\ owner' = Free
    /\ UNCHANGED <<engineVars, memory, resultSet, abandoned, kept, otherLeft,
                   sends, callVars, isClosed>>

(* It gives up although the engine is at work on its request.               *)
OtherGivesUp ==
    /\ other = "waiting"
    /\ engine = "serving"
    /\ other' = "idle"
    /\ otherLeft' = "gaveUp"
    /\ owner' = Free
    /\ UNCHANGED <<engineVars, memory, resultSet, abandoned, kept, sends,
                   callVars, isClosed>>

OtherDies ==
    /\ owner = Other
    /\ other' = "idle"
    /\ otherLeft' = "died"
    /\ owner' = Free
    /\ abandoned' = TRUE
    /\ UNCHANGED <<engineVars, memory, resultSet, kept, sends, callVars,
                   isClosed>>

-----------------------------------------------------------------------------
(* send1252().                                                              *)

Go(t, place) == pc' = [pc EXCEPT ![t] = place]

Fails(t) == answer' = [answer EXCEPT ![t] = "error"]

(* An empty message is answered at once, by nothing.                        *)
SendEmpty(t) ==
    /\ pc[t] = "idle"
    /\ answer' = [answer EXCEPT ![t] = "empty"]
    /\ answerTo' = [answerTo EXCEPT ![t] = NoOne]
    /\ request' = [request EXCEPT ![t] = NoOne]
    /\ UNCHANGED <<engineVars, memory, resultSet, mutexVars, otherVars, sends,
                   pc, asked, isClosed>>

Call(t) ==
    /\ pc[t] = "idle"
    /\ sends < MaxSends
    /\ sends' = sends + 1
    /\ Go(t, "lock")
    /\ \E m \in Messages : asked' = [asked EXCEPT ![t] = m]
    /\ request' = [request EXCEPT ![t] = sends + 1]
    /\ answer' = [answer EXCEPT ![t] = "none"]
    /\ answerTo' = [answerTo EXCEPT ![t] = NoOne]
    /\ UNCHANGED <<engineVars, memory, resultSet, mutexVars, otherVars, isClosed>>

(* WAIT_OBJECT_0.  An owner may take the mutex again.                       *)
Lock(t) ==
    /\ pc[t] = "lock"
    /\ owner = t \/ (owner = Free /\ ~abandoned)
    /\ owner' = t
    /\ Go(t, "chunk")
    /\ UNCHANGED <<engineVars, memory, resultSet, abandoned, kept, otherVars,
                   sends, asked, request, answer, answerTo, isClosed>>

(* WAIT_ABANDONED: the thread owns the mutex now, but returns an error and  *)
(* does not give it back.                                                   *)
LockAbandoned(t) ==
    /\ pc[t] = "lock"
    /\ owner = Free /\ abandoned
    /\ owner' = t
    /\ abandoned' = FALSE
    /\ kept' = TRUE
    /\ Go(t, "idle")
    /\ Fails(t)
    /\ UNCHANGED <<engineVars, memory, resultSet, otherVars, sends, asked,
                   request, answerTo, isClosed>>

Release == owner' = (IF kept THEN owner ELSE Free)

(* ChunkMessage() does not return.                                          *)
Endless(t) ==
    /\ pc[t] = "chunk" /\ asked[t] = "endless"
    /\ Go(t, "spin")
    /\ UNCHANGED <<engineVars, memory, resultSet, mutexVars, otherVars, sends,
                   asked, request, answer, answerTo, isClosed>>

Spin(t) == pc[t] = "spin" /\ UNCHANGED vars

TooLong(t) ==
    /\ pc[t] = "chunk" /\ asked[t] = "long"
    /\ Go(t, "idle")
    /\ Fails(t)
    /\ Release
    /\ UNCHANGED <<engineVars, memory, resultSet, abandoned, kept, otherVars,
                   sends, asked, request, answerTo, isClosed>>

(* Mutant of Write: the event of the call before is not reset.              *)
WriteOver(t) ==
    /\ pc[t] = "chunk" /\ asked[t] = "short"
    /\ memory' = [kind |-> "request", to |-> request[t]]
    /\ Go(t, "pulse")
    /\ UNCHANGED <<engineVars, resultSet, mutexVars, otherVars, sends, asked,
                   request, answer, answerTo, isClosed>>

(* The request is written and ResetEvent() called.                          *)
Write(t) ==
    /\ pc[t] = "chunk" /\ asked[t] = "short"
    /\ memory' = [kind |-> "request", to |-> request[t]]
    /\ resultSet' = FALSE
    /\ Go(t, "pulse")
    /\ UNCHANGED <<engineVars, mutexVars, otherVars, sends, asked, request,
                   answer, answerTo, isClosed>>

Pulse(t) ==
    /\ pc[t] = "pulse"
    /\ Pulsed(request[t])
    /\ Go(t, "wait")
    /\ UNCHANGED <<memory, resultSet, mutexVars, otherVars, sends, asked,
                   request, answer, answerTo, isClosed>>

(* WaitForMultipleObjects() looks at the process first.  While it runs it   *)
(* can be opened; once nobody holds a handle to it any more it cannot.      *)
WaitExited(t) ==
    /\ pc[t] = "wait"
    /\ engine = "exited"
    /\ Go(t, "done")
    /\ \/ answer' = [answer EXCEPT ![t] = "empty"]
       \/ isClosed /\ Fails(t)
    /\ UNCHANGED <<engineVars, memory, resultSet, mutexVars, otherVars, sends,
                   asked, request, answerTo, isClosed>>

(* Mutant of WaitAnswered: it looks at the result event first.              *)
WaitAnsweredFirst(t) ==
    /\ pc[t] = "wait"
    /\ resultSet
    /\ Go(t, "done")
    /\ answer' = [answer EXCEPT ![t] = "text"]
    /\ answerTo' = [answerTo EXCEPT ![t] =
                        IF memory.kind = "answer" THEN memory.to ELSE NoOne]
    /\ UNCHANGED <<engineVars, memory, resultSet, mutexVars, otherVars, sends,
                   asked, request, isClosed>>

(* The answer is copied out of the memory.                                  *)
WaitAnswered(t) ==
    /\ pc[t] = "wait"
    /\ resultSet /\ engine # "exited"
    /\ Go(t, "done")
    /\ answer' = [answer EXCEPT ![t] = "text"]
    /\ answerTo' = [answerTo EXCEPT ![t] =
                        IF memory.kind = "answer" THEN memory.to ELSE NoOne]
    /\ UNCHANGED <<engineVars, memory, resultSet, mutexVars, otherVars, sends,
                   asked, request, isClosed>>

(* Mutant of Finish: the mutex is kept when the game has gone.              *)
FinishOwning(t) ==
    /\ pc[t] = "done"
    /\ Go(t, "idle")
    /\ IF answer[t] = "text" THEN Release ELSE UNCHANGED owner
    /\ isClosed' = (isClosed \/ answer[t] = "empty")
    /\ UNCHANGED <<engineVars, memory, resultSet, abandoned, kept, otherVars,
                   sends, asked, request, answer, answerTo>>

Finish(t) ==
    /\ pc[t] = "done"
    /\ Go(t, "idle")
    /\ Release
    /\ isClosed' = (isClosed \/ answer[t] = "empty")
    /\ UNCHANGED <<engineVars, memory, resultSet, abandoned, kept, otherVars,
                   sends, asked, request, answer, answerTo>>

(* main asks the process for its exit code.                                 *)
IsClosed ==
    /\ pc[Main] = "idle"
    /\ isClosed' = (isClosed \/ engine = "exited")
    /\ UNCHANGED <<engineVars, memory, resultSet, mutexVars, otherVars, sends,
                   callVars>>

(* A connection ends, and with it its thread.                               *)
ThreadEnds(t) ==
    /\ t # Main
    /\ pc[t] = "idle"
    /\ owner = t
    /\ owner' = Free
    /\ abandoned' = TRUE
    /\ kept' = FALSE
    /\ UNCHANGED <<engineVars, memory, resultSet, otherVars, sends, callVars,
                   isClosed>>

-----------------------------------------------------------------------------
Locks(t) == Lock(t) \/ LockAbandoned(t)

Runs(t) ==
    \/ Endless(t) \/ TooLong(t) \/ Write(t) \/ Pulse(t) \/ WaitExited(t)
    \/ WaitAnswered(t) \/ Finish(t)

Next ==
    \/ EngineTurns \/ EngineAnswers \/ EngineExits
    \/ OtherTakes \/ OtherAsks \/ OtherReleases \/ OtherGivesUp \/ OtherDies
    \/ \E t \in Threads :
          \/ SendEmpty(t) \/ Call(t) \/ Locks(t) \/ Runs(t) \/ Spin(t)
          \/ ThreadEnds(t)
    \/ IsClosed

Spec == Init /\ [][Next]_vars

(* The engine answers what it has taken up, the other tool is done with the *)
(* mutex some time, and the mutex is handed on in the order of arrival.     *)
FairSpec ==
    /\ Spec
    /\ WF_vars(EngineAnswers)
    /\ WF_vars(OtherAsks) /\ SF_vars(OtherReleases)
    /\ \A t \in Threads : SF_vars(Locks(t)) /\ WF_vars(Runs(t))

-----------------------------------------------------------------------------
(* Whoever gets a text gets the answer to his own request, however many     *)
(* threads and tools share the memory, unless another tool left in the      *)
(* middle of a request (send1252, WindowsSMI.cpp:196-207).                  *)
AnswersMatch ==
    \A t \in Threads :
        answer[t] = "text" /\ otherLeft = "never" => answerTo[t] = request[t]

(* Whoever is inside a call owns the mutex.  A thread that owns it outside  *)
(* has it by an error: it came to him from a tool that died, and no other   *)
(* path of send1252() leaves with it, whatever the threads, the engine and  *)
(* the messages do (WindowsSMI.cpp:111-213).                                *)
MutexGivenBack ==
    /\ \A t \in Threads : pc[t] \in Inside => owner = t
    /\ owner \in Threads /\ pc[owner] \notin Inside => kept
    /\ kept \/ abandoned => otherLeft = "died"

(* The request of t was pulsed into nobody's ear.                           *)
Missed(t) == pc[t] = "wait" /\ engine \in {"waiting", "busy"} /\ ~resultSet

(* Every call returns, and a game that exits is noticed by whoever waits    *)
(* for it.  Excepted is what follows from a pulse the engine missed, a      *)
(* message that cannot be cut, and a mutex that came from a tool that died   *)
(* and is kept by another thread (WindowsSMI.cpp:120, :164, :197, :204).    *)
SendReturns ==
    \A t \in Threads :
        pc[t] # "idle" ~> \/ pc[t] = "idle" \/ (kept /\ owner # t)
                          \/ \E u \in Threads : Missed(u) \/ pc[u] = "spin"

(* What the rest of the server is told about this class, with _isClosed set *)
(* as soon as the wait has shown that the process is gone.                  *)
Up == engine # "exited"
Broken == isClosed \/ \E t \in Threads : pc[t] = "done" /\ answer[t] = "empty"

Link == INSTANCE EngineLink WITH
            Engines <- {"shm"}, engine <- "shm", gameUp <- Up, procAlive <- Up,
            broken <- Broken, ddeOpen <- FALSE

(* Every step is one the EngineLink of NornServer allows: a call that ends  *)
(* with some result, isClosed(), the end of the game, or nothing            *)
(* (WindowsSMI.cpp:111-257).                                                *)
LinkStep ==
    \/ \E t \in Threads : answer'[t] \in Results /\ answer'[t] # answer[t]
                             /\ Link!Send(answer'[t])
    \/ /\ \A t \in Threads : answer'[t] \in {answer[t], "none"}
       /\ \/ Link!GameExit
          \/ \E closed \in BOOLEAN : Link!IsClosed(closed)
          \/ UNCHANGED Link!linkVars

ShmImplements == [][LinkStep]_vars
=============================================================================
