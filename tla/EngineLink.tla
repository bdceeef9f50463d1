----------------------------- MODULE EngineLink -----------------------------
(***************************************************************************)
(* The game engine and the interface object through which NornSockets      *)
(* reaches it: PosixSMI (TCP), WindowsSMI (shared memory) and              *)
(* VivariumInterface (DDE).  What the three classes share is kept: what    *)
(* send1252() may answer, what isClosed() may report, and the flags both   *)
(* read and write.  The game itself is the environment: it starts and      *)
(* exits whenever it likes.                                                *)
(***************************************************************************)

CONSTANT Engines        \* the kinds of interface Open() may find

EngineKinds == {"posix", "shm", "dde", "ddeNoPid"}
Results     == {"text", "empty", "error"}

ASSUME EnginesAssumption == Engines \subseteq EngineKinds

VARIABLES
    gameUp,      \* some game process is running
    procAlive,   \* the process the current interface was opened on still runs
    engine,      \* the class of the current interface object
    broken,      \* PosixSMI/WindowsSMI::_isClosed, not VivariumInterface::_isOpen
    ddeOpen      \* the global g_isDdeOpen

linkVars == <<gameUp, procAlive, engine, broken, ddeOpen>>

LinkTypeOK ==
    /\ gameUp \in BOOLEAN
    /\ procAlive \in BOOLEAN
    /\ engine \in EngineKinds
    /\ broken \in BOOLEAN
    /\ ddeOpen \in BOOLEAN

IsDde == engine \in {"dde", "ddeNoPid"}

LinkInit ==
    /\ gameUp = FALSE
    /\ procAlive = FALSE
    /\ engine \in Engines
    /\ broken = FALSE
    /\ ddeOpen = FALSE

-----------------------------------------------------------------------------
GameStart ==
    /\ ~gameUp
    /\ gameUp' = TRUE
    /\ UNCHANGED <<procAlive, engine, broken, ddeOpen>>

GameExit ==
    /\ gameUp
    /\ gameUp' = FALSE
    /\ procAlive' = FALSE
    /\ UNCHANGED <<engine, broken, ddeOpen>>

(* SharedMemoryInterface::Open() found a game and built an interface on it. *)
OpenLink ==
    /\ gameUp
    /\ procAlive' = TRUE
    /\ engine' \in Engines
    /\ broken' = FALSE
    /\ ddeOpen' \in BOOLEAN
    /\ ddeOpen' <=> IsDde'
    /\ UNCHANGED gameUp

(* Mutant of PosixSend: a failed call does not set _isClosed.               *)
PosixSendForgetful(result) ==
    /\ \/ gameUp /\ result \in {"text", "empty"}
       \/ result = "error"
    /\ UNCHANGED <<broken, ddeOpen>>

(* Each call opens its own TCP socket; every error path sets _isClosed.     *)
(* While the game runs a call may be answered after another one has failed. *)
PosixSend(result) ==
    /\ \/ gameUp /\ result \in {"text", "empty"} /\ UNCHANGED broken
       \/ result = "error" /\ broken' = TRUE
    /\ UNCHANGED ddeOpen

(* The wait ends with the result event, or because the process is gone; an  *)
(* empty message is not sent at all.                                        *)
ShmSend(result) ==
    /\ \/ result \in {"error", "empty"} /\ UNCHANGED broken
       \/ procAlive /\ result = "text" /\ UNCHANGED broken
       \/ ~procAlive /\ result = "empty" /\ broken' = TRUE
    /\ UNCHANGED ddeOpen

(* handleError() throws before g_isDdeOpen is assigned, except when there   *)
(* is no conversation, which is silent.                                     *)
DdeSend(result) ==
    /\ \/ gameUp /\ result \in Results /\ ddeOpen' = TRUE
       \/ ~gameUp /\ result = "empty" /\ ddeOpen' = FALSE
       \/ result = "error" /\ UNCHANGED ddeOpen
    /\ UNCHANGED broken

Send(result) ==
    /\ CASE engine = "posix" -> PosixSend(result)
         [] engine = "shm"   -> ShmSend(result)
         [] OTHER            -> DdeSend(result)
    /\ UNCHANGED <<gameUp, procAlive, engine>>

(* Whether a call on the interface gets as far as ChunkMessage(), which may *)
(* never return.                                                            *)
Cuts == (engine = "posix" /\ ~broken) \/ engine = "shm"

-----------------------------------------------------------------------------
(* PosixSMI::isClosed() only returns the flag the send path sets.           *)
PosixIsClosed(closed) == closed = broken /\ UNCHANGED broken

(* Mutant of ShmIsClosed: the comparison with STILL_ACTIVE is inverted.     *)
ShmIsClosedInverted(closed) == closed = (broken \/ procAlive) /\ broken' = closed

(* WindowsSMI::isClosed() asks the process for its exit code.               *)
ShmIsClosed(closed) == closed = (broken \/ ~procAlive) /\ broken' = closed

(* VivariumInterface::isClosed() assigns _isOpen the NEGATION of            *)
(* isProcessRunning() and returns it, so that a running game leaves         *)
(* _isOpen false for the next call.                                         *)
DdeIsClosed(closed) ==
    \/ /\ broken \/ ~ddeOpen
       /\ closed = TRUE
       /\ UNCHANGED broken
    \/ /\ ~broken /\ ddeOpen
       /\ IF engine = "dde"
          THEN closed = ~procAlive /\ broken' = procAlive
          ELSE closed = ~gameUp /\ broken' = ~gameUp

(* Without a process id isClosed() asks for a conversation, and every error *)
(* but "no conversation" is an exception that nothing catches.              *)
IsClosedThrows ==
    /\ engine = "ddeNoPid" /\ ~broken /\ ddeOpen
    /\ UNCHANGED linkVars

IsClosed(closed) ==
    /\ CASE engine = "posix" -> PosixIsClosed(closed)
         [] engine = "shm"   -> ShmIsClosed(closed)
         [] OTHER            -> DdeIsClosed(closed)
    /\ UNCHANGED <<gameUp, procAlive, engine, ddeOpen>>

(* ~VivariumInterface() clears the global flag; the others keep no state    *)
(* outside the object.                                                      *)
DestroyLink ==
    /\ ddeOpen' = (ddeOpen /\ ~IsDde)
    /\ UNCHANGED <<gameUp, procAlive, engine, broken>>
=============================================================================
