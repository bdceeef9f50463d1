-------------------------- MODULE WindowsShmProofs --------------------------
(***************************************************************************)
(* Proofs about WindowsShm, for any set of threads and any number of       *)
(* requests.                                                               *)
(***************************************************************************)
EXTENDS WindowsShm, TLAPS

(* A call has no result before it ends.                                     *)
NoResultYet ==
    \A t \in Threads : pc[t] \notin {"idle", "done"} => answer[t] = "none"

(* While nobody has died with the mutex in his hands, it is held only       *)
(* inside a call, and the engine serves only who waits for it.              *)
Exchange ==
    otherLeft = "never" =>
        /\ ~abandoned /\ ~kept
        /\ \A t \in Threads : owner = t => pc[t] \in Inside
        /\ engine = "serving" =>
              \/ other = "waiting"
              \/ \E t \in Threads : /\ pc[t] = "wait" /\ ~resultSet
                                    /\ serving = request[t]
        /\ \A t \in Threads : pc[t] = "pulse" => ~resultSet
        /\ \A t \in Threads :
              pc[t] = "wait" /\ resultSet =>
                  memory = [kind |-> "answer", to |-> request[t]]

IInv == TypeOK /\ NoResultYet /\ Exchange /\ AnswersMatch

-----------------------------------------------------------------------------
(* Everything holds initially.                                              *)
LEMMA InitInv ==
    ASSUME Init
    PROVE  IInv
  <1> USE SendsAssumption, ThreadsAssumption
          DEF SendsAssumption, ThreadsAssumption, Init, NoOne
  <1>1. TypeOK
    <2>1. memory \in Memory
      BY DEF Memory
    <2>2. \A t \in Threads : pc[t] = "idle"
      OBVIOUS
    <2>3. /\ pc \in [Threads -> {"idle", "lock"} \cup Inside]
          /\ asked \in [Threads -> Messages]
      BY DEF Messages
    <2>4. /\ request \in [Threads -> 0..MaxSends]
          /\ answer \in [Threads -> Results \cup {"none"}]
          /\ answerTo \in [Threads -> 0..MaxSends]
      OBVIOUS
    <2>5. \A t \in Threads : pc[t] \notin Inside
      BY <2>2 DEF Inside
    <2>6. /\ engine \in {"waiting", "busy", "serving", "exited"}
          /\ serving \in 0..MaxSends /\ sends \in 0..MaxSends
          /\ owner = Free /\ owner # Other /\ other = "idle"
      BY DEF Free, Other
    <2>7. /\ resultSet \in BOOLEAN /\ abandoned \in BOOLEAN /\ kept \in BOOLEAN
          /\ otherLeft \in {"never", "gaveUp", "died"} /\ isClosed \in BOOLEAN
      BY Zenon
    <2> QED  BY <2>1, <2>3, <2>4, <2>5, <2>6, <2>7, Zenon DEF TypeOK
  <1>2. NoResultYet
    BY DEF NoResultYet
  <1>3. Exchange
    BY DEF Exchange, Free
  <1>4. AnswersMatch
    BY DEF AnswersMatch
  <1> QED  BY <1>1, <1>2, <1>3, <1>4 DEF IInv

-----------------------------------------------------------------------------
(* The engine and the other tool.                                           *)

(* A step of the engine keeps the invariant.                                *)
LEMMA EngineStep ==
    ASSUME IInv, EngineTurns \/ EngineAnswers \/ EngineExits
    PROVE  IInv'
  <1> USE DEF mutexVars, otherVars, callVars, NoOne
  <1>1. CASE EngineTurns \/ EngineExits
    BY <1>1 DEF EngineTurns, EngineExits, IInv, TypeOK, NoResultYet, Exchange,
       AnswersMatch
  <1>2. CASE EngineAnswers
    <2> USE <1>2 DEF EngineAnswers, IInv
    <2>1. TypeOK'
      BY DEF TypeOK, Memory
    <2>2. NoResultYet' /\ AnswersMatch'
      BY DEF NoResultYet, AnswersMatch
    <2>3. Exchange'
      <3> SUFFICES ASSUME otherLeft = "never"
                   PROVE  Exchange'
        BY DEF Exchange
      <3>1. \A t \in Threads : pc[t] # "pulse"
        BY ThreadsAssumption DEF ThreadsAssumption, TypeOK, Exchange, Inside
      <3>2. \A t \in Threads : pc[t] = "wait" => serving = request[t]
        BY ThreadsAssumption DEF ThreadsAssumption, TypeOK, Exchange, Inside
      <3> QED  BY <3>1, <3>2 DEF Exchange
    <2> QED  BY <2>1, <2>2, <2>3
  <1> QED  BY <1>1, <1>2

(* A step of the other tool keeps the invariant.                            *)
LEMMA OtherStep ==
    ASSUME IInv, OtherTakes \/ OtherAsks \/ OtherReleases \/ OtherGivesUp \/ OtherDies
    PROVE  IInv'
  <1> USE ThreadsAssumption
      DEF ThreadsAssumption, engineVars, mutexVars, otherVars, callVars, NoOne,
          IInv, Free, Other, Inside
  <1>1. NoResultYet' /\ AnswersMatch'
    BY DEF OtherTakes, OtherAsks, OtherReleases, OtherGivesUp, OtherDies, NoResultYet,
       AnswersMatch
  <1>2. TypeOK'
    <2>1. memory' \in Memory
      BY SendsAssumption
         DEF SendsAssumption, OtherTakes, OtherAsks, OtherReleases, OtherGivesUp, OtherDies, TypeOK, Memory
    <2>2. serving' \in 0..MaxSends
      BY SendsAssumption
         DEF SendsAssumption, OtherTakes, OtherAsks, OtherReleases, OtherGivesUp, OtherDies, Pulsed, TypeOK
    <2> QED
      BY <2>1, <2>2
         DEF OtherTakes, OtherAsks, OtherReleases, OtherGivesUp, OtherDies, Pulsed, TypeOK
  <1>3. Exchange'
    <2>1. CASE OtherTakes \/ OtherReleases
      BY <2>1 DEF OtherTakes, OtherReleases, Exchange, TypeOK
    <2>2. CASE OtherAsks
      BY <2>2 DEF OtherAsks, Pulsed, Exchange, TypeOK
    <2>3. CASE OtherGivesUp \/ OtherDies
      BY <2>3 DEF OtherGivesUp, OtherDies, Exchange
    <2> QED  BY <2>1, <2>2, <2>3
  <1> QED  BY <1>1, <1>2, <1>3

-----------------------------------------------------------------------------
(* The threads.                                                             *)

(* The beginning of a call keeps the invariant.                             *)
LEMMA CallStep ==
    ASSUME IInv, NEW t \in Threads, SendEmpty(t) \/ Call(t)
    PROVE  IInv'
  <1> USE SendsAssumption
      DEF SendsAssumption, engineVars, mutexVars, otherVars, callVars, NoOne,
          IInv, Inside, Go
  <1>1. TypeOK'
    BY DEF SendEmpty, Call, TypeOK, Messages, Results
  <1>2. NoResultYet'
    BY DEF SendEmpty, Call, NoResultYet, TypeOK
  <1>3. AnswersMatch'
    BY DEF SendEmpty, Call, AnswersMatch, TypeOK
  <1>4. Exchange'
    BY DEF SendEmpty, Call, Exchange, TypeOK
  <1> QED  BY <1>1, <1>2, <1>3, <1>4

(* Taking the mutex, and losing it, keeps the invariant.                    *)
LEMMA LockStep ==
    ASSUME IInv, NEW t \in Threads, Locks(t) \/ ThreadEnds(t)
    PROVE  IInv'
  <1> USE ThreadsAssumption
      DEF ThreadsAssumption, engineVars, mutexVars, otherVars, callVars, IInv,
          Inside, Go, Fails, Free, Other, Locks
  <1>1. TypeOK'
    BY DEF Lock, LockAbandoned, ThreadEnds, TypeOK, Results
  <1>2. NoResultYet'
    BY DEF Lock, LockAbandoned, ThreadEnds, NoResultYet, TypeOK
  <1>3. AnswersMatch'
    BY DEF Lock, LockAbandoned, ThreadEnds, AnswersMatch, TypeOK
  <1>4. Exchange'
    BY DEF Lock, LockAbandoned, ThreadEnds, Exchange, TypeOK
  <1> QED  BY <1>1, <1>2, <1>3, <1>4

(* A step with the mutex in hand keeps the invariant.                       *)
LEMMA InsideStep ==
    ASSUME IInv, NEW t \in Threads, Runs(t)
    PROVE  IInv'
  <1> USE ThreadsAssumption
      DEF ThreadsAssumption, engineVars, mutexVars, otherVars, callVars, IInv,
          Inside, Go, Fails, Free, Other, NoOne
  <1>1. CASE Endless(t) \/ TooLong(t) \/ Finish(t)
    <2> USE <1>1 DEF Endless, TooLong, Finish, Release
    <2>1. TypeOK'
      BY DEF TypeOK, Results
    <2>2. NoResultYet' /\ AnswersMatch'
      BY DEF NoResultYet, AnswersMatch, TypeOK
    <2>3. Exchange'
      BY DEF Exchange, TypeOK
    <2> QED  BY <2>1, <2>2, <2>3
  <1>2. CASE Write(t) \/ Pulse(t)
    <2> USE <1>2 DEF Write, Pulse, Pulsed
    <2>1. TypeOK'
      <3>1. memory' \in Memory
        BY DEF TypeOK, Memory
      <3>2. engine' \in {engine, "serving"} /\ serving' \in 0..MaxSends
        BY DEF TypeOK
      <3>3. /\ pc' \in [Threads -> {"idle", "lock"} \cup Inside]
            /\ \A u \in Threads : pc'[u] \in Inside => owner = u
        BY DEF TypeOK
      <3>4. UNCHANGED <<mutexVars, otherVars, sends, asked, request, answer,
                        answerTo, isClosed>> /\ resultSet' \in {resultSet, FALSE}
        OBVIOUS
      <3>5. /\ UNCHANGED <<owner, abandoned, kept, other, otherLeft, sends, asked, request,
                           answer, answerTo, isClosed>>
            /\ resultSet' \in BOOLEAN
        BY <3>4, Zenon DEF TypeOK
      <3> HIDE DEF Write, Pulse, Pulsed, IInv
      <3>6. TypeOK
        BY DEF IInv
      <3> QED  BY <3>1, <3>2, <3>3, <3>5, <3>6 DEF TypeOK
    <2>2. NoResultYet' /\ AnswersMatch'
      BY DEF NoResultYet, AnswersMatch, TypeOK
    <2>3. Exchange'
      BY DEF Exchange, TypeOK
    <2> QED  BY <2>1, <2>2, <2>3
  <1>3. CASE WaitExited(t) \/ WaitAnswered(t)
    <2> USE <1>3 DEF WaitExited, WaitAnswered
    <2>1. TypeOK'
      <3>1. memory.to \in 0..MaxSends
        BY DEF TypeOK, Memory
      <3>2. answerTo' \in [Threads -> 0..MaxSends]
        BY <3>1, SendsAssumption DEF SendsAssumption, TypeOK
      <3>3. /\ answer' \in [Threads -> Results \cup {"none"}]
            /\ pc' \in [Threads -> {"idle", "lock"} \cup Inside]
            /\ \A u \in Threads : pc'[u] \in Inside => owner = u
        BY DEF TypeOK, Results
      <3>4. UNCHANGED <<engineVars, memory, resultSet, mutexVars, otherVars,
                        sends, asked, request, isClosed>>
        OBVIOUS
      <3> QED  BY <3>2, <3>3, <3>4 DEF TypeOK
    <2>2. NoResultYet'
      BY DEF NoResultYet, TypeOK
    <2>3. AnswersMatch'
      BY DEF AnswersMatch, Exchange, TypeOK
    <2>4. Exchange'
      BY DEF Exchange, TypeOK
    <2> QED  BY <2>1, <2>2, <2>3, <2>4
  <1> QED  BY <1>1, <1>2, <1>3 DEF Runs

(* The invariant is inductive.                                              *)
LEMMA StepInv ==
    ASSUME IInv, [Next]_vars
    PROVE  IInv'
  <1>1. CASE IsClosed \/ UNCHANGED vars \/ \E t \in Threads : Spin(t)
    <2> USE <1>1
        DEF IsClosed, Spin, vars, engineVars, mutexVars, otherVars, callVars, IInv
    <2>1. TypeOK'
      BY DEF TypeOK
    <2>2. NoResultYet' /\ AnswersMatch'
      BY DEF NoResultYet, AnswersMatch
    <2>3. Exchange'
      BY DEF Exchange
    <2> QED  BY <2>1, <2>2, <2>3
  <1> QED
    BY <1>1, EngineStep, OtherStep, CallStep, LockStep, InsideStep DEF Next

(* It holds in every behaviour.                                             *)
LEMMA Inductive == Spec => []IInv
  <1> QED  BY InitInv, StepInv, PTL DEF Spec

(* The types hold, the mutex is one, and only its owner is inside.          *)
THEOREM TypeCorrect == Spec => []TypeOK
  <1>1. IInv => TypeOK
    BY DEF IInv
  <1> QED  BY <1>1, Inductive, PTL

(* Every text is the answer to its own request, for any number of threads   *)
(* and requests, as long as nobody dies with the mutex in his hands.        *)
THEOREM AnswersAreOwn == Spec => []AnswersMatch
  <1>1. IInv => AnswersMatch
    BY DEF IInv
  <1> QED  BY <1>1, Inductive, PTL

-----------------------------------------------------------------------------
(* The mutex.                                                               *)

(* An owner who keeps it is a thread, and nobody owns it once abandoned.    *)
KeptInv ==
    /\ owner \in Threads /\ pc[owner] \notin Inside => kept
    /\ kept => owner \in Threads
    /\ abandoned => owner = Free
    /\ kept \/ abandoned => otherLeft = "died"

(* Every step keeps that.                                                   *)
LEMMA KeptStep ==
    ASSUME IInv, KeptInv, [Next]_vars
    PROVE  KeptInv'
  <1> USE ThreadsAssumption
      DEF ThreadsAssumption, KeptInv, engineVars, mutexVars, otherVars, callVars,
          IInv, Go, Free, Other
  <1>1. CASE UNCHANGED <<mutexVars, otherVars, pc>>
    BY <1>1
  <1>2. CASE OtherTakes \/ OtherAsks \/ OtherReleases \/ OtherGivesUp \/ OtherDies
    <2>1. UNCHANGED <<pc, kept>>
      BY <1>2 DEF OtherTakes, OtherAsks, OtherReleases, OtherGivesUp, OtherDies
    <2>2. CASE OtherAsks
      BY <2>2 DEF OtherAsks
    <2>3. CASE OtherTakes \/ OtherReleases \/ OtherGivesUp \/ OtherDies
      <3>1. owner' \notin Threads
        BY <2>3 DEF OtherTakes, OtherReleases, OtherGivesUp, OtherDies
      <3>2. abandoned' => otherLeft' = "died"
        BY <2>3 DEF OtherTakes, OtherReleases, OtherGivesUp, OtherDies, TypeOK
      <3>3. ~kept
        BY <2>3 DEF OtherTakes, OtherReleases, OtherGivesUp, OtherDies, TypeOK
      <3>4. kept' = kept
        BY <2>1
      <3>5. ~kept'
        BY <3>3, <3>4, Zenon
      <3>6. abandoned' => owner' = Free
        BY <2>3 DEF OtherTakes, OtherReleases, OtherGivesUp, OtherDies
      <3> QED  BY <3>1, <3>2, <3>5, <3>6, Zenon DEF KeptInv
    <2> QED  BY <1>2, <2>2, <2>3
  <1>3. ASSUME NEW t \in Threads, Call(t) \/ Locks(t) \/ ThreadEnds(t)
        PROVE  KeptInv'
    BY <1>3 DEF Call, Locks, Lock, LockAbandoned, ThreadEnds, TypeOK, Inside
  <1>4. ASSUME NEW t \in Threads, Runs(t)
        PROVE  KeptInv'
    <2>1. pc[t] \in Inside /\ owner = t
      BY <1>4
         DEF Runs, Endless, TooLong, Write, Pulse, WaitExited, WaitAnswered, Finish,
             Inside, TypeOK
    <2>2. UNCHANGED <<abandoned, kept, otherVars>>
      BY <1>4 DEF Runs, Endless, TooLong, Write, Pulse, WaitExited, WaitAnswered, Finish
    <2>3. CASE TooLong(t) \/ Finish(t)
      BY <2>1, <2>2, <2>3 DEF TooLong, Finish, Release
    <2>4. CASE \/ Endless(t) \/ Write(t) \/ Pulse(t) \/ WaitExited(t)
               \/ WaitAnswered(t)
      <3>1. owner' = owner /\ pc'[t] \in Inside
        BY <2>4 DEF Endless, Write, Pulse, WaitExited, WaitAnswered, Inside, TypeOK
      <3> QED  BY <2>1, <2>2, <3>1
    <2> QED  BY <1>4, <2>3, <2>4 DEF Runs
  <1> QED
    BY <1>1, <1>2, <1>3, <1>4
       DEF Next, vars, EngineTurns, EngineAnswers, EngineExits, SendEmpty, Spin, IsClosed

(* send1252() gives the mutex back on every path but the one that took it   *)
(* over from a tool that died.                                              *)
THEOREM MutexReturned == Spec => []MutexGivenBack
  <1>1. Init => KeptInv
    BY ThreadsAssumption DEF ThreadsAssumption, Init, KeptInv, Free
  <1>2. IInv /\ KeptInv => MutexGivenBack
    BY DEF IInv, TypeOK, KeptInv, MutexGivenBack
  <1> QED  BY <1>1, <1>2, KeptStep, Inductive, PTL DEF Spec

-----------------------------------------------------------------------------
(* The refinement.                                                          *)

(* A step that touches neither results nor what Broken looks at.            *)
LEMMA QuietStep ==
    ASSUME \A t \in Threads : answer'[t] \in {answer[t], "none"},
           Broken' = Broken, Up' = Up
    PROVE  LinkStep
  BY DEF LinkStep, Link!linkVars

(* A step that ends the call of t.                                          *)
LEMMA ResultStep ==
    ASSUME NEW t \in Threads, answer'[t] \in Results,
           Up' = Up,
           \/ answer'[t] \in {"error", "empty"} /\ Broken' = Broken
           \/ answer'[t] = "text" /\ Up /\ Broken' = Broken
           \/ answer'[t] = "empty" /\ ~Up /\ Broken' = TRUE
    PROVE  Link!Send(answer'[t])
  BY DEF Link!Send, Link!ShmSend, Results

(* Every step is one of the EngineLink.                                     *)
LEMMA LinkedStep ==
    ASSUME IInv, [Next]_vars
    PROVE  [LinkStep]_vars
  <1> SUFFICES ASSUME Next
               PROVE  LinkStep \/ UNCHANGED vars
    OBVIOUS
  <1> USE DEF engineVars, mutexVars, otherVars, callVars, IInv
  <1>1. CASE \/ EngineTurns \/ EngineAnswers
             \/ OtherTakes \/ OtherAsks \/ OtherReleases \/ OtherGivesUp \/ OtherDies
    BY <1>1, QuietStep
       DEF EngineTurns, EngineAnswers, OtherTakes, OtherAsks, OtherReleases, OtherGivesUp, OtherDies,
           Pulsed, Broken, Up
  <1>2. CASE EngineExits
    BY <1>2 DEF EngineExits, LinkStep, Link!GameExit, Up, Broken
  <1>3. CASE IsClosed
    <2>1. Broken' = (Broken \/ ~Up) /\ Broken' \in BOOLEAN
      BY <1>3 DEF IsClosed, Broken, Up
    <2>2. Link!IsClosed(Broken')
      BY <1>3, <2>1 DEF IsClosed, Link!IsClosed, Link!ShmIsClosed, Up
    <2> QED  BY <1>3, <2>1, <2>2 DEF IsClosed, LinkStep
  <1>4. ASSUME NEW t \in Threads,
               \/ SendEmpty(t) \/ Call(t) \/ Locks(t) \/ Runs(t) \/ ThreadEnds(t)
        PROVE  LinkStep
    <2> USE DEF Go, Fails, Up
    <2>1. CASE Call(t) \/ Lock(t) \/ ThreadEnds(t)
      BY <2>1, QuietStep DEF Call, Lock, ThreadEnds, Broken, TypeOK
    <2>2. CASE Endless(t) \/ Write(t) \/ Pulse(t)
      BY <2>2, QuietStep DEF Endless, Write, Pulse, Pulsed, Broken, TypeOK
    <2>3. CASE Finish(t)
      BY <2>3, QuietStep DEF Finish, Broken, TypeOK
    <2>4. CASE SendEmpty(t)
      <3>1. Broken' = Broken /\ answer'[t] = "empty" /\ Up' = Up
        BY <2>4 DEF SendEmpty, Broken, TypeOK
      <3>2. CASE answer[t] = "empty"
        BY <2>4, <3>1, <3>2, QuietStep DEF SendEmpty, TypeOK
      <3> QED  BY <3>1, <3>2, ResultStep DEF LinkStep, Results
    <2>5. CASE LockAbandoned(t) \/ TooLong(t)
      <3>1. Broken' = Broken /\ answer'[t] = "error" /\ Up' = Up
        BY <2>5 DEF LockAbandoned, TooLong, Broken, TypeOK
      <3>2. answer[t] = "none"
        BY <2>5 DEF LockAbandoned, TooLong, NoResultYet
      <3> QED  BY <3>1, <3>2, ResultStep DEF LinkStep, Results
    <2>6. CASE WaitExited(t)
      <3>1. answer[t] = "none" /\ ~Up /\ Up' = Up
        BY <2>6 DEF WaitExited, NoResultYet
      <3>2. CASE answer' = [answer EXCEPT ![t] = "empty"]
        <4>1. Broken' = TRUE /\ answer'[t] = "empty"
          BY <2>6, <3>2 DEF WaitExited, Broken, TypeOK
        <4> QED  BY <3>1, <4>1, ResultStep DEF LinkStep, Results
      <3>3. CASE isClosed /\ Fails(t)
        <4>1. Broken' = Broken /\ answer'[t] = "error"
          BY <2>6, <3>3 DEF WaitExited, Broken, TypeOK
        <4> QED  BY <3>1, <4>1, ResultStep DEF LinkStep, Results
      <3> QED  BY <2>6, <3>2, <3>3 DEF WaitExited
    <2>7. CASE WaitAnswered(t)
      <3>1. answer[t] = "none" /\ Up /\ Up' = Up
        BY <2>7 DEF WaitAnswered, NoResultYet
      <3>2. Broken' = Broken /\ answer'[t] = "text"
        BY <2>7 DEF WaitAnswered, Broken, TypeOK
      <3> QED  BY <3>1, <3>2, ResultStep DEF LinkStep, Results
    <2> QED
      BY <1>4, <2>1, <2>2, <2>3, <2>4, <2>5, <2>6, <2>7 DEF Locks, Runs
  <1> QED  BY <1>1, <1>2, <1>3, <1>4 DEF Next, Spin

(* send1252() and isClosed() of WindowsSMI do what the rest of the server   *)
(* assumes of them, whatever the threads, the engine and other tools do.    *)
THEOREM LinkImplemented == Spec => ShmImplements
  <1>1. IInv /\ [Next]_vars => [LinkStep]_vars
    BY LinkedStep
  <1> QED  BY <1>1, Inductive, PTL DEF Spec, ShmImplements
=============================================================================
