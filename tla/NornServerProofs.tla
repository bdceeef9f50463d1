-------------------------- MODULE NornServerProofs --------------------------
(***************************************************************************)
(* Proofs about NornServer, for any set of connections and any bounds.     *)
(***************************************************************************)
EXTENDS NornServerInv, TLAPS

(* Every way a step of NornServer can be taken, as a list of cases.         *)
LEMMA NextCases ==
    ASSUME Next
    PROVE  \/ MainOpen \/ LocalOnGameOpened \/ OnGameOpened \/ SendOpened
           \/ MainCheck \/ MainPoll
           \/ LocalOnGameClosed \/ OnGameClosed \/ SendClosed \/ MainDestroy
           \/ MainStop \/ MainJoin \/ MainReturn
           \/ Signal \/ Game
           \/ \E c \in Conns : ConnStep(c) \/ Submit(c)
           \/ UNCHANGED vars
  BY DEF Next, MainStep, MainSleep, MainScan, Halted

(* The types hold initially.                                                *)
LEMMA InitType ==
    ASSUME Init
    PROVE  TypeOK
  <1>1. LinkTypeOK
    BY EnginesAssumption DEF EnginesAssumption, Init, LinkInit, LinkTypeOK
  <1>2. /\ running \in BOOLEAN /\ listening \in BOOLEAN
        /\ crashed \in BOOLEAN /\ portClosed \in BOOLEAN
    BY Zenon DEF Init
  <1>3. /\ mainPc \in MainPc
        /\ games \in 0..MaxGames /\ interface \in 0..MaxGames
        /\ lsInterface \in 0..MaxGames /\ wsInterface \in 0..MaxGames
        /\ mutex \in Conns \cup {Main, Free}
        /\ allConnections \in Seq(Conns) /\ cursor \in Nat \ {0}
    BY BoundsAssumption DEF BoundsAssumption, Init, MainPc
  <1>4. /\ conn \in [Conns -> ConnState] /\ thread \in [Conns -> ThreadState]
        /\ callee \in [Conns -> 0..MaxGames] /\ pending \in [Conns -> Nat]
        /\ asked \in [Conns -> 0..MaxRequests] /\ feed \in [Conns -> Seq(Note)]
    BY BoundsAssumption DEF BoundsAssumption, Init, ConnState, ThreadState
  <1> QED  BY <1>1, <1>2, <1>3, <1>4 DEF TypeOK

(* Every operation of the link keeps its types.                             *)
LEMMA LinkTypeStep ==
    ASSUME LinkTypeOK,
           \/ OpenLink
           \/ \E result \in Results : Send(result)
           \/ \E closed \in BOOLEAN : IsClosed(closed)
           \/ DestroyLink \/ GameStart \/ GameExit
           \/ UNCHANGED linkVars
    PROVE  LinkTypeOK'
  <1>1. CASE OpenLink
    BY <1>1, EnginesAssumption DEF EnginesAssumption, OpenLink, LinkTypeOK
  <1>2. ASSUME NEW result \in Results, Send(result)
        PROVE  LinkTypeOK'
    BY <1>2 DEF Send, PosixSend, ShmSend, DdeSend, LinkTypeOK, EngineKinds
  <1>3. ASSUME NEW closed \in BOOLEAN, IsClosed(closed)
        PROVE  LinkTypeOK'
    BY <1>3 DEF IsClosed, PosixIsClosed, ShmIsClosed, DdeIsClosed, LinkTypeOK, EngineKinds
  <1>4. CASE DestroyLink
    BY <1>4 DEF DestroyLink, LinkTypeOK
  <1>5. CASE GameStart \/ GameExit
    BY <1>5 DEF GameStart, GameExit, LinkTypeOK
  <1>6. CASE UNCHANGED linkVars
    BY <1>6 DEF linkVars, LinkTypeOK
  <1> QED  BY <1>1, <1>2, <1>3, <1>4, <1>5, <1>6

-----------------------------------------------------------------------------
(* The pointers.                                                            *)

(* No interface exists at the start, so that all pointers are null.         *)
LEMMA PtrInit ==
    ASSUME Init
    PROVE  PtrInv
  BY DEF Init, PtrInv

(* Main moves the three pointers in a fixed order, and nobody else          *)
(* writes them.                                                             *)
LEMMA PtrStep ==
    ASSUME TypeOK, PtrInv, [Next]_vars
    PROVE  PtrInv'
  <1> USE DEF PtrInv
  <1>1. CASE MainOpen
    BY <1>1 DEF MainOpen, sharedVars, TypeOK
  <1>2. CASE LocalOnGameOpened
    BY <1>2 DEF LocalOnGameOpened
  <1>3. CASE OnGameOpened
    BY <1>3 DEF OnGameOpened
  <1>4. CASE SendOpened
    BY <1>4 DEF SendOpened, Broadcast
  <1>5. CASE MainCheck
    BY <1>5 DEF MainCheck, sharedVars
  <1>6. CASE MainPoll
    BY <1>6 DEF MainPoll, sharedVars
  <1>7. CASE LocalOnGameClosed
    BY <1>7 DEF LocalOnGameClosed
  <1>8. CASE OnGameClosed
    BY <1>8 DEF OnGameClosed
  <1>9. CASE SendClosed
    BY <1>9 DEF SendClosed, Broadcast
  <1>10. CASE MainDestroy
    BY <1>10 DEF MainDestroy, sharedVars
  <1>11. CASE MainStop \/ MainJoin \/ MainReturn
    BY <1>11 DEF MainStop, MainJoin, MainReturn, sharedVars
  <1>12. CASE Signal \/ Game
    BY <1>12 DEF Signal, Game, mainVars, sharedVars
  <1>13. ASSUME NEW c \in Conns, ConnStep(c) \/ Submit(c)
         PROVE  PtrInv'
    BY <1>13 DEF ConnStep, Submit, OnConnection, HandshakeFail, OpenRegister,
       OpenGreet, TextMessage, SendReturn, PathMessage, PathRead,
       OtherBinaryMessage, ParseMessage, ParseSection, SendSpins, Throw,
       Reply, OnClose, ConnUnchanged, mainVars, sharedVars
  <1>14. CASE UNCHANGED vars
    BY <1>14 DEF vars, mainVars, sharedVars
  <1> QED
    BY NextCases, <1>1, <1>2, <1>3, <1>4, <1>5, <1>6, <1>7, <1>8, <1>9, <1>10,
       <1>11, <1>12, <1>13, <1>14

-----------------------------------------------------------------------------
(* Type correctness.                                                        *)

(* Delivering an announcement appends a well-formed note to one feed.       *)
LEMMA DeliverType ==
    ASSUME TypeOK, NEW c \in Conns, NEW note \in Note, Deliver(c, note)
    PROVE  feed' \in [Conns -> Seq(Note)]
  <1>1. Append(feed[c], note) \in Seq(Note)
    BY DEF TypeOK
  <1> QED  BY <1>1 DEF Deliver, TypeOK

(* A turn of a broadcast, or its end, keeps the types.                      *)
LEMMA BroadcastType ==
    ASSUME TypeOK, NEW here, NEW note \in Note, NEW next \in MainPc,
           Broadcast(here, note, next)
    PROVE  TypeOK'
  <1>1. LinkTypeOK'
    BY LinkTypeStep DEF Broadcast, TypeOK
  <1>2. CASE cursor <= Len(allConnections) /\ Deliver(allConnections[cursor], note)
    <2>1. allConnections[cursor] \in Conns
      BY <1>2 DEF TypeOK
    <2>2. feed' \in [Conns -> Seq(Note)]
      BY <1>2, <2>1, DeliverType
    <2>3. /\ cursor' = cursor + 1
          /\ UNCHANGED <<mutex, mainPc, running, listening, games, interface,
                 lsInterface, wsInterface, allConnections, conn, thread, callee,
                 pending, asked, portClosed, crashed>>
      BY <1>2 DEF Broadcast, TypeOK
    <2> QED  BY <1>1, <2>2, <2>3 DEF TypeOK
  <1>3. CASE /\ mutex' = Free /\ mainPc' = next
             /\ UNCHANGED <<feed, cursor>>
    <2>1. UNCHANGED <<running, listening, games, interface, lsInterface, wsInterface,
                 allConnections, conn, thread, callee, pending, asked, portClosed,
                 crashed>>
      BY DEF Broadcast
    <2> QED  BY <1>1, <1>3, <2>1 DEF TypeOK
  <1> QED  BY <1>2, <1>3 DEF Broadcast

(* Every step of the main thread keeps the types.                           *)
LEMMA MainType ==
    ASSUME TypeOK, PtrInv, MainStep
    PROVE  TypeOK'
  <1>1. CASE MainOpen
    <2>1. LinkTypeOK'
      BY <1>1, LinkTypeStep DEF MainOpen, TypeOK
    <2> QED  BY <1>1, <2>1, BoundsAssumption
             DEF BoundsAssumption, MainOpen, TypeOK, MainPc, sharedVars, connVars
  <1>2. CASE LocalOnGameOpened \/ OnGameOpened \/ LocalOnGameClosed \/ OnGameClosed
    <2>1. LinkTypeOK'
      BY <1>2, LinkTypeStep DEF LocalOnGameOpened, OnGameOpened, LocalOnGameClosed,
         OnGameClosed, TypeOK
    <2> QED  BY <1>2, <2>1, BoundsAssumption
             DEF BoundsAssumption, LocalOnGameOpened, OnGameOpened, LocalOnGameClosed,
                 OnGameClosed, TypeOK, MainPc, connVars
  <1>3. CASE SendOpened
    <2>1. Opened(interface) \in Note
      BY <1>3, BoundsAssumption
         DEF BoundsAssumption, SendOpened, Broadcast, PtrInv, TypeOK, Opened, Note, Interface
    <2> QED  BY <1>3, <2>1, BroadcastType DEF SendOpened, MainPc
  <1>4. CASE SendClosed
    <2>1. Closed(interface) \in Note
      BY <1>4, BoundsAssumption
         DEF BoundsAssumption, SendClosed, Broadcast, PtrInv, TypeOK, Closed, Note, Interface
    <2> QED  BY <1>4, <2>1, BroadcastType DEF SendClosed, MainPc
  <1>5. CASE MainCheck
    <2>1. LinkTypeOK'
      BY <1>5, LinkTypeStep DEF MainCheck, IsClosedThrows, TypeOK
    <2> QED  BY <1>5, <2>1 DEF MainCheck, TypeOK, MainPc, sharedVars, connVars
  <1>6. CASE MainPoll
    <2>1. LinkTypeOK'
      BY <1>6, LinkTypeStep DEF MainPoll, TypeOK
    <2> QED  BY <1>6, <2>1 DEF MainPoll, TypeOK, MainPc, sharedVars, connVars
  <1>7. CASE MainDestroy \/ MainReturn
    <2>1. LinkTypeOK'
      BY <1>7, LinkTypeStep DEF MainDestroy, MainReturn, TypeOK
    <2> QED  BY <1>7, <2>1, BoundsAssumption
             DEF BoundsAssumption, MainDestroy, MainReturn, TypeOK, MainPc, sharedVars, connVars
  <1>8. CASE MainStop \/ MainJoin
    <2>1. LinkTypeOK'
      BY <1>8, LinkTypeStep DEF MainStop, MainJoin, TypeOK
    <2> QED  BY <1>8, <2>1 DEF MainStop, MainJoin, TypeOK, MainPc, sharedVars, connVars
  <1>9. CASE MainScan
    <2>1. LinkTypeOK'
      BY <1>9, LinkTypeStep DEF MainScan, vars, TypeOK
    <2> QED
      BY <1>9, <2>1 DEF MainScan, TypeOK, vars, mainVars, sharedVars, connVars
  <1> QED
    BY <1>1, <1>2, <1>3, <1>4, <1>5, <1>6, <1>7, <1>8, <1>9 DEF MainStep

(* Taking a request never brings the number of waiting ones below zero.     *)
LEMMA TakeType ==
    ASSUME TypeOK, NEW c \in Conns, Take(c)
    PROVE  pending' \in [Conns -> Nat]
  <1>1. pending[c] \in Nat /\ pending[c] > 0
    BY DEF Take, TypeOK
  <1>2. pending[c] - 1 \in Nat
    BY <1>1
  <1> QED  BY <1>2 DEF Take, TypeOK

(* Every step of a connection thread or of its webapp keeps the types.      *)
LEMMA ConnType ==
    ASSUME TypeOK, NEW c \in Conns, ConnStep(c) \/ Submit(c)
    PROVE  TypeOK'
  <1>1. LinkTypeOK'
    BY LinkTypeStep DEF ConnStep, Submit, OnConnection, HandshakeFail, OpenRegister,
       OpenGreet, TextMessage, SendReturn, PathMessage, PathRead,
       OtherBinaryMessage, ParseMessage, ParseSection, SendSpins, Throw,
       Reply, OnClose, ConnUnchanged, TypeOK
  <1>2. mainVars' = mainVars /\ lsInterface' = lsInterface /\ wsInterface' = wsInterface
    BY DEF ConnStep, Submit, OnConnection, HandshakeFail, OpenRegister,
       OpenGreet, TextMessage, SendReturn, PathMessage, PathRead,
       OtherBinaryMessage, ParseMessage, ParseSection, SendSpins, Throw,
       Reply, OnClose, ConnUnchanged, sharedVars
  <1> USE <1>1, <1>2 DEF mainVars, TypeOK, ConnState
  <1>3. CASE OnConnection(c) \/ HandshakeFail(c)
    BY <1>3 DEF OnConnection, HandshakeFail
  <1>4. CASE OpenRegister(c)
    BY <1>4 DEF OpenRegister
  <1>5. CASE OpenGreet(c)
    <2>1. wsInterface # 0 => Opened(wsInterface) \in Note
      BY BoundsAssumption DEF BoundsAssumption, Opened, Note, Interface
    <2>2. wsInterface # 0 => Append(feed[c], Opened(wsInterface)) \in Seq(Note)
      BY <2>1
    <2> QED  BY <1>5, <2>2 DEF OpenGreet
  <1>6. CASE Submit(c)
    <2>1. asked[c] + 1 \in 0..MaxRequests /\ pending[c] + 1 \in Nat
      BY <1>6, BoundsAssumption DEF BoundsAssumption, Submit
    <2> QED  BY <1>6, <2>1 DEF Submit
  <1>7. CASE TextMessage(c)
    BY <1>7, TakeType DEF TextMessage, Take, ThreadState
  <1>8. CASE SendReturn(c)
    BY <1>8 DEF SendReturn, AfterSend, Results, ThreadState, sharedVars
  <1>9. CASE PathMessage(c) \/ PathRead(c)
    <2>1. CASE PathMessage(c)
      BY <1>9, <2>1, TakeType DEF PathMessage, Take, ThreadState
    <2>2. CASE PathRead(c)
      BY <1>9, <2>2 DEF PathRead, ThreadState
    <2> QED  BY <1>9, <2>1, <2>2
  <1>10. CASE OtherBinaryMessage(c) \/ ParseMessage(c)
    <2>1. pending' \in [Conns -> Nat]
      BY <1>10, TakeType DEF OtherBinaryMessage, ParseMessage
    <2>2. thread' \in [Conns -> ThreadState] /\ crashed' \in BOOLEAN
      BY <1>10 DEF OtherBinaryMessage, ParseMessage, Throw, AfterSend, Results, ThreadState
    <2> QED  BY <1>10, <2>1, <2>2 DEF OtherBinaryMessage, ParseMessage
  <1>12. CASE ParseSection(c) \/ SendSpins(c)
    BY <1>12 DEF ParseSection, SendSpins, ThreadState
  <1>11. CASE Reply(c) \/ OnClose(c)
    BY <1>11 DEF Reply, OnClose, ThreadState
  <1> QED
    BY <1>3, <1>4, <1>5, <1>6, <1>7, <1>8, <1>9, <1>10, <1>11, <1>12 DEF ConnStep

(* Every step keeps the types; that a broadcast announces the number of a   *)
(* real interface is what PtrInv is needed for.                             *)
LEMMA TypeStep ==
    ASSUME TypeOK, PtrInv, [Next]_vars
    PROVE  TypeOK'
  <1>1. CASE MainStep
    BY <1>1, MainType
  <1>2. CASE Signal \/ Game
    <2>1. LinkTypeOK'
      BY <1>2, LinkTypeStep DEF Signal, Game, TypeOK
    <2> QED  BY <1>2, <2>1 DEF Signal, Game, TypeOK, mainVars, sharedVars, connVars
  <1>3. ASSUME NEW c \in Conns, ConnStep(c) \/ Submit(c)
        PROVE  TypeOK'
    BY <1>3, ConnType
  <1>4. CASE UNCHANGED vars
    <2>1. LinkTypeOK'
      BY <1>4, LinkTypeStep DEF vars, TypeOK
    <2> QED  BY <1>4, <2>1 DEF TypeOK, vars, mainVars, sharedVars, connVars
  <1> QED
    BY <1>1, <1>2, <1>3, <1>4 DEF Next, MainSleep, Halted

(* Every variable keeps its type: in particular only numbers of interface   *)
(* objects that were made are ever announced.                               *)
THEOREM TypeCorrect == Spec => [](TypeOK /\ PtrInv)
  <1>1. Init => TypeOK /\ PtrInv
    BY InitType, PtrInit
  <1>2. TypeOK /\ PtrInv /\ [Next]_vars => (TypeOK /\ PtrInv)'
    BY TypeStep, PtrStep
  <1> QED  BY <1>1, <1>2, PTL DEF Spec

(* The servers' pointers are null or main's own, and main's assertions hold.*)
THEOREM PointersSafe == Spec => []PointersLive
  <1>1. TypeOK /\ PtrInv => PointersLive
    BY DEF TypeOK, PtrInv, PointersLive, MainPc
  <1> QED  BY <1>1, TypeCorrect, PTL

-----------------------------------------------------------------------------
(* The lock, the connection threads and the shutdown.                       *)

(* At the start the lock is free and every thread idle.                     *)
LEMMA MutexInit ==
    ASSUME Init
    PROVE  MutexInv /\ ThreadInv
  BY ConnsAssumption DEF ConnsAssumption, Init, MutexInv, ThreadInv, Main, Free,
     Sending, Stopped

(* The lock is taken and released only by the section that owns it.         *)
LEMMA MutexStep ==
    ASSUME TypeOK, MutexInv, ThreadInv, [Next]_vars
    PROVE  MutexInv'
  <1> USE ConnsAssumption DEF ConnsAssumption, MutexInv, Sending
  <1>1. CASE MainOpen \/ LocalOnGameOpened \/ LocalOnGameClosed
    BY <1>1 DEF MainOpen, LocalOnGameOpened, LocalOnGameClosed, sharedVars, connVars
  <1>2. CASE OnGameOpened \/ OnGameClosed
    BY <1>2 DEF OnGameOpened, OnGameClosed, connVars, Main, Free
  <1>3. CASE SendOpened \/ SendClosed
    BY <1>3 DEF SendOpened, SendClosed, Broadcast, Main, Free
  <1>4. CASE MainCheck \/ MainPoll \/ MainDestroy \/ MainStop \/ MainJoin \/ MainReturn
    BY <1>4 DEF MainCheck, MainPoll, MainDestroy, MainStop, MainJoin, MainReturn,
       sharedVars, connVars
  <1>5. CASE Signal \/ Game \/ UNCHANGED vars
    BY <1>5 DEF Signal, Game, vars, mainVars, sharedVars, connVars
  <1>6. ASSUME NEW c \in Conns, ConnStep(c) \/ Submit(c)
        PROVE  MutexInv'
    <2> USE <1>6 DEF TypeOK, ConnUnchanged, mainVars
    <2>1. CASE OnConnection(c) \/ HandshakeFail(c)
      BY <2>1 DEF OnConnection, HandshakeFail
    <2>2. CASE OpenRegister(c)
      BY <2>2 DEF OpenRegister, Main, Free
    <2>3. CASE OpenGreet(c)
      <3>1. thread[c] # "stuck"
        BY <2>3 DEF OpenGreet, ThreadInv
      <3> QED  BY <2>3, <3>1 DEF OpenGreet, Main, Free
    <2>4. CASE Submit(c)
      BY <2>4 DEF Submit
    <2>5. CASE \/ TextMessage(c) \/ SendReturn(c) \/ SendSpins(c) \/ PathMessage(c)
               \/ PathRead(c) \/ OtherBinaryMessage(c) \/ ParseMessage(c)
      <3>1. UNCHANGED <<mutex, conn, mainPc>>
        BY <2>5 DEF TextMessage, SendReturn, SendSpins, PathMessage, PathRead,
           OtherBinaryMessage, ParseMessage, sharedVars
      <3>2. thread[c] # "stuck" /\ thread'[c] # "stuck"
        BY <2>5 DEF TextMessage, SendReturn, SendSpins, PathMessage, PathRead,
           OtherBinaryMessage, ParseMessage, Throw, Take, AfterSend, Results
      <3>3. \A d \in Conns \ {c} : thread'[d] = thread[d]
        BY <2>5 DEF TextMessage, SendReturn, SendSpins, PathMessage, PathRead,
           OtherBinaryMessage, ParseMessage, Throw
      <3> QED  BY <3>1, <3>2, <3>3
    <2>6. CASE Reply(c)
      <3>1. conn[c] # "registered"
        BY <2>6 DEF Reply, ThreadInv
      <3> QED  BY <2>6, <3>1 DEF Reply
    <2>7. CASE OnClose(c)
      BY <2>7 DEF OnClose
    <2>8. CASE ParseSection(c)
      <3>1. conn[c] # "registered"
        BY <2>8 DEF ParseSection, ThreadInv
      <3> QED  BY <2>8, <3>1 DEF ParseSection, Main, Free
    <2> QED  BY <2>1, <2>2, <2>3, <2>4, <2>5, <2>6, <2>7, <2>8 DEF ConnStep
  <1> QED
    BY NextCases, <1>1, <1>2, <1>3, <1>4, <1>5, <1>6

(* Threads work only on open connections; what the shutdown has ended       *)
(* stays ended, because a closed listener accepts nobody.                   *)
LEMMA ThreadStep ==
    ASSUME TypeOK, ThreadInv, [Next]_vars
    PROVE  ThreadInv'
  <1> USE DEF ThreadInv, Stopped
  <1>1. CASE \/ MainOpen \/ LocalOnGameOpened \/ LocalOnGameClosed \/ OnGameOpened
             \/ OnGameClosed \/ MainCheck \/ MainPoll \/ MainDestroy
    BY <1>1 DEF MainOpen, LocalOnGameOpened, LocalOnGameClosed, OnGameOpened,
       OnGameClosed, MainCheck, MainPoll, MainDestroy, sharedVars, connVars
  <1>2. CASE SendOpened \/ SendClosed
    BY <1>2 DEF SendOpened, SendClosed, Broadcast
  <1>3. CASE MainStop \/ MainJoin \/ MainReturn
    BY <1>3 DEF MainStop, MainJoin, MainReturn, connVars
  <1>4. CASE Signal \/ Game \/ UNCHANGED vars
    BY <1>4 DEF Signal, Game, vars, mainVars, connVars
  <1>5. ASSUME NEW c \in Conns, ConnStep(c) \/ Submit(c)
        PROVE  ThreadInv'
    <2> USE <1>5 DEF TypeOK, ConnUnchanged, mainVars
    <2>1. CASE OnConnection(c) \/ HandshakeFail(c)
      BY <2>1 DEF OnConnection, HandshakeFail
    <2>2. CASE OpenRegister(c)
      BY <2>2 DEF OpenRegister
    <2>6. CASE OpenGreet(c)
      BY <2>6 DEF OpenGreet
    <2>7. CASE Submit(c)
      BY <2>7 DEF Submit
    <2>3. CASE TextMessage(c)
      BY <2>3 DEF TextMessage, Take
    <2>9. CASE PathMessage(c)
      BY <2>9 DEF PathMessage, Take
    <2>10. CASE OtherBinaryMessage(c) \/ ParseMessage(c)
      BY <2>10 DEF OtherBinaryMessage, ParseMessage, Throw, Take
    <2>4. CASE PathRead(c) \/ SendReturn(c) \/ SendSpins(c) \/ ParseSection(c)
      BY <2>4 DEF PathRead, SendReturn, SendSpins, ParseSection
    <2>5. CASE Reply(c)
      <3>1. mainPc \notin {"join", "done"}
        BY <2>5 DEF Reply
      <3>2. \A d \in Conns : conn'[d] # "open" => thread'[d] = "idle"
        BY <2>5 DEF Reply
      <3> QED  BY <2>5, <3>1, <3>2 DEF Reply
    <2>8. CASE OnClose(c)
      BY <2>8 DEF OnClose
    <2> QED  BY <2>1, <2>2, <2>3, <2>4, <2>5, <2>6, <2>7, <2>8, <2>9, <2>10 DEF ConnStep
  <1> QED
    BY NextCases, <1>1, <1>2, <1>3, <1>4, <1>5

(* The lock is main's during a broadcast and a thread's during its greeting,*)
(* and a thread is busy only while its connection is open.                  *)
THEOREM LockDiscipline == Spec => [](MutexInv /\ ThreadInv)
  <1>1. TypeOK /\ MutexInv /\ ThreadInv /\ [Next]_vars => (MutexInv /\ ThreadInv)'
    BY MutexStep, ThreadStep
  <1> QED  BY <1>1, MutexInit, TypeCorrect, PTL DEF Spec

(* The interface is destroyed at exit only after every connection thread    *)
(* has ended.                                                               *)
THEOREM ShutdownSafe == Spec => []ShutdownOrder
  <1>1. ThreadInv => ShutdownOrder
    BY DEF ThreadInv, ShutdownOrder
  <1> QED  BY <1>1, LockDiscipline, PTL

-----------------------------------------------------------------------------
(* Shared memory: the flag and the announcement tell the truth.             *)

(* The flag that a call leaves behind agrees with the process.              *)
ShmInv == engine = "shm" => (broken => ~procAlive) /\ ClosedMeansExited

(* A call that ends with the process gone sets the flag, no other does.     *)
LEMMA ShmSendStep ==
    ASSUME LinkTypeOK, ShmInv, NEW result \in Results, Send(result),
           mainPc' \in {mainPc, "top", "scan"}
    PROVE  ShmInv'
  <1>1. UNCHANGED <<engine, procAlive>>
    BY DEF Send
  <1>2. engine = "shm" /\ broken' => ~procAlive
    BY DEF Send, ShmSend, ShmInv
  <1> QED  BY <1>1, <1>2 DEF ShmInv, ClosedMeansExited

(* isClosed() sets it by the process itself.                                *)
LEMMA ShmCheckStep ==
    ASSUME LinkTypeOK, ShmInv, MainCheck
    PROVE  ShmInv'
  <1>1. CASE IsClosedThrows /\ UNCHANGED mainPc
    BY <1>1 DEF IsClosedThrows, linkVars, ShmInv, ClosedMeansExited
  <1>2. ASSUME NEW closed \in BOOLEAN, IsClosed(closed),
               mainPc' = IF closed THEN "localClose" ELSE IF IsDde THEN "top" ELSE "poll"
        PROVE  ShmInv'
    <2>1. UNCHANGED <<engine, procAlive>>
      BY <1>2 DEF IsClosed
    <2>2. engine = "shm" /\ broken' => ~procAlive
      BY <1>2 DEF IsClosed, ShmIsClosed, ShmInv, LinkTypeOK
    <2>3. engine = "shm" /\ closed => ~procAlive
      BY <1>2 DEF IsClosed, ShmIsClosed, ShmInv, LinkTypeOK
    <2>4. ~closed => mainPc' \in {"top", "poll"}
      BY <1>2
    <2> QED  BY <2>1, <2>2, <2>3, <2>4 DEF ShmInv, ClosedMeansExited
  <1> QED  BY <1>1, <1>2 DEF MainCheck

(* The steps of main that matter are the check, which looks at the process, *)
(* and the calls, whose flag comes from a wait for it.                      *)
LEMMA ShmStep ==
    ASSUME TypeOK, ShmInv, [Next]_vars
    PROVE  ShmInv'
  <1> USE DEF ShmInv, ClosedMeansExited
  <1>1. CASE MainOpen
    BY <1>1 DEF MainOpen, OpenLink
  <1>2. CASE LocalOnGameOpened \/ OnGameOpened \/ LocalOnGameClosed \/ OnGameClosed
    BY <1>2 DEF LocalOnGameOpened, OnGameOpened, LocalOnGameClosed, OnGameClosed, linkVars
  <1>3. CASE SendOpened \/ SendClosed
    BY <1>3 DEF SendOpened, SendClosed, Broadcast, linkVars
  <1>4. CASE MainCheck
    BY <1>4, ShmCheckStep DEF TypeOK
  <1>5. CASE MainPoll
    BY <1>5, ShmSendStep DEF MainPoll, TypeOK
  <1>6. CASE MainDestroy \/ MainStop \/ MainJoin \/ MainReturn
    BY <1>6 DEF MainDestroy, MainStop, MainJoin, MainReturn, DestroyLink, linkVars
  <1>7. CASE Signal \/ Game
    BY <1>7 DEF Signal, Game, GameStart, GameExit, mainVars, linkVars
  <1>8. ASSUME NEW c \in Conns, ConnStep(c) \/ Submit(c)
        PROVE  ShmInv'
    <2>1. CASE SendReturn(c)
      <3>1. mainPc' = mainPc
        BY <2>1 DEF SendReturn, mainVars
      <3> QED  BY <2>1, <3>1, ShmSendStep DEF SendReturn, TypeOK, linkVars
    <2>2. CASE ConnUnchanged
      BY <2>2 DEF ConnUnchanged, mainVars, linkVars
    <2> QED
      BY <1>8, <2>1, <2>2
         DEF ConnStep, Submit, OnConnection, HandshakeFail, OpenRegister, OpenGreet,
             TextMessage, PathMessage, PathRead, OtherBinaryMessage, ParseMessage,
             ParseSection, SendSpins, Reply, OnClose
  <1>9. CASE UNCHANGED vars
    BY <1>9 DEF vars, mainVars, linkVars
  <1> QED
    BY NextCases, <1>1, <1>2, <1>3, <1>4, <1>5, <1>6, <1>7, <1>8, <1>9

(* With shared memory, a game is announced closed only when its process has *)
(* exited, whoever noticed it.                                              *)
THEOREM ClosesTruly == Spec => []ShmClosedMeansExited
  <1>1. Init => ShmInv
    BY DEF Init, LinkInit, ShmInv, ClosedMeansExited
  <1>2. TypeOK /\ ShmInv /\ [Next]_vars => ShmInv'
    BY ShmStep
  <1>3. ShmInv => ShmClosedMeansExited
    BY DEF ShmInv, ShmClosedMeansExited
  <1> QED  BY <1>1, <1>2, <1>3, TypeCorrect, PTL DEF Spec

-----------------------------------------------------------------------------
(* The list of connections, and what each has been told.                    *)

(* At the start nobody is listed, connected or told anything.               *)
LEMMA ListInit ==
    ASSUME Init
    PROVE  ListInv /\ ToldInv
  <1>1. ListInv
    BY DEF Init, ListInv
  <1>2. ToldInv
    BY DEF Init, ToldInv, Told, Sending
  <1> QED  BY <1>1, <1>2

(* Steps that change neither the list nor the life of a connection.         *)
LEMMA QuietStep ==
    ASSUME Next,
           ~(\E c \in Conns : \/ OnConnection(c) \/ HandshakeFail(c) \/ OpenRegister(c)
                              \/ OpenGreet(c) \/ Reply(c) \/ OnClose(c))
    PROVE  UNCHANGED <<conn, allConnections>>
  <1>1. CASE MainStep
    BY <1>1 DEF MainStep, MainOpen, LocalOnGameOpened, OnGameOpened, SendOpened,
       MainCheck, MainPoll, LocalOnGameClosed, OnGameClosed, SendClosed, MainDestroy,
       MainStop, MainJoin, MainReturn, Broadcast, MainScan, vars, sharedVars,
       connVars
  <1>2. CASE Signal \/ Game \/ UNCHANGED vars
    BY <1>2 DEF Signal, Game, vars, sharedVars, connVars
  <1>3. ASSUME NEW c \in Conns, ConnStep(c) \/ Submit(c)
        PROVE  UNCHANGED <<conn, allConnections>>
    BY <1>3 DEF ConnStep, Submit, TextMessage, SendReturn, PathMessage, PathRead,
       OtherBinaryMessage, ParseMessage, ParseSection, SendSpins, sharedVars
  <1> QED
    BY <1>1, <1>2, <1>3 DEF Next, MainSleep, Halted

(* Entries leave the list's care by moving forward in life only.            *)
LEMMA ListKept ==
    ASSUME TypeOK, ListInv, UNCHANGED allConnections,
           \A d \in Conns : conn'[d] \in {"new", "accepted"} => conn[d] \in {"new", "accepted"},
           \A d \in Conns : conn'[d] \in {"registered", "open"} =>
                             conn[d] \in {"registered", "open"}
    PROVE  ListInv'
  <1>1. \A i \in 1..Len(allConnections) : allConnections[i] \in Conns
    BY DEF TypeOK
  <1>2. \A i \in 1..Len(allConnections) : conn'[allConnections[i]] \notin {"new", "accepted"}
    BY <1>1, Zenon DEF ListInv
  <1> QED  BY <1>2 DEF ListInv

(* OpenRegister adds a connection that was not listed before.               *)
LEMMA ListGrows ==
    ASSUME TypeOK, ListInv, NEW c \in Conns, OpenRegister(c)
    PROVE  ListInv'
  <1> DEFINE n == Len(allConnections)
  <1>1. /\ Len(allConnections') = n + 1
        /\ \A i \in 1..n : allConnections'[i] = allConnections[i]
        /\ allConnections'[n + 1] = c
        /\ n \in Nat
    BY DEF OpenRegister, TypeOK
  <1>2. /\ conn'[c] = "registered" /\ conn[c] = "accepted"
        /\ \A d \in Conns \ {c} : conn'[d] = conn[d]
    BY DEF OpenRegister, TypeOK
  <1>3. \A i \in 1..n : allConnections[i] \in Conns
    BY DEF TypeOK
  <1>4. /\ \A i \in 1..n : conn[allConnections[i]] \notin {"new", "accepted"}
        /\ \A d \in Conns : conn[d] \in {"registered", "open"} =>
              \E i \in 1..n : allConnections[i] = d
        /\ \A i, j \in 1..n : allConnections[i] = allConnections[j] => i = j
    BY DEF ListInv
  <1> HIDE DEF n
  <1>5. \A i \in 1..n : allConnections[i] \in Conns \ {c}
    BY <1>2, <1>3, <1>4
  <1>6. \A i \in 1..(n + 1) : i \in 1..n \/ i = n + 1
    BY <1>1
  <1>7. \A i \in 1..(n + 1) : conn'[allConnections'[i]] \notin {"new", "accepted"}
    <2> TAKE i \in 1..(n + 1)
    <2>1. CASE i \in 1..n
      BY <2>1, <1>1, <1>2, <1>4, <1>5
    <2>2. CASE i = n + 1
      BY <2>2, <1>1, <1>2
    <2> QED  BY <2>1, <2>2, <1>6
  <1>8. \A d \in Conns : conn'[d] \in {"registered", "open"} =>
           \E i \in 1..(n + 1) : allConnections'[i] = d
    <2> TAKE d \in Conns
    <2> HAVE conn'[d] \in {"registered", "open"}
    <2>1. CASE d = c
      BY <2>1, <1>1
    <2>2. CASE d # c
      <3>1. PICK i \in 1..n : allConnections[i] = d
        BY <2>2, <1>2, <1>4
      <3>2. i \in 1..(n + 1) /\ allConnections'[i] = d
        BY <3>1, <1>1
      <3> QED  BY <3>2
    <2> QED  BY <2>1, <2>2
  <1>9. \A i, j \in 1..(n + 1) : allConnections'[i] = allConnections'[j] => i = j
    BY <1>1, <1>4, <1>5, <1>6
  <1> QED  BY <1>1, <1>7, <1>8, <1>9 DEF ListInv

(* Every step keeps the list complete and free of repetitions.              *)
LEMMA ListStep ==
    ASSUME TypeOK, ListInv, [Next]_vars
    PROVE  ListInv'
  <1>1. ASSUME NEW c \in Conns, OnConnection(c) \/ HandshakeFail(c)
        PROVE  ListInv'
    BY <1>1, ListKept DEF OnConnection, HandshakeFail, TypeOK
  <1>2. ASSUME NEW c \in Conns, OpenRegister(c)
        PROVE  ListInv'
    BY <1>2, ListGrows
  <1>3. ASSUME NEW c \in Conns, OpenGreet(c)
        PROVE  ListInv'
    BY <1>3, ListKept DEF OpenGreet, TypeOK
  <1>4. ASSUME NEW c \in Conns, Reply(c) \/ OnClose(c)
        PROVE  ListInv'
    <2>1. /\ UNCHANGED allConnections
          /\ \E state \in {"closing", "gone"} :
                conn' = [conn EXCEPT ![c] = state] \/ conn' = conn
      BY <1>4 DEF Reply, OnClose
    <2> QED  BY <2>1, ListKept DEF TypeOK
  <1>5. CASE UNCHANGED <<conn, allConnections>>
    BY <1>5, ListKept
  <1> QED
    BY <1>1, <1>2, <1>3, <1>4, <1>5, QuietStep DEF vars, sharedVars, connVars

(* What a webapp has been told depends on its feed alone.                   *)
LEMMA ToldSame ==
    ASSUME NEW c \in Conns, feed'[c] = feed[c]
    PROVE  Told(c)' = Told(c)
  BY DEF Told

(* An announcement decides what its receiver has been told.                 *)
LEMMA ToldAppend ==
    ASSUME TypeOK, NEW c \in Conns, NEW note \in Note, feed'[c] = Append(feed[c], note)
    PROVE  Told(c)' = IF note.kind = "OnGameOpened" THEN note.game ELSE 0
  <1> DEFINE f == feed[c]
  <1>1. f \in Seq(Note)
    BY DEF TypeOK
  <1>2. /\ Append(f, note) # <<>>
        /\ Len(Append(f, note)) = Len(f) + 1
        /\ Append(f, note)[Len(f) + 1] = note
    BY <1>1
  <1> QED  BY <1>2 DEF Told

(* A step that adds to no feed, moves no pointer and stays within or outside *)
(* the broadcasts.                                                          *)
LEMMA ToldKept ==
    ASSUME TypeOK, ToldInv, UNCHANGED <<feed, wsInterface, interface, cursor, allConnections>>,
           mainPc' = mainPc \/ (mainPc \notin Sending /\ mainPc' \notin Sending),
           \A d \in Conns : conn'[d] \in Early => feed[d] = <<>>,
           \A d \in Conns : conn'[d] = "open" => conn[d] = "open"
    PROVE  ToldInv'
  <1>1. \A d \in Conns : Told(d)' = Told(d)
    BY ToldSame
  <1>2. \A i \in 1..Len(allConnections) : allConnections[i] \in Conns
    BY DEF TypeOK
  <1>3. mainPc' \notin Sending =>
           \A d \in Conns : conn'[d] = "open" => Told(d)' = wsInterface'
    BY <1>1 DEF ToldInv
  <1>4. mainPc' = "sendOpen" =>
           \A i \in 1..Len(allConnections) : conn'[allConnections[i]] = "open" =>
              Told(allConnections[i])' = IF i < cursor THEN wsInterface ELSE 0
    BY <1>1, <1>2 DEF ToldInv, Sending
  <1>5. mainPc' = "sendClose" =>
           \A i \in 1..Len(allConnections) : conn'[allConnections[i]] = "open" =>
              Told(allConnections[i])' = IF i < cursor THEN 0 ELSE interface
    BY <1>1, <1>2 DEF ToldInv, Sending
  <1> QED  BY <1>1, <1>3, <1>4, <1>5 DEF ToldInv, Sending

(* A broadcast starts: nobody has been told yet.                            *)
LEMMA ToldStart ==
    ASSUME TypeOK, PtrInv, ToldInv, OnGameOpened \/ OnGameClosed
    PROVE  ToldInv'
  <1>1. \A d \in Conns : Told(d)' = Told(d)
    BY ToldSame DEF OnGameOpened, OnGameClosed, connVars
  <1>2. \A i \in 1..Len(allConnections) : allConnections[i] \in Conns
    BY DEF TypeOK
  <1>3. \A d \in Conns : conn[d] = "open" => Told(d) = wsInterface
    BY DEF ToldInv, Sending, OnGameOpened, OnGameClosed
  <1>4. CASE OnGameOpened
    <2>1. wsInterface = 0
      BY <1>4 DEF OnGameOpened, PtrInv
    <2> QED  BY <1>1, <1>2, <1>3, <1>4, <2>1 DEF OnGameOpened, ToldInv, Sending, connVars
  <1>5. CASE OnGameClosed
    <2>1. wsInterface = interface
      BY <1>5 DEF OnGameClosed, PtrInv
    <2> QED  BY <1>1, <1>2, <1>3, <1>5, <2>1 DEF OnGameClosed, ToldInv, Sending, connVars
  <1> QED  BY <1>4, <1>5

(* One turn of a broadcast changes what the connection at the cursor has    *)
(* been told, and nothing else.                                             *)
LEMMA ToldTurn ==
    ASSUME TypeOK, ListInv, NEW note \in Note, NEW k \in 1..Len(allConnections),
           Deliver(allConnections[k], note), UNCHANGED <<conn, allConnections>>
    PROVE  /\ conn[allConnections[k]] = "open" =>
                 Told(allConnections[k])' =
                    IF note.kind = "OnGameOpened" THEN note.game ELSE 0
           /\ \A i \in 1..Len(allConnections) :
                 i # k => Told(allConnections[i])' = Told(allConnections[i])
           /\ \A d \in Conns : conn[d] \in Early => feed'[d] = feed[d]
  <1>1. \A i \in 1..Len(allConnections) : allConnections[i] \in Conns
    BY DEF TypeOK
  <1>2. PICK c \in Conns : c = allConnections[k]
    BY <1>1
  <1>3. conn[c] = "open" => feed'[c] = Append(feed[c], note)
    BY <1>2 DEF Deliver, TypeOK
  <1>4. \A d \in Conns : d # c \/ conn[c] # "open" => feed'[d] = feed[d]
    BY <1>2 DEF Deliver, TypeOK
  <1>5. conn[c] = "open" => Told(c)' = IF note.kind = "OnGameOpened" THEN note.game ELSE 0
    BY <1>3, ToldAppend
  <1>6. \A d \in Conns : d # c => Told(d)' = Told(d)
    BY <1>4, ToldSame
  <1>7. \A i \in 1..Len(allConnections) : i # k => allConnections[i] # c
    BY <1>2 DEF ListInv
  <1>8. \A d \in Conns : conn[d] \in Early => feed'[d] = feed[d]
    BY <1>4 DEF Early
  <1> QED  BY <1>1, <1>2, <1>5, <1>6, <1>7, <1>8

(* A turn of a broadcast tells the connection at the cursor; at its end     *)
(* every listed connection, hence every open one, has been told.            *)
LEMMA ToldSend ==
    ASSUME TypeOK, PtrInv, ListInv, ToldInv, SendOpened \/ SendClosed
    PROVE  ToldInv'
  <1> DEFINE n == Len(allConnections)
  <1>0. /\ n \in Nat /\ cursor \in Nat \ {0} /\ interface \in Nat
        /\ UNCHANGED <<conn, allConnections, wsInterface, interface>>
    BY DEF TypeOK, SendOpened, SendClosed, Broadcast
  <1>1. CASE SendOpened /\ cursor <= n
    <2>1. PICK k \in 1..n : k = cursor
      BY <1>0, <1>1
    <2>2. /\ mainPc = "sendOpen" /\ UNCHANGED mainPc /\ cursor' = k + 1
          /\ Deliver(allConnections[k], Opened(interface))
      BY <1>0, <1>1, <2>1 DEF SendOpened, Broadcast
    <2>3. Opened(interface) \in Note /\ interface # 0
      BY <2>2, BoundsAssumption
         DEF BoundsAssumption, PtrInv, TypeOK, Opened, Note, Interface
    <2>4. /\ conn[allConnections[k]] = "open" => Told(allConnections[k])' = interface
          /\ \A i \in 1..n : i # k => Told(allConnections[i])' = Told(allConnections[i])
          /\ \A d \in Conns : conn[d] \in Early => feed'[d] = feed[d]
      BY <1>0, <2>1, <2>2, <2>3, ToldTurn DEF Opened
    <2>5. \A i \in 1..n : conn[allConnections[i]] = "open" =>
             Told(allConnections[i])' = IF i < k + 1 THEN wsInterface ELSE 0
      BY <1>0, <2>1, <2>2, <2>4 DEF ToldInv, PtrInv
    <2> QED  BY <1>0, <2>2, <2>4, <2>5 DEF ToldInv, Sending
  <1>2. CASE SendClosed /\ cursor <= n
    <2>1. PICK k \in 1..n : k = cursor
      BY <1>0, <1>2
    <2>2. /\ mainPc = "sendClose" /\ UNCHANGED mainPc /\ cursor' = k + 1
          /\ Deliver(allConnections[k], Closed(interface))
      BY <1>0, <1>2, <2>1 DEF SendClosed, Broadcast
    <2>3. Closed(interface) \in Note /\ interface # 0
      BY <2>2, BoundsAssumption
         DEF BoundsAssumption, PtrInv, TypeOK, Closed, Note, Interface
    <2>4. /\ conn[allConnections[k]] = "open" => Told(allConnections[k])' = 0
          /\ \A i \in 1..n : i # k => Told(allConnections[i])' = Told(allConnections[i])
          /\ \A d \in Conns : conn[d] \in Early => feed'[d] = feed[d]
      BY <1>0, <2>1, <2>2, <2>3, ToldTurn DEF Closed
    <2>5. \A i \in 1..n : conn[allConnections[i]] = "open" =>
             Told(allConnections[i])' = IF i < k + 1 THEN 0 ELSE interface
      BY <1>0, <2>1, <2>2, <2>4 DEF ToldInv, PtrInv
    <2> QED  BY <1>0, <2>2, <2>4, <2>5 DEF ToldInv, Sending
  <1>3. CASE cursor > n
    <2>1. /\ mainPc \in Sending /\ mainPc' \notin Sending /\ UNCHANGED feed
      BY <1>0, <1>3 DEF SendOpened, SendClosed, Broadcast, Sending
    <2>2. \A d \in Conns : conn[d] = "open" => Told(d) = wsInterface
      <3> TAKE d \in Conns
      <3> HAVE conn[d] = "open"
      <3>1. PICK i \in 1..n : allConnections[i] = d
        BY DEF ListInv
      <3>2. i < cursor
        BY <1>0, <1>3
      <3> QED  BY <3>1, <3>2, <2>1 DEF ToldInv, PtrInv, Sending
    <2>3. \A d \in Conns : Told(d)' = Told(d)
      BY <2>1, ToldSame
    <2> QED  BY <1>0, <2>1, <2>2, <2>3 DEF ToldInv, Sending
  <1> QED  BY <1>0, <1>1, <1>2, <1>3

(* The greeting tells a new connection what the server holds; no broadcast  *)
(* is under way, since its thread has the lock.                             *)
LEMMA ToldGreet ==
    ASSUME TypeOK, MutexInv, ToldInv, NEW c \in Conns, OpenGreet(c)
    PROVE  ToldInv'
  <1>1. mainPc \notin Sending /\ mainPc' = mainPc
    BY ConnsAssumption DEF ConnsAssumption, MutexInv, OpenGreet, ConnUnchanged, mainVars
  <1>2. feed[c] = <<>>
    BY DEF OpenGreet, ToldInv, Early
  <1>3. Told(c)' = wsInterface
    <2>1. CASE wsInterface = 0
      BY <1>2, <2>1 DEF OpenGreet, Told
    <2>2. CASE wsInterface # 0
      <3>1. Opened(wsInterface) \in Note
        BY <2>2, BoundsAssumption DEF BoundsAssumption, TypeOK, Opened, Note, Interface
      <3>2. feed'[c] = Append(feed[c], Opened(wsInterface))
        BY <2>2 DEF OpenGreet, TypeOK
      <3> QED  BY <3>1, <3>2, ToldAppend DEF Opened
    <2> QED  BY <2>1, <2>2
  <1>4. \A d \in Conns \ {c} : feed'[d] = feed[d] /\ conn'[d] = conn[d]
    BY DEF OpenGreet, TypeOK
  <1>5. \A d \in Conns \ {c} : Told(d)' = Told(d)
    BY <1>4, ToldSame
  <1>6. conn'[c] = "open" /\ UNCHANGED wsInterface
    BY DEF OpenGreet, ConnUnchanged, TypeOK
  <1> QED  BY <1>1, <1>3, <1>4, <1>5, <1>6 DEF ToldInv, Early, Sending

(* Registering a connection happens outside every broadcast and tells       *)
(* nobody anything.                                                         *)
LEMMA ToldRegister ==
    ASSUME TypeOK, MutexInv, ToldInv, NEW c \in Conns, OpenRegister(c)
    PROVE  ToldInv'
  <1>1. mainPc \notin Sending /\ mainPc' = mainPc
    BY DEF MutexInv, OpenRegister, ConnUnchanged, mainVars, Main, Free
  <1>2. UNCHANGED <<feed, wsInterface>>
    BY DEF OpenRegister, ConnUnchanged
  <1>3. /\ conn[c] = "accepted" /\ conn'[c] = "registered"
        /\ \A d \in Conns \ {c} : conn'[d] = conn[d]
    BY DEF OpenRegister, TypeOK
  <1>4. \A d \in Conns : Told(d)' = Told(d)
    BY <1>2, ToldSame
  <1> QED  BY <1>1, <1>2, <1>3, <1>4 DEF ToldInv, Early, Sending

(* Every step keeps open connections informed, up to the cursor of a        *)
(* broadcast under way.                                                     *)
LEMMA ToldStep ==
    ASSUME TypeOK, PtrInv, MutexInv, ListInv, ToldInv, [Next]_vars
    PROVE  ToldInv'
  <1> USE DEF sharedVars, connVars, mainVars
  <1>1. CASE \/ MainOpen \/ LocalOnGameOpened \/ LocalOnGameClosed \/ MainCheck
             \/ MainPoll \/ MainDestroy \/ MainStop \/ MainJoin \/ MainReturn
    <2>1. /\ UNCHANGED <<feed, conn, wsInterface, allConnections>>
          /\ mainPc \notin Sending /\ mainPc' \notin Sending
      BY <1>1 DEF MainOpen, LocalOnGameOpened, LocalOnGameClosed, MainCheck, MainPoll,
         MainDestroy, MainStop, MainJoin, MainReturn, Sending
    <2>2. \A d \in Conns : Told(d)' = Told(d)
      BY <2>1, ToldSame
    <2> QED  BY <2>1, <2>2 DEF ToldInv, Sending
  <1>2. CASE OnGameOpened \/ OnGameClosed
    BY <1>2, ToldStart
  <1>3. CASE SendOpened \/ SendClosed
    BY <1>3, ToldSend
  <1>4. CASE Signal \/ Game \/ UNCHANGED vars
    BY <1>4, ToldKept DEF Signal, Game, vars, ToldInv
  <1>5. ASSUME NEW c \in Conns, ConnStep(c) \/ Submit(c)
        PROVE  ToldInv'
    <2> USE DEF ConnUnchanged
    <2>1. CASE OpenRegister(c)
      BY <2>1, ToldRegister
    <2>2. CASE OpenGreet(c)
      BY <2>2, ToldGreet
    <2>3. CASE OnConnection(c) \/ HandshakeFail(c)
      BY <2>3, ToldKept DEF OnConnection, HandshakeFail, ToldInv, TypeOK, Early
    <2>4. CASE Reply(c) \/ OnClose(c)
      BY <2>4, ToldKept DEF Reply, OnClose, ToldInv, TypeOK, Early
    <2>5. CASE \/ Submit(c) \/ TextMessage(c) \/ SendReturn(c) \/ PathMessage(c)
               \/ PathRead(c) \/ OtherBinaryMessage(c) \/ ParseMessage(c)
               \/ ParseSection(c) \/ SendSpins(c)
      BY <2>5, ToldKept DEF Submit, TextMessage, SendReturn, PathMessage, PathRead,
         OtherBinaryMessage, ParseMessage, ParseSection, SendSpins, ToldInv
    <2> QED  BY <1>5, <2>1, <2>2, <2>3, <2>4, <2>5 DEF ConnStep
  <1> QED
    BY NextCases, <1>1, <1>2, <1>3, <1>4, <1>5

(* Whoever is connected has been told exactly which game is open.           *)
THEOREM FeedIsCurrent == Spec => []FeedCurrent
  <1>1. /\ TypeOK /\ PtrInv /\ MutexInv /\ ListInv /\ ToldInv /\ [Next]_vars
        => (ListInv /\ ToldInv)'
    BY ListStep, ToldStep
  <1>2. MutexInv /\ ToldInv => FeedCurrent
    BY DEF MutexInv, ToldInv, FeedCurrent, Sending, Main, Free
  <1> QED  BY <1>1, <1>2, ListInit, TypeCorrect, LockDiscipline, PTL DEF Spec

-----------------------------------------------------------------------------
(* The order of the announcements.                                          *)

(* OnGameOpened of a later game may follow OnGameClosed, or come first.     *)
LEMMA AlternatesOpened ==
    ASSUME NEW f \in Seq(Note), Alternates(f), NEW g \in Interface,
           f = <<>> \/ (f[Len(f)].kind # "OnGameOpened" /\ f[Len(f)].game < g)
    PROVE  Alternates(Append(f, Opened(g)))
  <1> DEFINE h == Append(f, Opened(g))
  <1>1. /\ Len(h) = Len(f) + 1 /\ Len(f) \in Nat
        /\ \A i \in 1..Len(f) : h[i] = f[i]
        /\ h[Len(f) + 1] = Opened(g)
    OBVIOUS
  <1>2. h[1].kind = "OnGameOpened"
    <2>1. CASE f = <<>>
      BY <1>1, <2>1 DEF Opened
    <2>2. CASE f # <<>>
      BY <1>1, <2>2 DEF Alternates
    <2> QED  BY <2>1, <2>2
  <1>3. ASSUME NEW i \in 1..Len(f)
        PROVE  IF h[i].kind = "OnGameOpened"
               THEN h[i+1] = Closed(h[i].game)
               ELSE h[i+1].kind = "OnGameOpened" /\ h[i].game < h[i+1].game
    <2>1. CASE i < Len(f)
      BY <1>1, <2>1 DEF Alternates
    <2>2. CASE i = Len(f)
      BY <1>1, <2>2 DEF Opened
    <2> QED  BY <1>1, <2>1, <2>2
  <1> HIDE DEF h
  <1>4. \A i \in 1..(Len(h) - 1) :
           IF h[i].kind = "OnGameOpened"
           THEN h[i+1] = Closed(h[i].game)
           ELSE h[i+1].kind = "OnGameOpened" /\ h[i].game < h[i+1].game
    BY <1>1, <1>3
  <1>5. Alternates(h)
    BY <1>2, <1>4 DEF Alternates
  <1> QED  BY <1>5 DEF h

(* OnGameClosed of a game may follow OnGameOpened of that game.             *)
LEMMA AlternatesClosed ==
    ASSUME NEW f \in Seq(Note), Alternates(f), NEW g \in Interface,
           f # <<>>, f[Len(f)] = Opened(g)
    PROVE  Alternates(Append(f, Closed(g)))
  <1> DEFINE h == Append(f, Closed(g))
  <1>1. /\ Len(h) = Len(f) + 1 /\ Len(f) \in Nat
        /\ \A i \in 1..Len(f) : h[i] = f[i]
        /\ h[Len(f) + 1] = Closed(g)
    OBVIOUS
  <1>2. h[1].kind = "OnGameOpened"
    BY <1>1 DEF Alternates
  <1>3. ASSUME NEW i \in 1..Len(f)
        PROVE  IF h[i].kind = "OnGameOpened"
               THEN h[i+1] = Closed(h[i].game)
               ELSE h[i+1].kind = "OnGameOpened" /\ h[i].game < h[i+1].game
    <2>1. CASE i < Len(f)
      BY <1>1, <2>1 DEF Alternates
    <2>2. CASE i = Len(f)
      BY <1>1, <2>2 DEF Opened
    <2> QED  BY <1>1, <2>1, <2>2
  <1> HIDE DEF h
  <1>4. \A i \in 1..(Len(h) - 1) :
           IF h[i].kind = "OnGameOpened"
           THEN h[i+1] = Closed(h[i].game)
           ELSE h[i+1].kind = "OnGameOpened" /\ h[i].game < h[i+1].game
    BY <1>1, <1>3
  <1>5. Alternates(h)
    BY <1>2, <1>4 DEF Alternates
  <1> QED  BY <1>5 DEF h

(* What Told says of the last announcement.                                 *)
LEMMA ToldLast ==
    ASSUME TypeOK, NEW c \in Conns
    PROVE  /\ Told(c) = 0 => feed[c] = <<>> \/ feed[c][Len(feed[c])].kind # "OnGameOpened"
           /\ Told(c) # 0 => feed[c] # <<>> /\ feed[c][Len(feed[c])] = Opened(Told(c))
  <1> DEFINE f == feed[c]
  <1>1. f \in Seq(Note)
    BY DEF TypeOK
  <1>2. f # <<>> => f[Len(f)] \in Note
    BY <1>1
  <1>3. \A note \in Note : note.kind = "OnGameOpened" =>
           note = Opened(note.game) /\ note.game # 0
    BY BoundsAssumption DEF BoundsAssumption, Note, Opened, Interface
  <1> QED  BY <1>2, <1>3 DEF Told

(* The bounds that FeedInv puts on the games one feed mentions.             *)
LEMMA FeedSendStep ==
    ASSUME TypeOK, PtrInv, ToldInv, FeedInv, SendOpened \/ SendClosed
    PROVE  FeedInv'
  <1>1. /\ UNCHANGED <<games, interface, conn, allConnections>>
        /\ mainPc' \notin Opening
        /\ mainPc' = "sendOpen" => mainPc = "sendOpen"
        /\ interface = games /\ interface \in Interface
    BY BoundsAssumption
       DEF BoundsAssumption, SendOpened, SendClosed, Broadcast, PtrInv, TypeOK, Interface, Opening
  <1>2. CASE UNCHANGED feed
    <2>1. \A d \in Conns : Told(d)' = Told(d)
      BY <1>2, ToldSame
    <2> QED  BY <1>1, <1>2, <2>1 DEF FeedInv, FeedAlternates
  <1>3. ASSUME NEW note \in Note, NEW c \in Conns, conn[c] = "open",
               feed' = [feed EXCEPT ![c] = Append(@, note)],
               Alternates(Append(feed[c], note)), note.game = games,
               mainPc = "sendOpen" => note = Opened(interface)
        PROVE  FeedInv'
    <2>1. \A d \in Conns \ {c} : feed'[d] = feed[d] /\ Told(d)' = Told(d)
      BY <1>3, ToldSame DEF TypeOK
    <2>2. feed'[c] = Append(feed[c], note) /\ feed[c] \in Seq(Note)
      BY <1>3 DEF TypeOK
    <2>3. FeedAlternates'
      BY <1>3, <2>1, <2>2 DEF FeedInv, FeedAlternates
    <2>4. mainPc = "sendOpen" => Told(c)' # 0
      BY <1>1, <1>3, <2>2, ToldAppend, BoundsAssumption
         DEF BoundsAssumption, Opened, Interface
    <2>5. \A i \in 1..Len(feed'[c]) : feed'[c][i].game <= games
      <3> TAKE i \in 1..Len(feed'[c])
      <3>1. CASE i \in 1..Len(feed[c])
        BY <2>2, <3>1 DEF FeedInv
      <3>2. CASE i = Len(feed[c]) + 1
        BY <1>1, <1>3, <2>2, <3>2, BoundsAssumption DEF BoundsAssumption, Interface
      <3> QED  BY <2>2, <3>1, <3>2
    <2> QED  BY <1>1, <2>1, <2>3, <2>4, <2>5 DEF FeedInv
  <1>4. ASSUME feed' # feed
        PROVE  FeedInv'
    <2>1. PICK k \in 1..Len(allConnections) :
             /\ k = cursor
             /\ mainPc = "sendOpen" => Deliver(allConnections[k], Opened(interface))
             /\ mainPc = "sendClose" => Deliver(allConnections[k], Closed(interface))
             /\ mainPc \in Sending
      <3>1. cursor \in Nat \ {0} /\ Len(allConnections) \in Nat
        BY DEF TypeOK
      <3>2. CASE SendOpened
        <4>1. /\ mainPc = "sendOpen" /\ cursor <= Len(allConnections)
              /\ Deliver(allConnections[cursor], Opened(interface))
          BY <1>4, <3>2 DEF SendOpened, Broadcast
        <4> QED  BY <3>1, <4>1 DEF Sending
      <3>3. CASE SendClosed
        <4>1. /\ mainPc = "sendClose" /\ cursor <= Len(allConnections)
              /\ Deliver(allConnections[cursor], Closed(interface))
          BY <1>4, <3>3 DEF SendClosed, Broadcast
        <4> QED  BY <3>1, <4>1 DEF Sending
      <3> QED  BY <3>2, <3>3
    <2>2. PICK c \in Conns : c = allConnections[k]
      BY DEF TypeOK
    <2>3. conn[c] = "open"
      BY <1>4, <2>1, <2>2 DEF Deliver, Sending
    <2>4. CASE mainPc = "sendOpen"
      <3>1. Told(c) = 0
        <4>1. \A i \in 1..Len(allConnections) : conn[allConnections[i]] = "open" =>
                 Told(allConnections[i]) = IF i < cursor THEN wsInterface ELSE 0
          BY <2>4 DEF ToldInv
        <4>2. Told(allConnections[k]) = IF k < cursor THEN wsInterface ELSE 0
          BY <2>2, <2>3, <4>1
        <4>3. ~(k < cursor)
          BY <2>1
        <4> QED  BY <2>2, <4>2, <4>3
      <3>2. feed[c] \in Seq(Note) /\ Alternates(feed[c])
        BY DEF TypeOK, FeedInv, FeedAlternates
      <3>3. feed[c] = <<>> \/ (/\ feed[c][Len(feed[c])].kind # "OnGameOpened"
                               /\ feed[c][Len(feed[c])].game < interface)
        BY <1>1, <2>4, <3>1, <3>2, ToldLast DEF FeedInv
      <3>4. Alternates(Append(feed[c], Opened(interface)))
        BY <1>1, <3>2, <3>3, AlternatesOpened
      <3>5. Opened(interface) \in Note /\ Opened(interface).game = games
        BY <1>1 DEF Opened, Note
      <3> QED  BY <1>3, <2>1, <2>2, <2>3, <2>4, <3>4, <3>5 DEF Deliver
    <2>5. CASE mainPc = "sendClose"
      <3>1. Told(c) = interface
        <4>1. \A i \in 1..Len(allConnections) : conn[allConnections[i]] = "open" =>
                 Told(allConnections[i]) = IF i < cursor THEN 0 ELSE interface
          BY <2>5 DEF ToldInv
        <4>2. Told(allConnections[k]) = IF k < cursor THEN 0 ELSE interface
          BY <2>2, <2>3, <4>1
        <4>3. ~(k < cursor)
          BY <2>1
        <4> QED  BY <2>2, <4>2, <4>3
      <3>2. feed[c] \in Seq(Note) /\ Alternates(feed[c])
        BY DEF TypeOK, FeedInv, FeedAlternates
      <3>3. feed[c] # <<>> /\ feed[c][Len(feed[c])] = Opened(interface)
        BY <1>1, <3>1, ToldLast, BoundsAssumption DEF BoundsAssumption, Interface
      <3>4. Alternates(Append(feed[c], Closed(interface)))
        BY <1>1, <3>2, <3>3, AlternatesClosed
      <3>5. Closed(interface) \in Note /\ Closed(interface).game = games
        BY <1>1 DEF Closed, Note
      <3> QED  BY <1>3, <2>1, <2>2, <2>3, <2>5, <3>4, <3>5 DEF Deliver
    <2> QED  BY <2>1, <2>4, <2>5 DEF Sending
  <1> QED  BY <1>2, <1>4

(* The greeting starts a feed, with OnGameOpened if with anything.          *)
LEMMA FeedGreetStep ==
    ASSUME TypeOK, PtrInv, MutexInv, ThreadInv, ToldInv, FeedInv,
           NEW c \in Conns, OpenGreet(c)
    PROVE  FeedInv'
  <1>1. /\ mainPc \notin Sending /\ mainPc' = mainPc
        /\ UNCHANGED <<games, interface, wsInterface>>
    BY ConnsAssumption DEF ConnsAssumption, MutexInv, OpenGreet, ConnUnchanged, mainVars
  <1>2. feed[c] = <<>>
    BY DEF OpenGreet, ToldInv, Early
  <1>3. CASE wsInterface = 0
    <2>1. UNCHANGED feed
      BY <1>3 DEF OpenGreet
    <2>2. \A d \in Conns : Told(d)' = Told(d)
      BY <2>1, ToldSame
    <2> QED  BY <1>1, <2>1, <2>2 DEF FeedInv, FeedAlternates
  <1>4. CASE wsInterface # 0
    <2>0. mainPc # "done"
      BY DEF ThreadInv, OpenGreet
    <2>1. /\ wsInterface = games /\ wsInterface \in Interface /\ mainPc \notin Opening
      BY <1>1, <1>4, <2>0, BoundsAssumption
         DEF BoundsAssumption, PtrInv, TypeOK, MainPc, Interface, Opening, Sending
    <2>2. feed' = [feed EXCEPT ![c] = <<Opened(wsInterface)>>]
      BY <1>2, <1>4 DEF OpenGreet
    <2>3. \A d \in Conns \ {c} : feed'[d] = feed[d]
      BY <2>2 DEF TypeOK
    <2>4. feed'[c] = <<Opened(wsInterface)>>
      BY <2>2 DEF TypeOK
    <2>5. Alternates(feed'[c])
      BY <2>4 DEF Alternates, Opened
    <2>6. \A i \in 1..Len(feed'[c]) : feed'[c][i].game = games
      BY <2>1, <2>4 DEF Opened
    <2>7. FeedAlternates'
      BY <2>3, <2>5 DEF FeedInv, FeedAlternates
    <2>8. games \in Nat /\ mainPc' # "sendOpen" /\ mainPc' \notin Opening
      BY <1>1, <2>1, BoundsAssumption DEF BoundsAssumption, TypeOK, Sending
    <2>9. \A d \in Conns : \A i \in 1..Len(feed'[d]) : feed'[d][i].game <= games
      BY <2>3, <2>6, <2>8 DEF FeedInv
    <2> QED  BY <1>1, <2>7, <2>8, <2>9 DEF FeedInv
  <1> QED  BY <1>3, <1>4

(* Every step keeps the feeds alternating and their games in bounds.        *)
LEMMA FeedStep ==
    ASSUME TypeOK, PtrInv, MutexInv, ThreadInv, ToldInv, FeedInv, [Next]_vars
    PROVE  FeedInv'
  <1>1. ASSUME UNCHANGED feed
        PROVE  FeedAlternates' /\ \A d \in Conns : Told(d)' = Told(d)
    BY <1>1, ToldSame DEF FeedInv, FeedAlternates
  <1>2. CASE MainOpen
    <2>1. UNCHANGED feed /\ games' = games + 1 /\ games \in Nat
      BY <1>2, BoundsAssumption DEF BoundsAssumption, MainOpen, connVars, TypeOK
    <2>2. \A d \in Conns : \A i \in 1..Len(feed[d]) :
             feed[d][i].game <= games /\ feed[d][i].game \in Nat
      <3>1. \A d \in Conns : \A i \in 1..Len(feed[d]) : feed[d][i] \in Note
        BY DEF TypeOK
      <3> QED  BY <3>1, BoundsAssumption
               DEF BoundsAssumption, FeedInv, Note, Interface
    <2>3. \A d \in Conns : \A i \in 1..Len(feed[d]) : feed[d][i].game < games + 1
      BY <2>1, <2>2
    <2>4. \A d \in Conns : \A i \in 1..Len(feed[d]) : feed[d][i].game <= games + 1
      BY <2>1, <2>2
    <2> QED  BY <1>1, <2>1, <2>3, <2>4 DEF FeedInv
  <1>3. CASE OnGameOpened
    <2>1. /\ UNCHANGED <<feed, games>> /\ mainPc = "lockOpen" /\ mainPc' = "sendOpen"
      BY <1>3 DEF OnGameOpened, connVars
    <2> QED  BY <1>1, <2>1 DEF FeedInv, Opening
  <1>4. CASE LocalOnGameOpened
    <2>1. /\ UNCHANGED <<feed, games>> /\ mainPc = "localOpen" /\ mainPc' = "lockOpen"
      BY <1>4 DEF LocalOnGameOpened, connVars
    <2> QED  BY <1>1, <2>1 DEF FeedInv, Opening
  <1>5. CASE \/ LocalOnGameClosed \/ OnGameClosed \/ MainCheck
             \/ MainPoll \/ MainDestroy \/ MainStop \/ MainJoin \/ MainReturn
    <2>1. /\ UNCHANGED <<feed, games>>
          /\ mainPc' = mainPc \/ mainPc' \notin Opening \cup {"sendOpen"}
      BY <1>5 DEF LocalOnGameClosed, OnGameClosed, MainCheck, MainPoll, MainDestroy,
         MainStop, MainJoin, MainReturn, connVars, Opening
    <2> QED  BY <1>1, <2>1 DEF FeedInv
  <1>6. CASE SendOpened \/ SendClosed
    BY <1>6, FeedSendStep
  <1>7. CASE Signal \/ Game \/ UNCHANGED vars
    <2>1. UNCHANGED <<feed, games, mainPc>>
      BY <1>7 DEF Signal, Game, vars, mainVars, connVars
    <2> QED  BY <1>1, <2>1 DEF FeedInv
  <1>8. ASSUME NEW c \in Conns, ConnStep(c) \/ Submit(c)
        PROVE  FeedInv'
    <2>1. CASE OpenGreet(c)
      BY <2>1, FeedGreetStep
    <2>2. CASE ~OpenGreet(c)
      <3>1. UNCHANGED <<feed, games, mainPc>>
        BY <1>8, <2>2 DEF ConnStep, Submit, OnConnection, HandshakeFail, OpenRegister,
           TextMessage, SendReturn, PathMessage, PathRead, OtherBinaryMessage,
           ParseMessage, ParseSection, SendSpins, Reply, OnClose, ConnUnchanged, mainVars
      <3> QED  BY <1>1, <3>1 DEF FeedInv
    <2> QED  BY <2>1, <2>2
  <1> QED
    BY NextCases, <1>2, <1>3, <1>4, <1>5, <1>6, <1>7, <1>8

(* Every inductive part at once, for the theorems below.                    *)
THEOREM Inductive == Spec => [](TypeOK /\ IInv)
  <1>1. Init => TypeOK /\ IInv
    <2>1. ASSUME Init PROVE FeedInv
      BY <2>1 DEF Init, FeedInv, FeedAlternates, Alternates
    <2> QED  BY <2>1, InitType, PtrInit, MutexInit, ListInit DEF IInv
  <1>2. TypeOK /\ IInv /\ [Next]_vars => (TypeOK /\ IInv)'
    BY TypeStep, PtrStep, MutexStep, ThreadStep, ListStep, ToldStep, FeedStep DEF IInv
  <1> QED  BY <1>1, <1>2, PTL DEF Spec

(* Every connection hears OnGameOpened and OnGameClosed in turn, each       *)
(* closing naming the game just opened, each opening a later game.          *)
THEOREM FeedsAlternate == Spec => []FeedAlternates
  <1>1. IInv => FeedAlternates
    BY DEF IInv, FeedInv
  <1> QED  BY <1>1, Inductive, PTL

-----------------------------------------------------------------------------
(* Webapps that wait for the announcement.                                  *)

(* As long as no game was withdrawn, whoever has sent anything was told of  *)
(* the game, and a call is made on the object main holds.                   *)
PatientInv ==
    Patient = Conns /\ ~Withdrawn =>
        /\ \A c \in Conns : pending[c] > 0 \/ thread[c] # "idle" => feed[c] # <<>>
        /\ \A c \in Conns : thread[c] \in {"calling", "path"} => callee[c] = interface
        /\ BadPointer => engine = "ddeNoPid"

(* What was withdrawn stays so.                                             *)
LEMMA WithdrawnStays ==
    ASSUME TypeOK, PtrInv, Withdrawn, [Next]_vars
    PROVE  Withdrawn'
  <1> USE BoundsAssumption DEF BoundsAssumption, Withdrawn, TypeOK
  <1>1. CASE MainOpen
    BY <1>1 DEF MainOpen
  <1>2. CASE \/ LocalOnGameOpened \/ OnGameOpened \/ MainCheck \/ MainPoll
             \/ LocalOnGameClosed \/ OnGameClosed \/ MainStop \/ MainJoin \/ MainReturn
    BY <1>2 DEF LocalOnGameOpened, OnGameOpened, MainCheck, MainPoll,
       LocalOnGameClosed, OnGameClosed, MainStop, MainJoin, MainReturn
  <1>3. CASE SendOpened \/ SendClosed
    BY <1>3 DEF SendOpened, SendClosed, Broadcast
  <1>4. CASE MainDestroy
    BY <1>4 DEF MainDestroy, PtrInv
  <1>5. CASE \/ Signal \/ Game \/ UNCHANGED vars
             \/ \E c \in Conns : ConnStep(c) \/ Submit(c)
    <2>1. UNCHANGED <<games, interface, mainPc>>
      BY <1>5 DEF Signal, Game, ConnStep, Submit, OnConnection, HandshakeFail,
         OpenRegister, OpenGreet, TextMessage, SendReturn, PathMessage, PathRead,
         OtherBinaryMessage, ParseMessage, ParseSection, SendSpins, Reply, OnClose,
         ConnUnchanged, mainVars, vars
    <2> QED  BY <2>1
  <1> QED  BY NextCases, <1>1, <1>2, <1>3, <1>4, <1>5

(* Until then both servers hold main's pointer while a connection that was  *)
(* told of a game is open.                                                  *)
LEMMA ToldOfAGame ==
    ASSUME TypeOK, IInv, ~Withdrawn, NEW c \in Conns, conn[c] = "open", feed[c] # <<>>
    PROVE  interface # 0 /\ wsInterface = interface /\ lsInterface = interface
  <1> USE BoundsAssumption DEF BoundsAssumption, IInv
  <1>1. 1 \in 1..Len(feed[c]) /\ feed[c][1] \in Note
    BY DEF TypeOK
  <1>2. feed[c][1].game \in Nat /\ 1 <= feed[c][1].game /\ feed[c][1].game <= games
    BY <1>1 DEF FeedInv, Note, Interface
  <1>3. games = 1 /\ interface # 0 /\ mainPc \notin {"lockClose", "sendClose", "destroy"}
    BY <1>2 DEF Withdrawn, TypeOK
  <1>4. mainPc \notin Opening
    BY <1>1, <1>2, <1>3 DEF FeedInv
  <1>5. mainPc \notin {"join", "done"}
    BY DEF ThreadInv
  <1> QED  BY <1>3, <1>4, <1>5 DEF PtrInv, TypeOK, MainPc, Opening

(* No step of main crashes, but for the constructor that throws, and none   *)
(* takes an announcement back.                                              *)
LEMMA MainIsPatient ==
    ASSUME TypeOK, IInv, PatientInv, ~Withdrawn, ~Withdrawn',
           \/ MainOpen \/ LocalOnGameOpened \/ OnGameOpened \/ SendOpened
           \/ MainCheck \/ MainPoll
           \/ LocalOnGameClosed \/ OnGameClosed \/ SendClosed \/ MainDestroy
           \/ MainStop \/ MainJoin \/ MainReturn,
           ~crashed
    PROVE  PatientInv'
  <1> USE DEF PatientInv, BadPointer
  <1>1. CASE \/ LocalOnGameOpened \/ OnGameOpened \/ MainPoll
             \/ LocalOnGameClosed \/ OnGameClosed \/ MainStop \/ MainJoin
    BY <1>1 DEF LocalOnGameOpened, OnGameOpened, MainPoll, LocalOnGameClosed,
       OnGameClosed, MainStop, MainJoin, connVars, linkVars
  <1>2. CASE MainCheck
    BY <1>2 DEF MainCheck, IsClosedThrows, linkVars, connVars
  <1>3. CASE SendOpened \/ SendClosed
    <2>1. UNCHANGED <<pending, thread, callee, interface, crashed>>
      BY <1>3 DEF SendOpened, SendClosed, Broadcast
    <2>2. \A d \in Conns : feed[d] # <<>> => feed'[d] # <<>>
      <3>1. ASSUME NEW d \in Conns, NEW e \in Conns, NEW note, feed[d] # <<>>,
                   feed' = feed \/ feed' = [feed EXCEPT ![e] = Append(@, note)]
            PROVE  feed'[d] # <<>>
        BY <3>1 DEF TypeOK
      <3>2. ASSUME cursor <= Len(allConnections)
            PROVE  allConnections[cursor] \in Conns
        BY <3>2 DEF TypeOK
      <3> QED  BY <1>3, <3>1, <3>2 DEF SendOpened, SendClosed, Broadcast, Deliver
    <2> QED  BY <2>1, <2>2
  <1>4. CASE MainOpen \/ MainDestroy \/ MainReturn
    <2>1. UNCHANGED <<pending, thread, callee, feed, crashed>>
      BY <1>4 DEF MainOpen, MainDestroy, MainReturn, connVars
    <2>2. games = 0
      BY <1>4, BoundsAssumption
         DEF BoundsAssumption, MainOpen, MainDestroy, MainReturn, Withdrawn, TypeOK
    <2>3. ASSUME NEW c \in Conns, feed[c] # <<>>
          PROVE  FALSE
      <3>1. 1 \in 1..Len(feed[c]) /\ feed[c][1] \in Note
        BY <2>3 DEF TypeOK
      <3>2. feed[c][1].game \in 1..MaxGames /\ feed[c][1].game <= 0
        BY <2>2, <3>1 DEF IInv, FeedInv, Note, Interface
      <3> QED  BY <3>2, BoundsAssumption DEF BoundsAssumption
    <2> QED  BY <1>4, <2>1, <2>3
  <1> QED  BY <1>1, <1>2, <1>3, <1>4

(* No webapp gets there either: it sends after it was told, and its request *)
(* meets the pointers main's interface has.                                 *)
LEMMA ConnIsPatient ==
    ASSUME TypeOK, IInv, PatientInv, ~Withdrawn, Patient = Conns, ~crashed,
           NEW c \in Conns, ConnStep(c) \/ Submit(c)
    PROVE  PatientInv'
  <1> USE DEF PatientInv, BadPointer, TypeOK, ConnUnchanged, mainVars
  <1>1. CASE OnConnection(c) \/ HandshakeFail(c) \/ OpenRegister(c) \/ OnClose(c)
    BY <1>1 DEF OnConnection, HandshakeFail, OpenRegister, OnClose
  <1>2. CASE OpenGreet(c)
    <2>1. PICK note : feed' = feed \/ feed' = [feed EXCEPT ![c] = Append(@, note)]
      BY <1>2 DEF OpenGreet
    <2>2. \A d \in Conns : feed[d] # <<>> => feed'[d] # <<>>
      BY <2>1
    <2> QED  BY <1>2, <2>2 DEF OpenGreet
  <1>3. CASE Submit(c)
    <2>1. feed[c] # <<>>
      BY <1>3 DEF Submit, Told
    <2> QED  BY <1>3, <2>1 DEF Submit
  <1>4. CASE TextMessage(c) \/ PathMessage(c) \/ OtherBinaryMessage(c) \/ ParseMessage(c)
    <2> USE DEF TextMessage, PathMessage, OtherBinaryMessage, ParseMessage
    <2>1. conn[c] = "open" /\ feed[c] # <<>>
      BY <1>4 DEF Take
    <2>2. interface # 0 /\ wsInterface = interface /\ lsInterface = interface
      BY <2>1, ToldOfAGame
    <2>3. \A d \in Conns : pending'[d] > 0 => pending[d] > 0
      BY <1>4 DEF Take
    <2>4. UNCHANGED <<feed, interface>>
      BY <1>4
    <2>5. \A d \in Conns : d # c => UNCHANGED <<thread[d], callee[d]>>
      BY <1>4, <2>2 DEF Throw
    <2>6. thread'[c] \in {"calling", "path"} => callee'[c] = interface
      BY <1>4, <2>2 DEF AfterSend, Results, Throw
    <2>7. crashed' => thread'[c] = "threw"
      BY <1>4, <2>2 DEF Throw
    <2> QED  BY <2>1, <2>3, <2>4, <2>5, <2>6, <2>7
  <1>5. CASE SendReturn(c) \/ PathRead(c)
    <2>1. conn[c] = "open" /\ feed[c] # <<>> /\ callee[c] = interface
      BY <1>5 DEF SendReturn, PathRead, IInv, ThreadInv
    <2>2. lsInterface = interface
      BY <2>1, ToldOfAGame
    <2>3. UNCHANGED <<feed, interface, crashed, pending, callee>>
      BY <1>5, <2>1, <2>2 DEF SendReturn, PathRead
    <2>4. \A d \in Conns : d # c => UNCHANGED thread[d]
      BY <1>5 DEF SendReturn, PathRead
    <2> QED  BY <2>1, <2>3, <2>4
  <1>6. CASE Reply(c)
    BY <1>6 DEF Reply
  <1>7. CASE ParseSection(c) \/ SendSpins(c)
    BY <1>7 DEF ParseSection, SendSpins
  <1> QED  BY <1>1, <1>2, <1>3, <1>4, <1>5, <1>6, <1>7 DEF ConnStep

(* Webapps that wait for OnGameOpened, and wait again after OnGameClosed,   *)
(* make the server follow a null or dead pointer only once a game was       *)
(* withdrawn.                                                               *)
THEOREM PatientUntilClose == Spec => []OnlyCloseCrashes
  <1>1. Init => PatientInv
    BY DEF Init, PatientInv, BadPointer
  <1>2. TypeOK /\ IInv /\ PatientInv /\ [Next]_vars => PatientInv'
    <2> SUFFICES ASSUME TypeOK, IInv, PatientInv, [Next]_vars,
                        Patient = Conns, ~Withdrawn'
                 PROVE  PatientInv'
      BY DEF PatientInv
    <2>1. ~Withdrawn
      BY WithdrawnStays DEF IInv
    <2>2. CASE Signal \/ Game \/ UNCHANGED vars
      BY <2>1, <2>2
         DEF PatientInv, BadPointer, Signal, Game, GameStart, GameExit, vars, mainVars,
             connVars, linkVars
    <2>3. CASE crashed
      BY <2>2, <2>3 DEF Next, Halted
    <2> QED  BY <2>1, <2>2, <2>3, NextCases, MainIsPatient, ConnIsPatient
  <1>3. PatientInv => OnlyCloseCrashes
    BY DEF PatientInv, OnlyCloseCrashes
  <1> QED  BY <1>1, <1>2, <1>3, Inductive, PTL DEF Spec

-----------------------------------------------------------------------------
(* Refinement.                                                              *)

(* The initial states are initial states of GameFeed.                       *)
LEMMA FeedRefInit ==
    ASSUME Init
    PROVE  Feed!Init
  BY DEF Init, Feed!Init, Told

(* The step leaves the abstract state as it is.                             *)
LEMMA Stutter ==
    ASSUME UNCHANGED <<feed, wsInterface, games>>,
           (mainPc \in Opening) <=> (mainPc' \in Opening),
           \A d \in Conns : conn[d] = "open" <=> conn'[d] = "open"
    PROVE  UNCHANGED Feed!feedVars
  <1>1. \A d \in Conns : Told(d)' = Told(d)
    BY ToldSame
  <1> QED  BY <1>1 DEF Feed!feedVars, Opening

(* OnGameOpened taking the lock is OpenGame.                                *)
LEMMA OpenGameStep ==
    ASSUME TypeOK, PtrInv, ToldInv, OnGameOpened
    PROVE  Feed!OpenGame
  <1>1. /\ mainPc = "lockOpen" /\ mainPc' = "sendOpen" /\ wsInterface = 0
        /\ wsInterface' = games /\ UNCHANGED <<games, conn, feed>>
        /\ games \in Nat
    BY BoundsAssumption
       DEF BoundsAssumption, OnGameOpened, PtrInv, TypeOK, connVars
  <1>2. \A d \in Conns : Told(d)' = Told(d)
    BY <1>1, ToldSame
  <1>3. \A d \in Conns : conn[d] = "open" => Told(d) = wsInterface
    BY <1>1 DEF ToldInv, Sending
  <1> QED  BY <1>1, <1>2, <1>3 DEF Feed!OpenGame, Feed!UpToDate

(* OnGameClosed taking the lock is CloseGame.                               *)
LEMMA CloseGameStep ==
    ASSUME TypeOK, PtrInv, ToldInv, OnGameClosed
    PROVE  Feed!CloseGame
  <1>1. /\ mainPc = "lockClose" /\ mainPc' = "sendClose" /\ wsInterface # 0
        /\ wsInterface' = 0 /\ UNCHANGED <<games, conn, feed>>
    BY DEF OnGameClosed, PtrInv, connVars
  <1>2. \A d \in Conns : Told(d)' = Told(d)
    BY <1>1, ToldSame
  <1>3. \A d \in Conns : conn[d] = "open" => Told(d) = wsInterface
    BY <1>1 DEF ToldInv, Sending
  <1> QED  BY <1>1, <1>2, <1>3 DEF Feed!CloseGame, Feed!UpToDate

(* A turn of either broadcast brings one subscriber up to date.             *)
LEMMA TellStep ==
    ASSUME TypeOK, PtrInv, ListInv, ToldInv, SendOpened \/ SendClosed
    PROVE  (\E c \in Conns : Feed!Tell(c)) \/ UNCHANGED Feed!feedVars
  <1>1. /\ UNCHANGED <<games, wsInterface, conn, allConnections>>
        /\ mainPc \in Sending /\ mainPc' \notin Opening
    BY DEF SendOpened, SendClosed, Broadcast, Sending, Opening
  <1>2. CASE UNCHANGED feed
    BY <1>1, <1>2, Stutter DEF Sending, Opening
  <1>3. CASE feed' # feed
    <2>1. cursor \in 1..Len(allConnections)
      BY <1>3 DEF SendOpened, SendClosed, Broadcast, TypeOK
    <2>2. PICK c \in Conns : c = allConnections[cursor]
      BY <2>1 DEF TypeOK
    <2>3. PICK note \in {Opened(interface), Closed(interface)} :
             /\ Deliver(c, note)
             /\ note = IF mainPc = "sendOpen" THEN Opened(interface) ELSE Closed(interface)
      BY <1>3, <2>2 DEF SendOpened, SendClosed, Broadcast
    <2>4. /\ conn[c] = "open" /\ feed'[c] = Append(feed[c], note)
          /\ \A d \in Conns \ {c} : feed'[d] = feed[d]
      BY <1>3, <2>3 DEF Deliver, TypeOK
    <2>5. interface \in Interface /\ note \in Note
      BY <1>1, <2>3, BoundsAssumption
         DEF BoundsAssumption, PtrInv, TypeOK, Sending, Interface, Note, Opened, Closed
    <2>6. Told(c)' = IF note.kind = "OnGameOpened" THEN note.game ELSE 0
      BY <2>4, <2>5, ToldAppend
    <2>7. Told(c)' = wsInterface /\ Told(c) # wsInterface
      <3>1. interface # 0 /\ ~(cursor < cursor)
        BY <2>1, <2>5, BoundsAssumption DEF BoundsAssumption, Interface
      <3>2. CASE mainPc = "sendOpen"
        <4>1. Told(c) = 0
          BY <2>1, <2>2, <2>4, <3>1, <3>2 DEF ToldInv
        <4>2. Told(c)' = interface
          BY <2>3, <2>6, <3>2 DEF Opened
        <4> QED  BY <3>1, <3>2, <4>1, <4>2 DEF PtrInv
      <3>3. CASE mainPc = "sendClose"
        <4>1. Told(c) = interface
          BY <2>1, <2>2, <2>4, <3>1, <3>3 DEF ToldInv
        <4>2. Told(c)' = 0
          BY <2>3, <2>6, <3>3 DEF Closed
        <4> QED  BY <3>1, <3>3, <4>1, <4>2 DEF PtrInv
      <3> QED  BY <1>1, <3>2, <3>3 DEF Sending
    <2>8. \A d \in Conns \ {c} : Told(d)' = Told(d)
      BY <2>4, ToldSame
    <2>9. ASSUME NEW d \in Conns
          PROVE  Told(d)' = IF d = c THEN wsInterface ELSE Told(d)
      <3>1. CASE d = c
        BY <2>7, <3>1
      <3>2. CASE d # c
        BY <2>8, <3>2
      <3> QED  BY <3>1, <3>2
    <2>10. mainPc \notin Opening
      BY <1>1 DEF Sending, Opening
    <2> QED  BY <1>1, <2>4, <2>7, <2>9, <2>10 DEF Feed!Tell, Opening
  <1> QED  BY <1>2, <1>3

(* The greeting is Subscribe.                                               *)
LEMMA SubscribeStep ==
    ASSUME TypeOK, MutexInv, ToldInv, NEW c \in Conns, OpenGreet(c)
    PROVE  Feed!Subscribe(c)
  <1>1. /\ UNCHANGED <<games, wsInterface, mainPc>>
        /\ conn[c] = "registered" /\ conn'[c] = "open"
        /\ \A d \in Conns \ {c} : conn'[d] = conn[d] /\ feed'[d] = feed[d]
    BY DEF OpenGreet, ConnUnchanged, mainVars, TypeOK
  <1>2. ToldInv' /\ mainPc \notin Sending
    BY ToldGreet, ConnsAssumption DEF ConnsAssumption, MutexInv, OpenGreet
  <1>3. Told(c)' = wsInterface
    BY <1>1, <1>2 DEF ToldInv
  <1>4. \A d \in Conns \ {c} : Told(d)' = Told(d)
    BY <1>1, ToldSame
  <1> QED  BY <1>1, <1>3, <1>4 DEF Feed!Subscribe

(* The close of an open connection is Unsubscribe.                          *)
LEMMA UnsubscribeStep ==
    ASSUME TypeOK, NEW c \in Conns, Reply(c) \/ OnClose(c)
    PROVE  Feed!Unsubscribe(c) \/ UNCHANGED Feed!feedVars
  <1>1. /\ UNCHANGED <<games, wsInterface, mainPc, feed>>
        /\ \A d \in Conns \ {c} : conn'[d] = conn[d]
        /\ conn'[c] = conn[c] \/ conn'[c] # "open"
    BY DEF Reply, OnClose, ConnUnchanged, mainVars, TypeOK
  <1>2. CASE conn[c] = "open" /\ conn'[c] # "open"
    <2>1. \A d \in Conns : Told(d)' = Told(d)
      BY <1>1, ToldSame
    <2> QED  BY <1>1, <1>2, <2>1 DEF Feed!Unsubscribe
  <1>3. CASE ~(conn[c] = "open" /\ conn'[c] # "open")
    BY <1>1, <1>3, Stutter
  <1> QED  BY <1>2, <1>3

(* Every step is a step of GameFeed or leaves its state alone.              *)
LEMMA FeedRefStep ==
    ASSUME TypeOK, IInv, [Next]_vars
    PROVE  Feed!Next \/ UNCHANGED Feed!feedVars
  <1> USE DEF IInv
  <1>1. CASE MainOpen
    <2>1. /\ UNCHANGED <<feed, wsInterface, conn>> /\ games' = games + 1
          /\ mainPc = "top" /\ mainPc' = "localOpen" /\ games \in Nat
      BY <1>1, BoundsAssumption
         DEF BoundsAssumption, MainOpen, sharedVars, connVars, TypeOK
    <2>2. \A d \in Conns : Told(d)' = Told(d)
      BY <2>1, ToldSame
    <2> QED  BY <2>1, <2>2 DEF Feed!feedVars
  <1>2. CASE OnGameOpened
    BY <1>2, OpenGameStep DEF Feed!Next
  <1>3. CASE OnGameClosed
    BY <1>3, CloseGameStep DEF Feed!Next
  <1>4. CASE SendOpened \/ SendClosed
    BY <1>4, TellStep DEF Feed!Next
  <1>5. CASE \/ LocalOnGameOpened \/ LocalOnGameClosed \/ MainCheck \/ MainPoll
             \/ MainDestroy \/ MainStop \/ MainJoin \/ MainReturn
             \/ Signal \/ Game \/ UNCHANGED vars
    <2>1. /\ UNCHANGED <<feed, wsInterface, games, conn>>
          /\ (mainPc \in Opening) <=> (mainPc' \in Opening)
      BY <1>5 DEF LocalOnGameOpened, LocalOnGameClosed, MainCheck, MainPoll, MainDestroy,
         MainStop, MainJoin, MainReturn, Signal, Game, vars, mainVars, sharedVars,
         connVars, Opening
    <2> QED  BY <2>1, Stutter
  <1>6. ASSUME NEW c \in Conns, ConnStep(c) \/ Submit(c)
        PROVE  Feed!Next \/ UNCHANGED Feed!feedVars
    <2>1. CASE OpenGreet(c)
      BY <2>1, SubscribeStep DEF Feed!Next
    <2>2. CASE Reply(c) \/ OnClose(c)
      BY <2>2, UnsubscribeStep DEF Feed!Next
    <2>3. CASE OnConnection(c) \/ HandshakeFail(c) \/ OpenRegister(c)
      <3>1. /\ UNCHANGED <<feed, wsInterface, games, mainPc>>
            /\ \A d \in Conns : conn[d] = "open" <=> conn'[d] = "open"
        BY <2>3 DEF OnConnection, HandshakeFail, OpenRegister, ConnUnchanged, mainVars, TypeOK
      <3> QED  BY <3>1, Stutter
    <2>4. CASE \/ Submit(c) \/ TextMessage(c) \/ SendReturn(c) \/ PathMessage(c)
               \/ PathRead(c) \/ OtherBinaryMessage(c) \/ ParseMessage(c)
               \/ ParseSection(c) \/ SendSpins(c)
      <3>1. UNCHANGED <<feed, wsInterface, games, mainPc, conn>>
        BY <2>4 DEF Submit, TextMessage, SendReturn, PathMessage, PathRead,
           OtherBinaryMessage, ParseMessage, ParseSection, SendSpins, ConnUnchanged,
           mainVars, sharedVars
      <3> QED  BY <3>1, Stutter
    <2> QED  BY <1>6, <2>1, <2>2, <2>3, <2>4 DEF ConnStep
  <1> QED
    BY NextCases, <1>1, <1>2, <1>3, <1>4, <1>5, <1>6

(* The announcements of NornServer implement GameFeed, for every number of  *)
(* connections and every bound.                                             *)
THEOREM FeedImplemented == Spec => FeedSpec
  <1>1. Init => Feed!Init
    BY FeedRefInit
  <1>2. TypeOK /\ IInv /\ [Next]_vars => [Feed!Next]_(Feed!feedVars)
    BY FeedRefStep
  <1> QED  BY <1>1, <1>2, Inductive, PTL DEF Spec, FeedSpec, Feed!Spec
=============================================================================
