--------------------------- MODULE PosixCallProofs ---------------------------
(***************************************************************************)
(* Proofs about PosixCall, for any set of threads and any number of calls. *)
(***************************************************************************)
EXTENDS PosixCall, TLAPS

(* Two calls that are under way know of each other.                         *)
Overlap ==
    \A t, u \in Threads :
        pc[t] # "idle" /\ pc[u] # "idle" /\ t # u => request[u] \in during[t]

(* Whoever is about to read the buffer finds there an answer to his own     *)
(* call or to one that overlaps it.                                         *)
BufferFresh ==
    \A t \in Threads :
        pc[t] = "copy" => buffer \in {request[t]} \cup during[t]

(* A response holds nothing else, at any point of the call.                 *)
ResponseFresh ==
    \A t \in Threads : response[t] \subseteq {request[t]} \cup during[t]

IInv == TypeOK /\ Overlap /\ BufferFresh /\ ResponseFresh

-----------------------------------------------------------------------------
(* Everything holds initially.                                              *)
LEMMA InitInv ==
    ASSUME Init
    PROVE  IInv
  <1> USE SendsAssumption DEF SendsAssumption, Init, NoOne
  <1>1. TypeOK
    <2>1. /\ during \in [Threads -> SUBSET (0..MaxSends)]
          /\ response \in [Threads -> SUBSET (0..MaxSends)]
      OBVIOUS
    <2>2. /\ pc \in [Threads -> {"idle", "chunk", "spin", "connect", "refused"} \cup Connected]
          /\ answer \in [Threads -> Results \cup {"none"}]
          /\ reply \in [Threads -> {"none", "lost", "part", "whole"}]
          /\ request \in [Threads -> 0..MaxSends]
          /\ sends \in 0..MaxSends /\ buffer \in 0..MaxSends
      OBVIOUS
    <2>3. up \in BOOLEAN /\ isClosed \in BOOLEAN
      BY Zenon
    <2>4. \A t \in Threads : pc[t] \in {"chunk", "spin", "connect", "send", "recv"}
                               <=> pc[t] # "idle" /\ answer[t] = "none"
      OBVIOUS
    <2> QED  BY <2>1, <2>2, <2>3, <2>4, Zenon DEF TypeOK
  <1>2. Overlap /\ BufferFresh /\ ResponseFresh
    BY DEF Overlap, BufferFresh, ResponseFresh
  <1> QED  BY <1>1, <1>2 DEF IInv

(* A call that begins joins the calls under way, and they learn of it.      *)
LEMMA CallStep ==
    ASSUME IInv, NEW t \in Threads, Call(t)
    PROVE  IInv'
  <1> USE SendsAssumption DEF SendsAssumption, IInv, Call, Go, Result
  <1>1. sends + 1 \in 0..MaxSends
    BY DEF TypeOK
  <1>2. {request[v] : v \in UnderWay} \subseteq 0..MaxSends
    BY DEF TypeOK, UnderWay
  <1>3. \A u \in Threads : during'[u] \in SUBSET (0..MaxSends)
    BY <1>1, <1>2 DEF TypeOK
  <1>4. during' \in [Threads -> SUBSET (0..MaxSends)]
    BY <1>3
  <1>5. TypeOK'
    BY <1>1, <1>4 DEF TypeOK, Results, Connected
  <1>6. \A u \in Threads : u # t => during[u] \subseteq during'[u] /\ request'[u] = request[u]
    BY DEF TypeOK
  <1>7. Overlap'
    <2> SUFFICES ASSUME NEW u \in Threads, NEW v \in Threads,
                        pc'[u] # "idle", pc'[v] # "idle", u # v
                 PROVE  request'[v] \in during'[u]
      BY DEF Overlap
    <2>1. CASE u = t
      <3>1. v \in UnderWay /\ request'[v] = request[v]
        BY <2>1 DEF TypeOK, UnderWay
      <3>2. during'[u] = {request[w] : w \in UnderWay}
        BY <2>1
      <3> QED  BY <3>1, <3>2
    <2>2. CASE v = t
      <3>1. u \in UnderWay /\ u # t
        BY <2>2 DEF TypeOK, UnderWay
      <3>2. during'[u] = during[u] \cup {sends + 1} /\ request'[v] = sends + 1
        BY <2>2, <3>1 DEF TypeOK
      <3> QED  BY <3>2
    <2>3. CASE u # t /\ v # t
      BY <1>6, <2>3 DEF Overlap, TypeOK
    <2> QED  BY <2>1, <2>2, <2>3
  <1>8. BufferFresh'
    BY <1>6 DEF BufferFresh, TypeOK
  <1>9. ResponseFresh'
    BY <1>6 DEF ResponseFresh, TypeOK
  <1> QED  BY <1>5, <1>7, <1>8, <1>9

(* A step that touches neither the buffer nor what calls know of each other.*)
LEMMA OtherStep ==
    ASSUME IInv, NEW t \in Threads,
           \/ GameAnswers(t) \/ CallClosed(t) \/ Chunk(t) \/ ChunkForever(t)
           \/ Connect(t) \/ Refused(t) \/ Send(t)
           \/ SocketFails(t) \/ RecvNothing(t) \/ Return(t)
    PROVE  IInv'
  <1> USE DEF IInv, Go, Result
  <1>1. TypeOK'
    <2> USE DEF TypeOK
    <2>1. CASE GameAnswers(t)
      BY <2>1 DEF GameAnswers
    <2>2. CASE CallClosed(t)
      BY <2>2 DEF CallClosed, Results
    <2>3. CASE Chunk(t) \/ ChunkForever(t) \/ Connect(t) \/ Send(t)
      BY <2>3 DEF Chunk, ChunkForever, Connect, Send, Connected
    <2>4. CASE Refused(t) \/ SocketFails(t)
      BY <2>4 DEF Refused, SocketFails, Results, Connected
    <2>5. CASE RecvNothing(t)
      BY <2>5 DEF RecvNothing, Results, Connected
    <2>6. CASE Return(t)
      BY <2>6 DEF Return
    <2> QED  BY <2>1, <2>2, <2>3, <2>4, <2>5, <2>6
  <1>2. /\ UNCHANGED <<request, during, buffer>>
        /\ \A u \in Threads : pc'[u] # "idle" => pc[u] # "idle"
        /\ \A u \in Threads : pc'[u] = "copy" => pc[u] = "copy"
        /\ \A u \in Threads : response'[u] \subseteq response[u]
    BY DEF TypeOK, GameAnswers, CallClosed, Chunk, ChunkForever, Connect, Refused,
       Send, SocketFails, RecvNothing, Return
  <1>3. Overlap'
    BY <1>2 DEF Overlap
  <1>4. BufferFresh'
    BY <1>2 DEF BufferFresh
  <1>5. ResponseFresh'
    BY <1>2 DEF ResponseFresh
  <1> QED  BY <1>1, <1>3, <1>4, <1>5

(* The buffer is overwritten: whoever was to read it overlaps this call.    *)
LEMMA RecvStep ==
    ASSUME IInv, NEW t \in Threads, Recv(t)
    PROVE  IInv'
  <1> USE DEF IInv, Recv, Go, Result
  <1>1. TypeOK'
    BY DEF TypeOK, Results, Connected
  <1>2. Overlap' /\ ResponseFresh'
    BY DEF Overlap, ResponseFresh, TypeOK
  <1>3. BufferFresh'
    <2> SUFFICES ASSUME NEW u \in Threads, pc'[u] = "copy"
                 PROVE  buffer' \in {request[u]} \cup during[u]
      BY DEF BufferFresh
    <2>1. CASE u = t
      BY <2>1
    <2>2. CASE u # t
      BY <2>2 DEF Overlap, TypeOK
    <2> QED  BY <2>1, <2>2
  <1> QED  BY <1>1, <1>2, <1>3

(* What is copied out of it is fresh.                                       *)
LEMMA CopyStep ==
    ASSUME IInv, NEW t \in Threads, Copy(t)
    PROVE  IInv'
  <1> USE DEF IInv, Copy, Go
  <1>1. TypeOK'
    BY DEF TypeOK, Connected
  <1>2. Overlap' /\ BufferFresh'
    BY DEF Overlap, BufferFresh, TypeOK
  <1>3. ResponseFresh'
    BY DEF ResponseFresh, BufferFresh, TypeOK
  <1> QED  BY <1>1, <1>2, <1>3

(* The invariant is inductive.                                              *)
LEMMA StepInv ==
    ASSUME IInv, [Next]_vars
    PROVE  IInv'
  <1>1. CASE UNCHANGED vars
    BY <1>1 DEF vars, callVars, IInv, TypeOK, Overlap, BufferFresh, ResponseFresh
  <1>2. CASE GameExits
    <2> USE <1>2 DEF GameExits, callVars, IInv
    <2>1. TypeOK'
      BY DEF TypeOK
    <2> QED  BY <2>1 DEF Overlap, BufferFresh, ResponseFresh
  <1> QED
    BY <1>1, <1>2, CallStep, OtherStep, RecvStep, CopyStep DEF Next, Runs, Spin

(* It holds in every behaviour.                                             *)
LEMMA Inductive == Spec => []IInv
  <1> QED  BY InitInv, StepInv, PTL DEF Spec

(* The types hold, and a call has no result before it has got one.          *)
THEOREM TypeCorrect == Spec => []TypeOK
  <1>1. IInv => TypeOK
    BY DEF IInv
  <1> QED  BY <1>1, Inductive, PTL

(* No text holds a byte of an answer to a call that was over before its own *)
(* began, for any number of threads and calls that share the buffer.        *)
THEOREM NeverStale == Spec => []NoStaleAnswer
  <1>1. IInv => NoStaleAnswer
    BY DEF IInv, ResponseFresh, NoStaleAnswer
  <1> QED  BY <1>1, Inductive, PTL

-----------------------------------------------------------------------------
(* The refinement.                                                          *)

(* A step that gives nobody a result.                                       *)
LEMMA QuietStep ==
    ASSUME \A t \in Threads : answer'[t] \in {answer[t], "none"},
           isClosed' = isClosed, Up' = Up \/ (Up /\ ~Up')
    PROVE  LinkStep
  <1>1. CASE Up' = Up
    BY <1>1 DEF LinkStep, Link!linkVars
  <1>2. CASE Up /\ ~Up'
    <2>1. Up = TRUE /\ Up' = FALSE
      BY <1>2 DEF Up
    <2> QED  BY <2>1 DEF LinkStep, Link!GameExit
  <1> QED  BY <1>1, <1>2

(* A step that gives t its result.                                          *)
LEMMA ResultStep ==
    ASSUME NEW t \in Threads, answer'[t] \in Results, answer'[t] # answer[t],
           Up' = Up,
           \/ answer'[t] = "error" /\ isClosed' = TRUE
           \/ answer'[t] \in {"text", "empty"} /\ Up /\ isClosed' = isClosed
    PROVE  LinkStep
  BY DEF LinkStep, Link!Send, Link!PosixSend, Results

(* Every step is one of the EngineLink.                                     *)
LEMMA LinkedStep ==
    ASSUME IInv, [Next]_vars
    PROVE  [LinkStep]_vars
  <1> SUFFICES ASSUME Next
               PROVE  LinkStep \/ UNCHANGED vars
    OBVIOUS
  <1> USE DEF IInv, TypeOK, callVars, Go, Result
  <1>1. CASE GameExits
    <2>1. Up' = Up \/ (Up /\ ~Up')
      BY <1>1 DEF GameExits, Up
    <2> QED  BY <1>1, <2>1, QuietStep DEF GameExits
  <1>2. ASSUME NEW t \in Threads,
               \/ GameAnswers(t) \/ CallClosed(t) \/ Call(t) \/ Runs(t)
               \/ ChunkForever(t) \/ SocketFails(t) \/ Copy(t)
        PROVE  LinkStep
    <2>1. CASE GameAnswers(t) \/ Call(t)
      <3>1. Up' = Up /\ \A u \in Threads : answer'[u] \in {answer[u], "none"}
        BY <2>1 DEF GameAnswers, Call, Up, Connected
      <3> QED  BY <2>1, <3>1, QuietStep DEF GameAnswers, Call
    <2>2. CASE Chunk(t) \/ ChunkForever(t) \/ Connect(t) \/ Send(t) \/ Copy(t)
      <3>1. Up' = Up
        BY <2>2 DEF Chunk, ChunkForever, Connect, Send, Copy, Up, Connected
      <3> QED  BY <2>2, <3>1, QuietStep DEF Chunk, ChunkForever, Connect, Send, Copy
    <2>3. CASE Return(t)
      <3>1. Up' = Up \/ (Up /\ ~Up')
        BY <2>3 DEF Return, Up, Connected
      <3> QED  BY <2>3, <3>1, QuietStep DEF Return
    <2>4. CASE CallClosed(t)
      <3>1. Up' = Up /\ isClosed = TRUE /\ isClosed' = isClosed /\ answer'[t] = "error"
        BY <2>4 DEF CallClosed, Up
      <3>2. CASE answer[t] = "error"
        BY <2>4, <3>1, <3>2, QuietStep DEF CallClosed
      <3> QED  BY <3>1, <3>2, ResultStep DEF Results
    <2>5. CASE Refused(t) \/ SocketFails(t)
      <3>1. Up' = Up
        BY <2>5 DEF Refused, SocketFails, Up, Connected
      <3>2. answer[t] = "none" /\ answer'[t] = "error" /\ isClosed' = TRUE
        BY <2>5 DEF Refused, SocketFails
      <3> QED  BY <3>1, <3>2, ResultStep DEF Results
    <2>6. CASE RecvNothing(t) \/ Recv(t)
      <3>1. Up' = Up /\ Up
        BY <2>6 DEF RecvNothing, Recv, Up, Connected
      <3>2. answer[t] = "none" /\ answer'[t] \in {"text", "empty"} /\ isClosed' = isClosed
        BY <2>6 DEF RecvNothing, Recv
      <3> QED  BY <3>1, <3>2, ResultStep DEF Results
    <2> QED  BY <1>2, <2>1, <2>2, <2>3, <2>4, <2>5, <2>6 DEF Runs
  <1> QED  BY <1>1, <1>2 DEF Next, Spin

(* The calls of PosixSMI give the rest of the server what it assumes of     *)
(* them, however they overlap each other and the end of the game.           *)
THEOREM LinkImplemented == Spec => PosixImplements
  <1>1. IInv /\ [Next]_vars => [LinkStep]_vars
    BY LinkedStep
  <1> QED  BY <1>1, Inductive, PTL DEF Spec, PosixImplements
=============================================================================
