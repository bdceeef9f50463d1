------------------------- MODULE ClientSocketsProofs -------------------------
(***************************************************************************)
(* Proofs about ClientSockets, for any webapps, sockets, urls, protocols    *)
(* and any number of requests and lost connections.                         *)
(***************************************************************************)
EXTENDS ClientSockets, FiniteSetTheorems, SequenceTheorems, TLAPS

(* Inside Parse() the lock is held, and main holds it only while it closes  *)
(* a game.                                                                  *)
LockInv ==
    /\ \A t \in Threads : thread[t] \in InParse => mutex = t
    /\ mutex = Main <=> mainPc = "closing"

(* What Parse() works on: a line, and the outcome of its search, which      *)
(* stays true as long as the lock is held.                                  *)
SearchInv ==
    /\ mainPc = "scan" => line[Main] \in Line
    /\ \A t \in Threads : thread[t] \notin {"idle", "register"} => line[t] \in Line
    /\ \A t \in Threads :
          thread[t] \in {"idle", "register", "ask"} => match[t] = NoSocket
    /\ \A t \in Threads :
          thread[t] = "parse" =>
             \/ /\ match[t] = NoSocket
                /\ \A s \in Sockets : Alive(s) /\ peer[s] = line[t].peer
                                        => line[t].protocol \notin protocols[s]
             \/ match[t] \in Sockets /\ line[t].protocol \in protocols[match[t]]
    /\ \A t \in Threads : thread[t] \in Joining => match[t] \in Sockets

(* What is listed, found or being destroyed has been made.                  *)
MadeInv ==
    /\ \A s \in Listed : sock[s] # "none"
    /\ \A t \in Threads \cup {Main} : match[t] # NoSocket => sock[match[t]] # "none"
    /\ \A s \in Sockets : sock[s] = "none" <=> protocols[s] = {}

(* The table says of each socket what the socket says, once.                *)
TableInv ==
    /\ \A s \in Sockets, p \in Protocols : <<p, s>> \in Entries <=> p \in protocols[s]
    /\ \A s \in Sockets : \A p, q \in protocols[s] : p = q
    /\ Len(socketsByProtocol) = Cardinality(Entries)

(* Before the destructor runs nothing is destroyed: every socket made is    *)
(* listed, a callback runs on a live one, and once a socket was made for    *)
(* the game main is in its scan for good.                                   *)
EarlyInv ==
    mainPc \notin Destroying =>
        /\ ~crashed
        /\ \A s \in Sockets : sock[s] \in {"none", "connecting", "open"}
        /\ \A s \in Sockets : sock[s] # "none" => s \in Listed
        /\ \A s \in Sockets : thread[s] # "idle" => sock[s] = "open"
        /\ \A t \in Threads : thread[t] \notin Joining
        /\ match[Main] = NoSocket
        /\ mainPc # "scan" => \A s \in Sockets : ~isGameConnection[s]

IInv == /\ TypeOK /\ LockInv /\ SearchInv /\ MadeInv /\ TableInv
        /\ EarlyInv /\ OneSocketPerPeer

-----------------------------------------------------------------------------
(* Sequences as the sets of their elements.                                 *)

(* An element is appended.                                                  *)
LEMMA AppendElements ==
    ASSUME NEW S, NEW q \in Seq(S), NEW e \in S
    PROVE  LET r == Append(q, e)
           IN  /\ r \in Seq(S) /\ Len(r) = Len(q) + 1
               /\ {r[i] : i \in 1..Len(r)} = {q[i] : i \in 1..Len(q)} \cup {e}
  <1> DEFINE r == Append(q, e)
  <1>1. /\ r \in Seq(S) /\ Len(r) = Len(q) + 1
        /\ \A i \in 1..Len(q) : r[i] = q[i]
        /\ r[Len(q) + 1] = e
    BY AppendProperties
  <1>2. Len(q) \in Nat
    OBVIOUS
  <1> HIDE DEF r
  <1>3. \A i \in 1..Len(r) : i \in 1..Len(q) \/ i = Len(q) + 1
    BY <1>1, <1>2
  <1>4. \A i \in 1..Len(q) : i \in 1..Len(r)
    BY <1>1, <1>2
  <1>5. Len(q) + 1 \in 1..Len(r)
    BY <1>1, <1>2
  <1>6. {r[i] : i \in 1..Len(r)} = {q[i] : i \in 1..Len(q)} \cup {e}
    BY <1>1, <1>3, <1>4, <1>5
  <1> QED  BY <1>1, <1>6 DEF r

(* _clients loses an element: nothing new is listed.                        *)
LEMMA RemoveElement ==
    ASSUME TypeOK, NEW i \in 1..Len(clients),
           clients' = SubSeq(clients, 1, i - 1) \o SubSeq(clients, i + 1, Len(clients))
    PROVE  clients' \in Seq(Sockets) /\ Listed' \subseteq Listed
  <1> DEFINE a == SubSeq(clients, 1, i - 1)
             b == SubSeq(clients, i + 1, Len(clients))
  <1>1. clients \in Seq(Sockets) /\ Len(clients) \in Nat
    BY DEF TypeOK
  <1>2. \A j \in 1..Len(clients) : clients[j] \in Listed
    BY DEF Listed
  <1>3. Listed \subseteq Sockets
    BY <1>1 DEF Listed
  <1>4. (\A j \in 1..(i - 1) : clients[j] \in Listed) /\ i - 1 \in Int /\ i + 1 \in Int
    BY <1>1, <1>2
  <1>5. \A j \in (i + 1)..Len(clients) : clients[j] \in Listed
    BY <1>1, <1>2
  <1>6. a \in Seq(Listed)
    BY <1>4, SubSeqProperties
  <1>7. b \in Seq(Listed)
    BY <1>1, <1>4, <1>5, SubSeqProperties
  <1>8. clients' = a \o b
    OBVIOUS
  <1> HIDE DEF a, b
  <1>9. clients' \in Seq(Listed)
    BY <1>6, <1>7, <1>8, ConcatProperties
  <1>10. \A j \in 1..Len(clients') : clients'[j] \in Listed
    BY <1>9, ElementOfSeq
  <1>11. Listed' \subseteq Listed
    BY <1>10 DEF Listed
  <1>12. clients' \in Seq(Sockets)
    BY <1>3, <1>9
  <1> QED  BY <1>11, <1>12

(* A finite sequence has finitely many elements.                            *)
LEMMA EntriesFinite ==
    ASSUME TypeOK
    PROVE  IsFiniteSet(Entries)
  <1> DEFINE n == Len(socketsByProtocol)
             g == [i \in 1..n |-> socketsByProtocol[i]]
  <1>1. n \in Nat
    BY DEF TypeOK
  <1>2. IsFiniteSet(1..n)
    BY <1>1, FS_Interval
  <1>3. g \in Surjection(1..n, Entries)
    BY DEF Entries, Surjection
  <1> QED  BY <1>2, <1>3, FS_Surjection

-----------------------------------------------------------------------------
(* Parse() and the table.                                                   *)

(* A socket that was found keeps what it has: the branch that adds a        *)
(* protocol cannot be reached.                                              *)
LEMMA ReuseChangesNothing ==
    ASSUME TypeOK, TableInv, NEW s \in Sockets, NEW l \in Line,
           <<l.protocol, s>> \in Entries, Reuse(s, l)
    PROVE  UNCHANGED <<socketVars, tableVars>>
  <1>1. l.protocol \in protocols[s]
    BY DEF TableInv, Line
  <1> QED  BY <1>1 DEF Reuse, socketVars, tableVars

(* What a new socket does to the socket's own variables.                    *)
MadeAs(s, l, forGame) ==
    /\ sock[s] = "none"
    /\ sock' = [sock EXCEPT ![s] = "connecting"]
    /\ peer' = [peer EXCEPT ![s] = l.peer]
    /\ protocols' = [protocols EXCEPT ![s] = {l.protocol}]
    /\ isGameConnection' = [isGameConnection EXCEPT ![s] = forGame]
    /\ clients' \in Seq(Sockets)
    /\ Listed' = Listed \cup {s}
    /\ socketsByProtocol' \in Seq(Protocols \X Sockets)
    /\ Len(socketsByProtocol') = Len(socketsByProtocol) + 1
    /\ Entries' = Entries \cup {<<l.protocol, s>>}

(* Make() makes a socket that was not there, and lists it twice: once in    *)
(* _clients and once in the table.                                          *)
LEMMA MakeMakes ==
    ASSUME TypeOK, NEW l \in Line, NEW g \in BOOLEAN, Make(l, g)
    PROVE  NewSocket \in Sockets /\ MadeAs(NewSocket, l, g)
  <1>1. NewSocket \in Sockets /\ sock[NewSocket] = "none"
    BY DEF Make, NewSocket
  <1> DEFINE s == NewSocket
  <1>2. /\ sock' = [sock EXCEPT ![s] = "connecting"]
        /\ peer' = [peer EXCEPT ![s] = l.peer]
        /\ protocols' = [protocols EXCEPT ![s] = {l.protocol}]
        /\ isGameConnection' = [isGameConnection EXCEPT ![s] = g]
        /\ clients' = Append(clients, s)
        /\ socketsByProtocol' = Append(socketsByProtocol, <<l.protocol, s>>)
    BY DEF Make
  <1>3. s \in Sockets /\ sock[s] = "none"
    BY <1>1
  <1> HIDE DEF s
  <1>4. <<l.protocol, s>> \in Protocols \X Sockets
    BY <1>3 DEF Line
  <1>5. clients \in Seq(Sockets) /\ socketsByProtocol \in Seq(Protocols \X Sockets)
    BY DEF TypeOK
  <1>6. clients' \in Seq(Sockets) /\ Listed' = Listed \cup {s}
    BY <1>2, <1>3, <1>5, AppendElements DEF Listed
  <1>7. /\ socketsByProtocol' \in Seq(Protocols \X Sockets)
        /\ Len(socketsByProtocol') = Len(socketsByProtocol) + 1
        /\ Entries' = Entries \cup {<<l.protocol, s>>}
    BY <1>2, <1>4, <1>5, AppendElements DEF Entries
  <1>8. MadeAs(s, l, g)
    BY <1>2, <1>3, <1>6, <1>7 DEF MadeAs
  <1> QED  BY <1>3, <1>8 DEF s

(* The table stays right.                                                   *)
LEMMA MadeTable ==
    ASSUME TypeOK, MadeInv, TableInv, OneSocketPerPeer, NEW l \in Line,
           Matches(l) = {}, NEW g \in BOOLEAN, NEW s \in Sockets, MadeAs(s, l, g)
    PROVE  /\ TableInv' /\ OneSocketPerPeer'
           /\ \A u \in Sockets : sock'[u] = "none" <=> protocols'[u] = {}
           /\ \A u \in Listed' : sock'[u] # "none"
  <1>1. protocols[s] = {} /\ \A p \in Protocols : <<p, s>> \notin Entries
    BY DEF MadeInv, TableInv, MadeAs
  <1>2. /\ protocols'[s] = {l.protocol} /\ peer'[s] = l.peer
        /\ \A u \in Sockets : u # s => /\ protocols'[u] = protocols[u]
                                      /\ peer'[u] = peer[u] /\ sock'[u] = sock[u]
        /\ sock'[s] = "connecting"
    BY DEF MadeAs, TypeOK
  <1>3. l.protocol \in Protocols /\ Entries' = Entries \cup {<<l.protocol, s>>}
    BY DEF MadeAs, Line
  <1>4. \A u \in Sockets, p \in Protocols : <<p, u>> \in Entries' <=> p \in protocols'[u]
    BY <1>1, <1>2, <1>3 DEF TableInv
  <1>5. Len(socketsByProtocol') = Cardinality(Entries')
    <2>1. IsFiniteSet(Entries)
      BY EntriesFinite
    <2>2. <<l.protocol, s>> \notin Entries
      BY <1>1, <1>3
    <2>3. Cardinality(Entries \cup {<<l.protocol, s>>}) = Cardinality(Entries) + 1
      BY <2>1, <2>2, FS_AddElement
    <2> QED  BY <1>3, <2>3 DEF TableInv, MadeAs
  <1>6. \A u \in Sockets : \A p, q \in protocols'[u] : p = q
    BY <1>2 DEF TableInv
  <1>7. OneSocketPerPeer'
    <2>1. ASSUME NEW u \in Sockets, u # s, sock[u] \in {"connecting", "open"},
                 peer[u] = l.peer, protocols[u] = {l.protocol}
          PROVE  FALSE
      <3>1. <<l.protocol, u>> \in Entries
        BY <1>3, <2>1 DEF TableInv
      <3> QED  BY <2>1, <3>1 DEF Matches, Under, Alive
    <2> QED  BY <1>2, <2>1 DEF OneSocketPerPeer, Alive
  <1>8. \A u \in Sockets : sock'[u] = "none" <=> protocols'[u] = {}
    BY <1>2 DEF MadeInv
  <1>9. \A u \in Listed' : sock'[u] # "none"
    <2>1. \A u \in Listed : u \in Sockets
      BY DEF TypeOK, Listed
    <2> QED  BY <1>2, <2>1 DEF MadeInv, MadeAs
  <1> QED  BY <1>4, <1>5, <1>6, <1>7, <1>8, <1>9 DEF TableInv

(* Nothing that only ends the life of sockets disturbs it, or what a search *)
(* has found.                                                               *)
Quiet ==
    /\ UNCHANGED <<peer, protocols, socketsByProtocol>>
    /\ \A s \in Sockets : sock'[s] = "none" <=> sock[s] = "none"
    /\ \A s \in Sockets : Alive(s)' => Alive(s)

(* The table survives quiet steps, and no search finds more than before.    *)
LEMMA QuietTable ==
    ASSUME TypeOK, TableInv, OneSocketPerPeer, Quiet
    PROVE  /\ TableInv' /\ OneSocketPerPeer' /\ Entries' = Entries
           /\ \A l : Matches(l)' \subseteq Matches(l)
  <1>1. Entries' = Entries
    BY DEF Entries, Quiet
  <1> QED  BY <1>1 DEF TableInv, OneSocketPerPeer, Matches, Under, Quiet

-----------------------------------------------------------------------------
(* Everything holds initially.                                              *)
LEMMA InitInv ==
    ASSUME Init
    PROVE  IInv
  <1> USE ThreadsAssumption, EventsAssumption, PeersAssumption
          DEF ThreadsAssumption, EventsAssumption, PeersAssumption, Init
  <1>1. TypeOK
    <2>1. /\ mainPc \in {"loop", "scan", "closing"} \cup Destroying
          /\ mutex \in Threads \cup {Main, Free}
          /\ events \in 0..MaxEvents
          /\ looked \in SUBSET Sockets
      OBVIOUS
    <2>5. crashed \in BOOLEAN /\ threw \in BOOLEAN
      BY Zenon
    <2>2. /\ thread \in [Threads -> {"idle", "register", "ask"} \cup InParse]
          /\ line \in [Threads \cup {Main} -> Line \cup {NoLine}]
          /\ match \in [Threads \cup {Main} -> Sockets \cup {NoSocket}]
      OBVIOUS
    <2>3. /\ sock \in [Sockets -> {"none", "connecting", "open", "aborting",
                                   "stopping", "gone"}]
          /\ peer \in [Sockets -> Peers \cup {NoPeer}]
          /\ protocols \in [Sockets -> SUBSET Protocols]
          /\ isGameConnection \in [Sockets -> BOOLEAN]
      OBVIOUS
    <2>4. clients \in Seq(Sockets) /\ socketsByProtocol \in Seq(Protocols \X Sockets)
      OBVIOUS
    <2> QED  BY <2>1, <2>2, <2>3, <2>4, <2>5 DEF TypeOK
  <1>2. Listed = {} /\ Entries = {}
    BY DEF Listed, Entries
  <1>3. LockInv
    BY DEF LockInv, InParse, Joining, Main, Free
  <1>4. SearchInv
    BY DEF SearchInv, Joining
  <1>5. MadeInv
    BY <1>2 DEF MadeInv
  <1>6. TableInv
    BY <1>2, FS_EmptySet DEF TableInv
  <1>7. EarlyInv
    <2>1. ~crashed
      BY Zenon
    <2>2. \A s \in Sockets : ~isGameConnection[s]
      BY Zenon
    <2> QED  BY <2>1, <2>2 DEF EarlyInv, Joining, Threads
  <1>8. OneSocketPerPeer
    BY DEF OneSocketPerPeer, Alive
  <1> QED  BY <1>1, <1>3, <1>4, <1>5, <1>6, <1>7, <1>8 DEF IInv

-----------------------------------------------------------------------------
(* The callbacks.                                                           *)

(* Steps that change no socket and no table.                                *)
LEMMA StillStep ==
    ASSUME IInv, UNCHANGED <<socketVars, tableVars>>
    PROVE  /\ TableInv' /\ OneSocketPerPeer' /\ Entries' = Entries /\ Listed' = Listed
           /\ \A l : Matches(l)' = Matches(l)
           /\ \A s : Alive(s)' = Alive(s)
  <1> USE DEF socketVars, tableVars
  <1>1. Entries' = Entries /\ Listed' = Listed
    BY DEF Entries, Listed
  <1> QED
    BY <1>1 DEF IInv, TableInv, OneSocketPerPeer, Alive, Matches, Under

(* Undefined behaviour in the destructor.                                   *)
LEMMA CrashStep ==
    ASSUME IInv, crashed' = TRUE, mainPc \in Destroying, UNCHANGED threw,
           UNCHANGED <<mainPc, threadVars, events, socketVars, tableVars>>
    PROVE  IInv'
  <1>1. TypeOK'
    BY DEF IInv, TypeOK, threadVars, socketVars, tableVars
  <1>2. TableInv' /\ OneSocketPerPeer' /\ Entries' = Entries /\ Listed' = Listed
        /\ \A s : Alive(s)' = Alive(s)
    BY StillStep
  <1>3. LockInv' /\ SearchInv' /\ MadeInv'
    BY <1>2 DEF IInv, LockInv, SearchInv, MadeInv, threadVars, socketVars
  <1>4. EarlyInv'
    BY DEF EarlyInv
  <1> QED  BY <1>1, <1>2, <1>3, <1>4 DEF IInv

(* Only one thread is inside Parse().                                       *)
LEMMA OneParses ==
    ASSUME IInv, NEW t \in Threads, thread[t] \in InParse
    PROVE  /\ mutex = t
           /\ \A u \in Threads : u # t => thread[u] \notin InParse
  BY DEF IInv, LockInv

(* A step inside the lock that changes no socket and no table: the lock is  *)
(* taken, a socket is looked at, found or let go.                           *)
LEMMA InsideStep ==
    ASSUME IInv, NEW t \in Threads, thread[t] \in {"ask"} \cup InParse,
           thread[t] = "ask" => mutex = Free, mutex' = t,
           NEW pc \in {"search", "parse", "send"}, thread' = [thread EXCEPT ![t] = pc],
           NEW m \in Sockets \cup {NoSocket}, match' = [match EXCEPT ![t] = m],
           m # NoSocket => sock[m] # "none",
           looked' \in SUBSET Sockets,
           pc = "parse" =>
             \/ /\ m = NoSocket
                /\ \A s \in Sockets : Alive(s) /\ peer[s] = line[t].peer
                                        => line[t].protocol \notin protocols[s]
             \/ m \in Sockets /\ line[t].protocol \in protocols[m],
           UNCHANGED <<mainPc, line, events, socketVars, tableVars, crashed, threw>>
    PROVE  IInv'
  <1> USE ThreadsAssumption DEF ThreadsAssumption
  <1>1. TypeOK'
    BY DEF IInv, TypeOK, InParse, socketVars, tableVars
  <1>2. TableInv' /\ OneSocketPerPeer' /\ Entries' = Entries /\ Listed' = Listed
        /\ \A s : Alive(s)' = Alive(s)
    BY StillStep
  <1>3. mutex \in {t, Free} /\ mutex # Main /\ t # Main
    <2>1. thread[t] \in InParse => mutex = t
      BY DEF IInv, LockInv
    <2> QED  BY <2>1 DEF Main, Free
  <1>4. \A u \in Threads : u # t => thread[u] \notin InParse
    BY <1>3 DEF IInv, LockInv, Free
  <1>5. \A u \in Threads : /\ thread'[u] = IF u = t THEN pc ELSE thread[u]
                           /\ match'[u] = IF u = t THEN m ELSE match[u]
    BY DEF IInv, TypeOK
  <1>6. match'[Main] = match[Main]
    BY <1>3 DEF IInv, TypeOK
  <1>7. LockInv'
    BY <1>3, <1>4, <1>5 DEF IInv, LockInv
  <1>8. thread[t] \notin {"idle", "register"}
    BY DEF InParse, Joining
  <1>9. SearchInv'
    <2>1. line[t] \in Line
      BY <1>8 DEF IInv, SearchInv
    <2>2. UNCHANGED <<peer, protocols, line, mainPc>>
      BY DEF socketVars
    <2> QED  BY <1>2, <1>4, <1>5, <2>1, <2>2 DEF IInv, SearchInv, InParse, Joining
  <1>10. MadeInv'
    BY <1>2, <1>5, <1>6 DEF IInv, MadeInv, socketVars
  <1>11. EarlyInv'
    <2>1. \A u \in Sockets : thread'[u] # "idle" => thread[u] # "idle"
      BY <1>5, <1>8 DEF Threads
    <2>2. \A u \in Threads : thread'[u] \in Joining => thread[u] \in Joining
      BY <1>5 DEF Joining
    <2> QED  BY <1>2, <1>6, <2>1, <2>2 DEF IInv, EarlyInv, socketVars
  <1> QED  BY <1>1, <1>2, <1>7, <1>9, <1>10, <1>11 DEF IInv

(* The lock is taken.                                                       *)
LEMMA EnterStep ==
    ASSUME IInv, NEW t \in Threads, ParseEnter(t), UNCHANGED threw
    PROVE  IInv'
  <1> DEFINE pc == IF line[t].peer = NoPeer THEN "send" ELSE "search"
  <1>1. thread[t] = "ask" /\ mutex = Free /\ mutex' = t
        /\ thread' = [thread EXCEPT ![t] = pc]
        /\ UNCHANGED <<mainPc, line, match, looked, events, socketVars, tableVars, crashed>>
    BY DEF ParseEnter
  <1>2. match[t] = NoSocket /\ match' = [match EXCEPT ![t] = NoSocket]
    BY <1>1 DEF IInv, SearchInv, TypeOK
  <1>3. looked' \in SUBSET Sockets
    BY <1>1 DEF IInv, TypeOK
  <1>4. pc \in {"search", "parse", "send"} /\ pc # "parse"
    OBVIOUS
  <1> HIDE DEF pc
  <1> QED  BY <1>1, <1>2, <1>3, <1>4, InsideStep

(* A socket is looked at, or let go.                                        *)
LEMMA LookStep ==
    ASSUME IInv, NEW t \in Threads, ParseLook(t) \/ ParseDrop(t), UNCHANGED threw
    PROVE  IInv'
  <1>1. /\ thread[t] \in {"search", "send"}
        /\ UNCHANGED <<mainPc, mutex, thread, line, events, socketVars, tableVars, crashed>>
    BY DEF ParseLook, ParseDrop
  <1>2. thread' = [thread EXCEPT ![t] = thread[t]]
    BY <1>1 DEF IInv, TypeOK
  <1>3. thread[t] \in InParse /\ thread[t] # "parse" /\ thread[t] # "ask"
    BY <1>1 DEF InParse
  <1>4. mutex' = t
    BY <1>1, <1>3, OneParses
  <1>5. PICK m \in Sockets \cup {NoSocket} :
            match' = [match EXCEPT ![t] = m] /\ (m # NoSocket => sock[m] # "none")
    <2>1. CASE ParseLook(t)
      BY <2>1 DEF ParseLook, Under, Alive
    <2>2. CASE ParseDrop(t)
      BY <2>2 DEF ParseDrop
    <2> QED  BY <2>1, <2>2
  <1>6. looked' \in SUBSET Sockets
    BY DEF ParseLook, ParseDrop, Under, IInv, TypeOK
  <1> QED  BY <1>1, <1>2, <1>3, <1>4, <1>5, <1>6, InsideStep

(* The search ends.                                                         *)
LEMMA FoundStep ==
    ASSUME IInv, NEW t \in Threads, ParseFound(t), UNCHANGED threw
    PROVE  IInv'
  <1>1. /\ thread[t] = "search" /\ match[t] = NoSocket
        /\ thread' = [thread EXCEPT ![t] = "parse"]
        /\ looked' = {}
        /\ UNCHANGED <<mainPc, mutex, line, events, socketVars, tableVars, crashed>>
    BY DEF ParseFound
  <1>2. thread[t] \in InParse
    BY <1>1 DEF InParse
  <1>3. mutex' = t /\ line[t] \in Line
    BY <1>1, <1>2, OneParses DEF IInv, SearchInv
  <1>4. CASE Matches(line[t]) = {} /\ UNCHANGED match
    <2>1. \A s \in Sockets : Alive(s) /\ peer[s] = line[t].peer
                                => line[t].protocol \notin protocols[s]
      BY <1>3, <1>4 DEF Matches, Under, IInv, TableInv, Line
    <2>2. match' = [match EXCEPT ![t] = NoSocket]
      BY <1>1, <1>4 DEF IInv, TypeOK
    <2> QED  BY <1>1, <1>2, <1>3, <2>1, <2>2, InsideStep
  <1>5. ASSUME NEW s \in Matches(line[t]), match' = [match EXCEPT ![t] = s]
        PROVE  IInv'
    <2>1. s \in Sockets /\ sock[s] # "none"
      BY DEF Matches, Under, Alive
    <2>2. line[t].protocol \in protocols[s]
      BY <1>3, <2>1 DEF Matches, Under, IInv, TableInv, Line
    <2> QED  BY <1>1, <1>2, <1>3, <1>5, <2>1, <2>2, InsideStep
  <1> QED  BY <1>4, <1>5 DEF ParseFound

(* Parse() has found a socket, which has the protocol already.              *)
LEMMA ReuseStep ==
    ASSUME IInv, NEW t \in Threads, ParseReuse(t), UNCHANGED threw
    PROVE  IInv'
  <1>1. /\ thread[t] = "parse" /\ match[t] # NoSocket
        /\ Reuse(match[t], line[t])
        /\ thread' = [thread EXCEPT ![t] = "send"]
        /\ UNCHANGED <<mainPc, mutex, line, match, looked, events, crashed>>
    BY DEF ParseReuse
  <1>2. line[t] \in Line /\ match[t] \in Sockets /\ line[t].protocol \in protocols[match[t]]
    BY <1>1 DEF IInv, SearchInv
  <1>3. <<line[t].protocol, match[t]>> \in Entries
    BY <1>2 DEF IInv, TableInv, Line
  <1>4. UNCHANGED <<socketVars, tableVars>>
    BY <1>1, <1>2, <1>3, ReuseChangesNothing DEF IInv
  <1>5. thread[t] \in InParse
    BY <1>1 DEF InParse
  <1>6. mutex' = t
    BY <1>1, <1>5, OneParses
  <1>7. match' = [match EXCEPT ![t] = match[t]] /\ sock[match[t]] # "none"
        /\ looked' \in SUBSET Sockets
    BY <1>1 DEF IInv, TypeOK, MadeInv
  <1> QED  BY <1>1, <1>2, <1>4, <1>5, <1>6, <1>7, InsideStep

(* Parse() makes a socket.                                                  *)
LEMMA MakeStep ==
    ASSUME IInv, NEW t \in Threads, ParseMake(t), UNCHANGED threw
    PROVE  IInv'
  <1> USE ThreadsAssumption DEF ThreadsAssumption, ParseMake
  <1> DEFINE forGame == t \in Sockets /\ ~Alive(t)
             s == NewSocket
  <1>1. CASE mainPc \in {"clear", "members"}
    BY <1>1, CrashStep DEF Destroying
  <1>2. CASE mainPc \notin {"clear", "members"}
    <2>1. /\ Make(line[t], forGame) /\ thread[t] = "parse"
          /\ thread' = [thread EXCEPT ![t] = "send"]
          /\ match' = [match EXCEPT ![t] = s]
          /\ UNCHANGED <<mainPc, mutex, line, looked, events, crashed>>
      BY <1>2
    <2>2. line[t] \in Line /\ Matches(line[t]) = {}
      BY <2>1 DEF IInv, SearchInv, Matches, Under, TableInv, Line, Threads
    <2>3. forGame \in BOOLEAN
      BY Zenon DEF forGame
    <2> HIDE DEF forGame
    <2>4. s \in Sockets /\ MadeAs(s, line[t], forGame)
      BY <2>1, <2>2, <2>3, MakeMakes DEF IInv
    <2> HIDE DEF s, ParseMake
    <2>5. /\ TableInv' /\ OneSocketPerPeer'
          /\ \A u \in Sockets : sock'[u] = "none" <=> protocols'[u] = {}
          /\ \A u \in Listed' : sock'[u] # "none"
      BY <2>2, <2>3, <2>4, MadeTable DEF IInv
    <2>6. thread[t] \in InParse
      BY <2>1 DEF InParse
    <2>7. mutex = t /\ \A u \in Threads : u # t => thread[u] \notin InParse
      BY <2>6, OneParses
    <2>8. \A u \in Threads : /\ thread'[u] = IF u = t THEN "send" ELSE thread[u]
                             /\ match'[u] = IF u = t THEN s ELSE match[u]
      BY <2>1 DEF IInv, TypeOK
    <2>9. t # Main /\ match'[Main] = match[Main]
      BY <2>1 DEF IInv, TypeOK, Threads
    <2>10. \A u \in Sockets : sock'[u] = IF u = s THEN "connecting" ELSE sock[u]
      BY <2>4 DEF MadeAs, IInv, TypeOK
    <2>11. TypeOK'
      <3>1. /\ thread' \in [Threads -> {"idle", "register", "ask"} \cup InParse]
            /\ match' \in [Threads \cup {Main} -> Sockets \cup {NoSocket}]
        BY <2>1, <2>4 DEF IInv, TypeOK, InParse
      <3> QED  BY <2>1, <2>2, <2>3, <2>4, <3>1 DEF IInv, TypeOK, MadeAs, Line
    <2>12. LockInv'
      BY <2>1, <2>7, <2>8 DEF IInv, LockInv
    <2>13. SearchInv'
      BY <2>1, <2>2, <2>7, <2>8 DEF IInv, SearchInv, InParse, Joining
    <2>14. MadeInv'
      <3>1. \A u \in Threads \cup {Main} : match'[u] # NoSocket =>
                match'[u] \in Sockets /\ (match'[u] = s \/ sock[match'[u]] # "none")
        BY <2>4, <2>8, <2>9 DEF IInv, MadeInv, TypeOK
      <3> QED  BY <2>5, <2>10, <3>1 DEF MadeInv
    <2>15. EarlyInv'
      <3>1. mainPc \notin Destroying => ~forGame
        BY <2>1 DEF forGame, IInv, EarlyInv, Alive
      <3>2. mainPc \notin Destroying => thread[s] = "idle"
        BY <2>4 DEF IInv, EarlyInv, MadeAs
      <3>3. Listed' = Listed \cup {s}
        BY <2>4 DEF MadeAs
      <3>4. \A u \in Sockets :
               isGameConnection'[u] = IF u = s THEN forGame ELSE isGameConnection[u]
        BY <2>3, <2>4 DEF MadeAs, IInv, TypeOK
      <3>5. \A u \in Sockets : thread'[u] # "idle" => thread[u] # "idle"
        BY <2>1, <2>8 DEF Threads
      <3>6. \A u \in Threads : thread'[u] \in Joining => thread[u] \in Joining
        BY <2>8 DEF Joining
      <3> QED
        BY <2>1, <2>9, <2>10, <3>1, <3>2, <3>3, <3>4, <3>5, <3>6 DEF IInv, EarlyInv
    <2> QED  BY <2>5, <2>11, <2>12, <2>13, <2>14, <2>15 DEF IInv
  <1> QED  BY <1>1, <1>2

(* A callback returns.                                                      *)
LEMMA ReturnStep ==
    ASSUME IInv, NEW t \in Threads, Return(t), match[t] = NoSocket,
           \/ thread[t] = "send" /\ mutex' = Free
           \/ thread[t] = "register" /\ mutex = Free /\ mutex' = Free,
           looked' \in SUBSET Sockets,
           UNCHANGED <<mainPc, match, events, socketVars, tableVars, threw>>
    PROVE  IInv'
  <1> USE ThreadsAssumption DEF ThreadsAssumption, Return
  <1>1. thread[t] \in InParse \/ mutex = Free
    BY DEF InParse
  <1>2. /\ mutex # Main
        /\ \A u \in Threads : u # t => thread[u] \notin InParse
    <2>1. CASE thread[t] \in InParse
      BY <2>1, OneParses
    <2>2. CASE mutex = Free
      BY <2>2 DEF IInv, LockInv, Main, Free
    <2> QED  BY <1>1, <2>1, <2>2
  <1>3. \A u \in Threads : /\ thread'[u] = IF u = t THEN "idle" ELSE thread[u]
                           /\ u # t => line'[u] = line[u]
    BY DEF IInv, TypeOK
  <1>4. line'[Main] = line[Main]
    BY DEF IInv, TypeOK
  <1>5. crashed' \in BOOLEAN
    BY Zenon
  <1>6. TypeOK'
    BY <1>5 DEF IInv, TypeOK, socketVars, tableVars
  <1>7. TableInv' /\ OneSocketPerPeer' /\ Listed' = Listed
    BY StillStep
  <1>8. \A u \in Threads : thread'[u] \notin InParse
    <2>1. "idle" \notin InParse
      BY DEF InParse, Joining
    <2>2. \A u \in Threads : thread'[u] = IF u = t THEN "idle" ELSE thread[u]
      BY <1>3
    <2> HIDE DEF Return
    <2> QED  BY <1>2, <2>1, <2>2
  <1>9. LockInv'
    BY <1>2, <1>8 DEF IInv, LockInv, Main, Free
  <1>10. SearchInv'
    BY <1>3, <1>4, <1>8 DEF IInv, SearchInv, InParse, Joining
  <1>11. MadeInv'
    BY <1>7 DEF IInv, MadeInv, socketVars
  <1>12. EarlyInv'
    <2>1. mainPc \notin Destroying => ~crashed'
      BY DEF IInv, EarlyInv, Alive
    <2>2. \A u \in Sockets : thread'[u] # "idle" => thread[u] # "idle"
      BY <1>3 DEF Threads
    <2> QED  BY <1>7, <1>8, <2>1, <2>2 DEF IInv, EarlyInv, InParse, socketVars
  <1> QED  BY <1>6, <1>7, <1>9, <1>10, <1>11, <1>12 DEF IInv

(* Sockets end; whoever holds them stays.                                   *)
LEMMA EndingStep ==
    ASSUME IInv, UNCHANGED <<peer, protocols, isGameConnection, socketsByProtocol>>,
           mainPc' \in Destroying,
           clients' \in Seq(Sockets), Listed' \subseteq Listed,
           NEW s \in Sockets, sock[s] # "none",
           NEW life \in {sock[s], "aborting", "stopping", "gone"},
           sock' = [sock EXCEPT ![s] = life],
           \A u \in Threads \cup {Main} : match'[u] \in {match[u], s, NoSocket}
    PROVE  /\ sock' \in [Sockets -> {"none", "connecting", "open", "aborting",
                                     "stopping", "gone"}]
           /\ MadeInv' /\ TableInv' /\ EarlyInv' /\ OneSocketPerPeer'
           /\ \A u \in Sockets : Alive(u)' => Alive(u)
  <1>1. \A u \in Sockets : sock'[u] = IF u = s THEN life ELSE sock[u]
    BY DEF IInv, TypeOK
  <1>2. sock' \in [Sockets -> {"none", "connecting", "open", "aborting",
                               "stopping", "gone"}]
    BY DEF IInv, TypeOK
  <1>3. \A u \in Sockets : Alive(u)' => Alive(u)
    BY <1>1 DEF Alive
  <1>4. Quiet
    BY <1>1, <1>3 DEF Quiet
  <1>5. TableInv' /\ OneSocketPerPeer'
    BY <1>4, QuietTable DEF IInv
  <1>6. MadeInv'
    <2>1. Listed \subseteq Sockets
      BY DEF IInv, TypeOK, Listed
    <2>2. \A u \in Threads \cup {Main} : match[u] \in Sockets \cup {NoSocket}
      BY DEF IInv, TypeOK
    <2>3. \A u \in Sockets : sock'[u] = "none" => sock[u] = "none"
      BY <1>1
    <2> QED  BY <1>1, <2>1, <2>2, <2>3 DEF IInv, MadeInv
  <1>7. EarlyInv'
    BY DEF EarlyInv
  <1> QED  BY <1>2, <1>3, <1>5, <1>6, <1>7

(* Parse() drops the last reference to a socket, which the destructor took  *)
(* from _clients.                                                           *)
LEMMA LastStep ==
    ASSUME IInv, NEW t \in Threads, ParseDropLast(t), UNCHANGED threw
    PROVE  IInv'
  <1> USE ThreadsAssumption DEF ThreadsAssumption, ParseDropLast
  <1> DEFINE pc == IF thread[t] = "search" THEN "joinSearch" ELSE "joinSend"
  <1>1. match[t] \in Sockets /\ match[t] \notin Listed /\ sock[match[t]] # "none"
    BY DEF LastHolder, IInv, TypeOK, MadeInv
  <1>2. mainPc' \in Destroying
    BY <1>1 DEF IInv, EarlyInv
  <1>3. PICK life \in {"aborting", "stopping", "gone"} :
           sock' = [sock EXCEPT ![match[t]] = life]
    BY DEF Dying
  <1>4. Listed' = Listed /\ clients' \in Seq(Sockets)
    BY DEF tableVars, Listed, IInv, TypeOK
  <1>5. /\ sock' \in [Sockets -> {"none", "connecting", "open", "aborting",
                                  "stopping", "gone"}]
        /\ MadeInv' /\ TableInv' /\ EarlyInv' /\ OneSocketPerPeer'
    BY <1>1, <1>2, <1>3, <1>4, EndingStep DEF tableVars
  <1>6. thread' = [thread EXCEPT ![t] = pc] /\ pc \in Joining
    BY DEF IInv, TypeOK, Joining
  <1>7. thread[t] \in InParse /\ pc \in InParse
    BY DEF InParse, Joining
  <1>8. thread[t] \notin {"idle", "register"} /\ pc # "parse"
    OBVIOUS
  <1> HIDE DEF pc
  <1>9. TypeOK'
    BY <1>4, <1>5, <1>6, <1>7 DEF IInv, TypeOK, tableVars
  <1>10. \A u \in Threads : thread'[u] = IF u = t THEN pc ELSE thread[u]
    BY <1>6 DEF IInv, TypeOK
  <1>11. LockInv'
    BY <1>7, <1>10 DEF IInv, LockInv
  <1>12. SearchInv'
    <2>1. \A u \in Threads : u # t => thread[u] \notin InParse
      BY <1>7, OneParses
    <2>2. \A u \in Threads : thread'[u] # "parse"
      BY <1>8, <1>10, <2>1 DEF InParse
    <2>3. pc \notin {"idle", "register", "ask"}
      BY <1>6 DEF Joining
    <2> QED  BY <1>1, <1>8, <1>10, <2>2, <2>3 DEF IInv, SearchInv
  <1> QED  BY <1>5, <1>9, <1>11, <1>12 DEF IInv

(* And it has been joined.                                                  *)
LEMMA JoinedStep ==
    ASSUME IInv, NEW t \in Threads, ParseJoined(t), UNCHANGED threw
    PROVE  IInv'
  <1> USE ThreadsAssumption DEF ThreadsAssumption, ParseJoined
  <1> DEFINE pc == IF thread[t] = "joinSearch" THEN "search" ELSE "send"
  <1>1. match[t] \in Sockets /\ sock[match[t]] # "none"
    BY DEF IInv, SearchInv, MadeInv, Threads
  <1>2. mainPc \in Destroying
    BY DEF IInv, EarlyInv
  <1>3. Listed' = Listed /\ clients' \in Seq(Sockets)
    BY DEF tableVars, Listed, IInv, TypeOK
  <1>4. match' = [match EXCEPT ![t] = NoSocket]
        /\ \A u \in Threads : match'[u] = IF u = t THEN NoSocket ELSE match[u]
    BY DEF IInv, TypeOK
  <1>5. \A u \in Threads \cup {Main} : match'[u] \in {match[u], match[t], NoSocket}
    BY DEF IInv, TypeOK
  <1>6. UNCHANGED <<peer, protocols, isGameConnection, socketsByProtocol, mainPc>>
    BY DEF tableVars
  <1>7. /\ sock' \in [Sockets -> {"none", "connecting", "open", "aborting",
                                  "stopping", "gone"}]
        /\ MadeInv' /\ TableInv' /\ EarlyInv' /\ OneSocketPerPeer'
    BY <1>1, <1>2, <1>3, <1>5, <1>6, EndingStep
  <1>8. thread' = [thread EXCEPT ![t] = pc] /\ pc \in {"search", "send"}
    BY DEF IInv, TypeOK
  <1> HIDE DEF pc
  <1>9. thread[t] \in InParse /\ pc \in InParse
    BY <1>8 DEF InParse
  <1>10. TypeOK'
    BY <1>3, <1>4, <1>6, <1>7, <1>8, <1>9 DEF IInv, TypeOK
  <1>11. \A u \in Threads : thread'[u] = IF u = t THEN pc ELSE thread[u]
    BY <1>8 DEF IInv, TypeOK
  <1>12. LockInv'
    BY <1>6, <1>9, <1>11 DEF IInv, LockInv
  <1>13. SearchInv'
    <2>1. \A u \in Threads : u # t => thread[u] \notin InParse
      BY <1>9, OneParses
    <2>2. line[t] \in Line /\ line' = line
      BY DEF IInv, SearchInv, Joining
    <2> QED  BY <1>4, <1>6, <1>8, <1>11, <2>1, <2>2 DEF IInv, SearchInv, InParse, Joining
  <1> QED  BY <1>7, <1>10, <1>12, <1>13 DEF IInv

(* A request arrives.                                                       *)
LEMMA AskStep ==
    ASSUME IInv, NEW t \in Threads, Ask(t), UNCHANGED threw
    PROVE  IInv'
  <1> USE ThreadsAssumption DEF ThreadsAssumption, Ask, MayAsk
  <1>1. PICK l \in Line : line' = [line EXCEPT ![t] = l]
    OBVIOUS
  <1>2. TableInv' /\ OneSocketPerPeer' /\ Listed' = Listed /\ \A s : Alive(s)' = Alive(s)
    BY StillStep
  <1>3. TypeOK'
    BY <1>1, EventsAssumption DEF EventsAssumption, IInv, TypeOK, socketVars, tableVars
  <1>4. \A u \in Threads : /\ thread'[u] = IF u = t THEN "ask" ELSE thread[u]
                           /\ line'[u] = IF u = t THEN l ELSE line[u]
    BY <1>1 DEF IInv, TypeOK
  <1>5. LockInv'
    BY <1>4 DEF IInv, LockInv, InParse, Joining
  <1>6. SearchInv'
    <2>1. line'[Main] = line[Main]
      BY <1>1 DEF IInv, TypeOK
    <2>2. match'[t] = NoSocket
      BY DEF IInv, SearchInv
    <2> QED  BY <1>2, <1>4, <2>1, <2>2 DEF IInv, SearchInv, Joining, socketVars
  <1>7. MadeInv'
    BY <1>2 DEF IInv, MadeInv, socketVars
  <1>8. EarlyInv'
    <2>1. t \in Sockets => t \notin Webapps
      OBVIOUS
    <2> QED  BY <1>2, <1>4, <2>1 DEF IInv, EarlyInv, Joining, socketVars, Threads
  <1> QED  BY <1>2, <1>3, <1>5, <1>6, <1>7, <1>8 DEF IInv

(* A socket connects, or loses its connection and connects again.           *)
LEMMA ConnectStep ==
    ASSUME IInv, NEW s \in Sockets, Connect(s) \/ Reconnect(s), UNCHANGED threw
    PROVE  IInv'
  <1> USE ThreadsAssumption DEF ThreadsAssumption
  <1> DEFINE life == IF sock[s] = "connecting" THEN "open" ELSE "connecting"
  <1>1. /\ Alive(s) /\ thread[s] = "idle" /\ s \in Threads
        /\ sock' = [sock EXCEPT ![s] = life]
        /\ thread' = [thread EXCEPT ![s] = IF life = "open" THEN "register" ELSE "idle"]
        /\ UNCHANGED <<mainPc, mutex, line, match, looked, peer, protocols,
                       isGameConnection, tableVars, crashed>>
        /\ events' \in {events, events + 1} /\ events' \in 0..MaxEvents
    <2>1. CASE Connect(s)
      BY <2>1 DEF Connect, Alive, Threads, IInv, TypeOK
    <2>2. CASE Reconnect(s)
      <3>1. s \in Threads /\ life = "connecting" /\ Alive(s)
        BY <2>2 DEF Reconnect, Alive, Threads
      <3>2. events' = events + 1 /\ events' \in 0..MaxEvents
        BY <2>2, EventsAssumption DEF EventsAssumption, Reconnect, IInv, TypeOK
      <3>3. thread' = [thread EXCEPT ![s] = "idle"]
        <4>1. thread' = thread /\ thread[s] = "idle"
          BY <2>2 DEF Reconnect, threadVars
        <4> QED  BY <3>1, <4>1 DEF IInv, TypeOK
      <3> QED  BY <2>2, <3>1, <3>2, <3>3 DEF Reconnect, threadVars
    <2> QED  BY <2>1, <2>2
  <1>2. life \in {"open", "connecting"}
    OBVIOUS
  <1>3. \A u \in Sockets : sock'[u] = IF u = s THEN life ELSE sock[u]
    BY <1>1 DEF IInv, TypeOK
  <1>4. \A u \in Sockets : Alive(u)' = Alive(u)
    BY <1>1, <1>2, <1>3 DEF Alive
  <1>5. Quiet
    BY <1>1, <1>2, <1>3, <1>4 DEF Quiet, Alive, tableVars
  <1>6. TableInv' /\ OneSocketPerPeer'
    BY <1>5, QuietTable DEF IInv
  <1>7. TypeOK'
    BY <1>1, <1>2 DEF IInv, TypeOK, tableVars
  <1>8. \A u \in Threads :
           thread'[u] = IF u = s /\ life = "open" THEN "register" ELSE thread[u]
    BY <1>1 DEF IInv, TypeOK
  <1>9. LockInv' /\ SearchInv'
    BY <1>1, <1>4, <1>8 DEF IInv, LockInv, SearchInv, InParse, Joining
  <1>10. Listed' = Listed /\ Listed \subseteq Sockets
    BY <1>1 DEF Listed, tableVars, IInv, TypeOK
  <1>11. MadeInv'
    <2>1. \A u \in Sockets : sock'[u] = "none" <=> sock[u] = "none"
      BY <1>5 DEF Quiet
    <2>2. \A u \in Threads \cup {Main} : match[u] \in Sockets \cup {NoSocket}
      BY DEF IInv, TypeOK
    <2> QED  BY <1>1, <1>10, <2>1, <2>2 DEF IInv, MadeInv
  <1>12. EarlyInv'
    <2>1. ASSUME mainPc \notin Destroying
          PROVE  /\ \A u \in Sockets : sock'[u] \in {"none", "connecting", "open"}
                 /\ \A u \in Sockets : sock'[u] # "none" => u \in Listed
                 /\ \A u \in Sockets : thread'[u] # "idle" => sock'[u] = "open"
      BY <1>1, <1>2, <1>3, <1>8, <2>1 DEF IInv, EarlyInv, Threads, Alive
    <2>2. \A t \in Threads : thread'[t] \in Joining => thread[t] \in Joining
      BY <1>8 DEF Joining
    <2> QED  BY <1>1, <1>10, <2>1, <2>2 DEF IInv, EarlyInv
  <1> QED  BY <1>6, <1>7, <1>9, <1>11, <1>12 DEF IInv

(* A socket is registered, or its callback comes too late.                  *)
LEMMA RegisterStep ==
    ASSUME IInv, NEW s \in Sockets, Register(s) \/ ConnectLate(s), UNCHANGED threw
    PROVE  IInv'
  <1>1. CASE ConnectLate(s)
    <2>1. mainPc \in Destroying
      BY <1>1 DEF ConnectLate, IInv, EarlyInv
    <2> QED  BY <1>1, <2>1, CrashStep DEF ConnectLate
  <1>2. CASE Register(s) /\ mainPc = "members"
    BY <1>2, CrashStep DEF Register, Destroying, threadVars
  <1>3. CASE Register(s) /\ mainPc # "members"
    <2>1. s \in Threads /\ thread[s] = "register" /\ mutex = Free /\ mutex' = Free
          /\ Return(s) /\ UNCHANGED <<mainPc, match, looked, events, socketVars, tableVars>>
      BY <1>3 DEF Register, Threads
    <2>2. match[s] = NoSocket /\ looked' \in SUBSET Sockets
      BY <2>1 DEF IInv, SearchInv, TypeOK
    <2> QED  BY <2>1, <2>2, ReturnStep
  <1> QED  BY <1>1, <1>2, <1>3

-----------------------------------------------------------------------------
(* The main thread.                                                         *)

(* Parse() called by main.                                                  *)
LEMMA MainParseStep ==
    ASSUME IInv, MainParse, UNCHANGED threw
    PROVE  IInv'
  <1> USE ThreadsAssumption DEF ThreadsAssumption, MainParse
  <1> DEFINE l == line'[Main]
  <1>1. /\ l \in Line /\ line' \in [Threads \cup {Main} -> Line \cup {NoLine}]
        /\ \A t \in Threads : line'[t] = line[t]
    BY DEF IInv, TypeOK, SearchInv, Main
  <1>2. mainPc' = "scan" /\ mainPc \in {"loop", "scan"} /\ mutex = Free
    BY DEF MainParsed
  <1>3. \A t \in Threads : thread[t] \notin InParse
    BY <1>2 DEF IInv, LockInv, Free
  <1>4. LockInv' /\ SearchInv'
    BY <1>1, <1>2, <1>3 DEF IInv, LockInv, SearchInv, InParse, Joining, Main, Free
  <1>5. CASE UNCHANGED <<socketVars, tableVars>>
    <2>1. TableInv' /\ OneSocketPerPeer' /\ Listed' = Listed
      BY <1>5, StillStep
    <2>2. TypeOK'
      BY <1>1, <1>2, <1>5 DEF IInv, TypeOK, socketVars, tableVars
    <2>3. MadeInv' /\ EarlyInv'
      BY <1>2, <1>5, <2>1 DEF IInv, MadeInv, EarlyInv, socketVars, Destroying
    <2> QED  BY <1>4, <2>1, <2>2, <2>3 DEF IInv
  <1>6. ASSUME NEW s \in Matches(l), Reuse(s, l)
        PROVE  UNCHANGED <<socketVars, tableVars>>
    BY <1>1, <1>6, ReuseChangesNothing DEF IInv, Matches, Under
  <1>7. CASE Matches(l) = {} /\ Make(l, TRUE)
    <2>1. PICK s \in Sockets : MadeAs(s, l, TRUE)
      <3> HIDE DEF l, MainParse
      <3> QED  BY <1>1, <1>7, MakeMakes DEF IInv
    <2>2. /\ TableInv' /\ OneSocketPerPeer'
          /\ \A u \in Sockets : sock'[u] = "none" <=> protocols'[u] = {}
          /\ \A u \in Listed' : sock'[u] # "none"
      <3> HIDE DEF l
      <3> QED  BY <1>1, <1>7, <2>1, MadeTable DEF IInv
    <2>3. TypeOK'
      <3> HIDE DEF l
      <3> QED  BY <1>1, <1>2, <2>1 DEF IInv, TypeOK, MadeAs, Line
    <2>4. \A u \in Sockets : sock'[u] = IF u = s THEN "connecting" ELSE sock[u]
      BY <2>1 DEF MadeAs, IInv, TypeOK
    <2>5. MadeInv'
      BY <2>2, <2>3, <2>4 DEF IInv, MadeInv, TypeOK
    <2>6. EarlyInv'
      <3>1. Listed' = Listed \cup {s} /\ sock[s] = "none"
        BY <2>1 DEF MadeAs
      <3>2. mainPc \notin Destroying
        BY <1>2 DEF Destroying
      <3> QED  BY <1>2, <2>4, <3>1, <3>2 DEF IInv, EarlyInv
    <2> QED  BY <1>4, <2>2, <2>3, <2>5, <2>6 DEF IInv
  <1> QED  BY <1>5, <1>6, <1>7 DEF MainParsed

(* Where main is changes, and perhaps who owns the lock.                    *)
LEMMA MoveStep ==
    ASSUME IInv,
           UNCHANGED <<thread, line, match, looked, events, socketVars, tableVars,
                       crashed, threw>>,
           mainPc' # "scan",
           \/ mutex = Free /\ mutex' = Main /\ mainPc' = "closing"
           \/ mainPc = "closing" /\ mutex' = Free /\ mainPc' = "loop"
           \/ mutex' = mutex /\ mainPc # "closing" /\ mainPc' \in Destroying,
           mainPc' \in Destroying \/ mainPc \in {"loop", "closing"}
    PROVE  IInv'
  <1> USE ThreadsAssumption DEF ThreadsAssumption
  <1>1. TableInv' /\ OneSocketPerPeer' /\ Listed' = Listed /\ \A s : Alive(s)' = Alive(s)
    BY StillStep
  <1>2. TypeOK'
    BY DEF IInv, TypeOK, socketVars, tableVars
  <1>3. LockInv'
    BY DEF IInv, LockInv, Main, Free, Destroying
  <1>4. SearchInv' /\ MadeInv'
    BY <1>1 DEF IInv, SearchInv, MadeInv, socketVars
  <1>5. EarlyInv'
    BY <1>1 DEF IInv, EarlyInv, socketVars, Destroying
  <1> QED  BY <1>1, <1>2, <1>3, <1>4, <1>5 DEF IInv

(* The destructor drops one reference.                                      *)
LEMMA EraseStep ==
    ASSUME IInv, mainPc \in Destroying, NEW i \in 1..Len(clients), Erase(i),
           UNCHANGED <<mainPc, mutex, thread, line, looked, events, crashed, threw>>
    PROVE  IInv'
  <1> USE ThreadsAssumption DEF ThreadsAssumption, Erase
  <1> DEFINE s == clients[i]
  <1>1. clients \in Seq(Sockets)
    BY DEF IInv, TypeOK
  <1>2. clients' \in Seq(Sockets) /\ Listed' \subseteq Listed
    <2>1. clients' = SubSeq(clients, 1, i - 1) \o SubSeq(clients, i + 1, Len(clients))
      OBVIOUS
    <2> HIDE DEF Erase
    <2> QED  BY <2>1, RemoveElement DEF IInv
  <1>3. s \in Sockets /\ sock[s] # "none"
    BY <1>1 DEF IInv, MadeInv, Listed
  <1>4. PICK life \in {sock[s], "aborting", "stopping", "gone"} :
           sock' = [sock EXCEPT ![s] = life]
    <2>1. CASE HeldWithout(Main, s)
      BY <1>3, <2>1 DEF IInv, TypeOK
    <2>2. CASE ~HeldWithout(Main, s)
      BY <1>3, <2>2 DEF Dying
    <2> QED  BY <2>1, <2>2
  <1>5. match' = match \/ match' = [match EXCEPT ![Main] = s]
    OBVIOUS
  <1> HIDE DEF s
  <1>6. \A u \in Threads \cup {Main} : match'[u] \in {match[u], s, NoSocket}
    BY <1>5 DEF IInv, TypeOK
  <1>7. \A u \in Threads : match'[u] = match[u]
    BY <1>5 DEF IInv, TypeOK
  <1>8. /\ sock' \in [Sockets -> {"none", "connecting", "open", "aborting",
                                  "stopping", "gone"}]
        /\ MadeInv' /\ TableInv' /\ EarlyInv' /\ OneSocketPerPeer'
        /\ \A u \in Sockets : Alive(u)' => Alive(u)
    BY <1>2, <1>3, <1>4, <1>6, EndingStep
  <1>9. TypeOK'
    BY <1>2, <1>3, <1>5, <1>8 DEF IInv, TypeOK
  <1>10. LockInv' /\ SearchInv'
    BY <1>7, <1>8 DEF IInv, LockInv, SearchInv
  <1> QED  BY <1>8, <1>9, <1>10 DEF IInv

(* Main has joined a thread.                                                *)
LEMMA MainJoinedStep ==
    ASSUME IInv, MainJoined, UNCHANGED threw
    PROVE  IInv'
  <1> USE ThreadsAssumption DEF ThreadsAssumption, MainJoined, Busy
  <1>1. mainPc \in Destroying
    BY DEF IInv, EarlyInv
  <1>2. match[Main] \in Sockets /\ sock[match[Main]] # "none"
    BY DEF IInv, TypeOK, MadeInv
  <1>3. clients' \in Seq(Sockets) /\ Listed' = Listed
    BY DEF IInv, TypeOK, tableVars, Listed
  <1>4. /\ \A u \in Threads : match'[u] = match[u]
        /\ match'[Main] = NoSocket
    BY DEF IInv, TypeOK
  <1>5. \A u \in Threads \cup {Main} : match'[u] \in {match[u], match[Main], NoSocket}
    BY <1>4
  <1>6. UNCHANGED <<peer, protocols, isGameConnection, socketsByProtocol, mainPc>>
    BY DEF tableVars
  <1>7. /\ sock' \in [Sockets -> {"none", "connecting", "open", "aborting",
                                  "stopping", "gone"}]
        /\ MadeInv' /\ TableInv' /\ EarlyInv' /\ OneSocketPerPeer'
        /\ \A u \in Sockets : Alive(u)' => Alive(u)
    BY <1>1, <1>2, <1>3, <1>5, <1>6, EndingStep
  <1>8. TypeOK'
    BY <1>3, <1>6, <1>7 DEF IInv, TypeOK
  <1>9. LockInv' /\ SearchInv'
    BY <1>4, <1>6, <1>7 DEF IInv, LockInv, SearchInv
  <1> QED  BY <1>7, <1>8, <1>9 DEF IInv

(* The destructor empties _clients.                                         *)
LEMMA ClearStep ==
    ASSUME IInv, NEW here \in Destroying, NEW next \in Destroying, Clear(here, next),
           UNCHANGED threw
    PROVE  IInv'
  <1>1. CASE clients # <<>> /\ Erase(1) /\ UNCHANGED mainPc
    <2>1. 1 \in 1..Len(clients)
      BY <1>1 DEF IInv, TypeOK
    <2> QED  BY <1>1, <2>1, EraseStep DEF Clear
  <1>2. CASE mainPc' = next /\ UNCHANGED <<clients, match, socketVars, tableVars>>
    BY <1>2, MoveStep DEF Clear, Destroying
  <1> QED  BY <1>1, <1>2 DEF Clear, Erase, socketVars, tableVars

(* main closes a game, which erases nothing, and calls the destructor.      *)
LEMMA MainMoves ==
    ASSUME IInv, OnGameClosed \/ EraseForGame \/ ErasedForGame \/ MainExit \/ MainStop,
           UNCHANGED threw
    PROVE  IInv'
  <1>1. CASE OnGameClosed
    BY <1>1, MoveStep DEF OnGameClosed
  <1>2. CASE EraseForGame
    <2>1. \A i \in 1..Len(clients) : clients[i] \in Sockets
      BY DEF IInv, TypeOK
    <2> QED  BY <1>2, <2>1 DEF EraseForGame, IInv, EarlyInv, Destroying
  <1>3. CASE ErasedForGame
    BY <1>3, MoveStep DEF ErasedForGame
  <1>4. CASE MainExit
    BY <1>4, MoveStep DEF MainExit, Destroying, threadVars
  <1>5. CASE MainStop
    BY <1>5, MoveStep DEF MainStop, Destroying, threadVars
  <1> QED  BY <1>1, <1>2, <1>3, <1>4, <1>5

-----------------------------------------------------------------------------
(* All steps.                                                               *)
LEMMA NextStep ==
    ASSUME IInv, [Next]_vars
    PROVE  IInv'
  <1>1. CASE UNCHANGED vars
    <2>1. UNCHANGED <<socketVars, tableVars>>
      BY <1>1 DEF vars
    <2>2. TableInv' /\ OneSocketPerPeer' /\ Listed' = Listed /\ \A s : Alive(s)' = Alive(s)
      BY <2>1, StillStep
    <2>3. TypeOK'
      BY <1>1 DEF IInv, TypeOK, vars, threadVars, socketVars, tableVars
    <2>4. LockInv' /\ SearchInv' /\ MadeInv' /\ EarlyInv'
      BY <1>1, <2>2
         DEF IInv, LockInv, SearchInv, MadeInv, EarlyInv, vars, threadVars, socketVars
    <2> QED  BY <2>2, <2>3, <2>4 DEF IInv
  <1>2. ASSUME NEW t \in Threads, ThreadStep(t) \/ Ask(t), UNCHANGED threw
        PROVE  IInv'
    <2>1. CASE ParseEnter(t) \/ ParseLook(t) \/ ParseDrop(t) \/ ParseFound(t)
      BY <1>2, <2>1, EnterStep, LookStep, FoundStep
    <2>2. CASE ParseMake(t) \/ ParseReuse(t) \/ Ask(t)
      BY <1>2, <2>2, MakeStep, ReuseStep, AskStep
    <2>3. CASE ParseDropLast(t) \/ ParseJoined(t)
      BY <1>2, <2>3, LastStep, JoinedStep
    <2>4. CASE ParseReturn(t)
      <3>1. /\ Return(t) /\ match[t] = NoSocket /\ thread[t] = "send" /\ mutex' = Free
            /\ looked' \in SUBSET Sockets
            /\ UNCHANGED <<mainPc, match, events, socketVars, tableVars>>
        BY <2>4 DEF ParseReturn
      <3> QED  BY <1>2, <3>1, ReturnStep
    <2>5. CASE t \in Sockets /\ Register(t)
      BY <1>2, <2>5, RegisterStep
    <2> QED  BY <1>2, <2>1, <2>2, <2>3, <2>4, <2>5 DEF ThreadStep
  <1>3. ASSUME NEW s \in Sockets, Connect(s) \/ ConnectLate(s) \/ Reconnect(s),
               UNCHANGED threw
        PROVE  IInv'
    BY <1>3, ConnectStep, RegisterStep
  <1>4. CASE (MainStep \/ OnGameClosed \/ MainExit) /\ UNCHANGED threw
    <2>1. /\ "clear" \in Destroying /\ "stop" \in Destroying
          /\ "members" \in Destroying /\ "done" \in Destroying
      BY DEF Destroying
    <2>2. CASE Clear("clear", "stop") \/ Clear("members", "done")
      BY <1>4, <2>1, <2>2, ClearStep
    <2> QED
      BY <1>4, <2>2, MainParseStep, MainJoinedStep, MainMoves DEF MainStep
  <1>5. CASE ParseThrows
    <2>1. UNCHANGED <<mainPc, threadVars, events, socketVars, tableVars, crashed>>
          /\ threw' = TRUE
      BY <1>5 DEF ParseThrows
    <2>2. TableInv' /\ OneSocketPerPeer' /\ Listed' = Listed /\ \A s : Alive(s)' = Alive(s)
      BY <2>1, StillStep
    <2>3. TypeOK'
      BY <2>1 DEF IInv, TypeOK, threadVars, socketVars, tableVars
    <2>4. LockInv' /\ SearchInv' /\ MadeInv' /\ EarlyInv'
      BY <2>1, <2>2
         DEF IInv, LockInv, SearchInv, MadeInv, EarlyInv, threadVars, socketVars
    <2> QED  BY <2>2, <2>3, <2>4 DEF IInv
  <1> QED  BY <1>1, <1>2, <1>3, <1>4, <1>5 DEF Next

(* The invariant holds always.                                              *)
LEMMA Always == Spec => []IInv
  <1>1. Init => IInv
    BY InitInv
  <1>2. IInv /\ [Next]_vars => IInv'
    BY NextStep
  <1> QED  BY <1>1, <1>2, PTL DEF Spec

(* Type correctness, with the discipline of the lock.                       *)
THEOREM TypeCorrect == Spec => [](TypeOK /\ LockInv)
  <1>1. IInv => TypeOK /\ LockInv
    BY DEF IInv
  <1> QED  BY <1>1, Always, PTL

(* No peer has two live sockets for one protocol, whoever asks for it at    *)
(* once and however often sockets reconnect.                                *)
THEOREM OneSocketEach == Spec => []OneSocketPerPeer
  <1>1. IInv => OneSocketPerPeer
    BY DEF IInv
  <1> QED  BY <1>1, Always, PTL

(* socketsByProtocol and the sockets agree, in the destructor too, and the  *)
(* branch of Parse() that adds a protocol to a socket cannot be reached.    *)
THEOREM TablesAgree == Spec => []EntriesAgree
  <1>1. IInv => EntriesAgree
    <2> SUFFICES ASSUME IInv PROVE EntriesAgree
      OBVIOUS
    <2>1. Len(socketsByProtocol) = Cardinality(Entries)
      BY DEF IInv, TableInv
    <2>2. ASSUME NEW s \in Sockets
          PROVE  /\ {p \in Protocols : <<p, s>> \in Entries} = protocols[s]
                 /\ sock[s] = "none" <=> protocols[s] = {}
                 /\ Cardinality(protocols[s]) <= 1
      <3>1. protocols[s] \subseteq Protocols
        BY DEF IInv, TypeOK
      <3>2. {p \in Protocols : <<p, s>> \in Entries} = protocols[s]
        BY <3>1 DEF IInv, TableInv
      <3>3. CASE protocols[s] = {}
        BY <3>2, <3>3, FS_EmptySet DEF IInv, MadeInv
      <3>4. ASSUME NEW p \in protocols[s]
            PROVE  protocols[s] = {p}
        BY DEF IInv, TableInv
      <3>5. CASE protocols[s] # {}
        <4>1. PICK p : protocols[s] = {p}
          BY <3>4, <3>5
        <4>2. Cardinality(protocols[s]) = 1
          BY <4>1, FS_Singleton
        <4> QED  BY <3>2, <4>2 DEF IInv, MadeInv
      <3> QED  BY <3>3, <3>5
    <2> QED  BY <2>1, <2>2 DEF EntriesAgree
  <1> QED  BY <1>1, Always, PTL

(* No callback meets a destroyed socket before the destructor runs.         *)
THEOREM CrashesAtExit == Spec => []CrashOnlyAtExit
  <1>1. IInv => CrashOnlyAtExit
    BY DEF IInv, EarlyInv, CrashOnlyAtExit
  <1> QED  BY <1>1, Always, PTL

(* Nobody destroys, and so joins, a socket while he holds the lock, before  *)
(* the destructor runs.                                                     *)
THEOREM JoinsUnlocked == Spec => []NoJoinUnderLock
  <1>1. IInv => NoJoinUnderLock
    BY DEF IInv, EarlyInv, NoJoinUnderLock
  <1> QED  BY <1>1, Always, PTL

-----------------------------------------------------------------------------
(* Who waits for whom.                                                      *)

(* The owner of the lock is in Parse(); a socket that Parse() destroys has  *)
(* a thread that is idle or asks for the lock; one that main destroys is    *)
(* held by nobody else.                                                     *)
JoinInv ==
    /\ mutex \in Threads => thread[mutex] \in InParse
    /\ \A t \in Threads : thread[t] \in Joining =>
          /\ sock[match[t]] \in {"aborting", "stopping"}
          /\ thread[match[t]] \in {"idle", "ask"}
    /\ match[Main] # NoSocket =>
          sock[match[Main]] \in {"aborting", "stopping"}
             /\ \A t \in Threads : match[t] # match[Main]

(* What the types and the lock say of a thread that joins.                  *)
LEMMA JoinFacts ==
    ASSUME IInv
    PROVE  /\ thread \in [Threads -> {"idle", "register", "ask"} \cup InParse]
           /\ match \in [Threads \cup {Main} -> Sockets \cup {NoSocket}]
           /\ sock \in [Sockets -> {"none", "connecting", "open", "aborting",
                                    "stopping", "gone"}]
           /\ \A t \in Threads : thread[t] \in InParse => mutex = t
           /\ \A t \in Threads : thread[t] \in Joining => match[t] \in Sockets
           /\ \A t \in Threads :
                 thread[t] \in {"idle", "register", "ask"} => match[t] = NoSocket
           /\ Sockets \subseteq Threads
           /\ Main \notin Threads /\ Free \notin Threads /\ NoSocket \notin Threads
  BY ThreadsAssumption DEF ThreadsAssumption, IInv, TypeOK, LockInv, SearchInv, Threads

(* A step inside the lock at which no socket begins to die.                 *)
LEMMA InsideKeepsJoin ==
    ASSUME IInv, JoinInv, NEW t \in Threads, thread[t] \in {"ask"} \cup InParse,
           thread[t] = "ask" => mutex = Free, mutex' = t,
           NEW pc \in {"search", "parse", "send"}, thread' = [thread EXCEPT ![t] = pc],
           NEW m \in Sockets \cup {NoSocket}, match' = [match EXCEPT ![t] = m],
           m # match[t] => m = NoSocket \/ sock[m] \in {"none", "connecting", "open"},
           \A s \in Sockets : sock[s] \in {"aborting", "stopping"} /\ s # match[t]
                                => sock'[s] = sock[s],
           sock' = sock \/ m # match[t]
    PROVE  JoinInv'
  <1> USE JoinFacts DEF JoinInv
  <1>1. \A u \in Threads : thread'[u] = IF u = t THEN pc ELSE thread[u]
    OBVIOUS
  <1>2. \A u \in Threads \cup {Main} : match'[u] = IF u = t THEN m ELSE match[u]
    OBVIOUS
  <1>3. \A u \in Threads : u # t => thread[u] \notin InParse
    OBVIOUS
  <1>4. \A u \in Threads : thread'[u] \notin Joining
    BY <1>1, <1>3 DEF InParse, Joining
  <1>5. thread'[mutex'] \in InParse
    BY <1>1 DEF InParse
  <1>6. match[Main] # NoSocket => match[Main] \in Sockets /\ match[Main] # match[t]
    OBVIOUS
  <1>7. match'[Main] = match[Main]
    BY <1>2
  <1>8. match[Main] # NoSocket =>
            /\ sock'[match[Main]] = sock[match[Main]]
            /\ sock[match[Main]] \in {"aborting", "stopping"}
            /\ \A u \in Threads : match'[u] # match[Main]
    BY <1>2, <1>6
  <1> QED  BY <1>4, <1>5, <1>7, <1>8

(* A thread's steps in Parse() keep it.                                     *)
LEMMA ThreadKeepsJoin ==
    ASSUME IInv, JoinInv, NEW t \in Threads, ThreadStep(t)
    PROVE  JoinInv'
  <1> USE JoinFacts
  <1>0. thread[t] \in InParse => mutex = t
    OBVIOUS
  <1>1. CASE ParseEnter(t)
    <2>1. PICK pc \in {"search", "send"} : thread' = [thread EXCEPT ![t] = pc]
      BY <1>1 DEF ParseEnter
    <2>2. match' = [match EXCEPT ![t] = match[t]] /\ match[t] \in Sockets \cup {NoSocket}
      BY <1>1 DEF ParseEnter
    <2> QED  BY <1>1, <2>1, <2>2, InsideKeepsJoin DEF ParseEnter, socketVars
  <1>2. CASE ParseLook(t) \/ ParseDrop(t)
    <2>1. thread[t] \in {"search", "send"} /\ UNCHANGED <<mutex, thread, socketVars>>
      BY <1>2 DEF ParseLook, ParseDrop
    <2>2. thread' = [thread EXCEPT ![t] = thread[t]] /\ thread[t] \in InParse
      BY <2>1 DEF InParse
    <2>3. PICK m \in Sockets \cup {NoSocket} :
             /\ match' = [match EXCEPT ![t] = m]
             /\ m = NoSocket \/ sock[m] \in {"none", "connecting", "open"}
      BY <1>2 DEF ParseLook, ParseDrop, Under, Alive
    <2> QED  BY <1>0, <2>1, <2>2, <2>3, InsideKeepsJoin DEF socketVars
  <1>3. CASE ParseFound(t)
    <2>1. /\ thread[t] = "search" /\ thread' = [thread EXCEPT ![t] = "parse"]
          /\ match[t] = NoSocket /\ UNCHANGED <<mutex, socketVars>>
      BY <1>3 DEF ParseFound
    <2>2. PICK m \in Sockets \cup {NoSocket} :
             /\ match' = [match EXCEPT ![t] = m]
             /\ m = NoSocket \/ sock[m] \in {"none", "connecting", "open"}
      <3>1. CASE UNCHANGED match
        <4>1. match' = [match EXCEPT ![t] = NoSocket]
          BY <2>1, <3>1
        <4> QED  BY <4>1
      <3>2. ASSUME NEW s \in Matches(line[t]), match' = [match EXCEPT ![t] = s]
            PROVE  s \in Sockets /\ sock[s] \in {"connecting", "open"}
        BY DEF Matches, Under, Alive
      <3> QED  BY <1>3, <3>1, <3>2 DEF ParseFound
    <2>3. thread[t] \in InParse
      BY <2>1 DEF InParse
    <2> QED  BY <1>0, <2>1, <2>2, <2>3, InsideKeepsJoin DEF socketVars
  <1>4. CASE ParseMake(t)
    <2>1. CASE mainPc \in {"clear", "members"}
      BY <1>4, <2>1 DEF ParseMake, JoinInv, threadVars, socketVars
    <2>2. CASE mainPc \notin {"clear", "members"}
      <3>1. /\ thread[t] = "parse" /\ match[t] = NoSocket /\ mutex' = mutex
            /\ thread' = [thread EXCEPT ![t] = "send"]
            /\ match' = [match EXCEPT ![t] = NewSocket]
        BY <1>4, <2>2 DEF ParseMake
      <3>2. NewSocket \in Sockets /\ sock[NewSocket] = "none"
            /\ sock' = [sock EXCEPT ![NewSocket] = "connecting"]
        BY <1>4, <2>2 DEF ParseMake, Make, NewSocket
      <3>3. thread[t] \in InParse
        BY <3>1 DEF InParse
      <3>4. \A s \in Sockets : sock[s] \in {"aborting", "stopping"} => sock'[s] = sock[s]
        BY <3>2
      <3>5. NewSocket # match[t]
        BY <3>1, <3>2
      <3> QED  BY <1>0, <3>1, <3>2, <3>3, <3>4, <3>5, InsideKeepsJoin
    <2> QED  BY <2>1, <2>2
  <1>5. CASE ParseReuse(t)
    <2>1. /\ thread[t] = "parse" /\ thread' = [thread EXCEPT ![t] = "send"]
          /\ UNCHANGED <<mutex, match, sock>>
      BY <1>5 DEF ParseReuse, Reuse
    <2>2. match' = [match EXCEPT ![t] = match[t]] /\ match[t] \in Sockets \cup {NoSocket}
      BY <2>1
    <2>3. thread[t] \in InParse
      BY <2>1 DEF InParse
    <2> QED  BY <1>0, <2>1, <2>2, <2>3, InsideKeepsJoin
  <1>6. CASE ParseDropLast(t)
    <2> DEFINE pc == IF thread[t] = "search" THEN "joinSearch" ELSE "joinSend"
    <2>1. /\ match[t] \in Sockets /\ match[t] # t /\ ~HeldWithout(t, match[t])
          /\ thread[t] \in {"search", "send"}
          /\ Dying(match[t])
          /\ UNCHANGED <<mutex, match>>
      BY <1>6 DEF ParseDropLast, LastHolder
    <2>2. thread[match[t]] = "idle" /\ \A u \in Threads \cup {Main} :
                                            u # t /\ u \in Threads => match[u] # match[t]
      BY <2>1 DEF HeldWithout
    <2>3. sock'[match[t]] \in {"aborting", "stopping"}
          /\ \A s \in Sockets : s # match[t] => sock'[s] = sock[s]
      BY <2>1 DEF Dying
    <2>4. thread' = [thread EXCEPT ![t] = pc] /\ pc \in Joining
      BY <1>6 DEF ParseDropLast, Joining
    <2>5. thread[t] \in InParse /\ pc \in InParse
      BY <2>1 DEF InParse, Joining
    <2> HIDE DEF pc
    <2>6. \A u \in Threads : thread'[u] = IF u = t THEN pc ELSE thread[u]
      BY <2>4
    <2>7. mutex = t
      BY <1>0, <2>5
    <2>8. \A u \in Threads : thread'[u] \in Joining => u = t
      BY <2>6, <2>7 DEF InParse
    <2>9. match[Main] # NoSocket => match[Main] \in Sockets /\ match[Main] # match[t]
      BY DEF JoinInv
    <2> QED
      BY <2>1, <2>2, <2>3, <2>5, <2>6, <2>7, <2>8, <2>9 DEF JoinInv
  <1>7. CASE ParseJoined(t)
    <2>1. PICK pc \in {"search", "send"} : thread' = [thread EXCEPT ![t] = pc]
      BY <1>7 DEF ParseJoined
    <2>2. /\ thread[t] \in InParse /\ match[t] \in Sockets
          /\ match' = [match EXCEPT ![t] = NoSocket]
          /\ mutex' = mutex
          /\ sock' = [sock EXCEPT ![match[t]] = "gone"]
      BY <1>7 DEF ParseJoined, InParse
    <2>3. \A s \in Sockets : s # match[t] => sock'[s] = sock[s]
      BY <2>2
    <2>4. NoSocket # match[t]
      BY <2>2
    <2> QED  BY <1>0, <2>1, <2>2, <2>3, <2>4, InsideKeepsJoin
  <1>8. CASE Register(t) \/ ParseReturn(t)
    <2>1. \A u \in Threads : thread'[u] \in {"idle", thread[u]}
      <3>1. CASE Return(t)
        BY <3>1 DEF Return
      <3> QED  BY <1>8, <3>1 DEF Register, ParseReturn
    <2>2. UNCHANGED <<match, sock>>
      BY <1>8 DEF Register, ParseReturn, socketVars
    <2>3. thread[t] \in {"register", "send"}
      BY <1>8 DEF Register, ParseReturn
    <2>4. thread[t] \notin Joining /\ \A u \in Threads : thread'[u] \in Joining => thread[u] \in Joining
      BY <2>1, <2>3 DEF Joining
    <2>5. mutex' \in Threads => thread'[mutex'] \in InParse
      <3>1. mutex' = Free \/ (mutex' = mutex /\ mutex = Free)
        BY <1>8 DEF Register, ParseReturn
      <3> QED  BY <3>1
    <2>6. \A u \in Threads : thread[u] \in {"idle", "ask"} => thread'[u] \in {"idle", "ask"}
      BY <2>1
    <2> QED  BY <2>2, <2>4, <2>5, <2>6 DEF JoinInv
  <1> QED  BY <1>1, <1>2, <1>3, <1>4, <1>5, <1>6, <1>7, <1>8 DEF ThreadStep

(* What comes from outside keeps it.                                        *)
LEMMA EventKeepsJoin ==
    ASSUME IInv, JoinInv,
           \/ \E t \in Threads : Ask(t)
           \/ \E s \in Sockets : Connect(s) \/ ConnectLate(s) \/ Reconnect(s)
    PROVE  JoinInv'
  <1> USE JoinFacts DEF JoinInv
  <1>1. ASSUME NEW t \in Threads, Ask(t)
        PROVE  JoinInv'
    BY <1>1 DEF Ask, MayAsk, InParse, Joining, socketVars
  <1>2. ASSUME NEW s \in Sockets, Connect(s)
        PROVE  JoinInv'
    BY <1>2 DEF Connect, InParse, Joining
  <1>3. ASSUME NEW s \in Sockets, ConnectLate(s) \/ Reconnect(s)
        PROVE  JoinInv'
    BY <1>3 DEF ConnectLate, Reconnect, threadVars, socketVars
  <1> QED  BY <1>1, <1>2, <1>3

(* A reference that main drops was not Parse()'s to join.                   *)
LEMMA EraseKeepsJoin ==
    ASSUME IInv, JoinInv, NEW i \in 1..Len(clients), Erase(i), UNCHANGED <<mutex, thread>>
    PROVE  JoinInv'
  <1> USE JoinFacts DEF JoinInv
  <1>1. clients[i] \in Sockets
    BY DEF IInv, TypeOK
  <1>2. CASE HeldWithout(Main, clients[i])
    BY <1>2 DEF Erase
  <1>3. CASE ~HeldWithout(Main, clients[i])
    <2>1. \A t \in Threads : match[t] # clients[i]
      BY <1>3 DEF HeldWithout
    <2>2. /\ sock' = [sock EXCEPT ![clients[i]] =
                        IF @ = "open" THEN "stopping" ELSE "aborting"]
          /\ match' = [match EXCEPT ![Main] = clients[i]]
      BY <1>3 DEF Erase, Dying
    <2>3. match'[Main] = clients[i] /\ \A t \in Threads : match'[t] = match[t]
      BY <1>1, <2>2
    <2>4. \A s \in Sockets : s # clients[i] => sock'[s] = sock[s]
      BY <1>1, <2>2
    <2>5. sock'[clients[i]] \in {"aborting", "stopping"}
      BY <1>1, <2>2
    <2> QED  BY <1>1, <2>1, <2>3, <2>4, <2>5
  <1> QED  BY <1>2, <1>3

(* All steps of main keep it.                                               *)
LEMMA MainKeepsJoin ==
    ASSUME IInv, JoinInv, MainStep \/ OnGameClosed \/ MainExit
    PROVE  JoinInv'
  <1> USE JoinFacts DEF JoinInv
  <1>1. CASE MainParse \/ OnGameClosed
    <2>1. match[Main] = NoSocket /\ \A t \in Threads : thread[t] \notin Joining
      BY <1>1 DEF MainParse, OnGameClosed, IInv, EarlyInv, Destroying
    <2> QED  BY <1>1, <2>1 DEF MainParse, OnGameClosed
  <1>2. CASE MainJoined
    <2>1. match[Main] \in Sockets
      BY <1>2 DEF MainJoined, Busy
    <2>2. match'[Main] = NoSocket /\ \A t \in Threads : match'[t] = match[t]
      BY <1>2 DEF MainJoined
    <2>3. \A s \in Sockets : s # match[Main] => sock'[s] = sock[s]
      BY <1>2 DEF MainJoined
    <2> QED  BY <1>2, <2>1, <2>2, <2>3 DEF MainJoined
  <1>3. CASE EraseForGame
    BY <1>3, EraseKeepsJoin DEF EraseForGame
  <1>4. CASE ErasedForGame \/ MainExit \/ MainStop
    BY <1>4 DEF ErasedForGame, MainExit, MainStop, threadVars, socketVars
  <1>5. ASSUME NEW here, NEW next, Clear(here, next)
        PROVE  JoinInv'
    <2>1. CASE clients # <<>> /\ Erase(1)
      <3>1. 1 \in 1..Len(clients)
        BY <2>1 DEF IInv, TypeOK
      <3> QED  BY <1>5, <2>1, <3>1, EraseKeepsJoin DEF Clear
    <2>2. CASE UNCHANGED <<match, socketVars>>
      BY <1>5, <2>2 DEF Clear, socketVars
    <2> QED  BY <1>5, <2>1, <2>2 DEF Clear, socketVars
  <1> QED  BY <1>1, <1>2, <1>3, <1>4, <1>5 DEF MainStep

(* Whenever main waits, in its loop or in the destructor, the lock has an   *)
(* owner that goes on, or nobody has it and whoever asks for it gets it;    *)
(* but for one cycle: Parse() joins a thread that asks for the lock.        *)
THEOREM OnlyOneDeadlock == Spec => []OnlyEntangledStuck
  <1>1. Init => JoinInv
    BY ThreadsAssumption DEF ThreadsAssumption, Init, JoinInv, Joining
  <1>2. IInv /\ JoinInv /\ [Next]_vars => JoinInv'
    <2>1. ASSUME IInv, JoinInv, UNCHANGED vars
          PROVE  JoinInv'
      BY <2>1 DEF JoinInv, vars, threadVars, socketVars
    <2>2. ASSUME IInv, JoinInv, ParseThrows
          PROVE  JoinInv'
      BY <2>2 DEF ParseThrows, JoinInv, threadVars, socketVars
    <2> QED
      BY <2>1, <2>2, ThreadKeepsJoin, EventKeepsJoin, MainKeepsJoin DEF Next
  <1>3. IInv /\ JoinInv => OnlyEntangledStuck
    <2> SUFFICES ASSUME IInv, JoinInv, MainWaits, ~Entangled
                 PROVE  \E t \in Threads : thread[t] # "idle" /\ ~Waits(t)
      BY DEF OnlyEntangledStuck
    <2> USE JoinFacts
    <2>1. CASE mutex \in Threads
      <3>1. thread[mutex] \in InParse
        BY <2>1 DEF JoinInv
      <3>2. thread[mutex] \in Joining => thread[match[mutex]] = "idle"
        BY <2>1 DEF JoinInv, Entangled
      <3> QED  BY <2>1, <3>1, <3>2 DEF Waits, InParse, Joining
    <2>2. CASE mutex = Free
      <3>1. PICK t \in Threads : thread[t] # "idle"
        <4>1. Busy => match[Main] \in Sockets
          BY DEF Busy
        <4> QED  BY <2>2, <4>1 DEF MainWaits, Threads
      <3>2. thread[t] \notin InParse
        BY <2>2
      <3> QED  BY <2>2, <3>1, <3>2 DEF Waits, InParse
    <2>3. CASE mutex = Main
      <3>1. mainPc = "closing" /\ match[Main] = NoSocket
        BY <2>3 DEF IInv, LockInv, EarlyInv, Destroying
      <3> QED  BY <3>1 DEF MainWaits, Busy
    <2> QED  BY <2>1, <2>2, <2>3 DEF IInv, TypeOK
  <1> QED  BY <1>1, <1>2, <1>3, Always, PTL DEF Spec
=============================================================================
