-------------------------- MODULE PosixLinkProofs --------------------------
(***************************************************************************)
(* Proofs about PosixLink, for any ports, any number of games and any      *)
(* manners.                                                                *)
(***************************************************************************)
EXTENDS PosixLink, TLAPS

(* A game has a port, and its file has changed at most twice so far.        *)
Games ==
    /\ game \in {0, started}
    /\ game # 0 <=> port # 0
    /\ listening => game # 0
    /\ game = 0 => written = "no"
    /\ fileTime <= 2 * started
    /\ game # 0 /\ written = "no" => fileTime + 2 <= 2 * started
    /\ written = "created" => fileTime + 1 <= 2 * started

IInv == TypeOK /\ Games

(* Both hold initially.                                                     *)
LEMMA InitInv ==
    ASSUME Init
    PROVE  IInv
  <1> USE PortAssumption DEF PortAssumption, Init
  <1>1. FlagsType
    BY MannersAssumption, Zenon DEF MannersAssumption, FlagsType
  <1>2. GameType
    BY DEF GameType
  <1>3. FileType /\ CreateType
    BY DEF FileType, CreateType
  <1>4. ObjectType
    BY DEF ObjectType
  <1>5. Games
    BY DEF Games
  <1> QED  BY <1>1, <1>2, <1>3, <1>4, <1>5 DEF IInv, TypeOK

(* What the game does keeps them.                                           *)
LEMMA GameStep ==
    ASSUME IInv, GameStart \/ GameListen \/ FileCreate \/ FileWrite \/ GameExit
    PROVE  IInv'
  <1> USE PortAssumption
      DEF PortAssumption, IInv, TypeOK, gameVars, fileVars, createVars, objectVars
  <1>1. ObjectType' /\ FlagsType'
    BY DEF GameStart, GameListen, FileCreate, FileWrite, GameExit, ObjectType,
       FlagsType
  <1>2. CASE GameStart \/ GameListen \/ GameExit
    <2> USE <1>2 DEF GameStart, GameListen, GameExit
    <2>1. FileType' /\ CreateType'
      BY DEF FileType, CreateType
    <2>2. GameType'
      BY DEF GameType
    <2>3. Games'
      BY DEF Games, GameType, FileType
    <2> QED  BY <1>1, <2>1, <2>2, <2>3
  <1>3. CASE FileCreate \/ FileWrite
    <2> USE <1>3 DEF FileCreate, FileWrite
    <2>1. GameType'
      BY DEF GameType
    <2>2. FileType'
      BY DEF GameType, FileType, Games
    <2>3. CreateType'
      BY DEF CreateType, FileType
    <2>4. Games'
      BY DEF GameType, FileType, Games
    <2> QED  BY <1>1, <2>1, <2>2, <2>3, <2>4
  <1> QED  BY <1>2, <1>3

(* What Create() and the calls do keeps them.                               *)
LEMMA ServerStep ==
    ASSUME IInv, Server
    PROVE  IInv'
  <1> USE PortAssumption
      DEF PortAssumption, IInv, TypeOK, gameVars, fileVars, createVars, objectVars
  <1>1. GameType' /\ FileType' /\ Games'
    BY DEF Server, CreateStat, CreateRead, Construct, Connect, Exchange, Close,
       GameType, FileType, Games
  <1>6. FlagsType'
    BY DEF Server, CreateStat, CreateRead, Construct, Connect, Exchange, Close,
       FlagsType
  <1>2. CASE CreateStat \/ CreateRead
    <2>1. ObjectType'
      BY <1>2 DEF CreateStat, CreateRead, ObjectType
    <2>2. CreateType'
      BY <1>2 DEF CreateStat, CreateRead, CreateType, FileType
    <2> QED  BY <1>1, <1>6, <2>1, <2>2
  <1>3. CASE Construct
    <2>2. CreateType'
      BY <1>3 DEF Construct, CreateType
    <2>3. ObjectType'
      BY <1>3 DEF Construct, ObjectType, CreateType, GameType, Games
    <2> QED  BY <1>1, <1>6, <2>2, <2>3
  <1>4. CASE Connect \/ Exchange \/ Close
    <2>1. CreateType'
      BY <1>4 DEF Connect, Exchange, Close, CreateType
    <2>2. ObjectType'
      BY <1>4 DEF Connect, Exchange, Close, ObjectType, GameType
    <2> QED  BY <1>1, <1>6, <2>1, <2>2
  <1> QED  BY <1>2, <1>3, <1>4 DEF Server

(* The types hold: an object has the port of some game, and Create() never  *)
(* believes to have tried a later version of the file than there is.        *)
THEOREM TypeCorrect == Spec => []TypeOK
  <1>1. IInv /\ [Next]_vars => IInv'
    <2>1. ASSUME IInv, CreateNothing \/ UNCHANGED vars
          PROVE  IInv'
      BY <2>1 DEF CreateNothing, vars, gameVars, fileVars, createVars, objectVars,
         IInv, TypeOK, FlagsType, GameType, FileType, CreateType, ObjectType, Games
    <2> QED  BY <2>1, GameStep, ServerStep DEF Next
  <1>2. IInv => TypeOK
    BY DEF IInv
  <1> QED  BY <1>1, <1>2, InitInv, PTL DEF Spec

-----------------------------------------------------------------------------
(* An orderly game that has written its port file listens on that port.     *)
Wrote == orderly /\ written # "no" => written = "yes" /\ listening /\ filePort = port

(* Create() runs only while there is no object, and an object only has a    *)
(* call under way while it is open.                                         *)
OneAtATime ==
    /\ attempt # "idle" => object = 0
    /\ peer # 0 => object # 0 /\ ~isClosed
    /\ isClosed => object # 0

(* If Create() remembers the file of an orderly game as tried, it is still  *)
(* at it, with the right port, or main's object talks to that very game.    *)
Tried ==
    orderly /\ written = "yes" /\ lastModified = fileTime =>
        /\ peer \in {0, game}
        /\ attempt = "construct" => tried = port
        /\ attempt = "idle" => Reached

FileInv == IInv /\ Wrote /\ OneAtATime /\ Tried

(* The three hold initially.                                                *)
LEMMA InitFile ==
    ASSUME Init
    PROVE  FileInv
  BY InitInv DEF Init, FileInv, Wrote, OneAtATime, Tried

(* What the game does keeps them: writing the file makes it newer than any  *)
(* that was tried.                                                          *)
LEMMA GameKeepsFile ==
    ASSUME FileInv, GameStart \/ GameListen \/ FileCreate \/ FileWrite \/ GameExit
    PROVE  FileInv'
  <1> USE DEF FileInv, gameVars, fileVars, createVars, objectVars
  <1>1. IInv'
    BY GameStep
  <1>2. OneAtATime'
    BY DEF OneAtATime, GameStart, GameListen, FileCreate, FileWrite, GameExit
  <1>3. Wrote'
    <2>1. CASE GameStart \/ GameListen \/ GameExit
      BY <2>1 DEF Wrote, GameStart, GameListen, GameExit
    <2>2. CASE FileCreate
      BY <2>2, Zenon DEF Wrote, FileCreate
    <2>3. CASE FileWrite
      BY <2>3, Zenon DEF Wrote, FileWrite
    <2> QED  BY <2>1, <2>2, <2>3
  <1>4. CASE GameStart \/ GameListen \/ FileCreate \/ GameExit
    <2>1. Tried'
      BY <1>4 DEF Tried, Reached, Wrote, GameStart, GameListen, FileCreate, GameExit
    <2> QED  BY <1>1, <1>2, <1>3, <2>1
  <1>5. CASE FileWrite
    <2>1. ASSUME orderly
          PROVE  lastModified' # fileTime'
      BY <1>5, <2>1 DEF FileWrite, Wrote, IInv, TypeOK, CreateType, FileType
    <2>2. Tried'
      BY <1>5, <2>1 DEF Tried, FileWrite
    <2> QED  BY <1>1, <1>2, <1>3, <2>2
  <1> QED  BY <1>4, <1>5

(* What Create() and the calls do keeps them.                               *)
LEMMA ServerKeepsFile ==
    ASSUME FileInv, Server
    PROVE  FileInv'
  <1> USE DEF FileInv, gameVars, fileVars, createVars, objectVars
  <1>1. IInv'
    BY ServerStep
  <1>2. Wrote'
    BY DEF Wrote, Server, CreateStat, CreateRead, Construct, Connect, Exchange, Close
  <1>3. CASE CreateStat \/ CreateRead
    <2>1. OneAtATime'
      BY <1>3 DEF OneAtATime, CreateStat, CreateRead
    <2>2. Tried'
      BY <1>3 DEF Tried, Reached, Wrote, OneAtATime, CreateStat, CreateRead
    <2> QED  BY <1>1, <1>2, <2>1, <2>2
  <1>4. CASE Construct
    <2>1. object = 0 /\ peer = 0 /\ ~isClosed
      BY <1>4 DEF OneAtATime, Construct
    <2>2. OneAtATime'
      BY <1>4, <2>1 DEF OneAtATime, Construct
    <2>3. Tried'
      <3>1. ASSUME orderly, written = "yes", lastModified = fileTime
            PROVE  listening /\ tried = port /\ port # 0 /\ game # 0
        BY <1>4, <3>1 DEF Construct, Tried, Wrote, IInv, Games
      <3> QED  BY <1>4, <2>1, <3>1 DEF Construct, Tried, Reached
    <2> QED  BY <1>1, <1>2, <2>2, <2>3
  <1>5. CASE Connect
    <2>1. attempt = "idle"
      BY <1>5 DEF OneAtATime, Connect
    <2>2. OneAtATime'
      BY <1>5, <2>1 DEF OneAtATime, Connect
    <2>3. Tried'
      BY <1>5, <2>1 DEF Tried, Reached, Wrote, Connect
    <2> QED  BY <1>1, <1>2, <2>2, <2>3
  <1>6. CASE Exchange \/ Close
    <2>1. attempt = "idle"
      BY <1>6 DEF OneAtATime, Exchange, Close
    <2>2. OneAtATime'
      BY <1>6, <2>1 DEF OneAtATime, Exchange, Close
    <2>3. Tried'
      BY <1>6, <2>1 DEF Tried, Reached, OneAtATime, Exchange, Close
    <2> QED  BY <1>1, <1>2, <2>2, <2>3
  <1> QED  BY <1>3, <1>4, <1>5, <1>6 DEF Server

(* No orderly game is missed: while one takes connections and its port is   *)
(* in the file, main talks to it or is on the way there (Create() and the   *)
(* error paths of the calls, PosixSMI.cpp:35-61, :199-203, :305-345).       *)
THEOREM NoGameMissed == Spec => []NeverMissed
  <1>1. FileInv /\ [Next]_vars => FileInv'
    <2>1. ASSUME FileInv, CreateNothing \/ UNCHANGED vars
          PROVE  FileInv'
      BY <2>1 DEF CreateNothing, vars, gameVars, fileVars, createVars, objectVars,
         FileInv, Wrote, OneAtATime, Tried, Reached, IInv, TypeOK, FlagsType,
         GameType, FileType, CreateType, ObjectType, Games
    <2> QED  BY <2>1, GameKeepsFile, ServerKeepsFile DEF Next
  <1>2. FileInv => NeverMissed
    BY DEF FileInv, NeverMissed, Wrote, Tried, IInv, TypeOK, CreateType
  <1> QED  BY <1>1, <1>2, InitFile, PTL DEF Spec
=============================================================================
