-------------------------- MODULE LocalFilesProofs --------------------------
(***************************************************************************)
(* Proofs about LocalFiles, for any files, any number of connection        *)
(* threads, any clock, and any way in which the log may be read back.      *)
(* What is said of the user's files assumes that he keeps still while      *)
(* requests are under way (UserQuiet).                                     *)
(***************************************************************************)
EXTENDS LocalFiles, TLAPS

(* Where a request can be.                                                  *)
ShapeOf(j) ==
    /\ j.pc \in {"dstExists", "dstLookup"} => j.op \in {"SAVE", "QRCD", "MOVE"}
    /\ j.pc \in {"srcExists", "srcLookup"} => j.op \in {"DLTE", "MOVE"}
    /\ j.pc = "save" => j.op = "SAVE"
    /\ j.pc = "write" => j.op = "QRCD"
    /\ j.pc \in {"again", "remove", "unlog"} => j.op = "DLTE"
    /\ j.pc \in {"source", "rename", "copy", "record"} => j.op = "MOVE"
    /\ j.op \in {"DLTE", "MOVE"} => j.src \in Path
    /\ j.op \in {"SAVE", "QRCD"} => j.dst \in Path
    /\ j.pc = "dstLookup" => j.dst \in Path

Shapes == \A w \in Workers : ShapeOf(job[w])

Past == \A p \in Path : mtime[p] <= now

TypeInv == TypeOK /\ Shapes /\ Past

(* What the log can say of the user's files, now and after a restart.       *)
Ages ==
    \A p \in Path :
        /\ owner[p] = "none" <=> mtime[p] = 0
        /\ owner[p] = "user" => files[p] < mtime[p] /\ saved[p] < mtime[p]

(* A file a request has got permission for is not the user's.               *)
MayWrite(j) ==
    \/ j.pc \in {"save", "write", "rename", "copy", "record"}
    \/ j.op = "MOVE" /\ j.pc \in {"srcExists", "srcLookup"}

MayRemove(j) == j.pc \in {"again", "remove", "unlog", "rename"}

Permitted ==
    \A w \in Workers :
        /\ MayWrite(job[w]) /\ job[w].dst \in Path => owner[job[w].dst] # "user"
        /\ MayRemove(job[w]) => owner[job[w].src] # "user"

QuietInv == Ages /\ Permitted

-----------------------------------------------------------------------------
(* The types.                                                               *)

(* They hold initially.                                                     *)
LEMMA InitTypes ==
    ASSUME Init
    PROVE  TypeInv
  <1> USE PathAssumption DEF PathAssumption, Init, Time
  <1>1. Idle \in Job
    BY DEF Idle, Job, Pcs
  <1>2. /\ mtime \in [Path -> Time] /\ files \in [Path -> 0..now]
        /\ saved \in [Path -> 0..now] /\ now \in Time \ {0}
        /\ owner \in [Path -> {"none", "user", "exposed", "server"}]
        /\ cut \in Path \cup {NoPath} /\ asked \in 0..MaxRequests
    OBVIOUS
  <1>3. job \in [Workers -> Job]
    BY <1>1
  <1>4. up \in BOOLEAN /\ clean \in BOOLEAN /\ overlap \in BOOLEAN
    BY Zenon
  <1>5. TypeOK
    BY <1>2, <1>3, <1>4 DEF TypeOK
  <1>6. Shapes
    BY DEF Shapes, ShapeOf, Idle
  <1>7. Past
    <2>1. \A p \in Path : mtime[p] = 0
      OBVIOUS
    <2>2. now = 1 /\ 0 <= 1
      OBVIOUS
    <2> QED  BY <2>1, <2>2, Zenon DEF Past
  <1> QED  BY <1>5, <1>6, <1>7 DEF TypeInv

(* How a step of w changes its own request.                                 *)
Steers(w) ==
    \/ \E pc \in Pcs : Goto(w, pc) /\ ShapeOf([job[w] EXCEPT !.pc = pc])
    \/ Finish(w)
    \/ Terminate

(* No step brings a request where it cannot be.                             *)
LEMMA Steered ==
    ASSUME TypeInv, NEW w \in Workers, Work(w)
    PROVE  Steers(w)
  <1> USE DEF TypeInv, Steers
  <1>1. job[w] \in Job /\ ShapeOf(job[w])
    BY DEF TypeOK, Shapes
  <1>2. CASE Allowed(w) /\ CanModifyExists(w)
    BY <1>1, <1>2 DEF Allowed, CanModifyExists, Pcs, ShapeOf, Job
  <1>3. CASE Allowed(w) /\ CanModifyLookup(w)
    BY <1>1, <1>3 DEF Allowed, CanModifyLookup, Pcs, ShapeOf, Job
  <1>4. CASE CanModifyExists(w) /\ ~Allowed(w)
    BY <1>1, <1>4 DEF CanModifyExists, Subject, Present, Pcs, ShapeOf, Job
  <1>5. CASE CanModifyLookup(w) /\ ~Allowed(w)
    BY <1>1, <1>5 DEF CanModifyLookup, Refused, Pcs, ShapeOf, Job
  <1>6. CASE Source(w) \/ Save(w) \/ Write(w) \/ Again(w) \/ Remove(w) \/ Unlog(w)
    BY <1>1, <1>6 DEF Source, Save, Write, Again, Remove, Unlog, Pcs, ShapeOf, Job
  <1>7. CASE Rename(w) \/ Copy(w) \/ Record(w)
    BY <1>1, <1>7 DEF Rename, Copy, Record, Pcs, ShapeOf, Job
  <1>8. CASE Throws(w)
    BY <1>8 DEF Throws
  <1> QED  BY <1>2, <1>3, <1>4, <1>5, <1>6, <1>7, <1>8 DEF Work

(* Requests stay what they can be.                                          *)
LEMMA JobTypes ==
    ASSUME TypeInv, NEW w \in Workers, Steers(w)
    PROVE  job' \in [Workers -> Job] /\ Shapes'
  <1> USE DEF TypeInv
  <1>1. Idle \in Job /\ ShapeOf(Idle)
    BY DEF Idle, Job, Pcs, ShapeOf
  <1>2. CASE Finish(w) \/ Terminate
    BY <1>1, <1>2 DEF Finish, Terminate, TypeOK, Shapes
  <1>3. ASSUME NEW pc \in Pcs, Goto(w, pc), ShapeOf([job[w] EXCEPT !.pc = pc])
        PROVE  job' \in [Workers -> Job] /\ Shapes'
    <2>1. [job[w] EXCEPT !.pc = pc] \in Job
      BY DEF TypeOK, Job
    <2>2. job' = [job EXCEPT ![w] = [job[w] EXCEPT !.pc = pc]]
      BY <1>3 DEF Goto
    <2> QED  BY <1>3, <2>1, <2>2 DEF TypeOK, Shapes
  <1> QED  BY <1>2, <1>3 DEF Steers

(* A step of a request keeps the types.                                     *)
LEMMA WorkTypes ==
    ASSUME TypeInv, NEW w \in Workers, Work(w)
    PROVE  TypeInv'
  <1> USE PathAssumption DEF PathAssumption, TypeInv, Time
  <1>1. job' \in [Workers -> Job] /\ Shapes'
    BY Steered, JobTypes
  <1>2. now' = now /\ UNCHANGED logVars /\ overlap' \in BOOLEAN /\ asked' = asked
    BY Zenon DEF Work, Source, CanModifyExists, CanModifyLookup, Save, Write, Again, Remove, Unlog,
       Rename, Copy, Record, Throws
  <1>3. up' \in BOOLEAN /\ clean' \in BOOLEAN
    BY DEF Work, Source, CanModifyExists, CanModifyLookup, Save, Write, Again, Remove, Unlog,
       Rename, Copy, Record, Throws, Terminate, TypeOK
  <1>4. /\ mtime' \in [Path -> Time]
        /\ owner' \in [Path -> {"none", "user", "exposed", "server"}]
        /\ Past'
    <2>1. CASE UNCHANGED diskVars
      BY <1>2, <2>1 DEF diskVars, TypeOK, Past
    <2>2. CASE Write(w) \/ Remove(w)
      BY <1>2, <2>1, <2>2 DEF Write, Remove, TypeOK, Past
    <2>4. CASE Copy(w) /\ ~UNCHANGED diskVars
      <3>1. PICK t \in {now, mtime[job[w].src]} :
                mtime' = [mtime EXCEPT ![job[w].dst] = t]
        BY <2>4 DEF Copy
      <3>2. t \in Time /\ t <= now
        BY <2>4 DEF Copy, Present, TypeOK, Past
      <3>3. owner' = [owner EXCEPT ![job[w].dst] = "server"]
        BY <2>4 DEF Copy
      <3> QED  BY <1>2, <3>1, <3>2, <3>3 DEF TypeOK, Past
    <2>3. CASE Rename(w)
      BY <1>2, <2>1, <2>3 DEF Rename, Present, TypeOK, Past
    <2> QED
      BY <2>1, <2>2, <2>3, <2>4
         DEF Work, Source, CanModifyExists, CanModifyLookup, Save, Again, Unlog, Record, Throws
  <1>5. files' \in [Path -> 0..now]
    <2>1. CASE UNCHANGED files \/ Terminate
      BY <2>1 DEF Terminate, TypeOK
    <2>2. CASE CanModifyLookup(w) \/ Unlog(w)
      BY <2>1, <2>2 DEF CanModifyLookup, Unlog, TypeOK
    <2>3. CASE Record(w)
      BY <2>1, <2>3 DEF Record, Present, TypeOK, Past
    <2> QED
      BY <2>1, <2>2, <2>3
         DEF Work, Source, CanModifyExists, Save, Write, Again, Remove, Rename, Copy, Throws
  <1> QED  BY <1>1, <1>2, <1>3, <1>4, <1>5 DEF logVars, TypeOK

(* So does a request that comes in.                                         *)
LEMMA RequestTypes ==
    ASSUME TypeInv, NEW w \in Workers, Request(w)
    PROVE  TypeInv'
  <1> USE DEF TypeInv
  <1>1. PICK j \in Job : ShapeOf(j) /\ job' = [job EXCEPT ![w] = j]
    <2>1. PICK p \in Path, q \in Path \cup {NoPath} :
              \/ Begin(w, "dstExists", "SAVE", NoPath, p)
              \/ Begin(w, "dstExists", "QRCD", NoPath, p)
              \/ Begin(w, "srcExists", "DLTE", p, NoPath)
              \/ Begin(w, "source", "MOVE", p, q)
      BY DEF Request
    <2> QED  BY <2>1 DEF Begin, Job, Pcs, Operations, ShapeOf
  <1>2. job' \in [Workers -> Job] /\ Shapes'
    BY <1>1 DEF TypeOK, Shapes
  <1>3. overlap' \in BOOLEAN
    BY Zenon DEF Request
  <1>4. UNCHANGED <<diskVars, now, files, logVars, up, clean>>
    BY DEF Request
  <1>5. asked' \in 0..MaxRequests
    BY PathAssumption DEF PathAssumption, Request, TypeOK
  <1> QED  BY <1>2, <1>3, <1>4, <1>5 DEF TypeOK, Past, diskVars, logVars

(* And reading the log.                                                     *)
LEMMA LoadTypes ==
    ASSUME TypeInv, NEW mayStop \in BOOLEAN, LoadLog(mayStop)
    PROVE  TypeInv'
  <1> USE DEF TypeInv
  <1>1. /\ files' \in [Path -> 0..now]
        /\ owner' \in [Path -> {"none", "user", "exposed", "server"}]
    <2>1. PICK name \in Names, log \in [Path -> 0..now] :
              /\ files' = log
              /\ owner' = [q \in Path |->
                    IF /\ owner[q] = "user" /\ mtime[q] <= log[q]
                       /\ \E p \in Path \ {q} : name[p] = q /\ log[q] = saved[p]
                    THEN "exposed" ELSE owner[q]]
      BY DEF LoadLog
    <2> QED  BY <2>1 DEF TypeOK
  <1>2. UNCHANGED <<mtime, now, logVars, job, overlap, asked>> /\ up' = TRUE /\ clean' = FALSE
    BY DEF LoadLog
  <1>3. Shapes' /\ Past'
    BY <1>2 DEF Shapes, Past
  <1> QED  BY <1>1, <1>2, <1>3 DEF TypeOK, logVars

(* And everything else.                                                     *)
LEMMA OtherTypes ==
    ASSUME TypeInv,
           \/ Exit \/ Kill \/ Start \/ StartFailing \/ Tick
           \/ \E p \in Path : UserWrite(p) \/ UserDelete(p)
    PROVE  TypeInv'
  <1> USE PathAssumption DEF PathAssumption, TypeInv, Time, diskVars, logVars
  <1>1. CASE Exit
    <2>1. Shapes' /\ Past'
      BY <1>1 DEF Exit, Shapes, Past
    <2>2. saved' \in [Path -> 0..now] /\ cut' \in Path \cup {NoPath}
      BY <1>1 DEF Exit, TypeOK
    <2>3. up' \in BOOLEAN /\ clean' \in BOOLEAN
      BY <1>1 DEF Exit
    <2> QED  BY <1>1, <2>1, <2>2, <2>3 DEF Exit, TypeOK
  <1>2. CASE Kill
    <2>1. Idle \in Job /\ ShapeOf(Idle)
      BY DEF Idle, Job, Pcs, ShapeOf
    <2>2. files' \in [Path -> 0..now] /\ job' \in [Workers -> Job] /\ Shapes' /\ Past'
      BY <1>2, <2>1 DEF Kill, Terminate, TypeOK, Shapes, Past
    <2>3. UNCHANGED <<mtime, owner, now, saved, cut, asked>>
      BY <1>2 DEF Kill
    <2>4. up' \in BOOLEAN /\ clean' \in BOOLEAN /\ overlap' \in BOOLEAN
      BY <1>2 DEF Kill, Terminate
    <2> QED  BY <2>2, <2>3, <2>4 DEF TypeOK
  <1>3. CASE Tick
    BY <1>3 DEF Tick, TypeOK, Shapes, Past
  <1>4. ASSUME NEW p \in Path, UserWrite(p) \/ UserDelete(p)
        PROVE  TypeInv'
    BY <1>4 DEF UserWrite, UserDelete, TypeOK, Shapes, Past
  <1>5. CASE Start \/ StartFailing
    BY <1>5, LoadTypes DEF Start, StartFailing
  <1> QED  BY <1>1, <1>2, <1>3, <1>4, <1>5

(* The types hold, and no time is in the future.                            *)
LEMMA TypesAlways == Spec => []TypeInv
  <1>1. TypeInv /\ UNCHANGED vars => TypeInv'
    BY DEF TypeInv, TypeOK, Shapes, Past, vars, diskVars, logVars
  <1>2. TypeInv /\ [Next]_vars => TypeInv'
    BY <1>1, WorkTypes, RequestTypes, OtherTypes DEF Next
  <1> QED  BY <1>2, InitTypes, PTL DEF Spec

(* Files, log, clock and requests keep their types, and no entry of the log *)
(* lies in the future (localserver.cpp:177-202).                            *)
THEOREM TypeCorrect == Spec => []TypeOK
  <1>1. TypeInv => TypeOK
    BY DEF TypeInv
  <1> QED  BY <1>1, TypesAlways, PTL

-----------------------------------------------------------------------------
(* The user's files.                                                        *)

(* What a step of a request does to the disk.                               *)
LEMMA UsersFilesKept ==
    ASSUME TypeInv, QuietInv, NEW w \in Workers, Work(w), NEW p \in Path
    PROVE  /\ owner[p] = "user" => owner'[p] = "user" /\ mtime'[p] = mtime[p]
           /\ owner'[p] = "user" => owner[p] = "user"
           /\ owner'[p] = "none" <=> mtime'[p] = 0
  <1> USE PathAssumption DEF PathAssumption, TypeInv, QuietInv
  <1>1. CASE UNCHANGED diskVars
    BY <1>1 DEF diskVars, Ages
  <1>2. job[w].op = "MOVE" => job[w].src \in Path
    BY DEF Shapes, ShapeOf
  <1>3. CASE Write(w)
    <2>1. job[w].dst \in Path /\ owner[job[w].dst] # "user"
      BY <1>3 DEF Write, Shapes, ShapeOf, Permitted, MayWrite
    <2> QED  BY <1>1, <1>3, <2>1 DEF Write, TypeOK, Ages
  <1>4. CASE Remove(w)
    <2>1. owner[job[w].src] # "user"
      BY <1>4 DEF Remove, Permitted, MayRemove
    <2> QED  BY <1>1, <1>4, <2>1 DEF Remove, TypeOK, Ages
  <1>5. CASE Copy(w)
    BY <1>1, <1>5 DEF Copy, Present, TypeOK, Ages
  <1>6. CASE Rename(w)
    <2>1. owner[job[w].src] # "user"
      BY <1>6 DEF Rename, Permitted, MayRemove
    <2>2. job[w].dst \in Path => owner[job[w].dst] # "user"
      BY <1>6 DEF Rename, Permitted, MayWrite
    <2> QED  BY <1>1, <1>6, <2>1, <2>2 DEF Rename, Present, TypeOK, Ages
  <1> QED
    BY <1>1, <1>3, <1>4, <1>5, <1>6
       DEF Work, Source, CanModifyExists, CanModifyLookup, Save, Again, Unlog, Record, Throws

(* The log does not come to name a file of the user's.                      *)
LEMMA LogKept ==
    ASSUME TypeInv, QuietInv, NEW w \in Workers, Work(w), NEW p \in Path,
           owner'[p] = "user"
    PROVE  files'[p] < mtime'[p] /\ saved'[p] < mtime'[p]
  <1> USE DEF TypeInv, QuietInv
  <1>1. /\ owner[p] = "user" /\ mtime'[p] = mtime[p]
        /\ files[p] < mtime[p] /\ saved[p] < mtime[p]
        /\ saved' = saved /\ mtime[p] \in Nat
    BY UsersFilesKept
       DEF Ages, Work, Source, CanModifyExists, CanModifyLookup, Save, Write, Again, Remove,
           Unlog, Rename, Copy, Record, Throws, logVars, TypeOK, Time
  <1>2. files'[p] \in {files[p], 0}
    <2>1. CASE UNCHANGED files \/ Terminate
      BY <2>1 DEF Terminate
    <2>2. CASE CanModifyLookup(w) \/ Unlog(w)
      BY <2>1, <2>2 DEF CanModifyLookup, Unlog, TypeOK
    <2>3. CASE Record(w)
      <3>1. job[w].dst \in Path => owner[job[w].dst] # "user"
        BY <2>3 DEF Record, Permitted, MayWrite
      <3> QED  BY <1>1, <2>1, <2>3, <3>1 DEF Record, Present, TypeOK
    <2> QED
      BY <2>1, <2>2, <2>3
         DEF Work, Source, CanModifyExists, Save, Write, Again, Remove, Rename, Copy, Throws
  <1>3. files[p] \in Nat
    BY DEF TypeOK
  <1> QED  BY <1>1, <1>2, <1>3

(* What a step leaves of the request of w.                                  *)
LEMMA Left ==
    ASSUME TypeInv, NEW w \in Workers, Work(w)
    PROVE  /\ \A pc : Goto(w, pc) => job'[w].pc = pc
           /\ Finish(w) \/ Terminate => job'[w].pc = "idle"
           /\ job'[w].pc # "idle" =>
                 /\ job'[w].op = job[w].op
                 /\ job'[w].src = job[w].src /\ job'[w].dst = job[w].dst
           /\ ~Terminate => \A v \in Workers \ {w} : job'[v] = job[v]
           /\ Terminate => \A v \in Workers : job'[v].pc = "idle"
  <1>1. job \in [Workers -> Job]
    BY DEF TypeInv, TypeOK
  <1>2. Steers(w)
    BY Steered
  <1>3. ASSUME NEW pc, Goto(w, pc)
        PROVE  /\ job'[w] = [job[w] EXCEPT !.pc = pc] /\ job'[w].pc = pc
               /\ job'[w].op = job[w].op
               /\ job'[w].src = job[w].src /\ job'[w].dst = job[w].dst
               /\ \A v \in Workers \ {w} : job'[v] = job[v]
    BY <1>1, <1>3 DEF Goto, Job
  <1>4. ASSUME Finish(w)
        PROVE  job'[w].pc = "idle" /\ \A v \in Workers \ {w} : job'[v] = job[v]
    BY <1>1, <1>4 DEF Finish, Idle
  <1>5. ASSUME Terminate
        PROVE  \A v \in Workers : job'[v].pc = "idle"
    BY <1>5 DEF Terminate, Idle
  <1> QED  BY <1>2, <1>3, <1>4, <1>5 DEF Steers

(* What a request has permission for.                                       *)
PermittedOf(j) ==
    /\ MayWrite(j) /\ j.dst \in Path => owner[j.dst] # "user"
    /\ MayRemove(j) => owner[j.src] # "user"

(* A request gets permission only for what is not the user's.               *)
LEMMA PermissionGiven ==
    ASSUME TypeInv, QuietInv, NEW w \in Workers, Work(w), job'[w].pc # "idle"
    PROVE  PermittedOf(job'[w])
  <1> USE DEF QuietInv
  <1>1. /\ job'[w].op = job[w].op
        /\ job'[w].src = job[w].src /\ job'[w].dst = job[w].dst
        /\ \A pc : Goto(w, pc) => job'[w].pc = pc
        /\ ~Finish(w) /\ ~Terminate
    BY Left
  <1>2. ShapeOf(job[w]) /\ PermittedOf(job[w])
    BY DEF TypeInv, Shapes, Permitted, PermittedOf
  <1>3. \A p : p \in Path /\ (mtime[p] = 0 \/ Modifiable(p)) => owner[p] # "user"
    BY DEF Ages, Modifiable, TypeInv, TypeOK, Time
  <1>4. ASSUME Allowed(w), job[w].pc \in {"dstExists", "dstLookup"},
               job[w].dst \in Path => owner[job[w].dst] # "user"
        PROVE  PermittedOf(job'[w])
    <2>1. job'[w].pc \in {"save", "write", "srcExists"} /\ job[w].op # "DLTE"
      BY <1>1, <1>2, <1>4 DEF Allowed, ShapeOf
    <2> QED  BY <1>1, <1>4, <2>1 DEF PermittedOf, MayWrite, MayRemove
  <1>5. ASSUME Allowed(w), job[w].pc \in {"srcExists", "srcLookup"},
               owner[job[w].src] # "user"
        PROVE  PermittedOf(job'[w])
    <2>1. \/ job'[w].pc = "again" /\ job[w].op = "DLTE"
          \/ job'[w].pc = "rename" /\ job[w].op = "MOVE"
      BY <1>1, <1>2, <1>5 DEF Allowed, ShapeOf
    <2> QED  BY <1>1, <1>2, <1>5, <2>1 DEF PermittedOf, MayWrite, MayRemove
  <1>6. CASE CanModifyExists(w)
    <2>1. CASE Present(Subject(w))
      <3>1. \/ job[w].pc = "dstExists" /\ job'[w].pc = "dstLookup"
            \/ job[w].pc = "srcExists" /\ job'[w].pc = "srcLookup"
        BY <1>1, <1>6, <2>1 DEF CanModifyExists
      <3> QED  BY <1>1, <1>2, <3>1 DEF PermittedOf, MayWrite, MayRemove
    <2>2. CASE ~Present(Subject(w))
      <3>1. Allowed(w) /\ (Subject(w) \in Path => owner[Subject(w)] # "user")
        BY <1>3, <1>6, <2>2 DEF CanModifyExists, Present
      <3>2. CASE job[w].pc = "dstExists"
        BY <1>4, <3>1, <3>2 DEF Subject
      <3>3. CASE job[w].pc = "srcExists"
        <4>1. Subject(w) = job[w].src /\ job[w].src \in Path
          BY <1>2, <3>3 DEF Subject, ShapeOf
        <4> QED  BY <1>5, <3>1, <3>3, <4>1
      <3> QED  BY <1>6, <3>2, <3>3 DEF CanModifyExists
    <2> QED  BY <2>1, <2>2
  <1>7. CASE CanModifyLookup(w)
    <2>1. CASE Modifiable(Subject(w)) /\ Allowed(w)
      <3>1. CASE job[w].pc = "dstLookup"
        <4>1. Subject(w) = job[w].dst /\ job[w].dst \in Path
          BY <1>2, <3>1 DEF Subject, ShapeOf
        <4> QED  BY <1>3, <1>4, <2>1, <3>1, <4>1
      <3>2. CASE job[w].pc = "srcLookup"
        <4>1. Subject(w) = job[w].src /\ job[w].src \in Path
          BY <1>2, <3>2 DEF Subject, ShapeOf
        <4> QED  BY <1>3, <1>5, <2>1, <3>2, <4>1
      <3> QED  BY <1>7, <3>1, <3>2 DEF CanModifyLookup
    <2>2. CASE Refused(w)
      <3>1. job'[w].pc = "copy" /\ job[w].op = "MOVE" /\ job[w].pc = "srcLookup"
        BY <1>1, <2>2 DEF Refused
      <3> QED  BY <1>1, <1>2, <3>1 DEF PermittedOf, MayWrite, MayRemove
    <2> QED  BY <1>1, <1>7, <2>1, <2>2 DEF CanModifyLookup, Modifiable
  <1>8. CASE Source(w)
    <2>1. job'[w].pc = "dstExists"
      BY <1>1, <1>8 DEF Source
    <2> QED  BY <1>1, <2>1 DEF PermittedOf, MayWrite, MayRemove
  <1>9. CASE Again(w) \/ Remove(w)
    <2>1. job'[w].pc \in {"remove", "unlog"} /\ job[w].pc \in {"again", "remove"}
      BY <1>1, <1>9 DEF Again, Remove
    <2> QED  BY <1>1, <1>2, <2>1 DEF PermittedOf, MayWrite, MayRemove, ShapeOf
  <1>10. CASE Rename(w) \/ Copy(w)
    <2>1. job'[w].pc = "record" /\ job[w].pc \in {"rename", "copy"}
      BY <1>1, <1>10 DEF Rename, Copy
    <2> QED  BY <1>1, <1>2, <2>1 DEF PermittedOf, MayWrite, MayRemove
  <1>11. CASE Save(w) \/ Write(w) \/ Unlog(w) \/ Record(w)
    BY <1>1, <1>11 DEF Save, Write, Unlog, Record
  <1>12. ~Throws(w)
    BY <1>1 DEF Throws
  <1> QED
    BY <1>12, <1>6, <1>7, <1>8, <1>9, <1>10, <1>11 DEF Work

(* A step of one request leaves all permissions true.                       *)
LEMMA PermissionKept ==
    ASSUME TypeInv, QuietInv, NEW w \in Workers, Work(w)
    PROVE  Permitted'
  <1>1. \A p \in Path : owner'[p] = "user" => owner[p] = "user"
    BY UsersFilesKept
  <1>2. ASSUME NEW v \in Workers, job'[v].pc # "idle"
        PROVE  PermittedOf(job'[v])
    <2>1. CASE v = w
      BY <1>2, <2>1, PermissionGiven
    <2>2. CASE v # w
      BY <1>2, <2>2, Left DEF QuietInv, Permitted, PermittedOf
    <2> QED  BY <2>1, <2>2
  <1>3. ASSUME NEW v \in Workers
        PROVE  /\ MayWrite(job'[v]) \/ MayRemove(job'[v]) => job'[v].pc # "idle"
               /\ MayRemove(job'[v]) => job'[v].src \in Path
    <2>1. ShapeOf(job[v])'
      BY WorkTypes DEF TypeInv, Shapes
    <2> QED  BY <2>1 DEF MayWrite, MayRemove, ShapeOf
  <1> QED  BY <1>1, <1>2, <1>3 DEF Permitted, PermittedOf, MayWrite, MayRemove

(* A log that is read again says nothing false of a file of the user's that *)
(* is not exposed by it: the line of its own path is older than the file.   *)
LEMMA LoadQuiet ==
    ASSUME TypeInv, QuietInv, NEW mayStop \in BOOLEAN, LoadLog(mayStop)
    PROVE  QuietInv'
  <1> USE DEF TypeInv, QuietInv
  <1>1. UNCHANGED <<mtime, saved, job>>
    BY DEF LoadLog, logVars
  <1>2. PICK name \in Names, log \in [Path -> 0..now] :
            /\ \A q \in Path :
                  \/ log[q] = 0
                  \/ \E p \in Path :
                        name[p] = q /\ saved[p] # 0 /\ log[q] = saved[p]
            /\ files' = log
            /\ owner' = [q \in Path |->
                  IF /\ owner[q] = "user" /\ mtime[q] <= log[q]
                     /\ \E p \in Path \ {q} : name[p] = q /\ log[q] = saved[p]
                  THEN "exposed" ELSE owner[q]]
    BY DEF LoadLog
  <1>3. ASSUME NEW q \in Path
        PROVE  /\ owner'[q] = "none" <=> mtime'[q] = 0
               /\ owner'[q] = "user" =>
                     owner[q] = "user" /\ files'[q] < mtime'[q] /\ saved'[q] < mtime'[q]
    <2>1. mtime[q] \in Nat /\ log[q] \in Nat /\ saved[q] \in Nat
      BY DEF TypeOK, Time
    <2>2. CASE owner[q] = "user"
      <3>1. saved[q] < mtime[q]
        BY <2>2 DEF Ages
      <3>2. CASE owner'[q] = "user"
        <4>1. log[q] < mtime[q] \/ ~\E p \in Path \ {q} : name[p] = q /\ log[q] = saved[p]
          BY <1>2, <2>1, <2>2, <3>2
        <4>2. log[q] = 0 \/ log[q] = saved[q] \/ log[q] < mtime[q]
          BY <1>2, <4>1
        <4> QED  BY <1>1, <1>2, <2>1, <2>2, <3>1, <3>2, <4>2 DEF Ages
      <3>3. CASE owner'[q] # "user"
        <4>1. owner'[q] = "exposed"
          BY <1>2, <2>2, <3>3
        <4> QED  BY <1>1, <2>2, <4>1 DEF Ages
      <3> QED  BY <3>2, <3>3
    <2>3. CASE owner[q] # "user"
      <3>1. owner'[q] = owner[q]
        BY <1>2, <2>3
      <3> QED  BY <1>1, <2>3, <3>1 DEF Ages
    <2> QED  BY <2>2, <2>3
  <1>4. Ages'
    BY <1>3 DEF Ages
  <1>5. ASSUME NEW w \in Workers
        PROVE  MayRemove(job[w]) => job[w].src \in Path
    BY DEF MayRemove, Shapes, ShapeOf
  <1>6. Permitted'
    BY <1>1, <1>3, <1>5 DEF Permitted, MayWrite, MayRemove
  <1> QED  BY <1>4, <1>6

(* What the log says and what requests may do stays true, as long as the    *)
(* user keeps still during requests.                                        *)
LEMMA QuietStep ==
    ASSUME UserQuiet, TypeInv, QuietInv, [Next]_vars
    PROVE  QuietInv'
  <1> USE DEF TypeInv, QuietInv
  <1>1. ASSUME NEW w \in Workers, Work(w)
        PROVE  QuietInv'
    <2>1. Ages'
      BY <1>1, UsersFilesKept, LogKept DEF Ages
    <2> QED  BY <1>1, <2>1, PermissionKept
  <1>2. ASSUME NEW w \in Workers, Request(w)
        PROVE  QuietInv'
    <2>1. Ages'
      BY <1>2 DEF Request, diskVars, logVars, Ages
    <2>2. Permitted'
      BY <1>2 DEF Request, Begin, diskVars, Permitted, MayWrite, MayRemove, TypeOK
    <2> QED  BY <2>1, <2>2
  <1>3. CASE Exit \/ Tick \/ UNCHANGED vars
    <2>1. Permitted'
      BY <1>3 DEF Exit, Tick, vars, diskVars, Permitted
    <2>2. \A p \in Path : mtime[p] \in Nat /\ (owner[p] = "user" => 0 < mtime[p])
      BY DEF Ages, TypeOK, Time
    <2>3. Ages'
      BY <1>3, <2>2 DEF Exit, Tick, vars, diskVars, logVars, Ages, TypeOK
    <2> QED  BY <2>1, <2>3
  <1>4. CASE Kill
    <2>1. Ages'
      BY <1>4 DEF Kill, Terminate, diskVars, logVars, Ages, TypeOK, Time
    <2>2. Permitted'
      BY <1>4 DEF Kill, Terminate, Idle, Permitted, MayWrite, MayRemove
    <2> QED  BY <2>1, <2>2
  <1>5. ASSUME NEW p \in Path, UserWrite(p) \/ UserDelete(p)
        PROVE  QuietInv'
    <2>1. /\ \A w \in Workers : job[w].pc = "idle"
          /\ files[p] \in Nat /\ saved[p] \in Nat /\ now \in Nat \ {0}
      BY <1>5 DEF UserWrite, UserDelete, UserActs, TypeOK, Time
    <2>2. Permitted'
      BY <1>5, <2>1 DEF UserWrite, UserDelete, Permitted, MayWrite, MayRemove
    <2>3. Ages'
      BY <1>5, <2>1 DEF UserWrite, UserDelete, logVars, Ages, TypeOK
    <2> QED  BY <2>2, <2>3
  <1>6. CASE Start \/ StartFailing
    BY <1>6, LoadQuiet DEF Start, StartFailing
  <1> QED  BY <1>1, <1>2, <1>3, <1>4, <1>5, <1>6 DEF Next

(* The same from the start on.                                              *)
LEMMA QuietAlways ==
    ASSUME UserQuiet
    PROVE  Spec => []QuietInv
  <1>1. Init => QuietInv
    BY DEF Init, QuietInv, Ages, Permitted, Idle, MayWrite, MayRemove
  <1>2. TypeInv /\ QuietInv /\ [Next]_vars => QuietInv'
    BY QuietStep
  <1> QED  BY <1>1, <1>2, TypesAlways, PTL DEF Spec

(* If the user keeps still during requests, what the log claims of a file   *)
(* is true, whatever requests overlap and whenever the program dies.        *)
THEOREM LogTrue ==
    ASSUME UserQuiet
    PROVE  Spec => []LogIsTrue
  <1>1. TypeInv /\ QuietInv => LogIsTrue
    BY DEF TypeInv, QuietInv, Ages, LogIsTrue, Modifiable, TypeOK, Time
  <1> QED  BY <1>1, TypesAlways, QuietAlways, PTL

(* And no request touches a file whose content is his.                      *)
THEOREM UsersFilesSafe ==
    ASSUME UserQuiet
    PROVE  Spec => OwnFilesOnly
  <1>1. TypeInv /\ QuietInv /\ [Next]_vars =>
            [(\E w \in Workers : Work(w)) =>
                \A p \in Path : owner[p] = "user" =>
                   owner'[p] = "user" /\ mtime'[p] = mtime[p]]_vars
    BY UsersFilesKept
  <1> QED  BY <1>1, TypesAlways, QuietAlways, PTL DEF Spec, OwnFilesOnly

-----------------------------------------------------------------------------
(* Requests that run alone.                                                 *)

Lone(w) == \A v \in Workers \ {w} : job[v].pc = "idle"

(* A request that is alone finds on disk what it has seen there.            *)
Alone ==
    /\ ~up => \A w \in Workers : job[w].pc = "idle"
    /\ ~overlap =>
          \A w \in Workers : job[w].pc # "idle" =>
              /\ Lone(w)
              /\ job[w].pc \in {"dstLookup", "srcLookup"} => Present(Subject(w))

(* A step of a request keeps it so.                                         *)
LEMMA AloneWork ==
    ASSUME TypeInv, Alone, NEW w \in Workers, Work(w)
    PROVE  Alone'
  <1>1. /\ \A v \in Workers \ {w} : job'[v] = job[v] \/ job'[v].pc = "idle"
        /\ Terminate \/ \A v \in Workers \ {w} : job'[v] = job[v]
        /\ Terminate => \A v \in Workers : job'[v].pc = "idle"
    BY Left
  <1>2. job[w].pc # "idle" /\ up
    BY DEF Alone, Work, Source, CanModifyExists, CanModifyLookup, Save, Write, Again,
       Remove, Unlog, Rename, Copy, Record, Throws
  <1>3. Terminate \/ up' = up
    BY DEF Work, Source, CanModifyExists, CanModifyLookup, Save, Write, Again,
       Remove, Unlog, Rename, Copy, Record, Throws
  <1>4. ~overlap' => ~overlap \/ \A v \in Workers : job'[v].pc = "idle"
    BY DEF Work
  <1>5. ASSUME ~overlap, NEW v \in Workers, job'[v].pc # "idle"
        PROVE  /\ Lone(v)'
               /\ job'[v].pc \in {"dstLookup", "srcLookup"} => Present(Subject(v))'
    <2>1. v = w /\ Lone(w) /\ ~Terminate
      BY <1>1, <1>2, <1>5 DEF Alone, Lone
    <2>2. Lone(v)'
      BY <1>1, <2>1 DEF Lone
    <2>3. ASSUME job'[w].pc \in {"dstLookup", "srcLookup"}
          PROVE  Present(Subject(w))'
      <3>1. /\ ~Finish(w) /\ \A pc : Goto(w, pc) => job'[w].pc = pc
            /\ job'[w].src = job[w].src /\ job'[w].dst = job[w].dst
        BY <2>3, Left
      <3>2. CanModifyExists(w) /\ ~Allowed(w)
        BY <2>1, <2>3, <3>1
           DEF Work, Source, CanModifyExists, CanModifyLookup, Save, Write, Again, Remove,
               Unlog, Rename, Copy, Record, Throws, Allowed, Refused
      <3>3. /\ Present(Subject(w)) /\ mtime' = mtime
            /\ \/ job[w].pc = "dstExists" /\ job'[w].pc = "dstLookup"
               \/ job[w].pc = "srcExists" /\ job'[w].pc = "srcLookup"
        BY <3>1, <3>2 DEF CanModifyExists, diskVars
      <3> QED  BY <3>1, <3>3 DEF Present, Subject
    <2> QED  BY <2>1, <2>2, <2>3
  <1> QED  BY <1>1, <1>2, <1>3, <1>4, <1>5 DEF Alone

(* So does every other step, as long as the user keeps still.               *)
LEMMA AloneStep ==
    ASSUME UserQuiet, TypeInv, Alone, [Next]_vars
    PROVE  Alone'
  <1> USE DEF TypeInv
  <1>1. ASSUME NEW w \in Workers, Request(w)
        PROVE  Alone'
    <2>1. /\ up /\ up' /\ (overlap' <=> \E v \in Workers : job[v].pc # "idle")
          /\ \A v \in Workers \ {w} : job'[v] = job[v]
          /\ job'[w].pc \in {"dstExists", "srcExists", "source"}
      BY <1>1 DEF Request, Begin, TypeOK
    <2> QED  BY <2>1 DEF Alone, Lone
  <1>2. CASE Exit \/ Start \/ StartFailing \/ Tick \/ UNCHANGED vars
    BY <1>2
       DEF Exit, Start, StartFailing, LoadLog, Tick, vars, diskVars, Alone, Lone, Present, Subject
  <1>3. CASE Kill
    BY <1>3 DEF Kill, Terminate, Idle, Alone
  <1>4. ASSUME NEW p \in Path, UserWrite(p) \/ UserDelete(p)
        PROVE  Alone'
    <2>1. /\ \A w \in Workers : job[w].pc = "idle"
          /\ UNCHANGED <<up, job, overlap>>
      BY <1>4 DEF UserWrite, UserDelete, UserActs
    <2> QED  BY <2>1 DEF Alone
  <1> QED  BY <1>1, <1>2, <1>3, <1>4, AloneWork DEF Next

(* If the user keeps still during requests, one that runs alone ends the    *)
(* program by an exception only if it is a MOVE, the file system fails, or  *)
(* a QR code does not fit into memory.                                      *)
THEOREM LoneEnds ==
    ASSUME UserQuiet
    PROVE  Spec => LoneRequestsEnd
  <1>1. Init => Alone
    BY DEF Init, Alone, Idle
  <1>2. TypeInv /\ Alone /\ [Next]_vars => Alone'
    BY AloneStep
  <1>3. ASSUME TypeInv, Alone, NEW w \in Workers, Work(w), ~Throws(w), ~up', ~overlap
        PROVE  job[w].op = "MOVE"
    <2>1. job[w].pc # "idle" /\ up
      BY <1>3 DEF Alone, Work, Source, CanModifyExists, CanModifyLookup, Save, Write, Again,
         Remove, Unlog, Rename, Copy, Record
    <2>2. CASE CanModifyLookup(w)
      <3>1. Present(Subject(w))
        BY <1>3, <2>1, <2>2 DEF Alone, CanModifyLookup
      <3> QED  BY <1>3, <2>1, <2>2, <3>1 DEF CanModifyLookup, Present
    <2>3. CASE Copy(w) \/ Record(w)
      <3>1. ShapeOf(job[w])
        BY <1>3 DEF TypeInv, Shapes
      <3>2. job[w].pc \in {"copy", "record"}
        BY <2>3 DEF Copy, Record
      <3> QED  BY <3>1, <3>2 DEF ShapeOf
    <2> QED
      BY <1>3, <2>1, <2>2, <2>3
         DEF Work, Source, CanModifyExists, Save, Write, Again, Remove, Unlog, Rename
  <1>4. TypeInv /\ Alone =>
            [\A w \in Workers :
                Work(w) /\ ~Throws(w) /\ ~up' /\ ~overlap => job[w].op = "MOVE"]_vars
    BY <1>3
  <1> QED  BY <1>1, <1>2, <1>4, TypesAlways, PTL DEF Spec, LoneRequestsEnd

-----------------------------------------------------------------------------
(* Restarts.                                                                *)

(* A program that is not up has no request under way, and if it ended       *)
(* properly the log on disk is the one it had, whole.                       *)
Down ==
    ~up => /\ \A w \in Workers : job[w].pc = "idle"
           /\ clean => saved = files /\ cut = NoPath

(* A step of a request either leaves the program up or kills it.            *)
LEMMA DownWork ==
    ASSUME TypeInv, Down, NEW w \in Workers, Work(w)
    PROVE  Down'
  <1>1. up
    BY DEF Down, Work, Source, CanModifyExists, CanModifyLookup, Save, Write, Again,
       Remove, Unlog, Rename, Copy, Record, Throws
  <1>2. Terminate \/ up' = up
    BY DEF Work, Source, CanModifyExists, CanModifyLookup, Save, Write, Again,
       Remove, Unlog, Rename, Copy, Record, Throws
  <1>3. CASE Terminate
    BY <1>3 DEF Terminate, Idle, Down
  <1> QED  BY <1>1, <1>2, <1>3 DEF Down

(* And so does every step: Exit saves before the program is down.           *)
LEMMA DownStep ==
    ASSUME TypeInv, Down, [Next]_vars
    PROVE  Down'
  <1>1. ASSUME NEW w \in Workers, Request(w)
        PROVE  Down'
    BY <1>1 DEF Request, Down
  <1>2. CASE Exit \/ Kill \/ Tick \/ UNCHANGED vars
    BY <1>2 DEF Exit, Kill, Terminate, Idle, Tick, vars, logVars, Down
  <1>3. ASSUME NEW p \in Path, UserWrite(p) \/ UserDelete(p)
        PROVE  Down'
    BY <1>3 DEF UserWrite, UserDelete, logVars, Down
  <1>4. CASE Start \/ StartFailing
    BY <1>4 DEF Start, StartFailing, LoadLog, Down
  <1> QED  BY <1>1, <1>2, <1>3, <1>4, DownWork DEF Next

(* All of it, always.                                                       *)
LEMMA DownAlways == Spec => []Down
  <1>1. Init => Down
    BY DEF Init, Down
  <1>2. TypeInv /\ Down /\ [Next]_vars => Down'
    BY DownStep
  <1> QED  BY <1>1, <1>2, TypesAlways, PTL DEF Spec

(* A start after a proper end finds the time of a path that is read back as *)
(* itself, if nothing in the log displaces it or ends the reading.          *)
LEMMA StartStep ==
    ASSUME TypeInv, Down, Start, clean, NEW p \in Path, Modifiable(p), ReadBack[p] = p,
           \A q \in Path \ {p} :
               saved[q] # 0 => ReadBack[q] # p /\ q \notin Broken
    PROVE  Modifiable(p)'
  <1> USE PathAssumption DEF PathAssumption, TypeInv
  <1>1. saved = files /\ cut = NoPath /\ mtime' = mtime
    BY DEF Start, LoadLog, Down
  <1>2. PICK name \in Names, log \in [Path -> 0..now] :
            /\ files' = log
            /\ \/ \E r \in Path : name[r] = p /\ saved[r] # 0 /\ log[p] = saved[r]
               \/ /\ log[p] = 0
                  /\ \/ \A r \in Path : name[r] = p => saved[r] = 0
                     \/ \E r \in Broken : saved[r] # 0
    BY DEF Start, LoadLog
  <1>3. \A r \in Path : name[r] = ReadBack[r]
    BY <1>1 DEF Names
  <1>4. saved[p] # 0 /\ p \notin Broken
    BY <1>1 DEF Modifiable
  <1>5. log[p] = saved[p]
    BY <1>2, <1>3, <1>4
  <1> QED  BY <1>1, <1>2, <1>5 DEF Modifiable

(* What the server may change when it is closed properly it may still       *)
(* change when it runs again, whatever the user did to other files          *)
(* meanwhile, but for what white space in a path does to the log.           *)
THEOREM LogLasts == Spec => LogSurvives
  <1>1. TypeInv /\ Down =>
            [\A p \in Path :
                 /\ Start /\ clean /\ Modifiable(p)
                 /\ ReadBack[p] = p
                 /\ \A q \in Path \ {p} :
                       saved[q] # 0 => ReadBack[q] # p /\ q \notin Broken
                 => Modifiable(p)']_vars
    BY StartStep
  <1> QED  BY <1>1, TypesAlways, DownAlways, PTL DEF Spec, LogSurvives
=============================================================================
