----------------------------- MODULE LocalFiles -----------------------------
(***************************************************************************)
(* LocalServer (localserver.cpp): the file requests a webapp sends as      *)
(* binary messages, and the log of the files the server may change.        *)
(* Requests run on the threads of their connections; LocalServer::_mutex   *)
(* guards each access to the log, not a whole request, and the user of the *)
(* machine changes files whenever he likes.                                *)
(*                                                                         *)
(* Times are whole seconds, as the log keeps them; 0 stands for "no file"  *)
(* and "not in the log".                                                   *)
(*                                                                         *)
(* The log is a text file of lines "time path", written without quotes:    *)
(* a path that holds white space is read back as another one.  How, is the *)
(* constant ReadBack; which line comes first, and so which of two lines    *)
(* for one path wins and which are lost behind a bad one, is left open.    *)
(***************************************************************************)
EXTENDS Naturals

CONSTANTS
    Path,       \* the files requests are about
    NoPath,     \* the empty path GetPath() returns, or one no request names
    ReadBack,   \* the path Load() takes from the line Save() wrote of a path
    Broken,     \* the paths that hold a line feed, which makes two lines
    Workers,    \* connection threads
    MaxTime,    \* bound: the clock stops there
    MaxRequests,\* bound: requests that come in
    UserQuiet,  \* the user changes files only between requests
    IoFails     \* file operations may fail for reasons of their own

ASSUME PathAssumption ==
    /\ NoPath \notin Path
    /\ ReadBack \in [Path -> Path \cup {NoPath}]
    /\ Broken \subseteq {p \in Path : ReadBack[p] # p}
    /\ MaxTime \in Nat \ {0}
    /\ MaxRequests \in Nat
    /\ UserQuiet \in BOOLEAN
    /\ IoFails \in BOOLEAN

VARIABLES
    mtime,      \* last write time of each file
    owner,      \* whose it is; "exposed" is said of a file of the user's in
                \* the two cases named at UserWrite and at Start
    now,        \* the clock
    files,      \* LocalServer::_files
    saved,      \* contents of nornsockets.log
    cut,        \* the path whose line there ends too soon, if any
    up,         \* the program is running
    clean,      \* it has ended through ~LocalServer(), and the log was written
    job,        \* the request each thread is working on
    overlap,    \* history: a request under way was not alone all the time
    asked       \* number of requests that have come in

diskVars == <<mtime, owner>>
logVars == <<saved, cut>>
vars == <<diskVars, now, files, logVars, up, clean, job, overlap, asked>>

Time == 0..MaxTime
Operations == {"SAVE", "DLTE", "MOVE", "QRCD"}
Pcs == {"idle", "source", "dstExists", "dstLookup", "srcExists", "srcLookup",
        "save", "write", "again", "remove", "unlog", "rename", "copy", "record"}
Job == [pc: Pcs, op: Operations \cup {"none"},
        src: Path \cup {NoPath}, dst: Path \cup {NoPath}]
Idle == [pc |-> "idle", op |-> "none", src |-> NoPath, dst |-> NoPath]

TypeOK ==
    /\ mtime \in [Path -> Time]
    /\ owner \in [Path -> {"none", "user", "exposed", "server"}]
    /\ now \in Time \ {0}
    /\ files \in [Path -> 0..now]
    /\ saved \in [Path -> 0..now]
    /\ cut \in Path \cup {NoPath}
    /\ up \in BOOLEAN
    /\ clean \in BOOLEAN
    /\ job \in [Workers -> Job]
    /\ overlap \in BOOLEAN
    /\ asked \in 0..MaxRequests

Present(p) == p \in Path /\ mtime[p] # 0

Init ==
    /\ mtime = [p \in Path |-> 0]
    /\ owner = [p \in Path |-> "none"]
    /\ now = 1
    /\ files = [p \in Path |-> 0]
    /\ saved = [p \in Path |-> 0]
    /\ cut = NoPath
    /\ up = TRUE
    /\ clean = FALSE
    /\ job = [w \in Workers |-> Idle]
    /\ overlap = FALSE
    /\ asked = 0

-----------------------------------------------------------------------------
(* Requests.  A step of ProcessMessage ends at every access to the file     *)
(* system and at every section under the mutex.                             *)

Goto(w, pc) == job' = [job EXCEPT ![w].pc = pc]
Finish(w)   == job' = [job EXCEPT ![w] = Idle]
Begin(w, pc, op, src, dst) ==
    job' = [job EXCEPT ![w] = [pc |-> pc, op |-> op, src |-> src, dst |-> dst]]

(* An exception leaves the callback of the connection: the program ends,    *)
(* without the destructor that saves the log, which is lost.                *)
Terminate ==
    /\ up' = FALSE
    /\ files' = [p \in Path |-> 0]
    /\ clean' = FALSE
    /\ job' = [w \in Workers |-> Idle]

(* ProcessMessage up to its first look at the disk.  An empty path ends     *)
(* SAVE, QRCD and DLTE at once, and MOVE when it is the source.             *)
Request(w) ==
    /\ up
    /\ job[w].pc = "idle"
    /\ asked < MaxRequests
    /\ asked' = asked + 1
    /\ overlap' = \E v \in Workers : job[v].pc # "idle"
    /\ \E p \in Path, q \in Path \cup {NoPath} :
          \/ Begin(w, "dstExists", "SAVE", NoPath, p)
          \/ Begin(w, "dstExists", "QRCD", NoPath, p)
          \/ Begin(w, "srcExists", "DLTE", p, NoPath)
          \/ Begin(w, "source", "MOVE", p, q)
    /\ UNCHANGED <<diskVars, now, files, logVars, up, clean>>

(* MOVE refuses a source that does not exist.                               *)
Source(w) ==
    /\ job[w].pc = "source"
    /\ IF Present(job[w].src) THEN Goto(w, "dstExists") ELSE Finish(w)
    /\ UNCHANGED <<diskVars, now, files, logVars, up, clean>>

(* What follows CanModify() where it was called.                            *)
Allowed(w) ==
    \/ job[w].op = "SAVE" /\ Goto(w, "save")
    \/ job[w].op = "QRCD" /\ Goto(w, "write")
    \/ job[w].op = "DLTE" /\ Goto(w, "again")
    \/ /\ job[w].op = "MOVE"
       /\ Goto(w, IF job[w].pc \in {"dstExists", "dstLookup"}
                  THEN "srcExists"
                  ELSE "rename")

Refused(w) ==
    IF job[w].op = "MOVE" /\ job[w].pc = "srcLookup"
    THEN Goto(w, "copy")
    ELSE Finish(w)

(* The path CanModify() was called on.                                      *)
Subject(w) ==
    IF job[w].pc \in {"dstExists", "dstLookup"} THEN job[w].dst ELSE job[w].src

(* Mutant of CanModifyExists: a file that the log names is taken to exist.  *)
CanModifyExistsLogged(w) ==
    /\ job[w].pc \in {"dstExists", "srcExists"}
    /\ IF Present(Subject(w)) \/ (Subject(w) \in Path /\ files[Subject(w)] # 0)
       THEN Goto(w, IF job[w].pc = "dstExists" THEN "dstLookup" ELSE "srcLookup")
       ELSE Allowed(w)
    /\ UNCHANGED <<diskVars, now, files, logVars, up, clean>>

(* CanModify() allows a file that does not exist, before it takes the lock. *)
CanModifyExists(w) ==
    /\ job[w].pc \in {"dstExists", "srcExists"}
    /\ IF Present(Subject(w))
       THEN Goto(w, IF job[w].pc = "dstExists" THEN "dstLookup" ELSE "srcLookup")
       ELSE Allowed(w)
    /\ UNCHANGED <<diskVars, now, files, logVars, up, clean>>

(* Mutant of CanModifyLookup: a file the log names is allowed, whenever it  *)
(* was written.                                                             *)
CanModifyLookupTimeless(w) ==
    /\ job[w].pc \in {"dstLookup", "srcLookup"}
    /\ LET p == Subject(w)
       IN  \/ files[p] = 0 /\ Refused(w) /\ UNCHANGED <<files, up, clean>>
           \/ files[p] # 0 /\ mtime[p] = 0 /\ Terminate
           \/ /\ files[p] # 0 /\ mtime[p] # 0
              /\ Allowed(w)
              /\ UNCHANGED <<files, up, clean>>
    /\ UNCHANGED <<diskVars, now, logVars>>

(* Under the lock: a file the log does not name is refused; one written     *)
(* since it was logged is refused and forgotten; last_write_time() throws   *)
(* if the file has gone meanwhile.                                          *)
CanModifyLookup(w) ==
    /\ job[w].pc \in {"dstLookup", "srcLookup"}
    /\ LET p == Subject(w)
       IN  \/ files[p] = 0 /\ Refused(w) /\ UNCHANGED <<files, up, clean>>
           \/ files[p] # 0 /\ mtime[p] = 0 /\ Terminate
           \/ /\ files[p] # 0 /\ mtime[p] > files[p]
              /\ files' = [files EXCEPT ![p] = 0]
              /\ Refused(w)
              /\ UNCHANGED <<up, clean>>
           \/ /\ files[p] # 0 /\ mtime[p] # 0 /\ mtime[p] <= files[p]
              /\ Allowed(w)
              /\ UNCHANGED <<files, up, clean>>
    /\ UNCHANGED <<diskVars, now, logVars>>

-----------------------------------------------------------------------------
(* SAVE opens the path it never set instead of the one it was given, so     *)
(* that the open fails and the request is answered with an error.           *)
Save(w) ==
    /\ job[w].pc = "save"
    /\ Finish(w)
    /\ UNCHANGED <<diskVars, now, files, logVars, up, clean>>

(* QRCD writes its bitmap, unless the text makes no QR code or the file     *)
(* cannot be written, and leaves the log alone.                             *)
Write(w) ==
    /\ job[w].pc = "write"
    /\ Finish(w)
    /\ \/ /\ mtime' = [mtime EXCEPT ![job[w].dst] = now]
          /\ owner' = [owner EXCEPT ![job[w].dst] = "server"]
       \/ UNCHANGED diskVars
    /\ UNCHANGED <<now, files, logVars, up, clean>>

(* DLTE looks again, removes the file, and forgets it.                      *)
Again(w) ==
    /\ job[w].pc = "again"
    /\ IF Present(job[w].src) THEN Goto(w, "remove") ELSE Finish(w)
    /\ UNCHANGED <<diskVars, now, files, logVars, up, clean>>

Remove(w) ==
    /\ job[w].pc = "remove"
    /\ Goto(w, "unlog")
    /\ \/ /\ mtime' = [mtime EXCEPT ![job[w].src] = 0]
          /\ owner' = [owner EXCEPT ![job[w].src] = "none"]
       \/ IoFails /\ UNCHANGED diskVars
    /\ UNCHANGED <<now, files, logVars, up, clean>>

Unlog(w) ==
    /\ job[w].pc = "unlog"
    /\ Finish(w)
    /\ files' = [files EXCEPT ![job[w].src] = 0]
    /\ UNCHANGED <<diskVars, now, logVars, up, clean>>

(* MOVE renames a source it may change; nobody looks at what std::rename()  *)
(* returns, and the log keeps its entry for the source.                     *)
Rename(w) ==
    LET p == job[w].src
        q == job[w].dst
    IN  /\ job[w].pc = "rename"
        /\ Goto(w, "record")
        /\ \/ /\ Present(p) /\ q \in Path /\ p # q
              /\ mtime' = [mtime EXCEPT ![q] = mtime[p], ![p] = 0]
              /\ owner' = [owner EXCEPT ![q] = owner[p], ![p] = "none"]
           \/ /\ IoFails \/ ~Present(p) \/ q = NoPath \/ p = q
              /\ UNCHANGED diskVars
        /\ UNCHANGED <<now, files, logVars, up, clean>>

(* It copies one it may not change, with or without its time, as the system *)
(* does; std::filesystem::copy() throws when it cannot, among others        *)
(* because the destination exists.                                          *)
Copy(w) ==
    LET p == job[w].src
        q == job[w].dst
    IN  /\ job[w].pc = "copy"
        /\ \/ /\ Present(p) /\ q \in Path /\ ~Present(q)
              /\ \E t \in {now, mtime[p]} : mtime' = [mtime EXCEPT ![q] = t]
              /\ owner' = [owner EXCEPT ![q] = "server"]
              /\ Goto(w, "record")
              /\ UNCHANGED <<files, up, clean>>
           \/ /\ IoFails \/ ~Present(p) \/ q = NoPath \/ Present(q)
              /\ Terminate
              /\ UNCHANGED diskVars
        /\ UNCHANGED <<now, logVars>>

(* Mutant of Record: the source is logged instead of the destination.       *)
RecordSource(w) ==
    LET q == job[w].src
    IN  /\ job[w].pc = "record"
        /\ IF Present(q)
           THEN /\ files' = [files EXCEPT ![q] = mtime[q]]
                /\ Finish(w)
                /\ UNCHANGED <<up, clean>>
           ELSE Terminate
        /\ UNCHANGED <<diskVars, now, logVars>>

(* OnModifiedFile(dst, true) throws when there is no such file.             *)
Record(w) ==
    LET q == job[w].dst
    IN  /\ job[w].pc = "record"
        /\ IF Present(q)
           THEN /\ files' = [files EXCEPT ![q] = mtime[q]]
                /\ Finish(w)
                /\ UNCHANGED <<up, clean>>
           ELSE Terminate
        /\ UNCHANGED <<diskVars, now, logVars>>

(* exists() and last_write_time() may throw for reasons of their own, a     *)
(* name too long or a directory that may not be read, and none of these     *)
(* calls is inside a try; nor is the buffer of QRCD, whose size grows with  *)
(* the square of the text.                                                  *)
Throws(w) ==
    /\ \/ /\ IoFails
          /\ job[w].pc \in {"source", "dstExists", "srcExists", "again"}
       \/ /\ IoFails
          /\ job[w].pc \in {"dstLookup", "srcLookup"} /\ Present(Subject(w))
       \/ IoFails /\ job[w].pc = "record"
       \/ job[w].pc = "write"
    /\ Terminate
    /\ UNCHANGED <<diskVars, now, logVars>>

Work(w) ==
    /\ \/ Source(w) \/ CanModifyExists(w) \/ CanModifyLookup(w)
       \/ Save(w) \/ Write(w)
       \/ Again(w) \/ Remove(w) \/ Unlog(w)
       \/ Rename(w) \/ Copy(w) \/ Record(w) \/ Throws(w)
    /\ overlap' = (overlap /\ \E v \in Workers : job'[v].pc # "idle")
    /\ UNCHANGED asked

-----------------------------------------------------------------------------
(* Mutant of Exit: the log is not written.                                  *)
ExitUnsaved ==
    /\ up
    /\ \A w \in Workers : job[w].pc = "idle"
    /\ up' = FALSE
    /\ clean' = TRUE
    /\ UNCHANGED <<diskVars, now, files, logVars, job, overlap, asked>>

(* ~LocalServer() writes the log once every connection thread has ended.    *)
(* Save() swallows its errors, and the program may be killed inside it: the *)
(* old log may still be there, or some of the lines of the new one, the     *)
(* last of them cut anywhere.                                               *)
Exit ==
    /\ up
    /\ \A w \in Workers : job[w].pc = "idle"
    /\ up' = FALSE
    /\ \/ saved' = files /\ cut' = NoPath /\ clean' = TRUE
       \/ IoFails /\ clean' = FALSE /\ UNCHANGED logVars
       \/ /\ clean' = FALSE
          /\ \E kept \in SUBSET Path :
                /\ saved' = [p \in Path |-> IF p \in kept THEN files[p] ELSE 0]
                /\ cut' \in kept \cup {NoPath}
    /\ UNCHANGED <<diskVars, now, files, job, overlap, asked>>

(* The program is killed, or dies of something outside this module.         *)
Kill ==
    /\ up
    /\ Terminate
    /\ overlap' = FALSE
    /\ UNCHANGED <<diskVars, now, logVars, asked>>

(* The paths Load() may take from the lines of the log: ReadBack of each,   *)
(* but whatever is left of the one that was cut.                            *)
Names == {name \in [Path -> Path \cup {NoPath}] :
             \A p \in Path : p = cut \/ name[p] = ReadBack[p]}

(* LocalServer() reads the log: an entry is the time of some line that is   *)
(* read as that path.  All lines are read, unless one is of a broken path,  *)
(* whose second line ends Load(), or reading fails.  A file of the user's   *)
(* that the line of another path comes to cover is exposed.                 *)
LoadLog(mayStop) ==
    /\ ~up
    /\ up' = TRUE
    /\ clean' = FALSE
    /\ \E name \in Names, log \in [Path -> 0..now] :
          /\ \A q \in Path :
                \/ \E p \in Path :
                      name[p] = q /\ saved[p] # 0 /\ log[q] = saved[p]
                \/ /\ log[q] = 0
                   /\ \/ \A p \in Path : name[p] = q => saved[p] = 0
                      \/ \E r \in Broken : saved[r] # 0
                      \/ mayStop
          /\ files' = log
          /\ owner' = [q \in Path |->
                IF /\ owner[q] = "user" /\ mtime[q] <= log[q]
                   /\ \E p \in Path \ {q} : name[p] = q /\ log[q] = saved[p]
                THEN "exposed" ELSE owner[q]]
    /\ UNCHANGED <<mtime, now, logVars, job, overlap, asked>>

Start == LoadLog(FALSE)
StartFailing == IoFails /\ LoadLog(TRUE)

(* The user and the clock.  A file he puts in place may keep an older time, *)
(* as mv, cp -p and archives leave it.  It is exposed if that is no later   *)
(* than the time the log, in memory or on disk, has for the path.           *)
UserActs == UserQuiet => \A w \in Workers : job[w].pc = "idle"

UserWrite(p) ==
    /\ UserActs
    /\ \E t \in 1..now :
          /\ mtime' = [mtime EXCEPT ![p] = t]
          /\ owner' = [owner EXCEPT ![p] =
                IF t <= files[p] \/ t <= saved[p] THEN "exposed" ELSE "user"]
    /\ UNCHANGED <<now, files, logVars, up, clean, job, overlap, asked>>

UserDelete(p) ==
    /\ UserActs
    /\ Present(p)
    /\ mtime' = [mtime EXCEPT ![p] = 0]
    /\ owner' = [owner EXCEPT ![p] = "none"]
    /\ UNCHANGED <<now, files, logVars, up, clean, job, overlap, asked>>

Tick ==
    /\ now < MaxTime
    /\ now' = now + 1
    /\ UNCHANGED <<diskVars, files, logVars, up, clean, job, overlap, asked>>

Next ==
    \/ \E w \in Workers : Request(w) \/ Work(w)
    \/ Exit \/ Kill \/ Start \/ StartFailing \/ Tick
    \/ \E p \in Path : UserWrite(p) \/ UserDelete(p)

Spec == Init /\ [][Next]_vars

-----------------------------------------------------------------------------
(* What the log lets the server change: CanModify() of an existing file.    *)
Modifiable(p) == mtime[p] # 0 /\ files[p] # 0 /\ mtime[p] <= files[p]

(* No request overwrites, removes or moves a file of the user's             *)
(* (README.md:58-61, CanModify(), localserver.cpp:187-209), across requests *)
(* that overlap, failing operations, crashes and restarts, unless it is     *)
(* exposed: CanModify() knows a file only by its path and time, so that one *)
(* he put there with a time no later than the log's passes for the          *)
(* server's (:202), and so may one whose path Load() has read from the line *)
(* of a path that holds white space, or that was cut (:66, :98).            *)
OwnFilesOnly ==
    [][(\E w \in Workers : Work(w)) =>
          \A p \in Path : owner[p] = "user" =>
             owner'[p] = "user" /\ mtime'[p] = mtime[p]]_vars

(* What the log claims of a file that is on disk is true, but for exposed   *)
(* ones: if it names the file and the file is no younger than the entry,    *)
(* the server wrote it.  MOVE leaves an entry behind for its source         *)
(* (localserver.cpp:440-447) and a crash brings old entries back, which     *)
(* must not come to cover a file the user put there later.                  *)
LogIsTrue == \A p \in Path : Modifiable(p) => owner[p] # "user"

(* While the user keeps still during requests and the file system itself    *)
(* does not fail, a request that runs alone ends the program by an          *)
(* exception only if it is a MOVE, or a QRCD of a text too long for         *)
(* memory: in CanModify() and in DLTE the file that was there a moment ago  *)
(* still is (localserver.cpp:189-198, :394-397, :440-447, :488).            *)
LoneRequestsEnd ==
    [][\A w \in Workers :
           Work(w) /\ ~Throws(w) /\ ~up' /\ ~overlap => job[w].op = "MOVE"]_vars

(* A file the server may change when it is closed and has written its log   *)
(* is one it may still change when it has been started again and has read   *)
(* it (localserver.cpp:37-108), but for white space: a path that holds some *)
(* comes back as another (:66, :98), may then displace the entry of that    *)
(* one, and ends Load() if it holds a line feed (:67-70).                   *)
LogSurvives ==
    [][\A p \in Path :
           /\ Start /\ clean /\ Modifiable(p)
           /\ ReadBack[p] = p
           /\ \A q \in Path \ {p} :
                 saved[q] # 0 => ReadBack[q] # p /\ q \notin Broken
           => Modifiable(p)']_vars
=============================================================================
