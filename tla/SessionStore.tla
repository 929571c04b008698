---------------------------- MODULE SessionStore ----------------------------
(***************************************************************************)
(* The processes that share one session file, at the granularity of their  *)
(* file operations: FCGI workers, which take the session's lock            *)
(* (filelocks.c) before load_session, the command line tool, which does    *)
(* not, and the creation of a session, which does not either.  A session   *)
(* is abstracted to the set of requests applied to it and whether it is    *)
(* closed.  Processes may die at any step.                                 *)
(***************************************************************************)
EXTENDS Naturals, FiniteSets

CONSTANTS
    Worker,      \* FCGI processes
    Cli,         \* runs of the command line tool
    Creator,     \* the workers that are asked to create the session
    Request,     \* requests: each is made at most once
    DiskFills,   \* whether writing may fail
    Nothing      \* no content, no file

Proc == Worker \cup Cli
ASSUME ProcAssumption == /\ Worker \cap Cli = {}
                         /\ Nothing \notin Proc
                         /\ Creator \subseteq Worker
                         /\ DiskFills \in BOOLEAN
                         /\ IsFiniteSet(Proc)

\* One inode per process and name in use at the same time.
Inode == 1..(Cardinality(Proc) + 2)

VARIABLES
    pc,      \* what a process does next
    job,     \* its request: kind and id
    mem,     \* the session it has loaded, or Nothing
    fd,      \* the inode it has open for writing, or Nothing
    lock,    \* the worker that holds the session's flock, or Nothing
    data,    \* the two halves of every inode's data
    final,   \* the inode named sessions/<prefix>/<id>, or Nothing
    temp,    \* the inode named sessions/<prefix>/write.<id>, or Nothing
    fresh,   \* the requests not made yet
    acked    \* the changes a client has a success response to

vars == <<pc, job, mem, fd, lock, data, final, temp, fresh, acked>>

Kind == {"create", "change", "analyse", "remove"}
Stored == [done : SUBSET Request, closed : BOOLEAN]
NewSession == [done |-> {}, closed |-> FALSE]
Empty == [head |-> Nothing, rest |-> Nothing]

\* Nothing is neither a file nor a session nor a request.
ASSUME NothingAssumption ==
    Nothing \notin Inode \cup Stored \cup [kind : Kind, id : Request]

Label == {"idle", "lock", "load", "check", "apply", "open", "write", "close",
          "rename", "reply"}

-----------------------------------------------------------------------------
Init == /\ pc    = [p \in Proc |-> "idle"]
        /\ job   = [p \in Proc |-> Nothing]
        /\ mem   = [p \in Proc |-> Nothing]
        /\ fd    = [p \in Proc |-> Nothing]
        /\ lock  = Nothing
        /\ data  = [i \in Inode |-> Empty]
        /\ final = Nothing
        /\ temp  = Nothing
        /\ fresh = Request
        /\ acked = {}

Goto(p, label) == pc' = [pc EXCEPT ![p] = label]

\* A bug for the mutation tests: the locks are kept.
Mut_Quit(p) == /\ Goto(p, "idle")
               /\ job'  = [job EXCEPT ![p] = Nothing]
               /\ mem'  = [mem EXCEPT ![p] = Nothing]
               /\ fd'   = [fd EXCEPT ![p] = Nothing]
               /\ UNCHANGED lock

\* The end of a request, however it ends: the main loop releases the locks, the
\* kernel those of a dead process.
Quit(p) == /\ Goto(p, "idle")
           /\ job'  = [job EXCEPT ![p] = Nothing]
           /\ mem'  = [mem EXCEPT ![p] = Nothing]
           /\ fd'   = [fd EXCEPT ![p] = Nothing]
           /\ lock' = IF lock = p THEN Nothing ELSE lock

-----------------------------------------------------------------------------
\* A bug for the mutation tests: no process takes the lock.
Mut_BeginUnlocked(p, kind, r) ==
    /\ pc[p] = "idle"
    /\ r \in fresh
    /\ fresh' = fresh \ {r}
    /\ job' = [job EXCEPT ![p] = [kind |-> kind, id |-> r]]
    /\ Goto(p, IF kind = "create" THEN "check" ELSE "load")
    /\ UNCHANGED <<mem, fd, lock, data, final, temp, acked>>

\* A bug for the mutation tests: the command line tool takes the workers' lock.
Mut_BeginLocked(p, kind, r) ==
    /\ pc[p] = "idle"
    /\ r \in fresh
    /\ fresh' = fresh \ {r}
    /\ job' = [job EXCEPT ![p] = [kind |-> kind, id |-> r]]
    /\ Goto(p, IF kind = "create" THEN "check" ELSE "lock")
    /\ UNCHANGED <<mem, fd, lock, data, final, temp, acked>>

\* A request arrives.  Creation starts with session_exists, the command line
\* tool with load_session.
Begin(p, kind, r) ==
    /\ pc[p] = "idle"
    /\ r \in fresh
    /\ fresh' = fresh \ {r}
    /\ job' = [job EXCEPT ![p] = [kind |-> kind, id |-> r]]
    /\ Goto(p, IF kind = "create" THEN "check" ELSE IF p \in Worker THEN "lock" ELSE "load")
    /\ UNCHANGED <<mem, fd, lock, data, final, temp, acked>>

BeginCreate(p, r)  == p \in Creator /\ Begin(p, "create", r)
BeginChange(p, r)  == Begin(p, "change", r)
BeginAnalyse(p, r) == Begin(p, "analyse", r)
BeginRemove(p, r)  == p \in Cli /\ Begin(p, "remove", r)

\* A bug for the mutation tests: the lock is a shared one (LOCK_SH).
Mut_LockSession(p) ==
    /\ pc[p] = "lock"
    /\ lock' = p
    /\ Goto(p, "load")
    /\ UNCHANGED <<job, mem, fd, data, final, temp, fresh, acked>>

\* lock_session blocks in flock(LOCK_EX).
LockSession(p) ==
    /\ pc[p] = "lock"
    /\ lock = Nothing
    /\ lock' = p
    /\ Goto(p, "load")
    /\ UNCHANGED <<job, mem, fd, data, final, temp, fresh, acked>>

\* What a reader gets from an inode: a file that is written by two processes, or
\* cut off, may still parse if it happens to end or to mix at line boundaries.
Readable(body) ==
    IF body.head = Nothing THEN {}
    ELSE IF body.rest = body.head THEN {body.head}
    ELSE LET rest == IF body.rest = Nothing THEN {} ELSE body.rest.done
         IN {[done |-> d, closed |-> body.head.closed] : d \in SUBSET (body.head.done \cup rest)}

LoadSession(p) ==
    /\ pc[p] = "load"
    /\ final # Nothing
    /\ \E s \in Readable(data[final]) : mem' = [mem EXCEPT ![p] = s]
    /\ Goto(p, "apply")
    /\ UNCHANGED <<job, fd, lock, data, final, temp, fresh, acked>>

LoadFails(p) ==
    /\ pc[p] = "load"
    /\ \/ final = Nothing
       \/ final # Nothing /\ data[final].head # data[final].rest
       \/ final # Nothing /\ data[final].head = Nothing
    /\ Quit(p)
    /\ UNCHANGED <<data, final, temp, fresh, acked>>

\* session_exists and the check in create_session; the new session goes to
\* save_session.
CheckNew(p) ==
    /\ pc[p] = "check"
    /\ final = Nothing
    /\ mem' = [mem EXCEPT ![p] = NewSession]
    /\ Goto(p, "open")
    /\ UNCHANGED <<job, fd, lock, data, final, temp, fresh, acked>>

CheckExists(p) ==
    /\ pc[p] = "check"
    /\ final # Nothing
    /\ Quit(p)
    /\ UNCHANGED <<data, final, temp, fresh, acked>>

\* A bug for the mutation tests: the state of the session is not validated.
Mut_Apply(p) ==
    /\ pc[p] = "apply"
    /\ \/ /\ job[p].kind = "change"
          /\ mem' = [mem EXCEPT ![p].done = @ \cup {job[p].id}]
          /\ Goto(p, "open")
       \/ /\ job[p].kind = "analyse"
          /\ mem' = [mem EXCEPT ![p].closed = TRUE]
          /\ Goto(p, IF mem[p].closed THEN "reply" ELSE "open")
    /\ UNCHANGED <<job, fd, lock, data, final, temp, fresh, acked>>

\* validate_session_action, then the handler.
Apply(p) ==
    /\ pc[p] = "apply"
    /\ \/ /\ job[p].kind = "change"
          /\ ~mem[p].closed
          /\ mem' = [mem EXCEPT ![p].done = @ \cup {job[p].id}]
          /\ Goto(p, "open")
       \/ /\ job[p].kind = "analyse"
          /\ mem' = [mem EXCEPT ![p].closed = TRUE]
          /\ Goto(p, IF mem[p].closed THEN "reply" ELSE "open")
    /\ UNCHANGED <<job, fd, lock, data, final, temp, fresh, acked>>

\* delsession has loaded the session, whatever its state, and unlinks the file of
\* its name, if there still is one.
Unlink(p) ==
    /\ pc[p] = "apply"
    /\ job[p].kind = "remove"
    /\ final' = Nothing
    /\ Quit(p)
    /\ UNCHANGED <<data, temp, fresh, acked>>

Refuse(p) ==
    /\ pc[p] = "apply"
    /\ job[p].kind = "change"
    /\ mem[p].closed
    /\ Quit(p)
    /\ UNCHANGED <<data, final, temp, fresh, acked>>

-----------------------------------------------------------------------------
\* save_session.  fopen("w") truncates the file named write.<id>, or makes one.
InUse == ({final, temp} \cup {fd[p] : p \in Proc}) \ {Nothing}
Unused == CHOOSE i \in Inode : i \notin InUse

OpenTemp(p) ==
    /\ pc[p] = "open"
    /\ LET i == IF temp = Nothing THEN Unused ELSE temp
       IN /\ temp' = i
          /\ fd'   = [fd EXCEPT ![p] = i]
          /\ data' = [data EXCEPT ![i] = Empty]
    /\ Goto(p, "write")
    /\ UNCHANGED <<job, mem, lock, final, fresh, acked>>

\* A bug for the mutation tests: the file is renamed before it is closed.
Mut_WriteHead(p) ==
    /\ pc[p] = "write"
    /\ data' = [data EXCEPT ![fd[p]].head = mem[p]]
    /\ Goto(p, "rename")
    /\ UNCHANGED <<job, mem, fd, lock, final, temp, fresh, acked>>

\* The stdio buffer is written once in between (long sessions), and by fclose.
WriteHead(p) ==
    /\ pc[p] = "write"
    /\ data' = [data EXCEPT ![fd[p]].head = mem[p]]
    /\ Goto(p, "close")
    /\ UNCHANGED <<job, mem, fd, lock, final, temp, fresh, acked>>

CloseFile(p) ==
    /\ pc[p] = "close"
    /\ data' = [data EXCEPT ![fd[p]].rest = mem[p]]
    /\ fd'   = [fd EXCEPT ![p] = Nothing]
    /\ Goto(p, "rename")
    /\ UNCHANGED <<job, mem, lock, final, temp, fresh, acked>>

\* The disk is full: fprintf and fclose fail, save_session checks neither.
WriteFails(p) ==
    /\ DiskFills
    /\ \/ pc[p] = "write" /\ Goto(p, "close") /\ UNCHANGED fd
       \/ pc[p] = "close" /\ Goto(p, "rename") /\ fd' = [fd EXCEPT ![p] = Nothing]
    /\ UNCHANGED <<job, mem, lock, data, final, temp, fresh, acked>>

\* rename works on the name: whatever file is write.<id> becomes the session.
RenameFile(p) ==
    /\ pc[p] = "rename"
    /\ temp # Nothing
    /\ final' = temp
    /\ temp'  = Nothing
    /\ Goto(p, "reply")
    /\ UNCHANGED <<job, mem, fd, lock, data, fresh, acked>>

RenameFails(p) ==
    /\ pc[p] = "rename"
    /\ temp = Nothing
    /\ Quit(p)
    /\ UNCHANGED <<data, final, temp, fresh, acked>>

\* The response is sent before the lock is released.
Reply(p) ==
    /\ pc[p] = "reply"
    /\ acked' = IF job[p].kind = "change" THEN acked \cup {job[p].id} ELSE acked
    /\ Quit(p)
    /\ UNCHANGED <<data, final, temp, fresh>>

\* The process is killed, crashes, or leaves by the exit in remember_error.
Crash(p) ==
    /\ pc[p] # "idle"
    /\ Quit(p)
    /\ UNCHANGED <<data, final, temp, fresh, acked>>

Step(p) == \/ LockSession(p) \/ LoadSession(p) \/ LoadFails(p) \/ CheckNew(p)
           \/ CheckExists(p) \/ Apply(p) \/ Unlink(p) \/ Refuse(p) \/ OpenTemp(p) \/ WriteHead(p)
           \/ CloseFile(p) \/ WriteFails(p) \/ RenameFile(p) \/ RenameFails(p) \/ Reply(p)

Next == \E p \in Proc :
           \/ Step(p)
           \/ Crash(p)
           \/ \E r \in Request : \/ BeginCreate(p, r) \/ BeginChange(p, r)
                                \/ BeginAnalyse(p, r) \/ BeginRemove(p, r)

\* A request is a finite sequence of calls that return, flock too once the lock
\* is free.  There are finitely many requests here: no one is overtaken for ever.
Spec == Init /\ [][Next]_vars /\ \A p \in Proc : WF_vars(Step(p))

-----------------------------------------------------------------------------
(* Properties of every mix of processes. *)

\* Every variable holds what the processes keep in it.
TypeOK ==
    /\ pc \in [Proc -> Label]
    /\ job \in [Proc -> {Nothing} \cup [kind : Kind, id : Request]]
    /\ mem \in [Proc -> {Nothing} \cup Stored]
    /\ fd \in [Proc -> {Nothing} \cup Inode]
    /\ lock \in {Nothing} \cup Worker
    /\ data \in [Inode -> [head : {Nothing} \cup Stored, rest : {Nothing} \cup Stored]]
    /\ final \in {Nothing} \cup Inode
    /\ temp \in {Nothing} \cup Inode
    /\ fresh \subseteq Request
    /\ acked \subseteq Request

\* Between load_session and its response, a worker that changes or analyses an
\* existing session is the only one to do so, even when others crash or wait.
OneWorkerInside ==
    \A p, q \in Worker :
        LET Inside(w) == pc[w] \notin {"idle", "lock"} /\ job[w].kind # "create"
        IN Inside(p) /\ Inside(q) => p = q

\* Every request comes to an end, whatever the others do or leave behind: a lock
\* or a write.<id> file of a dead process, a session that cannot be parsed.
RequestsEnd == \A p \in Proc : pc[p] # "idle" ~> pc[p] = "idle"

-----------------------------------------------------------------------------
(* Properties of a session that is used by locking workers only, and created by *)
(* one of them.                                                                 *)

\* What the client was told was saved is in the file: no answer and no deletion
\* that got a success response is undone by a request that loaded before it.
NoLostUpdate ==
    acked # {} => /\ final # Nothing
                  /\ data[final].head # Nothing
                  /\ acked \subseteq data[final].head.done

\* The session file is never seen half written, at any moment: rename makes the
\* whole new content visible at once.
FinalIsWhole == final # Nothing => data[final].head # Nothing /\ data[final].rest = data[final].head

\* docs/sessions.md: "closed" is final and cannot be changed.
ClosedIsFinal ==
    [][final # Nothing /\ data[final].head # Nothing /\ data[final].head.closed =>
           data'[final'].head = data[final].head]_vars

\* The creation of a session does not replace one that is there.
CreatedOnce ==
    [][\A p \in Proc : final # Nothing /\ final' # final /\ pc[p] = "rename" /\ pc'[p] # pc[p] =>
           job[p].kind # "create"]_vars

\* Seen through load_session, the file is a session that whole requests change
\* one after the other.
Register == INSTANCE SessionRegister
            WITH content <- IF final = Nothing THEN <<>> ELSE <<data[final].head>>

ImplementsRegister == Register!RSpec
=============================================================================
