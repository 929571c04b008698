------------------------- MODULE SessionStore_proofs -------------------------
(***************************************************************************)
(* Types and mutual exclusion by the session's flock: proved for any       *)
(* number of workers, CLI runs, creators and requests, with crashes at any *)
(* step.  Then what lock, temporary file and rename achieve together.      *)
(***************************************************************************)
EXTENDS SessionStore, FiniteSetTheorems, TLAPS

\* A worker that changes or analyses an existing session is past lock_session.
Inside(w) == pc[w] \notin {"idle", "lock"} /\ job[w].kind # "create"

Shape == /\ pc \in [Proc -> Label]
         /\ job \in [Proc -> {Nothing} \cup [kind : Kind, id : Request]]

\* Mutual exclusion says nothing of the lock; what is preserved is that whoever is
\* inside holds it.
LockInv == \A w \in Worker : Inside(w) => lock = w

StoreInv == Shape /\ LockInv

\* The store starts with every process idle.
LEMMA InitStoreInv == Init => StoreInv
<1> SUFFICES ASSUME Init PROVE StoreInv
  OBVIOUS
<1>1. Shape
  BY DEF Init, Shape, Label
<1>2. LockInv
  BY DEF Init, LockInv, Inside, Proc
<1> QED
  BY <1>1, <1>2 DEF StoreInv

\* The end of a request, or of its process: it gives up its own lock only.
LEMMA QuitStoreInv ==
    ASSUME StoreInv, NEW p \in Proc, Quit(p)
    PROVE  StoreInv'
<1>1. Shape'
  BY DEF StoreInv, Shape, Quit, Goto, Label
<1>2. ASSUME NEW w \in Worker, Inside(w)' PROVE lock' = w
  <2>1. w \in Proc
    BY DEF Proc
  <2>2. w # p
    BY <1>2, <2>1 DEF StoreInv, Shape, Quit, Goto, Inside
  <2>3. Inside(w)
    BY <1>2, <2>1, <2>2 DEF StoreInv, Shape, Quit, Goto, Inside
  <2> QED
    BY <2>2, <2>3 DEF StoreInv, LockInv, Quit
<1> QED
  BY <1>1, <1>2 DEF StoreInv, LockInv

\* A request begins before lock_session, in a worker, unless it creates a session.
LEMMA BeginStoreInv ==
    ASSUME StoreInv, NEW p \in Proc, NEW kind \in Kind, NEW r \in Request, Begin(p, kind, r)
    PROVE  StoreInv'
<1>1. Shape'
  BY DEF StoreInv, Shape, Begin, Goto, Label
<1>2. ASSUME NEW w \in Worker, Inside(w)' PROVE lock' = w
  <2>1. w \in Proc
    BY DEF Proc
  <2>2. w # p
    BY <1>2, <2>1 DEF StoreInv, Shape, Begin, Goto, Inside
  <2>3. Inside(w)
    BY <1>2, <2>1, <2>2 DEF StoreInv, Shape, Begin, Goto, Inside
  <2> QED
    BY <2>3 DEF StoreInv, LockInv, Begin
<1> QED
  BY <1>1, <1>2 DEF StoreInv, LockInv

\* flock(LOCK_EX) returns when no one holds the lock, so that no one is inside.
LEMMA LockStoreInv ==
    ASSUME StoreInv, NEW p \in Proc, LockSession(p)
    PROVE  StoreInv'
<1>1. Shape'
  BY DEF StoreInv, Shape, LockSession, Goto, Label
<1>2. ASSUME NEW w \in Worker, Inside(w)' PROVE lock' = w
  <2>1. w \in Proc
    BY DEF Proc
  <2>2. CASE w = p
    BY <2>2 DEF LockSession
  <2>3. CASE w # p
    <3>1. Inside(w)
      BY <1>2, <2>1, <2>3 DEF StoreInv, Shape, LockSession, Goto, Inside
    <3>2. w = Nothing
      BY <3>1 DEF StoreInv, LockInv, LockSession
    <3> QED
      BY <2>1, <3>2, ProcAssumption
  <2> QED
    BY <2>2, <2>3
<1> QED
  BY <1>1, <1>2 DEF StoreInv, LockInv

\* All other calls are made by a process that is past lock_session, or needs no
\* lock, and leave lock and request alone.
LEMMA MoveStoreInv ==
    ASSUME StoreInv, NEW p \in Proc, NEW label \in Label, Goto(p, label),
           pc[p] \notin {"idle", "lock"}, UNCHANGED <<job, lock>>
    PROVE  StoreInv'
<1>1. Shape'
  BY DEF StoreInv, Shape, Goto
<1>2. ASSUME NEW w \in Worker, Inside(w)' PROVE lock' = w
  <2>1. w \in Proc
    BY DEF Proc
  <2>2. Inside(w)
    BY <1>2, <2>1 DEF StoreInv, Shape, Goto, Inside
  <2> QED
    BY <2>2 DEF StoreInv, LockInv
<1> QED
  BY <1>1, <1>2 DEF StoreInv, LockInv

\* Every call of a request keeps the invariant.
LEMMA StepStoreInv ==
    ASSUME StoreInv, NEW p \in Proc, Step(p)
    PROVE  StoreInv'
<1>1. CASE LockSession(p)
  BY <1>1, LockStoreInv
<1>2. CASE \/ LoadFails(p) \/ CheckExists(p) \/ Unlink(p) \/ Refuse(p)
           \/ RenameFails(p) \/ Reply(p)
  <2>1. Quit(p)
    BY <1>2 DEF LoadFails, CheckExists, Unlink, Refuse, RenameFails, Reply
  <2> QED
    BY <2>1, QuitStoreInv
<1>3. CASE \/ LoadSession(p) \/ CheckNew(p) \/ Apply(p) \/ OpenTemp(p) \/ WriteHead(p)
           \/ CloseFile(p) \/ WriteFails(p) \/ RenameFile(p)
  <2>1. pc[p] \notin {"idle", "lock"} /\ UNCHANGED <<job, lock>>
    BY <1>3 DEF LoadSession, CheckNew, Apply, OpenTemp, WriteHead, CloseFile, WriteFails,
                RenameFile
  <2>2. \E label \in Label : Goto(p, label)
    BY <1>3 DEF LoadSession, CheckNew, Apply, OpenTemp, WriteHead, CloseFile, WriteFails,
                RenameFile, Goto, Label
  <2> QED
    BY <2>1, <2>2, MoveStoreInv
<1> QED
  BY <1>1, <1>2, <1>3 DEF Step

\* Every step of every process keeps the invariant.
LEMMA NextStoreInv == StoreInv /\ [Next]_vars => StoreInv'
<1> SUFFICES ASSUME StoreInv, [Next]_vars PROVE StoreInv'
  OBVIOUS
<1>1. CASE \E p \in Proc : Step(p)
  BY <1>1, StepStoreInv
<1>2. CASE \E p \in Proc : Crash(p)
  BY <1>2, QuitStoreInv DEF Crash
<1>3. CASE \E p \in Proc : \E r \in Request :
              \/ BeginCreate(p, r) \/ BeginChange(p, r)
              \/ BeginAnalyse(p, r) \/ BeginRemove(p, r)
  BY <1>3, BeginStoreInv DEF BeginCreate, BeginChange, BeginAnalyse, BeginRemove, Kind
<1>4. CASE UNCHANGED vars
  BY <1>4 DEF StoreInv, Shape, LockInv, Inside, vars
<1> QED
  BY <1>1, <1>2, <1>3, <1>4 DEF Next

\* Whatever other processes do, crash or leave behind, between load_session and the
\* response a worker is the only one that works on the existing session.
THEOREM MutualExclusion == Spec => []OneWorkerInside
<1>1. StoreInv => OneWorkerInside
  BY DEF StoreInv, LockInv, OneWorkerInside, Inside
<1> QED
  BY <1>1, InitStoreInv, NextStoreInv, PTL DEF Spec

(***************************************************************************)
(* Types, and that save_session always finds an inode.                     *)
(***************************************************************************)

HasSession == {"apply", "open", "write", "close", "rename", "reply"}

\* What a process has at each of its calls: a request, a session, an open file.
ProgressInv ==
    \A p \in Proc :
        /\ pc[p] # "idle"             => job[p] # Nothing
        /\ pc[p] \in HasSession       => mem[p] # Nothing
        /\ pc[p] \in {"write", "close"} <=> fd[p] # Nothing
        /\ pc[p] = "lock"             => p \in Worker

TypeInv == TypeOK /\ ProgressInv

\* There are more inodes than names and processes that use one.
LEMMA UnusedInode ==
    ASSUME TypeOK, temp = Nothing
    PROVE  Unused \in Inode \ InUse
<1> DEFINE Open == {fd[p] : p \in Proc}
           n    == Cardinality(Proc)
<1>1. IsFiniteSet(Proc) /\ n \in Nat
  BY ProcAssumption, FS_CardinalityType
<1>2. IsFiniteSet(Open) /\ Cardinality(Open) \in Nat /\ Cardinality(Open) <= n
  <2>1. fd \in Surjection(Proc, Open)
    BY DEF TypeOK, Surjection
  <2> HIDE DEF Open
  <2> QED
    BY <1>1, <2>1, FS_Surjection, FS_CardinalityType
<1> HIDE DEF Open
<1>3. IsFiniteSet(Open \cup {final}) /\ Cardinality(Open \cup {final}) <= n + 1
  <2>1. /\ IsFiniteSet(Open \cup {final})
        /\ Cardinality(Open \cup {final}) = IF final \in Open THEN Cardinality(Open)
                                            ELSE Cardinality(Open) + 1
    BY <1>2, FS_AddElement
  <2> QED
    BY <1>1, <1>2, <2>1
<1>4. InUse \subseteq Open \cup {final}
  BY DEF InUse, Open
<1>5. IsFiniteSet(InUse) /\ Cardinality(InUse) \in Nat /\ Cardinality(InUse) <= n + 1
  <2>1. IsFiniteSet(InUse) /\ Cardinality(InUse) <= Cardinality(Open \cup {final})
    BY <1>3, <1>4, FS_Subset
  <2>2. Cardinality(InUse) \in Nat /\ Cardinality(Open \cup {final}) \in Nat
    BY <1>3, <2>1, FS_CardinalityType
  <2> QED
    BY <1>1, <1>3, <2>1, <2>2
<1>6. Cardinality(Inode) = n + 2
  BY <1>1, FS_Interval DEF Inode
<1>7. ~(Inode \subseteq InUse)
  <2> SUFFICES ASSUME Inode \subseteq InUse PROVE FALSE
    OBVIOUS
  <2>1. Cardinality(Inode) <= Cardinality(InUse)
    BY <1>5, FS_Subset
  <2> QED
    BY <1>1, <1>5, <1>6, <2>1
<1> QED
  BY <1>7 DEF Unused

\* What load_session returns is a session.
LEMMA ReadableType ==
    ASSUME NEW body \in [head : {Nothing} \cup Stored, rest : {Nothing} \cup Stored]
    PROVE  Readable(body) \subseteq Stored
<1> SUFFICES ASSUME NEW s \in Readable(body)
             PROVE  s \in Stored
  OBVIOUS
<1>1. body.head # Nothing /\ body.head \in Stored
  BY DEF Readable
<1>2. CASE body.rest = body.head
  BY <1>1, <1>2 DEF Readable
<1>3. CASE body.rest # body.head
  <2> DEFINE rest == IF body.rest = Nothing THEN {} ELSE body.rest.done
  <2>1. PICK d \in SUBSET (body.head.done \cup rest) : s = [done |-> d, closed |-> body.head.closed]
    BY <1>1, <1>3 DEF Readable
  <2>2. rest \subseteq Request
    BY DEF Stored
  <2>3. d \subseteq Request /\ body.head.closed \in BOOLEAN
    BY <1>1, <2>1, <2>2 DEF Stored
  <2> QED
    BY <2>1, <2>3 DEF Stored
<1> QED
  BY <1>2, <1>3

\* Nothing runs, nothing is stored.
LEMMA InitTypeInv == Init => TypeInv
<1> SUFFICES ASSUME Init PROVE TypeInv
  OBVIOUS
<1>1. TypeOK
  BY DEF Init, TypeOK, Label, Empty
<1>2. ProgressInv
  BY DEF Init, ProgressInv, HasSession
<1> QED
  BY <1>1, <1>2 DEF TypeInv

\* The end of a request.
LEMMA QuitTypeInv ==
    ASSUME TypeInv, NEW p \in Proc, Quit(p), UNCHANGED <<data, temp, fresh>>,
           final' \in {Nothing, final}, acked' \subseteq Request
    PROVE  TypeInv'
<1>1. TypeOK'
  BY DEF TypeInv, TypeOK, Quit, Goto, Label
<1>2. ProgressInv'
  BY DEF TypeInv, TypeOK, ProgressInv, HasSession, Quit, Goto
<1> QED
  BY <1>1, <1>2 DEF TypeInv

\* A request arrives.
LEMMA BeginTypeInv ==
    ASSUME TypeInv, NEW p \in Proc, NEW kind \in Kind, NEW r \in Request, Begin(p, kind, r)
    PROVE  TypeInv'
<1> DEFINE new == [kind |-> kind, id |-> r]
<1>1. new \in [kind : Kind, id : Request] /\ new # Nothing
  BY NothingAssumption
<1>2. job' = [job EXCEPT ![p] = new] /\ fresh' \subseteq Request
  BY DEF Begin, TypeInv, TypeOK
<1> HIDE DEF new
<1>3. TypeOK'
  BY <1>1, <1>2 DEF TypeInv, TypeOK, Begin, Goto, Label
<1>4. ProgressInv'
  BY <1>1, <1>2 DEF TypeInv, TypeOK, ProgressInv, HasSession, Begin, Goto, Proc
<1> QED
  BY <1>3, <1>4 DEF TypeInv

\* A process gets or changes the session it has in memory.
LEMMA MemTypeInv ==
    ASSUME TypeInv, NEW p \in Proc, NEW s \in Stored, NEW label \in HasSession \ {"write", "close"},
           pc[p] \in {"load", "check", "apply"},
           Goto(p, label), mem' = [mem EXCEPT ![p] = s],
           UNCHANGED <<job, fd, lock, data, final, temp, fresh, acked>>
    PROVE  TypeInv'
<1>1. s # Nothing
  BY NothingAssumption
<1>2. TypeOK'
  BY DEF TypeInv, TypeOK, Goto, Label, HasSession
<1>3. ProgressInv'
  BY <1>1 DEF TypeInv, TypeOK, ProgressInv, HasSession, Goto
<1> QED
  BY <1>2, <1>3 DEF TypeInv

\* The handler changes the session to a session.
LEMMA ApplyTypeInv ==
    ASSUME TypeInv, NEW p \in Proc, Apply(p)
    PROVE  TypeInv'
<1>1. /\ pc[p] = "apply"
      /\ UNCHANGED <<job, fd, lock, data, final, temp, fresh, acked>>
  BY DEF Apply
<1>2. mem[p] \in Stored /\ job[p] \in [kind : Kind, id : Request]
  BY <1>1 DEF TypeInv, TypeOK, ProgressInv, HasSession
<1>3. CASE /\ mem' = [mem EXCEPT ![p].done = @ \cup {job[p].id}]
           /\ Goto(p, "open")
  <2> DEFINE s == [mem[p] EXCEPT !.done = @ \cup {job[p].id}]
  <2>1. s \in Stored
    BY <1>2 DEF Stored
  <2>2. mem' = [mem EXCEPT ![p] = s]
    BY <1>3
  <2> HIDE DEF s
  <2> QED
    BY <1>1, <1>3, <2>1, <2>2, MemTypeInv DEF HasSession
<1>4. CASE /\ mem' = [mem EXCEPT ![p].closed = TRUE]
           /\ Goto(p, IF mem[p].closed THEN "reply" ELSE "open")
  <2> DEFINE s == [mem[p] EXCEPT !.closed = TRUE]
  <2>1. s \in Stored
    BY <1>2 DEF Stored
  <2>2. mem' = [mem EXCEPT ![p] = s]
    BY <1>4
  <2> HIDE DEF s
  <2> QED
    BY <1>1, <1>4, <2>1, <2>2, MemTypeInv DEF HasSession
<1> QED
  BY <1>3, <1>4 DEF Apply

\* The calls of save_session.
LEMMA SaveTypeInv ==
    ASSUME TypeInv, NEW p \in Proc,
           OpenTemp(p) \/ WriteHead(p) \/ CloseFile(p) \/ WriteFails(p) \/ RenameFile(p)
    PROVE  TypeInv'
<1>1. CASE OpenTemp(p)
  <2> DEFINE i == IF temp = Nothing THEN Unused ELSE temp
  <2>1. i \in Inode /\ i # Nothing
    BY UnusedInode, NothingAssumption DEF TypeInv, TypeOK
  <2>2. temp' = i /\ fd' = [fd EXCEPT ![p] = i] /\ data' = [data EXCEPT ![i] = Empty]
    BY <1>1 DEF OpenTemp
  <2> HIDE DEF i
  <2>3. Empty \in [head : {Nothing} \cup Stored, rest : {Nothing} \cup Stored]
    BY DEF Empty
  <2>4. TypeOK'
    BY <1>1, <2>1, <2>2, <2>3 DEF TypeInv, TypeOK, OpenTemp, Goto, Label
  <2>5. ProgressInv'
    BY <1>1, <2>1, <2>2 DEF TypeInv, TypeOK, ProgressInv, HasSession, OpenTemp, Goto
  <2> QED
    BY <2>4, <2>5 DEF TypeInv
<1>2. ASSUME pc[p] \in {"write", "close"}, Goto(p, "close") \/ Goto(p, "rename"),
             fd' = IF pc'[p] = "close" THEN fd ELSE [fd EXCEPT ![p] = Nothing],
             data' \in [Inode -> [head : {Nothing} \cup Stored, rest : {Nothing} \cup Stored]],
             UNCHANGED <<job, mem, lock, final, temp, fresh, acked>>
      PROVE  TypeInv'
  <2>1. TypeOK'
    BY <1>2 DEF TypeInv, TypeOK, Goto, Label
  <2>2. ProgressInv'
    BY <1>2 DEF TypeInv, TypeOK, ProgressInv, HasSession, Goto
  <2> QED
    BY <2>1, <2>2 DEF TypeInv
<1>3. pc[p] \in {"write", "close"} => mem[p] \in Stored /\ fd[p] \in Inode
  BY DEF TypeInv, TypeOK, ProgressInv, HasSession
<1>4. CASE WriteHead(p)
  <2> DEFINE i == fd[p]
  <2>0. data[i] \in [head : {Nothing} \cup Stored, rest : {Nothing} \cup Stored]
    BY <1>3, <1>4 DEF WriteHead, TypeInv, TypeOK
  <2>1. data' = [data EXCEPT ![i] = [@ EXCEPT !.head = mem[p]]]
    BY <1>4 DEF WriteHead
  <2>2. data' \in [Inode -> [head : {Nothing} \cup Stored, rest : {Nothing} \cup Stored]]
    <3>1. [data[i] EXCEPT !.head = mem[p]] \in [head : {Nothing} \cup Stored, rest : {Nothing} \cup Stored]
      BY <1>3, <1>4, <2>0 DEF WriteHead
    <3> HIDE DEF i
    <3> QED
      BY <2>1, <3>1 DEF TypeInv, TypeOK
  <2> QED
    BY <1>2, <1>4, <2>2 DEF WriteHead, Goto, TypeInv, TypeOK
<1>5. CASE CloseFile(p)
  <2> DEFINE i == fd[p]
  <2>0. data[i] \in [head : {Nothing} \cup Stored, rest : {Nothing} \cup Stored]
    BY <1>3, <1>5 DEF CloseFile, TypeInv, TypeOK
  <2>1. data' = [data EXCEPT ![i] = [@ EXCEPT !.rest = mem[p]]]
    BY <1>5 DEF CloseFile
  <2>2. data' \in [Inode -> [head : {Nothing} \cup Stored, rest : {Nothing} \cup Stored]]
    <3>1. [data[i] EXCEPT !.rest = mem[p]] \in [head : {Nothing} \cup Stored, rest : {Nothing} \cup Stored]
      BY <1>3, <1>5, <2>0 DEF CloseFile
    <3> HIDE DEF i
    <3> QED
      BY <2>1, <3>1 DEF TypeInv, TypeOK
  <2> QED
    BY <1>2, <1>5, <2>2 DEF CloseFile, Goto, TypeInv, TypeOK
<1>6. CASE WriteFails(p)
  BY <1>2, <1>6 DEF WriteFails, Goto, TypeInv, TypeOK
<1>7. CASE RenameFile(p)
  <2>1. TypeOK'
    BY <1>7 DEF TypeInv, TypeOK, RenameFile, Goto, Label
  <2>2. ProgressInv'
    BY <1>7 DEF TypeInv, TypeOK, ProgressInv, HasSession, RenameFile, Goto
  <2> QED
    BY <2>1, <2>2 DEF TypeInv
<1> QED
  BY <1>1, <1>4, <1>5, <1>6, <1>7

\* Every call of a request keeps the types.
LEMMA StepTypeInv ==
    ASSUME TypeInv, NEW p \in Proc, Step(p)
    PROVE  TypeInv'
<1>1. CASE LockSession(p)
  <2>1. p \in Worker
    BY <1>1 DEF TypeInv, ProgressInv, LockSession
  <2>2. TypeOK'
    BY <1>1, <2>1 DEF TypeInv, TypeOK, LockSession, Goto, Label
  <2>3. ProgressInv'
    BY <1>1 DEF TypeInv, TypeOK, ProgressInv, HasSession, LockSession, Goto
  <2> QED
    BY <2>2, <2>3 DEF TypeInv
<1>2. CASE LoadSession(p)
  <2>1. data[final] \in [head : {Nothing} \cup Stored, rest : {Nothing} \cup Stored]
    BY <1>2 DEF LoadSession, TypeInv, TypeOK
  <2>2. PICK s \in Readable(data[final]) : mem' = [mem EXCEPT ![p] = s]
    BY <1>2 DEF LoadSession
  <2>3. s \in Stored
    BY <2>1, <2>2, ReadableType
  <2> QED
    BY <1>2, <2>2, <2>3, MemTypeInv DEF LoadSession, HasSession
<1>3. CASE CheckNew(p)
  <2>1. NewSession \in Stored
    BY DEF NewSession, Stored
  <2> QED
    BY <1>3, <2>1, MemTypeInv DEF CheckNew, HasSession
<1>4. CASE Apply(p)
  BY <1>4, ApplyTypeInv
<1>5. CASE OpenTemp(p) \/ WriteHead(p) \/ CloseFile(p) \/ WriteFails(p) \/ RenameFile(p)
  BY <1>5, SaveTypeInv
<1>6. CASE LoadFails(p) \/ CheckExists(p) \/ Unlink(p) \/ Refuse(p) \/ RenameFails(p)
  BY <1>6, QuitTypeInv
  DEF LoadFails, CheckExists, Unlink, Refuse, RenameFails, TypeInv, TypeOK
<1>7. CASE Reply(p)
  <2>1. job[p] \in [kind : Kind, id : Request]
    BY <1>7 DEF Reply, TypeInv, TypeOK, ProgressInv
  <2>2. acked' \subseteq Request
    BY <1>7, <2>1 DEF Reply, TypeInv, TypeOK
  <2> QED
    BY <1>7, <2>2, QuitTypeInv DEF Reply
<1> QED
  BY <1>1, <1>2, <1>3, <1>4, <1>5, <1>6, <1>7 DEF Step

\* Every step of every process keeps the types.
LEMMA NextTypeInv == TypeInv /\ [Next]_vars => TypeInv'
<1> SUFFICES ASSUME TypeInv, [Next]_vars PROVE TypeInv'
  OBVIOUS
<1>1. CASE \E p \in Proc : Step(p)
  BY <1>1, StepTypeInv
<1>2. CASE \E p \in Proc : Crash(p)
  BY <1>2, QuitTypeInv DEF Crash, TypeInv, TypeOK
<1>3. CASE \E p \in Proc : \E r \in Request :
              \/ BeginCreate(p, r) \/ BeginChange(p, r)
              \/ BeginAnalyse(p, r) \/ BeginRemove(p, r)
  BY <1>3, BeginTypeInv DEF BeginCreate, BeginChange, BeginAnalyse, BeginRemove, Kind
<1>4. CASE UNCHANGED vars
  BY <1>4 DEF TypeInv, TypeOK, ProgressInv, vars
<1> QED
  BY <1>1, <1>2, <1>3, <1>4 DEF Next

\* With any mix of workers and command line tools, crashes and a full disk: a process
\* changes and writes only a session that it has loaded or made, to a file that it
\* has open, and fopen never gets a file that is in use under another name.
THEOREM StoreTypes == Spec => []TypeOK
<1> QED
  BY InitTypeInv, NextTypeInv, PTL DEF Spec, TypeInv

(***************************************************************************)
(* What the lock, the temporary file and the rename are for, where every   *)
(* process takes the lock (no command line tool), one worker creates the   *)
(* session and the disk does not fill: for any number of workers and       *)
(* requests, with crashes at any step.                                     *)
(***************************************************************************)

\* The processes are workers that lock, and no two of them create.
Locking == /\ Cli = {}
           /\ \A p, q \in Creator : p = q
           /\ ~DiskFills

\* The processes that have a session in memory which is not in the file.
Saving  == {"open", "write", "close", "rename"}
Working == {"apply"} \cup Saving

Creates(p) == job[p].kind = "create"

\* A session is created by the creator only, while there is none; everyone else
\* has found one.
RoleInv ==
    \A p \in Proc :
        /\ pc[p] # "idle" => job[p].kind # "remove"
        /\ pc[p] # "idle" /\ Creates(p) =>
               p \in Creator /\ pc[p] \notin {"lock", "load", "apply"}
        /\ pc[p] = "check" => Creates(p)
        /\ pc[p] \in Saving /\ Creates(p) => final = Nothing
        /\ pc[p] \in Working \cup {"reply"} /\ ~Creates(p) => final # Nothing

\* The session in the file with the one request applied that is being handled.
After(p) == IF Creates(p) THEN NewSession
            ELSE IF job[p].kind = "change"
            THEN [done |-> data[final].head.done \cup {job[p].id}, closed |-> FALSE]
            ELSE [done |-> data[final].head.done, closed |-> TRUE]

\* That is what is in memory until it is saved; what a response confirms is in the
\* file.
CopyInv ==
    \A p \in Proc :
        /\ pc[p] = "apply" => mem[p] = data[final].head
        /\ pc[p] \in Saving => mem[p] = After(p)
        /\ pc[p] \in Saving /\ ~Creates(p) => ~data[final].head.closed
        /\ pc[p] = "reply" /\ job[p].kind = "change" => job[p].id \in data[final].head.done

\* The file write.<id> belongs to the process that saves, and is never the session.
TempInv ==
    /\ temp # Nothing => temp # final
    /\ \A p \in Proc :
        /\ pc[p] \in {"write", "close"} => fd[p] = temp
        /\ pc[p] \in {"write", "close", "rename"} => temp # Nothing
        /\ pc[p] \in {"close", "rename"} => data[temp].head = mem[p]
        /\ pc[p] = "rename" => data[temp].rest = mem[p]

Base == TypeInv /\ StoreInv

LockedInv == Base /\ RoleInv /\ CopyInv /\ TempInv /\ FinalIsWhole /\ NoLostUpdate

-----------------------------------------------------------------------------
\* Who saves a session is alone with it: another one is at most about to confirm
\* that it has created it.
LEMMA SaverIsAlone ==
    ASSUME Locking, LockedInv, NEW p \in Proc, NEW q \in Proc,
           pc[p] \in Saving,
           pc[q] \in Working \/ (pc[q] = "reply" /\ ~Creates(q))
    PROVE  p = q
<1>1. Proc = Worker
  BY DEF Locking, Proc
<1>2. CASE Creates(p)
  <2>1. final = Nothing
    BY <1>2 DEF LockedInv, RoleInv
  <2>2. Creates(q)
    BY <2>1 DEF LockedInv, RoleInv
  <2> QED
    BY <1>2, <2>2 DEF LockedInv, RoleInv, Locking, Saving, Working
<1>3. CASE ~Creates(p)
  <2>1. final # Nothing
    BY <1>3 DEF LockedInv, RoleInv, Working
  <2>2. ~Creates(q)
    BY <2>1 DEF LockedInv, RoleInv, Working, Saving
  <2>3. Inside(p) /\ Inside(q)
    BY <1>3, <2>2 DEF Inside, Creates, Working, Saving
  <2> QED
    BY <1>1, <2>3 DEF LockedInv, Base, StoreInv, LockInv
<1> QED
  BY <1>2, <1>3

\* Before the first request there is neither file nor process.
LEMMA InitLockedInv == Init => LockedInv
<1> SUFFICES ASSUME Init PROVE LockedInv
  OBVIOUS
<1>1. Base
  BY InitTypeInv, InitStoreInv DEF Base
<1>2. RoleInv /\ CopyInv /\ TempInv /\ FinalIsWhole /\ NoLostUpdate
  BY DEF Init, RoleInv, CopyInv, TempInv, FinalIsWhole, NoLostUpdate, Saving, Working
<1> QED
  BY <1>1, <1>2 DEF LockedInv

\* The types and the lock are preserved by every step.
LEMMA NextBase == Base /\ [Next]_vars => Base'
BY NextTypeInv, NextStoreInv DEF Base

\* A request that is to save nothing begins or goes on.
LEMMA WaitLockedInv ==
    ASSUME Locking, LockedInv, Base', NEW p \in Proc, pc'[p] \in {"lock", "load", "check"},
           NEW label \in Label, Goto(p, label),
           job'[p].kind # "remove",
           Creates(p)' <=> pc'[p] = "check",
           Creates(p)' => p \in Creator,
           \A q \in Proc \ {p} : job'[q] = job[q],
           UNCHANGED <<mem, fd, data, final, temp, acked>>
    PROVE  LockedInv'
<1> USE DEF LockedInv, Base, TypeInv, TypeOK, Goto, Saving, Working, Creates
<1>1. RoleInv'
  BY DEF RoleInv
<1>2. CopyInv'
  BY DEF CopyInv, After
<1>3. TempInv'
  BY DEF TempInv
<1>4. FinalIsWhole' /\ NoLostUpdate'
  BY DEF FinalIsWhole, NoLostUpdate
<1> QED
  BY <1>1, <1>2, <1>3, <1>4

\* A request ends, or its process does.
LEMMA QuitLockedInv ==
    ASSUME Locking, LockedInv, Base', NEW p \in Proc, Quit(p),
           UNCHANGED <<data, final, temp>>, NoLostUpdate'
    PROVE  LockedInv'
<1> USE DEF LockedInv, Base, TypeInv, TypeOK, Goto, Quit, Saving, Working, Creates
<1>1. RoleInv'
  BY DEF RoleInv
<1>2. CopyInv'
  BY DEF CopyInv, After
<1>3. TempInv'
  BY DEF TempInv
<1>4. FinalIsWhole'
  BY DEF FinalIsWhole
<1> QED
  BY <1>1, <1>2, <1>3, <1>4

\* load_session finds the session whole, and has a copy of it.
LEMMA LoadLockedInv ==
    ASSUME Locking, LockedInv, Base', NEW p \in Proc, LoadSession(p)
    PROVE  LockedInv'
<1> USE DEF LockedInv, Base, TypeInv, TypeOK, Goto, Saving, Working, Creates, LoadSession
<1>1. PICK s \in Readable(data[final]) : mem' = [mem EXCEPT ![p] = s]
  OBVIOUS
<1>2. s = data[final].head
  BY <1>1 DEF FinalIsWhole, Readable
<1>3. ~Creates(p)
  BY DEF RoleInv
<1>4. RoleInv'
  BY <1>3 DEF RoleInv
<1>5. CopyInv'
  BY <1>1, <1>2 DEF CopyInv, After
<1>6. TempInv'
  BY <1>1 DEF TempInv
<1>7. FinalIsWhole' /\ NoLostUpdate'
  BY DEF FinalIsWhole, NoLostUpdate
<1> QED
  BY <1>4, <1>5, <1>6, <1>7

\* A new session is made while there is none.
LEMMA CheckLockedInv ==
    ASSUME Locking, LockedInv, Base', NEW p \in Proc, CheckNew(p)
    PROVE  LockedInv'
<1> USE DEF LockedInv, Base, TypeInv, TypeOK, Goto, Saving, Working, Creates, CheckNew
<1>1. Creates(p)
  BY DEF RoleInv
<1>2. RoleInv'
  BY <1>1 DEF RoleInv
<1>3. CopyInv'
  BY <1>1 DEF CopyInv, After
<1>4. TempInv'
  BY DEF TempInv
<1>5. FinalIsWhole' /\ NoLostUpdate'
  BY DEF FinalIsWhole, NoLostUpdate
<1> QED
  BY <1>2, <1>3, <1>4, <1>5

\* The handler applies the request to the copy, unless the session is closed.
LEMMA ApplyLockedInv ==
    ASSUME Locking, LockedInv, Base', NEW p \in Proc, Apply(p)
    PROVE  LockedInv'
<1> USE DEF LockedInv, Base, TypeInv, TypeOK, Goto, Saving, Working, Creates
<1>1. /\ pc[p] = "apply" /\ mem[p] = data[final].head /\ mem[p] \in Stored
      /\ ~Creates(p) /\ job[p].kind \in {"change", "analyse"}
  BY DEF Apply, CopyInv, RoleInv, ProgressInv, HasSession
<1>2. RoleInv'
  BY <1>1 DEF Apply, RoleInv
<1>3. pc'[p] = "open" => mem'[p] = After(p) /\ ~data[final].head.closed
  BY <1>1 DEF Apply, After, Stored
<1>4. CopyInv'
  BY <1>1, <1>3 DEF Apply, CopyInv, After
<1>5. TempInv'
  BY DEF Apply, TempInv
<1>6. FinalIsWhole' /\ NoLostUpdate'
  BY DEF Apply, FinalIsWhole, NoLostUpdate
<1> QED
  BY <1>2, <1>4, <1>5, <1>6

\* A step of save_session before the rename: it leaves the session's file alone.
LEMMA WriteLockedInv ==
    ASSUME Locking, LockedInv, Base', NEW p \in Proc, NEW label \in Saving,
           pc[p] \in {"open", "write", "close"}, label # "open", Goto(p, label),
           temp' # Nothing, temp' # final, temp = Nothing \/ temp' = temp,
           \A i \in Inode \ {temp'} : data'[i] = data[i],
           label \in {"write", "close"} => fd'[p] = temp',
           label \in {"close", "rename"} => data'[temp'].head = mem[p],
           label = "rename" => data'[temp'].rest = mem[p],
           UNCHANGED <<job, mem, lock, final, fresh, acked>>
    PROVE  LockedInv'
<1> USE DEF LockedInv, Base, TypeInv, TypeOK, Goto, Saving, Working, Creates
<1>1. \A q \in Proc \ {p} : pc[q] \notin Saving
  BY SaverIsAlone
<1>2. final # Nothing => data'[final] = data[final]
  OBVIOUS
<1>3. RoleInv'
  BY DEF RoleInv
<1>4. CopyInv'
  <2> SUFFICES ASSUME NEW q \in Proc
               PROVE  /\ pc'[q] = "apply" => mem[q] = data'[final].head
                      /\ pc'[q] \in Saving => mem[q] = After(q)'
                      /\ pc'[q] \in Saving /\ ~Creates(q) => ~data'[final].head.closed
                      /\ pc'[q] = "reply" /\ job[q].kind = "change" => job[q].id \in data'[final].head.done
    BY DEF CopyInv
  <2>1. pc'[q] \in Working \cup {"reply"} /\ ~Creates(q) => data'[final] = data[final]
    BY <1>2 DEF RoleInv
  <2>2. pc'[q] = "apply" => ~Creates(q)
    BY DEF RoleInv
  <2> QED
    BY <2>1, <2>2 DEF CopyInv, After
<1>5. TempInv'
  BY <1>1 DEF TempInv
<1>6. FinalIsWhole' /\ NoLostUpdate'
  BY <1>2 DEF FinalIsWhole, NoLostUpdate
<1> QED
  BY <1>3, <1>4, <1>5, <1>6

\* What the rename puts in the place of the session is the session with the request
\* applied, or the new one; nobody else works on it.
LEMMA RenameFacts ==
    ASSUME Locking, LockedInv, NEW p \in Proc, RenameFile(p)
    PROVE  /\ final' \in Inode /\ data' = data
           /\ data[final'] = [head |-> After(p), rest |-> After(p)]
           /\ Creates(p) => final = Nothing
           /\ ~Creates(p) => final # Nothing /\ ~data[final].head.closed
           /\ job[p] \in [kind : Kind, id : Request]
           /\ job[p].kind # "remove"
           /\ \A q \in Proc \ {p} : pc[q] \notin Working /\ (pc[q] = "reply" => Creates(q))
<1> USE DEF LockedInv, Base, TypeInv, TypeOK, Saving, Working, RenameFile
<1>1. mem[p] = After(p) /\ (Creates(p) => final = Nothing)
      /\ (~Creates(p) => final # Nothing /\ ~data[final].head.closed)
  BY DEF CopyInv, RoleInv
<1>2. final' = temp /\ temp \in Inode /\ data' = data
  OBVIOUS
<1>3. data[temp] = [head |-> After(p), rest |-> After(p)]
  BY <1>1, <1>2 DEF TempInv
<1>4. job[p] \in [kind : Kind, id : Request] /\ job[p].kind # "remove"
  BY DEF RoleInv, ProgressInv
<1>5. \A q \in Proc \ {p} : pc[q] \notin Working /\ (pc[q] = "reply" => Creates(q))
  BY SaverIsAlone
<1> QED
  BY <1>1, <1>2, <1>3, <1>4, <1>5

\* The rename makes the saved session the session.
LEMMA RenameLockedInv ==
    ASSUME Locking, LockedInv, Base', NEW p \in Proc, RenameFile(p)
    PROVE  LockedInv'
<1> USE DEF LockedInv, Base, TypeInv, TypeOK, Goto, Saving, Working
<1>1. /\ final' \in Inode /\ data' = data
      /\ data[final'] = [head |-> After(p), rest |-> After(p)]
      /\ final' # Nothing /\ After(p) \in Stored /\ After(p) # Nothing
  <2>1. data[final'] \in [head : {Nothing} \cup Stored, rest : {Nothing} \cup Stored]
    BY RenameFacts
  <2>2. mem[p] = After(p) /\ mem[p] \in Stored
    BY DEF RenameFile, CopyInv, ProgressInv, HasSession
  <2> QED
    BY RenameFacts, NothingAssumption, <2>2
<1>2. \A q \in Proc \ {p} : pc[q] \notin Working /\ (pc[q] = "reply" => Creates(q))
  BY RenameFacts
<1>3. pc' = [pc EXCEPT ![p] = "reply"] /\ temp' = Nothing /\ UNCHANGED <<job, mem, fd, lock, acked>>
  BY DEF RenameFile
<1>4. job[p].kind = "change" => job[p].id \in data[final'].head.done
  BY <1>1 DEF After, Creates
<1>5. RoleInv'
  BY <1>1, <1>2, <1>3 DEF RoleInv, Creates, RenameFile
<1>6. CopyInv'
  BY <1>1, <1>2, <1>3, <1>4 DEF CopyInv, Creates
<1>7. TempInv'
  BY <1>2, <1>3 DEF TempInv
<1>8. FinalIsWhole'
  BY <1>1 DEF FinalIsWhole
<1>9. NoLostUpdate'
  <2>1. CASE Creates(p)
    <3>1. acked = {}
      BY <2>1, RenameFacts DEF NoLostUpdate
    <3> QED
      BY <1>3, <3>1 DEF NoLostUpdate
  <2>2. CASE ~Creates(p)
    <3>1. data[final].head.done \subseteq After(p).done
      BY <2>2 DEF After
    <3>2. acked \subseteq data[final'].head.done
      BY <1>1, <3>1 DEF NoLostUpdate
    <3> QED
      BY <1>1, <1>3, <3>2 DEF NoLostUpdate
  <2> QED
    BY <2>1, <2>2
<1> QED
  BY <1>5, <1>6, <1>7, <1>8, <1>9

\* Every call of a request keeps the invariant.
LEMMA StepLockedInv ==
    ASSUME Locking, LockedInv, NEW p \in Proc, Step(p)
    PROVE  LockedInv'
<1>1. Base'
  BY NextBase DEF LockedInv, Next
<1>2. TypeOK /\ job[p] \in {Nothing} \cup [kind : Kind, id : Request]
  BY DEF LockedInv, Base, TypeInv, TypeOK
<1>3. CASE LockSession(p)
  <2>1. job[p].kind # "remove" /\ ~Creates(p)
    BY <1>3 DEF LockSession, LockedInv, RoleInv
  <2> QED
    BY <1>1, <1>2, <1>3, <2>1, WaitLockedInv
    DEF LockSession, Goto, Creates, Label, TypeOK
<1>4. CASE LoadSession(p)
  BY <1>1, <1>4, LoadLockedInv
<1>5. CASE CheckNew(p)
  BY <1>1, <1>5, CheckLockedInv
<1>6. CASE Apply(p)
  BY <1>1, <1>6, ApplyLockedInv
<1>7. CASE LoadFails(p) \/ CheckExists(p) \/ Refuse(p) \/ RenameFails(p)
  <2>1. Quit(p) /\ UNCHANGED <<data, final, temp, acked>>
    BY <1>7 DEF LoadFails, CheckExists, Refuse, RenameFails
  <2>2. NoLostUpdate'
    BY <2>1 DEF LockedInv, NoLostUpdate
  <2> QED
    BY <1>1, <2>1, <2>2, QuitLockedInv
<1>8. CASE Unlink(p)
  BY <1>8 DEF Unlink, LockedInv, RoleInv
<1>9. CASE OpenTemp(p)
  <2> DEFINE i == IF temp = Nothing THEN Unused ELSE temp
  <2>1. i \in Inode /\ i # Nothing /\ i # final
    <3>1. CASE temp = Nothing
      BY <1>2, <3>1, UnusedInode, NothingAssumption DEF InUse
    <3>2. CASE temp # Nothing
      BY <1>2, <3>2 DEF TypeOK, LockedInv, TempInv
    <3> QED
      BY <3>1, <3>2
  <2>2. /\ temp' = i /\ fd' = [fd EXCEPT ![p] = i] /\ data' = [data EXCEPT ![i] = Empty]
        /\ temp = Nothing \/ i = temp
    BY <1>9 DEF OpenTemp
  <2> HIDE DEF i
  <2> QED
    BY <1>1, <1>2, <1>9, <2>1, <2>2, WriteLockedInv DEF OpenTemp, Saving, TypeOK
<1>10. CASE WriteHead(p)
  <2>1. fd[p] = temp /\ temp # Nothing /\ temp # final /\ temp \in Inode
    BY <1>2, <1>10 DEF WriteHead, LockedInv, TempInv, TypeOK
  <2>2. /\ \A i \in Inode \ {temp} : data'[i] = data[i]
        /\ data'[temp].head = mem[p]
    BY <1>2, <1>10, <2>1 DEF WriteHead, TypeOK
  <2> QED
    BY <1>1, <1>10, <2>1, <2>2, WriteLockedInv DEF WriteHead, Saving
<1>11. CASE CloseFile(p)
  <2>1. /\ fd[p] = temp /\ temp # Nothing /\ temp # final /\ temp \in Inode
        /\ data[temp].head = mem[p]
    BY <1>2, <1>11 DEF CloseFile, LockedInv, TempInv, TypeOK
  <2>2. /\ \A i \in Inode \ {temp} : data'[i] = data[i]
        /\ data'[temp].head = mem[p] /\ data'[temp].rest = mem[p]
    BY <1>2, <1>11, <2>1 DEF CloseFile, TypeOK
  <2> QED
    BY <1>1, <1>11, <2>1, <2>2, WriteLockedInv DEF CloseFile, Saving
<1>12. CASE WriteFails(p)
  BY <1>12 DEF WriteFails, Locking
<1>13. CASE RenameFile(p)
  BY <1>1, <1>13, RenameLockedInv
<1>14. CASE Reply(p)
  <2>1. NoLostUpdate'
    <3>1. CASE job[p].kind = "change"
      <4>1. final # Nothing /\ job[p].id \in data[final].head.done
        BY <1>14, <3>1 DEF Reply, LockedInv, RoleInv, CopyInv, Creates
      <4>2. data[final].head # Nothing
        BY <4>1 DEF LockedInv, FinalIsWhole
      <4> QED
        BY <1>14, <3>1, <4>1, <4>2 DEF Reply, LockedInv, NoLostUpdate
    <3>2. CASE job[p].kind # "change"
      BY <1>14, <3>2 DEF Reply, LockedInv, NoLostUpdate
    <3> QED
      BY <3>1, <3>2
  <2> QED
    BY <1>1, <1>14, <2>1, QuitLockedInv DEF Reply
<1> QED
  BY <1>3, <1>4, <1>5, <1>6, <1>7, <1>8, <1>9, <1>10, <1>11, <1>12, <1>13, <1>14 DEF Step

\* Every step of every process keeps the invariant.
LEMMA NextLockedInv ==
    ASSUME Locking, LockedInv, [Next]_vars
    PROVE  LockedInv'
<1>1. Base'
  BY NextBase DEF LockedInv
<1>2. CASE \E p \in Proc : Step(p)
  BY <1>2, StepLockedInv
<1>3. CASE \E p \in Proc : Crash(p)
  <2>1. PICK p \in Proc : Quit(p) /\ UNCHANGED <<data, final, temp, fresh, acked>>
    BY <1>3 DEF Crash
  <2>2. NoLostUpdate'
    BY <2>1 DEF LockedInv, NoLostUpdate
  <2> QED
    BY <1>1, <2>1, <2>2, QuitLockedInv
<1>4. ASSUME NEW p \in Proc, NEW kind \in Kind \ {"remove"}, NEW r \in Request,
             kind = "create" => p \in Creator, Begin(p, kind, r)
      PROVE  LockedInv'
  <2>1. p \in Worker
    BY DEF Proc, Locking
  <2>2. /\ pc' = [pc EXCEPT ![p] = IF kind = "create" THEN "check" ELSE "lock"]
        /\ job' = [job EXCEPT ![p] = [kind |-> kind, id |-> r]]
        /\ UNCHANGED <<mem, fd, data, final, temp, acked>>
    BY <1>4, <2>1 DEF Begin, Goto
  <2>3. /\ pc'[p] = IF kind = "create" THEN "check" ELSE "lock"
        /\ job'[p].kind = kind
        /\ \A q \in Proc \ {p} : job'[q] = job[q]
    BY <2>2 DEF LockedInv, Base, TypeInv, TypeOK
  <2>4. \E label \in Label : Goto(p, label)
    BY <2>2 DEF Goto, Label
  <2>5. /\ pc'[p] \in {"lock", "load", "check"}
        /\ job'[p].kind # "remove"
        /\ Creates(p)' <=> pc'[p] = "check"
        /\ Creates(p)' => p \in Creator
    BY <1>4, <2>3 DEF Creates
  <2> QED
    BY <1>1, <1>4, <2>2, <2>3, <2>4, <2>5, WaitLockedInv
<1>5. CASE \E p \in Proc : \E r \in Request : BeginCreate(p, r) \/ BeginChange(p, r) \/ BeginAnalyse(p, r)
  BY <1>4, <1>5 DEF BeginCreate, BeginChange, BeginAnalyse, Kind
<1>6. CASE \E p \in Proc : \E r \in Request : BeginRemove(p, r)
  BY <1>6 DEF BeginRemove, Locking
<1>7. CASE UNCHANGED vars
  BY <1>1, <1>7 DEF vars, LockedInv, RoleInv, CopyInv, TempInv, FinalIsWhole, NoLostUpdate,
                    After, Creates
<1> QED
  BY <1>2, <1>3, <1>5, <1>6, <1>7 DEF Next

\* So it holds in every reachable state.
LEMMA LockedInvariant ==
    ASSUME Locking
    PROVE  Spec => []LockedInv
<1> QED
  BY InitLockedInv, NextLockedInv, PTL DEF Spec

-----------------------------------------------------------------------------
\* Among locking workers, however many wait, crash or are cut off in the middle of a
\* write, the session file is complete at every moment.
THEOREM SessionFileWhole ==
    ASSUME Locking
    PROVE  Spec => []FinalIsWhole
<1> QED
  BY LockedInvariant, PTL DEF LockedInv

\* No change that was confirmed to a client is undone by a request that loaded the
\* session before it, or by what a dead process left behind.
THEOREM UpdatesKept ==
    ASSUME Locking
    PROVE  Spec => []NoLostUpdate
<1> QED
  BY LockedInvariant, PTL DEF LockedInv

\* What a step does to the session in the file: nothing, unless it is the rename.
LEMMA SessionOfStep ==
    ASSUME Locking, LockedInv, [Next]_vars
    PROVE  \/ \E p \in Proc : RenameFile(p)
           \/ final' = final /\ (final # Nothing => data'[final] = data[final])
<1> USE DEF LockedInv, Base, TypeInv, TypeOK
<1>1. CASE UNCHANGED vars
  BY <1>1 DEF vars
<1>2. ASSUME NEW p \in Proc, Crash(p) \/ LockSession(p) \/ LoadSession(p) \/ LoadFails(p)
                             \/ CheckNew(p) \/ CheckExists(p) \/ Apply(p) \/ Refuse(p)
                             \/ WriteFails(p) \/ RenameFails(p) \/ Reply(p)
      PROVE  UNCHANGED <<final, data>>
  BY <1>2 DEF Crash, LockSession, LoadSession, LoadFails, CheckNew, CheckExists, Apply, Refuse,
              WriteFails, RenameFails, Reply
<1>3. ASSUME NEW p \in Proc, Unlink(p) PROVE FALSE
  BY <1>3 DEF Unlink, RoleInv
<1>4. ASSUME NEW p \in Proc, OpenTemp(p)
      PROVE  final' = final /\ (final # Nothing => data'[final] = data[final])
  <2> DEFINE i == IF temp = Nothing THEN Unused ELSE temp
  <2>1. final # Nothing => i # final
    BY UnusedInode DEF InUse, TempInv
  <2>2. final' = final /\ data' = [data EXCEPT ![i] = Empty]
    BY <1>4 DEF OpenTemp
  <2> HIDE DEF i
  <2> QED
    BY <2>1, <2>2
<1>5. ASSUME NEW p \in Proc, WriteHead(p) \/ CloseFile(p)
      PROVE  final' = final /\ (final # Nothing => data'[final] = data[final])
  <2>1. fd[p] # final
    BY <1>5 DEF WriteHead, CloseFile, TempInv
  <2> QED
    BY <1>5, <2>1 DEF WriteHead, CloseFile
<1>6. ASSUME NEW p \in Proc, NEW r \in Request,
             BeginCreate(p, r) \/ BeginChange(p, r) \/ BeginAnalyse(p, r) \/ BeginRemove(p, r)
      PROVE  UNCHANGED <<final, data>>
  BY <1>6 DEF BeginCreate, BeginChange, BeginAnalyse, BeginRemove, Begin
<1> QED
  BY <1>1, <1>2, <1>3, <1>4, <1>5, <1>6 DEF Next, Step

\* docs/sessions.md: "closed" is final.  A worker that loaded the session before it was
\* closed cannot save it afterwards.
THEOREM ClosedStays ==
    ASSUME Locking
    PROVE  Spec => ClosedIsFinal
<1> DEFINE Stays == final # Nothing /\ data[final].head # Nothing /\ data[final].head.closed =>
                        data'[final'].head = data[final].head
<1>1. ASSUME LockedInv, [Next]_vars PROVE Stays
  <2>1. CASE \E p \in Proc : RenameFile(p)
    BY <1>1, <2>1, RenameFacts
  <2>2. CASE final' = final /\ (final # Nothing => data'[final] = data[final])
    BY <2>2
  <2> QED
    BY <1>1, <2>1, <2>2, SessionOfStep
<1> QED
  BY <1>1, LockedInvariant, PTL DEF Spec, ClosedIsFinal

\* What the handlers' assignments make of a session.
LEMMA SessionWith ==
    ASSUME NEW s \in Stored, NEW r \in Request, ~s.closed
    PROVE  /\ [s EXCEPT !.done = @ \cup {r}] = [done |-> s.done \cup {r}, closed |-> FALSE]
           /\ [s EXCEPT !.closed = TRUE] = [done |-> s.done, closed |-> TRUE]
<1>1. s.closed = FALSE
  BY DEF Stored
<1>2. [s EXCEPT !.done = @ \cup {r}] = [done |-> s.done \cup {r}, closed |-> s.closed]
  BY DEF Stored
<1>3. ASSUME NEW c \in BOOLEAN
      PROVE  [s EXCEPT !.closed = c] = [done |-> s.done, closed |-> c]
  BY DEF Stored
<1> QED
  BY <1>1, <1>2, <1>3

\* Seen through the file, whole requests change the session one after the other: the
\* rename of a creation, of a change and of an analysis are the steps Create, Change
\* and Close of SessionRegister, and no other step is seen.
THEOREM RegisterImplemented ==
    ASSUME Locking
    PROVE  Spec => ImplementsRegister
<1> DEFINE content == IF final = Nothing THEN <<>> ELSE <<data[final].head>>
<1>1. Init => Register!RInit
  BY DEF Init, Register!RInit
<1>2. ASSUME LockedInv, [Next]_vars
      PROVE  [Register!RNext]_content
  <2>1. ASSUME NEW p \in Proc, RenameFile(p)
        PROVE  Register!RNext
    <3>1. content' = <<After(p)>>
      <4>1. final' # Nothing /\ data'[final'].head = After(p)
        <5>1. /\ final' \in Inode /\ data' = data
              /\ data[final'] = [head |-> After(p), rest |-> After(p)]
          BY <1>2, <2>1, RenameFacts
        <5> QED
          BY <5>1, NothingAssumption
      <4> QED
        BY <4>1
    <3>2. CASE Creates(p)
      <4>1. content = <<>>
        BY <1>2, <2>1, <3>2, RenameFacts
      <4>2. Register!Create
        BY <3>1, <3>2, <4>1 DEF Register!Create, After, NewSession
      <4> QED
        BY <4>2 DEF Register!RNext
    <3>3. CASE ~Creates(p)
      <4>1. /\ content = <<data[final].head>> /\ final # Nothing
            /\ ~data[final].head.closed /\ data[final].head \in Stored
            /\ job[p].id \in Request
        BY <1>2, <2>1, <3>3, RenameFacts
        DEF LockedInv, Base, TypeInv, TypeOK, FinalIsWhole
      <4>2. CASE job[p].kind = "change"
        <5>1. After(p) = [data[final].head EXCEPT !.done = @ \cup {job[p].id}]
          BY <3>3, <4>1, <4>2, SessionWith DEF After
        <5>2. Register!Change(job[p].id)
          BY <3>1, <4>1, <5>1 DEF Register!Change
        <5> QED
          BY <4>1, <5>2 DEF Register!RNext
      <4>3. CASE job[p].kind # "change"
        <5>1. After(p) = [data[final].head EXCEPT !.closed = TRUE]
          BY <3>3, <4>1, <4>3, SessionWith DEF After
        <5>2. Register!Close
          BY <3>1, <4>1, <5>1 DEF Register!Close
        <5> QED
          BY <5>2 DEF Register!RNext
      <4> QED
        BY <4>2, <4>3
    <3> QED
      BY <3>2, <3>3
  <2>2. CASE final' = final /\ (final # Nothing => data'[final] = data[final])
    BY <2>2
  <2> QED
    BY <1>2, <2>1, <2>2, SessionOfStep
<1> QED
  BY <1>1, <1>2, LockedInvariant, PTL DEF Spec, ImplementsRegister, Register!RSpec
=============================================================================
