--------------------------- MODULE DatabaseProofs ---------------------------
(***************************************************************************)
(* Proofs about Database, for any number of workers, scripts, requests and *)
(* connections: one process at a time applies the schema, nobody serves    *)
(* without it, and no connection of a pool is lost.                        *)
(***************************************************************************)
EXTENDS Database, FiniteSetTheorems, SequenceTheorems, TLAPS

(* Who is past the lock and not yet past the unlock has it: the lock goes  *)
(* with the process, by its crash, by the unlock, or with the database.    *)
HolderOK == \A p \in Proc : proc[p] \in {"apply", "unlock", "failed"} => lock = p

(* Who is told to apply the schema, and finds it, serves and closes with   *)
(* the tables in place, after it has unlocked; they do not go away.        *)
SchemaOK ==
  /\ \A p \in Proc : proc[p] = "unlock" => schema
  /\ \A p \in file : apply /\ proc[p] \in {"serve", "closing"} => schema

DInv == proc \in [Proc -> Stage] /\ file \subseteq Proc /\ HolderOK /\ SchemaOK
-----------------------------------------------------------------------------
LEMMA Initially == Init => DInv
  BY DEF Init, DInv, HolderOK, SchemaOK, Stage

(* Requests leave processes, lock and schema alone.                        *)
LEMMA RequestsKeep ==
  ASSUME DInv, UNCHANGED <<schema, apply, file, lock, proc>>
  PROVE  DInv'
  BY DEF DInv, HolderOK, SchemaOK

(* A process that moves on by itself, without the lock.                    *)
LEMMA MovesKeep ==
  ASSUME DInv, NEW p \in Proc,
         Begin(p) \/ Connect(p) \/ NoSchema(p) \/ Stop(p) \/ Close(p) \/ ApplyFails(p)
  PROVE  DInv'
<1>1. CASE Begin(p)
  BY <1>1 DEF DInv, HolderOK, SchemaOK, Stage, Begin
<1>2. CASE Connect(p)
  BY <1>2 DEF DInv, HolderOK, SchemaOK, Stage, Connect
<1>3. CASE Stop(p)
  BY <1>3 DEF DInv, HolderOK, SchemaOK, Stage, Stop
<1>4. CASE Close(p)
  BY <1>4 DEF DInv, HolderOK, SchemaOK, Stage, Close
<1>5. CASE ApplyFails(p)
  BY <1>5 DEF DInv, HolderOK, SchemaOK, Stage, ApplyFails
<1>6. CASE NoSchema(p)
  BY <1>6 DEF DInv, HolderOK, SchemaOK, Stage, NoSchema
<1> QED
  BY <1>1, <1>2, <1>3, <1>4, <1>5, <1>6

(* The lock changes hands through None only.                               *)
LEMMA LockKeeps ==
  ASSUME DInv, NEW p \in Proc, Lock(p) \/ Apply(p) \/ Unlock(p) \/ Crash(p)
  PROVE  DInv'
<1> USE DatabaseAssumption DEF Proc
<1>1. CASE Lock(p)
  BY <1>1 DEF DInv, HolderOK, SchemaOK, Stage, Lock
<1>2. CASE Apply(p)
  BY <1>2 DEF DInv, HolderOK, SchemaOK, Stage, Apply
<1>3. CASE Unlock(p)
  BY <1>3 DEF DInv, HolderOK, SchemaOK, Stage, Unlock
<1>4. CASE Crash(p)
  BY <1>4 DEF DInv, HolderOK, SchemaOK, Stage, Crash
<1> QED
  BY <1>1, <1>2, <1>3, <1>4

(* When the database goes, the lock goes, and with it everybody who needs  *)
(* it.                                                                     *)
LEMMA DownKeeps == DInv /\ DatabaseDown => DInv'
  BY DEF DInv, HolderOK, SchemaOK, Stage, DatabaseDown

LEMMA StepKeeps == DInv /\ [Next]_vars => DInv'
<1> SUFFICES ASSUME DInv, [Next]_vars
             PROVE  DInv'
  OBVIOUS
<1>1. CASE UNCHANGED vars
  BY <1>1, RequestsKeep DEF vars
<1>2. CASE DatabaseUp
  BY <1>2, RequestsKeep DEF DatabaseUp
<1>3. ASSUME NEW p \in Proc, Advance(p) \/ Lock(p)
      PROVE  DInv'
  BY <1>3, MovesKeep, LockKeeps, RequestsKeep DEF Advance, Acquire
<1>4. ASSUME NEW r \in Task, Perform(r) \/ Cancel(r)
      PROVE  DInv'
  BY <1>4, RequestsKeep DEF Perform, Want, Statement, Fails, Answer, Cancel
<1>5. CASE Environment
  <2>1. ASSUME NEW p \in Proc, Begin(p) \/ Stop(p) \/ Crash(p) \/ ApplyFails(p)
        PROVE  DInv'
    BY <2>1, MovesKeep, LockKeeps
  <2>2. ASSUME NEW r \in Task, NEW p \in Proc, NEW n \in 1 .. MaxStatement, Arrive(r, p, n)
        PROVE  DInv'
    BY <2>2, RequestsKeep DEF Arrive
  <2> QED
    BY <1>4, <1>5, <2>1, <2>2, DownKeeps DEF Environment
<1> QED
  BY <1>1, <1>2, <1>3, <1>4, <1>5 DEF Next

THEOREM Invariance == Spec => []DInv
  BY Initially, StepKeeps, PTL DEF Spec

(* No two processes apply schema.sql at the same time                      *)
(* (_apply_schema_from_file): both would have the lock.                    *)
THEOREM OneAtATime == Spec => []SchemaAlone
<1>1. DInv => SchemaAlone
  BY DEF DInv, HolderOK, SchemaAlone
<1> QED
  BY <1>1, Invariance, PTL

(* Who is told to apply schema.sql (APPLY_SCHEMA_ON_START) and finds it    *)
(* (_apply_schema_from_file) serves with the tables in place, whoever else *)
(* starts, fails or crashes; of other processes nothing is claimed.        *)
THEOREM TablesFirst == Spec => []ServedBySchema
<1>1. DInv => ServedBySchema
  BY DEF DInv, SchemaOK, ServedBySchema
<1> QED
  BY <1>1, Invariance, PTL
-----------------------------------------------------------------------------
(* The pool.  A request belongs to a process that serves, and has a        *)
(* statement left to run or its answer, ...                                *)
TaskOK ==
  \A r \in Task :
    /\ task[r].at \in {"next", "wait", "run"} => task[r].left > 0
    /\ task[r].proc = None => task[r] = Idle
    /\ task[r].proc # None => task[r].at # "idle" /\ proc[task[r].proc] \in {"serve", "closing"}

(* ... waits in its queue, and there once, ...                             *)
QueueOK ==
  \A p \in Proc :
    /\ \A k \in DOMAIN queue[p] : task[queue[p][k]].proc = p /\ task[queue[p][k]].at = "wait"
    /\ \A j, k \in DOMAIN queue[p] : queue[p][j] = queue[p][k] => j = k

(* ... and the connections that are not free are the requests' that run a  *)
(* statement, or one is with the schema.                                   *)
FreeOK ==
  /\ PoolIsWhole
  /\ \A p \in Proc : proc[p] \in {"lock", "apply", "unlock", "failed"} => free[p] = PoolSize - 1

PInv == TypeOK /\ TaskOK /\ QueueOK /\ FreeOK

LEMMA PoolInitially == Init => PInv
<1> SUFFICES ASSUME Init
             PROVE  PInv
  OBVIOUS
<1> USE DatabaseAssumption DEF Init, Idle, Work
<1>1. TypeOK
  BY DEF TypeOK, Stage
<1>2. TaskOK /\ QueueOK
  BY DEF TaskOK, QueueOK
<1>3. FreeOK
  BY DEF FreeOK, PoolIsWhole
<1> QED
  BY <1>1, <1>2, <1>3 DEF PInv

(* What is counted is finite; no request of a process that does not serve  *)
(* is counted.                                                             *)
LEMMA Counted ==
  ASSUME PInv, NEW p \in Proc
  PROVE  /\ IsFiniteSet(Running(p)) /\ Cardinality(Running(p)) \in Nat
         /\ proc[p] \notin {"serve", "closing"} => Of(p) = {} /\ Cardinality(Running(p)) = 0
<1>1. Running(p) \subseteq Task
  BY DEF Running, Of
<1>2. IsFiniteSet(Running(p)) /\ Cardinality(Running(p)) \in Nat
  BY <1>1, DatabaseAssumption, FS_Subset, FS_CardinalityType
<1>3. p # None
  BY DatabaseAssumption
<1>4. ASSUME proc[p] \notin {"serve", "closing"}
      PROVE  Of(p) = {} /\ Cardinality(Running(p)) = 0
  <2>1. Of(p) = {}
    BY <1>3, <1>4 DEF PInv, TaskOK, Of
  <2>2. Running(p) = {}
    BY <2>1 DEF Running
  <2> QED
    BY <2>1, <2>2, FS_EmptySet
<1> QED
  BY <1>2, <1>4

(* A process moves on; no request begins, ends or gets a connection.       *)
LEMMA ProcessKeepsPool ==
  ASSUME PInv, NEW p \in Proc,
         Begin(p) \/ Lock(p) \/ Apply(p) \/ ApplyFails(p) \/ Stop(p) \/ Unlock(p)
                  \/ Connect(p) \/ NoSchema(p) \/ Close(p)
  PROVE  PInv'
<1> USE DatabaseAssumption DEF PInv
<1>1. UNCHANGED <<queue, task>>
  BY DEF Begin, Lock, Apply, ApplyFails, Stop, Unlock, Connect, NoSchema, Close
<1>2. \A q \in Proc : Running(q)' = Running(q) /\ Of(q)' = Of(q)
  BY <1>1 DEF Running, Of
<1>3. PICK st \in Stage : proc' = [proc EXCEPT ![p] = st]
  BY DEF Begin, Lock, Apply, ApplyFails, Stop, Unlock, Connect, NoSchema, Close, Stage, TypeOK
<1>4. proc[p] \in {"serve", "closing"} /\ Of(p) # {} => proc'[p] \in {"serve", "closing"}
  BY DEF Begin, Lock, Apply, ApplyFails, Stop, Unlock, Connect, NoSchema, Close, Stage, TypeOK
<1>5. TypeOK'
  <2>1. free' \in [Proc -> 0 .. PoolSize]
    <3>1. CASE Connect(p)
      BY <3>1 DEF Connect, TypeOK
    <3>2. CASE Unlock(p) \/ NoSchema(p)
      BY <3>2 DEF Unlock, NoSchema, TypeOK, FreeOK
    <3>3. CASE UNCHANGED free
      BY <3>3 DEF TypeOK
    <3> QED
      BY <3>1, <3>2, <3>3 DEF Begin, Lock, Apply, ApplyFails, Stop, Close
  <2>2. up' \in BOOLEAN /\ schema' \in BOOLEAN /\ apply' \in BOOLEAN /\ file' \subseteq Proc
    BY DEF Begin, Lock, Apply, ApplyFails, Stop, Unlock, Connect, NoSchema, Close, TypeOK
  <2>3. lock' \in Proc \cup {None}
    BY DEF Begin, Lock, Apply, ApplyFails, Stop, Unlock, Connect, NoSchema, Close, TypeOK
  <2>4. fault' \in 0 .. MaxFault
    BY DEF Begin, Lock, Apply, ApplyFails, Stop, Unlock, Connect, NoSchema, Close, TypeOK
  <2>5. proc' \in [Proc -> Stage]
    BY <1>3 DEF TypeOK
  <2> QED
    BY <1>1, <2>1, <2>2, <2>3, <2>4, <2>5 DEF TypeOK
<1>6. TaskOK'
  <2> SUFFICES ASSUME NEW r \in Task, task[r].proc # None
               PROVE  proc'[task[r].proc] \in {"serve", "closing"}
    BY <1>1 DEF TaskOK, Idle
  <2>1. task[r].proc \in Proc /\ r \in Of(task[r].proc)
    BY DEF TypeOK, Work, Of
  <2> QED
    BY <1>3, <1>4, <2>1 DEF TaskOK, TypeOK
<1>7. QueueOK'
  BY <1>1 DEF QueueOK
<1>8. FreeOK'
  <2> SUFFICES ASSUME NEW q \in Proc
               PROVE  /\ proc'[q] \in {"serve", "closing"} =>
                            free'[q] + Cardinality(Running(q)) = PoolSize
                      /\ proc'[q] \in {"lock", "apply", "unlock", "failed"} =>
                            free'[q] = PoolSize - 1
    BY <1>2 DEF FreeOK, PoolIsWhole
  <2>1. CASE q # p
    BY <1>3, <2>1 DEF Begin, Lock, Apply, ApplyFails, Stop, Unlock, Connect, NoSchema, Close,
                      TypeOK, FreeOK, PoolIsWhole
  <2>2. CASE q = p
    BY <2>2, Counted DEF Begin, Lock, Apply, ApplyFails, Stop, Unlock, Connect, NoSchema, Close,
                         TypeOK, FreeOK, PoolIsWhole
  <2> QED
    BY <2>1, <2>2
<1> QED
  BY <1>5, <1>6, <1>7, <1>8

(* A queue without one of those who wait: everybody else, once.            *)
LEMMA WithoutRemoves ==
  ASSUME NEW q \in Seq(Task), NEW r \in Task,
         \A j, k \in DOMAIN q : q[j] = q[k] => j = k
  PROVE  /\ Without(q, r) \in Seq(Task)
         /\ \A k \in DOMAIN Without(q, r) :
              Without(q, r)[k] # r /\ \E j \in DOMAIN q : Without(q, r)[k] = q[j]
         /\ \A j, k \in DOMAIN Without(q, r) : Without(q, r)[j] = Without(q, r)[k] => j = k
<1>1. CASE ~ \E k \in DOMAIN q : q[k] = r
  BY <1>1 DEF Without
<1>2. CASE \E k \in DOMAIN q : q[k] = r
  <2>1. PICK i \in 1 .. Len(q) : q[i] = r /\ Without(q, r) = RemoveAt(q, i)
    BY <1>2 DEF Without
  <2> DEFINE a == SubSeq(q, 1, i - 1)
             b == SubSeq(q, i + 1, Len(q))
  <2>2. \A k \in 1 .. Len(q) : q[k] \in Task
    BY ElementOfSeq
  <2>3. /\ a \in Seq(Task) /\ Len(a) = i - 1
        /\ \A k \in 1 .. i - 1 : a[k] = q[k]
    BY <2>2, SubSeqProperties
  <2>4. /\ b \in Seq(Task) /\ Len(b) = Len(q) - i
        /\ \A k \in 1 .. Len(q) - i : b[k] = q[i + k]
    BY <2>2, SubSeqProperties
  <2>5. RemoveAt(q, i) = a \o b
    BY DEF RemoveAt
  <2> HIDE DEF a, b
  <2>6. /\ a \o b \in Seq(Task) /\ DOMAIN (a \o b) = 1 .. Len(q) - 1
        /\ \A k \in 1 .. Len(q) - 1 : (a \o b)[k] = IF k < i THEN q[k] ELSE q[k + 1]
    <3>1. /\ a \o b \in Seq(Task) /\ Len(a \o b) = Len(a) + Len(b)
          /\ \A k \in 1 .. Len(a) + Len(b) :
               (a \o b)[k] = IF k <= Len(a) THEN a[k] ELSE b[k - Len(a)]
      BY <2>3, <2>4, ConcatProperties
    <3>2. Len(q) \in Nat /\ Len(a) + Len(b) = Len(q) - 1
      BY <2>3, <2>4
    <3>3. DOMAIN (a \o b) = 1 .. Len(q) - 1
      BY <3>1, <3>2
    <3>4. ASSUME NEW k \in 1 .. Len(q) - 1
          PROVE  (a \o b)[k] = IF k < i THEN q[k] ELSE q[k + 1]
      <4>1. CASE k < i
        BY <2>3, <3>1, <3>2, <4>1
      <4>2. CASE k >= i
        <5>1. (a \o b)[k] = b[k - (i - 1)]
          BY <2>3, <3>1, <3>2, <4>2
        <5>2. k - (i - 1) \in 1 .. Len(q) - i /\ i + (k - (i - 1)) = k + 1
          BY <3>2, <4>2
        <5> QED
          BY <2>4, <4>2, <5>1, <5>2
      <4> QED
        BY <4>1, <4>2, <3>2
    <3> QED
      BY <3>1, <3>3, <3>4
  <2> DEFINE w == a \o b
  <2>7. Without(q, r) = w
    BY <2>1, <2>5
  <2> HIDE DEF w
  <2>8. \A k \in DOMAIN w : w[k] # r /\ \E j \in DOMAIN q : w[k] = q[j]
    <3> SUFFICES ASSUME NEW k \in 1 .. Len(q) - 1
                 PROVE  \E j \in DOMAIN q : j # i /\ w[k] = q[j]
      BY <2>1, <2>6 DEF w
    <3> DEFINE j == IF k < i THEN k ELSE k + 1
    <3>1. j \in DOMAIN q /\ j # i /\ w[k] = q[j]
      BY <2>6 DEF w
    <3> QED
      BY <3>1
  <2>9. ASSUME NEW j \in DOMAIN w, NEW k \in DOMAIN w, w[j] = w[k]
        PROVE  j = k
    <3>1. j \in 1 .. Len(q) - 1 /\ k \in 1 .. Len(q) - 1
      BY <2>6 DEF w
    <3> DEFINE at(m) == IF m < i THEN m ELSE m + 1
    <3>2. \A m \in 1 .. Len(q) - 1 : at(m) \in DOMAIN q /\ w[m] = q[at(m)]
      BY <2>6 DEF w
    <3>3. \A m, n \in 1 .. Len(q) - 1 : at(m) = at(n) => m = n
      OBVIOUS
    <3> HIDE DEF at
    <3>4. at(j) = at(k)
      BY <2>9, <3>1, <3>2
    <3> QED
      BY <3>1, <3>3, <3>4
  <2> QED
    BY <2>6, <2>7, <2>8, <2>9 DEF w
<1> QED
  BY <1>1, <1>2

(* A request arrives, asks for a connection or is answered: the requests   *)
(* that run a statement are the same.                                      *)
LEMMA ArriveKeepsPool ==
  ASSUME PInv, NEW r \in Task, NEW p \in Proc, NEW n \in 1 .. MaxStatement, Arrive(r, p, n)
  PROVE  PInv'
<1> USE DatabaseAssumption DEF PInv, Arrive, Idle
<1>1. \A q \in Proc : Running(q)' = Running(q)
  BY DEF Running, Of, TypeOK
<1>2. TypeOK'
  BY DEF TypeOK, Work
<1>3. TaskOK' /\ QueueOK'
  <2>1. TaskOK'
    BY DEF TaskOK, TypeOK
  <2>2. QueueOK'
    BY DEF QueueOK, TypeOK
  <2> QED
    BY <2>1, <2>2
<1> QED
  BY <1>1, <1>2, <1>3 DEF FreeOK, PoolIsWhole

LEMMA AnswerKeepsPool ==
  ASSUME PInv, NEW r \in Task, Answer(r)
  PROVE  PInv'
<1> USE DatabaseAssumption DEF PInv, Answer, Idle
<1>1. \A q \in Proc : Running(q)' = Running(q)
  BY DEF Running, Of, TypeOK
<1>2. TypeOK'
  BY DEF TypeOK, Work
<1>3. TaskOK' /\ QueueOK'
  <2>1. TaskOK'
    BY DEF TaskOK, TypeOK
  <2>2. QueueOK'
    BY DEF QueueOK, TypeOK
  <2> QED
    BY <2>1, <2>2
<1> QED
  BY <1>1, <1>2, <1>3 DEF FreeOK, PoolIsWhole

LEMMA WantKeepsPool ==
  ASSUME PInv, NEW r \in Task, Want(r)
  PROVE  PInv'
<1> USE DatabaseAssumption DEF PInv
<1> DEFINE p == task[r].proc
<1>1. p \in Proc /\ task[r].at = "next" /\ proc[p] \in {"serve", "closing"}
  BY DEF Want, TypeOK, TaskOK, Work, Idle
<1>2. \A q \in Proc : Running(q)' = Running(q)
  BY DEF Running, Of, TypeOK, Want
<1>3. /\ task' = [task EXCEPT ![r] = [task[r] EXCEPT !.at = "wait"]]
      /\ queue' = [queue EXCEPT ![p] = Append(queue[p], r)]
      /\ UNCHANGED <<up, schema, apply, file, lock, proc, free, fault>>
  BY DEF Want
<1>4. queue[p] \in Seq(Task) /\ task[r] \in Work
  BY <1>1 DEF TypeOK
<1> HIDE DEF p
<1>5. [task[r] EXCEPT !.at = "wait"] \in Work
  BY <1>4 DEF Work
<1>6. TypeOK'
  BY <1>1, <1>3, <1>4, <1>5 DEF TypeOK
<1>7. TaskOK'
  <2>1. task'[r].proc = p /\ task'[r].at = "wait" /\ task'[r].left = task[r].left
    BY <1>3, <1>4 DEF TypeOK, Work, p
  <2>2. \A s \in Task \ {r} : task'[s] = task[s]
    BY <1>3 DEF TypeOK
  <2> QED
    BY <1>1, <1>3, <2>1, <2>2, DatabaseAssumption DEF TaskOK, Idle
<1>8. QueueOK'
  <2> SUFFICES ASSUME NEW q \in Proc
               PROVE  /\ \A k \in DOMAIN queue'[q] :
                           task'[queue'[q][k]].proc = q /\ task'[queue'[q][k]].at = "wait"
                      /\ \A j, k \in DOMAIN queue'[q] : queue'[q][j] = queue'[q][k] => j = k
    BY DEF QueueOK
  <2>1. \A k \in DOMAIN queue[q] :
          /\ queue[q][k] \in Task /\ queue[q][k] # r
          /\ task'[queue[q][k]].proc = q /\ task'[queue[q][k]].at = "wait"
    BY <1>1, <1>3 DEF QueueOK, TypeOK
  <2>2. CASE q # p
    BY <1>1, <1>3, <2>1, <2>2 DEF QueueOK, TypeOK
  <2>3. CASE q = p
    <3>1. queue'[p] = Append(queue[p], r)
      BY <1>1, <1>3 DEF TypeOK
    <3> DEFINE n == Len(queue[p])
    <3>2. n \in Nat /\ DOMAIN queue[p] = 1 .. n /\ DOMAIN queue'[p] = 1 .. n + 1
      BY <1>4, <3>1
    <3>3. queue'[p][n + 1] = r /\ \A k \in 1 .. n : queue'[p][k] = queue[p][k]
      BY <1>4, <3>1, <3>2
    <3>4. task'[r].proc = p /\ task'[r].at = "wait"
      BY <1>3, <1>4 DEF TypeOK, Work, p
    <3> HIDE DEF n
    <3>5. \A k \in 1 .. n + 1 : k \in 1 .. n \/ k = n + 1
      BY <3>2
    <3>6. \A k \in 1 .. n + 1 : task'[queue'[p][k]].proc = p /\ task'[queue'[p][k]].at = "wait"
      BY <2>1, <2>3, <3>2, <3>3, <3>4, <3>5
    <3>7. \A j, k \in 1 .. n : queue[p][j] = queue[p][k] => j = k
      BY <1>1, <3>2 DEF QueueOK
    <3>8. \A j, k \in 1 .. n + 1 : queue'[p][j] = queue'[p][k] => j = k
      BY <2>1, <2>3, <3>2, <3>3, <3>5, <3>7
    <3> QED
      BY <2>3, <3>2, <3>6, <3>8
  <2> QED
    BY <2>2, <2>3
<1> QED
  BY <1>2, <1>3, <1>6, <1>7, <1>8 DEF FreeOK, PoolIsWhole

(* The head of a queue gets a connection.                                  *)
LEMMA AcquireKeepsPool ==
  ASSUME PInv, NEW p \in Proc, Acquire(p)
  PROVE  PInv'
<1> USE DatabaseAssumption DEF PInv
<1> DEFINE r == Head(queue[p])
           q == queue[p]
<1>1. q \in Seq(Task) /\ q # <<>> /\ free[p] > 0 /\ free[p] \in 0 .. PoolSize
  BY DEF Acquire, TypeOK
<1>2. /\ r \in Task /\ r = q[1] /\ Tail(q) \in Seq(Task) /\ DOMAIN q = 1 .. Len(q)
      /\ Len(q) \in Nat \ {0} /\ DOMAIN Tail(q) = 1 .. Len(q) - 1
      /\ \A k \in DOMAIN Tail(q) : Tail(q)[k] = q[k + 1] /\ k + 1 \in DOMAIN q
  BY <1>1, HeadTailProperties, EmptySeq, LenProperties
<1>3. /\ task[r].proc = p /\ task[r].at = "wait" /\ task[r] \in Work
      /\ proc[p] \in {"serve", "closing"}
  BY <1>2 DEF QueueOK, TypeOK, TaskOK
<1>4. /\ task' = [task EXCEPT ![r] = [task[r] EXCEPT !.at = "run"]]
      /\ queue' = [queue EXCEPT ![p] = Tail(q)]
      /\ free' = [free EXCEPT ![p] = @ - 1]
      /\ UNCHANGED <<up, schema, apply, file, lock, proc, fault>>
  BY DEF Acquire
<1> HIDE DEF r, q
<1>5. /\ task'[r].proc = p /\ task'[r].at = "run" /\ task'[r] \in Work
      /\ task'[r].left = task[r].left /\ \A s \in Task \ {r} : task'[s] = task[s]
  BY <1>2, <1>3, <1>4 DEF TypeOK, Work
<1>6. TypeOK'
  <2>1. task' \in [Task -> Work]
    BY <1>3, <1>4, <1>5 DEF TypeOK
  <2>2. queue' \in [Proc -> Seq(Task)]
    BY <1>2, <1>4 DEF TypeOK
  <2>3. free' \in [Proc -> 0 .. PoolSize]
    BY <1>1, <1>4 DEF TypeOK
  <2> QED
    BY <1>4, <2>1, <2>2, <2>3 DEF TypeOK
<1>7. TaskOK'
  BY <1>2, <1>3, <1>4, <1>5 DEF TaskOK, Idle
<1>8. QueueOK'
  <2> SUFFICES ASSUME NEW x \in Proc
               PROVE  /\ \A k \in DOMAIN queue'[x] :
                           task'[queue'[x][k]].proc = x /\ task'[queue'[x][k]].at = "wait"
                      /\ \A j, k \in DOMAIN queue'[x] : queue'[x][j] = queue'[x][k] => j = k
    BY DEF QueueOK
  <2>1. CASE x # p
    <3>1. queue'[x] = queue[x]
      BY <1>4, <2>1 DEF TypeOK
    <3>2. \A k \in DOMAIN queue[x] : queue[x][k] \in Task \ {r}
      BY <1>3, <2>1 DEF QueueOK, TypeOK
    <3> QED
      BY <1>5, <3>1, <3>2 DEF QueueOK
  <2>2. CASE x = p
    <3>1. queue'[p] = Tail(q)
      BY <1>4 DEF TypeOK
    <3>2. \A k \in DOMAIN q : q[k] \in Task /\ (q[k] = r => k = 1)
      BY <1>1, <1>2 DEF QueueOK, q
    <3>3. \A k \in DOMAIN Tail(q) : Tail(q)[k] \in Task \ {r}
      BY <1>2, <3>2
    <3>4. \A k \in DOMAIN Tail(q) : task[Tail(q)[k]].proc = p /\ task[Tail(q)[k]].at = "wait"
      BY <1>2 DEF QueueOK, q
    <3>5. \A j, k \in DOMAIN Tail(q) : Tail(q)[j] = Tail(q)[k] => j + 1 = k + 1
      BY <1>2 DEF QueueOK, q
    <3>6. \A j, k \in DOMAIN Tail(q) : Tail(q)[j] = Tail(q)[k] => j = k
      BY <1>2, <3>5
    <3> QED
      BY <1>5, <2>2, <3>1, <3>3, <3>4, <3>6
  <2> QED
    BY <2>1, <2>2
<1>9. FreeOK'
  <2>1. Running(p)' = Running(p) \cup {r} /\ r \notin Running(p)
    BY <1>2, <1>3, <1>5 DEF Running, Of
  <2>2. \A x \in Proc \ {p} : Running(x)' = Running(x)
    BY <1>3, <1>5 DEF Running, Of
  <2>3. Cardinality(Running(p))' = Cardinality(Running(p)) + 1
    BY <2>1, Counted, FS_AddElement
  <2>4. free'[p] = free[p] - 1 /\ free[p] + Cardinality(Running(p)) = PoolSize
    BY <1>3, <1>4 DEF FreeOK, PoolIsWhole, TypeOK
  <2>5. free'[p] + Cardinality(Running(p))' = PoolSize
    BY <1>1, <2>3, <2>4, Counted
  <2>6. \A x \in Proc \ {p} : free'[x] = free[x]
    BY <1>4 DEF TypeOK
  <2> QED
    BY <1>3, <1>4, <2>2, <2>5, <2>6 DEF FreeOK, PoolIsWhole
<1> QED
  BY <1>6, <1>7, <1>8, <1>9

(* A request gives its connection back, however its statement ended.       *)
LEMMA ReleaseKeepsPool ==
  ASSUME PInv, NEW r \in Task, NEW w \in Work, NEW p \in Proc,
         task[r].proc = p, task[r].at = "run",
         w = Idle \/ (w.proc = p /\ (w.at = "answer" \/ (w.at = "next" /\ w.left > 0))),
         task' = [task EXCEPT ![r] = w], free' = [free EXCEPT ![p] = @ + 1],
         UNCHANGED <<up, schema, apply, file, lock, proc, queue, fault>>
  PROVE  PInv'
<1> USE DatabaseAssumption DEF PInv
<1>1. proc[p] \in {"serve", "closing"}
  BY DEF TaskOK
<1>2. task'[r] = w /\ \A s \in Task \ {r} : task'[s] = task[s]
  BY DEF TypeOK
<1>3. Running(p)' = Running(p) \ {r} /\ r \in Running(p)
  BY <1>2 DEF Running, Of, Idle
<1>4. \A x \in Proc \ {p} : Running(x)' = Running(x)
  BY <1>2 DEF Running, Of, Idle
<1>5. Cardinality(Running(p))' = Cardinality(Running(p)) - 1 /\ Cardinality(Running(p))' \in Nat
  BY <1>3, Counted, FS_RemoveElement, FS_CardinalityType
<1>6. free[p] + Cardinality(Running(p)) = PoolSize /\ free[p] \in 0 .. PoolSize
  BY <1>1 DEF FreeOK, PoolIsWhole, TypeOK
<1>7. free[p] + 1 \in 0 .. PoolSize
  BY <1>5, <1>6, Counted
<1>8. TypeOK'
  BY <1>7 DEF TypeOK
<1>9. TaskOK'
  BY <1>1, <1>2 DEF TaskOK, Idle
<1>10. QueueOK'
  <2>1. \A x \in Proc : \A k \in DOMAIN queue[x] : queue[x][k] \in Task \ {r}
    BY DEF QueueOK, TypeOK
  <2> QED
    BY <1>2, <2>1 DEF QueueOK
<1>11. FreeOK'
  <2>1. free'[p] = free[p] + 1 /\ \A x \in Proc \ {p} : free'[x] = free[x]
    BY DEF TypeOK
  <2>2. free'[p] + Cardinality(Running(p))' = PoolSize
    BY <1>5, <1>6, <2>1, Counted
  <2> QED
    BY <1>1, <1>4, <2>1, <2>2 DEF FreeOK, PoolIsWhole
<1> QED
  BY <1>8, <1>9, <1>10, <1>11

(* What becomes of a request whose statement has ended.                    *)
LEMMA Continues ==
  ASSUME NEW t \in Work, t.left > 0, NEW w \in {After(t), [t EXCEPT !.at = "answer"]}
  PROVE  /\ w \in Work /\ w.proc = t.proc
         /\ w.at = "answer" \/ (w.at = "next" /\ w.left > 0)
<1>1. PICK l \in 0 .. MaxStatement, a \in {"next", "answer"} :
        w = [proc |-> t.proc, at |-> a, left |-> l] /\ (a = "next" => l > 0)
  <2>1. t = [proc |-> t.proc, at |-> t.at, left |-> t.left] /\ t.left \in 1 .. MaxStatement
    BY DatabaseAssumption DEF Work
  <2>2. CASE w = [t EXCEPT !.at = "answer"]
    <3>1. w = [proc |-> t.proc, at |-> "answer", left |-> t.left]
      BY <2>1, <2>2
    <3> QED
      BY <2>1, <3>1, DatabaseAssumption
  <2>3. CASE w = After(t)
    <3>1. w = [proc |-> t.proc, at |-> IF t.left > 1 THEN "next" ELSE "answer",
               left |-> t.left - 1]
      BY <2>1, <2>3 DEF After
    <3>2. t.left - 1 \in 0 .. MaxStatement /\ (t.left > 1 => t.left - 1 > 0)
      BY <2>1, DatabaseAssumption
    <3> QED
      BY <3>1, <3>2
  <2> QED
    BY <2>2, <2>3
<1>2. t.proc \in Proc \cup {None}
  BY DEF Work
<1>3. [proc |-> t.proc, at |-> a, left |-> l] \in Work
  BY <1>2 DEF Work
<1>4. w.proc = t.proc /\ w.at = a /\ (a = "next" => w.left > 0)
  BY <1>1
<1> QED
  BY <1>1, <1>3, <1>4

LEMMA StatementKeepsPool ==
  ASSUME PInv, NEW r \in Task, Statement(r) \/ Fails(r)
  PROVE  PInv'
<1> DEFINE p == task[r].proc
<1>1. p \in Proc /\ task[r].at = "run" /\ task[r] \in Work
  BY DEF PInv, TypeOK, TaskOK, Work, Idle, Statement, Fails
<1>2. UNCHANGED <<up, schema, apply, file, lock, proc, queue, fault>>
  BY DEF Statement, Fails
<1>3. free' = [free EXCEPT ![p] = @ + 1]
  BY DEF Statement, Fails
<1>4. PICK w \in {After(task[r]), [task[r] EXCEPT !.at = "answer"]} :
        task' = [task EXCEPT ![r] = w]
  BY DEF Statement, Fails
<1>5. w \in Work /\ w.proc = p /\ (w.at = "answer" \/ (w.at = "next" /\ w.left > 0))
  <2>1. task[r].left > 0
    BY <1>1 DEF PInv, TaskOK
  <2> QED
    BY <1>1, <1>4, <2>1, Continues
<1> QED
  BY <1>1, <1>2, <1>3, <1>4, <1>5, ReleaseKeepsPool

(* A cancelled request gives back the connection that it has, and leaves   *)
(* the queue that it waits in.                                             *)
LEMMA CancelKeepsPool ==
  ASSUME PInv, NEW r \in Task, Cancel(r)
  PROVE  PInv'
<1> USE DatabaseAssumption DEF PInv
<1> DEFINE p == task[r].proc
           q == Without(queue[p], r)
<1>1. /\ p \in Proc /\ task[r].at \in {"next", "wait", "run"}
      /\ proc[p] \in {"serve", "closing"} /\ Idle \in Work
  BY DEF TypeOK, TaskOK, Work, Idle, Cancel
<1>2. /\ task' = [task EXCEPT ![r] = Idle]
      /\ queue' = [queue EXCEPT ![p] = q]
      /\ free' = [free EXCEPT ![p] = IF task[r].at = "run" THEN @ + 1 ELSE @]
      /\ UNCHANGED <<up, schema, apply, file, lock, proc, fault>>
  BY DEF Cancel
<1>3. /\ q \in Seq(Task)
      /\ \A k \in DOMAIN q : q[k] # r /\ \E j \in DOMAIN queue[p] : q[k] = queue[p][j]
      /\ \A j, k \in DOMAIN q : q[j] = q[k] => j = k
  BY <1>1, WithoutRemoves DEF QueueOK, TypeOK
<1>4. ASSUME task[r].at # "wait"
      PROVE  queue' = queue
  <2>1. ~ \E k \in DOMAIN queue[p] : queue[p][k] = r
    BY <1>1, <1>4 DEF QueueOK
  <2> QED
    BY <1>2, <2>1 DEF Without, TypeOK
<1> HIDE DEF p, q
<1>5. CASE task[r].at = "run"
  <2>1. task[r].proc = p /\ free' = [free EXCEPT ![p] = @ + 1] /\ queue' = queue
    BY <1>2, <1>4, <1>5 DEF p
  <2> QED
    BY <1>1, <1>2, <1>5, <2>1, ReleaseKeepsPool
<1>6. CASE task[r].at # "run"
  <2>1. free' = free /\ task'[r] = Idle /\ \A s \in Task \ {r} : task'[s] = task[s]
    BY <1>2, <1>6 DEF TypeOK
  <2>2. \A x \in Proc : Running(x)' = Running(x)
    BY <1>6, <2>1 DEF Running, Of, Idle
  <2>3. TypeOK'
    BY <1>1, <1>2, <1>3, <2>1 DEF TypeOK
  <2>4. TaskOK'
    BY <1>2, <2>1 DEF TaskOK, Idle
  <2>5. QueueOK'
    <3> SUFFICES ASSUME NEW x \in Proc
                 PROVE  /\ \A k \in DOMAIN queue'[x] :
                             task'[queue'[x][k]].proc = x /\ task'[queue'[x][k]].at = "wait"
                        /\ \A j, k \in DOMAIN queue'[x] : queue'[x][j] = queue'[x][k] => j = k
      BY DEF QueueOK
    <3>1. CASE x # p
      <4>1. queue'[x] = queue[x]
        BY <1>2, <3>1 DEF TypeOK
      <4>2. \A k \in DOMAIN queue[x] : queue[x][k] \in Task \ {r}
        BY <3>1 DEF QueueOK, TypeOK, p
      <4> QED
        BY <2>1, <4>1, <4>2 DEF QueueOK
    <3>2. CASE x = p
      <4>1. queue'[p] = q
        BY <1>1, <1>2 DEF TypeOK
      <4>2. \A k \in DOMAIN q : q[k] \in Task \ {r}
        BY <1>3
      <4>3. \A k \in DOMAIN q : task[q[k]].proc = p /\ task[q[k]].at = "wait"
        BY <1>1, <1>3 DEF QueueOK
      <4> QED
        BY <1>3, <2>1, <3>2, <4>1, <4>2, <4>3
    <3> QED
      BY <3>1, <3>2
  <2>6. FreeOK'
    BY <1>2, <2>1, <2>2 DEF FreeOK, PoolIsWhole
  <2> QED
    BY <2>3, <2>4, <2>5, <2>6
<1> QED
  BY <1>5, <1>6

(* A process dies with its requests.                                       *)
LEMMA CrashKeepsPool ==
  ASSUME PInv, NEW p \in Proc, Crash(p)
  PROVE  PInv'
<1> USE DatabaseAssumption DEF PInv
<1>1. /\ fault' = fault + 1 /\ fault < MaxFault
      /\ lock' = (IF lock = p THEN None ELSE lock)
      /\ proc' = [proc EXCEPT ![p] = "off"]
      /\ queue' = [queue EXCEPT ![p] = <<>>]
      /\ task' = [r \in Task |-> IF task[r].proc = p THEN Idle ELSE task[r]]
      /\ UNCHANGED <<up, schema, apply, file, free>>
  BY DEF Crash
<1>2. proc'[p] = "off" /\ \A x \in Proc \ {p} : proc'[x] = proc[x]
  BY <1>1 DEF TypeOK
<1>3. \A x \in Proc \ {p} : Running(x)' = Running(x)
  BY <1>1 DEF Running, Of, Idle
<1>4. TypeOK'
  BY <1>1 DEF TypeOK, Work, Idle, Stage
<1>5. TaskOK'
  BY <1>1, <1>2 DEF TaskOK, TypeOK, Work, Idle
<1>6. QueueOK'
  <2> SUFFICES ASSUME NEW x \in Proc
               PROVE  /\ \A k \in DOMAIN queue'[x] :
                           task'[queue'[x][k]].proc = x /\ task'[queue'[x][k]].at = "wait"
                      /\ \A j, k \in DOMAIN queue'[x] : queue'[x][j] = queue'[x][k] => j = k
    BY DEF QueueOK
  <2>1. CASE x # p
    <3>1. queue'[x] = queue[x]
      BY <1>1, <2>1 DEF TypeOK
    <3>2. \A k \in DOMAIN queue[x] : task'[queue[x][k]] = task[queue[x][k]]
      BY <1>1, <2>1 DEF QueueOK, TypeOK
    <3> QED
      BY <3>1, <3>2 DEF QueueOK
  <2>2. CASE x = p
    <3>1. DOMAIN queue'[p] = {}
      BY <1>1 DEF TypeOK
    <3> QED
      BY <2>2, <3>1
  <2> QED
    BY <2>1, <2>2
<1>7. FreeOK'
  BY <1>1, <1>2, <1>3 DEF FreeOK, PoolIsWhole
<1> QED
  BY <1>4, <1>5, <1>6, <1>7

(* The database goes, and no statement runs.                               *)
LEMMA DownKeepsPool == PInv /\ DatabaseDown => PInv'
<1> SUFFICES ASSUME PInv, DatabaseDown
             PROVE  PInv'
  OBVIOUS
<1> USE DatabaseAssumption DEF PInv
<1>1. \A r \in Task : /\ task'[r].proc = task[r].proc /\ task'[r].at # "run"
                      /\ task[r].at # "run" => task'[r] = task[r]
                      /\ task[r].at = "run" => task'[r].at = "answer"
  BY DEF DatabaseDown, TypeOK, Work
<1>2. \A x \in Proc : /\ proc[x] \in {"serve", "closing"} => proc'[x] = proc[x]
                      /\ proc'[x] \in {"off", "connect", "serve", "closing"}
                      /\ proc'[x] \in {"serve", "closing"} =>
                           proc[x] \in {"serve", "closing"} /\ free'[x] = PoolSize
  BY DEF DatabaseDown, TypeOK, Stage
<1>3. TypeOK'
  <2>1. task' \in [Task -> Work]
    <3>1. \A r \in Task : [task[r] EXCEPT !.at = "answer"] \in Work
      BY DEF TypeOK, Work
    <3> QED
      BY <3>1 DEF DatabaseDown, TypeOK
  <2>2. proc' \in [Proc -> Stage] /\ free' \in [Proc -> 0 .. PoolSize]
    BY DEF DatabaseDown, TypeOK, Stage
  <2>3. fault' \in 0 .. MaxFault
    BY DEF DatabaseDown, TypeOK
  <2>4. up' \in BOOLEAN /\ lock' = None /\ UNCHANGED <<schema, apply, file, queue>>
    BY DEF DatabaseDown
  <2> QED
    BY <2>1, <2>2, <2>3, <2>4 DEF TypeOK
<1>4. TaskOK'
  <2> SUFFICES ASSUME NEW r \in Task
               PROVE  /\ task'[r].at \in {"next", "wait", "run"} => task'[r].left > 0
                      /\ task'[r].proc = None => task'[r] = Idle
                      /\ task'[r].proc # None =>
                           task'[r].at # "idle" /\ proc'[task'[r].proc] \in {"serve", "closing"}
    BY DEF TaskOK
  <2>1. task[r].proc \in Proc \cup {None}
    BY DEF TypeOK, Work
  <2> QED
    BY <1>1, <1>2, <2>1 DEF TaskOK, Idle
<1>5. QueueOK'
  <2>1. queue' = queue
    BY DEF DatabaseDown
  <2>2. \A x \in Proc : \A k \in DOMAIN queue[x] : queue[x][k] \in Task
    BY DEF TypeOK
  <2> QED
    BY <1>1, <2>1, <2>2 DEF QueueOK
<1>6. FreeOK'
  <2>1. \A x \in Proc : Running(x)' = {}
    BY <1>1 DEF Running, Of
  <2> QED
    BY <1>2, <2>1, FS_EmptySet DEF FreeOK, PoolIsWhole
<1> QED
  BY <1>3, <1>4, <1>5, <1>6

LEMMA PoolKept == PInv /\ [Next]_vars => PInv'
<1> SUFFICES ASSUME PInv, [Next]_vars
             PROVE  PInv'
  OBVIOUS
<1>1. ASSUME UNCHANGED vars \/ DatabaseUp
      PROVE  PInv'
  <2>1. \A x \in Proc : Running(x)' = Running(x)
    BY <1>1 DEF vars, DatabaseUp, Running, Of
  <2>2. /\ UNCHANGED <<schema, apply, file, lock, proc, free, queue, task, fault>>
        /\ up' = up \/ up' = TRUE
    BY <1>1 DEF vars, DatabaseUp
  <2>3. up' \in BOOLEAN
    BY <2>2 DEF PInv, TypeOK
  <2>4. TypeOK'
    BY <2>2, <2>3 DEF PInv, TypeOK
  <2>5. TaskOK' /\ QueueOK'
    BY <2>2 DEF PInv, TaskOK, QueueOK
  <2>6. FreeOK'
    BY <2>1, <2>2 DEF PInv, FreeOK, PoolIsWhole
  <2> QED
    BY <2>4, <2>5, <2>6 DEF PInv
<1>2. ASSUME NEW p \in Proc, Advance(p) \/ Lock(p)
      PROVE  PInv'
  BY <1>2, ProcessKeepsPool, AcquireKeepsPool DEF Advance
<1>3. ASSUME NEW r \in Task, Perform(r)
      PROVE  PInv'
  BY <1>3, WantKeepsPool, StatementKeepsPool, AnswerKeepsPool DEF Perform
<1>4. CASE Environment
  BY <1>4, ProcessKeepsPool, CrashKeepsPool, ArriveKeepsPool, CancelKeepsPool, DownKeepsPool
     DEF Environment
<1> QED
  BY <1>1, <1>2, <1>3, <1>4 DEF Next

(* Every connection of a pool comes back (async with pool.acquire()):      *)
(* whatever requests fail, are cancelled at an await or lose the database, *)
(* those that are not free are as many as the statements that run.         *)
THEOREM PoolHolds == Spec => []PoolIsWhole
<1>1. PInv => PoolIsWhole
  BY DEF PInv, FreeOK
<1>2. Spec => []PInv
  BY PoolInitially, PoolKept, PTL DEF Spec
<1> QED
  BY <1>1, <1>2, PTL

(* Every variable keeps its type; above all no pool (init_database) has    *)
(* more free connections than it made.                                     *)
THEOREM WellTyped == Spec => []TypeOK
<1>1. PInv => TypeOK
  BY DEF PInv
<1>2. Spec => []PInv
  BY PoolInitially, PoolKept, PTL DEF Spec
<1> QED
  BY <1>1, <1>2, PTL
=============================================================================
