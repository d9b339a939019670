------------------------------ MODULE Database ------------------------------
(***************************************************************************)
(* The processes of oob and PostgreSQL: every process makes a pool of      *)
(* connections when it starts, applies schema.sql under an advisory lock   *)
(* if it is told to, and serves requests, each of which takes a connection *)
(* per statement and gives it back.  Processes and the database crash and  *)
(* come back.                                                              *)
(*                                                                         *)
(* What the statements do is in the other modules; this one is about who   *)
(* waits for whom.                                                         *)
(***************************************************************************)
EXTENDS Naturals, FiniteSets, Sequences, SequencesExt

CONSTANTS
  Worker,        \* uvicorn workers, which are started again when they end
  Script,        \* runs of create_admin, which are not
  Task,          \* request slots (and the statements of create_admin)
  PoolSize,      \* max_size of a pool (10)
  MaxStatement,  \* bound on the statements of a request
  MaxFault,      \* bound on the crashes and failures
  None           \* the lock is free

Proc == Worker \cup Script

ASSUME DatabaseAssumption ==
  /\ Worker \cap Script = {} /\ None \notin Proc
  /\ IsFiniteSet(Task)
  /\ PoolSize \in Nat \ {0} /\ MaxStatement \in Nat \ {0} /\ MaxFault \in Nat

VARIABLES
  up,      \* the database answers
  schema,  \* the tables exist
  apply,   \* APPLY_SCHEMA_ON_START
  file,    \* the processes whose directory has an install/schema.sql that
           \* is not blank
  lock,    \* the process whose connection has the advisory lock, or None
  proc,    \* proc[p]: how far process p is
  free,    \* free[p]: connections its pool can still give out
  queue,   \* queue[p]: the tasks that wait for one
  task,    \* task[r]: what request r does
  fault    \* crashes and failures so far

vars == <<up, schema, apply, file, lock, proc, free, queue, task, fault>>
-----------------------------------------------------------------------------
(* "failed": like "unlock", after an error.                                *)
Stage == {"off", "connect", "lock", "apply", "unlock", "failed", "serve", "closing"}

Work == [proc : Proc \cup {None},
         at : {"idle", "next", "wait", "run", "answer"},
         left : 0 .. MaxStatement]

Idle == [proc |-> None, at |-> "idle", left |-> 0]

Init ==
  /\ up = TRUE
  /\ schema \in BOOLEAN /\ apply \in BOOLEAN /\ file \in SUBSET Proc
  /\ lock = None
  /\ proc = [p \in Proc |-> "off"]
  /\ free = [p \in Proc |-> 0] /\ queue = [p \in Proc |-> <<>>]
  /\ task = [r \in Task |-> Idle]
  /\ fault = 0

Of(p) == {r \in Task : task[r].proc = p}
Running(p) == {r \in Of(p) : task[r].at = "run"}
-----------------------------------------------------------------------------
(* The life of a process.                                                  *)

Begin(p) ==
  /\ proc[p] = "off"
  /\ proc' = [proc EXCEPT ![p] = "connect"]
  /\ UNCHANGED <<up, schema, apply, file, lock, free, queue, task, fault>>

(* init_database: the pool is made, and one connection taken for the       *)
(* schema; without a database the process ends.                            *)
Connect(p) ==
  /\ proc[p] = "connect"
  /\ IF ~up THEN proc' = [proc EXCEPT ![p] = "off"] /\ UNCHANGED free
     ELSE /\ proc' = [proc EXCEPT ![p] = IF apply THEN "lock" ELSE "serve"]
          /\ free' = [free EXCEPT ![p] = IF apply THEN PoolSize - 1 ELSE PoolSize]
  /\ UNCHANGED <<up, schema, apply, file, lock, queue, task, fault>>

(* Without the file, or with a blank one, nothing is applied: the process  *)
(* serves, whether there are tables or not.                                *)
NoSchema(p) ==
  /\ proc[p] = "lock" /\ p \notin file
  /\ proc' = [proc EXCEPT ![p] = "serve"]
  /\ free' = [free EXCEPT ![p] = @ + 1]
  /\ UNCHANGED <<up, schema, apply, file, lock, queue, task, fault>>

(* A slip: SELECT pg_try_advisory_lock, the answer is not looked at.       *)
TryLock(p) ==
  /\ proc[p] = "lock" /\ p \in file
  /\ lock' = IF lock = None THEN p ELSE lock
  /\ proc' = [proc EXCEPT ![p] = "apply"]
  /\ UNCHANGED <<up, schema, apply, file, free, queue, task, fault>>

(* SELECT pg_advisory_lock returns when the lock is free.                  *)
Lock(p) ==
  /\ proc[p] = "lock" /\ p \in file /\ lock = None
  /\ lock' = p
  /\ proc' = [proc EXCEPT ![p] = "apply"]
  /\ UNCHANGED <<up, schema, apply, file, free, queue, task, fault>>

(* A slip: CREATE TABLE without IF NOT EXISTS.                             *)
ApplyOnce(p) ==
  /\ proc[p] = "apply"
  /\ schema' = TRUE
  /\ proc' = [proc EXCEPT ![p] = IF schema THEN "failed" ELSE "unlock"]
  /\ UNCHANGED <<up, apply, file, lock, free, queue, task, fault>>

(* The statements of schema.sql are one transaction, and find their work   *)
(* done when it has been applied before (IF NOT EXISTS).                   *)
Apply(p) ==
  /\ proc[p] = "apply"
  /\ schema' = TRUE
  /\ proc' = [proc EXCEPT ![p] = "unlock"]
  /\ UNCHANGED <<up, apply, file, lock, free, queue, task, fault>>

ApplyFails(p) ==
  /\ proc[p] = "apply" /\ fault < MaxFault
  /\ fault' = fault + 1
  /\ proc' = [proc EXCEPT ![p] = "failed"]
  /\ UNCHANGED <<up, schema, apply, file, lock, free, queue, task>>

(* finally: the lock is given back, and the connection to the pool; then   *)
(* the application serves, or an exception ends the process.               *)
Unlock(p) ==
  /\ proc[p] \in {"unlock", "failed"}
  /\ lock' = IF lock = p THEN None ELSE lock
  /\ free' = [free EXCEPT ![p] = @ + 1]
  /\ proc' = [proc EXCEPT ![p] = IF @ = "unlock" THEN "serve" ELSE "off"]
  /\ UNCHANGED <<up, schema, apply, file, queue, task, fault>>

(* Shutdown: no new requests; when the last is answered the pool closes,   *)
(* which waits for connections that are out.                               *)
Stop(p) ==
  /\ proc[p] = "serve"
  /\ proc' = [proc EXCEPT ![p] = "closing"]
  /\ UNCHANGED <<up, schema, apply, file, lock, free, queue, task, fault>>

Close(p) ==
  /\ proc[p] = "closing" /\ Of(p) = {} /\ free[p] = PoolSize
  /\ proc' = [proc EXCEPT ![p] = "off"]
  /\ UNCHANGED <<up, schema, apply, file, lock, free, queue, task, fault>>
-----------------------------------------------------------------------------
(* The requests.                                                           *)

Arrive(r, p, n) ==
  /\ task[r] = Idle /\ proc[p] = "serve"
  /\ task' = [task EXCEPT ![r] = [proc |-> p, at |-> "next", left |-> n]]
  /\ UNCHANGED <<up, schema, apply, file, lock, proc, free, queue, fault>>

(* pool.acquire(): the task queues up for a connection.                    *)
Want(r) ==
  /\ task[r].at = "next"
  /\ task' = [task EXCEPT ![r].at = "wait"]
  /\ queue' = [queue EXCEPT ![task[r].proc] = Append(@, r)]
  /\ UNCHANGED <<up, schema, apply, file, lock, proc, free, fault>>

Acquire(p) ==
  /\ queue[p] # <<>> /\ free[p] > 0
  /\ task' = [task EXCEPT ![Head(queue[p])].at = "run"]
  /\ queue' = [queue EXCEPT ![p] = Tail(@)]
  /\ free' = [free EXCEPT ![p] = @ - 1]
  /\ UNCHANGED <<up, schema, apply, file, lock, proc, fault>>

After(w) == [w EXCEPT !.left = @ - 1, !.at = IF w.left > 1 THEN "next" ELSE "answer"]

(* A slip: the connection is kept for the next statement, which acquires   *)
(* another.                                                                *)
KeepConnection(r) ==
  LET p == task[r].proc IN
  /\ task[r].at = "run" /\ up /\ schema
  /\ task' = [task EXCEPT ![r] = After(@)]
  /\ free' = [free EXCEPT ![p] = IF task[r].left > 1 THEN @ ELSE @ + 1]
  /\ UNCHANGED <<up, schema, apply, file, lock, proc, queue, fault>>

(* The statement is done, and async with gives the connection back.        *)
Statement(r) ==
  LET p == task[r].proc IN
  /\ task[r].at = "run" /\ up /\ schema
  /\ task' = [task EXCEPT ![r] = After(@)]
  /\ free' = [free EXCEPT ![p] = @ + 1]
  /\ UNCHANGED <<up, schema, apply, file, lock, proc, queue, fault>>

(* A statement raises an exception, for want of its table for example, or  *)
(* there is no database to connect to: the handler gives up.               *)
Fails(r) ==
  LET p == task[r].proc IN
  /\ task[r].at = "run"
  /\ task' = [task EXCEPT ![r].at = "answer"]
  /\ free' = [free EXCEPT ![p] = @ + 1]
  /\ UNCHANGED <<up, schema, apply, file, lock, proc, queue, fault>>

Answer(r) ==
  /\ task[r].at = "answer"
  /\ task' = [task EXCEPT ![r] = Idle]
  /\ UNCHANGED <<up, schema, apply, file, lock, proc, free, queue, fault>>

(* The queue q without request r, which waits in it or does not.           *)
Without(q, r) ==
  IF \E k \in DOMAIN q : q[k] = r THEN RemoveAt(q, CHOOSE k \in DOMAIN q : q[k] = r) ELSE q

(* A slip: the connection of a cancelled statement stays taken.            *)
CancelLeaks(r) ==
  LET p == task[r].proc IN
  /\ task[r].at \in {"next", "wait", "run"}
  /\ task' = [task EXCEPT ![r] = Idle]
  /\ queue' = [queue EXCEPT ![p] = Without(@, r)]
  /\ UNCHANGED <<up, schema, apply, file, lock, proc, free, fault>>

(* A slip: cancellation gives a connection back that was only waited for.  *)
CancelReleases(r) ==
  LET p == task[r].proc IN
  /\ task[r].at \in {"next", "wait", "run"}
  /\ task' = [task EXCEPT ![r] = Idle]
  /\ free' = [free EXCEPT ![p] = IF task[r].at = "next" THEN @ ELSE @ + 1]
  /\ queue' = [queue EXCEPT ![p] = Without(@, r)]
  /\ UNCHANGED <<up, schema, apply, file, lock, proc, fault>>

(* The handler is cancelled at an await.                                   *)
Cancel(r) ==
  LET p == task[r].proc IN
  /\ task[r].at \in {"next", "wait", "run"}
  /\ task' = [task EXCEPT ![r] = Idle]
  /\ free' = [free EXCEPT ![p] = IF task[r].at = "run" THEN @ + 1 ELSE @]
  /\ queue' = [queue EXCEPT ![p] = Without(@, r)]
  /\ UNCHANGED <<up, schema, apply, file, lock, proc, fault>>
-----------------------------------------------------------------------------
(* Faults.                                                                 *)

(* A process is killed: its connections close, which frees the lock.       *)
Crash(p) ==
  /\ proc[p] # "off" /\ fault < MaxFault
  /\ fault' = fault + 1
  /\ lock' = IF lock = p THEN None ELSE lock
  /\ proc' = [proc EXCEPT ![p] = "off"]
  /\ queue' = [queue EXCEPT ![p] = <<>>]
  /\ task' = [r \in Task |-> IF task[r].proc = p THEN Idle ELSE task[r]]
  /\ UNCHANGED <<up, schema, apply, file, free>>

(* The database goes down: statements fail, an unfinished schema is rolled *)
(* back and its process ends, pools connect again when asked to.           *)
DatabaseDown ==
  /\ up /\ fault < MaxFault
  /\ up' = FALSE /\ fault' = fault + 1 /\ lock' = None
  /\ proc' = [p \in Proc |-> IF proc[p] \in {"lock", "apply", "unlock", "failed"} THEN "off"
                             ELSE proc[p]]
  /\ free' = [p \in Proc |-> IF proc[p] \in {"serve", "closing"} THEN PoolSize ELSE free[p]]
  /\ task' = [r \in Task |-> IF task[r].at = "run" THEN [task[r] EXCEPT !.at = "answer"]
                             ELSE task[r]]
  /\ UNCHANGED <<schema, apply, file, queue>>

DatabaseUp ==
  /\ ~up
  /\ up' = TRUE
  /\ UNCHANGED <<schema, apply, file, lock, proc, free, queue, task, fault>>
-----------------------------------------------------------------------------
Advance(p) == Connect(p) \/ NoSchema(p) \/ Apply(p) \/ Unlock(p) \/ Close(p) \/ Acquire(p)

Perform(r) == Want(r) \/ Statement(r) \/ Fails(r) \/ Answer(r)

Environment ==
  \/ \E p \in Proc : Begin(p) \/ Stop(p) \/ Crash(p) \/ ApplyFails(p)
  \/ \E r \in Task, p \in Proc, n \in 1 .. MaxStatement : Arrive(r, p, n)
  \/ \E r \in Task : Cancel(r)
  \/ DatabaseDown

Next ==
  \/ \E p \in Proc : Advance(p) \/ Lock(p)
  \/ \E r \in Task : Perform(r)
  \/ DatabaseUp \/ Environment

(* Processes and event loops run; systemd and Docker start workers and the *)
(* database again ("Restart=always"); PostgreSQL queues those who wait for *)
(* a lock.                                                                 *)
Fairness ==
  /\ \A p \in Proc : WF_vars(Advance(p)) /\ SF_vars(Lock(p))
  /\ \A p \in Worker : WF_vars(Begin(p))
  /\ \A r \in Task : WF_vars(Perform(r))
  /\ WF_vars(DatabaseUp)

Spec == Init /\ [][Next]_vars /\ Fairness
-----------------------------------------------------------------------------
(***************************************************************************)
(* Properties                                                              *)
(***************************************************************************)

(* The type of every variable.                                             *)
TypeOK ==
  /\ up \in BOOLEAN /\ schema \in BOOLEAN /\ apply \in BOOLEAN /\ file \subseteq Proc
  /\ lock \in Proc \cup {None}
  /\ proc \in [Proc -> Stage]
  /\ free \in [Proc -> 0 .. PoolSize]
  /\ queue \in [Proc -> Seq(Task)]
  /\ task \in [Task -> Work]
  /\ fault \in 0 .. MaxFault

(* README line 65, "Advisory lock prevents race conditions across multiple *)
(* uvicorn workers": no two processes apply schema.sql at the same time,   *)
(* whichever of them crash, fail or lose the database in between.          *)
SchemaAlone ==
  \A p, q \in Proc : p # q => ~(proc[p] = "apply" /\ proc[q] = "apply")

(* Who is told to apply schema.sql, and finds it, serves and stops with    *)
(* the tables in place.  Without the file or the order nothing is said:    *)
(* such a process serves all the same.                                     *)
ServedBySchema ==
  \A p \in file : apply /\ proc[p] \in {"serve", "closing"} => schema

(* No connection is lost: whatever requests fail, are cancelled or see the *)
(* database go, a pool can give out PoolSize connections when they are     *)
(* gone.                                                                   *)
PoolIsWhole ==
  \A p \in Proc : proc[p] \in {"serve", "closing"} => free[p] + Cardinality(Running(p)) = PoolSize

(* Every request ends, though more of them than there are connections need *)
(* several statements each: none holds a connection while it waits for     *)
(* one, so they never all wait for each other.                             *)
EveryRequestEnds == \A r \in Task : task[r].at # "idle" ~> task[r].at = "idle"

(* A worker always gets to serve (again), although others start, crash or  *)
(* run the schema at the same time, and die with the lock.                 *)
WorkersServe == \A p \in Worker : []<>(proc[p] = "serve")
=============================================================================
