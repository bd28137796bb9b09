------------------------------ MODULE Processor ------------------------------
(***************************************************************************)
(* processor.go: one shared informer, one client-go work queue and one     *)
(* worker goroutine, which bring what the API server says of one resource  *)
(* type into the table kept by an updater.                                 *)
(*                                                                         *)
(*   informer --(listener FIFO)--> event handler --queue.Add--> work queue *)
(*   work queue --Get--> worker: GetByKey, addItem/delItem, Forget, Done   *)
(*                                                                         *)
(* Three goroutines share the queue: the informer's listener, the worker   *)
(* and the one in run(), which shuts the queue down.  Each action is one   *)
(* of their steps between two points where another goroutine may act.      *)
(*                                                                         *)
(* The work queue and the informer are library code (client-go v0.20),     *)
(* modelled from how processor.go drives them.                             *)
(***************************************************************************)
EXTENDS Naturals, Sequences, Functions

CONSTANTS Keys,         \* "namespace/name" keys of one resource type
          NoKey,        \* the worker holds no key
          MaxVersion,   \* bound on the versions the API server issues per key
          MaxEvents     \* bound on the notifications waiting in the listener

ASSUME NoKeyAssumption == NoKey \notin Keys
ASSUME MaxVersionAssumption == MaxVersion \in Nat
ASSUME MaxEventsAssumption == MaxEvents \in Nat

Absent == 0
Versions == 0..MaxVersion

VARIABLES indexer,       \* informer.GetIndexer(): the version of every key
          version,       \* the last version the API server issued for a key
          events,        \* the listener's FIFO of notifications: keys
          queue,         \* the work queue's order of keys
          dirty,         \* the work queue's set of keys to process
          processing,    \* the work queue's set of keys being processed
          shuttingDown,  \* queue.ShutDown was called
          pc,            \* what the worker does next
          key,           \* processNextItem's key
          obj,           \* processItem's obj, exists: Absent when it is not
          view           \* the version of each key last applied to the table

informerVars == <<indexer, version, events>>
queueVars == <<queue, dirty, processing, shuttingDown>>
workerVars == <<pc, key, obj>>
vars == <<informerVars, queueVars, workerVars, view>>

PCs == {"get", "read", "update", "done", "exited"}

Init == /\ indexer = [k \in Keys |-> Absent]
        /\ version = [k \in Keys |-> Absent]
        /\ events = <<>>
        /\ queue = <<>>
        /\ dirty = {}
        /\ processing = {}
        /\ shuttingDown = FALSE
        /\ pc = "get"
        /\ key = NoKey
        /\ obj = Absent
        /\ view = [k \in Keys |-> Absent]

-----------------------------------------------------------------------------
(* The informer.                                                           *)

\* The store changes first and the notification is queued for the listener.
\* A relist may deliver again the version that is already in the store.
InformerUpdate(k) ==
  /\ Len(events) < MaxEvents
  /\ \/ /\ version[k] < MaxVersion
        /\ version' = [version EXCEPT ![k] = @ + 1]
        /\ indexer' = [indexer EXCEPT ![k] = version[k] + 1]
     \/ /\ indexer[k] # Absent
        /\ indexer' = [indexer EXCEPT ![k] = Absent]
        /\ UNCHANGED version
     \/ /\ indexer[k] # Absent
        /\ UNCHANGED <<indexer, version>>
  /\ events' = Append(events, k)
  /\ UNCHANGED <<queueVars, workerVars, view>>

-----------------------------------------------------------------------------
(* The work queue.                                                         *)

Add(k) ==
  IF shuttingDown \/ k \in dirty
  THEN UNCHANGED <<queue, dirty>>
  ELSE /\ dirty' = dirty \cup {k}
       /\ queue' = IF k \in processing THEN queue ELSE Append(queue, k)

Done(k) ==
  /\ processing' = processing \ {k}
  /\ queue' = IF k \in dirty THEN Append(queue, k) ELSE queue

\* Mutant: there is no UpdateFunc.
HandleEventNoUpdate ==
  /\ events # <<>>
  /\ events' = Tail(events)
  /\ IF view[Head(events)] = Absent THEN Add(Head(events)) ELSE UNCHANGED <<queue, dirty>>
  /\ UNCHANGED <<indexer, version, processing, shuttingDown, workerVars, view>>

\* AddFunc, UpdateFunc and DeleteFunc all queue the key, and only the key.
HandleEvent ==
  /\ events # <<>>
  /\ events' = Tail(events)
  /\ Add(Head(events))
  /\ UNCHANGED <<indexer, version, processing, shuttingDown, workerVars, view>>

\* run() returns when stopChan is closed: the deferred call.
ShutDown ==
  /\ ~shuttingDown
  /\ shuttingDown' = TRUE
  /\ UNCHANGED <<informerVars, queue, dirty, processing, workerVars, view>>

-----------------------------------------------------------------------------
(* The worker: processNextItem, called by runWorker until it returns false. *)

Get ==
  /\ pc = "get"
  /\ queue # <<>>
  /\ key' = Head(queue)
  /\ queue' = Tail(queue)
  /\ processing' = processing \cup {Head(queue)}
  /\ dirty' = dirty \ {Head(queue)}
  /\ pc' = "read"
  /\ UNCHANGED <<informerVars, shuttingDown, obj, view>>

\* Mutant: what Get returns of a queue that was shut down is taken for a key.
QuitUnchecked ==
  /\ pc = "get"
  /\ queue = <<>>
  /\ shuttingDown
  /\ processing' = processing \cup {key}
  /\ pc' = "done"
  /\ UNCHANGED <<informerVars, queue, dirty, shuttingDown, key, obj, view>>

\* Mutant: runWorker ignores what processNextItem returns.
QuitIgnored ==
  /\ pc = "get"
  /\ queue = <<>>
  /\ shuttingDown
  /\ UNCHANGED vars

Quit ==
  /\ pc = "get"
  /\ queue = <<>>
  /\ shuttingDown
  /\ pc' = "exited"
  /\ UNCHANGED <<informerVars, queueVars, key, obj, view>>

\* Mutant: the object is read from another cache, which may lag behind.
ReadLagging ==
  /\ pc = "read"
  /\ obj' \in 0..indexer[key]
  /\ pc' = "update"
  /\ UNCHANGED <<informerVars, queueVars, key, view>>

\* processItem's GetByKey: the store as it is now, not as it was announced.
ReadIndexer ==
  /\ pc = "read"
  /\ obj' = indexer[key]
  /\ pc' = "update"
  /\ UNCHANGED <<informerVars, queueVars, key, view>>

AddItem ==
  /\ pc = "update"
  /\ obj # Absent
  /\ view' = [view EXCEPT ![key] = obj]
  /\ pc' = "done"
  /\ UNCHANGED <<informerVars, queueVars, key, obj>>

\* GetByKey returned no object, so delItem is called with a nil interface:
\* each updater's type assertion fails and it removes nothing.
DelItem ==
  /\ pc = "update"
  /\ obj = Absent
  /\ pc' = "done"
  /\ UNCHANGED <<informerVars, queueVars, key, obj, view>>

\* Mutant: Done is not called.
FinishNotDone ==
  /\ pc = "done"
  /\ key' = NoKey
  /\ obj' = Absent
  /\ pc' = "get"
  /\ UNCHANGED <<informerVars, queueVars, view>>

\* retries is never set, so an error is forgotten like a success and never
\* requeued; the deferred Done queues the key again if it was added meanwhile.
Finish ==
  /\ pc = "done"
  /\ Done(key)
  /\ key' = NoKey
  /\ obj' = Absent
  /\ pc' = "get"
  /\ UNCHANGED <<informerVars, dirty, shuttingDown, view>>

Worker == Get \/ Quit \/ ReadIndexer \/ AddItem \/ DelItem \/ Finish

Next == \/ \E k \in Keys : InformerUpdate(k)
        \/ HandleEvent
        \/ ShutDown
        \/ Worker

\* The listener and the worker are goroutines that the runtime schedules; the
\* API server owes no change and nobody owes the controller a stop.
Fairness == WF_vars(HandleEvent) /\ WF_vars(Worker)

Spec == Init /\ [][Next]_vars /\ Fairness

-----------------------------------------------------------------------------
(* Properties.                                                             *)

\* The variables' types: keys are keys of this resource type, versions are
\* versions the API server issued.
TypeOK ==
  /\ indexer \in [Keys -> Versions]
  /\ version \in [Keys -> Versions]
  /\ events \in Seq(Keys)
  /\ queue \in Seq(Keys)
  /\ dirty \in SUBSET Keys
  /\ processing \in SUBSET Keys
  /\ shuttingDown \in BOOLEAN
  /\ pc \in PCs
  /\ key \in Keys \cup {NoKey}
  /\ obj \in Versions
  /\ view \in [Keys -> Versions]

Busy == pc \in {"read", "update", "done"}

\* The work queue as processor.go drives it: no key is queued twice, a key is
\* queued exactly when it is dirty and not being processed, what is being
\* processed is the worker's one key, and a worker that has quit after a stop
\* left no accepted key behind.
QueueDisciplined ==
  /\ IsInjective(queue)
  /\ Range(queue) = dirty \ processing
  /\ processing = IF Busy THEN {key} ELSE {}
  /\ pc = "exited" => shuttingDown /\ dirty = {}

\* The keys that somebody will still look at: announced, queued, or taken and
\* about to be read.
Owed == Range(events) \cup dirty \cup (IF pc = "read" THEN {key} ELSE {})

\* No lost update: as long as the table does not show the version in the
\* store, somebody will still read that key, or the worker is about to apply
\* exactly this version - whatever the handler, the worker and the informer
\* did in between.  Only a stop ends the promise.
NoLostUpdate ==
  \A k \in Keys :
    indexer[k] # Absent /\ view[k] # indexer[k] =>
      \/ k \in Owed
      \/ pc = "update" /\ key = k /\ obj = indexer[k]
      \/ shuttingDown

\* What is in the store is the newest version or nothing, the table shows no
\* version that was never issued, and what the worker is about to apply is not
\* older than what the table shows.
VersionsInOrder ==
  /\ \A k \in Keys : /\ indexer[k] \in {Absent, version[k]}
                     /\ view[k] <= version[k]
  /\ pc = "update" /\ obj # Absent =>
       /\ view[key] <= obj
       /\ obj <= version[key]

\* The table never goes back to an older version of an object, although an
\* event says nothing about the version it announced: it can only be replaced
\* by a newer one, or removed.
NeverBackwards == [][\A k \in Keys : view'[k] >= view[k] \/ view'[k] = Absent]_vars

\* Every version that reaches the store is shown by the table in the end, or a
\* newer one is, unless the object is deleted or the controller stops.
Reconciles ==
  \A k \in Keys : \A v \in Versions \ {Absent} :
    indexer[k] = v ~> (view[k] >= v \/ indexer[k] = Absent \/ shuttingDown)

\* After a stop the worker drains the queue and returns.
Drains == shuttingDown ~> pc = "exited"

\* The processor is a reconciler: the debts are the keys somebody will still
\* look at, what is held is what the worker read and has not applied.
R == INSTANCE Reconciler WITH
       owed <- Owed,
       held <- IF pc = "update" THEN {[key |-> key, obj |-> obj]} ELSE {},
       closed <- shuttingDown

RSpec == R!Spec

\* ingress.go:25 says the table "maps hostnames to the ingresses that use
\* them", and ingress.go:475 logs "ingress removed": when nothing is left to
\* do, a deleted object would be gone from the table.
NoGhosts ==
  events = <<>> /\ queue = <<>> /\ pc = "get" /\ ~shuttingDown =>
    \A k \in Keys : indexer[k] = Absent => view[k] = Absent
=============================================================================
