------------------------------ MODULE Controller ------------------------------
(***************************************************************************)
(* controller.go: Run starts the four processors (processor.go) in two     *)
(* rounds, Stop shuts their queues, and readyz tells whether their         *)
(* informers have synced.                                                  *)
(*                                                                         *)
(* What module Processor says of one queue and its worker is taken for     *)
(* granted: here an object of the first listing is stored, announced,      *)
(* queued, taken and applied, and the question is which goroutines are     *)
(* there to do it.                                                         *)
(***************************************************************************)
CONSTANTS Sec, Ing, Others,   \* secrets, and the other kinds of objects, with ingresses
          Objects             \* the objects of each kind that are listed

ASSUME KindsAssumption == Ing \in Others /\ Sec \notin Others

Kinds == {Sec} \cup Others

VARIABLES stop,       \* stopCh is closed
          stopped,    \* Stop was called
          run,        \* where Run is
          defaults,   \* history: the secrets setDefaults saw
          runner,     \* the goroutine of processor.run, of each kind,
          informer,   \* of its informer and that one's listener,
          worker,     \* and of runWorker
          shut,       \* whether its queue is shut
          item        \* how far each object is

cvars == <<stop, stopped, run, defaults, runner, informer, worker, shut, item>>

Stages == {"api", "stored", "queued", "taken", "applied", "dropped"}

\* HasSynced of one informer: what was listed is in the store.
HasSynced(k) == informer[k] # "off" /\ \A o \in Objects : item[k][o] # "api"

\* Controller.HasSynced, and readyz's answer.
Ready == \A k \in Kinds : HasSynced(k)

Set(f, keys, v) == [k \in DOMAIN f |-> IF k \in keys THEN v ELSE f[k]]

\* Run's first statement is part of it.
CInit == /\ stop = FALSE
         /\ stopped = FALSE
         /\ run = "secSync"
         /\ defaults = "unset"
         /\ runner = [k \in Kinds |-> IF k = Sec THEN "running" ELSE "off"]
         /\ informer = runner
         /\ worker = [k \in Kinds |-> "off"]
         /\ shut = [k \in Kinds |-> FALSE]
         /\ item = [k \in Kinds |-> [o \in Objects |-> "api"]]

-----------------------------------------------------------------------------
(* Run.  Whether WaitForCacheSync saw the stores synced or gave up because *)
(* of stopCh, Run goes on alike.                                           *)

\* Mutant: one round, in which every informer is started.
SyncSecretsOneRound ==
  /\ run = "secSync"
  /\ HasSynced(Sec) \/ stop
  /\ run' = "defaults"
  /\ worker' = [worker EXCEPT ![Sec] = "running"]
  /\ runner' = Set(runner, Others, "running")
  /\ informer' = Set(informer, Others, "running")
  /\ UNCHANGED <<stop, stopped, defaults, shut, item>>

\* Mutant: the worker is left to the second round, which is about the others.
SyncSecretsNoWorker ==
  /\ run = "secSync"
  /\ HasSynced(Sec) \/ stop
  /\ run' = "defaults"
  /\ UNCHANGED <<stop, stopped, defaults, runner, informer, worker, shut, item>>

SyncSecrets ==
  /\ run = "secSync"
  /\ HasSynced(Sec) \/ stop
  /\ run' = "defaults"
  /\ worker' = [worker EXCEPT ![Sec] = "running"]
  /\ UNCHANGED <<stop, stopped, defaults, runner, informer, shut, item>>

\* Mutant: only the informers are run, without what shuts their queues.
SetDefaultsInformersOnly ==
  /\ run = "defaults"
  /\ run' = "allSync"
  /\ defaults' = IF HasSynced(Sec) THEN "all" ELSE "some"
  /\ informer' = Set(informer, Others, "running")
  /\ UNCHANGED <<stop, stopped, runner, worker, shut, item>>

\* setDefaults, and the other processors.
SetDefaults ==
  /\ run = "defaults"
  /\ run' = "allSync"
  /\ defaults' = IF HasSynced(Sec) THEN "all" ELSE "some"
  /\ runner' = Set(runner, Others, "running")
  /\ informer' = Set(informer, Others, "running")
  /\ UNCHANGED <<stop, stopped, worker, shut, item>>

SyncAll ==
  /\ run = "allSync"
  /\ Ready \/ stop
  /\ run' = "wait"
  /\ worker' = Set(worker, Others, "running")
  /\ UNCHANGED <<stop, stopped, defaults, runner, informer, shut, item>>

Return ==
  /\ run = "wait"
  /\ stop
  /\ run' = "ended"
  /\ UNCHANGED <<stop, stopped, defaults, runner, informer, worker, shut, item>>

RunStep == SyncSecrets \/ SetDefaults \/ SyncAll \/ Return

\* Stop, from outside.  It never sets stopping, and nothing but the queues learns
\* of it; main does not call it.
Stop ==
  /\ stopped' = TRUE
  /\ shut' = [k \in Kinds |-> TRUE]
  /\ UNCHANGED <<stop, run, defaults, runner, informer, worker, item>>

-----------------------------------------------------------------------------
(* The processor of one kind.                                              *)

To(k, o, stage) == item' = [item EXCEPT ![k][o] = stage]

\* The informer's listing reaches the store.
Store(k, o) ==
  /\ informer[k] = "running"
  /\ item[k][o] = "api"
  /\ To(k, o, "stored")
  /\ UNCHANGED <<stop, stopped, run, defaults, runner, informer, worker, shut>>

\* The handler adds the key, which a queue that is shut ignores.
Notify(k, o) ==
  /\ informer[k] = "running"
  /\ item[k][o] = "stored"
  /\ To(k, o, IF shut[k] THEN "dropped" ELSE "queued")
  /\ UNCHANGED <<stop, stopped, run, defaults, runner, informer, worker, shut>>

EndInformer(k) ==
  /\ informer[k] = "running"
  /\ stop
  /\ informer' = [informer EXCEPT ![k] = "ended"]
  /\ UNCHANGED <<stop, stopped, run, defaults, runner, worker, shut, item>>

\* Mutant: processor.run returns without shutting the queue.
EndRunnerNoShutDown(k) ==
  /\ runner[k] = "running"
  /\ stop
  /\ runner' = [runner EXCEPT ![k] = "ended"]
  /\ UNCHANGED <<stop, stopped, run, defaults, informer, worker, shut, item>>

\* processor.run returns, and its deferred ShutDown.
EndRunner(k) ==
  /\ runner[k] = "running"
  /\ stop
  /\ runner' = [runner EXCEPT ![k] = "ended"]
  /\ shut' = [shut EXCEPT ![k] = TRUE]
  /\ UNCHANGED <<stop, stopped, run, defaults, informer, worker, item>>

Take(k, o) ==
  /\ worker[k] = "running"
  /\ \A p \in Objects : item[k][p] # "taken"
  /\ item[k][o] = "queued"
  /\ To(k, o, "taken")
  /\ UNCHANGED <<stop, stopped, run, defaults, runner, informer, worker, shut>>

Apply(k, o) ==
  /\ item[k][o] = "taken"
  /\ To(k, o, "applied")
  /\ UNCHANGED <<stop, stopped, run, defaults, runner, informer, worker, shut>>

\* A queue that is shut and empty ends its worker.
EndWorker(k) ==
  /\ worker[k] = "running"
  /\ shut[k]
  /\ \A o \in Objects : item[k][o] \notin {"queued", "taken"}
  /\ worker' = [worker EXCEPT ![k] = "ended"]
  /\ UNCHANGED <<stop, stopped, run, defaults, runner, informer, shut, item>>

ItemStep(k, o) == Store(k, o) \/ Notify(k, o) \/ Take(k, o) \/ Apply(k, o)
EndStep(k) == EndInformer(k) \/ EndRunner(k) \/ EndWorker(k)

CNext == \/ RunStep
         \/ Stop
         \/ \E k \in Kinds : EndStep(k) \/ \E o \in Objects : ItemStep(k, o)

\* The API server answers; nobody owes a stop.
CFairness ==
  /\ WF_cvars(RunStep)
  /\ \A k \in Kinds : /\ WF_cvars(EndInformer(k))
                      /\ WF_cvars(EndRunner(k))
                      /\ WF_cvars(EndWorker(k))
                      /\ \A o \in Objects : WF_cvars(ItemStep(k, o))

-----------------------------------------------------------------------------
(* Properties.                                                             *)

\* The variables' types; a processor's informer never runs without the goroutine
\* that shuts its queue.
CTypeOK ==
  /\ stop \in BOOLEAN /\ stopped \in BOOLEAN
  /\ run \in {"secSync", "defaults", "allSync", "wait", "ended"}
  /\ defaults \in {"unset", "some", "all"}
  /\ runner \in [Kinds -> {"off", "running", "ended"}]
  /\ informer \in [Kinds -> {"off", "running", "ended"}]
  /\ worker \in [Kinds -> {"off", "running", "ended"}]
  /\ shut \in [Kinds -> BOOLEAN]
  /\ \A k \in Kinds : informer[k] # "off" => runner[k] # "off"
  /\ item \in [Kinds -> [Objects -> Stages]]

\* controller.go:341: "we need the secrets cache up to preload the default
\* secrets."  Unless stopCh is closed by then, setDefaults sees every secret; no
\* ingress is applied before it, and readyz does not answer OK before it either,
\* although it looks at the informers only.
DefaultsFirst ==
  /\ defaults = "some" => stop
  /\ Ready => defaults # "unset"
  /\ \A o \in Objects : item[Ing][o] \in {"taken", "applied"} => defaults # "unset"

\* readyz answers OK before the workers have applied what was listed, but then
\* they do, unless the controller is stopped one way or the other.
ReadyServes ==
  Ready ~> \/ \A k \in Kinds, o \in Objects : item[k][o] = "applied"
           \/ stop \/ stopped

\* Closing stopCh ends Run and every goroutine it started, wherever Run is;
\* Stop ends the workers, although Run may not have started them.
AllEnd ==
  /\ stop ~> /\ run = "ended"
             /\ \A k \in Kinds : "running" \notin {runner[k], informer[k], worker[k]}
  /\ stopped ~> [](\A k \in Kinds : worker[k] # "running")

=============================================================================
