------------------------------ MODULE Main_proofs ------------------------------
(***************************************************************************)
(* Proofs about Main and the Controller in it, for any kinds and objects   *)
(* and any number of requests.                                             *)
(***************************************************************************)
EXTENDS Main, TLAPS

\* What main has done by the time it is where it is.
Shutdowns ==
  /\ main # "serving" => listener["http"] = "closed"
  /\ main \in {"https", "returned"} => active["http"] = 0 /\ listener["https"] = "closed"
  /\ main = "returned" => active["https"] = 0
  /\ stop => main = "returned"

\* Nothing of a processor ends but by stopCh or Stop.
Endings ==
  \A k \in Kinds : /\ shut[k] => stop \/ stopped
                   /\ worker[k] = "ended" => shut[k]
                   /\ informer[k] = "ended" => stop

\* How far Run is, and what may have happened by then.
Rounds ==
  /\ (run \in {"secSync", "defaults"}) <=> (defaults = "unset")
  /\ run = "defaults" => HasSynced(Sec) \/ stop
  /\ defaults = "some" => stop
  /\ defaults = "unset" => \A k \in Others : informer[k] = "off"
  /\ \A k \in Kinds : informer[k] = "off" => \A o \in Objects : item[k][o] = "api"

IInv == TypeOK /\ Shutdowns /\ Endings /\ Rounds

-----------------------------------------------------------------------------

\* The process starts.
LEMMA InitInv == Init => IInv
<1> SUFFICES ASSUME Init PROVE IInv
  OBVIOUS
<1>1. Sec \in Kinds /\ Others \subseteq Kinds /\ Sec \notin Others
  BY KindsAssumption DEF Kinds
<1>2. CTypeOK
  BY DEF Init, CInit, CTypeOK, Stages
<1>3. TypeOK
  <2>1. 0 \in 0..MaxActive
    BY MaxActiveAssumption
  <2>2. active \in [Draining -> 0..MaxActive]
    BY <2>1 DEF Init
  <2>3. QED
    BY <1>2, <2>2 DEF Init, TypeOK
<1>4. Shutdowns /\ Endings
  BY DEF Init, CInit, Shutdowns, Endings
<1>5. Rounds
  BY <1>1 DEF Init, CInit, Rounds, HasSynced
<1>6. QED
  BY <1>3, <1>4, <1>5 DEF IInv

\* What the controller's own steps do, whatever main does.
LEMMA ControllerStep ==
  ASSUME IInv, CNext, UNCHANGED mvars
  PROVE  IInv'
<1> USE KindsAssumption DEF Kinds
<1>1. CTypeOK'
  <2> USE DEF CTypeOK, IInv, TypeOK
  <2>1. CASE SyncSecrets
    BY <2>1 DEF SyncSecrets
  <2>2. CASE SetDefaults
    BY <2>2 DEF SetDefaults, Set
  <2>3. CASE SyncAll
    BY <2>3 DEF SyncAll, Set
  <2>4. CASE Return
    BY <2>4 DEF Return
  <2>5. CASE Stop
    BY <2>5 DEF Stop
  <2>6. ASSUME NEW k \in Kinds, EndStep(k)
        PROVE  CTypeOK'
    <3>1. CASE EndInformer(k)
      BY <3>1 DEF EndInformer
    <3>2. CASE EndRunner(k)
      BY <3>2 DEF EndRunner
    <3>3. CASE EndWorker(k)
      BY <3>3 DEF EndWorker
    <3>4. QED
      BY <2>6, <3>1, <3>2, <3>3 DEF EndStep
  <2>7. ASSUME NEW k \in Kinds, NEW o \in Objects, ItemStep(k, o)
        PROVE  CTypeOK'
    <3>1. CASE Store(k, o)
      BY <3>1 DEF Store, To, Stages
    <3>2. CASE Notify(k, o)
      BY <3>2 DEF Notify, To, Stages
    <3>3. CASE Take(k, o)
      BY <3>3 DEF Take, To, Stages
    <3>4. CASE Apply(k, o)
      BY <3>4 DEF Apply, To, Stages
    <3>5. QED
      BY <2>7, <3>1, <3>2, <3>3, <3>4 DEF ItemStep
  <2>8. QED
    BY <2>1, <2>2, <2>3, <2>4, <2>5, <2>6, <2>7 DEF CNext, RunStep
<1>2. TypeOK'
  BY <1>1 DEF IInv, TypeOK, mvars
<1>3. stop' = stop
  BY DEF CNext, RunStep, SyncSecrets, SetDefaults, SyncAll, Return, Stop, EndStep, EndInformer,
         EndRunner, EndWorker, ItemStep, Store, Notify, Take, Apply
<1>4. Shutdowns'
  BY <1>3 DEF IInv, Shutdowns, mvars
<1>5. Endings'
  <2> USE DEF IInv, Endings, TypeOK, CTypeOK
  <2>1. CASE RunStep
    BY <2>1 DEF RunStep, SyncSecrets, SetDefaults, SyncAll, Return, Set
  <2>2. CASE Stop
    BY <2>2 DEF Stop
  <2>3. ASSUME NEW k \in Kinds, EndStep(k)
        PROVE  Endings'
    BY <2>3 DEF EndStep, EndInformer, EndRunner, EndWorker
  <2>4. ASSUME NEW k \in Kinds, NEW o \in Objects, ItemStep(k, o)
        PROVE  Endings'
    BY <2>4 DEF ItemStep, Store, Notify, Take, Apply
  <2>5. QED
    BY <2>1, <2>2, <2>3, <2>4 DEF CNext
<1>6. Rounds'
  <2> USE DEF IInv, Rounds, TypeOK, CTypeOK, HasSynced
  <2>1. CASE SyncSecrets
    BY <2>1 DEF SyncSecrets
  <2>2. CASE SetDefaults
    BY <2>2 DEF SetDefaults, Set
  <2>3. CASE SyncAll
    BY <2>3 DEF SyncAll
  <2>4. CASE Return
    BY <2>4 DEF Return
  <2>5. CASE Stop
    BY <2>5 DEF Stop
  <2>6. ASSUME NEW k \in Kinds, EndStep(k)
        PROVE  Rounds'
    BY <2>6 DEF EndStep, EndInformer, EndRunner, EndWorker
  <2>7. ASSUME NEW k \in Kinds, NEW o \in Objects, ItemStep(k, o)
        PROVE  Rounds'
    BY <2>7 DEF ItemStep, Store, Notify, Take, Apply, To
  <2>8. QED
    BY <2>1, <2>2, <2>3, <2>4, <2>5, <2>6, <2>7 DEF CNext, RunStep
<1>7. QED
  BY <1>2, <1>4, <1>5, <1>6 DEF IInv

\* What main's steps do, which leave the controller alone but for stopCh.
LEMMA MainsStep ==
  ASSUME IInv,
         Signal \/ Cancel \/ MainStep \/ (\E s \in Servers : ListenerFails(s))
           \/ (\E s \in Draining : Begin(s) \/ Finish(s))
  PROVE  IInv'
<1>1. /\ UNCHANGED <<stopped, run, defaults, runner, informer, worker, shut, item>>
      /\ stop' = stop \/ stop' = TRUE
  <2>1. CASE Signal \/ Cancel
    BY <2>1 DEF Signal, Cancel, cvars
  <2>2. CASE MainStep
    BY <2>2 DEF MainStep, ShutdownHTTP, ShutdownHTTPS, CloseStop, cvars
  <2>3. ASSUME NEW s \in Servers, ListenerFails(s)
        PROVE  UNCHANGED cvars
    BY <2>3 DEF ListenerFails
  <2>4. ASSUME NEW s \in Draining, Begin(s) \/ Finish(s)
        PROVE  UNCHANGED cvars
    BY <2>4 DEF Begin, Finish
  <2>5. QED
    BY <2>1, <2>2, <2>3, <2>4 DEF cvars
<1>2. stop' \in BOOLEAN /\ (stop => stop')
  BY <1>1 DEF IInv, TypeOK, CTypeOK
<1>3. Endings' /\ Rounds' /\ CTypeOK'
  BY <1>1, <1>2 DEF IInv, TypeOK, CTypeOK, Endings, Rounds, HasSynced
<1>4. TypeOK' /\ Shutdowns'
  <2> USE MaxActiveAssumption DEF IInv, TypeOK, Shutdowns, Servers, Draining
  <2>1. CASE Signal \/ Cancel
    <3>1. ctx' \in BOOLEAN /\ signalled' \in BOOLEAN
      BY <2>1 DEF Signal, Cancel
    <3>2. UNCHANGED <<stop, main, listener, active>>
      BY <2>1 DEF Signal, Cancel, cvars
    <3>3. QED
      BY <1>3, <3>1, <3>2
  <2>2. CASE ShutdownHTTP
    BY <1>3, <2>2 DEF ShutdownHTTP, ShutdownBegins, cvars
  <2>3. CASE ShutdownHTTPS
    BY <1>3, <2>3 DEF ShutdownHTTPS, ShutdownBegins, cvars
  <2>4. CASE CloseStop
    BY <1>3, <2>4 DEF CloseStop
  <2>5. ASSUME NEW s \in Servers, ListenerFails(s)
        PROVE  TypeOK' /\ Shutdowns'
    BY <1>3, <2>5 DEF ListenerFails, cvars
  <2>6. ASSUME NEW s \in Draining, Begin(s)
        PROVE  TypeOK' /\ Shutdowns'
    BY <1>3, <2>6 DEF Begin, cvars
  <2>7. ASSUME NEW s \in Draining, Finish(s)
        PROVE  TypeOK' /\ Shutdowns'
    BY <1>3, <2>7 DEF Finish, cvars
  <2>8. QED
    BY <2>1, <2>2, <2>3, <2>4, <2>5, <2>6, <2>7 DEF MainStep
<1>5. QED
  BY <1>3, <1>4 DEF IInv

\* A step is the controller's or main's.
LEMMA StepInv == IInv /\ [Next]_vars => IInv'
<1> SUFFICES ASSUME IInv, [Next]_vars PROVE IInv'
  OBVIOUS
<1>1. CASE CNext /\ UNCHANGED mvars
  BY <1>1, ControllerStep
<1>2. CASE Signal \/ Cancel \/ MainStep \/ (\E s \in Servers : ListenerFails(s))
             \/ (\E s \in Draining : Begin(s) \/ Finish(s))
  BY <1>2, MainsStep
<1>3. CASE UNCHANGED vars
  BY <1>3 DEF vars, cvars, mvars, IInv, TypeOK, CTypeOK, Shutdowns, Endings, Rounds, HasSynced
<1>4. QED
  BY <1>1, <1>2, <1>3 DEF Next

\* So the invariant always holds.
LEMMA AlwaysInv == Spec => []IInv
  BY InitInv, StepInv, PTL DEF Spec

-----------------------------------------------------------------------------

\* The types of both modules' variables.
THEOREM TypesHold == Spec => []TypeOK
<1>1. IInv => TypeOK
  BY DEF IInv
<1>2. QED
  BY <1>1, AlwaysInv, PTL

\* main.go:246-250: a request of the http or the https server is served from
\* tables that are kept up to date, also while the process is shutting down.
THEOREM LiveTablesHold == Spec => []LiveTables
<1>1. IInv => LiveTables
  <2> SUFFICES ASSUME IInv, NEW s \in Draining, active[s] > 0, ~stopped, NEW k \in Kinds
               PROVE  ~shut[k] /\ worker[k] # "ended" /\ informer[k] # "ended"
    BY DEF LiveTables
  <2>1. active[s] # 0
    BY MaxActiveAssumption DEF IInv, TypeOK
  <2>2. ~stop
    BY <2>1 DEF IInv, Shutdowns, Draining
  <2>3. QED
    BY <2>2 DEF IInv, Endings
<1>2. QED
  BY <1>1, AlwaysInv, PTL

\* controller.go:340-349: the default certificates come from a complete listing
\* of the secrets, and before the first ingress and the first OK of readyz,
\* however the kinds' goroutines are scheduled.
THEOREM DefaultsFirstHolds == Spec => []DefaultsFirst
<1>1. IInv => DefaultsFirst
  <2> SUFFICES ASSUME IInv PROVE DefaultsFirst
    OBVIOUS
  <2>1. Ing \in Kinds /\ Ing \in Others
    BY KindsAssumption DEF Kinds
  <2>2. QED
    BY <2>1 DEF IInv, Rounds, DefaultsFirst, Ready, HasSynced
<1>2. QED
  BY <1>1, AlwaysInv, PTL

=============================================================================
