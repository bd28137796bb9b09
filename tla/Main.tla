---------------------------------- MODULE Main ----------------------------------
(***************************************************************************)
(* cmd/minke/main.go: the servers around a controller, and how the process *)
(* ends: on a signal, or on the failure of a listener.                     *)
(*                                                                         *)
(* main's return ends the process.  The goroutines of the controller may   *)
(* go on after it here, as they do in the tests, where the caller of Run   *)
(* outlives it; nothing below depends on their being cut off.              *)
(***************************************************************************)
EXTENDS Controller, Naturals

CONSTANT MaxActive      \* bound on the requests a server has in flight

ASSUME MaxActiveAssumption == MaxActive \in Nat

\* The servers that are shut down one after the other, and all of them.
Draining == {"http", "https"}
Servers == Draining \cup {"admin", "http3"}

VARIABLES main,        \* where main is
          ctx,         \* the context is cancelled
          signalled,   \* a signal has arrived
          listener,    \* each server's
          active       \* the requests in flight of each server that is drained

mvars == <<main, ctx, signalled, listener, active>>
vars == <<cvars, mvars>>

Init == /\ CInit
        /\ main = "serving"
        /\ ctx = FALSE
        /\ signalled = FALSE
        /\ listener = [s \in Servers |-> "open"]
        /\ active = [s \in Draining |-> 0]

-----------------------------------------------------------------------------
(* Signals, listeners and requests.                                        *)

Signal == /\ ~signalled
          /\ signalled' = TRUE
          /\ UNCHANGED <<cvars, main, ctx, listener, active>>

\* The goroutine that waits for a signal takes one and ends: another signal has
\* no effect.
Cancel == /\ signalled /\ ~ctx
          /\ ctx' = TRUE
          /\ UNCHANGED <<cvars, main, signalled, listener, active>>

\* Mutant: an error of the https listener is only logged, too.
ListenerFailsLogged(s) ==
  /\ listener[s] = "open"
  /\ listener' = [listener EXCEPT ![s] = "failed"]
  /\ ctx' = (ctx \/ s \notin Draining)
  /\ UNCHANGED <<cvars, main, signalled, active>>

\* The error group cancels the context with the first error; the http server's
\* goroutine returns none.
ListenerFails(s) ==
  /\ listener[s] = "open"
  /\ listener' = [listener EXCEPT ![s] = "failed"]
  /\ ctx' = (ctx \/ s # "http")
  /\ UNCHANGED <<cvars, main, signalled, active>>

\* A connection that was accepted outlives its listener, until the server is shut
\* down.
Begin(s) == /\ listener[s] # "closed"
            /\ active[s] < MaxActive
            /\ active' = [active EXCEPT ![s] = @ + 1]
            /\ UNCHANGED <<cvars, main, ctx, signalled, listener>>

Finish(s) == /\ active[s] > 0
             /\ active' = [active EXCEPT ![s] = @ - 1]
             /\ UNCHANGED <<cvars, main, ctx, signalled, listener>>

-----------------------------------------------------------------------------
(* main, once it serves.                                                   *)

\* Shutdown ends new requests and then waits for those in flight, without a limit.
ShutdownBegins(s) == listener' = [listener EXCEPT ![s] = "closed"]

ShutdownHTTP == /\ main = "serving"
                /\ ctx
                /\ main' = "http"
                /\ ShutdownBegins("http")
                /\ UNCHANGED <<cvars, ctx, signalled, active>>

\* Mutant: the servers are closed without waiting for their requests.
ShutdownHTTPSNoWait == /\ main = "http"
                       /\ main' = "https"
                       /\ ShutdownBegins("https")
                       /\ UNCHANGED <<cvars, ctx, signalled, active>>

ShutdownHTTPS == /\ main = "http"
                 /\ active["http"] = 0
                 /\ main' = "https"
                 /\ ShutdownBegins("https")
                 /\ UNCHANGED <<cvars, ctx, signalled, active>>

\* Then the http3 server, whose requests are not waited for here, and stop.
CloseStop == /\ main = "https"
             /\ active["https"] = 0
             /\ main' = "returned"
             /\ stop' = TRUE
             /\ UNCHANGED <<stopped, run, defaults, runner, informer, worker, shut, item,
                            ctx, signalled, listener, active>>

MainStep == ShutdownHTTP \/ ShutdownHTTPS \/ CloseStop

Next == \/ CNext /\ UNCHANGED mvars
        \/ Signal
        \/ Cancel
        \/ MainStep
        \/ \E s \in Servers : ListenerFails(s)
        \/ \E s \in Draining : Begin(s) \/ Finish(s)

\* main and its goroutines go on.  Backends and clients need not.
Spec == Init /\ [][Next]_vars /\ CFairness /\ WF_vars(Cancel) /\ WF_vars(MainStep)

-----------------------------------------------------------------------------
(* Properties.                                                             *)

\* The variables' types.
TypeOK == /\ CTypeOK
          /\ main \in {"serving", "http", "https", "returned"}
          /\ ctx \in BOOLEAN /\ signalled \in BOOLEAN
          /\ listener \in [Servers -> {"open", "failed", "closed"}]
          /\ active \in [Draining -> 0..MaxActive]

\* While a request of the http or the https server is in flight, the tables it
\* is answered from are kept up to date: no queue is shut and no worker has ended,
\* unless somebody called Stop.
LiveTables ==
  (\E s \in Draining : active[s] > 0) /\ ~stopped =>
    \A k \in Kinds : ~shut[k] /\ worker[k] # "ended" /\ informer[k] # "ended"

\* A signal, or the failure of a listener other than http's, ends the process,
\* whenever it comes, if the requests of the two servers are done some time; a
\* request that never is holds it up for ever.
Ends ==
  /\ <>(signalled \/ \E s \in Servers \ {"http"} : listener[s] = "failed")
  /\ \A s \in Draining : []<>(active[s] = 0)
  => <>(main = "returned")

=============================================================================
