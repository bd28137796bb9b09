----------------------------- MODULE Reconciler -----------------------------
(***************************************************************************)
(* What one of minke's four work-queue processors promises to the table    *)
(* its updater keeps (routes, endpoint addresses, certificates, service    *)
(* schemes): every change of the informer's store leaves a debt for its    *)
(* key, a debt is paid by reading the store once and applying what was     *)
(* read, and nothing is applied that was not read.  There is no queue, no  *)
(* handler and no worker here: module Processor refines this one.          *)
(*                                                                         *)
(* An object is the number of the version the API server gave it; Absent   *)
(* is the version of an object that does not exist.                        *)
(***************************************************************************)
EXTENDS Naturals

CONSTANTS Keys,         \* "namespace/name" keys of one resource type
          MaxVersion    \* bound on the versions the API server issues per key

Absent == 0
Versions == 0..MaxVersion

VARIABLES indexer,      \* the version of every key in the informer's store
          version,      \* the last version the API server issued for a key
          owed,         \* keys changed since they were last read
          held,         \* at most one [key, obj], read and not yet applied
          view,         \* the version last applied to the table
          closed        \* the controller is stopping

vars == <<indexer, version, owed, held, view, closed>>

Held == [key : Keys, obj : Versions]

Init == /\ indexer = [k \in Keys |-> Absent]
        /\ version = [k \in Keys |-> Absent]
        /\ owed = {}
        /\ held = {}
        /\ view = [k \in Keys |-> Absent]
        /\ closed = FALSE

\* A new version of k, its deletion, or a second delivery of what is there.
Change(k) ==
  /\ \/ /\ version[k] < MaxVersion
        /\ version' = [version EXCEPT ![k] = @ + 1]
        /\ indexer' = [indexer EXCEPT ![k] = version[k] + 1]
     \/ /\ indexer[k] # Absent
        /\ indexer' = [indexer EXCEPT ![k] = Absent]
        /\ UNCHANGED version
     \/ /\ indexer[k] # Absent
        /\ UNCHANGED <<indexer, version>>
  /\ owed' = owed \cup {k}
  /\ UNCHANGED <<held, view, closed>>

\* Read what the store holds for k now.  The debt stays when the key was
\* changed again before this read and that change is still to be announced.
Read(k) ==
  /\ held = {}
  /\ k \in owed
  /\ held' = {[key |-> k, obj |-> indexer[k]]}
  /\ owed' \in {owed, owed \ {k}}
  /\ UNCHANGED <<indexer, version, view, closed>>

\* Apply what was read.  An absence is read but never applied: the updaters'
\* delItem is handed no object and leaves the table as it is.
Apply ==
  /\ \E h \in held :
        view' = IF h.obj = Absent THEN view ELSE [view EXCEPT ![h.key] = h.obj]
  /\ held' = {}
  /\ UNCHANGED <<indexer, version, owed, closed>>

Close == /\ ~closed
         /\ closed' = TRUE
         /\ UNCHANGED <<indexer, version, owed, held, view>>

\* Once it is stopping, the controller may forget a debt.
Drop(k) == /\ closed
           /\ k \in owed
           /\ owed' = owed \ {k}
           /\ UNCHANGED <<indexer, version, held, view, closed>>

Next == \/ \E k \in Keys : Change(k) \/ Read(k) \/ Drop(k)
        \/ Apply
        \/ Close

\* A debt is paid in the end as long as the controller is not stopping.
Fairness == /\ WF_vars(Apply)
            /\ \A k \in Keys : SF_vars(~closed /\ Read(k))

Spec == Init /\ [][Next]_vars /\ Fairness
=============================================================================
