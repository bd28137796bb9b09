------------------------------ MODULE EndpointSet ------------------------------
(***************************************************************************)
(* endpoints.go: the addresses behind one service, by port name, and the   *)
(* round robin that request goroutines take over them.                     *)
(*                                                                         *)
(* The endpoints worker publishes a new serviceAddrSet for every port name *)
(* the object has addresses for; a request looks its set up under the lock *)
(* and takes the next address after releasing it, from a set that may no   *)
(* longer be the published one.                                            *)
(*                                                                         *)
(* A set once published is never taken out of the map: addItem assigns the *)
(* names it has addresses for and leaves the others alone, and delItem is  *)
(* handed no object (module Processor).  So the sets published under a     *)
(* name form a sequence, and the map holds the last of them.               *)
(***************************************************************************)
EXTENDS Integers, Sequences, SequencesExt

CONSTANTS PortNames,    \* portName of the serviceKeys of one service
          Unnamed,      \* the empty name: an unnamed port's, and the portless key's
          NumericPorts, \* servicePorts an ingress gives by number
          Objects,      \* what the service's Endpoints object may be
          Requests,     \* request goroutines
          NoAddr,       \* the zero serviceAddr
          IndexSize,    \* number of values of index: 2^64 in the code
          MaxUpdates,   \* bound on the objects applied
          MaxPicks      \* bound on the addresses taken

ASSUME NamesAssumption == Unnamed \in PortNames /\ NumericPorts \cap PortNames = {}
ASSUME IndexAssumption == IndexSize \in Nat \ {0}
ASSUME BoundsAssumption == MaxUpdates \in Nat /\ MaxPicks \in Nat

\* An Endpoints object is a sequence of subsets [addrs, ports], a port of it is
\* [name, port].  The object that is gone has no subsets.
Gone == <<>>

VARIABLES sets,      \* the serviceAddrSets published under each port name
          applied,   \* history: the object last applied
          updates,   \* number of objects applied,
          picks,     \* and of addresses taken, for the bounds
          req        \* each request: [pc, name, set, addr, live]

vars == <<sets, applied, updates, picks, req>>

\* live is history: the addresses the object last applied had for the name when
\* the request looked it up.
NoRequest == [pc |-> "idle", name |-> Unnamed, set |-> 0, addr |-> NoAddr, live |-> <<>>]

Init == /\ sets = [k \in PortNames |-> <<>>]
        /\ applied = Gone
        /\ updates = 0
        /\ picks = 0
        /\ req = [r \in Requests |-> NoRequest]

-----------------------------------------------------------------------------
(* The endpoints worker.                                                   *)

AtPort(addrs, port) == [n \in DOMAIN addrs |-> [addr |-> addrs[n], port |-> port]]

\* addItem's addrsset: subset after subset, the portless key's addresses, which
\* have no port, and then those of every port of this name.  The portless key
\* is also that of an unnamed port.
Addrs(eps, k) ==
  FlattenSeq([i \in DOMAIN eps |->
    (IF k = Unnamed THEN AtPort(eps[i].addrs, 0) ELSE <<>>)
    \o FlattenSeq([j \in DOMAIN eps[i].ports |->
         IF eps[i].ports[j].name = k THEN AtPort(eps[i].addrs, eps[i].ports[j].port) ELSE <<>>])])

\* The objects are such that these are sequences.
ASSUME ObjectsAssumption ==
  \A eps \in Objects \cup {Gone} : \A k \in PortNames :
    Addrs(eps, k) \in Seq(Range(Addrs(eps, k)))

\* Mutant: a signed index that starts at -1, for the first address to be first.
NewSetSigned(addrs) == [addrs |-> addrs, index |-> 0 - 1, hits |-> [n \in DOMAIN addrs |-> 0]]

\* A serviceAddrSet; hits is history: how often each address was taken.
NewSet(addrs) == [addrs |-> addrs, index |-> 0, hits |-> [n \in DOMAIN addrs |-> 0]]

\* Mutant: a name whose port has no address is published too.
PublishEmpty(eps) ==
  sets' = [k \in PortNames |->
    IF \E i \in DOMAIN eps : \E j \in DOMAIN eps[i].ports : eps[i].ports[j].name = k
    THEN Append(sets[k], NewSet(Addrs(eps, k))) ELSE sets[k]]

\* Mutant: the addresses are appended to those that are in the map.
PublishMerged(eps) ==
  LET old(k) == IF sets[k] = <<>> THEN <<>> ELSE Last(sets[k]).addrs
  IN  sets' = [k \in PortNames |->
        IF Addrs(eps, k) # <<>> THEN Append(sets[k], NewSet(old(k) \o Addrs(eps, k)))
                                ELSE sets[k]]

\* Under the write lock: the names that have addresses get a new set, whose
\* round robin starts again.
Publish(eps) ==
  sets' = [k \in PortNames |->
    IF Addrs(eps, k) # <<>> THEN Append(sets[k], NewSet(Addrs(eps, k))) ELSE sets[k]]

AddItem(eps) ==
  /\ updates < MaxUpdates
  /\ updates' = updates + 1
  /\ applied' = eps
  /\ Publish(eps)
  /\ UNCHANGED <<picks, req>>

\* The object is gone, and delItem does not learn which it was.
DelItem ==
  /\ applied # Gone
  /\ applied' = Gone
  /\ UNCHANGED <<sets, updates, picks, req>>

-----------------------------------------------------------------------------
(* getNextAddr, by a request's goroutine.                                  *)

\* backendToServiceKey: a servicePort that is a number, and no name, has the
\* portless key.
KeyName(servicePort) == IF servicePort \in PortNames THEN servicePort ELSE Unnamed

\* Under the read lock: the set in the map, or none, which is a 502.
Lookup(r, servicePort) ==
  LET k == KeyName(servicePort)
  IN  /\ req[r].pc = "idle"
      /\ req' = [req EXCEPT ![r] =
                   [name |-> k, set |-> Len(sets[k]), addr |-> NoAddr, live |-> Addrs(applied, k),
                    pc |-> IF sets[k] = <<>> THEN "none" ELSE "pick"]]
      /\ UNCHANGED <<sets, applied, updates, picks>>

\* Request r takes the address at position at, and the index is then count.
Take(r, at, count) ==
  LET k == req[r].name
      n == req[r].set
      set == sets[k][n]
  IN  /\ picks < MaxPicks
      /\ picks' = picks + 1
      /\ sets' = [sets EXCEPT ![k][n] = [set EXCEPT !.index = count, !.hits[at] = @ + 1]]
      /\ req' = [req EXCEPT ![r].addr = set.addrs[at], ![r].pc = "got"]
      /\ UNCHANGED <<applied, updates>>

\* Mutant: the address is chosen at random, as DESIGN.md has it.
PickRandom(r) ==
  /\ req[r].pc = "pick"
  /\ LET set == sets[req[r].name][req[r].set]
     IN  \E at \in DOMAIN set.addrs : Take(r, at, (set.index + 1) % IndexSize)

\* Without the lock: atomic.AddUint64, and the address at the new count.
Pick(r) ==
  /\ req[r].pc = "pick"
  /\ LET set == sets[req[r].name][req[r].set]
         count == (set.index + 1) % IndexSize
     IN  Take(r, (count % Len(set.addrs)) + 1, count)

\* The request goes on with the address, or with a 502.
Return(r) ==
  /\ req[r].pc \in {"none", "got"}
  /\ req' = [req EXCEPT ![r] = NoRequest]
  /\ UNCHANGED <<sets, applied, updates, picks>>

Next == \/ \E eps \in Objects : AddItem(eps)
        \/ DelItem
        \/ \E r \in Requests : \/ \E p \in PortNames \cup NumericPorts : Lookup(r, p)
                               \/ Pick(r)
                               \/ Return(r)

Spec == Init /\ [][Next]_vars

-----------------------------------------------------------------------------
(* Properties.                                                             *)

\* The addresses and ports the objects mention; port 0 is no port.
AddrOf(eps) == UNION {Range(Addrs(eps, k)) : k \in PortNames}
ServiceAddrs == UNION {AddrOf(eps) : eps \in Objects}

\* The variables' types; an index stays below its width.
TypeOK ==
  /\ \A k \in PortNames : \A n \in DOMAIN sets[k] :
       /\ sets[k][n].addrs \in Seq(ServiceAddrs)
       /\ sets[k][n].index \in 0..IndexSize - 1
       /\ sets[k][n].hits \in [DOMAIN sets[k][n].addrs -> 0..MaxPicks]
  /\ applied \in Objects \cup {Gone}
  /\ updates \in 0..MaxUpdates
  /\ picks \in 0..MaxPicks
  /\ \A r \in Requests :
       /\ req[r].pc \in {"idle", "none", "pick", "got"}
       /\ req[r].name \in PortNames
       /\ req[r].addr \in ServiceAddrs \cup {NoAddr}
       /\ req[r].live \in Seq(ServiceAddrs)

\* A request that is about to divide by the length of its set's addresses never
\* divides by zero, whatever the worker published before and since.
NeverEmpty ==
  \A r \in Requests : req[r].pc = "pick" =>
    sets[req[r].name][req[r].set].addrs # <<>>

Total(h) ==
  LET sum[n \in 0..Len(h)] == IF n = 0 THEN 0 ELSE sum[n - 1] + h[n]
  IN  sum[Len(h)]

\* Round robin: of a set's addresses none was taken more than once more often
\* than another, whichever requests interleaved and however often the set was
\* replaced meanwhile.  Every wrap of the index may add one to the difference,
\* since its width need not be a multiple of the number of addresses.
Balanced ==
  \A k \in PortNames : \A n \in DOMAIN sets[k] :
    LET h == sets[k][n].hits
    IN  \A a, b \in DOMAIN h : h[a] <= h[b] + 1 + Total(h) \div IndexSize

\* A request is handed an address that the object applied last had for its port
\* name when it looked, and a 502 only when there was none; when there was none
\* it may be handed an older address.
CurrentAddress ==
  \A r \in Requests :
    /\ req[r].pc = "got" /\ req[r].live # <<>> => req[r].addr \in Range(req[r].live)
    /\ req[r].pc = "none" => req[r].live = <<>>

\* example/ingress.yaml:19: an ingress names its backend's port by number.  The
\* director dials the address at its port, which then is one.
Dialable == \A r \in Requests : req[r].pc = "got" => req[r].addr.port # 0

=============================================================================
