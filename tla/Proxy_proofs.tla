------------------------------ MODULE Proxy_proofs ------------------------------
(***************************************************************************)
(* Proofs about Proxy, for any objects and any number of requests and of   *)
(* changes of the tables.                                                  *)
(*                                                                         *)
(* What EndpointSet_proofs and Routing_proofs show of their tables is used *)
(* as it is: their assumptions follow from those of Proxy, and the proxy   *)
(* implements both specifications.                                         *)
(***************************************************************************)
EXTENDS Proxy, TLAPS, FiniteSetTheorems

EP == INSTANCE EndpointSet_proofs
        WITH applied <- epsApplied, req <- lookup, Objects <- EpsObjects
RP == INSTANCE Routing_proofs
        WITH set <- routes, applied <- ingApplied, ours <- ingOurs,
             Objects <- IngObjects, Backends <- Ports

-----------------------------------------------------------------------------
(* The endpoints' table.                                                   *)

\* EP is E with the proofs about it.
LEMMA SameAddrs == \A eps, k : E!Addrs(eps, k) = EP!Addrs(eps, k)
<1> TAKE eps, k
<1>1. \A s : E!FlattenSeq(s) = EP!FlattenSeq(s)
  BY DEF E!FlattenSeq, EP!FlattenSeq
<1>2. \A addrs, port : E!AtPort(addrs, port) = EP!AtPort(addrs, port)
  BY DEF E!AtPort, EP!AtPort
<1>3. QED
  BY <1>1, <1>2 DEF E!Addrs, EP!Addrs

\* The operators are the same,
LEMMA SameServiceAddrs == E!ServiceAddrs = EP!ServiceAddrs
<1>1. \A f : E!Range(f) = EP!Range(f)
  BY DEF E!Range, EP!Range
<1>2. \A eps : E!AddrOf(eps) = EP!AddrOf(eps)
  BY <1>1, SameAddrs DEF E!AddrOf, EP!AddrOf
<1>3. QED
  BY <1>2 DEF E!ServiceAddrs, EP!ServiceAddrs

\* and so are the worker's step
LEMMA SamePublish == \A eps : E!Publish(eps) <=> EP!Publish(eps)
  BY SameAddrs DEF E!Publish, EP!Publish, E!NewSet, EP!NewSet

\* and those of a request.
LEMMA SameKeyName == \A p : E!KeyName(p) = EP!KeyName(p)
  BY DEF E!KeyName, EP!KeyName

LEMMA SameLookup == \A r, p : E!Lookup(r, p) <=> EP!Lookup(r, p)
  BY SameAddrs, SameKeyName DEF E!Lookup, EP!Lookup

LEMMA SamePick == \A r : E!Pick(r) <=> EP!Pick(r)
  BY DEF E!Pick, EP!Pick, E!Take, EP!Take

LEMMA SameReturn == \A r : E!Return(r) <=> EP!Return(r)
  BY DEF E!Return, EP!Return, E!NoRequest, EP!NoRequest

\* EndpointSet's assumptions, which its theorems come with.
LEMMA EndpointsAssumptions ==
  /\ Unnamed \in PortNames /\ NumericPorts \cap PortNames = {}
  /\ IndexSize \in Nat \ {0}
  /\ MaxUpdates \in Nat /\ MaxPicks \in Nat
  /\ \A eps \in EpsObjects \cup {EP!Gone} : \A k \in PortNames :
       EP!Addrs(eps, k) \in Seq(EP!Range(EP!Addrs(eps, k)))
<1>1. EP!Gone = E!Gone
  BY DEF EP!Gone, E!Gone
<1>2. \A f : EP!Range(f) = Range(f)
  BY DEF EP!Range, Range
<1>3. QED
  BY <1>1, <1>2, SameAddrs, PortsAssumption, BoundsAssumption, EpsObjectsAssumption

-----------------------------------------------------------------------------
(* The inductive invariant.                                                *)

Tables == {"routes", "schemes", "endpoints"}

\* At most one table moved.
One(moved) == \A x, y \in moved : x = y

\* The records of the requests have their fields; a request knows of no other
\* tables.
Shape ==
  /\ req = [r \in Requests |-> req[r]]
  /\ \A r \in Requests : DOMAIN req[r] = DOMAIN NoRequest /\ req[r].moved \subseteq Tables

\* The table of schemes is that of the service last applied.
Known ==
  /\ service \in SvcObjects \cup {NoService}
  /\ appProtos = IF service = NoService THEN NoService ELSE S!Merge(service)

Key(r) == E!KeyName(req[r].rule.backend)
Via(r) == Transport(req[r].scheme)

\* Before it has read a table, a request could have what it is owed now.
Arrived(r) ==
  req[r].pc = "route" =>
    Owed(routes, service, sets, req[r].tls, req[r].path) \subseteq req[r].could

\* What it read of a table that has not moved is what the table holds now.
Routed(r) ==
  req[r].pc \in {"scheme", "lookup"} /\ "routes" \notin req[r].moved =>
    LET a == R!Answer(routes, Host, req[r].path)
    IN  a.rule = req[r].rule /\ a.rule # NoRule /\ ~(a.httpRedir /\ ~req[r].tls)
Schemed(r) ==
  req[r].pc = "lookup" /\ "schemes" \notin req[r].moved =>
    Via(r) = Speaks(Declared(service, Key(r)))

\* With what it read, and with what it would read now, it ends as it could have.
ByRule(r) ==
  req[r].pc = "scheme" /\ One(req[r].moved) =>
    OwedRule(req[r].rule, service, sets) \subseteq req[r].could
ByScheme(r) ==
  req[r].pc = "lookup" /\ One(req[r].moved) =>
    OwedPort(Via(r), sets, Key(r)) \subseteq req[r].could

\* So does getNextAddr, whatever becomes of the set it holds.
NoneFound(r) ==
  req[r].pc = "address" /\ lookup[r].pc = "none" =>
    /\ lookup[r].addr = NoAddr
    /\ One(req[r].moved) => Status(502) \in req[r].could
SetFound(r) ==
  req[r].pc = "address" /\ lookup[r].pc = "pick" /\ One(req[r].moved) =>
    \A x \in Range(sets[lookup[r].name][lookup[r].set].addrs) : Target(Via(r), x) \in req[r].could
AddrFound(r) ==
  req[r].pc = "address" /\ lookup[r].pc = "got" =>
    /\ lookup[r].addr # NoAddr
    /\ One(req[r].moved) => Target(Via(r), lookup[r].addr) \in req[r].could

ReqInv(r) == /\ Arrived(r) /\ Routed(r) /\ Schemed(r) /\ ByRule(r) /\ ByScheme(r)
             /\ NoneFound(r) /\ SetFound(r) /\ AddrFound(r)

IInv == EP!IInv /\ Shape /\ Known /\ \A r \in Requests : ReqInv(r)

-----------------------------------------------------------------------------

\* A set of at most one table has no two in it.
LEMMA AtMostOne ==
  ASSUME NEW m \in SUBSET Tables, Cardinality(m) <= 1
  PROVE  One(m)
<1> SUFFICES ASSUME NEW x \in m, NEW y \in m, x # y PROVE FALSE
  BY DEF One
<1>1. IsFiniteSet(Tables)
  <2>1. IsFiniteSet({"routes"})
    BY FS_Singleton
  <2>2. IsFiniteSet({"routes"} \cup {"schemes"})
    BY <2>1, FS_AddElement
  <2>3. IsFiniteSet(({"routes"} \cup {"schemes"}) \cup {"endpoints"})
    BY <2>2, FS_AddElement
  <2>4. Tables = ({"routes"} \cup {"schemes"}) \cup {"endpoints"}
    BY DEF Tables
  <2>5. QED
    BY <2>3, <2>4
<1>2. IsFiniteSet(m)
  BY <1>1, FS_Subset
<1>3. IsFiniteSet({x}) /\ Cardinality({x}) = 1
  BY FS_Singleton
<1>4. Cardinality({x} \cup {y}) = 2
  BY <1>3, FS_AddElement
<1>5. Cardinality({x} \cup {y}) <= Cardinality(m)
  <2>1. {x} \cup {y} \subseteq m
    OBVIOUS
  <2>2. QED
    BY <1>2, <2>1, FS_Subset
<1>6. Cardinality(m) \in Nat
  BY <1>2, FS_CardinalityType
<1>7. QED
  BY <1>4, <1>5, <1>6

\* What is merged of a service's declarations is a declaration.
LEMMA MergedType ==
  \A svc \in SvcObjects : S!Merge(svc) \in S!Declarations
<1> TAKE svc \in SvcObjects
<1>0. svc \in S!Services
  BY SvcObjectsAssumption
<1>1. PICK n1 \in SUBSET PortNames : svc.annotation \in [n1 -> S!Protocols]
  BY <1>0 DEF S!Services, S!Declarations
<1>2. PICK n2 \in SUBSET PortNames : svc.ports \in [n2 -> S!Protocols]
  BY <1>0 DEF S!Services, S!Declarations
<1>3. S!Merge(svc) \in [n1 \cup n2 -> S!Protocols]
  BY <1>1, <1>2 DEF S!Merge
<1>4. QED
  BY <1>3 DEF S!Declarations

\* The scheme table and the transport do with a service what it declares.
LEMMA SchemeSpeaks ==
  ASSUME Known
  PROVE  \A k : Transport(S!Scheme(appProtos, k)) = Speaks(Declared(service, k))
<1> TAKE k
<1>1. CASE service = NoService
  BY <1>1 DEF Known, Transport, S!Scheme, Speaks, Declared
<1>2. CASE service # NoService
  <2>1. service \in S!Services /\ appProtos = S!Merge(service)
    BY <1>2, SvcObjectsAssumption DEF Known
  <2>2. S!Merge(service) \in S!Declarations
    BY <1>2, MergedType DEF Known
  <2>3. appProtos # NoService
    BY <2>1, <2>2, SvcObjectsAssumption
  <2>4. DOMAIN appProtos = DOMAIN service.annotation \cup DOMAIN service.ports
    BY <2>1 DEF S!Merge
  <2>5. CASE k \in DOMAIN appProtos
    <3>1. appProtos[k] = Declared(service, k)
      BY <1>2, <2>1, <2>4, <2>5 DEF S!Merge, Declared
    <3>2. \A p : Transport(S!SchemeOf(p)) = Speaks(p)
      BY DEF Transport, S!SchemeOf, Speaks
    <3>3. QED
      BY <2>3, <2>5, <3>1, <3>2 DEF S!Scheme
  <2>6. CASE k \notin DOMAIN appProtos
    <3>1. Declared(service, k) = "HTTP"
      BY <1>2, <2>4, <2>6 DEF Declared
    <3>2. QED
      BY <2>3, <2>6, <3>1 DEF S!Scheme, Transport, Speaks
  <2>7. QED
    BY <2>5, <2>6
<1>3. QED
  BY <1>1, <1>2

\* At the start no request is under way.
LEMMA InitInv == Init => IInv
<1> SUFFICES ASSUME Init PROVE IInv
  OBVIOUS
<1>1. EP!IInv
  <2>1. EP!Init
    BY DEF Init, E!Init, EP!Init, E!NoRequest, EP!NoRequest, E!Gone, EP!Gone
  <2>2. QED
    BY <2>1, EP!InitInv, EndpointsAssumptions
<1>2. Shape
  BY DEF Init, Shape, NoRequest, Tables
<1>3. Known
  BY DEF Init, S!Init, Known
<1>4. ASSUME NEW r \in Requests PROVE ReqInv(r)
  <2>1. req[r].pc = "idle"
    BY DEF Init, NoRequest
  <2>2. QED
    BY <2>1 DEF ReqInv, Arrived, Routed, Schemed, ByRule, ByScheme, NoneFound, SetFound, AddrFound
<1>5. QED
  BY <1>1, <1>2, <1>3, <1>4 DEF IInv

-----------------------------------------------------------------------------
(* What is owed.                                                           *)

\* A key under which endpoints are looked up is a port name.
LEMMA KeyIsName == \A p : E!KeyName(p) \in PortNames
  BY PortsAssumption DEF E!KeyName

\* With a rule, and no redirect, what is owed is what is owed for the rule.
LEMMA OwedByRule ==
  ASSUME NEW rts, NEW svc, NEW addrs, NEW tls, NEW path,
         R!Answer(rts, Host, path).rule # NoRule,
         ~(R!Answer(rts, Host, path).httpRedir /\ ~tls)
  PROVE  Owed(rts, svc, addrs, tls, path) = OwedRule(R!Answer(rts, Host, path).rule, svc, addrs)
  BY DEF Owed

\* What was owed for a rule is so for its port, and the other way round.
LEMMA OwedByPort ==
  ASSUME NEW rule, NEW svc, NEW addrs
  PROVE  OwedRule(rule, svc, addrs) =
           OwedPort(Speaks(Declared(svc, E!KeyName(rule.backend))), addrs, E!KeyName(rule.backend))
  BY DEF OwedRule

\* Taking an address changes nothing that is owed.
LEMMA OwedKept ==
  ASSUME EP!IInv, EP!IInv',
         \A j \in PortNames : /\ Len(sets'[j]) = Len(sets[j])
                              /\ \A m \in 1..Len(sets[j]) : sets'[j][m].addrs = sets[j][m].addrs
  PROVE  /\ \A via, k : k \in PortNames => OwedPort(via, sets', k) = OwedPort(via, sets, k)
         /\ \A rule, svc : OwedRule(rule, svc, sets') = OwedRule(rule, svc, sets)
         /\ \A rts, svc, tls, path :
              Owed(rts, svc, sets', tls, path) = Owed(rts, svc, sets, tls, path)
<1>1. ASSUME NEW via, NEW k \in PortNames
      PROVE  OwedPort(via, sets', k) = OwedPort(via, sets, k)
  <2>1. sets[k] \in Seq(EP!AddrSets) /\ sets'[k] \in Seq(EP!AddrSets)
    BY DEF EP!IInv, EP!Published
  <2>2. CASE sets[k] = <<>>
    <3>1. sets'[k] = <<>>
      BY <2>1, <2>2
    <3>2. QED
      BY <2>2, <3>1 DEF OwedPort
  <2>3. CASE sets[k] # <<>>
    <3>1. sets'[k] # <<>> /\ Len(sets[k]) \in 1..Len(sets[k])
      BY <2>1, <2>3
    <3>2. Last(sets'[k]).addrs = Last(sets[k]).addrs
      BY <3>1 DEF Last
    <3>3. QED
      BY <2>3, <3>1, <3>2 DEF OwedPort
  <2>4. QED
    BY <2>2, <2>3
<1>2. \A rule, svc : OwedRule(rule, svc, sets') = OwedRule(rule, svc, sets)
  BY <1>1, KeyIsName DEF OwedRule
<1>3. QED
  BY <1>1, <1>2 DEF Owed

-----------------------------------------------------------------------------
(* The workers' steps.                                                     *)

\* What the requests have of a table's change.
LEMMA WitnessStep ==
  ASSUME Shape, NEW t \in Tables, NEW rts, NEW svc, NEW addrs, Witness(t, rts, svc, addrs)
  PROVE  /\ Shape'
         /\ \A r \in Requests :
              /\ UNCHANGED <<req[r].pc, req[r].tls, req[r].path, req[r].rule, req[r].scheme>>
              /\ ~Deciding(r) => req'[r] = req[r]
              /\ Deciding(r) =>
                   /\ req'[r].moved = req[r].moved \cup {t}
                   /\ req'[r].could =
                        req[r].could \cup Owed(rts, svc, addrs, req[r].tls, req[r].path)
<1>1. ASSUME NEW r \in Requests
      PROVE  /\ UNCHANGED <<req[r].pc, req[r].tls, req[r].path, req[r].rule, req[r].scheme>>
             /\ ~Deciding(r) => req'[r] = req[r]
             /\ Deciding(r) =>
                  /\ req'[r].moved = req[r].moved \cup {t}
                  /\ req'[r].could =
                       req[r].could \cup Owed(rts, svc, addrs, req[r].tls, req[r].path)
             /\ DOMAIN req'[r] = DOMAIN NoRequest
  <2> DEFINE m == req[r].moved \cup {t}
             c == req[r].could \cup Owed(rts, svc, addrs, req[r].tls, req[r].path)
  <2>1. DOMAIN req[r] = DOMAIN NoRequest
    BY DEF Shape
  <2>2. req'[r] = IF Deciding(r) THEN [req[r] EXCEPT !.moved = m, !.could = c] ELSE req[r]
    BY DEF Witness
  <2> HIDE DEF m, c
  <2>3. QED
    BY <2>1, <2>2 DEF NoRequest, m, c
<1>2. req' = [r \in Requests |-> req'[r]]
  BY DEF Witness
<1>3. \A r \in Requests : req'[r].moved \subseteq Tables
  BY <1>1 DEF Shape
<1>4. QED
  BY <1>1, <1>2, <1>3 DEF Shape

\* A request that has read its last table is none the worse for what the workers
\* do.
LEMMA PastDeciding ==
  ASSUME NEW r \in Requests, ReqInv(r), ~Deciding(r), req'[r] = req[r], lookup'[r] = lookup[r],
         req[r].pc = "address" /\ lookup[r].pc = "pick" =>
           sets'[lookup[r].name][lookup[r].set].addrs = sets[lookup[r].name][lookup[r].set].addrs
  PROVE  ReqInv(r)'
<1>1. (Arrived(r) /\ Routed(r) /\ Schemed(r) /\ ByRule(r) /\ ByScheme(r))'
  BY DEF Deciding, Arrived, Routed, Schemed, ByRule, ByScheme
<1>2. (NoneFound(r) /\ AddrFound(r))'
  BY DEF ReqInv, NoneFound, AddrFound, Via
<1>3. SetFound(r)'
  BY DEF ReqInv, SetFound, Via
<1>4. QED
  BY <1>1, <1>2, <1>3 DEF ReqInv

\* The ingress worker's step: only routes that were read are stale then.
LEMMA ApplyIngressStep == IInv /\ ApplyIngress => IInv'
<1> SUFFICES ASSUME IInv, ApplyIngress PROVE IInv'
  OBVIOUS
<1>1. /\ Witness("routes", routes', service, sets)
      /\ UNCHANGED <<service, appProtos, sets, epsApplied, updates, picks, lookup>>
  BY DEF ApplyIngress, svars
<1>2. "routes" \in Tables /\ Shape
  BY DEF IInv, Tables
<1>3. /\ Shape'
      /\ \A r \in Requests :
           /\ UNCHANGED <<req[r].pc, req[r].tls, req[r].path, req[r].rule, req[r].scheme>>
           /\ ~Deciding(r) => req'[r] = req[r]
           /\ Deciding(r) =>
                /\ req'[r].moved = req[r].moved \cup {"routes"}
                /\ req'[r].could =
                     req[r].could \cup Owed(routes', service, sets, req[r].tls, req[r].path)
  BY <1>1, <1>2, WitnessStep
<1>4. EP!IInv' /\ Known'
  BY <1>1 DEF IInv, Known, EP!IInv, EP!Published, EP!Latest, EP!Held, EP!Counters
<1>5. ASSUME NEW r \in Requests PROVE ReqInv(r)'
  <2>1. ReqInv(r)
    BY DEF IInv
  <2>2. CASE ~Deciding(r)
    BY <1>1, <1>3, <2>1, <2>2, PastDeciding
  <2>3. CASE Deciding(r)
    <3>1. Arrived(r)'
      BY <1>1, <1>3, <2>3 DEF Arrived
    <3>2. Routed(r)'
      BY <1>3, <2>3 DEF Routed
    <3>3. Schemed(r)'
      BY <1>1, <1>3, <2>1, <2>3 DEF ReqInv, Schemed, Via, Key
    <3>4. ByRule(r)' /\ ByScheme(r)'
      BY <1>1, <1>3, <2>1, <2>3 DEF ReqInv, ByRule, ByScheme, Via, Key, One
    <3>5. (NoneFound(r) /\ SetFound(r) /\ AddrFound(r))'
      BY <1>3, <2>3 DEF Deciding, NoneFound, SetFound, AddrFound
    <3>6. QED
      BY <3>1, <3>2, <3>3, <3>4, <3>5 DEF ReqInv
  <2>4. QED
    BY <2>2, <2>3
<1>6. QED
  BY <1>3, <1>4, <1>5 DEF IInv

\* The service worker's: the scheme that was read, if any.
LEMMA ApplyServiceStep == IInv /\ ApplyService => IInv'
<1> SUFFICES ASSUME IInv, ApplyService PROVE IInv'
  OBVIOUS
<1>1. /\ service' \in SvcObjects /\ appProtos' = S!Merge(service')
      /\ Witness("schemes", routes, service', sets)
      /\ UNCHANGED <<routes, sets, epsApplied, updates, picks, lookup>>
  BY DEF ApplyService, S!AddItem, rvars
<1>2. "schemes" \in Tables /\ Shape
  BY DEF IInv, Tables
<1>3. /\ Shape'
      /\ \A r \in Requests :
           /\ UNCHANGED <<req[r].pc, req[r].tls, req[r].path, req[r].rule, req[r].scheme>>
           /\ ~Deciding(r) => req'[r] = req[r]
           /\ Deciding(r) =>
                /\ req'[r].moved = req[r].moved \cup {"schemes"}
                /\ req'[r].could =
                     req[r].could \cup Owed(routes, service', sets, req[r].tls, req[r].path)
  BY <1>1, <1>2, WitnessStep
<1>4. EP!IInv'
  BY <1>1 DEF IInv, EP!IInv, EP!Published, EP!Latest, EP!Held, EP!Counters
<1>5. Known'
  BY <1>1, SvcObjectsAssumption DEF Known
<1>6. ASSUME NEW r \in Requests PROVE ReqInv(r)'
  <2>1. ReqInv(r)
    BY DEF IInv
  <2>2. CASE ~Deciding(r)
    BY <1>1, <1>3, <2>1, <2>2, PastDeciding
  <2>3. CASE Deciding(r)
    <3>1. Arrived(r)'
      BY <1>1, <1>3, <2>3 DEF Arrived
    <3>2. Routed(r)'
      BY <1>1, <1>3, <2>1, <2>3 DEF ReqInv, Routed
    <3>3. Schemed(r)'
      BY <1>3, <2>3 DEF Schemed
    <3>4. ByRule(r)'
      <4> SUFFICES ASSUME req[r].pc = "scheme", One(req'[r].moved)
                   PROVE  OwedRule(req[r].rule, service', sets) \subseteq req'[r].could
        BY <1>1, <1>3 DEF ByRule
      <4>1. "routes" \notin req[r].moved
        BY <1>3, <2>3 DEF One
      <4>2. OwedRule(req[r].rule, service', sets)
              = Owed(routes, service', sets, req[r].tls, req[r].path)
        BY <2>1, <4>1, OwedByRule DEF ReqInv, Routed
      <4>3. QED
        BY <1>3, <2>3, <4>2
    <3>5. ByScheme(r)'
      BY <1>1, <1>3, <2>1, <2>3 DEF ReqInv, ByScheme, Via, Key, One
    <3>6. (NoneFound(r) /\ SetFound(r) /\ AddrFound(r))'
      BY <1>3, <2>3 DEF Deciding, NoneFound, SetFound, AddrFound
    <3>7. QED
      BY <3>1, <3>2, <3>3, <3>4, <3>5, <3>6 DEF ReqInv
  <2>4. QED
    BY <2>2, <2>3
<1>7. QED
  BY <1>3, <1>4, <1>5, <1>6 DEF IInv

\* The endpoints worker's: the set that was looked up, which keeps its addresses.
LEMMA ApplyEndpointsStep == IInv /\ ApplyEndpoints => IInv'
<1> SUFFICES ASSUME IInv, ApplyEndpoints PROVE IInv'
  OBVIOUS
<1>1. PICK eps \in EpsObjects :
        /\ EP!Publish(eps) /\ epsApplied' = eps
        /\ updates < MaxUpdates /\ updates' = updates + 1
        /\ Witness("endpoints", routes, service, sets')
        /\ UNCHANGED <<routes, service, appProtos, picks, lookup>>
  BY SamePublish DEF ApplyEndpoints, rvars, svars
<1>2. "endpoints" \in Tables /\ Shape /\ EP!IInv
  BY DEF IInv, Tables
<1>3. /\ Shape'
      /\ \A r \in Requests :
           /\ UNCHANGED <<req[r].pc, req[r].tls, req[r].path, req[r].rule, req[r].scheme>>
           /\ ~Deciding(r) => req'[r] = req[r]
           /\ Deciding(r) =>
                /\ req'[r].moved = req[r].moved \cup {"endpoints"}
                /\ req'[r].could =
                     req[r].could \cup Owed(routes, service, sets', req[r].tls, req[r].path)
  BY <1>1, <1>2, WitnessStep
<1>4. EP!IInv'
  <2>1. EP!AddItem(eps)
    BY <1>1 DEF EP!AddItem
  <2>2. QED
    BY <1>2, <2>1, EP!WorkerStep, EndpointsAssumptions
<1>5. Known'
  BY <1>1 DEF IInv, Known
<1>6. \A k \in PortNames : \A n \in 1..Len(sets[k]) : sets'[k][n] = sets[k][n]
  BY <1>1, <1>2, EP!PublishStep, EndpointsAssumptions
<1>7. ASSUME NEW r \in Requests PROVE ReqInv(r)'
  <2>1. ReqInv(r)
    BY DEF IInv
  <2>2. CASE ~Deciding(r)
    <3>1. ASSUME lookup[r].pc = "pick"
          PROVE  sets'[lookup[r].name][lookup[r].set] = sets[lookup[r].name][lookup[r].set]
      <4>1. lookup[r].name \in PortNames /\ lookup[r].set \in 1..Len(sets[lookup[r].name])
        BY <1>2, <3>1 DEF EP!IInv, EP!Held, EP!ReqTypes
      <4>2. QED
        BY <1>6, <4>1
    <3>2. QED
      BY <1>1, <1>3, <2>1, <2>2, <3>1, PastDeciding
  <2>3. CASE Deciding(r)
    <3>1. Arrived(r)'
      BY <1>1, <1>3, <2>3 DEF Arrived
    <3>2. Routed(r)'
      BY <1>1, <1>3, <2>1, <2>3 DEF ReqInv, Routed
    <3>3. Schemed(r)'
      BY <1>1, <1>3, <2>1, <2>3 DEF ReqInv, Schemed, Via, Key
    <3>4. ASSUME req[r].pc \in {"scheme", "lookup"}, One(req'[r].moved)
          PROVE  /\ "schemes" \notin req[r].moved
                 /\ OwedRule(req[r].rule, service, sets') \subseteq req'[r].could
      <4>1. "routes" \notin req[r].moved /\ "schemes" \notin req[r].moved
        BY <1>3, <2>3, <3>4 DEF One
      <4>2. OwedRule(req[r].rule, service, sets')
              = Owed(routes, service, sets', req[r].tls, req[r].path)
        BY <2>1, <3>4, <4>1, OwedByRule DEF ReqInv, Routed
      <4>3. QED
        BY <1>3, <2>3, <4>1, <4>2
    <3>5. ByRule(r)'
      BY <1>1, <1>3, <3>4 DEF ByRule
    <3>6. ByScheme(r)'
      <4> SUFFICES ASSUME req[r].pc = "lookup", One(req'[r].moved)
                   PROVE  OwedPort(Via(r), sets', Key(r)) \subseteq req'[r].could
        BY <1>3 DEF ByScheme, Via, Key
      <4>1. Via(r) = Speaks(Declared(service, Key(r)))
        BY <2>1, <3>4 DEF ReqInv, Schemed
      <4>2. OwedPort(Via(r), sets', Key(r)) = OwedRule(req[r].rule, service, sets')
        BY <4>1, OwedByPort DEF Key
      <4>3. QED
        BY <3>4, <4>2
    <3>7. (NoneFound(r) /\ SetFound(r) /\ AddrFound(r))'
      BY <1>3, <2>3 DEF Deciding, NoneFound, SetFound, AddrFound
    <3>8. QED
      BY <3>1, <3>2, <3>3, <3>5, <3>6, <3>7 DEF ReqInv
  <2>4. QED
    BY <2>2, <2>3
<1>8. QED
  BY <1>3, <1>4, <1>5, <1>7 DEF IInv

-----------------------------------------------------------------------------
(* The requests' steps.                                                    *)

\* A step of one request leaves the others as they are.
LEMMA OneRequest ==
  ASSUME Shape, NEW r \in Requests, NEW x, DOMAIN x = DOMAIN NoRequest, x.moved \subseteq Tables,
         req' = [req EXCEPT ![r] = x]
  PROVE  Shape' /\ req'[r] = x /\ \A q \in Requests \ {r} : req'[q] = req[q]
<1>1. \A q \in Requests : req'[q] = IF q = r THEN x ELSE req[q]
  BY DEF Shape
<1>2. req' = [q \in Requests |-> req'[q]]
  BY <1>1 DEF Shape
<1>3. QED
  BY <1>1, <1>2 DEF Shape

\* A request's step keeps the invariant if what the request has become fulfils it.
LEMMA RequestStep ==
  ASSUME IInv, NEW r \in Requests, NEW x, DOMAIN x = DOMAIN NoRequest, x.moved \subseteq Tables,
         req' = [req EXCEPT ![r] = x],
         UNCHANGED <<routes, appProtos, service, sets>>,
         EP!IInv', \A q \in Requests \ {r} : lookup'[q] = lookup[q],
         ReqInv(r)'
  PROVE  IInv'
<1>1. Shape' /\ \A q \in Requests \ {r} : req'[q] = req[q]
  BY OneRequest DEF IInv
<1>2. ASSUME NEW q \in Requests \ {r} PROVE ReqInv(q)'
  <2>1. ReqInv(q) /\ req'[q] = req[q] /\ lookup'[q] = lookup[q]
    BY <1>1 DEF IInv
  <2>2. (Arrived(q) /\ Routed(q) /\ Schemed(q))'
    BY <2>1 DEF ReqInv, Arrived, Routed, Schemed, Via, Key
  <2>3. (ByRule(q) /\ ByScheme(q))'
    BY <2>1 DEF ReqInv, ByRule, ByScheme, Via, Key
  <2>4. (NoneFound(q) /\ SetFound(q) /\ AddrFound(q))'
    BY <2>1 DEF ReqInv, NoneFound, SetFound, AddrFound, Via
  <2>5. QED
    BY <2>2, <2>3, <2>4 DEF ReqInv
<1>3. Known'
  BY DEF IInv, Known
<1>4. QED
  BY <1>1, <1>2, <1>3 DEF IInv

\* A step that takes no address and publishes none leaves the endpoints' invariant.
LEMMA EndpointsUntouched ==
  EP!IInv /\ UNCHANGED <<sets, epsApplied, updates, picks, lookup>> => EP!IInv'
  BY DEF EP!IInv, EP!Published, EP!Latest, EP!Held, EP!Counters

\* A request that reads no table any more has nothing to be held to.
LEMMA Past ==
  ASSUME NEW r \in Requests, req[r].pc \in {"idle", "trip", "copy", "end"}
  PROVE  ReqInv(r)
  BY DEF ReqInv, Arrived, Routed, Schemed, ByRule, ByScheme, NoneFound, SetFound, AddrFound

\* The records that requests become.
LEMMA Fresh ==
  ASSUME NEW t, NEW a, NEW p
  PROVE  LET x == [NoRequest EXCEPT !.pc = p, !.target = t, !.answer = a]
         IN  /\ DOMAIN x = DOMAIN NoRequest /\ x.moved \subseteq Tables
             /\ x.pc = p /\ x.target = t
  BY DEF NoRequest

\* A request arrives with what it is owed at once.
LEMMA ArriveStep ==
  ASSUME IInv, NEW r \in Requests, NEW tls, NEW path, Arrive(r, tls, path)
  PROVE  IInv'
<1> DEFINE c == Owed(routes, service, sets, tls, path)
           x == [NoRequest EXCEPT !.pc = "route", !.tls = tls, !.path = path, !.could = c]
<1>1. /\ req' = [req EXCEPT ![r] = x]
      /\ UNCHANGED <<routes, appProtos, service, sets, epsApplied, updates, picks, lookup>>
  BY DEF Arrive, tables, rvars, svars
<1> HIDE DEF c
<1>2. /\ DOMAIN x = DOMAIN NoRequest /\ x.moved \subseteq Tables
      /\ x.pc = "route" /\ x.tls = tls /\ x.path = path /\ x.could = c
  BY DEF NoRequest
<1> HIDE DEF x
<1>3. req'[r] = x
  BY <1>1, <1>2, OneRequest DEF IInv
<1>4. ReqInv(r)'
  BY <1>1, <1>2, <1>3
     DEF ReqInv, Arrived, Routed, Schemed, ByRule, ByScheme, NoneFound, SetFound, AddrFound, c
<1>5. EP!IInv'
  BY <1>1, EndpointsUntouched DEF IInv
<1>6. QED
  BY <1>1, <1>2, <1>4, <1>5, RequestStep

\* A request that ends with a status has nothing more to be held to.
LEMMA RecoveredStep ==
  ASSUME IInv, NEW r \in Requests, NEW code, Recovered(r, code),
         UNCHANGED <<routes, appProtos, service, sets>>,
         EP!IInv', \A q \in Requests \ {r} : lookup'[q] = lookup[q]
  PROVE  /\ IInv'
         /\ req'[r].target = Status(code)
         /\ \A q \in Requests \ {r} : req'[q] = req[q]
<1> DEFINE x == [NoRequest EXCEPT !.pc = "end", !.target = Status(code), !.answer = "whole"]
<1>1. req' = [req EXCEPT ![r] = x]
  BY DEF Recovered
<1>2. /\ DOMAIN x = DOMAIN NoRequest /\ x.moved \subseteq Tables
      /\ x.pc = "end" /\ x.target = Status(code)
  BY Fresh
<1> HIDE DEF x
<1>3. req'[r] = x /\ \A q \in Requests \ {r} : req'[q] = req[q]
  BY <1>1, <1>2, OneRequest DEF IInv
<1>4. ReqInv(r)'
  BY <1>2, <1>3
     DEF ReqInv, Arrived, Routed, Schemed, ByRule, ByScheme, NoneFound, SetFound, AddrFound
<1>5. IInv'
  BY <1>1, <1>2, <1>4, RequestStep
<1>6. QED
  BY <1>2, <1>3, <1>5

\* What OneMoment says of a step and a request.
Moment(r) ==
  LET t == req'[r].target
  IN  t \notin {req[r].target, Pending}
        /\ (Cardinality(req[r].moved) <= 1 \/ t.status \in {301, 404})
      => t \in req[r].could

Moments == \A r \in Requests : Moment(r)

\* What a request is answered by its route alone is what it was owed then.
LEMMA MatchRouteStep ==
  ASSUME IInv, NEW r \in Requests, MatchRoute(r)
  PROVE  IInv' /\ Moments
<1> DEFINE a == R!Answer(routes, Host, req[r].path)
<1>1. /\ req[r].pc = "route"
      /\ IF a.rule = NoRule THEN Recovered(r, 404)
         ELSE IF a.httpRedir /\ ~req[r].tls THEN Recovered(r, 301)
         ELSE req' = [req EXCEPT ![r].pc = "scheme", ![r].rule = a.rule]
      /\ UNCHANGED <<routes, appProtos, service, sets, epsApplied, updates, picks, lookup>>
  BY DEF MatchRoute, tables, rvars, svars
<1>2. EP!IInv' /\ Shape
  BY <1>1, EndpointsUntouched DEF IInv
<1>3. Owed(routes, service, sets, req[r].tls, req[r].path) \subseteq req[r].could
  BY <1>1 DEF IInv, ReqInv, Arrived
<1>4. ASSUME NEW code, Recovered(r, code),
             Owed(routes, service, sets, req[r].tls, req[r].path) = {Status(code)}
      PROVE  IInv' /\ Moments
  <2>1. /\ IInv'
        /\ req'[r].target = Status(code)
        /\ \A q \in Requests \ {r} : req'[q] = req[q]
    BY <1>1, <1>2, <1>4, RecoveredStep
  <2>2. QED
    BY <1>3, <1>4, <2>1 DEF Moments, Moment
<1>5. CASE a.rule = NoRule
  BY <1>1, <1>4, <1>5 DEF Owed
<1>6. CASE a.rule # NoRule /\ a.httpRedir /\ ~req[r].tls
  BY <1>1, <1>4, <1>6 DEF Owed
<1>7. CASE a.rule # NoRule /\ ~(a.httpRedir /\ ~req[r].tls)
  <2> DEFINE x == [req[r] EXCEPT !.pc = "scheme", !.rule = a.rule]
  <2>1. req' = [req EXCEPT ![r].pc = "scheme", ![r].rule = a.rule]
    BY <1>1, <1>7
  <2> HIDE DEF a
  <2>2. req' = [req EXCEPT ![r] = x]
    BY <1>2, <2>1 DEF Shape
  <2>3. DOMAIN req[r] = DOMAIN NoRequest /\ req[r].moved \subseteq Tables
    BY <1>2 DEF Shape
  <2>4. /\ DOMAIN x = DOMAIN NoRequest /\ x.moved \subseteq Tables /\ x.moved = req[r].moved
        /\ x.pc = "scheme" /\ x.rule = a.rule /\ x.could = req[r].could
        /\ x.tls = req[r].tls /\ x.path = req[r].path /\ x.target = req[r].target
    BY <2>3 DEF NoRequest
  <2> HIDE DEF x
  <2>5. req'[r] = x /\ \A q \in Requests \ {r} : req'[q] = req[q]
    BY <1>2, <2>2, <2>4, OneRequest
  <2>6. OwedRule(a.rule, service, sets) \subseteq req[r].could
    BY <1>3, <1>7, OwedByRule DEF a
  <2>7. Routed(r)'
    BY <1>1, <1>7, <2>4, <2>5 DEF Routed, a
  <2>8. ByRule(r)'
    BY <1>1, <2>4, <2>5, <2>6 DEF ByRule
  <2>9. (Arrived(r) /\ Schemed(r) /\ ByScheme(r) /\ NoneFound(r) /\ SetFound(r) /\ AddrFound(r))'
    BY <2>4, <2>5 DEF Arrived, Schemed, ByScheme, NoneFound, SetFound, AddrFound
  <2>10. IInv'
    BY <1>1, <1>2, <2>2, <2>4, <2>7, <2>8, <2>9, RequestStep DEF ReqInv
  <2>11. QED
    BY <2>4, <2>5, <2>10 DEF Moments, Moment
<1>8. QED
  BY <1>5, <1>6, <1>7

\* The scheme read is that of the service's declaration now.
LEMMA GetSchemeStep ==
  ASSUME IInv, NEW r \in Requests, GetScheme(r)
  PROVE  IInv' /\ Moments
<1> DEFINE s == S!Scheme(appProtos, Key(r))
           x == [req[r] EXCEPT !.pc = "lookup", !.scheme = s]
<1>1. /\ req[r].pc = "scheme"
      /\ req' = [req EXCEPT ![r].pc = "lookup", ![r].scheme = s]
      /\ UNCHANGED <<routes, appProtos, service, sets, epsApplied, updates, picks, lookup>>
  BY DEF GetScheme, tables, rvars, svars, Key
<1> HIDE DEF s
<1>2. EP!IInv' /\ Shape
  BY <1>1, EndpointsUntouched DEF IInv
<1>3. req' = [req EXCEPT ![r] = x]
  BY <1>1, <1>2 DEF Shape
<1>4. DOMAIN req[r] = DOMAIN NoRequest /\ req[r].moved \subseteq Tables
  BY <1>2 DEF Shape
<1>5. /\ DOMAIN x = DOMAIN NoRequest /\ x.moved \subseteq Tables /\ x.moved = req[r].moved
      /\ x.pc = "lookup" /\ x.scheme = s /\ x.rule = req[r].rule /\ x.could = req[r].could
      /\ x.tls = req[r].tls /\ x.path = req[r].path /\ x.target = req[r].target
  BY <1>4 DEF NoRequest
<1> HIDE DEF x
<1>6. req'[r] = x /\ \A q \in Requests \ {r} : req'[q] = req[q]
  BY <1>2, <1>3, <1>5, OneRequest
<1>7. Transport(s) = Speaks(Declared(service, Key(r)))
  BY SchemeSpeaks DEF IInv, s
<1>8. Routed(r)'
  BY <1>1, <1>5, <1>6 DEF IInv, ReqInv, Routed
<1>9. Schemed(r)'
  BY <1>1, <1>5, <1>6, <1>7 DEF Schemed, Via, Key
<1>10. ByScheme(r)'
  <2> SUFFICES ASSUME One(req[r].moved)
               PROVE  OwedPort(Transport(s), sets, Key(r)) \subseteq req[r].could
    BY <1>1, <1>5, <1>6 DEF ByScheme, Via, Key
  <2>1. OwedRule(req[r].rule, service, sets) \subseteq req[r].could
    BY <1>1 DEF IInv, ReqInv, ByRule
  <2>2. QED
    BY <1>7, <2>1, OwedByPort DEF Key
<1>11. (Arrived(r) /\ ByRule(r) /\ NoneFound(r) /\ SetFound(r) /\ AddrFound(r))'
  BY <1>5, <1>6 DEF Arrived, ByRule, NoneFound, SetFound, AddrFound
<1>12. IInv'
  BY <1>1, <1>2, <1>3, <1>5, <1>8, <1>9, <1>10, <1>11, RequestStep DEF ReqInv
<1>13. QED
  BY <1>5, <1>6, <1>12 DEF Moments, Moment

\* The set under the key is what the request is owed an address of.
LEMMA LookupStep ==
  ASSUME IInv, NEW r \in Requests, Lookup(r)
  PROVE  IInv' /\ Moments
<1> DEFINE x == [req[r] EXCEPT !.pc = "address"]
           k == Key(r)
<1>1. /\ req[r].pc = "lookup"
      /\ EP!Lookup(r, req[r].rule.backend)
      /\ req' = [req EXCEPT ![r].pc = "address"]
      /\ UNCHANGED <<routes, appProtos, service>>
  BY SameLookup DEF Lookup, rvars, svars
<1>2. EP!IInv /\ Shape
  BY DEF IInv
<1>3. EP!IInv'
  BY <1>1, <1>2, EP!LookupStep, EndpointsAssumptions
<1>4. /\ lookup' = [lookup EXCEPT ![r] =
                      [name |-> k, set |-> Len(sets[k]), addr |-> NoAddr,
                       live |-> EP!Addrs(epsApplied, k),
                       pc |-> IF sets[k] = <<>> THEN "none" ELSE "pick"]]
      /\ UNCHANGED sets
  BY <1>1, SameKeyName DEF EP!Lookup, Key
<1> HIDE DEF k
<1>5. /\ lookup'[r].name = k /\ lookup'[r].set = Len(sets[k]) /\ lookup'[r].addr = NoAddr
      /\ lookup'[r].pc = IF sets[k] = <<>> THEN "none" ELSE "pick"
      /\ \A q \in Requests \ {r} : lookup'[q] = lookup[q]
  BY <1>2, <1>4 DEF EP!IInv, EP!Held
<1>6. req' = [req EXCEPT ![r] = x]
  BY <1>1, <1>2 DEF Shape
<1>7. DOMAIN req[r] = DOMAIN NoRequest /\ req[r].moved \subseteq Tables
  BY <1>2 DEF Shape
<1>8. /\ DOMAIN x = DOMAIN NoRequest /\ x.moved \subseteq Tables /\ x.moved = req[r].moved
      /\ x.pc = "address" /\ x.scheme = req[r].scheme /\ x.could = req[r].could
      /\ x.target = req[r].target
  BY <1>7 DEF NoRequest
<1> HIDE DEF x
<1>9. req'[r] = x /\ \A q \in Requests \ {r} : req'[q] = req[q]
  BY <1>2, <1>6, <1>8, OneRequest
<1>10. One(req[r].moved) => OwedPort(Via(r), sets, k) \subseteq req[r].could
  BY <1>1 DEF IInv, ReqInv, ByScheme, k
<1>11. NoneFound(r)'
  BY <1>5, <1>8, <1>9, <1>10 DEF NoneFound, OwedPort
<1>12. SetFound(r)'
  <2> SUFFICES ASSUME sets[k] # <<>>, One(req[r].moved), NEW y \in Range(sets[k][Len(sets[k])].addrs)
               PROVE  Target(Via(r), y) \in req[r].could
    BY <1>4, <1>5, <1>8, <1>9 DEF SetFound, Via
  <2>1. Last(sets[k]) = sets[k][Len(sets[k])]
    BY DEF Last
  <2>2. QED
    BY <1>10, <2>1 DEF OwedPort
<1>13. (Arrived(r) /\ Routed(r) /\ Schemed(r) /\ ByRule(r) /\ ByScheme(r) /\ AddrFound(r))'
  BY <1>5, <1>8, <1>9 DEF Arrived, Routed, Schemed, ByRule, ByScheme, AddrFound
<1>14. IInv'
  BY <1>1, <1>3, <1>4, <1>5, <1>6, <1>8, <1>11, <1>12, <1>13, RequestStep DEF ReqInv
<1>15. QED
  BY <1>8, <1>9, <1>14 DEF Moments, Moment

\* The address picked is of the set that was looked up.
LEMMA PickStep ==
  ASSUME IInv, NEW r \in Requests, Pick(r)
  PROVE  IInv' /\ Moments
<1>1. EP!Pick(r) /\ UNCHANGED <<routes, appProtos, service, req>>
  BY SamePick DEF Pick, rvars, svars
<1>2. EP!IInv
  BY DEF IInv
<1>3. /\ EP!IInv'
      /\ \A j \in PortNames : /\ Len(sets'[j]) = Len(sets[j])
                              /\ \A m \in 1..Len(sets[j]) : sets'[j][m].addrs = sets[j][m].addrs
      /\ lookup'[r].pc = "got"
      /\ lookup'[r].addr \in EP!Range(sets[lookup[r].name][lookup[r].set].addrs)
  BY <1>1, <1>2, EP!PickStep, EndpointsAssumptions
<1>4. /\ lookup[r].pc = "pick"
      /\ \A q \in Requests \ {r} : lookup'[q] = lookup[q]
  BY <1>1, <1>2 DEF EP!Pick, EP!Take, EP!IInv, EP!Held
<1>5. /\ \A via, k : k \in PortNames => OwedPort(via, sets', k) = OwedPort(via, sets, k)
      /\ \A rule, svc : OwedRule(rule, svc, sets') = OwedRule(rule, svc, sets)
      /\ \A rts, svc, tls, path :
           Owed(rts, svc, sets', tls, path) = Owed(rts, svc, sets, tls, path)
  BY <1>2, <1>3, OwedKept
<1>6. \A q \in Requests : lookup[q].pc = "pick" =>
        /\ lookup[q].name \in PortNames /\ lookup[q].set \in 1..Len(sets[lookup[q].name])
        /\ sets[lookup[q].name][lookup[q].set].addrs \in Seq(EP!ServiceAddrs)
  <2> SUFFICES ASSUME NEW q \in Requests, lookup[q].pc = "pick"
               PROVE  /\ lookup[q].name \in PortNames
                      /\ lookup[q].set \in 1..Len(sets[lookup[q].name])
                      /\ sets[lookup[q].name][lookup[q].set].addrs \in Seq(EP!ServiceAddrs)
    OBVIOUS
  <2>1. lookup[q].name \in PortNames /\ lookup[q].set \in 1..Len(sets[lookup[q].name])
    BY <1>2 DEF EP!IInv, EP!Held, EP!ReqTypes
  <2>2. sets[lookup[q].name] \in Seq(EP!AddrSets)
    BY <1>2, <2>1 DEF EP!IInv, EP!Published
  <2>3. sets[lookup[q].name][lookup[q].set] \in EP!AddrSets
    BY <2>1, <2>2
  <2>4. QED
    BY <2>1, <2>3 DEF EP!AddrSets
<1>7. lookup'[r].addr \in EP!ServiceAddrs
  <2>1. sets[lookup[r].name][lookup[r].set].addrs \in Seq(EP!ServiceAddrs)
    BY <1>4, <1>6
  <2>2. QED
    BY <1>3, <2>1 DEF EP!Range
<1>8. ASSUME NEW q \in Requests PROVE ReqInv(q)'
  <2>1. ReqInv(q) /\ E!KeyName(req[q].rule.backend) \in PortNames
    BY KeyIsName DEF IInv
  <2>2. (Arrived(q) /\ Routed(q) /\ Schemed(q) /\ ByRule(q) /\ ByScheme(q))'
    BY <1>1, <1>5, <2>1 DEF ReqInv, Arrived, Routed, Schemed, ByRule, ByScheme, Via, Key
  <2>3. CASE q = r
    <3>1. (NoneFound(r) /\ SetFound(r))'
      BY <1>3 DEF NoneFound, SetFound
    <3>2. lookup'[r].addr # NoAddr
      BY <1>7, SameServiceAddrs, EpsObjectsAssumption
    <3>3. lookup'[r].addr \in Range(sets[lookup[r].name][lookup[r].set].addrs)
      BY <1>3 DEF EP!Range, Range
    <3>4. AddrFound(r)'
      BY <1>1, <1>4, <2>1, <2>3, <3>2, <3>3 DEF ReqInv, SetFound, AddrFound, Via
    <3>5. QED
      BY <2>2, <2>3, <3>1, <3>4 DEF ReqInv
  <2>4. CASE q # r
    <3>1. lookup'[q] = lookup[q]
      BY <1>4, <2>4
    <3>2. (NoneFound(q) /\ AddrFound(q))'
      BY <1>1, <2>1, <3>1 DEF ReqInv, NoneFound, AddrFound, Via
    <3>3. SetFound(q)'
      BY <1>1, <1>3, <1>6, <2>1, <3>1 DEF ReqInv, SetFound, Via
    <3>4. QED
      BY <2>2, <3>2, <3>3 DEF ReqInv
  <2>5. QED
    BY <2>3, <2>4
<1>9. Shape' /\ Known'
  BY <1>1 DEF IInv, Shape, Known
<1>10. QED
  BY <1>1, <1>3, <1>8, <1>9 DEF IInv, Moments, Moment

\* The target is the address picked, with the scheme read before.
LEMMA DirectStep ==
  ASSUME IInv, NEW r \in Requests, Direct(r)
  PROVE  IInv' /\ Moments
<1> DEFINE t == Target(Transport(req[r].scheme), lookup[r].addr)
           x == [NoRequest EXCEPT !.pc = "trip", !.target = t]
<1>1. /\ req[r].pc = "address"
      /\ EP!Return(r)
      /\ IF lookup[r].addr = NoAddr THEN Recovered(r, 502) ELSE req' = [req EXCEPT ![r] = x]
      /\ UNCHANGED <<routes, appProtos, service>>
  BY SameReturn DEF Direct, rvars, svars
<1>2. EP!IInv /\ Shape
  BY DEF IInv
<1>3. EP!IInv'
  BY <1>1, <1>2, EP!ReturnStep, EndpointsAssumptions
<1>4. /\ lookup[r].pc \in {"none", "got"} /\ UNCHANGED sets
      /\ \A q \in Requests \ {r} : lookup'[q] = lookup[q]
  BY <1>1, <1>2 DEF EP!Return, EP!IInv, EP!Held
<1>5. Cardinality(req[r].moved) <= 1 => One(req[r].moved)
  BY <1>2, AtMostOne DEF Shape
<1>6. CASE lookup[r].addr = NoAddr
  <2>1. Cardinality(req[r].moved) <= 1 => Status(502) \in req[r].could
    BY <1>1, <1>4, <1>5, <1>6 DEF IInv, ReqInv, NoneFound, AddrFound
  <2>2. /\ IInv'
        /\ req'[r].target = Status(502)
        /\ \A q \in Requests \ {r} : req'[q] = req[q]
    BY <1>1, <1>3, <1>4, <1>6, RecoveredStep
  <2>3. Status(502).status = 502
    BY DEF Status
  <2>4. QED
    BY <2>1, <2>2, <2>3 DEF Moments, Moment
<1>7. CASE lookup[r].addr # NoAddr
  <2>1. Cardinality(req[r].moved) <= 1 => t \in req[r].could
    BY <1>1, <1>4, <1>5, <1>7 DEF IInv, ReqInv, NoneFound, AddrFound, Via
  <2>2. t.status = 200
    BY DEF Target
  <2> HIDE DEF t
  <2>3. /\ DOMAIN x = DOMAIN NoRequest /\ x.moved \subseteq Tables
        /\ x.pc = "trip" /\ x.target = t
    BY DEF NoRequest
  <2>4. req' = [req EXCEPT ![r] = x]
    BY <1>1, <1>7
  <2> HIDE DEF x
  <2>5. req'[r] = x /\ \A q \in Requests \ {r} : req'[q] = req[q]
    BY <1>2, <2>3, <2>4, OneRequest
  <2>6. ReqInv(r)'
    BY <2>3, <2>5
       DEF ReqInv, Arrived, Routed, Schemed, ByRule, ByScheme, NoneFound, SetFound, AddrFound
  <2>7. IInv'
    BY <1>1, <1>3, <1>4, <2>3, <2>4, <2>6, RequestStep
  <2>8. QED
    BY <2>1, <2>2, <2>3, <2>5, <2>7 DEF Moments, Moment
<1>8. QED
  BY <1>6, <1>7

\* What follows a request's target is none.
LEMMA AfterStep ==
  ASSUME IInv, NEW r \in Requests,
         RoundTrip(r) \/ Copy(r) \/ \E tls \in BOOLEAN, path \in Paths : Arrive(r, tls, path)
  PROVE  IInv' /\ Moments
<1>1. ASSUME NEW x, DOMAIN x = DOMAIN NoRequest, x.moved \subseteq Tables,
             x.pc \in {"copy", "end"}, x.target = Pending,
             req' = [req EXCEPT ![r] = x],
             UNCHANGED <<tables, picks, lookup>>
      PROVE  IInv' /\ Moments
  <2>1. req'[r] = x /\ \A q \in Requests \ {r} : req'[q] = req[q]
    BY <1>1, OneRequest DEF IInv
  <2>2. ReqInv(r)'
    BY <1>1, <2>1
       DEF ReqInv, Arrived, Routed, Schemed, ByRule, ByScheme, NoneFound, SetFound, AddrFound
  <2>3. UNCHANGED <<routes, appProtos, service, sets, epsApplied, updates, picks, lookup>>
    BY <1>1 DEF tables, rvars, svars
  <2>4. EP!IInv'
    BY <2>3, EndpointsUntouched DEF IInv
  <2>5. IInv'
    BY <1>1, <2>2, <2>3, <2>4, RequestStep
  <2>6. QED
    BY <1>1, <2>1, <2>5 DEF Moments, Moment
<1>2. CASE RoundTrip(r)
  <2>1. LET x == [NoRequest EXCEPT !.pc = "copy"]
        IN  /\ DOMAIN x = DOMAIN NoRequest /\ x.moved \subseteq Tables
            /\ x.pc \in {"copy", "end"} /\ x.target = Pending
    BY DEF NoRequest
  <2>2. \A a : LET x == Ended(a)
              IN  /\ DOMAIN x = DOMAIN NoRequest /\ x.moved \subseteq Tables
                  /\ x.pc \in {"copy", "end"} /\ x.target = Pending
    BY DEF NoRequest, Ended
  <2>3. QED
    BY <1>1, <1>2, <2>1, <2>2 DEF RoundTrip
<1>3. CASE Copy(r)
  <2>1. \A a : LET x == Ended(a)
              IN  /\ DOMAIN x = DOMAIN NoRequest /\ x.moved \subseteq Tables
                  /\ x.pc \in {"copy", "end"} /\ x.target = Pending
    BY DEF NoRequest, Ended
  <2>2. QED
    BY <1>1, <1>3, <2>1 DEF Copy
<1>4. ASSUME NEW tls \in BOOLEAN, NEW path \in Paths, Arrive(r, tls, path)
      PROVE  IInv' /\ Moments
  <2> DEFINE x == [NoRequest EXCEPT !.pc = "route", !.tls = tls, !.path = path,
                                    !.could = Owed(routes, service, sets, tls, path)]
  <2>1. req' = [req EXCEPT ![r] = x]
    BY <1>4 DEF Arrive
  <2>2. DOMAIN x = DOMAIN NoRequest /\ x.moved \subseteq Tables /\ x.target = Pending
    BY DEF NoRequest
  <2> HIDE DEF x
  <2>3. req'[r] = x /\ \A q \in Requests \ {r} : req'[q] = req[q]
    BY <2>1, <2>2, OneRequest DEF IInv
  <2>4. IInv'
    BY <1>4, ArriveStep
  <2>5. QED
    BY <2>2, <2>3, <2>4 DEF Moments, Moment
<1>5. QED
  BY <1>2, <1>3, <1>4

-----------------------------------------------------------------------------

\* All steps keep the invariant, and end requests with what they are owed.
LEMMA NextStep ==
  ASSUME IInv, Next
  PROVE  IInv' /\ Moments
<1>1. ASSUME ApplyIngress \/ ApplyService \/ ApplyEndpoints
      PROVE  IInv' /\ Moments
  <2>1. IInv'
    BY <1>1, ApplyIngressStep, ApplyServiceStep, ApplyEndpointsStep
  <2>2. PICK t, rts, svc, addrs : Witness(t, rts, svc, addrs)
    BY <1>1 DEF ApplyIngress, ApplyService, ApplyEndpoints
  <2>3. ASSUME NEW r \in Requests
        PROVE  req'[r].target = req[r].target
    <3> DEFINE m == req[r].moved \cup {t}
               c == req[r].could \cup Owed(rts, svc, addrs, req[r].tls, req[r].path)
    <3>1. req'[r] = IF Deciding(r) THEN [req[r] EXCEPT !.moved = m, !.could = c] ELSE req[r]
      BY <2>2 DEF Witness
    <3> HIDE DEF m, c
    <3>2. DOMAIN req[r] = DOMAIN NoRequest
      BY DEF IInv, Shape
    <3>3. QED
      BY <3>1, <3>2 DEF NoRequest
  <2>4. QED
    BY <2>1, <2>3 DEF Moments, Moment
<1>2. ASSUME NEW r \in Requests, Step(r)
      PROVE  IInv' /\ Moments
  BY <1>2, MatchRouteStep, GetSchemeStep, LookupStep, PickStep, DirectStep DEF Step
<1>3. ASSUME NEW r \in Requests,
             RoundTrip(r) \/ Copy(r) \/ \E tls \in BOOLEAN, path \in Paths : Arrive(r, tls, path)
      PROVE  IInv' /\ Moments
  BY <1>3, AfterStep
<1>4. QED
  BY <1>1, <1>2, <1>3 DEF Next

\* A step of nothing keeps it, too.
LEMMA StutterStep == IInv /\ UNCHANGED vars => IInv'
<1> SUFFICES ASSUME IInv, UNCHANGED vars PROVE IInv'
  OBVIOUS
<1>1. UNCHANGED <<routes, appProtos, service, sets, epsApplied, updates, picks, lookup, req>>
  BY DEF vars, tables, rvars, svars
<1>2. EP!IInv'
  BY <1>1, EndpointsUntouched DEF IInv
<1>3. Shape' /\ Known'
  BY <1>1 DEF IInv, Shape, Known
<1>4. ASSUME NEW r \in Requests PROVE ReqInv(r)'
  BY <1>1 DEF IInv, ReqInv, Arrived, Routed, Schemed, ByRule, ByScheme, NoneFound, SetFound,
              AddrFound, Via, Key
<1>5. QED
  BY <1>2, <1>3, <1>4 DEF IInv

\* So the invariant always holds.
LEMMA AlwaysInv == Spec => []IInv
<1>1. IInv /\ [Next]_vars => IInv'
  BY NextStep, StutterStep
<1>2. QED
  BY InitInv, <1>1, PTL DEF Spec

-----------------------------------------------------------------------------

\* proxy.go:59-80: a request during which one table changed, however often, ends as
\* the tables of a single moment of it say, for any routes, services and endpoints
\* and any number of requests and changes.
THEOREM OneMomentHolds == Spec => OneMoment
<1>1. IInv /\ [Next]_vars => [Moments]_vars
  BY NextStep
<1>2. [Moments]_vars <=>
        [\A r \in Requests :
           LET t == req'[r].target
           IN  t \notin {req[r].target, Pending}
                 /\ (Cardinality(req[r].moved) <= 1 \/ t.status \in {301, 404})
               => t \in req[r].could]_vars
  BY DEF Moments, Moment
<1>3. QED
  BY <1>1, <1>2, AlwaysInv, PTL DEF Spec, OneMoment

\* endpoints.go:102: neither does a request of the proxy ever divide by the length of
\* an empty set.
THEOREM NeverEmptyHolds == Spec => []E!NeverEmpty
<1>1. IInv => E!NeverEmpty
  <2> SUFFICES ASSUME EP!IInv, NEW r \in Requests, lookup[r].pc = "pick"
               PROVE  sets[lookup[r].name][lookup[r].set].addrs # <<>>
    BY DEF E!NeverEmpty, IInv
  <2>1. lookup[r].name \in PortNames /\ lookup[r].set \in 1..Len(sets[lookup[r].name])
    BY DEF EP!IInv, EP!Held, EP!ReqTypes
  <2>2. sets[lookup[r].name] \in Seq(EP!AddrSets)
    BY <2>1 DEF EP!IInv, EP!Published
  <2>3. sets[lookup[r].name][lookup[r].set] \in EP!AddrSets
    BY <2>1, <2>2
  <2>4. QED
    BY <2>3 DEF EP!AddrSets
<1>2. QED
  BY <1>1, AlwaysInv, PTL

-----------------------------------------------------------------------------
(* The components' specifications.                                         *)

\* RP is R with the proofs about it.
LEMMA SameRoutesInit == R!Init <=> RP!Init
  BY DEF R!Init, RP!Init, R!Ids, RP!Ids

\* Filtering and what it filters by are the same,
LEMMA SameKeep == \A l, S0 : R!Keep(l, S0) = RP!Keep(l, S0)
  BY DEF R!Keep, RP!Keep

LEMMA SameRange == \A f : R!Range(f) = RP!Range(f)
  BY DEF R!Range, RP!Range

\* and what is made of an object's paths,
LEMMA SameRule == \A h, p : R!RuleOf(h, p) = RP!RuleOf(h, p)
  BY DEF R!RuleOf, RP!RuleOf, R!OrRoot, RP!OrRoot, R!Empty, RP!Empty, R!Root, RP!Root

LEMMA SameIgnored == \A p : R!Ignored(p) <=> RP!Ignored(p)
  BY DEF R!Ignored, RP!Ignored

\* and of an ingress for a host,
LEMMA SameRoutesOf == \A id, object, h : R!NewSet(id, object, h) = RP!NewSet(id, object, h)
<1> TAKE id, object, h
<1> DEFINE blocks == R!Keep(object.rules, {r \in R!Range(object.rules) : r.host = h})
           valid(r) == R!Keep(r.paths, {p \in R!Range(r.paths) : ~R!Ignored(p)})
           pblocks == RP!Keep(object.rules, {r \in RP!Range(object.rules) : r.host = h})
           pvalid(r) == RP!Keep(r.paths, {p \in RP!Range(r.paths) : ~RP!Ignored(p)})
<1>1. blocks = pblocks
  BY SameKeep, SameRange
<1>2. \A r : valid(r) = pvalid(r)
  <2> TAKE r
  <2>1. {p \in R!Range(r.paths) : ~R!Ignored(p)} = {p \in RP!Range(r.paths) : ~RP!Ignored(p)}
    BY SameRange, SameIgnored
  <2>2. QED
    BY <2>1, SameKeep
<1>3. R!Redirect(object) = RP!Redirect(object)
  BY DEF R!Redirect, RP!Redirect
<1> HIDE DEF blocks, valid, pblocks, pvalid
<1>4. [n \in DOMAIN blocks |->
        [id |-> id, httpRedir |-> R!Redirect(object),
         rules |-> [m \in DOMAIN valid(blocks[n]) |-> R!RuleOf(h, valid(blocks[n])[m])]]]
      = [n \in DOMAIN pblocks |->
          [id |-> id, httpRedir |-> RP!Redirect(object),
           rules |-> [m \in DOMAIN pvalid(pblocks[n]) |-> RP!RuleOf(h, pvalid(pblocks[n])[m])]]]
  BY <1>1, <1>2, <1>3, SameRule
<1>5. QED
  BY <1>4 DEF R!NewSet, RP!NewSet, blocks, valid, pblocks, pvalid

\* and the sort,
LEMMA SameInsert == \A l, e : R!Insert(l, e) = RP!Insert(l, e)
<1> TAKE l, e
<1>1. {f \in R!Range(l) : R!Less(e.id, f.id)} = {f \in RP!Range(l) : RP!Less(e.id, f.id)}
  BY SameRange DEF R!Less, RP!Less
<1>2. QED
  BY <1>1, SameKeep, SameRange DEF R!Insert, RP!Insert

LEMMA SameSort == \A l : R!Sort(l) = RP!Sort(l)
  BY SameInsert DEF R!Sort, RP!Sort

\* and the update.
LEMMA SameOthers == \A l, id : R!OthersOf(l, id) = RP!OthersOf(l, id)
  BY SameKeep, SameRange DEF R!OthersOf, RP!OthersOf

LEMMA SameUpdate == \A id, object : R!Update(id, object) <=> RP!Update(id, object)
  BY SameRoutesOf, SameOthers, SameSort DEF R!Update, RP!Update

LEMMA SameAddItem == \A id, object : R!AddItem(id, object) <=> RP!AddItem(id, object)
  BY SameUpdate DEF R!AddItem, RP!AddItem

\* So are the types.
LEMMA SameRoutesTypes == R!TypeOK <=> RP!TypeOK
  BY DEF R!TypeOK, RP!TypeOK, R!Entries, RP!Entries, R!Ids, RP!Ids, R!IngressRules, RP!IngressRules, R!AnyPath, RP!AnyPath

\* Both match a path in the same way, and find the same rule.
LEMMA SamePrefixMatch == \A p, q : R!PrefixMatch(p, q) = RP!PrefixMatch(p, q)
  BY DEF R!PrefixMatch, RP!PrefixMatch, R!Root, RP!Root, R!Empty, RP!Empty,
         R!Matched, RP!Matched, R!Unmatched, RP!Unmatched, R!Length, RP!Length,
         R!IsPrefix, RP!IsPrefix

LEMMA SameGlobMatch == \A p, q : R!GlobMatch(p, q) = RP!GlobMatch(p, q)
  BY SamePrefixMatch
     DEF R!GlobMatch, RP!GlobMatch, R!Root, RP!Root, R!Matched, RP!Matched,
         R!Unmatched, RP!Unmatched, R!Length, RP!Length, R!Last, RP!Last, R!Front, RP!Front

LEMMA SameMatch == \A rule, host, q : R!Match(rule, host, q) = RP!Match(rule, host, q)
<1> TAKE rule, host, q
<1> DEFINE M(none, prefix, glob, exact, re) ==
             IF rule.host \notin {NoHost, host} THEN none
             ELSE CASE rule.type = "prefix" -> prefix
                    [] rule.type = "glob" -> glob
                    [] rule.type = "exact" -> IF q = rule.path THEN exact ELSE none
                    [] rule.type = "re2" -> re
<1>1. R!Match(rule, host, q) =
        M(R!Unmatched, R!PrefixMatch(rule.path, q), R!GlobMatch(rule.path, q),
          R!Matched(R!Length(q), TRUE), R!Matched(ReMatch[<<rule.path, q>>], FALSE))
  BY Zenon DEF R!Match, M
<1>2. RP!Match(rule, host, q) =
        M(RP!Unmatched, RP!PrefixMatch(rule.path, q), RP!GlobMatch(rule.path, q),
          RP!Matched(RP!Length(q), TRUE), RP!Matched(ReMatch[<<rule.path, q>>], FALSE))
  BY Zenon DEF RP!Match, M
<1>3. /\ R!PrefixMatch(rule.path, q) = RP!PrefixMatch(rule.path, q)
      /\ R!GlobMatch(rule.path, q) = RP!GlobMatch(rule.path, q)
  BY SamePrefixMatch, SameGlobMatch
<1>4. /\ R!Unmatched = RP!Unmatched
      /\ R!Matched(R!Length(q), TRUE) = RP!Matched(RP!Length(q), TRUE)
      /\ R!Matched(ReMatch[<<rule.path, q>>], FALSE) = RP!Matched(ReMatch[<<rule.path, q>>], FALSE)
  BY DEF R!Unmatched, RP!Unmatched, R!Matched, RP!Matched, R!Length, RP!Length
<1> HIDE DEF M
<1>5. QED
  BY <1>1, <1>2, <1>3, <1>4

LEMMA SameBest == \A rules, host, q : R!Best(rules, host, q) = RP!Best(rules, host, q)
<1> TAKE rules, host, q
<1> DEFINE Better(b, m, r) == IF m.len > b.len \/ (m.len = b.len /\ m.exact)
                              THEN [rule |-> r, len |-> m.len] ELSE b
           B(f, none) == CHOOSE best : best =
                   [n \in 0..Len(rules) |->
                     IF n = 0 THEN none ELSE Better(best[n - 1], f[n], rules[n])]
           f1 == [n \in Nat |-> R!Match(rules[n], host, q)]
           f2 == [n \in Nat |-> RP!Match(rules[n], host, q)]
<1>1. f1 = f2
  BY SameMatch
<1>2. \A n \in 0..Len(rules) : n \in Nat
  OBVIOUS
<1>3. R!Best(rules, host, q) = B(f1, R!NoMatch)[Len(rules)].rule
  BY <1>2 DEF R!Best
<1>4. RP!Best(rules, host, q) = B(f2, RP!NoMatch)[Len(rules)].rule
  BY <1>2 DEF RP!Best
<1>5. R!NoMatch = RP!NoMatch
  BY DEF R!NoMatch, RP!NoMatch
<1> HIDE DEF B, f1, f2
<1>6. QED
  BY <1>1, <1>3, <1>4, <1>5

LEMMA SameGroupAnswer ==
  \A entries, host, q : R!GroupAnswer(entries, host, q) = RP!GroupAnswer(entries, host, q)
<1> TAKE entries, host, q
<1>1. \A rules : R!Best(rules, host, q) = RP!Best(rules, host, q)
  BY SameBest
<1>2. {e \in R!Range(entries) : R!Best(e.rules, host, q) # NoRule}
        = {e \in RP!Range(entries) : RP!Best(e.rules, host, q) # NoRule}
  BY <1>1, SameRange
<1>3. R!Keep(entries, {e \in R!Range(entries) : R!Best(e.rules, host, q) # NoRule})
        = RP!Keep(entries, {e \in RP!Range(entries) : RP!Best(e.rules, host, q) # NoRule})
  BY <1>2, SameKeep
<1>4. QED
  BY <1>1, <1>3 DEF R!GroupAnswer, RP!GroupAnswer, R!NoAnswer, RP!NoAnswer

LEMMA SameAnswer == \A table, host, q : R!Answer(table, host, q) = RP!Answer(table, host, q)
  BY SameGroupAnswer DEF R!Answer, RP!Answer, R!NoAnswer, RP!NoAnswer

\* Routing's assumptions, which its theorems come with.
LEMMA RoutingAssumptions ==
  /\ Names \subseteq Nat /\ Namespaces \subseteq Nat
  /\ NoHost \notin Hosts /\ WildcardOf \in [Hosts -> Hosts]
  /\ Paths \subseteq RP!AnyPath /\ Star \in Segments
  /\ Invalid \subseteq Regexps /\ ReMatch \in [Regexps \X Paths -> Nat]
  /\ IngObjects \subseteq [ours : BOOLEAN, redirect : RP!Annotations, rules : Seq(RP!Rules)]
  /\ DefaultRedirect \in BOOLEAN
  /\ NoIngress \notin IngObjects \cup RP!Ids /\ NoRule \notin RP!IngressRules
<1>1. R!AnyPath = RP!AnyPath /\ R!Annotations = RP!Annotations /\ R!Ids = RP!Ids
  BY DEF R!AnyPath, RP!AnyPath, R!Annotations, RP!Annotations, R!Ids, RP!Ids
<1>2. R!RulePaths = RP!RulePaths
  BY <1>1 DEF R!RulePaths, RP!RulePaths, R!PathTypes, RP!PathTypes
<1>3. R!Rules = RP!Rules
  BY <1>2 DEF R!Rules, RP!Rules
<1>4. R!IngressRules = RP!IngressRules
  BY <1>1 DEF R!IngressRules, RP!IngressRules
<1>5. QED
  BY <1>1, <1>3, <1>4, RoutesAssumption

\* The three workers and the requests do to the routes what Routing allows: the
\* ingress worker adds an object, and nobody else writes them.
THEOREM RoutesAreRouting == Spec => R!Init /\ [][R!Next]_(R!vars)
<1>1. Init => R!Init
  BY DEF Init
<1>2. [Next]_vars => [R!Next]_(R!vars)
  <2> SUFFICES ASSUME [Next]_vars PROVE R!Next \/ UNCHANGED <<routes, ingApplied, ingOurs>>
    BY DEF R!vars
  <2>1. CASE ApplyIngress
    BY <2>1 DEF ApplyIngress, R!Next
  <2>2. CASE ApplyService \/ ApplyEndpoints
    BY <2>2 DEF ApplyService, ApplyEndpoints, rvars
  <2>3. ASSUME NEW r \in Requests,
               \/ \E tls \in BOOLEAN, path \in Paths : Arrive(r, tls, path)
               \/ Step(r) \/ RoundTrip(r) \/ Copy(r)
        PROVE  UNCHANGED <<routes, ingApplied, ingOurs>>
    BY <2>3 DEF Arrive, Step, MatchRoute, GetScheme, Lookup, Pick, Direct, RoundTrip, Copy,
                tables, rvars
  <2>4. CASE UNCHANGED vars
    BY <2>4 DEF vars, tables, rvars
  <2>5. QED
    BY <2>1, <2>2, <2>3, <2>4 DEF Next
<1>3. QED
  BY <1>1, <1>2, PTL DEF Spec

\* The proxy's getNextAddr and its endpoints worker are EndpointSet's: what is
\* between them in a request, and the other workers, are stutters.
THEOREM EndpointsAreEndpointSet == Spec => E!Init /\ [][E!Next]_(E!vars)
<1>1. Init => E!Init
  BY DEF Init
<1>2. [Next]_vars => [E!Next]_(E!vars)
  <2> SUFFICES ASSUME [Next]_vars
               PROVE  E!Next \/ UNCHANGED <<sets, epsApplied, updates, picks, lookup>>
    BY DEF E!vars
  <2>1. CASE ApplyEndpoints
    <3>1. PICK eps \in EpsObjects : E!Publish(eps) /\ epsApplied' = eps
      BY <2>1 DEF ApplyEndpoints
    <3>2. E!AddItem(eps)
      BY <2>1, <3>1 DEF ApplyEndpoints, E!AddItem
    <3>3. QED
      BY <3>2 DEF E!Next
  <2>2. CASE ApplyIngress \/ ApplyService
    BY <2>2 DEF ApplyIngress, ApplyService, svars
  <2>3. ASSUME NEW r \in Requests, Lookup(r)
        PROVE  E!Next
    <3> DEFINE p == req[r].rule.backend
    <3>1. E!Lookup(r, p)
      BY <2>3 DEF Lookup
    <3>2. E!KeyName(p) \in PortNames /\ E!KeyName(E!KeyName(p)) = E!KeyName(p)
      BY KeyIsName DEF E!KeyName
    <3>3. E!Lookup(r, E!KeyName(p))
      BY <3>1, <3>2 DEF E!Lookup
    <3>4. QED
      BY <3>2, <3>3 DEF E!Next
  <2>4. ASSUME NEW r \in Requests, Pick(r) \/ Direct(r)
        PROVE  E!Next
    BY <2>4 DEF Pick, Direct, E!Next
  <2>5. ASSUME NEW r \in Requests,
               \/ \E tls \in BOOLEAN, path \in Paths : Arrive(r, tls, path)
               \/ MatchRoute(r) \/ GetScheme(r) \/ RoundTrip(r) \/ Copy(r)
        PROVE  UNCHANGED <<sets, epsApplied, updates, picks, lookup>>
    BY <2>5 DEF Arrive, MatchRoute, GetScheme, RoundTrip, Copy, tables
  <2>6. CASE UNCHANGED vars
    BY <2>6 DEF vars, tables
  <2>7. QED
    BY <2>1, <2>2, <2>3, <2>4, <2>5, <2>6 DEF Next, Step
<1>3. QED
  BY <1>1, <1>2, PTL DEF Spec

\* The same of RP and of EP, which the theorems are about.
LEMMA RoutesBehave == Spec => RP!Init /\ [][RP!Next]_(RP!vars)
<1>1. R!Init => RP!Init
  BY SameRoutesInit
<1>2. [R!Next]_(R!vars) => [RP!Next]_(RP!vars)
  BY SameAddItem DEF R!Next, RP!Next, R!vars, RP!vars, R!Ids, RP!Ids
<1>3. QED
  BY <1>1, <1>2, RoutesAreRouting, PTL

LEMMA EndpointsBehave == Spec => EP!Init /\ [][EP!Next]_(EP!vars)
<1>1. E!Init => EP!Init
  BY DEF E!Init, EP!Init, E!NoRequest, EP!NoRequest, E!Gone, EP!Gone
<1>2. [E!Next]_(E!vars) => [EP!Next]_(EP!vars)
  BY SamePublish, SameLookup, SamePick, SameReturn
     DEF E!Next, EP!Next, E!vars, EP!vars, E!AddItem, EP!AddItem, E!DelItem, EP!DelItem,
         E!Gone, EP!Gone
<1>3. QED
  BY <1>1, <1>2, EndpointsAreEndpointSet, PTL

\* So the types of the routes,
LEMMA RoutesTyped == Spec => []R!TypeOK
<1>1. RP!TypeOK => R!TypeOK
  BY SameRoutesTypes
<1>2. RP!Init /\ [][RP!Next]_(RP!vars) => []RP!TypeOK
  BY RP!TypeOKHolds, RoutingAssumptions DEF RP!Spec
<1>3. QED
  BY <1>1, <1>2, RoutesBehave, PTL

\* and those of the endpoints are what they are in the components.
LEMMA EndpointsTyped == Spec => []E!TypeOK
<1>1. EP!TypeOK => E!TypeOK
  BY SameServiceAddrs DEF E!TypeOK, EP!TypeOK, E!Gone, EP!Gone
<1>2. EP!Init /\ [][EP!Next]_(EP!vars) => []EP!TypeOK
  BY EP!TypesHold, EndpointsAssumptions DEF EP!Spec
<1>3. QED
  BY <1>1, <1>2, EndpointsBehave, PTL

\* The proxy's routes are a function of the objects last applied, while requests and
\* the other workers go on.
THEOREM CanonicalHolds == Spec => []R!Canonical
<1>1. RP!Canonical => R!Canonical
  BY SameRoutesOf, SameRange, SameKeep
     DEF R!Canonical, RP!Canonical, R!OwnOf, RP!OwnOf, R!Ids, RP!Ids, R!Less, RP!Less
<1>2. RP!Init /\ [][RP!Next]_(RP!vars) => []RP!Canonical
  BY RP!CanonicalHolds, RoutingAssumptions DEF RP!Spec
<1>3. QED
  BY <1>1, <1>2, RoutesBehave, PTL

\* The rule a request of the proxy is answered by is the most specific one of its
\* host's first entry that has one.
THEOREM MostSpecificHolds == Spec => []R!MostSpecific
<1>1. RP!MostSpecific => R!MostSpecific
  BY SameGroupAnswer, SameMatch, SameRange
     DEF R!MostSpecific, RP!MostSpecific, R!NoAnswer, RP!NoAnswer
<1>2. RP!Init /\ [][RP!Next]_(RP!vars) => []RP!MostSpecific
  BY RP!MostSpecificHolds, RoutingAssumptions DEF RP!Spec
<1>3. QED
  BY <1>1, <1>2, RoutesBehave, PTL

\* Whatever the proxy does, an ingress changes only answers that it gives or gave.
THEOREM IsolationHolds == Spec => R!Isolation
<1> DEFINE A == \A host \in DOMAIN routes : \A q \in Paths :
                  LET old == R!Answer(routes, host, q)
                      new == R!Answer(routes', host, q)
                  IN  old # new =>
                        \E id \in R!Ids : ingOurs'[id] # ingOurs[id] /\ id \in {old.id, new.id}
           B == \A host \in DOMAIN routes : \A q \in Paths :
                  LET old == RP!Answer(routes, host, q)
                      new == RP!Answer(routes', host, q)
                  IN  old # new =>
                        \E id \in RP!Ids : ingOurs'[id] # ingOurs[id] /\ id \in {old.id, new.id}
<1>1. [B]_(RP!vars) => [A]_(R!vars)
  BY SameAnswer DEF R!vars, RP!vars, R!Ids, RP!Ids
<1>2. RP!Init /\ [][RP!Next]_(RP!vars) => RP!Isolation
  BY RP!IsolationHolds, RoutingAssumptions DEF RP!Spec
<1> HIDE DEF A, B
<1>3. RP!Isolation => [][B]_(RP!vars)
  BY PTL DEF RP!Isolation, B
<1>4. [][A]_(R!vars) => R!Isolation
  BY PTL DEF R!Isolation, A
<1>5. QED
  BY <1>1, <1>2, <1>3, <1>4, RoutesBehave, PTL

\* endpoints.go:91-105, with the proxy's requests: the address a request is handed is
\* one the service had when it looked, whichever other tables it read before.
THEOREM CurrentAddressHolds == Spec => []E!CurrentAddress
<1>1. EP!CurrentAddress => E!CurrentAddress
  BY DEF E!CurrentAddress, EP!CurrentAddress, E!Range, EP!Range
<1>2. EP!Init /\ [][EP!Next]_(EP!vars) => []EP!CurrentAddress
  BY EP!CurrentAddressHolds, EndpointsAssumptions DEF EP!Spec
<1>3. QED
  BY <1>1, <1>2, EndpointsBehave, PTL

\* The proxy's requests take a set's addresses in turn.
THEOREM BalancedHolds == Spec => []E!Balanced
<1>1. \A h : E!Total(h) = EP!Total(h)
  BY DEF E!Total, EP!Total
<1>2. EP!Balanced => E!Balanced
  BY <1>1 DEF E!Balanced, EP!Balanced
<1>3. EP!Init /\ [][EP!Next]_(EP!vars) => []EP!Balanced
  BY EP!BalancedHolds, EndpointsAssumptions DEF EP!Spec
<1>4. QED
  BY <1>2, <1>3, EndpointsBehave, PTL

-----------------------------------------------------------------------------
(* Types.                                                                  *)

Places == {"idle", "route", "scheme", "lookup", "address", "trip", "copy", "end"}
Answers == {"none", "whole", "cut", "failed"}

\* The types of a request's record x, and of what getNextAddr has of it.
Record(x) == /\ x.pc \in Places /\ x.target \in Outcomes /\ x.could \subseteq Outcomes
             /\ x.answer \in Answers
Typed(r) == Record(req[r]) /\ ((lookup[r].pc # "idle") <=> (req[r].pc = "address"))

TInv == arrived \in 0..MaxPicks /\ \A r \in Requests : Typed(r)

\* A status without a target, and a target, are outcomes.
LEMMA StatusType ==
  ASSUME NEW code \in {0, 301, 404, 502}
  PROVE  Status(code) \in Outcomes
  BY DEF Status, Outcomes

\* A target made of a service's address is an outcome.
LEMMA TargetType ==
  ASSUME NEW via \in {"h2c", "tls", "plain"}, NEW x \in E!ServiceAddrs
  PROVE  Target(via, x) \in Outcomes
  BY DEF Target, Outcomes

\* What is owed at any moment are outcomes.
LEMMA OwedType ==
  ASSUME NEW addrs, \A k \in PortNames : addrs[k] \in Seq(EP!AddrSets)
  PROVE  \A rts, svc, tls, path : Owed(rts, svc, addrs, tls, path) \subseteq Outcomes
<1>1. \A protocol : Speaks(protocol) \in {"h2c", "tls", "plain"}
  BY DEF Speaks
<1>2. ASSUME NEW k \in PortNames, NEW via \in {"h2c", "tls", "plain"}
      PROVE  OwedPort(via, addrs, k) \subseteq Outcomes
  <2>1. CASE addrs[k] = <<>>
    BY <2>1, StatusType DEF OwedPort
  <2>2. CASE addrs[k] # <<>>
    <3>1. Last(addrs[k]) \in EP!AddrSets
      BY <2>2 DEF Last
    <3>2. Last(addrs[k]).addrs \in Seq(E!ServiceAddrs)
      BY <3>1, SameServiceAddrs DEF EP!AddrSets
    <3>3. \A x \in Range(Last(addrs[k]).addrs) : x \in E!ServiceAddrs
      BY <3>2 DEF Range
    <3>4. \A x \in Range(Last(addrs[k]).addrs) : Target(via, x) \in Outcomes
      BY <3>3, TargetType
    <3>5. QED
      BY <2>2, <3>4 DEF OwedPort
  <2>3. QED
    BY <2>1, <2>2
<1>3. \A rule, svc : OwedRule(rule, svc, addrs) \subseteq Outcomes
  BY <1>1, <1>2, KeyIsName DEF OwedRule
<1>4. QED
  BY <1>3, StatusType DEF Owed

\* What is owed of the tables as they are is a set of outcomes.
LEMMA OwedNow ==
  ASSUME EP!IInv
  PROVE  \A rts, svc, tls, path : Owed(rts, svc, sets, tls, path) \subseteq Outcomes
<1>1. \A k \in PortNames : sets[k] \in Seq(EP!AddrSets)
  BY DEF EP!IInv, EP!Published
<1>2. QED
  BY <1>1, OwedType

\* One request goes on, and the others stay as they are.
LEMMA TypedStep ==
  ASSUME IInv, TInv, NEW r \in Requests, NEW x,
         req' = [req EXCEPT ![r] = x], Record(x),
         (lookup'[r].pc # "idle") <=> (x.pc = "address"),
         \A q \in Requests \ {r} : lookup'[q] = lookup[q],
         arrived' \in 0..MaxPicks
  PROVE  TInv'
<1>1. \A q \in Requests : req'[q] = IF q = r THEN x ELSE req[q]
  BY DEF IInv, Shape
<1>2. ASSUME NEW q \in Requests PROVE Typed(q)'
  <2>1. CASE q = r
    BY <1>1, <2>1 DEF Typed
  <2>2. CASE q # r
    BY <1>1, <2>2 DEF TInv, Typed
  <2>3. QED
    BY <2>1, <2>2
<1>3. QED
  BY <1>2 DEF TInv

\* The workers' steps: what is collected are outcomes of the tables as they become.
LEMMA TypedWitness ==
  ASSUME IInv, IInv', TInv, ApplyIngress \/ ApplyService \/ ApplyEndpoints
  PROVE  TInv'
<1>1. UNCHANGED <<lookup, arrived>>
  BY DEF ApplyIngress, ApplyService, ApplyEndpoints
<1>2. PICK t, rts, svc : t \in Tables /\ Witness(t, rts, svc, sets')
  BY DEF ApplyIngress, ApplyService, ApplyEndpoints, Tables
<1>3. \A tls, path : Owed(rts, svc, sets', tls, path) \subseteq Outcomes
  <2>1. \A k \in PortNames : sets'[k] \in Seq(EP!AddrSets)
    BY DEF IInv, EP!IInv, EP!Published
  <2>2. QED
    BY <2>1, OwedType
<1>4. ASSUME NEW r \in Requests PROVE Typed(r)'
  <2> DEFINE m == req[r].moved \cup {t}
             c == req[r].could \cup Owed(rts, svc, sets', req[r].tls, req[r].path)
  <2>1. req'[r] = IF Deciding(r) THEN [req[r] EXCEPT !.moved = m, !.could = c] ELSE req[r]
    BY <1>2 DEF Witness
  <2>2. c \subseteq Outcomes
    BY <1>3 DEF TInv, Typed, Record
  <2> HIDE DEF m, c
  <2>3. DOMAIN req[r] = DOMAIN NoRequest
    BY DEF IInv, Shape
  <2>4. Record(req'[r]) /\ req'[r].pc = req[r].pc
    BY <2>1, <2>2, <2>3 DEF TInv, Typed, Record, NoRequest
  <2>5. QED
    BY <1>1, <2>4 DEF TInv, Typed
<1>5. QED
  BY <1>1, <1>4 DEF TInv

\* A request's steps.
LEMMA TypedRequest ==
  ASSUME IInv, IInv', TInv, NEW r \in Requests,
         \/ Step(r) \/ RoundTrip(r) \/ Copy(r)
         \/ \E tls \in BOOLEAN, path \in Paths : Arrive(r, tls, path)
  PROVE  TInv'
<1>0. /\ Record(req[r]) /\ ((lookup[r].pc # "idle") <=> (req[r].pc = "address"))
      /\ DOMAIN req[r] = DOMAIN NoRequest
      /\ arrived \in 0..MaxPicks
  BY DEF TInv, Typed, IInv, Shape
<1>1. ASSUME NEW code \in {404, 301, 502}, Recovered(r, code), lookup'[r].pc = "idle",
             \A q \in Requests \ {r} : lookup'[q] = lookup[q], arrived' = arrived
      PROVE  TInv'
  <2> DEFINE t == Status(code)
             x == [NoRequest EXCEPT !.pc = "end", !.target = t, !.answer = "whole"]
  <2>1. t \in Outcomes
    BY StatusType
  <2>2. req' = [req EXCEPT ![r] = x]
    BY <1>1 DEF Recovered
  <2> HIDE DEF t
  <2>3. Record(x) /\ x.pc = "end"
    BY <2>1 DEF Record, NoRequest, Places, Answers
  <2> HIDE DEF x
  <2>4. QED
    BY <1>0, <1>1, <2>2, <2>3, TypedStep, ZenonT(30)
<1>2. CASE MatchRoute(r)
  <2> DEFINE a == R!Answer(routes, Host, req[r].path)
             x == [req[r] EXCEPT !.pc = "scheme", !.rule = a.rule]
  <2>1. req[r].pc = "route" /\ UNCHANGED <<lookup, arrived>>
    BY <1>2 DEF MatchRoute
  <2>2. \/ Recovered(r, 404) \/ Recovered(r, 301)
        \/ req' = [req EXCEPT ![r].pc = "scheme", ![r].rule = a.rule]
    BY <1>2 DEF MatchRoute
  <2> HIDE DEF a
  <2>3. CASE req' = [req EXCEPT ![r].pc = "scheme", ![r].rule = a.rule]
    <3>1. req' = [req EXCEPT ![r] = x]
      BY <2>3 DEF IInv, Shape
    <3>2. Record(x) /\ x.pc = "scheme"
      BY <1>0 DEF Record, NoRequest, Places
    <3> HIDE DEF x
    <3>3. QED
      BY <1>0, <2>1, <3>1, <3>2, TypedStep
  <2>4. QED
    BY <1>0, <1>1, <2>1, <2>2, <2>3
<1>3. CASE GetScheme(r)
  <2> DEFINE s == S!Scheme(appProtos, E!KeyName(req[r].rule.backend))
             x == [req[r] EXCEPT !.pc = "lookup", !.scheme = s]
  <2>1. /\ req[r].pc = "scheme" /\ UNCHANGED <<lookup, arrived>>
        /\ req' = [req EXCEPT ![r].pc = "lookup", ![r].scheme = s]
    BY <1>3 DEF GetScheme
  <2> HIDE DEF s
  <2>2. req' = [req EXCEPT ![r] = x]
    BY <2>1 DEF IInv, Shape
  <2>3. Record(x) /\ x.pc = "lookup"
    BY <1>0 DEF Record, NoRequest, Places
  <2> HIDE DEF x
  <2>4. QED
    BY <1>0, <2>1, <2>2, <2>3, TypedStep
<1>4. CASE Lookup(r)
  <2> DEFINE x == [req[r] EXCEPT !.pc = "address"]
  <2>1. /\ E!Lookup(r, req[r].rule.backend) /\ UNCHANGED arrived
        /\ req' = [req EXCEPT ![r] = x]
    BY <1>4 DEF Lookup
  <2>2. lookup'[r].pc \in {"none", "pick"} /\ \A q \in Requests \ {r} : lookup'[q] = lookup[q]
    BY <2>1 DEF E!Lookup, IInv, EP!IInv, EP!Held
  <2>3. Record(x) /\ x.pc = "address"
    BY <1>0 DEF Record, NoRequest, Places
  <2> HIDE DEF x
  <2>4. QED
    BY <1>0, <2>1, <2>2, <2>3, TypedStep
<1>5. CASE Pick(r)
  <2>1. /\ E!Pick(r) /\ UNCHANGED <<arrived, req>> /\ lookup[r].pc = "pick"
    BY <1>5 DEF Pick, E!Pick
  <2>2. lookup'[r].pc = "got" /\ \A q \in Requests \ {r} : lookup'[q] = lookup[q]
    BY <2>1 DEF E!Pick, E!Take, IInv, EP!IInv, EP!Held, EP!ReqTypes
  <2>3. QED
    BY <1>0, <2>1, <2>2 DEF TInv, Typed
<1>6. CASE Direct(r)
  <2> DEFINE t == Target(Transport(req[r].scheme), lookup[r].addr)
             x == [NoRequest EXCEPT !.pc = "trip", !.target = t]
  <2>1. /\ E!Return(r) /\ UNCHANGED arrived
        /\ IF lookup[r].addr = NoAddr THEN Recovered(r, 502) ELSE req' = [req EXCEPT ![r] = x]
    BY <1>6 DEF Direct
  <2>2. lookup'[r].pc = "idle" /\ \A q \in Requests \ {r} : lookup'[q] = lookup[q]
    BY <2>1 DEF E!Return, E!NoRequest, IInv, EP!IInv, EP!Held
  <2>3. lookup[r].addr \in E!ServiceAddrs \cup {NoAddr}
    BY SameServiceAddrs DEF IInv, EP!IInv, EP!Held, EP!ReqTypes
  <2>4. CASE lookup[r].addr # NoAddr
    <3>1. Transport(req[r].scheme) \in {"h2c", "tls", "plain"}
      BY DEF Transport
    <3>2. t \in Outcomes
      BY <2>3, <2>4, <3>1, TargetType
    <3> HIDE DEF t
    <3>3. Record(x) /\ x.pc = "trip"
      BY <3>2 DEF Record, NoRequest, Places, Answers
    <3>4. req' = [req EXCEPT ![r] = x]
      BY <2>1, <2>4
    <3> HIDE DEF x
    <3>5. QED
      BY <1>0, <2>1, <2>2, <3>3, <3>4, TypedStep
  <2>5. QED
    BY <1>0, <1>1, <2>1, <2>2, <2>4
<1>7. Pending \in Outcomes
  BY StatusType DEF Pending
<1>8. ASSUME NEW x, Record(x), x.pc # "address", req' = [req EXCEPT ![r] = x],
             req[r].pc # "address", UNCHANGED lookup, arrived' \in 0..MaxPicks
      PROVE  TInv'
  BY <1>0, <1>8, TypedStep
<1>9. CASE RoundTrip(r) \/ Copy(r)
  <2>1. req[r].pc # "address" /\ UNCHANGED <<lookup, arrived>>
    BY <1>9 DEF RoundTrip, Copy
  <2>2. \/ req' = [req EXCEPT ![r] = [NoRequest EXCEPT !.pc = "copy"]]
        \/ \E a \in Answers : req' = [req EXCEPT ![r] = Ended(a)]
    BY <1>9 DEF RoundTrip, Copy, Answers
  <2>3. Record([NoRequest EXCEPT !.pc = "copy"]) /\ [NoRequest EXCEPT !.pc = "copy"].pc = "copy"
    BY <1>7 DEF Record, NoRequest, Places, Answers
  <2>4. \A a \in Answers : Record(Ended(a)) /\ Ended(a).pc = "end"
    BY <1>7 DEF Record, Ended, NoRequest, Places
  <2>5. QED
    BY <1>0, <1>8, <2>1, <2>2, <2>3, <2>4
<1>10. ASSUME NEW tls \in BOOLEAN, NEW path \in Paths, Arrive(r, tls, path)
       PROVE  TInv'
  <2> DEFINE c == Owed(routes, service, sets, tls, path)
             x == [NoRequest EXCEPT !.pc = "route", !.tls = tls, !.path = path, !.could = c]
  <2>1. /\ req[r].pc # "address" /\ arrived' = arrived + 1 /\ arrived < MaxPicks
        /\ req' = [req EXCEPT ![r] = x] /\ UNCHANGED lookup
    BY <1>10 DEF Arrive, tables
  <2>2. c \subseteq Outcomes
    BY OwedNow DEF IInv
  <2> HIDE DEF c
  <2>3. Record(x) /\ x.pc = "route"
    BY <1>7, <2>2 DEF Record, NoRequest, Places, Answers
  <2>4. arrived' \in 0..MaxPicks
    BY <1>0, <2>1, BoundsAssumption
  <2> HIDE DEF x
  <2>5. QED
    BY <1>8, <2>1, <2>3, <2>4
<1>11. QED
  BY <1>2, <1>3, <1>4, <1>5, <1>6, <1>9, <1>10 DEF Step

\* The types hold in every state: a request is always at one of its places, could
\* always have had an outcome of the tables' kind, and is known to getNextAddr just
\* while it takes an address.
THEOREM TypesHold == Spec => []TypeOK
<1>1. Init => TInv
  <2>1. Pending \in Outcomes
    BY StatusType DEF Pending
  <2>2. ASSUME Init PROVE \A r \in Requests : Typed(r)
    BY <2>1, <2>2 DEF Init, E!Init, E!NoRequest, Typed, Record, NoRequest, Places, Answers
  <2>3. Init => arrived \in 0..MaxPicks
    BY BoundsAssumption DEF Init
  <2>4. QED
    BY <2>2, <2>3 DEF TInv
<1>2. IInv /\ IInv' /\ TInv /\ [Next]_vars => TInv'
  <2> SUFFICES ASSUME IInv, IInv', TInv, [Next]_vars PROVE TInv'
    OBVIOUS
  <2>1. CASE UNCHANGED vars
    BY <2>1 DEF vars, TInv, Typed
  <2>2. QED
    BY <2>1, TypedWitness, TypedRequest DEF Next
<1>3. IInv /\ TInv /\ R!TypeOK /\ E!TypeOK => TypeOK
  <2> SUFFICES ASSUME IInv, TInv, R!TypeOK, E!TypeOK PROVE TypeOK
    OBVIOUS
  <2>1. S!TypeOK /\ service \in SvcObjects \cup {NoService}
    BY MergedType DEF IInv, Known, S!TypeOK
  <2>2. \A r \in Requests : Typed(r) /\ req[r].moved \subseteq {"routes", "schemes", "endpoints"}
    BY DEF TInv, IInv, Shape, Tables
  <2>3. QED
    BY <2>1, <2>2 DEF TypeOK, TInv, Typed, Record, Places, Answers
<1>4. QED
  BY <1>1, <1>2, <1>3, AlwaysInv, RoutesTyped, EndpointsTyped, PTL DEF Spec

=============================================================================
