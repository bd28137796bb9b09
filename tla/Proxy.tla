--------------------------------- MODULE Proxy ---------------------------------
(***************************************************************************)
(* proxy.go: one request from its arrival to its answer, over the routes   *)
(* (module Routing), the schemes (Services) and the addresses (EndpointSet) *)
(* that three workers change meanwhile.                                    *)
(*                                                                         *)
(* getTarget reads the three tables one after the other, each under its    *)
(* own lock, and holds none of them across two.  What matchRule returns    *)
(* points into slices that update never writes to (it builds new ones), so *)
(* the route in hand does not change.  getTarget ends a request by a panic *)
(* that handler turns into a status.                                       *)
(*                                                                         *)
(* There is one service, as in EndpointSet, and requests for one host.  An *)
(* ingress names the service's ports; backendToServiceKey is applied where *)
(* the key is used and not where the rule is made.                         *)
(***************************************************************************)
EXTENDS Integers, Sequences, SequencesExt, FiniteSets

CONSTANTS Names, Namespaces, Hosts, NoHost, WildcardOf, Segments, Star,
          Regexps, ReMatch, Invalid, IngObjects, Paths, DefaultRedirect,
          NoRule, NoIngress,                                      \* Routing
          PortNames, Unnamed, NumericPorts, EpsObjects, NoAddr, IndexSize,
          MaxUpdates, MaxPicks,                                   \* EndpointSet
          SvcObjects, NoService,                                  \* Services
          Requests,    \* request goroutines
          Host         \* the host every request is for

Ports == PortNames \cup NumericPorts

ASSUME HostAssumption == Host \in Hosts
ASSUME PortsAssumption == Unnamed \in PortNames /\ NumericPorts \cap PortNames = {}
ASSUME BoundsAssumption ==
  MaxUpdates \in Nat /\ MaxPicks \in Nat /\ IndexSize \in Nat \ {0}

VARIABLES routes, ingApplied, ingOurs,                  \* the ingress worker's,
          appProtos,                                    \* the service worker's,
          sets, epsApplied, updates,                    \* the endpoints worker's
          picks, lookup,                                \* getNextAddr's
          service,     \* history: the service last applied
          arrived,     \* number of requests made, at most MaxPicks
          req          \* each request

R == INSTANCE Routing WITH set <- routes, applied <- ingApplied, ours <- ingOurs,
                           Objects <- IngObjects, Backends <- Ports
S == INSTANCE Services
E == INSTANCE EndpointSet WITH applied <- epsApplied, req <- lookup, Objects <- EpsObjects

\* As in Routing.
ASSUME RoutesAssumption ==
  /\ Names \subseteq Nat /\ Namespaces \subseteq Nat
  /\ NoHost \notin Hosts /\ WildcardOf \in [Hosts -> Hosts]
  /\ Paths \subseteq R!AnyPath /\ Star \in Segments
  /\ Invalid \subseteq Regexps /\ ReMatch \in [Regexps \X Paths -> Nat]
  /\ IngObjects \subseteq [ours : BOOLEAN, redirect : R!Annotations, rules : Seq(R!Rules)]
  /\ DefaultRedirect \in BOOLEAN
  /\ NoIngress \notin IngObjects \cup R!Ids /\ NoRule \notin R!IngressRules

\* No address is the empty string; as in EndpointSet, what addItem makes of an object
\* are sequences.
ASSUME EpsObjectsAssumption ==
  /\ NoAddr \notin E!ServiceAddrs
  /\ \A eps \in EpsObjects \cup {E!Gone} : \A k \in PortNames :
       E!Addrs(eps, k) \in Seq(Range(E!Addrs(eps, k)))
ASSUME SvcObjectsAssumption ==
  /\ SvcObjects \subseteq S!Services
  /\ NoService \notin S!Declarations \cup SvcObjects

rvars == <<routes, ingApplied, ingOurs>>
svars == <<appProtos, service>>
tables == <<rvars, svars, sets, epsApplied, updates>>
vars == <<tables, picks, lookup, arrived, req>>

\* An outcome of getTarget: a status and no target, or what is dialled and how.
Status(code) == [status |-> code, via |-> "none", addr |-> NoAddr]
Target(via, addr) == [status |-> 200, via |-> via, addr |-> addr]
Pending == Status(0)

\* moved and could are history: the tables that changed since the request
\* arrived, and the outcomes it could have had at any moment since, until its
\* last table is read.
NoRequest == [pc |-> "idle", tls |-> FALSE, path |-> <<>>, rule |-> NoRule, scheme |-> "http",
              target |-> Pending, moved |-> {}, could |-> {}, answer |-> "none"]

Init == /\ R!Init /\ S!Init /\ E!Init
        /\ service = NoService
        /\ arrived = 0
        /\ req = [r \in Requests |-> NoRequest]

-----------------------------------------------------------------------------
(* What a request is owed at one moment.                                   *)

\* The protocol the service declares for a port name: the port's appProtocol, or
\* else the annotation's.
Declared(svc, k) ==
  IF svc = NoService THEN "HTTP"
  ELSE IF k \in DOMAIN svc.ports THEN svc.ports[k]
  ELSE IF k \in DOMAIN svc.annotation THEN svc.annotation[k] ELSE "HTTP"

\* How it is spoken: HTTP/2 without TLS, TLS, or HTTP/1.1.
Speaks(protocol) ==
  CASE protocol \in {"HTTP2", "http2"} -> "h2c"
    [] protocol = "HTTPS"              -> "tls"
    [] OTHER                           -> "plain"

\* A request that goes to a port: 502 if there is no address, else one of them.
OwedPort(via, addrs, k) ==
  IF addrs[k] = <<>> THEN {Status(502)} ELSE {Target(via, x) : x \in Range(Last(addrs[k]).addrs)}

OwedRule(rule, svc, addrs) ==
  LET k == E!KeyName(rule.backend) IN OwedPort(Speaks(Declared(svc, k)), addrs, k)

Owed(rts, svc, addrs, tls, path) ==
  LET a == R!Answer(rts, Host, path)
  IN  IF a.rule = NoRule THEN {Status(404)}
      ELSE IF a.httpRedir /\ ~tls THEN {Status(301)}
      ELSE OwedRule(a.rule, svc, addrs)

Deciding(r) == req[r].pc \in {"route", "scheme", "lookup"}

\* The requests, when one of the tables becomes what is given.
Witness(table, rts, svc, addrs) ==
  req' = [r \in Requests |->
    IF Deciding(r)
    THEN [req[r] EXCEPT !.moved = @ \cup {table},
                        !.could = @ \cup Owed(rts, svc, addrs, req[r].tls, req[r].path)]
    ELSE req[r]]

-----------------------------------------------------------------------------
(* The three workers.  An object applied again changes no outcome, and is  *)
(* left to the tables' own modules.                                        *)

ApplyIngress ==
  /\ \E id \in R!Ids, object \in IngObjects :
       /\ object # ingApplied[id]
       /\ R!AddItem(id, object)
  /\ Witness("routes", routes', service, sets)
  /\ UNCHANGED <<svars, sets, epsApplied, updates, picks, lookup, arrived>>

ApplyService ==
  /\ \E svc \in SvcObjects : /\ svc # service
                             /\ S!AddItem(svc)
                             /\ service' = svc
  /\ Witness("schemes", routes, service', sets)
  /\ UNCHANGED <<rvars, sets, epsApplied, updates, picks, lookup, arrived>>

ApplyEndpoints ==
  /\ \E eps \in EpsObjects : /\ eps # epsApplied
                             /\ E!Publish(eps)
                             /\ epsApplied' = eps
  /\ updates < MaxUpdates
  /\ updates' = updates + 1
  /\ Witness("endpoints", routes, service, sets')
  /\ UNCHANGED <<rvars, svars, picks, lookup, arrived>>

-----------------------------------------------------------------------------
(* A request's goroutine.                                                  *)

\* A client's request for a path, among them that of a client that was redirected.
Arrive(r, tls, path) ==
  /\ req[r].pc \in {"idle", "end"}
  /\ arrived < MaxPicks
  /\ arrived' = arrived + 1
  /\ req' = [req EXCEPT ![r] = [NoRequest EXCEPT
               !.pc = "route", !.tls = tls, !.path = path,
               !.could = Owed(routes, service, sets, tls, path)]]
  /\ UNCHANGED <<tables, picks, lookup>>

\* handler's recover: the panic's status is the answer.
Recovered(r, code) ==
  req' = [req EXCEPT ![r] = [NoRequest EXCEPT !.pc = "end", !.target = Status(code),
                                              !.answer = "whole"]]

\* matchRule, and what follows from it alone.
MatchRoute(r) ==
  /\ req[r].pc = "route"
  /\ LET a == R!Answer(routes, Host, req[r].path)
     IN  IF a.rule = NoRule THEN Recovered(r, 404)
         ELSE IF a.httpRedir /\ ~req[r].tls THEN Recovered(r, 301)
         ELSE req' = [req EXCEPT ![r].pc = "scheme", ![r].rule = a.rule]
  /\ UNCHANGED <<tables, picks, lookup, arrived>>

\* Mutant: the scheme is that of the rule that matches now.
GetSchemeRematch(r) ==
  /\ req[r].pc = "scheme"
  /\ LET a == R!Answer(routes, Host, req[r].path)
     IN  req' = [req EXCEPT ![r].pc = "lookup",
                            ![r].scheme = S!Scheme(appProtos, E!KeyName(a.rule.backend))]
  /\ UNCHANGED <<tables, picks, lookup, arrived>>

\* Mutant: a request waits for the service to be known.
GetSchemeWaits(r) ==
  /\ req[r].pc = "scheme"
  /\ appProtos # NoService
  /\ req' = [req EXCEPT ![r].pc = "lookup",
                        ![r].scheme = S!Scheme(appProtos, E!KeyName(req[r].rule.backend))]
  /\ UNCHANGED <<tables, picks, lookup, arrived>>

GetScheme(r) ==
  /\ req[r].pc = "scheme"
  /\ req' = [req EXCEPT ![r].pc = "lookup",
                        ![r].scheme = S!Scheme(appProtos, E!KeyName(req[r].rule.backend))]
  /\ UNCHANGED <<tables, picks, lookup, arrived>>

\* getNextAddr: the set is looked up, and the address taken from it later.
Lookup(r) ==
  /\ req[r].pc = "lookup"
  /\ E!Lookup(r, req[r].rule.backend)
  /\ req' = [req EXCEPT ![r].pc = "address"]
  /\ UNCHANGED <<rvars, svars, arrived>>

Pick(r) == E!Pick(r) /\ UNCHANGED <<rvars, svars, arrived, req>>

\* Mutant: the scheme is left as it is for the transport.
TransportAsIs(scheme) == scheme

\* httpTransport.RoundTrip's choice.
Transport(scheme) == CASE scheme = "http2" -> "h2c"
                       [] scheme = "https" -> "tls"
                       [] OTHER            -> "plain"

\* The director has a target, or there is no address.
Direct(r) ==
  /\ req[r].pc = "address"
  /\ E!Return(r)
  /\ IF lookup[r].addr = NoAddr THEN Recovered(r, 502)
     ELSE req' = [req EXCEPT ![r] = [NoRequest EXCEPT
                    !.pc = "trip",
                    !.target = Target(Transport(req[r].scheme), lookup[r].addr)]]
  /\ UNCHANGED <<rvars, svars, arrived>>

\* What is left of a request that was sent to a backend.
Ended(answer) == [NoRequest EXCEPT !.pc = "end", !.answer = answer]

\* The backend begins to answer; or it fails, and errorHandler answers 502; or
\* the client has gone, and nothing is answered.
RoundTrip(r) ==
  /\ req[r].pc = "trip"
  /\ \/ req' = [req EXCEPT ![r] = [NoRequest EXCEPT !.pc = "copy"]]
     \/ req' = [req EXCEPT ![r] = Ended("failed")]
     \/ req' = [req EXCEPT ![r] = Ended("none")]
  /\ UNCHANGED <<tables, picks, lookup, arrived>>

\* The body is copied, or is cut off.  The reverse proxy then panics for the
\* server to abort the connection; handler recovers from that like from any
\* other panic, and the answer ends as if it were whole.
Copy(r) ==
  /\ req[r].pc = "copy"
  /\ \E answer \in {"whole", "cut"} : req' = [req EXCEPT ![r] = Ended(answer)]
  /\ UNCHANGED <<tables, picks, lookup, arrived>>

Step(r) == MatchRoute(r) \/ GetScheme(r) \/ Lookup(r) \/ Pick(r) \/ Direct(r)

Next == \/ ApplyIngress
        \/ ApplyService
        \/ ApplyEndpoints
        \/ \E r \in Requests : \/ \E tls \in BOOLEAN, path \in Paths : Arrive(r, tls, path)
                               \/ Step(r)
                               \/ RoundTrip(r)
                               \/ Copy(r)

\* The request's goroutine goes on; backends, clients and workers owe nothing.
Spec == Init /\ [][Next]_vars /\ \A r \in Requests : WF_vars(Step(r))

-----------------------------------------------------------------------------
(* Properties.                                                             *)

Outcomes == [status : {0, 200, 301, 404, 502}, via : {"none", "h2c", "tls", "plain"},
             addr : E!ServiceAddrs \cup {NoAddr}]

\* The tables' types are those of their modules; a request that is taking an
\* address is one that getNextAddr knows of, and no other is.
TypeOK ==
  /\ R!TypeOK /\ S!TypeOK /\ E!TypeOK
  /\ service \in SvcObjects \cup {NoService}
  /\ arrived \in 0..MaxPicks
  /\ \A r \in Requests :
       /\ req[r].pc \in {"idle", "route", "scheme", "lookup", "address", "trip", "copy", "end"}
       /\ req[r].target \in Outcomes
       /\ req[r].could \subseteq Outcomes
       /\ req[r].moved \subseteq {"routes", "schemes", "endpoints"}
       /\ req[r].answer \in {"none", "whole", "cut", "failed"}
       /\ (lookup[r].pc # "idle") <=> (req[r].pc = "address")

\* Although route, scheme and address are read one after the other, a request
\* during which only one of the tables changed, however often, is sent where, and
\* spoken to as, or is answered what the tables of a single moment of it say.
\* A 404 or a 301 is what one moment says whatever changed: it is decided by the
\* routes alone.
OneMoment ==
  [][\A r \in Requests :
       LET t == req'[r].target
       IN  t \notin {req[r].target, Pending}
             /\ (Cardinality(req[r].moved) <= 1 \/ t.status \in {301, 404})
           => t \in req[r].could]_vars

\* A request gets a target or an answer, whatever the tables hold and however
\* often they change.
Decided == \A r \in Requests : req[r].pc = "route" ~> req[r].pc \in {"trip", "end"}

=============================================================================
