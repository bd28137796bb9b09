# A TLA+ verification development of minke

minke is a Kubernetes ingress controller and HTTP(S) proxy in one Go process. It
watches four kinds of objects (ingresses, services, endpoints, secrets), keeps a table
for each, and answers requests and TLS handshakes from the tables. Everything hard
about it is in the tables: four workers write them while any number of request and
handshake goroutines read them, under a handful of locks that are never held across
two tables.

## Inventory

| Component | Source | State | Operations | What makes it correct |
|---|---|---|---|---|
| Processor (one per kind) | `processor.go` | informer store, work queue | event handlers, `processNextItem`, `run` | every change reaches the table, in spite of deduplication and of reading the store late; no older version overwrites a newer one; a stop drains |
| Routes | `ingress.go` | host → sorted ingresses with rules | `addItem`, `update`, `clear`, three `matchRule`s | the table is a function of the objects, not of their history; the most specific rule answers; only our class |
| Endpoint sets | `endpoints.go` | port name → addresses and a shared index | `addItem`, `delItem`, `getNextAddr` | round robin under concurrency; never an empty set; current addresses |
| Secret cache and certificate map | `secrets.go` | secrets, host → entries, defaults | `addItem`, `getSecret`, `getCert`, `updateSecret`, `updateIngress`, `setDefaults` | a certificate comes from its entry's secret, is the newest, and no lock order blocks |
| Certificate selection | `secrets.go`, `proxy.go` | none of its own | `GetCertificate` | serves the best certificate the client can use, for its own name first |
| Service schemes | `services.go` | port name → scheme | `addItem`, `getServicePortScheme` | the scheme of the port the address came from |
| Proxy | `proxy.go`, `transport.go` | none | `handler`, `getTarget`, `director` | one request reads three tables, and is answered as if it had read them at one moment; every request gets a target or an answer |
| Lifecycle | `controller.go`, `cmd/minke/main.go` | started workers, `stopping` | `Run`, `Stop`, `HasSynced`, probes, signals | default certificates before routes; ready leads to service; requests in flight have live tables; everything ends |
| Options, status page, metrics, tracing | `controller.go`, `metrics.go`, `tracing.go` | configuration | | no behaviour to model |

How they interact: the informer's listener and the worker of a processor share the work
queue. The ingress worker calls into the certificate map (`updateIngress`), which may
call into the secret cache, which may spread a certificate back over the map. `Run` does
the same for the defaults, while the secret worker runs and before the ingress worker
does. A request reads routes, schemes and endpoints under three locks one after the
other; a handshake holds the map's read lock throughout and takes each entry's for a
moment. `main` runs the servers around all this and, when a signal comes or a listener
fails, shuts them down one after the other before it closes the channel that ends the
controller.

The hard behaviours are listed in `PROJECT.json` under "hazards", each at its line, with
the properties aimed at it.

## Modules

`Reconciler` is the abstract specification of a processor: a change of the store leaves
a debt, a debt is paid by reading the store once and applying what was read. It has
neither queue nor worker.

`Processor` is `processor.go` step by step. A step is what happens between two points
where another goroutine may act: `InformerUpdate` (store and notification),
`HandleEvent` (the three handlers, which queue only the key), `Get`, `ReadIndexer`,
`AddItem` / `DelItem`, `Finish` (the deferred `Done`), `Quit`, `ShutDown`. The work queue
is client-go's queue, dirty set and processing set. Deleted objects are processed with a
nil object, so `DelItem` leaves the table alone, which is what the code does.

`Certificates` is the write side of `secrets.go`. The three callers ("sec", "ing",
"run") go through the same calls, so `call[w]` holds where worker w is in them. Actions:
`AddSecret`; `Lookup`, `List`, `Store`, `Reload` under `getCert`; `SpreadStart`,
`SpreadOne`, `SpreadEnd` for `updateSecret`, which holds the map's read lock and takes
one entry at a time; `NextTLS`, `CallLock`, `UpdateIngress`; `NextDefault`, `GotDefault`,
`SetDefaults`; and a handshake that takes the read lock. Go's RWMutex is modelled with
its writer preference: a waiting writer keeps new readers out. What a secret holds is a
model value; two constants say which contents lack a key pair and which do not parse. A
certificate is the pair of the secret and the content it was parsed from, so that
freshness and crossing over can be stated.

`Handshake` is the read side: the six loops of `GetCertificate`, one action per entry,
against `updateSecret` replacing certificates under it. The lists it walks are fixed
during a handshake, which `Certificates!ReadersUndisturbed` justifies.

`EndpointSet` is `endpoints.go` for one service. Sets that were published stay reachable
for the requests that looked them up before they were replaced, so a port name has a
sequence of sets, of which the map holds the last. The index wraps at `IndexSize` (2^64
in the code). `KeyName` is what `backendToServiceKey` makes of an ingress's port: a name,
or for a number the portless entry.

`Routing` is the ingress table and the matching of a request: the path types and their
normalisation and the redirect annotation in `addItem`, the filter, append and sort of
`update`, and the three levels of `matchRule`. A path is its segments and a final slash.
Adding an object and matching a request are both one critical section, so both are one
step; the answer to a request (a rule, and whether plain HTTP is redirected) is an
operator of the table.

`Lists` is the loop by which `ingressSet.update` and `updateIngress` filter a slice. Its
test is a set and not an operator, as `SelectSeq`'s is, so that one lemma serves every
test.

`Services` is `services.go`: the protocols of an annotation and of the ports, merged, and
the scheme a port's protocol means. `delItem` changes nothing, as it is called.

`Proxy` composes `Routing`, `Services` and `EndpointSet` by `INSTANCE` with the request
that reads them: `MatchRoute`, `GetScheme`, `Lookup`, `Pick` and `Direct` are
`getTarget`, read by read, and `ApplyIngress`, `ApplyService` and `ApplyEndpoints` are
the three workers, which may run between any two of them. A panic with an `httpError` and
`handler`'s recover are one operator, `Recovered`; `Transport` is the choice
`httpTransport` makes by the scheme; `RoundTrip` and `Copy` are what the backend may do
after that. `service` is the object last applied, kept so that what a service declares
can be said without the scheme table; `moved` and `could` are the request's history,
which tables changed since it arrived and which outcomes any moment since would have
given it. They are dropped with the last table read.

`Controller` is `Run`, `Stop`, `HasSynced` and what they do with the four processors:
`SyncSecrets`, `SetDefaults`, `SyncAll` and `Return` are the statements of `Run`, each of
which waits or does not; of a processor there are the goroutine that shuts the queue in
the end (`EndRunner`), the informer (`Store`, `Notify`, `EndInformer`) and the worker
(`Take`, `Apply`, `EndWorker`), and of an object how far it has come between them. That
`WaitForCacheSync` may give up, which `Run` does not look at, is the `\/ stop` in the
guards. `Main` extends it with `cmd/minke/main.go`: the signal and the goroutine that
waits for one, four listeners that may fail, requests in flight, and the shutdown of one
server after the other (`ShutdownHTTP`, `ShutdownHTTPS`, `CloseStop`).

`MC*` modules give the constants values for TLC. Definitions whose comment begins with
"Mutant:" are plausible mistakes in the definition after them; each property is known to
fail under one of them. `*_proofs` modules hold a component's theorems; `Lists_proofs`
has what those of `Certificates` and `Routing` share.

## Runs

| Run | Module, cfg | Shows |
|---|---|---|
| processor | `MCProcessor` | types; the queue's discipline; versions in order; no lost update; never backwards; every version is reconciled; a stop drains; the processor is a `Reconciler` |
| certs | `MCCertificates` | certificates are not crossed over; lists well formed; readers undisturbed; at rest every certificate is fresh unless two workers were busy with its secret at once |
| certs_live | `MCCertificates`, `...Live.cfg` | no call and no handshake is blocked for ever |
| handshake | `MCHandshake` | what is served is for the name, preferred as the comment on `GetCertificate` says, the name's own first; panics only on the loss of a certificate; every handshake ends |
| endpoints | `MCEndpointSet` | no division by zero, round robin within one, current addresses |
| routing | `MCRouting` | the table is canonical, the most specific rule answers, an ingress only changes answers to or from itself |
| proxy | `MCProxy` | a request during which one table changed ends as the tables of a single moment say; it always ends with a target or an answer |
| main | `MCMain` | default certificates first; requests in flight have live tables; readiness leads to service; closing the channel ends every goroutine, and a signal or a failed listener the process |

Runs that are expected to find a violation, each of a sentence in the repository:

| Run | Property | What happens |
|---|---|---|
| processor_ghosts | `NoGhosts` | `delItem` gets nil, so nothing that was deleted leaves a table |
| certs_stale | `LiveUpdate` | `setDefaults` or `updateIngress` installs a certificate it read before the secret changed; nothing updates it afterwards |
| handshake_acceptable | `AcceptableServed` | line 202 asks about `c.cert` read again without its lock and returns the one read before |
| endpoints_port | `Dialable` | a numeric port finds the portless addresses, and port 0 is dialled |

### Bounds

- processor: two keys, so that one waits while the other is processed; two versions and
  a deletion per key; two waiting notifications, so that a key can be announced again
  while it is queued or processed. The theorems hold for any number of them.
- certs: two secrets, of which one is both the second TLS entry of an ingress and the
  default; two contents, one that does not parse and one without a key pair; one ingress
  that is added again and again with either of two TLS lists; two hosts. That is the
  least in which all three workers meet on one secret. certs_live: one secret and one
  content, but two ingresses: the data does not matter to the locks.
- handshake: lists of up to two entries, with the wildcard and the defaults sharing one
  with the name's own list. The runs check for deadlock, too.
- endpoints: two requests, two objects applied out of five, six addresses taken, and an
  index that wraps at 3: six takes are two wraps, and 3 is no multiple of 2 as 2^64 is
  none of 3. Without the wrap's allowance `Balanced` fails.
- routing: four ingresses (two names in two namespaces), objects with every path type,
  two blocks for one host, and another class; requests for every host and for paths at
  and below the rules' own.
- proxy: one request, since requests meet in nothing but the index, which is
  `EndpointSet`'s matter; one ingress that goes to either of two ports, with a redirect
  to the one and without to the other; a service whose annotation and ports disagree, and
  one with a protocol that is not known; two objects of endpoints, of which one lacks a
  port that the other has, and two applications of them, so that one of them falls
  between a lookup and the address. The workers of the other
  tables are not bounded. `OneMoment` is false without its condition: a request that
  reads the old route and the new endpoints goes where no moment's tables would have
  sent it.
- main: secrets, and ingresses for the three kinds that `Run` treats alike; one object of
  each; up to two requests in flight with each server, so that one may end while another
  holds up the shutdown.

### Fairness

Weak fairness of a goroutine's steps is what Go's scheduler gives. In `Processor` the
listener and the worker are fair, the API server and the stop are not: nobody owes a
change. In `Certificates` the read lock's steps are strongly fair, since a waiting reader
is let in before the next writer (a property of sync.RWMutex); a writer needs only weak
fairness, because no reader enters while it waits. `SecretChanges`, `AddIngress` and
`Hello` are inputs and not fair. In `Handshake` only the handshake's own steps are. In
`Proxy` it is the steps of `getTarget`, none of which waits for anything; clients, workers
and backends owe nothing. In `Main` they are those of `Run`, of the goroutines' ends, of
`main` and of the goroutine that waits for a signal, and those of an object, which assumes
that the API server answers a listing; nobody owes a signal, a call of `Stop` or the
failure of a listener. Requests need not end: `Ends` says what follows if they do, since
`Shutdown` waits without a deadline.

## Proofs

Every safety property that a run checks, invariants and action properties, is a theorem
of its module's specification, for every value of the constants that the module's
assumptions allow.

`Lists_proofs` says what is in a filtered list, that it has no element twice if the list
has none, that it keeps an order, and how filters and appending combine (`KeepAppend`,
`KeepConcat`, `KeepKeep`). `Keep` is a recursive function, and these facts are by
induction over the list; since no theorem with an operator for a parameter can be
instantiated, the induction (`UpTo`, `Appending`) is over sets, that one which has 0 and
with a number its successor has them all, and each lemma names its set.

`Processor_proofs` proves, for any keys, versions and numbers of waiting notifications,
from `NoKeyAssumption` (the worker's "no key" is not a key) and the bounds being natural
numbers:

- `QueueCorrect`: `TypeOK /\ QueueDisciplined` is inductive by itself (`TypesHold`). The
  lemmas on sequences (`RangeOfAppend`, `InjectiveAppend`, `RangeOfTail`,
  `InjectiveTail`) say what appending to and taking from a queue without duplicates does
  to the set of its elements.
- `NeverBackwardsHolds` and `NoUpdateIsLost` need `VersionsInOrder`: that what the worker
  holds is not older than what the table shows cannot be seen from either property alone.
  It is inductive relative to the queue's discipline, because only the worker writes
  (`VersionsInOrderHolds`).
- `RefinesReconciler`: initial states and steps. The refinement maps the debts to the
  keys in the notifications, in the dirty set, or taken and not yet read; a step of the
  queue is a stutter.

`Handshake_proofs` proves, for any entries and any lists, from `NoCertAssumption` and
`ListsAssumption`, that `ServedForName`, `OwnNameFirst`, `PanicsOnlyOnLoss`, `Preference`
and `TypeOK` hold in every state. None of the first four is inductive, since each speaks
of a handshake that has returned; the invariant adds what is true on the way there:

- an entry only has certificates of its own secret (`OwnEntry`), so what is returned at
  an entry is the entry's;
- what was read of a wildcard's entry is that entry's and, if no entry has changed since,
  is still there (`ReadOwn`); so the second read is nil only after a change;
- the option kept for the end is a default's (`LastDefault`);
- each of the six passes has rejected, for its own reason, every entry it has left
  behind, unless an entry has changed (`AllRejected`); so who gets past the first owes
  the name nothing, and who gets past the fifth has no acceptable certificate to serve;
- what the last pass keeps is the first certificate of the defaults it has passed
  (`FirstKept`).

`Preference` compares what was served with `Preferred`, which says of all the candidates
at once, without the passes, what the comment on `GetCertificate` promises. The lemma
`AcceptedPreferred` is the step in which a pass returns: the passes before have rejected
everything that the comment would have preferred.

`Certificates_proofs` proves, for any secrets, ingresses, hosts and defaults, from the
module's three assumptions:

- `ReadersUndisturbedHolds`. The lock is not a variable of the model: the program
  counters say who holds it. The invariant `Inv` therefore types the calls (`CallOK`:
  entries are left to visit only inside `updateSecret`), says that these entries are in
  the map (`Visiting`), and that each of the two writers has what its write needs
  (`IngOK`: a TLS entry; `GotOK`: a certificate for every default). Lemma `InvStep` shows
  with the same induction that the invariant is kept and that nothing to be visited
  leaves the map.
- `OwnCertificateHolds` and `ListsWellFormedHolds`, from `MapInv`: not only the entries,
  but also the calls and the defaults on their way to one have certificates of their own
  secret (`OwnInv`); and filtering an ingress out of a host's list before it is appended
  leaves it there once.
- `FreshUnlessOverlappedHolds`, the property of the three tables together. `Alone` says
  that two workers are busy with one secret at once only if that is recorded; `FreshInv`
  follows a secret that nobody has overlapped on and no change of which is owed: a call
  about it carries the newest content (`Carries`), the cache has it or is about to
  (`CacheFresh`), so have the defaults got so far (`GotFresh`), and so has every entry in
  the map that no worker has yet to visit (`MapFresh`). A step of another worker can
  undo none of this, since it would have to be busy with the same secret.
- `TypeOKHolds`.

`EndpointSet_proofs` proves, for any objects, ports, requests and width of the index, that
`NeverEmpty`, `CurrentAddress`, `Balanced` and `TypeOK` hold in every state. The invariant
of the first two is

- `Published`: every set there ever was has an address, an index in range, and a count for
  each address; `addItem` publishes no empty set and `getNextAddr` changes only index and
  counts, so a set that was looked up can be divided by however late that happens;
- `Latest`: the last set under a name has the addresses of the object last applied, if
  that has any for the name;
- `Held`: a request's set is a published one and has the addresses that were current when
  it looked. That is what makes `CurrentAddress` inductive: the set it holds may have been
  replaced since.

`Balanced` needs `RoundRobin`: since a set was published, its index has wrapped some
number of times w, and each address has been taken as often as it is its turn in w full
rounds of the index and one up to where the index stands (`Upto`). Adding over the
addresses, that makes w times the width plus the index takes in all, so that w is
`Total(hits) \div IndexSize`, and `Upto` gives two addresses shares that differ by at most
one in each round. `Total` is recursive over the counts; its value is followed through
each take by induction.

What `addItem` collects is built with `FlattenSeq`, a recursive definition of which the
provers cannot see that it returns a sequence; `ObjectsAssumption` says so, and TLC
evaluates it for the objects of every run.

`Routing_proofs` proves, for any objects, hosts and paths, from the module's assumptions,
`Canonical`, `MostSpecific`, `Isolation` and `TypeOK`. The invariant is that a host's list
is sorted and that, filtered by an ingress, it is what the last of its objects of our
class makes for that host (`Kept`). `Canonical` says little more, and two lists that are
sorted and have the same entries of each ingress are the same (`SameLists`): that is why
the table depends on the objects last applied alone. `Sort` is shown to be an insertion
sort that keeps each ingress's own order. `MostSpecific` follows for any rules by
induction over `Best`'s loop. `Isolation` compares the first entry that answers before and
after the step: those of the other ingresses are the same and in the same order.

`Proxy_proofs` first shows that the composition is one: `RoutesAreRouting` and
`EndpointsAreEndpointSet` say that each step of the proxy is, for the routes, a step of
`Routing` or a stutter, and likewise for the endpoints, where `getNextAddr`'s two steps lie
between the proxy's. The components' assumptions follow from the proxy's
(`RoutingAssumptions`, `EndpointsAssumptions`), so their theorems hold in it:
`CanonicalHolds`, `MostSpecificHolds`, `IsolationHolds`, `CurrentAddressHolds`,
`BalancedHolds` and the tables' part of `TypesHold`. The lemmas `Same...` are the price of
proving them once: an instance of a component and an instance of its proofs have
operators of their own, which have to be shown equal one by one.

Then it proves `OneMoment`, for any objects, requests and numbers of changes, and that
requests of the proxy divide by no empty set either (`NeverEmptyHolds`). `OneMoment`
speaks of the step that ends a request, so the invariant has to follow it from its
arrival, and to say two things of every point on the way:

- what it has read of a table that has not moved is what the table holds (`Routed`,
  `Schemed`);
- with what it has read, and with what it would read of the remaining tables now, it
  would get one of the outcomes collected so far, if at most one table has moved
  (`Arrived`, `ByRule`, `ByScheme`, `NoneFound`, `SetFound`, `AddrFound`).

When a table moves that had not, and it is the only one, what was read of the others is
current, so what the request would get now is what a request of this moment is owed, and
that is just what is collected. When a table moves that was read before, it is read no
more. The matching of a path stays opaque: the proof only uses that it depends on the
routes. `SchemeSpeaks` shows that table and transport agree with the service's
declaration, with its assumption that what is declared is made of known values.

`Main_proofs` proves `LiveTables`, `DefaultsFirst` and `TypeOK` for any kinds, objects and
number of requests. `Shutdowns` says what main has done by the time it is where it is
(nothing is in flight when it closes the channel); `Endings`, that nothing of a processor
ends but by that channel or `Stop`; `Rounds`, how far `Run` is and that no informer of the
second round runs before the defaults are set. The first two give `LiveTables`, the third
`DefaultsFirst`.

Only model-checked: liveness (`Reconciles`, `Drains`, `CallsReturn`, `HandshakesReturn`,
`HandshakeEnds`, `Decided`, `ReadyServes`, `AllEnd`, `Ends`) and the fairness part of the
refinement (`RSpec`), which are out of the prover's reach. `ObjectsAssumption` and
`RoutesAssumption` are checked by TLC for the objects of the runs.

## What the code does that a reader may not expect

These were met while modelling, and the modules do as the code does.

- A request that no rule matches is answered 404 (`proxy.go`), where DESIGN.md:61 says
  502. Addresses are taken round robin, where DESIGN.md:64 says at random.
- An ingress that changes to another class keeps its routes: `addItem` returns before it
  looks at them. A service that loses all its addresses keeps the last ones in the map,
  since only names with addresses are replaced. Nothing deleted leaves any table.
- A value of the redirect annotation that is no Boolean turns the redirect off, whatever
  the default is.
- The protocol "https" in lower case is not known and means HTTP/1.1 without TLS, while
  "http2" and "http" are accepted.
- A body that the backend cuts off ends towards the client as if it were whole, since
  `handler` recovers from `http.ErrAbortHandler` like from any panic.
- The failure of the http listener is only logged. After the failure of another one the
  process ends with status 0. A second signal is not read.

## Not modelled

- The watch and relist of an informer, TLS, HTTP, WebSockets and the reverse proxy are
  library code; they appear as inputs, or by their outcomes. So are the shutdown of a
  server, of which `Main` has that it waits for its requests, and the http3 server's,
  which waits for none here.
- `delItem` of the updaters is modelled as it is called, with no object. Its body is not.
- Priorities: `addItem` never sets one, so the order is by name and namespace. `sort.Sort`
  is taken as stable, which it is for up to 12 entries of a host.
- A rule without an http block makes the worker panic; the objects of `Routing` have one.
- Default backends are stored and never read by `matchRule`, although DESIGN.md:56-57
  says that they are searched.
- Options, status page, metrics, tracing: configuration and output, no state that another
  part reads. `GetClientCertificate`, whose field is never set.

## Plan

Done: `Reconciler`, `Processor`, `Certificates`, `Handshake`, `EndpointSet`, `Routing`,
`Services`, `Proxy`, `Controller` and `Main`, with the proofs above. Left, in this order:

1. Routes and certificates of one ingress together: the window between `updateIngress`
   and `ings.update`, and TLS entries with hosts of their own.
2. Proofs about that composition: what a handshake may be served for a host whose routes
   are an older version's.
