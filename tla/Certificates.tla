---------------------------- MODULE Certificates ----------------------------
(***************************************************************************)
(* secrets.go: the cache of secrets (secUpdater) and the map from host     *)
(* names to certificates (certMap), with the goroutines that meet there:   *)
(*                                                                         *)
(*   "sec"  the secret processor's worker: addItem of a secret             *)
(*   "ing"  the ingress processor's worker: updateIngress, once for every  *)
(*          TLS entry of the ingress it is adding                          *)
(*   "run"  Controller.Run: setDefaults, before "ing" is started           *)
(*   a TLS handshake, in GetCertificate                                    *)
(*                                                                         *)
(* getCert reads the cache and, when the secret is not there, the lister;  *)
(* it then adds what the lister had, which stores it and spreads its       *)
(* certificate over the map, all of it before the caller's own lock.       *)
(* secUpdater.mu is never held across another step, so a section under it  *)
(* is one action.  certMap's lock is: who holds or awaits it is told by    *)
(* the program counters.                                                   *)
(*                                                                         *)
(* What a secret holds is one of Contents; further constants say which     *)
(* contents lack a key pair or do not parse.  A certificate is the secret  *)
(* and the content it was parsed from.                                     *)
(***************************************************************************)
EXTENDS Naturals, Sequences, Functions, Lists

CONSTANTS Secrets,       \* secretKeys
          Contents,      \* what a secret may hold
          Absent,        \* no such secret
          Ings,          \* ingressKeys
          Hosts,         \* host names, wildcard names among them
          TLSLists,      \* the TLS lists an ingress may have
          Defaults,      \* defaultTLSSecrets, a sequence
          Incomplete,    \* <<s, c>> without tls.crt or tls.key
          Malformed,     \* <<s, c>> that do not parse as a key pair
          NoCert, NoEntry, NoSecret, NoIng

\* A TLS entry names a secret; its certificate is mapped to the ingress's rule
\* hosts when the entry lists no hosts of its own, and to no host when it does.
TLSEntries == [sec : Secrets, hosts : SUBSET Hosts]

Holdings == Secrets \X Contents

ASSUME ContentsAssumption ==
  /\ Absent \notin Contents
  /\ Incomplete \cup Malformed \subseteq Holdings
ASSUME MapAssumption ==
  /\ Defaults \in Seq(Secrets)
  /\ TLSLists \subseteq Seq(TLSEntries)
  /\ Ings \cap DOMAIN Defaults = {}
ASSUME NoneAssumption ==
  /\ NoCert \notin Holdings /\ NoSecret \notin Secrets /\ NoIng \notin Ings
  /\ NoEntry \notin [sec : Secrets, cert : Holdings \cup {NoCert}]

Certs == Holdings \cup {NoCert}
Entries == [sec : Secrets, cert : Certs]
EntryIds == Ings \cup DOMAIN Defaults
Workers == {"sec", "ing", "run"}

\* A worker's call: where it is, the secret its addItem or getCert is about, what
\* it read of that secret, the certificate its updateSecret is spreading and the
\* entries it has not visited.
NoCall == [pc |-> "idle", sec |-> NoSecret, obj |-> Absent, cert |-> NoCert, todo |-> {}]

VARIABLES indexer,    \* the secret informer's store
          owed,       \* secrets the secret processor has yet to look at
          cache,      \* secUpdater.secrets
          set,        \* certMap.set: the ingresses of a host's entries, in order
          entry,      \* the certMapEntry of each ingress and of each default
          call,       \* each worker's call
          ing,        \* the ingress "ing" is adding,
          tls,        \* and what is left of its TLS list
          got,        \* the entries "run" has made so far
          reader,     \* a TLS handshake: idle, at RLock, or inside
          overlapped  \* history: secrets two workers were busy with at once

secretVars == <<indexer, owed, cache>>
mapVars == <<set, entry>>
jobVars == <<ing, tls, got>>
vars == <<secretVars, mapVars, call, jobVars, reader, overlapped>>

\* getCert's X509KeyPair and ParseCertificate.
CertOf(s, c) ==
  IF c = Absent \/ <<s, c>> \in Incomplete \cup Malformed THEN NoCert ELSE <<s, c>>

Init == /\ indexer \in [Secrets -> Contents \cup {Absent}]
        /\ owed = {s \in Secrets : indexer[s] # Absent}
        /\ cache = [s \in Secrets |-> Absent]
        /\ set = [h \in Hosts |-> <<>>]
        /\ entry = [e \in EntryIds |-> NoEntry]
        /\ call = [w \in Workers |-> IF w = "run" THEN [NoCall EXCEPT !.pc = "next"]
                                     ELSE NoCall]
        /\ ing = NoIng
        /\ tls = <<>>
        /\ got = <<>>
        /\ reader = "idle"
        /\ overlapped = {}

-----------------------------------------------------------------------------
(* certMap's RWMutex: a writer waits for the readers to leave, and a writer *)
(* that waits keeps new readers out.                                        *)

At(w, label) == call[w].pc = label

MayRLock == \A w \in Workers : ~At(w, "install")
MayLock == reader # "inside" /\ \A w \in Workers : ~At(w, "spread")

\* The map holds the entry of this ingress, or of this default.
Listed(e) == IF e \in Ings THEN \E h \in Hosts : e \in Range(set[h])
                           ELSE entry[e] # NoEntry

\* Worker w goes on with this call.  The history records the secrets that two
\* workers are then busy with: each has read the secret, or is about to, and
\* what it read is not yet in the map.
Proceed(w, c) ==
  LET busy(v) == LET d == IF v = w THEN c ELSE call[v]
                 IN  ({d.sec} \ {NoSecret})
                       \cup (IF v = "run" THEN {got[n].sec : n \in DOMAIN got} ELSE {})
  IN  /\ call' = [call EXCEPT ![w] = c]
      /\ overlapped' = overlapped \cup UNION {busy(w) \cap busy(v) : v \in Workers \ {w}}

-----------------------------------------------------------------------------
(* The API server and the secret processor, which is a Reconciler.          *)

SecretChanges(s) ==
  /\ \E c \in (Contents \cup {Absent}) \ {indexer[s]} :
       indexer' = [indexer EXCEPT ![s] = c]
  /\ owed' = owed \cup {s}
  /\ UNCHANGED <<cache, mapVars, call, jobVars, reader, overlapped>>

\* addItem of what the processor read.  It returns at once for a secret without
\* a key pair; delItem, for one that is gone, is handed no secret.
AddSecret(s) ==
  /\ At("sec", "idle")
  /\ s \in owed
  /\ owed' = owed \ {s}
  /\ IF indexer[s] = Absent \/ <<s, indexer[s]>> \in Incomplete
     THEN UNCHANGED <<call, overlapped>>
     ELSE Proceed("sec", [NoCall EXCEPT !.pc = "store", !.sec = s, !.obj = indexer[s]])
  /\ UNCHANGED <<indexer, cache, mapVars, jobVars, reader>>

-----------------------------------------------------------------------------
(* The calls under addItem and getCert, for whichever worker makes them.    *)

\* getSecret: what the cache holds, under mu.
Lookup(w) ==
  /\ At(w, "lookup")
  /\ LET c == cache[call[w].sec]
     IN  Proceed(w, [call[w] EXCEPT !.obj = c, !.pc = IF c = Absent THEN "list" ELSE "got"])
  /\ UNCHANGED <<secretVars, mapVars, jobVars, reader>>

\* getSecret's miss: the lister's copy, which addItem stores if it has a pair.
List(w) ==
  /\ At(w, "list")
  /\ LET s == call[w].sec
         pair == indexer[s] # Absent /\ <<s, indexer[s]>> \notin Incomplete
     IN  Proceed(w, [call[w] EXCEPT !.obj = indexer[s],
                                    !.pc = IF pair THEN "store" ELSE "got"])
  /\ UNCHANGED <<secretVars, mapVars, jobVars, reader>>

\* addItem, under mu.
Store(w) ==
  /\ At(w, "store")
  /\ cache' = [cache EXCEPT ![call[w].sec] = call[w].obj]
  /\ Proceed(w, [call[w] EXCEPT !.pc = "reload"])
  /\ UNCHANGED <<indexer, owed, mapVars, jobVars, reader>>

\* updateCert's getCert, which finds the secret in the cache: nothing is ever
\* taken out of it.
Reload(w) ==
  /\ At(w, "reload")
  /\ LET s == call[w].sec
     IN  Proceed(w, [call[w] EXCEPT !.cert = CertOf(s, cache[s]), !.pc = "rlock"])
  /\ UNCHANGED <<secretVars, mapVars, jobVars, reader>>

\* Mutant: updateIngress and setDefaults hold the write lock during their getCert.
SpreadStartLocked(w) ==
  /\ At(w, "rlock")
  /\ \A v \in {"ing", "run"} : At(v, "idle") \/ At(v, "next")
  /\ Proceed(w, [call[w] EXCEPT !.todo = {e \in EntryIds : Listed(e)}, !.pc = "spread"])
  /\ UNCHANGED <<secretVars, mapVars, jobVars, reader>>

\* Mutant: the defaults are not visited.
SpreadStartNoDefaults(w) ==
  /\ At(w, "rlock")
  /\ MayRLock
  /\ Proceed(w, [call[w] EXCEPT !.todo = {e \in Ings : Listed(e)}, !.pc = "spread"])
  /\ UNCHANGED <<secretVars, mapVars, jobVars, reader>>

\* updateSecret takes certMap's read lock and visits every entry,
SpreadStart(w) ==
  /\ At(w, "rlock")
  /\ MayRLock
  /\ Proceed(w, [call[w] EXCEPT !.todo = {e \in EntryIds : Listed(e)}, !.pc = "spread"])
  /\ UNCHANGED <<secretVars, mapVars, jobVars, reader>>

\* Mutant: an entry gets the certificate whatever its own secret is.
SpreadOneAny(w, e) ==
  /\ At(w, "spread")
  /\ e \in call[w].todo
  /\ entry' = [entry EXCEPT ![e].cert = call[w].cert]
  /\ Proceed(w, [call[w] EXCEPT !.todo = @ \ {e}])
  /\ UNCHANGED <<secretVars, set, jobVars, reader>>

\* one at a time, each under its own lock, the ingresses' before the defaults;
SpreadOne(w, e) ==
  /\ At(w, "spread")
  /\ e \in call[w].todo
  /\ e \in Ings \/ call[w].todo \cap Ings = {}
  /\ IF entry[e].sec = call[w].sec
     THEN entry' = [entry EXCEPT ![e].cert = call[w].cert]
     ELSE UNCHANGED entry
  /\ Proceed(w, [call[w] EXCEPT !.todo = @ \ {e}])
  /\ UNCHANGED <<secretVars, set, jobVars, reader>>

\* then addItem returns, to the processor or to getSecret.
SpreadEnd(w) ==
  /\ At(w, "spread")
  /\ call[w].todo = {}
  /\ Proceed(w, IF w = "sec" THEN NoCall ELSE [call[w] EXCEPT !.cert = NoCert, !.pc = "got"])
  /\ UNCHANGED <<secretVars, mapVars, jobVars, reader>>

-----------------------------------------------------------------------------
(* The ingress worker's updateIngress and Run's setDefaults: getCert, then  *)
(* the write lock.                                                          *)

\* Run starts the ingress worker when the defaults are set.
AddIngress(i) ==
  /\ At("ing", "idle")
  /\ At("run", "idle")
  /\ ing' = i
  /\ tls' \in TLSLists
  /\ Proceed("ing", [NoCall EXCEPT !.pc = "next"])
  /\ UNCHANGED <<secretVars, mapVars, got, reader>>

\* The next TLS entry of the ingress, if there is one.
NextTLS ==
  /\ At("ing", "next")
  /\ IF tls = <<>>
     THEN ing' = NoIng /\ Proceed("ing", NoCall)
     ELSE /\ Proceed("ing", [NoCall EXCEPT !.pc = "lookup", !.sec = Head(tls).sec])
          /\ UNCHANGED ing
  /\ UNCHANGED <<secretVars, mapVars, tls, got, reader>>

\* getCert has returned: updateIngress calls Lock.
CallLock ==
  /\ At("ing", "got")
  /\ Proceed("ing", [call["ing"] EXCEPT !.pc = "install"])
  /\ UNCHANGED <<secretVars, mapVars, jobVars, reader>>

\* Mutant: the write lock is not taken.
UpdateIngressUnlocked ==
  /\ At("ing", "install")
  /\ LET c == call["ing"]
         Others(h) == Keep(set[h], Ings \ {ing})
     IN  /\ entry' = [entry EXCEPT ![ing] = [sec |-> c.sec, cert |-> CertOf(c.sec, c.obj)]]
         /\ set' = [h \in Hosts |-> IF h \in Head(tls).hosts
                                    THEN Append(Others(h), ing) ELSE Others(h)]
  /\ tls' = Tail(tls)
  /\ Proceed("ing", [NoCall EXCEPT !.pc = "next"])
  /\ UNCHANGED <<secretVars, ing, got, reader>>

\* Mutant: the old entries are not filtered out.
UpdateIngressAppends ==
  /\ At("ing", "install")
  /\ MayLock
  /\ LET c == call["ing"]
     IN  /\ entry' = [entry EXCEPT ![ing] = [sec |-> c.sec, cert |-> CertOf(c.sec, c.obj)]]
         /\ set' = [h \in Hosts |-> IF h \in Head(tls).hosts
                                    THEN Append(set[h], ing) ELSE set[h]]
  /\ tls' = Tail(tls)
  /\ Proceed("ing", [NoCall EXCEPT !.pc = "next"])
  /\ UNCHANGED <<secretVars, ing, got, reader>>

\* updateIngress, under the write lock: the ingress's entries of every host are
\* filtered out and the new one is appended to its hosts.
UpdateIngress ==
  /\ At("ing", "install")
  /\ MayLock
  /\ LET c == call["ing"]
         Others(h) == Keep(set[h], Ings \ {ing})
     IN  /\ entry' = [entry EXCEPT ![ing] = [sec |-> c.sec, cert |-> CertOf(c.sec, c.obj)]]
         /\ set' = [h \in Hosts |-> IF h \in Head(tls).hosts
                                    THEN Append(Others(h), ing) ELSE Others(h)]
  /\ tls' = Tail(tls)
  /\ Proceed("ing", [NoCall EXCEPT !.pc = "next"])
  /\ UNCHANGED <<secretVars, ing, got, reader>>

\* setDefaults gets the certificate of one default after the other,
NextDefault ==
  /\ At("run", "next")
  /\ Proceed("run", IF Len(got) = Len(Defaults)
                    THEN [NoCall EXCEPT !.pc = "install"]
                    ELSE [NoCall EXCEPT !.pc = "lookup", !.sec = Defaults[Len(got) + 1]])
  /\ UNCHANGED <<secretVars, mapVars, jobVars, reader>>

\* Mutant: what the secret holds is kept, and not the certificate parsed from it.
GotDefaultUnparsed ==
  /\ At("run", "got")
  /\ got' = Append(got, [sec |-> call["run"].sec, cert |-> call["run"].obj])
  /\ Proceed("run", [call["run"] EXCEPT !.pc = "next"])
  /\ UNCHANGED <<secretVars, mapVars, ing, tls, reader>>

GotDefault ==
  /\ At("run", "got")
  /\ LET c == call["run"]
     IN  got' = Append(got, [sec |-> c.sec, cert |-> CertOf(c.sec, c.obj)])
  /\ Proceed("run", [call["run"] EXCEPT !.pc = "next"])
  /\ UNCHANGED <<secretVars, mapVars, ing, tls, reader>>

\* Mutant: the write lock is not released.
SetDefaultsNoUnlock ==
  /\ At("run", "install")
  /\ MayLock
  /\ entry' = [e \in EntryIds |-> IF e \in DOMAIN Defaults THEN got[e] ELSE entry[e]]
  /\ UNCHANGED <<secretVars, set, call, jobVars, reader, overlapped>>

\* and assigns them all under the write lock.
SetDefaults ==
  /\ At("run", "install")
  /\ MayLock
  /\ entry' = [e \in EntryIds |-> IF e \in DOMAIN Defaults THEN got[e] ELSE entry[e]]
  /\ got' = <<>>
  /\ Proceed("run", NoCall)
  /\ UNCHANGED <<secretVars, set, ing, tls, reader>>

-----------------------------------------------------------------------------
(* A TLS handshake holds the read lock throughout GetCertificate; what it    *)
(* does with it is in module Handshake.                                      *)

Hello ==
  /\ reader = "idle"
  /\ reader' = "rlock"
  /\ UNCHANGED <<secretVars, mapVars, call, jobVars, overlapped>>

HelloRLock ==
  /\ reader = "rlock"
  /\ MayRLock
  /\ reader' = "inside"
  /\ UNCHANGED <<secretVars, mapVars, call, jobVars, overlapped>>

HelloRUnlock ==
  /\ reader = "inside"
  /\ reader' = "idle"
  /\ UNCHANGED <<secretVars, mapVars, call, jobVars, overlapped>>

-----------------------------------------------------------------------------
Call(w) == Lookup(w) \/ List(w) \/ Store(w) \/ Reload(w) \/ SpreadEnd(w)
             \/ \E e \in EntryIds : SpreadOne(w, e)

Next == \/ \E s \in Secrets : SecretChanges(s) \/ AddSecret(s)
        \/ \E w \in Workers : Call(w) \/ SpreadStart(w)
        \/ \E i \in Ings : AddIngress(i)
        \/ NextTLS \/ CallLock \/ UpdateIngress
        \/ NextDefault \/ GotDefault \/ SetDefaults
        \/ Hello \/ HelloRLock \/ HelloRUnlock

\* Goroutines run.  A reader that waits for the lock gets it in the end, since
\* Go's RWMutex lets the waiting readers in before the next writer; the writer
\* that waits keeps new readers out, so weak fairness is enough for it.
Fairness ==
  /\ WF_vars(\E s \in Secrets : AddSecret(s))
  /\ WF_vars(NextTLS \/ CallLock \/ UpdateIngress)
  /\ WF_vars(NextDefault \/ GotDefault \/ SetDefaults)
  /\ \A w \in Workers : WF_vars(Call(w)) /\ SF_vars(SpreadStart(w))
  /\ WF_vars(HelloRUnlock) /\ SF_vars(HelloRLock)

Spec == Init /\ [][Next]_vars /\ Fairness

-----------------------------------------------------------------------------
(* Properties.                                                             *)

\* The variables' types.
TypeOK ==
  /\ indexer \in [Secrets -> Contents \cup {Absent}]
  /\ owed \in SUBSET Secrets
  /\ cache \in [Secrets -> Contents \cup {Absent}]
  /\ set \in [Hosts -> Seq(Ings)]
  /\ entry \in [EntryIds -> Entries \cup {NoEntry}]
  /\ call \in [Workers ->
       [pc : {"idle", "next", "lookup", "list", "store", "reload", "rlock", "spread",
              "got", "install"},
        sec : Secrets \cup {NoSecret}, obj : Contents \cup {Absent}, cert : Certs,
        todo : SUBSET EntryIds]]
  /\ ing \in Ings \cup {NoIng}
  /\ tls \in Seq(TLSEntries)
  /\ got \in Seq(Entries)
  /\ reader \in {"idle", "rlock", "inside"}
  /\ overlapped \in SUBSET Secrets

\* Whatever the workers interleave, an entry's certificate is only ever parsed
\* from the entry's own secret: updateSecret, setDefaults and updateIngress
\* never cross certificates over.
OwnCertificate ==
  \A e \in EntryIds :
    entry[e] # NoEntry /\ entry[e].cert # NoCert => entry[e].cert[1] = entry[e].sec

\* The map's lists: an ingress is in a host's list at most once, however often
\* it was added and with however many TLS entries, and it has an entry.
ListsWellFormed ==
  \A h \in Hosts : /\ IsInjective(set[h])
                    /\ \A i \in Range(set[h]) : entry[i] # NoEntry

Settled == owed = {} /\ \A w \in Workers : At(w, "idle")

Fresh(e) ==
  LET s == entry[e].sec
  IN  indexer[s] # Absent /\ <<s, indexer[s]>> \notin Incomplete
        => entry[e].cert = CertOf(s, indexer[s])

\* When nothing is left to do, every entry whose secret holds a key pair has
\* the certificate of what the secret holds now - as long as no two workers
\* were ever busy with that secret at the same time.
FreshUnlessOverlapped ==
  Settled => \A e \in EntryIds :
               Listed(e) /\ entry[e].sec \notin overlapped => Fresh(e)

\* DESIGN.md:7-8: the certificates are taken from the cluster's secrets, and
\* updated live.  When nothing is left to do every entry is fresh, whatever was
\* busy at the same time.
LiveUpdate == Settled => \A e \in EntryIds : Listed(e) => Fresh(e)

\* What a reader sees of the map's lists stays as it is while it is inside, and
\* updateSecret only visits entries that are in the map.
ReadersUndisturbed ==
  [][/\ reader = "inside" => UNCHANGED set
     /\ \A w \in Workers : \A e \in call[w].todo : Listed(e) /\ Listed(e)']_vars

\* No order of locks blocks a worker for ever: every call returns,
CallsReturn == \A w \in Workers : ~At(w, "idle") ~> At(w, "idle")

\* and so does every handshake.
HandshakesReturn == reader = "rlock" ~> reader = "idle"

=============================================================================
