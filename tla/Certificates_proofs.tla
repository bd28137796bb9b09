-------------------------- MODULE Certificates_proofs --------------------------
(***************************************************************************)
(* Proofs about Certificates, for any secrets, ingresses, hosts and        *)
(* defaults.                                                               *)
(*                                                                         *)
(* The map's lock keeps what is being walked in place: a reader's lists do *)
(* not change, and an entry that updateSecret has yet to visit stays in    *)
(* the map.  What the lists hold is well formed, an entry's certificate is *)
(* its own secret's, and a certificate is only stale in the end where two  *)
(* workers were busy with its secret at once.                              *)
(***************************************************************************)
EXTENDS Certificates, Lists_proofs

Labels == {"idle", "next", "lookup", "list", "store", "reload", "rlock", "spread",
           "got", "install"}

\* Where a worker is between a getCert's or an addItem's beginning and its return.
InCall == {"lookup", "list", "store", "reload", "rlock", "spread", "got"}

CallType == [pc : Labels, sec : Secrets \cup {NoSecret}, obj : Contents \cup {Absent},
             cert : Certs, todo : SUBSET EntryIds]

Cached == /\ indexer \in [Secrets -> Contents \cup {Absent}]
          /\ cache \in [Secrets -> Contents \cup {Absent}]

\* A call is about a secret, and has entries to visit only while it spreads.
CallOK(c) == /\ c \in CallType
             /\ c.pc \in InCall => c.sec \in Secrets
             /\ c.todo # {} => c.pc = "spread"

\* "run" has as many entries as it has got certificates for.
GotOK(c, g) == /\ g \in Seq(Entries)
               /\ Len(g) <= Len(Defaults)
               /\ c.pc = "install" => Len(g) = Len(Defaults)
               /\ c.pc \in InCall => Len(g) < Len(Defaults)

\* "ing" is adding an ingress, and has a TLS entry of it when it is in a call.
IngOK(c, i, t) == /\ c.pc # "idle" => i \in Ings
                  /\ t \in Seq(TLSEntries)
                  /\ c.pc \notin {"idle", "next"} => t # <<>>
                  /\ c.pc = "install" => c.sec \in Secrets

DefaultsTyped == /\ DOMAIN entry = EntryIds
                 /\ \A n \in DOMAIN Defaults : entry[n] \in Entries \cup {NoEntry}

\* What is still to be visited is in the map.
Visiting == \A w \in Workers : \A e \in call[w].todo : Listed(e)

Inv == /\ Cached
       /\ DOMAIN call = Workers /\ \A w \in Workers : CallOK(call[w])
       /\ DefaultsTyped
       /\ IngOK(call["ing"], ing, tls)
       /\ GotOK(call["run"], got)
       /\ Visiting

\* What no step may do to the entries that are still to be visited.
Kept == \A w \in Workers : \A e \in call[w].todo : Listed(e)'

-----------------------------------------------------------------------------
(* Steps.                                                                    *)

\* A certificate parsed from a content of a secret is one of the certificates.
LEMMA CertOfType ==
  ASSUME NEW s \in Secrets, NEW c \in Contents \cup {Absent}
  PROVE  CertOf(s, c) \in Certs
BY DEF CertOf, Certs, Holdings

\* While a worker visits entries nobody holds the write lock.
LEMMA NoVisitors ==
  ASSUME Inv, MayLock
  PROVE  \A w \in Workers : call[w].todo = {}
BY DEF Inv, CallOK, MayLock, At

\* Steps that leave the map alone keep what is visited in it.
LEMMA MapKept ==
  ASSUME Inv, UNCHANGED mapVars
  PROVE  Kept
BY DEF Inv, Visiting, Kept, Listed, mapVars

\* A worker goes on: the invariant is kept if its new call is well-formed and
\* what it changed is.
LEMMA ProceedInv ==
  ASSUME Inv, NEW w \in Workers, NEW c,
         Proceed(w, c), CallOK(c), \A e \in c.todo : Listed(e)',
         Kept, Cached', DefaultsTyped',
         \/ w # "ing" /\ UNCHANGED <<ing, tls>>
         \/ w = "ing" /\ IngOK(c, ing', tls'),
         \/ w # "run" /\ UNCHANGED got
         \/ w = "run" /\ GotOK(c, got')
  PROVE  Inv'
<1>1. call' = [call EXCEPT ![w] = c]
  BY DEF Proceed
<1>2. /\ DOMAIN call' = Workers /\ call'[w] = c
      /\ \A v \in Workers \ {w} : call'[v] = call[v]
  BY <1>1 DEF Inv
<1>3. \A v \in Workers : CallOK(call'[v])
  BY <1>2 DEF Inv
<1>4. Visiting'
  BY <1>2 DEF Visiting, Kept
<1>5. IngOK(call'["ing"], ing', tls')
  BY <1>2 DEF Inv, Workers
<1>6. GotOK(call'["run"], got')
  BY <1>2 DEF Inv, Workers
<1> QED BY <1>2, <1>3, <1>4, <1>5, <1>6 DEF Inv, CallOK, GotOK, IngOK

\* The same for steps that change nothing but the worker's call.
LEMMA CallInv ==
  ASSUME Inv, NEW w \in Workers, NEW c, Proceed(w, c), CallOK(c),
         UNCHANGED <<secretVars, mapVars, jobVars>>,
         \A e \in c.todo : Listed(e),
         w = "ing" => IngOK(c, ing, tls),
         w = "run" => GotOK(c, got)
  PROVE  Inv' /\ Kept
<1>1. Cached' /\ DefaultsTyped'
  BY DEF Inv, Cached, DefaultsTyped, secretVars, mapVars
<1>2. Kept
  BY MapKept
<1>3. \A e \in c.todo : Listed(e)'
  BY DEF Listed, mapVars
<1>4. UNCHANGED <<ing, tls, got>>
  BY DEF jobVars
<1> QED BY <1>1, <1>2, <1>3, <1>4, ProceedInv

\* A worker inside a call goes on with the same secret, and visits nothing yet.
LEMMA GoOnInv ==
  ASSUME Inv, NEW w \in Workers, NEW c, Proceed(w, c), call[w].pc \in InCall,
         c \in CallType, c.pc \in InCall, c.sec = call[w].sec, c.todo = {},
         UNCHANGED <<secretVars, mapVars, jobVars>>
  PROVE  Inv' /\ Kept
<1>1. CallOK(c)
  BY DEF Inv, CallOK
<1>2. w = "ing" => IngOK(c, ing, tls)
  BY DEF Inv, InCall, IngOK
<1>3. w = "run" => GotOK(c, got)
  <2> SUFFICES ASSUME w = "run" PROVE GotOK(c, got)
    OBVIOUS
  <2>1. GotOK(call["run"], got) /\ call["run"].pc \in InCall
    BY DEF Inv
  <2> QED BY <2>1 DEF GotOK, InCall
<1> QED BY <1>1, <1>2, <1>3, CallInv

\* The call of a worker that does not spread has nothing to visit.
LEMMA CallFacts ==
  ASSUME Inv, NEW w \in Workers
  PROVE  /\ call[w] \in CallType
         /\ call[w].pc # "spread" => call[w].todo = {}
         /\ call[w].pc \in InCall => call[w].sec \in Secrets
BY DEF Inv, CallOK

\* The steps under getCert.
LEMMA LookupInv ==
  ASSUME Inv, NEW w \in Workers, Lookup(w)
  PROVE  Inv' /\ Kept
<1> DEFINE o == cache[call[w].sec]
           c == [call[w] EXCEPT !.obj = o, !.pc = IF o = Absent THEN "list" ELSE "got"]
<1>1. Proceed(w, c) /\ UNCHANGED <<secretVars, mapVars, jobVars>> /\ call[w].pc = "lookup"
  BY DEF Lookup, At
<1>2. call[w].pc \in InCall
  BY <1>1 DEF InCall
<1>3. o \in Contents \cup {Absent}
  BY <1>2, CallFacts DEF Inv, Cached
<1>4. c \in CallType /\ c.pc \in InCall /\ c.sec = call[w].sec /\ c.todo = {}
  BY <1>1, <1>3, CallFacts DEF CallType, Labels, InCall
<1> QED BY <1>1, <1>2, <1>4, GoOnInv

\* getCert reads the indexer's object, or finds none.
LEMMA ListInv ==
  ASSUME Inv, NEW w \in Workers, List(w)
  PROVE  Inv' /\ Kept
<1> DEFINE s == call[w].sec
           pair == indexer[s] # Absent /\ <<s, indexer[s]>> \notin Incomplete
           c == [call[w] EXCEPT !.obj = indexer[s], !.pc = IF pair THEN "store" ELSE "got"]
<1>1. Proceed(w, c) /\ UNCHANGED <<secretVars, mapVars, jobVars>> /\ call[w].pc = "list"
  BY DEF List, At
<1>2. call[w].pc \in InCall
  BY <1>1 DEF InCall
<1>3. indexer[s] \in Contents \cup {Absent}
  BY <1>2, CallFacts DEF Inv, Cached
<1> HIDE DEF pair
<1>4. c \in CallType /\ c.pc \in InCall /\ c.sec = call[w].sec /\ c.todo = {}
  BY <1>1, <1>3, CallFacts DEF CallType, Labels, InCall
<1> QED BY <1>1, <1>2, <1>4, GoOnInv

\* getCert puts what it found into the cache.
LEMMA StoreInv ==
  ASSUME Inv, NEW w \in Workers, Store(w)
  PROVE  Inv' /\ Kept
<1> DEFINE c == [call[w] EXCEPT !.pc = "reload"]
<1>1. Proceed(w, c) /\ UNCHANGED <<indexer, mapVars, jobVars>> /\ call[w].pc = "store"
  BY DEF Store, At
<1>2. call[w].pc \in InCall
  BY <1>1 DEF InCall
<1>3. c \in CallType /\ c.pc = "reload" /\ c.sec = call[w].sec /\ c.todo = {}
  BY <1>1, CallFacts DEF CallType, Labels
<1>4. CallOK(c)
  BY <1>2, <1>3, CallFacts DEF CallOK
<1>5. Cached'
  BY <1>1, <1>2, CallFacts DEF Inv, Cached, Store, CallType
<1>6. Kept
  BY <1>1, MapKept
<1>7. DefaultsTyped'
  BY <1>1 DEF Inv, DefaultsTyped, mapVars
<1>8. w = "ing" => IngOK(c, ing', tls')
  BY <1>1 DEF Inv, IngOK, jobVars
<1>9. w = "run" => GotOK(c, got')
  BY <1>1, <1>2, <1>3 DEF Inv, GotOK, InCall, jobVars
<1>10. UNCHANGED <<ing, tls, got>>
  BY <1>1 DEF jobVars
<1>11. \A e \in c.todo : Listed(e)'
  BY <1>3
<1>12. Inv'
  BY <1>1, <1>4, <1>5, <1>6, <1>7, <1>8, <1>9, <1>10, <1>11, ProceedInv
<1> QED BY <1>6, <1>12

\* getCert parses what the cache holds by then.
LEMMA ReloadInv ==
  ASSUME Inv, NEW w \in Workers, Reload(w)
  PROVE  Inv' /\ Kept
<1> DEFINE s == call[w].sec
           d == CertOf(s, cache[s])
           c == [call[w] EXCEPT !.cert = d, !.pc = "rlock"]
<1>1. Proceed(w, c) /\ UNCHANGED <<secretVars, mapVars, jobVars>> /\ call[w].pc = "reload"
  BY DEF Reload, At
<1>2. call[w].pc \in InCall
  BY <1>1 DEF InCall
<1>3. d \in Certs
  BY <1>2, CallFacts, CertOfType DEF Inv, Cached
<1> HIDE DEF d
<1>4. c \in CallType /\ c.pc \in InCall /\ c.sec = call[w].sec /\ c.todo = {}
  BY <1>1, <1>3, CallFacts DEF CallType, Labels, InCall
<1> QED BY <1>1, <1>2, <1>4, GoOnInv

\* updateSecret visits what is in the map,
LEMMA SpreadStartInv ==
  ASSUME Inv, NEW w \in Workers, SpreadStart(w)
  PROVE  Inv' /\ Kept
<1> DEFINE T == {e \in EntryIds : Listed(e)}
           c == [call[w] EXCEPT !.todo = T, !.pc = "spread"]
<1>1. Proceed(w, c) /\ UNCHANGED <<secretVars, mapVars, jobVars>> /\ call[w].pc = "rlock"
  BY DEF SpreadStart, At
<1>2. call[w].pc \in InCall
  BY <1>1 DEF InCall
<1>3. T \in SUBSET EntryIds /\ \A e \in T : Listed(e)
  OBVIOUS
<1> HIDE DEF T
<1>4. c \in CallType /\ c.pc = "spread" /\ c.sec = call[w].sec /\ c.todo = T
  BY <1>1, <1>3, CallFacts DEF CallType, Labels
<1>5. CallOK(c)
  BY <1>2, <1>4, CallFacts DEF CallOK
<1>6. w = "ing" => IngOK(c, ing, tls)
  BY <1>1 DEF Inv, IngOK
<1>7. w = "run" => GotOK(c, got)
  BY <1>1, <1>2, <1>4 DEF Inv, GotOK, InCall
<1> HIDE DEF c
<1> QED BY <1>1, <1>3, <1>4, <1>5, <1>6, <1>7, CallInv

\* one entry at a time, which stays the entry it is,
LEMMA SpreadOneInv ==
  ASSUME Inv, NEW w \in Workers, NEW e \in EntryIds, SpreadOne(w, e)
  PROVE  Inv' /\ Kept
<1> DEFINE T == call[w].todo \ {e}
           c == [call[w] EXCEPT !.todo = T]
<1>1. /\ Proceed(w, c) /\ UNCHANGED <<secretVars, set, jobVars>>
      /\ call[w].pc = "spread" /\ e \in call[w].todo
  BY DEF SpreadOne, At
<1>2. call[w].pc \in InCall
  BY <1>1 DEF InCall
<1>3. entry' = entry \/ entry' = [entry EXCEPT ![e].cert = call[w].cert]
  BY DEF SpreadOne
<1>4. Listed(e) /\ call[w].cert \in Certs
  BY <1>1, CallFacts DEF Inv, Visiting, CallType
<1>5. /\ DOMAIN entry' = EntryIds
      /\ \A n \in EntryIds \ {e} : entry'[n] = entry[n]
      /\ e \in DOMAIN Defaults => entry'[e] \in Entries
  <2>1. e \in DOMAIN Defaults => entry[e] \in Entries
    BY <1>4, MapAssumption DEF Inv, DefaultsTyped, Listed
  <2> QED BY <1>3, <1>4, <2>1 DEF Inv, DefaultsTyped, Entries
<1>6. DefaultsTyped'
  BY <1>5 DEF Inv, DefaultsTyped, EntryIds
<1>7. \A n \in EntryIds : Listed(n) => Listed(n)'
  <2> TAKE n \in EntryIds
  <2>1. CASE n \in Ings
    BY <1>1, <2>1 DEF Listed
  <2>2. CASE n \notin Ings /\ n = e
    <3>1. entry'[e] \in Entries
      BY <1>5, <2>2 DEF EntryIds
    <3> QED BY <2>2, <3>1, NoneAssumption DEF Listed, Entries, Certs
  <2>3. CASE n \notin Ings /\ n # e
    BY <1>5, <2>3 DEF Listed
  <2> QED BY <2>1, <2>2, <2>3
<1>8. T \in SUBSET EntryIds /\ \A n \in T : Listed(n)
  BY CallFacts DEF Inv, Visiting, CallType
<1>9. Kept
  BY <1>7, CallFacts DEF Kept, Inv, Visiting, CallType
<1> HIDE DEF T
<1>10. c \in CallType /\ c.pc = "spread" /\ c.sec = call[w].sec /\ c.todo = T
  BY <1>1, <1>8, CallFacts DEF CallType, Labels
<1>11. CallOK(c)
  BY <1>2, <1>10, CallFacts DEF CallOK
<1>12. Cached' /\ UNCHANGED <<ing, tls, got>>
  BY <1>1 DEF Inv, Cached, secretVars, jobVars
<1>13. w = "ing" => IngOK(c, ing', tls')
  BY <1>1, <1>12 DEF Inv, IngOK
<1>14. w = "run" => GotOK(c, got')
  BY <1>1, <1>2, <1>10, <1>12 DEF Inv, GotOK, InCall
<1>15. \A n \in c.todo : Listed(n)'
  BY <1>7, <1>8, <1>10
<1> HIDE DEF c
<1>16. Inv'
  BY <1>1, <1>6, <1>9, <1>11, <1>12, <1>13, <1>14, <1>15, ProceedInv
<1> QED BY <1>9, <1>16

\* A worker without a call has nothing to visit.
LEMMA NoCallFacts ==
  /\ CallOK(NoCall) /\ NoCall.todo = {} /\ NoCall.pc = "idle"
  /\ \A p \in {"next", "install"} : LET c == [NoCall EXCEPT !.pc = p]
                                    IN  CallOK(c) /\ c.todo = {} /\ c.pc = p
BY DEF NoCall, CallOK, CallType, Labels, InCall, Certs

\* and returns.
LEMMA SpreadEndInv ==
  ASSUME Inv, NEW w \in Workers, SpreadEnd(w)
  PROVE  Inv' /\ Kept
<1> DEFINE c == [call[w] EXCEPT !.cert = NoCert, !.pc = "got"]
<1>1. /\ Proceed(w, IF w = "sec" THEN NoCall ELSE c)
      /\ UNCHANGED <<secretVars, mapVars, jobVars>>
      /\ call[w].pc = "spread" /\ call[w].todo = {}
  BY DEF SpreadEnd, At
<1>2. call[w].pc \in InCall
  BY <1>1 DEF InCall
<1>3. CASE w = "sec"
  <2>1. Proceed(w, NoCall)
    BY <1>1, <1>3
  <2> QED BY <1>1, <1>3, <2>1, NoCallFacts, CallInv
<1>4. CASE w # "sec"
  <2>1. Proceed(w, c)
    BY <1>1, <1>4
  <2>2. c \in CallType /\ c.pc \in InCall /\ c.sec = call[w].sec /\ c.todo = {}
    BY <1>1, CallFacts DEF CallType, Labels, InCall, Certs
  <2> QED BY <1>1, <1>2, <2>1, <2>2, GoOnInv
<1> QED BY <1>3, <1>4

-----------------------------------------------------------------------------
(* The workers.                                                              *)

\* The secret worker begins with a secret, or has nothing to do with it.
LEMMA AddSecretInv ==
  ASSUME Inv, NEW s \in Secrets, AddSecret(s)
  PROVE  Inv' /\ Kept
<1> DEFINE c == [NoCall EXCEPT !.pc = "store", !.sec = s, !.obj = indexer[s]]
<1>1. Kept
  BY MapKept DEF AddSecret
<1>2. Cached' /\ DefaultsTyped' /\ UNCHANGED <<mapVars, ing, tls, got>>
  BY DEF AddSecret, Inv, Cached, DefaultsTyped, mapVars, jobVars
<1>3. CASE Proceed("sec", c)
  <2>1. indexer[s] \in Contents \cup {Absent}
    BY DEF Inv, Cached
  <2>2. CallOK(c) /\ c.todo = {}
    BY <2>1 DEF NoCall, CallOK, CallType, Labels, InCall, Certs
  <2>3. "sec" \in Workers
    BY DEF Workers
  <2> HIDE DEF c
  <2> QED BY <1>1, <1>2, <1>3, <2>2, <2>3, ProceedInv
<1>4. CASE UNCHANGED call
  BY <1>1, <1>2, <1>4 DEF Inv, CallOK, GotOK, IngOK, Visiting, Kept
<1> QED BY <1>3, <1>4 DEF AddSecret

\* The ingress worker begins with an ingress.
LEMMA AddIngressInv ==
  ASSUME Inv, NEW i \in Ings, AddIngress(i)
  PROVE  Inv' /\ Kept
<1> DEFINE c == [NoCall EXCEPT !.pc = "next"]
<1>1. Kept
  BY MapKept DEF AddIngress
<1>2. /\ Proceed("ing", c) /\ ing' = i /\ UNCHANGED got
      /\ Cached' /\ DefaultsTyped' /\ "ing" \in Workers
  BY DEF AddIngress, Inv, Cached, DefaultsTyped, secretVars, mapVars, Workers
<1>3. CallOK(c) /\ c.todo = {}
  BY NoCallFacts
<1>4. IngOK(c, ing', tls')
  BY <1>2, NoCallFacts, MapAssumption DEF AddIngress, IngOK
<1> HIDE DEF c
<1>5. Inv'
  BY <1>1, <1>2, <1>3, <1>4, ProceedInv
<1> QED BY <1>1, <1>5

\* The ingress worker goes to the next TLS entry, or to the write.
LEMMA NextTLSInv ==
  ASSUME Inv, NextTLS
  PROVE  Inv' /\ Kept
<1> DEFINE c == [NoCall EXCEPT !.pc = "lookup", !.sec = Head(tls).sec]
<1>1. Kept
  BY MapKept DEF NextTLS
<1>2. /\ UNCHANGED <<tls, got>> /\ Cached' /\ DefaultsTyped' /\ "ing" \in Workers
      /\ ing \in Ings /\ tls \in Seq(TLSEntries)
  BY DEF NextTLS, Inv, IngOK, At, Cached, DefaultsTyped, secretVars, mapVars, Workers
<1>3. CASE Proceed("ing", NoCall)
  <2>1. IngOK(NoCall, ing', tls')
    BY <1>2, NoCallFacts DEF IngOK
  <2>2. Inv'
    BY <1>1, <1>2, <1>3, <2>1, NoCallFacts, ProceedInv
  <2> QED BY <1>1, <2>2
<1>4. CASE tls # <<>> /\ Proceed("ing", c) /\ UNCHANGED ing
  <2>1. Head(tls) \in TLSEntries
    BY <1>2, <1>4
  <2>2. Head(tls).sec \in Secrets
    BY <2>1 DEF TLSEntries
  <2>3. CallOK(c) /\ c.todo = {} /\ c.pc = "lookup"
    BY <2>2 DEF NoCall, CallOK, CallType, Labels, InCall, Certs
  <2> HIDE DEF c
  <2>4. IngOK(c, ing', tls')
    BY <1>2, <1>4, <2>3 DEF IngOK
  <2>5. Inv'
    BY <1>1, <1>2, <1>4, <2>3, <2>4, ProceedInv
  <2> QED BY <1>1, <2>5
<1> QED BY <1>3, <1>4 DEF NextTLS

\* A writer asks for the lock.
LEMMA CallLockInv ==
  ASSUME Inv, CallLock
  PROVE  Inv' /\ Kept
<1> DEFINE c == [call["ing"] EXCEPT !.pc = "install"]
<1>1. /\ Proceed("ing", c) /\ UNCHANGED <<secretVars, mapVars, jobVars>>
      /\ call["ing"].pc = "got" /\ "ing" \in Workers
  BY DEF CallLock, At, Workers
<1>2. CallOK(c) /\ c.todo = {}
  BY <1>1, CallFacts DEF CallOK, CallType, Labels, InCall
<1>3. call["ing"].sec \in Secrets /\ c.sec = call["ing"].sec /\ c.pc = "install"
  BY <1>1, CallFacts DEF InCall, CallType
<1> HIDE DEF c
<1>4. IngOK(c, ing, tls)
  BY <1>1, <1>3 DEF Inv, IngOK
<1> QED BY <1>1, <1>2, <1>4, CallInv

\* The writer finds nobody visiting the map.
LEMMA UpdateIngressInv ==
  ASSUME Inv, UpdateIngress
  PROVE  Inv' /\ Kept
<1> DEFINE c == [NoCall EXCEPT !.pc = "next"]
<1>1. Kept
  BY NoVisitors DEF UpdateIngress, Kept
<1>2. /\ Proceed("ing", c) /\ UNCHANGED <<secretVars, ing, got>>
      /\ "ing" \in Workers /\ ing \in Ings
      /\ tls \in Seq(TLSEntries) /\ tls # <<>> /\ tls' = Tail(tls)
  BY DEF UpdateIngress, Inv, IngOK, At, Workers
<1>3. DOMAIN entry' = DOMAIN entry /\ \A n \in EntryIds : n # ing => entry'[n] = entry[n]
  BY DEF UpdateIngress, Inv, DefaultsTyped
<1>4. DefaultsTyped' /\ Cached'
  BY <1>2, <1>3, MapAssumption DEF Inv, DefaultsTyped, Cached, secretVars, EntryIds
<1>5. CallOK(c) /\ c.todo = {} /\ c.pc = "next"
  BY NoCallFacts
<1> HIDE DEF c
<1>6. Tail(tls) \in Seq(TLSEntries)
  BY <1>2
<1>7. IngOK(c, ing', tls')
  BY <1>2, <1>5, <1>6 DEF IngOK
<1>8. Inv'
  BY <1>1, <1>2, <1>4, <1>5, <1>7, ProceedInv
<1> QED BY <1>1, <1>8

\* Run goes to the next default, or to the write.
LEMMA NextDefaultInv ==
  ASSUME Inv, NextDefault
  PROVE  Inv' /\ Kept
<1> DEFINE n == Len(got) + 1
           c == [NoCall EXCEPT !.pc = "lookup", !.sec = Defaults[n]]
           i == [NoCall EXCEPT !.pc = "install"]
<1>1. /\ Proceed("run", IF Len(got) = Len(Defaults) THEN i ELSE c)
      /\ UNCHANGED <<secretVars, mapVars, jobVars>> /\ "run" \in Workers
  BY DEF NextDefault, Workers
<1>2. /\ got \in Seq(Entries) /\ Len(got) <= Len(Defaults) /\ Defaults \in Seq(Secrets)
      /\ Len(got) \in Nat /\ Len(Defaults) \in Nat
  BY MapAssumption DEF Inv, GotOK
<1>3. CASE Len(got) = Len(Defaults)
  <2>1. CallOK(i) /\ i.todo = {} /\ i.pc = "install"
    BY NoCallFacts
  <2> HIDE DEF i
  <2>2. Proceed("run", i) /\ GotOK(i, got)
    BY <1>1, <1>2, <1>3, <2>1 DEF GotOK, InCall
  <2> QED BY <1>1, <2>1, <2>2, CallInv
<1>4. CASE Len(got) # Len(Defaults)
  <2>1. n \in 1..Len(Defaults) /\ Len(got) < Len(Defaults)
    BY <1>2, <1>4
  <2>2. Defaults[n] \in Secrets
    BY <1>2, <2>1
  <2> HIDE DEF n
  <2>3. CallOK(c) /\ c.todo = {} /\ c.pc = "lookup"
    BY <2>2 DEF NoCall, CallOK, CallType, Labels, InCall, Certs
  <2> HIDE DEF c
  <2>4. Proceed("run", c) /\ GotOK(c, got)
    BY <1>1, <1>2, <1>4, <2>1, <2>3 DEF GotOK
  <2> QED BY <1>1, <2>3, <2>4, CallInv
<1> QED BY <1>3, <1>4

\* Run keeps the default it was given.
LEMMA GotDefaultInv ==
  ASSUME Inv, GotDefault
  PROVE  Inv' /\ Kept
<1> DEFINE d == CertOf(call["run"].sec, call["run"].obj)
           x == [sec |-> call["run"].sec, cert |-> d]
           c == [call["run"] EXCEPT !.pc = "next"]
<1>1. /\ Proceed("run", c) /\ UNCHANGED <<secretVars, mapVars, ing, tls>>
      /\ got' = Append(got, x) /\ call["run"].pc = "got" /\ "run" \in Workers
  BY DEF GotDefault, At, Workers
<1>2. call["run"].pc \in InCall
  BY <1>1 DEF InCall
<1>3. d \in Certs /\ call["run"].sec \in Secrets
  BY <1>1, <1>2, CallFacts, CertOfType DEF CallType
<1> HIDE DEF d
<1>4. x \in Entries
  BY <1>3 DEF Entries
<1> HIDE DEF x
<1>5. CallOK(c) /\ c.todo = {} /\ c.pc = "next"
  BY <1>1, CallFacts DEF CallOK, CallType, Labels, InCall
<1> HIDE DEF c
<1>6. /\ got \in Seq(Entries) /\ Len(got) < Len(Defaults)
      /\ Len(got) \in Nat /\ Len(Defaults) \in Nat
  BY <1>2, MapAssumption DEF Inv, GotOK
<1>7. got' \in Seq(Entries) /\ Len(got') = Len(got) + 1
  BY <1>1, <1>4, <1>6
<1>8. GotOK(c, got')
  BY <1>5, <1>6, <1>7 DEF GotOK, InCall
<1>9. Kept
  BY <1>1, MapKept
<1>10. Cached' /\ DefaultsTyped'
  BY <1>1 DEF Inv, Cached, DefaultsTyped, secretVars, mapVars
<1>11. Inv'
  BY <1>1, <1>5, <1>8, <1>9, <1>10, ProceedInv
<1> QED BY <1>9, <1>11

\* Run installs the defaults under the lock.
LEMMA SetDefaultsInv ==
  ASSUME Inv, SetDefaults
  PROVE  Inv' /\ Kept
<1>1. Kept
  BY NoVisitors DEF SetDefaults, Kept
<1>2. /\ Proceed("run", NoCall) /\ UNCHANGED <<secretVars, ing, tls>> /\ got' = <<>>
      /\ entry' = [e \in EntryIds |-> IF e \in DOMAIN Defaults THEN got[e] ELSE entry[e]]
      /\ call["run"].pc = "install" /\ "run" \in Workers
  BY DEF SetDefaults, At, Workers
<1>3. /\ got \in Seq(Entries) /\ Len(got) = Len(Defaults)
      /\ Defaults \in Seq(Secrets) /\ Len(Defaults) \in Nat
  BY <1>2, MapAssumption DEF Inv, GotOK
<1>4. \A n \in DOMAIN Defaults : got[n] \in Entries
  BY <1>3
<1>5. DefaultsTyped' /\ Cached'
  BY <1>2, <1>4 DEF Inv, DefaultsTyped, Cached, secretVars, EntryIds
<1>6. GotOK(NoCall, got')
  BY <1>2, <1>3, NoCallFacts DEF GotOK, InCall
<1>7. Inv'
  BY <1>1, <1>2, <1>5, <1>6, NoCallFacts, ProceedInv
<1> QED BY <1>1, <1>7

-----------------------------------------------------------------------------
(* The whole.                                                                *)

\* At the start nobody is in a call.
LEMMA InvInit == Init => Inv
<1> SUFFICES ASSUME Init PROVE Inv
  OBVIOUS
<1>1. Cached
  BY DEF Init, Cached
<1>2. DefaultsTyped
  BY DEF Init, DefaultsTyped, EntryIds
<1>3. \A w \in Workers : CallOK(call[w]) /\ call[w].todo = {}
  BY NoCallFacts DEF Init
<1>4. DOMAIN call = Workers /\ call["ing"].pc = "idle" /\ call["run"].pc = "next"
  BY NoCallFacts DEF Init, Workers
<1>5. IngOK(call["ing"], ing, tls)
  BY <1>4 DEF Init, IngOK
<1>6. GotOK(call["run"], got)
  BY <1>4, MapAssumption DEF Init, GotOK, InCall
<1> QED BY <1>1, <1>2, <1>3, <1>4, <1>5, <1>6 DEF Inv, Visiting

\* Steps of the API server and of a handshake leave the map and the calls alone.
LEMMA OthersInv ==
  ASSUME Inv, UNCHANGED <<cache, mapVars, call, jobVars>>, indexer' = indexer
               \/ \E s \in Secrets : \E c \in Contents \cup {Absent} :
                    indexer' = [indexer EXCEPT ![s] = c]
  PROVE  Inv' /\ Kept
<1>1. Kept
  BY MapKept
<1>2. Cached' /\ DefaultsTyped'
  BY DEF Inv, Cached, DefaultsTyped, mapVars
<1> QED BY <1>1, <1>2 DEF Inv, CallOK, GotOK, IngOK, Visiting, Kept, jobVars

\* The invariant is inductive, and no step takes an entry out of the map that is
\* still to be visited.
LEMMA InvStep == Inv /\ [Next]_vars => Inv' /\ Kept
<1> SUFFICES ASSUME Inv, [Next]_vars PROVE Inv' /\ Kept
  OBVIOUS
<1>1. ASSUME NEW s \in Secrets, SecretChanges(s) PROVE Inv' /\ Kept
  BY <1>1, OthersInv DEF SecretChanges
<1>2. ASSUME NEW s \in Secrets, AddSecret(s) PROVE Inv' /\ Kept
  BY <1>2, AddSecretInv
<1>3. ASSUME NEW w \in Workers, Call(w) \/ SpreadStart(w) PROVE Inv' /\ Kept
  BY <1>3, LookupInv, ListInv, StoreInv, ReloadInv, SpreadEndInv, SpreadOneInv,
     SpreadStartInv DEF Call
<1>4. ASSUME NEW i \in Ings, AddIngress(i) PROVE Inv' /\ Kept
  BY <1>4, AddIngressInv
<1>5. CASE NextTLS \/ CallLock \/ UpdateIngress
  BY <1>5, NextTLSInv, CallLockInv, UpdateIngressInv
<1>6. CASE NextDefault \/ GotDefault \/ SetDefaults
  BY <1>6, NextDefaultInv, GotDefaultInv, SetDefaultsInv
<1>7. CASE Hello \/ HelloRLock \/ HelloRUnlock
  BY <1>7, OthersInv DEF Hello, HelloRLock, HelloRUnlock, secretVars
<1>8. CASE UNCHANGED vars
  BY <1>8, OthersInv DEF vars, secretVars
<1> QED BY <1>1, <1>2, <1>3, <1>4, <1>5, <1>6, <1>7, <1>8 DEF Next

\* A step changes the lists only when no reader is inside.
LEMMA ListsKept ==
  ASSUME [Next]_vars, reader = "inside"
  PROVE  UNCHANGED set
BY DEF Next, vars, mapVars, secretVars, SecretChanges, AddSecret, Call, Lookup, List, Store,
       Reload, SpreadStart, SpreadOne, SpreadEnd, AddIngress, NextTLS, CallLock,
       UpdateIngress, MayLock, NextDefault, GotDefault, SetDefaults,
       Hello, HelloRLock, HelloRUnlock

\* The read lock protects who walks the map: the lists of a handshake inside
\* GetCertificate do not change, and an entry that updateSecret has yet to visit
\* is in the map before and after every step of the other goroutines.
THEOREM ReadersUndisturbedHolds == Spec => ReadersUndisturbed
<1>1. Inv /\ [Next]_vars =>
        [/\ reader = "inside" => UNCHANGED set
         /\ \A w \in Workers : \A e \in call[w].todo : Listed(e) /\ Listed(e)']_vars
  BY InvStep, ListsKept DEF Inv, Visiting, Kept
<1> QED BY <1>1, InvInit, InvStep, PTL DEF Spec, ReadersUndisturbed

-----------------------------------------------------------------------------
(* The map's lists and entries.                                              *)

EntriesTyped == entry \in [EntryIds -> Entries \cup {NoEntry}]
ListsTyped == set \in [Hosts -> Seq(Ings)]

\* An entry, a worker's call or a default got so far has a certificate of its
\* own secret.
Own(x) == x.cert # NoCert => x.cert[1] = x.sec

\* The calls whose certificates are on their way to an entry, and the entries
\* that run has made, have their own certificates too.
OwnInv == /\ \A e \in EntryIds : entry[e] # NoEntry => Own(entry[e])
          /\ \A w \in Workers : call[w].pc \in {"rlock", "spread"} => Own(call[w])
          /\ \A n \in DOMAIN got : Own(got[n])

MapInv == EntriesTyped /\ ListsTyped /\ ListsWellFormed /\ OwnInv

\* What is in the map has an entry.
LEMMA ListedEntry ==
  ASSUME EntriesTyped, ListsWellFormed, NEW e \in EntryIds, Listed(e)
  PROVE  entry[e] \in Entries
BY DEF EntriesTyped, ListsWellFormed, Listed

\* A certificate is its secret's.
LEMMA CertOfOwn ==
  ASSUME NEW s \in Secrets, NEW c \in Contents \cup {Absent}
  PROVE  /\ CertOf(s, c) \in Certs
         /\ CertOf(s, c) # NoCert => CertOf(s, c)[1] = s
BY CertOfType DEF CertOf

\* Steps that leave the map and the defaults alone.
LEMMA MapUntouched ==
  ASSUME MapInv, Inv, NEW w \in Workers, NEW c, Proceed(w, c),
         UNCHANGED <<mapVars, got>>, c.pc \in {"rlock", "spread"} => Own(c)
  PROVE  MapInv'
<1>1. call' = [call EXCEPT ![w] = c] /\ DOMAIN call = Workers
  BY DEF Proceed, Inv
<1>2. \A v \in Workers : call'[v].pc \in {"rlock", "spread"} => Own(call'[v])
  BY <1>1 DEF MapInv, OwnInv
<1>3. OwnInv'
  BY <1>2 DEF MapInv, OwnInv, mapVars, Own
<1> QED BY <1>3 DEF MapInv, EntriesTyped, ListsTyped, ListsWellFormed, mapVars

\* updateSecret puts the certificate it has on entries of its own secret,
LEMMA MapSpreadOne ==
  ASSUME MapInv, Inv, NEW w \in Workers, NEW e \in EntryIds, SpreadOne(w, e)
  PROVE  MapInv'
<1> DEFINE c == [call[w] EXCEPT !.todo = @ \ {e}]
<1>1. /\ Proceed(w, c) /\ UNCHANGED <<set, got>>
      /\ call[w].pc = "spread" /\ e \in call[w].todo
  BY DEF SpreadOne, At, jobVars
<1>2. /\ call[w] \in CallType /\ c.pc = "spread" /\ c.sec = call[w].sec
      /\ c.cert = call[w].cert /\ Own(call[w])
  BY <1>1, CallFacts DEF CallType, MapInv, OwnInv
<1>3. entry[e] \in Entries
  BY <1>1, ListedEntry DEF MapInv, Inv, Visiting
<1>4. \/ UNCHANGED entry
      \/ /\ entry[e].sec = call[w].sec
         /\ entry' = [entry EXCEPT ![e].cert = call[w].cert]
  BY DEF SpreadOne
<1> DEFINE x == [sec |-> entry[e].sec, cert |-> call[w].cert]
<1>5. /\ entry' = [n \in EntryIds |-> entry'[n]]
      /\ \A n \in EntryIds \ {e} : entry'[n] = entry[n]
      /\ \/ entry'[e] = entry[e]
         \/ entry'[e] = x /\ entry[e].sec = call[w].sec
  <2>1. CASE UNCHANGED entry
    BY <2>1 DEF MapInv, EntriesTyped
  <2>2. CASE /\ entry[e].sec = call[w].sec
             /\ entry' = [entry EXCEPT ![e].cert = call[w].cert]
    <3>1. entry'[e] = x
      BY <1>3, <2>2 DEF MapInv, EntriesTyped, Entries
    <3> QED BY <2>2, <3>1 DEF MapInv, EntriesTyped
  <2> QED BY <1>4, <2>1, <2>2
<1>6. entry'[e] \in Entries /\ (Own(entry[e]) => Own(entry'[e]))
  <2>1. call[w].cert \in Certs
    BY <1>2 DEF CallType
  <2>2. x \in Entries
    BY <1>3, <2>1 DEF Entries
  <2>3. entry[e].sec = call[w].sec => Own(x)
    BY <1>2 DEF Own
  <2> HIDE DEF x
  <2> QED BY <1>3, <1>5, <2>2, <2>3
<1>7. EntriesTyped'
  BY <1>5, <1>6 DEF MapInv, EntriesTyped
<1>8. ListsWellFormed' /\ ListsTyped'
  <2>1. \A n \in EntryIds : entry[n] # NoEntry => entry'[n] # NoEntry
    BY <1>5, <1>6, NoneAssumption DEF Entries, Certs
  <2>2. \A h \in Hosts : Range(set[h]) \subseteq EntryIds
    BY DEF MapInv, ListsTyped, EntryIds, Range
  <2> QED BY <1>1, <2>1, <2>2 DEF MapInv, ListsWellFormed, ListsTyped
<1>9. OwnInv'
  <2>1. \A n \in EntryIds : entry'[n] # NoEntry => Own(entry'[n])
    BY <1>3, <1>5, <1>6, NoneAssumption DEF MapInv, OwnInv, Entries, Certs
  <2>2. call' = [call EXCEPT ![w] = c] /\ DOMAIN call = Workers
    BY <1>1 DEF Proceed, Inv
  <2>3. \A v \in Workers : call'[v].pc \in {"rlock", "spread"} => Own(call'[v])
    BY <1>2, <2>2 DEF MapInv, OwnInv, Own
  <2> QED BY <1>1, <2>1, <2>3 DEF MapInv, OwnInv, Own
<1> QED BY <1>7, <1>8, <1>9 DEF MapInv

\* updateIngress installs what its own getCert returned,
LEMMA MapUpdateIngress ==
  ASSUME MapInv, Inv, UpdateIngress
  PROVE  MapInv'
<1> DEFINE c == call["ing"]
           d == CertOf(c.sec, c.obj)
           x == [sec |-> c.sec, cert |-> d]
           Others(h) == Keep(set[h], Ings \ {ing})
<1>1. /\ entry' = [entry EXCEPT ![ing] = x]
      /\ set' = [h \in Hosts |-> IF h \in Head(tls).hosts
                                 THEN Append(Others(h), ing) ELSE Others(h)]
      /\ Proceed("ing", [NoCall EXCEPT !.pc = "next"])
      /\ c.pc = "install" /\ "ing" \in Workers /\ UNCHANGED got
  BY DEF UpdateIngress, At, Workers
<1>2. ing \in Ings /\ ing \in EntryIds
  BY <1>1 DEF Inv, IngOK, EntryIds
<1>3. c.sec \in Secrets /\ c.obj \in Contents \cup {Absent}
  BY <1>1 DEF Inv, IngOK, CallOK, CallType
<1>4. x \in Entries /\ Own(x)
  <2>1. d \in Certs /\ (d # NoCert => d[1] = c.sec)
    BY <1>3, CertOfOwn
  <2> HIDE DEF d, c
  <2> QED BY <1>3, <2>1 DEF Entries, Own
<1> HIDE DEF x, c
<1>5. EntriesTyped'
  BY <1>1, <1>2, <1>4 DEF MapInv, EntriesTyped
<1>6. /\ entry'[ing] = x /\ x # NoEntry
      /\ \A e \in EntryIds \ {ing} : entry'[e] = entry[e]
  BY <1>1, <1>2, <1>4, NoneAssumption DEF MapInv, EntriesTyped, Entries, Certs
<1>7. ASSUME NEW h \in Hosts
      PROVE  /\ set'[h] \in Seq(Ings) /\ IsInjective(set'[h])
             /\ Range(set'[h]) \subseteq Range(set[h]) \cup {ing}
  <2>1. set[h] \in Seq(Ings) /\ IsInjective(set[h])
    BY DEF MapInv, ListsTyped, ListsWellFormed
  <2>2. Others(h) \in Seq(Ings) /\ IsInjective(Others(h))
    BY <2>1, KeepType, KeepInjective
  <2>3. Range(Others(h)) = Range(set[h]) \cap (Ings \ {ing})
    BY <2>1, KeepRange
  <2>4. set'[h] = IF h \in Head(tls).hosts THEN Append(Others(h), ing) ELSE Others(h)
    BY <1>1
  <2> HIDE DEF Others
  <2>5. /\ Append(Others(h), ing) \in Seq(Ings) /\ IsInjective(Append(Others(h), ing))
        /\ Range(Append(Others(h), ing)) = Range(Others(h)) \cup {ing}
    BY <1>2, <2>2, <2>3, AppendOnce, RangeAppend
  <2> QED BY <2>2, <2>3, <2>4, <2>5
<1>8. ListsTyped'
  <2>1. set' = [h \in Hosts |-> set'[h]]
    BY <1>1
  <2> QED BY <1>7, <2>1 DEF ListsTyped
<1>9. ListsWellFormed'
  <2>1. \A h \in Hosts : \A i \in Range(set[h]) : i \in EntryIds
    BY DEF MapInv, ListsTyped, EntryIds, Range
  <2>2. \A h \in Hosts : \A i \in Range(set'[h]) : entry'[i] # NoEntry
    BY <1>6, <1>7, <2>1 DEF MapInv, ListsWellFormed
  <2> QED BY <1>7, <2>2 DEF ListsWellFormed
<1>10. OwnInv'
  <2>1. \A e \in EntryIds : entry'[e] # NoEntry => Own(entry'[e])
    BY <1>4, <1>6 DEF MapInv, OwnInv
  <2>2. \A v \in Workers : call'[v].pc \in {"rlock", "spread"} => Own(call'[v])
    <3>1. call' = [call EXCEPT !["ing"] = [NoCall EXCEPT !.pc = "next"]] /\ DOMAIN call = Workers
      BY <1>1 DEF Proceed, Inv
    <3> QED BY <3>1 DEF MapInv, OwnInv, NoCall
  <2> QED BY <1>1, <2>1, <2>2 DEF MapInv, OwnInv, Own
<1> QED BY <1>5, <1>8, <1>9, <1>10 DEF MapInv

\* and setDefaults what run has got.
LEMMA MapGotDefault ==
  ASSUME MapInv, Inv, GotDefault
  PROVE  MapInv'
<1> DEFINE d == CertOf(call["run"].sec, call["run"].obj)
           x == [sec |-> call["run"].sec, cert |-> d]
           c == [call["run"] EXCEPT !.pc = "next"]
<1>1. /\ Proceed("run", c) /\ UNCHANGED mapVars /\ got' = Append(got, x)
      /\ call["run"].pc = "got" /\ "run" \in Workers
  BY DEF GotDefault, At, Workers
<1>2. /\ call["run"] \in CallType /\ call["run"].sec \in Secrets
      /\ got \in Seq(Entries) /\ DOMAIN call = Workers
  BY <1>1, CallFacts DEF Inv, GotOK, InCall
<1>3. x \in Entries /\ Own(x)
  <2>1. d \in Certs /\ (d # NoCert => d[1] = call["run"].sec)
    BY <1>2, CertOfOwn DEF CallType
  <2> HIDE DEF d
  <2> QED BY <1>2, <2>1 DEF Entries, Own
<1> HIDE DEF x
<1>4. \A n \in DOMAIN got' : Own(got'[n])
  <2>1. \A n \in DOMAIN got' : got'[n] = x \/ (n \in DOMAIN got /\ got'[n] = got[n])
    BY <1>1, <1>2, <1>3
  <2> QED BY <1>3, <2>1 DEF MapInv, OwnInv
<1>5. \A v \in Workers : call'[v].pc \in {"rlock", "spread"} => Own(call'[v])
  BY <1>1, <1>2 DEF Proceed, MapInv, OwnInv, CallType
<1> QED BY <1>1, <1>4, <1>5 DEF MapInv, OwnInv, EntriesTyped, ListsTyped, ListsWellFormed, mapVars, Own

\* The defaults are entries of their own, so that no list changes.
LEMMA MapSetDefaults ==
  ASSUME MapInv, Inv, SetDefaults
  PROVE  MapInv'
<1>1. /\ Proceed("run", NoCall) /\ got' = <<>> /\ UNCHANGED set
      /\ entry' = [e \in EntryIds |-> IF e \in DOMAIN Defaults THEN got[e] ELSE entry[e]]
      /\ call["run"].pc = "install"
  BY DEF SetDefaults, At
<1>2. DOMAIN got = DOMAIN Defaults /\ got \in Seq(Entries)
  BY <1>1, MapAssumption DEF Inv, GotOK
<1>3. \A e \in EntryIds : \/ entry'[e] = entry[e] /\ e \notin DOMAIN Defaults
                          \/ e \in DOMAIN got /\ entry'[e] = got[e] /\ got[e] \in Entries
  BY <1>1, <1>2
<1>4. EntriesTyped'
  BY <1>1, <1>3 DEF MapInv, EntriesTyped
<1>5. ListsTyped' /\ ListsWellFormed'
  <2>1. \A h \in Hosts : \A i \in Range(set[h]) : i \in EntryIds \ DOMAIN Defaults
    BY MapAssumption DEF MapInv, ListsTyped, EntryIds, Range
  <2>2. \A h \in Hosts : \A i \in Range(set[h]) : entry'[i] # NoEntry
    BY <1>1, <2>1 DEF MapInv, ListsWellFormed
  <2> QED BY <1>1, <2>2 DEF MapInv, ListsTyped, ListsWellFormed
<1>6. OwnInv'
  <2>1. \A e \in EntryIds : entry'[e] # NoEntry => Own(entry'[e])
    BY <1>3 DEF MapInv, OwnInv
  <2>2. \A v \in Workers : call'[v].pc \in {"rlock", "spread"} => Own(call'[v])
    BY <1>1 DEF Proceed, NoCall, MapInv, OwnInv, Inv
  <2> QED BY <1>1, <2>1, <2>2 DEF MapInv, OwnInv, Own
<1> QED BY <1>4, <1>5, <1>6 DEF MapInv

\* Only the three writers touch the map.
LEMMA MapStep == MapInv /\ Inv /\ [Next]_vars => MapInv'
<1> SUFFICES ASSUME MapInv, Inv, [Next]_vars PROVE MapInv'
  OBVIOUS
<1> USE DEF jobVars
<1>1. ASSUME UNCHANGED <<mapVars, call, got>> PROVE MapInv'
  BY <1>1 DEF MapInv, EntriesTyped, ListsTyped, ListsWellFormed, OwnInv, mapVars, Own
<1>2. ASSUME NEW s \in Secrets, SecretChanges(s) \/ AddSecret(s) PROVE MapInv'
  <2>1. CASE UNCHANGED call
    BY <1>1, <1>2, <2>1 DEF SecretChanges, AddSecret
  <2>2. CASE Proceed("sec", [NoCall EXCEPT !.pc = "store", !.sec = s, !.obj = indexer[s]])
               /\ UNCHANGED <<mapVars, got>>
    BY <2>2, MapUntouched DEF NoCall, Workers
  <2> QED BY <1>2, <2>1, <2>2 DEF SecretChanges, AddSecret
<1>3. ASSUME NEW w \in Workers, Lookup(w) \/ List(w) \/ Store(w) \/ SpreadEnd(w)
      PROVE  MapInv'
  <2>1. \E c : Proceed(w, c) /\ c.pc \notin {"rlock", "spread"} /\ UNCHANGED <<mapVars, got>>
    <3> USE CallFacts DEF CallType, At
    <3>1. CASE Lookup(w)
      BY <3>1 DEF Lookup
    <3>2. CASE List(w)
      BY <3>2 DEF List
    <3>3. CASE Store(w)
      BY <3>3 DEF Store
    <3>4. CASE SpreadEnd(w)
      BY <3>4 DEF SpreadEnd, NoCall
    <3> QED BY <1>3, <3>1, <3>2, <3>3, <3>4
  <2> QED BY <2>1, MapUntouched
<1>4. ASSUME NEW w \in Workers, Reload(w) PROVE MapInv'
  <2> DEFINE s == call[w].sec
             d == CertOf(s, cache[s])
             c == [call[w] EXCEPT !.cert = d, !.pc = "rlock"]
  <2>1. Proceed(w, c) /\ UNCHANGED <<mapVars, got>> /\ call[w] \in CallType
    BY <1>4, CallFacts DEF Reload
  <2>2. s \in Secrets /\ cache[s] \in Contents \cup {Absent}
    BY <1>4, CallFacts DEF Reload, At, InCall, Inv, Cached
  <2>3. d # NoCert => d[1] = s
    BY <2>2, CertOfOwn
  <2> HIDE DEF d
  <2>4. Own(c)
    BY <2>1, <2>3 DEF Own, CallType
  <2> QED BY <2>1, <2>4, MapUntouched
<1>5. ASSUME NEW w \in Workers, SpreadStart(w) PROVE MapInv'
  <2> DEFINE c == [call[w] EXCEPT !.todo = {e \in EntryIds : Listed(e)}, !.pc = "spread"]
  <2>1. /\ Proceed(w, c) /\ UNCHANGED <<mapVars, got>> /\ call[w].pc = "rlock"
        /\ c.cert = call[w].cert /\ c.sec = call[w].sec
    BY <1>5, CallFacts DEF SpreadStart, At, CallType
  <2>2. Own(c)
    BY <2>1 DEF MapInv, OwnInv, Own
  <2> QED BY <2>1, <2>2, MapUntouched
<1>6. ASSUME NEW w \in Workers, NEW e \in EntryIds, SpreadOne(w, e) PROVE MapInv'
  BY <1>6, MapSpreadOne
<1>7. ASSUME (\E i \in Ings : AddIngress(i)) \/ NextTLS \/ CallLock \/ NextDefault
      PROVE  MapInv'
  <2>1. \E w \in Workers : \E c : /\ Proceed(w, c) /\ c.pc \notin {"rlock", "spread"}
                                  /\ UNCHANGED <<mapVars, got>>
    <3>1. CASE \E i \in Ings : AddIngress(i)
      BY <3>1 DEF AddIngress, NoCall, Workers
    <3>2. CASE NextTLS
      BY <3>2 DEF NextTLS, NoCall, Workers
    <3>3. CASE CallLock
      <4>1. call["ing"] \in CallType
        BY CallFacts DEF Workers
      <4> QED BY <3>3, <4>1 DEF CallLock, CallType, Workers
    <3>4. CASE NextDefault
      BY <3>4 DEF NextDefault, NoCall, Workers
    <3> QED BY <1>7, <3>1, <3>2, <3>3, <3>4
  <2> QED BY <2>1, MapUntouched
<1>8. CASE UpdateIngress \/ GotDefault \/ SetDefaults
  BY <1>8, MapUpdateIngress, MapGotDefault, MapSetDefaults
<1>9. CASE Hello \/ HelloRLock \/ HelloRUnlock \/ UNCHANGED vars
  BY <1>1, <1>9 DEF Hello, HelloRLock, HelloRUnlock, vars
<1> QED BY <1>2, <1>3, <1>4, <1>5, <1>6, <1>7, <1>8, <1>9 DEF Next, Call

\* The map starts with no lists.
LEMMA MapInit == Init => MapInv
<1> SUFFICES ASSUME Init PROVE MapInv
  OBVIOUS
<1>1. EntriesTyped /\ ListsTyped
  BY DEF Init, EntriesTyped, ListsTyped
<1>2. ListsWellFormed
  BY DEF Init, ListsWellFormed, IsInjective, Range
<1>3. OwnInv
  BY DEF Init, OwnInv, NoCall
<1> QED BY <1>1, <1>2, <1>3 DEF MapInv

\* The lists of the map stay well formed: no ingress twice, none without an entry.
THEOREM ListsWellFormedHolds == Spec => []ListsWellFormed
<1>1. MapInv => ListsWellFormed
  BY DEF MapInv
<1> QED BY <1>1, InvInit, InvStep, MapInit, MapStep, PTL DEF Spec

\* Certificates are never crossed over between secrets.
THEOREM OwnCertificateHolds == Spec => []OwnCertificate
<1>1. MapInv => OwnCertificate
  BY DEF MapInv, OwnInv, Own, OwnCertificate
<1> QED BY <1>1, InvInit, InvStep, MapInit, MapStep, PTL DEF Spec

-----------------------------------------------------------------------------
(* The history, and types.                                                   *)

\* The secrets that a worker is busy with, were d its call.
BusyWith(w, d) == ({d.sec} \ {NoSecret})
                    \cup (IF w = "run" THEN {got[n].sec : n \in DOMAIN got} ELSE {})
Busy(w) == BusyWith(w, call[w])

\* No two workers are busy with a secret that the history does not have.
Alone == \A v, w \in Workers : v # w => Busy(v) \cap Busy(w) \subseteq overlapped

\* What a step does to the calls and to the defaults got so far.
WorkerStep ==
  \E w \in Workers : \E c :
    /\ Proceed(w, c)
    /\ UNCHANGED got \/ (w = "run" /\ Busy("run")' \subseteq BusyWith("run", c))

\* Who holds what changes only by the steps of a worker.
LEMMA Steps1 ==
  ASSUME Inv, [Next]_vars
  PROVE  WorkerStep \/ UNCHANGED <<call, got, overlapped>>
<1> USE DEF jobVars, WorkerStep
<1>1. ASSUME NEW s \in Secrets, SecretChanges(s) \/ AddSecret(s)
      PROVE  WorkerStep \/ UNCHANGED <<call, got, overlapped>>
  <2>1. "sec" \in Workers
    BY DEF Workers
  <2> QED BY <1>1, <2>1 DEF SecretChanges, AddSecret
<1>2. ASSUME NEW w \in Workers, Call(w) \/ SpreadStart(w) PROVE WorkerStep
  BY <1>2 DEF Call, Lookup, List, Store, Reload, SpreadOne, SpreadEnd, SpreadStart
<1>3. ASSUME (\E i \in Ings : AddIngress(i)) \/ NextTLS \/ CallLock \/ UpdateIngress
      PROVE  WorkerStep
  <2>1. "ing" \in Workers
    BY DEF Workers
  <2> QED BY <1>3, <2>1 DEF AddIngress, NextTLS, CallLock, UpdateIngress
<1>4. ASSUME NextDefault PROVE WorkerStep
  BY <1>4 DEF NextDefault, Workers
<1>5. ASSUME GotDefault PROVE WorkerStep
  <2> DEFINE c == [call["run"] EXCEPT !.pc = "next"]
             x == [sec |-> call["run"].sec, cert |-> CertOf(call["run"].sec, call["run"].obj)]
  <2>1. /\ Proceed("run", c) /\ got' = Append(got, x) /\ "run" \in Workers
        /\ call["run"].pc = "got"
    BY <1>5 DEF GotDefault, Workers, At
  <2>2. /\ call["run"] \in CallType /\ got \in Seq(Entries) /\ x.sec = call["run"].sec
        /\ call["run"].sec \in Secrets /\ call["run"].sec # NoSecret /\ DOMAIN call = Workers
    BY <2>1, CallFacts, NoneAssumption DEF Inv, GotOK, InCall
  <2>3. call'["run"] = c /\ c.sec = call["run"].sec
    BY <2>1, <2>2 DEF Proceed, CallType
  <2> HIDE DEF x, c
  <2>4. \A n \in DOMAIN got' : got'[n] = x \/ (n \in DOMAIN got /\ got'[n] = got[n])
    BY <2>1, <2>2
  <2>5. Busy("run")' \subseteq BusyWith("run", c)
    BY <2>2, <2>3, <2>4 DEF Busy, BusyWith
  <2> QED BY <2>1, <2>5
<1>6. ASSUME SetDefaults PROVE WorkerStep
  <2>1. Proceed("run", NoCall) /\ got' = <<>> /\ "run" \in Workers /\ DOMAIN call = Workers
    BY <1>6 DEF SetDefaults, Workers, Inv
  <2>2. call'["run"] = NoCall
    BY <2>1 DEF Proceed
  <2>3. Busy("run")' \subseteq BusyWith("run", NoCall)
    BY <2>1, <2>2 DEF Busy, BusyWith
  <2> QED BY <2>1, <2>3
<1>7. CASE Hello \/ HelloRLock \/ HelloRUnlock \/ UNCHANGED vars
  BY <1>7 DEF Hello, HelloRLock, HelloRUnlock, vars
<1> QED BY <1>1, <1>2, <1>3, <1>4, <1>5, <1>6, <1>7 DEF Next

\* The history records what the steps make it record.
LEMMA Overlaps ==
  ASSUME NEW w \in Workers, NEW c, Proceed(w, c)
  PROVE  /\ overlapped \subseteq overlapped'
         /\ \A v \in Workers \ {w} : BusyWith(w, c) \cap Busy(v) \subseteq overlapped'
         /\ overlapped' \subseteq overlapped \cup UNION {Busy(v) : v \in Workers \ {w}}
BY DEF Proceed, BusyWith, Busy

\* Whoever becomes busy with a secret somebody else is busy with marks it as
\* overlapped.
LEMMA AloneStep == Alone /\ Inv /\ [Next]_vars => Alone'
<1> SUFFICES ASSUME Alone, Inv, [Next]_vars PROVE Alone'
  OBVIOUS
<1>1. CASE UNCHANGED <<call, got, overlapped>>
  BY <1>1 DEF Alone, Busy, BusyWith
<1>2. CASE WorkerStep
  <2>1. PICK w \in Workers : \E c :
          /\ Proceed(w, c)
          /\ UNCHANGED got \/ (w = "run" /\ Busy("run")' \subseteq BusyWith("run", c))
    BY <1>2 DEF WorkerStep
  <2>2. PICK c : /\ Proceed(w, c)
                 /\ UNCHANGED got \/ (w = "run" /\ Busy("run")' \subseteq BusyWith("run", c))
    BY <2>1
  <2>3. call' = [call EXCEPT ![w] = c] /\ DOMAIN call = Workers
    BY <2>2 DEF Proceed, Inv
  <2>4. \A v \in Workers \ {w} : Busy(v)' = Busy(v)
    BY <2>2, <2>3 DEF Busy, BusyWith
  <2>5. Busy(w)' \subseteq BusyWith(w, c)
    BY <2>2, <2>3 DEF Busy, BusyWith
  <2>6. ASSUME NEW v \in Workers \ {w} PROVE Busy(w)' \cap Busy(v)' \subseteq overlapped'
    BY <2>2, <2>4, <2>5, Overlaps
  <2>7. ASSUME NEW u \in Workers \ {w}, NEW v \in Workers \ {w}, u # v
        PROVE  Busy(u)' \cap Busy(v)' \subseteq overlapped'
    BY <2>2, <2>4, <2>7, Overlaps DEF Alone
  <2> QED BY <2>6, <2>7 DEF Alone
<1> QED BY <1>1, <1>2, Steps1

RestTyped == /\ owed \in SUBSET Secrets
             /\ ing \in Ings \cup {NoIng}
             /\ reader \in {"idle", "rlock", "inside"}
             /\ overlapped \in SUBSET Secrets
             /\ call = [w \in Workers |-> call[w]]

\* The inputs and the marks keep their types.
LEMMA RestStep == RestTyped /\ Inv /\ [Next]_vars => RestTyped'
<1> SUFFICES ASSUME RestTyped, Inv, [Next]_vars PROVE RestTyped'
  OBVIOUS
<1>1. overlapped' \in SUBSET Secrets
  <2>1. \A v \in Workers : Busy(v) \subseteq Secrets
    <3>1. \A n \in DOMAIN got : got[n].sec \in Secrets
      <4>1. got \in Seq(Entries)
        BY DEF Inv, GotOK
      <4>2. \A n \in DOMAIN got : got[n] \in Entries
        BY <4>1
      <4> QED BY <4>2 DEF Entries
    <3>2. \A v \in Workers : call[v].sec \in Secrets \cup {NoSecret}
      BY CallFacts DEF CallType
    <3> QED BY <3>1, <3>2 DEF Busy, BusyWith
  <2>2. CASE WorkerStep
    BY <2>1, <2>2, Overlaps DEF WorkerStep, RestTyped
  <2>3. CASE UNCHANGED overlapped
    BY <2>3 DEF RestTyped
  <2> QED BY <2>2, <2>3, Steps1
<1>2. owed' \in SUBSET Secrets
  BY DEF RestTyped, Next, Call, Lookup, List, Store, Reload, SpreadStart, SpreadOne, SpreadEnd,
         AddIngress, NextTLS, CallLock, UpdateIngress, NextDefault, GotDefault, SetDefaults,
         Hello, HelloRLock, HelloRUnlock, vars, secretVars, SecretChanges, AddSecret
<1>3. ing' \in Ings \cup {NoIng}
  BY DEF RestTyped, Next, Call, Lookup, List, Store, Reload, SpreadStart, SpreadOne, SpreadEnd,
         AddIngress, NextTLS, CallLock, UpdateIngress, NextDefault, GotDefault, SetDefaults,
         Hello, HelloRLock, HelloRUnlock, vars, jobVars, SecretChanges, AddSecret
<1>4. reader' \in {"idle", "rlock", "inside"}
  BY DEF RestTyped, Next, Call, Lookup, List, Store, Reload, SpreadStart, SpreadOne, SpreadEnd,
         AddIngress, NextTLS, CallLock, UpdateIngress, NextDefault, GotDefault, SetDefaults,
         Hello, HelloRLock, HelloRUnlock, vars, SecretChanges, AddSecret
<1>5. call' = [w \in Workers |-> call'[w]]
  BY Steps1 DEF WorkerStep, Proceed, RestTyped
<1> QED BY <1>1, <1>2, <1>3, <1>4, <1>5 DEF RestTyped

\* At the start nobody is busy.
LEMMA RestInit == Init => RestTyped /\ Alone
<1> SUFFICES ASSUME Init PROVE RestTyped /\ Alone
  OBVIOUS
<1>1. RestTyped
  BY DEF Init, RestTyped
<1>2. \A w \in Workers : Busy(w) = {}
  BY DEF Init, Busy, BusyWith, NoCall
<1> QED BY <1>1, <1>2 DEF Alone

\* The variables keep their types.
THEOREM TypeOKHolds == Spec => []TypeOK
<1>1. Inv /\ MapInv /\ RestTyped => TypeOK
  <2> SUFFICES ASSUME Inv, MapInv, RestTyped PROVE TypeOK
    OBVIOUS
  <2>1. call \in [Workers -> CallType]
    BY DEF Inv, CallOK, RestTyped
  <2> QED BY <2>1 DEF TypeOK, Inv, Cached, MapInv, EntriesTyped, ListsTyped, RestTyped,
                      IngOK, GotOK, CallType, Labels
<1> QED BY <1>1, InvInit, InvStep, MapInit, MapStep, RestInit, RestStep, PTL DEF Spec

-----------------------------------------------------------------------------
(* Freshness.  A secret that the processor has looked at since it changed, and *)
(* that no two workers were busy with at once, is up to date or on its way.    *)

Current(s) == /\ s \in Secrets \ (owed \cup overlapped)
              /\ indexer[s] # Absent /\ <<s, indexer[s]>> \notin Incomplete

\* A call about the secret has what the indexer has.
Carries(d, s) ==
  d.sec = s =>
    /\ d.pc \in {"store", "reload", "rlock", "spread", "got", "install"} => d.obj = indexer[s]
    /\ d.pc = "reload" => cache[s] = indexer[s]
    /\ d.pc \in {"rlock", "spread"} => d.cert = CertOf(s, indexer[s])

\* So does the cache, or else a worker is about to put it there.
CacheFresh(s) ==
  cache[s] = indexer[s] \/ \E w \in Workers : call[w].pc = "store" /\ call[w].sec = s

GotFresh(s) == \A n \in DOMAIN got : got[n].sec = s => got[n].cert = CertOf(s, indexer[s])

\* The entries have its certificate, but for those that a worker has yet to visit.
Pending(d, s, e) ==
  d.sec = s /\ (d.pc \in {"store", "reload", "rlock"} \/ (d.pc = "spread" /\ e \in d.todo))
MapFresh(s) ==
  \A e \in EntryIds :
    Listed(e) /\ entry[e].sec = s /\ (\A w \in Workers : ~Pending(call[w], s, e))
      => entry[e].cert = CertOf(s, indexer[s])

FreshInv ==
  \A s \in Secrets :
    Current(s) => /\ \A w \in Workers : Carries(call[w], s)
                  /\ CacheFresh(s) /\ GotFresh(s) /\ MapFresh(s)

AllInv == Inv /\ MapInv /\ Alone /\ RestTyped /\ FreshInv

\* One worker only is busy with a secret that the history does not have.
LEMMA OneWorker ==
  ASSUME Alone, NEW s \in Secrets, s \notin overlapped,
         NEW v \in Workers, NEW w \in Workers, v # w, call[v].sec = s
  PROVE  /\ call[w].sec # s
         /\ w = "run" => \A n \in DOMAIN got : got[n].sec # s
BY NoneAssumption DEF Alone, Busy, BusyWith

\* A step by which a worker goes on and nothing else changes.
LEMMA FreshUntouched ==
  ASSUME AllInv, Inv', NEW w \in Workers, NEW c, Proceed(w, c),
         UNCHANGED <<secretVars, mapVars, got>>, call[w].pc # "store",
         \A s \in Secrets : Current(s) => Carries(c, s),
         \A s \in Secrets : \A e \in EntryIds :
           Listed(e) /\ Pending(call[w], s, e) => Pending(c, s, e)
  PROVE  FreshInv'
<1> SUFFICES ASSUME NEW s \in Secrets, Current(s)'
             PROVE  /\ \A v \in Workers : Carries(call[v], s)'
                    /\ CacheFresh(s)' /\ GotFresh(s)' /\ MapFresh(s)'
  BY DEF FreshInv
<1> USE DEF secretVars, mapVars
<1>1. call'[w] = c /\ \A v \in Workers \ {w} : call'[v] = call[v]
  BY DEF Proceed, AllInv, Inv
<1>2. Current(s)
  BY Overlaps DEF Current
<1>3. /\ \A v \in Workers : Carries(call[v], s)
      /\ CacheFresh(s) /\ GotFresh(s) /\ MapFresh(s)
  BY <1>2 DEF AllInv, FreshInv
<1>4. \A v \in Workers : Carries(call[v], s)'
  BY <1>1, <1>2, <1>3 DEF Carries
<1>5. CacheFresh(s)'
  BY <1>1, <1>3 DEF CacheFresh
<1>6. GotFresh(s)'
  BY <1>3 DEF GotFresh
<1>7. MapFresh(s)'
  <2> SUFFICES ASSUME NEW e \in EntryIds, Listed(e)', entry'[e].sec = s,
                      \A v \in Workers : ~Pending(call'[v], s, e)
               PROVE  entry'[e].cert = CertOf(s, indexer'[s])
    BY DEF MapFresh, Pending
  <2>1. Listed(e)
    BY DEF Listed
  <2>2. \A v \in Workers : ~Pending(call[v], s, e)
    BY <1>1, <2>1
  <2> QED BY <1>3, <2>1, <2>2 DEF MapFresh
<1> QED BY <1>4, <1>5, <1>6, <1>7

\* getSecret reads the cache, which is behind only when another worker is busy.
LEMMA FreshLookup ==
  ASSUME AllInv, Inv', NEW w \in Workers, Lookup(w)
  PROVE  FreshInv'
<1> DEFINE o == cache[call[w].sec]
           c == [call[w] EXCEPT !.obj = o, !.pc = IF o = Absent THEN "list" ELSE "got"]
<1>1. Proceed(w, c) /\ UNCHANGED <<secretVars, mapVars, got>> /\ call[w].pc = "lookup"
  BY DEF Lookup, At, jobVars
<1>2. call[w] \in CallType
  BY CallFacts DEF AllInv
<1>3. c.obj = o /\ c.sec = call[w].sec /\ c.pc \in {"list", "got"}
  BY <1>2 DEF CallType
<1> HIDE DEF c
<1>4. ASSUME NEW s \in Secrets, Current(s) PROVE Carries(c, s)
  <2> SUFFICES ASSUME c.sec = s, c.pc = "got" PROVE o = indexer[s]
    BY <1>3 DEF Carries
  <2>1. CacheFresh(s) /\ s \notin overlapped
    BY <1>4 DEF AllInv, FreshInv, Current
  <2>2. \A v \in Workers : ~(call[v].pc = "store" /\ call[v].sec = s)
    BY <1>1, <1>3, <2>1, OneWorker DEF AllInv
  <2> QED BY <1>3, <2>1, <2>2 DEF CacheFresh
<1>5. \A s \in Secrets : \A e \in EntryIds : ~Pending(call[w], s, e)
  BY <1>1 DEF Pending
<1> QED BY <1>1, <1>4, <1>5, FreshUntouched

\* What List reads is newest; the cache and the map are as they were.
LEMMA FreshList ==
  ASSUME AllInv, Inv', NEW w \in Workers, List(w)
  PROVE  FreshInv'
<1> DEFINE s0 == call[w].sec
           pair == indexer[s0] # Absent /\ <<s0, indexer[s0]>> \notin Incomplete
           c == [call[w] EXCEPT !.obj = indexer[s0], !.pc = IF pair THEN "store" ELSE "got"]
<1>1. Proceed(w, c) /\ UNCHANGED <<secretVars, mapVars, got>> /\ call[w].pc = "list"
  BY DEF List, At, jobVars
<1>2. c.obj = indexer[s0] /\ c.sec = s0 /\ c.pc \in {"store", "got"}
  BY CallFacts DEF AllInv, CallType
<1> HIDE DEF c
<1>3. \A s \in Secrets : Carries(c, s)
  BY <1>2 DEF Carries
<1>4. \A s \in Secrets : \A e \in EntryIds : ~Pending(call[w], s, e)
  BY <1>1 DEF Pending
<1> QED BY <1>1, <1>3, <1>4, FreshUntouched

\* The certificate parsed is of what the cache holds.
LEMMA FreshReload ==
  ASSUME AllInv, Inv', NEW w \in Workers, Reload(w)
  PROVE  FreshInv'
<1> DEFINE s0 == call[w].sec
           c == [call[w] EXCEPT !.cert = CertOf(s0, cache[s0]), !.pc = "rlock"]
<1>1. Proceed(w, c) /\ UNCHANGED <<secretVars, mapVars, got>> /\ call[w].pc = "reload"
  BY DEF Reload, At, jobVars
<1>2. /\ c.cert = CertOf(s0, cache[s0]) /\ c.sec = s0 /\ c.pc = "rlock"
      /\ c.obj = call[w].obj
  BY CallFacts DEF AllInv, CallType
<1> HIDE DEF c
<1>3. ASSUME NEW s \in Secrets, Current(s) PROVE Carries(c, s)
  <2>1. Carries(call[w], s)
    BY <1>3 DEF AllInv, FreshInv
  <2> QED BY <1>1, <1>2, <2>1 DEF Carries
<1>4. \A s \in Secrets : \A e \in EntryIds : Pending(call[w], s, e) => Pending(c, s, e)
  BY <1>1, <1>2 DEF Pending
<1> QED BY <1>1, <1>3, <1>4, FreshUntouched

\* Whoever begins to spread a certificate has every entry still to visit.
LEMMA FreshSpreadStart ==
  ASSUME AllInv, Inv', NEW w \in Workers, SpreadStart(w)
  PROVE  FreshInv'
<1> DEFINE T == {e \in EntryIds : Listed(e)}
           c == [call[w] EXCEPT !.todo = T, !.pc = "spread"]
<1>1. Proceed(w, c) /\ UNCHANGED <<secretVars, mapVars, got>> /\ call[w].pc = "rlock"
  BY DEF SpreadStart, At, jobVars
<1>2. /\ c.cert = call[w].cert /\ c.sec = call[w].sec /\ c.pc = "spread"
      /\ c.obj = call[w].obj /\ c.todo = T
  BY CallFacts DEF AllInv, CallType
<1> HIDE DEF c
<1>3. ASSUME NEW s \in Secrets, Current(s) PROVE Carries(c, s)
  <2>1. Carries(call[w], s)
    BY <1>3 DEF AllInv, FreshInv
  <2> QED BY <1>1, <1>2, <2>1 DEF Carries
<1>4. \A s \in Secrets : \A e \in EntryIds :
        Listed(e) /\ Pending(call[w], s, e) => Pending(c, s, e)
  BY <1>1, <1>2 DEF Pending
<1> QED BY <1>1, <1>3, <1>4, FreshUntouched

\* Whoever ends has visited them all.
LEMMA FreshSpreadEnd ==
  ASSUME AllInv, Inv', NEW w \in Workers, SpreadEnd(w)
  PROVE  FreshInv'
<1> DEFINE c == IF w = "sec" THEN NoCall ELSE [call[w] EXCEPT !.cert = NoCert, !.pc = "got"]
<1>1. /\ Proceed(w, c) /\ UNCHANGED <<secretVars, mapVars, got>>
      /\ call[w].pc = "spread" /\ call[w].todo = {}
  BY DEF SpreadEnd, At, jobVars
<1>2. \/ c.sec = NoSecret
      \/ c.sec = call[w].sec /\ c.pc = "got" /\ c.obj = call[w].obj
  BY CallFacts DEF AllInv, CallType, NoCall
<1> HIDE DEF c
<1>3. ASSUME NEW s \in Secrets, Current(s) PROVE Carries(c, s)
  <2>1. Carries(call[w], s)
    BY <1>3 DEF AllInv, FreshInv
  <2> QED BY <1>1, <1>2, <2>1, NoneAssumption DEF Carries
<1>4. \A s \in Secrets : \A e \in EntryIds : ~Pending(call[w], s, e)
  BY <1>1 DEF Pending
<1> QED BY <1>1, <1>3, <1>4, FreshUntouched

\* The workers' own steps between calls: to a call about nothing that has been read,
\* or from a call's return to the write lock.
Between(w, c) ==
  /\ Proceed(w, c) /\ UNCHANGED <<secretVars, mapVars, got>>
  /\ call[w].pc \in {"idle", "next", "got"}
  /\ \/ c.pc \in {"next", "lookup", "idle"}
     \/ c.sec = NoSecret
     \/ call[w].pc = "got" /\ c.sec = call[w].sec /\ c.pc = "install" /\ c.obj = call[w].obj

\* Steps between two calls touch neither the cache nor the map.
LEMMA FreshBetween ==
  ASSUME AllInv, Inv', (\E i \in Ings : AddIngress(i)) \/ NextTLS \/ CallLock \/ NextDefault
  PROVE  FreshInv'
<1>1. \E w \in Workers : \E c : Between(w, c)
  <2> USE DEF jobVars, At
  <2>0. "ing" \in Workers /\ "run" \in Workers
    BY DEF Workers
  <2>1. CASE \E i \in Ings : AddIngress(i)
    BY <2>0, <2>1 DEF AddIngress, NoCall, Between
  <2>2. CASE NextTLS
    <3> DEFINE c == [NoCall EXCEPT !.pc = "lookup", !.sec = Head(tls).sec]
    <3>1. NoCall.pc = "idle" /\ c.pc = "lookup"
      BY DEF NoCall
    <3>2. Proceed("ing", NoCall) \/ Proceed("ing", c)
      BY <2>2 DEF NextTLS
    <3>3. UNCHANGED <<secretVars, mapVars, got>> /\ call["ing"].pc = "next"
      BY <2>2 DEF NextTLS
    <3> HIDE DEF c
    <3>4. Between("ing", NoCall) \/ Between("ing", c)
      BY <3>1, <3>2, <3>3 DEF Between
    <3> QED BY <2>0, <3>4
  <2>3. CASE CallLock
    <3> DEFINE c == [call["ing"] EXCEPT !.pc = "install"]
    <3>1. call["ing"] \in CallType
      BY <2>0, CallFacts DEF AllInv
    <3>2. c.sec = call["ing"].sec /\ c.pc = "install" /\ c.obj = call["ing"].obj
      BY <3>1 DEF CallType
    <3>3. Proceed("ing", c) /\ UNCHANGED <<secretVars, mapVars, got>> /\ call["ing"].pc = "got"
      BY <2>3 DEF CallLock
    <3> HIDE DEF c
    <3>4. Between("ing", c)
      BY <3>2, <3>3 DEF Between
    <3> QED BY <2>0, <3>4
  <2>4. CASE NextDefault
    <3> DEFINE i == [NoCall EXCEPT !.pc = "install"]
               n == [NoCall EXCEPT !.pc = "lookup", !.sec = Defaults[Len(got) + 1]]
               c == IF Len(got) = Len(Defaults) THEN i ELSE n
    <3>1. i.sec = NoSecret /\ n.pc = "lookup"
      BY DEF NoCall
    <3>2. Proceed("run", c) /\ UNCHANGED <<secretVars, mapVars, got>> /\ call["run"].pc = "next"
      BY <2>4 DEF NextDefault
    <3> HIDE DEF i, n
    <3>3. c.sec = NoSecret \/ c.pc = "lookup"
      BY <3>1
    <3> HIDE DEF c
    <3>4. Between("run", c)
      BY <3>2, <3>3 DEF Between
    <3> QED BY <2>0, <3>4
  <2> QED BY <2>1, <2>2, <2>3, <2>4
<1>2. PICK w \in Workers : \E c : Between(w, c)
  BY <1>1
<1>3. PICK c : Between(w, c)
  BY <1>2
<1>4. ASSUME NEW s \in Secrets, Current(s) PROVE Carries(c, s)
  <2>1. Carries(call[w], s)
    BY <1>4 DEF AllInv, FreshInv
  <2> QED BY <1>3, <2>1, NoneAssumption DEF Carries, Between
<1>5. \A s \in Secrets : \A e \in EntryIds : ~Pending(call[w], s, e)
  BY <1>3 DEF Pending, Between
<1>6. /\ Proceed(w, c) /\ UNCHANGED <<secretVars, mapVars, got>>
      /\ call[w].pc # "store"
  BY <1>3 DEF Between
<1> QED BY <1>4, <1>5, <1>6, FreshUntouched

\* addItem's store: the worker is the only one busy with the secret, and stores what
\* the indexer has.
LEMMA FreshStore ==
  ASSUME AllInv, Inv', NEW w \in Workers, Store(w)
  PROVE  FreshInv'
<1> DEFINE s0 == call[w].sec
           c == [call[w] EXCEPT !.pc = "reload"]
<1>1. /\ Proceed(w, c) /\ UNCHANGED <<indexer, owed, mapVars, got>> /\ call[w].pc = "store"
      /\ cache' = [cache EXCEPT ![s0] = call[w].obj] /\ s0 \in Secrets
  BY CallFacts DEF Store, At, jobVars, AllInv, InCall
<1>2. c.sec = s0 /\ c.pc = "reload" /\ c.obj = call[w].obj
  BY CallFacts DEF AllInv, CallType
<1> HIDE DEF c
<1>3. call'[w] = c /\ \A v \in Workers \ {w} : call'[v] = call[v]
  BY <1>1 DEF Proceed, AllInv, Inv
<1> SUFFICES ASSUME NEW s \in Secrets, Current(s)'
             PROVE  /\ \A v \in Workers : Carries(call[v], s)'
                    /\ CacheFresh(s)' /\ GotFresh(s)' /\ MapFresh(s)'
  BY DEF FreshInv
<1>4. Current(s) /\ s \notin overlapped
  BY <1>1, Overlaps DEF Current
<1>5. /\ \A v \in Workers : Carries(call[v], s)
      /\ CacheFresh(s) /\ GotFresh(s) /\ MapFresh(s)
  BY <1>4 DEF AllInv, FreshInv
<1>6. s = s0 => cache'[s] = indexer[s]
  BY <1>1, <1>5 DEF Carries, AllInv, Inv, Cached
<1>7. s # s0 => cache'[s] = cache[s]
  BY <1>1 DEF AllInv, Inv, Cached
<1>8. ASSUME NEW v \in Workers PROVE Carries(call[v], s)'
  <2>1. CASE v = w
    BY <1>1, <1>2, <1>3, <1>5, <1>6, <2>1 DEF Carries
  <2>2. CASE v # w
    <3>1. call[v].sec = s => s # s0
      BY <1>4, <2>2, OneWorker DEF AllInv
    <3> QED BY <1>1, <1>3, <1>5, <1>7, <2>2, <3>1 DEF Carries
  <2> QED BY <2>1, <2>2
<1>9. CacheFresh(s)'
  BY <1>1, <1>3, <1>5, <1>6, <1>7 DEF CacheFresh
<1>10. GotFresh(s)'
  BY <1>1, <1>5 DEF GotFresh
<1>11. MapFresh(s)'
  <2> SUFFICES ASSUME NEW e \in EntryIds, Listed(e)', entry'[e].sec = s,
                      \A v \in Workers : ~Pending(call'[v], s, e)
               PROVE  entry'[e].cert = CertOf(s, indexer'[s])
    BY DEF MapFresh, Pending
  <2>1. Listed(e) /\ entry' = entry
    BY <1>1 DEF Listed, mapVars
  <2>2. \A v \in Workers : ~Pending(call[v], s, e)
    BY <1>1, <1>2, <1>3 DEF Pending
  <2> QED BY <1>1, <1>5, <2>1, <2>2 DEF MapFresh
<1> QED BY <1>3, <1>8, <1>9, <1>10, <1>11

\* updateSecret's visits: the certificate is what the indexer has.
LEMMA FreshSpreadOne ==
  ASSUME AllInv, Inv', NEW w \in Workers, NEW e \in EntryIds, SpreadOne(w, e)
  PROVE  FreshInv'
<1> DEFINE s0 == call[w].sec
           c == [call[w] EXCEPT !.todo = @ \ {e}]
<1>1. /\ Proceed(w, c) /\ UNCHANGED <<secretVars, set, got>>
      /\ call[w].pc = "spread" /\ e \in call[w].todo
  BY DEF SpreadOne, At, jobVars
<1>2. /\ c.sec = s0 /\ c.pc = "spread" /\ c.obj = call[w].obj /\ c.cert = call[w].cert
      /\ c.todo = call[w].todo \ {e}
  BY <1>1, CallFacts DEF AllInv, CallType
<1> HIDE DEF c
<1>3. call'[w] = c /\ \A v \in Workers \ {w} : call'[v] = call[v]
  BY <1>1 DEF Proceed, AllInv, Inv
<1>4. Listed(e) /\ entry[e] \in Entries
  BY <1>1, ListedEntry DEF AllInv, Inv, Visiting, MapInv
<1>5. /\ \A n \in EntryIds \ {e} : entry'[n] = entry[n]
      /\ entry[e].sec # s0 => entry'[e] = entry[e]
      /\ entry[e].sec = s0 => entry'[e].sec = s0 /\ entry'[e].cert = call[w].cert
  BY <1>4 DEF SpreadOne, AllInv, MapInv, EntriesTyped, Entries
<1>6. \A n \in EntryIds : Listed(n)' => Listed(n)
  <2> SUFFICES ASSUME NEW n \in EntryIds, Listed(n)' PROVE Listed(n)
    OBVIOUS
  <2>1. CASE n = e
    BY <1>4, <2>1
  <2>2. CASE n # e
    BY <1>1, <1>5, <2>2 DEF Listed
  <2> QED BY <2>1, <2>2
<1> SUFFICES ASSUME NEW s \in Secrets, Current(s)'
             PROVE  /\ \A v \in Workers : Carries(call[v], s)'
                    /\ CacheFresh(s)' /\ GotFresh(s)' /\ MapFresh(s)'
  BY DEF FreshInv
<1> USE DEF secretVars
<1>7. Current(s)
  BY <1>1, Overlaps DEF Current
<1>8. /\ \A v \in Workers : Carries(call[v], s)
      /\ CacheFresh(s) /\ GotFresh(s) /\ MapFresh(s)
  BY <1>7 DEF AllInv, FreshInv
<1>9. \A v \in Workers : Carries(call[v], s)'
  BY <1>1, <1>2, <1>3, <1>8 DEF Carries
<1>10. CacheFresh(s)' /\ GotFresh(s)'
  BY <1>1, <1>3, <1>8 DEF CacheFresh, GotFresh
<1>11. MapFresh(s)'
  <2> SUFFICES ASSUME NEW n \in EntryIds, Listed(n)', entry'[n].sec = s,
                      \A v \in Workers : ~Pending(call'[v], s, n)
               PROVE  entry'[n].cert = CertOf(s, indexer'[s])
    BY DEF MapFresh, Pending
  <2>1. CASE n = e /\ entry[e].sec = s0
    BY <1>1, <1>5, <1>8, <2>1 DEF Carries
  <2>2. CASE ~(n = e /\ entry[e].sec = s0)
    <3>1. entry'[n] = entry[n] /\ Listed(n)
      BY <1>5, <1>6, <2>2
    <3>2. s = s0 => n # e
      BY <2>2, <3>1
    <3>3. \A v \in Workers : ~Pending(call[v], s, n)
      BY <1>1, <1>2, <1>3, <3>2 DEF Pending
    <3> QED BY <1>1, <1>8, <3>1, <3>3 DEF MapFresh
  <2> QED BY <2>1, <2>2
<1> QED BY <1>9, <1>10, <1>11

\* updateIngress adds no ingress to a list but the one it is about,
LEMMA UpdatedRange ==
  ASSUME ListsTyped, ing \in Ings, UpdateIngress, NEW h \in Hosts
  PROVE  Range(set'[h]) \subseteq Range(set[h]) \cup {ing}
<1> DEFINE o == Keep(set[h], Ings \ {ing})
<1>1. set'[h] = o \/ set'[h] = Append(o, ing)
  BY DEF UpdateIngress
<1>2. o \in Seq(Ings) /\ Range(o) = Range(set[h]) \cap (Ings \ {ing})
  BY KeepType, KeepRange DEF ListsTyped
<1> HIDE DEF o
<1>3. Range(Append(o, ing)) = Range(o) \cup {ing}
  BY <1>2, RangeAppend
<1> QED BY <1>1, <1>2, <1>3

\* and installs the certificate of what the indexer has.
LEMMA FreshUpdateIngress ==
  ASSUME AllInv, Inv', UpdateIngress
  PROVE  FreshInv'
<1> DEFINE c == [NoCall EXCEPT !.pc = "next"]
           d == call["ing"]
<1>1. /\ Proceed("ing", c) /\ UNCHANGED <<secretVars, got>> /\ d.pc = "install"
      /\ entry' = [entry EXCEPT ![ing] = [sec |-> d.sec, cert |-> CertOf(d.sec, d.obj)]]
      /\ "ing" \in Workers
  BY DEF UpdateIngress, At, Workers
<1>2. ing \in Ings /\ ing \in EntryIds
  BY <1>1 DEF AllInv, Inv, IngOK, EntryIds
<1>3. c.sec = NoSecret
  BY DEF NoCall
<1> HIDE DEF c
<1>4. call'["ing"] = c /\ \A v \in Workers \ {"ing"} : call'[v] = call[v]
  BY <1>1 DEF Proceed, AllInv, Inv
<1>5. /\ \A n \in EntryIds \ {ing} : entry'[n] = entry[n]
      /\ entry'[ing] = [sec |-> d.sec, cert |-> CertOf(d.sec, d.obj)]
  BY <1>1, <1>2 DEF AllInv, MapInv, EntriesTyped
<1>6. \A n \in EntryIds \ {ing} : Listed(n)' => Listed(n)
  BY <1>2, <1>5, UpdatedRange DEF Listed, AllInv, MapInv
<1> SUFFICES ASSUME NEW s \in Secrets, Current(s)'
             PROVE  /\ \A v \in Workers : Carries(call[v], s)'
                    /\ CacheFresh(s)' /\ GotFresh(s)' /\ MapFresh(s)'
  BY DEF FreshInv
<1> USE DEF secretVars
<1>7. Current(s)
  BY <1>1, Overlaps DEF Current
<1>8. /\ \A v \in Workers : Carries(call[v], s)
      /\ CacheFresh(s) /\ GotFresh(s) /\ MapFresh(s)
  BY <1>7 DEF AllInv, FreshInv
<1>9. \A v \in Workers : Carries(call[v], s)'
  BY <1>1, <1>3, <1>4, <1>8, NoneAssumption DEF Carries
<1>10. CacheFresh(s)' /\ GotFresh(s)'
  BY <1>1, <1>4, <1>8 DEF CacheFresh, GotFresh
<1>11. MapFresh(s)'
  <2> SUFFICES ASSUME NEW n \in EntryIds, Listed(n)', entry'[n].sec = s,
                      \A v \in Workers : ~Pending(call'[v], s, n)
               PROVE  entry'[n].cert = CertOf(s, indexer'[s])
    BY DEF MapFresh, Pending
  <2>1. CASE n = ing
    <3>1. d.sec = s
      BY <1>5, <2>1
    <3>2. d.obj = indexer[s]
      BY <1>1, <1>8, <3>1 DEF Carries
    <3> QED BY <1>1, <1>5, <2>1, <3>1, <3>2
  <2>2. CASE n # ing
    <3>1. entry'[n] = entry[n] /\ Listed(n)
      BY <1>5, <1>6, <2>2
    <3>2. \A v \in Workers : ~Pending(call[v], s, n)
      BY <1>1, <1>4 DEF Pending
    <3> QED BY <1>1, <1>8, <3>1, <3>2 DEF MapFresh
  <2> QED BY <2>1, <2>2
<1> QED BY <1>9, <1>10, <1>11

\* So do run's steps.
LEMMA FreshGotDefault ==
  ASSUME AllInv, Inv', GotDefault
  PROVE  FreshInv'
<1> DEFINE d == call["run"]
           x == [sec |-> d.sec, cert |-> CertOf(d.sec, d.obj)]
           c == [d EXCEPT !.pc = "next"]
<1>1. /\ Proceed("run", c) /\ UNCHANGED <<secretVars, mapVars>> /\ got' = Append(got, x)
      /\ d.pc = "got" /\ "run" \in Workers
  BY DEF GotDefault, At, Workers
<1>2. c.sec = d.sec /\ c.pc = "next" /\ got \in Seq(Entries)
  BY <1>1, CallFacts DEF AllInv, Inv, GotOK, CallType
<1> HIDE DEF c
<1>3. call'["run"] = c /\ \A v \in Workers \ {"run"} : call'[v] = call[v]
  BY <1>1 DEF Proceed, AllInv, Inv
<1>4. \A n \in DOMAIN got' : got'[n] = x \/ (n \in DOMAIN got /\ got'[n] = got[n])
  <2> HIDE DEF x
  <2> QED BY <1>1, <1>2
<1> SUFFICES ASSUME NEW s \in Secrets, Current(s)'
             PROVE  /\ \A v \in Workers : Carries(call[v], s)'
                    /\ CacheFresh(s)' /\ GotFresh(s)' /\ MapFresh(s)'
  BY DEF FreshInv
<1> USE DEF secretVars, mapVars
<1>5. Current(s)
  BY <1>1, Overlaps DEF Current
<1>6. /\ \A v \in Workers : Carries(call[v], s)
      /\ CacheFresh(s) /\ GotFresh(s) /\ MapFresh(s)
  BY <1>5 DEF AllInv, FreshInv
<1>7. \A v \in Workers : Carries(call[v], s)'
  BY <1>1, <1>2, <1>3, <1>6 DEF Carries
<1>8. CacheFresh(s)'
  BY <1>1, <1>3, <1>6 DEF CacheFresh
<1>9. GotFresh(s)'
  <2>1. d.sec = s => d.obj = indexer[s]
    BY <1>1, <1>6 DEF Carries
  <2>2. x.sec = s => x.cert = CertOf(s, indexer[s])
    BY <2>1
  <2> HIDE DEF x
  <2> QED BY <1>1, <1>4, <1>6, <2>2 DEF GotFresh
<1>10. MapFresh(s)'
  <2> SUFFICES ASSUME NEW n \in EntryIds, Listed(n)', entry'[n].sec = s,
                      \A v \in Workers : ~Pending(call'[v], s, n)
               PROVE  entry'[n].cert = CertOf(s, indexer'[s])
    BY DEF MapFresh, Pending
  <2>1. Listed(n) /\ entry' = entry
    BY <1>1 DEF Listed
  <2>2. \A v \in Workers : ~Pending(call[v], s, n)
    BY <1>1, <1>3 DEF Pending
  <2> QED BY <1>1, <1>6, <2>1, <2>2 DEF MapFresh
<1> QED BY <1>7, <1>8, <1>9, <1>10

\* What is installed was newest when it was read, or the secret is overlapped.
LEMMA FreshSetDefaults ==
  ASSUME AllInv, Inv', SetDefaults
  PROVE  FreshInv'
<1>1. /\ Proceed("run", NoCall) /\ UNCHANGED <<secretVars, set>> /\ got' = <<>>
      /\ entry' = [e \in EntryIds |-> IF e \in DOMAIN Defaults THEN got[e] ELSE entry[e]]
      /\ call["run"].pc = "install" /\ "run" \in Workers
  BY DEF SetDefaults, At, Workers
<1>2. NoCall.sec = NoSecret
  BY DEF NoCall
<1>3. DOMAIN got = DOMAIN Defaults
  BY <1>1, MapAssumption DEF AllInv, Inv, GotOK
<1>4. call'["run"] = NoCall /\ \A v \in Workers \ {"run"} : call'[v] = call[v]
  BY <1>1 DEF Proceed, AllInv, Inv
<1> SUFFICES ASSUME NEW s \in Secrets, Current(s)'
             PROVE  /\ \A v \in Workers : Carries(call[v], s)'
                    /\ CacheFresh(s)' /\ GotFresh(s)' /\ MapFresh(s)'
  BY DEF FreshInv
<1> USE DEF secretVars
<1>5. Current(s)
  BY <1>1, Overlaps DEF Current
<1>6. /\ \A v \in Workers : Carries(call[v], s)
      /\ CacheFresh(s) /\ GotFresh(s) /\ MapFresh(s)
  BY <1>5 DEF AllInv, FreshInv
<1>7. \A v \in Workers : Carries(call[v], s)'
  BY <1>1, <1>2, <1>4, <1>6, NoneAssumption DEF Carries
<1>8. CacheFresh(s)' /\ GotFresh(s)'
  BY <1>1, <1>4, <1>6 DEF CacheFresh, GotFresh
<1>9. MapFresh(s)'
  <2> SUFFICES ASSUME NEW n \in EntryIds, Listed(n)', entry'[n].sec = s,
                      \A v \in Workers : ~Pending(call'[v], s, n)
               PROVE  entry'[n].cert = CertOf(s, indexer'[s])
    BY DEF MapFresh, Pending
  <2>1. CASE n \in DOMAIN Defaults
    BY <1>1, <1>3, <1>6, <2>1 DEF GotFresh
  <2>2. CASE n \notin DOMAIN Defaults
    <3>1. Listed(n) /\ entry'[n] = entry[n]
      BY <1>1, <2>2 DEF Listed
    <3>2. \A v \in Workers : ~Pending(call[v], s, n)
      BY <1>1, <1>4 DEF Pending
    <3> QED BY <1>1, <1>6, <3>1, <3>2 DEF MapFresh
  <2> QED BY <2>1, <2>2
<1> QED BY <1>7, <1>8, <1>9

\* The processor takes a secret up with what the indexer has, and finds nobody busy
\* with it unless the history records it; a secret that changes is owed.
LEMMA FreshAddSecret ==
  ASSUME AllInv, Inv', NEW s0 \in Secrets, AddSecret(s0)
  PROVE  FreshInv'
<1> DEFINE c == [NoCall EXCEPT !.pc = "store", !.sec = s0, !.obj = indexer[s0]]
<1>1. /\ UNCHANGED <<indexer, cache, mapVars, got>> /\ owed' = owed \ {s0}
      /\ "sec" \in Workers /\ call["sec"].pc = "idle"
  BY DEF AddSecret, At, Workers, jobVars
<1>2. c.sec = s0 /\ c.pc = "store" /\ c.obj = indexer[s0]
  BY DEF NoCall
<1>3. \/ Proceed("sec", c)
      \/ UNCHANGED <<call, overlapped>> /\ ~(indexer[s0] # Absent /\ <<s0, indexer[s0]>> \notin Incomplete)
  BY DEF AddSecret
<1> HIDE DEF c
<1> SUFFICES ASSUME NEW s \in Secrets, Current(s)'
             PROVE  /\ \A v \in Workers : Carries(call[v], s)'
                    /\ CacheFresh(s)' /\ GotFresh(s)' /\ MapFresh(s)'
  BY DEF FreshInv
<1> USE DEF mapVars
<1>4. CASE Proceed("sec", c)
  <2>1. call'["sec"] = c /\ \A v \in Workers \ {"sec"} : call'[v] = call[v]
    BY <1>1, <1>4 DEF Proceed, AllInv, Inv
  <2>2. CASE s = s0
    <3>1. ASSUME NEW v \in Workers \ {"sec"}
          PROVE  /\ call[v].sec # s
                 /\ v = "run" => \A n \in DOMAIN got : got[n].sec # s
      <4>1. s \in BusyWith("sec", c) /\ s \notin overlapped'
        BY <1>2, <2>2, NoneAssumption DEF BusyWith, Current
      <4>2. s \notin Busy(v)
        BY <1>1, <1>4, <4>1, Overlaps
      <4> QED BY <4>2, NoneAssumption DEF Busy, BusyWith
    <3>2. \A v \in Workers : Carries(call[v], s)'
      BY <1>1, <1>2, <2>1, <2>2, <3>1 DEF Carries
    <3>3. CacheFresh(s)' /\ GotFresh(s)'
      BY <1>1, <1>2, <2>1, <2>2, <3>1 DEF CacheFresh, GotFresh, Workers
    <3>4. MapFresh(s)'
      BY <1>1, <1>2, <2>1, <2>2 DEF MapFresh, Pending
    <3> QED BY <3>2, <3>3, <3>4
  <2>3. CASE s # s0
    <3>1. Current(s)
      BY <1>1, <1>4, <2>3, Overlaps DEF Current
    <3>2. /\ \A v \in Workers : Carries(call[v], s)
          /\ CacheFresh(s) /\ GotFresh(s) /\ MapFresh(s)
      BY <3>1 DEF AllInv, FreshInv
    <3>3. \A v \in Workers : Carries(call[v], s)'
      BY <1>1, <1>2, <2>1, <2>3, <3>2 DEF Carries
    <3>4. CacheFresh(s)' /\ GotFresh(s)'
      BY <1>1, <2>1, <3>2 DEF CacheFresh, GotFresh
    <3>5. MapFresh(s)'
      <4> SUFFICES ASSUME NEW n \in EntryIds, Listed(n)', entry'[n].sec = s,
                          \A v \in Workers : ~Pending(call'[v], s, n)
                   PROVE  entry'[n].cert = CertOf(s, indexer'[s])
        BY DEF MapFresh, Pending
      <4>1. Listed(n) /\ entry' = entry
        BY <1>1 DEF Listed
      <4>2. \A v \in Workers : ~Pending(call[v], s, n)
        BY <1>1, <2>1 DEF Pending
      <4> QED BY <1>1, <3>2, <4>1, <4>2 DEF MapFresh
    <3> QED BY <3>3, <3>4, <3>5
  <2> QED BY <2>2, <2>3
<1>5. CASE UNCHANGED <<call, overlapped>>
             /\ ~(indexer[s0] # Absent /\ <<s0, indexer[s0]>> \notin Incomplete)
  <2>1. Current(s)
    BY <1>1, <1>5 DEF Current
  <2>2. /\ \A v \in Workers : Carries(call[v], s)
        /\ CacheFresh(s) /\ GotFresh(s) /\ MapFresh(s)
    BY <2>1 DEF AllInv, FreshInv
  <2> QED BY <1>1, <1>5, <2>2 DEF Carries, CacheFresh, GotFresh, MapFresh, Pending, Listed
<1> QED BY <1>3, <1>4, <1>5

\* Steps that leave the workers, the cache and the map alone make no secret current
\* that was not, so what was fresh stays so.
LEMMA FreshElsewhere ==
  ASSUME AllInv, UNCHANGED <<cache, mapVars, call, got, overlapped>>,
         \A s \in Secrets : Current(s)' => Current(s) /\ indexer'[s] = indexer[s]
  PROVE  FreshInv'
<1> SUFFICES ASSUME NEW s \in Secrets, Current(s)'
             PROVE  /\ \A v \in Workers : Carries(call[v], s)'
                    /\ CacheFresh(s)' /\ GotFresh(s)' /\ MapFresh(s)'
  BY DEF FreshInv
<1>1. indexer'[s] = indexer[s] /\ Current(s)
  OBVIOUS
<1>2. /\ \A v \in Workers : Carries(call[v], s)
      /\ CacheFresh(s) /\ GotFresh(s) /\ MapFresh(s)
  BY <1>1 DEF AllInv, FreshInv
<1> QED BY <1>1, <1>2 DEF Carries, CacheFresh, GotFresh, MapFresh, Pending, Listed, mapVars

\* The steps together; a change of a secret leaves it owed.
LEMMA FreshStep == AllInv /\ Inv' /\ [Next]_vars => FreshInv'
<1> SUFFICES ASSUME AllInv, Inv', [Next]_vars PROVE FreshInv'
  OBVIOUS
<1>1. ASSUME NEW s \in Secrets, SecretChanges(s) PROVE FreshInv'
  <2>1. UNCHANGED <<cache, mapVars, call, got, overlapped>> /\ owed' = owed \cup {s}
    BY <1>1 DEF SecretChanges, jobVars
  <2>2. \A t \in Secrets \ {s} : indexer'[t] = indexer[t]
    BY <1>1 DEF SecretChanges, AllInv, Inv, Cached
  <2>3. \A t \in Secrets : Current(t)' => Current(t) /\ indexer'[t] = indexer[t]
    BY <2>1, <2>2 DEF Current
  <2> QED BY <2>1, <2>3, FreshElsewhere
<1>2. ASSUME NEW s \in Secrets, AddSecret(s) PROVE FreshInv'
  BY <1>2, FreshAddSecret
<1>3. ASSUME NEW w \in Workers, Call(w) \/ SpreadStart(w) PROVE FreshInv'
  BY <1>3, FreshLookup, FreshList, FreshStore, FreshReload, FreshSpreadStart,
     FreshSpreadOne, FreshSpreadEnd DEF Call
<1>4. ASSUME (\E i \in Ings : AddIngress(i)) \/ NextTLS \/ CallLock \/ NextDefault PROVE FreshInv'
  BY <1>4, FreshBetween
<1>5. CASE UpdateIngress \/ GotDefault \/ SetDefaults
  BY <1>5, FreshUpdateIngress, FreshGotDefault, FreshSetDefaults
<1>6. ASSUME Hello \/ HelloRLock \/ HelloRUnlock \/ UNCHANGED vars PROVE FreshInv'
  <2>1. UNCHANGED <<indexer, owed, cache, mapVars, call, got, overlapped>>
    BY <1>6 DEF Hello, HelloRLock, HelloRUnlock, vars, secretVars, jobVars
  <2>2. \A t \in Secrets : Current(t)' => Current(t) /\ indexer'[t] = indexer[t]
    BY <2>1 DEF Current
  <2> QED BY <2>1, <2>2, FreshElsewhere
<1> QED BY <1>1, <1>2, <1>3, <1>4, <1>5, <1>6 DEF Next

\* When there is nothing left to do, every entry of the map has the certificate of
\* what its secret holds, unless two workers were once busy with the secret at the
\* same time.
THEOREM FreshUnlessOverlappedHolds == Spec => []FreshUnlessOverlapped
<1>1. Init => FreshInv
  BY DEF Init, FreshInv, Current
<1>2. AllInv => FreshUnlessOverlapped
  <2> SUFFICES ASSUME AllInv, Settled, NEW e \in EntryIds, Listed(e),
                      entry[e].sec \notin overlapped
               PROVE  Fresh(e)
    BY DEF FreshUnlessOverlapped
  <2> DEFINE s == entry[e].sec
  <2>1. s \in Secrets
    BY ListedEntry DEF AllInv, MapInv, Entries
  <2> SUFFICES ASSUME indexer[s] # Absent, <<s, indexer[s]>> \notin Incomplete
               PROVE  entry[e].cert = CertOf(s, indexer[s])
    BY DEF Fresh
  <2>2. Current(s)
    BY <2>1 DEF Current, Settled
  <2>3. MapFresh(s)
    BY <2>1, <2>2 DEF AllInv, FreshInv
  <2>4. \A w \in Workers : ~Pending(call[w], s, e)
    BY DEF Settled, At, Pending
  <2> QED BY <2>3, <2>4 DEF MapFresh
<1>3. Init => AllInv
  BY <1>1, InvInit, MapInit, RestInit DEF AllInv
<1>4. AllInv /\ [Next]_vars => AllInv'
  BY InvStep, MapStep, AloneStep, RestStep, FreshStep DEF AllInv
<1> QED BY <1>2, <1>3, <1>4, PTL DEF Spec

=============================================================================
