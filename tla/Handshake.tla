------------------------------ MODULE Handshake ------------------------------
(***************************************************************************)
(* certMap.GetCertificate: which certificate a TLS handshake is served.    *)
(*                                                                         *)
(* It holds certMap's read lock throughout, so the lists it walks stay as  *)
(* they are (Certificates!ReadersUndisturbed); the entries' certificates   *)
(* do not, since updateSecret replaces them under the read lock, one entry *)
(* at a time.  The six loops over entries are six passes of one action.    *)
(*                                                                         *)
(* A certificate is the entry it was put in, whether it has expired and    *)
(* whether the client supports it.                                         *)
(***************************************************************************)
EXTENDS Naturals, Sequences, Functions

CONSTANTS Entries,   \* certMapEntries
          Lists,     \* the lists a server name may find in the map
          NoCert,    \* an entry's nil certificate, and GetCertificate's
          NoLists

Passes == 1..6
Exact == {1, 4}
Wild == {2, 5}
Default == {3, 6}
Strict == {1, 2, 3}   \* the passes that ask for a certificate valid now

Certs == [of : Entries, expired : BOOLEAN, supported : BOOLEAN]

ASSUME NoCertAssumption == NoCert \notin Certs
ASSUME ListsAssumption ==
  /\ Lists \subseteq [exact : Seq(Entries), wild : Seq(Entries), dflt : Seq(Entries)]
  /\ NoLists \notin Lists

VARIABLES cert,       \* the certificate of each entry
          lists,      \* the lists of the handshake's server name
          pc,         \* where the handshake is
          pass, pos,  \* the loop and the entry it is at
          read,       \* the certificate it read of a wildcard's entry
          last,       \* lastOption
          served,     \* what the last handshake returned
          disturbed   \* history: an entry has changed since it began

localVars == <<pass, pos, read, last>>
vars == <<cert, lists, pc, localVars, served, disturbed>>

Init == /\ cert \in [Entries -> {NoCert}]
        /\ lists = NoLists
        /\ pc = "idle"
        /\ pass = 1 /\ pos = 1
        /\ read = NoCert /\ last = NoCert /\ served = NoCert
        /\ disturbed = FALSE

\* Mutant: updateSecret does not compare the entry's secret.
UpdateAnySecret(e) ==
  /\ \E c \in Certs : cert' = [cert EXCEPT ![e] = c]
  /\ disturbed' = (disturbed \/ (pc # "idle" /\ cert' # cert))
  /\ UNCHANGED <<lists, pc, localVars, served>>

\* updateSecret, under the entry's lock: another certificate of the entry's
\* secret, or none when the secret does not parse.
UpdateSecret(e) ==
  /\ \E c \in {d \in Certs : d.of = e} \cup {NoCert} : cert' = [cert EXCEPT ![e] = c]
  /\ disturbed' = (disturbed \/ (pc # "idle" /\ cert' # cert))
  /\ UNCHANGED <<lists, pc, localVars, served>>

\* A handshake takes the read lock, in whatever state the map then is.
Hello ==
  /\ pc = "idle"
  /\ lists' \in Lists
  /\ pc' = "look"
  /\ disturbed' = FALSE
  /\ served' = NoCert
  /\ UNCHANGED <<cert, localVars>>

\* Mutant: the wildcard's entries are looked at before the name's own.
ListWildFirst == CASE pass \in Exact -> lists.wild
                   [] pass \in Wild -> lists.exact
                   [] pass \in Default -> lists.dflt

List == CASE pass \in Exact -> lists.exact
          [] pass \in Wild -> lists.wild
          [] pass \in Default -> lists.dflt

\* GetCertificate returns c, or panics; either way the lock is released.
Return(c, how) ==
  /\ served' = c
  /\ pc' = how
  /\ UNCHANGED <<cert, lists, localVars, disturbed>>

\* Mutant: the loop does not advance.
SkipNothing == /\ pc' = "look"
               /\ UNCHANGED <<cert, lists, pass, pos, served, disturbed>>

Skip == /\ pos' = pos + 1
        /\ pc' = "look"
        /\ UNCHANGED <<cert, lists, pass, served, disturbed>>

AtEntry == pc = "look" /\ pos <= Len(List)

\* Mutant: no pass asks whether a certificate is valid now.
UsableExpired == cert[List[pos]] # NoCert

\* The entry has a certificate, and where that is asked for a valid one.
Usable == /\ cert[List[pos]] # NoCert
          /\ pass \in Strict => ~cert[List[pos]].expired

SkipEntry ==
  /\ AtEntry
  /\ ~Usable
  /\ Skip
  /\ UNCHANGED <<read, last>>

\* The passes other than the strict one over the wildcard's entries ask the
\* client about the certificate they read, and the last pass keeps the first
\* default it was not allowed to return.
TryEntry ==
  /\ AtEntry
  /\ Usable
  /\ pass # 2
  /\ LET c == cert[List[pos]]
     IN  \/ c.supported /\ Return(c, "returned")
         \/ /\ ~c.supported
            /\ Skip
            /\ last' = IF pass = 6 /\ last = NoCert THEN c ELSE last
            /\ UNCHANGED read

\* Mutant: an entry without a certificate is not left out.
ReadWildNil ==
  /\ AtEntry
  /\ pass = 2
  /\ read' = cert[List[pos]]
  /\ pc' = "ask"
  /\ UNCHANGED <<cert, lists, pass, pos, last, served, disturbed>>

\* The strict pass over the wildcard's entries asks about the certificate it
\* finds when it reads the entry a second time, without the entry's lock,
ReadWild ==
  /\ AtEntry
  /\ Usable
  /\ pass = 2
  /\ read' = cert[List[pos]]
  /\ pc' = "ask"
  /\ UNCHANGED <<cert, lists, pass, pos, last, served, disturbed>>

\* and returns the one it read first.  An entry that has lost its certificate is
\* a nil dereference; the HTTP server recovers by dropping the connection.
AskWild ==
  /\ pc = "ask"
  /\ LET c == cert[List[pos]]
     IN  IF c = NoCert THEN Return(NoCert, "panicked")
         ELSE IF c.supported THEN Return(read, "returned")
         ELSE Skip /\ UNCHANGED <<read, last>>

\* Mutant: there is a pass after the last one.
NextPassPastEnd ==
  /\ pc = "look"
  /\ pos > Len(List)
  /\ pass' = pass + 1
  /\ pos' = 1
  /\ UNCHANGED <<cert, lists, pc, read, last, served, disturbed>>

NextPass ==
  /\ pc = "look"
  /\ pos > Len(List)
  /\ \/ /\ pass < 6
        /\ pass' = pass + 1
        /\ pos' = 1
        /\ UNCHANGED <<cert, lists, pc, read, last, served, disturbed>>
     \/ /\ pass = 6
        /\ Return(last, "returned")

\* The connection goes on, with what GetCertificate returned.
Done ==
  /\ pc \in {"returned", "panicked"}
  /\ pc' = "idle"
  /\ lists' = NoLists
  /\ pass' = 1 /\ pos' = 1
  /\ read' = NoCert /\ last' = NoCert /\ served' = NoCert
  /\ disturbed' = FALSE
  /\ UNCHANGED cert

GetCertificate == SkipEntry \/ TryEntry \/ ReadWild \/ AskWild \/ NextPass

Next == \/ \E e \in Entries : UpdateSecret(e)
        \/ Hello
        \/ GetCertificate
        \/ Done

Spec == Init /\ [][Next]_vars /\ WF_vars(GetCertificate)

-----------------------------------------------------------------------------
(* Properties.                                                             *)

\* The variables' types.
TypeOK ==
  /\ cert \in [Entries -> Certs \cup {NoCert}]
  /\ lists \in Lists \cup {NoLists}
  /\ pc \in {"idle", "look", "ask", "returned", "panicked"}
  /\ pass \in Passes
  /\ pos \in Nat \ {0}
  /\ {read, last, served} \subseteq Certs \cup {NoCert}
  /\ disturbed \in BOOLEAN

Candidates == Range(lists.exact) \cup Range(lists.wild) \cup Range(lists.dflt)

\* A handshake is never served a certificate of an entry that is listed neither
\* for its name, nor for the wildcard, nor as a default.
ServedForName ==
  pc = "returned" /\ served # NoCert => served.of \in Candidates

\* c is the certificate of the first default before the k-th that has one, if any.
FirstDefault(k, c) ==
  LET has == {n \in DOMAIN lists.dflt : n < k /\ cert[lists.dflt[n]] # NoCert}
  IN  IF has = {} THEN c = NoCert
      ELSE \E n \in has : c = cert[lists.dflt[n]] /\ \A m \in has : n <= m

Preferred(c) ==
  LET certs      == {cert[e] : e \in Candidates} \ {NoCert}
      acceptable == {d \in certs : d.supported}
      best       == {d \in acceptable : ~d.expired}
  IN  \/ c \in best
      \/ best = {} /\ c \in acceptable
      \/ acceptable = {} /\ FirstDefault(Len(lists.dflt) + 1, c)

\* secrets.go:167-168: a certificate that is valid and acceptable is preferred
\* to one that is acceptable, and that to the first of the defaults - as long as
\* no entry changed during the handshake.
Preference == pc = "returned" /\ ~disturbed => Preferred(served)

\* The name's own certificates come first: a handshake is not served another's
\* valid certificate while one of the name's entries has one the client accepts.
OwnNameFirst ==
  pc = "returned" /\ ~disturbed =>
    \A e \in Range(lists.exact) :
      cert[e] # NoCert /\ cert[e].supported /\ ~cert[e].expired
        => served.of \in Range(lists.exact)

\* A handshake only panics because an entry lost its certificate under it, and
\* a client never gets a certificate it cannot use because of that alone.
PanicsOnlyOnLoss == pc = "panicked" => disturbed

\* secrets.go:167: what the passes that check "for non-expired acceptable
\* matches" return is acceptable to the client.
AcceptableServed ==
  pc = "returned" /\ pass \in Strict => served.supported

\* Every handshake ends, whatever the updaters do to the entries meanwhile.
HandshakeEnds == pc = "look" ~> pc \in {"returned", "panicked"}

=============================================================================
