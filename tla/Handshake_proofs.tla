--------------------------- MODULE Handshake_proofs ---------------------------
(* Proofs about Handshake, for any entries and lists: what a handshake is      *)
(* served belongs to its name and is the best there is, its own certificates   *)
(* come first, and it panics only when an entry lost its certificate           *)
(* meanwhile.                                                                  *)
EXTENDS Handshake, TLAPS

\* An entry only ever has certificates of its own secret.
OwnEntry == \A e \in Entries : cert[e] # NoCert => cert[e].of = e

\* Between handshakes nothing is left of the last one.
AtRest == pc = "idle" => pass = 1 /\ pos = 1 /\ last = NoCert

\* A handshake that has begun has the lists of its name, and is somewhere in them.
InLists ==
  /\ pc # "idle" => lists \in Lists
  /\ pc = "ask" => pass = 2 /\ pos <= Len(lists.wild)

\* What was read of a wildcard's entry is the entry's, and is still there if no
\* entry changed.
ReadOwn ==
  pc = "ask" => /\ read \in Certs /\ ~read.expired
                /\ read.of = lists.wild[pos]
                /\ ~disturbed => cert[lists.wild[pos]] = read

\* The option that is kept for the end is a default's.
LastDefault == pc # "idle" /\ last # NoCert => last.of \in Range(lists.dflt)

\* The list that pass p walks.
Walk(p) == CASE p \in Exact -> lists.exact
             [] p \in Wild -> lists.wild
             [] p \in Default -> lists.dflt

\* A certificate that pass p does not return.
Rejected(p, c) == c = NoCert \/ ~c.supported \/ (p \in Strict /\ c.expired)

\* The n-th entry of pass p's list is behind the handshake.
Behind(p, n) == pass > p \/ (pass = p /\ n < pos)

\* Every pass has rejected what it has left behind, unless it has changed.
AllRejected ==
  pc \in {"look", "ask"} /\ ~disturbed =>
    \A p \in Passes : \A n \in DOMAIN Walk(p) : Behind(p, n) => Rejected(p, cert[Walk(p)[n]])

\* The last pass has kept the first of the defaults that it has left behind.
FirstKept ==
  pc \in {"look", "ask"} /\ ~disturbed =>
    /\ pass < 6 => last = NoCert
    /\ pass = 6 => FirstDefault(pos, last)

Inv == /\ TypeOK /\ AtRest /\ OwnEntry /\ InLists /\ ReadOwn /\ LastDefault /\ AllRejected
       /\ FirstKept /\ ServedForName /\ Preference /\ OwnNameFirst /\ PanicsOnlyOnLoss

-----------------------------------------------------------------------------
(* The lists.                                                               *)

\* The three lists of a name are sequences of entries.
LEMMA ListsOf ==
  ASSUME NEW l \in Lists
  PROVE  l.exact \in Seq(Entries) /\ l.wild \in Seq(Entries) /\ l.dflt \in Seq(Entries)
BY ListsAssumption

\* The list of the pass is one of them, and its entries are candidates.
LEMMA ListOfPass ==
  ASSUME TypeOK, lists \in Lists
  PROVE  /\ List \in Seq(Entries)
         /\ Range(List) \subseteq Candidates
         /\ pass = 1 => List = lists.exact
         /\ pass = 2 => List = lists.wild
         /\ pass = 6 => List = lists.dflt
         /\ List = Walk(pass)
<1>1. pass \in 1..6
  BY DEF TypeOK, Passes
<1>2. \/ pass \in {1, 4} /\ List = lists.exact
      \/ pass \in {2, 5} /\ List = lists.wild
      \/ pass \in {3, 6} /\ List = lists.dflt
  BY <1>1 DEF List, Exact, Wild, Default
<1>3. List \in Seq(Entries) /\ Range(List) \subseteq Candidates
  BY <1>2, ListsOf DEF Candidates
<1>4. List = Walk(pass)
  BY DEF List, Walk
<1> QED BY <1>1, <1>2, <1>3, <1>4

\* What each pass walks.
LEMMA WalkOf ==
  ASSUME lists \in Lists
  PROVE  /\ \A p \in Passes : Walk(p) \in Seq(Entries)
         /\ Walk(1) = lists.exact /\ Walk(4) = lists.exact
         /\ Walk(2) = lists.wild /\ Walk(5) = lists.wild
         /\ Walk(3) = lists.dflt /\ Walk(6) = lists.dflt
<1>1. /\ Walk(1) = lists.exact /\ Walk(4) = lists.exact
      /\ Walk(2) = lists.wild /\ Walk(5) = lists.wild
      /\ Walk(3) = lists.dflt /\ Walk(6) = lists.dflt
  BY DEF Walk, Exact, Wild, Default
<1>2. \A p \in Passes : p = 1 \/ p = 2 \/ p = 3 \/ p = 4 \/ p = 5 \/ p = 6
  BY DEF Passes
<1> QED BY <1>1, <1>2, ListsOf

\* A candidate is in the list of one of the first three passes, and in that of one
\* of the last three.
LEMMA CandidateAt ==
  ASSUME lists \in Lists, NEW e \in Candidates
  PROVE  /\ \E p \in {1, 2, 3} : \E n \in DOMAIN Walk(p) : e = Walk(p)[n]
         /\ \E p \in {4, 5, 6} : \E n \in DOMAIN Walk(p) : e = Walk(p)[n]
<1>1. CASE e \in Range(lists.exact)
  <2>1. PICK n \in DOMAIN lists.exact : e = lists.exact[n]
    BY <1>1 DEF Range
  <2> QED BY <2>1, WalkOf
<1>2. CASE e \in Range(lists.wild)
  <2>1. PICK n \in DOMAIN lists.wild : e = lists.wild[n]
    BY <1>2 DEF Range
  <2> QED BY <2>1, WalkOf
<1>3. CASE e \in Range(lists.dflt)
  <2>1. PICK n \in DOMAIN lists.dflt : e = lists.dflt[n]
    BY <1>3 DEF Range
  <2> QED BY <2>1, WalkOf
<1> QED BY <1>1, <1>2, <1>3 DEF Candidates

\* Behind the first three passes no candidate is valid and acceptable, and behind
\* all of them none is acceptable.
LEMMA NoneLeft ==
  ASSUME Inv, lists \in Lists, pc \in {"look", "ask"}, ~disturbed
  PROVE  /\ pass > 3 => \A e \in Candidates : Rejected(1, cert[e])
         /\ pass = 6 /\ pos > Len(List) =>
              \A e \in Candidates : cert[e] = NoCert \/ ~cert[e].supported
<1>0. pass \in 1..6 /\ pos \in Nat
  BY DEF Inv, TypeOK, Passes
<1>1. ASSUME pass > 3, NEW e \in Candidates
      PROVE  Rejected(1, cert[e])
  <2>1. PICK p \in {1, 2, 3} : \E n \in DOMAIN Walk(p) : e = Walk(p)[n]
    BY CandidateAt
  <2>2. PICK n \in DOMAIN Walk(p) : e = Walk(p)[n]
    BY <2>1
  <2>3. Behind(p, n) /\ p \in Passes
    BY <1>0, <1>1 DEF Behind, Passes
  <2>4. Rejected(p, cert[e])
    BY <2>2, <2>3 DEF Inv, AllRejected
  <2> QED BY <2>4 DEF Rejected, Strict
<1>2. ASSUME pass = 6, pos > Len(List), NEW e \in Candidates
      PROVE  cert[e] = NoCert \/ ~cert[e].supported
  <2>1. PICK p \in {4, 5, 6} : \E n \in DOMAIN Walk(p) : e = Walk(p)[n]
    BY CandidateAt
  <2>2. PICK n \in DOMAIN Walk(p) : e = Walk(p)[n]
    BY <2>1
  <2>3. p \in Passes
    BY DEF Passes
  <2>4. n \in Nat /\ (p = 6 => n <= Len(List))
    <3>1. Walk(p) \in Seq(Entries)
      BY <2>3, WalkOf
    <3>2. n \in 1..Len(Walk(p))
      BY <3>1
    <3>3. p = 6 => Walk(p) = List
      BY <1>2, ListOfPass DEF Inv
    <3>4. Len(Walk(p)) \in Nat
      BY <3>1
    <3> QED BY <3>2, <3>3, <3>4
  <2>5. List \in Seq(Entries)
    BY ListOfPass DEF Inv
  <2>6. Behind(p, n)
    BY <1>0, <1>2, <2>4, <2>5 DEF Behind
  <2>7. Rejected(p, cert[e])
    BY <2>2, <2>3, <2>6 DEF Inv, AllRejected
  <2> QED BY <2>7 DEF Rejected, Strict
<1> QED BY <1>1, <1>2

\* The entry a pass is at is a candidate, and its certificate is its own.
LEMMA EntryAt ==
  ASSUME TypeOK, OwnEntry, lists \in Lists, pos <= Len(List)
  PROVE  /\ List[pos] \in Entries
         /\ List[pos] \in Range(List)
         /\ List[pos] \in Candidates
         /\ cert[List[pos]] \in Certs \cup {NoCert}
         /\ cert[List[pos]] # NoCert => cert[List[pos]].of = List[pos]
<1>1. pos \in 1..Len(List)
  BY ListOfPass DEF TypeOK
<1>2. List[pos] \in Entries /\ List[pos] \in Range(List)
  BY <1>1, ListOfPass DEF Range
<1> QED BY <1>2, ListOfPass DEF TypeOK, OwnEntry

-----------------------------------------------------------------------------
(* One lemma for each action.                                               *)

\* A handshake that has not begun has rejected nothing.
LEMMA InvInit == Init => Inv
<1> SUFFICES ASSUME Init PROVE Inv
  OBVIOUS
<1>1. cert \in [Entries -> Certs \cup {NoCert}]
  BY DEF Init
<1>2. 1 \in Passes /\ 1 \in Nat \ {0}
  BY DEF Passes
<1>3. TypeOK
  BY <1>1, <1>2 DEF Init, TypeOK
<1> QED BY <1>3 DEF Init, Inv, AtRest, OwnEntry, InLists, ReadOwn, LastDefault, AllRejected,
                    FirstKept, ServedForName, Preference, OwnNameFirst, PanicsOnlyOnLoss

\* updateSecret changes one entry, and the handshake's history knows.
LEMMA UpdateSecretInv ==
  ASSUME Inv, NEW e \in Entries, UpdateSecret(e)
  PROVE  Inv'
<1>1. PICK c \in {d \in Certs : d.of = e} \cup {NoCert} : cert' = [cert EXCEPT ![e] = c]
  BY DEF UpdateSecret
<1>2. UNCHANGED <<lists, pc, pass, pos, read, last, served>>
  BY DEF UpdateSecret, localVars
<1>3. disturbed' \in BOOLEAN /\ (~disturbed' /\ pc # "idle" => ~disturbed /\ cert' = cert)
  BY DEF UpdateSecret, Inv, TypeOK
<1>4. disturbed => disturbed'
  BY DEF UpdateSecret
<1>5. TypeOK'
  BY <1>1, <1>2, <1>3 DEF Inv, TypeOK
<1>6. OwnEntry'
  BY <1>1 DEF Inv, TypeOK, OwnEntry
<1>7. InLists' /\ LastDefault' /\ ServedForName' /\ AtRest'
  BY <1>2 DEF Inv, AtRest, InLists, LastDefault, ServedForName, Candidates
<1>8. ReadOwn' /\ OwnNameFirst' /\ PanicsOnlyOnLoss'
  BY <1>2, <1>3, <1>4 DEF Inv, ReadOwn, OwnNameFirst, PanicsOnlyOnLoss
<1>9. AllRejected'
  BY <1>2, <1>3 DEF Inv, AllRejected, Rejected, Behind, Walk
<1>10. FirstKept' /\ Preference'
  BY <1>2, <1>3 DEF Inv, FirstKept, Preference, Preferred, FirstDefault, Candidates
<1> QED BY <1>5, <1>6, <1>7, <1>8, <1>9, <1>10 DEF Inv

\* A handshake begins with nothing read and nothing rejected.
LEMMA HelloInv ==
  ASSUME Inv, Hello
  PROVE  Inv'
<1>1. pass = 1 /\ pos = 1 /\ last = NoCert
  BY DEF Inv, AtRest, Hello
<1>2. /\ lists' \in Lists /\ pc' = "look" /\ disturbed' = FALSE /\ served' = NoCert
      /\ UNCHANGED <<cert, pass, pos, read, last>>
  BY DEF Hello, localVars
<1>3. TypeOK'
  BY <1>2 DEF Inv, TypeOK
<1>4. AllRejected'
  <2> SUFFICES ASSUME NEW p \in Passes, NEW n \in DOMAIN Walk(p)'
               PROVE  ~Behind(p, n)'
    BY DEF AllRejected
  <2>1. ASSUME p = 1 PROVE n \in DOMAIN lists'.exact
    <3>1. Walk(p)' = CASE p \in Exact -> lists'.exact
                       [] p \in Wild -> lists'.wild
                       [] p \in Default -> lists'.dflt
      BY DEF Walk
    <3>2. Walk(p)' = lists'.exact
      BY <2>1, <3>1 DEF Exact, Wild, Default
    <3> QED BY <3>2
  <2>2. lists'.exact \in Seq(Entries)
    BY <1>2, ListsOf
  <2>3. p = 1 => n \in 1..Len(lists'.exact)
    BY <2>1, <2>2
  <2> QED BY <1>1, <1>2, <2>3 DEF Behind, Passes
<1>5. FirstKept'
  BY <1>1, <1>2 DEF FirstKept
<1> QED BY <1>1, <1>2, <1>3, <1>4, <1>5 DEF Inv, AtRest, OwnEntry, InLists, ReadOwn,
                     LastDefault, ServedForName, Preference, OwnNameFirst, PanicsOnlyOnLoss

\* One more default behind: the first of them with a certificate is the one so
\* far, or else the default at hand, if it has one.
LEMMA NextDefault ==
  ASSUME lists.dflt \in Seq(Entries), NEW k \in DOMAIN lists.dflt, NEW c, NEW d,
         FirstDefault(k, c),
         d = IF c = NoCert THEN cert[lists.dflt[k]] ELSE c
  PROVE  FirstDefault(k + 1, d)
<1> DEFINE has(j) == {n \in DOMAIN lists.dflt : n < j /\ cert[lists.dflt[n]] # NoCert}
<1>1. k \in Nat /\ \A n \in DOMAIN lists.dflt : n \in Nat
  OBVIOUS
<1>2. \A n \in has(k + 1) : n \in has(k) \/ (n = k /\ cert[lists.dflt[k]] # NoCert)
  BY <1>1
<1>3. \A n \in has(k) : n \in has(k + 1) /\ n < k
  BY <1>1
<1>4. cert[lists.dflt[k]] # NoCert => k \in has(k + 1)
  BY <1>1
<1>5. CASE has(k) = {}
  <2>1. c = NoCert /\ d = cert[lists.dflt[k]]
    BY <1>5 DEF FirstDefault
  <2>2. CASE cert[lists.dflt[k]] = NoCert
    <3>1. has(k + 1) = {}
      BY <1>2, <1>5, <2>2
    <3> QED BY <2>1, <2>2, <3>1 DEF FirstDefault
  <2>3. CASE cert[lists.dflt[k]] # NoCert
    <3>1. k \in has(k + 1) /\ \A m \in has(k + 1) : k <= m
      BY <1>1, <1>2, <1>4, <1>5, <2>3
    <3> QED BY <2>1, <3>1 DEF FirstDefault
  <2> QED BY <2>2, <2>3
<1>6. CASE has(k) # {}
  <2>1. PICK n \in has(k) : c = cert[lists.dflt[n]] /\ \A m \in has(k) : n <= m
    BY <1>6 DEF FirstDefault
  <2>2. c # NoCert /\ d = c
    BY <2>1
  <2>3. n \in has(k + 1) /\ \A m \in has(k + 1) : n <= m
    BY <1>1, <1>2, <1>3, <2>1
  <2> QED BY <2>1, <2>2, <2>3 DEF FirstDefault
<1> QED BY <1>5, <1>6

\* Going on to the next entry, when the present one is not what the pass looks
\* for, and keeping a default's certificate at most.
LEMMA SkipInv ==
  ASSUME Inv, Skip, lists \in Lists, pc \in {"look", "ask"}, pos <= Len(List),
         ~disturbed => Rejected(pass, cert[List[pos]]),
         last' = last \/ (last' \in Certs /\ last'.of \in Range(lists.dflt)),
         pass < 6 => last' = last,
         pass = 6 => last' = IF last = NoCert THEN cert[List[pos]] ELSE last,
         read' = read
  PROVE  Inv'
<1>1. /\ pos' = pos + 1 /\ pc' = "look"
      /\ UNCHANGED <<cert, lists, pass, served, disturbed>>
  BY DEF Skip
<1>2. TypeOK'
  BY <1>1 DEF Inv, TypeOK
<1>3. pass \in Passes /\ pass \in 1..6 /\ pos \in Nat \ {0}
  BY DEF Inv, TypeOK, Passes
<1>4. AllRejected'
  <2> SUFFICES ASSUME ~disturbed, NEW p \in Passes, NEW n \in DOMAIN Walk(p),
                      pass > p \/ (pass = p /\ n < pos + 1)
               PROVE  Rejected(p, cert[Walk(p)[n]])
    BY <1>1 DEF AllRejected, Rejected, Behind, Walk
  <2>1. CASE Behind(p, n)
    BY <2>1 DEF Inv, AllRejected
  <2>2. CASE pass = p /\ n = pos
    BY <2>2, ListOfPass DEF Inv
  <2>3. Walk(p) \in Seq(Entries)
    BY WalkOf
  <2>4. n \in Nat
    BY <2>3
  <2> QED BY <1>3, <2>1, <2>2, <2>4 DEF Behind
<1>5. FirstKept'
  <2>1. ASSUME ~disturbed, pass = 6 PROVE FirstDefault(pos + 1, last')
    <3>1. List = lists.dflt /\ lists.dflt \in Seq(Entries)
      BY <2>1, ListOfPass, ListsOf DEF Inv
    <3>2. pos \in DOMAIN lists.dflt
      BY <1>3, <3>1
    <3>3. FirstDefault(pos, last)
      BY <2>1 DEF Inv, FirstKept
    <3>4. last' = IF last = NoCert THEN cert[lists.dflt[pos]] ELSE last
      BY <2>1, <3>1
    <3> QED BY <3>1, <3>2, <3>3, <3>4, NextDefault
  <2>2. FirstDefault(pos, last)' <=> FirstDefault(pos + 1, last')
    BY <1>1 DEF FirstDefault
  <2>3. ~disturbed /\ pass < 6 => last' = NoCert
    BY DEF Inv, FirstKept
  <2> QED BY <1>1, <2>1, <2>2, <2>3 DEF FirstKept
<1> QED BY <1>1, <1>2, <1>4, <1>5 DEF Inv, AtRest, OwnEntry, InLists, ReadOwn, LastDefault,
                                 ServedForName, Preference, OwnNameFirst, PanicsOnlyOnLoss

\* An entry without a usable certificate is one that the pass rejects; in the last
\* pass it has none.
LEMMA SkipEntryInv ==
  ASSUME Inv, SkipEntry
  PROVE  Inv'
<1>1. lists \in Lists /\ pc = "look" /\ pos <= Len(List)
  BY DEF SkipEntry, AtEntry, Inv, InLists
<1>2. Rejected(pass, cert[List[pos]])
  BY DEF SkipEntry, Usable, Rejected
<1>3. pass = 6 => cert[List[pos]] = NoCert
  BY DEF SkipEntry, Usable, Strict
<1>4. Skip /\ read' = read /\ last' = last
  BY DEF SkipEntry
<1> QED BY <1>1, <1>2, <1>3, <1>4, SkipInv

\* Returning a certificate of an entry that is listed, of the name's own unless
\* the first pass has rejected all of those.
LEMMA ReturnInv ==
  ASSUME Inv, NEW c \in Certs \cup {NoCert}, Return(c, "returned"), lists \in Lists,
         pc \in {"look", "ask"},
         c # NoCert => c.of \in Candidates,
         ~disturbed /\ pass = 1 => c.of \in Range(lists.exact),
         ~disturbed => Preferred(c)
  PROVE  Inv'
<1>1. /\ served' = c /\ pc' = "returned"
      /\ UNCHANGED <<cert, lists, pass, pos, read, last, disturbed>>
  BY DEF Return, localVars
<1>2. TypeOK'
  BY <1>1 DEF Inv, TypeOK
<1>3. OwnNameFirst'
  <2> SUFFICES ASSUME ~disturbed, NEW e \in Range(lists.exact),
                      cert[e] # NoCert, cert[e].supported, ~cert[e].expired
               PROVE  c.of \in Range(lists.exact)
    BY <1>1 DEF OwnNameFirst
  <2>1. PICK n \in DOMAIN lists.exact : e = lists.exact[n]
    BY DEF Range
  <2>2. ~Rejected(1, cert[lists.exact[n]])
    BY <2>1 DEF Rejected
  <2>3. n \in DOMAIN Walk(1) /\ Walk(1)[n] = lists.exact[n] /\ 1 \in Passes
    BY WalkOf DEF Passes
  <2>4. ~(pass > 1)
    BY <2>2, <2>3 DEF Inv, AllRejected, Behind
  <2>5. pass = 1
    BY <2>4 DEF Inv, TypeOK, Passes
  <2> QED BY <2>5
<1>4. ServedForName'
  BY <1>1 DEF ServedForName, Candidates
<1>5. Preference'
  BY <1>1 DEF Preference, Preferred, Candidates, FirstDefault
<1> QED BY <1>1, <1>2, <1>3, <1>4, <1>5 DEF Inv, AtRest, OwnEntry, InLists, ReadOwn,
                                       LastDefault, AllRejected, FirstKept, PanicsOnlyOnLoss

\* A candidate's certificate that the client accepts is preferred when it is valid,
\* and behind the first three passes when it is not.
LEMMA AcceptedPreferred ==
  ASSUME Inv, lists \in Lists, pc \in {"look", "ask"}, ~disturbed,
         NEW e \in Candidates, cert[e] # NoCert, cert[e].supported,
         pass \in Strict => ~cert[e].expired
  PROVE  Preferred(cert[e])
<1> DEFINE certs == {cert[f] : f \in Candidates} \ {NoCert}
           acceptable == {d \in certs : d.supported}
           best == {d \in acceptable : ~d.expired}
<1>1. cert[e] \in acceptable
  OBVIOUS
<1>2. CASE ~cert[e].expired
  BY <1>1, <1>2 DEF Preferred
<1>3. CASE cert[e].expired
  <2>1. pass > 3
    BY <1>3 DEF Inv, TypeOK, Passes, Strict
  <2>2. \A f \in Candidates : Rejected(1, cert[f])
    BY <2>1, NoneLeft
  <2>3. best = {}
    BY <2>2 DEF Rejected, Strict
  <2> QED BY <1>1, <2>3 DEF Preferred
<1> QED BY <1>2, <1>3

\* Behind all the passes, what the last one has kept is preferred.
LEMMA LastPreferred ==
  ASSUME Inv, lists \in Lists, pc = "look", pass = 6, pos > Len(List), ~disturbed
  PROVE  Preferred(last)
<1>1. \A e \in Candidates : cert[e] = NoCert \/ ~cert[e].supported
  BY NoneLeft
<1>2. List = lists.dflt /\ lists.dflt \in Seq(Entries) /\ pos \in Nat
  BY ListOfPass, ListsOf DEF Inv, TypeOK
<1>3. FirstDefault(pos, last)
  BY DEF Inv, FirstKept
<1>4. \A n \in DOMAIN lists.dflt : n < pos <=> n < Len(lists.dflt) + 1
  BY <1>2
<1>5. FirstDefault(Len(lists.dflt) + 1, last)
  BY <1>3, <1>4 DEF FirstDefault
<1> QED BY <1>1, <1>5 DEF Preferred

\* What a pass returns at an entry is the entry's certificate; the last one may
\* keep a default's.
LEMMA TryEntryInv ==
  ASSUME Inv, TryEntry
  PROVE  Inv'
<1> DEFINE c == cert[List[pos]]
<1>1. lists \in Lists /\ pc = "look" /\ pos <= Len(List)
  BY DEF TryEntry, AtEntry, Inv, InLists
<1>2. /\ c \in Certs /\ c.of = List[pos]
      /\ List[pos] \in Candidates /\ List[pos] \in Range(List)
  BY <1>1, EntryAt DEF TryEntry, Usable, Inv
<1>3. CASE c.supported /\ Return(c, "returned")
  <2>1. pass = 1 => c.of \in Range(lists.exact)
    BY <1>1, <1>2, ListOfPass DEF Inv
  <2>2. ~disturbed => Preferred(c)
    BY <1>1, <1>2, <1>3, NoCertAssumption, AcceptedPreferred DEF TryEntry, Usable
  <2> HIDE DEF c
  <2> QED BY <1>1, <1>2, <1>3, <2>1, <2>2, ReturnInv
<1>4. CASE /\ ~c.supported /\ Skip /\ read' = read
           /\ last' = IF pass = 6 /\ last = NoCert THEN c ELSE last
  <2>1. Rejected(pass, c)
    BY <1>4 DEF Rejected
  <2>2. pass = 6 => c.of \in Range(lists.dflt)
    BY <1>1, <1>2, ListOfPass DEF Inv
  <2>3. last' = last \/ (last' \in Certs /\ last'.of \in Range(lists.dflt))
    BY <1>2, <1>4, <2>2
  <2>4. /\ pass < 6 => last' = last
        /\ pass = 6 => last' = IF last = NoCert THEN c ELSE last
    BY <1>4
  <2> QED BY <1>1, <1>4, <2>1, <2>3, <2>4, SkipInv
<1> QED BY <1>3, <1>4 DEF TryEntry

\* What is read of a wildcard's entry is the entry's certificate.
LEMMA ReadWildInv ==
  ASSUME Inv, ReadWild
  PROVE  Inv'
<1>1. lists \in Lists /\ pc = "look" /\ pos <= Len(List) /\ pass = 2 /\ List = lists.wild
  BY ListOfPass DEF ReadWild, AtEntry, Inv, InLists
<1>2. /\ cert[List[pos]] \in Certs /\ cert[List[pos]].of = List[pos]
      /\ ~cert[List[pos]].expired
  BY <1>1, EntryAt DEF ReadWild, Usable, Inv, Strict
<1>3. /\ read' = cert[List[pos]] /\ pc' = "ask"
      /\ UNCHANGED <<cert, lists, pass, pos, last, served, disturbed>>
  BY DEF ReadWild
<1>4. TypeOK'
  BY <1>2, <1>3 DEF Inv, TypeOK
<1>5. ReadOwn' /\ InLists'
  BY <1>1, <1>2, <1>3 DEF ReadOwn, InLists
<1>6. AllRejected' /\ FirstKept'
  BY <1>1, <1>3 DEF Inv, AllRejected, FirstKept, FirstDefault, Rejected, Behind, Walk
<1> QED BY <1>1, <1>3, <1>4, <1>5, <1>6 DEF Inv, AtRest, OwnEntry, LastDefault,
                                 ServedForName, Preference, OwnNameFirst, PanicsOnlyOnLoss

\* What is returned is what was read; there is nothing to ask about only if the
\* entry has changed.
LEMMA AskWildInv ==
  ASSUME Inv, AskWild
  PROVE  Inv'
<1> DEFINE c == cert[List[pos]]
<1>1. /\ lists \in Lists /\ pc = "ask" /\ pass = 2 /\ List = lists.wild /\ pos <= Len(List)
  BY ListOfPass DEF AskWild, Inv, InLists
<1>2. /\ read \in Certs /\ read.of = List[pos] /\ read # NoCert /\ ~read.expired
      /\ ~disturbed => c = read
  BY <1>1, NoCertAssumption DEF Inv, ReadOwn
<1>3. List[pos] \in Candidates
  BY <1>1, EntryAt DEF Inv
<1>4. CASE c = NoCert /\ Return(NoCert, "panicked")
  <2>1. disturbed
    BY <1>2, <1>4 DEF Inv, TypeOK
  <2>2. /\ served' = NoCert /\ pc' = "panicked"
        /\ UNCHANGED <<cert, lists, pass, pos, read, last, disturbed>>
    BY <1>4 DEF Return, localVars
  <2>3. TypeOK'
    BY <2>2 DEF Inv, TypeOK
  <2> QED BY <1>1, <2>1, <2>2, <2>3 DEF Inv, AtRest, OwnEntry, InLists, ReadOwn, LastDefault,
              AllRejected, FirstKept, ServedForName, Preference, OwnNameFirst, PanicsOnlyOnLoss
<1>5. CASE c # NoCert /\ c.supported /\ Return(read, "returned")
  <2>1. ~disturbed => Preferred(c)
    BY <1>1, <1>2, <1>3, <1>5, AcceptedPreferred
  <2> QED BY <1>1, <1>2, <1>3, <1>5, <2>1, ReturnInv
<1>6. CASE c # NoCert /\ ~c.supported /\ Skip /\ read' = read /\ last' = last
  <2>1. Rejected(pass, c)
    BY <1>6 DEF Rejected
  <2> QED BY <1>1, <1>6, <2>1, SkipInv
<1> QED BY <1>4, <1>5, <1>6 DEF AskWild

\* Behind the last entry of a pass every one of its list is rejected.
LEMMA NextPassInv ==
  ASSUME Inv, NextPass
  PROVE  Inv'
<1>1. lists \in Lists /\ pc = "look" /\ pos > Len(List) /\ pass \in 1..6
  BY DEF NextPass, Inv, InLists, TypeOK, Passes
<1>2. ASSUME ~disturbed, NEW p \in Passes, NEW n \in DOMAIN Walk(p), pass >= p
      PROVE  Rejected(p, cert[Walk(p)[n]])
  <2>1. Walk(p) \in Seq(Entries) /\ (pass = p => Walk(p) = List)
    BY <1>1, WalkOf, ListOfPass DEF Inv
  <2>2. n \in 1..Len(Walk(p)) /\ pos \in Nat /\ p \in 1..6
    BY <2>1 DEF Inv, TypeOK, Passes
  <2>3. Behind(p, n)
    BY <1>1, <1>2, <2>1, <2>2 DEF Behind
  <2> QED BY <1>1, <1>2, <2>3 DEF Inv, AllRejected
<1>3. CASE /\ pass < 6 /\ pass' = pass + 1 /\ pos' = 1
           /\ UNCHANGED <<cert, lists, pc, read, last, served, disturbed>>
  <2>1. TypeOK'
    BY <1>1, <1>3 DEF Inv, TypeOK, Passes
  <2>2. AllRejected'
    <3> SUFFICES ASSUME ~disturbed, NEW p \in Passes, NEW n \in DOMAIN Walk(p),
                        pass + 1 > p \/ (pass + 1 = p /\ n < 1)
                 PROVE  Rejected(p, cert[Walk(p)[n]])
      BY <1>3 DEF AllRejected, Rejected, Behind, Walk
    <3>1. Walk(p) \in Seq(Entries)
      BY <1>1, WalkOf
    <3>2. n \in 1..Len(Walk(p))
      BY <3>1
    <3>3. pass >= p
      BY <1>1, <3>2 DEF Passes
    <3> QED BY <1>2, <3>3
  <2>3. FirstKept'
    <3>1. lists.dflt \in Seq(Entries)
      BY <1>1, ListsOf
    <3>2. ~disturbed => last = NoCert
      BY <1>1, <1>3 DEF Inv, FirstKept
    <3>3. {n \in DOMAIN lists.dflt : n < 1 /\ cert[lists.dflt[n]] # NoCert} = {}
      BY <3>1
    <3>4. ~disturbed => FirstDefault(1, last)
      BY <3>2, <3>3 DEF FirstDefault
    <3>5. FirstDefault(pos, last)' <=> FirstDefault(1, last)
      BY <1>3 DEF FirstDefault
    <3> QED BY <1>1, <1>3, <3>2, <3>4, <3>5 DEF FirstKept
  <2> QED BY <1>1, <1>3, <2>1, <2>2, <2>3 DEF Inv, AtRest, OwnEntry, InLists, ReadOwn,
              LastDefault, ServedForName, Preference, OwnNameFirst, PanicsOnlyOnLoss
<1>4. CASE pass = 6 /\ Return(last, "returned")
  <2>1. last \in Certs \cup {NoCert}
    BY DEF Inv, TypeOK
  <2>2. last # NoCert => last.of \in Candidates
    BY <1>1 DEF Inv, LastDefault, Candidates
  <2>3. ~disturbed => Preferred(last)
    BY <1>1, <1>4, LastPreferred
  <2> QED BY <1>1, <1>4, <2>1, <2>2, <2>3, ReturnInv
<1> QED BY <1>3, <1>4 DEF NextPass

\* The next handshake begins anew.
LEMMA DoneInv ==
  ASSUME Inv, Done
  PROVE  Inv'
<1>1. 1 \in Passes /\ 1 \in Nat \ {0}
  BY DEF Passes
<1>2. TypeOK'
  BY <1>1 DEF Done, Inv, TypeOK
<1> QED BY <1>2 DEF Done, Inv, AtRest, OwnEntry, InLists, ReadOwn, LastDefault, AllRejected,
                    FirstKept, ServedForName, Preference, OwnNameFirst, PanicsOnlyOnLoss

\* The invariant is inductive.
LEMMA InvStep == Inv /\ [Next]_vars => Inv'
<1> SUFFICES ASSUME Inv, [Next]_vars PROVE Inv'
  OBVIOUS
<1>1. CASE \E e \in Entries : UpdateSecret(e)
  BY <1>1, UpdateSecretInv
<1>2. CASE Hello
  BY <1>2, HelloInv
<1>3. CASE GetCertificate
  BY <1>3, SkipEntryInv, TryEntryInv, ReadWildInv, AskWildInv, NextPassInv DEF GetCertificate
<1>4. CASE Done
  BY <1>4, DoneInv
<1>5. CASE UNCHANGED vars
  <2>1. UNCHANGED <<cert, lists, pc, pass, pos, read, last, served, disturbed>>
    BY <1>5 DEF vars, localVars
  <2>2. /\ TypeOK' /\ AtRest' /\ OwnEntry' /\ InLists' /\ ReadOwn' /\ LastDefault'
        /\ ServedForName' /\ OwnNameFirst' /\ PanicsOnlyOnLoss'
    BY <2>1 DEF Inv, TypeOK, AtRest, OwnEntry, InLists, ReadOwn, LastDefault,
       ServedForName, Candidates, OwnNameFirst, PanicsOnlyOnLoss
  <2>3. AllRejected'
    BY <2>1 DEF Inv, AllRejected, Rejected, Behind, Walk
  <2>4. FirstKept' /\ Preference'
    BY <2>1 DEF Inv, FirstKept, Preference, Preferred, FirstDefault, Candidates
  <2> QED BY <2>2, <2>3, <2>4 DEF Inv
<1> QED BY <1>1, <1>2, <1>3, <1>4, <1>5 DEF Next

\* It holds in every state.
LEMMA InvAlways == Spec => []Inv
BY InvInit, InvStep, PTL DEF Spec

-----------------------------------------------------------------------------
(* Theorems.                                                                *)

\* Whatever updateSecret does meanwhile, a handshake is only served a certificate
\* of an entry that is listed for its name, for the wildcard, or as a default.
THEOREM ServedForNameHolds == Spec => []ServedForName
<1>1. Inv => ServedForName
  BY DEF Inv
<1> QED BY <1>1, InvAlways, PTL

\* The variables keep their types: a handshake never walks past its last pass, and
\* returns certificates of the map's entries or nil.
THEOREM TypesHold == Spec => []TypeOK
<1>1. Inv => TypeOK
  BY DEF Inv
<1> QED BY <1>1, InvAlways, PTL

\* A handshake during which no entry changed is served a certificate that is valid
\* and that its client accepts if any candidate has one, else one that the client
\* accepts, else the first of the defaults: six loops that return on their way
\* come to what one comparison of all the candidates would.
THEOREM PreferenceHolds == Spec => []Preference
<1>1. Inv => Preference
  BY DEF Inv
<1> QED BY <1>1, InvAlways, PTL

\* A handshake during which no entry changed is not served another's certificate
\* while its name has a valid one that the client accepts.
THEOREM OwnNameFirstHolds == Spec => []OwnNameFirst
<1>1. Inv => OwnNameFirst
  BY DEF Inv
<1> QED BY <1>1, InvAlways, PTL

\* The unlocked second read of a wildcard's entry finds no certificate only if an
\* entry changed during the handshake.
THEOREM PanicsOnlyOnLossHolds == Spec => []PanicsOnlyOnLoss
<1>1. Inv => PanicsOnlyOnLoss
  BY DEF Inv
<1> QED BY <1>1, InvAlways, PTL
=============================================================================
