--------------------------- MODULE EndpointSet_proofs ---------------------------
(***************************************************************************)
(* Proofs about EndpointSet, for any objects, ports and number of requests *)
(* and any width of the index.                                             *)
(*                                                                         *)
(* The round robin is proved over the count that the index is a remainder  *)
(* of: how often an address was taken is how many of the numbers counted   *)
(* so far are its own, and every wrap of the index starts them again.      *)
(***************************************************************************)
EXTENDS EndpointSet, Lists_proofs

\* A set that was published has an address; the index and the counts of its
\* addresses are in range.
AddrSets == [addrs : Seq(ServiceAddrs) \ {<<>>}, index : 0..IndexSize - 1,
             hits : UNION {[1..n -> Nat] : n \in Nat}]

Published ==
  /\ sets \in [PortNames -> Seq(AddrSets)]
  /\ \A k \in PortNames : \A n \in 1..Len(sets[k]) :
       /\ DOMAIN sets[k][n].hits = 1..Len(sets[k][n].addrs)
       /\ \A m \in 1..Len(sets[k][n].addrs) : sets[k][n].hits[m] <= picks

\* The last set under a name has the addresses of the object last applied, if that
\* has any for the name.
Latest ==
  \A k \in PortNames :
    Addrs(applied, k) # <<>> => /\ sets[k] # <<>>
                                /\ sets[k][Len(sets[k])].addrs = Addrs(applied, k)

ReqTypes == [pc : {"idle", "none", "pick", "got"}, name : PortNames, set : Nat,
             addr : ServiceAddrs \cup {NoAddr}, live : Seq(ServiceAddrs)]

\* A request's set is one that was published, and has the addresses it saw.
Held ==
  /\ req \in [Requests -> ReqTypes]
  /\ \A r \in Requests :
       /\ req[r].pc = "pick" =>
            /\ req[r].set \in 1..Len(sets[req[r].name])
            /\ req[r].live # <<>> =>
                 sets[req[r].name][req[r].set].addrs = req[r].live
       /\ req[r].pc = "got" /\ req[r].live # <<>> => req[r].addr \in Range(req[r].live)
       /\ req[r].pc = "none" => req[r].live = <<>>

Counters == applied \in Objects \cup {Gone} /\ updates \in 0..MaxUpdates /\ picks \in 0..MaxPicks

IInv == Published /\ Latest /\ Held /\ Counters

-----------------------------------------------------------------------------

\* Nothing flattened is nothing.
LEMMA FlattenNone == FlattenSeq(<<>>) = <<>>
  BY DEF FlattenSeq

\* An object that is gone has no addresses.
LEMMA AddrsOfGone == \A k \in PortNames : Addrs(Gone, k) = <<>>
<1> TAKE k \in PortNames
<1> DEFINE f(i) ==
      (IF k = Unnamed THEN AtPort(Gone[i].addrs, 0) ELSE <<>>)
      \o FlattenSeq([j \in DOMAIN Gone[i].ports |->
           IF Gone[i].ports[j].name = k THEN AtPort(Gone[i].addrs, Gone[i].ports[j].port) ELSE <<>>])
<1>1. Addrs(Gone, k) = FlattenSeq([i \in DOMAIN Gone |-> f(i)])
  BY DEF Addrs
<1> HIDE DEF f
<1>2. [i \in DOMAIN Gone |-> f(i)] = <<>>
  BY DEF Gone
<1>3. QED
  BY <1>1, <1>2, FlattenNone

\* An object's addresses are addresses of the service.
LEMMA AddrsType ==
  \A eps \in Objects \cup {Gone} : \A k \in PortNames : Addrs(eps, k) \in Seq(ServiceAddrs)
<1> TAKE eps \in Objects \cup {Gone}
<1> TAKE k \in PortNames
<1>1. CASE eps = Gone
  <2>1. Addrs(Gone, k) = <<>>
    BY AddrsOfGone
  <2>2. <<>> \in Seq(ServiceAddrs)
    OBVIOUS
  <2>3. QED
    BY <1>1, <2>1, <2>2
<1>2. CASE eps \in Objects
  <2>1. Range(Addrs(eps, k)) \subseteq ServiceAddrs
    BY <1>2 DEF ServiceAddrs, AddrOf
  <2>2. Addrs(eps, k) \in Seq(Range(Addrs(eps, k)))
    BY <1>2, ObjectsAssumption
  <2>3. QED
    BY <2>1, <2>2
<1>3. QED
  BY <1>1, <1>2

\* A new set is one, and none of its addresses was taken.
LEMMA NewSetType ==
  ASSUME NEW addrs \in Seq(ServiceAddrs), addrs # <<>>
  PROVE  /\ NewSet(addrs) \in AddrSets
         /\ NewSet(addrs).addrs = addrs
         /\ DOMAIN NewSet(addrs).hits = 1..Len(addrs)
         /\ \A m \in 1..Len(addrs) : NewSet(addrs).hits[m] = 0
<1>1. DOMAIN addrs = 1..Len(addrs) /\ Len(addrs) \in Nat
  OBVIOUS
<1>2. [n \in DOMAIN addrs |-> 0] \in [1..Len(addrs) -> Nat]
  BY <1>1
<1>3. 0 \in 0..IndexSize - 1
  BY IndexAssumption
<1>4. QED
  BY <1>1, <1>2, <1>3 DEF NewSet, AddrSets

-----------------------------------------------------------------------------

\* Nothing is published in the beginning, and nobody has looked anything up.
LEMMA InitInv == Init => IInv
<1> SUFFICES ASSUME Init PROVE IInv
  OBVIOUS
<1>1. Published
  BY DEF Init, Published
<1>2. Latest
  BY AddrsOfGone DEF Init, Latest
<1>3. Held
  BY NamesAssumption DEF Init, Held, NoRequest, ReqTypes
<1>4. Counters
  BY BoundsAssumption DEF Init, Counters
<1>5. QED
  BY <1>1, <1>2, <1>3, <1>4 DEF IInv

\* A set that is published replaces none, and no set loses what it has.
LEMMA PublishStep ==
  ASSUME IInv, NEW eps \in Objects, Publish(eps), UNCHANGED picks
  PROVE  /\ Published'
         /\ \A k \in PortNames :
              /\ Len(sets[k]) <= Len(sets'[k])
              /\ \A n \in 1..Len(sets[k]) : sets'[k][n] = sets[k][n]
              /\ Addrs(eps, k) # <<>> => /\ sets'[k] # <<>>
                                         /\ sets'[k][Len(sets'[k])].addrs = Addrs(eps, k)
<1> DEFINE new(k) == NewSet(Addrs(eps, k))
<1>1. ASSUME NEW k \in PortNames
      PROVE  /\ sets'[k] \in Seq(AddrSets)
             /\ \A n \in 1..Len(sets'[k]) :
                  /\ DOMAIN sets'[k][n].hits = 1..Len(sets'[k][n].addrs)
                  /\ \A m \in 1..Len(sets'[k][n].addrs) : sets'[k][n].hits[m] <= picks
             /\ Len(sets[k]) <= Len(sets'[k])
             /\ \A n \in 1..Len(sets[k]) : sets'[k][n] = sets[k][n]
             /\ Addrs(eps, k) # <<>> => /\ sets'[k] # <<>>
                                        /\ sets'[k][Len(sets'[k])].addrs = Addrs(eps, k)
  <2>0. sets[k] \in Seq(AddrSets)
    BY DEF IInv, Published
  <2>1. CASE Addrs(eps, k) = <<>>
    <3>1. sets'[k] = sets[k]
      BY <2>1 DEF Publish
    <3>2. Len(sets[k]) \in Nat
      BY <2>0
    <3>3. \A n \in 1..Len(sets[k]) :
            /\ DOMAIN sets[k][n].hits = 1..Len(sets[k][n].addrs)
            /\ \A m \in 1..Len(sets[k][n].addrs) : sets[k][n].hits[m] <= picks
      BY DEF IInv, Published
    <3>4. QED
      BY <2>0, <2>1, <3>1, <3>2, <3>3
  <2>2. CASE Addrs(eps, k) # <<>>
    <3>1. sets'[k] = Append(sets[k], new(k))
      BY <2>2 DEF Publish
    <3>2. Addrs(eps, k) \in Seq(ServiceAddrs)
      BY AddrsType
    <3>3. /\ new(k) \in AddrSets
          /\ new(k).addrs = Addrs(eps, k)
          /\ DOMAIN new(k).hits = 1..Len(Addrs(eps, k))
          /\ \A m \in 1..Len(Addrs(eps, k)) : new(k).hits[m] = 0
      BY <2>2, <3>2, NewSetType
    <3> HIDE DEF new
    <3>4. picks >= 0
      BY BoundsAssumption DEF IInv, Counters
    <3>5. /\ Len(sets'[k]) = Len(sets[k]) + 1
          /\ Len(sets[k]) \in Nat
          /\ sets'[k] \in Seq(AddrSets)
          /\ sets'[k][Len(sets'[k])] = new(k)
          /\ \A n \in 1..Len(sets[k]) : sets'[k][n] = sets[k][n]
      BY <2>0, <3>1, <3>3
    <3>6. ASSUME NEW n \in 1..Len(sets'[k])
          PROVE  /\ DOMAIN sets'[k][n].hits = 1..Len(sets'[k][n].addrs)
                 /\ \A m \in 1..Len(sets'[k][n].addrs) : sets'[k][n].hits[m] <= picks
      <4>1. CASE n = Len(sets'[k])
        BY <3>3, <3>4, <3>5, <4>1
      <4>2. CASE n # Len(sets'[k])
        <5>1. n \in 1..Len(sets[k])
          BY <3>5, <4>2
        <5>2. QED
          BY <3>5, <5>1 DEF IInv, Published
      <4>3. QED
        BY <4>1, <4>2
    <3>7. QED
      BY <3>3, <3>5, <3>6
  <2>3. QED
    BY <2>1, <2>2
<1>2. sets' = [k \in PortNames |-> sets'[k]]
  BY DEF Publish
<1>3. QED
  BY <1>1, <1>2 DEF Published

\* Both handlers of the worker keep the invariant: a request's set stays published.
LEMMA WorkerStep ==
  ASSUME IInv, (\E eps \in Objects : AddItem(eps)) \/ DelItem
  PROVE  IInv'
<1>1. ASSUME NEW eps \in Objects, AddItem(eps)
      PROVE  IInv'
  <2>1. Publish(eps) /\ applied' = eps /\ UNCHANGED <<picks, req>>
    BY <1>1 DEF AddItem
  <2>2. /\ Published'
        /\ \A k \in PortNames :
             /\ Len(sets[k]) <= Len(sets'[k])
             /\ \A n \in 1..Len(sets[k]) : sets'[k][n] = sets[k][n]
             /\ Addrs(eps, k) # <<>> => /\ sets'[k] # <<>>
                                        /\ sets'[k][Len(sets'[k])].addrs = Addrs(eps, k)
    BY <2>1, PublishStep
  <2>3. Latest'
    BY <2>1, <2>2 DEF Latest
  <2>4. Held'
    <3>1. ASSUME NEW r \in Requests, req[r].pc = "pick"
          PROVE  /\ req[r].set \in 1..Len(sets'[req[r].name])
                 /\ req[r].live # <<>> =>
                      sets'[req[r].name][req[r].set].addrs = req[r].live
      <4>1. req[r].name \in PortNames /\ req[r].set \in 1..Len(sets[req[r].name])
        BY <3>1 DEF IInv, Held, ReqTypes
      <4>2. sets'[req[r].name][req[r].set] = sets[req[r].name][req[r].set]
        BY <2>2, <4>1
      <4>3. sets[req[r].name] \in Seq(AddrSets) /\ sets'[req[r].name] \in Seq(AddrSets)
        BY <2>2, <4>1 DEF IInv, Published
      <4>4. Len(sets[req[r].name]) <= Len(sets'[req[r].name])
        BY <2>2, <4>1
      <4>5. req[r].set \in 1..Len(sets'[req[r].name])
        BY <4>1, <4>3, <4>4
      <4>6. QED
        BY <3>1, <4>2, <4>5 DEF IInv, Held
    <3>2. QED
      BY <2>1, <3>1 DEF IInv, Held
  <2>5. Counters'
    BY <1>1, <2>1, BoundsAssumption DEF AddItem, IInv, Counters
  <2>6. QED
    BY <2>2, <2>3, <2>4, <2>5 DEF IInv
<1>2. ASSUME DelItem
      PROVE  IInv'
  <2>1. applied' = Gone /\ UNCHANGED <<sets, updates, picks, req>>
    BY <1>2 DEF DelItem
  <2>2. Published' /\ Held' /\ Counters'
    BY <2>1 DEF IInv, Published, Held, Counters
  <2>3. Latest'
    BY <2>1, AddrsOfGone DEF Latest
  <2>4. QED
    BY <2>2, <2>3 DEF IInv
<1>3. QED
  BY <1>1, <1>2

\* A request that looks a name up holds the last set under it, if there is one.
LEMMA LookupStep ==
  ASSUME IInv, NEW r \in Requests, NEW p, Lookup(r, p)
  PROVE  IInv'
<1> DEFINE k == KeyName(p)
<1>1. k \in PortNames
  BY NamesAssumption DEF KeyName
<1>2. /\ req' = [req EXCEPT ![r] =
                   [name |-> k, set |-> Len(sets[k]), addr |-> NoAddr, live |-> Addrs(applied, k),
                    pc |-> IF sets[k] = <<>> THEN "none" ELSE "pick"]]
      /\ UNCHANGED <<sets, applied, updates, picks>>
  BY DEF Lookup
<1> HIDE DEF k
<1>3. Published' /\ Latest' /\ Counters'
  BY <1>2 DEF IInv, Published, Latest, Counters
<1>4. sets[k] \in Seq(AddrSets) /\ Len(sets[k]) \in Nat
  BY <1>1 DEF IInv, Published
<1>5. Addrs(applied, k) \in Seq(ServiceAddrs)
  BY <1>1, AddrsType DEF IInv, Counters
<1>6. req' \in [Requests -> ReqTypes]
  BY <1>1, <1>2, <1>4, <1>5 DEF IInv, Held, ReqTypes
<1>7. /\ sets[k] # <<>> => Len(sets[k]) \in 1..Len(sets[k])
      /\ Addrs(applied, k) # <<>> => /\ sets[k] # <<>>
                                     /\ sets[k][Len(sets[k])].addrs = Addrs(applied, k)
  BY <1>1, <1>4 DEF IInv, Latest
<1>8. Held'
  <2>1. ASSUME NEW q \in Requests
        PROVE  /\ req'[q].pc = "pick" =>
                    /\ req'[q].set \in 1..Len(sets[req'[q].name])
                    /\ req'[q].live # <<>> =>
                         sets[req'[q].name][req'[q].set].addrs = req'[q].live
               /\ req'[q].pc = "got" /\ req'[q].live # <<>> => req'[q].addr \in Range(req'[q].live)
               /\ req'[q].pc = "none" => req'[q].live = <<>>
    <3>1. CASE q = r
      <4>1. req'[q] = [name |-> k, set |-> Len(sets[k]), addr |-> NoAddr,
                       live |-> Addrs(applied, k),
                       pc |-> IF sets[k] = <<>> THEN "none" ELSE "pick"]
        BY <1>2, <3>1 DEF IInv, Held
      <4>2. QED
        BY <1>7, <4>1
    <3>2. CASE q # r
      <4>1. req'[q] = req[q]
        BY <1>2, <3>2 DEF IInv, Held
      <4>2. QED
        BY <4>1 DEF IInv, Held
    <3>3. QED
      BY <3>1, <3>2
  <2>2. QED
    BY <1>2, <1>6, <2>1 DEF Held
<1>9. QED
  BY <1>3, <1>8 DEF IInv

\* A set after one of its addresses was taken.
Taken(S) ==
  LET count == (S.index + 1) % IndexSize
      at == (count % Len(S.addrs)) + 1
  IN  [addrs |-> S.addrs, index |-> count, hits |-> [S.hits EXCEPT ![at] = @ + 1]]

\* An address is taken from the set the request holds, and no set's addresses
\* change.
LEMMA PickStep ==
  ASSUME IInv, NEW r \in Requests, Pick(r)
  PROVE  /\ IInv'
         /\ \A j \in PortNames : /\ Len(sets'[j]) = Len(sets[j])
                                 /\ \A m \in 1..Len(sets[j]) :
                                      sets'[j][m].addrs = sets[j][m].addrs
         /\ req'[r].pc = "got"
         /\ req'[r].addr \in Range(sets[req[r].name][req[r].set].addrs)
         /\ \A j \in PortNames : \A m \in 1..Len(sets[j]) :
              sets'[j][m] = IF j = req[r].name /\ m = req[r].set THEN Taken(sets[j][m])
                            ELSE sets[j][m]
<1> DEFINE k == req[r].name
           n == req[r].set
           S == sets[k][n]
           count == (S.index + 1) % IndexSize
           at == (count % Len(S.addrs)) + 1
<1>1. /\ req[r].pc = "pick"
      /\ picks < MaxPicks
      /\ picks' = picks + 1
      /\ sets' = [sets EXCEPT ![k][n] = [S EXCEPT !.index = count, !.hits[at] = @ + 1]]
      /\ req' = [req EXCEPT ![r].addr = S.addrs[at], ![r].pc = "got"]
      /\ UNCHANGED <<applied, updates>>
  BY DEF Pick, Take
<1>2. k \in PortNames /\ n \in 1..Len(sets[k]) /\ req \in [Requests -> ReqTypes]
  BY <1>1 DEF IInv, Held, ReqTypes
<1>3. sets \in [PortNames -> Seq(AddrSets)] /\ sets[k] \in Seq(AddrSets)
  BY <1>2 DEF IInv, Published
<1>4. S \in AddrSets
  BY <1>2, <1>3
<1>5. /\ S.addrs \in Seq(ServiceAddrs) /\ S.addrs # <<>> /\ S.index \in 0..IndexSize - 1
      /\ S.hits \in UNION {[1..l -> Nat] : l \in Nat}
      /\ S = [addrs |-> S.addrs, index |-> S.index, hits |-> S.hits]
  BY <1>4 DEF AddrSets
<1>6. /\ DOMAIN S.hits = 1..Len(S.addrs)
      /\ \A m \in 1..Len(S.addrs) : S.hits[m] <= picks
  BY <1>2 DEF IInv, Published
<1> HIDE DEF S
<1>7. Len(S.addrs) \in Nat \ {0} /\ S.hits \in [1..Len(S.addrs) -> Nat]
  <2>1. Len(S.addrs) \in Nat \ {0}
    <3>1. \A a \in Seq(ServiceAddrs) : a # <<>> => Len(a) \in Nat \ {0}
      OBVIOUS
    <3>2. QED
      BY <1>5, <3>1
  <2>2. PICK l \in Nat : S.hits \in [1..l -> Nat]
    BY <1>5
  <2>3. DOMAIN S.hits = 1..l
    BY <2>2
  <2>4. QED
    BY <1>6, <2>1, <2>2, <2>3
<1>8. count \in 0..IndexSize - 1
  BY <1>5, IndexAssumption
<1> HIDE DEF count
<1>9. at \in 1..Len(S.addrs)
  <2>1. count \in Nat
    BY <1>8, IndexAssumption
  <2>2. \A x \in Nat, l \in Nat \ {0} : (x % l) + 1 \in 1..l
    OBVIOUS
  <2>3. QED
    BY <1>7, <2>1, <2>2
<1>10. S.addrs[at] \in Range(S.addrs) /\ S.addrs[at] \in ServiceAddrs
  BY <1>5, <1>9 DEF Range
<1> HIDE DEF at
<1>11. picks \in Nat /\ picks' \in 0..MaxPicks
  BY <1>1, BoundsAssumption DEF IInv, Counters
<1> DEFINE T == [addrs |-> S.addrs, index |-> count, hits |-> [S.hits EXCEPT ![at] = @ + 1]]
<1>taken. T = Taken(S)
  BY DEF Taken, at, count
<1>12. /\ T \in AddrSets
       /\ DOMAIN T.hits = 1..Len(S.addrs)
       /\ \A m \in 1..Len(S.addrs) : T.hits[m] <= picks'
  <2>1. T.hits \in [1..Len(S.addrs) -> Nat]
    BY <1>7, <1>9
  <2>2. \A m \in 1..Len(S.addrs) : T.hits[m] <= picks'
    BY <1>1, <1>6, <1>7, <1>9, <1>11
  <2>3. T \in AddrSets
    BY <1>5, <1>7, <1>8, <2>1 DEF AddrSets
  <2>4. QED
    BY <2>1, <2>2, <2>3
<1>13. /\ sets' \in [PortNames -> Seq(AddrSets)]
       /\ \A j \in PortNames : Len(sets'[j]) = Len(sets[j])
       /\ \A j \in PortNames : \A m \in 1..Len(sets[j]) :
            sets'[j][m] = IF j = k /\ m = n THEN T ELSE sets[j][m]
  <2> HIDE DEF k, n
  <2> DEFINE W == [sets[k] EXCEPT ![n] = T]
  <2>1. sets' = [sets EXCEPT ![k] = W]
    <3>1. [S EXCEPT !.index = count, !.hits[at] = @ + 1] = T
      <4> DEFINE U == [S EXCEPT !.index = count]
      <4>1. U = [addrs |-> S.addrs, index |-> count, hits |-> S.hits]
        BY <1>5
      <4>2. [S EXCEPT !.index = count, !.hits[at] = @ + 1] = [U EXCEPT !.hits = [U.hits EXCEPT ![at] = @ + 1]]
        BY <1>5, <1>7, <1>9
      <4>3. U.hits = S.hits /\ U.addrs = S.addrs /\ U.index = count
        BY <4>1
      <4>4. [U EXCEPT !.hits = [U.hits EXCEPT ![at] = @ + 1]] = T
        <5> HIDE DEF U
        <5>1. \A h : [U EXCEPT !.hits = h] = [addrs |-> S.addrs, index |-> count, hits |-> h]
          BY <4>1
        <5>2. [U EXCEPT !.hits = [U.hits EXCEPT ![at] = @ + 1]]
                = [addrs |-> S.addrs, index |-> count, hits |-> [U.hits EXCEPT ![at] = @ + 1]]
          BY <5>1
        <5>3. QED
          BY <4>3, <5>2
      <4> HIDE DEF U
      <4>5. QED
        BY <4>2, <4>4
    <3>2. sets' = [sets EXCEPT ![k][n] = [S EXCEPT !.index = count, !.hits[at] = @ + 1]]
      BY <1>1
    <3>3. QED
      BY <3>1, <3>2
  <2>2. W \in Seq(AddrSets) /\ Len(W) = Len(sets[k])
        /\ \A m \in 1..Len(sets[k]) : W[m] = IF m = n THEN T ELSE sets[k][m]
    BY <1>2, <1>3, <1>12
  <2> HIDE DEF W
  <2>3. QED
    BY <1>2, <1>3, <2>1, <2>2
<1>14. \A j \in PortNames : \A m \in 1..Len(sets[j]) : sets'[j][m].addrs = sets[j][m].addrs
  BY <1>13 DEF S
<1>15. Published'
  <2>1. ASSUME NEW j \in PortNames, NEW m \in 1..Len(sets'[j])
        PROVE  /\ DOMAIN sets'[j][m].hits = 1..Len(sets'[j][m].addrs)
               /\ \A i \in 1..Len(sets'[j][m].addrs) : sets'[j][m].hits[i] <= picks'
    <3>0. m \in 1..Len(sets[j])
      BY <1>13, <2>1
    <3>1. CASE j = k /\ m = n
      <4>1. sets'[j][m] = T
        BY <1>13, <3>0, <3>1
      <4>2. QED
        BY <1>12, <4>1
    <3>2. CASE ~(j = k /\ m = n)
      <4>1. sets'[j][m] = sets[j][m]
        BY <1>13, <3>0, <3>2
      <4>2. /\ DOMAIN sets[j][m].hits = 1..Len(sets[j][m].addrs)
            /\ \A i \in 1..Len(sets[j][m].addrs) : sets[j][m].hits[i] <= picks
        BY <3>0 DEF IInv, Published
      <4>3. sets[j][m] \in AddrSets
        BY <1>3, <3>0
      <4>4. \A i \in 1..Len(sets[j][m].addrs) : sets[j][m].hits[i] \in Nat
        BY <4>2, <4>3 DEF AddrSets
      <4>5. \A x \in Nat : x <= picks => x <= picks'
        BY <1>1, <1>11
      <4>6. QED
        BY <4>1, <4>2, <4>4, <4>5
    <3>3. QED
      BY <3>1, <3>2
  <2>2. QED
    BY <1>13, <2>1 DEF Published
<1>16. Latest'
  <2>1. ASSUME NEW j \in PortNames, Addrs(applied, j) # <<>>
        PROVE  sets'[j] # <<>> /\ sets'[j][Len(sets'[j])].addrs = Addrs(applied, j)
    <3>1. sets[j] # <<>> /\ sets[j][Len(sets[j])].addrs = Addrs(applied, j)
      BY <2>1 DEF IInv, Latest
    <3>2. sets[j] \in Seq(AddrSets) /\ sets'[j] \in Seq(AddrSets) /\ Len(sets'[j]) = Len(sets[j])
      BY <1>3, <1>13
    <3>3. Len(sets[j]) \in 1..Len(sets[j])
      BY <3>1, <3>2
    <3>4. QED
      BY <1>14, <3>1, <3>2, <3>3
  <2>2. QED
    BY <1>1, <2>1 DEF Latest
<1>17. Held'
  <2>1. req' \in [Requests -> ReqTypes]
    BY <1>1, <1>2, <1>10 DEF ReqTypes
  <2>2. ASSUME NEW q \in Requests
        PROVE  /\ req'[q].pc = "pick" =>
                    /\ req'[q].set \in 1..Len(sets'[req'[q].name])
                    /\ req'[q].live # <<>> =>
                         sets'[req'[q].name][req'[q].set].addrs = req'[q].live
               /\ req'[q].pc = "got" /\ req'[q].live # <<>> => req'[q].addr \in Range(req'[q].live)
               /\ req'[q].pc = "none" => req'[q].live = <<>>
    <3>1. CASE q = r
      <4>1. req'[q].pc = "got" /\ req'[q].addr = S.addrs[at] /\ req'[q].live = req[r].live
        BY <1>1, <1>2, <3>1 DEF ReqTypes
      <4>2. req[r].live # <<>> => S.addrs = req[r].live
        BY <1>1 DEF IInv, Held, S
      <4>3. QED
        BY <1>10, <4>1, <4>2
    <3>2. CASE q # r
      <4>1. req'[q] = req[q] /\ req[q].name \in PortNames
        BY <1>1, <1>2, <3>2 DEF ReqTypes
      <4>2. CASE req[q].pc = "pick"
        <5>1. /\ req[q].set \in 1..Len(sets[req[q].name])
              /\ req[q].live # <<>> => sets[req[q].name][req[q].set].addrs = req[q].live
          BY <4>2 DEF IInv, Held
        <5>2. /\ Len(sets'[req[q].name]) = Len(sets[req[q].name])
              /\ sets'[req[q].name][req[q].set].addrs = sets[req[q].name][req[q].set].addrs
          BY <1>13, <1>14, <4>1, <5>1
        <5>3. QED
          BY <4>1, <4>2, <5>1, <5>2
      <4>3. CASE req[q].pc # "pick"
        BY <4>1, <4>3 DEF IInv, Held
      <4>4. QED
        BY <4>2, <4>3
    <3>3. QED
      BY <3>1, <3>2
  <2>3. QED
    BY <2>1, <2>2 DEF Held
<1>18. Counters'
  BY <1>1, <1>11 DEF IInv, Counters
<1>19. req'[r].pc = "got" /\ req'[r].addr = S.addrs[at]
  BY <1>1, <1>2 DEF ReqTypes
<1>20. \A j \in PortNames : \A m \in 1..Len(sets[j]) :
         sets'[j][m] = IF j = k /\ m = n THEN Taken(sets[j][m]) ELSE sets[j][m]
  BY <1>13, <1>taken DEF S
<1>21. QED
  BY <1>10, <1>13, <1>14, <1>15, <1>16, <1>17, <1>18, <1>19, <1>20 DEF IInv, S

\* A request that is done holds nothing.
LEMMA ReturnStep ==
  ASSUME IInv, NEW r \in Requests, Return(r)
  PROVE  IInv'
<1>1. req' = [req EXCEPT ![r] = NoRequest] /\ UNCHANGED <<sets, applied, updates, picks>>
  BY DEF Return
<1>2. Published' /\ Latest' /\ Counters'
  BY <1>1 DEF IInv, Published, Latest, Counters
<1>3. Held'
  BY <1>1, NamesAssumption DEF IInv, Held, NoRequest, ReqTypes
<1>4. QED
  BY <1>2, <1>3 DEF IInv

\* The invariant is inductive,
LEMMA StepInv == IInv /\ [Next]_vars => IInv'
<1> SUFFICES ASSUME IInv, [Next]_vars PROVE IInv'
  OBVIOUS
<1>1. CASE (\E eps \in Objects : AddItem(eps)) \/ DelItem
  BY <1>1, WorkerStep
<1>2. ASSUME NEW r \in Requests, NEW p \in PortNames \cup NumericPorts, Lookup(r, p)
      PROVE  IInv'
  BY <1>2, LookupStep
<1>3. ASSUME NEW r \in Requests, Pick(r)
      PROVE  IInv'
  BY <1>3, PickStep
<1>4. ASSUME NEW r \in Requests, Return(r)
      PROVE  IInv'
  BY <1>4, ReturnStep
<1>5. CASE UNCHANGED vars
  BY <1>5 DEF vars, IInv, Published, Latest, Held, Counters
<1>6. QED
  BY <1>1, <1>2, <1>3, <1>4, <1>5 DEF Next

\* and holds in every state.
LEMMA AlwaysInv == Spec => []IInv
  BY InitInv, StepInv, PTL DEF Spec

-----------------------------------------------------------------------------

\* endpoints.go:102: whatever is published while a request holds a set, and
\* whatever Endpoints objects there are, the set it holds is not empty: the
\* division by its length is never one by zero.
THEOREM NeverEmptyHolds == Spec => []NeverEmpty
<1>1. IInv => NeverEmpty
  <2> SUFFICES ASSUME IInv, NEW r \in Requests, req[r].pc = "pick"
               PROVE  sets[req[r].name][req[r].set].addrs # <<>>
    BY DEF NeverEmpty
  <2>1. req[r].name \in PortNames /\ req[r].set \in 1..Len(sets[req[r].name])
    BY DEF IInv, Held, ReqTypes
  <2>2. sets[req[r].name] \in Seq(AddrSets)
    BY <2>1 DEF IInv, Published
  <2>3. sets[req[r].name][req[r].set] \in AddrSets
    BY <2>1, <2>2
  <2>4. QED
    BY <2>3 DEF AddrSets
<1>2. QED
  BY <1>1, AlwaysInv, PTL

\* endpoints.go:91-105: although a request takes its address after the lock is
\* released, it gets one of those the service had when it looked, and no 502 while
\* the service has addresses.
THEOREM CurrentAddressHolds == Spec => []CurrentAddress
<1>1. IInv => CurrentAddress
  BY DEF IInv, Held, CurrentAddress
<1>2. QED
  BY <1>1, AlwaysInv, PTL

\* The variables' types: an index stays below its width, and no address is counted
\* more often than addresses were taken.
THEOREM TypesHold == Spec => []TypeOK
<1>1. IInv => TypeOK
  <2> SUFFICES ASSUME IInv PROVE TypeOK
    OBVIOUS
  <2>1. ASSUME NEW k \in PortNames, NEW n \in DOMAIN sets[k]
        PROVE  /\ sets[k][n].addrs \in Seq(ServiceAddrs)
               /\ sets[k][n].index \in 0..IndexSize - 1
               /\ sets[k][n].hits \in [DOMAIN sets[k][n].addrs -> 0..MaxPicks]
    <3>1. sets[k] \in Seq(AddrSets) /\ n \in 1..Len(sets[k])
      BY <2>1 DEF IInv, Published
    <3>2. sets[k][n] \in AddrSets
      BY <3>1
    <3>3. PICK l \in Nat : sets[k][n].hits \in [1..l -> Nat]
      BY <3>2 DEF AddrSets
    <3>4. /\ DOMAIN sets[k][n].hits = 1..Len(sets[k][n].addrs)
          /\ \A m \in 1..Len(sets[k][n].addrs) : sets[k][n].hits[m] <= picks
      BY <3>1 DEF IInv, Published
    <3>5. sets[k][n].addrs \in Seq(ServiceAddrs) /\ sets[k][n].index \in 0..IndexSize - 1
      BY <3>2 DEF AddrSets
    <3>6. DOMAIN sets[k][n].addrs = 1..Len(sets[k][n].addrs)
      BY <3>5
    <3>7. \A m \in 1..Len(sets[k][n].addrs) : sets[k][n].hits[m] \in 0..MaxPicks
      BY <3>3, <3>4, BoundsAssumption DEF IInv, Counters
    <3>8. QED
      BY <3>3, <3>4, <3>5, <3>6, <3>7
  <2>2. QED
    BY <2>1 DEF TypeOK, IInv, Held, ReqTypes, Counters
<1>2. QED
  BY <1>1, AlwaysInv, PTL

-----------------------------------------------------------------------------
(* Counting.                                                                 *)

\* Quotients and remainders: what they are, that they are the only ones, and how
\* they go on by one.
LEMMA DivMod ==
  ASSUME NEW n \in Nat, NEW d \in Nat \ {0}
  PROVE  /\ n \div d \in Nat /\ n % d \in 0..d - 1
         /\ n = d * (n \div d) + (n % d)
  OBVIOUS

\* Quotient and remainder are determined by what they make up.
LEMMA DivUnique ==
  ASSUME NEW n \in Nat, NEW d \in Nat \ {0}, NEW q \in Nat, NEW r \in 0..d - 1, n = d * q + r
  PROVE  n \div d = q /\ n % d = r
<1> DEFINE a == n \div d
           b == n % d
<1>1. a \in Nat /\ b \in 0..d - 1 /\ n = d * a + b
  BY DivMod
<1> HIDE DEF a, b
<1>2. \A x, y \in Nat : x < y => d * x + d <= d * y
  <2> SUFFICES ASSUME NEW x \in Nat, NEW y \in Nat, x < y PROVE d * x + d <= d * y
    OBVIOUS
  <2>1. d * (x + 1) = d * x + d
    OBVIOUS
  <2>2. d * (x + 1) <= d * y
    OBVIOUS
  <2>3. QED
    BY <2>1, <2>2
<1>3. a = q
  <2>1. ~(a < q)
    BY <1>1, <1>2
  <2>2. ~(q < a)
    BY <1>1, <1>2
  <2>3. QED
    BY <1>1, <2>1, <2>2
<1>4. b = r
  BY <1>1, <1>3
<1>5. QED
  BY <1>3, <1>4 DEF a, b

\* Counting on goes to the next remainder, or starts the remainders again.
LEMMA NextCount ==
  ASSUME NEW i \in Nat, NEW d \in Nat \ {0}
  PROVE  /\ i % d = d - 1 => (i + 1) % d = 0 /\ (i + 1) \div d = (i \div d) + 1
         /\ i % d # d - 1 => (i + 1) % d = (i % d) + 1 /\ (i + 1) \div d = i \div d
<1> DEFINE q == i \div d
           r == i % d
<1>1. q \in Nat /\ r \in 0..d - 1 /\ i = d * q + r
  BY DivMod
<1> HIDE DEF q, r
<1>2. CASE r = d - 1
  <2>1. d * (q + 1) = d * q + d
    BY <1>1
  <2>2. i + 1 = d * (q + 1) + 0 /\ q + 1 \in Nat /\ 0 \in 0..d - 1 /\ i + 1 \in Nat
    BY <1>1, <1>2, <2>1
  <2>3. (i + 1) % d = 0 /\ (i + 1) \div d = q + 1
    BY <2>2, DivUnique
  <2>4. QED
    BY <1>2, <2>3 DEF q, r
<1>3. CASE r # d - 1
  <2>1. i + 1 = d * q + (r + 1) /\ r + 1 \in 0..d - 1 /\ i + 1 \in Nat
    BY <1>1, <1>3
  <2>2. (i + 1) % d = r + 1 /\ (i + 1) \div d = q
    BY <1>1, <2>1, DivUnique
  <2>3. QED
    BY <1>3, <2>2 DEF q, r
<1>4. QED
  BY <1>2, <1>3

\* The sum of the counts, when one of them goes up, and when all are zero.
Summing(s, h) == s = [n \in 0..Len(h) |-> IF n = 0 THEN 0 ELSE s[n - 1] + h[n]]

\* Total adds the counts up, one after the other.
LEMMA TotalIsSum ==
  ASSUME NEW l \in Nat, NEW h \in [1..l -> Nat]
  PROVE  \E s \in [0..l -> Nat] : /\ s[0] = 0 /\ \A n \in 1..l : s[n] = s[n - 1] + h[n]
                                  /\ Total(h) = s[l]
<1> DEFINE g == [x \in Nat \X (1..l) |-> x[1] + h[x[2]]]
           s == CHOOSE x : Summing(x, h)
<1>1. Len(h) = l
  <2>1. h \in Seq(Nat) /\ DOMAIN h = 1..l
    OBVIOUS
  <2>2. Len(h) \in Nat /\ DOMAIN h = 1..Len(h)
    BY <2>1
  <2>3. QED
    BY <2>1, <2>2
<1>2. Steps(g, Nat, l)
  <2>1. \A x \in Nat \X (1..l) : x[1] + h[x[2]] \in Nat
    OBVIOUS
  <2>2. QED
    BY <2>1 DEF Steps
<1>3. \A x \in Nat : \A n \in 1..l : g[<<x, n>>] = x + h[n]
  OBVIOUS
<1> HIDE DEF g
<1>4. PICK f \in [0..l -> Nat] : Follows(f, 0, g, l)
  BY <1>2, Recursion
<1>5. f = [n \in 0..l |-> IF n = 0 THEN 0 ELSE f[n - 1] + h[n]]
  <2>1. ASSUME NEW n \in 0..l PROVE f[n] = IF n = 0 THEN 0 ELSE f[n - 1] + h[n]
    <3>1. CASE n = 0
      BY <1>4, <3>1 DEF Follows
    <3>2. CASE n # 0
      <4>1. n \in 1..l /\ f[n - 1] \in Nat
        BY <3>2
      <4>2. QED
        BY <1>3, <1>4, <3>2, <4>1 DEF Follows
    <3>3. QED
      BY <3>1, <3>2
  <2>2. QED
    BY <2>1
<1>6. Summing(s, h)
  BY <1>1, <1>5 DEF Summing
<1>7. Total(h) = s[l]
  BY <1>1 DEF Total, Summing
<1> HIDE DEF s
<1>8. s[0] = 0 /\ \A n \in 1..l : s[n] = s[n - 1] + h[n]
  BY <1>1, <1>6 DEF Summing
<1> DEFINE P == {n \in 0..l : s[n] \in Nat}
<1>9. \A n \in 0..l : n \in P
  <2>1. 0 \in P
    BY <1>8
  <2>2. ASSUME NEW n \in 1..l, n - 1 \in P PROVE n \in P
    BY <1>8, <2>2
  <2> HIDE DEF P
  <2>3. QED
    BY <2>1, <2>2, UpTo
<1>10. s \in [0..l -> Nat]
  <2>1. s = [n \in 0..l |-> s[n]]
    BY <1>1, <1>6 DEF Summing
  <2>2. QED
    BY <1>9, <2>1
<1>11. QED
  BY <1>7, <1>8, <1>10

\* One more at one place is one more in total.
LEMMA TotalOfOneMore ==
  ASSUME NEW l \in Nat, NEW h \in [1..l -> Nat], NEW at \in 1..l,
         NEW k \in [1..l -> Nat], \A n \in 1..l : k[n] = h[n] + (IF n = at THEN 1 ELSE 0)
  PROVE  Total(k) = Total(h) + 1
<1>2. PICK s \in [0..l -> Nat] : /\ s[0] = 0 /\ \A n \in 1..l : s[n] = s[n - 1] + h[n]
                                 /\ Total(h) = s[l]
  BY TotalIsSum
<1>3. PICK t \in [0..l -> Nat] : /\ t[0] = 0 /\ \A n \in 1..l : t[n] = t[n - 1] + k[n]
                                 /\ Total(k) = t[l]
  BY TotalIsSum
<1> DEFINE P == {n \in 0..l : t[n] = s[n] + (IF at <= n THEN 1 ELSE 0)}
<1>4. 0 \in P
  BY <1>2, <1>3
<1>5. ASSUME NEW n \in 1..l, n - 1 \in P PROVE n \in P
  <2>1. t[n - 1] = s[n - 1] + (IF at <= n - 1 THEN 1 ELSE 0)
    BY <1>5
  <2>2. s[n - 1] \in Nat /\ h[n] \in Nat
    OBVIOUS
  <2>3. t[n] = t[n - 1] + k[n] /\ s[n] = s[n - 1] + h[n]
    BY <1>2, <1>3
  <2>4. k[n] = h[n] + (IF n = at THEN 1 ELSE 0)
    OBVIOUS
  <2>5. t[n] = s[n] + (IF at <= n THEN 1 ELSE 0)
    <3>1. CASE n < at
      BY <2>1, <2>2, <2>3, <2>4, <3>1
    <3>2. CASE n = at
      BY <2>1, <2>2, <2>3, <2>4, <3>2
    <3>3. CASE at < n
      <4>1. at <= n - 1 /\ at <= n /\ n # at
        BY <3>3
      <4>2. t[n - 1] = s[n - 1] + 1 /\ k[n] = h[n]
        BY <2>1, <2>2, <2>4, <4>1
      <4>3. QED
        BY <2>2, <2>3, <4>1, <4>2
    <3>4. QED
      BY <3>1, <3>2, <3>3
  <2>6. QED
    BY <2>5
<1>6. l \in P
  <2> HIDE DEF P
  <2>1. \A n \in 0..l : n \in P
    BY <1>4, <1>5, UpTo
  <2>2. QED
    BY <2>1
<1>7. QED
  BY <1>2, <1>3, <1>6

\* Nothing adds up to nothing.
LEMMA TotalOfNone ==
  ASSUME NEW l \in Nat, NEW h \in [1..l -> Nat], \A n \in 1..l : h[n] = 0
  PROVE  Total(h) = 0
<1>1. PICK s \in [0..l -> Nat] : /\ s[0] = 0 /\ \A n \in 1..l : s[n] = s[n - 1] + h[n]
                                 /\ Total(h) = s[l]
  BY TotalIsSum
<1> DEFINE P == {n \in 0..l : s[n] = 0}
<1>2. 0 \in P
  BY <1>1
<1>3. ASSUME NEW n \in 1..l, n - 1 \in P PROVE n \in P
  BY <1>1, <1>3
<1>4. l \in P
  <2> HIDE DEF P
  <2>1. \A n \in 0..l : n \in P
    BY <1>2, <1>3, UpTo
  <2>2. QED
    BY <2>1
<1>5. QED
  BY <1>1, <1>4

\* How many of the numbers up to i are those of the address at m, of l addresses.
Upto(m, i, l) == (i \div l) + (IF m - 1 <= i % l THEN 1 ELSE 0)

\* Of the first number alone, the first address has one.
LEMMA UptoZero ==
  ASSUME NEW l \in Nat \ {0}, NEW m \in 1..l
  PROVE  Upto(m, 0, l) = IF m = 1 THEN 1 ELSE 0
<1>1. 0 = l * 0 + 0 /\ 0 \in 0..l - 1
  OBVIOUS
<1>2. 0 \div l = 0 /\ 0 % l = 0
  BY <1>1, DivUnique
<1>3. QED
  BY <1>2 DEF Upto

\* The next number is that of the next address.
LEMMA UptoNext ==
  ASSUME NEW l \in Nat \ {0}, NEW m \in 1..l, NEW i \in Nat
  PROVE  Upto(m, i + 1, l) = Upto(m, i, l) + (IF m = ((i + 1) % l) + 1 THEN 1 ELSE 0)
<1> DEFINE q == i \div l
           r == i % l
           p == (i + 1) \div l
           s == (i + 1) % l
<1>1. q \in Nat /\ r \in 0..l - 1
  BY DivMod
<1>2. (r = l - 1 => s = 0 /\ p = q + 1) /\ (r # l - 1 => s = r + 1 /\ p = q)
  BY NextCount
<1>3. Upto(m, i, l) = q + (IF m - 1 <= r THEN 1 ELSE 0)
  BY DEF Upto
<1>4. Upto(m, i + 1, l) = p + (IF m - 1 <= s THEN 1 ELSE 0)
  BY DEF Upto
<1> HIDE DEF q, r, p, s
<1>5. p + (IF m - 1 <= s THEN 1 ELSE 0)
        = q + (IF m - 1 <= r THEN 1 ELSE 0) + (IF m = s + 1 THEN 1 ELSE 0)
  <2>1. CASE r = l - 1
    BY <1>1, <1>2, <2>1
  <2>2. CASE r # l - 1
    BY <1>1, <1>2, <2>2
  <2>3. QED
    BY <2>1, <2>2
<1>6. QED
  BY <1>3, <1>4, <1>5 DEF s

\* The addresses' shares of the numbers so far differ by one at most, and none has
\* more than the first.
LEMMA UptoType ==
  ASSUME NEW l \in Nat \ {0}, NEW i \in Nat
  PROVE  /\ \A m \in 1..l : Upto(m, i, l) \in Nat
         /\ \A m, n \in 1..l : Upto(m, i, l) <= Upto(n, i, l) + 1
         /\ \A m \in 1..l : Upto(m, i, l) <= Upto(1, i, l)
<1>1. i \div l \in Nat /\ i % l \in 0..l - 1
  BY DivMod
<1>2. QED
  BY <1>1 DEF Upto

-----------------------------------------------------------------------------
(* The round robin.                                                          *)

\* A set's index wrapped w times.  Counting starts at 1, so that the first address
\* is one behind.
Turns(S, w) ==
  /\ Total(S.hits) = IndexSize * w + S.index
  /\ \A m \in 1..Len(S.addrs) :
       S.hits[m] + (IF m = 1 THEN 1 ELSE 0)
         = w * Upto(m, IndexSize - 1, Len(S.addrs)) + Upto(m, S.index, Len(S.addrs))
RoundRobin(S) == \E w \in Nat : Turns(S, w)
RInv == \A k \in PortNames : \A n \in 1..Len(sets[k]) : RoundRobin(sets[k][n])

\* A new set has no turn behind it: its index stands at the first address, which has
\* not been taken.
LEMMA NewSetTurns ==
  ASSUME NEW addrs \in Seq(ServiceAddrs), addrs # <<>>
  PROVE  RoundRobin(NewSet(addrs))
<1> DEFINE S == NewSet(addrs)
           l == Len(addrs)
<1>1. l \in Nat \ {0} /\ DOMAIN addrs = 1..l
  OBVIOUS
<1>2. S.addrs = addrs /\ S.index = 0 /\ S.hits = [n \in 1..l |-> 0]
  BY <1>1 DEF NewSet
<1> HIDE DEF S, l
<1>3. S.hits \in [1..l -> Nat] /\ \A n \in 1..l : S.hits[n] = 0
  BY <1>2
<1>4. Total(S.hits) = 0
  BY <1>1, <1>3, TotalOfNone
<1>5. Total(S.hits) = IndexSize * 0 + S.index
  BY <1>2, <1>4, IndexAssumption
<1>6. IndexSize - 1 \in Nat
  BY IndexAssumption
<1>7. ASSUME NEW m \in 1..l
      PROVE  S.hits[m] + (IF m = 1 THEN 1 ELSE 0) = 0 * Upto(m, IndexSize - 1, l) + Upto(m, S.index, l)
  <2>1. Upto(m, IndexSize - 1, l) \in Nat
    BY <1>1, <1>6, UptoType
  <2>2. Upto(m, 0, l) = IF m = 1 THEN 1 ELSE 0
    BY <1>1, UptoZero
  <2>3. QED
    BY <1>2, <1>3, <2>1, <2>2
<1>8. Turns(S, 0)
  BY <1>2, <1>5, <1>7 DEF Turns, l
<1>9. QED
  BY <1>8 DEF RoundRobin, S

\* Taking the next address keeps the turns, whether the index wraps or not.
LEMMA TakenTurns ==
  ASSUME NEW S, S.addrs \in Seq(ServiceAddrs), S.addrs # <<>>, S.index \in 0..IndexSize - 1,
         S.hits \in [1..Len(S.addrs) -> Nat], RoundRobin(S)
  PROVE  RoundRobin(Taken(S))
<1> DEFINE l == Len(S.addrs)
           i == S.index
           count == (i + 1) % IndexSize
           at == (count % l) + 1
           T == Taken(S)
           F(m) == Upto(m, IndexSize - 1, l)
<1>1. l \in Nat \ {0} /\ i \in Nat /\ i < IndexSize /\ IndexSize \in Nat \ {0} /\ IndexSize - 1 \in Nat
  <2>1. \A a \in Seq(ServiceAddrs) : a # <<>> => Len(a) \in Nat \ {0}
    OBVIOUS
  <2>2. QED
    BY <2>1, IndexAssumption
<1>2. PICK w \in Nat : Turns(S, w)
  BY DEF RoundRobin
<1>3. /\ Total(S.hits) = IndexSize * w + i
      /\ \A m \in 1..l : S.hits[m] + (IF m = 1 THEN 1 ELSE 0) = w * F(m) + Upto(m, i, l)
  BY <1>2 DEF Turns
<1>4. T.addrs = S.addrs /\ T.index = count /\ T.hits = [S.hits EXCEPT ![at] = @ + 1]
  BY DEF Taken
<1>5. count \in Nat /\ at \in 1..l
  <2>1. count \in 0..IndexSize - 1
    <3> DEFINE next == i + 1
    <3>1. next \in Nat
      BY <1>1
    <3> HIDE DEF next
    <3>2. next % IndexSize \in 0..IndexSize - 1
      BY <1>1, <3>1, DivMod
    <3>3. QED
      BY <3>2 DEF next
  <2>2. count \in Nat
    BY <1>1, <2>1
  <2> HIDE DEF count, l
  <2>3. count % l \in 0..l - 1
    BY <1>1, <2>2, DivMod
  <2>4. QED
    BY <1>1, <2>2, <2>3
<1>6. \A m \in 1..l : F(m) \in Nat /\ Upto(m, i, l) \in Nat
  BY <1>1, UptoType
<1> HIDE DEF T, F, l, i, at
<1>7. \A m \in 1..l : S.hits[m] \in Nat /\ T.hits[m] = S.hits[m] + (IF m = at THEN 1 ELSE 0)
  BY <1>4, <1>5 DEF l
<1>8. Total(T.hits) = Total(S.hits) + 1
  <2> DEFINE h == S.hits
             k == T.hits
  <2>1. /\ h \in [1..l -> Nat] /\ l \in Nat /\ k \in [1..l -> Nat]
        /\ \A m \in 1..l : k[m] = h[m] + (IF m = at THEN 1 ELSE 0)
    BY <1>1, <1>4, <1>5, <1>7 DEF l
  <2> HIDE DEF h, k
  <2>2. Total(k) = Total(h) + 1
    BY <1>5, <2>1, TotalOfOneMore
  <2>3. QED
    BY <2>2 DEF h, k
<1> HIDE DEF count
<1>9. CASE i + 1 < IndexSize
  <2>1. count = i + 1
    <3>1. i + 1 = IndexSize * 0 + (i + 1) /\ i + 1 \in 0..IndexSize - 1 /\ i + 1 \in Nat
      BY <1>1, <1>9
    <3>2. QED
      BY <1>1, <3>1, DivUnique DEF count
  <2>2. Total(T.hits) = IndexSize * w + T.index
    BY <1>1, <1>3, <1>4, <1>8, <2>1
  <2>3. ASSUME NEW m \in 1..l
        PROVE  T.hits[m] + (IF m = 1 THEN 1 ELSE 0) = w * F(m) + Upto(m, T.index, l)
    <3> DEFINE x == w * F(m)
    <3>1. x \in Nat
      BY <1>6
    <3>2. Upto(m, i + 1, l) = Upto(m, i, l) + (IF m = at THEN 1 ELSE 0)
      BY <1>1, <2>1, UptoNext DEF at
    <3>3. S.hits[m] + (IF m = 1 THEN 1 ELSE 0) = x + Upto(m, i, l)
      BY <1>3
    <3> HIDE DEF x
    <3>4. T.hits[m] + (IF m = 1 THEN 1 ELSE 0) = x + Upto(m, T.index, l)
      BY <1>4, <1>6, <1>7, <2>1, <3>1, <3>2, <3>3
    <3>5. QED
      BY <3>4 DEF x
  <2>4. Turns(T, w)
    BY <1>4, <2>2, <2>3 DEF Turns, F, l
  <2>5. QED
    BY <2>4 DEF RoundRobin, T
<1>10. CASE i + 1 = IndexSize
  <2>1. count = 0
    <3>1. i + 1 = IndexSize * 1 + 0 /\ 0 \in 0..IndexSize - 1 /\ i + 1 \in Nat
      BY <1>1, <1>10
    <3>2. QED
      BY <1>1, <3>1, DivUnique DEF count
  <2>2. at = 1
    <3>1. 0 = l * 0 + 0 /\ 0 \in 0..l - 1
      BY <1>1
    <3>2. QED
      BY <1>1, <2>1, <3>1, DivUnique DEF at
  <2>3. Total(T.hits) = IndexSize * (w + 1) + T.index
    <3>1. IndexSize * (w + 1) = IndexSize * w + IndexSize
      BY <1>1
    <3> DEFINE x == IndexSize * w
    <3>2. x \in Nat
      BY <1>1
    <3> HIDE DEF x
    <3>3. Total(T.hits) = x + IndexSize + T.index
      BY <1>1, <1>3, <1>4, <1>8, <1>10, <2>1, <3>2 DEF x
    <3>4. QED
      BY <3>1, <3>3 DEF x
  <2>4. ASSUME NEW m \in 1..l
        PROVE  T.hits[m] + (IF m = 1 THEN 1 ELSE 0) = (w + 1) * F(m) + Upto(m, T.index, l)
    <3> DEFINE x == w * F(m)
    <3>1. x \in Nat
      BY <1>6
    <3>2. (w + 1) * F(m) = x + F(m)
      BY <1>6
    <3>3. Upto(m, T.index, l) = IF m = 1 THEN 1 ELSE 0
      BY <1>1, <1>4, <2>1, UptoZero
    <3>4. Upto(m, i, l) = F(m)
      <4>1. i = IndexSize - 1
        BY <1>1, <1>10
      <4>2. QED
        BY <4>1 DEF F
    <3>5. S.hits[m] + (IF m = 1 THEN 1 ELSE 0) = x + F(m)
      BY <1>3, <3>4
    <3> HIDE DEF x
    <3>6. T.hits[m] + (IF m = 1 THEN 1 ELSE 0) = x + F(m) + Upto(m, T.index, l)
      BY <1>6, <1>7, <2>2, <3>1, <3>3, <3>5
    <3>7. QED
      BY <3>2, <3>6
  <2>5. Turns(T, w + 1)
    BY <1>4, <2>3, <2>4 DEF Turns, F, l
  <2>6. QED
    BY <2>5 DEF RoundRobin, T
<1>11. QED
  BY <1>1, <1>9, <1>10

\* What a set of an address or more has.
LEMMA SetTypes ==
  ASSUME IInv, NEW k \in PortNames, NEW n \in 1..Len(sets[k])
  PROVE  LET S == sets[k][n]
         IN  /\ S.addrs \in Seq(ServiceAddrs) /\ S.addrs # <<>> /\ S.index \in 0..IndexSize - 1
             /\ S.hits \in [1..Len(S.addrs) -> Nat]
<1> DEFINE S == sets[k][n]
<1>1. S \in AddrSets /\ DOMAIN S.hits = 1..Len(S.addrs)
  BY DEF IInv, Published
<1> HIDE DEF S
<1>2. S.addrs \in Seq(ServiceAddrs) /\ S.addrs # <<>> /\ S.index \in 0..IndexSize - 1
  BY <1>1 DEF AddrSets
<1>3. PICK l \in Nat : S.hits \in [1..l -> Nat]
  BY <1>1 DEF AddrSets
<1>4. DOMAIN S.hits = 1..l
  BY <1>3
<1>5. S.hits \in [1..Len(S.addrs) -> Nat]
  BY <1>1, <1>3, <1>4
<1>6. QED
  BY <1>2, <1>5 DEF S

\* Every step keeps the turns of every set.
LEMMA RInvStep == IInv /\ RInv /\ [Next]_vars => RInv'
<1> SUFFICES ASSUME IInv, RInv, [Next]_vars PROVE RInv'
  OBVIOUS
<1>1. CASE UNCHANGED sets
  BY <1>1 DEF RInv
<1>2. ASSUME NEW eps \in Objects, AddItem(eps) PROVE RInv'
  <2> SUFFICES ASSUME NEW k \in PortNames, NEW n \in 1..Len(sets'[k])
               PROVE  RoundRobin(sets'[k][n])
    BY DEF RInv
  <2>1. sets'[k] = IF Addrs(eps, k) # <<>> THEN Append(sets[k], NewSet(Addrs(eps, k))) ELSE sets[k]
    BY <1>2 DEF AddItem, Publish
  <2>2. sets[k] \in Seq(AddrSets)
    BY DEF IInv, Published
  <2>3. CASE Addrs(eps, k) = <<>>
    BY <2>1, <2>3 DEF RInv
  <2>4. CASE Addrs(eps, k) # <<>>
    <3> DEFINE S == NewSet(Addrs(eps, k))
    <3>1. Addrs(eps, k) \in Seq(ServiceAddrs)
      BY AddrsType
    <3>2. S \in AddrSets /\ RoundRobin(S)
      BY <2>4, <3>1, NewSetType, NewSetTurns
    <3>3. sets'[k] = Append(sets[k], S)
      BY <2>1, <2>4
    <3> HIDE DEF S
    <3>4. /\ Len(sets'[k]) = Len(sets[k]) + 1 /\ Len(sets[k]) \in Nat
          /\ sets'[k][Len(sets[k]) + 1] = S
          /\ \A m \in 1..Len(sets[k]) : sets'[k][m] = sets[k][m]
      BY <2>2, <3>2, <3>3
    <3>5. CASE n = Len(sets[k]) + 1
      BY <3>2, <3>4, <3>5
    <3>6. CASE n # Len(sets[k]) + 1
      <4>1. n \in 1..Len(sets[k])
        BY <3>4, <3>6
      <4>2. QED
        BY <3>4, <4>1 DEF RInv
    <3>7. QED
      BY <3>5, <3>6
  <2>5. QED
    BY <2>3, <2>4
<1>3. ASSUME NEW r \in Requests, Pick(r) PROVE RInv'
  <2> SUFFICES ASSUME NEW k \in PortNames, NEW n \in 1..Len(sets'[k])
               PROVE  RoundRobin(sets'[k][n])
    BY DEF RInv
  <2>1. /\ Len(sets'[k]) = Len(sets[k])
        /\ \A m \in 1..Len(sets[k]) :
             sets'[k][m] = IF k = req[r].name /\ m = req[r].set THEN Taken(sets[k][m])
                           ELSE sets[k][m]
    BY <1>3, PickStep
  <2>2. n \in 1..Len(sets[k])
    BY <2>1
  <2> DEFINE S == sets[k][n]
  <2>3. RoundRobin(S)
    BY <2>2 DEF RInv
  <2>4. /\ S.addrs \in Seq(ServiceAddrs) /\ S.addrs # <<>> /\ S.index \in 0..IndexSize - 1
        /\ S.hits \in [1..Len(S.addrs) -> Nat]
    BY <2>2, SetTypes
  <2>5. sets'[k][n] \in {S, Taken(S)}
    BY <2>1, <2>2
  <2> HIDE DEF S
  <2>6. RoundRobin(Taken(S))
    BY <2>3, <2>4, TakenTurns
  <2>7. QED
    BY <2>3, <2>5, <2>6
<1>4. QED
  BY <1>1, <1>2, <1>3 DEF Next, DelItem, Lookup, Return, vars

\* A set's addresses are taken in turn, whichever requests take them and whatever
\* is published meanwhile: no two of them differ by more than one, and one more for
\* every wrap of the index.
THEOREM BalancedHolds == Spec => []Balanced
<1>1. Init => RInv
  BY DEF Init, RInv
<1>2. Spec => []RInv
  BY <1>1, RInvStep, AlwaysInv, PTL DEF Spec
<1>3. ASSUME IInv, RInv PROVE Balanced
  <2> SUFFICES ASSUME NEW k \in PortNames, NEW n \in DOMAIN sets[k],
                      NEW a \in DOMAIN sets[k][n].hits, NEW b \in DOMAIN sets[k][n].hits
               PROVE  sets[k][n].hits[a]
                        <= sets[k][n].hits[b] + 1 + (Total(sets[k][n].hits) \div IndexSize)
    BY DEF Balanced
  <2> DEFINE S == sets[k][n]
             l == Len(S.addrs)
             h == S.hits
  <2>1. n \in 1..Len(sets[k])
    BY <1>3 DEF IInv, Published
  <2>2. /\ S.addrs \in Seq(ServiceAddrs) /\ S.addrs # <<>> /\ S.index \in 0..IndexSize - 1
        /\ h \in [1..l -> Nat]
    BY <1>3, <2>1, SetTypes
  <2>3. RoundRobin(S)
    BY <1>3, <2>1 DEF RInv
  <2> HIDE DEF S
  <2>4. PICK w \in Nat : Turns(S, w)
    BY <2>3 DEF RoundRobin
  <2>5. l \in Nat \ {0}
    <3>1. \A s \in Seq(ServiceAddrs) : s # <<>> => Len(s) \in Nat \ {0}
      OBVIOUS
    <3>2. QED
      BY <2>2, <3>1
  <2>6. S.index \in Nat /\ IndexSize - 1 \in Nat /\ IndexSize \in Nat \ {0}
    BY <2>2, IndexAssumption
  <2>7. a \in 1..l /\ b \in 1..l /\ h[a] \in Nat /\ h[b] \in Nat
    BY <2>2 DEF S
  <2> DEFINE F(m) == Upto(m, IndexSize - 1, l)
             c(m) == Upto(m, S.index, l)
  <2>8. /\ h[a] + (IF a = 1 THEN 1 ELSE 0) = w * F(a) + c(a)
        /\ h[b] + (IF b = 1 THEN 1 ELSE 0) = w * F(b) + c(b)
    BY <2>4, <2>7 DEF Turns
  <2>9. Total(h) = IndexSize * w + S.index
    BY <2>4 DEF Turns
  <2>10. Total(h) \div IndexSize = w
    <3>1. Total(h) \in Nat
      BY <2>6, <2>9
    <3> HIDE DEF h
    <3>2. QED
      BY <2>2, <2>6, <2>9, <3>1, DivUnique
  <2>11. /\ F(a) \in Nat /\ F(b) \in Nat /\ F(a) <= F(b) + 1
         /\ c(a) \in Nat /\ c(b) \in Nat /\ c(a) <= c(b) + 1
         /\ b = 1 => c(a) <= c(b)
    BY <2>5, <2>6, <2>7, UptoType
  <2> HIDE DEF F, c, h, l
  <2> DEFINE x == w * F(a)
             y == w * F(b)
  <2>12. x <= y + w /\ x \in Nat /\ y \in Nat
    <3>1. w * (F(b) + 1) = y + w
      BY <2>11
    <3>2. w * F(a) <= w * (F(b) + 1)
      BY <2>11
    <3>3. QED
      BY <2>11, <3>1, <3>2
  <2> HIDE DEF x, y
  <2>13. h[a] + (IF a = 1 THEN 1 ELSE 0) = x + c(a) /\ h[b] + (IF b = 1 THEN 1 ELSE 0) = y + c(b)
    BY <2>8 DEF x, y
  <2>14. h[a] <= h[b] + 1 + w
    BY <2>7, <2>11, <2>12, <2>13
  <2>15. QED
    BY <2>10, <2>14 DEF h, S
<1>4. QED
  BY <1>2, <1>3, AlwaysInv, PTL

=============================================================================
