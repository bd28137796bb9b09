----------------------------- MODULE Routing_proofs -----------------------------
(***************************************************************************)
(* Proofs about Routing, for any ingresses and any rules in any order.     *)
(*                                                                         *)
(* A host's entries are determined by two facts: the entries of each       *)
(* ingress among them, and that they are sorted.  The table is Canonical   *)
(* because Insert puts an entry where it disturbs neither, and an answer   *)
(* can only change with the entries of the ingresses that gave it.         *)
(***************************************************************************)
EXTENDS Routing, Lists_proofs

TableHosts == Hosts \cup {NoHost}

\* The entries of an ingress, and the order of the table.
ById(id) == {e \in Entries : e.id = id}
Before == {p \in Entries \X Entries : ~Less(p[2].id, p[1].id)}

\* Names are numbers: the order of the entries' ids is total.
LEMMA LessOrders ==
  ASSUME NEW i \in Ids, NEW j \in Ids, NEW k \in Ids
  PROVE  /\ ~Less(i, i)
         /\ ~Less(i, j) /\ ~Less(j, i) => i = j
         /\ Less(i, j) /\ Less(j, k) => Less(i, k)
         /\ Less(i, j) => ~Less(j, i)
         /\ ~Less(j, i) /\ Less(j, k) => Less(i, k)
<1>1. PICK a \in Names, b \in Namespaces : i = <<a, b>>
  BY DEF Ids
<1>2. PICK c \in Names, d \in Namespaces : j = <<c, d>>
  BY DEF Ids
<1>3. PICK e \in Names, f \in Namespaces : k = <<e, f>>
  BY DEF Ids
<1>4. a \in Nat /\ b \in Nat /\ c \in Nat /\ d \in Nat /\ e \in Nat /\ f \in Nat
  BY NamesAssumption
<1>5. QED
  BY <1>1, <1>2, <1>3, <1>4 DEF Less

-----------------------------------------------------------------------------
(* The entries made of an object.                                            *)

\* A path that is not ignored makes a rule matchRule can match.
LEMMA RuleOfType ==
  ASSUME NEW h \in TableHosts, NEW p \in RulePaths, ~Ignored(p)
  PROVE  RuleOf(h, p) \in IngressRules
<1> USE DEF TableHosts
<1>1. Root \in AnyPath /\ Empty \in AnyPath
  BY DEF Root, Empty, AnyPath
<1>2. CASE p.type = "ImplementationSpecific"
  <2>1. p.path \in Regexps \ Invalid /\ p.backend \in Backends
    BY <1>2 DEF RulePaths, Ignored, PathTypes
  <2>2. RuleOf(h, p) = [host |-> h, type |-> "re2", path |-> p.path, backend |-> p.backend]
    BY <1>2 DEF RuleOf
  <2>3. QED
    BY <2>1, <2>2 DEF IngressRules
<1>3. CASE p.type # "ImplementationSpecific"
  <2>1. /\ p.path \in AnyPath /\ p.backend \in Backends
        /\ p.type \in {"Prefix", "Exact", "glob", "unset"}
    BY <1>3 DEF RulePaths, Ignored, PathTypes
  <2>2. [p.path EXCEPT !.slash = FALSE] \in AnyPath
    BY <2>1 DEF AnyPath
  <2>3. [segs |-> <<Star>>, slash |-> FALSE] \in AnyPath
    BY PathsAssumption DEF AnyPath
  <2>4. ASSUME NEW path \in AnyPath, NEW type \in {"prefix", "exact", "glob"}
        PROVE  [host |-> h, type |-> type, path |-> path, backend |-> p.backend] \in IngressRules
    BY <2>1 DEF IngressRules
  <2> HIDE DEF TableHosts
  <2>5. CASE p.type = "Prefix"
    <3>1. (IF p.path \in {Empty, Root} THEN Root ELSE [p.path EXCEPT !.slash = FALSE]) \in AnyPath
      BY <1>1, <2>2
    <3>2. QED
      BY <2>4, <2>5, <3>1 DEF RuleOf
  <2>6. CASE p.type = "Exact"
    <3>1. OrRoot(p.path) \in AnyPath
      BY <1>1, <2>1 DEF OrRoot
    <3>2. QED
      BY <2>4, <2>6, <3>1 DEF RuleOf
  <2>7. CASE p.type = "glob"
    BY <2>1, <2>3, <2>4, <2>7 DEF RuleOf
  <2>8. CASE p.type = "unset"
    BY <1>1, <2>1, <2>4, <2>8 DEF RuleOf
  <2>9. QED
    BY <2>1, <2>5, <2>6, <2>7, <2>8
<1>4. QED
  BY <1>2, <1>3

\* The new entries are entries, all of them of the object's ingress.
LEMMA NewSetType ==
  ASSUME NEW id \in Ids, NEW object \in Objects, NEW h \in TableHosts
  PROVE  /\ NewSet(id, object, h) \in Seq(Entries)
         /\ Range(NewSet(id, object, h)) \subseteq ById(id)
<1> DEFINE blocks == Keep(object.rules, {r \in Range(object.rules) : r.host = h})
           valid(r) == Keep(r.paths, {p \in Range(r.paths) : ~Ignored(p)})
           new == NewSet(id, object, h)
<1>1. object.rules \in Seq(Rules) /\ object.redirect \in Annotations
  BY ObjectsAssumption
<1>2. Redirect(object) \in BOOLEAN
  BY <1>1, ObjectsAssumption DEF Redirect
<1>3. blocks \in Seq(Rules)
  BY <1>1, KeepType
<1>4. ASSUME NEW r \in Rules
      PROVE  [m \in DOMAIN valid(r) |-> RuleOf(h, valid(r)[m])] \in Seq(IngressRules)
  <2>1. r.paths \in Seq(RulePaths)
    BY DEF Rules
  <2>2. valid(r) \in Seq(RulePaths)
    BY <2>1, KeepType
  <2>3. Range(valid(r)) = Range(r.paths) \cap {p \in Range(r.paths) : ~Ignored(p)}
    BY <2>1, KeepRange
  <2> DEFINE v == valid(r)
  <2>4. ASSUME NEW m \in DOMAIN v PROVE RuleOf(h, v[m]) \in IngressRules
    <3>1. v[m] \in Range(v)
      BY DEF Range
    <3>2. v[m] \in RulePaths /\ ~Ignored(v[m])
      BY <2>2, <2>3, <3>1
    <3>3. QED
      BY <3>2, RuleOfType
  <2>5. DOMAIN v = 1..Len(v) /\ Len(v) \in Nat
    BY <2>2
  <2> HIDE DEF v
  <2>6. [m \in DOMAIN v |-> RuleOf(h, v[m])] \in Seq(IngressRules)
    BY <2>4, <2>5
  <2>7. QED
    BY <2>6 DEF v
<1> DEFINE entry(n) ==
             [id |-> id, httpRedir |-> Redirect(object),
              rules |-> [m \in DOMAIN valid(blocks[n]) |-> RuleOf(h, valid(blocks[n])[m])]]
<1>5. DOMAIN blocks = 1..Len(blocks) /\ Len(blocks) \in Nat
  BY <1>3
<1>6. new = [n \in DOMAIN blocks |-> entry(n)]
  BY DEF NewSet
<1>7. ASSUME NEW n \in DOMAIN blocks PROVE entry(n) \in Entries /\ entry(n).id = id
  <2>1. blocks[n] \in Rules
    BY <1>3
  <2> DEFINE b == blocks[n]
             rs == [m \in DOMAIN valid(b) |-> RuleOf(h, valid(b)[m])]
  <2>2. rs \in Seq(IngressRules)
    <3> HIDE DEF blocks, valid
    <3>1. QED
      BY <1>4, <2>1
  <2>3. entry(n) = [id |-> id, httpRedir |-> Redirect(object), rules |-> rs]
    OBVIOUS
  <2> HIDE DEF rs, entry
  <2>4. QED
    BY <1>2, <2>2, <2>3 DEF Entries
<1> HIDE DEF blocks, entry, new
<1>8. new \in Seq(Entries)
  BY <1>5, <1>6, <1>7
<1>9. \A n \in DOMAIN new : new[n] \in ById(id)
  BY <1>6, <1>7 DEF ById
<1>10. QED
  BY <1>8, <1>9 DEF new, Range

-----------------------------------------------------------------------------
(* Sorting.                                                                  *)

\* Insert puts an entry behind those that are not after it.
Ahead(l, e) == Keep(l, Entries \ {f \in Entries : Less(e.id, f.id)})
Behind(l, e) == Keep(l, {f \in Entries : Less(e.id, f.id)})

\* Insert puts the new entry between those that may stay ahead of it and those that
\* must come after it.
LEMMA InsertParts ==
  ASSUME NEW l \in Seq(Entries), NEW e \in Entries
  PROVE  /\ Insert(l, e) = Append(Ahead(l, e), e) \o Behind(l, e)
         /\ Ahead(l, e) \in Seq(Entries) /\ Behind(l, e) \in Seq(Entries)
         /\ Insert(l, e) \in Seq(Entries)
         /\ Range(Ahead(l, e)) = {d \in Range(l) : ~Less(e.id, d.id)}
         /\ Range(Behind(l, e)) = {d \in Range(l) : Less(e.id, d.id)}
<1> DEFINE later == {f \in Range(l) : Less(e.id, f.id)}
           after == {f \in Entries : Less(e.id, f.id)}
<1>1. Range(l) \subseteq Entries
  BY DEF Range
<1>2. Range(l) \cap later = Range(l) \cap after
  BY <1>1
<1>3. Range(l) \cap (Range(l) \ later) = Range(l) \cap (Entries \ after)
  BY <1>1
<1>4. Keep(l, later) = Keep(l, after)
  BY <1>2, KeepSame
<1>5. Keep(l, Range(l) \ later) = Keep(l, Entries \ after)
  BY <1>3, KeepSame
<1>6. Keep(l, later) = Behind(l, e) /\ Keep(l, Range(l) \ later) = Ahead(l, e)
  BY <1>4, <1>5 DEF Behind, Ahead
<1>7. Insert(l, e) = Append(Ahead(l, e), e) \o Behind(l, e)
  BY <1>6 DEF Insert
<1>8. Ahead(l, e) \in Seq(Entries) /\ Behind(l, e) \in Seq(Entries)
  BY KeepType DEF Ahead, Behind
<1>9. Range(Ahead(l, e)) = Range(l) \cap (Entries \ after) /\ Range(Behind(l, e)) = Range(l) \cap after
  BY KeepRange DEF Ahead, Behind
<1>10. Insert(l, e) \in Seq(Entries)
  BY <1>7, <1>8
<1>11. QED
  BY <1>1, <1>7, <1>8, <1>9, <1>10

\* The entries of an ingress keep their order, and the new one comes last of them.
LEMMA InsertKeeps ==
  ASSUME NEW l \in Seq(Entries), NEW e \in Entries, NEW id \in Ids
  PROVE  Keep(Insert(l, e), ById(id)) = Keep(Append(l, e), ById(id))
<1> DEFINE A == Ahead(l, e)
           B == Behind(l, e)
           after == {f \in Entries : Less(e.id, f.id)}
           K == Keep(l, ById(id))
<1>1. /\ Insert(l, e) = Append(A, e) \o B
      /\ A \in Seq(Entries) /\ B \in Seq(Entries)
  BY InsertParts
<1>2. K \in Seq(Entries)
  BY KeepType
<1>3. Keep(Insert(l, e), ById(id)) = Keep(Append(A, e), ById(id)) \o Keep(B, ById(id))
  <2> HIDE DEF A, B
  <2> DEFINE C == Append(A, e)
  <2>1. C \in Seq(Entries)
    BY <1>1
  <2> HIDE DEF C
  <2>2. Keep(C \o B, ById(id)) = Keep(C, ById(id)) \o Keep(B, ById(id))
    BY <1>1, <2>1, KeepConcat, SMTT(30)
  <2>3. QED
    BY <1>1, <2>2 DEF C
<1>4. Keep(Append(A, e), ById(id))
        = IF e \in ById(id) THEN Append(Keep(A, ById(id)), e) ELSE Keep(A, ById(id))
  <2> HIDE DEF A, B
  <2>1. QED
    BY <1>1, KeepAppend
<1>5. Keep(Append(l, e), ById(id)) = IF e \in ById(id) THEN Append(K, e) ELSE K
  BY KeepAppend
<1>6. Keep(A, ById(id)) = Keep(l, (Entries \ after) \cap ById(id))
  BY KeepKeep DEF Ahead
<1>7. Keep(B, ById(id)) = Keep(l, after \cap ById(id))
  BY KeepKeep DEF Behind
<1>8. e.id \in Ids
  BY DEF Entries
<1>9. CASE Less(e.id, id)
  <2>1. e \notin ById(id)
    BY <1>9, LessOrders DEF ById
  <2>2. (Entries \ after) \cap ById(id) = {} /\ after \cap ById(id) = ById(id)
    BY <1>9 DEF ById
  <2>3. Keep(A, ById(id)) = <<>>
    BY <1>6, <2>2, KeepNone
  <2>4. Keep(B, ById(id)) = K
    BY <1>7, <2>2
  <2> HIDE DEF A, B, K
  <2>5. <<>> \o K = K
    BY <1>2
  <2>6. QED
    BY <1>3, <1>4, <1>5, <2>1, <2>3, <2>4, <2>5
<1>10. CASE ~Less(e.id, id)
  <2>1. (Entries \ after) \cap ById(id) = ById(id) /\ after \cap ById(id) = {}
    BY <1>10 DEF ById
  <2>2. Keep(A, ById(id)) = K
    BY <1>6, <2>1
  <2>3. Keep(B, ById(id)) = <<>>
    BY <1>7, <2>1, KeepNone
  <2> HIDE DEF A, B, K
  <2>4. K \o <<>> = K /\ Append(K, e) \o <<>> = Append(K, e)
    BY <1>2
  <2>5. QED
    BY <1>3, <1>4, <1>5, <2>2, <2>3, <2>4
<1>11. QED
  BY <1>9, <1>10

\* Inserted into a sorted list, it leaves the list sorted.
LEMMA InsertSorted ==
  ASSUME NEW l \in Seq(Entries), NEW e \in Entries, Ordered(l, Before)
  PROVE  Ordered(Insert(l, e), Before)
<1> DEFINE A == Ahead(l, e)
           B == Behind(l, e)
<1>1. /\ Insert(l, e) = Append(A, e) \o B
      /\ A \in Seq(Entries) /\ B \in Seq(Entries)
      /\ Range(A) = {d \in Range(l) : ~Less(e.id, d.id)}
      /\ Range(B) = {d \in Range(l) : Less(e.id, d.id)}
  BY InsertParts
<1>2. Ordered(A, Before) /\ Ordered(B, Before)
  BY KeepOrdered DEF Ahead, Behind
<1>3. Range(l) \subseteq Entries
  BY DEF Range
<1>4. \A d \in Entries : d.id \in Ids
  BY DEF Entries
<1> HIDE DEF A, B
<1>5. \A d \in Range(A) : <<d, e>> \in Before
  BY <1>1, <1>3 DEF Before
<1>6. Ordered(Append(A, e), Before)
  BY <1>1, <1>2, <1>5, AppendOrdered
<1>7. ASSUME NEW d \in Range(Append(A, e)), NEW f \in Range(B) PROVE <<d, f>> \in Before
  <2>1. d \in Range(A) \/ d = e
    BY <1>1, RangeAppend
  <2>2. d \in Entries /\ f \in Entries /\ Less(e.id, f.id) /\ ~Less(e.id, d.id)
    BY <1>1, <1>3, <1>4, <2>1, LessOrders
  <2>3. Less(d.id, f.id)
    BY <1>4, <2>2, LessOrders
  <2>4. ~Less(f.id, d.id)
    BY <1>4, <2>2, <2>3, LessOrders
  <2>5. QED
    BY <2>2, <2>4 DEF Before
<1>8. Append(A, e) \in Seq(Entries)
  BY <1>1
<1>9. QED
  BY <1>1, <1>2, <1>6, <1>7, <1>8, ConcatOrdered

\* One entry at a time: s[n] is the first n of them, sorted.
Sorting(s, l) ==
  s = [n \in 0..Len(l) |-> IF n = 0 THEN <<>> ELSE Insert(s[n - 1], l[n])]

\* Sort's recursion is defined for every list.
LEMMA SortingExists ==
  ASSUME NEW l \in Seq(Entries)
  PROVE  \E s : Sorting(s, l)
<1> DEFINE N == Len(l)
           L == Seq(Entries)
           base == <<>>
           g == [x \in L \X (1..N) |-> Insert(x[1], l[x[2]])]
<1>1. N \in Nat /\ base \in L
  OBVIOUS
<1>2. \A n \in 1..N : l[n] \in Entries
  OBVIOUS
<1>3. \A s \in L : \A n \in 1..N : Insert(s, l[n]) \in L
  BY <1>2, InsertParts
<1>4. g \in [L \X (1..N) -> L]
  <2> HIDE DEF L, N
  <2>1. \A x \in L \X (1..N) : Insert(x[1], l[x[2]]) \in L
    BY <1>3
  <2>2. QED
    BY <2>1
<1>5. \A s \in L : \A n \in 1..N : g[<<s, n>>] = Insert(s, l[n])
  <2> HIDE DEF L, N
  <2>1. QED
    OBVIOUS
<1>6. Steps(g, L, N)
  BY <1>4 DEF Steps
<1> HIDE DEF g, L, N, base
<1>7. PICK s \in [0..N -> L] : Follows(s, base, g, N)
  BY <1>1, <1>6, Recursion
<1>8. ASSUME NEW n \in 0..N PROVE s[n] = IF n = 0 THEN <<>> ELSE Insert(s[n - 1], l[n])
  <2>1. CASE n = 0
    BY <1>7, <2>1 DEF Follows, base
  <2>2. CASE n # 0
    <3>1. n \in 1..N /\ s[n - 1] \in L
      BY <1>1, <2>2
    <3>2. QED
      BY <1>5, <1>7, <2>2, <3>1 DEF Follows
  <2>3. QED
    BY <2>1, <2>2
<1>9. s = [n \in 0..N |-> IF n = 0 THEN <<>> ELSE Insert(s[n - 1], l[n])]
  BY <1>8
<1>10. QED
  BY <1>9 DEF Sorting, N

\* What sort.Sort is relied on for: the order, and each ingress's own.
LEMMA SortSorts ==
  ASSUME NEW l \in Seq(Entries)
  PROVE  /\ Sort(l) \in Seq(Entries)
         /\ Ordered(Sort(l), Before)
         /\ \A id \in Ids : Keep(Sort(l), ById(id)) = Keep(l, ById(id))
<1> DEFINE s == CHOOSE x : Sorting(x, l)
<1>1. Sorting(s, l)
  BY SortingExists
<1>2. Sort(l) = s[Len(l)]
  BY DEF Sort, Sorting
<1> HIDE DEF s
<1> DEFINE P == {n \in 0..Len(l) : /\ s[n] \in Seq(Entries)
                                   /\ Ordered(s[n], Before)
                                   /\ \A id \in Ids : Keep(s[n], ById(id))
                                                        = Keep(SubSeq(l, 1, n), ById(id))}
<1>3. Len(l) \in Nat /\ SubSeq(l, 1, Len(l)) = l /\ SubSeq(l, 1, 0) = <<>>
  OBVIOUS
<1>4. 0 \in P
  <2>1. s[0] = <<>> /\ 0 \in 0..Len(l)
    BY <1>1, <1>3 DEF Sorting
  <2>2. Ordered(<<>>, Before) /\ <<>> \in Seq(Entries)
    BY DEF Ordered
  <2>3. QED
    BY <1>3, <2>1, <2>2
<1>5. ASSUME NEW n \in 1..Len(l), n - 1 \in P PROVE n \in P
  <2> DEFINE t == s[n - 1]
             u == SubSeq(l, 1, n - 1)
  <2>1. /\ t \in Seq(Entries) /\ Ordered(t, Before)
        /\ \A id \in Ids : Keep(t, ById(id)) = Keep(u, ById(id))
    BY <1>5
  <2>2. l[n] \in Entries /\ u \in Seq(Entries) /\ SubSeq(l, 1, n) = Append(u, l[n])
    OBVIOUS
  <2>3. n \in 0..Len(l) /\ n # 0
    BY <1>3
  <2>4. s[n] = Insert(t, l[n])
    BY <1>1, <2>3 DEF Sorting
  <2> HIDE DEF t, u
  <2>5. s[n] \in Seq(Entries)
    BY <2>1, <2>2, <2>4, InsertParts
  <2>6. Ordered(s[n], Before)
    BY <2>1, <2>2, <2>4, InsertSorted
  <2>7. ASSUME NEW id \in Ids PROVE Keep(s[n], ById(id)) = Keep(SubSeq(l, 1, n), ById(id))
    <3>1. Keep(s[n], ById(id)) = Keep(Append(t, l[n]), ById(id))
      BY <2>1, <2>2, <2>4, InsertKeeps
    <3> DEFINE e == l[n]
    <3>2. Keep(Append(t, e), ById(id)) = Keep(Append(u, e), ById(id))
      <4>1. e \in Entries /\ Keep(t, ById(id)) = Keep(u, ById(id))
        BY <2>1, <2>2
      <4> HIDE DEF e
      <4>2. /\ Keep(Append(t, e), ById(id))
                 = IF e \in ById(id) THEN Append(Keep(t, ById(id)), e) ELSE Keep(t, ById(id))
            /\ Keep(Append(u, e), ById(id))
                 = IF e \in ById(id) THEN Append(Keep(u, ById(id)), e) ELSE Keep(u, ById(id))
        BY <2>1, <2>2, <4>1, KeepAppend
      <4>3. QED
        BY <4>1, <4>2
    <3>3. QED
      BY <2>2, <3>1, <3>2
  <2>8. QED
    BY <2>3, <2>5, <2>6, <2>7
<1>6. Len(l) \in P
  <2> HIDE DEF P
  <2>1. QED
    BY <1>3, <1>4, <1>5, UpTo
<1>7. QED
  BY <1>2, <1>3, <1>6

-----------------------------------------------------------------------------
(* The table is typed, and canonical.                                        *)

\* OwnOf and OthersOf keep what is, and what is not, an ingress's own.
LEMMA OwnAndOthers ==
  ASSUME NEW l \in Seq(Entries), NEW id \in Ids
  PROVE  OwnOf(l, id) = Keep(l, ById(id)) /\ OthersOf(l, id) = Keep(l, Entries \ ById(id))
<1>1. Range(l) \subseteq Entries
  BY DEF Range
<1>2. Range(l) \cap {e \in Range(l) : e.id = id} = Range(l) \cap ById(id)
  BY <1>1 DEF ById
<1>3. Range(l) \cap {e \in Range(l) : e.id # id} = Range(l) \cap (Entries \ ById(id))
  BY <1>1 DEF ById
<1>4. QED
  BY <1>2, <1>3, KeepSame DEF OwnOf, OthersOf

\* The others' entries are all but the ingress's, and in their order.
LEMMA OthersKeep ==
  ASSUME NEW l \in Seq(Entries), NEW id \in Ids
  PROVE  /\ OthersOf(l, id) \in Seq(Entries)
         /\ Ordered(l, Before) => Ordered(OthersOf(l, id), Before)
         /\ Keep(OthersOf(l, id), ById(id)) = <<>>
         /\ \A j \in Ids \ {id} : Keep(OthersOf(l, id), ById(j)) = Keep(l, ById(j))
<1> DEFINE others == OthersOf(l, id)
<1>1. others = Keep(l, Entries \ ById(id))
  BY OwnAndOthers
<1>2. (Entries \ ById(id)) \cap ById(id) = {}
  OBVIOUS
<1>3. \A j \in Ids \ {id} : (Entries \ ById(id)) \cap ById(j) = ById(j)
  BY DEF ById
<1>4. others \in Seq(Entries)
  BY <1>1, KeepType
<1>5. Ordered(l, Before) => Ordered(others, Before)
  BY <1>1, KeepOrdered
<1>6. Keep(others, ById(id)) = <<>>
  <2>1. Keep(others, ById(id)) = Keep(l, (Entries \ ById(id)) \cap ById(id))
    BY <1>1, KeepKeep
  <2>2. QED
    BY <1>2, <2>1, KeepNone
<1>7. ASSUME NEW j \in Ids \ {id} PROVE Keep(others, ById(j)) = Keep(l, ById(j))
  <2>1. Keep(others, ById(j)) = Keep(l, (Entries \ ById(id)) \cap ById(j))
    BY <1>1, KeepKeep
  <2>2. QED
    BY <1>3, <2>1
<1>8. QED
  BY <1>4, <1>5, <1>6, <1>7

\* What update makes of a host's entries: the ingress's are the new ones, each of
\* the others' stay, and all are sorted.
LEMMA Updated ==
  ASSUME NEW l \in Seq(Entries), NEW id \in Ids, NEW new \in Seq(Entries),
         Range(new) \subseteq ById(id), Ordered(l, Before),
         NEW m, m = IF new = <<>> THEN OthersOf(l, id) ELSE Sort(OthersOf(l, id) \o new)
  PROVE  /\ m \in Seq(Entries) /\ Ordered(m, Before)
         /\ Keep(m, ById(id)) = new
         /\ \A j \in Ids \ {id} : Keep(m, ById(j)) = Keep(l, ById(j))
<1> DEFINE others == OthersOf(l, id)
<1>1. /\ others \in Seq(Entries) /\ Ordered(others, Before)
      /\ Keep(others, ById(id)) = <<>>
      /\ \A j \in Ids \ {id} : Keep(others, ById(j)) = Keep(l, ById(j))
  BY OthersKeep
<1>2. Keep(new, ById(id)) = new
  BY KeepAll
<1>3. ASSUME NEW j \in Ids \ {id} PROVE Keep(new, ById(j)) = <<>>
  <2>1. Range(new) \cap ById(j) = {}
    BY DEF ById
  <2>2. QED
    BY <2>1, KeepNone
<1> HIDE DEF others
<1>4. CASE new = <<>>
  BY <1>1, <1>4 DEF others
<1>5. CASE new # <<>>
  <2> DEFINE all == others \o new
  <2>1. all \in Seq(Entries) /\ m = Sort(all)
    BY <1>1, <1>5 DEF others
  <2>2. \A j \in Ids : Keep(all, ById(j)) = Keep(others, ById(j)) \o Keep(new, ById(j))
    BY <1>1, KeepConcat, SMTT(30)
  <2> HIDE DEF all
  <2>3. /\ m \in Seq(Entries) /\ Ordered(m, Before)
        /\ \A j \in Ids : Keep(m, ById(j)) = Keep(all, ById(j))
    BY <2>1, SortSorts
  <2>4. Keep(m, ById(id)) = new
    <3>1. <<>> \o new = new
      OBVIOUS
    <3>2. QED
      BY <1>1, <1>2, <2>2, <2>3, <3>1
  <2>5. ASSUME NEW j \in Ids \ {id} PROVE Keep(m, ById(j)) = Keep(l, ById(j))
    <3> DEFINE k == Keep(l, ById(j))
    <3>1. k \in Seq(Entries)
      BY KeepType
    <3>2. Keep(m, ById(j)) = k \o <<>>
      BY <1>1, <1>3, <2>2, <2>3
    <3> HIDE DEF k
    <3>3. k \o <<>> = k
      BY <3>1
    <3>4. QED
      BY <3>2, <3>3 DEF k
  <2>6. QED
    BY <2>3, <2>4, <2>5
<1>6. QED
  BY <1>4, <1>5

\* The inductive invariant: Canonical, said with ById and Before.
Held(id, h) == IF ours[id] = NoIngress THEN <<>> ELSE NewSet(id, ours[id], h)
Kept == \A h \in TableHosts : /\ Ordered(set[h], Before)
                              /\ \A id \in Ids : Keep(set[h], ById(id)) = Held(id, h)
IInv == TypeOK /\ Kept

\* The empty table is sorted and has the entries of no ingress.
LEMMA InitIInv == Init => IInv
<1> SUFFICES ASSUME Init PROVE IInv
  OBVIOUS
<1> USE DEF Init
<1>1. TypeOK
  BY DEF TypeOK
<1>2. ASSUME NEW h \in TableHosts PROVE Ordered(set[h], Before)
  BY DEF Ordered, TableHosts
<1>3. ASSUME NEW h \in TableHosts, NEW id \in Ids PROVE Keep(set[h], ById(id)) = Held(id, h)
  <2>1. set[h] = <<>> /\ Held(id, h) = <<>>
    BY DEF TableHosts, Held
  <2>2. QED
    BY <2>1, KeepEmpty
<1>4. QED
  BY <1>1, <1>2, <1>3 DEF IInv, Kept

\* One host's entries after an ingress of our class.
LEMMA UpdateHost ==
  ASSUME IInv, NEW id \in Ids, NEW object \in Objects, Update(id, object),
         NEW h \in TableHosts
  PROVE  /\ set'[h] \in Seq(Entries) /\ Ordered(set'[h], Before)
         /\ Keep(set'[h], ById(id)) = NewSet(id, object, h)
         /\ \A j \in Ids \ {id} : Keep(set'[h], ById(j)) = Keep(set[h], ById(j))
<1> DEFINE new == NewSet(id, object, h)
           l == set[h]
<1>1. DOMAIN set = TableHosts /\ l \in Seq(Entries)
  BY DEF IInv, TypeOK, TableHosts
<1>2. Ordered(l, Before)
  BY DEF IInv, Kept
<1>3. set'[h] = IF new = <<>> THEN OthersOf(l, id) ELSE Sort(OthersOf(l, id) \o new)
  BY <1>1 DEF Update
<1>4. new \in Seq(Entries) /\ Range(new) \subseteq ById(id)
  BY NewSetType
<1> DEFINE m == set'[h]
<1> HIDE DEF l, new, m
<1>5. m = IF new = <<>> THEN OthersOf(l, id) ELSE Sort(OthersOf(l, id) \o new)
  BY <1>3 DEF m
<1>6. /\ m \in Seq(Entries) /\ Ordered(m, Before)
      /\ Keep(m, ById(id)) = new
      /\ \A j \in Ids \ {id} : Keep(m, ById(j)) = Keep(l, ById(j))
  BY <1>1, <1>2, <1>4, <1>5, Updated
<1>7. QED
  BY <1>6 DEF l, new, m

\* Adding an object replaces the entries of its ingress and leaves the others'.
LEMMA NextIInv == IInv /\ [Next]_vars => IInv'
<1> SUFFICES ASSUME IInv, [Next]_vars PROVE IInv'
  OBVIOUS
<1>1. CASE UNCHANGED vars
  BY <1>1 DEF vars, IInv, TypeOK, Kept, Held
<1>2. ASSUME NEW id \in Ids, NEW object \in Objects, AddItem(id, object) PROVE IInv'
  <2>1. applied' \in [Ids -> Objects \cup {NoIngress}]
    BY <1>2 DEF IInv, TypeOK, AddItem
  <2>2. CASE ~object.ours
    <3>1. UNCHANGED <<set, ours>>
      BY <1>2, <2>2 DEF AddItem
    <3>2. TypeOK'
      BY <2>1, <3>1 DEF IInv, TypeOK
    <3>3. Kept'
      BY <3>1 DEF IInv, Kept, Held
    <3>4. QED
      BY <3>2, <3>3 DEF IInv
  <2>3. CASE object.ours
    <3>1. Update(id, object) /\ ours' = [ours EXCEPT ![id] = object]
      BY <1>2, <2>3 DEF AddItem
    <3>2. DOMAIN set' = TableHosts /\ set' = [h \in TableHosts |-> set'[h]]
      BY <3>1 DEF Update, IInv, TypeOK, TableHosts
    <3>3. \A h \in TableHosts : set'[h] \in Seq(Entries)
      BY <3>1, UpdateHost
    <3>4. set' \in [Hosts \cup {NoHost} -> Seq(Entries)]
      BY <3>2, <3>3 DEF TableHosts
    <3>5. ours' \in [Ids -> Objects \cup {NoIngress}]
      BY <3>1 DEF IInv, TypeOK
    <3>6. ASSUME NEW h \in TableHosts PROVE Ordered(set'[h], Before)
      BY <3>1, UpdateHost
    <3>7. ASSUME NEW h \in TableHosts, NEW j \in Ids
          PROVE  Keep(set'[h], ById(j)) = Held(j, h)'
      <4>1. CASE j = id
        <5>1. ours'[id] = object /\ object # NoIngress
          BY <3>1, NoneAssumption DEF IInv, TypeOK
        <5>2. Held(id, h)' = NewSet(id, object, h)
          BY <5>1 DEF Held
        <5>3. QED
          BY <3>1, <4>1, <5>2, UpdateHost
      <4>2. CASE j # id
        <5>1. ours'[j] = ours[j]
          BY <3>1, <4>2 DEF IInv, TypeOK
        <5>2. Held(j, h)' = Held(j, h)
          BY <5>1 DEF Held
        <5>3. Keep(set[h], ById(j)) = Held(j, h)
          BY DEF IInv, Kept
        <5>4. Keep(set'[h], ById(j)) = Keep(set[h], ById(j))
          BY <3>1, <4>2, UpdateHost
        <5>5. QED
          BY <5>2, <5>3, <5>4
      <4>3. QED
        BY <4>1, <4>2
    <3>8. TypeOK'
      BY <2>1, <3>4, <3>5 DEF TypeOK
    <3>9. Kept'
      BY <3>6, <3>7 DEF Kept
    <3>10. QED
      BY <3>8, <3>9 DEF IInv
  <2>4. QED
    BY <2>2, <2>3
<1>3. QED
  BY <1>1, <1>2 DEF Next

\* The invariant holds in every state.
LEMMA IInvHolds == Spec => []IInv
  BY InitIInv, NextIInv, PTL DEF Spec

\* The variables' types: no rule in the table is one that matchRule does not know,
\* or that has a regular expression that did not compile.
THEOREM TypeOKHolds == Spec => []TypeOK
<1>1. IInv => TypeOK
  BY DEF IInv
<1>2. QED
  BY <1>1, IInvHolds, PTL

\* The table holds, whatever its history, the entries of the last of our versions
\* of each ingress, sorted by name and namespace.
THEOREM CanonicalHolds == Spec => []Canonical
<1>1. ASSUME IInv PROVE Canonical
  <2>1. DOMAIN set = TableHosts /\ \A h \in TableHosts : set[h] \in Seq(Entries)
    BY <1>1 DEF IInv, TypeOK, TableHosts
  <2>2. ASSUME NEW h \in TableHosts, NEW id \in Ids
        PROVE  OwnOf(set[h], id) = IF ours[id] = NoIngress THEN <<>> ELSE NewSet(id, ours[id], h)
    <3>1. OwnOf(set[h], id) = Keep(set[h], ById(id))
      BY <2>1, OwnAndOthers
    <3>2. QED
      BY <1>1, <3>1 DEF IInv, Kept, Held
  <2>3. ASSUME NEW h \in TableHosts, NEW m \in DOMAIN set[h], NEW n \in DOMAIN set[h], m < n
        PROVE  ~Less(set[h][n].id, set[h][m].id)
    <3>1. <<set[h][m], set[h][n]>> \in Before
      BY <1>1, <2>3 DEF IInv, Kept, Ordered
    <3>2. QED
      BY <3>1 DEF Before
  <2>4. QED
    BY <2>1, <2>2, <2>3 DEF Canonical
<1>2. QED
  BY <1>1, IInvHolds, PTL

-----------------------------------------------------------------------------
(* The answer from a host's entries.                                         *)

\* What a match is, and what has been found in a list of rules so far.
Matches == [len : Nat, exact : BOOLEAN]
Found == [rule : IngressRules \cup {NoRule}, len : Nat]

\* A path has a length,
LEMMA LengthType ==
  ASSUME NEW path \in AnyPath
  PROVE  Length(path) \in Nat
<1> DEFINE n == Len(path.segs)
           k == IF path.slash THEN 1 ELSE 0
<1>1. n \in Nat
  BY DEF AnyPath
<1>2. k \in Nat
  OBVIOUS
<1>3. Length(path) = 2 * n + k
  BY DEF Length
<1> HIDE DEF n, k
<1>4. QED
  BY <1>1, <1>2, <1>3

\* and a match is a length and a truth value.
LEMMA PrefixMatchType ==
  ASSUME NEW path \in AnyPath, NEW q \in AnyPath
  PROVE  PrefixMatch(path, q) \in Matches
<1>1. Length(path) \in Nat /\ Length(path) + 1 \in Nat
  BY LengthType
<1>2. \A n \in Nat : \A b \in BOOLEAN : Matched(n, b) \in Matches
  BY DEF Matched, Matches
<1>3. Matched(Length(path), FALSE) \in Matches /\ Matched(Length(path) + 1, FALSE) \in Matches
  BY <1>1, <1>2
<1>4. Unmatched \in Matches /\ Matched(1, FALSE) \in Matches
  BY <1>2 DEF Unmatched
<1>5. QED
  BY <1>3, <1>4 DEF PrefixMatch

\* So is the match of any rule of the table.
LEMMA MatchType ==
  ASSUME NEW rule \in IngressRules, NEW host \in TableHosts, NEW q \in Paths
  PROVE  Match(rule, host, q) \in Matches
<1>1. q \in AnyPath
  BY PathsAssumption
<1>2. \A path \in AnyPath : Length(path) \in Nat
  BY LengthType
<1>3. \A n \in Nat : \A b \in BOOLEAN : Matched(n, b) \in Matches
  BY DEF Matched, Matches
<1>4. Unmatched \in Matches
  BY <1>3 DEF Unmatched
<1>5. CASE rule.host \notin {NoHost, host}
  BY <1>4, <1>5 DEF Match
<1>6. CASE rule.host \in {NoHost, host} /\ rule.type = "re2"
  <2>1. rule.path \in Regexps
    BY <1>6 DEF IngressRules
  <2>2. ReMatch[<<rule.path, q>>] \in Nat
    BY <2>1, PathsAssumption
  <2>3. Match(rule, host, q) = Matched(ReMatch[<<rule.path, q>>], FALSE)
    BY <1>6 DEF Match
  <2>4. QED
    BY <1>3, <2>2, <2>3
<1>7. CASE rule.host \in {NoHost, host} /\ rule.type # "re2"
  <2>1. rule.path \in AnyPath /\ rule.type \in {"prefix", "exact", "glob"}
    BY <1>7 DEF IngressRules
  <2>2. PrefixMatch(rule.path, q) \in Matches
    BY <1>1, <2>1, PrefixMatchType
  <2>3. GlobMatch(rule.path, q) \in Matches
    <3> DEFINE path == rule.path
               sub == Front(path.segs)
    <3>1. CASE path.segs # <<>> /\ Last(path.segs) = Star /\ ~path.slash
      <4>1. sub \in Seq(Segments)
        <5>1. path.segs \in Seq(Segments) /\ path.segs # <<>>
          BY <2>1, <3>1 DEF AnyPath
        <5>2. QED
          BY <5>1 DEF Front
      <4>2. (IF sub = <<>> THEN Root ELSE [segs |-> sub, slash |-> FALSE]) \in AnyPath
        BY <4>1 DEF AnyPath, Root
      <4>3. QED
        BY <1>1, <3>1, <4>2, PrefixMatchType DEF GlobMatch
    <3>2. CASE ~(path.segs # <<>> /\ Last(path.segs) = Star /\ ~path.slash)
      <4>1. Matched(Length(path), FALSE) \in Matches /\ Matched(Length(q), FALSE) \in Matches
        BY <1>1, <1>2, <1>3, <2>1
      <4>2. QED
        BY <1>4, <3>2, <4>1 DEF GlobMatch
    <3>3. QED
      BY <3>1, <3>2
  <2>4. Matched(Length(q), TRUE) \in Matches
    BY <1>1, <1>2, <1>3
  <2>5. CASE rule.type = "prefix"
    BY <1>7, <2>2, <2>5 DEF Match
  <2>6. CASE rule.type = "glob"
    BY <1>7, <2>3, <2>6 DEF Match
  <2>7. CASE rule.type = "exact"
    BY <1>4, <1>7, <2>4, <2>7 DEF Match
  <2>8. QED
    BY <2>1, <2>5, <2>6, <2>7
<1>8. QED
  BY <1>5, <1>6, <1>7

\* The loop over an entry's rules: b[n] is the best of the first n.
Better(b, r, host, q) ==
  LET m == Match(r, host, q)
  IN  IF m.len > b.len \/ (m.len = b.len /\ m.exact) THEN [rule |-> r, len |-> m.len] ELSE b
Choosing(b, rules, host, q) ==
  b = [n \in 0..Len(rules) |-> IF n = 0 THEN NoMatch ELSE Better(b[n - 1], rules[n], host, q)]

\* Best's loop goes from one rule found to another,
LEMMA BetterType ==
  ASSUME NEW b \in Found, NEW r \in IngressRules, NEW host \in TableHosts, NEW q \in Paths
  PROVE  Better(b, r, host, q) \in Found
<1>1. Match(r, host, q).len \in Nat
  BY MatchType DEF Matches
<1>2. QED
  BY <1>1 DEF Better, Found

\* and is defined for all rules.
LEMMA ChoosingExists ==
  ASSUME NEW rules \in Seq(IngressRules), NEW host \in TableHosts, NEW q \in Paths
  PROVE  \E b : Choosing(b, rules, host, q)
<1> DEFINE N == Len(rules)
           g == [x \in Found \X (1..N) |-> Better(x[1], rules[x[2]], host, q)]
<1>1. N \in Nat /\ NoMatch \in Found
  BY DEF NoMatch, Found
<1>2. \A n \in 1..N : rules[n] \in IngressRules
  OBVIOUS
<1>3. \A b \in Found : \A n \in 1..N : Better(b, rules[n], host, q) \in Found
  BY <1>2, BetterType
<1> HIDE DEF N
<1>4. g \in [Found \X (1..N) -> Found]
  <2>1. \A x \in Found \X (1..N) : Better(x[1], rules[x[2]], host, q) \in Found
    BY <1>3
  <2>2. QED
    BY <2>1
<1>5. \A b \in Found : \A n \in 1..N : g[<<b, n>>] = Better(b, rules[n], host, q)
  OBVIOUS
<1>6. Steps(g, Found, N)
  BY <1>4 DEF Steps
<1> HIDE DEF g
<1>7. PICK b \in [0..N -> Found] : Follows(b, NoMatch, g, N)
  BY <1>1, <1>6, Recursion
<1>8. ASSUME NEW n \in 0..N
      PROVE  b[n] = IF n = 0 THEN NoMatch ELSE Better(b[n - 1], rules[n], host, q)
  <2>1. CASE n = 0
    BY <1>7, <2>1 DEF Follows
  <2>2. CASE n # 0
    <3>1. n \in 1..N /\ b[n - 1] \in Found
      BY <1>1, <2>2
    <3>2. QED
      BY <1>5, <1>7, <2>2, <3>1 DEF Follows
  <2>3. QED
    BY <2>1, <2>2
<1>9. b = [n \in 0..N |-> IF n = 0 THEN NoMatch ELSE Better(b[n - 1], rules[n], host, q)]
  BY <1>8
<1>10. QED
  BY <1>9 DEF Choosing, N

\* One match is no better than another; and what the loop has found is the best of
\* the rules it has seen, or none when none of them matches.
NoBetter(m, best) == m.len < best.len \/ (m.len = best.len /\ (m.exact => best.exact))
BestOf(b, rules, host, q) ==
  \/ /\ b = NoMatch
     /\ \A r \in Range(rules) : Match(r, host, q).len = 0 /\ ~Match(r, host, q).exact
  \/ /\ b.rule \in Range(rules)
     /\ b.len = Match(b.rule, host, q).len
     /\ \A r \in Range(rules) : NoBetter(Match(r, host, q), Match(b.rule, host, q))

\* One more rule: the better of it and the best so far is the best.
LEMMA BetterIsBest ==
  ASSUME NEW rules \in Seq(IngressRules), NEW r \in IngressRules,
         NEW host \in TableHosts, NEW q \in Paths, NEW b, BestOf(b, rules, host, q)
  PROVE  BestOf(Better(b, r, host, q), Append(rules, r), host, q)
<1> DEFINE m(x) == Match(x, host, q)
<1>1. Range(Append(rules, r)) = Range(rules) \cup {r}
  BY RangeAppend
<1>2. \A x \in IngressRules : m(x).len \in Nat /\ m(x).exact \in BOOLEAN
  BY MatchType DEF Matches
<1>3. Range(rules) \subseteq IngressRules
  BY DEF Range
<1>4. \A x \in Range(rules) \cup {r} : m(x).len \in Nat /\ m(x).exact \in BOOLEAN
  BY <1>2, <1>3
<1> HIDE DEF m
<1> DEFINE c == Better(b, r, host, q)
           better == m(r).len > b.len \/ (m(r).len = b.len /\ m(r).exact)
<1>5. c = IF better THEN [rule |-> r, len |-> m(r).len] ELSE b
  BY DEF Better, m
<1>6. \/ b = NoMatch /\ \A x \in Range(rules) : m(x).len = 0 /\ ~m(x).exact
      \/ /\ b.rule \in Range(rules) /\ b.len = m(b.rule).len
         /\ \A x \in Range(rules) : NoBetter(m(x), m(b.rule))
  BY DEF BestOf, m
<1>7. SUFFICES \/ c = NoMatch /\ \A x \in Range(rules) \cup {r} : m(x).len = 0 /\ ~m(x).exact
               \/ /\ c.rule \in Range(rules) \cup {r} /\ c.len = m(c.rule).len
                  /\ \A x \in Range(rules) \cup {r} : NoBetter(m(x), m(c.rule))
  BY <1>1 DEF BestOf, m
<1> HIDE DEF c
<1>8. CASE b = NoMatch /\ \A x \in Range(rules) : m(x).len = 0 /\ ~m(x).exact
  <2>1. b.len = 0
    BY <1>8 DEF NoMatch
  <2>2. CASE better
    <3>1. c.rule = r /\ c.len = m(r).len
      BY <1>5, <2>2
    <3>2. \A x \in Range(rules) \cup {r} : NoBetter(m(x), m(r))
      BY <1>4, <1>8 DEF NoBetter
    <3>3. QED
      BY <3>1, <3>2
  <2>3. CASE ~better
    <3>1. m(r).len = 0 /\ ~m(r).exact
      BY <1>4, <2>1, <2>3
    <3>2. QED
      BY <1>5, <1>8, <2>3, <3>1
  <2>4. QED
    BY <2>2, <2>3
<1>9. CASE /\ b.rule \in Range(rules) /\ b.len = m(b.rule).len
           /\ \A x \in Range(rules) : NoBetter(m(x), m(b.rule))
  <2>1. CASE better
    <3>1. c.rule = r /\ c.len = m(r).len
      BY <1>5, <2>1
    <3>2. \A x \in Range(rules) \cup {r} : NoBetter(m(x), m(r))
      BY <1>4, <1>9, <2>1 DEF NoBetter
    <3>3. QED
      BY <3>1, <3>2
  <2>2. CASE ~better
    <3>1. NoBetter(m(r), m(b.rule))
      BY <1>4, <1>9, <2>2 DEF NoBetter
    <3>2. QED
      BY <1>5, <1>9, <2>2, <3>1
  <2>3. QED
    BY <2>1, <2>2
<1>10. QED
  BY <1>6, <1>8, <1>9

\* The rule the loop returns, by its definition.
LEMMA BestIsBest ==
  ASSUME NEW rules \in Seq(IngressRules), NEW host \in TableHosts, NEW q \in Paths
  PROVE  LET best == Best(rules, host, q)
         IN  \/ /\ best = NoRule
                /\ \A r \in Range(rules) : Match(r, host, q).len = 0
             \/ /\ best # NoRule /\ best \in Range(rules)
                /\ \A r \in Range(rules) : NoBetter(Match(r, host, q), Match(best, host, q))
<1> DEFINE b == CHOOSE x : Choosing(x, rules, host, q)
<1>1. Choosing(b, rules, host, q)
  BY ChoosingExists
<1>2. Best(rules, host, q) = b[Len(rules)].rule
  BY DEF Best, Choosing, Better
<1> HIDE DEF b
<1> DEFINE P == {n \in 0..Len(rules) : BestOf(b[n], SubSeq(rules, 1, n), host, q)}
<1>3. Len(rules) \in Nat /\ SubSeq(rules, 1, Len(rules)) = rules /\ SubSeq(rules, 1, 0) = <<>>
  OBVIOUS
<1>4. 0 \in P
  <2>1. b[0] = NoMatch /\ 0 \in 0..Len(rules)
    BY <1>1, <1>3 DEF Choosing
  <2>2. Range(<<>>) = {}
    BY DEF Range
  <2>3. QED
    BY <1>3, <2>1, <2>2 DEF BestOf
<1>5. ASSUME NEW n \in 1..Len(rules), n - 1 \in P PROVE n \in P
  <2> DEFINE s == SubSeq(rules, 1, n - 1)
             r == rules[n]
             c == b[n - 1]
  <2>1. r \in IngressRules /\ s \in Seq(IngressRules) /\ SubSeq(rules, 1, n) = Append(s, r)
    OBVIOUS
  <2>2. n \in 0..Len(rules) /\ n # 0
    BY <1>3
  <2>3. b[n] = Better(c, r, host, q)
    BY <1>1, <2>2 DEF Choosing
  <2>4. BestOf(c, s, host, q)
    BY <1>5
  <2> HIDE DEF s, r, c
  <2>5. BestOf(b[n], Append(s, r), host, q)
    BY <2>1, <2>3, <2>4, BetterIsBest
  <2>6. QED
    BY <2>1, <2>2, <2>5
<1>6. Len(rules) \in P
  <2> HIDE DEF P
  <2>1. QED
    BY <1>3, <1>4, <1>5, UpTo
<1>7. BestOf(b[Len(rules)], rules, host, q)
  BY <1>3, <1>6
<1>8. NoRule \notin Range(rules)
  BY NoneAssumption DEF Range
<1>9. QED
  BY <1>2, <1>7, <1>8 DEF BestOf, NoMatch

\* The entries that have a rule for a request; the first of them answers.
Matching(host, q) == {e \in Entries : Best(e.rules, host, q) # NoRule}

\* GroupAnswer takes the first of the entries with a rule that matches.
LEMMA GroupAnswerIs ==
  ASSUME NEW l \in Seq(Entries), NEW host, NEW q
  PROVE  LET first == Head(Keep(l, Matching(host, q)))
         IN  GroupAnswer(l, host, q) =
               IF Keep(l, Matching(host, q)) = <<>> THEN NoAnswer
               ELSE [id |-> first.id, httpRedir |-> first.httpRedir,
                     rule |-> Best(first.rules, host, q)]
<1> DEFINE some == {e \in Range(l) : Best(e.rules, host, q) # NoRule}
<1>1. Range(l) \cap some = Range(l) \cap Matching(host, q)
  BY DEF Range, Matching
<1>2. Keep(l, some) = Keep(l, Matching(host, q))
  BY <1>1, KeepSame
<1>3. QED
  BY <1>2 DEF GroupAnswer

\* The rule that answers is of the first entry that has one, and the best of its
\* rules; without an answer nothing matches.
THEOREM MostSpecificHolds == Spec => []MostSpecific
<1>1. ASSUME IInv PROVE MostSpecific
  <2> SUFFICES ASSUME NEW g \in TableHosts, NEW host \in TableHosts, NEW q \in Paths
               PROVE  LET a == GroupAnswer(set[g], host, q)
                          Len0(n) == \A r \in Range(set[g][n].rules) : Match(r, host, q).len = 0
                      IN  IF a = NoAnswer THEN \A n \in DOMAIN set[g] : Len0(n)
                          ELSE \E n \in DOMAIN set[g] :
                                 /\ a.id = set[g][n].id
                                 /\ a.rule \in Range(set[g][n].rules)
                                 /\ \A m \in 1..n - 1 : Len0(m)
                                 /\ \A r \in Range(set[g][n].rules) :
                                      LET m == Match(r, host, q)
                                          best == Match(a.rule, host, q)
                                      IN  m.len < best.len \/ (m.len = best.len /\ (m.exact => best.exact))
    <3>1. DOMAIN set = TableHosts
      BY <1>1 DEF IInv, TypeOK, TableHosts
    <3>2. QED
      BY <3>1 DEF MostSpecific
  <2> DEFINE l == set[g]
             a == GroupAnswer(l, host, q)
             S == Matching(host, q)
  <2>1. l \in Seq(Entries)
    BY <1>1 DEF IInv, TypeOK, TableHosts
  <2>2. \A n \in DOMAIN l : l[n] \in Entries /\ l[n].rules \in Seq(IngressRules)
    <3>1. \A n \in DOMAIN l : l[n] \in Entries
      <4> HIDE DEF l
      <4>1. QED
        BY <2>1
    <3>2. \A e \in Entries : e.rules \in Seq(IngressRules)
      BY DEF Entries
    <3>3. QED
      BY <3>1, <3>2
  <2>3. ASSUME NEW n \in DOMAIN l, l[n] \notin S
        PROVE  \A r \in Range(l[n].rules) : Match(r, host, q).len = 0
    <3>1. Best(l[n].rules, host, q) = NoRule
      BY <2>2, <2>3 DEF Matching
    <3>2. QED
      BY <2>2, <3>1, BestIsBest
  <2>4. CASE Keep(l, S) = <<>>
    <3>1. \A n \in DOMAIN l : l[n] \notin S
      BY <2>1, <2>4, KeepNone DEF Range
    <3>2. a = NoAnswer
      BY <2>1, <2>4, GroupAnswerIs
    <3>3. QED
      BY <2>3, <3>1, <3>2
  <2>5. CASE Keep(l, S) # <<>>
    <3>1. PICK n \in DOMAIN l : /\ l[n] \in S /\ Head(Keep(l, S)) = l[n]
                                /\ \A m \in 1..n - 1 : l[m] \notin S
      BY <2>1, <2>5, KeepHead
    <3> DEFINE best == Best(l[n].rules, host, q)
    <3>2. a = [id |-> l[n].id, httpRedir |-> l[n].httpRedir, rule |-> best]
      BY <2>1, <2>5, <3>1, GroupAnswerIs
    <3>3. best # NoRule
      BY <3>1 DEF Matching
    <3>4. /\ best \in Range(l[n].rules)
          /\ \A r \in Range(l[n].rules) : NoBetter(Match(r, host, q), Match(best, host, q))
      BY <2>2, <3>3, BestIsBest
    <3>5. \A m \in 1..n - 1 : m \in DOMAIN l
      BY <2>1
    <3>6. \A m \in 1..n - 1 : \A r \in Range(l[m].rules) : Match(r, host, q).len = 0
      BY <2>3, <3>1, <3>5
    <3> HIDE DEF best
    <3>7. a.id = l[n].id /\ a.rule = best /\ a # NoAnswer
      BY <3>2, <3>3 DEF NoAnswer
    <3> HIDE DEF a, l
    <3>8. \E k \in DOMAIN l :
            /\ a.id = l[k].id
            /\ a.rule \in Range(l[k].rules)
            /\ \A m \in 1..k - 1 : \A r \in Range(l[m].rules) : Match(r, host, q).len = 0
            /\ \A r \in Range(l[k].rules) : NoBetter(Match(r, host, q), Match(a.rule, host, q))
      BY <3>4, <3>6, <3>7
    <3>9. QED
      BY <3>7, <3>8 DEF a, l, NoBetter
  <2>6. QED
    BY <2>4, <2>5
<1>2. QED
  BY <1>1, IInvHolds, PTL

-----------------------------------------------------------------------------
(* What one ingress's change does to the answers.                            *)

\* Sorted lists that hold the same entries of each ingress are the same.
LEMMA SameLists ==
  ASSUME NEW l \in Seq(Entries), NEW m \in Seq(Entries),
         Ordered(l, Before), Ordered(m, Before),
         \A id \in Ids : Keep(l, ById(id)) = Keep(m, ById(id))
  PROVE  l = m
<1> DEFINE Same(s) == \A t \in Seq(Entries) :
                        /\ Ordered(s, Before) /\ Ordered(t, Before)
                        /\ \A id \in Ids : Keep(s, ById(id)) = Keep(t, ById(id))
                        => s = t
           P == {s \in Seq(Entries) : Same(s)}
<1>0. \A e \in Entries : e.id \in Ids /\ e \in ById(e.id)
  BY DEF Entries, ById
<1>1. <<>> \in P
  <2>1. ASSUME NEW t \in Seq(Entries), t # <<>>,
               \A id \in Ids : Keep(<<>>, ById(id)) = Keep(t, ById(id))
        PROVE  FALSE
    <3>1. 1 \in DOMAIN t /\ t[1] \in Entries /\ t[1] \in Range(t)
      BY <2>1 DEF Range
    <3>2. Keep(t, ById(t[1].id)) # <<>>
      BY <1>0, <3>1, KeepNone
    <3>3. QED
      BY <1>0, <2>1, <3>1, <3>2, KeepEmpty
  <2>2. QED
    BY <2>1
<1>2. ASSUME NEW s \in Seq(Entries), Same(s), NEW e \in Entries PROVE Same(Append(s, e))
  <2> SUFFICES ASSUME NEW t \in Seq(Entries),
                      Ordered(Append(s, e), Before), Ordered(t, Before),
                      \A id \in Ids : Keep(Append(s, e), ById(id)) = Keep(t, ById(id))
               PROVE  Append(s, e) = t
    OBVIOUS
  <2>1. \A id \in Ids : Keep(s, ById(id)) \in Seq(Entries)
    BY KeepType
  <2>2. \A id \in Ids : Keep(Append(s, e), ById(id))
                          = IF e \in ById(id) THEN Append(Keep(s, ById(id)), e) ELSE Keep(s, ById(id))
    BY KeepAppend
  <2>3. t # <<>>
    <3>1. Keep(t, ById(e.id)) = Append(Keep(s, ById(e.id)), e)
      BY <1>0, <2>2
    <3>2. Append(Keep(s, ById(e.id)), e) # <<>>
      BY <1>0, <2>1, AppendedSome
    <3>3. QED
      BY <3>1, <3>2, KeepEmpty
  <2>4. PICK u \in Seq(Entries) : \E d \in Entries : t = Append(u, d)
    <3>1. /\ SubSeq(t, 1, Len(t) - 1) \in Seq(Entries) /\ t[Len(t)] \in Entries
          /\ t = Append(SubSeq(t, 1, Len(t) - 1), t[Len(t)])
      BY <2>3
    <3>2. QED
      BY <3>1
  <2>5. PICK d \in Entries : t = Append(u, d)
    BY <2>4
  <2>6. \A id \in Ids : Keep(u, ById(id)) \in Seq(Entries)
    BY KeepType
  <2>7. \A id \in Ids : Keep(t, ById(id))
                          = IF d \in ById(id) THEN Append(Keep(u, ById(id)), d) ELSE Keep(u, ById(id))
    BY <2>5, KeepAppend
  <2>8. Ordered(s, Before) /\ \A f \in Range(s) : <<f, e>> \in Before
    BY AppendOrdered
  <2>9. Ordered(u, Before) /\ \A f \in Range(u) : <<f, d>> \in Before
    BY <2>5, AppendOrdered
  <2>10. d.id = e.id
    <3> SUFFICES ASSUME d.id # e.id PROVE FALSE
      OBVIOUS
    <3>1. e \notin ById(d.id) /\ d \notin ById(e.id)
      BY DEF ById
    <3>2. Keep(u, ById(e.id)) = Append(Keep(s, ById(e.id)), e)
      BY <1>0, <2>2, <2>7, <3>1
    <3>3. Keep(s, ById(d.id)) = Append(Keep(u, ById(d.id)), d)
      BY <1>0, <2>2, <2>7, <3>1
    <3>4. Keep(u, ById(e.id)) # <<>> /\ Keep(s, ById(d.id)) # <<>>
      BY <1>0, <2>1, <2>6, <3>2, <3>3, AppendedSome
    <3>5. PICK f \in Range(u) : f \in ById(e.id)
      BY <3>4, KeepNone
    <3>6. PICK g \in Range(s) : g \in ById(d.id)
      BY <3>4, KeepNone
    <3>7. ~Less(d.id, e.id)
      BY <2>9, <3>5 DEF Before, ById
    <3>8. ~Less(e.id, d.id)
      BY <2>8, <3>6 DEF Before, ById
    <3>9. QED
      BY <1>0, <3>7, <3>8, LessOrders
  <2>11. e = d /\ Keep(s, ById(e.id)) = Keep(u, ById(e.id))
    <3> DEFINE x == Keep(s, ById(e.id))
               y == Keep(u, ById(e.id))
    <3>1. x \in Seq(Entries) /\ y \in Seq(Entries)
      BY <1>0, <2>1, <2>6
    <3>2. Append(x, e) = Append(y, d)
      BY <1>0, <2>2, <2>7, <2>10
    <3> HIDE DEF x, y
    <3>3. x = y /\ e = d
      BY <3>1, <3>2, AppendedSame
    <3>4. QED
      BY <3>3 DEF x, y
  <2>12. ASSUME NEW id \in Ids PROVE Keep(s, ById(id)) = Keep(u, ById(id))
    <3>1. CASE id = e.id
      BY <2>11, <3>1
    <3>2. CASE id # e.id
      BY <2>2, <2>7, <2>11, <3>2 DEF ById
    <3>3. QED
      BY <3>1, <3>2
  <2>13. s = u
    BY <1>2, <2>8, <2>9, <2>12
  <2>14. QED
    BY <2>5, <2>11, <2>13
<1>3. \A s \in Seq(Entries) \cap P : \A e \in Entries : Append(s, e) \in P
  <2>1. \A s \in Seq(Entries) : \A e \in Entries : Append(s, e) \in Seq(Entries)
    OBVIOUS
  <2> HIDE DEF Same
  <2>2. QED
    BY <1>2, <2>1
<1>4. Seq(Entries) \subseteq P
  <2> HIDE DEF P
  <2>1. QED
    BY <1>1, <1>3, Appending
<1>5. QED
  BY <1>4

\* An answer that is not of an ingress is there without the ingress's entries.
LEMMA WithoutOne ==
  ASSUME NEW l \in Seq(Entries), NEW id \in Ids, NEW host, NEW q,
         GroupAnswer(l, host, q).id # id
  PROVE  GroupAnswer(OthersOf(l, id), host, q) = GroupAnswer(l, host, q)
<1> DEFINE S == Matching(host, q)
           O == Entries \ ById(id)
           others == OthersOf(l, id)
           m == Keep(l, S)
<1>1. others = Keep(l, O) /\ others \in Seq(Entries)
  BY OwnAndOthers, OthersKeep
<1>2. Keep(others, S) = Keep(m, O)
  <2>1. Keep(others, S) = Keep(l, O \cap S)
    BY <1>1, KeepKeep
  <2>2. Keep(m, O) = Keep(l, S \cap O)
    BY KeepKeep
  <2>3. O \cap S = S \cap O
    OBVIOUS
  <2>4. QED
    BY <2>1, <2>2, <2>3
<1>3. m \in Seq(Entries)
  BY KeepType
<1> HIDE DEF others, S, O
<1>4. CASE m = <<>>
  <2>1. Keep(others, S) = <<>>
    BY <1>2, <1>4, KeepEmpty
  <2>2. QED
    BY <1>1, <1>4, <2>1, GroupAnswerIs DEF S, others
<1>5. CASE m # <<>>
  <2>1. Head(m) \in Entries
    BY <1>3, <1>5
  <2>2. GroupAnswer(l, host, q) = [id |-> Head(m).id, httpRedir |-> Head(m).httpRedir,
                                   rule |-> Best(Head(m).rules, host, q)]
    BY <1>5, GroupAnswerIs DEF S
  <2>3. Head(m) \in O
    BY <2>1, <2>2 DEF O, ById
  <2> HIDE DEF m
  <2>4. Keep(m, O) # <<>> /\ Head(Keep(m, O)) = Head(m)
    BY <1>3, <1>5, <2>3, KeepFirst
  <2>5. Keep(others, S) # <<>> /\ Head(Keep(others, S)) = Head(m)
    BY <1>2, <2>4
  <2>6. GroupAnswer(others, host, q) = [id |-> Head(m).id, httpRedir |-> Head(m).httpRedir,
                                        rule |-> Best(Head(m).rules, host, q)]
    BY <1>1, <2>5, GroupAnswerIs DEF S
  <2>7. QED
    BY <2>2, <2>6 DEF others
<1>6. QED
  BY <1>4, <1>5

\* Where the others' entries are the same, and neither answer is the ingress's,
\* the answers are the same.
LEMMA SameAnswers ==
  ASSUME NEW l \in Seq(Entries), NEW m \in Seq(Entries), NEW id \in Ids, NEW host, NEW q,
         OthersOf(l, id) = OthersOf(m, id),
         GroupAnswer(l, host, q).id # id, GroupAnswer(m, host, q).id # id
  PROVE  GroupAnswer(l, host, q) = GroupAnswer(m, host, q)
<1>1. GroupAnswer(OthersOf(l, id), host, q) = GroupAnswer(l, host, q)
  BY WithoutOne
<1>2. GroupAnswer(OthersOf(m, id), host, q) = GroupAnswer(m, host, q)
  BY WithoutOne
<1>3. QED
  BY <1>1, <1>2

\* An update changes nothing of the others' entries.
LEMMA OthersStay ==
  ASSUME IInv, NEW id \in Ids, NEW object \in Objects, Update(id, object), NEW h \in TableHosts
  PROVE  OthersOf(set[h], id) = OthersOf(set'[h], id)
<1> DEFINE l == set[h]
           m == set'[h]
<1>1. l \in Seq(Entries) /\ Ordered(l, Before)
  BY DEF IInv, TypeOK, Kept, TableHosts
<1>2. /\ m \in Seq(Entries) /\ Ordered(m, Before)
      /\ \A j \in Ids \ {id} : Keep(m, ById(j)) = Keep(l, ById(j))
  BY UpdateHost
<1> HIDE DEF l, m
<1>3. /\ OthersOf(l, id) \in Seq(Entries) /\ Ordered(OthersOf(l, id), Before)
      /\ Keep(OthersOf(l, id), ById(id)) = <<>>
      /\ \A j \in Ids \ {id} : Keep(OthersOf(l, id), ById(j)) = Keep(l, ById(j))
  BY <1>1, OthersKeep
<1>4. /\ OthersOf(m, id) \in Seq(Entries) /\ Ordered(OthersOf(m, id), Before)
      /\ Keep(OthersOf(m, id), ById(id)) = <<>>
      /\ \A j \in Ids \ {id} : Keep(OthersOf(m, id), ById(j)) = Keep(m, ById(j))
  BY <1>2, OthersKeep
<1>5. \A j \in Ids : Keep(OthersOf(l, id), ById(j)) = Keep(OthersOf(m, id), ById(j))
  BY <1>2, <1>3, <1>4
<1>6. OthersOf(l, id) = OthersOf(m, id)
  BY <1>3, <1>4, <1>5, SameLists
<1>7. QED
  BY <1>6 DEF l, m

\* Adding what is there again changes nothing.
LEMMA Readded ==
  ASSUME IInv, NEW id \in Ids, NEW object \in Objects, Update(id, object), ours[id] = object
  PROVE  set' = set
<1>1. ASSUME NEW h \in TableHosts PROVE set'[h] = set[h]
  <2> DEFINE l == set[h]
             m == set'[h]
  <2>1. /\ l \in Seq(Entries) /\ Ordered(l, Before)
        /\ Keep(l, ById(id)) = NewSet(id, object, h)
    BY NoneAssumption DEF IInv, TypeOK, Kept, Held, TableHosts
  <2>2. /\ m \in Seq(Entries) /\ Ordered(m, Before)
        /\ Keep(m, ById(id)) = NewSet(id, object, h)
        /\ \A j \in Ids \ {id} : Keep(m, ById(j)) = Keep(l, ById(j))
    BY UpdateHost
  <2> HIDE DEF l, m
  <2>3. \A j \in Ids : Keep(m, ById(j)) = Keep(l, ById(j))
    BY <2>1, <2>2
  <2>4. m = l
    BY <2>1, <2>2, <2>3, SameLists
  <2>5. QED
    BY <2>4 DEF l, m
<1>2. set = [h \in TableHosts |-> set[h]] /\ set' = [h \in TableHosts |-> set'[h]]
  BY DEF IInv, TypeOK, Update, TableHosts
<1>3. QED
  BY <1>1, <1>2

\* The answers from the host's entries, the wildcard's and those without a host,
\* one after the other.
LEMMA Isolated ==
  ASSUME IInv, NEW id \in Ids, NEW object \in Objects, Update(id, object),
         NEW host \in TableHosts, NEW q \in Paths,
         Answer(set, host, q).id # id, Answer(set', host, q).id # id
  PROVE  Answer(set, host, q) = Answer(set', host, q)
<1> DEFINE Old(g) == GroupAnswer(set[g], host, q)
           New(g) == GroupAnswer(set'[g], host, q)
<1>1. ASSUME NEW g \in TableHosts, Old(g).id # id, New(g).id # id PROVE Old(g) = New(g)
  <2> DEFINE l == set[g]
             m == set'[g]
  <2>1. l \in Seq(Entries)
    BY DEF IInv, TypeOK, TableHosts
  <2>2. m \in Seq(Entries) /\ OthersOf(l, id) = OthersOf(m, id)
    BY UpdateHost, OthersStay
  <2>3. GroupAnswer(l, host, q).id # id /\ GroupAnswer(m, host, q).id # id
    BY <1>1
  <2> HIDE DEF l, m
  <2>4. GroupAnswer(l, host, q) = GroupAnswer(m, host, q)
    BY <2>1, <2>2, <2>3, SameAnswers
  <2>5. QED
    BY <2>4 DEF l, m
<1>2. NoAnswer.id # id
  BY NoneAssumption DEF NoAnswer
<1> DEFINE oldWild == IF host = NoHost THEN NoAnswer ELSE Old(WildcardOf[host])
           newWild == IF host = NoHost THEN NoAnswer ELSE New(WildcardOf[host])
<1>3. Answer(set, host, q) = IF Old(host) # NoAnswer THEN Old(host)
                             ELSE IF oldWild # NoAnswer THEN oldWild ELSE Old(NoHost)
  BY DEF Answer
<1>4. Answer(set', host, q) = IF New(host) # NoAnswer THEN New(host)
                              ELSE IF newWild # NoAnswer THEN newWild ELSE New(NoHost)
  BY DEF Answer
<1>5. NoHost \in TableHosts /\ (host # NoHost => WildcardOf[host] \in TableHosts)
  BY HostsAssumption DEF TableHosts
<1> HIDE DEF Old, New
<1>6. Old(host) = New(host)
  BY <1>1, <1>2, <1>3, <1>4
<1>7. CASE Old(host) # NoAnswer
  BY <1>3, <1>4, <1>6, <1>7
<1>8. CASE Old(host) = NoAnswer
  <2>1. oldWild = newWild
    BY <1>1, <1>2, <1>3, <1>4, <1>5, <1>6, <1>8
  <2> HIDE DEF oldWild, newWild
  <2>2. CASE oldWild # NoAnswer
    BY <1>3, <1>4, <1>6, <1>8, <2>1, <2>2
  <2>3. CASE oldWild = NoAnswer
    <3>1. Old(NoHost).id # id /\ New(NoHost).id # id
      BY <1>3, <1>4, <1>6, <1>8, <2>1, <2>3
    <3>2. Old(NoHost) = New(NoHost)
      BY <1>1, <1>5, <3>1
    <3>3. QED
      BY <1>3, <1>4, <1>6, <1>8, <2>1, <2>3, <3>2
  <2>4. QED
    BY <2>2, <2>3
<1>9. QED
  BY <1>7, <1>8

\* When the answer to a request changes, an ingress has changed that the old
\* answer or the new one is of.
THEOREM IsolationHolds == Spec => Isolation
<1> DEFINE A == \A host \in DOMAIN set : \A q \in Paths :
                  LET old == Answer(set, host, q)
                      new == Answer(set', host, q)
                  IN  old # new => \E id \in Ids : ours'[id] # ours[id] /\ id \in {old.id, new.id}
<1>1. ASSUME IInv, Next PROVE A
  <2>1. PICK id \in Ids : \E object \in Objects : AddItem(id, object)
    BY <1>1 DEF Next
  <2>2. PICK object \in Objects : AddItem(id, object)
    BY <2>1
  <2>3. CASE set' = set
    BY <2>3
  <2>4. CASE set' # set
    <3>1. Update(id, object) /\ ours' = [ours EXCEPT ![id] = object]
      BY <2>2, <2>4 DEF AddItem
    <3>2. ours[id] # object
      BY <1>1, <2>4, <3>1, Readded
    <3>3. ours'[id] = object
      BY <1>1, <3>1 DEF IInv, TypeOK
    <3>4. DOMAIN set = TableHosts
      BY <1>1 DEF IInv, TypeOK, TableHosts
    <3>5. ASSUME NEW host \in TableHosts, NEW q \in Paths,
                 Answer(set, host, q) # Answer(set', host, q)
          PROVE  id \in {Answer(set, host, q).id, Answer(set', host, q).id}
      BY <1>1, <3>1, <3>5, Isolated
    <3>6. QED
      BY <3>2, <3>3, <3>4, <3>5
  <2>5. QED
    BY <2>3, <2>4
<1>2. IInv /\ [Next]_vars => [A]_vars
  BY <1>1
<1>3. Spec => [][A]_vars
  <2> HIDE DEF A
  <2>1. QED
    BY <1>2, IInvHolds, PTL DEF Spec
<1>4. QED
  BY <1>3 DEF Isolation

=============================================================================
