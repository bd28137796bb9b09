-------------------------------- MODULE Routing --------------------------------
(***************************************************************************)
(* ingress.go: the table of routes the ingress worker keeps (ingressSet),  *)
(* and the rule it finds for a request (matchRule).                        *)
(*                                                                         *)
(* The table maps a host to the ingresses that have rules for it, sorted   *)
(* by name; every entry holds the rules of one host block of one ingress.  *)
(* addItem replaces all the entries of an ingress under the table's write  *)
(* lock, and a request matches under the read lock, so both are one step.  *)
(*                                                                         *)
(* A path is its segments and whether it ends in a slash: <<>> and a slash *)
(* is the root "/", <<>> and none the empty path.  Paths that match one    *)
(* request are beginnings of its path, so that segments and final slash    *)
(* order them as their lengths do.                                         *)
(*                                                                         *)
(* A rule without an http block, at which addItem panics, is not among the *)
(* rules here.                                                             *)
(***************************************************************************)
EXTENDS Naturals, Sequences, SequencesExt, Lists

CONSTANTS Names, Namespaces,   \* numbers, ordered as the strings are
          Hosts,               \* host names, wildcard names among them
          NoHost,              \* the empty host of a rule or of a request
          WildcardOf,          \* a host name with its first label replaced by "*"
          Backends,            \* serviceKeys
          Regexps,             \* paths that are regular expressions
          ReMatch,             \* length of what a regular expression matches
          Invalid,             \* the Regexps that do not compile
          Segments,            \* path segments
          Star,                \* the segment "*"
          Objects,             \* what an Ingress object may be
          Paths,               \* the paths of requests
          DefaultRedirect,     \* defaultHTTPRedir
          NoRule, NoIngress

Ids == Names \X Namespaces

\* Ingress objects, of our class or not: [ours, redirect, rules], where redirect
\* is the ssl-redirect annotation: a truth value, none, or one that does not
\* parse.  A rule is a host and its paths [type, path, backend].
Annotations == {"true", "false", "invalid", "none"}
AnyPath == [segs : Seq(Segments), slash : BOOLEAN]
PathTypes == {"Prefix", "Exact", "ImplementationSpecific", "glob", "unset", "other"}
RulePaths == [type : PathTypes \ {"ImplementationSpecific"}, path : AnyPath, backend : Backends]
               \cup [type : {"ImplementationSpecific"}, path : Regexps, backend : Backends]
Rules == [host : Hosts \cup {NoHost}, paths : Seq(RulePaths)]

\* The table's own form of a rule: one path, which matchRule can match, of one host.
IngressRules ==
  [host : Hosts \cup {NoHost}, type : {"prefix", "exact", "glob"}, path : AnyPath,
   backend : Backends]
    \cup [host : Hosts \cup {NoHost}, type : {"re2"}, path : Regexps \ Invalid,
          backend : Backends]
Entries == [id : Ids, httpRedir : BOOLEAN, rules : Seq(IngressRules)]

ASSUME NamesAssumption == Names \subseteq Nat /\ Namespaces \subseteq Nat
ASSUME HostsAssumption ==
  /\ NoHost \notin Hosts
  /\ WildcardOf \in [Hosts -> Hosts]
ASSUME PathsAssumption ==
  /\ Paths \subseteq AnyPath
  /\ Star \in Segments
  /\ Invalid \subseteq Regexps
  /\ ReMatch \in [Regexps \X Paths -> Nat]
ASSUME ObjectsAssumption ==
  /\ Objects \subseteq [ours : BOOLEAN, redirect : Annotations, rules : Seq(Rules)]
  /\ DefaultRedirect \in BOOLEAN
ASSUME NoneAssumption == NoIngress \notin Objects \cup Ids /\ NoRule \notin IngressRules

VARIABLES set,      \* ingressSet.set: the entries of each host, in order
          applied,  \* history: the object last applied for each ingress,
          ours      \* and the last one of them that was of our class

vars == <<set, applied, ours>>

Init == /\ set = [h \in Hosts \cup {NoHost} |-> <<>>]
        /\ applied = [id \in Ids |-> NoIngress]
        /\ ours = [id \in Ids |-> NoIngress]

-----------------------------------------------------------------------------
(* addItem: from the object to the entries.                                *)

Empty == [segs |-> <<>>, slash |-> FALSE]
Root == [segs |-> <<>>, slash |-> TRUE]
OrRoot(path) == IF path = Empty THEN Root ELSE path

\* Mutant: a regular expression that does not compile is kept.
IgnoredType(p) == p.type = "other"

\* Paths whose type or regular expression is invalid are left out.
Ignored(p) == \/ p.type = "other"
              \/ p.type = "ImplementationSpecific" /\ p.path \in Invalid

\* The ingressRule of one path.  An empty regular expression is the root's; the
\* caller's Regexps stand for themselves.
RuleOf(host, p) ==
  LET rule(type, path) == [host |-> host, type |-> type, path |-> path, backend |-> p.backend]
  IN  CASE p.type = "Prefix" ->
             rule("prefix", IF p.path \in {Empty, Root} THEN Root ELSE [p.path EXCEPT !.slash = FALSE])
        [] p.type = "Exact" -> rule("exact", OrRoot(p.path))
        [] p.type = "ImplementationSpecific" -> rule("re2", p.path)
        [] p.type = "glob" ->
             rule("glob", IF p.path = Empty THEN [segs |-> <<Star>>, slash |-> FALSE] ELSE p.path)
        [] p.type = "unset" ->
             IF p.path = Empty THEN rule("prefix", Root) ELSE rule("glob", p.path)

\* doRedir.  ParseBool's result is taken even when it is an error's FALSE.
Redirect(object) ==
  IF object.redirect = "none" THEN DefaultRedirect ELSE object.redirect = "true"

\* newset: one entry for each host block of the object, in the object's order.
NewSet(id, object, h) ==
  LET blocks == Keep(object.rules, {r \in Range(object.rules) : r.host = h})
      valid(r) == Keep(r.paths, {p \in Range(r.paths) : ~Ignored(p)})
  IN  [n \in DOMAIN blocks |->
        [id |-> id, httpRedir |-> Redirect(object),
         rules |-> [m \in DOMAIN valid(blocks[n]) |-> RuleOf(h, valid(blocks[n])[m])]]]

\* ingressGroupByPriority's order.  No entry has a priority: nothing sets it.
Less(i, j) == \/ i[1] < j[1]
              \/ i[1] = j[1] /\ i[2] < j[2]

\* sort.Sort keeps the order of an ingress's own entries, which compare as equal:
\* it is an insertion sort for the lengths (at most 12) that occur here.
Insert(sorted, e) ==
  LET later == {f \in Range(sorted) : Less(e.id, f.id)}
  IN  Append(Keep(sorted, Range(sorted) \ later), e) \o Keep(sorted, later)
Sort(entries) ==
  LET sorted[n \in 0..Len(entries)] ==
        IF n = 0 THEN <<>> ELSE Insert(sorted[n - 1], entries[n])
  IN  sorted[Len(entries)]

\* The entries of an ingress, and those of the others.
OwnOf(entries, id) == Keep(entries, {e \in Range(entries) : e.id = id})
OthersOf(entries, id) == Keep(entries, {e \in Range(entries) : e.id # id})

\* Mutant: the old entries are filtered out only where there are new ones.
UpdateNewHosts(id, object) ==
  set' = [h \in DOMAIN set |->
    LET others == OthersOf(set[h], id)
        new == NewSet(id, object, h)
    IN  IF new = <<>> THEN set[h] ELSE Sort(others \o new)]

\* Mutant: the new entries are appended and not sorted in.
UpdateUnsorted(id, object) ==
  set' = [h \in DOMAIN set |->
    OthersOf(set[h], id) \o NewSet(id, object, h)]

\* ingressSet.update: the ingress's entries are filtered out for every host, and
\* the new ones are sorted in.
Update(id, object) ==
  set' = [h \in DOMAIN set |->
    LET others == OthersOf(set[h], id)
        new == NewSet(id, object, h)
    IN  IF new = <<>> THEN others ELSE Sort(others \o new)]

\* An ingress of another class is returned from at once, whatever the table
\* holds of it.
AddItem(id, object) ==
  /\ applied' = [applied EXCEPT ![id] = object]
  /\ IF object.ours
     THEN /\ Update(id, object)
          /\ ours' = [ours EXCEPT ![id] = object]
     ELSE UNCHANGED <<set, ours>>

Next == \E id \in Ids : \E object \in Objects : AddItem(id, object)

Spec == Init /\ [][Next]_vars

-----------------------------------------------------------------------------
(* matchRule: from a request, a host and a path, to a rule.                *)

Length(path) == 2 * Len(path.segs) + (IF path.slash THEN 1 ELSE 0)

Matched(l, exact) == [len |-> l, exact |-> exact]
Unmatched == Matched(0, FALSE)

\* The prefix and the trailing-star matches: up to the end of the request's path
\* or to a slash in it, which is then counted in.
PrefixMatch(path, q) ==
  IF path = Root
  THEN IF q = Empty THEN Unmatched ELSE Matched(1, FALSE)
  ELSE IF path = q THEN Matched(Length(path), FALSE)
  ELSE IF IsPrefix(path.segs, q.segs) /\ (path.segs # q.segs \/ q.slash)
  THEN Matched(Length(path) + 1, FALSE)
  ELSE Unmatched

\* A glob ends in "/*", or matches a path with or without a final slash.
GlobMatch(path, q) ==
  IF path.segs # <<>> /\ Last(path.segs) = Star /\ ~path.slash
  THEN PrefixMatch(LET sub == Front(path.segs)
                   IN  IF sub = <<>> THEN Root ELSE [segs |-> sub, slash |-> FALSE], q)
  ELSE IF q = path THEN Matched(Length(path), FALSE)
  ELSE IF path.segs # <<>> /\ ~path.slash /\ q = [path EXCEPT !.slash = TRUE]
  THEN Matched(Length(q), FALSE)
  ELSE Unmatched

\* ingressRule.matchRule.  The rule's host is compared with the request's even
\* where the wildcard's entries were looked up.
Match(rule, host, q) ==
  IF rule.host \notin {NoHost, host} THEN Unmatched
  ELSE CASE rule.type = "prefix" -> PrefixMatch(rule.path, q)
         [] rule.type = "glob" -> GlobMatch(rule.path, q)
         [] rule.type = "exact" -> IF q = rule.path THEN Matched(Length(q), TRUE) ELSE Unmatched
         [] rule.type = "re2" -> Matched(ReMatch[<<rule.path, q>>], FALSE)

NoMatch == [rule |-> NoRule, len |-> 0]

\* Mutant: of two matches of the same length the later one is taken.
BestLast(rules, host, q) ==
  LET best[n \in 0..Len(rules)] ==
        IF n = 0 THEN NoMatch
        ELSE LET b == best[n - 1]
                 m == Match(rules[n], host, q)
             IN  IF m.len > 0 /\ m.len >= b.len
                 THEN [rule |-> rules[n], len |-> m.len] ELSE b
  IN  best[Len(rules)].rule

\* ingressHostGroup.matchRule's loop over the rules of one entry.
Best(rules, host, q) ==
  LET best[n \in 0..Len(rules)] ==
        IF n = 0 THEN NoMatch
        ELSE LET b == best[n - 1]
                 m == Match(rules[n], host, q)
             IN  IF m.len > b.len \/ (m.len = b.len /\ m.exact)
                 THEN [rule |-> rules[n], len |-> m.len] ELSE b
  IN  best[Len(rules)].rule

NoAnswer == [id |-> NoIngress, httpRedir |-> FALSE, rule |-> NoRule]

\* Its loop over the entries: the first one that has a rule.
GroupAnswer(entries, host, q) ==
  LET matching == Keep(entries, {e \in Range(entries) : Best(e.rules, host, q) # NoRule})
  IN  IF matching = <<>> THEN NoAnswer
      ELSE [id |-> Head(matching).id, httpRedir |-> Head(matching).httpRedir,
            rule |-> Best(Head(matching).rules, host, q)]

\* ingressSet.matchRule: the host's entries, the wildcard's, and those without a
\* host.
Answer(table, host, q) ==
  LET own == GroupAnswer(table[host], host, q)
      wild == IF host = NoHost THEN NoAnswer ELSE GroupAnswer(table[WildcardOf[host]], host, q)
  IN  IF own # NoAnswer THEN own
      ELSE IF wild # NoAnswer THEN wild
      ELSE GroupAnswer(table[NoHost], host, q)

-----------------------------------------------------------------------------
(* Properties.                                                             *)

\* The variables' types: every rule in the table is one matchRule knows how to
\* match, and its regular expression compiled, whatever types and paths the objects had.
TypeOK ==
  /\ set \in [Hosts \cup {NoHost} -> Seq(Entries)]
  /\ applied \in [Ids -> Objects \cup {NoIngress}]
  /\ ours \in [Ids -> Objects \cup {NoIngress}]

\* The table does not depend on its history: for every host it holds exactly the
\* entries of the last of our versions of each ingress, in the order of their
\* names and then namespaces, whichever order they were added in and whatever
\* they were before.
Canonical ==
  \A h \in DOMAIN set :
    /\ \A id \in Ids :
         OwnOf(set[h], id) = IF ours[id] = NoIngress THEN <<>> ELSE NewSet(id, ours[id], h)
    /\ \A m, n \in DOMAIN set[h] : m < n => ~Less(set[h][n].id, set[h][m].id)

\* The answer from a host's entries by its definition: no entry before the one
\* that answers has a rule that matches; no rule of that entry matches more of
\* the path, and none that matches as much of it is exact unless the answer is.
\* Without an answer, nothing matches.
MostSpecific ==
  \A g \in DOMAIN set : \A host \in DOMAIN set : \A q \in Paths :
    LET a == GroupAnswer(set[g], host, q)
        Len0(n) == \A r \in Range(set[g][n].rules) : Match(r, host, q).len = 0
    IN  IF a = NoAnswer THEN \A n \in DOMAIN set[g] : Len0(n)
        ELSE \E n \in DOMAIN set[g] :
               /\ a.id = set[g][n].id
               /\ a.rule \in Range(set[g][n].rules)
               /\ \A m \in 1..n - 1 : Len0(m)
               /\ \A r \in Range(set[g][n].rules) :
                    LET m == Match(r, host, q)
                        best == Match(a.rule, host, q)
                    IN  m.len < best.len \/ (m.len = best.len /\ (m.exact => best.exact))

\* An ingress only takes requests from others or gives them up: when the answer
\* to a request changes, the rules of an ingress have changed, and the old answer
\* or the new one is a rule of it.  Adding what is there again changes nothing.
Isolation ==
  [][\A host \in DOMAIN set : \A q \in Paths :
       LET old == Answer(set, host, q)
           new == Answer(set', host, q)
       IN  old # new => \E id \in Ids : ours'[id] # ours[id] /\ id \in {old.id, new.id}]_vars

=============================================================================
