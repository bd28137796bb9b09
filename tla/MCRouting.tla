------------------------------ MODULE MCRouting ------------------------------
(* A small instance of Routing: every path type, two hosts and none, the      *)
(* wildcard of one of them, and up to four ingresses.                         *)
EXTENDS Routing

CONSTANTS h1, h2, hw, s, t, b1, b2, re, bad

MCWildcardOf == [h \in {h1, h2, hw} |-> hw]

Path(segs, slash) == [segs |-> segs, slash |-> slash]
MCPaths == {Root, Empty, Path(<<s>>, FALSE), Path(<<s>>, TRUE), Path(<<s, t>>, FALSE)}

\* "^/s?": the root's slash of every path, and the first segment s.
MCReMatch == [x \in Regexps \X MCPaths |->
                IF x[2] = Empty THEN 0 ELSE IF x[2] = Root THEN 1 ELSE 2]

On(type, path, backend) == [type |-> type, path |-> path, backend |-> backend]
Block(host, paths) == [host |-> host, paths |-> paths]
Ours(redirect, rules) == [ours |-> TRUE, redirect |-> redirect, rules |-> rules]

MCObjects ==
  {\* An exact path beside its prefix, in both orders, and a root without a type.
   Ours("none", <<Block(h1, <<On("Exact", Path(<<s>>, FALSE), b1), On("Prefix", Path(<<s>>, TRUE), b2),
                      On("Prefix", Path(<<s, t>>, FALSE), b1),
                      On("Exact", Path(<<s, t>>, FALSE), b2)>>),
          Block(NoHost, <<On("unset", Empty, b1)>>)>>),
   \* Two blocks of one host, globs, and a type that is ignored.
   Ours("false", <<Block(h1, <<On("glob", Path(<<s, Star>>, FALSE), b2), On("other", Root, b1)>>),
          Block(h1, <<On("glob", Empty, b1)>>),
          Block(hw, <<On("unset", Path(<<s>>, FALSE), b2)>>)>>),
   \* Regular expressions, one of which does not compile.
   Ours("invalid", <<Block(NoHost, <<On("ImplementationSpecific", bad, b1),
                          On("ImplementationSpecific", re, b2),
                          On("Exact", Empty, b1)>>),
          Block(h2, <<On("unset", Path(<<s>>, FALSE), b1)>>)>>),
   \* Another class.
   [ours |-> FALSE, redirect |-> "true",
    rules |-> <<Block(h1, <<On("unset", Empty, b1)>>)>>]}
=============================================================================
