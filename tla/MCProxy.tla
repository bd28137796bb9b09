------------------------------- MODULE MCProxy -------------------------------
(* A small instance of Proxy: one ingress, one service with two named ports,  *)
(* of which one is not in all of its endpoints.                               *)
EXTENDS Proxy

CONSTANTS site, s, ip1, ip2, web, api

MCWildcardOf == [x \in {site} |-> site]
MCPaths == {[segs |-> <<s>>, slash |-> FALSE]}
MCReMatch == [x \in {} \X MCPaths |-> 0]

ToPort(redirect, port) ==
  [ours |-> TRUE, redirect |-> redirect,
   rules |-> <<[host |-> site,
                paths |-> <<[type |-> "unset", path |-> [segs |-> <<>>, slash |-> FALSE],
                             backend |-> port]>>]>>]

\* With and without a redirect.
MCIngObjects == {ToPort("false", web), ToPort("true", api)}

\* The annotation and the ports disagree about web; a protocol that is not known.
MCSvcObjects ==
  {[annotation |-> [k \in {web, api} |-> "HTTPS"], ports |-> [k \in {web} |-> "HTTP2"]],
   [annotation |-> [k \in {api} |-> "https"], ports |-> [k \in {} |-> "HTTP"]]}

Serving(addrs, names) ==
  <<[addrs |-> addrs, ports |-> [n \in DOMAIN names |-> [name |-> names[n], port |-> 8000 + n]]]>>

MCEpsObjects == {Serving(<<ip1, ip2>>, <<web>>), Serving(<<ip2>>, <<web, api>>)}
=============================================================================
