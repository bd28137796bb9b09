---------------------------- MODULE MCEndpointSet ----------------------------
(* A small instance of EndpointSet: one service with a named port.           *)
EXTENDS EndpointSet

CONSTANTS a, b, http

Subset(addrs, ports) == [addrs |-> addrs, ports |-> ports]
HTTPOn(port) == [name |-> http, port |-> port]
NamelessOn(port) == [name |-> Unnamed, port |-> port]

\* Two addresses; another one on another port; two subsets that have the port
\* on different numbers; a port without a name; and no address left.
MCObjects ==
  {<<Subset(<<a, b>>, <<HTTPOn(80)>>)>>,
   <<Subset(<<a>>, <<HTTPOn(81)>>)>>,
   <<Subset(<<a>>, <<HTTPOn(80)>>), Subset(<<b>>, <<HTTPOn(81)>>)>>,
   <<Subset(<<b>>, <<NamelessOn(80)>>)>>,
   <<Subset(<<>>, <<HTTPOn(80)>>)>>}

RequestSymmetry == Permutations(Requests)
=============================================================================
