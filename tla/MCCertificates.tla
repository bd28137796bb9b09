--------------------------- MODULE MCCertificates ---------------------------
(* Small instances of Certificates: a secret that an ingress names, and one  *)
(* that is named by the second TLS entry of an ingress and is the default.   *)
EXTENDS Certificates

CONSTANTS s1, s2, c1, c2, h1, h2

MCDefaults == <<s2>>

\* An entry for all of an ingress's hosts; two entries, of which the first goes
\* to the rule hosts and the second, which lists hosts of its own, to none.
MCTLSLists == {<<[sec |-> s1, hosts |-> {h1, h2}]>>,
               <<[sec |-> s2, hosts |-> {h1}], [sec |-> s1, hosts |-> {}]>>}
MCMalformed == {<<s1, c2>>}
MCIncomplete == {<<s2, c2>>}

\* One secret, for the runs about locks.
MCOneDefault == <<s1>>
MCOneTLSList == {<<[sec |-> s1, hosts |-> {h1}]>>}
=============================================================================
