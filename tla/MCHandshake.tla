----------------------------- MODULE MCHandshake -----------------------------
(* A small instance of Handshake: the lists are of at most two entries.      *)
EXTENDS Handshake

CONSTANTS e1, e2, d

MCLists == {[exact |-> x, wild |-> w, dflt |-> f] :
              x \in {<<>>, <<e1>>, <<e1, e2>>}, w \in {<<>>, <<e2>>}, f \in {<<>>, <<d>>, <<d, e2>>}}
=============================================================================
