-------------------------------- MODULE MCMain --------------------------------
(* A small instance of Main: secrets, and ingresses for the three kinds that   *)
(* Run treats alike.                                                           *)
EXTENDS Main
=============================================================================
