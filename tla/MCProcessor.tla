----------------------------- MODULE MCProcessor -----------------------------
(* A small instance of Processor for TLC: two keys, so that one can be queued *)
(* behind the one that is being processed.                                    *)
EXTENDS Processor
=============================================================================
