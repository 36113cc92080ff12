---------------------------- MODULE MCRxLifecycle -----------------------------
(* Small instances of RxLifecycle for TLC: two frequencies.                  *)
EXTENDS RxLifecycle

CONSTANTS f1, f2
=============================================================================
