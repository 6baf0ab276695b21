------------------------------ MODULE MCWatcher ------------------------------
(* Watcher with an application that writes a line at once or stops after its *)
(* first byte.                                                               *)
EXTENDS Watcher

Torn == {0, 1}
=============================================================================
