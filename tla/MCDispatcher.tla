----------------------------- MODULE MCDispatcher -----------------------------
(***************************************************************************)
(* Three components for Dispatcher, with the interfaces spread over them.  *)
(***************************************************************************)
EXTENDS Dispatcher

Ends == {1, 3}
Second == {2}
OneTwo == {1, 2}
===============================================================================
