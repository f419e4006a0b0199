------------------------- MODULE MCServerLifecycle --------------------------
(* Three invocations in the order they begin: one that makes the CA, one   *)
(* that starts a server, one that meets it; or two that meet on the way.   *)
EXTENDS ServerLifecycle

InvocationNumbers == 1..3
=============================================================================
