----------------------------- MODULE MCLifecycle -----------------------------
(* A process with and without routing, for the wildcard and two addresses,  *)
(* a device with one read and two write buffers, and two signals.           *)
EXTENDS Lifecycle

MCBinds == {<<>>, <<"v6", "v4">>}
=============================================================================
