---------------------------- MODULE MCLifecycle ----------------------------
\* Bounds for the server lifecycle without its configuration.
EXTENDS Lifecycle

\* Each signal once.
EachOnce == [s \in Signals |-> 1]
=============================================================================
