-------------------------- MODULE MCConfiguration --------------------------
\* Bounds for the server lifecycle and its configuration.
EXTENDS Configuration

\* Two reloads, so that one may be asked for while the other runs, and two
\* stop signals, of which the second finds nobody who receives it.
TwoReloads ==
  [s \in Signals |-> CASE s = "SIGHUP" -> 2 [] s = "SIGTERM" -> 0 [] OTHER -> 1]
=============================================================================
