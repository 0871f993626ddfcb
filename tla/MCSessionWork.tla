---------------------------- MODULE MCSessionWork ----------------------------
EXTENDS SessionWork, TLC

CONSTANTS o1, o2, o3

Mix(a, b, c) == o1 :> a @@ o2 :> b @@ o3 :> c

\* A run with each other kind of work, an abort or a shutdown in between.
MCMixes ==
  { Mix("run", "bash", "shutdown"),
    Mix("run", "run", "shutdown"),
    Mix("run", "bash", "abort"),
    Mix("run", "compact", "abort"),
    Mix("run", "compact", "shutdown"),
    Mix("run", "navigate", "shutdown"),
    Mix("run", "reload", "shutdown"),
    Mix("run", "replace", "bash"),
    Mix("run", "custom", "bash") }
=============================================================================
