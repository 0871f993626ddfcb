------------------------------- MODULE Notify -------------------------------
(***************************************************************************)
(* tokio::sync::Notify as this code uses it: notify_waiters wakes exactly  *)
(* the `notified()` futures that exist at that moment, whether or not they *)
(* have been awaited yet, and stores no permit for later ones.  A waiter's *)
(* slot is "none" (no future), "armed" (created, not woken) or "fired".    *)
(***************************************************************************)

WaiterState == { "none", "armed", "fired" }

\* `let notified = notify.notified()` by p
Arm(waiters, p) == [ waiters EXCEPT ![p] = "armed" ]

\* the future of p is dropped, or has completed
Disarm(waiters, p) == [ waiters EXCEPT ![p] = "none" ]

\* `notify.notify_waiters()`
NotifyWaiters(waiters) ==
  [ p \in DOMAIN waiters |->
      IF waiters[p] = "armed" THEN "fired" ELSE waiters[p] ]
=============================================================================
