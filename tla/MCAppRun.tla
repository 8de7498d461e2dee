------------------------------- MODULE MCAppRun -------------------------------
(* AppRun with the two lifecycle events, one more call that waits and one   *)
(* that the main goroutine makes.                                           *)
EXTENDS AppRun

CONSTANTS stopped, waiter, w1, m1
===============================================================================
