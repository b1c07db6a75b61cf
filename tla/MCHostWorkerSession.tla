------------------------- MODULE MCHostWorkerSession -------------------------
(* Any two or three of: a second session after or in place of the first, a  *)
(* second route load, a second request of the Worker (one is then answered  *)
(* as busy), a rarer event.                                                 *)
EXTENDS HostWorkerSession

Budget(s, r, q, i) ==
    [sessions |-> s, routes |-> r, requests |-> q, incidents |-> i]
MCBudgets == {Budget(1, 2, 0, 1), Budget(1, 0, 2, 1), Budget(2, 1, 1, 1),
              Budget(2, 1, 2, 0), Budget(1, 2, 1, 0)}
==============================================================================
