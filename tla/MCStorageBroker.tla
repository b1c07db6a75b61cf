--------------------------- MODULE MCStorageBroker ---------------------------
\* One app in two Host processes, and another app beside it in the first.
EXTENDS StorageBroker, TLC

CONSTANTS b1, b2, b3, host1, host2, app1, app2

MCAppOf == b1 :> app1 @@ b2 :> app1 @@ b3 :> app2
MCProcessOf == b1 :> host1 @@ b2 :> host2 @@ b3 :> host1
=============================================================================
