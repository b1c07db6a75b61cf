---------------------- MODULE MCAppRuntimeCoordinator ----------------------
(* Small instances of AppRuntimeCoordinator.                                *)
EXTENDS AppRuntimeCoordinator, TLC

CONSTANTS v1, v2, site

\* Two tabs share the app, and a candidate fails under them.
Tabs == [knownGood |-> v1, tabs |-> 2, incarnations |-> 1, sites |-> {},
         incidents |-> {}, time |-> 2, launches |-> 3, uses |-> 1,
         corrupt |-> 0, restarts |-> 0]
\* A first installation, with another incarnation and a restart of the Host.
Startup == [knownGood |-> NoVersion, tabs |-> 1, incarnations |-> 2,
            sites |-> {}, time |-> 1, launches |-> 2, uses |-> 0,
            incidents |-> {"installFails", "admissionFails", "cancel"},
            corrupt |-> 0, restarts |-> 1]
\* The same while version directories are damaged or lost.
Damage == [Startup EXCEPT !.incarnations = 1, !.incidents = {}, !.time = 0,
                          !.launches = 1, !.corrupt = 1]
\* Everything that can go wrong while authority drains.
Drain == [knownGood |-> v1, tabs |-> 1, incarnations |-> 1, sites |-> {site},
          incidents |-> {"cleanupFails", "close", "guardFails", "writeFails",
                         "shutdown"},
          time |-> 2, launches |-> 3, uses |-> 1, corrupt |-> 0,
          restarts |-> 0]

TabPlans == {Tabs}
OneTabPlans == {Startup, Damage, Drain}
=============================================================================
