---------------------------- MODULE AdmissionGate ----------------------------
(***************************************************************************)
(* What an AuthorityAdmissionToken promises its clients, independent of    *)
(* mutexes, counters and condition variables: authority that has been      *)
(* closed admits nobody, publishes nothing, and once it is reported        *)
(* drained no use of it is outstanding ever again.                         *)
(***************************************************************************)
CONSTANTS Guards,    \* the uses of the authority that can be outstanding
          NoGuard    \* "no guard is publishing"

VARIABLES phase,       \* "open", "closing" or "drained"
          holders,     \* guards that are outstanding
          publishing   \* the guard whose publication is in progress

gateVars == <<phase, holders, publishing>>

GateInit ==
    /\ phase = "open"
    /\ holders = {}
    /\ publishing = NoGuard

Admit(g) ==
    /\ phase = "open"
    /\ g \notin holders
    /\ holders' = holders \cup {g}
    /\ UNCHANGED <<phase, publishing>>

StartPublication(g) ==
    /\ phase = "open"
    /\ g \in holders
    /\ publishing = NoGuard
    /\ publishing' = g
    /\ UNCHANGED <<phase, holders>>

EndPublication ==
    /\ publishing # NoGuard
    /\ publishing' = NoGuard
    /\ UNCHANGED <<phase, holders>>

Leave(g) ==
    /\ g \in holders
    /\ publishing # g
    /\ holders' = holders \ {g}
    /\ UNCHANGED <<phase, publishing>>

\* Closing waits for a publication in progress and lets no other one begin.
Close ==
    /\ phase = "open"
    /\ publishing = NoGuard
    /\ phase' = "closing"
    /\ UNCHANGED <<holders, publishing>>

ReportDrained ==
    /\ phase = "closing"
    /\ holders = {}
    /\ phase' = "drained"
    /\ UNCHANGED <<holders, publishing>>

GateNext ==
    \/ \E g \in Guards : Admit(g) \/ StartPublication(g) \/ Leave(g)
    \/ EndPublication
    \/ Close
    \/ ReportDrained

GateSpec == GateInit /\ [][GateNext]_gateVars
=============================================================================
