------------------------- MODULE MCCapabilityRuntime -------------------------
EXTENDS CapabilityRuntime

CONSTANTS a, b, t1, t2

MCTabOf == (a :> t1) @@ (b :> t2)

\* Two requests of the slow kinds while tabs are switched; two clipboard reads
\* with one input between them, and a command key; three dialogs, the third of
\* which may wait behind the first while nobody waits for that any more.
Services == [kinds |-> {"network", "file"}, requests |-> 2, switches |-> 2, inputs |-> 0, commands |-> 0,
             ends |-> TRUE]
Gestures == [kinds |-> {"read", "clipboard"}, requests |-> 2, switches |-> 3, inputs |-> 1, commands |-> 1,
             ends |-> FALSE]
Dialogs == [kinds |-> {"file"}, requests |-> 3, switches |-> 1, inputs |-> 0, commands |-> 0,
            ends |-> FALSE]
MCPlans == {Services, Gestures, Dialogs}

\* The two tabs, each with its runtime, are interchangeable.
Symmetry == {f \in Permutations({a, b, t1, t2}) :
                \A r \in {a, b} : f[r] \in {a, b} /\ f[MCTabOf[r]] = MCTabOf[f[r]]}

=============================================================================
