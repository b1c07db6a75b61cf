\* Three attempts show a second restart after a healthy window and a crash loop
\* after a restart; two activations show the reset; the clock covers a health
\* window in each of two attempts.
CONSTANTS
    HealthWindow = 2
    HeartbeatTimeout = 1
    IdMax = 1000
    MaxTime = 5
    MaxDelay = 1
    MaxActivations = 2
    MaxAttempts = 3
SPECIFICATION SupSpec
INVARIANTS
    VerdictsAreRight
PROPERTIES
    StaleReportsAreHarmless
