---------------------------- MODULE MCEgpuSafety ----------------------------
\* Instances of EgpuSafety for TLC: an application thread and two thread ids
\* for monitors.
EXTENDS EgpuSafety, TLC

CONSTANTS main, m1, m2

\* When the application calls egpu_connect: whatever it sees; only when
\* disconnected; only when disconnected without an error.
Always         == States \X Errors
IfDisconnected == {"DISCONNECTED"} \X Errors
IfNoError      == {<<"DISCONNECTED", "NONE">>}

OneApp      == {main}
TwoMonitors == {m1, m2}

MonitorSymmetry == Permutations(Monitors)
=============================================================================
