----------------------------- MODULE MCUserApi -----------------------------
\* An instance of UserApi for TLC: pages and push buffers of one cell, so
\* that two allocations, of memory or of channels, can be made over all
\* sessions together, and two addresses for host buffers of which one can be
\* tracked.
EXTENDS UserApi, TLC

\* One buffer of the host is as good as the other.
HostsAlike == Permutations(Hosts)
=============================================================================
