---------------------------- MODULE MCHostLink -----------------------------
\* HostLink for TLC: one thread that makes two calls in a row, a request that
\* crosses an event, and (both ends timely) two threads that share the slots.
EXTENDS HostLink, TLC

CONSTANTS q1, q2, n1

Load(a, b, c) == q1 :> a @@ q2 :> b @@ n1 :> c
MCScenarios ==
    {<<TRUE, Load(1, 1, 0)>>} \cup (BOOLEAN \X {Load(2, 0, 0), Load(1, 0, 1)})
=============================================================================
