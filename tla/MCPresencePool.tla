--------------------------- MODULE MCPresencePool ---------------------------
EXTENDS PresencePool, TLC

CONSTANTS v1, v2, r1, r2, r3, r4

MCPreviews   == {v1, v2}
MCRequests   == {r1, r2, r3, r4}
MCRequestsOf == v1 :> <<r1, r2, r3, r4>> @@ v2 :> <<r2>>
============================================================================
