--------------------------- MODULE MCCoreLifecycle ---------------------------
(* Model checking of CoreLifecycle with a few calls.                       *)
EXTENDS CoreLifecycle

\* Every kind of resource, with and without the ones started before and after it.
MCRequests ==
    {r \in [extra : BOOLEAN, xray : {"off", "eager", "lazy"}, full : BOOLEAN, tun : BOOLEAN, relay : BOOLEAN] :
        r.relay = r.tun /\ (r.full => r.xray = "lazy")}
=============================================================================
