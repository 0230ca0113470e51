-------------------------- MODULE MCZabbixRequests --------------------------
(* Two hosts, one with a protected name. Requests about different hosts    *)
(* share nothing but the worker's cursors, so the two requests of a run    *)
(* are about the same host.                                                *)
EXTENDS ZabbixRequests

CONSTANTS n1, n2, aggregate

SameHost(methods) ==
    {q \in [Messages -> Request] :
        /\ \A i, j \in Messages : q[i].name = q[j].name
        /\ \A i \in Messages : q[i].method \in methods}

\* With a protected name, the requests that reach the host in their own way.
MCInputs ==
    {q \in SameHost(AllMethods) :
        q[1].name \in ProtectedNames =>
            \A i \in Messages : q[i].method \in {"create", "get_upsert", "plain"}}

=============================================================================
