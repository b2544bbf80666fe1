---------------------------- MODULE MCDiscovery -----------------------------
(***************************************************************************)
(* The instance of Discovery for TLC: two processes of users-service on    *)
(* the gateway's host and a third on another host.  Nobody runs the        *)
(* products service, so its requests find nothing.                         *)
(***************************************************************************)
EXTENDS Discovery

CONSTANTS u1, u2, u3, c1, here, there

UserProcs == {u1, u2, u3}

MCRuns == [p \in UserProcs |-> <<"users", IF p = u3 THEN there ELSE here>>]
UserInstances == {MCRuns[p] : p \in UserProcs}

BothHosts == {here, there}

OneCall == {c1}

MCRequests == { [method |-> "GET", path |-> <<"api", "users", "1">>],
                [method |-> "GET", path |-> <<"api", "users", "">>],
                [method |-> "POST", path |-> <<"api", "users", "1">>],
                [method |-> "GET", path |-> <<"api", "users", "1", "x">>],
                [method |-> "GET", path |-> <<"api", "products", "1">>],
                [method |-> "GET", path |-> <<"users", "1">>] }

AllFaults == {"consul", "services", "gateway"}
NoFaults == {}
=============================================================================
