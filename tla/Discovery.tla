----------------------------- MODULE Discovery ------------------------------
(***************************************************************************)
(* practical2: users-service and products-service register with Consul as  *)
(* they start, and the gateway asks Consul, for each request, where the    *)
(* service named in the path is.                                           *)
(*                                                                         *)
(* A process runs one service on one host; Consul knows it by the pair,    *)
(* so a second process of the service on that host has the same id, and    *)
(* the same port.  What it registers as its address is "localhost",        *)
(* which the gateway looks up on its own host.  What it registers for its  *)
(* health check is the name of its host, which Consul may or may not be    *)
(* able to reach: the agent of practical2.md, part 2, runs in a container, *)
(* for which the names of the machines outside mean nothing.               *)
(***************************************************************************)
EXTENDS Consul, Naturals, Sequences

CONSTANTS Procs,          \* processes of the two services
          Runs,           \* the <<service, host>> of each process
          GatewayHost,
          Joined,         \* hosts on which DefaultConfig leads to this agent: its own,
                          \* and those where CONSUL_HTTP_ADDR names it
          Reachable,      \* hosts that the agent reaches under their names
          Calls,          \* the clients' requests
          Requests,       \* what they can be
          Faults          \* what may fail: "consul", "services", "gateway"

Services == {"users", "products"}
Hosts == {GatewayHost} \cup {Runs[p][2] : p \in Procs}

(***************************************************************************)
(* The path of a request is the list of its segments: those before the     *)
(* last are not empty, as http.ServeMux redirects other paths.  A service  *)
(* is named by its segment, without the "-service".                        *)
(***************************************************************************)
Request == [method : {"GET", "POST"}, path : Seq(STRING)]

ASSUME DiscoveryAssumption ==
  /\ Instances = {Runs[p] : p \in Procs}
  /\ \A p \in Procs : Runs[p][1] \in Services
  /\ Joined \subseteq Hosts /\ Reachable \subseteq Hosts
  /\ Requests \subseteq Request
  /\ \A r \in Requests : /\ r.path # <<>>
                         /\ \A k \in 1 .. Len(r.path) - 1 : r.path[k] # ""

VARIABLES proc,      \* how far each process has come
          http,      \* each request, as its client sees it
          ready      \* history: requests whose service nobody has disturbed

vars == <<consulVars, proc, http, ready>>

HttpStates ==
  [st : {"new"}]
    \cup [st : {"routing", "lost"}, req : Requests]
    \cup [st : {"proxying"}, req : Requests, named : Instances, to : Services \X Hosts]
    \cup [st : {"serving"}, req : Requests, by : Procs]
    \cup [st : {"answered"}, req : Requests, status : {200, 400, 404, 405, 502, 503}]

(* The types, with Consul's; one process at most has the port of a service on a host. *)
DiscoveryTypeOK ==
  /\ ConsulTypeOK
  /\ proc \in [Procs -> {"down", "starting", "registered", "listening"}]
  /\ \A p, q \in Procs : Runs[p] = Runs[q] /\ proc[p] = "listening"
                             /\ proc[q] = "listening" => p = q
  /\ http \in [Calls -> HttpStates]
  /\ ready \subseteq Calls

Init == /\ ConsulInit
        /\ proc = [p \in Procs |-> "down"]
        /\ http = [c \in Calls |-> [st |-> "new"]]
        /\ ready = {}

-----------------------------------------------------------------------------
(* The services *)

Listeners(instance) == {p \in Procs : Runs[p] = instance /\ proc[p] = "listening"}

Become(p, st) == proc' = [proc EXCEPT ![p] = st]

Launch(p) == /\ proc[p] = "down"
             /\ Become(p, "starting")
             /\ UNCHANGED <<consulVars, http>>

(* The first thing main does; without an agent to talk to, log.Fatalf. *)
registerServiceWithConsul(p) ==
  /\ proc[p] = "starting"
  /\ \/ /\ Runs[p][2] \in Joined
        /\ ServiceRegister(Runs[p])
        /\ Become(p, "registered")
     \/ /\ ~consulUp \/ Runs[p][2] \notin Joined
        /\ Become(p, "down")
        /\ UNCHANGED consulVars
  /\ UNCHANGED http

(* Mutant: a server that shares the port. *)
ListenAndServe_ReusePort(p) == /\ proc[p] = "registered"
                               /\ Become(p, "listening")
                               /\ UNCHANGED <<consulVars, http>>

(* Mutant: a main that cleans up, with ServiceDeregister, before it exits. *)
ListenAndServe_Deregisters(p) ==
  /\ proc[p] = "registered"
  /\ \/ /\ Listeners(Runs[p]) = {}
        /\ Become(p, "listening")
        /\ UNCHANGED consulVars
     \/ /\ Listeners(Runs[p]) # {}
        /\ Become(p, "down")
        /\ registry' = registry \ {Runs[p]}
        /\ passing' = passing \ {Runs[p]}
        /\ UNCHANGED consulUp
  /\ UNCHANGED http

(* A port that is taken: log.Fatalf.  The registration stays. *)
ListenAndServe(p) ==
  /\ proc[p] = "registered"
  /\ Become(p, IF Listeners(Runs[p]) = {} THEN "listening" ELSE "down")
  /\ UNCHANGED <<consulVars, http>>

(* Mutant: a check that passes for ever once it has passed. *)
healthCheckHandler_Sticky(i) ==
  /\ HealthCheck(i, i \in passing \/ (i[2] \in Reachable /\ Listeners(i) # {}))
  /\ UNCHANGED <<proc, http>>

(* Mutant: a check with DeregisterCriticalServiceAfter. *)
healthCheckHandler_Deregisters(i) ==
  /\ \/ /\ i[2] \in Reachable /\ Listeners(i) # {}
        /\ HealthCheck(i, TRUE)
     \/ /\ i[2] \notin Reachable \/ Listeners(i) = {}
        /\ consulUp
        /\ registry' = registry \ {i}
        /\ passing' = passing \ {i}
        /\ UNCHANGED consulUp
  /\ UNCHANGED <<proc, http>>

(* Every ten seconds Consul polls /health under the name of the host. *)
healthCheckHandler(i) ==
  /\ HealthCheck(i, i[2] \in Reachable /\ Listeners(i) # {})
  /\ UNCHANGED <<proc, http>>

Answered(h, status) == [st |-> "answered", req |-> h.req, status |-> status]

(* The process dies: its connections break, and the proxy answers 502. *)
Crash(p) == /\ "services" \in Faults
            /\ proc[p] # "down"
            /\ Become(p, "down")
            /\ http' = [c \in Calls |->
                          IF http[c].st = "serving" /\ http[c].by = p
                            THEN Answered(http[c], 502) ELSE http[c]]
            /\ UNCHANGED consulVars

(* What the router of a service answers: its one route is GET /<service>/{id}. *)
Response(service, r) ==
  LET path == Tail(r.path)
  IN  IF Len(path) # 2 \/ path[1] # service \/ path[2] = "" THEN 404
      ELSE IF r.method # "GET" THEN 405 ELSE 200

getHandler(c) ==
  /\ http[c].st = "serving"
  /\ http' = [http EXCEPT ![c] = Answered(@, Response(Runs[http[c].by][1], http[c].req))]
  /\ UNCHANGED <<consulVars, proc>>

-----------------------------------------------------------------------------
(* The gateway *)

(* routeRequest checks the path, and goes on to discoverService. *)
routeRequest(c, r) ==
  /\ http[c].st = "new"
  /\ http' = [http EXCEPT ![c] =
                IF Len(r.path) < 3 \/ r.path[1] # "api"
                  THEN [st |-> "answered", req |-> r, status |-> 400]
                  ELSE [st |-> "routing", req |-> r]]
  /\ UNCHANGED <<consulVars, proc>>

(* Address: "localhost", with the port of the service. *)
Address(instance) == <<instance[1], GatewayHost>>

(* The first healthy instance Consul returns, which may be any. *)
discoverService(c) ==
  LET name  == http[c].req.path[2]
      found == {i \in Healthy(Instances) : i[1] = name}
  IN  /\ http[c].st = "routing"
      /\ IF consulUp /\ found # {}
           THEN \E i \in found :
                  http' = [http EXCEPT ![c] =
                             [st |-> "proxying", req |-> @.req, named |-> i, to |-> Address(i)]]
           ELSE http' = [http EXCEPT ![c] = Answered(@, 503)]
      /\ UNCHANGED <<consulVars, proc>>

(* Mutant: no answer while nobody listens. *)
ServeHTTP_Waits(c) ==
  /\ http[c].st = "proxying"
  /\ \E p \in Listeners(http[c].to) :
       http' = [http EXCEPT ![c] = [st |-> "serving", req |-> @.req, by |-> p]]
  /\ UNCHANGED <<consulVars, proc>>

(* proxy.ServeHTTP connects; nobody listening is answered with 502. *)
ServeHTTP(c) ==
  /\ http[c].st = "proxying"
  /\ IF Listeners(http[c].to) = {}
       THEN http' = [http EXCEPT ![c] = Answered(@, 502)]
       ELSE \E p \in Listeners(http[c].to) :
              http' = [http EXCEPT ![c] = [st |-> "serving", req |-> @.req, by |-> p]]
  /\ UNCHANGED <<consulVars, proc>>

Pending(c) == http[c].st \in {"routing", "proxying", "serving"}

(* The gateway keeps no state between requests: it is back at once. *)
GatewayRestarts ==
  /\ "gateway" \in Faults
  /\ http' = [c \in Calls |-> IF Pending(c) THEN [st |-> "lost", req |-> http[c].req]
                                ELSE http[c]]
  /\ UNCHANGED <<consulVars, proc>>

-----------------------------------------------------------------------------
ConsulFails == "consul" \in Faults /\ ConsulStops /\ UNCHANGED <<proc, http>>

ConsulReturns == ConsulStarts /\ UNCHANGED <<proc, http>>

(* Consul runs and knows the instance beside the gateway, which listens, as healthy. *)
Steady(service) == /\ consulUp
                   /\ <<service, GatewayHost>> \in passing
                   /\ Listeners(<<service, GatewayHost>>) # {}

(* A step takes Consul down, or the listener, or registers the instance again. *)
Disturbs(service) ==
  \/ ~consulUp'
  \/ \E p \in Procs : /\ Runs[p] = <<service, GatewayHost>>
                       /\ \/ proc[p] = "listening" /\ proc'[p] # "listening"
                          \/ proc[p] = "starting" /\ proc'[p] = "registered"

(* A request is ready if its service was Steady when it arrived, and nothing *)
(* has disturbed that since.                                                 *)
Watch ==
  ready' = {c \in Calls :
              \/ /\ http[c].st = "new" /\ Pending(c)'
                 /\ Steady(http'[c].req.path[2])
              \/ c \in ready /\ (Pending(c) => ~Disturbs(http[c].req.path[2]))}

Handle(c) == discoverService(c) \/ ServeHTTP(c) \/ getHandler(c)

Next == /\ \/ \E p \in Procs : \/ Launch(p) \/ registerServiceWithConsul(p)
                               \/ ListenAndServe(p) \/ Crash(p)
           \/ \E i \in Instances : healthCheckHandler(i)
           \/ \E c \in Calls : Handle(c) \/ \E r \in Requests : routeRequest(c, r)
           \/ GatewayRestarts \/ ConsulFails \/ ConsulReturns
        /\ Watch

Spec == Init /\ [][Next]_vars

(***************************************************************************)
(* A main that has begun goes on, goroutines run, and Consul polls.        *)
(* Nobody has to launch a process, or to start Consul again.               *)
(***************************************************************************)
Fairness ==
  /\ \A p \in Procs : WF_vars((registerServiceWithConsul(p) \/ ListenAndServe(p)) /\ Watch)
  /\ \A i \in Instances : WF_vars(healthCheckHandler(i) /\ Watch)
  /\ \A c \in Calls : WF_vars(Handle(c) /\ Watch)

FairSpec == Spec /\ Fairness

-----------------------------------------------------------------------------
(***************************************************************************)
(* Once a service runs beside the gateway and Consul has seen it healthy,  *)
(* a request gets the answer of that service's router, unless the process  *)
(* stops, is registered a second time, or Consul stops while the request   *)
(* is on its way.  Other services, processes on other hosts, a second      *)
(* process that finds the port taken, dead instances that are still in the *)
(* catalogue, and the polls of Consul do it no harm (routeRequest with     *)
(* discoverService; registerServiceWithConsul and ListenAndServe).         *)
(***************************************************************************)
Undisturbed ==
  \A c \in ready : http[c].st = "answered" =>
    http[c].status = Response(http[c].req.path[2], http[c].req)

(***************************************************************************)
(* "The service will re-register itself, and its health check will turn    *)
(* green again" (practical2.md, part 7), where Consul reaches the host of  *)
(* the service: take a moment from which on Consul keeps running, and a    *)
(* process that is registered or has yet to register.  If it goes on to    *)
(* listen for ever it is found healthy, again and again, however often     *)
(* processes and Consul itself were stopped before.  A process that Consul *)
(* forgot when it was restarted is not found.                              *)
(***************************************************************************)
RestartIsFound ==
  \A p \in {q \in Procs : Runs[q][2] \in Reachable} :
    (/\ <>([]consulUp /\ (proc[p] \in {"down", "starting"} \/ Runs[p] \in registry))
     /\ <>[](proc[p] = "listening"))
      => []<>(Runs[p] \in passing)

(***************************************************************************)
(* "Within about 10 seconds, the health check will fail": an instance that *)
(* nobody serves any more is not offered for ever, although no process     *)
(* deregisters when it stops.                                              *)
(***************************************************************************)
OutageIsNoticed ==
  \A i \in Instances : (<>[]consulUp /\ <>[](Listeners(i) = {})) => <>[](i \notin passing)

(***************************************************************************)
(* Every request gets an answer, or dies with the gateway: a service that  *)
(* dies in the middle, or a Consul that is gone, does not keep it waiting. *)
(***************************************************************************)
GatewayAnswers == \A c \in Calls : Pending(c) ~> ~Pending(c)

(***************************************************************************)
(* A registration carries "the address where this service is running"      *)
(* (practical2.md:382 and users-service/main.go:68): the gateway does not  *)
(* fail to connect while the instance that Consul named listens.           *)
(***************************************************************************)
NamedInstanceServes ==
  [][\A c \in Calls : http[c].st = "proxying" /\ http'[c].st = "answered"
                         => Listeners(http[c].named) = {}]_vars
=============================================================================
