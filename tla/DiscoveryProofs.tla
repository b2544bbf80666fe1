-------------------------- MODULE DiscoveryProofs ---------------------------
(***************************************************************************)
(* The gateway of practical 2, for any number of processes, hosts and      *)
(* requests, and whatever fails: DiscoveryTypeOK and Undisturbed are       *)
(* invariants of Discovery.                                                *)
(***************************************************************************)
EXTENDS Discovery, TLAPS

USE DEF Pending

(* What a step may do to the catalogue keeps its type. *)
LEMMA ConsulTypeStep ==
  ASSUME ConsulTypeOK,
         \/ UNCHANGED consulVars
         \/ \E i \in Instances : ServiceRegister(i)
         \/ \E i \in Instances : \E b \in BOOLEAN : HealthCheck(i, b)
         \/ ConsulStops
         \/ ConsulStarts
  PROVE  ConsulTypeOK'
BY DEF ConsulTypeOK, consulVars, ServiceRegister, HealthCheck, ConsulStops, ConsulStarts

LEMMA CatalogueStep ==
  ASSUME ConsulTypeOK, Next
  PROVE  ConsulTypeOK'
<1>1. ASSUME NEW p \in Procs, registerServiceWithConsul(p) PROVE ConsulTypeOK'
  <2>1. Runs[p] \in Instances
    BY DiscoveryAssumption
  <2>2. QED BY <1>1, <2>1, ConsulTypeStep DEF registerServiceWithConsul
<1>2. ASSUME NEW i \in Instances, healthCheckHandler(i) PROVE ConsulTypeOK'
  <2>1. (i[2] \in Reachable /\ Listeners(i) # {}) \in BOOLEAN
    OBVIOUS
  <2>2. QED BY <1>2, <2>1, ConsulTypeStep DEF healthCheckHandler
<1>3. QED
  BY <1>1, <1>2, ConsulTypeStep
  DEF Next, Handle, Launch, ListenAndServe, Crash, discoverService, ServeHTTP, getHandler,
      routeRequest, GatewayRestarts, ConsulFails, ConsulReturns

-----------------------------------------------------------------------------
(***************************************************************************)
(* Where a request is on its way: discoverService has split its path, the  *)
(* proxy goes to the gateway's own host ("localhost"), and the process     *)
(* that serves it listens there.                                           *)
(***************************************************************************)
RouteInv(c) ==
  /\ Pending(c) => Len(http[c].req.path) >= 3
  /\ http[c].st = "proxying" => http[c].to = <<http[c].req.path[2], GatewayHost>>
  /\ http[c].st = "serving" => /\ Runs[http[c].by] = <<http[c].req.path[2], GatewayHost>>
                               /\ proc[http[c].by] = "listening"

(* A ready request has arrived, and while it is on its way its service is  *)
(* Steady.                                                                 *)
ReadyInv(c) == c \in ready => /\ http[c].st # "new"
                              /\ Pending(c) => Steady(http[c].req.path[2])

(* A check that has passed is one that Consul can reach. *)
CheckInv == \A i \in passing : i[2] \in Reachable

Inv == /\ DiscoveryTypeOK
       /\ Undisturbed
       /\ CheckInv
       /\ \A c \in Calls : RouteInv(c) /\ ReadyInv(c)

(* What one step does to one request. *)
Kept(c) == http'[c] = http[c]
Arrives(c) == \E r \in Requests : routeRequest(c, r)
CutOff(c) == "services" \in Faults /\ http[c].st = "serving" /\ proc'[http[c].by] = "down"
               /\ http'[c] = Answered(http[c], 502)
Lost(c) == Pending(c) /\ http'[c] = [st |-> "lost", req |-> http[c].req]

(* What one step does to one process. *)
ProcStep(p) == \/ proc'[p] = proc[p]
               \/ proc'[p] \in {"down", "starting", "registered"}
               \/ proc'[p] = "listening" /\ Listeners(Runs[p]) = {}

(* The gateway's goroutine for one request leaves the others alone. *)
LEMMA OneRequest ==
  ASSUME DiscoveryTypeOK, NEW d \in Calls, Handle(d) \/ Arrives(d)
  PROVE  /\ http' = [c \in Calls |-> http'[c]]
         /\ \A c \in Calls : c # d => http'[c] = http[c]
         /\ UNCHANGED <<consulVars, proc>>
<1>a. http = [c \in Calls |-> http[c]]
  BY DEF DiscoveryTypeOK
<1>2. CASE Arrives(d)
  <2>1. PICK r \in Requests : routeRequest(d, r)
    BY <1>2 DEF Arrives
  <2>2. QED BY <2>1, <1>a DEF routeRequest
<1>3. CASE discoverService(d)
  <2>1. CASE http' = [http EXCEPT ![d] = Answered(@, 503)]
    BY <2>1, <1>3, <1>a DEF discoverService
  <2>2. CASE \E i \in Instances :
               http' = [http EXCEPT ![d] = [st |-> "proxying", req |-> @.req, named |-> i, to |-> Address(i)]]
    <3>1. PICK i \in Instances :
               http' = [http EXCEPT ![d] = [st |-> "proxying", req |-> @.req, named |-> i, to |-> Address(i)]]
      BY <2>2
    <3>2. QED BY <3>1, <1>3, <1>a DEF discoverService
  <2>3. QED BY <2>1, <2>2, <1>3 DEF discoverService, Healthy
<1>4. CASE ServeHTTP(d)
  <2>1. CASE http' = [http EXCEPT ![d] = Answered(@, 502)]
    BY <2>1, <1>4, <1>a DEF ServeHTTP
  <2>2. CASE \E p \in Procs :
               http' = [http EXCEPT ![d] = [st |-> "serving", req |-> @.req, by |-> p]]
    <3>1. PICK p \in Procs :
               http' = [http EXCEPT ![d] = [st |-> "serving", req |-> @.req, by |-> p]]
      BY <2>2
    <3>2. QED BY <3>1, <1>4, <1>a DEF ServeHTTP
  <2>3. QED BY <2>1, <2>2, <1>4 DEF ServeHTTP, Listeners
<1>5. CASE getHandler(d)
  BY <1>5, <1>a DEF getHandler
<1>6. QED BY <1>2, <1>3, <1>4, <1>5 DEF Handle

(* Where discoverService sends a request, and what becomes of it there. *)
LEMMA DiscoverEffect ==
  ASSUME DiscoveryTypeOK, NEW c \in Calls, discoverService(c)
  PROVE  /\ http[c].st = "routing"
         /\ \/ /\ http'[c] = Answered(http[c], 503)
               /\ ~(consulUp /\ \E i \in passing : i[1] = http[c].req.path[2])
            \/ \E i \in Instances :
                 /\ i[1] = http[c].req.path[2]
                 /\ http'[c] = [st |-> "proxying", req |-> http[c].req, named |-> i, to |-> Address(i)]
<1>1. passing \subseteq Instances /\ DOMAIN http = Calls
  BY DEF DiscoveryTypeOK, ConsulTypeOK
<1>2. QED BY <1>1 DEF discoverService, Healthy

LEMMA ProxyEffect ==
  ASSUME DiscoveryTypeOK, NEW c \in Calls, ServeHTTP(c)
  PROVE  /\ http[c].st = "proxying"
         /\ \/ /\ http'[c] = Answered(http[c], 502)
               /\ Listeners(http[c].to) = {}
            \/ \E p \in Procs :
                 /\ Runs[p] = http[c].to /\ proc[p] = "listening"
                 /\ http'[c] = [st |-> "serving", req |-> http[c].req, by |-> p]
BY DEF ServeHTTP, Listeners, DiscoveryTypeOK

LEMMA ServiceEffect ==
  ASSUME DiscoveryTypeOK, NEW c \in Calls, getHandler(c)
  PROVE  /\ http[c].st = "serving"
         /\ http'[c] = Answered(http[c], Response(Runs[http[c].by][1], http[c].req))
BY DEF getHandler, DiscoveryTypeOK

LEMMA ResponseType ==
  ASSUME NEW service, NEW r
  PROVE  Response(service, r) \in {200, 404, 405}
BY DEF Response

(* Only a crash ends a process that listens. *)
LEMMA ListenerStays ==
  ASSUME DiscoveryTypeOK, [Next]_vars, NEW q \in Procs,
         proc[q] = "listening", proc'[q] # "listening"
  PROVE  Crash(q)
<1>a. proc \in [Procs -> {"down", "starting", "registered", "listening"}]
  BY DEF DiscoveryTypeOK
<1>1. ASSUME NEW p \in Procs, NEW st, Become(p, st) PROVE p = q
  BY <1>1, <1>a DEF Become
<1>2. ASSUME NEW p \in Procs, Launch(p) \/ registerServiceWithConsul(p) \/ ListenAndServe(p)
      PROVE  FALSE
  <2>1. p = q
    BY <1>2, <1>1 DEF Launch, registerServiceWithConsul, ListenAndServe
  <2>2. proc[p] # "listening"
    BY <1>2 DEF Launch, registerServiceWithConsul, ListenAndServe
  <2>3. QED BY <2>1, <2>2
<1>3. ASSUME NEW p \in Procs, Crash(p) PROVE Crash(q)
  <2>1. p = q
    BY <1>3, <1>1 DEF Crash
  <2>2. QED BY <1>3, <2>1, Zenon
<1>4. proc' # proc
  OBVIOUS
<1>5. QED
  BY <1>2, <1>3, <1>4
  DEF Next, vars, Handle, discoverService, ServeHTTP, getHandler, routeRequest,
      healthCheckHandler, GatewayRestarts, ConsulFails, ConsulReturns

LEMMA RequestsStay ==
  ASSUME DiscoveryTypeOK, [Next]_vars
  PROVE  http' = [c \in Calls |-> http'[c]]
<1>a. http = [c \in Calls |-> http[c]]
  BY DEF DiscoveryTypeOK
<1>1. ASSUME NEW d \in Calls, Handle(d) \/ Arrives(d)
      PROVE  http' = [c \in Calls |-> http'[c]]
  BY <1>1, OneRequest
<1>2. QED
  BY <1>1, <1>a
  DEF Next, vars, Launch, registerServiceWithConsul, ListenAndServe, healthCheckHandler,
      Crash, GatewayRestarts, ConsulFails, ConsulReturns, Arrives

LEMMA RequestStep ==
  ASSUME DiscoveryTypeOK, [Next]_vars, NEW c \in Calls
  PROVE  \/ Kept(c)
         \/ UNCHANGED <<consulVars, proc>> /\ (Arrives(c) \/ Handle(c))
         \/ CutOff(c) \/ Lost(c)
<1>a. http \in [Calls -> HttpStates] /\ proc \in [Procs -> {"down", "starting", "registered", "listening"}]
  BY DEF DiscoveryTypeOK
<1>1. CASE UNCHANGED vars
  BY <1>1 DEF vars, Kept
<1>2. ASSUME NEW p \in Procs, Crash(p) PROVE Kept(c) \/ CutOff(c)
  BY <1>2, <1>a DEF Crash, Become, Kept, CutOff
<1>3. ASSUME NEW d \in Calls, Handle(d) \/ Arrives(d)
      PROVE  Kept(c) \/ (UNCHANGED <<consulVars, proc>> /\ (Arrives(c) \/ Handle(c)))
  <2>1. CASE d = c
    <3>1. UNCHANGED <<consulVars, proc>>
      BY <1>3, OneRequest
    <3>2. Handle(c) \/ Arrives(c)
      BY <1>3, <2>1, Zenon
    <3>3. QED BY <3>1, <3>2
  <2>2. CASE d # c
    <3>1. \A e \in Calls : e # d => http'[e] = http[e]
      BY <1>3, OneRequest
    <3>2. QED BY <2>2, <3>1 DEF Kept
  <2>3. QED BY <2>1, <2>2
<1>4. CASE GatewayRestarts
  BY <1>4 DEF GatewayRestarts, Kept, Lost
<1>5. QED
  BY <1>1, <1>2, <1>3, <1>4
  DEF Next, Launch, registerServiceWithConsul, ListenAndServe, healthCheckHandler,
      ConsulFails, ConsulReturns, Kept, Arrives

LEMMA ProcessStep ==
  ASSUME DiscoveryTypeOK, [Next]_vars
  PROVE  /\ proc' \in [Procs -> {"down", "starting", "registered", "listening"}]
         /\ \A p \in Procs : ProcStep(p)
         /\ \A p, q \in Procs : proc'[p] # proc[p] /\ proc'[q] # proc[q] => p = q
<1>a. proc \in [Procs -> {"down", "starting", "registered", "listening"}]
  BY DEF DiscoveryTypeOK
<1>1. CASE UNCHANGED proc
  BY <1>1, <1>a DEF ProcStep
<1>2. ASSUME NEW q \in Procs, NEW st \in {"down", "starting", "registered", "listening"},
             Become(q, st), st = "listening" => Listeners(Runs[q]) = {}
      PROVE  /\ proc' \in [Procs -> {"down", "starting", "registered", "listening"}]
             /\ \A p \in Procs : ProcStep(p)
             /\ \A p \in Procs : p # q => proc'[p] = proc[p]
  BY <1>2, <1>a DEF Become, ProcStep
<1>3. ASSUME NEW q \in Procs, Launch(q) \/ registerServiceWithConsul(q) \/ Crash(q)
                                \/ ListenAndServe(q)
      PROVE  UNCHANGED proc \/ \E st \in {"down", "starting", "registered", "listening"} :
               Become(q, st) /\ (st = "listening" => Listeners(Runs[q]) = {})
  BY <1>3 DEF Launch, registerServiceWithConsul, Crash, ListenAndServe
<1>4. ASSUME NEW q \in Procs, Launch(q) \/ registerServiceWithConsul(q) \/ Crash(q)
                                \/ ListenAndServe(q)
      PROVE  /\ proc' \in [Procs -> {"down", "starting", "registered", "listening"}]
             /\ \A p \in Procs : ProcStep(p)
             /\ \A p \in Procs : p # q => proc'[p] = proc[p]
  BY <1>1, <1>2, <1>3, <1>4, <1>a
<1>5. \/ UNCHANGED proc
      \/ \E q \in Procs : Launch(q) \/ registerServiceWithConsul(q) \/ Crash(q)
                            \/ ListenAndServe(q)
  BY DEF Next, vars, Handle, discoverService, ServeHTTP, getHandler, routeRequest,
         healthCheckHandler, GatewayRestarts, ConsulFails, ConsulReturns
<1>6. QED BY <1>1, <1>4, <1>5

-----------------------------------------------------------------------------
(* A request keeps its type, whatever happens to it. *)
LEMMA TypeStep ==
  ASSUME Inv, [Next]_vars
  PROVE  DiscoveryTypeOK'
<1>t. DiscoveryTypeOK
  BY DEF Inv
<1>1. ConsulTypeOK'
  <2>1. ConsulTypeOK
    BY <1>t DEF DiscoveryTypeOK
  <2>2. CASE UNCHANGED vars
    BY <2>1, <2>2, ConsulTypeStep DEF vars
  <2>3. QED BY <2>1, <2>2, CatalogueStep
<1>2. (\A p, q \in Procs : Runs[p] = Runs[q] /\ proc[p] = "listening"
                             /\ proc[q] = "listening" => p = q)'
  BY <1>t, ProcessStep DEF DiscoveryTypeOK, ProcStep, Listeners
<1>3. ASSUME NEW c \in Calls PROVE http'[c] \in HttpStates
  <2>a. http[c] \in HttpStates
    BY <1>t DEF DiscoveryTypeOK
  <2>b. http[c].st # "new" => http[c].req \in Requests
    BY <2>a DEF HttpStates
  <2>1. CASE Arrives(c)
    <3>1. PICK r \in Requests : routeRequest(c, r)
      BY <2>1 DEF Arrives
    <3>2. http'[c] \in {[st |-> "answered", req |-> r, status |-> 400], [st |-> "routing", req |-> r]}
      BY <3>1, <1>t DEF routeRequest, DiscoveryTypeOK
    <3>3. QED BY <3>2 DEF HttpStates
  <2>2. CASE discoverService(c)
    <3>1. CASE http'[c] = Answered(http[c], 503)
      BY <3>1, <2>2, <2>b DEF discoverService, HttpStates, Answered
    <3>2. ASSUME NEW i \in Instances,
                 http'[c] = [st |-> "proxying", req |-> http[c].req, named |-> i, to |-> Address(i)]
          PROVE  http'[c] \in HttpStates
      <4>1. Address(i) \in Services \X Hosts
        BY DiscoveryAssumption DEF Address, Hosts
      <4>2. http[c].req \in Requests
        BY <2>2, <2>b DEF discoverService
      <4>3. QED BY <3>2, <4>1, <4>2 DEF HttpStates
    <3>3. QED BY <2>2, <1>t, <3>1, <3>2, DiscoverEffect
  <2>3. CASE ServeHTTP(c)
    <3>1. CASE http'[c] = Answered(http[c], 502)
      BY <3>1, <2>3, <2>b DEF ServeHTTP, HttpStates, Answered
    <3>2. ASSUME NEW p \in Procs, http'[c] = [st |-> "serving", req |-> http[c].req, by |-> p]
          PROVE  http'[c] \in HttpStates
      BY <3>2, <2>3, <2>b DEF ServeHTTP, HttpStates
    <3>3. QED BY <2>3, <1>t, <3>1, <3>2, ProxyEffect
  <2>4. CASE getHandler(c)
    <3>1. PICK s \in {200, 404, 405} : http'[c] = Answered(http[c], s)
      BY <2>4, <1>t, ServiceEffect, ResponseType
    <3>2. s \in {200, 400, 404, 405, 502, 503} /\ http[c].req \in Requests
      <4>1. http[c].st = "serving"
        BY <2>4 DEF getHandler
      <4>2. QED BY <4>1, <2>b
    <3>3. QED BY <3>1, <3>2 DEF HttpStates, Answered
  <2>5. CASE CutOff(c) \/ Lost(c)
    BY <2>5, <2>b DEF CutOff, Lost, HttpStates, Answered
  <2>6. QED BY <2>a, <2>1, <2>2, <2>3, <2>4, <2>5, <1>t, RequestStep DEF Kept, Handle
<1>4. http' \in [Calls -> HttpStates]
  BY <1>t, <1>3, RequestsStay
<1>5. ready' \subseteq Calls
  BY <1>t DEF DiscoveryTypeOK, Next, Watch, vars
<1>6. QED
  BY <1>t, <1>1, <1>2, <1>4, <1>5, ProcessStep DEF DiscoveryTypeOK

(* A request on its way stays where discoverService sent it. *)
LEMMA RouteStep ==
  ASSUME Inv, [Next]_vars, NEW c \in Calls
  PROVE  RouteInv(c)'
<1>t. DiscoveryTypeOK /\ RouteInv(c) /\ http[c] \in HttpStates
  BY DEF Inv, DiscoveryTypeOK
<1>1. CASE Kept(c)
  <2>1. ASSUME http[c].st = "serving" PROVE proc'[http[c].by] = "listening"
    <3>1. http[c].by \in Procs /\ proc[http[c].by] = "listening"
      BY <1>t, <2>1 DEF RouteInv, HttpStates
    <3>2. ASSUME Crash(http[c].by) PROVE FALSE
      <4>1. http'[c] = Answered(http[c], 502)
        BY <3>2, <2>1 DEF Crash
      <4>2. QED BY <4>1, <2>1, <1>1 DEF Answered, Kept
    <3>3. QED BY <1>t, <3>1, <3>2, ListenerStays
  <2>2. QED BY <1>1, <1>t, <2>1 DEF Kept, RouteInv
<1>2. CASE UNCHANGED <<consulVars, proc>> /\ Arrives(c)
  <2>1. PICK r \in Requests : routeRequest(c, r)
    BY <1>2 DEF Arrives
  <2>2. \/ http'[c] = [st |-> "answered", req |-> r, status |-> 400]
        \/ http'[c] = [st |-> "routing", req |-> r] /\ ~(Len(r.path) < 3)
    <3>1. CASE Len(r.path) < 3 \/ r.path[1] # "api"
      BY <2>1, <1>t, <3>1 DEF routeRequest, DiscoveryTypeOK
    <3>2. CASE ~(Len(r.path) < 3 \/ r.path[1] # "api")
      BY <2>1, <1>t, <3>2 DEF routeRequest, DiscoveryTypeOK
    <3>3. QED BY <3>1, <3>2
  <2>3. Len(r.path) \in Nat
    <3>1. r \in Request
      BY DiscoveryAssumption
    <3>2. r.path \in Seq(STRING)
      BY <3>1 DEF Request
    <3>3. QED BY <3>2
  <2>4. QED BY <2>2, <2>3 DEF RouteInv
<1>3. CASE UNCHANGED proc /\ discoverService(c)
  <2>1. CASE http'[c] = Answered(http[c], 503)
    BY <2>1 DEF RouteInv, Answered
  <2>2. ASSUME NEW i \in Instances, i[1] = http[c].req.path[2],
               http'[c] = [st |-> "proxying", req |-> http[c].req, named |-> i, to |-> Address(i)]
        PROVE  RouteInv(c)'
    BY <1>3, <1>t, <2>2 DEF RouteInv, Address, discoverService
  <2>3. QED BY <1>3, <1>t, <2>1, <2>2, DiscoverEffect
<1>4. CASE UNCHANGED proc /\ ServeHTTP(c)
  <2>1. CASE http'[c] = Answered(http[c], 502)
    BY <2>1 DEF RouteInv, Answered
  <2>2. ASSUME NEW p \in Procs, Runs[p] = http[c].to, proc[p] = "listening",
               http'[c] = [st |-> "serving", req |-> http[c].req, by |-> p]
        PROVE  RouteInv(c)'
    BY <1>4, <1>t, <2>2 DEF RouteInv, ServeHTTP
  <2>3. QED BY <1>4, <1>t, <2>1, <2>2, ProxyEffect
<1>5. CASE getHandler(c)
  <2>1. PICK s : http'[c] = Answered(http[c], s)
    BY <1>5, <1>t, ServiceEffect
  <2>2. http'[c].st = "answered"
    BY <2>1 DEF Answered
  <2>3. QED BY <2>2 DEF RouteInv
<1>6. CASE CutOff(c) \/ Lost(c)
  BY <1>6 DEF CutOff, Lost, RouteInv, Answered
<1>7. QED BY <1>t, <1>1, <1>2, <1>3, <1>4, <1>5, <1>6, RequestStep DEF Handle

-----------------------------------------------------------------------------
(* What Watch records of a request that is ready after the step. *)
LEMMA WatchEffect ==
  ASSUME Next, NEW c \in Calls, c \in ready'
  PROVE  \/ /\ http[c].st = "new" /\ Pending(c)'
            /\ Steady(http'[c].req.path[2])
         \/ c \in ready /\ (Pending(c) => ~Disturbs(http[c].req.path[2]))
BY DEF Next, Watch

(* Consul's checks pass for the hosts that it reaches. *)
LEMMA CheckStep ==
  ASSUME Inv, [Next]_vars
  PROVE  CheckInv'
<1>1. CheckInv
  BY DEF Inv
<1>2. ASSUME NEW p \in Procs, registerServiceWithConsul(p) PROVE CheckInv'
  BY <1>1, <1>2 DEF registerServiceWithConsul, ServiceRegister, CheckInv, consulVars
<1>3. ASSUME NEW i \in Instances, healthCheckHandler(i) PROVE CheckInv'
  BY <1>1, <1>3 DEF healthCheckHandler, HealthCheck, CheckInv
<1>4. CASE ConsulFails \/ ConsulReturns \/ UNCHANGED consulVars
  BY <1>1, <1>4 DEF ConsulFails, ConsulReturns, ConsulStops, ConsulStarts, CheckInv, consulVars
<1>5. QED
  BY <1>2, <1>3, <1>4
  DEF Next, vars, Handle, Launch, ListenAndServe, Crash, discoverService, ServeHTTP,
      getHandler, routeRequest, GatewayRestarts

(* A step that does not disturb a steady service leaves it steady. *)
LEMMA SteadyStep ==
  ASSUME Inv, Next, NEW s, Steady(s), ~Disturbs(s)
  PROVE  Steady(s)'
<1> DEFINE i == <<s, GatewayHost>>
<1>1. consulUp /\ i \in passing /\ consulUp'
  BY DEF Steady, Disturbs
<1>2. Listeners(i)' # {}
  <2>1. PICK p \in Procs : Runs[p] = i /\ proc[p] = "listening"
    BY DEF Steady, Listeners
  <2>2. proc'[p] = "listening"
    BY <2>1 DEF Disturbs
  <2>3. QED BY <2>1, <2>2 DEF Listeners
<1>3. i \in passing'
  <2>1. ASSUME NEW p \in Procs, registerServiceWithConsul(p) PROVE i \in passing'
    <3>1. CASE Become(p, "down") /\ UNCHANGED consulVars
      BY <3>1, <1>1 DEF consulVars
    <3>2. CASE Become(p, "registered") /\ ServiceRegister(Runs[p])
      <4>1. proc[p] = "starting" /\ proc'[p] = "registered"
        BY <3>2, <2>1 DEF Become, registerServiceWithConsul, Inv, DiscoveryTypeOK
      <4>2. Runs[p] # i
        BY <4>1 DEF Disturbs
      <4>3. QED BY <3>2, <4>2, <1>1 DEF ServiceRegister
    <3>3. QED BY <2>1, <3>1, <3>2 DEF registerServiceWithConsul
  <2>2. ASSUME NEW j \in Instances, healthCheckHandler(j) PROVE i \in passing'
    <3>1. CASE j # i
      BY <2>2, <3>1, <1>1 DEF healthCheckHandler, HealthCheck
    <3>2. CASE j = i
      <4>1. i[2] \in Reachable /\ Listeners(i) # {}
        BY <1>1 DEF Inv, CheckInv, Steady
      <4>2. QED BY <2>2, <3>2, <4>1, <1>1 DEF healthCheckHandler, HealthCheck
    <3>3. QED BY <3>1, <3>2
  <2>3. CASE ConsulFails \/ ConsulReturns
    BY <2>3, <1>1 DEF ConsulFails, ConsulReturns, ConsulStops, ConsulStarts
  <2>4. CASE UNCHANGED consulVars
    BY <2>4, <1>1 DEF consulVars
  <2>5. QED
    BY <2>1, <2>2, <2>3, <2>4
    DEF Next, Handle, Launch, ListenAndServe, Crash, discoverService, ServeHTTP,
        getHandler, routeRequest, GatewayRestarts
<1>4. QED BY <1>1, <1>2, <1>3 DEF Steady

(* A step keeps the request, and only arrival makes it one that is on its way. *)
LEMMA StaysTheSame ==
  ASSUME Inv, [Next]_vars, NEW c \in Calls, http[c].st # "new"
  PROVE  /\ http'[c].st # "new"
         /\ Pending(c)' => Pending(c)
         /\ http'[c].req = http[c].req
<1>t. DiscoveryTypeOK
  BY DEF Inv
<1>1. CASE Kept(c)
  BY <1>1 DEF Kept
<1>2. CASE Arrives(c)
  BY <1>2 DEF Arrives, routeRequest
<1>3. CASE Handle(c)
  <2>1. Pending(c)
    BY <1>3 DEF Handle, discoverService, ServeHTTP, getHandler
  <2>2. \/ \E s : http'[c] = Answered(http[c], s)
        \/ \E i \in Instances :
             http'[c] = [st |-> "proxying", req |-> http[c].req, named |-> i, to |-> Address(i)]
        \/ \E p \in Procs : http'[c] = [st |-> "serving", req |-> http[c].req, by |-> p]
    <3>1. CASE discoverService(c)
      BY <3>1, <1>t, DiscoverEffect
    <3>2. CASE ServeHTTP(c)
      BY <3>2, <1>t, ProxyEffect
    <3>3. CASE getHandler(c)
      BY <3>3, <1>t, ServiceEffect
    <3>4. QED BY <1>3, <3>1, <3>2, <3>3 DEF Handle
  <2>3. http'[c].st # "new" /\ http'[c].req = http[c].req
    <3>1. ASSUME NEW s, http'[c] = Answered(http[c], s)
          PROVE  http'[c].st # "new" /\ http'[c].req = http[c].req
      BY <3>1 DEF Answered
    <3>2. ASSUME NEW i \in Instances,
            http'[c] = [st |-> "proxying", req |-> http[c].req, named |-> i, to |-> Address(i)]
          PROVE  http'[c].st # "new" /\ http'[c].req = http[c].req
      BY <3>2
    <3>3. ASSUME NEW p \in Procs, http'[c] = [st |-> "serving", req |-> http[c].req, by |-> p]
          PROVE  http'[c].st # "new" /\ http'[c].req = http[c].req
      BY <3>3
    <3>4. QED BY <2>2, <3>1, <3>2, <3>3
  <2>4. QED BY <2>1, <2>3
<1>4. CASE CutOff(c) \/ Lost(c)
  BY <1>4 DEF CutOff, Lost, Answered
<1>5. QED BY <1>t, <1>1, <1>2, <1>3, <1>4, RequestStep

LEMMA ReadyStep ==
  ASSUME Inv, [Next]_vars, NEW c \in Calls
  PROVE  ReadyInv(c)'
<1>t. DiscoveryTypeOK /\ ReadyInv(c)
  BY DEF Inv
<1>1. CASE UNCHANGED vars
  <2>1. ASSUME NEW s PROVE Steady(s)' = Steady(s)
    BY <1>1 DEF Steady, Listeners, vars, consulVars
  <2>2. QED BY <1>1, <1>t, <2>1 DEF ReadyInv, vars
<1>2. CASE Next
  <2> SUFFICES ASSUME c \in ready'
               PROVE  /\ http'[c].st # "new"
                      /\ Pending(c)' => Steady(http[c].req.path[2])'
    BY DEF ReadyInv
  <2>1. CASE http[c].st = "new"
    <3>1. Pending(c)' /\ Steady(http'[c].req.path[2])
      BY <1>2, <1>t, <2>1, WatchEffect DEF ReadyInv
    <3>2. UNCHANGED <<consulVars, proc>>
      BY <1>2, <1>t, <2>1, <3>1, RequestStep DEF Kept, CutOff, Lost
    <3>3. ASSUME NEW s, Steady(s) PROVE Steady(s)'
      BY <3>2, <3>3 DEF Steady, Listeners, consulVars
    <3>4. QED BY <3>1, <3>3
  <2>2. CASE http[c].st # "new"
    <3>1. c \in ready /\ (Pending(c) => ~Disturbs(http[c].req.path[2]))
      BY <1>2, <2>2, WatchEffect
    <3>2. /\ http'[c].st # "new"
          /\ Pending(c)' => Pending(c)
          /\ http'[c].req = http[c].req
      BY <2>2, StaysTheSame
    <3>3. ASSUME Pending(c) PROVE Steady(http[c].req.path[2])'
      <4> DEFINE s == http[c].req.path[2]
      <4>1. Steady(s) /\ ~Disturbs(s)
        BY <3>1, <3>3, <1>t DEF ReadyInv
      <4>2. s' = s
        BY <3>2
      <4> HIDE DEF s
      <4>3. ASSUME NEW x, Steady(x), ~Disturbs(x) PROVE Steady(x)'
        BY <4>3, <1>2, SteadyStep
      <4>4. Steady(s)'
        BY <4>1, <4>2, <4>3
      <4>5. QED BY <4>4 DEF s
    <3>4. QED BY <3>2, <3>3
  <2>3. QED BY <2>1, <2>2
<1>3. QED BY <1>1, <1>2

(* The error answers of the gateway are not for ready requests. *)
LEMMA AnswerStep ==
  ASSUME Inv, [Next]_vars
  PROVE  Undisturbed'
<1> SUFFICES ASSUME Next PROVE Undisturbed'
  <2>1. CASE UNCHANGED vars
    <3>1. http' = http /\ ready' = ready
      BY <2>1 DEF vars
    <3>2. QED BY <3>1 DEF Inv, Undisturbed, Response
  <2>2. QED BY <2>1
<1>t. DiscoveryTypeOK /\ ready' \subseteq Calls
  BY TypeStep DEF Inv, DiscoveryTypeOK
<1> SUFFICES ASSUME NEW c \in Calls, c \in ready', http'[c].st = "answered"
             PROVE  http'[c].status = Response(http'[c].req.path[2], http'[c].req)
  BY <1>t DEF Undisturbed, Response
<1> DEFINE s == http[c].req.path[2]
<1>r. RouteInv(c) /\ ReadyInv(c) /\ http[c] \in HttpStates
  BY DEF Inv, DiscoveryTypeOK
<1>w. /\ c \in ready /\ http[c].st # "new"
      /\ Pending(c) => Steady(s) /\ ~Disturbs(s)
  BY <1>r, WatchEffect DEF ReadyInv
<1>1. CASE Kept(c)
  BY <1>1, <1>w DEF Inv, Undisturbed, Kept
<1>2. CASE Arrives(c)
  BY <1>2, <1>w DEF Arrives, routeRequest
<1>3. CASE discoverService(c)
  <2>1. consulUp /\ <<s, GatewayHost>> \in passing
    BY <1>3, <1>w DEF discoverService, Steady
  <2>2. <<s, GatewayHost>>[1] = s
    OBVIOUS
  <2>3. PICK i \in Instances :
          http'[c] = [st |-> "proxying", req |-> http[c].req, named |-> i, to |-> Address(i)]
    BY <1>3, <1>t, <2>1, <2>2, DiscoverEffect
  <2>4. QED BY <2>3
<1>4. CASE ServeHTTP(c)
  <2>1. Listeners(<<s, GatewayHost>>) # {}
    BY <1>4, <1>w DEF ServeHTTP, Steady
  <2>2. http[c].to = <<s, GatewayHost>>
    BY <1>4, <1>r DEF ServeHTTP, RouteInv
  <2>3. PICK p \in Procs : http'[c] = [st |-> "serving", req |-> http[c].req, by |-> p]
    BY <1>4, <1>t, <2>1, <2>2, ProxyEffect
  <2>4. QED BY <2>3
<1>5. CASE getHandler(c)
  <2>1. http[c].st = "serving" /\ http'[c] = Answered(http[c], Response(Runs[http[c].by][1], http[c].req))
    BY <1>5, <1>t, ServiceEffect
  <2>2. Runs[http[c].by][1] = s
    BY <2>1, <1>r DEF RouteInv
  <2>3. QED BY <2>1, <2>2 DEF Answered
<1>6. CASE CutOff(c)
  <2>1. http[c].st = "serving" /\ proc'[http[c].by] = "down"
    BY <1>6 DEF CutOff
  <2>2. http[c].by \in Procs
    BY <2>1, <1>r DEF HttpStates
  <2>3. Runs[http[c].by] = <<s, GatewayHost>> /\ proc[http[c].by] = "listening"
    BY <2>1, <1>r DEF RouteInv
  <2>4. Disturbs(s)
    BY <2>1, <2>2, <2>3 DEF Disturbs
  <2>5. QED BY <2>1, <2>4, <1>w
<1>7. CASE Lost(c)
  BY <1>7 DEF Lost
<1>8. QED BY <1>t, <1>1, <1>2, <1>3, <1>4, <1>5, <1>6, <1>7, RequestStep DEF Handle

-----------------------------------------------------------------------------
LEMMA DiscoveryInvariant == Spec => []Inv
<1>1. Init => Inv
  <2> SUFFICES ASSUME Init PROVE Inv
    OBVIOUS
  <2>1. \A c \in Calls : http[c].st = "new"
    BY DEF Init
  <2>2. DiscoveryTypeOK
    <3>1. ConsulTypeOK
      BY DEF Init, ConsulInit, ConsulTypeOK
    <3>2. \A p \in Procs : proc[p] # "listening"
      BY DEF Init
    <3>3. http \in [Calls -> HttpStates]
      BY DEF Init, HttpStates
    <3>4. proc \in [Procs -> {"down", "starting", "registered", "listening"}]
      BY DEF Init
    <3>5. QED BY <3>1, <3>2, <3>3, <3>4 DEF Init, DiscoveryTypeOK
  <2>3. QED BY <2>1, <2>2 DEF Init, ConsulInit, Inv, Undisturbed, CheckInv, RouteInv, ReadyInv
<1>2. Inv /\ [Next]_vars => Inv'
  BY TypeStep, RouteStep, ReadyStep, CheckStep, AnswerStep DEF Inv
<1>3. QED BY <1>1, <1>2, PTL DEF Spec

(***************************************************************************)
(* The variables keep their types, and however mains race for a port       *)
(* (ListenAndServe of users-service and products-service), one process at  *)
(* most has the port of a service on a host.                               *)
(***************************************************************************)
THEOREM DiscoveryTypeCorrect == Spec => []DiscoveryTypeOK
<1>1. Inv => DiscoveryTypeOK
  BY DEF Inv
<1>2. QED BY <1>1, DiscoveryInvariant, PTL

(***************************************************************************)
(* A request to a service that runs beside the gateway and that Consul has *)
(* seen healthy gets the answer of the service's router, as long as        *)
(* nothing stops the process, Consul, or registers it again, whatever      *)
(* crashes, takes the port, or is stale elsewhere (practical 2's           *)
(* routeRequest).                                                          *)
(***************************************************************************)
THEOREM UndisturbedRequestsAreAnswered == Spec => []Undisturbed
<1>1. Inv => Undisturbed
  BY DEF Inv
<1>2. QED BY <1>1, DiscoveryInvariant, PTL
=============================================================================
