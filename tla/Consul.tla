------------------------------- MODULE Consul -------------------------------
(***************************************************************************)
(* The Consul agent of practicals 2 and 4, as the services use it:         *)
(* ServiceRegister puts an instance and its HTTP check in the catalogue,   *)
(* the agent polls the check, and Health().Service returns the instances   *)
(* whose last check passed.  Nobody deregisters.  Consul itself is outside *)
(* the repository.                                                         *)
(***************************************************************************)
CONSTANTS Instances,    \* the ids under which processes register
          Durable       \* whether the catalogue outlives the agent

ASSUME ConsulAssumption == Durable \in BOOLEAN

VARIABLES consulUp,     \* whether the agent can be reached
          registry,     \* the registered instances
          passing       \* those whose last check passed

consulVars == <<consulUp, registry, passing>>

ConsulTypeOK == /\ consulUp \in BOOLEAN
                /\ registry \subseteq Instances
                /\ passing \subseteq registry

ConsulInit == /\ consulUp \in BOOLEAN
              /\ registry = {}
              /\ passing = {}

(* A new check is critical until it has been polled; registering an id a   *)
(* second time may keep the status of its check.                           *)
ServiceRegister(i) == /\ consulUp
                      /\ registry' = registry \cup {i}
                      /\ passing' \in {passing, passing \ {i}}
                      /\ UNCHANGED consulUp

(* The agent polls the check of instance i, which answers or does not. *)
HealthCheck(i, answers) ==
  /\ consulUp
  /\ i \in registry
  /\ passing' = IF answers THEN passing \cup {i} ELSE passing \ {i}
  /\ UNCHANGED <<consulUp, registry>>

(* The instances that Health().Service(..., passingOnly = true) may return. *)
Healthy(instances) == passing \cap instances

ConsulStops == /\ consulUp
               /\ consulUp' = FALSE
               /\ UNCHANGED <<registry, passing>>

(* After a start every check is critical until it has been polled. *)
ConsulStarts == /\ ~consulUp
                /\ consulUp' = TRUE
                /\ registry' = IF Durable THEN registry ELSE {}
                /\ passing' = {}
=============================================================================
