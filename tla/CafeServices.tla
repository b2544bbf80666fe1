---------------------------- MODULE CafeServices ----------------------------
(***************************************************************************)
(* practical4/student-cafe: the food catalogue and the order service, two  *)
(* pods behind the Kong ingress.  Each tries once, from a goroutine of its *)
(* own, to register with Consul.  The order service looks for a healthy    *)
(* catalogue before it accepts an order, and keeps orders in a Go map that *)
(* its handlers write without a lock.                                      *)
(*                                                                         *)
(* An order is named after the POST that creates it: its id is a fresh     *)
(* UUID.  Its item ids are the picks of the customer (module CafeUI).      *)
(***************************************************************************)
EXTENDS Consul, Sequences

CONSTANTS Posts,      \* the POSTs to /api/orders/orders
          Picks,      \* what can be in an order
          Faults,     \* what may fail
          Malformed   \* a body that is not the JSON of an order

Catalog == "food-catalog-service"
Orders == "order-service"

ASSUME ServicesAssumption ==
  /\ Instances = {Catalog, Orders}
  /\ Faults \subseteq {"consul", Catalog, Orders, "net", "reload"}
  /\ Malformed \notin Seq(Picks)

VARIABLES podUp,         \* which pods run
          registering,   \* the goroutines that have not tried to register yet
          orders,        \* the ids in the map of the order service
          post           \* what has become of each POST

serviceVars == <<podUp, registering, orders, post>>

(* Kong answers for a pod it cannot reach, with a JSON object or with text. *)
Answers == {"201", "400", "500", "kong json", "kong text"}

Running == {"found", "storing", "racing"}

PostStates == [st : {"unsent"}]
                \cup [st : {"sent"} \cup Running, items : Seq(Picks) \cup {Malformed}]
                \cup [st : {"answered"}, items : Seq(Picks) \cup {Malformed},
                      answer : Answers]

ServicesTypeOK == /\ podUp \in [Instances -> BOOLEAN]
                  /\ registering \subseteq Instances
                  /\ orders \subseteq Posts
                  /\ post \in [Posts -> PostStates]

ServicesInit == /\ podUp = [p \in Instances |-> TRUE]
                /\ registering = Instances
                /\ orders = {}
                /\ post = [r \in Posts |-> [st |-> "unsent"]]

Send(r, items) == /\ post[r].st = "unsent"
                  /\ post' = [post EXCEPT ![r] = [st |-> "sent", items |-> items]]

AnswerWith(p, answer) == [st |-> "answered", items |-> p.items, answer |-> answer]

Reply(r, answer) == post' = [post EXCEPT ![r] = AnswerWith(@, answer)]

Move(r, st) == post' = [post EXCEPT ![r].st = st]

-----------------------------------------------------------------------------
(* go registerServiceWithConsul(): one attempt, and a warning if it fails. *)
registerServiceWithConsul(p) ==
  /\ podUp[p]
  /\ p \in registering
  /\ ServiceRegister(p) \/ (~consulUp /\ UNCHANGED consulVars)
  /\ registering' = registering \ {p}
  /\ UNCHANGED <<podUp, orders, post>>

(* GET /health answers 200 whenever the process runs. *)
health(p) == /\ HealthCheck(p, podUp[p])
             /\ UNCHANGED serviceVars

-----------------------------------------------------------------------------
(* Mutant: findService asks Consul again until it finds the catalogue. *)
findService_Retries(r) ==
  /\ podUp[Orders]
  /\ post[r].st = "sent"
  /\ \/ post[r].items = Malformed /\ Reply(r, "400")
     \/ /\ post[r].items # Malformed
        /\ consulUp /\ Healthy({Catalog}) # {}
        /\ Move(r, "found")
  /\ UNCHANGED <<podUp, registering, orders>>

(* POST /orders: the body, then findService("food-catalog-service"). *)
findService(r) ==
  /\ podUp[Orders]
  /\ post[r].st = "sent"
  /\ \/ post[r].items = Malformed /\ Reply(r, "400")
     \/ /\ post[r].items # Malformed
        /\ IF consulUp /\ Healthy({Catalog}) # {}
             THEN Move(r, "found")
             ELSE Reply(r, "500")
  /\ UNCHANGED <<podUp, registering, orders>>

(* The handlers that are writing to the map. *)
Writing == {r \in Posts : post[r].st \in {"storing", "racing"}}

(* orders[orderID] = newOrder begins.  Two writers at a time are a data race. *)
StoreBegins(r) ==
  /\ post[r].st = "found"
  /\ post' = IF Writing = {}
               THEN [post EXCEPT ![r].st = "storing"]
               ELSE [q \in Posts |-> IF q \in Writing \cup {r}
                                       THEN [post[q] EXCEPT !.st = "racing"]
                                       ELSE post[q]]
  /\ UNCHANGED <<podUp, registering, orders>>

(* It ends, and the answer is written.  A write that raced may be lost. *)
StoreEnds(r) ==
  /\ r \in Writing
  /\ \/ orders' = orders \cup {r}
     \/ post[r].st = "racing" /\ UNCHANGED orders
  /\ Reply(r, "201")
  /\ UNCHANGED <<podUp, registering>>

-----------------------------------------------------------------------------
(* Kong answers for the order service while its pod is down. *)
KongRefuses(r) == /\ ~podUp[Orders]
                  /\ post[r].st = "sent"
                  /\ \E a \in {"kong json", "kong text"} : Reply(r, a)
                  /\ UNCHANGED <<podUp, registering, orders>>

(* A pod ends, with its goroutines; the order service loses its map, and   *)
(* Kong answers for the handlers that were running.                        *)
Stop(p) ==
  /\ podUp' = [podUp EXCEPT ![p] = FALSE]
  /\ registering' = registering \ {p}
  /\ \/ p = Catalog /\ UNCHANGED <<orders, post>>
     \/ /\ p = Orders
        /\ orders' = {}
        /\ \E a \in {"kong json", "kong text"} :
             post' = [r \in Posts |-> IF post[r].st \in Running
                                        THEN AnswerWith(post[r], a) ELSE post[r]]
  /\ UNCHANGED consulVars

Crash(p) == p \in Faults /\ podUp[p] /\ Stop(p)

(* "fatal error: concurrent map writes", when the Go runtime notices. *)
FatalMapWrites == (\E r \in Posts : post[r].st = "racing") /\ Stop(Orders)

(* Mutant: a main that registers only from the first container. *)
Restart_NoRegistration(p) ==
  /\ ~podUp[p]
  /\ podUp' = [podUp EXCEPT ![p] = TRUE]
  /\ UNCHANGED <<registering, orders, post, consulVars>>

(* Kubernetes restarts the container; main starts a registration. *)
Restart(p) == /\ ~podUp[p]
              /\ podUp' = [podUp EXCEPT ![p] = TRUE]
              /\ registering' = registering \cup {p}
              /\ UNCHANGED <<orders, post, consulVars>>

Handle(r) == /\ \/ findService(r) \/ StoreBegins(r) \/ StoreEnds(r)
                \/ KongRefuses(r)
             /\ UNCHANGED consulVars

ConsulFails == /\ "consul" \in Faults
               /\ ConsulStops
               /\ UNCHANGED serviceVars

ConsulReturns == ConsulStarts /\ UNCHANGED serviceVars
=============================================================================
