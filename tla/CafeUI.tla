------------------------------- MODULE CafeUI -------------------------------
(***************************************************************************)
(* practical4/student-cafe/cafe-ui/src/App.tsx, the page on which a        *)
(* customer fills a cart and places orders, together with the services it  *)
(* talks to.  A press of "Add to Cart" is a pick, numbered from 1, so that *)
(* two picks of the same food are told apart; the names and prices of the  *)
(* food are left out.  The page does not disable its buttons while a       *)
(* request is on its way, and fetch fails only when the network does.      *)
(***************************************************************************)
EXTENDS CafeServices, Integers, SequencesExt

CONSTANTS MaxPicks,
          Undefined    \* the id of an object that has none

ASSUME PicksAssumption == /\ MaxPicks \in Nat
                          /\ Picks = 1 .. MaxPicks
                          /\ Undefined \notin Posts

VARIABLES items,       \* the menu on the page
          cart,
          message,
          waiting,     \* the POSTs whose promise is pending
          added,       \* number of picks so far
          picked,      \* history: the picks since the page was loaded
          during,      \* history: <<k, r>> if pick k was made while POST r was pending
          settled      \* history: the POSTs whose answer emptied the cart

pageVars == <<items, cart, message, waiting, added, picked, during, settled>>

vars == <<consulVars, serviceVars, pageVars>>

(* What the page says; the id belongs to `Order ${data.id} placed ...' only. *)
Messages == [text : {"", "empty", "failed", "placed"}, id : Posts \cup {Undefined}]

Say(text, id) == message' = [text |-> text, id |-> id]

(***************************************************************************)
(* items is an empty list until the fetch ends.  A JSON object in its      *)
(* place makes items.map throw, and React takes the page down.             *)
(***************************************************************************)
PageTypeOK == /\ items \in {"loading", "shown", "none", "broken"}
              /\ cart \in Seq(Picks)
              /\ message \in Messages
              /\ waiting \subseteq Posts
              /\ added \in 0 .. MaxPicks
              /\ picked \subseteq 1 .. added
              /\ during \subseteq Picks \X Posts
              /\ settled \subseteq Posts

PageInit == /\ items = "loading"
            /\ cart = <<>>
            /\ message = [text |-> "", id |-> Undefined]
            /\ waiting = {}
            /\ added = 0
            /\ picked = {}
            /\ during = {}
            /\ settled = {}

(* The page and its buttons are there; "Add to Cart" once there is a menu. *)
Rendered == items # "broken"

(* The effect's fetch of /api/catalog/items ends. *)
setItems ==
  /\ items = "loading"
  /\ \/ podUp[Catalog] /\ items' = "shown"
     \/ ~podUp[Catalog] /\ items' \in {"broken", "none"}
     \/ "net" \in Faults /\ items' = "none"
  /\ UNCHANGED <<cart, message, waiting, added, picked, during, settled, post>>

addToCart ==
  /\ Rendered
  /\ items = "shown"
  /\ added < MaxPicks
  /\ added' = added + 1
  /\ cart' = Append(cart, added')
  /\ picked' = picked \cup {added'}
  /\ during' = during \cup ({added'} \X waiting)
  /\ UNCHANGED <<items, message, waiting, settled, post>>

(* Mutant: the order is built from the cart without its last item. *)
placeOrder_StaleCart(r) ==
  /\ Rendered
  /\ \/ /\ cart = <<>>
        /\ Say("empty", Undefined)
        /\ UNCHANGED <<waiting, post>>
     \/ /\ cart # <<>>
        /\ Send(r, Front(cart))
        /\ waiting' = waiting \cup {r}
        /\ UNCHANGED message
  /\ UNCHANGED <<items, cart, added, picked, during, settled>>

placeOrder(r) ==
  /\ Rendered
  /\ \/ /\ cart = <<>>
        /\ Say("empty", Undefined)
        /\ UNCHANGED <<waiting, post>>
     \/ /\ cart # <<>>
        /\ Send(r, cart)
        /\ waiting' = waiting \cup {r}
        /\ UNCHANGED message
  /\ UNCHANGED <<items, cart, added, picked, during, settled>>

-----------------------------------------------------------------------------
(* Only the order service's 201 and Kong's object parse as JSON. *)
ParsesAsJson(answer) == answer \in {"201", "kong json"}

(* Mutant: the message shows res.status. *)
OrderPlaced_ShowsStatus(r) == /\ ParsesAsJson(post[r].answer)
                              /\ Say("placed", post[r].answer)
                              /\ cart' = <<>>
                              /\ settled' = settled \cup {r}

(* .then((data: Order) => ...), whatever the status and the object. *)
OrderPlaced(r) ==
  /\ ParsesAsJson(post[r].answer)
  /\ Say("placed", IF post[r].answer = "201" THEN r ELSE Undefined)
  /\ cart' = <<>>
  /\ settled' = settled \cup {r}

(* Mutant: the cart is cleared after a failure, too. *)
OrderFailed_CartCleared == /\ Say("failed", Undefined)
                           /\ cart' = <<>>
                           /\ UNCHANGED settled

OrderFailed == /\ Say("failed", Undefined)
               /\ UNCHANGED <<cart, settled>>

(* The promise of a POST is settled. *)
Settle(r) ==
  /\ Rendered
  /\ r \in waiting
  /\ \/ post[r].st = "answered" /\ OrderPlaced(r)
     \/ post[r].st = "answered" /\ ~ParsesAsJson(post[r].answer) /\ OrderFailed
     \/ "net" \in Faults /\ OrderFailed
  /\ waiting' = waiting \ {r}
  /\ UNCHANGED <<items, added, picked, during, post>>

(* The customer reloads the page, whose state starts anew. *)
Reload == /\ "reload" \in Faults
          /\ items' = "loading"
          /\ cart' = <<>>
          /\ Say("", Undefined)
          /\ waiting' = {}
          /\ picked' = {}
          /\ during' = {}
          /\ UNCHANGED <<added, settled, post>>

(* Another client of the same endpoint. *)
Curl(r) == /\ \E body \in {Malformed, <<>>} : Send(r, body)
           /\ UNCHANGED pageVars

PageStep == /\ \/ setItems \/ addToCart \/ Reload
               \/ \E r \in Posts : placeOrder(r) \/ Settle(r) \/ Curl(r)
            /\ UNCHANGED <<consulVars, podUp, registering, orders>>

-----------------------------------------------------------------------------
Init == ConsulInit /\ ServicesInit /\ PageInit

ServiceStep == /\ \/ \E r \in Posts : Handle(r)
                  \/ \E p \in Instances : \/ registerServiceWithConsul(p) \/ health(p)
                                          \/ Crash(p) \/ Restart(p)
                  \/ FatalMapWrites
               /\ UNCHANGED pageVars

ConsulStep == (ConsulFails \/ ConsulReturns) /\ UNCHANGED pageVars

Next == PageStep \/ ServiceStep \/ ConsulStep

Spec == Init /\ [][Next]_vars

(***************************************************************************)
(* Goroutines and promises make progress, Consul polls every ten seconds,  *)
(* and Kubernetes restarts containers.  Nobody needs to press a button,    *)
(* and Consul need not come back.                                          *)
(***************************************************************************)
SettleStep(r) == Settle(r) /\ UNCHANGED <<consulVars, podUp, registering, orders>>

Fairness ==
  /\ \A r \in Posts : /\ WF_vars(Handle(r) /\ UNCHANGED pageVars)
                      /\ WF_vars(SettleStep(r))
  /\ \A p \in Instances :
       /\ WF_vars(registerServiceWithConsul(p) /\ UNCHANGED pageVars)
       /\ WF_vars(health(p) /\ UNCHANGED pageVars)
       /\ WF_vars(Restart(p) /\ UNCHANGED pageVars)

FairSpec == Spec /\ Fairness

-----------------------------------------------------------------------------
(* Every variable of the page, the services and Consul has its type. *)
CafeTypeOK == ConsulTypeOK /\ ServicesTypeOK /\ PageTypeOK

PicksOf(r) == IF post[r].st = "unsent" \/ post[r].items = Malformed
                THEN {} ELSE ToSet(post[r].items)

(***************************************************************************)
(* A pick leaves the cart only when an order is answered that carries it,  *)
(* or that was still pending when the pick was made (App.tsx, placeOrder   *)
(* with its setCart([])): nothing is lost in any other way, however many   *)
(* orders are on their way, however their answers overtake each other and  *)
(* whatever fails.  An answer that empties the cart need not be that of a  *)
(* stored order: Kong's JSON does it, too (PlacedIsAnOrder).               *)
(***************************************************************************)
CartKept == \A k \in picked :
              \/ k \in ToSet(cart)
              \/ \E r \in settled : k \in PicksOf(r) \/ <<k, r>> \in during

(***************************************************************************)
(* Why it holds: a pending POST carries all of the cart, except what was   *)
(* added after it was sent (placeOrder sends the whole cart).              *)
(***************************************************************************)
CartInv == /\ \A r \in waiting \cup settled : post[r].st # "unsent"
           /\ \A r \in waiting : \A k \in ToSet(cart) :
                k \in PicksOf(r) \/ <<k, r>> \in during

(***************************************************************************)
(* Every POST of the page gets its answer or a failure, unless the page    *)
(* has broken or the customer has left it: neither a crashed pod nor a     *)
(* missing Consul leaves the promise pending.                              *)
(***************************************************************************)
PromisesSettle == \A r \in Posts : r \in waiting ~> (r \notin waiting \/ ~Rendered)

(***************************************************************************)
(* A catalogue that stays up is found in the end, so that orders are       *)
(* accepted again, in spite of earlier crashes and of a Consul that        *)
(* started late, if from some moment on Consul stays up while the          *)
(* catalogue is registered, or its one attempt is still to come            *)
(* (registerServiceWithConsul in every main, health).                      *)
(***************************************************************************)
CatalogFound ==
  (/\ <>([]consulUp /\ (Catalog \in registering \cup registry \/ ~podUp[Catalog]))
   /\ <>[]podUp[Catalog])
    => <>[](Catalog \in passing)

(***************************************************************************)
(* The page says "placed" only of an order: App.tsx takes every JSON body  *)
(* for an Order and shows its id.                                          *)
(***************************************************************************)
PlacedIsAnOrder == message.text = "placed" => message.id # Undefined
=============================================================================
