---------------------------- MODULE StudentCafe ----------------------------
(***************************************************************************)
(* The four processes of practical6-example together: the gateway, the     *)
(* user, menu and order services, each with its own database, joined only  *)
(* by the gRPC calls they make to one another.                             *)
(***************************************************************************)
EXTENDS ApiGateway, FiniteSets

vars == <<users, userSeq, userUp, userCall, menuItems, menuSeq, menuUp, menuCall,
          orders, orderItems, orderSeq, itemSeq, orderUp, orderCall, handler,
          placed, http, gatewayUp, before>>

userState == <<users, userSeq, userUp>>
menuState == <<menuItems, menuSeq, menuUp>>
orderState == <<orders, orderItems, orderSeq, itemSeq, orderUp, handler, placed>>

Init == UserInit /\ MenuInit /\ OrderInit /\ GatewayInit

UserStep == UserNext /\ UNCHANGED <<menuState, menuCall, orderState, orderCall,
                                    gatewayVars>>

MenuStep == MenuNext /\ UNCHANGED <<userState, userCall, orderState, orderCall,
                                    gatewayVars>>

OrderStep == OrderNext /\ UNCHANGED <<userState, menuState, gatewayVars>>

(* The context of a handler is cancelled only when its caller has died. *)
CancelStep == \E c \in Calls : /\ http[c].st = "lost"
                               /\ ContextCanceled(c)
                               /\ UNCHANGED <<userState, menuState, gatewayVars>>

GatewayStep == GatewayNext /\ UNCHANGED <<userState, menuState, orderState>>

Next == UserStep \/ MenuStep \/ OrderStep \/ CancelStep \/ GatewayStep

Spec == Init /\ [][Next]_vars

(***************************************************************************)
(* The Go scheduler runs every goroutine that can run, a database answers, *)
(* and gRPC reports a broken connection: whoever serves call c goes on.    *)
(* Nothing restarts a process that died.                                   *)
(***************************************************************************)
Fairness == \A c \in Calls : /\ WF_vars(UserServe(c) /\ UserStep)
                             /\ WF_vars(MenuServe(c) /\ MenuStep)
                             /\ WF_vars(OrderServe(c) /\ OrderStep)
                             /\ WF_vars(Response(c) /\ GatewayStep)

FairSpec == Spec /\ Fairness

TypeOK == UserTypeOK /\ MenuTypeOK /\ OrderTypeOK /\ GatewayTypeOK

-----------------------------------------------------------------------------
(* Client call c was answered with one of the given statuses. *)
Got(c, op, statuses) == /\ http[c].st = "answered"
                        /\ http[c].req.op = op
                        /\ http[c].status \in statuses

(***************************************************************************)
(* There is no foreign key between the three databases; CreateOrder checks *)
(* each reference with a remote call and copies the price.  Even so, a     *)
(* stored order names a stored user, and each of its items a stored menu   *)
(* item at that item's price.                                              *)
(***************************************************************************)
OrderIntegrity ==
  /\ \A o \in orders : \E u \in users : u.id = o.userId
  /\ \A i \in orderItems :
       /\ \E o \in orders : o.id = i.orderId
       /\ \E m \in menuItems : m.id = i.menuItemId /\ m.price = i.price

(***************************************************************************)
(* Concurrent inserts, rolled back transactions and lost commits never     *)
(* give two rows one key: ids in every table, and the email of a user.     *)
(***************************************************************************)
KeysUnique ==
  /\ \A u, v \in users : (u.id = v.id \/ u.email = v.email) => u = v
  /\ \A m, n \in menuItems : m.id = n.id => m = n
  /\ \A o, p \in orders : o.id = p.id => o = p
  /\ \A i, j \in orderItems : i.id = j.id => i = j

(* The rows of an order that match an item of the request. *)
RowsFor(id, item) == {i \in ItemsOf(id) : /\ i.menuItemId = item.menuItemId
                                          /\ i.quantity = Int32(item.quantity)}

(***************************************************************************)
(* A stored order is the one its client asked for: its user, and each item *)
(* as many times as the request lists it (no more, no fewer), with the     *)
(* quantity that was asked for up to the conversion to int32.              *)
(***************************************************************************)
OrderAsRequested ==
  \A c \in Calls : \A o \in {p \in orders : p.id \in placed[c]} :
    LET r == http[c].req
    IN  /\ r.op = "CreateOrder"
        /\ o.userId = r.userId
        /\ Cardinality(ItemsOf(o.id)) = Len(r.items)
        /\ \A k \in DOMAIN r.items :
             LET same == {j \in DOMAIN r.items :
                            /\ r.items[j].menuItemId = r.items[k].menuItemId
                            /\ Int32(r.items[j].quantity) = Int32(r.items[k].quantity)}
             IN  Cardinality(RowsFor(o.id, r.items[k])) = Cardinality(same)

(***************************************************************************)
(* What a client is told about its order is true: 201 only with the order  *)
(* durably stored, exactly once, and shown as stored; 400 and 404 only     *)
(* when nothing was stored for the call.                                   *)
(***************************************************************************)
AnswerIsTrue ==
  \A c \in Calls :
    /\ Got(c, "CreateOrder", {201}) =>
         \E o \in orders : /\ placed[c] = {o.id}
                           /\ http[c].msgs = {OrderToProto(o, ItemsOf(o.id))}
    /\ Got(c, "CreateOrder", {400, 404}) => placed[c] = {}

(***************************************************************************)
(* Orders are read with two SELECTs that no transaction joins, while other *)
(* transactions commit; still every order that is returned is stored and   *)
(* comes with all of its items and no others.                              *)
(***************************************************************************)
OrdersReadWhole ==
  \A c \in Calls : Got(c, "GetOrder", {200}) \/ Got(c, "GetOrders", {200}) =>
    \A msg \in http[c].msgs :
      \E o \in orders : msg = OrderToProto(o, ItemsOf(o.id))

(***************************************************************************)
(* Whatever was acknowledged with 201 before a read began is in the list   *)
(* that the read returns, across crashes and restarts of the services.     *)
(***************************************************************************)
Listing == [CreateUser |-> "GetUsers", CreateMenuItem |-> "GetMenu",
            CreateOrder |-> "GetOrders"]

ReadYourWrites ==
  \A c \in Calls : \A d \in before[c] : \A op \in DOMAIN Listing :
    Got(d, op, {201}) /\ Got(c, Listing[op], {200})
      => http[d].msgs \subseteq http[c].msgs

(***************************************************************************)
(* A user or menu item that was acknowledged with 201 is never reported as *)
(* 404 afterwards: GetUser and GetMenuItem tell a failing database from a  *)
(* missing row.                                                            *)
(***************************************************************************)
NotFoundIsTrue ==
  \A c \in Calls : \A d \in before[c] :
    \A p \in {<<"CreateUser", "GetUser">>, <<"CreateMenuItem", "GetMenuItem">>} :
      Got(d, p[1], {201}) /\ Got(c, p[2], {404})
        => \A msg \in http[d].msgs : msg.id # http[c].req.id

-----------------------------------------------------------------------------
(***************************************************************************)
(* The three databases together behave like one ledger in which an order   *)
(* appears at once with all of its items.                                  *)
(***************************************************************************)
WholeOrder(o) == [id |-> o.id, userId |-> o.userId, items |-> ItemsOf(o.id)]

Ledger == INSTANCE CafeLedger
            WITH menu <- menuItems,
                 orders <- {WholeOrder(o) : o \in orders},
                 InitialUsers <- {[id |-> i, email |-> UserSeed[i]] : i \in DOMAIN UserSeed},
                 InitialMenu <- {[id |-> i, price |-> MenuSeed[i]] : i \in DOMAIN MenuSeed}

(* The implementation of that ledger: every step of the services is a step *)
(* of it, or leaves it alone.                                              *)
ImplementsLedger == Ledger!Spec

(***************************************************************************)
(* The gateway sets no deadline, so a client waits as long as the chain of *)
(* calls behind its own takes: every call ends nevertheless, with an       *)
(* answer or, if the gateway dies, with a broken connection.               *)
(***************************************************************************)
CallsEnd == \A c \in Calls : (http[c].st = "waiting") ~> (http[c].st \in {"answered", "lost"})

(***************************************************************************)
(* No goroutine of the order service is left behind, even when the gateway *)
(* that called it has died or a service it waits for has.                  *)
(***************************************************************************)
HandlersEnd == \A c \in Calls : (handler[c].pc # "idle") ~> (handler[c].pc = "idle")

-----------------------------------------------------------------------------
(***************************************************************************)
(* What holds between the steps of a handler, and makes OrderIntegrity     *)
(* inductive.  The first part says which channels a call may use: a call   *)
(* that has not begun uses none, and one that occupies the order service   *)
(* was routed to it.                                                       *)
(***************************************************************************)
ChannelInv(c) ==
  /\ http[c].st = "new" => /\ userCall[c].st = "idle"
                           /\ menuCall[c].st = "idle"
                           /\ orderCall[c].st = "idle"
  /\ orderCall[c].st # "idle" => /\ http[c].st \in {"waiting", "lost"}
                                 /\ http[c].req.op \in OrderOps

UserKnown(id) == \E u \in users : u.id = id

PriceKnown(id, price) == \E m \in menuItems : m.id = id /\ m.price = price

(* A handler runs only for a request that is still unanswered. *)
RunningInv(c) ==
  handler[c].pc # "idle" => /\ orderCall[c].st = "sent"
                            /\ handler[c].pc = "preload" \/ orderCall[c].req.op = "CreateOrder"

(* GetUser is asked about the user of the order, and OK means it exists. *)
AskedUser(c) ==
  handler[c].pc = "user" =>
    /\ userCall[c].st = "sent" =>
         userCall[c].req = [op |-> "GetUser", id |-> orderCall[c].req.userId]
    /\ userCall[c].st = "done" /\ userCall[c].code = "OK" =>
         UserKnown(orderCall[c].req.userId)

(* The item that the loop over req.Items has reached. *)
Current(c) == orderCall[c].req.items[Len(handler[c].lines) + 1]

(* GetMenuItem is asked about that item, and OK brings its price. *)
AskedMenu(c) ==
  handler[c].pc = "menu" =>
    /\ Len(handler[c].lines) < Len(orderCall[c].req.items)
    /\ menuCall[c].st = "sent" =>
         menuCall[c].req = [op |-> "GetMenuItem", id |-> Current(c).menuItemId]
    /\ menuCall[c].st = "done" /\ menuCall[c].code = "OK" =>
         \A m \in menuCall[c].msgs : PriceKnown(Current(c).menuItemId, m.price)

(* What the checks have established stays true until the order is stored. *)
CheckedInv(c) ==
  handler[c].pc \in {"menu", "insert", "items", "commit"} =>
    /\ UserKnown(orderCall[c].req.userId)
    /\ \A k \in DOMAIN handler[c].lines :
         PriceKnown(handler[c].lines[k].menuItemId, handler[c].lines[k].price)

(***************************************************************************)
(* CreateOrder trusts answers that are old when it stores the order; they  *)
(* are still true then: the reply in a channel answers the question of the *)
(* goroutine that waits for it, and no row it relied on has gone.          *)
(***************************************************************************)
HandlerInv == \A c \in Calls : /\ ChannelInv(c) /\ RunningInv(c) /\ AskedUser(c)
                               /\ AskedMenu(c) /\ CheckedInv(c)

-----------------------------------------------------------------------------
(***************************************************************************)
(* "codes.Unavailable | 503 Service Unavailable | Service down": an order  *)
(* of an existing user for existing items is never refused as invalid.     *)
(***************************************************************************)
OutageIsNot400 ==
  \A c \in Calls : Got(c, "CreateOrder", {400}) /\ Decodes(http[c].req) =>
    \/ \A u \in users : u.id # http[c].req.userId
    \/ \E k \in DOMAIN http[c].req.items :
         \A m \in menuItems : m.id # http[c].req.items[k].menuItemId
=============================================================================
