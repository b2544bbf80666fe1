---------------------------- MODULE OrderService ----------------------------
(***************************************************************************)
(* practical6-example/order-service: the gRPC server, its clients of the   *)
(* user and menu services, and its own database with the tables `orders'   *)
(* and `order_items'.  CreateOrder is a chain of remote calls followed by  *)
(* one GORM transaction of two INSERT statements; GetOrder and GetOrders   *)
(* run two SELECTs, outside a transaction, because of Preload.  Each of    *)
(* these is a step of its own, and the goroutines interleave between them. *)
(***************************************************************************)
EXTENDS UserService, MenuService

VARIABLES orders, orderItems,    \* the two tables
          orderSeq, itemSeq,     \* the next values of their id sequences
          orderUp,               \* whether the process runs
          orderCall,             \* the calls made here by the gateway
          handler,               \* the local variables of each goroutine
          placed                 \* history: ids of the orders stored for a call

orderVars == <<orders, orderItems, orderSeq, itemSeq, orderUp, orderCall,
               handler, userCall, menuCall, placed>>

tables == <<orders, orderItems, orderSeq, itemSeq, placed>>

-----------------------------------------------------------------------------
OrderRow == [id : Nat, userId : Uint32s, status : {"pending", "completed"}]

ItemRow == [id : Nat, orderId : Nat, menuItemId : Uint32s,
            quantity : Int32s, price : Prices]

(* The messages of order.v1; `op' is the method a request is sent to. *)
ItemReq == [menuItemId : Uint32s, quantity : Int32s]
CreateOrderRequest == [op : {"CreateOrder"}, userId : Uint32s, items : Seq(ItemReq)]
GetOrderRequest == [op : {"GetOrder"}, id : Uint32s]
GetOrdersRequest == [op : {"GetOrders"}]

OrderReq == CreateOrderRequest \cup GetOrderRequest \cup GetOrdersRequest

(* The items of an order, before they have ids. *)
Line == [menuItemId : Uint32s, quantity : Int32s, price : Prices]

ItemMsg == [id : Uint32s, orderId : Uint32s, menuItemId : Uint32s,
            quantity : Int32s, price : Prices]

OrderMsg == [id : Uint32s, userId : Uint32s, status : {"pending", "completed"},
             items : SUBSET ItemMsg]

(***************************************************************************)
(* A goroutine's locals: `lines' is order.OrderItems while it is being     *)
(* filled, `orderId' and `itemId' the ids drawn inside the transaction,    *)
(* `rows' the orders that the first SELECT of a read returned.             *)
(***************************************************************************)
Steps == {"idle", "user", "menu", "insert", "items", "commit", "preload"}

Locals == [pc : Steps, lines : Seq(Line), orderId : Nat, itemId : Nat,
           rows : SUBSET OrderRow]

NoLocals == [pc |-> "idle", lines |-> <<>>, orderId |-> 0, itemId |-> 0,
             rows |-> {}]

OrderTypeOK == /\ orders \subseteq OrderRow
               /\ orderItems \subseteq ItemRow
               /\ orderSeq \in Nat \ {0}
               /\ itemSeq \in Nat \ {0}
               /\ orderUp \in BOOLEAN
               /\ orderCall \in [Calls -> CallStates(OrderReq, OrderMsg)]
               /\ handler \in [Calls -> Locals]
               /\ placed \in [Calls -> SUBSET Nat]

OrderInit == /\ orders = {} /\ orderItems = {}
             /\ orderSeq = 1 /\ itemSeq = 1
             /\ orderUp = TRUE
             /\ orderCall = [c \in Calls |-> Idle]
             /\ handler = [c \in Calls |-> NoLocals]
             /\ placed = [c \in Calls |-> {}]

-----------------------------------------------------------------------------
(* An order row and the rows that Preload attached to it, as a message. *)
OrderToProto(row, attached) ==
  [id |-> Uint32(row.id), userId |-> row.userId, status |-> row.status,
   items |-> {[id |-> Uint32(i.id), orderId |-> Uint32(i.orderId),
               menuItemId |-> i.menuItemId, quantity |-> i.quantity,
               price |-> i.price] : i \in attached}]

ItemsOf(id) == {i \in orderItems : i.orderId = id}

(* The messages in the responses; GetOrder returns the one row it found. *)
CreateOrderResponse(row, attached) == {OrderToProto(row, attached)}
GetOrdersResponse(rows) == {OrderToProto(row, ItemsOf(row.id)) : row \in rows}

OrderServing(c, op) == /\ orderUp
                       /\ orderCall[c].st = "sent"
                       /\ orderCall[c].req.op = op

At(c, op, step) == OrderServing(c, op) /\ handler[c].pc = step

OrderReturn(c, code, msgs) ==
  /\ orderCall' = [orderCall EXCEPT ![c] = Done(code, msgs)]
  /\ handler' = [handler EXCEPT ![c] = NoLocals]

-----------------------------------------------------------------------------
(***************************************************************************)
(* CreateOrder: the user first, then each item of the request in turn.     *)
(* The answer of the menu service is where the price is copied from.       *)
(***************************************************************************)
OrderServer_CreateOrder(c) ==
  /\ At(c, "CreateOrder", "idle")
  /\ handler' = [handler EXCEPT ![c].pc = "user"]
  /\ userCall' = [userCall EXCEPT ![c] =
                    Sent([op |-> "GetUser", id |-> orderCall[c].req.userId])]
  /\ UNCHANGED <<tables, orderUp, orderCall, menuCall>>

(* Mutant: the loop asks about the first item each time. *)
NextItem_FirstItem(c, lines) ==
  LET items == orderCall[c].req.items
      k     == Len(lines) + 1
  IN  \/ /\ k <= Len(items)
         /\ handler' = [handler EXCEPT ![c].pc = "menu", ![c].lines = lines]
         /\ menuCall' = [menuCall EXCEPT ![c] =
                 Sent([op |-> "GetMenuItem", id |-> items[1].menuItemId])]
      \/ /\ k > Len(items)
         /\ handler' = [handler EXCEPT ![c].pc = "insert", ![c].lines = lines]
         /\ menuCall' = [menuCall EXCEPT ![c] = Idle]

(* The next round of the loop over req.Items, or its end. *)
NextItem(c, lines) ==
  LET items == orderCall[c].req.items
      k     == Len(lines) + 1
  IN  \/ /\ k <= Len(items)
         /\ handler' = [handler EXCEPT ![c].pc = "menu", ![c].lines = lines]
         /\ menuCall' = [menuCall EXCEPT ![c] =
                 Sent([op |-> "GetMenuItem", id |-> items[k].menuItemId])]
      \/ /\ k > Len(items)
         /\ handler' = [handler EXCEPT ![c].pc = "insert", ![c].lines = lines]
         /\ menuCall' = [menuCall EXCEPT ![c] = Idle]

(* Mutant: the error of GetUser is not looked at. *)
UserChecked_ErrorIgnored(c) ==
  /\ At(c, "CreateOrder", "user")
  /\ userCall[c].st = "done"
  /\ userCall' = [userCall EXCEPT ![c] = Idle]
  /\ NextItem(c, <<>>)
  /\ UNCHANGED <<tables, orderUp, orderCall>>

(* Any error of GetUser is answered with InvalidArgument. *)
UserChecked(c) ==
  /\ At(c, "CreateOrder", "user")
  /\ userCall[c].st = "done"
  /\ userCall' = [userCall EXCEPT ![c] = Idle]
  /\ \/ /\ userCall[c].code = "OK"
        /\ NextItem(c, <<>>)
        /\ UNCHANGED orderCall
     \/ /\ userCall[c].code # "OK"
        /\ OrderReturn(c, "InvalidArgument", {})
        /\ UNCHANGED menuCall
  /\ UNCHANGED <<tables, orderUp>>

(* Mutant: the loop appends the first item of the request each time. *)
MenuItemChecked_FirstItem(c) ==
  /\ At(c, "CreateOrder", "menu")
  /\ menuCall[c].st = "done"
  /\ \/ /\ menuCall[c].code = "OK"
        /\ \E m \in menuCall[c].msgs :
             LET item == orderCall[c].req.items[1]
             IN  NextItem(c, Append(handler[c].lines,
                                    [menuItemId |-> item.menuItemId,
                                     quantity |-> item.quantity,
                                     price |-> m.price]))
        /\ UNCHANGED orderCall
     \/ /\ menuCall[c].code # "OK"
        /\ OrderReturn(c, "InvalidArgument", {})
        /\ menuCall' = [menuCall EXCEPT ![c] = Idle]
  /\ UNCHANGED <<tables, orderUp, userCall>>

(* Mutant: a call that failed is not answered. *)
MenuItemChecked_Stuck(c) ==
  /\ menuCall[c].st = "done" => menuCall[c].code = "OK"
  /\ MenuItemChecked_FirstItem(c)

(* Any error of GetMenuItem is answered with InvalidArgument. *)
MenuItemChecked(c) ==
  /\ At(c, "CreateOrder", "menu")
  /\ menuCall[c].st = "done"
  /\ \/ /\ menuCall[c].code = "OK"
        /\ \E m \in menuCall[c].msgs :
             LET lines == handler[c].lines
                 item  == orderCall[c].req.items[Len(lines) + 1]
             IN  NextItem(c, Append(lines, [menuItemId |-> item.menuItemId,
                                            quantity |-> item.quantity,
                                            price |-> m.price]))
        /\ UNCHANGED orderCall
     \/ /\ menuCall[c].code # "OK"
        /\ OrderReturn(c, "InvalidArgument", {})
        /\ menuCall' = [menuCall EXCEPT ![c] = Idle]
  /\ UNCHANGED <<tables, orderUp, userCall>>

-----------------------------------------------------------------------------
(***************************************************************************)
(* DB.Create(&order): the transaction inserts the order row and then its   *)
(* items in one statement, both invisible to others until COMMIT.  The ids *)
(* come from sequences, which transactions do not roll back.               *)
(***************************************************************************)
(* Mutant: no transaction (SkipDefaultTransaction), so the row is visible. *)
InsertOrder_NoTransaction(c) ==
  /\ At(c, "CreateOrder", "insert")
  /\ orderSeq' = orderSeq + 1
  /\ orders' = orders \cup {[id |-> orderSeq, userId |-> orderCall[c].req.userId,
                             status |-> "pending"]}
  /\ handler' = [handler EXCEPT ![c].orderId = orderSeq, ![c].pc =
                   IF handler[c].lines = <<>> THEN "commit" ELSE "items"]
  /\ UNCHANGED <<orderItems, itemSeq, placed, orderUp, orderCall, userCall, menuCall>>

(* Mutant: ids computed from the rows that are visible, not from a sequence. *)
InsertOrder_MaxPlusOne(c) ==
  /\ At(c, "CreateOrder", "insert")
  /\ LET id == CHOOSE n \in 1 .. orderSeq : /\ \A o \in orders : o.id < n
                                            /\ n = 1 \/ \E o \in orders : o.id = n - 1
     IN  handler' = [handler EXCEPT ![c].orderId = id, ![c].pc =
                       IF handler[c].lines = <<>> THEN "commit" ELSE "items"]
  /\ orderSeq' = orderSeq + 1
  /\ UNCHANGED <<orders, orderItems, itemSeq, placed, orderUp, orderCall,
                 userCall, menuCall>>

InsertOrder(c) ==
  /\ At(c, "CreateOrder", "insert")
  /\ orderSeq' = orderSeq + 1
  /\ handler' = [handler EXCEPT ![c].orderId = orderSeq, ![c].pc =
                   IF handler[c].lines = <<>> THEN "commit" ELSE "items"]
  /\ UNCHANGED <<orders, orderItems, itemSeq, placed, orderUp, orderCall,
                 userCall, menuCall>>

InsertItems(c) ==
  /\ At(c, "CreateOrder", "items")
  /\ itemSeq' = itemSeq + Len(handler[c].lines)
  /\ handler' = [handler EXCEPT ![c].pc = "commit", ![c].itemId = itemSeq]
  /\ UNCHANGED <<orders, orderItems, orderSeq, placed, orderUp, orderCall,
                 userCall, menuCall>>

NewOrder(c) == [id |-> handler[c].orderId, userId |-> orderCall[c].req.userId,
                status |-> "pending"]

NewItems(c) ==
  LET h == handler[c]
  IN  {[id |-> h.itemId + k - 1, orderId |-> h.orderId,
        menuItemId |-> h.lines[k].menuItemId, quantity |-> h.lines[k].quantity,
        price |-> h.lines[k].price] : k \in DOMAIN h.lines}

Publish(c) == /\ orders' = orders \cup {NewOrder(c)}
              /\ orderItems' = orderItems \cup NewItems(c)

(* The connection may break at COMMIT after the server has committed. *)
Commit(c) ==
  /\ At(c, "CreateOrder", "commit")
  /\ Publish(c)
  /\ placed' = [placed EXCEPT ![c] = @ \cup {handler[c].orderId}]
  /\ \/ OrderReturn(c, "OK", CreateOrderResponse(NewOrder(c), NewItems(c)))
     \/ "db" \in Faults /\ OrderReturn(c, "Internal", {})
  /\ UNCHANGED <<orderSeq, itemSeq, orderUp, userCall, menuCall>>

(* Mutant: the error of DB.Create is not looked at. *)
Rollback_ErrorIgnored(c) ==
  /\ "db" \in Faults
  /\ At(c, "CreateOrder", "commit")
  /\ OrderReturn(c, "OK", CreateOrderResponse(NewOrder(c), NewItems(c)))
  /\ UNCHANGED <<tables, orderUp, userCall, menuCall>>

(* An error of any statement rolls the transaction back. *)
Rollback(c) ==
  /\ "db" \in Faults
  /\ \E step \in {"insert", "items", "commit"} : At(c, "CreateOrder", step)
  /\ OrderReturn(c, "Internal", {})
  /\ UNCHANGED <<tables, orderUp, userCall, menuCall>>

-----------------------------------------------------------------------------
(***************************************************************************)
(* The reads: SELECT the orders, then SELECT the items of those orders.    *)
(* GetOrder answers every error with NotFound, GetOrders with Internal.    *)
(***************************************************************************)
Found(c, rows) ==
  /\ handler' = [handler EXCEPT ![c].pc = "preload", ![c].rows = rows]
  /\ UNCHANGED orderCall

OrderServer_GetOrder(c) ==
  /\ At(c, "GetOrder", "idle")
  /\ LET found == {o \in orders : o.id = orderCall[c].req.id}
     IN  \/ found # {} /\ Found(c, found)
         \/ found = {} /\ OrderReturn(c, "NotFound", {})
         \/ "db" \in Faults /\ OrderReturn(c, "NotFound", {})
  /\ UNCHANGED <<tables, orderUp, userCall, menuCall>>

OrderServer_GetOrders(c) ==
  /\ At(c, "GetOrders", "idle")
  /\ \/ Found(c, orders)
     \/ "db" \in Faults /\ OrderReturn(c, "Internal", {})
  /\ UNCHANGED <<tables, orderUp, userCall, menuCall>>

PreloadError(c) == IF orderCall[c].req.op = "GetOrder" THEN "NotFound" ELSE "Internal"

Preload(c) ==
  /\ \E op \in {"GetOrder", "GetOrders"} : At(c, op, "preload")
  /\ \/ OrderReturn(c, "OK", GetOrdersResponse(handler[c].rows))
     \/ "db" \in Faults /\ OrderReturn(c, PreloadError(c), {})
  /\ UNCHANGED <<tables, orderUp, userCall, menuCall>>

-----------------------------------------------------------------------------
(* gRPC fails a call fast while the server cannot be reached. *)
OrderRefuse(c) == /\ ~orderUp
                  /\ orderCall[c].st = "sent"
                  /\ OrderReturn(c, "Unavailable", {})
                  /\ UNCHANGED <<tables, orderUp, userCall, menuCall>>

(***************************************************************************)
(* The process dies: started handlers and their open transactions are      *)
(* gone, and so are the reads they had outstanding at the other services.  *)
(***************************************************************************)
OrderCrash ==
  LET started == {c \in Calls : handler[c].pc # "idle"}
  IN  /\ "order" \in Faults
      /\ orderUp
      /\ orderUp' = FALSE
      /\ \E lost \in SUBSET Undelivered(orderCall) :
           orderCall' = CutOff(orderCall, lost \cup started)
      /\ handler' = [c \in Calls |-> NoLocals]
      /\ userCall' = [c \in Calls |-> IF handler[c].pc = "user" THEN Idle
                                      ELSE userCall[c]]
      /\ menuCall' = [c \in Calls |-> IF handler[c].pc = "menu" THEN Idle
                                      ELSE menuCall[c]]
      /\ UNCHANGED tables

(* main: Connect, migrate (which keeps the rows), dial, listen. *)
OrderRestart == /\ ~orderUp
                /\ orderUp' = TRUE
                /\ UNCHANGED <<tables, orderCall, handler, userCall, menuCall>>

(***************************************************************************)
(* The gateway died, so the context of the handler's remote call is        *)
(* cancelled: an error like any other, whose answer nobody reads.          *)
(***************************************************************************)
ContextCanceled(c) ==
  /\ \E step \in {"user", "menu"} : At(c, "CreateOrder", step)
  /\ OrderReturn(c, "InvalidArgument", {})
  /\ userCall' = [userCall EXCEPT ![c] = Idle]
  /\ menuCall' = [menuCall EXCEPT ![c] = Idle]
  /\ UNCHANGED <<tables, orderUp>>

OrderServe(c) == \/ OrderServer_CreateOrder(c) \/ UserChecked(c) \/ MenuItemChecked(c)
                 \/ InsertOrder(c) \/ InsertItems(c) \/ Commit(c) \/ Rollback(c)
                 \/ OrderServer_GetOrder(c) \/ OrderServer_GetOrders(c) \/ Preload(c)
                 \/ OrderRefuse(c)

OrderNext == (\E c \in Calls : OrderServe(c)) \/ OrderCrash \/ OrderRestart
=============================================================================
