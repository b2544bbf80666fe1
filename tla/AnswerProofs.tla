---------------------------- MODULE AnswerProofs ----------------------------
(***************************************************************************)
(* What clients of the order endpoints are told is true, what they read is *)
(* whole, and what is stored for them is what they asked for: proved for   *)
(* any number of calls, any requests and any choice of failures.           *)
(***************************************************************************)
EXTENDS LedgerProofs, FunctionTheorems, FiniteSetTheorems

-----------------------------------------------------------------------------
(* The gRPC request that Handlers_CreateOrder makes of a decoded body. *)
Translated(r) == [op |-> "CreateOrder", userId |-> r.userId,
                  items |-> [k \in DOMAIN r.items |-> ToItemReq(r.items[k])]]

(* The order service is asked what the client asked the gateway. *)
SentInv(c) ==
  orderCall[c].st = "sent" =>
    /\ orderCall[c].req.op = http[c].req.op
    /\ http[c].req.op = "CreateOrder" => orderCall[c].req = Translated(http[c].req)

(* The message shows a stored order with all of its items. *)
Shown(msg) == \E o \in orders : msg = OrderToProto(o, ItemsOf(o.id))

(* The messages show the one order that is stored for the call. *)
Stored(c, msgs) == \E o \in orders : /\ placed[c] = {o.id}
                                     /\ msgs = {OrderToProto(o, ItemsOf(o.id))}

(* What the order service's answer means while the gateway has yet to take it. *)
DoneInv(c) ==
  orderCall[c].st = "done" =>
    /\ orderCall[c].code = "OK" => \A msg \in orderCall[c].msgs : Shown(msg)
    /\ orderCall[c].code = "OK" /\ http[c].req.op = "CreateOrder" =>
         Stored(c, orderCall[c].msgs)
    /\ orderCall[c].code \in {"InvalidArgument", "NotFound"} => placed[c] = {}

(* Between the two SELECTs of a read, the rows of the first are stored. *)
RowsInv(c) == handler[c].pc = "preload" => handler[c].rows \subseteq orders

(* What the client has been told, as AnswerIsTrue and OrdersReadWhole say. *)
ToldInv(c) ==
  /\ Got(c, "CreateOrder", {201}) => Stored(c, http[c].msgs)
  /\ Got(c, "CreateOrder", {400, 404}) => placed[c] = {}
  /\ Got(c, "GetOrder", {200}) \/ Got(c, "GetOrders", {200}) =>
       \A msg \in http[c].msgs : Shown(msg)

AnswerInv(c) == SentInv(c) /\ DoneInv(c) /\ RowsInv(c) /\ ToldInv(c)

-----------------------------------------------------------------------------
(* How a step may concern one call: not at all, as a step of its handler in *)
(* the order service or the end of that process, or as one of its gateway's. *)
Untouched(d) == /\ http'[d] = http[d]
                /\ orderCall'[d] = orderCall[d]
                /\ handler'[d] = handler[d]
                /\ placed'[d] = placed[d]

Served(d) == /\ OrderServe(d) \/ ContextCanceled(d)
             /\ http'[d] = http[d]

CutOffAt(d) == /\ http'[d] = http[d]
               /\ placed'[d] = placed[d]
               /\ handler'[d] = NoLocals
               /\ orderCall'[d] \in {orderCall[d], Done("Unavailable", {})}
               /\ orderCall'[d] # orderCall[d] => orderCall[d].st \in {"sent", "done"}
               /\ handler[d].pc # "idle" => orderCall'[d] = Done("Unavailable", {})

Routing(d) == /\ \/ Disconnected(d) \/ Response(d)
                 \/ \E r \in Requests : Handle(d, r)
              /\ handler'[d] = handler[d]
              /\ placed'[d] = placed[d]

LEMMA StepCases ==
  ASSUME LedgerInv, [Next]_vars, NEW d \in Calls
  PROVE  Untouched(d) \/ Served(d) \/ CutOffAt(d) \/ Routing(d)
<1>a. TypeOK /\ HandlerInv
  BY DEF LedgerInv, IndInv
<1>b. /\ DOMAIN orderCall = Calls /\ DOMAIN handler = Calls /\ DOMAIN placed = Calls
  BY <1>a DEF TypeOK, OrderTypeOK
<1>1. CASE UserStep \/ MenuStep \/ UNCHANGED vars
  BY <1>1 DEF UserStep, MenuStep, vars, orderState, gatewayVars, Untouched
<1>2. CASE GatewayStep
  <2>1. UNCHANGED <<handler, placed>> /\ GatewayNext
    BY <1>2 DEF GatewayStep, orderState
  <2>2. QED BY <2>1, <1>a, GatewayEffect DEF GatewayLeaves, Untouched, Routing
<1>3. CASE OrderStep \/ CancelStep
  <2>1. UNCHANGED http
    BY <1>3 DEF OrderStep, CancelStep, gatewayVars
  <2>2. ASSUME NEW c \in Calls, OrderServe(c) \/ ContextCanceled(c), c # d
        PROVE  Untouched(d)
    BY <2>1, <2>2, <1>b
    DEF OrderServe, OrderServer_CreateOrder, UserChecked, MenuItemChecked, NextItem,
        InsertOrder, InsertItems, Commit, Rollback, OrderServer_GetOrder,
        OrderServer_GetOrders, Preload, OrderRefuse, ContextCanceled, Found,
        OrderReturn, tables, Untouched
  <2>3. CASE OrderRestart
    BY <2>1, <2>3 DEF OrderRestart, tables, Untouched
  <2>4. CASE OrderCrash
    <3>1. PICK lost \in SUBSET Undelivered(orderCall) :
            orderCall' = CutOff(orderCall, lost \cup {c \in Calls : handler[c].pc # "idle"})
      BY <2>4 DEF OrderCrash
    <3>2. handler[d].pc # "idle" => orderCall[d].st = "sent"
      BY <1>a DEF HandlerInv, RunningInv
    <3>3. d \in lost => orderCall[d].st = "done"
      BY DEF Undelivered
    <3>4. orderCall'[d] = IF d \in lost \/ handler[d].pc # "idle"
                          THEN Done("Unavailable", {}) ELSE orderCall[d]
      BY <3>1, <1>b DEF CutOff
    <3>5. UNCHANGED placed /\ handler'[d] = NoLocals
      BY <2>4 DEF OrderCrash, tables
    <3>6. QED BY <2>1, <3>2, <3>3, <3>4, <3>5 DEF CutOffAt
  <2>5. QED BY <1>3, <2>1, <2>2, <2>3, <2>4 DEF OrderStep, CancelStep, OrderNext, Served
<1>4. QED BY <1>1, <1>2, <1>3 DEF Next

(* Stored orders stay as they are, whatever is committed beside them. *)
LEMMA OrdersStay ==
  ASSUME LedgerInv, [Next]_vars
  PROVE  /\ orders \subseteq orders'
         /\ \A o \in orders : ItemsOf(o.id)' = ItemsOf(o.id)
<1>a. TypeOK /\ KeysInv /\ OrderIntegrity
  BY DEF LedgerInv, IndInv
<1>1. ASSUME UNCHANGED <<orders, orderItems>>
      PROVE  /\ orders \subseteq orders'
             /\ \A o \in orders : ItemsOf(o.id)' = ItemsOf(o.id)
  BY <1>1 DEF ItemsOf
<1>2. ASSUME NEW c \in Calls, Commit(c)
      PROVE  /\ orders \subseteq orders'
             /\ \A o \in orders : ItemsOf(o.id)' = ItemsOf(o.id)
  BY <1>2, <1>a, CommitWhole DEF Commit, Publish
<1>3. CASE UserStep \/ MenuStep \/ GatewayStep \/ UNCHANGED vars
  BY <1>3, <1>1 DEF UserStep, MenuStep, GatewayStep, orderState, vars
<1>4. CASE OrderStep \/ CancelStep
  <2>1. CASE Quiet
    BY <2>1, <1>1 DEF Quiet, tables
  <2>2. QED BY <2>1, <1>1, <1>2, <1>4, <1>a, OrderEffect DEF InsertOrder, InsertItems
<1>5. QED BY <1>3, <1>4 DEF Next

LEMMA ShownStays ==
  ASSUME LedgerInv, [Next]_vars, NEW msg, Shown(msg)
  PROVE  Shown(msg)'
BY OrdersStay DEF Shown

LEMMA StoredStays ==
  ASSUME LedgerInv, [Next]_vars, NEW d \in Calls, NEW msgs, Stored(d, msgs),
         placed'[d] = placed[d]
  PROVE  Stored(d, msgs)'
BY OrdersStay DEF Stored

-----------------------------------------------------------------------------
(* No error becomes a success, and 400 and 404 have one source each. *)
LEMMA ErrorStatus ==
  ASSUME NEW code
  PROVE  /\ HandleGRPCError(code) \notin {200, 201}
         /\ HandleGRPCError(code) = 400 <=> code = "InvalidArgument"
         /\ HandleGRPCError(code) = 404 <=> code = "NotFound"
BY DEF HandleGRPCError

(* A call that the order service holds has an unanswered client. *)
LEMMA HeldCall ==
  ASSUME LedgerInv, NEW d \in Calls, orderCall[d].st # "idle"
  PROVE  /\ http[d].st \in {"waiting", "lost"}
         /\ orderCall[d].st = "sent" => placed[d] = {}
BY DEF LedgerInv, IndInv, HandlerInv, ChannelInv, PlacedInv

LEMMA UntouchedAnswer ==
  ASSUME LedgerInv, [Next]_vars, NEW d \in Calls, AnswerInv(d), Untouched(d)
  PROVE  AnswerInv(d)'
<1>a. http'[d] = http[d] /\ orderCall'[d] = orderCall[d] /\ handler'[d] = handler[d]
        /\ placed'[d] = placed[d]
  BY DEF Untouched
<1>1. SentInv(d)'
  BY <1>a DEF AnswerInv, SentInv, Translated
<1>2. DoneInv(d)'
  BY <1>a, OrdersStay DEF AnswerInv, DoneInv, Shown, Stored
<1>3. RowsInv(d)'
  BY <1>a, OrdersStay DEF AnswerInv, RowsInv
<1>4. ToldInv(d)'
  BY <1>a, OrdersStay DEF AnswerInv, ToldInv, Shown, Stored, Got
<1>5. QED BY <1>1, <1>2, <1>3, <1>4 DEF AnswerInv

LEMMA CutOffAnswer ==
  ASSUME LedgerInv, [Next]_vars, NEW d \in Calls, AnswerInv(d), CutOffAt(d)
  PROVE  AnswerInv(d)'
<1>a. http'[d] = http[d] /\ placed'[d] = placed[d] /\ handler'[d].pc = "idle"
  BY DEF CutOffAt, NoLocals
<1>1. CASE orderCall'[d] = orderCall[d]
  <2>1. SentInv(d)'
    BY <1>a, <1>1 DEF AnswerInv, SentInv, Translated
  <2>2. DoneInv(d)'
    BY <1>a, <1>1, OrdersStay DEF AnswerInv, DoneInv, Shown, Stored
  <2>3. RowsInv(d)'
    BY <1>a DEF RowsInv
  <2>4. ToldInv(d)'
    BY <1>a, OrdersStay DEF AnswerInv, ToldInv, Shown, Stored, Got
  <2>5. QED BY <2>1, <2>2, <2>3, <2>4 DEF AnswerInv
<1>2. CASE orderCall'[d] = Done("Unavailable", {}) /\ orderCall'[d] # orderCall[d]
  <2>1. orderCall[d].st # "idle"
    BY <1>2 DEF CutOffAt
  <2>2. orderCall'[d].st = "done" /\ orderCall'[d].code = "Unavailable"
    BY <1>2 DEF Done
  <2>3. SentInv(d)' /\ DoneInv(d)' /\ RowsInv(d)'
    BY <2>2, <1>a DEF SentInv, DoneInv, RowsInv
  <2>4. ToldInv(d)'
    BY <1>a, <2>1, HeldCall DEF ToldInv, Got
  <2>5. QED BY <2>3, <2>4 DEF AnswerInv
<1>3. QED BY <1>1, <1>2 DEF CutOffAt

(* A step of the handler that answers nothing yet. *)
LEMMA HandlerGoesOn ==
  ASSUME LedgerInv, [Next]_vars, NEW d \in Calls, AnswerInv(d),
         orderCall[d].st = "sent", orderCall'[d] = orderCall[d], http'[d] = http[d],
         handler'[d].pc = "preload" => handler'[d].rows \subseteq orders
  PROVE  AnswerInv(d)'
<1>1. SentInv(d)' /\ DoneInv(d)'
  BY DEF AnswerInv, SentInv, DoneInv, Translated
<1>2. RowsInv(d)'
  BY OrdersStay DEF RowsInv
<1>3. ToldInv(d)'
  BY HeldCall DEF ToldInv, Got
<1>4. QED BY <1>1, <1>2, <1>3 DEF AnswerInv

(* The handler returns: what its status promises is true. *)
LEMMA HandlerReturns ==
  ASSUME LedgerInv, [Next]_vars, NEW d \in Calls, AnswerInv(d),
         orderCall[d].st = "sent", http'[d] = http[d],
         NEW code, NEW msgs, OrderReturn(d, code, msgs),
         code = "OK" => \A msg \in msgs : Shown(msg)',
         code = "OK" /\ orderCall[d].req.op = "CreateOrder" => Stored(d, msgs)',
         code \in {"InvalidArgument", "NotFound"} => placed'[d] = {}
  PROVE  AnswerInv(d)'
<1>a. orderCall'[d].st = "done" /\ orderCall'[d].code = code /\ orderCall'[d].msgs = msgs
        /\ handler'[d].pc = "idle"
  BY DEF OrderReturn, Done, NoLocals, LedgerInv, IndInv, TypeOK, OrderTypeOK
<1>1. SentInv(d)' /\ RowsInv(d)'
  BY <1>a DEF SentInv, RowsInv
<1>2. DoneInv(d)'
  BY <1>a DEF AnswerInv, SentInv, DoneInv, Shown, Stored
<1>3. ToldInv(d)'
  BY HeldCall DEF ToldInv, Got
<1>4. QED BY <1>1, <1>2, <1>3 DEF AnswerInv

LEMMA ServedAnswer ==
  ASSUME LedgerInv, [Next]_vars, NEW d \in Calls, AnswerInv(d), Served(d)
  PROVE  AnswerInv(d)'
<1>a. TypeOK /\ KeysInv /\ OrderIntegrity /\ HandlerInv
  BY DEF LedgerInv, IndInv
<1>b. handler[d] \in Locals /\ DOMAIN handler = Calls
  BY <1>a DEF TypeOK, OrderTypeOK
<1>c. http'[d] = http[d]
  BY DEF Served
<1>d. ASSUME orderCall[d].st = "sent", UNCHANGED placed,
             NEW code, code # "OK", OrderReturn(d, code, {})
      PROVE  AnswerInv(d)'
  <2>1. placed'[d] = {}
    BY <1>d, HeldCall
  <2>2. QED BY <1>c, <1>d, <2>1, HandlerReturns
<1>e. ASSUME orderCall[d].st = "sent", UNCHANGED orderCall, handler'[d].pc # "preload"
      PROVE  AnswerInv(d)'
  BY <1>c, <1>e, HandlerGoesOn
<1>f. ASSUME NEW lines, NextItem(d, lines) PROVE handler'[d].pc # "preload"
  BY <1>b, <1>f DEF NextItem, Locals
<1>1. CASE OrderServer_CreateOrder(d)
  <2>1. handler'[d].pc = "user"
    BY <1>1, <1>b DEF OrderServer_CreateOrder, Locals
  <2>2. QED BY <1>1, <1>e, <2>1 DEF OrderServer_CreateOrder, At, OrderServing
<1>2. CASE UserChecked(d)
  <2>1. \/ NextItem(d, <<>>) /\ UNCHANGED orderCall
        \/ OrderReturn(d, "InvalidArgument", {})
    BY <1>2 DEF UserChecked
  <2>2. orderCall[d].st = "sent" /\ UNCHANGED placed
    BY <1>2 DEF UserChecked, At, OrderServing, tables
  <2>3. QED BY <2>1, <2>2, <1>d, <1>e, <1>f
<1>3. CASE MenuItemChecked(d)
  <2>1. \/ (\E lines : NextItem(d, lines)) /\ UNCHANGED orderCall
        \/ OrderReturn(d, "InvalidArgument", {})
    BY <1>3 DEF MenuItemChecked
  <2>2. orderCall[d].st = "sent" /\ UNCHANGED placed
    BY <1>3 DEF MenuItemChecked, At, OrderServing, tables
  <2>3. QED BY <2>1, <2>2, <1>d, <1>e, <1>f
<1>4. CASE InsertOrder(d) \/ InsertItems(d)
  <2>1. handler'[d].pc # "preload"
    BY <1>4, <1>b DEF InsertOrder, InsertItems, Locals
  <2>2. QED BY <1>4, <1>e, <2>1 DEF InsertOrder, InsertItems, At, OrderServing
<1>5. CASE Commit(d)
  <2>1. orderCall[d].st = "sent" /\ placed[d] = {}
    BY <1>5, HeldCall DEF Commit, At, OrderServing
  <2>2. /\ NewOrder(d) \in orders'
        /\ NewOrder(d).id = handler[d].orderId
        /\ placed'[d] = {handler[d].orderId}
    BY <1>5, <1>a, <2>1 DEF Commit, Publish, NewOrder, TypeOK, OrderTypeOK
  <2>3. {i \in orderItems' : i.orderId = NewOrder(d).id} = NewItems(d)
    BY <1>5, <1>a, <2>2, CommitWhole
  <2>4. PICK o, msg : /\ o = NewOrder(d)
                      /\ msg = OrderToProto(o, NewItems(d))
    OBVIOUS
  <2>5. /\ o \in orders' /\ placed'[d] = {o.id}
        /\ msg = OrderToProto(o, {i \in orderItems' : i.orderId = o.id})
    BY <2>2, <2>3, <2>4
  <2>6. Shown(msg)'
    BY <2>5 DEF Shown, ItemsOf
  <2>7. Stored(d, {msg})'
    BY <2>5 DEF Stored, ItemsOf
  <2>8. OrderReturn(d, "OK", {msg}) \/ OrderReturn(d, "Internal", {})
    BY <1>5, <2>4 DEF Commit, CreateOrderResponse
  <2>9. CASE OrderReturn(d, "OK", {msg})
    BY <2>1, <2>6, <2>7, <2>9, <1>c, HandlerReturns
  <2>10. CASE OrderReturn(d, "Internal", {})
    BY <2>1, <2>10, <1>c, HandlerReturns
  <2>11. QED BY <2>8, <2>9, <2>10
<1>6. CASE Rollback(d) \/ OrderRefuse(d) \/ ContextCanceled(d)
  <2>1. \E code : code # "OK" /\ OrderReturn(d, code, {})
    BY <1>6 DEF Rollback, OrderRefuse, ContextCanceled
  <2>2. orderCall[d].st = "sent" /\ UNCHANGED placed
    BY <1>6 DEF Rollback, OrderRefuse, ContextCanceled, At, OrderServing, tables
  <2>3. QED BY <2>1, <2>2, <1>d
<1>7. CASE OrderServer_GetOrder(d) \/ OrderServer_GetOrders(d)
  <2>1. orderCall[d].st = "sent" /\ UNCHANGED placed
    BY <1>7 DEF OrderServer_GetOrder, OrderServer_GetOrders, At, OrderServing, tables
  <2>2. \/ \E rows \in SUBSET orders : Found(d, rows)
        \/ \E code : code # "OK" /\ OrderReturn(d, code, {})
    BY <1>7 DEF OrderServer_GetOrder, OrderServer_GetOrders
  <2>3. ASSUME NEW rows \in SUBSET orders, Found(d, rows)
        PROVE  AnswerInv(d)'
    <3>1. handler'[d].rows = rows /\ UNCHANGED orderCall
      BY <2>3, <1>b DEF Found, Locals
    <3>2. QED BY <3>1, <2>1, <1>c, HandlerGoesOn
  <2>4. QED BY <2>1, <2>2, <2>3, <1>d
<1>8. CASE Preload(d)
  <2>1. /\ orderCall[d].st = "sent" /\ UNCHANGED <<orders, orderItems, placed>>
        /\ orderCall[d].req.op # "CreateOrder"
        /\ handler[d].pc = "preload"
    BY <1>8 DEF Preload, At, OrderServing, tables
  <2>2. \/ OrderReturn(d, "OK", GetOrdersResponse(handler[d].rows))
        \/ OrderReturn(d, PreloadError(d), {}) /\ PreloadError(d) # "OK"
    BY <1>8 DEF Preload, PreloadError
  <2>3. handler[d].rows \subseteq orders
    BY <2>1 DEF AnswerInv, RowsInv
  <2>4. \A msg \in GetOrdersResponse(handler[d].rows) : Shown(msg)'
    BY <2>1, <2>3 DEF GetOrdersResponse, Shown, ItemsOf
  <2>5. CASE OrderReturn(d, "OK", GetOrdersResponse(handler[d].rows))
    BY <2>1, <2>4, <2>5, <1>c, HandlerReturns
  <2>6. QED BY <2>1, <2>2, <2>5, <1>d
<1>9. QED BY <1>1, <1>2, <1>3, <1>4, <1>5, <1>6, <1>7, <1>8 DEF Served, OrderServe

-----------------------------------------------------------------------------
(* The gateway asks the order service for what its client asked. *)
LEMMA HandleOrderCall ==
  ASSUME TypeOK, NEW d \in Calls, NEW r \in Requests, Handle(d, r)
  PROVE  \/ orderCall'[d] = orderCall[d]
         \/ /\ orderCall'[d].st = "sent"
            /\ orderCall'[d].req.op = r.op
            /\ r.op = "CreateOrder" => orderCall'[d].req = Translated(r)
<1>b. DOMAIN orderCall = Calls
  BY DEF TypeOK, OrderTypeOK
<1>1. CASE Handlers_CreateOrder(d, r)
  <2>1. UNCHANGED orderCall \/ orderCall'[d] = Sent(Translated(r))
    BY <1>1, <1>b DEF Handlers_CreateOrder, BadRequest, channels, CallOrder, Translated
  <2>2. r.op = "CreateOrder"
    BY <1>1 DEF Handlers_CreateOrder, Routed
  <2>3. Translated(r).op = "CreateOrder"
    BY DEF Translated
  <2>4. QED BY <2>1, <2>2, <2>3 DEF Sent
<1>2. CASE Handlers_GetOrder(d, r)
  <2>1. UNCHANGED orderCall \/ orderCall'[d] = Sent([op |-> "GetOrder", id |-> r.id])
    BY <1>2, <1>b DEF Handlers_GetOrder, BadRequest, channels, CallOrder
  <2>2. r.op = "GetOrder"
    BY <1>2 DEF Handlers_GetOrder, Routed
  <2>3. QED BY <2>1, <2>2 DEF Sent
<1>3. CASE Handlers_GetOrders(d, r)
  <2>1. orderCall'[d] = Sent([op |-> "GetOrders"]) /\ r.op = "GetOrders"
    BY <1>3, <1>b DEF Handlers_GetOrders, CallOrder, Routed
  <2>2. QED BY <2>1 DEF Sent
<1>4. CASE ~(Handlers_CreateOrder(d, r) \/ Handlers_GetOrder(d, r) \/ Handlers_GetOrders(d, r))
  <2>1. UNCHANGED orderCall
    BY <1>4 DEF Handle, Handlers_CreateUser, Handlers_GetUser, Handlers_GetUsers,
       Handlers_CreateMenuItem, Handlers_GetMenuItem, Handlers_GetMenu,
       BadRequest, CallUser, CallMenu, channels
  <2>2. QED BY <2>1
<1>5. QED BY <1>1, <1>2, <1>3, <1>4

LEMMA RoutingAnswer ==
  ASSUME LedgerInv, [Next]_vars, NEW d \in Calls, AnswerInv(d), Routing(d)
  PROVE  AnswerInv(d)'
<1>a. TypeOK /\ HandlerInv /\ PlacedInv
  BY DEF LedgerInv, IndInv
<1>b. DOMAIN http = Calls /\ DOMAIN orderCall = Calls
  BY <1>a DEF TypeOK, GatewayTypeOK, OrderTypeOK
<1>c. handler'[d] = handler[d] /\ placed'[d] = placed[d]
  BY DEF Routing
<1>d. ChannelInv(d) /\ RunningInv(d)
  BY <1>a DEF HandlerInv
<1>1. CASE Disconnected(d)
  <2>1. /\ http'[d].st = "lost" /\ http'[d].req = http[d].req
        /\ orderCall'[d] = orderCall[d]
    BY <1>1 DEF Disconnected
  <2>2. SentInv(d)'
    BY <2>1 DEF AnswerInv, SentInv, Translated
  <2>3. DoneInv(d)'
    BY <2>1, <1>c, OrdersStay DEF AnswerInv, DoneInv, Shown, Stored
  <2>4. RowsInv(d)'
    BY <1>c, OrdersStay DEF AnswerInv, RowsInv
  <2>5. ToldInv(d)'
    BY <2>1 DEF ToldInv, Got
  <2>6. QED BY <2>2, <2>3, <2>4, <2>5 DEF AnswerInv
<1>2. CASE OrderResponse(d)
  <2>1. orderCall'[d].st = "idle" /\ orderCall[d].st = "done"
    BY <1>2, <1>b DEF OrderResponse, Respond, Idle
  <2>2. handler'[d].pc = "idle"
    BY <2>1, <1>c, <1>d DEF RunningInv
  <2>3. SentInv(d)' /\ DoneInv(d)' /\ RowsInv(d)'
    BY <2>1, <2>2 DEF SentInv, DoneInv, RowsInv
  <2>4. ToldInv(d)'
    <3>1. CASE orderCall[d].code = "OK"
      <4>1. /\ http'[d].req = http[d].req
            /\ http'[d].status = SuccessStatus(http[d].req.op)
            /\ http'[d].msgs = orderCall[d].msgs
        BY <1>2, <1>b, <3>1 DEF OrderResponse, Respond, Answered
      <4>2. /\ \A msg \in orderCall[d].msgs : Shown(msg)
            /\ http[d].req.op = "CreateOrder" => Stored(d, orderCall[d].msgs)
        BY <2>1, <3>1 DEF AnswerInv, DoneInv
      <4>3. http'[d].req.op = "CreateOrder" => http'[d].status = 201
        BY <4>1 DEF SuccessStatus
      <4>4. QED BY <4>1, <4>2, <4>3, <1>c, OrdersStay DEF ToldInv, Got, Shown, Stored
    <3>2. CASE orderCall[d].code # "OK"
      <4>1. http'[d].status = HandleGRPCError(orderCall[d].code)
        BY <1>2, <1>b, <3>2 DEF OrderResponse, Respond, Answered
      <4>2. orderCall[d].code \in {"InvalidArgument", "NotFound"} => placed[d] = {}
        BY <2>1 DEF AnswerInv, DoneInv
      <4>3. QED BY <4>1, <4>2, <1>c, ErrorStatus DEF ToldInv, Got
    <3>3. QED BY <3>1, <3>2
  <2>5. QED BY <2>3, <2>4 DEF AnswerInv
<1>3. CASE UserResponse(d) \/ MenuResponse(d)
  <2>1. /\ http[d].req.op \notin OrderOps /\ http'[d].req = http[d].req
        /\ orderCall'[d] = orderCall[d]
    BY <1>3, <1>b DEF UserResponse, MenuResponse, Waiting, Respond, Answered,
       UserOps, MenuOps, OrderOps
  <2>2. orderCall[d].st = "idle" /\ handler[d].pc = "idle"
    BY <2>1, <1>d DEF ChannelInv, RunningInv
  <2>3. QED BY <2>1, <2>2, <1>c DEF AnswerInv, SentInv, DoneInv, RowsInv, ToldInv, Got,
            OrderOps
<1>4. ASSUME NEW r \in Requests, Handle(d, r) PROVE AnswerInv(d)'
  <2>1. http[d].st = "new" /\ orderCall[d].st = "idle" /\ handler[d].pc = "idle"
          /\ placed[d] = {}
    BY <1>4, <1>a, <1>d, HandleEffect DEF ChannelInv, RunningInv, PlacedInv
  <2>2. \/ http'[d] = Answered(r, 400, {}) /\ UNCHANGED orderCall
        \/ http'[d] = [st |-> "waiting", req |-> r]
    BY <1>4, <1>a, HandleEffect
  <2>3. \/ orderCall'[d] = orderCall[d]
        \/ /\ orderCall'[d].st = "sent"
           /\ orderCall'[d].req.op = r.op
           /\ r.op = "CreateOrder" => orderCall'[d].req = Translated(r)
    BY <1>4, <1>a, HandleOrderCall
  <2>4. RowsInv(d)'
    BY <2>1, <1>c DEF RowsInv
  <2>5. SentInv(d)'
    <3>1. SUFFICES ASSUME orderCall'[d].st = "sent"
                   PROVE  /\ orderCall'[d].req.op = http'[d].req.op
                          /\ http'[d].req.op = "CreateOrder" =>
                               orderCall'[d].req = Translated(http'[d].req)
      BY DEF SentInv, Translated
    <3>2. http'[d].req = r
      BY <2>1, <2>2, <3>1
    <3>3. QED BY <2>1, <2>3, <3>1, <3>2
  <2>6. orderCall'[d].st # "done"
    BY <2>1, <2>3
  <2>7. ToldInv(d)'
    BY <2>1, <2>2, <1>c DEF ToldInv, Got, Answered
  <2>8. QED BY <2>4, <2>5, <2>6, <2>7 DEF AnswerInv, DoneInv
<1>5. QED BY <1>1, <1>2, <1>3, <1>4 DEF Routing, Response

-----------------------------------------------------------------------------
(* The inductive invariant behind the answers. *)
TruthInv == LedgerInv /\ \A c \in Calls : AnswerInv(c)

LEMMA TruthInvInit == Init => TruthInv
<1> SUFFICES ASSUME Init PROVE TruthInv
  OBVIOUS
<1>1. \A c \in Calls : AnswerInv(c)
  BY DEF Init, OrderInit, GatewayInit, AnswerInv, SentInv, DoneInv, RowsInv, ToldInv,
     Got, Idle, NoLocals
<1>2. QED BY <1>1, LedgerInvInit DEF TruthInv

LEMMA TruthInvStep == TruthInv /\ [Next]_vars => TruthInv'
<1> SUFFICES ASSUME TruthInv, [Next]_vars PROVE TruthInv'
  OBVIOUS
<1>1. LedgerInv'
  BY LedgerInvStep DEF TruthInv
<1>2. ASSUME NEW d \in Calls PROVE AnswerInv(d)'
  BY StepCases, UntouchedAnswer, ServedAnswer, CutOffAnswer, RoutingAnswer DEF TruthInv
<1>3. QED BY <1>1, <1>2 DEF TruthInv

(***************************************************************************)
(* What CreateOrder's client is told is true: after 201 its order is in    *)
(* the database, once, as shown; after 400 and 404 nothing is stored for   *)
(* it, although the handler gives up halfway through a chain of calls.     *)
(***************************************************************************)
THEOREM AnswersAreTrue == Spec => []AnswerIsTrue
<1>1. TruthInv => AnswerIsTrue
  BY DEF TruthInv, AnswerInv, ToldInv, Stored, AnswerIsTrue
<1>2. QED BY <1>1, TruthInvInit, TruthInvStep, PTL DEF Spec

(***************************************************************************)
(* The two SELECTs of a read, which no transaction joins, never show an    *)
(* order without its items, with some of them or with another's: an order  *)
(* is committed with all of its items and never changes afterwards.        *)
(***************************************************************************)
THEOREM OrdersAreReadWhole == Spec => []OrdersReadWhole
<1>1. TruthInv => OrdersReadWhole
  BY DEF TruthInv, AnswerInv, ToldInv, Shown, OrdersReadWhole
<1>2. QED BY <1>1, TruthInvInit, TruthInvStep, PTL DEF Spec

-----------------------------------------------------------------------------
(***************************************************************************)
(* The loop over req.Items: what it has appended so far are the first      *)
(* items of the request, and when it ends they are all of them.            *)
(***************************************************************************)
LinesMatch(lines, items) ==
  \A k \in DOMAIN lines : /\ lines[k].menuItemId = items[k].menuItemId
                          /\ lines[k].quantity = items[k].quantity

LinesInv(c) ==
  /\ handler[c].pc \in {"menu", "insert", "items", "commit"} =>
       LinesMatch(handler[c].lines, orderCall[c].req.items)
  /\ handler[c].pc \in {"insert", "items", "commit"} =>
       Len(handler[c].lines) = Len(orderCall[c].req.items)

LEMMA NextItemLines ==
  ASSUME TypeOK, NEW d \in Calls, NEW lines \in Seq(Line), NextItem(d, lines),
         UNCHANGED orderCall, orderCall[d].req.items \in Seq(ItemReq),
         LinesMatch(lines, orderCall[d].req.items),
         Len(lines) <= Len(orderCall[d].req.items)
  PROVE  LinesInv(d)'
<1>a. handler[d] \in Locals /\ DOMAIN handler = Calls
  BY DEF TypeOK, OrderTypeOK
<1>1. /\ handler'[d].lines = lines
      /\ handler'[d].pc = "insert" => Len(lines) + 1 > Len(orderCall[d].req.items)
      /\ handler'[d].pc \in {"menu", "insert"}
  BY <1>a DEF NextItem, Locals
<1>2. Len(lines) \in Nat /\ Len(orderCall[d].req.items) \in Nat
  OBVIOUS
<1>3. handler'[d].pc = "insert" => Len(lines) = Len(orderCall[d].req.items)
  BY <1>1, <1>2
<1>4. QED BY <1>1, <1>3 DEF LinesInv, LinesMatch

LEMMA LinesStep ==
  ASSUME LedgerInv, [Next]_vars, NEW d \in Calls, LinesInv(d)
  PROVE  LinesInv(d)'
<1>a. TypeOK /\ HandlerInv
  BY DEF LedgerInv, IndInv
<1>b. handler[d] \in Locals /\ DOMAIN handler = Calls /\ DOMAIN orderCall = Calls
  BY <1>a DEF TypeOK, OrderTypeOK
<1>c. RunningInv(d) /\ ChannelInv(d) /\ AskedMenu(d)
  BY <1>a DEF HandlerInv
<1>d. ASSUME handler'[d].pc \in {"idle", "user", "preload"} PROVE LinesInv(d)'
  BY <1>d DEF LinesInv
<1>e. ASSUME NEW code, NEW msgs, OrderReturn(d, code, msgs) PROVE LinesInv(d)'
  BY <1>b, <1>d, <1>e DEF OrderReturn, NoLocals
<1>f. ASSUME NEW rows, Found(d, rows) PROVE LinesInv(d)'
  <2>1. handler'[d].pc = "preload"
    BY <1>b, <1>f DEF Found, Locals
  <2>2. QED BY <2>1, <1>d
<1>g. ASSUME OrderServing(d, "CreateOrder") PROVE orderCall[d].req.items \in Seq(ItemReq)
  BY <1>g, <1>a, CallShapes, OrderReqShapes DEF OrderServing, TypeOK, OrderTypeOK
<1>1. CASE Untouched(d)
  BY <1>1 DEF Untouched, LinesInv, LinesMatch
<1>2. CASE CutOffAt(d)
  BY <1>2, <1>d DEF CutOffAt, NoLocals
<1>3. CASE Routing(d)
  <2>1. handler'[d] = handler[d]
    BY <1>3 DEF Routing
  <2>2. CASE Disconnected(d)
    BY <2>1, <2>2 DEF Disconnected, LinesInv, LinesMatch
  <2>3. CASE Response(d)
    <3>1. handler[d].pc = "idle"
      BY <2>3, <1>c DEF Response, UserResponse, MenuResponse, OrderResponse, Respond, Waiting,
         RunningInv, ChannelInv, UserOps, MenuOps, OrderOps
    <3>2. QED BY <2>1, <3>1, <1>d
  <2>4. ASSUME NEW r \in Requests, Handle(d, r) PROVE LinesInv(d)'
    <3>1. handler[d].pc = "idle"
      BY <2>4, <1>a, <1>c, HandleEffect DEF RunningInv, ChannelInv
    <3>2. QED BY <2>1, <3>1, <1>d
  <2>5. QED BY <1>3, <2>2, <2>3, <2>4 DEF Routing
<1>4. CASE OrderServer_CreateOrder(d)
  <2>1. handler'[d].pc = "user"
    BY <1>4, <1>b DEF OrderServer_CreateOrder, Locals
  <2>2. QED BY <2>1, <1>d
<1>5. CASE UserChecked(d)
  <2>1. CASE NextItem(d, <<>>) /\ UNCHANGED orderCall
    <3>1. orderCall[d].req.items \in Seq(ItemReq)
      BY <1>5, <1>g DEF UserChecked, At
    <3>2. <<>> \in Seq(Line) /\ LinesMatch(<<>>, orderCall[d].req.items)
            /\ Len(<<>>) <= Len(orderCall[d].req.items)
      BY <3>1 DEF LinesMatch
    <3>3. QED BY <2>1, <3>1, <3>2, <1>a, NextItemLines
  <2>2. QED BY <2>1, <1>5, <1>e DEF UserChecked
<1>6. CASE MenuItemChecked(d)
  <2>1. CASE \E code, msgs : OrderReturn(d, code, msgs)
    BY <2>1, <1>e
  <2> DEFINE lines == handler[d].lines
             items == orderCall[d].req.items
             item == items[Len(lines) + 1]
             line(m) == [menuItemId |-> item.menuItemId, quantity |-> item.quantity,
                         price |-> m.price]
  <2>2. ASSUME NEW m \in menuCall[d].msgs, menuCall[d].st = "done",
               NextItem(d, Append(lines, line(m))), UNCHANGED orderCall
        PROVE  LinesInv(d)'
    <3>1. /\ items \in Seq(ItemReq) /\ lines \in Seq(Line)
          /\ handler[d].pc = "menu"
          /\ Len(lines) < Len(items)
      BY <1>6, <1>b, <1>c, <1>g DEF MenuItemChecked, At, AskedMenu, Locals
    <3>2. item \in ItemReq
      BY <3>1
    <3>3. m \in MenuMsg
      BY <2>2, <1>a, CallShapes DEF TypeOK, MenuTypeOK
    <3>4. line(m) \in Line
      BY <3>2, <3>3 DEF ItemReq, MenuMsg, Line
    <3>5. LinesMatch(lines, items)
      BY <3>1 DEF LinesInv
    <3>6. PICK l \in Line : l = line(m)
      BY <3>4
    <3>7. l.menuItemId = item.menuItemId /\ l.quantity = item.quantity
      BY <3>6
    <3> HIDE DEF lines, items, line
    <3>8. Append(lines, l) \in Seq(Line) /\ Len(Append(lines, l)) <= Len(items)
      BY <3>1
    <3>9. LinesMatch(Append(lines, l), items)
      BY <3>1, <3>5, <3>7 DEF LinesMatch
    <3>10. QED BY <2>2, <3>1, <3>6, <3>8, <3>9, <1>a, NextItemLines DEF items
  <2>3. \/ \E code, msgs : OrderReturn(d, code, msgs)
        \/ /\ UNCHANGED orderCall
           /\ \E m \in menuCall[d].msgs : NextItem(d, Append(lines, line(m)))
    BY <1>6 DEF MenuItemChecked
  <2>4. menuCall[d].st = "done"
    BY <1>6 DEF MenuItemChecked
  <2>5. QED BY <2>1, <2>2, <2>3, <2>4
<1>7. CASE InsertOrder(d) \/ InsertItems(d)
  <2>1. /\ handler'[d].lines = handler[d].lines /\ orderCall'[d] = orderCall[d]
        /\ handler[d].pc \in {"insert", "items"}
    BY <1>7, <1>b DEF InsertOrder, InsertItems, At, Locals
  <2>2. QED BY <2>1 DEF LinesInv, LinesMatch
<1>8. CASE \/ Commit(d) \/ Rollback(d) \/ OrderRefuse(d) \/ ContextCanceled(d) \/ Preload(d)
           \/ OrderServer_GetOrder(d) \/ OrderServer_GetOrders(d)
  <2>1. (\E rows : Found(d, rows)) \/ \E code, msgs : OrderReturn(d, code, msgs)
    BY <1>8 DEF Commit, Rollback, OrderRefuse, ContextCanceled, Preload,
       OrderServer_GetOrder, OrderServer_GetOrders
  <2>2. QED BY <2>1, <1>e, <1>f
<1>9. CASE Served(d)
  BY <1>9, <1>4, <1>5, <1>6, <1>7, <1>8 DEF Served, OrderServe
<1>10. QED BY <1>1, <1>2, <1>3, <1>9, StepCases

-----------------------------------------------------------------------------
(* Different lines of an order become different rows, so rows can be counted *)
(* by the lines they come from.                                              *)
RowOf(h, k) == [id |-> h.itemId + k - 1, orderId |-> h.orderId,
                menuItemId |-> h.lines[k].menuItemId,
                quantity |-> h.lines[k].quantity, price |-> h.lines[k].price]

LEMMA RowsCounted ==
  ASSUME NEW h \in Locals, NEW K \in SUBSET DOMAIN h.lines
  PROVE  Cardinality({RowOf(h, k) : k \in K}) = Cardinality(K)
<1> DEFINE R == {RowOf(h, k) : k \in K}
           F == [k \in K |-> RowOf(h, k)]
<1>1. h.lines \in Seq(Line) /\ h.itemId \in Nat
  BY DEF Locals
<1>2. DOMAIN h.lines = 1 .. Len(h.lines) /\ Len(h.lines) \in Nat
  BY <1>1
<1>3. IsFiniteSet(K)
  <2>1. IsFiniteSet(1 .. Len(h.lines))
    BY <1>2, FS_Interval
  <2>2. QED BY <1>2, <2>1, FS_Subset
<1>4. \A k, l \in K : RowOf(h, k) = RowOf(h, l) => k = l
  <2>1. SUFFICES ASSUME NEW k \in K, NEW l \in K, RowOf(h, k) = RowOf(h, l)
                 PROVE  k = l
    OBVIOUS
  <2>2. h.itemId + k - 1 = h.itemId + l - 1
    BY <2>1 DEF RowOf
  <2>3. k \in Nat /\ l \in Nat
    BY <1>2
  <2>4. QED BY <2>2, <2>3, <1>1
<1>5. F \in [K -> R] /\ \A k, l \in K : F[k] = F[l] => k = l
  BY <1>4
<1>6. \A x \in R : \E k \in K : F[k] = x
  OBVIOUS
<1> HIDE DEF F, R
<1>7. F \in Bijection(K, R)
  BY <1>5, <1>6, Fun_IsBij
<1>8. ExistsBijection(K, R)
  BY <1>7 DEF ExistsBijection
<1>9. QED BY <1>3, <1>8, FS_Bijection DEF R

(* What OrderAsRequested says of one order. *)
Same(items, k) == {j \in DOMAIN items :
                     /\ items[j].menuItemId = items[k].menuItemId
                     /\ Int32(items[j].quantity) = Int32(items[k].quantity)}

AsRequested(o, r) ==
  /\ r.op = "CreateOrder"
  /\ o.userId = r.userId
  /\ Cardinality(ItemsOf(o.id)) = Len(r.items)
  /\ \A k \in DOMAIN r.items :
       Cardinality(RowsFor(o.id, r.items[k])) = Cardinality(Same(r.items, k))

(* An id that is noted for a call is the id of an order stored as requested. *)
RequestedInv(c) ==
  /\ \A id \in placed[c] : \E o \in orders : o.id = id
  /\ \A o \in orders : o.id \in placed[c] => AsRequested(o, http[c].req)

(* The rows that COMMIT stores, counted against the request. *)
LEMMA CommitAsRequested ==
  ASSUME TruthInv, NEW d \in Calls, LinesInv(d), Commit(d),
         NEW o, o = NewOrder(d), NEW r, r = http[d].req, UNCHANGED http
  PROVE  AsRequested(o, r)'
<1> DEFINE h == handler[d]
<1>a. TypeOK /\ KeysInv /\ OrderIntegrity /\ SentInv(d)
  BY DEF TruthInv, LedgerInv, IndInv, AnswerInv
<1>b. h \in Locals
  BY <1>a DEF TypeOK, OrderTypeOK
<1>c. orderCall[d].st = "sent" /\ orderCall[d].req.op = "CreateOrder" /\ h.pc = "commit"
  BY DEF Commit, At, OrderServing
<1>d. r.op = "CreateOrder" /\ orderCall[d].req = Translated(r)
  BY <1>a, <1>c DEF SentInv
<1>e. r \in Requests
  <2>1. http[d] \in HttpStates /\ http[d].st \in {"waiting", "lost"}
    BY <1>a, <1>c, HeldCall DEF TypeOK, GatewayTypeOK, TruthInv
  <2>2. QED BY <2>1 DEF HttpStates
<1>f. r.items \in Seq(HttpItem)
  BY <1>d, <1>e, HttpShapes
<1>g. orderCall[d].req.items = [k \in DOMAIN r.items |-> ToItemReq(r.items[k])]
        /\ orderCall[d].req.userId = r.userId
  BY <1>d DEF Translated
<1>h. Len(h.lines) = Len(r.items)
  <2>1. Len(h.lines) = Len(orderCall[d].req.items)
    BY <1>c DEF LinesInv
  <2>2. DOMAIN r.items = 1 .. Len(r.items) /\ Len(r.items) \in Nat
    BY <1>f
  <2>3. Len([k \in DOMAIN r.items |-> ToItemReq(r.items[k])]) = Len(r.items)
    BY <2>2
  <2>4. QED BY <2>1, <2>3, <1>g
<1>i. DOMAIN h.lines = DOMAIN r.items /\ DOMAIN r.items = 1 .. Len(r.items)
        /\ Len(r.items) \in Nat
  BY <1>b, <1>f, <1>h DEF Locals
<1>j. \A k \in DOMAIN r.items : /\ h.lines[k].menuItemId = r.items[k].menuItemId
                                /\ h.lines[k].quantity = Int32(r.items[k].quantity)
  <2>1. ASSUME NEW k \in DOMAIN r.items
        PROVE  /\ h.lines[k].menuItemId = orderCall[d].req.items[k].menuItemId
               /\ h.lines[k].quantity = orderCall[d].req.items[k].quantity
    BY <1>c, <1>i DEF LinesInv, LinesMatch
  <2>2. ASSUME NEW k \in DOMAIN r.items
        PROVE  orderCall[d].req.items[k] = ToItemReq(r.items[k])
    BY <1>g
  <2>3. \A item : /\ ToItemReq(item).menuItemId = item.menuItemId
                  /\ ToItemReq(item).quantity = Int32(item.quantity)
    BY DEF ToItemReq
  <2> HIDE DEF h
  <2>4. QED BY <2>1, <2>2, <2>3
<1>k. NewItems(d) = {RowOf(h, k) : k \in DOMAIN h.lines}
  BY DEF NewItems, RowOf
<1>l. o.id = h.orderId /\ o.userId = r.userId
  BY <1>g DEF NewOrder
<1>m. {i \in orderItems' : i.orderId = o.id} = NewItems(d)
  BY <1>a, <1>l, CommitWhole
<1> HIDE DEF h
<1>1. Cardinality({i \in orderItems' : i.orderId = o.id}) = Len(r.items)
  <2>1. Cardinality(NewItems(d)) = Cardinality(1 .. Len(r.items))
    BY <1>b, <1>i, <1>k, RowsCounted
  <2>2. Cardinality(1 .. Len(r.items)) = Len(r.items)
    BY <1>i, FS_Interval
  <2>3. QED BY <2>1, <2>2, <1>m
<1>2. ASSUME NEW k \in DOMAIN r.items
      PROVE  Cardinality({i \in NewItems(d) : /\ i.menuItemId = r.items[k].menuItemId
                                              /\ i.quantity = Int32(r.items[k].quantity)})
               = Cardinality(Same(r.items, k))
  <2>1. \A j \in DOMAIN h.lines : /\ RowOf(h, j).menuItemId = h.lines[j].menuItemId
                                  /\ RowOf(h, j).quantity = h.lines[j].quantity
    BY DEF RowOf
  <2>2. {i \in NewItems(d) : /\ i.menuItemId = r.items[k].menuItemId
                             /\ i.quantity = Int32(r.items[k].quantity)}
          = {RowOf(h, j) : j \in Same(r.items, k)}
    BY <2>1, <1>i, <1>j, <1>k DEF Same
  <2>3. Same(r.items, k) \in SUBSET DOMAIN h.lines
    BY <1>i DEF Same
  <2>4. QED BY <2>2, <2>3, <1>b, RowsCounted
<1>3. \A item : RowsFor(o.id, item)' = {i \in NewItems(d) : /\ i.menuItemId = item.menuItemId
                                                           /\ i.quantity = Int32(item.quantity)}
  BY <1>m DEF RowsFor, ItemsOf
<1>4. QED BY <1>d, <1>l, <1>1, <1>2, <1>3 DEF AsRequested, ItemsOf

LEMMA RequestedStep ==
  ASSUME TruthInv, [Next]_vars, \A c \in Calls : LinesInv(c) /\ RequestedInv(c),
         NEW d \in Calls
  PROVE  RequestedInv(d)'
<1>a. TypeOK /\ KeysInv /\ OrderIntegrity /\ PlacedInv /\ LedgerInv
  BY DEF TruthInv, LedgerInv, IndInv
<1>b. /\ \A id \in placed[d] : \E o \in orders : o.id = id
      /\ \A o \in orders : o.id \in placed[d] => AsRequested(o, http[d].req)
  BY DEF RequestedInv
(* An order that was stored as requested still is. *)
<1>c. ASSUME NEW o \in orders, NEW r, AsRequested(o, r) PROVE AsRequested(o, r)'
  <2>1. ItemsOf(o.id)' = ItemsOf(o.id)
    BY <1>a, OrdersStay
  <2>2. \A item : RowsFor(o.id, item)' = RowsFor(o.id, item)
    BY <2>1 DEF RowsFor
  <2>3. QED BY <2>1, <2>2, <1>c DEF AsRequested
(* Its request does not change. *)
<1>d. placed[d] # {} => http'[d].req = http[d].req
  <2>1. SUFFICES ASSUME placed[d] # {} PROVE http'[d].req = http[d].req
    OBVIOUS
  <2>2. http[d].st # "new" /\ DOMAIN http = Calls
    BY <2>1, <1>a DEF PlacedInv, TypeOK, GatewayTypeOK
  <2>3. CASE Routing(d)
    <3>1. CASE Disconnected(d)
      BY <3>1 DEF Disconnected
    <3>2. CASE Response(d)
      BY <3>2, <2>2 DEF Response, UserResponse, MenuResponse, OrderResponse, Respond, Answered
    <3>3. QED BY <2>2, <2>3, <3>1, <3>2, <1>a, HandleEffect DEF Routing
  <2>4. QED BY <2>3, <1>a, StepCases DEF Untouched, Served, CutOffAt
<1>1. ASSUME placed'[d] = placed[d], orders' = orders PROVE RequestedInv(d)'
  <2>1. ASSUME NEW o \in orders', o.id \in placed'[d]
        PROVE  AsRequested(o, http[d].req)' /\ http'[d].req = http[d].req
    <3>1. PICK r : r = http[d].req
      OBVIOUS
    <3>2. o \in orders /\ AsRequested(o, r) /\ http'[d].req = r
      BY <1>1, <1>b, <1>d, <2>1, <3>1
    <3>3. AsRequested(o, r)'
      BY <3>2, <1>c
    <3>4. QED BY <3>1, <3>2, <3>3 DEF AsRequested
  <2>2. QED BY <2>1, <1>1, <1>b DEF RequestedInv
<1>2. ASSUME NEW c \in Calls, Commit(c), UNCHANGED http PROVE RequestedInv(d)'
  <2>1. orders' = orders \cup {NewOrder(c)} /\ handler[c].pc = "commit"
          /\ NewOrder(c).id = handler[c].orderId
    BY <1>2 DEF Commit, Publish, At, NewOrder
  <2>2. \A o \in orders : o.id # NewOrder(c).id
    BY <1>2, <1>a, <2>1, CommitWhole
  <2>3. d # c => placed'[d] = placed[d]
    BY <1>2, <1>a DEF Commit, TypeOK, OrderTypeOK
  <2>4. d = c => placed'[d] = {NewOrder(c).id}
    <3>1. placed[c] = {}
      BY <1>2, <1>a, HeldCall DEF Commit, At, OrderServing
    <3>2. QED BY <3>1, <2>1, <1>2, <1>a DEF Commit, TypeOK, OrderTypeOK
  <2>5. ASSUME NEW o \in orders', o.id \in placed'[d] PROVE AsRequested(o, http[d].req)'
    <3>1. PICK r : r = http[d].req
      OBVIOUS
    <3>2. CASE d = c
      <4>1. o = NewOrder(c)
        BY <2>1, <2>2, <2>4, <2>5, <3>2
      <4>2. AsRequested(o, r)'
        BY <4>1, <3>1, <3>2, <1>2, CommitAsRequested
      <4>3. QED BY <4>2, <3>1, <1>2 DEF AsRequested
    <3>3. CASE d # c
      <4>1. o.id \in placed[d]
        BY <2>3, <2>5, <3>3
      <4>2. o \in orders
        BY <4>1, <2>1, <2>2, <1>b
      <4>3. AsRequested(o, r)'
        BY <4>1, <4>2, <3>1, <1>b, <1>c
      <4>4. QED BY <4>3, <3>1, <1>2 DEF AsRequested
    <3>4. QED BY <3>2, <3>3
  <2>6. \A id \in placed'[d] : \E o \in orders' : o.id = id
    BY <2>1, <2>3, <2>4, <1>b
  <2>7. QED BY <2>5, <2>6 DEF RequestedInv
<1>3. CASE UserStep \/ MenuStep \/ GatewayStep \/ UNCHANGED vars
  BY <1>3, <1>1 DEF UserStep, MenuStep, GatewayStep, orderState, vars
<1>4. CASE OrderStep \/ CancelStep
  <2>1. UNCHANGED http
    BY <1>4 DEF OrderStep, CancelStep, gatewayVars
  <2>2. CASE Quiet
    BY <2>2, <1>1 DEF Quiet, tables
  <2>3. ASSUME NEW c \in Calls, InsertOrder(c) \/ InsertItems(c) PROVE RequestedInv(d)'
    BY <2>3, <1>1 DEF InsertOrder, InsertItems
  <2>4. QED BY <2>1, <2>2, <2>3, <1>2, <1>4, <1>a, OrderEffect
<1>5. QED BY <1>3, <1>4 DEF Next

(* The inductive invariant behind OrderAsRequested. *)
FaithfulInv == TruthInv /\ \A c \in Calls : LinesInv(c) /\ RequestedInv(c)

LEMMA FaithfulInvInit == Init => FaithfulInv
<1> SUFFICES ASSUME Init PROVE FaithfulInv
  OBVIOUS
<1>1. \A c \in Calls : LinesInv(c) /\ RequestedInv(c)
  BY DEF Init, OrderInit, LinesInv, RequestedInv, NoLocals
<1>2. QED BY <1>1, TruthInvInit DEF FaithfulInv

LEMMA FaithfulInvStep == FaithfulInv /\ [Next]_vars => FaithfulInv'
<1> SUFFICES ASSUME FaithfulInv, [Next]_vars PROVE FaithfulInv'
  OBVIOUS
<1>1. TruthInv'
  BY TruthInvStep DEF FaithfulInv
<1>2. ASSUME NEW d \in Calls PROVE LinesInv(d)'
  BY LinesStep DEF FaithfulInv, TruthInv
<1>3. ASSUME NEW d \in Calls PROVE RequestedInv(d)'
  BY RequestedStep DEF FaithfulInv
<1>4. QED BY <1>1, <1>2, <1>3 DEF FaithfulInv

(***************************************************************************)
(* A stored order is what its client asked for: the loop of CreateOrder    *)
(* skips no item, takes none twice and mixes none up between goroutines,   *)
(* so that every item is stored as often as the request lists it.          *)
(***************************************************************************)
THEOREM OrdersAreAsRequested == Spec => []OrderAsRequested
<1>1. FaithfulInv => OrderAsRequested
  BY DEF FaithfulInv, RequestedInv, AsRequested, Same, OrderAsRequested
<1>2. QED BY <1>1, FaithfulInvInit, FaithfulInvStep, PTL DEF Spec
=============================================================================
