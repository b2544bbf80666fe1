-------------------------- MODULE StudentCafeProofs --------------------------
(***************************************************************************)
(* Theorems about StudentCafe, for any number of calls, any requests, any  *)
(* initial tables, any width of the integers and any choice of failures.   *)
(***************************************************************************)
EXTENDS StudentCafe, TLAPS

-----------------------------------------------------------------------------
(* Go's conversions give values of the target type. *)
LEMMA Conversions ==
  ASSUME NEW x \in Int
  PROVE  Uint32(x) \in Uint32s /\ Int32(x) \in Int32s
<1>1. Uint32(x) \in Uint32s
  BY WordAssumption, SMT DEF Uint32, Uint32s
<1>2. (Word \div 2) \in Int
  BY WordAssumption
<1>3. Int32(x) \in Int32s
  BY <1>1, <1>2, WordAssumption DEF Int32, Int32s, Uint32s
<1>4. QED BY <1>1, <1>3

(* The three shapes of a call. *)
LEMMA CallShapes ==
  ASSUME NEW Req, NEW Msg, NEW s \in CallStates(Req, Msg)
  PROVE  /\ s.st \in {"idle", "sent", "done"}
         /\ s.st = "sent" => s.req \in Req
         /\ s.st = "done" => s.code \in Codes /\ s.msgs \in SUBSET Msg
BY DEF CallStates

LEMMA CallValues ==
  ASSUME NEW Req, NEW Msg
  PROVE  /\ Idle \in CallStates(Req, Msg)
         /\ \A req \in Req : Sent(req) \in CallStates(Req, Msg)
         /\ \A code \in Codes, msgs \in SUBSET Msg :
              Done(code, msgs) \in CallStates(Req, Msg)
BY DEF CallStates, Idle, Sent, Done

(* Losing answers leaves the calls well-formed. *)
LEMMA CutOffTyped ==
  ASSUME NEW Req, NEW Msg, NEW calls \in [Calls -> CallStates(Req, Msg)],
         NEW lost
  PROVE  CutOff(calls, lost) \in [Calls -> CallStates(Req, Msg)]
<1>1. Done("Unavailable", {}) \in CallStates(Req, Msg)
  BY CallValues DEF Codes
<1>2. QED BY <1>1 DEF CutOff

LEMMA UserReqShapes ==
  ASSUME NEW q \in UserReq
  PROVE  /\ q.op = "CreateUser" => q.email \in Emails
         /\ q.op = "GetUser" => q.id \in Uint32s
BY DEF UserReq, CreateUserRequest, GetUserRequest, GetUsersRequest

LEMMA MenuReqShapes ==
  ASSUME NEW q \in MenuReq
  PROVE  /\ q.op = "CreateMenuItem" => q.price \in Prices
         /\ q.op = "GetMenuItem" => q.id \in Uint32s
BY DEF MenuReq, CreateMenuItemRequest, GetMenuItemRequest, GetMenuRequest

LEMMA OrderReqShapes ==
  ASSUME NEW q \in OrderReq
  PROVE  /\ q.op = "CreateOrder" => q.userId \in Uint32s /\ q.items \in Seq(ItemReq)
         /\ q.op = "GetOrder" => q.id \in Uint32s
BY DEF OrderReq, CreateOrderRequest, GetOrderRequest, GetOrdersRequest

LEMMA HttpShapes ==
  ASSUME NEW r \in Requests
  PROVE  /\ r.op = "CreateUser" => r.email \in Emails \cup {Malformed}
         /\ r.op = "CreateMenuItem" => r.price \in Prices \cup {Malformed}
         /\ r.op = "CreateOrder" => r.userId \in Int /\ r.items \in Seq(HttpItem)
         /\ r.op \in UserOps \cup MenuOps \cup OrderOps
BY RequestsAssumption DEF HttpRequest, UserOps, MenuOps, OrderOps

-----------------------------------------------------------------------------
(* The user service keeps its own variables well-typed. *)
LEMMA UserTyped == UserTypeOK /\ [UserNext]_userVars => UserTypeOK'
<1> SUFFICES ASSUME UserTypeOK, [UserNext]_userVars PROVE UserTypeOK'
  OBVIOUS
<1> USE DEF UserTypeOK
<1>a. \A row \in UserRow : UserToProto(row) \in UserMsg
  BY Conversions DEF UserToProto, UserRow, UserMsg
<1>b. ASSUME NEW c \in Calls, NEW code \in Codes, NEW msgs \in SUBSET UserMsg,
             UserReply(c, code, msgs)
      PROVE  userCall' \in [Calls -> CallStates(UserReq, UserMsg)]
  <2>1. Done(code, msgs) \in CallStates(UserReq, UserMsg)
    BY CallValues
  <2>2. QED BY <2>1, <1>b DEF UserReply
<1>c. {"OK", "NotFound", "Internal", "Unavailable"} \subseteq Codes
  BY DEF Codes
<1>1. ASSUME NEW c \in Calls, UserServer_CreateUser(c) PROVE UserTypeOK'
  <2> DEFINE user == [id |-> userSeq, email |-> userCall[c].req.email]
  <2>1. user \in UserRow
    BY <1>1, CallShapes, UserReqShapes DEF UserServer_CreateUser, UserServing, UserRow
  <2>2. CreateUserResponse(user) \in SUBSET UserMsg /\ {} \in SUBSET UserMsg
    BY <2>1, <1>a DEF CreateUserResponse
  <2>3. users' \subseteq UserRow /\ userSeq' \in Nat \ {0} /\ userUp' \in BOOLEAN
    BY <1>1, <2>1 DEF UserServer_CreateUser, InsertUser
  <2>4. UserReply(c, "OK", CreateUserResponse(user)) \/ UserReply(c, "Internal", {})
    BY <1>1 DEF UserServer_CreateUser
  <2>5. QED BY <2>2, <2>3, <2>4, <1>b, <1>c
<1>2. ASSUME NEW c \in Calls, UserServer_GetUser(c) PROVE UserTypeOK'
  <2> DEFINE found == {u \in users : u.id = userCall[c].req.id}
  <2>1. GetUserResponse(found) \in SUBSET UserMsg /\ {} \in SUBSET UserMsg
    BY <1>a DEF GetUserResponse
  <2>2. \/ UserReply(c, "OK", GetUserResponse(found))
        \/ UserReply(c, "NotFound", {}) \/ UserReply(c, "Internal", {})
    BY <1>2 DEF UserServer_GetUser
  <2>3. UNCHANGED <<users, userSeq, userUp>>
    BY <1>2 DEF UserServer_GetUser
  <2>4. QED BY <2>1, <2>2, <2>3, <1>b, <1>c
<1>3. ASSUME NEW c \in Calls, UserServer_GetUsers(c) PROVE UserTypeOK'
  <2>1. GetUsersResponse \in SUBSET UserMsg /\ {} \in SUBSET UserMsg
    BY <1>a DEF GetUsersResponse
  <2>2. \/ UserReply(c, "OK", GetUsersResponse)
        \/ UserReply(c, "Internal", {})
    BY <1>3 DEF UserServer_GetUsers
  <2>3. UNCHANGED <<users, userSeq, userUp>>
    BY <1>3 DEF UserServer_GetUsers
  <2>4. QED BY <2>1, <2>2, <2>3, <1>b, <1>c
<1>4. ASSUME NEW c \in Calls, UserRefuse(c) PROVE UserTypeOK'
  BY <1>4, <1>b, <1>c DEF UserRefuse
<1>5. CASE UserCrash
  <2>1. PICK lost : userCall' = CutOff(userCall, lost)
    BY <1>5 DEF UserCrash
  <2>2. userCall' \in [Calls -> CallStates(UserReq, UserMsg)]
    BY <2>1, CutOffTyped
  <2>3. UNCHANGED <<users, userSeq>> /\ userUp' = FALSE
    BY <1>5 DEF UserCrash
  <2>4. QED BY <2>2, <2>3
<1>6. CASE UserRestart
  BY <1>6 DEF UserRestart
<1>7. CASE UNCHANGED userVars
  BY <1>7 DEF userVars
<1>8. QED BY <1>1, <1>2, <1>3, <1>4, <1>5, <1>6, <1>7 DEF UserNext, UserServe

(* The menu service keeps its own variables well-typed. *)
LEMMA MenuTyped == MenuTypeOK /\ [MenuNext]_menuVars => MenuTypeOK'
<1> SUFFICES ASSUME MenuTypeOK, [MenuNext]_menuVars PROVE MenuTypeOK'
  OBVIOUS
<1> USE DEF MenuTypeOK
<1>a. \A row \in MenuRow : MenuItemToProto(row) \in MenuMsg
  BY Conversions DEF MenuItemToProto, MenuRow, MenuMsg
<1>b. ASSUME NEW c \in Calls, NEW code \in Codes, NEW msgs \in SUBSET MenuMsg,
             MenuReply(c, code, msgs)
      PROVE  menuCall' \in [Calls -> CallStates(MenuReq, MenuMsg)]
  <2>1. Done(code, msgs) \in CallStates(MenuReq, MenuMsg)
    BY CallValues
  <2>2. QED BY <2>1, <1>b DEF MenuReply
<1>c. {"OK", "NotFound", "Internal", "Unavailable"} \subseteq Codes
  BY DEF Codes
<1>1. ASSUME NEW c \in Calls, MenuServer_CreateMenuItem(c) PROVE MenuTypeOK'
  <2> DEFINE item == [id |-> menuSeq, price |-> menuCall[c].req.price]
  <2>1. item \in MenuRow
    BY <1>1, CallShapes, MenuReqShapes
    DEF MenuServer_CreateMenuItem, MenuServing, MenuRow
  <2>2. CreateMenuItemResponse(item) \in SUBSET MenuMsg /\ {} \in SUBSET MenuMsg
    BY <2>1, <1>a DEF CreateMenuItemResponse
  <2>3. menuItems' \subseteq MenuRow /\ menuSeq' \in Nat \ {0} /\ menuUp' \in BOOLEAN
    BY <1>1, <2>1 DEF MenuServer_CreateMenuItem
  <2>4. MenuReply(c, "OK", CreateMenuItemResponse(item)) \/ MenuReply(c, "Internal", {})
    BY <1>1 DEF MenuServer_CreateMenuItem
  <2>5. QED BY <2>2, <2>3, <2>4, <1>b, <1>c
<1>2. ASSUME NEW c \in Calls, MenuServer_GetMenuItem(c) PROVE MenuTypeOK'
  <2> DEFINE found == {m \in menuItems : m.id = menuCall[c].req.id}
  <2>1. GetMenuItemResponse(found) \in SUBSET MenuMsg /\ {} \in SUBSET MenuMsg
    BY <1>a DEF GetMenuItemResponse
  <2>2. \/ MenuReply(c, "OK", GetMenuItemResponse(found))
        \/ MenuReply(c, "NotFound", {}) \/ MenuReply(c, "Internal", {})
    BY <1>2 DEF MenuServer_GetMenuItem
  <2>3. UNCHANGED <<menuItems, menuSeq, menuUp>>
    BY <1>2 DEF MenuServer_GetMenuItem
  <2>4. QED BY <2>1, <2>2, <2>3, <1>b, <1>c
<1>3. ASSUME NEW c \in Calls, MenuServer_GetMenu(c) PROVE MenuTypeOK'
  <2>1. GetMenuResponse \in SUBSET MenuMsg /\ {} \in SUBSET MenuMsg
    BY <1>a DEF GetMenuResponse
  <2>2. \/ MenuReply(c, "OK", GetMenuResponse)
        \/ MenuReply(c, "Internal", {})
    BY <1>3 DEF MenuServer_GetMenu
  <2>3. UNCHANGED <<menuItems, menuSeq, menuUp>>
    BY <1>3 DEF MenuServer_GetMenu
  <2>4. QED BY <2>1, <2>2, <2>3, <1>b, <1>c
<1>4. ASSUME NEW c \in Calls, MenuRefuse(c) PROVE MenuTypeOK'
  BY <1>4, <1>b, <1>c DEF MenuRefuse
<1>5. CASE MenuCrash
  <2>1. PICK lost : menuCall' = CutOff(menuCall, lost)
    BY <1>5 DEF MenuCrash
  <2>2. menuCall' \in [Calls -> CallStates(MenuReq, MenuMsg)]
    BY <2>1, CutOffTyped
  <2>3. UNCHANGED <<menuItems, menuSeq>> /\ menuUp' = FALSE
    BY <1>5 DEF MenuCrash
  <2>4. QED BY <2>2, <2>3
<1>6. CASE MenuRestart
  BY <1>6 DEF MenuRestart
<1>7. CASE UNCHANGED menuVars
  BY <1>7 DEF menuVars
<1>8. QED BY <1>1, <1>2, <1>3, <1>4, <1>5, <1>6, <1>7 DEF MenuNext, MenuServe

-----------------------------------------------------------------------------
UserCallTyped == userCall \in [Calls -> CallStates(UserReq, UserMsg)]
MenuCallTyped == menuCall \in [Calls -> CallStates(MenuReq, MenuMsg)]
OrderCallTyped == orderCall \in [Calls -> CallStates(OrderReq, OrderMsg)]
HandlerTyped == handler \in [Calls -> Locals]

(* A row and the rows attached to it make a well-typed message. *)
LEMMA OrderMessages ==
  ASSUME NEW row \in OrderRow, NEW attached \in SUBSET ItemRow
  PROVE  OrderToProto(row, attached) \in OrderMsg
<1> DEFINE Msg(i) == [id |-> Uint32(i.id), orderId |-> Uint32(i.orderId),
                      menuItemId |-> i.menuItemId, quantity |-> i.quantity,
                      price |-> i.price]
<1>1. \A i \in ItemRow : Msg(i) \in ItemMsg
  BY Conversions DEF ItemRow, ItemMsg
<1>2. {Msg(i) : i \in attached} \in SUBSET ItemMsg
  BY <1>1
<1>3. Uint32(row.id) \in Uint32s
  BY Conversions DEF OrderRow
<1>4. QED BY <1>2, <1>3 DEF OrderToProto, OrderMsg, OrderRow

(* What the handler inserts is well-typed. *)
LEMMA NewRows ==
  ASSUME OrderCallTyped, HandlerTyped, NEW c \in Calls,
         OrderServing(c, "CreateOrder")
  PROVE  NewOrder(c) \in OrderRow /\ NewItems(c) \in SUBSET ItemRow
<1>1. handler[c] \in Locals /\ orderCall[c] \in CallStates(OrderReq, OrderMsg)
  BY DEF HandlerTyped, OrderCallTyped
<1>2. orderCall[c].req.userId \in Uint32s
  BY <1>1, CallShapes, OrderReqShapes DEF OrderServing
<1>3. NewOrder(c) \in OrderRow
  BY <1>1, <1>2 DEF NewOrder, OrderRow, Locals
<1>4. ASSUME NEW k \in DOMAIN handler[c].lines
      PROVE  /\ handler[c].itemId + k - 1 \in Nat
             /\ handler[c].orderId \in Nat
             /\ handler[c].lines[k] \in Line
  BY <1>1 DEF Locals
<1>5. NewItems(c) \in SUBSET ItemRow
  BY <1>4 DEF NewItems, ItemRow, Line
<1>6. QED BY <1>3, <1>5

LEMMA ReturnTyped ==
  ASSUME OrderCallTyped, HandlerTyped,
         NEW c \in Calls, NEW code \in Codes, NEW msgs \in SUBSET OrderMsg,
         OrderReturn(c, code, msgs)
  PROVE  OrderCallTyped' /\ HandlerTyped'
<1>1. Done(code, msgs) \in CallStates(OrderReq, OrderMsg)
  BY CallValues
<1>2. NoLocals \in Locals
  BY DEF NoLocals, Locals, Steps
<1>3. QED BY <1>1, <1>2 DEF OrderReturn, OrderCallTyped, HandlerTyped

LEMMA NextItemTyped ==
  ASSUME OrderCallTyped, HandlerTyped, MenuCallTyped,
         NEW c \in Calls, NEW lines \in Seq(Line),
         OrderServing(c, "CreateOrder"), NextItem(c, lines)
  PROVE  HandlerTyped' /\ MenuCallTyped'
<1>1. HandlerTyped'
  <2>1. handler[c] \in Locals
    BY DEF HandlerTyped
  <2>2. \E pc \in {"menu", "insert"} :
          handler' = [handler EXCEPT ![c] = [handler[c] EXCEPT !.pc = pc, !.lines = lines]]
    BY DEF NextItem, HandlerTyped
  <2>3. \A pc \in {"menu", "insert"} :
          [handler[c] EXCEPT !.pc = pc, !.lines = lines] \in Locals
    BY <2>1 DEF Locals, Steps
  <2>4. QED BY <2>2, <2>3 DEF HandlerTyped
<1>2. orderCall[c].req.items \in Seq(ItemReq)
  BY CallShapes, OrderReqShapes DEF OrderServing, OrderCallTyped
<1> DEFINE items == orderCall[c].req.items
           k == Len(lines) + 1
           req == [op |-> "GetMenuItem", id |-> items[k].menuItemId]
<1>3. ASSUME k <= Len(items) PROVE req \in MenuReq
  <2>1. k \in DOMAIN items
    BY <1>2, <1>3
  <2>2. items[k] \in ItemReq
    BY <1>2, <2>1
  <2>3. QED BY <2>2 DEF ItemReq, MenuReq, GetMenuItemRequest
<1>4. \/ k <= Len(items) /\ menuCall' = [menuCall EXCEPT ![c] = Sent(req)]
      \/ menuCall' = [menuCall EXCEPT ![c] = Idle]
  BY DEF NextItem
<1>5. Idle \in CallStates(MenuReq, MenuMsg)
        /\ (req \in MenuReq => Sent(req) \in CallStates(MenuReq, MenuMsg))
  BY CallValues
<1> HIDE DEF items, k, req
<1>6. MenuCallTyped'
  BY <1>3, <1>4, <1>5 DEF MenuCallTyped
<1>7. QED BY <1>1, <1>6

(* The order service keeps its variables and the calls it makes well-typed. *)
LEMMA OrderTyped ==
  ASSUME OrderTypeOK, UserCallTyped, MenuCallTyped,
         \A c \in Calls : AskedMenu(c),
         OrderNext \/ (\E c \in Calls : ContextCanceled(c)) \/ UNCHANGED orderVars
  PROVE  OrderTypeOK' /\ UserCallTyped' /\ MenuCallTyped'
<1> DEFINE TablesTyped == /\ orders \subseteq OrderRow
                          /\ orderItems \subseteq ItemRow
                          /\ orderSeq \in Nat \ {0}
                          /\ itemSeq \in Nat \ {0}
                          /\ placed \in [Calls -> SUBSET Nat]
<1> DEFINE Goal == OrderTypeOK' /\ UserCallTyped' /\ MenuCallTyped'
<1>a. TablesTyped /\ orderUp \in BOOLEAN /\ OrderCallTyped /\ HandlerTyped
  BY DEF OrderTypeOK, OrderCallTyped, HandlerTyped
<1>b. ASSUME TablesTyped', (orderUp \in BOOLEAN)', OrderCallTyped', HandlerTyped',
             UserCallTyped', MenuCallTyped'
      PROVE  Goal
  BY <1>b DEF OrderTypeOK, OrderCallTyped, HandlerTyped
<1>c. UNCHANGED tables => TablesTyped'
  BY <1>a DEF tables
<1>d. {"OK", "NotFound", "Internal", "Unavailable", "InvalidArgument"} \subseteq Codes
  BY DEF Codes
<1>e. Idle \in CallStates(UserReq, UserMsg) /\ Idle \in CallStates(MenuReq, MenuMsg)
  BY CallValues
<1>f. ASSUME NEW c \in Calls
      PROVE  /\ [userCall EXCEPT ![c] = Idle] \in [Calls -> CallStates(UserReq, UserMsg)]
             /\ [menuCall EXCEPT ![c] = Idle] \in [Calls -> CallStates(MenuReq, MenuMsg)]
  BY <1>e DEF UserCallTyped, MenuCallTyped
<1>g. {} \in SUBSET OrderMsg
  OBVIOUS
<1>h. UNCHANGED orderUp => (orderUp \in BOOLEAN)'
  BY <1>a
<1>i. /\ UNCHANGED userCall => UserCallTyped'
      /\ UNCHANGED menuCall => MenuCallTyped'
      /\ UNCHANGED orderCall => OrderCallTyped'
  BY <1>a DEF UserCallTyped, MenuCallTyped, OrderCallTyped
<1> SUFFICES Goal
  OBVIOUS
<1> HIDE DEF TablesTyped, Goal
<1>1. ASSUME NEW c \in Calls, OrderServer_CreateOrder(c) PROVE Goal
  <2> DEFINE req == [op |-> "GetUser", id |-> orderCall[c].req.userId]
  <2>1. req \in UserReq
    BY <1>1, <1>a, CallShapes, OrderReqShapes
    DEF OrderServer_CreateOrder, At, OrderServing, OrderCallTyped, UserReq, GetUserRequest
  <2>2. Sent(req) \in CallStates(UserReq, UserMsg)
    BY <2>1, CallValues
  <2>3. userCall' = [userCall EXCEPT ![c] = Sent(req)]
    BY <1>1 DEF OrderServer_CreateOrder
  <2> HIDE DEF req
  <2>4. UserCallTyped'
    BY <2>2, <2>3 DEF UserCallTyped
  <2>5. HandlerTyped'
    BY <1>1, <1>a DEF OrderServer_CreateOrder, HandlerTyped, Locals, Steps
  <2>6. UNCHANGED <<tables, orderUp, orderCall, menuCall>>
    BY <1>1 DEF OrderServer_CreateOrder
  <2>7. QED BY <2>4, <2>5, <2>6, <1>b, <1>c, <1>h, <1>i
<1>2. ASSUME NEW c \in Calls, UserChecked(c) PROVE Goal
  <2>1. UserCallTyped'
    BY <1>2, <1>f DEF UserChecked, UserCallTyped
  <2>2. OrderServing(c, "CreateOrder") /\ UNCHANGED <<tables, orderUp>>
    BY <1>2 DEF UserChecked, At
  <2>3. CASE NextItem(c, <<>>) /\ UNCHANGED orderCall
    <3>1. <<>> \in Seq(Line)
      OBVIOUS
    <3>2. HandlerTyped' /\ MenuCallTyped'
      BY <2>2, <2>3, <3>1, <1>a, NextItemTyped
    <3>3. QED BY <2>1, <2>2, <2>3, <3>2, <1>b, <1>c, <1>h, <1>i
  <2>4. CASE OrderReturn(c, "InvalidArgument", {}) /\ UNCHANGED menuCall
    BY <2>1, <2>2, <2>4, ReturnTyped, <1>a, <1>b, <1>c, <1>d, <1>g, <1>h, <1>i
  <2>5. QED BY <1>2, <2>3, <2>4 DEF UserChecked
<1>3. ASSUME NEW c \in Calls, MenuItemChecked(c) PROVE Goal
  <2>1. OrderServing(c, "CreateOrder") /\ UNCHANGED <<tables, orderUp, userCall>>
    BY <1>3 DEF MenuItemChecked, At
  <2>2. CASE menuCall[c].code = "OK"
    <3> DEFINE lines == handler[c].lines
               item == orderCall[c].req.items[Len(lines) + 1]
               line(m) == [menuItemId |-> item.menuItemId,
                           quantity |-> item.quantity, price |-> m.price]
    <3>1. PICK m \in menuCall[c].msgs : NextItem(c, Append(lines, line(m)))
      BY <1>3, <2>2 DEF MenuItemChecked
    <3>2. m \in MenuMsg
      BY <1>3, CallShapes DEF MenuItemChecked, MenuCallTyped
    <3>3. lines \in Seq(Line) /\ orderCall[c].req.items \in Seq(ItemReq)
      BY <2>1, <1>a, CallShapes, OrderReqShapes
      DEF OrderServing, OrderCallTyped, HandlerTyped, Locals
    <3>4. Len(lines) + 1 \in DOMAIN orderCall[c].req.items
      <4>1. Len(lines) < Len(orderCall[c].req.items)
        BY <1>3 DEF MenuItemChecked, At, AskedMenu
      <4>2. QED BY <3>3, <4>1
    <3>5. line(m) \in Line
      <4>1. item \in ItemReq
        BY <3>3, <3>4
      <4>2. QED BY <3>2, <4>1 DEF ItemReq, MenuMsg, Line
    <3>6. Append(lines, line(m)) \in Seq(Line)
      BY <3>3, <3>5
    <3> HIDE DEF lines, line
    <3>7. HandlerTyped' /\ MenuCallTyped'
      BY <3>1, <3>6, <2>1, <1>a, NextItemTyped
    <3>8. UNCHANGED orderCall
      BY <1>3, <2>2 DEF MenuItemChecked
    <3>9. QED BY <2>1, <3>7, <3>8, <1>b, <1>c, <1>h, <1>i
  <2>3. CASE menuCall[c].code # "OK"
    <3>1. /\ OrderReturn(c, "InvalidArgument", {})
          /\ menuCall' = [menuCall EXCEPT ![c] = Idle]
      BY <1>3, <2>3 DEF MenuItemChecked
    <3>2. OrderCallTyped' /\ HandlerTyped'
      BY <3>1, ReturnTyped, <1>a, <1>d, <1>g
    <3>3. MenuCallTyped'
      BY <3>1, <1>f DEF MenuCallTyped
    <3>4. QED BY <2>1, <3>2, <3>3, <1>b, <1>c, <1>h, <1>i
  <2>4. QED BY <2>2, <2>3
<1>4. ASSUME NEW c \in Calls, InsertOrder(c) PROVE Goal
  <2>1. TablesTyped'
    BY <1>4, <1>a DEF InsertOrder, TablesTyped
  <2>2. HandlerTyped'
    <3>1. handler[c] \in Locals
      BY <1>a DEF HandlerTyped
    <3>2. \E pc \in {"items", "commit"} :
            handler' = [handler EXCEPT ![c] =
                          [handler[c] EXCEPT !.orderId = orderSeq, !.pc = pc]]
      BY <1>4, <1>a DEF InsertOrder, HandlerTyped
    <3>3. \A pc \in {"items", "commit"} :
            [handler[c] EXCEPT !.orderId = orderSeq, !.pc = pc] \in Locals
      BY <3>1, <1>a DEF Locals, Steps, TablesTyped
    <3>4. QED BY <1>a, <3>2, <3>3 DEF HandlerTyped
  <2>3. UNCHANGED <<orderUp, orderCall, userCall, menuCall>>
    BY <1>4 DEF InsertOrder
  <2>4. QED BY <2>1, <2>2, <2>3, <1>b, <1>h, <1>i
<1>5. ASSUME NEW c \in Calls, InsertItems(c) PROVE Goal
  <2>1. handler[c] \in Locals
    BY <1>a DEF HandlerTyped
  <2>2. Len(handler[c].lines) \in Nat
    BY <2>1 DEF Locals
  <2>3. TablesTyped'
    BY <1>5, <1>a, <2>2 DEF InsertItems, TablesTyped
  <2>4. [handler[c] EXCEPT !.pc = "commit", !.itemId = itemSeq] \in Locals
    BY <2>1, <1>a DEF Locals, Steps, TablesTyped
  <2>5. handler' = [handler EXCEPT ![c] =
                      [handler[c] EXCEPT !.pc = "commit", !.itemId = itemSeq]]
    BY <1>5, <1>a DEF InsertItems, HandlerTyped
  <2>6. HandlerTyped'
    BY <1>a, <2>4, <2>5 DEF HandlerTyped
  <2>7. UNCHANGED <<orderUp, orderCall, userCall, menuCall>>
    BY <1>5 DEF InsertItems
  <2>8. QED BY <2>3, <2>6, <2>7, <1>b, <1>h, <1>i
<1>6. ASSUME NEW c \in Calls, Commit(c) PROVE Goal
  <2>1. OrderServing(c, "CreateOrder")
    BY <1>6 DEF Commit, At
  <2>2. NewOrder(c) \in OrderRow /\ NewItems(c) \in SUBSET ItemRow
    BY <2>1, <1>a, NewRows
  <2>3. CreateOrderResponse(NewOrder(c), NewItems(c)) \in SUBSET OrderMsg
    BY <2>2, OrderMessages DEF CreateOrderResponse
  <2>4. OrderCallTyped' /\ HandlerTyped'
    <3>1. CASE OrderReturn(c, "OK", CreateOrderResponse(NewOrder(c), NewItems(c)))
      BY <3>1, <2>3, <1>a, <1>d, ReturnTyped
    <3>2. CASE OrderReturn(c, "Internal", {})
      BY <3>2, <1>a, <1>d, <1>g, ReturnTyped
    <3>3. QED BY <1>6, <3>1, <3>2 DEF Commit
  <2>5. handler[c].orderId \in Nat
    BY <1>a DEF HandlerTyped, Locals
  <2>6. TablesTyped'
    BY <1>6, <1>a, <2>2, <2>5 DEF Commit, Publish, TablesTyped
  <2>7. UNCHANGED <<orderUp, userCall, menuCall>>
    BY <1>6 DEF Commit
  <2>8. QED BY <2>4, <2>6, <2>7, <1>b, <1>h, <1>i
<1>7. ASSUME NEW c \in Calls, Rollback(c) PROVE Goal
  <2>1. OrderCallTyped' /\ HandlerTyped'
    BY <1>7, <1>a, <1>d, <1>g, ReturnTyped DEF Rollback
  <2>2. UNCHANGED <<tables, orderUp, userCall, menuCall>>
    BY <1>7 DEF Rollback
  <2>3. QED BY <2>1, <2>2, <1>b, <1>c, <1>h, <1>i
<1>j. ASSUME NEW c \in Calls, NEW rows \in SUBSET OrderRow, Found(c, rows)
      PROVE  OrderCallTyped' /\ HandlerTyped'
  <2>1. [handler[c] EXCEPT !.pc = "preload", !.rows = rows] \in Locals
    BY <1>a DEF HandlerTyped, Locals, Steps
  <2>2. handler' = [handler EXCEPT ![c] =
                      [handler[c] EXCEPT !.pc = "preload", !.rows = rows]]
    BY <1>a, <1>j DEF Found, HandlerTyped
  <2>3. HandlerTyped'
    BY <1>a, <2>1, <2>2 DEF HandlerTyped
  <2>4. QED BY <2>3, <1>i, <1>j DEF Found
<1>8. ASSUME NEW c \in Calls, OrderServer_GetOrder(c) PROVE Goal
  <2> DEFINE found == {o \in orders : o.id = orderCall[c].req.id}
  <2>1. found \in SUBSET OrderRow
    BY <1>a DEF TablesTyped
  <2>2. Found(c, found) \/ OrderReturn(c, "NotFound", {})
    BY <1>8 DEF OrderServer_GetOrder
  <2> HIDE DEF found
  <2>3. OrderCallTyped' /\ HandlerTyped'
    BY <2>1, <2>2, <1>j, <1>a, <1>d, <1>g, ReturnTyped
  <2>4. UNCHANGED <<tables, orderUp, userCall, menuCall>>
    BY <1>8 DEF OrderServer_GetOrder
  <2>5. QED BY <2>3, <2>4, <1>b, <1>c, <1>h, <1>i
<1>9. ASSUME NEW c \in Calls, OrderServer_GetOrders(c) PROVE Goal
  <2>1. orders \in SUBSET OrderRow
    BY <1>a DEF TablesTyped
  <2>2. Found(c, orders) \/ OrderReturn(c, "Internal", {})
    BY <1>9 DEF OrderServer_GetOrders
  <2>3. OrderCallTyped' /\ HandlerTyped'
    BY <2>1, <2>2, <1>j, <1>a, <1>d, <1>g, ReturnTyped
  <2>4. UNCHANGED <<tables, orderUp, userCall, menuCall>>
    BY <1>9 DEF OrderServer_GetOrders
  <2>5. QED BY <2>3, <2>4, <1>b, <1>c, <1>h, <1>i
<1>10. ASSUME NEW c \in Calls, Preload(c) PROVE Goal
  <2> DEFINE msgs == GetOrdersResponse(handler[c].rows)
  <2>1. handler[c].rows \in SUBSET OrderRow
    BY <1>a DEF HandlerTyped, Locals
  <2>2. \A id : ItemsOf(id) \in SUBSET ItemRow
    BY <1>a DEF ItemsOf, TablesTyped
  <2>3. msgs \in SUBSET OrderMsg
    BY <2>1, <2>2, OrderMessages DEF GetOrdersResponse
  <2>4. \/ OrderReturn(c, "OK", msgs)
        \/ OrderReturn(c, "NotFound", {}) \/ OrderReturn(c, "Internal", {})
    BY <1>10 DEF Preload, PreloadError
  <2> HIDE DEF msgs
  <2>5. OrderCallTyped' /\ HandlerTyped'
    BY <2>3, <2>4, <1>a, <1>d, <1>g, ReturnTyped
  <2>6. UNCHANGED <<tables, orderUp, userCall, menuCall>>
    BY <1>10 DEF Preload
  <2>7. QED BY <2>5, <2>6, <1>b, <1>c, <1>h, <1>i
<1>11. ASSUME NEW c \in Calls, OrderRefuse(c) PROVE Goal
  <2>1. OrderCallTyped' /\ HandlerTyped'
    BY <1>11, <1>a, <1>d, <1>g, ReturnTyped DEF OrderRefuse
  <2>2. UNCHANGED <<tables, orderUp, userCall, menuCall>>
    BY <1>11 DEF OrderRefuse
  <2>3. QED BY <2>1, <2>2, <1>b, <1>c, <1>h, <1>i
<1>12. CASE OrderCrash
  <2>1. PICK lost : orderCall' = CutOff(orderCall, lost)
    BY <1>12 DEF OrderCrash
  <2>2. OrderCallTyped'
    BY <2>1, <1>a, CutOffTyped DEF OrderCallTyped
  <2>3. NoLocals \in Locals
    BY DEF NoLocals, Locals, Steps
  <2>4. HandlerTyped'
    BY <1>12, <2>3 DEF OrderCrash, HandlerTyped
  <2>5. UserCallTyped' /\ MenuCallTyped'
    BY <1>12, <1>e DEF OrderCrash, UserCallTyped, MenuCallTyped
  <2>6. orderUp' = FALSE /\ UNCHANGED tables
    BY <1>12 DEF OrderCrash
  <2>7. QED BY <2>2, <2>4, <2>5, <2>6, <1>b, <1>c
<1>13. CASE OrderRestart
  <2>1. /\ orderUp' = TRUE
        /\ UNCHANGED <<tables, orderCall, handler, userCall, menuCall>>
    BY <1>13 DEF OrderRestart
  <2>2. HandlerTyped'
    BY <1>a, <2>1 DEF HandlerTyped
  <2>3. QED BY <2>1, <2>2, <1>b, <1>c, <1>i
<1>14. ASSUME NEW c \in Calls, ContextCanceled(c) PROVE Goal
  <2>1. OrderCallTyped' /\ HandlerTyped'
    BY <1>14, <1>a, <1>d, <1>g, ReturnTyped DEF ContextCanceled
  <2>2. UserCallTyped' /\ MenuCallTyped'
    BY <1>14, <1>f DEF ContextCanceled, UserCallTyped, MenuCallTyped
  <2>3. UNCHANGED <<tables, orderUp>>
    BY <1>14 DEF ContextCanceled
  <2>4. QED BY <2>1, <2>2, <2>3, <1>b, <1>c, <1>h
<1>15. CASE UNCHANGED orderVars
  <2>1. UNCHANGED <<tables, orderUp, orderCall, handler, userCall, menuCall>>
    BY <1>15 DEF orderVars, tables
  <2>2. HandlerTyped'
    BY <1>a, <2>1 DEF HandlerTyped
  <2>3. QED BY <2>1, <2>2, <1>b, <1>c, <1>h, <1>i
<1>16. QED
  BY <1>1, <1>2, <1>3, <1>4, <1>5, <1>6, <1>7, <1>8, <1>9, <1>10, <1>11, <1>12,
     <1>13, <1>14, <1>15 DEF OrderNext, OrderServe

-----------------------------------------------------------------------------
(* The gateway keeps its own variables and the calls it makes well-typed. *)
LEMMA RequestsTyped ==
  ASSUME NEW c \in Calls, NEW r \in Requests, Handle(c, r),
         GatewayTypeOK, UserCallTyped, MenuCallTyped, OrderCallTyped
  PROVE  GatewayTypeOK' /\ UserCallTyped' /\ MenuCallTyped' /\ OrderCallTyped'
<1> DEFINE Goal == GatewayTypeOK' /\ UserCallTyped' /\ MenuCallTyped' /\ OrderCallTyped'
<1>a. ASSUME NEW op, Routed(c, r, op), Wait(c, r) \/ BadRequest(c, r)
      PROVE  GatewayTypeOK'
  <2>1. [st |-> "waiting", req |-> r] \in HttpStates
    BY DEF HttpStates
  <2>2. Answered(r, 400, {}) \in HttpStates
    BY DEF HttpStates, Answered, Statuses
  <2>3. http' \in [Calls -> HttpStates]
    BY <1>a, <2>1, <2>2 DEF GatewayTypeOK, Wait, BadRequest
  <2>4. gatewayUp' \in BOOLEAN /\ before' \in [Calls -> SUBSET Calls]
    BY <1>a DEF GatewayTypeOK, Routed
  <2>5. QED BY <2>3, <2>4 DEF GatewayTypeOK
<1>b. ASSUME UNCHANGED channels
      PROVE  UserCallTyped' /\ MenuCallTyped' /\ OrderCallTyped'
  BY <1>b DEF channels, UserCallTyped, MenuCallTyped, OrderCallTyped
<1>c. ASSUME NEW req \in UserReq, CallUser(c, req)
      PROVE  UserCallTyped' /\ MenuCallTyped' /\ OrderCallTyped'
  BY <1>c, CallValues DEF CallUser, UserCallTyped, MenuCallTyped, OrderCallTyped
<1>d. ASSUME NEW req \in MenuReq, CallMenu(c, req)
      PROVE  UserCallTyped' /\ MenuCallTyped' /\ OrderCallTyped'
  BY <1>d, CallValues DEF CallMenu, UserCallTyped, MenuCallTyped, OrderCallTyped
<1>e. ASSUME NEW req \in OrderReq, CallOrder(c, req)
      PROVE  UserCallTyped' /\ MenuCallTyped' /\ OrderCallTyped'
  BY <1>e, CallValues DEF CallOrder, UserCallTyped, MenuCallTyped, OrderCallTyped
<1>f. ASSUME NEW op, Routed(c, r, op), BadRequest(c, r) PROVE Goal
  BY <1>f, <1>a, <1>b DEF BadRequest
<1>1. CASE Handlers_CreateUser(c, r)
  <2>1. r.email # Malformed => [op |-> "CreateUser", email |-> r.email] \in UserReq
    BY <1>1, HttpShapes DEF Handlers_CreateUser, Routed, UserReq, CreateUserRequest
  <2>2. QED BY <1>1, <2>1, <1>a, <1>c, <1>f DEF Handlers_CreateUser
<1>2. CASE Handlers_GetUser(c, r)
  <2>1. r.id \in Uint32s => [op |-> "GetUser", id |-> r.id] \in UserReq
    BY DEF UserReq, GetUserRequest
  <2>2. QED BY <1>2, <2>1, <1>a, <1>c, <1>f DEF Handlers_GetUser
<1>3. CASE Handlers_GetUsers(c, r)
  <2>1. [op |-> "GetUsers"] \in UserReq
    BY DEF UserReq, GetUsersRequest
  <2>2. QED BY <1>3, <2>1, <1>a, <1>c DEF Handlers_GetUsers
<1>4. CASE Handlers_CreateMenuItem(c, r)
  <2>1. r.price # Malformed => [op |-> "CreateMenuItem", price |-> r.price] \in MenuReq
    BY <1>4, HttpShapes DEF Handlers_CreateMenuItem, Routed, MenuReq, CreateMenuItemRequest
  <2>2. QED BY <1>4, <2>1, <1>a, <1>d, <1>f DEF Handlers_CreateMenuItem
<1>5. CASE Handlers_GetMenuItem(c, r)
  <2>1. r.id \in Uint32s => [op |-> "GetMenuItem", id |-> r.id] \in MenuReq
    BY DEF MenuReq, GetMenuItemRequest
  <2>2. QED BY <1>5, <2>1, <1>a, <1>d, <1>f DEF Handlers_GetMenuItem
<1>6. CASE Handlers_GetMenu(c, r)
  <2>1. [op |-> "GetMenu"] \in MenuReq
    BY DEF MenuReq, GetMenuRequest
  <2>2. QED BY <1>6, <2>1, <1>a, <1>d DEF Handlers_GetMenu
<1>7. CASE Handlers_CreateOrder(c, r)
  <2> DEFINE items == [k \in DOMAIN r.items |-> ToItemReq(r.items[k])]
             req == [op |-> "CreateOrder", userId |-> r.userId, items |-> items]
  <2>1. ASSUME Decodes(r) PROVE req \in OrderReq
    <3>1. r.items \in Seq(HttpItem)
      BY <1>7, HttpShapes DEF Handlers_CreateOrder, Routed
    <3>2. \A k \in DOMAIN r.items : ToItemReq(r.items[k]) \in ItemReq
      <4>1. TAKE k \in DOMAIN r.items
      <4>2. r.items[k] \in HttpItem
        BY <3>1
      <4>3. Int32(r.items[k].quantity) \in Int32s
        BY <4>2, Conversions DEF HttpItem
      <4>4. QED BY <2>1, <4>3 DEF Decodes, ToItemReq, ItemReq
    <3>3. items \in Seq(ItemReq)
      BY <3>1, <3>2
    <3>4. QED BY <2>1, <3>3 DEF Decodes, OrderReq, CreateOrderRequest
  <2>2. \/ BadRequest(c, r)
        \/ Decodes(r) /\ Wait(c, r) /\ CallOrder(c, req)
    BY <1>7 DEF Handlers_CreateOrder
  <2> HIDE DEF req
  <2>3. QED BY <1>7, <2>1, <2>2, <1>a, <1>e, <1>f DEF Handlers_CreateOrder
<1>8. CASE Handlers_GetOrder(c, r)
  <2>1. r.id \in Uint32s => [op |-> "GetOrder", id |-> r.id] \in OrderReq
    BY DEF OrderReq, GetOrderRequest
  <2>2. QED BY <1>8, <2>1, <1>a, <1>e, <1>f DEF Handlers_GetOrder
<1>9. CASE Handlers_GetOrders(c, r)
  <2>1. [op |-> "GetOrders"] \in OrderReq
    BY DEF OrderReq, GetOrdersRequest
  <2>2. QED BY <1>9, <2>1, <1>a, <1>e DEF Handlers_GetOrders
<1>10. QED BY <1>1, <1>2, <1>3, <1>4, <1>5, <1>6, <1>7, <1>8, <1>9 DEF Handle

LEMMA GatewayTyped ==
  ASSUME GatewayTypeOK, UserCallTyped, MenuCallTyped, OrderCallTyped,
         GatewayNext \/ UNCHANGED <<gatewayVars, channels>>
  PROVE  GatewayTypeOK' /\ UserCallTyped' /\ MenuCallTyped' /\ OrderCallTyped'
<1> DEFINE Channels == UserCallTyped /\ MenuCallTyped /\ OrderCallTyped
           Messages == UserMsg \cup MenuMsg \cup OrderMsg
<1>a. UNCHANGED channels => Channels'
  BY DEF channels, UserCallTyped, MenuCallTyped, OrderCallTyped
<1>b. ASSUME NEW c \in Calls, NEW reply, Respond(c, reply), http[c].st = "waiting",
             reply.st = "done" => reply.code \in Codes /\ reply.msgs \in SUBSET Messages
      PROVE  GatewayTypeOK'
  <2>1. http[c].req \in Requests
    BY <1>b DEF GatewayTypeOK, HttpStates
  <2>2. HandleGRPCError(reply.code) \in Statuses
    BY DEF HandleGRPCError, Statuses
  <2>3. SuccessStatus(http[c].req.op) \in Statuses
    BY DEF SuccessStatus, Statuses
  <2>4. /\ Answered(http[c].req, HandleGRPCError(reply.code), {}) \in HttpStates
        /\ Answered(http[c].req, SuccessStatus(http[c].req.op), reply.msgs) \in HttpStates
    BY <1>b, <2>1, <2>2, <2>3 DEF HttpStates, Answered, Respond
  <2>5. QED BY <1>b, <2>4 DEF GatewayTypeOK, Respond
<1>c. /\ Idle \in CallStates(UserReq, UserMsg)
      /\ Idle \in CallStates(MenuReq, MenuMsg)
      /\ Idle \in CallStates(OrderReq, OrderMsg)
  BY CallValues
<1>1. ASSUME NEW c \in Calls, UserResponse(c) PROVE GatewayTypeOK' /\ Channels'
  <2>1. userCall[c].st = "done" =>
          userCall[c].code \in Codes /\ userCall[c].msgs \in SUBSET Messages
    BY CallShapes DEF UserCallTyped
  <2>2. GatewayTypeOK'
    BY <1>1, <2>1, <1>b DEF UserResponse, Waiting
  <2>3. Channels'
    BY <1>1, <1>c DEF UserResponse, UserCallTyped, MenuCallTyped, OrderCallTyped
  <2>4. QED BY <2>2, <2>3
<1>2. ASSUME NEW c \in Calls, MenuResponse(c) PROVE GatewayTypeOK' /\ Channels'
  <2>1. menuCall[c].st = "done" =>
          menuCall[c].code \in Codes /\ menuCall[c].msgs \in SUBSET Messages
    BY CallShapes DEF MenuCallTyped
  <2>2. GatewayTypeOK'
    BY <1>2, <2>1, <1>b DEF MenuResponse, Waiting
  <2>3. Channels'
    BY <1>2, <1>c DEF MenuResponse, UserCallTyped, MenuCallTyped, OrderCallTyped
  <2>4. QED BY <2>2, <2>3
<1>3. ASSUME NEW c \in Calls, OrderResponse(c) PROVE GatewayTypeOK' /\ Channels'
  <2>1. orderCall[c].st = "done" =>
          orderCall[c].code \in Codes /\ orderCall[c].msgs \in SUBSET Messages
    BY CallShapes DEF OrderCallTyped
  <2>2. GatewayTypeOK'
    BY <1>3, <2>1, <1>b DEF OrderResponse, Waiting
  <2>3. Channels'
    BY <1>3, <1>c DEF OrderResponse, UserCallTyped, MenuCallTyped, OrderCallTyped
  <2>4. QED BY <2>2, <2>3
<1>4. CASE GatewayCrash
  <2>1. http' \in [Calls -> HttpStates]
    BY <1>4 DEF GatewayCrash, GatewayTypeOK, HttpStates
  <2>2. gatewayUp' \in BOOLEAN /\ before' \in [Calls -> SUBSET Calls]
    BY <1>4 DEF GatewayCrash, GatewayTypeOK
  <2>3. QED BY <1>4, <2>1, <2>2, <1>a DEF GatewayCrash, GatewayTypeOK
<1>5. CASE GatewayRestart
  BY <1>5, <1>a DEF GatewayRestart, GatewayTypeOK
<1>6. CASE UNCHANGED <<gatewayVars, channels>>
  BY <1>6, <1>a DEF gatewayVars, GatewayTypeOK
<1>7. CASE \E c \in Calls, r \in Requests : Handle(c, r)
  BY <1>7, RequestsTyped
<1>8. QED BY <1>1, <1>2, <1>3, <1>4, <1>5, <1>6, <1>7 DEF GatewayNext, Response

-----------------------------------------------------------------------------
(* Every step of the system keeps every variable well-typed. *)
LEMMA StepTyped ==
  ASSUME TypeOK, HandlerInv, [Next]_vars
  PROVE  TypeOK'
<1>a. /\ UserTypeOK /\ MenuTypeOK /\ OrderTypeOK /\ GatewayTypeOK
      /\ UserCallTyped /\ MenuCallTyped /\ OrderCallTyped
  BY DEF TypeOK, UserTypeOK, MenuTypeOK, OrderTypeOK, UserCallTyped, MenuCallTyped,
         OrderCallTyped
<1>b. \A c \in Calls : AskedMenu(c)
  BY DEF HandlerInv
<1>c. ASSUME UserCallTyped', UNCHANGED userState PROVE UserTypeOK'
  BY <1>a, <1>c DEF UserTypeOK, userState, UserCallTyped
<1>d. ASSUME MenuCallTyped', UNCHANGED menuState PROVE MenuTypeOK'
  BY <1>a, <1>d DEF MenuTypeOK, menuState, MenuCallTyped
<1>e. ASSUME OrderCallTyped', UNCHANGED orderState PROVE OrderTypeOK'
  BY <1>a, <1>e DEF OrderTypeOK, orderState, OrderCallTyped
<1>f. UNCHANGED gatewayVars => GatewayTypeOK'
  BY <1>a DEF GatewayTypeOK, gatewayVars
<1>g. /\ UNCHANGED userCall => UserCallTyped'
      /\ UNCHANGED menuCall => MenuCallTyped'
      /\ UNCHANGED orderCall => OrderCallTyped'
  BY <1>a DEF UserCallTyped, MenuCallTyped, OrderCallTyped
<1>1. CASE UserStep
  <2>1. UserTypeOK'
    BY <1>1, <1>a, UserTyped DEF UserStep
  <2>2. QED BY <1>1, <2>1, <1>d, <1>e, <1>f, <1>g DEF UserStep, TypeOK
<1>2. CASE MenuStep
  <2>1. MenuTypeOK'
    BY <1>2, <1>a, MenuTyped DEF MenuStep
  <2>2. QED BY <1>2, <2>1, <1>c, <1>e, <1>f, <1>g DEF MenuStep, TypeOK
<1>3. CASE OrderStep \/ CancelStep
  <2>1. OrderTypeOK' /\ UserCallTyped' /\ MenuCallTyped'
    BY <1>3, <1>a, <1>b, OrderTyped DEF OrderStep, CancelStep
  <2>2. UNCHANGED <<userState, menuState, gatewayVars>>
    BY <1>3 DEF OrderStep, CancelStep
  <2>3. QED BY <2>1, <2>2, <1>c, <1>d, <1>f DEF TypeOK
<1>4. CASE GatewayStep
  <2>1. GatewayTypeOK' /\ UserCallTyped' /\ MenuCallTyped' /\ OrderCallTyped'
    BY <1>4, <1>a, GatewayTyped DEF GatewayStep
  <2>2. QED BY <1>4, <2>1, <1>c, <1>d, <1>e DEF GatewayStep, TypeOK
<1>5. CASE UNCHANGED vars
  <2>1. /\ UNCHANGED <<userState, menuState, orderState, gatewayVars>>
        /\ UNCHANGED <<userCall, menuCall, orderCall>>
    BY <1>5 DEF vars, userState, menuState, orderState, gatewayVars
  <2>2. QED BY <2>1, <1>c, <1>d, <1>e, <1>f, <1>g DEF TypeOK
<1>6. QED BY <1>1, <1>2, <1>3, <1>4, <1>5 DEF Next

LEMMA InitTyped == Init => TypeOK
<1> SUFFICES ASSUME Init PROVE TypeOK
  OBVIOUS
<1>1. UserTypeOK
  <2>1. Len(UserSeed) \in Nat /\ \A i \in DOMAIN UserSeed : i \in Nat /\ UserSeed[i] \in Emails
    BY UserAssumption
  <2>2. Idle \in CallStates(UserReq, UserMsg)
    BY CallValues
  <2>3. QED BY <2>1, <2>2 DEF Init, UserInit, UserTypeOK, UserRow
<1>2. MenuTypeOK
  <2>1. Len(MenuSeed) \in Nat /\ \A i \in DOMAIN MenuSeed : i \in Nat /\ MenuSeed[i] \in Prices
    BY MenuAssumption
  <2>2. Idle \in CallStates(MenuReq, MenuMsg)
    BY CallValues
  <2>3. QED BY <2>1, <2>2 DEF Init, MenuInit, MenuTypeOK, MenuRow
<1>3. OrderTypeOK
  <2>1. Idle \in CallStates(OrderReq, OrderMsg)
    BY CallValues
  <2>2. NoLocals \in Locals
    BY DEF NoLocals, Locals, Steps
  <2>3. QED BY <2>1, <2>2 DEF Init, OrderInit, OrderTypeOK
<1>4. GatewayTypeOK
  BY DEF Init, GatewayInit, GatewayTypeOK, HttpStates
<1>5. QED BY <1>1, <1>2, <1>3, <1>4 DEF TypeOK

-----------------------------------------------------------------------------
(* Rows are never deleted, so what a check has found stays. *)
LEMMA TablesGrow ==
  ASSUME [Next]_vars
  PROVE  /\ users \subseteq users'
         /\ menuItems \subseteq menuItems'
<1>1. CASE UserStep
  BY <1>1 DEF UserStep, UserNext, UserServe, UserServer_CreateUser, InsertUser,
     UserServer_GetUser, UserServer_GetUsers, UserRefuse, UserCrash, UserRestart,
     menuState
<1>2. CASE MenuStep
  BY <1>2 DEF MenuStep, MenuNext, MenuServe, MenuServer_CreateMenuItem,
     MenuServer_GetMenuItem, MenuServer_GetMenu, MenuRefuse, MenuCrash, MenuRestart,
     userState
<1>3. CASE OrderStep \/ CancelStep \/ GatewayStep
  BY <1>3 DEF OrderStep, CancelStep, GatewayStep, userState, menuState
<1>4. CASE UNCHANGED vars
  BY <1>4 DEF vars
<1>5. QED BY <1>1, <1>2, <1>3, <1>4 DEF Next

LEMMA KnowledgeGrows ==
  ASSUME [Next]_vars, NEW id, NEW price
  PROVE  /\ UserKnown(id) => UserKnown(id)'
         /\ PriceKnown(id, price) => PriceKnown(id, price)'
BY TablesGrow DEF UserKnown, PriceKnown

-----------------------------------------------------------------------------
(***************************************************************************)
(* What a step of the user service may do to one call: nothing, answer it  *)
(* (with OK to GetUser only if the user exists), or lose its answer.       *)
(***************************************************************************)
LEMMA UserAnswers ==
  ASSUME TypeOK, UserNext, NEW d \in Calls
  PROVE  \/ userCall'[d] = userCall[d]
         \/ /\ userCall[d].st = "sent"
            /\ userCall'[d].st = "done"
            /\ userCall'[d].code = "OK" /\ userCall[d].req.op = "GetUser"
                 => \E u \in users : u.id = userCall[d].req.id
         \/ /\ userCall[d].st = "done"
            /\ userCall'[d].st = "done"
            /\ userCall'[d].code = "Unavailable"
<1>a. DOMAIN userCall = Calls
  BY DEF TypeOK, UserTypeOK
<1>b. ASSUME NEW c \in Calls, NEW code, NEW msgs, UserReply(c, code, msgs)
      PROVE  /\ d # c => userCall'[d] = userCall[d]
             /\ d = c => userCall'[d].st = "done" /\ userCall'[d].code = code
  BY <1>a, <1>b DEF UserReply, Done
<1>1. ASSUME NEW c \in Calls, UserServer_CreateUser(c)
      PROVE  /\ userCall[c].st = "sent" /\ userCall[c].req.op = "CreateUser"
             /\ \E code, msgs : UserReply(c, code, msgs)
  BY <1>1 DEF UserServer_CreateUser, UserServing
<1>2. ASSUME NEW c \in Calls, UserServer_GetUser(c)
      PROVE  /\ userCall[c].st = "sent"
             /\ \E code, msgs :
                  /\ UserReply(c, code, msgs)
                  /\ code = "OK" => \E u \in users : u.id = userCall[c].req.id
  BY <1>2 DEF UserServer_GetUser, UserServing
<1>3. ASSUME NEW c \in Calls, UserServer_GetUsers(c)
      PROVE  /\ userCall[c].st = "sent" /\ userCall[c].req.op = "GetUsers"
             /\ \E code, msgs : UserReply(c, code, msgs)
  BY <1>3 DEF UserServer_GetUsers, UserServing
<1>4. ASSUME NEW c \in Calls, UserRefuse(c)
      PROVE  userCall[c].st = "sent" /\ UserReply(c, "Unavailable", {})
  BY <1>4 DEF UserRefuse
<1>5. CASE UserCrash
  <2>1. PICK lost \in SUBSET Undelivered(userCall) : userCall' = CutOff(userCall, lost)
    BY <1>5 DEF UserCrash
  <2>2. QED BY <2>1, <1>a DEF CutOff, Undelivered, Done
<1>6. CASE UserRestart
  BY <1>6 DEF UserRestart
<1>7. CASE \E c \in Calls : UserServe(c)
  <2>1. PICK c \in Calls : UserServe(c)
    BY <1>7
  <2>2. CASE UserServer_CreateUser(c)
    BY <2>2, <1>1, <1>b
  <2>3. CASE UserServer_GetUser(c)
    BY <2>3, <1>2, <1>b
  <2>4. CASE UserServer_GetUsers(c)
    BY <2>4, <1>3, <1>b
  <2>5. CASE UserRefuse(c)
    BY <2>5, <1>4, <1>b
  <2>6. QED BY <2>1, <2>2, <2>3, <2>4, <2>5 DEF UserServe
<1>8. QED BY <1>5, <1>6, <1>7 DEF UserNext

(* The same for the menu service; an OK to GetMenuItem carries the price. *)
LEMMA MenuAnswers ==
  ASSUME TypeOK, MenuNext, NEW d \in Calls
  PROVE  \/ menuCall'[d] = menuCall[d]
         \/ /\ menuCall[d].st = "sent"
            /\ menuCall'[d].st = "done"
            /\ menuCall'[d].code = "OK" /\ menuCall[d].req.op = "GetMenuItem"
                 => \A m \in menuCall'[d].msgs :
                      PriceKnown(menuCall[d].req.id, m.price)
         \/ /\ menuCall[d].st = "done"
            /\ menuCall'[d].st = "done"
            /\ menuCall'[d].code = "Unavailable"
<1>a. DOMAIN menuCall = Calls
  BY DEF TypeOK, MenuTypeOK
<1>b. ASSUME NEW c \in Calls, NEW code, NEW msgs, MenuReply(c, code, msgs)
      PROVE  /\ d # c => menuCall'[d] = menuCall[d]
             /\ d = c => /\ menuCall'[d].st = "done"
                         /\ menuCall'[d].code = code
                         /\ menuCall'[d].msgs = msgs
  BY <1>a, <1>b DEF MenuReply, Done
<1>1. ASSUME NEW c \in Calls, MenuServer_CreateMenuItem(c)
      PROVE  /\ menuCall[c].st = "sent" /\ menuCall[c].req.op = "CreateMenuItem"
             /\ \E code, msgs : MenuReply(c, code, msgs)
  BY <1>1 DEF MenuServer_CreateMenuItem, MenuServing
<1>2. ASSUME NEW c \in Calls, MenuServer_GetMenuItem(c)
      PROVE  /\ menuCall[c].st = "sent"
             /\ \E code, msgs :
                  /\ MenuReply(c, code, msgs)
                  /\ \A m \in msgs : PriceKnown(menuCall[c].req.id, m.price)
  <2> DEFINE found == {m \in menuItems : m.id = menuCall[c].req.id}
             msgs == GetMenuItemResponse(found)
  <2>1. \A m \in msgs : PriceKnown(menuCall[c].req.id, m.price)
    BY DEF PriceKnown, GetMenuItemResponse, MenuItemToProto
  <2>2. \/ MenuReply(c, "OK", msgs)
        \/ MenuReply(c, "NotFound", {}) \/ MenuReply(c, "Internal", {})
    BY <1>2 DEF MenuServer_GetMenuItem
  <2>3. menuCall[c].st = "sent"
    BY <1>2 DEF MenuServer_GetMenuItem, MenuServing
  <2> HIDE DEF msgs
  <2>4. QED BY <2>1, <2>2, <2>3
<1>3. ASSUME NEW c \in Calls, MenuServer_GetMenu(c)
      PROVE  /\ menuCall[c].st = "sent" /\ menuCall[c].req.op = "GetMenu"
             /\ \E code, msgs : MenuReply(c, code, msgs)
  BY <1>3 DEF MenuServer_GetMenu, MenuServing
<1>4. ASSUME NEW c \in Calls, MenuRefuse(c)
      PROVE  menuCall[c].st = "sent" /\ MenuReply(c, "Unavailable", {})
  BY <1>4 DEF MenuRefuse
<1>5. CASE MenuCrash
  <2>1. PICK lost \in SUBSET Undelivered(menuCall) : menuCall' = CutOff(menuCall, lost)
    BY <1>5 DEF MenuCrash
  <2>2. QED BY <2>1, <1>a DEF CutOff, Undelivered, Done
<1>6. CASE MenuRestart
  BY <1>6 DEF MenuRestart
<1>7. CASE \E c \in Calls : MenuServe(c)
  <2>1. PICK c \in Calls : MenuServe(c)
    BY <1>7
  <2>2. CASE MenuServer_CreateMenuItem(c)
    BY <2>2, <1>1, <1>b
  <2>3. CASE MenuServer_GetMenuItem(c)
    BY <2>3, <1>2, <1>b
  <2>4. CASE MenuServer_GetMenu(c)
    BY <2>4, <1>3, <1>b
  <2>5. CASE MenuRefuse(c)
    BY <2>5, <1>4, <1>b
  <2>6. QED BY <2>1, <2>2, <2>3, <2>4, <2>5 DEF MenuServe
<1>8. QED BY <1>5, <1>6, <1>7 DEF MenuNext

-----------------------------------------------------------------------------
(* HandlerInv for one call, in the shape the provers use. *)
CallInv(c) == /\ ChannelInv(c) /\ RunningInv(c) /\ AskedUser(c)
              /\ AskedMenu(c) /\ CheckedInv(c)

LEMMA UserStepInv ==
  ASSUME TypeOK, HandlerInv, UserStep, NEW d \in Calls
  PROVE  CallInv(d)'
<1>a. CallInv(d)
  BY DEF HandlerInv, CallInv
<1>b. UNCHANGED <<menuItems, menuCall, orderCall, handler, http>>
  BY DEF UserStep, menuState, orderState, gatewayVars
<1>c. [Next]_vars
  BY DEF Next
<1>d. UserNext
  BY DEF UserStep
<1>e. \/ userCall'[d] = userCall[d]
      \/ /\ userCall[d].st = "sent"
         /\ userCall'[d].st = "done"
         /\ userCall'[d].code = "OK" /\ userCall[d].req.op = "GetUser"
              => UserKnown(userCall[d].req.id)
      \/ /\ userCall[d].st = "done"
         /\ userCall'[d].st = "done"
         /\ userCall'[d].code = "Unavailable"
  BY <1>d, UserAnswers DEF UserKnown
<1>1. ChannelInv(d)'
  BY <1>a, <1>b, <1>e DEF CallInv, ChannelInv, RunningInv
<1>2. RunningInv(d)'
  BY <1>a, <1>b DEF CallInv, RunningInv
<1>3. AskedUser(d)'
  BY <1>a, <1>b, <1>c, <1>e, KnowledgeGrows DEF CallInv, AskedUser
<1>4. AskedMenu(d)'
  BY <1>a, <1>b DEF CallInv, AskedMenu, Current, PriceKnown
<1>5. CheckedInv(d)'
  BY <1>a, <1>b, <1>c, KnowledgeGrows DEF CallInv, CheckedInv
<1>6. QED BY <1>1, <1>2, <1>3, <1>4, <1>5 DEF CallInv

LEMMA MenuStepInv ==
  ASSUME TypeOK, HandlerInv, MenuStep, NEW d \in Calls
  PROVE  CallInv(d)'
<1>a. CallInv(d)
  BY DEF HandlerInv, CallInv
<1>b. UNCHANGED <<users, userCall, orderCall, handler, http>>
  BY DEF MenuStep, userState, orderState, gatewayVars
<1>c. [Next]_vars
  BY DEF Next
<1>d. MenuNext
  BY DEF MenuStep
<1>1. ChannelInv(d)'
  BY <1>a, <1>b, <1>d, MenuAnswers DEF CallInv, ChannelInv, RunningInv
<1>2. RunningInv(d)'
  BY <1>a, <1>b DEF CallInv, RunningInv
<1>3. AskedUser(d)'
  BY <1>a, <1>b DEF CallInv, AskedUser, UserKnown
<1>4. AskedMenu(d)'
  <2> SUFFICES ASSUME handler[d].pc = "menu" PROVE AskedMenu(d)'
    BY <1>b DEF AskedMenu
  <2>1. AskedMenu(d) /\ Current(d)' = Current(d)
    BY <1>a, <1>b DEF CallInv, Current
  <2>2. CASE menuCall'[d] = menuCall[d]
    <3>1. \A m \in menuCall[d].msgs :
            PriceKnown(Current(d).menuItemId, m.price)
              => (\E row \in menuItems' : /\ row.id = Current(d).menuItemId
                                         /\ row.price = m.price)
      BY <1>c, TablesGrow DEF PriceKnown
    <3>2. QED BY <2>1, <2>2, <3>1, <1>b DEF AskedMenu, PriceKnown
  <2>3. CASE /\ menuCall[d].st = "sent" /\ menuCall'[d].st = "done"
             /\ menuCall'[d].code = "OK" /\ menuCall[d].req.op = "GetMenuItem"
                  => \A m \in menuCall'[d].msgs :
                       PriceKnown(menuCall[d].req.id, m.price)
    <3>1. menuCall[d].req = [op |-> "GetMenuItem", id |-> Current(d).menuItemId]
      BY <2>1, <2>3 DEF AskedMenu
    <3>2. menuCall'[d].code = "OK" =>
            \A m \in menuCall'[d].msgs : PriceKnown(Current(d).menuItemId, m.price)
      BY <2>3, <3>1
    <3>3. \A m \in menuCall'[d].msgs :
            PriceKnown(Current(d).menuItemId, m.price)
              => (\E row \in menuItems' : /\ row.id = Current(d).menuItemId
                                         /\ row.price = m.price)
      BY <1>c, TablesGrow DEF PriceKnown
    <3>4. QED BY <2>1, <2>3, <3>2, <3>3, <1>b DEF AskedMenu, PriceKnown
  <2>4. CASE menuCall'[d].st = "done" /\ menuCall'[d].code = "Unavailable"
    BY <2>1, <2>4, <1>b DEF AskedMenu
  <2>5. QED BY <2>2, <2>3, <2>4, <1>d, MenuAnswers
<1>5. CheckedInv(d)'
  BY <1>a, <1>b, <1>c, KnowledgeGrows DEF CallInv, CheckedInv
<1>6. QED BY <1>1, <1>2, <1>3, <1>4, <1>5 DEF CallInv

(***************************************************************************)
(* A step of the order service on behalf of call c: the other calls keep   *)
(* what they had, and so does the knowledge they rely on.                  *)
(***************************************************************************)
LEMMA OtherCalls ==
  ASSUME HandlerInv, NEW d \in Calls,
         UNCHANGED <<users, menuItems, http>>,
         handler'[d] = handler[d], orderCall'[d] = orderCall[d],
         userCall'[d] = userCall[d], menuCall'[d] = menuCall[d]
  PROVE  CallInv(d)'
<1>a. CallInv(d)
  BY DEF HandlerInv, CallInv
<1>1. ChannelInv(d)' /\ RunningInv(d)'
  BY <1>a DEF CallInv, ChannelInv, RunningInv
<1>2. AskedUser(d)'
  BY <1>a DEF CallInv, AskedUser, UserKnown
<1>3. AskedMenu(d)'
  BY <1>a DEF CallInv, AskedMenu, Current, PriceKnown
<1>4. CheckedInv(d)'
  BY <1>a DEF CallInv, CheckedInv, UserKnown, PriceKnown
<1>5. QED BY <1>1, <1>2, <1>3, <1>4 DEF CallInv

(* A call whose handler has ended and whose request is answered or lost. *)
LEMMA EndedCall ==
  ASSUME HandlerInv, NEW c \in Calls, UNCHANGED http,
         handler'[c].pc = "idle", orderCall[c].st # "idle"
  PROVE  CallInv(c)'
<1>1. ChannelInv(c)'
  BY DEF HandlerInv, ChannelInv
<1>2. QED BY <1>1 DEF CallInv, RunningInv, AskedUser, AskedMenu, CheckedInv

(* The loop of CreateOrder goes on with checked lines. *)
LEMMA NextItemInv ==
  ASSUME TypeOK, HandlerInv, NEW c \in Calls, NEW lines \in Seq(Line),
         OrderServing(c, "CreateOrder"), NextItem(c, lines),
         UNCHANGED <<users, menuItems, http, orderCall>>,
         UserKnown(orderCall[c].req.userId),
         \A k \in DOMAIN lines : PriceKnown(lines[k].menuItemId, lines[k].price)
  PROVE  CallInv(c)'
<1>a. HandlerTyped /\ MenuCallTyped /\ handler[c] \in Locals
  BY DEF TypeOK, OrderTypeOK, MenuTypeOK, HandlerTyped, MenuCallTyped
<1>b. orderCall[c].st = "sent" /\ orderCall[c].req.op = "CreateOrder"
  BY DEF OrderServing
<1>c. handler'[c].lines = lines /\ handler'[c].pc \in {"menu", "insert"}
  BY <1>a DEF NextItem, HandlerTyped, Locals
<1>d. handler'[c].pc = "menu" =>
        /\ Len(lines) + 1 <= Len(orderCall[c].req.items)
        /\ menuCall'[c] = Sent([op |-> "GetMenuItem",
                 id |-> orderCall[c].req.items[Len(lines) + 1].menuItemId])
  BY <1>a DEF NextItem, HandlerTyped, MenuCallTyped, Locals
<1>1. ChannelInv(c)'
  BY <1>b DEF HandlerInv, ChannelInv
<1>2. RunningInv(c)' /\ AskedUser(c)'
  BY <1>b, <1>c DEF RunningInv, AskedUser
<1>3. AskedMenu(c)'
  <2>1. Len(lines) \in Nat /\ Len(orderCall[c].req.items) \in Nat
    <3>1. orderCall[c].req.items \in Seq(ItemReq)
      BY <1>b, CallShapes, OrderReqShapes DEF TypeOK, OrderTypeOK
    <3>2. QED BY <3>1
  <2>2. SUFFICES ASSUME handler'[c].pc = "menu"
                 PROVE  /\ Len(lines) < Len(orderCall[c].req.items)
                        /\ menuCall'[c].st = "sent"
                        /\ menuCall'[c].req = [op |-> "GetMenuItem",
                               id |-> orderCall[c].req.items[Len(lines) + 1].menuItemId]
    BY <1>c DEF AskedMenu, Current
  <2>3. QED BY <2>1, <2>2, <1>d DEF Sent
<1>4. CheckedInv(c)'
  BY <1>c DEF CheckedInv, UserKnown, PriceKnown
<1>5. QED BY <1>1, <1>2, <1>3, <1>4 DEF CallInv

LEMMA OrderStepInv ==
  ASSUME TypeOK, HandlerInv, OrderStep \/ CancelStep, NEW d \in Calls
  PROVE  CallInv(d)'
<1>a. UNCHANGED <<users, menuItems, http>>
  BY DEF OrderStep, CancelStep, userState, menuState, gatewayVars
<1>b. /\ DOMAIN userCall = Calls /\ DOMAIN menuCall = Calls
      /\ DOMAIN orderCall = Calls /\ HandlerTyped
  BY DEF TypeOK, UserTypeOK, MenuTypeOK, OrderTypeOK, HandlerTyped
<1>c. ASSUME NEW c \in Calls, NEW code, NEW msgs, OrderReturn(c, code, msgs)
      PROVE  /\ handler'[c].pc = "idle"
             /\ d # c => handler'[d] = handler[d] /\ orderCall'[d] = orderCall[d]
  BY <1>b, <1>c DEF OrderReturn, HandlerTyped, NoLocals
<1>d. CallInv(d) /\ \A c \in Calls : CallInv(c)
  BY DEF HandlerInv, CallInv
<1>e. ASSUME NEW c \in Calls, NEW code, NEW msgs, OrderReturn(c, code, msgs),
             orderCall[c].st # "idle",
             d # c => userCall'[d] = userCall[d] /\ menuCall'[d] = menuCall[d]
      PROVE  CallInv(d)'
  <2>1. CASE d = c
    BY <2>1, <1>a, <1>c, <1>e, EndedCall
  <2>2. CASE d # c
    BY <2>2, <1>a, <1>c, <1>e, OtherCalls
  <2>3. QED BY <2>1, <2>2
<1>1. ASSUME NEW c \in Calls, OrderServer_CreateOrder(c) PROVE CallInv(d)'
  <2>1. CASE d # c
    BY <2>1, <1>1, <1>a, <1>b, OtherCalls DEF OrderServer_CreateOrder, HandlerTyped
  <2>2. CASE d = c
    <3>1. /\ handler'[c].pc = "user" /\ UNCHANGED orderCall
          /\ orderCall[c].st = "sent" /\ orderCall[c].req.op = "CreateOrder"
          /\ userCall'[c] = Sent([op |-> "GetUser", id |-> orderCall[c].req.userId])
      BY <1>1, <1>b DEF OrderServer_CreateOrder, At, OrderServing, HandlerTyped, Locals
    <3>2. ChannelInv(c)'
      BY <3>1, <1>a, <1>d DEF CallInv, ChannelInv
    <3>3. QED BY <2>2, <3>1, <3>2
          DEF CallInv, RunningInv, AskedUser, AskedMenu, CheckedInv, Sent
  <2>3. QED BY <2>1, <2>2
<1>2. ASSUME NEW c \in Calls, UserChecked(c) PROVE CallInv(d)'
  <2>1. OrderServing(c, "CreateOrder") /\ handler[c].pc = "user"
    BY <1>2 DEF UserChecked, At
  <2>2. CASE userCall[c].code # "OK"
    BY <1>2, <2>1, <2>2, <1>b, <1>e DEF UserChecked, OrderServing
  <2>3. CASE userCall[c].code = "OK"
    <3>1. NextItem(c, <<>>) /\ UNCHANGED orderCall
      BY <1>2, <2>3 DEF UserChecked
    <3>2. CASE d = c
      <4>1. UserKnown(orderCall[c].req.userId)
        BY <1>2, <2>1, <2>3, <1>d DEF UserChecked, CallInv, AskedUser
      <4>2. <<>> \in Seq(Line) /\ DOMAIN <<>> = {}
        OBVIOUS
      <4>3. QED BY <2>1, <3>1, <3>2, <4>1, <4>2, <1>a, NextItemInv
    <3>3. CASE d # c
      BY <1>2, <3>1, <3>3, <1>a, <1>b, OtherCalls DEF UserChecked, NextItem, HandlerTyped
    <3>4. QED BY <3>2, <3>3
  <2>4. QED BY <2>2, <2>3
<1>3. ASSUME NEW c \in Calls, MenuItemChecked(c) PROVE CallInv(d)'
  <2>1. OrderServing(c, "CreateOrder") /\ handler[c].pc = "menu" /\ UNCHANGED userCall
    BY <1>3 DEF MenuItemChecked, At
  <2>2. CASE menuCall[c].code # "OK"
    BY <1>3, <2>1, <2>2, <1>b, <1>e DEF MenuItemChecked, OrderServing
  <2>3. CASE menuCall[c].code = "OK"
    <3> DEFINE old == handler[c].lines
               line(m) == [menuItemId |-> Current(c).menuItemId,
                           quantity |-> Current(c).quantity, price |-> m.price]
               new(m) == Append(old, line(m))
    <3>1. PICK m \in menuCall[c].msgs : NextItem(c, new(m))
      BY <1>3, <2>3 DEF MenuItemChecked, Current
    <3>2. UNCHANGED orderCall
      BY <1>3, <2>3 DEF MenuItemChecked
    <3>3. CASE d = c
      <4>1. UserKnown(orderCall[c].req.userId)
              /\ \A k \in DOMAIN old : PriceKnown(old[k].menuItemId, old[k].price)
        BY <2>1, <1>d DEF CallInv, CheckedInv
      <4>2. PriceKnown(Current(c).menuItemId, m.price)
        BY <1>3, <2>1, <2>3, <1>d DEF MenuItemChecked, CallInv, AskedMenu
      <4>3. old \in Seq(Line)
        BY <1>b DEF HandlerTyped, Locals
      <4>4. line(m) \in Line
        <5>1. orderCall[c].req.items \in Seq(ItemReq)
          BY <2>1, CallShapes, OrderReqShapes DEF OrderServing, TypeOK, OrderTypeOK
        <5>2. Len(old) < Len(orderCall[c].req.items)
          BY <2>1, <1>d DEF CallInv, AskedMenu
        <5>3. Current(c) \in ItemReq
          <6>1. Len(old) + 1 \in DOMAIN orderCall[c].req.items
            BY <4>3, <5>1, <5>2
          <6>2. QED BY <5>1, <6>1 DEF Current
        <5>4. m \in MenuMsg
          BY <1>3, CallShapes DEF MenuItemChecked, TypeOK, MenuTypeOK
        <5>5. QED BY <5>3, <5>4 DEF ItemReq, MenuMsg, Line
      <4>5. new(m) \in Seq(Line)
        BY <4>3, <4>4
      <4>6. \A k \in DOMAIN new(m) : PriceKnown(new(m)[k].menuItemId, new(m)[k].price)
        <5>1. TAKE k \in DOMAIN new(m)
        <5>2. CASE k \in DOMAIN old
          BY <4>1, <4>3, <4>4, <5>2
        <5>3. CASE k \notin DOMAIN old
          <6>1. new(m)[k] = line(m)
            BY <4>3, <4>4, <5>3
          <6>2. QED BY <4>2, <6>1
        <5>4. QED BY <5>2, <5>3
      <4> HIDE DEF new, old, line
      <4>7. QED BY <2>1, <3>1, <3>2, <3>3, <4>1, <4>5, <4>6, <1>a, NextItemInv
    <3>4. CASE d # c
      BY <2>1, <3>1, <3>2, <3>4, <1>a, <1>b, OtherCalls DEF NextItem, HandlerTyped
    <3>5. QED BY <3>3, <3>4
  <2>4. QED BY <2>2, <2>3
<1>4. ASSUME NEW c \in Calls, InsertOrder(c) \/ InsertItems(c) PROVE CallInv(d)'
  <2>1. UNCHANGED <<orderCall, userCall, menuCall>>
    BY <1>4 DEF InsertOrder, InsertItems
  <2>2. d # c => handler'[d] = handler[d]
    BY <1>4, <1>b DEF InsertOrder, InsertItems, HandlerTyped
  <2>3. CASE d # c
    BY <2>1, <2>2, <2>3, <1>a, OtherCalls
  <2>4. CASE d = c
    <3>1. /\ handler[c].pc \in {"insert", "items"}
          /\ handler'[c].pc \in {"items", "commit"}
          /\ handler'[c].lines = handler[c].lines
      BY <1>4, <1>b DEF InsertOrder, InsertItems, At, HandlerTyped, Locals
    <3>2. ChannelInv(c)' /\ RunningInv(c)'
      BY <2>1, <3>1, <1>a, <1>d DEF CallInv, ChannelInv, RunningInv
    <3>3. AskedUser(c)' /\ AskedMenu(c)'
      BY <3>1 DEF AskedUser, AskedMenu
    <3>4. CheckedInv(c)'
      BY <2>1, <3>1, <1>a, <1>d DEF CallInv, CheckedInv, UserKnown, PriceKnown
    <3>5. QED BY <2>4, <3>2, <3>3, <3>4 DEF CallInv
  <2>5. QED BY <2>3, <2>4
<1>5. ASSUME NEW c \in Calls,
             Commit(c) \/ Rollback(c) \/ Preload(c) \/ OrderRefuse(c)
      PROVE  CallInv(d)'
  <2>1. /\ \E code, msgs : OrderReturn(c, code, msgs)
        /\ orderCall[c].st = "sent" /\ UNCHANGED <<userCall, menuCall>>
    BY <1>5 DEF Commit, Rollback, Preload, OrderRefuse, At, OrderServing
  <2>2. QED BY <2>1, <1>e
<1>6. ASSUME NEW c \in Calls, OrderServer_GetOrder(c) \/ OrderServer_GetOrders(c)
      PROVE  CallInv(d)'
  <2>1. orderCall[c].st = "sent" /\ UNCHANGED <<userCall, menuCall>>
    BY <1>6 DEF OrderServer_GetOrder, OrderServer_GetOrders, At, OrderServing
  <2>2. ASSUME NEW rows, Found(c, rows) PROVE CallInv(d)'
    <3>1. /\ handler'[c].pc = "preload" /\ UNCHANGED orderCall
          /\ d # c => handler'[d] = handler[d]
      BY <2>2, <1>b DEF Found, HandlerTyped, Locals
    <3>2. CASE d # c
      BY <2>1, <3>1, <3>2, <1>a, OtherCalls
    <3>3. CASE d = c
      <4>1. ChannelInv(c)'
        BY <2>1, <3>1, <1>a, <1>d DEF CallInv, ChannelInv
      <4>2. QED BY <2>1, <3>1, <3>3, <4>1
            DEF CallInv, RunningInv, AskedUser, AskedMenu, CheckedInv
    <3>4. QED BY <3>2, <3>3
  <2>3. (\E rows : Found(c, rows)) \/ (\E code, msgs : OrderReturn(c, code, msgs))
    BY <1>6 DEF OrderServer_GetOrder, OrderServer_GetOrders
  <2>4. QED BY <2>1, <2>2, <2>3, <1>e
<1>7. CASE OrderCrash
  <2>1. /\ handler'[d].pc = "idle"
        /\ userCall'[d] = userCall[d] \/ userCall'[d].st = "idle"
        /\ menuCall'[d] = menuCall[d] \/ menuCall'[d].st = "idle"
    BY <1>7 DEF OrderCrash, NoLocals, Idle
  <2>2. orderCall[d].st = "idle" => orderCall'[d] = orderCall[d]
    <3>1. PICK lost \in SUBSET Undelivered(orderCall) :
            orderCall' = CutOff(orderCall, lost \cup {c \in Calls : handler[c].pc # "idle"})
      BY <1>7 DEF OrderCrash
    <3>2. orderCall[d].st = "idle" => handler[d].pc = "idle"
      BY <1>d DEF CallInv, RunningInv
    <3>3. QED BY <3>1, <3>2, <1>b DEF CutOff, Undelivered
  <2>3. ChannelInv(d)'
    BY <2>1, <2>2, <1>a, <1>d DEF CallInv, ChannelInv
  <2>4. QED BY <2>1, <2>3 DEF CallInv, RunningInv, AskedUser, AskedMenu, CheckedInv
<1>8. CASE OrderRestart
  BY <1>8, <1>a, OtherCalls DEF OrderRestart
<1>9. ASSUME NEW c \in Calls, ContextCanceled(c) PROVE CallInv(d)'
  <2>1. orderCall[c].st = "sent" /\ OrderReturn(c, "InvalidArgument", {})
    BY <1>9 DEF ContextCanceled, At, OrderServing
  <2>2. d # c => userCall'[d] = userCall[d] /\ menuCall'[d] = menuCall[d]
    BY <1>9, <1>b DEF ContextCanceled
  <2>3. QED BY <2>1, <2>2, <1>e
<1>10. CASE CancelStep
  BY <1>10, <1>9 DEF CancelStep
<1>11. CASE OrderStep
  BY <1>11, <1>1, <1>2, <1>3, <1>4, <1>5, <1>6, <1>7, <1>8
  DEF OrderStep, OrderNext, OrderServe
<1>12. QED BY <1>10, <1>11

(***************************************************************************)
(* The gateway touches only calls that the order service is not serving.   *)
(***************************************************************************)
LEMMA GatewayStepInv ==
  ASSUME TypeOK, HandlerInv, GatewayStep, NEW d \in Calls
  PROVE  CallInv(d)'
<1>a. UNCHANGED <<users, menuItems, handler>>
  BY DEF GatewayStep, userState, menuState, orderState
<1>b. /\ DOMAIN userCall = Calls /\ DOMAIN menuCall = Calls
      /\ DOMAIN orderCall = Calls /\ DOMAIN http = Calls
  BY DEF TypeOK, UserTypeOK, MenuTypeOK, OrderTypeOK, GatewayTypeOK
<1>c. CallInv(d)
  BY DEF HandlerInv, CallInv
<1>d. ASSUME handler[d].pc = "idle", ChannelInv(d)' PROVE CallInv(d)'
  BY <1>a, <1>d DEF CallInv, RunningInv, AskedUser, AskedMenu, CheckedInv
<1>e. ASSUME UNCHANGED <<userCall[d], menuCall[d], orderCall[d]>>, ChannelInv(d)'
      PROVE  CallInv(d)'
  <2>1. RunningInv(d)' /\ AskedUser(d)'
    BY <1>a, <1>c, <1>e DEF CallInv, RunningInv, AskedUser, UserKnown
  <2>2. AskedMenu(d)'
    BY <1>a, <1>c, <1>e DEF CallInv, AskedMenu, Current, PriceKnown
  <2>3. CheckedInv(d)'
    BY <1>a, <1>c, <1>e DEF CallInv, CheckedInv, UserKnown, PriceKnown
  <2>4. QED BY <1>e, <2>1, <2>2, <2>3 DEF CallInv
<1>f. ASSUME UNCHANGED <<userCall[d], menuCall[d], orderCall[d], http[d]>>
      PROVE  CallInv(d)'
  <2>1. ChannelInv(d)'
    BY <1>c, <1>f DEF CallInv, ChannelInv
  <2>2. QED BY <1>e, <1>f, <2>1
<1>1. ASSUME NEW c \in Calls, NEW r \in Requests, Handle(c, r) PROVE CallInv(d)'
  <2>1. CASE d # c
    <3>1. UNCHANGED <<userCall[d], menuCall[d], orderCall[d], http[d]>>
      BY <1>1, <2>1, <1>b
      DEF Handle, Handlers_CreateUser, Handlers_GetUser, Handlers_GetUsers,
          Handlers_CreateMenuItem, Handlers_GetMenuItem, Handlers_GetMenu,
          Handlers_CreateOrder, Handlers_GetOrder, Handlers_GetOrders,
          Routed, Wait, BadRequest, CallUser, CallMenu, CallOrder, channels
    <3>2. QED BY <3>1, <1>f
  <2>2. CASE d = c
    <3>1. http[c].st = "new"
      BY <1>1 DEF Handle, Handlers_CreateUser, Handlers_GetUser, Handlers_GetUsers,
          Handlers_CreateMenuItem, Handlers_GetMenuItem, Handlers_GetMenu,
          Handlers_CreateOrder, Handlers_GetOrder, Handlers_GetOrders, Routed
    <3>2. orderCall[c].st = "idle" /\ handler[c].pc = "idle"
      BY <2>2, <3>1, <1>c DEF CallInv, ChannelInv, RunningInv
    <3>3. \/ http'[c].st = "answered" /\ UNCHANGED orderCall
          \/ http'[c].st = "waiting" /\ UNCHANGED orderCall
          \/ http'[c].st = "waiting" /\ http'[c].req.op \in OrderOps
      BY <1>1, <1>b
      DEF Handle, Handlers_CreateUser, Handlers_GetUser, Handlers_GetUsers,
          Handlers_CreateMenuItem, Handlers_GetMenuItem, Handlers_GetMenu,
          Handlers_CreateOrder, Handlers_GetOrder, Handlers_GetOrders,
          Routed, Wait, BadRequest, CallUser, CallMenu, CallOrder, channels,
          Answered, OrderOps
    <3>4. ChannelInv(c)'
      BY <3>2, <3>3 DEF ChannelInv
    <3>5. QED BY <2>2, <3>2, <3>4, <1>d
  <2>3. QED BY <2>1, <2>2
<1>2. ASSUME NEW c \in Calls, Response(c) PROVE CallInv(d)'
  <2>1. CASE d # c
    <3>1. UNCHANGED <<userCall[d], menuCall[d], orderCall[d], http[d]>>
      BY <1>2, <2>1, <1>b
      DEF Response, UserResponse, MenuResponse, OrderResponse, Respond
    <3>2. QED BY <3>1, <1>f
  <2>2. CASE d = c
    <3>1. http[c].st = "waiting" /\ http'[c].st = "answered"
      BY <1>2, <1>b DEF Response, UserResponse, MenuResponse, OrderResponse,
         Respond, Waiting, Answered
    <3>2. CASE OrderResponse(c)
      <4>1. orderCall[c].st = "done" /\ orderCall'[c].st = "idle"
        BY <3>2, <1>b DEF OrderResponse, Respond, Idle
      <4>2. handler[c].pc = "idle"
        BY <2>2, <4>1, <1>c DEF CallInv, RunningInv
      <4>3. QED BY <2>2, <3>1, <4>1, <4>2, <1>d DEF ChannelInv
    <3>3. CASE UserResponse(c) \/ MenuResponse(c)
      <4>1. http[c].req.op \notin OrderOps /\ UNCHANGED orderCall
        BY <3>3 DEF UserResponse, MenuResponse, Waiting, UserOps, MenuOps, OrderOps
      <4>2. orderCall[c].st = "idle" /\ handler[c].pc = "idle"
        BY <2>2, <4>1, <1>c DEF CallInv, ChannelInv, RunningInv
      <4>3. QED BY <2>2, <3>1, <4>1, <4>2, <1>d DEF ChannelInv
    <3>4. QED BY <1>2, <3>2, <3>3 DEF Response
  <2>3. QED BY <2>1, <2>2
<1>3. CASE GatewayCrash
  <2>1. UNCHANGED <<userCall[d], menuCall[d], orderCall[d]>>
    BY <1>3 DEF GatewayCrash, channels
  <2>2. http'[d] = IF http[d].st = "waiting" THEN [st |-> "lost", req |-> http[d].req]
                   ELSE http[d]
    BY <1>3 DEF GatewayCrash
  <2>3. ChannelInv(d)'
    BY <2>1, <2>2, <1>c DEF CallInv, ChannelInv
  <2>4. QED BY <2>1, <2>3, <1>e
<1>4. CASE GatewayRestart
  BY <1>4, <1>f DEF GatewayRestart, channels
<1>5. QED BY <1>1, <1>2, <1>3, <1>4 DEF GatewayStep, GatewayNext

-----------------------------------------------------------------------------
(* Only Commit adds orders, and what it adds has been checked. *)
LEMMA IntegrityStep ==
  ASSUME TypeOK, HandlerInv, OrderIntegrity, [Next]_vars
  PROVE  OrderIntegrity'
<1>a. users \subseteq users' /\ menuItems \subseteq menuItems'
  BY TablesGrow
<1>1. ASSUME UNCHANGED <<orders, orderItems>> PROVE OrderIntegrity'
  BY <1>1, <1>a DEF OrderIntegrity
<1>2. ASSUME NEW c \in Calls, Commit(c) PROVE OrderIntegrity'
  <2>1. handler[c].pc = "commit" /\ CheckedInv(c)
    BY <1>2 DEF Commit, At, HandlerInv
  <2>2. \E u \in users : u.id = NewOrder(c).userId
    BY <2>1 DEF CheckedInv, UserKnown, NewOrder
  <2>3. \A i \in NewItems(c) :
          /\ i.orderId = NewOrder(c).id
          /\ \E m \in menuItems : m.id = i.menuItemId /\ m.price = i.price
    BY <2>1 DEF CheckedInv, PriceKnown, NewItems, NewOrder
  <2>4. orders' = orders \cup {NewOrder(c)} /\ orderItems' = orderItems \cup NewItems(c)
    BY <1>2 DEF Commit, Publish
  <2>5. QED BY <2>2, <2>3, <2>4, <1>a DEF OrderIntegrity
<1>3. CASE UserStep \/ MenuStep \/ GatewayStep
  BY <1>3, <1>1 DEF UserStep, MenuStep, GatewayStep, orderState
<1>4. CASE CancelStep
  BY <1>4, <1>1 DEF CancelStep, ContextCanceled, tables
<1>5. CASE UNCHANGED vars
  BY <1>5, <1>1 DEF vars
<1>6. CASE OrderCrash \/ OrderRestart
  BY <1>6, <1>1 DEF OrderCrash, OrderRestart, tables
<1>7. ASSUME NEW c \in Calls, OrderServe(c), ~Commit(c) PROVE OrderIntegrity'
  <2>1. UNCHANGED <<orders, orderItems>>
    BY <1>7 DEF OrderServe, OrderServer_CreateOrder, UserChecked, MenuItemChecked,
       InsertOrder, InsertItems, Rollback, OrderServer_GetOrder, OrderServer_GetOrders,
       Preload, OrderRefuse, tables
  <2>2. QED BY <2>1, <1>1
<1>8. CASE OrderStep
  BY <1>8, <1>2, <1>6, <1>7 DEF OrderStep, OrderNext
<1>9. QED BY <1>3, <1>4, <1>5, <1>8 DEF Next

(* The inductive invariant. *)
IndInv == TypeOK /\ HandlerInv /\ OrderIntegrity

LEMMA IndInvInit == Init => IndInv
<1> SUFFICES ASSUME Init PROVE IndInv
  OBVIOUS
<1>1. TypeOK
  BY InitTyped
<1>2. HandlerInv
  BY DEF Init, UserInit, MenuInit, OrderInit, GatewayInit, HandlerInv, ChannelInv,
     RunningInv, AskedUser, AskedMenu, CheckedInv, Idle, NoLocals
<1>3. OrderIntegrity
  BY DEF Init, OrderInit, OrderIntegrity
<1>4. QED BY <1>1, <1>2, <1>3 DEF IndInv

LEMMA IndInvStep == IndInv /\ [Next]_vars => IndInv'
<1> SUFFICES ASSUME IndInv, [Next]_vars PROVE IndInv'
  OBVIOUS
<1>a. TypeOK /\ HandlerInv /\ OrderIntegrity
  BY DEF IndInv
<1>1. TypeOK'
  BY <1>a, StepTyped
<1>2. HandlerInv'
  <2>1. CASE UNCHANGED vars
    BY <2>1, <1>a DEF vars, HandlerInv, ChannelInv, RunningInv, AskedUser, AskedMenu,
       CheckedInv, UserKnown, PriceKnown, Current
  <2>2. CASE Next
    <3>1. \A d \in Calls : CallInv(d)'
      BY <2>2, <1>a, UserStepInv, MenuStepInv, OrderStepInv, GatewayStepInv DEF Next
    <3>2. QED BY <3>1 DEF HandlerInv, CallInv
  <2>3. QED BY <2>1, <2>2
<1>3. OrderIntegrity'
  BY <1>a, IntegrityStep
<1>4. QED BY <1>1, <1>2, <1>3 DEF IndInv

(***************************************************************************)
(* Every variable has its type in every reachable state; in particular the *)
(* loop of CreateOrder never reads past the end of req.Items.              *)
(***************************************************************************)
THEOREM TypeCorrect == Spec => []TypeOK
<1>1. IndInv => TypeOK
  BY DEF IndInv
<1>2. QED BY <1>1, IndInvInit, IndInvStep, PTL DEF Spec

(***************************************************************************)
(* The answers that a CreateOrder handler relies on are still true when it *)
(* stores the order, however its steps interleave with the other services' *)
(* and whatever fails in between.                                          *)
(***************************************************************************)
THEOREM HandlersRelyOnTruth == Spec => []HandlerInv
<1>1. IndInv => HandlerInv
  BY DEF IndInv
<1>2. QED BY <1>1, IndInvInit, IndInvStep, PTL DEF Spec

(***************************************************************************)
(* Referential integrity across the three databases: an order never names  *)
(* a user or an item that does not exist, nor a price that is not the      *)
(* item's, although no database checks it.                                 *)
(***************************************************************************)
THEOREM IntegrityHolds == Spec => []OrderIntegrity
<1>1. IndInv => OrderIntegrity
  BY DEF IndInv
<1>2. QED BY <1>1, IndInvInit, IndInvStep, PTL DEF Spec
=============================================================================
