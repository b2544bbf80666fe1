---------------------------- MODULE LedgerProofs ----------------------------
(***************************************************************************)
(* The keys of StudentCafe's tables are unique, and the three databases    *)
(* implement CafeLedger: proved for any number of calls, any requests, any *)
(* initial tables and any choice of failures.                              *)
(***************************************************************************)
EXTENDS StudentCafeProofs

-----------------------------------------------------------------------------
(***************************************************************************)
(* What makes KeysUnique inductive.  The sequences are ahead of every id   *)
(* in the tables.                                                          *)
(***************************************************************************)
SequencesAhead == /\ \A u \in users : u.id < userSeq
                  /\ \A m \in menuItems : m.id < menuSeq
                  /\ \A o \in orders : o.id < orderSeq
                  /\ \A i \in orderItems : i.id < itemSeq

(* Open transactions own the ids they have drawn: no row and no other      *)
(* transaction has them, and the sequences have passed them.               *)
OwnsOrderId(c) == handler[c].pc \in {"items", "commit"}

OrderIdOwned(c) ==
  OwnsOrderId(c) =>
    /\ handler[c].orderId < orderSeq
    /\ \A o \in orders : o.id # handler[c].orderId
    /\ \A d \in Calls \ {c} : OwnsOrderId(d) => handler[d].orderId # handler[c].orderId

ItemsEnd(c) == handler[c].itemId + Len(handler[c].lines)

ItemIdsOwned(c) ==
  /\ handler[c].pc # "commit" => handler[c].itemId = 0
  /\ handler[c].pc = "commit" =>
       /\ ItemsEnd(c) <= itemSeq
       /\ \A i \in orderItems : i.id < handler[c].itemId \/ ItemsEnd(c) <= i.id
       /\ \A d \in Calls \ {c} : handler[d].pc = "commit" =>
            ItemsEnd(c) <= handler[d].itemId \/ ItemsEnd(d) <= handler[c].itemId

KeysInv == SequencesAhead /\ \A c \in Calls : OrderIdOwned(c) /\ ItemIdsOwned(c)

-----------------------------------------------------------------------------
(* What a step of the user service may do to its table and its sequence. *)
LEMMA UserEffect ==
  ASSUME TypeOK, UserNext
  PROVE  \/ UNCHANGED users /\ userSeq' \in {userSeq, userSeq + 1}
         \/ \E email \in Emails :
              /\ users' = users \cup {[id |-> userSeq, email |-> email]}
              /\ \A u \in users : u.email # email
              /\ userSeq' = userSeq + 1
<1> DEFINE Goal == \/ UNCHANGED users /\ userSeq' \in {userSeq, userSeq + 1}
                   \/ \E email \in Emails :
                        /\ users' = users \cup {[id |-> userSeq, email |-> email]}
                        /\ \A u \in users : u.email # email
                        /\ userSeq' = userSeq + 1
<1>1. ASSUME NEW c \in Calls, UserServer_CreateUser(c) PROVE Goal
  <2>1. userCall[c].req.email \in Emails
    BY <1>1, CallShapes, UserReqShapes
    DEF UserServer_CreateUser, UserServing, TypeOK, UserTypeOK
  <2>2. QED BY <1>1, <2>1 DEF UserServer_CreateUser, InsertUser, EmailTaken
<1>2. ASSUME NEW c \in Calls,
             UserServer_GetUser(c) \/ UserServer_GetUsers(c) \/ UserRefuse(c)
      PROVE  Goal
  BY <1>2 DEF UserServer_GetUser, UserServer_GetUsers, UserRefuse
<1>3. CASE UserCrash \/ UserRestart
  BY <1>3 DEF UserCrash, UserRestart
<1>4. QED BY <1>1, <1>2, <1>3 DEF UserNext, UserServe

(* The same for the menu service. *)
LEMMA MenuEffect ==
  ASSUME TypeOK, MenuNext
  PROVE  \/ UNCHANGED menuItems /\ menuSeq' \in {menuSeq, menuSeq + 1}
         \/ \E price \in Prices :
              /\ menuItems' = menuItems \cup {[id |-> menuSeq, price |-> price]}
              /\ menuSeq' = menuSeq + 1
<1> DEFINE Goal == \/ UNCHANGED menuItems /\ menuSeq' \in {menuSeq, menuSeq + 1}
                   \/ \E price \in Prices :
                        /\ menuItems' = menuItems \cup {[id |-> menuSeq, price |-> price]}
                        /\ menuSeq' = menuSeq + 1
<1>1. ASSUME NEW c \in Calls, MenuServer_CreateMenuItem(c) PROVE Goal
  <2>1. menuCall[c].req.price \in Prices
    BY <1>1, CallShapes, MenuReqShapes
    DEF MenuServer_CreateMenuItem, MenuServing, TypeOK, MenuTypeOK
  <2>2. QED BY <1>1, <2>1 DEF MenuServer_CreateMenuItem
<1>2. ASSUME NEW c \in Calls,
             MenuServer_GetMenuItem(c) \/ MenuServer_GetMenu(c) \/ MenuRefuse(c)
      PROVE  Goal
  BY <1>2 DEF MenuServer_GetMenuItem, MenuServer_GetMenu, MenuRefuse
<1>3. CASE MenuCrash \/ MenuRestart
  BY <1>3 DEF MenuCrash, MenuRestart
<1>4. QED BY <1>1, <1>2, <1>3 DEF MenuNext, MenuServe

-----------------------------------------------------------------------------
(***************************************************************************)
(* A step that draws no id and stores nothing: a handler it moves has no   *)
(* transaction open afterwards.                                            *)
(***************************************************************************)
Settled(d) == handler'[d].pc \notin {"items", "commit"} /\ handler'[d].itemId = 0

Quiet == /\ UNCHANGED tables
         /\ \A d \in Calls : handler'[d] = handler[d] \/ Settled(d)

(* Every step of the order service is quiet, but for those of DB.Create. *)
LEMMA OrderEffect ==
  ASSUME TypeOK, KeysInv, OrderStep \/ CancelStep
  PROVE  Quiet \/ \E c \in Calls : InsertOrder(c) \/ InsertItems(c) \/ Commit(c)
<1>a. handler \in [Calls -> Locals]
  BY DEF TypeOK, OrderTypeOK
<1>b. ASSUME NEW c \in Calls, NEW code, NEW msgs, OrderReturn(c, code, msgs)
      PROVE  \A d \in Calls : handler'[d] = handler[d] \/ Settled(d)
  BY <1>a, <1>b DEF OrderReturn, NoLocals, Settled
<1>c. ASSUME NEW c \in Calls, handler[c].pc # "commit",
             handler'[c].pc \notin {"items", "commit"},
             handler'[c].itemId = handler[c].itemId,
             \A d \in Calls \ {c} : handler'[d] = handler[d]
      PROVE  \A d \in Calls : handler'[d] = handler[d] \/ Settled(d)
  BY <1>c DEF KeysInv, ItemIdsOwned, Settled
<1>d. ASSUME NEW c \in Calls, handler[c].pc # "commit", NEW lines, NextItem(c, lines)
      PROVE  \A d \in Calls : handler'[d] = handler[d] \/ Settled(d)
  <2>1. handler'[c].pc \notin {"items", "commit"} /\ handler'[c].itemId = handler[c].itemId
    BY <1>a, <1>d DEF NextItem, Locals
  <2>2. \A d \in Calls \ {c} : handler'[d] = handler[d]
    BY <1>a, <1>d DEF NextItem
  <2>3. QED BY <2>1, <2>2, <1>c, <1>d
<1>e. ASSUME NEW c \in Calls, handler[c].pc # "commit", NEW rows, Found(c, rows)
      PROVE  \A d \in Calls : handler'[d] = handler[d] \/ Settled(d)
  <2>1. handler'[c].pc = "preload" /\ handler'[c].itemId = handler[c].itemId
    BY <1>a, <1>e DEF Found, Locals
  <2>2. \A d \in Calls \ {c} : handler'[d] = handler[d]
    BY <1>a, <1>e DEF Found
  <2>3. QED BY <2>1, <2>2, <1>c, <1>e
<1>1. ASSUME NEW c \in Calls, OrderServer_CreateOrder(c) PROVE Quiet
  <2>1. handler'[c].pc = "user" /\ handler'[c].itemId = handler[c].itemId
    BY <1>a, <1>1 DEF OrderServer_CreateOrder, Locals
  <2>2. \A d \in Calls \ {c} : handler'[d] = handler[d]
    BY <1>a, <1>1 DEF OrderServer_CreateOrder
  <2>3. handler[c].pc # "commit" /\ UNCHANGED tables
    BY <1>1 DEF OrderServer_CreateOrder, At
  <2>4. QED BY <2>1, <2>2, <2>3, <1>c DEF Quiet
<1>2. ASSUME NEW c \in Calls, UserChecked(c) PROVE Quiet
  BY <1>2, <1>b, <1>d DEF UserChecked, At, Quiet
<1>3. ASSUME NEW c \in Calls, MenuItemChecked(c) PROVE Quiet
  <2>1. UNCHANGED tables /\ handler[c].pc # "commit"
    BY <1>3 DEF MenuItemChecked, At
  <2>2. (\E lines : NextItem(c, lines)) \/ OrderReturn(c, "InvalidArgument", {})
    BY <1>3 DEF MenuItemChecked
  <2>3. QED BY <2>1, <2>2, <1>b, <1>d DEF Quiet
<1>4. ASSUME NEW c \in Calls,
             Rollback(c) \/ Preload(c) \/ OrderRefuse(c) \/ ContextCanceled(c)
      PROVE  Quiet
  <2>1. UNCHANGED tables /\ \E code, msgs : OrderReturn(c, code, msgs)
    BY <1>4 DEF Rollback, Preload, OrderRefuse, ContextCanceled
  <2>2. QED BY <2>1, <1>b DEF Quiet
<1>5. ASSUME NEW c \in Calls, OrderServer_GetOrder(c) \/ OrderServer_GetOrders(c)
      PROVE  Quiet
  <2>1. UNCHANGED tables /\ handler[c].pc # "commit"
    BY <1>5 DEF OrderServer_GetOrder, OrderServer_GetOrders, At
  <2>2. (\E rows : Found(c, rows)) \/ (\E code, msgs : OrderReturn(c, code, msgs))
    BY <1>5 DEF OrderServer_GetOrder, OrderServer_GetOrders
  <2>3. QED BY <2>1, <2>2, <1>b, <1>e DEF Quiet
<1>6. CASE OrderCrash \/ OrderRestart
  BY <1>6 DEF OrderCrash, OrderRestart, Quiet, Settled, NoLocals
<1>7. CASE CancelStep
  BY <1>7, <1>4 DEF CancelStep
<1>8. CASE OrderStep
  BY <1>8, <1>1, <1>2, <1>3, <1>4, <1>5, <1>6 DEF OrderStep, OrderNext, OrderServe
<1>9. QED BY <1>7, <1>8

-----------------------------------------------------------------------------
(* KeysInv and KeysUnique together, one service at a time. *)
UserKeys == /\ \A u \in users : u.id < userSeq
            /\ \A u, v \in users : (u.id = v.id \/ u.email = v.email) => u = v

MenuKeys == /\ \A m \in menuItems : m.id < menuSeq
            /\ \A m, n \in menuItems : m.id = n.id => m = n

OrderKeys == /\ \A o \in orders : o.id < orderSeq
             /\ \A i \in orderItems : i.id < itemSeq
             /\ \A o, p \in orders : o.id = p.id => o = p
             /\ \A i, j \in orderItems : i.id = j.id => i = j
             /\ \A c \in Calls : OrderIdOwned(c) /\ ItemIdsOwned(c)

LEMMA KeysByService == KeysInv /\ KeysUnique <=> UserKeys /\ MenuKeys /\ OrderKeys
BY DEF KeysInv, KeysUnique, SequencesAhead, UserKeys, MenuKeys, OrderKeys

LEMMA UserKeysStep ==
  ASSUME TypeOK, UserKeys, UserNext
  PROVE  UserKeys'
<1>a. /\ \A u \in users : u.id \in Nat
      /\ userSeq \in Nat
  BY DEF TypeOK, UserTypeOK, UserRow
<1>1. CASE UNCHANGED users /\ userSeq' \in {userSeq, userSeq + 1}
  BY <1>1, <1>a DEF UserKeys
<1>2. ASSUME NEW email \in Emails,
             users' = users \cup {[id |-> userSeq, email |-> email]},
             \A u \in users : u.email # email,
             userSeq' = userSeq + 1
      PROVE  UserKeys'
  BY <1>2, <1>a DEF UserKeys
<1>3. QED BY <1>1, <1>2, UserEffect

LEMMA MenuKeysStep ==
  ASSUME TypeOK, MenuKeys, MenuNext
  PROVE  MenuKeys'
<1>a. /\ \A m \in menuItems : m.id \in Nat
      /\ menuSeq \in Nat
  BY DEF TypeOK, MenuTypeOK, MenuRow
<1>1. CASE UNCHANGED menuItems /\ menuSeq' \in {menuSeq, menuSeq + 1}
  BY <1>1, <1>a DEF MenuKeys
<1>2. ASSUME NEW price \in Prices,
             menuItems' = menuItems \cup {[id |-> menuSeq, price |-> price]},
             menuSeq' = menuSeq + 1
      PROVE  MenuKeys'
  BY <1>2, <1>a DEF MenuKeys
<1>3. QED BY <1>1, <1>2, MenuEffect

-----------------------------------------------------------------------------
(* Nothing new is owned by a quiet step. *)
LEMMA QuietKeys ==
  ASSUME OrderKeys, Quiet
  PROVE  OrderKeys'
<1>a. UNCHANGED <<orders, orderItems, orderSeq, itemSeq>>
  BY DEF Quiet, tables
<1>b. \A d \in Calls : handler'[d] = handler[d] \/ Settled(d)
  BY DEF Quiet
<1>1. ASSUME NEW c \in Calls PROVE OrderIdOwned(c)'
  BY <1>a, <1>b DEF OrderKeys, OrderIdOwned, OwnsOrderId, Settled
<1>2. ASSUME NEW c \in Calls PROVE ItemIdsOwned(c)'
  BY <1>a, <1>b DEF OrderKeys, ItemIdsOwned, ItemsEnd, Settled
<1>3. QED BY <1>a, <1>1, <1>2 DEF OrderKeys

(* The facts about types that the order service's keys need. *)
LEMMA OrderIdTypes ==
  ASSUME TypeOK
  PROVE  /\ orderSeq \in Nat /\ itemSeq \in Nat
         /\ \A o \in orders : o.id \in Nat
         /\ \A i \in orderItems : i.id \in Nat
         /\ \A c \in Calls : /\ handler[c].orderId \in Nat
                              /\ handler[c].itemId \in Nat
                              /\ handler[c].lines \in Seq(Line)
                              /\ Len(handler[c].lines) \in Nat
                              /\ ItemsEnd(c) \in Nat
<1>1. \A c \in Calls : handler[c] \in Locals
  BY DEF TypeOK, OrderTypeOK
<1>2. \A c \in Calls : /\ handler[c].orderId \in Nat
                       /\ handler[c].itemId \in Nat
                       /\ handler[c].lines \in Seq(Line)
  BY <1>1 DEF Locals
<1>3. \A c \in Calls : Len(handler[c].lines) \in Nat
  BY <1>2
<1>4. QED BY <1>2, <1>3 DEF TypeOK, OrderTypeOK, OrderRow, ItemRow, ItemsEnd

(* The order row takes the next id of its sequence. *)
LEMMA InsertOrderKeys ==
  ASSUME TypeOK, OrderKeys, NEW c \in Calls, InsertOrder(c)
  PROVE  OrderKeys'
<1>a. UNCHANGED <<orders, orderItems, itemSeq>> /\ orderSeq' = orderSeq + 1
  BY DEF InsertOrder
<1>b. /\ handler[c].pc = "insert"
      /\ handler'[c].orderId = orderSeq
      /\ handler'[c].pc = IF handler[c].lines = <<>> THEN "commit" ELSE "items"
      /\ handler'[c].itemId = handler[c].itemId
      /\ handler'[c].lines = handler[c].lines
  BY DEF InsertOrder, At, TypeOK, OrderTypeOK, Locals
<1>c. \A d \in Calls \ {c} : handler'[d] = handler[d]
  BY DEF InsertOrder, TypeOK, OrderTypeOK
<1>d. handler[c].itemId = 0
  BY <1>b DEF OrderKeys, ItemIdsOwned
<1>1. ASSUME NEW d \in Calls PROVE OrderIdOwned(d)'
  <2>1. OrderIdOwned(d)
    BY DEF OrderKeys
  <2>2. \A e \in Calls : OwnsOrderId(e) => handler[e].orderId < orderSeq
    BY DEF OrderKeys, OrderIdOwned
  <2>3. \A o \in orders : o.id < orderSeq
    BY DEF OrderKeys
  <2>4. CASE d = c
    BY <2>2, <2>3, <2>4, <1>a, <1>b, <1>c, OrderIdTypes DEF OrderIdOwned, OwnsOrderId
  <2>5. CASE d # c
    <3>1. handler'[d] = handler[d]
      BY <2>5, <1>c
    <3>2. OwnsOrderId(d) => handler[d].orderId < orderSeq'
      BY <2>2, <1>a, OrderIdTypes
    <3>3. QED BY <2>1, <2>2, <2>5, <3>1, <3>2, <1>a, <1>b, <1>c, OrderIdTypes
          DEF OrderIdOwned, OwnsOrderId
  <2>6. QED BY <2>4, <2>5
<1>2. ASSUME NEW d \in Calls PROVE ItemIdsOwned(d)'
  <2>1. ItemIdsOwned(d)
    BY DEF OrderKeys
  <2>2. \A i \in orderItems : i.id < itemSeq
    BY DEF OrderKeys
  <2>3. handler[c].lines = <<>> => Len(handler[c].lines) = 0
    OBVIOUS
  <2>4. handler'[c].pc = "commit" => ItemsEnd(c)' = 0 /\ handler'[c].itemId = 0
    BY <1>b, <1>d, <2>3 DEF ItemsEnd
  <2>5. CASE d = c
    BY <2>4, <2>5, <1>a, <1>b, <1>c, <1>d, OrderIdTypes DEF ItemIdsOwned, ItemsEnd
  <2>6. CASE d # c
    <3>1. handler'[d] = handler[d] /\ ItemsEnd(d)' = ItemsEnd(d)
      BY <2>6, <1>c DEF ItemsEnd
    <3>2. handler'[c].pc = "commit" => ItemsEnd(c)' <= handler[d].itemId
      BY <2>4, OrderIdTypes
    <3>3. \A e \in Calls \ {c} : handler'[e] = handler[e] /\ ItemsEnd(e)' = ItemsEnd(e)
      BY <1>c DEF ItemsEnd
    <3>4. QED BY <2>1, <2>6, <3>1, <3>2, <3>3, <1>a DEF ItemIdsOwned
  <2>7. QED BY <2>5, <2>6
<1>3. \A o \in orders' : o.id < orderSeq'
  BY <1>a, OrderIdTypes DEF OrderKeys
<1>4. QED BY <1>a, <1>1, <1>2, <1>3 DEF OrderKeys

(* The item rows take the next ids of theirs, in one statement. *)
LEMMA InsertItemsKeys ==
  ASSUME TypeOK, OrderKeys, NEW c \in Calls, InsertItems(c)
  PROVE  OrderKeys'
<1>a. UNCHANGED <<orders, orderItems, orderSeq>>
  BY DEF InsertItems
<1>b. /\ handler[c].pc = "items"
      /\ handler'[c].pc = "commit"
      /\ handler'[c].orderId = handler[c].orderId
      /\ handler'[c].itemId = itemSeq
      /\ handler'[c].lines = handler[c].lines
      /\ itemSeq' = itemSeq + Len(handler[c].lines)
  BY DEF InsertItems, At, TypeOK, OrderTypeOK, Locals
<1>c. \A d \in Calls \ {c} : handler'[d] = handler[d] /\ ItemsEnd(d)' = ItemsEnd(d)
  BY DEF InsertItems, TypeOK, OrderTypeOK, ItemsEnd
<1>d. ItemsEnd(c)' = itemSeq'
  BY <1>b DEF ItemsEnd
<1>e. itemSeq' \in Nat /\ itemSeq <= itemSeq'
  BY <1>b, OrderIdTypes
<1>1. ASSUME NEW d \in Calls PROVE OrderIdOwned(d)'
  BY <1>a, <1>b, <1>c DEF OrderKeys, OrderIdOwned, OwnsOrderId
<1>2. ASSUME NEW d \in Calls PROVE ItemIdsOwned(d)'
  <2>1. \A e \in Calls : handler[e].pc = "commit" => ItemsEnd(e) <= itemSeq
    BY DEF OrderKeys, ItemIdsOwned
  <2>2. \A i \in orderItems : i.id < itemSeq
    BY DEF OrderKeys
  <2>3. CASE d = c
    <3>1. \A e \in Calls \ {c} : handler'[e].pc = "commit" => ItemsEnd(e)' <= handler'[c].itemId
      BY <2>1, <1>b, <1>c
    <3>2. ItemsEnd(c)' <= itemSeq'
      BY <1>d, <1>e
    <3>3. QED BY <2>2, <2>3, <3>1, <3>2, <1>a, <1>b DEF ItemIdsOwned
  <2>4. CASE d # c
    <3>1. ItemIdsOwned(d) /\ handler'[d] = handler[d] /\ ItemsEnd(d)' = ItemsEnd(d)
      BY <2>4, <1>c DEF OrderKeys
    <3>2. handler[d].pc = "commit" => ItemsEnd(d) <= itemSeq' /\ ItemsEnd(d) <= handler'[c].itemId
      BY <2>1, <1>b, <1>e, OrderIdTypes
    <3>3. QED BY <3>1, <3>2, <2>4, <1>a, <1>b, <1>c DEF ItemIdsOwned
  <2>5. QED BY <2>3, <2>4
<1>3. \A i \in orderItems' : i.id < itemSeq'
  BY <1>a, <1>e, OrderIdTypes DEF OrderKeys
<1>4. QED BY <1>a, <1>1, <1>2, <1>3 DEF OrderKeys

(* COMMIT stores rows whose ids the transaction owned. *)
LEMMA CommitKeys ==
  ASSUME TypeOK, OrderKeys, NEW c \in Calls, Commit(c)
  PROVE  OrderKeys'
<1>a. /\ UNCHANGED <<orderSeq, itemSeq>>
      /\ orders' = orders \cup {NewOrder(c)}
      /\ orderItems' = orderItems \cup NewItems(c)
      /\ handler[c].pc = "commit"
  BY DEF Commit, Publish, At
<1>b. Settled(c) /\ \A d \in Calls \ {c} : handler'[d] = handler[d]
  BY DEF Commit, OrderReturn, NoLocals, Settled, TypeOK, OrderTypeOK
<1>c. \A d \in Calls \ {c} : ItemsEnd(d)' = ItemsEnd(d)
  BY <1>b DEF ItemsEnd
<1>d. OrderIdOwned(c) /\ ItemIdsOwned(c) /\ OwnsOrderId(c)
  BY <1>a DEF OrderKeys, OwnsOrderId
<1>e. NewOrder(c).id = handler[c].orderId
  BY DEF NewOrder
<1>f. \A i \in NewItems(c) : /\ i.id \in Nat
                             /\ handler[c].itemId <= i.id
                             /\ i.id < ItemsEnd(c)
  <2>1. ASSUME NEW k \in DOMAIN handler[c].lines
        PROVE  /\ handler[c].itemId + k - 1 \in Nat
               /\ handler[c].itemId <= handler[c].itemId + k - 1
               /\ handler[c].itemId + k - 1 < ItemsEnd(c)
    <3>1. k \in 1 .. Len(handler[c].lines)
      BY OrderIdTypes
    <3>2. QED BY <3>1, OrderIdTypes DEF ItemsEnd
  <2>2. QED BY <2>1 DEF NewItems
<1>g. \A i, j \in NewItems(c) : i.id = j.id => i = j
  <2>1. SUFFICES ASSUME NEW k \in DOMAIN handler[c].lines,
                        NEW l \in DOMAIN handler[c].lines,
                        handler[c].itemId + k - 1 = handler[c].itemId + l - 1
                 PROVE  k = l
    BY DEF NewItems
  <2>2. k \in Nat /\ l \in Nat
    BY OrderIdTypes
  <2>3. QED BY <2>1, <2>2, OrderIdTypes
<1>1. \A o \in orders' : o.id < orderSeq'
  BY <1>a, <1>d, <1>e DEF OrderKeys, OrderIdOwned
<1>2. \A i \in orderItems' : i.id < itemSeq'
  <2>1. \A i \in NewItems(c) : i.id < itemSeq
    BY <1>a, <1>d, <1>f, OrderIdTypes DEF ItemIdsOwned
  <2>2. QED BY <2>1, <1>a DEF OrderKeys
<1>3. \A o, p \in orders' : o.id = p.id => o = p
  BY <1>a, <1>d, <1>e DEF OrderKeys, OrderIdOwned
<1>4. \A i, j \in orderItems' : i.id = j.id => i = j
  <2>1. \A i \in orderItems, j \in NewItems(c) : i.id # j.id
    BY <1>a, <1>d, <1>f, OrderIdTypes DEF ItemIdsOwned
  <2>2. QED BY <2>1, <1>a, <1>g DEF OrderKeys
<1>5. ASSUME NEW d \in Calls PROVE OrderIdOwned(d)'
  BY <1>a, <1>b, <1>d, <1>e DEF OrderKeys, OrderIdOwned, OwnsOrderId, Settled
<1>6. ASSUME NEW d \in Calls PROVE ItemIdsOwned(d)'
  <2>1. CASE d = c
    BY <2>1, <1>b DEF ItemIdsOwned, Settled
  <2>2. CASE d # c
    <3>1. /\ ItemIdsOwned(d)
          /\ handler'[d] = handler[d] /\ ItemsEnd(d)' = ItemsEnd(d)
      BY <2>2, <1>b, <1>c DEF OrderKeys
    <3>2. handler[d].pc = "commit" =>
            \A i \in NewItems(c) : i.id < handler[d].itemId \/ ItemsEnd(d) <= i.id
      <4>1. handler[d].pc = "commit" =>
              ItemsEnd(d) <= handler[c].itemId \/ ItemsEnd(c) <= handler[d].itemId
        BY <2>2, <1>a, <3>1 DEF ItemIdsOwned
      <4>2. QED BY <4>1, <1>f, OrderIdTypes
    <3>3. handler'[c].pc # "commit"
      BY <1>b DEF Settled
    <3>4. QED BY <3>1, <3>2, <3>3, <2>2, <1>a, <1>b, <1>c DEF ItemIdsOwned
  <2>3. QED BY <2>1, <2>2
<1>7. QED BY <1>1, <1>2, <1>3, <1>4, <1>5, <1>6 DEF OrderKeys

-----------------------------------------------------------------------------
(***************************************************************************)
(* What a step of the gateway does to one client call and its channels:    *)
(* nothing, one of its two handler steps, or the loss of its connection.   *)
(***************************************************************************)
GatewayLeaves(d) == /\ http'[d] = http[d]
                    /\ userCall'[d] = userCall[d]
                    /\ menuCall'[d] = menuCall[d]
                    /\ orderCall'[d] = orderCall[d]
                    /\ before'[d] = before[d]

Disconnected(d) == /\ http[d].st = "waiting"
                   /\ http'[d] = [st |-> "lost", req |-> http[d].req]
                   /\ userCall'[d] = userCall[d]
                   /\ menuCall'[d] = menuCall[d]
                   /\ orderCall'[d] = orderCall[d]
                   /\ before'[d] = before[d]

LEMMA GatewayEffect ==
  ASSUME TypeOK, GatewayNext, NEW d \in Calls
  PROVE  \/ GatewayLeaves(d) \/ Disconnected(d) \/ Response(d)
         \/ \E r \in Requests : Handle(d, r)
<1>b. /\ DOMAIN userCall = Calls /\ DOMAIN menuCall = Calls
      /\ DOMAIN orderCall = Calls /\ DOMAIN http = Calls /\ DOMAIN before = Calls
  BY DEF TypeOK, UserTypeOK, MenuTypeOK, OrderTypeOK, GatewayTypeOK
<1>1. ASSUME NEW c \in Calls, NEW r \in Requests, Handle(c, r), d # c
      PROVE  GatewayLeaves(d)
  BY <1>1, <1>b
  DEF Handle, Handlers_CreateUser, Handlers_GetUser, Handlers_GetUsers,
      Handlers_CreateMenuItem, Handlers_GetMenuItem, Handlers_GetMenu,
      Handlers_CreateOrder, Handlers_GetOrder, Handlers_GetOrders,
      Routed, Wait, BadRequest, CallUser, CallMenu, CallOrder, channels, GatewayLeaves
<1>2. ASSUME NEW c \in Calls, Response(c), d # c
      PROVE  GatewayLeaves(d)
  BY <1>2, <1>b
  DEF Response, UserResponse, MenuResponse, OrderResponse, Respond, GatewayLeaves
<1>3. CASE GatewayCrash
  <2>1. UNCHANGED <<before, userCall, menuCall, orderCall>>
    BY <1>3 DEF GatewayCrash, channels
  <2>2. http'[d] = IF http[d].st = "waiting" THEN [st |-> "lost", req |-> http[d].req]
                   ELSE http[d]
    BY <1>3 DEF GatewayCrash
  <2>3. QED BY <2>1, <2>2 DEF GatewayLeaves, Disconnected
<1>4. CASE GatewayRestart
  BY <1>4 DEF GatewayRestart, channels, GatewayLeaves
<1>5. QED BY <1>1, <1>2, <1>3, <1>4 DEF GatewayNext

(* What the first step of a gateway handler leaves behind. *)
LEMMA HandleEffect ==
  ASSUME TypeOK, NEW d \in Calls, NEW r \in Requests, Handle(d, r)
  PROVE  /\ http[d].st = "new"
         /\ before'[d] = {e \in Calls : http[e].st = "answered"}
         /\ \/ /\ http'[d] = Answered(r, 400, {})
               /\ UNCHANGED <<userCall, menuCall, orderCall>>
            \/ /\ http'[d] = [st |-> "waiting", req |-> r]
               /\ \/ r.op \in UserOps /\ UNCHANGED <<menuCall, orderCall>>
                  \/ r.op \in MenuOps /\ UNCHANGED <<userCall, orderCall>>
                  \/ r.op \in OrderOps /\ UNCHANGED <<userCall, menuCall>>
<1>b. DOMAIN http = Calls /\ DOMAIN before = Calls
  BY DEF TypeOK, GatewayTypeOK
<1>1. QED
  BY <1>b
  DEF Handle, Handlers_CreateUser, Handlers_GetUser, Handlers_GetUsers,
      Handlers_CreateMenuItem, Handlers_GetMenuItem, Handlers_GetMenu,
      Handlers_CreateOrder, Handlers_GetOrder, Handlers_GetOrders,
      Routed, Wait, BadRequest, CallUser, CallMenu, CallOrder, channels,
      UserOps, MenuOps, OrderOps

(* The order service only ends the calls made to it. *)
LEMMA OrderCallsEnd ==
  ASSUME TypeOK, HandlerInv, OrderStep \/ CancelStep, NEW d \in Calls
  PROVE  \/ orderCall'[d] = orderCall[d]
         \/ orderCall[d].st \in {"sent", "done"} /\ orderCall'[d].st = "done"
<1>a. DOMAIN orderCall = Calls /\ DOMAIN handler = Calls
  BY DEF TypeOK, OrderTypeOK
<1>1. ASSUME NEW c \in Calls, NEW code, NEW msgs, OrderReturn(c, code, msgs),
             orderCall[c].st = "sent"
      PROVE  \/ orderCall'[d] = orderCall[d]
             \/ orderCall[d].st = "sent" /\ orderCall'[d].st = "done"
  BY <1>1, <1>a DEF OrderReturn, Done
<1>2. ASSUME NEW c \in Calls, OrderServe(c) \/ ContextCanceled(c)
      PROVE  /\ orderCall[c].st = "sent"
             /\ UNCHANGED orderCall \/ \E code, msgs : OrderReturn(c, code, msgs)
  BY <1>2 DEF OrderServe, OrderServer_CreateOrder, UserChecked, MenuItemChecked,
       InsertOrder, InsertItems, Commit, Rollback, OrderServer_GetOrder,
       OrderServer_GetOrders, Preload, OrderRefuse, ContextCanceled, Found, At,
       OrderServing
<1>3. CASE OrderRestart
  BY <1>3 DEF OrderRestart
<1>4. CASE OrderCrash
  <2>1. PICK lost \in SUBSET Undelivered(orderCall) :
          orderCall' = CutOff(orderCall, lost \cup {c \in Calls : handler[c].pc # "idle"})
    BY <1>4 DEF OrderCrash
  <2>2. handler[d].pc # "idle" => orderCall[d].st = "sent"
    BY DEF HandlerInv, RunningInv
  <2>3. QED BY <2>1, <2>2, <1>a DEF CutOff, Undelivered, Done
<1>5. QED BY <1>1, <1>2, <1>3, <1>4 DEF OrderStep, CancelStep, OrderNext

-----------------------------------------------------------------------------
(***************************************************************************)
(* A call for which an order is stored is past its request: no handler can *)
(* store a second one for it.                                              *)
(***************************************************************************)
PlacedInv == \A c \in Calls : placed[c] # {} => /\ http[c].st # "new"
                                               /\ orderCall[c].st # "sent"

LEMMA PlacedStep ==
  ASSUME TypeOK, HandlerInv, KeysInv, PlacedInv, [Next]_vars
  PROVE  PlacedInv'
<1>a. ASSUME NEW d \in Calls PROVE placed[d] # {} => http[d].st # "new" /\ orderCall[d].st # "sent"
  BY DEF PlacedInv
<1>1. CASE UserStep \/ MenuStep \/ UNCHANGED vars
  BY <1>1 DEF UserStep, MenuStep, vars, orderState, gatewayVars, PlacedInv
<1>2. CASE OrderStep \/ CancelStep
  <2>1. UNCHANGED http
    BY <1>2 DEF OrderStep, CancelStep, gatewayVars
  <2>2. ASSUME UNCHANGED placed PROVE PlacedInv'
    BY <2>1, <2>2, <1>2, OrderCallsEnd DEF PlacedInv
  <2>3. ASSUME NEW c \in Calls, Commit(c) PROVE PlacedInv'
    <3>1. orderCall[c].st = "sent" /\ orderCall'[c].st = "done"
      BY <2>3 DEF Commit, At, OrderServing, OrderReturn, Done, TypeOK, OrderTypeOK
    <3>2. http[c].st # "new"
      BY <3>1 DEF HandlerInv, ChannelInv
    <3>3. \A d \in Calls \ {c} : placed'[d] = placed[d]
      BY <2>3 DEF Commit, TypeOK, OrderTypeOK
    <3>4. QED BY <2>1, <3>1, <3>2, <3>3, <1>2, OrderCallsEnd DEF PlacedInv
  <2>4. QED BY <2>2, <2>3, <1>2, OrderEffect DEF Quiet, tables, InsertOrder, InsertItems
<1>3. CASE GatewayStep
  <2>1. UNCHANGED placed /\ GatewayNext
    BY <1>3 DEF GatewayStep, orderState
  <2>2. ASSUME NEW d \in Calls, placed[d] # {}
        PROVE  http'[d].st # "new" /\ orderCall'[d].st # "sent"
    <3>1. CASE GatewayLeaves(d) \/ Disconnected(d)
      BY <3>1, <2>2, <1>a DEF GatewayLeaves, Disconnected
    <3>2. CASE Response(d)
      BY <3>2, <2>2, <1>a DEF Response, UserResponse, MenuResponse, OrderResponse,
         Respond, Answered, Idle, TypeOK, GatewayTypeOK, OrderTypeOK
    <3>3. ASSUME NEW r \in Requests, Handle(d, r) PROVE FALSE
      BY <3>3, <2>2, <1>a, HandleEffect
    <3>4. QED BY <3>1, <3>2, <3>3, <2>1, GatewayEffect
  <2>3. QED BY <2>1, <2>2 DEF PlacedInv
<1>4. QED BY <1>1, <1>2, <1>3 DEF Next

-----------------------------------------------------------------------------
(* The inductive invariant behind the ledger. *)
LedgerInv == IndInv /\ KeysInv /\ KeysUnique /\ PlacedInv

LEMMA LedgerInvInit == Init => LedgerInv
<1> SUFFICES ASSUME Init PROVE LedgerInv
  OBVIOUS
<1>1. UserKeys
  <2>1. DOMAIN UserSeed = 1 .. Len(UserSeed) /\ Len(UserSeed) \in Nat
    BY UserAssumption
  <2>2. users = {[id |-> i, email |-> UserSeed[i]] : i \in DOMAIN UserSeed}
          /\ userSeq = Len(UserSeed) + 1
    BY DEF Init, UserInit
  <2>3. \A u \in users : u.id < userSeq
    BY <2>1, <2>2
  <2>4. \A u, v \in users : (u.id = v.id \/ u.email = v.email) => u = v
    BY <2>2, UserAssumption
  <2>5. QED BY <2>3, <2>4 DEF UserKeys
<1>2. MenuKeys
  <2>1. DOMAIN MenuSeed = 1 .. Len(MenuSeed) /\ Len(MenuSeed) \in Nat
    BY MenuAssumption
  <2>2. menuItems = {[id |-> i, price |-> MenuSeed[i]] : i \in DOMAIN MenuSeed}
          /\ menuSeq = Len(MenuSeed) + 1
    BY DEF Init, MenuInit
  <2>3. QED BY <2>1, <2>2 DEF MenuKeys
<1>3. OrderKeys
  BY DEF Init, OrderInit, OrderKeys, OrderIdOwned, OwnsOrderId, ItemIdsOwned, NoLocals
<1>4. PlacedInv
  BY DEF Init, OrderInit, PlacedInv
<1>5. QED BY <1>1, <1>2, <1>3, <1>4, IndInvInit, KeysByService DEF LedgerInv

LEMMA KeysStep ==
  ASSUME TypeOK, KeysInv, KeysUnique, [Next]_vars
  PROVE  KeysInv' /\ KeysUnique'
<1>a. UserKeys /\ MenuKeys /\ OrderKeys
  BY KeysByService
<1>b. UNCHANGED <<users, userSeq>> => UserKeys'
  BY <1>a DEF UserKeys
<1>c. UNCHANGED <<menuItems, menuSeq>> => MenuKeys'
  BY <1>a DEF MenuKeys
<1>d. UNCHANGED <<orders, orderItems, orderSeq, itemSeq, handler>> => OrderKeys'
  BY <1>a DEF OrderKeys, OrderIdOwned, OwnsOrderId, ItemIdsOwned, ItemsEnd
<1>1. UserKeys' /\ MenuKeys' /\ OrderKeys'
  <2>1. CASE UserStep
    BY <2>1, <1>a, <1>c, <1>d, UserKeysStep DEF UserStep, menuState, orderState
  <2>2. CASE MenuStep
    BY <2>2, <1>a, <1>b, <1>d, MenuKeysStep DEF MenuStep, userState, orderState
  <2>3. CASE OrderStep \/ CancelStep
    <3>1. UserKeys' /\ MenuKeys'
      BY <2>3, <1>b, <1>c DEF OrderStep, CancelStep, userState, menuState
    <3>2. OrderKeys'
      BY <2>3, <1>a, OrderEffect, QuietKeys, InsertOrderKeys, InsertItemsKeys, CommitKeys
    <3>3. QED BY <3>1, <3>2
  <2>4. CASE GatewayStep
    BY <2>4, <1>b, <1>c, <1>d DEF GatewayStep, userState, menuState, orderState
  <2>5. CASE UNCHANGED vars
    BY <2>5, <1>b, <1>c, <1>d DEF vars
  <2>6. QED BY <2>1, <2>2, <2>3, <2>4, <2>5 DEF Next
<1>2. (UserKeys /\ MenuKeys /\ OrderKeys)' => (KeysInv /\ KeysUnique)'
  BY DEF KeysInv, KeysUnique, SequencesAhead, UserKeys, MenuKeys, OrderKeys
<1>3. QED BY <1>1, <1>2

LEMMA LedgerInvStep == LedgerInv /\ [Next]_vars => LedgerInv'
<1> SUFFICES ASSUME LedgerInv, [Next]_vars PROVE LedgerInv'
  OBVIOUS
<1>a. TypeOK /\ HandlerInv /\ KeysInv /\ KeysUnique /\ PlacedInv /\ IndInv
  BY DEF LedgerInv, IndInv
<1>1. IndInv'
  BY <1>a, IndInvStep
<1>2. KeysInv' /\ KeysUnique'
  BY <1>a, KeysStep
<1>3. PlacedInv'
  BY <1>a, PlacedStep
<1>4. QED BY <1>1, <1>2, <1>3 DEF LedgerInv

(***************************************************************************)
(* Ids drawn by concurrent transactions, by ones that are rolled back and  *)
(* by ones whose COMMIT is lost never collide: in every reachable state no *)
(* table has two rows with one id, and no two users have one email.        *)
(***************************************************************************)
THEOREM KeysAreUnique == Spec => []KeysUnique
<1>1. LedgerInv => KeysUnique
  BY DEF LedgerInv
<1>2. QED BY <1>1, LedgerInvInit, LedgerInvStep, PTL DEF Spec

-----------------------------------------------------------------------------
(***************************************************************************)
(* The refinement, one kind of step at a time.  The ledger's orders are    *)
(* the rows of the order service, each with its items.                     *)
(***************************************************************************)
Whole == {WholeOrder(o) : o \in orders}

(* COMMIT makes one whole order appear, and leaves the others as they are. *)
LEMMA CommitWhole ==
  ASSUME TypeOK, OrderIntegrity, KeysInv, NEW c \in Calls, Commit(c)
  PROVE  /\ Whole' = Whole \cup {[id |-> handler[c].orderId,
                                 userId |-> orderCall[c].req.userId,
                                 items |-> NewItems(c)]}
         /\ \A o \in orders : ItemsOf(o.id)' = ItemsOf(o.id) /\ o.id # handler[c].orderId
         /\ {i \in orderItems' : i.orderId = handler[c].orderId} = NewItems(c)
<1>a. /\ orders' = orders \cup {NewOrder(c)}
      /\ orderItems' = orderItems \cup NewItems(c)
      /\ handler[c].pc = "commit"
  BY DEF Commit, Publish, At
<1>b. \A o \in orders : o.id # handler[c].orderId
  BY <1>a DEF KeysInv, OrderIdOwned, OwnsOrderId
<1>c. \A i \in orderItems : i.orderId # handler[c].orderId
  BY <1>b DEF OrderIntegrity
<1>d. \A i \in NewItems(c) : i.orderId = handler[c].orderId
  BY DEF NewItems
<1>1. \A o \in orders : {i \in orderItems' : i.orderId = o.id} = ItemsOf(o.id)
  BY <1>a, <1>b, <1>d DEF ItemsOf
<1>2. {i \in orderItems' : i.orderId = handler[c].orderId} = NewItems(c)
  BY <1>a, <1>c, <1>d
<1> DEFINE After(o) == [id |-> o.id, userId |-> o.userId,
                        items |-> {i \in orderItems' : i.orderId = o.id}]
<1>3. Whole' = {After(o) : o \in orders'}
  BY DEF Whole, WholeOrder, ItemsOf
<1>4. \A o \in orders : After(o) = WholeOrder(o)
  BY <1>1 DEF WholeOrder
<1>5. After(NewOrder(c)) = [id |-> handler[c].orderId,
                           userId |-> orderCall[c].req.userId,
                           items |-> NewItems(c)]
  BY <1>2 DEF NewOrder
<1> HIDE DEF After
<1>6. Whole' = Whole \cup {After(NewOrder(c))}
  BY <1>a, <1>3, <1>4 DEF Whole
<1>7. \A o \in orders : ItemsOf(o.id)' = ItemsOf(o.id)
  BY <1>1 DEF ItemsOf
<1>8. QED BY <1>b, <1>2, <1>5, <1>6, <1>7

LEMMA LedgerInitial == Init => Ledger!Init
BY DEF Init, UserInit, MenuInit, OrderInit, Ledger!Init

LEMMA LedgerStep ==
  ASSUME LedgerInv, [Next]_vars
  PROVE  [Ledger!Next]_(Ledger!ledger)
<1>a. TypeOK /\ HandlerInv /\ OrderIntegrity /\ KeysInv /\ KeysUnique /\ PlacedInv
  BY DEF LedgerInv, IndInv
<1>b. UNCHANGED <<orders, orderItems>> => UNCHANGED Whole
  BY DEF Whole, WholeOrder, ItemsOf
<1>c. ASSUME UNCHANGED <<users, menuItems, orders, orderItems, placed>>
      PROVE  UNCHANGED Ledger!ledger
  BY <1>c, <1>b DEF Ledger!ledger, Whole
<1>1. CASE UserStep
  <2>1. UNCHANGED <<menuItems, orders, orderItems, placed>> /\ UserNext
    BY <1>1 DEF UserStep, menuState, orderState
  <2>2. CASE UNCHANGED users
    BY <2>1, <2>2, <1>c
  <2>3. ASSUME NEW email \in Emails,
               users' = users \cup {[id |-> userSeq, email |-> email]},
               \A u \in users : u.email # email
        PROVE  Ledger!Next
    <3> DEFINE u == [id |-> userSeq, email |-> email]
    <3>1. \A v \in users : v.id # u.id
      BY <1>a DEF KeysInv, SequencesAhead, TypeOK, UserTypeOK, UserRow
    <3>2. Ledger!RegisterUser(u)
      BY <2>1, <2>3, <3>1, <1>b DEF Ledger!RegisterUser, Ledger!Fresh, Whole
    <3>3. u \in users'
      BY <2>3
    <3>4. QED BY <3>2, <3>3 DEF Ledger!Next
  <2>4. QED BY <2>1, <2>2, <2>3, <1>a, UserEffect
<1>2. CASE MenuStep
  <2>1. UNCHANGED <<users, orders, orderItems, placed>> /\ MenuNext
    BY <1>2 DEF MenuStep, userState, orderState
  <2>2. CASE UNCHANGED menuItems
    BY <2>1, <2>2, <1>c
  <2>3. ASSUME NEW price \in Prices,
               menuItems' = menuItems \cup {[id |-> menuSeq, price |-> price]}
        PROVE  Ledger!Next
    <3> DEFINE m == [id |-> menuSeq, price |-> price]
    <3>1. \A n \in menuItems : n.id # m.id
      BY <1>a DEF KeysInv, SequencesAhead, TypeOK, MenuTypeOK, MenuRow
    <3>2. Ledger!AddMenuItem(m)
      BY <2>1, <2>3, <3>1, <1>b DEF Ledger!AddMenuItem, Ledger!Fresh, Whole
    <3>3. m \in menuItems'
      BY <2>3
    <3>4. QED BY <3>2, <3>3 DEF Ledger!Next
  <2>4. QED BY <2>1, <2>2, <2>3, <1>a, MenuEffect
<1>3. ASSUME NEW c \in Calls, Commit(c), UNCHANGED <<users, menuItems>>
      PROVE  Ledger!Next
  <2> DEFINE o == [id |-> handler[c].orderId, userId |-> orderCall[c].req.userId,
                   items |-> NewItems(c)]
  <2>1. Whole' = Whole \cup {o} /\ \A w \in Whole : w.id # o.id
    BY <1>3, <1>a, CommitWhole DEF Whole, WholeOrder
  <2>2. CheckedInv(c) /\ handler[c].pc = "commit" /\ orderCall[c].st = "sent"
    BY <1>3, <1>a DEF Commit, At, OrderServing, HandlerInv
  <2>3. \E u \in users : u.id = o.userId
    BY <2>2 DEF CheckedInv, UserKnown
  <2>4. \A i \in o.items : \E m \in menuItems : m.id = i.menuItemId /\ m.price = i.price
    BY <2>2 DEF CheckedInv, PriceKnown, NewItems
  <2>5. placed[c] = {}
    BY <2>2, <1>a DEF PlacedInv
  <2>6. placed' = [placed EXCEPT ![c] = {o.id}]
    BY <1>3, <2>5 DEF Commit
  <2>7. Ledger!PlaceOrder(c, o)
    BY <1>3, <2>1, <2>3, <2>4, <2>5, <2>6 DEF Ledger!PlaceOrder, Ledger!Fresh, Whole
  <2>8. o \in Whole'
    BY <2>1
  <2>9. QED BY <2>7, <2>8 DEF Ledger!Next, Whole
<1>4. CASE OrderStep \/ CancelStep
  <2>1. UNCHANGED <<users, menuItems>>
    BY <1>4 DEF OrderStep, CancelStep, userState, menuState
  <2>2. CASE Quiet
    BY <2>1, <2>2, <1>c DEF Quiet, tables
  <2>3. ASSUME NEW c \in Calls, InsertOrder(c) \/ InsertItems(c)
        PROVE  UNCHANGED Ledger!ledger
    BY <2>1, <2>3, <1>c DEF InsertOrder, InsertItems
  <2>4. QED BY <2>1, <2>2, <2>3, <1>3, <1>4, <1>a, OrderEffect
<1>5. CASE GatewayStep \/ UNCHANGED vars
  BY <1>5, <1>c DEF GatewayStep, userState, menuState, orderState, vars
<1>6. QED BY <1>1, <1>2, <1>4, <1>5 DEF Next

(***************************************************************************)
(* The gateway and the three services, with their three databases, their   *)
(* failures and the two INSERTs of an order, implement CafeLedger: users,  *)
(* menu items and whole orders appear in one step, once per call, with     *)
(* fresh keys, valid references and current prices, and never change.      *)
(***************************************************************************)
THEOREM CafeImplementsLedger == Spec => ImplementsLedger
<1>1. Init => Ledger!Init
  BY LedgerInitial
<1>2. LedgerInv /\ [Next]_vars => [Ledger!Next]_(Ledger!ledger)
  BY LedgerStep
<1>3. QED
  BY <1>1, <1>2, LedgerInvInit, LedgerInvStep, PTL DEF Spec, ImplementsLedger, Ledger!Spec
=============================================================================
