--------------------------- MODULE MonolithProofs ---------------------------
(***************************************************************************)
(* The monolith of practical 5, for any number of calls, requests and rows *)
(* and any failures: MonolithTypeOK, SequenceAhead and OrderAnswers are    *)
(* invariants of Monolith, and its tables implement CafeLedger.            *)
(***************************************************************************)
EXTENDS Monolith, SequenceTheorems, TLAPS

(* What DB.Create leaves behind: the table as it was, or with a new id in it. *)
LEMMA CreateOutcome ==
  ASSUME NEW table, NEW seq, NEW new, NEW taken \in BOOLEAN,
         NEW res \in Create(table, seq, new, taken)
  PROVE  /\ res.row = [new EXCEPT !.id = Key(seq, new.id)]
         /\ res.err \in BOOLEAN
         /\ \/ /\ res.table = table
               /\ res.err
               /\ res.seq \in {seq, Drawn(seq, new.id)}
            \/ /\ res.table = table \cup {res.row}
               /\ res.seq = Drawn(seq, new.id)
               /\ ~taken
               /\ \A t \in table : t.id # res.row.id
<1> DEFINE row    == [new EXCEPT !.id = Key(seq, new.id)]
           next   == Drawn(seq, new.id)
           clash  == taken \/ \E t \in table : t.id = row.id
           stored == table \cup {row}
<1>1. \/ res = Outcome(IF clash THEN table ELSE stored, next, row, clash)
      \/ \E s \in {seq, next} : res = Outcome(table, s, row, TRUE)
      \/ ~clash /\ res = Outcome(stored, next, row, TRUE)
  BY DEF Create
<1>2. clash \in BOOLEAN
  OBVIOUS
<1>3. ~clash => ~taken /\ \A t \in table : t.id # row.id
  OBVIOUS
<1> HIDE DEF row, next, clash, stored
<1>4. CASE res = Outcome(IF clash THEN table ELSE stored, next, row, clash)
  <2>1. CASE clash
    BY <1>4, <2>1 DEF Outcome, row, next
  <2>2. CASE ~clash
    BY <1>4, <1>2, <2>2, <1>3 DEF Outcome, row, next, stored
  <2>3. QED BY <1>2, <2>1, <2>2
<1>5. ASSUME NEW s \in {seq, next}, res = Outcome(table, s, row, TRUE)
      PROVE  res.table = table /\ res.err = TRUE /\ res.seq \in {seq, next} /\ res.row = row
  BY <1>5 DEF Outcome
<1>6. CASE ~clash /\ res = Outcome(stored, next, row, TRUE)
  BY <1>6, <1>3 DEF Outcome, row, next, stored
<1>7. QED BY <1>1, <1>4, <1>5, <1>6 DEF row, next

(* The rows that belong to an order. *)
RowsOf(id) == {i \in orderItems : i.orderId = id}

Answer(status, body) == [Idle EXCEPT !.pc = "reply", !.status = status, !.body = body]

(***************************************************************************)
(* What the goroutine of call c knows.  CreateOrder has found the user and *)
(* copied a price of every item that it has looked up, and has stored      *)
(* nothing before DB.Create.                                               *)
(***************************************************************************)
UserFound(c) == \E u \in users : u.id = http[c].req.userId

LinesInv(c) ==
  /\ Len(handler[c].lines) <= Len(http[c].req.items)
  /\ \A k \in DOMAIN handler[c].lines :
       /\ handler[c].lines[k].menuItemId = http[c].req.items[k].menuItemId
       /\ handler[c].lines[k].quantity = http[c].req.items[k].quantity
       /\ \E m \in menuItems : /\ m.id = handler[c].lines[k].menuItemId
                               /\ m.price = handler[c].lines[k].price

(* The order stored for call c, with the body of its answer. *)
StoredAs(c, body) ==
  \E o \in orders :
    /\ placed[c] = {o.id}
    /\ body = {WholeOrder(o, orderItems)}
    /\ o.userId = http[c].req.userId
    /\ {i.n : i \in RowsOf(o.id)} = DOMAIN http[c].req.items
    /\ \A i \in RowsOf(o.id) : /\ i.menuItemId = http[c].req.items[i.n].menuItemId
                                /\ i.quantity = http[c].req.items[i.n].quantity

RunInv(c) ==
  /\ handler[c].pc # "idle" => http[c].st = "waiting"
  /\ handler[c].pc \in {"query", "item", "insert"} => Decodes(http[c].req)
  /\ handler[c].pc \in {"item", "insert"} => /\ http[c].req.op = "CreateOrder"
                                             /\ UserFound(c)
                                             /\ LinesInv(c)
  /\ handler[c].pc = "item" => Len(handler[c].lines) < Len(http[c].req.items)
  /\ handler[c].pc = "insert" => Len(handler[c].lines) = Len(http[c].req.items)

StoreInv(c) ==
  /\ http[c].st = "new" \/ handler[c].pc \in {"query", "item", "insert"} => placed[c] = {}
  /\ handler[c].pc = "reply" =>
       /\ handler[c].status # 0
       /\ http[c].req.op = "CreateOrder" =>
            /\ handler[c].status = 400 => placed[c] = {}
            /\ handler[c].status = 201 => StoredAs(c, handler[c].body)
  /\ http[c].st = "answered" /\ http[c].req.op = "CreateOrder" =>
       /\ http[c].status = 400 => placed[c] = {}
       /\ http[c].status = 201 => StoredAs(c, http[c].body)

(* Every row of order_items belongs to an order. *)
ItemsOwned == \A i \in orderItems : \E o \in orders : o.id = i.orderId

Inv == /\ MonolithTypeOK
       /\ ItemsOwned
       /\ SequenceAhead
       /\ \A c \in Calls : RunInv(c) /\ StoreInv(c)

-----------------------------------------------------------------------------
(* The types of one call, and of a request that decodes. *)
LEMMA CallTypes ==
  ASSUME MonolithTypeOK, NEW c \in Calls
  PROVE  /\ handler[c] \in Locals
         /\ http[c] \in HttpStates
         /\ http[c].st # "new" => http[c].req \in Requests
         /\ placed[c] \subseteq Nat
         /\ DOMAIN handler = Calls /\ DOMAIN http = Calls /\ DOMAIN placed = Calls
BY DEF MonolithTypeOK, HttpStates

LEMMA RequestTypes ==
  ASSUME NEW r \in Requests, Decodes(r)
  PROVE  /\ r.op = "CreateUser" => r.id \in Nat /\ r.email \in Emails /\ r.deleted \in BOOLEAN
         /\ r.op = "CreateMenuItem" => /\ r.id \in Nat /\ r.price \in Prices
                                       /\ r.deleted \in BOOLEAN
         /\ r.op = "CreateOrder" =>
              /\ r.userId \in Nat
              /\ r.items \in Seq([menuItemId : Int, quantity : Int])
              /\ \A k \in DOMAIN r.items : r.items[k].menuItemId \in Nat
<1>1. r \in HttpRequest
  BY MonolithAssumption
<1>2. CASE r.op = "CreateUser"
  BY <1>1, <1>2 DEF HttpRequest, Decodes, CreateOrderRequest
<1>3. CASE r.op = "CreateMenuItem"
  BY <1>1, <1>3 DEF HttpRequest, Decodes, CreateOrderRequest
<1>4. CASE r.op = "CreateOrder"
  BY <1>1, <1>4 DEF HttpRequest, Decodes, CreateOrderRequest
<1>5. QED BY <1>2, <1>3, <1>4

(* The goroutine of call c goes on with locals h. *)
Moves(c, h) == handler' = [handler EXCEPT ![c] = h]

LEMMA MoveType ==
  ASSUME MonolithTypeOK, NEW c \in Calls, NEW h, Moves(c, h)
  PROVE  /\ h \in Locals => handler' \in [Calls -> Locals]
         /\ handler'[c] = h
         /\ \A d \in Calls : d # c => handler'[d] = handler[d]
BY DEF MonolithTypeOK, Moves

LEMMA AnswerType ==
  ASSUME NEW status \in Statuses, NEW body \in SUBSET Body
  PROVE  /\ Answer(status, body) \in Locals
         /\ Answer(status, body).pc = "reply"
         /\ Answer(status, body).status = status
         /\ Answer(status, body).body = body
BY EmptySeq DEF Answer, Idle, Locals

(* A goroutine that runs has a request that decodes, unless it answers. *)
LEMMA RunningTypes ==
  ASSUME Inv, NEW c \in Calls, handler[c].pc \in {"query", "item", "insert"}
  PROVE  http[c].st = "waiting" /\ http[c].req \in Requests /\ Decodes(http[c].req)
BY CallTypes DEF Inv, RunInv

-----------------------------------------------------------------------------
(* The actions, one by one. *)
NewUser(r) == [id |-> Key(userSeq, r.id), email |-> r.email, deleted |-> r.deleted]

LEMMA UserEffect ==
  ASSUME Inv, NEW c \in Calls, CreateUser(c)
  PROVE  LET u == NewUser(http[c].req) IN
         /\ handler[c].pc = "query" /\ http[c].req.op = "CreateUser"
         /\ UNCHANGED <<menuTable, orderTable, up, http>>
         /\ userSeq' \in {userSeq, userSeq + 1}
         /\ u \in User
         /\ \/ users' = users /\ Moves(c, Answer(500, {}))
            \/ /\ users' = users \cup {u}
               /\ \A v \in users : v.id # u.id /\ v.email # u.email
               /\ http[c].req.id = 0 => u.id = userSeq /\ userSeq' = userSeq + 1
               /\ Moves(c, Answer(500, {})) \/ Moves(c, Answer(201, {u}))
<1> DEFINE r == http[c].req
           u == NewUser(r)
           taken == EmailTaken(r.email)
           new == [id |-> r.id, email |-> r.email, deleted |-> r.deleted]
<1>1. /\ handler[c].pc = "query" /\ r.op = "CreateUser"
      /\ UNCHANGED <<menuTable, orderTable, up, http>>
  BY DEF CreateUser, At
<1>2. PICK res \in Create(users, userSeq, new, taken) :
        /\ users' = res.table
        /\ userSeq' = res.seq
        /\ IF res.err THEN Reply(c, 500, {}) ELSE Reply(c, 201, {res.row})
  BY DEF CreateUser
<1>3. taken \in BOOLEAN
  BY DEF EmailTaken
<1>4. [new EXCEPT !.id = Key(userSeq, new.id)] = u /\ new.id = r.id
  BY DEF NewUser
<1>5. r \in Requests /\ Decodes(r)
  BY <1>1, RunningTypes
<1>6. r.id \in Nat /\ r.email \in Emails /\ r.deleted \in BOOLEAN
  BY <1>1, <1>5, RequestTypes
<1>7. userSeq \in Nat \ {0}
  BY DEF Inv, MonolithTypeOK
<1>8. u \in User
  BY <1>6, <1>7 DEF NewUser, User, Key
<1>9. Drawn(userSeq, r.id) \in {userSeq, userSeq + 1}
  BY DEF Drawn
<1>10. r.id = 0 => u.id = userSeq /\ Drawn(userSeq, r.id) = userSeq + 1
  BY DEF Drawn, NewUser, Key
<1>11. ~taken => \A v \in users : v.email # u.email
  BY DEF EmailTaken, NewUser
<1> HIDE DEF r, taken, new
<1>12. /\ res.row = u
       /\ res.err \in BOOLEAN
       /\ \/ /\ res.table = users
             /\ res.err
             /\ res.seq \in {userSeq, Drawn(userSeq, r.id)}
          \/ /\ res.table = users \cup {u}
             /\ res.seq = Drawn(userSeq, r.id)
             /\ ~taken
             /\ \A t \in users : t.id # u.id
  BY <1>3, <1>4, CreateOutcome
<1> HIDE DEF u
<1>13. /\ res.err => Moves(c, Answer(500, {}))
       /\ ~res.err => Moves(c, Answer(201, {u}))
  BY <1>2, <1>12 DEF Reply, Moves, Answer
<1>14. userSeq' \in {userSeq, userSeq + 1}
  BY <1>2, <1>9, <1>12
<1>15. \/ users' = users /\ Moves(c, Answer(500, {}))
       \/ /\ users' = users \cup {u}
          /\ \A v \in users : v.id # u.id /\ v.email # u.email
          /\ r.id = 0 => u.id = userSeq /\ userSeq' = userSeq + 1
          /\ Moves(c, Answer(500, {})) \/ Moves(c, Answer(201, {u}))
  BY <1>2, <1>10, <1>11, <1>12, <1>13
<1>16. QED BY <1>1, <1>8, <1>14, <1>15 DEF u, r

NewItem(r) == [id |-> Key(menuSeq, r.id), price |-> r.price, deleted |-> r.deleted]

LEMMA MenuEffect ==
  ASSUME Inv, NEW c \in Calls, CreateMenuItem(c)
  PROVE  LET m == NewItem(http[c].req) IN
         /\ handler[c].pc = "query" /\ http[c].req.op = "CreateMenuItem"
         /\ UNCHANGED <<userTable, orderTable, up, http>>
         /\ menuSeq' \in {menuSeq, menuSeq + 1}
         /\ m \in MenuItem
         /\ \/ menuItems' = menuItems /\ Moves(c, Answer(500, {}))
            \/ /\ menuItems' = menuItems \cup {m}
               /\ \A v \in menuItems : v.id # m.id
               /\ http[c].req.id = 0 => m.id = menuSeq /\ menuSeq' = menuSeq + 1
               /\ Moves(c, Answer(500, {})) \/ Moves(c, Answer(201, {m}))
<1> DEFINE r == http[c].req
           m == NewItem(r)
           new == [id |-> r.id, price |-> r.price, deleted |-> r.deleted]
           taken == FALSE
<1>1. /\ handler[c].pc = "query" /\ r.op = "CreateMenuItem"
      /\ UNCHANGED <<userTable, orderTable, up, http>>
  BY DEF CreateMenuItem, At
<1>2. PICK res \in Create(menuItems, menuSeq, new, taken) :
        /\ menuItems' = res.table
        /\ menuSeq' = res.seq
        /\ IF res.err THEN Reply(c, 500, {}) ELSE Reply(c, 201, {res.row})
  BY DEF CreateMenuItem
<1>3. taken \in BOOLEAN
  OBVIOUS
<1>4. [new EXCEPT !.id = Key(menuSeq, new.id)] = m /\ new.id = r.id
  BY DEF NewItem
<1>5. r \in Requests /\ Decodes(r)
  BY <1>1, RunningTypes
<1>6. r.id \in Nat /\ r.price \in Prices /\ r.deleted \in BOOLEAN
  BY <1>1, <1>5, RequestTypes
<1>7. menuSeq \in Nat \ {0}
  BY DEF Inv, MonolithTypeOK
<1>8. m \in MenuItem
  BY <1>6, <1>7 DEF NewItem, MenuItem, Key
<1>9. Drawn(menuSeq, r.id) \in {menuSeq, menuSeq + 1}
  BY DEF Drawn
<1>10. r.id = 0 => m.id = menuSeq /\ Drawn(menuSeq, r.id) = menuSeq + 1
  BY DEF Drawn, NewItem, Key
<1> HIDE DEF r, new, taken
<1>12. /\ res.row = m
       /\ res.err \in BOOLEAN
       /\ \/ /\ res.table = menuItems
             /\ res.err
             /\ res.seq \in {menuSeq, Drawn(menuSeq, r.id)}
          \/ /\ res.table = menuItems \cup {m}
             /\ res.seq = Drawn(menuSeq, r.id)
             /\ \A t \in menuItems : t.id # m.id
  BY <1>3, <1>4, CreateOutcome
<1> HIDE DEF m
<1>13. /\ res.err => Moves(c, Answer(500, {}))
       /\ ~res.err => Moves(c, Answer(201, {m}))
  BY <1>2, <1>12 DEF Reply, Moves, Answer
<1>14. menuSeq' \in {menuSeq, menuSeq + 1}
  BY <1>2, <1>9, <1>12
<1>15. \/ menuItems' = menuItems /\ Moves(c, Answer(500, {}))
       \/ /\ menuItems' = menuItems \cup {m}
          /\ \A v \in menuItems : v.id # m.id
          /\ r.id = 0 => m.id = menuSeq /\ menuSeq' = menuSeq + 1
          /\ Moves(c, Answer(500, {})) \/ Moves(c, Answer(201, {m}))
  BY <1>2, <1>10, <1>12, <1>13
<1>16. QED BY <1>1, <1>8, <1>14, <1>15 DEF m, r

(* The order that DB.Create stores for call c, and the rows of its items. *)
NewOrder(c) == [id |-> orderSeq, userId |-> http[c].req.userId, status |-> "pending"]

NewRows(c) == ItemRows(NewOrder(c), handler[c].lines)

LEMMA StoreEffect ==
  ASSUME Inv, NEW c \in Calls, StoreOrder(c)
  PROVE  /\ handler[c].pc = "insert" /\ http[c].req.op = "CreateOrder"
         /\ UNCHANGED <<userTable, menuTable, up, http>>
         /\ \/ /\ UNCHANGED <<orders, orderItems, placed>>
               /\ orderSeq' \in {orderSeq, orderSeq + 1}
               /\ Moves(c, Answer(500, {}))
            \/ /\ orders' = orders \cup {NewOrder(c)}
               /\ \A o \in orders : o.id # orderSeq
               /\ orderSeq' = orderSeq + 1
               /\ orderItems' = orderItems \cup NewRows(c)
               /\ placed' = [placed EXCEPT ![c] = @ \cup {orderSeq}]
               /\ \/ Moves(c, Answer(500, {}))
                  \/ Moves(c, Answer(201, {WholeOrder(NewOrder(c), NewRows(c))}))
<1> DEFINE o == NewOrder(c)
           new == [id |-> 0, userId |-> http[c].req.userId, status |-> "pending"]
           taken == FALSE
<1>0. taken \in BOOLEAN
  OBVIOUS
<1>1. /\ handler[c].pc = "insert" /\ http[c].req.op = "CreateOrder"
      /\ UNCHANGED <<userTable, menuTable, up, http>>
  BY DEF StoreOrder, At
<1>2. PICK res \in Create(orders, orderSeq, new, taken) :
        /\ orders' = res.table
        /\ orderSeq' = res.seq
        /\ IF res.table = orders
             THEN UNCHANGED <<orderItems, placed>>
             ELSE /\ orderItems' = orderItems \cup ItemRows(res.row, handler[c].lines)
                  /\ placed' = [placed EXCEPT ![c] = @ \cup {res.row.id}]
        /\ IF res.err THEN Reply(c, 500, {})
             ELSE Reply(c, 201, {WholeOrder(res.row, ItemRows(res.row, handler[c].lines))})
  BY DEF StoreOrder
<1>3. [new EXCEPT !.id = Key(orderSeq, new.id)] = o /\ Drawn(orderSeq, new.id) = orderSeq + 1
  BY DEF NewOrder, Key, Drawn
<1>4. o.id = orderSeq
  BY DEF NewOrder
<1> HIDE DEF new, taken
<1>5. /\ res.row = o
      /\ res.err \in BOOLEAN
      /\ \/ /\ res.table = orders
            /\ res.err
            /\ res.seq \in {orderSeq, orderSeq + 1}
         \/ /\ res.table = orders \cup {o}
            /\ res.seq = orderSeq + 1
            /\ \A t \in orders : t.id # o.id
  BY <1>0, <1>3, CreateOutcome
<1> HIDE DEF o
<1>6. /\ res.err => Moves(c, Answer(500, {}))
      /\ ~res.err => Moves(c, Answer(201, {WholeOrder(o, ItemRows(o, handler[c].lines))}))
  BY <1>2, <1>5 DEF Reply, Moves, Answer
<1>7. CASE res.table = orders /\ res.err /\ res.seq \in {orderSeq, orderSeq + 1}
  BY <1>1, <1>2, <1>6, <1>7
<1>8. CASE /\ res.table = orders \cup {o}
           /\ res.seq = orderSeq + 1
           /\ \A t \in orders : t.id # o.id
  <2>1. res.table # orders
    BY <1>8
  <2>2. /\ orderItems' = orderItems \cup ItemRows(o, handler[c].lines)
        /\ placed' = [placed EXCEPT ![c] = @ \cup {orderSeq}]
    BY <1>2, <1>4, <1>5, <2>1
  <2>3. QED BY <1>1, <1>2, <1>4, <1>5, <1>6, <1>8, <2>2 DEF o, NewRows
<1>9. QED BY <1>5, <1>7, <1>8

(* The loop of CreateOrder, after the lines that it has built. *)
Loop(c, lines) ==
  [Idle EXCEPT !.lines = lines,
               !.pc = IF Len(lines) < Len(http[c].req.items) THEN "item" ELSE "insert"]

LineFor(c, m) == [menuItemId |-> Current(c).menuItemId, quantity |-> Current(c).quantity,
                  price |-> m.price]

tables == <<userTable, menuTable, orderTable>>

LEMMA LookupEffect ==
  ASSUME NEW c \in Calls, CreateOrder(c)
  PROVE  /\ handler[c].pc = "query" /\ http[c].req.op = "CreateOrder"
         /\ UNCHANGED <<tables, up, http>>
         /\ \/ Moves(c, Answer(400, {}))
            \/ UserFound(c) /\ Moves(c, Loop(c, <<>>))
<1>1. PICK user \in First(users, http[c].req.userId) :
        IF user = {} THEN Reply(c, 400, {}) ELSE NextItem(c, <<>>)
  BY DEF CreateOrder
<1>2. user # {} => UserFound(c)
  BY DEF First, Live, UserFound
<1>3. QED
  BY <1>1, <1>2
  DEF CreateOrder, At, Reply, NextItem, Moves, Answer, Loop, tables

LEMMA ItemEffect ==
  ASSUME NEW c \in Calls, MenuItemFound(c)
  PROVE  /\ handler[c].pc = "item" /\ http[c].req.op = "CreateOrder"
         /\ UNCHANGED <<tables, up, http>>
         /\ \/ Moves(c, Answer(400, {}))
            \/ \E m \in menuItems :
                 /\ m.id = Current(c).menuItemId
                 /\ Moves(c, Loop(c, Append(handler[c].lines, LineFor(c, m))))
<1>1. PICK found \in First(menuItems, Current(c).menuItemId) :
        IF found = {} THEN Reply(c, 400, {})
        ELSE \E m \in found :
               NextItem(c, Append(handler[c].lines, LineFor(c, m)))
  BY DEF MenuItemFound, LineFor
<1>2. \A m \in found : m \in menuItems /\ m.id = Current(c).menuItemId
  BY DEF First, Live
<1>3. /\ handler[c].pc = "item" /\ http[c].req.op = "CreateOrder"
      /\ UNCHANGED <<tables, up, http>>
  BY DEF MenuItemFound, At, tables
<1>4. CASE found = {}
  BY <1>1, <1>3, <1>4 DEF Reply, Moves, Answer
<1>5. CASE found # {}
  <2>1. PICK m \in found : NextItem(c, Append(handler[c].lines, LineFor(c, m)))
    BY <1>1, <1>5
  <2>2. Moves(c, Loop(c, Append(handler[c].lines, LineFor(c, m))))
    BY <2>1 DEF NextItem, Moves, Loop
  <2>3. QED BY <1>2, <1>3, <2>2
<1>6. QED BY <1>4, <1>5

(* The other requests only read. *)
Reading(c) == GetUser(c) \/ GetMenu(c) \/ GetOrders(c) \/ Preload(c)

GoesOn(c) == \E h \in Locals : /\ h.pc \in {"reply", "preload"}
                               /\ h.pc = "reply" => h.status # 0
                               /\ Moves(c, h)

LEMMA ReadEffect ==
  ASSUME Inv, NEW c \in Calls, Reading(c)
  PROVE  /\ handler[c].pc \in {"query", "preload"}
         /\ http[c].req.op \in {"GetUser", "GetMenu", "GetOrders"}
         /\ UNCHANGED <<tables, up, http>>
         /\ GoesOn(c)
<1>a. /\ users \subseteq User /\ menuItems \subseteq MenuItem /\ orders \subseteq Order
      /\ orderItems \subseteq OrderItem /\ handler[c] \in Locals
  BY CallTypes DEF Inv, MonolithTypeOK
<1>b. ASSUME NEW status \in Statuses, NEW body \in SUBSET Body, Reply(c, status, body)
      PROVE  GoesOn(c)
  <2>1. status # 0
    BY DEF Statuses
  <2>2. Moves(c, Answer(status, body))
    BY <1>b DEF Reply, Moves, Answer
  <2>3. QED BY <2>1, <2>2, AnswerType DEF GoesOn
<1>c. {} \in SUBSET Body /\ 200 \in Statuses /\ 404 \in Statuses /\ 500 \in Statuses
  BY DEF Statuses
<1>0. /\ handler[c].pc \in {"query", "preload"}
      /\ http[c].req.op \in {"GetUser", "GetMenu", "GetOrders"}
  BY DEF Reading, GetUser, GetMenu, GetOrders, Preload, At
<1>d. UNCHANGED <<tables, up, http>>
  BY DEF Reading, GetUser, GetMenu, GetOrders, Preload, tables
<1>1. CASE GetUser(c)
  <2>1. PICK found \in FirstByParam(users, http[c].req.id) :
          IF found = {} THEN Reply(c, 404, {}) ELSE Reply(c, 200, found)
    BY <1>1 DEF GetUser
  <2>2. found \in SUBSET Body
    BY <1>a DEF FirstByParam, First, Live, Body
  <2>3. GoesOn(c)
    BY <1>b, <1>c, <2>1, <2>2
  <2>4. QED BY <1>0, <1>d, <2>3
<1>2. CASE GetMenu(c)
  <2>1. Live(menuItems) \in SUBSET Body
    BY <1>a DEF Body, Live
  <2>2. Reply(c, 500, {}) \/ Reply(c, 200, Live(menuItems))
    BY <1>2 DEF GetMenu
  <2>3. GoesOn(c)
    BY <1>b, <1>c, <2>1, <2>2
  <2>4. QED BY <1>0, <1>d, <2>3
<1>3. CASE GetOrders(c)
  <2>1. CASE Reply(c, 500, {})
    <3>1. GoesOn(c)
      BY <1>b, <1>c, <2>1
    <3>2. QED BY <1>0, <1>d, <3>1
  <2>2. CASE handler' = [handler EXCEPT ![c].pc = "preload", ![c].rows = orders]
    <3> DEFINE h == [handler[c] EXCEPT !.pc = "preload", !.rows = orders]
    <3>1. h \in Locals /\ h.pc = "preload"
      BY <1>a DEF Locals
    <3>2. Moves(c, h)
      BY <2>2, CallTypes DEF Moves, Inv
    <3>3. QED BY <1>0, <1>d, <3>1, <3>2 DEF GoesOn
  <2>3. QED BY <1>3, <2>1, <2>2 DEF GetOrders
<1>4. CASE Preload(c)
  <2> DEFINE whole == {WholeOrder(o, orderItems) : o \in handler[c].rows}
  <2>1. whole \in SUBSET Body
    BY <1>a DEF WholeOrder, Body, Order, Locals
  <2>2. Reply(c, 500, {}) \/ Reply(c, 200, whole)
    BY <1>4 DEF Preload
  <2> HIDE DEF whole
  <2>3. GoesOn(c)
    BY <1>b, <1>c, <2>1, <2>2
  <2>4. QED BY <1>0, <1>d, <2>3
<1>5. QED BY <1>1, <1>2, <1>3, <1>4 DEF Reading

-----------------------------------------------------------------------------
(* The types of what an order brings along. *)
LEMMA LoopType ==
  ASSUME NEW c \in Calls, NEW lines \in Seq(Line)
  PROVE  /\ Loop(c, lines) \in Locals
         /\ Loop(c, lines).lines = lines
         /\ Loop(c, lines).pc = "item" => Len(lines) < Len(http[c].req.items)
         /\ Loop(c, lines).pc = "insert" => ~(Len(lines) < Len(http[c].req.items))
         /\ Loop(c, lines).pc \in {"item", "insert"}
BY DEF Loop, Idle, Locals

LEMMA CurrentItem ==
  ASSUME Inv, NEW c \in Calls, handler[c].pc = "item"
  PROVE  /\ Len(handler[c].lines) \in Nat
         /\ Len(handler[c].lines) + 1 \in DOMAIN http[c].req.items
         /\ Len(handler[c].lines) < Len(http[c].req.items)
         /\ http[c].req.items \in Seq([menuItemId : Int, quantity : Int])
         /\ \A m \in menuItems : LineFor(c, m) \in Line
<1>1. handler[c].lines \in Seq(Line) /\ menuItems \subseteq MenuItem
  BY CallTypes DEF Inv, Locals, MonolithTypeOK
<1>2. /\ http[c].req.op = "CreateOrder" /\ http[c].req \in Requests
      /\ Decodes(http[c].req) /\ Len(handler[c].lines) < Len(http[c].req.items)
  <2>1. RunInv(c)
    BY DEF Inv
  <2>2. QED BY <2>1, RunningTypes DEF RunInv
<1>3. /\ http[c].req.items \in Seq([menuItemId : Int, quantity : Int])
      /\ \A k \in DOMAIN http[c].req.items : http[c].req.items[k].menuItemId \in Nat
  BY <1>2, RequestTypes
<1>4. Len(handler[c].lines) \in Nat /\ Len(handler[c].lines) + 1 \in DOMAIN http[c].req.items
  BY <1>1, <1>2, <1>3
<1>5. Current(c).menuItemId \in Nat /\ Current(c).quantity \in Int
  <2>1. Current(c) \in [menuItemId : Int, quantity : Int]
    <3> DEFINE items == http[c].req.items
               k == Len(handler[c].lines) + 1
               S == [menuItemId : Int, quantity : Int]
    <3>1. items \in Seq(S) /\ k \in DOMAIN items
      BY <1>3, <1>4
    <3> HIDE DEF items, k, S
    <3>2. items[k] \in S
      BY <3>1
    <3>3. QED BY <3>2 DEF items, k, S, Current
  <2>2. Current(c).menuItemId \in Nat
    BY <1>3, <1>4 DEF Current
  <2>3. QED BY <2>1, <2>2
<1>6. QED BY <1>1, <1>2, <1>3, <1>4, <1>5 DEF LineFor, Line, MenuItem

LEMMA NewOrderType ==
  ASSUME Inv, NEW c \in Calls, handler[c].pc = "insert"
  PROVE  /\ NewOrder(c) \in Order
         /\ NewRows(c) \subseteq OrderItem
         /\ {WholeOrder(NewOrder(c), NewRows(c))} \in SUBSET Body
<1>1. handler[c].lines \in Seq(Line) /\ orderSeq \in Nat
  BY CallTypes DEF Inv, Locals, MonolithTypeOK
<1>2. http[c].req.userId \in Nat
  BY RunningTypes, RequestTypes DEF Inv, RunInv
<1>3. NewOrder(c) \in Order /\ NewOrder(c).id = orderSeq
  BY <1>1, <1>2 DEF NewOrder, Order
<1>4. NewRows(c) \subseteq OrderItem
  <2>1. \A k \in DOMAIN handler[c].lines : k \in Nat /\ handler[c].lines[k] \in Line
    BY <1>1
  <2>2. QED BY <1>1, <1>3, <2>1 DEF NewRows, ItemRows, OrderItem, Line
<1>5. QED BY <1>3, <1>4 DEF WholeOrder, Body, Order

-----------------------------------------------------------------------------
(* What a step does to call d: its own goroutine, a crash, or nothing. *)
Same(d) == http'[d] = http[d] /\ handler'[d] = handler[d] /\ placed'[d] = placed[d]

Cut(d) == /\ handler'[d] = Idle
          /\ placed'[d] = placed[d]
          /\ http'[d] = IF http[d].st = "waiting" THEN [st |-> "lost", req |-> http[d].req]
                                                  ELSE http[d]

Received(c) == \E r \in Requests : Receive(c, r)

LEMMA OneGoroutine ==
  ASSUME Inv, NEW c \in Calls, Serve(c) \/ Received(c)
  PROVE  \A d \in Calls : d # c => Same(d)
<1>t. MonolithTypeOK /\ DOMAIN handler = Calls /\ DOMAIN http = Calls /\ DOMAIN placed = Calls
  BY CallTypes DEF Inv
<1>h. ASSUME NEW h, Moves(c, h), http' = http, placed' = placed
      PROVE  \A d \in Calls : d # c => Same(d)
  BY <1>h, <1>t, MoveType DEF Same
<1>1. CASE CreateUser(c)
  BY <1>1, <1>h, UserEffect DEF orderTable
<1>2. CASE CreateMenuItem(c)
  BY <1>2, <1>h, MenuEffect DEF orderTable
<1>3. CASE StoreOrder(c)
  <2>1. http' = http /\ \A d \in Calls : d # c => placed'[d] = placed[d]
    BY <1>3, <1>t, StoreEffect
  <2>2. \A d \in Calls : d # c => handler'[d] = handler[d]
    BY <1>3, <1>t, StoreEffect, MoveType
  <2>3. QED BY <2>1, <2>2 DEF Same
<1>4. CASE CreateOrder(c)
  BY <1>4, <1>h, LookupEffect DEF tables, orderTable
<1>5. CASE MenuItemFound(c)
  <2>1. http' = http /\ placed' = placed
    BY <1>5, ItemEffect DEF tables, orderTable
  <2>2. \E h : Moves(c, h)
    BY <1>5, ItemEffect
  <2>3. QED BY <1>h, <2>1, <2>2
<1>6. CASE Reading(c)
  <2>1. http' = http /\ placed' = placed
    BY <1>6, ReadEffect DEF tables, orderTable
  <2>2. PICK h \in Locals : Moves(c, h)
    <3>1. GoesOn(c)
      BY <1>6, ReadEffect
    <3>2. QED BY <3>1 DEF GoesOn
  <2>3. QED BY <1>h, <2>1, <2>2
<1>7. CASE Respond(c)
  BY <1>7, <1>t DEF Respond, Same, orderTable
<1>8. CASE Received(c)
  BY <1>8, <1>t DEF Received, Receive, Same, orderTable
<1>9. QED
  BY <1>1, <1>2, <1>3, <1>4, <1>5, <1>6, <1>7, <1>8 DEF Serve, Reading

LEMMA CallStep ==
  ASSUME Inv, [Next]_vars, NEW d \in Calls
  PROVE  Same(d) \/ Received(d) \/ Serve(d) \/ Cut(d)
<1>1. CASE UNCHANGED vars
  BY <1>1 DEF vars, Same
<1>2. ASSUME NEW c \in Calls, Serve(c) \/ Received(c)
      PROVE  Same(d) \/ Received(d) \/ Serve(d)
  <2>1. CASE c = d
    BY <1>2, <2>1, Zenon
  <2>2. CASE c # d
    BY <1>2, <2>2, OneGoroutine
  <2>3. QED BY <2>1, <2>2
<1>3. CASE Start
  BY <1>3 DEF Start, Same, orderTable
<1>4. CASE Crash
  BY <1>4 DEF Crash, Cut, orderTable
<1>5. QED
  BY <1>1, <1>2, <1>3, <1>4 DEF Next, Received

(* Serve(c), but for the three statements that write to the tables. *)
Writing(c) == CreateUser(c) \/ CreateMenuItem(c) \/ StoreOrder(c)

LEMMA TableCases ==
  ASSUME Inv, [Next]_vars
  PROVE  UNCHANGED tables \/ \E c \in Calls : Writing(c)
<1>1. ASSUME NEW c \in Calls, Serve(c) PROVE UNCHANGED tables \/ Writing(c)
  <2>1. CASE CreateOrder(c)
    BY <2>1, LookupEffect
  <2>2. CASE MenuItemFound(c)
    BY <2>2, ItemEffect
  <2>3. CASE Reading(c)
    BY <2>3, ReadEffect
  <2>4. CASE Respond(c)
    BY <2>4 DEF Respond, tables
  <2>5. QED BY <1>1, <2>1, <2>2, <2>3, <2>4 DEF Serve, Reading, Writing
<1>2. QED
  BY <1>1
  DEF Next, Receive, Start, Crash, tables, vars, userTable, menuTable, orderTable

(* Rows are added and never change; nor do the items of a stored order. *)
LEMMA TablesStep ==
  ASSUME Inv, [Next]_vars
  PROVE  /\ users \subseteq users' /\ menuItems \subseteq menuItems' /\ orders \subseteq orders'
         /\ \A o \in orders : RowsOf(o.id)' = RowsOf(o.id)
<1>1. CASE UNCHANGED tables
  BY <1>1 DEF tables, userTable, menuTable, orderTable, RowsOf
<1>2. ASSUME NEW c \in Calls, CreateUser(c)
      PROVE  /\ users \subseteq users' /\ menuItems' = menuItems
             /\ orders' = orders /\ orderItems' = orderItems
  BY <1>2, UserEffect DEF menuTable, orderTable
<1>3. ASSUME NEW c \in Calls, CreateMenuItem(c)
      PROVE  /\ menuItems \subseteq menuItems' /\ users' = users
             /\ orders' = orders /\ orderItems' = orderItems
  BY <1>3, MenuEffect DEF userTable, orderTable
<1>4. ASSUME NEW c \in Calls, StoreOrder(c)
      PROVE  /\ users' = users /\ menuItems' = menuItems /\ orders \subseteq orders'
             /\ \A o \in orders : RowsOf(o.id)' = RowsOf(o.id)
  <2>1. users' = users /\ menuItems' = menuItems
    BY <1>4, StoreEffect DEF userTable, menuTable
  <2>2. \A i \in NewRows(c) : i.orderId = orderSeq
    BY DEF NewRows, ItemRows, NewOrder
  <2>3. CASE UNCHANGED <<orders, orderItems, placed>>
    BY <2>1, <2>3 DEF RowsOf
  <2>4. CASE /\ orders' = orders \cup {NewOrder(c)} /\ \A o \in orders : o.id # orderSeq
             /\ orderItems' = orderItems \cup NewRows(c)
    <3>1. ASSUME NEW o \in orders PROVE RowsOf(o.id)' = RowsOf(o.id)
      BY <2>2, <2>4 DEF RowsOf
    <3>2. QED BY <2>1, <2>4, <3>1
  <2>5. QED BY <1>4, <2>3, <2>4, StoreEffect
<1>5. QED
  BY <1>1, <1>2, <1>3, <1>4, TableCases DEF Writing, RowsOf

(* A call that has begun keeps its request. *)
LEMMA RequestKept ==
  ASSUME Inv, [Next]_vars, NEW d \in Calls, http[d].st # "new"
  PROVE  http'[d].st # "new" /\ http'[d].req = http[d].req
<1>a. DOMAIN http = Calls
  BY CallTypes DEF Inv
<1>1. CASE Respond(d)
  BY <1>1, <1>a DEF Respond
<1>2. CASE Serve(d) /\ ~Respond(d)
  BY <1>2 DEF Serve, CreateUser, GetUser, CreateMenuItem, GetMenu, CreateOrder,
              MenuItemFound, StoreOrder, GetOrders, Preload
<1>3. CASE Same(d) \/ Cut(d)
  BY <1>3 DEF Same, Cut
<1>4. CASE Received(d)
  BY <1>4 DEF Received, Receive
<1>5. QED BY <1>1, <1>2, <1>3, <1>4, CallStep

-----------------------------------------------------------------------------
LEMMA TableTypes ==
  ASSUME Inv, [Next]_vars
  PROVE  /\ users' \subseteq User /\ menuItems' \subseteq MenuItem
         /\ orders' \subseteq Order /\ orderItems' \subseteq OrderItem
         /\ userSeq' \in Nat \ {0} /\ menuSeq' \in Nat \ {0} /\ orderSeq' \in Nat \ {0}
         /\ placed' \in [Calls -> SUBSET Nat]
<1>t. MonolithTypeOK
  BY DEF Inv
<1>1. CASE UNCHANGED tables
  BY <1>1, <1>t DEF tables, userTable, menuTable, orderTable, MonolithTypeOK
<1>2. ASSUME NEW c \in Calls, CreateUser(c)
      PROVE  users' \subseteq User /\ userSeq' \in Nat \ {0} /\ UNCHANGED <<menuTable, orderTable>>
  <2>1. users \subseteq User /\ userSeq \in Nat \ {0}
    BY <1>t DEF MonolithTypeOK
  <2>2. NewUser(http[c].req) \in User /\ userSeq' \in {userSeq, userSeq + 1} /\ UNCHANGED <<menuTable, orderTable>>
    BY <1>2, UserEffect
  <2>3. users' = users \/ users' = users \cup {NewUser(http[c].req)}
    BY <1>2, UserEffect
  <2>4. QED BY <2>1, <2>2, <2>3
<1>3. ASSUME NEW c \in Calls, CreateMenuItem(c)
      PROVE  menuItems' \subseteq MenuItem /\ menuSeq' \in Nat \ {0}
               /\ UNCHANGED <<userTable, orderTable>>
  <2>1. menuItems \subseteq MenuItem /\ menuSeq \in Nat \ {0}
    BY <1>t DEF MonolithTypeOK
  <2>2. NewItem(http[c].req) \in MenuItem /\ menuSeq' \in {menuSeq, menuSeq + 1} /\ UNCHANGED <<userTable, orderTable>>
    BY <1>3, MenuEffect
  <2>3. menuItems' = menuItems \/ menuItems' = menuItems \cup {NewItem(http[c].req)}
    BY <1>3, MenuEffect
  <2>4. QED BY <2>1, <2>2, <2>3
<1>4. ASSUME NEW c \in Calls, StoreOrder(c)
      PROVE  /\ orders' \subseteq Order /\ orderItems' \subseteq OrderItem
             /\ orderSeq' \in Nat \ {0}
             /\ placed' \in [Calls -> SUBSET Nat]
             /\ UNCHANGED <<userTable, menuTable>>
  <2>1. NewOrder(c) \in Order /\ NewRows(c) \subseteq OrderItem
    BY <1>4, StoreEffect, NewOrderType
  <2>2. /\ orders \subseteq Order /\ orderItems \subseteq OrderItem /\ orderSeq \in Nat \ {0}
        /\ placed \in [Calls -> SUBSET Nat]
    BY <1>t DEF MonolithTypeOK
  <2>3. /\ orders' = orders \/ orders' = orders \cup {NewOrder(c)}
        /\ orderItems' = orderItems \/ orderItems' = orderItems \cup NewRows(c)
        /\ orderSeq' \in {orderSeq, orderSeq + 1}
        /\ placed' = placed \/ placed' = [placed EXCEPT ![c] = @ \cup {orderSeq}]
        /\ UNCHANGED <<userTable, menuTable>>
    BY <1>4, StoreEffect
  <2>4. QED BY <2>1, <2>2, <2>3
<1>5. QED
  BY <1>1, <1>2, <1>3, <1>4, <1>t, TableCases
  DEF Writing, userTable, menuTable, orderTable, MonolithTypeOK

LEMMA HandlerTypes ==
  ASSUME Inv, NEW c \in Calls, Serve(c)
  PROVE  handler' \in [Calls -> Locals]
<1>t. MonolithTypeOK
  BY DEF Inv
<1>h. ASSUME NEW h \in Locals, Moves(c, h) PROVE handler' \in [Calls -> Locals]
  BY <1>h, <1>t, MoveType
<1>e. {} \in SUBSET Body /\ 400 \in Statuses /\ 500 \in Statuses /\ 201 \in Statuses
  BY DEF Statuses
<1>f. Answer(400, {}) \in Locals /\ Answer(500, {}) \in Locals
  BY <1>e, AnswerType
<1>1. CASE CreateUser(c)
  <2>1. {NewUser(http[c].req)} \in SUBSET Body
    BY <1>1, UserEffect DEF Body
  <2>2. Answer(201, {NewUser(http[c].req)}) \in Locals
    BY <1>e, <2>1, AnswerType
  <2>3. QED BY <1>1, <1>f, <1>h, <2>2, UserEffect
<1>2. CASE CreateMenuItem(c)
  <2>1. {NewItem(http[c].req)} \in SUBSET Body
    BY <1>2, MenuEffect DEF Body
  <2>2. Answer(201, {NewItem(http[c].req)}) \in Locals
    BY <1>e, <2>1, AnswerType
  <2>3. QED BY <1>2, <1>f, <1>h, <2>2, MenuEffect
<1>3. CASE StoreOrder(c)
  <2>1. {WholeOrder(NewOrder(c), NewRows(c))} \in SUBSET Body
    BY <1>3, StoreEffect, NewOrderType
  <2>2. Answer(201, {WholeOrder(NewOrder(c), NewRows(c))}) \in Locals
    BY <1>e, <2>1, AnswerType
  <2>3. QED BY <1>3, <1>f, <1>h, <2>2, StoreEffect
<1>4. CASE CreateOrder(c)
  BY <1>4, <1>f, <1>h, LookupEffect, LoopType, EmptySeq
<1>5. CASE MenuItemFound(c)
  <2>1. handler[c].lines \in Seq(Line) /\ \A m \in menuItems : LineFor(c, m) \in Line
    BY <1>5, <1>t, ItemEffect, CurrentItem, CallTypes DEF Locals
  <2>2. \A m \in menuItems : Loop(c, Append(handler[c].lines, LineFor(c, m))) \in Locals
    BY <2>1, LoopType, AppendProperties
  <2>3. QED BY <1>5, <1>f, <1>h, <2>2, ItemEffect
<1>6. CASE Reading(c)
  <2>1. GoesOn(c)
    BY <1>6, ReadEffect
  <2>2. QED BY <1>h, <2>1 DEF GoesOn
<1>7. CASE Respond(c)
  BY <1>7, <1>t, EmptySeq DEF Respond, MonolithTypeOK, Idle, Locals
<1>8. QED
  BY <1>1, <1>2, <1>3, <1>4, <1>5, <1>6, <1>7 DEF Serve, Reading

LEMMA TypeStep ==
  ASSUME Inv, [Next]_vars
  PROVE  MonolithTypeOK'
<1>t. MonolithTypeOK
  BY DEF Inv
<1>h. http \in [Calls -> HttpStates] /\ handler \in [Calls -> Locals] /\ up \in BOOLEAN
  BY <1>t DEF MonolithTypeOK
<1>i. Idle \in Locals
  BY EmptySeq DEF Idle, Locals
<1>1. http' \in [Calls -> HttpStates] /\ handler' \in [Calls -> Locals] /\ up' \in BOOLEAN
  <2>1. ASSUME NEW c \in Calls, NEW r \in Requests, Receive(c, r)
        PROVE  http' \in [Calls -> HttpStates] /\ handler' \in [Calls -> Locals] /\ up' = up
    <3>1. [st |-> "waiting", req |-> r] \in HttpStates
      BY DEF HttpStates
    <3>2. /\ [Idle EXCEPT !.pc = "query"] \in Locals
          /\ [Idle EXCEPT !.pc = "reply", !.status = 400] \in Locals
      <4>1. 400 \in Statuses \cup {0}
        BY DEF Statuses
      <4>2. [Idle EXCEPT !.pc = "reply", !.status = 400] \in Locals
        BY <4>1, EmptySeq DEF Idle, Locals
      <4>3. [Idle EXCEPT !.pc = "query"] \in Locals
        BY EmptySeq DEF Idle, Locals
      <4>4. QED BY <4>2, <4>3
    <3>3. QED BY <2>1, <1>h, <3>1, <3>2 DEF Receive
  <2>2. ASSUME NEW c \in Calls, Serve(c)
        PROVE  http' \in [Calls -> HttpStates] /\ handler' \in [Calls -> Locals] /\ up' = up
    <3>1. CASE Respond(c)
      <4>1. /\ http[c].req \in Requests /\ handler[c].status \in Statuses
            /\ handler[c].body \in SUBSET Body
        <5>1. handler[c].pc = "reply" /\ RunInv(c) /\ StoreInv(c)
          BY <3>1 DEF Respond, Inv
        <5>2. http[c].st = "waiting" /\ handler[c].status # 0
          BY <5>1 DEF RunInv, StoreInv
        <5>3. handler[c] \in Locals /\ http[c].req \in Requests
          BY <1>t, <5>2, CallTypes
        <5>4. QED BY <5>2, <5>3 DEF Locals
      <4>2. [st |-> "answered", req |-> http[c].req, status |-> handler[c].status,
             body |-> handler[c].body] \in HttpStates
        BY <4>1 DEF HttpStates
      <4>3. QED BY <3>1, <1>h, <1>i, <4>2 DEF Respond
    <3>2. CASE ~Respond(c)
      <4>1. http' = http /\ up' = up
        BY <2>2, <3>2 DEF Serve, CreateUser, GetUser, CreateMenuItem, GetMenu, CreateOrder,
                          MenuItemFound, StoreOrder, GetOrders, Preload
      <4>2. QED BY <2>2, <1>h, <4>1, HandlerTypes
    <3>3. QED BY <3>1, <3>2
  <2>3. CASE Start
    BY <2>3, <1>h DEF Start
  <2>4. CASE Crash
    <3>1. ASSUME NEW d \in Calls, http[d].st = "waiting"
          PROVE  [st |-> "lost", req |-> http[d].req] \in HttpStates
      BY <3>1, <1>t, CallTypes DEF HttpStates
    <3>2. QED BY <2>4, <1>h, <1>i, <3>1 DEF Crash
  <2>5. CASE UNCHANGED vars
    BY <2>5, <1>h DEF vars
  <2>6. QED BY <1>h, <2>1, <2>2, <2>3, <2>4, <2>5 DEF Next
<1>2. QED BY <1>1, TableTypes DEF MonolithTypeOK

LEMMA OwnedStep ==
  ASSUME Inv, [Next]_vars
  PROVE  ItemsOwned'
<1>1. orders \subseteq orders' /\ ItemsOwned
  BY TablesStep DEF Inv
<1>2. ASSUME NEW c \in Calls, StoreOrder(c) PROVE ItemsOwned'
  <2>1. \A i \in NewRows(c) : i.orderId = NewOrder(c).id
    BY DEF NewRows, ItemRows
  <2>2. \/ orderItems' = orderItems
        \/ orders' = orders \cup {NewOrder(c)} /\ orderItems' = orderItems \cup NewRows(c)
    BY <1>2, StoreEffect
  <2>3. QED BY <1>1, <2>1, <2>2 DEF ItemsOwned
<1>3. ASSUME NEW c \in Calls, CreateUser(c) \/ CreateMenuItem(c) PROVE orderItems' = orderItems
  BY <1>3, UserEffect, MenuEffect DEF orderTable
<1>4. CASE UNCHANGED tables
  BY <1>1, <1>4 DEF tables, orderTable, ItemsOwned
<1>5. CASE orderItems' = orderItems
  BY <1>1, <1>5 DEF ItemsOwned
<1>6. QED BY <1>2, <1>3, <1>4, <1>5, TableCases DEF Writing

(***************************************************************************)
(* While no body has named an id, every id was drawn from the sequence,    *)
(* and even a failed insert only moves the sequence on.                    *)
(***************************************************************************)
LEMMA SequenceStep ==
  ASSUME Inv, [Next]_vars
  PROVE  SequenceAhead'
<1>t. /\ users \subseteq User /\ menuItems \subseteq MenuItem /\ orders \subseteq Order
      /\ userSeq \in Nat /\ menuSeq \in Nat /\ orderSeq \in Nat
  BY DEF Inv, MonolithTypeOK
<1>g. \A op : (\A c \in Calls : ~GivesId(c, op)') => \A c \in Calls : ~GivesId(c, op)
  <2> SUFFICES ASSUME NEW op, NEW c \in Calls, GivesId(c, op) PROVE GivesId(c, op)'
    OBVIOUS
  <2>1. http'[c].st # "new" /\ http'[c].req = http[c].req
    BY RequestKept DEF GivesId
  <2>2. QED BY <2>1 DEF GivesId
<1>s. /\ (\A c \in Calls : ~GivesId(c, "CreateUser")) => \A u \in users : u.id < userSeq
      /\ (\A c \in Calls : ~GivesId(c, "CreateMenuItem")) => \A m \in menuItems : m.id < menuSeq
      /\ \A o \in orders : o.id < orderSeq
  BY DEF Inv, SequenceAhead
<1>1. ASSUME \A c \in Calls : ~GivesId(c, "CreateUser"), NEW d \in Calls, CreateUser(d)
      PROVE  \A u \in users' : u.id < userSeq'
  <2>1. http[d].st = "waiting" /\ http[d].req.op = "CreateUser"
    BY <1>1, UserEffect, RunningTypes
  <2>2. http[d].req.id = 0
    BY <1>1, <2>1 DEF GivesId
  <2>3. \A u \in users : u.id < userSeq /\ u.id \in Nat
    BY <1>1, <1>s, <1>t DEF User
  <2>4. userSeq' \in {userSeq, userSeq + 1}
    BY <1>1, UserEffect
  <2>5. CASE users' = users
    BY <1>t, <2>3, <2>4, <2>5
  <2>6. CASE /\ users' = users \cup {NewUser(http[d].req)}
             /\ NewUser(http[d].req).id = userSeq /\ userSeq' = userSeq + 1
    BY <1>t, <2>3, <2>6
  <2>7. QED BY <1>1, <2>2, <2>5, <2>6, UserEffect
<1>2. ASSUME \A c \in Calls : ~GivesId(c, "CreateMenuItem"), NEW d \in Calls, CreateMenuItem(d)
      PROVE  \A m \in menuItems' : m.id < menuSeq'
  <2>1. http[d].st = "waiting" /\ http[d].req.op = "CreateMenuItem"
    BY <1>2, MenuEffect, RunningTypes
  <2>2. http[d].req.id = 0
    BY <1>2, <2>1 DEF GivesId
  <2>3. \A m \in menuItems : m.id < menuSeq /\ m.id \in Nat
    BY <1>2, <1>s, <1>t DEF MenuItem
  <2>4. menuSeq' \in {menuSeq, menuSeq + 1}
    BY <1>2, MenuEffect
  <2>5. CASE menuItems' = menuItems
    BY <1>t, <2>3, <2>4, <2>5
  <2>6. CASE /\ menuItems' = menuItems \cup {NewItem(http[d].req)}
             /\ NewItem(http[d].req).id = menuSeq /\ menuSeq' = menuSeq + 1
    BY <1>t, <2>3, <2>6
  <2>7. QED BY <1>2, <2>2, <2>5, <2>6, MenuEffect
<1>3. ASSUME NEW d \in Calls, StoreOrder(d)
      PROVE  \A o \in orders' : o.id < orderSeq'
  <2>1. \A o \in orders : o.id < orderSeq /\ o.id \in Nat
    BY <1>s, <1>t DEF Order
  <2>2. NewOrder(d).id = orderSeq
    BY DEF NewOrder
  <2>3. \/ orders' = orders /\ orderSeq' \in {orderSeq, orderSeq + 1}
        \/ orders' = orders \cup {NewOrder(d)} /\ orderSeq' = orderSeq + 1
    BY <1>3, StoreEffect
  <2>4. QED BY <1>t, <2>1, <2>2, <2>3
<1>4. \/ users' = users /\ userSeq' = userSeq
      \/ \E d \in Calls : CreateUser(d)
  BY TableCases, MenuEffect, StoreEffect DEF Writing, tables, userTable
<1>5. \/ menuItems' = menuItems /\ menuSeq' = menuSeq
      \/ \E d \in Calls : CreateMenuItem(d)
  BY TableCases, UserEffect, StoreEffect DEF Writing, tables, menuTable
<1>6. \/ orders' = orders /\ orderSeq' = orderSeq
      \/ \E d \in Calls : StoreOrder(d)
  BY TableCases, UserEffect, MenuEffect DEF Writing, tables, orderTable
<1>7. (\A c \in Calls : ~GivesId(c, "CreateUser")') => \A u \in users' : u.id < userSeq'
  BY <1>g, <1>s, <1>1, <1>4
<1>8. (\A c \in Calls : ~GivesId(c, "CreateMenuItem")') => \A m \in menuItems' : m.id < menuSeq'
  BY <1>g, <1>s, <1>2, <1>5
<1>9. \A o \in orders' : o.id < orderSeq'
  BY <1>s, <1>3, <1>6
<1>10. QED BY <1>7, <1>8, <1>9 DEF SequenceAhead

-----------------------------------------------------------------------------
(* What is new of a goroutine that answers. *)
LEMMA AnswerFields ==
  ASSUME NEW status, NEW body
  PROVE  /\ Answer(status, body).pc = "reply"
         /\ Answer(status, body).status = status
         /\ Answer(status, body).body = body
BY DEF Answer, Idle

(* A handler that answers, or reads on, has a call that waits. *)
LEMMA RunAnswer ==
  ASSUME Inv, NEW d \in Calls, handler[d].pc # "idle", http'[d] = http[d],
         handler'[d].pc \in {"reply", "preload"}
  PROVE  RunInv(d)'
<1>1. http[d].st = "waiting"
  BY DEF Inv, RunInv
<1>2. QED BY <1>1 DEF RunInv

LEMMA LookupRun ==
  ASSUME Inv, [Next]_vars, NEW d \in Calls, CreateOrder(d)
  PROVE  RunInv(d)'
<1>t. MonolithTypeOK /\ DOMAIN handler = Calls
  BY CallTypes DEF Inv
<1>0. /\ handler[d].pc = "query" /\ http[d].req.op = "CreateOrder"
      /\ http' = http /\ users' = users
  BY LookupEffect DEF tables, userTable
<1>1. CASE Moves(d, Answer(400, {}))
  <2>1. handler'[d] = Answer(400, {})
    BY <1>1, <1>t, MoveType
  <2>2. QED BY <1>0, <2>1, RunAnswer, AnswerFields
<1>2. CASE UserFound(d) /\ Moves(d, Loop(d, <<>>))
  <2>0. <<>> \in Seq(Line) /\ Len(<<>>) = 0 /\ DOMAIN <<>> = {}
    BY EmptySeq
  <2>1. handler'[d] = Loop(d, <<>>)
    BY <1>2, <1>t, MoveType
  <2>2. /\ handler'[d].lines = <<>> /\ handler'[d].pc \in {"item", "insert"}
        /\ handler'[d].pc = "item" => 0 < Len(http[d].req.items)
        /\ handler'[d].pc = "insert" => ~(0 < Len(http[d].req.items))
    BY <2>0, <2>1, LoopType
  <2>3. http[d].st = "waiting" /\ http[d].req \in Requests /\ Decodes(http[d].req)
    BY <1>0, RunningTypes
  <2>4. Len(http[d].req.items) \in Nat
    BY <1>0, <2>3, RequestTypes, LenProperties
  <2>5. UserFound(d)'
    BY <1>0, <1>2 DEF UserFound
  <2>6. LinesInv(d)'
    BY <1>0, <2>0, <2>2, <2>4 DEF LinesInv
  <2>7. Len(handler'[d].lines) = 0
    BY <2>0, <2>2
  <2>8. QED BY <1>0, <2>2, <2>3, <2>4, <2>5, <2>6, <2>7 DEF RunInv
<1>3. QED BY <1>1, <1>2, LookupEffect

LEMMA ItemRun ==
  ASSUME Inv, [Next]_vars, NEW d \in Calls, MenuItemFound(d)
  PROVE  RunInv(d)'
<1>t. MonolithTypeOK /\ handler[d].lines \in Seq(Line)
  BY CallTypes DEF Inv, Locals
<1>0. /\ handler[d].pc = "item" /\ http[d].req.op = "CreateOrder"
      /\ http' = http /\ users' = users /\ menuItems' = menuItems
  BY ItemEffect DEF tables, userTable, menuTable
<1>1. CASE Moves(d, Answer(400, {}))
  <2>1. handler'[d] = Answer(400, {})
    BY <1>1, <1>t, MoveType
  <2>2. QED BY <1>0, <2>1, RunAnswer, AnswerFields
<1>2. ASSUME NEW m \in menuItems, m.id = Current(d).menuItemId,
             Moves(d, Loop(d, Append(handler[d].lines, LineFor(d, m))))
      PROVE  RunInv(d)'
  <2> DEFINE old == handler[d].lines
             line == LineFor(d, m)
             lines == Append(old, line)
             items == http[d].req.items
             n == Len(old) + 1
  <2>1. /\ Len(old) \in Nat /\ n \in DOMAIN items /\ Len(old) < Len(items)
        /\ items \in Seq([menuItemId : Int, quantity : Int]) /\ line \in Line
    BY <1>0, CurrentItem
  <2>2. lines \in Seq(Line) /\ Len(lines) = n
        /\ (\A k \in 1 .. Len(old) : lines[k] = old[k]) /\ lines[n] = line
    BY <1>t, <2>1, AppendProperties
  <2>3. handler'[d] = Loop(d, lines)
    BY <1>2, <1>t, MoveType
  <2>4. /\ handler'[d].lines = lines /\ handler'[d].pc \in {"item", "insert"}
        /\ handler'[d].pc = "item" => Len(lines) < Len(items)
        /\ handler'[d].pc = "insert" => ~(Len(lines) < Len(items))
    BY <2>2, <2>3, LoopType
  <2>5. /\ http[d].st = "waiting" /\ Decodes(http[d].req) /\ UserFound(d) /\ LinesInv(d)
    BY <1>0 DEF Inv, RunInv
  <2>6. /\ line.menuItemId = items[n].menuItemId /\ line.quantity = items[n].quantity
        /\ m.id = line.menuItemId /\ m.price = line.price
    BY <1>2 DEF LineFor, Current
  <2>7. Len(items) \in Nat /\ n <= Len(items)
    BY <2>1
  <2>8. LinesInv(d)'
    <3>1. \A k \in DOMAIN lines : k \in 1 .. Len(old) \/ k = n
      BY <2>1, <2>2
    <3>2. DOMAIN old = 1 .. Len(old)
      BY <1>t
    <3>3. ASSUME NEW k \in DOMAIN lines
          PROVE  /\ lines[k].menuItemId = items[k].menuItemId
                 /\ lines[k].quantity = items[k].quantity
                 /\ \E w \in menuItems : w.id = lines[k].menuItemId /\ w.price = lines[k].price
      <4>1. CASE k \in 1 .. Len(old)
        BY <2>2, <2>5, <3>2, <4>1 DEF LinesInv
      <4>2. CASE k = n
        BY <2>2, <2>6, <4>2
      <4>3. QED BY <3>1, <4>1, <4>2
    <3> HIDE DEF lines, items
    <3>4. QED BY <1>0, <2>2, <2>4, <2>7, <3>3 DEF LinesInv, items
  <2>9. UserFound(d)'
    BY <1>0, <2>5 DEF UserFound
  <2>10. handler'[d].pc = "insert" => Len(lines) = Len(items)
    BY <2>1, <2>2, <2>4, <2>7
  <2> HIDE DEF lines
  <2>11. QED BY <1>0, <2>4, <2>5, <2>8, <2>9, <2>10 DEF RunInv
<1>3. QED BY <1>1, <1>2, ItemEffect

LEMMA RunStep ==
  ASSUME Inv, [Next]_vars, NEW d \in Calls
  PROVE  RunInv(d)'
<1>t. MonolithTypeOK /\ RunInv(d) /\ DOMAIN handler = Calls /\ DOMAIN http = Calls
  BY CallTypes DEF Inv
<1>1. CASE Same(d)
  <2>1. users \subseteq users' /\ menuItems \subseteq menuItems'
    BY TablesStep
  <2>2. UserFound(d) => UserFound(d)'
    BY <1>1, <2>1 DEF Same, UserFound
  <2>3. LinesInv(d) => LinesInv(d)'
    BY <1>1, <2>1 DEF Same, LinesInv
  <2>4. QED BY <1>1, <1>t, <2>2, <2>3 DEF Same, RunInv
<1>2. CASE Received(d)
  <2>1. PICK r \in Requests : Receive(d, r)
    BY <1>2 DEF Received
  <2>2. http'[d] = [st |-> "waiting", req |-> r]
    BY <2>1, <1>t DEF Receive
  <2>3. handler'[d].pc = "reply" \/ (handler'[d].pc = "query" /\ Decodes(r))
    BY <2>1, <1>t DEF Receive, Idle
  <2>4. QED BY <2>2, <2>3 DEF RunInv
<1>3. CASE Cut(d)
  BY <1>3 DEF Cut, Idle, RunInv
<1>h. ASSUME NEW h, Moves(d, h), h.pc \in {"reply", "preload"}, http' = http,
             handler[d].pc # "idle"
      PROVE  RunInv(d)'
  BY <1>h, <1>t, MoveType, RunAnswer
<1>a. ASSUME NEW status, NEW body, Moves(d, Answer(status, body)), http' = http,
             handler[d].pc # "idle"
      PROVE  RunInv(d)'
  BY <1>a, <1>h, AnswerFields
<1>4. CASE CreateUser(d)
  <2>1. http' = http /\ handler[d].pc # "idle"
    BY <1>4, UserEffect
  <2>2. Moves(d, Answer(500, {})) \/ Moves(d, Answer(201, {NewUser(http[d].req)}))
    BY <1>4, UserEffect
  <2>3. QED BY <1>a, <2>1, <2>2
<1>5. CASE CreateMenuItem(d)
  <2>1. http' = http /\ handler[d].pc # "idle"
    BY <1>5, MenuEffect
  <2>2. Moves(d, Answer(500, {})) \/ Moves(d, Answer(201, {NewItem(http[d].req)}))
    BY <1>5, MenuEffect
  <2>3. QED BY <1>a, <2>1, <2>2
<1>6. CASE StoreOrder(d)
  <2>1. http' = http /\ handler[d].pc # "idle"
    BY <1>6, StoreEffect
  <2>2. Moves(d, Answer(500, {})) \/ Moves(d, Answer(201, {WholeOrder(NewOrder(d), NewRows(d))}))
    BY <1>6, StoreEffect
  <2>3. QED BY <1>a, <2>1, <2>2
<1>7. CASE Reading(d)
  <2>1. GoesOn(d) /\ http' = http /\ handler[d].pc # "idle"
    BY <1>7, ReadEffect
  <2>2. PICK h : Moves(d, h) /\ h.pc \in {"reply", "preload"}
    BY <2>1 DEF GoesOn
  <2>3. QED BY <1>h, <2>1, <2>2
<1>8. CASE Respond(d)
  BY <1>8, <1>t DEF Respond, Idle, RunInv
<1>9. QED
  BY <1>1, <1>2, <1>3, <1>4, <1>5, <1>6, <1>7, <1>8, CallStep, LookupRun, ItemRun
  DEF Serve, Reading

-----------------------------------------------------------------------------
(* An order that was stored for a call stays as it was stored. *)
LEMMA StoredStays ==
  ASSUME Inv, [Next]_vars, NEW d \in Calls, NEW body, StoredAs(d, body),
         placed'[d] = placed[d], http'[d].req = http[d].req
  PROVE  StoredAs(d, body)'
<1>1. PICK o \in orders :
        /\ placed[d] = {o.id}
        /\ body = {WholeOrder(o, orderItems)}
        /\ o.userId = http[d].req.userId
        /\ {i.n : i \in RowsOf(o.id)} = DOMAIN http[d].req.items
        /\ \A i \in RowsOf(o.id) : /\ i.menuItemId = http[d].req.items[i.n].menuItemId
                                    /\ i.quantity = http[d].req.items[i.n].quantity
  BY DEF StoredAs
<1>2. o \in orders' /\ RowsOf(o.id)' = RowsOf(o.id)
  BY TablesStep
<1>3. WholeOrder(o, orderItems)' = WholeOrder(o, orderItems)
  BY <1>2 DEF WholeOrder, RowsOf
<1>4. QED BY <1>1, <1>2, <1>3 DEF StoredAs

(* What DB.Create stores, with one row for every item of the request. *)
LEMMA StoredWhole ==
  ASSUME Inv, NEW d \in Calls, handler[d].pc = "insert", http' = http,
         orders' = orders \cup {NewOrder(d)},
         \A o \in orders : o.id # orderSeq,
         orderItems' = orderItems \cup NewRows(d),
         placed' = [placed EXCEPT ![d] = @ \cup {orderSeq}],
         NEW body, body = {WholeOrder(NewOrder(d), NewRows(d))}
  PROVE  /\ StoredAs(d, body)'
         /\ {i \in orderItems' : i.orderId = orderSeq} = NewRows(d)
<1>t. handler[d].lines \in Seq(Line) /\ DOMAIN placed = Calls
  BY CallTypes DEF Inv, Locals
<1>0. /\ placed[d] = {} /\ http[d].req.op = "CreateOrder" /\ LinesInv(d)
      /\ Len(handler[d].lines) = Len(http[d].req.items)
  BY DEF Inv, RunInv, StoreInv
<1>1. http[d].req.items \in Seq([menuItemId : Int, quantity : Int])
  BY <1>0, RunningTypes, RequestTypes
<1>2. DOMAIN handler[d].lines = DOMAIN http[d].req.items
  BY <1>t, <1>0, <1>1
<1>3. PICK o : o = NewOrder(d)
  OBVIOUS
<1>4. o.id = orderSeq /\ o.userId = http[d].req.userId
  BY <1>3 DEF NewOrder
<1>5. PICK lines : lines = handler[d].lines
  OBVIOUS
<1>6. NewRows(d) = {[orderId |-> orderSeq, n |-> k, menuItemId |-> lines[k].menuItemId,
                     quantity |-> lines[k].quantity, price |-> lines[k].price]
                      : k \in DOMAIN lines}
  BY <1>3, <1>4, <1>5 DEF NewRows, ItemRows
<1>7. /\ \A i \in NewRows(d) : i.orderId = orderSeq
      /\ {i.n : i \in NewRows(d)} = DOMAIN lines
      /\ \A i \in NewRows(d) : /\ i.menuItemId = lines[i.n].menuItemId
                               /\ i.quantity = lines[i.n].quantity
                               /\ i.n \in DOMAIN lines
  <2> DEFINE Row(k) == [orderId |-> orderSeq, n |-> k, menuItemId |-> lines[k].menuItemId,
                        quantity |-> lines[k].quantity, price |-> lines[k].price]
  <2>1. \A k : /\ Row(k).orderId = orderSeq /\ Row(k).n = k
               /\ Row(k).menuItemId = lines[k].menuItemId
               /\ Row(k).quantity = lines[k].quantity
    OBVIOUS
  <2>2. NewRows(d) = {Row(k) : k \in DOMAIN lines}
    BY <1>6
  <2> HIDE DEF Row
  <2>3. \A i \in NewRows(d) : \E k \in DOMAIN lines : i = Row(k)
    BY <2>2
  <2>4. \A i \in NewRows(d) : /\ i.orderId = orderSeq
                              /\ i.menuItemId = lines[i.n].menuItemId
                              /\ i.quantity = lines[i.n].quantity
                              /\ i.n \in DOMAIN lines
    BY <2>1, <2>3
  <2>5. \A k \in DOMAIN lines : Row(k) \in NewRows(d) /\ Row(k).n = k
    BY <2>1, <2>2
  <2>6. {i.n : i \in NewRows(d)} = DOMAIN lines
    BY <2>4, <2>5
  <2>7. QED BY <2>4, <2>6
<1>8. \A i \in orderItems : i.orderId # orderSeq
  BY DEF Inv, ItemsOwned
<1>9. {i \in orderItems' : i.orderId = orderSeq} = NewRows(d)
  BY <1>7, <1>8
<1>10. RowsOf(o.id)' = NewRows(d)
  BY <1>4, <1>9 DEF RowsOf
<1>11. WholeOrder(o, orderItems)' = WholeOrder(NewOrder(d), NewRows(d))
  BY <1>3, <1>4, <1>7, <1>9 DEF WholeOrder
<1>12. o \in orders' /\ placed'[d] = {o.id}
  BY <1>t, <1>0, <1>3, <1>4
<1>13. \A i \in NewRows(d) : /\ i.menuItemId = http[d].req.items[i.n].menuItemId
                             /\ i.quantity = http[d].req.items[i.n].quantity
  BY <1>0, <1>5, <1>7 DEF LinesInv
<1>14. {i.n : i \in NewRows(d)} = DOMAIN http[d].req.items
  BY <1>2, <1>5, <1>7
<1>15. StoredAs(d, body)'
  BY <1>4, <1>10, <1>11, <1>12, <1>13, <1>14 DEF StoredAs
<1>16. QED BY <1>9, <1>15

LEMMA StoreStep ==
  ASSUME Inv, [Next]_vars, NEW d \in Calls
  PROVE  StoreInv(d)'
<1>t. /\ MonolithTypeOK /\ RunInv(d) /\ StoreInv(d)
      /\ DOMAIN handler = Calls /\ DOMAIN http = Calls /\ DOMAIN placed = Calls
  BY CallTypes DEF Inv
<1>b. PICK hb, ab : hb = handler[d].body /\ ab = http[d].body
  OBVIOUS
<1>s. /\ StoredAs(d, hb) /\ placed'[d] = placed[d] /\ http'[d].req = http[d].req
           => StoredAs(d, hb)'
      /\ StoredAs(d, ab) /\ placed'[d] = placed[d] /\ http'[d].req = http[d].req
           => StoredAs(d, ab)'
  BY StoredStays
<1>1. CASE Same(d)
  BY <1>1, <1>t, <1>b, <1>s DEF Same, StoreInv
<1>2. CASE Received(d)
  <2>1. PICK r \in Requests : Receive(d, r)
    BY <1>2 DEF Received
  <2>2. http'[d] = [st |-> "waiting", req |-> r] /\ placed'[d] = placed[d] /\ http[d].st = "new"
    BY <2>1, <1>t DEF Receive, orderTable
  <2>3. /\ handler'[d].pc \in {"reply", "query"}
        /\ handler'[d].pc = "reply" => handler'[d].status = 400
    BY <2>1, <1>t DEF Receive, Idle
  <2>4. placed[d] = {}
    BY <1>t, <2>2 DEF StoreInv
  <2>5. QED BY <2>2, <2>3, <2>4 DEF StoreInv
<1>3. CASE Cut(d)
  BY <1>3, <1>t, <1>b, <1>s DEF Cut, Idle, StoreInv
<1>h. ASSUME handler'[d].pc \in {"reply", "preload"}, http' = http, handler[d].pc # "idle",
             handler'[d].pc = "reply" =>
               /\ handler'[d].status # 0
               /\ http[d].req.op = "CreateOrder" =>
                    /\ handler'[d].status = 400 => placed'[d] = {}
                    /\ handler'[d].status # 201
      PROVE  StoreInv(d)'
  <2>1. http[d].st = "waiting"
    BY <1>h, <1>t DEF RunInv
  <2>2. QED BY <1>h, <2>1 DEF StoreInv
<1>4. CASE CreateUser(d)
  <2>1. http' = http /\ handler[d].pc # "idle" /\ http[d].req.op # "CreateOrder"
    BY <1>4, UserEffect
  <2>2. Moves(d, Answer(500, {})) \/ Moves(d, Answer(201, {NewUser(http[d].req)}))
    BY <1>4, UserEffect
  <2>3. handler'[d].pc = "reply" /\ handler'[d].status \in {500, 201}
    BY <1>t, <2>2, MoveType, AnswerFields
  <2>4. QED BY <1>h, <2>1, <2>3
<1>5. CASE CreateMenuItem(d)
  <2>1. http' = http /\ handler[d].pc # "idle" /\ http[d].req.op # "CreateOrder"
    BY <1>5, MenuEffect
  <2>2. Moves(d, Answer(500, {})) \/ Moves(d, Answer(201, {NewItem(http[d].req)}))
    BY <1>5, MenuEffect
  <2>3. handler'[d].pc = "reply" /\ handler'[d].status \in {500, 201}
    BY <1>t, <2>2, MoveType, AnswerFields
  <2>4. QED BY <1>h, <2>1, <2>3
<1>6. CASE StoreOrder(d)
  <2>1. /\ http' = http /\ handler[d].pc = "insert" /\ http[d].req.op = "CreateOrder"
    BY <1>6, StoreEffect
  <2>2. CASE Moves(d, Answer(500, {}))
    <3>1. handler'[d].pc = "reply" /\ handler'[d].status = 500
      BY <1>t, <2>2, MoveType, AnswerFields
    <3>2. QED BY <1>h, <2>1, <3>1
  <2>3. CASE ~Moves(d, Answer(500, {}))
    <3>1. /\ orders' = orders \cup {NewOrder(d)}
          /\ \A o \in orders : o.id # orderSeq
          /\ orderItems' = orderItems \cup NewRows(d)
          /\ placed' = [placed EXCEPT ![d] = @ \cup {orderSeq}]
          /\ Moves(d, Answer(201, {WholeOrder(NewOrder(d), NewRows(d))}))
      BY <1>6, <2>3, StoreEffect
    <3>2. PICK body : body = {WholeOrder(NewOrder(d), NewRows(d))}
      OBVIOUS
    <3>3. StoredAs(d, body)'
      BY <2>1, <3>1, <3>2, StoredWhole
    <3>4. handler'[d].pc = "reply" /\ handler'[d].status = 201 /\ handler'[d].body = body
      BY <1>t, <3>1, <3>2, MoveType, AnswerFields
    <3>5. http[d].st = "waiting"
      BY <1>t, <2>1 DEF RunInv
    <3>6. QED BY <2>1, <3>3, <3>4, <3>5 DEF StoreInv
  <2>4. QED BY <2>2, <2>3
<1>7. CASE Reading(d)
  <2>1. GoesOn(d) /\ http' = http /\ handler[d].pc # "idle" /\ http[d].req.op # "CreateOrder"
    BY <1>7, ReadEffect
  <2>2. PICK h \in Locals : /\ h.pc \in {"reply", "preload"}
                            /\ h.pc = "reply" => h.status # 0
                            /\ Moves(d, h)
    BY <2>1 DEF GoesOn
  <2>3. handler'[d] = h
    BY <1>t, <2>2, MoveType
  <2>4. QED BY <1>h, <2>1, <2>2, <2>3
<1>8. CASE Respond(d)
  <2>1. /\ http'[d] = [st |-> "answered", req |-> http[d].req, status |-> handler[d].status,
                       body |-> handler[d].body]
        /\ handler'[d].pc = "idle" /\ placed'[d] = placed[d] /\ handler[d].pc = "reply"
    BY <1>8, <1>t DEF Respond, Idle, orderTable
  <2>2. QED BY <1>t, <1>b, <1>s, <2>1 DEF StoreInv
<1>9. CASE CreateOrder(d) \/ MenuItemFound(d)
  <2>1. /\ http' = http /\ placed' = placed /\ handler[d].pc \in {"query", "item"}
    BY <1>9, LookupEffect, ItemEffect DEF tables, orderTable
  <2>2. placed[d] = {} /\ http[d].st = "waiting"
    BY <1>t, <2>1 DEF StoreInv, RunInv
  <2>3. CASE Moves(d, Answer(400, {}))
    <3>1. handler'[d].pc = "reply" /\ handler'[d].status = 400
      BY <1>t, <2>3, MoveType, AnswerFields
    <3>2. QED BY <1>h, <2>1, <2>2, <3>1
  <2>4. ASSUME NEW lines, Moves(d, Loop(d, lines)) PROVE StoreInv(d)'
    <3>1. Loop(d, lines).pc \in {"item", "insert"}
      BY DEF Loop, Idle
    <3>2. handler'[d].pc \in {"item", "insert"}
      BY <1>t, <2>4, <3>1, MoveType
    <3>3. QED BY <2>1, <2>2, <3>2 DEF StoreInv
  <2>5. QED BY <1>9, <2>3, <2>4, LookupEffect, ItemEffect
<1>10. QED
  BY <1>1, <1>2, <1>3, <1>4, <1>5, <1>6, <1>7, <1>8, <1>9, CallStep DEF Serve, Reading

-----------------------------------------------------------------------------
LEMMA MonolithInit == Init => Inv
<1> SUFFICES ASSUME Init PROVE Inv
  OBVIOUS
<1>1. \A c \in Calls : http[c].st = "new" /\ handler[c].pc = "idle" /\ placed[c] = {}
  BY DEF Init, Idle
<1>2. Idle \in Locals
  BY EmptySeq DEF Idle, Locals
<1>3. MonolithTypeOK
  <2>1. http \in [Calls -> HttpStates]
    BY DEF Init, HttpStates
  <2>2. handler \in [Calls -> Locals] /\ placed \in [Calls -> SUBSET Nat]
    BY <1>2 DEF Init
  <2>3. userSeq \in Nat \ {0} /\ menuSeq \in Nat \ {0} /\ orderSeq \in Nat \ {0}
    BY DEF Init
  <2>4. /\ users \subseteq User /\ menuItems \subseteq MenuItem /\ up \in BOOLEAN
        /\ orders \subseteq Order /\ orderItems \subseteq OrderItem
    BY DEF Init
  <2>5. QED BY <2>1, <2>2, <2>3, <2>4 DEF MonolithTypeOK
<1>4. ItemsOwned /\ SequenceAhead
  BY DEF Init, ItemsOwned, SequenceAhead
<1>5. QED BY <1>1, <1>3, <1>4 DEF Inv, RunInv, StoreInv

LEMMA MonolithInvariant == Spec => []Inv
<1>1. Inv /\ [Next]_vars => Inv'
  BY TypeStep, OwnedStep, SequenceStep, RunStep, StoreStep DEF Inv
<1>2. QED BY <1>1, MonolithInit, PTL DEF Spec

(* The tables, the locals of the handlers and the answers have their types. *)
THEOREM MonolithTypeCorrect == Spec => []MonolithTypeOK
<1>1. Inv => MonolithTypeOK
  BY DEF Inv
<1>2. QED BY <1>1, MonolithInvariant, PTL

(***************************************************************************)
(* The sequence of a table stays ahead of its ids, through failed inserts  *)
(* and restarts, as long as no body of CreateUser or CreateMenuItem names  *)
(* an "ID" of its own; that of orders, whose ids no body names, always.    *)
(***************************************************************************)
THEOREM SequencesStayAhead == Spec => []SequenceAhead
<1>1. Inv => SequenceAhead
  BY DEF Inv
<1>2. QED BY <1>1, MonolithInvariant, PTL

(***************************************************************************)
(* CreateOrder of the monolith answers 201 only for an order that is       *)
(* stored, once, whole and as asked for, and 400 only if it stored none,   *)
(* whatever its lookups saw of other calls and wherever the database fails. *)
(***************************************************************************)
THEOREM OrderAnswersAreTrue == Spec => []OrderAnswers
<1>1. Inv => OrderAnswers
  BY DEF Inv, StoreInv, StoredAs, RowsOf, OrderAnswers
<1>2. QED BY <1>1, MonolithInvariant, PTL

-----------------------------------------------------------------------------
(* The orders of the ledger. *)
Whole == {WholeOrder(o, orderItems) : o \in orders}

LEMMA StoreIsPlaceOrder ==
  ASSUME Inv, [Next]_vars, NEW c \in Calls, StoreOrder(c)
  PROVE  Ledger!Next \/ UNCHANGED <<users, menuItems, orders, orderItems, placed>>
<1>0. /\ handler[c].pc = "insert" /\ http' = http /\ UNCHANGED <<users, menuItems>>
  BY StoreEffect DEF userTable, menuTable
<1> SUFFICES ASSUME /\ orders' = orders \cup {NewOrder(c)}
                    /\ \A o \in orders : o.id # orderSeq
                    /\ orderItems' = orderItems \cup NewRows(c)
                    /\ placed' = [placed EXCEPT ![c] = @ \cup {orderSeq}]
             PROVE  Ledger!Next
  BY <1>0, StoreEffect
<1>1. RunInv(c) /\ StoreInv(c)
  BY DEF Inv
<1>2. UserFound(c) /\ LinesInv(c) /\ placed[c] = {}
  BY <1>0, <1>1 DEF RunInv, StoreInv
<1>3. {i \in orderItems' : i.orderId = orderSeq} = NewRows(c)
  BY <1>0, StoredWhole
<1>4. PICK w : w = WholeOrder(NewOrder(c), NewRows(c))
  OBVIOUS
<1>5. \A i \in NewRows(c) : i.orderId = orderSeq
  BY DEF NewRows, ItemRows, NewOrder
<1>6. w.id = orderSeq /\ w.userId = http[c].req.userId /\ w.items = NewRows(c)
  BY <1>4, <1>5 DEF WholeOrder, NewOrder
<1>7. Whole' = Whole \cup {w}
  <2>1. \A o \in orders : WholeOrder(o, orderItems') = WholeOrder(o, orderItems)
    <3> SUFFICES ASSUME NEW o \in orders
                 PROVE  WholeOrder(o, orderItems') = WholeOrder(o, orderItems)
      OBVIOUS
    <3>1. {i \in orderItems' : i.orderId = o.id} = {i \in orderItems : i.orderId = o.id}
      BY <1>5
    <3>2. QED BY <3>1 DEF WholeOrder
  <2>2. WholeOrder(NewOrder(c), orderItems') = w
    BY <1>3, <1>4, <1>5 DEF WholeOrder, NewOrder
  <2>3. Whole' = {WholeOrder(o, orderItems') : o \in orders'}
    BY DEF Whole
  <2>4. QED BY <2>1, <2>2, <2>3 DEF Whole
<1>8. \A v \in Whole : v.id # w.id
  BY <1>6 DEF Whole, WholeOrder
<1>9. \E u \in users : u.id = w.userId
  BY <1>2, <1>6 DEF UserFound
<1>10. \A i \in w.items : \E m \in menuItems : m.id = i.menuItemId /\ m.price = i.price
  <2>1. ASSUME NEW i \in NewRows(c)
        PROVE  \E k \in DOMAIN handler[c].lines :
                 /\ i.menuItemId = handler[c].lines[k].menuItemId
                 /\ i.price = handler[c].lines[k].price
    BY DEF NewRows, ItemRows
  <2>2. QED BY <1>2, <1>6, <2>1 DEF LinesInv
<1>11. placed' = [placed EXCEPT ![c] = {w.id}]
  BY <1>2, <1>6
<1>12. Ledger!PlaceOrder(c, w)
  BY <1>0, <1>2, <1>7, <1>8, <1>9, <1>10, <1>11 DEF Ledger!PlaceOrder, Ledger!Fresh, Whole
<1>13. w \in Whole'
  BY <1>7
<1>14. QED BY <1>12, <1>13 DEF Ledger!Next, Whole

LEMMA LedgerStep ==
  ASSUME Inv, [Next]_vars
  PROVE  [Ledger!Next]_(Ledger!ledger)
<1>a. UNCHANGED <<orders, orderItems>> => UNCHANGED Whole
  BY DEF Whole
<1>b. ASSUME UNCHANGED <<users, menuItems, orders, orderItems, placed>>
      PROVE  UNCHANGED Ledger!ledger
  BY <1>a, <1>b DEF Ledger!ledger, Whole
<1>1. CASE UNCHANGED tables
  BY <1>1, <1>b DEF tables, userTable, menuTable, orderTable
<1>2. ASSUME NEW c \in Calls, CreateUser(c)
      PROVE  Ledger!Next \/ UNCHANGED Ledger!ledger
  <2>1. PICK u : u = NewUser(http[c].req)
    OBVIOUS
  <2>2. UNCHANGED <<menuItems, orders, orderItems, placed>>
    BY <1>2, UserEffect DEF menuTable, orderTable
  <2>3. CASE users' = users
    BY <1>b, <2>2, <2>3
  <2>4. CASE users' = users \cup {u} /\ \A v \in users : v.id # u.id /\ v.email # u.email
    <3>1. Ledger!RegisterUser(u)
      BY <1>a, <2>2, <2>4 DEF Ledger!RegisterUser, Ledger!Fresh, Whole
    <3>2. u \in users'
      BY <2>4
    <3>3. QED BY <3>1, <3>2 DEF Ledger!Next
  <2>5. QED BY <1>2, <2>1, <2>3, <2>4, UserEffect
<1>3. ASSUME NEW c \in Calls, CreateMenuItem(c)
      PROVE  Ledger!Next \/ UNCHANGED Ledger!ledger
  <2>1. PICK m : m = NewItem(http[c].req)
    OBVIOUS
  <2>2. UNCHANGED <<users, orders, orderItems, placed>>
    BY <1>3, MenuEffect DEF userTable, orderTable
  <2>3. CASE menuItems' = menuItems
    BY <1>b, <2>2, <2>3
  <2>4. CASE menuItems' = menuItems \cup {m} /\ \A v \in menuItems : v.id # m.id
    <3>1. Ledger!AddMenuItem(m)
      BY <1>a, <2>2, <2>4 DEF Ledger!AddMenuItem, Ledger!Fresh, Whole
    <3>2. m \in menuItems'
      BY <2>4
    <3>3. QED BY <3>1, <3>2 DEF Ledger!Next
  <2>5. QED BY <1>3, <2>1, <2>3, <2>4, MenuEffect
<1>4. ASSUME NEW c \in Calls, StoreOrder(c)
      PROVE  Ledger!Next \/ UNCHANGED Ledger!ledger
  BY <1>4, <1>b, StoreIsPlaceOrder
<1>5. QED BY <1>1, <1>b, <1>2, <1>3, <1>4, TableCases DEF Writing, tables, userTable, menuTable, orderTable

(***************************************************************************)
(* The monolith keeps the promise that the services of practical 6 keep:   *)
(* every user, menu item and whole order appears in one step and stays, an *)
(* order names a user and prices that exist, and a call places one at most *)
(* (CreateOrder, CreateUser and CreateMenuItem under handlers/).           *)
(***************************************************************************)
THEOREM MonolithIsLedger == Spec => MonolithImplementsLedger
<1>1. Init => Ledger!Init
  BY DEF Init, Ledger!Init
<1>2. Inv /\ [Next]_vars => [Ledger!Next]_(Ledger!ledger)
  BY LedgerStep
<1>3. QED
  BY <1>1, <1>2, MonolithInvariant, PTL DEF Spec, MonolithImplementsLedger, Ledger!Spec
=============================================================================
