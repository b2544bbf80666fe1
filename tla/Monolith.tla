------------------------------ MODULE Monolith ------------------------------
(***************************************************************************)
(* practical5/student-cafe-monolith: one process and one database.  Every  *)
(* HTTP call has a goroutine, whose steps are its statements; CreateOrder  *)
(* looks up the user and every menu item with a query each before the one  *)
(* transaction that stores the order with its items.  Names, descriptions  *)
(* and timestamps are left out; an item is told apart from the others of   *)
(* its order by its place in the request instead of by its own id.         *)
(***************************************************************************)
EXTENDS Gorm, Sequences

CONSTANTS Calls,       \* the clients' HTTP calls
          Emails, Prices,
          Requests,    \* what clients send
          Malformed    \* stands for a body that does not decode

VARIABLES users, menuItems, orders, orderItems,    \* the tables
          userSeq, menuSeq, orderSeq,              \* the sequences of their ids
          up,         \* whether the process runs
          http,       \* each call, as its client sees it
          handler,    \* the locals of each goroutine
          placed      \* history: ids of the orders stored for a call

vars == <<users, menuItems, orders, orderItems, userSeq, menuSeq, orderSeq, up,
          http, handler, placed>>

userTable == <<users, userSeq>>
menuTable == <<menuItems, menuSeq>>
orderTable == <<orders, orderItems, orderSeq, placed>>

-----------------------------------------------------------------------------
User == [id : Nat, email : Emails, deleted : BOOLEAN]
MenuItem == [id : Nat, price : Prices, deleted : BOOLEAN]
Order == [id : Nat, userId : Nat, status : {"pending"}]

(* A line is an item of an order before it is stored. *)
Line == [menuItemId : Nat, quantity : Int, price : Prices]
OrderItem == [orderId : Nat, n : Nat, menuItemId : Nat, quantity : Int, price : Prices]

CreateOrderRequest ==
  [op : {"CreateOrder"}, userId : Int, items : Seq([menuItemId : Int, quantity : Int])]

HttpRequest ==
  [op : {"CreateUser"}, id : Nat, email : Emails \cup {Malformed}, deleted : BOOLEAN]
    \cup [op : {"CreateMenuItem"}, id : Nat, price : Prices \cup {Malformed},
          deleted : BOOLEAN]
    \cup [op : {"GetUser"}, id : Nat \cup {Text}]
    \cup [op : {"GetMenu", "GetOrders"}]
    \cup CreateOrderRequest

ASSUME MonolithAssumption == /\ Requests \subseteq HttpRequest
                             /\ Malformed \notin Emails \cup Prices
                             /\ Faults \subseteq {"db", "process"}

(* An order with the items that Preload or DB.Create left in it. *)
WholeOrder(o, items) == [id |-> o.id, userId |-> o.userId, status |-> o.status,
                         items |-> {i \in items : i.orderId = o.id}]

Statuses == {200, 201, 400, 404, 500}

Body == User \cup MenuItem \cup [id : Nat, userId : Nat, status : {"pending"},
                                 items : SUBSET OrderItem]

Idle == [pc |-> "idle", lines |-> <<>>, rows |-> {}, status |-> 0, body |-> {}]

Locals == [pc : {"idle", "query", "item", "insert", "preload", "reply"},
           lines : Seq(Line), rows : SUBSET Order,
           status : Statuses \cup {0},
           body : SUBSET Body]

HttpStates == [st : {"new"}]
                \cup [st : {"waiting", "lost"}, req : Requests]
                \cup [st : {"answered"}, req : Requests, status : Statuses,
                      body : SUBSET Body]

(* The types of the tables, of the goroutines' locals and of the answers. *)
MonolithTypeOK ==
  /\ users \subseteq User /\ menuItems \subseteq MenuItem
  /\ orders \subseteq Order /\ orderItems \subseteq OrderItem
  /\ userSeq \in Nat \ {0} /\ menuSeq \in Nat \ {0} /\ orderSeq \in Nat \ {0}
  /\ up \in BOOLEAN
  /\ http \in [Calls -> HttpStates]
  /\ handler \in [Calls -> Locals]
  /\ placed \in [Calls -> SUBSET Nat]

Init == /\ users = {} /\ menuItems = {} /\ orders = {} /\ orderItems = {}
        /\ userSeq = 1 /\ menuSeq = 1 /\ orderSeq = 1
        /\ up = FALSE
        /\ http = [c \in Calls |-> [st |-> "new"]]
        /\ handler = [c \in Calls |-> Idle]
        /\ placed = [c \in Calls |-> {}]

-----------------------------------------------------------------------------
(* chi has routed the request to its handler.  A body that does not decode, *)
(* negative numbers where the request has a uint included, is answered 400. *)
Decodes(r) ==
  CASE r.op = "CreateUser"     -> r.email # Malformed
    [] r.op = "CreateMenuItem" -> r.price # Malformed
    [] r.op = "CreateOrder"    -> /\ r.userId \in Nat
                                  /\ \A k \in DOMAIN r.items : r.items[k].menuItemId \in Nat
    [] OTHER                   -> TRUE

Receive(c, r) ==
  /\ up
  /\ http[c].st = "new"
  /\ http' = [http EXCEPT ![c] = [st |-> "waiting", req |-> r]]
  /\ handler' = [handler EXCEPT ![c] = IF Decodes(r)
                    THEN [Idle EXCEPT !.pc = "query"]
                    ELSE [Idle EXCEPT !.pc = "reply", !.status = 400]]
  /\ UNCHANGED <<userTable, menuTable, orderTable, up>>

At(c, op, pc) == handler[c].pc = pc /\ http[c].req.op = op

Reply(c, status, body) ==
  handler' = [handler EXCEPT ![c] = [Idle EXCEPT !.pc = "reply", !.status = status,
                                                 !.body = body]]

(* The answer reaches the client. *)
Respond(c) ==
  /\ handler[c].pc = "reply"
  /\ http' = [http EXCEPT ![c] = [st |-> "answered", req |-> @.req,
                                  status |-> handler[c].status, body |-> handler[c].body]]
  /\ handler' = [handler EXCEPT ![c] = Idle]
  /\ UNCHANGED <<userTable, menuTable, orderTable, up>>

-----------------------------------------------------------------------------
EmailTaken(email) == \E u \in users : u.email = email

CreateUser(c) ==
  /\ At(c, "CreateUser", "query")
  /\ \E res \in LET r == http[c].req
                IN  Create(users, userSeq,
                           [id |-> r.id, email |-> r.email, deleted |-> r.deleted],
                           EmailTaken(r.email)) :
       /\ users' = res.table
       /\ userSeq' = res.seq
       /\ IF res.err THEN Reply(c, 500, {}) ELSE Reply(c, 201, {res.row})
  /\ UNCHANGED <<menuTable, orderTable, up, http>>

(* Every error of First is answered with 404. *)
GetUser(c) ==
  /\ At(c, "GetUser", "query")
  /\ \E found \in FirstByParam(users, http[c].req.id) :
       IF found = {} THEN Reply(c, 404, {}) ELSE Reply(c, 200, found)
  /\ UNCHANGED <<userTable, menuTable, orderTable, up, http>>

CreateMenuItem(c) ==
  /\ At(c, "CreateMenuItem", "query")
  /\ \E res \in LET r == http[c].req
                IN  Create(menuItems, menuSeq,
                           [id |-> r.id, price |-> r.price, deleted |-> r.deleted], FALSE) :
       /\ menuItems' = res.table
       /\ menuSeq' = res.seq
       /\ IF res.err THEN Reply(c, 500, {}) ELSE Reply(c, 201, {res.row})
  /\ UNCHANGED <<userTable, orderTable, up, http>>

GetMenu(c) ==
  /\ At(c, "GetMenu", "query")
  /\ \E fails \in FindFails :
       IF fails THEN Reply(c, 500, {}) ELSE Reply(c, 200, Live(menuItems))
  /\ UNCHANGED <<userTable, menuTable, orderTable, up, http>>

-----------------------------------------------------------------------------
(***************************************************************************)
(* CreateOrder: First(&user), then First(&menuItem) for every item, whose  *)
(* price is copied; any error of either is answered with 400.              *)
(***************************************************************************)
NextItem(c, lines) ==
  handler' = [handler EXCEPT ![c] =
                [Idle EXCEPT !.lines = lines,
                             !.pc = IF Len(lines) < Len(http[c].req.items)
                                      THEN "item" ELSE "insert"]]

(* Mutant: the error of First(&user) is not looked at. *)
CreateOrder_UserIgnored(c) ==
  /\ At(c, "CreateOrder", "query")
  /\ NextItem(c, <<>>)
  /\ UNCHANGED <<userTable, menuTable, orderTable, up, http>>

CreateOrder(c) ==
  /\ At(c, "CreateOrder", "query")
  /\ \E user \in First(users, http[c].req.userId) :
       IF user = {} THEN Reply(c, 400, {}) ELSE NextItem(c, <<>>)
  /\ UNCHANGED <<userTable, menuTable, orderTable, up, http>>

(* The item that the loop over req.Items has reached. *)
Current(c) == http[c].req.items[Len(handler[c].lines) + 1]

(* Mutant: the snapshot of the price is left out, so the field stays 0. *)
MenuItemFound_NoPrice(c) ==
  /\ At(c, "CreateOrder", "item")
  /\ \E found \in First(menuItems, Current(c).menuItemId) :
       IF found = {} THEN Reply(c, 400, {})
       ELSE NextItem(c, Append(handler[c].lines,
                               [menuItemId |-> Current(c).menuItemId,
                                quantity |-> Current(c).quantity, price |-> 0]))
  /\ UNCHANGED <<userTable, menuTable, orderTable, up, http>>

MenuItemFound(c) ==
  /\ At(c, "CreateOrder", "item")
  /\ \E found \in First(menuItems, Current(c).menuItemId) :
       IF found = {} THEN Reply(c, 400, {})
       ELSE \E m \in found :
              NextItem(c, Append(handler[c].lines,
                                 [menuItemId |-> Current(c).menuItemId,
                                  quantity |-> Current(c).quantity, price |-> m.price]))
  /\ UNCHANGED <<userTable, menuTable, orderTable, up, http>>

(* The rows of order_items that belong to order o. *)
ItemRows(o, lines) ==
  {[orderId |-> o.id, n |-> k, menuItemId |-> lines[k].menuItemId,
    quantity |-> lines[k].quantity, price |-> lines[k].price] : k \in DOMAIN lines}

(* Mutant: the error of DB.Create is not looked at. *)
StoreOrder_ErrorIgnored(c) ==
  /\ At(c, "CreateOrder", "insert")
  /\ \E res \in Create(orders, orderSeq,
                       [id |-> 0, userId |-> http[c].req.userId, status |-> "pending"],
                       FALSE) :
       LET items == ItemRows(res.row, handler[c].lines)
       IN  /\ orders' = res.table
           /\ orderSeq' = res.seq
           /\ IF res.table = orders
                THEN UNCHANGED <<orderItems, placed>>
                ELSE /\ orderItems' = orderItems \cup items
                     /\ placed' = [placed EXCEPT ![c] = @ \cup {res.row.id}]
           /\ Reply(c, 201, {WholeOrder(res.row, items)})
  /\ UNCHANGED <<userTable, menuTable, up, http>>

(* DB.Create(&order) stores the order and its items in one transaction. *)
StoreOrder(c) ==
  /\ At(c, "CreateOrder", "insert")
  /\ \E res \in Create(orders, orderSeq,
                       [id |-> 0, userId |-> http[c].req.userId, status |-> "pending"],
                       FALSE) :
       LET items == ItemRows(res.row, handler[c].lines)
       IN  /\ orders' = res.table
           /\ orderSeq' = res.seq
           /\ IF res.table = orders
                THEN UNCHANGED <<orderItems, placed>>
                ELSE /\ orderItems' = orderItems \cup items
                     /\ placed' = [placed EXCEPT ![c] = @ \cup {res.row.id}]
           /\ IF res.err THEN Reply(c, 500, {})
                ELSE Reply(c, 201, {WholeOrder(res.row, items)})
  /\ UNCHANGED <<userTable, menuTable, up, http>>

(* Preload("OrderItems").Find(&orders): two SELECTs, no transaction. *)
GetOrders(c) ==
  /\ At(c, "GetOrders", "query")
  /\ \E fails \in FindFails :
       IF fails THEN Reply(c, 500, {})
       ELSE handler' = [handler EXCEPT ![c].pc = "preload", ![c].rows = orders]
  /\ UNCHANGED <<userTable, menuTable, orderTable, up, http>>

Preload(c) ==
  /\ At(c, "GetOrders", "preload")
  /\ \E fails \in FindFails :
       IF fails THEN Reply(c, 500, {})
       ELSE Reply(c, 200, {WholeOrder(o, orderItems) : o \in handler[c].rows})
  /\ UNCHANGED <<userTable, menuTable, orderTable, up, http>>

-----------------------------------------------------------------------------
(* Mutant: a migration that creates the sequence of users.id again. *)
Start_NewSequence == /\ ~up
                     /\ up' = TRUE
                     /\ userSeq' = 1
                     /\ UNCHANGED <<users, menuTable, orderTable, http, handler>>

(* main: Connect and AutoMigrate, which keeps the rows, then listen.  When *)
(* the database does not answer the process exits: nothing changes.        *)
Start == /\ ~up
         /\ up' = TRUE
         /\ UNCHANGED <<userTable, menuTable, orderTable, http, handler>>

(* The process dies with its goroutines; their clients get no answer. *)
Crash == /\ "process" \in Faults
         /\ up
         /\ up' = FALSE
         /\ http' = [c \in Calls |-> IF http[c].st = "waiting"
                                       THEN [st |-> "lost", req |-> http[c].req]
                                       ELSE http[c]]
         /\ handler' = [c \in Calls |-> Idle]
         /\ UNCHANGED <<userTable, menuTable, orderTable>>

Serve(c) == \/ CreateUser(c) \/ GetUser(c) \/ CreateMenuItem(c) \/ GetMenu(c)
            \/ CreateOrder(c) \/ MenuItemFound(c) \/ StoreOrder(c)
            \/ GetOrders(c) \/ Preload(c) \/ Respond(c)

Next == \/ \E c \in Calls, r \in Requests : Receive(c, r)
        \/ \E c \in Calls : Serve(c)
        \/ Start
        \/ Crash

Spec == Init /\ [][Next]_vars

-----------------------------------------------------------------------------
(***************************************************************************)
(* Whatever concurrent handlers, explicit ids, failed statements and       *)
(* crashes do, the tables are the ledger that the services of practical 6  *)
(* implement too: splitting the monolith kept its promise.                 *)
(***************************************************************************)
Ledger == INSTANCE CafeLedger
            WITH menu <- menuItems,
                 orders <- {WholeOrder(o, orderItems) : o \in orders},
                 InitialUsers <- {}, InitialMenu <- {}

MonolithImplementsLedger == Ledger!Spec

(***************************************************************************)
(* 201 for an order only with the order stored, once, and exactly as asked *)
(* for: its user and its items in number, order and quantity.  400 only if *)
(* nothing was stored, so such a call may be repeated.                     *)
(***************************************************************************)
OrderAnswers ==
  \A c \in Calls : http[c].st = "answered" /\ http[c].req.op = "CreateOrder" =>
    /\ http[c].status = 400 => placed[c] = {}
    /\ http[c].status = 201 =>
         \E o \in orders :
           LET asked == http[c].req.items
               rows  == {i \in orderItems : i.orderId = o.id}
           IN  /\ placed[c] = {o.id}
               /\ http[c].body = {WholeOrder(o, orderItems)}
               /\ o.userId = http[c].req.userId
               /\ {i.n : i \in rows} = DOMAIN asked
               /\ \A i \in rows : /\ i.menuItemId = asked[i.n].menuItemId
                                   /\ i.quantity = asked[i.n].quantity

(***************************************************************************)
(* The handlers store the "ID" of a body as it is, behind the back of the  *)
(* sequence.  As long as no client sends one the sequence stays ahead of   *)
(* every id, through failed inserts and restarts, so no insert is refused  *)
(* for an id that somebody else has.                                       *)
(***************************************************************************)
GivesId(c, op) == http[c].st # "new" /\ http[c].req.op = op /\ http[c].req.id # 0

SequenceAhead ==
  /\ (\A c \in Calls : ~GivesId(c, "CreateUser")) => \A u \in users : u.id < userSeq
  /\ (\A c \in Calls : ~GivesId(c, "CreateMenuItem"))
       => \A m \in menuItems : m.id < menuSeq
  /\ \A o \in orders : o.id < orderSeq
=============================================================================
