------------------------------ MODULE RestCafe ------------------------------
(***************************************************************************)
(* practical5's microservices: the monolith split into a user, a menu and  *)
(* an order service with a database each, behind a gateway that forwards   *)
(* /api/users*, /api/menu* and /api/orders* to them.  The order service    *)
(* asks the other two over HTTP, without a timeout.                        *)
(*                                                                         *)
(* docker-compose starts the containers in the order of depends_on, which  *)
(* does not wait for a database to answer, and restarts none.              *)
(***************************************************************************)
EXTENDS Gorm, Sequences

CONSTANTS Calls,       \* the clients' HTTP calls
          Emails,
          Requests,    \* what clients send
          Malformed    \* stands for a body that does not decode

Services == {"user", "menu", "order"}
Procs == Services \cup {"gateway"}

VARIABLES users, orders, orderItems,    \* the tables that are used
          userSeq, orderSeq,            \* the sequences of their ids
          proc,       \* the state of each container
          call,       \* the call that each goroutine has made to a service
          handler,    \* the locals of the order service's goroutines
          http,       \* each call, as its client sees it
          placed      \* history: ids of the orders stored for a call

vars == <<users, orders, orderItems, userSeq, orderSeq, proc, call, handler,
          http, placed>>

userTable == <<users, userSeq>>
orderTable == <<orders, orderItems, orderSeq, placed>>

-----------------------------------------------------------------------------
User == [id : Nat, email : Emails, deleted : BOOLEAN]
Order == [id : Nat, userId : Nat, status : {"pending"}]
Line == [menuItemId : Nat, quantity : Int, price : Nat]
OrderItem == [orderId : Nat, n : Nat, menuItemId : Nat, quantity : Int, price : Nat]

CreateOrderRequest ==
  [op : {"CreateOrder"}, userId : Int, items : Seq([menuItemId : Int, quantity : Int])]

(* GET /api/menu, which the menu service has no route for, is "ListMenu". *)
UserRequest ==
  [op : {"CreateUser"}, id : Nat, email : Emails \cup {Malformed}, deleted : BOOLEAN]
    \cup [op : {"GetUser"}, id : Nat \cup {Text}] \cup [op : {"GetUsers"}]
MenuRequest == [op : {"CreateMenu"}, menu : {"menu", Malformed}]
                 \cup [op : {"GetMenu"}, id : Nat \cup {Text}] \cup [op : {"ListMenu"}]
OrderRequest == CreateOrderRequest \cup [op : {"GetOrders"}]

ASSUME RestAssumption == /\ Requests \subseteq UserRequest \cup MenuRequest \cup OrderRequest
                         /\ Malformed \notin Emails
                         /\ Faults \subseteq Procs \cup {"db"}

WholeOrder(o, items) == [id |-> o.id, userId |-> o.userId, status |-> o.status,
                         items |-> {i \in items : i.orderId = o.id}]

(* Status 0 is a connection that broke instead of bringing an answer. *)
Statuses == {200, 201, 400, 404, 405, 500}

Body == User \cup [id : Nat, userId : Nat, status : {"pending"}, items : SUBSET OrderItem]

CallStates == [st : {"idle"}]
                \cup [st : {"sent"}, req : UserRequest \cup MenuRequest \cup OrderRequest]
                \cup [st : {"done"}, status : Statuses \cup {0}, body : SUBSET Body]

HttpStates == [st : {"new"}]
                \cup [st : {"waiting", "lost"}, req : Requests]
                \cup [st : {"answered"}, req : Requests, status : Statuses \cup {502},
                      body : SUBSET Body]

Locals == [pc : {"idle", "user", "menu", "insert", "preload"}, lines : Seq(Line),
           rows : SUBSET Order]

(* The types of tables, containers, calls and answers. *)
RestTypeOK ==
  /\ users \subseteq User /\ orders \subseteq Order /\ orderItems \subseteq OrderItem
  /\ userSeq \in Nat \ {0} /\ orderSeq \in Nat \ {0}
  /\ proc \in [Procs -> {"created", "running", "exited"}]
  /\ call \in [Services -> [Calls -> CallStates]]
  /\ handler \in [Calls -> Locals]
  /\ http \in [Calls -> HttpStates]
  /\ placed \in [Calls -> SUBSET Nat]

Idle == [st |-> "idle"]
Sent(req) == [st |-> "sent", req |-> req]
Done(status, body) == [st |-> "done", status |-> status, body |-> body]
NoLocals == [pc |-> "idle", lines |-> <<>>, rows |-> {}]

Init == /\ users = {} /\ orders = {} /\ orderItems = {}
        /\ userSeq = 1 /\ orderSeq = 1
        /\ proc = [p \in Procs |-> "created"]
        /\ call = [s \in Services |-> [c \in Calls |-> Idle]]
        /\ handler = [c \in Calls |-> NoLocals]
        /\ http = [c \in Calls |-> [st |-> "new"]]
        /\ placed = [c \in Calls |-> {}]

-----------------------------------------------------------------------------
(* A service that runs has been asked for op on behalf of call c. *)
Asked(s, c, op) == /\ proc[s] = "running"
                   /\ call[s][c].st = "sent"
                   /\ call[s][c].req.op = op

Answer(s, c, status, body) == call' = [call EXCEPT ![s][c] = Done(status, body)]

(* Mutant: no return after the answer to a body that does not decode. *)
CreateUser_NoReturn(c) ==
  /\ Asked("user", c, "CreateUser")
  /\ LET r == call["user"][c].req
     IN  \E res \in Create(users, userSeq,
                           [id |-> r.id, email |-> r.email, deleted |-> r.deleted],
                           \E u \in users : u.email = r.email) :
           /\ users' = res.table
           /\ userSeq' = res.seq
           /\ IF res.err THEN Answer("user", c, 500, {})
                ELSE Answer("user", c, 201, {res.row})
  /\ UNCHANGED <<orderTable, proc, handler, http>>

(* user-service *)
CreateUser(c) ==
  /\ Asked("user", c, "CreateUser")
  /\ LET r == call["user"][c].req
     IN  IF r.email = Malformed
         THEN Answer("user", c, 400, {}) /\ UNCHANGED userTable
         ELSE \E res \in Create(users, userSeq,
                                [id |-> r.id, email |-> r.email, deleted |-> r.deleted],
                                \E u \in users : u.email = r.email) :
                /\ users' = res.table
                /\ userSeq' = res.seq
                /\ IF res.err THEN Answer("user", c, 500, {})
                     ELSE Answer("user", c, 201, {res.row})
  /\ UNCHANGED <<orderTable, proc, handler, http>>

(* Every error of First is answered with 404. *)
GetUser(c) ==
  /\ Asked("user", c, "GetUser")
  /\ \E found \in FirstByParam(users, call["user"][c].req.id) :
       IF found = {} THEN Answer("user", c, 404, {}) ELSE Answer("user", c, 200, found)
  /\ UNCHANGED <<userTable, orderTable, proc, handler, http>>

GetUsers(c) ==
  /\ Asked("user", c, "GetUsers")
  /\ \E fails \in FindFails :
       IF fails THEN Answer("user", c, 500, {}) ELSE Answer("user", c, 200, Live(users))
  /\ UNCHANGED <<userTable, orderTable, proc, handler, http>>

-----------------------------------------------------------------------------
(***************************************************************************)
(* menu-service.  Its handlers work on models.Menu, whose has-many         *)
(* relation `references:MenuID' names a field that Menu does not have.     *)
(* GORM refuses such a model, so Create and First fail before any SQL; the *)
(* table for a Menu is not migrated either.  There is no GET /menu.        *)
(***************************************************************************)
CreateMenu(c) ==
  /\ Asked("menu", c, "CreateMenu")
  /\ IF call["menu"][c].req.menu = Malformed THEN Answer("menu", c, 400, {})
       ELSE Answer("menu", c, 500, {})
  /\ UNCHANGED <<userTable, orderTable, proc, handler, http>>

GetMenu(c) ==
  /\ Asked("menu", c, "GetMenu")
  /\ Answer("menu", c, 404, {})
  /\ UNCHANGED <<userTable, orderTable, proc, handler, http>>

ListMenu(c) ==
  /\ Asked("menu", c, "ListMenu")
  /\ Answer("menu", c, 405, {})
  /\ UNCHANGED <<userTable, orderTable, proc, handler, http>>

-----------------------------------------------------------------------------
(***************************************************************************)
(* order-service.  CreateOrder asks for the user, then for the menu of     *)
(* every item; an error, or any status but 200, is answered with 400.      *)
(***************************************************************************)
At(c, op, pc) == Asked("order", c, op) /\ handler[c].pc = pc

Return(c, calls, status, body) ==
  /\ call' = [calls EXCEPT !["order"][c] = Done(status, body)]
  /\ handler' = [handler EXCEPT ![c] = NoLocals]

CreateOrder(c) ==
  /\ At(c, "CreateOrder", "idle")
  /\ LET r == call["order"][c].req
     IN  IF r.userId \in Nat /\ \A k \in DOMAIN r.items : r.items[k].menuItemId \in Nat
         THEN /\ call' = [call EXCEPT !["user"][c] =
                            Sent([op |-> "GetUser", id |-> r.userId])]
              /\ handler' = [handler EXCEPT ![c].pc = "user"]
         ELSE Return(c, call, 400, {})
  /\ UNCHANGED <<userTable, orderTable, proc, http>>

(* The next round of the loop over req.Items, or its end. *)
NextItem(c, lines) ==
  LET items == call["order"][c].req.items
      k     == Len(lines) + 1
  IN  IF k <= Len(items)
      THEN /\ call' = [call EXCEPT !["user"][c] = Idle, !["menu"][c] =
                         Sent([op |-> "GetMenu", id |-> items[k].menuItemId])]
           /\ handler' = [handler EXCEPT ![c].pc = "menu", ![c].lines = lines]
      ELSE /\ call' = [call EXCEPT !["user"][c] = Idle, !["menu"][c] = Idle]
           /\ handler' = [handler EXCEPT ![c].pc = "insert", ![c].lines = lines]

(* Mutant: only the error of http.Get is looked at, not the status. *)
UserChecked_NoStatus(c) ==
  /\ At(c, "CreateOrder", "user")
  /\ call["user"][c].st = "done"
  /\ IF call["user"][c].status # 0 THEN NextItem(c, <<>>)
       ELSE Return(c, [call EXCEPT !["user"][c] = Idle], 400, {})
  /\ UNCHANGED <<userTable, orderTable, proc, http>>

UserChecked(c) ==
  /\ At(c, "CreateOrder", "user")
  /\ call["user"][c].st = "done"
  /\ IF call["user"][c].status = 200 THEN NextItem(c, <<>>)
       ELSE Return(c, [call EXCEPT !["user"][c] = Idle], 400, {})
  /\ UNCHANGED <<userTable, orderTable, proc, http>>

(* The price is decoded from the JSON of a Menu, which has none: it is 0. *)
MenuChecked(c) ==
  /\ At(c, "CreateOrder", "menu")
  /\ call["menu"][c].st = "done"
  /\ LET lines == handler[c].lines
         item  == call["order"][c].req.items[Len(lines) + 1]
     IN  IF call["menu"][c].status = 200
         THEN NextItem(c, Append(lines, [menuItemId |-> item.menuItemId,
                                         quantity |-> item.quantity, price |-> 0]))
         ELSE Return(c, [call EXCEPT !["menu"][c] = Idle], 400, {})
  /\ UNCHANGED <<userTable, orderTable, proc, http>>

ItemRows(o, lines) ==
  {[orderId |-> o.id, n |-> k, menuItemId |-> lines[k].menuItemId,
    quantity |-> lines[k].quantity, price |-> lines[k].price] : k \in DOMAIN lines}

(* Mutant: the error of Create is not looked at. *)
StoreOrder_ErrorIgnored(c) ==
  /\ At(c, "CreateOrder", "insert")
  /\ \E res \in Create(orders, orderSeq,
                       [id |-> 0, userId |-> call["order"][c].req.userId,
                        status |-> "pending"], FALSE) :
       LET items == ItemRows(res.row, handler[c].lines)
       IN  /\ orders' = res.table
           /\ orderSeq' = res.seq
           /\ IF res.table = orders
                THEN UNCHANGED <<orderItems, placed>>
                ELSE /\ orderItems' = orderItems \cup items
                     /\ placed' = [placed EXCEPT ![c] = @ \cup {res.row.id}]
           /\ Return(c, call, 201, {WholeOrder(res.row, items)})
  /\ UNCHANGED <<userTable, proc, http>>

(* DB.Create(&order) stores the order and its items in one transaction. *)
StoreOrder(c) ==
  /\ At(c, "CreateOrder", "insert")
  /\ \E res \in Create(orders, orderSeq,
                       [id |-> 0, userId |-> call["order"][c].req.userId,
                        status |-> "pending"], FALSE) :
       LET items == ItemRows(res.row, handler[c].lines)
       IN  /\ orders' = res.table
           /\ orderSeq' = res.seq
           /\ IF res.table = orders
                THEN UNCHANGED <<orderItems, placed>>
                ELSE /\ orderItems' = orderItems \cup items
                     /\ placed' = [placed EXCEPT ![c] = @ \cup {res.row.id}]
           /\ IF res.err THEN Return(c, call, 500, {})
                ELSE Return(c, call, 201, {WholeOrder(res.row, items)})
  /\ UNCHANGED <<userTable, proc, http>>

(* Preload("OrderItems").Find(&orders): two SELECTs, no transaction. *)
GetOrders(c) ==
  /\ At(c, "GetOrders", "idle")
  /\ \E fails \in FindFails :
       IF fails THEN Return(c, call, 500, {})
       ELSE /\ handler' = [handler EXCEPT ![c].pc = "preload", ![c].rows = orders]
            /\ UNCHANGED call
  /\ UNCHANGED <<userTable, orderTable, proc, http>>

Preload(c) ==
  /\ At(c, "GetOrders", "preload")
  /\ \E fails \in FindFails :
       IF fails THEN Return(c, call, 500, {})
       ELSE Return(c, call, 200, {WholeOrder(o, orderItems) : o \in handler[c].rows})
  /\ UNCHANGED <<userTable, orderTable, proc, http>>

-----------------------------------------------------------------------------
(* api-gateway: the route of a request, and the reverse proxy. *)
Target(r) == CASE r.op \in {"CreateUser", "GetUser", "GetUsers"} -> "user"
               [] r.op \in {"CreateMenu", "GetMenu", "ListMenu"} -> "menu"
               [] r.op \in {"CreateOrder", "GetOrders"}          -> "order"

ProxyTo(c, r) ==
  /\ proc["gateway"] = "running"
  /\ http[c].st = "new"
  /\ http' = [http EXCEPT ![c] = [st |-> "waiting", req |-> r]]
  /\ call' = [call EXCEPT ![Target(r)][c] = Sent(r)]
  /\ UNCHANGED <<userTable, orderTable, proc, handler>>

(* Mutant: a proxy that waits for another answer when the connection broke. *)
ServeHTTP_NoErrorHandler(c) ==
  /\ proc["gateway"] = "running"
  /\ http[c].st = "waiting"
  /\ LET s == Target(http[c].req)
     IN  /\ call[s][c].st = "done"
         /\ call[s][c].status # 0
         /\ http' = [http EXCEPT ![c] =
                       [st |-> "answered", req |-> @.req,
                        status |-> call[s][c].status, body |-> call[s][c].body]]
         /\ call' = [call EXCEPT ![s][c] = Idle]
  /\ UNCHANGED <<userTable, orderTable, proc, handler>>

(* The answer is passed on; a broken connection becomes 502. *)
ServeHTTP(c) ==
  /\ proc["gateway"] = "running"
  /\ http[c].st = "waiting"
  /\ LET s == Target(http[c].req)
     IN  /\ call[s][c].st = "done"
         /\ http' = [http EXCEPT ![c] =
                       [st |-> "answered", req |-> @.req,
                        status |-> IF call[s][c].status = 0 THEN 502
                                   ELSE call[s][c].status,
                        body |-> call[s][c].body]]
         /\ call' = [call EXCEPT ![s][c] = Idle]
  /\ UNCHANGED <<userTable, orderTable, proc, handler>>

(* Nobody listens where the call goes to. *)
Refuse(s, c) ==
  /\ proc[s] # "running"
  /\ call[s][c].st = "sent"
  /\ Answer(s, c, 0, {})
  /\ UNCHANGED <<userTable, orderTable, proc, handler, http>>

-----------------------------------------------------------------------------
tables == <<userTable, orderTable>>

DependsOn(p) == CASE p = "order"   -> {"user", "menu"}
                  [] p = "gateway" -> Services
                  [] OTHER         -> {}

(* main: a service exits (log.Fatalf) if its database does not answer yet; *)
(* a container that exited stays so until somebody starts it again.        *)
Main(p) ==
  /\ proc[p] # "running"
  /\ \A q \in DependsOn(p) : proc[q] # "created"
  /\ \E connected \in IF p = "gateway" \/ "db" \notin Faults THEN {TRUE} ELSE BOOLEAN :
       proc' = [proc EXCEPT ![p] = IF connected THEN "running" ELSE "exited"]
  /\ UNCHANGED <<tables, call, handler, http>>

(* Calls that a dead process had not answered, or whose answer is lost. *)
Broken(calls, lost) ==
  [c \in Calls |-> IF calls[c].st = "sent" \/ c \in lost THEN Done(0, {}) ELSE calls[c]]

Crash(s) ==
  /\ s \in Faults \cap {"user", "menu"}
  /\ proc[s] = "running"
  /\ proc' = [proc EXCEPT ![s] = "exited"]
  /\ \E lost \in SUBSET {c \in Calls : call[s][c].st = "done"} :
       call' = [call EXCEPT ![s] = Broken(@, lost)]
  /\ UNCHANGED <<tables, handler, http>>

(* The order service dies with its goroutines, and nobody waits any more   *)
(* for what they had asked the other services.                             *)
CrashOrder ==
  LET waits(s) == {c \in Calls : handler[c].pc = s}
  IN  /\ "order" \in Faults
      /\ proc["order"] = "running"
      /\ proc' = [proc EXCEPT !["order"] = "exited"]
      /\ \E lost \in SUBSET {c \in Calls : call["order"][c].st = "done"} :
           call' = [s \in Services |->
                      IF s = "order" THEN Broken(call[s], lost)
                      ELSE [c \in Calls |-> IF c \in waits(s) THEN Idle ELSE call[s][c]]]
      /\ handler' = [c \in Calls |-> NoLocals]
      /\ UNCHANGED <<tables, http>>

(* The gateway dies; the handlers it called go on, for nobody. *)
CrashGateway ==
  /\ "gateway" \in Faults
  /\ proc["gateway"] = "running"
  /\ proc' = [proc EXCEPT !["gateway"] = "exited"]
  /\ http' = [c \in Calls |-> IF http[c].st = "waiting"
                                THEN [st |-> "lost", req |-> http[c].req] ELSE http[c]]
  /\ UNCHANGED <<tables, call, handler>>

UserServe(c) == CreateUser(c) \/ GetUser(c) \/ GetUsers(c) \/ Refuse("user", c)
MenuServe(c) == CreateMenu(c) \/ GetMenu(c) \/ ListMenu(c) \/ Refuse("menu", c)
OrderServe(c) == \/ CreateOrder(c) \/ UserChecked(c) \/ MenuChecked(c) \/ StoreOrder(c)
                 \/ GetOrders(c) \/ Preload(c) \/ Refuse("order", c)

Next == \/ \E c \in Calls : UserServe(c) \/ MenuServe(c) \/ OrderServe(c) \/ ServeHTTP(c)
        \/ \E c \in Calls, r \in Requests : ProxyTo(c, r)
        \/ \E p \in Procs : Main(p) \/ Crash(p)
        \/ CrashOrder \/ CrashGateway

Spec == Init /\ [][Next]_vars

(***************************************************************************)
(* Goroutines that can run do, and a connection to a process that is gone  *)
(* is noticed.  Nobody has to start a container again.                     *)
(***************************************************************************)
Fairness == \A c \in Calls : /\ WF_vars(UserServe(c)) /\ WF_vars(MenuServe(c))
                             /\ WF_vars(OrderServe(c)) /\ WF_vars(ServeHTTP(c))

FairSpec == Spec /\ Fairness

-----------------------------------------------------------------------------
(***************************************************************************)
(* The split services keep the promise of the monolith: an order of a      *)
(* stored user, at the prices of the menu.  The menu of this ledger is     *)
(* empty for ever, so what is stored are orders without items.             *)
(***************************************************************************)
Ledger == INSTANCE CafeLedger
            WITH menu <- {}, orders <- {WholeOrder(o, orderItems) : o \in orders},
                 InitialUsers <- {}, InitialMenu <- {}

RestImplementsLedger == Ledger!Spec

(***************************************************************************)
(* What the gateway passes on about an order is true although three        *)
(* processes can die on the way: 201 only with the order stored once for   *)
(* this call, 400 only if nothing was, so that such a call may be repeated *)
(* (502 and 500 may not: the order can be there).                          *)
(***************************************************************************)
RestOrderAnswers ==
  \A c \in Calls : http[c].st = "answered" /\ http[c].req.op = "CreateOrder" =>
    /\ http[c].status = 400 => placed[c] = {}
    /\ http[c].status = 201 =>
         \E o \in orders : /\ placed[c] = {o.id}
                            /\ http[c].body = {WholeOrder(o, orderItems)}
                            /\ o.userId = http[c].req.userId
                            /\ Len(http[c].req.items) = 0

(***************************************************************************)
(* Neither the gateway nor http.Get has a timeout.  Every request ends all *)
(* the same, with an answer or with the death of the gateway, although a   *)
(* service may never have started because its database came too late.      *)
(***************************************************************************)
RequestsEnd ==
  \A c \in Calls : (http[c].st = "waiting") ~> (http[c].st \in {"answered", "lost"})

(***************************************************************************)
(* README.md of practical 5, "# Create menu item": a POST to /api/menu     *)
(* with a body that decodes creates something.                             *)
(***************************************************************************)
MenuCanBeFilled ==
  \A c \in Calls :
    http[c].st = "answered" /\ http[c].req.op = "CreateMenu" /\ http[c].req.menu # Malformed
      => http[c].status \in {201, 502}
=============================================================================
