----------------------------- MODULE RestProofs -----------------------------
(***************************************************************************)
(* The REST services of practical 5, for any number of calls and requests  *)
(* and any failures: RestTypeOK and RestOrderAnswers are invariants of     *)
(* RestCafe, and its tables implement CafeLedger with an empty menu.       *)
(***************************************************************************)
EXTENDS RestCafe, SequenceTheorems, TLAPS

(* What DB.Create leaves behind: the table as it was, or with a new id in it. *)
LEMMA CreateOutcome ==
  ASSUME NEW table, NEW seq, NEW new, NEW taken \in BOOLEAN,
         NEW res \in Create(table, seq, new, taken)
  PROVE  /\ res.row = [new EXCEPT !.id = Key(seq, new.id)]
         /\ res.err \in BOOLEAN
         /\ \/ /\ res.table = table
               /\ res.err
               /\ res.seq \in {seq, Drawn(seq, new.id)}
            \/ /\ res.table = table \cup {res.row}
               /\ res.seq = Drawn(seq, new.id)
               /\ ~taken
               /\ \A t \in table : t.id # res.row.id
<1> DEFINE row    == [new EXCEPT !.id = Key(seq, new.id)]
           next   == Drawn(seq, new.id)
           clash  == taken \/ \E t \in table : t.id = row.id
           stored == table \cup {row}
<1>1. \/ res = Outcome(IF clash THEN table ELSE stored, next, row, clash)
      \/ \E s \in {seq, next} : res = Outcome(table, s, row, TRUE)
      \/ ~clash /\ res = Outcome(stored, next, row, TRUE)
  BY DEF Create
<1>2. clash \in BOOLEAN
  OBVIOUS
<1>3. ~clash => ~taken /\ \A t \in table : t.id # row.id
  OBVIOUS
<1> HIDE DEF row, next, clash, stored
<1>4. CASE res = Outcome(IF clash THEN table ELSE stored, next, row, clash)
  <2>1. CASE clash
    BY <1>4, <2>1 DEF Outcome, row, next
  <2>2. CASE ~clash
    BY <1>4, <1>2, <2>2, <1>3 DEF Outcome, row, next, stored
  <2>3. QED BY <1>2, <2>1, <2>2
<1>5. ASSUME NEW s \in {seq, next}, res = Outcome(table, s, row, TRUE)
      PROVE  res.table = table /\ res.err = TRUE /\ res.seq \in {seq, next} /\ res.row = row
  BY <1>5 DEF Outcome
<1>6. CASE ~clash /\ res = Outcome(stored, next, row, TRUE)
  BY <1>6, <1>3 DEF Outcome, row, next, stored
<1>7. QED BY <1>1, <1>4, <1>5, <1>6 DEF row, next

(* The order of call c that decoded, and its user. *)
Decoded(r) == /\ r.userId \in Nat
              /\ \A k \in DOMAIN r.items : r.items[k].menuItemId \in Nat

UserFound(c) == \E u \in users : u.id = http[c].req.userId

(* The order stored for call c, with the body of its answer. *)
StoredAs(c, body) == \E o \in orders : /\ placed[c] = {o.id}
                                       /\ body = {WholeOrder(o, orderItems)}
                                       /\ o.userId = http[c].req.userId
                                       /\ Len(http[c].req.items) = 0

(* What status and body say about the order of call c is true. *)
Truthful(c, status, body) ==
  http[c].req.op = "CreateOrder" => /\ status = 400 => placed[c] = {}
                                    /\ status = 201 => StoredAs(c, body)

(***************************************************************************)
(* What the goroutine of the order service knows: it has collected no line *)
(* because no menu was found, and before DB.Create it has seen the user.   *)
(***************************************************************************)
RunInv(c) ==
  /\ handler[c].lines = <<>>
  /\ handler[c].pc # "idle" => proc["order"] = "running" /\ call["order"][c].st = "sent"
  /\ handler[c].pc \in {"user", "menu", "insert"} =>
       http[c].req.op = "CreateOrder" /\ Decoded(http[c].req)
  /\ handler[c].pc = "preload" => http[c].req.op = "GetOrders"
  /\ handler[c].pc = "insert" => UserFound(c) /\ Len(http[c].req.items) = 0

(* CreateOrder has asked for its user; the menu service finds nothing. *)
AskedUser(c) ==
  handler[c].pc = "user" =>
    /\ call["user"][c].st = "sent" =>
         call["user"][c].req = [op |-> "GetUser", id |-> http[c].req.userId]
    /\ call["user"][c].st = "done" /\ call["user"][c].status = 200 => UserFound(c)

NoMenu(c) == call["menu"][c].st = "done" => call["menu"][c].status # 200

SlotInv(c) ==
  /\ http[c].st = "new" => /\ handler[c].pc = "idle" /\ placed[c] = {}
                           /\ call["order"][c] = Idle
  /\ AskedUser(c)
  /\ NoMenu(c)
  /\ call["order"][c].st = "sent" => /\ call["order"][c].req = http[c].req
                                     /\ http[c].req.op \in {"CreateOrder", "GetOrders"}
                                     /\ http[c].st \in {"waiting", "lost"}
                                     /\ placed[c] = {}

(* Answers on their way to the gateway, and to the client. *)
ToldInv(c) ==
  /\ call["order"][c].st = "done" => Truthful(c, call["order"][c].status, call["order"][c].body)
  /\ http[c].st = "answered" => Truthful(c, http[c].status, http[c].body)

CallInv(c) == RunInv(c) /\ SlotInv(c) /\ ToldInv(c)

Inv == /\ RestTypeOK
       /\ orderItems = {}
       /\ \A c \in Calls : CallInv(c)

-----------------------------------------------------------------------------
(* One slot of one call is filled. *)
LEMMA SlotSet ==
  ASSUME NEW V, NEW f \in [Services -> [Calls -> V]],
         NEW s \in Services, NEW c \in Calls, NEW v \in V
  PROVE  LET g == [f EXCEPT ![s][c] = v] IN
         /\ g \in [Services -> [Calls -> V]]
         /\ g[s][c] = v
         /\ \A t \in Services : t # s => g[t] = f[t]
         /\ \A t \in Services : \A d \in Calls : d # c => g[t][d] = f[t][d]
OBVIOUS

(* The types of one call. *)
LEMMA CallTypes ==
  ASSUME RestTypeOK, NEW c \in Calls
  PROVE  /\ handler[c] \in Locals /\ http[c] \in HttpStates /\ placed[c] \subseteq Nat
         /\ \A s \in Services : call[s][c] \in CallStates
         /\ DOMAIN handler = Calls /\ DOMAIN http = Calls /\ DOMAIN placed = Calls
BY DEF RestTypeOK

LEMMA SlotTypes ==
  /\ Idle \in CallStates /\ Idle.st = "idle"
  /\ \A r \in UserRequest \cup MenuRequest \cup OrderRequest :
       Sent(r) \in CallStates /\ Sent(r).st = "sent" /\ Sent(r).req = r
  /\ Done(0, {}) \in CallStates /\ Done(0, {}).st = "done" /\ Done(0, {}).status = 0
  /\ \A status \in Statuses \cup {0}, body \in SUBSET Body :
       /\ Done(status, body) \in CallStates /\ Done(status, body).st = "done"
       /\ Done(status, body).status = status /\ Done(status, body).body = body
BY DEF Idle, Sent, Done, CallStates

LEMMA LocalsTypes ==
  /\ NoLocals \in Locals /\ NoLocals.pc = "idle" /\ NoLocals.lines = <<>>
BY EmptySeq DEF NoLocals, Locals

(* The answers of the other two services. *)
LEMMA AnswerTypes ==
  /\ {} \in SUBSET Body
  /\ 0 \in Statuses \cup {0} /\ 200 \in Statuses \cup {0} /\ 201 \in Statuses \cup {0}
  /\ 400 \in Statuses \cup {0} /\ 404 \in Statuses \cup {0} /\ 405 \in Statuses \cup {0}
  /\ 500 \in Statuses \cup {0}
BY DEF Statuses

LEMMA ServiceNames == "user" \in Services /\ "menu" \in Services /\ "order" \in Services
BY DEF Services

(* The requests, by their names. *)
LEMMA RequestTypes ==
  ASSUME NEW r \in UserRequest \cup MenuRequest \cup OrderRequest
  PROVE  /\ r.op = "CreateUser" => /\ r.id \in Nat /\ r.email \in Emails \cup {Malformed}
                                   /\ r.deleted \in BOOLEAN
         /\ r.op = "CreateOrder" => /\ r.userId \in Int
                                    /\ r.items \in Seq([menuItemId : Int, quantity : Int])
         /\ Target(r) \in Services
         /\ Target(r) = "order" <=> r.op \in {"CreateOrder", "GetOrders"}
<1>1. CASE r \in UserRequest
  BY <1>1 DEF UserRequest, Target, Services
<1>2. CASE r \in MenuRequest
  BY <1>2 DEF MenuRequest, Target, Services
<1>3. CASE r \in OrderRequest
  BY <1>3 DEF OrderRequest, CreateOrderRequest, Target, Services
<1>4. QED BY <1>1, <1>2, <1>3

-----------------------------------------------------------------------------
SlotsOK == call' \in [Services -> [Calls -> CallStates]]

(* The slot of call c at service s is filled with v. *)
Fills(s, c, v) == call' = [call EXCEPT ![s][c] = v]

LEMMA AnswerEffect ==
  ASSUME RestTypeOK, NEW s \in Services, NEW c \in Calls, NEW v \in CallStates,
         Fills(s, c, v)
  PROVE  /\ SlotsOK /\ call'[s][c] = v
         /\ \A t \in Services : t # s => call'[t] = call[t]
         /\ \A t \in Services : \A d \in Calls : d # c => call'[t][d] = call[t][d]
<1>1. call \in [Services -> [Calls -> CallStates]]
  BY DEF RestTypeOK
<1>2. QED BY <1>1, SlotSet DEF SlotsOK, Fills

NewUser(r) == [id |-> Key(userSeq, r.id), email |-> r.email, deleted |-> r.deleted]

LEMMA UserEffect ==
  ASSUME RestTypeOK, NEW c \in Calls, CreateUser(c)
  PROVE  LET r == call["user"][c].req
             u == NewUser(r) IN
         /\ proc["user"] = "running"
         /\ call["user"][c].st = "sent" /\ r.op = "CreateUser"
         /\ UNCHANGED <<orderTable, proc, handler, http>>
         /\ userSeq' \in {userSeq, userSeq + 1}
         /\ \/ users' = users
            \/ /\ users' = users \cup {u}
               /\ u \in User
               /\ \A v \in users : v.id # u.id /\ v.email # u.email
         /\ \E v \in CallStates : /\ v.st = "done" /\ Fills("user", c, v)
<1> DEFINE r == call["user"][c].req
           u == NewUser(r)
           new == [id |-> r.id, email |-> r.email, deleted |-> r.deleted]
           taken == \E v \in users : v.email = r.email
           Answered == \E v \in CallStates :
                         v.st = "done" /\ Fills("user", c, v)
<1>1. /\ proc["user"] = "running" /\ call["user"][c].st = "sent" /\ r.op = "CreateUser"
      /\ UNCHANGED <<orderTable, proc, handler, http>>
  BY DEF CreateUser, Asked
<1>2. r \in UserRequest \cup MenuRequest \cup OrderRequest
  <2>1. call["user"][c] \in CallStates
    BY CallTypes DEF Services
  <2>2. QED BY <1>1, <2>1 DEF CallStates
<1>3. r.id \in Nat /\ r.email \in Emails \cup {Malformed} /\ r.deleted \in BOOLEAN
  BY <1>1, <1>2, RequestTypes
<1>4. userSeq \in Nat \ {0}
  BY DEF RestTypeOK
<1>a. ASSUME NEW status \in Statuses \cup {0}, NEW body \in SUBSET Body,
             Answer("user", c, status, body)
      PROVE  Answered
  <2>1. PICK v \in CallStates : v = Done(status, body)
    BY <1>a, SlotTypes
  <2>2. v.st = "done" /\ v.status = status
    BY <1>a, <2>1, SlotTypes
  <2>3. Fills("user", c, v)
    BY <1>a, <2>1 DEF Answer, Fills
  <2>4. QED BY <1>a, <2>2, <2>3
<1>5. CASE r.email = Malformed
  <2>1. Answer("user", c, 400, {}) /\ UNCHANGED userTable
    BY <1>5 DEF CreateUser
  <2>2. Answered
    BY <1>a, <2>1, AnswerTypes
  <2>3. QED BY <1>1, <1>4, <2>1, <2>2 DEF userTable
<1>6. CASE r.email # Malformed
  <2>1. PICK res \in Create(users, userSeq, new, taken) :
          /\ users' = res.table
          /\ userSeq' = res.seq
          /\ IF res.err THEN Answer("user", c, 500, {}) ELSE Answer("user", c, 201, {res.row})
    BY <1>6 DEF CreateUser
  <2>2. [new EXCEPT !.id = Key(userSeq, new.id)] = u /\ new.id = r.id
    BY DEF NewUser
  <2>3. u \in User
    BY <1>3, <1>4, <1>6 DEF NewUser, User, Key
  <2>4. Drawn(userSeq, r.id) \in {userSeq, userSeq + 1}
    BY DEF Drawn
  <2>5. ~taken => \A v \in users : v.email # u.email
    BY DEF NewUser
  <2>6. taken \in BOOLEAN
    OBVIOUS
  <2> HIDE DEF new, taken, r, Answered
  <2>7. /\ res.row = u
        /\ res.err \in BOOLEAN
        /\ \/ /\ res.table = users
              /\ res.err
              /\ res.seq \in {userSeq, Drawn(userSeq, r.id)}
           \/ /\ res.table = users \cup {u}
              /\ res.seq = Drawn(userSeq, r.id)
              /\ ~taken
              /\ \A t \in users : t.id # u.id
    BY <2>2, <2>6, CreateOutcome
  <2> HIDE DEF u
  <2>8. {u} \in SUBSET Body
    BY <2>3 DEF Body
  <2>9. Answered
    BY <1>a, <2>1, <2>7, <2>8, AnswerTypes
  <2>10. userSeq' \in {userSeq, userSeq + 1}
    BY <2>1, <2>4, <2>7
  <2>11. \/ users' = users
         \/ /\ users' = users \cup {u}
            /\ \A v \in users : v.id # u.id /\ v.email # u.email
    BY <2>1, <2>5, <2>7
  <2>12. QED BY <1>1, <2>3, <2>9, <2>10, <2>11 DEF r, u, Answered
<1>7. QED BY <1>5, <1>6

(* A request for a user by a number, as the order service makes it. *)
NamesUser(r) == r.op = "GetUser" /\ r.id \in Nat

(* What a read of the user service answers is what it found. *)
LEMMA UserReadEffect ==
  ASSUME RestTypeOK, NEW c \in Calls, GetUser(c) \/ GetUsers(c) \/ Refuse("user", c)
  PROVE  /\ call["user"][c].st = "sent"
         /\ UNCHANGED <<userTable, orderTable, proc, handler, http>>
         /\ \E v \in CallStates :
              /\ v.st = "done" /\ Fills("user", c, v)
              /\ v.status = 200 /\ NamesUser(call["user"][c].req) =>
                   \E u \in users : u.id = call["user"][c].req.id
<1> DEFINE r == call["user"][c].req
<1>1. call["user"][c].st = "sent" /\ UNCHANGED <<userTable, orderTable, proc, handler, http>>
  BY DEF GetUser, GetUsers, Refuse, Asked
<1>2. users \subseteq User
  BY DEF RestTypeOK
<1>a. ASSUME NEW status \in Statuses \cup {0}, NEW body \in SUBSET Body,
             Answer("user", c, status, body)
      PROVE  \E v \in CallStates : /\ v.st = "done" /\ v.status = status
                                  /\ Fills("user", c, v)
  <2>1. PICK v \in CallStates : v = Done(status, body)
    BY <1>a, SlotTypes
  <2>2. v.st = "done" /\ v.status = status
    BY <1>a, <2>1, SlotTypes
  <2>3. Fills("user", c, v)
    BY <1>a, <2>1 DEF Answer, Fills
  <2>4. QED BY <2>2, <2>3
<1>3. CASE GetUser(c)
  <2>1. PICK found \in FirstByParam(users, r.id) :
          IF found = {} THEN Answer("user", c, 404, {}) ELSE Answer("user", c, 200, found)
    BY <1>3 DEF GetUser
  <2>2. /\ found \in SUBSET Body
        /\ r.id \in Nat => \A u \in found : u \in users /\ u.id = r.id
    BY <1>2, <2>1, GormAssumption DEF FirstByParam, First, Live, Body
  <2>3. CASE found = {}
    <3>1. Answer("user", c, 404, {})
      BY <2>1, <2>3
    <3>2. PICK v \in CallStates : /\ v.st = "done" /\ v.status = 404
                                 /\ Fills("user", c, v)
      BY <1>a, <3>1, AnswerTypes
    <3>3. v.status # 200
      BY <3>2
    <3>4. v.status = 200 /\ NamesUser(r) => \E u \in users : u.id = r.id
      BY <3>3
    <3>5. QED BY <1>1, <3>2, <3>4
  <2>4. CASE found # {}
    <3>1. Answer("user", c, 200, found)
      BY <2>1, <2>4
    <3>2. PICK v \in CallStates : /\ v.st = "done" /\ v.status = 200
                                 /\ Fills("user", c, v)
      BY <1>a, <2>2, <3>1, AnswerTypes
    <3>3. r.id \in Nat => \E u \in users : u.id = r.id
      BY <2>2, <2>4
    <3>4. v.status = 200 /\ NamesUser(r) => \E u \in users : u.id = r.id
      BY <3>3 DEF NamesUser
    <3>5. QED BY <1>1, <3>2, <3>4
  <2>5. QED BY <2>3, <2>4
<1>4. CASE GetUsers(c)
  <2>1. Answer("user", c, 500, {}) \/ Answer("user", c, 200, Live(users))
    BY <1>4 DEF GetUsers
  <2>2. ~NamesUser(r) /\ Live(users) \in SUBSET Body
    BY <1>2, <1>4 DEF GetUsers, Asked, NamesUser, Live, Body
  <2>3. PICK v \in CallStates : v.st = "done" /\ Fills("user", c, v)
    BY <1>a, <2>1, <2>2, AnswerTypes
  <2>4. QED BY <1>1, <2>2, <2>3
<1>5. CASE Refuse("user", c)
  <2>1. Answer("user", c, 0, {})
    BY <1>5 DEF Refuse
  <2>2. PICK v \in CallStates : /\ v.st = "done" /\ v.status = 0
                               /\ Fills("user", c, v)
    BY <1>a, <2>1, AnswerTypes
  <2>3. v.status # 200
    BY <2>2
  <2>4. QED BY <1>1, <2>2, <2>3, Zenon
<1>6. QED BY <1>3, <1>4, <1>5

(* The menu service never answers 200. *)
LEMMA MenuEffect ==
  ASSUME RestTypeOK, NEW c \in Calls, MenuServe(c)
  PROVE  /\ UNCHANGED <<userTable, orderTable, proc, handler, http>>
         /\ \E v \in CallStates : /\ v.st = "done" /\ v.status # 200
                                  /\ Fills("menu", c, v)
<1>1. UNCHANGED <<userTable, orderTable, proc, handler, http>>
  BY DEF MenuServe, CreateMenu, GetMenu, ListMenu, Refuse
<1>2. \E status \in {0, 400, 404, 405, 500} : Answer("menu", c, status, {})
  BY DEF MenuServe, CreateMenu, GetMenu, ListMenu, Refuse
<1>3. PICK status \in {0, 400, 404, 405, 500} : Answer("menu", c, status, {})
  BY <1>2
<1>4. status \in Statuses \cup {0} /\ status # 200
  BY DEF Statuses
<1>5. PICK v \in CallStates : v = Done(status, {}) /\ v.st = "done" /\ v.status = status
  <2>1. {} \in SUBSET Body
    OBVIOUS
  <2>2. PICK b \in SUBSET Body : b = {}
    BY <2>1
  <2>3. /\ Done(status, b) \in CallStates
        /\ Done(status, b).st = "done" /\ Done(status, b).status = status
    BY <1>4, SlotTypes
  <2>4. QED BY <2>2, <2>3
<1>6. Fills("menu", c, v)
  BY <1>3, <1>5 DEF Answer, Fills
<1>7. QED BY <1>1, <1>4, <1>5, <1>6

-----------------------------------------------------------------------------
(* The steps of CreateOrder and GetOrders.  Slots of other calls stay.    *)
Kept(c) == SlotsOK /\ \A s \in Services : \A d \in Calls : d # c => call'[s][d] = call[s][d]

Returns(c, status, body) == /\ Kept(c)
                            /\ call'["order"][c] = Done(status, body)
                            /\ call'["menu"][c] \in {call["menu"][c], Idle}
                            /\ handler' = [handler EXCEPT ![c] = NoLocals]

LEMMA ReturnEffect ==
  ASSUME RestTypeOK, NEW c \in Calls, NEW status \in Statuses \cup {0},
         NEW body \in SUBSET Body,
         NEW calls,
         \/ calls = call
         \/ calls = [call EXCEPT !["user"][c] = Idle]
         \/ calls = [call EXCEPT !["menu"][c] = Idle],
         Return(c, calls, status, body)
  PROVE  Returns(c, status, body)
<1>0. /\ call \in [Services -> [Calls -> CallStates]]
      /\ "user" \in Services /\ "menu" \in Services /\ "order" \in Services
  BY DEF RestTypeOK, Services
<1>1. Idle \in CallStates /\ Done(status, body) \in CallStates
  BY SlotTypes
<1>2. /\ calls \in [Services -> [Calls -> CallStates]]
      /\ calls["menu"][c] \in {call["menu"][c], Idle}
      /\ \A s \in Services : \A d \in Calls : d # c => calls[s][d] = call[s][d]
  <2>1. CASE calls = call
    BY <1>0, <2>1
  <2>2. CASE calls = [call EXCEPT !["user"][c] = Idle]
    BY <1>0, <1>1, <2>2, SlotSet
  <2>3. CASE calls = [call EXCEPT !["menu"][c] = Idle]
    BY <1>0, <1>1, <2>3, SlotSet
  <2>4. QED BY <2>1, <2>2, <2>3
<1>3. PICK v \in CallStates : v = Done(status, body)
  BY <1>1
<1>4. call' = [calls EXCEPT !["order"][c] = v] /\ handler' = [handler EXCEPT ![c] = NoLocals]
  BY <1>3 DEF Return
<1>5. /\ call' \in [Services -> [Calls -> CallStates]]
      /\ call'["order"][c] = v
      /\ call'["menu"] = calls["menu"]
      /\ \A s \in Services : \A d \in Calls : d # c => call'[s][d] = calls[s][d]
  BY <1>0, <1>2, <1>4, SlotSet
<1>6. QED BY <1>2, <1>3, <1>4, <1>5 DEF Returns, Kept, SlotsOK

(* What the order service was asked for is what the client sent. *)
LEMMA OrderAsked ==
  ASSUME Inv, NEW c \in Calls, call["order"][c].st = "sent"
  PROVE  /\ call["order"][c].req = http[c].req
         /\ http[c].req \in UserRequest \cup MenuRequest \cup OrderRequest
         /\ http[c].req.op \in {"CreateOrder", "GetOrders"}
         /\ http[c].st \in {"waiting", "lost"}
         /\ placed[c] = {}
<1>1. SlotInv(c) /\ call["order"][c] \in CallStates
  BY CallTypes DEF Inv, CallInv, Services
<1>2. QED BY <1>1 DEF SlotInv, CallStates

GoesTo(c, pc) == /\ Kept(c)
                 /\ call'["order"][c] = call["order"][c]
                 /\ handler' = [handler EXCEPT ![c].pc = pc, ![c].lines = <<>>]

LEMMA CreateEffect ==
  ASSUME Inv, NEW c \in Calls, CreateOrder(c)
  PROVE  /\ call["order"][c].st = "sent" /\ http[c].req.op = "CreateOrder"
         /\ proc["order"] = "running"
         /\ UNCHANGED <<userTable, orderTable, proc, http>>
         /\ \/ /\ Decoded(http[c].req)
               /\ GoesTo(c, "user")
               /\ call'["user"][c] = Sent([op |-> "GetUser", id |-> http[c].req.userId])
               /\ call'["menu"][c] = call["menu"][c]
            \/ Returns(c, 400, {})
<1> DEFINE r == call["order"][c].req
           ask == [op |-> "GetUser", id |-> r.userId]
<1>0. RestTypeOK /\ handler[c].lines = <<>> /\ handler[c] \in Locals /\ DOMAIN handler = Calls
  BY CallTypes DEF Inv, CallInv, RunInv
<1>1. /\ call["order"][c].st = "sent" /\ proc["order"] = "running" /\ r.op = "CreateOrder"
      /\ UNCHANGED <<userTable, orderTable, proc, http>>
  BY DEF CreateOrder, At, Asked
<1>2. r = http[c].req
  BY <1>1, OrderAsked
<1>3. CASE Decoded(r)
  <2>1. /\ call' = [call EXCEPT !["user"][c] = Sent(ask)]
        /\ handler' = [handler EXCEPT ![c].pc = "user"]
    BY <1>3 DEF CreateOrder, Decoded
  <2>2. ask \in UserRequest
    BY <1>3 DEF Decoded, UserRequest
  <2> HIDE DEF ask
  <2>3. PICK v \in CallStates : v = Sent(ask)
    BY <2>2, SlotTypes
  <2>4. /\ SlotsOK /\ call'["user"][c] = v
        /\ call'["menu"] = call["menu"] /\ call'["order"] = call["order"]
        /\ \A t \in Services : \A d \in Calls : d # c => call'[t][d] = call[t][d]
    <3>1. PICK s \in Services : s = "user"
      BY ServiceNames
    <3>2. Fills(s, c, v)
      BY <2>1, <2>3, <3>1 DEF Fills
    <3>3. RestTypeOK
      BY <1>0
    <3>4. /\ SlotsOK /\ call'[s][c] = v
          /\ \A t \in Services : t # s => call'[t] = call[t]
          /\ \A t \in Services : \A d \in Calls : d # c => call'[t][d] = call[t][d]
      BY <3>2, <3>3, AnswerEffect
    <3>5. QED BY <3>1, <3>4, ServiceNames
  <2>5. handler' = [handler EXCEPT ![c].pc = "user", ![c].lines = <<>>]
    BY <1>0, <2>1 DEF Locals
  <2>6. QED BY <1>1, <1>2, <1>3, <2>3, <2>4, <2>5 DEF GoesTo, Kept, ask
<1>4. CASE ~Decoded(r)
  <2>1. Return(c, call, 400, {})
    BY <1>4 DEF CreateOrder, Decoded
  <2>2. Returns(c, 400, {})
    BY <1>0, <2>1, ReturnEffect, AnswerTypes
  <2>3. QED BY <1>1, <1>2, <2>2
<1>5. QED BY <1>3, <1>4

LEMMA CheckedEffect ==
  ASSUME Inv, NEW c \in Calls, UserChecked(c)
  PROVE  /\ handler[c].pc = "user"
         /\ UNCHANGED <<userTable, orderTable, proc, http>>
         /\ \/ GoesTo(c, "menu") /\ call'["menu"][c].st = "sent"
            \/ /\ UserFound(c) /\ Len(http[c].req.items) = 0
               /\ GoesTo(c, "insert") /\ call'["menu"][c] = Idle
            \/ Returns(c, 400, {})
<1> DEFINE r == http[c].req
           ask == [op |-> "GetMenu", id |-> r.items[1].menuItemId]
<1>0. /\ RestTypeOK /\ RunInv(c) /\ SlotInv(c)
      /\ call \in [Services -> [Calls -> CallStates]]
  BY DEF Inv, CallInv, RestTypeOK
<1>1. /\ handler[c].pc = "user" /\ call["user"][c].st = "done"
      /\ call["order"][c].st = "sent"
      /\ UNCHANGED <<userTable, orderTable, proc, http>>
  BY DEF UserChecked, At, Asked
<1>2. /\ call["order"][c].req = r /\ Decoded(r) /\ r.op = "CreateOrder"
      /\ r \in UserRequest \cup MenuRequest \cup OrderRequest
  BY <1>0, <1>1, OrderAsked DEF RunInv
<1>3. r.items \in Seq([menuItemId : Int, quantity : Int])
  BY <1>2, RequestTypes
<1>4. Len(r.items) \in Nat /\ DOMAIN r.items = 1 .. Len(r.items)
  BY <1>3
<1>5. CASE call["user"][c].status = 200 /\ 1 <= Len(r.items)
  <2>1. NextItem(c, <<>>)
    BY <1>5 DEF UserChecked
  <2>2. /\ call' = [call EXCEPT !["user"][c] = Idle, !["menu"][c] = Sent(ask)]
        /\ handler' = [handler EXCEPT ![c].pc = "menu", ![c].lines = <<>>]
    BY <1>2, <1>5, <2>1 DEF NextItem
  <2>3. ask \in MenuRequest
    <3>1. r.items[1].menuItemId \in Nat
      BY <1>2, <1>4, <1>5 DEF Decoded
    <3>2. QED BY <3>1 DEF MenuRequest
  <2> HIDE DEF ask
  <2>4. PICK v \in CallStates : v = Sent(ask) /\ v.st = "sent"
    BY <2>3, SlotTypes
  <2>5. PICK f : f = [call EXCEPT !["user"][c] = Idle]
    OBVIOUS
  <2>6. /\ f \in [Services -> [Calls -> CallStates]] /\ f["order"] = call["order"]
        /\ \A t \in Services : \A d \in Calls : d # c => f[t][d] = call[t][d]
    BY <1>0, <2>5, SlotSet, SlotTypes, ServiceNames
  <2>7. call' = [f EXCEPT !["menu"][c] = v]
    BY <2>2, <2>4, <2>5
  <2>8. /\ SlotsOK /\ call'["menu"][c] = v /\ call'["order"] = f["order"]
        /\ \A t \in Services : \A d \in Calls : d # c => call'[t][d] = f[t][d]
    BY <2>6, <2>7, SlotSet, ServiceNames DEF SlotsOK
  <2>9. Kept(c)
    BY <2>6, <2>8 DEF Kept
  <2>10. GoesTo(c, "menu")
    BY <2>2, <2>6, <2>8, <2>9 DEF GoesTo
  <2>11. QED BY <1>1, <2>4, <2>8, <2>10
<1>6. CASE call["user"][c].status = 200 /\ ~(1 <= Len(r.items))
  <2>1. NextItem(c, <<>>)
    BY <1>6 DEF UserChecked
  <2>2. /\ call' = [call EXCEPT !["user"][c] = Idle, !["menu"][c] = Idle]
        /\ handler' = [handler EXCEPT ![c].pc = "insert", ![c].lines = <<>>]
    BY <1>2, <1>6, <2>1 DEF NextItem
  <2>3. UserFound(c) /\ Len(r.items) = 0
    BY <1>0, <1>1, <1>4, <1>6 DEF SlotInv, AskedUser
  <2>4. PICK v \in CallStates : v = Idle
    BY SlotTypes
  <2>5. PICK f : f = [call EXCEPT !["user"][c] = v]
    OBVIOUS
  <2>6. /\ f \in [Services -> [Calls -> CallStates]] /\ f["order"] = call["order"]
        /\ \A t \in Services : \A d \in Calls : d # c => f[t][d] = call[t][d]
    BY <1>0, <2>5, SlotSet, ServiceNames
  <2>7. call' = [f EXCEPT !["menu"][c] = v]
    BY <2>2, <2>4, <2>5
  <2>8. /\ SlotsOK /\ call'["menu"][c] = v /\ call'["order"] = f["order"]
        /\ \A t \in Services : \A d \in Calls : d # c => call'[t][d] = f[t][d]
    BY <2>6, <2>7, SlotSet, ServiceNames DEF SlotsOK
  <2>9. Kept(c)
    BY <2>6, <2>8 DEF Kept
  <2>10. GoesTo(c, "insert")
    BY <2>2, <2>6, <2>8, <2>9 DEF GoesTo
  <2>11. QED BY <1>1, <2>3, <2>4, <2>8, <2>10
<1>7. CASE call["user"][c].status # 200
  <2>1. Return(c, [call EXCEPT !["user"][c] = Idle], 400, {})
    BY <1>7 DEF UserChecked
  <2>2. RestTypeOK
    BY <1>0
  <2>3. Returns(c, 400, {})
    BY <2>1, <2>2, ReturnEffect, AnswerTypes
  <2>4. QED BY <1>1, <2>3
<1>8. QED BY <1>5, <1>6, <1>7

(* No item was ever found, so the loop ends with its first round. *)
LEMMA MenuCheckedEffect ==
  ASSUME Inv, NEW c \in Calls, MenuChecked(c)
  PROVE  /\ handler[c].pc = "menu"
         /\ UNCHANGED <<userTable, orderTable, proc, http>>
         /\ Returns(c, 400, {})
<1>0. RestTypeOK /\ SlotInv(c)
  BY DEF Inv, CallInv
<1>1. /\ handler[c].pc = "menu" /\ call["menu"][c].st = "done"
      /\ UNCHANGED <<userTable, orderTable, proc, http>>
  BY DEF MenuChecked, At
<1>2. call["menu"][c].status # 200
  BY <1>0, <1>1 DEF SlotInv, NoMenu
<1>3. Return(c, [call EXCEPT !["menu"][c] = Idle], 400, {})
  BY <1>2 DEF MenuChecked
<1>4. QED BY <1>0, <1>1, <1>3, ReturnEffect, AnswerTypes

(* The order that DB.Create stores for call c: it has no items. *)
NewOrder(c) == [id |-> orderSeq, userId |-> http[c].req.userId, status |-> "pending"]

LEMMA StoreEffect ==
  ASSUME Inv, NEW c \in Calls, StoreOrder(c)
  PROVE  /\ handler[c].pc = "insert"
         /\ UNCHANGED <<userTable, proc, http, orderItems>>
         /\ NewOrder(c) \in Order
         /\ orderSeq' \in {orderSeq, orderSeq + 1}
         /\ \/ UNCHANGED <<orders, placed>> /\ Returns(c, 500, {})
            \/ /\ orders' = orders \cup {NewOrder(c)}
               /\ \A o \in orders : o.id # orderSeq
               /\ placed' = [placed EXCEPT ![c] = {orderSeq}]
               /\ \/ Returns(c, 500, {})
                  \/ Returns(c, 201, {WholeOrder(NewOrder(c), {})})
<1> DEFINE o == NewOrder(c)
           new == [id |-> 0, userId |-> http[c].req.userId, status |-> "pending"]
           taken == FALSE
<1>0. taken \in BOOLEAN
  OBVIOUS
<1>t. /\ RestTypeOK /\ RunInv(c) /\ orderSeq \in Nat \ {0} /\ orderItems = {}
      /\ placed \in [Calls -> SUBSET Nat]
  BY DEF Inv, CallInv, RestTypeOK
<1>1. /\ handler[c].pc = "insert" /\ call["order"][c].st = "sent"
      /\ UNCHANGED <<userTable, proc, http>>
  BY DEF StoreOrder, At, Asked
<1>2. call["order"][c].req = http[c].req /\ placed[c] = {} /\ handler[c].lines = <<>>
  BY <1>t, <1>1, OrderAsked DEF RunInv
<1>3. \A row : ItemRows(row, handler[c].lines) = {}
  BY <1>2 DEF ItemRows
<1>4. PICK res \in Create(orders, orderSeq, new, taken) :
        /\ orders' = res.table
        /\ orderSeq' = res.seq
        /\ IF res.table = orders
             THEN UNCHANGED <<orderItems, placed>>
             ELSE /\ orderItems' = orderItems \cup {}
                  /\ placed' = [placed EXCEPT ![c] = @ \cup {res.row.id}]
        /\ IF res.err THEN Return(c, call, 500, {})
             ELSE Return(c, call, 201, {WholeOrder(res.row, {})})
  BY <1>2, <1>3 DEF StoreOrder
<1>5. [new EXCEPT !.id = Key(orderSeq, new.id)] = o /\ Drawn(orderSeq, new.id) = orderSeq + 1
  BY DEF NewOrder, Key, Drawn
<1>6. o.id = orderSeq
  BY DEF NewOrder
<1>7. o \in Order
  BY <1>t, <1>1 DEF NewOrder, Order, RunInv, Decoded
<1> HIDE DEF new, taken
<1>8. /\ res.row = o
      /\ res.err \in BOOLEAN
      /\ \/ /\ res.table = orders
            /\ res.err
            /\ res.seq \in {orderSeq, orderSeq + 1}
         \/ /\ res.table = orders \cup {o}
            /\ res.seq = orderSeq + 1
            /\ \A t \in orders : t.id # o.id
  BY <1>0, <1>5, CreateOutcome
<1> HIDE DEF o
<1>9. {WholeOrder(o, {})} \in SUBSET Body
  BY <1>7 DEF WholeOrder, Body, Order
<1>10. /\ res.err => Returns(c, 500, {})
       /\ ~res.err => Returns(c, 201, {WholeOrder(o, {})})
  BY <1>t, <1>4, <1>8, <1>9, ReturnEffect, AnswerTypes
<1>11. orderItems' = orderItems /\ orderSeq' \in {orderSeq, orderSeq + 1}
  BY <1>4, <1>8
<1>12. CASE res.table = orders /\ res.err
  BY <1>1, <1>4, <1>7, <1>10, <1>11, <1>12 DEF o
<1>13. CASE res.table = orders \cup {o} /\ \A t \in orders : t.id # o.id
  <2>1. res.table # orders
    BY <1>13
  <2>2. placed' = [placed EXCEPT ![c] = {orderSeq}]
    BY <1>t, <1>2, <1>4, <1>6, <1>8, <2>1
  <2>3. QED BY <1>1, <1>4, <1>6, <1>7, <1>8, <1>10, <1>11, <1>13, <2>2 DEF o
<1>14. QED BY <1>8, <1>12, <1>13

(* GetOrders reads the orders, then their items. *)
LEMMA ListEffect ==
  ASSUME Inv, NEW c \in Calls, GetOrders(c) \/ Preload(c)
  PROVE  /\ call["order"][c].st = "sent" /\ http[c].req.op = "GetOrders"
         /\ proc["order"] = "running"
         /\ UNCHANGED <<userTable, orderTable, proc, http>>
         /\ \/ /\ UNCHANGED call
               /\ handler' = [handler EXCEPT ![c].pc = "preload", ![c].rows = orders]
            \/ \E status \in {200, 500}, body \in SUBSET Body : Returns(c, status, body)
<1>0. /\ RestTypeOK /\ handler[c] \in Locals /\ orderItems \subseteq OrderItem
  BY CallTypes DEF Inv, RestTypeOK
<1>1. /\ call["order"][c].st = "sent" /\ call["order"][c].req.op = "GetOrders"
      /\ proc["order"] = "running"
      /\ UNCHANGED <<userTable, orderTable, proc, http>>
  BY DEF GetOrders, Preload, At, Asked
<1>2. call["order"][c].req = http[c].req
  BY <1>1, OrderAsked
<1>3. PICK body : body = {WholeOrder(o, orderItems) : o \in handler[c].rows}
  OBVIOUS
<1>4. body \in SUBSET Body
  BY <1>0, <1>3 DEF WholeOrder, Body, Order, Locals
<1>5. \/ Return(c, call, 500, {}) \/ Return(c, call, 200, body)
      \/ /\ UNCHANGED call
         /\ handler' = [handler EXCEPT ![c].pc = "preload", ![c].rows = orders]
  BY <1>3 DEF GetOrders, Preload
<1>6. /\ Return(c, call, 500, {}) => Returns(c, 500, {})
      /\ Return(c, call, 200, body) => Returns(c, 200, body)
  BY <1>0, <1>4, ReturnEffect, AnswerTypes
<1>7. QED BY <1>1, <1>2, <1>4, <1>5, <1>6, AnswerTypes

-----------------------------------------------------------------------------
(* The gateway: a request goes to one service, its answer to the client.  *)
LEMMA RequestOf ==
  ASSUME RestTypeOK, NEW c \in Calls, http[c].st # "new"
  PROVE  /\ http[c].req \in Requests
         /\ http[c].req \in UserRequest \cup MenuRequest \cup OrderRequest
<1>1. http[c] \in HttpStates
  BY CallTypes
<1>2. http[c].req \in Requests
  BY <1>1 DEF HttpStates
<1>3. QED BY <1>2, RestAssumption

LEMMA ProxyEffect ==
  ASSUME RestTypeOK, NEW c \in Calls, NEW r \in Requests, ProxyTo(c, r)
  PROVE  /\ UNCHANGED <<userTable, orderTable, proc, handler>>
         /\ http[c].st = "new" /\ http' = [http EXCEPT ![c] = [st |-> "waiting", req |-> r]]
         /\ Kept(c)
         /\ \A s \in Services : call'[s][c] = IF s = Target(r) THEN Sent(r) ELSE call[s][c]
<1>1. r \in UserRequest \cup MenuRequest \cup OrderRequest
  BY RestAssumption
<1>2. Target(r) \in Services
  BY <1>1, RequestTypes
<1>3. PICK s \in Services, v \in CallStates : s = Target(r) /\ v = Sent(r)
  BY <1>1, <1>2, SlotTypes
<1>4. Fills(s, c, v)
  BY <1>3 DEF ProxyTo, Fills
<1>5. /\ SlotsOK /\ call'[s][c] = v
      /\ \A t \in Services : t # s => call'[t] = call[t]
      /\ \A t \in Services : \A d \in Calls : d # c => call'[t][d] = call[t][d]
  BY <1>4, AnswerEffect
<1>6. QED BY <1>3, <1>5 DEF ProxyTo, Kept

LEMMA ServeEffect ==
  ASSUME RestTypeOK, NEW c \in Calls, ServeHTTP(c)
  PROVE  LET s == Target(http[c].req) IN
         /\ UNCHANGED <<userTable, orderTable, proc, handler>>
         /\ s \in Services /\ http[c].st = "waiting" /\ call[s][c].st = "done"
         /\ http' = [http EXCEPT ![c] =
                       [st |-> "answered", req |-> http[c].req,
                        status |-> IF call[s][c].status = 0 THEN 502 ELSE call[s][c].status,
                        body |-> call[s][c].body]]
         /\ Kept(c)
         /\ \A t \in Services : call'[t][c] = IF t = s THEN Idle ELSE call[t][c]
<1>1. http[c].st = "waiting" /\ UNCHANGED <<userTable, orderTable, proc, handler>>
  BY DEF ServeHTTP
<1>2. Target(http[c].req) \in Services
  BY <1>1, RequestOf, RequestTypes
<1>3. PICK s \in Services, v \in CallStates : s = Target(http[c].req) /\ v = Idle
  BY <1>2, SlotTypes
<1>4. /\ Fills(s, c, v) /\ call[s][c].st = "done"
      /\ http' = [http EXCEPT ![c] =
                    [st |-> "answered", req |-> http[c].req,
                     status |-> IF call[s][c].status = 0 THEN 502 ELSE call[s][c].status,
                     body |-> call[s][c].body]]
  <2>1. DOMAIN http = Calls
    BY CallTypes
  <2>2. QED BY <1>3, <2>1 DEF ServeHTTP, Fills
<1>5. /\ SlotsOK /\ call'[s][c] = v
      /\ \A t \in Services : t # s => call'[t] = call[t]
      /\ \A t \in Services : \A d \in Calls : d # c => call'[t][d] = call[t][d]
  BY <1>4, AnswerEffect
<1>6. QED BY <1>1, <1>3, <1>4, <1>5 DEF Kept

-----------------------------------------------------------------------------
(* What a step does to call d: its own goroutines, a crash, or nothing. *)
Same(d) == /\ handler'[d] = handler[d] /\ http'[d] = http[d] /\ placed'[d] = placed[d]
           /\ \A s \in Services : call'[s][d] = call[s][d]

(* The process of another service has died. *)
Cut(d) == /\ handler'[d] = handler[d] /\ http'[d] = http[d] /\ placed'[d] = placed[d]
          /\ call'["order"][d] = call["order"][d]
          /\ \A s \in {"user", "menu"} : call'[s][d] \in {call[s][d], Done(0, {})}

(* The order service has died, with its goroutine. *)
Killed(d) == /\ handler'[d] = NoLocals /\ http'[d] = http[d] /\ placed'[d] = placed[d]
             /\ \/ call'["order"][d] = call["order"][d] /\ call["order"][d].st # "sent"
                \/ call'["order"][d] = Done(0, {}) /\ call["order"][d] # Idle
             /\ \A s \in {"user", "menu"} : call'[s][d] \in {call[s][d], Idle}

(* The gateway has died. *)
Lost(d) == /\ handler'[d] = handler[d] /\ placed'[d] = placed[d]
           /\ http'[d] = IF http[d].st = "waiting"
                           THEN [st |-> "lost", req |-> http[d].req] ELSE http[d]
           /\ \A s \in Services : call'[s][d] = call[s][d]

Proxied(c) == \E r \in Requests : ProxyTo(c, r)

UserReading(c) == GetUser(c) \/ GetUsers(c) \/ Refuse("user", c)

(* A step of the goroutines of call c. *)
Running(c) == \/ Proxied(c) \/ ServeHTTP(c) \/ UserServe(c) \/ MenuServe(c) \/ OrderServe(c)

LEMMA OneSlot ==
  ASSUME RestTypeOK, NEW c \in Calls, NEW s \in Services, NEW v \in CallStates,
         Fills(s, c, v)
  PROVE  Kept(c)
BY AnswerEffect DEF Kept

LEMMA RefuseEffect ==
  ASSUME RestTypeOK, NEW c \in Calls, Refuse("order", c)
  PROVE  /\ proc["order"] # "running" /\ call["order"][c].st = "sent"
         /\ UNCHANGED <<userTable, orderTable, proc, handler, http>>
         /\ Kept(c) /\ call'["order"][c] = Done(0, {})
         /\ call'["user"] = call["user"] /\ call'["menu"] = call["menu"]
<1>1. PICK v \in CallStates, s \in Services : v = Done(0, {}) /\ s = "order"
  BY SlotTypes, ServiceNames
<1>2. Fills(s, c, v)
  BY <1>1 DEF Refuse, Answer, Fills
<1>3. /\ SlotsOK /\ call'[s][c] = v
      /\ \A t \in Services : t # s => call'[t] = call[t]
      /\ \A t \in Services : \A d \in Calls : d # c => call'[t][d] = call[t][d]
  BY <1>2, AnswerEffect
<1>4. "user" # s /\ "menu" # s
  BY <1>1
<1>5. QED BY <1>1, <1>3, <1>4, ServiceNames DEF Refuse, Kept

(* The locals of goroutine c are the only ones that may change, in type. *)
LocalsKept(c) == /\ handler' \in [Calls -> Locals]
                 /\ \A d \in Calls : d # c => handler'[d] = handler[d]

LEMMA OrderKept ==
  ASSUME Inv, NEW c \in Calls, OrderServe(c)
  PROVE  /\ UNCHANGED <<userTable, proc, http>>
         /\ Kept(c) /\ LocalsKept(c)
         /\ \A d \in Calls : d # c => placed'[d] = placed[d]
<1>t. /\ RestTypeOK /\ handler \in [Calls -> Locals] /\ placed \in [Calls -> SUBSET Nat]
      /\ orders \subseteq Order
  BY DEF Inv, RestTypeOK
<1>a. ASSUME NEW status, NEW body, Returns(c, status, body) PROVE Kept(c) /\ LocalsKept(c)
  BY <1>a, <1>t, LocalsTypes DEF Returns, LocalsKept
<1>b. ASSUME NEW pc \in {"user", "menu", "insert"}, GoesTo(c, pc)
      PROVE  Kept(c) /\ LocalsKept(c)
  <2>1. [handler[c] EXCEPT !.pc = pc, !.lines = <<>>] \in Locals
    BY <1>t, EmptySeq DEF Locals
  <2>2. QED BY <1>b, <1>t, <2>1 DEF GoesTo, LocalsKept
<1>1. CASE CreateOrder(c)
  <2>1. UNCHANGED <<userTable, proc, http, placed>>
    BY <1>1, CreateEffect DEF orderTable
  <2>2. GoesTo(c, "user") \/ Returns(c, 400, {})
    BY <1>1, CreateEffect
  <2>3. QED BY <1>a, <1>b, <2>1, <2>2
<1>2. CASE UserChecked(c)
  <2>1. UNCHANGED <<userTable, proc, http, placed>>
    BY <1>2, CheckedEffect DEF orderTable
  <2>2. GoesTo(c, "menu") \/ GoesTo(c, "insert") \/ Returns(c, 400, {})
    BY <1>2, CheckedEffect
  <2>3. QED BY <1>a, <1>b, <2>1, <2>2
<1>3. CASE MenuChecked(c)
  BY <1>3, <1>a, MenuCheckedEffect DEF orderTable
<1>4. CASE StoreOrder(c)
  <2>1. UNCHANGED <<userTable, proc, http>> /\ Kept(c) /\ LocalsKept(c)
    <3>1. UNCHANGED <<userTable, proc, http>>
      BY <1>4, StoreEffect
    <3>2. Returns(c, 500, {}) \/ Returns(c, 201, {WholeOrder(NewOrder(c), {})})
      BY <1>4, StoreEffect
    <3>3. QED BY <1>a, <3>1, <3>2
  <2>2. placed' = placed \/ placed' = [placed EXCEPT ![c] = {orderSeq}]
    BY <1>4, StoreEffect
  <2>3. QED BY <1>t, <2>1, <2>2
<1>5. CASE GetOrders(c) \/ Preload(c)
  <2>1. UNCHANGED <<userTable, proc, http, placed>>
    BY <1>5, ListEffect DEF orderTable
  <2>2. CASE /\ UNCHANGED call
             /\ handler' = [handler EXCEPT ![c].pc = "preload", ![c].rows = orders]
    <3>1. [handler[c] EXCEPT !.pc = "preload", !.rows = orders] \in Locals
      BY <1>t DEF Locals
    <3>2. LocalsKept(c)
      BY <1>t, <2>2, <3>1 DEF LocalsKept
    <3>3. Kept(c)
      BY <1>t, <2>2 DEF Kept, SlotsOK, RestTypeOK
    <3>4. QED BY <2>1, <3>2, <3>3
  <2>3. CASE \E status \in {200, 500}, body \in SUBSET Body : Returns(c, status, body)
    BY <1>a, <2>1, <2>3
  <2>4. QED BY <1>5, <2>2, <2>3, ListEffect
<1>6. CASE Refuse("order", c)
  BY <1>6, <1>t, RefuseEffect DEF LocalsKept, orderTable
<1>7. QED BY <1>1, <1>2, <1>3, <1>4, <1>5, <1>6 DEF OrderServe

LEMMA OneCall ==
  ASSUME Inv, NEW c \in Calls, Running(c)
  PROVE  /\ proc' = proc /\ Kept(c)
         /\ \A d \in Calls : d # c => Same(d)
         /\ handler' \in [Calls -> Locals]
<1>t. RestTypeOK /\ handler \in [Calls -> Locals] /\ DOMAIN http = Calls
  BY CallTypes DEF Inv, RestTypeOK
<1>1. CASE Proxied(c)
  <2>1. PICK r \in Requests : ProxyTo(c, r)
    BY <1>1 DEF Proxied
  <2>2. /\ UNCHANGED <<proc, handler, placed>> /\ Kept(c)
        /\ http' = [http EXCEPT ![c] = [st |-> "waiting", req |-> r]]
    BY <1>t, <2>1, ProxyEffect DEF orderTable
  <2>3. QED BY <1>t, <2>2 DEF Same, Kept
<1>2. CASE ServeHTTP(c)
  <2>1. UNCHANGED <<proc, handler, placed>> /\ Kept(c)
    BY <1>t, <1>2, ServeEffect DEF orderTable
  <2>2. \A d \in Calls : d # c => http'[d] = http[d]
    BY <1>t, <1>2, ServeEffect
  <2>3. QED BY <1>t, <2>1, <2>2 DEF Same, Kept
<1>3. CASE UserServe(c)
  <2>1. UNCHANGED <<proc, handler, http, placed>>
    BY <1>3 DEF UserServe, CreateUser, GetUser, GetUsers, Refuse, orderTable
  <2>2. \E v \in CallStates : Fills("user", c, v)
    <3>1. CASE CreateUser(c)
      BY <1>t, <3>1, UserEffect
    <3>2. CASE GetUser(c) \/ GetUsers(c) \/ Refuse("user", c)
      BY <1>t, <3>2, UserReadEffect
    <3>3. QED BY <1>3, <3>1, <3>2 DEF UserServe
  <2>3. Kept(c)
    BY <1>t, <2>2, OneSlot, ServiceNames
  <2>4. QED BY <1>t, <2>1, <2>3 DEF Same, Kept
<1>4. CASE MenuServe(c)
  <2>1. /\ UNCHANGED <<proc, handler, http, placed>>
        /\ \E v \in CallStates : Fills("menu", c, v)
    BY <1>t, <1>4, MenuEffect DEF orderTable
  <2>2. Kept(c)
    BY <1>t, <2>1, OneSlot, ServiceNames
  <2>3. QED BY <1>t, <2>1, <2>2 DEF Same, Kept
<1>5. CASE OrderServe(c)
  BY <1>5, OrderKept DEF Same, Kept, LocalsKept
<1>6. QED BY <1>1, <1>2, <1>3, <1>4, <1>5 DEF Running

LEMMA CrashEffect ==
  ASSUME RestTypeOK, NEW s \in Procs, Crash(s), NEW d \in Calls
  PROVE  Cut(d)
<1>1. s \in {"user", "menu"} /\ s \in Services
  BY ServiceNames DEF Crash
<1>2. PICK lost \in SUBSET {c \in Calls : call[s][c].st = "done"} :
        call' = [call EXCEPT ![s] = Broken(@, lost)]
  BY DEF Crash
<1>3. DOMAIN call = Services
  BY DEF RestTypeOK
<1>4. call'[s] = Broken(call[s], lost) /\ \A t \in Services : t # s => call'[t] = call[t]
  BY <1>1, <1>2, <1>3
<1>5. call'[s][d] \in {call[s][d], Done(0, {})}
  BY <1>4 DEF Broken
<1>6. \A t \in Services : t # s => call'[t][d] = call[t][d]
  BY <1>4
<1>7. call'["order"][d] = call["order"][d]
  BY <1>1, <1>6, ServiceNames
<1>8. \A t \in {"user", "menu"} : call'[t][d] \in {call[t][d], Done(0, {})}
  BY <1>5, <1>6, ServiceNames
<1>9. QED BY <1>7, <1>8 DEF Crash, Cut, tables, orderTable

LEMMA CrashOrderEffect ==
  ASSUME RestTypeOK, CrashOrder, NEW d \in Calls
  PROVE  Killed(d)
<1> DEFINE waits(s) == {c \in Calls : handler[c].pc = s}
<1>1. /\ handler' = [c \in Calls |-> NoLocals] /\ UNCHANGED <<http, placed>>
  BY DEF CrashOrder, tables, orderTable
<1>2. PICK lost \in SUBSET {c \in Calls : call["order"][c].st = "done"} :
        call' = [s \in Services |->
                   IF s = "order" THEN Broken(call[s], lost)
                   ELSE [c \in Calls |-> IF c \in waits(s) THEN Idle ELSE call[s][c]]]
  BY DEF CrashOrder
<1>3. call'["order"][d] = IF call["order"][d].st = "sent" \/ d \in lost
                            THEN Done(0, {}) ELSE call["order"][d]
  BY <1>2, ServiceNames DEF Broken
<1>4. call["order"][d].st = "sent" \/ d \in lost => call["order"][d] # Idle
  BY SlotTypes
<1>5. \A s \in {"user", "menu"} : call'[s][d] \in {call[s][d], Idle}
  BY <1>2, ServiceNames
<1>6. QED BY <1>1, <1>3, <1>4, <1>5 DEF Killed

LEMMA CallStep ==
  ASSUME Inv, [Next]_vars, NEW d \in Calls
  PROVE  Same(d) \/ Running(d) \/ Cut(d) \/ Killed(d) \/ Lost(d)
<1>t. RestTypeOK
  BY DEF Inv
<1>1. CASE UNCHANGED vars
  BY <1>1 DEF vars, Same
<1>2. ASSUME NEW c \in Calls, Running(c) PROVE Same(d) \/ Running(d)
  <2>1. CASE c = d
    BY <1>2, <2>1, Zenon
  <2>2. CASE c # d
    BY <1>2, <2>2, OneCall
  <2>3. QED BY <2>1, <2>2
<1>3. ASSUME NEW p \in Procs, Main(p) PROVE Same(d)
  BY <1>3 DEF Main, Same, tables, orderTable
<1>4. ASSUME NEW p \in Procs, Crash(p) PROVE Cut(d)
  BY <1>4, <1>t, CrashEffect
<1>5. CASE CrashOrder
  BY <1>5, <1>t, CrashOrderEffect
<1>6. CASE CrashGateway
  BY <1>6 DEF CrashGateway, Lost, tables, orderTable
<1>7. QED
  BY <1>1, <1>2, <1>3, <1>4, <1>5, <1>6 DEF Next, Running, Proxied

-----------------------------------------------------------------------------
(* The tables. *)
Writing(c) == CreateUser(c) \/ StoreOrder(c)

LEMMA TableCases ==
  ASSUME Inv, [Next]_vars
  PROVE  UNCHANGED tables \/ \E c \in Calls : Writing(c)
<1>t. RestTypeOK
  BY DEF Inv
<1>1. ASSUME NEW c \in Calls, UserServe(c) \/ MenuServe(c) PROVE UNCHANGED tables \/ Writing(c)
  BY <1>1 DEF UserServe, MenuServe, GetUser, GetUsers, Refuse, CreateMenu, GetMenu,
              ListMenu, Writing, tables
<1>2. ASSUME NEW c \in Calls, OrderServe(c) PROVE UNCHANGED tables \/ Writing(c)
  BY <1>2 DEF OrderServe, CreateOrder, UserChecked, MenuChecked, GetOrders, Preload, Refuse,
              Writing, tables
<1>3. ASSUME NEW c \in Calls, ServeHTTP(c) PROVE UNCHANGED tables
  BY <1>3 DEF ServeHTTP, tables
<1>4. ASSUME NEW c \in Calls, NEW r \in Requests, ProxyTo(c, r) PROVE UNCHANGED tables
  BY <1>4 DEF ProxyTo, tables
<1>5. ASSUME NEW p \in Procs, Main(p) \/ Crash(p) PROVE UNCHANGED tables
  BY <1>5 DEF Main, Crash
<1>6. CASE CrashOrder \/ CrashGateway
  BY <1>6 DEF CrashOrder, CrashGateway
<1>7. CASE UNCHANGED vars
  BY <1>7 DEF vars, tables, userTable, orderTable
<1>8. QED
  BY <1>1, <1>2, <1>3, <1>4, <1>5, <1>6, <1>7 DEF Next

(* Rows are added and stay, and no item is ever stored. *)
LEMMA TablesStep ==
  ASSUME Inv, [Next]_vars
  PROVE  /\ users \subseteq users' /\ orders \subseteq orders' /\ orderItems' = {}
         /\ users' \subseteq User /\ orders' \subseteq Order
         /\ userSeq' \in Nat \ {0} /\ orderSeq' \in Nat \ {0}
         /\ placed' \in [Calls -> SUBSET Nat]
<1>t. /\ RestTypeOK /\ orderItems = {} /\ users \subseteq User /\ orders \subseteq Order
      /\ userSeq \in Nat \ {0} /\ orderSeq \in Nat \ {0} /\ placed \in [Calls -> SUBSET Nat]
  BY DEF Inv, RestTypeOK
<1>1. CASE UNCHANGED tables
  BY <1>1, <1>t DEF tables, userTable, orderTable
<1>2. ASSUME NEW c \in Calls, CreateUser(c)
      PROVE  /\ users \subseteq users' /\ users' \subseteq User /\ userSeq' \in Nat \ {0}
             /\ UNCHANGED <<orders, orderItems, orderSeq, placed>>
  <2>1. PICK u : u = NewUser(call["user"][c].req)
    OBVIOUS
  <2>2. /\ users' = users \/ (users' = users \cup {u} /\ u \in User)
        /\ userSeq' \in {userSeq, userSeq + 1}
        /\ UNCHANGED <<orders, orderItems, orderSeq, placed>>
    BY <1>2, <1>t, <2>1, UserEffect DEF orderTable
  <2>3. QED BY <1>t, <2>2
<1>3. ASSUME NEW c \in Calls, StoreOrder(c)
      PROVE  /\ orders \subseteq orders' /\ orders' \subseteq Order /\ orderItems' = {}
             /\ orderSeq' \in Nat \ {0} /\ placed' \in [Calls -> SUBSET Nat]
             /\ UNCHANGED <<users, userSeq>>
  <2>1. PICK o : o = NewOrder(c)
    OBVIOUS
  <2>2. /\ o \in Order
        /\ orders' = orders \/ orders' = orders \cup {o}
        /\ orderSeq' \in {orderSeq, orderSeq + 1}
        /\ placed' = placed \/ placed' = [placed EXCEPT ![c] = {orderSeq}]
        /\ orderItems' = orderItems /\ UNCHANGED <<users, userSeq>>
    BY <1>3, <2>1, StoreEffect DEF userTable
  <2>3. QED BY <1>t, <2>1, <2>2, <1>3, StoreEffect
<1>4. QED BY <1>1, <1>2, <1>3, <1>t, TableCases DEF Writing

LEMMA TypeStep ==
  ASSUME Inv, [Next]_vars
  PROVE  RestTypeOK' /\ (orderItems = {})'
<1>t. /\ RestTypeOK /\ handler \in [Calls -> Locals] /\ http \in [Calls -> HttpStates]
      /\ call \in [Services -> [Calls -> CallStates]]
      /\ proc \in [Procs -> {"created", "running", "exited"}]
  BY DEF Inv, RestTypeOK
<1> DEFINE Rest == /\ proc' \in [Procs -> {"created", "running", "exited"}]
                   /\ SlotsOK
                   /\ handler' \in [Calls -> Locals] /\ http' \in [Calls -> HttpStates]
<1>d. Done(0, {}) \in CallStates /\ Idle \in CallStates
  BY SlotTypes
<1>1. ASSUME UNCHANGED vars PROVE Rest
  BY <1>1, <1>t DEF vars, SlotsOK
<1>2. ASSUME NEW c \in Calls, Running(c) PROVE Rest
  <2>1. proc' = proc /\ Kept(c) /\ handler' \in [Calls -> Locals]
    BY <1>2, OneCall
  <2>2. http' \in [Calls -> HttpStates]
    <3>1. CASE Proxied(c)
      <4>1. PICK r \in Requests : ProxyTo(c, r)
        BY <3>1 DEF Proxied
      <4>2. [st |-> "waiting", req |-> r] \in HttpStates
        BY DEF HttpStates
      <4>3. QED BY <1>t, <4>1, <4>2, ProxyEffect
    <3>2. CASE ServeHTTP(c)
      <4>1. PICK s \in Services : s = Target(http[c].req)
        BY <1>t, <3>2, ServeEffect
      <4>a. PICK code : code = IF call[s][c].status = 0 THEN 502 ELSE call[s][c].status
        OBVIOUS
      <4>2. PICK h : h = [st |-> "answered", req |-> http[c].req, status |-> code,
                          body |-> call[s][c].body]
        OBVIOUS
      <4>3. /\ http' = [http EXCEPT ![c] = h]
            /\ http[c].st = "waiting" /\ call[s][c].st = "done"
        BY <1>t, <3>2, <4>1, <4>a, <4>2, ServeEffect
      <4>4. http[c].req \in Requests
        BY <1>t, <4>3, RequestOf
      <4>5. call[s][c].status \in Statuses \cup {0} /\ call[s][c].body \in SUBSET Body
        <5>1. call[s][c] \in CallStates
          BY <1>t
        <5>2. QED BY <4>3, <5>1 DEF CallStates
      <4>6. h \in HttpStates
        BY <4>a, <4>2, <4>4, <4>5 DEF HttpStates
      <4>7. QED BY <1>t, <4>3, <4>6
    <3>3. CASE UserServe(c) \/ MenuServe(c)
      BY <3>3, <1>t DEF UserServe, MenuServe, CreateUser, GetUser, GetUsers, Refuse, CreateMenu,
                        GetMenu, ListMenu
    <3>4. CASE OrderServe(c)
      BY <3>4, <1>t, OrderKept
    <3>5. QED BY <1>2, <3>1, <3>2, <3>3, <3>4 DEF Running
  <2>3. QED BY <1>t, <2>1, <2>2 DEF Kept
<1>3. ASSUME NEW p \in Procs, Main(p) PROVE Rest
  BY <1>3, <1>t DEF Main, SlotsOK
<1>4. ASSUME NEW p \in Procs, Crash(p) PROVE Rest
  <2>1. PICK lost : call' = [call EXCEPT ![p] = Broken(@, lost)]
    BY <1>4 DEF Crash
  <2>2. p \in Services /\ proc' = [proc EXCEPT ![p] = "exited"] /\ UNCHANGED <<handler, http>>
    BY <1>4, ServiceNames DEF Crash
  <2>3. Broken(call[p], lost) \in [Calls -> CallStates]
    BY <1>t, <1>d, <2>2 DEF Broken
  <2>4. SlotsOK
    BY <1>t, <2>1, <2>2, <2>3 DEF SlotsOK
  <2>5. proc' \in [Procs -> {"created", "running", "exited"}]
    BY <1>t, <2>2
  <2>6. QED BY <1>t, <2>2, <2>4, <2>5
<1>5. ASSUME CrashOrder PROVE Rest
  <2>1. PICK lost :
          call' = [s \in Services |->
                     IF s = "order" THEN Broken(call[s], lost)
                     ELSE [c \in Calls |-> IF c \in {e \in Calls : handler[e].pc = s}
                                             THEN Idle ELSE call[s][c]]]
    BY <1>5 DEF CrashOrder
  <2>2. \A s \in Services : call'[s] \in [Calls -> CallStates]
    BY <1>t, <1>d, <2>1 DEF Broken
  <2>3. SlotsOK
    BY <2>1, <2>2 DEF SlotsOK
  <2>4. proc' \in [Procs -> {"created", "running", "exited"}]
    BY <1>5, <1>t DEF CrashOrder
  <2>5. handler' \in [Calls -> Locals] /\ http' = http
    BY <1>5, LocalsTypes DEF CrashOrder
  <2>6. QED BY <1>t, <2>3, <2>4, <2>5
<1>6. ASSUME CrashGateway PROVE Rest
  <2>1. proc' \in [Procs -> {"created", "running", "exited"}] /\ call' = call /\ handler' = handler
    BY <1>6, <1>t DEF CrashGateway
  <2>2. \A c \in Calls : http[c].st = "waiting"
                           => [st |-> "lost", req |-> http[c].req] \in HttpStates
    BY <1>t, RequestOf DEF HttpStates
  <2>3. http' \in [Calls -> HttpStates]
    BY <1>6, <1>t, <2>2 DEF CrashGateway
  <2>4. QED BY <1>t, <2>1, <2>3 DEF SlotsOK
<1>7. Rest
  BY <1>1, <1>2, <1>3, <1>4, <1>5, <1>6 DEF Next, Running, Proxied
<1>8. QED BY <1>7, TablesStep DEF RestTypeOK, SlotsOK

(* The order service runs on, except where it crashes. *)
LEMMA ProcStep ==
  ASSUME Inv, [Next]_vars, ~CrashOrder, proc["order"] = "running"
  PROVE  proc'["order"] = "running"
<1>t. proc \in [Procs -> {"created", "running", "exited"}]
  BY DEF Inv, RestTypeOK
<1>1. ASSUME NEW c \in Calls, Running(c) PROVE proc' = proc
  BY <1>1, OneCall
<1>2. ASSUME NEW p \in Procs, Main(p) \/ Crash(p) PROVE proc'["order"] = "running"
  <2>1. p # "order" /\ "order" \in Procs
    BY <1>2, ServiceNames DEF Main, Crash, Procs
  <2>2. \E v : proc' = [proc EXCEPT ![p] = v]
    BY <1>2 DEF Main, Crash
  <2>3. QED BY <1>t, <2>1, <2>2
<1>3. CASE CrashGateway
  BY <1>3, <1>t DEF CrashGateway, Procs, Services
<1>4. CASE UNCHANGED vars
  BY <1>4 DEF vars
<1>5. QED BY <1>1, <1>2, <1>3, <1>4 DEF Next, Running, Proxied

-----------------------------------------------------------------------------
(* What was true about call d stays true. *)
LEMMA FoundStays ==
  ASSUME Inv, [Next]_vars, NEW d \in Calls, http'[d].req = http[d].req, UserFound(d)
  PROVE  UserFound(d)'
BY TablesStep DEF UserFound

LEMMA TruthStays ==
  ASSUME Inv, [Next]_vars, NEW d \in Calls, NEW status, NEW body,
         http'[d].req = http[d].req, placed'[d] = placed[d], Truthful(d, status, body)
  PROVE  Truthful(d, status, body)'
<1>1. orderItems = {} /\ orderItems' = {} /\ orders \subseteq orders'
  BY TablesStep DEF Inv
<1>2. QED BY <1>1 DEF Truthful, StoredAs

(* A call whose goroutine at the order service and whose order slot stay. *)
HttpKept(d) == \/ http'[d] = http[d]
               \/ /\ http[d].st = "waiting"
                  /\ http'[d] = [st |-> "lost", req |-> http[d].req]

LEMMA KeptInv ==
  ASSUME Inv, [Next]_vars, NEW d \in Calls,
         proc["order"] = "running" => proc'["order"] = "running",
         handler'[d] = handler[d], placed'[d] = placed[d],
         call'["order"][d] = call["order"][d], HttpKept(d), AskedUser(d)', NoMenu(d)'
  PROVE  CallInv(d)'
<1>0. RunInv(d) /\ SlotInv(d) /\ ToldInv(d)
  BY DEF Inv, CallInv
<1>1. /\ http'[d].st # http[d].st => http[d].st = "waiting" /\ http'[d].st = "lost"
      /\ http'[d].req = http[d].req
  BY DEF HttpKept
<1>2. UserFound(d) => UserFound(d)'
  BY <1>1, FoundStays
<1>3. RunInv(d)'
  BY <1>0, <1>1, <1>2 DEF RunInv
<1>4. SlotInv(d)'
  BY <1>0, <1>1 DEF SlotInv
<1>5. PICK os, ob, hs, hb : /\ os = call["order"][d].status /\ ob = call["order"][d].body
                            /\ hs = http[d].status /\ hb = http[d].body
  OBVIOUS
<1>6. /\ Truthful(d, os, ob) => Truthful(d, os, ob)'
      /\ Truthful(d, hs, hb) => Truthful(d, hs, hb)'
  BY <1>1, TruthStays
<1>7. http'[d].st = "answered" => http'[d] = http[d]
  BY DEF HttpKept
<1>8. ToldInv(d)'
  BY <1>0, <1>5, <1>6, <1>7 DEF ToldInv
<1>9. QED BY <1>3, <1>4, <1>8 DEF CallInv

(* The goroutine of call d returns what is true. *)
LEMMA ReturnInv ==
  ASSUME Inv, NEW d \in Calls, NEW status \in Statuses \cup {0}, NEW body \in SUBSET Body,
         Returns(d, status, body), UNCHANGED http, call["order"][d].st = "sent",
         Truthful(d, status, body)'
  PROVE  CallInv(d)'
<1>0. SlotInv(d) /\ DOMAIN handler = Calls /\ http[d].st \in {"waiting", "lost"}
  BY CallTypes, OrderAsked DEF Inv, CallInv
<1>1. handler'[d].pc = "idle" /\ handler'[d].lines = <<>>
  BY <1>0, LocalsTypes DEF Returns
<1>2. /\ call'["order"][d].st = "done"
      /\ call'["order"][d].status = status /\ call'["order"][d].body = body
  BY SlotTypes DEF Returns
<1>3. NoMenu(d)'
  BY <1>0, SlotTypes DEF Returns, SlotInv, NoMenu
<1>4. AskedUser(d)'
  BY <1>1 DEF AskedUser
<1>5. RunInv(d)'
  BY <1>1 DEF RunInv
<1>6. SlotInv(d)'
  BY <1>0, <1>2, <1>3, <1>4 DEF SlotInv
<1>7. ToldInv(d)'
  BY <1>0, <1>2 DEF ToldInv
<1>8. QED BY <1>5, <1>6, <1>7 DEF CallInv

(* CreateOrder of call d goes on. *)
LEMMA GoesToInv ==
  ASSUME Inv, NEW d \in Calls, NEW pc \in {"user", "menu", "insert"}, GoesTo(d, pc),
         UNCHANGED <<proc, http>>, placed'[d] = placed[d], call["order"][d].st = "sent",
         proc["order"] = "running",
         http[d].req.op = "CreateOrder", Decoded(http[d].req),
         AskedUser(d)', NoMenu(d)',
         pc = "insert" => UserFound(d)' /\ Len(http[d].req.items) = 0
  PROVE  CallInv(d)'
<1>0. /\ SlotInv(d) /\ handler[d] \in Locals /\ DOMAIN handler = Calls
      /\ http[d].st \in {"waiting", "lost"}
  BY CallTypes, OrderAsked DEF Inv, CallInv
<1>1. handler'[d].pc = pc /\ handler'[d].lines = <<>> /\ call'["order"][d] = call["order"][d]
  BY <1>0 DEF GoesTo, Locals
<1>2. RunInv(d)'
  BY <1>1 DEF RunInv
<1>3. SlotInv(d)'
  BY <1>0, <1>1 DEF SlotInv
<1>4. ToldInv(d)'
  BY <1>0, <1>1 DEF ToldInv
<1>5. QED BY <1>2, <1>3, <1>4 DEF CallInv

-----------------------------------------------------------------------------
(* CallInv is preserved, action by action. *)
LEMMA QuietInv ==
  ASSUME Inv, [Next]_vars, NEW d \in Calls, Same(d) \/ Cut(d) \/ Lost(d), ~CrashOrder
  PROVE  CallInv(d)'
<1>0. SlotInv(d)
  BY DEF Inv, CallInv
<1>1. /\ handler'[d] = handler[d] /\ placed'[d] = placed[d]
      /\ call'["order"][d] = call["order"][d] /\ HttpKept(d)
      /\ call'["user"][d] \in {call["user"][d], Done(0, {})}
      /\ call'["menu"][d] \in {call["menu"][d], Done(0, {})}
  BY ServiceNames DEF Same, Cut, Lost, HttpKept
<1>2. Done(0, {}).st = "done" /\ Done(0, {}).status = 0
  BY SlotTypes
<1>3. NoMenu(d)'
  BY <1>0, <1>1, <1>2 DEF SlotInv, NoMenu
<1>4. http'[d].req = http[d].req
  BY <1>1 DEF HttpKept
<1>5. UserFound(d) => UserFound(d)'
  BY <1>4, FoundStays
<1>6. AskedUser(d)'
  BY <1>0, <1>1, <1>2, <1>4, <1>5 DEF SlotInv, AskedUser
<1>7. QED BY <1>1, <1>3, <1>6, ProcStep, KeptInv

LEMMA KilledInv ==
  ASSUME Inv, [Next]_vars, NEW d \in Calls, Killed(d)
  PROVE  CallInv(d)'
<1>0. SlotInv(d) /\ ToldInv(d)
  BY DEF Inv, CallInv
<1>1. /\ handler'[d].pc = "idle" /\ handler'[d].lines = <<>> /\ http'[d] = http[d]
      /\ placed'[d] = placed[d]
      /\ call'["menu"][d] \in {call["menu"][d], Idle}
  BY LocalsTypes DEF Killed
<1>2. /\ Done(0, {}).st = "done" /\ Done(0, {}).status = 0 /\ Idle.st = "idle"
  BY SlotTypes
<1>3. RunInv(d)'
  BY <1>1 DEF RunInv
<1>4. NoMenu(d)' /\ AskedUser(d)'
  BY <1>0, <1>1, <1>2 DEF SlotInv, NoMenu, AskedUser
<1>5. SlotInv(d)'
  BY <1>0, <1>1, <1>2, <1>4 DEF SlotInv, Killed
<1>6. PICK os, ob, hs, hb : /\ os = call["order"][d].status /\ ob = call["order"][d].body
                            /\ hs = http[d].status /\ hb = http[d].body
  OBVIOUS
<1>7. /\ Truthful(d, os, ob) => Truthful(d, os, ob)'
      /\ Truthful(d, hs, hb) => Truthful(d, hs, hb)'
  BY <1>1, TruthStays
<1>8. ASSUME call'["order"][d] = Done(0, {})
      PROVE  Truthful(d, call["order"][d].status, call["order"][d].body)'
  BY <1>2, <1>8 DEF Truthful
<1>9. ToldInv(d)'
  BY <1>0, <1>1, <1>6, <1>7, <1>8 DEF ToldInv, Killed
<1>10. QED BY <1>3, <1>5, <1>9 DEF CallInv

LEMMA ProxyInv ==
  ASSUME Inv, [Next]_vars, NEW d \in Calls, Proxied(d)
  PROVE  CallInv(d)'
<1>0. SlotInv(d) /\ RunInv(d) /\ RestTypeOK /\ DOMAIN http = Calls
  BY CallTypes DEF Inv, CallInv
<1>1. PICK r \in Requests : ProxyTo(d, r)
  BY DEF Proxied
<1>2. /\ http[d].st = "new" /\ http'[d] = [st |-> "waiting", req |-> r]
      /\ handler' = handler /\ placed' = placed
      /\ \A s \in Services : call'[s][d] = IF s = Target(r) THEN Sent(r) ELSE call[s][d]
  BY <1>0, <1>1, ProxyEffect DEF orderTable
<1>3. r \in UserRequest \cup MenuRequest \cup OrderRequest
  BY RestAssumption
<1>4. /\ Sent(r).st = "sent" /\ Sent(r).req = r /\ Idle.st = "idle"
      /\ Target(r) = "order" <=> r.op \in {"CreateOrder", "GetOrders"}
  BY <1>3, SlotTypes, RequestTypes
<1>5. handler[d].pc = "idle" /\ placed[d] = {} /\ call["order"][d] = Idle
  BY <1>0, <1>2 DEF SlotInv
<1>6. /\ call'["order"][d] = IF Target(r) = "order" THEN Sent(r) ELSE Idle
      /\ call'["menu"][d] \in {call["menu"][d], Sent(r)}
  BY <1>2, <1>5, ServiceNames
<1>7. RunInv(d)'
  BY <1>0, <1>2, <1>5 DEF RunInv
<1>8. NoMenu(d)' /\ AskedUser(d)'
  BY <1>0, <1>2, <1>4, <1>5, <1>6 DEF SlotInv, NoMenu, AskedUser
<1>9. SlotInv(d)'
  BY <1>2, <1>4, <1>5, <1>6, <1>8 DEF SlotInv
<1>10. ToldInv(d)'
  BY <1>2, <1>4, <1>6 DEF ToldInv
<1>11. QED BY <1>7, <1>9, <1>10 DEF CallInv

LEMMA ServeInv ==
  ASSUME Inv, [Next]_vars, NEW d \in Calls, ServeHTTP(d)
  PROVE  CallInv(d)'
<1>0. SlotInv(d) /\ RunInv(d) /\ ToldInv(d) /\ RestTypeOK /\ DOMAIN http = Calls
  BY CallTypes DEF Inv, CallInv
<1>1. PICK s \in Services : s = Target(http[d].req)
  BY <1>0, ServeEffect
<1>2. PICK status, body, code : /\ status = call[s][d].status /\ body = call[s][d].body
                                /\ code = IF status = 0 THEN 502 ELSE status
  OBVIOUS
<1>3. /\ http[d].st = "waiting" /\ call[s][d].st = "done"
      /\ handler' = handler /\ placed' = placed
      /\ http'[d] = [st |-> "answered", req |-> http[d].req, status |-> code, body |-> body]
      /\ \A t \in Services : call'[t][d] = IF t = s THEN Idle ELSE call[t][d]
  BY <1>0, <1>1, <1>2, ServeEffect DEF orderTable
<1>4. s = "order" <=> http[d].req.op \in {"CreateOrder", "GetOrders"}
  BY <1>0, <1>1, <1>3, RequestOf, RequestTypes
<1>5. call["order"][d].st # "sent"
  BY <1>0, <1>3, <1>4 DEF SlotInv
<1>6. handler[d].pc = "idle"
  BY <1>0, <1>5 DEF RunInv
<1>7. /\ call'["order"][d] = call["order"][d] \/ call'["order"][d] = Idle
      /\ call'["menu"][d] = call["menu"][d] \/ call'["menu"][d] = Idle
      /\ Idle.st = "idle"
  BY <1>3, ServiceNames, SlotTypes
<1>8. RunInv(d)'
  BY <1>0, <1>3, <1>6 DEF RunInv
<1>9. NoMenu(d)' /\ AskedUser(d)'
  BY <1>0, <1>3, <1>6, <1>7 DEF SlotInv, NoMenu, AskedUser
<1>10. SlotInv(d)'
  BY <1>3, <1>5, <1>7, <1>9 DEF SlotInv
<1>11. PICK os, ob : os = call["order"][d].status /\ ob = call["order"][d].body
  OBVIOUS
<1>12. /\ Truthful(d, os, ob) => Truthful(d, os, ob)'
       /\ Truthful(d, status, body) => Truthful(d, status, body)'
  BY <1>3, TruthStays
<1>13. Truthful(d, code, body)'
  <2>1. CASE http[d].req.op = "CreateOrder"
    <3>1. Truthful(d, status, body)
      BY <1>0, <1>2, <1>3, <1>4, <2>1 DEF ToldInv
    <3>2. QED BY <1>2, <1>12, <3>1 DEF Truthful
  <2>2. CASE http[d].req.op # "CreateOrder"
    BY <1>3, <2>2 DEF Truthful
  <2>3. QED BY <2>1, <2>2
<1>14. ToldInv(d)'
  BY <1>0, <1>3, <1>7, <1>11, <1>12, <1>13 DEF ToldInv
<1>15. QED BY <1>8, <1>10, <1>14 DEF CallInv

LEMMA UserServeInv ==
  ASSUME Inv, [Next]_vars, NEW d \in Calls, UserServe(d)
  PROVE  CallInv(d)'
<1>0. SlotInv(d) /\ RunInv(d) /\ RestTypeOK
  BY DEF Inv, CallInv
<1>1. UNCHANGED <<proc, handler, http, placed>>
  BY DEF UserServe, CreateUser, GetUser, GetUsers, Refuse, orderTable
<1>2. PICK v \in CallStates :
        /\ v.st = "done" /\ Fills("user", d, v)
        /\ handler[d].pc = "user" /\ v.status = 200 => UserFound(d)
  <2>1. CASE CreateUser(d)
    <3>1. /\ call["user"][d].st = "sent" /\ call["user"][d].req.op = "CreateUser"
          /\ \E v \in CallStates : /\ v.st = "done" /\ Fills("user", d, v)
      BY <1>0, <2>1, UserEffect
    <3>2. handler[d].pc # "user"
      BY <1>0, <3>1 DEF SlotInv, AskedUser
    <3>3. QED BY <3>1, <3>2
  <2>2. CASE UserReading(d)
    <3>1. /\ call["user"][d].st = "sent"
          /\ \E v \in CallStates :
               /\ v.st = "done" /\ Fills("user", d, v)
               /\ v.status = 200 /\ NamesUser(call["user"][d].req) =>
                    \E u \in users : u.id = call["user"][d].req.id
      BY <1>0, <2>2, UserReadEffect DEF UserReading
    <3>2. handler[d].pc = "user" => /\ NamesUser(call["user"][d].req)
                                    /\ call["user"][d].req.id = http[d].req.userId
      BY <1>0, <3>1 DEF SlotInv, AskedUser, RunInv, Decoded, NamesUser
    <3>3. QED BY <3>1, <3>2 DEF UserFound
  <2>3. QED BY <2>1, <2>2 DEF UserServe, UserReading
<1>3. /\ call'["user"][d] = v /\ call'["menu"] = call["menu"] /\ call'["order"] = call["order"]
  <2>1. PICK s \in Services : s = "user"
    BY ServiceNames
  <2>2. Fills(s, d, v)
    BY <1>2, <2>1
  <2>3. /\ call'[s][d] = v /\ \A t \in Services : t # s => call'[t] = call[t]
    BY <1>0, <2>2, AnswerEffect
  <2>4. QED BY <2>1, <2>3, ServiceNames
<1>4. NoMenu(d)'
  BY <1>0, <1>3 DEF SlotInv, NoMenu
<1>5. UserFound(d) => UserFound(d)'
  BY <1>1, FoundStays
<1>6. AskedUser(d)'
  BY <1>1, <1>2, <1>3, <1>5 DEF AskedUser
<1>7. QED BY <1>1, <1>3, <1>4, <1>6, KeptInv DEF HttpKept

LEMMA MenuServeInv ==
  ASSUME Inv, [Next]_vars, NEW d \in Calls, MenuServe(d)
  PROVE  CallInv(d)'
<1>0. SlotInv(d) /\ RestTypeOK
  BY DEF Inv, CallInv
<1>1. UNCHANGED <<proc, handler, http, placed>>
  BY <1>0, MenuEffect DEF orderTable
<1>2. PICK v \in CallStates : /\ v.st = "done" /\ v.status # 200
                              /\ Fills("menu", d, v)
  BY <1>0, MenuEffect
<1>3. call'["menu"][d] = v /\ call'["user"] = call["user"] /\ call'["order"] = call["order"]
  <2>1. PICK s \in Services : s = "menu"
    BY ServiceNames
  <2>2. Fills(s, d, v)
    BY <1>2, <2>1
  <2>3. /\ call'[s][d] = v /\ \A t \in Services : t # s => call'[t] = call[t]
    BY <1>0, <2>2, AnswerEffect
  <2>4. QED BY <2>1, <2>3, ServiceNames
<1>4. NoMenu(d)'
  BY <1>2, <1>3 DEF NoMenu
<1>5. UserFound(d) => UserFound(d)'
  BY <1>1, FoundStays
<1>6. AskedUser(d)'
  BY <1>0, <1>1, <1>3, <1>5 DEF SlotInv, AskedUser
<1>7. QED BY <1>1, <1>3, <1>4, <1>6, KeptInv DEF HttpKept

LEMMA OrderServeInv ==
  ASSUME Inv, [Next]_vars, NEW d \in Calls, OrderServe(d)
  PROVE  CallInv(d)'
<1>0. /\ SlotInv(d) /\ RunInv(d) /\ RestTypeOK /\ orderItems = {}
      /\ DOMAIN placed = Calls /\ handler \in [Calls -> Locals]
  BY CallTypes DEF Inv, CallInv, RestTypeOK
<1>h. UNCHANGED <<proc, http>>
  BY OrderKept
<1>a. ASSUME Returns(d, 400, {}), placed' = placed, call["order"][d].st = "sent"
      PROVE  CallInv(d)'
  <2>1. placed[d] = {}
    BY <1>a, OrderAsked
  <2>2. Truthful(d, 400, {})'
    BY <1>a, <2>1 DEF Truthful
  <2>3. QED BY <1>a, <1>h, <2>2, ReturnInv, AnswerTypes
<1>b. ASSUME NEW status \in Statuses \cup {0}, NEW body \in SUBSET Body,
             Returns(d, status, body), status \notin {400, 201}, call["order"][d].st = "sent"
      PROVE  CallInv(d)'
  <2>1. Truthful(d, status, body)'
    BY <1>b DEF Truthful
  <2>2. QED BY <1>b, <1>h, <2>1, ReturnInv
<1>1. CASE CreateOrder(d)
  <2>1. /\ call["order"][d].st = "sent" /\ http[d].req.op = "CreateOrder"
        /\ proc["order"] = "running" /\ placed' = placed
    BY <1>1, CreateEffect DEF orderTable
  <2>2. CASE /\ Decoded(http[d].req) /\ GoesTo(d, "user")
             /\ call'["user"][d] = Sent([op |-> "GetUser", id |-> http[d].req.userId])
             /\ call'["menu"][d] = call["menu"][d]
    <3>1. PICK ask : ask = [op |-> "GetUser", id |-> http[d].req.userId]
      OBVIOUS
    <3>2. ask \in UserRequest
      BY <2>2, <3>1 DEF Decoded, UserRequest
    <3>3. call'["user"][d].st = "sent" /\ call'["user"][d].req = ask
      BY <2>2, <3>1, <3>2, SlotTypes
    <3>4. AskedUser(d)'
      BY <1>h, <3>1, <3>3 DEF AskedUser
    <3>5. NoMenu(d)'
      BY <1>0, <2>2 DEF SlotInv, NoMenu
    <3>6. QED BY <1>h, <2>1, <2>2, <3>4, <3>5, GoesToInv
  <2>3. CASE Returns(d, 400, {})
    BY <1>a, <2>1, <2>3
  <2>4. QED BY <1>1, <2>2, <2>3, CreateEffect
<1>2. CASE UserChecked(d)
  <2>1. handler[d].pc = "user" /\ placed' = placed
    BY <1>2, CheckedEffect DEF orderTable
  <2>2. /\ proc["order"] = "running" /\ call["order"][d].st = "sent"
        /\ http[d].req.op = "CreateOrder" /\ Decoded(http[d].req)
    BY <1>0, <2>1 DEF RunInv
  <2>3. CASE GoesTo(d, "menu") /\ call'["menu"][d].st = "sent"
    <3>1. handler'[d].pc = "menu"
      BY <1>0, <2>3 DEF GoesTo, Locals
    <3>2. AskedUser(d)' /\ NoMenu(d)'
      BY <2>3, <3>1 DEF AskedUser, NoMenu
    <3>3. QED BY <1>h, <2>1, <2>2, <2>3, <3>2, GoesToInv
  <2>4. CASE /\ UserFound(d) /\ Len(http[d].req.items) = 0
             /\ GoesTo(d, "insert") /\ call'["menu"][d] = Idle
    <3>1. handler'[d].pc = "insert"
      BY <1>0, <2>4 DEF GoesTo, Locals
    <3>2. AskedUser(d)' /\ NoMenu(d)'
      BY <2>4, <3>1, SlotTypes DEF AskedUser, NoMenu
    <3>3. UserFound(d)'
      BY <1>h, <2>4, FoundStays
    <3>4. QED BY <1>h, <2>1, <2>2, <2>4, <3>2, <3>3, GoesToInv
  <2>5. CASE Returns(d, 400, {})
    BY <1>a, <2>1, <2>2, <2>5
  <2>6. QED BY <1>2, <2>3, <2>4, <2>5, CheckedEffect
<1>3. CASE MenuChecked(d)
  <2>1. handler[d].pc = "menu" /\ placed' = placed /\ Returns(d, 400, {})
    BY <1>3, MenuCheckedEffect DEF orderTable
  <2>2. call["order"][d].st = "sent"
    BY <1>0, <2>1 DEF RunInv
  <2>3. QED BY <1>a, <2>1, <2>2
<1>4. CASE StoreOrder(d)
  <2>1. handler[d].pc = "insert" /\ orderItems' = {} /\ NewOrder(d) \in Order
    BY <1>0, <1>4, StoreEffect
  <2>2. call["order"][d].st = "sent" /\ Len(http[d].req.items) = 0
    BY <1>0, <2>1 DEF RunInv
  <2>3. CASE Returns(d, 500, {})
    BY <1>b, <2>2, <2>3, AnswerTypes
  <2>4. CASE ~Returns(d, 500, {})
    <3>1. PICK body, o : body = {WholeOrder(NewOrder(d), {})} /\ o = NewOrder(d)
      OBVIOUS
    <3>2. /\ orders' = orders \cup {o} /\ placed' = [placed EXCEPT ![d] = {orderSeq}]
          /\ Returns(d, 201, body)
      BY <1>4, <2>4, <3>1, StoreEffect
    <3>3. o.id = orderSeq /\ o.userId = http[d].req.userId
      BY <3>1 DEF NewOrder
    <3>4. StoredAs(d, body)'
      <4>1. o \in orders' /\ placed'[d] = {o.id} /\ o.userId = http'[d].req.userId
        BY <1>0, <1>h, <3>2, <3>3
      <4>2. body = {WholeOrder(o, orderItems')} /\ Len(http'[d].req.items) = 0
        BY <1>h, <2>1, <2>2, <3>1
      <4>3. QED BY <4>1, <4>2 DEF StoredAs
    <3>5. Truthful(d, 201, body)'
      BY <3>4 DEF Truthful
    <3>6. body \in SUBSET Body
      BY <2>1, <3>1 DEF WholeOrder, Body, Order
    <3>7. QED BY <1>h, <2>2, <3>2, <3>5, <3>6, ReturnInv, AnswerTypes
  <2>5. QED BY <2>3, <2>4
<1>5. CASE GetOrders(d) \/ Preload(d)
  <2>1. /\ call["order"][d].st = "sent" /\ http[d].req.op = "GetOrders"
        /\ proc["order"] = "running" /\ placed' = placed
    <3>1. /\ call["order"][d].st = "sent" /\ http[d].req.op = "GetOrders"
          /\ proc["order"] = "running"
          /\ UNCHANGED <<userTable, orderTable, proc, http>>
      BY <1>5, ListEffect
    <3>2. QED BY <3>1 DEF orderTable
  <2>2. CASE /\ UNCHANGED call
             /\ handler' = [handler EXCEPT ![d].pc = "preload", ![d].rows = orders]
    <3>1. handler'[d].pc = "preload" /\ handler'[d].lines = <<>>
      BY <1>0, <2>2 DEF RunInv, Locals
    <3>2. http[d].st \in {"waiting", "lost"}
      BY <2>1, OrderAsked
    <3>3. RunInv(d)'
      BY <1>h, <2>1, <2>2, <3>1 DEF RunInv
    <3>4. SlotInv(d)'
      BY <1>0, <1>h, <2>1, <2>2, <3>1, <3>2 DEF SlotInv, AskedUser, NoMenu
    <3>5. ToldInv(d)'
      BY <1>h, <2>1, <2>2, <3>2 DEF ToldInv
    <3>6. QED BY <3>3, <3>4, <3>5 DEF CallInv
  <2>3. CASE \E status \in {200, 500}, body \in SUBSET Body : Returns(d, status, body)
    <3>1. PICK status \in {200, 500}, body \in SUBSET Body : Returns(d, status, body)
      BY <2>3
    <3>2. status \in Statuses \cup {0} /\ status \notin {400, 201}
      BY AnswerTypes
    <3>3. QED BY <1>b, <2>1, <3>1, <3>2
  <2>4. QED BY <1>5, <2>2, <2>3, ListEffect
<1>6. CASE Refuse("order", d)
  <2>1. /\ proc["order"] # "running" /\ call["order"][d].st = "sent"
        /\ UNCHANGED <<handler, placed>>
        /\ call'["order"][d] = Done(0, {})
        /\ call'["menu"] = call["menu"]
    BY <1>0, <1>6, RefuseEffect DEF orderTable
  <2>2. handler[d].pc = "idle" /\ http[d].st \in {"waiting", "lost"}
    BY <1>0, <2>1, OrderAsked DEF RunInv
  <2>3. Done(0, {}).st = "done" /\ Done(0, {}).status = 0
    BY SlotTypes
  <2>4. RunInv(d)'
    BY <1>0, <2>1, <2>2 DEF RunInv
  <2>5. SlotInv(d)'
    BY <1>0, <1>h, <2>1, <2>2, <2>3 DEF SlotInv, AskedUser, NoMenu
  <2>6. ToldInv(d)'
    BY <1>h, <2>1, <2>2, <2>3 DEF ToldInv, Truthful
  <2>7. QED BY <2>4, <2>5, <2>6 DEF CallInv
<1>7. QED BY <1>1, <1>2, <1>3, <1>4, <1>5, <1>6 DEF OrderServe

LEMMA CallInvStep ==
  ASSUME Inv, [Next]_vars, NEW d \in Calls
  PROVE  CallInv(d)'
<1>1. CASE CrashOrder
  <2>1. Killed(d)
    BY <1>1, CrashOrderEffect DEF Inv
  <2>2. QED BY <2>1, KilledInv
<1>2. CASE Running(d)
  BY <1>2, ProxyInv, ServeInv, UserServeInv, MenuServeInv, OrderServeInv DEF Running
<1>3. CASE Killed(d)
  BY <1>3, KilledInv
<1>4. CASE ~CrashOrder /\ (Same(d) \/ Cut(d) \/ Lost(d))
  BY <1>4, QuietInv
<1>5. QED BY <1>1, <1>2, <1>3, <1>4, CallStep

LEMMA RestInit == Init => Inv
<1> SUFFICES ASSUME Init PROVE Inv
  OBVIOUS
<1>1. /\ http = [c \in Calls |-> [st |-> "new"]] /\ handler = [c \in Calls |-> NoLocals]
      /\ placed = [c \in Calls |-> {}] /\ orderItems = {}
      /\ call = [s \in Services |-> [c \in Calls |-> Idle]]
  BY DEF Init
<1>2. \A c \in Calls : /\ http[c].st = "new" /\ handler[c] = NoLocals /\ placed[c] = {}
                       /\ call["user"][c] = Idle /\ call["menu"][c] = Idle
                       /\ call["order"][c] = Idle
  BY <1>1, ServiceNames
<1>3. \A c \in Calls : CallInv(c)
  BY <1>2, SlotTypes, LocalsTypes
  DEF CallInv, RunInv, SlotInv, ToldInv, AskedUser, NoMenu
<1>4. RestTypeOK
  <2>1. http \in [Calls -> HttpStates]
    BY <1>1 DEF HttpStates
  <2>2. call \in [Services -> [Calls -> CallStates]] /\ handler \in [Calls -> Locals]
    BY <1>1, SlotTypes, LocalsTypes
  <2>3. placed \in [Calls -> SUBSET Nat]
    BY <1>1
  <2>4. proc \in [Procs -> {"created", "running", "exited"}]
    BY DEF Init
  <2>5. /\ users \subseteq User /\ orders \subseteq Order /\ orderItems \subseteq OrderItem
        /\ userSeq \in Nat \ {0} /\ orderSeq \in Nat \ {0}
    BY DEF Init
  <2>6. QED BY <2>1, <2>2, <2>3, <2>4, <2>5 DEF RestTypeOK
<1>5. QED BY <1>1, <1>3, <1>4 DEF Inv

LEMMA RestInvariant == Spec => []Inv
<1>1. Inv /\ [Next]_vars => Inv'
  BY TypeStep, CallInvStep DEF Inv
<1>2. QED BY <1>1, RestInit, PTL DEF Spec

(***************************************************************************)
(* Tables, containers, HTTP calls between processes and answers have their *)
(* types, however calls break on the way.                                  *)
(***************************************************************************)
THEOREM RestTypeCorrect == Spec => []RestTypeOK
<1>1. Inv => RestTypeOK
  BY DEF Inv
<1>2. QED BY <1>1, RestInvariant, PTL

(***************************************************************************)
(* What the gateway passes on about an order is true although the user,    *)
(* the menu and the order service and the gateway can die at any step: 201 *)
(* only for an order that is stored once, for the user that was asked for, *)
(* and 400 only if nothing was stored (CreateOrder and the proxies).       *)
(***************************************************************************)
THEOREM RestAnswersAreTrue == Spec => []RestOrderAnswers
<1>1. Inv => RestOrderAnswers
  BY DEF Inv, CallInv, ToldInv, Truthful, StoredAs, RestOrderAnswers
<1>2. QED BY <1>1, RestInvariant, PTL

-----------------------------------------------------------------------------
(* The orders of the ledger. *)
Whole == {WholeOrder(o, orderItems) : o \in orders}

LEMMA StoreIsPlaceOrder ==
  ASSUME Inv, NEW c \in Calls, StoreOrder(c), orderItems' = {}
  PROVE  Ledger!Next \/ UNCHANGED <<users, orders, orderItems, placed>>
<1>0. handler[c].pc = "insert" /\ UNCHANGED <<users, orderItems>> /\ orderItems = {}
  BY StoreEffect DEF userTable, Inv
<1> SUFFICES ASSUME /\ orders' = orders \cup {NewOrder(c)}
                    /\ \A o \in orders : o.id # orderSeq
                    /\ placed' = [placed EXCEPT ![c] = {orderSeq}]
             PROVE  Ledger!Next
  BY <1>0, StoreEffect
<1>1. RunInv(c)
  BY DEF Inv, CallInv
<1>2. UserFound(c) /\ call["order"][c].st = "sent"
  BY <1>0, <1>1 DEF RunInv
<1>3. placed[c] = {}
  BY <1>2, OrderAsked
<1>4. PICK w, o : w = WholeOrder(NewOrder(c), {}) /\ o = NewOrder(c)
  OBVIOUS
<1>5. w.id = orderSeq /\ w.userId = http[c].req.userId /\ w.items = {}
  BY <1>4 DEF WholeOrder, NewOrder
<1>6. Whole' = Whole \cup {w}
  <2>1. Whole' = {WholeOrder(q, {}) : q \in orders'}
    BY DEF Whole
  <2>2. Whole = {WholeOrder(q, {}) : q \in orders}
    BY <1>0 DEF Whole
  <2>3. orders' = orders \cup {o} /\ w = WholeOrder(o, {})
    BY <1>4
  <2>4. QED BY <2>1, <2>2, <2>3
<1>7. \A v \in Whole : v.id # w.id
  BY <1>5 DEF Whole, WholeOrder
<1>8. \E u \in users : u.id = w.userId
  BY <1>2, <1>5 DEF UserFound
<1>9. placed' = [placed EXCEPT ![c] = {w.id}]
  BY <1>5
<1>10. Ledger!PlaceOrder(c, w)
  BY <1>0, <1>3, <1>5, <1>6, <1>7, <1>8, <1>9 DEF Ledger!PlaceOrder, Ledger!Fresh, Whole
<1>11. w \in Whole'
  BY <1>6
<1>12. QED BY <1>10, <1>11 DEF Ledger!Next, Whole

LEMMA LedgerStep ==
  ASSUME Inv, [Next]_vars
  PROVE  [Ledger!Next]_(Ledger!ledger)
<1>0. RestTypeOK /\ orderItems' = {}
  BY TablesStep DEF Inv
<1>a. UNCHANGED <<orders, orderItems>> => UNCHANGED Whole
  BY DEF Whole
<1>b. ASSUME UNCHANGED <<users, orders, orderItems, placed>>
      PROVE  UNCHANGED Ledger!ledger
  BY <1>a, <1>b DEF Ledger!ledger, Whole
<1>1. CASE UNCHANGED tables
  BY <1>1, <1>b DEF tables, userTable, orderTable
<1>2. ASSUME NEW c \in Calls, CreateUser(c)
      PROVE  Ledger!Next \/ UNCHANGED Ledger!ledger
  <2>1. PICK u : u = NewUser(call["user"][c].req)
    OBVIOUS
  <2>2. UNCHANGED <<orders, orderItems, placed>>
    BY <1>0, <1>2, UserEffect DEF orderTable
  <2>3. CASE users' = users
    BY <1>b, <2>2, <2>3
  <2>4. CASE users' = users \cup {u} /\ \A v \in users : v.id # u.id /\ v.email # u.email
    <3>1. Ledger!RegisterUser(u)
      BY <1>a, <2>2, <2>4 DEF Ledger!RegisterUser, Ledger!Fresh, Whole
    <3>2. u \in users'
      BY <2>4
    <3>3. QED BY <3>1, <3>2 DEF Ledger!Next
  <2>5. QED BY <1>0, <1>2, <2>1, <2>3, <2>4, UserEffect
<1>3. ASSUME NEW c \in Calls, StoreOrder(c)
      PROVE  Ledger!Next \/ UNCHANGED Ledger!ledger
  BY <1>0, <1>3, <1>b, StoreIsPlaceOrder
<1>4. QED
  BY <1>1, <1>b, <1>2, <1>3, TableCases DEF Writing, tables, userTable, orderTable

(***************************************************************************)
(* The split services keep the promise of the monolith: an order appears   *)
(* in one step, once per call and for a user that is stored, although the  *)
(* order service only knows by HTTP that the user exists.  The menu of the *)
(* ledger is empty, so no order with items is ever stored.                 *)
(***************************************************************************)
THEOREM RestIsLedger == Spec => RestImplementsLedger
<1>1. Init => Ledger!Init
  BY DEF Init, Ledger!Init
<1>2. Inv /\ [Next]_vars => [Ledger!Next]_(Ledger!ledger)
  BY LedgerStep
<1>3. QED
  BY <1>1, <1>2, RestInvariant, PTL DEF Spec, RestImplementsLedger, Ledger!Spec
=============================================================================
