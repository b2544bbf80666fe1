--------------------------- MODULE MCStudentCafe ---------------------------
(***************************************************************************)
(* Instances of StudentCafe for TLC.                                       *)
(***************************************************************************)
EXTENDS StudentCafe, TLC

CONSTANTS ann, bob,       \* emails
          cheap, dear,    \* prices
          c1, c2, c3      \* client calls

MCEmails == {ann, bob}
MCPrices == {cheap, dear}

TwoCalls == {c1, c2}
ThreeCalls == {c1, c2, c3}

(* Databases at the start: a user, and one or two menu items. *)
OneUser == <<ann>>
OneItem == <<cheap>>
TwoItems == <<cheap, dear>>

Order(user, items) == [op |-> "CreateOrder", userId |-> user, items |-> items]
Item(id, n) == [menuItemId |-> id, quantity |-> n]
Get(op, id) == [op |-> op, id |-> id]
List(op) == [op |-> op]

(***************************************************************************)
(* Orders of a stored user and of one that is being created, of an item    *)
(* that is being created, with a quantity beyond int32 or listed twice;    *)
(* and both reads.  The stored user can order the stored item twice.       *)
(***************************************************************************)
OrderRequests == { [op |-> "CreateUser", email |-> bob],
                   [op |-> "CreateMenuItem", price |-> dear],
                   Order(1, <<Item(1, 1), Item(2, Word - 1)>>),
                   Order(1, <<Item(1, 2), Item(1, 2)>>),
                   Order(2, <<Item(2, 1)>>),
                   Get("GetOrder", 1), List("GetOrders") }

(* The whole API, with inputs that decode and inputs that do not. *)
ApiRequests == { [op |-> "CreateUser", email |-> ann],
                 [op |-> "CreateUser", email |-> bob],
                 [op |-> "CreateUser", email |-> Malformed],
                 Get("GetUser", 2), Get("GetUser", Word), List("GetUsers"),
                 [op |-> "CreateMenuItem", price |-> dear],
                 [op |-> "CreateMenuItem", price |-> Malformed],
                 Get("GetMenuItem", 2), Get("GetMenuItem", -1), List("GetMenu"),
                 Order(1, <<>>), Order(1, <<Item(1, 1), Item(2, 1)>>),
                 Order(1, <<Item(1, Word)>>),
                 Get("GetOrder", 1), Get("GetOrder", Word), List("GetOrders") }

(* Orders of a user and for items that exist, or that do not. *)
ChainRequests == { Order(1, <<Item(1, 1), Item(2, 1)>>), Order(2, <<>>),
                   List("GetOrders") }

AllFaults == {"db", "user", "menu", "order", "gateway"}
OrderFaults == {"db", "order"}
Outages == {"user", "menu"}
Crashes == {"user", "menu", "order", "gateway"}

CallSymmetry == Permutations(Calls)
=============================================================================
