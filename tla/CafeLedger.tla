----------------------------- MODULE CafeLedger -----------------------------
(***************************************************************************)
(* What the cafe's backend promises, whatever the number of its processes: *)
(* one ledger in which a user, a menu item or a whole order appears in one *)
(* step and stays.  An order names a registered user and copies the prices *)
(* of existing menu items, and a client call places at most one.           *)
(***************************************************************************)
EXTENDS Integers

CONSTANTS Calls, InitialUsers, InitialMenu

VARIABLES users,    \* records with an id and an email
          menu,     \* records with an id and a price
          orders,   \* records with an id, a userId and a set of items
          placed    \* for each client call, the ids of the orders it placed

ledger == <<users, menu, orders, placed>>

Init == /\ users = InitialUsers
        /\ menu = InitialMenu
        /\ orders = {}
        /\ placed = [c \in Calls |-> {}]

(* No row of the table has the id of the new one. *)
Fresh(new, table) == \A row \in table : row.id # new.id

RegisterUser(u) == /\ Fresh(u, users)
                   /\ \A v \in users : v.email # u.email
                   /\ users' = users \cup {u}
                   /\ UNCHANGED <<menu, orders, placed>>

AddMenuItem(m) == /\ Fresh(m, menu)
                  /\ menu' = menu \cup {m}
                  /\ UNCHANGED <<users, orders, placed>>

PlaceOrder(c, o) ==
  /\ Fresh(o, orders)
  /\ \E u \in users : u.id = o.userId
  /\ \A i \in o.items : \E m \in menu : m.id = i.menuItemId /\ m.price = i.price
  /\ placed[c] = {}
  /\ placed' = [placed EXCEPT ![c] = {o.id}]
  /\ orders' = orders \cup {o}
  /\ UNCHANGED <<users, menu>>

Next == \/ \E u \in users' : RegisterUser(u)
        \/ \E m \in menu' : AddMenuItem(m)
        \/ \E c \in Calls, o \in orders' : PlaceOrder(c, o)

Spec == Init /\ [][Next]_ledger
=============================================================================
