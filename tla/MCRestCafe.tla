----------------------------- MODULE MCRestCafe -----------------------------
(***************************************************************************)
(* Instances of RestCafe for TLC.                                          *)
(***************************************************************************)
EXTENDS RestCafe

CONSTANTS ann, c1, c2

TwoCalls == {c1, c2}
MCEmails == {ann}

(***************************************************************************)
(* One user, perhaps created twice or created deleted; orders with and     *)
(* without an item, and one that does not decode; every other endpoint.    *)
(***************************************************************************)
MCRequests ==
  { [op |-> "CreateUser", id |-> 0, email |-> ann, deleted |-> FALSE],
    [op |-> "CreateUser", id |-> 0, email |-> ann, deleted |-> TRUE],
    [op |-> "CreateUser", id |-> 0, email |-> Malformed, deleted |-> FALSE],
    [op |-> "GetUser", id |-> 1], [op |-> "GetUser", id |-> Text], [op |-> "GetUsers"],
    [op |-> "CreateMenu", menu |-> "menu"], [op |-> "CreateMenu", menu |-> Malformed],
    [op |-> "GetMenu", id |-> 1], [op |-> "ListMenu"],
    [op |-> "CreateOrder", userId |-> 1, items |-> <<>>],
    [op |-> "CreateOrder", userId |-> 1, items |-> <<[menuItemId |-> 1, quantity |-> 1]>>],
    [op |-> "CreateOrder", userId |-> -1, items |-> <<>>],
    [op |-> "GetOrders"] }

AllFaults == Procs \cup {"db"}
NoFaults == {}
=============================================================================
