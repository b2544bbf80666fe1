----------------------------- MODULE MCMonolith -----------------------------
(***************************************************************************)
(* An instance of Monolith for TLC.                                        *)
(***************************************************************************)
EXTENDS Monolith, TLC

CONSTANTS ann, bob, cheap, dear, c1, c2, c3, c4

FourCalls == {c1, c2, c3, c4}
MCEmails == {ann, bob}
MCPrices == {cheap, dear}

(***************************************************************************)
(* Users with and without an id of their own, and an item that is created  *)
(* deleted; an order of a user and for an item that others are creating;   *)
(* the reads; a body that does not decode.                                 *)
(***************************************************************************)
MCRequests ==
  { [op |-> "CreateUser", id |-> 0, email |-> ann, deleted |-> FALSE],
    [op |-> "CreateUser", id |-> 1, email |-> bob, deleted |-> FALSE],
    [op |-> "GetUser", id |-> 1], [op |-> "GetUser", id |-> Text],
    [op |-> "CreateMenuItem", id |-> 0, price |-> cheap, deleted |-> FALSE],
    [op |-> "CreateMenuItem", id |-> 1, price |-> dear, deleted |-> TRUE],
    [op |-> "GetMenu"],
    [op |-> "CreateOrder", userId |-> 1,
     items |-> <<[menuItemId |-> 1, quantity |-> 2], [menuItemId |-> 1, quantity |-> -1]>>],
    [op |-> "CreateOrder", userId |-> -1, items |-> <<>>],
    [op |-> "GetOrders"] }

BothFaults == {"db", "process"}

CallSymmetry == Permutations(Calls)
=============================================================================
