---------------------------- MODULE MenuService ----------------------------
(***************************************************************************)
(* practical6-example/menu-service: the gRPC server and its own database   *)
(* with the table `menu_items'.  As in the user service each handler runs  *)
(* one statement.  Names, descriptions and timestamps are left out; the    *)
(* price matters because orders copy it.                                   *)
(***************************************************************************)
EXTENDS Grpc, Sequences

CONSTANTS Prices,
          MenuSeed    \* prices of the items already stored, in id order

ASSUME MenuAssumption == MenuSeed \in Seq(Prices)

VARIABLES menuItems,  \* the table
          menuSeq,    \* the next value of the sequence behind its id
          menuUp,     \* whether the process runs
          menuCall    \* the call that each goroutine has made here, if any

menuVars == <<menuItems, menuSeq, menuUp, menuCall>>

MenuRow == [id : Nat, price : Prices]

(* The messages of menu.v1; `op' is the method a request is sent to. *)
CreateMenuItemRequest == [op : {"CreateMenuItem"}, price : Prices]
GetMenuItemRequest == [op : {"GetMenuItem"}, id : Uint32s]
GetMenuRequest == [op : {"GetMenu"}]

MenuReq == CreateMenuItemRequest \cup GetMenuItemRequest \cup GetMenuRequest

MenuMsg == [id : Uint32s, price : Prices]

MenuTypeOK == /\ menuItems \subseteq MenuRow
              /\ menuSeq \in Nat \ {0}
              /\ menuUp \in BOOLEAN
              /\ menuCall \in [Calls -> CallStates(MenuReq, MenuMsg)]

MenuInit == /\ menuItems = {[id |-> i, price |-> MenuSeed[i]] : i \in DOMAIN MenuSeed}
            /\ menuSeq = Len(MenuSeed) + 1
            /\ menuUp = TRUE
            /\ menuCall = [c \in Calls |-> Idle]

MenuItemToProto(row) == [id |-> Uint32(row.id), price |-> row.price]

(* The messages in the responses. *)
CreateMenuItemResponse(row) == {MenuItemToProto(row)}
GetMenuItemResponse(found) == {MenuItemToProto(row) : row \in found}
GetMenuResponse == {MenuItemToProto(row) : row \in menuItems}

MenuServing(c, op) == /\ menuUp
                      /\ menuCall[c].st = "sent"
                      /\ menuCall[c].req.op = op

MenuReply(c, code, msgs) == menuCall' = [menuCall EXCEPT ![c] = Done(code, msgs)]

-----------------------------------------------------------------------------
(* Only ErrRecordNotFound becomes NotFound; any other error is Internal. *)
MenuServer_GetMenuItem(c) ==
  /\ MenuServing(c, "GetMenuItem")
  /\ LET found == {m \in menuItems : m.id = menuCall[c].req.id}
     IN  \/ found = {} /\ MenuReply(c, "NotFound", {})
         \/ found # {} /\ MenuReply(c, "OK", GetMenuItemResponse(found))
         \/ "db" \in Faults /\ MenuReply(c, "Internal", {})
  /\ UNCHANGED <<menuItems, menuSeq, menuUp>>

MenuServer_GetMenu(c) ==
  /\ MenuServing(c, "GetMenu")
  /\ \/ MenuReply(c, "OK", GetMenuResponse)
     \/ "db" \in Faults /\ MenuReply(c, "Internal", {})
  /\ UNCHANGED <<menuItems, menuSeq, menuUp>>

(***************************************************************************)
(* A stored row is reported unless the connection breaks at COMMIT; a      *)
(* failed insert stores nothing, but may have drawn an id.                 *)
(***************************************************************************)
MenuServer_CreateMenuItem(c) ==
  /\ MenuServing(c, "CreateMenuItem")
  /\ LET item == [id |-> menuSeq, price |-> menuCall[c].req.price]
     IN  \/ /\ menuItems' = menuItems \cup {item}
            /\ menuSeq' = menuSeq + 1
            /\ \/ MenuReply(c, "OK", CreateMenuItemResponse(item))
               \/ "db" \in Faults /\ MenuReply(c, "Internal", {})
         \/ /\ "db" \in Faults
            /\ menuSeq' \in {menuSeq, menuSeq + 1}
            /\ MenuReply(c, "Internal", {})
            /\ UNCHANGED menuItems
  /\ UNCHANGED menuUp

-----------------------------------------------------------------------------
(* gRPC fails a call fast while the server cannot be reached. *)
MenuRefuse(c) == /\ ~menuUp
                 /\ menuCall[c].st = "sent"
                 /\ MenuReply(c, "Unavailable", {})
                 /\ UNCHANGED <<menuItems, menuSeq, menuUp>>

MenuCrash == /\ "menu" \in Faults
             /\ menuUp
             /\ menuUp' = FALSE
             /\ \E lost \in SUBSET Undelivered(menuCall) :
                  menuCall' = CutOff(menuCall, lost)
             /\ UNCHANGED <<menuItems, menuSeq>>

(* main: Connect, migrate (which keeps the rows), listen. *)
MenuRestart == /\ ~menuUp
               /\ menuUp' = TRUE
               /\ UNCHANGED <<menuItems, menuSeq, menuCall>>

MenuServe(c) == \/ MenuServer_GetMenuItem(c)
                \/ MenuServer_GetMenu(c)
                \/ MenuServer_CreateMenuItem(c)
                \/ MenuRefuse(c)

MenuNext == (\E c \in Calls : MenuServe(c)) \/ MenuCrash \/ MenuRestart
=============================================================================
