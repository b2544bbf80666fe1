----------------------------- MODULE ApiGateway -----------------------------
(***************************************************************************)
(* practical6-example/api-gateway: nine HTTP handlers, each of which       *)
(* decodes a request, makes one gRPC call with context.Background() (no    *)
(* deadline, not cancelled when the client leaves) and translates the      *)
(* answer.  A handler is two steps, before and after its call.             *)
(***************************************************************************)
EXTENDS OrderService

CONSTANTS Requests,    \* the HTTP requests that clients make
          Malformed    \* stands for a body that does not decode

HttpItem == [menuItemId : Int, quantity : Int]

HttpRequest ==
  [op : {"CreateUser"}, email : Emails \cup {Malformed}]
    \cup [op : {"CreateMenuItem"}, price : Prices \cup {Malformed}]
    \cup [op : {"CreateOrder"}, userId : Int, items : Seq(HttpItem)]
    \cup [op : {"GetUser", "GetMenuItem", "GetOrder"}, id : Int]
    \cup [op : {"GetUsers", "GetMenu", "GetOrders"}]

ASSUME RequestsAssumption == /\ Requests \subseteq HttpRequest
                             /\ Malformed \notin Emails \cup Prices

VARIABLES http,        \* each client call, as its client sees it
          gatewayUp,   \* whether the process runs
          before       \* history: the calls already answered when one began

gatewayVars == <<http, gatewayUp, before>>

channels == <<userCall, menuCall, orderCall>>

Statuses == {200, 201, 400, 401, 403, 404, 409, 412, 500, 501, 503}

HttpStates ==
  [st : {"new"}]
    \cup [st : {"waiting", "lost"}, req : Requests]
    \cup [st : {"answered"}, req : Requests, status : Statuses,
          msgs : SUBSET (UserMsg \cup MenuMsg \cup OrderMsg)]

GatewayTypeOK == /\ http \in [Calls -> HttpStates]
                 /\ gatewayUp \in BOOLEAN
                 /\ before \in [Calls -> SUBSET Calls]

GatewayInit == /\ http = [c \in Calls |-> [st |-> "new"]]
               /\ gatewayUp = TRUE
               /\ before = [c \in Calls |-> {}]

-----------------------------------------------------------------------------
HandleGRPCError(code) ==
  CASE code = "NotFound"           -> 404
    [] code = "InvalidArgument"    -> 400
    [] code = "AlreadyExists"      -> 409
    [] code = "PermissionDenied"   -> 403
    [] code = "Unauthenticated"    -> 401
    [] code = "FailedPrecondition" -> 412
    [] code = "Unimplemented"      -> 501
    [] code = "Unavailable"        -> 503
    [] OTHER                       -> 500

Answered(r, status, msgs) ==
  [st |-> "answered", req |-> r, status |-> status, msgs |-> msgs]

(* The router has matched request r of client call c to the handler op. *)
Routed(c, r, op) == /\ gatewayUp
                    /\ http[c].st = "new"
                    /\ r.op = op
                    /\ before' = [before EXCEPT ![c] =
                                    {d \in Calls : http[d].st = "answered"}]
                    /\ UNCHANGED gatewayUp

Wait(c, r) == http' = [http EXCEPT ![c] = [st |-> "waiting", req |-> r]]

BadRequest(c, r) == /\ http' = [http EXCEPT ![c] = Answered(r, 400, {})]
                    /\ UNCHANGED channels

CallUser(c, req) == /\ userCall' = [userCall EXCEPT ![c] = Sent(req)]
                    /\ UNCHANGED <<menuCall, orderCall>>

CallMenu(c, req) == /\ menuCall' = [menuCall EXCEPT ![c] = Sent(req)]
                    /\ UNCHANGED <<userCall, orderCall>>

CallOrder(c, req) == /\ orderCall' = [orderCall EXCEPT ![c] = Sent(req)]
                     /\ UNCHANGED <<userCall, menuCall>>

-----------------------------------------------------------------------------
Handlers_CreateUser(c, r) ==
  /\ Routed(c, r, "CreateUser")
  /\ \/ r.email = Malformed /\ BadRequest(c, r)
     \/ /\ r.email # Malformed
        /\ Wait(c, r)
        /\ CallUser(c, [op |-> "CreateUser", email |-> r.email])

(* Mutant: an id that is parsed without the 32-bit limit. *)
GetUser_WideId(c, r) ==
  /\ Routed(c, r, "GetUser")
  /\ Wait(c, r)
  /\ CallUser(c, [op |-> "GetUser", id |-> r.id])

(* strconv.ParseUint(idStr, 10, 32) *)
Handlers_GetUser(c, r) ==
  /\ Routed(c, r, "GetUser")
  /\ \/ r.id \notin Uint32s /\ BadRequest(c, r)
     \/ /\ r.id \in Uint32s
        /\ Wait(c, r)
        /\ CallUser(c, [op |-> "GetUser", id |-> r.id])

Handlers_GetUsers(c, r) ==
  /\ Routed(c, r, "GetUsers")
  /\ Wait(c, r)
  /\ CallUser(c, [op |-> "GetUsers"])

Handlers_CreateMenuItem(c, r) ==
  /\ Routed(c, r, "CreateMenuItem")
  /\ \/ r.price = Malformed /\ BadRequest(c, r)
     \/ /\ r.price # Malformed
        /\ Wait(c, r)
        /\ CallMenu(c, [op |-> "CreateMenuItem", price |-> r.price])

Handlers_GetMenuItem(c, r) ==
  /\ Routed(c, r, "GetMenuItem")
  /\ \/ r.id \notin Uint32s /\ BadRequest(c, r)
     \/ /\ r.id \in Uint32s
        /\ Wait(c, r)
        /\ CallMenu(c, [op |-> "GetMenuItem", id |-> r.id])

Handlers_GetMenu(c, r) ==
  /\ Routed(c, r, "GetMenu")
  /\ Wait(c, r)
  /\ CallMenu(c, [op |-> "GetMenu"])

(* The JSON decoder rejects a number that does not fit its uint32 field. *)
Decodes(r) == /\ r.userId \in Uint32s
              /\ \A k \in DOMAIN r.items : /\ r.items[k].menuItemId \in Uint32s
                                           /\ r.items[k].quantity \in Uint32s

(* int32(item.Quantity) *)
ToItemReq(item) == [menuItemId |-> item.menuItemId, quantity |-> Int32(item.quantity)]

Handlers_CreateOrder(c, r) ==
  /\ Routed(c, r, "CreateOrder")
  /\ \/ ~Decodes(r) /\ BadRequest(c, r)
     \/ /\ Decodes(r)
        /\ Wait(c, r)
        /\ CallOrder(c, [op |-> "CreateOrder", userId |-> r.userId,
                         items |-> [k \in DOMAIN r.items |-> ToItemReq(r.items[k])]])

Handlers_GetOrder(c, r) ==
  /\ Routed(c, r, "GetOrder")
  /\ \/ r.id \notin Uint32s /\ BadRequest(c, r)
     \/ /\ r.id \in Uint32s
        /\ Wait(c, r)
        /\ CallOrder(c, [op |-> "GetOrder", id |-> r.id])

Handlers_GetOrders(c, r) ==
  /\ Routed(c, r, "GetOrders")
  /\ Wait(c, r)
  /\ CallOrder(c, [op |-> "GetOrders"])

-----------------------------------------------------------------------------
UserOps == {"CreateUser", "GetUser", "GetUsers"}
MenuOps == {"CreateMenuItem", "GetMenuItem", "GetMenu"}
OrderOps == {"CreateOrder", "GetOrder", "GetOrders"}

(* A create handler writes StatusCreated, the others leave the default 200. *)
SuccessStatus(op) ==
  IF op \in {"CreateUser", "CreateMenuItem", "CreateOrder"} THEN 201 ELSE 200

Waiting(c, ops) == /\ gatewayUp
                   /\ http[c].st = "waiting"
                   /\ http[c].req.op \in ops

(* The gRPC call has returned: encode its message, or map its error. *)
Respond(c, reply) ==
  /\ reply.st = "done"
  /\ http' = [http EXCEPT ![c] =
                IF reply.code = "OK"
                THEN Answered(http[c].req, SuccessStatus(http[c].req.op), reply.msgs)
                ELSE Answered(http[c].req, HandleGRPCError(reply.code), {})]
  /\ UNCHANGED <<gatewayUp, before>>

UserResponse(c) == /\ Waiting(c, UserOps)
                   /\ Respond(c, userCall[c])
                   /\ userCall' = [userCall EXCEPT ![c] = Idle]
                   /\ UNCHANGED <<menuCall, orderCall>>

MenuResponse(c) == /\ Waiting(c, MenuOps)
                   /\ Respond(c, menuCall[c])
                   /\ menuCall' = [menuCall EXCEPT ![c] = Idle]
                   /\ UNCHANGED <<userCall, orderCall>>

OrderResponse(c) == /\ Waiting(c, OrderOps)
                    /\ Respond(c, orderCall[c])
                    /\ orderCall' = [orderCall EXCEPT ![c] = Idle]
                    /\ UNCHANGED <<userCall, menuCall>>

-----------------------------------------------------------------------------
(* The process dies: its clients' connections break, its calls are orphans. *)
GatewayCrash ==
  /\ "gateway" \in Faults
  /\ gatewayUp
  /\ gatewayUp' = FALSE
  /\ http' = [c \in Calls |-> IF http[c].st = "waiting"
                              THEN [st |-> "lost", req |-> http[c].req]
                              ELSE http[c]]
  /\ UNCHANGED <<before, channels>>

GatewayRestart == /\ ~gatewayUp
                  /\ gatewayUp' = TRUE
                  /\ UNCHANGED <<http, before, channels>>

Handle(c, r) == \/ Handlers_CreateUser(c, r) \/ Handlers_GetUser(c, r)
                \/ Handlers_GetUsers(c, r) \/ Handlers_CreateMenuItem(c, r)
                \/ Handlers_GetMenuItem(c, r) \/ Handlers_GetMenu(c, r)
                \/ Handlers_CreateOrder(c, r) \/ Handlers_GetOrder(c, r)
                \/ Handlers_GetOrders(c, r)

Response(c) == UserResponse(c) \/ MenuResponse(c) \/ OrderResponse(c)

GatewayNext == \/ \E c \in Calls, r \in Requests : Handle(c, r)
               \/ \E c \in Calls : Response(c)
               \/ GatewayCrash
               \/ GatewayRestart
=============================================================================
