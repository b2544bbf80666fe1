----------------------------- MODULE ReadProofs -----------------------------
(***************************************************************************)
(* What was acknowledged is read afterwards: the lists contain it, and a   *)
(* lookup by id does not answer 404 while ids fit into uint32.  Proved for *)
(* any number of calls, any requests and any choice of failures.           *)
(***************************************************************************)
EXTENDS AnswerProofs

-----------------------------------------------------------------------------
(* What was acknowledged to calls that c came after is in msgs. *)
Seen(c, op, msgs) == \A d \in before[c] : Got(d, op, {201}) => http[d].msgs \subseteq msgs

(* None of what was acknowledged to calls that c came after has this id. *)
NotSeen(c, op, id) ==
  \A d \in before[c] : Got(d, op, {201}) => \A msg \in http[d].msgs : msg.id # id

BeforeInv(c) == \A d \in before[c] : d \in Calls /\ http[d].st = "answered"

(* An unanswered call to the user service, made by the gateway. *)
UserPending(c) == http[c].st \in {"waiting", "lost"} /\ http[c].req.op \in UserOps

UserReadInv(c) ==
  /\ UserPending(c) /\ userCall[c].st = "sent" =>
       /\ userCall[c].req.op = http[c].req.op
       /\ http[c].req.op = "GetUser" => userCall[c].req.id = http[c].req.id
  /\ UserPending(c) /\ userCall[c].st = "done" /\ userCall[c].code = "OK" =>
       /\ userCall[c].msgs \subseteq GetUsersResponse
       /\ http[c].req.op = "GetUsers" => Seen(c, "CreateUser", userCall[c].msgs)
  /\ UserPending(c) /\ userCall[c].st = "done" /\ userCall[c].code = "NotFound"
       /\ http[c].req.op = "GetUser" /\ userSeq <= Word =>
       NotSeen(c, "CreateUser", http[c].req.id)

UserToldInv(c) ==
  /\ Got(c, "CreateUser", {201}) => http[c].msgs \subseteq GetUsersResponse
  /\ Got(c, "GetUsers", {200}) => Seen(c, "CreateUser", http[c].msgs)
  /\ Got(c, "GetUser", {404}) /\ userSeq <= Word =>
       NotSeen(c, "CreateUser", http[c].req.id)

(* An unanswered call to the menu service, made by the gateway. *)
MenuPending(c) == http[c].st \in {"waiting", "lost"} /\ http[c].req.op \in MenuOps

MenuReadInv(c) ==
  /\ MenuPending(c) /\ menuCall[c].st = "sent" =>
       /\ menuCall[c].req.op = http[c].req.op
       /\ http[c].req.op = "GetMenuItem" => menuCall[c].req.id = http[c].req.id
  /\ MenuPending(c) /\ menuCall[c].st = "done" /\ menuCall[c].code = "OK" =>
       /\ menuCall[c].msgs \subseteq GetMenuResponse
       /\ http[c].req.op = "GetMenu" => Seen(c, "CreateMenuItem", menuCall[c].msgs)
  /\ MenuPending(c) /\ menuCall[c].st = "done" /\ menuCall[c].code = "NotFound"
       /\ http[c].req.op = "GetMenuItem" /\ menuSeq <= Word =>
       NotSeen(c, "CreateMenuItem", http[c].req.id)

MenuToldInv(c) ==
  /\ Got(c, "CreateMenuItem", {201}) => http[c].msgs \subseteq GetMenuResponse
  /\ Got(c, "GetMenu", {200}) => Seen(c, "CreateMenuItem", http[c].msgs)
  /\ Got(c, "GetMenuItem", {404}) /\ menuSeq <= Word =>
       NotSeen(c, "CreateMenuItem", http[c].req.id)

-----------------------------------------------------------------------------
(* The client of an answered call keeps its answer; only the first step of *)
(* its own handler notes what a call came after.                           *)
LEMMA AnsweredStays ==
  ASSUME TypeOK, [Next]_vars, NEW d \in Calls, http[d].st = "answered"
  PROVE  http'[d] = http[d]
<1>1. CASE GatewayStep
  <2>1. GatewayNext
    BY <1>1 DEF GatewayStep
  <2>2. ~Disconnected(d) /\ ~Response(d) /\ \A r \in Requests : ~Handle(d, r)
    BY HandleEffect DEF Disconnected, Response, UserResponse, MenuResponse, OrderResponse,
       Waiting
  <2>3. QED BY <2>1, <2>2, GatewayEffect DEF GatewayLeaves
<1>2. CASE UserStep \/ MenuStep \/ OrderStep \/ CancelStep \/ UNCHANGED vars
  BY <1>2 DEF UserStep, MenuStep, OrderStep, CancelStep, gatewayVars, vars
<1>3. QED BY <1>1, <1>2 DEF Next

LEMMA BeforeStays ==
  ASSUME TypeOK, [Next]_vars, NEW d \in Calls
  PROVE  before'[d] = before[d] \/ \E r \in Requests : Handle(d, r)
<1>1. CASE GatewayStep
  <2>1. GatewayNext
    BY <1>1 DEF GatewayStep
  <2>2. Response(d) => before'[d] = before[d]
    BY DEF Response, UserResponse, MenuResponse, OrderResponse, Respond
  <2>3. QED BY <2>1, <2>2, GatewayEffect DEF GatewayLeaves, Disconnected
<1>2. CASE UserStep \/ MenuStep \/ OrderStep \/ CancelStep \/ UNCHANGED vars
  BY <1>2 DEF UserStep, MenuStep, OrderStep, CancelStep, gatewayVars, vars
<1>3. QED BY <1>1, <1>2 DEF Next

LEMMA BeforeStep ==
  ASSUME TypeOK, [Next]_vars, NEW d \in Calls, BeforeInv(d)
  PROVE  BeforeInv(d)'
<1>1. ASSUME NEW r \in Requests, Handle(d, r) PROVE BeforeInv(d)'
  <2>1. before'[d] = {e \in Calls : http[e].st = "answered"}
    BY <1>1, HandleEffect
  <2>2. \A e \in Calls : http[e].st = "answered" => http'[e].st = "answered"
    BY AnsweredStays
  <2>3. QED BY <2>1, <2>2 DEF BeforeInv
<1>2. CASE before'[d] = before[d]
  BY <1>2, AnsweredStays DEF BeforeInv
<1>3. QED BY <1>1, <1>2, BeforeStays

(* The order service touches the calls of its own handlers only. *)
LEMMA OrderLeavesChannels ==
  ASSUME TypeOK, HandlerInv, OrderStep \/ CancelStep, NEW d \in Calls
  PROVE  \/ userCall'[d] = userCall[d] /\ menuCall'[d] = menuCall[d]
         \/ http[d].st \in {"waiting", "lost"} /\ http[d].req.op \in OrderOps
<1>a. DOMAIN userCall = Calls /\ DOMAIN menuCall = Calls
  BY DEF TypeOK, UserTypeOK, MenuTypeOK
<1>b. orderCall[d].st # "idle" => http[d].st \in {"waiting", "lost"} /\ http[d].req.op \in OrderOps
  BY DEF HandlerInv, ChannelInv
<1>c. handler[d].pc # "idle" => orderCall[d].st = "sent"
  BY DEF HandlerInv, RunningInv
<1>1. ASSUME NEW c \in Calls, OrderServe(c) \/ ContextCanceled(c)
      PROVE  /\ orderCall[c].st = "sent"
             /\ d # c => userCall'[d] = userCall[d] /\ menuCall'[d] = menuCall[d]
  BY <1>1, <1>a
  DEF OrderServe, OrderServer_CreateOrder, UserChecked, MenuItemChecked, NextItem,
      InsertOrder, InsertItems, Commit, Rollback, OrderServer_GetOrder,
      OrderServer_GetOrders, Preload, OrderRefuse, ContextCanceled, At, OrderServing
<1>2. CASE OrderCrash
  <2>1. handler[d].pc = "idle" => userCall'[d] = userCall[d] /\ menuCall'[d] = menuCall[d]
    BY <1>2 DEF OrderCrash
  <2>2. QED BY <2>1, <1>b, <1>c
<1>3. CASE OrderRestart
  BY <1>3 DEF OrderRestart
<1>4. QED BY <1>1, <1>2, <1>3, <1>b DEF OrderStep, CancelStep, OrderNext

-----------------------------------------------------------------------------
(* Which step of the user service answers a call, or loses its answer. *)
LEMMA UserReplies ==
  ASSUME TypeOK, UserNext, NEW d \in Calls
  PROVE  \/ userCall'[d] = userCall[d]
         \/ /\ userCall[d].st = "sent"
            /\ \/ UserServer_CreateUser(d) \/ UserServer_GetUser(d)
               \/ UserServer_GetUsers(d) \/ UserRefuse(d)
         \/ userCall[d].st = "done" /\ userCall'[d] = Done("Unavailable", {})
<1>a. DOMAIN userCall = Calls
  BY DEF TypeOK, UserTypeOK
<1>1. ASSUME NEW c \in Calls, UserServe(c), c # d PROVE userCall'[d] = userCall[d]
  BY <1>1, <1>a DEF UserServe, UserServer_CreateUser, UserServer_GetUser,
     UserServer_GetUsers, UserRefuse, UserReply
<1>2. UserServe(d) => userCall[d].st = "sent"
  BY DEF UserServe, UserServer_CreateUser, UserServer_GetUser,
     UserServer_GetUsers, UserRefuse, UserServing
<1>3. CASE UserCrash
  <2>1. PICK lost \in SUBSET Undelivered(userCall) : userCall' = CutOff(userCall, lost)
    BY <1>3 DEF UserCrash
  <2>2. QED BY <2>1, <1>a DEF CutOff, Undelivered
<1>4. CASE UserRestart
  BY <1>4 DEF UserRestart
<1>5. QED BY <1>1, <1>2, <1>3, <1>4 DEF UserNext, UserServe

(* The messages that its answers carry, and when it answers NotFound. *)
LEMMA UserReplyShapes ==
  ASSUME TypeOK, NEW d \in Calls, userCall[d].st = "sent",
         \/ UserServer_CreateUser(d) \/ UserServer_GetUser(d)
         \/ UserServer_GetUsers(d) \/ UserRefuse(d)
  PROVE  /\ userCall'[d].st = "done"
         /\ userCall'[d].code = "OK" => userCall'[d].msgs \subseteq GetUsersResponse'
         /\ userCall'[d].code = "OK" /\ userCall[d].req.op = "GetUsers" =>
              userCall'[d].msgs = GetUsersResponse
         /\ userCall'[d].code = "NotFound" =>
              \A u \in users : u.id # userCall[d].req.id
<1>a. DOMAIN userCall = Calls
  BY DEF TypeOK, UserTypeOK
<1>b. ASSUME NEW code, NEW msgs, UserReply(d, code, msgs)
      PROVE  /\ userCall'[d].st = "done"
             /\ userCall'[d].code = code /\ userCall'[d].msgs = msgs
  BY <1>a, <1>b DEF UserReply, Done
<1>1. CASE UserServer_CreateUser(d)
  <2> DEFINE user == [id |-> userSeq, email |-> userCall[d].req.email]
  <2>1. userCall[d].req.op = "CreateUser"
    BY <1>1 DEF UserServer_CreateUser, UserServing
  <2>2. \/ users' = users \cup {user} /\ UserReply(d, "OK", CreateUserResponse(user))
        \/ UserReply(d, "Internal", {})
    BY <1>1 DEF UserServer_CreateUser, InsertUser
  <2>3. users' = users \cup {user} => CreateUserResponse(user) \subseteq GetUsersResponse'
    BY DEF CreateUserResponse, GetUsersResponse
  <2> HIDE DEF user
  <2>4. QED BY <2>1, <2>2, <2>3, <1>b
<1>2. CASE UserServer_GetUser(d)
  <2> DEFINE found == {u \in users : u.id = userCall[d].req.id}
  <2>1. userCall[d].req.op = "GetUser" /\ UNCHANGED users
    BY <1>2 DEF UserServer_GetUser, UserServing
  <2>2. \/ found = {} /\ UserReply(d, "NotFound", {})
        \/ UserReply(d, "OK", GetUserResponse(found)) \/ UserReply(d, "Internal", {})
    BY <1>2 DEF UserServer_GetUser
  <2>3. GetUserResponse(found) \subseteq GetUsersResponse'
    BY <2>1 DEF GetUserResponse, GetUsersResponse
  <2>4. found = {} => \A u \in users : u.id # userCall[d].req.id
    OBVIOUS
  <2> HIDE DEF found
  <2>5. QED BY <2>1, <2>2, <2>3, <2>4, <1>b
<1>3. CASE UserServer_GetUsers(d)
  <2>1. GetUsersResponse' = GetUsersResponse
    BY <1>3 DEF UserServer_GetUsers, GetUsersResponse
  <2>2. UserReply(d, "OK", GetUsersResponse) \/ UserReply(d, "Internal", {})
    BY <1>3 DEF UserServer_GetUsers
  <2>3. QED BY <2>1, <2>2, <1>b
<1>4. CASE UserRefuse(d)
  BY <1>4, <1>b DEF UserRefuse
<1>5. QED BY <1>1, <1>2, <1>3, <1>4

(* The table only grows, and so do the messages that show it. *)
LEMMA UserRowsStay ==
  ASSUME TypeOK, UserNext
  PROVE  /\ GetUsersResponse \subseteq GetUsersResponse'
         /\ userSeq' <= Word => userSeq <= Word
<1>1. users \subseteq users' /\ userSeq \in Nat /\ userSeq' \in {userSeq, userSeq + 1}
  BY UserEffect DEF TypeOK, UserTypeOK
<1>2. Word \in Nat
  BY WordAssumption
<1>3. QED BY <1>1, <1>2 DEF GetUsersResponse

(* While ids fit, a message carries the id of its row. *)
LEMMA UserIdsFit ==
  ASSUME TypeOK, KeysInv, userSeq <= Word, NEW msg \in GetUsersResponse
  PROVE  \E u \in users : u.id = msg.id
<1>1. PICK u \in users : msg = [id |-> u.id % Word, email |-> u.email]
  BY DEF GetUsersResponse, UserToProto, Uint32
<1>2. u.id \in Nat /\ u.id < userSeq /\ userSeq \in Nat
  BY DEF KeysInv, SequencesAhead, TypeOK, UserTypeOK, UserRow
<1>3. u.id % Word = u.id
  BY <1>2, WordAssumption
<1>4. QED BY <1>1, <1>3

LEMMA UserStepReads ==
  ASSUME TruthInv, UserStep, \A c \in Calls : UserToldInv(c),
         NEW d \in Calls, BeforeInv(d), UserReadInv(d)
  PROVE  UserReadInv(d)' /\ UserToldInv(d)'
<1>a. TypeOK /\ KeysInv
  BY DEF TruthInv, LedgerInv, IndInv
<1>b. UserNext /\ http' = http /\ before' = before
  BY DEF UserStep, gatewayVars
<1>c. GetUsersResponse \subseteq GetUsersResponse' /\ (userSeq' <= Word => userSeq <= Word)
  BY <1>a, <1>b, UserRowsStay
<1>f. Seen(d, "CreateUser", GetUsersResponse)
  BY DEF Seen, UserToldInv, BeforeInv
<1>1. UserToldInv(d)'
  <2>1. UserToldInv(d)
    OBVIOUS
  <2>3. (Got(d, "CreateUser", {201}) => http[d].msgs \subseteq GetUsersResponse)'
    BY <2>1, <1>b, <1>c DEF UserToldInv, Got
  <2>4. (Got(d, "GetUsers", {200}) => Seen(d, "CreateUser", http[d].msgs))'
    BY <2>1, <1>b DEF UserToldInv, Got, Seen
  <2>5. (Got(d, "GetUser", {404}) /\ userSeq <= Word =>
           NotSeen(d, "CreateUser", http[d].req.id))'
    BY <2>1, <1>b, <1>c DEF UserToldInv, Got, NotSeen
  <2>6. QED BY <2>3, <2>4, <2>5 DEF UserToldInv
<1>2. UserReadInv(d)'
  <2>1. UserPending(d)' <=> UserPending(d)
    BY <1>b DEF UserPending
  <2>2. CASE ~UserPending(d)
    BY <2>1, <2>2 DEF UserReadInv
  <2>3. CASE UserPending(d) /\ userCall'[d] = userCall[d]
    BY <2>1, <2>3, <1>b, <1>c DEF UserReadInv, Seen, NotSeen, Got
  <2>4. CASE UserPending(d) /\ userCall'[d] = Done("Unavailable", {})
    <3>1. userCall'[d].st = "done" /\ userCall'[d].code = "Unavailable"
      BY <2>4 DEF Done
    <3>2. QED BY <3>1 DEF UserReadInv
  <2>5. CASE /\ UserPending(d)
             /\ userCall[d].st = "sent"
             /\ \/ UserServer_CreateUser(d) \/ UserServer_GetUser(d)
                \/ UserServer_GetUsers(d) \/ UserRefuse(d)
    <3>1. /\ userCall[d].req.op = http[d].req.op
          /\ http[d].req.op = "GetUser" => userCall[d].req.id = http[d].req.id
      BY <2>5 DEF UserReadInv
    <3>2. /\ userCall'[d].st = "done"
          /\ userCall'[d].code = "OK" => userCall'[d].msgs \subseteq GetUsersResponse'
          /\ userCall'[d].code = "OK" /\ http[d].req.op = "GetUsers" =>
               userCall'[d].msgs = GetUsersResponse
          /\ userCall'[d].code = "NotFound" /\ http[d].req.op = "GetUser" =>
               \A u \in users : u.id # http[d].req.id
      BY <2>5, <3>1, <1>a, UserReplyShapes
    <3>3. userCall'[d].code = "OK" /\ http[d].req.op = "GetUsers" =>
            Seen(d, "CreateUser", userCall[d].msgs)'
      BY <3>2, <1>b, <1>f DEF Seen, Got
    <3>4. userCall'[d].code = "NotFound" /\ http[d].req.op = "GetUser" /\ userSeq <= Word =>
            NotSeen(d, "CreateUser", http[d].req.id)
      BY <3>2, <1>a, <1>f, UserIdsFit DEF Seen, NotSeen
    <3>5. userCall'[d].code = "NotFound" /\ http[d].req.op = "GetUser" /\ userSeq' <= Word =>
            NotSeen(d, "CreateUser", http[d].req.id)'
      BY <3>4, <1>b, <1>c DEF NotSeen, Got
    <3>6. QED BY <3>2, <3>3, <3>5, <1>b DEF UserReadInv
  <2>6. QED BY <2>2, <2>3, <2>4, <2>5, <1>a, <1>b, UserReplies
<1>3. QED BY <1>1, <1>2

(* Steps of the others: the call goes on, loses its client, ... *)
LEMMA UserReadsStay ==
  ASSUME TypeOK, [Next]_vars, NEW d \in Calls, BeforeInv(d), UserReadInv(d), UserToldInv(d),
         UNCHANGED <<users, userSeq>>, before'[d] = before[d],
         userCall'[d] = userCall[d] \/ ~UserPending(d),
         \/ http'[d] = http[d]
         \/ http[d].st = "waiting" /\ http'[d] = [st |-> "lost", req |-> http[d].req]
  PROVE  UserReadInv(d)' /\ UserToldInv(d)'
<1>a. GetUsersResponse' = GetUsersResponse /\ userSeq' = userSeq
  BY DEF GetUsersResponse
<1>b. \A e \in before[d] : http'[e] = http[e]
  BY AnsweredStays DEF BeforeInv
<1>c. UserPending(d)' => UserPending(d) /\ userCall'[d] = userCall[d]
  BY DEF UserPending
<1>d. http'[d].st \in {"lost", "waiting"} => http'[d].req = http[d].req
  OBVIOUS
<1>1. UserReadInv(d)'
  BY <1>a, <1>b, <1>c, <1>d DEF UserReadInv, UserPending, Seen, NotSeen, Got
<1>2. CASE http'[d] = http[d]
  <2>1. UserToldInv(d)'
    BY <1>a, <1>b, <1>2 DEF UserToldInv, Seen, NotSeen, Got
  <2>2. QED BY <1>1, <2>1
<1>3. CASE http'[d] = [st |-> "lost", req |-> http[d].req]
  <2>1. UserToldInv(d)'
    BY <1>3 DEF UserToldInv, Got
  <2>2. QED BY <1>1, <2>1
<1>4. QED BY <1>2, <1>3

(* ... is answered by the gateway, ... *)
LEMMA UserResponseReads ==
  ASSUME TypeOK, [Next]_vars, NEW d \in Calls, BeforeInv(d), UserReadInv(d),
         UNCHANGED <<users, userSeq>>, Response(d)
  PROVE  UserReadInv(d)' /\ UserToldInv(d)'
<1>a. DOMAIN http = Calls
  BY DEF TypeOK, GatewayTypeOK
<1>b. GetUsersResponse' = GetUsersResponse /\ userSeq' = userSeq
  BY DEF GetUsersResponse
<1>c. \A e \in before[d] : http'[e] = http[e]
  BY AnsweredStays DEF BeforeInv
<1>d. /\ http[d].st = "waiting" /\ http'[d].st = "answered"
      /\ http'[d].req = http[d].req /\ before'[d] = before[d]
  BY <1>a DEF Response, UserResponse, MenuResponse, OrderResponse, Respond, Waiting, Answered
<1>1. UserReadInv(d)'
  BY <1>d DEF UserReadInv, UserPending
<1>2. CASE UserResponse(d)
  <2>1. UserPending(d) /\ userCall[d].st = "done"
    BY <1>2 DEF UserResponse, Waiting, Respond, UserPending
  <2>2. CASE userCall[d].code = "OK"
    <3>1. /\ http'[d].status = SuccessStatus(http[d].req.op)
          /\ http'[d].msgs = userCall[d].msgs
      BY <1>2, <1>a, <2>2 DEF UserResponse, Respond, Answered
    <3>2. http'[d].status \in {200, 201}
      BY <3>1 DEF SuccessStatus
    <3>3. /\ userCall[d].msgs \subseteq GetUsersResponse
          /\ http[d].req.op = "GetUsers" => Seen(d, "CreateUser", userCall[d].msgs)
      BY <2>1, <2>2 DEF UserReadInv
    <3>4. QED BY <3>1, <3>2, <3>3, <1>1, <1>b, <1>c, <1>d DEF UserToldInv, Got, Seen
  <2>3. CASE userCall[d].code # "OK"
    <3>1. http'[d].status = HandleGRPCError(userCall[d].code)
      BY <1>2, <1>a, <2>3 DEF UserResponse, Respond, Answered
    <3>2. /\ http'[d].status \notin {200, 201}
          /\ http'[d].status = 404 => userCall[d].code = "NotFound"
      BY <3>1, ErrorStatus
    <3>3. /\ userCall[d].code = "NotFound" /\ http[d].req.op = "GetUser" /\ userSeq <= Word =>
               NotSeen(d, "CreateUser", http[d].req.id)
      BY <2>1 DEF UserReadInv
    <3>4. QED BY <3>2, <3>3, <1>1, <1>b, <1>c, <1>d DEF UserToldInv, Got, NotSeen
  <2>4. QED BY <2>2, <2>3
<1>3. CASE MenuResponse(d) \/ OrderResponse(d)
  <2>1. http[d].req.op \in MenuOps \cup OrderOps
    BY <1>3 DEF MenuResponse, OrderResponse, Waiting
  <2>2. QED BY <2>1, <1>1, <1>d DEF UserToldInv, Got, UserOps, MenuOps, OrderOps
<1>4. QED BY <1>2, <1>3 DEF Response

(* ... or begins. *)
LEMMA UserHandleReads ==
  ASSUME TypeOK, HandlerInv, NEW d \in Calls, NEW r \in Requests, Handle(d, r)
  PROVE  UserReadInv(d)' /\ UserToldInv(d)'
<1>a. DOMAIN userCall = Calls
  BY DEF TypeOK, UserTypeOK
<1>b. userCall[d].st = "idle"
  BY HandleEffect DEF HandlerInv, ChannelInv
<1>c. \/ http'[d] = Answered(r, 400, {})
      \/ http'[d] = [st |-> "waiting", req |-> r]
  BY HandleEffect
<1>d. \/ userCall'[d] = userCall[d]
      \/ /\ userCall'[d].st = "sent"
         /\ userCall'[d].req.op = r.op
         /\ r.op = "GetUser" => userCall'[d].req.id = r.id
  <2>1. CASE Handlers_CreateUser(d, r)
    BY <2>1, <1>a DEF Handlers_CreateUser, Routed, BadRequest, channels, CallUser, Sent
  <2>2. CASE Handlers_GetUser(d, r)
    BY <2>2, <1>a DEF Handlers_GetUser, Routed, BadRequest, channels, CallUser, Sent
  <2>3. CASE Handlers_GetUsers(d, r)
    BY <2>3, <1>a DEF Handlers_GetUsers, Routed, CallUser, Sent
  <2>4. CASE ~(Handlers_CreateUser(d, r) \/ Handlers_GetUser(d, r) \/ Handlers_GetUsers(d, r))
    BY <2>4 DEF Handle, Handlers_CreateMenuItem, Handlers_GetMenuItem, Handlers_GetMenu,
       Handlers_CreateOrder, Handlers_GetOrder, Handlers_GetOrders, BadRequest, channels,
       CallMenu, CallOrder
  <2>5. QED BY <2>1, <2>2, <2>3, <2>4
<1>1. UserToldInv(d)'
  BY <1>c DEF UserToldInv, Got, Answered
<1>2. userCall'[d].st # "done"
  BY <1>b, <1>d
<1>3. CASE http'[d] = Answered(r, 400, {})
  BY <1>1, <1>3 DEF UserReadInv, UserPending, Answered
<1>4. CASE http'[d] = [st |-> "waiting", req |-> r]
  <2>1. http'[d].req = r
    BY <1>4
  <2>2. QED BY <1>1, <1>2, <1>b, <1>d, <2>1 DEF UserReadInv
<1>5. QED BY <1>c, <1>3, <1>4

LEMMA UserReadsStep ==
  ASSUME TruthInv, [Next]_vars, \A c \in Calls : UserToldInv(c),
         NEW d \in Calls, BeforeInv(d), UserReadInv(d)
  PROVE  UserReadInv(d)' /\ UserToldInv(d)'
<1>a. TypeOK /\ HandlerInv /\ UserToldInv(d)
  BY DEF TruthInv, LedgerInv, IndInv
<1>1. CASE UserStep
  BY <1>1, UserStepReads
<1>2. CASE MenuStep \/ UNCHANGED vars
  BY <1>2, <1>a, UserReadsStay DEF MenuStep, userState, gatewayVars, vars
<1>3. CASE OrderStep \/ CancelStep
  <2>1. UNCHANGED <<users, userSeq>> /\ http' = http /\ before' = before
    BY <1>3 DEF OrderStep, CancelStep, userState, gatewayVars
  <2>2. userCall'[d] = userCall[d] \/ ~UserPending(d)
    BY <1>3, <1>a, OrderLeavesChannels DEF UserPending, UserOps, OrderOps
  <2>3. QED BY <2>1, <2>2, <1>a, UserReadsStay
<1>4. CASE GatewayStep
  <2>1. UNCHANGED <<users, userSeq>> /\ GatewayNext
    BY <1>4 DEF GatewayStep, userState
  <2>2. CASE GatewayLeaves(d)
    BY <2>1, <2>2, <1>a, UserReadsStay DEF GatewayLeaves
  <2>3. CASE Disconnected(d)
    BY <2>1, <2>3, <1>a, UserReadsStay DEF Disconnected
  <2>4. CASE Response(d)
    BY <2>1, <2>4, <1>a, UserResponseReads
  <2>5. QED BY <2>1, <2>2, <2>3, <2>4, <1>a, GatewayEffect, UserHandleReads
<1>5. QED BY <1>1, <1>2, <1>3, <1>4 DEF Next

-----------------------------------------------------------------------------
(* The same for the menu service. *)
LEMMA MenuReplies ==
  ASSUME TypeOK, MenuNext, NEW d \in Calls
  PROVE  \/ menuCall'[d] = menuCall[d]
         \/ /\ menuCall[d].st = "sent"
            /\ \/ MenuServer_CreateMenuItem(d) \/ MenuServer_GetMenuItem(d)
               \/ MenuServer_GetMenu(d) \/ MenuRefuse(d)
         \/ menuCall[d].st = "done" /\ menuCall'[d] = Done("Unavailable", {})
<1>a. DOMAIN menuCall = Calls
  BY DEF TypeOK, MenuTypeOK
<1>1. ASSUME NEW c \in Calls, MenuServe(c), c # d PROVE menuCall'[d] = menuCall[d]
  BY <1>1, <1>a DEF MenuServe, MenuServer_CreateMenuItem, MenuServer_GetMenuItem,
     MenuServer_GetMenu, MenuRefuse, MenuReply
<1>2. MenuServe(d) => menuCall[d].st = "sent"
  BY DEF MenuServe, MenuServer_CreateMenuItem, MenuServer_GetMenuItem,
     MenuServer_GetMenu, MenuRefuse, MenuServing
<1>3. CASE MenuCrash
  <2>1. PICK lost \in SUBSET Undelivered(menuCall) : menuCall' = CutOff(menuCall, lost)
    BY <1>3 DEF MenuCrash
  <2>2. QED BY <2>1, <1>a DEF CutOff, Undelivered
<1>4. CASE MenuRestart
  BY <1>4 DEF MenuRestart
<1>5. QED BY <1>1, <1>2, <1>3, <1>4 DEF MenuNext, MenuServe

LEMMA MenuReplyShapes ==
  ASSUME TypeOK, NEW d \in Calls, menuCall[d].st = "sent",
         \/ MenuServer_CreateMenuItem(d) \/ MenuServer_GetMenuItem(d)
         \/ MenuServer_GetMenu(d) \/ MenuRefuse(d)
  PROVE  /\ menuCall'[d].st = "done"
         /\ menuCall'[d].code = "OK" => menuCall'[d].msgs \subseteq GetMenuResponse'
         /\ menuCall'[d].code = "OK" /\ menuCall[d].req.op = "GetMenu" =>
              menuCall'[d].msgs = GetMenuResponse
         /\ menuCall'[d].code = "NotFound" =>
              \A m \in menuItems : m.id # menuCall[d].req.id
<1>a. DOMAIN menuCall = Calls
  BY DEF TypeOK, MenuTypeOK
<1>b. ASSUME NEW code, NEW msgs, MenuReply(d, code, msgs)
      PROVE  /\ menuCall'[d].st = "done"
             /\ menuCall'[d].code = code /\ menuCall'[d].msgs = msgs
  BY <1>a, <1>b DEF MenuReply, Done
<1>1. CASE MenuServer_CreateMenuItem(d)
  <2> DEFINE item == [id |-> menuSeq, price |-> menuCall[d].req.price]
  <2>1. menuCall[d].req.op = "CreateMenuItem"
    BY <1>1 DEF MenuServer_CreateMenuItem, MenuServing
  <2>2. \/ menuItems' = menuItems \cup {item} /\ MenuReply(d, "OK", CreateMenuItemResponse(item))
        \/ MenuReply(d, "Internal", {})
    BY <1>1 DEF MenuServer_CreateMenuItem
  <2>3. menuItems' = menuItems \cup {item} => CreateMenuItemResponse(item) \subseteq GetMenuResponse'
    BY DEF CreateMenuItemResponse, GetMenuResponse
  <2> HIDE DEF item
  <2>4. QED BY <2>1, <2>2, <2>3, <1>b
<1>2. CASE MenuServer_GetMenuItem(d)
  <2> DEFINE found == {m \in menuItems : m.id = menuCall[d].req.id}
  <2>1. menuCall[d].req.op = "GetMenuItem" /\ UNCHANGED menuItems
    BY <1>2 DEF MenuServer_GetMenuItem, MenuServing
  <2>2. \/ found = {} /\ MenuReply(d, "NotFound", {})
        \/ MenuReply(d, "OK", GetMenuItemResponse(found)) \/ MenuReply(d, "Internal", {})
    BY <1>2 DEF MenuServer_GetMenuItem
  <2>3. GetMenuItemResponse(found) \subseteq GetMenuResponse'
    BY <2>1 DEF GetMenuItemResponse, GetMenuResponse
  <2>4. found = {} => \A m \in menuItems : m.id # menuCall[d].req.id
    OBVIOUS
  <2> HIDE DEF found
  <2>5. QED BY <2>1, <2>2, <2>3, <2>4, <1>b
<1>3. CASE MenuServer_GetMenu(d)
  <2>1. GetMenuResponse' = GetMenuResponse
    BY <1>3 DEF MenuServer_GetMenu, GetMenuResponse
  <2>2. MenuReply(d, "OK", GetMenuResponse) \/ MenuReply(d, "Internal", {})
    BY <1>3 DEF MenuServer_GetMenu
  <2>3. QED BY <2>1, <2>2, <1>b
<1>4. CASE MenuRefuse(d)
  BY <1>4, <1>b DEF MenuRefuse
<1>5. QED BY <1>1, <1>2, <1>3, <1>4

LEMMA MenuRowsStay ==
  ASSUME TypeOK, MenuNext
  PROVE  /\ GetMenuResponse \subseteq GetMenuResponse'
         /\ menuSeq' <= Word => menuSeq <= Word
<1>1. menuItems \subseteq menuItems' /\ menuSeq \in Nat /\ menuSeq' \in {menuSeq, menuSeq + 1}
  BY MenuEffect DEF TypeOK, MenuTypeOK
<1>2. Word \in Nat
  BY WordAssumption
<1>3. QED BY <1>1, <1>2 DEF GetMenuResponse

LEMMA MenuIdsFit ==
  ASSUME TypeOK, KeysInv, menuSeq <= Word, NEW msg \in GetMenuResponse
  PROVE  \E m \in menuItems : m.id = msg.id
<1>1. PICK m \in menuItems : msg = [id |-> m.id % Word, price |-> m.price]
  BY DEF GetMenuResponse, MenuItemToProto, Uint32
<1>2. m.id \in Nat /\ m.id < menuSeq /\ menuSeq \in Nat
  BY DEF KeysInv, SequencesAhead, TypeOK, MenuTypeOK, MenuRow
<1>3. m.id % Word = m.id
  BY <1>2, WordAssumption
<1>4. QED BY <1>1, <1>3

LEMMA MenuStepReads ==
  ASSUME TruthInv, MenuStep, \A c \in Calls : MenuToldInv(c),
         NEW d \in Calls, BeforeInv(d), MenuReadInv(d)
  PROVE  MenuReadInv(d)' /\ MenuToldInv(d)'
<1>a. TypeOK /\ KeysInv
  BY DEF TruthInv, LedgerInv, IndInv
<1>b. MenuNext /\ http' = http /\ before' = before
  BY DEF MenuStep, gatewayVars
<1>c. GetMenuResponse \subseteq GetMenuResponse' /\ (menuSeq' <= Word => menuSeq <= Word)
  BY <1>a, <1>b, MenuRowsStay
<1>f. Seen(d, "CreateMenuItem", GetMenuResponse)
  BY DEF Seen, MenuToldInv, BeforeInv
<1>1. MenuToldInv(d)'
  <2>1. MenuToldInv(d)
    OBVIOUS
  <2>3. (Got(d, "CreateMenuItem", {201}) => http[d].msgs \subseteq GetMenuResponse)'
    BY <2>1, <1>b, <1>c DEF MenuToldInv, Got
  <2>4. (Got(d, "GetMenu", {200}) => Seen(d, "CreateMenuItem", http[d].msgs))'
    BY <2>1, <1>b DEF MenuToldInv, Got, Seen
  <2>5. (Got(d, "GetMenuItem", {404}) /\ menuSeq <= Word =>
           NotSeen(d, "CreateMenuItem", http[d].req.id))'
    BY <2>1, <1>b, <1>c DEF MenuToldInv, Got, NotSeen
  <2>6. QED BY <2>3, <2>4, <2>5 DEF MenuToldInv
<1>2. MenuReadInv(d)'
  <2>1. MenuPending(d)' <=> MenuPending(d)
    BY <1>b DEF MenuPending
  <2>2. CASE ~MenuPending(d)
    BY <2>1, <2>2 DEF MenuReadInv
  <2>3. CASE MenuPending(d) /\ menuCall'[d] = menuCall[d]
    BY <2>1, <2>3, <1>b, <1>c DEF MenuReadInv, Seen, NotSeen, Got
  <2>4. CASE MenuPending(d) /\ menuCall'[d] = Done("Unavailable", {})
    <3>1. menuCall'[d].st = "done" /\ menuCall'[d].code = "Unavailable"
      BY <2>4 DEF Done
    <3>2. QED BY <3>1 DEF MenuReadInv
  <2>5. CASE /\ MenuPending(d)
             /\ menuCall[d].st = "sent"
             /\ \/ MenuServer_CreateMenuItem(d) \/ MenuServer_GetMenuItem(d)
                \/ MenuServer_GetMenu(d) \/ MenuRefuse(d)
    <3>1. /\ menuCall[d].req.op = http[d].req.op
          /\ http[d].req.op = "GetMenuItem" => menuCall[d].req.id = http[d].req.id
      BY <2>5 DEF MenuReadInv
    <3>2. /\ menuCall'[d].st = "done"
          /\ menuCall'[d].code = "OK" => menuCall'[d].msgs \subseteq GetMenuResponse'
          /\ menuCall'[d].code = "OK" /\ http[d].req.op = "GetMenu" =>
               menuCall'[d].msgs = GetMenuResponse
          /\ menuCall'[d].code = "NotFound" /\ http[d].req.op = "GetMenuItem" =>
               \A m \in menuItems : m.id # http[d].req.id
      BY <2>5, <3>1, <1>a, MenuReplyShapes
    <3>3. menuCall'[d].code = "OK" /\ http[d].req.op = "GetMenu" =>
            Seen(d, "CreateMenuItem", menuCall[d].msgs)'
      BY <3>2, <1>b, <1>f DEF Seen, Got
    <3>4. menuCall'[d].code = "NotFound" /\ http[d].req.op = "GetMenuItem" /\ menuSeq <= Word =>
            NotSeen(d, "CreateMenuItem", http[d].req.id)
      BY <3>2, <1>a, <1>f, MenuIdsFit DEF Seen, NotSeen
    <3>5. menuCall'[d].code = "NotFound" /\ http[d].req.op = "GetMenuItem" /\ menuSeq' <= Word =>
            NotSeen(d, "CreateMenuItem", http[d].req.id)'
      BY <3>4, <1>b, <1>c DEF NotSeen, Got
    <3>6. QED BY <3>2, <3>3, <3>5, <1>b DEF MenuReadInv
  <2>6. QED BY <2>2, <2>3, <2>4, <2>5, <1>a, <1>b, MenuReplies
<1>3. QED BY <1>1, <1>2

LEMMA MenuReadsStay ==
  ASSUME TypeOK, [Next]_vars, NEW d \in Calls, BeforeInv(d), MenuReadInv(d), MenuToldInv(d),
         UNCHANGED <<menuItems, menuSeq>>, before'[d] = before[d],
         menuCall'[d] = menuCall[d] \/ ~MenuPending(d),
         \/ http'[d] = http[d]
         \/ http[d].st = "waiting" /\ http'[d] = [st |-> "lost", req |-> http[d].req]
  PROVE  MenuReadInv(d)' /\ MenuToldInv(d)'
<1>a. GetMenuResponse' = GetMenuResponse /\ menuSeq' = menuSeq
  BY DEF GetMenuResponse
<1>b. \A e \in before[d] : http'[e] = http[e]
  BY AnsweredStays DEF BeforeInv
<1>c. MenuPending(d)' => MenuPending(d) /\ menuCall'[d] = menuCall[d]
  BY DEF MenuPending
<1>d. http'[d].st \in {"lost", "waiting"} => http'[d].req = http[d].req
  OBVIOUS
<1>1. MenuReadInv(d)'
  BY <1>a, <1>b, <1>c, <1>d DEF MenuReadInv, MenuPending, Seen, NotSeen, Got
<1>2. CASE http'[d] = http[d]
  <2>1. MenuToldInv(d)'
    BY <1>a, <1>b, <1>2 DEF MenuToldInv, Seen, NotSeen, Got
  <2>2. QED BY <1>1, <2>1
<1>3. CASE http'[d] = [st |-> "lost", req |-> http[d].req]
  <2>1. MenuToldInv(d)'
    BY <1>3 DEF MenuToldInv, Got
  <2>2. QED BY <1>1, <2>1
<1>4. QED BY <1>2, <1>3

LEMMA MenuResponseReads ==
  ASSUME TypeOK, [Next]_vars, NEW d \in Calls, BeforeInv(d), MenuReadInv(d),
         UNCHANGED <<menuItems, menuSeq>>, Response(d)
  PROVE  MenuReadInv(d)' /\ MenuToldInv(d)'
<1>a. DOMAIN http = Calls
  BY DEF TypeOK, GatewayTypeOK
<1>b. GetMenuResponse' = GetMenuResponse /\ menuSeq' = menuSeq
  BY DEF GetMenuResponse
<1>c. \A e \in before[d] : http'[e] = http[e]
  BY AnsweredStays DEF BeforeInv
<1>d. /\ http[d].st = "waiting" /\ http'[d].st = "answered"
      /\ http'[d].req = http[d].req /\ before'[d] = before[d]
  BY <1>a DEF Response, MenuResponse, UserResponse, OrderResponse, Respond, Waiting, Answered
<1>1. MenuReadInv(d)'
  BY <1>d DEF MenuReadInv, MenuPending
<1>2. CASE MenuResponse(d)
  <2>1. MenuPending(d) /\ menuCall[d].st = "done"
    BY <1>2 DEF MenuResponse, Waiting, Respond, MenuPending
  <2>2. CASE menuCall[d].code = "OK"
    <3>1. /\ http'[d].status = SuccessStatus(http[d].req.op)
          /\ http'[d].msgs = menuCall[d].msgs
      BY <1>2, <1>a, <2>2 DEF MenuResponse, Respond, Answered
    <3>2. http'[d].status \in {200, 201}
      BY <3>1 DEF SuccessStatus
    <3>3. /\ menuCall[d].msgs \subseteq GetMenuResponse
          /\ http[d].req.op = "GetMenu" => Seen(d, "CreateMenuItem", menuCall[d].msgs)
      BY <2>1, <2>2 DEF MenuReadInv
    <3>4. QED BY <3>1, <3>2, <3>3, <1>1, <1>b, <1>c, <1>d DEF MenuToldInv, Got, Seen
  <2>3. CASE menuCall[d].code # "OK"
    <3>1. http'[d].status = HandleGRPCError(menuCall[d].code)
      BY <1>2, <1>a, <2>3 DEF MenuResponse, Respond, Answered
    <3>2. /\ http'[d].status \notin {200, 201}
          /\ http'[d].status = 404 => menuCall[d].code = "NotFound"
      BY <3>1, ErrorStatus
    <3>3. /\ menuCall[d].code = "NotFound" /\ http[d].req.op = "GetMenuItem" /\ menuSeq <= Word =>
               NotSeen(d, "CreateMenuItem", http[d].req.id)
      BY <2>1 DEF MenuReadInv
    <3>4. QED BY <3>2, <3>3, <1>1, <1>b, <1>c, <1>d DEF MenuToldInv, Got, NotSeen
  <2>4. QED BY <2>2, <2>3
<1>3. CASE UserResponse(d) \/ OrderResponse(d)
  <2>1. http[d].req.op \in UserOps \cup OrderOps
    BY <1>3 DEF UserResponse, OrderResponse, Waiting
  <2>2. QED BY <2>1, <1>1, <1>d DEF MenuToldInv, Got, MenuOps, UserOps, OrderOps
<1>4. QED BY <1>2, <1>3 DEF Response

LEMMA MenuHandleReads ==
  ASSUME TypeOK, HandlerInv, NEW d \in Calls, NEW r \in Requests, Handle(d, r)
  PROVE  MenuReadInv(d)' /\ MenuToldInv(d)'
<1>a. DOMAIN menuCall = Calls
  BY DEF TypeOK, MenuTypeOK
<1>b. menuCall[d].st = "idle"
  BY HandleEffect DEF HandlerInv, ChannelInv
<1>c. \/ http'[d] = Answered(r, 400, {})
      \/ http'[d] = [st |-> "waiting", req |-> r]
  BY HandleEffect
<1>d. \/ menuCall'[d] = menuCall[d]
      \/ /\ menuCall'[d].st = "sent"
         /\ menuCall'[d].req.op = r.op
         /\ r.op = "GetMenuItem" => menuCall'[d].req.id = r.id
  <2>1. CASE Handlers_CreateMenuItem(d, r)
    BY <2>1, <1>a DEF Handlers_CreateMenuItem, Routed, BadRequest, channels, CallMenu, Sent
  <2>2. CASE Handlers_GetMenuItem(d, r)
    BY <2>2, <1>a DEF Handlers_GetMenuItem, Routed, BadRequest, channels, CallMenu, Sent
  <2>3. CASE Handlers_GetMenu(d, r)
    BY <2>3, <1>a DEF Handlers_GetMenu, Routed, CallMenu, Sent
  <2>4. CASE ~(Handlers_CreateMenuItem(d, r) \/ Handlers_GetMenuItem(d, r) \/ Handlers_GetMenu(d, r))
    BY <2>4 DEF Handle, Handlers_CreateUser, Handlers_GetUser, Handlers_GetUsers,
       Handlers_CreateOrder, Handlers_GetOrder, Handlers_GetOrders, BadRequest, channels,
       CallUser, CallOrder
  <2>5. QED BY <2>1, <2>2, <2>3, <2>4
<1>1. MenuToldInv(d)'
  BY <1>c DEF MenuToldInv, Got, Answered
<1>2. menuCall'[d].st # "done"
  BY <1>b, <1>d
<1>3. CASE http'[d] = Answered(r, 400, {})
  BY <1>1, <1>3 DEF MenuReadInv, MenuPending, Answered
<1>4. CASE http'[d] = [st |-> "waiting", req |-> r]
  <2>1. http'[d].req = r
    BY <1>4
  <2>2. QED BY <1>1, <1>2, <1>b, <1>d, <2>1 DEF MenuReadInv
<1>5. QED BY <1>c, <1>3, <1>4

LEMMA MenuReadsStep ==
  ASSUME TruthInv, [Next]_vars, \A c \in Calls : MenuToldInv(c),
         NEW d \in Calls, BeforeInv(d), MenuReadInv(d)
  PROVE  MenuReadInv(d)' /\ MenuToldInv(d)'
<1>a. TypeOK /\ HandlerInv /\ MenuToldInv(d)
  BY DEF TruthInv, LedgerInv, IndInv
<1>1. CASE MenuStep
  BY <1>1, MenuStepReads
<1>2. CASE UserStep \/ UNCHANGED vars
  BY <1>2, <1>a, MenuReadsStay DEF UserStep, menuState, gatewayVars, vars
<1>3. CASE OrderStep \/ CancelStep
  <2>1. UNCHANGED <<menuItems, menuSeq>> /\ http' = http /\ before' = before
    BY <1>3 DEF OrderStep, CancelStep, menuState, gatewayVars
  <2>2. menuCall'[d] = menuCall[d] \/ ~MenuPending(d)
    BY <1>3, <1>a, OrderLeavesChannels DEF MenuPending, MenuOps, OrderOps
  <2>3. QED BY <2>1, <2>2, <1>a, MenuReadsStay
<1>4. CASE GatewayStep
  <2>1. UNCHANGED <<menuItems, menuSeq>> /\ GatewayNext
    BY <1>4 DEF GatewayStep, menuState
  <2>2. CASE GatewayLeaves(d)
    BY <2>1, <2>2, <1>a, MenuReadsStay DEF GatewayLeaves
  <2>3. CASE Disconnected(d)
    BY <2>1, <2>3, <1>a, MenuReadsStay DEF Disconnected
  <2>4. CASE Response(d)
    BY <2>1, <2>4, <1>a, MenuResponseReads
  <2>5. QED BY <2>1, <2>2, <2>3, <2>4, <1>a, GatewayEffect, MenuHandleReads
<1>5. QED BY <1>1, <1>2, <1>3, <1>4 DEF Next

-----------------------------------------------------------------------------
(***************************************************************************)
(* The same for the list of orders, whose two SELECTs are separate steps:  *)
(* what the first one found already shows all that was acknowledged.       *)
(***************************************************************************)
SeenIn(c, rows) ==
  \A d \in before[c] : Got(d, "CreateOrder", {201}) =>
    \A msg \in http[d].msgs : \E o \in rows : msg = OrderToProto(o, ItemsOf(o.id))

OrderReadInv(c) ==
  /\ handler[c].pc = "preload" /\ http[c].req.op = "GetOrders" => SeenIn(c, handler[c].rows)
  /\ orderCall[c].st = "done" /\ orderCall[c].code = "OK" /\ http[c].req.op = "GetOrders" =>
       Seen(c, "CreateOrder", orderCall[c].msgs)
  /\ Got(c, "GetOrders", {200}) => Seen(c, "CreateOrder", http[c].msgs)

LEMMA OrderReadsStep ==
  ASSUME TruthInv, [Next]_vars, NEW d \in Calls, BeforeInv(d), OrderReadInv(d)
  PROVE  OrderReadInv(d)'
<1>a. TypeOK /\ HandlerInv /\ LedgerInv /\ AnswerInv(d)
  BY DEF TruthInv, LedgerInv, IndInv
<1>b. /\ DOMAIN http = Calls /\ DOMAIN orderCall = Calls /\ DOMAIN handler = Calls
      /\ handler[d] \in Locals
  BY <1>a DEF TypeOK, GatewayTypeOK, OrderTypeOK
<1>c. \A e \in before[d] : http'[e] = http[e]
  BY <1>a, AnsweredStays DEF BeforeInv
<1>d. ChannelInv(d) /\ RunningInv(d) /\ SentInv(d) /\ RowsInv(d)
  BY <1>a DEF HandlerInv, AnswerInv
<1>e. orders \subseteq orders' /\ \A o \in orders : ItemsOf(o.id)' = ItemsOf(o.id)
  BY <1>a, OrdersStay
<1>f. SeenIn(d, orders)
  BY DEF SeenIn, BeforeInv, TruthInv, AnswerInv, ToldInv, Stored
<1>1. ASSUME NEW r \in Requests, Handle(d, r) PROVE OrderReadInv(d)'
  <2>1. orderCall[d].st = "idle" /\ handler[d].pc = "idle"
    BY <1>1, <1>a, <1>d, HandleEffect DEF ChannelInv, RunningInv
  <2>2. orderCall'[d].st # "done"
    BY <1>1, <1>a, <2>1, HandleOrderCall
  <2>3. handler'[d].pc = "idle"
    <3>1. ~Untouched(d) \/ handler'[d] = handler[d]
      BY DEF Untouched
    <3>2. ~Served(d)
      <4>1. OrderServe(d) \/ ContextCanceled(d) => orderCall[d].st = "sent"
        BY DEF OrderServe, OrderServer_CreateOrder, UserChecked, MenuItemChecked,
           InsertOrder, InsertItems, Commit, Rollback, OrderServer_GetOrder,
           OrderServer_GetOrders, Preload, OrderRefuse, ContextCanceled, At, OrderServing
      <4>2. QED BY <4>1, <2>1 DEF Served
    <3>3. QED BY <2>1, <3>1, <3>2, <1>a, StepCases DEF CutOffAt, Routing, NoLocals
  <2>4. ~Got(d, "GetOrders", {200})'
    <3>1. http'[d] = Answered(r, 400, {}) \/ http'[d] = [st |-> "waiting", req |-> r]
      BY <1>1, <1>a, HandleEffect
    <3>2. http'[d].st # "answered" \/ http'[d].status = 400
      BY <3>1 DEF Answered
    <3>3. QED BY <3>2 DEF Got
  <2>5. QED BY <2>2, <2>3, <2>4 DEF OrderReadInv
<1> SUFFICES ASSUME before'[d] = before[d] PROVE OrderReadInv(d)'
  BY <1>1, <1>a, BeforeStays
<1>g. \A rows \in SUBSET orders : SeenIn(d, rows) => SeenIn(d, rows)'
  BY <1>c, <1>e DEF SeenIn, Got
<1>2. CASE http'[d] = http[d] /\ orderCall'[d] = orderCall[d] /\ handler'[d] = handler[d]
  <2>1. (handler[d].pc = "preload" /\ http[d].req.op = "GetOrders" => SeenIn(d, handler[d].rows))'
    BY <1>2, <1>c, <1>d, <1>e DEF OrderReadInv, RowsInv, SeenIn, Got
  <2>2. QED BY <1>2, <2>1, <1>c DEF OrderReadInv, Seen, Got
<1>3. CASE CutOffAt(d)
  <2>1. http'[d] = http[d] /\ handler'[d].pc = "idle"
    BY <1>3 DEF CutOffAt, NoLocals
  <2>2. orderCall'[d] = orderCall[d] \/ orderCall'[d].code = "Unavailable"
    BY <1>3 DEF CutOffAt, Done
  <2>3. QED BY <2>1, <2>2, <1>c DEF OrderReadInv, Seen, Got
<1>4. CASE Disconnected(d) /\ handler'[d] = handler[d]
  <2>1. http'[d].req = http[d].req /\ orderCall'[d] = orderCall[d] /\ http'[d].st = "lost"
    BY <1>4 DEF Disconnected
  <2>2. (handler[d].pc = "preload" /\ http[d].req.op = "GetOrders" => SeenIn(d, handler[d].rows))'
    BY <1>4, <2>1, <1>c, <1>d, <1>e DEF OrderReadInv, RowsInv, SeenIn, Got
  <2>3. QED BY <2>1, <2>2, <1>c DEF OrderReadInv, Seen, Got
<1>5. CASE Response(d) /\ handler'[d] = handler[d]
  <2>1. handler'[d].pc = "idle"
    BY <1>5, <1>d DEF Response, UserResponse, MenuResponse, OrderResponse, Respond, Waiting,
       RunningInv, ChannelInv, UserOps, MenuOps, OrderOps
  <2>2. CASE OrderResponse(d)
    <3>1. orderCall'[d].st = "idle" /\ orderCall[d].st = "done" /\ http'[d].req = http[d].req
      BY <2>2, <1>b DEF OrderResponse, Respond, Idle, Answered
    <3>2. CASE orderCall[d].code = "OK"
      <4>1. http'[d].msgs = orderCall[d].msgs
        BY <2>2, <1>b, <3>2 DEF OrderResponse, Respond, Answered
      <4>2. QED BY <2>1, <3>1, <3>2, <4>1, <1>c DEF OrderReadInv, Seen, Got
    <3>3. CASE orderCall[d].code # "OK"
      <4>1. http'[d].status = HandleGRPCError(orderCall[d].code)
        BY <2>2, <1>b, <3>3 DEF OrderResponse, Respond, Answered
      <4>2. QED BY <2>1, <3>1, <4>1, ErrorStatus DEF OrderReadInv, Got
    <3>4. QED BY <3>2, <3>3
  <2>3. CASE UserResponse(d) \/ MenuResponse(d)
    <3>1. http'[d].req = http[d].req /\ http[d].req.op # "GetOrders"
      BY <2>3, <1>b DEF UserResponse, MenuResponse, Waiting, Respond, Answered,
         UserOps, MenuOps
    <3>2. QED BY <2>1, <3>1 DEF OrderReadInv, Got
  <2>4. QED BY <1>5, <2>2, <2>3 DEF Response
<1>6. CASE Served(d)
  <2>1. http'[d] = http[d] /\ (OrderServe(d) \/ ContextCanceled(d))
    BY <1>6 DEF Served
  <2>2. orderCall[d].st = "sent"
    BY <2>1 DEF OrderServe, OrderServer_CreateOrder, UserChecked, MenuItemChecked,
       InsertOrder, InsertItems, Commit, Rollback, OrderServer_GetOrder,
       OrderServer_GetOrders, Preload, OrderRefuse, ContextCanceled, At, OrderServing
  <2>3. ~Got(d, "GetOrders", {200})'
    BY <2>1, <2>2, <1>a, HeldCall DEF Got
  <2>4. CASE http[d].req.op # "GetOrders"
    BY <2>1, <2>3, <2>4 DEF OrderReadInv
  <2>5. ASSUME http[d].req.op = "GetOrders"
        PROVE  OrderServer_GetOrders(d) \/ Preload(d) \/ OrderRefuse(d)
    <3>1. orderCall[d].req.op = "GetOrders"
      BY <2>2, <2>5, <1>d DEF SentInv
    <3>2. QED BY <2>1, <3>1 DEF OrderServe, OrderServer_CreateOrder, UserChecked, MenuItemChecked,
         InsertOrder, InsertItems, Commit, Rollback, OrderServer_GetOrder,
         ContextCanceled, At, OrderServing
  <2>6. ASSUME NEW code, NEW msgs, OrderReturn(d, code, msgs)
        PROVE  /\ handler'[d].pc = "idle" /\ orderCall'[d].code = code
               /\ orderCall'[d].msgs = msgs
    BY <2>6, <1>b DEF OrderReturn, Done, NoLocals
  <2>7. ASSUME NEW code, code # "OK", OrderReturn(d, code, {}) PROVE OrderReadInv(d)'
    BY <2>3, <2>6, <2>7 DEF OrderReadInv
  <2>8. CASE OrderServer_GetOrders(d)
    <3>1. Found(d, orders) \/ OrderReturn(d, "Internal", {})
      BY <2>8 DEF OrderServer_GetOrders
    <3>2. CASE Found(d, orders)
      <4>1. handler'[d].rows = orders /\ UNCHANGED orderCall
        BY <3>2, <1>b DEF Found, Locals
      <4>2. SeenIn(d, handler[d].rows)'
        BY <4>1, <1>c, <1>e, <1>f DEF SeenIn, Got
      <4>3. QED BY <4>1, <4>2, <2>2, <2>3 DEF OrderReadInv
    <3>3. QED BY <3>1, <3>2, <2>7
  <2>9. CASE Preload(d) /\ http[d].req.op = "GetOrders"
    <3>1. handler[d].pc = "preload"
      BY <2>9 DEF Preload, At
    <3>2. \/ OrderReturn(d, "OK", GetOrdersResponse(handler[d].rows))
          \/ OrderReturn(d, PreloadError(d), {}) /\ PreloadError(d) # "OK"
      BY <2>9 DEF Preload, PreloadError
    <3>3. Seen(d, "CreateOrder", GetOrdersResponse(handler[d].rows))
      BY <2>9, <3>1 DEF OrderReadInv, SeenIn, Seen, GetOrdersResponse
    <3>4. CASE OrderReturn(d, "OK", GetOrdersResponse(handler[d].rows))
      <4>1. handler'[d].pc = "idle" /\ orderCall'[d].msgs = GetOrdersResponse(handler[d].rows)
        BY <3>4, <2>6
      <4>2. Seen(d, "CreateOrder", orderCall[d].msgs)'
        BY <4>1, <3>3, <1>c DEF Seen, Got
      <4>3. QED BY <4>1, <4>2, <2>3 DEF OrderReadInv
    <3>5. QED BY <3>2, <3>4, <2>7
  <2>10. CASE OrderRefuse(d)
    BY <2>10, <2>7 DEF OrderRefuse
  <2>11. QED BY <2>4, <2>5, <2>8, <2>9, <2>10
<1>7. CASE Routing(d)
  BY <1>7, <1>1, <1>4, <1>5 DEF Routing
<1>8. QED BY <1>a, <1>2, <1>3, <1>6, <1>7, StepCases DEF Untouched

-----------------------------------------------------------------------------
(* The inductive invariant behind the reads. *)
ReadInv == /\ TruthInv
           /\ \A c \in Calls : /\ BeforeInv(c)
                               /\ UserReadInv(c) /\ UserToldInv(c)
                               /\ MenuReadInv(c) /\ MenuToldInv(c)
                               /\ OrderReadInv(c)

LEMMA ReadInvInit == Init => ReadInv
<1> SUFFICES ASSUME Init PROVE ReadInv
  OBVIOUS
<1>1. ASSUME NEW c \in Calls
      PROVE  /\ http[c].st = "new" /\ before[c] = {}
             /\ orderCall[c].st = "idle" /\ handler[c].pc = "idle"
  BY DEF Init, OrderInit, GatewayInit, Idle, NoLocals
<1>2. ASSUME NEW c \in Calls PROVE BeforeInv(c) /\ OrderReadInv(c)
  BY <1>1 DEF BeforeInv, OrderReadInv, Got
<1>3. ASSUME NEW c \in Calls PROVE UserReadInv(c) /\ UserToldInv(c)
  BY <1>1 DEF UserReadInv, UserToldInv, UserPending, Got
<1>4. ASSUME NEW c \in Calls PROVE MenuReadInv(c) /\ MenuToldInv(c)
  BY <1>1 DEF MenuReadInv, MenuToldInv, MenuPending, Got
<1>5. QED BY <1>2, <1>3, <1>4, TruthInvInit DEF ReadInv

LEMMA ReadInvStep == ReadInv /\ [Next]_vars => ReadInv'
<1> SUFFICES ASSUME ReadInv, [Next]_vars PROVE ReadInv'
  OBVIOUS
<1>a. /\ TruthInv /\ TypeOK
      /\ \A c \in Calls : UserToldInv(c) /\ MenuToldInv(c)
  BY DEF ReadInv, TruthInv, LedgerInv, IndInv
<1>1. TruthInv'
  BY <1>a, TruthInvStep
<1>2. ASSUME NEW d \in Calls PROVE BeforeInv(d)' /\ OrderReadInv(d)'
  BY <1>a, BeforeStep, OrderReadsStep DEF ReadInv
<1>3. ASSUME NEW d \in Calls PROVE UserReadInv(d)' /\ UserToldInv(d)'
  BY <1>a, UserReadsStep DEF ReadInv
<1>4. ASSUME NEW d \in Calls PROVE MenuReadInv(d)' /\ MenuToldInv(d)'
  BY <1>a, MenuReadsStep DEF ReadInv
<1>5. QED BY <1>1, <1>2, <1>3, <1>4 DEF ReadInv

(***************************************************************************)
(* Read your writes: whatever the gateway acknowledged with 201 before it  *)
(* received a list request is in the list it answers, although services    *)
(* crash and restart, answers are lost, and GetOrders reads in two steps.  *)
(***************************************************************************)
THEOREM WritesAreRead == Spec => []ReadYourWrites
<1>1. ReadInv => ReadYourWrites
  <2> SUFFICES ASSUME ReadInv, NEW c \in Calls, NEW d \in before[c],
                      NEW op \in DOMAIN Listing,
                      Got(d, op, {201}), Got(c, Listing[op], {200})
               PROVE  http[d].msgs \subseteq http[c].msgs
    BY DEF ReadYourWrites
  <2>1. op \in {"CreateUser", "CreateMenuItem", "CreateOrder"}
    BY DEF Listing
  <2>2. CASE op = "CreateUser"
    BY <2>2 DEF ReadInv, UserToldInv, Seen, Listing
  <2>3. CASE op = "CreateMenuItem"
    BY <2>3 DEF ReadInv, MenuToldInv, Seen, Listing
  <2>4. CASE op = "CreateOrder"
    BY <2>4 DEF ReadInv, OrderReadInv, Seen, Listing
  <2>5. QED BY <2>1, <2>2, <2>3, <2>4
<1>2. QED BY <1>1, ReadInvInit, ReadInvStep, PTL DEF Spec

(* No id has outgrown the uint32 of the messages yet. *)
IdsFit == userSeq <= Word /\ menuSeq <= Word

(***************************************************************************)
(* GetUser and GetMenuItem answer 404 only for what was not acknowledged   *)
(* before, whatever fails, until the ids of the database no longer fit the *)
(* uint32 that UserToProto and MenuItemToProto convert them to.            *)
(***************************************************************************)
THEOREM NotFoundIsReliable == Spec => [](IdsFit => NotFoundIsTrue)
<1>1. ReadInv => (IdsFit => NotFoundIsTrue)
  BY DEF ReadInv, IdsFit, UserToldInv, MenuToldInv, NotSeen, NotFoundIsTrue
<1>2. QED BY <1>1, ReadInvInit, ReadInvStep, PTL DEF Spec
=============================================================================
