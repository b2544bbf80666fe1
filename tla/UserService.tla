---------------------------- MODULE UserService ----------------------------
(***************************************************************************)
(* practical6-example/user-service: the gRPC server and its own database,  *)
(* whose table `users' has a unique email.  GORM runs each handler's       *)
(* single statement in a transaction of its own, so a handler is one       *)
(* step.  Names, the owner flag and timestamps are left out: no handler    *)
(* looks at them.                                                          *)
(***************************************************************************)
EXTENDS Grpc, Sequences

CONSTANTS Emails,
          UserSeed    \* emails of the users already stored, in id order

ASSUME UserAssumption == /\ UserSeed \in Seq(Emails)
                         /\ \A i, j \in DOMAIN UserSeed :
                              UserSeed[i] = UserSeed[j] => i = j

VARIABLES users,      \* the table
          userSeq,    \* the next value of the sequence behind users.id
          userUp,     \* whether the process runs
          userCall    \* the call that each goroutine has made here, if any

userVars == <<users, userSeq, userUp, userCall>>

UserRow == [id : Nat, email : Emails]

(* The messages of user.v1; `op' is the method a request is sent to. *)
CreateUserRequest == [op : {"CreateUser"}, email : Emails]
GetUserRequest == [op : {"GetUser"}, id : Uint32s]
GetUsersRequest == [op : {"GetUsers"}]

UserReq == CreateUserRequest \cup GetUserRequest \cup GetUsersRequest

UserMsg == [id : Uint32s, email : Emails]

UserTypeOK == /\ users \subseteq UserRow
              /\ userSeq \in Nat \ {0}
              /\ userUp \in BOOLEAN
              /\ userCall \in [Calls -> CallStates(UserReq, UserMsg)]

UserInit == /\ users = {[id |-> i, email |-> UserSeed[i]] : i \in DOMAIN UserSeed}
            /\ userSeq = Len(UserSeed) + 1
            /\ userUp = TRUE
            /\ userCall = [c \in Calls |-> Idle]

UserToProto(row) == [id |-> Uint32(row.id), email |-> row.email]

(* The messages in the responses. *)
CreateUserResponse(row) == {UserToProto(row)}
GetUserResponse(found) == {UserToProto(row) : row \in found}
GetUsersResponse == {UserToProto(row) : row \in users}

UserServing(c, op) == /\ userUp
                      /\ userCall[c].st = "sent"
                      /\ userCall[c].req.op = op

UserReply(c, code, msgs) == userCall' = [userCall EXCEPT ![c] = Done(code, msgs)]

-----------------------------------------------------------------------------
(***************************************************************************)
(* A stored row is reported unless the connection breaks at COMMIT; a      *)
(* rejected insert stores nothing, but may have drawn an id.  Every error  *)
(* of Create, the unique violation included, is reported as Internal.      *)
(***************************************************************************)
InsertUser(user) == /\ users' = users \cup {user}
                    /\ userSeq' = userSeq + 1

(* Mutant: the column without its unique index. *)
EmailTaken_NoIndex(email) == FALSE

EmailTaken(email) == \E u \in users : u.email = email

UserServer_CreateUser(c) ==
  /\ UserServing(c, "CreateUser")
  /\ LET user == [id |-> userSeq, email |-> userCall[c].req.email]
     IN  \/ /\ ~EmailTaken(user.email)
            /\ InsertUser(user)
            /\ \/ UserReply(c, "OK", CreateUserResponse(user))
               \/ "db" \in Faults /\ UserReply(c, "Internal", {})
         \/ /\ EmailTaken(user.email)
            /\ userSeq' = userSeq + 1
            /\ UserReply(c, "Internal", {})
            /\ UNCHANGED users
         \/ /\ "db" \in Faults
            /\ userSeq' \in {userSeq, userSeq + 1}
            /\ UserReply(c, "Internal", {})
            /\ UNCHANGED users
  /\ UNCHANGED userUp

(* Mutant: every error of First taken for ErrRecordNotFound. *)
GetUser_AnyErrorNotFound(c) ==
  /\ UserServing(c, "GetUser")
  /\ LET found == {u \in users : u.id = userCall[c].req.id}
     IN  \/ found = {} /\ UserReply(c, "NotFound", {})
         \/ found # {} /\ UserReply(c, "OK", GetUserResponse(found))
         \/ "db" \in Faults /\ UserReply(c, "NotFound", {})
  /\ UNCHANGED <<users, userSeq, userUp>>

(* Only ErrRecordNotFound becomes NotFound; any other error is Internal. *)
UserServer_GetUser(c) ==
  /\ UserServing(c, "GetUser")
  /\ LET found == {u \in users : u.id = userCall[c].req.id}
     IN  \/ found = {} /\ UserReply(c, "NotFound", {})
         \/ found # {} /\ UserReply(c, "OK", GetUserResponse(found))
         \/ "db" \in Faults /\ UserReply(c, "Internal", {})
  /\ UNCHANGED <<users, userSeq, userUp>>

UserServer_GetUsers(c) ==
  /\ UserServing(c, "GetUsers")
  /\ \/ UserReply(c, "OK", GetUsersResponse)
     \/ "db" \in Faults /\ UserReply(c, "Internal", {})
  /\ UNCHANGED <<users, userSeq, userUp>>

-----------------------------------------------------------------------------
(* Mutant: a client with WaitForReady(true). *)
UserRefuse_WaitForReady(c) == FALSE

(* gRPC fails a call fast while the server cannot be reached. *)
UserRefuse(c) == /\ ~userUp
                 /\ userCall[c].st = "sent"
                 /\ UserReply(c, "Unavailable", {})
                 /\ UNCHANGED <<users, userSeq, userUp>>

UserCrash == /\ "user" \in Faults
             /\ userUp
             /\ userUp' = FALSE
             /\ \E lost \in SUBSET Undelivered(userCall) :
                  userCall' = CutOff(userCall, lost)
             /\ UNCHANGED <<users, userSeq>>

(* Mutant: a start that drops and recreates the tables. *)
UserRestart_DropTables == /\ ~userUp
                          /\ userUp' = TRUE
                          /\ users' = {}
                          /\ UNCHANGED <<userSeq, userCall>>

(* main: Connect, migrate (which keeps the rows), listen. *)
UserRestart == /\ ~userUp
               /\ userUp' = TRUE
               /\ UNCHANGED <<users, userSeq, userCall>>

UserServe(c) == \/ UserServer_CreateUser(c)
                \/ UserServer_GetUser(c)
                \/ UserServer_GetUsers(c)
                \/ UserRefuse(c)

UserNext == (\E c \in Calls : UserServe(c)) \/ UserCrash \/ UserRestart
=============================================================================
