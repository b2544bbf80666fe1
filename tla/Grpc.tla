-------------------------------- MODULE Grpc --------------------------------
(***************************************************************************)
(* What the four processes of the cafe share: gRPC status codes, the shape *)
(* of one unary call, and the fixed-width integers of the protobuf         *)
(* messages.  google.golang.org/grpc is a library outside the repository;  *)
(* it is modelled from the way the handlers use it: a unary call without   *)
(* deadline, retry policy or WaitForReady, so a call to a process that is  *)
(* down, or that dies while serving it, ends with codes.Unavailable.       *)
(***************************************************************************)
EXTENDS Integers

CONSTANTS Word,    \* number of values of uint32: 2^32, scaled down for TLC
          Calls,   \* the clients' HTTP calls; one goroutine serves each
          Faults   \* what may fail: a database, or one of the processes

ASSUME FaultsAssumption == Faults \subseteq {"db", "user", "menu", "order", "gateway"}

(* int32 has as many negative as non-negative values. *)
ASSUME WordAssumption == /\ Word \in Nat \ {0}
                         /\ 2 * (Word \div 2) = Word

(* The codes that the services return or that the gateway tells apart. *)
Codes == { "OK", "NotFound", "InvalidArgument", "AlreadyExists",
           "PermissionDenied", "Unauthenticated", "FailedPrecondition",
           "Unimplemented", "Unavailable", "Internal" }

(***************************************************************************)
(* Go's conversions uint32(x), from the database's wider integers, and     *)
(* int32(x), from an unsigned quantity.                                    *)
(***************************************************************************)
Uint32(x) == x % Word

Int32(x) == IF Uint32(x) < Word \div 2 THEN Uint32(x) ELSE Uint32(x) - Word

Uint32s == 0 .. (Word - 1)

Int32s == (-(Word \div 2)) .. ((Word \div 2) - 1)

(***************************************************************************)
(* One unary call: nothing outstanding; a request its server has not       *)
(* answered; an answer its client has not taken.  The messages of an       *)
(* answer are a set: one message for Create and Get, any number for a      *)
(* list, none with an error.                                               *)
(***************************************************************************)
Idle == [st |-> "idle"]

Sent(req) == [st |-> "sent", req |-> req]

Done(code, msgs) == [st |-> "done", code |-> code, msgs |-> msgs]

CallStates(Req, Msg) == [st : {"idle"}]
                          \cup [st : {"sent"}, req : Req]
                          \cup [st : {"done"}, code : Codes, msgs : SUBSET Msg]

(* The calls of a process that died: the answers in `lost' never arrive. *)
CutOff(calls, lost) ==
  [c \in DOMAIN calls |-> IF c \in lost THEN Done("Unavailable", {}) ELSE calls[c]]

(* The calls whose answer is still on its way to the client. *)
Undelivered(calls) == {c \in DOMAIN calls : calls[c].st = "done"}
=============================================================================
