---------------------------- MODULE CafeUIProofs ----------------------------
(***************************************************************************)
(* The page's cart, for any number of picks and POSTs and any failures:    *)
(* CafeTypeOK, CartInv and CartKept are invariants of CafeUI.              *)
(***************************************************************************)
EXTENDS CafeUI, SequenceTheorems, TLAPS

USE ServicesAssumption, PicksAssumption DEF Catalog, Orders

(* A pick is in the cart after Append exactly if it was, or is the new one. *)
LEMMA ToSetAppend ==
  ASSUME NEW S, NEW s \in Seq(S), NEW x \in S
  PROVE  ToSet(Append(s, x)) = ToSet(s) \cup {x}
  BY DEF ToSet

(* What a handler may make of a POST that is not answered. *)
LEMMA OpenPost ==
  ASSUME NEW x \in PostStates, x.st \in {"sent"} \cup Running
  PROVE  /\ \A a \in Answers : AnswerWith(x, a) \in PostStates
         /\ \A s \in Running : [x EXCEPT !.st = s] \in PostStates
         /\ \A s \in Running : /\ [x EXCEPT !.st = s].st = s
                               /\ [x EXCEPT !.st = s].items = x.items
<1>1. x \in [st : {"sent"} \cup Running, items : Seq(Picks) \cup {Malformed}]
  BY DEF PostStates, Running
<1>2. QED
  BY <1>1 DEF PostStates, AnswerWith

-----------------------------------------------------------------------------
(* Consul, the pods and the handlers keep the types of what they change. *)
LEMMA ServiceStepType ==
  ASSUME CafeTypeOK, ServiceStep \/ ConsulStep
  PROVE  CafeTypeOK'
<1> USE DEF CafeTypeOK
<1>p. PageTypeOK'
  BY DEF PageTypeOK, ServiceStep, ConsulStep, pageVars
<1>r. ASSUME NEW r \in Posts, Handle(r) PROVE ConsulTypeOK' /\ ServicesTypeOK'
  <2>c. ConsulTypeOK'
    BY <1>r DEF Handle, ConsulTypeOK, consulVars
  <2>t. /\ post \in [Posts -> PostStates]
        /\ post[r] \in PostStates
    BY DEF ServicesTypeOK
  <2>1. CASE findService(r)
    <3>1. /\ post[r].st \in {"sent"} \cup Running
          /\ "400" \in Answers /\ "500" \in Answers /\ "found" \in Running
      BY <2>1 DEF findService, Answers, Running
    <3>2. post' \in [Posts -> PostStates]
      BY <2>1, <2>t, <3>1, OpenPost DEF findService, Reply, Move
    <3>3. QED
      BY <2>1, <2>c, <3>2 DEF findService, ServicesTypeOK
  <2>2. CASE StoreBegins(r)
    <3>1. \A q \in Posts : q \in Writing \cup {r} => post[q].st \in {"sent"} \cup Running
      BY <2>2 DEF StoreBegins, Writing, Running
    <3>2. \A q \in Posts : q \in Writing \cup {r} =>
            /\ [post[q] EXCEPT !.st = "storing"] \in PostStates
            /\ [post[q] EXCEPT !.st = "racing"] \in PostStates
      BY <2>t, <3>1, OpenPost DEF Running
    <3>3. post' \in [Posts -> PostStates]
      BY <2>2, <2>t, <3>2 DEF StoreBegins
    <3>4. QED
      BY <2>2, <2>c, <3>3 DEF StoreBegins, ServicesTypeOK
  <2>3. CASE StoreEnds(r)
    <3>1. /\ post[r].st \in {"sent"} \cup Running
          /\ "201" \in Answers
      BY <2>3 DEF StoreEnds, Writing, Answers, Running
    <3>2. post' \in [Posts -> PostStates]
      BY <2>3, <2>t, <3>1, OpenPost DEF StoreEnds, Reply
    <3>3. QED
      BY <2>3, <2>c, <3>2 DEF StoreEnds, ServicesTypeOK
  <2>4. CASE KongRefuses(r)
    <3>1. /\ post[r].st \in {"sent"} \cup Running
          /\ {"kong json", "kong text"} \subseteq Answers
      BY <2>4 DEF KongRefuses, Answers, Running
    <3>2. PICK a \in {"kong json", "kong text"} : Reply(r, a)
      BY <2>4 DEF KongRefuses
    <3>3. post' \in [Posts -> PostStates]
      BY <2>t, <3>1, <3>2, OpenPost DEF Reply
    <3>4. QED
      BY <2>4, <2>c, <3>3 DEF KongRefuses, ServicesTypeOK
  <2>5. QED
    BY <1>r, <2>1, <2>2, <2>3, <2>4 DEF Handle
<1>s. ASSUME NEW p \in Instances, Stop(p) PROVE ConsulTypeOK' /\ ServicesTypeOK'
  <2>c. ConsulTypeOK'
    BY <1>s DEF Stop, ConsulTypeOK, consulVars
  <2>1. CASE p = Catalog
    BY <1>s, <2>1, <2>c DEF Stop, ServicesTypeOK
  <2>2. CASE p = Orders
    <3>1. PICK a \in {"kong json", "kong text"} :
            post' = [r \in Posts |-> IF post[r].st \in Running
                                       THEN AnswerWith(post[r], a) ELSE post[r]]
      BY <1>s, <2>2 DEF Stop
    <3>2. post \in [Posts -> PostStates] /\ a \in Answers
      BY DEF ServicesTypeOK, Answers
    <3>3. post' \in [Posts -> PostStates]
      BY <3>1, <3>2, OpenPost
    <3>4. QED
      BY <1>s, <2>2, <2>c, <3>3 DEF Stop, ServicesTypeOK
  <2>3. QED
    BY <2>1, <2>2
<1>i. ASSUME NEW p \in Instances,
             registerServiceWithConsul(p) \/ health(p) \/ Restart(p)
      PROVE  ConsulTypeOK' /\ ServicesTypeOK'
  BY <1>i DEF registerServiceWithConsul, health, Restart, ServiceRegister, HealthCheck,
              ConsulTypeOK, ServicesTypeOK, consulVars, serviceVars
<1>k. ASSUME ConsulStep PROVE ConsulTypeOK' /\ ServicesTypeOK'
  BY <1>k DEF ConsulStep, ConsulFails, ConsulReturns, ConsulStops, ConsulStarts,
              ConsulTypeOK, ServicesTypeOK, serviceVars
<1>q. QED
  BY <1>p, <1>r, <1>s, <1>i, <1>k DEF ServiceStep, Crash, FatalMapWrites

(* So does the page. *)
LEMMA PageStepType ==
  ASSUME CafeTypeOK, PageStep
  PROVE  CafeTypeOK'
<1> USE DEF CafeTypeOK
<1>c. ConsulTypeOK'
  BY DEF PageStep, ConsulTypeOK, consulVars
<1>0. UNCHANGED <<podUp, registering, orders>>
  BY DEF PageStep
<1>t. post \in [Posts -> PostStates] /\ cart \in Seq(Picks)
  BY DEF ServicesTypeOK, PageTypeOK
<1>e. <<>> \in Seq(Picks)
  BY EmptySeq
<1>m. ASSUME NEW text \in {"", "empty", "failed", "placed"},
             NEW id \in Posts \cup {Undefined},
             Say(text, id)
      PROVE  message' \in Messages
  BY <1>m DEF Say, Messages
<1>1. CASE setItems
  <2>1. PageTypeOK'
    BY <1>1 DEF setItems, PageTypeOK
  <2>2. QED
    BY <1>1, <1>0, <1>c, <2>1 DEF setItems, ServicesTypeOK
<1>2. CASE addToCart
  <2>1. added' \in 0 .. MaxPicks /\ added' \in Picks /\ added < added'
    BY <1>2 DEF addToCart, PageTypeOK
  <2>2. cart' \in Seq(Picks)
    BY <1>2, <1>t, <2>1 DEF addToCart
  <2>3. picked' \subseteq 1 .. added' /\ during' \subseteq Picks \X Posts
    BY <1>2, <2>1 DEF addToCart, PageTypeOK
  <2>4. PageTypeOK'
    BY <1>2, <2>1, <2>2, <2>3 DEF addToCart, PageTypeOK
  <2>5. QED
    BY <1>2, <1>0, <1>c, <2>4 DEF addToCart, ServicesTypeOK
<1>3. CASE Reload
  <2>1. message' \in Messages
    BY <1>3, <1>m DEF Reload
  <2>2. PageTypeOK'
    BY <1>3, <1>e, <2>1 DEF Reload, PageTypeOK
  <2>3. QED
    BY <1>3, <1>0, <1>c, <2>2 DEF Reload, ServicesTypeOK
<1>s. ASSUME NEW r \in Posts, NEW b \in Seq(Picks) \cup {Malformed}, Send(r, b)
      PROVE  post' \in [Posts -> PostStates]
  <2>1. [st |-> "sent", items |-> b] \in PostStates
    BY DEF PostStates
  <2>2. QED
    BY <1>s, <1>t, <2>1 DEF Send
<1>4. ASSUME NEW r \in Posts, placeOrder(r) PROVE CafeTypeOK'
  <2>1. post' \in [Posts -> PostStates]
    BY <1>4, <1>t, <1>s DEF placeOrder
  <2>2. message' \in Messages
    BY <1>4, <1>m DEF placeOrder, PageTypeOK
  <2>3. PageTypeOK'
    BY <1>4, <2>2 DEF placeOrder, PageTypeOK
  <2>4. QED
    BY <1>0, <1>c, <2>1, <2>3 DEF ServicesTypeOK
<1>5. ASSUME NEW r \in Posts, Settle(r) PROVE CafeTypeOK'
  <2>1. /\ message' \in Messages
        /\ cart' \in Seq(Picks)
        /\ settled' \subseteq Posts
    BY <1>5, <1>t, <1>e, <1>m DEF Settle, OrderPlaced, OrderFailed, PageTypeOK
  <2>2. PageTypeOK'
    BY <1>5, <2>1 DEF Settle, PageTypeOK
  <2>3. QED
    BY <1>5, <1>0, <1>c, <2>2 DEF Settle, ServicesTypeOK
<1>6. ASSUME NEW r \in Posts, Curl(r) PROVE CafeTypeOK'
  <2>1. post' \in [Posts -> PostStates]
    <3>1. PICK b \in {Malformed, <<>>} : Send(r, b)
      BY <1>6 DEF Curl
    <3>2. QED
      BY <1>e, <1>s, <3>1
  <2>2. QED
    BY <1>6, <1>0, <1>c, <2>1 DEF Curl, pageVars, PageTypeOK, ServicesTypeOK
<1>7. QED
  BY <1>1, <1>2, <1>3, <1>4, <1>5, <1>6 DEF PageStep
-----------------------------------------------------------------------------
(***************************************************************************)
(* A POST that has been sent keeps its items, whoever makes a step.        *)
(***************************************************************************)
SentStays == \A r \in Posts : post[r].st # "unsent" =>
               /\ post'[r].st # "unsent"
               /\ post'[r].items = post[r].items

LEMMA ServiceKeepsSent ==
  ASSUME CafeTypeOK, ServiceStep \/ ConsulStep
  PROVE  /\ SentStays
         /\ \A r \in Posts : post[r].st = "unsent" => post'[r].st = "unsent"
<1>t. post \in [Posts -> PostStates]
  BY DEF CafeTypeOK, ServicesTypeOK
<1>1. ASSUME NEW r \in Posts, Handle(r)
      PROVE  /\ SentStays
             /\ \A q \in Posts : post[q].st = "unsent" => post'[q].st = "unsent"
  <2>1. CASE findService(r)
    <3>1. /\ post[r].st = "sent"
          /\ post[r] \in PostStates
          /\ "found" \in Running
      BY <1>t, <2>1 DEF findService, Running
    <3>2. /\ [post[r] EXCEPT !.st = "found"].st = "found"
          /\ [post[r] EXCEPT !.st = "found"].items = post[r].items
      BY <3>1, OpenPost
    <3>3. CASE \E a \in Answers : Reply(r, a)
      BY <1>t, <3>1, <3>3 DEF Reply, AnswerWith, SentStays
    <3>4. CASE Move(r, "found")
      BY <1>t, <3>1, <3>2, <3>4 DEF Move, SentStays
    <3>5. QED
      BY <2>1, <3>3, <3>4 DEF findService, Answers
  <2>2. CASE StoreBegins(r)
    BY <1>t, <2>2 DEF StoreBegins, Writing, SentStays
  <2>3. CASE StoreEnds(r)
    BY <1>t, <2>3 DEF StoreEnds, Writing, Reply, AnswerWith, SentStays
  <2>4. CASE KongRefuses(r)
    <3>1. PICK a \in {"kong json", "kong text"} : Reply(r, a)
      BY <2>4 DEF KongRefuses
    <3>2. QED
      BY <1>t, <2>4, <3>1 DEF KongRefuses, Reply, AnswerWith, SentStays
  <2>5. QED
    BY <1>1, <2>1, <2>2, <2>3, <2>4 DEF Handle
<1>2. ASSUME NEW p \in Instances, Stop(p)
      PROVE  /\ SentStays
             /\ \A q \in Posts : post[q].st = "unsent" => post'[q].st = "unsent"
  <2>1. CASE UNCHANGED post
    BY <2>1 DEF SentStays
  <2>2. ASSUME NEW a,
               post' = [r \in Posts |-> IF post[r].st \in Running
                                          THEN AnswerWith(post[r], a) ELSE post[r]]
        PROVE  /\ SentStays
               /\ \A q \in Posts : post[q].st = "unsent" => post'[q].st = "unsent"
    BY <1>t, <2>2 DEF AnswerWith, Running, SentStays
  <2>3. QED
    BY <1>2, <2>1, <2>2 DEF Stop
<1>3. ASSUME UNCHANGED post
      PROVE  /\ SentStays
             /\ \A q \in Posts : post[q].st = "unsent" => post'[q].st = "unsent"
  BY <1>3 DEF SentStays
<1>4. QED
  BY <1>1, <1>2, <1>3 DEF ServiceStep, ConsulStep, ConsulFails, ConsulReturns, Crash,
     FatalMapWrites, registerServiceWithConsul, health, Restart, serviceVars

(***************************************************************************)
(* The invariant of the cart, and what follows from it.                    *)
(***************************************************************************)
Inv == CafeTypeOK /\ CartInv /\ CartKept

(* Services and Consul change neither the page nor the items of a POST. *)
LEMMA ServiceStepInv ==
  ASSUME Inv, ServiceStep \/ ConsulStep
  PROVE  Inv'
<1>1. CafeTypeOK'
  BY ServiceStepType DEF Inv
<1>2. UNCHANGED <<cart, waiting, picked, during, settled>>
  BY DEF ServiceStep, ConsulStep, pageVars
<1>3. \A r \in Posts : PicksOf(r)' = PicksOf(r)
  BY ServiceKeepsSent DEF Inv, SentStays, PicksOf
<1>4. \A r \in Posts : post[r].st # "unsent" => post'[r].st # "unsent"
  BY ServiceKeepsSent DEF Inv, SentStays
<1>5. waiting \subseteq Posts /\ settled \subseteq Posts
  BY DEF Inv, CafeTypeOK, PageTypeOK
<1>6. CartInv'
  BY <1>2, <1>3, <1>4, <1>5 DEF Inv, CartInv
<1>7. CartKept'
  BY <1>2, <1>3, <1>5 DEF Inv, CartKept
<1>8. QED
  BY <1>1, <1>6, <1>7 DEF Inv

(* The page's own steps: adding, ordering, settling, reloading. *)
LEMMA PageStepInv ==
  ASSUME Inv, PageStep
  PROVE  Inv'
<1>t. CafeTypeOK'
  BY PageStepType DEF Inv
<1>0. /\ post \in [Posts -> PostStates]
      /\ cart \in Seq(Picks)
      /\ added \in 0 .. MaxPicks
      /\ waiting \subseteq Posts
      /\ settled \subseteq Posts
  BY DEF Inv, CafeTypeOK, ServicesTypeOK, PageTypeOK
<1>c. CartInv /\ CartKept
  BY DEF Inv
<1>u. ASSUME UNCHANGED post PROVE \A r \in Posts : PicksOf(r)' = PicksOf(r)
  BY <1>u DEF PicksOf
<1>s. ASSUME NEW r \in Posts, NEW b, Send(r, b)
      PROVE  /\ post[r].st = "unsent"
             /\ post'[r].st = "sent" /\ post'[r].items = b
             /\ \A q \in Posts \ {r} : post'[q] = post[q]
             /\ \A q \in Posts \ {r} : PicksOf(q)' = PicksOf(q)
             /\ PicksOf(r)' = IF b = Malformed THEN {} ELSE ToSet(b)
  BY <1>0, <1>s DEF Send, PicksOf
<1>1. CASE setItems
  <2>1. UNCHANGED <<post, cart, waiting, picked, during, settled>>
    BY <1>1 DEF setItems
  <2>2. QED
    BY <1>t, <1>0, <1>c, <1>u, <2>1 DEF Inv, CartInv, CartKept
<1>2. CASE addToCart
  <2>1. /\ UNCHANGED <<post, waiting, settled>>
        /\ added' \in Picks
        /\ cart' = Append(cart, added')
        /\ picked' = picked \cup {added'}
        /\ during' = during \cup ({added'} \X waiting)
    BY <1>2, <1>0 DEF addToCart
  <2>2. ToSet(cart') = ToSet(cart) \cup {added'}
    BY <1>0, <2>1, ToSetAppend
  <2>3. \A r \in Posts : PicksOf(r)' = PicksOf(r)
    BY <1>u, <2>1
  <2>4. \A r \in waiting : \A k \in ToSet(cart') : k \in PicksOf(r)' \/ <<k, r>> \in during'
    <3> SUFFICES ASSUME NEW r \in waiting, NEW k \in ToSet(cart')
                 PROVE  k \in PicksOf(r)' \/ <<k, r>> \in during'
      OBVIOUS
    <3>1. CASE k = added'
      BY <2>1, <3>1
    <3>2. CASE k \in ToSet(cart)
      BY <1>0, <1>c, <2>1, <2>3, <3>2 DEF CartInv
    <3>3. QED
      BY <2>2, <3>1, <3>2
  <2>5. CartInv'
    BY <1>c, <2>1, <2>4 DEF CartInv
  <2>6. CartKept'
    <3> SUFFICES ASSUME NEW k \in picked', k \notin ToSet(cart')
                 PROVE  \E r \in settled' : k \in PicksOf(r)' \/ <<k, r>> \in during'
      BY DEF CartKept
    <3>1. k \in picked /\ k \notin ToSet(cart)
      BY <2>1, <2>2
    <3>2. PICK r \in settled : k \in PicksOf(r) \/ <<k, r>> \in during
      BY <1>c, <3>1 DEF CartKept
    <3>3. r \in settled' /\ PicksOf(r)' = PicksOf(r)
      BY <1>0, <2>1, <2>3, <3>2
    <3>4. QED
      BY <2>1, <3>2, <3>3
  <2>7. QED
    BY <1>t, <2>5, <2>6 DEF Inv
<1>3. CASE Reload
  <2>1. /\ UNCHANGED <<post, added, settled>>
        /\ cart' = <<>> /\ waiting' = {} /\ picked' = {}
    BY <1>3 DEF Reload
  <2>2. ToSet(cart') = {}
    BY <2>1 DEF ToSet
  <2>3. \A r \in Posts : PicksOf(r)' = PicksOf(r)
    BY <1>u, <2>1
  <2>4. QED
    BY <1>t, <1>0, <1>c, <2>1, <2>2, <2>3 DEF Inv, CartInv, CartKept
<1>4. ASSUME NEW r \in Posts, placeOrder(r) PROVE Inv'
  <2>1. UNCHANGED <<cart, picked, during, settled>>
    BY <1>4 DEF placeOrder
  <2>2. CASE UNCHANGED <<waiting, post>>
    BY <1>t, <1>0, <1>c, <1>u, <2>1, <2>2 DEF Inv, CartInv, CartKept
  <2>3. CASE Send(r, cart) /\ waiting' = waiting \cup {r}
    <3>1. PicksOf(r)' = ToSet(cart)
      BY <1>0, <1>s, <2>3
    <3>2. r \notin waiting /\ r \notin settled
      BY <1>c, <1>s, <2>3 DEF CartInv
    <3>3. CartInv'
      BY <1>0, <1>c, <1>s, <2>1, <2>3, <3>1, <3>2 DEF CartInv
    <3>4. CartKept'
      <4>1. \A q \in settled : PicksOf(q)' = PicksOf(q)
        BY <1>0, <1>s, <2>3, <3>2
      <4>2. QED
        BY <1>c, <2>1, <4>1 DEF CartKept
    <3>5. QED
      BY <1>t, <3>3, <3>4 DEF Inv
  <2>4. QED
    BY <1>4, <2>2, <2>3 DEF placeOrder
<1>5. ASSUME NEW r \in Posts, Settle(r) PROVE Inv'
  <2>1. /\ UNCHANGED <<picked, during, post>>
        /\ r \in waiting
        /\ waiting' = waiting \ {r}
    BY <1>5 DEF Settle
  <2>2. \A q \in Posts : PicksOf(q)' = PicksOf(q)
    BY <1>u, <2>1
  <2>3. CASE UNCHANGED <<cart, settled>>
    BY <1>t, <1>0, <1>c, <2>1, <2>2, <2>3 DEF Inv, CartInv, CartKept
  <2>4. CASE cart' = <<>> /\ settled' = settled \cup {r}
    <3>1. ToSet(cart') = {}
      BY <2>4 DEF ToSet
    <3>2. CartInv'
      BY <1>0, <1>c, <2>1, <2>2, <2>4, <3>1 DEF CartInv
    <3>3. CartKept'
      BY <1>0, <1>c, <2>1, <2>2, <2>4 DEF CartInv, CartKept
    <3>4. QED
      BY <1>t, <3>2, <3>3 DEF Inv
  <2>5. QED
    BY <1>5, <2>3, <2>4 DEF Settle, OrderPlaced, OrderFailed
<1>6. ASSUME NEW r \in Posts, Curl(r) PROVE Inv'
  <2>1. UNCHANGED <<cart, waiting, picked, during, settled>>
    BY <1>6 DEF Curl, pageVars
  <2>2. PICK b \in {Malformed, <<>>} : Send(r, b)
    BY <1>6 DEF Curl
  <2>3. PicksOf(r)' = {}
    BY <1>s, <2>2 DEF ToSet
  <2>4. r \notin waiting /\ r \notin settled
    BY <1>c, <1>s, <2>2 DEF CartInv
  <2>5. QED
    BY <1>t, <1>0, <1>c, <1>s, <2>1, <2>2, <2>3, <2>4
       DEF Inv, CartInv, CartKept
<1>7. QED
  BY <1>1, <1>2, <1>3, <1>4, <1>5, <1>6 DEF PageStep

-----------------------------------------------------------------------------
(***************************************************************************)
(* Inv is an invariant of the cafe of practical 4.                         *)
(***************************************************************************)
LEMMA CafeInvariant == Spec => []Inv
<1>1. Init => Inv
  <2> SUFFICES ASSUME Init PROVE Inv
    OBVIOUS
  <2>0. items = "loading" /\ added = 0 /\ waiting = {} /\ picked = {}
        /\ during = {} /\ settled = {}
    BY DEF Init, PageInit
  <2>c. cart = <<>>
    BY DEF Init, PageInit
  <2>m. message = [text |-> "", id |-> Undefined]
    BY DEF Init, PageInit
  <2>p. post = [r \in Posts |-> [st |-> "unsent"]]
    BY DEF Init, ServicesInit
  <2>1. ConsulTypeOK
    BY DEF Init, ConsulInit, ConsulTypeOK
  <2>2. ServicesTypeOK
    BY DEF Init, ServicesInit, ServicesTypeOK, PostStates
  <2>3. PageTypeOK
    <3>1. cart \in Seq(Picks)
      BY <2>c, EmptySeq
    <3>2. message \in Messages
      BY <2>m DEF Messages
    <3>3. added \in 0 .. MaxPicks
      BY <2>0
    <3>4. QED
      BY <2>0, <3>1, <3>2, <3>3 DEF PageTypeOK
  <2>4. CartInv /\ CartKept
    <3>1. ToSet(cart) = {}
      BY <2>c DEF ToSet
    <3>2. \A r \in Posts : PicksOf(r) = {}
      BY <2>p DEF PicksOf
    <3>3. QED
      BY <2>0, <3>1, <3>2 DEF CartInv, CartKept
  <2>5. QED
    BY <2>1, <2>2, <2>3, <2>4 DEF Inv, CafeTypeOK
<1>2. Inv /\ [Next]_vars => Inv'
  <2>1. ASSUME Inv, Next PROVE Inv'
    BY <2>1, PageStepInv, ServiceStepInv DEF Next
  <2>2. ASSUME Inv, UNCHANGED vars PROVE Inv'
    BY <2>2 DEF vars, consulVars, serviceVars, pageVars, Inv, CafeTypeOK, ConsulTypeOK,
       ServicesTypeOK, PageTypeOK, CartInv, CartKept, PicksOf
  <2>3. QED
    BY <2>1, <2>2
<1>3. QED
  BY <1>1, <1>2, PTL DEF Spec

(* The variables of the page, the services and Consul keep their types. *)
THEOREM CafeTypeCorrect == Spec => []CafeTypeOK
<1>1. Inv => CafeTypeOK
  BY DEF Inv
<1>2. QED
  BY <1>1, CafeInvariant, PTL

(***************************************************************************)
(* Whatever the customer presses while requests are pending, every POST    *)
(* that placeOrder of App.tsx still waits for carries all of the cart but  *)
(* what was added after it was sent.                                       *)
(***************************************************************************)
THEOREM PendingCarriesCart == Spec => []CartInv
<1>1. Inv => CartInv
  BY DEF Inv
<1>2. QED
  BY <1>1, CafeInvariant, PTL

(***************************************************************************)
(* However answers overtake each other, and whatever fails, App.tsx drops  *)
(* a pick from the cart only when an order is answered that carries it, or *)
(* that was pending when it was picked.                                    *)
(***************************************************************************)
THEOREM CartIsKept == Spec => []CartKept
<1>1. Inv => CartKept
  BY DEF Inv
<1>2. QED
  BY <1>1, CafeInvariant, PTL
=============================================================================
