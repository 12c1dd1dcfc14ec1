----------------------------- MODULE BrokerProofs -----------------------------
(***************************************************************************)
(* Proofs about DaemonProxy, continued: no request is answered twice, the  *)
(* daemon implements the abstract multiplexer of RequestBroker, and the    *)
(* server is given one handshake by connections that do not overlap theirs.*)
(***************************************************************************)
EXTENDS DaemonProxyProofs

-----------------------------------------------------------------------------
(* Where the requests of a connection are, by the ids their owner gave     *)
(* them.  A request forwarded to the server stands in the pending table    *)
(* until routeResponse takes its entry; one that is dropped is nowhere.    *)

Unread(c)   == {m.id : m \in {n \in In(up[c]) : IsRequest(n)}}
InHand(c)   == IF h[c].pc \in {"remap", "reply"} THEN {h[c].msg.id} ELSE {}
Awaited(c)  == {pending[d].id : d \in Purged(c)}
OnItsWay(c) == IF rl.pc = "deliver" /\ IsResponse(rl.msg) /\ c \in rl.to
               THEN {rl.msg.id} ELSE {}
Got(c)      == {inbox[c][i].id : i \in Responses(c)}

(* Ids along the way of a request: those not read yet are larger than any  *)
(* that has been read, and no id is in two places.                         *)
Line(unread, hand, awaited, way, got) ==
  /\ \A k \in hand \cup awaited \cup way \cup got : \A n \in unread : k < n
  /\ hand \cap awaited = {} /\ hand \cap way = {} /\ hand \cap got = {}
  /\ awaited \cap way = {} /\ awaited \cap got = {} /\ way \cap got = {}

InLine(c) == Line(Unread(c), InHand(c), Awaited(c), OnItsWay(c), Got(c))

(* The requests of s bear increasing ids. *)
Ordered(s) ==
  \A i, j \in DOMAIN s : i < j /\ IsRequest(s[i]) /\ IsRequest(s[j]) => s[i].id < s[j].id

(* No two responses of s bear one id. *)
Once(s) ==
  \A i, j \in DOMAIN s : IsResponse(s[i]) /\ IsResponse(s[j]) /\ s[i].id = s[j].id => i = j

OneEntryEach == \A d, e \in DOMAIN pending : pending[d] = pending[e] => d = e
GoneAreClosed == \A c \in Clients : h[c].pc = "gone" => c \in closed

OnceInv ==
  /\ RoutingInv
  /\ \A c \in Clients : Ordered(up[c]) /\ Once(inbox[c]) /\ InLine(c)
  /\ OneEntryEach /\ GoneAreClosed

-----------------------------------------------------------------------------
(* Sequences of messages.                                                  *)

LEMMA OrderedTail ==
  ASSUME NEW s \in Seq(Msg), s # <<>>, Ordered(s)
  PROVE  /\ Ordered(Tail(s))
         /\ \A m \in In(Tail(s)) : IsRequest(Head(s)) /\ IsRequest(m) => Head(s).id < m.id
<1>1. /\ 1 \in DOMAIN s /\ Head(s) = s[1]
      /\ \A i \in DOMAIN Tail(s) : i \in Nat /\ 1 < i + 1 /\ i + 1 \in DOMAIN s /\ Tail(s)[i] = s[i + 1]
  OBVIOUS
<1> QED BY <1>1 DEF Ordered, In

LEMMA OrderedAppend ==
  ASSUME NEW s \in Seq(Msg), NEW n \in Msg, Ordered(s),
         IsRequest(n) => \A m \in In(s) : IsRequest(m) => m.id < n.id
  PROVE  Ordered(Append(s, n))
<1> DEFINE t == Append(s, n)
<1>1. /\ \A i \in DOMAIN t : i \in 1 .. Len(s) + 1 /\ (i \in DOMAIN s \/ i = Len(s) + 1)
      /\ \A i \in DOMAIN s : t[i] = s[i] /\ i < Len(s) + 1
      /\ t[Len(s) + 1] = n /\ Len(s) \in Nat
  OBVIOUS
<1> HIDE DEF t
<1> SUFFICES ASSUME NEW i \in DOMAIN t, NEW j \in DOMAIN t, i < j, IsRequest(t[i]), IsRequest(t[j])
             PROVE  t[i].id < t[j].id
  BY DEF Ordered, t
<1>2. i \in DOMAIN s /\ t[i] = s[i]
  BY <1>1
<1>3. CASE j \in DOMAIN s
  BY <1>1, <1>2, <1>3 DEF Ordered
<1>4. CASE j = Len(s) + 1
  BY <1>1, <1>2, <1>4 DEF In
<1> QED BY <1>1, <1>3, <1>4

LEMMA OnceAppend ==
  ASSUME NEW s \in Seq(Msg), NEW n \in Msg, Once(s),
         IsResponse(n) => n.id \notin {s[i].id : i \in {j \in DOMAIN s : IsResponse(s[j])}}
  PROVE  Once(Append(s, n))
<1> DEFINE t == Append(s, n)
<1>1. /\ \A i \in DOMAIN t : i \in DOMAIN s \/ i = Len(s) + 1
      /\ \A i \in DOMAIN s : t[i] = s[i]
      /\ t[Len(s) + 1] = n
  OBVIOUS
<1> HIDE DEF t
<1> SUFFICES ASSUME NEW i \in DOMAIN t, NEW j \in DOMAIN t, IsResponse(t[i]), IsResponse(t[j]),
                    t[i].id = t[j].id
             PROVE  i = j
  BY DEF Once, t
<1>2. CASE i \in DOMAIN s /\ j \in DOMAIN s
  BY <1>1, <1>2 DEF Once
<1>3. CASE i \in DOMAIN s /\ j = Len(s) + 1
  BY <1>1, <1>3
<1>4. CASE i = Len(s) + 1 /\ j \in DOMAIN s
  BY <1>1, <1>4
<1> QED BY <1>1, <1>2, <1>3, <1>4

-----------------------------------------------------------------------------
(* The moves of an id along its way.                                       *)

LEMMA LineShrinks ==
  ASSUME NEW U, NEW I, NEW A, NEW W, NEW G, Line(U, I, A, W, G),
         NEW U1, NEW I1, NEW A1, NEW W1, NEW G1,
         U1 \subseteq U, I1 \subseteq I, A1 \subseteq A, W1 \subseteq W, G1 \subseteq G
  PROVE  Line(U1, I1, A1, W1, G1)
BY DEF Line

(* Its owner issues request n. *)
LEMMA LineAsked ==
  ASSUME NEW U, NEW I, NEW A, NEW W, NEW G, Line(U, I, A, W, G),
         NEW n, \A k \in I \cup A \cup W \cup G : k < n
  PROVE  Line(U \cup {n}, I, A, W, G)
BY DEF Line

(* The handler reads request k. *)
LEMMA LineRead ==
  ASSUME NEW U, NEW A, NEW W, NEW G, Line(U, {}, A, W, G), U \subseteq Nat,
         NEW k \in U, NEW U1, U1 \subseteq U, \A n \in U1 : k < n
  PROVE  Line(U1, {k}, A, W, G)
BY DEF Line

(* It forwards it. *)
LEMMA LineForwarded ==
  ASSUME NEW U, NEW A, NEW W, NEW G, NEW k, Line(U, {k}, A, W, G)
  PROVE  Line(U, {}, A \cup {k}, W, G)
BY DEF Line

(* It answers it from the cache. *)
LEMMA LineReplied ==
  ASSUME NEW U, NEW A, NEW W, NEW G, NEW k, Line(U, {k}, A, W, G)
  PROVE  Line(U, {}, A, W, G \cup {k})
BY DEF Line

(* The loop takes its entry to deliver the response. *)
LEMMA LineRouted ==
  ASSUME NEW U, NEW I, NEW A, NEW G, NEW k \in A, Line(U, I, A, {}, G)
  PROVE  Line(U, I, A \ {k}, {k}, G)
BY DEF Line

(* It has delivered it. *)
LEMMA LineDelivered ==
  ASSUME NEW U, NEW I, NEW A, NEW G, NEW k, Line(U, I, A, {k}, G)
  PROVE  Line(U, I, A, {}, G \cup {k})
BY DEF Line

-----------------------------------------------------------------------------
(* What each kind of step does to the places.                              *)

(* Every id on its way is one its owner has given out. *)
LEMMA GivenOut ==
  ASSUME RoutingInv, NEW c \in Clients
  PROVE  /\ Unread(c) \subseteq 1 .. nextID[c]
         /\ \A k \in InHand(c) \cup Awaited(c) \cup OnItsWay(c) \cup Got(c) :
              k \in 1 .. nextID[c]
<1>1. Unread(c) \subseteq 1 .. nextID[c]
  BY DEF RoutingInv, OwnNumbers, Numbered, Unread
<1>2. InHand(c) \subseteq 1 .. nextID[c]
  BY DEF RoutingInv, OwnNumbers, Numbered, InHand
<1>3. Awaited(c) \subseteq 1 .. nextID[c]
  BY DEF RoutingInv, OwnNumbers, Awaited, Purged
<1>4. OnItsWay(c) \subseteq 1 .. nextID[c]
  BY DEF RoutingInv, DeliversOwn, Issued, OnItsWay
<1>5. Got(c) \subseteq 1 .. nextID[c]
  BY DEF RoutingInv, AnswersAreOwn, Got
<1> QED BY <1>1, <1>2, <1>3, <1>4, <1>5

(* A place that a step leaves alone. *)
LEMMA SamePlaces ==
  ASSUME NEW c \in Clients
  PROVE  /\ up'[c] = up[c] => Unread(c)' = Unread(c)
         /\ h'[c] = h[c] => InHand(c)' = InHand(c)
         /\ pending' = pending => Awaited(c)' = Awaited(c)
         /\ rl' = rl => OnItsWay(c)' = OnItsWay(c)
         /\ inbox'[c] = inbox[c] => Got(c)' = Got(c)
BY DEF Unread, InHand, Awaited, Purged, OnItsWay, Got, Responses, IsRequest, IsResponse

LEMMA FewerAwaited ==
  ASSUME NEW c, \A d \in DOMAIN pending' : pending'[d].client = c =>
                  d \in DOMAIN pending /\ pending'[d] = pending[d]
  PROVE  Awaited(c)' \subseteq Awaited(c)
BY DEF Awaited, Purged

(* A message written to a connection. *)
LEMMA WriteGot ==
  ASSUME TypeOK, NEW c \in Clients, NEW m \in Msg, WriteToClient(c, m)
  PROVE  /\ \A d \in Clients \ {c} : inbox'[d] = inbox[d]
         /\ inbox'[c] = inbox[c] \/ inbox'[c] = Append(inbox[c], m)
         /\ Got(c)' \subseteq Got(c) \cup (IF IsResponse(m) THEN {m.id} ELSE {})
<1>1. inbox \in [Clients -> Seq(Msg)]
  BY DEF TypeOK
<1>2. /\ \A d \in Clients \ {c} : inbox'[d] = inbox[d]
      /\ inbox'[c] = inbox[c] \/ inbox'[c] = Append(inbox[c], m)
  BY <1>1 DEF WriteToClient
<1>3. \A i \in DOMAIN inbox'[c] :
        (i \in DOMAIN inbox[c] /\ inbox'[c][i] = inbox[c][i]) \/ inbox'[c][i] = m
  BY WriteAppends
<1>4. Got(c)' \subseteq Got(c) \cup (IF IsResponse(m) THEN {m.id} ELSE {})
  BY <1>3 DEF Got, Responses, IsResponse
<1> QED BY <1>2, <1>4

(* The steps that are not a handler's, an owner's or the loop's. *)
LEMMA ElsewhereInLine ==
  ASSUME OnceInv, AcceptLoop \/ LanguageServer \/ Reap \/ Environment
  PROVE  /\ OneEntryEach' /\ \A c \in Clients : Ordered(up'[c]) /\ Once(inbox'[c]) /\ InLine(c)'
<1>1. TypeOK /\ NotHandler /\ [Next]_vars
  BY DEF OnceInv, RoutingInv, NotHandler, Next
<1>2. up' = up /\ rl' = rl /\ inbox' = inbox
  <2>1. inbox' = inbox /\ rl' = rl
    BY DEF AcceptLoop, IdleStop, ServerExited, Accept, ShutdownAnswered, ShutdownTimeout,
           ExitObserved, ExitTimeout, Cleanup, ProcessExit, LanguageServer, LSInitialize,
           LSInitialized, LSTakeRequest, LSAnswer, LSShutdown, LSIgnore, LSExit, Reap,
           Environment, LSNotify, LSRequest, LSSends, LSCrash, TimePasses, proxyVars
  <2> QED BY <2>1, ServerSideLeavesOwners
<1>3. \A d \in DOMAIN pending' : d \in DOMAIN pending /\ pending'[d] = pending[d]
  BY <1>1, ElsewherePending
<1>4. OneEntryEach'
  BY <1>3 DEF OneEntryEach, OnceInv
<1>5. ASSUME NEW c \in Clients PROVE InLine(c)'
  <2>1. InHand(c)' \subseteq InHand(c)
    <3>1. h'[c] = h[c] \/ h'[c] = AtRead
      <4>1. ASSUME NEW d \in Waiting, h' = [h EXCEPT ![d] = AtRead]
            PROVE  h'[c] = h[c] \/ h'[c] = AtRead
        BY <1>1, <4>1 DEF TypeOK
      <4> QED BY <1>1, <4>1, ElsewhereHandlers
    <3> QED BY <3>1 DEF InHand, AtRead, At
  <2>2. Unread(c)' = Unread(c) /\ OnItsWay(c)' = OnItsWay(c) /\ Got(c)' = Got(c)
    BY <1>2, SamePlaces
  <2>3. Awaited(c)' \subseteq Awaited(c)
    BY <1>3, FewerAwaited
  <2> QED BY <2>1, <2>2, <2>3, LineShrinks DEF InLine, OnceInv
<1> QED BY <1>2, <1>4, <1>5 DEF OnceInv

(* A connection's owner. *)
LEMMA OwnersAsk ==
  ASSUME TypeOK, NEW c \in Clients, Client(c)
  PROVE  /\ \A d \in Clients \ {c} : up'[d] = up[d]
         /\ \/ up'[c] = up[c]
            \/ \E n \in Msg : /\ up'[c] = Append(up[c], n)
                              /\ IsRequest(n) => n.id = nextID[c] + 1
<1> USE DEF daemonVars
<1>a. up \in [Clients -> Seq(Msg)] /\ nextID \in [Clients -> Nat]
  BY DEF TypeOK
<1>1. ASSUME NEW n \in Msg, Sends(c, n), IsRequest(n) => n.id = nextID[c] + 1
      PROVE  /\ \A d \in Clients \ {c} : up'[d] = up[d]
             /\ \E q \in Msg : up'[c] = Append(up[c], q) /\ (IsRequest(q) => q.id = nextID[c] + 1)
  BY <1>1, <1>a DEF Sends
<1>2. ASSUME NEW kind \in Kinds, Asks(c, kind)
      PROVE  /\ \A d \in Clients \ {c} : up'[d] = up[d]
             /\ \E q \in Msg : up'[c] = Append(up[c], q) /\ (IsRequest(q) => q.id = nextID[c] + 1)
  <2> DEFINE n == Message(kind, nextID[c] + 1, c, TRUE)
  <2>1. n \in Msg /\ n.id = nextID[c] + 1
    <3>1. nextID[c] + 1 \in Nat
      BY <1>a
    <3> QED BY <3>1, MessageType DEF Message
  <2>2. Sends(c, n)
    BY <1>2 DEF Asks
  <2> HIDE DEF n
  <2> QED BY <1>1, <2>1, <2>2
<1>3. CASE ClientInitialize(c) \/ ClientCall(c) \/ ClientShutdown(c)
  BY <1>2, <1>3 DEF ClientInitialize, ClientCall, ClientShutdown, Kinds
<1>4. CASE Dial(c) \/ ClientClose(c)
  BY <1>4 DEF Dial, ClientClose
<1>5. CASE ClientRead(c)
  <2> DEFINE r == inbox[c][seen[c] + 1]
  <2>1. r \in Msg
    BY <1>5 DEF ClientRead, TypeOK
  <2>2. /\ Notification("initialized", c) \in Msg /\ ~IsRequest(Notification("initialized", c))
        /\ Notification("exit", c) \in Msg /\ ~IsRequest(Notification("exit", c))
        /\ AnswerTo(r) \in Msg /\ ~IsRequest(AnswerTo(r))
    BY <2>1, MessageType, ResponseType DEF Notification, Message, Kinds, AnswerTo, IsRequest
  <2>3. up' = up \/ Sends(c, Notification("initialized", c)) \/ Sends(c, Notification("exit", c))
          \/ Sends(c, AnswerTo(r))
    BY <1>5 DEF ClientRead
  <2> HIDE DEF r
  <2> QED BY <2>2, <2>3, <1>1
<1> QED BY <1>3, <1>4, <1>5 DEF Client

LEMMA OwnerInLine ==
  ASSUME OnceInv, NEW d \in Clients, Client(d)
  PROVE  /\ OneEntryEach' /\ \A c \in Clients : Ordered(up'[c]) /\ Once(inbox'[c]) /\ InLine(c)'
<1>1. TypeOK /\ RoutingInv /\ up \in [Clients -> Seq(Msg)] /\ nextID \in [Clients -> Nat]
  BY DEF OnceInv, RoutingInv, TypeOK
<1>2. h' = h /\ pending' = pending /\ rl' = rl /\ inbox' = inbox
  BY DEF Client, Dial, ClientInitialize, ClientCall, ClientShutdown, ClientRead, ClientClose,
         Asks, daemonVars
<1>3. ASSUME NEW c \in Clients
      PROVE  /\ InHand(c)' = InHand(c) /\ Awaited(c)' = Awaited(c) /\ OnItsWay(c)' = OnItsWay(c)
             /\ Got(c)' = Got(c) /\ (up'[c] = up[c] => Unread(c)' = Unread(c))
  BY <1>2, SamePlaces
<1>4. ASSUME NEW c \in Clients, up'[c] = up[c] PROVE Ordered(up'[c]) /\ InLine(c)'
  BY <1>3, <1>4 DEF InLine, OnceInv
<1>5. ASSUME NEW n \in Msg, up'[d] = Append(up[d], n), IsRequest(n) => n.id = nextID[d] + 1
      PROVE  Ordered(up'[d]) /\ InLine(d)'
  <2>1. up[d] \in Seq(Msg) /\ nextID[d] \in Nat
    BY <1>1
  <2>2. \A k \in Unread(d) \cup InHand(d) \cup Awaited(d) \cup OnItsWay(d) \cup Got(d) :
          k < nextID[d] + 1
    BY <1>1, <2>1, GivenOut
  <2>3. In(up'[d]) = In(up[d]) \cup {n}
    BY <1>5, <2>1, InAppend
  <2>4. Unread(d)' = Unread(d) \cup (IF IsRequest(n) THEN {n.id} ELSE {})
    BY <2>3 DEF Unread, IsRequest
  <2>5. \A m \in In(up[d]) : IsRequest(m) => m.id \in Unread(d)
    BY DEF Unread
  <2>6. Ordered(up'[d])
    BY <1>5, <2>1, <2>2, <2>5, OrderedAppend DEF OnceInv
  <2>7. InLine(d)'
    <3>1. CASE IsRequest(n)
      <4>1. Unread(d)' = Unread(d) \cup {nextID[d] + 1}
        BY <1>5, <2>4, <3>1
      <4>2. Line(Unread(d), InHand(d), Awaited(d), OnItsWay(d), Got(d))
        BY DEF InLine, OnceInv
      <4>3. Line(Unread(d) \cup {nextID[d] + 1}, InHand(d), Awaited(d), OnItsWay(d), Got(d))
        BY <2>2, <4>2, LineAsked
      <4> QED BY <1>3, <4>1, <4>3 DEF InLine
    <3>2. CASE ~IsRequest(n)
      BY <1>3, <2>4, <3>2 DEF InLine, OnceInv
    <3> QED BY <3>1, <3>2
  <2> QED BY <2>6, <2>7
<1>6. ASSUME NEW c \in Clients PROVE Ordered(up'[c]) /\ InLine(c)'
  BY <1>1, <1>4, <1>5, OwnersAsk
<1>7. OneEntryEach' /\ \A c \in Clients : Once(inbox'[c])
  BY <1>2 DEF OneEntryEach, OnceInv
<1> QED BY <1>6, <1>7

(* A connection's handler. *)
LEMMA OtherHandlersInLine ==
  ASSUME OnceInv, NEW d \in Clients, Handler(d), NEW c \in Clients \ {d}
  PROVE  Ordered(up'[c]) /\ Once(inbox'[c]) /\ InLine(c)'
<1>1. TypeOK /\ OwnNumbers /\ [Next]_vars
  BY DEF OnceInv, RoutingInv, Next
<1>2. up'[c] = up[c]
  <2>1. up \in [Clients -> Seq(Msg)]
    BY <1>1 DEF TypeOK
  <2> QED BY <2>1, HandlerLeavesOwners DEF HandlerRead
<1>3. h'[c] = h[c]
  BY <1>1, OthersStay
<1>4. rl' = rl
  BY DEF Handler, HandlerRead, HandlerRemap, HandlerTrack, HandlerForward, HandlerMark,
         HandlerReply, HandlerEOF, HandlerRemove, HandlerPurge
<1>5. inbox'[c] = inbox[c]
  <2>1. inbox' = inbox \/ inbox' = [inbox EXCEPT ![d] = Append(inbox[d], WithID(initResponse, h[d].msg.id))]
    BY DEF Handler, HandlerRead, HandlerRemap, HandlerTrack, HandlerForward, HandlerMark,
           HandlerReply, HandlerEOF, HandlerRemove, HandlerPurge, WriteToClient
  <2> QED BY <1>1, <2>1 DEF TypeOK
<1>6. Awaited(c)' \subseteq Awaited(c)
  BY <1>1, HandlerPending, FewerAwaited
<1>7. InLine(c)'
  BY <1>2, <1>3, <1>4, <1>5, <1>6, SamePlaces, LineShrinks DEF InLine, OnceInv
<1> QED BY <1>2, <1>5, <1>7 DEF OnceInv

LEMMA HandlerInLine ==
  ASSUME OnceInv, NEW c \in Clients, Handler(c)
  PROVE  OneEntryEach' /\ Ordered(up'[c]) /\ Once(inbox'[c]) /\ InLine(c)'
<1>a. /\ TypeOK /\ OwnNumbers /\ Ordered(up[c]) /\ Once(inbox[c]) /\ OneEntryEach
      /\ Line(Unread(c), InHand(c), Awaited(c), OnItsWay(c), Got(c))
      /\ up \in [Clients -> Seq(Msg)] /\ h \in [Clients -> [pc : HandlerPCs, msg : Msg]]
      /\ inbox \in [Clients -> Seq(Msg)] /\ initResponse \in Msg /\ h[c].msg \in Msg
      /\ DOMAIN pending \subseteq 1 .. nextReqID /\ nextReqID \in Nat
  BY DEF OnceInv, InLine, RoutingInv, TypeOK
<1>b. OnItsWay(c)' = OnItsWay(c)
  <2>1. rl' = rl
    BY DEF Handler, HandlerRead, HandlerRemap, HandlerTrack, HandlerForward, HandlerMark,
           HandlerReply, HandlerEOF, HandlerRemove, HandlerPurge
  <2> QED BY <2>1, SamePlaces
<1>1. CASE HandlerRead(c)
  <2> DEFINE m == Head(up[c])
  <2>1. /\ up[c] # <<>> /\ up' = [up EXCEPT ![c] = Tail(up[c])] /\ inbox' = inbox
        /\ pending' = pending /\ h[c].pc = "read"
    BY <1>1 DEF HandlerRead, HandlerAt
  <2>2. up[c] \in Seq(Msg) /\ up'[c] = Tail(up[c])
    BY <1>a, <2>1
  <2>3. /\ Ordered(up'[c]) /\ m \in In(up[c]) /\ In(up'[c]) \subseteq In(up[c])
        /\ \A n \in In(up'[c]) : IsRequest(m) /\ IsRequest(n) => m.id < n.id
    BY <1>a, <2>1, <2>2, InTail, OrderedTail
  <2>4. InHand(c)' = {} \/ (IsRequest(m) /\ InHand(c)' = {m.id})
    <3>1. h'[c] = AtRead \/ h'[c] = [pc |-> Dispatch(m, initPhase), msg |-> m]
      BY <1>1, <1>a DEF HandlerRead
    <3>2. Dispatch(m, initPhase) \in {"remap", "reply"} => IsRequest(m)
      BY DEF Dispatch, IsRequest
    <3> HIDE DEF m
    <3> QED BY <3>1, <3>2 DEF InHand, AtRead, At
  <2>5. Awaited(c)' = Awaited(c) /\ Got(c)' = Got(c) /\ InHand(c) = {}
    BY <2>1, SamePlaces DEF InHand
  <2>6. Unread(c)' \subseteq Unread(c)
    BY <2>3 DEF Unread, IsRequest
  <2>7. InLine(c)'
    <3>1. CASE InHand(c)' = {}
      BY <1>a, <1>b, <2>5, <2>6, <3>1, LineShrinks DEF InLine
    <3>2. CASE IsRequest(m) /\ InHand(c)' = {m.id}
      <4>1. m.id \in Unread(c) /\ \A n \in Unread(c)' : m.id < n
        BY <2>3, <3>2 DEF Unread, IsRequest
      <4>2. Unread(c) \subseteq Nat
        <5>1. RoutingInv
          BY DEF OnceInv
        <5> QED BY <5>1, GivenOut
      <4>3. Line(Unread(c)', {m.id}, Awaited(c), OnItsWay(c), Got(c))
        BY <1>a, <2>5, <2>6, <4>1, <4>2, LineRead
      <4> QED BY <1>b, <2>5, <3>2, <4>3 DEF InLine
    <3> QED BY <2>4, <3>1, <3>2
  <2>8. OneEntryEach' /\ Once(inbox'[c])
    BY <1>a, <2>1 DEF OneEntryEach
  <2> QED BY <2>3, <2>7, <2>8
<1>2. CASE HandlerRemap(c)
  <2> DEFINE k == h[c].msg.id
             n == nextReqID + 1
  <2>1. /\ h[c].pc = "remap" /\ up' = up /\ inbox' = inbox /\ h'[c].pc \in {"track", "forward"}
        /\ pending' = [d \in DOMAIN pending \cup {n} |->
                          IF d = n THEN [client |-> c, id |-> k] ELSE pending[d]]
    BY <1>2, <1>a DEF HandlerRemap, HandlerAt, clientVars
  <2>2. n \notin DOMAIN pending
    BY <1>a
  <2>3. InHand(c) = {k} /\ InHand(c)' = {} /\ Unread(c)' = Unread(c) /\ Got(c)' = Got(c)
    BY <2>1, SamePlaces DEF InHand
  <2>4. Awaited(c)' \subseteq Awaited(c) \cup {k}
    BY <2>1 DEF Awaited, Purged
  <2>5. k \notin Awaited(c)
    BY <1>a, <2>3 DEF Line
  <2>6. OneEntryEach'
    <3>1. \A d \in DOMAIN pending : pending[d] # [client |-> c, id |-> k]
      BY <2>5 DEF Awaited, Purged
    <3> QED BY <1>a, <2>1, <2>2, <3>1 DEF OneEntryEach
  <2>7. Line(Unread(c), {}, Awaited(c) \cup {k}, OnItsWay(c), Got(c))
    BY <1>a, <2>3, LineForwarded
  <2>8. InLine(c)'
    BY <1>b, <2>3, <2>4, <2>7, LineShrinks DEF InLine
  <2> QED BY <1>a, <2>1, <2>6, <2>8
<1>3. CASE HandlerReply(c)
  <2> DEFINE k == h[c].msg.id
             r == WithID(initResponse, k)
  <2>1. /\ h[c].pc = "reply" /\ up' = up /\ pending' = pending /\ h'[c].pc \in {"read", "remove"}
    BY <1>3, <1>a, GoesElsewhere DEF HandlerReply, HandlerAt, clientVars
  <2>2. InHand(c) = {k} /\ InHand(c)' = {} /\ Unread(c)' = Unread(c) /\ Awaited(c)' = Awaited(c)
    BY <2>1, SamePlaces DEF InHand
  <2>3. r \in Msg /\ r.id = k
    BY <1>a, WithIDType DEF WithID, Msg
  <2>4. /\ inbox'[c] = inbox[c] \/ inbox'[c] = Append(inbox[c], r)
        /\ Got(c)' \subseteq Got(c) \cup {k}
    <3>1. CASE inbox' = inbox
      BY <3>1, SamePlaces
    <3>2. CASE WriteToClient(c, r)
      BY <1>a, <2>3, <3>2, WriteGot
    <3> QED BY <1>3, <3>1, <3>2 DEF HandlerReply
  <2>5. k \notin Got(c)
    BY <1>a, <2>2 DEF Line
  <2>6. Once(inbox'[c])
    <3>1. inbox[c] \in Seq(Msg)
      BY <1>a
    <3>2. r.id \notin {inbox[c][i].id : i \in {j \in DOMAIN inbox[c] : IsResponse(inbox[c][j])}}
      BY <2>3, <2>5 DEF Got, Responses
    <3> HIDE DEF r, k
    <3> QED BY <1>a, <2>3, <2>4, <3>1, <3>2, OnceAppend
  <2>7. Line(Unread(c), {}, Awaited(c), OnItsWay(c), Got(c) \cup {k})
    BY <1>a, <2>2, LineReplied
  <2>8. InLine(c)'
    BY <1>b, <2>2, <2>4, <2>7, LineShrinks DEF InLine
  <2> QED BY <1>a, <2>1, <2>6, <2>8 DEF OneEntryEach
<1>4. ASSUME ~HandlerRead(c), ~HandlerRemap(c), ~HandlerReply(c)
      PROVE  OneEntryEach' /\ Ordered(up'[c]) /\ Once(inbox'[c]) /\ InLine(c)'
  <2>1. up' = up /\ inbox' = inbox /\ h'[c].pc \notin {"remap", "reply"}
    BY <1>4, <1>a, GoesElsewhere DEF Handler, HandlerTrack, HandlerForward, HandlerMark,
       HandlerEOF, HandlerRemove, HandlerPurge, clientVars
  <2>2. \A d \in DOMAIN pending' : d \in DOMAIN pending /\ pending'[d] = pending[d]
    BY <1>4 DEF Handler, HandlerTrack, HandlerForward, HandlerMark, HandlerEOF, HandlerRemove,
                HandlerPurge
  <2>3. Unread(c)' = Unread(c) /\ Got(c)' = Got(c) /\ InHand(c)' = {}
    BY <2>1, SamePlaces DEF InHand
  <2>4. Awaited(c)' \subseteq Awaited(c)
    BY <2>2, FewerAwaited
  <2>5. InLine(c)'
    BY <1>a, <1>b, <2>3, <2>4, LineShrinks DEF InLine
  <2>6. OneEntryEach'
    BY <1>a, <2>2 DEF OneEntryEach
  <2> QED BY <1>a, <2>1, <2>5, <2>6
<1> QED BY <1>1, <1>2, <1>3, <1>4

(* serverReadLoop. *)
LEMMA LoopInLine ==
  ASSUME OnceInv, ServerReadLoop, NEW c \in Clients
  PROVE  OneEntryEach' /\ Ordered(up'[c]) /\ Once(inbox'[c]) /\ InLine(c)'
<1>a. /\ TypeOK /\ NotHandler /\ Ordered(up[c]) /\ Once(inbox[c]) /\ OneEntryEach
      /\ Line(Unread(c), InHand(c), Awaited(c), OnItsWay(c), Got(c))
      /\ inbox \in [Clients -> Seq(Msg)] /\ rl.msg \in Msg /\ rl.to \subseteq Clients
      /\ \A d \in DOMAIN pending : pending[d].id \in Nat
  BY DEF OnceInv, InLine, RoutingInv, TypeOK, NotHandler
<1>b. h' = h /\ up' = up
  BY ServerSideLeavesOwners DEF ServerReadLoop, LoopRead, LoopCheckCache, LoopStoreCache,
     RouteResponse, RouteServerRequest, RejectServerRequest, BroadcastToClients, LoopDeliver
<1>c. InHand(c)' = InHand(c) /\ Unread(c)' = Unread(c) /\ Ordered(up'[c])
  BY <1>a, <1>b, SamePlaces
<1>d. \A d \in DOMAIN pending' : d \in DOMAIN pending /\ pending'[d] = pending[d]
  BY <1>a, ElsewherePending
<1>e. OneEntryEach' /\ Awaited(c)' \subseteq Awaited(c)
  BY <1>a, <1>d, FewerAwaited DEF OneEntryEach
<1>f. \A m, T : LoopDelivers(m, T) => rl' = LoopAtRead \/ (rl'.msg = m /\ rl'.to = T)
  BY DEF LoopDelivers
<1>g. LoopAtRead.pc = "read"
  BY DEF LoopAtRead, LoopWith
<1>1. ASSUME inbox' = inbox, OnItsWay(c)' \subseteq OnItsWay(c)
      PROVE  Once(inbox'[c]) /\ InLine(c)'
  BY <1>1, <1>a, <1>c, <1>e, SamePlaces, LineShrinks DEF InLine
<1>2. CASE RouteResponse
  <2>1. inbox' = inbox /\ rl.pc = "route"
    BY <1>2 DEF RouteResponse, LoopAt
  <2>2. CASE OnItsWay(c)' = {}
    BY <1>1, <1>c, <1>e, <2>1, <2>2
  <2>3. CASE OnItsWay(c)' # {}
    <3> DEFINE e == rl.msg.id
               p == pending[e]
    <3>1. rl'.pc = "deliver" /\ c \in rl'.to /\ OnItsWay(c)' = {rl'.msg.id}
      BY <2>3 DEF OnItsWay
    <3>2. /\ e \in DOMAIN pending /\ LoopDelivers(WithID(rl.msg, p.id), {p.client})
          /\ pending' = [d \in DOMAIN pending \ {e} |-> pending[d]]
      BY <1>2, <1>g, <3>1 DEF RouteResponse
    <3>3. c = p.client /\ rl'.msg.id = p.id
      BY <1>f, <1>g, <3>1, <3>2 DEF WithID
    <3>4. p.id \in Awaited(c)
      BY <3>2, <3>3 DEF Awaited, Purged
    <3>5. Awaited(c)' \subseteq Awaited(c) \ {p.id}
      <4>1. \A d \in DOMAIN pending' :
              d \in DOMAIN pending /\ d # e /\ pending'[d] = pending[d]
        BY <3>2
      <4>2. \A d \in DOMAIN pending : d # e /\ pending[d].client = c => pending[d].id # p.id
        <5>1. \A d \in DOMAIN pending : pending[d] = [client |-> pending[d].client, id |-> pending[d].id]
          BY <1>a DEF TypeOK
        <5> QED BY <1>a, <3>2, <3>3, <5>1 DEF OneEntryEach
      <4> QED BY <1>e, <4>1, <4>2 DEF Awaited, Purged
    <3>6. OnItsWay(c) = {}
      BY <2>1 DEF OnItsWay
    <3>7. Line(Unread(c), InHand(c), Awaited(c) \ {p.id}, {p.id}, Got(c))
      BY <1>a, <3>4, <3>6, LineRouted
    <3>8. Got(c)' = Got(c)
      BY <2>1, SamePlaces
    <3> HIDE DEF p
    <3>9. InLine(c)'
      BY <1>c, <3>1, <3>3, <3>5, <3>7, <3>8, LineShrinks DEF InLine
    <3> QED BY <1>a, <1>c, <1>e, <2>1, <3>9
  <2> QED BY <2>2, <2>3
<1>3. CASE LoopDeliver
  <2>1. PICK d \in rl.to : WriteToClient(d, rl.msg) /\ LoopDelivers(rl.msg, rl.to \ {d})
    BY <1>3 DEF LoopDeliver
  <2>2. rl.pc = "deliver" /\ d \in Clients
    BY <1>3, <1>a DEF LoopDeliver, LoopAt
  <2>3. OnItsWay(c)' \subseteq OnItsWay(c) \ (IF c = d THEN {rl.msg.id} ELSE {})
    <3>1. rl'.pc = "deliver" => rl'.msg = rl.msg /\ rl'.to = rl.to \ {d}
      BY <1>f, <1>g, <2>1
    <3> QED BY <2>2, <3>1 DEF OnItsWay, IsResponse
  <2>4. CASE c # d \/ ~IsResponse(rl.msg)
    <3>1. Got(c)' \subseteq Got(c) /\ Once(inbox'[c])
      <4>1. CASE c # d
        <5>1. inbox'[c] = inbox[c]
          BY <1>a, <2>1, <2>2, <4>1, WriteGot
        <5> QED BY <1>a, <5>1, SamePlaces
      <4>2. CASE c = d /\ ~IsResponse(rl.msg)
        <5>1. inbox[c] \in Seq(Msg)
          BY <1>a
        <5> QED BY <1>a, <2>1, <4>2, <5>1, WriteGot, OnceAppend
      <4> QED BY <2>4, <4>1, <4>2
    <3>2. OnItsWay(c)' \subseteq OnItsWay(c)
      BY <2>3
    <3>3. InLine(c)'
      BY <1>a, <1>c, <1>e, <3>1, <3>2, LineShrinks DEF InLine
    <3> QED BY <1>c, <1>e, <3>1, <3>3
  <2>5. CASE c = d /\ IsResponse(rl.msg)
    <3> DEFINE k == rl.msg.id
    <3>1. OnItsWay(c) = {k} /\ OnItsWay(c)' = {}
      BY <2>1, <2>2, <2>3, <2>5 DEF OnItsWay
    <3>2. /\ inbox'[c] = inbox[c] \/ inbox'[c] = Append(inbox[c], rl.msg)
          /\ Got(c)' \subseteq Got(c) \cup {k}
      BY <1>a, <2>1, <2>5, WriteGot
    <3>3. k \notin Got(c)
      BY <1>a, <3>1 DEF Line
    <3>4. Once(inbox'[c])
      <4>1. inbox[c] \in Seq(Msg)
        BY <1>a
      <4>2. rl.msg.id \notin {inbox[c][i].id : i \in {j \in DOMAIN inbox[c] : IsResponse(inbox[c][j])}}
        BY <3>3 DEF Got, Responses
      <4> QED BY <1>a, <3>2, <4>1, <4>2, OnceAppend
    <3>5. Line(Unread(c), InHand(c), Awaited(c), {}, Got(c) \cup {k})
      BY <1>a, <3>1, LineDelivered
    <3>6. InLine(c)'
      BY <1>c, <1>e, <3>1, <3>2, <3>5, LineShrinks DEF InLine
    <3> QED BY <1>c, <1>e, <3>4, <3>6
  <2> QED BY <2>4, <2>5
<1>4. CASE RouteServerRequest \/ BroadcastToClients
  <2>1. /\ inbox' = inbox /\ ~IsResponse(rl.msg) /\ (rl' = LoopAtRead \/ rl'.msg = rl.msg)
    BY <1>4, <1>f DEF RouteServerRequest, BroadcastToClients, IsResponse
  <2>2. OnItsWay(c)' = {}
    BY <1>g, <2>1 DEF OnItsWay, IsResponse
  <2> QED BY <1>1, <1>c, <1>e, <2>1, <2>2
<1>5. CASE LoopRead \/ LoopCheckCache \/ LoopStoreCache \/ RejectServerRequest
  <2>1. inbox' = inbox /\ rl'.pc # "deliver"
    BY <1>5, <1>g DEF LoopRead, LoopCheckCache, LoopStoreCache, RejectServerRequest, LoopWith
  <2>2. OnItsWay(c)' = {}
    BY <2>1 DEF OnItsWay
  <2> QED BY <1>1, <1>c, <1>e, <2>1, <2>2
<1> QED BY <1>2, <1>3, <1>4, <1>5 DEF ServerReadLoop

(* removeClient closes the connection in the step that ends the handler.   *)
LEMMA GoneStep ==
  ASSUME TypeOK, GoneAreClosed, [Next]_vars
  PROVE  GoneAreClosed'
<1> SUFFICES ASSUME NEW c \in Clients, h'[c].pc = "gone" PROVE c \in closed'
  BY DEF GoneAreClosed
<1>1. closed \subseteq closed'
  <2> USE DEF proxyVars, daemonVars
  <2>1. ASSUME NEW d \in Clients, Handler(d) PROVE closed \subseteq closed'
    BY <2>1 DEF Handler, HandlerRead, HandlerRemap, HandlerTrack, HandlerForward, HandlerMark,
         HandlerReply, HandlerEOF, HandlerRemove, HandlerPurge, WriteToClient
  <2>2. ASSUME NEW d \in Clients, Client(d) PROVE closed' = closed
    BY <2>2 DEF Client, Dial, ClientInitialize, ClientCall, ClientShutdown, ClientRead,
         ClientClose, Asks
  <2>3. ASSUME ServerReadLoop PROVE closed \subseteq closed'
    BY <2>3 DEF ServerReadLoop, LoopRead, LoopCheckCache, LoopStoreCache, RouteResponse,
         RouteServerRequest, RejectServerRequest, BroadcastToClients, LoopDeliver, WriteToClient
  <2>4. ASSUME AcceptLoop PROVE closed \subseteq closed'
    BY <2>4 DEF AcceptLoop, IdleStop, ServerExited, Accept, ShutdownAnswered, ShutdownTimeout,
         ExitObserved, ExitTimeout, Cleanup, ProcessExit, TypeOK
  <2>5. ASSUME LanguageServer \/ Reap \/ Environment PROVE closed' = closed
    BY <2>5 DEF LanguageServer, LSInitialize, LSInitialized, LSTakeRequest, LSAnswer,
         LSShutdown, LSIgnore, LSExit, Reap, Environment, LSNotify, LSRequest, LSSends, LSCrash,
         TimePasses
  <2> QED BY <2>1, <2>2, <2>3, <2>4, <2>5 DEF Next, vars
<1>2. CASE UNCHANGED vars
  BY <1>2 DEF vars, GoneAreClosed
<1>3. ASSUME NEW d \in Clients, Handler(d) PROVE c \in closed'
  <2>1. CASE c = d
    BY <1>3, <2>1, OthersStay DEF HandlerPurge
  <2>2. CASE c # d
    BY <1>1, <1>3, <2>2, OthersStay DEF GoneAreClosed
  <2> QED BY <2>1, <2>2
<1>4. CASE NotHandler
  <2>1. ASSUME NEW d \in Waiting, h' = [h EXCEPT ![d] = AtRead] PROVE h'[c] = h[c]
    BY <2>1 DEF TypeOK, AtRead, At
  <2> QED BY <1>1, <1>4, <2>1, ElsewhereHandlers DEF GoneAreClosed
<1> QED BY <1>2, <1>3, <1>4 DEF Next, NotHandler

LEMMA OnceInit == Init => OnceInv
<1> SUFFICES ASSUME Init PROVE OnceInv
  OBVIOUS
<1>1. RoutingInv
  BY RoutingInit
<1>2. OneEntryEach /\ GoneAreClosed
  BY DEF Init, OneEntryEach, GoneAreClosed, At
<1>3. ASSUME NEW c \in Clients PROVE Ordered(up[c]) /\ Once(inbox[c]) /\ InLine(c)
  <2>1. up[c] = <<>> /\ inbox[c] = <<>> /\ h[c].pc = "none" /\ DOMAIN pending = {} /\ rl.pc = "read"
    BY DEF Init, At, LoopAtRead, LoopWith
  <2>2. In(up[c]) = {}
    BY <2>1 DEF In
  <2>3. /\ Unread(c) = {} /\ InHand(c) = {} /\ Awaited(c) = {} /\ OnItsWay(c) = {} /\ Got(c) = {}
    BY <2>1, <2>2 DEF Unread, InHand, Awaited, Purged, OnItsWay, Got, Responses
  <2> QED BY <2>1, <2>3 DEF Ordered, Once, InLine, Line
<1> QED BY <1>1, <1>2, <1>3 DEF OnceInv

LEMMA OnceStep == OnceInv /\ [Next]_vars => OnceInv'
<1> SUFFICES ASSUME OnceInv, [Next]_vars PROVE OnceInv'
  OBVIOUS
<1>1. RoutingInv' /\ GoneAreClosed'
  BY RoutingStep, GoneStep DEF OnceInv, RoutingInv
<1>2. CASE UNCHANGED vars
  <2>1. \A c \in Clients : InLine(c)' = InLine(c)
    BY <1>2, SamePlaces DEF vars, InLine
  <2> QED BY <1>1, <1>2, <2>1 DEF vars, OnceInv, OneEntryEach
<1>3. ASSUME NEW d \in Clients, Handler(d) PROVE OnceInv'
  <2>1. OneEntryEach' /\ \A c \in Clients : Ordered(up'[c]) /\ Once(inbox'[c]) /\ InLine(c)'
    BY <1>3, HandlerInLine, OtherHandlersInLine
  <2> QED BY <1>1, <2>1 DEF OnceInv
<1>4. ASSUME NEW d \in Clients, Client(d) PROVE OnceInv'
  BY <1>1, <1>4, OwnerInLine DEF OnceInv
<1>5. CASE ServerReadLoop
  <2>1. OneEntryEach'
    <3>1. \A d \in DOMAIN pending' : d \in DOMAIN pending /\ pending'[d] = pending[d]
      BY <1>5, ElsewherePending DEF NotHandler, OnceInv, RoutingInv
    <3> QED BY <3>1 DEF OneEntryEach, OnceInv
  <2> QED BY <1>1, <1>5, <2>1, LoopInLine DEF OnceInv
<1>6. CASE AcceptLoop \/ LanguageServer \/ Reap \/ Environment
  BY <1>1, <1>6, ElsewhereInLine DEF OnceInv
<1> QED BY <1>2, <1>3, <1>4, <1>5, <1>6 DEF Next

(* A request leaves the bytes its owner sent, its handler, the pending     *)
(* table and the delivery by serverReadLoop one after the other, and an id *)
(* of the daemon is never given out again: so whatever the server answers, *)
(* late or twice, and whichever of cache and server is asked, no           *)
(* connection is given two responses to one request.                       *)
THEOREM AnsweredOnce == Spec => []AnsweredAtMostOnce
<1>1. OnceInv => AnsweredAtMostOnce
  BY DEF OnceInv, Once, AnsweredAtMostOnce, Responses
<1> QED BY OnceInit, OnceStep, <1>1, PTL DEF Spec

-----------------------------------------------------------------------------
(* The refinement: every step of the daemon is a step of the abstract      *)
(* multiplexer under the mapping of Broker, or changes nothing of it.      *)

Over == {c \in Clients : h[c].pc = "gone"}

(* What an abstract step does, in the daemon's variables. *)
LEMMA AbstractAsk ==
  ASSUME NEW c \in Clients, c \notin Over, nextID' = [nextID EXCEPT ![c] = @ + 1],
         \A d \in Clients : AnswersTo(d)' = AnswersTo(d), Over' = Over
  PROVE  Broker!BrokerNext
<1>1. Broker!Ask(c)
  BY DEF Broker!Ask, Over
<1> QED BY <1>1 DEF Broker!BrokerNext

LEMMA AbstractEnd ==
  ASSUME NEW c \in Clients, nextID' = nextID,
         \A d \in Clients : AnswersTo(d)' = AnswersTo(d), Over' = Over \cup {c}
  PROVE  Broker!BrokerNext
<1>1. Broker!End(c)
  BY DEF Broker!End, Over
<1> QED BY <1>1 DEF Broker!BrokerNext

LEMMA AbstractReply ==
  ASSUME NEW c \in Clients, c \notin Over, NEW k \in 1 .. nextID[c], NEW d \in Clients, NEW n,
         (d = c /\ n = k) \/ (k = InitID /\ n = InitID /\ nextID[d] >= InitID),
         k \notin {a.id : a \in AnswersTo(c)},
         AnswersTo(c)' = AnswersTo(c) \cup {[id |-> k, from |-> d, call |-> n]},
         \A e \in Clients \ {c} : AnswersTo(e)' = AnswersTo(e),
         nextID' = nextID, Over' = Over
  PROVE  Broker!BrokerNext
<1> DEFINE s == <<d, n>>
<1>1. s \in Broker!Sources(c, k)
  BY DEF Broker!Sources
<1>2. s[1] = d /\ s[2] = n
  OBVIOUS
<1> HIDE DEF s
<1>3. Broker!Reply(c, k, s)
  BY <1>1, <1>2 DEF Broker!Reply, Over
<1> QED BY <1>1, <1>3 DEF Broker!BrokerNext

LEMMA AbstractStutter ==
  ASSUME nextID' = nextID, \A c \in Clients : AnswersTo(c)' = AnswersTo(c), Over' = Over
  PROVE  UNCHANGED Broker!bvars
BY DEF Broker!bvars, Over

(* The mapping's state functions. *)
LEMMA SameAnswers ==
  ASSUME NEW c, inbox'[c] = inbox[c]
  PROVE  AnswersTo(c)' = AnswersTo(c)
BY DEF AnswersTo, Responses, IsResponse

LEMMA NewAnswer ==
  ASSUME TypeOK, NEW c \in Clients, NEW m \in Msg, inbox'[c] = Append(inbox[c], m)
  PROVE  AnswersTo(c)' = AnswersTo(c) \cup
           (IF IsResponse(m) THEN {[id |-> m.id, from |-> m.from, call |-> m.call]} ELSE {})
<1> DEFINE s == inbox[c]
           t == inbox'[c]
<1>1. s \in Seq(Msg)
  BY DEF TypeOK
<1>2. DOMAIN t = DOMAIN s \cup {Len(s) + 1} /\ Len(s) + 1 \notin DOMAIN s
  BY <1>1
<1>3. (\A i \in DOMAIN s : t[i] = s[i]) /\ t[Len(s) + 1] = m
  BY <1>1
<1>4. Responses(c)' = Responses(c) \cup (IF IsResponse(m) THEN {Len(s) + 1} ELSE {})
  BY <1>2, <1>3 DEF Responses, IsResponse
<1>5. Responses(c) \subseteq DOMAIN s
  BY DEF Responses
<1> QED BY <1>3, <1>4, <1>5 DEF AnswersTo

LEMMA GotAnswers ==
  ASSUME NEW c
  PROVE  Got(c) = {a.id : a \in AnswersTo(c)}
<1> DEFINE A(i) == [id |-> inbox[c][i].id, from |-> inbox[c][i].from, call |-> inbox[c][i].call]
<1>1. \A i : A(i).id = inbox[c][i].id
  OBVIOUS
<1>2. AnswersTo(c) = {A(i) : i \in Responses(c)}
  BY DEF AnswersTo
<1> HIDE DEF A
<1>3. {a.id : a \in AnswersTo(c)} \subseteq Got(c)
  BY <1>1, <1>2 DEF Got
<1>4. ASSUME NEW i \in Responses(c) PROVE inbox[c][i].id \in {a.id : a \in AnswersTo(c)}
  BY <1>1, <1>2
<1> QED BY <1>3, <1>4 DEF Got

(* A response is written: by the loop, or from the cache. *)
LEMMA WriteIsReply ==
  ASSUME TypeOK, GoneAreClosed, NEW c \in Clients, NEW m \in Msg, WriteToClient(c, m),
         IsResponse(m) => /\ m.id \in 1 .. nextID[c] /\ m.id \notin Got(c) /\ m.from \in Clients
                          /\ \/ m.from = c /\ m.call = m.id
                             \/ m.id = InitID /\ m.call = InitID /\ nextID[m.from] >= InitID,
         nextID' = nextID, Over' = Over
  PROVE  Broker!BrokerNext \/ UNCHANGED Broker!bvars
<1>1. CASE inbox' = inbox
  BY <1>1, SameAnswers, AbstractStutter
<1>2. CASE c \notin closed /\ inbox' = [inbox EXCEPT ![c] = Append(@, m)]
  <2>1. inbox'[c] = Append(inbox[c], m) /\ \A d \in Clients \ {c} : inbox'[d] = inbox[d]
    BY <1>2 DEF TypeOK
  <2>2. \A d \in Clients \ {c} : AnswersTo(d)' = AnswersTo(d)
    BY <2>1, SameAnswers
  <2>3. c \notin Over
    BY <1>2 DEF GoneAreClosed, Over
  <2>4. CASE IsResponse(m)
    <3>1. AnswersTo(c)' = AnswersTo(c) \cup {[id |-> m.id, from |-> m.from, call |-> m.call]}
      BY <2>1, <2>4, NewAnswer
    <3>2. m.id \notin {a.id : a \in AnswersTo(c)}
      BY <2>4, GotAnswers
    <3> QED BY <2>2, <2>3, <2>4, <3>1, <3>2, AbstractReply
  <2>5. CASE ~IsResponse(m)
    <3>1. AnswersTo(c)' = AnswersTo(c)
      BY <2>1, <2>5, NewAnswer
    <3> QED BY <2>2, <3>1, AbstractStutter
  <2> QED BY <2>4, <2>5
<1> QED BY <1>1, <1>2 DEF WriteToClient, Alive

LEMMA HandlerRefines ==
  ASSUME OnceInv, NEW c \in Clients, Handler(c)
  PROVE  Broker!BrokerNext \/ UNCHANGED Broker!bvars
<1>1. TypeOK /\ GoneAreClosed /\ OwnNumbers /\ CacheHoldsInit
  BY DEF OnceInv, RoutingInv
<1>2. nextID' = nextID
  BY HandlerLeavesOwners
<1>3. h[c].pc # "gone" /\ (\A d \in Clients \ {c} : h'[d] = h[d])
      /\ (h'[c].pc = "gone" => HandlerPurge(c))
  BY <1>1, OthersStay DEF Handler, HandlerRead, HandlerRemap, HandlerTrack, HandlerForward,
     HandlerMark, HandlerReply, HandlerEOF, HandlerRemove, HandlerPurge, HandlerAt
<1>4. CASE HandlerPurge(c)
  <2>1. h'[c].pc = "gone" /\ inbox' = inbox
    BY <1>1, <1>4, GoesElsewhere DEF HandlerPurge
  <2>2. Over' = Over \cup {c}
    BY <1>3, <2>1 DEF Over
  <2> QED BY <1>2, <2>1, <2>2, SameAnswers, AbstractEnd
<1>5. CASE ~HandlerPurge(c)
  <2>1. Over' = Over
    BY <1>3, <1>5 DEF Over
  <2>2. CASE HandlerReply(c) /\ initResponse # NoMsg
    <3> DEFINE r == WithID(initResponse, h[c].msg.id)
    <3>1. h[c].pc = "reply" /\ WriteToClient(c, r)
      BY <2>2 DEF HandlerReply, HandlerAt
    <3>2. h[c].msg.id = InitID /\ InitID \in 1 .. nextID[c] /\ h[c].msg \in Msg
      BY <1>1, <3>1 DEF OwnNumbers, Numbered, TypeOK
    <3>3. r \in Msg /\ r.id = InitID /\ r.call = initResponse.call /\ r.from = initResponse.from
      BY <1>1, <3>2, WithIDType DEF WithID, TypeOK, InitID
    <3>4. r.call = InitID /\ Began(r.from)
      BY <1>1, <2>2, <3>3 DEF CacheHoldsInit
    <3>5. r.id \notin Got(c)
      <4>1. r.id \in InHand(c)
        BY <3>1, <3>2, <3>3 DEF InHand
      <4>2. InHand(c) \cap Got(c) = {}
        BY DEF OnceInv, InLine, Line
      <4> QED BY <4>1, <4>2
    <3>6. r.from \in Clients /\ nextID[r.from] >= InitID
      BY <1>1, <3>4 DEF Began, TypeOK, InitID
    <3> HIDE DEF r
    <3> QED BY <1>1, <1>2, <2>1, <3>1, <3>2, <3>3, <3>4, <3>5, <3>6, WriteIsReply
  <2>3. CASE ~(HandlerReply(c) /\ initResponse # NoMsg)
    <3>1. inbox' = inbox
      BY <2>3 DEF Handler, HandlerRead, HandlerRemap, HandlerTrack, HandlerForward, HandlerMark,
                  HandlerReply, HandlerEOF, HandlerRemove, HandlerPurge
    <3> QED BY <1>2, <2>1, <3>1, SameAnswers, AbstractStutter
  <2> QED BY <2>2, <2>3
<1> QED BY <1>4, <1>5

LEMMA OwnerRefines ==
  ASSUME OnceInv, NEW c \in Clients, Client(c)
  PROVE  Broker!BrokerNext \/ UNCHANGED Broker!bvars
<1>1. h' = h /\ inbox' = inbox
  BY DEF Client, Dial, ClientInitialize, ClientCall, ClientShutdown, ClientRead, ClientClose,
         Asks, daemonVars
<1>2. Over' = Over /\ \A d \in Clients : AnswersTo(d)' = AnswersTo(d)
  BY <1>1, SameAnswers DEF Over
<1>3. CASE ClientInitialize(c) \/ ClientCall(c) \/ ClientShutdown(c)
  <2>1. c \notin closed /\ nextID' = [nextID EXCEPT ![c] = @ + 1]
    BY <1>3 DEF ClientInitialize, ClientCall, ClientShutdown, Asks
  <2>2. c \notin Over
    BY <2>1 DEF OnceInv, GoneAreClosed, Over
  <2> QED BY <1>2, <2>1, <2>2, AbstractAsk
<1>4. CASE Dial(c) \/ ClientRead(c) \/ ClientClose(c)
  <2>1. nextID' = nextID
    BY <1>4 DEF Dial, ClientRead, ClientClose
  <2> QED BY <1>2, <2>1, AbstractStutter
<1> QED BY <1>3, <1>4 DEF Client

LEMMA ServerSideRefines ==
  ASSUME OnceInv, ServerReadLoop \/ AcceptLoop \/ LanguageServer \/ Reap \/ Environment
  PROVE  Broker!BrokerNext \/ UNCHANGED Broker!bvars
<1>1. TypeOK /\ GoneAreClosed /\ DeliversOwn /\ NotHandler /\ [Next]_vars
  BY DEF OnceInv, RoutingInv, NotHandler, Next
<1>2. nextID' = nextID
  BY ServerSideLeavesOwners
<1>3. Over' = Over
  <2>1. ASSUME NEW d \in Waiting, h' = [h EXCEPT ![d] = AtRead],
               NEW c \in Clients
        PROVE  (h'[c].pc = "gone") <=> (h[c].pc = "gone")
    BY <1>1, <2>1 DEF TypeOK, AtRead, At, Waiting
  <2> QED BY <1>1, <2>1, ElsewhereHandlers DEF Over
<1>4. CASE LoopDeliver
  <2>1. PICK c \in rl.to : WriteToClient(c, rl.msg)
    BY <1>4 DEF LoopDeliver
  <2>2. rl.pc = "deliver" /\ c \in Clients /\ rl.msg \in Msg
    BY <1>1, <1>4 DEF LoopDeliver, LoopAt, TypeOK
  <2>3. ASSUME IsResponse(rl.msg)
        PROVE  /\ rl.msg.id \in 1 .. nextID[c] /\ rl.msg.id \notin Got(c)
               /\ rl.msg.from = c /\ rl.msg.call = rl.msg.id
    <3>1. Issued(c, rl.msg)
      BY <1>1, <2>1, <2>2, <2>3 DEF DeliversOwn
    <3>2. rl.msg.id \in OnItsWay(c)
      BY <2>1, <2>2, <2>3 DEF OnItsWay
    <3>3. OnItsWay(c) \cap Got(c) = {}
      BY <2>2 DEF OnceInv, InLine, Line
    <3> QED BY <3>1, <3>2, <3>3 DEF Issued
  <2> QED BY <1>1, <1>2, <1>3, <2>1, <2>2, <2>3, WriteIsReply
<1>5. CASE ~LoopDeliver
  <2>1. inbox' = inbox
    BY <1>5 DEF ServerReadLoop, LoopRead, LoopCheckCache, LoopStoreCache, RouteResponse,
       RouteServerRequest, RejectServerRequest, BroadcastToClients,
       AcceptLoop, IdleStop, ServerExited, Accept, ShutdownAnswered, ShutdownTimeout,
       ExitObserved, ExitTimeout, Cleanup, ProcessExit, LanguageServer, LSInitialize,
       LSInitialized, LSTakeRequest, LSAnswer, LSShutdown, LSIgnore, LSExit, Reap,
       Environment, LSNotify, LSRequest, LSSends, LSCrash, TimePasses, proxyVars
  <2> QED BY <1>2, <1>3, <2>1, SameAnswers, AbstractStutter
<1> QED BY <1>4, <1>5

(* With its ids, its table, its cache and its goroutines the daemon does   *)
(* nothing the abstract multiplexer would not: an answer is given once,    *)
(* while the connection lasts, to a request its owner issued, and it is    *)
(* the server's answer to that request or to some session's initialize.    *)
THEOREM BrokerImplemented == Spec => ImplementsBroker
<1>1. Init => Broker!BrokerInit
  BY DEF Init, Broker!BrokerInit, AnswersTo, Responses, At
<1>2. OnceInv /\ [Next]_vars => [Broker!BrokerNext]_(Broker!bvars)
  <2> SUFFICES ASSUME OnceInv, [Next]_vars
               PROVE  Broker!BrokerNext \/ UNCHANGED Broker!bvars
    OBVIOUS
  <2>1. CASE UNCHANGED vars
    BY <2>1, SameAnswers, AbstractStutter DEF vars, Over
  <2> QED BY <2>1, HandlerRefines, OwnerRefines, ServerSideRefines DEF Next
<1> QED BY OnceInit, OnceStep, <1>1, <1>2, PTL DEF Spec, ImplementsBroker, Broker!BrokerSpec

-----------------------------------------------------------------------------
(* The handshake, when no connection begins one before the first has       *)
(* completed (~Overlap).  The inductive invariant says, place by place,    *)
(* where the one initialize and the one initialized are, and that what     *)
(* follows a response to initialize follows its caching.                   *)

Has(s, kind)  == \E m \in In(s) : m.kind = kind
Sole(s, kind) == \A i, j \in DOMAIN s : s[i].kind = kind /\ s[j].kind = kind => i = j

(* A session's first request is its initialize, and no other is. *)
Honest(m) ==
  /\ m.kind = "initialize" => m.from \in Sessions /\ m.call = InitID
  /\ m.kind \in {"request", "shutdown"} => m.from \notin Sessions \/ m.call # InitID

(* m answers a session's initialize. *)
Welcome(m) == IsResponse(m) /\ m.from \in Sessions /\ m.call = InitID
Tracked(m) == initReqID # 0 /\ m.id = initReqID
Won(m)     == Tracked(m) /\ m.ok /\ inits = 1

OwnerOK(c) ==
  /\ nextID[c] = 0 => up[c] = <<>>
  /\ cl[c] \in {"initializing", "ready", "stopping"} => nextID[c] >= 1
  /\ cl[c] = "initializing" =>
       c \in Sessions /\ nextID[c] = 1 /\ ~Has(up[c], "initialized")
  /\ Sole(up[c], "initialized") /\ \A m \in In(up[c]) : Honest(m)
  /\ Has(up[c], "initialized") => initPhase >= 1

HandOK(c) ==
  /\ Honest(h[c].msg)
  /\ h[c].pc = "track" => h[c].msg.kind = "initialize"
  /\ h[c].pc = "mark" => h[c].msg.kind = "initialized"
  /\ h[c].pc = "forward" /\ h[c].msg.kind = "initialize" => Tracked(h[c].msg)
  /\ h[c].msg.kind = "initialized" => initPhase >= 1
  /\ h[c].pc = "reply" => initPhase >= 1

PipesOK ==
  /\ \A m \in In(stdin) : Honest(m) /\ (m.kind = "initialize" => Tracked(m))
  /\ \A m \in working : Honest(m) /\ m.kind = "request"
  /\ \A m \in In(stdout) : Welcome(m) => Won(m)

LoopOK ==
  /\ rl.pc \in {"cache", "store", "route"} /\ Welcome(rl.msg) => Won(rl.msg)
  /\ rl.pc = "store" => initPhase = 0 /\ Welcome(rl.msg)
  /\ rl.pc \in {"route", "deliver"} /\ Welcome(rl.msg) => initPhase >= 1 /\ rl.msg.ok

CacheOK ==
  /\ initPhase >= 1 <=> initResponse # NoMsg
  /\ initResponse # NoMsg => initResponse.ok
  /\ initReqID # 0 => \E c \in Sessions : nextID[c] >= 1

InboxOK(c) ==
  c \in Sessions =>
    \A i \in Responses(c) : inbox[c][i].id = InitID => inbox[c][i].ok /\ initPhase >= 1

(* Until phase 2 one connection at most has sent anything. *)
OneBegins ==
  initPhase # 2 => \A c, d \in Clients : nextID[c] >= 1 /\ nextID[d] >= 1 => c = d

(* The handlers that have read a message of this kind and not written it   *)
(* to the server; taken counts those the server has received.              *)
Carriers(kind) ==
  {c \in Clients : h[c].pc \in {"remap", "track", "forward"} /\ h[c].msg.kind = kind}
Marking == \E c \in Clients : h[c].pc = "mark"

Unsent(kind, taken) == Carriers(kind) = {} /\ ~Has(stdin, kind) /\ taken = 0
Single(kind, taken) ==
  /\ taken \in 0 .. 1
  /\ Sole(stdin, kind) /\ \A c, d \in Carriers(kind) : c = d
  /\ Carriers(kind) # {} => ~Has(stdin, kind)
  /\ Carriers(kind) # {} \/ Has(stdin, kind) => taken = 0

(* Neither is sent to the server again: while one of the kind could still  *)
(* be forwarded that an owner has sent or is about to, none was before.    *)
SentOnce ==
  /\ Single("initialize", inits) /\ Single("initialized", initeds)
  /\ initPhase = 0 => \A c \in Clients : Has(up[c], "initialize") => Unsent("initialize", inits)
  /\ initPhase # 2 => \A c \in Clients :
       cl[c] = "initializing" \/ Has(up[c], "initialized") =>
         Unsent("initialized", initeds) /\ ~Marking
  /\ (\A c \in Clients : nextID[c] = 0) =>
       Unsent("initialize", inits) /\ Unsent("initialized", initeds) /\ ~Marking

HandshakeInv ==
  /\ OnceInv
  /\ \A c \in Clients : OwnerOK(c) /\ HandOK(c) /\ InboxOK(c)
  /\ PipesOK /\ LoopOK /\ CacheOK /\ OneBegins /\ SentOnce

-----------------------------------------------------------------------------
(* Messages of a kind in a sequence.                                       *)

LEMMA HasAppend ==
  ASSUME NEW s \in Seq(Msg), NEW m \in Msg, NEW kind
  PROVE  Has(Append(s, m), kind) <=> Has(s, kind) \/ m.kind = kind
BY InAppend DEF Has

LEMMA HasTail ==
  ASSUME NEW s \in Seq(Msg), s # <<>>, NEW kind
  PROVE  Has(Tail(s), kind) => Has(s, kind)
BY InTail DEF Has

LEMMA SoleAppend ==
  ASSUME NEW s \in Seq(Msg), NEW m \in Msg, NEW kind, Sole(s, kind),
         m.kind = kind => ~Has(s, kind)
  PROVE  Sole(Append(s, m), kind)
<1> DEFINE t == Append(s, m)
<1>1. /\ \A i \in DOMAIN t : i \in DOMAIN s \/ i = Len(s) + 1
      /\ \A i \in DOMAIN s : t[i] = s[i]
      /\ t[Len(s) + 1] = m
  OBVIOUS
<1> HIDE DEF t
<1> SUFFICES ASSUME NEW i \in DOMAIN t, NEW j \in DOMAIN t, t[i].kind = kind, t[j].kind = kind
             PROVE  i = j
  BY DEF Sole, t
<1>2. CASE i \in DOMAIN s /\ j \in DOMAIN s
  BY <1>1, <1>2 DEF Sole
<1>3. CASE i = Len(s) + 1 /\ j = Len(s) + 1
  BY <1>3
<1>4. CASE i \in DOMAIN s /\ j = Len(s) + 1
  BY <1>1, <1>4 DEF Has, In
<1>5. CASE i = Len(s) + 1 /\ j \in DOMAIN s
  BY <1>1, <1>5 DEF Has, In
<1> QED BY <1>1, <1>2, <1>3, <1>4, <1>5

LEMMA SoleTail ==
  ASSUME NEW s \in Seq(Msg), s # <<>>, NEW kind, Sole(s, kind)
  PROVE  Sole(Tail(s), kind) /\ (Head(s).kind = kind => ~Has(Tail(s), kind))
<1>1. /\ 1 \in DOMAIN s /\ Head(s) = s[1]
      /\ \A i \in DOMAIN Tail(s) : i \in Nat /\ i + 1 # 1 /\ i + 1 \in DOMAIN s /\ Tail(s)[i] = s[i + 1]
  OBVIOUS
<1>2. \A i, j \in DOMAIN Tail(s) : i + 1 = j + 1 => i = j
  BY <1>1
<1> QED BY <1>1, <1>2 DEF Sole, Has, In

(* A connection's bytes hold one initialize at most. *)
LEMMA InitializeOnce ==
  ASSUME OnceInv, NEW c \in Clients, up[c] # <<>>, Head(up[c]).kind = "initialize"
  PROVE  ~Has(Tail(up[c]), "initialize")
<1>1. up[c] \in Seq(Msg) /\ Ordered(up[c]) /\ Head(up[c]) \in In(up[c]) /\ In(Tail(up[c])) \subseteq In(up[c])
  BY InTail DEF OnceInv, RoutingInv, TypeOK
<1> SUFFICES ASSUME NEW m \in In(Tail(up[c])), m.kind = "initialize" PROVE FALSE
  BY DEF Has
<1>2. IsRequest(m) /\ IsRequest(Head(up[c]))
  BY DEF IsRequest
<1>3. m.id = InitID /\ Head(up[c]).id = InitID
  BY <1>1, <1>2 DEF OnceInv, RoutingInv, OwnNumbers, Numbered
<1>4. Head(up[c]).id < m.id
  BY <1>1, <1>2, OrderedTail
<1> QED BY <1>3, <1>4 DEF InitID

(* What its owner has not sent, or not begun, a connection does not hold.  *)
LEMMA SilentBegin ==
  ASSUME HandshakeInv, NEW c \in Clients, nextID[c] = 0
  PROVE  /\ up[c] = <<>> /\ cl[c] \notin {"initializing", "ready", "stopping"}
         /\ \A kind : ~Has(up[c], kind)
BY DEF HandshakeInv, OwnerOK, Has, In

-----------------------------------------------------------------------------
(* A step by which nothing of the handshake moves towards the server.      *)

LEMMA FewerSent ==
  ASSUME TypeOK, [Next]_vars, SentOnce, inits' = inits, initeds' = initeds,
         \A kind \in {"initialize", "initialized"} :
           /\ Carriers(kind)' \subseteq Carriers(kind)
           /\ Has(stdin', kind) => Has(stdin, kind)
           /\ Sole(stdin, kind) => Sole(stdin', kind),
         \A c \in Clients :
           /\ \A kind \in {"initialize", "initialized"} : Has(up'[c], kind) => Has(up[c], kind)
           /\ cl'[c] = "initializing" => cl[c] = "initializing",
         Marking' => Marking,
         initPhase' = 0 => initPhase = 0, initPhase' # 2 => initPhase # 2
  PROVE  SentOnce'
<1>1. \A c \in Clients : nextID'[c] = 0 => nextID[c] = 0
  <2>1. \A c \in Clients : nextID[c] \in Nat /\ nextID'[c] \in Nat /\ nextID[c] <= nextID'[c]
    BY NumbersGrow
  <2> QED BY <2>1
<1>2. ASSUME NEW kind \in {"initialize", "initialized"}, NEW n, Single(kind, n)
      PROVE  Single(kind, n)' 
  BY <1>2 DEF Single
<1>3. ASSUME NEW kind \in {"initialize", "initialized"}, NEW n, Unsent(kind, n)
      PROVE  Unsent(kind, n)'
  BY <1>3 DEF Unsent
<1>4. Single("initialize", inits)' /\ Single("initialized", initeds)'
  BY <1>2 DEF SentOnce
<1>5. Unsent("initialize", inits) => Unsent("initialize", inits)'
  BY <1>3
<1>6. Unsent("initialized", initeds) => Unsent("initialized", initeds)'
  BY <1>3
<1> QED BY <1>1, <1>4, <1>5, <1>6 DEF SentOnce

-----------------------------------------------------------------------------
(* The handlers.                                                           *)

LEMMA CarriersElsewhere ==
  ASSUME NEW c \in Clients, \A d \in Clients \ {c} : h'[d] = h[d], NEW kind,
         h'[c].pc \in {"remap", "track", "forward"} /\ h'[c].msg.kind = kind =>
           c \in Carriers(kind)
  PROVE  Carriers(kind)' \subseteq Carriers(kind)
BY DEF Carriers

(* A handler's step that neither reads nor writes to the server, nor       *)
(* tracks an id. *)
LEMMA HandlerKeeps ==
  ASSUME HandshakeInv, OnceInv', NEW c \in Clients, Handler(c), ~HandlerRead(c),
         UNCHANGED <<initReqID, initResponse, stdin>>,
         h'[c].pc \in {"remap", "track", "forward"} =>
           h[c].pc \in {"remap", "track", "forward"} /\ h'[c].msg.kind = h[c].msg.kind,
         h'[c].pc # "mark", HandOK(c)',
         initPhase' = initPhase \/ (initPhase' = 2 /\ initPhase >= 1),
         \A d \in Clients : InboxOK(d)'
  PROVE  HandshakeInv'
<1>a. TypeOK /\ [Next]_vars /\ initPhase \in 0 .. 2
  BY DEF HandshakeInv, OnceInv, RoutingInv, TypeOK, Next
<1>1. /\ \A d \in Clients \ {c} : h'[d] = h[d]
      /\ cl' = cl /\ nextID' = nextID /\ up' = up
  BY <1>a, OthersStay, HandlerLeavesOwners
<1>2. UNCHANGED <<rl, stdout, working, inits, initeds>>
  BY DEF Handler, HandlerRead, HandlerRemap, HandlerTrack, HandlerForward, HandlerMark,
         HandlerReply, HandlerEOF, HandlerRemove, HandlerPurge, serverVars
<1>3. ASSUME NEW d \in Clients PROVE HandOK(d)'
  <2>1. CASE d # c
    BY <1>a, <1>1, <2>1 DEF HandshakeInv, HandOK, Tracked, Honest
  <2> QED BY <2>1
<1>4. ASSUME NEW d \in Clients PROVE OwnerOK(d)'
  BY <1>a, <1>1 DEF HandshakeInv, OwnerOK, Honest, Sole, Has
<1>5. PipesOK'
  BY <1>2 DEF HandshakeInv, PipesOK, Honest, Tracked, Welcome, Won, IsResponse
<1>6. LoopOK'
  BY <1>a, <1>2 DEF HandshakeInv, LoopOK, Tracked, Welcome, Won, IsResponse
<1>7. CacheOK' /\ OneBegins'
  BY <1>a, <1>1 DEF HandshakeInv, CacheOK, OneBegins
<1>8. SentOnce'
  <2>1. \A kind : Carriers(kind)' \subseteq Carriers(kind)
    BY <1>1, CarriersElsewhere DEF Carriers
  <2>2. Marking' => Marking
    BY <1>1 DEF Marking
  <2>3. SentOnce
    BY DEF HandshakeInv
  <2> QED BY <1>a, <1>1, <1>2, <2>1, <2>2, <2>3, FewerSent
<1> QED BY <1>3, <1>4, <1>5, <1>6, <1>7, <1>8 DEF HandshakeInv

LEMMA InboxStays ==
  ASSUME NEW d \in Clients, InboxOK(d), inbox'[d] = inbox[d], initPhase >= 1 => initPhase' >= 1
  PROVE  InboxOK(d)'
BY DEF InboxOK, Responses, IsResponse

(* A message written to a connection. *)
LEMMA InboxWritten ==
  ASSUME TypeOK, NEW c \in Clients, NEW m \in Msg, WriteToClient(c, m),
         \A d \in Clients : InboxOK(d), initPhase' = initPhase,
         c \in Sessions /\ IsResponse(m) /\ m.id = InitID => m.ok /\ initPhase >= 1
  PROVE  \A d \in Clients : InboxOK(d)'
<1> SUFFICES ASSUME NEW d \in Clients PROVE InboxOK(d)'
  OBVIOUS
<1>1. CASE d # c
  BY <1>1, WriteGot, InboxStays
<1>2. CASE d = c
  <2>1. \A i \in DOMAIN inbox'[c] :
          (i \in DOMAIN inbox[c] /\ inbox'[c][i] = inbox[c][i]) \/ inbox'[c][i] = m
    BY WriteAppends
  <2> QED BY <1>2, <2>1 DEF InboxOK, Responses, IsResponse
<1> QED BY <1>1, <1>2

LEMMA HandlerReadHandshake ==
  ASSUME HandshakeInv, OnceInv', NEW c \in Clients, HandlerRead(c)
  PROVE  HandshakeInv'
<1> DEFINE m == Head(up[c])
           pc == Dispatch(m, initPhase)
<1>a. /\ TypeOK /\ OnceInv /\ initPhase \in 0 .. 2 /\ Handler(c)
      /\ \A d \in Clients : HandOK(d) /\ OwnerOK(d) /\ InboxOK(d)
      /\ CacheOK /\ SentOnce /\ PipesOK /\ LoopOK /\ OneBegins
      /\ h \in [Clients -> [pc : HandlerPCs, msg : Msg]] /\ up \in [Clients -> Seq(Msg)]
  BY DEF HandshakeInv, OnceInv, RoutingInv, TypeOK, Handler
<1>b. [Next]_vars /\ NoMsg.kind = "notify"
  BY <1>a DEF Next, NoMsg, Notification, Message
<1>1. /\ up[c] # <<>> /\ up' = [up EXCEPT ![c] = Tail(@)] /\ h[c].pc = "read"
      /\ h' = [h EXCEPT ![c] = IF pc = "read" THEN AtRead ELSE [pc |-> pc, msg |-> m]]
      /\ UNCHANGED <<cl, nextID, inbox, rl, initPhase, initReqID, initResponse, stdin,
                     stdout, working, inits, initeds>>
  BY DEF HandlerRead, HandlerAt, initVars, serverVars
<1>2. /\ up[c] \in Seq(Msg) /\ m \in In(up[c]) /\ m \in Msg /\ up'[c] = Tail(up[c])
      /\ In(up'[c]) \subseteq In(up[c]) /\ \A d \in Clients \ {c} : up'[d] = up[d] /\ h'[d] = h[d]
      /\ \A kind : Has(up'[c], kind) => Has(up[c], kind)
  BY <1>a, <1>1, InTail, HasTail
<1>3. /\ nextID[c] >= 1 /\ Honest(m)
      /\ m.kind = "initialized" => initPhase >= 1
  <2>1. nextID[c] \in Nat /\ nextID[c] # 0
    BY <1>1, <1>a DEF OwnerOK, TypeOK
  <2> QED BY <1>2, <1>a, <2>1 DEF OwnerOK, Has
<1>4. /\ pc \in {"read", "reply", "remap", "forward"}
      /\ pc = "reply" => initPhase >= 1
      /\ pc = "forward" => m.kind # "initialize"
      /\ m.kind = "initialize" /\ pc # "reply" => initPhase = 0
      /\ m.kind = "initialized" /\ pc # "read" => initPhase # 2
  BY <1>a DEF Dispatch, IsRequest
<1>5. h'[c] = IF pc = "read" THEN [pc |-> "read", msg |-> NoMsg] ELSE [pc |-> pc, msg |-> m]
  BY <1>a, <1>1 DEF AtRead, At
<1> HIDE DEF m, pc
<1>6. HandOK(c)'
  BY <1>b, <1>1, <1>3, <1>4, <1>5 DEF HandOK, Honest
<1>7. ASSUME NEW d \in Clients PROVE HandOK(d)' /\ InboxOK(d)'
  <2>1. HandOK(d)'
    <3>1. CASE d # c
      BY <1>a, <1>1, <1>2, <3>1 DEF HandOK, Tracked, Honest
    <3> QED BY <1>6, <3>1
  <2> QED BY <2>1, <1>a, <1>1, InboxStays
<1>8. ASSUME NEW d \in Clients PROVE OwnerOK(d)'
  <2>1. CASE d # c
    BY <1>a, <1>1, <1>2, <2>1 DEF OwnerOK, Honest, Sole, Has
  <2>2. CASE d = c
    <3>1. Sole(up'[c], "initialized")
      BY <1>a, <1>1, <1>2, SoleTail DEF OwnerOK
    <3>2. \A n \in In(up'[c]) : Honest(n)'
      BY <1>a, <1>2 DEF OwnerOK, Honest
    <3> QED BY <1>a, <1>1, <1>2, <1>3, <2>2, <3>1, <3>2 DEF OwnerOK
  <2> QED BY <2>1, <2>2
<1>9. PipesOK' /\ LoopOK' /\ CacheOK' /\ OneBegins'
  BY <1>a, <1>1 DEF PipesOK, LoopOK, CacheOK, OneBegins, Honest, Tracked, Welcome, Won, IsResponse
<1>10. SentOnce'
  <2>1. Marking' => Marking
    BY <1>2, <1>4, <1>5 DEF Marking
  <2>2. \A kind : m.kind # kind \/ pc \in {"read", "reply"} => Carriers(kind)' \subseteq Carriers(kind)
    BY <1>2, <1>4, <1>5, CarriersElsewhere
  <2>3. \A kind : Carriers(kind)' \subseteq Carriers(kind) \cup {c}
    BY <1>2 DEF Carriers
  <2>4. ASSUME m.kind \notin {"initialize", "initialized"} \/ pc \in {"read", "reply"} PROVE SentOnce'
    <3>1. \A kind \in {"initialize", "initialized"} : Carriers(kind)' \subseteq Carriers(kind)
      BY <2>2, <2>4
    <3>2. \A d \in Clients : \A kind : Has(up'[d], kind) => Has(up[d], kind)
      BY <1>2
    <3> QED BY <1>a, <1>b, <1>1, <2>1, <3>1, <3>2, FewerSent
  <2>5. ASSUME NEW d \in Clients, d # c, initPhase # 2
        PROVE  cl'[d] # "initializing" /\ \A kind : ~Has(up'[d], kind)
    <3>1. nextID[d] = 0
      BY <1>a, <1>3, <2>5 DEF OneBegins, TypeOK
    <3> QED BY <1>1, <1>2, <2>5, <3>1, SilentBegin
  <2>6. CASE m.kind = "initialize" /\ pc \notin {"read", "reply"}
    <3>1. initPhase = 0 /\ Unsent("initialize", inits)
      BY <1>2, <1>4, <1>a, <2>6 DEF SentOnce, Has
    <3>2. \A d \in Clients : ~Has(up'[d], "initialize")
      BY <1>1, <1>2, <1>a, <2>5, <2>6, <3>1, InitializeOnce DEF m
    <3>3. Carriers("initialize")' \subseteq {c}
      BY <2>3, <3>1 DEF Unsent
    <3>4. Carriers("initialized")' \subseteq Carriers("initialized")
      BY <2>2, <2>6
    <3>5. Single("initialize", inits)'
      BY <1>1, <1>a, <3>1, <3>3 DEF Unsent, Single, SentOnce
    <3>6. Single("initialized", initeds)'
      BY <1>1, <1>a, <3>4 DEF Single, SentOnce
    <3>7. Unsent("initialized", initeds) => Unsent("initialized", initeds)'
      BY <1>1, <3>4 DEF Unsent
    <3> QED BY <1>1, <1>2, <1>3, <1>a, <2>1, <3>2, <3>5, <3>6, <3>7 DEF SentOnce
  <2>7. CASE m.kind = "initialized" /\ pc \notin {"read", "reply"}
    <3>1. initPhase # 2 /\ initPhase # 0 /\ Unsent("initialized", initeds) /\ ~Marking
      BY <1>2, <1>3, <1>4, <1>a, <2>7 DEF SentOnce, Has
    <3>2. ~Has(up'[c], "initialized") /\ cl'[c] # "initializing"
      BY <1>1, <1>2, <1>a, <2>7, SoleTail DEF m, OwnerOK, Has
    <3>3. Carriers("initialized")' \subseteq {c}
      BY <2>3, <3>1 DEF Unsent
    <3>4. Carriers("initialize")' \subseteq Carriers("initialize")
      BY <2>2, <2>7
    <3>5. Single("initialized", initeds)'
      BY <1>1, <1>a, <3>1, <3>3 DEF Unsent, Single, SentOnce
    <3>6. Single("initialize", inits)'
      BY <1>1, <1>a, <3>4 DEF Single, SentOnce
    <3> QED BY <1>1, <1>3, <2>5, <3>1, <3>2, <3>5, <3>6 DEF SentOnce
  <2> QED BY <2>4, <2>6, <2>7
<1> QED BY <1>7, <1>8, <1>9, <1>10 DEF HandshakeInv

LEMMA HandlerTrackHandshake ==
  ASSUME HandshakeInv, OnceInv', NEW c \in Clients, HandlerTrack(c)
  PROVE  HandshakeInv'
<1>a. /\ TypeOK /\ OnceInv /\ initPhase \in 0 .. 2 /\ Handler(c) /\ HandOK(c)
      /\ \A d \in Clients : HandOK(d) /\ OwnerOK(d) /\ InboxOK(d)
      /\ CacheOK /\ SentOnce /\ PipesOK /\ LoopOK /\ OneBegins
      /\ h \in [Clients -> [pc : HandlerPCs, msg : Msg]]
  BY DEF HandshakeInv, OnceInv, RoutingInv, TypeOK, Handler
<1>b. [Next]_vars
  BY <1>a DEF Next
<1>1. /\ h[c].pc = "track" /\ initReqID' = h[c].msg.id /\ HandlerGoes(c, "forward")
      /\ UNCHANGED <<cl, nextID, up, inbox, rl, initPhase, initResponse, stdin,
                     stdout, working, inits, initeds>>
  BY DEF HandlerTrack, HandlerAt, clientVars, serverVars
<1>2. /\ h'[c] = [pc |-> "forward", msg |-> h[c].msg] /\ \A d \in Clients \ {c} : h'[d] = h[d]
  BY <1>a, <1>1 DEF HandlerGoes
<1>3. h[c].msg.kind = "initialize" /\ h[c].msg.id # 0
  BY <1>a, <1>1 DEF HandOK, OnceInv, RoutingInv, CacheHoldsInit
<1>4. /\ \A d \in Carriers("initialize") : d = c
      /\ ~Has(stdin, "initialize") /\ inits = 0
  <2>1. c \in Carriers("initialize")
    BY <1>1, <1>3 DEF Carriers
  <2> QED BY <1>a, <2>1 DEF SentOnce, Single
<1>5. \E d \in Sessions : nextID[d] >= 1
  <2>1. h[c].msg.from \in Sessions /\ h[c].msg.from \in Clients
    BY <1>a, <1>3 DEF HandOK, Honest, Clients
  <2>2. IsRequest(h[c].msg) /\ h[c].msg.id # DaemonShutdownID
    BY <1>3 DEF IsRequest, DaemonShutdownID
  <2>3. PICK f \in Tables : Attributed(f)
    BY <1>a DEF OnceInv, RoutingInv
  <2>4. Tagged(f, h[c].msg)
    BY <1>1, <2>2, <2>3 DEF Attributed, ForwardedIn
  <2>5. f[h[c].msg.id].id \in 1 .. nextID[h[c].msg.from]
    BY <2>2, <2>3, <2>4 DEF Tagged, Attributed, IssuedIn
  <2>6. nextID[h[c].msg.from] \in Nat
    BY <1>a, <2>1 DEF TypeOK
  <2>7. \A k \in Nat : \A n \in 1 .. k : k >= 1
    OBVIOUS
  <2> QED BY <2>1, <2>5, <2>6, <2>7
<1>6. ASSUME NEW d \in Clients PROVE HandOK(d)' /\ OwnerOK(d)' /\ InboxOK(d)'
  <2>1. HandOK(d)'
    <3>1. CASE d = c
      BY <1>a, <1>1, <1>2, <1>3, <3>1 DEF HandOK, Honest, Tracked
    <3>2. CASE d # c
      <4>1. ~(h[d].pc = "forward" /\ h[d].msg.kind = "initialize")
        BY <1>4, <3>2 DEF Carriers
      <4> QED BY <1>a, <1>1, <1>2, <3>2, <4>1 DEF HandOK, Honest, Tracked
    <3> QED BY <3>1, <3>2
  <2>2. OwnerOK(d)'
    BY <1>a, <1>1 DEF OwnerOK, Honest, Sole, Has
  <2> QED BY <1>a, <1>1, <2>1, <2>2, InboxStays
<1>7. PipesOK' /\ LoopOK' /\ CacheOK' /\ OneBegins'
  <2>1. PipesOK'
    BY <1>a, <1>1, <1>4 DEF PipesOK, Honest, Welcome, Won, Has, IsResponse
  <2>2. LoopOK'
    BY <1>a, <1>1, <1>4 DEF LoopOK, Welcome, Won, IsResponse
  <2> QED BY <1>a, <1>1, <1>5, <2>1, <2>2 DEF CacheOK, OneBegins
<1>8. SentOnce'
  <2>1. Marking' => Marking
    BY <1>2 DEF Marking
  <2>2. \A kind : Carriers(kind)' \subseteq Carriers(kind)
    BY <1>1, <1>2, CarriersElsewhere DEF Carriers
  <2> QED BY <1>a, <1>b, <1>1, <2>1, <2>2, FewerSent
<1> QED BY <1>6, <1>7, <1>8 DEF HandshakeInv

LEMMA HandlerForwardHandshake ==
  ASSUME HandshakeInv, OnceInv', NEW c \in Clients, HandlerForward(c), ls = "up"
  PROVE  HandshakeInv'
<1> DEFINE m == h[c].msg
<1>a. /\ TypeOK /\ OnceInv /\ initPhase \in 0 .. 2 /\ Handler(c)
      /\ \A d \in Clients : HandOK(d) /\ OwnerOK(d) /\ InboxOK(d)
      /\ CacheOK /\ SentOnce /\ PipesOK /\ LoopOK /\ OneBegins
      /\ h \in [Clients -> [pc : HandlerPCs, msg : Msg]] /\ stdin \in Seq(Msg) /\ m \in Msg
  BY DEF HandshakeInv, OnceInv, RoutingInv, TypeOK, Handler
<1>b. [Next]_vars /\ NoMsg.kind = "notify"
  BY <1>a DEF Next, NoMsg, Notification, Message
<1>1. /\ h[c].pc = "forward" /\ stdin' = Append(stdin, m)
      /\ HandlerGoes(c, IF m.kind = "initialized" THEN "mark" ELSE "read")
      /\ UNCHANGED <<cl, nextID, up, inbox, rl, initVars, stdout, working, inits, initeds>>
  BY DEF HandlerForward, HandlerAt, clientVars, initVars
<1>2. /\ h'[c] = IF m.kind = "initialized" THEN [pc |-> "mark", msg |-> m]
                                           ELSE [pc |-> "read", msg |-> NoMsg]
      /\ \A d \in Clients \ {c} : h'[d] = h[d]
  BY <1>a, <1>1 DEF HandlerGoes
<1>3. /\ In(stdin') = In(stdin) \cup {m}
      /\ \A kind : Has(stdin', kind) <=> Has(stdin, kind) \/ m.kind = kind
  BY <1>a, <1>1, InAppend, HasAppend
<1>4. m.kind \in {"initialize", "initialized"} => c \in Carriers(m.kind)
  BY <1>1 DEF Carriers
<1> HIDE DEF m
<1>5. ASSUME NEW d \in Clients PROVE HandOK(d)' /\ OwnerOK(d)' /\ InboxOK(d)'
  <2>1. HandOK(d)'
    <3>1. CASE d = c
      BY <1>a, <1>b, <1>1, <1>2, <3>1 DEF HandOK, Honest, Tracked, initVars, m
    <3>2. CASE d # c
      BY <1>a, <1>1, <1>2, <3>2 DEF HandOK, Honest, Tracked, initVars
    <3> QED BY <3>1, <3>2
  <2>2. OwnerOK(d)'
    BY <1>a, <1>1 DEF OwnerOK, Honest, Sole, Has, initVars
  <2> QED BY <1>a, <1>1, <2>1, <2>2, InboxStays DEF initVars
<1>6. PipesOK' /\ LoopOK' /\ CacheOK' /\ OneBegins'
  <2>1. Honest(m) /\ (m.kind = "initialize" => Tracked(m))
    BY <1>a, <1>1 DEF HandOK, m
  <2>2. PipesOK'
    BY <1>a, <1>1, <1>3, <2>1 DEF PipesOK, Honest, Tracked, Welcome, Won, IsResponse, initVars
  <2> QED BY <1>a, <1>1, <2>2 DEF LoopOK, CacheOK, OneBegins, Tracked, Welcome, Won, IsResponse, initVars
<1>7. SentOnce'
  <2>1. \A kind : Carriers(kind)' \subseteq Carriers(kind) \ {c}
    BY <1>2 DEF Carriers
  <2>2. ASSUME m.kind \notin {"initialize", "initialized"} PROVE SentOnce'
    <3>1. \A kind \in {"initialize", "initialized"} :
            /\ Has(stdin', kind) => Has(stdin, kind)
            /\ Sole(stdin, kind) => Sole(stdin', kind)
      BY <1>a, <1>1, <1>3, <2>2, SoleAppend
    <3>2. Marking' => Marking
      BY <1>2, <2>2 DEF Marking
    <3> QED BY <1>a, <1>b, <1>1, <2>1, <3>1, <3>2, FewerSent DEF initVars
  <2>3. ASSUME NEW kind \in {"initialize", "initialized"}, m.kind # kind, NEW n
        PROVE  /\ Single(kind, n) => Single(kind, n)'
               /\ Unsent(kind, n) => Unsent(kind, n)'
    <3>1. Sole(stdin, kind) => Sole(stdin', kind)
      BY <1>a, <1>1, <2>3, SoleAppend
    <3> QED BY <1>3, <2>1, <2>3, <3>1 DEF Single, Unsent
  <2>4. ASSUME NEW kind \in {"initialize", "initialized"}, m.kind = kind, NEW n, Single(kind, n)
        PROVE  Single(kind, n)' /\ ~Unsent(kind, n)
    <3>1. c \in Carriers(kind) /\ n = 0 /\ ~Has(stdin, kind)
      BY <1>4, <2>4 DEF Single
    <3>2. Carriers(kind)' = {}
      BY <2>1, <2>4, <3>1 DEF Single
    <3>3. Sole(stdin', kind)
      BY <1>a, <1>1, <2>4, <3>1, SoleAppend DEF Single
    <3> QED BY <2>4, <3>1, <3>2, <3>3 DEF Single, Unsent
  <2>5. CASE m.kind = "initialize"
    <3>1. Single("initialize", inits)' /\ ~Unsent("initialize", inits)
      BY <1>a, <1>1, <2>4, <2>5 DEF SentOnce
    <3>2. Single("initialized", initeds)' /\ (Unsent("initialized", initeds) => Unsent("initialized", initeds)')
      BY <1>a, <1>1, <2>3, <2>5 DEF SentOnce
    <3>3. Marking' => Marking
      BY <1>2, <2>5 DEF Marking
    <3> QED BY <1>a, <1>1, <3>1, <3>2, <3>3 DEF SentOnce, initVars
  <2>6. CASE m.kind = "initialized"
    <3>1. Single("initialized", initeds)' /\ ~Unsent("initialized", initeds)
      BY <1>a, <1>1, <2>4, <2>6 DEF SentOnce
    <3>2. Single("initialize", inits)' /\ (Unsent("initialize", inits) => Unsent("initialize", inits)')
      BY <1>a, <1>1, <2>3, <2>6 DEF SentOnce
    <3> QED BY <1>a, <1>1, <3>1, <3>2 DEF SentOnce, initVars
  <2> QED BY <2>2, <2>5, <2>6
<1> QED BY <1>5, <1>6, <1>7 DEF HandshakeInv

LEMMA HandlerHandshake ==
  ASSUME HandshakeInv, OnceInv', NEW c \in Clients, Handler(c)
  PROVE  HandshakeInv'
<1>a. /\ TypeOK /\ [Next]_vars /\ initPhase \in 0 .. 2
      /\ HandOK(c) /\ OwnerOK(c) /\ CacheOK /\ SentOnce /\ PipesOK /\ LoopOK
      /\ \A d \in Clients : InboxOK(d)
      /\ h \in [Clients -> [pc : HandlerPCs, msg : Msg]]
  BY DEF HandshakeInv, OnceInv, RoutingInv, TypeOK, Next
<1>b. NoMsg.kind = "notify"
  BY DEF NoMsg, Notification, Message
<1>1. CASE HandlerRemap(c)
  <2>1. /\ h' = [h EXCEPT ![c] = [pc |-> IF h[c].msg.kind = "initialize" THEN "track" ELSE "forward",
                                  msg |-> WithID(h[c].msg, nextReqID')]]
        /\ h[c].pc = "remap" /\ inbox' = inbox
        /\ UNCHANGED <<initPhase, initReqID, initResponse, stdin>>
    BY <1>1 DEF HandlerRemap, HandlerAt, initVars, serverVars
  <2>2. /\ h'[c].msg.kind = h[c].msg.kind /\ h'[c].msg.from = h[c].msg.from /\ h'[c].msg.call = h[c].msg.call
        /\ h'[c].pc = IF h[c].msg.kind = "initialize" THEN "track" ELSE "forward"
    BY <1>a, <2>1 DEF WithID
  <2>3. HandOK(c)'
    BY <1>a, <2>1, <2>2 DEF HandOK, Honest
  <2>4. \A d \in Clients : InboxOK(d)'
    BY <1>a, <2>1, InboxStays
  <2>5. ~HandlerRead(c)
    BY <2>1 DEF HandlerRead, HandlerAt
  <2> QED BY <2>1, <2>2, <2>3, <2>4, <2>5, HandlerKeeps
<1>2. ASSUME NEW pc \in {"read", "remove", "purge", "gone"}, HandlerGoes(c, pc), ~HandlerRead(c),
             UNCHANGED <<initReqID, initResponse, stdin>>,
             initPhase' = initPhase \/ (initPhase' = 2 /\ initPhase >= 1),
             \A d \in Clients : InboxOK(d)'
      PROVE  HandshakeInv'
  <2>1. h'[c].pc = pc /\ (h'[c].msg = NoMsg \/ h'[c].msg = h[c].msg)
    BY <1>a, <1>2 DEF HandlerGoes
  <2>2. HandOK(c)'
    BY <1>a, <1>b, <1>2, <2>1 DEF HandOK, Honest
  <2> QED BY <1>2, <2>1, <2>2, HandlerKeeps
<1>3. CASE HandlerMark(c)
  <2>1. /\ h[c].pc = "mark" /\ HandlerGoes(c, "read") /\ initPhase' = 2 /\ inbox' = inbox
        /\ UNCHANGED <<initReqID, initResponse, stdin>>
    BY <1>3 DEF HandlerMark, HandlerAt, serverVars
  <2>2. initPhase >= 1
    BY <1>a, <2>1 DEF HandOK
  <2>3. ~HandlerRead(c)
    BY <2>1 DEF HandlerRead, HandlerAt
  <2>4. \A d \in Clients : InboxOK(d)'
    BY <1>a, <2>1, InboxStays
  <2> QED BY <1>2, <2>1, <2>2, <2>3, <2>4
<1>4. CASE HandlerReply(c)
  <2>1. /\ h[c].pc = "reply" /\ UNCHANGED <<initPhase, initReqID, initResponse, stdin>>
        /\ \E pc \in {"read", "remove"} : HandlerGoes(c, pc)
        /\ inbox' = inbox \/ (initResponse # NoMsg /\ WriteToClient(c, WithID(initResponse, h[c].msg.id)))
    BY <1>4 DEF HandlerReply, HandlerAt, initVars, serverVars
  <2>2. initPhase >= 1
    BY <1>a, <2>1 DEF HandOK
  <2>3. ~HandlerRead(c)
    BY <2>1 DEF HandlerRead, HandlerAt
  <2>4. ASSUME initResponse # NoMsg, WriteToClient(c, WithID(initResponse, h[c].msg.id))
        PROVE  \A d \in Clients : InboxOK(d)'
    <3>1. WithID(initResponse, h[c].msg.id) \in Msg
      <4>1. initResponse \in Msg /\ h[c].msg \in Msg
        BY <1>a DEF TypeOK
      <4>2. h[c].msg.id \in Nat
        BY <4>1 DEF Msg
      <4> QED BY <4>1, <4>2, WithIDType
    <3>2. WithID(initResponse, h[c].msg.id).ok
      BY <1>a, <2>4 DEF CacheOK, WithID
    <3> QED BY <1>a, <2>1, <2>2, <2>4, <3>1, <3>2, InboxWritten
  <2>5. \A d \in Clients : InboxOK(d)'
    BY <1>a, <2>1, <2>4, InboxStays
  <2> QED BY <1>2, <2>1, <2>3, <2>5
<1>5. CASE HandlerEOF(c)
  <2>1. /\ HandlerGoes(c, "remove") /\ inbox' = inbox
        /\ UNCHANGED <<initPhase, initReqID, initResponse, stdin, up>>
    BY <1>5 DEF HandlerEOF, HandlerAt, initVars, serverVars, clientVars
  <2>2. ~HandlerRead(c)
    BY <2>1, <1>a DEF HandlerRead, HandlerGoes, Dispatch, AtRead, At
  <2>4. \A d \in Clients : InboxOK(d)'
    BY <1>a, <2>1, InboxStays
  <2> QED BY <1>2, <2>1, <2>2, <2>4
<1>6. CASE HandlerRemove(c) \/ HandlerPurge(c)
  <2>1. /\ \E pc \in {"purge", "gone"} : HandlerGoes(c, pc)
        /\ h[c].pc # "read" /\ inbox' = inbox
        /\ UNCHANGED <<initPhase, initReqID, initResponse, stdin>>
    BY <1>6 DEF HandlerRemove, HandlerPurge, HandlerAt, initVars, serverVars
  <2>2. ~HandlerRead(c)
    BY <2>1 DEF HandlerRead, HandlerAt
  <2>4. \A d \in Clients : InboxOK(d)'
    BY <1>a, <2>1, InboxStays
  <2> QED BY <1>2, <2>1, <2>2, <2>4
<1>7. CASE HandlerRead(c)
  BY <1>7, HandlerReadHandshake
<1>8. CASE HandlerTrack(c)
  BY <1>8, HandlerTrackHandshake
<1>9. CASE HandlerForward(c)
  <2>1. CASE ls # "up"
    <3>1. /\ HandlerGoes(c, "remove") /\ h[c].pc = "forward" /\ inbox' = inbox
          /\ UNCHANGED <<initPhase, initReqID, initResponse, stdin>>
      BY <1>9, <2>1 DEF HandlerForward, HandlerAt, initVars
    <3>2. ~HandlerRead(c)
      BY <3>1 DEF HandlerRead, HandlerAt
    <3>3. \A d \in Clients : InboxOK(d)'
      BY <1>a, <3>1, InboxStays
    <3> QED BY <1>2, <3>1, <3>2, <3>3
  <2>2. CASE ls = "up"
    BY <1>9, <2>2, HandlerForwardHandshake
  <2> QED BY <2>1, <2>2
<1> QED BY <1>1, <1>3, <1>4, <1>5, <1>6, <1>7, <1>8, <1>9 DEF Handler

-----------------------------------------------------------------------------
(* The steps that are neither a handler's nor an owner's.                  *)

LEMMA OwnersAndHandsKeep ==
  ASSUME HandshakeInv, ServerReadLoop \/ AcceptLoop \/ LanguageServer \/ Reap \/ Environment,
         initPhase >= 1 => initPhase' >= 1, initPhase' # 2 => initPhase # 2
  PROVE  /\ \A c \in Clients : OwnerOK(c)' /\ HandOK(c)'
         /\ OneBegins' /\ (Marking' => Marking)
         /\ \A kind : Carriers(kind)' \subseteq Carriers(kind)
<1>a. TypeOK /\ NotHandler /\ OneBegins /\ \A c \in Clients : OwnerOK(c) /\ HandOK(c)
  BY DEF HandshakeInv, OnceInv, RoutingInv, NotHandler
<1>1. cl' = cl /\ nextID' = nextID /\ up' = up /\ initReqID' = initReqID
  BY <1>a, ServerSideLeavesOwners, ElsewherePending
<1>2. ASSUME NEW c \in Clients PROVE h'[c] = h[c] \/ h'[c] = AtRead
  <2>1. ASSUME NEW d \in Waiting, h' = [h EXCEPT ![d] = AtRead]
        PROVE  h'[c] = h[c] \/ h'[c] = AtRead
    BY <1>a, <2>1 DEF TypeOK
  <2> QED BY <1>a, <2>1, ElsewhereHandlers
<1>3. AtRead = [pc |-> "read", msg |-> NoMsg] /\ NoMsg.kind = "notify"
  BY DEF AtRead, At, NoMsg, Notification, Message
<1>4. ASSUME NEW c \in Clients PROVE OwnerOK(c)' /\ HandOK(c)'
  <2>1. OwnerOK(c)'
    BY <1>a, <1>1 DEF OwnerOK, Honest, Sole, Has
  <2>2. HandOK(c)'
    <3>1. CASE h'[c] = h[c]
      BY <1>a, <1>1, <3>1 DEF HandOK, Honest, Tracked
    <3>2. CASE h'[c] = AtRead
      BY <1>3, <3>2 DEF HandOK, Honest
    <3> QED BY <1>2, <3>1, <3>2
  <2> QED BY <2>1, <2>2
<1>5. OneBegins'
  BY <1>a, <1>1 DEF OneBegins
<1>6. (Marking' => Marking) /\ \A kind : Carriers(kind)' \subseteq Carriers(kind)
  BY <1>2, <1>3 DEF Marking, Carriers
<1> QED BY <1>4, <1>5, <1>6

(* Those of them that write to no connection and cache nothing. *)
LEMMA PipesMove ==
  ASSUME HandshakeInv, OnceInv',
         ServerReadLoop \/ AcceptLoop \/ LanguageServer \/ Reap \/ Environment,
         UNCHANGED <<initPhase, initResponse, inbox>>,
         PipesOK', LoopOK', SentOnce'
  PROVE  HandshakeInv'
<1>1. \A c \in Clients : InboxOK(c)'
  BY InboxStays DEF HandshakeInv
<1>2. initReqID' = initReqID /\ nextID' = nextID
  <2>1. TypeOK /\ NotHandler
    BY DEF HandshakeInv, OnceInv, RoutingInv, NotHandler
  <2> QED BY <2>1, ServerSideLeavesOwners, ElsewherePending
<1>3. CacheOK'
  BY <1>2 DEF HandshakeInv, CacheOK
<1> QED BY <1>1, <1>3, OwnersAndHandsKeep DEF HandshakeInv

(* A step that sends the server neither initialize nor initialized. *)
LEMMA SentStays ==
  ASSUME HandshakeInv, ServerReadLoop \/ AcceptLoop \/ LanguageServer \/ Reap \/ Environment,
         inits' = inits, initeds' = initeds,
         initPhase >= 1 => initPhase' >= 1, initPhase' # 2 => initPhase # 2,
         initPhase' = 0 => initPhase = 0,
         \/ stdin' = stdin \/ stdin' = <<>> \/ (stdin # <<>> /\ stdin' = Tail(stdin))
         \/ \E m \in Msg : /\ stdin' = Append(stdin, m)
                           /\ m.kind \notin {"initialize", "initialized"}
  PROVE  SentOnce'
<1>1. TypeOK /\ [Next]_vars /\ stdin \in Seq(Msg) /\ SentOnce
  BY DEF HandshakeInv, OnceInv, RoutingInv, TypeOK, Next
<1>2. cl' = cl /\ up' = up
  BY ServerSideLeavesOwners
<1>3. ASSUME NEW kind \in {"initialize", "initialized"}
      PROVE  (Has(stdin', kind) => Has(stdin, kind)) /\ (Sole(stdin, kind) => Sole(stdin', kind))
  <2>1. CASE stdin' = stdin
    BY <2>1
  <2>2. CASE stdin' = <<>>
    BY <2>2 DEF Has, Sole, In
  <2>3. CASE stdin # <<>> /\ stdin' = Tail(stdin)
    BY <1>1, <2>3, HasTail, SoleTail
  <2>4. ASSUME NEW m \in Msg, stdin' = Append(stdin, m), m.kind # kind
        PROVE  (Has(stdin', kind) => Has(stdin, kind)) /\ (Sole(stdin, kind) => Sole(stdin', kind))
    BY <1>1, <2>4, HasAppend, SoleAppend
  <2> QED BY <2>1, <2>2, <2>3, <2>4
<1> QED BY <1>1, <1>2, <1>3, OwnersAndHandsKeep, FewerSent

LEMMA AcceptHandshake == HandshakeInv /\ OnceInv' /\ AcceptLoop => HandshakeInv'
<1> SUFFICES ASSUME HandshakeInv, OnceInv', AcceptLoop PROVE HandshakeInv'
  OBVIOUS
<1>a. TypeOK /\ stdin \in Seq(Msg) /\ PipesOK /\ LoopOK /\ initPhase \in 0 .. 2
  BY DEF HandshakeInv, OnceInv, RoutingInv, TypeOK
<1>1. UNCHANGED <<initVars, inbox, rl, stdout, working, inits, initeds>>
  BY DEF AcceptLoop, IdleStop, ServerExited, Accept, ShutdownAnswered, ShutdownTimeout,
         ExitObserved, ExitTimeout, Cleanup, ProcessExit, serverVars
<1>2. \/ stdin' = stdin
      \/ \E kind \in {"shutdown", "exit"} :
           stdin' = Append(stdin, Message(kind, DaemonShutdownID, NoClient, TRUE))
  BY DEF AcceptLoop, IdleStop, ServerExited, Accept, ShutdownAnswered, ShutdownTimeout,
         ExitObserved, ExitTimeout, Cleanup, ProcessExit, serverVars, Notification, DaemonShutdownID
<1>3. ASSUME NEW kind \in {"shutdown", "exit"}, NEW m, m = Message(kind, DaemonShutdownID, NoClient, TRUE)
      PROVE  m \in Msg /\ Honest(m)' /\ m.kind = kind
  <2>1. NoClient \notin Sessions /\ kind \in Kinds /\ DaemonShutdownID \in Nat
    BY ProxyAssumption DEF Kinds, DaemonShutdownID
  <2>2. m \in Msg
    BY <1>3, <2>1, MessageType
  <2> QED BY <1>3, <2>1, <2>2 DEF Honest, Message
<1>4. \/ stdin' = stdin
      \/ \E m \in Msg : /\ stdin' = Append(stdin, m)
                        /\ m.kind \notin {"initialize", "initialized"} /\ Honest(m)'
  BY <1>2, <1>3
<1>5. PipesOK'
  <2>1. ASSUME NEW n \in In(stdin')
        PROVE  Honest(n)' /\ (n.kind = "initialize" => Tracked(n)')
    <3>1. n \in In(stdin) \/ (n.kind # "initialize" /\ Honest(n)')
      BY <1>a, <1>4, <2>1, InAppend
    <3> QED BY <1>a, <1>1, <3>1 DEF PipesOK, Honest, Tracked, initVars
  <2> QED BY <1>a, <1>1, <2>1 DEF PipesOK, Honest, Tracked, Welcome, Won, IsResponse, initVars
<1>6. LoopOK'
  BY <1>a, <1>1 DEF LoopOK, Tracked, Welcome, Won, IsResponse, initVars
<1>7. SentOnce'
  BY <1>1, <1>4, SentStays DEF initVars
<1> QED BY <1>1, <1>5, <1>6, <1>7, PipesMove DEF initVars

LEMMA ServerHandshake ==
  HandshakeInv /\ OnceInv' /\ (LanguageServer \/ Reap \/ Environment) => HandshakeInv'
<1> SUFFICES ASSUME HandshakeInv, OnceInv', LanguageServer \/ Reap \/ Environment
             PROVE  HandshakeInv'
  OBVIOUS
<1>a. /\ TypeOK /\ stdin \in Seq(Msg) /\ stdout \in Seq(Msg) /\ working \subseteq Msg
      /\ inits \in Nat /\ initeds \in Nat /\ initPhase \in 0 .. 2
      /\ PipesOK /\ LoopOK /\ SentOnce
  BY DEF HandshakeInv, OnceInv, RoutingInv, TypeOK
<1>b. UNCHANGED <<initVars, inbox, rl>>
  BY DEF LanguageServer, LSInitialize, LSInitialized, LSTakeRequest, LSAnswer, LSShutdown,
         LSIgnore, LSExit, Reap, Environment, LSNotify, LSRequest, LSSends, LSCrash, TimePasses,
         proxyVars
<1>c. cl' = cl /\ nextID' = nextID /\ up' = up
  BY ServerSideLeavesOwners
<1>d. stdin # <<>> =>
        Head(stdin) \in In(stdin) /\ Head(stdin) \in Msg /\ In(Tail(stdin)) \subseteq In(stdin)
  BY <1>a, InTail
(* Pipes that only get shorter, or gain an answer to no initialize. *)
<1>1. ASSUME inits' = inits, initeds' = initeds,
             stdin' = stdin \/ stdin' = <<>> \/ (stdin # <<>> /\ stdin' = Tail(stdin)),
             \A m \in working' : m \in working \/ (m \in In(stdin) /\ m.kind = "request"),
             \A m \in In(stdout') : m \in In(stdout) \/ ~Welcome(m)
      PROVE  HandshakeInv'
  <2>1. In(stdin') \subseteq In(stdin)
    <3>1. CASE stdin' = <<>>
      BY <3>1 DEF In
    <3> QED BY <1>1, <1>d, <3>1
  <2>2. PipesOK'
    BY <1>a, <1>b, <1>1, <2>1 DEF PipesOK, Honest, Tracked, Welcome, Won, IsResponse, initVars
  <2>3. LoopOK'
    BY <1>a, <1>b, <1>1 DEF LoopOK, Tracked, Welcome, Won, IsResponse, initVars
  <2>4. SentOnce'
    BY <1>b, <1>1, SentStays DEF initVars
  <2> QED BY <1>b, <2>2, <2>3, <2>4, PipesMove DEF initVars
<1>2. ASSUME NEW m \in Msg, stdout' = Append(stdout, m), ~Welcome(m)
      PROVE  \A n \in In(stdout') : n \in In(stdout) \/ ~Welcome(n)
  BY <1>a, <1>2, InAppend
<1>3. CASE LSInitialize
  <2> DEFINE m == Head(stdin)
             r == ResponseTo(m, inits = 0)
  <2>1. /\ stdin # <<>> /\ m.kind = "initialize" /\ stdin' = Tail(stdin)
        /\ inits' = inits + 1 /\ stdout' = Append(stdout, r)
        /\ UNCHANGED <<working, initeds, h>>
    BY <1>3 DEF LSInitialize, LSTakes, proxyVars
  <2>2. Has(stdin, "initialize") /\ inits = 0 /\ inits' = 1 /\ Carriers("initialize") = {}
    BY <1>a, <1>d, <2>1 DEF Has, SentOnce, Single
  <2>3. In(stdout') = In(stdout) \cup {r}
    <3>1. m \in Msg /\ (inits = 0) \in BOOLEAN
      BY <1>d, <2>1
    <3>2. r \in Msg
      BY <3>1, ResponseType
    <3> QED BY <1>a, <2>1, <3>2, InAppend
  <2>4. Tracked(m) /\ r.id = m.id /\ r.ok
    BY <1>a, <1>d, <2>1, <2>2 DEF PipesOK, ResponseTo
  <2> HIDE DEF m, r
  <2>5. PipesOK'
    BY <1>a, <1>b, <1>d, <2>1, <2>2, <2>3, <2>4
       DEF PipesOK, Honest, Tracked, Welcome, Won, IsResponse, initVars
  <2>6. LoopOK'
    BY <1>a, <1>b, <2>2 DEF LoopOK, Tracked, Welcome, Won, IsResponse, initVars
  <2>7. SentOnce'
    <3>1. ~Has(stdin', "initialize") /\ Carriers("initialize")' = {}
      BY <1>a, <2>1, <2>2, SoleTail DEF SentOnce, Single, Carriers, m
    <3>2. Single("initialize", inits)' /\ ~Unsent("initialize", inits)
      BY <1>a, <2>1, <2>2, <3>1 DEF Single, Unsent, Sole, Has, In
    <3>3. /\ Single("initialized", initeds)'
          /\ Unsent("initialized", initeds) => Unsent("initialized", initeds)'
      BY <1>a, <2>1, HasTail, SoleTail DEF SentOnce, Single, Unsent, Carriers
    <3> QED BY <1>a, <1>b, <1>c, <2>1, <3>2, <3>3 DEF SentOnce, Marking, initVars
  <2> QED BY <1>b, <2>5, <2>6, <2>7, PipesMove DEF initVars
<1>4. CASE LSInitialized
  <2>1. /\ stdin # <<>> /\ Head(stdin).kind = "initialized" /\ stdin' = Tail(stdin)
        /\ initeds' = initeds + 1
        /\ UNCHANGED <<stdout, working, inits, h>>
    BY <1>4 DEF LSInitialized, LSTakes, proxyVars
  <2>2. Has(stdin, "initialized") /\ initeds = 0 /\ initeds' = 1 /\ Carriers("initialized") = {}
    BY <1>a, <1>d, <2>1 DEF Has, SentOnce, Single
  <2>3. PipesOK'
    BY <1>a, <1>b, <1>d, <2>1 DEF PipesOK, Honest, Tracked, Welcome, Won, IsResponse, initVars
  <2>4. LoopOK'
    BY <1>a, <1>b, <2>1 DEF LoopOK, Tracked, Welcome, Won, IsResponse, initVars
  <2>5. SentOnce'
    <3>1. ~Has(stdin', "initialized") /\ Carriers("initialized")' = {}
      BY <1>a, <2>1, <2>2, SoleTail DEF SentOnce, Single, Carriers
    <3>2. Single("initialized", initeds)' /\ ~Unsent("initialized", initeds)
      BY <1>a, <2>1, <2>2, <3>1 DEF Single, Unsent, Sole, Has, In
    <3>3. /\ Single("initialize", inits)'
          /\ Unsent("initialize", inits) => Unsent("initialize", inits)'
      BY <1>a, <2>1, HasTail, SoleTail DEF SentOnce, Single, Unsent, Carriers
    <3> QED BY <1>a, <1>b, <1>c, <2>1, <3>2, <3>3 DEF SentOnce, Marking, initVars
  <2> QED BY <1>b, <2>3, <2>4, <2>5, PipesMove DEF initVars
<1>5. CASE LSTakeRequest
  BY <1>1, <1>5, <1>d DEF LSTakeRequest, LSTakes
<1>6. CASE LSAnswer
  <2>1. PICK m \in working : stdout' = Append(stdout, ResponseTo(m, inits > 0)) /\ working' = working \ {m}
    BY <1>6 DEF LSAnswer
  <2>2. ResponseTo(m, inits > 0) \in Msg
    <3>1. m \in Msg /\ (inits > 0) \in BOOLEAN
      BY <1>a, <2>1
    <3> QED BY <3>1, ResponseType
  <2>3. ~Welcome(ResponseTo(m, inits > 0))
    BY <1>a, <2>1 DEF PipesOK, Honest, Welcome, ResponseTo
  <2> QED BY <1>1, <1>2, <1>6, <2>1, <2>2, <2>3 DEF LSAnswer
<1>7. CASE LSShutdown
  <2>1. stdin # <<>> /\ Head(stdin).kind = "shutdown" /\ stdout' = Append(stdout, ResponseTo(Head(stdin), TRUE))
    BY <1>7 DEF LSShutdown, LSTakes
  <2>2. ResponseTo(Head(stdin), TRUE) \in Msg
    BY <1>d, <2>1, ResponseType
  <2>3. ~Welcome(ResponseTo(Head(stdin), TRUE))
    BY <1>a, <1>d, <2>1 DEF PipesOK, Honest, Welcome, ResponseTo
  <2> QED BY <1>1, <1>2, <1>7, <2>1, <2>2, <2>3 DEF LSShutdown, LSTakes
<1>8. CASE LSIgnore \/ LSExit
  BY <1>1, <1>8 DEF LSIgnore, LSExit, LSTakes
<1>9. CASE Reap
  BY <1>1, <1>9 DEF Reap, In
<1>10. CASE LSNotify \/ LSRequest
  <2>1. PICK kind \in {"notify", "srvreq"} : LSSends(kind)
    BY <1>10 DEF LSNotify, LSRequest
  <2> DEFINE m == Message(kind, srvMsgs', NoClient, TRUE)
  <2>2. m \in Msg /\ ~Welcome(m)
    <3>1. kind \in Kinds /\ srvMsgs' \in Nat
      BY <1>a, <2>1 DEF Kinds, LSSends, TypeOK
    <3>2. m \in Msg
      BY <3>1, MessageType
    <3> QED BY <3>2 DEF Welcome, IsResponse, Message
  <2> QED BY <1>1, <1>2, <2>1, <2>2 DEF LSSends
<1>11. CASE LSCrash \/ TimePasses
  BY <1>1, <1>11 DEF LSCrash, TimePasses, serverVars
<1> QED BY <1>3, <1>4, <1>5, <1>6, <1>7, <1>8, <1>9, <1>10, <1>11 DEF LanguageServer, Environment

-----------------------------------------------------------------------------
(* serverReadLoop.                                                         *)

(* A response under the tracked id answers a request that began, its       *)
(* sender's initialize.                                                    *)
LEMMA TrackedIsWelcome ==
  ASSUME HandshakeInv, NEW m \in Msg, m = rl.msg, rl.pc = "cache", IsResponse(m),
         initPhase = 0, Tracked(m)
  PROVE  Welcome(m)
<1>a. /\ TypeOK /\ OneBegins /\ CacheOK /\ initReqID # 0 /\ m.id = initReqID
      /\ nextID \in [Clients -> Nat]
  BY DEF HandshakeInv, OnceInv, RoutingInv, TypeOK, Tracked
<1>1. PICK f \in Tables : Attributed(f)
  BY DEF HandshakeInv, OnceInv, RoutingInv
<1>2. Tagged(f, m) /\ m.id # DaemonShutdownID
  BY <1>a, <1>1 DEF Attributed, RoutedIn, DaemonShutdownID
<1>3. /\ f[m.id].client = m.from /\ f[m.id].id = m.call /\ m.id \in 1 .. nextReqID
      /\ f[m.id].id = InitID
  BY <1>a, <1>1, <1>2 DEF Tagged, Attributed, TrackedIn
<1>4. m.from \in Clients
  BY <1>1, <1>3 DEF Tables
<1>5. InitID \in 1 .. nextID[m.from]
  BY <1>1, <1>3 DEF Attributed, IssuedIn
<1>6. nextID[m.from] >= 1
  BY <1>a, <1>4, <1>5 DEF InitID
<1>7. PICK c \in Sessions : nextID[c] >= 1
  BY <1>a DEF CacheOK
<1>8. c = m.from
  BY <1>a, <1>4, <1>6, <1>7 DEF OneBegins, Clients
<1> QED BY <1>3, <1>7, <1>8 DEF Welcome

LEMMA LoopHandshake == HandshakeInv /\ OnceInv' /\ ServerReadLoop => HandshakeInv'
<1> SUFFICES ASSUME HandshakeInv, OnceInv', ServerReadLoop PROVE HandshakeInv'
  OBVIOUS
<1>a. /\ TypeOK /\ stdin \in Seq(Msg) /\ stdout \in Seq(Msg) /\ initPhase \in 0 .. 2
      /\ rl \in [pc : LoopPCs, msg : Msg, to : SUBSET Clients]
      /\ PipesOK /\ LoopOK /\ SentOnce /\ CacheOK /\ OneBegins
      /\ \A c \in Clients : InboxOK(c)
  BY DEF HandshakeInv, OnceInv, RoutingInv, TypeOK
<1>b. UNCHANGED <<working, inits, initeds, initReqID>> /\ nextID' = nextID
  BY ServerSideLeavesOwners
     DEF ServerReadLoop, LoopRead, LoopCheckCache, LoopStoreCache, RouteResponse,
         RouteServerRequest, RejectServerRequest, BroadcastToClients, LoopDeliver,
         serverVars, initVars
<1>c. rl.msg \in Msg
  BY <1>a
<1>d. ASSUME UNCHANGED <<stdin, stdout>> PROVE PipesOK'
  BY <1>a, <1>b, <1>d DEF PipesOK, Honest, Tracked, Welcome, Won, IsResponse
(* Steps that leave what is cached, and write nothing. *)
<1>1. ASSUME UNCHANGED <<initPhase, initResponse, inbox, stdin>>, PipesOK', LoopOK'
      PROVE  HandshakeInv'
  BY <1>b, <1>1, SentStays, PipesMove
<1>2. ASSUME NEW m \in Msg, NEW T, LoopDelivers(m, T), initPhase' = initPhase,
             Welcome(m) => initPhase >= 1 /\ m.ok
      PROVE  LoopOK'
  BY <1>2 DEF LoopDelivers, LoopAtRead, LoopWith, LoopOK, Welcome, IsResponse
<1>3. CASE LoopRead
  <2>1. /\ stdout # <<>> /\ stdout' = Tail(stdout) /\ rl' = LoopWith("cache", Head(stdout))
        /\ UNCHANGED <<initPhase, initResponse, inbox, stdin>>
    BY <1>3 DEF LoopRead, initVars
  <2>2. Head(stdout) \in In(stdout) /\ In(stdout') \subseteq In(stdout)
    BY <1>a, <2>1, InTail
  <2>3. PipesOK'
    BY <1>a, <1>b, <2>1, <2>2 DEF PipesOK, Honest, Tracked, Welcome, Won, IsResponse
  <2>4. LoopOK'
    BY <1>a, <1>b, <2>1, <2>2 DEF PipesOK, LoopOK, LoopWith, Tracked, Welcome, Won, IsResponse
  <2> QED BY <1>1, <2>1, <2>3, <2>4
<1>4. CASE LoopCheckCache
  <2>1. /\ rl.pc = "cache" /\ rl' = LoopWith(IF Cacheable(rl.msg) THEN "store" ELSE "route", rl.msg)
        /\ UNCHANGED <<initPhase, initResponse, inbox, stdin, stdout>>
    BY <1>4 DEF LoopCheckCache, LoopAt, initVars, serverVars
  <2>2. Cacheable(rl.msg) => initPhase = 0 /\ Welcome(rl.msg)
    BY <1>c, <2>1, TrackedIsWelcome DEF Cacheable, Tracked
  <2>3. Welcome(rl.msg) => Won(rl.msg)
    BY <1>a, <2>1 DEF LoopOK
  <2>4. Welcome(rl.msg) /\ ~Cacheable(rl.msg) => initPhase >= 1
    BY <1>a, <2>3 DEF Cacheable, Welcome, Won, Tracked
  <2>5. LoopOK'
    BY <1>b, <2>1, <2>2, <2>3, <2>4 DEF LoopOK, LoopWith, Tracked, Welcome, Won, IsResponse
  <2> QED BY <1>1, <1>d, <2>1, <2>5
<1>5. CASE LoopStoreCache
  <2>1. /\ rl.pc = "store" /\ initResponse' = rl.msg /\ initPhase' = 1
        /\ rl' = LoopWith("route", rl.msg)
        /\ UNCHANGED <<inbox, stdin, stdout>>
    BY <1>5 DEF LoopStoreCache, LoopAt, serverVars
  <2>2. initPhase = 0 /\ Welcome(rl.msg) /\ Won(rl.msg)
    BY <1>a, <2>1 DEF LoopOK
  <2>3. rl.msg # NoMsg
    BY <2>2 DEF Welcome, IsResponse, NoMsg, Notification, Message
  <2>4. LoopOK'
    BY <1>b, <2>1, <2>2 DEF LoopOK, LoopWith, Tracked, Welcome, Won, IsResponse
  <2>5. CacheOK'
    BY <1>a, <1>b, <2>1, <2>2, <2>3 DEF CacheOK, Won
  <2>6. SentOnce'
    BY <1>b, <2>1, <2>2, SentStays
  <2>7. \A c \in Clients : InboxOK(c)'
    BY <1>a, <2>1, <2>2, InboxStays
  <2>8. \A c \in Clients : OwnerOK(c)' /\ HandOK(c)'
    BY <2>1, <2>2, OwnersAndHandsKeep
  <2>9. OneBegins'
    BY <2>1, <2>2, OwnersAndHandsKeep
  <2> QED BY <1>d, <2>1, <2>4, <2>5, <2>6, <2>7, <2>8, <2>9 DEF HandshakeInv
<1>6. CASE RouteResponse
  <2>1. /\ rl.pc = "route"
        /\ \/ rl' = LoopAtRead
           \/ \E id, T : LoopDelivers(WithID(rl.msg, id), T) /\ WithID(rl.msg, id) \in Msg
        /\ UNCHANGED <<initPhase, initResponse, inbox, stdin, stdout>>
    <3>1. ASSUME rl.msg.id \in DOMAIN pending
          PROVE  WithID(rl.msg, pending[rl.msg.id].id) \in Msg
      <4>1. pending[rl.msg.id].id \in Nat
        BY <1>a, <3>1 DEF TypeOK
      <4> QED BY <1>c, <4>1, WithIDType
    <3> QED BY <1>6, <3>1 DEF RouteResponse, LoopAt, initVars, serverVars
  <2>2. ASSUME NEW id, NEW T, LoopDelivers(WithID(rl.msg, id), T), WithID(rl.msg, id) \in Msg
        PROVE  LoopOK'
    <3>1. Welcome(WithID(rl.msg, id)) => Welcome(rl.msg) /\ WithID(rl.msg, id).ok = rl.msg.ok
      BY DEF Welcome, WithID, IsResponse
    <3> QED BY <1>2, <1>a, <2>1, <2>2, <3>1 DEF LoopOK
  <2>3. ASSUME rl' = LoopAtRead PROVE LoopOK'
    BY <2>3 DEF LoopOK, LoopAtRead, LoopWith
  <2> QED BY <1>1, <1>d, <2>1, <2>2, <2>3
<1>7. CASE RouteServerRequest \/ BroadcastToClients
  <2>1. /\ rl.msg.kind # "response" /\ \E T : LoopDelivers(rl.msg, T)
        /\ UNCHANGED <<initPhase, initResponse, inbox, stdin, stdout>>
    BY <1>7 DEF RouteServerRequest, BroadcastToClients, initVars, serverVars
  <2> QED BY <1>1, <1>2, <1>c, <1>d, <2>1 DEF Welcome, IsResponse
<1>8. CASE RejectServerRequest
  <2>1. PICK m \in Msg : m = AnswerTo(rl.msg)
    BY <1>c, ResponseType
  <2>2. m.kind = "answer" /\ Honest(m)'
    BY <2>1 DEF AnswerTo, Honest
  <2>3. /\ rl' = LoopAtRead
        /\ stdin' = Append(stdin, m) \/ stdin' = stdin
        /\ UNCHANGED <<initPhase, initResponse, inbox, stdout>>
    BY <1>8, <2>1 DEF RejectServerRequest, initVars
  <2>4. \A n \in In(stdin') : n \in In(stdin) \/ n = m
    <3>1. CASE stdin' = stdin
      BY <3>1
    <3>2. CASE stdin' = Append(stdin, m)
      BY <1>a, <3>2, InAppend
    <3> QED BY <2>3, <3>1, <3>2
  <2>5. PipesOK'
    BY <1>a, <1>b, <2>2, <2>3, <2>4 DEF PipesOK, Honest, Tracked, Welcome, Won, IsResponse
  <2>6. LoopOK'
    BY <2>3 DEF LoopOK, LoopAtRead, LoopWith
  <2>7. SentOnce'
    BY <1>b, <2>2, <2>3, SentStays
  <2> QED BY <2>3, <2>5, <2>6, <2>7, PipesMove
<1>9. CASE LoopDeliver
  <2>1. PICK c \in rl.to : WriteToClient(c, rl.msg) /\ LoopDelivers(rl.msg, rl.to \ {c})
    BY <1>9 DEF LoopDeliver
  <2>2. /\ rl.pc = "deliver" /\ c \in Clients
        /\ UNCHANGED <<initPhase, initResponse, stdin, stdout>>
    BY <1>9, <1>a, <2>1 DEF LoopDeliver, LoopAt, initVars, serverVars
  <2>3. Welcome(rl.msg) => initPhase >= 1 /\ rl.msg.ok
    BY <1>a, <2>2 DEF LoopOK
  <2>4. c \in Sessions /\ IsResponse(rl.msg) /\ rl.msg.id = InitID => Welcome(rl.msg)
    BY <2>1, <2>2 DEF HandshakeInv, OnceInv, RoutingInv, DeliversOwn, Issued, Welcome
  <2>5. \A d \in Clients : InboxOK(d)'
    BY <1>a, <1>c, <2>1, <2>2, <2>3, <2>4, InboxWritten
  <2>6. LoopOK'
    BY <1>2, <1>c, <2>1, <2>2, <2>3
  <2>7. CacheOK' /\ SentOnce'
    BY <1>a, <1>b, <2>2, SentStays DEF CacheOK
  <2>8. \A d \in Clients : OwnerOK(d)' /\ HandOK(d)'
    BY <2>2, OwnersAndHandsKeep
  <2>9. OneBegins'
    BY <2>2, OwnersAndHandsKeep
  <2> QED BY <1>d, <2>2, <2>5, <2>6, <2>7, <2>8, <2>9 DEF HandshakeInv
<1> QED BY <1>3, <1>4, <1>5, <1>6, <1>7, <1>8, <1>9 DEF ServerReadLoop

-----------------------------------------------------------------------------
(* The connections' owners.                                                *)

LEMMA OwnerHandshake ==
  ASSUME ~Overlap, HandshakeInv, OnceInv', NEW c \in Clients, Client(c)
  PROVE  HandshakeInv'
<1>a. /\ TypeOK /\ [Next]_vars /\ initPhase \in 0 .. 2
      /\ \A d \in Clients : OwnerOK(d) /\ HandOK(d) /\ InboxOK(d)
      /\ PipesOK /\ LoopOK /\ CacheOK /\ OneBegins /\ SentOnce
  BY DEF HandshakeInv, OnceInv, RoutingInv, TypeOK, Next
<1>b. /\ cl \in [Clients -> ClientStates] /\ nextID \in [Clients -> Nat]
      /\ up \in [Clients -> Seq(Msg)] /\ up[c] \in Seq(Msg)
      /\ cl[c] \in {"new", "open"} => nextID[c] = 0
  BY DEF HandshakeInv, OnceInv, RoutingInv, OwnNumbers, TypeOK
<1>c. UNCHANGED <<h, rl, inbox, initPhase, initResponse, initReqID, stdin, stdout, working, inits, initeds>>
  BY DEF Client, Dial, ClientInitialize, ClientCall, ClientShutdown, ClientRead, ClientClose,
         Asks, daemonVars, initVars, serverVars
<1>d. \A d \in Clients : nextID'[d] \in Nat /\ nextID[d] \in Nat /\ nextID[d] <= nextID'[d]
  BY <1>a, NumbersGrow
<1>1. \A d \in Clients : HandOK(d)' /\ InboxOK(d)'
  BY <1>a, <1>c, InboxStays DEF HandOK, Honest, Tracked
<1>2. PipesOK' /\ LoopOK'
  BY <1>a, <1>c DEF PipesOK, LoopOK, Honest, Tracked, Welcome, Won, IsResponse
<1>3. CacheOK'
  <2>1. \A d \in Sessions : nextID[d] >= 1 => nextID'[d] >= 1
    BY <1>d DEF Clients
  <2> QED BY <1>a, <1>c, <2>1 DEF CacheOK
<1>4. \A d \in Clients \ {c} : cl'[d] = cl[d] /\ nextID'[d] = nextID[d] /\ up'[d] = up[d]
  BY <1>a, OwnersNumber DEF HandshakeInv, OnceInv, RoutingInv
<1>5. \A d \in Clients \ {c} : OwnerOK(d)'
  BY <1>a, <1>c, <1>4 DEF OwnerOK, Honest, Sole, Has
(* An owner that has begun, and sends no initialized or nothing at all. *)
<1>6. ASSUME OwnerOK(c)', nextID'[c] >= 1 => nextID[c] >= 1,
             cl'[c] = "initializing" => cl[c] = "initializing",
             \A kind \in {"initialize", "initialized"} : Has(up'[c], kind) => Has(up[c], kind)
      PROVE  HandshakeInv'
  <2>1. OneBegins'
    BY <1>a, <1>b, <1>c, <1>d, <1>4, <1>6 DEF OneBegins
  <2>2. SentOnce'
    <3>1. \A kind : Carriers(kind)' = Carriers(kind) /\ Marking' = Marking
      BY <1>c DEF Carriers, Marking
    <3>2. \A d \in Clients :
            /\ \A kind \in {"initialize", "initialized"} : Has(up'[d], kind) => Has(up[d], kind)
            /\ cl'[d] = "initializing" => cl[d] = "initializing"
      BY <1>4, <1>6
    <3> QED BY <1>a, <1>c, <3>1, <3>2, FewerSent
  <2> QED BY <1>1, <1>2, <1>3, <1>5, <1>6, <2>1, <2>2 DEF HandshakeInv
<1>7. ASSUME nextID'[c] = nextID[c], up'[c] = up[c], cl'[c] \in {"new", "open", "closed", cl[c]}
      PROVE  HandshakeInv'
  <2>1. OwnerOK(c)'
    BY <1>a, <1>c, <1>7 DEF OwnerOK, Honest, Sole, Has
  <2> QED BY <1>6, <1>7, <2>1
(* A further message, neither initialize nor initialized. *)
<1>8. ASSUME NEW m \in Msg, up'[c] = Append(up[c], m), Honest(m), nextID[c] >= 1,
             m.kind \notin {"initialize", "initialized"},
             cl'[c] \in {"closed", cl[c]},
             cl[c] = "initializing" => nextID'[c] = nextID[c]
      PROVE  HandshakeInv'
  <2>1. \A kind \in {"initialize", "initialized"} : Has(up'[c], kind) <=> Has(up[c], kind)
    BY <1>b, <1>8, HasAppend
  <2>2. Sole(up'[c], "initialized")
    BY <1>a, <1>b, <1>8, SoleAppend DEF OwnerOK
  <2>3. \A n \in In(up'[c]) : Honest(n)'
    BY <1>a, <1>b, <1>8, InAppend DEF OwnerOK, Honest
  <2>4. OwnerOK(c)'
    BY <1>a, <1>b, <1>c, <1>d, <1>8, <2>1, <2>2, <2>3 DEF OwnerOK
  <2> QED BY <1>6, <1>8, <2>1, <2>4
(* The first message of a connection. *)
<1>9. ASSUME cl[c] = "open", MayBegin(c), NEW m \in Msg, up'[c] = Append(up[c], m), Honest(m),
             nextID'[c] = nextID[c] + 1,
             \/ cl'[c] = "initializing" /\ c \in Sessions /\ m.kind = "initialize"
             \/ cl'[c] = "stopping" /\ m.kind = "shutdown"
      PROVE  HandshakeInv'
  <2>1. nextID[c] = 0 /\ up[c] = <<>> /\ \A kind : ~Has(up[c], kind)
    BY <1>a, <1>b, <1>9, SilentBegin
  <2>2. ASSUME NEW kind, Has(up'[c], kind) PROVE m.kind = kind
    <3>1. ~Has(up[c], kind)
      BY <2>1
    <3>2. Has(Append(up[c], m), kind) => Has(up[c], kind) \/ m.kind = kind
      BY <1>b, HasAppend
    <3> QED BY <1>9, <2>2, <3>1, <3>2
  <2>3. Sole(up'[c], "initialized")
    BY <1>a, <1>b, <1>9, SoleAppend DEF OwnerOK
  <2>4. \A n \in In(up'[c]) : Honest(n)'
    BY <1>a, <1>b, <1>9, InAppend DEF OwnerOK, Honest
  <2>5. OwnerOK(c)'
    BY <1>9, <2>1, <2>2, <2>3, <2>4 DEF OwnerOK
  <2>6. initPhase # 2 => \A d \in Clients : nextID[d] = 0
    <3>1. initPhase # 2 => \A d \in Clients \ {c} : cl[d] \in {"new", "open"}
      BY <1>9 DEF MayBegin
    <3> QED BY <2>1, <3>1 DEF HandshakeInv, OnceInv, RoutingInv, OwnNumbers
  <2>7. OneBegins'
    <3>1. initPhase # 2 => \A d \in Clients \ {c} : nextID'[d] = 0
      BY <1>4, <2>6
    <3> QED BY <1>c, <3>1 DEF OneBegins
  <2>8. SentOnce'
    <3>1. initPhase # 2 => Unsent("initialize", inits) /\ Unsent("initialized", initeds) /\ ~Marking
      BY <1>a, <2>6 DEF SentOnce
    <3>2. /\ Single("initialize", inits)' = Single("initialize", inits)
          /\ Single("initialized", initeds)' = Single("initialized", initeds)
          /\ Unsent("initialize", inits)' = Unsent("initialize", inits)
          /\ Unsent("initialized", initeds)' = Unsent("initialized", initeds)
          /\ Marking' = Marking
      BY <1>c DEF Single, Unsent, Carriers, Marking
    <3>3. ~(\A d \in Clients : nextID'[d] = 0)
      BY <1>9, <2>1
    <3> QED BY <1>a, <1>c, <3>1, <3>2, <3>3 DEF SentOnce
  <2> QED BY <1>1, <1>2, <1>3, <1>5, <2>5, <2>7, <2>8 DEF HandshakeInv
<1>10. CASE Dial(c) \/ ClientClose(c)
  BY <1>7, <1>10, <1>b DEF Dial, ClientClose
(* Its next request. *)
<1>11. ASSUME NEW kind \in {"initialize", "request", "shutdown"}, Asks(c, kind)
       PROVE  \E m \in Msg : /\ up'[c] = Append(up[c], m) /\ m.kind = kind /\ m.from = c
                             /\ m.call = nextID[c] + 1 /\ nextID'[c] = nextID[c] + 1
  <2> DEFINE m == Message(kind, nextID[c] + 1, c, TRUE)
  <2>1. kind \in Kinds /\ nextID[c] + 1 \in Nat
    BY <1>b DEF Kinds
  <2>2. m \in Msg /\ m.kind = kind /\ m.from = c /\ m.call = nextID[c] + 1
    BY <2>1, MessageType DEF Message
  <2>3. up'[c] = Append(up[c], m) /\ nextID'[c] = nextID[c] + 1
    BY <1>11, <1>b DEF Asks, Sends
  <2> QED BY <2>2, <2>3
<1>12. CASE ClientInitialize(c) \/ ClientShutdown(c)
  <2>1. PICK kind \in {"initialize", "shutdown"} :
          /\ Asks(c, kind) /\ cl[c] = "open" /\ MayBegin(c)
          /\ \/ kind = "initialize" /\ c \in Sessions /\ cl' = [cl EXCEPT ![c] = "initializing"]
             \/ kind = "shutdown" /\ c \in Stoppers /\ cl' = [cl EXCEPT ![c] = "stopping"]
    BY <1>12 DEF ClientInitialize, ClientShutdown
  <2>2. PICK m \in Msg : /\ up'[c] = Append(up[c], m) /\ m.kind = kind /\ m.from = c
                         /\ m.call = nextID[c] + 1 /\ nextID'[c] = nextID[c] + 1
    BY <1>11, <2>1
  <2>3. nextID[c] = 0
    BY <1>b, <2>1
  <2>4. Honest(m)
    BY <2>1, <2>2, <2>3, ProxyAssumption DEF Honest, InitID
  <2>5. cl'[c] = IF kind = "initialize" THEN "initializing" ELSE "stopping"
    BY <1>b, <2>1
  <2> QED BY <1>9, <2>1, <2>2, <2>4, <2>5
<1>13. CASE ClientCall(c)
  <2>1. Asks(c, "request") /\ cl[c] = "ready" /\ cl' = cl
    BY <1>13 DEF ClientCall
  <2>2. PICK m \in Msg : /\ up'[c] = Append(up[c], m) /\ m.kind = "request" /\ m.from = c
                         /\ m.call = nextID[c] + 1 /\ nextID'[c] = nextID[c] + 1
    BY <1>11, <2>1
  <2>3. nextID[c] >= 1
    BY <1>a, <2>1 DEF OwnerOK
  <2>4. Honest(m)
    BY <1>b, <2>2, <2>3 DEF Honest, InitID
  <2> QED BY <1>8, <2>1, <2>2, <2>3, <2>4
<1>14. CASE ClientRead(c)
  <2> DEFINE m == inbox[c][seen[c] + 1]
  <2>1. /\ cl[c] \in {"initializing", "ready", "stopping"} /\ nextID' = nextID
        /\ nextID[c] >= 1 /\ seen[c] + 1 \in DOMAIN inbox[c] /\ m \in Msg
    <3>1. /\ cl[c] \in {"initializing", "ready", "stopping"} /\ seen[c] < Len(inbox[c])
          /\ nextID' = nextID
      BY <1>14 DEF ClientRead
    <3>2. seen[c] \in Nat /\ inbox[c] \in Seq(Msg)
      BY <1>a DEF TypeOK
    <3>3. seen[c] + 1 \in DOMAIN inbox[c]
      BY <3>1, <3>2
    <3>4. m \in Msg
      BY <3>2, <3>3
    <3>5. nextID[c] >= 1
      BY <1>a, <3>1 DEF OwnerOK
    <3> QED BY <3>1, <3>3, <3>4, <3>5
  <2> HIDE DEF m
  (* What it may send in answer. *)
  <2>2. \/ IsResponse(m) /\ cl[c] = "initializing" /\ cl' = [cl EXCEPT ![c] = "ready"]
             /\ Sends(c, Notification("initialized", c))
        \/ cl' \in {cl, [cl EXCEPT ![c] = "closed"]}
             /\ (up' = up \/ Sends(c, Notification("exit", c)) \/ Sends(c, AnswerTo(m)))
    BY <1>14 DEF ClientRead, m
  <2>3. ASSUME cl' \in {cl, [cl EXCEPT ![c] = "closed"]}, NEW n \in Msg, Sends(c, n),
               n.kind \in {"exit", "answer"}
        PROVE  HandshakeInv'
    <3>1. up'[c] = Append(up[c], n) /\ cl'[c] \in {"closed", cl[c]}
      BY <1>b, <2>3 DEF Sends
    <3>2. Honest(n)
      BY <2>3 DEF Honest
    <3> QED BY <1>8, <2>1, <2>3, <3>1, <3>2
  <2>4. \A kind \in {"initialized", "exit"} :
          Notification(kind, c) \in Msg /\ Notification(kind, c).kind = kind
    BY MessageType DEF Notification, Kinds, Message
  <2>5. AnswerTo(m) \in Msg /\ AnswerTo(m).kind = "answer"
    BY <2>1, ResponseType DEF AnswerTo
  <2>6. CASE cl' \in {cl, [cl EXCEPT ![c] = "closed"]} /\ up' = up
    BY <1>7, <1>b, <2>1, <2>6
  <2>7. CASE /\ IsResponse(m) /\ cl[c] = "initializing" /\ cl' = [cl EXCEPT ![c] = "ready"]
             /\ Sends(c, Notification("initialized", c))
    <3>1. PICK n \in Msg : n = Notification("initialized", c) /\ n.kind = "initialized"
      BY <2>4
    <3>2. up'[c] = Append(up[c], n) /\ cl'[c] = "ready"
      BY <1>b, <2>7, <3>1 DEF Sends
    <3>3. c \in Sessions /\ nextID[c] = 1 /\ ~Has(up[c], "initialized") /\ OwnerOK(c)
      BY <1>a, <2>7 DEF OwnerOK
    <3>4. initPhase >= 1
      <4>1. seen[c] + 1 \in Responses(c)
        BY <2>1, <2>7 DEF Responses, m
      <4>2. m.id \in 1 .. nextID[c]
        BY <4>1 DEF HandshakeInv, OnceInv, RoutingInv, AnswersAreOwn, m
      <4>3. m.id = InitID
        BY <3>3, <4>2 DEF InitID
      <4> QED BY <1>a, <3>3, <4>1, <4>3 DEF InboxOK, m
    <3>5. OwnerOK(c)'
      <4>1. Sole(up'[c], "initialized")
        BY <1>b, <3>1, <3>2, <3>3, SoleAppend DEF OwnerOK
      <4>2. \A i \in In(up'[c]) : Honest(i)'
        BY <1>b, <3>1, <3>2, <3>3, InAppend DEF OwnerOK, Honest
      <4> QED BY <1>c, <2>1, <3>2, <3>4, <4>1, <4>2 DEF OwnerOK
    <3>6. OneBegins'
      BY <1>a, <1>c, <2>1 DEF OneBegins
    <3>7. SentOnce'
      <4>1. initPhase # 2 => Unsent("initialized", initeds) /\ ~Marking
        BY <1>a, <2>7 DEF SentOnce
      <4>2. /\ Single("initialize", inits)' = Single("initialize", inits)
            /\ Single("initialized", initeds)' = Single("initialized", initeds)
            /\ Unsent("initialize", inits)' = Unsent("initialize", inits)
            /\ Unsent("initialized", initeds)' = Unsent("initialized", initeds)
            /\ Marking' = Marking
        BY <1>c DEF Single, Unsent, Carriers, Marking
      <4>3. Has(up'[c], "initialize") => Has(up[c], "initialize")
        BY <1>b, <3>1, <3>2, HasAppend
      <4> QED BY <1>a, <1>c, <1>4, <2>1, <4>1, <4>2, <4>3 DEF SentOnce
    <3> QED BY <1>1, <1>2, <1>3, <1>5, <3>5, <3>6, <3>7 DEF HandshakeInv
  <2> QED BY <2>2, <2>3, <2>4, <2>5, <2>6, <2>7
<1> QED BY <1>10, <1>12, <1>13, <1>14 DEF Client

-----------------------------------------------------------------------------

LEMMA HandshakeInit == Init => HandshakeInv
<1> SUFFICES ASSUME Init PROVE HandshakeInv
  OBVIOUS
<1>1. OnceInv
  BY OnceInit
<1>2. NoMsg.kind = "notify" /\ In(<<>>) = {}
  BY DEF NoMsg, Notification, Message, In
<1>3. /\ stdin = <<>> /\ stdout = <<>> /\ working = {} /\ inits = 0 /\ initeds = 0
      /\ initPhase = 0 /\ initReqID = 0 /\ initResponse = NoMsg /\ rl.pc = "read"
      /\ \A c \in Clients : /\ nextID[c] = 0 /\ up[c] = <<>> /\ cl[c] = "new" /\ inbox[c] = <<>>
                            /\ h[c] = [pc |-> "none", msg |-> NoMsg]
  BY DEF Init, At, LoopAtRead, LoopWith
<1>4. ASSUME NEW c \in Clients PROVE OwnerOK(c) /\ HandOK(c) /\ InboxOK(c)
  BY <1>2, <1>3 DEF OwnerOK, HandOK, InboxOK, Honest, Sole, Has, Responses
<1>5. PipesOK /\ LoopOK /\ CacheOK /\ OneBegins
  BY <1>2, <1>3 DEF PipesOK, LoopOK, CacheOK, OneBegins
<1>6. SentOnce
  BY <1>2, <1>3 DEF SentOnce, Single, Unsent, Carriers, Marking, Sole, Has
<1> QED BY <1>1, <1>4, <1>5, <1>6 DEF HandshakeInv

LEMMA HandshakeStep ==
  ASSUME ~Overlap
  PROVE  HandshakeInv /\ [Next]_vars => HandshakeInv'
<1> SUFFICES ASSUME HandshakeInv, [Next]_vars PROVE HandshakeInv'
  OBVIOUS
<1>1. OnceInv'
  BY OnceStep DEF HandshakeInv
<1>2. CASE UNCHANGED vars
  <2>1. \A c \in Clients : OwnerOK(c)' /\ HandOK(c)' /\ InboxOK(c)'
    BY <1>2 DEF HandshakeInv, OwnerOK, HandOK, InboxOK, Honest, Sole, Has, Tracked, Responses,
                IsResponse, vars
  <2>2. PipesOK' /\ LoopOK' /\ CacheOK' /\ OneBegins'
    BY <1>2 DEF HandshakeInv, PipesOK, LoopOK, CacheOK, OneBegins, Honest, Tracked, Welcome, Won,
                IsResponse, vars
  <2>3. SentOnce'
    BY <1>2 DEF HandshakeInv, SentOnce, Single, Unsent, Carriers, Marking, vars
  <2> QED BY <1>1, <2>1, <2>2, <2>3 DEF HandshakeInv
<1>3. ASSUME NEW c \in Clients, Handler(c) PROVE HandshakeInv'
  BY <1>1, <1>3, HandlerHandshake
<1>4. ASSUME NEW c \in Clients, Client(c) PROVE HandshakeInv'
  BY <1>1, <1>4, OwnerHandshake
<1>5. CASE ServerReadLoop
  BY <1>1, <1>5, LoopHandshake
<1>6. CASE AcceptLoop
  BY <1>1, <1>6, AcceptHandshake
<1>7. CASE LanguageServer \/ Reap \/ Environment
  BY <1>1, <1>7, ServerHandshake
<1> QED BY <1>2, <1>3, <1>4, <1>5, <1>6, <1>7 DEF Next

(* While no connection begins a handshake before the first has completed   *)
(* (MayBegin), the server receives initialize and initialized at most      *)
(* once each, however many connections come and go, are killed or find     *)
(* the daemon stopping: what the comment on initPhase promises holds up to *)
(* the overlap that run proxy_duplicate_initialize shows.                  *)
THEOREM HandshakeOnce ==
  ASSUME ~Overlap
  PROVE  Spec => []OneHandshake
<1>1. HandshakeInv => OneHandshake
  BY DEF HandshakeInv, SentOnce, Single, OneHandshake
<1> QED BY HandshakeInit, HandshakeStep, <1>1, PTL DEF Spec

(* In the same circumstances a phase past 0 means that a successful        *)
(* initialize response is cached for the connections to come.              *)
THEOREM PhaseCached ==
  ASSUME ~Overlap
  PROVE  Spec => []PhaseMeansCached
<1>1. HandshakeInv => PhaseMeansCached
  BY DEF HandshakeInv, CacheOK, PhaseMeansCached
<1> QED BY HandshakeInit, HandshakeStep, <1>1, PTL DEF Spec

(* And every session's initialize is answered with success or not at all,  *)
(* and no handler drops its connection for want of a cached response.      *)
THEOREM SessionsServed ==
  ASSUME ~Overlap
  PROVE  Spec => []HandshakeServed
<1>1. HandshakeInv => HandshakeServed
  <2> SUFFICES ASSUME HandshakeInv, NEW c \in Sessions
               PROVE  /\ \A i \in Responses(c) : inbox[c][i].id = InitID => inbox[c][i].ok
                      /\ h[c].pc = "reply" => initResponse # NoMsg
    BY DEF HandshakeServed
  <2>1. HandOK(c) /\ InboxOK(c) /\ CacheOK
    BY DEF HandshakeInv, Clients
  <2> QED BY <2>1 DEF HandOK, InboxOK, CacheOK
<1> QED BY HandshakeInit, HandshakeStep, <1>1, PTL DEF Spec

(* The phase never goes back, which the two goroutines that store it could *)
(* make it do, and the cached response is stored once.                     *)
THEOREM PhaseForward ==
  ASSUME ~Overlap
  PROVE  Spec => PhaseMovesForward
<1> DEFINE Step == /\ initPhase' >= initPhase
                   /\ initResponse # NoMsg => initResponse' = initResponse
<1>1. HandshakeInv /\ [Next]_vars => [Step]_vars
  <2> SUFFICES ASSUME HandshakeInv, Next PROVE Step
    OBVIOUS
  <2>a. initPhase \in 0 .. 2 /\ LoopOK /\ CacheOK
    BY DEF HandshakeInv, OnceInv, RoutingInv, TypeOK
  <2>1. CASE ServerReadLoop
    <3>1. \/ initPhase' = initPhase /\ initResponse' = initResponse
          \/ initPhase' = 1 /\ rl.pc = "store"
      BY <2>1 DEF ServerReadLoop, LoopRead, LoopCheckCache, LoopStoreCache, RouteResponse, LoopAt,
                  RouteServerRequest, RejectServerRequest, BroadcastToClients, LoopDeliver, initVars
    <3>2. rl.pc = "store" => initPhase = 0 /\ initResponse = NoMsg
      BY <2>a DEF LoopOK, CacheOK
    <3> QED BY <2>a, <3>1, <3>2
  <2>2. ASSUME NEW c \in Clients, Handler(c)
        PROVE  initResponse' = initResponse /\ (initPhase' = initPhase \/ initPhase' = 2)
    BY <2>2 DEF Handler, HandlerRead, HandlerRemap, HandlerTrack, HandlerForward, HandlerMark,
                HandlerReply, HandlerEOF, HandlerRemove, HandlerPurge, initVars
  <2>3. ASSUME NEW c \in Clients, Client(c)
        PROVE  initResponse' = initResponse /\ initPhase' = initPhase
    BY <2>3 DEF Client, Dial, ClientInitialize, ClientCall, ClientShutdown, ClientRead,
                ClientClose, Asks, initVars
  <2>4. ASSUME AcceptLoop
        PROVE  initResponse' = initResponse /\ initPhase' = initPhase
    BY <2>4 DEF AcceptLoop, IdleStop, ServerExited, Accept, ShutdownAnswered, ShutdownTimeout,
                ExitObserved, ExitTimeout, Cleanup, ProcessExit, initVars
  <2>5. ASSUME LanguageServer \/ Reap \/ Environment
        PROVE  initResponse' = initResponse /\ initPhase' = initPhase
    BY <2>5 DEF LanguageServer, LSInitialize, LSInitialized, LSTakeRequest, LSAnswer,
                LSShutdown, LSIgnore, LSExit, Reap, Environment, LSNotify, LSRequest, LSSends,
                LSCrash, TimePasses, proxyVars, initVars
  <2> QED BY <2>a, <2>1, <2>2, <2>3, <2>4, <2>5 DEF Next
<1> QED BY HandshakeInit, HandshakeStep, <1>1, PTL DEF Spec, PhaseMovesForward
=============================================================================
