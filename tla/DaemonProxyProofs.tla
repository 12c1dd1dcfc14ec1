-------------------------- MODULE DaemonProxyProofs --------------------------
(***************************************************************************)
(* Proofs about DaemonProxy for every set of connections and every bound:  *)
(* type correctness, and that answers are never misrouted.                 *)
(***************************************************************************)
EXTENDS DaemonProxy, TLAPS

-----------------------------------------------------------------------------
(* Messages.                                                               *)

LEMMA MessageType ==
  ASSUME NEW kind \in Kinds, NEW id \in Nat, NEW c \in Clients \cup {NoClient},
         NEW ok \in BOOLEAN
  PROVE  Message(kind, id, c, ok) \in Msg
BY DEF Message, Msg

LEMMA AppendType ==
  ASSUME NEW s \in Seq(Msg), NEW m \in Msg
  PROVE  Append(s, m) \in Seq(Msg)
OBVIOUS

LEMMA TailType ==
  ASSUME NEW s \in Seq(Msg), s # <<>>
  PROVE  Head(s) \in Msg /\ Tail(s) \in Seq(Msg)
OBVIOUS

LEMMA NoMsgType == NoMsg \in Msg
BY MessageType DEF NoMsg, Notification, Kinds

LEMMA AtReadType ==
  /\ AtRead \in [pc : HandlerPCs, msg : Msg]
  /\ LoopAtRead \in [pc : LoopPCs, msg : Msg, to : SUBSET Clients]
BY NoMsgType DEF AtRead, At, LoopAtRead, LoopWith, HandlerPCs, LoopPCs

LEMMA ResponseType ==
  ASSUME NEW m \in Msg, NEW ok \in BOOLEAN
  PROVE  ResponseTo(m, ok) \in Msg /\ AnswerTo(m) \in Msg
BY DEF ResponseTo, AnswerTo, Msg, Kinds

LEMMA WithIDType ==
  ASSUME NEW m \in Msg, NEW id \in Nat
  PROVE  WithID(m, id) \in Msg
BY DEF WithID, Msg

LEMMA HandlerGoesType ==
  ASSUME TypeOK, NEW c \in Clients, NEW pc \in HandlerPCs, HandlerGoes(c, pc)
  PROVE  h' \in [Clients -> [pc : HandlerPCs, msg : Msg]]
<1>1. h[c].msg \in Msg
  BY DEF TypeOK
<1>2. [pc |-> pc, msg |-> IF pc \in {"read", "remove"} THEN NoMsg ELSE h[c].msg]
        \in [pc : HandlerPCs, msg : Msg]
  BY <1>1, NoMsgType
<1> QED BY <1>2 DEF HandlerGoes, TypeOK

LEMMA LoopDeliversType ==
  ASSUME NEW m \in Msg, NEW T \in SUBSET Clients, LoopDelivers(m, T)
  PROVE  rl' \in [pc : LoopPCs, msg : Msg, to : SUBSET Clients]
BY AtReadType DEF LoopDelivers, LoopPCs

LEMMA WriteType ==
  ASSUME TypeOK, NEW c \in Clients, NEW m \in Msg, WriteToClient(c, m)
  PROVE  inbox' \in [Clients -> Seq(Msg)] /\ closed' \subseteq Clients
<1>1. Append(inbox[c], m) \in Seq(Msg)
  BY AppendType DEF TypeOK
<1>2. inbox' \in [Clients -> Seq(Msg)]
  <2>1. inbox' = [inbox EXCEPT ![c] = Append(inbox[c], m)] \/ inbox' = inbox
    BY DEF WriteToClient
  <2> QED BY <1>1, <2>1 DEF TypeOK
<1>3. closed' \subseteq Clients
  <2>1. closed' = closed \cup {c} \/ closed' = closed
    BY DEF WriteToClient
  <2> QED BY <2>1 DEF TypeOK
<1> QED BY <1>2, <1>3

LEMMA SendsType ==
  ASSUME TypeOK, NEW c \in Clients, NEW m \in Msg, Sends(c, m)
  PROVE  up' \in [Clients -> Seq(Msg)]
<1>1. Append(up[c], m) \in Seq(Msg)
  BY AppendType DEF TypeOK
<1> QED BY <1>1 DEF Sends, TypeOK

-----------------------------------------------------------------------------
(* Type correctness.                                                       *)

LEMMA InitTypeOK == Init => TypeOK
<1> SUFFICES ASSUME Init PROVE TypeOK
  OBVIOUS
<1>1. h \in [Clients -> [pc : HandlerPCs, msg : Msg]]
  BY NoMsgType DEF Init, At, HandlerPCs
<1>2. /\ DOMAIN pending \subseteq 1 .. nextReqID
      /\ pending \in [DOMAIN pending -> [client : Clients, id : Nat]]
  BY DEF Init
<1>3. <<>> \in Seq(Msg)
  OBVIOUS
<1>4. /\ up \in [Clients -> Seq(Msg)] /\ inbox \in [Clients -> Seq(Msg)]
      /\ stdin \in Seq(Msg) /\ stdout \in Seq(Msg) /\ working \subseteq Msg
  BY <1>3 DEF Init
<1>5. /\ cl \in [Clients -> ClientStates] /\ nextID \in [Clients -> Nat]
      /\ seen \in [Clients -> Nat]
      /\ clients \subseteq Clients /\ closed \subseteq Clients
  BY DEF Init, ClientStates
<1>6. /\ rl \in [pc : LoopPCs, msg : Msg, to : SUBSET Clients]
      /\ initResponse \in Msg
  BY NoMsgType, AtReadType DEF Init
<1>7. /\ nextReqID \in Nat /\ initPhase \in 0 .. 2 /\ initReqID \in Nat
      /\ inits \in Nat /\ initeds \in Nat /\ srvMsgs \in Nat
  BY DEF Init
<1>8. /\ al \in AcceptPCs /\ idle \in BOOLEAN /\ shutdownSeen \in BOOLEAN
      /\ ls \in {"up", "exited", "reaped"}
  BY DEF Init, AcceptPCs
<1> QED BY <1>1, <1>2, <1>4, <1>5, <1>6, <1>7, <1>8 DEF TypeOK

LEMMA HandlerTypeOK ==
  ASSUME TypeOK, NEW c \in Clients, Handler(c)
  PROVE  TypeOK'
<1> USE DEF clientVars, initVars, serverVars
<1>1. CASE HandlerRead(c)
  <2>1. /\ Head(up[c]) \in Msg /\ Tail(up[c]) \in Seq(Msg)
        /\ Dispatch(Head(up[c]), initPhase) \in HandlerPCs
    BY <1>1 DEF HandlerRead, TypeOK, Dispatch, IsRequest, HandlerPCs
  <2>2. /\ h' \in [Clients -> [pc : HandlerPCs, msg : Msg]]
        /\ up' \in [Clients -> Seq(Msg)]
    BY <1>1, <2>1, AtReadType DEF HandlerRead, TypeOK
  <2> QED BY <1>1, <2>2 DEF HandlerRead, TypeOK
<1>2. CASE HandlerRemap(c)
  <2>1. nextReqID' = nextReqID + 1 /\ nextReqID' \in Nat /\ h[c].msg \in Msg /\ h[c].msg.id \in Nat
    <3>1. nextReqID \in Nat /\ h[c].msg \in Msg
      BY DEF TypeOK
    <3>2. h[c].msg.id \in Nat
      BY <3>1 DEF Msg
    <3> QED BY <1>2, <3>1, <3>2 DEF HandlerRemap
  <2>2. /\ DOMAIN pending' \subseteq 1 .. nextReqID'
        /\ pending' \in [DOMAIN pending' -> [client : Clients, id : Nat]]
    <3>1. [client |-> c, id |-> h[c].msg.id] \in [client : Clients, id : Nat]
      BY <2>1
    <3>2. DOMAIN pending' = DOMAIN pending \cup {nextReqID'}
      BY <1>2 DEF HandlerRemap
    <3>3. \A d \in DOMAIN pending : pending[d] \in [client : Clients, id : Nat]
      BY DEF TypeOK
    <3>4. \A d \in DOMAIN pending' : pending'[d] \in [client : Clients, id : Nat]
      BY <1>2, <3>1, <3>2, <3>3 DEF HandlerRemap
    <3>5. pending' = [d \in DOMAIN pending' |-> pending'[d]]
      BY <1>2 DEF HandlerRemap
    <3>6. DOMAIN pending' \subseteq 1 .. nextReqID'
      BY <2>1, <3>2 DEF TypeOK
    <3> QED BY <3>4, <3>5, <3>6
  <2>3. h' \in [Clients -> [pc : HandlerPCs, msg : Msg]]
    <3>1. WithID(h[c].msg, nextReqID') \in Msg
      BY <2>1, WithIDType
    <3> QED BY <1>2, <3>1 DEF HandlerRemap, TypeOK, HandlerPCs
  <2> QED BY <1>2, <2>1, <2>2, <2>3 DEF HandlerRemap, TypeOK
<1>3. CASE HandlerTrack(c)
  BY <1>3, HandlerGoesType DEF HandlerTrack, TypeOK, HandlerPCs, Msg
<1>4. CASE HandlerForward(c)
  <2>1. h' \in [Clients -> [pc : HandlerPCs, msg : Msg]]
    BY <1>4, HandlerGoesType DEF HandlerForward, HandlerPCs
  <2>2. stdin' \in Seq(Msg)
    <3>1. h[c].msg \in Msg /\ stdin \in Seq(Msg)
      BY DEF TypeOK
    <3> QED BY <1>4, <3>1, AppendType DEF HandlerForward
  <2> QED BY <1>4, <2>1, <2>2 DEF HandlerForward, TypeOK
<1>5. CASE HandlerMark(c)
  <2>1. h' \in [Clients -> [pc : HandlerPCs, msg : Msg]]
    BY <1>5, HandlerGoesType DEF HandlerMark, HandlerPCs
  <2>2. initPhase' \in 0 .. 2
    BY <1>5 DEF HandlerMark
  <2> QED BY <1>5, <2>1, <2>2 DEF HandlerMark, TypeOK
<1>6. CASE HandlerReply(c)
  <2>1. WithID(initResponse, h[c].msg.id) \in Msg
    BY WithIDType DEF TypeOK, Msg
  <2>2. inbox' \in [Clients -> Seq(Msg)] /\ closed' \subseteq Clients
    BY <1>6, <2>1, WriteType DEF HandlerReply, TypeOK
  <2>3. h' \in [Clients -> [pc : HandlerPCs, msg : Msg]]
    BY <1>6, HandlerGoesType DEF HandlerReply, HandlerPCs
  <2> QED BY <1>6, <2>2, <2>3 DEF HandlerReply, TypeOK
<1>7. CASE HandlerEOF(c)
  BY <1>7, HandlerGoesType DEF HandlerEOF, TypeOK, HandlerPCs
<1>8. CASE HandlerRemove(c)
  BY <1>8, HandlerGoesType DEF HandlerRemove, TypeOK, HandlerPCs
<1>9. CASE HandlerPurge(c)
  <2>1. h' \in [Clients -> [pc : HandlerPCs, msg : Msg]]
    BY <1>9, HandlerGoesType DEF HandlerPurge, HandlerPCs
  <2>2. /\ DOMAIN pending' \subseteq 1 .. nextReqID'
        /\ pending' \in [DOMAIN pending' -> [client : Clients, id : Nat]]
    BY <1>9 DEF HandlerPurge, TypeOK
  <2> QED BY <1>9, <2>1, <2>2 DEF HandlerPurge, TypeOK
<1> QED BY <1>1, <1>2, <1>3, <1>4, <1>5, <1>6, <1>7, <1>8, <1>9 DEF Handler

LEMMA LoopTypeOK ==
  ASSUME TypeOK, ServerReadLoop
  PROVE  TypeOK'
<1> USE DEF clientVars, initVars, serverVars
<1>1. CASE LoopRead
  <2>1. Head(stdout) \in Msg /\ Tail(stdout) \in Seq(Msg)
    BY <1>1, TailType DEF LoopRead, TypeOK
  <2>2. shutdownSeen' \in BOOLEAN
    BY <1>1 DEF LoopRead
  <2>3. rl' \in [pc : LoopPCs, msg : Msg, to : SUBSET Clients]
    BY <1>1, <2>1 DEF LoopRead, LoopWith, LoopPCs
  <2> QED BY <1>1, <2>1, <2>2, <2>3 DEF LoopRead, TypeOK
<1>2. CASE LoopCheckCache
  BY <1>2 DEF LoopCheckCache, LoopWith, TypeOK, LoopPCs
<1>3. CASE LoopStoreCache
  BY <1>3 DEF LoopStoreCache, LoopWith, TypeOK, LoopPCs
<1>4. CASE RouteResponse
  <2>1. CASE rl.msg.id \in DOMAIN pending
    <3>1. /\ pending[rl.msg.id] \in [client : Clients, id : Nat]
          /\ WithID(rl.msg, pending[rl.msg.id].id) \in Msg
      BY <2>1, WithIDType DEF TypeOK
    <3>2. rl' \in [pc : LoopPCs, msg : Msg, to : SUBSET Clients]
      BY <1>4, <2>1, <3>1, LoopDeliversType DEF RouteResponse
    <3>3. /\ DOMAIN pending' \subseteq 1 .. nextReqID'
          /\ pending' \in [DOMAIN pending' -> [client : Clients, id : Nat]]
      BY <1>4, <2>1 DEF RouteResponse, TypeOK
    <3> QED BY <1>4, <3>2, <3>3 DEF RouteResponse, TypeOK
  <2>2. CASE rl.msg.id \notin DOMAIN pending
    BY <1>4, <2>2, AtReadType DEF RouteResponse, TypeOK
  <2> QED BY <2>1, <2>2
<1>5. CASE RouteServerRequest
  <2>1. PICK c \in clients : LoopDelivers(rl.msg, {c})
    BY <1>5 DEF RouteServerRequest
  <2>2. rl.msg \in Msg /\ {c} \in SUBSET Clients
    BY DEF TypeOK
  <2>3. rl' \in [pc : LoopPCs, msg : Msg, to : SUBSET Clients]
    BY <2>1, <2>2, LoopDeliversType
  <2> QED BY <1>5, <2>3 DEF RouteServerRequest, TypeOK
<1>6. CASE RejectServerRequest
  <2>1. AnswerTo(rl.msg) \in Msg
    BY ResponseType DEF TypeOK
  <2> QED BY <1>6, <2>1, AtReadType DEF RejectServerRequest, TypeOK
<1>7. CASE BroadcastToClients
  BY <1>7, LoopDeliversType DEF BroadcastToClients, TypeOK
<1>8. CASE LoopDeliver
  <2>1. PICK c \in rl.to : WriteToClient(c, rl.msg) /\ LoopDelivers(rl.msg, rl.to \ {c})
    BY <1>8 DEF LoopDeliver
  <2>2. c \in Clients /\ rl.msg \in Msg /\ rl.to \ {c} \in SUBSET Clients
    BY DEF TypeOK
  <2>3. inbox' \in [Clients -> Seq(Msg)] /\ closed' \subseteq Clients
    BY <2>1, <2>2, WriteType
  <2>4. rl' \in [pc : LoopPCs, msg : Msg, to : SUBSET Clients]
    BY <2>1, <2>2, LoopDeliversType
  <2> QED BY <1>8, <2>3, <2>4 DEF LoopDeliver, TypeOK
<1> QED BY <1>1, <1>2, <1>3, <1>4, <1>5, <1>6, <1>7, <1>8 DEF ServerReadLoop

LEMMA AcceptTypeOK ==
  ASSUME TypeOK, AcceptLoop \/ TimePasses
  PROVE  TypeOK'
<1> USE DEF clientVars, initVars, serverVars, AcceptGoes, AcceptPCs
<1>1. CASE IdleStop
  <2>1. Message("shutdown", DaemonShutdownID, NoClient, TRUE) \in Msg
    BY MessageType DEF Kinds, DaemonShutdownID
  <2>2. stdin' \in Seq(Msg)
    <3>1. stdin \in Seq(Msg)
      BY DEF TypeOK
    <3> QED BY <1>1, <2>1, <3>1, AppendType DEF IdleStop
  <2>3. al' \in AcceptPCs
    BY <1>1 DEF IdleStop
  <2> QED BY <1>1, <2>2, <2>3 DEF IdleStop, TypeOK
<1>2. CASE ServerExited
  BY <1>2 DEF ServerExited, TypeOK
<1>3. ASSUME NEW c \in Clients, Accept(c)
      PROVE  TypeOK'
  BY <1>3, AtReadType DEF Accept, TypeOK
<1>4. CASE ShutdownAnswered
  <2>1. Notification("exit", NoClient) \in Msg
    BY MessageType DEF Kinds, Notification
  <2>2. stdin' \in Seq(Msg)
    BY <1>4, <2>1, AppendType DEF ShutdownAnswered, TypeOK
  <2> QED BY <1>4, <2>2 DEF ShutdownAnswered, TypeOK
<1>5. CASE ShutdownTimeout
  BY <1>5 DEF ShutdownTimeout, TypeOK
<1>6. CASE ExitObserved
  BY <1>6 DEF ExitObserved, TypeOK
<1>7. CASE ExitTimeout
  BY <1>7 DEF ExitTimeout, TypeOK, Killed
<1>8. CASE Cleanup
  BY <1>8 DEF Cleanup, TypeOK, Killed
<1>9. CASE ProcessExit
  BY <1>9 DEF ProcessExit, TypeOK
<1>10. CASE TimePasses
  BY <1>10 DEF TimePasses, TypeOK
<1> QED BY <1>1, <1>2, <1>3, <1>4, <1>5, <1>6, <1>7, <1>8, <1>9, <1>10 DEF AcceptLoop

LEMMA TakesType ==
  ASSUME TypeOK, NEW kind, LSTakes(kind)
  PROVE  Head(stdin) \in Msg /\ stdin' \in Seq(Msg)
<1>1. stdin \in Seq(Msg) /\ stdin # <<>> /\ stdin' = Tail(stdin)
  BY DEF LSTakes, TypeOK
<1> QED BY <1>1, TailType

LEMMA ServerTypeOK ==
  ASSUME TypeOK, LanguageServer \/ Reap \/ LSNotify \/ LSRequest \/ LSCrash
  PROVE  TypeOK'
<1> USE DEF proxyVars, initVars
<1>a. stdout \in Seq(Msg) /\ inits \in Nat /\ initeds \in Nat /\ working \subseteq Msg
  BY DEF TypeOK
<1>1. CASE LSInitialize
  <2>1. Head(stdin) \in Msg /\ stdin' \in Seq(Msg)
    BY <1>1, TakesType DEF LSInitialize
  <2>2. ResponseTo(Head(stdin), inits = 0) \in Msg
    BY <2>1, ResponseType
  <2>3. stdout' \in Seq(Msg)
    BY <1>1, <1>a, <2>2, AppendType DEF LSInitialize
  <2>4. inits' \in Nat
    BY <1>1, <1>a DEF LSInitialize
  <2> QED BY <1>1, <2>1, <2>3, <2>4 DEF LSInitialize, TypeOK
<1>2. CASE LSInitialized
  <2>1. stdin' \in Seq(Msg)
    BY <1>2, TakesType DEF LSInitialized
  <2>2. initeds' \in Nat
    BY <1>2, <1>a DEF LSInitialized
  <2> QED BY <1>2, <2>1, <2>2 DEF LSInitialized, TypeOK
<1>3. CASE LSTakeRequest
  <2>1. Head(stdin) \in Msg /\ stdin' \in Seq(Msg)
    BY <1>3, TakesType DEF LSTakeRequest
  <2> QED BY <1>3, <2>1 DEF LSTakeRequest, TypeOK
<1>4. CASE LSAnswer
  <2>1. PICK m \in working : /\ working' = working \ {m}
                             /\ stdout' = Append(stdout, ResponseTo(m, inits > 0))
    BY <1>4 DEF LSAnswer
  <2>2. ResponseTo(m, inits > 0) \in Msg
    <3>1. m \in Msg /\ (inits > 0) \in BOOLEAN
      BY <1>a, <2>1
    <3> QED BY <3>1, ResponseType
  <2>3. stdout' \in Seq(Msg) /\ working' \subseteq Msg
    BY <1>a, <2>1, <2>2, AppendType
  <2> QED BY <1>4, <2>3 DEF LSAnswer, TypeOK
<1>5. CASE LSShutdown
  <2>1. Head(stdin) \in Msg /\ stdin' \in Seq(Msg)
    BY <1>5, TakesType DEF LSShutdown
  <2>2. ResponseTo(Head(stdin), TRUE) \in Msg
    BY <2>1, ResponseType
  <2>3. stdout' \in Seq(Msg)
    BY <1>5, <1>a, <2>2, AppendType DEF LSShutdown
  <2> QED BY <1>5, <2>1, <2>3 DEF LSShutdown, TypeOK
<1>6. CASE LSIgnore
  <2>1. stdin' \in Seq(Msg)
    BY <1>6, TakesType DEF LSIgnore
  <2> QED BY <1>6, <2>1 DEF LSIgnore, TypeOK
<1>7. CASE LSExit
  <2>1. stdin' \in Seq(Msg)
    BY <1>7, TakesType DEF LSExit
  <2> QED BY <1>7, <2>1 DEF LSExit, TypeOK
<1>8. CASE Reap
  <2>1. <<>> \in Seq(Msg)
    OBVIOUS
  <2> QED BY <1>8, <2>1 DEF Reap, TypeOK
<1>9. ASSUME NEW kind \in {"notify", "srvreq"}, LSSends(kind)
      PROVE  TypeOK'
  <2>1. srvMsgs' \in Nat
    BY <1>9 DEF LSSends, TypeOK
  <2>2. Message(kind, srvMsgs', NoClient, TRUE) \in Msg
    BY <1>9, <2>1, MessageType DEF Kinds
  <2>3. stdout' \in Seq(Msg)
    BY <1>9, <1>a, <2>2, AppendType DEF LSSends
  <2> QED BY <1>9, <2>1, <2>3 DEF LSSends, TypeOK
<1>10. CASE LSCrash
  BY <1>10 DEF LSCrash, TypeOK
<1> QED BY <1>1, <1>2, <1>3, <1>4, <1>5, <1>6, <1>7, <1>8, <1>9, <1>10
        DEF LanguageServer, LSNotify, LSRequest

LEMMA AsksType ==
  ASSUME TypeOK, NEW c \in Clients, NEW kind \in Kinds, Asks(c, kind)
  PROVE  nextID' \in [Clients -> Nat] /\ up' \in [Clients -> Seq(Msg)]
<1>1. nextID' \in [Clients -> Nat] /\ nextID[c] + 1 \in Nat
  BY DEF Asks, TypeOK
<1>2. Message(kind, nextID[c] + 1, c, TRUE) \in Msg
  BY <1>1, MessageType
<1> QED BY <1>1, <1>2, SendsType DEF Asks

LEMMA ClientTypeOK ==
  ASSUME TypeOK, NEW c \in Clients, Client(c)
  PROVE  TypeOK'
<1> USE DEF daemonVars, initVars, serverVars, ClientStates
<1>1. CASE Dial(c)
  BY <1>1 DEF Dial, TypeOK
<1>2. CASE ClientInitialize(c)
  BY <1>2, AsksType DEF ClientInitialize, Asks, TypeOK, Kinds
<1>3. CASE ClientCall(c)
  BY <1>3, AsksType DEF ClientCall, Asks, TypeOK, Kinds
<1>4. CASE ClientShutdown(c)
  BY <1>4, AsksType DEF ClientShutdown, Asks, TypeOK, Kinds
<1>5. CASE ClientRead(c)
  <2>1. inbox[c][seen[c] + 1] \in Msg
    BY <1>5 DEF ClientRead, TypeOK
  <2>2. /\ Notification("initialized", c) \in Msg /\ Notification("exit", c) \in Msg
        /\ AnswerTo(inbox[c][seen[c] + 1]) \in Msg
    BY <2>1, MessageType, ResponseType DEF Notification, Kinds
  <2>3. up' \in [Clients -> Seq(Msg)] /\ cl' \in [Clients -> ClientStates]
    BY <1>5, <2>2, SendsType DEF ClientRead, TypeOK
  <2>4. seen' \in [Clients -> Nat]
    BY <1>5 DEF ClientRead, TypeOK
  <2> QED BY <1>5, <2>3, <2>4 DEF ClientRead, TypeOK
<1>6. CASE ClientClose(c)
  BY <1>6 DEF ClientClose, TypeOK
<1> QED BY <1>1, <1>2, <1>3, <1>4, <1>5, <1>6 DEF Client

LEMMA NextTypeOK == TypeOK /\ [Next]_vars => TypeOK'
<1> SUFFICES ASSUME TypeOK, [Next]_vars PROVE TypeOK'
  OBVIOUS
<1>1. CASE UNCHANGED vars
  BY <1>1 DEF vars, TypeOK
<1>2. CASE Next
  BY <1>2, HandlerTypeOK, ClientTypeOK, LoopTypeOK, AcceptTypeOK, ServerTypeOK
     DEF Next, Environment
<1> QED BY <1>1, <1>2

(* Every variable of the daemon keeps its type, for any number of          *)
(* connections; in particular no id that is pending was never given out.   *)
THEOREM TypeCorrect == Spec => []TypeOK
BY InitTypeOK, NextTypeOK, PTL DEF Spec

-----------------------------------------------------------------------------
(* What never changes in the goroutines' registrations.                    *)

LEMMA GoesElsewhere ==
  ASSUME TypeOK, NEW c \in Clients, NEW pc, HandlerGoes(c, pc)
  PROVE  /\ h'[c].pc = pc
         /\ \A d \in Clients \ {c} : h'[d] = h[d]
BY DEF HandlerGoes, TypeOK

LEMMA OthersStay ==
  ASSUME TypeOK, NEW c \in Clients, Handler(c)
  PROVE  /\ \A d \in Clients \ {c} : h'[d] = h[d]
         /\ h'[c].pc # "none"
         /\ h'[c].pc = "gone" => HandlerPurge(c)
<1>1. CASE HandlerRead(c)
  BY <1>1 DEF HandlerRead, TypeOK, Dispatch, AtRead, At
<1>2. CASE HandlerRemap(c)
  BY <1>2 DEF HandlerRemap, TypeOK
<1>3. CASE HandlerTrack(c)
  BY <1>3, GoesElsewhere DEF HandlerTrack
<1>4. CASE HandlerForward(c)
  BY <1>4, GoesElsewhere DEF HandlerForward
<1>5. CASE HandlerMark(c)
  BY <1>5, GoesElsewhere DEF HandlerMark
<1>6. CASE HandlerReply(c)
  BY <1>6, GoesElsewhere DEF HandlerReply
<1>7. CASE HandlerEOF(c)
  BY <1>7, GoesElsewhere DEF HandlerEOF
<1>8. CASE HandlerRemove(c)
  BY <1>8, GoesElsewhere DEF HandlerRemove
<1>9. CASE HandlerPurge(c)
  BY <1>9, GoesElsewhere DEF HandlerPurge
<1> QED BY <1>1, <1>2, <1>3, <1>4, <1>5, <1>6, <1>7, <1>8, <1>9 DEF Handler

(* The steps that are not a handler's leave h alone, but for Accept, which *)
(* starts one; and they give out no id.                                    *)
NotHandler ==
  \/ \E c \in Clients : Client(c)
  \/ ServerReadLoop \/ AcceptLoop \/ LanguageServer \/ Reap \/ Environment

LEMMA ElsewhereHandlers ==
  ASSUME TypeOK, NotHandler
  PROVE  h' = h \/ \E c \in Waiting : h' = [h EXCEPT ![c] = AtRead]
<1> USE DEF proxyVars, daemonVars
<1>1. ASSUME NEW c \in Clients, Client(c) PROVE h' = h
  BY <1>1 DEF Client, Dial, ClientInitialize, ClientCall, ClientShutdown, ClientRead,
              ClientClose, Asks
<1>2. ASSUME ServerReadLoop PROVE h' = h
  BY <1>2 DEF ServerReadLoop, LoopRead, LoopCheckCache, LoopStoreCache, RouteResponse,
              RouteServerRequest, RejectServerRequest, BroadcastToClients, LoopDeliver
<1>3. ASSUME AcceptLoop, ~\E c \in Clients : Accept(c) PROVE h' = h
  BY <1>3 DEF AcceptLoop, IdleStop, ServerExited, ShutdownAnswered, ShutdownTimeout,
              ExitObserved, ExitTimeout, Cleanup, ProcessExit
<1>4. ASSUME NEW c \in Clients, Accept(c)
      PROVE  c \in Waiting /\ h' = [h EXCEPT ![c] = AtRead]
  BY <1>4 DEF Accept
<1>5. ASSUME LanguageServer \/ Reap \/ Environment PROVE h' = h
  BY <1>5 DEF LanguageServer, LSInitialize, LSInitialized, LSTakeRequest, LSAnswer,
              LSShutdown, LSIgnore, LSExit, Reap, Environment, LSNotify, LSRequest,
              LSSends, LSCrash, TimePasses
<1> QED BY <1>1, <1>2, <1>3, <1>4, <1>5 DEF NotHandler

LEMMA ElsewherePending ==
  ASSUME TypeOK, NotHandler
  PROVE  /\ nextReqID' = nextReqID /\ initReqID' = initReqID
         /\ DOMAIN pending' \subseteq DOMAIN pending
         /\ \A d \in DOMAIN pending' : pending'[d] = pending[d]
<1> USE DEF proxyVars, daemonVars, initVars
<1>1. ASSUME NEW c \in Clients, Client(c)
      PROVE  nextReqID' = nextReqID /\ initReqID' = initReqID /\ pending' = pending
  BY <1>1 DEF Client, Dial, ClientInitialize, ClientCall, ClientShutdown, ClientRead,
              ClientClose, Asks
<1>2. ASSUME ServerReadLoop
      PROVE  /\ nextReqID' = nextReqID /\ initReqID' = initReqID
             /\ pending' = pending \/ pending' = [d \in DOMAIN pending \ {rl.msg.id} |-> pending[d]]
  BY <1>2 DEF ServerReadLoop, LoopRead, LoopCheckCache, LoopStoreCache, RouteResponse,
              RouteServerRequest, RejectServerRequest, BroadcastToClients, LoopDeliver
<1>3. ASSUME AcceptLoop
      PROVE  nextReqID' = nextReqID /\ initReqID' = initReqID /\ pending' = pending
  BY <1>3 DEF AcceptLoop, IdleStop, ServerExited, Accept, ShutdownAnswered, ShutdownTimeout,
              ExitObserved, ExitTimeout, Cleanup, ProcessExit
<1>4. ASSUME LanguageServer \/ Reap \/ Environment
      PROVE  nextReqID' = nextReqID /\ initReqID' = initReqID /\ pending' = pending
  BY <1>4 DEF LanguageServer, LSInitialize, LSInitialized, LSTakeRequest, LSAnswer,
              LSShutdown, LSIgnore, LSExit, Reap, Environment, LSNotify, LSRequest,
              LSSends, LSCrash, TimePasses
<1> QED BY <1>1, <1>2, <1>3, <1>4 DEF NotHandler

-----------------------------------------------------------------------------
(* The pending table and the connections.                                  *)

LEMMA HandlerPending ==
  ASSUME TypeOK, NEW c \in Clients, Handler(c)
  PROVE  /\ \A d \in DOMAIN pending' :
              pending'[d].client = c \/ (d \in DOMAIN pending /\ pending'[d] = pending[d])
         /\ HandlerPurge(c) => \A d \in DOMAIN pending' :
              /\ d \in DOMAIN pending /\ pending'[d] = pending[d]
              /\ pending'[d].client # c
<1>1. CASE HandlerRemap(c)
  <2>1. ~HandlerPurge(c)
    BY <1>1 DEF HandlerRemap, HandlerPurge, HandlerAt
  <2> QED BY <1>1, <2>1 DEF HandlerRemap
<1>2. CASE HandlerPurge(c)
  BY <1>2 DEF HandlerPurge, Purged
<1>3. ASSUME ~HandlerRemap(c), ~HandlerPurge(c) PROVE pending' = pending
  BY <1>3 DEF Handler, HandlerRead, HandlerTrack, HandlerForward, HandlerMark, HandlerReply,
              HandlerEOF, HandlerRemove
<1> QED BY <1>1, <1>2, <1>3

(* An entry of d.pending always belongs to a connection whose handler is   *)
(* still to run removeClient, however many connections there are.          *)
THEOREM PendingOwned == Spec => []PendingIsOwned
<1>1. Init => PendingIsOwned
  BY DEF Init, PendingIsOwned
<1>2. TypeOK /\ PendingIsOwned /\ [Next]_vars => PendingIsOwned'
  <2> SUFFICES ASSUME TypeOK, PendingIsOwned, [Next]_vars,
                      NEW d \in DOMAIN pending'
               PROVE  h'[pending'[d].client].pc \notin {"none", "gone"}
    BY DEF PendingIsOwned
  <2>1. CASE UNCHANGED vars
    BY <2>1 DEF vars, PendingIsOwned
  <2>2. ASSUME NEW c \in Clients, Handler(c)
        PROVE  h'[pending'[d].client].pc \notin {"none", "gone"}
    <3>1. CASE pending'[d].client = c
      BY <2>2, <3>1, HandlerPending, OthersStay
    <3>2. CASE pending'[d].client # c
      <4>1. d \in DOMAIN pending /\ pending'[d] = pending[d]
        BY <2>2, <3>2, HandlerPending
      <4>2. pending[d].client \in Clients
        BY <4>1 DEF TypeOK
      <4> QED BY <2>2, <3>2, <4>1, <4>2, OthersStay DEF PendingIsOwned
    <3> QED BY <3>1, <3>2
  <2>3. CASE NotHandler
    <3>1. d \in DOMAIN pending /\ pending'[d] = pending[d]
      BY <2>3, ElsewherePending
    <3>2. pending[d].client \in Clients
      BY <3>1 DEF TypeOK
    <3>3. h[pending[d].client].pc \notin {"none", "gone"}
      BY <3>1 DEF PendingIsOwned
    <3>4. ASSUME NEW c \in Waiting, h' = [h EXCEPT ![c] = AtRead]
          PROVE  h'[pending[d].client] = h[pending[d].client]
      <4>1. c # pending[d].client
        BY <3>3 DEF Waiting
      <4> QED BY <3>2, <3>4, <4>1 DEF TypeOK
    <3> QED BY <2>3, <3>1, <3>3, <3>4, ElsewhereHandlers
  <2> QED BY <2>1, <2>2, <2>3 DEF Next, NotHandler
<1> QED BY <1>1, <1>2, TypeCorrect, PTL DEF Spec

(* A handler that has not yet run removeClient keeps its connection in     *)
(* d.clients, until cleanup empties the map.                               *)
Registered ==
  al \in {"loop", "shutdown", "waitexit", "cleanup"} =>
    \A c \in Clients : h[c].pc \in {"none", "purge", "gone"} \/ c \in clients

LEMMA HandlerRegistered ==
  ASSUME TypeOK, Registered, NEW c \in Clients, Handler(c)
  PROVE  Registered' /\ al' = al /\ clients' \subseteq clients
         /\ (h[c].pc # "purge" => c \in clients \/ al \in {"exit", "gone"})
<1>1. al' = al
  BY DEF Handler, HandlerRead, HandlerRemap, HandlerTrack, HandlerForward, HandlerMark,
         HandlerReply, HandlerEOF, HandlerRemove, HandlerPurge
<1>2. h[c].pc \notin {"none", "gone"}
  BY DEF Handler, HandlerRead, HandlerRemap, HandlerTrack, HandlerForward, HandlerMark,
         HandlerReply, HandlerEOF, HandlerRemove, HandlerPurge, HandlerAt
<1>3. CASE HandlerRemove(c)
  <2>1. h'[c].pc = "purge" /\ \A d \in Clients \ {c} : h'[d] = h[d]
    BY <1>3, GoesElsewhere DEF HandlerRemove
  <2>2. clients' = clients \ {c} /\ h[c].pc = "remove"
    BY <1>3 DEF HandlerRemove, HandlerAt
  <2> QED BY <1>1, <1>2, <2>1, <2>2 DEF Registered, TypeOK, AcceptPCs
<1>4. CASE HandlerPurge(c)
  <2>1. h[c].pc = "purge" /\ h'[c].pc = "gone" /\ clients' = clients
        /\ \A d \in Clients \ {c} : h'[d] = h[d]
    BY <1>4, GoesElsewhere DEF HandlerPurge, HandlerAt
  <2> QED BY <1>1, <2>1 DEF Registered
<1>5. ASSUME ~HandlerRemove(c), ~HandlerPurge(c)
      PROVE  clients' = clients /\ h[c].pc # "purge"
  BY <1>5 DEF Handler, HandlerRead, HandlerRemap, HandlerTrack, HandlerForward, HandlerMark,
              HandlerReply, HandlerEOF, HandlerAt
<1> QED BY <1>1, <1>2, <1>3, <1>4, <1>5, OthersStay DEF Registered, TypeOK, AcceptPCs

(* From the idle stop's shutdown request to cleanup, d.clients is empty    *)
(* and every handler that ever ran has left its loop, so nothing follows   *)
(* the shutdown request but exit.                                          *)
THEOREM IdleStopAlone == Spec => []IdleStopIsAlone
<1> DEFINE I == Registered /\ IdleStopIsAlone
<1>1. Init => I
  BY DEF Init, IdleStopIsAlone, Registered, At
<1>2. TypeOK /\ I /\ [Next]_vars => I'
  <2> SUFFICES ASSUME TypeOK, I, [Next]_vars PROVE I'
    OBVIOUS
  <2> USE DEF proxyVars, daemonVars
  <2>1. CASE UNCHANGED vars
    BY <2>1 DEF vars, IdleStopIsAlone, Registered
  <2>2. ASSUME NEW c \in Clients, Handler(c) PROVE I'
    <3>1. Registered' /\ al' = al /\ clients' \subseteq clients
      BY <2>2, HandlerRegistered
    <3>2. ASSUME al \in {"shutdown", "waitexit"}
          PROVE  \A d \in Clients : h'[d].pc \in {"none", "purge", "gone"}
      <4>1. clients' = {} /\ Registered'
        BY <3>1, <3>2 DEF IdleStopIsAlone
      <4> QED BY <3>1, <3>2, <4>1 DEF Registered
    <3> QED BY <3>1, <3>2 DEF IdleStopIsAlone
  <2>3. ASSUME NEW c \in Clients, Accept(c) PROVE I'
    <3>1. /\ al = "loop" /\ al' \in {"loop", "cleanup"} /\ clients' = clients \cup {c}
          /\ h' = [h EXCEPT ![c] = AtRead] /\ h \in [Clients -> [pc : HandlerPCs, msg : Msg]]
      BY <2>3 DEF Accept, AcceptGoes, TypeOK
    <3>2. \A d \in Clients : h'[d].pc \in {"none", "purge", "gone"} \/ d \in clients'
      BY <3>1 DEF Registered
    <3> QED BY <3>1, <3>2 DEF Registered, IdleStopIsAlone
  <2>4. ASSUME AcceptLoop, \A c \in Clients : ~Accept(c)
        PROVE  /\ h' = h
               /\ \/ clients' = clients /\ al # "loop" /\ al' # "shutdown" /\ (al' = "waitexit" => al = "shutdown")
                  \/ clients' = clients /\ al' = "cleanup" /\ al = "loop"
                  \/ clients' = clients /\ clients = {} /\ al = "loop"
                  \/ al' = "exit"
    BY <2>4 DEF AcceptLoop, IdleStop, ServerExited, ShutdownAnswered, ShutdownTimeout,
                ExitObserved, ExitTimeout, Cleanup, ProcessExit, AcceptGoes
  <2>5. ASSUME AcceptLoop, \A c \in Clients : ~Accept(c)
        PROVE  al' \in {"loop", "shutdown", "waitexit", "cleanup"} =>
                 al \in {"loop", "shutdown", "waitexit", "cleanup"}
    BY <2>5 DEF AcceptLoop, IdleStop, ServerExited, ShutdownAnswered, ShutdownTimeout,
                ExitObserved, ExitTimeout, Cleanup, ProcessExit, AcceptGoes
  <2>6. ASSUME AcceptLoop, \A c \in Clients : ~Accept(c) PROVE I'
    BY <2>4, <2>5, <2>6 DEF Registered, IdleStopIsAlone
  <2>7. ASSUME NEW c \in Clients, Client(c)
        PROVE  al' = al /\ clients' = clients /\ h' = h
    BY <2>7 DEF Client, Dial, ClientInitialize, ClientCall, ClientShutdown, ClientRead,
                ClientClose, Asks
  <2>8. ASSUME ServerReadLoop
        PROVE  al' = al /\ clients' = clients /\ h' = h
    BY <2>8 DEF ServerReadLoop, LoopRead, LoopCheckCache, LoopStoreCache, RouteResponse,
                RouteServerRequest, RejectServerRequest, BroadcastToClients, LoopDeliver
  <2>9. ASSUME LanguageServer \/ Reap \/ Environment
        PROVE  al' = al /\ clients' = clients /\ h' = h
    BY <2>9 DEF LanguageServer, LSInitialize, LSInitialized, LSTakeRequest, LSAnswer,
                LSShutdown, LSIgnore, LSExit, Reap, Environment, LSNotify, LSRequest,
                LSSends, LSCrash, TimePasses
  <2> QED BY <2>1, <2>2, <2>3, <2>6, <2>7, <2>8, <2>9 DEF Next, IdleStopIsAlone, Registered
<1>3. I => IdleStopIsAlone
  OBVIOUS
<1> QED BY <1>1, <1>2, <1>3, TypeCorrect, PTL DEF Spec

-----------------------------------------------------------------------------
(* Answers are never misrouted.  The inductive invariant: a table f of the *)
(* daemon's ids exists, in which id d stands for request f[d].id of        *)
(* connection f[d].client, such that every message on its way to or from   *)
(* the server under a daemon id is, or answers, the request f names; and   *)
(* requests and cached responses are what the connections take them for.   *)

(* m may be written to c as a response. *)
Proper(c, m) ==
  /\ m.id \in 1 .. nextID[c]
  /\ (m.from = c /\ m.call = m.id) \/ (m.id = InitID /\ m.call = InitID)

(* m answers the request of c whose id it bears. *)
Issued(c, m) == m.from = c /\ m.call = m.id /\ m.id \in 1 .. nextID[c]

(* c is a connection whose owner has sent its initialize. *)
Began(c) == c \in Clients /\ InitID \in 1 .. nextID[c]

(* m is a request of c, as its owner numbered it. *)
Numbered(c, m) ==
  /\ m.from = c /\ m.call = m.id /\ m.id \in 1 .. nextID[c]
  /\ m.kind = "initialize" => m.id = InitID

In(s) == {s[i] : i \in DOMAIN s}

OwnNumbers ==
  /\ \A c \in Clients : cl[c] \in {"new", "open"} => nextID[c] = 0
  /\ \A c \in Clients : \A m \in In(up[c]) : IsRequest(m) => Numbered(c, m)
  /\ \A c \in Clients : h[c].pc \in {"remap", "reply"} => Numbered(c, h[c].msg)
  /\ \A c \in Clients : h[c].pc = "reply" => h[c].msg.kind = "initialize"
  /\ \A d \in DOMAIN pending : pending[d].id \in 1 .. nextID[pending[d].client]

Tables == [1 .. nextReqID -> [client : Clients, id : Nat]]

(* The id of m is the one f gave the request m is, or answers. *)
Tagged(f, m) ==
  m.id # DaemonShutdownID =>
    m.id \in 1 .. nextReqID /\ f[m.id].client = m.from /\ f[m.id].id = m.call

PendingIn(f)   == \A d \in DOMAIN pending : pending[d] = f[d]
ForwardedIn(f) == \A c \in Clients :
  h[c].pc \in {"track", "forward"} /\ IsRequest(h[c].msg) => Tagged(f, h[c].msg)
SentIn(f)      == \A m \in In(stdin) : IsRequest(m) => Tagged(f, m)
WorkedIn(f)    == \A m \in working : Tagged(f, m)
AnsweredIn(f)  == \A m \in In(stdout) : IsResponse(m) => Tagged(f, m)
RoutedIn(f)    == rl.pc \in {"cache", "store", "route"} /\ IsResponse(rl.msg) => Tagged(f, rl.msg)
IssuedIn(f)    == \A d \in 1 .. nextReqID : f[d].id \in 1 .. nextID[f[d].client]
TrackedIn(f)   == initReqID # 0 => initReqID \in 1 .. nextReqID /\ f[initReqID].id = InitID

Attributed(f) ==
  /\ PendingIn(f) /\ ForwardedIn(f) /\ SentIn(f) /\ WorkedIn(f) /\ AnsweredIn(f)
  /\ RoutedIn(f) /\ TrackedIn(f) /\ IssuedIn(f)

(* What is tracked, cached or replied as an initialize is one. *)
CacheHoldsInit ==
  /\ \A c \in Clients : h[c].pc = "track" => IsRequest(h[c].msg) /\ h[c].msg.call = InitID
                                           /\ h[c].msg.id # 0
  /\ rl.pc = "store" => IsResponse(rl.msg) /\ rl.msg.call = InitID /\ Began(rl.msg.from)
  /\ initResponse # NoMsg => initResponse.call = InitID /\ Began(initResponse.from)

DeliversOwn ==
  rl.pc = "deliver" /\ IsResponse(rl.msg) => \A c \in rl.to : Issued(c, rl.msg)

RoutingInv ==
  /\ TypeOK /\ OwnNumbers /\ CacheHoldsInit /\ DeliversOwn /\ AnswersAreOwn
  /\ \E f \in Tables : Attributed(f)

LEMMA InAppend ==
  ASSUME NEW s \in Seq(Msg), NEW m \in Msg
  PROVE  In(Append(s, m)) = In(s) \cup {m}
<1>1. DOMAIN Append(s, m) = DOMAIN s \cup {Len(s) + 1}
  OBVIOUS
<1>2. \A i \in DOMAIN s : Append(s, m)[i] = s[i]
  OBVIOUS
<1>3. Append(s, m)[Len(s) + 1] = m
  OBVIOUS
<1> QED BY <1>1, <1>2, <1>3 DEF In

LEMMA InTail ==
  ASSUME NEW s \in Seq(Msg), s # <<>>
  PROVE  Head(s) \in In(s) /\ In(Tail(s)) \subseteq In(s)
<1>1. 1 \in DOMAIN s /\ Head(s) = s[1]
  OBVIOUS
<1>2. \A i \in DOMAIN Tail(s) : i + 1 \in DOMAIN s /\ Tail(s)[i] = s[i + 1]
  OBVIOUS
<1> QED BY <1>1, <1>2 DEF In

(* Only the owners move their numbers, and only up. *)
LEMMA ServerSideLeavesOwners ==
  ASSUME ServerReadLoop \/ AcceptLoop \/ LanguageServer \/ Reap \/ Environment
  PROVE  cl' = cl /\ nextID' = nextID /\ up' = up
<1> USE DEF proxyVars, clientVars
<1>1. CASE ServerReadLoop
  BY <1>1 DEF ServerReadLoop, LoopRead, LoopCheckCache, LoopStoreCache, RouteResponse,
              RouteServerRequest, RejectServerRequest, BroadcastToClients, LoopDeliver
<1>2. CASE AcceptLoop
  BY <1>2 DEF AcceptLoop, IdleStop, ServerExited, Accept, ShutdownAnswered, ShutdownTimeout,
              ExitObserved, ExitTimeout, Cleanup, ProcessExit
<1>3. CASE LanguageServer \/ Reap \/ Environment
  BY <1>3 DEF LanguageServer, LSInitialize, LSInitialized, LSTakeRequest, LSAnswer,
              LSShutdown, LSIgnore, LSExit, Reap, Environment, LSNotify, LSRequest,
              LSSends, LSCrash, TimePasses
<1> QED BY <1>1, <1>2, <1>3

LEMMA HandlerLeavesOwners ==
  ASSUME NEW c \in Clients, Handler(c)
  PROVE  cl' = cl /\ nextID' = nextID /\ (up' = up \/ HandlerRead(c))
BY DEF Handler, HandlerRead, HandlerRemap, HandlerTrack, HandlerForward, HandlerMark,
       HandlerReply, HandlerEOF, HandlerRemove, HandlerPurge, clientVars

LEMMA NumbersGrow ==
  ASSUME TypeOK, [Next]_vars, NEW c \in Clients
  PROVE  nextID[c] \in Nat /\ nextID'[c] \in Nat /\ nextID[c] <= nextID'[c]
<1>a. nextID \in [Clients -> Nat]
  BY DEF TypeOK
<1>1. CASE nextID' = nextID
  BY <1>1, <1>a
<1>2. ASSUME NEW d \in Clients, Client(d), nextID' # nextID
      PROVE  nextID' = [nextID EXCEPT ![d] = @ + 1]
  BY <1>2 DEF Client, Dial, ClientInitialize, ClientCall, ClientShutdown, ClientRead,
              ClientClose, Asks
<1>3. nextID' = nextID \/ \E d \in Clients : nextID' = [nextID EXCEPT ![d] = @ + 1]
  BY <1>2, ServerSideLeavesOwners, HandlerLeavesOwners DEF Next, vars
<1>4. ASSUME NEW d \in Clients, nextID' = [nextID EXCEPT ![d] = @ + 1]
      PROVE  nextID'[c] = nextID[c] \/ nextID'[c] = nextID[c] + 1
  BY <1>4, <1>a
<1>5. nextID[c] \in Nat
  BY <1>a
<1>6. nextID'[c] = nextID[c] \/ nextID'[c] = nextID[c] + 1
  BY <1>3, <1>4
<1> QED BY <1>5, <1>6

LEMMA ProperStays ==
  ASSUME TypeOK, [Next]_vars, NEW c \in Clients, NEW m \in Msg, Proper(c, m)
  PROVE  Proper(c, m)'
BY NumbersGrow DEF Proper, Msg

LEMMA IssuedStays ==
  ASSUME TypeOK, [Next]_vars, NEW c \in Clients, NEW m \in Msg, Issued(c, m)
  PROVE  Issued(c, m)'
BY NumbersGrow DEF Issued, Msg

LEMMA BeganStays ==
  ASSUME TypeOK, [Next]_vars, NEW c, Began(c)
  PROVE  Began(c)'
BY NumbersGrow DEF Began, InitID

LEMMA NumberedStays ==
  ASSUME TypeOK, [Next]_vars, NEW c \in Clients, NEW m \in Msg, Numbered(c, m)
  PROVE  Numbered(c, m)'
BY NumbersGrow DEF Numbered, Msg

(* What a connection's owner writes: its next request, or nothing numbered. *)
LEMMA OwnersNumber ==
  ASSUME TypeOK, OwnNumbers, NEW c \in Clients, Client(c)
  PROVE  /\ h' = h /\ pending' = pending
         /\ \A d \in Clients \ {c} : cl'[d] = cl[d] /\ nextID'[d] = nextID[d] /\ up'[d] = up[d]
         /\ cl'[c] \in {"new", "open"} => nextID'[c] = 0
         /\ \A m \in In(up'[c]) : m \in In(up[c]) \/ (IsRequest(m) => Numbered(c, m)')
<1> USE DEF daemonVars
<1>a. /\ cl \in [Clients -> ClientStates] /\ nextID \in [Clients -> Nat]
      /\ up \in [Clients -> Seq(Msg)] /\ inbox \in [Clients -> Seq(Msg)] /\ seen \in [Clients -> Nat]
  BY DEF TypeOK
<1>b. cl[c] \in {"new", "open"} => nextID[c] = 0
  BY DEF OwnNumbers
<1>1. ASSUME NEW kind \in {"initialize", "request", "shutdown"}, Asks(c, kind),
             kind = "initialize" => nextID[c] = 0
      PROVE  /\ \A d \in Clients \ {c} : nextID'[d] = nextID[d] /\ up'[d] = up[d]
             /\ \A m \in In(up'[c]) : m \in In(up[c]) \/ (IsRequest(m) => Numbered(c, m)')
  <2> DEFINE n == Message(kind, nextID[c] + 1, c, TRUE)
  <2>1. nextID' = [nextID EXCEPT ![c] = @ + 1] /\ up' = [up EXCEPT ![c] = Append(@, n)]
    BY <1>1 DEF Asks, Sends
  <2>2. n \in Msg
    <3>1. kind \in Kinds /\ nextID[c] + 1 \in Nat
      BY <1>a DEF Kinds
    <3> QED BY <3>1, MessageType
  <2>3. up'[c] = Append(up[c], n) /\ up[c] \in Seq(Msg)
    BY <2>1, <1>a
  <2>4. In(up'[c]) = In(up[c]) \cup {n}
    BY <2>2, <2>3, InAppend
  <2>5. nextID'[c] = nextID[c] + 1 /\ nextID[c] \in Nat
    BY <2>1, <1>a
  <2>6. n.from = c /\ n.call = nextID[c] + 1 /\ n.id = nextID[c] + 1 /\ n.kind = kind
    BY DEF Message
  <2>7. ASSUME NEW m, m = n PROVE Numbered(c, m)'
    <3>1. m.from = c /\ m.call = m.id /\ m.id = nextID[c] + 1 /\ m.kind = kind
      BY <2>6, <2>7
    <3>2. m.id \in 1 .. nextID'[c] /\ (m.kind = "initialize" => m.id = InitID)
      BY <1>1, <2>5, <3>1 DEF InitID
    <3> QED BY <3>1, <3>2 DEF Numbered
  <2>8. \A d \in Clients \ {c} : nextID'[d] = nextID[d] /\ up'[d] = up[d]
    BY <2>1, <1>a
  <2> HIDE DEF n
  <2> QED BY <2>4, <2>7, <2>8
<1>2. CASE Dial(c)
  BY <1>2, <1>a, <1>b DEF Dial
<1>3. CASE ClientInitialize(c)
  <2>1. Asks(c, "initialize") /\ nextID[c] = 0 /\ cl' = [cl EXCEPT ![c] = "initializing"]
    BY <1>3, <1>b DEF ClientInitialize
  <2> QED BY <2>1, <1>1, <1>a DEF Asks
<1>4. CASE ClientCall(c)
  <2>1. Asks(c, "request") /\ cl' = cl /\ cl[c] = "ready"
    BY <1>4 DEF ClientCall
  <2> QED BY <2>1, <1>1, <1>a DEF Asks
<1>5. CASE ClientShutdown(c)
  <2>1. Asks(c, "shutdown") /\ cl' = [cl EXCEPT ![c] = "stopping"]
    BY <1>5 DEF ClientShutdown
  <2> QED BY <2>1, <1>1, <1>a DEF Asks
<1>6. CASE ClientRead(c)
  <2> DEFINE r == inbox[c][seen[c] + 1]
  <2>1. r \in Msg
    BY <1>6, <1>a DEF ClientRead
  <2>2. ASSUME NEW n \in Msg, ~IsRequest(n), Sends(c, n)
        PROVE  /\ \A d \in Clients \ {c} : up'[d] = up[d]
               /\ \A m \in In(up'[c]) : m \in In(up[c]) \/ ~IsRequest(m)
    <3>1. up'[c] = Append(up[c], n) /\ up[c] \in Seq(Msg)
      BY <2>2, <1>a DEF Sends
    <3>2. In(up'[c]) = In(up[c]) \cup {n}
      BY <3>1, InAppend
    <3>3. \A d \in Clients \ {c} : up'[d] = up[d]
      BY <2>2, <1>a DEF Sends
    <3> QED BY <2>2, <3>2, <3>3
  <2>3. /\ Notification("initialized", c) \in Msg /\ ~IsRequest(Notification("initialized", c))
        /\ Notification("exit", c) \in Msg /\ ~IsRequest(Notification("exit", c))
        /\ AnswerTo(r) \in Msg /\ ~IsRequest(AnswerTo(r))
    BY <2>1, MessageType, ResponseType DEF Notification, Message, Kinds, AnswerTo, IsRequest
  <2>4. up' = up \/ Sends(c, Notification("initialized", c)) \/ Sends(c, Notification("exit", c))
          \/ Sends(c, AnswerTo(r))
    BY <1>6 DEF ClientRead
  <2>5. /\ \A d \in Clients \ {c} : up'[d] = up[d]
        /\ \A m \in In(up'[c]) : m \in In(up[c]) \/ ~IsRequest(m)
    BY <2>2, <2>3, <2>4
  <2>6. /\ \A d \in Clients \ {c} : cl'[d] = cl[d]
        /\ cl'[c] \notin {"new", "open"}
    <3>1. \/ cl' = cl \/ cl' = [cl EXCEPT ![c] = "ready"]
          \/ cl' = [cl EXCEPT ![c] = "closed"]
      BY <1>6 DEF ClientRead
    <3>2. cl[c] \notin {"new", "open"}
      BY <1>6 DEF ClientRead
    <3> QED BY <3>1, <3>2, <1>a
  <2>7. h' = h /\ pending' = pending /\ nextID' = nextID
    BY <1>6 DEF ClientRead
  <2> QED BY <2>5, <2>6, <2>7
<1>7. CASE ClientClose(c)
  BY <1>7, <1>a DEF ClientClose
<1> QED BY <1>2, <1>3, <1>4, <1>5, <1>6, <1>7 DEF Client

LEMMA HandlersNumber ==
  ASSUME TypeOK, OwnNumbers, NEW c \in Clients, Handler(c)
  PROVE  /\ \A d \in Clients : In(up'[d]) \subseteq In(up[d])
         /\ h'[c].pc \in {"remap", "reply"} =>
              HandlerRead(c) /\ h'[c].msg \in In(up[c]) /\ IsRequest(h'[c].msg)
         /\ h'[c].pc = "reply" => h'[c].msg.kind = "initialize"
         /\ \A d \in DOMAIN pending' :
              \/ d \in DOMAIN pending /\ pending'[d] = pending[d]
              \/ h[c].pc = "remap" /\ pending'[d] = [client |-> c, id |-> h[c].msg.id]
<1>a. up \in [Clients -> Seq(Msg)] /\ h \in [Clients -> [pc : HandlerPCs, msg : Msg]]
  BY DEF TypeOK
<1>1. CASE HandlerRead(c)
  <2> DEFINE m == Head(up[c])
  <2>1. up[c] \in Seq(Msg) /\ up[c] # <<>> /\ up' = [up EXCEPT ![c] = Tail(up[c])]
    BY <1>1, <1>a DEF HandlerRead
  <2>2. m \in In(up[c]) /\ In(Tail(up[c])) \subseteq In(up[c])
    BY <2>1, InTail
  <2>3. \A d \in Clients : In(up'[d]) \subseteq In(up[d])
    BY <2>1, <2>2, <1>a
  <2>4. h'[c] = AtRead \/ h'[c] = [pc |-> Dispatch(m, initPhase), msg |-> m]
    BY <1>1, <1>a DEF HandlerRead
  <2>5. h'[c].pc \in {"remap", "reply"} => h'[c].msg = m /\ h'[c].pc = Dispatch(m, initPhase)
    BY <2>4 DEF AtRead, At
  <2>6. /\ Dispatch(m, initPhase) \in {"remap", "reply"} => IsRequest(m)
        /\ Dispatch(m, initPhase) = "reply" => m.kind = "initialize"
    BY DEF Dispatch, IsRequest
  <2>7. pending' = pending
    BY <1>1 DEF HandlerRead
  <2> HIDE DEF m
  <2> QED BY <1>1, <2>2, <2>3, <2>5, <2>6, <2>7
<1>2. CASE HandlerRemap(c)
  BY <1>2, <1>a DEF HandlerRemap, HandlerAt, clientVars
<1>3. CASE HandlerPurge(c)
  BY <1>3, GoesElsewhere DEF HandlerPurge, clientVars
<1>4. ASSUME ~HandlerRead(c), ~HandlerRemap(c), ~HandlerPurge(c)
      PROVE  up' = up /\ pending' = pending /\ h'[c].pc \notin {"remap", "reply"}
  BY <1>4, GoesElsewhere DEF Handler, HandlerTrack, HandlerForward, HandlerMark, HandlerReply,
              HandlerEOF, HandlerRemove, clientVars
<1> QED BY <1>1, <1>2, <1>3, <1>4

LEMMA OwnNumbersStep ==
  ASSUME TypeOK, OwnNumbers, [Next]_vars
  PROVE  OwnNumbers'
<1>a. /\ \A c \in Clients : up[c] \in Seq(Msg) /\ In(up[c]) \subseteq Msg
      /\ \A c \in Clients : h[c].msg \in Msg
      /\ \A d \in DOMAIN pending : pending[d].client \in Clients /\ pending[d].id \in Nat
  BY DEF TypeOK, In
<1>1. CASE UNCHANGED vars
  BY <1>1 DEF vars, OwnNumbers, Numbered
<1>2. ASSUME NEW c \in Clients, Client(c) PROVE OwnNumbers'
  <2>1. \A d \in Clients : cl'[d] \in {"new", "open"} => nextID'[d] = 0
    BY <1>2, OwnersNumber DEF OwnNumbers
  <2>2. ASSUME NEW d \in Clients, NEW m \in In(up'[d]), IsRequest(m) PROVE Numbered(d, m)'
    <3>1. m \in In(up[d]) => Numbered(d, m)'
      BY <2>2, <1>a, NumberedStays DEF OwnNumbers
    <3> QED BY <1>2, <2>2, <3>1, OwnersNumber
  <2>3. ASSUME NEW d \in Clients, h'[d].pc \in {"remap", "reply"}
        PROVE  Numbered(d, h[d].msg)' /\ (h'[d].pc = "reply" => h'[d].msg.kind = "initialize")
    <3>1. h' = h
      BY <1>2, OwnersNumber
    <3>2. PICK m \in Msg : m = h[d].msg
      BY <1>a
    <3>3. Numbered(d, m) /\ (h[d].pc = "reply" => m.kind = "initialize")
      BY <2>3, <3>1, <3>2 DEF OwnNumbers
    <3>4. Numbered(d, m)'
      BY <3>3, NumberedStays
    <3> QED BY <3>1, <3>2, <3>3, <3>4 DEF Numbered
  <2>4. ASSUME NEW d \in DOMAIN pending'
        PROVE  pending'[d].id \in 1 .. nextID'[pending'[d].client]
    <3>1. pending' = pending
      BY <1>2, OwnersNumber
    <3>2. pending[d].id \in 1 .. nextID[pending[d].client]
      BY <3>1, <2>4 DEF OwnNumbers
    <3> QED BY <1>a, <3>1, <3>2, NumbersGrow
  <2> QED BY <2>1, <2>2, <2>3, <2>4 DEF OwnNumbers
<1>3. ASSUME NEW c \in Clients, Handler(c) PROVE OwnNumbers'
  <2>1. cl' = cl /\ nextID' = nextID
    BY <1>3, HandlerLeavesOwners
  <2>2. \A d \in Clients : \A m : Numbered(d, m)' <=> Numbered(d, m)
    BY <2>1 DEF Numbered
  <2>3. ASSUME NEW d \in Clients, NEW m \in In(up'[d]), IsRequest(m) PROVE Numbered(d, m)'
    BY <1>3, <2>2, <2>3, HandlersNumber DEF OwnNumbers
  <2>4. ASSUME NEW d \in Clients, h'[d].pc \in {"remap", "reply"}
        PROVE  Numbered(d, h[d].msg)' /\ (h'[d].pc = "reply" => h'[d].msg.kind = "initialize")
    <3>1. CASE d = c
      <4>1. /\ h'[c].msg \in In(up[c]) /\ IsRequest(h'[c].msg)
            /\ h'[c].pc = "reply" => h'[c].msg.kind = "initialize"
        BY <1>3, <2>4, <3>1, HandlersNumber
      <4>2. Numbered(c, h'[c].msg)
        BY <4>1 DEF OwnNumbers
      <4> QED BY <2>1, <3>1, <4>1, <4>2 DEF Numbered
    <3>2. CASE d # c
      <4>1. h'[d] = h[d]
        BY <1>3, <3>2, OthersStay
      <4>2. Numbered(d, h[d].msg) /\ (h[d].pc = "reply" => h[d].msg.kind = "initialize")
        BY <2>4, <4>1 DEF OwnNumbers
      <4> QED BY <2>1, <4>1, <4>2 DEF Numbered
    <3> QED BY <3>1, <3>2
  <2>5. ASSUME NEW d \in DOMAIN pending'
        PROVE  pending'[d].id \in 1 .. nextID'[pending'[d].client]
    <3>1. CASE d \in DOMAIN pending /\ pending'[d] = pending[d]
      BY <2>1, <3>1 DEF OwnNumbers
    <3>2. CASE h[c].pc = "remap" /\ pending'[d] = [client |-> c, id |-> h[c].msg.id]
      BY <2>1, <3>2 DEF OwnNumbers, Numbered
    <3> QED BY <1>3, <2>5, <3>1, <3>2, HandlersNumber
  <2>6. \A d \in Clients : cl'[d] \in {"new", "open"} => nextID'[d] = 0
    BY <2>1 DEF OwnNumbers
  <2> QED BY <2>3, <2>4, <2>5, <2>6 DEF OwnNumbers
<1>4. ASSUME ServerReadLoop \/ AcceptLoop \/ LanguageServer \/ Reap \/ Environment
      PROVE  OwnNumbers'
  <2>1. cl' = cl /\ nextID' = nextID /\ up' = up
    BY <1>4, ServerSideLeavesOwners
  <2>2. \A d \in Clients : h'[d].pc \in {"remap", "reply"} => h'[d] = h[d]
    <3>1. ASSUME NEW c \in Waiting, h' = [h EXCEPT ![c] = AtRead], NEW d \in Clients
          PROVE  h'[d].pc \in {"remap", "reply"} => h'[d] = h[d]
      BY <3>1 DEF TypeOK, AtRead, At
    <3> QED BY <1>4, <3>1, ElsewhereHandlers DEF NotHandler
  <2>3. \A d \in DOMAIN pending' : d \in DOMAIN pending /\ pending'[d] = pending[d]
    BY <1>4, ElsewherePending DEF NotHandler
  <2>4. \A d \in Clients : h'[d].pc \in {"remap", "reply"} =>
          Numbered(d, h[d].msg)' /\ (h'[d].pc = "reply" => h'[d].msg.kind = "initialize")
    BY <2>1, <2>2 DEF OwnNumbers, Numbered
  <2>5. \A d \in DOMAIN pending' : pending'[d].id \in 1 .. nextID'[pending'[d].client]
    BY <2>1, <2>3 DEF OwnNumbers
  <2>6. /\ \A d \in Clients : cl'[d] \in {"new", "open"} => nextID'[d] = 0
        /\ \A d \in Clients : \A m \in In(up'[d]) : IsRequest(m) => Numbered(d, m)'
    BY <2>1 DEF OwnNumbers, Numbered
  <2> QED BY <2>4, <2>5, <2>6 DEF OwnNumbers
<1> QED BY <1>1, <1>2, <1>3, <1>4 DEF Next

LEMMA HandlerAttributes ==
  ASSUME TypeOK, OwnNumbers, CacheHoldsInit, NEW f \in Tables, Attributed(f),
         NEW c \in Clients, Handler(c)
  PROVE  \E g \in Tables' : Attributed(g)'
<1> USE DEF initVars, serverVars
<1>a. /\ nextReqID \in Nat /\ stdin \in Seq(Msg) /\ h[c].msg \in Msg /\ h[c].msg.id \in Nat
      /\ h \in [Clients -> [pc : HandlerPCs, msg : Msg]] /\ DOMAIN pending \subseteq 1 .. nextReqID
  <2>1. h[c].msg \in Msg
    BY DEF TypeOK
  <2>2. h[c].msg.id \in Nat
    BY <2>1 DEF Msg
  <2> QED BY <2>1, <2>2 DEF TypeOK
<1>b. nextID' = nextID
  BY HandlerLeavesOwners
<1>c. \A d \in 1 .. nextReqID : f[d].id \in 1 .. nextID'[f[d].client]
  BY <1>b DEF Attributed, IssuedIn
<1>1. CASE HandlerRead(c)
  <2>1. h'[c].pc \in {"track", "forward"} => ~IsRequest(h'[c].msg)
    BY <1>1, <1>a DEF HandlerRead, Dispatch, IsRequest, AtRead, At
  <2>2. ForwardedIn(f)'
    BY <1>1, <2>1, OthersStay DEF ForwardedIn, Attributed, Tagged, HandlerRead
  <2>3. f \in Tables' /\ Attributed(f)'
    BY <1>1, <1>c, <2>2 DEF HandlerRead, Attributed, Tables, PendingIn, SentIn, WorkedIn,
                            AnsweredIn, RoutedIn, TrackedIn, IssuedIn, Tagged
  <2> QED BY <2>3
<1>2. CASE HandlerRemap(c)
  <2> DEFINE n == nextReqID + 1
             k == h[c].msg.id
             g == [d \in 1 .. n |-> IF d = n THEN [client |-> c, id |-> k] ELSE f[d]]
  <2>1. nextReqID' = n /\ 1 .. n = 1 .. nextReqID \cup {n} /\ n \notin 1 .. nextReqID /\ n \in 1 .. n
    BY <1>2, <1>a DEF HandlerRemap
  <2>2. g \in [1 .. n -> [client : Clients, id : Nat]]
    BY <1>a, <2>1 DEF Tables
  <2>3. g[n].client = c /\ g[n].id = k /\ \A d \in 1 .. nextReqID : g[d] = f[d]
    BY <2>1
  <2>4. h[c].msg.from = c /\ h[c].msg.call = k
    BY <1>2 DEF HandlerRemap, HandlerAt, OwnNumbers, Numbered
  <2>5. PICK t \in [1 .. n -> [client : Clients, id : Nat]] : t = g
    BY <2>2
  <2>6. t[n].client = c /\ t[n].id = k /\ \A d \in 1 .. nextReqID : t[d] = f[d]
    BY <2>3, <2>5
  <2>7. t[n] = [client |-> c, id |-> k]
    BY <2>1, <2>5
  <2>8. t \in Tables'
    BY <2>1 DEF Tables
  <2>9. \A m : Tagged(f, m) => Tagged(t, m)'
    BY <2>1, <2>6 DEF Tagged
  <2> HIDE DEF g
  <2>10. PendingIn(t)'
    BY <1>2, <1>a, <2>1, <2>6, <2>7 DEF HandlerRemap, PendingIn, Attributed
  <2>11. ForwardedIn(t)'
    <3>1. h'[c].msg = WithID(h[c].msg, n)
      BY <1>2, <1>a, <2>1 DEF HandlerRemap
    <3>2. h'[c].msg.id = n /\ h'[c].msg.from = c /\ h'[c].msg.call = k
      BY <2>4, <3>1 DEF WithID
    <3>3. Tagged(t, h[c].msg)'
      BY <2>1, <2>6, <3>2 DEF Tagged
    <3>4. \A d \in Clients \ {c} : h'[d] = h[d]
      BY <1>2, OthersStay
    <3>5. \A d \in Clients \ {c} :
            h'[d].pc \in {"track", "forward"} /\ IsRequest(h'[d].msg) => Tagged(t, h[d].msg)'
      BY <2>9, <3>4 DEF ForwardedIn, Attributed, Tagged
    <3> QED BY <3>3, <3>5 DEF ForwardedIn
  <2>12. /\ stdin' = stdin /\ working' = working /\ stdout' = stdout /\ rl' = rl
         /\ initReqID' = initReqID
    BY <1>2 DEF HandlerRemap
  <2>13. SentIn(t)' /\ WorkedIn(t)' /\ AnsweredIn(t)'
    BY <2>9, <2>12 DEF SentIn, WorkedIn, AnsweredIn, Attributed
  <2>14. RoutedIn(t)'
    BY <2>9, <2>12 DEF RoutedIn, Attributed, Tagged
  <2>15. TrackedIn(t)'
    BY <2>1, <2>6, <2>12 DEF TrackedIn, Attributed
  <2>16. IssuedIn(t)'
    <3>1. k \in 1 .. nextID'[c]
      BY <1>2, <1>b DEF HandlerRemap, HandlerAt, OwnNumbers, Numbered
    <3> QED BY <1>c, <2>1, <2>6, <3>1 DEF IssuedIn
  <2> QED BY <2>8, <2>10, <2>11, <2>13, <2>14, <2>15, <2>16 DEF Attributed
<1>3. CASE HandlerTrack(c)
  <2>1. /\ h[c].pc = "track" /\ h'[c].pc = "forward" /\ h'[c].msg = h[c].msg
        /\ initReqID' = h[c].msg.id
    BY <1>3, <1>a DEF HandlerTrack, HandlerAt, HandlerGoes
  <2>2. IsRequest(h[c].msg) /\ h[c].msg.call = InitID /\ h[c].msg.id # 0
    BY <2>1 DEF CacheHoldsInit
  <2>3. Tagged(f, h[c].msg)
    BY <2>1, <2>2 DEF Attributed, ForwardedIn
  <2>4. nextReqID' = nextReqID
    BY <1>3 DEF HandlerTrack
  <2>5. TrackedIn(f)'
    BY <2>1, <2>2, <2>3, <2>4 DEF TrackedIn, Tagged, DaemonShutdownID
  <2>6. ForwardedIn(f)'
    BY <1>3, <2>1, <2>3, <2>4, OthersStay DEF ForwardedIn, Attributed, Tagged
  <2>7. f \in Tables' /\ Attributed(f)'
    BY <1>3, <1>c, <2>4, <2>5, <2>6 DEF HandlerTrack, Attributed, Tables, PendingIn, SentIn,
                                        WorkedIn, AnsweredIn, RoutedIn, IssuedIn, Tagged
  <2> QED BY <2>7
<1>4. CASE HandlerForward(c)
  <2>1. h[c].pc = "forward" /\ h'[c].pc \in {"mark", "read", "remove"}
    BY <1>4, GoesElsewhere DEF HandlerForward, HandlerAt
  <2>2. ForwardedIn(f)'
    BY <1>4, <2>1, OthersStay DEF ForwardedIn, Attributed, Tagged, HandlerForward
  <2>3. IsRequest(h[c].msg) => Tagged(f, h[c].msg)
    BY <2>1 DEF Attributed, ForwardedIn
  <2>4. stdin' = stdin \/ In(stdin') = In(stdin) \cup {h[c].msg}
    BY <1>4, <1>a, InAppend DEF HandlerForward
  <2>5. nextReqID' = nextReqID
    BY <1>4 DEF HandlerForward
  <2>6. SentIn(f)'
    BY <2>3, <2>4, <2>5 DEF SentIn, Attributed, Tagged
  <2>7. f \in Tables' /\ Attributed(f)'
    BY <1>4, <1>c, <2>2, <2>5, <2>6 DEF HandlerForward, Attributed, Tables, PendingIn, WorkedIn,
                                        AnsweredIn, RoutedIn, TrackedIn, IssuedIn, Tagged
  <2> QED BY <2>7
<1>5. ASSUME ~HandlerRead(c), ~HandlerRemap(c), ~HandlerTrack(c), ~HandlerForward(c)
      PROVE  \E g \in Tables' : Attributed(g)'
  <2>1. /\ nextReqID' = nextReqID /\ initReqID' = initReqID /\ rl' = rl
        /\ stdin' = stdin /\ working' = working /\ stdout' = stdout
        /\ h'[c].pc \notin {"track", "forward"}
    BY <1>5, GoesElsewhere DEF Handler, HandlerMark, HandlerReply, HandlerEOF, HandlerRemove,
                               HandlerPurge
  <2>2. \A d \in DOMAIN pending' : d \in DOMAIN pending /\ pending'[d] = pending[d]
    BY <1>5 DEF Handler, HandlerMark, HandlerReply, HandlerEOF, HandlerRemove, HandlerPurge
  <2>3. ForwardedIn(f)'
    BY <2>1, OthersStay DEF ForwardedIn, Attributed, Tagged
  <2>4. PendingIn(f)'
    BY <2>2 DEF PendingIn, Attributed
  <2>5. f \in Tables' /\ Attributed(f)'
    BY <1>c, <2>1, <2>3, <2>4 DEF Attributed, Tables, SentIn, WorkedIn, AnsweredIn, RoutedIn,
                                  TrackedIn, IssuedIn, Tagged
  <2> QED BY <2>5
<1> QED BY <1>1, <1>2, <1>3, <1>4, <1>5

LEMMA LoopAttributes ==
  ASSUME TypeOK, NEW f \in Tables, Attributed(f), ServerReadLoop
  PROVE  f \in Tables' /\ Attributed(f)'
<1> USE DEF initVars, serverVars, LoopAt
<1>a. /\ stdin \in Seq(Msg) /\ stdout \in Seq(Msg) /\ rl.msg \in Msg
      /\ nextReqID' = nextReqID /\ initReqID' = initReqID
      /\ \A d \in DOMAIN pending' : d \in DOMAIN pending /\ pending'[d] = pending[d]
  BY ElsewherePending DEF TypeOK, NotHandler
<1>b. h' = h /\ working' = working
  BY DEF ServerReadLoop, LoopRead, LoopCheckCache, LoopStoreCache, RouteResponse,
         RouteServerRequest, RejectServerRequest, BroadcastToClients, LoopDeliver
<1>c. /\ f \in Tables' /\ PendingIn(f)' /\ ForwardedIn(f)' /\ WorkedIn(f)' /\ TrackedIn(f)'
      /\ \A m : Tagged(f, m) <=> Tagged(f, m)'
  BY <1>a, <1>b DEF Attributed, Tables, PendingIn, ForwardedIn, WorkedIn, TrackedIn, Tagged
<1>d. IssuedIn(f)'
  BY <1>a, ServerSideLeavesOwners DEF Attributed, IssuedIn
<1>1. SentIn(f)'
  <2>1. CASE RejectServerRequest
    <3>1. AnswerTo(rl.msg) \in Msg /\ ~IsRequest(AnswerTo(rl.msg))
      BY <1>a, ResponseType DEF AnswerTo, IsRequest
    <3>2. stdin' = stdin \/ In(stdin') = In(stdin) \cup {AnswerTo(rl.msg)}
      BY <2>1, <1>a, <3>1, InAppend DEF RejectServerRequest
    <3> QED BY <1>c, <3>1, <3>2 DEF SentIn, Attributed
  <2>2. CASE stdin' = stdin
    BY <1>c, <2>2 DEF SentIn, Attributed
  <2> QED BY <2>1, <2>2 DEF ServerReadLoop, LoopRead, LoopCheckCache, LoopStoreCache,
                            RouteResponse, RouteServerRequest, BroadcastToClients, LoopDeliver
<1>2. AnsweredIn(f)' /\ RoutedIn(f)'
  <2>1. CASE LoopRead
    <3>1. Head(stdout) \in In(stdout) /\ In(stdout') \subseteq In(stdout)
      BY <2>1, <1>a, InTail DEF LoopRead
    <3>2. rl'.msg = Head(stdout)
      BY <2>1 DEF LoopRead, LoopWith
    <3>3. \A m \in In(stdout) : IsResponse(m) => Tagged(f, m)'
      BY <1>c DEF Attributed, AnsweredIn
    <3>4. AnsweredIn(f)'
      BY <3>1, <3>3 DEF AnsweredIn
    <3>5. IsResponse(rl.msg)' => Tagged(f, rl.msg)'
      BY <3>1, <3>2, <3>3 DEF Tagged, IsResponse
    <3> QED BY <3>4, <3>5 DEF RoutedIn, IsResponse
  <2>2. ASSUME ~LoopRead PROVE stdout' = stdout
    BY <2>2 DEF ServerReadLoop, LoopCheckCache, LoopStoreCache, RouteResponse,
                RouteServerRequest, RejectServerRequest, BroadcastToClients, LoopDeliver
  <2>3. ASSUME ~LoopRead
        PROVE  \/ rl.pc \in {"cache", "store"} /\ rl'.msg = rl.msg
               \/ rl'.pc \in {"read", "deliver"}
    <3>1. \A m, T : LoopDelivers(m, T) => rl'.pc \in {"read", "deliver"}
      BY DEF LoopDelivers, LoopAtRead, LoopWith
    <3>2. LoopAtRead.pc = "read"
      BY DEF LoopAtRead, LoopWith
    <3>3. CASE LoopCheckCache \/ LoopStoreCache
      BY <3>3 DEF LoopCheckCache, LoopStoreCache, LoopWith
    <3>4. CASE RouteResponse \/ RejectServerRequest
      BY <3>1, <3>2, <3>4 DEF RouteResponse, RejectServerRequest
    <3>5. CASE RouteServerRequest \/ BroadcastToClients \/ LoopDeliver
      BY <3>1, <3>5 DEF RouteServerRequest, BroadcastToClients, LoopDeliver
    <3> QED BY <2>3, <3>3, <3>4, <3>5 DEF ServerReadLoop
  <2>4. CASE ~LoopRead
    <3>1. AnsweredIn(f)'
      BY <1>c, <2>2, <2>4 DEF Attributed, AnsweredIn
    <3>2. RoutedIn(f)'
      BY <1>a, <2>3, <2>4 DEF Attributed, RoutedIn, Tagged, IsResponse
    <3> QED BY <3>1, <3>2
  <2> QED BY <2>1, <2>4
<1> QED BY <1>c, <1>d, <1>1, <1>2 DEF Attributed

LEMMA OtherAttributes ==
  ASSUME TypeOK, NEW f \in Tables, Attributed(f),
         \/ \E c \in Clients : Client(c)
         \/ AcceptLoop \/ LanguageServer \/ Reap \/ Environment
  PROVE  f \in Tables' /\ Attributed(f)'
<1>e. ASSUME nextReqID' = nextReqID PROVE IssuedIn(f)'
  <2>1. [Next]_vars
    BY DEF Next
  <2> SUFFICES ASSUME NEW d \in 1 .. nextReqID PROVE f[d].id \in 1 .. nextID'[f[d].client]
    BY <1>e DEF IssuedIn
  <2>2. f[d].client \in Clients /\ f[d].id \in 1 .. nextID[f[d].client]
    BY DEF Attributed, IssuedIn, Tables
  <2> QED BY <2>1, <2>2, NumbersGrow
<1> USE DEF initVars, serverVars, proxyVars, daemonVars
<1>a. /\ stdin \in Seq(Msg) /\ stdout \in Seq(Msg) /\ working \subseteq Msg
      /\ nextReqID' = nextReqID /\ initReqID' = initReqID
      /\ \A d \in DOMAIN pending' : d \in DOMAIN pending /\ pending'[d] = pending[d]
  BY ElsewherePending DEF TypeOK, NotHandler
<1>b. \A d \in Clients : h'[d] = h[d] \/ h'[d] = AtRead
  <2>1. ASSUME NEW c \in Waiting, h' = [h EXCEPT ![c] = AtRead]
        PROVE  \A d \in Clients : h'[d] = h[d] \/ h'[d] = AtRead
    BY <2>1 DEF TypeOK
  <2> QED BY <2>1, ElsewhereHandlers DEF NotHandler
<1>c. /\ f \in Tables' /\ PendingIn(f)' /\ TrackedIn(f)' /\ IssuedIn(f)'
      /\ \A m : Tagged(f, m) <=> Tagged(f, m)'
  BY <1>a, <1>e DEF Attributed, Tables, PendingIn, TrackedIn, Tagged
<1>d. ForwardedIn(f)'
  BY <1>a, <1>b DEF Attributed, ForwardedIn, Tagged, AtRead, At
<1>1. CASE \E c \in Clients : Client(c)
  <2>1. stdin' = stdin /\ stdout' = stdout /\ working' = working /\ rl' = rl
    BY <1>1 DEF Client, Dial, ClientInitialize, ClientCall, ClientShutdown, ClientRead,
                ClientClose, Asks
  <2> QED BY <1>a, <1>c, <1>d, <2>1 DEF Attributed, SentIn, WorkedIn, AnsweredIn, RoutedIn, Tagged
<1>2. CASE AcceptLoop
  <2>1. stdout' = stdout /\ working' = working /\ rl' = rl
    BY <1>2 DEF AcceptLoop, IdleStop, ServerExited, Accept, ShutdownAnswered, ShutdownTimeout,
                ExitObserved, ExitTimeout, Cleanup, ProcessExit
  <2> DEFINE s == Message("shutdown", DaemonShutdownID, NoClient, TRUE)
             x == Notification("exit", NoClient)
  <2>2. s \in Msg /\ x \in Msg
    BY MessageType DEF Kinds, DaemonShutdownID, Notification
  <2>3. Tagged(f, s)' /\ ~IsRequest(x)
    BY DEF Tagged, Message, Notification, IsRequest
  <2> HIDE DEF s, x
  <2>4. stdin' = stdin \/ stdin' = Append(stdin, s) \/ stdin' = Append(stdin, x)
    BY <1>2 DEF AcceptLoop, IdleStop, ServerExited, Accept, ShutdownAnswered, ShutdownTimeout,
                ExitObserved, ExitTimeout, Cleanup, ProcessExit, s, x
  <2>5. In(stdin') \subseteq In(stdin) \cup {s, x}
    <3>1. In(Append(stdin, s)) = In(stdin) \cup {s} /\ In(Append(stdin, x)) = In(stdin) \cup {x}
      BY <1>a, <2>2, InAppend
    <3> QED BY <2>4, <3>1
  <2>6. SentIn(f)'
    <3> SUFFICES ASSUME NEW m \in In(stdin'), IsRequest(m) PROVE Tagged(f, m)'
      BY DEF SentIn
    <3>1. CASE m \in In(stdin)
      BY <1>c, <3>1 DEF Attributed, SentIn
    <3>2. CASE m = s
      BY <3>2 DEF Tagged, s, Message
    <3> QED BY <2>3, <2>5, <3>1, <3>2
  <2> QED BY <1>a, <1>c, <1>d, <2>1, <2>6 DEF Attributed, WorkedIn, AnsweredIn, RoutedIn, Tagged
<1>3. CASE LanguageServer \/ Reap \/ Environment
  <2>1. rl' = rl
    BY <1>3 DEF LanguageServer, LSInitialize, LSInitialized, LSTakeRequest, LSAnswer,
                LSShutdown, LSIgnore, LSExit, Reap, Environment, LSNotify, LSRequest,
                LSSends, LSCrash, TimePasses
  <2>2. In(stdin') \subseteq In(stdin)
    <3>1. stdin' = stdin \/ stdin' = <<>> \/ (stdin # <<>> /\ stdin' = Tail(stdin))
      BY <1>3 DEF LanguageServer, LSInitialize, LSInitialized, LSTakeRequest, LSAnswer, LSTakes,
                  LSShutdown, LSIgnore, LSExit, Reap, Environment, LSNotify, LSRequest,
                  LSSends, LSCrash, TimePasses
    <3>2. In(<<>>) = {}
      BY DEF In
    <3> QED BY <1>a, <3>1, <3>2, InTail
  <2>3. \A m \in working' : m \in working \/ (m \in In(stdin) /\ IsRequest(m))
    <3>1. ASSUME LSTakeRequest
          PROVE  /\ working' = working \cup {Head(stdin)} /\ Head(stdin) \in In(stdin)
                 /\ IsRequest(Head(stdin))
      BY <3>1, <1>a, InTail DEF LSTakeRequest, LSTakes, IsRequest
    <3>2. ASSUME ~LSTakeRequest PROVE working' \subseteq working
      BY <1>3, <3>2 DEF LanguageServer, LSInitialize, LSInitialized, LSAnswer,
                  LSShutdown, LSIgnore, LSExit, Reap, Environment, LSNotify, LSRequest,
                  LSSends, LSCrash, TimePasses
    <3> QED BY <3>1, <3>2
  <2>4. \A m \in In(stdout') :
          \/ m \in In(stdout) \/ ~IsResponse(m)
          \/ \E q : (q \in working \/ (q \in In(stdin) /\ IsRequest(q))) /\ \E ok : m = ResponseTo(q, ok)
    <3>1. ASSUME NEW q \in Msg, NEW ok \in BOOLEAN, stdout' = Append(stdout, ResponseTo(q, ok)),
                 q \in working \/ (q \in In(stdin) /\ IsRequest(q))
          PROVE  \A m \in In(stdout') :
                   \/ m \in In(stdout) \/ ~IsResponse(m)
                   \/ \E r : (r \in working \/ (r \in In(stdin) /\ IsRequest(r))) /\ \E o : m = ResponseTo(r, o)
      <4>1. ResponseTo(q, ok) \in Msg
        BY ResponseType
      <4>2. In(stdout') = In(stdout) \cup {ResponseTo(q, ok)}
        BY <1>a, <3>1, <4>1, InAppend
      <4> QED BY <3>1, <4>2
    <3>2. CASE LSInitialize
      <4>1. stdin # <<>> /\ Head(stdin).kind = "initialize" /\ stdout' = Append(stdout, ResponseTo(Head(stdin), inits = 0))
        BY <3>2 DEF LSInitialize, LSTakes
      <4>2. Head(stdin) \in Msg /\ Head(stdin) \in In(stdin) /\ IsRequest(Head(stdin)) /\ (inits = 0) \in BOOLEAN
        BY <1>a, <4>1, InTail, TailType DEF IsRequest
      <4> QED BY <4>1, <4>2, <3>1
    <3>3. CASE LSShutdown
      <4>1. stdin # <<>> /\ Head(stdin).kind = "shutdown" /\ stdout' = Append(stdout, ResponseTo(Head(stdin), TRUE))
        BY <3>3 DEF LSShutdown, LSTakes
      <4>2. Head(stdin) \in Msg /\ Head(stdin) \in In(stdin) /\ IsRequest(Head(stdin))
        BY <1>a, <4>1, InTail, TailType DEF IsRequest
      <4> QED BY <4>1, <4>2, <3>1
    <3>4. CASE LSAnswer
      <4>1. PICK q \in working : stdout' = Append(stdout, ResponseTo(q, inits > 0))
        BY <3>4 DEF LSAnswer
      <4>2. q \in Msg /\ (inits > 0) \in BOOLEAN
        BY <1>a
      <4> QED BY <4>1, <4>2, <3>1
    <3>5. ASSUME NEW kind \in {"notify", "srvreq"}, LSSends(kind)
          PROVE  \A m \in In(stdout') : m \in In(stdout) \/ ~IsResponse(m)
      <4> DEFINE n == Message(kind, srvMsgs + 1, NoClient, TRUE)
      <4>1. stdout' = Append(stdout, n)
        BY <3>5 DEF LSSends
      <4>2. kind \in Kinds /\ srvMsgs + 1 \in Nat
        BY DEF Kinds, TypeOK
      <4>3. n \in Msg /\ ~IsResponse(n)
        BY <4>2, MessageType DEF Message, IsResponse
      <4> HIDE DEF n
      <4>4. In(stdout') = In(stdout) \cup {n}
        BY <1>a, <4>1, <4>3, InAppend
      <4> QED BY <4>3, <4>4
    <3>6. ASSUME stdout' = stdout \/ stdout' = <<>>
          PROVE  \A m \in In(stdout') : m \in In(stdout)
      BY <3>6 DEF In
    <3>7. CASE stdout' = stdout \/ stdout' = <<>>
      BY <3>6, <3>7
    <3>8. \/ LSInitialize \/ LSShutdown \/ LSAnswer \/ LSSends("notify") \/ LSSends("srvreq")
          \/ stdout' = stdout \/ stdout' = <<>>
      BY <1>3 DEF LanguageServer, LSInitialized, LSTakeRequest, LSIgnore, LSExit, Reap,
                  Environment, LSNotify, LSRequest, LSCrash, TimePasses
    <3> QED BY <3>2, <3>3, <3>4, <3>5, <3>7, <3>8
  <2>5. \A m \in working \cup {q \in In(stdin) : IsRequest(q)} : Tagged(f, m)
    BY DEF Attributed, SentIn, WorkedIn
  <2>6. \A m, ok : Tagged(f, m) => Tagged(f, ResponseTo(m, ok))
    BY DEF Tagged, ResponseTo
  <2>7. SentIn(f)' /\ WorkedIn(f)'
    BY <1>c, <2>2, <2>3, <2>5 DEF Attributed, SentIn, WorkedIn
  <2>8. AnsweredIn(f)'
    BY <1>c, <2>4, <2>5, <2>6 DEF Attributed, AnsweredIn
  <2>9. RoutedIn(f)'
    BY <1>a, <2>1 DEF Attributed, RoutedIn, Tagged
  <2> QED BY <1>c, <1>d, <2>7, <2>8, <2>9 DEF Attributed
<1> QED BY <1>1, <1>2, <1>3

(* The loop's own variable and the cache belong to serverReadLoop; what is *)
(* written to a connection is written by it or by the handler's reply.     *)
LEMMA NotLoop ==
  ASSUME [Next]_vars, ~ServerReadLoop
  PROVE  /\ rl' = rl /\ initResponse' = initResponse
         /\ inbox' = inbox \/ \E c \in Clients : HandlerReply(c)
<1> USE DEF proxyVars, daemonVars, initVars
<1>1. CASE UNCHANGED vars
  BY <1>1 DEF vars
<1>2. ASSUME NEW c \in Clients, Handler(c)
      PROVE  rl' = rl /\ initResponse' = initResponse /\ (inbox' = inbox \/ HandlerReply(c))
  BY <1>2 DEF Handler, HandlerRead, HandlerRemap, HandlerTrack, HandlerForward, HandlerMark,
              HandlerReply, HandlerEOF, HandlerRemove, HandlerPurge
<1>3. ASSUME NEW c \in Clients, Client(c)
      PROVE  rl' = rl /\ initResponse' = initResponse /\ inbox' = inbox
  BY <1>3 DEF Client, Dial, ClientInitialize, ClientCall, ClientShutdown, ClientRead,
              ClientClose, Asks
<1>4. ASSUME AcceptLoop
      PROVE  rl' = rl /\ initResponse' = initResponse /\ inbox' = inbox
  BY <1>4 DEF AcceptLoop, IdleStop, ServerExited, Accept, ShutdownAnswered, ShutdownTimeout,
              ExitObserved, ExitTimeout, Cleanup, ProcessExit
<1>5. ASSUME LanguageServer \/ Reap \/ Environment
      PROVE  rl' = rl /\ initResponse' = initResponse /\ inbox' = inbox
  BY <1>5 DEF LanguageServer, LSInitialize, LSInitialized, LSTakeRequest, LSAnswer,
              LSShutdown, LSIgnore, LSExit, Reap, Environment, LSNotify, LSRequest,
              LSSends, LSCrash, TimePasses
<1> QED BY <1>1, <1>2, <1>3, <1>4, <1>5 DEF Next

LEMMA HandlerTracksInit ==
  ASSUME TypeOK, OwnNumbers, CacheHoldsInit, NEW c \in Clients, Handler(c), h'[c].pc = "track"
  PROVE  IsRequest(h'[c].msg) /\ h'[c].msg.call = InitID /\ h'[c].msg.id # 0
<1>a. h \in [Clients -> [pc : HandlerPCs, msg : Msg]] /\ nextReqID \in Nat
  BY DEF TypeOK
<1>1. HandlerRemap(c)
  BY <1>a, GoesElsewhere DEF Handler, HandlerRead, Dispatch, AtRead, At, HandlerTrack,
     HandlerForward, HandlerMark, HandlerReply, HandlerEOF, HandlerRemove, HandlerPurge
<1>2. /\ h[c].msg.kind = "initialize" /\ h'[c].msg = WithID(h[c].msg, nextReqID')
      /\ nextReqID' # 0 /\ Numbered(c, h[c].msg)
  BY <1>1, <1>a DEF HandlerRemap, HandlerAt, OwnNumbers
<1> QED BY <1>2 DEF WithID, IsRequest, Numbered, InitID

LEMMA CacheStep ==
  ASSUME TypeOK, OwnNumbers, CacheHoldsInit, NEW f \in Tables, Attributed(f), [Next]_vars
  PROVE  CacheHoldsInit'
<1>1. ASSUME NEW c \in Clients, h'[c].pc = "track"
      PROVE  IsRequest(h[c].msg)' /\ h'[c].msg.call = InitID /\ h'[c].msg.id # 0
  <2>1. CASE h'[c] = h[c]
    BY <1>1, <2>1 DEF CacheHoldsInit, IsRequest
  <2>2. CASE Handler(c)
    BY <1>1, <2>2, HandlerTracksInit DEF IsRequest
  <2>3. ASSUME NotHandler, h'[c] # h[c] PROVE h'[c] = AtRead
    BY <2>3, ElsewhereHandlers DEF TypeOK, Waiting
  <2>4. AtRead.pc # "track"
    BY DEF AtRead, At
  <2>5. \A d \in Clients : Handler(d) => Handler(c) \/ h'[c] = h[c]
    BY OthersStay
  <2> QED BY <1>1, <2>1, <2>2, <2>3, <2>4, <2>5 DEF Next, vars, NotHandler
<1>2. rl'.pc = "store" => IsResponse(rl.msg)' /\ rl'.msg.call = InitID /\ Began(rl.msg.from)'
  <2>1. CASE LoopCheckCache
    <3>1. ASSUME rl'.pc = "store" PROVE Cacheable(rl.msg) /\ rl.pc = "cache" /\ rl'.msg = rl.msg
      BY <2>1, <3>1 DEF LoopCheckCache, LoopAt, LoopWith
    <3>2. ASSUME Cacheable(rl.msg), rl.pc = "cache"
          PROVE  IsResponse(rl.msg) /\ rl.msg.call = InitID /\ Began(rl.msg.from)
      <4>1. /\ IsResponse(rl.msg) /\ rl.msg.id = initReqID /\ initReqID # 0
            /\ rl.msg.id \in 1 .. nextReqID
            /\ f[rl.msg.id].client = rl.msg.from /\ f[rl.msg.id].id = rl.msg.call
            /\ f[rl.msg.id].id = InitID
        BY <3>2 DEF Cacheable, Attributed, RoutedIn, TrackedIn, Tagged, DaemonShutdownID
      <4>2. f[rl.msg.id].id \in 1 .. nextID[f[rl.msg.id].client]
        BY <4>1 DEF Attributed, IssuedIn
      <4>3. f[rl.msg.id].client \in Clients
        BY <4>1 DEF Tables
      <4> QED BY <4>1, <4>2, <4>3 DEF Began
    <3> QED BY <3>1, <3>2, BeganStays DEF IsResponse
  <2>2. ASSUME ServerReadLoop, ~LoopCheckCache PROVE rl'.pc # "store"
    <3>1. \A m, T : LoopDelivers(m, T) => rl'.pc # "store"
      BY DEF LoopDelivers, LoopAtRead, LoopWith
    <3>2. CASE LoopRead \/ LoopStoreCache
      BY <3>2 DEF LoopRead, LoopStoreCache, LoopWith
    <3>3. CASE RouteResponse \/ RejectServerRequest
      BY <3>1, <3>3 DEF RouteResponse, RejectServerRequest, LoopAtRead, LoopWith
    <3>4. CASE RouteServerRequest \/ BroadcastToClients \/ LoopDeliver
      BY <3>1, <3>4 DEF RouteServerRequest, BroadcastToClients, LoopDeliver
    <3> QED BY <2>2, <3>2, <3>3, <3>4 DEF ServerReadLoop
  <2>3. CASE ~ServerReadLoop
    BY <2>3, NotLoop, BeganStays DEF CacheHoldsInit, IsResponse
  <2> QED BY <2>1, <2>2, <2>3
<1>3. initResponse' # NoMsg => initResponse'.call = InitID /\ Began(initResponse.from)'
  <2>1. CASE LoopStoreCache
    BY <2>1, BeganStays DEF LoopStoreCache, LoopAt, CacheHoldsInit
  <2>2. ASSUME ServerReadLoop, ~LoopStoreCache PROVE initResponse' = initResponse
    BY <2>2 DEF ServerReadLoop, LoopRead, LoopCheckCache, RouteResponse, initVars,
                RouteServerRequest, RejectServerRequest, BroadcastToClients, LoopDeliver
  <2> QED BY <2>1, <2>2, NotLoop, BeganStays DEF CacheHoldsInit
<1> QED BY <1>1, <1>2, <1>3 DEF CacheHoldsInit, NoMsg, Notification, Message, Began

LEMMA DeliversStep ==
  ASSUME TypeOK, OwnNumbers, DeliversOwn, NEW f \in Tables, Attributed(f), [Next]_vars
  PROVE  DeliversOwn'
<1> SUFFICES ASSUME rl'.pc = "deliver", IsResponse(rl'.msg), NEW c \in rl'.to
             PROVE  Issued(c, rl.msg)'
  BY DEF DeliversOwn, IsResponse
<1>a. rl.msg \in Msg /\ rl.to \subseteq Clients
  BY DEF TypeOK
<1>b. \A m, T : LoopDelivers(m, T) => rl' = LoopAtRead \/ (rl'.msg = m /\ rl'.to = T)
  BY DEF LoopDelivers
<1>c. LoopAtRead.pc = "read"
  BY DEF LoopAtRead, LoopWith
<1>1. CASE RouteResponse
  <2> DEFINE p == pending[rl.msg.id]
  <2>1. /\ rl.msg.id \in DOMAIN pending /\ LoopDelivers(WithID(rl.msg, p.id), {p.client})
        /\ rl.pc = "route" /\ IsResponse(rl.msg) /\ nextID' = nextID
    BY <1>1, <1>c DEF RouteResponse, LoopAt, clientVars
  <2>2. rl'.msg = WithID(rl.msg, p.id) /\ c = p.client
    BY <2>1, <1>b, <1>c
  <2>3. rl.msg.id \in 1 .. nextReqID /\ p = f[rl.msg.id] /\ Tagged(f, rl.msg)
    BY <2>1 DEF Attributed, RoutedIn, PendingIn, TypeOK
  <2>4. p.client = rl.msg.from /\ p.id = rl.msg.call
    BY <2>3 DEF Tagged, DaemonShutdownID, TypeOK
  <2>5. p.id \in 1 .. nextID[p.client]
    BY <2>1 DEF OwnNumbers
  <2> HIDE DEF p
  <2>6. rl'.msg.id = p.id /\ rl'.msg.from = p.client /\ rl'.msg.call = p.id
    BY <2>2, <2>4 DEF WithID
  <2> QED BY <2>1, <2>2, <2>5, <2>6 DEF Issued
<1>2. CASE RouteServerRequest \/ BroadcastToClients
  <2>1. rl.msg.kind \in {"srvreq", "notify"} /\ (rl' = LoopAtRead \/ rl'.msg = rl.msg)
    BY <1>2, <1>b DEF RouteServerRequest, BroadcastToClients
  <2> QED BY <2>1, <1>c DEF IsResponse
<1>3. CASE LoopDeliver
  <2>1. PICK d \in rl.to : LoopDelivers(rl.msg, rl.to \ {d})
    BY <1>3 DEF LoopDeliver
  <2>2. rl'.msg = rl.msg /\ c \in rl.to /\ rl.pc = "deliver" /\ nextID' = nextID
    BY <1>3, <2>1, <1>b, <1>c DEF LoopDeliver, LoopAt, clientVars
  <2>3. Issued(c, rl.msg)
    BY <2>2 DEF DeliversOwn, IsResponse
  <2> QED BY <2>2, <2>3 DEF Issued
<1>4. ASSUME LoopRead \/ LoopCheckCache \/ LoopStoreCache \/ RejectServerRequest
      PROVE  rl'.pc # "deliver"
  BY <1>4, <1>c DEF LoopRead, LoopCheckCache, LoopStoreCache, RejectServerRequest, LoopWith
<1>5. CASE ~ServerReadLoop
  <2>1. rl' = rl
    BY <1>5, NotLoop
  <2>2. Issued(c, rl.msg) /\ c \in Clients
    BY <2>1, <1>a DEF DeliversOwn, IsResponse
  <2>3. PICK m \in Msg : m = rl.msg
    BY <1>a
  <2>4. Issued(c, m)'
    BY <2>2, <2>3, IssuedStays
  <2> QED BY <2>1, <2>3, <2>4 DEF Issued
<1> QED BY <1>1, <1>2, <1>3, <1>4, <1>5 DEF ServerReadLoop

(* What is written to a connection is written after what it already got.   *)
LEMMA WriteAppends ==
  ASSUME TypeOK, NEW c \in Clients, NEW m \in Msg, WriteToClient(c, m)
  PROVE  \A d \in Clients : \A i \in DOMAIN inbox'[d] :
           \/ i \in DOMAIN inbox[d] /\ inbox'[d][i] = inbox[d][i]
           \/ d = c /\ inbox'[d][i] = m
<1>a. inbox \in [Clients -> Seq(Msg)] /\ inbox[c] \in Seq(Msg)
  BY DEF TypeOK
<1>1. CASE inbox' = inbox
  BY <1>1
<1>2. CASE inbox' = [inbox EXCEPT ![c] = Append(@, m)]
  <2>1. inbox'[c] = Append(inbox[c], m) /\ \A d \in Clients \ {c} : inbox'[d] = inbox[d]
    BY <1>2, <1>a
  <2>2. \A i \in DOMAIN Append(inbox[c], m) :
          \/ i \in DOMAIN inbox[c] /\ Append(inbox[c], m)[i] = inbox[c][i]
          \/ Append(inbox[c], m)[i] = m
    BY <1>a
  <2> QED BY <2>1, <2>2
<1> QED BY <1>1, <1>2 DEF WriteToClient

LEMMA AnswersStep ==
  ASSUME TypeOK, OwnNumbers, CacheHoldsInit, DeliversOwn, AnswersAreOwn, [Next]_vars
  PROVE  AnswersAreOwn'
<1> SUFFICES ASSUME NEW c \in Clients, NEW i \in DOMAIN inbox'[c], IsResponse(inbox'[c][i])
             PROVE  Proper(c, inbox[c][i])'
  BY DEF AnswersAreOwn, Responses, Proper
<1>a. inbox \in [Clients -> Seq(Msg)] /\ rl.msg \in Msg /\ rl.to \subseteq Clients
  BY DEF TypeOK
<1>1. CASE i \in DOMAIN inbox[c] /\ inbox'[c][i] = inbox[c][i]
  <2>1. PICK m \in Msg : m = inbox[c][i]
    BY <1>1, <1>a
  <2>2. Proper(c, m)
    BY <1>1, <2>1 DEF AnswersAreOwn, Responses, Proper, IsResponse
  <2>3. Proper(c, m)'
    BY <2>2, ProperStays
  <2> QED BY <1>1, <2>1, <2>3 DEF Proper
<1>2. CASE LoopDeliver
  <2>1. PICK d \in rl.to : WriteToClient(d, rl.msg)
    BY <1>2 DEF LoopDeliver
  <2>2. rl.pc = "deliver" /\ nextID' = nextID
    BY <1>2 DEF LoopDeliver, LoopAt, clientVars
  <2>3. \/ i \in DOMAIN inbox[c] /\ inbox'[c][i] = inbox[c][i]
        \/ c = d /\ inbox'[c][i] = rl.msg
    BY <2>1, <1>a, WriteAppends
  <2>4. CASE c = d /\ inbox'[c][i] = rl.msg
    <3>1. Proper(c, rl.msg)
      BY <2>2, <2>4 DEF DeliversOwn, IsResponse, Issued, Proper
    <3> QED BY <2>2, <2>4, <3>1 DEF Proper
  <2> QED BY <1>1, <2>3, <2>4
<1>3. ASSUME NEW d \in Clients, HandlerReply(d) PROVE Proper(c, inbox[c][i])'
  <2> DEFINE r == WithID(initResponse, h[d].msg.id)
  <2>1. h[d].pc = "reply" /\ nextID' = nextID
    BY <1>3 DEF HandlerReply, HandlerAt, clientVars
  <2>2. Numbered(d, h[d].msg) /\ h[d].msg.kind = "initialize" /\ h[d].msg \in Msg
    BY <2>1 DEF OwnNumbers, TypeOK
  <2>3. h[d].msg.id \in Nat
    BY <2>2 DEF Msg
  <2>4. r \in Msg
    BY <2>3, WithIDType DEF TypeOK
  <2>5. r.id = InitID /\ r.call = initResponse.call /\ InitID \in 1 .. nextID[d]
    BY <2>2 DEF WithID, Numbered
  <2> HIDE DEF r
  <2>6. inbox' = inbox \/ (initResponse # NoMsg /\ WriteToClient(d, r))
    BY <1>3 DEF HandlerReply, r
  <2>7. \/ i \in DOMAIN inbox[c] /\ inbox'[c][i] = inbox[c][i]
        \/ c = d /\ inbox'[c][i] = r /\ initResponse # NoMsg
    BY <2>4, <2>6, WriteAppends
  <2>8. CASE c = d /\ inbox'[c][i] = r /\ initResponse # NoMsg
    <3>1. r.call = InitID
      BY <2>5, <2>8 DEF CacheHoldsInit
    <3> QED BY <2>1, <2>5, <2>8, <3>1 DEF Proper
  <2> QED BY <1>1, <2>7, <2>8
<1>4. ASSUME ~LoopDeliver, \A d \in Clients : ~HandlerReply(d)
      PROVE  inbox' = inbox
  <2>1. CASE ServerReadLoop
    BY <1>4, <2>1 DEF ServerReadLoop, LoopRead, LoopCheckCache, LoopStoreCache, RouteResponse,
                RouteServerRequest, RejectServerRequest, BroadcastToClients
  <2> QED BY <1>4, <2>1, NotLoop
<1> QED BY <1>1, <1>2, <1>3, <1>4

LEMMA RoutingInit == Init => RoutingInv
<1> SUFFICES ASSUME Init PROVE RoutingInv
  OBVIOUS
<1>1. TypeOK
  BY InitTypeOK
<1>2. \A s : s = <<>> => In(s) = {}
  BY DEF In
<1>3. OwnNumbers
  BY <1>2 DEF Init, OwnNumbers, At
<1>4. CacheHoldsInit /\ DeliversOwn
  BY DEF Init, CacheHoldsInit, DeliversOwn, LoopAtRead, LoopWith, At
<1>5. AnswersAreOwn
  BY DEF Init, AnswersAreOwn, Responses
<1>6. PICK f \in Tables : TRUE
  <2>1. [d \in 1 .. nextReqID |-> [client |-> NoClient, id |-> 0]] \in Tables
    <3>1. 1 .. nextReqID = {}
      BY DEF Init
    <3> QED BY <3>1 DEF Tables
  <2> QED BY <2>1
<1>7. Attributed(f)
  BY <1>2 DEF Init, Attributed, PendingIn, ForwardedIn, SentIn, WorkedIn, AnsweredIn, RoutedIn,
              TrackedIn, IssuedIn, LoopAtRead, LoopWith, At
<1> QED BY <1>1, <1>3, <1>4, <1>5, <1>7 DEF RoutingInv

LEMMA RoutingStep == RoutingInv /\ [Next]_vars => RoutingInv'
<1> SUFFICES ASSUME RoutingInv, [Next]_vars PROVE RoutingInv'
  OBVIOUS
<1>1. PICK f \in Tables : Attributed(f)
  BY DEF RoutingInv
<1>2. TypeOK /\ OwnNumbers /\ CacheHoldsInit /\ DeliversOwn /\ AnswersAreOwn
  BY DEF RoutingInv
<1>3. TypeOK' /\ OwnNumbers' /\ CacheHoldsInit' /\ DeliversOwn' /\ AnswersAreOwn'
  BY <1>1, <1>2, NextTypeOK, OwnNumbersStep, CacheStep, DeliversStep, AnswersStep
<1>4. \E g \in Tables' : Attributed(g)'
  <2>1. CASE UNCHANGED vars
    BY <1>1, <2>1 DEF vars, Tables, Attributed, PendingIn, ForwardedIn, SentIn, WorkedIn,
                      AnsweredIn, RoutedIn, TrackedIn, IssuedIn, Tagged
  <2>2. ASSUME NEW c \in Clients, Handler(c) PROVE \E g \in Tables' : Attributed(g)'
    BY <1>1, <1>2, <2>2, HandlerAttributes
  <2>3. CASE NotHandler
    BY <1>1, <1>2, <2>3, LoopAttributes, OtherAttributes DEF NotHandler
  <2> QED BY <2>1, <2>2, <2>3 DEF Next, NotHandler
<1> QED BY <1>3, <1>4 DEF RoutingInv

(* However many connections share the server, and however their requests,  *)
(* handshakes and departures interleave, routeResponse and                 *)
(* replyInitializeFromCache give a connection only answers to the requests *)
(* its owner issued, under the ids it gave them.                           *)
THEOREM AnswersOwn == Spec => []AnswersAreOwn
<1>1. RoutingInv => AnswersAreOwn
  BY DEF RoutingInv
<1> QED BY RoutingInit, RoutingStep, <1>1, PTL DEF Spec

=============================================================================
