--------------------------- MODULE RpcClientProofs ---------------------------
(* Theorems about RpcClient, for any number of callers and any bounds.     *)
EXTENDS RpcClient, TLAPS

-----------------------------------------------------------------------------
(* Typing.                                                                 *)

LEMMA TailType ==
  ASSUME NEW s \in Seq(Message), s # <<>>
  PROVE  Tail(s) \in Seq(Message) /\ Head(s) \in Message
  OBVIOUS

(* TypeOK by component. *)
CallsTyped ==
  /\ call \in [Callers -> [pc : CallPCs, id : Nat, result : Results]]
  /\ \A c \in Callers : call[c].pc # "idle" => call[c].id \in Ids
TableTyped ==
  nextID \in Nat \ {0} /\ pending \subseteq Ids /\ chan \in [Ids -> Chan] /\ panicked \in BOOLEAN
LoopTyped ==
  /\ rl \in [pc : LoopPCs, id : Nat, todo : SUBSET Ids] /\ done \in BOOLEAN
  /\ rl.pc \in {"send", "close"} => rl.id \in Ids
  /\ rl.pc = "handler" => rl.id \in 1 .. MaxRuns
EndsTyped ==
  /\ closer \in {"none", "waiting", "returned"}
  /\ local \in {"open", "closed"} /\ peer \in {"open", "closed"}
  /\ asked \subseteq Nat /\ down \in Seq(Message) /\ pushed \in Nat
CheckTyped ==
  runs \in 0 .. MaxRuns /\ run \in 0 .. runs /\ queue \in [1 .. MaxRuns -> 0 .. ChanCap]

LEMMA TypeParts ==
  TypeOK <=> CallsTyped /\ TableTyped /\ LoopTyped /\ EndsTyped /\ CheckTyped
BY DEF TypeOK, CallsTyped, TableTyped, LoopTyped, EndsTyped, CheckTyped

LEMMA TypePartsNext ==
  CallsTyped' /\ TableTyped' /\ LoopTyped' /\ EndsTyped' /\ CheckTyped' => TypeOK'
BY DEF TypeOK, CallsTyped, TableTyped, LoopTyped, EndsTyped, CheckTyped

(* A step that leaves a component's variables alone keeps its part.        *)
LEMMA PartsStay ==
  ASSUME TypeOK
  PROVE  /\ UNCHANGED nextID => Ids' = Ids
         /\ UNCHANGED <<call, nextID>> => CallsTyped'
         /\ UNCHANGED <<nextID, pending, chan, panicked>> => TableTyped'
         /\ UNCHANGED <<nextID, rl, done>> => LoopTyped'
         /\ UNCHANGED <<closer, local, peer, asked, down, pushed>> => EndsTyped'
         /\ UNCHANGED <<runs, run, queue>> => CheckTyped'
<1>1. UNCHANGED nextID => Ids' = Ids
  BY DEF Ids
<1> QED BY <1>1, TypeParts DEF CallsTyped, TableTyped, LoopTyped, EndsTyped, CheckTyped

LEMMA InitTypeOK == Init => TypeOK
<1> SUFFICES ASSUME Init PROVE TypeOK
  OBVIOUS
<1>1. Ids = {}
  BY DEF Init, Ids
<1>2. TableTyped
  <2>1. chan \in [{} -> Chan]
    BY DEF Init
  <2>2. nextID \in Nat \ {0}
    BY DEF Init
  <2>3. pending = {} /\ panicked \in BOOLEAN
    BY Zenon DEF Init
  <2> QED BY <1>1, <2>1, <2>2, <2>3 DEF TableTyped
<1>3. CallsTyped
  BY DEF Init, CallPCs, Results, CallsTyped
<1>4. LoopTyped
  BY DEF Init, LoopPCs, AtRead, LoopState, LoopTyped
<1>5. EndsTyped
  BY DEF Init, EndsTyped
<1>6. CheckTyped
  BY ClientAssumption DEF Init, CheckTyped
<1> QED BY <1>2, <1>3, <1>4, <1>5, <1>6, TypeParts

LEMMA CallGoesType ==
  ASSUME CallsTyped, NEW c \in Callers, NEW pc \in CallPCs, NEW id \in Nat,
         NEW result \in Results, pc # "idle" => id \in Ids', Ids \subseteq Ids',
         call' = [call EXCEPT ![c] = [pc |-> pc, id |-> id, result |-> result]]
  PROVE  CallsTyped'
<1>1. call' \in [Callers -> [pc : CallPCs, id : Nat, result : Results]]
  BY DEF CallsTyped
<1>2. ASSUME NEW d \in Callers, call'[d].pc # "idle" PROVE call'[d].id \in Ids'
  <2>1. CASE d = c
    BY <1>2, <2>1 DEF CallsTyped
  <2>2. CASE d # c
    BY <1>2, <2>2 DEF CallsTyped
  <2> QED BY <2>1, <2>2
<1> QED BY <1>1, <1>2 DEF CallsTyped

(* The steps of a call.                                                    *)
LEMMA CallTypeOK ==
  ASSUME TypeOK, NEW c \in Callers, CallBegins(c) \/ Call(c) \/ CallTimesOut(c)
  PROVE  TypeOK'
<1> USE DEF callVars, chanVars, loopVars, peerVars, checkVars, CallAt, CallGoes, CallEnds
<1>1. /\ CallsTyped /\ TableTyped /\ call[c].id \in Nat /\ call[c].result \in Results
      /\ call[c].pc # "idle" => call[c].id \in Ids
  BY TypeParts DEF CallsTyped
<1>2. CheckTyped'
  BY PartsStay DEF Call, CallBegins, CallRegisters, CallWrites, CallReceives, CallSeesDone,
                   CallRemoves, CallTimesOut
<1>3. UNCHANGED loopVars /\ UNCHANGED <<closer, local, peer, down, pushed>>
  BY DEF Call, CallBegins, CallRegisters, CallWrites, CallReceives, CallSeesDone,
         CallRemoves, CallTimesOut
<1>4. asked' \subseteq Nat
  BY <1>1, TypeParts DEF EndsTyped, Call, CallBegins, CallRegisters, CallWrites, CallReceives,
                         CallSeesDone, CallRemoves, CallTimesOut
<1>5. EndsTyped'
  BY <1>3, <1>4, TypeParts DEF EndsTyped
<1>6. Ids \subseteq Ids' => LoopTyped'
  BY <1>3, TypeParts DEF LoopTyped
<1>7. CASE CallBegins(c)
  <2>1. nextID \in Ids' /\ Ids \subseteq Ids' /\ Ids' = Ids \cup {nextID}
    BY <1>1, <1>7 DEF CallBegins, Ids, TableTyped
  <2>2. CallsTyped'
    BY <1>1, <1>7, <2>1, CallGoesType DEF CallBegins, CallPCs, Results, TableTyped
  <2>3. TableTyped'
    BY <1>1, <1>7, <2>1 DEF CallBegins, Chan, TableTyped
  <2> QED BY <1>2, <1>5, <1>6, <2>1, <2>2, <2>3, TypePartsNext
<1>8. ASSUME ~CallBegins(c) PROVE nextID' = nextID /\ Ids' = Ids
  BY <1>8, PartsStay DEF Call, CallRegisters, CallWrites, CallReceives, CallSeesDone, CallRemoves,
                         CallTimesOut
<1>9. ASSUME ~CallBegins(c), CallsTyped', TableTyped' PROVE TypeOK'
  BY <1>2, <1>5, <1>6, <1>8, <1>9, TypePartsNext
<1>10. CASE CallRegisters(c) /\ ~CallBegins(c)
  <2>1. CallsTyped'
    BY <1>1, <1>8, <1>10, CallGoesType DEF CallRegisters, CallPCs, Results
  <2>2. TableTyped'
    BY <1>1, <1>8, <1>10 DEF CallRegisters, TableTyped
  <2> QED BY <1>9, <1>10, <2>1, <2>2
<1>11. CASE (CallWrites(c) \/ CallSeesDone(c) \/ CallTimesOut(c)) /\ ~CallBegins(c)
  <2>1. CallsTyped'
    BY <1>1, <1>8, <1>11, CallGoesType DEF CallWrites, CallSeesDone, CallTimesOut, CallPCs, Results
  <2>2. TableTyped'
    BY <1>8, <1>11, PartsStay DEF CallWrites, CallSeesDone, CallTimesOut
  <2> QED BY <1>9, <1>11, <2>1, <2>2
<1>12. CASE CallReceives(c) /\ ~CallBegins(c)
  <2>1. CallsTyped'
    BY <1>1, <1>8, <1>12, CallGoesType DEF CallReceives, CallPCs, Results
  <2>2. chan[call[c].id].closed \in BOOLEAN
    BY <1>1, <1>12 DEF CallReceives, TableTyped, Chan
  <2>3. chan' \in [Ids -> Chan]
    <3> DEFINE emptied == [full |-> FALSE, closed |-> chan[call[c].id].closed]
    <3>1. emptied \in Chan
      BY <2>2 DEF Chan
    <3>2. chan' = [chan EXCEPT ![call[c].id] = emptied] \/ chan' = chan
      BY <1>12 DEF CallReceives
    <3>3. chan \in [Ids -> Chan]
      BY <1>1 DEF TableTyped
    <3> HIDE DEF emptied
    <3> QED BY <3>1, <3>2, <3>3
  <2>4. TableTyped'
    BY <1>1, <1>8, <1>12, <2>3 DEF CallReceives, TableTyped
  <2> QED BY <1>9, <1>12, <2>1, <2>4
<1>13. CASE CallRemoves(c) /\ ~CallBegins(c)
  <2>1. CallsTyped'
    BY <1>1, <1>8, <1>13, CallGoesType DEF CallRemoves, CallPCs
  <2>2. TableTyped'
    BY <1>1, <1>8, <1>13 DEF CallRemoves, TableTyped
  <2> QED BY <1>9, <1>13, <2>1, <2>2
<1> QED BY <1>7, <1>10, <1>11, <1>12, <1>13 DEF Call

LEMMA CloseChanType ==
  ASSUME TableTyped, NEW i \in Ids, CloseChan(i)
  PROVE  chan' \in [Ids -> Chan] /\ panicked' \in BOOLEAN
<1>1. chan[i].full \in BOOLEAN /\ chan[i].closed \in BOOLEAN
  BY DEF TableTyped, Chan
<1> QED BY <1>1 DEF CloseChan, TableTyped, Chan

LEMMA LoopTypeOK ==
  ASSUME TypeOK, ReadLoop
  PROVE  TypeOK'
<1> USE DEF callVars, chanVars, loopVars, peerVars, checkVars
<1>1. Ids' = Ids /\ CallsTyped'
  BY PartsStay DEF ReadLoop, LoopReads, LoopSends, LoopCloses, LoopReplies, LoopHandles,
                   LoopReadFails, LoopFails, LoopFailsOne, LoopEnds
<1>2. UNCHANGED <<nextID, closer, local, peer, asked, pushed, runs, run>>
  BY DEF ReadLoop, LoopReads, LoopSends, LoopCloses, LoopReplies, LoopHandles,
         LoopReadFails, LoopFails, LoopFailsOne, LoopEnds
<1>3. TableTyped /\ LoopTyped /\ EndsTyped /\ CheckTyped
  BY TypeParts
<1>4. CASE LoopReads
  <2>1. down' \in Seq(Message) /\ Head(down) \in Message
    BY <1>3, <1>4, TailType DEF LoopReads, EndsTyped
  <2>2. LoopTyped' /\ pending' \subseteq Ids
    <3>1. CASE RouteResponse(Head(down).id)
      <4> DEFINE i == Head(down).id
      <4>1. i \in Nat /\ pending \subseteq Ids
        BY <1>3, <2>1 DEF Message, TableTyped
      <4>2. (rl' = LoopState("send", i, {}) /\ i \in Ids) \/ rl' = AtRead
        BY <3>1, <4>1 DEF RouteResponse
      <4>3. pending' \subseteq Ids
        BY <3>1, <4>1 DEF RouteResponse
      <4>4. done' = done
        BY <1>4 DEF LoopReads
      <4> HIDE DEF i
      <4> QED BY <1>1, <1>3, <4>1, <4>2, <4>3, <4>4 DEF LoopTyped, LoopState, AtRead, LoopPCs
    <3>2. CASE ~RouteResponse(Head(down).id)
      <4>1. run # 0 => run \in 1 .. MaxRuns
        BY <1>3, ClientAssumption DEF CheckTyped
      <4>2. run \in Nat
        BY <1>3, ClientAssumption DEF CheckTyped
      <4> QED BY <1>1, <1>3, <1>4, <3>2, <4>1, <4>2
              DEF LoopReads, LoopTyped, TableTyped, LoopState, AtRead, LoopPCs
    <3> QED BY <3>1, <3>2
  <2>3. TableTyped' /\ CheckTyped'
    BY <1>1, <1>2, <1>3, <1>4, <2>2, PartsStay DEF LoopReads, TableTyped
  <2>4. EndsTyped'
    BY <1>2, <1>3, <2>1 DEF EndsTyped
  <2> QED BY <1>1, <2>2, <2>3, <2>4, TypePartsNext
<1>5. CASE LoopHandles
  <2>1. TableTyped' /\ EndsTyped'
    BY <1>5, PartsStay DEF LoopHandles
  <2>2. LoopTyped' /\ CheckTyped'
    BY <1>1, <1>2, <1>3, <1>5, ClientAssumption
       DEF LoopHandles, LoopTyped, CheckTyped, AtRead, LoopState, LoopPCs
  <2> QED BY <1>1, <2>1, <2>2, TypePartsNext
<1>6. ASSUME ~LoopReads, ~LoopHandles PROVE EndsTyped' /\ CheckTyped'
  BY <1>6, PartsStay DEF ReadLoop, LoopSends, LoopCloses, LoopReplies, LoopReadFails, LoopFails,
                         LoopFailsOne, LoopEnds
<1>7. ASSUME ~LoopReads, ~LoopHandles PROVE LoopTyped'
  <2>1. \E pc \in LoopPCs, id \in Nat, todo \in SUBSET Ids :
          /\ rl' = LoopState(pc, id, todo)
          /\ pc \in {"send", "close"} => id \in Ids
          /\ pc # "handler"
    <3> USE DEF LoopPCs, AtRead
    <3>1. CASE LoopSends
      BY <1>3, <3>1 DEF LoopSends, LoopTyped
    <3>2. CASE LoopCloses \/ LoopReplies \/ LoopReadFails \/ LoopEnds
      BY <3>2 DEF LoopCloses, LoopReplies, LoopReadFails, LoopEnds
    <3>3. CASE LoopFails
      BY <1>3, <3>3 DEF LoopFails, TableTyped
    <3>4. CASE LoopFailsOne
      BY <1>3, <3>4 DEF LoopFailsOne, LoopTyped
    <3> QED BY <1>7, <3>1, <3>2, <3>3, <3>4 DEF ReadLoop
  <2>2. done' \in BOOLEAN
    BY <1>3, <1>7 DEF ReadLoop, LoopSends, LoopCloses, LoopReplies, LoopReadFails, LoopFails,
                      LoopFailsOne, LoopEnds, LoopTyped
  <2> QED BY <1>1, <2>1, <2>2 DEF LoopTyped, LoopState
<1>8. CASE LoopReplies \/ LoopReadFails \/ LoopEnds
  BY <1>1, <1>8, PartsStay, <1>6, <1>7, TypePartsNext
     DEF LoopReplies, LoopReadFails, LoopEnds, LoopReads, LoopHandles
<1>9. CASE LoopFails
  <2>1. TableTyped'
    BY <1>1, <1>2, <1>3, <1>9 DEF LoopFails, TableTyped
  <2> QED BY <1>1, <1>6, <1>7, <1>9, <2>1, TypePartsNext DEF LoopFails, LoopReads, LoopHandles
<1>10. CASE LoopSends
  <2>1. rl.id \in Ids /\ chan[rl.id].closed \in BOOLEAN
    BY <1>3, <1>10 DEF LoopSends, LoopTyped, TableTyped, Chan
  <2>2. chan' \in [Ids -> Chan] /\ panicked' \in BOOLEAN
    BY <1>3, <1>10, <2>1 DEF LoopSends, TableTyped, Chan
  <2>3. TableTyped'
    BY <1>1, <1>2, <1>3, <1>10, <2>2 DEF LoopSends, TableTyped
  <2> QED BY <1>1, <1>6, <1>7, <1>10, <2>3, TypePartsNext DEF LoopSends, LoopReads, LoopHandles
<1>11. CASE LoopCloses \/ LoopFailsOne
  <2>1. chan' \in [Ids -> Chan] /\ panicked' \in BOOLEAN
    BY <1>3, <1>11, CloseChanType DEF LoopCloses, LoopFailsOne, LoopTyped
  <2>2. TableTyped'
    BY <1>1, <1>2, <1>3, <1>11, <2>1 DEF LoopCloses, LoopFailsOne, TableTyped
  <2> QED BY <1>1, <1>6, <1>7, <1>11, <2>2, TypePartsNext
          DEF LoopCloses, LoopFailsOne, LoopReads, LoopHandles
<1> QED BY <1>4, <1>5, <1>8, <1>9, <1>10, <1>11 DEF ReadLoop

(* Close, the check engine and the peer.                                   *)
Others ==
  \/ CloseBegins \/ CloseReturns \/ RunBegins \/ RunReceives \/ RunEnds
  \/ PeerAnswers \/ PeerPushes \/ PeerCloses

LEMMA OthersTypeOK ==
  ASSUME TypeOK, Others
  PROVE  TypeOK'
<1> USE DEF callVars, chanVars, loopVars, peerVars, checkVars
<1>1. CallsTyped' /\ TableTyped' /\ LoopTyped'
  BY PartsStay DEF Others, CloseBegins, CloseReturns, RunBegins, RunReceives, RunEnds,
                   PeerAnswers, PeerPushes, PeerCloses
<1>2. EndsTyped /\ CheckTyped
  BY TypeParts
<1>3. CASE CloseBegins \/ CloseReturns \/ PeerCloses
  BY <1>1, <1>2, <1>3, PartsStay, TypePartsNext DEF CloseBegins, CloseReturns, PeerCloses, EndsTyped
<1>4. CASE RunBegins \/ RunEnds
  <2>1. CheckTyped'
    BY <1>2, <1>4, ClientAssumption DEF RunBegins, RunEnds, CheckTyped
  <2> QED BY <1>1, <1>4, <2>1, PartsStay, TypePartsNext DEF RunBegins, RunEnds
<1>5. CASE RunReceives
  <2>1. queue[run] - 1 \in 0 .. ChanCap
    BY <1>2, <1>5, ClientAssumption DEF RunReceives, CheckTyped
  <2>2. CheckTyped'
    BY <1>2, <1>5, <2>1 DEF RunReceives, CheckTyped
  <2> QED BY <1>1, <1>5, <2>2, PartsStay, TypePartsNext DEF RunReceives
<1>6. CASE PeerAnswers
  <2>1. down' \in Seq(Message) /\ asked' \subseteq Nat
    BY <1>2, <1>6 DEF PeerAnswers, Message, EndsTyped
  <2>2. EndsTyped' /\ CheckTyped'
    BY <1>2, <1>6, <2>1, PartsStay DEF PeerAnswers, EndsTyped
  <2> QED BY <1>1, <2>2, TypePartsNext
<1>7. CASE PeerPushes
  <2>1. down' \in Seq(Message) /\ pushed' \in Nat
    BY <1>2, <1>7 DEF PeerPushes, Message, EndsTyped
  <2>2. EndsTyped' /\ CheckTyped'
    BY <1>2, <1>7, <2>1, PartsStay DEF PeerPushes, EndsTyped
  <2> QED BY <1>1, <2>2, TypePartsNext
<1> QED BY <1>3, <1>4, <1>5, <1>6, <1>7 DEF Others

LEMMA StutterTypeOK ==
  ASSUME TypeOK, UNCHANGED vars
  PROVE  TypeOK'
BY PartsStay, TypePartsNext DEF vars, callVars, chanVars, loopVars, peerVars, checkVars

(* Every reachable state is well typed: in particular a call in progress   *)
(* and a response in hand always name a channel that was made.             *)
THEOREM ClientTypeCorrect == Spec => []TypeOK
<1>1. TypeOK /\ [Next]_vars => TypeOK'
  BY CallTypeOK, LoopTypeOK, OthersTypeOK, StutterTypeOK DEF Next, Others
<1> QED BY <1>1, InitTypeOK, PTL DEF Spec
-----------------------------------------------------------------------------
(* Response channels.  readLoop holds the channels it took from the table  *)
(* and has still to close; nobody else closes a channel or sends to it.    *)

Held(i) == (rl.pc \in {"send", "close"} /\ rl.id = i) \/ i \in rl.todo
Untouched(i) == ~chan[i].full /\ ~chan[i].closed /\ ~Held(i)

ChansSound ==
  /\ ~panicked
  /\ rl.pc # "failing" => rl.todo = {}
  /\ \A i \in Ids : Held(i) => ~chan[i].closed
  /\ \A i \in pending : Untouched(i)
RegisterFresh ==
  \A c \in Callers : CallAt(c, "register") => call[c].id \notin pending /\ Untouched(call[c].id)
CallsDistinct ==
  \A c, d \in Callers : ~CallAt(c, "idle") /\ ~CallAt(d, "idle") /\ c # d => call[c].id # call[d].id
EndOrder == (done => rl.pc = "gone") /\ (closer = "returned" => done)

ClientInv ==
  TypeOK /\ ChansSound /\ RegisterFresh /\ CallsDistinct /\ PendingIsRunning /\ EndOrder

LEMMA InitClientInv == Init => ClientInv
<1> SUFFICES ASSUME Init PROVE ClientInv
  OBVIOUS
<1>1. TypeOK
  BY InitTypeOK
<1>2. pending = {} /\ Ids = {} /\ (\A c \in Callers : call[c].pc = "idle")
  BY DEF Init, Ids
<1>3. rl.pc = "read" /\ rl.todo = {} /\ closer = "none" /\ done = FALSE /\ panicked = FALSE
  BY DEF Init, AtRead, LoopState
<1>4. RegisterFresh /\ CallsDistinct
  BY <1>2 DEF RegisterFresh, CallsDistinct, CallAt
<1>5. ChansSound /\ PendingIsRunning
  BY <1>2, <1>3 DEF ChansSound, PendingIsRunning
<1>6. EndOrder
  BY <1>3 DEF EndOrder
<1> QED BY <1>1, <1>4, <1>5, <1>6 DEF ClientInv

(* A step of readLoop leaves alone a channel nobody gave it, be its entry  *)
(* in the table and still there, or its call about to add one.             *)
LEMMA LoopLeavesAlone ==
  ASSUME ClientInv, ReadLoop, NEW i \in Ids, Untouched(i), i \in pending => i \in pending'
  PROVE  Untouched(i)'
<1> USE DEF callVars, chanVars, loopVars, peerVars, checkVars, Untouched, Held, LoopState, AtRead
<1>1. chan \in [Ids -> Chan] /\ TypeOK
  BY DEF ClientInv, TypeOK
<1>2. CASE LoopReads
  <2>1. chan' = chan
    BY <1>2 DEF LoopReads
  <2>2. rl'.todo = {}
    BY <1>2 DEF LoopReads, RouteResponse
  <2>3. ~(rl'.pc \in {"send", "close"} /\ rl'.id = i)
    BY <1>2 DEF LoopReads, RouteResponse
  <2> QED BY <2>1, <2>2, <2>3
<1>3. CASE LoopSends
  BY <1>1, <1>3 DEF LoopSends
<1>4. CASE LoopCloses
  BY <1>1, <1>4 DEF LoopCloses, CloseChan
<1>5. CASE LoopReplies \/ LoopHandles \/ LoopReadFails \/ LoopEnds
  BY <1>5 DEF LoopReplies, LoopHandles, LoopReadFails, LoopEnds
<1>6. CASE LoopFails
  BY <1>6 DEF LoopFails
<1>7. CASE LoopFailsOne
  <2>1. PICK j \in rl.todo : CloseChan(j) /\ rl' = LoopState("failing", 0, rl.todo \ {j})
    BY <1>7 DEF LoopFailsOne
  <2> QED BY <1>1, <2>1 DEF CloseChan
<1> QED BY <1>2, <1>3, <1>4, <1>5, <1>6, <1>7 DEF ReadLoop

(* What readLoop holds, it has not closed, and it closes nothing else.     *)
LEMMA LoopHoldsOpen ==
  ASSUME ClientInv, ReadLoop
  PROVE  /\ panicked' = FALSE
         /\ rl'.pc # "failing" => rl'.todo = {}
         /\ \A i \in Ids : Held(i)' => ~chan'[i].closed
<1> USE DEF callVars, chanVars, loopVars, peerVars, checkVars, Held, LoopState, AtRead
<1>1. chan \in [Ids -> Chan] /\ TypeOK /\ panicked = FALSE
  BY DEF ClientInv, TypeOK, ChansSound
<1>2. /\ rl.pc # "failing" => rl.todo = {}
      /\ \A i \in Ids : Held(i) => ~chan[i].closed
      /\ \A i \in pending : ~chan[i].closed
  BY DEF ClientInv, ChansSound, Untouched
<1>3. rl.todo \subseteq Ids /\ (rl.pc \in {"send", "close"} => rl.id \in Ids)
  BY <1>1 DEF TypeOK
<1>4. CASE LoopReads
  <2>1. chan' = chan /\ panicked' = panicked
    BY <1>4 DEF LoopReads
  <2>2. rl'.todo = {} /\ rl'.pc # "close" /\ (rl'.pc = "send" => rl'.id \in pending)
    BY <1>4 DEF LoopReads, RouteResponse
  <2> QED BY <1>1, <1>2, <2>1, <2>2
<1>5. CASE LoopSends
  <2>1. ~chan[rl.id].closed /\ rl.id \in Ids
    BY <1>2, <1>3, <1>5 DEF LoopSends
  <2>2. panicked' = FALSE
    BY <1>1, <1>5, <2>1 DEF LoopSends
  <2> QED BY <1>1, <1>2, <1>5, <2>1, <2>2 DEF LoopSends
<1>6. CASE LoopCloses
  <2>1. ~chan[rl.id].closed
    BY <1>2, <1>3, <1>6 DEF LoopCloses
  <2> QED BY <1>1, <1>6, <2>1 DEF LoopCloses, CloseChan
<1>7. CASE LoopReplies \/ LoopHandles \/ LoopReadFails \/ LoopEnds
  BY <1>1, <1>2, <1>7 DEF LoopReplies, LoopHandles, LoopReadFails, LoopEnds
<1>8. CASE LoopFails
  BY <1>1, <1>2, <1>8 DEF LoopFails
<1>9. CASE LoopFailsOne
  <2>1. PICK j \in rl.todo : CloseChan(j) /\ rl' = LoopState("failing", 0, rl.todo \ {j})
    BY <1>9 DEF LoopFailsOne
  <2>2. ~chan[j].closed
    BY <1>2, <1>3, <2>1
  <2> QED BY <1>1, <1>2, <1>3, <2>1, <2>2 DEF CloseChan
<1> QED BY <1>4, <1>5, <1>6, <1>7, <1>8, <1>9 DEF ReadLoop

LEMMA LoopKeepsInv ==
  ASSUME ClientInv, ReadLoop
  PROVE  ClientInv'
<1>1. TypeOK /\ TypeOK' /\ Ids' = Ids
  BY LoopTypeOK, PartsStay DEF ClientInv, ReadLoop, LoopReads, LoopSends, LoopCloses, LoopReplies,
     LoopHandles, LoopReadFails, LoopFails, LoopFailsOne, LoopEnds, callVars
<1>2. call' = call /\ closer' = closer
  BY DEF ReadLoop, LoopReads, LoopSends, LoopCloses, LoopReplies, LoopHandles, LoopReadFails,
         LoopFails, LoopFailsOne, LoopEnds, callVars
<1>3. pending' \subseteq pending
  BY DEF ReadLoop, LoopReads, LoopSends, LoopCloses, LoopReplies, LoopHandles, LoopReadFails,
         LoopFails, LoopFailsOne, LoopEnds, RouteResponse, chanVars
<1>4. pending \subseteq Ids /\ \A c \in Callers : CallAt(c, "register") => call[c].id \in Ids
  BY <1>1 DEF TypeOK, CallAt
<1>5. ChansSound'
  <2>1. \A i \in pending' : Untouched(i)'
    BY <1>3, <1>4, LoopLeavesAlone DEF ClientInv, ChansSound
  <2> QED BY <1>1, <2>1, LoopHoldsOpen DEF ChansSound
<1>6. RegisterFresh'
  BY <1>2, <1>3, <1>4, LoopLeavesAlone DEF ClientInv, RegisterFresh, CallAt
<1>7. CallsDistinct' /\ PendingIsRunning'
  BY <1>2, <1>3 DEF ClientInv, CallsDistinct, PendingIsRunning, CallAt
<1>8. EndOrder'
  BY <1>2 DEF ClientInv, EndOrder, ReadLoop, LoopReads, LoopSends, LoopCloses, LoopReplies,
     LoopHandles, LoopReadFails, LoopFails, LoopFailsOne, LoopEnds, LoopState, chanVars
<1> QED BY <1>1, <1>5, <1>6, <1>7, <1>8 DEF ClientInv

(* A step of a call disturbs the channel of its own request only, and that *)
(* one only to make it or to empty it.                                     *)
LEMMA CallLeavesAlone ==
  ASSUME ClientInv, NEW c \in Callers, CallBegins(c) \/ Call(c) \/ CallTimesOut(c)
  PROVE  /\ UNCHANGED <<panicked, loopVars, closer>>
         /\ \A i \in Ids : chan'[i].closed = chan[i].closed /\ (~chan[i].full => ~chan'[i].full)
         /\ \A i \in Ids : Untouched(i) => Untouched(i)'
<1> USE DEF loopVars, peerVars, checkVars, chanVars, CallGoes, CallEnds, CallAt
<1>1. chan \in [Ids -> Chan] /\ nextID \notin Ids
  BY DEF ClientInv, TypeOK, Ids
<1>2. UNCHANGED <<panicked, loopVars, closer>>
  BY DEF Call, CallBegins, CallRegisters, CallWrites, CallReceives, CallSeesDone, CallRemoves,
         CallTimesOut
<1>3. ASSUME NEW i \in Ids
      PROVE  chan'[i].closed = chan[i].closed /\ (~chan[i].full => ~chan'[i].full)
  <2>1. CASE CallBegins(c)
    BY <1>1, <2>1 DEF CallBegins
  <2>2. CASE CallReceives(c)
    BY <1>1, <2>2 DEF CallReceives
  <2>3. CASE ~CallBegins(c) /\ ~CallReceives(c)
    BY <2>3 DEF Call, CallRegisters, CallWrites, CallSeesDone, CallRemoves, CallTimesOut
  <2> QED BY <2>1, <2>2, <2>3
<1> QED BY <1>2, <1>3 DEF Untouched, Held

LEMMA CallKeepsInv ==
  ASSUME ClientInv, NEW c \in Callers, CallBegins(c) \/ Call(c) \/ CallTimesOut(c)
  PROVE  ClientInv'
<1> USE DEF CallAt
<1> DEFINE id == call[c].id
<1>1. TypeOK /\ TypeOK'
  BY CallTypeOK DEF ClientInv
<1>2. /\ UNCHANGED <<panicked, loopVars, closer>>
      /\ \A i \in Ids : chan'[i].closed = chan[i].closed /\ (~chan[i].full => ~chan'[i].full)
      /\ \A i \in Ids : Untouched(i) => Untouched(i)'
  BY CallLeavesAlone
<1>3. /\ call \in [Callers -> [pc : CallPCs, id : Nat, result : Results]]
      /\ \A d \in Callers : call[d].pc # "idle" => call[d].id \in Ids
      /\ pending \subseteq Ids /\ rl.todo \subseteq Ids
      /\ rl.pc \in {"send", "close"} => rl.id \in Ids
      /\ nextID \notin Ids
  BY <1>1 DEF TypeOK, Ids
<1>4. EndOrder'
  BY <1>2 DEF ClientInv, EndOrder, loopVars
<1>5. CASE CallBegins(c)
  <2>1. /\ call' = [call EXCEPT ![c] = [pc |-> "register", id |-> nextID, result |-> "none"]]
        /\ call[c].pc = "idle" /\ pending' = pending /\ Ids' = Ids \cup {nextID}
        /\ chan'[nextID] = [full |-> FALSE, closed |-> FALSE]
    <3>1. Ids' = Ids \cup {nextID}
      BY <1>1, <1>5 DEF CallBegins, Ids, TypeOK
    <3> QED BY <1>5, <3>1 DEF CallBegins
  <2>2. \A i : i = nextID => Untouched(i)'
    BY <1>2, <1>3, <2>1 DEF Untouched, Held, loopVars
  <2>3. ChansSound'
    <3>1. \A i \in Ids' : Held(i)' => ~chan'[i].closed
      BY <1>2, <1>3, <2>1 DEF ClientInv, ChansSound, Held, loopVars
    <3> QED BY <1>2, <1>3, <2>1, <3>1 DEF ClientInv, ChansSound, loopVars
  <2>4. RegisterFresh'
    <3> SUFFICES ASSUME NEW d \in Callers, NEW i, i = call'[d].id, call'[d].pc = "register"
                 PROVE  i \notin pending' /\ Untouched(i)'
      BY DEF RegisterFresh, Untouched, Held
    <3>1. CASE d = c
      BY <1>3, <2>1, <2>2, <3>1
    <3>2. CASE d # c
      BY <1>2, <1>3, <2>1, <3>2 DEF ClientInv, RegisterFresh
    <3> QED BY <3>1, <3>2
  <2>5. CallsDistinct'
    BY <1>3, <2>1 DEF ClientInv, CallsDistinct
  <2>6. PendingIsRunning'
    BY <1>3, <2>1 DEF ClientInv, PendingIsRunning
  <2> QED BY <1>1, <1>4, <2>3, <2>4, <2>5, <2>6 DEF ClientInv
<1>6. ASSUME ~CallBegins(c), call[c].pc # "idle", call'[c].id = id,
             \A d \in Callers : d # c => call'[d] = call[d],
             call'[c].pc # "register",
             pending' \subseteq pending \/ (CallRegisters(c) /\ pending' = pending \cup {id}),
             \A i \in pending' \cap pending : i = id => call'[c].pc \in {"write", "wait", "remove"},
             id \in pending' \ pending => call'[c].pc \in {"write", "wait", "remove"}
      PROVE  ClientInv'
  <2>1. Ids' = Ids
    BY <1>6 DEF Call, CallRegisters, CallWrites, CallReceives, CallSeesDone, CallRemoves,
                CallTimesOut, Ids
  <2>2. CallRegisters(c) => Untouched(id)
    BY DEF CallRegisters, ClientInv, RegisterFresh
  <2>3. ChansSound'
    <3>1. \A i \in Ids' : Held(i)' => ~chan'[i].closed
      BY <1>2, <2>1 DEF ClientInv, ChansSound, Held, loopVars
    <3>2. \A i \in pending' : Untouched(i)'
      BY <1>2, <1>3, <1>6, <2>2 DEF ClientInv, ChansSound
    <3> QED BY <1>2, <3>1, <3>2 DEF ClientInv, ChansSound, loopVars
  <2>4. CallsDistinct'
    BY <1>6 DEF ClientInv, CallsDistinct
  <2>5. RegisterFresh'
    <3> SUFFICES ASSUME NEW d \in Callers, NEW i, i = call'[d].id, call'[d].pc = "register"
                 PROVE  i \notin pending' /\ Untouched(i)'
      BY DEF RegisterFresh, Untouched, Held
    <3>1. d # c /\ call'[d] = call[d]
      BY <1>6
    <3>2. call[d].id \notin pending /\ Untouched(call[d].id) /\ call[d].id \in Ids
      BY <1>3, <3>1 DEF ClientInv, RegisterFresh
    <3>3. call[d].id # id
      BY <1>6, <3>1 DEF ClientInv, CallsDistinct
    <3> QED BY <1>2, <1>6, <3>1, <3>2, <3>3
  <2>6. PendingIsRunning'
    <3> SUFFICES ASSUME NEW i \in pending'
                 PROVE  \E d \in Callers :
                          call'[d].id = i /\ call'[d].pc \in {"write", "wait", "remove"}
      BY DEF PendingIsRunning
    <3>1. CASE i = id
      BY <1>6, <3>1
    <3>2. CASE i # id
      <4>1. PICK d \in Callers : call[d].id = i /\ call[d].pc \in {"write", "wait", "remove"}
        BY <1>6, <3>2 DEF ClientInv, PendingIsRunning
      <4>2. d # c
        BY <3>2, <4>1
      <4> QED BY <1>6, <4>1, <4>2
    <3> QED BY <3>1, <3>2
  <2> QED BY <1>1, <1>4, <2>3, <2>4, <2>5, <2>6 DEF ClientInv
<1> USE DEF chanVars, CallGoes, CallEnds
<1>7. CASE CallRegisters(c)
  BY <1>3, <1>6, <1>7 DEF CallRegisters, CallBegins, ClientInv, RegisterFresh
<1>8. CASE CallWrites(c) \/ CallTimesOut(c) \/ CallSeesDone(c)
  BY <1>3, <1>6, <1>8 DEF CallWrites, CallTimesOut, CallSeesDone, CallBegins
<1>9. CASE CallReceives(c)
  <2>1. id \notin pending
    BY <1>9 DEF CallReceives, ClientInv, ChansSound, Untouched
  <2> QED BY <1>3, <1>6, <1>9, <2>1 DEF CallReceives, CallBegins
<1>10. CASE CallRemoves(c)
  BY <1>3, <1>6, <1>10 DEF CallRemoves, CallBegins
<1> QED BY <1>5, <1>7, <1>8, <1>9, <1>10 DEF Call

LEMMA OthersKeepInv ==
  ASSUME ClientInv, Others \/ UNCHANGED vars
  PROVE  ClientInv'
<1>1. TypeOK' /\ UNCHANGED <<call, nextID, pending, chan, panicked, rl, done>>
  BY OthersTypeOK, StutterTypeOK
     DEF ClientInv, Others, CloseBegins, CloseReturns, RunBegins, RunReceives, RunEnds, PeerAnswers,
         PeerPushes, PeerCloses, vars, callVars, chanVars, loopVars
<1>2. ChansSound' /\ RegisterFresh'
  BY <1>1 DEF ClientInv, ChansSound, RegisterFresh, Untouched, Held, CallAt, Ids
<1>3. CallsDistinct' /\ PendingIsRunning'
  BY <1>1 DEF ClientInv, CallsDistinct, PendingIsRunning, CallAt
<1>4. EndOrder'
  BY <1>1 DEF ClientInv, EndOrder, Others, CloseBegins, CloseReturns, RunBegins, RunReceives,
              RunEnds, PeerAnswers, PeerPushes, PeerCloses, vars
<1> QED BY <1>1, <1>2, <1>3, <1>4 DEF ClientInv

LEMMA ClientInvariant == Spec => []ClientInv
<1>1. ClientInv /\ [Next]_vars => ClientInv'
  BY CallKeepsInv, LoopKeepsInv, OthersKeepInv DEF Next, Others
<1> QED BY <1>1, InitClientInv, PTL DEF Spec

(* routeResponse, failPending and the callers that take their entries out  *)
(* share the table under its lock: however they interleave, no channel is  *)
(* closed twice and none is sent to after its close.                       *)
THEOREM NoPanicEver == Spec => []NoPanic
<1>1. ClientInv => NoPanic
  BY DEF ClientInv, ChansSound, NoPanic
<1> QED BY <1>1, ClientInvariant, PTL

(* An entry of c.pending always belongs to a call that is under way, also  *)
(* when the reader ends between registerPending's look at done and its     *)
(* entry: the table leaks nothing.                                         *)
THEOREM PendingAreRunning == Spec => []PendingIsRunning
<1>1. ClientInv => PendingIsRunning
  BY DEF ClientInv
<1> QED BY <1>1, ClientInvariant, PTL

(* When Close has returned the reader is gone: no handler of a check run   *)
(* runs any more, and no response reaches a call.                          *)
THEOREM ClosedAreStopped == Spec => []ClosedMeansStopped
<1>1. ClientInv => ClosedMeansStopped
  BY DEF ClientInv, EndOrder, ClosedMeansStopped
<1> QED BY <1>1, ClientInvariant, PTL
=============================================================================
