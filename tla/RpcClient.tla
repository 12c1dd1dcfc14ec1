------------------------------ MODULE RpcClient ------------------------------
(***************************************************************************)
(* The JSON-RPC client of pkg/lsp/client.go: goroutines that call it (the  *)
(* query engine shares one client among three), the readLoop goroutine,    *)
(* Close, and the only subscriber of notifications, the check engine of    *)
(* pkg/lsp/check.go, whose handler sends to a bounded channel.  The far    *)
(* end of the connection is external.                                      *)
(***************************************************************************)
EXTENDS Naturals, Sequences, FiniteSets

CONSTANTS
  Callers,    (* goroutines that call the client                             *)
  MaxCalls,   (* bound: requests in all                                      *)
  MaxPushed,  (* bound: notifications and requests of the peer               *)
  MaxRuns,    (* bound: check runs over the client                           *)
  ChanCap     (* room in a check run's channel (64 in the code)              *)

ASSUME ClientAssumption ==
  /\ MaxCalls \in Nat /\ MaxPushed \in Nat /\ MaxRuns \in Nat /\ ChanCap \in Nat

VARIABLES
  call,      (* each caller: where it is in Call, its request, how it ended  *)
  nextID,    (* c.nextID                                                     *)
  pending,   (* the keys of c.pending: a channel has its request's id        *)
  chan,      (* the response channels made so far                            *)
  panicked,  (* a channel was sent to or closed after it was closed          *)
  rl,        (* the readLoop goroutine                                       *)
  done,      (* c.done is closed                                             *)
  closer,    (* the goroutine in Close                                       *)
  local,     (* the transport, at this end                                   *)
  peer,      (* the connection, at the far end                               *)
  asked,     (* requests the peer has and did not answer                     *)
  down,      (* messages on their way to the client                          *)
  pushed,    (* how many messages the peer started itself                    *)
  runs, run, (* check runs so far; the one that is subscribed, or 0          *)
  queue      (* diagnostics in the channel of each check run                 *)

callVars  == <<call, nextID>>
chanVars  == <<pending, chan, panicked>>
loopVars  == <<rl, done>>
peerVars  == <<peer, asked, down, pushed>>
checkVars == <<runs, run, queue>>
vars == <<callVars, chanVars, loopVars, closer, local, peerVars, checkVars>>

Ids == 1 .. nextID - 1
Chan == [full : BOOLEAN, closed : BOOLEAN]
CallPCs == {"idle", "register", "write", "wait", "remove"}
Results == {"none", "answered", "timeout", "failed"}
LoopPCs == {"read", "send", "close", "reply", "handler", "fail", "failing", "gone"}
Message == [kind : {"response", "request", "notify", "malformed"}, id : Nat]

(* `id` is the response's in hand, `todo` the channels failPending took.   *)
LoopState(pc, id, todo) == [pc |-> pc, id |-> id, todo |-> todo]
AtRead == LoopState("read", 0, {})

TypeOK ==
  /\ call \in [Callers -> [pc : CallPCs, id : Nat, result : Results]]
  /\ \A c \in Callers : call[c].pc # "idle" => call[c].id \in Ids
  /\ nextID \in Nat \ {0} /\ pending \subseteq Ids /\ chan \in [Ids -> Chan]
  /\ panicked \in BOOLEAN
  /\ rl \in [pc : LoopPCs, id : Nat, todo : SUBSET Ids]
  /\ rl.pc \in {"send", "close"} => rl.id \in Ids
  /\ rl.pc = "handler" => rl.id \in 1 .. MaxRuns
  /\ done \in BOOLEAN /\ closer \in {"none", "waiting", "returned"}
  /\ local \in {"open", "closed"} /\ peer \in {"open", "closed"}
  /\ asked \subseteq Nat /\ down \in Seq(Message) /\ pushed \in Nat
  /\ runs \in 0 .. MaxRuns /\ run \in 0 .. runs
  /\ queue \in [1 .. MaxRuns -> 0 .. ChanCap]

Init ==
  /\ call = [c \in Callers |-> [pc |-> "idle", id |-> 0, result |-> "none"]]
  /\ nextID = 1 /\ pending = {} /\ chan = [i \in {} |-> 0] /\ panicked = FALSE
  /\ rl = AtRead /\ done = FALSE /\ closer = "none"
  /\ local = "open" /\ peer = "open" /\ asked = {} /\ down = <<>> /\ pushed = 0
  /\ runs = 0 /\ run = 0 /\ queue = [r \in 1 .. MaxRuns |-> 0]

Writable == local = "open" /\ peer = "open"

-----------------------------------------------------------------------------
(* Call.                                                                   *)

CallAt(c, pc) == call[c].pc = pc
CallGoes(c, pc) ==
  call' = [call EXCEPT ![c] = [pc |-> pc, id |-> call[c].id, result |-> call[c].result]]
CallEnds(c, result) ==
  call' = [call EXCEPT ![c] = [pc |-> "idle", id |-> call[c].id, result |-> result]]

(* Mutant: the counter is read after the increment. *)
CallBeginsOff(c) ==
  /\ CallAt(c, "idle") /\ nextID <= MaxCalls
  /\ call' = [call EXCEPT ![c] = [pc |-> "register", id |-> nextID + 1, result |-> "none"]]
  /\ chan' = [i \in Ids \cup {nextID} |->
                IF i = nextID THEN [full |-> FALSE, closed |-> FALSE] ELSE chan[i]]
  /\ nextID' = nextID + 1
  /\ UNCHANGED <<pending, panicked, loopVars, closer, local, peerVars, checkVars>>

CallBegins(c) ==
  /\ CallAt(c, "idle") /\ nextID <= MaxCalls
  /\ call' = [call EXCEPT ![c] = [pc |-> "register", id |-> nextID, result |-> "none"]]
  /\ chan' = [i \in Ids \cup {nextID} |->
                IF i = nextID THEN [full |-> FALSE, closed |-> FALSE] ELSE chan[i]]
  /\ nextID' = nextID + 1
  /\ UNCHANGED <<pending, panicked, loopVars, closer, local, peerVars, checkVars>>

(* registerPending: done is looked at, and the entry added, under the lock *)
(* of the table; failPending may have emptied it and not closed done yet.  *)
CallRegisters(c) ==
  /\ CallAt(c, "register")
  /\ IF done THEN CallEnds(c, "failed") /\ UNCHANGED pending
             ELSE CallGoes(c, "write") /\ pending' = pending \cup {call[c].id}
  /\ UNCHANGED <<nextID, chan, panicked, loopVars, closer, local, peerVars, checkVars>>

CallWrites(c) ==
  /\ CallAt(c, "write")
  /\ IF Writable
     THEN /\ asked' = asked \cup {call[c].id}
          /\ CallGoes(c, "wait")
     ELSE /\ call' = [call EXCEPT ![c] = [pc |-> "remove", id |-> call[c].id, result |-> "failed"]]
          /\ UNCHANGED asked
  /\ UNCHANGED <<nextID, chanVars, loopVars, closer, local, peer, down, pushed, checkVars>>

(* The select: any branch that is ready.  A value in the channel is        *)
(* received before its close is seen.                                      *)
CallReceives(c) ==
  /\ CallAt(c, "wait")
  /\ \/ /\ chan[call[c].id].full
        /\ chan' = [chan EXCEPT ![call[c].id] = [full |-> FALSE, closed |-> chan[call[c].id].closed]]
        /\ CallEnds(c, "answered")
     \/ /\ ~chan[call[c].id].full /\ chan[call[c].id].closed
        /\ CallEnds(c, "failed")
        /\ UNCHANGED chan
  /\ UNCHANGED <<nextID, pending, panicked, loopVars, closer, local, peerVars, checkVars>>

(* Mutant: a call that times out leaves its entry behind. *)
CallTimesOutKeeps(c) ==
  /\ CallAt(c, "wait")
  /\ CallEnds(c, "timeout")
  /\ UNCHANGED <<nextID, chanVars, loopVars, closer, local, peerVars, checkVars>>

CallTimesOut(c) ==
  /\ CallAt(c, "wait")
  /\ call' = [call EXCEPT ![c] = [pc |-> "remove", id |-> call[c].id, result |-> "timeout"]]
  /\ UNCHANGED <<nextID, chanVars, loopVars, closer, local, peerVars, checkVars>>

(* Mutant: Call does not select on done. *)
CallSeesNothing(c) == FALSE /\ UNCHANGED vars

CallSeesDone(c) ==
  /\ CallAt(c, "wait") /\ done
  /\ call' = [call EXCEPT ![c] = [pc |-> "remove", id |-> call[c].id, result |-> "failed"]]
  /\ UNCHANGED <<nextID, chanVars, loopVars, closer, local, peerVars, checkVars>>

(* removePending: the entry may be gone already. *)
CallRemoves(c) ==
  /\ CallAt(c, "remove")
  /\ pending' = pending \ {call[c].id}
  /\ CallEnds(c, call[c].result)
  /\ UNCHANGED <<nextID, chan, panicked, loopVars, closer, local, peerVars, checkVars>>

Call(c) ==
  \/ CallRegisters(c) \/ CallWrites(c) \/ CallReceives(c) \/ CallSeesDone(c) \/ CallRemoves(c)

-----------------------------------------------------------------------------
(* readLoop.                                                               *)

CloseChan(i) ==
  /\ chan' = [chan EXCEPT ![i] = [full |-> chan[i].full, closed |-> TRUE]]
  /\ panicked' = (panicked \/ chan[i].closed)

(* Mutant: routeResponse leaves the entry in the table. *)
RouteKeepsEntry(i) ==
  /\ rl' = IF i \in pending THEN LoopState("send", i, {}) ELSE AtRead
  /\ UNCHANGED pending

(* routeResponse: nobody waits for a late answer, it is dropped. *)
RouteResponse(i) ==
  /\ rl' = IF i \in pending THEN LoopState("send", i, {}) ELSE AtRead
  /\ pending' = pending \ {i}

(* A message is read.  Data that was buffered is still read after this end *)
(* closed the transport; what cannot be decoded ends the loop.             *)
LoopReads ==
  /\ rl.pc = "read" /\ down # <<>>
  /\ down' = Tail(down)
  /\ LET m == Head(down) IN
     \/ m.kind = "response" /\ RouteResponse(m.id)
     \/ m.kind = "request" /\ rl' = LoopState("reply", 0, {}) /\ UNCHANGED pending
     \/ /\ m.kind = "notify"
        /\ rl' = IF run = 0 THEN AtRead ELSE LoopState("handler", run, {})
        /\ UNCHANGED pending
     \/ m.kind = "malformed" /\ rl' = LoopState("fail", 0, {}) /\ UNCHANGED pending
  /\ UNCHANGED <<callVars, chan, panicked, done, closer, local, peer, asked, pushed, checkVars>>

LoopSends ==
  /\ rl.pc = "send"
  /\ chan' = [chan EXCEPT ![rl.id] = [full |-> TRUE, closed |-> chan[rl.id].closed]]
  /\ panicked' = (panicked \/ chan[rl.id].closed)
  /\ rl' = LoopState("close", rl.id, {})
  /\ UNCHANGED <<callVars, pending, done, closer, local, peerVars, checkVars>>

LoopCloses ==
  /\ rl.pc = "close"
  /\ CloseChan(rl.id)
  /\ rl' = AtRead
  /\ UNCHANGED <<callVars, pending, done, closer, local, peerVars, checkVars>>

(* Mutant: readLoop ends on a failed reply without failPending. *)
LoopRepliesOrStops ==
  /\ rl.pc = "reply"
  /\ rl' = IF Writable THEN AtRead ELSE LoopState("gone", 0, {})
  /\ UNCHANGED <<callVars, chanVars, done, closer, local, peerVars, checkVars>>

(* replyMethodNotFound. *)
LoopReplies ==
  /\ rl.pc = "reply"
  /\ rl' = IF Writable THEN AtRead ELSE LoopState("fail", 0, {})
  /\ UNCHANGED <<callVars, chanVars, done, closer, local, peerVars, checkVars>>

(* dispatchNotification runs the handler of a check run, which sends to    *)
(* that run's channel and waits for room, also when the run is over.       *)
LoopHandles ==
  /\ rl.pc = "handler" /\ queue[rl.id] < ChanCap
  /\ queue' = [queue EXCEPT ![rl.id] = @ + 1]
  /\ rl' = AtRead
  /\ UNCHANGED <<callVars, chanVars, done, closer, local, peerVars, runs, run>>

LoopReadFails ==
  /\ rl.pc = "read" /\ (local = "closed" \/ (peer = "closed" /\ down = <<>>))
  /\ rl' = LoopState("fail", 0, {})
  /\ UNCHANGED <<callVars, chanVars, done, closer, local, peerVars, checkVars>>

(* failPending: the table is emptied, then each channel is closed.         *)
LoopFails ==
  /\ rl.pc = "fail"
  /\ rl' = LoopState("failing", 0, pending)
  /\ pending' = {}
  /\ UNCHANGED <<callVars, chan, panicked, done, closer, local, peerVars, checkVars>>

LoopFailsOne ==
  /\ rl.pc = "failing"
  /\ \E i \in rl.todo :
       /\ CloseChan(i)
       /\ rl' = LoopState("failing", 0, rl.todo \ {i})
  /\ UNCHANGED <<callVars, pending, done, closer, local, peerVars, checkVars>>

(* defer close(c.done) *)
LoopEnds ==
  /\ rl.pc = "failing" /\ rl.todo = {}
  /\ rl' = LoopState("gone", 0, {})
  /\ done' = TRUE
  /\ UNCHANGED <<callVars, chanVars, closer, local, peerVars, checkVars>>

ReadLoop ==
  \/ LoopReads \/ LoopSends \/ LoopCloses \/ LoopReplies \/ LoopHandles
  \/ LoopReadFails \/ LoopFails \/ LoopFailsOne \/ LoopEnds

-----------------------------------------------------------------------------
(* Close, the check engine, and the far end.                               *)

(* The connection is released once the check runs over it have returned.   *)
CloseBegins ==
  /\ closer = "none" /\ run = 0
  /\ closer' = "waiting" /\ local' = "closed"
  /\ UNCHANGED <<callVars, chanVars, loopVars, peerVars, checkVars>>

(* Mutant: Close does not wait for the reader. *)
CloseReturnsAtOnce ==
  /\ closer = "waiting"
  /\ closer' = "returned"
  /\ UNCHANGED <<callVars, chanVars, loopVars, local, peerVars, checkVars>>

CloseReturns ==
  /\ closer = "waiting" /\ done
  /\ closer' = "returned"
  /\ UNCHANGED <<callVars, chanVars, loopVars, local, peerVars, checkVars>>

(* CheckEngine.Run subscribes with a channel of its own, receives while it *)
(* waits for diagnostics, and unsubscribes when it returns.                *)
RunBegins ==
  /\ run = 0 /\ runs < MaxRuns /\ ~done /\ closer = "none"
  /\ runs' = runs + 1 /\ run' = runs + 1
  /\ UNCHANGED <<callVars, chanVars, loopVars, closer, local, peerVars, queue>>

RunReceives ==
  /\ run # 0 /\ queue[run] > 0
  /\ queue' = [queue EXCEPT ![run] = @ - 1]
  /\ UNCHANGED <<callVars, chanVars, loopVars, closer, local, peerVars, runs, run>>

RunEnds ==
  /\ run # 0
  /\ run' = 0
  /\ UNCHANGED <<callVars, chanVars, loopVars, closer, local, peerVars, runs, queue>>

(* Other ways to fill `down`: an answer, or a message of the peer's own.   *)
PeerAnswers ==
  /\ Writable
  /\ \E i \in asked :
       /\ asked' = asked \ {i}
       /\ down' = Append(down, [kind |-> "response", id |-> i])
  /\ UNCHANGED <<callVars, chanVars, loopVars, closer, local, peer, pushed, checkVars>>

PeerPushes ==
  /\ Writable /\ pushed < MaxPushed
  /\ pushed' = pushed + 1
  /\ \E kind \in {"request", "notify", "malformed"} : down' = Append(down, [kind |-> kind, id |-> 0])
  /\ UNCHANGED <<callVars, chanVars, loopVars, closer, local, peer, asked, checkVars>>

PeerCloses ==
  /\ peer = "open"
  /\ peer' = "closed"
  /\ UNCHANGED <<callVars, chanVars, loopVars, closer, local, asked, down, pushed, checkVars>>

-----------------------------------------------------------------------------
Next ==
  \/ \E c \in Callers : CallBegins(c) \/ Call(c) \/ CallTimesOut(c)
  \/ ReadLoop \/ CloseBegins \/ CloseReturns
  \/ RunBegins \/ RunReceives \/ RunEnds
  \/ PeerAnswers \/ PeerPushes \/ PeerCloses

Spec == Init /\ [][Next]_vars

(***************************************************************************)
(* Goroutines are scheduled and a check run's timers end it.  The peer     *)
(* promises nothing, and no call is made to end by its own deadline: it is *)
(* the end of the connection that must end it.                             *)
(***************************************************************************)
Fairness ==
  /\ \A c \in Callers : WF_vars(Call(c))
  /\ WF_vars(ReadLoop) /\ WF_vars(CloseReturns) /\ WF_vars(RunEnds)
FairSpec == Spec /\ Fairness

-----------------------------------------------------------------------------
(* Properties.                                                             *)

(* A response channel is never sent to or closed once it is closed, which  *)
(* would panic: routeResponse and failPending both close channels they     *)
(* take from the table, and callers take entries out meanwhile.            *)
NoPanic == ~panicked

(* c.pending does not leak: an entry's call is still on its way and will   *)
(* either be answered, failed, or take the entry out itself.               *)
PendingIsRunning ==
  \A i \in pending : \E c \in Callers :
    call[c].id = i /\ call[c].pc \in {"write", "wait", "remove"}

(* Close "waits for the reader loop to stop": once it has returned no      *)
(* handler runs and no response is delivered.                              *)
ClosedMeansStopped == closer = "returned" => rl.pc = "gone"

(* The end of readLoop ends every call, also one that registers after      *)
(* failPending has emptied the table.                                      *)
EndEndsCalls ==
  \A c \in Callers : (rl.pc = "gone") ~> call[c].pc = "idle"

(* Close returns unless readLoop is held up in a notification handler.     *)
CloseReturnsUnlessHandling == (closer = "waiting") ~> (closer = "returned" \/ rl.pc = "handler")

(* "Close closes the underlying transport and waits for the reader loop to *)
(* stop": it does stop.                                                    *)
CloseEnds == (closer = "waiting") ~> (closer = "returned")
=============================================================================
