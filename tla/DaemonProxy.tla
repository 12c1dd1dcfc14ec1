----------------------------- MODULE DaemonProxy -----------------------------
(***************************************************************************)
(* The daemon that multiplexes many `cs` connections over one language     *)
(* server: `daemonRuntime` of pkg/lsp/daemon_unix.go.  One goroutine per   *)
(* connection (handleClient) forwards requests under a daemon-wide id, one *)
(* goroutine (serverReadLoop) routes what the server writes back, and the  *)
(* accept loop admits connections and stops the daemon.  The connections'  *)
(* far ends and the language server are external: they follow the protocol *)
(* of pkg/lsp/client.go and of LSP.                                        *)
(***************************************************************************)
EXTENDS Naturals, Sequences, FiniteSets

CONSTANTS
  Sessions,       (* connections that speak LSP (daemon_client.go)           *)
  Stoppers,       (* connections of shutdownDaemonViaSocket                  *)
  NoClient,       (* not a connection                                        *)
  MaxCalls,       (* bound: requests of a session after its handshake        *)
  MaxServerMsgs,  (* bound: notifications and requests the server starts     *)
  SockCap,        (* unread messages the daemon can write to a connection    *)
  Overlap,        (* may one handshake begin before another has completed?   *)
  MayCrash        (* may the language server die by itself?                  *)

ASSUME ProxyAssumption ==
  /\ Sessions \cap Stoppers = {}
  /\ NoClient \notin Sessions \cup Stoppers
  /\ MaxCalls \in Nat /\ MaxServerMsgs \in Nat
  /\ SockCap \in Nat \ {0}
  /\ Overlap \in BOOLEAN /\ MayCrash \in BOOLEAN

Clients == Sessions \cup Stoppers

VARIABLES
  (* the connections' far ends *)
  cl,           (* what each connection's owner is doing                     *)
  nextID,       (* the last request id its owner has used (client.go)        *)
  up,           (* bytes sent and not yet read by the daemon                 *)
  inbox,        (* every message the daemon has written to the connection    *)
  seen,         (* how many of those its owner has read                      *)
  (* the daemon *)
  clients,      (* d.clients                                                 *)
  closed,       (* connections the daemon has closed                         *)
  h,            (* each handleClient goroutine: where it is, its message     *)
  pending,      (* d.pending: daemon id -> originating connection and id     *)
  nextReqID,    (* d.nextReqID                                               *)
  initPhase,    (* d.initPhase                                               *)
  initResponse, (* d.initResponse                                            *)
  initReqID,    (* d.initReqID, 0 when nothing was stored                    *)
  rl,           (* the serverReadLoop goroutine                              *)
  al,           (* the acceptLoop goroutine, then cleanup and process exit   *)
  idle,         (* no activity for the idle timeout                          *)
  shutdownSeen, (* a value waits in d.shutdownResponseCh                     *)
  (* the language server and its pipes *)
  ls,           (* "up", "exited", or "reaped" (serverExitCh has the result) *)
  stdin, stdout,
  working,      (* requests it has read and not answered                     *)
  inits,        (* `initialize` requests it has received                     *)
  initeds,      (* `initialized` notifications it has received               *)
  srvMsgs       (* messages it has started itself                            *)

clientVars == <<cl, nextID, up, seen>>
initVars   == <<initPhase, initResponse, initReqID>>
serverVars == <<ls, stdin, stdout, working, inits, initeds, srvMsgs>>
vars == <<cl, nextID, up, inbox, seen, clients, closed, h, pending, nextReqID,
          initPhase, initResponse, initReqID, rl, al, idle, shutdownSeen,
          ls, stdin, stdout, working, inits, initeds, srvMsgs>>

-----------------------------------------------------------------------------
(* Messages.  `id` is the JSON-RPC id on the wire, 0 for none.  A body is  *)
(* the request it is, or answers: `call` is the number its sender `from`   *)
(* gave it, and no step of the daemon changes these two.                   *)

InitID == 1   \* a session's first request is its initialize
DaemonShutdownID == 0   \* daemonInternalShutdownReqID, which remapRequest never gives out

Kinds == {"initialize", "initialized", "request", "shutdown", "exit", "answer",
          "response", "srvreq", "notify"}
Msg == [kind : Kinds, id : Nat, from : Clients \cup {NoClient}, call : Nat, ok : BOOLEAN]

Message(kind, id, c, ok) == [kind |-> kind, id |-> id, from |-> c, call |-> id, ok |-> ok]
Notification(kind, c) == Message(kind, 0, c, TRUE)
ResponseTo(m, ok) == [kind |-> "response", id |-> m.id, from |-> m.from, call |-> m.call, ok |-> ok]
AnswerTo(m) == [kind |-> "answer", id |-> m.id, from |-> m.from, call |-> m.call, ok |-> m.ok]
(* rewriteJSONID: only the id changes. *)
WithID(m, id) == [kind |-> m.kind, id |-> id, from |-> m.from, call |-> m.call, ok |-> m.ok]

NoMsg == Notification("notify", NoClient)

IsRequest(m)   == m.kind \in {"initialize", "request", "shutdown"}
IsResponse(m)  == m.kind = "response"

(* The goroutines' program counters. *)
At(pc) == [pc |-> pc, msg |-> NoMsg]
AtRead == At("read")
HandlerPCs == {"none", "read", "remap", "track", "forward", "mark", "reply",
               "remove", "purge", "gone"}
LoopPCs == {"read", "cache", "store", "route", "deliver"}
LoopWith(pc, m) == [pc |-> pc, msg |-> m, to |-> {}]
LoopAtRead == LoopWith("read", NoMsg)
AcceptPCs == {"loop", "shutdown", "waitexit", "cleanup", "exit", "gone"}
ClientStates == {"new", "open", "initializing", "ready", "stopping", "closed"}

Running == al # "gone"          \* the daemon process exists
Listening == al \notin {"exit", "gone"}
Waiting == {c \in Clients : cl[c] # "new" /\ h[c].pc = "none"}  \* the listen backlog

TypeOK ==
  /\ cl \in [Clients -> ClientStates] /\ nextID \in [Clients -> Nat]
  /\ up \in [Clients -> Seq(Msg)] /\ inbox \in [Clients -> Seq(Msg)]
  /\ seen \in [Clients -> Nat]
  /\ clients \subseteq Clients /\ closed \subseteq Clients
  /\ h \in [Clients -> [pc : HandlerPCs, msg : Msg]]
  /\ DOMAIN pending \subseteq 1 .. nextReqID
  /\ pending \in [DOMAIN pending -> [client : Clients, id : Nat]]
  /\ nextReqID \in Nat
  /\ initPhase \in 0 .. 2 /\ initResponse \in Msg /\ initReqID \in Nat
  /\ rl \in [pc : LoopPCs, msg : Msg, to : SUBSET Clients]
  /\ al \in AcceptPCs /\ idle \in BOOLEAN /\ shutdownSeen \in BOOLEAN
  /\ ls \in {"up", "exited", "reaped"}
  /\ stdin \in Seq(Msg) /\ stdout \in Seq(Msg) /\ working \subseteq Msg
  /\ inits \in Nat /\ initeds \in Nat /\ srvMsgs \in Nat

Init ==
  /\ cl = [c \in Clients |-> "new"] /\ nextID = [c \in Clients |-> 0]
  /\ up = [c \in Clients |-> <<>>] /\ inbox = [c \in Clients |-> <<>>]
  /\ seen = [c \in Clients |-> 0]
  /\ clients = {} /\ closed = {}
  /\ h = [c \in Clients |-> At("none")]
  /\ pending = [d \in {} |-> 0] /\ nextReqID = 0
  /\ initPhase = 0 /\ initResponse = NoMsg /\ initReqID = 0
  /\ rl = LoopAtRead /\ al = "loop" /\ idle = FALSE /\ shutdownSeen = FALSE
  /\ ls = "up" /\ stdin = <<>> /\ stdout = <<>> /\ working = {}
  /\ inits = 0 /\ initeds = 0 /\ srvMsgs = 0

-----------------------------------------------------------------------------
(* Writing to a connection: writeToClient closes it when the write fails,  *)
(* and blocks while the owner leaves SockCap messages unread.              *)

Alive(c) == c \notin closed /\ cl[c] # "closed"
WriteToClient(c, m) ==
  \/ /\ Alive(c) /\ Len(inbox[c]) - seen[c] < SockCap
     /\ inbox' = [inbox EXCEPT ![c] = Append(@, m)]
     /\ UNCHANGED closed
  \/ /\ ~Alive(c)
     /\ closed' = closed \cup {c}
     /\ UNCHANGED inbox

HandlerAt(c, pc) == Running /\ h[c].pc = pc
HandlerGoes(c, pc) ==
  h' = [h EXCEPT ![c] = [pc |-> pc, msg |-> IF pc \in {"read", "remove"} THEN NoMsg ELSE h[c].msg]]

-----------------------------------------------------------------------------
(* handleClient: one goroutine per connection.                             *)

(* Mutant: a second initialized is not swallowed. *)
DispatchEveryInitialized(m, phase) ==
  IF m.kind = "initialize" /\ phase >= 1 THEN "reply"
  ELSE IF IsRequest(m) THEN "remap"
  ELSE "forward"

(* Mutant: the cache is not consulted. *)
DispatchNoCache(m, phase) ==
  IF IsRequest(m) THEN "remap"
  ELSE IF m.kind = "initialized" /\ phase >= 2 THEN "read"
  ELSE "forward"

(* Where the handler goes with a message, given the phase it loaded.       *)
Dispatch(m, phase) ==
  IF m.kind = "initialize" /\ phase >= 1 THEN "reply"
  ELSE IF IsRequest(m) THEN "remap"
  ELSE IF m.kind = "initialized" /\ phase >= 2 THEN "read"
  ELSE "forward"

(* Read a message and load initPhase; everything after acts on that value. *)
HandlerRead(c) ==
  /\ HandlerAt(c, "read") /\ up[c] # <<>>
  /\ up' = [up EXCEPT ![c] = Tail(@)]
  /\ LET m == Head(up[c])
         pc == Dispatch(m, initPhase)
     IN h' = [h EXCEPT ![c] = IF pc = "read" THEN AtRead ELSE [pc |-> pc, msg |-> m]]
  /\ idle' = FALSE
  /\ UNCHANGED <<cl, nextID, inbox, seen, clients, closed, pending, nextReqID, rl, al,
                 shutdownSeen, initVars, serverVars>>

(* Mutant: the connection's own id is used on the wire. *)
HandlerKeepsID(c) ==
  /\ HandlerAt(c, "remap")
  /\ nextReqID' = nextReqID + 1
  /\ LET k == h[c].msg.id IN
     pending' = [d \in DOMAIN pending \cup {k} |->
                   IF d = k THEN [client |-> c, id |-> k] ELSE pending[d]]
  /\ HandlerGoes(c, IF h[c].msg.kind = "initialize" THEN "track" ELSE "forward")
  /\ UNCHANGED <<inbox, clients, closed, rl, al, idle, shutdownSeen,
                 clientVars, initVars, serverVars>>

HandlerRemap(c) ==
  /\ HandlerAt(c, "remap")
  /\ nextReqID' = nextReqID + 1
  /\ pending' = [d \in DOMAIN pending \cup {nextReqID'} |->
                   IF d = nextReqID' THEN [client |-> c, id |-> h[c].msg.id]
                                     ELSE pending[d]]
  /\ h' = [h EXCEPT ![c] = [pc |-> IF h[c].msg.kind = "initialize" THEN "track" ELSE "forward",
                            msg |-> WithID(h[c].msg, nextReqID')]]
  /\ UNCHANGED <<inbox, clients, closed, rl, al, idle, shutdownSeen,
                 clientVars, initVars, serverVars>>

(* Mutant: the id is stored with a type cacheInitializeResponse does not   *)
(* assert (the mistake the comment at the Store warns of).                 *)
HandlerTracksNothing(c) ==
  /\ HandlerAt(c, "track")
  /\ HandlerGoes(c, "forward")
  /\ UNCHANGED <<initVars, inbox, clients, closed, pending, nextReqID, rl,
                 al, idle, shutdownSeen, clientVars, serverVars>>

(* d.initReqID.Store: a second initialize overwrites the first one's id.   *)
HandlerTrack(c) ==
  /\ HandlerAt(c, "track")
  /\ initReqID' = h[c].msg.id
  /\ HandlerGoes(c, "forward")
  /\ UNCHANGED <<initPhase, initResponse, inbox, clients, closed, pending, nextReqID, rl,
                 al, idle, shutdownSeen, clientVars, serverVars>>

(* writeToServer; on an error the server is killed (it is dead already)    *)
(* and the handler returns.                                                *)
HandlerForward(c) ==
  /\ HandlerAt(c, "forward")
  /\ IF ls = "up"
     THEN /\ stdin' = Append(stdin, h[c].msg)
          /\ HandlerGoes(c, IF h[c].msg.kind = "initialized" THEN "mark" ELSE "read")
     ELSE /\ HandlerGoes(c, "remove")
          /\ UNCHANGED stdin
  /\ UNCHANGED <<ls, stdout, working, inits, initeds, srvMsgs, inbox, clients, closed,
                 pending, nextReqID, rl, al, idle, shutdownSeen, clientVars, initVars>>

(* Mutant: the phase is incremented. *)
HandlerMarksNext(c) ==
  /\ HandlerAt(c, "mark")
  /\ initPhase' = initPhase + 1
  /\ HandlerGoes(c, "read")
  /\ UNCHANGED <<initResponse, initReqID, inbox, clients, closed, pending, nextReqID, rl,
                 al, idle, shutdownSeen, clientVars, serverVars>>

HandlerMark(c) ==
  /\ HandlerAt(c, "mark")
  /\ initPhase' = 2
  /\ HandlerGoes(c, "read")
  /\ UNCHANGED <<initResponse, initReqID, inbox, clients, closed, pending, nextReqID, rl,
                 al, idle, shutdownSeen, clientVars, serverVars>>

(* Mutant: no `continue` after the reply, so the initialize is forwarded.  *)
HandlerReplyFallsThrough(c) ==
  /\ HandlerAt(c, "reply") /\ initResponse # NoMsg
  /\ HandlerGoes(c, "remap")
  /\ WriteToClient(c, WithID(initResponse, h[c].msg.id))
  /\ UNCHANGED <<clients, pending, nextReqID, rl, al, idle, shutdownSeen,
                 clientVars, initVars, serverVars>>

(* replyInitializeFromCache: with nothing cached, or when the write fails, *)
(* the handler returns and the connection is dropped.                      *)
HandlerReply(c) ==
  /\ HandlerAt(c, "reply")
  /\ \/ /\ initResponse = NoMsg
        /\ HandlerGoes(c, "remove")
        /\ UNCHANGED <<inbox, closed>>
     \/ /\ initResponse # NoMsg
        /\ HandlerGoes(c, IF Alive(c) THEN "read" ELSE "remove")
        /\ WriteToClient(c, WithID(initResponse, h[c].msg.id))
  /\ UNCHANGED <<clients, pending, nextReqID, rl, al, idle, shutdownSeen,
                 clientVars, initVars, serverVars>>

(* readLSPMessage fails: the daemon closed the connection, or its owner    *)
(* did and everything it sent has been read.                               *)
HandlerEOF(c) ==
  /\ HandlerAt(c, "read")
  /\ c \in closed \/ (cl[c] = "closed" /\ up[c] = <<>>)
  /\ HandlerGoes(c, "remove")
  /\ UNCHANGED <<inbox, clients, closed, pending, nextReqID, rl, al, idle, shutdownSeen,
                 clientVars, initVars, serverVars>>

(* Mutant: the connection stays in d.clients. *)
HandlerRemoveForgets(c) ==
  /\ HandlerAt(c, "remove")
  /\ HandlerGoes(c, "purge")
  /\ UNCHANGED <<inbox, clients, closed, pending, nextReqID, rl, al, idle, shutdownSeen,
                 clientVars, initVars, serverVars>>

(* removeClient, deferred by handleClient: the two critical sections.      *)
HandlerRemove(c) ==
  /\ HandlerAt(c, "remove")
  /\ clients' = clients \ {c}
  /\ HandlerGoes(c, "purge")
  /\ UNCHANGED <<inbox, closed, pending, nextReqID, rl, al, idle, shutdownSeen,
                 clientVars, initVars, serverVars>>

PurgedNone(c) == {}   \* Mutant: the pending requests of a connection stay
Purged(c) == {d \in DOMAIN pending : pending[d].client = c}
HandlerPurge(c) ==
  /\ HandlerAt(c, "purge")
  /\ closed' = closed \cup {c}
  /\ pending' = [d \in DOMAIN pending \ Purged(c) |-> pending[d]]
  /\ HandlerGoes(c, "gone")
  /\ UNCHANGED <<inbox, clients, nextReqID, rl, al, idle, shutdownSeen,
                 clientVars, initVars, serverVars>>

Handler(c) ==
  \/ HandlerRead(c) \/ HandlerRemap(c) \/ HandlerTrack(c) \/ HandlerForward(c)
  \/ HandlerMark(c) \/ HandlerReply(c) \/ HandlerEOF(c) \/ HandlerRemove(c)
  \/ HandlerPurge(c)

-----------------------------------------------------------------------------
(* serverReadLoop: read, observe and cache, then route.                    *)

LoopAt(pc) == Running /\ rl.pc = pc
LoopDelivers(m, targets) ==
  rl' = IF targets = {} THEN LoopAtRead
                        ELSE [pc |-> "deliver", msg |-> m, to |-> targets]

LoopRead ==
  /\ LoopAt("read") /\ stdout # <<>>
  /\ stdout' = Tail(stdout)
  /\ rl' = LoopWith("cache", Head(stdout))
  /\ idle' = FALSE
  /\ shutdownSeen' = (shutdownSeen \/ (IsResponse(Head(stdout)) /\ Head(stdout).id = DaemonShutdownID))
  /\ UNCHANGED <<ls, stdin, working, inits, initeds, srvMsgs, inbox, clients, closed, h,
                 pending, nextReqID, al, clientVars, initVars>>

(* cacheInitializeResponse: the checks, then (a handler may store phase 2  *)
(* in between) the response and phase 1.  An error response is cached too. *)
CacheableAny(m) == IsResponse(m)   \* Mutant: neither phase nor id is compared
Cacheable(m) == initPhase = 0 /\ IsResponse(m) /\ initReqID # 0 /\ m.id = initReqID
LoopCheckCache ==
  /\ LoopAt("cache")
  /\ rl' = LoopWith(IF Cacheable(rl.msg) THEN "store" ELSE "route", rl.msg)
  /\ UNCHANGED <<inbox, clients, closed, h, pending, nextReqID, al, idle, shutdownSeen,
                 clientVars, initVars, serverVars>>

(* Mutant: a cached response is not routed any more. *)
LoopStoreOnly ==
  /\ LoopAt("store")
  /\ initResponse' = rl.msg
  /\ initPhase' = 1
  /\ rl' = LoopAtRead
  /\ UNCHANGED <<initReqID, inbox, clients, closed, h, pending, nextReqID, al, idle,
                 shutdownSeen, clientVars, serverVars>>

LoopStoreCache ==
  /\ LoopAt("store")
  /\ initResponse' = rl.msg
  /\ initPhase' = 1
  /\ rl' = LoopWith("route", rl.msg)
  /\ UNCHANGED <<initReqID, inbox, clients, closed, h, pending, nextReqID, al, idle,
                 shutdownSeen, clientVars, serverVars>>

(* Mutant: the id is not rewritten back. *)
RouteResponseRaw ==
  /\ LoopAt("route") /\ IsResponse(rl.msg)
  /\ IF rl.msg.id \in DOMAIN pending
     THEN /\ pending' = [d \in DOMAIN pending \ {rl.msg.id} |-> pending[d]]
          /\ LoopDelivers(rl.msg, {pending[rl.msg.id].client})
     ELSE /\ rl' = LoopAtRead
          /\ UNCHANGED pending
  /\ UNCHANGED <<inbox, clients, closed, h, nextReqID, al, idle, shutdownSeen,
                 clientVars, initVars, serverVars>>

(* routeResponse: the entry is taken before the write; none means the      *)
(* asker is gone (or the daemon asked) and the response is dropped.        *)
RouteResponse ==
  /\ LoopAt("route") /\ IsResponse(rl.msg)
  /\ IF rl.msg.id \in DOMAIN pending
     THEN LET p == pending[rl.msg.id] IN
          /\ pending' = [d \in DOMAIN pending \ {rl.msg.id} |-> pending[d]]
          /\ LoopDelivers(WithID(rl.msg, p.id), {p.client})
     ELSE /\ rl' = LoopAtRead
          /\ UNCHANGED pending
  /\ UNCHANGED <<inbox, clients, closed, h, nextReqID, al, idle, shutdownSeen,
                 clientVars, initVars, serverVars>>

(* routeServerRequest: to whichever connection the map yields first.       *)
RouteServerRequest ==
  /\ LoopAt("route") /\ rl.msg.kind = "srvreq"
  /\ \E c \in clients : LoopDelivers(rl.msg, {c})
  /\ UNCHANGED <<inbox, clients, closed, h, pending, nextReqID, al, idle, shutdownSeen,
                 clientVars, initVars, serverVars>>

(* rejectServerRequest: nobody is connected, the daemon answers itself.    *)
RejectServerRequest ==
  /\ LoopAt("route") /\ rl.msg.kind = "srvreq" /\ clients = {}
  /\ stdin' = IF ls = "up" THEN Append(stdin, AnswerTo(rl.msg)) ELSE stdin
  /\ rl' = LoopAtRead
  /\ UNCHANGED <<ls, stdout, working, inits, initeds, srvMsgs, inbox, clients, closed, h,
                 pending, nextReqID, al, idle, shutdownSeen, clientVars, initVars>>

(* broadcastToClients: a snapshot of the connections, written one by one.  *)
BroadcastToClients ==
  /\ LoopAt("route") /\ rl.msg.kind = "notify"
  /\ LoopDelivers(rl.msg, clients)
  /\ UNCHANGED <<inbox, clients, closed, h, pending, nextReqID, al, idle, shutdownSeen,
                 clientVars, initVars, serverVars>>

LoopDeliver ==
  /\ LoopAt("deliver")
  /\ \E c \in rl.to :
       /\ WriteToClient(c, rl.msg)
       /\ LoopDelivers(rl.msg, rl.to \ {c})
  /\ UNCHANGED <<clients, h, pending, nextReqID, al, idle, shutdownSeen,
                 clientVars, initVars, serverVars>>

ServerReadLoop ==
  \/ LoopRead \/ LoopCheckCache \/ LoopStoreCache \/ RouteResponse
  \/ RouteServerRequest \/ RejectServerRequest \/ BroadcastToClients \/ LoopDeliver

-----------------------------------------------------------------------------
(* acceptLoop, shutdownLanguageServer, cleanup and the end of the process. *)

AcceptGoes(from, to) == al = from /\ al' = to

(* Mutant: the idle check ignores the connections. *)
IdleStopAnyway ==
  /\ idle /\ ls = "up"
  /\ stdin' = Append(stdin, Message("shutdown", DaemonShutdownID, NoClient, TRUE))
  /\ AcceptGoes("loop", "shutdown")
  /\ UNCHANGED <<ls, stdout, working, inits, initeds, srvMsgs, inbox, clients, closed, h,
                 pending, nextReqID, rl, idle, shutdownSeen, clientVars, initVars>>

(* A turn of the loop that ends it: idle and empty, or the server is gone. *)
IdleStop ==
  /\ clients = {} /\ idle
  /\ \/ /\ ls = "up"
        /\ stdin' = Append(stdin, Message("shutdown", DaemonShutdownID, NoClient, TRUE))
        /\ AcceptGoes("loop", "shutdown")
     \/ /\ ls # "up"      \* the write fails: wait for the exit
        /\ AcceptGoes("loop", "waitexit")
        /\ UNCHANGED stdin
  /\ UNCHANGED <<ls, stdout, working, inits, initeds, srvMsgs, inbox, clients, closed, h,
                 pending, nextReqID, rl, idle, shutdownSeen, clientVars, initVars>>

(* Mutant: the server's exit is looked at only while nobody is connected. *)
ServerExitedWhenEmpty ==
  /\ AcceptGoes("loop", "cleanup") /\ ls = "reaped" /\ clients = {}
  /\ UNCHANGED <<inbox, clients, closed, h, pending, nextReqID, rl, idle, shutdownSeen,
                 clientVars, initVars, serverVars>>

ServerExited ==
  /\ AcceptGoes("loop", "cleanup") /\ ls = "reaped"
  /\ UNCHANGED <<inbox, clients, closed, h, pending, nextReqID, rl, idle, shutdownSeen,
                 clientVars, initVars, serverVars>>

(* A turn that admits a connection.  Its two checks came before the wait   *)
(* for a connection and may be stale by now; the next turn repeats them,   *)
(* and finds a server gone by now.                                         *)
Accept(c) ==
  /\ AcceptGoes("loop", IF ls = "reaped" THEN "cleanup" ELSE "loop")
  /\ c \in Waiting
  /\ clients' = clients \cup {c}
  /\ h' = [h EXCEPT ![c] = AtRead]
  /\ idle' = FALSE
  /\ UNCHANGED <<inbox, closed, pending, nextReqID, rl, shutdownSeen,
                 clientVars, initVars, serverVars>>

(* sendShutdownAndExit: exit is sent only after the shutdown response.     *)
ShutdownAnswered ==
  /\ AcceptGoes("shutdown", "waitexit") /\ shutdownSeen
  /\ shutdownSeen' = FALSE
  /\ stdin' = IF ls = "up" THEN Append(stdin, Notification("exit", NoClient)) ELSE stdin
  /\ UNCHANGED <<ls, stdout, working, inits, initeds, srvMsgs, inbox, clients, closed, h,
                 pending, nextReqID, rl, idle, clientVars, initVars>>

ShutdownTimeout ==
  /\ AcceptGoes("shutdown", "waitexit")
  /\ UNCHANGED <<inbox, clients, closed, h, pending, nextReqID, rl, idle, shutdownSeen,
                 clientVars, initVars, serverVars>>

ExitObserved ==
  /\ AcceptGoes("waitexit", "cleanup") /\ ls = "reaped"
  /\ UNCHANGED <<inbox, clients, closed, h, pending, nextReqID, rl, idle, shutdownSeen,
                 clientVars, initVars, serverVars>>

Killed == IF ls = "up" THEN "exited" ELSE ls
ExitTimeout ==
  /\ AcceptGoes("waitexit", "cleanup") /\ ls # "reaped"
  /\ ls' = Killed
  /\ UNCHANGED <<stdin, stdout, working, inits, initeds, srvMsgs, inbox, clients, closed,
                 h, pending, nextReqID, rl, idle, shutdownSeen, clientVars, initVars>>

Cleanup ==
  /\ AcceptGoes("cleanup", "exit")
  /\ closed' = closed \cup clients
  /\ clients' = {}
  /\ ls' = Killed
  /\ UNCHANGED <<stdin, stdout, working, inits, initeds, srvMsgs, inbox, h, pending,
                 nextReqID, rl, idle, shutdownSeen, clientVars, initVars>>

(* Every goroutine stops and the kernel closes every connection, those     *)
(* still in the listen backlog too.                                        *)
ProcessExit ==
  /\ AcceptGoes("exit", "gone")
  /\ closed' = Clients
  /\ UNCHANGED <<inbox, clients, h, pending, nextReqID, rl, idle, shutdownSeen,
                 clientVars, initVars, serverVars>>

(* The idle timeout passes with no activity.                               *)
TimePasses ==
  /\ Running /\ ~idle
  /\ idle' = TRUE
  /\ UNCHANGED <<inbox, clients, closed, h, pending, nextReqID, rl, al, shutdownSeen,
                 clientVars, initVars, serverVars>>

AcceptLoop ==
  \/ IdleStop \/ ServerExited \/ (\E c \in Clients : Accept(c)) \/ ShutdownAnswered
  \/ ShutdownTimeout \/ ExitObserved \/ ExitTimeout \/ Cleanup \/ ProcessExit

-----------------------------------------------------------------------------
(* The language server (external): it reads stdin in order, answers the    *)
(* first initialize with a result and every later one with an error, and   *)
(* answers requests in any order.                                          *)

proxyVars == <<cl, nextID, up, inbox, seen, clients, closed, h, pending, nextReqID,
               initVars, rl, al, idle, shutdownSeen>>

LSTakes(kind) ==
  /\ ls = "up" /\ stdin # <<>> /\ Head(stdin).kind = kind
  /\ stdin' = Tail(stdin)

LSInitialize ==
  /\ LSTakes("initialize")
  /\ inits' = inits + 1
  /\ stdout' = Append(stdout, ResponseTo(Head(stdin), inits = 0))
  /\ UNCHANGED <<ls, working, initeds, srvMsgs, proxyVars>>

LSInitialized ==
  /\ LSTakes("initialized")
  /\ initeds' = initeds + 1
  /\ UNCHANGED <<ls, stdout, working, inits, srvMsgs, proxyVars>>

LSTakeRequest ==
  /\ LSTakes("request")
  /\ working' = working \cup {Head(stdin)}
  /\ UNCHANGED <<ls, stdout, inits, initeds, srvMsgs, proxyVars>>

LSAnswer ==
  /\ ls = "up"
  /\ \E m \in working :
       /\ working' = working \ {m}
       /\ stdout' = Append(stdout, ResponseTo(m, inits > 0))
  /\ UNCHANGED <<ls, stdin, inits, initeds, srvMsgs, proxyVars>>

LSShutdown ==
  /\ LSTakes("shutdown")
  /\ stdout' = Append(stdout, ResponseTo(Head(stdin), TRUE))
  /\ UNCHANGED <<ls, working, inits, initeds, srvMsgs, proxyVars>>

LSIgnore ==
  /\ LSTakes("answer")
  /\ UNCHANGED <<ls, stdout, working, inits, initeds, srvMsgs, proxyVars>>

LSExit ==
  /\ LSTakes("exit")
  /\ ls' = "exited"
  /\ UNCHANGED <<stdout, working, inits, initeds, srvMsgs, proxyVars>>

LSSends(kind) ==
  /\ ls = "up" /\ inits > 0 /\ srvMsgs < MaxServerMsgs
  /\ srvMsgs' = srvMsgs + 1
  /\ stdout' = Append(stdout, Message(kind, srvMsgs', NoClient, TRUE))
  /\ UNCHANGED <<ls, stdin, working, inits, initeds, proxyVars>>

LSNotify  == LSSends("notify")
LSRequest == LSSends("srvreq")

LSCrash ==
  /\ MayCrash /\ ls = "up"
  /\ ls' = "exited"
  /\ UNCHANGED <<stdin, stdout, working, inits, initeds, srvMsgs, proxyVars>>

(* serverCmd.Wait: it reports the exit and closes the stdout pipe, so what *)
(* serverReadLoop has not read by now is lost.                             *)
Reap ==
  /\ Running /\ ls = "exited"
  /\ ls' = "reaped"
  /\ stdin' = <<>> /\ stdout' = <<>> /\ working' = {}
  /\ UNCHANGED <<inits, initeds, srvMsgs, proxyVars>>

LanguageServer ==
  \/ LSInitialize \/ LSInitialized \/ LSTakeRequest \/ LSAnswer \/ LSShutdown
  \/ LSIgnore \/ LSExit

-----------------------------------------------------------------------------
(* The owners of the connections (client.go, daemon_client.go).            *)

daemonVars == <<clients, closed, h, pending, nextReqID, rl, al, idle, shutdownSeen>>
Sends(c, m) == up' = [up EXCEPT ![c] = Append(@, m)]

Dial(c) ==
  /\ cl[c] = "new" /\ Listening
  /\ cl' = [cl EXCEPT ![c] = "open"]
  /\ UNCHANGED <<nextID, up, inbox, seen, daemonVars, initVars, serverVars>>

(* Client.Call: the next id, and the request is written.                   *)
Asks(c, kind) ==
  /\ nextID' = [nextID EXCEPT ![c] = @ + 1]
  /\ Sends(c, Message(kind, nextID[c] + 1, c, TRUE))
  /\ UNCHANGED <<inbox, seen, daemonVars, initVars, serverVars>>

(* ~Overlap: none begins before another's handshake has completed; one     *)
(* that is abandoned keeps them all waiting.                               *)
MayBegin(c) == Overlap \/ initPhase = 2 \/ \A d \in Clients \ {c} : cl[d] \in {"new", "open"}

ClientInitialize(c) ==
  /\ c \in Sessions /\ cl[c] = "open" /\ c \notin closed /\ MayBegin(c)
  /\ cl' = [cl EXCEPT ![c] = "initializing"]
  /\ Asks(c, "initialize")

ClientCall(c) ==
  /\ cl[c] = "ready" /\ c \notin closed /\ nextID[c] < 1 + MaxCalls
  /\ Asks(c, "request")
  /\ UNCHANGED cl

ClientShutdown(c) ==
  /\ c \in Stoppers /\ cl[c] = "open" /\ c \notin closed /\ MayBegin(c)
  /\ cl' = [cl EXCEPT ![c] = "stopping"]
  /\ Asks(c, "shutdown")

(* The owner reads one message: the handshake goes on, a stopper says      *)
(* exit, a session answers a request of the server (readLoop, with "method *)
(* not found"; a stopper skips it), anything else is consumed.             *)
ClientRead(c) ==
  /\ cl[c] \in {"initializing", "ready", "stopping"} /\ seen[c] < Len(inbox[c])
  /\ seen' = [seen EXCEPT ![c] = @ + 1]
  /\ LET m == inbox[c][seen[c] + 1] IN
     \/ /\ IsResponse(m) /\ cl[c] = "initializing" /\ m.ok
        /\ cl' = [cl EXCEPT ![c] = "ready"]
        /\ Sends(c, Notification("initialized", c))
     \/ /\ IsResponse(m) /\ cl[c] = "initializing" /\ ~m.ok
        /\ cl' = [cl EXCEPT ![c] = "closed"]
        /\ UNCHANGED up
     \/ /\ IsResponse(m) /\ cl[c] = "stopping"
        /\ cl' = [cl EXCEPT ![c] = "closed"]
        /\ Sends(c, Notification("exit", c))
     \/ /\ m.kind = "srvreq" /\ c \in Sessions
        /\ Sends(c, AnswerTo(m))
        /\ UNCHANGED cl
     \/ /\ \/ m.kind = "notify" \/ (m.kind = "srvreq" /\ c \in Stoppers)
           \/ (IsResponse(m) /\ cl[c] = "ready")
        /\ UNCHANGED <<cl, up>>
  /\ UNCHANGED <<nextID, inbox, daemonVars, initVars, serverVars>>

(* It is done, gives up, or is killed; or finds the connection closed.     *)
ClientClose(c) ==
  /\ cl[c] \notin {"new", "closed"}
  /\ cl' = [cl EXCEPT ![c] = "closed"]
  /\ UNCHANGED <<nextID, up, inbox, seen, daemonVars, initVars, serverVars>>

Client(c) ==
  \/ Dial(c) \/ ClientInitialize(c) \/ ClientCall(c) \/ ClientShutdown(c)
  \/ ClientRead(c) \/ ClientClose(c)

-----------------------------------------------------------------------------
Environment == LSNotify \/ LSRequest \/ LSCrash \/ TimePasses

Next ==
  \/ \E c \in Clients : Handler(c) \/ Client(c)
  \/ ServerReadLoop \/ AcceptLoop \/ LanguageServer \/ Reap \/ Environment

Spec == Init /\ [][Next]_vars

(***************************************************************************)
(* Goroutines are scheduled, so every step of one that stays possible is   *)
(* taken; the server keeps reading and answering; time passes; the owner   *)
(* of a connection reads what it is sent and notices when it is closed,    *)
(* and promises nothing more.                                              *)
(***************************************************************************)
ClientNotices(c) == c \in closed /\ ClientClose(c)
Fairness ==
  /\ \A c \in Clients : /\ WF_vars(Handler(c)) /\ WF_vars(ClientRead(c))
                        /\ WF_vars(ClientNotices(c))
  /\ WF_vars(ServerReadLoop) /\ WF_vars(AcceptLoop) /\ WF_vars(Reap)
  /\ WF_vars(LanguageServer) /\ WF_vars(TimePasses)
FairSpec == Spec /\ Fairness

-----------------------------------------------------------------------------
(* Properties.                                                             *)

Responses(c) == {i \in DOMAIN inbox[c] : IsResponse(inbox[c][i])}
Answered(c, k) == \E i \in Responses(c) : inbox[c][i].id = k

(* Multiplexing never crosses wires: a response written to a connection    *)
(* answers the request its owner issued under that very id, although every *)
(* connection numbers its requests 1, 2, ... (routeResponse and            *)
(* remapRequest).  The one exception is meant: an initialize may be        *)
(* answered with the server's response to another connection's initialize. *)
AnswersAreOwn ==
  \A c \in Clients : \A i \in Responses(c) :
    LET m == inbox[c][i] IN
    /\ m.id \in 1 .. nextID[c]
    /\ (m.from = c /\ m.call = m.id) \/ (m.id = InitID /\ m.call = InitID)

(* No request is answered twice: neither by routing a response to a        *)
(* request again, nor by serving an initialize both from the cache and     *)
(* from the server.                                                        *)
AnsweredAtMostOnce ==
  \A c \in Clients : \A i, j \in Responses(c) :
    inbox[c][i].id = inbox[c][j].id => i = j

(* The daemon implements the abstract multiplexer of RequestBroker: an id  *)
(* of its own for each request, the pending table and the cache are only   *)
(* means.  A connection is over once removeClient has purged it.           *)
AnswersTo(c) ==
  {[id |-> inbox[c][i].id, from |-> inbox[c][i].from, call |-> inbox[c][i].call] :
     i \in Responses(c)}
Broker == INSTANCE RequestBroker WITH
  asked <- nextID,
  answers <- [c \in Clients |-> AnswersTo(c)],
  over <- {c \in Clients : h[c].pc = "gone"}
ImplementsBroker == Broker!BrokerSpec

(* d.pending does not leak: an entry belongs to a connection whose handler *)
(* still has its removeClient to run, so no entry outlives its connection  *)
(* and no response is ever routed for one that has been purged.            *)
PendingIsOwned ==
  \A d \in DOMAIN pending : h[pending[d].client].pc \notin {"none", "gone"}

(* The idle stop never takes the server away from a connection: from the   *)
(* moment shutdown is sent until cleanup none is registered, and no        *)
(* handler can still read from one or forward anything to the server.      *)
IdleStopIsAlone ==
  al \in {"shutdown", "waitexit"} =>
    clients = {} /\ \A c \in Clients : h[c].pc \in {"none", "purge", "gone"}

(* "prevents duplicate initialize/initialized to the language server when  *)
(* multiple clients connect over the daemon lifetime" (the comment on      *)
(* initPhase): the server gets each of the two at most once.               *)
OneHandshake == inits <= 1 /\ initeds <= 1

(* Past phase 0 the cache holds a successful initialize response, so every *)
(* later connection can be served from it (cacheInitializeResponse,        *)
(* replyInitializeFromCache).                                              *)
PhaseMeansCached == initPhase >= 1 => initResponse # NoMsg /\ initResponse.ok

(* While the daemon serves, no owner of a connection is refused its        *)
(* handshake: the only reply to initialize is a successful one, and the    *)
(* handler never gives up for want of a cached response.                   *)
HandshakeServed ==
  \A c \in Sessions :
    /\ \A i \in Responses(c) : inbox[c][i].id = InitID => inbox[c][i].ok
    /\ h[c].pc = "reply" => initResponse # NoMsg

(* The phase only moves forward, and the cached response never changes     *)
(* once stored ("set once").                                               *)
PhaseMovesForward ==
  [][/\ initPhase' >= initPhase
     /\ initResponse # NoMsg => initResponse' = initResponse]_vars

(* Every request is answered, or its connection ends, as long as owners    *)
(* read: also when the server dies or the daemon stops meanwhile.          *)
EveryCallEnds ==
  \A c \in Clients : \A k \in 1 .. 1 + MaxCalls :
    (k <= nextID[c] /\ ~Answered(c, k)) ~> (Answered(c, k) \/ cl[c] = "closed")

(* A server that is gone takes every connection with it, and the daemon.   *)
ServerExitEndsDaemon ==
  ls # "up" ~> (al = "gone" /\ \A c \in Clients : cl[c] \in {"new", "closed"})

(* "Daemon process lifetime is bounded by idle timeout": once every owner  *)
(* has closed its connection, the daemon ends.                             *)
IdleDaemonEnds == (\A c \in Clients : cl[c] = "closed") ~> (al = "gone")
=============================================================================
