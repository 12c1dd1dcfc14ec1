-------------------------------- MODULE Lifecycle --------------------------------
(***************************************************************************)
(* Daemons of one (workspace, language) key and the cs processes that      *)
(* start, reuse, stop and clean them up: pkg/lsp/lifecycle.go, the daemon  *)
(* process of daemon_unix.go around its proxy (DaemonProxy), the connector *)
(* of daemon_client.go, the state files of daemon_state.go and the Gradle  *)
(* baseline of cmd/cs/lsp_java_init.go.  The actors share nothing but      *)
(* files: the lock per key is a mutex of one process.                      *)
(*                                                                         *)
(* Whether a record is too old, or its arguments or environment are not    *)
(* the wanted ones, is a choice (`fits`); a pid is the daemon it was  *)
(* given to (hasStrongProcessIdentity, as on Linux and macOS).             *)
(***************************************************************************)
EXTENDS Naturals, FiniteSets

CONSTANTS
  Procs,        (* cs processes                                              *)
  MaxDaemons,   (* bound: daemon processes started                           *)
  MaxCommands,  (* bound: commands run                                       *)
  MaxFaults,    (* bound: crashes, failures of the disk and of the server    *)
  MaxBuilds     (* bound: states of the Gradle build files                   *)

ASSUME LifecycleAssumption ==
  /\ MaxDaemons \in Nat /\ MaxCommands \in Nat /\ MaxFaults \in Nat
  /\ MaxBuilds \in Nat \ {0}

VARIABLES
  proc,      (* each cs process                                              *)
  conn,      (* the daemon at the other end of its connection, or 0          *)
  daemon,    (* each daemon process                                          *)
  record,    (* the state file                                               *)
  socket,    (* the daemon whose socket is at the socket path, or 0          *)
  baseline,  (* the Gradle baseline file, or 0                               *)
  build,     (* the fingerprint of the build files                           *)
  imported,  (* history: the fingerprints a server was told to import        *)
  commands, faults,
  disturbed  (* history: a fault, or two actors at work at once              *)

fileVars == <<record, socket, baseline>>
daemonVars == <<daemon, imported>>
countVars == <<build, commands, faults>>
vars == <<proc, conn, daemonVars, fileVars, countVars, disturbed>>

Daemons == 1 .. MaxDaemons
Builds == 1 .. MaxBuilds

(* `base` is the copy of the baseline in the state file, 0 if it has none. *)
Record == [d : 0 .. MaxDaemons, base : 0 .. MaxBuilds]
NoRecord == [d |-> 0, base |-> 0]

EnsurePCs == {"ensure", "probe", "launch", "ready", "record"}
StopPCs == {"stop", "shutdown", "kill"}
RemovePCs == {"rmState", "rmSocket", "rmBaseline"}
ConnectPCs == {"dial", "detect", "writeBase", "writeBack", "initialize", "use"}
CleanPCs == {"cleanBase", "cleanReads"}
Proc ==
  [pc    : {"idle"} \cup EnsurePCs \cup StopPCs \cup RemovePCs \cup ConnectPCs \cup CleanPCs,
   next  : {"ensure", "launch", "idle"},  \* what follows a stop
   held  : Record,                        \* the record read, or the daemon launched
   prev  : 0 .. MaxBuilds,                \* the baseline found
   now   : 0 .. MaxBuilds,                \* the fingerprint detected
   tries : {0, 1},                        \* Connect's attempt
   dials : {0, 1}]                        \* connectLeaseWithRetry's attempt
Daemon ==
  [pc    : {"unborn", "new", "unlink", "bind", "boot", "serving", "stopping", "gone"} \cup RemovePCs,
   touch : Record,                        \* the record touchActivity read and will write
   told  : {"nothing", "import", "skip"}, \* what the first initialize told its server
   of    : 0 .. MaxBuilds]                \* ... and about which build files

TypeOK ==
  /\ proc \in [Procs -> Proc] /\ conn \in [Procs -> 0 .. MaxDaemons]
  /\ daemon \in [Daemons -> Daemon]
  /\ record \in Record /\ socket \in 0 .. MaxDaemons /\ baseline \in 0 .. MaxBuilds
  /\ build \in Builds /\ imported \subseteq Builds
  /\ commands \in 0 .. MaxCommands /\ faults \in 0 .. MaxFaults /\ disturbed \in BOOLEAN

Idle == [pc |-> "idle", next |-> "idle", held |-> NoRecord, prev |-> 0, now |-> 0,
         tries |-> 0, dials |-> 0]

DaemonAt(pc) == [pc |-> pc, touch |-> NoRecord, told |-> "nothing", of |-> 0]

Init ==
  /\ proc = [p \in Procs |-> Idle] /\ conn = [p \in Procs |-> 0]
  /\ daemon = [d \in Daemons |-> DaemonAt("unborn")]
  /\ record = NoRecord /\ socket = 0 /\ baseline = 0
  /\ build = 1 /\ imported = {} /\ commands = 0 /\ faults = 0 /\ disturbed = FALSE

Alive(d) == d # 0 /\ daemon[d].pc \notin {"unborn", "gone"}

(* A dial finds the listener of the daemon whose socket file is there.     *)
Accepting(d) == d # 0 /\ daemon[d].pc \in {"boot", "serving", "stopping"}

At(p, pc) == proc[p].pc = pc
Goes(p, pc) == proc' = [proc EXCEPT ![p].pc = pc]

(* What the steps before needed is forgotten; the attempts are not.        *)
Moves(p, pc) ==
  proc' = [proc EXCEPT ![p] = [Idle EXCEPT !.pc = pc, !.tries = proc[p].tries, !.dials = proc[p].dials]]
Ends(p) == proc' = [proc EXCEPT ![p] = Idle] /\ conn' = [conn EXCEPT ![p] = 0]
DaemonGoes(d, pc) ==
  daemon' = [daemon EXCEPT ![d] = IF pc = "gone" THEN DaemonAt("gone") ELSE [daemon[d] EXCEPT !.pc = pc]]

AtRest ==
  /\ \A p \in Procs : At(p, "idle")
  /\ \A d \in Daemons : daemon[d].pc \in {"unborn", "serving", "gone"} /\ daemon[d].touch = NoRecord

-----------------------------------------------------------------------------
(* removeStateArtifacts removes by path, whoever's files they are now.     *)

(* Mutant: the baseline stays. *)
RemovesNoBaseline == UNCHANGED fileVars

RemovesState == record' = NoRecord /\ UNCHANGED <<socket, baseline>>
RemovesSocket == socket' = 0 /\ UNCHANGED <<record, baseline>>
RemovesBaseline == baseline' = 0 /\ UNCHANGED <<record, socket>>

Removes(p) ==
  /\ \/ At(p, "rmState") /\ RemovesState /\ Goes(p, "rmSocket")
     \/ At(p, "rmSocket") /\ RemovesSocket /\ Goes(p, "rmBaseline")
     \/ At(p, "rmBaseline") /\ RemovesBaseline /\ Moves(p, proc[p].next)
  /\ UNCHANGED <<conn, daemonVars, countVars, disturbed>>

-----------------------------------------------------------------------------
(* A command: connect (refs, callers, implements, query, check, warmup),   *)
(* restart, which stops the recorded daemon first, or cleanup.             *)

Begins(p) ==
  /\ At(p, "idle") /\ commands < MaxCommands
  /\ commands' = commands + 1
  /\ \/ proc' = [proc EXCEPT ![p].pc = "ensure"]
     \/ proc' = [proc EXCEPT ![p].pc = "stop", ![p].next = "ensure"]
     \/ proc' = [proc EXCEPT ![p].pc = "cleanBase"]
  /\ disturbed' = (disturbed \/ ~AtRest)
  /\ UNCHANGED <<conn, daemonVars, fileVars, build, faults>>

(* Ensure: a record that does not fit is stopped, one whose process is     *)
(* gone is removed, none means a launch; a socket that answers is reused.  *)
EnsureReads(p) ==
  /\ At(p, "ensure")
  /\ \E fits \in BOOLEAN :
       IF record.d = 0
       THEN Moves(p, "launch")
       ELSE proc' = [proc EXCEPT ![p].held = record, ![p].next = "launch",
                                 ![p].pc = CASE ~fits           -> "shutdown"
                                             [] Alive(record.d) -> "probe"
                                             [] OTHER           -> "rmState"]
  /\ UNCHANGED <<conn, daemonVars, fileVars, countVars, disturbed>>

(* A socket that answers: the record read before is written back, with a   *)
(* new time.                                                               *)
EnsureProbes(p) ==
  /\ At(p, "probe")
  /\ IF Accepting(socket)
     THEN record' = proc[p].held /\ Moves(p, "dial")
     ELSE Goes(p, "shutdown") /\ UNCHANGED record
  /\ UNCHANGED <<conn, daemonVars, socket, baseline, countVars, disturbed>>

(* The binary is missing, or the process does not start; or it starts.     *)
Launches(p) ==
  /\ At(p, "launch")
  /\ \/ Ends(p) /\ UNCHANGED daemon
     \/ \E d \in Daemons :
          /\ daemon[d].pc = "unborn" /\ \A e \in Daemons : daemon[e].pc = "unborn" => d <= e
          /\ DaemonGoes(d, "new")
          /\ proc' = [proc EXCEPT ![p].pc = "ready", ![p].held.d = d]
          /\ UNCHANGED conn
  /\ UNCHANGED <<imported, fileVars, countVars, disturbed>>

(* Mutant: only the socket file is looked at, and waited for. *)
AwaitsSocketOnly(p) ==
  /\ At(p, "ready") /\ socket # 0
  /\ Goes(p, "record")
  /\ UNCHANGED <<conn, daemonVars, fileVars, countVars, disturbed>>

(* waitForDaemonReady: the process is there and so is a socket file, whose *)
(* owner it does not ask for; out of time, the process is killed.          *)
AwaitsReady(p) ==
  LET child == proc[p].held.d IN
  /\ At(p, "ready")
  /\ \/ ~Alive(child) /\ Ends(p) /\ UNCHANGED daemon
     \/ Alive(child) /\ socket # 0 /\ Goes(p, "record") /\ UNCHANGED <<conn, daemon>>
     \/ Alive(child) /\ Ends(p) /\ DaemonGoes(child, "gone")
  /\ UNCHANGED <<imported, fileVars, countVars, disturbed>>

Records(p) ==
  /\ At(p, "record")
  /\ record' = proc[p].held /\ Moves(p, "dial")
  /\ UNCHANGED <<conn, daemonVars, socket, baseline, countVars, disturbed>>

(* The state file cannot be written: the child is killed, and Connect      *)
(* tries once more if the rename failed.                                   *)
RecordFails(p) ==
  /\ At(p, "record") /\ faults < MaxFaults
  /\ faults' = faults + 1 /\ disturbed' = TRUE
  /\ DaemonGoes(proc[p].held.d, "gone")
  /\ \/ /\ proc[p].tries = 0
        /\ proc' = [proc EXCEPT ![p].pc = "ensure", ![p].tries = 1]
        /\ UNCHANGED conn
     \/ Ends(p)
  /\ UNCHANGED <<imported, fileVars, build, commands>>

Ensure(p) ==
  \/ EnsureReads(p) \/ EnsureProbes(p)
  \/ Launches(p) \/ AwaitsReady(p) \/ Records(p)

-----------------------------------------------------------------------------
(* Stop and stopStateProcess.                                              *)

StopReads(p) ==
  /\ At(p, "stop")
  /\ IF record.d = 0
     THEN Moves(p, proc[p].next)
     ELSE proc' = [proc EXCEPT ![p].held = record, ![p].pc = "shutdown"]
  /\ UNCHANGED <<conn, daemonVars, fileVars, countVars, disturbed>>

(* Whoever listens at the path is asked to stop; it may not answer.        *)
ShutsDown(p) ==
  /\ At(p, "shutdown") /\ Goes(p, "kill")
  /\ \/ UNCHANGED daemon
     \/ socket # 0 /\ daemon[socket].pc = "serving" /\ DaemonGoes(socket, "stopping")
  /\ UNCHANGED <<conn, imported, fileVars, countVars, disturbed>>

(* Mutant: the daemon is trusted to stop by itself. *)
KillsNobody(p) ==
  /\ At(p, "kill") /\ proc' = [proc EXCEPT ![p].pc = "rmState", ![p].held = NoRecord]
  /\ UNCHANGED <<conn, daemonVars, fileVars, countVars, disturbed>>

Kills(p) ==
  /\ At(p, "kill") /\ proc' = [proc EXCEPT ![p].pc = "rmState", ![p].held = NoRecord]
  /\ IF Alive(proc[p].held.d) THEN DaemonGoes(proc[p].held.d, "gone") ELSE UNCHANGED daemon
  /\ UNCHANGED <<conn, imported, fileVars, countVars, disturbed>>

Stop(p) == StopReads(p) \/ ShutsDown(p) \/ Kills(p) \/ Removes(p)

(* Cleanup takes the baseline file for the state of a dead daemon, and     *)
(* removes what a dead daemon left; it takes no lock.                      *)
Cleans(p) ==
  /\ \/ At(p, "cleanBase") /\ RemovesBaseline /\ Goes(p, "cleanReads")
     \/ /\ At(p, "cleanReads")
        /\ proc' = [proc EXCEPT ![p] = [Idle EXCEPT
                      !.pc = IF record.d = 0 \/ Alive(record.d) THEN "idle" ELSE "rmState"]]
        /\ UNCHANGED fileVars
  /\ UNCHANGED <<conn, daemonVars, countVars, disturbed>>

-----------------------------------------------------------------------------
(* Connect, after the lease: dial, the builder of the initialize request   *)
(* (which keeps the Gradle baseline), initialize.                          *)

(* Mutant: the attempts are counted and never compared. *)
ConnectFailsForever(p) ==
  /\ conn' = [conn EXCEPT ![p] = 0]
  /\ proc' = [proc EXCEPT ![p] =
       [Idle EXCEPT !.pc = "stop", !.next = "ensure", !.tries = proc[p].tries + 1]]

(* Stop and try again, once.                                               *)
ConnectFails(p) ==
  /\ conn' = [conn EXCEPT ![p] = 0]
  /\ proc' = [proc EXCEPT ![p] =
       IF proc[p].tries = 0 THEN [Idle EXCEPT !.pc = "stop", !.next = "ensure", !.tries = 1]
                            ELSE Idle]

(* A reset or a busy daemon: the same lease once more.                     *)
Redials(p) ==
  /\ proc[p].dials = 0
  /\ proc' = [proc EXCEPT ![p] = [Idle EXCEPT !.pc = "dial", !.tries = proc[p].tries, !.dials = 1]]
  /\ conn' = [conn EXCEPT ![p] = 0]

Dials(p) ==
  /\ At(p, "dial")
  /\ IF Accepting(socket)
     THEN Goes(p, "detect") /\ conn' = [conn EXCEPT ![p] = socket]
     ELSE ConnectFails(p)
  /\ UNCHANGED <<daemonVars, fileVars, countVars, disturbed>>

(* shouldSuppressJDTLSGradleImport: the copy in the state file goes before *)
(* the baseline file.  A failure here is not tried again.                  *)
Detects(p) ==
  /\ At(p, "detect")
  /\ \/ /\ proc' = [proc EXCEPT ![p].pc = "writeBase", ![p].now = build,
                     ![p].prev = IF record.base # 0 THEN record.base ELSE baseline]
        /\ UNCHANGED conn
     \/ Ends(p)
  /\ UNCHANGED <<daemonVars, fileVars, countVars, disturbed>>

(* WriteJavaGradleBuildBaseline: the file, then the state is read...       *)
WritesBaseline(p) ==
  /\ At(p, "writeBase")
  /\ baseline' = proc[p].now
  /\ proc' = [proc EXCEPT ![p].pc = "writeBack", ![p].held = record]
  /\ UNCHANGED <<conn, daemonVars, record, socket, countVars, disturbed>>

(* ... and written, whatever happened to it since.                         *)
WritesBack(p) ==
  /\ At(p, "writeBack")
  /\ proc' = [proc EXCEPT ![p].pc = "initialize", ![p].held = NoRecord]
  /\ IF proc[p].held.d # 0
     THEN record' = [proc[p].held EXCEPT !.base = proc[p].now]
     ELSE UNCHANGED record
  /\ UNCHANGED <<conn, daemonVars, socket, baseline, countVars, disturbed>>

Suppresses(p) == proc[p].prev # 0 /\ proc[p].prev = proc[p].now

(* The proxy forwards the first initialize and answers the others from     *)
(* what it kept (DaemonProxy).                                             *)
Forwarded(p) ==
  IF daemon[conn[p]].told # "nothing" THEN UNCHANGED daemonVars
  ELSE /\ daemon' = [daemon EXCEPT ![conn[p]].told = IF Suppresses(p) THEN "skip" ELSE "import",
                                   ![conn[p]].of = proc[p].now]
       /\ imported' = IF Suppresses(p) THEN imported ELSE imported \cup {proc[p].now}

(* Answered, or out of time (which is not tried again).                    *)
Initializes(p) ==
  /\ At(p, "initialize") /\ daemon[conn[p]].pc = "serving"
  /\ \/ Forwarded(p) /\ proc' = [proc EXCEPT ![p] = [Idle EXCEPT !.pc = "use"]] /\ UNCHANGED conn
     \/ Forwarded(p) /\ Ends(p)
  /\ UNCHANGED <<fileVars, countVars, disturbed>>

(* The server refuses; the proxy will forward the next initialize.         *)
InitializeRefused(p) ==
  /\ At(p, "initialize") /\ daemon[conn[p]].pc = "serving" /\ daemon[conn[p]].told = "nothing"
  /\ faults < MaxFaults /\ faults' = faults + 1 /\ disturbed' = TRUE
  /\ ConnectFails(p)
  /\ UNCHANGED <<daemonVars, fileVars, build, commands>>

(* The connection was never accepted, or was closed.                       *)
InitializeFails(p) ==
  /\ At(p, "initialize") /\ daemon[conn[p]].pc \notin {"boot", "serving"}
  /\ Redials(p) \/ ConnectFails(p)
  /\ UNCHANGED <<daemonVars, fileVars, countVars, disturbed>>

Finishes(p) ==
  /\ At(p, "use") /\ Ends(p)
  /\ UNCHANGED <<daemonVars, fileVars, countVars, disturbed>>

Connect(p) ==
  \/ Dials(p) \/ Detects(p) \/ WritesBaseline(p) \/ WritesBack(p)
  \/ Initializes(p) \/ InitializeFails(p) \/ Finishes(p)

Dies(p) ==
  /\ ~At(p, "idle") /\ faults < MaxFaults
  /\ faults' = faults + 1 /\ disturbed' = TRUE /\ Ends(p)
  /\ UNCHANGED <<daemonVars, fileVars, build, commands>>

-----------------------------------------------------------------------------
(* runDaemon.                                                              *)

(* removeStaleSocket: a socket that answers belongs to a living daemon.    *)
DaemonProbes(d) ==
  /\ daemon[d].pc = "new"
  /\ DaemonGoes(d, CASE socket = 0         -> "bind"
                     [] Accepting(socket)  -> "gone"
                     [] OTHER              -> "unlink")
  /\ UNCHANGED <<proc, conn, imported, fileVars, countVars, disturbed>>

DaemonUnlinks(d) ==
  /\ daemon[d].pc = "unlink" /\ DaemonGoes(d, "bind") /\ RemovesSocket
  /\ UNCHANGED <<proc, conn, imported, countVars, disturbed>>

DaemonBinds(d) ==
  /\ daemon[d].pc = "bind"
  /\ IF socket = 0 THEN socket' = d /\ DaemonGoes(d, "boot")
                   ELSE UNCHANGED socket /\ DaemonGoes(d, "gone")
  /\ UNCHANGED <<proc, conn, imported, record, baseline, countVars, disturbed>>

(* The language server starts.                                             *)
DaemonBoots(d) ==
  /\ daemon[d].pc = "boot" /\ DaemonGoes(d, "serving")
  /\ UNCHANGED <<proc, conn, imported, fileVars, countVars, disturbed>>

(* It does not: the listener is closed, which unlinks the path.            *)
BootFails(d) ==
  /\ daemon[d].pc = "boot" /\ faults < MaxFaults
  /\ DaemonGoes(d, "gone") /\ RemovesSocket /\ faults' = faults + 1 /\ disturbed' = TRUE
  /\ UNCHANGED <<proc, conn, imported, build, commands>>

(* touchActivity: the state file is read, its time set, and written.       *)
DaemonTouches(d) ==
  /\ daemon[d].pc = "serving" /\ daemon[d].touch = NoRecord /\ record # NoRecord
  /\ \E p \in Procs : conn[p] = d /\ proc[p].pc \in {"detect", "use"}
  /\ daemon' = [daemon EXCEPT ![d].touch = record]
  /\ UNCHANGED <<proc, conn, imported, fileVars, countVars, disturbed>>

DaemonTouched(d) ==
  /\ daemon[d].touch # NoRecord
  /\ record' = daemon[d].touch /\ daemon' = [daemon EXCEPT ![d].touch = NoRecord]
  /\ UNCHANGED <<proc, conn, imported, socket, baseline, countVars, disturbed>>

(* Mutant: a daemon that served a client never counts it out. *)
DaemonIdlesUnused(d) ==
  /\ daemon[d].pc = "serving" /\ daemon[d].told = "nothing"
  /\ \A p \in Procs : conn[p] # d
  /\ DaemonGoes(d, "stopping") /\ disturbed' = (disturbed \/ ~AtRest)
  /\ UNCHANGED <<proc, conn, imported, fileVars, countVars>>

(* acceptLoop: no client, and none for the idle timeout.                   *)
DaemonIdles(d) ==
  /\ daemon[d].pc = "serving" /\ \A p \in Procs : conn[p] # d
  /\ DaemonGoes(d, "stopping") /\ disturbed' = (disturbed \/ ~AtRest)
  /\ UNCHANGED <<proc, conn, imported, fileVars, countVars>>

(* Mutant: the daemon leaves its files. *)
DaemonClosesOnly(d) ==
  /\ daemon[d].pc = "stopping" /\ DaemonGoes(d, "gone") /\ RemovesSocket
  /\ UNCHANGED <<proc, conn, imported, countVars, disturbed>>

(* cleanup: closing the listener unlinks the path, whoever's socket it is. *)
DaemonCloses(d) ==
  /\ daemon[d].pc = "stopping" /\ DaemonGoes(d, "rmState") /\ RemovesSocket
  /\ UNCHANGED <<proc, conn, imported, countVars, disturbed>>

DaemonRemoves(d) ==
  /\ \/ daemon[d].pc = "rmState" /\ RemovesState /\ DaemonGoes(d, "rmSocket")
     \/ daemon[d].pc = "rmSocket" /\ RemovesSocket /\ DaemonGoes(d, "rmBaseline")
     \/ daemon[d].pc = "rmBaseline" /\ RemovesBaseline /\ DaemonGoes(d, "gone")
  /\ UNCHANGED <<proc, conn, imported, countVars, disturbed>>

DaemonSteps(d) ==
  \/ DaemonProbes(d) \/ DaemonUnlinks(d) \/ DaemonBinds(d) \/ DaemonBoots(d)
  \/ DaemonTouched(d) \/ DaemonIdles(d) \/ DaemonCloses(d) \/ DaemonRemoves(d)

(* The language server ends, or the daemon is killed from outside.         *)
DaemonFails(d) ==
  /\ faults < MaxFaults /\ faults' = faults + 1 /\ disturbed' = TRUE
  /\ \/ daemon[d].pc = "serving" /\ DaemonGoes(d, "stopping")
     \/ Alive(d) /\ DaemonGoes(d, "gone")
  /\ UNCHANGED <<proc, conn, imported, fileVars, build, commands>>

(* Somebody edits a build file.                                            *)
Edits ==
  /\ build < MaxBuilds /\ build' = build + 1
  /\ UNCHANGED <<proc, conn, daemonVars, fileVars, commands, faults, disturbed>>

ProcSteps(p) == Ensure(p) \/ Stop(p) \/ Cleans(p) \/ Connect(p)

Next ==
  \/ \E p \in Procs : Begins(p) \/ ProcSteps(p) \/ RecordFails(p) \/ InitializeRefused(p) \/ Dies(p)
  \/ \E d \in Daemons : DaemonSteps(d) \/ DaemonTouches(d) \/ BootFails(d) \/ DaemonFails(d)
  \/ Edits

Spec == Init /\ [][Next]_vars

(* A process that runs takes its steps, and time passes.                   *)
Fairness ==
  /\ \A p \in Procs : WF_vars(ProcSteps(p))
  /\ \A d \in Daemons : WF_vars(DaemonSteps(d))
FairSpec == Spec /\ Fairness

-----------------------------------------------------------------------------
(* Between commands, when no two actors were ever at work at once and none *)
(* failed: at most one daemon lives, it is the recorded one, its socket is *)
(* at the path, and its record does not outlive it.                        *)
RecordMatchesDaemon ==
  AtRest /\ ~disturbed =>
    /\ \A d \in Daemons : Alive(d) => record.d = d /\ socket = d
    /\ record.d # 0 => Alive(record.d)

(* The same, at work: a second daemon is never started beside a living one *)
(* by commands that run one after the other (TK-003: reuse).               *)
OneDaemon ==
  ~disturbed => Cardinality({d \in Daemons : Alive(d)}) <= 1

(* One after the other, no server starts with its Gradle import switched   *)
(* off: what removes a daemon removes the baseline it left.                *)
ServersImport == ~disturbed => \A d \in Daemons : daemon[d].told # "skip"

(* FR-06 of the connection spec: the import is switched off only if the    *)
(* build files are those of an earlier successful start, whose server      *)
(* imported them.                                                          *)
SkipsOnlyImported ==
  \A d \in Daemons : daemon[d].told = "skip" => daemon[d].of \in imported

(* A daemon that a stop has read from the state file is dead before any of *)
(* its files go, whatever answered at its socket.                          *)
StoppedIsDead ==
  [][\A p \in Procs : At(p, "kill") /\ ~At(p, "kill")' =>
       \/ proc[p].held.d = 0
       \/ daemon'[proc[p].held.d].pc = "gone"
       \/ faults' # faults]_vars

(* Every daemon ends, the orphans too: its life is bounded by the idle     *)
(* timeout (NFR-02).                                                       *)
DaemonsEnd == \A d \in Daemons : Alive(d) ~> ~Alive(d)

(* Every command ends: launches, stops and dials are tried a bounded       *)
(* number of times (FR-02), and nobody waits for a daemon that is gone.    *)
CommandsEnd == \A p \in Procs : ~At(p, "idle") ~> At(p, "idle")
=============================================================================
