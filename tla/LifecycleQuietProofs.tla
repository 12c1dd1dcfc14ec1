------------------------- MODULE LifecycleQuietProofs -------------------------
(* What Lifecycle keeps as long as nothing fails and no two actors were ever *)
(* at work at once, for any number of processes, daemons and commands: one   *)
(* daemon, files that name it, and servers that import their projects.       *)
EXTENDS LifecycleProofs

Working(p) == ~At(p, "idle")
OneWorks == \A p, q \in Procs : Working(p) /\ Working(q) => p = q

(* A daemon that has decided to end. *)
Leaving == {"stopping", "rmState", "rmSocket", "rmBaseline"}

(* Whether a process at work knows the living daemon d: by the record it     *)
(* holds, or by the state file it has yet to read or has just written.       *)
HoldingPCs == {"probe", "ready", "record", "shutdown", "kill"}
Knows(p, d) ==
  IF proc[p].pc \in HoldingPCs THEN proc[p].held.d = d
  ELSE proc[p].pc \notin RemovePCs \cup {"launch"} /\ record.d = d

(* The living daemon is the only one, and it is accounted for. *)
Accounted ==
  \A d \in Daemons : Alive(d) =>
    /\ \A e \in Daemons : Alive(e) => d = e
    /\ \A p \in Procs : Working(p) => Knows(p, d)
    /\ (\A p \in Procs : At(p, "idle")) => record.d = d \/ daemon[d].pc \in Leaving
    /\ daemon[d].pc \in Leaving => \A p \in Procs : Working(p) => At(p, "kill")

(* Who writes the state file back writes the living daemon's. *)
WroteBack ==
  \A p \in Procs : At(p, "writeBack") => \A d \in Daemons : Alive(d) => proc[p].held.d \in {0, d}
TouchesOwn ==
  \A d \in Daemons : daemon[d].touch # NoRecord =>
    /\ daemon[d].touch.d = d /\ daemon[d].pc = "serving"
    /\ \A p \in Procs : Working(p) => conn[p] = d /\ proc[p].pc \in ConnectPCs \ {"dial"}

Quiet == OneWorks /\ Accounted /\ WroteBack /\ TouchesOwn

-----------------------------------------------------------------------------
(* The same seen from the one process that works, or did before this step.   *)
QuietFor(p) ==
  /\ \A q \in Procs \ {p} : At(q, "idle")
  /\ \A d \in Daemons : Alive(d) =>
       /\ \A e \in Daemons : Alive(e) => d = e
       /\ Working(p) => Knows(p, d)
       /\ ~Working(p) => record.d = d \/ daemon[d].pc \in Leaving
       /\ daemon[d].pc \in Leaving /\ Working(p) => At(p, "kill")
       /\ At(p, "writeBack") => proc[p].held.d \in {0, d}
  /\ \A d \in Daemons : daemon[d].touch # NoRecord =>
       /\ daemon[d].touch.d = d /\ daemon[d].pc = "serving"
       /\ Working(p) => conn[p] = d /\ proc[p].pc \in ConnectPCs \ {"dial"}

LEMMA QuietIsForOne ==
  ASSUME NEW p \in Procs, \A q \in Procs \ {p} : At(q, "idle")
  PROVE  Quiet <=> QuietFor(p)
<1>1. Quiet => QuietFor(p)
  BY DEF Quiet, QuietFor, OneWorks, Accounted, WroteBack, TouchesOwn, Working, At
<1>2. ASSUME QuietFor(p) PROVE Quiet
  <2>1. OneWorks
    BY <1>2 DEF QuietFor, OneWorks, Working
  <2>2. Accounted
    BY <1>2 DEF QuietFor, Accounted, Working
  <2>3. WroteBack
    BY <1>2 DEF QuietFor, WroteBack, At
  <2>4. TouchesOwn
    BY <1>2 DEF QuietFor, TouchesOwn, Working
  <2> QED BY <2>1, <2>2, <2>3, <2>4 DEF Quiet
<1> QED BY <1>1, <1>2

LEMMA QuietIsForOneNext ==
  ASSUME NEW p \in Procs, QuietFor(p)'
  PROVE  Quiet'
<1>1. OneWorks'
  BY DEF QuietFor, OneWorks, Working
<1>2. Accounted'
  BY DEF QuietFor, Accounted, Working
<1>3. WroteBack'
  BY DEF QuietFor, WroteBack, At
<1>4. TouchesOwn'
  BY DEF QuietFor, TouchesOwn, Working
<1> QED BY <1>1, <1>2, <1>3, <1>4 DEF Quiet

(* What becomes of a daemon. *)
LEMMA DaemonGoesTo ==
  ASSUME daemon \in [Daemons -> Daemon], NEW x \in Daemons, NEW pc, DaemonGoes(x, pc)
  PROVE  /\ daemon'[x].pc = pc
         /\ daemon'[x].touch = IF pc = "gone" THEN NoRecord ELSE daemon[x].touch
         /\ \A d \in Daemons \ {x} : daemon'[d] = daemon[d]
<1>1. daemon'[x] = IF pc = "gone" THEN DaemonAt("gone") ELSE [daemon[x] EXCEPT !.pc = pc]
  BY DEF DaemonGoes
<1>2. daemon[x] \in Daemon
  OBVIOUS
<1>3. \A d \in Daemons \ {x} : daemon'[d] = daemon[d]
  BY DEF DaemonGoes
<1> QED BY <1>1, <1>2, <1>3 DEF DaemonAt, Daemon

LEMMA EnsureQuiet ==
  ASSUME TypeInv, NEW p \in Procs, QuietFor(p), Ensure(p), \A q \in Procs \ {p} : proc'[q] = proc[q]
  PROVE  QuietFor(p)'
<1>0. /\ proc[p] \in Proc /\ record \in Record /\ daemon \in [Daemons -> Daemon]
      /\ proc \in [Procs -> Proc] /\ 0 \notin Daemons
  BY DEF TypeInv, TypeOK, Daemons
<1>1. \A q \in Procs \ {p} : At(q, "idle")'
  BY DEF QuietFor, At
<1> USE DEF QuietFor, Working, At, Knows, Alive, HoldingPCs, Leaving, RemovePCs, ConnectPCs
<1>2. ASSUME EnsureReads(p) PROVE QuietFor(p)'
  <2>1. CASE record.d = 0
    <3>1. proc'[p].pc = "launch" /\ UNCHANGED daemon /\ \A d \in Daemons : ~Alive(d)
      <4>1. proc[p].pc = "ensure" /\ UNCHANGED daemon /\ Moves(p, "launch")
        BY <1>2, <2>1 DEF EnsureReads, daemonVars
      <4> QED BY <1>0, <2>1, <4>1 DEF Moves, Idle
    <3> QED BY <1>0, <1>1, <1>2, <3>1 DEF EnsureReads
  <2>2. CASE record.d # 0
    <3>1. /\ proc'[p].held = record /\ UNCHANGED <<daemon, record, conn>>
          /\ \/ proc'[p].pc \in {"shutdown", "probe"}
             \/ proc'[p].pc = "rmState" /\ ~Alive(record.d)
      BY <1>0, <1>2, <2>2 DEF EnsureReads, Proc, daemonVars, fileVars
    <3> QED BY <1>0, <1>1, <1>2, <3>1 DEF EnsureReads
  <2> QED BY <2>1, <2>2
<1>3. ASSUME EnsureProbes(p) PROVE QuietFor(p)'
  <2>1. UNCHANGED <<daemon, conn>> /\ proc[p].pc = "probe"
    BY <1>3 DEF EnsureProbes, daemonVars
  <2>2. \/ proc'[p].pc = "dial" /\ record' = proc[p].held
        \/ proc'[p].pc = "shutdown" /\ proc'[p].held = proc[p].held
    <3>1. CASE Accepting(socket)
      <4>1. Moves(p, "dial") /\ record' = proc[p].held
        BY <1>3, <3>1 DEF EnsureProbes
      <4> QED BY <1>0, <4>1 DEF Moves, Idle
    <3>2. CASE ~Accepting(socket)
      <4>1. proc' = [proc EXCEPT ![p].pc = "shutdown"]
        BY <1>3, <3>2 DEF EnsureProbes, Goes
      <4> QED BY <1>0, <4>1 DEF Proc
    <3> QED BY <3>1, <3>2
  <2> QED BY <1>0, <1>1, <2>1, <2>2
<1>4. ASSUME Launches(p) PROVE QuietFor(p)'
  <2>0. proc[p].pc = "launch" /\ \A d \in Daemons : ~Alive(d) /\ daemon[d].touch = NoRecord
    BY <1>0, <1>4 DEF Launches
  <2>1. CASE Ends(p) /\ UNCHANGED daemon
    BY <1>0, <1>1, <2>0, <2>1 DEF Ends, Idle
  <2>2. ASSUME NEW d \in Daemons, DaemonGoes(d, "new"),
               proc' = [proc EXCEPT ![p].pc = "ready", ![p].held.d = d]
        PROVE  QuietFor(p)'
    <3>1. proc'[p].pc = "ready" /\ proc'[p].held.d = d
      BY <1>0, <2>2 DEF Proc, Record
    <3>2. /\ \A e \in Daemons : daemon'[e].touch = NoRecord /\ (Alive(e)' => e = d)
          /\ daemon'[d].pc = "new"
      BY <1>0, <2>0, <2>2, DaemonGoesTo
    <3> QED BY <1>0, <1>1, <3>1, <3>2
  <2> QED BY <1>4, <2>1, <2>2 DEF Launches
<1>5. ASSUME AwaitsReady(p) PROVE QuietFor(p)'
  <2> DEFINE child == proc[p].held.d
  <2>0. /\ proc[p].pc = "ready" /\ UNCHANGED record
        /\ \A d \in Daemons : daemon[d].touch = NoRecord /\ (Alive(d) => d = child)
    BY <1>0, <1>5 DEF AwaitsReady, fileVars
  <2>1. CASE /\ Ends(p)
            /\ \/ ~Alive(child) /\ UNCHANGED daemon
               \/ child \in Daemons /\ DaemonGoes(child, "gone")
    <3>1. \A d \in Daemons : daemon'[d].touch = NoRecord /\ ~Alive(d)'
      BY <1>0, <2>0, <2>1, DaemonGoesTo
    <3> QED BY <1>0, <1>1, <2>1, <3>1 DEF Ends, Idle
  <2>2. CASE Goes(p, "record") /\ UNCHANGED <<conn, daemon>>
    <3>1. proc'[p].pc = "record" /\ proc'[p].held = proc[p].held
      BY <1>0, <2>2 DEF Goes, Proc
    <3> QED BY <1>0, <1>1, <2>0, <2>2, <3>1
  <2>3. Alive(child) => child \in Daemons
    BY InRange
  <2> QED BY <1>5, <2>1, <2>2, <2>3 DEF AwaitsReady
<1>6. ASSUME Records(p) PROVE QuietFor(p)'
  <2>1. UNCHANGED <<daemon, conn>> /\ proc[p].pc = "record" /\ proc'[p].pc = "dial" /\ record' = proc[p].held
    BY <1>0, <1>6 DEF Records, daemonVars, Moves, Idle
  <2> QED BY <1>0, <1>1, <2>1
<1> QED BY <1>2, <1>3, <1>4, <1>5, <1>6 DEF Ensure

LEMMA StopQuiet ==
  ASSUME TypeInv, NEW p \in Procs, QuietFor(p), Stop(p) \/ Cleans(p),
         \A q \in Procs \ {p} : proc'[q] = proc[q]
  PROVE  QuietFor(p)'
<1>0. /\ proc[p] \in Proc /\ record \in Record /\ daemon \in [Daemons -> Daemon]
      /\ proc \in [Procs -> Proc] /\ 0 \notin Daemons
  BY DEF TypeInv, TypeOK, Daemons
<1>1. \A q \in Procs \ {p} : At(q, "idle")'
  BY DEF QuietFor, At
<1> USE DEF QuietFor, Working, At, Knows, Alive, HoldingPCs, Leaving, RemovePCs, ConnectPCs
<1>2. ASSUME StopReads(p) PROVE QuietFor(p)'
  <2>1. CASE record.d = 0
    <3>1. UNCHANGED daemon /\ \A d \in Daemons : ~Alive(d) /\ daemon[d].touch = NoRecord
      BY <1>0, <1>2, <2>1 DEF StopReads, daemonVars
    <3> QED BY <1>0, <1>1, <3>1
  <2>2. CASE record.d # 0
    <3>1. /\ proc'[p].held = record /\ UNCHANGED daemon /\ proc'[p].pc = "shutdown" /\ proc[p].pc = "stop"
      BY <1>0, <1>2, <2>2 DEF StopReads, Proc, daemonVars
    <3> QED BY <1>0, <1>1, <3>1
  <2> QED BY <2>1, <2>2
<1>3. ASSUME ShutsDown(p) PROVE QuietFor(p)'
  <2>1. proc[p].pc = "shutdown" /\ proc'[p].pc = "kill" /\ proc'[p].held = proc[p].held
    BY <1>0, <1>3 DEF ShutsDown, Goes, Proc
  <2>2. \A d \in Daemons : daemon'[d].touch = NoRecord /\ (Alive(d)' => Alive(d))
    <3>1. CASE UNCHANGED daemon
      BY <1>0, <2>1, <3>1
    <3>2. CASE socket # 0 /\ daemon[socket].pc = "serving" /\ DaemonGoes(socket, "stopping")
      <4>1. socket \in Daemons
        BY <3>2, InRange
      <4> QED BY <1>0, <2>1, <3>2, <4>1, DaemonGoesTo
    <3> QED BY <1>3, <3>1, <3>2 DEF ShutsDown
  <2> QED BY <1>0, <1>1, <2>1, <2>2
<1>4. ASSUME Kills(p) PROVE QuietFor(p)'
  <2>1. proc[p].pc = "kill" /\ proc'[p].pc = "rmState"
    BY <1>0, <1>4 DEF Kills, Proc
  <2>2. \A d \in Daemons : daemon'[d].touch = NoRecord /\ ~Alive(d)'
    <3> DEFINE x == proc[p].held.d
    <3>1. \A d \in Daemons : daemon[d].touch = NoRecord /\ (Alive(d) => d = x)
      BY <1>0, <2>1
    <3>2. CASE Alive(x)
      <4>1. x \in Daemons
        BY <3>2, InRange
      <4> QED BY <1>0, <1>4, <3>1, <3>2, <4>1, DaemonGoesTo DEF Kills
    <3>3. CASE ~Alive(x)
      BY <1>4, <3>1, <3>3 DEF Kills
    <3> QED BY <3>2, <3>3
  <2> QED BY <1>0, <1>1, <2>1, <2>2
<1>5. ASSUME Removes(p) PROVE QuietFor(p)'
  <2>1. UNCHANGED daemon /\ \A d \in Daemons : ~Alive(d) /\ daemon[d].touch = NoRecord
    BY <1>0, <1>5 DEF Removes, daemonVars
  <2> QED BY <1>0, <1>1, <2>1
<1>6. ASSUME Cleans(p) PROVE QuietFor(p)'
  <2>1. /\ UNCHANGED <<daemon, record>> /\ proc[p].pc \in {"cleanBase", "cleanReads"}
        /\ \A d \in Daemons : daemon[d].touch = NoRecord /\ (Alive(d) => record.d = d /\ daemon[d].pc \notin Leaving)
    BY <1>0, <1>6 DEF Cleans, daemonVars, RemovesBaseline, fileVars
  <2>2. \/ proc'[p].pc \in {"cleanReads", "idle"}
        \/ proc'[p].pc = "rmState" /\ ~Alive(record.d)
    BY <1>0, <1>6 DEF Cleans, Goes, Idle, Proc
  <2> QED BY <1>0, <1>1, <2>1, <2>2
<1> QED BY <1>2, <1>3, <1>4, <1>5, <1>6 DEF Stop

LEMMA ConnectQuiet ==
  ASSUME TypeInv, NEW p \in Procs, QuietFor(p), Connect(p),
         \A q \in Procs \ {p} : proc'[q] = proc[q]
  PROVE  QuietFor(p)'
<1>0. /\ proc[p] \in Proc /\ record \in Record /\ daemon \in [Daemons -> Daemon]
      /\ proc \in [Procs -> Proc] /\ conn \in [Procs -> 0 .. MaxDaemons] /\ 0 \notin Daemons
  BY DEF TypeInv, TypeOK, Daemons
<1>1. \A q \in Procs \ {p} : At(q, "idle")'
  BY DEF QuietFor, At
<1> USE DEF QuietFor, Working, At, Knows, Alive, HoldingPCs, Leaving, RemovePCs, ConnectPCs
(* p goes back to the start, or ends, and the daemon has its record.         *)
<1>2. ASSUME UNCHANGED <<daemon, record>>, proc[p].pc \in ConnectPCs,
             \A d \in Daemons : daemon[d].touch = NoRecord,
             proc'[p].pc \in {"idle", "stop", "dial", "detect"}
      PROVE  QuietFor(p)'
  BY <1>0, <1>1, <1>2
<1>3. ConnectFails(p) => proc'[p].pc \in {"idle", "stop"}
  BY <1>0 DEF ConnectFails, Idle
<1>4. ASSUME Dials(p) PROVE QuietFor(p)'
  <2>1. /\ UNCHANGED <<daemon, record>> /\ proc[p].pc = "dial"
        /\ \A d \in Daemons : daemon[d].touch = NoRecord
    BY <1>0, <1>4 DEF Dials, daemonVars, fileVars
  <2>2. Goes(p, "detect") => proc'[p].pc = "detect"
    BY <1>0 DEF Goes, Proc
  <2>3. proc'[p].pc \in {"idle", "stop", "dial", "detect"}
    BY <1>3, <1>4, <2>2 DEF Dials
  <2> QED BY <1>2, <2>1, <2>3
(* p goes on, or ends: what it was connected to is as it was. *)
<1>5. ASSUME UNCHANGED <<daemon, record>>, proc[p].pc \in ConnectPCs, Ends(p)
      PROVE  QuietFor(p)'
  <2>1. proc'[p].pc = "idle"
    BY <1>0, <1>5 DEF Ends, Idle
  <2> QED BY <1>0, <1>1, <1>5, <2>1
<1>6. ASSUME Detects(p) \/ Finishes(p) PROVE QuietFor(p)'
  <2>1. CASE Ends(p)
    BY <1>5, <1>6, <2>1 DEF Detects, Finishes, daemonVars, fileVars
  <2>2. CASE ~Ends(p)
    <3>1. /\ UNCHANGED <<daemon, record, conn>> /\ proc[p].pc = "detect"
      BY <1>6, <2>2 DEF Detects, Finishes, daemonVars, fileVars
    <3>2. proc'[p].pc = "writeBase"
      BY <1>0, <1>6, <2>2 DEF Detects, Finishes, Proc
    <3> QED BY <1>0, <1>1, <3>1, <3>2
  <2> QED BY <2>1, <2>2
<1>7. ASSUME WritesBaseline(p) PROVE QuietFor(p)'
  <2>1. /\ UNCHANGED <<daemon, record, conn>> /\ proc[p].pc = "writeBase"
        /\ proc'[p].pc = "writeBack" /\ proc'[p].held = record
    BY <1>0, <1>7 DEF WritesBaseline, daemonVars, Proc
  <2> QED BY <1>0, <1>1, <2>1
<1>8. ASSUME WritesBack(p) PROVE QuietFor(p)'
  <2>1. /\ UNCHANGED <<daemon, conn>> /\ proc[p].pc = "writeBack" /\ proc'[p].pc = "initialize"
    BY <1>0, <1>8 DEF WritesBack, daemonVars, Proc
  <2>2. proc[p].held \in Record
    BY <1>0 DEF Proc
  <2>3. \A d \in Daemons : Alive(d) => record'.d = d
    BY <1>0, <1>8, <2>1, <2>2 DEF WritesBack, Record
  <2> QED BY <1>0, <1>1, <2>1, <2>3
<1>9. ASSUME Initializes(p) PROVE QuietFor(p)'
  <2>1. daemon' = daemon \/ daemon' = [daemon EXCEPT ![conn[p]].told = IF Suppresses(p) THEN "skip" ELSE "import",
                                                     ![conn[p]].of = proc[p].now]
    BY <1>9 DEF Initializes, Forwarded, daemonVars
  <2>2. \A d \in Daemons : daemon'[d].touch = daemon[d].touch /\ daemon'[d].pc = daemon[d].pc
    BY <1>0, <2>1 DEF Daemon
  <2>3. UNCHANGED record /\ proc[p].pc = "initialize"
    BY <1>9 DEF Initializes, fileVars
  <2>4. \/ proc'[p].pc = "idle"
        \/ proc'[p].pc = "use" /\ UNCHANGED conn
    BY <1>0, <1>9 DEF Initializes, Ends, Idle
  <2> QED BY <1>0, <1>1, <2>2, <2>3, <2>4
<1>10. ASSUME InitializeFails(p) PROVE QuietFor(p)'
  <2>1. /\ UNCHANGED <<daemon, record>> /\ proc[p].pc = "initialize" /\ daemon[conn[p]].pc # "serving"
    BY <1>10 DEF InitializeFails, daemonVars, fileVars
  <2>2. \A d \in Daemons : daemon[d].touch = NoRecord
    BY <1>0, <2>1
  <2>3. Redials(p) => proc'[p].pc = "dial"
    BY <1>0 DEF Redials, Idle
  <2>4. proc'[p].pc \in {"idle", "stop", "dial", "detect"}
    BY <1>3, <1>10, <2>3 DEF InitializeFails
  <2> QED BY <1>2, <2>1, <2>2, <2>4
<1> QED BY <1>4, <1>6, <1>7, <1>8, <1>9, <1>10 DEF Connect

-----------------------------------------------------------------------------
LEMMA BeginsQuiet ==
  ASSUME TypeInv, NEW p \in Procs, Quiet, Begins(p), ~disturbed'
  PROVE  Quiet'
<1>0. proc \in [Procs -> Proc] /\ daemon \in [Daemons -> Daemon]
  BY DEF TypeInv, TypeOK
<1>1. /\ AtRest /\ UNCHANGED <<daemon, record>>
      /\ \A q \in Procs \ {p} : proc'[q] = proc[q]
      /\ proc'[p].pc \in {"ensure", "stop", "cleanBase"}
  BY <1>0 DEF Begins, Proc, daemonVars, fileVars
<1>2. /\ \A d \in Daemons : daemon[d].touch = NoRecord
      /\ \A d \in Daemons : Alive(d) => record.d = d /\ daemon[d].pc = "serving"
      /\ \A d, e \in Daemons : Alive(d) /\ Alive(e) => d = e
  BY <1>1 DEF Quiet, Accounted, AtRest, Alive, Leaving
<1>3. QuietFor(p)'
  BY <1>1, <1>2 DEF QuietFor, AtRest, Alive, Working, At, Knows, HoldingPCs, Leaving, RemovePCs
<1> QED BY <1>3, QuietIsForOneNext
(* A daemon's steps change what it has read, its place, and the files: never *)
(* who lives, unless it ends.                                                *)
LEMMA DaemonQuiet ==
  ASSUME TypeInv, NEW d \in Daemons, Quiet, DaemonSteps(d) \/ DaemonTouches(d), ~disturbed'
  PROVE  Quiet'
<1>0. /\ daemon \in [Daemons -> Daemon] /\ record \in Record /\ 0 \notin Daemons
      /\ NoRecord \in Record
  BY Sorts DEF TypeInv, TypeOK, Daemons
<1>1. UNCHANGED <<proc, conn>>
  BY DEF DaemonSteps, DaemonTouches, DaemonProbes, DaemonUnlinks, DaemonBinds, DaemonBoots, DaemonTouched,
    DaemonIdles, DaemonCloses, DaemonRemoves
<1>2. OneWorks'
  BY <1>1 DEF Quiet, OneWorks, Working, At
<1> USE DEF Quiet, Accounted, WroteBack, TouchesOwn, Working, At, Knows, Alive, HoldingPCs, Leaving, RemovePCs
(* It comes up, or gives up. *)
<1>3. ASSUME NEW pc \in {"gone", "unlink", "bind", "boot", "serving"}, DaemonGoes(d, pc), UNCHANGED record,
             daemon[d].pc \in {"new", "unlink", "bind", "boot"}
      PROVE  Quiet'
  <2>1. \A e \in Daemons : daemon'[e].touch = daemon[e].touch /\ daemon[e].touch = NoRecord
    BY <1>0, <1>3, DaemonGoesTo
  <2>2. \A e \in Daemons : Alive(e)' => e = d /\ daemon'[e].pc \notin Leaving
    BY <1>0, <1>3, DaemonGoesTo
  <2>3. Accounted'
    BY <1>0, <1>1, <1>3, <2>2
  <2>4. WroteBack' /\ TouchesOwn'
    BY <1>0, <1>1, <1>3, <2>1, <2>2
  <2> QED BY <1>2, <2>3, <2>4
(* It goes down, whatever it does to the state file. *)
<1>4. ASSUME NEW pc \in Leaving \cup {"gone"}, DaemonGoes(d, pc), daemon[d].pc \in Leaving
      PROVE  Quiet'
  <2>1. \A e \in Daemons : daemon'[e].touch = NoRecord
    BY <1>0, <1>4, DaemonGoesTo
  <2>2. \A e \in Daemons : Alive(e)' => e = d /\ daemon'[e].pc \in Leaving
    BY <1>0, <1>4, DaemonGoesTo
  <2>3. \A p \in Procs : Working(p) => At(p, "kill") /\ proc[p].held.d = d
    BY <1>0, <1>4
  <2>4. Accounted'
    BY <1>0, <1>1, <2>2, <2>3
  <2>5. WroteBack' /\ TouchesOwn'
    BY <1>0, <1>1, <2>1, <2>3
  <2> QED BY <1>2, <2>4, <2>5
<1>5. ASSUME DaemonIdles(d) PROVE Quiet'
  <2>1. AtRest /\ UNCHANGED record /\ DaemonGoes(d, "stopping") /\ daemon[d].pc = "serving"
    BY <1>5 DEF DaemonIdles, fileVars
  <2>2. \A e \in Daemons : daemon'[e].touch = NoRecord
    BY <1>0, <2>1, DaemonGoesTo DEF AtRest
  <2>3. \A e \in Daemons : Alive(e)' => e = d /\ daemon'[e].pc \in Leaving
    BY <1>0, <2>1, DaemonGoesTo
  <2>4. \A p \in Procs : proc'[p].pc = "idle"
    BY <1>1, <2>1 DEF AtRest
  <2> QED BY <1>0, <1>2, <2>2, <2>3, <2>4
<1>6. ASSUME DaemonTouched(d) PROVE Quiet'
  <2>1. /\ record' = daemon[d].touch /\ daemon[d].touch # NoRecord
        /\ \A e \in Daemons : /\ daemon'[e].pc = daemon[e].pc
                              /\ daemon'[e].touch = IF e = d THEN NoRecord ELSE daemon[e].touch
    BY <1>0, <1>6 DEF DaemonTouched, Daemon
  <2>2. record'.d = d /\ daemon[d].pc = "serving"
    BY <2>1
  <2>3. \A e \in Daemons : Alive(e)' => e = d /\ record'.d = d /\ daemon'[e].pc \notin Leaving
    BY <1>0, <2>1, <2>2
  <2>4. \A p \in Procs : Working(p) => proc[p].pc \in ConnectPCs
    BY <2>1
  <2>5. Accounted'
    BY <1>0, <1>1, <2>3, <2>4 DEF ConnectPCs
  <2>6. WroteBack' /\ TouchesOwn'
    BY <1>0, <1>1, <2>1
  <2> QED BY <1>2, <2>5, <2>6
<1>7. ASSUME DaemonTouches(d) PROVE Quiet'
  <2>1. /\ UNCHANGED record /\ daemon[d].pc = "serving"
        /\ \A e \in Daemons : /\ daemon'[e].pc = daemon[e].pc
                              /\ daemon'[e].touch = IF e = d THEN record ELSE daemon[e].touch
    BY <1>0, <1>7 DEF DaemonTouches, Daemon, fileVars
  <2>2. PICK p \in Procs : conn[p] = d /\ proc[p].pc \in {"detect", "use"}
    BY <1>7 DEF DaemonTouches
  <2>3. record.d = d /\ \A q \in Procs : Working(q) => q = p
    BY <1>0, <2>1, <2>2 DEF OneWorks
  <2>4. Accounted' /\ WroteBack'
    BY <1>0, <1>1, <2>1
  <2>5. TouchesOwn'
    BY <1>0, <1>1, <2>1, <2>2, <2>3 DEF ConnectPCs
  <2> QED BY <1>2, <2>4, <2>5
<1>8. ASSUME DaemonProbes(d) PROVE Quiet'
  <2>1. PICK pc \in {"bind", "gone", "unlink"} : DaemonGoes(d, pc)
    BY <1>8 DEF DaemonProbes
  <2> QED BY <1>3, <1>8, <2>1 DEF DaemonProbes, fileVars
<1>9. ASSUME DaemonUnlinks(d) \/ DaemonBinds(d) \/ DaemonBoots(d) PROVE Quiet'
  BY <1>3, <1>9 DEF DaemonUnlinks, DaemonBinds, DaemonBoots, RemovesSocket, fileVars
<1>10. ASSUME DaemonCloses(d) \/ DaemonRemoves(d) PROVE Quiet'
  BY <1>4, <1>10 DEF DaemonCloses, DaemonRemoves
<1> QED BY <1>5, <1>6, <1>7, <1>8, <1>9, <1>10 DEF DaemonSteps

(* Only p takes p's steps. *)
LEMMA OthersStay ==
  ASSUME TypeInv, NEW p \in Procs, ProcSteps(p)
  PROVE  /\ \A q \in Procs \ {p} : proc'[q] = proc[q]
         /\ Working(p)
<1>1. proc \in [Procs -> Proc]
  BY DEF TypeInv, TypeOK
<1> QED BY <1>1 DEF Working, At, ProcSteps, Ensure, Stop, Cleans, Connect, EnsureReads, EnsureProbes, Launches,
        AwaitsReady, Records, StopReads, ShutsDown, Kills, Removes, Dials, Detects, WritesBaseline, WritesBack,
        Initializes, InitializeFails, Finishes, Goes, Moves, Ends, ConnectFails, Redials

(* A step after which nothing is disturbed is none of a fault. *)
LEMMA CalmSteps ==
  ASSUME TypeInv, [Next]_vars, ~disturbed'
  PROVE  /\ ~disturbed
         /\ \/ \E p \in Procs : Begins(p) \/ ProcSteps(p)
            \/ \E d \in Daemons : DaemonSteps(d) \/ DaemonTouches(d)
            \/ UNCHANGED <<proc, conn, daemon, record, socket, baseline>>
<1>1. \A p \in Procs : ~RecordFails(p) /\ ~InitializeRefused(p) /\ ~Dies(p)
  BY DEF RecordFails, InitializeRefused, Dies
<1>2. \A d \in Daemons : ~BootFails(d) /\ ~DaemonFails(d)
  BY DEF BootFails, DaemonFails
<1>3. \A p \in Procs : Begins(p) => ~disturbed
  BY DEF Begins
<1>4. \A p \in Procs : ProcSteps(p) => ~disturbed
  BY DEF ProcSteps, Ensure, Stop, Cleans, Connect, EnsureReads, EnsureProbes, Launches, AwaitsReady, Records,
    StopReads, ShutsDown, Kills, Removes, Dials, Detects, WritesBaseline, WritesBack, Initializes, InitializeFails,
    Finishes
<1>5. \A d \in Daemons : DaemonSteps(d) \/ DaemonTouches(d) => ~disturbed
  BY DEF DaemonSteps, DaemonTouches, DaemonProbes, DaemonUnlinks, DaemonBinds, DaemonBoots, DaemonTouched,
    DaemonIdles, DaemonCloses, DaemonRemoves
<1>6. Edits \/ UNCHANGED vars => ~disturbed /\ UNCHANGED <<proc, conn, daemon, record, socket, baseline>>
  BY DEF Edits, vars, daemonVars, fileVars
<1> QED BY <1>1, <1>2, <1>3, <1>4, <1>5, <1>6 DEF Next

LEMMA NextQuiet ==
  ASSUME TypeInv, Quiet, [Next]_vars, ~disturbed'
  PROVE  Quiet'
<1>1. ASSUME NEW p \in Procs, ProcSteps(p) PROVE Quiet'
  <2>1. (\A q \in Procs \ {p} : proc'[q] = proc[q]) /\ Working(p)
    BY <1>1, OthersStay
  <2>2. \A q \in Procs \ {p} : At(q, "idle")
    BY <2>1 DEF Quiet, OneWorks, Working
  <2>3. QuietFor(p)
    BY <2>2, QuietIsForOne
  <2>4. QuietFor(p)'
    BY <1>1, <2>1, <2>3, EnsureQuiet, StopQuiet, ConnectQuiet DEF ProcSteps
  <2> QED BY <2>4, QuietIsForOneNext
<1>2. ASSUME UNCHANGED <<proc, conn, daemon, record>> PROVE Quiet'
  BY <1>2 DEF Quiet, OneWorks, Accounted, WroteBack, TouchesOwn, Working, Knows, At, Alive
<1> QED BY <1>1, <1>2, CalmSteps, BeginsQuiet, DaemonQuiet

LEMMA InitQuiet == Init => Quiet
<1> SUFFICES ASSUME Init PROVE Quiet
  OBVIOUS
<1>1. \A p \in Procs : At(p, "idle")
  BY DEF Init, At, Idle
<1>2. \A d \in Daemons : ~Alive(d) /\ daemon[d].touch = NoRecord
  BY DEF Init, Alive, DaemonAt
<1> QED BY <1>1, <1>2 DEF Quiet, OneWorks, Accounted, WroteBack, TouchesOwn, Working, At

-----------------------------------------------------------------------------
LEMMA OneOrNone ==
  ASSUME NEW S, \A x, y \in S : x = y
  PROVE  Cardinality(S) <= 1
<1>1. CASE S = {}
  BY <1>1, FS_EmptySet
<1>2. CASE S # {}
  <2>1. PICK x : S = {x}
    BY <1>2
  <2> QED BY <2>1, FS_Singleton
<1> QED BY <1>1, <1>2

(* Commands that run one after the other never have two daemons of one key   *)
(* alive, however many daemons Ensure starts and however they end: before a  *)
(* launch the recorded one is dead, and the living one is recorded.          *)
THEOREM OneAtATime == Spec => []OneDaemon
<1> DEFINE Inv == TypeInv /\ (~disturbed => Quiet)
<1>1. Init => Inv
  BY InitTypeInv, InitQuiet
<1>2. Inv /\ [Next]_vars => Inv'
  BY NextTypeInv, NextQuiet, CalmSteps
<1>3. Inv => OneDaemon
  <2> SUFFICES ASSUME Quiet PROVE Cardinality({d \in Daemons : Alive(d)}) <= 1
    BY DEF OneDaemon
  <2> QED BY OneOrNone DEF Quiet, Accounted
<1> QED BY <1>1, <1>2, <1>3, PTL DEF Spec

-----------------------------------------------------------------------------
(* What the files say of the daemon, as long as nothing fails and no two     *)
(* actors were ever at work at once.                                         *)

ConnectedPCs == ConnectPCs \ {"dial"}

(* The socket at the path is that of the daemon that accepts; a daemon that  *)
(* has removed the state file finds none after it.                           *)
SocketOwn ==
  \A d \in Daemons :
    /\ daemon[d].pc \in {"boot", "serving"} => socket = d
    /\ daemon[d].pc = "bind" => socket = 0
    /\ daemon[d].pc \in {"rmSocket", "rmBaseline"} => record.d = 0

(* What a process holds, or is connected to, is alive. *)
HeldFor(p) ==
  /\ proc[p].pc \in {"probe", "ready", "record"} => Alive(proc[p].held.d)
  /\ At(p, "writeBack") /\ proc[p].held.d # 0 => Alive(proc[p].held.d)
  /\ proc[p].pc \in {"launch", "ready", "record", "rmSocket", "rmBaseline"} => record.d = 0
  /\ proc[p].pc \in ConnectedPCs => conn[p] # 0 /\ daemon[conn[p]].pc \in {"boot", "serving"}

RecordLives == record.d # 0 => Alive(record.d) \/ \E p \in Procs : At(p, "rmState")

Recorded == SocketOwn /\ (\A p \in Procs : HeldFor(p)) /\ RecordLives

RecordedFor(p) ==
  SocketOwn /\ HeldFor(p) /\ (record.d # 0 => Alive(record.d) \/ At(p, "rmState"))

LEMMA RecordedIsForOne ==
  ASSUME NEW p \in Procs, \A q \in Procs \ {p} : At(q, "idle"), Recorded
  PROVE  RecordedFor(p)
BY DEF Recorded, RecordedFor, RecordLives, At

LEMMA RecordedIsForOneNext ==
  ASSUME NEW p \in Procs, \A q \in Procs \ {p} : At(q, "idle")', RecordedFor(p)'
  PROVE  Recorded'
<1>1. \A q \in Procs \ {p} : HeldFor(q)'
  BY DEF HeldFor, At, ConnectedPCs, ConnectPCs
<1>2. \A q \in Procs : HeldFor(q)'
  BY <1>1 DEF RecordedFor
<1> QED BY <1>2 DEF Recorded, RecordedFor, RecordLives

(* A step of p that leaves the daemons where they are. *)
LEMMA DaemonsStay ==
  ASSUME NEW p \in Procs, QuietFor(p), Working(p), SocketOwn, UNCHANGED socket,
         \A d \in Daemons : daemon'[d].pc = daemon[d].pc, UNCHANGED record \/ ~At(p, "kill")
  PROVE  SocketOwn'
<1> SUFFICES ASSUME NEW d \in Daemons
             PROVE  /\ daemon[d].pc \in {"boot", "serving"} => socket = d
                    /\ daemon[d].pc = "bind" => socket = 0
                    /\ daemon[d].pc \in {"rmSocket", "rmBaseline"} => record'.d = 0
  BY DEF SocketOwn
<1>1. daemon[d].pc \in {"rmSocket", "rmBaseline"} => At(p, "kill")
  BY DEF QuietFor, Alive, Leaving, Daemons
<1> QED BY <1>1 DEF SocketOwn

(* A step of p after which no daemon lives. *)
LEMMA NoneLives ==
  ASSUME \A d \in Daemons : ~Alive(d)', 0 \notin Daemons
  PROVE  SocketOwn'
BY DEF SocketOwn, Alive

LEMMA EnsureRecorded ==
  ASSUME TypeInv, NEW p \in Procs, QuietFor(p), RecordedFor(p), Ensure(p), Working(p)
  PROVE  RecordedFor(p)'
<1>0. /\ proc[p] \in Proc /\ record \in Record /\ daemon \in [Daemons -> Daemon]
      /\ proc \in [Procs -> Proc] /\ 0 \notin Daemons
      /\ record.d \in {0} \cup Daemons /\ proc[p].held.d \in {0} \cup Daemons
  BY InRange DEF TypeInv, TypeOK, Daemons
<1> USE DEF RecordedFor, HeldFor, At, ConnectedPCs, ConnectPCs
<1>2. ASSUME EnsureReads(p) PROVE RecordedFor(p)'
  <2>0. proc[p].pc = "ensure" /\ UNCHANGED <<daemon, record, socket>>
    BY <1>2 DEF EnsureReads, daemonVars, fileVars
  <2>1. SocketOwn'
    BY <2>0, DaemonsStay
  <2>2. CASE record.d = 0
    <3>1. proc'[p].pc = "launch"
      <4>1. Moves(p, "launch")
        BY <1>2, <2>2 DEF EnsureReads
      <4> QED BY <1>0, <4>1 DEF Moves, Idle
    <3> QED BY <1>0, <2>0, <2>1, <2>2, <3>1
  <2>3. CASE record.d # 0
    <3>1. /\ proc'[p].held = record
          /\ \/ proc'[p].pc \in {"shutdown", "probe"}
             \/ proc'[p].pc = "rmState"
      BY <1>0, <1>2, <2>3 DEF EnsureReads, Proc
    <3>2. Alive(record.d)
      BY <2>0, <2>3
    <3> QED BY <1>0, <2>0, <2>1, <3>1, <3>2 DEF Alive
  <2> QED BY <2>2, <2>3
<1>3. ASSUME EnsureProbes(p) PROVE RecordedFor(p)'
  <2>1. UNCHANGED <<daemon, conn, socket>> /\ proc[p].pc = "probe" /\ Alive(proc[p].held.d)
    BY <1>3 DEF EnsureProbes, daemonVars
  <2>2. SocketOwn'
    BY <2>1, DaemonsStay
  <2>3. CASE Accepting(socket)
    <3>1. Moves(p, "dial") /\ record' = proc[p].held
      BY <1>3, <2>3 DEF EnsureProbes
    <3>2. proc'[p].pc = "dial"
      BY <1>0, <3>1 DEF Moves, Idle
    <3> QED BY <1>0, <2>1, <2>2, <3>1, <3>2 DEF Alive
  <2>4. CASE ~Accepting(socket)
    <3>1. proc' = [proc EXCEPT ![p].pc = "shutdown"] /\ UNCHANGED record
      BY <1>3, <2>4 DEF EnsureProbes, Goes
    <3>2. proc'[p].pc = "shutdown"
      BY <1>0, <3>1 DEF Proc
    <3> QED BY <1>0, <2>1, <2>2, <3>1, <3>2 DEF Alive
  <2> QED BY <2>3, <2>4
<1>4. ASSUME Launches(p) PROVE RecordedFor(p)'
  <2>0. /\ proc[p].pc = "launch" /\ UNCHANGED <<record, socket>> /\ record.d = 0
        /\ \A d \in Daemons : ~Alive(d)
    BY <1>0, <1>4 DEF Launches, fileVars, QuietFor, Knows, Working, HoldingPCs
  <2>1. CASE Ends(p) /\ UNCHANGED daemon
    <3>1. SocketOwn'
      BY <1>0, <2>0, <2>1, NoneLives DEF Alive
    <3> QED BY <1>0, <2>0, <2>1, <3>1 DEF Ends, Idle
  <2>2. ASSUME NEW d \in Daemons, DaemonGoes(d, "new"),
               proc' = [proc EXCEPT ![p].pc = "ready", ![p].held.d = d]
        PROVE  RecordedFor(p)'
    <3>1. proc'[p].pc = "ready" /\ proc'[p].held.d = d
      BY <1>0, <2>2 DEF Proc, Record
    <3>2. daemon'[d].pc = "new" /\ \A e \in Daemons \ {d} : daemon'[e].pc \in {"unborn", "gone"}
      BY <1>0, <2>0, <2>2, DaemonGoesTo DEF Alive
    <3>3. SocketOwn' /\ Alive(d)'
      BY <1>0, <3>2 DEF SocketOwn, Alive
    <3> QED BY <1>0, <2>0, <3>1, <3>3 DEF Alive
  <2> QED BY <1>4, <2>1, <2>2 DEF Launches
<1>5. ASSUME AwaitsReady(p) PROVE RecordedFor(p)'
  <2> DEFINE child == proc[p].held.d
  <2>0. /\ proc[p].pc = "ready" /\ UNCHANGED <<record, socket>> /\ Alive(child) /\ child \in Daemons
        /\ \A d \in Daemons : Alive(d) => d = child
    BY <1>0, <1>5 DEF AwaitsReady, fileVars, QuietFor, Knows, Working, HoldingPCs, Alive
  <2>1. CASE Ends(p) /\ DaemonGoes(child, "gone")
    <3>1. \A d \in Daemons : ~Alive(d)'
      BY <1>0, <2>0, <2>1, DaemonGoesTo DEF Alive
    <3>2. SocketOwn' /\ proc'[p].pc = "idle"
      BY <1>0, <2>1, <3>1, NoneLives DEF Ends, Idle
    <3> QED BY <1>0, <2>0, <3>2
  <2>2. CASE Goes(p, "record") /\ UNCHANGED <<conn, daemon>>
    <3>1. proc'[p].pc = "record" /\ proc'[p].held = proc[p].held
      BY <1>0, <2>2 DEF Goes, Proc
    <3>2. SocketOwn'
      BY <2>0, <2>2, DaemonsStay
    <3> QED BY <1>0, <2>0, <2>2, <3>1, <3>2 DEF Alive
  <2> QED BY <1>5, <2>0, <2>1, <2>2 DEF AwaitsReady
<1>6. ASSUME Records(p) PROVE RecordedFor(p)'
  <2>1. /\ UNCHANGED <<daemon, conn, socket>> /\ proc[p].pc = "record" /\ proc'[p].pc = "dial"
        /\ record' = proc[p].held /\ Alive(proc[p].held.d)
    BY <1>0, <1>6 DEF Records, daemonVars, Moves, Idle
  <2>2. SocketOwn'
    BY <2>1, DaemonsStay
  <2> QED BY <1>0, <2>1, <2>2 DEF Alive
<1> QED BY <1>2, <1>3, <1>4, <1>5, <1>6 DEF Ensure

LEMMA StopRecorded ==
  ASSUME TypeInv, NEW p \in Procs, QuietFor(p), RecordedFor(p), Stop(p) \/ Cleans(p), Working(p)
  PROVE  RecordedFor(p)'
<1>0. /\ proc[p] \in Proc /\ record \in Record /\ daemon \in [Daemons -> Daemon]
      /\ proc \in [Procs -> Proc] /\ 0 \notin Daemons
      /\ record.d \in {0} \cup Daemons /\ proc[p].held.d \in {0} \cup Daemons /\ socket \in {0} \cup Daemons
  BY InRange DEF TypeInv, TypeOK, Daemons
<1> USE DEF RecordedFor, HeldFor, At, ConnectedPCs, ConnectPCs
<1>2. ASSUME StopReads(p) PROVE RecordedFor(p)'
  <2>1. proc[p].pc = "stop" /\ UNCHANGED <<daemon, record, socket>>
    BY <1>2 DEF StopReads, daemonVars, fileVars
  <2>2. SocketOwn'
    BY <2>1, DaemonsStay
  <2>3. CASE record.d = 0
    <3>1. Moves(p, proc[p].next)
      BY <1>2, <2>3 DEF StopReads
    <3>2. proc'[p].pc \in {"ensure", "launch", "idle"}
      BY <1>0, <3>1 DEF Moves, Idle, Proc
    <3> QED BY <1>0, <2>1, <2>2, <2>3, <3>2
  <2>4. CASE record.d # 0
    <3>1. proc'[p].pc = "shutdown"
      BY <1>0, <1>2, <2>4 DEF StopReads, Proc
    <3> QED BY <1>0, <2>1, <2>2, <2>4, <3>1 DEF Alive
  <2> QED BY <2>3, <2>4
<1>3. ASSUME ShutsDown(p) PROVE RecordedFor(p)'
  <2>1. proc[p].pc = "shutdown" /\ proc'[p].pc = "kill" /\ UNCHANGED <<record, socket>>
    BY <1>0, <1>3 DEF ShutsDown, Goes, Proc, fileVars
  <2>2. \A d \in Daemons : \/ daemon'[d].pc = daemon[d].pc
                           \/ daemon'[d].pc = "stopping" /\ Alive(d)
    <3>1. CASE UNCHANGED daemon
      BY <3>1
    <3>2. CASE socket # 0 /\ daemon[socket].pc = "serving" /\ DaemonGoes(socket, "stopping")
      BY <1>0, <3>2, DaemonGoesTo DEF Alive
    <3> QED BY <1>3, <3>1, <3>2 DEF ShutsDown
  <2>3. SocketOwn'
    BY <2>1, <2>2 DEF SocketOwn
  <2>4. record'.d # 0 => Alive(record'.d) /\ daemon'[record.d].pc \notin {"unborn", "gone"}
    BY <1>0, <2>1, <2>2 DEF Alive
  <2> QED BY <1>0, <2>1, <2>3, <2>4 DEF Alive
<1>4. ASSUME Kills(p) PROVE RecordedFor(p)'
  <2> DEFINE x == proc[p].held.d
  <2>1. proc[p].pc = "kill" /\ proc'[p].pc = "rmState"
    BY <1>0, <1>4 DEF Kills, Proc
  <2>2. \A d \in Daemons : Alive(d) => d = x
    BY <1>0, <2>1 DEF QuietFor, Knows, Working, HoldingPCs
  <2>3. \A d \in Daemons : ~Alive(d)'
    <3>1. CASE Alive(x)
      <4>1. x \in Daemons /\ DaemonGoes(x, "gone")
        BY <1>0, <1>4, <3>1 DEF Kills, Alive
      <4> QED BY <1>0, <2>2, <4>1, DaemonGoesTo DEF Alive
    <3>2. CASE ~Alive(x)
      BY <1>4, <2>2, <3>2 DEF Kills, Alive
    <3> QED BY <3>1, <3>2
  <2> QED BY <1>0, <2>1, <2>3, NoneLives
<1>5. ASSUME Removes(p) PROVE RecordedFor(p)'
  <2>1. UNCHANGED daemon /\ proc[p].pc \in RemovePCs /\ \A d \in Daemons : ~Alive(d)
    BY <1>0, <1>5 DEF Removes, daemonVars, QuietFor, Knows, Working, HoldingPCs, RemovePCs
  <2>2. SocketOwn'
    BY <1>0, <2>1, NoneLives DEF Alive
  <2>3. record'.d = 0 /\ proc'[p].pc \in {"rmSocket", "rmBaseline", "ensure", "launch", "idle"}
    <3>1. CASE RemovesState /\ Goes(p, "rmSocket")
      BY <1>0, <3>1 DEF RemovesState, Goes, Proc, NoRecord
    <3>2. CASE proc[p].pc = "rmSocket" /\ RemovesSocket /\ Goes(p, "rmBaseline")
      BY <1>0, <3>2 DEF RemovesSocket, Goes, Proc
    <3>3. CASE proc[p].pc = "rmBaseline" /\ RemovesBaseline /\ Moves(p, proc[p].next)
      BY <1>0, <3>3 DEF RemovesBaseline, Moves, Idle, Proc
    <3> QED BY <1>5, <3>1, <3>2, <3>3 DEF Removes
  <2> QED BY <2>2, <2>3
<1>6. ASSUME Cleans(p) PROVE RecordedFor(p)'
  <2>1. /\ UNCHANGED <<daemon, record, socket>> /\ proc[p].pc \in {"cleanBase", "cleanReads"}
    BY <1>6 DEF Cleans, daemonVars, RemovesBaseline, fileVars
  <2>2. SocketOwn'
    BY <2>1, DaemonsStay
  <2>3. proc'[p].pc \in {"cleanReads", "idle", "rmState"}
    BY <1>0, <1>6 DEF Cleans, Goes, Idle, Proc
  <2>4. record'.d # 0 => Alive(record'.d) /\ Alive(record.d)'
    BY <2>1 DEF Alive
  <2> QED BY <2>1, <2>2, <2>3, <2>4 DEF Alive
<1> QED BY <1>2, <1>3, <1>4, <1>5, <1>6 DEF Stop

LEMMA ConnectRecorded ==
  ASSUME TypeInv, NEW p \in Procs, QuietFor(p), RecordedFor(p), Connect(p), Working(p)
  PROVE  RecordedFor(p)'
<1>0. /\ proc[p] \in Proc /\ record \in Record /\ daemon \in [Daemons -> Daemon]
      /\ proc \in [Procs -> Proc] /\ conn \in [Procs -> 0 .. MaxDaemons] /\ 0 \notin Daemons
      /\ record.d \in {0} \cup Daemons /\ proc[p].held.d \in {0} \cup Daemons /\ socket \in {0} \cup Daemons
      /\ conn[p] \in {0} \cup Daemons
  BY InRange DEF TypeInv, TypeOK, Daemons
<1> USE DEF RecordedFor, HeldFor, At, ConnectedPCs, ConnectPCs
(* p leaves daemons and files as they were. *)
<1>1. ASSUME UNCHANGED <<daemon, record, socket>>, proc[p].pc \in ConnectPCs,
             \/ proc'[p].pc \in {"idle", "stop"}
             \/ /\ proc'[p].pc \in {"detect", "writeBase", "initialize"}
                /\ conn'[p] # 0 /\ daemon[conn'[p]].pc \in {"boot", "serving"}
             \/ proc'[p].pc = "writeBack" /\ proc'[p].held = record /\ UNCHANGED conn /\ proc[p].pc \in ConnectedPCs
      PROVE  RecordedFor(p)'
  <2>1. SocketOwn'
    BY <1>1, DaemonsStay
  <2>2. record.d # 0 => Alive(record.d) /\ Alive(record.d)'
    BY <1>1 DEF Alive
  <2> QED BY <1>0, <1>1, <2>1, <2>2 DEF Alive
<1>2. ConnectFails(p) => proc'[p].pc \in {"idle", "stop"}
  BY <1>0 DEF ConnectFails, Idle
<1>3. Ends(p) => proc'[p].pc = "idle"
  BY <1>0 DEF Ends, Idle
<1>4. ASSUME Dials(p) PROVE RecordedFor(p)'
  <2>1. UNCHANGED <<daemon, record, socket>> /\ proc[p].pc = "dial"
    BY <1>4 DEF Dials, daemonVars, fileVars
  <2>2. CASE ~Accepting(socket)
    BY <1>1, <1>2, <1>4, <2>1, <2>2 DEF Dials
  <2>3. CASE Accepting(socket)
    <3>1. Goes(p, "detect") /\ conn' = [conn EXCEPT ![p] = socket]
      BY <1>4, <2>3 DEF Dials
    <3>2. proc'[p].pc = "detect" /\ conn'[p] = socket
      BY <1>0, <3>1 DEF Goes, Proc
    <3>3. socket # 0 /\ daemon[socket].pc \in {"boot", "serving"}
      BY <1>0, <2>1, <2>3 DEF Accepting, QuietFor, Alive, Leaving
    <3> QED BY <1>1, <2>1, <3>2, <3>3
  <2> QED BY <2>2, <2>3
<1>5. ASSUME Detects(p) \/ Finishes(p) PROVE RecordedFor(p)'
  <2>1. UNCHANGED <<daemon, record, socket>> /\ proc[p].pc \in ConnectedPCs
    BY <1>5 DEF Detects, Finishes, daemonVars, fileVars
  <2>2. CASE Ends(p)
    BY <1>1, <1>3, <2>1, <2>2
  <2>3. CASE ~Ends(p)
    <3>1. UNCHANGED conn /\ proc'[p].pc = "writeBase"
      BY <1>0, <1>5, <2>3 DEF Detects, Finishes, Proc
    <3> QED BY <1>1, <2>1, <3>1
  <2> QED BY <2>2, <2>3
<1>6. ASSUME WritesBaseline(p) PROVE RecordedFor(p)'
  <2>1. /\ UNCHANGED <<daemon, record, socket, conn>> /\ proc[p].pc = "writeBase"
        /\ proc'[p].pc = "writeBack" /\ proc'[p].held = record
    BY <1>0, <1>6 DEF WritesBaseline, daemonVars, Proc
  <2> QED BY <1>1, <2>1
<1>7. ASSUME WritesBack(p) PROVE RecordedFor(p)'
  <2>1. /\ UNCHANGED <<daemon, conn, socket>> /\ proc[p].pc = "writeBack" /\ proc'[p].pc = "initialize"
    BY <1>0, <1>7 DEF WritesBack, daemonVars, Proc
  <2>2. proc[p].held \in Record
    BY <1>0 DEF Proc
  <2>3. SocketOwn'
    BY <2>1, DaemonsStay
  <2>4. record'.d # 0 => Alive(record'.d)
    BY <1>0, <1>7, <2>1, <2>2 DEF WritesBack, Record
  <2> QED BY <2>1, <2>3, <2>4 DEF Alive
<1>8. ASSUME Initializes(p) PROVE RecordedFor(p)'
  <2>1. daemon' = daemon \/ daemon' = [daemon EXCEPT ![conn[p]].told = IF Suppresses(p) THEN "skip" ELSE "import",
                                                     ![conn[p]].of = proc[p].now]
    BY <1>8 DEF Initializes, Forwarded, daemonVars
  <2>2. \A d \in Daemons : daemon'[d].pc = daemon[d].pc
    BY <1>0, <2>1 DEF Daemon
  <2>3. UNCHANGED <<record, socket>> /\ proc[p].pc = "initialize"
    BY <1>8 DEF Initializes, fileVars
  <2>4. SocketOwn'
    BY <2>2, <2>3, DaemonsStay
  <2>5. \/ proc'[p].pc = "idle"
        \/ proc'[p].pc = "use" /\ UNCHANGED conn
    BY <1>0, <1>8 DEF Initializes, Ends, Idle
  <2>6. record'.d # 0 => Alive(record.d)'
    BY <1>0, <2>2, <2>3 DEF Alive
  <2> QED BY <1>0, <2>2, <2>3, <2>4, <2>5, <2>6
<1>9. ~InitializeFails(p)
  BY DEF InitializeFails
<1> QED BY <1>4, <1>5, <1>6, <1>7, <1>8, <1>9 DEF Connect

LEMMA BeginsRecorded ==
  ASSUME TypeInv, NEW p \in Procs, Quiet, Recorded, Begins(p), ~disturbed'
  PROVE  Recorded'
<1>0. proc \in [Procs -> Proc]
  BY DEF TypeInv, TypeOK
<1>1. /\ AtRest /\ UNCHANGED <<daemon, record, socket>>
      /\ \A q \in Procs \ {p} : proc'[q] = proc[q]
      /\ proc'[p].pc \in {"ensure", "stop", "cleanBase"}
  <2>1. \A q \in Procs \ {p} : proc'[q] = proc[q]
    BY <1>0 DEF Begins
  <2>2. proc'[p].pc \in {"ensure", "stop", "cleanBase"}
    BY <1>0 DEF Begins, Proc
  <2> QED BY <2>1, <2>2 DEF Begins, daemonVars, fileVars
<1>2. record.d # 0 => Alive(record.d)
  BY <1>1 DEF Recorded, RecordLives, AtRest, At
<1>3. RecordedFor(p)'
  BY <1>1, <1>2 DEF Recorded, RecordedFor, SocketOwn, HeldFor, Alive, At, ConnectedPCs, ConnectPCs
<1> QED BY <1>1, <1>3, RecordedIsForOneNext DEF AtRest, At

LEMMA DaemonRecorded ==
  ASSUME TypeInv, NEW d \in Daemons, Quiet, Recorded, DaemonSteps(d) \/ DaemonTouches(d), ~disturbed'
  PROVE  Recorded'
<1>0. /\ daemon \in [Daemons -> Daemon] /\ record \in Record /\ 0 \notin Daemons
      /\ record.d \in {0} \cup Daemons /\ socket \in {0} \cup Daemons
      /\ \A p \in Procs : proc[p].held.d \in {0} \cup Daemons /\ conn[p] \in {0} \cup Daemons
  BY InRange DEF TypeInv, TypeOK, Daemons
<1>1. UNCHANGED <<proc, conn>>
  BY DEF DaemonSteps, DaemonTouches, DaemonProbes, DaemonUnlinks, DaemonBinds, DaemonBoots, DaemonTouched,
    DaemonIdles, DaemonCloses, DaemonRemoves
<1>2. \A e \in Daemons : Alive(d) /\ Alive(e) => e = d
  BY DEF Quiet, Accounted
<1> USE DEF Recorded, SocketOwn, HeldFor, RecordLives, At, Alive, ConnectedPCs, ConnectPCs
(* It lives on, and is connected to as it was. *)
<1>3. ASSUME NEW pc, DaemonGoes(d, pc), Alive(d), pc \notin {"unborn", "gone"}, UNCHANGED record,
             daemon[d].pc \in {"boot", "serving"} => \/ pc = "serving"
                                                    \/ \A p \in Procs : At(p, "idle")
      PROVE  (\A p \in Procs : HeldFor(p)') /\ RecordLives'
  <2>1. \A e \in Daemons : /\ daemon[e].pc \notin {"unborn", "gone"} => daemon'[e].pc \notin {"unborn", "gone"}
                           /\ e # d => daemon'[e] = daemon[e]
                           /\ daemon'[d].pc = pc
    BY <1>0, <1>3, DaemonGoesTo
  <2>2. ASSUME NEW p \in Procs PROVE HeldFor(p)'
    <3>1. CASE proc[p].pc \in ConnectedPCs
      BY <1>0, <1>1, <1>3, <2>1, <3>1
    <3>2. CASE proc[p].pc \notin ConnectedPCs
      BY <1>0, <1>1, <1>3, <2>1, <3>2
    <3> QED BY <3>1, <3>2
  <2>3. RecordLives'
    BY <1>0, <1>1, <1>3, <2>1
  <2> QED BY <2>2, <2>3
<1>4. ASSUME DaemonProbes(d) PROVE Recorded'
  <2>1. ~Accepting(socket)
    BY <1>0, <1>2, <1>4 DEF DaemonProbes, Accepting
  <2>2. PICK pc \in {"bind", "unlink"} : DaemonGoes(d, pc) /\ (pc = "bind" => socket = 0)
    BY <1>4, <2>1 DEF DaemonProbes
  <2>3. daemon[d].pc = "new" /\ UNCHANGED <<record, socket>>
    BY <1>4 DEF DaemonProbes, fileVars
  <2>4. SocketOwn'
    BY <1>0, <2>2, <2>3, DaemonGoesTo
  <2> QED BY <1>0, <1>3, <2>2, <2>3, <2>4
<1>5. ASSUME DaemonUnlinks(d) PROVE Recorded'
  <2>1. /\ daemon[d].pc = "unlink" /\ DaemonGoes(d, "bind") /\ UNCHANGED record /\ socket' = 0
    BY <1>5 DEF DaemonUnlinks, RemovesSocket
  <2>2. SocketOwn'
    BY <1>0, <1>2, <2>1, DaemonGoesTo
  <2> QED BY <1>0, <1>3, <2>1, <2>2
<1>6. ASSUME DaemonBinds(d) PROVE Recorded'
  <2>1. /\ daemon[d].pc = "bind" /\ DaemonGoes(d, "boot") /\ UNCHANGED record /\ socket' = d
    BY <1>6 DEF DaemonBinds
  <2>2. SocketOwn'
    BY <1>0, <1>2, <2>1, DaemonGoesTo
  <2> QED BY <1>0, <1>3, <2>1, <2>2
<1>7. ASSUME DaemonBoots(d) PROVE Recorded'
  <2>1. /\ daemon[d].pc = "boot" /\ DaemonGoes(d, "serving") /\ UNCHANGED <<record, socket>>
    BY <1>7 DEF DaemonBoots, fileVars
  <2>2. SocketOwn'
    BY <1>0, <2>1, DaemonGoesTo
  <2> QED BY <1>0, <1>3, <2>1, <2>2
<1>8. ASSUME DaemonIdles(d) PROVE Recorded'
  <2>1. /\ daemon[d].pc = "serving" /\ DaemonGoes(d, "stopping") /\ UNCHANGED <<record, socket>> /\ AtRest
    BY <1>8 DEF DaemonIdles, fileVars
  <2>2. SocketOwn'
    BY <1>0, <2>1, DaemonGoesTo
  <2> QED BY <1>0, <1>3, <2>1, <2>2 DEF AtRest
<1>9. ASSUME DaemonCloses(d) PROVE Recorded'
  <2>1. /\ daemon[d].pc = "stopping" /\ DaemonGoes(d, "rmState") /\ UNCHANGED record /\ socket' = 0
    BY <1>9 DEF DaemonCloses, RemovesSocket
  <2>2. SocketOwn'
    BY <1>0, <1>2, <2>1, DaemonGoesTo
  <2> QED BY <1>0, <1>3, <2>1, <2>2
<1>10. ASSUME DaemonRemoves(d) PROVE Recorded'
  <2>1. daemon[d].pc \in RemovePCs /\ \A p \in Procs : proc[p].pc \in {"idle", "kill"}
    <3>1. daemon[d].pc \in RemovePCs
      BY <1>10 DEF DaemonRemoves, RemovePCs
    <3> QED BY <1>0, <3>1 DEF RemovePCs, Quiet, Accounted, Leaving, Working
  <2>2. \A p \in Procs : HeldFor(p)'
    BY <1>1, <2>1
  <2>3. record'.d = 0
    BY <1>10 DEF DaemonRemoves, RemovesState, RemovesSocket, RemovesBaseline, NoRecord
  <2>4. \A e \in Daemons : daemon'[e].pc \in {"unborn", "gone", "rmSocket", "rmBaseline"}
    BY <1>0, <1>2, <1>10, <2>1, DaemonGoesTo DEF DaemonRemoves, RemovePCs
  <2> QED BY <2>2, <2>3, <2>4
<1>11. ASSUME DaemonTouched(d) \/ DaemonTouches(d) PROVE Recorded'
  <2>1. UNCHANGED socket /\ \A e \in Daemons : daemon'[e].pc = daemon[e].pc
    BY <1>0, <1>11 DEF DaemonTouched, DaemonTouches, Daemon, fileVars
  <2>2. CASE DaemonTouches(d)
    <3>1. UNCHANGED record
      BY <2>2 DEF DaemonTouches, fileVars
    <3>2. SocketOwn' /\ RecordLives'
      BY <1>0, <1>1, <2>1, <3>1
    <3>3. \A p \in Procs : HeldFor(p)'
      BY <1>0, <1>1, <2>1, <3>1
    <3> QED BY <3>2, <3>3
  <2>3. CASE DaemonTouched(d)
    <3>1. /\ record'.d = d /\ daemon[d].pc = "serving"
          /\ \A p \in Procs : proc[p].pc \in ConnectedPCs \cup {"idle"}
      BY <2>3 DEF DaemonTouched, Quiet, TouchesOwn, Working
    <3>2. SocketOwn' /\ RecordLives'
      BY <1>0, <1>1, <1>2, <2>1, <3>1
    <3>3. \A p \in Procs : HeldFor(p)'
      BY <1>0, <1>1, <2>1, <3>1
    <3> QED BY <3>2, <3>3
  <2> QED BY <1>11, <2>2, <2>3
<1> QED BY <1>4, <1>5, <1>6, <1>7, <1>8, <1>9, <1>10, <1>11 DEF DaemonSteps

LEMMA NextRecorded ==
  ASSUME TypeInv, Quiet, Recorded, [Next]_vars, ~disturbed'
  PROVE  Recorded'
<1>1. ASSUME NEW p \in Procs, ProcSteps(p) PROVE Recorded'
  <2>1. (\A q \in Procs \ {p} : proc'[q] = proc[q]) /\ Working(p)
    BY <1>1, OthersStay
  <2>2. \A q \in Procs \ {p} : At(q, "idle")
    BY <2>1 DEF Quiet, OneWorks, Working
  <2>3. QuietFor(p) /\ RecordedFor(p)
    BY <2>2, QuietIsForOne, RecordedIsForOne
  <2>4. RecordedFor(p)'
    BY <1>1, <2>1, <2>3, EnsureRecorded, StopRecorded, ConnectRecorded DEF ProcSteps
  <2>5. \A q \in Procs \ {p} : At(q, "idle")'
    BY <2>1, <2>2 DEF At
  <2> QED BY <2>4, <2>5, RecordedIsForOneNext
<1>2. ASSUME UNCHANGED <<proc, conn, daemon, record, socket>> PROVE Recorded'
  BY <1>2 DEF Recorded, SocketOwn, HeldFor, RecordLives, At, Alive
<1> QED BY <1>1, <1>2, CalmSteps, BeginsRecorded, DaemonRecorded

LEMMA InitRecorded == Init => Recorded
<1> SUFFICES ASSUME Init PROVE Recorded
  OBVIOUS
<1>1. record.d = 0
  BY DEF Init, NoRecord
<1>2. \A p \in Procs : proc[p].pc = "idle"
  BY DEF Init, Idle
<1>3. \A d \in Daemons : daemon[d].pc = "unborn"
  BY DEF Init, DaemonAt
<1> QED BY <1>1, <1>2, <1>3 DEF Recorded, SocketOwn, HeldFor, RecordLives, At, ConnectedPCs, ConnectPCs

(* Between commands that ran one after the other (connect, restart, cleanup) *)
(* the state file and the socket path name the living daemon, and the state  *)
(* file no dead one.                                                         *)
THEOREM FilesNameTheDaemon == Spec => []RecordMatchesDaemon
<1> DEFINE Inv == TypeInv /\ (~disturbed => Quiet /\ Recorded)
<1>1. Init => Inv
  BY InitTypeInv, InitQuiet, InitRecorded
<1>2. Inv /\ [Next]_vars => Inv'
  BY NextTypeInv, NextQuiet, NextRecorded, CalmSteps
<1>3. Inv => RecordMatchesDaemon
  <2> SUFFICES ASSUME Quiet, Recorded, AtRest
               PROVE  /\ \A d \in Daemons : Alive(d) => record.d = d /\ socket = d
                      /\ record.d # 0 => Alive(record.d)
    BY DEF RecordMatchesDaemon
  <2>1. \A p \in Procs : At(p, "idle") /\ ~At(p, "rmState")
    BY DEF AtRest, At
  <2>2. \A d \in Daemons : Alive(d) => daemon[d].pc = "serving"
    BY DEF AtRest, Alive
  <2>3. \A d \in Daemons : Alive(d) => record.d = d
    BY <2>1, <2>2 DEF Quiet, Accounted, Leaving
  <2>4. \A d \in Daemons : Alive(d) => socket = d
    BY <2>2 DEF Recorded, SocketOwn
  <2> QED BY <2>1, <2>3, <2>4 DEF Recorded, RecordLives
<1> QED BY <1>1, <1>2, <1>3, PTL DEF Spec

-----------------------------------------------------------------------------
(* Why no server starts with its Gradle import switched off, as long as      *)
(* nothing fails and no two actors were ever at work at once: a baseline is  *)
(* there only with the daemon whose start it tells of.                       *)

Told(d) == daemon[d].told # "nothing"
ToldLives == \E d \in Daemons : Alive(d) /\ Told(d)

(* Where a process has a baseline of no living daemon: it writes it, or is   *)
(* about to remove it.                                                       *)
OwningPCs == {"writeBack", "initialize"} \cup RemovePCs
LaunchPCs == {"launch", "ready", "record"}

BasesTold ==
  /\ \A d \in Daemons : daemon[d].told # "skip" /\ (daemon[d].touch.base # 0 => Told(d))
  /\ record.d = 0 => record.base = 0
BaseFor(p) ==
  /\ proc[p].pc \in WritingPCs => proc[p].prev = 0 \/ Told(conn[p])
  /\ At(p, "probe") /\ proc[p].held.base # 0 => ToldLives
  /\ proc[p].pc \in LaunchPCs => proc[p].held.base = 0 /\ baseline = 0 /\ record.base = 0
BaseOwned ==
  baseline # 0 \/ record.base # 0 => ToldLives \/ \E p \in Procs : proc[p].pc \in OwningPCs

Based == BasesTold /\ BaseOwned /\ \A p \in Procs : BaseFor(p)

BasedFor(p) ==
  /\ BasesTold /\ BaseFor(p)
  /\ baseline # 0 \/ record.base # 0 => ToldLives \/ proc[p].pc \in OwningPCs

LEMMA BasedIsForOne ==
  ASSUME NEW p \in Procs, \A q \in Procs \ {p} : At(q, "idle"), Based
  PROVE  BasedFor(p)
BY DEF Based, BasedFor, BaseOwned, OwningPCs, RemovePCs, At

LEMMA BasedIsForOneNext ==
  ASSUME NEW p \in Procs, \A q \in Procs \ {p} : At(q, "idle")', BasedFor(p)'
  PROVE  Based'
<1>1. \A q \in Procs \ {p} : BaseFor(q)'
  BY DEF BaseFor, At, WritingPCs, LaunchPCs
<1>2. \A q \in Procs : BaseFor(q)'
  BY <1>1 DEF BasedFor
<1> QED BY <1>2 DEF Based, BasedFor, BaseOwned

(* A daemon that goes on keeps what its server was told, and what it read. *)
LEMMA DaemonGoesTold ==
  ASSUME daemon \in [Daemons -> Daemon], NEW x \in Daemons, NEW pc, DaemonGoes(x, pc)
  PROVE  /\ pc # "gone" => daemon'[x].told = daemon[x].told
         /\ pc = "gone" => daemon'[x].told = "nothing" /\ daemon'[x].touch.base = 0
<1>1. daemon'[x] = IF pc = "gone" THEN DaemonAt("gone") ELSE [daemon[x] EXCEPT !.pc = pc]
  BY DEF DaemonGoes
<1>2. daemon[x] \in Daemon
  OBVIOUS
<1> QED BY <1>1, <1>2 DEF DaemonAt, Daemon, NoRecord

LEMMA BasesToldStay ==
  ASSUME daemon \in [Daemons -> Daemon], BasesTold, UNCHANGED record,
         NEW x \in Daemons, NEW pc, UNCHANGED daemon \/ DaemonGoes(x, pc)
  PROVE  BasesTold'
<1>1. CASE UNCHANGED daemon
  BY <1>1 DEF BasesTold, Told
<1>2. CASE DaemonGoes(x, pc)
  BY <1>2, DaemonGoesTo, DaemonGoesTold DEF BasesTold, Told
<1> QED BY <1>1, <1>2

LEMMA EnsureBased ==
  ASSUME TypeInv, NEW p \in Procs, QuietFor(p), RecordedFor(p), BasedFor(p), Ensure(p), Working(p)
  PROVE  BasedFor(p)'
<1>0. /\ proc[p] \in Proc /\ record \in Record /\ daemon \in [Daemons -> Daemon]
      /\ proc \in [Procs -> Proc] /\ 0 \notin Daemons
      /\ record.d \in {0} \cup Daemons /\ proc[p].held.d \in {0} \cup Daemons
  BY InRange DEF TypeInv, TypeOK, Daemons
<1> USE DEF BasedFor, BaseFor, At, WritingPCs, LaunchPCs, OwningPCs, RemovePCs
<1>1. UNCHANGED daemon => (ToldLives <=> ToldLives')
  BY DEF ToldLives, Told, Alive
<1>2. UNCHANGED <<daemon, record>> => BasesTold'
  BY DEF BasesTold, Told
<1>3. ASSUME EnsureReads(p) PROVE BasedFor(p)'
  <2>0. proc[p].pc = "ensure" /\ UNCHANGED <<daemon, record, baseline>>
    BY <1>3 DEF EnsureReads, daemonVars, fileVars
  <2>1. BasesTold' /\ (ToldLives <=> ToldLives') /\ (baseline # 0 \/ record.base # 0 => ToldLives)
    BY <1>1, <1>2, <2>0
  <2>2. CASE record.d = 0
    <3>1. proc'[p].pc = "launch" /\ proc'[p].held.base = 0
      <4>1. Moves(p, "launch")
        BY <1>3, <2>2 DEF EnsureReads
      <4> QED BY <1>0, <4>1 DEF Moves, Idle, NoRecord
    <3>2. ~ToldLives
      BY <1>0, <2>0, <2>2 DEF ToldLives, QuietFor, Knows, Working, HoldingPCs
    <3> QED BY <2>0, <2>1, <3>1, <3>2
  <2>3. CASE record.d # 0
    <3>1. /\ proc'[p].held = record
          /\ \/ proc'[p].pc \in {"shutdown", "probe"}
             \/ proc'[p].pc = "rmState"
      BY <1>0, <1>3, <2>3 DEF EnsureReads, Proc
    <3> QED BY <2>0, <2>1, <3>1
  <2> QED BY <2>2, <2>3
<1>4. ASSUME EnsureProbes(p) PROVE BasedFor(p)'
  <2>1. UNCHANGED <<daemon, baseline>> /\ proc[p].pc = "probe" /\ Alive(proc[p].held.d)
    BY <1>4 DEF EnsureProbes, daemonVars, RecordedFor, HeldFor
  <2>2. CASE Accepting(socket)
    <3>1. Moves(p, "dial") /\ record' = proc[p].held
      BY <1>4, <2>2 DEF EnsureProbes
    <3>2. proc'[p].pc = "dial" /\ record'.d # 0
      BY <1>0, <2>1, <3>1 DEF Moves, Idle, Alive
    <3>3. BasesTold'
      BY <2>1, <3>2 DEF BasesTold, Told
    <3> QED BY <1>1, <2>1, <3>1, <3>2, <3>3
  <2>3. CASE ~Accepting(socket)
    <3>1. proc' = [proc EXCEPT ![p].pc = "shutdown"] /\ UNCHANGED record
      BY <1>4, <2>3 DEF EnsureProbes, Goes
    <3>2. proc'[p].pc = "shutdown"
      BY <1>0, <3>1 DEF Proc
    <3> QED BY <1>1, <1>2, <2>1, <3>1, <3>2
  <2> QED BY <2>2, <2>3
<1>5. ASSUME Launches(p) PROVE BasedFor(p)'
  <2>0. proc[p].pc = "launch" /\ UNCHANGED <<record, baseline>>
    BY <1>5 DEF Launches, fileVars
  <2>1. CASE Ends(p) /\ UNCHANGED daemon
    <3>1. proc'[p].pc = "idle"
      BY <1>0, <2>1 DEF Ends, Idle
    <3> QED BY <1>2, <2>0, <2>1, <3>1
  <2>2. ASSUME NEW d \in Daemons, DaemonGoes(d, "new"),
               proc' = [proc EXCEPT ![p].pc = "ready", ![p].held.d = d]
        PROVE  BasedFor(p)'
    <3>1. proc'[p].pc = "ready" /\ proc'[p].held.base = proc[p].held.base
      BY <1>0, <2>2 DEF Proc, Record
    <3>2. BasesTold'
      BY <1>0, <2>0, <2>2, BasesToldStay
    <3> QED BY <2>0, <3>1, <3>2
  <2> QED BY <1>5, <2>1, <2>2 DEF Launches
<1>6. ASSUME AwaitsReady(p) PROVE BasedFor(p)'
  <2> DEFINE child == proc[p].held.d
  <2>0. proc[p].pc = "ready" /\ UNCHANGED <<record, baseline>> /\ child \in Daemons
    BY <1>0, <1>6 DEF AwaitsReady, fileVars, RecordedFor, HeldFor, Alive
  <2>1. BasesTold'
    BY <1>0, <1>6, <2>0, BasesToldStay DEF AwaitsReady
  <2>2. CASE Ends(p)
    <3>1. proc'[p].pc = "idle"
      BY <1>0, <2>2 DEF Ends, Idle
    <3> QED BY <2>0, <2>1, <3>1
  <2>3. CASE Goes(p, "record")
    <3>1. proc'[p].pc = "record" /\ proc'[p].held = proc[p].held
      BY <1>0, <2>3 DEF Goes, Proc
    <3> QED BY <2>0, <2>1, <3>1
  <2> QED BY <1>6, <2>2, <2>3 DEF AwaitsReady
<1>7. ASSUME Records(p) PROVE BasedFor(p)'
  <2>1. /\ UNCHANGED <<daemon, baseline>> /\ proc[p].pc = "record" /\ proc'[p].pc = "dial"
        /\ record' = proc[p].held
    BY <1>0, <1>7 DEF Records, daemonVars, Moves, Idle
  <2>2. BasesTold'
    BY <2>1 DEF BasesTold, Told
  <2> QED BY <2>1, <2>2
<1> QED BY <1>3, <1>4, <1>5, <1>6, <1>7 DEF Ensure

LEMMA StopBased ==
  ASSUME TypeInv, NEW p \in Procs, QuietFor(p), RecordedFor(p), BasedFor(p), Stop(p) \/ Cleans(p), Working(p)
  PROVE  BasedFor(p)'
<1>0. /\ proc[p] \in Proc /\ record \in Record /\ daemon \in [Daemons -> Daemon]
      /\ proc \in [Procs -> Proc] /\ 0 \notin Daemons
      /\ record.d \in {0} \cup Daemons /\ proc[p].held.d \in {0} \cup Daemons /\ socket \in {0} \cup Daemons
  BY InRange DEF TypeInv, TypeOK, Daemons
<1> USE DEF BasedFor, BaseFor, At, WritingPCs, LaunchPCs, OwningPCs, RemovePCs
<1>1. UNCHANGED daemon => (ToldLives <=> ToldLives')
  BY DEF ToldLives, Told, Alive
<1>2. UNCHANGED <<daemon, record>> => BasesTold'
  BY DEF BasesTold, Told
<1>3. ASSUME StopReads(p) PROVE BasedFor(p)'
  <2>1. proc[p].pc = "stop" /\ UNCHANGED <<daemon, record, baseline>>
    BY <1>3 DEF StopReads, daemonVars, fileVars
  <2>2. BasesTold' /\ (ToldLives <=> ToldLives') /\ (baseline # 0 \/ record.base # 0 => ToldLives)
    BY <1>1, <1>2, <2>1
  <2>3. CASE record.d = 0
    <3>1. Moves(p, proc[p].next)
      BY <1>3, <2>3 DEF StopReads
    <3>2. proc'[p].pc \in {"ensure", "launch", "idle"} /\ proc'[p].held.base = 0
      BY <1>0, <3>1 DEF Moves, Idle, Proc, NoRecord
    <3>3. ~ToldLives
      BY <1>0, <2>1, <2>3 DEF ToldLives, QuietFor, Knows, Working, HoldingPCs
    <3> QED BY <2>1, <2>2, <3>2, <3>3
  <2>4. CASE record.d # 0
    <3>1. proc'[p].pc = "shutdown"
      BY <1>0, <1>3, <2>4 DEF StopReads, Proc
    <3> QED BY <2>1, <2>2, <3>1
  <2> QED BY <2>3, <2>4
<1>4. ASSUME ShutsDown(p) PROVE BasedFor(p)'
  <2>1. proc[p].pc = "shutdown" /\ proc'[p].pc = "kill" /\ UNCHANGED <<record, baseline>>
    BY <1>0, <1>4 DEF ShutsDown, Goes, Proc, fileVars
  <2>2. CASE UNCHANGED daemon
    BY <1>1, <1>2, <2>1, <2>2
  <2>3. CASE socket # 0 /\ daemon[socket].pc = "serving" /\ DaemonGoes(socket, "stopping")
    <3>1. \A d \in Daemons : daemon'[d].told = daemon[d].told /\ (Alive(d) => Alive(d)')
      BY <1>0, <2>3, DaemonGoesTo, DaemonGoesTold DEF Alive
    <3>2. ToldLives => ToldLives'
      BY <3>1 DEF ToldLives, Told
    <3>3. BasesTold'
      BY <1>0, <2>1, <2>3, BasesToldStay
    <3> QED BY <2>1, <3>2, <3>3
  <2> QED BY <1>4, <2>2, <2>3 DEF ShutsDown
<1>5. ASSUME Kills(p) PROVE BasedFor(p)'
  <2>1. proc[p].pc = "kill" /\ proc'[p].pc = "rmState" /\ UNCHANGED record
    BY <1>0, <1>5 DEF Kills, Proc, fileVars
  <2>2. BasesTold'
    <3>1. CASE Alive(proc[p].held.d)
      <4>1. proc[p].held.d \in Daemons
        BY <1>0, <3>1 DEF Alive
      <4> QED BY <1>0, <1>5, <2>1, <3>1, <4>1, BasesToldStay DEF Kills
    <3>2. CASE ~Alive(proc[p].held.d)
      BY <1>2, <1>5, <2>1, <3>2 DEF Kills
    <3> QED BY <3>1, <3>2
  <2> QED BY <2>1, <2>2
<1>6. ASSUME Removes(p) PROVE BasedFor(p)'
  <2>1. UNCHANGED daemon
    BY <1>6 DEF Removes, daemonVars
  <2>2. CASE proc[p].pc = "rmState" /\ RemovesState /\ Goes(p, "rmSocket")
    <3>1. record' = NoRecord /\ proc'[p].pc = "rmSocket"
      BY <1>0, <2>2 DEF RemovesState, Goes, Proc
    <3>2. BasesTold'
      BY <2>1, <3>1 DEF BasesTold, Told, NoRecord
    <3> QED BY <3>1, <3>2
  <2>3. CASE proc[p].pc = "rmSocket" /\ RemovesSocket /\ Goes(p, "rmBaseline")
    <3>1. UNCHANGED record /\ proc'[p].pc = "rmBaseline"
      BY <1>0, <2>3 DEF RemovesSocket, Goes, Proc
    <3> QED BY <1>2, <2>1, <3>1
  <2>4. CASE proc[p].pc = "rmBaseline" /\ RemovesBaseline /\ Moves(p, proc[p].next)
    <3>1. UNCHANGED record /\ baseline' = 0 /\ record.d = 0
      BY <2>4 DEF RemovesBaseline, RecordedFor, HeldFor
    <3>2. record.base = 0
      BY <3>1 DEF BasesTold
    <3>3. proc'[p].pc \in {"ensure", "launch", "idle"} /\ proc'[p].held.base = 0
      BY <1>0, <2>4 DEF Moves, Idle, Proc, NoRecord
    <3> QED BY <1>2, <2>1, <3>1, <3>2, <3>3
  <2> QED BY <1>6, <2>2, <2>3, <2>4 DEF Removes
<1>7. ASSUME Cleans(p) PROVE BasedFor(p)'
  <2>1. /\ UNCHANGED <<daemon, record>> /\ baseline' \in {0, baseline}
        /\ proc[p].pc \in {"cleanBase", "cleanReads"}
    BY <1>7 DEF Cleans, daemonVars, RemovesBaseline, fileVars
  <2>2. proc'[p].pc \in {"cleanReads", "idle", "rmState"}
    BY <1>0, <1>7 DEF Cleans, Goes, Idle, Proc
  <2> QED BY <1>1, <1>2, <2>1, <2>2
<1> QED BY <1>3, <1>4, <1>5, <1>6, <1>7 DEF Stop

LEMMA ConnectBased ==
  ASSUME TypeInv, NEW p \in Procs, QuietFor(p), RecordedFor(p), BasedFor(p), Connect(p), Working(p)
  PROVE  BasedFor(p)'
<1>0. /\ proc[p] \in Proc /\ record \in Record /\ daemon \in [Daemons -> Daemon]
      /\ proc \in [Procs -> Proc] /\ conn \in [Procs -> 0 .. MaxDaemons] /\ 0 \notin Daemons
      /\ conn[p] \in {0} \cup Daemons /\ proc[p].held \in Record
  BY InRange DEF TypeInv, TypeOK, Daemons, Proc
<1> USE DEF BasedFor, BaseFor, At, WritingPCs, LaunchPCs, OwningPCs, RemovePCs
<1>1. UNCHANGED daemon => (ToldLives <=> ToldLives') /\ \A d : Told(d) <=> Told(d)'
  BY DEF ToldLives, Told, Alive
<1>2. UNCHANGED <<daemon, record>> => BasesTold'
  BY DEF BasesTold, Told
<1>3. ConnectFails(p) => proc'[p].pc \in {"idle", "stop"}
  BY <1>0 DEF ConnectFails, Idle
<1>4. Ends(p) => proc'[p].pc = "idle"
  BY <1>0 DEF Ends, Idle
<1>5. ASSUME Dials(p) PROVE BasedFor(p)'
  <2>1. UNCHANGED <<daemon, record, baseline>> /\ proc[p].pc = "dial"
    BY <1>5 DEF Dials, daemonVars, fileVars
  <2>2. Goes(p, "detect") => proc'[p].pc = "detect"
    BY <1>0 DEF Goes, Proc
  <2>3. proc'[p].pc \in {"idle", "stop", "detect"}
    BY <1>3, <1>5, <2>2 DEF Dials
  <2> QED BY <1>1, <1>2, <2>1, <2>3
(* What it finds is the baseline of the one daemon that lives, its own.      *)
<1>6. ASSUME Detects(p) PROVE BasedFor(p)'
  <2>1. UNCHANGED <<daemon, record, baseline>> /\ proc[p].pc = "detect"
    BY <1>6 DEF Detects, daemonVars, fileVars
  <2>2. CASE Ends(p)
    BY <1>1, <1>2, <1>4, <2>1, <2>2
  <2>3. CASE ~Ends(p)
    <3>1. /\ UNCHANGED conn /\ proc'[p].pc = "writeBase"
          /\ proc'[p].prev = IF record.base # 0 THEN record.base ELSE baseline
      BY <1>0, <1>6, <2>3 DEF Detects, Proc
    <3>2. conn[p] \in Daemons /\ Alive(conn[p])
      BY <1>0, <2>1 DEF RecordedFor, HeldFor, ConnectedPCs, ConnectPCs, Alive
    <3>3. ToldLives => Told(conn[p])
      BY <3>2 DEF ToldLives, QuietFor
    <3>4. proc'[p].prev # 0 => Told(conn[p])
      BY <2>1, <3>1, <3>3
    <3> QED BY <1>1, <1>2, <2>1, <3>1, <3>4
  <2> QED BY <2>2, <2>3
<1>7. ASSUME WritesBaseline(p) PROVE BasedFor(p)'
  <2>1. /\ UNCHANGED <<daemon, record, conn>> /\ proc[p].pc = "writeBase"
        /\ proc'[p].pc = "writeBack" /\ proc'[p].prev = proc[p].prev
    BY <1>0, <1>7 DEF WritesBaseline, daemonVars, Proc
  <2> QED BY <1>1, <1>2, <2>1
<1>8. ASSUME WritesBack(p) PROVE BasedFor(p)'
  <2>1. /\ UNCHANGED <<daemon, conn>> /\ proc[p].pc = "writeBack" /\ proc'[p].pc = "initialize"
        /\ proc'[p].prev = proc[p].prev
    BY <1>0, <1>8 DEF WritesBack, daemonVars, Proc
  <2>2. record' = record \/ record'.d # 0
    BY <1>0, <1>8 DEF WritesBack, Record
  <2>3. BasesTold'
    BY <2>1, <2>2 DEF BasesTold, Told
  <2> QED BY <1>1, <2>1, <2>3
(* The daemon was told once and for all: by somebody before, or to import.   *)
<1>9. ASSUME Initializes(p) PROVE BasedFor(p)'
  <2>1. proc[p].pc = "initialize" /\ conn[p] \in Daemons /\ Alive(conn[p]) /\ UNCHANGED <<record, baseline>>
    BY <1>0, <1>9 DEF Initializes, fileVars, RecordedFor, HeldFor, ConnectedPCs, ConnectPCs, Alive
  <2>2. \/ Told(conn[p]) /\ UNCHANGED daemon
        \/ /\ ~Told(conn[p]) /\ ~Suppresses(p)
           /\ daemon' = [daemon EXCEPT ![conn[p]].told = "import", ![conn[p]].of = proc[p].now]
    BY <1>9, <2>1 DEF Initializes, Forwarded, daemonVars, Told, Suppresses
  <2>3. /\ \A d \in Daemons : daemon'[d].touch = daemon[d].touch /\ daemon'[d].pc = daemon[d].pc
        /\ \A d \in Daemons : daemon'[d].told \in {daemon[d].told, "import"} /\ (Told(d) => daemon'[d].told # "nothing")
        /\ daemon'[conn[p]].told # "nothing"
    <3>1. CASE Told(conn[p]) /\ UNCHANGED daemon
      BY <3>1 DEF Told
    <3>2. CASE daemon' = [daemon EXCEPT ![conn[p]].told = "import", ![conn[p]].of = proc[p].now]
      <4> DEFINE x == [daemon[conn[p]] EXCEPT !.told = "import", !.of = proc[p].now]
      <4>1. daemon[conn[p]] \in Daemon
        BY <1>0, <2>1
      <4>2. x.touch = daemon[conn[p]].touch /\ x.pc = daemon[conn[p]].pc /\ x.told = "import"
        BY <4>1 DEF Daemon
      <4>3. daemon' = [daemon EXCEPT ![conn[p]] = x]
        BY <1>0, <2>1, <3>2 DEF Daemon
      <4>4. daemon'[conn[p]] = x /\ \A d \in Daemons \ {conn[p]} : daemon'[d] = daemon[d]
        BY <1>0, <2>1, <4>3
      <4> QED BY <2>1, <4>2, <4>4 DEF Told
    <3> QED BY <2>2, <3>1, <3>2
  <2>4. BasesTold'
    BY <2>1, <2>3 DEF BasesTold, Told
  <2>5. ToldLives'
    BY <2>1, <2>3 DEF ToldLives, Told, Alive
  <2>6. proc'[p].pc \in {"idle", "use"}
    BY <1>0, <1>4, <1>9 DEF Initializes, Idle
  <2> QED BY <2>4, <2>5, <2>6
<1>10. ASSUME Finishes(p) PROVE BasedFor(p)'
  <2>1. UNCHANGED <<daemon, record, baseline>> /\ proc[p].pc = "use" /\ Ends(p)
    BY <1>10 DEF Finishes, daemonVars, fileVars
  <2> QED BY <1>1, <1>2, <1>4, <2>1
<1>11. ~InitializeFails(p)
  BY DEF InitializeFails, RecordedFor, HeldFor, ConnectedPCs, ConnectPCs
<1> QED BY <1>5, <1>6, <1>7, <1>8, <1>9, <1>10, <1>11 DEF Connect

LEMMA BeginsBased ==
  ASSUME TypeInv, NEW p \in Procs, Based, Begins(p), ~disturbed'
  PROVE  Based'
<1>0. proc \in [Procs -> Proc]
  BY DEF TypeInv, TypeOK
<1>1. \A q \in Procs \ {p} : proc'[q] = proc[q]
  BY <1>0 DEF Begins
<1>2. proc'[p].pc \in {"ensure", "stop", "cleanBase"}
  BY <1>0 DEF Begins, Proc
<1>3. AtRest /\ UNCHANGED <<daemon, record, baseline>>
  BY DEF Begins, daemonVars, fileVars
<1>4. BasesTold' /\ (ToldLives => ToldLives')
  BY <1>3 DEF Based, BasesTold, ToldLives, Told, Alive
<1>5. baseline # 0 \/ record.base # 0 => ToldLives
  BY <1>3 DEF Based, BaseOwned, OwningPCs, RemovePCs, AtRest, At
<1>6. BasedFor(p)'
  BY <1>2, <1>3, <1>4, <1>5 DEF BasedFor, BaseFor, At, WritingPCs, LaunchPCs
<1> QED BY <1>1, <1>3, <1>6, BasedIsForOneNext DEF AtRest, At

LEMMA DaemonBased ==
  ASSUME TypeInv, NEW d \in Daemons, Quiet, Recorded, Based, DaemonSteps(d) \/ DaemonTouches(d), ~disturbed'
  PROVE  Based'
<1>0. /\ daemon \in [Daemons -> Daemon] /\ record \in Record /\ 0 \notin Daemons
      /\ socket \in {0} \cup Daemons
      /\ \A p \in Procs : proc[p].held.d \in {0} \cup Daemons /\ conn[p] \in {0} \cup Daemons
  BY InRange DEF TypeInv, TypeOK, Daemons
<1>1. UNCHANGED <<proc, conn>>
  BY DEF DaemonSteps, DaemonTouches, DaemonProbes, DaemonUnlinks, DaemonBinds, DaemonBoots, DaemonTouched,
    DaemonIdles, DaemonCloses, DaemonRemoves
<1>2. \A e \in Daemons : Alive(d) /\ Alive(e) => e = d
  BY DEF Quiet, Accounted
<1>3. \A p \in Procs : proc[p].pc \in WritingPCs => conn[p] \in Daemons
  BY <1>0 DEF Recorded, HeldFor, WritingPCs, ConnectedPCs, ConnectPCs
<1> USE DEF Based, BaseFor, BaseOwned, At, WritingPCs, LaunchPCs
(* Every daemon goes on, and knows what it knew. *)
<1>4. ASSUME \A e \in Daemons : daemon'[e].told = daemon[e].told /\ (Alive(e) => Alive(e)'),
             UNCHANGED baseline, BasesTold',
             record'.base # 0 => record.base # 0 \/ ToldLives,
             \A p \in Procs : proc[p].pc \in LaunchPCs => record'.base = record.base
      PROVE  Based'
  <2>1. \A e \in Daemons : Told(e) <=> Told(e)'
    BY <1>4 DEF Told
  <2>2. ToldLives => ToldLives'
    BY <1>4, <2>1 DEF ToldLives
  <2>3. BaseOwned'
    BY <1>1, <1>4, <2>2
  <2>4. \A p \in Procs : BaseFor(p)'
    BY <1>1, <1>3, <1>4, <2>1, <2>2
  <2> QED BY <1>4, <2>3, <2>4
<1>5. ASSUME NEW pc, DaemonGoes(d, pc), Alive(d), pc \notin {"gone", "unborn"},
             UNCHANGED <<record, baseline>>
      PROVE  Based'
  <2>1. \A e \in Daemons : daemon'[e].told = daemon[e].told /\ (Alive(e) => Alive(e)')
    BY <1>0, <1>5, DaemonGoesTo, DaemonGoesTold DEF Alive
  <2>2. BasesTold'
    BY <1>0, <1>5, BasesToldStay
  <2> QED BY <1>4, <1>5, <2>1, <2>2
<1>6. ASSUME DaemonProbes(d) PROVE Based'
  <2>1. ~Accepting(socket) /\ Alive(d)
    BY <1>0, <1>2, <1>6 DEF DaemonProbes, Accepting, Alive
  <2>2. PICK pc \in {"bind", "unlink"} : DaemonGoes(d, pc)
    BY <1>6, <2>1 DEF DaemonProbes
  <2> QED BY <1>5, <1>6, <2>1, <2>2 DEF DaemonProbes, fileVars
<1>7. ASSUME DaemonUnlinks(d) \/ DaemonBinds(d) \/ DaemonBoots(d) \/ DaemonIdles(d) \/ DaemonCloses(d)
      PROVE  Based'
  <2>1. Alive(d) /\ UNCHANGED <<record, baseline>>
    BY <1>0, <1>7 DEF DaemonUnlinks, DaemonBinds, DaemonBoots, DaemonIdles, DaemonCloses, RemovesSocket, fileVars, Alive
  <2>2. daemon[d].pc = "bind" => socket = 0
    BY DEF Recorded, SocketOwn
  <2>3. \E pc \in {"bind", "boot", "serving", "stopping", "rmState"} : DaemonGoes(d, pc)
    BY <1>7, <2>2 DEF DaemonUnlinks, DaemonBinds, DaemonBoots, DaemonIdles, DaemonCloses
  <2> QED BY <1>5, <2>1, <2>3
<1>8. ASSUME DaemonRemoves(d) PROVE Based'
  <2>1. CASE daemon[d].pc = "rmState" /\ RemovesState /\ DaemonGoes(d, "rmSocket")
    <3>1. /\ record' = NoRecord /\ UNCHANGED baseline
          /\ \A e \in Daemons : daemon'[e].told = daemon[e].told /\ (Alive(e) => Alive(e)')
          /\ \A e \in Daemons : daemon'[e].touch = daemon[e].touch
      BY <1>0, <2>1, DaemonGoesTo, DaemonGoesTold DEF RemovesState, Alive
    <3>2. \A p \in Procs : proc[p].pc \in {"idle", "kill"}
      BY <1>0, <2>1 DEF Quiet, Accounted, Leaving, Working, Alive
    <3>3. BasesTold'
      BY <3>1 DEF BasesTold, Told, NoRecord
    <3> QED BY <1>4, <3>1, <3>2, <3>3 DEF NoRecord
  <2>2. CASE daemon[d].pc = "rmSocket" /\ RemovesSocket /\ DaemonGoes(d, "rmBaseline")
    BY <1>0, <1>5, <2>2 DEF RemovesSocket, Alive
  <2>3. CASE daemon[d].pc = "rmBaseline" /\ RemovesBaseline /\ DaemonGoes(d, "gone")
    <3>1. baseline' = 0 /\ UNCHANGED record /\ record.base = 0
      BY <2>3 DEF RemovesBaseline, Recorded, SocketOwn, BasesTold
    <3>2. \A p \in Procs : proc[p].pc \in {"idle", "kill"}
      BY <1>0, <2>3 DEF Quiet, Accounted, Leaving, Working, Alive
    <3>3. BasesTold'
      BY <1>0, <2>3, <3>1, BasesToldStay
    <3> QED BY <1>1, <3>1, <3>2, <3>3
  <2> QED BY <1>8, <2>1, <2>2, <2>3 DEF DaemonRemoves
<1>9. ASSUME DaemonTouched(d) PROVE Based'
  <2>1. /\ record' = daemon[d].touch /\ UNCHANGED baseline /\ daemon[d].touch # NoRecord
        /\ \A e \in Daemons : /\ daemon'[e].told = daemon[e].told /\ daemon'[e].pc = daemon[e].pc
                              /\ daemon'[e].touch \in {NoRecord, daemon[e].touch}
    BY <1>0, <1>9 DEF DaemonTouched, Daemon
  <2>2. /\ record'.d = d /\ Alive(d) /\ (record'.base # 0 => Told(d))
        /\ \A p \in Procs : proc[p].pc \notin LaunchPCs
    BY <1>0, <2>1 DEF Quiet, TouchesOwn, Working, ConnectPCs, Alive, BasesTold
  <2>3. BasesTold'
    BY <1>0, <2>1, <2>2 DEF BasesTold, Told, NoRecord
  <2>4. record'.base # 0 => ToldLives
    BY <2>2 DEF ToldLives
  <2>5. \A e \in Daemons : daemon'[e].told = daemon[e].told /\ (Alive(e) => Alive(e)')
    BY <2>1 DEF Alive
  <2> QED BY <1>4, <2>1, <2>2, <2>3, <2>4, <2>5
(* What a daemon reads of a baseline is about its own start.                 *)
<1>10. ASSUME DaemonTouches(d) PROVE Based'
  <2>1. /\ UNCHANGED <<record, baseline>> /\ daemon[d].pc = "serving"
        /\ \A e \in Daemons : /\ daemon'[e].told = daemon[e].told /\ daemon'[e].pc = daemon[e].pc
                              /\ daemon'[e].touch = IF e = d THEN record ELSE daemon[e].touch
    BY <1>0, <1>10 DEF DaemonTouches, Daemon, fileVars
  <2>2. PICK p \in Procs : proc[p].pc \in {"detect", "use"}
    BY <1>10 DEF DaemonTouches
  <2>3. \A q \in Procs : proc[q].pc \notin OwningPCs
    BY <2>2 DEF Quiet, OneWorks, Working, OwningPCs, RemovePCs
  <2>4. record.base # 0 => Told(d)
    BY <1>0, <1>2, <2>1, <2>3 DEF ToldLives, Alive
  <2>5. BasesTold'
    BY <2>1, <2>4 DEF BasesTold, Told
  <2>6. \A e \in Daemons : daemon'[e].told = daemon[e].told /\ (Alive(e) => Alive(e)')
    BY <2>1 DEF Alive
  <2> QED BY <1>4, <2>1, <2>5, <2>6
<1> QED BY <1>6, <1>7, <1>8, <1>9, <1>10 DEF DaemonSteps

LEMMA NextBased ==
  ASSUME TypeInv, Quiet, Recorded, Based, [Next]_vars, ~disturbed'
  PROVE  Based'
<1>1. ASSUME NEW p \in Procs, ProcSteps(p) PROVE Based'
  <2>1. (\A q \in Procs \ {p} : proc'[q] = proc[q]) /\ Working(p)
    BY <1>1, OthersStay
  <2>2. \A q \in Procs \ {p} : At(q, "idle")
    BY <2>1 DEF Quiet, OneWorks, Working
  <2>3. QuietFor(p) /\ RecordedFor(p) /\ BasedFor(p)
    BY <2>2, QuietIsForOne, RecordedIsForOne, BasedIsForOne
  <2>4. BasedFor(p)'
    BY <1>1, <2>1, <2>3, EnsureBased, StopBased, ConnectBased DEF ProcSteps
  <2>5. \A q \in Procs \ {p} : At(q, "idle")'
    BY <2>1, <2>2 DEF At
  <2> QED BY <2>4, <2>5, BasedIsForOneNext
<1>2. ASSUME UNCHANGED <<proc, conn, daemon, record, socket, baseline>> PROVE Based'
  BY <1>2 DEF Based, BasesTold, BaseOwned, BaseFor, ToldLives, Told, At, Alive
<1> QED BY <1>1, <1>2, CalmSteps, BeginsBased, DaemonBased

LEMMA InitBased == Init => Based
<1> SUFFICES ASSUME Init PROVE Based
  OBVIOUS
<1>1. record.base = 0 /\ baseline = 0
  BY DEF Init, NoRecord
<1>2. \A p \in Procs : proc[p].pc = "idle"
  BY DEF Init, Idle
<1>3. \A d \in Daemons : daemon[d].told = "nothing" /\ daemon[d].touch.base = 0
  BY DEF Init, DaemonAt, NoRecord
<1> QED BY <1>1, <1>2, <1>3 DEF Based, BasesTold, BaseOwned, BaseFor, WritingPCs, LaunchPCs, At

(* Commands that run one after the other never start a server with its       *)
(* Gradle import switched off (shouldSuppressJDTLSGradleImport), in whatever order the build files change,     *)
(* daemons end and commands stop, restart or clean them up.                  *)
THEOREM ServersAreToldToImport == Spec => []ServersImport
<1> DEFINE Inv == TypeInv /\ (~disturbed => Quiet /\ Recorded /\ Based)
<1>1. Init => Inv
  BY InitTypeInv, InitQuiet, InitRecorded, InitBased
<1>2. Inv /\ [Next]_vars => Inv'
  BY NextTypeInv, NextQuiet, NextRecorded, NextBased, CalmSteps
<1>3. Inv => ServersImport
  BY DEF Based, BasesTold, ServersImport
<1> QED BY <1>1, <1>2, <1>3, PTL DEF Spec
=============================================================================
