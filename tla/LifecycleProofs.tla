---------------------------- MODULE LifecycleProofs ----------------------------
(* Theorems about Lifecycle, for any number of processes, daemons, commands  *)
(* and faults.                                                               *)
EXTENDS Lifecycle, FiniteSetTheorems, TLAPS

-----------------------------------------------------------------------------
(* Typing.  From "detect" on a process has the fingerprint of some build     *)
(* files, which is what a server may be told to import.                      *)

WritingPCs == {"writeBase", "writeBack", "initialize"}
HasFingerprint == \A p \in Procs : proc[p].pc \in WritingPCs => proc[p].now \in Builds
TypeInv == TypeOK /\ HasFingerprint

(* TypeInv by component. *)
ProcsTyped ==
  /\ proc \in [Procs -> Proc] /\ conn \in [Procs -> 0 .. MaxDaemons]
  /\ HasFingerprint
DaemonsTyped == daemon \in [Daemons -> Daemon] /\ imported \subseteq Builds
FilesTyped == record \in Record /\ socket \in 0 .. MaxDaemons /\ baseline \in 0 .. MaxBuilds
CountsTyped ==
  /\ build \in Builds /\ commands \in 0 .. MaxCommands /\ faults \in 0 .. MaxFaults
  /\ disturbed \in BOOLEAN

LEMMA TypeParts == TypeInv <=> ProcsTyped /\ DaemonsTyped /\ FilesTyped /\ CountsTyped
BY DEF TypeInv, TypeOK, ProcsTyped, DaemonsTyped, FilesTyped, CountsTyped

LEMMA TypePartsNext == ProcsTyped' /\ DaemonsTyped' /\ FilesTyped' /\ CountsTyped' => TypeInv'
BY DEF TypeInv, TypeOK, ProcsTyped, DaemonsTyped, FilesTyped, CountsTyped

LEMMA PartsStay ==
  /\ ProcsTyped /\ UNCHANGED <<proc, conn>> => ProcsTyped'
  /\ DaemonsTyped /\ UNCHANGED daemonVars => DaemonsTyped'
  /\ FilesTyped /\ UNCHANGED fileVars => FilesTyped'
  /\ CountsTyped /\ UNCHANGED <<countVars, disturbed>> => CountsTyped'
BY DEF ProcsTyped, DaemonsTyped, FilesTyped, CountsTyped, HasFingerprint, daemonVars, fileVars, countVars

PCs == {"idle"} \cup EnsurePCs \cup StopPCs \cup RemovePCs \cup ConnectPCs \cup CleanPCs

LEMMA Sorts ==
  /\ NoRecord \in Record /\ Idle \in Proc
  /\ \A pc \in {"unborn", "gone"} : DaemonAt(pc) \in Daemon
BY LifecycleAssumption DEF NoRecord, Record, Idle, Proc, DaemonAt, Daemon

(* A process whose record is replaced by a well typed one.                   *)
LEMMA ProcBecomes ==
  ASSUME ProcsTyped, NEW p \in Procs, NEW r \in Proc, r.pc \in WritingPCs => r.now \in Builds',
         Builds' = Builds, proc' = [proc EXCEPT ![p] = r],
         conn' \in [Procs -> 0 .. MaxDaemons]
  PROVE  ProcsTyped'
<1>1. proc' \in [Procs -> Proc]
  BY DEF ProcsTyped
<1>2. ASSUME NEW q \in Procs, proc'[q].pc \in WritingPCs PROVE proc'[q].now \in Builds
  BY <1>2 DEF ProcsTyped, HasFingerprint
<1> QED BY <1>1, <1>2 DEF ProcsTyped, HasFingerprint, Builds

LEMMA ProcGoes ==
  ASSUME ProcsTyped, NEW p \in Procs, NEW pc \in PCs \ WritingPCs, Goes(p, pc), UNCHANGED conn
  PROVE  ProcsTyped'
<1> DEFINE r == [proc[p] EXCEPT !.pc = pc]
<1>1. proc[p] \in Proc /\ conn' \in [Procs -> 0 .. MaxDaemons]
  BY DEF ProcsTyped
<1>2. r \in Proc /\ r.pc \notin WritingPCs
  BY <1>1 DEF Proc, PCs
<1>3. proc' = [proc EXCEPT ![p] = r]
  BY <1>1 DEF Goes, ProcsTyped, Proc
<1> QED BY <1>1, <1>2, <1>3, ProcBecomes DEF Builds

LEMMA ProcMoves ==
  ASSUME ProcsTyped, NEW p \in Procs, NEW pc \in PCs \ WritingPCs, Moves(p, pc), UNCHANGED conn
  PROVE  ProcsTyped'
<1> DEFINE r == [Idle EXCEPT !.pc = pc, !.tries = proc[p].tries, !.dials = proc[p].dials]
<1>1. proc[p] \in Proc /\ conn' \in [Procs -> 0 .. MaxDaemons]
  BY DEF ProcsTyped
<1>2. r \in Proc /\ r.pc \notin WritingPCs
  BY <1>1, Sorts DEF Proc, PCs, Idle
<1> QED BY <1>1, <1>2, ProcBecomes DEF Builds, Moves

LEMMA ProcEnds ==
  ASSUME ProcsTyped, NEW p \in Procs, Ends(p)
  PROVE  ProcsTyped'
<1>1. conn' \in [Procs -> 0 .. MaxDaemons]
  BY LifecycleAssumption DEF ProcsTyped, Ends
<1>2. Idle \in Proc /\ Idle.pc \notin WritingPCs
  BY Sorts DEF Idle, WritingPCs
<1> QED BY <1>1, <1>2, ProcBecomes DEF Builds, Ends

LEMMA ProcConnectFails ==
  ASSUME ProcsTyped, NEW p \in Procs, ConnectFails(p)
  PROVE  ProcsTyped'
<1> DEFINE r == IF proc[p].tries = 0 THEN [Idle EXCEPT !.pc = "stop", !.next = "ensure", !.tries = 1] ELSE Idle
<1>1. conn' \in [Procs -> 0 .. MaxDaemons]
  BY LifecycleAssumption DEF ProcsTyped, ConnectFails
<1>2. r \in Proc /\ r.pc \notin WritingPCs
  BY Sorts DEF Idle, WritingPCs, Proc, StopPCs
<1> QED BY <1>1, <1>2, ProcBecomes DEF Builds, ConnectFails

LEMMA DaemonGoesTyped ==
  ASSUME DaemonsTyped, NEW d, NEW pc, pc \in {"new", "unlink", "bind", "boot", "serving", "stopping", "gone"} \cup RemovePCs,
         DaemonGoes(d, pc), UNCHANGED imported
  PROVE  DaemonsTyped'
<1>1. CASE d \in Daemons
  <2>1. daemon[d] \in Daemon
    BY <1>1 DEF DaemonsTyped
  <2>2. (IF pc = "gone" THEN DaemonAt("gone") ELSE [daemon[d] EXCEPT !.pc = pc]) \in Daemon
    BY <2>1, Sorts DEF Daemon, RemovePCs
  <2> QED BY <1>1, <2>2 DEF DaemonsTyped, DaemonGoes
<1>2. CASE d \notin Daemons
  BY <1>2 DEF DaemonsTyped, DaemonGoes
<1> QED BY <1>1, <1>2

LEMMA InitTypeInv == Init => TypeInv
<1> SUFFICES ASSUME Init PROVE TypeInv
  OBVIOUS
<1>1. ProcsTyped
  BY Sorts, LifecycleAssumption DEF Init, ProcsTyped, HasFingerprint, Idle, WritingPCs
<1>2. DaemonsTyped
  BY Sorts DEF Init, DaemonsTyped
<1>3. FilesTyped /\ build \in Builds /\ commands \in 0 .. MaxCommands /\ faults \in 0 .. MaxFaults
  BY Sorts, LifecycleAssumption DEF Init, FilesTyped, Builds
<1>4. disturbed \in BOOLEAN
  BY Zenon DEF Init
<1> QED BY <1>1, <1>2, <1>3, <1>4, TypeParts DEF CountsTyped

(* A process record of which some fields change, all to values of their sort. *)
LEMMA EnsureTyped ==
  ASSUME TypeInv, NEW p \in Procs, Ensure(p)
  PROVE  TypeInv'
<1> USE TypeParts, TypePartsNext, PartsStay
<1>0. proc[p] \in Proc /\ record \in Record
  BY DEF ProcsTyped, FilesTyped
<1>1. ASSUME EnsureReads(p) PROVE TypeInv'
  <2>1. ProcsTyped'
    <3>1. CASE record.d = 0
      BY <1>1, <3>1, ProcMoves DEF EnsureReads, PCs, EnsurePCs, WritingPCs
    <3>2. CASE record.d # 0
      <4>1. PICK pc \in {"shutdown", "probe", "rmState"} :
              proc' = [proc EXCEPT ![p].held = record, ![p].next = "launch", ![p].pc = pc]
        BY <1>1, <3>2 DEF EnsureReads
      <4> DEFINE r == [proc[p] EXCEPT !.held = record, !.next = "launch", !.pc = pc]
      <4>3. r \in Proc /\ r.pc \notin WritingPCs
        BY <1>0 DEF Proc, EnsurePCs, StopPCs, RemovePCs, WritingPCs
      <4>4. proc' = [proc EXCEPT ![p] = r]
        BY <1>0, <4>1 DEF Proc, ProcsTyped
      <4> QED BY <1>1, <4>3, <4>4, ProcBecomes DEF EnsureReads, ProcsTyped, Builds
    <3> QED BY <3>1, <3>2
  <2> QED BY <1>1, <2>1 DEF EnsureReads
<1>2. ASSUME EnsureProbes(p) PROVE TypeInv'
  <2>1. ProcsTyped'
    BY <1>2, ProcMoves, ProcGoes DEF EnsureProbes, PCs, EnsurePCs, ConnectPCs, StopPCs, WritingPCs
  <2>2. FilesTyped'
    BY <1>0, <1>2 DEF EnsureProbes, FilesTyped, Proc
  <2> QED BY <1>2, <2>1, <2>2 DEF EnsureProbes
<1>3. ASSUME Launches(p) PROVE TypeInv'
  <2>1. CASE Ends(p) /\ UNCHANGED daemon
    BY <1>3, <2>1, ProcEnds DEF Launches, daemonVars
  <2>2. ASSUME NEW d \in Daemons, DaemonGoes(d, "new"),
               proc' = [proc EXCEPT ![p].pc = "ready", ![p].held.d = d], UNCHANGED conn
        PROVE  TypeInv'
    <3> DEFINE r == [proc[p] EXCEPT !.pc = "ready", !.held = [proc[p].held EXCEPT !.d = d]]
    <3>0. [proc[p].held EXCEPT !.d = d] \in Record
      BY <1>0 DEF Proc, Record, Daemons
    <3>1. r \in Proc /\ r.pc \notin WritingPCs
      BY <1>0, <3>0 DEF Proc, EnsurePCs, WritingPCs
    <3>2. proc' = [proc EXCEPT ![p] = r]
      BY <1>0, <2>2 DEF Proc, ProcsTyped
    <3>3. ProcsTyped'
      BY <2>2, <3>1, <3>2, ProcBecomes DEF ProcsTyped, Builds
    <3>4. DaemonsTyped'
      BY <1>3, <2>2, DaemonGoesTyped DEF Launches
    <3> QED BY <1>3, <3>3, <3>4 DEF Launches
  <2> QED BY <1>3, <2>1, <2>2 DEF Launches
<1>4. ASSUME AwaitsReady(p) PROVE TypeInv'
  <2>1. ProcsTyped'
    BY <1>4, ProcEnds, ProcGoes DEF AwaitsReady, PCs, EnsurePCs, WritingPCs
  <2>2. DaemonsTyped'
    BY <1>4, DaemonGoesTyped DEF AwaitsReady, daemonVars
  <2> QED BY <1>4, <2>1, <2>2 DEF AwaitsReady
<1>5. ASSUME Records(p) PROVE TypeInv'
  <2>1. ProcsTyped'
    BY <1>5, ProcMoves DEF Records, PCs, ConnectPCs, WritingPCs
  <2>2. FilesTyped'
    BY <1>0, <1>5 DEF Records, FilesTyped, Proc
  <2> QED BY <1>5, <2>1, <2>2 DEF Records
<1> QED BY <1>1, <1>2, <1>3, <1>4, <1>5 DEF Ensure

LEMMA StopTyped ==
  ASSUME TypeInv, NEW p \in Procs, Stop(p) \/ Cleans(p)
  PROVE  TypeInv'
<1> USE TypeParts, TypePartsNext, PartsStay
<1>0. proc[p] \in Proc /\ record \in Record /\ proc[p].next \in PCs \ WritingPCs
  BY DEF ProcsTyped, FilesTyped, Proc, PCs, EnsurePCs, WritingPCs
<1>1. ASSUME StopReads(p) PROVE TypeInv'
  <2>1. CASE record.d = 0
    BY <1>0, <1>1, <2>1, ProcMoves DEF StopReads
  <2>2. CASE record.d # 0
    <3> DEFINE r == [proc[p] EXCEPT !.held = record, !.pc = "shutdown"]
    <3>1. r \in Proc /\ r.pc \notin WritingPCs
      BY <1>0 DEF Proc, StopPCs, WritingPCs
    <3>2. proc' = [proc EXCEPT ![p] = r]
      BY <1>0, <1>1, <2>2 DEF Proc, ProcsTyped, StopReads
    <3>3. ProcsTyped'
      BY <1>1, <3>1, <3>2, ProcBecomes DEF ProcsTyped, Builds, StopReads
    <3> QED BY <1>1, <3>3 DEF StopReads
  <2> QED BY <2>1, <2>2
<1>2. ASSUME ShutsDown(p) PROVE TypeInv'
  <2>1. ProcsTyped'
    BY <1>2, ProcGoes DEF ShutsDown, PCs, StopPCs, WritingPCs
  <2>2. DaemonsTyped'
    BY <1>2, DaemonGoesTyped DEF ShutsDown, daemonVars
  <2> QED BY <1>2, <2>1, <2>2 DEF ShutsDown
<1>3. ASSUME Kills(p) PROVE TypeInv'
  <2> DEFINE r == [proc[p] EXCEPT !.pc = "rmState", !.held = NoRecord]
  <2>1. r \in Proc /\ r.pc \notin WritingPCs
    BY <1>0, Sorts DEF Proc, RemovePCs, WritingPCs
  <2>2. proc' = [proc EXCEPT ![p] = r]
    BY <1>0, <1>3 DEF Proc, ProcsTyped, Kills
  <2>3. ProcsTyped'
    BY <1>3, <2>1, <2>2, ProcBecomes DEF ProcsTyped, Builds, Kills
  <2>4. DaemonsTyped'
    BY <1>3, DaemonGoesTyped DEF Kills, daemonVars
  <2> QED BY <1>3, <2>3, <2>4 DEF Kills
<1>4. ASSUME Removes(p) PROVE TypeInv'
  <2>1. ProcsTyped'
    BY <1>0, <1>4, ProcGoes, ProcMoves DEF Removes, PCs, RemovePCs, WritingPCs
  <2>2. FilesTyped'
    BY <1>4, Sorts, LifecycleAssumption DEF Removes, RemovesState, RemovesSocket, RemovesBaseline, FilesTyped
  <2> QED BY <1>4, <2>1, <2>2 DEF Removes
<1>5. ASSUME Cleans(p) PROVE TypeInv'
  <2>1. ProcsTyped'
    <3>1. CASE Goes(p, "cleanReads")
      BY <1>5, <3>1, ProcGoes DEF Cleans, PCs, CleanPCs, WritingPCs
    <3>2. CASE proc' = [proc EXCEPT ![p] = [Idle EXCEPT
                      !.pc = IF record.d = 0 \/ Alive(record.d) THEN "idle" ELSE "rmState"]]
      <4> DEFINE r == [Idle EXCEPT !.pc = IF record.d = 0 \/ Alive(record.d) THEN "idle" ELSE "rmState"]
      <4>1. r \in Proc /\ r.pc \notin WritingPCs
        BY Sorts DEF Proc, RemovePCs, WritingPCs, Idle
      <4> QED BY <1>5, <3>2, <4>1, ProcBecomes DEF ProcsTyped, Builds, Cleans
    <3> QED BY <1>5, <3>1, <3>2 DEF Cleans
  <2>2. FilesTyped'
    BY <1>5, LifecycleAssumption DEF Cleans, RemovesBaseline, FilesTyped, fileVars
  <2> QED BY <1>5, <2>1, <2>2 DEF Cleans
<1> QED BY <1>1, <1>2, <1>3, <1>4, <1>5 DEF Stop

LEMMA ConnectTyped ==
  ASSUME TypeInv, NEW p \in Procs, Connect(p)
  PROVE  TypeInv'
<1> USE TypeParts, TypePartsNext, PartsStay
<1>0. proc[p] \in Proc /\ record \in Record /\ conn[p] \in 0 .. MaxDaemons
  BY DEF ProcsTyped, FilesTyped
<1>1. ASSUME Dials(p) PROVE TypeInv'
  <2>1. ProcsTyped'
    <3>1. CASE Goes(p, "detect") /\ conn' = [conn EXCEPT ![p] = socket]
      <4> DEFINE r == [proc[p] EXCEPT !.pc = "detect"]
      <4>1. r \in Proc /\ r.pc \notin WritingPCs
        BY <1>0 DEF Proc, ConnectPCs, WritingPCs
      <4>2. proc' = [proc EXCEPT ![p] = r]
        BY <1>0, <3>1 DEF Proc, ProcsTyped, Goes
      <4>3. conn' \in [Procs -> 0 .. MaxDaemons]
        BY <3>1 DEF ProcsTyped, FilesTyped
      <4> QED BY <4>1, <4>2, <4>3, ProcBecomes DEF Builds
    <3>2. CASE ConnectFails(p)
      BY <3>2, ProcConnectFails
    <3> QED BY <1>1, <3>1, <3>2 DEF Dials
  <2> QED BY <1>1, <2>1 DEF Dials
<1>2. ASSUME Detects(p) PROVE TypeInv'
  <2>1. ProcsTyped'
    <3>1. CASE Ends(p)
      BY <3>1, ProcEnds
    <3>2. CASE ~Ends(p)
      <4> DEFINE r == [proc[p] EXCEPT !.pc = "writeBase", !.now = build,
                         !.prev = IF record.base # 0 THEN record.base ELSE baseline]
      <4>1. build \in Builds /\ build \in 0 .. MaxBuilds
        BY DEF CountsTyped, Builds
      <4>2. r \in Proc /\ r.now \in Builds
        BY <1>0, <4>1 DEF Proc, ConnectPCs, Record, FilesTyped
      <4>3. proc' = [proc EXCEPT ![p] = r] /\ UNCHANGED conn
        BY <1>0, <1>2, <3>2 DEF Proc, ProcsTyped, Detects
      <4> QED BY <4>2, <4>3, ProcBecomes DEF Builds, ProcsTyped
    <3> QED BY <3>1, <3>2
  <2> QED BY <1>2, <2>1 DEF Detects
<1>3. ASSUME WritesBaseline(p) PROVE TypeInv'
  <2> DEFINE r == [proc[p] EXCEPT !.pc = "writeBack", !.held = record]
  <2>1. proc[p].now \in Builds
    BY <1>3 DEF WritesBaseline, At, ProcsTyped, HasFingerprint, WritingPCs
  <2>2. r \in Proc /\ r.now \in Builds
    BY <1>0, <2>1 DEF Proc, ConnectPCs
  <2>3. proc' = [proc EXCEPT ![p] = r] /\ UNCHANGED conn
    BY <1>0, <1>3 DEF Proc, ProcsTyped, WritesBaseline
  <2>4. ProcsTyped'
    BY <2>2, <2>3, ProcBecomes DEF Builds, ProcsTyped
  <2>5. FilesTyped'
    BY <1>0, <1>3 DEF WritesBaseline, FilesTyped, Proc
  <2> QED BY <1>3, <2>4, <2>5 DEF WritesBaseline
<1>4. ASSUME WritesBack(p) PROVE TypeInv'
  <2> DEFINE r == [proc[p] EXCEPT !.pc = "initialize", !.held = NoRecord]
  <2>1. proc[p].now \in Builds
    BY <1>4 DEF WritesBack, At, ProcsTyped, HasFingerprint, WritingPCs
  <2>2. r \in Proc /\ r.now \in Builds
    BY <1>0, <2>1, Sorts DEF Proc, ConnectPCs
  <2>3. proc' = [proc EXCEPT ![p] = r] /\ UNCHANGED conn
    BY <1>0, <1>4 DEF Proc, ProcsTyped, WritesBack
  <2>4. ProcsTyped'
    BY <2>2, <2>3, ProcBecomes DEF Builds, ProcsTyped
  <2>5. FilesTyped'
    BY <1>0, <1>4 DEF WritesBack, FilesTyped, Proc, Record
  <2> QED BY <1>4, <2>4, <2>5 DEF WritesBack
<1>5. ASSUME Initializes(p) PROVE TypeInv'
  <2>1. Forwarded(p) /\ UNCHANGED <<fileVars, countVars, disturbed>>
    BY <1>5 DEF Initializes
  <2>2. proc[p].now \in Builds /\ proc[p].now \in 0 .. MaxBuilds
    BY <1>0, <1>5 DEF Initializes, At, ProcsTyped, HasFingerprint, WritingPCs, Proc
  <2>3. DaemonsTyped'
    <3>1. CASE UNCHANGED daemonVars
      BY <3>1
    <3>2. CASE ~UNCHANGED daemonVars
      <4>1. daemon' = [daemon EXCEPT ![conn[p]].told = IF Suppresses(p) THEN "skip" ELSE "import",
                                     ![conn[p]].of = proc[p].now]
        BY <2>1, <3>2 DEF Forwarded
      <4>2. imported' \subseteq Builds
        BY <2>1, <2>2, <3>2 DEF Forwarded, DaemonsTyped
      <4> DEFINE told == IF Suppresses(p) THEN "skip" ELSE "import"
                 e    == [daemon[conn[p]] EXCEPT !.told = told, !.of = proc[p].now]
      <4>3. ASSUME conn[p] \in Daemons PROVE daemon' \in [Daemons -> Daemon]
        <5>1. e \in Daemon
          BY <2>2, <4>3 DEF DaemonsTyped, Daemon
        <5>2. daemon' = [daemon EXCEPT ![conn[p]] = e]
          BY <4>1, <4>3 DEF DaemonsTyped, Daemon
        <5> QED BY <5>1, <5>2 DEF DaemonsTyped
      <4>4. ASSUME conn[p] \notin Daemons PROVE daemon' \in [Daemons -> Daemon]
        BY <4>1, <4>4 DEF DaemonsTyped
      <4> QED BY <4>2, <4>3, <4>4 DEF DaemonsTyped, Builds
    <3> QED BY <3>1, <3>2
  <2>4. ProcsTyped'
    <3>1. CASE Ends(p)
      BY <3>1, ProcEnds
    <3>2. CASE ~Ends(p)
      <4> DEFINE r == [Idle EXCEPT !.pc = "use"]
      <4>1. r \in Proc /\ r.pc \notin WritingPCs
        BY Sorts DEF Proc, ConnectPCs, WritingPCs, Idle
      <4>2. proc' = [proc EXCEPT ![p] = r] /\ UNCHANGED conn
        BY <1>5, <3>2 DEF Initializes
      <4> QED BY <4>1, <4>2, ProcBecomes DEF Builds, ProcsTyped
    <3> QED BY <3>1, <3>2
  <2> QED BY <2>1, <2>3, <2>4
<1>6. ASSUME InitializeFails(p) PROVE TypeInv'
  <2>1. ProcsTyped'
    <3>1. CASE Redials(p)
      <4> DEFINE r == [Idle EXCEPT !.pc = "dial", !.tries = proc[p].tries, !.dials = 1]
      <4>1. r \in Proc /\ r.pc \notin WritingPCs
        BY <1>0, Sorts DEF Proc, ConnectPCs, WritingPCs, Idle
      <4>2. conn' \in [Procs -> 0 .. MaxDaemons]
        BY <3>1, LifecycleAssumption DEF Redials, ProcsTyped
      <4> QED BY <3>1, <4>1, <4>2, ProcBecomes DEF Redials, Builds
    <3>2. CASE ConnectFails(p)
      BY <3>2, ProcConnectFails
    <3> QED BY <1>6, <3>1, <3>2 DEF InitializeFails
  <2> QED BY <1>6, <2>1 DEF InitializeFails
<1>7. ASSUME Finishes(p) PROVE TypeInv'
  BY <1>7, ProcEnds DEF Finishes
<1> QED BY <1>1, <1>2, <1>3, <1>4, <1>5, <1>6, <1>7 DEF Connect

LEMMA DaemonTyped ==
  ASSUME TypeInv, NEW d \in Daemons, DaemonSteps(d) \/ DaemonTouches(d)
  PROVE  TypeInv'
<1> USE TypeParts, TypePartsNext, PartsStay
<1>0. daemon[d] \in Daemon /\ d \in 0 .. MaxDaemons
  BY DEF DaemonsTyped, Daemons
<1> USE DaemonGoesTyped
<1>1. ASSUME DaemonProbes(d) PROVE TypeInv'
  <2>1. DaemonsTyped'
    BY <1>1 DEF DaemonProbes
  <2> QED BY <1>1, <2>1 DEF DaemonProbes
<1>2. ASSUME DaemonUnlinks(d) PROVE TypeInv'
  <2>1. FilesTyped'
    BY <1>2, LifecycleAssumption DEF DaemonUnlinks, RemovesSocket, FilesTyped
  <2>2. DaemonsTyped'
    BY <1>2 DEF DaemonUnlinks
  <2> QED BY <1>2, <2>1, <2>2 DEF DaemonUnlinks
<1>3. ASSUME DaemonBinds(d) PROVE TypeInv'
  <2>1. FilesTyped'
    BY <1>0, <1>3 DEF DaemonBinds, FilesTyped
  <2>2. DaemonsTyped'
    BY <1>3 DEF DaemonBinds
  <2> QED BY <1>3, <2>1, <2>2 DEF DaemonBinds
<1>4. ASSUME DaemonBoots(d) PROVE TypeInv'
  <2>1. DaemonsTyped'
    BY <1>4 DEF DaemonBoots
  <2> QED BY <1>4, <2>1 DEF DaemonBoots
<1>5. ASSUME DaemonTouched(d) PROVE TypeInv'
  <2>1. FilesTyped'
    BY <1>0, <1>5 DEF DaemonTouched, FilesTyped, Daemon
  <2>2. DaemonsTyped'
    BY <1>0, <1>5, Sorts DEF DaemonTouched, DaemonsTyped, Daemon, Builds
  <2> QED BY <1>5, <2>1, <2>2 DEF DaemonTouched
<1>6. ASSUME DaemonIdles(d) PROVE TypeInv'
  <2>1. DaemonsTyped'
    BY <1>6 DEF DaemonIdles
  <2>2. CountsTyped'
    <3>1. build' \in Builds' /\ commands' \in 0 .. MaxCommands /\ faults' \in 0 .. MaxFaults
      BY <1>6 DEF DaemonIdles, CountsTyped, Builds, countVars
    <3>2. disturbed' \in BOOLEAN
      BY <1>6, Zenon DEF DaemonIdles
    <3> QED BY <3>1, <3>2 DEF CountsTyped
  <2> QED BY <1>6, <2>1, <2>2 DEF DaemonIdles
<1>7. ASSUME DaemonCloses(d) PROVE TypeInv'
  <2>1. FilesTyped'
    BY <1>7, LifecycleAssumption DEF DaemonCloses, RemovesSocket, FilesTyped
  <2>2. DaemonsTyped'
    BY <1>7 DEF DaemonCloses, RemovePCs
  <2> QED BY <1>7, <2>1, <2>2 DEF DaemonCloses
<1>8. ASSUME DaemonRemoves(d) PROVE TypeInv'
  <2>1. FilesTyped'
    BY <1>8, LifecycleAssumption, Sorts DEF DaemonRemoves, RemovesState, RemovesSocket, RemovesBaseline, FilesTyped
  <2>2. DaemonsTyped'
    BY <1>8 DEF DaemonRemoves, RemovePCs
  <2> QED BY <1>8, <2>1, <2>2 DEF DaemonRemoves
<1>9. ASSUME DaemonTouches(d) PROVE TypeInv'
  <2>1. DaemonsTyped'
    BY <1>0, <1>9 DEF DaemonTouches, DaemonsTyped, Daemon, FilesTyped, Builds
  <2> QED BY <1>9, <2>1 DEF DaemonTouches
<1> QED BY <1>1, <1>2, <1>3, <1>4, <1>5, <1>6, <1>7, <1>8, <1>9 DEF DaemonSteps

LEMMA OneFault ==
  ASSUME CountsTyped, faults < MaxFaults, faults' = faults + 1, disturbed' = TRUE,
         UNCHANGED <<build, commands>>
  PROVE  CountsTyped'
BY LifecycleAssumption DEF CountsTyped, Builds

LEMMA FaultTyped ==
  ASSUME TypeInv, NEW p \in Procs, RecordFails(p) \/ InitializeRefused(p) \/ Dies(p)
  PROVE  TypeInv'
<1> USE TypeParts, TypePartsNext, PartsStay
<1>0. proc[p] \in Proc
  BY DEF ProcsTyped
<1>1. CountsTyped'
  BY OneFault DEF RecordFails, InitializeRefused, Dies
<1>2. ASSUME RecordFails(p) PROVE TypeInv'
  <2>1. ProcsTyped'
    <3>1. CASE Ends(p)
      BY <3>1, ProcEnds
    <3>2. CASE ~Ends(p)
      <4> DEFINE r == [proc[p] EXCEPT !.pc = "ensure", !.tries = 1]
      <4>1. r \in Proc /\ r.pc \notin WritingPCs
        BY <1>0 DEF Proc, EnsurePCs, WritingPCs
      <4>2. proc' = [proc EXCEPT ![p] = r] /\ UNCHANGED conn
        BY <1>0, <1>2, <3>2 DEF RecordFails, Proc, ProcsTyped
      <4> QED BY <4>1, <4>2, ProcBecomes DEF Builds, ProcsTyped
    <3> QED BY <3>1, <3>2
  <2>2. DaemonsTyped'
    BY <1>2, DaemonGoesTyped DEF RecordFails
  <2> QED BY <1>1, <1>2, <2>1, <2>2 DEF RecordFails
<1>3. ASSUME InitializeRefused(p) PROVE TypeInv'
  BY <1>1, <1>3, ProcConnectFails DEF InitializeRefused
<1>4. ASSUME Dies(p) PROVE TypeInv'
  BY <1>1, <1>4, ProcEnds DEF Dies
<1> QED BY <1>2, <1>3, <1>4

LEMMA NextTypeInv == TypeInv /\ [Next]_vars => TypeInv'
<1> SUFFICES ASSUME TypeInv, [Next]_vars PROVE TypeInv'
  OBVIOUS
<1> USE TypeParts, TypePartsNext, PartsStay, LifecycleAssumption
<1>1. ASSUME NEW p \in Procs, Begins(p) PROVE TypeInv'
  <2>1. ProcsTyped'
    <3>1. proc[p] \in Proc /\ UNCHANGED conn
      BY <1>1 DEF ProcsTyped, Begins
    <3>2. PICK r \in {[proc[p] EXCEPT !.pc = "ensure"], [proc[p] EXCEPT !.pc = "stop", !.next = "ensure"],
                      [proc[p] EXCEPT !.pc = "cleanBase"]} : proc' = [proc EXCEPT ![p] = r]
      BY <1>1, <3>1 DEF Begins, ProcsTyped, Proc
    <3>3. r \in Proc /\ r.pc \notin WritingPCs
      BY <3>1, <3>2 DEF Proc, EnsurePCs, StopPCs, CleanPCs, WritingPCs
    <3> QED BY <3>1, <3>2, <3>3, ProcBecomes DEF Builds, ProcsTyped
  <2>2. DaemonsTyped' /\ FilesTyped'
    BY <1>1 DEF Begins
  <2>3. CountsTyped'
    BY <1>1 DEF Begins, CountsTyped, Builds
  <2> QED BY <2>1, <2>2, <2>3
<1>2. ASSUME NEW p \in Procs, ProcSteps(p) PROVE TypeInv'
  BY <1>2, EnsureTyped, StopTyped, ConnectTyped DEF ProcSteps
<1>3. ASSUME NEW p \in Procs, RecordFails(p) \/ InitializeRefused(p) \/ Dies(p) PROVE TypeInv'
  BY <1>3, FaultTyped
<1>4. ASSUME NEW d \in Daemons, DaemonSteps(d) \/ DaemonTouches(d) PROVE TypeInv'
  BY <1>4, DaemonTyped
<1>5. ASSUME NEW d \in Daemons, BootFails(d) \/ DaemonFails(d) PROVE TypeInv'
  <2>1. CountsTyped' /\ UNCHANGED <<proc, conn>>
    BY <1>5, OneFault DEF BootFails, DaemonFails
  <2>2. DaemonsTyped'
    BY <1>5, DaemonGoesTyped DEF BootFails, DaemonFails
  <2>3. FilesTyped'
    BY <1>5 DEF BootFails, DaemonFails, RemovesSocket, FilesTyped, fileVars
  <2> QED BY <2>1, <2>2, <2>3
<1>6. ASSUME Edits PROVE TypeInv'
  <2>1. CountsTyped'
    BY <1>6 DEF Edits, CountsTyped, Builds
  <2> QED BY <1>6, <2>1 DEF Edits
<1>7. ASSUME UNCHANGED vars PROVE TypeInv'
  BY <1>7 DEF vars
<1> QED BY <1>1, <1>2, <1>3, <1>4, <1>5, <1>6, <1>7 DEF Next

(* Type correctness: whatever Ensure, Stop, Cleanup, Connect and the daemons  *)
(* do to the state file, the baseline and each other is well typed.          *)
THEOREM LifecycleTypeCorrect == Spec => []TypeOK
<1>1. Init => TypeInv
  BY InitTypeInv
<1>2. TypeInv /\ [Next]_vars => TypeInv'
  BY NextTypeInv
<1>3. TypeInv => TypeOK
  BY DEF TypeInv
<1> QED BY <1>1, <1>2, <1>3, PTL DEF Spec

-----------------------------------------------------------------------------
(* Whoever is named by a file, a process or a connection has been started.   *)

Named(d) == d # 0 => daemon[d].pc # "unborn"
NamesBorn ==
  /\ Named(record.d) /\ Named(socket)
  /\ \A p \in Procs : Named(proc[p].held.d) /\ Named(conn[p])
  /\ \A d \in Daemons : Named(daemon[d].touch.d)

(* Nobody is unborn again. *)
Ages == \A d \in Daemons : daemon[d].pc # "unborn" => daemon'[d].pc # "unborn"

LEMMA InRange ==
  ASSUME TypeInv
  PROVE  /\ record.d \in {0} \cup Daemons /\ socket \in {0} \cup Daemons
         /\ \A p \in Procs : proc[p].held.d \in {0} \cup Daemons /\ conn[p] \in {0} \cup Daemons
         /\ \A d \in Daemons : daemon[d].touch.d \in {0} \cup Daemons /\ d # 0
<1>1. \A x \in 0 .. MaxDaemons : x \in {0} \cup Daemons
  BY LifecycleAssumption DEF Daemons
<1>2. \A r \in Record : r.d \in {0} \cup Daemons
  BY <1>1 DEF Record
<1>3. \A p \in Procs : proc[p].held \in Record /\ conn[p] \in 0 .. MaxDaemons
  BY DEF TypeInv, TypeOK, Proc
<1>4. \A d \in Daemons : daemon[d].touch \in Record
  BY DEF TypeInv, TypeOK, Daemon
<1>5. 0 \notin Daemons
  BY DEF Daemons
<1> QED BY <1>1, <1>2, <1>3, <1>4, <1>5 DEF TypeInv, TypeOK

LEMMA DaemonGoesAges ==
  ASSUME TypeInv, NEW d, NEW pc, pc # "unborn", DaemonGoes(d, pc)
  PROVE  Ages
<1>1. daemon \in [Daemons -> Daemon]
  BY DEF TypeInv, TypeOK
<1>2. (IF pc = "gone" THEN DaemonAt("gone") ELSE [daemon[d] EXCEPT !.pc = pc]).pc # "unborn"
      \/ d \notin Daemons
  BY <1>1 DEF DaemonAt, Daemon
<1> QED BY <1>1, <1>2 DEF DaemonGoes, Ages

LEMMA NextAges == TypeInv /\ [Next]_vars => Ages
<1> SUFFICES ASSUME TypeInv, [Next]_vars PROVE Ages
  OBVIOUS
<1>0. UNCHANGED daemon => Ages
  BY DEF Ages
<1>1. daemon \in [Daemons -> Daemon]
  BY DEF TypeInv, TypeOK
<1> USE DaemonGoesAges
<1>2. ASSUME NEW p \in Procs, Ensure(p) PROVE Ages
  BY <1>0, <1>2 DEF Ensure, EnsureReads, EnsureProbes, Launches, AwaitsReady, Records, daemonVars
<1>3. ASSUME NEW p \in Procs, Stop(p) \/ Cleans(p) PROVE Ages
  BY <1>0, <1>3 DEF Stop, StopReads, ShutsDown, Kills, Removes, Cleans, daemonVars
<1>4. ASSUME NEW p \in Procs, Initializes(p) PROVE Ages
  <2>1. daemon' = daemon \/ daemon' = [daemon EXCEPT ![conn[p]].told = IF Suppresses(p) THEN "skip" ELSE "import",
                                                     ![conn[p]].of = proc[p].now]
    BY <1>4 DEF Initializes, Forwarded, daemonVars
  <2>2. \A d \in Daemons : daemon'[d].pc = daemon[d].pc
    BY <1>1, <2>1 DEF Daemon
  <2> QED BY <2>2 DEF Ages
<1>5. ASSUME NEW p \in Procs, Connect(p) PROVE Ages
  BY <1>0, <1>4, <1>5 DEF Connect, Dials, Detects, WritesBaseline, WritesBack, InitializeFails, Finishes, daemonVars
<1>6. ASSUME NEW p \in Procs, Begins(p) \/ RecordFails(p) \/ InitializeRefused(p) \/ Dies(p) PROVE Ages
  BY <1>0, <1>6 DEF Begins, RecordFails, InitializeRefused, Dies, daemonVars
<1>7. ASSUME NEW d \in Daemons, DaemonTouched(d) \/ DaemonTouches(d) PROVE Ages
  <2>1. \A e \in Daemons : daemon'[e].pc = daemon[e].pc
    BY <1>1, <1>7 DEF DaemonTouched, DaemonTouches, Daemon
  <2> QED BY <2>1 DEF Ages
<1>8. ASSUME NEW d \in Daemons, DaemonSteps(d) \/ BootFails(d) \/ DaemonFails(d) PROVE Ages
  BY <1>7, <1>8 DEF DaemonSteps, DaemonProbes, DaemonUnlinks, DaemonBinds, DaemonBoots, DaemonIdles, DaemonCloses,
    DaemonRemoves, BootFails, DaemonFails
<1>9. ASSUME Edits \/ UNCHANGED vars PROVE Ages
  BY <1>0, <1>9 DEF Edits, vars, daemonVars
<1> QED BY <1>2, <1>3, <1>5, <1>6, <1>7, <1>8, <1>9 DEF Next, ProcSteps

(* A name that was borne is borne after the step.                            *)
Names ==
  {0, record.d, socket} \cup {proc[p].held.d : p \in Procs} \cup {conn[p] : p \in Procs}
    \cup {daemon[d].touch.d : d \in Daemons}

LEMMA NamesKept ==
  ASSUME TypeInv, NamesBorn, Ages, NEW x \in Names
  PROVE  x # 0 => daemon'[x].pc # "unborn"
BY InRange DEF Names, NamesBorn, Named, Ages

(* The processes and connections that a step of p leaves alone.              *)
LEMMA ProcNames ==
  ASSUME TypeInv, NEW p \in Procs,
         \A q \in Procs \ {p} : proc'[q] = proc[q] /\ conn'[q] = conn[q],
         proc'[p].held.d \in Names, conn'[p] \in Names
  PROVE  \A q \in Procs : proc'[q].held.d \in Names /\ conn'[q] \in Names
<1> SUFFICES ASSUME NEW q \in Procs PROVE proc'[q].held.d \in Names /\ conn'[q] \in Names
  OBVIOUS
<1>1. CASE q = p
  BY <1>1
<1>2. CASE q # p
  BY <1>2 DEF Names
<1> QED BY <1>1, <1>2

LEMMA NextNamesBorn == TypeInv /\ NamesBorn /\ [Next]_vars => NamesBorn'
<1> SUFFICES ASSUME TypeInv, NamesBorn, [Next]_vars PROVE NamesBorn'
  OBVIOUS
<1>0. Ages
  BY NextAges
<1> DEFINE Files == record'.d \in Names /\ socket' \in Names
           Touch == \A d \in Daemons : daemon'[d].touch.d \in Names
           Actors == \A q \in Procs : proc'[q].held.d \in Names /\ conn'[q] \in Names
<1>1. Files /\ Touch /\ Actors => NamesBorn'
  BY <1>0, NamesKept DEF NamesBorn, Named
<1>2. /\ UNCHANGED <<record, socket>> => Files
      /\ UNCHANGED daemon => Touch
      /\ UNCHANGED <<proc, conn>> => Actors
      /\ 0 \in Names
  BY DEF Names
<1>3. /\ proc \in [Procs -> Proc] /\ conn \in [Procs -> 0 .. MaxDaemons]
      /\ daemon \in [Daemons -> Daemon]
  BY DEF TypeInv, TypeOK
<1>4. ASSUME NEW d, NEW pc, DaemonGoes(d, pc) PROVE Touch
  <2>1. \A e \in Daemons : daemon'[e].touch.d \in {0, daemon[e].touch.d}
    BY <1>3, <1>4 DEF DaemonGoes, DaemonAt, NoRecord, Daemon
  <2> QED BY <2>1 DEF Names
<1>5. ASSUME NEW p \in Procs, NEW x, proc' = [proc EXCEPT ![p] = x], x.held.d \in Names,
             UNCHANGED conn \/ conn' = [conn EXCEPT ![p] = 0]
      PROVE  Actors
  <2>1. \A q \in Procs \ {p} : proc'[q] = proc[q] /\ conn'[q] = conn[q]
    BY <1>3, <1>5
  <2>2. proc'[p].held.d \in Names /\ conn'[p] \in Names
    BY <1>3, <1>5 DEF Names
  <2> QED BY <2>1, <2>2, ProcNames
<1>6. ASSUME NEW p \in Procs, NEW pc, Goes(p, pc) \/ Moves(p, pc), UNCHANGED conn PROVE Actors
  <2>1. CASE Goes(p, pc)
    <3>1. proc' = [proc EXCEPT ![p] = [proc[p] EXCEPT !.pc = pc]]
      BY <1>3, <2>1 DEF Goes, Proc
    <3>2. [proc[p] EXCEPT !.pc = pc].held.d \in Names
      BY <1>3 DEF Proc, Names
    <3> QED BY <1>5, <1>6, <3>1, <3>2
  <2>2. CASE Moves(p, pc)
    BY <1>2, <1>5, <1>6, <2>2 DEF Moves, Idle, NoRecord
  <2> QED BY <1>6, <2>1, <2>2
<1>7. ASSUME NEW p \in Procs, Ends(p) \/ ConnectFails(p) \/ Redials(p) PROVE Actors
  BY <1>2, <1>5, <1>7 DEF Ends, ConnectFails, Redials, Idle, NoRecord
<1>8. \A p \in Procs : proc[p].held.d \in Names /\ proc[p].held \in Record
  BY <1>3 DEF Names, Proc
<1>9. record.d \in Names /\ socket \in Names
  BY DEF Names

<1>10. ASSUME NEW p \in Procs, Launches(p) PROVE NamesBorn'
  <2>1. CASE Ends(p) /\ UNCHANGED daemon
    BY <1>1, <1>2, <1>7, <1>10, <2>1 DEF Launches, fileVars
  <2>2. ASSUME NEW d \in Daemons, DaemonGoes(d, "new"),
               proc' = [proc EXCEPT ![p].pc = "ready", ![p].held.d = d], UNCHANGED conn
        PROVE  NamesBorn'
    <3>1. daemon'[d].pc = "new"
      BY <1>3, <2>2 DEF DaemonGoes, Daemon
    <3>2. proc'[p].held.d = d /\ \A q \in Procs \ {p} : proc'[q].held.d = proc[q].held.d
      BY <1>3, <2>2 DEF Proc, Record
    <3>3. Touch /\ Files
      BY <1>2, <1>4, <1>10, <2>2 DEF Launches, fileVars
    <3>4. \A q \in Procs \ {p} : proc'[q].held.d \in Names
      BY <3>2 DEF Names
    <3>5. \A q \in Procs : conn'[q] \in Names
      BY <2>2 DEF Names
    <3> QED BY <1>0, <3>1, <3>2, <3>3, <3>4, <3>5, NamesKept DEF NamesBorn, Named
  <2> QED BY <1>10, <2>1, <2>2 DEF Launches
<1>11. ASSUME NEW p \in Procs, Ensure(p) PROVE NamesBorn'
  <2>1. ASSUME EnsureReads(p) PROVE NamesBorn'
    <3>1. Actors
      <4>1. CASE record.d = 0
        BY <1>6, <2>1, <4>1 DEF EnsureReads
      <4>2. CASE record.d # 0
        <5>1. PICK pc \in {"shutdown", "probe", "rmState"} :
                proc' = [proc EXCEPT ![p].held = record, ![p].next = "launch", ![p].pc = pc]
          BY <2>1, <4>2 DEF EnsureReads
        <5>2. proc' = [proc EXCEPT ![p] = [proc[p] EXCEPT !.held = record, !.next = "launch", !.pc = pc]]
          BY <1>3, <5>1 DEF Proc
        <5>3. [proc[p] EXCEPT !.held = record, !.next = "launch", !.pc = pc].held = record
          BY <1>3 DEF Proc
        <5> QED BY <1>5, <1>9, <2>1, <5>2, <5>3 DEF EnsureReads
      <4> QED BY <4>1, <4>2
    <3> QED BY <1>1, <1>2, <2>1, <3>1 DEF EnsureReads, fileVars, daemonVars
  <2>2. ASSUME EnsureProbes(p) PROVE NamesBorn'
    BY <1>1, <1>2, <1>6, <1>8, <1>9, <2>2 DEF EnsureProbes, daemonVars
  <2>3. ASSUME AwaitsReady(p) PROVE NamesBorn'
    BY <1>1, <1>2, <1>4, <1>6, <1>7, <2>3 DEF AwaitsReady, fileVars
  <2>4. ASSUME Records(p) PROVE NamesBorn'
    BY <1>1, <1>2, <1>6, <1>8, <1>9, <2>4 DEF Records, daemonVars
  <2> QED BY <1>10, <1>11, <2>1, <2>2, <2>3, <2>4 DEF Ensure
<1>12. ASSUME NEW p \in Procs, Stop(p) \/ Cleans(p) PROVE NamesBorn'
  <2>1. ASSUME StopReads(p) PROVE NamesBorn'
    <3>1. Actors
      <4>1. CASE record.d = 0
        BY <1>6, <2>1, <4>1 DEF StopReads
      <4>2. CASE record.d # 0
        <5>1. proc' = [proc EXCEPT ![p] = [proc[p] EXCEPT !.held = record, !.pc = "shutdown"]]
          BY <1>3, <2>1, <4>2 DEF StopReads, Proc
        <5>2. [proc[p] EXCEPT !.held = record, !.pc = "shutdown"].held = record
          BY <1>3 DEF Proc
        <5> QED BY <1>5, <1>9, <2>1, <5>1, <5>2 DEF StopReads
      <4> QED BY <4>1, <4>2
    <3> QED BY <1>1, <1>2, <2>1, <3>1 DEF StopReads, fileVars, daemonVars
  <2>2. ASSUME ShutsDown(p) PROVE NamesBorn'
    BY <1>1, <1>2, <1>4, <1>6, <2>2 DEF ShutsDown, fileVars
  <2>3. ASSUME Kills(p) PROVE NamesBorn'
    <3>1. proc' = [proc EXCEPT ![p] = [proc[p] EXCEPT !.pc = "rmState", !.held = NoRecord]]
      BY <1>3, <2>3 DEF Kills, Proc
    <3>2. [proc[p] EXCEPT !.pc = "rmState", !.held = NoRecord].held.d = 0
      BY <1>3 DEF Proc, NoRecord
    <3>3. Actors
      BY <1>2, <1>5, <2>3, <3>1, <3>2 DEF Kills
    <3>4. Touch
      BY <1>2, <1>4, <2>3 DEF Kills
    <3> QED BY <1>1, <1>2, <2>3, <3>3, <3>4 DEF Kills, fileVars
  <2>4. ASSUME Removes(p) PROVE NamesBorn'
    <3>1. Files
      BY <1>2, <1>9, <2>4 DEF Removes, RemovesState, RemovesSocket, RemovesBaseline, NoRecord
    <3> QED BY <1>1, <1>2, <1>6, <2>4, <3>1 DEF Removes, daemonVars
  <2>5. ASSUME Cleans(p) PROVE NamesBorn'
    <3>1. Files
      BY <1>2, <1>9, <2>5 DEF Cleans, RemovesBaseline, fileVars
    <3>2. Actors
      <4>1. CASE Goes(p, "cleanReads")
        BY <1>6, <2>5, <4>1 DEF Cleans
      <4>2. CASE ~Goes(p, "cleanReads")
        BY <1>2, <1>5, <2>5, <4>2 DEF Cleans, Idle, NoRecord
      <4> QED BY <4>1, <4>2
    <3> QED BY <1>1, <1>2, <2>5, <3>1, <3>2 DEF Cleans, daemonVars
  <2> QED BY <1>12, <2>1, <2>2, <2>3, <2>4, <2>5 DEF Stop
<1>13. ASSUME NEW p \in Procs, Connect(p) PROVE NamesBorn'
  <2>1. ASSUME Dials(p) PROVE NamesBorn'
    <3>1. Actors
      <4>1. CASE Goes(p, "detect") /\ conn' = [conn EXCEPT ![p] = socket]
        <5>1. proc' = [proc EXCEPT ![p] = [proc[p] EXCEPT !.pc = "detect"]]
          BY <1>3, <4>1 DEF Goes, Proc
        <5>2. proc'[p].held.d = proc[p].held.d /\ conn'[p] = socket
          BY <1>3, <4>1, <5>1 DEF Proc
        <5>3. \A q \in Procs \ {p} : proc'[q] = proc[q] /\ conn'[q] = conn[q]
          BY <1>3, <4>1, <5>1
        <5> QED BY <1>8, <1>9, <5>2, <5>3, ProcNames
      <4>2. CASE ConnectFails(p)
        BY <1>7, <4>2
      <4> QED BY <2>1, <4>1, <4>2 DEF Dials
    <3> QED BY <1>1, <1>2, <2>1, <3>1 DEF Dials, fileVars, daemonVars
  <2>2. ASSUME Detects(p) PROVE NamesBorn'
    <3>1. Actors
      <4>1. CASE Ends(p)
        BY <1>7, <4>1
      <4>2. CASE ~Ends(p)
        <5> DEFINE x == [proc[p] EXCEPT !.pc = "writeBase", !.now = build,
                           !.prev = IF record.base # 0 THEN record.base ELSE baseline]
        <5>1. proc' = [proc EXCEPT ![p] = x] /\ UNCHANGED conn
          BY <1>3, <2>2, <4>2 DEF Detects, Proc
        <5>2. x.held = proc[p].held
          BY <1>3 DEF Proc
        <5> QED BY <1>5, <1>8, <5>1, <5>2
      <4> QED BY <4>1, <4>2
    <3> QED BY <1>1, <1>2, <2>2, <3>1 DEF Detects, fileVars, daemonVars
  <2>3. ASSUME WritesBaseline(p) PROVE NamesBorn'
    <3> DEFINE x == [proc[p] EXCEPT !.pc = "writeBack", !.held = record]
    <3>1. proc' = [proc EXCEPT ![p] = x] /\ UNCHANGED conn /\ x.held = record
      BY <1>3, <2>3 DEF WritesBaseline, Proc
    <3>2. Actors
      BY <1>5, <1>9, <3>1
    <3> QED BY <1>1, <1>2, <2>3, <3>2 DEF WritesBaseline, daemonVars
  <2>4. ASSUME WritesBack(p) PROVE NamesBorn'
    <3> DEFINE x == [proc[p] EXCEPT !.pc = "initialize", !.held = NoRecord]
    <3>1. proc' = [proc EXCEPT ![p] = x] /\ UNCHANGED conn /\ x.held.d = 0
      BY <1>3, <2>4 DEF WritesBack, Proc, NoRecord
    <3>2. Actors
      BY <1>2, <1>5, <3>1
    <3>3. record'.d \in {record.d, proc[p].held.d}
      BY <1>8, <2>4 DEF WritesBack, Record
    <3> QED BY <1>1, <1>2, <1>8, <1>9, <2>4, <3>2, <3>3 DEF WritesBack, daemonVars
  <2>5. ASSUME Initializes(p) PROVE NamesBorn'
    <3>1. daemon' = daemon \/ daemon' = [daemon EXCEPT ![conn[p]].told = IF Suppresses(p) THEN "skip" ELSE "import",
                                                       ![conn[p]].of = proc[p].now]
      BY <2>5 DEF Initializes, Forwarded, daemonVars
    <3>2. \A d \in Daemons : daemon'[d].touch = daemon[d].touch
      BY <1>3, <3>1 DEF Daemon
    <3>3. Touch
      BY <3>2 DEF Names
    <3>4. Actors
      <4>1. CASE Ends(p)
        BY <1>7, <4>1
      <4>2. CASE ~Ends(p)
        BY <1>2, <1>5, <2>5, <4>2 DEF Initializes, Idle, NoRecord
      <4> QED BY <4>1, <4>2
    <3> QED BY <1>1, <1>2, <2>5, <3>3, <3>4 DEF Initializes, fileVars
  <2>6. ASSUME InitializeFails(p) \/ Finishes(p) PROVE NamesBorn'
    BY <1>1, <1>2, <1>7, <2>6 DEF InitializeFails, Finishes, fileVars, daemonVars
  <2> QED BY <1>13, <2>1, <2>2, <2>3, <2>4, <2>5, <2>6 DEF Connect
<1>14. ASSUME NEW p \in Procs, Begins(p) PROVE NamesBorn'
  <2>1. PICK x \in {[proc[p] EXCEPT !.pc = "ensure"], [proc[p] EXCEPT !.pc = "stop", !.next = "ensure"],
                    [proc[p] EXCEPT !.pc = "cleanBase"]} : proc' = [proc EXCEPT ![p] = x]
    BY <1>3, <1>14 DEF Begins, Proc
  <2>2. x.held = proc[p].held
    BY <1>3, <2>1 DEF Proc
  <2>3. Actors
    BY <1>5, <1>8, <1>14, <2>1, <2>2 DEF Begins
  <2> QED BY <1>1, <1>2, <1>14, <2>3 DEF Begins, daemonVars, fileVars
<1>15. ASSUME NEW p \in Procs, RecordFails(p) \/ InitializeRefused(p) \/ Dies(p) PROVE NamesBorn'
  <2>1. ASSUME RecordFails(p) PROVE Actors
    <3>1. CASE Ends(p)
      BY <1>7, <3>1
    <3>2. CASE ~Ends(p)
      <4> DEFINE x == [proc[p] EXCEPT !.pc = "ensure", !.tries = 1]
      <4>1. proc' = [proc EXCEPT ![p] = x] /\ UNCHANGED conn /\ x.held = proc[p].held
        BY <1>3, <2>1, <3>2 DEF RecordFails, Proc
      <4> QED BY <1>5, <1>8, <4>1
    <3> QED BY <3>1, <3>2
  <2>2. Actors
    BY <1>7, <1>15, <2>1 DEF InitializeRefused, Dies
  <2>3. Touch
    BY <1>2, <1>4, <1>15 DEF RecordFails, InitializeRefused, Dies, daemonVars
  <2> QED BY <1>1, <1>2, <1>15, <2>2, <2>3 DEF RecordFails, InitializeRefused, Dies, fileVars
<1>16. ASSUME NEW d \in Daemons, DaemonSteps(d) \/ DaemonTouches(d) PROVE NamesBorn'
  <2>1. Actors
    BY <1>2, <1>16 DEF DaemonSteps, DaemonTouches, DaemonProbes, DaemonUnlinks, DaemonBinds, DaemonBoots, DaemonTouched,
      DaemonIdles, DaemonCloses, DaemonRemoves
  <2>2. ASSUME DaemonBinds(d) PROVE NamesBorn'
    <3>1. CASE socket' = d
      <4>1. daemon'[d].pc # "unborn"
        BY <1>3, <2>2 DEF DaemonBinds, DaemonGoes, Daemon, DaemonAt
      <4>2. Touch /\ record'.d \in Names
        BY <1>4, <1>9, <2>2 DEF DaemonBinds
      <4> QED BY <1>0, <2>1, <3>1, <4>1, <4>2, NamesKept DEF NamesBorn, Named
    <3>2. CASE UNCHANGED socket
      BY <1>1, <1>2, <1>4, <2>1, <2>2, <3>2 DEF DaemonBinds
    <3> QED BY <2>2, <3>1, <3>2 DEF DaemonBinds
  <2>3. ASSUME DaemonTouched(d) PROVE NamesBorn'
    <3>1. record'.d \in Names
      BY <2>3 DEF DaemonTouched, Names
    <3>2. \A e \in Daemons : daemon'[e].touch.d \in {0, daemon[e].touch.d}
      BY <1>3, <2>3 DEF DaemonTouched, Daemon, NoRecord
    <3>3. Touch
      BY <3>2 DEF Names
    <3> QED BY <1>1, <1>9, <2>1, <2>3, <3>1, <3>3 DEF DaemonTouched
  <2>4. ASSUME DaemonTouches(d) PROVE NamesBorn'
    <3>1. \A e \in Daemons : daemon'[e].touch.d \in {record.d, daemon[e].touch.d}
      BY <1>3, <2>4 DEF DaemonTouches, Daemon
    <3>2. Touch
      BY <3>1 DEF Names
    <3> QED BY <1>1, <1>2, <2>1, <2>4, <3>2 DEF DaemonTouches, fileVars
  <2>5. ASSUME DaemonProbes(d) \/ DaemonUnlinks(d) \/ DaemonBoots(d) \/ DaemonIdles(d) \/ DaemonCloses(d)
                 \/ DaemonRemoves(d) PROVE NamesBorn'
    <3>1. Touch
      BY <1>4, <2>5 DEF DaemonProbes, DaemonUnlinks, DaemonBoots, DaemonIdles, DaemonCloses, DaemonRemoves
    <3>2. Files
      BY <1>2, <1>9, <2>5 DEF DaemonProbes, DaemonUnlinks, DaemonBoots, DaemonIdles, DaemonCloses, DaemonRemoves,
        RemovesState, RemovesSocket, RemovesBaseline, NoRecord, fileVars
    <3> QED BY <1>1, <2>1, <3>1, <3>2
  <2> QED BY <1>16, <2>2, <2>3, <2>4, <2>5 DEF DaemonSteps
<1>17. ASSUME NEW d \in Daemons, BootFails(d) \/ DaemonFails(d) PROVE NamesBorn'
  <2>1. Touch /\ Actors
    BY <1>2, <1>4, <1>17 DEF BootFails, DaemonFails
  <2>2. Files
    BY <1>2, <1>9, <1>17 DEF BootFails, DaemonFails, RemovesSocket, fileVars
  <2> QED BY <1>1, <2>1, <2>2
<1>18. ASSUME Edits \/ UNCHANGED vars PROVE NamesBorn'
  BY <1>1, <1>2, <1>18 DEF Edits, vars, daemonVars, fileVars
<1> QED BY <1>11, <1>12, <1>13, <1>14, <1>15, <1>16, <1>17, <1>18 DEF Next, ProcSteps

LEMMA InitNamesBorn == Init => NamesBorn
<1> SUFFICES ASSUME Init PROVE NamesBorn
  OBVIOUS
<1>1. record.d = 0 /\ socket = 0
  BY DEF Init, NoRecord
<1>2. \A p \in Procs : proc[p].held.d = 0 /\ conn[p] = 0
  BY DEF Init, Idle, NoRecord
<1>3. \A d \in Daemons : daemon[d].touch.d = 0
  BY DEF Init, DaemonAt, NoRecord
<1> QED BY <1>1, <1>2, <1>3 DEF NamesBorn, Named

(* Only p takes p's steps. *)
LEMMA KillIsLeft ==
  ASSUME TypeInv, [Next]_vars, NEW p \in Procs, At(p, "kill"), ~At(p, "kill")'
  PROVE  Kills(p) \/ faults' # faults
<1>1. /\ proc \in [Procs -> Proc] /\ proc[p].pc = "kill" /\ proc'[p].pc # "kill"
      /\ faults \in Nat
  BY DEF TypeInv, TypeOK, At
<1>2. ASSUME NEW q \in Procs, ProcSteps(q) \/ Begins(q) PROVE q = p /\ Kills(p)
  <2>1. q = p
    <3>1. \A r \in Procs \ {q} : proc'[r] = proc[r]
      BY <1>1, <1>2 DEF ProcSteps, Begins, Ensure, Stop, Cleans, Connect, EnsureReads, EnsureProbes, Launches,
        AwaitsReady, Records, StopReads, ShutsDown, Kills, Removes, Dials, Detects, WritesBaseline, WritesBack,
        Initializes, InitializeFails, Finishes, Goes, Moves, Ends, ConnectFails, Redials
    <3> QED BY <1>1, <3>1
  <2> QED BY <1>1, <1>2, <2>1 DEF ProcSteps, Begins, Ensure, Stop, Cleans, Connect, EnsureReads, EnsureProbes, Launches,
        AwaitsReady, Records, StopReads, ShutsDown, Removes, Dials, Detects, WritesBaseline, WritesBack,
        Initializes, InitializeFails, Finishes, At
<1>3. ASSUME NEW q \in Procs, RecordFails(q) \/ InitializeRefused(q) \/ Dies(q) PROVE faults' # faults
  BY <1>1, <1>3 DEF RecordFails, InitializeRefused, Dies
<1>4. ASSUME NEW d \in Daemons, BootFails(d) \/ DaemonFails(d) PROVE faults' # faults
  BY <1>1, <1>4 DEF BootFails, DaemonFails
<1>5. ASSUME NEW d \in Daemons, DaemonSteps(d) \/ DaemonTouches(d) PROVE FALSE
  BY <1>1, <1>5 DEF DaemonSteps, DaemonTouches, DaemonProbes, DaemonUnlinks, DaemonBinds, DaemonBoots, DaemonTouched,
      DaemonIdles, DaemonCloses, DaemonRemoves
<1>6. ~Edits /\ ~UNCHANGED vars
  BY <1>1 DEF Edits, vars
<1> QED BY <1>2, <1>3, <1>4, <1>5, <1>6 DEF Next

(* A daemon that a stop (stopStateProcess) has read from the state file is   *)
(* dead before any of its files go, whatever overlaps: a name always stands for a daemon that   *)
(* was started, so it is alive and killed, or dead.                          *)
THEOREM StoppedAreDead == Spec => StoppedIsDead
<1> DEFINE Inv == TypeInv /\ NamesBorn
           A   == \A p \in Procs : At(p, "kill") /\ ~At(p, "kill")' =>
                    \/ proc[p].held.d = 0
                    \/ daemon'[proc[p].held.d].pc = "gone"
                    \/ faults' # faults
<1>1. Init => Inv
  BY InitTypeInv, InitNamesBorn
<1>2. Inv /\ [Next]_vars => Inv'
  BY NextTypeInv, NextNamesBorn
<1>3. Inv /\ [Next]_vars => [A]_vars
  <2> SUFFICES ASSUME Inv, [Next]_vars, NEW p \in Procs, At(p, "kill"), ~At(p, "kill")',
                      faults' = faults, proc[p].held.d # 0
               PROVE  daemon'[proc[p].held.d].pc = "gone"
    OBVIOUS
  <2> DEFINE d == proc[p].held.d
  <2>1. Kills(p)
    BY KillIsLeft
  <2>2. d \in Daemons /\ daemon[d].pc # "unborn"
    BY InRange DEF NamesBorn, Named
  <2>3. daemon \in [Daemons -> Daemon]
    BY DEF TypeInv, TypeOK
  <2>4. CASE Alive(d)
    BY <2>1, <2>2, <2>3, <2>4 DEF Kills, DaemonGoes, DaemonAt
  <2>5. CASE ~Alive(d)
    BY <2>1, <2>2, <2>5 DEF Kills, Alive
  <2> QED BY <2>4, <2>5
<1> QED BY <1>1, <1>2, <1>3, PTL DEF Spec, StoppedIsDead
=============================================================================
