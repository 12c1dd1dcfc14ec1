------------------------------ MODULE QueryCommand ------------------------------
(***************************************************************************)
(* One refs, callers, implements, query or warmup command (cmd/cs) against *)
(* the language server of its workspace: what it is asked for, the calls   *)
(* it makes on its client, the walk over incoming calls, the three         *)
(* searches a query runs at once (pkg/engine), the text search they fall   *)
(* back on, and the probes of a warm-up.  A server that has not indexed    *)
(* the workspace has no symbols; it may index or die between two calls,    *)
(* and any call may fail.  The connection itself is DaemonConnector's      *)
(* (Lifecycle) and the client's calls are RpcClient's.                     *)
(***************************************************************************)
EXTENDS SymbolQueries

CONSTANTS
  Worlds,     (* the workspaces, in a sequence                               *)
  Commands,   (* the commands                                                *)
  MaxFaults   (* bound: connects and calls of a living server that fail      *)

Location == [file : Nat, line : Nat]

(* What a workspace is made of.  A server may report any place of any      *)
(* file, and file 0; calls are only known of an item that has a path.      *)
IsWorld(w) ==
  LET place == [file : {0} \cup DOMAIN w.files, line : Nat]
      file  == [path : Seq(STRING) \ {<<>>}, base : STRING, language : Nat,
                test : BOOLEAN, ignored : BOOLEAN, scope : BOOLEAN]
      name  == [of : STRING, base : STRING, wrapped : BOOLEAN, signed : BOOLEAN]
      item  == [name : STRING, file : {0} \cup DOMAIN w.files, line : Nat] IN
  /\ w.files \in Seq(file) /\ w.name \in name
  /\ IsFiniteSet(w.text)
  /\ w.text \subseteq [file : DOMAIN w.files, line : Nat, says : {"decl", "use", "import"}, call : BOOLEAN]
  /\ w.symbols \in Seq([name : name, container : STRING, kind : STRING, at : place])
  /\ {w.refs, w.items, w.impls} \subseteq Seq(place)
  /\ \A at \in DOMAIN w.calls : at \in place /\ at.file # 0 /\ w.calls[at] \in Seq(place)
  /\ {w.types, w.subtypes} \subseteq Seq(item)
  /\ w.defs \in Seq([file : DOMAIN w.files, line : Nat, lines : Nat, class : BOOLEAN, parses : BOOLEAN])

IsCommand(c) ==
  /\ c.op \in {"refs", "callers", "implements", "query", "warmup"}
  /\ c.kind \in STRING /\ c.depth \in Int /\ c.path \in {"all", "scope", "relative"}
  /\ c.budget \in STRING /\ c.looks \subseteq STRING /\ c.mode \in STRING
  /\ c.stat \in STRING /\ c.atRoot \in BOOLEAN

ASSUME CommandAssumption ==
  /\ MaxFaults \in Nat
  /\ \A i \in DOMAIN Worlds : IsWorld(Worlds[i])
  /\ \A c \in Commands : IsCommand(c)

VARIABLES
  world,    (* the workspace                                                 *)
  cmd,      (* the command                                                   *)
  server,   (* the language server                                           *)
  client,   (* the command's client                                          *)
  pc,       (* where the command is                                          *)
  part,     (* the searches it runs                                          *)
  walk,     (* walkIncoming: the calls under way, and the identities seen    *)
  outcome,  (* the result                                                    *)
  expired,  (* warm-up's deadline has passed                                 *)
  faults    (* failures of a living server                                   *)

given == <<world, cmd>>
vars == <<given, server, client, pc, part, walk, outcome, expired, faults>>

Parts == {"refs", "callers", "implements"}
Calls ==
  {"symbols", "uses", "prepareCalls", "incoming", "prepareTypes", "subtypes", "locations"}
Part ==
  [pc     : {"idle", "text", "listing", "ended"} \cup Calls,
   at     : Location,                     \* the declaration
   lines  : Seq(Location \cup [node : Location, depth : Nat] \cup [name : STRING, file : Nat, line : Nat]),
   source : {"", "lsp", "grep"},          \* what answered
   says   : {"", "failed", "uri", "ambiguous", "missing", "none"},  \* the error
   warned : BOOLEAN]                      \* the note of the cross-check

Idle == [pc |-> "idle", at |-> Nowhere, lines |-> <<>>, source |-> "", says |-> "", warned |-> FALSE]
NoWalk == [asks |-> Nowhere, todo |-> <<>>, seen |-> {}]
NoOutcome == [status |-> "", errors |-> {}, shown |-> [x \in Parts |-> {}], view |-> ""]

W == Worlds[world]
Language == DetectRefsLanguage(W)

Init ==
  /\ world \in DOMAIN Worlds /\ cmd \in Commands
  /\ \E installed, cold \in BOOLEAN :
       server = [installed |-> installed, up |-> TRUE, cold |-> cold, indexed |-> ~cold, opened |-> 0]
  /\ client = "none" /\ pc = "starts"
  /\ part = [x \in Parts |-> Idle] /\ walk = NoWalk
  /\ outcome = NoOutcome /\ expired = FALSE /\ faults = 0

-----------------------------------------------------------------------------
(* The command starts.                                                     *)

(* The command ends: whatever the way, its client is closed.               *)
Ends(result) ==
  /\ pc' = "ended" /\ outcome' = result
  /\ client' = IF client = "open" THEN "closed" ELSE client
EndsAs(status) == Ends([outcome EXCEPT !.status = status])

Starts(xs) == part' = [x \in Parts |-> IF x \in xs THEN [Idle EXCEPT !.pc = "symbols"] ELSE part[x]]

(* NormalizeRefKind and the check of --depth: a query makes any depth 1    *)
(* that is not positive.                                                   *)
Refused ==
  \/ cmd.op = "refs" /\ cmd.kind \notin AllowedRefKinds \cup {""}
  \/ cmd.op = "callers" /\ cmd.depth <= 0
Depth == Max2(1, cmd.depth)

Refuses ==
  /\ pc = "starts" /\ Refused /\ EndsAs("error")
  /\ UNCHANGED <<given, server, part, walk, expired, faults>>

(* The first steps of a command with its client, or without.               *)
Continues ==
  CASE cmd.op = "query"  -> pc' = "queries" /\ UNCHANGED part
    [] cmd.op = "warmup" -> pc' = "probes" /\ UNCHANGED part
    [] OTHER             -> pc' = "parts" /\ Starts({cmd.op})

(* PrimeClientWorkspace: some servers need a file of the workspace open.   *)
Primed(s) ==
  IF Language \in NeedsPriming THEN [s EXCEPT !.opened = WorkspacePrimeFile(W, Language)] ELSE s

Connects ==
  /\ pc = "starts" /\ ~Refused /\ Language # 0 /\ server.installed /\ server.up
  /\ client' = "open" /\ Continues
  /\ server' = Primed(server)
  /\ UNCHANGED <<given, walk, outcome, expired, faults>>

Unsupported == Language = 0
CanFail == ~server.up \/ faults < MaxFaults
Fault == faults' = IF server.up THEN faults + 1 ELSE faults

(* No language, no server, or no connection: refs and queries go on with   *)
(* the text, the others end.                                               *)
GoesWithout ==
  /\ pc = "starts" /\ ~Refused
  /\ IF Unsupported \/ ~server.installed THEN UNCHANGED faults ELSE CanFail /\ Fault
  /\ IF cmd.op \in {"refs", "query"}
     THEN /\ pc' = IF cmd.op = "refs" THEN "parts" ELSE "queries"
          /\ part' = IF cmd.op = "refs" THEN [part EXCEPT !["refs"].pc = "text"] ELSE part
          /\ UNCHANGED <<client, outcome>>
     ELSE /\ EndsAs(IF cmd.op = "warmup" /\ Unsupported THEN "unsupported" ELSE "error")
          /\ UNCHANGED part
  /\ UNCHANGED <<given, server, walk, expired>>

-----------------------------------------------------------------------------
(* The searches.                                                           *)

PartAt(x, step) == part[x].pc = step
Asked(x, step) == PartAt(x, step) /\ client = "open" /\ server.up
Found(x, at, step) == part' = [part EXCEPT ![x].at = at, ![x].pc = step]
Step(x, step) == part' = [part EXCEPT ![x].pc = step]
Errs(x, says) == part' = [part EXCEPT ![x] = [Idle EXCEPT !.pc = "ended", !.says = says]]
Answers(x, lines, source, warned) ==
  part' = [part EXCEPT ![x].pc = "ended", ![x].lines = lines, ![x].source = source, ![x].warned = warned]
Rest == UNCHANGED <<given, server, client, pc, outcome, expired>>
StillRest == Rest /\ UNCHANGED <<walk, faults>>

(* workspace/symbol *)
Symbols == IF server.indexed THEN W.symbols ELSE <<>>

(* findWithLSP, findRefsRawLSP: symbols that are missing, all of them or   *)
(* all that fit, leave the search to the text.                             *)
RefsLooksUp ==
  /\ Asked("refs", "symbols")
  /\ LET r == Resolved(W, cmd.path, ByName(Symbols, W.name, cmd.kind)) IN
     IF r.says \in {"uri", "ambiguous"} THEN Errs("refs", r.says)
     ELSE IF r.says = "missing" THEN Step("refs", "text") ELSE Found("refs", r.at, "uses")
  /\ StillRest

(* Mutant: no references, or an error among them, are taken to the text. *)
RefsReadsOrGreps ==
  /\ Asked("refs", "uses")
  /\ LET uses == ToReferenceLines(W, W.refs) IN
     IF BadURI(W.refs) \/ uses = {} THEN Step("refs", "text")
     ELSE Answers("refs", SetToSeq(uses), "lsp", FALSE)
  /\ StillRest

(* No references are checked against the text, except for a query.         *)
RefsReads ==
  /\ Asked("refs", "uses")
  /\ LET uses == ToReferenceLines(W, W.refs) IN
     IF BadURI(W.refs) THEN Errs("refs", "uri")
     ELSE Answers("refs", SetToSeq(uses), "lsp",
                  cmd.op = "refs" /\ uses = {} /\ Leftover(W, part["refs"].at) # {})
  /\ StillRest

(* The command finds nothing; a query just has no lines.                   *)
RefsGreps ==
  /\ PartAt("refs", "text")
  /\ IF GrepFind(W) = {} /\ cmd.op = "refs" THEN Errs("refs", "missing")
     ELSE Answers("refs", SetToSeq(GrepFind(W)), "grep", FALSE)
  /\ StillRest

CallersLooksUp ==
  /\ Asked("callers", "symbols")
  /\ LET r == Resolved(W, cmd.path, ByCallable(Symbols, W.name)) IN
     IF Symbols = <<>> THEN Errs("callers", "none")
     ELSE IF r.says # "one" THEN Errs("callers", r.says) ELSE Found("callers", r.at, "prepareCalls")
  /\ StillRest

(* A root the workspace ignores has no identity to be recognised by.       *)
CallersPrepares ==
  /\ Asked("callers", "prepareCalls")
  /\ LET root == PrepareCallHierarchy(W) IN
     IF W.items = <<>> THEN Answers("callers", <<>>, "lsp", FALSE) /\ UNCHANGED walk
     ELSE IF root.file = 0 THEN Errs("callers", "uri") /\ UNCHANGED walk
     ELSE /\ Step("callers", "incoming")
          /\ walk' = [NoWalk EXCEPT !.asks = root, !.seen = IF Shown(W, root.file) THEN {root} ELSE {}]
  /\ Rest /\ UNCHANGED faults

Incoming(at) == IF at \in DOMAIN W.calls THEN W.calls[at] ELSE <<>>

(* Mutant: the nodes of a level are not reserved. *)
CallersAsksUnreserved ==
  /\ Asked("callers", "incoming")
  /\ IF BadURI(Incoming(walk.asks))
     THEN Errs("callers", "uri") /\ walk' = NoWalk
     ELSE /\ Step("callers", "listing")
          /\ walk' = [walk EXCEPT !.asks = Nowhere,
                                  !.todo = Append(walk.todo, IncomingNodes(W, Incoming(walk.asks)) \ walk.seen)]
  /\ Rest /\ UNCHANGED faults

(* A call of walkIncoming: what has not been seen is reserved and is the   *)
(* level to list.                                                          *)
CallersAsks ==
  /\ Asked("callers", "incoming")
  /\ IF BadURI(Incoming(walk.asks))
     THEN Errs("callers", "uri") /\ walk' = NoWalk
     ELSE LET level == IncomingNodes(W, Incoming(walk.asks)) \ walk.seen IN
          /\ Step("callers", "listing")
          /\ walk' = [asks |-> Nowhere, todo |-> Append(walk.todo, level), seen |-> walk.seen \cup level]
  /\ Rest /\ UNCHANGED faults

(* Mutant: the last level is not asked for. *)
DescendsTooLittle(depth) == depth + 1 < Depth
Descends(depth) == depth < Depth

(* The next of a level is listed, and asked about if it is not too deep.   *)
CallersLists ==
  /\ PartAt("callers", "listing") /\ Last(walk.todo) # {}
  /\ LET node  == Least(Last(walk.todo))
         depth == Len(walk.todo) IN
     /\ part' = [part EXCEPT !["callers"].lines = Append(@, [node |-> node, depth |-> depth]),
                             !["callers"].pc = IF Descends(depth) THEN "incoming" ELSE "listing"]
     /\ walk' = [walk EXCEPT !.asks = IF Descends(depth) THEN node ELSE Nowhere,
                             !.todo = Append(Front(walk.todo), Last(walk.todo) \ {node})]
  /\ Rest /\ UNCHANGED faults

CallersReturns ==
  /\ PartAt("callers", "listing") /\ Last(walk.todo) = {}
  /\ IF Len(walk.todo) = 1
     THEN Answers("callers", part["callers"].lines, "lsp", FALSE) /\ walk' = NoWalk
     ELSE walk' = [walk EXCEPT !.todo = Front(walk.todo)] /\ UNCHANGED part
  /\ Rest /\ UNCHANGED faults

ImplementsLooksUp ==
  /\ Asked("implements", "symbols")
  /\ LET r == Resolved(W, cmd.path, ByName(Symbols, W.name, "")) IN
     IF Symbols = <<>> THEN Errs("implements", "none")
     ELSE IF r.says # "one" THEN Errs("implements", r.says) ELSE Found("implements", r.at, "prepareTypes")
  /\ StillRest

ImplementsPrepares ==
  /\ Asked("implements", "prepareTypes")
  /\ Step("implements", IF PrepareTypeHierarchy(W) THEN "subtypes" ELSE "locations")
  /\ StillRest

(* Subtypes that are none, or all ignored, leave it to the locations.      *)
ImplementsReads ==
  /\ Asked("implements", "subtypes")
  /\ LET lines == ToImplementationLines(W, W.subtypes) IN
     IF BadURI(W.subtypes) THEN Errs("implements", "uri")
     ELSE IF lines = {} THEN Step("implements", "locations")
     ELSE Answers("implements", SetToSeq(lines), "lsp", FALSE)
  /\ StillRest

ImplementsLocates ==
  /\ Asked("implements", "locations")
  /\ IF BadURI(W.impls) THEN Errs("implements", "uri")
     ELSE Answers("implements", SetToSeq(LocationsToImplementationLines(W, W.impls)), "lsp", FALSE)
  /\ StillRest

(* Mutant: the walk is not left. *)
CallFailsMidWalk(x) ==
  /\ part[x].pc \in Calls /\ CanFail /\ Fault
  /\ IF x = "refs" THEN Step(x, "text")
     ELSE IF part[x].pc = "locations" THEN Answers(x, <<>>, "", FALSE) ELSE Errs(x, "failed")
  /\ Rest /\ UNCHANGED walk

(* A call fails: references are left to the text, implementations whose    *)
(* locations fail are none, anything else fails the search.                *)
CallFails(x) ==
  /\ part[x].pc \in Calls /\ CanFail /\ Fault
  /\ IF x = "refs" THEN Step(x, "text")
     ELSE IF part[x].pc = "locations" THEN Answers(x, <<>>, "", FALSE) ELSE Errs(x, "failed")
  /\ walk' = IF x = "callers" THEN NoWalk ELSE walk
  /\ Rest

Searches ==
  \/ RefsLooksUp \/ RefsReads \/ RefsGreps
  \/ CallersLooksUp \/ CallersPrepares \/ CallersAsks \/ CallersLists \/ CallersReturns
  \/ ImplementsLooksUp \/ ImplementsPrepares \/ ImplementsReads \/ ImplementsLocates
  \/ \E x \in Parts : CallFails(x)

AllEnded == \A x \in Parts : part[x].pc \in {"idle", "ended"}
Failed == {x \in Parts : part[x].says # ""}
Lines(x) == ToSet(part[x].lines)

(* refs, callers and implements print what they found, or their error.     *)
Prints ==
  /\ pc = "parts" /\ cmd.op \in Parts /\ AllEnded
  /\ Ends([outcome EXCEPT !.status = IF Failed = {} THEN "ok" ELSE "error",
                          !.errors = Failed, !.shown[cmd.op] = Lines(cmd.op)])
  /\ UNCHANGED <<given, server, part, walk, expired, faults>>

-----------------------------------------------------------------------------
(* Engine.Query                                                            *)

Budget == ComputeBudget(cmd.budget, Depth)
Items(lines) == Max2(1, lines \div 2)

(* Where the query goes.  Without a definition a symbol is looked for in   *)
(* the text; with one, and with a client, three searches start at once.    *)
Queries ==
  /\ pc = "queries"
  /\ LET intent == Classify(cmd.looks, cmd.mode)
         texts  == intent = "text" \/ (intent = "symbol" /\ W.defs = <<>>)
         xs     == IF client = "open" /\ ~texts THEN Parts ELSE {"refs"} IN
     IF intent = "ast" THEN EndsAs("not_found") /\ UNCHANGED part
     ELSE IF intent = "path" THEN EndsAs(QueryPath(cmd.stat)) /\ UNCHANGED part
     ELSE /\ pc' = IF texts THEN "text" ELSE "parts"
          /\ part' = [x \in Parts |-> IF x \notin xs THEN Idle
                        ELSE [Idle EXCEPT !.pc = IF client = "open" THEN "symbols" ELSE "text"]]
          /\ outcome' = IF texts THEN outcome
                        ELSE [outcome EXCEPT !.status = "ok",
                                !.view = View(W.defs[1], Budget.definition, cmd.atRoot, "cue" \in cmd.looks)]
          /\ UNCHANGED client
  /\ UNCHANGED <<given, server, walk, expired, faults>>

(* queryText: text matches, ranked by the first one's place, or a semantic *)
(* search.                                                                 *)
QueryTexts ==
  /\ pc = "text" /\ AllEnded
  /\ LET found == Lines("refs")
         told  == [outcome EXCEPT !.errors = IF Failed = {} THEN {} ELSE {"text search"}] IN
     IF found = {} THEN outcome' = told /\ pc' = "semantic" /\ UNCHANGED client
     ELSE Ends([told EXCEPT !.status = "ok",
                  !.shown["refs"] = ScoreReferences(W, found, Least(found).file, Items(Budget.references))])
  /\ UNCHANGED <<given, server, part, walk, expired, faults>>

(* The semantic search may be missing, fail, or find nothing: then a text  *)
(* query has no status, a symbol's is not_found_exact.                     *)
QueryMeans ==
  /\ pc = "semantic"
  /\ \E found \in {"nothing", "fails", "some"} :
       Ends([outcome EXCEPT
               !.errors = @ \cup (IF found = "fails" THEN {"semantic search"} ELSE {}),
               !.status = IF found = "some" THEN "ok"
                          ELSE IF Classify(cmd.looks, cmd.mode) = "symbol" THEN "not_found_exact" ELSE ""])
  /\ UNCHANGED <<given, server, part, walk, expired, faults>>

(* Mutant: one error is kept. *)
QueryJoinsOneError ==
  /\ pc = "parts" /\ cmd.op = "query" /\ AllEnded
  /\ LET g == W.defs[1].file IN
     Ends([outcome EXCEPT
       !.errors = IF Failed = {} THEN {} ELSE {CHOOSE x \in Failed : TRUE},
       !.shown = [refs       |-> ScoreReferences(W, Lines("refs"), g, Items(Budget.references)),
                  callers    |-> ScoreCallers(W, part["callers"].lines, g, Items(Budget.callers)),
                  implements |-> Lines("implements")]])
  /\ UNCHANGED <<given, server, part, walk, expired, faults>>

(* The three are awaited; each is listed by its rank and up to its budget, *)
(* or as an error.                                                         *)
QueryJoins ==
  /\ pc = "parts" /\ cmd.op = "query" /\ AllEnded
  /\ LET g == W.defs[1].file IN
     Ends([outcome EXCEPT
       !.errors = Failed,
       !.shown = [refs       |-> ScoreReferences(W, Lines("refs"), g, Items(Budget.references)),
                  callers    |-> ScoreCallers(W, part["callers"].lines, g, Items(Budget.callers)),
                  implements |-> Lines("implements")]])
  /\ UNCHANGED <<given, server, part, walk, expired, faults>>

-----------------------------------------------------------------------------
(* Warm-up: probes until the server has symbols or the time is over.       *)

Probes ==
  /\ pc = "probes" /\ server.up
  /\ IF Symbols # <<>> THEN EndsAs("ready") ELSE pc' = "waits" /\ UNCHANGED <<client, outcome>>
  /\ UNCHANGED <<given, server, part, walk, expired, faults>>
ProbeFails ==
  /\ pc = "probes" /\ CanFail /\ Fault /\ EndsAs("error")
  /\ UNCHANGED <<given, server, part, walk, expired>>
Ticks ==
  /\ pc = "waits" /\ pc' = "probes"
  /\ UNCHANGED <<given, server, client, part, walk, outcome, expired, faults>>

(* Mutants: the deadline passes for readiness; it is not looked at. *)
GivesUpReady ==
  /\ pc = "waits" /\ expired /\ EndsAs("ready")
  /\ UNCHANGED <<given, server, part, walk, expired, faults>>
GivesUpNever == FALSE /\ UNCHANGED vars
GivesUp ==
  /\ pc = "waits" /\ expired /\ EndsAs("error")
  /\ UNCHANGED <<given, server, part, walk, expired, faults>>
Warmup == Probes \/ ProbeFails \/ Ticks

-----------------------------------------------------------------------------
(* The surroundings.                                                       *)

(* A server may index the workspace once it serves it; some only if a file *)
(* of it is open.                                                          *)
Indexes ==
  /\ pc # "ended" /\ client = "open" /\ server.up /\ ~server.indexed
  /\ Language \in NeedsPriming => server.opened # 0
  /\ server' = [server EXCEPT !.indexed = TRUE]
  /\ UNCHANGED <<given, client, pc, part, walk, outcome, expired, faults>>
Dies ==
  /\ pc # "ended" /\ client = "open" /\ server.up /\ server' = [server EXCEPT !.up = FALSE]
  /\ UNCHANGED <<given, client, pc, part, walk, outcome, expired, faults>>
Expires ==
  /\ pc \in {"probes", "waits"} /\ ~expired /\ expired' = TRUE
  /\ UNCHANGED <<given, server, client, pc, part, walk, outcome, faults>>

Command ==
  \/ Refuses \/ Connects \/ GoesWithout \/ Searches \/ Prints
  \/ Queries \/ QueryTexts \/ QueryMeans \/ QueryJoins \/ Warmup \/ GivesUp
Next == Command \/ Indexes \/ Dies \/ Expires

Spec == Init /\ [][Next]_vars

(* The command runs, time passes, and Go's select takes either of a tick   *)
(* and a deadline that are both there.                                     *)
FairSpec == Spec /\ WF_vars(Command) /\ WF_vars(Expires) /\ SF_vars(GivesUp)

-----------------------------------------------------------------------------
(* Properties                                                              *)

(* Values are what they should be; a search that failed has no lines, and  *)
(* a walk is only under way while the search for callers is.               *)
TypeOK ==
  /\ world \in DOMAIN Worlds /\ cmd \in Commands
  /\ server \in [installed : BOOLEAN, up : BOOLEAN, cold : BOOLEAN, indexed : BOOLEAN, opened : Nat]
  /\ client \in {"none", "open", "closed"}
  /\ pc \in {"starts", "queries", "text", "semantic", "parts", "probes", "waits", "ended"}
  /\ part \in [Parts -> Part]
  /\ \A x \in Parts : part[x].says # "" => part[x].pc = "ended" /\ part[x].lines = <<>>
  /\ (walk.todo # <<>> \/ walk.asks # Nowhere) => part["callers"].pc \in {"incoming", "listing"}
  /\ outcome.status \in {"", "ok", "not_found", "not_found_exact", "file_too_large", "ready",
                         "unsupported", "error"}
  /\ expired \in BOOLEAN /\ faults \in 0 .. MaxFaults


(* Nothing is lost: a refs command that ends, other than by an ambiguous   *)
(* name or a URI it cannot read, lists something or warns whenever the     *)
(* workspace's text has the symbol outside its declaration and imports:    *)
(* a server that is cold, dead or without context (findWithLSP,            *)
(* zeroRefsCrossCheckNote) does not make "0 references" of it.             *)
NothingIsLost ==
  LET p == part["refs"] IN
  (cmd.op = "refs" /\ p.pc = "ended" /\ p.says \notin {"uri", "ambiguous"}
    /\ Printed(W, GrepFind(W)) \ {p.at} # {})
  => p.lines # <<>> \/ p.warned

Candidates(x) ==
  Reached(W, cmd.path, IF x = "callers" THEN ByCallable(W.symbols, W.name)
                       ELSE ByName(W.symbols, W.name, IF x = "refs" THEN cmd.kind ELSE ""))

(* One definition: what the server says is only ever listed if exactly one *)
(* symbol in reach has the name and the kind, so the lists of a query are  *)
(* about one declaration each (resolveCandidates and its callers).         *)
OneDefinition == \A x \in Parts : part[x].source = "lsp" => Cardinality(Candidates(x)) = 1

Root == PrepareCallHierarchy(W)
Calling(at) == IncomingNodes(W, Incoming(at))

(* The callers listed are a tree over the symbol, even while they are      *)
(* listed: each calls the last one before it that is a level up, none is   *)
(* deeper than asked, none comes twice, none is the symbol (walkIncoming). *)
CallersAreATree ==
  LET list == part["callers"].lines IN
  \A i \in DOMAIN list :
    LET d == list[i].depth IN
    /\ d \in 1 .. Depth /\ list[i].node # Root
    /\ \A j \in 1 .. i - 1 : list[j].node # list[i].node
    /\ IF d = 1 THEN list[i].node \in Calling(Root)
       ELSE \E j \in 1 .. i - 1 :
              /\ list[j].depth = d - 1 /\ list[i].node \in Calling(list[j].node)
              /\ \A k \in j + 1 .. i - 1 : list[k].depth >= d

(* The callers listed are closed: when the search ends well, all that call *)
(* the symbol are at depth 1, and all that call one listed above the last  *)
(* level are listed (walkIncoming's seen and ancestors cut only repeats).  *)
CallersAreClosed ==
  LET p     == part["callers"]
      nodes == {p.lines[i].node : i \in DOMAIN p.lines} IN
  (p.pc = "ended" /\ p.source = "lsp") =>
    /\ {p.lines[i].node : i \in {j \in DOMAIN p.lines : p.lines[j].depth = 1}} = Calling(Root) \ {Root}
    /\ \A i \in DOMAIN p.lines :
         p.lines[i].depth < Depth => Calling(p.lines[i].node) \subseteq nodes \cup {Root}

(* A query with a definition ends with it, with an error for each of its   *)
(* three searches that failed, and with some lines, as many as the budget  *)
(* allows, of each that found any, whatever happened to the other two      *)
(* (querySymbol).                                                          *)
QueryKeepsParts ==
  (pc = "ended" /\ outcome.view # "") =>
    /\ outcome.status = "ok" /\ outcome.errors = Failed
    /\ \A x \in Parts : outcome.shown[x] \subseteq Lines(x)
    /\ Cardinality(outcome.shown["refs"]) = Min2(Cardinality(Lines("refs")), Items(Budget.references))
    /\ Cardinality(outcome.shown["callers"]) = Min2(Cardinality(Lines("callers")), Items(Budget.callers))
    /\ outcome.shown["implements"] = Lines("implements")

(* Precision is kept: with a server that had indexed the workspace and a   *)
(* connection on which nothing failed, a search for a name that has one    *)
(* definition in reach ends with the server's answer, never with the       *)
(* text's and never with an error (a URI it cannot read excepted).         *)
PrecisionIsKept ==
  (pc = "ended" /\ client = "closed" /\ server.up /\ ~server.cold /\ faults = 0) =>
    \A x \in Parts :
      (part[x].pc = "ended" /\ Cardinality(Candidates(x)) = 1) =>
        part[x].says = "uri" \/ (part[x].says = "" /\ part[x].source = "lsp")

(* A warm-up that reports readiness leaves a server that has indexed the   *)
(* workspace, one that needed a file of it opened included, whatever the   *)
(* order of its ticks, its deadline and the answers.                       *)
WarmMeansIndexed == outcome.status = "ready" => server.indexed /\ server.up

(* Every command ends with its client closed, whatever fails, dies or is   *)
(* never indexed (executeLSPWarmupWithRegistry's deadline, wg.Wait).       *)
QueryEnds == <>(pc = "ended" /\ client # "open")
=============================================================================
