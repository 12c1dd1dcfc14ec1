-------------------------- MODULE QueryCommandProofs --------------------------
(***************************************************************************)
(* Theorems about QueryCommand, for all workspaces, commands and numbers   *)
(* of failures, and their proofs.                                          *)
(***************************************************************************)
EXTENDS QueryCommand, DataLemmas

-----------------------------------------------------------------------------
(***************************************************************************)
(* The inductive invariant.                                                *)

(* The walk and the result are typed, beside what TypeOK says.             *)
WalkTyped == walk \in [asks : Location, todo : Seq(SUBSET Location), seen : SUBSET Location]
Views == {"", "full_body", "signature_plus_outline", "signature_plus_slices"}
Result(r) == r \in [status : {r.status}, errors : {r.errors}, shown : {r.shown}, view : Views]
OutcomeTyped == Result(outcome)

(* A command comes to a search, and ends, in order.                        *)
Orderly ==
  /\ pc \in {"starts", "queries", "probes", "waits"} => part = [x \in Parts |-> Idle] /\ outcome = NoOutcome
  /\ pc = "starts" => client = "none"
  /\ client = "closed" => pc = "ended"
  /\ pc \in {"semantic", "ended"} => AllEnded
  /\ pc \in {"queries", "text", "semantic"} => cmd.op = "query"
  /\ pc \in {"probes", "waits"} => cmd.op = "warmup"
  /\ part["callers"].pc \notin {"incoming", "listing"} => walk = NoWalk
  /\ part["callers"].pc = "listing" => walk.todo # <<>>
Ready == outcome.status = "ready" => pc = "ended" /\ server.indexed /\ server.up

(* What a search works on once it has looked its symbol up.                *)
Resolving == {"uses", "prepareCalls", "incoming", "listing", "prepareTypes", "subtypes", "locations"}
OneFound ==
  \A x \in Parts :
    part[x].pc \in Resolving \/ part[x].source = "lsp" => Cardinality(Candidates(x)) = 1

Precise ==
  /\ ~server.cold => server.indexed
  /\ (client # "none" /\ server.up /\ ~server.cold /\ faults = 0) =>
       \A x \in Parts :
         Cardinality(Candidates(x)) = 1 =>
           /\ part[x].pc # "text"
           /\ part[x].pc = "ended" =>
                part[x].says = "uri" \/ (part[x].says = "" /\ part[x].source = "lsp")

Listed == part["callers"].lines
Todo == walk.todo
NodesOf(list) == {list[i].node : i \in DOMAIN list}

(* A list is a tree; each level still to list hangs below the last node of *)
(* the level above it, and has nothing in common with the list, the root   *)
(* and the other levels; what has been seen is all of them.                *)
IsTree(list) ==
  \A i \in DOMAIN list :
    LET d == list[i].depth IN
    /\ d \in 1 .. Depth /\ list[i].node # Root
    /\ \A j \in 1 .. i - 1 : list[j].node # list[i].node
    /\ IF d = 1 THEN list[i].node \in Calling(Root)
       ELSE \E j \in 1 .. i - 1 :
              /\ list[j].depth = d - 1 /\ list[i].node \in Calling(list[j].node)
              /\ \A k \in j + 1 .. i - 1 : list[k].depth >= d
HangsAt(list, level, d) ==
  IF d = 1 THEN level \subseteq Calling(Root)
  ELSE \E j \in DOMAIN list :
         /\ list[j].depth = d - 1 /\ level \subseteq Calling(list[j].node)
         /\ \A k \in j + 1 .. Len(list) : list[k].depth >= d
Hangs(list, todo) == \A d \in DOMAIN todo : HangsAt(list, todo[d], d)
Apart(list, todo) ==
  /\ \A d \in DOMAIN todo : todo[d] \cap NodesOf(list) = {} /\ Root \notin todo[d]
  /\ \A d, e \in DOMAIN todo : d # e => todo[d] \cap todo[e] = {}
Levels(todo) == UNION ToSet(todo)
RootShown == {r \in {Root} : Shown(W, r.file)}
Seen(list, todo) == NodesOf(list) \cup Levels(todo) \cup RootShown

(* The node asked about is the last listed, or the root; what is not a     *)
(* walk has listed nothing, unless it is over.                             *)
AsksNext(list, todo, step, source, asks) ==
  /\ step = "incoming" =>
       /\ Len(todo) < Depth
       /\ IF todo = <<>> THEN list = <<>> /\ asks = Root
          ELSE list # <<>> /\ list[Len(list)] = [node |-> asks, depth |-> Len(todo)]
  /\ step = "listing" => Len(todo) <= Depth
  /\ step \notin {"incoming", "listing"} => todo = <<>>
  /\ step \notin {"incoming", "listing"} /\ ~(step = "ended" /\ source = "lsp") => list = <<>>
TreeOn(list, todo, step, source, asks, seen) ==
  /\ IsTree(list) /\ Hangs(list, todo) /\ Apart(list, todo)
  /\ step \in {"incoming", "listing"} => seen = Seen(list, todo)
  /\ AsksNext(list, todo, step, source, asks)
Tree == TreeOn(Listed, Todo, part["callers"].pc, part["callers"].source, walk.asks, walk.seen)

(* All that call a node that was asked about have been seen, and all that  *)
(* call the root are listed at depth 1 or still to list there.             *)
Tops(list) == {list[i].node : i \in {j \in DOMAIN list : list[j].depth = 1}}
ClosedOn(list, todo, step, source) ==
  /\ \A i \in DOMAIN list :
       list[i].depth < Depth /\ ~(step = "incoming" /\ i = Len(list)) =>
         Calling(list[i].node) \subseteq Seen(list, todo) \cup {Root}
  /\ todo # <<>> => Calling(Root) \ {Root} \subseteq Tops(list) \cup todo[1]
  /\ step = "ended" /\ source = "lsp" => Calling(Root) \ {Root} \subseteq Tops(list)
Closed == ClosedOn(Listed, Todo, part["callers"].pc, part["callers"].source)

-----------------------------------------------------------------------------
(* What the operators of SymbolQueries return.                             *)

Places(w) == [file : {0} \cup DOMAIN w.files, line : Nat]

LEMMA WorldIs ==
  ASSUME world \in DOMAIN Worlds
  PROVE  IsWorld(W)
BY CommandAssumption DEF W

FileRecord ==
  [path : Seq(STRING) \ {<<>>}, base : STRING, language : Nat, test : BOOLEAN, ignored : BOOLEAN, scope : BOOLEAN]

LEMMA FilesAre ==
  ASSUME NEW w, IsWorld(w), NEW f \in DOMAIN w.files
  PROVE  w.files[f] \in FileRecord /\ f \in 1 .. Len(w.files) /\ Len(w.files) \in Nat
<1>1. w.files \in Seq(FileRecord) BY Zenon DEF IsWorld, FileRecord
<1>. QED BY <1>1

LEMMA PlacesAreLocations ==
  ASSUME NEW w, IsWorld(w)
  PROVE  Places(w) \subseteq Location /\ DOMAIN w.files \subseteq Nat \ {0}
<1>1. DOMAIN w.files \subseteq Nat \ {0} BY DEF IsWorld
<1>. QED BY <1>1 DEF Places, Location

(* What the code lists of a server's places, and of the text, is finitely  *)
(* many locations in files that are shown.                                 *)
LEMMA LinesAre ==
  ASSUME NEW w, IsWorld(w), NEW s \in Seq(Places(w))
  PROVE  /\ IsFiniteSet(ToReferenceLines(w, s)) /\ ToReferenceLines(w, s) \subseteq Places(w)
         /\ \A at \in ToReferenceLines(w, s) : Shown(w, at.file)
<1> DEFINE T == {y \in ToSet(s) : Shown(w, y.file)}
           f == [x \in T |-> At(x)]
<1>1. IsFiniteSet(ToSet(s)) /\ ToSet(s) \subseteq Places(w) BY FiniteElements
<1>2. IsFiniteSet(T) /\ T \subseteq Places(w)
  <2>1. T \in SUBSET ToSet(s) OBVIOUS
  <2> HIDE DEF T
  <2>. QED BY <1>1, <2>1, FS_Subset
<1>3. \A x \in T : At(x) \in Places(w) /\ Shown(w, At(x).file)
  <2>1. \A x \in T : Shown(w, x.file) OBVIOUS
  <2> HIDE DEF T
  <2>. QED BY <1>2, <2>1 DEF At, Places
<1>4. IsFiniteSet({f[x] : x \in DOMAIN f})
  <2>1. DOMAIN f = T /\ f = [x \in DOMAIN f |-> f[x]] OBVIOUS
  <2> HIDE DEF f, T
  <2>. QED BY <1>2, <2>1, FiniteValues
<1>5. ToReferenceLines(w, s) = {f[x] : x \in DOMAIN f} BY DEF ToReferenceLines
<1>. QED BY <1>3, <1>4, <1>5

LEMMA GrepIs ==
  ASSUME NEW w, IsWorld(w)
  PROVE  IsFiniteSet(GrepFind(w)) /\ GrepFind(w) \subseteq Places(w)
<1> DEFINE T == {u \in w.text : Shown(w, u.file)}
           f == [x \in T |-> At(x)]
<1>1. IsFiniteSet(w.text) /\ \A u \in w.text : u.file \in DOMAIN w.files /\ u.line \in Nat
  <2>1. IsFiniteSet(w.text) BY DEF IsWorld
  <2>2. w.text \subseteq [file : DOMAIN w.files, line : Nat, says : {"decl", "use", "import"}, call : BOOLEAN]
    BY Zenon DEF IsWorld
  <2>. QED BY <2>1, <2>2
<1>2. IsFiniteSet(T)
  <2>1. T \in SUBSET w.text OBVIOUS
  <2> HIDE DEF T
  <2>. QED BY <1>1, <2>1, FS_Subset
<1>3. \A x \in T : At(x) \in Places(w)
  <2>1. \A x \in T : x \in w.text OBVIOUS
  <2> HIDE DEF T
  <2>. QED BY <1>1, <2>1 DEF At, Places
<1>4. IsFiniteSet({f[x] : x \in DOMAIN f})
  <2>1. DOMAIN f = T /\ f = [x \in DOMAIN f |-> f[x]] OBVIOUS
  <2> HIDE DEF f, T
  <2>. QED BY <1>2, <2>1, FiniteValues
<1>5. GrepFind(w) = {f[x] : x \in DOMAIN f} BY DEF GrepFind
<1>. QED BY <1>3, <1>4, <1>5

ItemsOf(w) == [name : STRING, file : {0} \cup DOMAIN w.files, line : Nat]
LEMMA ImplementationsAre ==
  ASSUME NEW w, IsWorld(w), NEW s \in Seq(ItemsOf(w))
  PROVE  IsFiniteSet(ToImplementationLines(w, s)) /\ ToImplementationLines(w, s) \subseteq ItemsOf(w)
<1>1. IsFiniteSet(ToSet(s)) /\ ToSet(s) \subseteq ItemsOf(w) BY FiniteElements
<1>2. ToImplementationLines(w, s) \in SUBSET ToSet(s) BY DEF ToImplementationLines
<1>. QED BY <1>1, <1>2, FS_Subset

LEMMA LocatedAre ==
  ASSUME NEW w, IsWorld(w), NEW s \in Seq(Places(w))
  PROVE  /\ IsFiniteSet(LocationsToImplementationLines(w, s))
         /\ LocationsToImplementationLines(w, s) \subseteq ItemsOf(w)
<1> DEFINE T == {y \in ToSet(s) : Shown(w, y.file)}
           f == [x \in T |-> [name |-> w.files[x.file].base, file |-> x.file, line |-> x.line]]
<1>1. IsFiniteSet(ToSet(s)) /\ ToSet(s) \subseteq Places(w) BY FiniteElements
<1>2. IsFiniteSet(T) /\ T \subseteq Places(w)
  <2>1. T \in SUBSET ToSet(s) OBVIOUS
  <2> HIDE DEF T
  <2>. QED BY <1>1, <2>1, FS_Subset
<1>3. \A x \in T : f[x] \in ItemsOf(w)
  <2>1. \A x \in T : x.file # 0 BY DEF Shown
  <2> SUFFICES ASSUME NEW x \in T PROVE f[x] \in ItemsOf(w) OBVIOUS
  <2>2. f[x] = [name |-> w.files[x.file].base, file |-> x.file, line |-> x.line] OBVIOUS
  <2> HIDE DEF T, f
  <2>3. x.file \in DOMAIN w.files /\ x.line \in Nat BY <1>2, <2>1 DEF Places
  <2>4. w.files[x.file] \in FileRecord BY <2>3, FilesAre
  <2>6. w.files[x.file].base \in STRING BY <2>4 DEF FileRecord
  <2>. QED BY <2>2, <2>3, <2>6 DEF ItemsOf
<1>4. IsFiniteSet({f[x] : x \in DOMAIN f})
  <2>1. DOMAIN f = T /\ f = [x \in DOMAIN f |-> f[x]] OBVIOUS
  <2> HIDE DEF f, T
  <2>. QED BY <1>2, <2>1, FiniteValues
<1>5. LocationsToImplementationLines(w, s) = {f[x] : x \in DOMAIN f}
  BY DEF LocationsToImplementationLines
<1>6. DOMAIN f = T OBVIOUS
<1> HIDE DEF f, T
<1>. QED BY <1>3, <1>4, <1>5, <1>6

(* The least of a set of locations exists, and comes before the others.    *)
LEMMA LeastIs ==
  ASSUME NEW S \in SUBSET Location, S # {}
  PROVE  Least(S) \in S
<1> DEFINE F == {a.file : a \in S}
<1>1. F \in SUBSET Nat /\ F # {} BY DEF Location
<1>2. PICK k \in F : \A j \in F : k <= j
  <2> HIDE DEF F
  <2>. QED BY <1>1, LeastNumber
<1> DEFINE L == {a.line : a \in {b \in S : b.file = k}}
<1>3. L \in SUBSET Nat /\ L # {} BY <1>2 DEF Location
<1>4. PICK n \in L : \A j \in L : n <= j
  <2> HIDE DEF L
  <2>. QED BY <1>3, LeastNumber
<1>5. PICK a \in S : a.file = k /\ a.line = n BY <1>4
<1>6. ASSUME NEW b \in S \ {a} PROVE Before(a, b)
  <2>1. b \in Location /\ a \in Location /\ b # a OBVIOUS
  <2>2. b.file \in F OBVIOUS
  <2>3. b.file = k => b.line \in L OBVIOUS
  <2>4. a.file <= b.file BY <1>2, <1>5, <2>2
  <2>5. b.file = a.file => a.line <= b.line BY <1>4, <1>5, <2>3
  <2>6. b.file # a.file \/ b.line # a.line BY <2>1 DEF Location
  <2>. QED BY <2>1, <2>4, <2>5, <2>6 DEF Before, Location
<1>7. \E c \in S : \A b \in S \ {c} : Before(c, b) BY <1>5, <1>6
<1>. QED BY <1>7, Zenon DEF Least

-----------------------------------------------------------------------------
(* The steps of one search change its record and no other's.               *)

Only(x) == \A y \in Parts \ {x} : part'[y] = part[y]
With(x, step, at, lines, source, says, warned) ==
  /\ Only(x) /\ part' = [y \in Parts |-> part'[y]]
  /\ part'[x] \in [pc : {step}, at : {at}, lines : {lines}, source : {source}, says : {says}, warned : {warned}]

LEMMA StepIs ==
  ASSUME NEW x \in Parts, NEW step, part \in [Parts -> Part], Step(x, step)
  PROVE  With(x, step, part[x].at, part[x].lines, part[x].source, part[x].says, part[x].warned)
<1>1. part' = [part EXCEPT ![x] = [part[x] EXCEPT !.pc = step]] BY DEF Step
<1>2. part[x] \in Part OBVIOUS
<1>3. [part[x] EXCEPT !.pc = step]
        \in [pc : {step}, at : {part[x].at}, lines : {part[x].lines}, source : {part[x].source},
             says : {part[x].says}, warned : {part[x].warned}]
  BY <1>2 DEF Part
<1> DEFINE r == [part[x] EXCEPT !.pc = step]
<1> HIDE DEF r
<1>4. part' = [part EXCEPT ![x] = r] BY <1>1 DEF r
<1>5. Only(x) /\ part' = [y \in Parts |-> part'[y]] /\ part'[x] = r BY <1>4 DEF Only
<1>. QED BY <1>3, <1>5 DEF With, r

LEMMA FoundIs ==
  ASSUME NEW x \in Parts, NEW step, NEW at, part \in [Parts -> Part], Found(x, at, step)
  PROVE  With(x, step, at, part[x].lines, part[x].source, part[x].says, part[x].warned)
<1> DEFINE r == [[part[x] EXCEPT !.at = at] EXCEPT !.pc = step]
<1>1. part' = [part EXCEPT ![x] = r] BY DEF Found
<1>2. part[x] \in Part OBVIOUS
<1>3. r \in [pc : {step}, at : {at}, lines : {part[x].lines}, source : {part[x].source},
             says : {part[x].says}, warned : {part[x].warned}]
  BY <1>2 DEF Part
<1> HIDE DEF r
<1>5. Only(x) /\ part' = [y \in Parts |-> part'[y]] /\ part'[x] = r BY <1>1 DEF Only
<1>. QED BY <1>3, <1>5 DEF With

LEMMA AnswersIs ==
  ASSUME NEW x \in Parts, NEW lines, NEW source, NEW warned, part \in [Parts -> Part],
         Answers(x, lines, source, warned)
  PROVE  With(x, "ended", part[x].at, lines, source, part[x].says, warned)
<1> DEFINE r == [[[[part[x] EXCEPT !.pc = "ended"] EXCEPT !.lines = lines] EXCEPT !.source = source]
                   EXCEPT !.warned = warned]
<1>1. part' = [part EXCEPT ![x] = r] BY DEF Answers
<1>2. part[x] \in Part OBVIOUS
<1>3. r \in [pc : {"ended"}, at : {part[x].at}, lines : {lines}, source : {source},
             says : {part[x].says}, warned : {warned}]
  BY <1>2 DEF Part
<1> HIDE DEF r
<1>5. Only(x) /\ part' = [y \in Parts |-> part'[y]] /\ part'[x] = r BY <1>1 DEF Only
<1>. QED BY <1>3, <1>5 DEF With

LEMMA ErrsIs ==
  ASSUME NEW x \in Parts, NEW says, part \in [Parts -> Part], Errs(x, says)
  PROVE  With(x, "ended", Nowhere, <<>>, "", says, FALSE)
<1> DEFINE r == [[Idle EXCEPT !.pc = "ended"] EXCEPT !.says = says]
<1>1. part' = [part EXCEPT ![x] = r] BY DEF Errs
<1>3. r \in [pc : {"ended"}, at : {Nowhere}, lines : {<<>>}, source : {""}, says : {says}, warned : {FALSE}]
  BY DEF Idle
<1> HIDE DEF r
<1>5. Only(x) /\ part' = [y \in Parts |-> part'[y]] /\ part'[x] = r BY <1>1 DEF Only
<1>. QED BY <1>3, <1>5 DEF With

-----------------------------------------------------------------------------
(* Looking a symbol up.                                                    *)

Named(x) ==
  IF x = "callers" THEN ByCallable(Symbols, W.name)
  ELSE ByName(Symbols, W.name, IF x = "refs" THEN cmd.kind ELSE "")
LookedUp(x) == Resolved(W, cmd.path, Named(x))

LEMMA SymbolsAre ==
  ASSUME NEW w, IsWorld(w)
  PROVE  /\ IsFiniteSet(DOMAIN w.symbols)
         /\ \A i \in DOMAIN w.symbols : w.symbols[i].at \in Places(w)
<1> DEFINE A == [name : [of : STRING, base : STRING, wrapped : BOOLEAN, signed : BOOLEAN],
                 container : STRING, kind : STRING, at : Places(w)]
<1>1. w.symbols \in Seq(A) BY Zenon DEF IsWorld, Places
<1>2. \A a \in A : a.at \in Places(w) OBVIOUS
<1> HIDE DEF A
<1>3. DOMAIN w.symbols = 1 .. Len(w.symbols) /\ Len(w.symbols) \in Nat BY <1>1
<1>4. \A i \in DOMAIN w.symbols : w.symbols[i] \in A BY <1>1
<1>. QED BY <1>2, <1>3, <1>4, Intervals

(* A search finds one candidate only if there is one, and finds the one    *)
(* there is if the server has indexed the workspace.                       *)
LEMMA LookedUpIs ==
  ASSUME world \in DOMAIN Worlds, NEW x \in Parts
  PROVE  /\ LookedUp(x).says \in {"uri", "missing", "ambiguous", "one"}
         /\ LookedUp(x).at \in Location
         /\ LookedUp(x).says = "one" => Cardinality(Candidates(x)) = 1
         /\ server.indexed /\ Cardinality(Candidates(x)) = 1 =>
              LookedUp(x).says \in {"uri", "one"} /\ Symbols # <<>>
<1> DEFINE found == Reached(W, cmd.path, Named(x))
<1>1. IsWorld(W) BY WorldIs
<1>2. IsFiniteSet(DOMAIN W.symbols) /\ \A i \in DOMAIN W.symbols : W.symbols[i].at \in Places(W)
  BY <1>1, SymbolsAre
<1>3. DOMAIN Named(x) \subseteq DOMAIN Symbols
      /\ \A i \in DOMAIN Named(x) : Named(x)[i] = Symbols[i].at
  BY DEF Named, ByName, ByCallable
<1>4. Symbols = IF server.indexed THEN W.symbols ELSE <<>> BY DEF Symbols
<1>5. DOMAIN Symbols \subseteq DOMAIN W.symbols
      /\ \A i \in DOMAIN Named(x) : Named(x)[i] \in Places(W)
  <2>1. CASE server.indexed BY <2>1, <1>2, <1>3, <1>4
  <2>2. CASE ~server.indexed
    <3>1. DOMAIN Symbols = {} BY <2>2, <1>4
    <3>. QED BY <3>1, <1>3
  <2>. QED BY <2>1, <2>2
<1>6. found \subseteq DOMAIN Named(x) /\ found \in SUBSET DOMAIN W.symbols
  BY <1>3, <1>5 DEF Reached
<1>7. IsFiniteSet(found) /\ Cardinality(found) \in Nat /\ (Cardinality(found) = 0 <=> found = {})
  <2> HIDE DEF found
  <2>1. IsFiniteSet(found) BY <1>2, <1>6, FS_Subset
  <2>. QED BY <2>1, FS_CardinalityType, FS_EmptySet
<1> DEFINE r == LookedUp(x)
<1>8. /\ r.says = IF \E i \in DOMAIN Named(x) : Named(x)[i].file = 0 THEN "uri"
                  ELSE IF found = {} THEN "missing"
                  ELSE IF Cardinality(found) > 1 THEN "ambiguous" ELSE "one"
      /\ r.at = IF found = {} THEN Nowhere ELSE Named(x)[CHOOSE i \in found : TRUE]
  BY DEF LookedUp, Resolved
<1> HIDE DEF found, r
<1>9. r.at \in Location
  <2>1. Nowhere \in Location BY DEF Nowhere, Location
  <2>2. found # {} => (CHOOSE i \in found : TRUE) \in found OBVIOUS
  <2>3. found # {} => Named(x)[CHOOSE i \in found : TRUE] \in Places(W) BY <2>2, <1>5, <1>6
  <2>4. Places(W) \subseteq Location BY <1>1, PlacesAreLocations
  <2>. QED BY <2>1, <2>3, <2>4, <1>8
<1>10. server.indexed => found = Candidates(x)
  <2>1. server.indexed => Symbols = W.symbols BY DEF Symbols
  <2>. QED BY <2>1, Zenon DEF Candidates, Named, found
<1>11. ~server.indexed => found = {}
  <2>1. ~server.indexed => DOMAIN Symbols = {} BY <1>4
  <2>. QED BY <2>1, <1>3, <1>6
<1>12. r.says = "one" => Cardinality(found) = 1 /\ found # {} BY <1>7, <1>8
<1>13. r.says = "one" => Cardinality(Candidates(x)) = 1 BY <1>10, <1>11, <1>12
<1>14. ASSUME server.indexed, Cardinality(Candidates(x)) = 1
       PROVE  r.says \in {"uri", "one"} /\ Symbols # <<>>
  <2>1. found # {} /\ ~(Cardinality(found) > 1) BY <1>7, <1>10, <1>14
  <2>2. DOMAIN Symbols # {} BY <2>1, <1>3, <1>6
  <2>. QED BY <2>1, <2>2, <1>8
<1>15. r.says \in {"uri", "missing", "ambiguous", "one"} BY <1>8
<1>. QED BY <1>9, <1>13, <1>14, <1>15 DEF r

LEMMA LookedUpInSearches ==
  /\ LookedUp("refs") = Resolved(W, cmd.path, ByName(Symbols, W.name, cmd.kind))
  /\ LookedUp("callers") = Resolved(W, cmd.path, ByCallable(Symbols, W.name))
  /\ LookedUp("implements") = Resolved(W, cmd.path, ByName(Symbols, W.name, ""))
BY DEF LookedUp, Named

-----------------------------------------------------------------------------
(* Types.                                                                  *)

ListLines == Location \cup [node : Location, depth : Nat] \cup [name : STRING, file : Nat, line : Nat]
Says == {"", "failed", "uri", "ambiguous", "missing", "none"}
PartPCs == {"idle", "text", "listing", "ended"} \cup Calls
SaysEnd == \A x \in Parts : part[x].says # "" => part[x].pc = "ended" /\ part[x].lines = <<>>

TypeInv == TypeOK /\ WalkTyped /\ OutcomeTyped /\ Orderly

(* The lines of a search are a sequence of lines.                          *)
LEMMA LinesTyped ==
  ASSUME NEW w, IsWorld(w), NEW S, IsFiniteSet(S), S \subseteq Places(w) \/ S \subseteq ItemsOf(w)
  PROVE  SetToSeq(S) \in Seq(ListLines)
<1>1. DOMAIN w.files \subseteq Nat /\ Places(w) \subseteq Location BY PlacesAreLocations
<1>2. S \subseteq ListLines BY <1>1 DEF ListLines, ItemsOf
<1>3. SetToSeq(S) \in Seq(S) BY SetToSeqIs
<1>. QED BY <1>2, <1>3

(* A search that is under way has been started, and is awaited.            *)
LEMMA BusyMeans ==
  ASSUME TypeInv, NEW x \in Parts, part[x].pc \notin {"idle", "ended"}
  PROVE  pc \in {"text", "parts"} /\ part[x].says = ""
<1>1. pc \in {"starts", "queries", "text", "semantic", "parts", "probes", "waits", "ended"}
  BY DEF TypeInv, TypeOK
<1>2. pc \notin {"starts", "queries", "probes", "waits"}
  <2>1. Idle.pc = "idle" BY DEF Idle
  <2>. QED BY <2>1 DEF TypeInv, Orderly
<1>3. pc \notin {"semantic", "ended"} BY DEF TypeInv, Orderly, AllEnded
<1>4. part[x].says = "" BY DEF TypeInv, TypeOK
<1>. QED BY <1>1, <1>2, <1>3, <1>4

(* What a step of one search has to keep.                                  *)
Moves(x) ==
  /\ Only(x) /\ part' = [y \in Parts |-> part'[y]] /\ part'[x] \in Part
  /\ part'[x].says # "" => part'[x].pc = "ended" /\ part'[x].lines = <<>>
LEMMA SearchKeepsType ==
  ASSUME TypeInv, NEW x \in Parts, part[x].pc \notin {"idle", "ended"}, Moves(x),
         Rest, faults' \in 0 .. MaxFaults, WalkTyped',
         part'["callers"].pc \notin {"incoming", "listing"} => walk' = NoWalk,
         part'["callers"].pc = "listing" => walk'.todo # <<>>
  PROVE  TypeInv'
<1>1. part \in [Parts -> Part] /\ part' = [y \in Parts |-> part'[y]] BY DEF TypeInv, TypeOK, Moves
<1>3. \A y \in Parts : part'[y] \in Part BY <1>1 DEF Moves, Only
<1>4. part' \in [Parts -> Part] BY <1>1, <1>3
<1>5. SaysEnd'
  <2>1. SaysEnd BY DEF TypeInv, TypeOK, SaysEnd
  <2>. QED BY <2>1 DEF Moves, Only, SaysEnd
<1>6. pc' = pc /\ pc \in {"text", "parts"} BY BusyMeans DEF Rest
<1>7. walk'.todo # <<>> \/ walk'.asks # Nowhere => part'["callers"].pc \in {"incoming", "listing"}
  <2>1. NoWalk.todo = <<>> /\ NoWalk.asks = Nowhere BY DEF NoWalk
  <2>. QED BY <2>1
<1>8. TypeOK'
  BY <1>4, <1>5, <1>6, <1>7 DEF TypeInv, TypeOK, SaysEnd, Rest, given
<1>9. OutcomeTyped' BY DEF TypeInv, OutcomeTyped, Rest
<1>10. Orderly' BY <1>6 DEF TypeInv, Orderly, Rest, given
<1>. QED BY <1>8, <1>9, <1>10 DEF TypeInv

(* What is true of the data while the types are.                           *)
LEMMA TypeMeans ==
  ASSUME TypeInv
  PROVE  /\ world \in DOMAIN Worlds /\ cmd \in Commands /\ IsWorld(W) /\ IsCommand(cmd)
         /\ part \in [Parts -> Part] /\ walk.todo \in Seq(SUBSET Location)
         /\ walk.asks \in Location /\ walk.seen \in SUBSET Location
         /\ faults \in 0 .. MaxFaults /\ WalkTyped
         /\ Depth \in Nat \ {0}
<1>1. world \in DOMAIN Worlds /\ cmd \in Commands /\ part \in [Parts -> Part] /\ faults \in 0 .. MaxFaults
  BY DEF TypeInv, TypeOK
<1>2. IsWorld(W) /\ IsCommand(cmd) BY <1>1, WorldIs, CommandAssumption
<1>3. WalkTyped BY DEF TypeInv
<1>4. cmd.depth \in Int BY <1>2 DEF IsCommand
<1>. QED BY <1>1, <1>2, <1>3, <1>4 DEF WalkTyped, Depth, Max2

LEMMA PartMeans ==
  ASSUME part \in [Parts -> Part], NEW x \in Parts
  PROVE  /\ part[x].pc \in PartPCs /\ part[x].at \in Location /\ part[x].lines \in Seq(ListLines)
         /\ part[x].source \in {"", "lsp", "grep"} /\ part[x].says \in Says /\ part[x].warned \in BOOLEAN
<1> DEFINE L == Seq(ListLines)
           P == PartPCs
<1>1. part[x] \in [pc : P, at : Location, lines : L, source : {"", "lsp", "grep"}, says : Says, warned : BOOLEAN]
  BY DEF Part, ListLines, PartPCs, Says
<1> HIDE DEF L, P
<1>. QED BY <1>1 DEF L, P

(* The places of a workspace's answers.                                    *)
LEMMA AnswersAre ==
  ASSUME NEW w, IsWorld(w)
  PROVE  /\ w.refs \in Seq(Places(w)) /\ w.items \in Seq(Places(w)) /\ w.impls \in Seq(Places(w))
         /\ w.subtypes \in Seq(ItemsOf(w))
         /\ \A at \in DOMAIN w.calls : at \in Places(w) /\ at.file # 0 /\ w.calls[at] \in Seq(Places(w))
BY Zenon DEF IsWorld, Places, ItemsOf

LEMMA IncomingIs ==
  ASSUME IsWorld(W), NEW at
  PROVE  /\ Incoming(at) \in Seq(Places(W)) /\ Calling(at) \subseteq Places(W)
         /\ \A n \in Calling(at) : Shown(W, n.file)
<1>1. Incoming(at) \in Seq(Places(W))
  <2> DEFINE P == Places(W)
  <2>1. at \in DOMAIN W.calls => W.calls[at] \in Seq(P) BY AnswersAre
  <2> HIDE DEF P
  <2>. QED BY <2>1 DEF Incoming, P
<1>2. Calling(at) = ToReferenceLines(W, Incoming(at)) BY DEF Calling, IncomingNodes
<1>. QED BY <1>1, <1>2, LinesAre

LEMMA RootIs ==
  ASSUME IsWorld(W)
  PROVE  Root \in Location
<1>1. CASE W.items = <<>> BY <1>1 DEF Root, PrepareCallHierarchy, Nowhere, Location
<1>2. CASE W.items # <<>>
  <2> DEFINE S == {At(x) : x \in ToSet(W.items)}
  <2>1. W.items \in Seq(Places(W)) /\ Places(W) \subseteq Location BY AnswersAre, PlacesAreLocations
  <2>2. ToSet(W.items) \subseteq Places(W) BY <2>1, FiniteElements
  <2>3. S \in SUBSET Location BY <2>1, <2>2 DEF At, Location
  <2>4. 1 \in DOMAIN W.items BY <2>1, <1>2
  <2>5. S # {} BY <2>4 DEF ToSet
  <2>6. Root = Least(S) BY <1>2 DEF Root, PrepareCallHierarchy
  <2> HIDE DEF S
  <2>. QED BY <2>3, <2>5, <2>6, LeastIs
<1>. QED BY <1>1, <1>2

(* The four ways a search moves.                                           *)
LEMMA ErrsMoves ==
  ASSUME TypeInv, NEW x \in Parts, NEW says \in Says, Errs(x, says)
  PROVE  Moves(x) /\ part'[x].pc = "ended" /\ part'[x].lines = <<>> /\ part'[x].source = ""
         /\ part'[x].says = says
<1>1. part \in [Parts -> Part] BY TypeMeans
<1>2. With(x, "ended", Nowhere, <<>>, "", says, FALSE) BY <1>1, ErrsIs
<1>3. Nowhere \in Location /\ <<>> \in Seq(ListLines) BY DEF Nowhere, Location
<1>. QED BY <1>2, <1>3 DEF With, Moves, Part, ListLines, Says

LEMMA StepMoves ==
  ASSUME TypeInv, NEW x \in Parts, NEW step \in PartPCs, part[x].says = "", Step(x, step)
  PROVE  Moves(x) /\ part'[x].pc = step /\ part'[x].lines = part[x].lines
         /\ part'[x].source = part[x].source /\ part'[x].says = "" /\ part'[x].at = part[x].at
<1>1. part \in [Parts -> Part] BY TypeMeans
<1>2. With(x, step, part[x].at, part[x].lines, part[x].source, "", part[x].warned) BY <1>1, StepIs
<1>3. part[x].at \in Location /\ part[x].lines \in Seq(ListLines) /\ part[x].source \in {"", "lsp", "grep"}
      /\ part[x].warned \in BOOLEAN
  BY <1>1, PartMeans
<1>. QED BY <1>2, <1>3 DEF With, Moves, Part, ListLines, PartPCs

LEMMA FoundMoves ==
  ASSUME TypeInv, NEW x \in Parts, NEW step \in PartPCs, NEW at \in Location, part[x].says = "",
         Found(x, at, step)
  PROVE  Moves(x) /\ part'[x].pc = step /\ part'[x].lines = part[x].lines
         /\ part'[x].source = part[x].source /\ part'[x].says = "" /\ part'[x].at = at
<1>1. part \in [Parts -> Part] BY TypeMeans
<1>2. With(x, step, at, part[x].lines, part[x].source, "", part[x].warned) BY <1>1, FoundIs
<1>3. part[x].lines \in Seq(ListLines) /\ part[x].source \in {"", "lsp", "grep"}
      /\ part[x].warned \in BOOLEAN
  BY <1>1, PartMeans
<1>. QED BY <1>2, <1>3 DEF With, Moves, Part, ListLines, PartPCs

LEMMA AnswersMoves ==
  ASSUME TypeInv, NEW x \in Parts, NEW lines \in Seq(ListLines), NEW source \in {"", "lsp", "grep"},
         NEW warned \in BOOLEAN, part[x].says = "", Answers(x, lines, source, warned)
  PROVE  Moves(x) /\ part'[x].pc = "ended" /\ part'[x].lines = lines /\ part'[x].source = source
         /\ part'[x].says = "" /\ part'[x].at = part[x].at /\ part'[x].warned = warned
<1>1. part \in [Parts -> Part] BY TypeMeans
<1>2. With(x, "ended", part[x].at, lines, source, "", warned) BY <1>1, AnswersIs
<1>3. part[x].at \in Location BY <1>1, PartMeans
<1>. QED BY <1>2, <1>3 DEF With, Moves, Part, ListLines

(* A search for references, or for implementations, leaves the walk alone. *)
LEMMA AsideKeepsType ==
  ASSUME TypeInv, NEW x \in Parts \ {"callers"}, part[x].pc \notin {"idle", "ended"}, Moves(x),
         Rest, faults' \in 0 .. MaxFaults, walk' = walk
  PROVE  TypeInv'
<1>1. WalkTyped' BY DEF TypeInv, WalkTyped
<1>2. part["callers"].pc \notin {"incoming", "listing"} => walk' = NoWalk BY DEF TypeInv, Orderly
<1>3. part'["callers"] = part["callers"] BY DEF Moves, Only, Parts
<1>4. part["callers"].pc = "listing" => walk'.todo # <<>> BY DEF TypeInv, Orderly
<1>. QED BY <1>1, <1>2, <1>3, <1>4, SearchKeepsType

LEMMA RefsKeepType ==
  ASSUME TypeInv, RefsLooksUp \/ RefsReads \/ RefsGreps
  PROVE  TypeInv' /\ Moves("refs")
<1> USE TypeMeans
<1> DEFINE x == "refs"
<1>1. x \in Parts \ {"callers"} BY DEF Parts
<1>2. part[x].pc \notin {"idle", "ended"} /\ part[x].says = ""
  <2>1. part[x].pc \in {"symbols", "uses", "text"}
    BY DEF RefsLooksUp, RefsReads, RefsGreps, Asked, PartAt
  <2>. QED BY <2>1, <1>1, BusyMeans
<1>3. StillRest BY DEF RefsLooksUp, RefsReads, RefsGreps
<1>4. {"text", "uses"} \subseteq PartPCs /\ {"uri", "ambiguous", "missing"} \subseteq Says
  BY DEF PartPCs, Says, Calls
<1>5. CASE RefsLooksUp
  <2>1. LookedUp(x).at \in Location BY <1>1, LookedUpIs
  <2>2. \/ Errs(x, LookedUp(x).says) /\ LookedUp(x).says \in {"uri", "ambiguous"}
        \/ Step(x, "text") \/ Found(x, LookedUp(x).at, "uses")
    BY <1>5, LookedUpInSearches DEF RefsLooksUp
  <2>3. Moves(x) BY <2>1, <2>2, <1>1, <1>2, <1>4, ErrsMoves, StepMoves, FoundMoves
  <2>. QED BY <2>3, <1>1, <1>2, <1>3, AsideKeepsType DEF StillRest
<1>6. CASE RefsReads
  <2> DEFINE uses == ToReferenceLines(W, W.refs)
             warns == cmd.op = "refs" /\ uses = {} /\ Leftover(W, part["refs"].at) # {}
  <2>1. SetToSeq(uses) \in Seq(ListLines) BY AnswersAre, LinesAre, LinesTyped
  <2>2. warns \in BOOLEAN OBVIOUS
  <2>3. Errs(x, "uri") \/ Answers(x, SetToSeq(uses), "lsp", warns) BY <1>6 DEF RefsReads
  <2> HIDE DEF uses, warns
  <2>4. Moves(x) BY <2>1, <2>2, <2>3, <1>1, <1>2, <1>4, ErrsMoves, AnswersMoves
  <2>. QED BY <2>4, <1>1, <1>2, <1>3, AsideKeepsType DEF StillRest
<1>7. CASE RefsGreps
  <2>1. SetToSeq(GrepFind(W)) \in Seq(ListLines) BY GrepIs, LinesTyped
  <2>2. Errs(x, "missing") \/ Answers(x, SetToSeq(GrepFind(W)), "grep", FALSE) BY <1>7 DEF RefsGreps
  <2>3. Moves(x) BY <2>1, <2>2, <1>1, <1>2, <1>4, ErrsMoves, AnswersMoves
  <2>. QED BY <2>3, <1>1, <1>2, <1>3, AsideKeepsType DEF StillRest
<1>. QED BY <1>5, <1>6, <1>7

LEMMA ImplementsKeepType ==
  ASSUME TypeInv, ImplementsLooksUp \/ ImplementsPrepares \/ ImplementsReads \/ ImplementsLocates
  PROVE  TypeInv' /\ Moves("implements")
<1> USE TypeMeans
<1> DEFINE x == "implements"
<1>1. x \in Parts \ {"callers"} BY DEF Parts
<1>2. part[x].pc \notin {"idle", "ended"} /\ part[x].says = ""
  <2>1. part[x].pc \in {"symbols", "prepareTypes", "subtypes", "locations"}
    BY DEF ImplementsLooksUp, ImplementsPrepares, ImplementsReads, ImplementsLocates, Asked, PartAt
  <2>. QED BY <2>1, <1>1, BusyMeans
<1>3. StillRest BY DEF ImplementsLooksUp, ImplementsPrepares, ImplementsReads, ImplementsLocates
<1>4. {"prepareTypes", "subtypes", "locations"} \subseteq PartPCs
      /\ {"none", "uri", "ambiguous", "missing"} \subseteq Says
  BY DEF PartPCs, Says, Calls
<1>5. CASE ImplementsLooksUp
  <2>1. LookedUp(x).at \in Location /\ LookedUp(x).says \in {"uri", "missing", "ambiguous", "one"}
    BY <1>1, LookedUpIs
  <2>2. \/ Errs(x, "none")
        \/ Errs(x, LookedUp(x).says) /\ LookedUp(x).says # "one"
        \/ Found(x, LookedUp(x).at, "prepareTypes")
    BY <1>5, LookedUpInSearches DEF ImplementsLooksUp
  <2>3. Moves(x) BY <2>1, <2>2, <1>1, <1>2, <1>4, ErrsMoves, FoundMoves
  <2>. QED BY <2>3, <1>1, <1>2, <1>3, AsideKeepsType DEF StillRest
<1>6. CASE ImplementsPrepares
  <2>1. Step(x, "subtypes") \/ Step(x, "locations") BY <1>6 DEF ImplementsPrepares
  <2>2. Moves(x) BY <2>1, <1>1, <1>2, <1>4, StepMoves
  <2>. QED BY <2>2, <1>1, <1>2, <1>3, AsideKeepsType DEF StillRest
<1>7. CASE ImplementsReads
  <2> DEFINE lines == ToImplementationLines(W, W.subtypes)
  <2>1. SetToSeq(lines) \in Seq(ListLines) BY AnswersAre, ImplementationsAre, LinesTyped
  <2>2. Errs(x, "uri") \/ Step(x, "locations") \/ Answers(x, SetToSeq(lines), "lsp", FALSE)
    BY <1>7 DEF ImplementsReads
  <2> HIDE DEF lines
  <2>3. Moves(x) BY <2>1, <2>2, <1>1, <1>2, <1>4, ErrsMoves, StepMoves, AnswersMoves
  <2>. QED BY <2>3, <1>1, <1>2, <1>3, AsideKeepsType DEF StillRest
<1>8. CASE ImplementsLocates
  <2> DEFINE lines == LocationsToImplementationLines(W, W.impls)
  <2>1. SetToSeq(lines) \in Seq(ListLines) BY AnswersAre, LocatedAre, LinesTyped
  <2>2. Errs(x, "uri") \/ Answers(x, SetToSeq(lines), "lsp", FALSE) BY <1>8 DEF ImplementsLocates
  <2> HIDE DEF lines
  <2>3. Moves(x) BY <2>1, <2>2, <1>1, <1>2, <1>4, ErrsMoves, AnswersMoves
  <2>. QED BY <2>3, <1>1, <1>2, <1>3, AsideKeepsType DEF StillRest
<1>. QED BY <1>5, <1>6, <1>7, <1>8

(* A level of the walk: what of an answer is not seen yet.                 *)
LEMMA LevelIs ==
  ASSUME TypeInv
  PROVE  IncomingNodes(W, Incoming(walk.asks)) \ walk.seen \in SUBSET Location
<1>1. IsWorld(W) BY TypeMeans
<1>2. IncomingNodes(W, Incoming(walk.asks)) \subseteq Places(W)
  BY <1>1, IncomingIs, Zenon DEF Calling
<1>. QED BY <1>1, <1>2, PlacesAreLocations

(* A level is taken from the end of what is to be listed.                  *)
LEMMA LastLevel ==
  ASSUME TypeInv, walk.todo # <<>>
  PROVE  /\ Len(walk.todo) \in Nat \ {0} /\ Last(walk.todo) = walk.todo[Len(walk.todo)]
         /\ Last(walk.todo) \in SUBSET Location /\ Front(walk.todo) \in Seq(SUBSET Location)
         /\ Len(Front(walk.todo)) = Len(walk.todo) - 1
         /\ \A d \in 1 .. Len(walk.todo) - 1 : Front(walk.todo)[d] = walk.todo[d]
<1> DEFINE L == SUBSET Location
           todo == walk.todo
<1>1. todo \in Seq(L) BY TypeMeans
<1>2. todo # <<>> OBVIOUS
<1> HIDE DEF L, todo
<1>3. Len(todo) \in Nat \ {0} /\ todo[Len(todo)] \in L BY <1>1, <1>2
<1>4. Front(todo) = [i \in 1 .. Len(todo) - 1 |-> todo[i]] BY <1>1, <1>3 DEF Front
<1>5. Front(todo) \in Seq(L) /\ Len(Front(todo)) = Len(todo) - 1
      /\ \A d \in 1 .. Len(todo) - 1 : Front(todo)[d] = todo[d]
  BY <1>1, <1>3, <1>4
<1>. QED BY <1>3, <1>5 DEF Last, L, todo

LEMMA CallersKeepType ==
  ASSUME TypeInv, CallersLooksUp \/ CallersPrepares \/ CallersAsks
  PROVE  TypeInv' /\ Moves("callers")
<1> USE TypeMeans
<1> DEFINE x == "callers"
<1>1. x \in Parts BY DEF Parts
<1>2. part[x].pc \notin {"idle", "ended"} /\ part[x].says = ""
  <2>1. part[x].pc \in {"symbols", "prepareCalls", "incoming"}
    BY DEF CallersLooksUp, CallersPrepares, CallersAsks, Asked, PartAt
  <2>. QED BY <2>1, <1>1, BusyMeans
<1>3. Rest /\ faults' \in 0 .. MaxFaults BY DEF CallersLooksUp, CallersPrepares, CallersAsks, StillRest
<1>4. {"prepareCalls", "incoming", "listing", "ended"} \subseteq PartPCs
      /\ {"none", "uri", "ambiguous", "missing"} \subseteq Says
  BY DEF PartPCs, Says, Calls
<1>5. ASSUME walk' = walk, part[x].pc \notin {"incoming", "listing"}
      PROVE  WalkTyped' /\ walk' = NoWalk
  BY <1>5 DEF TypeInv, WalkTyped, Orderly
<1>6. CASE CallersLooksUp
  <2>1. LookedUp(x).at \in Location /\ LookedUp(x).says \in {"uri", "missing", "ambiguous", "one"}
    BY <1>1, LookedUpIs
  <2>2. \/ Errs(x, "none")
        \/ Errs(x, LookedUp(x).says) /\ LookedUp(x).says # "one"
        \/ Found(x, LookedUp(x).at, "prepareCalls")
    BY <1>6, LookedUpInSearches DEF CallersLooksUp
  <2>3. Moves(x) /\ part'[x].pc # "listing"
    BY <2>1, <2>2, <1>1, <1>2, <1>4, ErrsMoves, FoundMoves
  <2>4. walk' = walk /\ part[x].pc = "symbols" BY <1>6 DEF CallersLooksUp, StillRest, Asked, PartAt
  <2>. QED BY <2>3, <2>4, <1>1, <1>2, <1>3, <1>5, SearchKeepsType
<1>7. CASE CallersPrepares
  <2> DEFINE seen == IF Shown(W, Root.file) THEN {Root} ELSE {}
  <2>1. part[x].pc = "prepareCalls" BY <1>7 DEF CallersPrepares, Asked, PartAt
  <2>2. \/ Answers(x, <<>>, "lsp", FALSE) /\ walk' = walk
        \/ Errs(x, "uri") /\ walk' = walk
        \/ Step(x, "incoming") /\ walk' = [NoWalk EXCEPT !.asks = Root, !.seen = seen]
    BY <1>7 DEF CallersPrepares, Root
  <2>3. CASE walk' = walk /\ (Answers(x, <<>>, "lsp", FALSE) \/ Errs(x, "uri"))
    <3>1. <<>> \in Seq(ListLines) OBVIOUS
    <3>2. Moves(x) /\ part'[x].pc # "listing"
      BY <2>3, <3>1, <1>1, <1>2, <1>4, ErrsMoves, AnswersMoves
    <3>. QED BY <3>2, <2>1, <2>3, <1>1, <1>2, <1>3, <1>5, SearchKeepsType
  <2>4. CASE Step(x, "incoming") /\ walk' = [NoWalk EXCEPT !.asks = Root, !.seen = seen]
    <3>1. Moves(x) /\ part'[x].pc = "incoming" BY <2>4, <1>1, <1>2, <1>4, StepMoves
    <3>2. Root \in Location BY RootIs
    <3>3. WalkTyped'
      <4>1. <<>> \in Seq(SUBSET Location) /\ seen \in SUBSET Location BY <3>2
      <4> HIDE DEF seen
      <4>. QED BY <4>1, <3>2, <2>4 DEF WalkTyped, NoWalk
    <3>. QED BY <3>1, <3>3, <1>1, <1>2, <1>3, SearchKeepsType
  <2>. QED BY <2>2, <2>3, <2>4
<1>8. CASE CallersAsks
  <2> DEFINE level == IncomingNodes(W, Incoming(walk.asks)) \ walk.seen
             next == [asks |-> Nowhere, todo |-> Append(walk.todo, level), seen |-> walk.seen \cup level]
  <2>1. \/ Errs(x, "uri") /\ walk' = NoWalk
        \/ Step(x, "listing") /\ walk' = next
    BY <1>8 DEF CallersAsks
  <2>2. level \in SUBSET Location BY LevelIs
  <2>3. Nowhere \in Location BY DEF Nowhere, Location
  <2>4. CASE Errs(x, "uri") /\ walk' = NoWalk
    <3>1. Moves(x) /\ part'[x].pc # "listing" BY <2>4, <1>1, <1>2, <1>4, ErrsMoves
    <3>2. WalkTyped' BY <2>4, <2>3 DEF WalkTyped, NoWalk
    <3>. QED BY <3>1, <3>2, <2>4, <1>1, <1>2, <1>3, SearchKeepsType
  <2>5. CASE Step(x, "listing") /\ walk' = next
    <3>1. Moves(x) /\ part'[x].pc = "listing" BY <2>5, <1>1, <1>2, <1>4, StepMoves
    <3>2. WalkTyped'
      <4> HIDE DEF level
      <4>. QED BY <2>2, <2>3, <2>5 DEF WalkTyped
    <3>3. walk'.todo # <<>>
      <4> DEFINE L == SUBSET Location
      <4>1. walk.todo \in Seq(L) /\ level \in L BY <2>2
      <4>2. walk'.todo = Append(walk.todo, level) BY <2>5
      <4> HIDE DEF L, level
      <4>3. Append(walk.todo, level) # <<>> BY <4>1
      <4>. QED BY <4>2, <4>3
    <3>. QED BY <3>1, <3>2, <3>3, <1>1, <1>2, <1>3, SearchKeepsType
  <2>. QED BY <2>1, <2>4, <2>5
<1>. QED BY <1>6, <1>7, <1>8

(* The next of a level is a location.                                      *)
LEMMA NextListed ==
  ASSUME TypeInv, CallersLists
  PROVE  /\ Todo # <<>> /\ Last(Todo) # {} /\ Least(Last(Todo)) \in Last(Todo)
         /\ Least(Last(Todo)) \in Location /\ part["callers"].pc = "listing" /\ part["callers"].says = ""
<1>1. part["callers"].pc = "listing" /\ Last(Todo) # {} BY DEF CallersLists, PartAt, Todo
<1>2. Todo # <<>> BY <1>1 DEF TypeInv, Orderly, Todo
<1>3. Last(Todo) \in SUBSET Location BY <1>2, LastLevel DEF Todo
<1>4. Least(Last(Todo)) \in Last(Todo) BY <1>1, <1>3, LeastIs
<1>5. part["callers"].says = "" BY <1>1, BusyMeans DEF Parts
<1>. QED BY <1>1, <1>2, <1>3, <1>4, <1>5

(* The level after its least has been listed.                              *)
LEMMA LevelLeft ==
  ASSUME TypeInv, CallersLists
  PROVE  LET n == Len(Todo)  node == Least(Last(Todo)) IN
         /\ n \in Nat \ {0} /\ Todo'\in Seq(SUBSET Location) /\ Len(Todo') = n
         /\ Todo'[n] = Todo[n] \ {node}
         /\ \A d \in 1 .. n - 1 : Todo'[d] = Todo[d]
         /\ walk'.asks = (IF Descends(n) THEN node ELSE Nowhere) /\ walk'.seen = walk.seen
         /\ WalkTyped'
<1> DEFINE L == SUBSET Location
           n == Len(Todo)
           node == Least(Last(Todo))
           f == Front(Todo)
           new == Append(f, Todo[n] \ {node})
<1>1. Todo # <<>> /\ node \in Location BY NextListed
<1>2. /\ n \in Nat \ {0} /\ Last(Todo) = Todo[n] /\ Todo[n] \in L /\ f \in Seq(L)
      /\ Len(f) = n - 1 /\ \A d \in 1 .. n - 1 : f[d] = Todo[d]
  BY <1>1, LastLevel DEF Todo
<1>3. walk' = [[walk EXCEPT !.asks = IF Descends(n) THEN node ELSE Nowhere] EXCEPT !.todo = new]
  BY <1>2 DEF CallersLists, Todo
<1>4. walk \in [asks : Location, todo : Seq(L), seen : L] BY DEF TypeInv, WalkTyped
<1>5. Todo[n] \ {node} \in L BY <1>2
<1>6. Nowhere \in Location BY DEF Nowhere, Location
<1> HIDE DEF L, n, node, f
<1>7. new \in Seq(L) /\ Len(new) = n /\ new[n] = Todo[n] \ {node} /\ \A d \in 1 .. n - 1 : new[d] = Todo[d]
  BY <1>2, <1>5
<1> HIDE DEF new
<1>8. walk'.todo = new /\ walk'.asks = (IF Descends(n) THEN node ELSE Nowhere) /\ walk'.seen = walk.seen
  BY <1>3, <1>4
<1>9. walk' \in [asks : Location, todo : Seq(L), seen : L] BY <1>1, <1>3, <1>4, <1>6, <1>7
<1>. QED BY <1>2, <1>7, <1>8, <1>9 DEF WalkTyped, Todo, L, n, node

(* The list with one more.                                                 *)
LEMMA OneMore ==
  ASSUME TypeInv, CallersLists
  PROVE  LET n == Len(Todo)  node == Least(Last(Todo)) IN
         /\ Moves("callers") /\ Listed \in Seq(ListLines)
         /\ Listed' = Append(Listed, [node |-> node, depth |-> n])
         /\ part'["callers"].pc = (IF Descends(n) THEN "incoming" ELSE "listing")
         /\ part'["callers"].source = part["callers"].source /\ part'["callers"].says = ""
<1> DEFINE x == "callers"
           n == Len(Todo)
           node == Least(Last(Todo))
           one == [node |-> node, depth |-> n]
           step == IF Descends(n) THEN "incoming" ELSE "listing"
           r == [[part[x] EXCEPT !.lines = Append(part[x].lines, one)] EXCEPT !.pc = step]
<1>1. Todo # <<>> /\ node \in Location /\ part[x].says = "" BY NextListed
<1>2. n \in Nat BY <1>1, LastLevel DEF Todo
<1>3. part' = [part EXCEPT ![x] = r] BY DEF CallersLists, Todo
<1>4. part \in [Parts -> Part] /\ x \in Parts BY TypeMeans DEF Parts
<1>5. one \in ListLines BY <1>1, <1>2 DEF ListLines
<1>6. step \in PartPCs BY DEF PartPCs, Calls
<1> HIDE DEF one, step, n, node
<1>7. part[x] \in Part /\ part[x].lines \in Seq(ListLines) BY <1>4, PartMeans
<1>8. Append(part[x].lines, one) \in Seq(ListLines)
  <2> DEFINE A == ListLines
  <2> HIDE DEF A
  <2>1. part[x].lines \in Seq(A) /\ one \in A BY <1>5, <1>7 DEF A
  <2>. QED BY <2>1 DEF A
<1> DEFINE more == Append(part[x].lines, one)
<1>9. more \in Seq(ListLines) BY <1>8
<1>10. r = [[part[x] EXCEPT !.lines = more] EXCEPT !.pc = step] OBVIOUS
<1> HIDE DEF more, r
<1>11. r \in Part /\ r.lines = more /\ r.pc = step /\ r.source = part[x].source /\ r.says = part[x].says
  BY <1>6, <1>7, <1>9, <1>10 DEF Part, ListLines, PartPCs
<1>12. Only(x) /\ part' = [y \in Parts |-> part'[y]] /\ part'[x] = r BY <1>3, <1>4 DEF Only
<1>. QED BY <1>1, <1>7, <1>11, <1>12 DEF Moves, Listed, more, one, n, node, step

LEMMA ListsKeepType ==
  ASSUME TypeInv, CallersLists
  PROVE  TypeInv'
<1>1. part["callers"].pc = "listing" BY NextListed
<1>2. Moves("callers") /\ part'["callers"].pc \in {"incoming", "listing"} BY OneMore
<1>3. WalkTyped' /\ walk'.todo # <<>>
  <2>1. WalkTyped' /\ Len(Todo') \in Nat \ {0} /\ Todo' \in Seq(SUBSET Location) BY LevelLeft
  <2>2. Todo' # <<>> BY <2>1
  <2>. QED BY <2>1, <2>2 DEF Todo
<1>4. Rest /\ faults' \in 0 .. MaxFaults BY TypeMeans DEF CallersLists
<1>. QED BY <1>1, <1>2, <1>3, <1>4, SearchKeepsType DEF Parts

(* A level that has been listed is left.                                   *)
LEMMA Returned ==
  ASSUME TypeInv, CallersReturns
  PROVE  /\ part["callers"].pc = "listing" /\ Todo # <<>> /\ Last(Todo) = {} /\ Moves("callers")
         /\ WalkTyped' /\ Listed' = Listed /\ part'["callers"].says = ""
         /\ \/ /\ Len(Todo) = 1 /\ walk' = NoWalk
               /\ part'["callers"].pc = "ended" /\ part'["callers"].source = "lsp"
            \/ /\ Len(Todo) > 1 /\ Todo' = Front(Todo) /\ walk'.asks = walk.asks /\ walk'.seen = walk.seen
               /\ part'["callers"].pc = "listing" /\ part' = part /\ Todo' # <<>>
<1> DEFINE x == "callers"
<1>1. part[x].pc = "listing" /\ Last(Todo) = {} BY DEF CallersReturns, PartAt, Todo
<1>2. Todo # <<>> BY <1>1 DEF TypeInv, Orderly, Todo
<1>3. /\ part[x].says = "" /\ x \in Parts /\ part \in [Parts -> Part] /\ part[x] \in Part
      /\ part[x].lines \in Seq(ListLines)
  BY <1>1, BusyMeans, TypeMeans, PartMeans DEF Parts
<1>4. /\ Len(Todo) \in Nat \ {0} /\ Front(Todo) \in Seq(SUBSET Location) /\ Len(Front(Todo)) = Len(Todo) - 1
  BY <1>2, LastLevel DEF Todo
<1>5. CASE Len(Todo) = 1
  <2>1. Answers(x, part[x].lines, "lsp", FALSE) /\ walk' = NoWalk BY <1>5 DEF CallersReturns, Todo
  <2>2. /\ Moves(x) /\ part'[x].pc = "ended" /\ part'[x].lines = part[x].lines /\ part'[x].source = "lsp"
        /\ part'[x].says = ""
    BY <2>1, <1>3, AnswersMoves
  <2>3. WalkTyped' BY <2>1 DEF WalkTyped, NoWalk, Nowhere, Location
  <2>. QED BY <2>1, <2>2, <2>3, <1>1, <1>2, <1>5 DEF Listed
<1>6. CASE Len(Todo) # 1
  <2>1. part' = part /\ walk' = [walk EXCEPT !.todo = Front(Todo)] BY <1>6 DEF CallersReturns, Todo
  <2>2. Moves(x) BY <2>1, <1>1, <1>3 DEF Moves, Only
  <2>3. WalkTyped' /\ Todo' = Front(Todo) /\ walk'.asks = walk.asks /\ walk'.seen = walk.seen
    <3> DEFINE L == Seq(SUBSET Location)
               f == Front(Todo)
    <3>1. walk \in [asks : Location, todo : L, seen : SUBSET Location] BY DEF TypeInv, WalkTyped
    <3>2. f \in L /\ walk' = [walk EXCEPT !.todo = f] BY <1>4, <2>1
    <3> HIDE DEF L, f
    <3>3. walk' \in [asks : Location, todo : L, seen : SUBSET Location] /\ walk'.todo = f
          /\ walk'.asks = walk.asks /\ walk'.seen = walk.seen
      BY <3>1, <3>2
    <3>. QED BY <3>3 DEF WalkTyped, Todo, L, f
  <2>4. Len(Todo) > 1 BY <1>4, <1>6
  <2>5. Todo' # <<>>
    <3> DEFINE f == Front(Todo)
    <3>1. Len(f) > 0 BY <1>4, <2>4
    <3> HIDE DEF f
    <3>2. f # <<>> BY <3>1
    <3>. QED BY <3>2, <2>3 DEF f
  <2>. QED BY <2>1, <2>2, <2>3, <2>4, <2>5, <1>1, <1>2, <1>3 DEF Listed
<1>. QED BY <1>5, <1>6

LEMMA ReturnsKeepType ==
  ASSUME TypeInv, CallersReturns
  PROVE  TypeInv'
<1>1. Rest /\ faults' \in 0 .. MaxFaults BY TypeMeans DEF CallersReturns
<1>2. part'["callers"].pc \notin {"incoming", "listing"} => walk' = NoWalk BY Returned
<1>3. part'["callers"].pc = "listing" => walk'.todo # <<>> BY Returned DEF Todo
<1>4. part["callers"].pc = "listing" /\ Moves("callers") /\ WalkTyped' BY Returned
<1>. QED BY <1>1, <1>2, <1>3, <1>4, SearchKeepsType DEF Parts

(* A call fails: the search goes on with the text, or ends.                *)
LEMMA FaultIs ==
  ASSUME TypeInv, CanFail, Fault
  PROVE  faults' \in 0 .. MaxFaults
<1>1. faults \in 0 .. MaxFaults /\ MaxFaults \in Nat BY TypeMeans, CommandAssumption
<1>2. CASE server.up BY <1>1, <1>2 DEF CanFail, Fault
<1>3. CASE ~server.up BY <1>1, <1>3 DEF Fault
<1>. QED BY <1>2, <1>3

LEMMA FailsMoves ==
  ASSUME TypeInv, NEW x \in Parts, CallFails(x)
  PROVE  /\ part[x].pc \in Calls /\ part[x].says = "" /\ Moves(x) /\ part'[x].says \in {"", "failed"}
         /\ part'[x].lines \in {part[x].lines, <<>>} /\ part'[x].source \in {part[x].source, ""}
         /\ IF x = "refs" THEN part'[x].pc = "text" /\ part'[x].at = part[x].at ELSE part'[x].pc = "ended"
         /\ part'[x].pc = "ended" => part'[x].source = "" /\ part'[x].lines = <<>>
<1>1. part[x].pc \in Calls BY DEF CallFails
<1>2. part[x].says = "" BY <1>1, BusyMeans DEF Calls
<1>3. "text" \in PartPCs /\ "failed" \in Says /\ <<>> \in Seq(ListLines) /\ FALSE \in BOOLEAN
  BY DEF PartPCs, Says
<1>4. CASE x = "refs"
  <2>1. Step(x, "text") BY <1>4 DEF CallFails
  <2>. QED BY <2>1, <1>1, <1>2, <1>3, <1>4, StepMoves
<1>5. CASE x # "refs" /\ part[x].pc = "locations"
  <2>1. Answers(x, <<>>, "", FALSE) BY <1>5 DEF CallFails
  <2>. QED BY <2>1, <1>1, <1>2, <1>3, <1>5, AnswersMoves
<1>6. CASE x # "refs" /\ part[x].pc # "locations"
  <2>1. Errs(x, "failed") BY <1>6 DEF CallFails
  <2>. QED BY <2>1, <1>1, <1>2, <1>3, <1>6, ErrsMoves
<1>. QED BY <1>4, <1>5, <1>6

LEMMA FailsKeepType ==
  ASSUME TypeInv, NEW x \in Parts, CallFails(x)
  PROVE  TypeInv'
<1>1. faults' \in 0 .. MaxFaults /\ Rest BY FaultIs DEF CallFails
<1>2. part[x].pc \notin {"idle", "ended"} /\ Moves(x) BY FailsMoves DEF Calls
<1>3. CASE x = "callers"
  <2>1. walk' = NoWalk /\ part'[x].pc = "ended" BY <1>3, FailsMoves DEF CallFails
  <2>2. WalkTyped' BY <2>1 DEF WalkTyped, NoWalk, Nowhere, Location
  <2>. QED BY <2>1, <2>2, <1>1, <1>2, <1>3, SearchKeepsType
<1>4. CASE x # "callers"
  <2>1. walk' = walk BY <1>4 DEF CallFails
  <2>. QED BY <2>1, <1>1, <1>2, <1>4, AsideKeepsType
<1>. QED BY <1>3, <1>4

LEMMA SearchesKeepType ==
  ASSUME TypeInv, Searches
  PROVE  TypeInv'
BY RefsKeepType, CallersKeepType, ListsKeepType, ReturnsKeepType, ImplementsKeepType, FailsKeepType
   DEF Searches

(* The end of a command.                                                   *)
Statuses ==
  {"", "ok", "not_found", "not_found_exact", "file_too_large", "ready", "unsupported", "error"}

LEMMA EndsKeepType ==
  ASSUME TypeInv, NEW r, Ends(r), Result(r), r.status \in Statuses, AllEnded,
         UNCHANGED <<given, server, part, walk, expired>>, faults' \in 0 .. MaxFaults
  PROVE  TypeInv'
<1>1. given' = given /\ server' = server /\ part' = part /\ walk' = walk /\ expired' = expired
      /\ pc' = "ended" /\ outcome' = r /\ client' \in {"none", "open", "closed"}
  BY DEF Ends, TypeInv, TypeOK
<1>2. TypeOK' BY <1>1 DEF TypeInv, TypeOK, given, Statuses
<1>3. WalkTyped' BY <1>1 DEF TypeInv, WalkTyped
<1>4. OutcomeTyped' BY <1>1 DEF OutcomeTyped, Result
<1>5. Orderly' BY <1>1 DEF TypeInv, Orderly, AllEnded
<1>. QED BY <1>2, <1>3, <1>4, <1>5 DEF TypeInv

LEMMA OutcomeMeans ==
  ASSUME TypeInv
  PROVE  /\ Result(outcome) /\ outcome.status \in Statuses
         /\ \A status \in Statuses : Result([outcome EXCEPT !.status = status])
         /\ \A status : [outcome EXCEPT !.status = status].status = status
BY DEF TypeInv, OutcomeTyped, Result, TypeOK, Statuses

LEMMA IdleIs ==
  ASSUME part = [x \in Parts |-> Idle]
  PROVE  AllEnded
<1>1. Idle.pc = "idle" BY DEF Idle
<1>. QED BY <1>1 DEF AllEnded

LEMMA EndsAsKeepsType ==
  ASSUME TypeInv, NEW status \in Statuses, EndsAs(status), AllEnded,
         UNCHANGED <<given, server, part, walk, expired>>, faults' \in 0 .. MaxFaults
  PROVE  TypeInv'
<1> DEFINE r == [outcome EXCEPT !.status = status]
<1>1. Result(r) /\ r.status = status /\ Ends(r) BY OutcomeMeans DEF EndsAs
<1> HIDE DEF r
<1>. QED BY <1>1, EndsKeepType

LEMMA PrimeFileIs ==
  ASSUME NEW w, IsWorld(w), NEW language
  PROVE  WorkspacePrimeFile(w, language) \in Nat
<1> DEFINE own == {f \in DOMAIN w.files : Shown(w, f) /\ w.files[f].language = language}
<1>1. own \in SUBSET Nat BY PlacesAreLocations
<1>2. WorkspacePrimeFile(w, language) = IF own = {} THEN 0 ELSE CHOOSE f \in own : \A g \in own : f <= g
  BY DEF WorkspacePrimeFile
<1> HIDE DEF own
<1>3. CASE own # {}
  <2>1. \E f \in own : \A g \in own : f <= g BY <1>1, <1>3, LeastNumber
  <2>. QED BY <2>1, <1>1, <1>2, <1>3
<1>4. CASE own = {} BY <1>2, <1>4
<1>. QED BY <1>3, <1>4

(* A search that is idle, and one that has been started.                   *)
LEMMA BegunIs ==
  ASSUME NEW step \in PartPCs
  PROVE  LET begun == [Idle EXCEPT !.pc = step] IN
         /\ Idle \in Part /\ Idle.pc = "idle" /\ Idle.says = "" /\ Idle.source = "" /\ Idle.lines = <<>>
         /\ begun \in Part /\ begun.pc = step /\ begun.says = "" /\ begun.source = "" /\ begun.lines = <<>>
<1> DEFINE L == Seq(ListLines)
           P == PartPCs
           R == [pc : P, at : Location, lines : L, source : {"", "lsp", "grep"}, says : Says, warned : BOOLEAN]
<1>1. Part = R BY DEF Part, ListLines, PartPCs, Says
<1>2. <<>> \in L /\ Nowhere \in Location /\ "idle" \in P /\ step \in P /\ "" \in Says
  BY DEF Nowhere, Location, PartPCs, Says
<1> HIDE DEF L, P
<1>3. Idle \in R /\ Idle.pc = "idle" /\ Idle.says = "" /\ Idle.source = "" /\ Idle.lines = <<>>
  BY <1>2 DEF Idle
<1>4. [Idle EXCEPT !.pc = step] \in R BY <1>2, <1>3
<1>. QED BY <1>1, <1>3, <1>4

LEMMA ConnectsKeepsType ==
  ASSUME TypeInv, Connects
  PROVE  TypeInv'
<1>1. /\ pc = "starts" /\ client' = "open" /\ given' = given /\ walk' = walk /\ outcome' = outcome
      /\ expired' = expired /\ faults' = faults
  BY DEF Connects
<1>2. part = [x \in Parts |-> Idle] /\ outcome = NoOutcome /\ walk = NoWalk
  <2>1. Idle.pc = "idle" BY DEF Idle
  <2>. QED BY <2>1, <1>1 DEF TypeInv, Orderly, Parts
<1> DEFINE begun == [Idle EXCEPT !.pc = "symbols"]
<1>3. /\ Idle \in Part /\ Idle.pc = "idle" /\ Idle.says = ""
      /\ begun \in Part /\ begun.pc = "symbols" /\ begun.says = ""
  BY BegunIs DEF PartPCs, Calls
<1>4. cmd.op \in {"refs", "callers", "implements", "query", "warmup"} BY TypeMeans DEF IsCommand
<1> HIDE DEF begun
<1>5. \/ cmd.op = "query" /\ pc' = "queries" /\ part' = part
      \/ cmd.op = "warmup" /\ pc' = "probes" /\ part' = part
      \/ pc' = "parts" /\ part' = [x \in Parts |-> IF x = cmd.op THEN begun ELSE part[x]]
  BY <1>4 DEF Connects, Continues, Starts, begun
<1>6. server' \in [installed : BOOLEAN, up : BOOLEAN, cold : BOOLEAN, indexed : BOOLEAN, opened : Nat]
  <2>1. WorkspacePrimeFile(W, Language) \in Nat BY TypeMeans, PrimeFileIs
  <2>2. server \in [installed : BOOLEAN, up : BOOLEAN, cold : BOOLEAN, indexed : BOOLEAN, opened : Nat]
    BY DEF TypeInv, TypeOK
  <2>3. server' \in {server, [server EXCEPT !.opened = WorkspacePrimeFile(W, Language)]}
    BY DEF Connects, Primed
  <2>. QED BY <2>1, <2>2, <2>3
<1>7. part' \in [Parts -> Part] BY <1>2, <1>3, <1>5
<1>8. \A x \in Parts : part'[x].says = "" /\ part'[x].pc \in {"idle", "symbols"} BY <1>2, <1>3, <1>5
<1>9. NoWalk.todo = <<>> /\ NoWalk.asks = Nowhere BY DEF NoWalk
<1>10. TypeOK' BY <1>1, <1>2, <1>5, <1>6, <1>7, <1>8, <1>9 DEF TypeInv, TypeOK, given
<1>11. WalkTyped' /\ OutcomeTyped' BY <1>1 DEF TypeInv, WalkTyped, OutcomeTyped
<1>12. "callers" \in Parts BY DEF Parts
<1>13. Orderly' BY <1>1, <1>2, <1>5, <1>8, <1>12 DEF Orderly, given
<1>. QED BY <1>10, <1>11, <1>13 DEF TypeInv

LEMMA GoesWithoutKeepsType ==
  ASSUME TypeInv, GoesWithout
  PROVE  TypeInv'
<1>1. /\ pc = "starts" /\ given' = given /\ server' = server /\ walk' = walk /\ expired' = expired
  BY DEF GoesWithout
<1>2. part = [x \in Parts |-> Idle] /\ outcome = NoOutcome /\ walk = NoWalk /\ AllEnded
  <2>1. Idle.pc = "idle" BY DEF Idle
  <2>2. part = [x \in Parts |-> Idle] /\ outcome = NoOutcome BY <1>1 DEF TypeInv, Orderly
  <2>. QED BY <2>1, <2>2, <1>1, IdleIs DEF TypeInv, Orderly, Parts
<1>3. faults' \in 0 .. MaxFaults
  <2>1. faults' = faults \/ (CanFail /\ Fault) BY DEF GoesWithout
  <2>. QED BY <2>1, FaultIs, TypeMeans
<1>4. CASE cmd.op \notin {"refs", "query"}
  <2>1. part' = part /\ (EndsAs("unsupported") \/ EndsAs("error")) BY <1>4 DEF GoesWithout
  <2>. QED BY <2>1, <1>1, <1>2, <1>3, EndsAsKeepsType DEF Statuses
<1>5. CASE cmd.op \in {"refs", "query"}
  <2> DEFINE begun == [Idle EXCEPT !.pc = "text"]
  <2>1. /\ Idle \in Part /\ Idle.pc = "idle" /\ Idle.says = ""
        /\ begun \in Part /\ begun.pc = "text" /\ begun.says = ""
    BY BegunIs DEF PartPCs
  <2>2. client' = client /\ outcome' = outcome BY <1>5 DEF GoesWithout
  <2>3. "refs" \in Parts /\ "callers" \in Parts BY DEF Parts
  <2>4. \/ cmd.op = "refs" /\ pc' = "parts" /\ part' = [part EXCEPT !["refs"].pc = "text"]
        \/ cmd.op = "query" /\ pc' = "queries" /\ part' = part
    BY <1>5 DEF GoesWithout
  <2>5. part' = [part EXCEPT !["refs"].pc = "text"] => part' = [x \in Parts |-> IF x = "refs" THEN begun ELSE Idle]
    BY <1>2, <2>3
  <2> HIDE DEF begun
  <2>6. part' \in [Parts -> Part] /\ \A x \in Parts : part'[x].says = "" /\ part'[x].pc \in {"idle", "text"}
    BY <1>2, <2>1, <2>4, <2>5
  <2>7. NoWalk.todo = <<>> /\ NoWalk.asks = Nowhere BY DEF NoWalk
  <2>8. TypeOK' BY <1>1, <1>2, <1>3, <2>2, <2>4, <2>6, <2>7 DEF TypeInv, TypeOK, given
  <2>9. WalkTyped' /\ OutcomeTyped' BY <1>1, <2>2 DEF TypeInv, WalkTyped, OutcomeTyped
  <2>10. client = "none" BY <1>1 DEF TypeInv, Orderly
  <2>11. Orderly' BY <1>1, <1>2, <2>2, <2>3, <2>4, <2>6, <2>10 DEF Orderly, given
  <2>. QED BY <2>8, <2>9, <2>11 DEF TypeInv
<1>. QED BY <1>4, <1>5

(* A query starts its searches, or ends.                                   *)
LEMMA QueriesIs ==
  ASSUME TypeInv, Queries
  PROVE  LET begun == [Idle EXCEPT !.pc = IF client = "open" THEN "symbols" ELSE "text"] IN
         /\ pc = "queries" /\ cmd.op = "query" /\ part = [x \in Parts |-> Idle] /\ outcome = NoOutcome
         /\ walk = NoWalk /\ UNCHANGED <<given, server, walk, expired, faults>>
         /\ begun \in Part /\ begun.says = "" /\ begun.source = "" /\ begun.lines = <<>>
         /\ begun.pc \in {"symbols", "text"} /\ (client = "open" => begun.pc = "symbols")
         /\ \/ /\ part' = part
               /\ \E status \in Statuses \ {"ready"} : EndsAs(status)
            \/ /\ client' = client /\ outcome' = outcome /\ pc' = "text"
               /\ part' = [x \in Parts |-> IF x = "refs" THEN begun ELSE Idle]
            \/ /\ client' = client /\ pc' = "parts" /\ W.defs # <<>>
               /\ \E v \in Views \ {""} : outcome' = [[outcome EXCEPT !.status = "ok"] EXCEPT !.view = v]
               /\ \E xs \in SUBSET Parts : part' = [x \in Parts |-> IF x \in xs THEN begun ELSE Idle]
<1> DEFINE begun == [Idle EXCEPT !.pc = IF client = "open" THEN "symbols" ELSE "text"]
           intent == Classify(cmd.looks, cmd.mode)
           texts  == intent = "text" \/ (intent = "symbol" /\ W.defs = <<>>)
           xs     == IF client = "open" /\ ~texts THEN Parts ELSE {"refs"}
           v      == View(W.defs[1], Budget.definition, cmd.atRoot, "cue" \in cmd.looks)
<1>1. pc = "queries" /\ UNCHANGED <<given, server, walk, expired, faults>> BY DEF Queries
<1>2. cmd.op = "query" /\ part = [x \in Parts |-> Idle] /\ outcome = NoOutcome /\ walk = NoWalk
  <2>1. part = [x \in Parts |-> Idle] /\ outcome = NoOutcome BY <1>1 DEF TypeInv, Orderly
  <2>2. Idle.pc = "idle" BY DEF Idle
  <2>. QED BY <2>1, <2>2, <1>1 DEF TypeInv, Orderly, Parts
<1>3. /\ begun \in Part /\ begun.says = "" /\ begun.source = "" /\ begun.lines = <<>>
      /\ begun.pc \in {"symbols", "text"} /\ (client = "open" => begun.pc = "symbols")
  <2> DEFINE step == IF client = "open" THEN "symbols" ELSE "text"
  <2>1. step \in PartPCs /\ step \in {"symbols", "text"} /\ (client = "open" => step = "symbols")
    BY DEF PartPCs, Calls
  <2> HIDE DEF step
  <2>2. begun = [Idle EXCEPT !.pc = step] BY DEF step
  <2> HIDE DEF begun
  <2>. QED BY <2>1, <2>2, BegunIs
<1>4. intent \in Intents
  <2>1. cmd.mode \in Intents \/ intent \in {"text", "path", "ast", "symbol"} BY DEF Classify
  <2>2. cmd.mode \in Intents => intent = cmd.mode BY DEF Classify
  <2>. QED BY <2>1, <2>2 DEF Intents
<1>5. CASE intent = "ast"
  <2>1. part' = part /\ EndsAs("not_found") BY <1>5 DEF Queries
  <2>2. "not_found" \in Statuses \ {"ready"} BY DEF Statuses
  <2>. QED BY <2>1, <2>2, <1>1, <1>2, <1>3
<1>6. CASE intent = "path"
  <2>1. part' = part /\ EndsAs(QueryPath(cmd.stat)) BY <1>6 DEF Queries
  <2>2. QueryPath(cmd.stat) \in {"file_too_large", "not_found"} \cup {"ok"} BY DEF QueryPath
  <2>. QED BY <2>1, <2>2, <1>1, <1>2, <1>3 DEF Statuses
<1>7. CASE intent \in {"text", "symbol"}
  <2>1. v \in Views \ {""}
    <3>1. ASSUME NEW d, NEW l, NEW a, NEW c PROVE View(d, l, a, c) \in Views \ {""}
      <4> HIDE DEF v
      <4>1. {"full_body", "signature_plus_outline", "signature_plus_slices"} = Views \ {""} BY DEF Views
      <4>. QED BY <4>1, Zenon DEF View, OutlineClassDefinition
    <3>. QED BY <3>1, Zenon
  <2> DEFINE start == [x \in Parts |-> IF x \notin xs THEN Idle ELSE begun]
             told == [[outcome EXCEPT !.status = "ok"] EXCEPT !.view = v]
  <2>2. /\ client' = client /\ pc' = (IF texts THEN "text" ELSE "parts") /\ part' = start
        /\ outcome' = IF texts THEN outcome ELSE told
    BY <1>7 DEF Queries
  <2>3. xs \in SUBSET Parts BY DEF Parts
  <2>4. part' = [x \in Parts |-> IF x \in xs THEN begun ELSE Idle] BY <2>2
  <2>5. CASE texts
    <3>1. xs = {"refs"} BY <2>5
    <3>2. part' = [x \in Parts |-> IF x = "refs" THEN begun ELSE Idle] BY <2>4, <3>1
    <3> HIDE DEF begun, texts, xs, v, start, told
    <3>. QED BY <2>2, <2>5, <3>2, <1>1, <1>2, <1>3 DEF begun
  <2>6. CASE ~texts
    <3>1. W.defs # <<>> BY <1>7, <2>6
    <3> HIDE DEF begun, texts, xs, start, v
    <3>2. client' = client /\ pc' = "parts" /\ outcome' = told BY <2>2, <2>6
    <3>. QED BY <2>1, <2>3, <2>4, <3>1, <3>2, <1>1, <1>2, <1>3 DEF begun
  <2>. QED BY <2>5, <2>6
<1>. QED BY <1>4, <1>5, <1>6, <1>7 DEF Intents

LEMMA QueriesKeepsType ==
  ASSUME TypeInv, Queries
  PROVE  TypeInv'
<1> DEFINE begun == [Idle EXCEPT !.pc = IF client = "open" THEN "symbols" ELSE "text"]
<1>1. /\ pc = "queries" /\ cmd.op = "query" /\ part = [x \in Parts |-> Idle] /\ outcome = NoOutcome
      /\ walk = NoWalk /\ UNCHANGED <<given, server, walk, expired, faults>>
      /\ begun \in Part /\ begun.says = "" /\ begun.pc \in {"symbols", "text"}
  BY QueriesIs
<1> DEFINE StartsAt(step) ==
      /\ client' = client /\ pc' = step
      /\ outcome' = outcome \/ \E v \in Views \ {""} : outcome' = [[outcome EXCEPT !.status = "ok"] EXCEPT !.view = v]
      /\ \E xs \in SUBSET Parts : part' = [x \in Parts |-> IF x \in xs THEN begun ELSE Idle]
<1>2. \/ /\ part' = part
         /\ \E status \in Statuses \ {"ready"} : EndsAs(status)
      \/ StartsAt("text") \/ StartsAt("parts")
  <2>1. {"refs"} \in SUBSET Parts BY DEF Parts
  <2>2. [x \in Parts |-> IF x = "refs" THEN begun ELSE Idle] = [x \in Parts |-> IF x \in {"refs"} THEN begun ELSE Idle]
    OBVIOUS
  <2> HIDE DEF begun
  <2>. QED BY <2>1, <2>2, QueriesIs DEF begun
<1>3. faults' \in 0 .. MaxFaults BY <1>1, TypeMeans
<1>4. ASSUME part' = part, NEW status \in Statuses, EndsAs(status) PROVE TypeInv'
  BY <1>1, <1>3, <1>4, IdleIs, EndsAsKeepsType
<1>5. ASSUME NEW step \in {"text", "parts"}, StartsAt(step) PROVE TypeInv'
  <2>1. Idle \in Part /\ Idle.pc = "idle" /\ Idle.says = "" BY BegunIs DEF PartPCs
  <2>2. PICK xs \in SUBSET Parts : part' = [x \in Parts |-> IF x \in xs THEN begun ELSE Idle] BY <1>5
  <2>3. client' = client /\ pc' = step BY <1>5
  <2>4. Result(outcome') /\ outcome'.status \in Statuses
    <3>1. Result(outcome) /\ outcome.status \in Statuses BY OutcomeMeans
    <3>2. ASSUME NEW v \in Views, outcome' = [[outcome EXCEPT !.status = "ok"] EXCEPT !.view = v]
          PROVE  Result(outcome') /\ outcome'.status = "ok"
      BY <3>1, <3>2 DEF Result
    <3>3. "ok" \in Statuses BY DEF Statuses
    <3>. QED BY <3>1, <3>2, <3>3, <1>5
  <2> HIDE DEF begun
  <2>5. part' \in [Parts -> Part] /\ \A x \in Parts : part'[x].says = "" /\ part'[x].pc \in {"idle", "symbols", "text"}
    BY <2>1, <2>2, <1>1
  <2>6. NoWalk.todo = <<>> /\ NoWalk.asks = Nowhere BY DEF NoWalk
  <2>7. TypeOK' BY <1>1, <1>3, <2>3, <2>4, <2>5, <2>6 DEF TypeInv, TypeOK, given, Statuses
  <2>8. WalkTyped' /\ OutcomeTyped' BY <1>1, <2>4 DEF TypeInv, WalkTyped, OutcomeTyped
  <2>9. "callers" \in Parts BY DEF Parts
  <2>10. client # "closed" BY <1>1 DEF TypeInv, Orderly
  <2>11. Orderly' BY <1>1, <2>3, <2>5, <2>9, <2>10 DEF Orderly, given
  <2>. QED BY <2>7, <2>8, <2>11 DEF TypeInv
<1>. QED BY <1>2, <1>4, <1>5

LEMMA QueryTextsKeepsType ==
  ASSUME TypeInv, QueryTexts
  PROVE  TypeInv'
<1> DEFINE found == Lines("refs")
           errors == IF Failed = {} THEN {} ELSE {"text search"}
           told == [outcome EXCEPT !.errors = errors]
           shown == ScoreReferences(W, found, Least(found).file, Items(Budget.references))
           r == [[told EXCEPT !.status = "ok"] EXCEPT !.shown["refs"] = shown]
<1>1. pc = "text" /\ AllEnded /\ UNCHANGED <<given, server, part, walk, expired, faults>> BY DEF QueryTexts
<1>2. Result(told) /\ told.status = outcome.status /\ outcome.status \in Statuses
  <2>1. Result(outcome) /\ outcome.status \in Statuses BY OutcomeMeans
  <2> HIDE DEF errors
  <2>. QED BY <2>1 DEF Result
<1>3. faults' \in 0 .. MaxFaults BY <1>1, TypeMeans
<1>4. CASE found = {}
  <2>1. outcome' = told /\ pc' = "semantic" /\ client' = client BY <1>4 DEF QueryTexts
  <2> HIDE DEF told
  <2>2. TypeOK' BY <1>1, <1>2, <2>1 DEF TypeInv, TypeOK, given, Statuses
  <2>3. WalkTyped' /\ OutcomeTyped' BY <1>1, <1>2, <2>1 DEF TypeInv, WalkTyped, OutcomeTyped
  <2>4. Orderly' BY <1>1, <2>1 DEF TypeInv, Orderly, AllEnded, given
  <2>. QED BY <2>2, <2>3, <2>4 DEF TypeInv
<1>5. CASE found # {}
  <2>1. Ends(r) BY <1>5 DEF QueryTexts
  <2>2. Result(r) /\ r.status = "ok"
    <3> HIDE DEF shown, told
    <3>. QED BY <1>2 DEF Result
  <2> HIDE DEF r
  <2>. QED BY <2>1, <2>2, <1>1, <1>3, EndsKeepType DEF Statuses
<1>. QED BY <1>4, <1>5

LEMMA RestKeepsType ==
  ASSUME TypeInv,
         \/ Refuses \/ Prints \/ QueryMeans \/ QueryJoins \/ Probes \/ ProbeFails \/ Ticks \/ GivesUp
         \/ Indexes \/ Dies \/ Expires \/ UNCHANGED vars
  PROVE  TypeInv'
<1> USE TypeMeans
<1>1. ASSUME pc \in {"starts", "queries", "probes", "waits", "semantic", "ended"} PROVE AllEnded
  BY <1>1, IdleIs DEF TypeInv, Orderly
<1>2. CASE Refuses
  BY <1>1, <1>2, EndsAsKeepsType DEF Refuses, Statuses
<1>3. CASE Prints
  <2> DEFINE op == cmd.op
             lines == Lines(op)
             status == IF Failed = {} THEN "ok" ELSE "error"
             r == [[[outcome EXCEPT !.status = status] EXCEPT !.errors = Failed] EXCEPT !.shown[op] = lines]
  <2>1. Ends(r) /\ AllEnded /\ UNCHANGED <<given, server, part, walk, expired, faults>> BY <1>3 DEF Prints
  <2>2. status \in Statuses BY DEF Statuses
  <2>3. Result(r) /\ r.status = status
    <3> HIDE DEF lines, op, status
    <3>. QED BY OutcomeMeans DEF Result
  <2> HIDE DEF r, status
  <2>. QED BY <2>1, <2>2, <2>3, EndsKeepType
<1>4. CASE QueryMeans
  <2> DEFINE r(found) == [[outcome EXCEPT
               !.errors = @ \cup (IF found = "fails" THEN {"semantic search"} ELSE {})] EXCEPT
               !.status = IF found = "some" THEN "ok"
                          ELSE IF Classify(cmd.looks, cmd.mode) = "symbol" THEN "not_found_exact" ELSE ""]
  <2>1. pc = "semantic" /\ UNCHANGED <<given, server, part, walk, expired, faults>> BY <1>4 DEF QueryMeans
  <2>2. PICK found \in {"nothing", "fails", "some"} : Ends(r(found)) BY <1>4 DEF QueryMeans
  <2>3. Result(r(found)) /\ r(found).status \in Statuses
    <3> DEFINE e == outcome.errors \cup (IF found = "fails" THEN {"semantic search"} ELSE {})
               status == IF found = "some" THEN "ok"
                         ELSE IF Classify(cmd.looks, cmd.mode) = "symbol" THEN "not_found_exact" ELSE ""
    <3>1. status \in Statuses BY DEF Statuses
    <3>2. r(found) = [[outcome EXCEPT !.errors = e] EXCEPT !.status = status] OBVIOUS
    <3> HIDE DEF e, status, r
    <3>. QED BY <3>1, <3>2, OutcomeMeans DEF Result
  <2> HIDE DEF r
  <2>. QED BY <2>1, <2>2, <2>3, <1>1, EndsKeepType
<1>5. CASE QueryJoins
  <2> DEFINE g == W.defs[1].file
             shown == [refs       |-> ScoreReferences(W, Lines("refs"), g, Items(Budget.references)),
                       callers    |-> ScoreCallers(W, part["callers"].lines, g, Items(Budget.callers)),
                       implements |-> Lines("implements")]
             r == [[outcome EXCEPT !.errors = Failed] EXCEPT !.shown = shown]
  <2>1. Ends(r) /\ AllEnded /\ UNCHANGED <<given, server, part, walk, expired, faults>> BY <1>5 DEF QueryJoins
  <2>2. Result(r) /\ r.status \in Statuses
    <3> HIDE DEF shown
    <3>. QED BY OutcomeMeans DEF Result
  <2> HIDE DEF r
  <2>. QED BY <2>1, <2>2, EndsKeepType
<1>6. CASE Probes
  <2>1. pc = "probes" /\ UNCHANGED <<given, server, part, walk, expired, faults>> BY <1>6 DEF Probes
  <2>2. CASE EndsAs("ready") BY <2>1, <2>2, <1>1, EndsAsKeepsType DEF Statuses
  <2>3. CASE pc' = "waits" /\ UNCHANGED <<client, outcome>>
    <3>1. TypeOK' BY <2>1, <2>3 DEF TypeInv, TypeOK, given
    <3>2. WalkTyped' /\ OutcomeTyped' BY <2>1, <2>3 DEF TypeInv, WalkTyped, OutcomeTyped
    <3>3. Orderly' BY <2>1, <2>3 DEF TypeInv, Orderly, given
    <3>. QED BY <3>1, <3>2, <3>3 DEF TypeInv
  <2>. QED BY <2>2, <2>3, <1>6 DEF Probes
<1>7. CASE ProbeFails
  <2>1. /\ pc = "probes" /\ EndsAs("error") /\ UNCHANGED <<given, server, part, walk, expired>>
        /\ CanFail /\ Fault
    BY <1>7 DEF ProbeFails
  <2>2. faults' \in 0 .. MaxFaults BY <2>1, FaultIs
  <2>. QED BY <2>1, <2>2, <1>1, EndsAsKeepsType DEF Statuses
<1>8. CASE Ticks
  <2>1. pc = "waits" /\ pc' = "probes" /\ UNCHANGED <<given, server, client, part, walk, outcome, expired, faults>>
    BY <1>8 DEF Ticks
  <2>2. TypeOK' BY <2>1 DEF TypeInv, TypeOK, given
  <2>3. WalkTyped' /\ OutcomeTyped' BY <2>1 DEF TypeInv, WalkTyped, OutcomeTyped
  <2>4. Orderly' BY <2>1 DEF TypeInv, Orderly, given
  <2>. QED BY <2>2, <2>3, <2>4 DEF TypeInv
<1>9. CASE GivesUp
  BY <1>1, <1>9, EndsAsKeepsType DEF GivesUp, Statuses
<1>10. CASE Indexes \/ Dies \/ Expires \/ UNCHANGED vars
  <2>1. UNCHANGED <<given, client, pc, part, walk, outcome, faults>>
    BY <1>10 DEF Indexes, Dies, Expires, vars
  <2>2. server' \in {server, [server EXCEPT !.indexed = TRUE], [server EXCEPT !.up = FALSE]}
    BY <1>10 DEF Indexes, Dies, Expires, vars
  <2>3. server' \in [installed : BOOLEAN, up : BOOLEAN, cold : BOOLEAN, indexed : BOOLEAN, opened : Nat]
    BY <2>2 DEF TypeInv, TypeOK
  <2>4. expired' = expired \/ expired' = TRUE BY <1>10 DEF Indexes, Dies, Expires, vars
  <2>5. expired' \in BOOLEAN BY <2>4 DEF TypeInv, TypeOK
  <2>6. TypeOK' BY <2>1, <2>3, <2>5 DEF TypeInv, TypeOK, given
  <2>7. WalkTyped' /\ OutcomeTyped' BY <2>1 DEF TypeInv, WalkTyped, OutcomeTyped
  <2>8. Orderly' BY <2>1 DEF TypeInv, Orderly, AllEnded, given
  <2>. QED BY <2>6, <2>7, <2>8 DEF TypeInv
<1>. QED BY <1>2, <1>3, <1>4, <1>5, <1>6, <1>7, <1>8, <1>9, <1>10

LEMMA TypeStarts ==
  ASSUME Init
  PROVE  TypeInv
<1>1. Idle \in Part /\ Idle.pc = "idle" /\ Idle.says = "" BY BegunIs DEF PartPCs
<1>2. NoWalk.todo = <<>> /\ NoWalk.asks = Nowhere BY DEF NoWalk
<1>3. server \in [installed : BOOLEAN, up : BOOLEAN, cold : BOOLEAN, indexed : BOOLEAN, opened : Nat]
  BY DEF Init
<1>4. NoOutcome.status = "" BY DEF NoOutcome
<1>5. TypeOK
  <2>1. 0 \in 0 .. MaxFaults BY CommandAssumption
  <2>2. FALSE \in BOOLEAN OBVIOUS
  <2>3. part \in [Parts -> Part] /\ \A x \in Parts : part[x].says = "" BY <1>1 DEF Init
  <2>4. expired \in BOOLEAN BY <2>2 DEF Init
  <2>. QED BY <1>2, <1>3, <1>4, <2>1, <2>3, <2>4 DEF Init, TypeOK
<1>6. WalkTyped BY DEF Init, WalkTyped, NoWalk, Nowhere, Location
<1>7. OutcomeTyped BY DEF Init, OutcomeTyped, Result, NoOutcome, Views
<1>8. Orderly BY <1>1 DEF Init, Orderly, Parts
<1>. QED BY <1>5, <1>6, <1>7, <1>8 DEF TypeInv

LEMMA TypeKept ==
  ASSUME TypeInv, [Next]_vars
  PROVE  TypeInv'
BY SearchesKeepType, ConnectsKeepsType, GoesWithoutKeepsType, QueriesKeepsType, QueryTextsKeepsType,
   RestKeepsType DEF Next, Command, Warmup

(* Values are what they should be, a search that failed has no lines, and  *)
(* a walk is only under way while the search for callers is, whatever the  *)
(* server answers and whichever calls fail (findWithLSP, walkIncoming).    *)
THEOREM QueryTypeCorrect == Spec => []TypeOK
<1>1. Init => TypeInv BY TypeStarts
<1>2. TypeInv /\ [Next]_vars => TypeInv' BY TypeKept
<1>3. TypeInv => TypeOK BY DEF TypeInv
<1>. QED BY <1>1, <1>2, <1>3, PTL DEF Spec

-----------------------------------------------------------------------------
(* One definition, precision, and warm-ups.                                *)

(* A search works on a declaration only if it looked up one, and ends with *)
(* the server's answer, unless a call fails, if there is one to look up.   *)
Follows(x) ==
  part'[x].pc \in Resolving \/ part'[x].source = "lsp" =>
    part[x].pc \in Resolving \/ part[x].source = "lsp" \/ LookedUp(x).says = "one"
IsExact(r) == r.pc # "text" /\ (r.pc = "ended" => r.says = "uri" \/ (r.says = "" /\ r.source = "lsp"))
Keeps(x) ==
  server.up /\ server.indexed /\ faults' = 0 /\ Cardinality(Candidates(x)) = 1 /\ part[x].pc # "text"
    => IsExact(part'[x])

LEMMA RefsFollow ==
  ASSUME TypeInv, RefsLooksUp \/ RefsReads \/ RefsGreps
  PROVE  Follows("refs") /\ Keeps("refs") /\ part["refs"].pc \notin {"idle", "ended"}
<1> USE TypeMeans
<1> DEFINE x == "refs"
<1>1. x \in Parts BY DEF Parts
<1>2. part[x].pc \in {"symbols", "uses", "text"} /\ part[x].says = ""
  <2>1. part[x].pc \in {"symbols", "uses", "text"}
    BY DEF RefsLooksUp, RefsReads, RefsGreps, Asked, PartAt
  <2>. QED BY <2>1, <1>1, BusyMeans
<1>3. {"text", "uses"} \subseteq PartPCs /\ {"uri", "ambiguous", "missing"} \subseteq Says
  BY DEF PartPCs, Says, Calls
<1>4. CASE RefsLooksUp
  <2>1. /\ LookedUp(x).at \in Location
        /\ server.indexed /\ Cardinality(Candidates(x)) = 1 => LookedUp(x).says \in {"uri", "one"}
        /\ LookedUp(x).says \in {"uri", "missing", "ambiguous", "one"}
    BY <1>1, LookedUpIs
  <2>2. \/ Errs(x, LookedUp(x).says) /\ LookedUp(x).says \in {"uri", "ambiguous"}
        \/ Step(x, "text") /\ LookedUp(x).says = "missing"
        \/ Found(x, LookedUp(x).at, "uses") /\ LookedUp(x).says \notin {"uri", "ambiguous", "missing"}
    BY <1>4, LookedUpInSearches DEF RefsLooksUp
  <2>3. CASE Errs(x, LookedUp(x).says) /\ LookedUp(x).says \in {"uri", "ambiguous"}
    BY <2>1, <2>3, <1>1, <1>2, <1>3, ErrsMoves DEF Follows, Keeps, IsExact, Resolving
  <2>4. CASE Step(x, "text") /\ LookedUp(x).says = "missing"
    BY <2>1, <2>4, <1>1, <1>2, <1>3, StepMoves DEF Follows, Keeps, Resolving
  <2>5. CASE Found(x, LookedUp(x).at, "uses") /\ LookedUp(x).says \notin {"uri", "ambiguous", "missing"}
    BY <2>1, <2>5, <1>1, <1>2, <1>3, FoundMoves DEF Follows, Keeps, IsExact, Resolving
  <2>. QED BY <2>2, <2>3, <2>4, <2>5, <1>2
<1>5. CASE RefsReads
  <2> DEFINE uses == ToReferenceLines(W, W.refs)
             warns == cmd.op = "refs" /\ uses = {} /\ Leftover(W, part["refs"].at) # {}
  <2>1. SetToSeq(uses) \in Seq(ListLines) BY AnswersAre, LinesAre, LinesTyped
  <2>2. warns \in BOOLEAN OBVIOUS
  <2>3. Errs(x, "uri") \/ Answers(x, SetToSeq(uses), "lsp", warns) BY <1>5 DEF RefsReads
  <2>4. part[x].pc = "uses" BY <1>5 DEF RefsReads, Asked, PartAt
  <2> HIDE DEF uses, warns
  <2>5. part'[x].pc = "ended" /\ (part'[x].says = "uri" \/ (part'[x].says = "" /\ part'[x].source = "lsp"))
    BY <2>1, <2>2, <2>3, <1>1, <1>2, <1>3, ErrsMoves, AnswersMoves
  <2>. QED BY <2>4, <2>5 DEF Follows, Keeps, IsExact, Resolving
<1>6. CASE RefsGreps
  <2>1. SetToSeq(GrepFind(W)) \in Seq(ListLines) BY GrepIs, LinesTyped
  <2>2. Errs(x, "missing") \/ Answers(x, SetToSeq(GrepFind(W)), "grep", FALSE) BY <1>6 DEF RefsGreps
  <2>3. part[x].pc = "text" BY <1>6 DEF RefsGreps, PartAt
  <2>4. part'[x].pc = "ended" /\ part'[x].source # "lsp"
    BY <2>1, <2>2, <1>1, <1>2, <1>3, ErrsMoves, AnswersMoves
  <2>. QED BY <2>3, <2>4 DEF Follows, Keeps, Resolving
<1>. QED BY <1>4, <1>5, <1>6

LEMMA ImplementsFollow ==
  ASSUME TypeInv, ImplementsLooksUp \/ ImplementsPrepares \/ ImplementsReads \/ ImplementsLocates
  PROVE  Follows("implements") /\ Keeps("implements") /\ part["implements"].pc \notin {"idle", "ended"}
<1> USE TypeMeans
<1> DEFINE x == "implements"
<1>1. x \in Parts BY DEF Parts
<1>2. part[x].pc \in {"symbols", "prepareTypes", "subtypes", "locations"} /\ part[x].says = ""
  <2>1. part[x].pc \in {"symbols", "prepareTypes", "subtypes", "locations"}
    BY DEF ImplementsLooksUp, ImplementsPrepares, ImplementsReads, ImplementsLocates, Asked, PartAt
  <2>. QED BY <2>1, <1>1, BusyMeans
<1>4. {"prepareTypes", "subtypes", "locations"} \subseteq PartPCs
      /\ {"none", "uri", "ambiguous", "missing"} \subseteq Says
  BY DEF PartPCs, Says, Calls
<1>5. CASE ImplementsLooksUp
  <2>1. /\ LookedUp(x).at \in Location /\ LookedUp(x).says \in {"uri", "missing", "ambiguous", "one"}
        /\ server.indexed /\ Cardinality(Candidates(x)) = 1 => LookedUp(x).says \in {"uri", "one"} /\ Symbols # <<>>
    BY <1>1, LookedUpIs
  <2>2. \/ Errs(x, "none") /\ Symbols = <<>>
        \/ Errs(x, LookedUp(x).says) /\ LookedUp(x).says # "one"
        \/ Found(x, LookedUp(x).at, "prepareTypes") /\ LookedUp(x).says = "one"
    BY <1>5, LookedUpInSearches DEF ImplementsLooksUp
  <2>3. ASSUME NEW says \in Says, Errs(x, says),
               server.indexed /\ Cardinality(Candidates(x)) = 1 => says = "uri"
        PROVE  Follows(x) /\ Keeps(x)
    <3>1. part'[x].pc = "ended" /\ part'[x].source = "" /\ part'[x].says = says BY <2>3, <1>1, ErrsMoves
    <3>. QED BY <3>1, <2>3 DEF Follows, Keeps, IsExact, Resolving
  <2>4. CASE (Errs(x, "none") /\ Symbols = <<>>) \/ (Errs(x, LookedUp(x).says) /\ LookedUp(x).says # "one")
    <3> DEFINE says == LookedUp(x).says
               sure == server.indexed /\ Cardinality(Candidates(x)) = 1
    <3>1. "none" \in Says /\ (says # "one" => says \in Says) BY <2>1, <1>4
    <3>2. (Symbols = <<>> => ~sure) /\ (says # "one" => (sure => says = "uri")) BY <2>1
    <3> HIDE DEF says
    <3>3. CASE Errs(x, "none") /\ Symbols = <<>> BY <2>3, <3>1, <3>2, <3>3, <1>2
    <3>4. CASE Errs(x, says) /\ says # "one" BY <2>3, <3>1, <3>2, <3>4, <1>2
    <3>. QED BY <2>4, <3>3, <3>4 DEF says
  <2>5. CASE Found(x, LookedUp(x).at, "prepareTypes") /\ LookedUp(x).says = "one"
    BY <2>1, <2>5, <1>1, <1>2, <1>4, FoundMoves DEF Follows, Keeps, IsExact, Resolving
  <2>. QED BY <2>2, <2>4, <2>5, <1>2
<1>6. ASSUME part[x].pc \in Resolving,
             part'[x].pc \notin {"text", "ended"} \/ part'[x].says = "uri"
               \/ (part'[x].says = "" /\ part'[x].source = "lsp"), part'[x].pc # "text"
      PROVE  Follows(x) /\ Keeps(x)
  BY <1>6 DEF Follows, Keeps, IsExact
<1>7. CASE ImplementsPrepares
  <2>1. Step(x, "subtypes") \/ Step(x, "locations") BY <1>7 DEF ImplementsPrepares
  <2>2. part'[x].pc \in {"subtypes", "locations"} BY <2>1, <1>1, <1>2, <1>4, StepMoves
  <2>3. part[x].pc = "prepareTypes" BY <1>7 DEF ImplementsPrepares, Asked, PartAt
  <2>. QED BY <2>2, <2>3, <1>2, <1>6 DEF Resolving
<1>8. CASE ImplementsReads
  <2> DEFINE lines == ToImplementationLines(W, W.subtypes)
  <2>1. SetToSeq(lines) \in Seq(ListLines) BY AnswersAre, ImplementationsAre, LinesTyped
  <2>2. Errs(x, "uri") \/ Step(x, "locations") \/ Answers(x, SetToSeq(lines), "lsp", FALSE)
    BY <1>8 DEF ImplementsReads
  <2>3. part[x].pc = "subtypes" BY <1>8 DEF ImplementsReads, Asked, PartAt
  <2> HIDE DEF lines
  <2>4. \/ part'[x].pc = "ended" /\ (part'[x].says = "uri" \/ (part'[x].says = "" /\ part'[x].source = "lsp"))
        \/ part'[x].pc = "locations"
    BY <2>1, <2>2, <1>1, <1>2, <1>4, ErrsMoves, StepMoves, AnswersMoves
  <2>. QED BY <2>3, <2>4, <1>2, <1>6 DEF Resolving
<1>9. CASE ImplementsLocates
  <2> DEFINE lines == LocationsToImplementationLines(W, W.impls)
  <2>1. SetToSeq(lines) \in Seq(ListLines) BY AnswersAre, LocatedAre, LinesTyped
  <2>2. Errs(x, "uri") \/ Answers(x, SetToSeq(lines), "lsp", FALSE) BY <1>9 DEF ImplementsLocates
  <2>3. part[x].pc = "locations" BY <1>9 DEF ImplementsLocates, Asked, PartAt
  <2> HIDE DEF lines
  <2>4. part'[x].pc = "ended" /\ (part'[x].says = "uri" \/ (part'[x].says = "" /\ part'[x].source = "lsp"))
    BY <2>1, <2>2, <1>1, <1>2, <1>4, ErrsMoves, AnswersMoves
  <2>. QED BY <2>3, <2>4, <1>2, <1>6 DEF Resolving
<1>. QED BY <1>5, <1>7, <1>8, <1>9

LEMMA CallersFollow ==
  ASSUME TypeInv, CallersLooksUp \/ CallersPrepares \/ CallersAsks \/ CallersLists \/ CallersReturns
  PROVE  Follows("callers") /\ Keeps("callers") /\ part["callers"].pc \notin {"idle", "ended"}
<1> USE TypeMeans
<1> DEFINE x == "callers"
<1>1. x \in Parts BY DEF Parts
<1>2. part[x].pc \in {"symbols", "prepareCalls", "incoming", "listing"} /\ part[x].says = ""
  <2>1. part[x].pc \in {"symbols", "prepareCalls", "incoming", "listing"}
    BY DEF CallersLooksUp, CallersPrepares, CallersAsks, CallersLists, CallersReturns, Asked, PartAt
  <2>. QED BY <2>1, <1>1, BusyMeans
<1>4. {"prepareCalls", "incoming", "listing", "ended"} \subseteq PartPCs
      /\ {"none", "uri", "ambiguous", "missing"} \subseteq Says
  BY DEF PartPCs, Says, Calls
<1>5. CASE CallersLooksUp
  <2>1. /\ LookedUp(x).at \in Location /\ LookedUp(x).says \in {"uri", "missing", "ambiguous", "one"}
        /\ server.indexed /\ Cardinality(Candidates(x)) = 1 => LookedUp(x).says \in {"uri", "one"} /\ Symbols # <<>>
    BY <1>1, LookedUpIs
  <2>2. \/ Errs(x, "none") /\ Symbols = <<>>
        \/ Errs(x, LookedUp(x).says) /\ LookedUp(x).says # "one"
        \/ Found(x, LookedUp(x).at, "prepareCalls") /\ LookedUp(x).says = "one"
    BY <1>5, LookedUpInSearches DEF CallersLooksUp
  <2>3. ASSUME NEW says \in Says, Errs(x, says),
               server.indexed /\ Cardinality(Candidates(x)) = 1 => says = "uri"
        PROVE  Follows(x) /\ Keeps(x)
    <3>1. part'[x].pc = "ended" /\ part'[x].source = "" /\ part'[x].says = says BY <2>3, <1>1, ErrsMoves
    <3>. QED BY <3>1, <2>3 DEF Follows, Keeps, IsExact, Resolving
  <2>4. CASE (Errs(x, "none") /\ Symbols = <<>>) \/ (Errs(x, LookedUp(x).says) /\ LookedUp(x).says # "one")
    <3> DEFINE says == LookedUp(x).says
               sure == server.indexed /\ Cardinality(Candidates(x)) = 1
    <3>1. "none" \in Says /\ (says # "one" => says \in Says) BY <2>1, <1>4
    <3>2. (Symbols = <<>> => ~sure) /\ (says # "one" => (sure => says = "uri")) BY <2>1
    <3> HIDE DEF says
    <3>3. CASE Errs(x, "none") /\ Symbols = <<>> BY <2>3, <3>1, <3>2, <3>3, <1>2
    <3>4. CASE Errs(x, says) /\ says # "one" BY <2>3, <3>1, <3>2, <3>4, <1>2
    <3>. QED BY <2>4, <3>3, <3>4 DEF says
  <2>5. CASE Found(x, LookedUp(x).at, "prepareCalls") /\ LookedUp(x).says = "one"
    BY <2>1, <2>5, <1>1, <1>2, <1>4, FoundMoves DEF Follows, Keeps, IsExact, Resolving
  <2>. QED BY <2>2, <2>4, <2>5, <1>2
<1>6. ASSUME part[x].pc \in Resolving,
             part'[x].pc \notin {"text", "ended"} \/ part'[x].says = "uri"
               \/ (part'[x].says = "" /\ part'[x].source = "lsp"), part'[x].pc # "text"
      PROVE  Follows(x) /\ Keeps(x)
  BY <1>6 DEF Follows, Keeps, IsExact
<1>7. CASE CallersPrepares
  <2>1. Answers(x, <<>>, "lsp", FALSE) \/ Errs(x, "uri") \/ Step(x, "incoming") BY <1>7 DEF CallersPrepares
  <2>2. <<>> \in Seq(ListLines) OBVIOUS
  <2>3. part[x].pc = "prepareCalls" BY <1>7 DEF CallersPrepares, Asked, PartAt
  <2>4. \/ part'[x].pc = "ended" /\ (part'[x].says = "uri" \/ (part'[x].says = "" /\ part'[x].source = "lsp"))
        \/ part'[x].pc = "incoming"
    BY <2>1, <2>2, <1>1, <1>2, <1>4, ErrsMoves, StepMoves, AnswersMoves
  <2>. QED BY <2>3, <2>4, <1>2, <1>6 DEF Resolving
<1>8. CASE CallersAsks
  <2>1. Errs(x, "uri") \/ Step(x, "listing") BY <1>8 DEF CallersAsks
  <2>2. part[x].pc = "incoming" BY <1>8 DEF CallersAsks, Asked, PartAt
  <2>3. \/ part'[x].pc = "ended" /\ part'[x].says = "uri"
        \/ part'[x].pc = "listing"
    BY <2>1, <1>1, <1>2, <1>4, ErrsMoves, StepMoves
  <2>. QED BY <2>2, <2>3, <1>2, <1>6 DEF Resolving
<1>9. CASE CallersLists
  <2>1. part[x].pc = "listing" /\ part'[x].pc \in {"incoming", "listing"} BY <1>9, NextListed, OneMore
  <2>. QED BY <2>1, <1>6 DEF Resolving
<1>10. CASE CallersReturns
  <2>1. /\ part[x].pc = "listing" /\ part'[x].says = ""
        /\ part'[x].pc = "listing" \/ (part'[x].pc = "ended" /\ part'[x].source = "lsp")
    BY <1>10, Returned
  <2>. QED BY <2>1, <1>6 DEF Resolving
<1>. QED BY <1>2, <1>5, <1>7, <1>8, <1>9, <1>10

(* A search moves, and the others stand still.                             *)
LEMMA SearchMoves ==
  ASSUME TypeInv, Searches
  PROVE  /\ Rest /\ faults \in Nat /\ faults' \in Nat /\ faults <= faults'
         /\ \E x \in Parts :
              /\ Moves(x) /\ Follows(x) /\ part[x].pc \notin {"idle", "ended"}
              /\ Keeps(x)
<1>1. faults \in 0 .. MaxFaults /\ MaxFaults \in Nat BY TypeMeans, CommandAssumption
<1>2. "refs" \in Parts /\ "callers" \in Parts /\ "implements" \in Parts BY DEF Parts
<1>3. CASE RefsLooksUp \/ RefsReads \/ RefsGreps
  <2>1. StillRest BY <1>3 DEF RefsLooksUp, RefsReads, RefsGreps
  <2>. QED BY <1>1, <1>2, <1>3, <2>1, RefsFollow, RefsKeepType DEF StillRest
<1>4. CASE ImplementsLooksUp \/ ImplementsPrepares \/ ImplementsReads \/ ImplementsLocates
  <2>1. StillRest BY <1>4 DEF ImplementsLooksUp, ImplementsPrepares, ImplementsReads, ImplementsLocates
  <2>. QED BY <1>1, <1>2, <1>4, <2>1, ImplementsFollow, ImplementsKeepType DEF StillRest
<1>5. CASE CallersLooksUp \/ CallersPrepares \/ CallersAsks \/ CallersLists \/ CallersReturns
  <2>1. Rest /\ faults' = faults
    BY <1>5 DEF CallersLooksUp, CallersPrepares, CallersAsks, CallersLists, CallersReturns, StillRest
  <2>2. Moves("callers") BY <1>5, CallersKeepType, OneMore, Returned
  <2>. QED BY <1>1, <1>2, <1>5, <2>1, <2>2, CallersFollow
<1>6. ASSUME NEW x \in Parts, CallFails(x)
      PROVE  /\ Rest /\ faults' \in Nat /\ faults <= faults' /\ Moves(x) /\ Follows(x)
             /\ part[x].pc \notin {"idle", "ended"} /\ Keeps(x)
  <2>1. Rest /\ CanFail /\ Fault BY <1>6 DEF CallFails
  <2>2. faults' = IF server.up THEN faults + 1 ELSE faults BY <2>1 DEF Fault
  <2>3. /\ Moves(x) /\ part[x].pc \in Calls /\ part'[x].pc \in {"text", "ended"}
        /\ part'[x].source \in {part[x].source, ""}
    BY <1>6, FailsMoves
  <2>4. Follows(x) BY <2>3 DEF Follows, Resolving
  <2>5. Keeps(x) BY <1>1, <2>2 DEF Keeps
  <2>6. faults' \in Nat /\ faults <= faults' BY <1>1, <2>2
  <2>7. part[x].pc \notin {"idle", "ended"} BY <2>3 DEF Calls
  <2>. QED BY <2>1, <2>3, <2>4, <2>5, <2>6, <2>7
<1>. QED BY <1>1, <1>3, <1>4, <1>5, <1>6 DEF Searches

(* Steps that are not a search's leave them, or start them.                *)
Fresh(x) == part'[x].pc \in {"idle", "symbols", "text"} /\ part'[x].source = "" /\ part'[x].lines = <<>>
LEMMA OtherMoves ==
  ASSUME TypeInv, [Next]_vars, ~Searches
  PROVE  /\ given' = given /\ walk' = walk
         /\ \/ part' = part
            \/ /\ \A x \in Parts : Fresh(x)
               /\ client' # "none" => client' = "open" /\ \A x \in Parts : part'[x].pc # "text"
<1>1. CASE Connects
  <2>1. part = [x \in Parts |-> Idle] /\ cmd.op \in {"refs", "callers", "implements", "query", "warmup"}
    BY <1>1, TypeMeans DEF Connects, TypeInv, Orderly, IsCommand
  <2>2. \/ part' = part
        \/ part' = [x \in Parts |-> IF x = cmd.op THEN [Idle EXCEPT !.pc = "symbols"] ELSE part[x]]
    BY <1>1, <2>1 DEF Connects, Continues, Starts
  <2> DEFINE begun == [Idle EXCEPT !.pc = "symbols"]
  <2>3. /\ Idle.pc = "idle" /\ Idle.source = "" /\ Idle.lines = <<>>
        /\ begun.pc = "symbols" /\ begun.source = "" /\ begun.lines = <<>>
    BY BegunIs DEF PartPCs, Calls
  <2> HIDE DEF begun
  <2>4. part' = part \/ part' = [x \in Parts |-> IF x = cmd.op THEN begun ELSE part[x]] BY <2>2 DEF begun
  <2>. QED BY <1>1, <2>1, <2>3, <2>4 DEF Connects, Fresh, given
<1>2. CASE GoesWithout
  <2>1. part = [x \in Parts |-> Idle] /\ client = "none"
    BY <1>2 DEF GoesWithout, TypeInv, Orderly
  <2>2. \/ part' = part
        \/ part' = [part EXCEPT !["refs"].pc = "text"] /\ client' = client
    BY <1>2 DEF GoesWithout
  <2> DEFINE begun == [Idle EXCEPT !.pc = "text"]
  <2>3. /\ Idle.pc = "idle" /\ Idle.source = "" /\ Idle.lines = <<>>
        /\ begun.pc = "text" /\ begun.source = "" /\ begun.lines = <<>>
    BY BegunIs DEF PartPCs
  <2>4. "refs" \in Parts BY DEF Parts
  <2>5. part' = [part EXCEPT !["refs"].pc = "text"] => part' = [x \in Parts |-> IF x = "refs" THEN begun ELSE Idle]
    BY <2>1, <2>4
  <2> HIDE DEF begun
  <2>. QED BY <1>2, <2>1, <2>2, <2>3, <2>5 DEF GoesWithout, Fresh, given
<1>3. CASE Queries
  <2> DEFINE begun == [Idle EXCEPT !.pc = IF client = "open" THEN "symbols" ELSE "text"]
  <2>1. /\ pc = "queries" /\ UNCHANGED <<given, walk>>
        /\ begun.source = "" /\ begun.lines = <<>> /\ begun.pc \in {"symbols", "text"}
        /\ client = "open" => begun.pc = "symbols"
    BY <1>3, QueriesIs
  <2>2. \/ part' = part
        \/ client' = client /\ \E xs \in SUBSET Parts : part' = [x \in Parts |-> IF x \in xs THEN begun ELSE Idle]
    <3>1. {"refs"} \in SUBSET Parts BY DEF Parts
    <3>2. [x \in Parts |-> IF x = "refs" THEN begun ELSE Idle] = [x \in Parts |-> IF x \in {"refs"} THEN begun ELSE Idle]
      OBVIOUS
    <3> HIDE DEF begun
    <3>. QED BY <1>3, <3>1, <3>2, QueriesIs DEF begun
  <2>3. Idle.pc = "idle" /\ Idle.source = "" /\ Idle.lines = <<>> BY BegunIs DEF PartPCs
  <2>4. client \in {"none", "open"} BY <2>1 DEF TypeInv, TypeOK, Orderly
  <2> HIDE DEF begun
  <2>. QED BY <2>1, <2>2, <2>3, <2>4 DEF Fresh, given
<1>4. CASE \/ Refuses \/ Prints \/ QueryTexts \/ QueryMeans \/ QueryJoins \/ Probes \/ ProbeFails \/ Ticks \/ GivesUp
           \/ Indexes \/ Dies \/ Expires \/ UNCHANGED vars
  BY <1>4 DEF Refuses, Prints, QueryTexts, QueryMeans, QueryJoins, Probes, ProbeFails, Ticks, GivesUp,
              Indexes, Dies, Expires, vars, given
<1>. QED BY <1>1, <1>2, <1>3, <1>4 DEF Next, Command, Warmup

LEMMA ReadyKept ==
  ASSUME TypeInv, Ready, [Next]_vars
  PROVE  Ready'
<1>1. ASSUME outcome.status = "ready" PROVE pc = "ended" BY <1>1 DEF Ready
<1>2. \A status : [outcome EXCEPT !.status = status].status = status BY OutcomeMeans
<1>3. CASE Searches
  BY <1>3, SearchMoves DEF Rest, Ready
<1>4. CASE Connects BY <1>1, <1>4 DEF Connects, Ready
<1>5. CASE Refuses \/ GivesUp \/ ProbeFails
  BY <1>2, <1>5 DEF Refuses, GivesUp, ProbeFails, EndsAs, Ends, Ready
<1>6. CASE GoesWithout
  <2>1. pc = "starts" BY <1>6 DEF GoesWithout
  <2>2. outcome' = outcome \/ \E s \in {"unsupported", "error"} : EndsAs(s) BY <1>6 DEF GoesWithout
  <2>. QED BY <1>1, <1>2, <2>1, <2>2 DEF EndsAs, Ends, Ready
<1>7. CASE Prints
  <2> DEFINE op == cmd.op
             lines == Lines(op)
             status == IF Failed = {} THEN "ok" ELSE "error"
  <2>1. outcome' = [[[outcome EXCEPT !.status = status] EXCEPT !.errors = Failed] EXCEPT !.shown[op] = lines]
    BY <1>7 DEF Prints, Ends
  <2>2. Result(outcome) /\ status # "ready" BY OutcomeMeans
  <2>3. outcome'.status = status
    <3> HIDE DEF lines, op, status
    <3>. QED BY <2>1, <2>2 DEF Result
  <2>. QED BY <2>2, <2>3 DEF Ready
<1>8. CASE Queries
  <2>1. pc = "queries" BY <1>8 DEF Queries
  <2>2. \/ outcome' = outcome
        \/ \E v \in Views : outcome' = [[outcome EXCEPT !.status = "ok"] EXCEPT !.view = v]
        \/ \E s \in Statuses \ {"ready"} : EndsAs(s)
    BY <1>8, QueriesIs
  <2>3. Result(outcome) BY OutcomeMeans
  <2>4. ASSUME NEW v \in Views, outcome' = [[outcome EXCEPT !.status = "ok"] EXCEPT !.view = v]
        PROVE  outcome'.status = "ok"
    BY <2>3, <2>4 DEF Result
  <2>. QED BY <1>1, <1>2, <2>1, <2>2, <2>4 DEF EndsAs, Ends, Ready
<1>9. CASE QueryTexts
  <2> DEFINE errors == IF Failed = {} THEN {} ELSE {"text search"}
             told == [outcome EXCEPT !.errors = errors]
             shown == ScoreReferences(W, Lines("refs"), Least(Lines("refs")).file, Items(Budget.references))
  <2>1. pc = "text" BY <1>9 DEF QueryTexts
  <2>2. outcome' = told \/ outcome' = [[told EXCEPT !.status = "ok"] EXCEPT !.shown["refs"] = shown]
    BY <1>9 DEF QueryTexts, Ends
  <2>3. Result(outcome) BY OutcomeMeans
  <2>4. outcome'.status \in {outcome.status, "ok"}
    <3> HIDE DEF errors, shown
    <3>. QED BY <2>2, <2>3 DEF Result
  <2>. QED BY <1>1, <2>1, <2>4 DEF Ready
<1>10. CASE QueryMeans
  <2>1. PICK found \in {"nothing", "fails", "some"} :
          Ends([[outcome EXCEPT
                 !.errors = @ \cup (IF found = "fails" THEN {"semantic search"} ELSE {})] EXCEPT
                 !.status = IF found = "some" THEN "ok"
                            ELSE IF Classify(cmd.looks, cmd.mode) = "symbol" THEN "not_found_exact" ELSE ""])
    BY <1>10 DEF QueryMeans
  <2> DEFINE e == outcome.errors \cup (IF found = "fails" THEN {"semantic search"} ELSE {})
             status == IF found = "some" THEN "ok"
                       ELSE IF Classify(cmd.looks, cmd.mode) = "symbol" THEN "not_found_exact" ELSE ""
  <2>2. outcome' = [[outcome EXCEPT !.errors = e] EXCEPT !.status = status] BY <2>1 DEF Ends
  <2>3. status # "ready" OBVIOUS
  <2>4. Result(outcome) BY OutcomeMeans
  <2>5. outcome'.status = status
    <3> HIDE DEF e, status
    <3>. QED BY <2>2, <2>4 DEF Result
  <2>. QED BY <2>3, <2>5 DEF Ready
<1>11. CASE QueryJoins
  <2> DEFINE g == W.defs[1].file
             shown == [refs       |-> ScoreReferences(W, Lines("refs"), g, Items(Budget.references)),
                       callers    |-> ScoreCallers(W, part["callers"].lines, g, Items(Budget.callers)),
                       implements |-> Lines("implements")]
  <2>1. pc = "parts" /\ outcome' = [[outcome EXCEPT !.errors = Failed] EXCEPT !.shown = shown]
    BY <1>11 DEF QueryJoins, Ends
  <2>2. Result(outcome) BY OutcomeMeans
  <2>3. outcome'.status = outcome.status
    <3> HIDE DEF shown
    <3>. QED BY <2>1, <2>2 DEF Result
  <2>. QED BY <1>1, <2>1, <2>3 DEF Ready
<1>12. CASE Probes
  <2>1. /\ pc = "probes" /\ server.up /\ server' = server
        /\ (EndsAs("ready") /\ Symbols # <<>>) \/ outcome' = outcome
    BY <1>12 DEF Probes
  <2>2. Symbols # <<>> => server.indexed BY DEF Symbols
  <2>. QED BY <1>1, <2>1, <2>2 DEF EndsAs, Ends, Ready
<1>13. CASE Ticks \/ Expires
  BY <1>1, <1>13 DEF Ticks, Expires, Ready
<1>14. CASE Indexes \/ Dies \/ UNCHANGED vars
  BY <1>1, <1>14 DEF Indexes, Dies, vars, Ready
<1>. QED BY <1>3, <1>4, <1>5, <1>6, <1>7, <1>8, <1>9, <1>10, <1>11, <1>12, <1>13, <1>14
         DEF Next, Command, Warmup

LEMMA OneFoundKept ==
  ASSUME TypeInv, OneFound, [Next]_vars
  PROVE  OneFound'
<1>1. world' = world /\ cmd' = cmd
  BY SearchMoves, OtherMoves DEF Rest, given
<1>2. \A x \in Parts : Candidates(x)' = Candidates(x) BY <1>1 DEF Candidates, W
<1>3. world \in DOMAIN Worlds BY TypeMeans
<1>4. CASE Searches
  <2>1. PICK x \in Parts : Moves(x) /\ Follows(x) BY <1>4, SearchMoves
  <2>2. LookedUp(x).says = "one" => Cardinality(Candidates(x)) = 1 BY <1>3, LookedUpIs
  <2>3. part'[x].pc \in Resolving \/ part'[x].source = "lsp" => Cardinality(Candidates(x)) = 1
    BY <2>1, <2>2 DEF Follows, OneFound
  <2>4. \A y \in Parts \ {x} : part'[y] = part[y] BY <2>1 DEF Moves, Only
  <2>. QED BY <1>2, <2>3, <2>4 DEF OneFound
<1>5. CASE ~Searches
  <2>1. part' = part \/ \A x \in Parts : Fresh(x) BY <1>5, OtherMoves
  <2>. QED BY <1>2, <2>1 DEF OneFound, Fresh, Resolving
<1>. QED BY <1>4, <1>5

LEMMA PreciseKept ==
  ASSUME TypeInv, Precise, [Next]_vars
  PROVE  Precise'
<1>1. world' = world /\ cmd' = cmd
  BY SearchMoves, OtherMoves DEF Rest, given
<1>2. \A x \in Parts : Candidates(x)' = Candidates(x) BY <1>1 DEF Candidates, W
<1>3. CASE Searches
  <2>1. /\ server' = server /\ client' = client /\ faults \in Nat /\ faults' \in Nat /\ faults <= faults'
    BY <1>3, SearchMoves DEF Rest
  <2>2. PICK x \in Parts : Moves(x) /\ Keeps(x) BY <1>3, SearchMoves
  <2>3. \A y \in Parts \ {x} : part'[y] = part[y] BY <2>2 DEF Moves, Only
  <2>4. SUFFICES ASSUME client # "none", server.up, ~server.cold, faults' = 0,
                        NEW y \in Parts, Cardinality(Candidates(y)) = 1
                 PROVE  IsExact(part'[y])
    BY <1>2, <2>1 DEF Precise, IsExact
  <2>5. faults = 0 /\ server.indexed
    <3>1. faults = 0 BY <2>1, <2>4
    <3>2. server.indexed BY <2>4, Zenon DEF Precise
    <3>. QED BY <3>1, <3>2
  <2>6. IsExact(part[y]) BY <2>4, <2>5 DEF Precise, IsExact
  <2>7. y = x => IsExact(part'[y]) BY <2>2, <2>4, <2>5, <2>6 DEF Keeps, IsExact
  <2>. QED BY <2>3, <2>6, <2>7
<1>4. CASE ~Searches
  <2>1. /\ server'.cold = server.cold
        /\ server'.up = server.up \/ ~server'.up
        /\ server.indexed => server'.indexed
    <3>1. server \in [installed : BOOLEAN, up : BOOLEAN, cold : BOOLEAN, indexed : BOOLEAN, opened : Nat]
      BY DEF TypeInv, TypeOK
    <3>2. \/ server' = server \/ server' = [server EXCEPT !.indexed = TRUE] \/ server' = [server EXCEPT !.up = FALSE]
          \/ \E o : server' = [server EXCEPT !.opened = o]
      BY <1>4 DEF Next, Command, Warmup, Connects, Primed, GoesWithout, Queries, Refuses, Prints, QueryTexts, QueryMeans,
                  QueryJoins, Probes, ProbeFails, Ticks, GivesUp, Indexes, Dies, Expires, vars
    <3>. QED BY <3>1, <3>2
  <2>2. faults \in Nat /\ faults' \in Nat /\ faults <= faults'
    <3>1. faults \in 0 .. MaxFaults BY TypeMeans
    <3>2. faults' = faults \/ Fault
      BY <1>4 DEF Next, Command, Warmup, Connects, GoesWithout, Queries, Refuses, Prints, QueryTexts, QueryMeans,
                  QueryJoins, Probes, ProbeFails, Ticks, GivesUp, Indexes, Dies, Expires, vars
    <3>3. Fault => faults' = faults \/ faults' = faults + 1 BY DEF Fault
    <3>. QED BY <3>1, <3>2, <3>3, CommandAssumption
  <2>3. client = "none" => client' = "none" \/ Connects
    BY <1>4 DEF Next, Command, Warmup, Connects, GoesWithout, Queries, Refuses, Prints, QueryTexts, QueryMeans,
                QueryJoins, Probes, ProbeFails, Ticks, GivesUp, Indexes, Dies, Expires, vars, EndsAs, Ends
  <2>4. CASE Connects
    <3>1. part = [x \in Parts |-> Idle] BY <2>4 DEF Connects, TypeInv, Orderly
    <3>2. Idle.pc = "idle" BY DEF Idle
    <3>3. part' = part \/ \A x \in Parts : Fresh(x) /\ part'[x].pc # "text"
      BY <1>4, <2>4, OtherMoves DEF Connects
    <3>4. \A x \in Parts : part'[x].pc \notin {"text", "ended"} BY <3>1, <3>2, <3>3 DEF Fresh
    <3>. QED BY <2>1, <3>4 DEF Precise
  <2>5. CASE ~Connects
    <3>1. part' = part \/ client' = "none" \/ \A x \in Parts : part'[x].pc \notin {"text", "ended"}
      BY <1>4, OtherMoves DEF Fresh
    <3>2. CASE client' = "none" BY <2>1, <3>2 DEF Precise
    <3>3. CASE \A x \in Parts : part'[x].pc \notin {"text", "ended"} BY <2>1, <3>3 DEF Precise
    <3>4. CASE part' = part /\ client # "none"
      <4>1. faults' = 0 => faults = 0 BY <2>2
      <4>. QED BY <1>2, <2>1, <3>4, <4>1, Zenon DEF Precise
    <3>. QED BY <2>3, <2>5, <3>1, <3>2, <3>3, <3>4
  <2>. QED BY <2>4, <2>5
<1>. QED BY <1>3, <1>4

LEMMA SearchesStart ==
  ASSUME Init
  PROVE  Ready /\ OneFound /\ Precise
<1>1. Idle.pc = "idle" /\ Idle.source = "" BY DEF Idle
<1>2. NoOutcome.status = "" BY DEF NoOutcome
<1>3. Ready BY <1>2 DEF Init, Ready
<1>4. OneFound BY <1>1 DEF Init, OneFound, Resolving
<1>5. PICK installed \in BOOLEAN, cold \in BOOLEAN :
        server = [installed |-> installed, up |-> TRUE, cold |-> cold, indexed |-> ~cold, opened |-> 0]
  BY DEF Init
<1>6. client = "none" BY DEF Init
<1>7. server.cold = cold /\ server.indexed = ~cold BY <1>5
<1>8. Precise
  <2>1. ~server.cold => server.indexed BY <1>7
  <2>. QED BY <1>6, <2>1, Zenon DEF Precise
<1>. QED BY <1>3, <1>4, <1>8

(* A warm-up that reports readiness leaves a server that has indexed the   *)
(* workspace, whatever the order of its ticks, its deadline and the        *)
(* answers, and however many probes fail (executeLSPWarmupWithRegistry).   *)
THEOREM WarmIsIndexed == Spec => []WarmMeansIndexed
<1> DEFINE I == TypeInv /\ Ready
<1>1. Init => I BY TypeStarts, SearchesStart
<1>2. I /\ [Next]_vars => I' BY TypeKept, ReadyKept
<1>3. I => WarmMeansIndexed BY DEF Ready, WarmMeansIndexed
<1>. QED BY <1>1, <1>2, <1>3, PTL DEF Spec

(* What the server says is only ever listed if exactly one symbol in reach *)
(* has the name and the kind, in every workspace (resolveCandidates).      *)
THEOREM OneDefinitionEach == Spec => []OneDefinition
<1> DEFINE I == TypeInv /\ OneFound
<1>1. Init => I BY TypeStarts, SearchesStart
<1>2. I /\ [Next]_vars => I' BY TypeKept, OneFoundKept
<1>3. I => OneDefinition BY DEF OneFound, OneDefinition
<1>. QED BY <1>1, <1>2, <1>3, PTL DEF Spec

(* With a server that had indexed the workspace and a connection on which  *)
(* nothing failed, a search for a name that has one definition in reach    *)
(* ends with the server's answer (findWithLSP, Query's three searches).    *)
THEOREM PrecisionKept == Spec => []PrecisionIsKept
<1> DEFINE I == TypeInv /\ Precise
<1>1. Init => I BY TypeStarts, SearchesStart
<1>2. I /\ [Next]_vars => I' BY TypeKept, PreciseKept
<1>3. I => PrecisionIsKept BY Zenon DEF Precise, PrecisionIsKept
<1>. QED BY <1>1, <1>2, <1>3, PTL DEF Spec

-----------------------------------------------------------------------------
(* Nothing is lost.                                                        *)

(* The search for references stands still in the steps of the others.      *)
LEMMA OthersMove ==
  ASSUME TypeInv, Searches, ~(RefsLooksUp \/ RefsReads \/ RefsGreps \/ CallFails("refs"))
  PROVE  part'["refs"] = part["refs"]
<1>1. \E y \in {"callers", "implements"} : Moves(y)
  <2>1. CASE CallersLooksUp \/ CallersPrepares \/ CallersAsks \/ CallersLists \/ CallersReturns
    BY <2>1, CallersKeepType, OneMore, Returned
  <2>2. CASE ImplementsLooksUp \/ ImplementsPrepares \/ ImplementsReads \/ ImplementsLocates
    BY <2>2, ImplementsKeepType
  <2>3. ASSUME NEW y \in Parts, CallFails(y) PROVE y \in {"callers", "implements"} /\ Moves(y)
    BY <2>3, FailsMoves DEF Parts
  <2>. QED BY <2>1, <2>2, <2>3 DEF Searches
<1>. QED BY <1>1 DEF Moves, Only, Parts

LEMMA NothingLostKept ==
  ASSUME TypeInv, NothingIsLost, [Next]_vars
  PROVE  NothingIsLost'
<1> USE TypeMeans
<1> DEFINE x == "refs"
           L == Printed(W, GrepFind(W))
<1>1. world' = world /\ cmd' = cmd BY SearchMoves, OtherMoves DEF Rest, given
<1>2. W' = W BY <1>1 DEF W
<1>3. x \in Parts BY DEF Parts
<1> DEFINE Lost(p) == /\ cmd.op = "refs" /\ p.pc = "ended" /\ p.says \notin {"uri", "ambiguous"}
                      /\ L \ {p.at} # {}
                      /\ ~(p.lines # <<>> \/ p.warned)
<1>4. ~Lost(part[x]) BY DEF NothingIsLost
<1>5. SUFFICES ~Lost(part'[x]) BY <1>1, <1>2 DEF NothingIsLost
<1>6. {"text", "uses"} \subseteq PartPCs /\ {"uri", "ambiguous", "missing"} \subseteq Says
  BY DEF PartPCs, Says, Calls
<1>7. ASSUME part[x].pc \notin {"idle", "ended"} PROVE part[x].says = "" BY <1>3, <1>7, BusyMeans
<1>8. CASE RefsLooksUp
  <2>1. LookedUp(x).at \in Location BY <1>3, LookedUpIs
  <2>2. \/ Errs(x, LookedUp(x).says) /\ LookedUp(x).says \in {"uri", "ambiguous"}
        \/ Step(x, "text") \/ Found(x, LookedUp(x).at, "uses")
    BY <1>8, LookedUpInSearches DEF RefsLooksUp
  <2>3. part[x].says = "" BY <1>7, <1>8 DEF RefsLooksUp, Asked, PartAt
  <2>4. part'[x].pc # "ended" \/ part'[x].says \in {"uri", "ambiguous"}
    <3>1. CASE Errs(x, LookedUp(x).says) /\ LookedUp(x).says \in {"uri", "ambiguous"}
      BY <3>1, <1>3, <1>6, ErrsMoves
    <3>2. CASE Step(x, "text") BY <3>2, <2>3, <1>3, <1>6, StepMoves
    <3>3. CASE Found(x, LookedUp(x).at, "uses") BY <3>3, <2>1, <2>3, <1>3, <1>6, FoundMoves
    <3>. QED BY <2>2, <3>1, <3>2, <3>3
  <2>. QED BY <2>4
<1>9. CASE RefsReads
  <2> DEFINE uses == ToReferenceLines(W, W.refs)
             warns == cmd.op = "refs" /\ uses = {} /\ Leftover(W, part[x].at) # {}
  <2>1. IsFiniteSet(uses) /\ SetToSeq(uses) \in Seq(ListLines) BY AnswersAre, LinesAre, LinesTyped
  <2>2. warns \in BOOLEAN OBVIOUS
  <2>3. Errs(x, "uri") \/ Answers(x, SetToSeq(uses), "lsp", warns) BY <1>9 DEF RefsReads
  <2>4. part[x].says = "" BY <1>7, <1>9 DEF RefsReads, Asked, PartAt
  <2>5. cmd.op = "refs" /\ L \ {part[x].at} # {} /\ ~warns => SetToSeq(uses) # <<>>
    <3>1. uses # {} => SetToSeq(uses) # <<>>
      <4> HIDE DEF uses
      <4>. QED BY <2>1, SetToSeqIs
    <3>. QED BY <3>1 DEF Leftover
  <2> HIDE DEF uses, warns, L
  <2>6. CASE Errs(x, "uri") BY <2>6, <1>3, <1>6, ErrsMoves
  <2>7. CASE Answers(x, SetToSeq(uses), "lsp", warns)
    <3>1. part'[x].at = part[x].at /\ part'[x].lines = SetToSeq(uses) /\ part'[x].warned = warns
      BY <2>1, <2>2, <2>4, <2>7, <1>3, AnswersMoves
    <3>. QED BY <3>1, <2>5
  <2>. QED BY <2>3, <2>6, <2>7
<1>10. CASE RefsGreps
  <2>1. SetToSeq(GrepFind(W)) \in Seq(ListLines) BY GrepIs, LinesTyped
  <2>2. L # {} => GrepFind(W) # {} BY DEF Printed
  <2>3. GrepFind(W) # {} => SetToSeq(GrepFind(W)) # <<>> BY GrepIs, SetToSeqIs
  <2>4. \/ cmd.op = "refs" => GrepFind(W) = {}
        \/ Answers(x, SetToSeq(GrepFind(W)), "grep", FALSE)
    BY <1>10 DEF RefsGreps
  <2>5. part[x].says = "" BY <1>7, <1>10 DEF RefsGreps, PartAt
  <2> HIDE DEF L
  <2>6. CASE Answers(x, SetToSeq(GrepFind(W)), "grep", FALSE)
    <3>1. part'[x].lines = SetToSeq(GrepFind(W)) BY <2>1, <2>5, <2>6, <1>3, AnswersMoves
    <3>. QED BY <3>1, <2>2, <2>3
  <2>. QED BY <2>2, <2>4, <2>6
<1>11. CASE CallFails(x)
  <2>1. part'[x].pc = "text" BY <1>3, <1>11, FailsMoves
  <2>. QED BY <2>1
<1>12. CASE Searches /\ ~(RefsLooksUp \/ RefsReads \/ RefsGreps \/ CallFails(x))
  <2>1. part'[x] = part[x] BY <1>12, OthersMove
  <2>. QED BY <1>4, <2>1
<1>13. CASE ~Searches
  <2>1. part' = part \/ Fresh(x) BY <1>3, <1>13, OtherMoves
  <2>2. Fresh(x) => ~Lost(part'[x]) BY DEF Fresh
  <2>. QED BY <1>4, <2>1, <2>2
<1>. QED BY <1>8, <1>9, <1>10, <1>11, <1>12, <1>13

(* A refs command that ends lists something or warns whenever the text has *)
(* the symbol outside its declaration and imports, in every workspace and  *)
(* whatever fails (findWithLSP, zeroRefsCrossCheckNote).                   *)
THEOREM NothingLost == Spec => []NothingIsLost
<1> DEFINE I == TypeInv /\ NothingIsLost
<1>1. Init => I
  <2>1. "refs" \in Parts /\ Idle.pc = "idle" BY DEF Parts, Idle
  <2>2. Init => NothingIsLost BY <2>1 DEF Init, NothingIsLost
  <2>. QED BY <2>2, TypeStarts
<1>2. I /\ [Next]_vars => I' BY TypeKept, NothingLostKept
<1>3. I => NothingIsLost OBVIOUS
<1>. QED BY <1>1, <1>2, <1>3, PTL DEF Spec

-----------------------------------------------------------------------------
(* The callers are a tree.                                                 *)

LEMMA TreeMeans == CallersAreATree <=> IsTree(Listed)
BY DEF CallersAreATree, IsTree, Listed

(* The definitions speak of the workspace and the command, which stay.     *)
LEMMA GivenStays ==
  ASSUME world' = world, cmd' = cmd
  PROVE  /\ Depth' = Depth /\ Root' = Root /\ W' = W
         /\ Tree' <=> TreeOn(Listed', Todo', part'["callers"].pc, part'["callers"].source, walk'.asks, walk'.seen)
         /\ Closed' <=> ClosedOn(Listed', Todo', part'["callers"].pc, part'["callers"].source)
<1>1. W' = W /\ Root' = Root /\ Depth' = Depth BY DEF W, Root, Depth
<1>2. Tree' <=> TreeOn(Listed', Todo', part'["callers"].pc, part'["callers"].source, walk'.asks, walk'.seen)
  BY DEF Tree, TreeOn, IsTree, Hangs, HangsAt, Apart, Seen, Levels, RootShown, AsksNext, NodesOf, Calling, Incoming, Depth, Root, W,
         Listed, Todo
<1>3. Closed' <=> ClosedOn(Listed', Todo', part'["callers"].pc, part'["callers"].source)
  BY DEF Closed, ClosedOn, Seen, Tops, RootShown, Levels, NodesOf, Calling, Incoming, Depth, Root, W, Listed, Todo
<1>. QED BY <1>1, <1>2, <1>3

LEMMA EmptyTree ==
  ASSUME NEW step, step \notin {"incoming", "listing"}, NEW source, NEW asks, NEW seen
  PROVE  TreeOn(<<>>, <<>>, step, source, asks, seen)
BY DEF TreeOn, IsTree, Hangs, Apart, AsksNext

LEMMA LevelsAre ==
  ASSUME NEW todo
  PROVE  \A a : a \in Levels(todo) <=> \E d \in DOMAIN todo : a \in todo[d]
BY Zenon DEF Levels, ToSet

(* What all that has been seen leaves of an answer is a level.             *)
LEMMA AskedTree ==
  ASSUME IsWorld(W), Depth \in Nat \ {0}, NEW A, NEW list \in Seq(A), NEW L, NEW todo \in Seq(L), NEW source, NEW asks,
         NEW seen, NEW level \in L, level = Calling(asks) \ seen, NEW after,
         TreeOn(list, todo, "incoming", source, asks, seen)
  PROVE  TreeOn(list, Append(todo, level), "listing", source, after, seen \cup level)
<1> DEFINE new == Append(todo, level)
           n == Len(todo)
<1>1. n \in Nat /\ new \in Seq(L) /\ Len(new) = n + 1 /\ DOMAIN new = 1 .. n + 1 /\ DOMAIN todo = 1 .. n
      /\ new[n + 1] = level /\ \A d \in 1 .. n : new[d] = todo[d]
  OBVIOUS
<1>2. DOMAIN list = 1 .. Len(list) /\ Len(list) \in Nat OBVIOUS
<1>3. /\ IsTree(list) /\ Hangs(list, todo) /\ Apart(list, todo) /\ seen = Seen(list, todo)
      /\ n < Depth
      /\ IF todo = <<>> THEN list = <<>> /\ asks = Root
         ELSE list # <<>> /\ list[Len(list)] = [node |-> asks, depth |-> n]
  BY DEF TreeOn, AsksNext
<1>4. todo = <<>> <=> n = 0 BY <1>1
<1> HIDE DEF new, n
<1>5. Hangs(list, new)
  <2>1. ASSUME NEW d \in 1 .. n PROVE HangsAt(list, new[d], d) BY <2>1, <1>1, <1>3 DEF Hangs
  <2>2. HangsAt(list, level, n + 1)
    <3>1. CASE n = 0 BY <3>1, <1>3, <1>4 DEF HangsAt
    <3>2. CASE n # 0
      <4>1. Len(list) \in DOMAIN list /\ list[Len(list)].depth = n /\ list[Len(list)].node = asks
        BY <3>2, <1>2, <1>3, <1>4
      <4>2. level \subseteq Calling(asks) OBVIOUS
      <4>3. Len(list) + 1 .. Len(list) = {} BY <1>2
      <4>. QED BY <3>2, <4>1, <4>2, <4>3, <1>1 DEF HangsAt
    <3>. QED BY <3>1, <3>2
  <2>3. ASSUME NEW d \in 1 .. n + 1 PROVE d \in 1 .. n \/ d = n + 1 BY <1>1
  <2>. QED BY <2>1, <2>2, <2>3, <1>1 DEF Hangs
<1>6. Levels(new) = level \cup Levels(todo)
  <2>1. \A d \in 1 .. n + 1 : d \in 1 .. n \/ d = n + 1 BY <1>1
  <2>2. \A d \in 1 .. n : d \in 1 .. n + 1 BY <1>1
  <2>3. n + 1 \in 1 .. n + 1 BY <1>1
  <2>4. \A a : a \in Levels(new) <=> a \in level \/ a \in Levels(todo) BY <2>1, <2>2, <2>3, <1>1, LevelsAre
  <2>. QED BY <2>4
<1>7. level \cap NodesOf(list) = {} /\ \A d \in 1 .. n : level \cap todo[d] = {}
  <2>1. NodesOf(list) \subseteq seen BY <1>3 DEF Seen
  <2>2. \A d \in 1 .. n : todo[d] \subseteq Levels(todo) BY <1>1, LevelsAre
  <2>3. Levels(todo) \subseteq seen BY <1>3 DEF Seen
  <2>. QED BY <2>1, <2>2, <2>3
<1>8. Root \notin level
  <2>1. \A a \in level : Shown(W, a.file) BY IncomingIs
  <2>2. RootShown \subseteq seen BY <1>3 DEF Seen
  <2>3. Shown(W, Root.file) => Root \in RootShown BY Zenon DEF RootShown
  <2>. QED BY <2>1, <2>2, <2>3
<1>9. Apart(list, new) BY <1>1, <1>3, <1>7, <1>8 DEF Apart
<1>10. seen \cup level = Seen(list, new) BY <1>3, <1>6 DEF Seen
<1>11. AsksNext(list, new, "listing", source, after)
  <2>1. n + 1 <= Depth BY <1>1, <1>3
  <2>. QED BY <2>1, <1>1 DEF AsksNext
<1>. QED BY <1>3, <1>5, <1>9, <1>10, <1>11 DEF TreeOn, new

(* The list with one more.                                                 *)
LEMMA MoreListed ==
  ASSUME NEW A, NEW list \in Seq(A), NEW e \in A
  PROVE  LET more == Append(list, e) IN
         /\ Len(list) \in Nat /\ DOMAIN list = 1 .. Len(list) /\ Len(more) = Len(list) + 1
         /\ DOMAIN more = 1 .. Len(list) + 1 /\ more # <<>>
         /\ more[Len(list) + 1] = e /\ \A i \in 1 .. Len(list) : more[i] = list[i]
         /\ NodesOf(more) = NodesOf(list) \cup {e.node}
<1> DEFINE more == Append(list, e)
<1>1. /\ Len(list) \in Nat /\ DOMAIN list = 1 .. Len(list) /\ Len(more) = Len(list) + 1
      /\ DOMAIN more = 1 .. Len(list) + 1 /\ more # <<>>
      /\ more[Len(list) + 1] = e /\ \A i \in 1 .. Len(list) : more[i] = list[i]
  OBVIOUS
<1> HIDE DEF more
<1>2. NodesOf(more) = NodesOf(list) \cup {e.node} BY <1>1 DEF NodesOf
<1>. QED BY <1>1, <1>2 DEF more

(* A level gives its node to the list.                                     *)
LEMMA ListedTree ==
  ASSUME Depth \in Nat \ {0}, NEW A, NEW list \in Seq(A), NEW L, NEW todo \in Seq(L), todo # <<>>, NEW new \in Seq(L),
         NEW source, NEW asks, NEW seen, NEW node \in todo[Len(todo)], NEW e \in A, e = [node |-> node, depth |-> Len(todo)],
         Len(new) = Len(todo), new[Len(todo)] = todo[Len(todo)] \ {node},
         \A d \in 1 .. Len(todo) - 1 : new[d] = todo[d],
         NEW step, step = (IF Len(todo) < Depth THEN "incoming" ELSE "listing"),
         NEW after, Len(todo) < Depth => after = node,
         TreeOn(list, todo, "listing", source, asks, seen)
  PROVE  TreeOn(Append(list, e), new, step, source, after, seen)
<1> DEFINE more == Append(list, e)
           n == Len(todo)
           m == Len(list)
<1>1. n \in Nat \ {0} /\ DOMAIN todo = 1 .. n /\ DOMAIN new = 1 .. n OBVIOUS
<1>2. /\ m \in Nat /\ DOMAIN list = 1 .. m /\ Len(more) = m + 1 /\ DOMAIN more = 1 .. m + 1 /\ more # <<>>
      /\ more[m + 1] = e /\ (\A i \in 1 .. m : more[i] = list[i])
      /\ NodesOf(more) = NodesOf(list) \cup {e.node}
  BY MoreListed
<1>3. /\ IsTree(list) /\ Hangs(list, todo) /\ Apart(list, todo) /\ seen = Seen(list, todo)
      /\ n <= Depth
  BY DEF TreeOn, AsksNext
<1>4. e.node = node /\ e.depth = n OBVIOUS
<1>5. /\ Len(new) = n /\ new[n] = todo[n] \ {node} /\ node \in todo[n]
      /\ \A d \in 1 .. n - 1 : new[d] = todo[d]
  OBVIOUS
<1> HIDE DEF more, n, m
<1>6. node # Root /\ node \notin NodesOf(list) /\ \A d \in 1 .. n - 1 : node \notin todo[d]
  <2>1. n \in DOMAIN todo /\ \A d \in 1 .. n - 1 : d \in DOMAIN todo /\ d # n BY <1>1
  <2>2. /\ todo[n] \cap NodesOf(list) = {} /\ Root \notin todo[n]
        /\ \A d \in 1 .. n - 1 : todo[d] \cap todo[n] = {}
    BY <2>1, <1>3 DEF Apart
  <2>. QED BY <2>2, <1>5
<1>7. IsTree(more)
  <2> SUFFICES ASSUME NEW i \in 1 .. m + 1
               PROVE  /\ more[i].depth \in 1 .. Depth /\ more[i].node # Root
                      /\ \A j \in 1 .. i - 1 : more[j].node # more[i].node
                      /\ IF more[i].depth = 1 THEN more[i].node \in Calling(Root)
                         ELSE \E j \in 1 .. i - 1 :
                                /\ more[j].depth = more[i].depth - 1 /\ more[i].node \in Calling(more[j].node)
                                /\ \A k \in j + 1 .. i - 1 : more[k].depth >= more[i].depth
    BY <1>2 DEF IsTree
  <2>1. CASE i \in 1 .. m
    <3>1. \A j \in 1 .. i : more[j] = list[j] BY <1>2, <2>1
    <3>2. /\ list[i].depth \in 1 .. Depth /\ list[i].node # Root
          /\ \A j \in 1 .. i - 1 : list[j].node # list[i].node
          /\ IF list[i].depth = 1 THEN list[i].node \in Calling(Root)
             ELSE \E j \in 1 .. i - 1 :
                    /\ list[j].depth = list[i].depth - 1 /\ list[i].node \in Calling(list[j].node)
                    /\ \A k \in j + 1 .. i - 1 : list[k].depth >= list[i].depth
      BY <1>2, <1>3, <2>1 DEF IsTree
    <3>3. i \in 1 .. i /\ (\A j \in 1 .. i - 1 : j \in 1 .. i /\ \A k \in j + 1 .. i - 1 : k \in 1 .. i)
      BY <1>2, <2>1
    <3>. QED BY <3>1, <3>2, <3>3
  <2>2. CASE i = m + 1
    <3>1. more[i] = e /\ \A j \in 1 .. i - 1 : more[j] = list[j] /\ j \in DOMAIN list BY <1>2, <2>2
    <3>2. more[i].depth \in 1 .. Depth /\ more[i].node # Root BY <3>1, <1>1, <1>3, <1>4, <1>6
    <3>3. \A j \in 1 .. i - 1 : more[j].node # node BY <3>1, <1>6 DEF NodesOf
    <3>4. HangsAt(list, todo[n], n) BY <1>1, <1>3 DEF Hangs
    <3>5. CASE n = 1 BY <3>1, <3>2, <3>3, <3>4, <3>5, <1>4, <1>5 DEF HangsAt
    <3>6. CASE n # 1
      <4>1. PICK j \in DOMAIN list :
              /\ list[j].depth = n - 1 /\ todo[n] \subseteq Calling(list[j].node)
              /\ \A k \in j + 1 .. m : list[k].depth >= n
        BY <3>4, <3>6 DEF HangsAt, m
      <4>2. j \in 1 .. i - 1 /\ more[j] = list[j] /\ \A k \in j + 1 .. i - 1 : k \in j + 1 .. m /\ more[k] = list[k]
        BY <1>2, <2>2, <3>1
      <4>3. /\ more[j].depth = n - 1 /\ node \in Calling(more[j].node)
            /\ \A k \in j + 1 .. i - 1 : more[k].depth >= n
        BY <4>1, <4>2, <1>5
      <4>. QED BY <3>1, <3>2, <3>3, <3>6, <4>2, <4>3, <1>4
    <3>. QED BY <3>5, <3>6
  <2>. QED BY <2>1, <2>2, <1>2
<1>8. Hangs(more, new)
  <2> SUFFICES ASSUME NEW d \in 1 .. n PROVE HangsAt(more, new[d], d)
    BY <1>1 DEF Hangs
  <2>1. HangsAt(list, todo[d], d) BY <1>1, <1>3 DEF Hangs
  <2>2. new[d] \subseteq todo[d]
    <3>1. d = n \/ d \in 1 .. n - 1 BY <1>1
    <3>. QED BY <3>1, <1>5
  <2>3. CASE d = 1 BY <2>1, <2>2, <2>3 DEF HangsAt
  <2>4. CASE d # 1
    <3>1. PICK j \in DOMAIN list :
            /\ list[j].depth = d - 1 /\ todo[d] \subseteq Calling(list[j].node)
            /\ \A k \in j + 1 .. m : list[k].depth >= d
      BY <2>1, <2>4 DEF HangsAt, m
    <3>2. j \in DOMAIN more /\ more[j] = list[j] BY <1>2
    <3>3. ASSUME NEW k \in j + 1 .. m + 1 PROVE more[k].depth >= d
      <4>1. CASE k = m + 1 BY <4>1, <1>1, <1>2, <1>4
      <4>2. CASE k # m + 1
        <5>1. k \in j + 1 .. m /\ more[k] = list[k] BY <4>2, <1>2
        <5>. QED BY <5>1, <3>1
      <4>. QED BY <4>1, <4>2
    <3>4. Len(more) = m + 1 BY <1>2
    <3>. QED BY <2>2, <2>4, <3>1, <3>2, <3>3, <3>4 DEF HangsAt
  <2>. QED BY <2>3, <2>4
<1>9. Apart(more, new)
  <2>1. \A d \in 1 .. n : new[d] \subseteq todo[d] /\ node \notin new[d]
    <3>1. \A d \in 1 .. n : d = n \/ d \in 1 .. n - 1 BY <1>1
    <3>. QED BY <3>1, <1>5, <1>6
  <2>. QED BY <2>1, <1>1, <1>2, <1>3, <1>4 DEF Apart
<1>10. Seen(more, new) = Seen(list, todo)
  <2>1. \A a : a \in Levels(todo) <=> a \in Levels(new) \/ a = node
    <3>1. ASSUME NEW d \in 1 .. n PROVE todo[d] \subseteq new[d] \cup {node} /\ new[d] \subseteq todo[d]
      <4>1. d = n \/ d \in 1 .. n - 1 BY <1>1
      <4>. QED BY <4>1, <1>5
    <3>2. n \in 1 .. n BY <1>1
    <3>. QED BY <3>1, <3>2, <1>1, <1>5, LevelsAre
  <2>2. NodesOf(more) = NodesOf(list) \cup {node} BY <1>2, <1>4
  <2>3. \A a : a \in Seen(more, new) <=> a \in NodesOf(more) \/ a \in Levels(new) \/ a \in RootShown BY DEF Seen
  <2>4. \A a : a \in Seen(list, todo) <=> a \in NodesOf(list) \/ a \in Levels(todo) \/ a \in RootShown BY DEF Seen
  <2>5. \A a : a \in Seen(more, new) <=> a \in Seen(list, todo) BY <2>1, <2>2, <2>3, <2>4
  <2>. QED BY <2>5
<1>11. AsksNext(more, new, step, source, after)
  <2>1. new # <<>> /\ Len(new) = n BY <1>1, <1>5
  <2>2. more # <<>> /\ more[Len(more)] = e BY <1>2
  <2>3. CASE n < Depth
    <3>1. step = "incoming" /\ after = node BY <2>3 DEF n
    <3>2. e = [node |-> after, depth |-> Len(new)] BY <3>1, <2>1 DEF n
    <3>. QED BY <2>1, <2>2, <2>3, <3>1, <3>2 DEF AsksNext
  <2>4. CASE ~(n < Depth)
    <3>1. step = "listing" BY <2>4 DEF n
    <3>. QED BY <2>1, <3>1, <1>3 DEF AsksNext
  <2>. QED BY <2>3, <2>4
<1>. QED BY <1>3, <1>7, <1>8, <1>9, <1>10, <1>11 DEF TreeOn, more

(* A level that has been listed can be left.                               *)
LEMMA LeftTree ==
  ASSUME Depth \in Nat \ {0}, NEW A, NEW list \in Seq(A), NEW L, NEW todo \in Seq(L), todo # <<>>, NEW new \in Seq(L),
         NEW source, NEW asks, NEW seen, todo[Len(todo)] = {}, Len(new) = Len(todo) - 1,
         \A d \in 1 .. Len(todo) - 1 : new[d] = todo[d], NEW after,
         TreeOn(list, todo, "listing", source, asks, seen)
  PROVE  /\ TreeOn(list, new, "listing", source, after, seen)
         /\ new = <<>> => TreeOn(list, <<>>, "ended", "lsp", after, seen)
<1> DEFINE n == Len(todo)
<1>1. n \in Nat \ {0} /\ DOMAIN todo = 1 .. n /\ DOMAIN new = 1 .. n - 1 OBVIOUS
<1>2. /\ IsTree(list) /\ Hangs(list, todo) /\ Apart(list, todo) /\ seen = Seen(list, todo) /\ n <= Depth
  BY DEF TreeOn, AsksNext
<1>3. todo[n] = {} /\ Len(new) = n - 1 /\ \A d \in 1 .. n - 1 : new[d] = todo[d] OBVIOUS
<1> HIDE DEF n
<1>4. \A d \in 1 .. n - 1 : d \in 1 .. n BY <1>1
<1>5. Hangs(list, new) BY <1>1, <1>2, <1>3, <1>4 DEF Hangs
<1>6. Apart(list, new) BY <1>1, <1>2, <1>3, <1>4 DEF Apart
<1>7. Levels(new) = Levels(todo)
  <2>1. \A d \in 1 .. n : d = n \/ d \in 1 .. n - 1 BY <1>1
  <2>2. \A a : a \in Levels(new) <=> a \in Levels(todo) BY <2>1, <1>1, <1>3, <1>4, LevelsAre
  <2>. QED BY <2>2
<1>8. seen = Seen(list, new) BY <1>2, <1>7 DEF Seen
<1>9. AsksNext(list, new, "listing", source, after) BY <1>1, <1>2, <1>3 DEF AsksNext
<1>10. AsksNext(list, <<>>, "ended", "lsp", after) BY DEF AsksNext
<1>. QED BY <1>2, <1>5, <1>6, <1>8, <1>9, <1>10 DEF TreeOn

(* What a step does to the walk: nothing, it ends or starts it, an answer  *)
(* comes, a caller is listed, or a level is left.                          *)
Same == part'["callers"] = part["callers"] /\ walk' = walk
NoneListed ==
  /\ Listed' = <<>> /\ Todo' = <<>> /\ part'["callers"].pc \notin {"incoming", "listing"}
  /\ part'["callers"].pc = "ended" /\ part'["callers"].source = "lsp" => W.items = <<>>
WalkStarts ==
  /\ Listed' = <<>> /\ Todo' = <<>> /\ part'["callers"].pc = "incoming"
  /\ walk'.asks = Root /\ walk'.seen = RootShown
AnswerComes ==
  LET level == Calling(walk.asks) \ walk.seen IN
  /\ part["callers"].pc = "incoming" /\ part'["callers"].pc = "listing" /\ Listed' = Listed
  /\ level \in SUBSET Location /\ Todo' = Append(Todo, level) /\ walk'.seen = walk.seen \cup level

LEMMA CallersWalk ==
  ASSUME TypeInv, Tree, CallersLooksUp \/ CallersPrepares \/ CallersAsks
  PROVE  NoneListed \/ WalkStarts \/ AnswerComes
<1> DEFINE x == "callers"
<1>1. x \in Parts BY DEF Parts
<1>2. part[x].pc \notin {"idle", "ended"} /\ part[x].says = ""
  <2>1. part[x].pc \in {"symbols", "prepareCalls", "incoming"}
    BY DEF CallersLooksUp, CallersPrepares, CallersAsks, Asked, PartAt
  <2>. QED BY <2>1, <1>1, BusyMeans
<1>3. {"prepareCalls", "incoming", "listing", "ended"} \subseteq PartPCs
      /\ {"none", "uri", "ambiguous", "missing"} \subseteq Says
  BY DEF PartPCs, Says, Calls
<1>4. part'[x].pc \notin {"incoming", "listing"} => Todo' = <<>>
  BY CallersKeepType DEF TypeInv, Orderly, NoWalk, Todo
<1>5. part[x].pc \in {"symbols", "prepareCalls"} => Listed = <<>> BY DEF Tree, TreeOn, AsksNext
<1>6. CASE CallersLooksUp
  <2>1. LookedUp(x).at \in Location /\ LookedUp(x).says \in {"uri", "missing", "ambiguous", "one"}
    BY <1>1, TypeMeans, LookedUpIs
  <2>2. \/ Errs(x, "none")
        \/ Errs(x, LookedUp(x).says) /\ LookedUp(x).says # "one"
        \/ Found(x, LookedUp(x).at, "prepareCalls")
    BY <1>6, LookedUpInSearches DEF CallersLooksUp
  <2>3. part[x].pc = "symbols" BY <1>6 DEF CallersLooksUp, Asked, PartAt
  <2>4. \/ part'[x].lines = <<>> /\ part'[x].pc = "ended" /\ part'[x].source = ""
        \/ part'[x].lines = part[x].lines /\ part'[x].pc = "prepareCalls"
    BY <2>1, <2>2, <1>1, <1>2, <1>3, ErrsMoves, FoundMoves
  <2>. QED BY <2>3, <2>4, <1>4, <1>5 DEF NoneListed, Listed
<1>7. CASE CallersPrepares
  <2>1. part[x].pc = "prepareCalls" BY <1>7 DEF CallersPrepares, Asked, PartAt
  <2> DEFINE seen == IF Shown(W, Root.file) THEN {Root} ELSE {}
  <2>2. \/ W.items = <<>> /\ Answers(x, <<>>, "lsp", FALSE)
        \/ Errs(x, "uri")
        \/ Step(x, "incoming") /\ walk' = [[NoWalk EXCEPT !.asks = Root] EXCEPT !.seen = seen]
    BY <1>7 DEF CallersPrepares, Root
  <2>3. CASE W.items = <<>> /\ Answers(x, <<>>, "lsp", FALSE)
    <3>1. <<>> \in Seq(ListLines) OBVIOUS
    <3>2. part'[x].lines = <<>> /\ part'[x].pc = "ended" BY <2>3, <3>1, <1>1, <1>2, <1>3, AnswersMoves
    <3>. QED BY <3>2, <2>3, <1>4 DEF NoneListed, Listed
  <2>4. CASE Errs(x, "uri")
    <3>1. part'[x].lines = <<>> /\ part'[x].pc = "ended" /\ part'[x].source = ""
      BY <2>4, <1>1, <1>2, <1>3, ErrsMoves
    <3>. QED BY <3>1, <1>4 DEF NoneListed, Listed
  <2>5. CASE Step(x, "incoming") /\ walk' = [[NoWalk EXCEPT !.asks = Root] EXCEPT !.seen = seen]
    <3>1. part'[x].lines = part[x].lines /\ part'[x].pc = "incoming" BY <2>5, <1>1, <1>2, <1>3, StepMoves
    <3>2. seen = RootShown
      <4>1. CASE Shown(W, Root.file) BY <4>1, Zenon DEF RootShown
      <4>2. CASE ~Shown(W, Root.file) BY <4>2, Zenon DEF RootShown
      <4>. QED BY <4>1, <4>2
    <3> HIDE DEF seen
    <3>3. walk'.todo = <<>> /\ walk'.asks = Root /\ walk'.seen = seen BY <2>5 DEF NoWalk
    <3>. QED BY <3>1, <3>2, <3>3, <2>1, <1>5 DEF WalkStarts, Listed, Todo
  <2>. QED BY <2>2, <2>3, <2>4, <2>5
<1>8. CASE CallersAsks
  <2> DEFINE level == Calling(walk.asks) \ walk.seen
             next == [asks |-> Nowhere, todo |-> Append(walk.todo, level), seen |-> walk.seen \cup level]
  <2>1. \/ Errs(x, "uri")
        \/ Step(x, "listing") /\ walk' = next
    BY <1>8 DEF CallersAsks, Calling
  <2>2. part[x].pc = "incoming" BY <1>8 DEF CallersAsks, Asked, PartAt
  <2>3. CASE Errs(x, "uri")
    <3>1. part'[x].lines = <<>> /\ part'[x].pc = "ended" /\ part'[x].source = ""
      BY <2>3, <1>1, <1>2, <1>3, ErrsMoves
    <3>. QED BY <3>1, <1>4 DEF NoneListed, Listed
  <2>4. CASE Step(x, "listing") /\ walk' = next
    <3>1. part'[x].lines = part[x].lines /\ part'[x].pc = "listing" BY <2>4, <1>1, <1>2, <1>3, StepMoves
    <3>2. level \in SUBSET Location BY LevelIs DEF Calling
    <3> HIDE DEF level
    <3>3. walk'.todo = Append(walk.todo, level) /\ walk'.seen = walk.seen \cup level BY <2>4
    <3>. QED BY <3>1, <3>2, <3>3, <2>2 DEF AnswerComes, Listed, Todo, level
  <2>. QED BY <2>1, <2>3, <2>4
<1>. QED BY <1>6, <1>7, <1>8

LEMMA WalkMoves ==
  ASSUME TypeInv, Tree, [Next]_vars
  PROVE  /\ world' = world /\ cmd' = cmd
         /\ Same \/ NoneListed \/ WalkStarts \/ AnswerComes \/ CallersLists \/ CallersReturns
<1> DEFINE x == "callers"
<1>1. world' = world /\ cmd' = cmd BY SearchMoves, OtherMoves DEF Rest, given
<1>2. x \in Parts BY DEF Parts
<1>3. part'[x].pc \notin {"incoming", "listing"} => Todo' = <<>>
  BY TypeKept DEF TypeInv, Orderly, NoWalk, Todo
<1>4. CASE CallersLooksUp \/ CallersPrepares \/ CallersAsks BY <1>4, <1>1, CallersWalk
<1>5. CASE RefsLooksUp \/ RefsReads \/ RefsGreps
  <2>1. Moves("refs") /\ walk' = walk
    BY <1>5, RefsKeepType DEF RefsLooksUp, RefsReads, RefsGreps, StillRest
  <2>. QED BY <2>1, <1>1, <1>2 DEF Moves, Only, Same
<1>6. CASE ImplementsLooksUp \/ ImplementsPrepares \/ ImplementsReads \/ ImplementsLocates
  <2>1. Moves("implements") /\ walk' = walk
    BY <1>6, ImplementsKeepType DEF ImplementsLooksUp, ImplementsPrepares, ImplementsReads, ImplementsLocates, StillRest
  <2>. QED BY <2>1, <1>1, <1>2 DEF Moves, Only, Same
<1>7. ASSUME NEW y \in Parts, CallFails(y) PROVE Same \/ NoneListed
  <2>1. CASE y = x
    <3>1. part'[x].pc = "ended" /\ part'[x].source = "" /\ part'[x].lines = <<>> BY <1>7, <2>1, FailsMoves
    <3>. QED BY <3>1, <1>3 DEF NoneListed, Listed
  <2>2. CASE y # x
    <3>1. Moves(y) /\ walk' = walk BY <1>7, <2>2, FailsMoves DEF CallFails
    <3>. QED BY <3>1, <2>2, <1>2 DEF Moves, Only, Same
  <2>. QED BY <2>1, <2>2
<1>8. CASE ~Searches
  <2>1. walk' = walk /\ (part' = part \/ Fresh(x)) BY <1>2, <1>8, OtherMoves
  <2>2. Fresh(x) => NoneListed BY <1>3 DEF Fresh, NoneListed, Listed
  <2>. QED BY <2>1, <2>2, <1>1 DEF Same
<1>. QED BY <1>1, <1>4, <1>5, <1>6, <1>7, <1>8 DEF Searches

LEMMA TreeKept ==
  ASSUME TypeInv, Tree, [Next]_vars
  PROVE  Tree'
<1> DEFINE p == part["callers"]
           q == part'["callers"]
<1>1. world' = world /\ cmd' = cmd BY WalkMoves
<1>2. SUFFICES TreeOn(Listed', Todo', q.pc, q.source, walk'.asks, walk'.seen) BY <1>1, GivenStays
<1>3. TreeOn(Listed, Todo, p.pc, p.source, walk.asks, walk.seen) BY DEF Tree
<1>4. /\ IsWorld(W) /\ Depth \in Nat \ {0} /\ Todo \in Seq(SUBSET Location) /\ Listed \in Seq(ListLines)
  BY TypeMeans, PartMeans DEF Todo, Listed, Parts
<1>5. CASE Same BY <1>3, <1>5 DEF Same, Listed, Todo
<1>6. CASE NoneListed
  <2> DEFINE step == q.pc  source == q.source  asks == walk'.asks  seen == walk'.seen
  <2>1. step \notin {"incoming", "listing"} /\ Listed' = <<>> /\ Todo' = <<>> BY <1>6 DEF NoneListed
  <2> HIDE DEF step, source, asks, seen
  <2>2. TreeOn(<<>>, <<>>, step, source, asks, seen) BY <2>1, EmptyTree
  <2>. QED BY <2>1, <2>2 DEF step, source, asks, seen
<1>7. CASE WalkStarts
  <2> DEFINE source == q.source
  <2>1. q.pc = "incoming" /\ Listed' = <<>> /\ Todo' = <<>> /\ walk'.asks = Root /\ walk'.seen = RootShown
    BY <1>7 DEF WalkStarts
  <2> HIDE DEF source
  <2>2. RootShown = Seen(<<>>, <<>>)
    <3>1. \A a : a \notin Levels(<<>>) BY LevelsAre
    <3>2. NodesOf(<<>>) = {} BY DEF NodesOf
    <3>3. \A a : a \in Seen(<<>>, <<>>) <=> a \in RootShown BY <3>1, <3>2 DEF Seen
    <3>. QED BY <3>3
  <2>3. IsTree(<<>>) /\ Hangs(<<>>, <<>>) /\ Apart(<<>>, <<>>) BY DEF IsTree, Hangs, Apart
  <2>4. AsksNext(<<>>, <<>>, "incoming", source, Root) BY <1>4 DEF AsksNext
  <2>5. TreeOn(<<>>, <<>>, "incoming", source, Root, RootShown) BY <2>2, <2>3, <2>4 DEF TreeOn
  <2>. QED BY <2>1, <2>5 DEF source
<1>8. CASE AnswerComes
  <2> DEFINE level == Calling(walk.asks) \ walk.seen
             asks == walk.asks  after == walk'.asks  seen == walk.seen  source == p.source
  <2>1. /\ p.pc = "incoming" /\ q.pc = "listing" /\ Listed' = Listed /\ level \in SUBSET Location
        /\ Todo' = Append(Todo, level) /\ walk'.seen = seen \cup level
    BY <1>8 DEF AnswerComes
  <2>2. level = Calling(asks) \ seen OBVIOUS
  <2>3. TreeOn(Listed, Todo, "incoming", source, asks, seen) BY <1>3, <2>1
  <2> HIDE DEF level, asks, after, seen, source
  <2>4. TreeOn(Listed, Append(Todo, level), "listing", source, after, seen \cup level)
    BY <1>4, <2>1, <2>2, <2>3, AskedTree
  <2>5. TreeOn(Listed, Append(Todo, level), "listing", q.source, after, seen \cup level)
    BY <2>4 DEF TreeOn, AsksNext
  <2>. QED BY <2>1, <2>5 DEF after
<1>9. CASE CallersLists
  <2> DEFINE n == Len(Todo)
             node == Least(Last(Todo))
             e == [node |-> node, depth |-> n]
             step == IF n < Depth THEN "incoming" ELSE "listing"
             new == Todo'  list == Listed
             asks == walk.asks  after == walk'.asks  seen == walk.seen  source == p.source
  <2>1. /\ Todo # <<>> /\ node \in Last(Todo) /\ node \in Location /\ p.pc = "listing"
        /\ Last(Todo) = Todo[n] /\ n \in Nat \ {0}
    BY <1>9, NextListed, LastLevel DEF Todo
  <2>2. /\ new \in Seq(SUBSET Location) /\ Len(new) = n /\ new[n] = Todo[n] \ {node}
        /\ \A d \in 1 .. n - 1 : new[d] = Todo[d]
        /\ walk'.seen = seen /\ (n < Depth => after = node)
    BY <1>9, LevelLeft DEF Descends
  <2>3. Listed' = Append(list, e) /\ q.pc = step /\ q.source = source BY <1>9, OneMore DEF Descends
  <2>4. e \in ListLines BY <2>1 DEF ListLines
  <2>5. TreeOn(list, Todo, "listing", source, asks, seen) BY <1>3, <2>1
  <2>6. TreeOn(Append(list, e), new, step, source, after, seen)
    <3> DEFINE A == ListLines  L == SUBSET Location  todo == Todo
    <3>1. list \in Seq(A) /\ todo \in Seq(L) /\ new \in Seq(L) /\ e \in A /\ todo # <<>>
      BY <1>4, <2>1, <2>2, <2>4
    <3>2. /\ node \in todo[Len(todo)] /\ e = [node |-> node, depth |-> Len(todo)] /\ Len(new) = Len(todo)
          /\ new[Len(todo)] = todo[Len(todo)] \ {node} /\ (\A d \in 1 .. Len(todo) - 1 : new[d] = todo[d])
          /\ step = (IF Len(todo) < Depth THEN "incoming" ELSE "listing") /\ (Len(todo) < Depth => after = node)
      BY <2>1, <2>2
    <3>3. TreeOn(list, todo, "listing", source, asks, seen) BY <2>5
    <3> HIDE DEF A, L, todo, list, new, e, node, asks, after, seen, source, step, n
    <3>. QED BY <1>4, <3>1, <3>2, <3>3, ListedTree
  <2>. QED BY <2>2, <2>3, <2>6
<1>10. CASE CallersReturns
  <2> DEFINE todo == Todo  list == Listed  new == Front(Todo)  A == ListLines  L == SUBSET Location
             asks == walk.asks  after == walk'.asks  seen == walk.seen  source == p.source
  <2>1. /\ p.pc = "listing" /\ todo # <<>> /\ Last(todo) = {} /\ Listed' = list
        /\ \/ Len(todo) = 1 /\ walk' = NoWalk /\ q.pc = "ended" /\ q.source = "lsp"
           \/ Todo' = new /\ walk'.seen = walk.seen /\ q.pc = "listing" /\ part' = part
    BY <1>10, Returned
  <2>2. /\ todo[Len(todo)] = {} /\ new \in Seq(L) /\ Len(new) = Len(todo) - 1 /\ Len(todo) \in Nat
        /\ \A d \in 1 .. Len(todo) - 1 : new[d] = todo[d]
    BY <2>1, LastLevel DEF Todo
  <2>3. list \in Seq(A) /\ todo \in Seq(L) BY <1>4
  <2>4. TreeOn(list, todo, "listing", source, asks, seen) BY <1>3, <2>1
  <2>5. NoWalk.todo = <<>> BY DEF NoWalk
  <2>6. CASE Len(todo) = 1 /\ walk' = NoWalk /\ q.pc = "ended" /\ q.source = "lsp"
    <3>1. Todo' = <<>> BY <2>5, <2>6 DEF Todo
    <3> HIDE DEF todo, list, new, A, L, asks, after, seen, source
    <3>2. Len(new) = 0 BY <2>2, <2>6
    <3>3. new = <<>> BY <2>2, <3>2
    <3>4. TreeOn(list, <<>>, "ended", "lsp", after, seen) BY <1>4, <2>1, <2>2, <2>3, <2>4, <3>3, LeftTree
    <3>5. TreeOn(list, <<>>, "ended", "lsp", after, walk'.seen) BY <3>4 DEF TreeOn
    <3>. QED BY <2>1, <2>6, <3>1, <3>5 DEF after, list
  <2>7. CASE Todo' = new /\ walk'.seen = walk.seen /\ q.pc = "listing" /\ part' = part
    <3>1. q.source = source BY <2>7
    <3>2. TreeOn(list, new, "listing", source, after, seen)
      <4> HIDE DEF todo, list, new, A, L, asks, after, seen, source
      <4>. QED BY <1>4, <2>1, <2>2, <2>3, <2>4, LeftTree
    <3>. QED BY <2>1, <2>7, <3>1, <3>2
  <2>. QED BY <2>1, <2>6, <2>7
<1>. QED BY <1>5, <1>6, <1>7, <1>8, <1>9, <1>10, WalkMoves

LEMMA TreeStarts ==
  ASSUME Init
  PROVE  Tree /\ Closed
<1>1. "callers" \in Parts /\ part = [x \in Parts |-> Idle] /\ walk = NoWalk BY DEF Init, Parts
<1>2. Listed = <<>> /\ Todo = <<>> /\ part["callers"].pc = "idle" BY <1>1 DEF Listed, Todo, Idle, NoWalk
<1>3. TreeOn(<<>>, <<>>, part["callers"].pc, part["callers"].source, walk.asks, walk.seen)
  BY <1>2 DEF TreeOn, IsTree, Hangs, Apart, AsksNext
<1>4. ClosedOn(<<>>, <<>>, part["callers"].pc, part["callers"].source) BY <1>2 DEF ClosedOn
<1>. QED BY <1>2, <1>3, <1>4 DEF Tree, Closed

(* The callers a search lists are a tree over its symbol, even while they  *)
(* are listed, in every workspace, to every depth and whatever fails       *)
(* (walkIncoming): what has been seen is what is listed, what is to be     *)
(* listed and the root, so a node is in only one of them.                  *)
THEOREM CallersTree == Spec => []CallersAreATree
<1> DEFINE I == TypeInv /\ Tree
<1>1. Init => I BY TypeStarts, TreeStarts
<1>2. I /\ [Next]_vars => I' BY TypeKept, TreeKept
<1>3. I => CallersAreATree BY TreeMeans DEF Tree, TreeOn
<1>. QED BY <1>1, <1>2, <1>3, PTL DEF Spec

-----------------------------------------------------------------------------
(* The callers are closed.                                                 *)

(* A server that has no item for the symbol knows no calls of it.          *)
LEMMA NoItemNoCalls ==
  ASSUME IsWorld(W), W.items = <<>>
  PROVE  Calling(Root) = {}
<1>1. Root.file = 0 BY DEF Root, PrepareCallHierarchy, Nowhere
<1>2. \A at \in DOMAIN W.calls : at.file # 0 BY Zenon DEF IsWorld
<1>3. Incoming(Root) = <<>> BY <1>1, <1>2, Zenon DEF Incoming
<1>4. ToSet(<<>>) = {} BY DEF ToSet
<1>5. IncomingNodes(W, <<>>) = {} BY <1>4 DEF IncomingNodes, ToReferenceLines
<1>. QED BY <1>3, <1>5 DEF Calling

(* The tree that has ended is closed.                                      *)
LEMMA ClosedMeans ==
  ASSUME Depth \in Nat \ {0}, Tree, Closed
  PROVE  CallersAreClosed
<1> DEFINE p == part["callers"]
<1>1. SUFFICES ASSUME p.pc = "ended", p.source = "lsp"
               PROVE  /\ Tops(Listed) = Calling(Root) \ {Root}
                      /\ \A i \in DOMAIN Listed :
                           Listed[i].depth < Depth => Calling(Listed[i].node) \subseteq NodesOf(Listed) \cup {Root}
  BY DEF CallersAreClosed, Tops, NodesOf, Listed
<1>2. Todo = <<>> /\ IsTree(Listed) BY <1>1 DEF Tree, TreeOn, AsksNext
<1>3. Calling(Root) \ {Root} \subseteq Tops(Listed) BY <1>1 DEF Closed, ClosedOn
<1>4. Tops(Listed) \subseteq Calling(Root) \ {Root} BY <1>2 DEF Tops, IsTree
<1>5. ASSUME NEW i \in DOMAIN Listed, Listed[i].depth < Depth
      PROVE  Calling(Listed[i].node) \subseteq NodesOf(Listed) \cup {Root}
  <2>1. Calling(Listed[i].node) \subseteq Seen(Listed, Todo) \cup {Root} BY <1>1, <1>5 DEF Closed, ClosedOn
  <2>2. \A a : a \notin Levels(Todo) BY <1>2, LevelsAre
  <2>3. \A a : a \in Seen(Listed, Todo) => a \in NodesOf(Listed) \/ a = Root BY <2>2 DEF Seen, RootShown
  <2>. QED BY <2>1, <2>3
<1>. QED BY <1>3, <1>4, <1>5

(* An answer is seen, as a level.                                          *)
LEMMA AskedClosed ==
  ASSUME NEW A, NEW list \in Seq(A), NEW L, NEW todo \in Seq(L), NEW source, NEW asks, NEW seen,
         NEW level \in L, level = Calling(asks) \ seen, NEW other,
         TreeOn(list, todo, "incoming", source, asks, seen), ClosedOn(list, todo, "incoming", source),
         Seen(list, Append(todo, level)) = seen \cup level
  PROVE  ClosedOn(list, Append(todo, level), "listing", other)
<1> DEFINE new == Append(todo, level)
<1>1. /\ new # <<>> /\ Len(todo) \in Nat
      /\ IF todo = <<>> THEN new[1] = level ELSE new[1] = todo[1]
  OBVIOUS
<1>2. /\ seen = Seen(list, todo)
      /\ IF todo = <<>> THEN list = <<>> /\ asks = Root
         ELSE list # <<>> /\ list[Len(list)] = [node |-> asks, depth |-> Len(todo)]
  BY DEF TreeOn, AsksNext
<1>3. Seen(list, new) = seen \cup level OBVIOUS
<1> HIDE DEF new
<1>4. ASSUME NEW i \in DOMAIN list, list[i].depth < Depth
      PROVE  Calling(list[i].node) \subseteq Seen(list, new) \cup {Root}
  <2>1. CASE i = Len(list)
    <3>1. todo # <<>> BY <1>2, <1>4
    <3>2. list[i].node = asks BY <3>1, <2>1, <1>2
    <3>. QED BY <3>2, <1>3
  <2>2. CASE i # Len(list)
    <3>1. Calling(list[i].node) \subseteq Seen(list, todo) \cup {Root} BY <2>2, <1>4 DEF ClosedOn
    <3>. QED BY <3>1, <1>2, <1>3
  <2>. QED BY <2>1, <2>2
<1>5. Calling(Root) \ {Root} \subseteq Tops(list) \cup new[1]
  <2>1. CASE todo = <<>>
    <3>1. \A a : a \notin NodesOf(list) BY <2>1, <1>2 DEF NodesOf
    <3>2. \A a : a \notin Levels(todo) BY <2>1, LevelsAre
    <3>3. \A a : a \in seen => a = Root BY <3>1, <3>2, <1>2 DEF Seen, RootShown
    <3>4. level = Calling(Root) \ seen /\ new[1] = level BY <2>1, <1>1, <1>2
    <3>. QED BY <3>3, <3>4
  <2>2. CASE todo # <<>>
    <3>1. Calling(Root) \ {Root} \subseteq Tops(list) \cup todo[1] BY <2>2 DEF ClosedOn
    <3>. QED BY <3>1, <2>2, <1>1
  <2>. QED BY <2>1, <2>2
<1>. QED BY <1>4, <1>5 DEF ClosedOn, new

(* One that is listed was to be listed.                                    *)
LEMMA ListedClosed ==
  ASSUME Depth \in Nat \ {0}, NEW A, NEW list \in Seq(A), NEW L, NEW todo \in Seq(L), todo # <<>>, NEW new \in Seq(L),
         NEW source, NEW other, NEW node, NEW e \in A, e = [node |-> node, depth |-> Len(todo)],
         Len(new) = Len(todo), new[Len(todo)] = todo[Len(todo)] \ {node},
         \A d \in 1 .. Len(todo) - 1 : new[d] = todo[d],
         NEW step, step = (IF Len(todo) < Depth THEN "incoming" ELSE "listing"),
         ClosedOn(list, todo, "listing", source),
         Seen(Append(list, e), new) = Seen(list, todo)
  PROVE  ClosedOn(Append(list, e), new, step, other)
<1> DEFINE more == Append(list, e)
           n == Len(todo)
           m == Len(list)
<1>1. n \in Nat \ {0} /\ new # <<>> OBVIOUS
<1>2. /\ m \in Nat /\ DOMAIN list = 1 .. m /\ Len(more) = m + 1 /\ DOMAIN more = 1 .. m + 1
      /\ more[m + 1] = e /\ (\A i \in 1 .. m : more[i] = list[i])
  BY MoreListed
<1>3. e.node = node /\ e.depth = n /\ Seen(more, new) = Seen(list, todo) OBVIOUS
<1>4. /\ new[n] = todo[n] \ {node} /\ \A d \in 1 .. n - 1 : new[d] = todo[d]
      /\ step = (IF n < Depth THEN "incoming" ELSE "listing")
  OBVIOUS
<1> HIDE DEF more, n, m
<1>5. ASSUME NEW i \in DOMAIN more, more[i].depth < Depth, ~(step = "incoming" /\ i = Len(more))
      PROVE  Calling(more[i].node) \subseteq Seen(more, new) \cup {Root}
  <2>1. i # m + 1 BY <1>1, <1>2, <1>3, <1>4, <1>5
  <2>2. i \in DOMAIN list /\ more[i] = list[i] BY <2>1, <1>2
  <2>3. list[i].depth < Depth BY <1>5, <2>2
  <2>4. Calling(list[i].node) \subseteq Seen(list, todo) \cup {Root} BY <2>2, <2>3 DEF ClosedOn
  <2>. QED BY <2>2, <2>4, <1>3
<1>6. Calling(Root) \ {Root} \subseteq Tops(more) \cup new[1]
  <2>1. Calling(Root) \ {Root} \subseteq Tops(list) \cup todo[1] BY DEF ClosedOn
  <2>2. Tops(list) \subseteq Tops(more)
    <3>1. \A i \in DOMAIN list : i \in DOMAIN more /\ more[i] = list[i] BY <1>2
    <3>. QED BY <3>1 DEF Tops
  <2>3. CASE n = 1
    <3>1. m + 1 \in DOMAIN more /\ more[m + 1] = e BY <1>2
    <3>3. e.depth = 1 /\ e.node = node BY <2>3, <1>3
    <3>2. node \in Tops(more) BY <3>1, <3>3 DEF Tops
    <3>. QED BY <2>1, <2>2, <2>3, <3>2, <1>4
  <2>4. CASE n # 1
    <3>1. new[1] = todo[1] BY <2>4, <1>1, <1>4
    <3>. QED BY <2>1, <2>2, <3>1
  <2>. QED BY <2>3, <2>4
<1>7. step # "ended" BY <1>4
<1>. QED BY <1>5, <1>6, <1>7 DEF ClosedOn, more

(* A level is left when nothing of it is still to be listed.               *)
LEMMA LeftClosed ==
  ASSUME NEW list, NEW L, NEW todo \in Seq(L), todo # <<>>, NEW new \in Seq(L), NEW source,
         todo[Len(todo)] = {}, Len(new) = Len(todo) - 1, \A d \in 1 .. Len(todo) - 1 : new[d] = todo[d],
         ClosedOn(list, todo, "listing", source)
  PROVE  /\ ClosedOn(list, new, "listing", source)
         /\ new = <<>> => ClosedOn(list, <<>>, "ended", "lsp")
<1> DEFINE n == Len(todo)
<1>1. n \in Nat \ {0} /\ DOMAIN todo = 1 .. n /\ DOMAIN new = 1 .. n - 1 OBVIOUS
<1>2. todo[n] = {} /\ Len(new) = n - 1 /\ \A d \in 1 .. n - 1 : new[d] = todo[d] OBVIOUS
<1> HIDE DEF n
<1>3. \A a : a \in Levels(new) <=> a \in Levels(todo)
  <2>1. \A d \in 1 .. n : d = n \/ d \in 1 .. n - 1 BY <1>1
  <2>2. \A d \in 1 .. n - 1 : d \in 1 .. n BY <1>1
  <2>. QED BY <2>1, <2>2, <1>1, <1>2, LevelsAre
<1>4. Levels(new) = Levels(todo) BY <1>3
<1>5. Seen(list, new) = Seen(list, todo) BY <1>4 DEF Seen
<1>6. ASSUME NEW i \in DOMAIN list, list[i].depth < Depth
      PROVE  Calling(list[i].node) \subseteq Seen(list, new) \cup {Root}
  <2>1. Calling(list[i].node) \subseteq Seen(list, todo) \cup {Root} BY <1>6 DEF ClosedOn
  <2>. QED BY <2>1, <1>5
<1>7. Calling(Root) \ {Root} \subseteq Tops(list) \cup todo[1] BY DEF ClosedOn
<1>8. new # <<>> => new[1] = todo[1]
  <2>1. ASSUME new # <<>> PROVE 1 \in 1 .. n - 1
    <3>1. Len(new) # 0 BY <2>1
    <3>. QED BY <3>1, <1>1, <1>2
  <2>. QED BY <2>1, <1>2
<1>9. new = <<>> => todo[1] = {}
  <2>1. ASSUME new = <<>> PROVE n = 1 BY <2>1, <1>1, <1>2
  <2>. QED BY <2>1, <1>2
<1>10. ClosedOn(list, new, "listing", source) BY <1>6, <1>7, <1>8 DEF ClosedOn
<1>11. ASSUME new = <<>> PROVE ClosedOn(list, <<>>, "ended", "lsp")
  <2>1. Calling(Root) \ {Root} \subseteq Tops(list) BY <1>7, <1>9, <1>11
  <2>. QED BY <2>1, <1>6, <1>11 DEF ClosedOn
<1>. QED BY <1>10, <1>11

LEMMA ClosedKept ==
  ASSUME TypeInv, Tree, Closed, [Next]_vars
  PROVE  Closed'
<1> DEFINE p == part["callers"]
           q == part'["callers"]
<1>1. world' = world /\ cmd' = cmd BY WalkMoves
<1>2. SUFFICES ClosedOn(Listed', Todo', q.pc, q.source) BY <1>1, GivenStays
<1>3. TreeOn(Listed, Todo, p.pc, p.source, walk.asks, walk.seen) /\ ClosedOn(Listed, Todo, p.pc, p.source)
  BY DEF Tree, Closed
<1>4. TreeOn(Listed', Todo', q.pc, q.source, walk'.asks, walk'.seen) BY <1>1, TreeKept, GivenStays
<1>5. /\ IsWorld(W) /\ Depth \in Nat \ {0} /\ Todo \in Seq(SUBSET Location) /\ Listed \in Seq(ListLines)
  BY TypeMeans, PartMeans DEF Todo, Listed, Parts
<1>6. CASE Same BY <1>3, <1>6 DEF Same, Listed, Todo
<1>7. CASE NoneListed
  <2> DEFINE step == q.pc  source == q.source
  <2>1. Listed' = <<>> /\ Todo' = <<>> /\ (step = "ended" /\ source = "lsp" => W.items = <<>>)
    BY <1>7 DEF NoneListed
  <2> HIDE DEF step, source
  <2>2. W.items = <<>> => Calling(Root) = {} BY <1>5, NoItemNoCalls
  <2>3. ClosedOn(<<>>, <<>>, step, source) BY <2>1, <2>2 DEF ClosedOn
  <2>. QED BY <2>1, <2>3 DEF step, source
<1>8. CASE WalkStarts
  <2> DEFINE source == q.source
  <2>1. q.pc = "incoming" /\ Listed' = <<>> /\ Todo' = <<>> BY <1>8 DEF WalkStarts
  <2> HIDE DEF source
  <2>2. ClosedOn(<<>>, <<>>, "incoming", source) BY DEF ClosedOn
  <2>. QED BY <2>1, <2>2 DEF source
<1>9. CASE AnswerComes
  <2> DEFINE level == Calling(walk.asks) \ walk.seen
             asks == walk.asks  seen == walk.seen  source == p.source  other == q.source
             list == Listed  todo == Todo  A == ListLines  L == SUBSET Location
  <2>1. /\ p.pc = "incoming" /\ q.pc = "listing" /\ Listed' = list /\ level \in L
        /\ Todo' = Append(todo, level) /\ walk'.seen = seen \cup level
    BY <1>9 DEF AnswerComes
  <2>2. level = Calling(asks) \ seen OBVIOUS
  <2>3. TreeOn(list, todo, "incoming", source, asks, seen) /\ ClosedOn(list, todo, "incoming", source)
    BY <1>3, <2>1
  <2>4. Seen(list, Append(todo, level)) = seen \cup level
    <3>1. walk'.seen = Seen(Listed', Todo') BY <1>4, <2>1 DEF TreeOn
    <3>. QED BY <3>1, <2>1
  <2>5. list \in Seq(A) /\ todo \in Seq(L) BY <1>5
  <2>6. ClosedOn(list, Append(todo, level), "listing", other)
    <3> HIDE DEF level, asks, seen, source, other, list, todo, A, L
    <3>. QED BY <2>1, <2>2, <2>3, <2>4, <2>5, AskedClosed
  <2>. QED BY <2>1, <2>6
<1>10. CASE CallersLists
  <2> DEFINE n == Len(Todo)
             node == Least(Last(Todo))
             e == [node |-> node, depth |-> n]
             step == IF n < Depth THEN "incoming" ELSE "listing"
             new == Todo'  list == Listed  todo == Todo  source == p.source  other == q.source
             A == ListLines  L == SUBSET Location
  <2>1. todo # <<>> /\ node \in Location /\ p.pc = "listing" /\ n \in Nat \ {0}
    BY <1>10, NextListed, LastLevel DEF Todo
  <2>2. /\ new \in Seq(L) /\ Len(new) = n /\ new[n] = todo[n] \ {node}
        /\ (\A d \in 1 .. n - 1 : new[d] = todo[d])
        /\ walk'.seen = walk.seen
    BY <1>10, LevelLeft
  <2>3. Listed' = Append(list, e) /\ q.pc = step BY <1>10, OneMore DEF Descends
  <2>4. e \in A BY <2>1 DEF ListLines
  <2>5. ClosedOn(list, todo, "listing", source) BY <1>3, <2>1
  <2>6. Seen(Append(list, e), new) = Seen(list, todo)
    <3>1. walk.seen = Seen(list, todo) BY <1>3, <2>1 DEF TreeOn
    <3>2. walk'.seen = Seen(Listed', new) BY <1>4, <2>3 DEF TreeOn
    <3>. QED BY <3>1, <3>2, <2>2, <2>3
  <2>7. list \in Seq(A) /\ todo \in Seq(L) BY <1>5
  <2>8. e = [node |-> node, depth |-> Len(todo)] /\ Len(todo) = n OBVIOUS
  <2>9. step = (IF Len(todo) < Depth THEN "incoming" ELSE "listing") OBVIOUS
  <2>10. ClosedOn(Append(list, e), new, step, other)
    <3> HIDE DEF A, L, todo, list, new, e, node, source, other, step, n
    <3>. QED BY <1>5, <2>1, <2>2, <2>4, <2>5, <2>6, <2>7, <2>8, <2>9, ListedClosed
  <2>. QED BY <2>3, <2>10
<1>11. CASE CallersReturns
  <2> DEFINE todo == Todo  list == Listed  new == Front(Todo)  A == ListLines  L == SUBSET Location
             source == p.source
  <2>1. /\ p.pc = "listing" /\ todo # <<>> /\ Last(todo) = {} /\ Listed' = list
        /\ \/ Len(todo) = 1 /\ walk' = NoWalk /\ q.pc = "ended" /\ q.source = "lsp"
           \/ Todo' = new /\ q.pc = "listing" /\ part' = part
    BY <1>11, Returned
  <2>2. /\ todo[Len(todo)] = {} /\ new \in Seq(L) /\ Len(new) = Len(todo) - 1 /\ Len(todo) \in Nat
        /\ \A d \in 1 .. Len(todo) - 1 : new[d] = todo[d]
    BY <2>1, LastLevel DEF Todo
  <2>3. todo \in Seq(L) BY <1>5
  <2>4. ClosedOn(list, todo, "listing", source) BY <1>3, <2>1
  <2>5. NoWalk.todo = <<>> BY DEF NoWalk
  <2>6. CASE Len(todo) = 1 /\ walk' = NoWalk /\ q.pc = "ended" /\ q.source = "lsp"
    <3>1. Todo' = <<>> BY <2>5, <2>6 DEF Todo
    <3> HIDE DEF todo, list, new, A, L, source
    <3>2. Len(new) = 0 BY <2>2, <2>6
    <3>3. new = <<>> BY <2>2, <3>2
    <3>4. ClosedOn(list, <<>>, "ended", "lsp") BY <2>1, <2>2, <2>3, <2>4, <3>3, LeftClosed
    <3>. QED BY <2>1, <2>6, <3>1, <3>4 DEF list
  <2>7. CASE Todo' = new /\ q.pc = "listing" /\ part' = part
    <3>1. q.source = source BY <2>7
    <3>2. ClosedOn(list, new, "listing", source)
      <4> HIDE DEF todo, list, new, A, L, source
      <4>. QED BY <2>1, <2>2, <2>3, <2>4, LeftClosed
    <3>. QED BY <2>1, <2>7, <3>1, <3>2
  <2>. QED BY <2>1, <2>6, <2>7
<1>. QED BY <1>6, <1>7, <1>8, <1>9, <1>10, <1>11, WalkMoves

(* A search for callers that ends well lists all that call its symbol at   *)
(* depth 1, and all that call one it lists above the last level, in every  *)
(* workspace and to every depth: what walkIncoming cuts, because it was    *)
(* seen or is an ancestor, is listed elsewhere.                            *)
THEOREM CallersClosed == Spec => []CallersAreClosed
<1> DEFINE I == TypeInv /\ Tree /\ Closed
<1>1. Init => I BY TypeStarts, TreeStarts
<1>2. I /\ [Next]_vars => I' BY TypeKept, TreeKept, ClosedKept
<1>3. I => CallersAreClosed BY TypeMeans, ClosedMeans
<1>. QED BY <1>1, <1>2, <1>3, PTL DEF Spec

-----------------------------------------------------------------------------
(* Ranking.                                                                *)

Spots(w) == [file : DOMAIN w.files, line : Nat]

(* Scores are numbers, whatever signs a workspace shows.                   *)
LEMMA ProximityIs ==
  ASSUME NEW w, IsWorld(w), NEW f \in DOMAIN w.files, NEW g \in DOMAIN w.files
  PROVE  PathProximityScore(w, f, g) \in Int /\ Len(w.files[g].path) \in Int
<1> DEFINE p == w.files[f].path
           q == w.files[g].path
           m == Min2(Len(p), Len(q))
           same == {k \in 1 .. m : SubSeq(p, 1, k) = SubSeq(q, 1, k)}
<1>1. Len(p) \in Nat /\ Len(q) \in Nat
  <2>1. w.files[f] \in FileRecord /\ w.files[g] \in FileRecord BY FilesAre
  <2> DEFINE P == Seq(STRING)
  <2>2. p \in P /\ q \in P BY <2>1 DEF FileRecord
  <2> HIDE DEF P, p, q
  <2>. QED BY <2>2 DEF P
<1>2. m \in Nat BY <1>1 DEF Min2
<1>3. Cardinality(same) \in Nat
  <2>1. same \in SUBSET (1 .. m) OBVIOUS
  <2> HIDE DEF same, m
  <2>. QED BY <1>2, <2>1, Intervals, FS_Subset, FS_CardinalityType
<1>4. PathProximityScore(w, f, g) = 2 * Cardinality(same) BY DEF PathProximityScore
<1> HIDE DEF same, m, p
<1>. QED BY <1>1, <1>3, <1>4

LEMMA ScoresAre ==
  ASSUME NEW w, IsWorld(w), NEW at, at.file \in DOMAIN w.files, NEW g \in DOMAIN w.files
  PROVE  /\ \A all : ScoreRef(w, at, all, g) \in Int
         /\ \A depth : ScoreCaller(w, at, depth, g) \in Int
<1> DEFINE near == PathProximityScore(w, at.file, g)
           scale == Len(w.files[g].path)
           call == IF IsCall(w, at) THEN 3 ELSE 0
           package == IF SamePackage(w, at.file, g) THEN 2 ELSE 0
           test == IF w.files[at.file].test THEN 1 ELSE 0
           many(all) == IF Cardinality({x \in all : x.file = at.file}) > 2 THEN 2 ELSE 0
           first(depth) == IF depth <= 1 THEN 1 ELSE 0
<1>1. near \in Int /\ scale \in Int BY ProximityIs
<1>2. call \in {0, 3} /\ package \in {0, 2} BY Zenon
<1>3. test \in {0, 1} BY Zenon
<1>4. \A all : many(all) \in {0, 2} BY Zenon
<1>5. \A depth : first(depth) \in {0, 1} BY Zenon
<1>6. ASSUME NEW all PROVE ScoreRef(w, at, all, g) = near + scale * (((call + package) + test) - many(all))
  BY DEF ScoreRef
<1>7. ASSUME NEW depth PROVE ScoreCaller(w, at, depth, g) = near + scale * ((3 + package) + first(depth))
  BY Zenon DEF ScoreCaller
<1> HIDE DEF near, scale, call, package, test, many, first
<1>8. \A a \in Int : scale * a \in Int BY <1>1
<1>9. ASSUME NEW all PROVE ScoreRef(w, at, all, g) \in Int
  <2>1. ((call + package) + test) - many(all) \in Int BY <1>2, <1>3, <1>4
  <2>. QED BY <2>1, <1>1, <1>6, <1>8
<1>10. ASSUME NEW depth PROVE ScoreCaller(w, at, depth, g) \in Int
  <2>1. (3 + package) + first(depth) \in Int BY <1>2, <1>5
  <2>. QED BY <2>1, <1>1, <1>7, <1>8
<1>. QED BY <1>9, <1>10

(* The best of a list are as many as there are, or as are allowed.         *)
LEMMA BestReferences ==
  ASSUME NEW w, IsWorld(w), NEW all \in SUBSET Spots(w), IsFiniteSet(all), NEW g \in DOMAIN w.files, NEW max \in Nat
  PROVE  /\ ScoreReferences(w, all, g, max) \subseteq all
         /\ Cardinality(ScoreReferences(w, all, g, max)) = Min2(Cardinality(all), max)
<1> DEFINE score == [at \in all |-> ScoreRef(w, at, all, g)]
           R == {p \in all \X all : score[p[1]] > score[p[2]] \/ (score[p[1]] = score[p[2]] /\ Before(p[1], p[2]))}
           best == {at \in all :
                      Cardinality({x \in all : score[x] > score[at] \/ (score[x] = score[at] /\ Before(x, at))}) < max}
<1>1. ScoreReferences(w, all, g, max) = best BY DEF ScoreReferences
<1>2. ASSUME NEW at \in all PROVE score[at] \in Int /\ at.file \in Nat /\ at.line \in Nat
  <2>1. at.file \in DOMAIN w.files /\ at.line \in Nat BY DEF Spots
  <2>2. score[at] = ScoreRef(w, at, all, g) OBVIOUS
  <2> HIDE DEF score
  <2>. QED BY <2>1, <2>2, ScoresAre, PlacesAreLocations
<1>3. ASSUME NEW x \in all, NEW y \in all, x.file = y.file, x.line = y.line PROVE x = y
  <2>1. x \in [file : DOMAIN w.files, line : Nat] /\ y \in [file : DOMAIN w.files, line : Nat] BY DEF Spots
  <2>. QED BY <2>1, <1>3
<1>4. ASSUME NEW x \in all, NEW y \in all
      PROVE  <<x, y>> \in R <=> score[x] > score[y] \/ (score[x] = score[y] /\ Before(x, y))
  <2> HIDE DEF score
  <2>. QED OBVIOUS
<1> HIDE DEF score, R
<1>5. \A x \in all : <<x, x>> \notin R BY <1>2, <1>4 DEF Before
<1>6. \A x, y, z \in all : <<x, y>> \in R /\ <<y, z>> \in R => <<x, z>> \in R BY <1>2, <1>4 DEF Before
<1>7. ASSUME NEW x \in all, NEW y \in all, x # y PROVE <<x, y>> \in R \/ <<y, x>> \in R
  <2>1. x.file # y.file \/ x.line # y.line BY <1>3, <1>7
  <2>2. Before(x, y) \/ Before(y, x) BY <1>2, <2>1 DEF Before
  <2>3. score[x] > score[y] \/ score[y] > score[x] \/ score[x] = score[y] BY <1>2
  <2>. QED BY <1>4, <2>2, <2>3
<1> DEFINE top == Firsts(all, max, R)
<1>8. best = top
  <2>1. ASSUME NEW at \in all
        PROVE  {x \in all : score[x] > score[at] \/ (score[x] = score[at] /\ Before(x, at))}
                 = {x \in all : <<x, at>> \in R}
    BY <1>4
  <2>. QED BY <2>1 DEF Firsts
<1>9. Cardinality(top) = IF Cardinality(all) < max THEN Cardinality(all) ELSE max
  <2>1. \A x, y \in all : x = y \/ <<x, y>> \in R \/ <<y, x>> \in R BY <1>7
  <2>. QED BY <1>5, <1>6, <2>1, FirstOfOrdered
<1>10. best \subseteq all OBVIOUS
<1> HIDE DEF best, top
<1>. QED BY <1>1, <1>8, <1>9, <1>10 DEF Min2

LEMMA BestCallers ==
  ASSUME NEW w, IsWorld(w), NEW A, NEW list \in Seq(A), NEW g \in DOMAIN w.files, NEW max \in Nat,
         \A i \in DOMAIN list : list[i].node.file \in DOMAIN w.files,
         \A i \in DOMAIN list : \A j \in 1 .. i - 1 : list[j].node # list[i].node
  PROVE  /\ ScoreCallers(w, list, g, max) \subseteq ToSet(list)
         /\ Cardinality(ScoreCallers(w, list, g, max)) = Min2(Cardinality(ToSet(list)), max)
<1> DEFINE n == Len(list)
           D == DOMAIN list
           score == [i \in D |-> ScoreCaller(w, list[i].node, list[i].depth, g)]
           R == {p \in D \X D : score[p[1]] > score[p[2]] \/ (score[p[1]] = score[p[2]] /\ p[1] < p[2])}
           best == {i \in D : Cardinality({j \in D : score[j] > score[i] \/ (score[j] = score[i] /\ j < i)}) < max}
           shown == {list[i] : i \in best}
<1>1. ScoreCallers(w, list, g, max) = shown BY DEF ScoreCallers
<1>2. n \in Nat /\ D = 1 .. n OBVIOUS
<1>3. ASSUME NEW i \in D PROVE score[i] \in Int
  <2>1. score[i] = ScoreCaller(w, list[i].node, list[i].depth, g) OBVIOUS
  <2> HIDE DEF score
  <2>. QED BY <2>1, ScoresAre
<1>4. ASSUME NEW i \in D, NEW j \in D
      PROVE  <<i, j>> \in R <=> score[i] > score[j] \/ (score[i] = score[j] /\ i < j)
  <2> HIDE DEF score
  <2>. QED OBVIOUS
<1>5. ASSUME NEW i \in D, NEW j \in D, list[i] = list[j] PROVE i = j
  <2>1. CASE i < j BY <2>1, <1>2, <1>5
  <2>2. CASE j < i BY <2>2, <1>2, <1>5
  <2>. QED BY <2>1, <2>2, <1>2
<1> HIDE DEF score, R, n
<1>6. \A i \in D : <<i, i>> \notin R BY <1>2, <1>3, <1>4
<1>7. \A i, j, k \in D : <<i, j>> \in R /\ <<j, k>> \in R => <<i, k>> \in R BY <1>2, <1>3, <1>4
<1>8. ASSUME NEW i \in D, NEW j \in D, i # j PROVE <<i, j>> \in R \/ <<j, i>> \in R
  <2>1. i < j \/ j < i BY <1>2, <1>8
  <2>2. score[i] > score[j] \/ score[j] > score[i] \/ score[i] = score[j] BY <1>3
  <2>. QED BY <1>4, <2>1, <2>2
<1> DEFINE top == Firsts(D, max, R)
<1>9. best = top
  <2>1. ASSUME NEW i \in D
        PROVE  {j \in D : score[j] > score[i] \/ (score[j] = score[i] /\ j < i)} = {j \in D : <<j, i>> \in R}
    BY <1>4
  <2>. QED BY <2>1 DEF Firsts
<1>10. IsFiniteSet(D) /\ Cardinality(D) = n BY <1>2, Intervals
<1>11. Cardinality(top) = IF n < max THEN n ELSE max
  <2>1. \A x, y \in D : x = y \/ <<x, y>> \in R \/ <<y, x>> \in R BY <1>8
  <2> HIDE DEF D
  <2>2. Cardinality(top) = IF Cardinality(D) < max THEN Cardinality(D) ELSE max
    BY <1>6, <1>7, <1>10, <2>1, FirstOfOrdered
  <2>. QED BY <1>10, <2>2
<1>12. best \subseteq D OBVIOUS
<1> HIDE DEF best, top, D
<1>13. ASSUME NEW S \in SUBSET D
       PROVE  Cardinality({list[i] : i \in S}) = Cardinality(S)
  <2> DEFINE f == [i \in S |-> list[i]]
             T == {list[i] : i \in S}
  <2>1. f \in Bijection(S, T)
    <3>1. f \in [S -> T] /\ \A t \in T : \E i \in S : f[i] = t OBVIOUS
    <3>2. \A i, j \in S : f[i] = f[j] => i = j BY <1>5
    <3> HIDE DEF f, T
    <3>. QED BY <3>1, <3>2 DEF Bijection, Injection, Surjection, IsInjective
  <2>2. IsFiniteSet(S) BY <1>10, FS_Subset
  <2> HIDE DEF f, T
  <2>3. ExistsBijection(S, T) BY <2>1 DEF ExistsBijection
  <2>. QED BY <2>2, <2>3, FS_Bijection DEF T
<1>14. ToSet(list) = {list[i] : i \in D} BY DEF ToSet, D
<1>15. Cardinality(ToSet(list)) = n BY <1>10, <1>13, <1>14
<1>16. Cardinality(shown) = Cardinality(best) BY <1>12, <1>13
<1>17. shown \subseteq ToSet(list) BY <1>12, <1>14
<1> HIDE DEF shown
<1>. QED BY <1>1, <1>9, <1>11, <1>15, <1>16, <1>17 DEF Min2

-----------------------------------------------------------------------------
(* A query keeps its parts.                                                *)

(* A definition is only shown by a query that has one, and is awaiting or  *)
(* has joined its searches; the references listed are places of files.     *)
Viewed ==
  outcome.view # "" => cmd.op = "query" /\ outcome.status = "ok" /\ pc \in {"parts", "ended"} /\ W.defs # <<>>
RefsShown == part["refs"].lines \in Seq(Spots(W))

LEMMA ShownAreSpots ==
  ASSUME NEW w, IsWorld(w), NEW at \in Places(w), Shown(w, at.file)
  PROVE  at \in Spots(w)
<1>1. at.file # 0 BY DEF Shown
<1>. QED BY <1>1 DEF Places, Spots

LEMMA GrepSpots ==
  ASSUME NEW w, IsWorld(w)
  PROVE  GrepFind(w) \subseteq Spots(w)
<1>1. \A u \in w.text : u.file \in DOMAIN w.files /\ u.line \in Nat
  <2>1. w.text \subseteq [file : DOMAIN w.files, line : Nat, says : {"decl", "use", "import"}, call : BOOLEAN]
    BY Zenon DEF IsWorld
  <2>. QED BY <2>1
<1>2. \A u \in w.text : At(u) \in Spots(w) BY <1>1 DEF At, Spots
<1>. QED BY <1>2 DEF GrepFind

LEMMA RefsShownKept ==
  ASSUME TypeInv, RefsShown, [Next]_vars
  PROVE  RefsShown'
<1> USE TypeMeans
<1> DEFINE x == "refs"
           L == Seq(Spots(W))
<1>1. world' = world /\ cmd' = cmd BY SearchMoves, OtherMoves DEF Rest, given
<1>2. W' = W BY <1>1 DEF W
<1>3. x \in Parts BY DEF Parts
<1>4. part[x].lines \in L BY DEF RefsShown
<1>5. SUFFICES part'[x].lines \in L BY <1>2 DEF RefsShown, Spots
<1>6. {"text", "uses"} \subseteq PartPCs /\ {"uri", "ambiguous", "missing"} \subseteq Says
  BY DEF PartPCs, Says, Calls
<1>7. ASSUME part[x].pc \notin {"idle", "ended"} PROVE part[x].says = "" BY <1>3, <1>7, BusyMeans
<1>8. <<>> \in L OBVIOUS
<1> HIDE DEF L
<1>9. CASE RefsLooksUp
  <2>1. LookedUp(x).at \in Location BY <1>3, LookedUpIs
  <2>2. \/ Errs(x, LookedUp(x).says) /\ LookedUp(x).says \in {"uri", "ambiguous"}
        \/ Step(x, "text") \/ Found(x, LookedUp(x).at, "uses")
    BY <1>9, LookedUpInSearches DEF RefsLooksUp
  <2>3. part[x].says = "" BY <1>7, <1>9 DEF RefsLooksUp, Asked, PartAt
  <2>4. part'[x].lines \in {part[x].lines, <<>>}
    <3>1. CASE Errs(x, LookedUp(x).says) /\ LookedUp(x).says \in {"uri", "ambiguous"}
      BY <3>1, <1>3, <1>6, ErrsMoves
    <3>2. CASE Step(x, "text") BY <3>2, <2>3, <1>3, <1>6, StepMoves
    <3>3. CASE Found(x, LookedUp(x).at, "uses") BY <3>3, <2>1, <2>3, <1>3, <1>6, FoundMoves
    <3>. QED BY <2>2, <3>1, <3>2, <3>3
  <2>. QED BY <2>4, <1>4, <1>8
<1>10. CASE RefsReads
  <2> DEFINE uses == ToReferenceLines(W, W.refs)
             warns == cmd.op = "refs" /\ uses = {} /\ Leftover(W, part[x].at) # {}
  <2>1. IsFiniteSet(uses) /\ SetToSeq(uses) \in Seq(ListLines) BY AnswersAre, LinesAre, LinesTyped
  <2>2. uses \subseteq Spots(W)
    <3>1. uses \subseteq Places(W) /\ \A at \in uses : Shown(W, at.file) BY AnswersAre, LinesAre
    <3>. QED BY <3>1, ShownAreSpots
  <2>3. warns \in BOOLEAN OBVIOUS
  <2>4. Errs(x, "uri") \/ Answers(x, SetToSeq(uses), "lsp", warns) BY <1>10 DEF RefsReads
  <2>5. part[x].says = "" BY <1>7, <1>10 DEF RefsReads, Asked, PartAt
  <2> HIDE DEF uses, warns
  <2>6. SetToSeq(uses) \in L
    <3>1. SetToSeq(uses) \in Seq(uses) BY <2>1, SetToSeqIs
    <3>. QED BY <3>1, <2>2 DEF L
  <2>7. CASE Errs(x, "uri") BY <2>7, <1>3, <1>6, <1>8, ErrsMoves
  <2>8. CASE Answers(x, SetToSeq(uses), "lsp", warns)
    <3>1. part'[x].lines = SetToSeq(uses) BY <2>1, <2>3, <2>5, <2>8, <1>3, AnswersMoves
    <3>. QED BY <3>1, <2>6
  <2>. QED BY <2>4, <2>7, <2>8
<1>11. CASE RefsGreps
  <2>1. IsFiniteSet(GrepFind(W)) /\ SetToSeq(GrepFind(W)) \in Seq(ListLines) BY GrepIs, LinesTyped
  <2>2. SetToSeq(GrepFind(W)) \in L
    <3>1. SetToSeq(GrepFind(W)) \in Seq(GrepFind(W)) BY <2>1, SetToSeqIs
    <3>2. GrepFind(W) \subseteq Spots(W) BY GrepSpots
    <3>. QED BY <3>1, <3>2 DEF L
  <2>3. Errs(x, "missing") \/ Answers(x, SetToSeq(GrepFind(W)), "grep", FALSE) BY <1>11 DEF RefsGreps
  <2>4. part[x].says = "" BY <1>7, <1>11 DEF RefsGreps, PartAt
  <2>5. CASE Errs(x, "missing") BY <2>5, <1>3, <1>6, <1>8, ErrsMoves
  <2>6. CASE Answers(x, SetToSeq(GrepFind(W)), "grep", FALSE)
    <3>1. part'[x].lines = SetToSeq(GrepFind(W)) BY <2>1, <2>4, <2>6, <1>3, AnswersMoves
    <3>. QED BY <3>1, <2>2
  <2>. QED BY <2>3, <2>5, <2>6
<1>12. CASE CallFails(x)
  <2>1. part'[x].lines \in {part[x].lines, <<>>} BY <1>3, <1>12, FailsMoves
  <2>. QED BY <2>1, <1>4, <1>8
<1>13. CASE Searches /\ ~(RefsLooksUp \/ RefsReads \/ RefsGreps \/ CallFails(x))
  <2>1. part'[x] = part[x] BY <1>13, OthersMove
  <2>. QED BY <1>4, <2>1
<1>14. CASE ~Searches
  <2>1. part' = part \/ Fresh(x) BY <1>3, <1>14, OtherMoves
  <2>. QED BY <1>4, <1>8, <2>1 DEF Fresh
<1>. QED BY <1>9, <1>10, <1>11, <1>12, <1>13, <1>14

LEMMA ViewStays ==
  ASSUME NEW r, Result(r)
  PROVE  /\ \A status : [r EXCEPT !.status = status].view = r.view
         /\ \A status, errors : [[r EXCEPT !.errors = errors] EXCEPT !.status = status].view = r.view
         /\ \A errors : [r EXCEPT !.errors = errors].view = r.view
BY DEF Result

LEMMA ViewMoves ==
  ASSUME TypeInv, Viewed, [Next]_vars
  PROVE  \/ outcome' = outcome /\ pc' = pc
         \/ outcome'.view = ""
         \/ /\ pc' = "parts" /\ cmd.op = "query" /\ W.defs # <<>> /\ outcome'.status = "ok"
         \/ QueryJoins
<1>1. Result(outcome) BY OutcomeMeans
<1>2. NoOutcome.view = "" BY DEF NoOutcome
<1>3. pc \in {"starts", "queries", "probes", "waits"} => outcome.view = "" BY <1>2 DEF TypeInv, Orderly
<1>4. pc \in {"text", "semantic"} \/ cmd.op \in Parts => outcome.view = "" BY DEF Viewed, Parts
<1>5. ASSUME NEW status, EndsAs(status), outcome.view = "" PROVE outcome'.view = ""
  BY <1>1, <1>5, ViewStays DEF EndsAs, Ends
<1>6. CASE Searches BY <1>6, SearchMoves DEF Rest
<1>7. CASE Refuses \/ ProbeFails \/ GivesUp
  <2>1. EndsAs("error") /\ pc \in {"starts", "probes", "waits"} BY <1>7 DEF Refuses, ProbeFails, GivesUp
  <2>. QED BY <2>1, <1>3, <1>5
<1>8. CASE Connects \/ Ticks
  <2>1. outcome' = outcome /\ pc \in {"starts", "waits"} BY <1>8 DEF Connects, Ticks
  <2>. QED BY <2>1, <1>3
<1>9. CASE GoesWithout
  <2>1. pc = "starts" /\ (outcome' = outcome \/ \E status : EndsAs(status)) BY <1>9 DEF GoesWithout
  <2>. QED BY <2>1, <1>3, <1>5
<1>10. CASE Prints
  <2> DEFINE status == IF Failed = {} THEN "ok" ELSE "error"
             shown == Lines(cmd.op)
             r == [[outcome EXCEPT !.status = status] EXCEPT !.errors = Failed]
  <2>1. cmd.op \in Parts /\ outcome' = [r EXCEPT !.shown[cmd.op] = shown] BY <1>10 DEF Prints, Ends
  <2>2. outcome'.view = outcome.view
    <3> HIDE DEF status, shown
    <3>. QED BY <1>1, <2>1 DEF Result
  <2>. QED BY <2>1, <2>2, <1>4
<1>11. CASE Queries
  <2>1. cmd.op = "query" /\ outcome.view = "" BY <1>11, <1>2, QueriesIs
  <2>2. \/ \E status : EndsAs(status)
        \/ outcome' = outcome
        \/ /\ pc' = "parts" /\ W.defs # <<>>
           /\ \E v \in Views \ {""} : outcome' = [[outcome EXCEPT !.status = "ok"] EXCEPT !.view = v]
    BY <1>11, QueriesIs
  <2>3. ASSUME NEW v, outcome' = [[outcome EXCEPT !.status = "ok"] EXCEPT !.view = v]
        PROVE  outcome'.status = "ok"
    BY <2>3, <1>1 DEF Result
  <2>. QED BY <2>1, <2>2, <2>3, <1>5
<1>12. CASE QueryTexts
  <2> DEFINE errors == IF Failed = {} THEN {} ELSE {"text search"}
             told == [outcome EXCEPT !.errors = errors]
             found == Lines("refs")
             shown == ScoreReferences(W, found, Least(found).file, Items(Budget.references))
  <2>1. pc = "text" /\ (outcome' = told \/ outcome' = [[told EXCEPT !.status = "ok"] EXCEPT !.shown["refs"] = shown])
    BY <1>12 DEF QueryTexts, Ends
  <2>2. outcome'.view = outcome.view
    <3> HIDE DEF errors, shown
    <3>. QED BY <1>1, <2>1 DEF Result
  <2>. QED BY <2>1, <2>2, <1>4
<1>13. CASE QueryMeans
  <2>1. pc = "semantic" BY <1>13 DEF QueryMeans
  <2>2. PICK found \in {"nothing", "fails", "some"} :
          Ends([[outcome EXCEPT
                 !.errors = @ \cup (IF found = "fails" THEN {"semantic search"} ELSE {})] EXCEPT
                 !.status = IF found = "some" THEN "ok"
                            ELSE IF Classify(cmd.looks, cmd.mode) = "symbol" THEN "not_found_exact" ELSE ""])
    BY <1>13 DEF QueryMeans
  <2> DEFINE e == outcome.errors \cup (IF found = "fails" THEN {"semantic search"} ELSE {})
             status == IF found = "some" THEN "ok"
                       ELSE IF Classify(cmd.looks, cmd.mode) = "symbol" THEN "not_found_exact" ELSE ""
  <2>3. outcome' = [[outcome EXCEPT !.errors = e] EXCEPT !.status = status] BY <2>2 DEF Ends
  <2> HIDE DEF e, status
  <2>. QED BY <2>1, <2>3, <1>1, <1>4, ViewStays
<1>14. CASE Probes
  <2>1. pc = "probes" /\ (EndsAs("ready") \/ outcome' = outcome) BY <1>14 DEF Probes
  <2>. QED BY <2>1, <1>3, <1>5
<1>15. CASE Indexes \/ Dies \/ Expires \/ UNCHANGED vars
  BY <1>15 DEF Indexes, Dies, Expires, vars
<1>. QED BY <1>6, <1>7, <1>8, <1>9, <1>10, <1>11, <1>12, <1>13, <1>14, <1>15 DEF Next, Command, Warmup

(* When the searches of a query are joined, some lines of each are kept.   *)
LEMMA BudgetIs ==
  ASSUME Depth \in Nat \ {0}
  PROVE  Items(Budget.references) \in Nat /\ Items(Budget.callers) \in Nat
<1> DEFINE base == BaseTotal(cmd.budget, Depth)
           bonus == IF Depth > 1 THEN DepthBonus * (Depth - 1) ELSE 0
           total == Min2(HardCap, base + bonus)
<1>1. {SmallTotal, MediumTotal, LargeTotal, DepthBonus, HardCap} \subseteq Nat BY QueriesAssumption
<1>2. base \in {SmallTotal, MediumTotal, LargeTotal} BY Zenon DEF BaseTotal
<1>3. bonus \in Nat
  <2>1. DepthBonus \in Nat /\ Depth - 1 \in Nat BY <1>1
  <2>2. \A a, b \in Nat : a * b \in Nat OBVIOUS
  <2>. QED BY <2>1, <2>2
<1> HIDE DEF base, bonus
<1>4. total \in Nat BY <1>1, <1>2, <1>3 DEF Min2
<1>5. Budget = Allocate(total) BY DEF Budget, ComputeBudget, base, bonus
<1> HIDE DEF total
<1>6. Budget.references = total \div 4 /\ Budget.callers = (15 * total) \div 100 BY <1>5 DEF Allocate
<1>7. Budget.references \in Nat /\ Budget.callers \in Nat BY <1>4, <1>6
<1>8. \A n \in Nat : Items(n) \in Nat BY DEF Items, Max2
<1>. QED BY <1>7, <1>8

LEMMA JoinedKeeps ==
  ASSUME TypeInv, Viewed, RefsShown, Tree, QueryJoins
  PROVE  /\ pc = "parts" /\ part' = part /\ given' = given /\ pc' = "ended"
         /\ outcome'.view = outcome.view /\ outcome'.status = outcome.status
         /\ outcome.view # "" => QueryKeepsParts'
<1> DEFINE g == W.defs[1].file
           shown == [refs       |-> ScoreReferences(W, Lines("refs"), g, Items(Budget.references)),
                     callers    |-> ScoreCallers(W, part["callers"].lines, g, Items(Budget.callers)),
                     implements |-> Lines("implements")]
<1>1. /\ pc = "parts" /\ part' = part /\ given' = given /\ pc' = "ended"
      /\ outcome' = [[outcome EXCEPT !.errors = Failed] EXCEPT !.shown = shown]
  BY DEF QueryJoins, Ends
<1>2. /\ outcome'.view = outcome.view /\ outcome'.status = outcome.status
      /\ outcome'.errors = Failed /\ outcome'.shown = shown
  <2>1. Result(outcome) BY OutcomeMeans
  <2> HIDE DEF shown
  <2>. QED BY <1>1, <2>1 DEF Result
<1>3. ASSUME outcome.view # "" PROVE QueryKeepsParts'
  <2>1. outcome.status = "ok" /\ W.defs # <<>> BY <1>3 DEF Viewed
  <2>2. IsWorld(W) BY TypeMeans
  <2>3. g \in DOMAIN W.files
    <3> DEFINE D == [file : DOMAIN W.files, line : Nat, lines : Nat, class : BOOLEAN, parses : BOOLEAN]
    <3>1. W.defs \in Seq(D) BY <2>2, Zenon DEF IsWorld
    <3>2. \A d \in D : d.file \in DOMAIN W.files OBVIOUS
    <3> HIDE DEF D
    <3>3. W.defs[1] \in D BY <2>1, <3>1
    <3>. QED BY <3>2, <3>3
  <2> HIDE DEF g
  <2>4. /\ shown["refs"] \subseteq Lines("refs")
        /\ Cardinality(shown["refs"]) = Min2(Cardinality(Lines("refs")), Items(Budget.references))
    <3>1. IsFiniteSet(Lines("refs")) /\ Lines("refs") \subseteq Spots(W)
      BY FiniteElements DEF RefsShown, Lines
    <3>2. shown["refs"] = ScoreReferences(W, Lines("refs"), g, Items(Budget.references)) OBVIOUS
    <3> HIDE DEF shown
    <3>. QED BY <2>2, <2>3, <3>1, <3>2, TypeMeans, BestReferences, BudgetIs
  <2>5. /\ shown["callers"] \subseteq Lines("callers")
        /\ Cardinality(shown["callers"]) = Min2(Cardinality(Lines("callers")), Items(Budget.callers))
    <3>1. IsTree(Listed) /\ Listed \in Seq(ListLines) BY TypeMeans, PartMeans DEF Tree, TreeOn, Listed, Parts
    <3>2. \A i \in DOMAIN Listed : \A j \in 1 .. i - 1 : Listed[j].node # Listed[i].node BY <3>1 DEF IsTree
    <3>3. ASSUME NEW i \in DOMAIN Listed PROVE Listed[i].node.file \in DOMAIN W.files
      <4>1. \E at : Listed[i].node \in Calling(at) BY <3>1 DEF IsTree
      <4>2. Listed[i].node \in Places(W) /\ Shown(W, Listed[i].node.file) BY <2>2, <4>1, IncomingIs
      <4>3. Listed[i].node \in Spots(W) BY <2>2, <4>2, ShownAreSpots
      <4>. QED BY <4>3 DEF Spots
    <3>4. shown["callers"] = ScoreCallers(W, Listed, g, Items(Budget.callers)) BY DEF Listed
    <3>5. Lines("callers") = ToSet(Listed) BY DEF Lines, Listed
    <3> HIDE DEF shown
    <3>. QED BY <2>2, <2>3, <3>1, <3>2, <3>3, <3>4, <3>5, TypeMeans, BestCallers, BudgetIs
  <2>6. shown["implements"] = Lines("implements") OBVIOUS
  <2> HIDE DEF shown
  <2>7. \A x \in Parts : Lines(x)' = Lines(x) BY <1>1 DEF Lines
  <2>8. Failed' = Failed BY <1>1 DEF Failed
  <2>9. Items(Budget.references)' = Items(Budget.references) /\ Items(Budget.callers)' = Items(Budget.callers)
    BY <1>1 DEF Items, Budget, Depth, given
  <2>10. outcome'.status = "ok" /\ outcome'.errors = Failed /\ outcome'.shown = shown BY <2>1, <1>2
  <2>11. \A x \in Parts : x = "refs" \/ x = "callers" \/ x = "implements" BY DEF Parts
  <2>12. "refs" \in Parts /\ "callers" \in Parts /\ "implements" \in Parts BY DEF Parts
  <2>. QED BY <2>4, <2>5, <2>6, <2>7, <2>8, <2>9, <2>10, <2>11, <2>12 DEF QueryKeepsParts
<1>. QED BY <1>1, <1>2, <1>3

(* An ended command has nothing more to do.                                *)
LEMMA EndedStays ==
  ASSUME TypeInv, pc = "ended", [Next]_vars
  PROVE  UNCHANGED <<part, outcome, pc, given>>
<1>1. ~Searches
  <2>1. AllEnded BY DEF TypeInv, Orderly
  <2>2. ASSUME Searches PROVE \E x \in Parts : part[x].pc \notin {"idle", "ended"} BY <2>2, SearchMoves
  <2>. QED BY <2>1, <2>2 DEF AllEnded
<1>. QED BY <1>1 DEF Next, Command, Warmup, Refuses, Connects, GoesWithout, Prints, Queries, QueryTexts, QueryMeans,
         QueryJoins, Probes, ProbeFails, Ticks, GivesUp, Indexes, Dies, Expires, vars

LEMMA PartsKept ==
  ASSUME TypeInv, Viewed, RefsShown, Tree, QueryKeepsParts, [Next]_vars
  PROVE  Viewed' /\ QueryKeepsParts'
<1>1. given' = given
  <2>1. CASE Searches BY <2>1, SearchMoves DEF Rest
  <2>2. CASE ~Searches BY <2>2, OtherMoves
  <2>. QED BY <2>1, <2>2
<1>2. world' = world /\ cmd' = cmd /\ W' = W BY <1>1 DEF given, W
<1>3. CASE pc = "ended"
  <2>1. UNCHANGED <<part, outcome, pc, given>> BY <1>3, EndedStays
  <2>2. QueryKeepsParts' <=> QueryKeepsParts
    BY <2>1 DEF QueryKeepsParts, Failed, Lines, Items, Budget, Depth, given
  <2>. QED BY <2>1, <2>2, <1>2 DEF Viewed
<1>4. CASE pc # "ended"
  <2>1. CASE outcome' = outcome /\ pc' = pc BY <2>1, <1>2, <1>4 DEF Viewed, QueryKeepsParts
  <2>2. CASE outcome'.view = "" BY <2>2 DEF Viewed, QueryKeepsParts
  <2>3. CASE pc' = "parts" /\ cmd.op = "query" /\ W.defs # <<>> /\ outcome'.status = "ok"
    BY <2>3, <1>2 DEF Viewed, QueryKeepsParts
  <2>4. CASE QueryJoins
    <3>1. Viewed' BY <2>4, <1>2, JoinedKeeps DEF Viewed
    <3>2. CASE outcome.view # "" BY <2>4, <3>1, <3>2, JoinedKeeps
    <3>3. CASE outcome.view = "" BY <2>4, <3>1, <3>3, JoinedKeeps DEF QueryKeepsParts
    <3>. QED BY <3>2, <3>3
  <2>. QED BY <2>1, <2>2, <2>3, <2>4, ViewMoves
<1>. QED BY <1>3, <1>4

(* A query with a definition ends with it, with an error for each of its   *)
(* three searches that failed, and with as many lines of the others as its *)
(* budget allows, in every workspace and whatever happened (querySymbol,   *)
(* whose searches are joined by wg.Wait, and the two rankings, which       *)
(* neither lose nor repeat a line).                                        *)
THEOREM PartsKeptByQueries == Spec => []QueryKeepsParts
<1> DEFINE I == TypeInv /\ Tree /\ Viewed /\ RefsShown /\ QueryKeepsParts
<1>1. Init => I
  <2>1. SUFFICES ASSUME Init PROVE Viewed /\ RefsShown /\ QueryKeepsParts BY TypeStarts, TreeStarts
  <2>2. outcome.view = "" BY <2>1 DEF Init, NoOutcome
  <2>3. part["refs"].lines = <<>> BY <2>1 DEF Init, Parts, Idle
  <2>4. RefsShown BY <2>3 DEF RefsShown
  <2>. QED BY <2>2, <2>4 DEF Viewed, QueryKeepsParts
<1>2. I /\ [Next]_vars => I' BY TypeKept, TreeKept, RefsShownKept, PartsKept
<1>3. I => QueryKeepsParts OBVIOUS
<1>. QED BY <1>1, <1>2, <1>3, PTL DEF Spec
===============================================================================
