----------------------------- MODULE SymbolQueries -----------------------------
(***************************************************************************)
(* What the query commands make of a workspace and of a language server's  *)
(* answers: the candidates of a name, the references, callers and          *)
(* implementations listed (pkg/lsp), the text search they fall back on,    *)
(* and how a query is classified, budgeted and ranked (pkg/engine).        *)
(*                                                                         *)
(* A file is its place in the order of paths; file 0 is a URI that is no   *)
(* path.  A location is a file and a line.  A name is a base, qualified by *)
(* a container which may be wrapped as a pointer, perhaps with a           *)
(* signature.  A workspace w has the files, the lines of text that hold    *)
(* the symbol, its definitions, and what a server that has indexed it      *)
(* answers about the symbol.                                               *)
(***************************************************************************)
EXTENDS Integers, Sequences, SequencesExt, FiniteSets

CONSTANTS
  NeedsPriming,                  (* languages, numbered in alphabetical order *)
  SmallTotal, MediumTotal, LargeTotal, DepthBonus, HardCap  (* 80, 120, 160, 20, 240 *)

ASSUME QueriesAssumption ==
  {SmallTotal, MediumTotal, LargeTotal, DepthBonus, HardCap} \subseteq Nat \ {0}

Nowhere == [file |-> 0, line |-> 0]
At(x) == [file |-> x.file, line |-> x.line]
Before(a, b) == a.file < b.file \/ (a.file = b.file /\ a.line < b.line)
Least(S) == CHOOSE a \in S : \A b \in S \ {a} : Before(a, b)

-----------------------------------------------------------------------------
(* The workspace.  The matcher's verdict on a file is Chunking's Matches.  *)

(* Mutant: ignored files are not left out. *)
ShownAll(w, f) == f # 0
Shown(w, f) == f # 0 /\ ~w.files[f].ignored

(* grepFallbackSearcher.Find: every line with the symbol, wherever --path  *)
(* points and whatever --kind asks for.                                    *)
GrepFind(w) == {At(t) : t \in {u \in w.text : Shown(w, u.file)}}

Import(w, at) == \E t \in w.text : At(t) = at /\ t.says = "import"

(* compactReferences: imports are not listed.                              *)
Printed(w, lines) == {at \in lines : ~Import(w, at)}

(* detectRefsLanguage: the language of most files, the first of these.     *)
DetectRefsLanguage(w) ==
  LET count(l) == Cardinality({f \in DOMAIN w.files : Shown(w, f) /\ w.files[f].language = l})
      spoken   == {w.files[f].language : f \in {g \in DOMAIN w.files : Shown(w, g)}} \ {0} IN
  IF spoken = {} THEN 0
  ELSE CHOOSE l \in spoken :
         \A m \in spoken \ {l} : count(m) < count(l) \/ (count(m) = count(l) /\ l < m)

(* workspacePrimeFile: the first file of the language.                     *)
WorkspacePrimeFile(w, language) ==
  LET own == {f \in DOMAIN w.files : Shown(w, f) /\ w.files[f].language = language} IN
  IF own = {} THEN 0 ELSE CHOOSE f \in own : \A g \in own : f <= g

-----------------------------------------------------------------------------
(* Candidates.                                                             *)

AllowedRefKinds == {"function", "method", "class", "interface", "type", "constant"}
KindMatches(kind, symbolKind) ==
  IF kind = "type" THEN symbolKind \in {"class", "interface", "enum", "struct", "typeparameter"}
                   ELSE kind = symbolKind

(* isNameMatch: the name, or the name with a signature.                    *)
IsNameMatch(name, search) ==
  \/ name = search
  \/ name.signed /\ [name EXCEPT !.signed = FALSE] = search

(* symbolLookupNameMatches: signatures and the wrapping of the container   *)
(* do not count, nor does the container if the search has none.            *)
SymbolLookupNameMatches(name, search) ==
  name.base = search.base /\ (search.of = "" \/ name.of = search.of)
CallersSymbolMatches(s, search) ==
  \/ SymbolLookupNameMatches(s.name, search)
  \/ s.container # "" /\ SymbolLookupNameMatches([s.name EXCEPT !.of = s.container], search)
IsCallHierarchySymbolKind(kind) == kind \in {"function", "method", "constructor"}

(* The symbols that match, by their place in the server's answer.          *)
ByName(symbols, search, kind) ==
  [i \in {j \in DOMAIN symbols :
           /\ IsNameMatch(symbols[j].name, search)
           /\ kind = "" \/ KindMatches(kind, symbols[j].kind)} |-> symbols[i].at]
ByCallable(symbols, search) ==
  [i \in {j \in DOMAIN symbols :
           /\ CallersSymbolMatches(symbols[j], search)
           /\ IsCallHierarchySymbolKind(symbols[j].kind)} |-> symbols[i].at]

(* --path: the navigation commands make it absolute; cs query compares it  *)
(* with absolute paths as it was given, and a relative one matches none.   *)
InReach(w, path, at) ==
  Shown(w, at.file) /\ path # "relative" /\ (path = "all" \/ w.files[at.file].scope)

Reached(w, path, named) == {i \in DOMAIN named : InReach(w, path, named[i])}

(* Mutant: with several candidates the first is taken. *)
ResolvedToFirst(w, path, named) ==
  LET found == Reached(w, path, named) IN
  [says |-> IF found = {} THEN "missing" ELSE "one",
   at   |-> IF found = {} THEN Nowhere ELSE named[CHOOSE i \in found : \A j \in found : i <= j]]

(* resolveCandidates and what its callers make of it.  One URI that is no  *)
(* path fails the command.                                                 *)
Resolved(w, path, named) ==
  LET found == Reached(w, path, named) IN
  [says |-> IF \E i \in DOMAIN named : named[i].file = 0 THEN "uri"
            ELSE IF found = {} THEN "missing"
            ELSE IF Cardinality(found) > 1 THEN "ambiguous" ELSE "one",
   at   |-> IF found = {} THEN Nowhere ELSE named[CHOOSE i \in found : TRUE]]

-----------------------------------------------------------------------------
(* Lists.  Duplicates and the server's order do not matter.                *)

BadURI(items) == \E i \in DOMAIN items : items[i].file = 0
ToReferenceLines(w, locations) == {At(x) : x \in {y \in ToSet(locations) : Shown(w, y.file)}}

(* Mutant: no cross-check. *)
NoCrossCheck(w, declaration) == {}

(* zeroRefsCrossCheckNote: what a text search finds besides the            *)
(* declaration and the imports.                                            *)
Leftover(w, declaration) == Printed(w, GrepFind(w)) \ {declaration}

IncomingNodes(w, incoming) == ToReferenceLines(w, incoming)

(* toImplementationLines: of one name in one file the first is kept.       *)
ToImplementationLines(w, subtypes) ==
  LET shown == {x \in ToSet(subtypes) : Shown(w, x.file)} IN
  {x \in shown : \A y \in shown : y.name = x.name /\ y.file = x.file => x.line <= y.line}

(* locationsToImplementationLines: named after the file.                   *)
LocationsToImplementationLines(w, locations) ==
  {[name |-> w.files[x.file].base, file |-> x.file, line |-> x.line] :
     x \in {y \in ToSet(locations) : Shown(w, y.file)}}

(* prepareCallHierarchy, prepareTypeHierarchy: the first of several items. *)
PrepareCallHierarchy(w) == IF w.items = <<>> THEN Nowhere ELSE Least({At(x) : x \in ToSet(w.items)})
PrepareTypeHierarchy(w) == w.types # <<>>

-----------------------------------------------------------------------------
(* The query engine.                                                       *)

Intents == {"symbol", "text", "ast", "path"}

(* looksLikeQualifiedName of a phrase, the rest are signs Classify looks   *)
(* for in the query, in its order.                                         *)
LooksLikeQualifiedName(looks) == "dots" \in looks
Classify(looks, mode) ==
  IF mode \in Intents THEN mode
  ELSE IF "blank" \in looks THEN "text"
  ELSE IF looks \cap {"slash", "extension"} # {} THEN "path"
  ELSE IF "quote" \in looks THEN "text"
  ELSE IF "brace" \in looks THEN "ast"
  ELSE IF "space" \in looks /\ ~LooksLikeQualifiedName(looks) THEN "text" ELSE "symbol"

Min2(a, b) == IF a < b THEN a ELSE b
Max2(a, b) == IF a < b THEN b ELSE a

BaseTotal(flag, depth) ==
  IF flag = "large" THEN LargeTotal
  ELSE IF flag = "medium" \/ (flag = "auto" /\ depth > 1) THEN MediumTotal ELSE SmallTotal
Allocate(total) ==
  [definition |-> total \div 2, references |-> total \div 4, callers |-> (15 * total) \div 100]
ComputeBudget(flag, depth) ==
  Allocate(Min2(HardCap, BaseTotal(flag, depth) + (IF depth > 1 THEN DepthBonus * (depth - 1) ELSE 0)))

(* How a definition is shown.  A body that is too long is cut if its file  *)
(* can be read, by a path relative to the root, from where cs runs.        *)
OutlineClassDefinition(def) == IF def.parses THEN "signature_plus_outline" ELSE "signature_plus_slices"
View(def, limit, atRoot, cue) ==
  IF def.lines <= limit \/ ~atRoot THEN "full_body"
  ELSE IF def.class /\ ~cue THEN OutlineClassDefinition(def) ELSE "signature_plus_slices"

QueryPath(path) == IF path \in {"dir", "file"} THEN "ok" ELSE IF path = "long" THEN "file_too_large" ELSE "not_found"

(* Scores, times the length of the definition's path: a call counts 3, the *)
(* same directory 2, the share of the path up to 2, a test 1, and one of   *)
(* more than two in a file -2.                                             *)
PathProximityScore(w, f, g) ==
  LET p == w.files[f].path  q == w.files[g].path IN
  2 * Cardinality({k \in 1 .. Min2(Len(p), Len(q)) : SubSeq(p, 1, k) = SubSeq(q, 1, k)})
SamePackage(w, f, g) == Front(w.files[f].path) = Front(w.files[g].path)
IsCall(w, at) == \E t \in w.text : At(t) = at /\ t.call
ScoreRef(w, at, all, g) ==
  PathProximityScore(w, at.file, g)
  + Len(w.files[g].path) *
      ((IF IsCall(w, at) THEN 3 ELSE 0) + (IF SamePackage(w, at.file, g) THEN 2 ELSE 0)
       + (IF w.files[at.file].test THEN 1 ELSE 0)
       - (IF Cardinality({x \in all : x.file = at.file}) > 2 THEN 2 ELSE 0))
ScoreCaller(w, at, depth, g) ==
  PathProximityScore(w, at.file, g)
  + Len(w.files[g].path) *
      (3 + (IF SamePackage(w, at.file, g) THEN 2 ELSE 0) + (IF depth <= 1 THEN 1 ELSE 0))

(* The best `max` of a list, in its order where scores are equal.          *)
ScoreReferences(w, all, g, max) ==
  LET score == [at \in all |-> ScoreRef(w, at, all, g)] IN
  {at \in all :
     Cardinality({x \in all : score[x] > score[at] \/ (score[x] = score[at] /\ Before(x, at))}) < max}
ScoreCallers(w, list, g, max) ==
  LET score == [i \in DOMAIN list |-> ScoreCaller(w, list[i].node, list[i].depth, g)] IN
  LET best == {i \in DOMAIN list :
     Cardinality({j \in DOMAIN list : score[j] > score[i] \/ (score[j] = score[i] /\ j < i)}) < max} IN
  {list[i] : i \in best}
=============================================================================
