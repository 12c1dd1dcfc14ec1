--------------------------------- MODULE Indexer ---------------------------------
(***************************************************************************)
(* The semantic index of one project: the commands index, clear, status    *)
(* and search (cmd/cs/main.go over pkg/indexer.go and pkg/searcher.go),    *)
(* the two collections they keep in the vector store                       *)
(* (pkg/vectorstore/milvus.go) and the embedder's retries                  *)
(* (pkg/embedding/ollama.go).  What is indexed is Chunking's.              *)
(*                                                                         *)
(* The project's files and its ignore rules change while commands run, and *)
(* every command may fail, or be killed, between any two calls: nothing is *)
(* rolled back.                                                            *)
(***************************************************************************)
EXTENDS Chunking

CONSTANTS
  Procs,         (* cs processes                                             *)
  Trees,         (* the states of the project's files, in order              *)
  RuleSets,      (* the ignore rules in force, in order                      *)
  Limits,        (* character limits the model and the configuration may ask *)
  SafeChars,     (* a request of no more never overflows the model's context *)
  MinChars,      (* minAdaptiveMaxInputChars, 512                            *)
  MaxAttempts,   (* maxAdaptiveEmbedAttempts, 5                              *)
  BatchSize,     (* embeddingBatchSize, 64                                   *)
  MaxCommands,   (* bound: commands run                                      *)
  MaxFaults      (* bound: failed calls, killed processes                    *)

(* Files, syntax trees (a node lies in its file and in the nodes above it) *)
(* and the lines of ignore files (a pattern names something).              *)
File ==
  [path : Seq(STRING) \ {<<>>}, source : BOOLEAN, readable : BOOLEAN, lines : Seq(Seq(STRING)),
   nodes : Seq([first : Nat, last : Nat, label : BOOLEAN, size : Nat \ {0}])]
IsNested(file) ==
  LET nodes == file.nodes IN
  /\ \A n \in DOMAIN nodes :
       1 <= nodes[n].first /\ nodes[n].first <= nodes[n].last /\ nodes[n].last <= Len(file.lines)
  /\ \A m, n \in DOMAIN nodes :
       m < n /\ n < m + nodes[m].size =>
         /\ nodes[m].first <= nodes[n].first /\ nodes[n].last <= nodes[m].last
         /\ n + nodes[n].size <= m + nodes[m].size
Rule == [mark : STRING, segs : Seq(SUBSET STRING), anchored : BOOLEAN, glob : BOOLEAN]

ASSUME IndexerAssumption ==
  /\ Trees \in Seq(Seq(File)) \ {<<>>}
  /\ \A t \in DOMAIN Trees : \A k \in DOMAIN Trees[t] : IsNested(Trees[t][k])
  /\ RuleSets \in Seq(SUBSET Rule) \ {<<>>}
  /\ \A r \in DOMAIN RuleSets : \A line \in Effective(RuleSets[r]) : line.segs # <<>>
  /\ Limits \subseteq Nat \ {0} /\ Limits # {}
  /\ MinChars \in Nat \ {0} /\ MaxAttempts \in Nat \ {0} /\ BatchSize \in Nat \ {0}
  /\ MaxCommands \in Nat /\ MaxFaults \in Nat /\ SafeChars \in Nat

VARIABLES
  proc,       (* each process                                                *)
  reply,      (* what its last command said                                  *)
  main,       (* the collection of chunks                                    *)
  meta,       (* the collection of metadata                                  *)
  tree, head, rules,  (* the files, the commit at HEAD (0: none), the rules  *)
  made,       (* history: the project as it was when meta was written        *)
  torn,       (* history: two writers at once, a change under an index, or   *)
              (* metadata that outlived its index                            *)
  commands, faults

projectVars == <<tree, head, rules>>
storeVars == <<main, meta, made>>
countVars == <<commands, faults>>
vars == <<proc, reply, storeVars, projectVars, torn, countVars>>

(* Commit 0 is none, rules 0 is no record. *)
Record == [commit : 0 .. Len(Trees), rules : 0 .. Len(RuleSets)]
NoRecord == [commit |-> 0, rules |-> 0]
NoMain == [there |-> FALSE, rows |-> {}]
NoMeta == [there |-> FALSE, record |-> NoRecord]
NoReply == [said |-> "", files |-> {}, rules |-> 0]

IndexPCs == {"rules", "check", "checkMeta", "dimension", "recreate", "dropMain", "dropMeta",
             "createMain", "createMeta", "walk", "embed", "insert", "describe"}
ClearPCs == {"clear", "clearMain", "clearMeta"}
ReadPCs == {"status", "statusMeta", "search", "query"}
Proc ==
  [pc      : {"idle"} \cup IndexPCs \cup ClearPCs \cup ReadPCs,
   force   : BOOLEAN,
   now     : Record,             \* the commit and the rules it goes by
   of      : 0 .. Len(Trees),    \* the files it read
   max     : Nat,                \* the splitter's limit
   limit   : Nat,                \* the embedder's, which only gets smaller
   attempt : 0 .. MaxAttempts,
   done    : Nat]                \* chunks inserted
Idle == [pc |-> "idle", force |-> FALSE, now |-> NoRecord, of |-> 0, max |-> 0, limit |-> 0,
         attempt |-> 0, done |-> 0]

TypeOK ==
  /\ proc \in [Procs -> Proc]
  /\ \A p \in Procs : reply[p].said \in {"", "indexed", "current", "stale", "none", "cleared", "hits", "failed"}
  /\ main.there \in BOOLEAN /\ (~main.there => main.rows = {})
  /\ meta.there \in BOOLEAN /\ meta.record \in Record
  /\ tree \in 1 .. Len(Trees) /\ head \in 0 .. Len(Trees) /\ rules \in 1 .. Len(RuleSets)
  /\ torn \in BOOLEAN /\ commands \in 0 .. MaxCommands /\ faults \in 0 .. MaxFaults

Init ==
  /\ proc = [p \in Procs |-> Idle] /\ reply = [p \in Procs |-> NoReply]
  /\ main = NoMain /\ meta = NoMeta
  /\ tree = 1 /\ head \in {0, 1} /\ rules = 1
  /\ made = [tree |-> 0, head |-> 0, rules |-> 0]
  /\ torn = FALSE /\ commands = 0 /\ faults = 0

At(p, pc) == proc[p].pc = pc
Goes(p, pc) == proc' = [proc EXCEPT ![p].pc = pc]
Says(p, said) ==
  /\ proc' = [proc EXCEPT ![p] = Idle]
  /\ reply' = [reply EXCEPT ![p] = [NoReply EXCEPT !.said = said]]

Writing(p) == proc[p].pc \in IndexPCs \cup ClearPCs

-----------------------------------------------------------------------------
(* The vector store.                                                       *)

(* Mutant: the collection is hidden, its rows stay. *)
HidesMain == main' = [main EXCEPT !.there = FALSE] /\ UNCHANGED <<meta, made>>

DropMain == main' = NoMain /\ UNCHANGED <<meta, made>>
DropMeta == meta' = NoMeta /\ UNCHANGED <<main, made>>

(* A collection that is there already is kept, or is an error.             *)
CreateMain == main' = [main EXCEPT !.there = TRUE] /\ UNCHANGED <<meta, made>>
CreateMeta == meta' = [meta EXCEPT !.there = TRUE] /\ UNCHANGED <<main, made>>

(* Mutant: the ignore rules are not compared. *)
IsStaleCommit(record, commit, fingerprint) ==
  \/ record.rules = 0
  \/ record.commit = 0 \/ commit = 0
  \/ record.commit # commit

(* IsStale: what is not known counts as changed.                           *)
IsStale(record, commit, fingerprint) ==
  \/ record.rules = 0 \/ record.rules # fingerprint
  \/ record.commit = 0 \/ commit = 0
  \/ record.commit # commit

(* StalenessInfo, of cs status: the same verdict, worked out on its own.   *)
StalenessInfo(record, commit, fingerprint) ==
  IF record.rules = 0 THEN "stale"
  ELSE IF record.commit # 0 /\ record.commit = commit /\ record.rules = fingerprint
       THEN "current" ELSE "stale"

(* The nearest chunks, as far as the limit and the language filter go.     *)
Nearest == SUBSET {row.file : row \in main.rows}

-----------------------------------------------------------------------------
(* The embedder's limit: what DetectContextLength found, or the default,   *)
(* capped by the configuration.                                            *)
CapMaxInputChars(base, cap) == IF cap = 0 THEN base ELSE Smaller(base, cap)

(* cs index: the commit is read first, then the rules, the metadata, ...   *)

Begins(p) ==
  /\ At(p, "idle") /\ commands < MaxCommands /\ commands' = commands + 1
  /\ \/ \E force \in BOOLEAN, detected \in Limits, cap \in {0} \cup Limits :
          LET chars == CapMaxInputChars(detected, cap) IN
          proc' = [proc EXCEPT ![p] = [Idle EXCEPT !.pc = "rules", !.force = force,
                     !.now.commit = head, !.max = chars, !.limit = chars]]
     \/ \E pc \in {"clear", "status", "search"} : proc' = [proc EXCEPT ![p] = [Idle EXCEPT !.pc = pc]]
  /\ reply' = [reply EXCEPT ![p] = NoReply]
  /\ torn' = (torn \/ (Writing(p)' /\ \E q \in Procs : Writing(q)))
  /\ UNCHANGED <<storeVars, projectVars, faults>>

(* NewMatcher reads the rules; --force looks at nothing else.              *)
ReadsRules(p) ==
  /\ At(p, "rules")
  /\ proc' = [proc EXCEPT ![p].now.rules = rules, ![p].pc = IF proc[p].force THEN "dimension" ELSE "check"]
  /\ UNCHANGED <<reply, storeVars>>

Checks(p) ==
  /\ At(p, "check") /\ Goes(p, IF main.there THEN "checkMeta" ELSE "dimension")
  /\ UNCHANGED <<reply, storeVars>>

(* An index of this commit and these rules is left as it is.               *)
ChecksMeta(p) ==
  /\ At(p, "checkMeta")
  /\ IF IsStale(meta.record, proc[p].now.commit, proc[p].now.rules)
     THEN Goes(p, "dimension") /\ UNCHANGED reply
     ELSE Says(p, "current")
  /\ UNCHANGED storeVars

DetectsDimension(p) == At(p, "dimension") /\ Goes(p, "recreate") /\ UNCHANGED <<reply, storeVars>>

Recreates(p) ==
  /\ At(p, "recreate") /\ Goes(p, IF main.there THEN "dropMain" ELSE "createMain")
  /\ UNCHANGED <<reply, storeVars>>

Drops(p) ==
  /\ \/ At(p, "dropMain") /\ DropMain /\ Goes(p, "dropMeta")
     \/ At(p, "dropMeta") /\ DropMeta /\ Goes(p, "createMain")
  /\ UNCHANGED reply

Creates(p) ==
  /\ \/ At(p, "createMain") /\ CreateMain /\ Goes(p, "createMeta") /\ UNCHANGED reply
     \/ At(p, "createMeta") /\ CreateMeta /\ Goes(p, "walk") /\ UNCHANGED reply
     \/ At(p, "createMain") /\ main.there /\ Says(p, "failed") /\ UNCHANGED storeVars
     \/ At(p, "createMeta") /\ meta.there /\ Says(p, "failed") /\ UNCHANGED storeVars

Walks(p) ==
  /\ At(p, "walk")
  /\ proc' = [proc EXCEPT ![p].of = tree, ![p].pc = "embed", ![p].attempt = 1]
  /\ UNCHANGED <<reply, storeVars>>

(* A batch of the chunks, embedded under a limit: its rows, and whether a  *)
(* request is longer than SafeChars and may be more than the model takes.  *)
BatchOf(chunks, done, limit) ==
  LET batch == SubSeq(chunks, done + 1, Smaller(done + BatchSize, Len(chunks)))
      texts == [k \in 1 .. Len(batch) |-> batch[k].text]
      requests == Requests(Flat(texts, limit), limit)
      vectors == Vectors(texts, limit)
  IN [size |-> Len(batch),
      rows |-> {[file |-> batch[k].file, first |-> batch[k].first, last |-> batch[k].last,
                 text |-> batch[k].text, vector |-> vectors[k]] : k \in 1 .. Len(batch)},
      long |-> \E k \in 1 .. Len(requests) : Len(FlattenSeq(requests[k])) > SafeChars]

(* BatchOf for all it is asked, worked out once: the embedder's limit      *)
(* never exceeds the splitter's.                                           *)
Batches ==
  [t \in 1 .. Len(Trees) |-> [r \in 1 .. Len(RuleSets) |-> [max \in Limits |->
     LET chunks == Chunks(Trees[t], Effective(RuleSets[r]), max)
     IN [done \in 0 .. Len(chunks) |-> [limit \in 1 .. max |-> BatchOf(chunks, done, limit)]]]]]

Batch(p) == LET x == proc[p] IN Batches[x.of][x.now.rules][x.max][x.done][x.limit]
MayOverflow(p) == Batch(p).long

(* EmbedBatch: every attempt after an overflow asks for half as much.      *)
Embeds(p) ==
  LET half == proc[p].limit \div 2
      next == IF half < MinChars THEN MinChars ELSE half IN
  /\ At(p, "embed") /\ Batch(p).size > 0
  /\ \/ Goes(p, "insert") /\ UNCHANGED reply
     \/ /\ MayOverflow(p) /\ next < proc[p].limit /\ proc[p].attempt < MaxAttempts
        /\ proc' = [proc EXCEPT ![p].limit = next, ![p].attempt = @ + 1]
        /\ UNCHANGED reply
     \/ MayOverflow(p) /\ (next >= proc[p].limit \/ proc[p].attempt = MaxAttempts) /\ Says(p, "failed")
  /\ UNCHANGED storeVars

Inserts(p) ==
  /\ At(p, "insert")
  /\ \/ /\ main.there /\ main' = [main EXCEPT !.rows = @ \cup Batch(p).rows]
        /\ proc' = [proc EXCEPT ![p].done = @ + Batch(p).size, ![p].pc = "embed", ![p].attempt = 1]
        /\ UNCHANGED <<reply, meta, made>>
     \/ ~main.there /\ Says(p, "failed") /\ UNCHANGED storeVars

(* SetMetadata, last: the commit and the rules read at the beginning.      *)
Describes(p) ==
  /\ At(p, "embed") /\ Batch(p).size = 0
  /\ IF meta.there
     THEN /\ meta' = [meta EXCEPT !.record = proc[p].now]
          /\ made' = [tree |-> tree, head |-> head, rules |-> rules]
          /\ Says(p, "indexed") /\ UNCHANGED main
     ELSE Says(p, "failed") /\ UNCHANGED storeVars

Index(p) ==
  /\ \/ ReadsRules(p) \/ Checks(p) \/ ChecksMeta(p) \/ DetectsDimension(p) \/ Recreates(p)
     \/ Drops(p) \/ Creates(p) \/ Walks(p) \/ Embeds(p) \/ Inserts(p) \/ Describes(p)
  /\ UNCHANGED <<projectVars, torn, countVars>>

-----------------------------------------------------------------------------
(* cs clear, cs status, cs search.                                         *)

Clears(p) ==
  /\ \/ At(p, "clear") /\ main.there /\ Goes(p, "clearMain") /\ UNCHANGED <<reply, storeVars>>
     \/ At(p, "clear") /\ ~main.there /\ Says(p, "none") /\ UNCHANGED storeVars
     \/ At(p, "clearMain") /\ DropMain /\ Goes(p, "clearMeta") /\ UNCHANGED reply
     \/ At(p, "clearMeta") /\ DropMeta /\ Says(p, "cleared")
  /\ UNCHANGED <<projectVars, torn, countVars>>

Reports(p) ==
  /\ \/ At(p, "status") /\ main.there /\ Goes(p, "statusMeta") /\ UNCHANGED reply
     \/ At(p, "status") /\ ~main.there /\ Says(p, "none")
     \/ /\ At(p, "statusMeta")
        /\ Says(p, StalenessInfo(meta.record, head, rules))
  /\ UNCHANGED <<storeVars, projectVars, torn, countVars>>

(* Search reads the rules, asks for the nearest chunks and leaves out the  *)
(* files that match.                                                       *)
Searches(p) ==
  /\ \/ At(p, "search") /\ proc' = [proc EXCEPT ![p].pc = "query", ![p].now.rules = rules] /\ UNCHANGED reply
     \/ At(p, "query") /\ ~main.there /\ Says(p, "failed")
     \/ /\ At(p, "query") /\ main.there
        /\ \E hits \in Nearest :
             reply' = [reply EXCEPT ![p] =
               [said |-> "hits", rules |-> proc[p].now.rules,
                files |-> {file \in hits : ~Matches(file, Effective(RuleSets[proc[p].now.rules]))}]]
        /\ proc' = [proc EXCEPT ![p] = Idle]
  /\ UNCHANGED <<storeVars, projectVars, torn, countVars>>

-----------------------------------------------------------------------------
(* A call fails, or the process is killed: what is done stays.  An error   *)
(* of the second drop is dropped too.                                      *)
Fails(p) ==
  /\ ~At(p, "idle") /\ faults < MaxFaults /\ faults' = faults + 1
  /\ \/ Says(p, "failed")
     \/ At(p, "dropMeta") /\ Goes(p, "createMain") /\ UNCHANGED reply
     \/ At(p, "clearMeta") /\ Says(p, "cleared")
  /\ torn' = (torn \/ proc[p].pc \in {"dropMeta", "clearMeta"})
  /\ UNCHANGED <<storeVars, projectVars, commands>>

(* The project changes: an edit, a commit of what is there, new rules.     *)
Changes ==
  /\ \/ tree < Len(Trees) /\ tree' = tree + 1 /\ UNCHANGED <<head, rules>>
     \/ head \notin {0, tree} /\ head' = tree /\ UNCHANGED <<tree, rules>>
     \/ rules < Len(RuleSets) /\ rules' = rules + 1 /\ UNCHANGED <<tree, head>>
  /\ torn' = (torn \/ \E p \in Procs : proc[p].pc \in IndexPCs)
  /\ UNCHANGED <<proc, reply, storeVars, countVars>>

Steps(p) == Index(p) \/ Clears(p) \/ Reports(p) \/ Searches(p)

Next == (\E p \in Procs : Begins(p) \/ Steps(p) \/ Fails(p)) \/ Changes

Spec == Init /\ [][Next]_vars

-----------------------------------------------------------------------------
(* What an index of these files under these rules is made of, defined over *)
(* the files: no directory of the path and not the file itself is named by *)
(* a pattern, and a line is wanted if it is not blank and, in a file that  *)
(* has declarations, belongs to one.                                       *)
Named(path, pat) ==
  \E from \in 1 .. Len(path), to \in 1 .. Len(path) :
    /\ pat.anchored /\ Len(pat.segs) > 1 => from = 1
    /\ Globs(pat.segs, SubSeq(path, from, to))
Wanted(files, patterns) ==
  {f \in {files[k] : k \in 1 .. Len(files)} :
     f.source /\ f.readable /\ \A pat \in patterns : ~Named(f.path, pat)}
WantedLines(file) ==
  LET nodes == {n \in 1 .. Len(file.nodes) : file.nodes[n].label} IN
  {i \in 1 .. Len(file.lines) :
     /\ ~IsBlank(file.lines[i])
     /\ nodes = {} \/ \E n \in nodes : file.nodes[n].first <= i /\ i <= file.nodes[n].last}

(* Metadata in the store is true: it was written by an index that ran to   *)
(* its end, of this very commit, and the collection holds each wanted line *)
(* and nothing of another file.                                            *)
IndexIsComplete ==
  LET wanted == Wanted(Trees[made.tree], Effective(RuleSets[made.rules])) IN
  main.there /\ meta.record # NoRecord /\ ~torn =>
    /\ meta.record = [commit |-> made.head, rules |-> made.rules]
    /\ \A f \in wanted : \A i \in WantedLines(f) :
         \E row \in main.rows : row.file = f.path /\ i \in row.first .. row.last
    /\ \A row \in main.rows : \E f \in wanted :
         row.file = f.path /\ row.text = ExtractLines(f.lines, row.first, row.last)

(* Whatever overlaps or fails, a row's vector is of its own text, of all   *)
(* of it and in order.                                                     *)
VectorsFitTheirText == \A row \in main.rows : FlattenSeq(row.vector) = row.text

(* "Up to date" is said of an index whose commit and rules are those of    *)
(* the moment, as far as they were when it was made.                       *)
CurrentIsCurrent ==
  [][\A p \in Procs :
       /\ reply'[p].said = "current" /\ reply[p].said # "current"
       /\ ~torn /\ \A q \in Procs \ {p} : ~Writing(q)
       => main.there /\ head # 0 /\ made.head = head /\ made.rules = rules]_vars

(* The files a search shows are none that the rules it read leave out,     *)
(* however old the index (README: search result filtering).  A search does *)
(* not ask about the directories above a file, as a walk does: a pattern   *)
(* with a glob is only tried on what reaches to the file's own name.       *)
LeftOut(path, pat) ==
  \E from \in 1 .. Len(path), to \in 1 .. Len(path) :
    /\ pat.anchored /\ Len(pat.segs) > 1 => from = 1
    /\ pat.glob => to = Len(path)
    /\ Globs(pat.segs, SubSeq(path, from, to))
SearchIsFiltered ==
  \A p \in Procs : \A file \in reply[p].files :
    \A pat \in Effective(RuleSets[reply[p].rules]) : ~LeftOut(file, pat)
=============================================================================
