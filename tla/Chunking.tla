-------------------------------- MODULE Chunking --------------------------------
(***************************************************************************)
(* What an index is made of: the files a walk keeps (pkg/walker.go under   *)
(* pkg/ignore/matcher.go), their chunks (pkg/splitter) and the pieces an   *)
(* embedding request is made of (pkg/embedding/ollama.go).                 *)
(*                                                                         *)
(* A name is a string, a path a sequence of names, a line a sequence of    *)
(* characters.  A line of an ignore file has a `mark` if it is a comment,  *)
(* a negation or blank, and else the segments of a pattern, each the set   *)
(* of names it stands for: {"a"} is the literal a.  A syntax tree is its   *)
(* nodes in preorder, with the size of each one's subtree.                 *)
(***************************************************************************)
EXTENDS Integers, Sequences, SequencesExt, FiniteSets

CONSTANTS
  ChunkSize, Overlap,  (* NewFallbackSplitter's, 80 and 10                   *)
  MaxChunkLines        (* 200                                                *)

ASSUME ChunkingAssumption ==
  /\ ChunkSize \in Nat \ {0} /\ MaxChunkLines \in Nat
  /\ Overlap \in 0 .. ChunkSize - 1   \* as NewFallbackSplitter makes them

Newline == "\n"

(* The numbers of S, least first; the elements of s at the places of S.    *)
InOrder(S) ==
  [k \in 1 .. Cardinality(S) |-> CHOOSE n \in S : Cardinality({m \in S : m < n}) = k - 1]
Kept(s, S) == [k \in 1 .. Cardinality(S) |-> s[InOrder(S)[k]]]

(* s cut into pieces, of which one that begins at i goes to end[i].        *)
Pieces(s, end) ==
  LET from[i \in 1 .. Len(s) + 1] ==
        IF i > Len(s) THEN <<>> ELSE <<SubSeq(s, i, end[i])>> \o from[end[i] + 1]
  IN from[1]

-----------------------------------------------------------------------------
(* NewMatcher: the lines of .gitignore and .csignore; comments, blank      *)
(* lines and negations count for nothing.  The fingerprint is of the set.  *)
NormalizePattern(line) == line.mark = ""
Effective(ignoreLines) == {line \in ignoreLines : NormalizePattern(line)}

(* path.Match of a pattern without its leading slash.                      *)
Globs(segs, path) == Len(segs) = Len(path) /\ \A i \in 1 .. Len(segs) : path[i] \in segs[i]

Tails(path) == {SubSeq(path, i, Len(path)) : i \in 1 .. Len(path)}
Heads(path) == {SubSeq(path, 1, i) : i \in 1 .. Len(path)}

(* Mutant: only the file's own name is looked at. *)
MatchesName(path, pat) == Globs(pat.segs, <<Last(path)>>)

(* One pattern of matches(): its name may be that of the file or, if it is *)
(* literal, of any directory above it; a longer one fits the whole path or *)
(* a part of it.  A leading slash binds a longer pattern to the root.      *)
MatchesPattern(path, pat) ==
  LET from == IF pat.anchored THEN {path} ELSE Tails(path) IN
  \/ Globs(pat.segs, <<Last(path)>>)
  \/ pat.glob /\ \E tail \in from : Globs(pat.segs, tail)
  \/ ~pat.glob /\ Len(pat.segs) = 1 /\ \E i \in 1 .. Len(path) : Globs(pat.segs, <<path[i]>>)
  \/ ~pat.glob /\ Len(pat.segs) > 1 /\ \E tail \in from : \E part \in Heads(tail) : Globs(pat.segs, part)

Matches(path, patterns) == \E pat \in patterns : MatchesPattern(path, pat)

(* walkFiles: a directory that matches is not entered, a file is kept for  *)
(* its extension and its size.  The files come in the tree's order.        *)
Walk(files, patterns) ==
  Kept(files, {k \in 1 .. Len(files) :
                 files[k].source /\ \A above \in Heads(files[k].path) : ~Matches(above, patterns)})

-----------------------------------------------------------------------------
(* Lines first .. last, joined by newlines.                                *)
ExtractLines(lines, first, last) ==
  FlattenSeq([k \in 1 .. last - first + 1 |->
                IF k = 1 THEN lines[first] ELSE <<Newline>> \o lines[first + k - 1]])

IsBlank(text) == \A i \in 1 .. Len(text) : text[i] \in {Newline, " "}

(* A chunk is the lines it stands for and their text.                      *)
ChunkOf(file, first, last) ==
  [file |-> file.path, first |-> first, last |-> last, text |-> ExtractLines(file.lines, first, last)]

Smaller(a, b) == IF a < b THEN a ELSE b

(* Mutant: a window that is not full is dropped. *)
FullWindows(file, first, last) ==
  LET step == ChunkSize - Overlap
      from == InOrder({i \in first .. last : (i - first) % step = 0 /\ i + ChunkSize - 1 <= last})
  IN [k \in 1 .. Len(from) |-> ChunkOf(file, from[k], from[k] + ChunkSize - 1)]

(* FallbackSplitter.Split of lines first .. last: windows, the blank ones  *)
(* left out, up to the one that reaches the end.                           *)
Windows(file, first, last) ==
  LET step == ChunkSize - Overlap
      starts(i) == (i - first) % step = 0
      end(i) == Smaller(i + ChunkSize - 1, last)
      blank(i) == IsBlank(ExtractLines(file.lines, i, end(i)))
      kept(i) == /\ starts(i) /\ ~blank(i)
                 /\ \A j \in first .. i - 1 : starts(j) /\ end(j) = last => blank(j)
      from == InOrder({i \in first .. last : kept(i)})
  IN [k \in 1 .. Len(from) |-> ChunkOf(file, from[k], end(from[k]))]

(* walkNode: the outermost nodes of a type that makes a chunk.             *)
Declarations(file) ==
  LET inside(n, m) == m < n /\ n <= m + file.nodes[m].size - 1
      top(n) == /\ file.nodes[n].label
                /\ \A m \in 1 .. Len(file.nodes) : file.nodes[m].label => ~inside(n, m)
  IN InOrder({n \in 1 .. Len(file.nodes) : top(n)})

(* TreeSitterSplitter.Split: a chunk that is too long is split by lines; a *)
(* file without a grammar, or without declarations, is split as a whole.   *)
Split(file, maxChars) ==
  LET chunk(n) == ChunkOf(file, file.nodes[n].first, file.nodes[n].last)
      long(c) == c.last - c.first + 1 > MaxChunkLines \/ Len(c.text) > maxChars
      pieces(n) == IF long(chunk(n)) THEN Windows(file, chunk(n).first, chunk(n).last) ELSE <<chunk(n)>>
      decls == Declarations(file)
  IN IF decls = <<>> THEN Windows(file, 1, Len(file.lines))
     ELSE FlattenSeq([k \in 1 .. Len(decls) |-> pieces(decls[k])])

(* The chunks of all files that can be read.                               *)
Chunks(files, patterns, maxChars) ==
  LET walked == Walk(files, patterns)
      read == Kept(walked, {k \in 1 .. Len(walked) : walked[k].readable})
  IN FlattenSeq([k \in 1 .. Len(read) |-> Split(read[k], maxChars)])

-----------------------------------------------------------------------------
(* splitTextAtLines: pieces of at most maxChars, cut after the last        *)
(* newline of the window if it has one.                                    *)
SplitTextAtLines(text, maxChars) ==
  LET newlines(s) == {i \in s .. s + maxChars - 1 : text[i] = Newline}
      cut(s) == IF newlines(s) = {} THEN s + maxChars - 1 ELSE CHOOSE i \in newlines(s) : \A j \in newlines(s) : j <= i
      end == [s \in 1 .. Len(text) |-> IF Len(text) - s + 1 <= maxChars THEN Len(text) ELSE cut(s)]
  IN IF Len(text) <= maxChars THEN <<text>> ELSE Pieces(text, end)

(* embedFlat: requests of at most maxChars characters, or of one text.     *)
Requests(texts, maxChars) ==
  LET fits(s, e) == e = s \/ Len(FlattenSeq(SubSeq(texts, s, e))) <= maxChars
      end(s) == CHOOSE e \in s .. Len(texts) : fits(s, e) /\ (e = Len(texts) \/ ~fits(s, e + 1))
  IN Pieces(texts, [s \in 1 .. Len(texts) |-> end(s)])

Flat(texts, maxChars) == FlattenSeq([k \in 1 .. Len(texts) |-> SplitTextAtLines(texts[k], maxChars)])

(* Mutant: a text is taken to be one piece. *)
VectorsOfOnePiece(texts, maxChars) ==
  LET all == FlattenSeq(Requests(Flat(texts, maxChars), maxChars))
  IN [k \in 1 .. Len(texts) |-> <<all[k]>>]

(* EmbedBatch's answer, one vector per text: the server's vector of a      *)
(* piece is the piece, the mean of several is their sequence.              *)
Vectors(texts, maxChars) ==
  LET all == FlattenSeq(Requests(Flat(texts, maxChars), maxChars))
      count(k) == Len(SplitTextAtLines(texts[k], maxChars))
      start(k) == Len(Flat(SubSeq(texts, 1, k - 1), maxChars))
  IN [k \in 1 .. Len(texts) |-> SubSeq(all, start(k) + 1, start(k) + count(k))]

=============================================================================
