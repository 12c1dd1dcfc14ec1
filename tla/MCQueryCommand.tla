----------------------------- MODULE MCQueryCommand -----------------------------
EXTENDS QueryCommand, TLC

(* Two files of a package, a test of another, a generated one that is      *)
(* ignored.  Languages: 1 is go, 2 is typescript.                          *)
File(path, base, language) ==
  [path |-> path, base |-> base, test |-> FALSE, language |-> language, ignored |-> FALSE, scope |-> TRUE]
Files ==
  <<File(<<"a", "f">>, "f", 1), File(<<"a", "g">>, "g", 1),
    [File(<<"b", "h">>, "h", 2) EXCEPT !.test = TRUE, !.scope = FALSE],
    [File(<<"v", "z">>, "z", 2) EXCEPT !.ignored = TRUE]>>

Loc(file, line) == [file |-> file, line |-> line]
Text(file, line, says) == [file |-> file, line |-> line, says |-> says, call |-> says = "use"]
Name(of, base) == [of |-> of, base |-> base, wrapped |-> FALSE, signed |-> FALSE]
Symbol(name, kind, at) == [name |-> name, container |-> "", kind |-> kind, at |-> at]
Item(name, file, line) == [name |-> name, file |-> file, line |-> line]
Def(lines, class, parses) == [file |-> 1, line |-> 1, lines |-> lines, class |-> class, parses |-> parses]

(* f is called by a and b; a by c and an ignored one; c and b by x, x by y *)
(* and y by f.                                                             *)
Fun == Loc(1, 1)  CA == Loc(1, 2)  CB == Loc(1, 3)  CC == Loc(2, 1)  CX == Loc(2, 2)  CY == Loc(3, 1)
Graph ==
  [at \in {Fun, CA, CB, CC, CX, CY} |->
     IF at = Fun THEN <<CB, CA, CA>> ELSE IF at = CA THEN <<CC, Loc(4, 1)>>
     ELSE IF at \in {CB, CC} THEN <<CX>> ELSE IF at = CX THEN <<CY>> ELSE <<Fun>>]

Plain ==
  [files |-> Files, name |-> Name("", "f"),
   text |-> {Text(1, 1, "decl"), Text(1, 2, "use"), Text(1, 3, "use"), Text(2, 3, "import"), Text(4, 1, "use")},
   symbols |-> <<Symbol(Name("", "f"), "function", Fun), Symbol(Name("", "fg"), "function", CA)>>,
   refs |-> <<CB, CA, CA, Loc(4, 1)>>, items |-> <<CX, Fun>>, calls |-> Graph,
   types |-> <<>>, subtypes |-> <<>>, impls |-> <<Loc(2, 1), Loc(4, 1)>>,
   defs |-> <<Def(3, FALSE, FALSE)>>]

(* A type whose subtypes come twice; one whose subtypes are ignored.       *)
Type ==
  [Plain EXCEPT !.symbols = <<Symbol([Name("", "f") EXCEPT !.signed = TRUE], "class", Fun)>>,
                !.types = <<Item("f", 1, 1)>>,
                !.subtypes = <<Item("s", 2, 5), Item("s", 2, 4), Item("t", 4, 1)>>,
                !.defs = <<Def(9, TRUE, TRUE), Def(2, TRUE, TRUE)>>]
Hollow == [Type EXCEPT !.subtypes = <<Item("t", 4, 1)>>, !.defs = <<Def(9, TRUE, FALSE)>>,
                       !.symbols[1].kind = "interface"]

(* Methods found through their containers; a second in another directory.  *)
Methods ==
  [Plain EXCEPT !.name = Name("t", "f"), !.items = <<>>,
     !.symbols = <<Symbol([Name("t", "f") EXCEPT !.wrapped = TRUE], "method", Fun),
                   [Symbol(Name("", "f"), "method", CY) EXCEPT !.container = "t"],
                   Symbol(Name("u", "f"), "method", CA)>>]
Twice ==
  [Plain EXCEPT !.symbols = <<Symbol(Name("", "f"), "function", Fun), Symbol(Name("", "f"), "class", Loc(2, 4)),
                              Symbol(Name("", "f"), "function", CY)>>]

(* A server without context; one that reports the imports; one that        *)
(* reports something that is no file.                                      *)
Lost == [Plain EXCEPT !.refs = <<>>, !.calls = (Fun :> <<>>), !.defs = <<>>]
Imports == [Plain EXCEPT !.refs = <<Loc(2, 3)>>]
Odd ==
  [Plain EXCEPT !.refs = <<Loc(0, 1)>>, !.calls[CC] = <<Loc(0, 1)>>, !.types = <<Item("f", 1, 1)>>,
                !.subtypes = <<Item("s", 0, 1)>>]
Alien == [Plain EXCEPT !.symbols[1].at = Loc(0, 1), !.defs = <<Def(9, FALSE, FALSE)>>]
Afar == [Plain EXCEPT !.items = <<Loc(0, 1)>>, !.impls = <<Loc(0, 1)>>]

(* Symbols that are all ignored, a name that is nowhere, no language.      *)
Hidden == [Plain EXCEPT !.symbols = <<Symbol(Name("", "f"), "function", Loc(4, 1))>>, !.defs = <<>>]
Nothing == [Hidden EXCEPT !.text = {Text(4, 1, "use")}]
Notes == [Plain EXCEPT !.files = [f \in 1 .. 4 |-> [Files[f] EXCEPT !.language = 0]]]
Script == [Plain EXCEPT !.files = [f \in 1 .. 4 |-> [Files[f] EXCEPT !.language = 2]]]

MCWorlds ==
  <<Plain, Type, Hollow, Methods, Twice, Lost, Imports, Odd, Alien, Afar, Hidden, Nothing, Notes, Script>>

Cmd(op) ==
  [op |-> op, kind |-> "", depth |-> 1, budget |-> "auto", looks |-> {}, mode |-> "auto",
   path |-> "all", stat |-> "file", atRoot |-> TRUE]
MCCommands ==
  {[Cmd("refs") EXCEPT !.kind = k, !.path = p] : k \in {"", "function", "type"}, p \in {"all", "scope"}}
  \cup {[Cmd("refs") EXCEPT !.kind = "variable"]}
  \cup {[Cmd("callers") EXCEPT !.depth = d] : d \in {0, 2, 3, 4}}
  \cup {[Cmd("callers") EXCEPT !.path = "scope"], Cmd("warmup"), Cmd("implements"),
        [Cmd("implements") EXCEPT !.path = "scope"]}
  \cup {[Cmd("query") EXCEPT !.depth = 0, !.path = p] : p \in {"all", "relative"}}
  \cup {[Cmd("query") EXCEPT !.depth = 3, !.atRoot = FALSE], [Cmd("query") EXCEPT !.budget = "large", !.looks = {"cue"}],
        [Cmd("query") EXCEPT !.looks = {"space", "dots"}, !.depth = 2]}
  \cup {[Cmd("query") EXCEPT !.looks = l] : l \in {{"blank"}, {"space"}, {"brace"}, {"quote", "brace"}}}
  \cup {[Cmd("query") EXCEPT !.mode = "path", !.stat = s] : s \in {"dir", "file", "long", "missing"}}
  \cup {[Cmd("query") EXCEPT !.looks = {"slash"}]}
=============================================================================
