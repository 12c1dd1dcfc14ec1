------------------------------- MODULE MCIndexer -------------------------------
EXTENDS Indexer, TLC

CONSTANTS p1, p2

(* A file with a class of two methods and an import, one without a grammar *)
(* and with a blank window, one below a directory to leave out.            *)
Node(first, last, label, size) == [first |-> first, last |-> last, label |-> label, size |-> size]
Class ==
  [path |-> <<"a", "x">>, source |-> TRUE, readable |-> TRUE,
   lines |-> <<<<"i">>, <<"c">>, <<"m">>, <<>>, <<"n", "o">>, <<"d">>>>,
   nodes |-> <<Node(1, 6, FALSE, 5), Node(2, 5, TRUE, 3), Node(3, 3, TRUE, 1), Node(5, 5, TRUE, 1),
               Node(6, 6, TRUE, 1)>>]
Script ==
  [path |-> <<"b", "a", "y">>, source |-> TRUE, readable |-> TRUE,
   lines |-> <<<<"p">>, <<>>, <<>>, <<>>, <<"q">>>>, nodes |-> <<>>]
Hidden == [Script EXCEPT !.path = <<"g">>, !.source = FALSE]
Locked == [Script EXCEPT !.path = <<"l">>, !.readable = FALSE]

Spare == [path |-> <<"s">>, source |-> TRUE, readable |-> TRUE, lines |-> <<<<"s">>>>, nodes |-> <<>>]

MCTrees == <<<<Class, Script, Spare, Hidden>>, <<[Class EXCEPT !.nodes = <<>>], Locked>>>>
Literal(segs, anchored) == [mark |-> "", segs |-> segs, anchored |-> anchored, glob |-> FALSE]
MCRuleSets == <<{[Literal(<<{"a"}>>, FALSE) EXCEPT !.mark = "!"],
                 [Literal(<<{"s", "t"}>>, FALSE) EXCEPT !.glob = TRUE]},
                {Literal(<<{"b"}, {"a"}>>, TRUE), Literal(<<{"a"}, {"y"}>>, FALSE)}>>

ProcSymmetry == Permutations({p1, p2})
=============================================================================
