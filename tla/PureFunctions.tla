------------------------------ MODULE PureFunctions ------------------------------
(***************************************************************************)
(* The functions of the library that keep nothing between two calls, side  *)
(* by side: Sorting, StringView and OldStrings, UIntTypes, StaticBitset,   *)
(* Loops and Algorithms, Views, Pipelines, Iterators and Parsers. They     *)
(* share no state. A program uses one of them, and the others rest.        *)
(***************************************************************************)
EXTENDS Sorting, OldStrings, UIntTypes, StaticBitset, Loops, Views, Pipelines, Iterators, Parsers

VARIABLE used

functionVars == <<used, sorting, text, calc, asked, pass, seen, walk, its, parsed, bitset>>

Empty == [p \in {} |-> 0]

FunctionsInit ==
  /\ used \in {"sort", "string_view", "string_view1", "UInt", "algorithm", "loop", "view", "pipeline", "iterator", "parser",
              "bitset"}
  /\ IF used = "sort" THEN SortInit ELSE sorting = StartSort(Empty, "sort")
  /\ CASE used = "string_view" -> TextInit
       [] used = "string_view1" -> OldTextInit
       [] OTHER -> text = [Constructed(Empty, 0, FALSE) EXCEPT !.call = "unused"]
  /\ IF used = "UInt" THEN UIntInit ELSE calc = NumberOf([uint |-> "UInt", size |-> 8], 0)
  /\ IF used = "algorithm" THEN AlgorithmsUnasked ELSE asked = Unasked(<< >>, << >>, 0)
  /\ IF used = "loop" THEN LoopsInit ELSE pass = NoPass(<<>>, <<>>)
  /\ IF used = "view" THEN SeenInit ELSE seen = ViewOf("view", Empty, Part(0, 0))
  /\ IF used = "iterator" THEN IteratorsInit ELSE its = Pair("unused", <<>>, <<>>, 0, Spot(0, 0))
  /\ IF used = "parser" THEN ParsersInit ELSE parsed = Unparsed("unused", <<>>)
  /\ IF used = "bitset" THEN BitsetInit ELSE bitset = BitsetOf(0, <<>>)
  /\ IF used = "pipeline" THEN PipesInit ELSE walk = ViewOver("unused", <<<<>>>>, 0, {}, <<>>)

FunctionsNext ==
  /\ UNCHANGED used
  /\ \/ used = "sort" /\ SortNext /\ UNCHANGED <<text, calc, asked, seen, walk, its, parsed, pass, bitset>>
     \/ used = "string_view" /\ TextNext /\ UNCHANGED <<sorting, calc, asked, seen, walk, its, parsed, pass, bitset>>
     \/ used = "string_view1" /\ OldTextNext /\ UNCHANGED <<sorting, calc, asked, seen, walk, its, parsed, pass, bitset>>
     \/ used = "UInt" /\ UIntNext /\ UNCHANGED <<sorting, text, asked, seen, walk, its, parsed, pass, bitset>>
     \/ used = "algorithm" /\ AlgorithmsNext /\ UNCHANGED <<sorting, text, calc, seen, walk, its, parsed, pass, bitset>>
     \/ used = "loop" /\ LoopsNext /\ UNCHANGED <<sorting, text, calc, asked, seen, walk, its, parsed, bitset>>
     \/ used = "view" /\ SeenNext /\ UNCHANGED <<sorting, text, calc, asked, walk, its, parsed, pass, bitset>>
     \/ used = "pipeline" /\ PipesNext /\ UNCHANGED <<sorting, text, calc, asked, seen, its, parsed, pass, bitset>>
     \/ used = "iterator" /\ IteratorsNext /\ UNCHANGED <<sorting, text, calc, asked, seen, walk, parsed, pass, bitset>>
     \/ used = "parser" /\ ParsersNext /\ UNCHANGED <<sorting, text, calc, asked, seen, walk, its, pass, bitset>>
     \/ used = "bitset" /\ BitsetNext /\ UNCHANGED <<sorting, text, calc, asked, seen, walk, its, parsed, pass>>

FunctionsSpec == FunctionsInit /\ [][FunctionsNext]_functionVars

-------------------------------------------------------------------------------
(* Properties, besides those of the parts.                                 *)

(* Integers of any widths, and sets of bits across words, compute what     *)
(* their operators are named for: see ComputesModulo and BitsetsCompute.   *)
NumbersCompute == ComputesModulo /\ BitsetsCompute
================================================================================
