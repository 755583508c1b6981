-------------------------------- MODULE Parsers --------------------------------
(***************************************************************************)
(* The parsers: daw_parser_helper.h, daw_parser_addons.h,                  *)
(* daw_parser_helper_sv.h, daw_parse_to.h, daw_parse_args.h and            *)
(* daw_from_string.h. A character is its code; a predicate is the set of   *)
(* characters it holds for; an iterator is an offset. A program makes one  *)
(* call on one text. A call returns, throws, goes on for ever, or does     *)
(* what C++ leaves undefined.                                              *)
(***************************************************************************)
EXTENDS Integers, SequencesExt

CONSTANTS
  ParseLength   \* bound of this model: the longest text

ASSUME ParsersAssumption == ParseLength \in Nat

VARIABLE parsed \* the text, the call, its argument, and what came of it

Blank == 32
Quotation == 34
Comma == 44
Dash == 45
Zero == 48
Assign == 61
LetterA == 97
Escape == 92
Return == 13
LineFeed == 10
Numerals == Zero..(Zero + 9)

(* The integers of the model: int8_t and uint8_t.                          *)
Capacities ==
  {[signed |-> TRUE, digits |-> 7, digits10 |-> 2, lowest |-> -128, greatest |-> 127],
   [signed |-> FALSE, digits |-> 8, digits10 |-> 2, lowest |-> 0, greatest |-> 255]}

Returns(x) == [how |-> "returns", value |-> x]
Raises == [how |-> "throws", value |-> <<>>]
Undefined == [how |-> "undefined", value |-> <<>>]
ForEver == [how |-> "for ever", value |-> <<>>]

-------------------------------------------------------------------------------
(* daw_parser_helper.h: [first, last) of a text, and whether it was found. *)

Stretch(first, last, found) == [first |-> first, last |-> last, found |-> found]
Places(cs, f, set) == {p \in f..(Len(cs) - 1) : cs[p + 1] \in set}

Until(cs, f, set) ==
  LET ps == Places(cs, f, set) IN IF ps = {} THEN Stretch(f, Len(cs), FALSE) ELSE Stretch(f, Min(ps), TRUE)
UntilFalse(cs, f, set) == Until(cs, f, ToSet(cs) \ set)
UntilOrThrow(cs, f, set, strict) ==
  LET found == Until(cs, f, set) IN IF strict /\ ~found.found THEN Raises ELSE Returns(found)

(* value_in is true of what the container has not.                         *)
ValuesIn(set) == (0..127) \ set
UntilValues(cs, f, set) == Until(cs, f, ValuesIn(set))

UntilLastOf(cs, set) ==
  LET ps == Places(cs, 0, set) IN IF ps = {} THEN Until(cs, 0, set) ELSE Stretch(0, Max(ps), TRUE)

Expects(c, set) == IF c \in set THEN Returns(<<>>) ELSE Raises
(* assert_equal and assert_not_equal check the opposite of their names.    *)
AssertEqual(x, y) == IF x # y THEN Returns(<<>>) ELSE Raises
AssertNotEqual(x, y) == IF x = y THEN Returns(<<>>) ELSE Raises

(* The end is looked for from the start that was found, that included.     *)
FromTo(cs, start, until, strict) ==
  LET s == Until(cs, 0, start)
      f == Until(cs, s.last, until)
  IN IF ~s.found \/ (strict /\ ~f.found) THEN Raises ELSE Returns(Stretch(s.last, f.last, s.last # f.last))

(* split_on and split_if look on from the divider they have found.         *)
SplitOn(cs, set) ==
  IF Until(cs, 0, set).found THEN ForEver ELSE Returns(IF cs = <<>> THEN <<>> ELSE <<Len(cs)>>)

SkipWs(cs) == Stretch(UntilFalse(cs, 0, {Blank}).last, Len(cs), UntilFalse(cs, 0, {Blank}).found)
TrimLeft(cs) ==
  LET start == UntilFalse(cs, 0, {Blank}) IN Stretch(IF start.found THEN start.last ELSE 0, Len(cs), FALSE)
(* Up to the blank after the first word.                                   *)
TrimRight(cs, f) ==
  LET start == UntilFalse(cs, f, {Blank})
  IN IF start.found THEN Stretch(f, Until(cs, start.last, {Blank}).last, TRUE) ELSE Stretch(f, Len(cs), FALSE)
TrimBoth(cs) ==
  LET start == TrimLeft(cs)
      finish == TrimRight(cs, start.first)
  IN Stretch(start.first, finish.last, start.found \/ finish.found)

(* is_crlf keeps the last four characters it was asked about.              *)
CrlfMatch(cs, count) ==
  LET kept == SubSeq(cs, IF Len(cs) > 4 THEN Len(cs) - 3 ELSE 1, Len(cs))
  IN Len(kept) = 2 * count /\ \A i \in DOMAIN kept : kept[i] = IF i % 2 = 1 THEN Return ELSE LineFeed
CrlfAnswers(cs, count) == [i \in DOMAIN cs |-> CrlfMatch(SubSeq(cs, 1, i), count)]

Matched(cs, w) ==
  LET ps == {p \in 0..(Len(cs) - Len(w)) : IsPrefix(w, SubSeq(cs, p + 1, Len(cs)))}
  IN IF ps = {} \/ Min(ps) = Len(cs) THEN Stretch(0, Len(cs), FALSE) ELSE Stretch(0, Min(ps), TRUE)
BeginsWith(cs, w) == \A i \in DOMAIN w : i \in DOMAIN cs /\ cs[i] = w[i]

(* find_first_of_any: compares all but the first of the values from the    *)
(* second character on, and goes on from where they differ.                *)
RECURSIVE AnyFrom(_, _, _)
AnyFrom(cs, w, end) ==
  LET same == Max({k \in 0..(Len(w) - 1) : BeginsWith(SubSeq(cs, end + 1, Len(cs)), SubSeq(w, 2, k + 1))})
  IN CASE end >= Len(cs) -> Returns(Stretch(0, Len(cs), FALSE))
       [] end < Len(cs) /\ same = Len(w) - 1 -> Returns(Stretch(0, end + same, TRUE))
       [] end < Len(cs) /\ same < Len(w) - 1 -> IF same = 0 THEN ForEver ELSE AnyFrom(cs, w, end + same)
FindFirstOfAny(cs, w) ==
  IF Until(cs, 0, {w[1]}).found THEN AnyFrom(cs, w, 1) ELSE Returns(Until(cs, 0, {w[1]}))

-------------------------------------------------------------------------------
(* Integers. Arithmetic wraps; a digit too many is noticed by the number   *)
(* of characters only.                                                     *)

Wrapped(t, n) == ((n - t.lowest) % (t.greatest - t.lowest + 1)) + t.lowest
Gathered(t, ds) == FoldLeft(LAMBDA r, c : Wrapped(t, Wrapped(t, r * 10) + Wrapped(t, c - Zero)), 0, ds)
Unsigned(cs) == IF cs # <<>> /\ cs[1] = Dash THEN SubSeq(cs, 2, Len(cs)) ELSE cs
WithSign(t, n, neg) == IF neg THEN Wrapped(t, -n) ELSE n

(* converters::parse_int. Up to digits characters: those of a binary number.*)
ParseInt(t, cs) ==
  LET neg == cs[1] = Dash
      ds == Unsigned(cs)
      read == Min({t.digits, UntilFalse(ds, 0, Numerals).last})
  IN IF (neg /\ ~t.signed) \/ read < Len(ds) THEN Raises
     ELSE Returns(WithSign(t, Gathered(t, ds), neg))

(* parser::parse_unsigned_int and parse_int: no look at what they read.    *)
ReadUnsigned(t, cs) ==
  IF cs = <<>> THEN Undefined
  ELSE IF cs[1] = Dash \/ Len(cs) > t.digits10 THEN Raises ELSE Returns(Gathered(t, cs))
ReadInt(t, cs) ==
  LET neg == cs # <<>> /\ cs[1] = Dash
      rest == ReadUnsigned(t, Unsigned(cs))
  IN IF neg /\ ~t.signed THEN Raises
     ELSE IF rest.how # "returns" THEN rest ELSE Returns(WithSign(t, rest.value, neg))

(* from_string, by std::from_chars: as far as the number goes; none if     *)
(* there is no number, or one that the type does not have.                 *)
FromString(t, cs) ==
  LET ds == IF t.signed THEN Unsigned(cs) ELSE cs
      n == Gathered([lowest |-> 0, greatest |-> 1000000], SubSeq(ds, 1, UntilFalse(ds, 0, Numerals).last))
      v == IF ds # cs THEN -n ELSE n
  IN IF UntilFalse(ds, 0, Numerals).last = 0 \/ v \notin t.lowest..t.greatest THEN <<>> ELSE <<v>>

(* find_number stops before the first digit, and takes that as well (or a  *)
(* second decimal point, which no text here has).                          *)
FindNumber(cs) ==
  LET x == FromTo(cs, Numerals \cup {Dash}, Numerals, FALSE)
  IN IF x.how = "throws" THEN x
     ELSE IF x.value.last = Len(cs) THEN Undefined ELSE Returns([x.value EXCEPT !.last = @ + 1])

-------------------------------------------------------------------------------
(* Texts in quotes.                                                        *)

(* The first quotation mark after p that no escape precedes.               *)
Closing(cs, p) == {q \in p..(Len(cs) - 1) : cs[q + 1] = Quotation /\ cs[q] # Escape}

(* parse_string_literal. The loop ends at the end as well, with found from *)
(* the last character.                                                     *)
ParseStringLiteral(cs) ==
  IF cs = <<>> THEN Undefined
  ELSE LET end == Closing(cs, 1)
       IN IF cs[1] # Quotation \/ (end = {} /\ (Len(cs) = 1 \/ Last(cs) # Quotation)) THEN Raises
          ELSE Returns(Stretch(1, IF end = {} THEN Len(cs) ELSE Min(end), TRUE))

(* parse_to_value( string_view ): the first character in quotes is taken   *)
(* whatever it is. Without an end, the character behind the text is read.  *)
ParseQuoted(cs) ==
  IF Len(cs) <= 2 \/ cs[1] # Quotation THEN Raises
  ELSE IF Closing(cs, 2) = {} THEN Undefined ELSE Returns(SubSeq(cs, 2, Min(Closing(cs, 2))))

-------------------------------------------------------------------------------
(* parse_to: N pieces by a splitter, each then converted.                  *)

NoPlace == 1000

(* Mutant of Delimited: every delimiter is one character long.             *)
DelimitedByOne(cs, w) ==
  LET x == Matched(cs, w) IN IF x.found THEN Stretch(x.last, x.last + 1, TRUE) ELSE Stretch(NoPlace, NoPlace, FALSE)
Delimited(cs, w) ==
  LET x == Matched(cs, w) IN IF x.found THEN Stretch(x.last, x.last + Len(w), TRUE) ELSE Stretch(NoPlace, NoPlace, FALSE)

WhitespaceSplit(cs, multiple) ==
  LET x == Until(cs, 0, {Blank})
  IN IF ~x.found THEN Stretch(NoPlace, NoPlace, FALSE)
     ELSE Stretch(x.last, IF multiple THEN UntilFalse(cs, x.last, {Blank}).last ELSE x.last + 1, TRUE)

SplitBy(cs, splitter) ==
  IF splitter.w = <<>> THEN WhitespaceSplit(cs, splitter.multiple) ELSE Delimited(cs, splitter.w)

RECURSIVE GetPositions(_, _, _)
GetPositions(cs, n, splitter) ==
  IF n = 0 THEN <<>>
  ELSE LET pos == SplitBy(cs, splitter)
       IN <<SubSeq(cs, 1, Min({pos.first, Len(cs)}))>> \o
            GetPositions(SubSeq(cs, Min({pos.last, Len(cs)}) + 1, Len(cs)), n - 1, splitter)

ParseToValue(type, cs) ==
  CASE cs = <<>> -> Raises
    [] cs # <<>> /\ type = "char" -> Returns(cs[1])
    [] cs # <<>> /\ type = "string_view" -> ParseQuoted(cs)
    [] cs # <<>> /\ type = "unquoted" -> Returns(cs)
    [] cs # <<>> /\ type \notin {"char", "string_view", "unquoted"} ->
         ParseInt(CHOOSE t \in Capacities : t.signed = (type = "signed"), cs)

(* All or none; construct_from, apply_string and values_from_stream then   *)
(* pass them on.                                                           *)
ParseTo(types, cs, splitter) ==
  LET items == GetPositions(cs, Len(types), splitter)
      values == [i \in DOMAIN types |-> ParseToValue(types[i], items[i])]
  IN IF \A i \in DOMAIN values : values[i].how = "returns" THEN Returns([i \in DOMAIN values |-> values[i].value])
     ELSE IF \E i \in DOMAIN values : values[i].how = "undefined" THEN Undefined ELSE Raises

(* values_from_stream: the rest of the stream, which is then at its end; of *)
(* a stream that has its text in str( ), all the text, whatever was read of *)
(* it, and the stream stays where it is.                                   *)
StreamText(cs, at, hasStr) == IF hasStr THEN cs ELSE SubSeq(cs, at + 1, Len(cs))
FromStream(types, cs, at, splitter, hasStr) ==
  [values |-> ParseTo(types, StreamText(cs, at, hasStr), splitter), at |-> IF hasStr THEN at ELSE Len(cs)]

-------------------------------------------------------------------------------
(* parse_args: --name=value, --name or a value.                            *)

Unquoted(cs) == IF cs # <<>> /\ cs[1] = Quotation /\ Last(cs) = Quotation THEN SubSeq(cs, 2, Len(cs) - 1) ELSE cs
Argument(cs) ==
  IF ~BeginsWith(cs, <<Dash, Dash>>) THEN [name |-> <<>>, value |-> Unquoted(cs)]
  ELSE LET eq == Until(cs, 2, {Assign})
       IN [name |-> SubSeq(cs, 3, eq.last), value |-> Unquoted(SubSeq(cs, eq.last + 2, Len(cs)))]
Arguments(argv) == [i \in DOMAIN argv |-> Argument(argv[i])]

ArgumentPosition(args, name) == {i \in DOMAIN args : args[i].name = name /\ \A j \in 1..(i - 1) : args[j].name # name}
FirstNamed(args) == {i \in DOMAIN args : args[i].name # <<>> /\ \A j \in 1..(i - 1) : args[j].name = <<>>}

-------------------------------------------------------------------------------
(* daw_parser_helper_sv.h.                                                 *)

FirstOfView(cs, set) == Until(cs, 0, set).last
CutLeft(cs) == SubSeq(cs, UntilFalse(cs, 0, {Blank}).last + 1, Len(cs))
CutRight(cs) == SubSeq(cs, 1, Max({0} \cup {i \in DOMAIN cs : cs[i] # Blank}))
CutBoth(cs) == CutRight(CutLeft(cs))

-------------------------------------------------------------------------------
(* The program: a text of some kind, and a call that is made for such.     *)

Texts(alphabet, n) == UNION {[1..l -> alphabet] : l \in 0..n}
Unparsed(topic, cs) == [topic |-> topic, cs |-> cs, call |-> "none", arg |-> <<>>, result |-> Returns(<<>>)]

ParsersInit ==
  \/ \E cs \in Texts({LetterA, LetterA + 1}, ParseLength) : parsed = Unparsed("letters", cs)
  \/ \E cs \in Texts({LetterA, Blank}, ParseLength) : parsed = Unparsed("words", cs)
  \/ \E cs \in Texts({Zero, Zero + 2, Zero + 9, Dash, LetterA}, 4) \cup Texts({Zero + 2}, 9) :
       parsed = Unparsed("numbers", cs)
  \/ \E cs \in Texts({LetterA, Quotation, Escape}, ParseLength) : parsed = Unparsed("quotes", cs)
  \/ \E cs \in Texts({Return, LineFeed}, ParseLength + 1) : parsed = Unparsed("lines", cs)
  \/ \E cs \in Texts({LetterA, Zero + 2, Comma, Blank, Dash}, ParseLength) : parsed = Unparsed("fields", cs)
  \/ \E cs \in Texts({LetterA, Quotation, Dash, Assign}, ParseLength) : parsed = Unparsed("options", cs)

Reply(topic, call, arg, result) ==
  /\ parsed.topic = topic
  /\ parsed' = [parsed EXCEPT !.call = call, !.arg = arg, !.result = result]

Sets == SUBSET {LetterA, LetterA + 1}
Needles == Texts({LetterA, LetterA + 1}, 2)

FindPieces ==
  LET cs == parsed.cs IN
  \/ \E set \in Sets, strict \in BOOLEAN :
       Reply("letters", "until", [set |-> set, strict |-> strict], UntilOrThrow(cs, 0, set, strict))
  \/ \E set \in Sets :
       \/ Reply("letters", "until_false", set, Returns(UntilFalse(cs, 0, set)))
       \/ Reply("letters", "until_values", set, Returns(UntilValues(cs, 0, set)))
       \/ Reply("letters", "split_on", set, SplitOn(cs, set))
       \/ Reply("letters", "find_first_of", set, Returns(FirstOfView(cs, set)))
  \/ \E c \in {LetterA, LetterA + 1} : Reply("letters", "until_last_of", c, Returns(UntilLastOf(cs, {c})))
  \/ \E start, until \in Sets, strict \in BOOLEAN :
       Reply("letters", "from_to", [start |-> start, until |-> until, strict |-> strict], FromTo(cs, start, until, strict))
  \/ \E w \in Needles :
       \/ Reply("letters", "matcher", w, Returns(Matched(cs, w)))
       \/ Reply("letters", "starts_with", w, Returns(BeginsWith(cs, w)))
       \/ w # <<>> /\ Reply("letters", "find_first_of_any", w, FindFirstOfAny(cs, w))

Expect ==
  LET cs == parsed.cs IN
  /\ cs # <<>>
  /\ \/ \E set \in Sets : Reply("letters", "expect", set, Expects(cs[1], set))
     \/ Reply("letters", "assert_equal", <<>>, AssertEqual(cs[1], Last(cs)))
     \/ Reply("letters", "assert_not_equal", <<>>, AssertNotEqual(cs[1], Last(cs)))

Trim ==
  LET cs == parsed.cs IN
  \/ Reply("words", "skip_ws", <<>>, Returns(SkipWs(cs)))
  \/ Reply("words", "trim_left", <<>>, Returns(TrimLeft(cs)))
  \/ Reply("words", "trim_right", <<>>, Returns(TrimRight(cs, 0)))
  \/ Reply("words", "trim", <<>>, Returns(TrimBoth(cs)))
  \/ Reply("words", "trim of a view", <<>>, Returns([left |-> CutLeft(cs), right |-> CutRight(cs), both |-> CutBoth(cs)]))
  \/ \E count \in 1..2 : Reply("lines", "is_crlf", count, Returns(CrlfAnswers(cs, count)))

ReadNumber ==
  LET cs == parsed.cs IN
  \/ \E t \in Capacities :
       \/ cs # <<>> /\ Reply("numbers", "parse_int", t, ParseInt(t, cs))
       \/ Reply("numbers", "read_int", t, ReadInt(t, cs))
       \/ Reply("numbers", "from_string", t, Returns(FromString(t, cs)))
  \/ Reply("numbers", "find_number", <<>>, FindNumber(cs))

ReadQuoted ==
  \/ Reply("quotes", "parse_string_literal", <<>>, ParseStringLiteral(parsed.cs))
  \/ Reply("quotes", "parse_to_value", <<>>, ParseQuoted(parsed.cs))

Splitters ==
  {[w |-> w, multiple |-> FALSE] : w \in {<<Comma>>, <<Comma, Comma>>, <<Comma, Blank>>}}
    \cup {[w |-> <<>>, multiple |-> m] : m \in BOOLEAN}
ReadFields ==
  \E splitter \in Splitters,
     types \in {<<"unquoted", "unquoted">>, <<"char", "unsigned">>, <<"unquoted", "signed", "unquoted">>} :
    Reply("fields", "parse_to", [splitter |-> splitter, types |-> types], ParseTo(types, parsed.cs, splitter))

ReadStream ==
  \E at \in 0..Min({1, Len(parsed.cs)}), hasStr \in BOOLEAN :
    LET splitter == [w |-> <<Comma>>, multiple |-> FALSE]
        types == <<"unquoted", "char">>
    IN Reply("fields", "values_from_stream", [splitter |-> splitter, types |-> types, at |-> at, hasStr |-> hasStr],
             Returns(FromStream(types, parsed.cs, at, splitter, hasStr)))

ReadOptions ==
  LET args == Arguments(<<parsed.cs, <<Dash, Dash, LetterA>>>>)
      x(name) == ArgumentPosition(args, name)
  IN Reply("options", "Arguments", <<>>,
           Returns([args |-> args, named |-> FirstNamed(args), a |-> x(<<LetterA>>), unnamed |-> x(<<>>)]))

ParsersNext ==
  /\ parsed.call = "none"
  /\ FindPieces \/ Expect \/ Trim \/ ReadNumber \/ ReadQuoted \/ ReadFields \/ ReadStream \/ ReadOptions

-------------------------------------------------------------------------------
(* Properties.                                                             *)

Asks(call) == parsed.call = call
IsReturned == parsed.result.how = "returns"
Covered(x) == SubSeq(parsed.cs, x.first + 1, x.last)

(* A piece ends before the first character that ends it, and at the end if *)
(* there is none; a search for a sequence ends at its first occurrence.    *)
(* Where the code does otherwise the property says so: value_in is         *)
(* inverted; from_to gives nothing if the start also ends it; split_on     *)
(* ends only where there is nothing to split; find_first_of_any is right   *)
(* only of a text of several characters that begins with the values.       *)
PiecesEnd ==
  LET cs == parsed.cs
      arg == parsed.arg
      how == parsed.result.how
      x == parsed.result.value
      Ends(p, set, from) == /\ p.first = from /\ ToSet(SubSeq(cs, from + 1, p.last)) \cap set = {}
                            /\ p.last < Len(cs) => cs[p.last + 1] \in set
      Occurring(w) == {p \in 0..(Len(cs) - Len(w)) : SubSeq(cs, p + 1, p + Len(w)) = w}
  IN /\ Asks("until") => IF IsReturned THEN Ends(x, arg.set, 0) /\ (x.found <=> x.last < Len(cs))
                           ELSE arg.strict /\ ToSet(cs) \cap arg.set = {}
     /\ Asks("until_false") => Ends(x, ToSet(cs) \ arg, 0)
     /\ Asks("until_values") => Ends(x, ToSet(cs) \ arg, 0)
     /\ Asks("find_first_of") => Ends(Stretch(0, x, TRUE), arg, 0)
     /\ Asks("until_last_of") => IF ~x.found THEN arg \notin ToSet(cs)
                                   ELSE cs[x.last + 1] = arg /\ arg \notin ToSet(SubSeq(cs, x.last + 2, Len(cs)))
     /\ Asks("from_to") =>
          IF how = "throws" THEN \A p \in DOMAIN cs : cs[p] \in arg.start => arg.strict /\ \E q \in 1..p :
                                   cs[q] \in arg.start /\ ToSet(SubSeq(cs, q, Len(cs))) \cap arg.until = {}
          ELSE /\ cs[x.first + 1] \in arg.start /\ ToSet(SubSeq(cs, 1, x.first)) \cap arg.start = {}
               /\ Ends(x, arg.until, x.first) /\ (x.found <=> cs[x.first + 1] \notin arg.until)
     /\ Asks("split_on") => (how = "for ever" <=> ToSet(cs) \cap arg # {})
     /\ Asks("matcher") => IF x.found THEN x.last \in Occurring(arg) /\ \A p \in Occurring(arg) : x.last <= p
                             ELSE Occurring(arg) = {} \/ cs = <<>>
     /\ Asks("starts_with") => (x <=> 0 \in Occurring(arg))
     /\ Asks("find_first_of_any") => (0 \in Occurring(arg) /\ Len(cs) > 1 => how = "returns" /\ x = Stretch(0, Len(arg), TRUE))

(* What trimming takes away is blank, and what it leaves of a view has a   *)
(* letter at its ends; trim_right takes all after the first word, and      *)
(* nothing is taken of a text that is all blank. is_crlf for two line ends *)
(* knows them wherever they are, for one only at the beginning.            *)
TrimsBlanks ==
  LET cs == parsed.cs
      x == parsed.result.value
      AllBlank(s) == ToSet(s) \subseteq {Blank}
      Inner(s, l, r) == (l /\ s # <<>> => s[1] # Blank) /\ (r /\ s # <<>> => Last(s) # Blank)
      Outside(s, l, r) == \E i, j \in 0..Len(cs) : /\ SubSeq(cs, i + 1, Len(cs) - j) = s
                                                   /\ (l \/ i = 0) /\ (r \/ j = 0)
                                                   /\ AllBlank(SubSeq(cs, 1, i) \o SubSeq(cs, Len(cs) - j + 1, Len(cs)))
  IN /\ Asks("skip_ws") => x.last = Len(cs) /\ AllBlank(SubSeq(cs, 1, x.first)) /\ Inner(Covered(x), TRUE, FALSE)
     /\ Asks("trim_left") => IF AllBlank(cs) THEN Covered(x) = cs
                               ELSE x.last = Len(cs) /\ AllBlank(SubSeq(cs, 1, x.first)) /\ Inner(Covered(x), TRUE, FALSE)
     /\ parsed.call \in {"trim_right", "trim"} =>
          IF AllBlank(cs) THEN Covered(x) = cs /\ ~x.found
          ELSE /\ x.found /\ AllBlank(SubSeq(cs, 1, x.first)) /\ Inner(Covered(x), Asks("trim"), TRUE)
               /\ x.last < Len(cs) => cs[x.last + 1] = Blank
               /\ Asks("trim") => Blank \notin ToSet(Covered(x))
     /\ Asks("trim of a view") => /\ Inner(x.left, TRUE, FALSE) /\ Outside(x.left, TRUE, FALSE)
                                    /\ Inner(x.right, FALSE, TRUE) /\ Outside(x.right, FALSE, TRUE)
                                    /\ Inner(x.both, TRUE, TRUE) /\ Outside(x.both, TRUE, TRUE)
     /\ Asks("is_crlf") =>
          LET line == <<Return, LineFeed>> IN
          \A i \in DOMAIN cs :
            x[i] <=> IF parsed.arg = 2 THEN i >= 4 /\ SubSeq(cs, i - 3, i) = line \o line
                     ELSE i = 2 /\ SubSeq(cs, 1, 2) = line

IsNumeral(ds) == ds # <<>> /\ ToSet(ds) \subseteq Numerals
ValueOf(ds) == FoldLeft(LAMBDA n, d : 10 * n + d - Zero, 0, ds)
NumberIn(cs) == IF cs # Unsigned(cs) THEN -ValueOf(Unsigned(cs)) ELSE ValueOf(cs)

(* A number that the type has is read as it is, and what is no number is   *)
(* refused; from_string takes a number at the beginning of a text, and     *)
(* refuses one the type does not have. The parsers do not: they go round.  *)
(* They also take a sign alone for 0 (parse_int), and anything at all for  *)
(* a digit (parse_unsigned_int of the addons), in up to digits10 places.   *)
NumbersRead ==
  LET cs == parsed.cs
      t == parsed.arg
      x == parsed.result.value
      ds == Unsigned(cs)
      signedRight == t.signed \/ ds = cs
      Fits(n) == n \in t.lowest..t.greatest
      Sane(n) == (n - x) % (t.greatest - t.lowest + 1) = 0 /\ Fits(x) /\ (Fits(n) => x = n)
  IN /\ Asks("parse_int") =>
          IF signedRight /\ (IsNumeral(ds) \/ cs = <<Dash>>) /\ Len(ds) <= t.digits THEN IsReturned /\ Sane(NumberIn(cs))
          ELSE parsed.result.how = "throws"
     /\ Asks("read_int") =>
          /\ IsNumeral(ds) => (IsReturned <=> signedRight /\ Len(ds) <= t.digits10)
          /\ IsReturned /\ IsNumeral(ds) => x = NumberIn(cs)
          /\ Len(ds) > t.digits10 => ~IsReturned
     /\ Asks("from_string") =>
          LET heads == {n \in DOMAIN cs : IsNumeral(Unsigned(SubSeq(cs, 1, n))) /\ (t.signed \/ ds = cs)}
              n == NumberIn(SubSeq(cs, 1, Max(heads)))
          IN IF heads = {} THEN x = <<>> ELSE x = IF Fits(n) THEN <<n>> ELSE <<>>
     /\ Asks("find_number") /\ IsReturned =>
          LET got == Covered(x) IN
          /\ ToSet(SubSeq(cs, 1, x.first)) \cap (Numerals \cup {Dash}) = {}
          /\ got[1] \in Numerals => Len(got) = 1

(* What stands in quotes is returned as it stands: it ends at the first    *)
(* quotation mark that no escape precedes. A text without an end is        *)
(* refused, or (parse_string_literal) taken if its last character is an    *)
(* escaped quotation mark; one that is empty is refused.                   *)
QuotesRead ==
  LET cs == parsed.cs
      x == parsed.result.value
      Inside(from, s) == \A i \in from..Len(s) : s[i] = Quotation => i > 1 /\ s[i - 1] = Escape
  IN /\ Asks("parse_string_literal") /\ IsReturned =>
          /\ cs[1] = Quotation /\ Inside(1, Covered(x))
          /\ x.last < Len(cs) => cs[x.last + 1] = Quotation
          /\ x.last = Len(cs) => Last(cs) = Quotation
     /\ Asks("parse_to_value") /\ IsReturned =>
          /\ BeginsWith(cs, <<Quotation>> \o x \o <<Quotation>>)
          /\ x # <<>> /\ Last(x) # Escape /\ Inside(2, x)

(* The pieces, with a delimiter between each and the next, are the         *)
(* beginning of a text; those that its end leaves no room for are empty.   *)
RECURSIVE MadeOf(_, _, _)
MadeOf(rest, ps, delims) ==
  \/ ps = <<>>
  \/ Len(ps) = 1 /\ IsPrefix(ps[1], rest)
  \/ rest = ps[1] /\ \A i \in 2..Len(ps) : ps[i] = <<>>
  \/ \E d \in delims : /\ IsPrefix(ps[1] \o d, rest)
                       /\ MadeOf(SubSeq(rest, Len(ps[1] \o d) + 1, Len(rest)), Tail(ps), delims)

(* The pieces of parse_to, put together again with what was between them,  *)
(* are the beginning of the text; no piece holds a delimiter; and all      *)
(* values are what they say, or none is given.                             *)
FieldsRead ==
  LET arg == parsed.arg
      delims == IF arg.splitter.w # <<>> THEN {arg.splitter.w}
                ELSE IF arg.splitter.multiple THEN {[i \in 1..n |-> Blank] : n \in 1..Len(parsed.cs)} ELSE {<<Blank>>}
      Holds2(s, w) == \E p \in 1..(Len(s) - Len(w) + 1) : SubSeq(s, p, p + Len(w) - 1) = w
      Read(cs, values) ==
        LET items == GetPositions(cs, Len(arg.types), arg.splitter) IN
        /\ MadeOf(cs, items, delims)
        /\ \A i \in DOMAIN items : \A d \in delims : ~Holds2(items[i], d)
        /\ values.how = "returns" =>
             \A i \in DOMAIN items : items[i] # <<>> /\ (arg.types[i] = "unquoted" => values.value[i] = items[i])
        /\ values.how # "undefined"
  IN /\ Asks("parse_to") => Read(parsed.cs, parsed.result)
     /\ Asks("values_from_stream") =>
          LET x == parsed.result.value IN
          /\ Read(IF arg.hasStr THEN parsed.cs ELSE SubSeq(parsed.cs, arg.at + 1, Len(parsed.cs)), x.values)
          /\ x.at = arg.at <=> arg.hasStr \/ parsed.cs = SubSeq(parsed.cs, 1, arg.at)

(* An argument is its name and its value, put together again; a lookup     *)
(* gives the first of that name.                                           *)
OptionsRead ==
  LET cs == parsed.cs
      x == parsed.result.value
      first == x.args[1]
      quoted == <<Quotation>> \o first.value \o <<Quotation>>
      name == <<Dash, Dash>> \o first.name
      options == IF BeginsWith(cs, <<Dash, Dash>>)
                 THEN {name} \cup {name \o <<Assign>> \o v : v \in {first.value, quoted}}
                 ELSE {first.value, quoted}
  IN Asks("Arguments") =>
       /\ cs \in options \/ (first.value = <<>> /\ Last(cs) = Quotation)
       /\ Assign \notin ToSet(first.name)
       /\ x.a = (IF first.name = <<LetterA>> THEN {1} ELSE {2})
       /\ x.named = (IF first.name # <<>> THEN {1} ELSE {2})
       /\ x.unnamed = (IF first.name = <<>> THEN {1} ELSE {})

(* All of these.                                                           *)
ParsesRight == PiecesEnd /\ TrimsBlanks /\ NumbersRead /\ QuotesRead /\ FieldsRead /\ OptionsRead
===============================================================================
