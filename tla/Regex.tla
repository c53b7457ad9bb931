-------------------------------- MODULE Regex --------------------------------
(* Regular expressions in native-core/shim/native_shim.c: a pattern is        *)
(* compiled to tokens without alternatives or repeated groups, and matched by *)
(* backtracking, the longest repetition first.  Searching, replacing (which   *)
(* measures in a first pass what it writes in a second), finding and          *)
(* splitting are built on one search.  Offsets count from zero.               *)
EXTENDS Integers, Sequences, FiniteSets

CONSTANTS
  Piece,        \* the pieces a pattern is built from: sequences of symbols
  MaxPieces,    \* bound: the pieces of a pattern
  SourceSymbol, MaxSource,  \* bound: the texts patterns are applied to
  Replacements, \* the texts put in place of a match
  Ordinal,      \* the order of symbols, for the ranges of a class
  MaxTokens, MaxCaptures,   \* NATIVE_REGEX_MAX_TOKENS, NATIVE_REGEX_MAX_CAPTURES
  Endless       \* bound: stands for UINT64_MAX as a count of repetitions

VARIABLE pieces  \* the pattern that is being built

regexVars == <<pieces>>
RegexInit == pieces = <<>>
AppendPiece ==
  Len(pieces) < MaxPieces /\ \E p \in Piece : pieces' = Append(pieces, p)

Digit == {"0", "1", "2"}
Space == {" "}
DigitNumber(symbol) == IF symbol = "0" THEN 0 ELSE IF symbol = "1" THEN 1 ELSE 2
Sources == UNION {[1..n -> SourceSymbol] : n \in 0..MaxSource}

-----------------------------------------------------------------------------
(* Compiling.  A step takes one token, with what repeats it, off the pattern; *)
(* `length' is what it used, or Broken.                                       *)
Broken == -1
Simple(kind, length) ==
  [kind |-> kind, literal |-> "", members |-> <<>>, negated |-> FALSE,
   capture |-> 0, minimum |-> 1, maximum |-> 1, length |-> length]
BrokenToken == Simple("literal", Broken)
FirstFrom(text, i, symbol) ==
  LET places == {j \in i..Len(text) : text[j] = symbol}
  IN  IF places = {} THEN Broken ELSE CHOOSE j \in places : \A k \in places : j <= k

(* A `)' closes the group opened last, whether or not it is closed already.   *)
LastOpened(tokens, captures) ==
  LET opened == {i \in DOMAIN tokens : tokens[i].kind = "open" /\ tokens[i].capture <= captures}
  IN  IF opened = {} THEN captures
      ELSE tokens[CHOOSE i \in opened : \A j \in opened : j <= i].capture

EscapeToken(text) ==
  IF Len(text) < 2 THEN BrokenToken
  ELSE CASE text[2] = "d" -> Simple("digit", 2)
         [] text[2] = "s" -> Simple("space", 2)
         [] text[2] = "S" -> Simple("nonspace", 2)
         [] OTHER -> [Simple("literal", 2) EXCEPT !.literal = text[2]]
ClassToken(text) ==
  LET negated == Len(text) >= 2 /\ text[2] = "^"
      start == IF negated THEN 3 ELSE 2
      close == FirstFrom(text, start, "]")
  IN  IF close = Broken THEN BrokenToken
      ELSE [Simple("class", close) EXCEPT !.negated = negated,
                                          !.members = SubSeq(text, start, close - 1)]
AtomToken(text) ==
  CASE text[1] = "[" -> ClassToken(text)
    [] text[1] = "\\" -> EscapeToken(text)
    [] text[1] = "." -> Simple("any", 1)
    [] OTHER -> [Simple("literal", 1) EXCEPT !.literal = text[1]]

(* What follows an atom and repeats it; an exact count is read as a number.   *)
Counted(text) ==
  LET digits == {n \in 1..Len(text) : \A i \in 2..n : text[i] \in Digit}
      last == CHOOSE n \in digits : \A m \in digits : m <= n
      value[i \in 1..last] == IF i = 1 THEN 0 ELSE (value[i - 1] * 10) + DigitNumber(text[i])
  IN  IF last = 1 \/ last = Len(text) \/ text[last + 1] # "}" THEN Broken
      ELSE value[last]
Repeated(token, pattern) ==
  LET text == SubSeq(pattern, token.length + 1, Len(pattern))
      plus == [token EXCEPT !.maximum = Endless, !.length = @ + 1]
      exact == Counted(text)
  IN  IF token.length \in {Broken, Len(pattern)} THEN token
      ELSE CASE text[1] = "+" -> plus
             [] text[1] = "*" -> [plus EXCEPT !.minimum = 0]
             [] text[1] = "?" -> [token EXCEPT !.minimum = 0, !.length = @ + 1]
             [] text[1] = "{" ->
                  IF exact = Broken THEN BrokenToken
                  ELSE [token EXCEPT !.minimum = exact, !.maximum = exact,
                                     !.length = @ + FirstFrom(text, 1, "}")]
             [] OTHER -> token

Program(tokens, captures, anchored, ok) ==
  [tokens |-> tokens, captures |-> captures, anchored |-> anchored, ok |-> ok]
RECURSIVE CompileFrom(_, _)
CompileFrom(text, program) ==
  LET captures == program.captures
      opening == text[1] = "("
      token ==
        CASE opening -> [Simple("open", 1) EXCEPT !.capture = captures + 1]
          [] text[1] = ")" ->
               [Simple("close", 1) EXCEPT !.capture = LastOpened(program.tokens, captures)]
          [] text[1] = "^" -> Simple("begin", 1)
          [] text[1] = "$" -> Simple("end", 1)
          [] OTHER -> Repeated(AtomToken(text), text)
      next == Program(Append(program.tokens, token),
                      captures + (IF opening THEN 1 ELSE 0),
                      program.anchored \/ token.kind = "begin", TRUE)
      refused == [program EXCEPT !.ok = FALSE]
  IN  IF text = <<>> THEN program
      ELSE IF opening /\ captures + 1 >= MaxCaptures THEN refused
      ELSE IF token.length = Broken \/ Len(program.tokens) >= MaxTokens THEN refused
      ELSE CompileFrom(SubSeq(text, token.length + 1, Len(text)), next)
Compile(text) == CompileFrom(text, Program(<<>>, 0, FALSE, TRUE))

-----------------------------------------------------------------------------
(* Matching.                                                                  *)
RECURSIVE InClass(_, _)
InClass(members, symbol) ==
  /\ members # <<>>
  /\ IF Len(members) >= 3 /\ members[2] = "-"
     THEN \/ Ordinal[symbol] \in Ordinal[members[1]]..Ordinal[members[3]]
          \/ InClass(SubSeq(members, 4, Len(members)), symbol)
     ELSE symbol = members[1] \/ InClass(Tail(members), symbol)
AtomMatches(token, symbol) ==
  CASE token.kind = "literal" -> symbol = token.literal
    [] token.kind = "any" -> TRUE
    [] token.kind = "class" -> InClass(token.members, symbol) # token.negated
    [] token.kind = "digit" -> symbol \in Digit
    [] token.kind = "space" -> symbol \in Space
    [] token.kind = "nonspace" -> symbol \notin Space

NotPassed == -1
NoMatch == [ok |-> FALSE, position |-> 0, start |-> <<>>, end |-> <<>>]
EmptyState(position) ==
  [ok |-> TRUE, position |-> position,
   start |-> [c \in 0 .. MaxCaptures - 1 |-> NotPassed], end |-> [c \in 0 .. MaxCaptures - 1 |-> NotPassed]]

Available(token, source, position) ==
  LET left == Len(source) - position
      limit == IF token.maximum < left THEN token.maximum ELSE left
      runs == {n \in 0..limit : \A i \in 1..n : AtomMatches(token, source[position + i])}
  IN  CHOOSE n \in runs : \A m \in runs : m <= n

Repetitions(available, minimum) == minimum..available

RECURSIVE MatchTokens(_, _, _, _)
MatchTokens(tokens, i, source, state) ==
  LET token == tokens[i]
      Rest(s) == MatchTokens(tokens, i + 1, source, s)
      tried == Repetitions(Available(token, source, state.position), token.minimum)
      fitting == {n \in tried : Rest([state EXCEPT !.position = @ + n]).ok}
      longest == CHOOSE n \in fitting : \A m \in fitting : m <= n
  IN  IF i > Len(tokens) THEN state
      ELSE CASE token.kind = "begin" -> IF state.position = 0 THEN Rest(state) ELSE NoMatch
             [] token.kind = "end" ->
                  IF state.position = Len(source) THEN Rest(state) ELSE NoMatch
             [] token.kind = "open" ->
                  Rest([state EXCEPT !.start[token.capture] = state.position])
             [] token.kind = "close" ->
                  Rest([state EXCEPT !.end[token.capture] = state.position])
             [] OTHER ->
                  IF fitting = {} THEN NoMatch
                  ELSE Rest([state EXCEPT !.position = @ + longest])

Least(places) == CHOOSE s \in places : \A t \in places : s <= t
MatchAt(program, source, start) ==
  MatchTokens(program.tokens, 1, source, EmptyState(start))
Spanning(match, first) == [match EXCEPT !.start[0] = first, !.end[0] = match.position]
FirstMatch(program, source, matching) ==
  IF matching = {} THEN NoMatch
  ELSE Spanning(MatchAt(program, source, Least(matching)), Least(matching))
SearchFor(program, source, offset) ==
  LET starts == IF program.anchored THEN {0} \cap {offset} ELSE offset..Len(source)
  IN  FirstMatch(program, source, {s \in starts : MatchAt(program, source, s).ok})

IsWhole(found, source) == found.ok /\ found.start[0] = 0 /\ found.end[0] = Len(source)
Matches(program, source) == program.ok /\ IsWhole(SearchFor(program, source, 0), source)

-----------------------------------------------------------------------------
(* Replacing, finding and splitting.  After an empty match the search goes on *)
(* one symbol further.                                                        *)
Between(source, start, end) == SubSeq(source, start + 1, end)
After(found, source) ==
  IF found.end[0] = found.start[0] /\ found.end[0] < Len(source)
  THEN found.end[0] + 1 ELSE found.end[0]
LastMatch(found, source) == found.end[0] = found.start[0] /\ found.end[0] = Len(source)

Measured(total, matches) == [total |-> total, matches |-> matches]
MeasuredAnd(rest, length) == Measured(length + rest.total, rest.matches + 1)
RECURSIVE MeasureOn(_, _, _, _, _)
MeasureOn(found, program, source, replacement, cursor) ==
  LET before == found.start[0] - cursor
      next == After(found, source)
  IN  IF ~found.ok THEN Measured(Len(source) - cursor, 0)
      ELSE IF LastMatch(found, source) THEN Measured(before + Len(replacement), 1)
      ELSE MeasuredAnd(
             MeasureOn(SearchFor(program, source, next), program, source, replacement, next),
             before + (next - found.end[0]) + Len(replacement))
Measure(program, source, replacement, cursor) ==
  MeasureOn(SearchFor(program, source, cursor), program, source, replacement, cursor)

RECURSIVE WriteOn(_, _, _, _, _, _)
WriteOn(found, program, source, replacement, cursor, matches) ==
  LET text == Between(source, cursor, found.start[0]) \o replacement
      next == After(found, source)
  IN  IF matches = 0 \/ ~found.ok THEN Between(source, cursor, Len(source))
      ELSE IF LastMatch(found, source) THEN text
      ELSE text \o Between(source, found.end[0], next)
             \o WriteOn(SearchFor(program, source, next), program, source, replacement,
                         next, matches - 1)
WriteFrom(program, source, replacement, cursor, matches) ==
  WriteOn(SearchFor(program, source, cursor), program, source, replacement, cursor, matches)
Replace(program, source, replacement) ==
  WriteFrom(program, source, replacement, 0, Measure(program, source, replacement, 0).matches)

Captured(found, source, c) ==
  IF found.start[c] < 0 \/ found.end[c] < found.start[c] THEN <<>>
  ELSE Between(source, found.start[c], found.end[c])
Groups(found, source, captures) ==
  IF found.ok THEN [c \in 1 .. captures + 1 |-> Captured(found, source, c - 1)] ELSE <<>>
FindGroups(program, source) ==
  Groups(SearchFor(program, source, 0), source, program.captures)

RECURSIVE SplitOn(_, _, _, _)
SplitOn(found, program, source, cursor) ==
  LET part == Between(source, cursor, found.start[0])
      next == After(found, source)
  IN  IF ~found.ok THEN <<Between(source, cursor, Len(source))>>
      ELSE IF LastMatch(found, source) THEN <<part, <<>>>>
      ELSE <<part>> \o SplitOn(SearchFor(program, source, next), program, source, next)
Split(program, source) == SplitOn(SearchFor(program, source, 0), program, source, 0)

-----------------------------------------------------------------------------
RECURSIVE Flat(_)
Flat(parts) == IF parts = <<>> THEN <<>> ELSE Head(parts) \o Flat(Tail(parts))
Pattern == Flat(pieces)

(* Every way to match from `start': how often each token is repeated.  A      *)
(* token that stands for no symbol is repeated once, without moving.          *)
Moves(token) == token.kind \notin {"begin", "end", "open", "close"}
Position(tokens, counts, start, i) ==
  LET to[n \in 0..i] == IF n = 0 THEN start
                        ELSE to[n - 1] + IF Moves(tokens[n]) THEN counts[n] ELSE 0
  IN  to[i]
Ways(program, source, start) ==
  LET tokens == program.tokens
      fits(counts, i) ==
        LET from == Position(tokens, counts, start, i - 1)
        IN  IF Moves(tokens[i])
            THEN /\ counts[i] \in tokens[i].minimum .. tokens[i].maximum
                 /\ from + counts[i] <= Len(source)
                 /\ \A k \in 1..counts[i] : AtomMatches(tokens[i], source[from + k])
            ELSE /\ counts[i] = 1
                 /\ tokens[i].kind = "begin" => from = 0
                 /\ tokens[i].kind = "end" => from = Len(source)
  IN  {counts \in [DOMAIN tokens -> 0..Len(source) \cup {1}] :
         \A i \in DOMAIN tokens : fits(counts, i)}
Greediest(ways) ==
  CHOOSE f \in ways : \A g \in ways \ {f} :
    \E i \in DOMAIN f : f[i] > g[i] /\ \A k \in 1 .. i - 1 : f[k] = g[k]

(* The search finds the leftmost match, and of the matches there the one that *)
(* prefers more repetitions of an earlier token; groups are where it passed.  *)
GoesBy(found, tokens, captures, way, first) ==
  LET Of(kind, c) == {i \in DOMAIN tokens : tokens[i].kind = kind /\ tokens[i].capture = c}
      last(s) == CHOOSE i \in s : \A j \in s : j <= i
      Where(kind, c) == IF Of(kind, c) = {} THEN NotPassed
                        ELSE Position(tokens, way, first, last(Of(kind, c)))
  IN  /\ found.start[0] = first
      /\ found.end[0] = Position(tokens, way, first, Len(tokens))
      /\ \A c \in 1..captures :
           found.start[c] = Where("open", c) /\ found.end[c] = Where("close", c)
LeftmostGreedy(found, starts, program, source) ==
  /\ found.ok <=> starts # {}
  /\ found.ok =>
       GoesBy(found, program.tokens, program.captures,
              Greediest(Ways(program, source, Least(starts))), Least(starts))
SearchIsLeftmostGreedy(program, source) ==
  LeftmostGreedy(SearchFor(program, source, 0),
                 {s \in 0..Len(source) : Ways(program, source, s) # {}}, program, source)

(* Although the match found first is the only one looked at, a text matches   *)
(* exactly when there is some way to match all of it.                         *)
MatchesIsWhole(program, source) ==
  Matches(program, source) <=>
    \E way \in Ways(program, source, 0) :
      Position(program.tokens, way, 0, Len(program.tokens)) = Len(source)

(* The second pass of a replacement writes as much as the first measured, and *)
(* it is the split of the source with the replacement between the parts,      *)
(* unless a match was empty.                                                  *)
NeverEmpty(program, source) ==
  \A s \in 0..Len(source) : \A way \in Ways(program, source, s) :
    Position(program.tokens, way, s, Len(program.tokens)) > s
RECURSIVE JoinedBy(_, _)
JoinedBy(parts, separator) ==
  IF Len(parts) = 1 THEN parts[1]
  ELSE parts[1] \o separator \o JoinedBy(Tail(parts), separator)
ReplaceFits(program, source) ==
  \A replacement \in Replacements :
    LET replaced == Replace(program, source, replacement)
    IN  /\ Len(replaced) = Measure(program, source, replacement, 0).total
        /\ NeverEmpty(program, source) =>
             replaced = JoinedBy(Split(program, source), replacement)

(* Splitting by what never matches nothing loses only what matched.           *)
PartsAreFree(program, source) ==
  ~program.anchored /\ NeverEmpty(program, source) =>
    \A i \in DOMAIN Split(program, source) :
      LET part == Split(program, source)[i]
      IN  "end" \in {program.tokens[n].kind : n \in DOMAIN program.tokens}
            \/ ~SearchFor(program, part, 0).ok

ProgramIsRight(program) ==
  program.ok =>
    \A source \in Sources :
      /\ SearchIsLeftmostGreedy(program, source)
      /\ MatchesIsWhole(program, source)
      /\ ReplaceFits(program, source)
      /\ PartsAreFree(program, source)
      /\ FindGroups(program, source) # <<>> =>
           FindGroups(program, source)[1] = Captured(SearchFor(program, source, 0), source, 0)

(* Of every pattern that compiles.                                            *)
PatternsAreMatched == ProgramIsRight(Compile(Pattern))
=============================================================================
