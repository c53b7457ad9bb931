SPECIFICATION Spec
CONSTANTS
  Element = {1, 2}
  Unset = Unset
  MinCapacity = 2
  MaxVectors = 4
  MaxDrafts = 1
  MaxElements = 3
  Key <- MCKey
  Value = {1, 2}
  NoNumber <- MCNotANumber
  Mix <- MCMix
  MinLength = 2
  MinSlots = 4
  MaxEntries = 3
  FirstRoom = 1
  MaxLength = 4
  MaxMaps = 3
  MaxSets = 3
  Bases = {0, 1}
  Floors = {0, 3}
  DefaultChunk = 4
  FixedSize = 5
  Alignments = {1, 2}
  MaxSize = 3
  Capability = {p, q}
  MaxBuffers = 2
  MaxSpans = 2
  MaxResets = 1
  Thread = {t1, t2}
  Words = 2
  MaxOps = 2
  Numbers <- MCNumbers
  Texts <- MCTexts
  NaN <- MCNotANumber
  Fields = 1
  MaxItems = 3
  MaxCells = 2
  MaxTies = 1
  Octet <- MCOctet
  Scalars <- MCScalars
  WordPoint = {65}
  MaxOctets = 4
  Limits <- MCLimits
  Needles <- MCNeedles
  Ranges <- MCRanges
  Lowers <- MCLowers
  SpecialLowers <- MCSpecial
  Sigma = 3
  SmallSigma = 16
  FinalSigma = 17
  Separate = {13}
  MidWords = {11}
  MidNumbers = {11, 12}
  SourcePoint = {1, 3, 4, 5, 6, 7, 8, 9, 10, 11, 12, 13, 14}
  MaxPoints = 4
  Piece <- MCPiece
  MaxPieces = 3
  SourceSymbol = {"a", "b"}
  MaxSource = 3
  Replacements <- MCReplacements
  Ordinal <- MCOrdinal
  MaxTokens = 3
  MaxCaptures = 3
  Endless = 9
  Alphabets <- MCAlphabets
  MaxInt = 63
  FractionBits = 2
  Bias = 3
  PrefixBits = 5
  ExponentCap = 50
  MaxWidth = 20
  Exponents <- MCExponents
  Spelled <- MCSpelled
  PrintedTexts <- MCPrinted
  Names <- MCNames
  MaxDepth = 3
  MaxTypes = 3
  MaxWeight = 6
INVARIANTS
  AtomIsRegister
  NothingOutlivesItsArena
  OperationsAgree
  TextsAreRead
  SpellingsAgree
PROPERTIES
  ImplementsImmutable
  MapsAreValues
CHECK_DEADLOCK FALSE
