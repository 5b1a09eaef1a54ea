SPECIFICATION ParsingSpec
CONSTANTS
  Grammars <- MCGrammars
  Sources <- MCSources
  Callback <- MCCallback
  Strays = {"$", "Ta", "i", "T?"}
  MaxTokens = 4
  MaxPL0Tokens = 4
INVARIANTS CollectionComplete LookaheadsClosed TablesSuit HandleOnTop AcceptsWhole ActionsInOrder SentencesAccepted ValuesInOrder OwnGrammarsFit
PROPERTIES FeedReturns
