CONSTANTS
  Base = 1
  Limit = 6
  Chars <- MCChars
  Texts <- MCTexts
  EofText <- MCEofText
  MaxLogs = 2
  MaxAck = 1
  MaxDepth = 3
SPECIFICATION SessionSpec
INVARIANTS TypeOK RecordKept OwnExtent OverrunBounded ViewStartsWithLog
PROPERTIES ImplementsStore
