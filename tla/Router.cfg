SPECIFICATION Spec
CONSTANTS
  Designators <- MCDesignators
  Terminals = {"T"}
  Modems = {"M"}
  Texts = {"t", "u"}
  LongTexts = {"u"}
  Messages <- MCMessages
  Entries <- FewEntries
  NoMessage = NoMessage
  NoEntry = NoEntry
  Builders = {"main", "console"}
  Hash <- MCHash
  MaxHash = 2
  WMX_MAX_SEQUENCE = 1
  DUPTIMEOUT = 1
  OLDESENTRY = 2
  MAXROUTEHISTORY = 2
  MaxRoutes = 2
INVARIANT TypeOK
INVARIANT HistoryBounded
INVARIANT NoRepeat
INVARIANT DroppedOnlyAfterSend
