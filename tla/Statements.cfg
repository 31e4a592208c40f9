\* A January statement (rows of December lie in the year before), two rows and
\* two pages, one line out of place.
SPECIFICATION StatementsSpec
INVARIANTS
  ReadAsPrinted
  RoutedToItsParser
CHECK_DEADLOCK FALSE
CONSTANTS
  Blank = Blank
  StatementMonth = 1
  RowDates <- MCRowDates
  Figures = {6}
  MaxRows = 2
  MaxPages = 2
  MaxStray = 1
  Cards <- MCCards
  NameOn <- MCNameOn
  Mapped = {"self", "spouse"}
  Owner <- MCOwner
  Accts <- MCAccts
  CurrencyOf <- MCCurrencyOf
  Securities = {"s1", "s2"}
  Brokers = {"BNI", "BNI old", "IPOT portfolio", "IPOT statement", "Stockbit"}
  Tolerance = 5
  Mentions = {"BCA", "Permata", "KARTU KREDIT"}
  Products = {"p1", "p2"}
  Currencies = {"USD", "SGD"}
  Rate <- MCRate
