--------------------------- MODULE AccountStatements ---------------------------
(* The savings and consolidated parsers: parsers/bca_savings.py, bca_rdn.py,   *)
(* permata_savings.py, permata_usd_savings.py, cimb_niaga_consol.py and        *)
(* maybank_consol.py.                                                          *)
EXTENDS StatementReading

CONSTANTS
  Accts,       \* accounts of one statement, in the order printed
  CurrencyOf   \* [account -> currency]

ASSUME AccountAssumption ==
  /\ Len(Accts) \in Nat /\ DOMAIN Accts = 1 .. Len(Accts)
  /\ \A i \in DOMAIN Accts : Accts[i] # Blank /\ \A j \in DOMAIN Accts : Accts[i] = Accts[j] => i = j
  /\ Blank # "SALDO AWAL"

AccountBanks == {"BCA savings", "BCA RDN", "Permata savings", "Permata USD", "CIMB consol", "Maybank consol"}

(* BCA: a row starts with its date; its amount ends that line or, when the     *)
(* line is wrapped, one of the lines up to the next stop.  Empty lines do not  *)
(* end a description.  TANGGAL starts the effective date of a savings row and  *)
(* is a stop in an RDN statement; rows of another month are not rows.          *)
Elsewhere(l) == l.month # StatementMonth \/ (bank = "BCA RDN" /\ l.of = "SALDO AWAL")
Amounted(r, l) ==
  IF ~r.more THEN r
  ELSE IF r.rows[Len(r.rows)].whole THEN [r EXCEPT !.more = ~r.dated]
  ELSE [r EXCEPT !.rows = LastRow(LastRow(@, "whole", TRUE), "amount", l.amount), !.more = FALSE]

ReadBcaAccount(r, l) ==
  CASE l.k = "row" /\ Elsewhere(l) -> Ended(r)
    [] l.k = "row" /\ ~ Elsewhere(l) -> [r EXCEPT !.more = TRUE, !.dated = FALSE,
         !.rows = Append(@, [Row(r.of, 0, IF l.whole THEN l.amount ELSE 0, 0) EXCEPT !.whole = l.whole])]
    [] l.k = "text" -> Continued(r)
    [] l.k = "rest" -> Amounted(r, l)
    [] l.k = "blank" -> r
    [] l.k = "effective" /\ bank = "BCA savings" /\ ~r.dated -> [r EXCEPT !.dated = r.more]
    [] l.k = "opening" -> [Ended(r) EXCEPT !.opening = l.amount]
    [] l.k = "closing" -> [Ended(r) EXCEPT !.closing = l.amount]
    [] OTHER -> Ended(r)

(* Permata: sections of accounts.  The amount is booked as a withdrawal when   *)
(* the printed balance has gone down.  A section ends with its totals and is   *)
(* kept when the next account starts; what other tables print after the totals *)
(* is not the account's.                                                       *)
Section(r) == [of |-> r.of, currency |-> r.currency, opening |-> r.opening, closing |-> r.saldo]
CommittedOnce(r) ==     \* a mutation: the next account starts as a finished one
  IF r.of = Blank THEN r
  ELSE [r EXCEPT !.accounts = Append(@, Section(r)), !.opening = 0, !.saldo = 0]
Committed(r) ==
  IF r.of = Blank THEN r
  ELSE [r EXCEPT !.accounts = Append(@, Section(r)), !.opening = 0, !.saldo = 0, !.done = FALSE]

ReadPermataAccount(r, l) ==
  CASE l.k = "account" /\ l.of = r.of -> r
    [] l.k = "account" /\ l.of # r.of -> [Committed(r) EXCEPT !.of = l.of, !.currency = "IDR", !.on = FALSE, !.more = FALSE]
    [] l.k = "currency" -> IF r.of # Blank /\ ~r.done THEN [r EXCEPT !.currency = l.of] ELSE r
    [] l.k = "opening" /\ r.of # Blank -> [Ended(r) EXCEPT !.opening = l.amount, !.saldo = l.amount, !.on = TRUE]
    [] l.k = "table" -> [r EXCEPT !.on = TRUE]
    [] l.k = "total" /\ r.on -> [Ended(r) EXCEPT !.on = FALSE, !.done = TRUE]
    [] l.k = "row" /\ r.on -> [r EXCEPT !.saldo = l.saldo, !.more = TRUE,
         !.rows = Append(@, Row(r.of, YearOf(l.month), IF l.saldo < r.saldo THEN -l.amount ELSE l.amount, l.saldo))]
    [] l.k = "text" /\ r.on -> Continued(r)
    [] l.k = "end" -> Committed(r)
    [] OTHER -> r

(* Of the sections of one account the last that has a balance is kept.         *)
KeptOf(accounts, first) ==
  LET better == {i \in DOMAIN accounts : accounts[i].of = accounts[first].of /\ (accounts[i].opening > 0 \/ accounts[i].closing > 0)}
  IN accounts[Max(better \cup {first})]
KeptAccounts(accounts) ==
  LET firsts == Places({i \in DOMAIN accounts : \A j \in 1 .. (i - 1) : accounts[j].of # accounts[i].of}, Len(accounts))
  IN [i \in DOMAIN firsts |-> KeptOf(accounts, firsts[i])]

(* CIMB: the tables of a page belong to the account of its first section       *)
(* marker, a page without one to the account before; the balance is kept by    *)
(* the parser from the opening balance on.                                     *)
ReadCimbAccount(r, l) ==
  CASE l.k = "account" -> [r EXCEPT !.of = l.of]
    [] l.k = "opening" -> [r EXCEPT !.saldo = l.amount, !.accounts = Append(@, [of |-> r.of, currency |-> CurrencyOf[r.of], opening |-> l.amount, closing |-> 0])]
    [] l.k = "row" /\ l.amount # 0 -> [r EXCEPT !.saldo = @ + l.amount,
         !.rows = Append(@, Row(r.of, YearOf(l.month), l.amount, r.saldo + l.amount))]
    [] l.k = "total" -> [r EXCEPT !.accounts = LastRow(@, "closing", l.amount)]
    [] OTHER -> r

(* Maybank: a table per account with its currency in the heading; the opening  *)
(* balance is booked as a row of its own, full dates are printed.              *)
ReadMaybankAccount(r, l) ==
  CASE l.k = "account" -> [r EXCEPT !.of = CurrencyOf[l.of]]
    [] l.k = "opening" -> [r EXCEPT !.rows = Append(@, Row(r.of, 0, l.amount, l.amount))]
    [] l.k = "row" -> [r EXCEPT !.rows = Append(@, Row(r.of, l.year, l.amount, l.saldo))]
    [] OTHER -> r

(* Permata USD: dates stand on lines of their own, the sign follows from the   *)
(* words of the description: a tax on interest is a tax.                       *)
Words == {{"BAGI HASIL"}, {"PAJAK", "BAGI HASIL"}, {"BIAYA"}}
Debits(words) == words \cap {"PAJAK", "BIAYA", "ADMIN"} # {}
ReadPermataUsd(r, l) ==
  CASE l.k = "date" -> [r EXCEPT !.of = l.year]
    [] l.k = "row" /\ r.of # Blank ->
         LET amount == IF Debits(l.of) THEN -l.amount ELSE l.amount
         IN [r EXCEPT !.saldo = @ + amount, !.rows = Append(@, Row("USD", r.of, amount, r.saldo + amount))]
    [] l.k = "end" -> [r EXCEPT !.closing = r.saldo]
    [] OTHER -> r

(* The next month's opening balance is the closing balance of the month before,*)
(* which is read again from its file unless this process has read it.          *)
CarriedOver(r) == [r EXCEPT !.opening = r.closing, !.saldo = r.closing, !.rows = <<>>, !.of = Blank]

Bca == {"BCA savings", "BCA RDN"}
ReadAccount(r, l) ==
  CASE bank \in Bca -> ReadBcaAccount(r, l)
    [] bank = "Permata savings" -> ReadPermataAccount(r, l)
    [] bank = "Permata USD" -> ReadPermataUsd(r, l)
    [] bank = "CIMB consol" -> ReadCimbAccount(r, l)
    [] bank = "Maybank consol" -> ReadMaybankAccount(r, l)

AccountInit ==
  /\ bank \in AccountBanks
  /\ \E opening \in IF bank = "Permata USD" THEN Figures ELSE {0} :
       /\ sheet = [NewSheet EXCEPT !.saldo = opening, !.opening = opening, !.of = IF bank \in Bca \cup {"Permata USD"} THEN 1 ELSE 0]
       /\ read = [NewRead EXCEPT !.saldo = opening, !.opening = opening, !.of = IF bank \in Bca THEN Accts[1] ELSE Blank]

PrintAccount(l, k, s) ==
  /\ sheet' = [s EXCEPT !.k = k]
  /\ read' = ReadAccount(read, l)
  /\ UNCHANGED bank

Sectioned == {"Permata savings", "CIMB consol", "Maybank consol"}
Acct == Accts[sheet.of]
RowWhole == sheet.rows # <<>> => sheet.rows[Len(sheet.rows)].whole
InTable == sheet.k \in {"table", "opening", "row", "text", "rest", "stray", "date"} /\ RowWhole

(* The heading of an account, on a page of its own at CIMB; Permata prints its *)
(* currency under it.                                                          *)
AccountNext ==
  /\ bank \in Sectioned /\ sheet.k \in {"start", "total"} /\ sheet.of < Len(Accts)
  /\ PrintAccount([Line("account") EXCEPT !.of = Accts[sheet.of + 1]], "account", [sheet EXCEPT !.of = @ + 1])

AccountCurrency ==
  /\ bank = "Permata savings" /\ sheet.k = "account"
  /\ PrintAccount([Line("currency") EXCEPT !.of = CurrencyOf[Acct]], "currency", sheet)

OpeningRowLine(amount) == [Line("row") EXCEPT !.of = "SALDO AWAL", !.amount = amount]
AccountOpening ==
  /\ \/ bank \in Bca /\ sheet.k = "start"
     \/ bank \in Sectioned /\ sheet.k = (IF bank = "Permata savings" THEN "currency" ELSE "account")
  /\ \E amount \in Figures :
       PrintAccount(IF bank \in Bca THEN OpeningRowLine(amount) ELSE [Line("opening") EXCEPT !.amount = amount], "opening",
         [sheet EXCEPT !.opening = amount, !.saldo = amount,
            !.rows = IF bank = "BCA savings" THEN <<Row(Acct, 0, amount, 0)>>
                     ELSE IF bank = "Maybank consol" THEN Append(@, Row(CurrencyOf[Acct], 0, amount, amount)) ELSE @])

(* A booking; BCA prints a statement per month and may wrap the row before its *)
(* amount.                                                                     *)
Amounts == Figures \cup {-v : v \in Figures}
AccountRow ==
  /\ InTable /\ bank # "Permata USD" /\ Len(sheet.rows) < MaxRows
  /\ \E date \in RowDates, amount \in Amounts, whole \in {TRUE, bank \notin Bca} :
       LET saldo == sheet.saldo + amount
           row == Row(IF bank = "Maybank consol" THEN CurrencyOf[Acct] ELSE Acct, date[2], amount, IF bank \in Bca THEN 0 ELSE saldo)
       IN /\ saldo >= 0
          /\ bank \in Bca => date = <<StatementMonth, 0>>
          /\ PrintAccount([Line("row") EXCEPT !.month = date[1], !.year = date[2], !.whole = whole, !.saldo = saldo,
                 !.amount = IF bank = "Permata savings" /\ amount < 0 THEN -amount ELSE amount], "row",
               [sheet EXCEPT !.saldo = saldo, !.rows = Append(@, [row EXCEPT !.whole = whole])])

AccountDate ==
  /\ bank = "Permata USD" /\ sheet.k \in {"start", "row", "stray"}
  /\ \E date \in RowDates : PrintAccount([Line("date") EXCEPT !.year = date[2]], "date", [sheet EXCEPT !.of = date[2]])

AccountWords ==
  /\ bank = "Permata USD" /\ sheet.k \in {"date", "row", "stray"} /\ Len(sheet.rows) < MaxRows
  /\ \E words \in Words, value \in Figures :
       LET amount == IF words = {"BAGI HASIL"} THEN value ELSE -value
           saldo == sheet.saldo + amount
       IN /\ saldo >= 0
          /\ PrintAccount([Line("row") EXCEPT !.of = words, !.amount = value], "row",
               [sheet EXCEPT !.saldo = saldo, !.rows = Append(@, Row("USD", sheet.of, amount, saldo))])

AccountWraps ==
  /\ bank \in Bca \cup {"Permata savings"} /\ sheet.k \in {"row", "text", "effective"}
  /\ sheet.rows[Len(sheet.rows)].lines < 2
  /\ PrintAccount(Line("text"), IF sheet.k = "effective" THEN "effective" ELSE "text", [sheet EXCEPT !.rows = Wrapped(@)])

AccountEffective ==
  /\ bank = "BCA savings" /\ sheet.k \in {"row", "text"}
  /\ PrintAccount(Line("effective"), "effective", sheet)

AccountRest ==
  /\ bank \in Bca /\ sheet.k \in {"row", "text", "effective"} /\ ~RowWhole
  /\ PrintAccount([Line("rest") EXCEPT !.amount = sheet.rows[Len(sheet.rows)].amount], "rest",
       [sheet EXCEPT !.rows = LastRow(@, "whole", TRUE)])

AccountBlank ==
  /\ bank \in Bca /\ sheet.k \in {"row", "text", "effective"} /\ sheet.stray < MaxStray
  /\ PrintAccount(Line("blank"), sheet.k, [sheet EXCEPT !.stray = @ + 1])

(* Headings and footers, and at BCA rows of another month.                     *)
AccountStray ==
  /\ InTable /\ sheet.stray < MaxStray
  /\ \E k \in IF bank \in Bca THEN {"stray", "row"} ELSE {"stray"} :
       PrintAccount([Line(k) EXCEPT !.month = StatementMonth + 1, !.amount = 1], "stray", [sheet EXCEPT !.stray = @ + 1])

(* The account goes on, on the next page; Permata repeats its number and the   *)
(* heading of the table, CIMB may repeat its section marker.                   *)
AccountPage ==
  /\ InTable /\ bank # "Permata USD" /\ sheet.pages < MaxPages
  /\ \E marked \in {TRUE, bank = "Permata savings"} :
       PrintAccount(IF bank \in {"Permata savings", "CIMB consol"} /\ marked THEN [Line("account") EXCEPT !.of = Acct] ELSE Line("page"),
         IF bank = "Permata savings" THEN "paged" ELSE "stray", [sheet EXCEPT !.pages = @ + 1])

AccountTable ==
  /\ sheet.k = "paged" /\ PrintAccount(Line("table"), "table", sheet)

AccountTotal ==
  /\ InTable /\ bank \in Sectioned
  /\ PrintAccount([Line("total") EXCEPT !.amount = sheet.saldo], "total",
       [sheet EXCEPT !.accounts = Append(@, [of |-> Acct, currency |-> CurrencyOf[Acct], opening |-> sheet.opening, closing |-> sheet.saldo])])

(* Under the totals of the last account the bonds are listed with theirs.      *)
AccountBonds ==
  /\ bank = "Permata savings" /\ sheet.k = "total" /\ sheet.stray < MaxStray
  /\ \E currency \in {"IDR", "USD"} : PrintAccount([Line("currency") EXCEPT !.of = currency], "total", [sheet EXCEPT !.stray = @ + 1])

(* The summary at the end of a BCA statement.                                  *)
AccountSummary ==
  \/ bank \in Bca /\ InTable /\ PrintAccount([Line("opening") EXCEPT !.amount = sheet.opening], "summary", sheet)
  \/ sheet.k = "summary" /\ PrintAccount([Line("closing") EXCEPT !.amount = sheet.saldo], "total", sheet)

AccountCloses ==
  /\ sheet.k \in IF bank = "Permata USD" THEN {"row", "stray"} ELSE {"total"}
  /\ PrintAccount(Line("end"), "closed", sheet)

(* Permata USD: the statement of the month after.                              *)
AccountMonth ==
  /\ bank = "Permata USD" /\ sheet.k = "closed" /\ sheet.pages < MaxPages
  /\ sheet' = [sheet EXCEPT !.k = "start", !.pages = @ + 1, !.rows = <<>>, !.opening = sheet.saldo]
  /\ read' = CarriedOver(read)
  /\ UNCHANGED bank

AccountStep ==
  /\ bank \in AccountBanks
  /\ \/ AccountNext \/ AccountCurrency \/ AccountOpening \/ AccountRow \/ AccountDate \/ AccountWords
     \/ AccountWraps \/ AccountEffective \/ AccountRest \/ AccountBlank \/ AccountStray \/ AccountPage
     \/ AccountTable \/ AccountTotal \/ AccountBonds \/ AccountSummary \/ AccountCloses \/ AccountMonth

(* AccountReadAsPrinted: the bookings and the accounts read are the ones       *)
(* printed, and where the balance is kept or compared by the parser it is the  *)
(* printed one.                                                                *)
AccountReadAsPrinted == (bank \in AccountBanks /\ sheet.k = "closed") =>
  /\ WholeRows(read.rows) = sheet.rows
  /\ bank \in {"Permata savings", "CIMB consol"} => KeptAccounts(read.accounts) = sheet.accounts
  /\ bank \in Bca => read.opening = sheet.opening /\ read.closing = sheet.saldo
  /\ bank = "Permata USD" => read.opening = sheet.opening /\ read.closing = sheet.saldo
===============================================================================
