-------------------------- MODULE PortfolioStatements --------------------------
(* The brokers' parsers: parsers/bni_sekuritas.py, bni_sekuritas_legacy.py,    *)
(* ipot_portfolio.py, ipot_statement.py and stockbit_sekuritas.py.  They       *)
(* search the whole text of a statement for the sections they know, so the     *)
(* text is kept as it is printed and read when it is complete.                 *)
EXTENDS StatementReading

CONSTANTS
  Securities,    \* codes of stocks and funds
  Brokers,       \* the statements looked at, a subset of AllBrokers
  Tolerance      \* by how much the assets of an old BNI statement may differ, 5 in the code

AllBrokers == {"BNI", "BNI old", "IPOT portfolio", "IPOT statement", "Stockbit"}
ASSUME PortfolioAssumption ==
  /\ Brokers \subseteq AllBrokers /\ Tolerance \in Nat
  /\ \A value \in Figures : value > Tolerance
  /\ Blank # "Beginning Balance"

Holding(class, l, named) == [class |-> class, of |-> l.of, value |-> l.amount, named |-> named]
Booking(amount, saldo) == [amount |-> amount, saldo |-> saldo]

(* The rows of a section; the line after a row may carry the rest of its name. *)
HoldingsIn(text, section, class, IsRow(_), Continues(_)) ==
  LET rows == Places({i \in section : IsRow(text[i])}, Len(text))
      named(i) == i + 1 \in section /\ Continues(text[i + 1])
  IN [j \in DOMAIN rows |-> Holding(class, text[rows[j]], named(rows[j]))]

StockRow(l) == l.k = "stock"
AnyRow(l) == l.k \in {"stock", "fund"}
Never(l) == FALSE
StocksIn(text) == HoldingsIn(text, SectionAt(text, "stocks", {"stocks", "funds"}), "stock", StockRow, Never)

(* BNI: what follows a fund is the rest of its name unless it is a row, a      *)
(* total or a heading; the fund section is the last.                           *)
NotARow(l) == l.k \notin {"stock", "fund", "total", "stocks", "funds"}
BniFunds(text) == HoldingsIn(text, SectionAt(text, "funds", {}), "mutual_fund", AnyRow, NotARow)
IpotFunds(text) == HoldingsIn(text, SectionAt(text, "funds", {}), "mutual_fund", AnyRow, Never)

(* The old layout: a stock is recognised with a loss only and a fund with a    *)
(* gain only, the line below a row ends with a blocked quantity.               *)
LossRow(l) == l.k = "stock" /\ ~l.whole
GainRow(l) == l.k = "fund" /\ l.whole
NameLine(l) == l.k = "name"
OldHoldings(text) ==
  HoldingsIn(text, SectionAt(text, "stocks", {"funds"}), "stock", LossRow, NameLine)
    \o HoldingsIn(text, SectionAt(text, "funds", {}), "mutual_fund", GainRow, NameLine)

StockbitHoldings(text) == HoldingsIn(text, SectionAt(text, "stocks", {"total"}), "stock", StockRow, NameLine)

HoldingsOf(text) ==
  CASE bank = "BNI" -> StocksIn(text) \o BniFunds(text)
    [] bank = "IPOT portfolio" -> StocksIn(text) \o IpotFunds(text)
    [] bank = "BNI old" -> OldHoldings(text)
    [] bank = "Stockbit" -> StockbitHoldings(text)
    [] OTHER -> <<>>

(* The cash account.  IPOT prints its balance above the securities with the    *)
(* money fund included, and once more without it before their totals.          *)
AmountOn(text, section, k) ==
  LET at == {i \in section : text[i].k = k} IN IF at = {} THEN 0 ELSE text[Min(at)].amount
BalanceShown(text) ==
  CASE bank = "BNI" -> AmountOn(text, SectionAt(text, "cash", {"stocks", "funds"}), "balance")
    [] bank = "BNI old" -> AmountOn(text, SectionAt(text, "cash", {"stocks"}), "balance")
    [] bank = "IPOT portfolio" /\ (\E i \in DOMAIN text : text[i].k = "net of funds") -> AmountOn(text, DOMAIN text, "net of funds")
    [] OTHER -> AmountOn(text, DOMAIN text, "balance")

(* The balance of an account with bookings may be negative, and no pattern for *)
(* it has a sign: it is not found.                                             *)
NotFound(text) == bank \in {"BNI", "IPOT statement"} /\ BalanceShown(text) < 0
CashOf(text) == IF NotFound(text) THEN 0 ELSE BalanceShown(text)

(* A booking of the cash account: BNI prints a debit and a credit column.      *)
(* IPOT prints a signed amount before them: the pattern takes a negative one   *)
(* into the description, so that the columns it reads are those to the right   *)
(* and the last of them is the money beside the account (XRDN).                *)
Columns(l) ==
  LET debit == IF l.amount < 0 THEN -l.amount ELSE 0
      credit == IF l.amount > 0 THEN l.amount ELSE 0
  IN IF l.amount < 0 THEN <<debit, credit, l.saldo, l.beside>> ELSE <<l.amount, debit, credit, l.saldo>>

IpotAmount(columns) ==
  IF columns[3] > 0 THEN columns[3]
  ELSE IF columns[2] > 0 THEN -columns[2]
  ELSE -columns[1]

(* Below nothing a row does not fit its pattern: IPOT's wants a total of       *)
(* account and XRDN, after a shift that of the row itself; BNI's goes on from  *)
(* the row, numbered by its place, into the next, which is lost with it.       *)
Overdrawn(l) == l.k = "booking" /\ IF bank = "BNI" THEN l.saldo < 0 ELSE l.amount < 0 /\ l.saldo + l.beside < 0
Lost(text, i) ==
  LET before == {j \in 1 .. (i - 1) : \A k \in j .. (i - 1) : Overdrawn(text[k])}
  IN IF bank = "BNI" THEN Cardinality(before) % 2 = 1 ELSE Overdrawn(text[i])

BookingRead(text, i) ==
  LET l == text[i]
      columns == Columns(l)
  IN CASE bank = "IPOT statement" -> Booking(IpotAmount(columns), columns[4])
       [] Overdrawn(l) -> Booking(0, i + 1)
       [] OTHER -> Booking(l.amount, l.saldo)

BookingPlaces(text) ==
  {i \in IF bank = "BNI" THEN SectionAt(text, "cash", {"stocks", "funds"}) ELSE DOMAIN text :
     text[i].k = "booking" /\ text[i].of # "Beginning Balance" /\ ~ Lost(text, i)}
BookingsOf(text) ==
  LET at == Places(BookingPlaces(text), Len(text))
  IN IF bank \in {"BNI", "IPOT statement"} THEN [j \in DOMAIN at |-> BookingRead(text, at[j])] ELSE <<>>

(* The old layout prints the sum of all assets, which is compared.             *)
WorthOf(holdings) ==
  LET sum[i \in 0 .. Len(holdings)] == IF i = 0 THEN 0 ELSE sum[i - 1] + holdings[i].value IN sum[Len(holdings)]
Mismatch(text) ==
  LET off == WorthOf(HoldingsOf(text)) + CashOf(text) - AmountOn(text, DOMAIN text, "assets")
  IN bank = "BNI old" /\ off \notin -Tolerance .. Tolerance

(* When no row was recognised a language model is asked for the holdings, or   *)
(* for an IPOT statement the bookings (external: any answer).  The old layout  *)
(* does without.                                                               *)
Guess(class) == [class |-> class, of |-> Blank, value |-> 0, named |-> FALSE]
Answers(found, asked, guess) == IF found # <<>> \/ ~ asked THEN {found} ELSE {<<>>, <<guess>>}

PortfolioInit ==
  /\ bank \in Brokers
  /\ \E cash \in Figures \cup {0} : sheet = [NewSheet EXCEPT !.saldo = cash, !.opening = cash]
  /\ read = NewRead

PrintLine(l, k, s) == sheet' = [s EXCEPT !.k = k, !.text = Append(@, l)] /\ UNCHANGED <<bank, read>>

(* The cash account comes first, the bookings before its balance.              *)
CashOpens ==
  /\ sheet.k = "start" /\ bank # "Stockbit"
  /\ PrintLine([Line("cash") EXCEPT !.of = "Beginning Balance"], "cash", sheet)

CashBooking ==
  /\ bank \in {"BNI", "IPOT statement"} /\ sheet.k = "cash" /\ Len(sheet.booked) < MaxRows
  /\ \E amount \in Figures \cup {-v : v \in Figures}, of \in {Blank, "Beginning Balance"},
        beside \in IF bank = "IPOT statement" THEN Figures \cup {0} ELSE {0} :
       LET saldo == sheet.saldo + amount
       IN IF of = Blank
          THEN PrintLine([Line("booking") EXCEPT !.amount = amount, !.saldo = saldo, !.beside = beside], "cash",
                 [sheet EXCEPT !.saldo = saldo, !.booked = Append(@, Booking(amount, saldo))])
          ELSE /\ bank = "BNI" /\ sheet.booked = <<>> /\ sheet.stray < MaxStray
               /\ PrintLine([Line("booking") EXCEPT !.of = of, !.amount = amount, !.saldo = sheet.saldo], "cash",
                    [sheet EXCEPT !.stray = @ + 1])

(* What IPOT prints above the securities includes the money fund printed below *)
(* them; a later line of the text is fixed here by what will be held.          *)
CashBalance ==
  /\ sheet.k = "cash" \/ (sheet.k = "start" /\ bank = "Stockbit")
  /\ \E fund \in IF bank = "IPOT portfolio" THEN Figures \cup {0} ELSE {0} :
       PrintLine([Line("balance") EXCEPT !.amount = sheet.saldo + fund], IF bank = "IPOT statement" THEN "totals" ELSE "balance",
         [sheet EXCEPT !.of = fund])

Classes == IF bank = "Stockbit" THEN {"stocks"} ELSE {"stocks", "funds"}
Money == IF bank = "IPOT portfolio" THEN sheet.of ELSE 0     \* still to be printed as a fund
SectionOpens ==
  /\ sheet.k \in {"balance", "subtotal"}
  /\ \E heading \in Classes :
       /\ \A i \in DOMAIN sheet.text : sheet.text[i].k \notin {heading, "funds"}
       /\ bank = "IPOT portfolio" => (heading = "funds" <=> (Money > 0 /\ sheet.k = "subtotal"))
       /\ PrintLine(Line(heading), heading, sheet)

HoldingRow(class, k) ==
  /\ Len(sheet.rows) < MaxRows
  /\ \E of \in Securities, value \in Figures, gain \in IF bank = "BNI old" THEN BOOLEAN ELSE {TRUE} :
       /\ class = "mutual_fund" /\ Money > 0 => value = Money
       /\ LET l == [Line(k) EXCEPT !.of = of, !.amount = value, !.whole = gain]
          IN PrintLine(l, k, [sheet EXCEPT !.rows = Append(@, Holding(class, l, FALSE))])

StockPrinted ==
  /\ sheet.k \in {"stocks", "stock", "stock name"} /\ HoldingRow("stock", "stock")

FundPrinted ==
  /\ sheet.k \in IF Money > 0 THEN {"funds"} ELSE {"funds", "fund", "fund name"}
  /\ HoldingRow("mutual_fund", "fund")

(* The rest of a name; the old layout always prints one.                       *)
NamePrinted ==
  /\ <<sheet.k, bank>> \in {"fund"} \X {"BNI", "BNI old"} \cup {"stock"} \X {"Stockbit", "BNI old"}
  /\ PrintLine(Line("name"), IF sheet.k = "fund" THEN "fund name" ELSE "stock name",
       [sheet EXCEPT !.rows = [@ EXCEPT ![Len(@)].named = TRUE]])

SectionTotal ==
  /\ sheet.k \in {"stocks", "funds", "stock", "fund", "stock name", "fund name"}
  /\ Money > 0 => sheet.k # "funds"
  /\ bank = "BNI old" => sheet.k \notin {"stock", "fund"}
  /\ PrintLine(Line("total"), "subtotal", sheet)

(* A page break between two sections.                                          *)
PageFooter ==
  /\ sheet.k \in {"balance", "subtotal", "stocks", "funds"} /\ sheet.stray < MaxStray
  /\ PrintLine(Line("footer"), sheet.k, [sheet EXCEPT !.stray = @ + 1])

PortfolioTotals ==
  /\ sheet.k \in {"balance", "subtotal"}
  /\ Money > 0 => \E i \in DOMAIN sheet.rows : sheet.rows[i].class = "mutual_fund"
  /\ PrintLine(IF bank = "IPOT portfolio" /\ Money > 0 THEN [Line("net of funds") EXCEPT !.amount = sheet.saldo]
               ELSE [Line("assets") EXCEPT !.amount = sheet.saldo + WorthOf(sheet.rows)], "totals", sheet)

(* The statement is complete and is read.                                      *)
PortfolioReads ==
  /\ sheet.k = "totals"
  /\ \E holdings \in Answers(HoldingsOf(sheet.text), bank \notin {"BNI old", "IPOT statement"}, Guess("stock")),
        booked \in Answers(BookingsOf(sheet.text), bank = "IPOT statement", Booking(0, 0)) :
       read' = [read EXCEPT !.rows = holdings, !.booked = booked, !.closing = CashOf(sheet.text),
                            !.error = Mismatch(sheet.text) \/ NotFound(sheet.text)]
  /\ sheet' = [sheet EXCEPT !.k = "closed"]
  /\ UNCHANGED bank

PortfolioStep ==
  /\ bank \in Brokers
  /\ \/ CashOpens \/ CashBooking \/ CashBalance \/ SectionOpens \/ StockPrinted \/ FundPrinted
     \/ NamePrinted \/ SectionTotal \/ PageFooter \/ PortfolioTotals \/ PortfolioReads

(* HoldingsReadAsPrinted: whenever a statement lists securities, all of them   *)
(* are read, each once, in its class and with the name's continuation; the old *)
(* layout reports an error when it does not.                                   *)
HoldingsReadAsPrinted ==
  (bank \in Brokers /\ sheet.k = "closed" /\ sheet.rows # <<>>) => (read.rows = sheet.rows \/ (bank = "BNI old" /\ read.error))

(* A statement with bookings, none of which leaves less than nothing.          *)
Solvent == sheet.booked # <<>> /\ \A i \in DOMAIN sheet.text : ~ Overdrawn(sheet.text[i])

\* The bookings read are the ones printed, as far as the claim below goes.
BookedRight(broker, found, booked) ==
  /\ Len(found) = Len(booked)
  /\ \A i \in DOMAIN found : /\ broker = "BNI" \/ booked[i].amount > 0 => found[i] = booked[i]
                            /\ booked[i].saldo <= 0 => found[i].amount = booked[i].amount

(* CashReadAsPrinted: the cash balance read is the account's own, without the  *)
(* money fund, or an error is reported; and when no booking leaves less than   *)
(* nothing, every booking is read.  Of IPOT's debits the claim leaves out the  *)
(* balance, and the amount of those that leave a positive balance              *)
(* (BookedAsPrinted).                                                          *)
CashReadAsPrinted == (bank \in Brokers /\ sheet.k = "closed") =>
  /\ read.closing = sheet.saldo \/ (sheet.saldo < 0 /\ read.error)
  /\ Solvent => BookedRight(bank, read.booked, sheet.booked)

(* BookedAsPrinted: a negative amount shifts the columns read by one, "in that *)
(* case credit (g7) is negative -> use g5 (PDF-Debet) as amount" (a comment of *)
(* ipot_statement.py:253): every booking of a row that is recognised is read   *)
(* with its amount and sign.                                                   *)
BookedAsPrinted == (bank = "IPOT statement" /\ sheet.k = "closed" /\ Solvent) =>
  \A i \in DOMAIN read.booked : read.booked[i].amount = sheet.booked[i].amount
===============================================================================
