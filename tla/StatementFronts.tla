---------------------------- MODULE StatementFronts ----------------------------
(* The first pages of a statement: which parser reads it (parsers/router.py    *)
(* and the can_parse of every parser) and what the summary tables of Permata   *)
(* and Maybank say of the accounts (permata_savings.py, permata_usd_savings.py,*)
(* maybank_consol.py).                                                         *)
EXTENDS StatementReading, FiniteSets

CONSTANTS
  Mentions,     \* marks a booking may leave on the first page of a foreign statement
  Products,     \* names of accounts and bonds
  Currencies,   \* foreign currencies
  Rate          \* [currency -> IDR for one unit]

ASSUME RateAssumption == Rate \in [Currencies \cup {"IDR"} -> Nat \ {0}] /\ Rate["IDR"] = 1

(* The parsers in the order they are asked, each with the marks it looks for:  *)
(* any of the sets will do.  Those of Both see the first two pages, the others *)
(* the first.                                                                  *)
ParserOrder == <<
  <<"permata_cc", {{"Rekening Tagihan", "Credit Card Billing"}}>>,
  <<"permata_rdn", {{"Permata", "Rekening Koran", "RDN"}}>>,
  <<"permata_usd_savings", {{"Mutasi Transaksi", "PermataTabungan USD"}}>>,
  <<"permata_savings", {{"Permata", "Rekening Koran"}}>>,
  <<"bca_cc", {{"BCA", "REKENING KARTU KREDIT"}}>>,
  <<"bca_rdn", {{"REKENING TAPRES"}}>>,
  <<"bca_savings", {{"BCA", "TAHAPAN"}}>>,
  <<"maybank_consol", {{"Maybank", "RINGKASAN PORTOFOLIO"}, {"Maybank", "ALOKASI ASET"}}>>,
  <<"maybank_cc", {{"Maybank", "KARTU KREDIT"}, {"Maybank", "balance of last month"}}>>,
  <<"cimb_niaga_cc", {{"CIMB Niaga", "Tgl. Statement"}}>>,
  <<"cimb_niaga_consol", {{"CIMB Niaga", "COMBINE STATEMENT"}}>>,
  <<"ipot_portfolio", {{"INDO PREMIER", "Client Portofolio"}}>>,
  <<"ipot_statement", {{"INDO PREMIER", "Client Statement"}}>>,
  <<"bni_sekuritas_legacy", {{"CONSOLIDATE ACCOUNT STATEMENT", "CASH SUMMARY", "PORTFOLIO STATEMENT", "BNI Sekuritas"}}>>,
  <<"bni_sekuritas", {{"CLIENT STATEMENT"}}>>,
  <<"stockbit_sekuritas", {{"STOCKBIT", "Statement of Account"}}>> >>
Parsers == {ParserOrder[i][1] : i \in DOMAIN ParserOrder}
Both == {"maybank_consol", "cimb_niaga_cc"}

CanParse(entry, first, second) ==
  \E marks \in entry[2] : marks \subseteq first \cup (IF entry[1] \in Both THEN second ELSE {})
DetectLast(first, second) ==     \* a mutation: the last parser that could wins
  LET at == SelectLastInSeq(ParserOrder, LAMBDA entry : CanParse(entry, first, second))
  IN IF at = 0 THEN Blank ELSE ParserOrder[at][1]
DetectAndParse(first, second) ==
  LET at == SelectInSeq(ParserOrder, LAMBDA entry : CanParse(entry, first, second))
  IN IF at = 0 THEN Blank ELSE ParserOrder[at][1]

(* Bookings may mention other banks, but neither all the marks of a parser nor *)
(* one that is all some statement lacks to look like that of an earlier parser.*)
Confusing == {"Maybank", "RDN", "REKENING KARTU KREDIT", "REKENING TAPRES", "RINGKASAN PORTOFOLIO",
              "ALOKASI ASET", "Tgl. Statement", "Client Portofolio", "CLIENT STATEMENT"}
ASSUME MentionsAssumption ==
  /\ Mentions \cap Confusing = {}
  /\ \A i \in DOMAIN ParserOrder : \A marks \in ParserOrder[i][2] : ~ (marks \subseteq Mentions)

(* What the banks print.  A credit card's title holds the words for a credit   *)
(* card; a consolidated Maybank statement lists the card among its products;   *)
(* CIMB may print its name on the second page.                                 *)
Page(marks) == marks \cup IF "REKENING KARTU KREDIT" \in marks THEN {"KARTU KREDIT"} ELSE {}
Layouts ==
  [p \in Parsers |->
     CASE p = "maybank_consol" -> {<<{"Maybank", "KARTU KREDIT"}, {"RINGKASAN PORTOFOLIO"}>>,
                                   <<{"Maybank", "KARTU KREDIT", "ALOKASI ASET"}, {}>>}
       [] p = "cimb_niaga_cc" -> {<<{"Tgl. Statement", "KARTU KREDIT"}, {"CIMB Niaga"}>>,
                                  <<{"Tgl. Statement", "CIMB Niaga"}, {}>>}
       [] OTHER -> LET i == CHOOSE j \in DOMAIN ParserOrder : ParserOrder[j][1] = p
                   IN {<<Page(marks), {}>> : marks \in ParserOrder[i][2]}]

(* Permata's first page: products with their currency, balance and balance in  *)
(* rupiah, then the bonds.  A line of the accounts' own section ends both.     *)
ProductLine(a) == [k |-> "product", of |-> a.of, currency |-> a.currency, amount |-> a.amount, rupiah |-> a.amount * Rate[a.currency]]
FrontLine(k) == [k |-> k, of |-> Blank, currency |-> "IDR", amount |-> 0, rupiah |-> 0]

LinesOf(text, k) == Picked(text, {i \in DOMAIN text : text[i].k = k})
LastOf(text, at, none) == IF at = {} THEN none ELSE text[Max(at)]

IdrSummary(text) == {i \in SectionAt(text, "summary", {"bonds", "account"}) : text[i].k = "product" /\ text[i].rupiah > 0}
Rupiah(text, product) == LastOf(text, {i \in IdrSummary(text) : text[i].of = product}, [rupiah |-> 0]).rupiah

BondRows(text) == Picked(text, {i \in SectionAt(text, "bonds", {"customer", "account"}) : text[i].k = "bond"})
FxRate(l) == IF l.amount = 0 THEN 1 ELSE l.rupiah \div l.amount
BondSection(text) == [i \in DOMAIN BondRows(text) |-> LET l == BondRows(text)[i] IN [of |-> l.of, value |-> l.amount, fx |-> FxRate(l)]]

(* The dollar account's rate is the one its IDR statement implies; none or     *)
(* several are an error.                                                       *)
UsdRates(text) == {FxRate(l) : l \in {l \in ToSet(text) : l.k = "bond" /\ l.currency = "USD" /\ l.amount > 0}}
PairedRate(text) == IF Cardinality(UsdRates(text)) = 1 THEN CHOOSE rate \in UsdRates(text) : TRUE ELSE Blank

(* Maybank: the accounts of the summary have no numbers; these come from the   *)
(* pages of the accounts, and an account without bookings has no page.         *)
AccountNumber(text, a) ==
  IF \E l \in ToSet(text) : l.k = "account" /\ l.of = a.of /\ l.currency = a.currency THEN <<"number", a.of, a.currency>>
  ELSE IF a.currency # "IDR" THEN <<a.of, a.currency>> ELSE <<>>
RateLine(text, currency) ==
  LastOf(text, {i \in DOMAIN text : text[i].k = "rate" /\ text[i].currency = currency}, [amount |-> 0]).amount
MaybankAccounts(text) ==
  LET rows == LinesOf(text, "product")
  IN [i \in DOMAIN rows |-> [of |-> rows[i].of, number |-> AccountNumber(text, rows[i]), value |-> rows[i].amount]]
MaybankBonds(text) ==
  LET rows == LinesOf(text, "bond")
      fx(l) == IF l.currency = "IDR" THEN 1 ELSE RateLine(text, l.currency)
      value(l) == IF fx(l) > 0 THEN l.rupiah \div fx(l) ELSE 0
  IN [i \in DOMAIN rows |-> [of |-> rows[i].of, value |-> value(rows[i]), fx |-> fx(rows[i])]]

Fronts == {"Permata front", "Maybank front"}
AnyCurrency == Currencies \cup {"IDR"}

FrontInit ==
  /\ \/ bank \in Parsers /\ \E pages \in Layouts[bank] : sheet = [NewSheet EXCEPT !.k = "pages", !.pages = pages]
     \/ bank \in Fronts /\ sheet = [NewSheet EXCEPT !.k = "front", !.text = IF bank = "Permata front" THEN <<FrontLine("summary")>> ELSE <<>>]
  /\ read = NewRead

(* A booking printed on one of the first pages mentions another bank or card.  *)
Mentioned ==
  /\ sheet.k = "pages" /\ sheet.stray < MaxStray
  /\ \E mark \in Mentions, page \in 1 .. 2 :
       sheet' = [sheet EXCEPT !.pages = <<IF page = 1 THEN @[1] \cup {mark} ELSE @[1], IF page = 2 THEN @[2] \cup {mark} ELSE @[2]>>,
                              !.stray = @ + 1]
  /\ UNCHANGED <<bank, read>>

Routed ==
  /\ sheet.k = "pages"
  /\ sheet' = [sheet EXCEPT !.k = "routed"]
  /\ read' = [read EXCEPT !.of = DetectAndParse(sheet.pages[1], sheet.pages[2])]
  /\ UNCHANGED bank

FrontPrints(l, k) ==
  /\ bank \in Fronts /\ sheet' = [sheet EXCEPT !.k = k, !.text = Append(@, l)]
  /\ UNCHANGED <<bank, read>>

Printed(k) == LinesOf(sheet.text, k)
AccountsHeld == Picked(sheet.text, {i \in DOMAIN sheet.text : sheet.text[i].k = "product" /\ \A j \in 1 .. i : sheet.text[j].k # "bonds"})

(* Permata's products have one currency each; Maybank's may have one per       *)
(* account.                                                                    *)
FrontProduct ==
  /\ sheet.k = "front" /\ Len(Printed("product")) < MaxRows
  /\ \E of \in Products, currency \in AnyCurrency, amount \in Figures :
       LET l == [of |-> of, currency |-> currency, amount |-> amount]
       IN /\ \A p \in ToSet(Printed("product")) : p.of # of \/ (bank = "Maybank front" /\ p.currency # currency)
          /\ FrontPrints(ProductLine(l), "front")

FrontBondsHeading ==
  /\ sheet.k = "front" /\ FrontPrints(FrontLine("bonds"), "bonds")

FrontBond ==
  /\ sheet.k = "bonds" /\ Len(Printed("bond")) < MaxRows
  /\ \E of \in Products, currency \in AnyCurrency, amount \in Figures :
       FrontPrints([ProductLine([of |-> of, currency |-> currency, amount |-> amount]) EXCEPT !.k = "bond"], "bonds")

(* Marketing, and lines of it that look like a product.                        *)
FrontCustomer ==
  /\ sheet.k = "bonds" /\ FrontPrints(FrontLine("customer"), "pages of accounts")
FrontStray ==
  /\ sheet.k = "pages of accounts" /\ bank = "Permata front" /\ sheet.text[Len(sheet.text)].k # "product"
  /\ \E of \in Products : FrontPrints([FrontLine("product") EXCEPT !.of = of, !.rupiah = 1], sheet.k)

(* The pages of the accounts; at Maybank of those with bookings.               *)
FrontAccount ==
  /\ sheet.k = "pages of accounts"
  /\ \E a \in ToSet(AccountsHeld) :
       /\ ~ \E l \in ToSet(Printed("account")) : l.of = a.of /\ l.currency = a.currency
       /\ FrontPrints([a EXCEPT !.k = "account"], sheet.k)

FrontRates ==
  /\ sheet.k = "pages of accounts" /\ bank = "Maybank front"
  /\ \E currency \in Currencies :
       /\ currency \notin {l.currency : l \in ToSet(Printed("rate"))}
       /\ FrontPrints([FrontLine("rate") EXCEPT !.currency = currency, !.amount = Rate[currency]], sheet.k)

FrontReads ==
  /\ sheet.k = "pages of accounts"
  /\ bank = "Maybank front" => {l.currency : l \in ToSet(Printed("rate"))} = Currencies
  /\ sheet' = [sheet EXCEPT !.k = "read"]
  /\ read' = IF bank = "Permata front"
             THEN [read EXCEPT !.accounts = [i \in DOMAIN AccountsHeld |-> Rupiah(sheet.text, AccountsHeld[i].of)],
                               !.rows = BondSection(sheet.text), !.currency = PairedRate(sheet.text)]
             ELSE [read EXCEPT !.accounts = MaybankAccounts(sheet.text), !.rows = MaybankBonds(sheet.text)]
  /\ UNCHANGED bank

FrontStep ==
  /\ bank \in Parsers \cup Fronts
  /\ \/ Mentioned \/ Routed \/ FrontProduct \/ FrontBondsHeading \/ FrontBond \/ FrontCustomer
     \/ FrontStray \/ FrontAccount \/ FrontRates \/ FrontReads

(* RoutedToItsParser: a statement is read by the parser written for its        *)
(* layout, whatever its bookings mention and on whichever page the bank puts   *)
(* its name.                                                                   *)
RoutedToItsParser == (bank \in Parsers /\ sheet.k = "routed") => read.of = bank

(* FrontReadAsPrinted: the rupiah value, the bonds and the rate read are those *)
(* printed, and no two accounts of a statement share the identity under which  *)
(* a later one would overwrite the other (maybank_consol.py:98).               *)
BondsPrinted == LET rows == Printed("bond") IN [i \in DOMAIN rows |-> [of |-> rows[i].of, value |-> rows[i].amount, fx |-> Rate[rows[i].currency]]]
FrontReadAsPrinted == (bank \in Fronts /\ sheet.k = "read") =>
  /\ read.rows = BondsPrinted
  /\ \A i \in DOMAIN read.accounts :
       LET a == AccountsHeld[i]
       IN IF bank = "Permata front" THEN read.accounts[i] = a.amount * Rate[a.currency]
          ELSE \A j \in DOMAIN read.accounts :
                 i # j => <<read.accounts[i].of, read.accounts[i].number>> # <<read.accounts[j].of, read.accounts[j].number>>
  /\ bank = "Permata front" =>
       read.currency = IF \E b \in ToSet(Printed("bond")) : b.currency = "USD" THEN Rate["USD"] ELSE Blank
===============================================================================
