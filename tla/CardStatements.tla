---------------------------- MODULE CardStatements ----------------------------
(* The credit card parsers: parsers/bca_cc.py, cimb_niaga_cc.py, maybank_cc.py *)
(* and permata_cc.py.                                                          *)
EXTENDS StatementReading

CONSTANTS
  Cards,       \* card numbers of the statement in the order printed, the primary card first
  NameOn,      \* [card -> name printed on it]
  Mapped,      \* the keywords of owner_mappings that names contain
  Owner        \* [keyword -> owner]

CardBanks == {"BCA CC", "CIMB CC", "Maybank CC", "Permata CC"}

(* _detect_owner: the owner of the keyword in the name, else the default.      *)
DetectOwner(name, default) == IF name \in Mapped THEN Owner[name] ELSE default
PrimaryOwner == DetectOwner(NameOn[Cards[1]], Blank)
OwnerOf(card) == DetectOwner(NameOn[card], PrimaryOwner)

Booked(r, l, year) == Append(r.rows, [Row(<<r.of, OwnerOf(r.of)>>, year, l.amount, 0) EXCEPT !.whole = l.whole])

(* A note on the foreign amount belongs to the last row, on whatever page.     *)
NotedAnywhere(r) == IF r.rows = <<>> THEN r ELSE [r EXCEPT !.rows = LastRow(@, "fx", TRUE), !.more = FALSE]
(* The note is looked for in the joined description of the row.                *)
NotedInRow(r) == IF r.more THEN [r EXCEPT !.rows = LastRow(@, "fx", TRUE)] ELSE r

ReadBcaCC(r, l) ==
  CASE l.k = "row" -> [r EXCEPT !.rows = Booked(r, l, YearOf(l.month)), !.more = TRUE]
    [] l.k = "text" -> Continued(r)
    [] OTHER -> Ended(r)

(* The table is entered again on every page and left at the reward points.     *)
ReadPermataCC(r, l) ==
  CASE l.k = "enter" -> [Ended(r) EXCEPT !.on = TRUE]
    [] l.k = "leave" -> [Ended(r) EXCEPT !.on = FALSE]
    [] l.k = "card" /\ r.on -> [Ended(r) EXCEPT !.of = l.of]
    [] l.k = "note" /\ r.on -> NotedAnywhere(r)
    [] l.k = "row" /\ r.on -> [r EXCEPT !.rows = Booked(r, l, YearOf(l.month)), !.more = TRUE]
    [] l.k = "text" /\ r.on -> Continued(r)
    [] OTHER -> Ended(r)

(* The section is left for good at the summary.                                *)
ReadCimbCC(r, l) ==
  IF r.done THEN r ELSE
  CASE l.k = "enter" -> [Ended(r) EXCEPT !.on = TRUE]
    [] l.k = "leave" /\ r.on -> [Ended(r) EXCEPT !.done = TRUE]
    [] l.k = "opening" /\ r.on -> [Ended(r) EXCEPT !.opening = l.amount]
    [] l.k = "closing" /\ r.on -> [Ended(r) EXCEPT !.closing = l.amount]
    [] l.k = "card" /\ r.on -> [Ended(r) EXCEPT !.of = l.of]
    [] l.k = "row" /\ r.on -> [r EXCEPT !.rows = Booked(r, l, YearOf(l.month)), !.more = TRUE]
    [] l.k = "note" /\ r.on -> NotedInRow(r)
    [] l.k = "text" /\ r.on -> Continued(r)
    [] OTHER -> Ended(r)

(* The wrapped lines are joined before the amount is looked for at the end.    *)
Joined(r, l) == IF r.more THEN [r EXCEPT !.rows = LastRow(Wrapped(@), "whole", l.k = "rest")] ELSE r

(* Only the block up to END OF STATEMENT is read; the rate ends its row.       *)
ReadMaybankCC(r, l) ==
  IF r.done THEN r ELSE
  CASE l.k = "enter" -> [r EXCEPT !.on = TRUE]
    [] l.k = "leave" /\ r.on -> [Ended(r) EXCEPT !.done = TRUE]
    [] l.k = "opening" /\ r.on -> [Ended(r) EXCEPT !.rows = <<Row(<<r.of, OwnerOf(r.of)>>, 0, l.amount, 0)>> \o @]
    [] l.k = "row" /\ r.on -> [r EXCEPT !.rows = Booked(r, l, l.year), !.more = TRUE]
    [] l.k \in {"text", "rest"} /\ r.on -> Joined(r, l)
    [] l.k = "note" /\ r.on -> Ended(NotedInRow(r))
    [] OTHER -> Ended(r)

ReadCard(r, l) ==
  CASE bank = "BCA CC" -> ReadBcaCC(r, l)
    [] bank = "CIMB CC" -> ReadCimbCC(r, l)
    [] bank = "Maybank CC" -> ReadMaybankCC(r, l)
    [] bank = "Permata CC" -> ReadPermataCC(r, l)

(* A row whose joined line does not end in an amount is dropped.               *)
CardRows == WholeRows(read.rows)

CardInit ==
  /\ bank \in CardBanks
  /\ sheet = [NewSheet EXCEPT !.of = 1]
  /\ read = [NewRead EXCEPT !.of = Cards[1]]

PrintCard(l, k, s) ==
  /\ sheet' = [s EXCEPT !.k = k]
  /\ read' = ReadCard(read, l)
  /\ UNCHANGED bank

Open == {"enter", "opening", "row", "text", "rest", "note", "stray", "card"}
RowIsWhole == sheet.rows # <<>> => sheet.rows[Len(sheet.rows)].whole
Between == sheet.k \in Open /\ RowIsWhole
CardDue == sheet.opening + SumOf(sheet.rows)

(* The statement as its bank prints it.                                        *)
CardOpens == sheet.k = "start" /\ PrintCard(Line("enter"), "enter", sheet)

CardOpening ==
  /\ sheet.k = "enter" /\ sheet.rows = <<>> /\ sheet.opening = 0 /\ sheet.pages = 1
  /\ bank \in {"CIMB CC", "Maybank CC"}
  /\ \E amount \in Figures \cup IF bank = "CIMB CC" THEN {-v : v \in Figures} ELSE {}:
       PrintCard([Line("opening") EXCEPT !.amount = amount], "opening",
         IF bank = "CIMB CC" THEN [sheet EXCEPT !.opening = amount]
         ELSE [sheet EXCEPT !.rows = <<Row(<<Cards[1], OwnerOf(Cards[1])>>, 0, amount, 0)>>])

(* A purchase or a payment; Maybank may wrap the line before its amount.       *)
CardRow ==
  /\ Between /\ Len(sheet.rows) < MaxRows
  /\ \E date \in RowDates, value \in Figures, credit \in BOOLEAN, whole \in {TRUE, bank # "Maybank CC"}:
       LET amount == IF credit THEN -value ELSE value
           row == Row(<<Cards[sheet.of], OwnerOf(Cards[sheet.of])>>, date[2], amount, 0)
       IN PrintCard([Line("row") EXCEPT !.month = date[1], !.year = date[2], !.amount = amount, !.whole = whole], "row",
            [sheet EXCEPT !.rows = Append(@, [row EXCEPT !.whole = whole])])

CardWraps ==
  /\ sheet.k \in {"row", "text"} /\ sheet.rows[Len(sheet.rows)].lines < 2
  /\ bank = "Maybank CC" => ~RowIsWhole
  /\ PrintCard(Line("text"), "text", [sheet EXCEPT !.rows = Wrapped(@)])

CardRest ==
  /\ sheet.k \in {"row", "text"} /\ ~RowIsWhole
  /\ PrintCard(Line("rest"), "rest", [sheet EXCEPT !.rows = LastRow(Wrapped(@), "whole", TRUE)])

(* The note on a foreign amount; at Permata it may move to the next page.      *)
CardNote ==
  /\ sheet.rows # <<>> /\ RowIsWhole /\ ~sheet.rows[Len(sheet.rows)].fx
  /\ sheet.k \in {"row", "text", "rest"} \cup IF bank = "Permata CC" THEN {"enter", "stray"} ELSE {}
  /\ bank # "BCA CC"
  /\ PrintCard(Line("note"), "note", [sheet EXCEPT !.rows = LastRow(@, "fx", TRUE)])

(* The rows of the next card follow under its number and name.                 *)
CardNext ==
  /\ Between /\ bank \in {"CIMB CC", "Permata CC"} /\ sheet.of < Len(Cards)
  /\ PrintCard([Line("card") EXCEPT !.of = Cards[sheet.of + 1]], "card", [sheet EXCEPT !.of = @ + 1])

(* Headers, subtotals, page numbers and empty lines inside the table.          *)
CardStray ==
  /\ Between /\ sheet.stray < MaxStray
  /\ PrintCard(Line("stray"), "stray", [sheet EXCEPT !.stray = @ + 1])

(* The reward points of a Permata page end its table; their lines may look     *)
(* like rows.                                                                  *)
CardPoints ==
  /\ Between /\ bank = "Permata CC" /\ PrintCard(Line("leave"), "outside", sheet)

CardOutside ==
  /\ sheet.k = "outside" /\ sheet.stray < MaxStray
  /\ PrintCard([Line("row") EXCEPT !.amount = 1], "outside", [sheet EXCEPT !.stray = @ + 1])

(* The table goes on, on the next page, under the same heading.                *)
CardPage ==
  /\ Between \/ sheet.k = "outside"
  /\ bank \in {"CIMB CC", "Permata CC"} /\ sheet.pages < MaxPages
  /\ PrintCard(Line("enter"), "enter", [sheet EXCEPT !.pages = @ + 1])

CardTotal ==
  /\ Between /\ bank = "CIMB CC"
  /\ PrintCard([Line("closing") EXCEPT !.amount = CardDue], "total", sheet)

CardCloses ==
  /\ IF bank = "CIMB CC" THEN sheet.k = "total" ELSE Between \/ sheet.k = "outside"
  /\ PrintCard(Line("leave"), "closed", sheet)

CardStep ==
  /\ bank \in CardBanks
  /\ \/ CardOpens \/ CardOpening \/ CardRow \/ CardWraps \/ CardRest \/ CardNote
     \/ CardNext \/ CardStray \/ CardPoints \/ CardOutside \/ CardPage \/ CardTotal
     \/ CardCloses

(* CardReadAsPrinted: the transactions read are the ones printed, in order, each   *)
(* with its card, owner, year, sign, description and note, and CIMB's opening  *)
(* and closing balance are those of the statement.                             *)
CardReadAsPrinted == (bank \in CardBanks /\ sheet.k = "closed") =>
  /\ CardRows = sheet.rows
  /\ bank = "CIMB CC" => read.opening = sheet.opening /\ read.opening + SumOf(CardRows) = read.closing
===============================================================================
