--------------------------- MODULE StatementReading ---------------------------
(* A bank statement on its way through a parser of src/parsers.  The bank      *)
(* prints one line after the other and the parser reads it in the same step;   *)
(* what the bank knows of the statement is kept in sheet and what the parser   *)
(* has made of it in read.  A parser's loop with its inner loop over wrapped   *)
(* lines is one step of read per line: read.more says that the inner loop      *)
(* would still take the next line.                                             *)
EXTENDS Integers, Sequences, SequencesExt

CONSTANTS
  Blank,
  StatementMonth,     \* month of the statement
  RowDates,           \* <<month, year>> its rows may fall in, the year counted from the statement's
  Figures,            \* amounts
  MaxRows, MaxPages, MaxStray

ASSUME ReadingAssumption ==
  /\ StatementMonth \in 1 .. 12 /\ RowDates \subseteq (1 .. 12) \X {-1, 0}
  /\ \A date \in RowDates : date[2] = IF date[1] > StatementMonth THEN -1 ELSE 0    \* of the last twelve months
  /\ Blank \notin {-1, 0}
  /\ Figures \subseteq Nat \ {0}
  /\ {MaxRows, MaxPages, MaxStray} \subseteq Nat

VARIABLES
  bank,     \* whose statement it is
  sheet,    \* the statement as the bank prints it
  read      \* the variables of the parser

rvars == <<bank, sheet, read>>

(* A line of the text, reduced to what a parser's patterns tell apart.         *)
Line(k) == [k |-> k, of |-> Blank, month |-> StatementMonth, year |-> 0, amount |-> 0, saldo |-> 0, beside |-> 0,
            whole |-> TRUE]

(* One booked transaction: card or account, year (relative to the statement),  *)
(* signed amount, balance, lines of description and foreign currency note.     *)
Row(of, year, amount, saldo) ==
  [of |-> of, year |-> year, amount |-> amount, saldo |-> saldo, lines |-> 1, fx |-> FALSE, whole |-> TRUE]

(* Most rows carry day and month only: a month after the statement's month     *)
(* lies in the year before.                                                    *)
YearOf(month) == IF month > StatementMonth THEN -1 ELSE 0

LastRow(rows, field, value) == [rows EXCEPT ![Len(rows)][field] = value]
Wrapped(rows) == [rows EXCEPT ![Len(rows)].lines = @ + 1]

NewRead == [on |-> FALSE, done |-> FALSE, more |-> FALSE, dated |-> FALSE, of |-> Blank, currency |-> Blank,
            opening |-> 0, closing |-> 0, saldo |-> 0, rows |-> <<>>, accounts |-> <<>>, booked |-> <<>>, error |-> FALSE]
NewSheet == [k |-> "start", of |-> 0, pages |-> 1, stray |-> 0, opening |-> 0, saldo |-> 0, rows |-> <<>>, accounts |-> <<>>,
             booked |-> <<>>, text |-> <<>>]

Ended(r) == [r EXCEPT !.more = FALSE]
Continued(r) == IF r.more THEN [r EXCEPT !.rows = Wrapped(@)] ELSE r

(* The positions of a set in their order and the lines there, a SelectSeq by   *)
(* position; and the positions of a section, which runs from its first heading *)
(* up to the next line in stops.                                               *)
Places(I, n) ==
  LET at[i \in 0 .. n] == IF i = 0 THEN <<>> ELSE IF i \in I THEN Append(at[i - 1], i) ELSE at[i - 1] IN at[n]
Picked(s, I) == LET at == Places(I, Len(s)) IN [j \in DOMAIN at |-> s[at[j]]]
SectionAt(text, heading, stops) ==
  {i \in DOMAIN text : \E h \in 1 .. i :
     /\ text[h].k = heading /\ \A j \in 1 .. (h - 1) : text[j].k # heading
     /\ \A j \in (h + 1) .. i : text[j].k \notin stops}
WholeRows(rows) == Picked(rows, {i \in DOMAIN rows : rows[i].whole})

SumOf(rows) == FoldLeft(LAMBDA total, row: total + row.amount, 0, rows)
===============================================================================
