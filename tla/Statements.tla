------------------------------ MODULE Statements ------------------------------
(* Every statement of src/parsers, one per behaviour.                          *)
EXTENDS CardStatements, AccountStatements, PortfolioStatements, StatementFronts

StatementsInit == CardInit \/ AccountInit \/ PortfolioInit \/ FrontInit
StatementsNext == CardStep \/ AccountStep \/ PortfolioStep \/ FrontStep
StatementsSpec == StatementsInit /\ [][StatementsNext]_rvars

(* Every statement is read as it was printed (the can_parse and parse of every *)
(* parser in src/parsers).                                                     *)
ReadAsPrinted ==
  /\ CardReadAsPrinted
  /\ AccountReadAsPrinted
  /\ HoldingsReadAsPrinted
  /\ CashReadAsPrinted
  /\ FrontReadAsPrinted
===============================================================================
