------------------------------ MODULE MCMailScan ------------------------------
(* Small instances of MailScan and of PdfRouter: the agent's two ways to read  *)
(* mail, one or the other in a behaviour.                                      *)
EXTENDS MailScan, PdfRouter
MCProviders == <<"model", "rule_based">>
MCFallible == {"model"}
R(source, mails, faults_, accounts, classes, olds) ==
  [source |-> source, mails |-> mails, faults |-> faults_, accounts |-> accounts, classes |-> classes, olds |-> olds]
MCRegimes ==
  { R("mailapp", 3, 1, <<"home">>, {"alerting"}, {FALSE}),
    R("mailapp", 3, 1, <<"home">>, {"other", "promotion"}, BOOLEAN),
    R("imap", 3, 1, <<"home", "work">>, {"alerting"}, BOOLEAN) }
NoMail == R("mailapp", 0, 0, <<"home">>, {}, {})
MCAllRegimes == MCRegimes \cup {NoMail}

(* Attachments: one document in two mails, before or after another of its      *)
(* name; one mail with a locked, a dropped and an open document.               *)
CONSTANTS d1, d2, x1, x2, x3
C(carries_, first, second, passwords_, allowed_, n) ==
  [carries |-> carries_, kind |-> [d \in Docs |-> IF d = d1 THEN first ELSE second],
   passwords |-> passwords_, allowed |-> allowed_, routerFaults |-> n]
Together == [m \in {x1, x2} |-> IF m = x1 THEN <<d1>> ELSE <<d2, d1>>]
Apart == [m \in {x1, x2, x3} |-> IF m = x2 THEN <<d2>> ELSE <<d1>>]
Mixed == [m \in {x1} |-> <<d1, Oversized, d2>>]
MCRouterRegimes ==
  { C(Together, "plain", "plain", FALSE, TRUE, 2),
    C(Apart, "plain", "plain", FALSE, TRUE, 1),
    C(Together, "encrypted", "encrypted", TRUE, TRUE, 2),
    C(Mixed, "unreadable", "plain", TRUE, TRUE, 1),
    C(Mixed, "encrypted", "plain", FALSE, FALSE, 1) }
NoAttachments == C([m \in {} |-> <<>>], "plain", "plain", FALSE, TRUE, 0)
MCAllRouterRegimes == MCRouterRegimes \cup {NoAttachments}

AgentInit == Init /\ RouterInit /\ (regime = NoMail <=> routerRegime # NoAttachments)
OnlyMail(A) == routerRegime = NoAttachments /\ A /\ UNCHANGED routerVars
OnlyAttachments(A) == regime = NoMail /\ A /\ UNCHANGED vars
AgentNext == OnlyMail(Next) \/ OnlyAttachments(RouterNext)
AgentSpec ==
  /\ AgentInit /\ [][AgentNext]_<<vars, routerVars>>
  /\ WF_vars(OnlyMail(AgentStep)) /\ WF_vars(OnlyMail(BridgeStep)) /\ WF_vars(OnlyMail(GoOnline))
  /\ WF_routerVars(OnlyAttachments(RouterStep))
===============================================================================
