----------------------------- MODULE MCAiQueue -----------------------------
(* Small instances of AiQueue and of MailRules: what follows the scan of a    *)
(* mail, and its rules, one or the other in a behaviour.                      *)
EXTENDS AiQueue, MCMailRules

CONSTANTS m1, m2

TwoRows == 1 .. 2

NoRules == [Base EXCEPT !.fresh = {}]
AllRuleRegimes == MCRuleRegimes \cup {NoRules}

MailInit == Init /\ RulesInit /\ (ruleRegime # NoRules => ~ faulty)
OnlyQueue(A) == ruleRegime = NoRules /\ A /\ UNCHANGED ruleVars
OnlyRules(A) == ruleRegime # NoRules /\ A /\ UNCHANGED vars
MailNext == OnlyQueue(Next) \/ OnlyRules(RulesNext)
MailSpec ==
  /\ MailInit /\ [][MailNext]_<<vars, ruleVars>>
  /\ WF_vars(OnlyQueue(Working)) /\ \A i \in Rows : WF_vars(OnlyQueue(BecomeDue(i)))
  /\ WF_ruleVars(OnlyRules(RuleSteps))
=============================================================================
