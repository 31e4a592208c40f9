CONSTANTS
  m1 = m1
  m2 = m2
  None = None
  Rows <- TwoRows
  Messages = {m1, m2}
  Triggers = {t1}
  MaxAttempts = 2
  Regimes = {TRUE, FALSE}
  ra = ra
  rb = rb
  RuleMails = {ra, rb}
  TextOf <- MCText
  AccountOf <- MCAccount
  Lower <- MCLower
  AtSign = "@"
  Broken = "("
  RuleIds <- MCRuleIds
  Questions <- MCQuestions
  RuleRegimes <- AllRuleRegimes
SPECIFICATION MailSpec
INVARIANTS
  QueueIsSound
  MailsAreAccounted
  RulesAreObeyed
  ReadyIsExecutable
PROPERTIES
  EveryRowSettles
  EveryMatchIsAnswered
  EffectsWereTold
  RepairedRulesDrain
CHECK_DEADLOCK FALSE
