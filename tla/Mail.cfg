SPECIFICATION FairMailSpec
CONSTANTS
    Calls = {c1, c2}
    FailureThreshold = 3
    SuccessThreshold = 2
    Mails = {m1, m2}
    NoMail = NoMail
    MaxAttempts = 3
    MaxReconnects = 2
INVARIANTS
    MailTypeOK
    CountsFitState
    NoLostMail
    OneAnswers
PROPERTIES
    ImplementsBreaker
    MailsHandled
CHECK_DEADLOCK FALSE
