SPECIFICATION Spec
CONSTANTS
    Calls = {c1}
    FailureThreshold = 1
    SuccessThreshold = 1
    Mails <- MCMails
    NoMail = 0
    MaxAttempts = 1
    MaxReconnects = 1
    Users = {u1, u2}
    Procs = {p1, p2}
    NoUser = NoUser
INVARIANTS
    AccountsTypeOK
    ActiveWasMailed
    OneRegistration
CHECK_DEADLOCK FALSE
