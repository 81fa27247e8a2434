SPECIFICATION Spec
CONSTANTS
    t1 = t1
    t2 = t2
    email = email
    card = card
    x = x
    NotSent = NotSent
    NoAnswer = NoAnswer
    Skipped = Skipped
    NoEntry = NoEntry
    Tables = {t1, t2}
    Columns = {email, card}
    Aliases = {x}
    Args = {1, 2}
    TableOf <- MCTableOf
    Queries <- MCQueries
    Policies <- MCPolicies
INVARIANT
    ExecutedIsSent
CHECK_DEADLOCK FALSE
