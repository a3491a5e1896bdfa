CONSTANTS
    a = a
    b = b
    c = c
    old = old
    new = new
    other = other
    x = x
    list = list
    comma = comma
    true = true
    Names = {a, b, c}
    Values = {x, list, comma, true}
    On = true
    NoDefault = NoDefault
    Joined <- MCJoined
    Writable = {x, comma}
    From <- MCFrom
    Servers = {old, new, other}
    Bindings <- MCBindings
    NotBuilt = NotBuilt
    NotRegistered = NotRegistered
    Calls <- MCCalls
SPECIFICATION Spec
INVARIANT ValuesFollow
INVARIANT SupportTells
INVARIANT RefusesAlike
INVARIANT SeesWhatIsBound
CHECK_DEADLOCK FALSE
