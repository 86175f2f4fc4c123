CONSTANTS
    Undefined = Undefined
    Empty = Empty
    MaxBound = 2
    InputNames <- FormNames
    Segments = {"*", "a", "b"}
    InputValues = {one, two}
    MaxGroup = 3
    user = user
    mail = mail
    Fields = {user, mail}
    Loaded = {user}
    Markup <- TwoFields
    Replaced = {user}
    Values = {Empty, good, bad}
    Accepted = {good}
    MaxEdits = 3
SPECIFICATION Spec
CHECK_DEADLOCK FALSE
INVARIANTS
    TypeOK
    RequestsAreCounted
    SentFormIsValid
    ShownAsChecked
    RulesAgreeWithMarkup
    RulesReadTheRightFields
PROPERTIES
    WaitingSubmitIsDecided
