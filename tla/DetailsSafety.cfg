SPECIFICATION Spec
CONSTANTS
    letter = letter
    link = link
    a = a
    b = b
    Detail = {letter, link}
    Letter = letter
    Link = link
    Val = {a, b}
    Blank = Blank
    Page = Page
    Ours = Ours
    NoState = NoState
    NoForm = NoForm
    NoPayload = NoPayload
    FirstSource <- LetterOnly
    FirstRow <- PageOnly
    MaxMoves = 1
    MaxSaves = 2
INVARIANT TypeOK
PROPERTIES KeptForPerson HandEditStands CalendarReachesProd
CHECK_DEADLOCK FALSE
