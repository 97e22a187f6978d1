SPECIFICATION FairSpec
CONSTANTS
    Client = {q1}
    MaxHeight = 4
    MaxReceded = 1
INVARIANTS
    TypeOK
    ErrorsAreHonest
    ViewDuringRequest
    CurrentHeightSound
PROPERTIES
    AnswersMoveForward
    RequestsAreAnswered
