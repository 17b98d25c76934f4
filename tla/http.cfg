CONSTANTS
    Ids = {1, 2, 3}
    Answers <- MCAnswers
    SizeRange = 1024
    MaxAnswers = 3
SPECIFICATION FairSpec
INVARIANTS
    TypeOK
    TakenAsMeant
PROPERTIES
    AnswerIsTaken
