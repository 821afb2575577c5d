SPECIFICATION Spec
CONSTANTS
    None = None
    Values = {"x", "y"}
    Config <- MCConfig
    AppIds <- MCAppIds
    Strangers = {"Z"}
    Answers <- MCAnswers
    MaxSwitches = 1
INVARIANTS
    TypeOK
    RestartForgetsNothing
PROPERTIES
    ReturnedCohortIsSent
    AnswerIsForItsApp
