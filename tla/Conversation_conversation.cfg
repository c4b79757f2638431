SPECIFICATION Spec
CONSTANTS
    Calls = {k1}
    MaxVersion = 4
    MaxQuestions = 2
    Registered = {"twilio", "sarvam"}
INVARIANTS TypeOK EveryQuestionIsReadable AnswersAreRead
CHECK_DEADLOCK FALSE
