SPECIFICATION Spec
CONSTANTS
    QuestionCap = 4
    MaxReprompts = 2
    MaxClarifications = 3
INVARIANTS
    TypeOK
    EveryQuestionIsNew
PROPERTIES
    BriefOnReadyDraft
    AwaitingIsAsked
    PreviewIsNamed
