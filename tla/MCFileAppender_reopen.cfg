SPECIFICATION Spec
CONSTANTS
    Callers = {a, b}
    Null = null
    Items = 2
    MaxTime = 3
    MaxFiles = 2
    MaxLines = 3
PROPERTY ReopenAnswers
