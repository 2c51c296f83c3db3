\* Four names a request may ask for, messages of up to two of four lines.
SPECIFICATION Spec
CONSTANTS
    Asked = {"", "pi_rpc", "other", "nobody"}
    Registered = {"codex_cli", "pi_rpc", "other"}
    DefaultRunner = ""
    Policies = {"shipped", "several"}
    Lines = {"DONE", "BLOCKED", "JUNK", "talk"}
    Phrases = {"auth", "network"}
    PipeDepth = 1
INVARIANTS
    TypeOK
    NoChildLeft
    AnswerIsTheChilds
PROPERTY RunEnds
