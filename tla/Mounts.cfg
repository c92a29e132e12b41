\* Two programs, two names; files of a page and a half.
SPECIFICATION Spec
CONSTANTS
    c1 = c1
    c2 = c2
    Clients = {c1, c2}
    Names = {"a", "b"}
    Elsewhere = "elsewhere"
    Uses = {"data", "names", "attributes"}
    MaxNodes = 3
    Umask = {"others"}
    MaxSize = 3
    Page = 2
    MaxFiles = 4
    MaxCalls = 4
    NoRequest = NoRequest
    NoMessage = NoMessage
    NoAnswer = NoAnswer
    NoResult = NoResult
    Broken = Broken
PROPERTIES MountIsLocal
\* The calls are bounded.
CHECK_DEADLOCK FALSE
