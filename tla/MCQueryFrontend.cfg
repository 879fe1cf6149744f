CONSTANTS
    MaxRetries = 2
    StatusCodes = {200, 404, 500}
SPECIFICATION Spec
INVARIANT FormatHonoured
INVARIANT ContextEndAnswered
CHECK_DEADLOCK FALSE
