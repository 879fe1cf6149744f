CONSTANTS
    MaxRetries = 3
    StatusCodes = {200, 404, 500}
SPECIFICATION Spec
INVARIANT RetriesObservedExactly
CHECK_DEADLOCK FALSE
