CONSTANTS
    MaxRetries = 3
    StatusCodes = {200, 404, 500}
SPECIFICATION Spec
INVARIANT AttemptsBounded
INVARIANT OnlyFailuresRetried
INVARIANT CancelStopsRetries
PROPERTY EventuallyReturns
CHECK_DEADLOCK FALSE
