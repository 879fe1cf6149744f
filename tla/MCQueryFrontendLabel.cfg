CONSTANTS
    MaxRetries = 2
    StatusCodes = {200, 404, 500}
SPECIFICATION Spec
INVARIANT LabelIsResponseStatus
CHECK_DEADLOCK FALSE
