SPECIFICATION Spec
CONSTANTS
    Requests = {r1, r2}
    Off = Off
    MaxAge = 3
    Reserve = 2
    Price = 2
    MaxTokens = 4
    MaxWindows = 1
    Scenarios <- MCScenarios
    Replies <- MCReplies
    Failures <- MCFailures
    MaxRedirects = 1
    MaxFrames = 1
INVARIANT HttpsOnlyHolds
