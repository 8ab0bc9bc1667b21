\* The browser and its transfers in both directions, over a server that may be
\* late, refuse or go away.
CONSTANTS
    Names <- MCNames
    Hidden = {"x"}
    Contents = {"L", "R"}
    Chunks = 2
    MaxId = 5
    Requests <- FileRequests
    Replies <- FileReplies
    Worlds <- MCWorlds
    Unset = Unset
    MaxKeys = 2
    MaxFaults = 1
SPECIFICATION Spec
INVARIANTS TypeOK OwnReply CountedIsWhole AskedBeforeReplacing ReplacedNotLost PartsAccounted
PROPERTIES DesyncEnds FlowReturns
