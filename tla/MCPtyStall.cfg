SPECIFICATION Spec
CONSTANTS
    Viewers = {phone, desk}
    High = 2
    Low = 1
    MaxPerSession = 2
    MaxScroll = 4
    MaxRead = 5
PROPERTY ShortQueueResumes
CHECK_DEADLOCK FALSE
