SPECIFICATION FairPublisherSpec
CONSTANTS
    ConnectAttempts = 2
    MaxFaults = 3
    Events = {e1, e2}
    NoEvent = noEvent
CHECK_DEADLOCK FALSE
INVARIANT NoConnectionLeaks
INVARIANT WorkingChannelConfirms
INVARIANT PublisherTypeOK
INVARIANT ReportedIsStored
PROPERTY BrokenLinkIsReplaced
PROPERTY CloseReturns
PROPERTY EveryPublicationReturns
