SPECIFICATION Spec
CONSTANTS
    NumConfigs = 2
    Props = {"maxEventsPerPost", "queueDrainInterval"}
    Forwarded = {"maxEventsPerPost"}
    Unset = Unset
    Default <- MCDefault
    Versions = {"v1", "v2"}
    SettingsOf <- MCSettingsOf
    IntervalOf <- MCIntervalOf
    NoEtag = NoEtag
    NoEntry = NoEntry
    Unreadable = Unreadable
    MaxShift = 1
    MaxInterval = 2
    MaxElapsed = 1
INVARIANTS
    LimitsFollowConfig
    EntryIsCurrent
    EtagMatchesData
