SPECIFICATION FairSpec
CONSTANTS
    Id = {s1, s2}
    Name = {n1}
    MaxEventsPerSession = 2
    DefaultLimit = 2
    Retention = 3
    Width = 4
    MaxLag = 1
    MaxNow = 4
    MaxAppends = 3
INVARIANTS BucketsAgree NewestKept ActiveListed PagesFollowTime
PROPERTIES CloseEnds StaleEvicted
