SPECIFICATION Spec
CONSTANTS
    SK_PAGE_SIZE = 4096
    SK_ZONE_RELEASE_NUM = 1
    num_pages = 28
    sys_zone_size = 32768
    Request = {8000, 7000, 9000}
    MaxLive <- FewBlocks
INVARIANTS
    BlocksApart
    PagesConserved
    RunsJoined
    ZonesCounted
    UsageLeadsBack
CHECK_DEADLOCK FALSE
