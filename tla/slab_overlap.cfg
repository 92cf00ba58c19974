SPECIFICATION Spec
CONSTANTS
    SK_PAGE_SIZE = 4096
    SK_ZONE_RELEASE_NUM = 2
    num_pages = 9
    sys_zone_size = 32768
    Request = {1152, 1153}
    MaxLive <- TwoOfEach
INVARIANT BlocksApart
CHECK_DEADLOCK FALSE
