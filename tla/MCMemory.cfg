CONSTANTS
    v1 = v1
    v2 = v2
    p1 = p1
    p2 = p2
    p3 = p3
    p4 = p4
    p5 = p5
    low = low
    top = top
    Vms = {v1, v2}
    Pfns <- MCPfns
    High <- MCHigh
    Uncovered <- MCUncovered
    PTRS_PER_PTE = 2
    physical_frames = 3
    reversed_page_count = 1
    hostmem_usage_limit = 6
    Zeroed = TRUE
    None = None
    HostPfns <- MCPlain
    PFN_ALLOCATION_COUNT = 2
SYMMETRY MCSymmetry
SPECIFICATION MCSpec
INVARIANT  BucketsExact
PROPERTY ImplementsPool
