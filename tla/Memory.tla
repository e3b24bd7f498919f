------------------------------- MODULE Memory -------------------------------
(* The memory of the VMs and, below it on a Windows host, the allocator of   *)
(* the driver.  GuestMemory takes its pages from a pool (PagePool), and      *)
(* HostPages is one.                                                         *)
EXTENDS GuestMemory

CONSTANTS HostPfns,             \* the pages that Windows can give the driver
          PFN_ALLOCATION_COUNT  \* pages of a bucket

VARIABLES use_count, pages_unused, mapped_allocated, pages_allocated

hostVars == <<use_count, pages_unused, mapped_allocated, pages_allocated>>

Host == INSTANCE HostPages WITH Pfns <- HostPfns

ASSUME HostAssumption == Host!HostPagesAssumption

\* The buckets of the Windows host (os/winnt/kernel/alloc.c) are exact.
BucketsExact == Host!BucketsExact

\* The Windows host's allocator is the pool GuestMemory is built on.
ImplementsPool == Host!ImplementsPool
=============================================================================
