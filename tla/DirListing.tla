----------------------------- MODULE DirListing -----------------------------
(***************************************************************************)
(* How the guest lists a directory of cofs: the first FUSE_DIR_OPEN takes  *)
(* the names the host has, all that open it later share them, and each     *)
(* reads a buffer at a time from a position that counts bytes.             *)
(***************************************************************************)
EXTENDS Integers, Sequences, SequencesExt, FiniteSets

CONSTANTS
    Readers,       \* open directory files of the guest
    Files,         \* the names a directory can hold
    Size,          \* the size of an entry with that name: none is cut to fit dirent.name
    BufSize        \* DIR_BUFSIZE

SizesFit ==
    /\ IsFiniteSet(Readers) /\ IsFiniteSet(Files)
    /\ BufSize \in Nat /\ \A f \in Files : Size[f] \in 1..BufSize

VARIABLES
    dir,           \* what the host's directory holds
    names,         \* inode->names: the list, or none
    refcount,
    reader         \* each open file: its position, the names it was given, was it told the end

listVars == <<dir, names, refcount, reader>>

NoList == [taken |-> FALSE, list |-> <<>>]
Closed == [open |-> FALSE, pos |-> 0, got |-> <<>>, end |-> FALSE]
AtStart == [open |-> TRUE, pos |-> 0, got |-> <<>>, end |-> FALSE]

Init == /\ dir \in SUBSET Files
        /\ names = NoList /\ refcount = 0
        /\ reader = [r \in Readers |-> Closed]
-----------------------------------------------------------------------------
\* co_os_file_getdir: the names as the host orders them; without memory it fails.
Getdir(list) == /\ list \in SetToSeqs(dir)
                /\ names' = [taken |-> TRUE, list |-> list] /\ refcount' = 1

\* inode_dir_open
Open(r) ==
    /\ ~reader[r].open
    /\ IF names.taken THEN refcount' = refcount + 1 /\ UNCHANGED names
                      ELSE \E list \in SetToSeqs(dir) : Getdir(list)
    /\ reader' = [reader EXCEPT ![r] = AtStart]
    /\ UNCHANGED dir

\* The bytes of the first n entries.
Bytes[n \in 0..Len(names.list)] == IF n = 0 THEN 0 ELSE Bytes[n - 1] + Size[names.list[n]]

\* How many entries inode_dir_read skips: those that begin before the position.
Skipped(pos) == Cardinality({i \in DOMAIN names.list : Bytes[i - 1] < pos})

\* After k entries are skipped, the next n are there and fit in the buffer.
Fit(k, n) == k + n <= Len(names.list) /\ Bytes[k + n] - Bytes[k] <= BufSize

\* inode_dir_read fills the buffer; parse_dirfile: the guest takes n entries of it, and
\* moves on by their sizes.
Read(r, n) ==
    LET k == Skipped(reader[r].pos) IN
    /\ reader[r].open /\ ~reader[r].end
    /\ Fit(k, n) /\ (n = 0 => ~Fit(k, 1))
    /\ reader' = [reader EXCEPT
         ![r].got = @ \o SubSeq(names.list, k + 1, k + n),
         ![r].pos = @ + Bytes[k + n] - Bytes[k],
         ![r].end = ~Fit(k, 1)]
    /\ UNCHANGED <<dir, names, refcount>>

\* rewinddir
Rewind(r) ==
    /\ reader[r].open /\ reader[r].pos > 0
    /\ reader' = [reader EXCEPT ![r] = AtStart]
    /\ UNCHANGED <<dir, names, refcount>>

\* inode_dir_release: the last one frees the list.
Release(r) ==
    /\ reader[r].open
    /\ reader' = [reader EXCEPT ![r] = Closed]
    /\ refcount' = refcount - 1
    /\ names' = IF refcount' = 0 THEN NoList ELSE names
    /\ UNCHANGED dir

HostChange(f) ==
    /\ dir' = IF f \in dir THEN dir \ {f} ELSE dir \cup {f}
    /\ UNCHANGED <<names, refcount, reader>>

Next ==
    \/ \E r \in Readers :
         Open(r) \/ Rewind(r) \/ Release(r) \/ \E n \in 0..Cardinality(Files) : Read(r, n)
    \/ \E f \in Files : HostChange(f)

Spec == Init /\ [][Next]_listVars
-----------------------------------------------------------------------------
\* Whoever lists a directory is given each name once, in the order of the host, and is told
\* the end after the last one: however much of each buffer was taken, while other programs
\* of the guest open, rewind and close the same list and the host's directory changes.
ListingExact ==
    /\ refcount = Cardinality({r \in Readers : reader[r].open})
    /\ names.taken <=> refcount > 0
    /\ \A r \in Readers : reader[r].open =>
         /\ IsPrefix(reader[r].got, names.list)
         /\ reader[r].end => reader[r].got = names.list
=============================================================================
