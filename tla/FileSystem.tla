----------------------------- MODULE FileSystem -----------------------------
(***************************************************************************)
(* cofs: a directory of the host as a file system of the guest.            *)
(* kernel/filesystem.c keeps a tree of the inodes the guest has looked up, *)
(* by number, and makes from it the path of each operation; Linux and the  *)
(* cofs driver (src/patch) keep dentries and inodes of their own, and send *)
(* FORGET when they drop an inode.  A call of the guest to the host is one *)
(* step, but a lookup and the use of the number it returned are two.       *)
(***************************************************************************)
EXTENDS Integers, Sequences, SequencesExt, FiniteSets

CONSTANTS
    Dentries,      \* the dentries a guest can have at a time
    FileNames, DirNames,   \* directories are in the root only
    MaxIno,        \* bound: the numbers given to inodes
    MaxOpens,      \* bound: a dentry is open so often
    Root, None

Names == FileNames \cup DirNames

ASSUME FileSystemAssumption ==
    /\ MaxIno \in Nat \ {0} /\ MaxOpens \in Nat
    /\ FileNames \cap DirNames = {} /\ None \notin Names
    /\ IsFiniteSet(Dentries) /\ Root \notin Dentries

VARIABLES
    \* the host
    inode,         \* by number: parent, name, references of the names list
    place,         \* by number: where the lists sub_inodes have it, or will have it
    next_inode_num,
    disk,          \* the paths that exist
    \* the guest
    icache,        \* by number: none, live or freeing (I_FREEING)
    dentry,
    task,          \* a lookup or creation between the host's answer and iget
    \* what happened
    raced,         \* iget made an inode the host had been told to forget
    reborn,        \* a number was given again to the name of a file removed and still open
    nomem          \* there was no memory for the new name of an inode

hostVars  == <<inode, place, next_inode_num>>
guestVars == <<icache, dentry, task, raced, reborn>>
vars == <<hostVars, disk, guestVars, nomem>>

Numbers  == 1..MaxIno
Children == 2..MaxIno
Free     == [live |-> FALSE, parent |-> 0, name |-> None, refcount |-> 0]
Unused   == [ino |-> 0, parent |-> None, name |-> None, hashed |-> FALSE, open |-> 0]

Init ==
    /\ inode = [n \in Numbers |-> IF n = 1 THEN [Free EXCEPT !.live = TRUE] ELSE Free]
    /\ place = [n \in Children |-> n] /\ next_inode_num = 2
    /\ disk \in SUBSET {<<x>> : x \in Names}
    /\ icache = [n \in Numbers |-> "none"]
    /\ dentry = [d \in Dentries |-> Unused]
    /\ task = None /\ raced = FALSE /\ reborn = FALSE /\ nomem = FALSE
-----------------------------------------------------------------------------
(* The host's tree.                                                        *)

\* co_os_fs_inode_to_path: no inode, or one without a name, is the base path.
PathOf(n) ==
    IF n = 0 \/ ~inode[n].live \/ inode[n].name = None THEN <<>>
    ELSE LET p == inode[n].parent
         IN  IF p = 0 \/ ~inode[p].live \/ inode[p].name = None THEN <<inode[n].name>>
             ELSE <<inode[p].name, inode[n].name>>

\* The first inode of that name, or 0.
FindInode(p, x) ==
    LET named == {n \in Children : inode[n].parent = p /\ inode[n].name = x}
    IN  IF named = {} THEN 0 ELSE CHOOSE n \in named : \A m \in named : place[n] <= place[m]

Number(p, x) == IF FindInode(p, x) # 0 THEN FindInode(p, x) ELSE next_inode_num

\* The inode of that name is found, or made and put last.
FindOrAlloc(p, x) ==
    IF FindInode(p, x) # 0 THEN UNCHANGED hostVars
    ELSE /\ next_inode_num <= MaxIno
         /\ inode' = [inode EXCEPT ![next_inode_num] =
                        [live |-> TRUE, parent |-> p, name |-> x, refcount |-> 0]]
         /\ next_inode_num' = next_inode_num + 1
         /\ UNCHANGED place

\* Mutant of Reparent: the inode is put last.
Reparent_Tail(n) ==
    LET last == next_inode_num - 1
    IN  place' = [m \in Children |-> IF m = n THEN last
                                     ELSE IF place[m] \in (place[n] + 1)..last THEN place[m] - 1
                                     ELSE place[m]]

\* reparent_inode: the inode is put first, before another that has its new name.
Reparent(n) ==
    place' = [m \in Children |-> IF m = n THEN 2
                                 ELSE IF place[m] < place[n] THEN place[m] + 1
                                 ELSE place[m]]

\* free_inode_with_children; a number that is not known is none.
Forgotten(n) ==
    IF inode[n].live THEN {m \in Numbers : m = n \/ (inode[m].live /\ inode[m].parent = n)}
                     ELSE {}

FreeInodes(N) == inode' = [n \in Numbers |-> IF n \in N THEN Free ELSE inode[n]]
-----------------------------------------------------------------------------
(* The guest's caches.                                                     *)

Runs == ~raced /\ ~nomem

InoOf(p) == IF p = Root THEN 1 ELSE dentry[p].ino
Used(d)  == dentry[d].ino # 0
Below(p) == {d \in Dentries : Used(d) /\ dentry[d].parent = p}
Hashed(p, x) == {d \in Below(p) : dentry[d].hashed /\ dentry[d].name = x}
IsDir(d) == dentry[d].name \in DirNames
Walked   == {Root} \cup {d \in Dentries : Used(d) /\ dentry[d].hashed /\ IsDir(d)}

\* An operation in a directory holds the lock of it.
Locked(p) == task # None /\ task.parent = p

NameIn(p, x) == x \in DirNames => p = Root
At(p, x) == Append(PathOf(InoOf(p)), x)

\* co_os_file_get_attr, co_os_file_mknod and mkdir, co_os_file_unlink
Exists(path)     == path \in disk
MakeFile(path)   == path \notin disk /\ disk' = disk \cup {path}
RemoveFile(path) == /\ path \in disk /\ \A q \in disk : ~(Len(q) = 2 /\ Front(q) = path)
                    /\ disk' = disk \ {path}
-----------------------------------------------------------------------------
\* fuse_lookup: a path the host has is answered with a number.
Lookup(p, x) ==
    /\ Runs /\ task = None /\ NameIn(p, x)
    /\ Hashed(p, x) = {}
    /\ Exists(At(p, x))
    /\ FindOrAlloc(InoOf(p), x)
    /\ task' = [parent |-> p, name |-> x, ino |-> Number(InoOf(p), x)]
    /\ UNCHANGED <<disk, icache, dentry, raced, reborn, nomem>>

\* fuse_mknod, or fuse_mkdir with the lookup it makes: the host has to make the file.
Create(p, x) ==
    /\ Runs /\ task = None /\ NameIn(p, x)
    /\ Hashed(p, x) = {}
    /\ MakeFile(At(p, x))
    /\ FindOrAlloc(InoOf(p), x)
    /\ task' = [parent |-> p, name |-> x, ino |-> Number(InoOf(p), x)]
    /\ UNCHANGED <<icache, dentry, raced, reborn, nomem>>

\* fuse_iget waits for an inode of that number that is being freed.
Iget(d) ==
    /\ Runs /\ task # None /\ ~Used(d)
    /\ icache[task.ino] # "freeing"
    /\ icache' = [icache EXCEPT ![task.ino] = "live"]
    /\ dentry' = [dentry EXCEPT ![d] = [ino |-> task.ino, parent |-> task.parent,
                                        name |-> task.name, hashed |-> TRUE, open |-> 0]]
    /\ task' = None
    /\ raced' = ~inode[task.ino].live
    /\ reborn' = (reborn \/ \E e \in Dentries : dentry[e].ino = task.ino /\ ~dentry[e].hashed)
    /\ UNCHANGED <<hostVars, disk, nomem>>

Unhash(d) == dentry' = [dentry EXCEPT ![d].hashed = FALSE]

\* fuse_unlink, fuse_rmdir; the host's tree is left as it is.
Delete(d) == LET p == dentry[d].parent IN
    /\ Runs /\ Used(d) /\ dentry[d].hashed /\ ~Locked(p)
    /\ IsDir(d) => {e \in Below(d) : dentry[e].hashed} = {} /\ ~Locked(d)
    /\ RemoveFile(At(p, dentry[d].name))
    /\ Unhash(d)
    /\ UNCHANGED <<hostVars, icache, task, raced, reborn, nomem>>

\* The paths after a file or directory has moved, and replaced what was there.
Moved(from, to) ==
    {q \in disk : q # from /\ q # to /\ ~(Len(q) = 2 /\ Front(q) \in {from, to})}
    \cup {to} \cup {to \o <<Last(q)>> : q \in {r \in disk : Len(r) = 2 /\ Front(r) = from}}

\* inode_rename: without memory the inode has no name, and the guest is told of the failure.
RenameInode(n, p, x, ok) ==
    /\ inode' = [inode EXCEPT ![n].parent = p, ![n].name = IF ok THEN x ELSE None]
    /\ Reparent(n)
    /\ nomem' = ~ok

MoveDentry(d, p, x) ==
    [e \in Dentries |-> IF e = d THEN [dentry[d] EXCEPT !.parent = p, !.name = x]
                        ELSE IF e \in Hashed(p, x) THEN [dentry[e] EXCEPT !.hashed = FALSE]
                        ELSE dentry[e]]

\* fuse_rename: the host renames the file and then its inode; d_move gives the dentry its
\* place and takes the dentry it replaces out of the hash.
Rename(d, p, x, ok) ==
    LET o    == dentry[d].parent
        from == At(o, dentry[d].name)
        to   == At(p, x)
        n    == FindInode(InoOf(o), dentry[d].name)
    IN
    /\ Runs /\ Used(d) /\ dentry[d].hashed /\ ~Locked(o) /\ ~Locked(p)
    /\ IsDir(d) => x \in DirNames /\ p = Root /\ \A q \in disk : Len(q) = 1 \/ Front(q) # to
    /\ ~IsDir(d) => x \in FileNames
    /\ from # to /\ Exists(from)
    /\ disk' = Moved(from, to)
    /\ n # 0 /\ RenameInode(n, InoOf(p), x, ok)
    /\ dentry' = IF ok THEN MoveDentry(d, p, x) ELSE dentry
    /\ UNCHANGED <<next_inode_num, icache, task, raced, reborn>>

\* fuse_dentry_revalidate: the name is looked up again; what is gone, or has another
\* number, is taken out of the hash, unless it is a directory in use.
Revalidate(d) == LET p == dentry[d].parent IN
    /\ Runs /\ Used(d) /\ dentry[d].hashed /\ ~Locked(p)
    /\ IF Exists(At(p, dentry[d].name))
         THEN /\ FindOrAlloc(InoOf(p), dentry[d].name)
              /\ IF Number(InoOf(p), dentry[d].name) # dentry[d].ino THEN Unhash(d)
                                                                     ELSE UNCHANGED dentry
         ELSE /\ UNCHANGED hostVars
              /\ IF Below(d) = {} /\ ~Locked(d) THEN Unhash(d) ELSE UNCHANGED dentry
    /\ UNCHANGED <<disk, icache, task, raced, reborn, nomem>>
-----------------------------------------------------------------------------
(* Open files and directories.                                             *)

\* fuse_open; fuse_dir_open, where the first of them lists the directory, which may fail.
Open(d) ==
    /\ Runs /\ Used(d) /\ dentry[d].hashed /\ dentry[d].open < MaxOpens
    /\ dentry' = [dentry EXCEPT ![d].open = @ + 1]
    /\ inode' = IF IsDir(d) THEN [inode EXCEPT ![dentry[d].ino].refcount = @ + 1] ELSE inode
    /\ UNCHANGED <<place, next_inode_num, disk, icache, task, raced, reborn, nomem>>

Release(d) ==
    /\ Runs /\ Used(d) /\ dentry[d].open > 0
    /\ dentry' = [dentry EXCEPT ![d].open = @ - 1]
    /\ inode' = IF IsDir(d) THEN [inode EXCEPT ![dentry[d].ino].refcount = @ - 1] ELSE inode
    /\ UNCHANGED <<place, next_inode_num, disk, icache, task, raced, reborn, nomem>>

\* A dentry that nothing uses is dropped; its inode may stay.
Prune(d) ==
    /\ Runs /\ Used(d) /\ dentry[d].open = 0 /\ Below(d) = {} /\ ~Locked(d)
    /\ dentry' = [dentry EXCEPT ![d] = Unused]
    /\ UNCHANGED <<hostVars, disk, icache, task, raced, reborn, nomem>>

\* An inode without dentry is freed, from the decision to the driver's clear_inode.
Evict(n) ==
    /\ Runs /\ icache[n] = "live" /\ \A d \in Dentries : dentry[d].ino # n
    /\ icache' = [icache EXCEPT ![n] = "freeing"]
    /\ UNCHANGED <<hostVars, disk, dentry, task, raced, reborn, nomem>>

\* fuse_clear_inode and FUSE_FORGET
Forget(n) ==
    /\ Runs /\ icache[n] = "freeing"
    /\ icache' = [icache EXCEPT ![n] = "none"]
    /\ FreeInodes(Forgotten(n))
    /\ UNCHANGED <<place, next_inode_num, disk, dentry, task, raced, reborn, nomem>>

\* A program of the host makes or removes a file.
HostChange(path) ==
    /\ Runs
    /\ disk' = IF path \in disk THEN disk \ {path} ELSE disk \cup {path}
    /\ UNCHANGED <<hostVars, guestVars, nomem>>

\* The monitor is reset: co_monitor_unregister_filesystems.
Reset ==
    /\ FreeInodes(Children) /\ place' = [n \in Children |-> n] /\ next_inode_num' = 2
    /\ icache' = [n \in Numbers |-> "none"] /\ dentry' = [d \in Dentries |-> Unused]
    /\ task' = None /\ raced' = FALSE /\ reborn' = FALSE /\ nomem' = FALSE
    /\ UNCHANGED disk
-----------------------------------------------------------------------------
Next ==
    \/ \E x \in Names, p \in Dentries \cup {Root} :
         /\ p \in Walked
         /\ \/ Lookup(p, x) \/ Create(p, x)
            \/ \E d \in Dentries, ok \in BOOLEAN : Rename(d, p, x, ok)
    \/ \E d \in Dentries : Iget(d) \/ Delete(d) \/ Revalidate(d) \/ Open(d) \/ Release(d) \/ Prune(d)
    \/ \E n \in Numbers : Evict(n) \/ Forget(n)
    \/ \E x \in FileNames : HostChange(<<x>>)
    \/ Reset

Spec == Init /\ [][Next]_vars
-----------------------------------------------------------------------------
GuestPath(d) == IF dentry[d].parent = Root THEN <<dentry[d].name>>
                ELSE <<dentry[dentry[d].parent].name, dentry[d].name>>

\* The host does what the guest asks to the file the guest means: their trees give the
\* same path to each name the guest can reach, through lookups, renames, removals of open
\* files, evictions and changes on the host, unless a lookup raced with the eviction of
\* its inode or there was no memory for a name.
PathsAgree == Runs => \A d \in Dentries :
    Used(d) /\ dentry[d].hashed => PathOf(dentry[d].ino) = GuestPath(d)

\* An open file that lost its name is known to the host too: what is written to it does
\* not go to the root of the file system, where operations without an inode go.  When its
\* number was given again, to a file that moved, the inode can go with its new directory.
OpensKnown == Runs /\ ~reborn => \A d \in Dentries : Used(d) => inode[dentry[d].ino].live

\* Who reads the list of names of a directory.
ReadersOf(n) ==
    {r \in Dentries \X (1..MaxOpens) :
        dentry[r[1]].ino = n /\ IsDir(r[1]) /\ r[2] <= dentry[r[1]].open}

\* A list of names is kept for those who read it, and freed after the last.
ListsExact == Runs => \A n \in Numbers : inode[n].refcount = Cardinality(ReadersOf(n))

\* What is in the tree hangs from an inode of the tree.
TreeExact == \A n \in Children : inode[n].live => inode[inode[n].parent].live

FilesExact == PathsAgree /\ OpensKnown /\ ListsExact /\ TreeExact
=============================================================================
