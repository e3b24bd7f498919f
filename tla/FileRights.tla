----------------------------- MODULE FileRights -----------------------------
(***************************************************************************)
(* What Windows keeps of the mode of a file of cofs: three attributes      *)
(* stand for the rights of the owner (os/winnt/kernel/fileio.c).  Windows  *)
(* does not delete or replace a file that is read-only, and the service    *)
(* then takes that attribute away and tries again.                         *)
(***************************************************************************)
EXTENDS FiniteSets

CONSTANT Files

VARIABLES
    file,          \* on the host: is it there, a directory, its attributes, is it in use
    attrib,        \* the file system is mounted without COFS_MOUNT_NOATTRIB
    mode,          \* the rights the guest was told a file has
    deceived       \* it was told so by a call of which a later part succeeded

rightsVars == <<file, attrib, mode, deceived>>

Rights == {"r", "w", "x"}
Absent == [there |-> FALSE, dir |-> FALSE, attrs |-> {}, busy |-> FALSE]

Init == /\ file = [f \in Files |-> Absent] /\ attrib \in BOOLEAN
        /\ mode = [f \in Files |-> Rights] /\ deceived = {}
-----------------------------------------------------------------------------
\* change_file_mode_func
Attributes(dir, m) == {a \in {"hidden", "readonly", "system"} :
    \/ a = "hidden" /\ "r" \notin m
    \/ a = "readonly" /\ "w" \notin m
    \/ a = "system" /\ (dir <=> "x" \notin m)}

\* co_os_file_mknod
NewAttributes(m) == IF attrib THEN Attributes(FALSE, m) ELSE {}

\* co_os_file_get_attr
RightsOf(f) == {r \in Rights :
    \/ r = "r" /\ "hidden" \notin file[f].attrs
    \/ r = "w" /\ "readonly" \notin file[f].attrs
    \/ r = "x" /\ (file[f].dir <=> "system" \notin file[f].attrs)}

\* inode_get_attr as Stat: what the guest knows of the file is read again.
Stat(f) ==
    /\ file[f].there
    /\ mode' = [mode EXCEPT ![f] = RightsOf(f)] /\ deceived' = deceived \ {f}
    /\ UNCHANGED <<file, attrib>>

Mknod(f, m) ==
    /\ ~file[f].there
    /\ file' = [file EXCEPT ![f] = [Absent EXCEPT !.there = TRUE, !.attrs = NewAttributes(m)]]
    /\ mode' = [mode EXCEPT ![f] = m]
    /\ deceived' = IF attrib THEN deceived \ {f} ELSE deceived \cup {f}
    /\ UNCHANGED attrib

\* co_os_file_mkdir; the guest looks the directory up.
Mkdir(f) ==
    /\ ~file[f].there
    /\ file' = [file EXCEPT ![f] = [Absent EXCEPT !.there = TRUE, !.dir = TRUE]]
    /\ mode' = [mode EXCEPT ![f] = Rights] /\ deceived' = deceived \ {f}
    /\ UNCHANGED attrib

\* Mutant of ChangeMode: the test of a directory is forgotten.
ChangeMode_NoDir(f, m) == file' = [file EXCEPT ![f].attrs = Attributes(FALSE, m)]

ChangeMode(f, m) == file' = [file EXCEPT ![f].attrs = Attributes(file[f].dir, m)]

\* co_os_file_set_attr: the parts follow each other whatever happens, and the last one's
\* result is the result.  A change of the size needs a file that may be written.
SetAttr(f, m, resize, fails) ==
    LET done == attrib /\ "mode" \notin fails
        last == IF resize THEN {"size"} ELSE IF attrib THEN {"mode"} ELSE {}
    IN
    /\ file[f].there /\ (resize => ~file[f].dir) /\ ("size" \in fails => resize)
    /\ resize /\ "readonly" \in (IF done THEN Attributes(FALSE, m) ELSE file[f].attrs) => "size" \in fails
    /\ IF done THEN ChangeMode(f, m) ELSE UNCHANGED file
    /\ IF last \cap fails = {}
         THEN /\ mode' = [mode EXCEPT ![f] = m]
              /\ deceived' = IF done THEN deceived \ {f} ELSE deceived \cup {f}
         ELSE /\ UNCHANGED mode
              /\ deceived' = IF done THEN deceived \cup {f} ELSE deceived
    /\ UNCHANGED attrib

\* ZwDeleteFile, or ZwSetInformationFile over an existing file: a file that is read-only is
\* made writable and the call repeated, which fails while another program uses the file.
Freed(f) == /\ ~file[f].busy
            /\ file' = [file EXCEPT ![f] = Absent]
            /\ UNCHANGED <<attrib, mode, deceived>>

Refused(f) == /\ file[f].busy
              /\ file' = [file EXCEPT ![f].attrs = @ \ {"readonly"}]
              /\ deceived' = IF "readonly" \in file[f].attrs THEN deceived \cup {f} ELSE deceived
              /\ UNCHANGED <<attrib, mode>>

Unlink(f) == file[f].there /\ (Freed(f) \/ Refused(f))

\* co_os_file_rename: the attributes go with the file.
Rename(f, g) ==
    /\ f # g /\ file[f].there /\ ~file[f].dir
    /\ \/ /\ ~file[g].there \/ (~file[g].busy /\ ~file[g].dir)
          /\ file' = [file EXCEPT ![g] = file[f], ![f] = Absent]
          /\ mode' = [mode EXCEPT ![g] = mode[f]]
          /\ deceived' = IF f \in deceived THEN deceived \cup {g} ELSE deceived \ {g}
          /\ UNCHANGED attrib
       \/ file[g].there /\ ~file[g].dir /\ Refused(g)

\* A program of the host opens or closes a file.
HostUse(f) ==
    /\ file[f].there
    /\ file' = [file EXCEPT ![f].busy = ~@]
    /\ UNCHANGED <<attrib, mode, deceived>>

Next ==
    \/ \E f \in Files :
         \/ Stat(f) \/ Mkdir(f) \/ Unlink(f) \/ HostUse(f)
         \/ \E m \in SUBSET Rights :
              \/ Mknod(f, m)
              \/ \E resize \in BOOLEAN, fails \in SUBSET {"mode", "size"} : SetAttr(f, m, resize, fails)
         \/ \E g \in Files : Rename(f, g)

Spec == Init /\ [][Next]_rightsVars
-----------------------------------------------------------------------------
\* The rights the guest was told a file has are those the host gives it when asked again,
\* through changes, failed removals and renames, but where the service itself says less
\* than it did: a part of a change that failed, or a file it made writable in vain.
RightsExact == \A f \in Files : file[f].there /\ f \notin deceived => mode[f] = RightsOf(f)
=============================================================================
