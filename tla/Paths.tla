-------------------------------- MODULE Paths --------------------------------
(***************************************************************************)
(* What the callbacks that change nothing answer: path_lookup, on which    *)
(* every callback relies, and getattr, readdir and statfs.  A path is the  *)
(* sequence of its components.                                             *)
(***************************************************************************)
EXTENDS Namespace

NotThere == -1   \* path_lookup's "no such entry"
NotADir  == -2   \* path_lookup's "not a directory"

\* inode.size; a directory's is the size of its entries (counted here in entries).
SizeOf(i) == IF itable[i].mode = "dir" THEN Len(entries[i]) ELSE itable[i].size

\* Mistake: the scan ends with the directory's first block.
ScanFirstBlock(d, nm, soFar) ==
    IF extents[d] = <<>> THEN soFar
    ELSE IF \E k \in DOMAIN entries[d] : k <= DentriesPerBlock /\ entries[d][k].name = nm
      THEN Lookup(d, nm)
    ELSE NotThere

(***************************************************************************)
(* The scan of directory d for nm returns at the first match or when all   *)
(* entries were seen.  Without an extent neither happens, and what was     *)
(* found so far stays.                                                     *)
(***************************************************************************)
Scan(d, nm, soFar) ==
    IF extents[d] = <<>> THEN soFar
    ELSE IF HasEntry(d, nm) THEN Lookup(d, nm)
    ELSE NotThere

\* Mistake: an empty directory is scanned like any other.
DescendIntoEmpty(d, nm) ==
    IF d = NotThere THEN NotThere
    ELSE IF itable[d].mode = "reg" THEN NotADir
    ELSE Scan(d, nm, d)

(***************************************************************************)
(* From d to its entry nm.  The size is looked at before the mode, so an   *)
(* empty file is taken for an empty directory.  An empty root leaves -1 in *)
(* d; the code then reads the size at the end of the data bitmap, where    *)
(* mkfs -z leaves zeros, and returns -1 again.                             *)
(***************************************************************************)
Descend(d, nm) ==
    IF d = NotThere THEN NotThere
    ELSE IF SizeOf(d) = 0 THEN NotThere
    ELSE IF itable[d].mode = "reg" THEN NotADir
    ELSE Scan(d, nm, d)

path_lookup(path) ==
    LET found[k \in 0 .. Len(path)] ==
          CASE k = 0 -> ROOT_INODE
            [] k = 1 -> Scan(ROOT_INODE, path[1], NotThere)
            [] k > 1 /\ found[k - 1] = NotADir -> NotADir
            [] OTHER -> Descend(found[k - 1], path[k])
    IN  found[Len(path)]

\* Mistake: the indirect block is left out.
get_data_num_blks_of_file(i) == IF SizeOf(i) = 0 THEN 0 ELSE get_num_blks_of_file(i)

get_exact_num_blks_of_file(i) ==
    IF SizeOf(i) = 0 THEN 0 ELSE 1 + get_num_blks_of_file(i)

getattr(path) ==
    LET i == path_lookup(path)
    IN  CASE i = NotThere -> [err |-> "ENOENT"]
          [] i = NotADir  -> [err |-> "ENOTDIR"]
          [] OTHER -> [err |-> "none",
                       mode |-> itable[i].mode,
                       nlink |-> itable[i].links,
                       size |-> SizeOf(i),
                       blocks |-> get_exact_num_blks_of_file(i)]

(***************************************************************************)
(* The names that filler takes, "." and ".." apart, where it has room for  *)
(* that many.  The walk over the slots of the directory's blocks ends when *)
(* num_dir_entry names are out or there is no slot left; it looks at one   *)
(* slot even if there is no entry, but then there is no block either.      *)
(***************************************************************************)
readdir(path, room) ==
    LET i      == path_lookup(path)
        slots  == DentriesPerBlock * get_num_blks_of_file(i)
        listed == IF Len(entries[i]) <= slots THEN Len(entries[i]) ELSE slots
        taken  == IF listed <= room THEN listed ELSE room
    IN  [err |-> IF taken < listed THEN "ENOMEM" ELSE "none",
         names |-> [k \in 1 .. taken |-> entries[i][k].name]]

\* f_blocks stays at the 0 of the memset; the sizes and the length of a name are
\* constants of the code and left out.
statfs ==
    [f_blocks |-> 0,
     f_bfree |-> availableBlocks, f_bavail |-> availableBlocks,
     f_files |-> NumInodes,
     f_ffree |-> availableInodes, f_favail |-> availableInodes]

\* Mistake: the last component is cut off, as extract_parent_path does.
CutLast(path) == SubSeq(path, 1, Len(path) - 1)

(***************************************************************************)
(* path_lookup takes a const path and cuts it with strtok: whoever passed  *)
(* it is left with the first component, whatever was found.                *)
(***************************************************************************)
Cut(path) == IF path = <<>> THEN <<>> ELSE <<Head(path)>>

(***************************************************************************)
(* FUSE answers a change of times or of the size with getattr, on the path *)
(* that it passed to utimens or truncate before.                           *)
(***************************************************************************)
setattr(path) == getattr(Cut(path))

-----------------------------------------------------------------------------
(* Properties. *)

\* As deep as a tree of all inodes can be.
AllPaths == UNION {[1 .. n -> Names] : n \in 0 .. NumInodes - 1}

\* Each file and directory is found by one path and by no other, and nothing
\* else is found; what is asked for below a file or in an empty directory is not.
PathsNameInodes ==
    LET found == {path \in AllPaths : path_lookup(path) \in Inodes}
    IN  /\ {path_lookup(path) : path \in found} = LinkedInodes
        /\ \A p, q \in found : path_lookup(p) = path_lookup(q) => p = q

\* readdir lists a name once for each entry getattr finds, and no other, however
\* entries were moved between slots and blocks; if the caller's memory ends before,
\* it is told so, and only then.
ReaddirListsLookups ==
    \A path \in AllPaths, room \in 0 .. NumInodes :
        Len(path) < NumInodes - 1 /\ getattr(path).err = "none"
              /\ getattr(path).mode = "dir" =>
            LET answer == readdir(path, room)
                found  == {nm \in Names : getattr(Append(path, nm)).err = "none"}
            IN  /\ Range(answer.names) \subseteq found /\ IsInjective(answer.names)
                /\ answer.err = "none" <=> Range(answer.names) = found

\* What get_exact_num_blks_of_file counts for all files and directories, the counter
\* of free blocks and what failures lost make up the image.  This is about blocks of
\* 4096 bytes: getattr passes them on as st_blocks without the factor 8 that the
\* comment in a1fs.c:134 asks for, and of the total, f_blocks, statfs says 0.
FreeAndUsedAddUp ==
    LET used == MapThenSumSet(get_exact_num_blks_of_file, LinkedInodes)
    IN  availableBlocks + used + Cardinality(LeakedBlocks) = NumBlocks

\* A touch or truncate changes the file it names, but the answer describes the
\* entry of the root on the way there: the right file in the root, a directory
\* for all that is deeper (README.txt, item 1: touch fails with an I/O error in
\* any directory but the root, although the file is there).
SetattrAnswersFromTheRoot ==
    \A path \in AllPaths :
        getattr(path).err = "none" =>
            LET a == setattr(path)
            IN  /\ a.err = "none"
                /\ Len(path) <= 1 => a = getattr(path)
                /\ Len(path) > 1 => a.mode = "dir" /\ a.size > 0

=============================================================================
