----------------------------- MODULE FileSystem -----------------------------
(***************************************************************************)
(* Inodes, directories and path names, kernel/fs.c, and the system calls   *)
(* on them, kernel/sysfile.c, with the file table of kernel/file.c and     *)
(* what fork and exit do to open files.  A step is one section under an    *)
(* inode's sleep lock, under itable.lock or under ftable.lock; a lock that *)
(* a call keeps while it waits for another one stays in the state.  What a *)
(* call has still to release is in its frame's todo, in the order of the   *)
(* code.  File contents and data blocks are in module FileData; a full     *)
(* disk is a choice of dirlink.  Zig says which build is meant: the calls  *)
(* of kernel/syscall/file.zig differ from sysfile.c where Zig is looked at.*)
(***************************************************************************)
EXTENDS Integers, Sequences, FiniteSets, FiniteSetsExt, SequencesExt

CONSTANTS Proc, Name, None,
          NINODES,   \* sb.ninodes - 1: inode numbers 1 .. NINODES; the inode
                     \* table has room for all of them
          NFILE,     \* size of the file table
          NOFILE,    \* descriptors of a process
          Calls,     \* the calls that the program of each process makes
          Zig        \* the kernel of build.zig, not that of the Makefile

ROOTINO == 1
Inum == 1 .. NINODES
Elem == Name \cup {".", ".."}
Fd == 1 .. NOFILE
File == 1 .. NFILE

PathCalls == {"open", "openw", "creat", "mkdir", "mknod", "link", "unlink", "chdir"}

ASSUME FsAssumption ==
  /\ NINODES \in Nat \ {0} /\ NFILE \in Nat /\ NOFILE \in Nat
  /\ None \notin Proc /\ "." \notin Name /\ ".." \notin Name /\ "/" \notin Name
  /\ Zig \in BOOLEAN
  /\ \A p \in Proc : \A c \in Calls[p] :
       /\ c.op \in PathCalls \cup {"close", "dup", "pipe", "fstat", "fork", "exit"}
       /\ c.path \in Seq(Elem \cup {"/"}) /\ c.new \in Seq(Elem \cup {"/"})
       /\ c.op \in PathCalls <=> c.path # <<>>

VARIABLES
  inode,         \* the inode table: ref, valid, type and nlink of each inode
  dinode,        \* the inodes on disk: type and nlink
  dirent,        \* the content of each directory
  lock,          \* who holds the sleep lock of each inode
  ftable, ofile, \* open files and the descriptors of each process
  cwd,           \* 0: the process does not exist
  frame,         \* the call each process is in
  panicked

disk == <<dinode, dirent>>
files == <<ftable, ofile>>
vars == <<inode, disk, lock, files, cwd, frame, panicked>>

NoEntries == [n \in Elem |-> 0]
RootEntries == [NoEntries EXCEPT !["."] = ROOTINO, ![".."] = ROOTINO]
Idle == [pc |-> "idle", call |-> None, at |-> 0, rest |-> <<>>,
         ip |-> 0, dp |-> 0, file |-> 0, todo |-> <<>>]

Types == {"free", "file", "dir", "dev"}
Pcs == {"idle", "walk", "open", "file", "chdir", "create", "exist", "new",
        "link", "dirlink", "undo", "unlink", "victim", "dropped", "pipe"}

(* The root directory is there; every process starts in it.  The root's    *)
(* own ".." is one of its links.                                           *)
Init ==
  /\ inode = [i \in Inum |-> IF i = ROOTINO
                THEN [ref |-> Cardinality(Proc), valid |-> FALSE, type |-> "free", nlink |-> 0]
                ELSE [ref |-> 0, valid |-> FALSE, type |-> "free", nlink |-> 0]]
  /\ dinode = [i \in Inum |-> IF i = ROOTINO THEN [type |-> "dir", nlink |-> 1]
                                             ELSE [type |-> "free", nlink |-> 0]]
  /\ dirent = [i \in Inum |-> IF i = ROOTINO THEN RootEntries ELSE NoEntries]
  /\ lock = [i \in Inum |-> None]
  /\ ftable = [f \in File |-> [ref |-> 0, ip |-> 0]]
  /\ ofile = [p \in Proc |-> [d \in Fd |-> 0]]
  /\ cwd = [p \in Proc |-> ROOTINO]
  /\ frame = [p \in Proc |-> Idle]
  /\ panicked = FALSE

-----------------------------------------------------------------------------
(* The inode layer. *)

(* iget and idup: one more pointer; an entry that was free is not valid.   *)
iget(table, i) ==
  [table EXCEPT ![i] = IF @.ref > 0 THEN [@ EXCEPT !.ref = @ + 1]
                       ELSE [@ EXCEPT !.ref = 1, !.valid = FALSE]]

(* The inode as ilock leaves it: read from disk unless it is valid.        *)
Loaded(i) ==
  IF inode[i].valid THEN inode[i]
  ELSE [inode[i] EXCEPT !.valid = TRUE, !.type = dinode[i].type, !.nlink = dinode[i].nlink]

(* unlink panics on an inode without links.                                *)
Unexpected(p) == frame[p].pc = "victim" /\ Loaded(frame[p].ip).nlink < 1

(* The inode whose lock the next step of p takes first; 0 if none.         *)
Wanted(p) ==
  LET f == frame[p] IN
  CASE f.pc = "walk" -> f.at
    [] f.pc \in {"create", "dirlink", "unlink"} -> f.dp
    [] f.pc \in {"open", "chdir", "exist", "new", "link", "undo", "victim"} -> f.ip
    [] OTHER -> 0

At(p, pc) == ~panicked /\ frame[p].pc = pc /\ frame[p].todo = <<>>

(* p is at pc and ilock of the inode it wants does not wait; it panics on  *)
(* an inode without a reference and on a free one.                         *)
IlockPanics(p) == inode[Wanted(p)].ref < 1 \/ Loaded(Wanted(p)).type = "free"
Ilock(p, pc) ==
  /\ At(p, pc)
  /\ lock[Wanted(p)] = None
  /\ panicked' = (IlockPanics(p) \/ Unexpected(p))

OnDisk(ip) == [type |-> ip.type, nlink |-> ip.nlink]

put(i) == <<[do |-> "put", ip |-> i]>>
unlock(i) == <<[do |-> "unlock", ip |-> i]>>
close(f) == <<[do |-> "close", ip |-> f]>>

(* Seeded fault: iunlockput without the put.                               *)
UnlockOnly(i) == unlock(i)

unlockput(i) == unlock(i) \o put(i)

Doing(p, what) == /\ ~panicked /\ frame[p].todo # <<>> /\ Head(frame[p].todo).do = what

Done(p) == frame' = [frame EXCEPT ![p].todo = Tail(@)]
Instead(p, what) == frame' = [frame EXCEPT ![p].todo[1].do = what]

Iunlock(p) ==
  /\ Doing(p, "unlock")
  /\ lock' = [lock EXCEPT ![Head(frame[p].todo).ip] = None]
  /\ Done(p)
  /\ UNCHANGED <<inode, disk, files, cwd, panicked>>

(* Seeded faults: the reference count is not looked at; one link too many. *)
LastUnlinkedByLinks(i) == inode[i].valid /\ inode[i].nlink = 0
LastOfOneLink(i) == inode[i].ref = 1 /\ inode[i].valid /\ inode[i].nlink <= 1

LastOfUnlinked(i) == inode[i].ref = 1 /\ inode[i].valid /\ inode[i].nlink = 0

(* iput: the last pointer to an inode without links frees it.  Its lock is *)
(* taken with itable.lock held, so a process that had to wait here would   *)
(* panic in sched.                                                         *)
Iput(p) ==
  /\ Doing(p, "put")
  /\ LET i == Head(frame[p].todo).ip IN
     \/ /\ ~LastOfUnlinked(i)
        /\ inode' = [inode EXCEPT ![i].ref = @ - 1]
        /\ Done(p)
        /\ UNCHANGED <<lock, panicked>>
     \/ /\ LastOfUnlinked(i)
        /\ lock' = [lock EXCEPT ![i] = p]
        /\ panicked' = (lock[i] # None)
        /\ Instead(p, "free")
        /\ UNCHANGED inode
  /\ UNCHANGED <<disk, files, cwd>>

(* The directories without what itrunc discards.                           *)
itrunc(i) == [dirent EXCEPT ![i] = NoEntries]

(* ... itrunc, type = 0, iupdate, valid = 0 and releasesleep ...           *)
IputFree(p) ==
  /\ Doing(p, "free")
  /\ LET i == Head(frame[p].todo).ip IN
     /\ inode' = [inode EXCEPT ![i].type = "free", ![i].valid = FALSE]
     /\ dinode' = [dinode EXCEPT ![i] = OnDisk(inode'[i])]
     /\ dirent' = itrunc(i)
     /\ lock' = [lock EXCEPT ![i] = None]
  /\ Instead(p, "drop")
  /\ UNCHANGED <<files, cwd, panicked>>

(* ... and the reference, once itable.lock is held again.                  *)
IputDrop(p) ==
  /\ Doing(p, "drop")
  /\ inode' = [inode EXCEPT ![Head(frame[p].todo).ip].ref = @ - 1]
  /\ Done(p)
  /\ UNCHANGED <<disk, lock, files, cwd, panicked>>

-----------------------------------------------------------------------------
(* Path names. *)

(* The inode number of a name in a directory, 0 if it has none, and the    *)
(* directories with one more entry.                                        *)
dirlookup(dp, n) == dirent[dp][n]
dirlink(dirs, dp, n, i) == [dirs EXCEPT ![dp][n] = i]

(* namex is asked for the parent by all but open, chdir and the first      *)
(* lookup of link; these calls go on at After with what it returns.        *)
nameiparent(f) == f.call.op \in {"creat", "mkdir", "mknod", "unlink"} \/ (f.call.op = "link" /\ f.ip # 0)

After(f) ==
  CASE f.call.op \in {"open", "openw"} -> "open"
    [] f.call.op \in {"creat", "mkdir", "mknod"} -> "create"
    [] f.call.op = "link" /\ f.ip # 0 -> "dirlink"
    [] OTHER -> f.call.op

(* The last element of the path whose parent is asked for.                 *)
name(p) == LET c == frame[p].call IN Last(IF c.op = "link" THEN c.new ELSE c.path)

(* The frame of a call that ends with these inodes to release, and of one  *)
(* whose lookup fails: link has still to take back the link it counted.    *)
Returns(todo) == [Idle EXCEPT !.todo = todo]
Fails(f, todo) ==
  IF After(f) = "dirlink" THEN [f EXCEPT !.pc = "undo", !.at = 0, !.rest = <<>>, !.todo = todo]
  ELSE Returns(todo)
Finds(f, i, todo) ==
  LET g == [f EXCEPT !.pc = After(f), !.at = 0, !.rest = <<>>, !.todo = todo]
  IN  IF nameiparent(f) THEN [g EXCEPT !.dp = i] ELSE [g EXCEPT !.ip = i]

(* Where namex starts, and the frame with which it enters its loop.        *)
Origin(p, path) == IF path[1] = "/" THEN ROOTINO ELSE cwd[p]
Enters(p, f, path) ==
  LET elems == SelectSeq(path, LAMBDA e : e # "/")
      start == Origin(p, path)
  IN  IF elems # <<>> THEN [f EXCEPT !.pc = "walk", !.at = start, !.rest = elems]
      ELSE IF nameiparent(f) THEN Fails(f, put(start))
      ELSE Finds(f, start, <<>>)

(* One round of namex's loop.                                              *)
Walk(p) ==
  /\ Ilock(p, "walk")
  /\ LET f == frame[p]
         held == [inode EXCEPT ![f.at] = Loaded(f.at)]
         next == dirlookup(f.at, Head(f.rest))
         early == nameiparent(f) /\ Len(f.rest) = 1
     IN \/ /\ held[f.at].type = "dir" /\ early
           /\ inode' = held
           /\ frame' = [frame EXCEPT ![p] = Finds(f, f.at, <<>>)]
        \/ /\ held[f.at].type # "dir" \/ (~early /\ next = 0)
           /\ inode' = held
           /\ frame' = [frame EXCEPT ![p] = Fails(f, put(f.at))]
        \/ /\ held[f.at].type = "dir" /\ ~early /\ next # 0
           /\ inode' = iget(held, next)
           /\ frame' = [frame EXCEPT ![p] =
                IF Len(f.rest) = 1 THEN Finds(f, next, put(f.at))
                ELSE [f EXCEPT !.at = next, !.rest = Tail(@), !.todo = put(f.at)]]
  /\ UNCHANGED <<disk, lock, files, cwd>>

(* A program makes a call with a path name.                                *)
Call(p) ==
  /\ At(p, "idle") /\ cwd[p] # 0
  /\ \E c \in Calls[p] :
       /\ c.op \in PathCalls
       /\ inode' = iget(inode, Origin(p, c.path))
       /\ frame' = [frame EXCEPT ![p] = Enters(p, [Idle EXCEPT !.call = c], c.path)]
  /\ UNCHANGED <<disk, lock, files, cwd, panicked>>

-----------------------------------------------------------------------------
(* open, mkdir and create. *)

FreeInums == {i \in Inum : dinode[i].type = "free"}
NewType(p) ==
  CASE frame[p].call.op = "mkdir" -> "dir"
    [] frame[p].call.op = "mknod" -> "dev"
    [] OTHER -> "file"

(* Seeded fault: the parent stays locked in the C build too.               *)
KeepsParentAlways == TRUE

(* Whether create keeps the parent locked when it locks what it has found  *)
KeepsParent == Zig

(* create, with the parent locked: the name exists, or ialloc takes the    *)
(* first free inode, or there is none.                                     *)
CreateIn(p) ==
  /\ Ilock(p, "create")
  /\ LET dp == frame[p].dp
         held == [inode EXCEPT ![dp] = Loaded(dp)]
         found == dirlookup(dp, name(p))
         new == Min(FreeInums)
     IN \/ /\ found # 0
           /\ inode' = iget(held, found)
           /\ IF KeepsParent
              THEN /\ lock' = [lock EXCEPT ![dp] = p]
                   /\ frame' = [frame EXCEPT ![p].pc = "exist", ![p].ip = found]
              ELSE /\ frame' = [frame EXCEPT ![p].pc = "exist", ![p].ip = found,
                                             ![p].dp = 0, ![p].todo = put(dp)]
                   /\ UNCHANGED lock
           /\ UNCHANGED dinode
        \/ /\ found = 0 /\ FreeInums = {}
           /\ inode' = held
           /\ frame' = [frame EXCEPT ![p] = Returns(put(dp))]
           /\ UNCHANGED <<lock, dinode>>
        \/ /\ found = 0 /\ FreeInums # {}
           /\ dinode' = [dinode EXCEPT ![new] = [type |-> NewType(p), nlink |-> 0]]
           /\ inode' = iget(held, new)
           /\ lock' = [lock EXCEPT ![dp] = p]
           /\ frame' = [frame EXCEPT ![p].pc = "new", ![p].ip = new]
  /\ UNCHANGED <<dirent, files, cwd>>

(* create on a name that exists.  The parent has been released, but in the *)
(* Zig build, where it stays locked.                                       *)
CreateExisting(p) ==
  /\ Ilock(p, "exist")
  /\ LET f == frame[p]
         parent == IF f.dp = 0 THEN <<>> ELSE unlockput(f.dp)
         usable == NewType(p) = "file" /\ Loaded(f.ip).type \in {"file", "dev"}
     IN /\ inode' = [inode EXCEPT ![f.ip] = Loaded(f.ip)]
        /\ \/ /\ usable
              /\ lock' = [lock EXCEPT ![f.ip] = p]
              /\ frame' = [frame EXCEPT ![p].pc = "file", ![p].dp = 0, ![p].todo = parent]
           \/ /\ ~usable
              /\ frame' = [frame EXCEPT ![p] = Returns(put(f.ip) \o parent)]
              /\ UNCHANGED lock
  /\ UNCHANGED <<disk, files, cwd>>

(* create with a new inode: its first entries, the entry in the parent and *)
(* the parent's count, or, when a dirlink fails, nlink back to 0.  What a  *)
(* dirlink had put into the new inode goes when it is freed.               *)
CreateNew(p) ==
  /\ Ilock(p, "new")
  /\ LET f == frame[p]
         new == [Loaded(f.ip) EXCEPT !.nlink = 1]
         dir == NewType(p) = "dir"
     IN \/ /\ inode' = [inode EXCEPT ![f.ip] = new, ![f.dp].nlink = IF dir THEN @ + 1 ELSE @]
           /\ dinode' = [dinode EXCEPT ![f.ip] = OnDisk(new), ![f.dp] = OnDisk(inode'[f.dp])]
           /\ dirent' = LET dots == dirlink(dirlink(dirent, f.ip, ".", f.ip), f.ip, "..", f.dp)
                        IN  dirlink(IF dir THEN dots ELSE dirent, f.dp, name(p), f.ip)
           /\ lock' = [lock EXCEPT ![f.ip] = p]
           /\ frame' = [frame EXCEPT ![p] =
                IF f.call.op # "creat" THEN Returns(unlockput(f.dp) \o unlockput(f.ip))
                ELSE [f EXCEPT !.pc = "file", !.dp = 0, !.todo = unlockput(f.dp)]]
        \/ /\ inode' = [inode EXCEPT ![f.ip] = [new EXCEPT !.nlink = 0]]
           /\ dinode' = [dinode EXCEPT ![f.ip] = OnDisk(inode'[f.ip])]
           /\ frame' = [frame EXCEPT ![p] = Returns(put(f.ip) \o unlockput(f.dp))]
           /\ UNCHANGED <<dirent, lock>>
  /\ UNCHANGED <<files, cwd>>

(* open of an existing path: a directory is only opened for reading.       *)
Open(p) ==
  /\ Ilock(p, "open")
  /\ LET f == frame[p] IN
     /\ inode' = [inode EXCEPT ![f.ip] = Loaded(f.ip)]
     /\ \/ /\ inode'[f.ip].type = "dir" /\ f.call.op = "openw"
           /\ frame' = [frame EXCEPT ![p] = Returns(put(f.ip))]
           /\ UNCHANGED lock
        \/ /\ ~(inode'[f.ip].type = "dir" /\ f.call.op = "openw")
           /\ lock' = [lock EXCEPT ![f.ip] = p]
           /\ frame' = [frame EXCEPT ![p].pc = "file"]
  /\ UNCHANGED <<disk, files, cwd>>

(* The file table entries and the descriptors that filealloc and fdalloc   *)
(* take the first of.                                                      *)
filealloc == {f \in File : ftable[f].ref = 0}
fdalloc(p) == {d \in Fd : ofile[p][d] = 0}

(* open with its inode locked: filealloc, then fdalloc.  A device may have *)
(* a number out of range, which is refused.  When there is no descriptor   *)
(* the entry of the file table is given back, but not in the Zig build.    *)
OpenFile(p) ==
  /\ At(p, "file")
  /\ LET ip == frame[p].ip
         free == filealloc
         unused == fdalloc(p)
     IN /\ lock' = [lock EXCEPT ![ip] = None]
        /\ \/ /\ inode[ip].type = "dev" \/ free = {}
              /\ frame' = [frame EXCEPT ![p] = Returns(put(ip))]
              /\ UNCHANGED files
           \/ /\ free # {} /\ unused = {}
              /\ ftable' = IF Zig THEN [ftable EXCEPT ![Min(free)].ref = 1] ELSE ftable
              /\ frame' = [frame EXCEPT ![p] = Returns(put(ip))]
              /\ UNCHANGED ofile
           \/ /\ free # {} /\ unused # {}
              /\ ftable' = [ftable EXCEPT ![Min(free)] = [ref |-> 1, ip |-> ip]]
              /\ ofile' = [ofile EXCEPT ![p][Min(unused)] = Min(free)]
              /\ frame' = [frame EXCEPT ![p] = Idle]
  /\ UNCHANGED <<inode, disk, cwd, panicked>>

-----------------------------------------------------------------------------
(* Calls on descriptors, fork and exit. *)

(* The program calls op on a descriptor that argfd accepts.                *)
OnFile(p, op, d) ==
  /\ At(p, "idle") /\ cwd[p] # 0
  /\ \E c \in Calls[p] : c.op = op
  /\ ofile[p][d] # 0

Close(p) ==
  \E d \in Fd :
    /\ OnFile(p, "close", d)
    /\ ofile' = [ofile EXCEPT ![p][d] = 0]
    /\ frame' = [frame EXCEPT ![p] = Returns(close(ofile[p][d]))]
    /\ UNCHANGED <<inode, disk, lock, ftable, cwd, panicked>>

LastClose(f) == ftable[f].ref = 1

(* fileclose: the last reference to the file puts its inode; a pipe has    *)
(* none.                                                                   *)
Fileclose(p) ==
  /\ Doing(p, "close")
  /\ LET f == Head(frame[p].todo).ip
         rest == Tail(frame[p].todo)
     IN /\ panicked' = (ftable[f].ref < 1)
        /\ \/ /\ ~LastClose(f)
              /\ ftable' = [ftable EXCEPT ![f].ref = @ - 1]
              /\ frame' = [frame EXCEPT ![p].todo = rest]
           \/ /\ LastClose(f)
              /\ ftable' = [ftable EXCEPT ![f] = [ref |-> 0, ip |-> 0]]
              /\ frame' = [frame EXCEPT ![p].todo =
                   (IF ftable[f].ip = 0 THEN <<>> ELSE put(ftable[f].ip)) \o rest]
  /\ UNCHANGED <<inode, disk, lock, ofile, cwd>>

filedup(f) == [ftable EXCEPT ![f].ref = @ + 1]

Dup(p) ==
  \E d \in Fd :
    /\ OnFile(p, "dup", d) /\ fdalloc(p) # {}
    /\ ofile' = [ofile EXCEPT ![p][Min(fdalloc(p))] = ofile[p][d]]
    /\ ftable' = filedup(ofile[p][d])
    /\ panicked' = (ftable[ofile[p][d]].ref < 1)
    /\ UNCHANGED <<inode, disk, lock, cwd, frame>>

(* fstat, and what read and write have in common with it: the inode of an  *)
(* open file is locked for a while.                                        *)
Fstat(p) ==
  \E d \in Fd :
    /\ OnFile(p, "fstat", d)
    /\ LET i == ftable[ofile[p][d]].ip IN
       /\ i # 0 /\ lock[i] = None
       /\ panicked' = (inode[i].ref < 1 \/ Loaded(i).type = "free")
       /\ inode' = [inode EXCEPT ![i] = Loaded(i)]
    /\ UNCHANGED <<disk, lock, files, cwd, frame>>

(* pipe: the read end takes an entry of the file table ...                 *)
Pipe(p) ==
  /\ At(p, "idle") /\ cwd[p] # 0
  /\ \E c \in Calls[p] : c.op = "pipe"
  /\ filealloc # {}
  /\ ftable' = [ftable EXCEPT ![Min(filealloc)] = [ref |-> 1, ip |-> 0]]
  /\ frame' = [frame EXCEPT ![p] = [Idle EXCEPT !.pc = "pipe", !.file = Min(filealloc)]]
  /\ UNCHANGED <<inode, disk, lock, ofile, cwd, panicked>>

(* ... then the write end, and each a descriptor; without a second entry,  *)
(* memory, two descriptors, or with a bad address, both are closed again.  *)
PipeFds(p) ==
  /\ At(p, "pipe")
  /\ LET rf == frame[p].file
         unused == fdalloc(p)
         wf == Min(filealloc)
     IN \/ /\ filealloc = {}
           /\ frame' = [frame EXCEPT ![p] = Returns(close(rf))]
           /\ UNCHANGED files
        \/ /\ filealloc # {}
           /\ ftable' = [ftable EXCEPT ![wf] = [ref |-> 1, ip |-> 0]]
           /\ frame' = [frame EXCEPT ![p] = Returns(close(rf) \o close(wf))]
           /\ UNCHANGED ofile
        \/ /\ filealloc # {} /\ Cardinality(unused) >= 2
           /\ ftable' = [ftable EXCEPT ![wf] = [ref |-> 1, ip |-> 0]]
           /\ ofile' = [ofile EXCEPT ![p][Min(unused)] = rf, ![p][Min(unused \ {Min(unused)})] = wf]
           /\ frame' = [frame EXCEPT ![p] = Idle]
  /\ UNCHANGED <<inode, disk, lock, cwd, panicked>>

(* The descriptors of p, one after the other.                              *)
Opened(p) == SelectSeq([d \in Fd |-> ofile[p][d]], LAMBDA f : f # 0)

(* fork: the child q shares the open files and the current directory.      *)
Fork(p, q) ==
  /\ At(p, "idle") /\ cwd[p] # 0 /\ cwd[q] = 0 /\ At(q, "idle")
  /\ \E c \in Calls[p] : c.op = "fork"
  /\ ftable' = [f \in File |-> [ftable[f] EXCEPT !.ref = @ + Quantify(Fd, LAMBDA d : ofile[p][d] = f)]]
  /\ ofile' = [ofile EXCEPT ![q] = ofile[p]]
  /\ inode' = iget(inode, cwd[p])
  /\ cwd' = [cwd EXCEPT ![q] = cwd[p]]
  /\ UNCHANGED <<disk, lock, frame, panicked>>

(* exit: all files are closed, then the current directory is put.          *)
Exit(p) ==
  /\ At(p, "idle") /\ cwd[p] # 0
  /\ \E c \in Calls[p] : c.op = "exit"
  /\ ofile' = [ofile EXCEPT ![p] = [d \in Fd |-> 0]]
  /\ cwd' = [cwd EXCEPT ![p] = 0]
  /\ frame' = [frame EXCEPT ![p] =
       Returns(FlattenSeq([k \in DOMAIN Opened(p) |-> close(Opened(p)[k])]) \o put(cwd[p]))]
  /\ UNCHANGED <<inode, disk, lock, ftable, panicked>>

-----------------------------------------------------------------------------
(* chdir, link and unlink. *)

Chdir(p) ==
  /\ Ilock(p, "chdir")
  /\ LET ip == frame[p].ip IN
     /\ inode' = [inode EXCEPT ![ip] = Loaded(ip)]
     /\ \/ /\ inode'[ip].type # "dir"
           /\ frame' = [frame EXCEPT ![p] = Returns(put(ip))]
           /\ UNCHANGED cwd
        \/ /\ inode'[ip].type = "dir"
           /\ frame' = [frame EXCEPT ![p] = Returns(put(cwd[p]))]
           /\ cwd' = [cwd EXCEPT ![p] = ip]
  /\ UNCHANGED <<disk, lock, files>>

(* link counts the new link and looks up the new parent; on a directory it *)
(* fails, and in the Zig build takes back a link that was not counted.     *)
Link(p) ==
  /\ Ilock(p, "link")
  /\ LET f == frame[p]
         ip == Loaded(f.ip)
         counted == [ip EXCEPT !.nlink = @ + 1]
     IN IF ip.type = "dir"
        THEN /\ inode' = [inode EXCEPT ![f.ip] = ip]
             /\ frame' = [frame EXCEPT ![p] =
                  IF Zig THEN [f EXCEPT !.pc = "undo"] ELSE Returns(put(f.ip))]
             /\ UNCHANGED dinode
        ELSE /\ inode' = iget([inode EXCEPT ![f.ip] = counted], Origin(p, f.call.new))
             /\ dinode' = [dinode EXCEPT ![f.ip] = OnDisk(counted)]
             /\ frame' = [frame EXCEPT ![p] = Enters(p, f, f.call.new)]
  /\ UNCHANGED <<dirent, lock, files, cwd>>

(* link's dirlink: the name exists, the entry is written, or it is not.    *)
Dirlink(p) ==
  /\ Ilock(p, "dirlink")
  /\ LET f == frame[p]
         held == [inode EXCEPT ![f.dp] = Loaded(f.dp)]
         found == dirlookup(f.dp, name(p))
     IN \/ /\ found # 0
           /\ inode' = iget(held, found)
           /\ lock' = [lock EXCEPT ![f.dp] = p]
           /\ frame' = [frame EXCEPT ![p].pc = "undo", ![p].dp = 0,
                                     ![p].todo = put(found) \o unlockput(f.dp)]
           /\ UNCHANGED dirent
        \/ /\ found = 0
           /\ inode' = held
           /\ dirent' = dirlink(dirent, f.dp, name(p), f.ip)
           /\ frame' = [frame EXCEPT ![p] = Returns(put(f.dp) \o put(f.ip))]
           /\ UNCHANGED lock
        \/ /\ found = 0
           /\ inode' = held
           /\ frame' = [frame EXCEPT ![p].pc = "undo", ![p].dp = 0, ![p].todo = put(f.dp)]
           /\ UNCHANGED <<dirent, lock>>
  /\ UNCHANGED <<dinode, files, cwd>>

(* link's bad:, the errdefer of the Zig build.                             *)
LinkUndo(p) ==
  /\ Ilock(p, "undo")
  /\ LET i == frame[p].ip
         ip == [Loaded(i) EXCEPT !.nlink = @ - 1]
     IN /\ inode' = [inode EXCEPT ![i] = ip]
        /\ dinode' = [dinode EXCEPT ![i] = OnDisk(ip)]
        /\ frame' = [frame EXCEPT ![p] = Returns(put(i))]
  /\ UNCHANGED <<dirent, lock, files, cwd>>

(* unlink with the parent locked.                                          *)
Unlink(p) ==
  /\ Ilock(p, "unlink")
  /\ LET dp == frame[p].dp
         held == [inode EXCEPT ![dp] = Loaded(dp)]
         found == dirlookup(dp, name(p))
     IN \/ /\ name(p) \in {".", ".."} \/ found = 0
           /\ inode' = held
           /\ frame' = [frame EXCEPT ![p] = Returns(put(dp))]
           /\ UNCHANGED lock
        \/ /\ name(p) \notin {".", ".."} /\ found # 0
           /\ inode' = iget(held, found)
           /\ lock' = [lock EXCEPT ![dp] = p]
           /\ frame' = [frame EXCEPT ![p].pc = "victim", ![p].ip = found]
  /\ UNCHANGED <<disk, files, cwd>>

isdirempty(i) == \A n \in Name : dirent[i][n] = 0

(* unlink with both locked: a directory that is not empty stays; otherwise *)
(* the entry goes, and a directory's parent loses the link of its "..".    *)
UnlinkEntry(p) ==
  /\ Ilock(p, "victim")
  /\ LET f == frame[p]
         ip == Loaded(f.ip)
         held == [inode EXCEPT ![f.ip] = ip]
         dir == ip.type = "dir"
     IN \/ /\ dir /\ ~isdirempty(f.ip)
           /\ inode' = held
           /\ frame' = [frame EXCEPT ![p] = Returns(put(f.ip) \o unlockput(f.dp))]
           /\ UNCHANGED <<disk, lock>>
        \/ /\ ~(dir /\ ~isdirempty(f.ip))
           /\ inode' = [held EXCEPT ![f.dp].nlink = IF dir THEN @ - 1 ELSE @]
           /\ dinode' = [dinode EXCEPT ![f.dp] = OnDisk(inode'[f.dp])]
           /\ dirent' = [dirent EXCEPT ![f.dp][name(p)] = 0]
           /\ lock' = [lock EXCEPT ![f.dp] = None, ![f.ip] = p]
           /\ frame' = [frame EXCEPT ![p].pc = "dropped", ![p].dp = 0, ![p].todo = put(f.dp)]
  /\ UNCHANGED <<files, cwd>>

(* ... and then the inode loses its link.                                  *)
UnlinkDrop(p) ==
  /\ At(p, "dropped")
  /\ LET i == frame[p].ip IN
     /\ inode' = [inode EXCEPT ![i].nlink = @ - 1]
     /\ dinode' = [dinode EXCEPT ![i] = OnDisk(inode'[i])]
     /\ lock' = [lock EXCEPT ![i] = None]
     /\ frame' = [frame EXCEPT ![p] = Returns(put(i))]
  /\ UNCHANGED <<dirent, files, cwd, panicked>>

Step(p) ==
  \/ Iunlock(p) \/ Iput(p) \/ IputFree(p) \/ IputDrop(p) \/ Walk(p)
  \/ CreateIn(p) \/ CreateExisting(p) \/ CreateNew(p) \/ Open(p) \/ OpenFile(p)
  \/ Chdir(p) \/ Link(p) \/ Dirlink(p) \/ LinkUndo(p)
  \/ Unlink(p) \/ UnlinkEntry(p) \/ UnlinkDrop(p) \/ Fileclose(p) \/ PipeFds(p)

Program(p) ==
  \/ Call(p) \/ Close(p) \/ Dup(p) \/ Fstat(p) \/ Pipe(p) \/ Exit(p)
  \/ \E q \in Proc : Fork(p, q)

Next == \E p \in Proc : Step(p) \/ Program(p)

Spec == Init /\ [][Next]_vars

-----------------------------------------------------------------------------
TypeOK ==
  /\ inode \in [Inum -> [ref : Nat, valid : BOOLEAN, type : Types, nlink : Int]]
  /\ dinode \in [Inum -> [type : Types, nlink : Int]]
  /\ dirent \in [Inum -> [Elem -> Inum \cup {0}]]
  /\ lock \in [Inum -> Proc \cup {None}]
  /\ ftable \in [File -> [ref : Nat, ip : Inum \cup {0}]]
  /\ ofile \in [Proc -> [Fd -> File \cup {0}]]
  /\ cwd \in [Proc -> Inum \cup {0}]
  /\ \A p \in Proc : /\ frame[p].pc \in Pcs
                     /\ {frame[p].at, frame[p].ip, frame[p].dp} \subseteq Inum \cup {0}
  /\ panicked \in BOOLEAN

(* Calls on the files of one directory, which may itself come and go and   *)
(* be the current directory of a process, reach no panic: ilock never      *)
(* meets a free inode, unlink never an inode without links, and iput finds *)
(* the lock of the inode it frees not taken, as its comment says.  The     *)
(* inode table has a place for every inode, so that iget always finds one. *)
(* With directories in directories the first part does not hold: ".." of a *)
(* removed directory may lead to an inode that has been freed.             *)
NoPanic == ~panicked

(* The pointers to inode i in the calls, open files and directories of     *)
(* the processes.                                                          *)
Pointers(i) ==
  LET InFrame(p) ==
        LET todo == frame[p].todo IN
        Cardinality({k \in {"at", "ip", "dp"} : frame[p][k] = i})
        + Quantify(DOMAIN todo, LAMBDA k : todo[k].ip = i /\ todo[k].do \notin {"unlock", "close"})
        + (IF cwd[p] = i THEN 1 ELSE 0)
  IN  MapThenSumSet(InFrame, Proc)
      + Quantify(File, LAMBDA f : ftable[f].ref > 0 /\ ftable[f].ip = i)

(* The descriptors that lead to open file f, in all processes              *)
Descriptors(f) ==
  LET In(p) ==
        LET todo == frame[p].todo IN
        Quantify(Fd, LAMBDA d : ofile[p][d] = f)
        + (IF frame[p].file = f THEN 1 ELSE 0)
        + Quantify(DOMAIN todo, LAMBDA k : todo[k].ip = f /\ todo[k].do = "close")
  IN  MapThenSumSet(In, Proc)

(* ip->ref is the number of pointers to the entry (the comment at fs.c:133)*)
(* and f->ref that of the descriptors that share a file through dup or     *)
(* fork, on every path through every call, failures included: none is      *)
(* lost, so that the entry could never be used again, and none is dropped  *)
(* twice.                                                                  *)
RefsExact ==
  /\ TypeOK
  /\ \A i \in Inum : inode[i].ref = Pointers(i)
  /\ \A f \in File : ftable[f].ref = Descriptors(f)

(* The entries that count as links of i: those of directories that have    *)
(* links themselves and are not just losing them, "." excepted.            *)
Linked(d) ==
  /\ dinode[d].type = "dir" /\ dinode[d].nlink > 0
  /\ \A p \in Proc : ~(frame[p].pc = "dropped" /\ frame[p].ip = d)
LinksTo(i) == {e \in {d \in Inum : Linked(d)} \X (Elem \ {"."}) : dirent[e[1]][e[2]] = i}

(* Every entry of a linked directory leads to an allocated inode whose     *)
(* nlink counts it, so that iput cannot free what still has a name; also   *)
(* while calls on the same names are under way.                            *)
LinksCounted ==
  \A i \in Inum :
    LET links == LinksTo(i)
    IN  links # {} => dinode[i].type # "free" /\ dinode[i].nlink >= Cardinality(links)

(* No call waits for a lock that only it, or a call that waits for it, can *)
(* give back: the locks that create and unlink take two at a time, and     *)
(* those that path lookup takes one by one, never close a circle.          *)
Waits(p, S) ==
  /\ frame[p].todo = <<>> /\ Wanted(p) # 0
  /\ lock[Wanted(p)] \in S
NoCircularWait == \A S \in SUBSET Proc \ {{}} : \E p \in S : ~Waits(p, S)

=============================================================================
