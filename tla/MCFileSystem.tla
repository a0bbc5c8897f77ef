---------------------------- MODULE MCFileSystem ----------------------------
(* Two processes on one directory /d and the files /f and /d/f; the second *)
(* exits now and then and is forked again.  unlink of /d takes the locks   *)
(* of / and /d from above, and create of .. in /d comes to / from below;   *)
(* in / it finds / itself.                                                 *)
EXTENDS FileSystem

CONSTANTS p1, p2

d == <<"/", "d">>
f == <<"/", "f">>
df == <<"/", "d", "f">>
up == <<"..">>

On(op, path) == [op |-> op, path |-> path, new |-> <<>>]
LinkTo(old, new) == [op |-> "link", path |-> old, new |-> new]

Does(op) == On(op, <<>>)

MCCalls ==
  p1 :> {On("unlink", d), On("creat", df), Does("close"), Does("fstat"), Does("fork")}
  @@ p2 :> {On("mkdir", d), On("mkdir", up), On("unlink", df), LinkTo(df, f), On("mknod", f),
            On("openw", d), On("openw", f), On("chdir", d), On("chdir", f),
            Does("dup"), Does("pipe"), Does("exit")}

(* One process, that links a directory, or creates what is there: "/d/.",  *)
(* or removes its directory and the one above, and then looks up "..".     *)
MCLinkDir == p1 :> {On("mkdir", d), LinkTo(d, f)}
MCCreateDot == p1 :> {On("mkdir", d), On("mkdir", <<"/", "d", ".">>)}
MCDotDot == p1 :> {On("mkdir", d), On("mkdir", df), On("chdir", df),
                   On("unlink", df), On("unlink", d), On("chdir", up)}
=============================================================================
