---------------------------- MODULE MCFileSystem ----------------------------
(* Instances of FileSystem: the image mkfs writes and the calls made. *)
EXTENDS FileSystem, Mkfs

(* A program "b" of one or of three cells, which leaves four or two blocks.*)
Images == {Mkfs(<<[name |-> "b", size |-> n]>>) : n \in {1, 3}}

Swaps == [p \in Proc |-> <<"s1", "s2", "s3">>[p]]

Path(op, path) == [NoCall EXCEPT !.op = op, !.path = path]
Local(op, path) == [NoCall EXCEPT !.op = op, !.path = path, !.abs = FALSE]
Simple(ops) == {[NoCall EXCEPT !.op = op] : op \in ops}

Link(path, new) == [NoCall EXCEPT !.op = "link", !.path = path, !.new = new]
OpenCall(path, mode) == [NoCall EXCEPT !.op = "open", !.path = path, !.mode = mode]

(* Two processes link, unlink and create the same names. *)
LinkMenu == {Link(<<"b">>, <<"a">>), Path("unlink", <<"b">>), Path("unlink", <<"a">>),
             Path("creat", <<"a">>)} \cup Simple({"fork", "close"})

(* Two processes make, fill, enter and remove a directory. *)
DirMenu == {Path("mkdir", <<"a">>), Path("unlink", <<"a">>), Path("creat", <<"a", "b">>),
            Path("unlink", <<"a", ".">>), Local("chdir", <<"a">>), Link(<<"a">>, <<"c">>), OpenCall(<<"a">>, "rdwr")}
           \cup Simple({"fork"})

(* One process empties and removes a tree that it is in. *)
TreeMenu == {Path("mkdir", <<"a">>), Path("mkdir", <<"a", "c">>), Local("chdir", <<"a", "c">>),
             Path("unlink", <<"a", "c">>), Path("unlink", <<"a">>), Local("creat", <<"..", "d">>)}

(* Two processes read, write, truncate and remove an open file. *)
DataMenu == {OpenCall(<<"b">>, "rdonly"), OpenCall(<<"b">>, "trunc"),
             Path("unlink", <<"b">>), Path("mknod", <<"a">>),
             [Path("mknod", <<"a">>) EXCEPT !.mode = "badmajor"], OpenCall(<<"a">>, "rdonly")}
            \cup Simple({"fork", "write", "read", "dup", "close"})

(* Processes run a program, with their swap files, remove it, and exit. *)
ExecMenu == {Path("exec", <<"b">>), Path("unlink", <<"b">>), Path("creat", <<"a">>)} \cup Simple({"fork", "exit", "swapout"})

AllMenus == {LinkMenu, DirMenu, TreeMenu, DataMenu, ExecMenu}
Calls == [m \in AllMenus |-> IF m = TreeMenu THEN 6 ELSE 4]
=============================================================================
