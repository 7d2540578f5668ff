-------------------------------- MODULE MCFs --------------------------------
EXTENDS Fs

CONSTANTS f1, f2

\* What Next depends on; the other variables tell of the step before.
RootOnly == root

Put(e, p) == [cmd |-> "put", ent |-> e, dst |-> p]
Mkdir(p) == [cmd |-> "mkdir", dst |-> p]
Rm(p) == [cmd |-> "rm", src |-> p]
Cp(p, q) == [cmd |-> "cp", src |-> p, dst |-> q]
Mv(p, q) == [cmd |-> "mv", src |-> p, dst |-> q]

\* Folders 1 and 2 on two levels, the file 3 in any of them.
Folders == {<<1>>, <<2>>, <<1, 2>>, <<2, 1>>}
Homes == Folders \cup {<<>>}
Files == {Append(d, 3) : d \in Homes}

HostFolder == Folder(2, <<File(3, f1)>>)

Outside(p, q) == ~SX!IsPrefix(p, q)

\* Requests that name folders and files apart and move nothing into itself.
Careful ==
  {Put(File(3, f1), PathSlash(p)) : p \in Homes}
    \cup {Put(File(3, f2), Path(p)) : p \in Files}
    \cup {Put(HostFolder, PathSlash(p)) : p \in {<<>>, <<1>>}}
    \cup {Mkdir(Path(p)) : p \in Folders}
    \cup {Rm(p) : p \in Folders \cup Files}
    \cup {Cp(p, PathSlash(q)) : p \in Folders \cup Files, q \in Homes}
    \cup {Cp(p, Path(q)) : p \in Folders, q \in Folders}
    \cup {Mv(p, Path(q)) : <<p, q>> \in {x \in Folders \X Folders : Outside(x[1], x[2])}}
    \cup {Mv(p, Path(q)) : <<p, q>> \in {x \in Files \X Files : x[1] # x[2]}}
    \cup {Mv(p, PathSlash(q)) :
            <<p, q>> \in {x \in (Folders \cup Files) \X Homes : Outside(x[1], x[2])}}

\* A file is given the name of a folder.
SameName == {Mkdir(Path(<<1>>)), Mkdir(Path(<<2>>)), Put(File(3, f1), Path(<<1>>))}

\* A folder is moved into itself.
IntoItself == {Mkdir(Path(<<1>>)), Put(File(3, f1), PathSlash(<<1>>)), Mv(<<1>>, Path(<<1, 2>>))}

\* A folder is made at a path that ends in a slash.
WithSlash == {Mkdir(Path(<<1>>)), Mkdir(PathSlash(<<1>>))}

\* Something is removed where nothing is.
FromEmpty == {Mkdir(Path(<<1>>)), Rm(<<1, 2>>)}
=============================================================================
