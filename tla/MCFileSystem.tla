---------------------------- MODULE MCFileSystem ----------------------------
(***************************************************************************)
(* FileSystem for TLC: disks to start from and calls to make.              *)
(***************************************************************************)
EXTENDS FileSystem, TLC

Abs(names) == [rel |-> FALSE, names |-> names]
Rel(names) == [rel |-> TRUE, names |-> names]
Call1(c, path) == [call |-> c, path |-> path]

(* mkfs fills the last block of the root directory.                        *)
Dir(nlink, size, addr) == [type |-> "dir", nlink |-> nlink, size |-> size, addr |-> addr]
File(nlink) == [type |-> "file", nlink |-> nlink, size |-> 0, addr |-> 0]
Entry(n, i) == [name |-> n, inum |-> i]
DirBlock(seq) == [dir |-> [k \in 1 .. NSLOTS |-> IF k <= Len(seq) THEN seq[k] ELSE NoEntry],
                  data |-> FALSE]
Image(inodes, dirs) ==
  [dinode |-> [i \in Inums |-> IF i <= Len(inodes) THEN inodes[i] ELSE FreeInode],
   used |-> 1 .. Len(dirs),
   block |-> [b \in Blocks |-> IF b <= Len(dirs) THEN DirBlock(dirs[b]) ELSE ZeroBlock]]

Dots(i, parent) == <<Entry(".", i), Entry("..", parent)>>

(* An empty root; a file a; a directory a; a directory a with a file b.    *)
FewImages ==
  { Image(<<Dir(1, NSLOTS, 1)>>, <<Dots(1, 1)>>),
    Image(<<Dir(1, NSLOTS, 1), File(1)>>, <<Dots(1, 1) \o <<Entry("a", 2)>>>>),
    Image(<<Dir(2, NSLOTS, 1), Dir(1, 2, 2)>>,
          <<Dots(1, 1) \o <<Entry("a", 2)>>, Dots(2, 1)>>) }

(* A directory a with a directory b.                                       *)
NestedImage ==
  { Image(<<Dir(2, NSLOTS, 1), Dir(2, 3, 2), Dir(1, 2, 3)>>,
          <<Dots(1, 1) \o <<Entry("a", 2)>>, Dots(2, 1) \o <<Entry("b", 3)>>, Dots(3, 2)>>) }

A  == Abs(<<"a">>)
B  == Abs(<<"b">>)
AB == Abs(<<"a", "b">>)

ManyCalls ==
  { Call1("creat", AB), Call1("creat", Rel(<<"b">>)), Call1("mkdir", A),
    Call1("unlink", A), Call1("unlink", AB), Call1("open", A), Call1("chdir", A),
    [call |-> "link", path |-> A, new |-> B] }

DotdotCalls ==
  { Call1("chdir", AB), Call1("unlink", AB), Call1("unlink", A), Call1("open", Rel(<<"..">>)) }

ProcSymmetry == Permutations(Procs)
=============================================================================
