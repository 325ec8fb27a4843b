------------------------------ MODULE Ext2Scan ------------------------------
(***************************************************************************)
(* What the P7 scanner (runscan.c) recovers from an ext2 image: it copies  *)
(* every regular file that starts like a JPEG to a file named by its inode *)
(* number, then once more under the names that directories have for it;    *)
(* when an entry is named top_secret, only what that directory names is    *)
(* kept.                                                                   *)
(*                                                                         *)
(* The image does not change.  A directory is the sequence of its entries  *)
(* as the scanner steps through them, deleted ones with inode 0 included.  *)
(* How a file is copied is in Ext2Copy; here a copy is the inode number of *)
(* what was copied.                                                        *)
(***************************************************************************)
EXTENDS Naturals, Sequences

CONSTANTS
  num_groups, inodes_per_group,
  Names, TopSecret,
  Images      \* [kind, entries]: what each inode is, what each directory has

Inums  == 1 .. num_groups * inodes_per_group
Kinds  == {"free", "other", "jpg", "dir"}

\* A directory has a name once, but for deleted entries.
NamesDiffer(es) == \A m, n \in 1 .. Len(es) :
  m # n /\ es[m][2] = es[n][2] => es[m][1] = 0 \/ es[n][1] = 0

ConstantAssumptions ==
  /\ num_groups \in Nat \ {0} /\ inodes_per_group \in Nat \ {0}
  /\ TopSecret \in Names
  /\ \A image \in Images :
       /\ image.kind \in [Inums -> Kinds]
       /\ image.entries \in [Inums -> Seq((Inums \cup {0}) \X Names)]
       /\ \A d \in Inums : image.kind[d] = "dir" => NamesDiffer(image.entries[d])

VARIABLES
  image,
  pc,
  i,                 \* the inode that a scan is at
  k,                 \* the entry of its directory that is next
  inode_is_jpg,      \* as the set of inodes it is true of
  have_top_secret,
  secret,            \* top_secret_dentry.inode
  list,              \* the entries read for top_secret
  files,             \* inodes with file-<inode>.jpg
  named              \* what has been copied under each name, or 0

vars == <<image, pc, i, k, inode_is_jpg, have_top_secret, secret, list, files, named>>

kind    == image.kind
entries == image.entries

-----------------------------------------------------------------------------
Secrets(n) == {e \in 1 .. Len(entries[n]) : entries[n][e][2] = TopSecret}
LastOf(S)  == CHOOSE e \in S : \A other \in S : other <= e

(* The scan of the inode tables, one inode after the other.                *)
ScanJpg ==
  /\ pc = "scan" /\ i \in Inums /\ kind[i] = "jpg"
  /\ inode_is_jpg' = inode_is_jpg \cup {i}
  /\ files' = files \cup {i}
  /\ i' = i + 1
  /\ UNCHANGED <<image, pc, k, have_top_secret, secret, list, named>>

ScanDir ==
  /\ pc = "scan" /\ i \in Inums /\ kind[i] = "dir"
  /\ IF Secrets(i) = {} THEN UNCHANGED <<have_top_secret, secret>>
     ELSE have_top_secret' = TRUE /\ secret' = entries[i][LastOf(Secrets(i))][1]
  /\ i' = i + 1
  /\ UNCHANGED <<image, pc, k, inode_is_jpg, list, files, named>>

ScanOther ==
  /\ pc = "scan" /\ i \in Inums /\ kind[i] \in {"free", "other"}
  /\ i' = i + 1
  /\ UNCHANGED <<image, pc, k, inode_is_jpg, have_top_secret, secret, list, files, named>>

(***************************************************************************)
(* The inode of top_secret: the group and the index in its table are the   *)
(* quotient and the remainder of its number.  read_inode takes indices     *)
(* from 1: with remainder 0 it reads what is before the table of the next  *)
(* group, and whatever that looks like is listed.                          *)
(***************************************************************************)
Located(n) == IF n % inodes_per_group = 0 THEN 0
              ELSE (n \div inodes_per_group) * inodes_per_group + (n % inodes_per_group)
ReadDir(n) == IF n \in Inums /\ kind[n] = "dir" THEN {entries[n]}
              ELSE {<<>>} \cup {entries[d] : d \in Inums}

ReadSecret ==
  /\ pc = "scan" /\ i \notin Inums /\ have_top_secret
  /\ list' \in ReadDir(Located(secret))
  /\ k' = 1
  /\ pc' = "secret"
  /\ UNCHANGED <<image, i, inode_is_jpg, have_top_secret, secret, files, named>>

(* Its entries that name a picture, each picture once.                     *)
NameSecret ==
  /\ pc = "secret" /\ k <= Len(list)
  /\ k' = k + 1
  /\ IF list[k][1] \in inode_is_jpg
     THEN /\ named' = [named EXCEPT ![list[k][2]] = list[k][1]]
          /\ inode_is_jpg' = inode_is_jpg \ {list[k][1]}
     ELSE UNCHANGED <<named, inode_is_jpg>>
  /\ UNCHANGED <<image, pc, i, have_top_secret, secret, list, files>>

RemoveOthers ==
  /\ pc = "secret" /\ k > Len(list)
  /\ files' = files \ inode_is_jpg
  /\ pc' = "done"
  /\ UNCHANGED <<image, i, k, inode_is_jpg, have_top_secret, secret, list, named>>

-----------------------------------------------------------------------------
(* Without top_secret: the entries of all directories.                     *)
StartNames ==
  /\ pc = "scan" /\ i \notin Inums /\ ~have_top_secret
  /\ i' = 1 /\ k' = 1
  /\ pc' = "names"
  /\ UNCHANGED <<image, inode_is_jpg, have_top_secret, secret, list, files, named>>

InDir == i \in Inums /\ kind[i] = "dir" /\ k <= Len(entries[i])

Name ==
  /\ pc = "names" /\ InDir
  /\ k' = k + 1
  /\ IF entries[i][k][1] \in inode_is_jpg
     THEN named' = [named EXCEPT ![entries[i][k][2]] = entries[i][k][1]]
     ELSE UNCHANGED named
  /\ UNCHANGED <<image, pc, i, inode_is_jpg, have_top_secret, secret, list, files>>

NextInode ==
  /\ pc = "names" /\ i \in Inums /\ ~InDir
  /\ i' = i + 1 /\ k' = 1
  /\ UNCHANGED <<image, pc, inode_is_jpg, have_top_secret, secret, list, files, named>>

NamesDone ==
  /\ pc = "names" /\ i \notin Inums
  /\ pc' = "done"
  /\ UNCHANGED <<image, i, k, inode_is_jpg, have_top_secret, secret, list, files, named>>

-----------------------------------------------------------------------------
Init ==
  /\ image \in Images
  /\ pc = "scan" /\ i = 1 /\ k = 1
  /\ inode_is_jpg = {} /\ have_top_secret = FALSE /\ secret = 0 /\ list = <<>>
  /\ files = {} /\ named = [x \in Names |-> 0]

Next ==
  \/ ScanJpg \/ ScanDir \/ ScanOther
  \/ ReadSecret \/ NameSecret \/ RemoveOthers
  \/ StartNames \/ Name \/ NextInode \/ NamesDone

Spec == Init /\ [][Next]_vars

-----------------------------------------------------------------------------
TypeOK ==
  /\ kind \in [Inums -> Kinds] /\ pc \in {"scan", "secret", "names", "done"}
  /\ i \in Nat /\ k \in Nat \ {0}
  /\ inode_is_jpg \subseteq Inums /\ have_top_secret \in BOOLEAN
  /\ secret \in Inums \cup {0}
  /\ files \subseteq Inums /\ named \in [Names -> Inums \cup {0}]

Jpgs     == {n \in Inums : kind[n] = "jpg"}
Links(d) == {entries[d][e] : e \in 1 .. Len(entries[d])}
Listed(es) == {n \in Jpgs : \E e \in 1 .. Len(es) : es[e][1] = n}

(* Everything is recovered: each picture by its number, and each name that *)
(* some directory has for a picture with one of the pictures of that name. *)
AllRecovered ==
  /\ files = Jpgs
  /\ \A x \in Names :
       LET Called == {n \in Jpgs : \E d \in Inums : kind[d] = "dir" /\ <<n, x>> \in Links(d)}
       IN IF Called = {} THEN named[x] = 0 ELSE named[x] \in Called

(* What the entries es name is recovered, and nothing else: each picture   *)
(* by its number and under a name it has there.                            *)
OnlyRecovered(es) ==
  /\ files = Listed(es)
  /\ \A x \in Names : named[x] # 0 => \E e \in 1 .. Len(es) : es[e] = <<named[x], x>>
  /\ NamesDiffer(es) => \A n \in Listed(es) : \E x \in Names : named[x] = n

(* There is a top_secret if a directory has an entry of that name; of      *)
(* several directories that have, it is the last one's that counts.        *)
SecretDirs == {d \in Inums : kind[d] = "dir" /\ Secrets(d) # {}}
SecretOf(S) ==
  IF have_top_secret
  THEN \E d \in S : secret = entries[d][LastOf(Secrets(d))][1] /\ \A other \in S : other <= d
  ELSE S = {}

(* read_inode finds the inode of top_secret: the entry is not a stale one, *)
(* its inode is not the last of its group, and it is a directory.          *)
Reached == secret # 0 /\ secret % inodes_per_group # 0 /\ kind[secret] = "dir"

\* The scanner ends with what it is for: every picture of the image when no
\* directory has an entry top_secret, and otherwise exactly those named by
\* the entries it has read for the last such entry.  These are the entries of
\* that directory if read_inode finds it; if not, nothing is said of them.
Recovered == pc = "done" =>
  /\ SecretOf(SecretDirs)
  /\ IF have_top_secret
     THEN OnlyRecovered(list) /\ (Reached => list = entries[secret])
     ELSE AllRecovered

\* What top_secret names is recovered wherever its inode is: "If there are
\* 100 inodes per group, then the first inode table holds inode number 1 to
\* 100, the second holds 101 to 200" (runscan.c:76).
SecretRecovered ==
  pc = "done" /\ have_top_secret /\ secret # 0 /\ kind[secret] = "dir" =>
    OnlyRecovered(entries[secret])

-----------------------------------------------------------------------------
(***************************************************************************)
(* The inductive invariant: what each of the scans has done so far.        *)
(***************************************************************************)
ScanInv ==
  /\ i \in 1 .. num_groups * inodes_per_group + 1
  /\ inode_is_jpg = {n \in Jpgs : n < i} /\ files = inode_is_jpg
  /\ named = [x \in Names |-> 0]
  /\ SecretOf({d \in SecretDirs : d < i})

SecretInv ==
  /\ have_top_secret /\ files = Jpgs /\ k <= Len(list) + 1
  /\ Reached => list = entries[secret]
  /\ inode_is_jpg = {n \in Jpgs : \A e \in 1 .. k - 1 : list[e][1] # n}
  /\ \A x \in Names : named[x] # 0 => \E e \in 1 .. k - 1 : list[e] = <<named[x], x>>
  /\ NamesDiffer(list) => \A n \in Jpgs \ inode_is_jpg : \E x \in Names : named[x] = n

\* The pictures that directories up to the entry before k of i call x.
CalledSoFar(x) == {n \in Jpgs : \E d \in Inums : kind[d] = "dir" /\
  \E e \in 1 .. Len(entries[d]) : entries[d][e] = <<n, x>> /\ (d < i \/ (d = i /\ e < k))}

NamesInv ==
  /\ ~have_top_secret /\ files = Jpgs /\ inode_is_jpg = Jpgs
  /\ i \in 1 .. num_groups * inodes_per_group + 1
  /\ \A x \in Names :
       IF CalledSoFar(x) = {} THEN named[x] = 0 ELSE named[x] \in CalledSoFar(x)

IInv ==
  /\ TypeOK /\ list \in Seq((Inums \cup {0}) \X Names)
  /\ pc = "scan" => ScanInv
  /\ pc = "secret" => SecretInv
  /\ pc = "names" => NamesInv
  /\ pc # "scan" => SecretOf(SecretDirs)
  /\ Recovered
=============================================================================
