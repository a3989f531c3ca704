----------------------------- MODULE PackageTree -----------------------------
(* The tree of a source package: as it lies on disk after extraction, as     *)
(* constructTree (publisher/analysis/tree.go) writes it into the manifest,   *)
(* and as the extension walks it (types/inode.ts, providers/fileSystem.ts).  *)
(*                                                                           *)
(* A path is a sequence of names, <<>> the root of the package.  A disk is a *)
(* function from paths, closed under prefixes, to nodes:                     *)
(*   [kind |-> "dir"], [kind |-> "pipe"],                                    *)
(*   [kind |-> "file", sha256, text |-> not large and without NUL bytes,     *)
(*                     tagged |-> no name of its path ends in .json, .patch  *)
(*                                or .md],                                   *)
(*   [kind |-> "link", to |-> destination, split at "/",                     *)
(*                     away |-> TRUE if a directory is there, in case that   *)
(*                              it is not in the package].                   *)
(* A destination that begins with "" is absolute.  What is outside of the    *)
(* package belongs to the machine that extracted it.                         *)
EXTENDS Naturals, Sequences, SequencesExt

CONSTANTS
  MaxFollowed,  \* links that a lookup may follow: the kernel gives up after 40
  MaxDepth      \* frames of resolveLinks that fit on the stack

ASSUME DepthType == MaxFollowed \in Nat /\ MaxDepth \in Nat /\ MaxFollowed <= MaxDepth

(* Failures are paths that no package has. *)
NotFound      == <<"FileNotFound">>
NotADirectory == <<"FileNotADirectory">>
IsADirectory  == <<"FileIsADirectory">>
Loop          == <<"Symbolic link loop">>
Outside       == <<"Outside of the package">>

Failures == {NotFound, NotADirectory, IsADirectory, Loop, Outside}

(* What an archive unpacks to: everything is in a directory.                 *)
IsDisk(disk) ==
  /\ DOMAIN disk \subseteq Seq(STRING) \ Failures
  /\ <<>> \in DOMAIN disk /\ disk[<<>>].kind = "dir"
  /\ \A p \in DOMAIN disk :
       /\ disk[p].kind \in {"dir", "pipe", "file", "link"}
       /\ p # <<>> => /\ Front(p) \in DOMAIN disk /\ disk[Front(p)].kind = "dir"
                      /\ Last(p) \notin {"", ".", ".."}
       /\ disk[p].kind = "link" => disk[p].to \in Seq(STRING) \ {<<>>}

LinksOf(disk) == {p \in DOMAIN disk : disk[p].kind = "link"}
FilesOf(disk) == {p \in DOMAIN disk : disk[p].kind = "file"}
IsDirAt(disk, p) == p \in DOMAIN disk /\ disk[p].kind = "dir"

IsAbsolute(to) == Head(to) = ""

(* path_resolution(7), from a directory and what is left of the path and of  *)
(* the links that may be followed.  A name needs a directory to be looked up *)
(* in.                                                                       *)
Lookups == Seq(STRING) \X Seq(STRING) \X Nat

LookUp(disk, at, dir, parts, left) ==
  LET next == Append(dir, Head(parts)) IN
  IF parts = <<>> THEN dir
  ELSE IF ~ IsDirAt(disk, dir) THEN NotADirectory
  ELSE IF Head(parts) \in {"", "."} THEN at[<<dir, Tail(parts), left>>]
  ELSE IF Head(parts) = ".."
       THEN IF dir = <<>> THEN Outside ELSE at[<<Front(dir), Tail(parts), left>>]
  ELSE IF next \notin DOMAIN disk THEN NotFound
  ELSE IF disk[next].kind # "link" THEN at[<<next, Tail(parts), left>>]
  ELSE IF left = 0 THEN Loop
  ELSE IF IsAbsolute(disk[next].to) THEN Outside
  ELSE at[<<dir, disk[next].to \o Tail(parts), left - 1>>]

Kernel(disk) ==
  LET at[s \in Lookups] == LookUp(disk, at, s[1], s[2], s[3]) IN at

(* Where the kernel gets from the root of the package, following every link. *)
OnDiskWithin(disk, path, limit) == Kernel(disk)[<< <<>>, path, limit>>]

OnDisk(disk, path) == OnDiskWithin(disk, path, MaxFollowed)

-----------------------------------------------------------------------------
(* The publisher. *)

(* mutant: os.Lstat *)
IsDirOfLink(disk, p) == IsDirAt(disk, p)

(* os.Stat of a link.  Outside of the package it finds what is there. *)
IsDir(disk, p) ==
  LET dst == OnDisk(disk, p)
  IN  IF dst = Outside THEN disk[p].away ELSE IsDirAt(disk, dst)

(* Named pipes are left out; other special files end the package. *)
ConstructTree(disk) ==
  [p \in {q \in DOMAIN disk : disk[q].kind # "pipe"} |->
     CASE disk[p].kind = "dir"  -> [type |-> "directory"]
       [] disk[p].kind = "file" -> [type |-> "file", sha256 |-> disk[p].sha256]
       [] disk[p].kind = "link" -> [type |-> "symlink", symlink_to |-> disk[p].to,
                                    is_directory |-> IsDir(disk, p)]]

(* The paths of paths.fzf, by way of the directories of the tree. *)
FzfIndex(disk) ==
  LET tree == ConstructTree(disk) IN {p \in DOMAIN tree : tree[p].type = "file"}

(* mutant: links are opened as if they were files *)
CodesearchIndexLinks(disk) == {p \in FilesOf(disk) : disk[p].text} \cup LinksOf(disk)

(* The files that text search can find. *)
CodesearchIndex(disk) == {p \in FilesOf(disk) : disk[p].text}

(* The files that can define symbols, whatever their size and bytes: ctags   *)
(* --recurse --links=no with its --exclude patterns.                         *)
CtagsIndex(disk) == {p \in FilesOf(disk) : disk[p].tagged}

-----------------------------------------------------------------------------
(* The extension.  A node is the path of the object; its `parent` is the     *)
(* path without the last name, and the root has none.                        *)

(* parsePackageManifest throws if the constructor of a link does. *)
Parses(tree) ==
  \A p \in DOMAIN tree : tree[p].type = "symlink" => ~ IsAbsolute(tree[p].symlink_to)

(* File.descend and Directory.descend *)
Child(tree, node, name) ==
  IF tree[node].type = "file" THEN NotADirectory
  ELSE IF Append(node, name) \in DOMAIN tree THEN Append(node, name) ELSE NotFound

(* SymbolicLink.resolveLinks, from a node and what is left of the           *)
(* destination of a link.  A loop of more than one link ends when the stack  *)
(* is full.                                                                  *)
Frames == Seq(STRING) \X Seq(STRING) \X Seq(STRING) \X Nat

ResolveFrom(tree, from, link, n, parts, depth) ==
  IF parts = <<>> THEN n
  ELSE IF Head(parts) = "." THEN from[<<link, n, Tail(parts), depth>>]
  ELSE IF Head(parts) = ".."
       THEN IF n = <<>> THEN Outside ELSE from[<<link, Front(n), Tail(parts), depth>>]
  ELSE LET tmp == Child(tree, n, Head(parts))
           dst == IF tmp \in Failures THEN tmp
                  ELSE IF tmp = link \/ depth = 0 THEN Loop
                  ELSE IF tree[tmp].type # "symlink" THEN tmp
                  ELSE from[<<tmp, Front(tmp), tree[tmp].symlink_to, depth - 1>>]
       IN  IF dst \in Failures THEN dst ELSE from[<<link, dst, Tail(parts), depth>>]

Resolver(tree) ==
  LET from[s \in Frames] == ResolveFrom(tree, from, s[1], s[2], s[3], s[4]) IN from

Follow(tree, node) ==
  Resolver(tree)[<<node, Front(node), tree[node].symlink_to, MaxDepth>>]

(* mutant: links inside the destination are not followed *)
ResolveOneLink(tree, node) ==
  LET step(n, part) ==
        IF n \in Failures \/ part = "." THEN n
        ELSE IF part = ".." THEN IF n = <<>> THEN Outside ELSE Front(n)
        ELSE IF tree[n].type = "symlink" THEN NotADirectory ELSE Child(tree, n, part)
  IN  IF tree[node].type # "symlink" THEN node
      ELSE FoldLeft(step, Front(node), tree[node].symlink_to)

(* the others return themselves *)
ResolveLinks(tree, node) ==
  IF tree[node].type # "symlink" THEN node ELSE Follow(tree, node)

(* SymbolicLink.descend and the others *)
Descend(tree, node, name) ==
  IF node \in Failures THEN node
  ELSE IF tree[node].type # "symlink" THEN Child(tree, node, name)
  ELSE IF ~ tree[node].is_directory THEN NotADirectory
  ELSE LET dst == ResolveLinks(tree, node)
       IN  IF dst \in Failures THEN dst ELSE Child(tree, dst, name)

WalkPath(tree, path) ==
  LET at[i \in 0 .. Len(path)] ==
        IF i = 0 THEN <<>> ELSE Descend(tree, at[i - 1], path[i])
  IN  at[Len(path)]

(* What the provider returns: a node, whose type is shown; the nodes of a    *)
(* directory, whose names and types are shown; a content; or a failure.      *)
Stat(tree, path) == WalkPath(tree, path)

Reached(tree, path) ==
  LET node == WalkPath(tree, path)
  IN  IF node \in Failures THEN node ELSE ResolveLinks(tree, node)

ReadDirectory(tree, path) ==
  LET dir == Reached(tree, path)
  IN  IF dir \in Failures THEN {dir}
      ELSE IF tree[dir].type = "file" THEN {NotADirectory}
      ELSE {p \in DOMAIN tree \ {<<>>} : Front(p) = dir}

ReadFile(tree, path) ==
  LET file == Reached(tree, path)
  IN  IF file \in Failures THEN file
      ELSE IF tree[file].type = "file" THEN tree[file].sha256 ELSE IsADirectory

ShownAsDirectory(tree, node) ==
  tree[node].type = "directory" \/ (tree[node].type = "symlink" /\ tree[node].is_directory)
=============================================================================
