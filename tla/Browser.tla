------------------------------- MODULE Browser -------------------------------
(* A session of the extension over what the publisher stores: packages.json  *)
(* and symbols.txt are fetched once, when it is activated, and the manifest  *)
(* and the tags of a package when they are first needed (clients/package.ts, *)
(* clients/symbols.ts).  Each is a promise that is kept whichever way it     *)
(* settles.  Meanwhile the publisher replaces its lists.                     *)
(*                                                                           *)
(* The answers of the file system provider are operators on the tree that    *)
(* the manifest describes (PackageTree).                                     *)
EXTENDS Catalog, PackageTree

CONSTANTS
  Distro,  \* config.distribution
  Disks    \* possible contents: functions from <<name, version>> to disks

ASSUME DistroType == Distro \in Distros
ASSUME DisksType == \A D \in Disks : \A x \in DOMAIN D : IsDisk(D[x])

VARIABLES
  disk,      \* what the packages contain; fixed
  symbols,   \* symbols.txt: the entries whose indexes it consists of
  packages,  \* promise of the package list
  contents,  \* package -> promise of its tree
  locals,    \* package -> promise of its tags
  globals    \* promise of symbols.txt

promises == <<packages, contents, locals, globals>>
vars     == <<catalogVars, disk, symbols, promises>>

(* `of` is what the answer is about: a list, or the entry of an object.  *)
Promise(at, of) == [at |-> at, of |-> of]
None     == Promise("none", {})
Pending  == Promise("pending", {})
Rejected == Promise("rejected", {})

Activated ==
  /\ packages' = Pending /\ globals' = Pending
  /\ contents' = [n \in Names |-> None] /\ locals' = [n \in Names |-> None]

Init ==
  /\ CatalogInit /\ disk \in Disks /\ symbols = {}
  /\ packages = Pending /\ globals = Pending
  /\ contents = [n \in Names |-> None] /\ locals = [n \in Names |-> None]

DiskOf(e) == disk[<<e.name, e.version>>]
TreeOf(e) == ConstructTree(DiskOf(e))

-----------------------------------------------------------------------------
(* The publisher, for this distribution. *)

PublisherStores(e) ==
  /\ e.distro = Distro /\ <<e.name, e.version>> \in DOMAIN disk
  /\ StoreEntry(e)
  /\ UNCHANGED <<disk, symbols, promises>>

PublisherLists ==
  /\ PublishList(Distro)
  /\ UNCHANGED <<disk, symbols, promises>>

(* after packages.json, or never, if the run fails in between *)
PublisherConsolidates ==
  /\ symbols' = listing[Distro]
  /\ UNCHANGED <<catalogVars, disk, promises>>

-----------------------------------------------------------------------------
(* The extension. *)

Publisher == <<catalogVars, disk, symbols>>

PackagesSettle ==
  /\ packages = Pending
  /\ packages' \in {Promise("fulfilled", listing[Distro]), Rejected}
  /\ UNCHANGED <<Publisher, contents, locals, globals>>

GlobalsSettle ==
  /\ globals = Pending
  /\ globals' \in {Promise("fulfilled", symbols), Rejected}
  /\ UNCHANGED <<Publisher, packages, contents, locals>>

(* mutant: the object of the list as it is now *)
NewestPackage(n) == {e \in listing[Distro] : e.name = n}

(* mutant: undefined, when the list does not have the package *)
PackageOrUndefined(n) ==
  IF \E e \in packages.of : e.name = n THEN {e \in packages.of : e.name = n} ELSE {None}

(* getPackage: the object names come from the list of the session. *)
GetPackage(n) == {e \in packages.of : e.name = n}

ListPackageContents(n) ==
  /\ packages.at = "fulfilled" /\ contents[n].at = "none"
  /\ \E e \in GetPackage(n) : contents' = [contents EXCEPT ![n] = Promise("pending", e)]
  /\ UNCHANGED <<Publisher, packages, locals, globals>>

ListPackageSymbols(n) ==
  /\ packages.at = "fulfilled" /\ locals[n].at = "none"
  /\ \E e \in GetPackage(n) : locals' = [locals EXCEPT ![n] = Promise("pending", e)]
  /\ UNCHANGED <<Publisher, packages, contents, globals>>

(* A missing object, a network error or an absolute link rejects. *)
ManifestSettles(n) ==
  LET e == contents[n].of IN
  /\ contents[n].at = "pending"
  /\ \/ /\ e \in store /\ Parses(TreeOf(e))
        /\ contents' = [contents EXCEPT ![n].at = "fulfilled"]
     \/ contents' = [contents EXCEPT ![n].at = "rejected"]
  /\ UNCHANGED <<Publisher, packages, locals, globals>>

TagsSettle(n) ==
  /\ locals[n].at = "pending"
  /\ \/ /\ locals[n].of \in store
        /\ locals' = [locals EXCEPT ![n].at = "fulfilled"]
     \/ locals' = [locals EXCEPT ![n].at = "rejected"]
  /\ UNCHANGED <<Publisher, packages, contents, globals>>

(* The window is reloaded: the only way out of a rejected promise. *)
Reload == Activated /\ UNCHANGED Publisher

Next ==
  \/ \E e \in Entries : PublisherStores(e)
  \/ PublisherLists \/ PublisherConsolidates
  \/ PackagesSettle \/ GlobalsSettle \/ Reload
  \/ \E n \in Names : \/ ListPackageContents(n) \/ ListPackageSymbols(n)
                      \/ ManifestSettles(n) \/ TagsSettle(n)

Spec == Init /\ [][Next]_vars

-----------------------------------------------------------------------------
TypeOK ==
  /\ disk \in Disks
  /\ store \subseteq Entries /\ symbols \subseteq Entries
  /\ packages.at \in {"pending", "fulfilled", "rejected"} /\ packages.of \subseteq Entries
  /\ globals.at \in {"pending", "fulfilled", "rejected"} /\ globals.of \subseteq Entries
  /\ \A p \in {contents, locals} : \A n \in Names :
       \/ p[n].at = "none"
       \/ p[n].at \in {"pending", "fulfilled", "rejected"} /\ p[n].of \in Entries

Opened == {n \in Names : contents[n].at = "fulfilled"}

(* Whatever the session asks for is there, however often the lists were      *)
(* replaced since it fetched its own: no request is answered with 404.       *)
RequestsExist ==
  /\ packages.of \subseteq store /\ globals.of \subseteq store
  /\ \A n \in Names : /\ contents[n].at # "none" => contents[n].of \in store
                      /\ locals[n].at # "none" => locals[n].of \in store

(* A file found by its name or by its text, or that defines a symbol, opens  *)
(* under the path that was found, as the content that was indexed.  The tags *)
(* of all packages may be of other versions than those that the session      *)
(* lists; what they say is only relied on for the versions that agree.       *)
FoundFilesOpen ==
  \A n \in Opened :
    LET e       == contents[n].of
        opens(d, p) == p \in FilesOf(d) /\ ReadFile(TreeOf(e), p) = d[p].sha256
    IN  /\ \A p \in FzfIndex(DiskOf(e)) : opens(DiskOf(e), p)
        /\ \A p \in CodesearchIndex(DiskOf(e)) : opens(DiskOf(e), p)
        /\ locals[n].at = "fulfilled" =>
             \A p \in CtagsIndex(DiskOf(locals[n].of)) : opens(DiskOf(locals[n].of), p)
        /\ \A g \in globals.of :
             g = e => \A p \in CtagsIndex(DiskOf(g)) : opens(DiskOf(g), p)

(* No part of a destination is empty, as in "lib/", which the kernel skips   *)
(* and the extension looks up as a name.                                     *)
Tidy(d) == \A p \in LinksOf(d) : "" \notin ToSet(d[p].to)

(* A link leads in the browser to where it leads on disk: a node of the      *)
(* package, or nowhere.  Only ".." and "." behind a file, which are errors   *)
(* on disk, are let through.                                                 *)
LinksAgree ==
  \A n \in Opened :
    LET d == DiskOf(contents[n].of)
        t == TreeOf(contents[n].of)
    IN  Tidy(d) => \A p \in LinksOf(d) :
          LET onDisk == OnDisk(d, p)
              inTree == ResolveLinks(t, p)
          IN  /\ onDisk \in DOMAIN t => inTree = onDisk
              /\ inTree \in DOMAIN t => onDisk \in {inTree, NotADirectory}

(* A link into the package is shown as what it is: one shown as a directory  *)
(* lists names that all open below it, one shown as a file can be read.      *)
LinksOpenAsShown ==
  \A n \in Opened :
    LET d == DiskOf(contents[n].of)
        t == TreeOf(contents[n].of)
    IN  Tidy(d) => \A p \in LinksOf(d) : OnDisk(d, p) \in DOMAIN t =>
          LET dst == OnDisk(d, p)
          IN  IF ShownAsDirectory(t, p)
              THEN \A q \in DOMAIN t :
                     q # <<>> /\ Front(q) = dst =>
                       /\ q \in ReadDirectory(t, p)
                       /\ Stat(t, Append(p, Last(q))) = q
              ELSE dst \in FilesOf(d) /\ ReadFile(t, p) = d[dst].sha256

=============================================================================
