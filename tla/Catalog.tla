------------------------------- MODULE Catalog -------------------------------
(* What the publisher promises to the browser extension: index objects are   *)
(* only ever added to the `ls` bucket, and a distribution's package list     *)
(* names only objects that are already there.  Nothing is said of when or    *)
(* how often a list is replaced.                                             *)
CONSTANTS Distros, Names, Versions, Epochs

VARIABLES store,    \* index objects, one per distro, name, version and epoch
          listing   \* distro -> objects its package list names

catalogVars == <<store, listing>>

Entries == [distro : Distros, name : Names, version : Versions, epoch : Epochs]

CatalogInit == store = {} /\ listing = [d \in Distros |-> {}]

StoreEntry(e) == store' = store \cup {e} /\ UNCHANGED listing

(* mutant: a list may be ahead of the store *)
PublishListEarly(d) ==
  /\ \E list \in SUBSET {e \in Entries : e.distro = d} :
       listing' = [listing EXCEPT ![d] = list]
  /\ UNCHANGED store

PublishList(d) ==
  /\ \E list \in SUBSET {e \in store : e.distro = d} :
       /\ \A e, f \in list : e.name = f.name => e = f
       /\ listing' = [listing EXCEPT ![d] = list]
  /\ UNCHANGED store

CatalogNext == \/ \E e \in Entries : StoreEntry(e)
               \/ \E d \in Distros : PublishList(d)

CatalogSpec == CatalogInit /\ [][CatalogNext]_catalogVars

=============================================================================
