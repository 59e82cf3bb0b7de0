---------------------------- MODULE ObjectStore -----------------------------
(***************************************************************************)
(* The files of a repository of the version control system, and the order  *)
(* in which they may be written (13-developer-ecosystem/oggit): objects,   *)
(* refs, HEAD and the index.                                               *)
(*                                                                         *)
(* SHA-256 is taken as collision free, so that an ObjectId is the object   *)
(* it names; a file of the store is whole or broken, which reading it      *)
(* detects.  Every file is rewritten in place: it is cut to nothing, then  *)
(* filled, and the process may die in between.                             *)
(*                                                                         *)
(* The first half is the store's operations, which OGGit uses.  The second *)
(* half, StoreSpec, is the discipline of their callers: an object is       *)
(* written after its parts, a ref names a commit that can be read, and the *)
(* index names blobs that were written.                                    *)
(***************************************************************************)
EXTENDS Naturals, Sequences, FiniteSets, Functions

CONSTANTS
    Branch,     \* branch names
    Main,       \* the branch HEAD names in a new repository
    TornFile    \* what a file that was cut short holds

ASSUME MainAssumption == Main \in Branch

-----------------------------------------------------------------------------
(* Objects. *)
Blob(d) == [k |-> "blob", data |-> d]
Tree(entries) == [k |-> "tree", entries |-> entries]
Commit(t, ps) == [k |-> "commit", tree |-> t, parents |-> ps]

\* The ids an object's bytes name.
Parts(id) ==
    CASE id.k = "blob" -> {}
      [] id.k = "tree" -> {id.entries[n].id : n \in DOMAIN id.entries}
      [] OTHER -> {id.tree} \cup Range(id.parents)

With(f, x, v) == [y \in DOMAIN f \cup {x} |-> IF y = x THEN v ELSE f[y]]
Without(f, S) == [y \in DOMAIN f \ S |-> f[y]]

-----------------------------------------------------------------------------
VARIABLES
    objects,    \* the files of the object store, by the id in their name
    broken,     \* those whose bytes are not what their name says
    branches,   \* refs/heads: branch |-> commit id, or TornFile
    head,       \* HEAD: [branch] or [commit], or TornFile
    indexFile,  \* the index on disk: lines [id, path]
    staged,     \* Index::staged: path |-> blob id
    spoiled     \* history: a whole object or a ref was cut short or damaged

repository == <<objects, broken, branches, head>>
storeVars == <<objects, broken, branches, head, indexFile, staged, spoiled>>

Readable == objects \ broken

\* ObjectStore::readObject succeeds, with the type the caller wants.
Read(id, k) == id \in Readable /\ id.k = k

\* Mutant: a file that exists is not written again.
writeObjectOnce(id) ==
    /\ objects' = objects \cup {id}
    /\ broken' = broken

writeObject(id) ==
    /\ objects' = objects \cup {id}
    /\ broken' = broken \ {id}

\* The same, cut short: the file is there without its content.
writeObjectCut(id) ==
    /\ objects' = objects \cup {id}
    /\ broken' = broken \cup {id}
    /\ spoiled' = (spoiled \/ id \in Readable)

\* A ref file is rewritten, or cut short.
setBranch(b, id) ==
    /\ branches' = With(branches, b, id)
    /\ UNCHANGED <<head, spoiled>>
setHead(value) ==
    /\ head' = value
    /\ UNCHANGED <<branches, spoiled>>
setBranchCut(b) ==
    /\ branches' = With(branches, b, TornFile)
    /\ spoiled' = TRUE /\ UNCHANGED head
setHeadCut ==
    /\ head' = TornFile /\ spoiled' = TRUE
    /\ UNCHANGED branches
deleteBranch(b) ==
    /\ branches' = Without(branches, {b})
    /\ UNCHANGED <<head, spoiled>>

ToBranch(b) == [branch |-> b]
ToCommit(id) == [commit |-> id]
Commits == {id \in objects : Read(id, "commit")}

-----------------------------------------------------------------------------
(***************************************************************************)
(* The discipline of the callers.                                          *)
(***************************************************************************)
LineIds(lines) == {lines[i].id : i \in DOMAIN lines} \ {TornFile}
Indexed == Range(staged) \cup LineIds(indexFile)

\* The commits that refs and HEAD name.
Named ==
    (Range(branches) \ {TornFile})
    \cup (IF head # TornFile /\ "commit" \in DOMAIN head THEN {head.commit} ELSE {})

\* Ids a caller may come by: from an object it reads, the index or a ref.
Known == Readable \cup Indexed \cup Named \cup UNION {Parts(id) : id \in Readable}

\* The index, in memory and on disk, keeps or drops ids and takes only those given.
IndexFrom(ids) == Range(staged') \cup LineIds(indexFile') \subseteq Indexed \cup ids

StoreInit ==
    /\ broken = {} /\ spoiled = FALSE
    /\ \A id \in objects : Parts(id) \subseteq objects
    /\ \A b \in DOMAIN branches : Read(branches[b], "commit")
    /\ head = ToBranch(Main)
    /\ indexFile = <<>> /\ Range(staged) = {}

\* An object is written after its parts.  (It is one of objects', which makes
\* the choice a finite one.)
StorePut ==
    \E id \in objects' :
        /\ Parts(id) \subseteq Known
        /\ writeObject(id)
        /\ IndexFrom(IF id.k = "blob" THEN {id} ELSE {})
        /\ UNCHANGED <<branches, head, spoiled>>

StorePutCut ==
    /\ \E id \in objects' : writeObjectCut(id)
    /\ IndexFrom({})
    /\ UNCHANGED <<branches, head>>

\* A ref is given a commit that can be read, or is cut short.
StoreRef ==
    /\ \/ \E b \in Branch, id \in Commits : setBranch(b, id)
       \/ \E b \in Branch : setHead(ToBranch(b))
       \/ \E id \in Commits : setHead(ToCommit(id))
       \/ \E b \in DOMAIN branches : deleteBranch(b)
       \/ \E b \in Branch : setBranchCut(b)
       \/ setHeadCut
    /\ IndexFrom({})
    /\ UNCHANGED <<objects, broken>>

StoreIndex ==
    /\ IndexFrom({})
    /\ UNCHANGED <<repository, spoiled>>

\* A file of the store is damaged behind the program's back.
damageObject(id) ==
    /\ broken' = broken \cup {id} /\ spoiled' = TRUE
    /\ UNCHANGED <<objects, branches, head, indexFile, staged>>
StoreDamage == \E id \in Readable : damageObject(id)

StoreNext == StorePut \/ StorePutCut \/ StoreRef \/ StoreIndex \/ StoreDamage

StoreSpec == StoreInit /\ [][StoreNext]_storeVars

(***************************************************************************)
(* As long as no file that was whole is cut short or damaged, a crash at   *)
(* any write leaves a usable repository: what is readable has all its      *)
(* parts, the refs name readable commits, and the index, in memory and on  *)
(* disk, names readable blobs.  It rests on the order of the writes:       *)
(* children before parents, the ref last.                                  *)
(***************************************************************************)
HistoryIntact ==
    ~spoiled =>
        /\ \A id \in Readable : Parts(id) \subseteq Readable
        /\ \A b \in DOMAIN branches : Read(branches[b], "commit")
        /\ "commit" \in DOMAIN head => Read(head.commit, "commit")
        /\ \A id \in Indexed : Read(id, "blob")
=============================================================================
