------------------------------- MODULE OGGit --------------------------------
(***************************************************************************)
(* A repository of the version control system: the object store, the refs, *)
(* the index, checkout, diff and three-way merge                           *)
(* (13-developer-ecosystem/oggit).                                         *)
(*                                                                         *)
(* ObjectStore holds the files and what becomes of them when they are      *)
(* written.  Names are opaque and a path is a sequence of them, in which   *)
(* "" stands for what a stray slash leaves between two slashes.            *)
(*                                                                         *)
(* An operation that writes one file is one step, a commit one step per    *)
(* file; the process may die in the middle of a write, and between two.    *)
(***************************************************************************)
EXTENDS ObjectStore, SequencesExt

CONSTANTS
    Names,      \* the file names, in the order std::string gives them
    Paths,      \* the paths as callers write them, in the same order
    Data,       \* contents of files
    Starts,     \* the repositories begun with: [history, at, ops]
    Nil         \* no file, no commit

-----------------------------------------------------------------------------
(* Paths and trees. *)
Empty == [x \in {} |-> x]

Inside(p, q) == IsStrictPrefix(p, q)        \* q is a path below p

\* splitPath: empty segments are dropped.
splitPath(p) == SelectSeq(p, LAMBDA s : s # "")

\* insertPath: a node maps a name to a file's blob or to another node.
RECURSIVE insertPath(_, _, _)

\* Mutant: the file is entered over the directory.
insertPathFileWins(node, segments, blob) ==
    LET name == Head(segments)
        isDir == name \in DOMAIN node /\ node[name].dir
    IN  IF Len(segments) = 1
        THEN With(node, name, [dir |-> FALSE, id |-> blob])
        ELSE With(node, name, [dir |-> TRUE,
                id |-> insertPath(IF isDir THEN node[name].id ELSE Empty, Tail(segments), blob)])

insertPath(node, segments, blob) ==
    LET name == Head(segments)
        isDir == name \in DOMAIN node /\ node[name].dir
    IN  IF Len(segments) = 1
        THEN IF isDir THEN node ELSE With(node, name, [dir |-> FALSE, id |-> blob])
        ELSE With(node, name, [dir |-> TRUE,
                id |-> insertPath(IF isDir THEN node[name].id ELSE Empty, Tail(segments), blob)])

Trie(staging) ==
    FoldLeft(LAMBDA node, p : insertPath(node, splitPath(p), staging[p]), Empty,
             SelectSeq(Paths, LAMBDA p : p \in DOMAIN staging /\ splitPath(p) # <<>>))

\* writeTrieAsTree: the tree, and the objects written for it, in that order.
RECURSIVE TreeOf(_), TreesOf(_)
TreeOf(node) ==
    Tree([n \in DOMAIN node |->
            IF node[n].dir THEN [dir |-> TRUE, id |-> TreeOf(node[n].id)] ELSE node[n]])

Subdirectories(node) == SelectSeq(Names, LAMBDA n : n \in DOMAIN node /\ node[n].dir)

\* Mutant: a tree is written before its subtrees.
TreesParentFirst(node) ==
    LET dirs == Subdirectories(node)
    IN  <<TreeOf(node)>> \o FlattenSeq([i \in DOMAIN dirs |-> TreesOf(node[dirs[i]].id)])

TreesOf(node) ==
    LET dirs == Subdirectories(node)
    IN  Append(FlattenSeq([i \in DOMAIN dirs |-> TreesOf(node[dirs[i]].id)]), TreeOf(node))

-----------------------------------------------------------------------------
VARIABLES
    files,      \* the working directory: path |-> content ...
    dirs,       \* ... and the directories in it
    ops,        \* bound: operations still to be tried
    making,     \* a commit being made: the objects to write, and what to report, or Nil
    last        \* the last operation that returned, and what it returned

vars == <<storeVars, files, dirs, ops, making, last>>
workspace == <<indexFile, staged, files, dirs>>

Nothing == [op |-> "none"]

-----------------------------------------------------------------------------
(* The index. *)
Lines(staging) ==
    LET ps == SelectSeq(Paths, LAMBDA p : p \in DOMAIN staging)
    IN  [i \in DOMAIN ps |-> [id |-> staging[ps[i]], path |-> ps[i]]]

\* What is left of a line when the file is cut in it.
PathCuts(p) == {SubSeq(p, 1, i) : i \in 0 .. Len(p) - 1}
               \cup {Append(SubSeq(p, 1, i), "") : i \in 1 .. Len(p) - 1}
LineCuts(line) == {[id |-> TornFile, path |-> <<>>]}
                  \cup {[line EXCEPT !.path = q] : q \in PathCuts(line.path)}

loads(line) == line.id # TornFile /\ line.path # <<>>

\* Index::load: the paths are taken as they stand.
Loaded(lines) ==
    FoldLeft(LAMBDA s, l : IF loads(l) THEN With(s, l.path, l.id) ELSE s, Empty, lines)

\* The process dies and another one opens the repository.
Restarted(lines) == staged' = Loaded(lines) /\ last' = Nothing

\* An operation of a process that is in no other.
Step == making = Nil /\ ops > 0 /\ ops' = ops - 1

addFile(p, d) ==
    /\ Step
    /\ writeObject(Blob(d))
    /\ staged' = With(staged, splitPath(p), Blob(d))
    /\ last' = Nothing
    /\ UNCHANGED <<branches, head, indexFile, files, dirs, spoiled, making>>

addFileCut(d) ==
    /\ Step
    /\ writeObjectCut(Blob(d))
    /\ Restarted(indexFile)
    /\ UNCHANGED <<branches, head, indexFile, files, dirs, making>>

removeFile(p) ==
    /\ Step
    /\ splitPath(p) \in DOMAIN staged
    /\ staged' = Without(staged, {splitPath(p)})
    /\ last' = Nothing
    /\ UNCHANGED <<repository, indexFile, files, dirs, spoiled, making>>

clear ==
    /\ Step
    /\ staged' = Empty /\ last' = Nothing
    /\ UNCHANGED <<repository, indexFile, files, dirs, spoiled, making>>

save ==
    /\ Step
    /\ indexFile' = Lines(staged) /\ last' = Nothing
    /\ UNCHANGED <<repository, staged, files, dirs, spoiled, making>>

saveCut ==
    /\ Step
    /\ \E n \in 0 .. Len(Lines(staged)) :
         LET whole == SubSeq(Lines(staged), 1, n)
         IN  indexFile' \in {whole} \cup
                (IF n = Len(Lines(staged)) THEN {}
                 ELSE {Append(whole, l) : l \in LineCuts(Lines(staged)[n + 1])})
    /\ Restarted(indexFile')
    /\ UNCHANGED <<repository, files, dirs, spoiled, making>>

restart ==
    /\ Step
    /\ Restarted(indexFile)
    /\ UNCHANGED <<repository, indexFile, files, dirs, spoiled, making>>

-----------------------------------------------------------------------------
(* Refs. *)
getBranch(b) == IF b \in DOMAIN branches THEN branches[b] ELSE Nil      \* TornFile: no id

\* HEAD's commit, or Nil.
resolveHead ==
    LET id == IF head \in {Nil, TornFile} THEN Nil
              ELSE IF "branch" \in DOMAIN head THEN getBranch(head.branch) ELSE head.commit
    IN  IF id = TornFile THEN Nil ELSE id

moveRef ==
    /\ Step
    /\ \/ /\ \/ \E b \in Branch, id \in Commits : setBranch(b, id)
             \/ \E b \in Branch : setHead(ToBranch(b))
             \/ \E id \in Commits : setHead(ToCommit(id))
             \/ \E b \in DOMAIN branches : deleteBranch(b)
          /\ last' = Nothing /\ UNCHANGED staged
       \/ /\ (\E b \in Branch : setBranchCut(b)) \/ setHeadCut
          /\ Restarted(indexFile)
    /\ UNCHANGED <<objects, broken, indexFile, files, dirs, making>>

(***************************************************************************)
(* The caller that makes commits: trees, then the commit, then the ref     *)
(* that HEAD names, or HEAD itself.                                        *)
(***************************************************************************)
Advance(id) ==
    IF "branch" \in DOMAIN head THEN setBranch(head.branch, id) ELSE setHead(ToCommit(id))
AdvanceCut ==
    IF "branch" \in DOMAIN head THEN setBranchCut(head.branch) ELSE setHeadCut

\* The writes of a commit begin; ws ends with it.
Record(ws, report) ==
    /\ making' = [writes |-> ws, commit |-> ws[Len(ws)], report |-> report]
    /\ last' = Nothing
    /\ UNCHANGED <<repository, staged, spoiled>>

recordObject ==
    /\ making # Nil /\ making.writes # <<>>
    /\ \/ /\ writeObject(Head(making.writes))
          /\ making' = [making EXCEPT !.writes = Tail(@)]
          /\ UNCHANGED <<staged, spoiled, last>>
       \/ /\ writeObjectCut(Head(making.writes))
          /\ making' = Nil /\ Restarted(indexFile)
    /\ UNCHANGED <<branches, head, indexFile, files, dirs, ops>>

recordRef ==
    /\ making # Nil /\ making.writes = <<>>
    /\ making' = Nil
    /\ \/ Advance(making.commit) /\ last' = making.report /\ UNCHANGED staged
       \/ AdvanceCut /\ Restarted(indexFile)
    /\ UNCHANGED <<objects, broken, indexFile, files, dirs, ops>>

\* Death between two writes.
recordDies ==
    /\ making # Nil
    /\ making' = Nil /\ Restarted(indexFile)
    /\ UNCHANGED <<repository, indexFile, files, dirs, ops, spoiled>>

commitIndex ==
    /\ Step
    /\ head \notin {Nil, TornFile}
    /\ resolveHead # Nil \/ ("branch" \in DOMAIN head /\ head.branch \notin DOMAIN branches)
    /\ LET parents == IF resolveHead = Nil THEN <<>> ELSE <<resolveHead>>
           made == Commit(TreeOf(Trie(staged)), parents)
       IN  Record(Append(TreesOf(Trie(staged)), made),
                  [op |-> "commit", id |-> made, staging |-> staged])
    /\ UNCHANGED <<indexFile, files, dirs>>

-----------------------------------------------------------------------------
(* Reading trees. *)
EntryNames(entries) == SelectSeq(Names, LAMBDA n : n \in DOMAIN entries)

\* flattenTree: every file below a tree, by path.
RECURSIVE flattenTree(_, _)
flattenTree(tree, prefix) ==
    IF ~Read(tree, "tree") THEN [ok |-> FALSE, files |-> Empty]
    ELSE LET below(n) == flattenTree(tree.entries[n].id, Append(prefix, n))
             one(acc, n) ==
                 IF ~acc.ok THEN acc
                 ELSE IF ~tree.entries[n].dir
                 THEN [acc EXCEPT !.files = With(@, Append(prefix, n), tree.entries[n].id)]
                 ELSE [ok |-> below(n).ok,
                       files |-> [p \in DOMAIN acc.files \cup DOMAIN below(n).files |->
                                    IF p \in DOMAIN acc.files THEN acc.files[p]
                                    ELSE below(n).files[p]]]
         IN  FoldLeft(one, [ok |-> TRUE, files |-> Empty], EntryNames(tree.entries))

\* checkoutTreeInto: stops at the first error and leaves what it has done.
RECURSIVE checkoutTreeInto(_, _, _)
checkoutTreeInto(tree, at, s) ==
    LET fail(acc, e) == [acc EXCEPT !.error = e]
        file(acc, id, p) ==
            IF ~Read(id, "blob") THEN fail(acc, "ObjectReadError")
            ELSE IF p \in acc.dirs THEN fail(acc, "IoError")
            ELSE [acc EXCEPT !.files = With(@, p, id.data)]
        one(acc, n) ==
            LET entry == tree.entries[n]
                p == Append(at, n)
            IN  IF acc.error # "None" THEN acc
                ELSE IF entry.dir THEN checkoutTreeInto(entry.id, p, acc)
                ELSE file(acc, entry.id, p)
    IN  IF tree \notin objects THEN fail(s, "TreeNotFound")
        ELSE IF tree \in broken THEN fail(s, "ObjectReadError")
        ELSE IF tree.k # "tree" THEN fail(s, "NotATree")
        ELSE IF at \in DOMAIN s.files THEN fail(s, "IoError")
        ELSE FoldLeft(one, [s EXCEPT !.dirs = @ \cup {at}], EntryNames(tree.entries))

checkoutTree(tree) ==
    LET done == checkoutTreeInto(tree, <<>>, [error |-> "None", files |-> files, dirs |-> dirs])
    IN  /\ Step
        /\ files' = done.files /\ dirs' = done.dirs
        /\ last' = [op |-> "checkout", tree |-> tree, error |-> done.error, before |-> files]
        /\ UNCHANGED <<repository, indexFile, staged, spoiled, making>>

\* diffTrees: entries [path, old, new], with Nil for the side that has no file.
RECURSIVE emitAll(_, _, _), diffRecursive(_, _, _)
Change(p, old, new) == [path |-> p, old |-> old, new |-> new]
emitAll(entry, p, added) ==
    IF ~entry.dir THEN {IF added THEN Change(p, Nil, entry.id) ELSE Change(p, entry.id, Nil)}
    ELSE IF ~Read(entry.id, "tree") THEN {}
    ELSE UNION {emitAll(entry.id.entries[n], Append(p, n), added) : n \in DOMAIN entry.id.entries}

\* Mutant: a file that became a directory is compared like two files.
diffEntryByIdOnly(old, new, p) ==
    IF old.dir /\ new.dir THEN diffRecursive(old.id, new.id, p)
    ELSE IF old.id = new.id THEN {} ELSE {Change(p, old.id, new.id)}

diffEntry(old, new, p) ==
    IF old.dir # new.dir THEN emitAll(old, p, FALSE) \cup emitAll(new, p, TRUE)
    ELSE IF old.id = new.id THEN {}
    ELSE IF old.dir THEN diffRecursive(old.id, new.id, p)
    ELSE {Change(p, old.id, new.id)}

diffRecursive(old, new, prefix) ==
    IF ~Read(old, "tree") \/ ~Read(new, "tree") THEN {}
    ELSE UNION {LET p == Append(prefix, n)
                IN  IF n \notin DOMAIN new.entries THEN emitAll(old.entries[n], p, FALSE)
                    ELSE IF n \notin DOMAIN old.entries THEN emitAll(new.entries[n], p, TRUE)
                    ELSE diffEntry(old.entries[n], new.entries[n], p)
                : n \in DOMAIN old.entries \cup DOMAIN new.entries}

diffTrees(old, new) ==
    /\ Step
    /\ last' = [op |-> "diff", old |-> old, new |-> new,
                changes |-> IF old = new THEN {} ELSE diffRecursive(old, new, <<>>)]
    /\ UNCHANGED <<repository, workspace, spoiled, making>>

\* walkFirstParentHistory: all of it or nothing.
RECURSIVE walkFirstParentHistory(_)
walkFirstParentHistory(start) ==
    IF ~Read(start, "commit") THEN <<>>
    ELSE IF start.parents = <<>> THEN <<start>>
    ELSE LET rest == walkFirstParentHistory(start.parents[1])
         IN  IF rest = <<>> THEN <<>> ELSE <<start>> \o rest

log(start) ==
    /\ Step
    /\ last' = [op |-> "log", start |-> start, commits |-> walkFirstParentHistory(start)]
    /\ UNCHANGED <<repository, workspace, spoiled, making>>

-----------------------------------------------------------------------------
(* Merging. *)

\* allAncestors: the walk does not go on behind a commit it cannot read.
RECURSIVE Reached(_)
Reached(S) ==
    LET more == S \cup UNION {ToSet(c.parents) : c \in {d \in S : Read(d, "commit")}}
    IN  IF more = S THEN S ELSE Reached(more)
allAncestors(c) == Reached({c})

otherSideUsesAsDirectory(other, p) == \E q \in DOMAIN other : Inside(p, q)

At(fs, p) == IF p \in DOMAIN fs THEN fs[p] ELSE Nil

\* Mutant: every common ancestor is a candidate.
undominatedAll(common) == common

undominated(common) ==
    {c \in common : \A other \in common \ {c} : c \notin allAncestors(other)}

\* One path of the three maps: what the merged tree has there, or the conflict.
Conflict(kind) == [conflict |-> kind]
Take(id) == [take |-> id]
mergePath(base, ours, theirs, p) ==
    LET b == At(base, p)
        o == At(ours, p)
        t == At(theirs, p)
    IN  IF \/ o # Nil /\ otherSideUsesAsDirectory(theirs, p)
           \/ t # Nil /\ otherSideUsesAsDirectory(ours, p) THEN Conflict("FileDirectory")
        ELSE IF o = b THEN Take(t)
        ELSE IF t = b \/ o = t THEN Take(o)
        ELSE IF o = Nil \/ t = Nil THEN Conflict("ModifyDelete")
        ELSE IF b = Nil THEN Conflict("AddAdd") ELSE Conflict("ModifyModify")

Failed(error, base) == [outcome |-> "Conflict", error |-> error, base |-> base,
                        staging |-> Empty, conflicts |-> Empty]
Outcome(outcome, base) == [Failed("None", base) EXCEPT !.outcome = outcome]

threeWay(base, ours, theirs) ==
    LET b == flattenTree(base.tree, <<>>)
        o == flattenTree(ours.tree, <<>>)
        t == flattenTree(theirs.tree, <<>>)
        all == DOMAIN b.files \cup DOMAIN o.files \cup DOMAIN t.files
        merged == [p \in all |-> mergePath(b.files, o.files, t.files, p)]
        conflicts == {p \in all : "conflict" \in DOMAIN merged[p]}
        kept == {p \in all \ conflicts : merged[p].take # Nil}
    IN  IF ~Read(base, "commit") \/ ~b.ok \/ ~o.ok \/ ~t.ok THEN Failed("CorruptTree", base)
        ELSE IF conflicts # {}
        THEN [Outcome("Conflict", base) EXCEPT
                !.conflicts = [p \in conflicts |-> merged[p].conflict]]
        ELSE [Outcome("Merged", base) EXCEPT !.staging = [p \in kept |-> merged[p].take]]

\* mergeCommits.  Of several merge bases it takes the one whose hash is smallest,
\* which may be any.
mergeResults(ours, theirs) ==
    LET common == allAncestors(ours) \cap allAncestors(theirs)
    IN  IF ~Read(ours, "commit") THEN {Failed("OursCommitUnreadable", Nil)}
        ELSE IF ~Read(theirs, "commit") THEN {Failed("TheirsCommitUnreadable", Nil)}
        ELSE IF theirs \in allAncestors(ours) THEN {Outcome("AlreadyUpToDate", theirs)}
        ELSE IF ours \in allAncestors(theirs) THEN {Outcome("FastForward", ours)}
        ELSE IF common = {} THEN {Failed("NoCommonAncestor", Nil)}
        ELSE {threeWay(base, ours, theirs) : base \in undominated(common)}

\* A caller merges into HEAD: a clean result becomes a commit with two parents,
\* a fast forward moves the ref, anything else changes nothing.
merge(theirs) ==
    /\ Step
    /\ head \notin {Nil, TornFile} /\ resolveHead # Nil
    /\ \E r \in mergeResults(resolveHead, theirs) :
         LET made == Commit(TreeOf(Trie(r.staging)), <<resolveHead, theirs>>)
             report(tree) == [op |-> "merge", ours |-> resolveHead, theirs |-> theirs,
                              result |-> r, tree |-> tree]
         IN  CASE r.outcome = "Merged" ->
                    Record(Append(TreesOf(Trie(r.staging)), made), report(made.tree))
               [] r.outcome = "FastForward" ->
                    /\ Advance(theirs)
                    /\ last' = report(theirs.tree)
                    /\ UNCHANGED <<objects, broken, staged, making>>
               [] OTHER -> /\ last' = report(Nil)
                           /\ UNCHANGED <<repository, staged, spoiled, making>>
    /\ UNCHANGED <<indexFile, files, dirs>>

damage(id) ==
    /\ Step
    /\ damageObject(id)
    /\ last' = Nothing /\ UNCHANGED <<files, dirs, making>>

-----------------------------------------------------------------------------
(* The repository a start describes: the commits of its history, oldest    *)
(* first, each with its files and the positions of its parents.            *)
Made(history) ==
    LET blobs(i) == [p \in DOMAIN history[i].files |-> Blob(history[i].files[p])]
        made[i \in DOMAIN history] ==
            Commit(TreeOf(Trie(blobs(i))),
                   [j \in DOMAIN history[i].parents |-> made[history[i].parents[j]]])
    IN  made

RECURSIVE WithParts(_)
WithParts(S) ==
    LET more == S \cup UNION {Parts(id) : id \in S}
    IN  IF more = S THEN S ELSE WithParts(more)

Init ==
    \E start \in Starts :
        LET made == Made(start.history)
        IN  /\ objects = WithParts({made[i] : i \in DOMAIN made})
            /\ branches = [b \in DOMAIN start.refs |-> made[start.refs[b]]]
            /\ ops = start.ops
            /\ broken = {} /\ head = ToBranch(Main)
            /\ indexFile = <<>> /\ staged = Empty
            /\ files = Empty /\ dirs = {}
            /\ spoiled = FALSE /\ making = Nil /\ last = Nothing

Trees == {id \in objects : id.k = "tree"}

Next ==
    \/ \E p \in ToSet(Paths), d \in Data : addFile(p, d)
    \/ \E d \in Data : addFileCut(d)
    \/ \E p \in ToSet(Paths) : removeFile(p)
    \/ clear
    \/ save
    \/ saveCut
    \/ restart
    \/ moveRef
    \/ commitIndex
    \/ recordObject
    \/ recordRef
    \/ recordDies
    \/ \E id \in objects : checkoutTree(id)
    \/ \E old, new \in Trees : diffTrees(old, new)
    \/ \E id \in objects : log(id)
    \/ \E theirs \in objects : merge(theirs)
    \/ \E id \in objects \ broken : damage(id)

Spec == Init /\ [][Next]_vars

-----------------------------------------------------------------------------
(* References: what the objects say, whatever can be read of them. *)
RECURSIVE FilesBelow(_)
FilesBelow(entry) ==        \* pairs <<path, blob>> below an entry
    IF ~entry.dir THEN {<<<<>>, entry.id>>}
    ELSE UNION {{<<<<n>> \o x[1], x[2]>> : x \in FilesBelow(entry.id.entries[n])}
                : n \in DOMAIN entry.id.entries}
Contents(tree) ==
    LET pairs == FilesBelow([dir |-> TRUE, id |-> tree])
    IN  [p \in {x[1] : x \in pairs} |-> (CHOOSE x \in pairs : x[1] = p)[2]]

Ancestors(c) == {id \in WithParts({c}) : id.k = "commit"}
Whole(id) == WithParts({id}) \subseteq Readable

Lowest(common) == {c \in common : ~\E d \in common \ {c} : c \in Ancestors(d)}

(***************************************************************************)
(* mergeCommits on a readable history answers by the shape of the history: *)
(* it is up to date, fast forward or unrelated exactly when it is, and its *)
(* base is a lowest common ancestor.  Whatever can be read, a clean merge  *)
(* holds every change either side made since that base and nothing else,   *)
(* in the tree that is written too, and a conflict names only paths on     *)
(* which the sides disagree.                                               *)
(***************************************************************************)
MergeSound ==
    last.op = "merge" =>
        LET r == last.result
            ours == Ancestors(last.ours)
            theirs == Ancestors(last.theirs)
            o(p) == At(Contents(last.ours.tree), p)
            t(p) == At(Contents(last.theirs.tree), p)
            b(p) == At(Contents(r.base.tree), p)
            clash(p) == \/ o(p) # Nil /\ otherSideUsesAsDirectory(Contents(last.theirs.tree), p)
                        \/ t(p) # Nil /\ otherSideUsesAsDirectory(Contents(last.ours.tree), p)
        IN  /\ Whole(last.ours) /\ Whole(last.theirs) /\ last.theirs.k = "commit" =>
                 /\ (r.outcome = "AlreadyUpToDate") = (last.theirs \in ours)
                 /\ (r.outcome = "FastForward")
                      = (last.ours \in theirs /\ last.theirs \notin ours)
                 /\ (r.error = "NoCommonAncestor") = (ours \cap theirs = {})
                 /\ r.error \in {"None", "NoCommonAncestor"}
                 /\ (r.outcome = "Merged" \/ r.conflicts # Empty)
                      => r.base \in Lowest(ours \cap theirs)
            /\ r.outcome = "Merged" =>
                 LET m(p) == At(Contents(last.tree), p)
                 IN  \A p \in ToSet(Paths) :
                        /\ o(p) # b(p) => m(p) = o(p)
                        /\ t(p) # b(p) => m(p) = t(p)
                        /\ o(p) = b(p) /\ t(p) = b(p) => m(p) = b(p)
            /\ \A p \in DOMAIN r.conflicts :
                 clash(p) \/ (o(p) # t(p) /\ o(p) # b(p) /\ t(p) # b(p))

(***************************************************************************)
(* What is read back is what was stored: a commit holds what was staged,   *)
(* except for a file whose path is also used as a directory; a checkout    *)
(* that succeeds leaves exactly the tree's files in place of what had      *)
(* their names, and touches no other; a diff lists the paths that differ,  *)
(* and only those, and misses one only where a tree cannot be read; a log  *)
(* is the whole chain of first parents, or empty when part of it cannot be *)
(* read.                                                                   *)
(***************************************************************************)
CommitSound ==
    last.op = "commit" =>
        LET tree == Contents(last.id.tree)
            named(q) == {p \in DOMAIN last.staging : splitPath(p) = q}
            below(q) == {p \in DOMAIN last.staging : Inside(q, splitPath(p))}
        IN  /\ Whole(last.id.tree) \/ spoiled
            /\ \A q \in ToSet(Paths) \ {<<>>} :
                 IF named(q) = {} \/ below(q) # {} THEN q \notin DOMAIN tree
                 ELSE At(tree, q) \in {last.staging[p] : p \in named(q)}

CheckoutSound ==
    last.op = "checkout" =>
        LET tree == IF last.tree.k = "tree" THEN Contents(last.tree) ELSE Empty
        IN  /\ last.error = "None" =>
                 /\ last.tree.k = "tree"
                 /\ \A p \in DOMAIN tree : At(files, p) = tree[p].data
            /\ \A p \in (DOMAIN files \cup DOMAIN last.before) \ DOMAIN tree :
                 At(files, p) = At(last.before, p)
            /\ last.error = "ObjectReadError" => ~Whole(last.tree)

DiffSound ==
    last.op = "diff" =>
        LET old == Contents(last.old)
            new == Contents(last.new)
            differ == {p \in DOMAIN old \cup DOMAIN new : At(old, p) # At(new, p)}
            all == {Change(p, At(old, p), At(new, p)) : p \in differ}
        IN  /\ last.changes \subseteq all
            /\ Whole(last.old) /\ Whole(last.new) => last.changes = all

LogSound ==
    last.op = "log" =>
        LET c == last.commits
        IN  IF c = <<>>
            THEN \E id \in WithParts({last.start}) : ~Read(id, "commit")
            ELSE /\ c[1] = last.start /\ c[Len(c)].parents = <<>>
                 /\ \A i \in 1 .. Len(c) - 1 : c[i].parents[1] = c[i + 1]

ReadsSound == CommitSound /\ CheckoutSound /\ DiffSound /\ LogSound

(***************************************************************************)
(* Every step keeps to the order of writes that ObjectStore asks for: each *)
(* object after its parts, a ref only to a commit that is there, and only  *)
(* written blobs in the index.                                             *)
(***************************************************************************)
ImplementsObjectStore == StoreSpec
=============================================================================
