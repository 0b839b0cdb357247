----------------------------- MODULE SafeExtract -----------------------------
(***************************************************************************)
(* How the files of a bundle get into a staging directory: from an archive *)
(* (plateau_rt/viewer/extract.py: safe_extract) or from a directory of the *)
(* server (store.py: _copy_server_tree).  Both go entry by entry, and both *)
(* stop at the first fault and remove what they wrote.                     *)
(*                                                                         *)
(* A path is the sequence of its components, split at "/". The contents of *)
(* a file are counted in blocks; a read that goes wrong does so after the  *)
(* blocks of its entry. A tar and a tar.gz archive are told apart by       *)
(* nothing but the way they are opened.                                    *)
(***************************************************************************)
EXTENDS OrderedChecks, FiniteSetsExt

CONSTANTS
  Folded,                \* NFC and case folding of the components it changes
  Unwritable, Drives     \* components with a bad or too long name, "C:x" and the like

VARIABLES
  source,       \* the archive or directory that is being staged, or NoSource
  limits,       \* of its files and of their blocks
  pos,          \* entries of the archive that are done
  stack,        \* directories of the server's tree that are left, the next one last
  index,        \* accepted paths by their keys, with their kinds
  explicit,     \* the keys that were entries of their own
  disk,         \* what is in the staging directory: kind of each path
  total, count, rootSeen,
  writing,      \* the file that is open, with its blocks left to read; or NoFile
  verdict       \* "none", "working", "accepted" or the reason of the refusal

given == <<source, limits>>
stagingVars == <<given, pos, stack, index, explicit, disk, total, count, rootSeen, writing, verdict>>

NoSource == [format |-> "none"]
NoLimits == [files |-> 0, blocks |-> 0]
NoFile == [path |-> <<>>, left |-> 0, torn |-> FALSE]
Reasons == {"dotdot", "absolute", "symlink", "hardlink", "device", "duplicate", "too_many_files",
            "too_large", "bad_name", "unknown_format"}
Kinds == {"file", "dir", "symlink", "hardlink", "device"}

-----------------------------------------------------------------------------
(* Names *)

\* What is left of a name without its empty components and its dots.
Normalized(name) ==
  LET kept == {n \in DOMAIN name : name[n] \notin {"", "."}}
  IN  [k \in 1..Cardinality(kept) |-> name[CHOOSE n \in kept : Cardinality({m \in kept : m <= n}) = k]]
Key(path) == [n \in DOMAIN path |-> IF path[n] \in DOMAIN Folded THEN Folded[path[n]] ELSE path[n]]
Ancestors(path) == {SubSeq(path, 1, n) : n \in 1..(Len(path) - 1)}
BadName(name) == name = <<"">> \/ \E n \in DOMAIN name : name[n] \in Unwritable
IsAbsolute(name) == (name[1] = "" /\ Len(name) > 1) \/ name[1] \in Drives
HasDotdot(name) == \E n \in DOMAIN name : name[n] = ".."

-----------------------------------------------------------------------------
(* The index of paths *)

Indexed(path) == Key(path) \in DOMAIN index
\* _PathIndex.check: another entry, another spelling, or a file in the way.
Collides(path, kind) ==
  \/ Key(path) \in explicit
  \/ Indexed(path) /\ (index[Key(path)].path # path \/ (kind = "file" /\ index[Key(path)].kind = "dir"))
  \/ \E a \in Ancestors(path) :
       Indexed(a) /\ (index[Key(a)].kind = "file" \/ index[Key(a)].path # a)
\* _PathIndex.add, and the mutant that forgets the implicit parents.
AddOnly(path, kind) ==
  /\ explicit' = explicit \cup {Key(path)}
  /\ index' = [k \in DOMAIN index \cup {Key(path)} |->
                 IF k = Key(path) THEN [path |-> path, kind |-> kind] ELSE index[k]]
Add(path, kind) ==
  /\ explicit' = explicit \cup {Key(path)}
  /\ LET parents == {a \in Ancestors(path) : ~Indexed(a)}
     IN  index' = [k \in DOMAIN index \cup {Key(a) : a \in parents \cup {path}} |->
                     IF k = Key(path) THEN [path |-> path, kind |-> kind]
                     ELSE IF k \in DOMAIN index THEN index[k]
                     ELSE [path |-> CHOOSE a \in parents : Key(a) = k, kind |-> "dir"]]

-----------------------------------------------------------------------------
(* The staging directory *)

StagingInit ==
  /\ source = NoSource /\ limits = NoLimits /\ pos = 0 /\ stack = <<>> /\ index = <<>>
  /\ explicit = {} /\ disk = <<>>
  /\ total = 0 /\ count = 0 /\ rootSeen = FALSE /\ writing = NoFile /\ verdict = "none"

OnDisk(paths, kind) == [p \in DOMAIN disk \cup paths |-> IF p \in DOMAIN disk THEN disk[p] ELSE kind]
\* _ensure_dir or O_EXCL finds something else in the way.
Blocked(path, kind) ==
  \/ \E a \in Ancestors(path) : a \in DOMAIN disk /\ disk[a] # "dir"
  \/ path \in DOMAIN disk /\ (kind = "file" \/ disk[path] # "dir")
\* The handler of every refusal: rmtree(dest).
Refuse(reason) ==
  /\ verdict' = reason /\ disk' = <<>> /\ writing' = NoFile
  /\ UNCHANGED <<given, pos, stack, index, explicit, total, count, rootSeen>>

\* _copy_limited, one block at a time: it reads one more than the budget allows.
Copy ==
  /\ writing # NoFile /\ writing.left > 0 /\ total < limits.blocks
  /\ writing' = [writing EXCEPT !.left = @ - 1] /\ total' = total + 1
  /\ UNCHANGED <<given, pos, stack, index, explicit, disk, count, rootSeen, verdict>>
OverBudget == writing.left > 0 /\ total >= limits.blocks
CopyFails ==
  /\ writing # NoFile
  /\ \/ OverBudget /\ Refuse("too_large")
     \/ writing.left = 0 /\ writing.torn /\ Refuse("unknown_format")
Copied == writing # NoFile /\ writing.left = 0 /\ ~writing.torn

-----------------------------------------------------------------------------
(* An archive: [format, counted, entries], entries of [name, kind, blocks, flaw] *)

FromArchive == verdict = "working" /\ source.format \in {"zip", "tar"} /\ writing = NoFile
\* detect_format comes before the destination is touched. In a zip archive the
\* number in the end record, when it can be read, is the number of entries.
Declared(a) == IF a.format = "zip" /\ a.counted THEN Len(a.entries) ELSE 0
\* Mutant: no room for a root entry, which is not counted.
DeclaredAboveLimit(a, l) == Declared(a) > l.files
DeclaresTooMany(a, l) == Declared(a) > l.files + 1
StageArchive(a, l) ==
  /\ verdict = "none" /\ source' = a /\ limits' = l
  /\ verdict' = First(<< <<a.format \notin {"zip", "tar"}, "unknown_format">>,
                         <<DeclaresTooMany(a, l), "too_many_files">>, <<TRUE, "working">> >>)
  /\ UNCHANGED <<pos, stack, index, explicit, disk, total, count, rootSeen, writing>>

Entries == [name : Seq(STRING), kind : Kinds, blocks : Nat, flaw : {"none", "header", "data", "encrypted"}]
Entry == source.entries[pos + 1]
EntryPath == Normalized(Entry.name)
IsRoot == EntryPath = <<>>
Unreadable(e) == e.flaw = "header" \/ (e.flaw = "encrypted" /\ source.format = "zip")
EntryFault ==
  First(<< <<Unreadable(Entry), "unknown_format">>,
           <<BadName(Entry.name), "bad_name">>,
           <<IsAbsolute(Entry.name), "absolute">>,
           <<HasDotdot(Entry.name), "dotdot">>,
           <<IsRoot /\ Entry.kind # "dir", "bad_name">>,
           <<IsRoot /\ rootSeen, "duplicate">>,
           <<IsRoot, NoFault>>,
           <<Entry.kind \in {"symlink", "hardlink", "device"}, Entry.kind>>,
           <<Collides(EntryPath, Entry.kind), "duplicate">>,
           <<count >= limits.files, "too_many_files">>,
           <<Blocked(EntryPath, Entry.kind), "duplicate">> >>)
NextEntry == FromArchive /\ pos < Len(source.entries)
RefuseEntry == NextEntry /\ EntryFault # NoFault /\ Refuse(EntryFault)
SkipRoot ==
  /\ NextEntry /\ EntryFault = NoFault /\ IsRoot
  /\ rootSeen' = TRUE /\ pos' = pos + 1
  /\ UNCHANGED <<given, stack, index, explicit, disk, total, count, writing, verdict>>
MakeDirectory ==
  /\ NextEntry /\ EntryFault = NoFault /\ ~IsRoot /\ Entry.kind = "dir"
  /\ count' = count + 1 /\ pos' = pos + 1
  /\ disk' = OnDisk(Ancestors(EntryPath) \cup {EntryPath}, "dir") /\ Add(EntryPath, "dir")
  /\ UNCHANGED <<given, stack, total, rootSeen, writing, verdict>>
OpenFile ==
  /\ NextEntry /\ EntryFault = NoFault /\ ~IsRoot /\ Entry.kind = "file"
  /\ count' = count + 1
  /\ disk' = [OnDisk(Ancestors(EntryPath) \cup {EntryPath}, "dir") EXCEPT ![EntryPath] = "file"]
  /\ writing' = [path |-> EntryPath, left |-> Entry.blocks, torn |-> Entry.flaw = "data"]
  /\ UNCHANGED <<given, pos, stack, index, explicit, total, rootSeen, verdict>>
CloseFile ==
  /\ Copied /\ source.format # "directory"
  /\ Add(writing.path, "file") /\ writing' = NoFile /\ pos' = pos + 1
  /\ UNCHANGED <<given, stack, disk, total, count, rootSeen, verdict>>
Extracted ==
  /\ FromArchive /\ pos = Len(source.entries) /\ verdict' = "accepted"
  /\ UNCHANGED <<given, pos, stack, index, explicit, disk, total, count, rootSeen, writing>>

-----------------------------------------------------------------------------
(* A directory of the server: [format, listing], a function from directories *)
(* to their entries in the order of their names; an entry is at <<d, n>> when *)
(* it is the n-th of the directory d                                         *)

Places(tree) == UNION {{<<d, n>> : n \in DOMAIN tree.listing[d]} : d \in DOMAIN tree.listing}
ItemAt(tree, x) == tree.listing[x[1]][x[2]]
PathAt(tree, x) == Append(x[1], ItemAt(tree, x).name)
\* It is a tree: what is listed is the directory itself, and the directories in it.
IsTreeOfItems(tree) ==
  /\ IsFiniteSet(DOMAIN tree.listing)
  /\ \A d \in DOMAIN tree.listing : IsSeq(d) /\ IsSeq(tree.listing[d])
  /\ \A x \in Places(tree) : ItemAt(tree, x).kind \in Kinds /\ ItemAt(tree, x).blocks \in Nat
  /\ DOMAIN tree.listing = {<<>>} \cup {PathAt(tree, x) : x \in {y \in Places(tree) : ItemAt(tree, y).kind = "dir"}}

\* sorted(scandir): what a directory of the stack has left, and the names seen in it.
Listed(tree, path) == [path |-> path, left |-> tree.listing[path], seen |-> {}]
StageDirectory(tree, l) ==
  /\ verdict = "none" /\ source' = tree /\ limits' = l /\ verdict' = "working"
  /\ stack' = <<Listed(tree, <<>>)>>
  /\ UNCHANGED <<pos, index, explicit, disk, total, count, rootSeen, writing>>

FromDirectory ==
  verdict = "working" /\ source.format = "directory" /\ writing = NoFile /\ stack # <<>>
Top == stack[Len(stack)]
Child == Top.left[1]
ChildPath == Append(Top.path, Child.name)
Below == SubSeq(stack, 1, Len(stack) - 1)
TopWithout == [Top EXCEPT !.left = Tail(@), !.seen = @ \cup {Key(<<Child.name>>)}]
ChildFault ==
  First(<< <<Child.name \in Unwritable, "bad_name">>,
           <<Key(<<Child.name>>) \in Top.seen, "duplicate">>,
           <<Child.kind = "symlink", "symlink">>,
           <<Child.kind \in {"file", "dir"} /\ count >= limits.files, "too_many_files">>,
           <<Child.kind \notin {"file", "dir"}, "device">> >>)
NextChild == FromDirectory /\ Top.left # <<>>
RefuseChild == NextChild /\ ChildFault # NoFault /\ Refuse(ChildFault)
\* A subdirectory comes before what is on the stack, after its siblings.
CopyDirectory ==
  /\ NextChild /\ ChildFault = NoFault /\ Child.kind = "dir"
  /\ count' = count + 1 /\ disk' = OnDisk({ChildPath}, "dir")
  /\ stack' = Below \o <<Listed(source, ChildPath), TopWithout>>
  /\ UNCHANGED <<given, pos, index, explicit, total, rootSeen, writing, verdict>>
CopyFile ==
  /\ NextChild /\ ChildFault = NoFault /\ Child.kind = "file"
  /\ count' = count + 1 /\ disk' = OnDisk({ChildPath}, "file")
  /\ stack' = Append(Below, TopWithout)
  /\ writing' = [path |-> ChildPath, left |-> Child.blocks, torn |-> FALSE]
  /\ UNCHANGED <<given, pos, index, explicit, total, rootSeen, verdict>>
CloseCopy ==
  /\ Copied /\ source.format = "directory" /\ writing' = NoFile
  /\ UNCHANGED <<given, pos, stack, index, explicit, disk, total, count, rootSeen, verdict>>
NextDirectory ==
  /\ FromDirectory /\ Top.left = <<>> /\ stack' = Below
  /\ verdict' = IF Below = <<>> THEN "accepted" ELSE verdict
  /\ UNCHANGED <<given, pos, index, explicit, disk, total, count, rootSeen, writing>>

StagingNext ==
  \/ Copy \/ CopyFails \/ RefuseEntry \/ SkipRoot \/ MakeDirectory \/ OpenFile \/ CloseFile \/ Extracted
  \/ RefuseChild \/ CopyDirectory \/ CopyFile \/ CloseCopy \/ NextDirectory

\* _pick_root: the staging directory, or the only directory in it.
BundleRoot ==
  LET top == {p \in DOMAIN disk : Len(p) = 1}
  IN  IF Cardinality(top) = 1 /\ \A p \in top : disk[p] = "dir" THEN CHOOSE p \in top : TRUE ELSE <<>>

-----------------------------------------------------------------------------
(* What staging promises *)

StagingTypeOK ==
  /\ pos \in Nat /\ total \in 0..limits.blocks /\ count \in 0..limits.files /\ rootSeen \in BOOLEAN
  /\ \A p \in DOMAIN disk : disk[p] \in {"file", "dir"}
  /\ \A k \in DOMAIN index : index[k].kind \in {"file", "dir"} /\ Key(index[k].path) = k
  /\ explicit \subseteq DOMAIN index
  /\ verdict \in Reasons \cup {"none", "working", "accepted"}
  /\ writing # NoFile => writing.path \in DOMAIN disk /\ disk[writing.path] = "file"

\* What the index remembers is what is in the directory, so that the checks of
\* names decide alone and the file system is never asked to: between two
\* entries both have the same paths, of the same kinds, with one spelling of
\* each, and nothing that the index lets pass is in the way of a write.
IndexIsDisk ==
  /\ FromArchive => /\ DOMAIN disk = {index[k].path : k \in DOMAIN index}
                    /\ \A k \in DOMAIN index : disk[index[k].path] = index[k].kind
  /\ \A p, q \in DOMAIN disk : Key(p) = Key(q) => p = q
  /\ \A p \in DOMAIN disk : \A a \in Ancestors(p) : a \in DOMAIN disk /\ disk[a] = "dir"
  /\ NextEntry /\ ~IsRoot /\ ~Collides(EntryPath, Entry.kind) => ~Blocked(EntryPath, Entry.kind)

\* The same question without an order of the entries: which archives are safe.
NameIn(a, n) == Normalized(a.entries[n].name)
InnerOf(a) == {n \in DOMAIN a.entries : NameIn(a, n) # <<>>}
FilesOf(a) == {n \in InnerOf(a) : a.entries[n].kind = "file"}
PathsTo(path) == Ancestors(path) \cup {path}
PathsOf(a, entries) == UNION {PathsTo(NameIn(a, n)) : n \in entries}
EntryIsSafe(a, n) ==
  LET e == a.entries[n]
  IN  /\ e.flaw # "header" /\ (a.format = "zip" => e.flaw # "encrypted")
      /\ ~BadName(e.name) /\ ~IsAbsolute(e.name) /\ ~HasDotdot(e.name)
      /\ e.kind = "dir" \/ (e.kind = "file" /\ e.flaw # "data" /\ NameIn(a, n) # <<>>)
EntriesAreSafe(a, l) ==
  LET inner == InnerOf(a)
  IN  /\ a.format \in {"zip", "tar"}
      /\ \A n \in DOMAIN a.entries : EntryIsSafe(a, n)
      /\ \A m, n \in DOMAIN a.entries \ inner : m = n
      /\ \A m, n \in inner : Key(NameIn(a, m)) = Key(NameIn(a, n)) => m = n
      /\ \A p, q \in PathsOf(a, inner) : Key(p) = Key(q) => p = q
      /\ \A m \in FilesOf(a), n \in inner : NameIn(a, m) \notin Ancestors(NameIn(a, n))
      /\ Cardinality(inner) <= l.files
ArchiveIsSafe(a, l) ==
  EntriesAreSafe(a, l) /\ SumFunction([n \in FilesOf(a) |-> a.entries[n].blocks]) <= l.blocks
FilesAmong(tree, places) == {x \in places : ItemAt(tree, x).kind = "file"}
ItemsAreSafe(tree, l) ==
  /\ \A x \in Places(tree) : ItemAt(tree, x).name \notin Unwritable /\ ItemAt(tree, x).kind \in {"file", "dir"}
  /\ \A x, y \in Places(tree) :
       x[1] = y[1] /\ Key(<<ItemAt(tree, x).name>>) = Key(<<ItemAt(tree, y).name>>) => x = y
  /\ Cardinality(Places(tree)) <= l.files
DirectoryIsSafe(tree, l) ==
  /\ ItemsAreSafe(tree, l)
  /\ SumFunction([x \in FilesAmong(tree, Places(tree)) |-> ItemAt(tree, x).blocks]) <= l.blocks
IsSafe(src, l) == IF src.format = "directory" THEN DirectoryIsSafe(src, l) ELSE ArchiveIsSafe(src, l)
\* Exactly the safe ones are accepted: the cheap check of a zip archive's end
\* record refuses none of them, and no order of entries gets an unsafe one in.
VerdictIsOfTheSource ==
  verdict \notin {"none", "working"} =>
    ((verdict = "accepted") <=> IsSafe(source, limits))
=============================================================================
