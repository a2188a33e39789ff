-------------------------------- MODULE Fat12 --------------------------------
(***************************************************************************)
(* The FAT12 shell (lab2: main.c): it reads the whole tree of a disk, one  *)
(* entry and one cluster after another, and answers ls and cat.            *)
(*                                                                         *)
(* Data come in units of the size of a directory entry (32 bytes).  A unit *)
(* is a record with a kind: "file" and "dir" are entries, "deleted" and    *)
(* "long" are entries to be skipped, and "end" is a unit that begins with  *)
(* a zero byte.  A name is a sequence of characters.                       *)
(***************************************************************************)
EXTENDS Integers, Sequences, SequencesExt, FiniteSets, FiniteSetsExt

CONSTANTS
    Disks,        \* the disks
    ClusterSize,  \* units in a cluster
    Paths,        \* what is typed after ls and cat
    MaxDepth      \* bound: how deep the recursion of read_dir_recursive goes

ASSUME Fat12Assumption == ClusterSize \in Nat \ {0} /\ MaxDepth \in Nat \ {0}

\* The format allows neither a slash nor a space at the beginning of a name.
Name == {n \in Seq(STRING) \ {<< >>} : "/" \notin Range(n)}

Unit ==
    [kind : {"file"}, name : Name, first : Nat, size : Nat]
    \cup [kind : {"dir"}, name : Name, first : Nat]
    \cup [kind : {"deleted", "long"}]
    \cup [kind : {"end"}, unit : Seq(Nat)]

-----------------------------------------------------------------------------
(* The disk *)

\* nclusters counts the clusters of the root directory's sectors, too.
NClusters(d) == (d.sectors - d.before) \div d.perCluster

\* The clusters there really are begin with number 2.
DataClusters(d) == (d.sectors - d.before - d.rootSectors) \div d.perCluster

\* The clusters that a chain may reach.  With a root directory of two
\* clusters or more the highest numbers are those of clusters behind the data.
Clusters(d) == (2..DataClusters(d) + 1) \cup (2..NClusters(d))

\* fat and contents say what is read of every cluster, be it what the image
\* happens to have behind the table and behind the data.
ASSUME DiskAssumption ==
    \A d \in Disks :
        /\ {d.sectors, d.before, d.rootSectors, d.sectors - d.before - d.rootSectors} \subseteq Nat
        /\ d.perCluster \in Nat \ {0}
        /\ d.fat \in [Clusters(d) -> Nat]
        /\ d.root \in Seq(Unit)
        /\ d.contents \in [Clusters(d) -> [1..ClusterSize -> Unit]]

ASSUME PathAssumption == \A p \in Paths : p \in Seq(STRING)

ClusterIsValid(d, n) == 2 <= n /\ n <= NClusters(d)

\* No loop goes on from a cluster that is not valid, or copies it.
ClusterNext(d, n) == IF n \in DOMAIN d.fat THEN d.fat[n] ELSE 0

Zero == [kind |-> "end", unit |-> <<0, 0>>]

Units(d, n) ==
    IF n \in DOMAIN d.contents THEN d.contents[n]
    ELSE [u \in 1..ClusterSize |-> Zero]

-----------------------------------------------------------------------------

VARIABLES
    disk,      \* the fields of the boot sector, fat, the root directory, data
    at,        \* the loop that is running
    stack,     \* the calls of read_dir_recursive
    entry,     \* the entry read_entry reads
    cluster,   \* its loop variable
    size,      \* size and data of its node
    data,
    root,      \* the finished tree
    command, path,
    s, sep,    \* find_file: a component begins at s and ends before sep
    file,      \* find_file: the node reached
    calls,     \* the calls of list_files
    buf,       \* the path they share
    answer,    \* what the command printed
    message    \* and the last message it printed

vars == <<disk, at, stack, entry, cluster, size, data, root, command, path,
          s, sep, file, calls, buf, answer, message>>

mount == <<disk, stack, entry, cluster, size, data, root>>
shell == <<command, path, s, sep, file, calls, buf, answer, message>>

-----------------------------------------------------------------------------
(* Reading the tree *)

RootDirectory == -1    \* in the place of a first cluster

Nothing == [kind |-> "end"]

Node(e, sz, d) ==
    [type |-> e.kind, name |-> e.name, size |-> sz, data |-> d,
     ndirs |-> 0, nfiles |-> 0, entries |-> << >>]

Frame(node, first, ents) == [node |-> node, first |-> first, ents |-> ents, i |-> 1]

Top == stack[Len(stack)]

Scanning == at = "scan" /\ stack # << >>

Finished == Top.i \in DOMAIN Top.ents => Top.ents[Top.i].kind = "end"

\* read_dir_recursive returns; its node belongs to the caller's entries.
DirEnds ==
    /\ Scanning
    /\ Finished
    /\ IF Len(stack) = 1
       THEN root' = Top.node /\ stack' = << >> /\ at' = "prompt"
       ELSE /\ stack' = [Front(stack) EXCEPT
                ![Len(stack) - 1].node.entries = Append(@, Top.node)]
            /\ UNCHANGED <<root, at>>
    /\ UNCHANGED <<disk, entry, cluster, size, data, shell>>

Skip ==
    /\ Scanning
    /\ ~Finished
    /\ Top.ents[Top.i].kind \in {"deleted", "long"}
    /\ stack' = [stack EXCEPT ![Len(stack)].i = @ + 1]
    /\ UNCHANGED <<disk, at, entry, cluster, size, data, root, shell>>

ReadEntry ==
    /\ Scanning
    /\ ~Finished
    /\ Top.ents[Top.i].kind \in {"file", "dir"}
    /\ entry' = Top.ents[Top.i]
    /\ stack' = [stack EXCEPT ![Len(stack)].i = @ + 1]
    /\ cluster' = entry'.first
    /\ data' = << >>
    /\ IF entry'.kind = "file"
       THEN size' = entry'.size /\ at' = "copy"
       ELSE size' = 0 /\ at' = "size"
    /\ UNCHANGED <<disk, root, shell>>

\* Bound: the size of a chain that goes round is not told apart any more.
MaxSize == (NClusters(disk) + 1) * ClusterSize

\* Mutant: the loop looks at the first cluster only.
MutantSizeStepStays ==
    /\ at = "size"
    /\ ClusterIsValid(disk, cluster)
    /\ size' = IF size < MaxSize THEN size + ClusterSize ELSE size
    /\ UNCHANGED <<disk, at, stack, entry, cluster, data, root, shell>>

SizeStep ==
    /\ at = "size"
    /\ ClusterIsValid(disk, cluster)
    /\ size' = IF size < MaxSize THEN size + ClusterSize ELSE size
    /\ cluster' = ClusterNext(disk, cluster)
    /\ UNCHANGED <<disk, at, stack, entry, data, root, shell>>

SizeEnds ==
    /\ at = "size"
    /\ ~ClusterIsValid(disk, cluster)
    /\ cluster' = entry.first
    /\ at' = "copy"
    /\ UNCHANGED <<disk, stack, entry, size, data, root, shell>>

Copying == at = "copy" /\ ClusterIsValid(disk, cluster) /\ Len(data) < size

\* Mutant: the clusters of a file are taken to follow one another.
MutantCopyStepContiguous ==
    /\ Copying
    /\ LET left == size - Len(data)
           ncopy == IF ClusterSize < left THEN ClusterSize ELSE left
       IN  data' = data \o SubSeq(Units(disk, cluster), 1, ncopy)
    /\ cluster' = cluster + 1
    /\ UNCHANGED <<disk, at, stack, entry, size, root, shell>>

CopyStep ==
    /\ Copying
    /\ LET left == size - Len(data)
           ncopy == IF ClusterSize < left THEN ClusterSize ELSE left
       IN  data' = data \o SubSeq(Units(disk, cluster), 1, ncopy)
    /\ cluster' = ClusterNext(disk, cluster)
    /\ UNCHANGED <<disk, at, stack, entry, size, root, shell>>

\* Behind the data the image may end, and with it the pages mapped.
CopyFaults ==
    /\ Copying
    /\ cluster > DataClusters(disk) + 1
    /\ at' = "crashed"
    /\ UNCHANGED <<mount, shell>>

Dots == {<<".">>, <<".", ".">>}

\* read_entry returns; what it did not copy is zero.  A directory is read in
\* turn, unless it is "." or "..", which count as files.
CopyEnds ==
    /\ at = "copy" /\ ~Copying
    /\ LET node == Node(entry, size,
                        [u \in 1..size |-> IF u <= Len(data) THEN data[u] ELSE Zero])
           top == Len(stack)
       IN  IF entry.kind = "dir" /\ entry.name \notin Dots
           THEN /\ top < MaxDepth
                /\ stack' = Append([stack EXCEPT ![top].node.ndirs = @ + 1],
                                   Frame(node, entry.first, node.data))
           ELSE stack' = [stack EXCEPT
                    ![top].node.nfiles = @ + 1,
                    ![top].node.entries = Append(@, node)]
    /\ at' = "scan"
    /\ entry' = Nothing /\ size' = 0 /\ data' = << >> /\ cluster' = 0
    /\ UNCHANGED <<disk, root, shell>>

-----------------------------------------------------------------------------
(* The shell *)

\* mychr: where the next slash is, or the end.
Slash(p, from) == Min({i \in from..Len(p) : p[i] = "/"} \cup {Len(p) + 1})

IsAbsolute(p) == p # << >> /\ p[1] = "/"

Usage == "cat <file>"

\* q or the end of the input.
Quit ==
    /\ at = "prompt"
    /\ at' = "end"
    /\ UNCHANGED <<mount, shell>>

\* An empty line, or cat without a path: strcmp and find_file read the
\* string at NULL.
TypeTooLittle ==
    /\ at = "prompt"
    /\ at' = "crashed"
    /\ UNCHANGED <<mount, shell>>

\* Another command, or ls with an unknown option or with two paths.
TypeInvalid ==
    /\ at = "prompt"
    /\ message' \in {"Invalid command", "Invalid option", "Multiple paths specified"}
    /\ command' = "none" /\ path' = << >> /\ answer' = << >>
    /\ UNCHANGED <<mount, at, s, sep, file, calls, buf>>

\* A line is typed: ls or cat with one path (ls alone lists "/").  cat with
\* more paths prints its usage and goes on with the first.  For the path "/"
\* the first separator is looked for behind the end of the string and what
\* is found there is not used: the loop of find_file does not begin.
Type ==
    /\ at = "prompt"
    /\ command' \in {"ls", "cat"}
    /\ path' \in Paths
    /\ IF IsAbsolute(path')
       THEN at' = "find" /\ message' \in {""} \cup (IF command' = "cat" THEN {Usage} ELSE {})
       ELSE at' = "prompt" /\ message' = "Not an absolute path"
    /\ answer' = << >>
    /\ file' = root
    /\ s' = 2
    /\ sep' = Slash(path', 3)
    /\ UNCHANGED <<mount, calls, buf>>

Refuse(why) ==
    /\ message' = why
    /\ at' = "prompt"
    /\ UNCHANGED <<mount, command, path, s, sep, file, calls, buf, answer>>

\* The entries of the node reached that have the component's name.
Matches == {i \in DOMAIN file.entries : file.entries[i].name = SubSeq(path, s, sep - 1)}

Searching == at = "find" /\ s <= Len(path)

NoSuchFile ==
    /\ Searching
    /\ file.type = "file" \/ Matches = {}
    /\ Refuse("No such file or directory")

FindStep ==
    /\ Searching
    /\ file.type = "dir" /\ Matches # {}
    /\ file' = file.entries[Min(Matches)]
    /\ IF sep > Len(path)
       THEN at' = "found" /\ UNCHANGED <<s, sep>>
       ELSE s' = sep + 1 /\ sep' = Slash(path, sep + 1) /\ UNCHANGED at
    /\ UNCHANGED <<mount, command, path, calls, buf, answer, message>>

\* The path ends with a slash.
FindEnds ==
    /\ at = "find" /\ s > Len(path)
    /\ IF file.type = "dir"
       THEN at' = "found" /\ UNCHANGED <<mount, shell>>
       ELSE Refuse("Not a directory")

Cat ==
    /\ at = "found" /\ command = "cat"
    /\ IF file.type = "dir"
       THEN Refuse("Not a regular file")
       ELSE /\ answer' = file.data
            /\ at' = "prompt"
            /\ UNCHANGED <<mount, command, path, s, sep, file, calls, buf, message>>

\* Mutant: "." and ".." are listed like other directories, although they
\* have not been read.
MutantIsDirectory(node) == node.type = "dir"

IsDirectory(node) == node.type = "dir" /\ node.name \notin Dots

Section(p, node) ==
    [path |-> p, ndirs |-> node.ndirs, nfiles |-> node.nfiles,
     names |-> [n \in DOMAIN node.entries |-> node.entries[n].name]]

Call(p, node) == [node |-> node, len |-> Len(p), next |-> 1]

\* The path of a directory ends with a slash.
AsDirectory(p) == IF Last(p) = "/" THEN p ELSE Append(p, "/")

Ls ==
    /\ at = "found" /\ command = "ls"
    /\ IF file.type = "file"
       THEN /\ answer' = <<[path |-> path, size |-> file.size]>>
            /\ at' = "prompt"
            /\ UNCHANGED <<calls, buf>>
       ELSE /\ buf' = AsDirectory(path)
            /\ calls' = <<Call(buf', file)>>
            /\ answer' = <<Section(buf', file)>>
            /\ at' = "list"
    /\ UNCHANGED <<mount, command, path, s, sep, file, message>>

Listing == at = "list" /\ calls # << >>

Listed == calls[Len(calls)]

AllListed == Listed.next \notin DOMAIN Listed.node.entries

\* A directory in the directory: list_files appends its name to the path.
ListBelow ==
    /\ Listing
    /\ ~AllListed
    /\ LET e == Listed.node.entries[Listed.next]
           n == Len(calls)
       IN  IF IsDirectory(e)
           THEN /\ buf' = buf \o e.name \o <<"/">>
                /\ calls' = Append([calls EXCEPT ![n].next = @ + 1], Call(buf', e))
                /\ answer' = Append(answer, Section(buf', e))
           ELSE /\ calls' = [calls EXCEPT ![n].next = @ + 1]
                /\ UNCHANGED <<buf, answer>>
    /\ UNCHANGED <<mount, at, command, path, s, sep, file, message>>

\* list_files returns; its caller cuts the path off.
ListEnds ==
    /\ Listing
    /\ AllListed
    /\ calls' = Front(calls)
    /\ IF Len(calls) = 1
       THEN at' = "prompt" /\ UNCHANGED buf
       ELSE buf' = SubSeq(buf, 1, Last(calls').len) /\ UNCHANGED at
    /\ UNCHANGED <<mount, command, path, s, sep, file, answer, message>>

-----------------------------------------------------------------------------

RootNode == [type |-> "dir", name |-> << >>, size |-> 0, data |-> << >>,
             ndirs |-> 0, nfiles |-> 0, entries |-> << >>]

\* read_metadata
Started ==
    /\ disk \in Disks
    /\ at = "scan"
    /\ stack = <<Frame(RootNode, RootDirectory, disk.root)>>
    /\ entry = Nothing /\ cluster = 0 /\ size = 0 /\ data = << >>
    /\ root = RootNode
    /\ command = "ls" /\ path = << >>
    /\ s = 0 /\ sep = 0 /\ file = RootNode
    /\ calls = << >> /\ buf = << >>
    /\ answer = << >> /\ message = ""

Reads == DirEnds \/ Skip \/ ReadEntry \/ SizeStep \/ SizeEnds \/ CopyStep \/ CopyFaults
         \/ CopyEnds

Answers == NoSuchFile \/ FindStep \/ FindEnds \/ Cat \/ Ls \/ ListBelow \/ ListEnds

Types == Quit \/ TypeTooLittle \/ TypeInvalid \/ Type

Step == Reads \/ Types \/ Answers

Shell == Started /\ [][Step]_vars

-----------------------------------------------------------------------------
(* What is on the disk, read at random instead of cluster after cluster. *)

ClusterOf(d, first, k) ==
    LET nth[n \in Nat] == IF n = 0 THEN first ELSE ClusterNext(d, nth[n - 1])
    IN  nth[k]

UnitOf(d, first, u) ==
    LET n == ClusterOf(d, first, u \div ClusterSize)
    IN  IF n \in Clusters(d) THEN d.contents[n][(u % ClusterSize) + 1] ELSE Zero

\* The chain goes round: it is longer than there are clusters.
Endless(d, first) == ClusterIsValid(d, ClusterOf(d, first, NClusters(d)))

\* The n-th of a set of numbers, from the smallest.
Nth(S, n) == CHOOSE m \in S : Cardinality({l \in S : l < m}) = n - 1

\* The entries among units, which end where a unit begins with a zero.
EntriesAt(units) ==
    {u \in DOMAIN units : /\ units[u].kind \in {"file", "dir"}
                          /\ \A v \in 1..u : units[v].kind # "end"}

EntriesOf(units) ==
    [n \in 1..Cardinality(EntriesAt(units)) |-> units[Nth(EntriesAt(units), n)]]

DirEntries(d, first) ==
    EntriesOf(IF first = RootDirectory THEN d.root
              ELSE [u \in 1..NClusters(d) * ClusterSize |-> UnitOf(d, first, u - 1)])

\* Where the components of a path end: it begins with a slash.
Cuts(p) == {m \in DOMAIN p : p[m] = "/"} \cup {Len(p) + 1}

\* How many components a path has, and the n-th.
Depth(p) == Cardinality(Cuts(p)) - 1

Component(p, n) == SubSeq(p, Nth(Cuts(p), n) + 1, Nth(Cuts(p), n + 1) - 1)

RootEntry == [kind |-> "dir", name |-> << >>, first |-> RootDirectory]

\* The entry a component names in a directory; nothing is below a file or
\* below "." and "..".  No component after a last slash keeps a directory.
Below(d, e, name, isLast) ==
    LET entries == DirEntries(d, e.first)
        found   == {n \in DOMAIN entries : entries[n].name = name}
    IN  IF e.kind # "dir" THEN Nothing
        ELSE IF name = << >> /\ isLast THEN e
        ELSE IF e.name \in Dots \/ found = {} THEN Nothing
        ELSE entries[Min(found)]

\* The entry the first n components of a path name, and all of them.
Reached(d, p, n) ==
    LET nth[m \in Nat] == IF m = 0 THEN RootEntry
                          ELSE Below(d, nth[m - 1], Component(p, m), m = Depth(p))
    IN  nth[n]

Named(d, p) == Reached(d, p, Depth(p))

-----------------------------------------------------------------------------
(* Properties *)

Answered == at = "prompt" /\ IsAbsolute(path)

\* The last cluster of the disk is told from the end of a chain.  It is not
\* when the root directory is smaller than a cluster.
CountsAllClusters == NClusters(disk) > DataClusters(disk)

\* cat prints the units of the file that its path names on the disk, in the
\* order of the file's chain, zeros where the chain is too short, and
\* nothing but messages when the path names no file.
CatPrintsTheFile ==
    Answered /\ command = "cat" /\ CountsAllClusters =>
        LET e == Named(disk, path)
        IN  IF e.kind = "file"
            THEN /\ answer = [u \in 1..e.size |-> UnitOf(disk, e.first, u - 1)]
                 /\ message \in {"", Usage}
            ELSE answer = << >> /\ message \notin {"", Usage}

\* As the format demands; otherwise a path names the first.
NamesAreUnique(d) ==
    \A first \in {RootDirectory} \cup 2..NClusters(d) :
        LET entries == DirEntries(d, first)
        IN  \A l, m \in DOMAIN entries : entries[l].name = entries[m].name => l = m

\* The paths of the directories in a directory; "." and ".." are not read.
PathsBelow(d, p) ==
    LET entries == DirEntries(d, Named(d, p).first)
    IN  {p \o entries[n].name \o <<"/">> :
            n \in {m \in DOMAIN entries : entries[m].kind = "dir" /\ entries[m].name \notin Dots}}

\* What a section says is what is in the directory its path names.
SectionIsTrue(d, section) ==
    LET e       == Named(d, section.path)
        entries == DirEntries(d, e.first)
    IN  /\ e.kind = "dir"
        /\ section.names = IF e.name \in Dots THEN << >>
                           ELSE [n \in DOMAIN entries |-> entries[n].name]
        /\ section.ndirs + section.nfiles = Len(section.names)
        /\ e.name \notin Dots => section.ndirs = Cardinality(PathsBelow(d, section.path))

\* ls prints the size of a file; of a directory it prints a section, and
\* of every directory below it, each once and after the one it is in, and
\* of no other.  The entries in a section are those of the directory that
\* the path at its head names.
LsListsDirectories ==
    Answered /\ command = "ls" /\ CountsAllClusters /\ NamesAreUnique(disk) =>
        LET e == Named(disk, path)
        IN  CASE e.kind = "file" -> answer = <<[path |-> path, size |-> e.size]>>
              [] e.kind = "dir" ->
                    /\ answer # << >> /\ answer[1].path = AsDirectory(path)
                    /\ \A m \in DOMAIN answer : SectionIsTrue(disk, answer[m])
                    /\ \A m \in DOMAIN answer : Named(disk, answer[m].path).name \notin Dots =>
                          \A p \in PathsBelow(disk, answer[m].path) :
                             \E l \in DOMAIN answer : l > m /\ answer[l].path = p
                    /\ \A m \in 2..Len(answer) : \E l \in 1..m - 1 :
                          answer[m].path \in PathsBelow(disk, answer[l].path)
                    /\ \A l, m \in DOMAIN answer : answer[l].path = answer[m].path => l = m
              [] OTHER -> answer = << >> /\ message # ""

\* The tree is read in the end, unless a directory's chain goes round (its
\* size is counted for ever), a directory lies within itself or a chain
\* leaves the image.
TreeIsRead == at = "scan" =>
    \/ <>(at = "prompt")
    \/ <>(at = "crashed" /\ cluster > DataClusters(disk) + 1)
    \/ <>[](at = "size" /\ Endless(disk, entry.first))
    \/ <>[](\E p, q \in DOMAIN stack : p # q /\ stack[p].first = stack[q].first)
=============================================================================
