---------------------------- MODULE VirtualPaths ----------------------------
(***************************************************************************)
(* How core/fs/mod.rs turns the name in a request into a file, as it is    *)
(* built for Unix.  A name is a sequence of characters: "/" is the         *)
(* separator, a backslash a character like others that is only trimmed;    *)
(* "..", "~" and "control" stand for what makes a name invalid.  A         *)
(* location is [root, name], below one of the roots or below the root of   *)
(* the file system, which holds whatever no configured root holds.         *)
(* disk is the file system: disk.kind gives "file" or "dir" for the        *)
(* locations that exist, disk.links the target of each symbolic link.      *)
(* policy has the settings follow_symlinks and create_dirs.                *)
(***************************************************************************)
EXTENDS Integers, FiniteSets, Sequences, SequencesExt

Backslash == "backslash"
Invalid   == {"..", "~", "control"}
Nowhere   == [root |-> "none", name |-> <<>>]        \* any error
System    == "system"                                \* the file system's own root

At(root, name) == [root |-> root, name |-> name]

\* trim_start_matches of one character
Drop(c, name) ==
  LET body == {i \in DOMAIN name : name[i] # c}
  IN  IF body = {} THEN <<>> ELSE SubSeq(name, Min(body), Len(name))

\* The slashes go first, then the backslashes: a slash behind a backslash stays
Trim(name) == Drop(Backslash, Drop("/", name))

ValidName(name) == ToSet(name) \cap Invalid = {}

-----------------------------------------------------------------------------
\* VirtualRoots::new: trimmed aliases, the longest first; the sort is stable
Trimmed(roots) == [i \in DOMAIN roots |-> [alias |-> Trim(roots[i].alias), dir |-> roots[i].dir]]

Longer(list, i, j) ==
  \/ Len(list[i].alias) > Len(list[j].alias)
  \/ Len(list[i].alias) = Len(list[j].alias) /\ i < j

Place(list, i) == Cardinality({j \in DOMAIN list : Longer(list, j, i)}) + 1

Sorted(list) == [k \in DOMAIN list |-> list[CHOOSE i \in DOMAIN list : Place(list, i) = k]]

\* ... in a list of roots that is sorted, for a name that is trimmed: the
\* first alias the name starts with; Nowhere when there is none, or nothing is
\* left of the name behind it
FirstAlias(sorted, name) ==
  LET hits == {i \in DOMAIN sorted : IsPrefix(sorted[i].alias, name)}
      hit  == sorted[Min(hits)]
      rest == Trim(SubSeq(name, Len(hit.alias) + 1, Len(name)))
  IN  IF hits = {} THEN Nowhere
      ELSE IF rest = <<>> THEN Nowhere ELSE At(hit.dir, rest)

\* VirtualRoots::resolve
Virtual(roots, name) == FirstAlias(Sorted(Trimmed(roots)), Trim(name))

\* resolve_path_with_virtual: the root that is asked, and what is asked of it;
\* virtual roots first, then the main one
Resolved(roots, mainRoot, name) ==
  LET virtual == Virtual(roots, name)
  IN  IF virtual # Nowhere THEN virtual
      ELSE IF Trim(name) # <<>> THEN At(mainRoot, Trim(name)) ELSE Nowhere

\* Path::join: what still begins with a separator replaces the root
Join(asked) ==
  IF asked.name[1] = "/" THEN At(System, Drop("/", asked.name)) ELSE asked

-----------------------------------------------------------------------------
(***************************************************************************)
(* The file system (external).  Names have no empty component, and links   *)
(* lead below a root.                                                      *)
(***************************************************************************)

\* The location itself and the directories it lies in, below its root
Ancestors(loc) ==
  {At(loc.root, SubSeq(loc.name, 1, i)) :
     i \in {j \in DOMAIN loc.name : j = Len(loc.name) \/ loc.name[j + 1] = "/"}}

Links(disk, loc) == Ancestors(loc) \cap DOMAIN disk.links

\* std::fs::canonicalize, for links whose target has none
Canonical(disk, loc) ==
  IF Links(disk, loc) = {} THEN loc
  ELSE LET link   == CHOOSE l \in Links(disk, loc) : TRUE
           target == disk.links[link]
       IN  At(target.root, target.name \o SubSeq(loc.name, Len(link.name) + 1, Len(loc.name)))

\* A root itself is always there
KindOf(disk, loc) ==
  LET node == Canonical(disk, loc)
  IN  IF node.name = <<>> THEN "dir"
      ELSE IF node \in DOMAIN disk.kind THEN disk.kind[node] ELSE "absent"

Exists(disk, loc) == KindOf(disk, loc) # "absent"

Parent(loc) ==
  LET slashes == {i \in DOMAIN loc.name : loc.name[i] = "/"}
  IN  At(loc.root, IF slashes = {} THEN <<>> ELSE SubSeq(loc.name, 1, Max(slashes) - 1))

-----------------------------------------------------------------------------
\* resolve_against_root with must_exist, for a read request
ReadAgainst(disk, policy, asked) ==
  IF /\ asked # Nowhere
     /\ policy.follow \/ Links(disk, Join(asked)) = {}       \* check_no_symlinks
     /\ Canonical(disk, Join(asked)).root = asked.root       \* starts_with
     /\ KindOf(disk, Join(asked)) = "file"
  THEN Canonical(disk, Join(asked)) ELSE Nowhere

\* ... without must_exist, for a write request: the directory is checked, if
\* there is one
WriteAgainst(disk, policy, asked) ==
  IF /\ asked # Nowhere
     /\ Exists(disk, Parent(Join(asked))) =>
          /\ policy.follow \/ Links(disk, Parent(Join(asked))) = {}
          /\ Canonical(disk, Parent(Join(asked))).root = asked.root
  THEN Join(asked) ELSE Nowhere

ReadTarget(disk, roots, mainRoot, policy, name) ==
  IF ValidName(name) THEN ReadAgainst(disk, policy, Resolved(roots, mainRoot, name)) ELSE Nowhere

\* spawn_write_session: a missing directory is refused, or created
WriteTarget(disk, roots, mainRoot, policy, name) ==
  LET path == IF ValidName(name) THEN WriteAgainst(disk, policy, Resolved(roots, mainRoot, name))
                                 ELSE Nowhere
  IN  IF path # Nowhere /\ (Exists(disk, Parent(path)) \/ policy.createDirs)
      THEN path ELSE Nowhere

\* create_dir_all and opening the file succeed: no file is in the way of the
\* directories and no directory in the way of the file; links that point
\* nowhere cannot be created over, and the file itself is not a link.
Storable(disk, target) ==
  /\ target # Nowhere /\ Last(target.name) # "/"
  /\ KindOf(disk, target) # "dir" /\ target \notin DOMAIN disk.links
  /\ \A dir \in Ancestors(Parent(target)) :
       \/ KindOf(disk, dir) = "dir"
       \/ KindOf(disk, dir) = "absent" /\ dir \notin DOMAIN disk.links

\* The disk after an upload to target
Stored(disk, target) ==
  LET node == Canonical(disk, target)
      dirs == {Canonical(disk, dir) : dir \in Ancestors(Parent(target))}
  IN  [kind  |-> [l \in DOMAIN disk.kind \cup {node} \cup dirs |->
                    CASE l = node                             -> "file"
                      [] l # node /\ l \in DOMAIN disk.kind   -> disk.kind[l]
                      [] l # node /\ l \notin DOMAIN disk.kind -> "dir"],
       links |-> disk.links]

-----------------------------------------------------------------------------
\* The order in which the hash map hands out the virtual roots does not
\* matter: every order finds the same file for every name, unless two roots
\* have the same alias once they are trimmed.
Orders(roots) ==
  {order \in [DOMAIN roots -> DOMAIN roots] :
     \A i \in DOMAIN roots : \E j \in DOMAIN roots : order[j] = i}

OrderIrrelevant(roots, mainRoot, name) ==
  LET distinct == \A i, j \in DOMAIN roots :
                    Trim(roots[i].alias) = Trim(roots[j].alias) => i = j
  IN  distinct => \A order \in Orders(roots) :
                    Resolved([i \in DOMAIN roots |-> roots[order[i]]], mainRoot, name) =
                    Resolved(roots, mainRoot, name)

\* The code checks the directory of a new file only where there is one.  Where
\* it creates one, the name can have replaced the root (Join) or lead through
\* a link, and nothing has looked.
Unchecked(disk, roots, mainRoot, name, target) ==
  /\ ~Exists(disk, Parent(target))
  /\ \/ target.root # Resolved(roots, mainRoot, name).root
     \/ Links(disk, Parent(target)) # {}

\* What an upload stores under a name, a download under that name finds, and
\* it lies below the root that was asked: so it is for every name when
\* create_dirs is off, and with it for every name that was checked.
ReadsBack(disk, roots, mainRoot, policy, name) ==
  LET target == WriteTarget(disk, roots, mainRoot, policy, name)
  IN  Storable(disk, target) =>
        \/ /\ ReadTarget(Stored(disk, target), roots, mainRoot, policy, name) =
                Canonical(disk, target)
           /\ Canonical(disk, target).root = Resolved(roots, mainRoot, name).root
        \/ policy.createDirs /\ Unchecked(disk, roots, mainRoot, name, target)
=============================================================================
