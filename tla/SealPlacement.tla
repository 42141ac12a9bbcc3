---------------------------- MODULE SealPlacement ----------------------------
(***************************************************************************)
(* The seal must not live in the database directory, where one restore     *)
(* would put both back (requireSealOutsideDatabase in main.go).  The paths *)
(* are compared as the file system resolves them before either exists; the *)
(* command then creates the database directory (secureDirectory) and the   *)
(* seal's directory (ensureSealDirectory).  The model is a tree of two     *)
(* levels with symlinks anywhere in it.                                    *)
(***************************************************************************)
EXTENDS Naturals, Sequences, FiniteSets, SequencesExt

CONSTANTS
  Name,      \* the names in a directory
  MaxLinks,  \* symlinks followed before the kernel gives up
  Symlinks   \* bound: symlinks in the tree

SealPlacementAssumption == Name # {} /\ MaxLinks \in Nat \ {0} /\ Symlinks \in Nat

\* Bound: directories and symlinks are at most two levels deep, the seal is a
\* file one level below.
Path == UNION {[1..n -> Name] : n \in 1..2}
Root == <<>>

VARIABLES
  fs,        \* Path -> nothing, a directory or a symlink
  trusted,   \* the symlinks belong to root
  database,  \* the -db flag
  seal,      \* the -seal flag
  pc

vars == <<fs, trusted, database, seal, pc>>

Nothing == [kind |-> "nothing", to |-> Root]
Dir == [kind |-> "dir", to |-> Root]
LinkTo(p) == [kind |-> "link", to |-> p]
Node == {Nothing, Dir} \cup {LinkTo(p) : p \in Path}

Tree(t) == \A p \in Path : Len(p) = 2 /\ t[p] # Nothing => t[Front(p)] = Dir

\* A path the kernel walks: where it ends, or why it does not.
At(p) == [err |-> "none", path |-> p]
NotExist == [err |-> "missing", path |-> Root]
Loop == [err |-> "loop", path |-> Root]

RECURSIVE Walk(_, _, _, _)
Walk(t, done, rest, links) ==
  IF rest = <<>> THEN At(done)
  ELSE LET next == Append(done, Head(rest))
       IN  CASE next \notin Path \/ t[next] = Nothing -> NotExist
             [] t[next] = Dir -> Walk(t, next, Tail(rest), links)
             [] OTHER -> IF links = 0 THEN Loop
                         ELSE Walk(t, Root, t[next].to \o Tail(rest), links - 1)

EvalSymlinks(t, p) == Walk(t, Root, p, MaxLinks)

\* The last component is looked at and not followed.
Lstat(t, p) ==
  IF p = Root THEN At(Root)
  ELSE LET parent == EvalSymlinks(t, Front(p))
           entry == Append(parent.path, Last(p))
       IN  IF parent.err # "none" THEN parent
           ELSE IF entry \notin Path \/ t[entry] = Nothing THEN NotExist
           ELSE At(entry)

\* The longest part of the path at which the search upwards stops.
Probe(t, p) ==
  CHOOSE n \in 0..Len(p) :
    /\ Lstat(t, SubSeq(p, 1, n)).err # "missing"
    /\ \A m \in (n + 1)..Len(p) : Lstat(t, SubSeq(p, 1, m)).err = "missing"

\* Mutant: a symlink to nothing counts as one more missing name.
ResolveLexically(t, p) ==
  LET n == Probe(t, p)
      probe == SubSeq(p, 1, n)
      resolved == EvalSymlinks(t, probe)
  IN  IF resolved.err # "none" THEN At(p)
      ELSE At(resolved.path \o SubSeq(p, n + 1, Len(p)))

resolveThroughExistingAncestor(t, p) ==
  LET n == Probe(t, p)
      probe == SubSeq(p, 1, n)
      resolved == IF Lstat(t, probe).err # "none" THEN Lstat(t, probe) ELSE EvalSymlinks(t, probe)
  IN  IF resolved.err # "none" THEN resolved
      ELSE At(resolved.path \o SubSeq(p, n + 1, Len(p)))

\* filepath.Rel does not begin with "..".
Inside(d, s) == IsPrefix(d, s)

TypeOK ==
  /\ fs \in [Path -> Node] /\ Tree(fs)
  /\ trusted \in BOOLEAN /\ database \in Path /\ Front(seal) \in Path
  /\ pc \in {"check", "database", "seal", "done", "refused"}

Init ==
  /\ fs \in {t \in [Path -> Node] : Tree(t) /\ Cardinality({p \in Path : t[p].kind = "link"}) <= Symlinks}
  /\ trusted \in BOOLEAN
  /\ database \in Path
  /\ seal \in {Append(p, n) : p \in Path, n \in Name}
  /\ pc = "check"

requireSealOutsideDatabase ==
  /\ pc = "check"
  /\ LET d == resolveThroughExistingAncestor(fs, database)
         s == resolveThroughExistingAncestor(fs, seal)
     IN  pc' = IF d.err = "none" /\ s.err = "none" /\ ~Inside(d.path, s.path)
               THEN "database" ELSE "refused"
  /\ UNCHANGED <<fs, trusted, database, seal>>

\* Mutant: the names are created as they are spelled, symlinks or not.
MadeAsSpelled(t, p) == [q \in Path |-> IF t[q] = Nothing /\ IsPrefix(q, p) THEN Dir ELSE t[q]]

\* MkdirAll: the names missing below the longest part that exists.
Target(t, p) ==
  LET n == Probe(t, p)
      found == EvalSymlinks(t, SubSeq(p, 1, n))
  IN  IF found.err = "none" THEN At(found.path \o SubSeq(p, n + 1, Len(p))) ELSE found

Made(t, p) ==
  [q \in Path |-> IF t[q] = Nothing /\ IsPrefix(q, Target(t, p).path) THEN Dir ELSE t[q]]

CanMake(t, p) == Target(t, p).err = "none" /\ Target(t, p).path \in Path

IsSymlink(t, p) ==
  LET at == Lstat(t, p) IN at.err = "none" /\ at.path # Root /\ t[at.path].kind = "link"

\* The directory is created if it is missing, and must not be a symlink.
secureDirectory ==
  /\ pc = "database"
  /\ IF CanMake(fs, database) /\ ~IsSymlink(fs, database)
     THEN fs' = Made(fs, database) /\ pc' = "seal"
     ELSE pc' = "refused" /\ UNCHANGED fs
  /\ UNCHANGED <<trusted, database, seal>>

\* Every symlink on the way belongs to root and leads somewhere.
rejectSymlinkAncestors(p) ==
  \E n \in 1..Len(p) :
    LET part == SubSeq(p, 1, n)
    IN  IsSymlink(fs, part) /\ (~trusted \/ EvalSymlinks(fs, part).err # "none")

\* The seal's directory likewise; the seal itself is a new file in it.
ensureSealDirectory ==
  /\ pc = "seal"
  /\ LET directory == Front(seal)
     IN  IF /\ ~rejectSymlinkAncestors(directory)
            /\ CanMake(fs, directory) /\ ~IsSymlink(fs, directory)
            /\ Lstat(fs, seal).err = "missing"
         THEN fs' = Made(fs, directory) /\ pc' = "done"
         ELSE pc' = "refused" /\ UNCHANGED fs
  /\ UNCHANGED <<trusted, database, seal>>

\* The next start passes the same flags.
Again ==
  /\ pc \in {"done", "refused"}
  /\ pc' = "check"
  /\ UNCHANGED <<fs, trusted, database, seal>>

Next == requireSealOutsideDatabase \/ secureDirectory \/ ensureSealDirectory \/ Again

Spec == Init /\ [][Next]_vars

-----------------------------------------------------------------------------
(* Properties *)

\* When the command has created both directories, the file system puts the
\* seal outside the database directory: the comparison made while parts of
\* the two paths were missing still holds for the paths that now exist.
SealIsOutside ==
  pc = "done" =>
    LET d == EvalSymlinks(fs, database)
        s == EvalSymlinks(fs, Front(seal))
    IN  d.err = "none" /\ s.err = "none" /\ ~IsPrefix(d.path, s.path)
==============================================================================
