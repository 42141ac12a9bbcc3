------------------------------- MODULE MCFiles -------------------------------
(***************************************************************************)
(* One instance for the parts that live with files and inputs others may   *)
(* change: the store of custom configurations (ConfigStore, seen as the    *)
(* register of DurableRegister), the checked reading of files              *)
(* (CheckedFile), the paths of database and seal (SealPlacement) and the   *)
(* two release checks (VulnPolicy, DependencyBoundary).  They share no     *)
(* state: a behaviour chooses the part it is about, and the others keep    *)
(* one initial state.                                                      *)
(***************************************************************************)
EXTENDS ConfigStoreRegister, TLC

VARIABLES
  part,   \* the part that runs
  entry, content, private, mtime, clock, writing, replaces, rewrites, reader, pc,
  info, raw, fd, opened, again, value, basis, earlier,
  fs, trusted, database, seal, command,
  policy, allowed, configCount, sbomCount, checkingProgress, reachable, verdict, lines, messages, taken,
  flags, rootIsDir, boundary, code, files, badFiles, seen, badPackages, entries, records

\* Requests are interchangeable.
Symmetry == Permutations(Handler)

-----------------------------------------------------------------------------
(* Files: every content up to a length past all bounds while the owner is  *)
(* away, and a few contents with an owner who interferes.                  *)

AllContents == UNION {[1..n -> {"x", "LF", "CR", "NUL", "SP"}] : n \in 0..5}
Graphs == {<<"x", "x", "y">>, <<"x", "y", "x">>, <<"y", "x", "x">>}

Readers == {"credential", "runtime", "graph"}

Alone == INSTANCE CheckedFile WITH
  Reader <- Readers, Contents <- AllContents, Rewritten <- {}, Limit <- 2,
  MaxReplace <- 0, MaxRewrite <- 0
Owned == INSTANCE CheckedFile WITH
  Reader <- Readers, Contents <- Graphs, Rewritten <- Graphs, Limit <- 3,
  MaxReplace <- 1, MaxRewrite <- 2

\* Only a credential is asked who may read it.
OthersArePrivate == reader # "credential" => \A f \in DOMAIN private : private[f]

file == <<entry, content, private, mtime, clock, writing, replaces, rewrites, reader, pc,
          info, raw, fd, opened, again, value, basis, earlier>>

StoreRest == dir = "missing" /\ Init

FileRest ==
  /\ entry = [file |-> 1, link |-> FALSE] /\ content = <<<<>>>> /\ private = <<TRUE>>
  /\ reader = "graph"
  /\ Alone!Init

-----------------------------------------------------------------------------
(* The smallest tree in which a symlink can lead from beside the database  *)
(* directory into it: two names on each of two levels.                     *)

Seal == INSTANCE SealPlacement WITH
  Name <- {"a", "b"}, MaxLinks <- 3, Symlinks <- 2, pc <- command

placement == <<fs, trusted, database, seal, command>>

\* The two names are interchangeable.  Bound: symlinks that are not root's come
\* one at a time; they only make the command refuse more.
SealInit ==
  /\ Seal!Init /\ Head(database) = "a"
  /\ trusted \/ \A p, q \in DOMAIN fs : fs[p].kind = "link" /\ fs[q].kind = "link" => p = q

SealRest ==
  /\ fs = [p \in Seal!Path |-> Seal!Nothing] /\ trusted = TRUE
  /\ database = <<"a">> /\ seal = <<"b", "a">>
  /\ Seal!Init

-----------------------------------------------------------------------------
(* Two identifiers, and reports with room for one of each message that a   *)
(* complete one needs and one message more; trees and graphs of up to      *)
(* three elements, one more than the file limit.                           *)

Policy == INSTANCE VulnPolicy WITH
  Osv <- {"GO-1", "GO-2"}, MaxLines <- 2, MaxMessages <- 5, pc <- policy, code <- verdict

scan == <<policy, allowed, configCount, sbomCount, checkingProgress, reachable, verdict, lines,
          messages, taken>>

Boundary == INSTANCE DependencyBoundary WITH
  MaxFiles <- 2, MaxEntries <- 3, MaxRecords <- 3, pc <- boundary

imports == <<flags, rootIsDir, boundary, code, files, badFiles, seen, badPackages, entries, records>>

BoundaryRest ==
  flags = [root |-> FALSE, only |-> FALSE, args |-> 0] /\ rootIsDir = TRUE /\ Boundary!Init

ASSUME
  /\ Alone!ContentsAssumption /\ Alone!BoundsAssumption
  /\ Owned!ContentsAssumption /\ Owned!BoundsAssumption
  /\ Seal!SealPlacementAssumption
  /\ Policy!VulnPolicyAssumption /\ Boundary!DependencyBoundaryAssumption

-----------------------------------------------------------------------------
(* The parts side by side *)

PartsInit ==
  \/ part = "store" /\ Init /\ FileRest /\ SealRest /\ Policy!Init /\ BoundaryRest
  \/ part = "alone" /\ StoreRest /\ Alone!Init /\ OthersArePrivate /\ SealRest /\ Policy!Init /\ BoundaryRest
  \/ part = "owned" /\ StoreRest /\ Owned!Init /\ OthersArePrivate /\ SealRest /\ Policy!Init /\ BoundaryRest
  \/ part = "seal" /\ StoreRest /\ FileRest /\ SealInit /\ Policy!Init /\ BoundaryRest
  \/ part = "policy" /\ StoreRest /\ FileRest /\ SealRest /\ Policy!Init /\ BoundaryRest
  \/ part = "boundary" /\ StoreRest /\ FileRest /\ SealRest /\ Policy!Init /\ Boundary!Init

Run(p) == part = p /\ UNCHANGED part

\* Bound: an owner who renames over the path does not rewrite in place as well,
\* and rewrites only the graph: of the other two readers nothing is said then.
OneWay == rewrites' = 0 \/ (replaces' = 0 /\ reader = "graph")

PartsNext ==
  \/ Run("store") /\ Next /\ UNCHANGED <<file, placement, scan, imports>>
  \/ Run("alone") /\ Alone!Next /\ UNCHANGED <<vars, placement, scan, imports>>
  \/ Run("owned") /\ Owned!Next /\ OneWay /\ UNCHANGED <<vars, placement, scan, imports>>
  \/ Run("seal") /\ Seal!Next /\ UNCHANGED <<vars, file, scan, imports>>
  \/ Run("policy") /\ Policy!Next /\ UNCHANGED <<vars, file, placement, imports>>
  \/ Run("boundary") /\ Boundary!Next /\ UNCHANGED <<vars, file, placement, scan>>

PartsVars == <<part, vars, file, placement, scan, imports>>

PartsSpec == PartsInit /\ [][PartsNext]_PartsVars

-----------------------------------------------------------------------------
(* Properties *)

\* The part that runs stays in its types: readers stop at the bound of the file, the
\* checks exit once and count what they met, directories are made where they
\* were resolved to.
PartsTypeOK ==
  CASE part = "store" -> TypeOK
    [] part = "alone" -> Alone!TypeOK
    [] part = "owned" -> Owned!TypeOK
    [] part = "seal" -> Seal!TypeOK
    [] part = "policy" -> Policy!TypeOK
    [] part = "boundary" -> Boundary!TypeOK

\* A file is accepted exactly when its bytes have a meaning, and with that
\* meaning (readCredential, readBoundedFile, the graph of the boundary check).
ReadAsMeant == IF part = "owned" THEN Owned!ReadAsMeant ELSE Alone!ReadAsMeant

\* A package graph that is accepted is one the file held as a whole.
GraphIsWhole == IF part = "owned" THEN Owned!GraphIsWhole ELSE Alone!GraphIsWhole

\* Where the command has created both directories, the seal is outside the
\* database directory (requireSealOutsideDatabase).
SealIsOutside == Seal!SealIsOutside

\* The release passes exactly for one whole scan that reaches what the
\* allowlist names (scripts/govuln-policy.go).
PassIsExact == Policy!PassIsExact

\* The build passes exactly when all that was asked for is clean
\* (scripts/check-go-dependency-boundary.go).
PassIsClean == Boundary!PassIsClean
==============================================================================
