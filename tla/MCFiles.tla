------------------------------ MODULE MCFiles ------------------------------
(* Small instances of the modules about files for TLC: the logger's files, the
   loops that read and write, and the directory calls.  A behaviour uses one of
   them, chosen in the initial state, and leaves the others alone. *)
EXTENDS LogFile, TLC

CONSTANTS Procs, Fds, Sizes, Capacity,
          Makers, Removers, Paths, Targets, Link, LinkTo

\* Descriptors, sizes and the size of the disk are numbers.
ASSUME TransferAssumption == Fds \subseteq Nat /\ Sizes \subseteq Nat /\ Capacity \in Nat

VARIABLES content, desc, call, moved,
          tree, maker, remover, refused, made, removed,
          used

Transfer == INSTANCE FileTransfer WITH file <- content
Tree == INSTANCE FileTree

\* Paths are sequences of names; with a path, its prefixes may be there.
ASSUME PathsAssumption ==
  /\ Targets \subseteq Paths
  /\ \A p \in Paths :
       /\ p \in Seq({p[n] : n \in DOMAIN p}) \ {<<>>}
       /\ \A n \in 1..Len(p) : SubSeq(p, 1, n) \in Paths

TwoDescriptors == {3, 4}

ThePaths == {<<"a">>, <<"a", "b">>, <<"a", "b", "c">>, <<"a", "d">>, <<"e">>, <<"e", "f">>}
SmallTree == {<<"a">>, <<"a", "b">>, <<"a", "b", "c">>, <<"a", "d">>}
TheTargets == {<<"a">>, <<"a", "b", "c">>}
OneTarget == {<<"a">>}
TheLink == <<"a", "d">>
LinkTarget == <<"e">>
NoLink == <<"no link">>

transferVars == <<content, desc, call, moved>>
treeVars == <<tree, maker, remover, refused, made, removed>>

MCInit ==
  /\ Init /\ Transfer!Init /\ Tree!Init
  /\ used \in {"log", "transfer", "tree"}
  /\ used # "tree" => \A p \in Paths : tree[p] = "none"

\* Bound on the directory calls of a behaviour.
MaxCalls == 3
Calling ==
  Cardinality({m \in Makers : maker[m].op # "new"} \cup {r \in Removers : remover[r].op # "new"})

MCNext ==
  \/ used = "log" /\ Next /\ UNCHANGED <<transferVars, treeVars, used>>
  \/ used = "transfer" /\ Transfer!Next /\ UNCHANGED <<vars, treeVars, used>>
  \/ used = "tree" /\ Tree!Next /\ Calling' <= MaxCalls /\ UNCHANGED <<vars, transferVars, used>>

MCSpec == MCInit /\ [][MCNext]_<<vars, transferVars, treeVars, used>>

(* The directory calls. *)
TreeInit == MCInit /\ used = "tree"
TreeSpec == TreeInit /\ [][MCNext]_<<vars, transferVars, treeVars, used>>

Symmetry == Permutations(Procs) \cup Permutations(Makers) \cup Permutations(Removers)

(* A call moves each byte once, in order, and counts it (module FileTransfer). *)
CountIsMoved == Transfer!CountIsMoved

(* posix__rm removes its target and nothing else (module FileTree). *)
SameAsRm == Tree!SameAsRm

(* Concurrent posix__pmkdirs both succeed (module FileTree). *)
MakersMeet == Tree!MakersMeet
=============================================================================
