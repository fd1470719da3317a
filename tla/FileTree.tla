------------------------------ MODULE FileTree ------------------------------
(* The directory calls of com/posix_ifos.c: posix__mkdir and posix__pmkdir by
   several makers, posix__rm by removers.  Each system call is a step.

   A path is a sequence of names, and the tree (the file system, external) maps
   it to what it is; "special" is a socket or a block device.  There may be one
   symbolic link, Link, to LinkTo. *)
EXTENDS Integers, Sequences, FiniteSets, SequencesExt

CONSTANTS Paths,     \* every path there may be, and its prefixes
          Makers, Removers,
          Link, LinkTo,
          Targets    \* the paths the calls are given

VARIABLES
  tree,     \* [path |-> "none", "dir", "file", "special", "link"]
  maker,    \* per maker: its call, before, during and after
  remover,  \* per remover: its call, with the calls inside it, innermost last
  refused,  \* history: the file system has refused a call for another reason
  made,     \* history: paths made
  removed   \* history, per remover: paths removed

vars == <<tree, maker, remover, refused, made, removed>>

Parent(p) == Front(p)
Children(d) == {p \in Paths : Len(p) = Len(d) + 1 /\ IsPrefix(d, p)}
Below(p, d) == IsPrefix(d, p)

(* Every component but the last is followed when it is the link; stat and
   opendir follow the last as well, mkdir and remove do not. *)
Follow(p) ==
  IF Link \in Paths /\ tree[Link] = "link" /\ Below(p, Link)
  THEN LinkTo \o SubSeq(p, Len(Link) + 1, Len(p)) ELSE p
Node(p) == IF p = Link THEN p ELSE Follow(p)

KindAt(p) == IF p = <<>> THEN "dir" ELSE IF p \in Paths THEN tree[p] ELSE "none"
Stat(p) == KindAt(Follow(p))
LStat(p) == KindAt(Node(p))

Init ==
  /\ tree \in [Paths -> {"none", "dir", "file", "special", "link"}]
  /\ \A p \in Paths : tree[p] = "link" <=> p = Link
  /\ \A p \in Paths : tree[p] # "none" => KindAt(Parent(p)) = "dir"
  /\ maker = [m \in Makers |-> [op |-> "new"]]
  /\ remover = [r \in Removers |-> [op |-> "new"]]
  /\ refused = FALSE
  /\ made = {}
  /\ removed = [r \in Removers |-> {}]

------------------------------------------------------------------------------
(* posix__pmkdir *)

PMkdir(m, target) ==
  /\ maker[m].op = "new"
  /\ maker' = [maker EXCEPT ![m] = [op |-> "down", target |-> target, at |-> Len(target)]]
  /\ UNCHANGED <<tree, remover, refused, made, removed>>

Return(call, ret) == [op |-> "done", ret |-> ret, target |-> call.target]

\* A directory somebody else has made meanwhile is an error.
SlipMkdirSucceeds(d) == LStat(d) = "none" /\ Stat(Parent(d)) = "dir"

(* mkdir of a path: made, or there already, whatever it is. *)
MkdirSucceeds(d) == LStat(d) # "none" \/ Stat(Parent(d)) = "dir"
Obstructed(d) == \E n \in 1..Len(d) - 1 : Stat(SubSeq(d, 1, n)) \in {"file", "special"}

(* The recursion strips names until a mkdir succeeds, then makes each longer
   path once more; a second failure is returned. *)
Mkdir(m) ==
  /\ maker[m].op \in {"down", "up"}
  /\ LET c == maker[m]
         d == SubSeq(c.target, 1, c.at)
     IN  IF MkdirSucceeds(d)
         THEN /\ tree' = IF LStat(d) = "none" THEN [tree EXCEPT ![Node(d)] = "dir"] ELSE tree
              /\ made' = IF LStat(d) = "none" THEN made \cup {Node(d)} ELSE made
              /\ maker' = [maker EXCEPT ![m] =
                   IF c.at = Len(c.target) THEN Return(c, 0)
                   ELSE [c EXCEPT !.op = "up", !.at = @ + 1]]
         ELSE /\ maker' = [maker EXCEPT ![m] =
                   IF c.op = "up" \/ Obstructed(d) \/ c.at = 1 THEN Return(c, -1)
                   ELSE [c EXCEPT !.at = @ - 1]]
              /\ UNCHANGED <<tree, made>>
  /\ UNCHANGED <<remover, refused, removed>>

(* No permission, no space. *)
MkdirRefused(m) ==
  /\ maker[m].op \in {"down", "up"}
  /\ maker' = [maker EXCEPT ![m] = Return(@, -1)]
  /\ refused' = TRUE
  /\ UNCHANGED <<tree, remover, made, removed>>

------------------------------------------------------------------------------
(* posix__rm and __posix__rmdir, which call each other: a call is at a path, in
   a directory it lists, or about to remove a file. *)

Call(p, caller) ==
  [path |-> p, step |-> "isdir", caller |-> caller, seen |-> {}, ending |-> FALSE]

(* posix__isdir tests a bit of st_mode that sockets and block devices have too,
   and answers with an error for what is not there; its callers take any answer
   but 0 for yes. *)
IsDir(p) == Stat(p) \in {"dir", "special", "none"}

Removable(p) == LStat(p) # "none" /\ \A q \in Children(Node(p)) : tree[q] = "none"

Removes(r, p) ==
  /\ tree' = IF Removable(p) THEN [tree EXCEPT ![Node(p)] = "none"] ELSE tree
  /\ removed' = IF Removable(p) THEN [removed EXCEPT ![r] = @ \cup {Node(p)}] ELSE removed

Rm(r, target) ==
  /\ remover[r].op = "new"
  /\ remover' = [remover EXCEPT ![r] =
       [op |-> "rm", target |-> target, stack |-> <<Call(target, "posix__rm")>>]]
  /\ UNCHANGED <<tree, maker, refused, made, removed>>

Top(r) == Last(remover[r].stack)
At(r, step) == remover[r].op = "rm" /\ Top(r).step = step

(* The innermost call goes on. *)
Becomes(r, call) == remover' = [remover EXCEPT ![r].stack = Append(Front(@), call)]

(* It returns: the loop that made it ends when it was a posix__rm that failed;
   the result of an inner __posix__rmdir is not looked at. *)
Answers(r, ret) ==
  LET outer == Front(remover[r].stack)
      fails == ret < 0 /\ Top(r).caller = "posix__rm"
  IN  remover' = [remover EXCEPT ![r] =
        IF Len(@.stack) = 1 THEN Return(@, ret)
        ELSE [@ EXCEPT !.stack = Append(Front(outer), [Last(outer) EXCEPT !.ending = fails])]]

(* The loop of __posix__rmdir asks once and posix__rm asks again. *)
Isdir(r) ==
  /\ At(r, "isdir")
  /\ LET call == Top(r)
     IN  Becomes(r, IF IsDir(call.path) THEN [call EXCEPT !.step = "opendir"]
                    ELSE IF call.caller = "posix__rm" THEN [call EXCEPT !.step = "remove"]
                    ELSE [call EXCEPT !.caller = "posix__rm"])
  /\ UNCHANGED <<tree, maker, refused, made, removed>>

Opendir(r) ==
  /\ At(r, "opendir")
  /\ IF Stat(Top(r).path) = "dir" THEN Becomes(r, [Top(r) EXCEPT !.step = "readdir"])
                                  ELSE Answers(r, -1)
  /\ UNCHANGED <<tree, maker, refused, made, removed>>

\* Entries that are directories are left alone.
SlipEntries(f) == {p \in Children(Follow(f.path)) : tree[p] = "file" /\ Last(p) \notin f.seen}

(* What readdir may return next.  An open directory is known by its path. *)
Entries(f) == {p \in Children(Follow(f.path)) : tree[p] # "none" /\ Last(p) \notin f.seen}

Visit(r) ==
  /\ At(r, "readdir") /\ ~Top(r).ending
  /\ \E p \in Entries(Top(r)) :
       LET seeing == [Top(r) EXCEPT !.seen = @ \cup {Last(p)}]
           entry == Call(Append(Top(r).path, Last(p)), "__posix__rmdir")
       IN  remover' = [remover EXCEPT ![r].stack = Append(Append(Front(@), seeing), entry)]
  /\ UNCHANGED <<tree, maker, refused, made, removed>>

(* remove of what is no directory; it fails when somebody else was faster. *)
RemoveFile(r) ==
  /\ At(r, "remove")
  /\ Removes(r, Top(r).path)
  /\ Answers(r, IF Removable(Top(r).path) THEN 0 ELSE -1)
  /\ UNCHANGED <<maker, refused, made>>

(* An entry made after opendir need not be seen. *)
AtEnd(r) == At(r, "readdir") /\ (Top(r).ending \/ Entries(Top(r)) \subseteq made)

(* remove of the directory, which fails when it is not empty; the call returns 0
   in any case. *)
EndOfDirectory(r) ==
  /\ AtEnd(r)
  /\ Removes(r, Top(r).path)
  /\ Answers(r, 0)
  /\ UNCHANGED <<maker, refused, made>>

(* No permission, no descriptor. *)
RmRefused(r) ==
  /\ \/ At(r, "isdir") /\ Becomes(r, [Top(r) EXCEPT !.step = "opendir"])
     \/ (At(r, "opendir") \/ At(r, "remove")) /\ Answers(r, -1)
     \/ AtEnd(r) /\ Answers(r, 0)
  /\ refused' = TRUE
  /\ UNCHANGED <<tree, maker, made, removed>>

Next ==
  \/ \E m \in Makers : \/ \E t \in Targets : PMkdir(m, t)
                       \/ Mkdir(m) \/ MkdirRefused(m)
  \/ \E r \in Removers : \/ \E t \in Targets : Rm(r, t)
                         \/ Isdir(r) \/ Opendir(r) \/ Visit(r)
                         \/ RemoveFile(r) \/ EndOfDirectory(r) \/ RmRefused(r)

Spec == Init /\ [][Next]_vars

------------------------------------------------------------------------------
(* Nobody else has had a hand in it: nothing was made or refused, no other
   remover has removed anything at or below the path, and what is there is a
   file or a directory. *)
Undisturbed(r, t) ==
  /\ made = {} /\ ~refused
  /\ \A p \in Paths : Below(p, t) => tree[p] \in {"none", "dir", "file"}
  /\ \A q \in Removers \ {r} : \A p \in removed[q] : ~Below(p, t)

(* icom/posix_ifos.h, line 46: on a directory posix__rm is the same as rm -fr.
   It removes what is at or below its target and nothing else, whoever else
   makes and removes; and when it returns 0 undisturbed the target is gone. *)
SameAsRm ==
  \A r \in Removers :
    /\ remover[r].op # "new" => \A p \in removed[r] : Below(p, remover[r].target)
    /\ remover[r].op = "done" /\ remover[r].ret = 0 /\ Undisturbed(r, remover[r].target) =>
         KindAt(remover[r].target) = "none"

(* Makers of overlapping paths do not get in each other's way: a call fails
   only when something else stands where a directory should or the file system refuses;
   and when it has succeeded there is something at every prefix of its path;
   unless something was removed meanwhile. *)
MakersMeet ==
  \A m \in Makers :
    /\ maker[m].op = "done"
    /\ \A r \in Removers : removed[r] = {}
    => IF maker[m].ret = 0
       THEN \A n \in 1..Len(maker[m].target) : KindAt(SubSeq(maker[m].target, 1, n)) # "none"
       ELSE Obstructed(maker[m].target) \/ refused
=============================================================================
