------------------------------ MODULE AvlTree ------------------------------
(***************************************************************************)
(* The AVL tree of com/avltree.c, which the buckets of the object table    *)
(* are.  The algorithms are operators on trees as values: a tree is linked *)
(* from one place only, so writing a field of a node and returning the     *)
(* node is returning a tree with that field.                               *)
(* A node is named by its key, and the compare function is the order of    *)
(* the keys.  The recursions of the code, and its loops down the tree, are *)
(* recursive functions on the set of trees.                                *)
(***************************************************************************)
EXTENDS Integers

CONSTANTS Keys,      \* natural numbers
          MaxDepth   \* bound on the depth of the trees of a behaviour

NULL == [height |-> -1]   \* HEIGHT(NULL) is -1
NoNode == -1              \* NULL where a node is named by its key

Height(l, r) == (IF l.height > r.height THEN l.height ELSE r.height) + 1

\* A node with these children, its height brought up to date.
Node(k, l, r) == [key |-> k, lchild |-> l, rchild |-> r, height |-> Height(l, r)]

\* A node with other children and the height it had.
Relink(t, l, r) == [t EXCEPT !.lchild = l, !.rchild = r]

\* The trees of depth n at most, in any order and with any heights stored.
TreesUpTo[n \in 0..(MaxDepth + 1)] ==
  IF n = 0 THEN {NULL}
  ELSE LET Child == TreesUpTo[n - 1]
       IN  [key : Keys, lchild : Child, rchild : Child, height : Int] \cup {NULL}

\* One insertion makes a tree of depth MaxDepth deeper by one.
Trees == TreesUpTo[MaxDepth + 1]

(* The operators Slip... are plausible mistakes in the operator that follows,
   used only to show that the properties notice. *)

SingleRotateLeft(t) ==
  LET n == t.lchild
  IN  Node(n.key, n.lchild, Node(t.key, n.rchild, t.rchild))

SingleRotateRight(t) ==
  LET n == t.rchild
  IN  Node(n.key, Node(t.key, t.lchild, n.lchild), n.rchild)

DoubleRotateLeft(t) ==
  LET c == t.lchild
      n == c.rchild
  IN  Node(n.key, Node(c.key, c.lchild, n.lchild), Node(t.key, n.rchild, t.rchild))

DoubleRotateRight(t) ==
  LET c == t.rchild
      n == c.lchild
  IN  Node(n.key, Node(t.key, t.lchild, n.lchild), Node(c.key, n.rchild, c.rchild))

AvlGetMin[t \in Trees] ==
  IF t = NULL \/ t.lchild = NULL THEN t ELSE AvlGetMin[t.lchild]

AvlGetMax[t \in Trees] ==
  IF t = NULL \/ t.rchild = NULL THEN t ELSE AvlGetMax[t.rchild]

AvlSearch[t \in Trees] ==
  [k \in Keys |->
    CASE t = NULL  -> NULL
      [] t # NULL /\ k < t.key -> AvlSearch[t.lchild][k]
      [] t # NULL /\ k > t.key -> AvlSearch[t.rchild][k]
      [] OTHER -> t]

----------------------------------------------------------------------------
(* avlinsert; a key that is there already leaves the tree as it is. *)

\* The left child became l when k was inserted there.
GrownLeft(t, l, k) ==
  LET u == Relink(t, l, t.rchild)
  IN  CASE l.height - t.rchild.height # 2 -> Node(t.key, l, t.rchild)
        [] l.height - t.rchild.height = 2 /\ k < l.key -> SingleRotateLeft(u)
        [] l.height - t.rchild.height = 2 /\ k > l.key -> DoubleRotateLeft(u)
        [] OTHER -> u

\* The right child became r when k was inserted there.
GrownRight(t, r, k) ==
  LET u == Relink(t, t.lchild, r)
  IN  CASE r.height - t.lchild.height # 2 -> Node(t.key, t.lchild, r)
        [] r.height - t.lchild.height = 2 /\ k < r.key -> DoubleRotateRight(u)
        [] r.height - t.lchild.height = 2 /\ k > r.key -> SingleRotateRight(u)
        [] OTHER -> u

AvlInsert[t \in Trees] ==
  [k \in Keys |->
    CASE t = NULL -> Node(k, NULL, NULL)
      [] t # NULL /\ k < t.key -> GrownLeft(t, AvlInsert[t.lchild][k], k)
      [] t # NULL /\ k > t.key -> GrownRight(t, AvlInsert[t.rchild][k], k)
      [] OTHER -> t]

\* The height is not brought up to date when nothing is rotated.
SlipRebalance(t) ==
  LET l == t.lchild
      r == t.rchild
  IN  IF l.height - r.height = 2 THEN SingleRotateLeft(t)
      ELSE IF r.height - l.height = 2 THEN SingleRotateRight(t)
      ELSE t

(* avlremove: the rebalancing at its end, and then the height once more. *)
Rebalance(t) ==
  LET l == t.lchild
      r == t.rchild
      u == CASE l.height - r.height = 2 ->
                  (CASE l.lchild.height - r.height = 1 -> SingleRotateLeft(t)
                     [] l.lchild.height - r.height # 1 /\ l.rchild.height - r.height = 1 -> DoubleRotateLeft(t)
                     [] OTHER -> t)
             [] r.height - l.height = 2 ->
                  (CASE r.rchild.height - l.height = 1 -> SingleRotateRight(t)
                     [] r.rchild.height - l.height # 1 /\ r.lchild.height - l.height = 1 -> DoubleRotateRight(t)
                     [] OTHER -> t)
             [] OTHER -> t
  IN  Node(u.key, u.lchild, u.rchild)

(* The tree that is left; what is handed back is RmNode. *)
AvlRemove[t \in Trees] ==
  [k \in Keys |->
    CASE t = NULL -> NULL
      [] t # NULL /\ k = t.key /\ t.lchild # NULL /\ t.rchild # NULL ->
           LET m == AvlGetMin[t.rchild]
           IN  Rebalance(Relink(m, t.lchild, AvlRemove[t.rchild][m.key]))
      [] t # NULL /\ k = t.key /\ (t.lchild = NULL \/ t.rchild = NULL) ->
           IF t.lchild # NULL THEN t.lchild ELSE t.rchild
      [] t # NULL /\ k < t.key -> Rebalance(Relink(t, AvlRemove[t.lchild][k], t.rchild))
      [] t # NULL /\ k > t.key -> Rebalance(Relink(t, t.lchild, AvlRemove[t.rchild][k]))]

(* *rmnode: the node the descent by compare ends at, with two children or not. *)
RmNode[t \in Trees] ==
  [k \in Keys |->
    CASE t = NULL -> NoNode
      [] t # NULL /\ k = t.key -> t.key
      [] t # NULL /\ k < t.key -> RmNode[t.lchild][k]
      [] t # NULL /\ k > t.key -> RmNode[t.rchild][k]]

----------------------------------------------------------------------------
(* Any sequence of insertions and removals on one tree, while its height, which
   is one less than its depth, is below the bound. *)

VARIABLE tree

Init == tree = NULL

Insert(k) ==
  LET t == AvlInsert[tree][k]
  IN  t.height < MaxDepth /\ tree' = t

Remove(k) == tree' = AvlRemove[tree][k]

Next == \E k \in Keys : Insert(k) \/ Remove(k)

Spec == Init /\ [][Next]_tree

----------------------------------------------------------------------------
(* Properties. *)

Members[t \in Trees] ==
  IF t = NULL THEN {} ELSE {t.key} \cup Members[t.lchild] \cup Members[t.rchild]

IsBalanced[t \in Trees] ==
  t = NULL \/ /\ t.height = Height(t.lchild, t.rchild)
              /\ t.lchild.height - t.rchild.height \in -1..1
              /\ IsBalanced[t.lchild] /\ IsBalanced[t.rchild]

InOrder[t \in Trees] ==
  t = NULL \/ /\ \A k \in Members[t.lchild] : k < t.key
              /\ \A k \in Members[t.rchild] : t.key < k
              /\ InOrder[t.lchild] /\ InOrder[t.rchild]

(* Every node stores its exact height, and its subtrees differ by at most one:
   the tests "== 2" and "== 1" of the code are only right when this holds.  The
   keys are in order, and the tree is a set of them: a search finds a key exactly
   when it is in the tree, the extremes are the least and the greatest, insertion
   and removal change the set by the key they are given and by no other, whatever
   they rotate, and *rmnode is the node that left, or NULL when there was none. *)
BalancedSet ==
  LET members == Members[tree]
  IN  /\ IsBalanced[tree] /\ InOrder[tree]
      /\ \A k \in Keys :
           LET found == AvlSearch[tree][k]
           IN  /\ IF k \in members THEN found # NULL /\ found.key = k ELSE found = NULL
               /\ Members[AvlInsert[tree][k]] = members \cup {k}
               /\ Members[AvlRemove[tree][k]] = members \ {k}
               /\ RmNode[tree][k] = IF k \in members THEN k ELSE NoNode
      /\ \A k \in members : AvlGetMin[tree].key <= k /\ k <= AvlGetMax[tree].key
=============================================================================
