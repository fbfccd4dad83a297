-------------------------------- MODULE BTree ---------------------------------
(***************************************************************************)
(* btree.c: binary trees of linked nodes.  A caller sets the parent of a    *)
(* node and inserts it below root; the code refuses a node that hangs there *)
(* already, when its parent is overwritten.  Two things callers do not do:  *)
(* insert a node that hangs in another tree, where the code does not look,  *)
(* and remove a node whose parent is null, which the code would write       *)
(* through.                                                                 *)
(***************************************************************************)
EXTENDS Integers, Sequences, FiniteSets

CONSTANTS TreeNode, root, NoNode

ASSUME TreeAssumption == root \in TreeNode /\ NoNode \notin TreeNode /\ IsFiniteSet(TreeNode)

VARIABLES
    parent, lChild, rChild,
    misled      \* ghost: the nodes inserted last while they hung below root

treeVars == <<parent, lChild, rChild, misled>>

-----------------------------------------------------------------------------
(* The functions that only read; a subtree is given by its root.            *)
BTree_Find(node) ==
    LET find[r \in TreeNode] ==
            LET l == IF lChild[r] = NoNode THEN NoNode ELSE find[lChild[r]]
            IN  IF r = node THEN node
                ELSE IF l # NoNode THEN l
                ELSE IF rChild[r] = NoNode THEN NoNode ELSE find[rChild[r]]
    IN  find

BTree_Degree ==
    LET degree[r \in TreeNode \cup {NoNode}] ==
            IF r = NoNode THEN 0
            ELSE LET Larger(a, b) == IF a > b THEN a ELSE b
                     own == Cardinality({lChild[r], rChild[r]} \ {NoNode})
                     left == Larger(own, IF own = 2 THEN 0 ELSE degree[lChild[r]])
                 IN  IF left = 2 THEN 2 ELSE Larger(left, degree[rChild[r]])
    IN  degree

BTree_Count ==
    LET count[r \in TreeNode \cup {NoNode}] ==
            IF r = NoNode THEN 0 ELSE count[lChild[r]] + count[rChild[r]] + 1
    IN  count

BTree_Hight ==
    LET hight[r \in TreeNode \cup {NoNode}] ==
            IF r = NoNode THEN 0
            ELSE LET l == hight[lChild[r]]
                     h == hight[rChild[r]]
                 IN  IF l > h THEN l + 1 ELSE h + 1
    IN  hight

(* The nodes in the order in which BTree_Clear calls func.                  *)
ClearOrder ==
    LET order[r \in TreeNode \cup {NoNode}] ==
            IF r = NoNode THEN <<>> ELSE order[lChild[r]] \o order[rChild[r]] \o <<r>>
    IN  order

-----------------------------------------------------------------------------
TreeInit ==     \* BTree_Init of every node
    /\ parent = [n \in TreeNode |-> NoNode]
    /\ lChild = [n \in TreeNode |-> NoNode]
    /\ rChild = [n \in TreeNode |-> NoNode]
    /\ misled = {}

Hangs(node) == \E n \in TreeNode : node \in {lChild[n], rChild[n]}

TakesTwice(object, node) == BTree_Find(object)[root] # NoNode
Accepts(object, node) ==
    BTree_Find(object)[root] # NoNode /\ BTree_Find(node)[root] = NoNode

(* pos is the set of sides the caller allows, the left one being preferred.  *)
BTree_Insert(object, node, pos) ==
    /\ Hangs(node) => BTree_Find(node)[root] # NoNode
    /\ parent' = [parent EXCEPT ![node] = object]
    /\ misled' = IF Hangs(node) THEN misled \cup {node} ELSE misled \ {node}
    /\ LET left == Accepts(object, node) /\ "left" \in pos /\ lChild[object] = NoNode
           right == /\ Accepts(object, node) /\ ~left
                    /\ "right" \in pos /\ rChild[object] = NoNode
       IN  /\ lChild' = IF left THEN [lChild EXCEPT ![object] = node] ELSE lChild
           /\ rChild' = IF right THEN [rChild EXCEPT ![object] = node] ELSE rChild

(* The link of the parent is cleared, without a look whether it is one.     *)
WasLeft(object) == lChild[parent[object]] = object
BTree_Remove(node) ==
    /\ BTree_Find(node)[root] # NoNode /\ parent[node] # NoNode
    /\ parent' = [parent EXCEPT ![node] = NoNode]
    /\ IF WasLeft(node)
       THEN lChild' = [lChild EXCEPT ![parent[node]] = NoNode] /\ rChild' = rChild
       ELSE rChild' = [rChild EXCEPT ![parent[node]] = NoNode] /\ lChild' = lChild
    /\ UNCHANGED misled

(* func makes the node usable again, as a free and a malloc would.          *)
BTree_Clear(node) ==
    LET cleared == {ClearOrder[node][k] : k \in DOMAIN ClearOrder[node]}
        Blank(f) == [n \in TreeNode |-> IF n \in cleared THEN NoNode ELSE f[n]]
    IN  /\ ~Hangs(node)
        /\ parent' = Blank(parent) /\ lChild' = Blank(lChild) /\ rChild' = Blank(rChild)
        /\ UNCHANGED misled

TreeNext ==
    \E node \in TreeNode :
        \/ \E object \in TreeNode, pos \in {{"left"}, {"right"}, {"left", "right"}} :
            BTree_Insert(object, node, pos)
        \/ BTree_Remove(node)
        \/ BTree_Clear(node)

TreeSpec == TreeInit /\ [][TreeNext]_treeVars

-----------------------------------------------------------------------------
Children(n) == {lChild[n], rChild[n]} \ {NoNode}

(* The nodes of each generation below r. *)
Generation(r) ==
    LET g[k \in 0 .. Cardinality(TreeNode)] ==
            IF k = 0 THEN {r} ELSE UNION {Children(n) : n \in g[k - 1]}
    IN  g
Under(r) == UNION {Generation(r)[k] : k \in 0 .. Cardinality(TreeNode)}

(* After any sequence of calls, refused ones included, every node hangs at  *)
(* most once and below nothing that is below itself, and root nowhere; the  *)
(* parent of a node that hangs is the node it hangs on, unless its caller   *)
(* has overwritten it in a refused insert; and in any subtree what the      *)
(* recursive functions find, count and measure is there, func being called  *)
(* once for every node and for the children first.                          *)
TreeAgrees ==
    /\ \A n \in TreeNode :
        /\ \A c \in Children(n) :
            /\ c # root /\ n \notin Under(c) /\ (c \in misled \/ parent[c] = n)
            /\ \A o \in TreeNode \ {n} : c \notin Children(o)
        /\ lChild[n] = rChild[n] => lChild[n] = NoNode
    /\ \A r \in TreeNode :
        LET all == Under(r)
            order == ClearOrder[r]
        IN  /\ \A n \in TreeNode : BTree_Find(n)[r] = IF n \in all THEN n ELSE NoNode
            /\ BTree_Count[r] = Cardinality(all)
            /\ BTree_Hight[r] = Cardinality({k \in DOMAIN Generation(r) : Generation(r)[k] # {}})
            /\ \A n \in all : BTree_Degree[r] >= Cardinality(Children(n))
            /\ \E n \in all : BTree_Degree[r] = Cardinality(Children(n))
            /\ Len(order) = Cardinality(all) /\ {order[k] : k \in DOMAIN order} = all
            /\ \A j, k \in DOMAIN order : order[j] \in Children(order[k]) => j < k
=============================================================================
