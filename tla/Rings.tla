-------------------------------- MODULE Rings ---------------------------------
(***************************************************************************)
(* The doubly linked lists of the kernel (list.c) and the queues and stacks*)
(* built on them (queue.c, stack.c): rings of cells, each list's head being *)
(* one of them.  The other modules take a list for the sequence of its     *)
(* members; here the sequence is a ghost variable that each call changes as *)
(* its name says, and the links have to follow.                            *)
(*                                                                         *)
(* The list of mutexes is never initialised: MutexModuleInit declares a     *)
(* variable of the same name as the static one, which stays null.  Its head *)
(* is the memory at address 0, where the BIOS left two vectors that hold    *)
(* the same address.  That address lies behind the memory; the page fault  *)
(* of its first use gives it a frame.  As long as the frame is zero it is   *)
(* one more cell of that list.                                             *)
(***************************************************************************)
EXTENDS Queues

CONSTANTS
    Queue, Stack, Bare, \* heads: with a length (Queue_t, Stack_t), without (List_t)
    Node,               \* cells that can be linked into a list
    gMutexList,         \* the head at address 0
    Vector              \* the cell the vectors point to

List == Queue \cup Stack \cup Bare
Cell == List \cup Node

ASSUME CellAssumption ==
    /\ Queue \cap Stack = {} /\ Bare \cap (Queue \cup Stack) = {}
    /\ List \cap Node = {}
    /\ gMutexList \in Bare /\ Vector \in Node /\ IsFiniteSet(Node)

VARIABLES
    links,      \* next and prev of every cell
    length,     \* of queues and stacks
    made,       \* initialised and not destroyed
    members     \* what the calls have put into each list, in order

ringVars == <<links, length, made, members>>

-----------------------------------------------------------------------------
(* list.c *)

(* _List_Add: two assignments per field, the order being that of the code.  *)
LinkOneWay(l, node, before, after) ==
    [next |-> [l.next EXCEPT ![before] = node, ![node] = after],
     prev |-> [l.prev EXCEPT ![node] = before]]
Link(l, node, before, after) ==
    [next |-> [l.next EXCEPT ![before] = node, ![node] = after],
     prev |-> [l.prev EXCEPT ![node] = before, ![after] = node]]

(* _List_Del: the removed node points to itself. *)
Unlink(l, node, before, after) ==
    [next |-> [l.next EXCEPT ![before] = after, ![node] = node],
     prev |-> [l.prev EXCEPT ![after] = before, ![node] = node]]

List_Init(l, list) ==
    [next |-> [l.next EXCEPT ![list] = list], prev |-> [l.prev EXCEPT ![list] = list]]
List_AddBefore(l, before, node) == Link(l, node, l.prev[before], before)
List_AddAfter(l, after, node) == Link(l, node, after, l.next[after])
List_Add(l, list, node) == List_AddAfter(l, list, node)
List_AddTail(l, list, node) == List_AddBefore(l, list, node)
List_DelNode(l, node) == Unlink(l, node, l.prev[node], l.next[node])
List_Replace(l, old, new) ==
    Link(Unlink(l, old, l.prev[old], l.next[old]), new, l.prev[old], l.next[old])

List_IsEmpty(l, list) == l.prev[list] = list /\ l.next[list] = list
List_IsLast(l, list, node) == l.prev[list] = node /\ l.next[node] = list

(* List_ForEach: the cells the loop visits before it is back at the head.   *)
Visited(l, list) ==
    LET pos[k \in 0 .. Cardinality(Node)] ==
            IF k = 0 THEN l.next[list] ELSE l.next[pos[k - 1]]
    IN  pos

Walk(l, list) ==
    LET pos == Visited(l, list)
        back == {k \in DOMAIN pos : pos[k] = list}
        steps == CHOOSE k \in back : \A j \in back : k <= j
    IN  [k \in 1 .. steps |-> pos[k - 1]]

(* List_FindNode for a func that accepts the nodes in S; {} is nullptr. *)
List_FindNode(l, list, S) ==
    LET found == SelectIn(Walk(l, list), S)
    IN  IF found = <<>> THEN {} ELSE {Head(found)}

List_IsContained(l, list, node) == List_FindNode(l, list, {node}) # {}

-----------------------------------------------------------------------------
(* queue.c; stack.c tests for the empty list in the same way. *)
IsEmpty(list) == List_IsEmpty(links, list) /\ length[list] = 0

FrontOfTail(list) == IF IsEmpty(list) THEN {} ELSE {links.prev[list]}
FrontOf(list) == IF IsEmpty(list) THEN {} ELSE {links.next[list]}

Free == Node \ UNION {ToSet(members[list]) : list \in List}

Holds(list, s) == members' = [members EXCEPT ![list] = s]

Init ==
    /\ links =
        LET self == [c \in Cell |-> CASE c = gMutexList -> Vector
                                      [] c = Vector -> gMutexList
                                      [] OTHER -> c]
        IN  [next |-> self, prev |-> self]
    /\ length = [list \in Queue \cup Stack |-> 0]
    /\ made = List
    /\ members = [list \in List |-> IF list = gMutexList THEN <<Vector>> ELSE <<>>]

Queue_Add(list, node) ==
    /\ list \in Queue \cap made
    /\ links' = List_AddTail(links, list, node)
    /\ length' = [length EXCEPT ![list] = @ + 1]
    /\ Holds(list, Append(members[list], node))
    /\ UNCHANGED made

Stack_Push(list, node) ==
    /\ list \in Stack \cap made
    /\ links' = List_Add(links, list, node)
    /\ length' = [length EXCEPT ![list] = @ + 1]
    /\ Holds(list, <<node>> \o members[list])
    /\ UNCHANGED made

(* Queue_Remove and Stack_Pop; nothing happens to an empty one. *)
RemoveFront(list) ==
    /\ list \in (Queue \cup Stack) \cap made
    /\ ~IsEmpty(list)
    /\ links' = List_DelNode(links, links.next[list])
    /\ length' = [length EXCEPT ![list] = @ - 1]
    /\ Holds(list, Tail(members[list]))
    /\ UNCHANGED made

(* Queue_Rotate: Queue_Add of what Queue_Remove returns, null if empty. *)
Queue_Rotate(list) ==
    /\ list \in Queue \cap made
    /\ ~IsEmpty(list)
    /\ LET node == links.next[list]
       IN  links' = List_AddTail(List_DelNode(links, node), list, node)
    /\ Holds(list, Rotate(members[list]))
    /\ UNCHANGED <<length, made>>

(* Queue_Destroy, Stack_Destroy: one round of the loop of List_Destroy.     *)
(* The length stays, so what is destroyed has to be initialised again       *)
(* before it is used.                                                       *)
Destroy(list) ==
    /\ list \in Queue \cup Stack
    /\ ~List_IsEmpty(links, list)
    /\ links' = List_DelNode(links, links.next[list])
    /\ made' = made \ {list}
    /\ Holds(list, Tail(members[list]))
    /\ UNCHANGED length

(* Queue_Init, Stack_Init *)
Initialise(list) ==
    /\ list \in (Queue \cup Stack) \ made
    /\ members[list] = <<>>
    /\ links' = List_Init(links, list)
    /\ length' = [length EXCEPT ![list] = 0]
    /\ made' = made \cup {list}
    /\ UNCHANGED members

(* The calls for a bare list: the task pool, the sleep list, the blocks of  *)
(* the heap, events, mutexes.  A node is linked in at either end or beside  *)
(* a member, which is member number i.                                      *)
AddToBare(list, node) ==
    /\ list \in Bare
    /\ \/ links' = List_Add(links, list, node) /\ Holds(list, <<node>> \o members[list])
       \/ links' = List_AddTail(links, list, node) /\ Holds(list, Append(members[list], node))
       \/ \E i \in DOMAIN members[list] :
            /\ links' = List_AddAfter(links, members[list][i], node)
            /\ Holds(list, InsertAt(members[list], i + 1, node))
       \/ \E i \in DOMAIN members[list] :
            /\ links' = List_AddBefore(links, members[list][i], node)
            /\ Holds(list, InsertAt(members[list], i, node))
    /\ UNCHANGED <<length, made>>

(* List_DelNode; List_Destroy of a bare list is this for its first member   *)
(* until it has none.                                                       *)
DelFromBare(list, i) ==
    /\ list \in Bare /\ members[list][i] # Vector
    /\ links' = List_DelNode(links, members[list][i])
    /\ Holds(list, RemoveAt(members[list], i))
    /\ UNCHANGED <<length, made>>

ReplaceInBare(list, i, node) ==
    /\ list \in Bare /\ members[list][i] # Vector
    /\ links' = List_Replace(links, members[list][i], node)
    /\ Holds(list, [members[list] EXCEPT ![i] = node])
    /\ UNCHANGED <<length, made>>

Next ==
    \E list \in List :
        \/ RemoveFront(list) \/ Queue_Rotate(list) \/ Destroy(list) \/ Initialise(list)
        \/ \E node \in Free :
            \/ Queue_Add(list, node) \/ Stack_Push(list, node) \/ AddToBare(list, node)
            \/ \E i \in DOMAIN members[list] : ReplaceInBare(list, i, node)
        \/ \E i \in DOMAIN members[list] : DelFromBare(list, i)

Spec == Init /\ [][Next]_ringVars

-----------------------------------------------------------------------------
(* Cell number i of a ring, counted from its head; behind the last member   *)
(* comes the head again.                                                    *)
At(list, s, i) == IF i \in 1 .. Len(s) THEN s[i] ELSE list

Ring(l, list, s) ==
    \A i \in 0 .. Len(s) :
        /\ l.next[At(list, s, i)] = At(list, s, i + 1)
        /\ l.prev[At(list, s, i + 1)] = At(list, s, i)

(* The links of every list are the ring of its members, forwards and        *)
(* backwards, no cell is in two rings, and the length is their number,      *)
(* after any sequence of calls.                                             *)
LinksHoldMembers ==
    /\ \A list \in List : Ring(links, list, members[list]) /\ IsInjective(members[list])
    /\ \A a, b \in List : a # b => ToSet(members[a]) \cap ToSet(members[b]) = {}
    /\ \A list \in (Queue \cup Stack) \cap made : length[list] = Len(members[list])

(* What the calls that only read return is what the sequence says. *)
ReadersAgree ==
    \A list \in List :
        LET s == members[list]
        IN  /\ Walk(links, list) = s
            /\ List_IsEmpty(links, list) <=> s = <<>>
            /\ \A n \in Node :
                /\ List_IsLast(links, list, n) <=> s # <<>> /\ Last(s) = n
                /\ List_IsContained(links, list, n) <=> n \in ToSet(s)
            /\ \A S \in SUBSET Node :
                List_FindNode(links, list, S) =
                    IF ToSet(s) \cap S = {} THEN {} ELSE {Head(SelectIn(s, S))}
            /\ list \in (Queue \cup Stack) \cap made =>
                /\ IsEmpty(list) <=> s = <<>>
                /\ FrontOf(list) = IF s = <<>> THEN {} ELSE {Head(s)}
=============================================================================
