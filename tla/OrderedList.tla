---------------------------- MODULE OrderedList -----------------------------
(***************************************************************************)
(* What the red-black tree of rb_tree promises to the scheduler, with its   *)
(* links and colours left out: a list of nodes in the order of their keys,  *)
(* where a node goes behind those with the same key.  The scheduler takes   *)
(* the head of the list, the leftmost node, or any node it kept.            *)
(***************************************************************************)
EXTENDS Integers, SequencesExt

CONSTANTS
  Nodes,    (* nodes that can be in the list *)
  Key(_)    (* the key of a node             *)

VARIABLE list

Init == list = <<>>

(* A node goes behind the nodes whose keys are less or equal. *)
Inserted(l, n) ==
  InsertAt(l, Cardinality({ i \in DOMAIN l : Key(l[i]) <= Key(n) }) + 1, n)

Insertions(l) == { Inserted(l, n) : n \in Nodes \ Range(l) }
Deletions(l) == { RemoveAt(l, i) : i \in DOMAIN l }

Insert == list' \in Insertions(list)
Delete == list' \in Deletions(list)

Next == Delete \/ Insert

Spec == Init /\ [][Next]_list
=============================================================================
