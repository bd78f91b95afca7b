------------------------------- MODULE Ast -------------------------------
(* The node store of vinumc/ast.c.  A tree is a sequence of nodes; a node is   *)
(* known by its index, so the model's node k is the C ast_node_id_t k - 1 and *)
(* node 1 is the PROGRAM the parser makes first.  Nodes are never removed.    *)
EXTENDS Naturals, Sequences

VARIABLE nodes   \* the nodes, by the scanner, the parser and the evaluator in turn

NodeTypes == {"PROGRAM", "ASSIGNMENT", "CALL", "ARGS", "ARG_REF_ALL_ARGS",
              "SYMBOL", "FUNCTION", "UNDEFINED", "TEXT", "LITERAL"}

(* A text is the sequence of its characters; <<>> is also the NULL text of     *)
(* the nodes ast_node_new_nvl makes: no name has an empty text.               *)
NoText == <<>>

\* ast_node_new, through ast_add_node; the new id is Len(ns) + 1
NewNode(ns, type, text) == Append(ns, [type |-> type, text |-> text, childs |-> <<>>])

NumChild(ns, id)    == Len(ns[id].childs)
NthChild(ns, id, n) == ns[id].childs[n]

AddChild(ns, parent, child) == [ns EXCEPT ![parent].childs = Append(@, child)]
SetNthChild(ns, parent, n, child) == [ns EXCEPT ![parent].childs[n] = child]
SetType(ns, id, type) == [ns EXCEPT ![id].type = type]
SetText(ns, id, text) == [ns EXCEPT ![id].text = text]

\* Mutant of CopyNode: the parent is given the id the next node will have
CopyNodeNextId(ns, id, parent) ==
  LET copied == NewNode(ns, ns[id].type, ns[id].text)
  IN  IF parent = 0 THEN copied ELSE AddChild(copied, parent, Len(copied) + 1)

(* One call of ast_copy_node: the node without its children, appended, and     *)
(* made the last child of parent (0 for the root of the copy).                 *)
CopyNode(ns, id, parent) ==
  LET copied == NewNode(ns, ns[id].type, ns[id].text)
  IN  IF parent = 0 THEN copied ELSE AddChild(copied, parent, Len(copied))
=============================================================================
