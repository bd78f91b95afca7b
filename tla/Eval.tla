------------------------------- MODULE Eval -------------------------------
(* The evaluator of vinumc/eval.c: resolve_symbols builds a tree of scopes,    *)
(* resolve_calls binds every call to what its name means there, do_calls       *)
(* writes the result.  The C functions recurse; here what is left to do is an  *)
(* agenda of frames, its head the activation that runs next.  A loop over the  *)
(* children of a node pushes a frame for each of them at once: no step changes *)
(* the child list of a node some activation is looping over.                   *)
(* Scope k is the C scope k - 1; scope 1 is the base scope, the father of      *)
(* which (-1 in C) is 0.                                                       *)
EXTENDS Ast, VutStr

CONSTANTS
  MaxNodes,    \* the nodes and the scopes the fixed-size arenas have room for:
  MaxScopes    \* one more aborts the process (arena_allocator.c:60)

VARIABLES
  scopes,   \* eval_ctx.scopes
  agenda,   \* the frames left to run, the next one first
  outs,     \* the output buffers being filled, the innermost last
  fault,    \* "none", or what stopped the process
  boundIn   \* history: the scope each call node was last resolved in

evalVars == <<scopes, agenda, outs, fault, boundIn>>

Flags  == {"FIRST_CHILD", "LAST_CHILD"}   \* every caller sets REDUCE_BLANKS
Faults == {"none", "not_a_symbol", "not_a_call", "bad_function", "bad_symbol",
           "stale_scope", "exhausted"}

\* What an extern function does with its call context
ExternKinds == {"comment", "return_arg", "eval_symbol"}

-----------------------------------------------------------------------------
\* Scopes and names

NewScope(node, father) == [father |-> father, node |-> node, childs |-> <<>>, namespace |-> <<>>]

\* Mutant of AddScopeChild: the father is not told
AddScopeUnlinked(ss, father, node) == Append(ss, NewScope(node, father))

AddScopeChild(ss, father, node) ==
  [Append(ss, NewScope(node, father)) EXCEPT ![father].childs = Append(@, Len(ss) + 1)]

AddEntry(ss, s, entry) == [ss EXCEPT ![s].namespace = Append(@, entry)]

InternalEntry(name, body) == [name |-> name, type |-> "internal", body |-> body, target |-> NoText]

NoEntry == [name |-> NoText, type |-> "none", body |-> 0, target |-> NoText]

\* The last entry of that name, for a mutant below
FindLastName(namespace, name) ==
  LET found == {i \in DOMAIN namespace : namespace[i].name = name}
  IN  IF found = {} THEN NoEntry ELSE namespace[Max(found)]

\* namespace_find_name: the first entry of that name
FindName(namespace, name) ==
  LET found == {i \in DOMAIN namespace : namespace[i].name = name}
  IN  IF found = {} THEN NoEntry ELSE namespace[Min(found)]

\* Mutant of FindSymbol: the walk does not stop at the first scope that has the name
FindSymbolFarthest(from, name) ==
  LET find[s \in 0..Len(scopes)] ==
        IF s = 0 THEN NoEntry
        ELSE LET above == find[scopes[s].father]
             IN  IF above # NoEntry THEN above ELSE FindName(scopes[s].namespace, name)
  IN  find[from]

\* find_symbol_on_scopes: the nearest scope that has the name, up the fathers
FindSymbol(from, name) ==
  LET find[s \in 0..Len(scopes)] ==
        IF s = 0 THEN NoEntry
        ELSE LET entry == FindName(scopes[s].namespace, name)
             IN  IF entry # NoEntry THEN entry ELSE find[scopes[s].father]
  IN  find[from]

\* find_scope_by_ast_node: the first scope made for the node, wherever it is
ScopesOf(node) == {s \in DOMAIN scopes : scopes[s].node = node}
\* Mutant of FindScopeByNode: a function always runs in the base scope
FindBaseScope(node) == 1

FindScopeByNode(node) == IF ScopesOf(node) = {} THEN 0 ELSE Min(ScopesOf(node))

\* find_scope_child_by_node: the last child scope made for the node
ChildScopesOf(s, node) == {t \in ToSet(scopes[s].childs) : scopes[t].node = node}
FindScopeChild(s, node) == IF ChildScopesOf(s, node) = {} THEN 0 ELSE Max(ChildScopesOf(s, node))

\* The capacity VUT_VEC_PUT has given a vector of n elements: 2, 4, 8, ...
Capacity(n) == LET c[k \in Nat] == IF k >= n THEN k ELSE c[2 * k] IN c[2]

-----------------------------------------------------------------------------
\* The agenda

Frame(op, scope, node) == [op |-> op, scope |-> scope, node |-> node, arg |-> 0, flags |-> {}]

ForEachChild(op, scope, node) ==
  [k \in DOMAIN nodes[node].childs |-> Frame(op, scope, NthChild(nodes, node, k))]

Head1 == agenda[1]
At(op) == fault = "none" /\ agenda # <<>> /\ agenda[1].op = op
Continue(frames) == agenda' = frames \o Tail(agenda)
Type(node) == nodes[node].type

\* eval_node: resolve and write a tree
EvalNode(scope, node) ==
  <<Frame("resolve_symbols", scope, node), Frame("resolve_calls", scope, node),
    Frame("do_calls", 0, node)>>

\* The process stops here
Stop(why) == fault' = why /\ UNCHANGED <<nodes, scopes, agenda, outs, boundIn>>

-----------------------------------------------------------------------------
\* resolve_symbols

\* resolve_symbols_assignment: the definition enters the scope, its body unseen
ResolveAssignment ==
  LET f == Head1 IN
  /\ At("resolve_symbols") /\ Type(f.node) = "ASSIGNMENT"
  /\ scopes' = AddEntry(scopes, f.scope,
                        InternalEntry(nodes[NthChild(nodes, f.node, 1)].text,
                                      NthChild(nodes, f.node, 2)))
  /\ Continue(<<>>)
  /\ UNCHANGED <<nodes, outs, fault, boundIn>>

\* A call opens a scope, and what is under it belongs to that scope
ResolveSymbolsOfCall ==
  LET f == Head1 IN
  /\ At("resolve_symbols") /\ Type(f.node) = "CALL"
  /\ Len(scopes) < MaxScopes
  /\ scopes' = AddScopeChild(scopes, f.scope, f.node)
  /\ Continue(ForEachChild("resolve_symbols", Len(scopes) + 1, f.node))
  /\ UNCHANGED <<nodes, outs, fault, boundIn>>

ResolveSymbolsBelow ==
  LET f == Head1 IN
  /\ At("resolve_symbols") /\ Type(f.node) \notin {"ASSIGNMENT", "CALL"}
  /\ Continue(ForEachChild("resolve_symbols", f.scope, f.node))
  /\ UNCHANGED <<nodes, scopes, outs, fault, boundIn>>

NoRoomForScope ==
  /\ At("resolve_symbols") /\ Type(Head1.node) = "CALL" /\ Len(scopes) >= MaxScopes
  /\ Stop("exhausted")

-----------------------------------------------------------------------------
\* resolve_calls

\* ARGS and PROGRAM; every other node but a call is left alone
ResolveCallsBelow ==
  LET f == Head1 IN
  /\ At("resolve_calls") /\ Type(f.node) # "CALL"
  /\ Continue(IF Type(f.node) \in {"ARGS", "PROGRAM"}
              THEN ForEachChild("resolve_calls", f.scope, f.node) ELSE <<>>)
  /\ UNCHANGED <<nodes, scopes, outs, fault, boundIn>>

\* The scope the call is resolved in, where it stands when none was made for it,
\* and the node of the call's name
CallScope(f)  == IF FindScopeChild(f.scope, f.node) = 0 THEN f.scope
                 ELSE FindScopeChild(f.scope, f.node)
CallSymbol(f) == NthChild(nodes, f.node, 1)
AtCall == At("resolve_calls") /\ Type(Head1.node) = "CALL"

\* assert(ast_get_type(ast, call_name_ast) == SYMBOL)
SymbolAssertFails ==
  /\ AtCall
  /\ Type(CallSymbol(Head1)) # "SYMBOL"
  /\ Stop("not_a_symbol")

\* A call by name is bound at once
CallByName ==
  LET f == Head1 IN
  /\ AtCall
  /\ Type(CallSymbol(f)) = "SYMBOL" /\ nodes[CallSymbol(f)].text # NoText
  /\ Continue(<<Frame("bind", CallScope(f), f.node)>>)
  /\ UNCHANGED <<nodes, scopes, outs, fault, boundIn>>

(* A call by computed name: the block that is its name is resolved in the      *)
(* call's scope and written to a buffer of its own, and the call is bound to   *)
(* what the buffer then holds.  resolve_calls_call took curr_scope, a pointer  *)
(* into the vector of scopes, before that; arg is the vector's capacity then.  *)
NameBlock(f) == NthChild(nodes, CallSymbol(f), 1)
AtComputedName ==
  AtCall /\ Type(CallSymbol(Head1)) = "SYMBOL" /\ nodes[CallSymbol(Head1)].text = NoText

CallByComputedName ==
  LET f == Head1 IN
  /\ AtComputedName
  /\ Type(NameBlock(f)) = "CALL"
  /\ outs' = Append(outs, <<>>)
  /\ Continue(<<Frame("resolve_calls", CallScope(f), NameBlock(f)),
                Frame("do_calls", 0, NameBlock(f)),
                [Frame("bind", CallScope(f), f.node) EXCEPT !.arg = Capacity(Len(scopes))]>>)
  /\ UNCHANGED <<nodes, scopes, fault, boundIn>>

\* assert(ast_get_type(ast, call) == CALL)
NameAssertFails ==
  /\ AtComputedName
  /\ Type(NameBlock(Head1)) # "CALL"
  /\ Stop("not_a_call")

-----------------------------------------------------------------------------
\* The rest of resolve_calls_call: the name is known

Computed(f)  == f.arg # 0
CallName(f)  == IF Computed(f) THEN Last(outs) ELSE nodes[CallSymbol(f)].text
Meaning(f)   == FindSymbol(f.scope, CallName(f))
HasArgs(f)   == NumChild(nodes, f.node) > 1

\* The vector of scopes was reallocated while the name was computed
Stale(f) == Computed(f) /\ Capacity(Len(scopes)) # f.arg

(* Reading the stale pointer is undefined.  The build may find the scope as it *)
(* is (realloc did not move the vector), and then goes on; or not.             *)
StaleScope ==
  /\ At("bind") /\ Stale(Head1)
  /\ Stop("stale_scope")

\* What every outcome of the lookup does
Bound(f) ==
  /\ boundIn' = [n \in DOMAIN boundIn \union {f.node} |->
                   IF n = f.node THEN f.scope ELSE boundIn[n]]
  /\ outs' = IF Computed(f) THEN Front(outs) ELSE outs
  /\ UNCHANGED <<scopes, fault>>

\* resolve_calls_descent on the call
Descent(f) == ForEachChild("resolve_calls", f.scope, f.node)

\* Mutants of BindCopy: the body itself is used; the arguments are resolved first
BindCopyNothing ==
  LET f == Head1 IN
  /\ At("bind") /\ Meaning(f).type = "internal" /\ HasArgs(f)
  /\ Continue(<<[Frame("instantiate", f.scope, f.node) EXCEPT !.arg = Meaning(f).body]>>)
  /\ UNCHANGED nodes
  /\ Bound(f)

BindCopyAfterArgs ==
  LET f == Head1 IN
  /\ At("bind") /\ Meaning(f).type = "internal" /\ HasArgs(f)
  /\ Continue(Descent(f) \o
              <<Frame("copy", 0, Meaning(f).body),
                [Frame("instantiate", f.scope, f.node) EXCEPT !.arg = Len(nodes) + 1]>>)
  /\ UNCHANGED nodes
  /\ Bound(f)

(* A definition called with arguments: its body is copied for this call.       *)
BindCopy ==
  LET f == Head1 IN
  /\ At("bind") /\ Meaning(f).type = "internal" /\ HasArgs(f)
  /\ Continue(<<Frame("copy", 0, Meaning(f).body),
                [Frame("instantiate", f.scope, f.node) EXCEPT !.arg = Len(nodes) + 1]>>)
  /\ UNCHANGED nodes
  /\ Bound(f)

\* Mutant of BindShare: the scopes of the shared body are not made for this call
BindShareUnresolved ==
  LET f    == Head1
      body == Meaning(f).body IN
  /\ At("bind") /\ Meaning(f).type = "internal" /\ ~ HasArgs(f)
  /\ nodes' = AddChild(nodes, f.node, body)
  /\ Continue(Descent(f) \o <<Frame("resolve_calls", f.scope, body)>>)
  /\ Bound(f)

(* A definition called without: its body itself becomes a child of the call,   *)
(* shared by all the calls made this way.                                      *)
BindShare ==
  LET f    == Head1
      body == Meaning(f).body IN
  /\ At("bind") /\ Meaning(f).type = "internal" /\ ~ HasArgs(f)
  /\ nodes' = AddChild(nodes, f.node, body)
  /\ Continue(<<Frame("resolve_symbols", f.scope, body)>> \o Descent(f)
              \o <<Frame("resolve_calls", f.scope, body)>>)
  /\ Bound(f)

(* An extern function: the symbol is marked, and a call without arguments is   *)
(* given an empty ARGS so that do_calls does not skip it.                      *)
BindExtern ==
  LET f == Head1 IN
  /\ At("bind") /\ Meaning(f).type \in ExternKinds
  /\ IF HasArgs(f) THEN nodes' = SetType(nodes, CallSymbol(f), "FUNCTION")
     ELSE /\ Len(nodes) < MaxNodes
          /\ nodes' = AddChild(NewNode(SetType(nodes, CallSymbol(f), "FUNCTION"), "ARGS", NoText),
                               f.node, Len(nodes) + 1)
  /\ Continue(Descent(f))
  /\ Bound(f)

BindUndefined ==
  LET f == Head1 IN
  /\ At("bind") /\ Meaning(f) = NoEntry
  /\ nodes' = SetType(nodes, CallSymbol(f), "UNDEFINED")
  /\ Continue(Descent(f))
  /\ Bound(f)

\* ast_copy_node, one node at a time; arg is the copy of the node's parent
Copy ==
  LET f == Head1 IN
  /\ At("copy")
  /\ Len(nodes) < MaxNodes
  /\ nodes' = CopyNode(nodes, f.node, f.arg)
  /\ Continue([k \in DOMAIN nodes[f.node].childs |->
                 [Frame("copy", 0, NthChild(nodes, f.node, k)) EXCEPT !.arg = Len(nodes) + 1]])
  /\ UNCHANGED <<scopes, outs, fault, boundIn>>

\* Mutant of NoRoomForNode: nothing is said when the arena is exactly full
NoRoomForNodeLate ==
  /\ \/ At("copy")
     \/ At("bind") /\ Meaning(Head1).type \in ExternKinds /\ ~ HasArgs(Head1)
  /\ Len(nodes) > MaxNodes
  /\ Stop("exhausted")

NoRoomForNode ==
  /\ \/ At("copy")
     \/ At("bind") /\ Meaning(Head1).type \in ExternKinds /\ ~ HasArgs(Head1)
  /\ Len(nodes) >= MaxNodes
  /\ Stop("exhausted")

\* Mutant of Instantiate: the calls of the copy are not resolved
InstantiateUnresolved ==
  LET f       == Head1
      allArgs == NthChild(nodes, f.node, 2)
      Filled(childs) == [k \in DOMAIN childs |->
                           IF Type(childs[k]) = "ARG_REF_ALL_ARGS" THEN allArgs ELSE childs[k]]
  IN
  /\ At("instantiate")
  /\ nodes' = SetNthChild([nodes EXCEPT ![f.arg].childs = Filled(@)], f.node, 2, f.arg)
  /\ Continue(<<Frame("resolve_symbols", f.scope, f.arg),
                Frame("resolve_calls", f.scope, NthChild(nodes, f.node, 1))>>)
  /\ UNCHANGED <<scopes, outs, fault, boundIn>>

(* The copy is complete: its direct children that refer to the arguments are   *)
(* replaced by the call's arguments, and it takes their place in the call.     *)
Instantiate ==
  LET f       == Head1
      allArgs == NthChild(nodes, f.node, 2)
      Filled(childs) == [k \in DOMAIN childs |->
                           IF Type(childs[k]) = "ARG_REF_ALL_ARGS" THEN allArgs ELSE childs[k]]
  IN
  /\ At("instantiate")
  /\ nodes' = SetNthChild([nodes EXCEPT ![f.arg].childs = Filled(@)], f.node, 2, f.arg)
  /\ Continue(<<Frame("resolve_symbols", f.scope, f.arg),
                Frame("resolve_calls", f.scope, NthChild(nodes, f.node, 1)),
                Frame("resolve_calls", f.scope, f.arg)>>)
  /\ UNCHANGED <<scopes, outs, fault, boundIn>>

-----------------------------------------------------------------------------
\* do_calls

PutText(text) == outs' = [outs EXCEPT ![Len(outs)] = @ \o text]
PutReducedText(buffers, text, flags) ==
  [buffers EXCEPT ![Len(buffers)] =
     PutBlankReduced(@, text, "FIRST_CHILD" \in flags, "LAST_CHILD" \in flags)]

EmitFrame(node, flags) == [Frame("do_calls", 0, node) EXCEPT !.flags = flags]

\* do_calls_program, for PROGRAM and ARGS
EmitChilds ==
  LET f == Head1
      n == NumChild(nodes, f.node)
      PlaceOf(k) == (IF k = 1 THEN {"FIRST_CHILD"} ELSE {})
                    \union (IF k = n THEN {"LAST_CHILD"} ELSE {})
  IN
  /\ At("do_calls") /\ Type(f.node) \in {"PROGRAM", "ARGS"}
  /\ Continue([k \in 1..n |-> EmitFrame(NthChild(nodes, f.node, k), PlaceOf(k))])
  /\ UNCHANGED <<nodes, scopes, outs, fault, boundIn>>

\* do_calls_text
EmitText ==
  LET f == Head1 IN
  /\ At("do_calls") /\ Type(f.node) \in {"TEXT", "LITERAL"}
  /\ outs' = PutReducedText(outs, nodes[f.node].text, f.flags)
  /\ Continue(<<>>)
  /\ UNCHANGED <<nodes, scopes, fault, boundIn>>

\* A definition, or an argument reference nothing has replaced, writes nothing
EmitNothing ==
  /\ At("do_calls") /\ Type(Head1.node) \in {"ASSIGNMENT", "ARG_REF_ALL_ARGS"}
  /\ Continue(<<>>)
  /\ UNCHANGED <<nodes, scopes, outs, fault, boundIn>>

AtEmitCall == At("do_calls") /\ Type(Head1.node) = "CALL"

\* Mutant of EmitUndefined: no blank between the name and the arguments
EmitUndefinedTight ==
  LET f      == Head1
      symbol == CallSymbol(f)
      args   == IF HasArgs(f) THEN nodes[NthChild(nodes, f.node, 2)].childs ELSE <<>>
  IN
  /\ AtEmitCall /\ Type(symbol) = "UNDEFINED"
  /\ PutText(<<"[">> \o nodes[symbol].text)
  /\ Continue([k \in DOMAIN args |-> EmitFrame(args[k], f.flags)] \o <<Frame("close", 0, f.node)>>)
  /\ UNCHANGED <<nodes, scopes, fault, boundIn>>

\* do_calls_undefined: the call is written back, for a later pass to define
EmitUndefined ==
  LET f      == Head1
      symbol == CallSymbol(f)
      open   == <<"[">> \o nodes[symbol].text \o (IF HasArgs(f) THEN <<" ">> ELSE <<>>)
      args   == IF HasArgs(f) THEN nodes[NthChild(nodes, f.node, 2)].childs ELSE <<>>
  IN
  /\ AtEmitCall /\ Type(symbol) = "UNDEFINED"
  /\ PutText(open)
  /\ Continue([k \in DOMAIN args |-> EmitFrame(args[k], f.flags)] \o <<Frame("close", 0, f.node)>>)
  /\ UNCHANGED <<nodes, scopes, fault, boundIn>>

CloseUndefined ==
  /\ At("close")
  /\ PutText(<<"]">>)
  /\ Continue(<<>>)
  /\ UNCHANGED <<nodes, scopes, fault, boundIn>>

(* A call bound to a definition writes its second child, the body.  One that   *)
(* is not bound, with one child and a name that is not UNDEFINED, is dropped   *)
(* by do_calls_undefined; ResolvedBeforeWritten says that there is none.       *)
EmitCall ==
  LET f == Head1 IN
  /\ AtEmitCall /\ Type(CallSymbol(f)) = "SYMBOL" /\ HasArgs(f)
  /\ Continue(<<EmitFrame(NthChild(nodes, f.node, 2), f.flags)>>)
  /\ UNCHANGED <<nodes, scopes, outs, fault, boundIn>>

\* Mutant of EmitArguments: the arguments go straight to the output
EmitArgumentsInPlace ==
  LET f == Head1 IN
  /\ AtEmitCall /\ Type(CallSymbol(f)) = "FUNCTION" /\ HasArgs(f)
  /\ Continue(<<EmitFrame(NthChild(nodes, f.node, 2), f.flags),
                [f EXCEPT !.op = "invoke"]>>)
  /\ UNCHANGED <<nodes, scopes, outs, fault, boundIn>>

\* A call of an extern function writes its arguments to a buffer first
EmitArguments ==
  LET f == Head1 IN
  /\ AtEmitCall /\ Type(CallSymbol(f)) = "FUNCTION" /\ HasArgs(f)
  /\ outs' = Append(outs, <<>>)
  /\ Continue(<<EmitFrame(NthChild(nodes, f.node, 2), f.flags),
                [f EXCEPT !.op = "invoke"]>>)
  /\ UNCHANGED <<nodes, scopes, fault, boundIn>>

\* Mutant of Callee: the lookup takes the last entry of the base scope
CalleeLast(f) == FindLastName(scopes[1].namespace, nodes[CallSymbol(f)].text)

\* The function is looked up in the base scope, by the text of the symbol node
Callee(f) == FindSymbol(1, nodes[CallSymbol(f)].text)
\* call_ctx.scope_id
RunScope(f) == FindScopeByNode(f.node)
\* assert(curr_scope_id != -1)
AtInvoke == At("invoke") /\ RunScope(Head1) # 0

BadFunction ==
  /\ AtInvoke /\ Callee(Head1).type \notin ExternKinds
  /\ Stop("bad_function")

\* The VSL's comment returns no text
InvokeComment ==
  /\ AtInvoke /\ Callee(Head1).type = "comment"
  /\ outs' = Front(outs)
  /\ Continue(<<>>)
  /\ UNCHANGED <<nodes, scopes, fault, boundIn>>

\* A function that returns ctx_get_arg
InvokeReturnArg ==
  /\ AtInvoke /\ Callee(Head1).type = "return_arg"
  /\ outs' = PutReducedText(Front(outs), Last(outs), Flags)
  /\ Continue(<<>>)
  /\ UNCHANGED <<nodes, scopes, fault, boundIn>>

(* A function that returns ctx_eval_symbol of a name: the definition is        *)
(* evaluated (eval_node) in the scope of the call context.                     *)
Evaluated(f) == FindSymbol(RunScope(f), Callee(f).target)

InvokeEvalSymbol ==
  LET f    == Head1
      body == Evaluated(f).body IN
  /\ AtInvoke /\ Callee(f).type = "eval_symbol"
  /\ Evaluated(f).type = "internal"
  /\ outs' = Append(Front(outs), <<>>)
  /\ Continue(EvalNode(RunScope(f), body) \o <<Frame("returned", 0, f.node)>>)
  /\ UNCHANGED <<nodes, scopes, fault, boundIn>>

(* ctx_eval_symbol does not look at what it found: the NULL of an undefined    *)
(* name is dereferenced, a function pointer is taken for a node.               *)
BadSymbol ==
  /\ AtInvoke /\ Callee(Head1).type = "eval_symbol"
  /\ Evaluated(Head1).type # "internal"
  /\ Stop("bad_symbol")

PutReturned ==
  /\ At("returned")
  /\ outs' = PutReducedText(Front(outs), Last(outs), Flags)
  /\ Continue(<<>>)
  /\ UNCHANGED <<nodes, scopes, fault, boundIn>>

-----------------------------------------------------------------------------
(* eval: the base scope, with the entries load_libs registers in it before the *)
(* program is looked at, and eval_node on the program.                         *)
StartEval(library) ==
  /\ scopes' = <<[NewScope(1, 0) EXCEPT !.namespace = library]>>
  /\ agenda' = EvalNode(1, 1)
  /\ outs' = <<<<>>>>
  /\ UNCHANGED <<fault, boundIn>>

ResolveStep ==
  \/ ResolveAssignment \/ ResolveSymbolsOfCall \/ ResolveSymbolsBelow \/ NoRoomForScope
  \/ ResolveCallsBelow \/ SymbolAssertFails \/ CallByName \/ CallByComputedName
  \/ NameAssertFails \/ StaleScope \/ BindCopy \/ BindShare \/ BindExtern
  \/ BindUndefined \/ Copy \/ NoRoomForNode \/ Instantiate

EmitStep ==
  \/ EmitChilds \/ EmitText \/ EmitNothing \/ EmitUndefined \/ CloseUndefined
  \/ EmitCall \/ EmitArguments \/ BadFunction \/ InvokeComment \/ InvokeReturnArg
  \/ InvokeEvalSymbol \/ BadSymbol \/ PutReturned

EvalStep == ResolveStep \/ EmitStep

Stopped == fault # "none" \/ agenda = <<>>
=============================================================================
