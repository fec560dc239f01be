------------------------------- MODULE Scopes -------------------------------
(***************************************************************************)
(* Scope objects (setup_call_env, call, var_dec and the scans of src_lst   *)
(* in eval.c; fh_get_prop_rec and fh_set_rec in props.c).                  *)
(*                                                                         *)
(* A scope is an object whose parent is the scope of the CALLER.  What     *)
(* makes a closure is object.scope of a function that another function has *)
(* returned: its calls get that scope instead of a new one, all of them    *)
(* the same, and each call links it to its own caller.  And what has been  *)
(* hoisted is kept in the syntax tree: a var declaration declares only the *)
(* first time and is an assignment later, to the nearest scope that has    *)
(* the name; inner functions are declared from where the cursor of the     *)
(* statement list stands.                                                  *)
(*                                                                         *)
(* A function node has at most one parameter, one variable, and one inner  *)
(* function.  Parameters and variables are properties of the scope: they   *)
(* may have the same name, and names of other nodes' ones.  Functions,     *)
(* this and arguments have other names.  Code assigns to its own node's    *)
(* variable only.                                                          *)
(***************************************************************************)
EXTENDS Integers, Sequences, FiniteSets

CONSTANTS
  Nodes,       (* function expressions of the program                      *)
  Main,        (* those declared at the top level                          *)
  Inner,       (* the inner function declaration of a node, or NoNode      *)
  NoNode,
  Param,       (* the name of a node's parameter, or NoParam (e1 is NULL)  *)
  NoParam,
  Initialised, (* nodes whose variable has an initialiser: var v = e       *)
  Variable,    (* the name of a node's variable                            *)
  ScopeIds,    (* bound: scope objects that are in use at a time           *)
  Global,      (* the one of them that is the global object                *)
  None,        (* NULL, of a parent or an object.scope                     *)
  MaxClosures, (* bound: functions with a scope that a script holds        *)
  MaxDepth     (* bound: calls that are open at a time                     *)

ASSUME ScopesAssumption ==
  /\ NoNode \notin Nodes
  /\ Main \subseteq Nodes /\ Initialised \subseteq Nodes
  /\ Inner \in [Nodes -> Nodes \cup {NoNode}]
  /\ Global \in ScopeIds /\ None \notin ScopeIds /\ IsFiniteSet(ScopeIds)
  /\ MaxClosures \in Nat /\ MaxDepth \in Nat

VARIABLES
  scopes,     (* scope objects; those that nothing holds are blank         *)
  functions,  (* function objects the script holds: node and object.scope, *)
              (* one for each of these (a bound)                           *)
  stack,      (* calls, the innermost last                                 *)
  hoisted,    (* nodes whose variable declaration has node->val set        *)
  passed,     (* nodes whose body's cursor is behind the inner function    *)
  reentered,  (* history: a call was given a scope that a call was using   *)
  status      (* "running", or "hangs" in a lookup that never ends         *)

vars == <<scopes, functions, stack, hoisted, passed, reentered, status>>

Unbound == -1   (* no property of that name *)
Other == 0

HasParam == {n \in Nodes : Param[n] # NoParam}

Names == {Variable[n] : n \in Nodes} \cup {Param[n] : n \in HasParam}

(* What parameters and variables hold: a value is named by the depth of    *)
(* the open call that was given it or has stored it.  Undefined, and what  *)
(* calls that are over have left, is any Other.                            *)
Stored == -1 .. MaxDepth

ScopeObject ==
  [parent   : ScopeIds \cup {None},
   props    : [Names -> Stored],
   declared : SUBSET Nodes]      (* nodes whose function object it names   *)

(* A call.  History: shared, that a later call was given the same scope;   *)
(* stored, that its code has stored a value in its variable; overwritten,  *)
(* that its parameter is its variable.  A later call that stores outside   *)
(* in a variable of that name makes the one FALSE and the other TRUE.      *)
Activation ==
  [node : Nodes, scope : ScopeIds, shared : BOOLEAN, stored : BOOLEAN, overwritten : BOOLEAN]

NewScope == [parent |-> None, props |-> [x \in Names |-> Unbound], declared |-> {}]

NewFunction(n) == [node |-> n, scope |-> None]

Depth == Len(stack)
Top == stack[Depth]

(* The scope that code runs in. *)
Ctx == IF stack = <<>> THEN Global ELSE Top.scope

Init ==
  /\ scopes = [s \in ScopeIds |->
                IF s = Global THEN [NewScope EXCEPT !.declared = Main] ELSE NewScope]
  /\ functions = {NewFunction(n) : n \in Main}
  /\ stack = <<>>
  /\ hoisted = {}
  /\ passed = {}
  /\ reentered = FALSE
  /\ status = "running"

-----------------------------------------------------------------------------
(* Lookups.                                                                *)

(* Where a lookup that starts at scope s stands when it has followed as    *)
(* many parents as there are scopes: fh_get_prop_rec stops at the first    *)
(* scope that is one of those that have the name, or behind the last.      *)
Reached(ss, s, having) ==
  LET At[k \in 0 .. Cardinality(ScopeIds)] ==
        IF k = 0 THEN s
        ELSE LET p == At[k - 1]
             IN  IF p \in having \/ p = None THEN p ELSE ss[p].parent
  IN  At[Cardinality(ScopeIds)]

Having(ss, x) == {s \in DOMAIN ss : ss[s].props[x] # Unbound}

(* If it has not stopped by then it goes round in a cycle of parents.      *)
Ends(ss, s, having) == Reached(ss, s, having) \in having \cup {None}

(* What a lookup of x that ends finds. *)
Lookup(ss, s, x) ==
  LET found == Reached(ss, s, Having(ss, x))
  IN  IF found = None THEN Unbound ELSE ss[found].props[x]

(* fh_set_rec: the nearest scope that has the name, else the first one.    *)
SetRec(ss, s, x, v) ==
  LET found == Reached(ss, s, Having(ss, x))
  IN  [ss EXCEPT ![IF found = None THEN s ELSE found].props[x] = v]

Hang ==
  /\ status' = "hangs"
  /\ UNCHANGED <<scopes, functions, stack, hoisted, passed>>

(* A name that no scope but the global object has, of a built-in function  *)
(* for instance.                                                           *)
LookupHangs ==
  /\ status = "running"
  /\ ~ Ends(scopes, Ctx, {Global})
  /\ Hang /\ UNCHANGED reentered

-----------------------------------------------------------------------------
(* Calls.                                                                  *)

(* The scopes that functions or calls hold, and all their parents.         *)
Held(ss, fs, calls) ==
  {s \in DOMAIN ss :
     \E r \in {Global} \cup {f.scope : f \in fs} \cup {calls[d].scope : d \in DOMAIN calls} :
       s = r \/ Reached(ss, r, {s}) = s}

(* The scope of a call of function object f: a new one or the closure's.   *)
ScopesFor(f) ==
  IF f.scope = None THEN ScopeIds \ Held(scopes, functions, stack) ELSE {f.scope}

(* What the scope of a call of n holds then. *)
WithParam(props, n) ==
  IF n \in HasParam THEN [props EXCEPT ![Param[n]] = Depth + 1] ELSE props

(* A mutant: the parent is the scope that the function was returned from.  *)
MutCallEnv(f, s) ==
  [scopes EXCEPT ![s].parent = IF f.scope = None THEN Ctx ELSE f.scope,
                 ![s].props = WithParam(@, f.node)]

(* A mutant: the parameter is set by fh_set_rec.                           *)
MutCallEnvRec(f, s) ==
  LET linked == [scopes EXCEPT ![s].parent = Ctx]
  IN  IF f.node \in HasParam THEN SetRec(linked, s, Param[f.node], Depth + 1) ELSE linked

(* setup_call_env *)
CallEnv(f, s) ==
  [scopes EXCEPT ![s].parent = Ctx, ![s].props = WithParam(@, f.node)]

(* A mutant: a call rewinds nothing.                                       *)
MutRewound(n) == passed

(* call() rewinds the node and, if it has a parameter, its lists.          *)
Rewound(n) == IF n \in HasParam THEN passed \ {n} ELSE passed

(* func_dec_scan finds the inner function, starting from the cursor.       *)
Scanned(n) == Inner[n] # NoNode /\ n \notin Rewound(n)

(* A mutant: declaring is an assignment, too.                              *)
MutVarScan(ss, s, n) ==
  IF n \notin hoisted THEN SetRec(ss, s, Variable[n], Other)
  ELSE IF n \in Initialised THEN SetRec(ss, s, Variable[n], Depth + 1)
  ELSE ss

(* var_dec_scan: the declaration declares once, even if the parameter has  *)
(* that name; then, if it has an initialiser, it evaluates and assigns it  *)
(* already here, before any statement of the function.                     *)
VarScan(ss, s, n) ==
  IF n \notin hoisted THEN [ss EXCEPT ![s].props[Variable[n]] = Other]
  ELSE IF n \in Initialised THEN SetRec(ss, s, Variable[n], Depth + 1)
  ELSE ss

(* A call of n in scope s has no variable there: it stores in a caller's.  *)
Outside(ss, s, n) == n \in hoisted /\ ss[s].props[Variable[n]] = Unbound

(* History: the calls that were open when node n was given scope s.        *)
Disturbed(ss, s, n) ==
  [d \in DOMAIN stack |->
     LET m == stack[d].node
     IN  [stack[d] EXCEPT
            !.shared = @ \/ stack[d].scope = s,
            !.stored = @ /\ ~ (Outside(ss, s, n) /\ Variable[m] = Variable[n]),
            !.overwritten = @ \/ (Outside(ss, s, n) /\ Param[m] = Variable[n])]]

Call(f, s) ==
  LET n == f.node
      env == CallEnv(f, s)
      declared == IF Scanned(n) THEN [env EXCEPT ![s].declared = @ \cup {Inner[n]}] ELSE env
      assigns == n \in hoisted /\ n \in Initialised
  IN  /\ status = "running"
      /\ Depth < MaxDepth
      /\ reentered' = (reentered \/ \E d \in DOMAIN stack : stack[d].scope = s)
      /\ IF assigns /\ ~ Ends(env, s, Having(env, Variable[n]))
           THEN Hang
           ELSE /\ scopes' = VarScan(declared, s, n)
                /\ functions' = IF Scanned(n) THEN functions \cup {NewFunction(Inner[n])}
                                ELSE functions
                /\ stack' = Append(Disturbed(env, s, n),
                              [node |-> n, scope |-> s, shared |-> FALSE, stored |-> assigns,
                               overwritten |-> Param[n] = Variable[n]])
                /\ hoisted' = hoisted \cup {n}
                /\ passed' = passed \ {n}
                /\ UNCHANGED status

(* The function's statements: its variable is set, by the var statement or *)
(* by an assignment.                                                       *)
Assign ==
  /\ status = "running"
  /\ stack # <<>>
  /\ IF Ends(scopes, Ctx, Having(scopes, Variable[Top.node]))
       THEN /\ scopes' = SetRec(scopes, Ctx, Variable[Top.node], Depth)
            /\ stack' = [stack EXCEPT ![Depth].stored = TRUE]
            /\ UNCHANGED <<functions, hoisted, passed, reentered, status>>
       ELSE Hang /\ UNCHANGED reentered

(* stmt_lst comes past the inner function declaration. *)
PassInner ==
  /\ status = "running"
  /\ stack # <<>>
  /\ Inner[Top.node] # NoNode
  /\ passed' = passed \cup {Top.node}
  /\ UNCHANGED <<scopes, functions, stack, hoisted, reentered, status>>

(* The innermost call is over: its values are Other's, and scopes that     *)
(* nothing holds are free.                                                 *)
Pop(fs) ==
  LET Older(v) == IF v = Depth THEN Other ELSE v
      calls == SubSeq(stack, 1, Depth - 1)
  IN  /\ status = "running"
      /\ stack # <<>>
      /\ functions' = fs
      /\ stack' = calls
      /\ scopes' = [s \in DOMAIN scopes |->
           IF s \in Held(scopes, fs, calls)
             THEN [scopes[s] EXCEPT !.props = [x \in Names |-> Older(@[x])]]
             ELSE NewScope]
      /\ UNCHANGED <<hoisted, passed, reentered, status>>

(* return, of no function; or a throw leaves the function. *)
Return == Pop(functions)

(* return_stmt makes a closure of any function it returns, its own inner   *)
(* function or another.                                                    *)
ReturnFunction(f) ==
  /\ Cardinality({g \in functions \ {f} : g.scope # None}) < MaxClosures
  /\ Pop((functions \ {f}) \cup {[f EXCEPT !.scope = Ctx]})

Next ==
  \/ \E f \in functions : \E s \in ScopesFor(f) : Call(f, s)
  \/ Assign \/ PassInner \/ Return \/ LookupHangs
  \/ \E f \in functions : ReturnFunction(f)

Spec == Init /\ [][Next]_vars

-----------------------------------------------------------------------------
(* Properties.                                                             *)

(* Lookups end, however closures are made, returned, stored and called     *)
(* from one another's scopes, unless a closure has been called while a     *)
(* call still used its scope: then that scope may be its own ancestor.     *)
LookupsEnd == status = "hangs" => reentered

(* A function sees its own argument in its parameter, whatever it calls    *)
(* and whatever names these functions' parameters and variables have,      *)
(* unless a later call has been given its scope, or one stores outside in  *)
(* a variable of that name: the function itself, if that is its variable,  *)
(* or one whose declaration has been hoisted before (eval.c:419, 424).     *)
ParamsAreArguments ==
  \A d \in 1 .. Depth :
    LET n == stack[d].node
    IN  n \in HasParam /\ ~ stack[d].shared /\ ~ stack[d].overwritten
          => scopes[stack[d].scope].props[Param[n]] = d

(* A function finds in its variable what it has stored there, wherever     *)
(* that is, unless it has called one that has been called before, with a   *)
(* variable of that name which its scope has not.                          *)
VariablesKeepValues ==
  \A d \in 1 .. Depth :
    stack[d].stored /\ ~ reentered
      => Lookup(scopes, stack[d].scope, Variable[stack[d].node]) = d

(* Every call of a function with a parameter has its inner function.       *)
InnerDeclared ==
  \A d \in 1 .. Depth :
    stack[d].node \in HasParam /\ Inner[stack[d].node] # NoNode
      => Inner[stack[d].node] \in scopes[stack[d].scope].declared
=============================================================================
