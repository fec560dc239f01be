# Flathead in TLA+

Flathead is a JavaScript interpreter in C: a flex/bison front end, an evaluator that walks the
AST, a slotted heap with a mark-and-sweep collector, and the built-in objects of ECMAScript 5.
This directory holds models of its parts, the configurations that model-check them with TLC and
the theorems about them that TLAPS proves.  Paths below are relative to `src/` of the repository
(`gc.c` is `src/gc.c`, `lib/Array.c` is `src/runtime/lib/Array.c`).

## The system

The interpreter is one process with one thread.  There are no messages and nothing persists; the
hard behaviour comes from re-entrancy: any evaluation may call script code, any allocation may
start a collection, any error may `longjmp` out of a dozen C functions that keep state in locals.

| Component | State | Operations | What makes it hard |
|---|---|---|---|
| Arena and collector (`gc.c`, constructors in `flathead.c`, `lib/gc.c`) | `gc_arena` (freelist, used_slots, slots), marks, `fh->gc_state` | `fh_malloc`, `fh_gc`, `fh_gc_mark`, `fh_gc_sweep`, `gc.run()`; constructors | collections in the middle of C functions, cyclic graphs, sweeps that stop early, marks carried over |
| Call stack and exceptions (`flathead.c`, `eval.c`, `grammar.y`) | `fh->callstack` (linked `eval_state`s), the C stack they point into, `opt_interactive` | push, pop, call, `try_stmt`, `throw_stmt`, `fh_throw`, `fh_eval_string`, REPL loop | two stacks that must agree; frames popped by number, not by owner; non-local exits |
| Evaluator: statements (`eval.c`) | contexts, the signal flag of values | statements, expressions, loops, switch | signals ride on shared values |
| Evaluator: argument lists and literals (`eval.c`, `nodes.c`, `args.c`) | `visited` flags, `object.instance` | `build_args`, `arr_lit`, `call`, `node_pop`, `node_rewind` | iteration cursors stored in the shared AST, re-entered or left half way by what an element evaluates |
| Evaluator: scopes (`eval.c`, `props.c`) | scope objects and their parents, `object.scope`, `node->val` | `setup_call_env`, `func_dec_scan`, `var_dec_scan`, `return_stmt`, lookups | dynamic parents, scopes shared by the calls of a closure, hoisting remembered in the AST |
| Properties (`props.c`) | `map`, flags, `proto`, `object.parent` | get, set, delete, through prototypes or scopes | lookups with side effects (`object.instance`) |
| Conversions and operators (`flathead.c`, `eval.c`) | the flags of a number, the two lengths of a string | `fh_to_*`, arithmetic, comparison | integer widths, signs, NaN as a flag beside the double |
| Object, Function, Boolean built-ins | extensible, property flags, bound this | seal, freeze, bind, call, apply | flags nobody checks |
| Array built-ins | `map`, `object.length` | sort, splice, shift, iteration | holes, empty arrays, callbacks that change the array |
| String, RegExp built-ins | `lastIndex`, the text of a string | indexOf, split, slice, exec, replace | search and index arithmetic, loops around matches |
| Date built-ins | the date's primitive | constructors, setters, printing, parsing | day and month boundaries, carries, changes of the clock |
| Number, Math built-ins | none | abs, floor, min, max | NaN and infinities |
| Globals and bootstrap (`runtime.c`) | `fh->global`, `script_name` | eval, load, parseInt | settings saved in locals |
| Error, console, debug, options, lexer, parser, uthash | - | - | output, generated or vendored code |

How they interact.  Everything allocates through `fh_malloc`.  The collector reads what the
evaluator and `props.c` have stored: values, and the `scope` of every frame on `fh->callstack`.
`fh_throw` reads `fh->callstack` and jumps into `try_stmt`.  `eval`, `load` and `new Function`
re-enter the parser and the evaluator through `fh_eval_string`.  Native functions call script
functions back through `fh_call`.

What correctness means for each:

- *Arena*: nothing reachable is freed, in any order of allocation, collection and `gc.run()`;
  counter and freelist agree; marking terminates on cycles; "out of memory" is true when said.
- *Call stack*: a pop never frees a frame still in use; a throw reaches the innermost open `try`;
  a catch block runs at most once, a finally block always; errors end a program, or a line of the
  REPL, as `main` says.
- *Evaluator*: a function's activation is unaffected by others of the same function, except through
  the objects they share: its statements and arguments are evaluated once and in order, its parameters
  and variables are its own, lookups end.
- *Properties and Object built-ins*: chains end; sealed and frozen objects do not change.
- *Built-ins*: each equals its definition in the language for every small input, and terminates.

## Modules

| Module | Content |
|---|---|
| `Reachability` | reachability in a graph, as a least closed set (no recursion, so that TLAPS can use it) |
| `Collector` | abstract: a slot is handed out or taken back, only garbage is taken back, giving up means nothing is garbage |
| `Heap` | the arena, the collector and the mutator; implements `Collector` |
| `HeapProofs` | theorems about `Heap` |
| `Unwinding` | abstract: a throw goes to the innermost open try body or is reported |
| `Callstack` | frames, activations, throws, evals, the REPL; implements `Unwinding` |
| `CallstackProofs` | theorems about `Callstack`, and that it implements `Unwinding` |
| `Statements` | statement lists, compound statements, calls and returns, with the cursors in the shared syntax tree and the flag on values |
| `StatementsProofs` | theorems about `Statements` |
| `Arguments`, `MCArguments` | argument lists and array literals under re-entry and throws, the instance of a method |
| `ArgumentsProofs` | theorems about `Arguments` |
| `Scopes`, `MCScopes` | scope objects, closures, hoisting, lookups along callers |
| `ScopesProofs` | theorems about `Scopes` |
| `DataLemmas` | what the proofs share: facts about sequences, about how often a value occurs in one, about functions that are defined by recursion, and about division |
| `Lists` | abstract: an array is a list of values, and each method does to it what its name says |
| `Arrays` | property map, length and "length" property of one array, the methods of `lib/Array.c`, script assignments, iterations; implements `Lists` |
| `ArraysProofs` | theorems about `Arrays`, and that it implements `Lists` |
| `Objects` | the creation of objects and functions, `new` and the prototypes it gives, the property "prototype" under stores, definitions, deletions and seals |
| `Values` | primitive values, conversions, operators, Math's comparisons |
| `Strings` | extends `Values`: string methods, regular expressions, `parseInt` |
| `Primitives`, `MCPrimitives` | a script that applies all of these to a variable |
| `Calendar` | the date arithmetic of `lib/Date.c` |
| `Dates`, `MCDates` | extends `Calendar`: a Date object, its methods, printing and parsing, zones |
| `BuiltinsProofs` | theorems about `Objects`, about `Calendar` and `Dates`, and about `Values`, `Strings` and `Primitives` |

The modules do not share variables.  What one leaves arbitrary is what another determines: `Callstack`
and `Arguments` let a script do anything, `Statements` says in which order its statements come, `Heap` is
under all of them, and `Scopes` treats throws as returns since both end a call for a scope.

Operators whose names start with `Mut` are wrong variants of the definition that follows them,
kept so that each property can be seen to fail on one.  No action uses them.

### Heap

`freelist`, `used_slots` and `marked` are the fields of `gc_arena` and `js_val`.  `refs[s]` are
the pointers in a value's `proto` and `map` (a self-reference is flagged circular and left out, as
`fh_gc_mark` does), `links[s]` those of its `object` struct, which matter only while the type is
`T_OBJECT` (`isObj`).  Constructors differ in what they reset: `fh_new_object` clears the struct,
`fh_new_val` alone (regexps, errors) leaves that of the slot's last occupant in place, kind `raw`.
The freed slot's contents stay as they are: `fh_gc_free_val` clears a copy.  Slot 0 is the global
object; with it, the runtime library as a whole.

`fh_malloc` is three actions, because a collection lies between its two attempts: `NewVal` (a slot
is free), `NewValCollects` (none is, `fh_gc` starts), then `NewValRetries` or `OutOfMemory`.
`fh_gc` is `StartGC`, one `MarkVal` per call of `fh_gc_mark`, `StartSweep`, one `SweepSlot` per
iteration, `StopGC`.  `pending` is the set of pointers still to be followed; the C code follows
them depth first, the model in any order, which covers it.  `held` is what C locals, argument lists
and the frames' `ctx` and `this` point at: the mutator can use it and the collector does not see it.
`SetProp`, `DelProp` and `SetLink` are the stores; `PushState`, `EnterScope` and `PopState` the
frames as the collector sees them.

Only the code in `fh_gc` and `fh_malloc` has fairness, `WF_vars(GCStep)` and `WF_vars(MallocStep)`:
once called they run to their end, since nothing in them blocks and there is no other thread.
Nothing is assumed of scripts.

### Callstack

`callstack` is `fh->callstack` with its head last.  `cstack` is the part of the C stack that counts:
open calls, try statements (in the body, the catch or the finally block), throws whose operand is
being evaluated, `fh_eval_string`s, and error reports, during which a script's `toString` may run.
A frame's `act` is the activation whose `jmp_buf` and local pointer it is, 0 when that C function
has returned.  A script may do anything at any time that the open activations allow, so the model
needs no program text: the evaluator's recursion is the nesting of `cstack`.

`fh_pop_state` takes the head off, whoever pushed it; `try_stmt` does not pop at all; a throw pops
down to the handler it finds.  `JumpTo` has three outcomes: the handler's function is alive and has
a catch block; it is alive and has none (`node->e2` is NULL: the process crashes); it has returned,
which is undefined behaviour and ends the modelled execution with status `undefined`.  Errors thrown
with no state, or with one that has not been pushed, have no call stack to search (`ThrowDetached`).
A line of the REPL that ends is no action: the next line runs in the state the last one left.

### Statements

A program is drawn in `Init`: a main list, a function `f`, one block inside `f` and a switch with two
clauses, each with statements of the kinds the configuration allows; conditions turn out either way.
`cursor[l]` counts the elements of list `l` whose `visited` flag is set: `node_pop` sets them in
order, `node_rewind` clears all of them, so that the count is all there is to know.  `cstack`
holds the C activations (`stmt_lst`, `call_exp`, `while_stmt`, `try_stmt`, `switch_stmt`), and `result` is the
value that is being returned to the innermost, or `NULL` while evaluation goes down.  A value is new,
new and flagged, or the one that `x` holds, whose flag is `xflag`: `return x` flags the value itself.
`for_stmt` behaves as `while_stmt` does.  Throws are left to `Callstack`.

The whole evaluator is under `WF_vars(Next)`: it waits for nothing.

### Arrays

`map` is the part of a property map whose keys are indices, a function from the indices that are there;
`length` is `object.length`, which the methods use, and `shown` the property of that name, which a
script reads.  A hole, an index below the length that is not in `map`, comes from `new Array(n)`,
`delete` and an assignment beyond the end; `fh_get` reads it as undefined, and methods that rebuild the
map with what they read store undefined in it.  Methods that ask for the property itself do something
else at a hole: `sort` looks again for ever, `shift` follows NULL.  `delete` follows the NULL property of any index that is
not there, inside the length or not.  `reverse` of an empty array counts down from 2^64 - 1, and so does `splice` from a `howMany`
that was negative, inside the array.  `status` keeps the name of the call that did not come back.

A number that becomes an `unsigned long` is its word (`Words`): a negative one becomes 0 or wraps around to
`WordMax`, which stands for 2^64 - 1 and the words near it; C leaves that open, builds for x86-64 wrap.  An argument of `splice` that is missing
is any word, for its number member is unset.  `assign_exp` reads a key with `strtod`: `AssignKey` is an assignment to a
key that is a number but spells no index (`"1.0"`, `""`, `"-1"`), which changes the length and puts nothing among the elements.
For `-1` the length becomes the successor of 2^64 - 1, which is 0, whatever elements there are.  The variable `stray` records that this,
or an increment beyond the end (`Increment`, `put` does not look at the length), has happened to the array: from then on it may have elements beyond
its length, and `Lists` promises nothing (status `broken`).

Each method is one action: it calls no script, but for `sort` with a comparison function, whose
answers are arbitrary (`cmp_js` reads a member that nothing sets) and which is assumed to leave the array
alone.  An iteration is `Begin` and one `MoveOn` per callback, with any other action in between;
`iter.len` is the local `len` of the C function.  `slice`, `concat`, `indexOf` and `lastIndexOf` change
nothing: they are operators, and `QueriesAgree` compares them with their definitions in every reachable
array.  The refinement mapping of `Lists` is `List`, what a script reads from 0 to the length.

### Objects

Objects are numbered in the order in which `fh_new_object` makes them; 0 and 1 are `fh->object_proto` and
`fh->function_proto`, and the other built-ins, whose prototypes never change, are left out.  `proto` is
`js_val.proto`; NULL stands for a null pointer and for any value that is no object.  `prop` is a
function's property "prototype": its value, and its configurable flag, the only one that code reads
(`delete_op`).  `new_exp` is `BeginNew`, which makes the object and reads the property, and `EndNew`, with
whatever the constructor does in between; `news` holds the locals `obj` and `proto` of the open ones.
`sealed` is a history variable: the functions that were sealed or frozen while they had the property and
have not been redefined since.  `Returns` says whether constructors return objects older than
their own.

### Arguments

`cursor[l]` counts the visited elements of list `l`, as in `Statements`.  `stack` has the evaluations of
lists (`build_args` or the loop of `arr_lit`) and the functions that run; `item` is the element being evaluated,
`got` the `js_args` cells filled so far.  A function or an element may do anything: look a method up, begin
another evaluation of any list, the same included, throw to any running function (where a `try` may be) or to the
top level.  `call_exp` looks its method up first, then evaluates the arguments, then reads
`object.instance`: `BeginCall`, `PopElement` and `EndElement` for each, `Invoke`.  `build_args` calls
itself for the rest of the list and rewinds it in each of its activations; the model rewinds once, in `Invoke`, since
nothing runs between the first rewind and the last.  `torn` and the fields `nested` and `relooked` are
history.

### Scopes

`scopes[s]` is a scope object: its parent, its properties, which are the parameters and variables it has, and the inner
functions.  A parameter may have the name of a variable, of the same function or of another: then they are one property, and
declaring the variable resets the parameter, and a store that looks a variable up may find a parameter.  A call
(`Call`) does what `call` and `src_lst` do before the first statement: take a scope, which is the closure's own if
`object.scope` is set, link it to the caller's, set the parameter, rewind if there is one, scan for
functions and for variables.  `hoisted` is `node->val` of the variable declarations, `passed` tells that the
cursor of a body's list stands behind its inner function, which is where `func_dec_scan` would start.  Values
are named by the depth of the call that stored them, so that a property can say whose value a
variable has.  A lookup that comes back to a scope where it has been never ends (`status` "hangs");
`Reached` follows as many parents as there are scopes, which is as far as a lookup without a cycle can go.
Scopes that nothing holds are blank and can be taken again, as the collector would allow.
`shared`, `stored` and `overwritten` are the history of a call: whether a later call was given its scope, whether its variable
and its parameter are disclaimed because a later call stores outside its own scope in a variable of that name.

### Values, Strings, Primitives

A number is a double and its flag, as in `js_number`; doubles are whole numbers, the infinities and C's NaN, and
C's arithmetic on them (`Sum2`, `Times`, ...) is written down separately from the operators of `eval.c`, which add
their own cases before they use it.  A string has its text, `string.length` (`length`) and the property of that name
(`shown`).  A regular expression is a set of words, of which PCRE finds the longest at the first place
that has one.  Loops around matches count their rounds and stop with `Hung` after more than the text can have.
A `js_val` made of a NULL text is a crash.  `two32` stands for 2^32.  `Primitives` lets a script apply operators,
conversions and methods to a variable `v` and to the regular expression `re` again and again; texts and numbers beyond
`MaxText` and `MaxNumber` are not assigned.

### Calendar, Dates

Operators have the names of the C functions.  Times are whole numbers of milliseconds; the radices of the clock are
constants.  C's `/` and `fmod` round towards zero and `floor` down; the model keeps them apart (`Half`, `fmod`).
`localtime` is external: an offset with a summer.  A printed date is its form and the parts that it shows: words and
widths do not matter except that the parsers want a year of four digits and, at the end of a local text, a zone's name
of two to five letters (`Lettered` are the zones that have such names, in winter and in summer: EST and EDT, but not
"+03").  `Undefined` is an argument that is undefined, in the list or beyond it: `make_date_from_args` takes the part
of the old time for it unless it is the first, which counts as 0.  `Dates` is one Date object; `is_nan`
is the flag of its primitive, which the setters leave as it is.

## Runs

| Run | Question | Result |
|---|---|---|
| `HeapGcRun` | accounting, clean collections and termination, with `gc.run()` at any time | holds, 658,359 states |
| `HeapFull` | full-arena collections with frames: safety, complete collections, refinement of `Collector`, answers to every allocation | holds, 576,828 states |
| `HeapHeld` | does what C code holds survive? | no: finding 1 |
| `Callstack` | frames against activations, catch once, reports, setting, refinement of `Unwinding` | holds, 319,515 states |
| `CallstackFinallySkipped` | does finally always run? | no: finding 2 |
| `Statements` | order of statements, returns through nested blocks, bound calls, termination without loops; `f` recursive in return statements, in its own list or in an `if` | holds, 661,618 states |
| `Arguments` | arguments in order, literals complete or empty, methods on their objects | holds, 955,999 states |
| `Scopes` | lookups end, parameters, variables and inner functions are the call's, where they share names | holds, 962,105 states |
| `Arrays` | elements, length and property together; methods against lists; iterations under change | holds, 74,150 states |
| `Objects` | chains of prototypes, nested constructions, sealed properties | holds, 85,096 states |
| `Primitives` | searches, patterns, slices, operators, parseInt, lengths against their definitions | holds, 5,923 states |
| `Dates` | parts, setters, printing and parsing against the calendar's rules | holds, 7,796 states |

Bounds of the heap runs: three slots (the global object and two more) are enough for a cycle, for a
hole in front of a live value, for a value reachable only through another, and for a full arena with
none, one or two garbage values.  `MaxOut` 1 bounds the pointers a store may leave in a value, `MaxHeld`
1 the values held while another is constructed, `MaxFrames` the frames.  `HeapFull` has one frame, so
that a scope can be the only root of a value; `HeapGcRun` spends its states on `gc.run()`
instead.  With `ExplicitRun` FALSE the build is one without `FH_GC_EXPOSE`, or a script that does not
call `gc.run()`.

Bounds of the call-stack runs: three open activations and four frames are enough for a stale handler
below, between and above live frames, for a throw across two activations, for a try in a try's catch
block and for an eval inside a try inside an eval.  `Repl` is TRUE, which has every behaviour of a script run
and more; a script's error exits, as one inside an eval does.  The same run at depth 4 and
5 frames (10,063,044 states) holds too.

Bounds of the statement runs: lists of two statements have one before, in and after each other, which is
what skipping and repeating take; all 11,799 programs of the given kinds are checked.  Three calls of
`f` may be open, so that a recursive call has both a recursive caller and a callee.  `f` calls itself in returns only, in its own
list or in the block of an `if` (`RecursInReturns`): neither `InOrder` nor `LoopFreeEnds` holds with other recursive calls.  In
`function f(n) { if (n < 1) { return n; } var r = f(n - 1); ... }` the inner call leaves the cursor of the
shared list at the `if`, and its caller evaluates `var r = f(n - 1)` again, for ever.

Bounds of the arguments run: lists of two elements have a first, a between and a last; two call sites and a literal can be
nested in each other in every order, with a function in between, at a depth of four; one method and two objects suffice
for an instance to be wrong.  Each property names what disturbs it: `ArgumentsInOrder` does not hold of a list that one of
its own elements evaluates again, nor after a throw.

Bounds of the scope run: `function outer(i) { var j; function inner(j) { var i = e; } }`, so that the inner function's variable is
the outer one's parameter and its parameter the outer one's variable, which is where they can take each other's; three scopes
beside the global object, so that a closure can be called from its own scope directly and through another; two closures at a
time, three open calls.  Other programs, two functions with variables of the same name among them, are the theorems'.  A script may stop, and a lookup
that hangs has no successor, hence no deadlock check.  The properties exclude what is not so: `LookupsEnd` and
`VariablesKeepValues` do not hold once a closure has been called while its scope was in use, `InnerDeclared` is about functions
with a parameter, and `ParamsAreArguments` and `VariablesKeepValues` exclude a name that is also the variable of a function that
has been called for the second time, if its scope has not that name itself.

Bounds of the array run: lengths up to 3 with two values and undefined are enough for a hole at the
front, in the middle and at the end, for a merge of unequal halves and for an index, a count or an
end beyond the array; indices of the queries go one beyond on both sides.  Two arguments make
the order in which they are stored visible.  Numbers are whole, and of the negative ones only -1 is a key: keys like
`"-2"`, `"inf"` and `"1e9"` set a length that no bound of this size holds.  A script assigns the shortest and the longest length
to the property.  Once `stray`, `ElementsBelowLength` says nothing.
`QueriesAgree` names the arguments for which the code differs from the language and leaves them out:
`slice()` is empty, `concat([])` leaves a hole, and `indexOf` from before the first element depends on
the conversion of a negative number to an unsigned one.  `SpliceAgrees` leaves out a `howMany` that has wrapped around, with
which `splice` does not come back when it begins inside the array.

Bounds of the object run: seven objects are the two built-in ones and two functions with their
prototypes and one more, or one function and three more, enough for a cycle of two and three objects, for a
construction nested in another of the same function, and for a function made and used inside a
constructor.  A script may stop, hence no deadlock check.  With `Returns` TRUE `ProtoChainsEnd` does not hold:
`function F() { return F.prototype; }` and `new F` link that object to itself, and the lookup of a
property it does not have never ends.

Bounds of the run of primitives: texts of up to three characters over eight (digits, letters that are digits of some radix
only, a sign, a space, the prefix) have a match that overlaps a failed one (`aa1` in `aaa1` is `a1` in `aa1`), an empty
match, bounds before, in and behind the text; numbers up to 2 and words of two bits have every wrap.  Properties are evaluated on
all texts, patterns, indices and radices in every state.  Each names where the code differs from the language:
searches for texts whose first character occurs again, a slice whose bounds are out of order, a string whose
cached length is old, a subtracted NaN, quotients of infinities and by zero, negative words below the range, a digit equal
to the radix, patterns that match nothing at all in replace and split.

Bounds of the date run: a clock of sixteen milliseconds a day has every carry; the days around the ends of February
and of the year, in a leap year, a common year and at both ends of the years of four digits, are enough for every
branch of `date_from_time` and `month_from_time` that a boundary can take, and the year search is checked at the
first and the last millisecond of years on both sides of 1970.  `new Date(n)` does not clip; one of the
script's numbers (`Moments`) lies beyond the range, and `DateTypeOK` allows such a time as it was given and says that whatever methods
compute is in the range again.  The zones are one on each side of Greenwich with names of letters and one without.  Months are checked as
far as `make_day` carries, one year back: a month beyond December is taken modulo 12 and leaves the year.

### Findings

1. `gc.c:288`: C locals are no roots.  A function's parameters are reachable from a C local only, between
   `setup_call_env` and the assignment of `state->scope`; a collection in between frees them.
2. `eval.c:693`: a throw in a catch block skips the finally block.

### Known divergences without a run

These the models show too; each can be seen by checking the named definition.

- `gc.c:261`: the sweep returns at the first vacant slot.  After a first `gc.run()` has made a hole, a second
  leaves marks behind it, and the third takes these for its own and frees live values.  Check `CollectionIsSafe`
  of `Heap` with `ExplicitRun` TRUE.
- `grammar.y:1207`: `opt_interactive` is off inside an eval and stays off when a throw leaves one, so that the next
  error ends the REPL (`ReplContinues` of `Callstack`).
- `eval.c:688`: a try statement that completes leaves its handler on the call stack, and a later throw may jump into a C
  function that has returned (`HandlersAreAlive` of `Callstack`).
- `eval.c:625`: a return inside a loop, a switch or a try ends only that (`ReturnIsFinal` of `Statements`, with those
  kinds of statements in `f`).
- `eval.c:401`: `arr[-1] = x` makes the length 0 and leaves the elements; `eval.c:126`: `arr[i]++` beyond the end stores an element there and
  leaves the length (`ElementsBelowLength` without `stray`).  `eval.c:361`: `delete arr[i]` crashes when there is no such element;
  `lib/Array.c:312`: `splice(0, -1)` does not end (both `Lists` without the failures it allows).
- `eval.c:605`, `eval.c:483`: an array literal that is evaluated for the second time is empty, and a switch finds no
  clause (`Arguments`, `Statements`).
- `eval.c:775`: a call in an argument of itself, `f(f(x))` in one place of the text through a function, rewinds the list of the
  outer evaluation, which then begins again with its first argument (`ArgumentsInOrder` without `Undisturbed`).
- `eval.c:725`, `eval.c:441`: any function that is returned becomes a closure of the scope it was returned from, its calls
  share one scope, and calling it from that scope makes lookups of undefined names endless (`LookupsEnd` without
  `reentered`).
- `eval.c:424`: from a function's second call on, `var v = e` assigns to the nearest caller's variable or parameter of that name
  (`ParamsAreArguments` without `overwritten`).  `eval.c:419`: `var p` resets a parameter `p` of the same function.
- `eval.c:522`: a function without parameters declares its inner functions the first time only (`InnerDeclared` without
  `HasParam`).
- `props.c:54`: looking the same method up in an argument changes the object of the outer call (`MethodsKeepInstance`
  without `relooked`).
- `lib/String.c:114`, `runtime.c:115`, `eval.c:165`, `eval.c:942`, `eval.c:202`, `lib/Math.c:119`, `lib/String.c:317`,
  `lib/String.c:265`: those that the properties of `Primitives` exclude: overlapping matches, the radix as a digit, `x - NaN`, `-(-Infinity)`,
  `-1 / 0`, `Math.max` of three arguments of which one is `-Infinity`, slices out of order, replacing empty matches.
- `lib/Date.c:315`: months beyond December lose their carry; `lib/Date.c:85`: local times near a change of the clock;
  `lib/Date.c:466`: years of other than four digits are printed but not read; `lib/Date.c:494`: nor are local texts of a zone whose
  name is not two to five letters, as "+03" (`TextsReadBack` without its `read`).

## Theorems

All are for every value of the constants: any number of slots, objects, functions, scopes, calls, any lists, any
length of an array, any clock and any zone.  Nothing is assumed but the constants' named assumptions (`HeapAssumption`, `CallstackAssumption`,
`StatementsAssumption`, `ObjectsAssumption`, `ArgumentsAssumption`, `ScopesAssumption`, `ArraysAssumption`,
`CalendarAssumption`, `DatesAssumption`, `ValuesAssumption`,
`PrimitivesAssumption`) and, where said, one of the switches `ExplicitRun` and `Returns`.

`HeapProofs`.  The argument has three layers, each an inductive invariant that uses the ones before.
`TypeInv` adds to the types that the counter equals the cardinality of the taken slots; without that
conjunct the counter's range is not inductive.  `CollectorInv` says what marking has done so far:
when it began clean, the marked values and the pending pointers are live, the marked values' pointers
are marked or pending, and the roots are too; so when nothing is pending the marked set is closed and
contains the roots, hence it is exactly `Live` (`ReachLeast`).  This gives `SweepKeepsLive` and
`CleanCollectionIsSafe` with `gc.run()` included.  `FullInv` adds, when only full arenas start
collections (`~ ExplicitRun`), that all slots are taken when a collection starts and all slots ahead of
the sweep are still taken, so that it never stops early; this gives `NoStaleMarks`,
`RetryFindsExactlyLive`, `CollectionIsSafe`, and the refinement of `Collector` step by step.

`CallstackProofs`.  The invariant `IInv` has at its heart `Linked`: the frames that belong to open
activations occur on `callstack` in the order of the activations, each at a position not below
those of the enclosing ones, with stale frames anywhere in between.  It is needed since a
return pops whichever frame is the head: it is the caller's own or a stale one above it, never one
below.  `ActiveFramesSurvive`, `CatchRunsOnce` and `ReportedOnlyUnhandled` follow from it, and
`SettingFollowsEval` from the conjunct on saved settings.

The refinement of `Unwinding` is proved in the same module.  The mapping takes `cstack` to the kinds of its activations and `stale` to "some catch frame belongs to
no try body".  Entering and leaving an activation map to `Enter`, `Report` and `Leave`, a throw to `Catch`, `Report` or `Done`; for each
there is a lemma that says what it does to stale handlers (`StalePush`, `StaleReturn`, `StaleJump`, ...).  The hard step is `JumpPromise`: that
a throw passes over no open body.  By `Linked` every open body has a catch frame, and if the body lies inside the try
statement that is jumped to, its frame is nearer to the throw than that statement's, so the search would have met it
first.

`BuiltinsProofs`, on `Objects`.  `ProtoChainsEnd` is not inductive; `Older` is: every object's prototype, and what every
open construction is going to link, has a smaller number than the object.  It is preserved because
`new_exp` reads the property when its object exists already, and what it read is older than that.  A set of
objects then has a first one, whose prototype is not in the set.  `ChainsEnd` and `OthersKeep`
have the hypothesis `~ Returns`.  `SealedKeepsProperty` follows from `Locked`: the property is there and its
flag is not set.

`TypeOK` of `Heap`, `Callstack` and `Objects`, `PrimitiveTypeOK`, `SweepKeepsLive`, `NoStaleMarks` and `OthersKeepProto` are theorems on the way
that no run states.

`BuiltinsProofs`, on `Calendar` and `Dates`.  The state is one number, and `DateTypeOK` is inductive; the other three properties are
facts about every whole number, so the work is in the arithmetic.  The assumptions are those of the code: the radices are positive
whole numbers, the range of `time_clip` (8.64e15) and what `localtime` adds (`tm_gmtoff * ms_per_sec`) are
whole seconds.  Arguments are whole numbers, NaN or undefined, and the numbers of `new Date(n)` any whole numbers.  Zones have
names of letters or not, as `Lettered` says.

- Division (`Division`, `DivisionUnique`, `DivisionTwice`, `DivisionShift`) with symbolic radices gives the digits of the clock:
  a time is its day and its digits (`TimeOfDigits`), and only these (`DigitsUnique`).
- `day_from_year` grows by the length of the year (`DaysOfYear`).  `Bracket` shows that the last year that has begun
  lies between the bounds that `year_from_time` starts with, on both sides of 1970 (where the lower one is above the upper, they
  are swapped), `SearchRecursion` that there is a function with the search's equation (`Recursion`, by the
  width of the interval), and `SearchFinds` that it finds that year, since an interval that has it keeps it.
- `MonthFound` and `DateFound` compare the two tables of the code, and its guess by thirty days (`ThirtyDays`), with the lengths of the
  months.  Together `Dated` relates a day to its year, month and date, and a day has one only (`OneYear`, `MonthOfDay`).
- What is left is to show for each property that the date which the rules ask for is such a date: `DatedNext` and `ClockNext`
  for the next day and millisecond, `ComposedIsNamed` for parts that carry, `WithoutMilliseconds` for texts.

`Settled`, the condition of the local halves, says that the zone's offset is the same at the date and at the times, its own
offset away, where `utc_time` may look.  It is needed: see the known divergences.

`BuiltinsProofs`, on `Primitives`.  The assumptions: 2^32 is positive and even (any such number will do), operands are values whose
strings `JSSTR` has made, texts have the model's characters.  `PrimitiveTypeOK` is inductive, but each of its steps needs the type of a C
loop, and most loops are recursive functions here.  For each the proof gives a rank that decreases from round to round (what is left of the text, the
rounds allowed); `Descent` (`DataLemmas`) then says that a function with the loop's equation exists, and `DescentType` that its
values have the type that every way out of the loop has (`IndexType`, `SplitType`, `ReplaceType`, `SplitterType`, `MatchIs`, ...).  So
these loops are also shown to have an answer on every text.

- `OperatorsCorrect` is `ArithmeticHolds` and `OrderHolds`.  The first takes the operators apart by which operands are finite, infinite
  and NaN (`SumAgrees`, `ProductAgrees`), and shows that the additions in `fh_to_int32` wrap any whole number to the word it is congruent to
  (`WordsWrap`).  The second shows that of two different texts `strcmp` puts exactly one first, by the first place at which they differ
  (`FirstDifference`, `TextsOrdered`), and so do the operators for numbers, texts and mixtures that both compare as numbers.
- `SlicesCorrect` rests on `KeptInterval`: counting off the positions of an interval, which is what the definition does, gives the
  part of the text that `fh_str_slice` copies; the rest is where the bounds lie (inside, before, behind).
- `LengthsCorrect` is an action property, with one case for each action (`LengthsStep`): all texts come out of `JSSTR`, but those that
  `concat`, a trim or a replacement changes afterwards.
- `ParseIntCorrect` follows `parse_int` from left to right.  What is appended to a text leaves the spaces and the sign in front of it
  as they are (`SkipConcat`, `UnsignedConcat`), `DigitsAre` says where the digits end, and one more digit multiplies their value by the
  radix (`PositionalAppend`).  That the decimal text of a number is read back (`PrintedIsRead`) is induction over the number without its
  last digit (`DecimalPrints`).
- `SearchesCorrect` and `PatternsCorrect` relate what a loop answers to all the places it has passed, so each needs an induction over the
  rounds that are left: what the loop, begun at place i, makes of the text from i on.  For a search (`IndexFinds`, `LastIndexFinds`)
  this says which place is the first, or last, that has the needle; the scans that can miss one are left to the conditions of the
  property.  For `split`, which stands at i with k characters of the
  separator compared (`Cutting`), it is `CutsUp`: joined, the parts are the text from the last cut on, and no part has the separator.  For a global match
  it is `Finds`: the matches found are in order and lie at or behind i, and every place from i on where the expression
  matches begins one or is inside one.  The rounds that `Rounds` allows suffice, as each match but an empty one moves i, and an
  empty one is followed by a step of 1 (`RoundsLeft`).
- Replacing is compared with splitting in `PutsIn`, by the same induction over two loops at once.  The loop that replaces looks at a
  text that changes: in front of place d it has what is done, behind it what is left of the string from place j on (`With`).  The matches
  there are those of the string, moved by d - j (`MatchShifts`), so that one round of each loop does the same: one takes a match out of what
  is left (`SpliceShifts`), the other one makes a part of what is in front of it (`PutsMatch`).

`ArgumentsProofs`.  `ArgumentsInOrder` and `LiteralsAllOrNothing` are not inductive: where an evaluation begins
depends on where the last one of its list has left the cursor.  `IInv` adds `ListsAtRest` (a list without an open evaluation is
rewound, or used up if it is a literal's, unless a throw tore it) and `NestedCounted` (of two open evaluations
of a list the lower has counted the upper), so that only one evaluation of a list can be undisturbed and it
alone moves the cursor.  The steps are of four kinds, each with a lemma: beginning (`Begins`), going on (`GoesOn`),
ending, with the throws (`Ends`), and looking up (`LooksUp`).  `TypeCorrect` includes that no cursor passes the end of its list.

`ScopesProofs`.  `IInv` is the types with `InnerDeclared` and `ParamsKept`, which says of the parameters what keeps the stores of
all open calls from them: of two calls in the same scope the lower is marked as shared, and if the variable of a call has the name of a
lower one's parameter, then either that parameter is marked as overwritten or the upper call has the variable in its own scope, where
its stores are bound to stop (`OwnReached`).  A call sets its parameter and declares the inner function in its scope
(`EnvDeclares`); the scan stores in that scope if it declares or finds the variable there, and otherwise marks the calls it may
store in (`VarScanScans`, `CallParams`); an assignment is covered by `StoreParams`.

`LookupsEnd` and `VariablesKeepValues` need more: `ChainInv` says that, until a closure is called while its scope is in use,
the scopes of the open calls are a chain (`Chain`): each one's parent is that of the call below, the last one's is the
global object, and no two are the same.  So there are as many scopes as calls, `Reached` follows enough parents to
come to the end (`Walk`, by induction on the parents it has followed), and every lookup ends (`ChainEnds`).
`ValuesKept` says of each call that has stored a value at which link of its chain the value is (`KeptAt`) and that the
calls above it that have a variable of that name have one of their own (`BoundAbove`): that is what keeps a store from above
(`StoreKeeps`) from finding it.  No closure is made of the global object's scope, or the chain would bend there (`ScopesApart`).

`StatementsProofs`.  The cursors are shared by all activations of a list, so that `InOrder` alone says too little about the ones that
are waiting.  `OrderInv` says what may be above what on the stack (`Nested`) and that each list on it is leaving or stands where the
cursor does (`Ordered`); since `f` calls itself in returns only, all activations of a list but the last are leaving.
A list that waits for `return f()` never looks at its cursor again, as the value comes up with the flag set; hence
the conjunct that the top of the stack, when it waits so, has its value.  For `DirectReturnIsFinal` the invariant says that
above a call that is being left there are lists only, none of which would take the flag off the value (`PassedOn`), and that a list which
waits for a call has it directly above (`Waits`).  For `BindingGoesOn` it is enough that a step leaves one activation
at most (`LeavesOne`) and that the main list, when it is the one at the top, has no flagged value.

`ArraysProofs`.  `IInv` has the types, `ElementsBelowLength`, which `stray` limits, and `IterInv`.  `EveryIndexOnce` speaks of the end of an iteration; `IterInv` says where it stands in the middle: in its
m-th callback `seen` has the first m indices (`Nth`) and `i` is the last of them, for both directions and for a reduce that
starts with an element.  `Last` shows that the loop's test for the end holds in the last round and in no other, so that the index
that counts down is never decremented from 0; it needs that the length is a natural number, which `MapStep` shows of every method.

What merge sort answers is a recursive function of its list, and so is what `merge` answers.  `MergeRecursion` and `SortRecursion` show with
`Recursion` (`DataLemmas`) that there are such functions; by induction, which is a set of counterexamples that
would have a least length (`Least`), `MergeKeeps` and `SortPermutes` show that every value occurs as often as before, for any comparison
function, and `MergeSortedHalves` and `SortGivesSorted` that the result is sorted if the comparison is `cmp`'s.  With
`ListIs` (what a script reads, position by position) these give `MethodsDoAgree`, and with a lemma for each action (`MapsPush`, `MapsSplice`,
`MapsDelete`, ...) `ArraysAreLists`.  Both speak of arrays with stray elements as well, of which a list can no longer
answer: a push writes over an element that no list has.  There the mapping's status is `broken`, from which `Lists` may do anything;
what the queries, `splice` and `sort` answer is proved for them, too, but for what `splice` returns from beyond the end.

`DataLemmas`.  The library's induction theorems have an operator as a parameter, which the provers cannot instantiate.  `Least` is
induction without one; `Recursion` says that a function exists whose value at x is given by its values at arguments of lower rank.
`Descent` is its case for loops, which stop or go on with one next argument of lower rank, and `DescentType` gives the type
of the values (`ByRank` is the induction under both).  `Division` and the lemmas after it are the arithmetic of quotients and remainders with a symbolic
divisor.

Model-checked only: `CollectionEnds`, `AllocationAnswered` and `LoopFreeEnds` (liveness under fairness is out of the
prover's reach).

## Not modelled

Objects as operands (their `valueOf` and `toString` are calls of scripts); fractions, exponents, the sign of zero; bitwise and
shift operators; case conversion, codes and locales of strings; captures and flags of regular expressions other than `g`, and `RegExp`
called without `new`, whose object has no RegExp prototype; functions of Math that are libm's; Number's formatting.
Error messages and positions; the parser and lexer (generated code) but for the errors they throw; console, debugging output
and command-line options (I/O); PCRE and libm; uthash, and with it the order of `for (... in ...)`, which depends on
its buckets.  Of arrays, `join`, what iterations return, properties that are no elements, and comparison functions that change
the array being sorted.  `bind`, `call` and `apply` pass lists on that they make themselves.  The aliasing of a date's primitive
(`getTime` answers the object itself).

## Plan

1. `Heap`, `Collector`, `Reachability`, `HeapProofs`: done.
2. `Callstack`, `Unwinding`, `CallstackProofs`: done.
3. `Statements`, `Arguments`, `Scopes`, with `StatementsProofs`, `ArgumentsProofs` and `ScopesProofs`: done.
4. `Objects`, with theorems in `BuiltinsProofs`: done.
5. `Arrays`, `Lists`, `ArraysProofs`: done.
6. `Values`, `Strings`, `Primitives`, with theorems in `BuiltinsProofs`: done.  Left: bitwise operators.
7. `Calendar`, `Dates`, with theorems in `BuiltinsProofs`: done.
