# A verification development for Maxima

Maxima is a computer algebra system written in Common Lisp: a read-eval-print
loop around an evaluator, a simplifier, and a large library of mathematics. Most
of that library is search and rewriting over expressions of any size, which a
model checker can only sample. What can be verified is the part that has *state*
whose consistency nothing recomputes:

* the **assume database** - contexts and facts, on which every answer of `is`,
  `sign`, `integrate`, `limit` ... rests;
* the **evaluator's scoping** - shared stacks that bind variables and hide
  function definitions, unwound by errors, `return`, `go` and `throw`;
* the **coset enumeration** - an imperative algorithm that renumbers its own
  data while it runs;
* the **interrupts on MS Windows** - processes and threads that signal each other
  through one word of shared memory, without a lock;
* the **coefficients under a modulus** - fixnum and general arithmetic, with an
  option that the user can reset while old coefficients are still there - and
  the C arithmetic that it replaced;
* the **archived calculator** - the stack machine that once evaluated plotted
  expressions, kept under `archive/o`.

This directory models these six and checks them with TLC. Nearly every safety
property that the runs check, and every refinement, is also proved with TLAPS for
all values of the constants.

## 1. Inventory

Lisp files are those of Maxima's own `src/` directory (so `compar.lisp` is
`src/compar.lisp`); other paths are relative to the repository. The complete list of components, with the ones that are not
modelled and the reason, is `components` in PROJECT.json.

| Component | State it keeps | Operations | What is hard |
|---|---|---|---|
| Contexts (`compar.lisp`, `db.lisp`) | `$contexts`, `$context`, `$activecontexts`, db's `contexts` and `current`, properties `cmark`, `subc`, `data` of each name | newcontext, supcontext, assignment of context, activate, deactivate, killcontext, kill(all), and `contextmark`, hidden in every query | counters updated incrementally and lazily; kills out of order; a loop in which each step may refuse |
| Facts (`compar.lisp`, `db.lisp`) | the facts of a context, the facts of a symbol, `*local-signs*` | assume, forget, answers to asksign, clearsign, kill | two indexes updated by separate searches; answers that must not outlive their evaluation |
| Deduction (`db.lisp`) | labels `+labs`, `-labs`, `ulabs` on nodes | truep, isp, mark+, mark-, clear | stale labels when a search is left early |
| Sign determination (`compar.lisp`) | `sign`, `minus`, `odds`, `evens` | sign1, compsplt, asksign | reaches the database through questions |
| Scoping (`mlisp.lisp`, `maxmac.lisp`) | value cells, property lists, `bindlist`, `mspeclist`, `loclist`, `mproplist`, `mlocp` | mbind, munbind, local, munlocal, mlambda, mprog, mdo, ev | one step of several fails; positions on shared stacks are all that relates names and values |
| Errors, catch, throw (`merror.lisp`, `errset.lisp`, `suprv1.lisp`) | saved `bindlist` and `loclist` | merror, errcatch, catch, throw, errlfun1 | unwinding out of any point |
| Coset enumeration (`todd-coxeter.lisp`) | the multiplication table, the number of cosets, `*todo*` | next-coset, doing-row, replace-coset-in-multiply-table, fill-in-inverses | coincidences found while rows are traced; renumbering |
| Interrupts (`interfaces/xmaxima/win32`: `winkill.c`, `winkill_lib.c`, `tclwinkill.c`, `win_signals.lisp`) | one int of shared memory, `is_shared_memory_initialised`, the list `sharedMemoryPtr`, `refcount` | init_shared_memory, read_sm_*, reset_sm_*, the monitor thread, winkill's main, the Tcl command and its loading and unloading | real concurrency on an unlocked word; calls that fail half way |
| Coefficients (`mutils.lisp`, `rat3a.lisp`, `rat3b.lisp`, `rat3e.lisp`) | `modulus` | cmod, cplus, ctimes, cdifference, cquotient, crecip, ratinvert, cexpt | numbers reduced under another modulus; declared fixnum types; two ranges of residues |
| Coefficients in C (`archive/src/rat3f-hc.c`) | none | the same, on ints of 32 bits | overflow |
| Calculator (`archive/o/internal.c`, `standard.c`) | the value stack, `undefined`, the dummy values of each function | 33 operators, among them jumps and calls, and the functions of standard.c | jumps with and without a pop, nested and recursive calls, overflow, division by zero |
| REPL and labels (`macsys.lisp`, `suprv1.lisp`) | `$linenum`, `$labels`, values of labels | continue, makelabel, remlabels, kill(n) | kill while labels are in use |
| Debugger, trace (`mdebug.lisp`, `mtrace.lisp`) | breakpoints, the trampolines of traced functions | break, resume, trace, untrace | redefinition under a trampoline |
| Arrays (`mlisp.lisp`, `ar.lisp`) | hash arrays with a count and a size | arrstore, growth | growth at a boundary |
| Parser, display, translator, files, plotting | operator tables; otherwise none | - | data, output, I/O or code generation |
| Simplifier, polynomials, integration, special functions | flags only | - | unbounded data |

**How they interact.** The REPL calls the evaluator on each input. The evaluator
enters scopes, and calls library functions; these ask the database for the sign
of something (`sign` -> `isp` -> `clear` -> `contextmark`). A query first moves
the lazy mark to the current context; when it finds no answer, `asksign` asks the
user and records the answer as a fact in `$initial`. Library functions open
temporary contexts (`with-new-context`: supcontext, then killcontext) for
assumptions of their own. When the input has been evaluated, normally or not,
`clearsign` removes the answers. `kill(all)` resets the database through a loop
over the contexts. All this is sequential: the interleavings are those of calls,
of errors in the middle of a call, and of a user who may type any sequence of
commands. The one exception is the interrupt on MS Windows: a front end runs
`winkill` (or its own Tcl extension) as another process, which sets a bit in the
shared word; a monitor thread in Maxima polls it, clears the bit, and interrupts
the main thread with an error or with `$quit`.

**What makes each component correct.** Contexts: the counter of a context is
positive exactly when the context is part of the current context or of an
activated one, and a name that is killed leaves nothing behind. Facts: the two
indexes agree, nothing is recorded twice, answers end with their evaluation.
Scoping: whatever a block, a call, a loop or ev has changed for its own use is
restored on every way out. Coset enumeration: the result is the action of the
group on the cosets; nothing is identified without a reason, no information is
lost, and the enumeration ends. Interrupts: nothing is raised that was not sent,
and what is sent arrives. Coefficients: the operations are those of the ring of
residues, errors have a reason, and the declared types hold. Calculator: the
value is that of the expression, and the stack is left as it was found. The hazards, each at its line and with the
properties that would catch it, are `hazards` in PROJECT.json.

## 2. Modules

| Module | Models | Theorems |
|---|---|---|
| `Contexts` | the contexts and their counters | `FactBaseProofs` |
| `FactBase` (EXTENDS `Contexts`) | facts in their two indexes, on top of the contexts | `FactBaseProofs` |
| `Scopes` | the abstract specification of dynamic scoping | `BindingsProofs` |
| `Bindings` | the evaluator's stacks and unwinding; implements `Scopes` | `BindingsProofs` |
| `ToddCoxeter` | coset enumeration | `ToddCoxeterProofs` |
| `SharedWord` | the shared word and its load and store steps | `WinkillProofs` |
| `Winkill` (EXTENDS `SharedWord`) | Maxima's start and monitor thread, the runs of winkill | `WinkillProofs` |
| `TclWinkill` (EXTENDS `Winkill`) | the composition with the Tcl extension | `WinkillProofs` |
| `Residues` | the abstract specification of modular arithmetic | `ModularProofs` |
| `Modular` | the arithmetic on a coefficient; implements `Residues` | `ModularProofs` |
| `FixnumModular` | the same operations in C, as functions | `ModularProofs` |
| `ArchivedModular` (EXTENDS both) | the two beside each other | `ModularProofs` |
| `Values` | what the calculator's operators give | `CalculatorProofs` |
| `Calculator` (EXTENDS `Values`) | the stack machine | `CalculatorProofs` |
| `Expressions` (EXTENDS `Calculator`) | expressions, their code and their value: the reference | `MeaningProofs`, `ExpressionsProofs` |
| `MC...` | instances for TLC | |

### Contexts

`contexts` and `behind` are the list `$contexts` (its members, and who stands
behind whom; only kill(all) depends on the order); `subc`, `cmark` and `data` are
the properties of the names; `current` and `dbcontexts` are db.lisp's
`current` and `contexts`. There is one action for each user function and one,
`Clear`, for the `contextmark` at the beginning of every query; `ClearUnder(con)`
is such a query while `context` is let-bound to `$initial` or `$global`, after
which nothing moves the mark back. `killcontext` is `RefuseKill`, `KillInitial`
and `KillUser`: it looks at the mark of its argument only when `contextmark`
has returned a non-empty list (`LooksAtMark`), and the comparison with a missing
mark is a Lisp error that leaves the mark moved. `kill(all)` is `KillAllStart`, a
`KillAllStep` for each name of the list as it was at the start, and
`KillAllEnd`. `with-new-context` is `Supcontext` and `Killcontext`.

The recursion of `cmark` and `cunmrk` along the subcontexts is the set
`Chain(c)`; on a cycle it never returns and exhausts the Lisp stack (`Exhaust`).
`Chain` is written as the least closed set, not recursively, so that it can be
reasoned about in proofs.

The code is not robust after a kill of a context that another one has as
subcontext, and kill(all) forgets activations of `$global` and `$initial`.
`disturbances` counts these two; some properties are claimed only while it is 0
(`Undisturbed`), `ActivationsAgree` always.

### FactBase

A datum is a Lisp cell with an identity, a pattern and a context. `data` lists
it with its context, `node` with the symbol that it speaks about. `Assume` and
`Answer` add to both; `Forget` and `Clearsign` are `mkill`, which searches the
two lists independently; `ManageContexts` is any step on the contexts, with the
facts of killed contexts taken from the symbols as well; `KillSymbol` clears one
index only. `crossed` records that some step removed different datums from the
two lists: the code cannot repair that, and the properties make no claim after
it. Each action is an action of `Contexts` (`Manage`, `AddFact`, `DropFacts`) with what it
does to the index of the symbols besides, so all that holds of `Contexts` holds here, by
the way the module is written. A pattern stands for one inequality on one symbol, so that it is *known* when
a visible datum of it exists: the propagation of labels through several facts is
left to a later module, as is the splitting of an assumption into patterns.

### Scopes and Bindings

`Scopes` says what dynamic scoping promises: each scope has a record of what it
will restore, and closing it restores exactly that. `Bindings` is the code:
four stacks without marks (`bindlist`, `mspeclist`, `loclist`, `mproplist`,
newest last here) shared by all evaluations, and `stack`, the Lisp control stack:
blocks, calls, loops, ev's, errcatches and catches, each in the stage it has
reached. `args` is the evaluation of its arguments, before anything is bound (but
`mlocp` is bound already: local is allowed there); `atoms` is the part of ev
between its two bindings; `body` is the rest. `mode` is "run" or the non-local
exit under way; `Unwind` leaves one evaluation at a time and runs its cleanup
forms, `Caught`, `ThrowLands`, `ReturnLands` and `GoLands` end an exit where the
code would. The Lisp objects `bindlist` and `loclist` that errcatch, catch, block
and loop remember are represented by their lengths: the stacks only grow and
shrink at one end, so a remembered list is still a tail exactly when the stack
has never been shorter since, which is `TailsKept`.

Four steps put the stacks out of order, and `fault` keeps the first of them:
an error in the atoms of an ev, local that stops at a declared array, local that
has no entry of its own to write to, and a list of variables that is assigned in
part. `KeepsScopes`, the refinement of `Scopes`, makes no claim from the first
fault on; the other properties hold nevertheless.

The values of expressions, the order of statements and the tests of loops are
left out: any evaluation may assign, define, enter another one, or fail at any
point.

### ToddCoxeter

One action per letter of a relation that is traced (`NextCoset`, `Follow`,
`EndRelation`, `Coincidence`), one per replacement (`Replace`, `SkipPair`), and
the filling of the inverse columns (`FillInverses`, `RepeatFound`). The table
keeps stale entries beyond the last coset as the adjustable arrays do. Two
history variables, `misnamed` and `skipped`, record the two steps at which the
algorithm leaves the path on which it is correct (see the findings). Words are
sequences of letters: `coerce-rel`, which makes them from expressions, is not
modelled. What a table has to do with the group is said by comparison with other
actions: `PointTables` are tables of a group on `NPoints` points, and of those that satisfy
a presentation with the subgroup fixing point 1, every table has to be mapped onto
(`NothingMerged`).

### SharedWord, Winkill and TclWinkill

The word is the set of signals whose bits are set. `*at |= value` and `*at &= ~mask`
are a `LoadWord` and a `StoreWord` of the party that executes them; `stale` is the
set of parties that have loaded what somebody has overwritten since, `raced` is set
when one of those stores, `pending` is what a kill under Unix would keep, and `due` is what was sent and the main
thread has not been interrupted for since. The
file mapping lives as long as someone holds it (`holders`), so a `winkill` that came
before Maxima's end can keep it. Each call of Windows can fail
(`StartWithout`, `MapSegment`, `OpenAs`, `MapView`, `Find`, `Map`). The monitor's loop
is `CheckSignal`, `ResetLoad`, `ResetStore`, `Raise`, alternately for SIGINT and
SIGTERM; `Exit` is `$quit`. `Parse` to `Close` are the statements of winkill's main.
In `TclWinkill`, `getSharedMemoryPtr` has no return statement behind the creation of a
list entry (`tclwinkill.c:253-259`): what the caller gets is any of the entry, a null
pointer, or an address elsewhere, and the last is a store that does not reach the
word. `forgotten` is a handle that no list entry holds: a mapping that failed leaves one, and so
does an unload that is not the last. The list is a flag, since there
is one process to signal. Which segment a GCL reads is not in this repository; its
reader is taken to be the same loop.

### Residues, Modular and FixnumModular

`x` is a coefficient. `Ask` starts an operation, `CrecipStart`, `EuclidStep`, `RecipDone`
and `NoInverse` are crecip and crecip-general (the same loop, the one with a check of
the range and fixnum declarations, the other without), `PowerStart` to `PowerDone`
cexpt. `SetModulus` does not convert the coefficient; `fresh` tells whether it was
computed since. `Residues` is the promise: one step per result, in the ring of integers
modulo `modulus`, failing only without a result or on a coefficient that is not fresh.
`FixnumModular` holds the operations of `rat3f-hc.c` as operators on integers with wrapping
ints (`Wrap`), the processor's remainders, and bignums as integers; `ArchivedModular` compares
them with Modular's in every reachable state.

### Values, Calculator and Expressions

A value is an int of `Width` bits or a complex number whose parts are multiples of
`1/Unit`; results that are no such multiples, as those of the C library, are any member
of `Sample`. Each operator of `Values` gives the set of its outcomes, with the flag
`undefined`; the set is empty where the code calls int_error or where the processor traps
(the least int divided by -1). `Calculator` runs code one operator at a step: `frames` are
the activations of execute_at, `dummies` the arguments stored in the entries of the
functions. The compiler and execute_at are not in the repository: that a jump returns
the distance to go, and that nothing is executed after int_error, follow from the
operators. What the machine assumes of the code it is given is `Typed`: every action
finds the height of the stack that it needs, along every jump.

`Expressions` is the reference. Expressions are trees up to a `Depth` (`Upto`, `Exprs`);
`CodeOf` lays out the code of each from that of its parts (`Layout`), with the jumps of
`ShortCircuit` and `Ternary` where the comments of `internal.c` put them, and the heights.
`Meaning` says what an expression gives, if one knows what its parts and the functions that
it calls give; each call has arguments of its own. `Eval` is the function that is what it
means. All three are recursive functions, not RECURSIVE operators, so that they can be reasoned
about; that programs and functions are compiled is `CompiledAssumption`.

## 3. Runs

| Run | Question | Bounds |
|---|---|---|
| `contexts` | are the counters exact, the hierarchy without cycles, and do the two lists of activated contexts agree? | 2 user contexts (and `$global`, `$initial`), 1 disturbance |
| `contexts_facts` | does anything of a killed context survive, or anything survive kill(all)? | 2 user contexts, 1 fact, no disturbance |
| `facts` | do the indexes agree, is nothing assumed twice, do answers end, and with them no assumption of the user? | 1 user context, 2 patterns, 2 datums |
| `bindings` | do the shared stacks implement scopes, on every way out? | nesting 3 (1 after a fault), 1 variable, 1 function, 2 entries of loclist and of mproplist |
| `cosets` | is the result the action on the cosets, and does the enumeration end? | every pair of reduced relations of length up to 3 in which x and y occur, no or one generator of the subgroup, 6 cosets |
| `winkill` | when can a signal get lost? is every other one taken and acted upon, nothing made up, and no memory lost track of? | 1 run of winkill and the Tcl extension (2 interpreters, 2 commands), 2 signals, all Lisps |
| `modular` | is it arithmetic in the ring, are types and errors right, does everything end, does the C code agree? | moduli none, 1, 2, 3, 6, 7, 8, 9, 12 with the fixnum limit at 8; integers -20 to 20, exponents to 7; C ints of 4 bits |
| `calculator` | does the machine give the value of the expression, with a balanced stack, for every kind of code? | ints of 3 bits, doubles in halves, sample {-1, 0, 1.5}; every operator on every pair of 16 leaves, expressions of 2 and 3 operators, 8 functions |
| `contexts_kill_active`, `facts_forget`, `bindings_ev`, `cosets_order` | findings, see below | as above |

Why the bounds are enough to be of interest. Two user contexts and the two given
ones make chains of four contexts, activations of overlapping chains, kills out
of order, and names that are used again; user contexts are symmetric. Two datums
make every conflict between the two indexes (the same pattern in two contexts, or
an assumption and an answer). Nesting three deep has a catch around a binding
around a failing evaluation; one variable, bound at each level and twice by an
ev, is enough for a value restored from the wrong position to show. Presentations
of length 3 force every case of a replacement, including replacements that
renumber pairs still waiting; enumerations that need more than six cosets stop
in phase "full", and are not claimed to be correct. The bound on disturbances
allows one orphaned context or one reset of an activated one. In `winkill` the run of
winkill, the extension and the monitor are three parties on the word, so that a stale
store can hit one or two newer ones; two interpreters give unloads that are not the last.
The moduli are primes, composites, even and odd ones, one, and values just below, at and
above the fixnum limit, which is a parameter, as is the width of the C ints; with the span
of 20 there are coefficients more than twice as large as the smaller moduli. Ints of
three bits overflow in every operator, and include the least int, which is its own
absolute value. The functions of `calculator` are recursive before and after the last use
of their argument, mutually recursive, with up to four arguments, and undefined.

**Deadlock** is not checked where the models end by design: an exhausted stack
ends a session, a finished enumeration or evaluation stops, and processes end.
Run `modular` checks it.

**Fairness.** The session models (`Contexts`, `FactBase`, `Bindings`) assume
none: nothing obliges a user to type anything, and their properties are safety
properties. `ToddCoxeter` assumes `WF_vars(Next)`: it is one sequential loop
that does not wait for anything, so a step that can be taken is taken. Under it
`Terminates` says that every enumeration ends, outgrows the bound, or pops a pair
that is the wrong way round. `Calculator` assumes the same for the same reason.
`Modular` assumes `WF_vars(Compute)`: an operation that was asked for is computed, while
nobody has to ask. `Winkill` assumes weak fairness of the monitor thread, which the
Lisp schedules, and of the `$quit` that it has made the main thread run; nobody has to
send, and a sender may stop between its load and its store.

## 4. Findings

Each is shown by a run that TLC ends with a counterexample.

* `contexts_kill_active`: killcontext kills active contexts. It looks at the mark
  only when the lazy mark has just moved (`compar.lisp:215`), against
  `doc/info/Database.texi:1788-1790`.
* `facts_forget`: forget removes the datum of one context from the context's list
  and that of another one from the symbol's list (`compar.lisp:2506`,
  `doc/info/Database.texi:1663`).
* `bindings_ev`: an error inside ev, after mlocal and before the unwind-protect,
  leaves the local function without its definition (`mlisp.lisp:958`, against the
  comment at 969-970).
* `cosets_order`: todd_coxeter([y^^-4, y^^-1 . x^^2 . y^^-1, x . y . x^^-1])
  returns 4 for a group of order 2; removing a coset in front of the current row
  makes the loop pass over a row (`todd-coxeter.lisp:82`, against 110-114).

Seen while modelling, and not shown by a run of its own:

* clearsign counts answers that are not there any more: when an answer is forgotten in its
  own evaluation and the pattern assumed, it removes the assumption (`compar.lisp:967-970`).
  `AssumptionsSurvive` says that it happens in no other way.
* newcontext does not touch what is stored under its name. When the session was left
  in a dead context (`compar.lisp:229`: the subcontext of the killed current context had
  been killed before), assume writes there, and newcontext of that name finds the facts:
  it is not the "new, empty context" of `doc/info/Database.texi:1851`.
* local(f, A) for a declared array A loses the properties of f (`mlisp.lisp:562`, against
  `doc/info/Function.texi:2079-2082`); local called while the arguments of a block are
  evaluated overwrites the entry of the enclosing block (fault "entry" in `Bindings`).
* todd_coxeter([x . y^^-2, y]) returns 0, for the trivial group: renaming the waiting
  pairs can turn a pair around (`todd-coxeter.lisp:228`, against lines 45 and 64). This is
  the phase in which `misnamed` is set.
* In a session that has disturbed the marks, an assumption in `$initial` can be made
  behind an answer to the same question; clearsign then removes the assumption, and the answer
  outlives its evaluation (against the comment above clearsign). `AnswersEnd` excludes these
  sessions.
* `coerce-rel` does not reverse a product with a negative exponent
  (`todd-coxeter.lisp:278-288`); the example in the comment of `todd-coxeter.lisp:266` has an
  infinite group.
* Signals get lost when a sender and the monitor overlap (`raced`), although a kill under
  Unix, which winkill is "meant to resemble" (`winkill.c:34-38`), loses none. `tclwinkill.c:5`
  shows `winkill -pid 23423 -signal INT`, but the name is read from its second character
  (287), so only `-INT` is found; a second name is searched from where the first one was.
  `read_shared_memory` and `reset_shared_memory` have no callers.
* cexpt uses rem and leaves (-m/2, m/2]: 2^2 modulo 5 is 4 (`rat3a.lisp:177-186`; the
  range is that of `doc/info/Polynomials.texi:1623-1627`). Modulo 1, crecip refuses
  every coefficient. For a rational number under a modulus, prep1 returns a number
  where its callers expect a pair (`rat3e.lisp:580-583`).
* In `rat3f-hc.c`, the bignum branch of mcmod does not move a remainder below -m/2, fmod
  returns `m - mod` where the remainder was meant, and for an even modulus m both m/2 and
  -m/2 occur.
* In the calculator a negative power of ints is 1.0/t also when t has wrapped to 0; gt, lt,
  ge and le ignore the imaginary parts; log(0) is not marked undefined. The archived
  calculator does not link: f_conj, f_acsc, int_error and others are defined nowhere.

## 5. Proofs

Assumptions: the names are distinct and finitely many, `NoMark` is not a number
(`NamesAssumption`, `MarkAssumption`, `BoundAssumption`), the patterns are finite
(`PatternsAssumption`), and a fact is a datum (`FactsAssumption`). For the interrupts:
the parties are distinct (`PartiesAssumption`, `ServerAssumption`, `ClientsAssumption`), SIGINT and
SIGTERM are two signals (`SignalsAssumption`, `BadNameAssumption`). For the coefficients: the
moduli are naturals, the limits numbers, and the integers of the model reach to the
moduli (`ModuliAssumption`, `LimitAssumption`, `SpanAssumption`, `HalfAssumption`). For the
evaluator: the unbound marker is no value, the lists are lists of names, the bounds are
numbers (`UnboundAssumption`, `ListsAssumption`, `BoundsAssumption`). For the cosets:
relations are words that are not empty, there is at least one, and every variable occurs in
one, as the code takes the variables from the relations (`PresentationsAssumption`,
`VariablesAssumption`, `NPointsAssumption`, ...). For the calculator: `Half` is the power of two that
`Width` says, a function has one to four arguments, and the code of every function and
program is typed and reads its own function's arguments only (`WidthAssumption`,
`ArityAssumption`, `CodeAssumption`, `ProgramsAssumption`, ...). TLC evaluates each on the
runs of its module.

**FactBaseProofs** proves of the contexts, for any finite set of user contexts, that every
behaviour satisfies `TypeOK`, `MarksExact`, `ActivationsAgree`, `DeadAreBlank`,
`HierarchySound` and the action property `KillAllBlank`. The invariant is `ContextsInv`. `MarksExact` is not inductive alone:

* marks are added and removed along chains, so it needs to know that no chain
  has a cycle and that chains do not change under the operations: `ListOrdered`
  says that the subcontext of a context stands behind it in `$contexts`, which
  orders the chains strictly (and gives `HierarchySound`), and `Rooted` that they
  all end at `$global`;
* a new context enters with whatever is stored under its name, so
  `DeadAreBlank`;
* a kill removes the marks of an activated context by the user's list and
  the bookkeeping by the other one, so `ActivationsAgree`;
* kill(all) resets the lists after a loop that might have refused: `LoopSynced`
  says that inside the loop the lazy mark follows the context, so that no kill
  is refused, and that all remaining user contexts are still to be visited.
  `InitialEmptied` (of the facts of `$initial` nothing is left once the loop has passed it)
  is what `KillAllBlank` needs besides.

The lemmas follow that order: chains (`ChainFacts`, `ChainFrame`), counters
(`MarkCount`, `UnmarkCount`, `RemarkCount`), type steps, then one lemma for each
operation (`EnterStep`, `ActivateStep`, `KillUserStep`, `KillAllEndStep`, ...).

Of the facts it proves, for any number of patterns and datums, that `FactTypeOK`,
`IndexesAgree`, `AssumedOnce`, `AnswersEnd` and `AssumptionsSurvive` always hold. The lemma
`Simulation` (every step is a step of `Contexts`, which is how the module is written) is
there to inherit `ContextsInv`, and no result of its own.
`AssumedOnce` uses that a query marks the current context, hence that everything
in it is visible to the test for redundancy, which is `MarksExact` once more. `AnswersEnd`
and `AssumptionsSurvive` rest on `AnswersInv`: in `$initial` no assumption lies in front of an
answer of the same pattern, since an assumption is made only where its pattern is not known
and an answer makes it known; and no more answers are left than clearsign counts. What
clearsign removes, the first datum of the pattern as often as it has counted, is thus
all answers, and an assumption only when fewer answers are left than it counts, because one
was forgotten or its context killed before (`ClearsignSpares`).

**BindingsProofs** proves for any variables, values, functions and lists of names that
`TypeOK`, `TailsKept`, `BindlistIsNested` and `ReturnsAreLegal` hold. The invariant is
`StacksInv`: what the evaluations on the control stack have bound lies on `bindlist` end to
end, each piece beginning where its evaluation has found the top (`BindsChained`,
`BindsOrdered`), catches bind nothing (`CatchesBare`), entries of `loclist` lie in the same
order (`LocsOrdered`; without a gap before the first fault, `LocsChained`), and every function
on `loclist` has its properties saved (`DefsSaved`). That the stacks are never shorter than
what an enclosing evaluation remembers is then arithmetic on these positions.

It proves besides the refinement `KeepsScopes`: the stacks of `Bindings`, cut into
pieces at the positions of `StacksInv`, are the records of `Scopes`, and every step is a step
of `Scopes` or a stutter until the first fault. The work is in the slices: what a bind adds to
one piece and what it leaves of the others, and that an unbind writes back just the
piece on top.

**ToddCoxeterProofs** proves for any presentations, any bound on the cosets and any
table of points that `TypeOK`, `TableAccurate`, `NothingMerged`, `NothingLost` and `ResultIsAction`
hold. There are three layers:

* `KnownInv`: only cosets that exist are named by the table and by the pairs that wait, and
  the columns of a variable and its inverse agree while rows are done. A replacement breaks
  the inverse columns, and `FillInverses` makes them again from the others;
* `ImageInv`: any action that satisfies the relations, with the subgroup fixing point 1, is an
  image of the table: there is a map of the cosets that sends each product to the product, and
  equal pairs wait only between cosets with the same image. Cosets with different images are
  thus never identified, which is `NothingMerged`;
* `FinishedInv`: the relations of the rows that have been done hold in every quotient, i.e. under
  every map that makes the waiting pairs equal; this survives the replacements, which only take
  pairs out of the queue and put their consequences in. Every coset stays reached
  from the first: a colouring with two colours, constant along the table and across
  waiting pairs, has one colour. With the queue empty and the last row done this is
  `ResultIsAction`. `misnamed` and `skipped`, the two findings, are exactly the places
  where the argument fails.

**WinkillProofs** proves, for any sets of signals and of runs of winkill and any bounds,
`TclTypeOK`, `OnlyRacesLose`, `RaisedWasAsked`, `ListedIsOpen` (with `MappedWhenUsed`: who
accesses the word has it mapped) and `DueIsUnderway`. The invariant adds to them what a
register holds: of a party between its load and its store that is not stale, exactly
the word; of any party, only signals that someone wanted to send. Every store then
either is stale, and sets `raced`, or changes the word as it changes `pending`. What is due
is pending or the monitor is about to interrupt for it (`DueInv`), because the monitor
resets the word first and interrupts then: in the other order a signal that comes in between
would be reset without an interrupt, and without a race.

**ModularProofs** proves for every modulus, limit and span that the registers of crecip
fit the declared types (`RegistersFit`), that zero is recognised (`ZeroIsZero`) and that
a range error means a stale coefficient (`OutOfRangeIsStale`). The first rests on the invariant
of the Euclidean algorithm: the remainders decrease below the modulus, the Bezout
coefficients alternate in sign, and |a| mod + |b| remainder is the modulus, which bounds
both by it. The second rests on a bound: what is computed under a modulus lies strictly
between -m and m, cexpt included.

`LoopsEnd` says that every round of a loop makes the absolute value of the remainder, or the
exponent, smaller (`TruncateLeaves`), also where crecip-general works on negative numbers. It is
the part of `Ends` that does not need fairness.

`CoefficientsAreResidues` is the refinement `RingSpec`: the loops deliver what the ring of
residues promises. The argument is about congruences, without division (`Cong`). In the
Euclidean loop a x is congruent to the remainder, and modulus and coefficient are combinations of the
two remainders (`EuclidRing`), so a loop that ends at 1 has the inverse and one that ends at 0
a common divisor that excludes one - provided that the coefficient is fresh and the
modulus is not 1. In cexpt the result times the power of `base` that is still missing is
congruent to the power (`PowerRing`). Powers are recursive functions; their laws are proved by
least elements of sets of naturals (`EveryNatural`). Quotients without a modulus are the exactness of
TRUNCATE.

`PredecessorAgrees` is `ArchivedAgrees`: every C operation stays in the class (`CRemFacts`,
`McmodCong`, `FmodFacts`), FIX_MOD and normalized-modulus lead into one range, and for an odd
modulus that has one number for each element (`OneForEach`). An operand is reduced from the
time it is asked for (`OperandReduced`). `FplusExact` and `RangeHasNoOverflow`, that
no sum overflows unnoticed, are lemmas of it that are of interest by themselves.

**CalculatorProofs** proves for any typed code that `TypeOK`, `StackBalanced`, `CallersKept` and
`StaleNeedsRecursion` hold. The invariant (`CalculatorInv`) says that every frame runs typed code and stands at
a place in it; that the frames' bases add up to the height of the stack, each caller being
short of just the value that its callee will leave; and that the dummies of a function
are set while a frame runs its body. It needs that every operator's outcomes are values
(`UnaryTyped`, `BinaryTyped`). `StaleNeedsRecursion` has an invariant of its own (`ArgsInv`): what a
frame calls is reached from every frame below it (`ChainReached`), so when a call overwrites
the arguments of a frame that is still there, the function has reached itself. "Reached" is
defined by closed sets of functions, not recursively, so that it can be reasoned about.

**ExpressionsProofs** proves `Agrees`, on the lemmas of **MeaningProofs**: for any width of ints,
any sample of doubles, any functions and programs that are compiled, and any depth of
expressions and of calls, the machine ends with a value of the expression and with
`undefined` set just as its parts have it, and fails only where the expression does, unless
a function has read the arguments of another call of it. There are four layers:

* *The definitions exist.* A recursive function is a choice of some function that satisfies an
  equation, and says nothing unless there is one. `Upto` and `CodeOf` exist by induction on
  the depth (`UptoExists`, `CodeExists`). The equation of `Eval` is not a recursion over a
  smaller argument, as functions call each other: it has a solution because `Meaning`
  is monotonic, namely the least one (`LeastIs`, `EvalIs`). Where a call never ends it may have others;
  the proof uses the equation only, so the theorem holds of each of them. `Value` is `Eval`
  without what is no result.
* *Code computes what its expression means*, by induction on the expression
  (`EveryExpression`, `ExprComputes`), for any place where the code stands (`Placed`), on top of any
  values and any flag. "Computes" (`Computes`, `Runs`) is stated backwards, without executions:
  a set of points of a run of code (place, values, flag) is `Sound` if every action leads
  from a point in it to points in it, whatever the action gives, and the end of the code is
  reached with an outcome in the goal; the `Good` points are the greatest such set. The code from i to j
  computes S if a point at i is good whenever what S leaves is good at j. In this form
  sequences, jumps and branches are composed without following a run, and a
  call is one action, which gives any value of the function. The formulas of
  `standard.c`, which run operators on the value on top, are the same lemma for fixed
  code (`BesselGood`).
* *Frames wait for each other.* `Explained` gives each frame a goal: the last one is at a good
  point, each of the others at one from which every outcome of the goal of the next
  leads on, and the first has the program's value as its goal. Entering a frame
  (`ExplainedEnters`), moving in the last (`ExplainedMoves`) and leaving it (`ExplainedLeaves`)
  keep that, since each frame has its values on a stretch of the stack of its own (`Stretch`,
  `Ordered`: here `CalculatorInv` is used).
* *The invariant*, `AgreesInv`: while no other call's arguments have been read, the frames are
  explained, and at the end the result is in the value. It is kept by each action
  (`AgreesGives`, `AgreesJumps`, `AgreesCalls`, `AgreesComposes`, `AgreesReturns`).
  `stale` is where the argument fails: a dummy then is not the argument of its frame (`Own`).

**Only model-checked**: liveness (`Terminates`, `Taken`, `TermEnds`, `Ends`), which with ENABLED is
out of the prover's reach. Every safety property that a passing run checks is proved. Induction is possible
where it is induction over the natural numbers, by the least element of a set (`LeastNatural`,
`EveryNatural`): the proofs use it for powers, for the walk of a word, for positions on the
stacks, and for expressions, by their depth. The findings are runs of TLC.

## 6. Plan

1. `Contexts`, `FactBase` - checked and proved.
2. `ToddCoxeter` - checked and proved, except `Terminates`.
3. `Scopes`, `Bindings` - checked and proved, the refinement included.
4. `SharedWord`, `Winkill`, `TclWinkill` - checked and proved, except liveness.
5. `Residues`, `Modular`, `FixnumModular`, `ArchivedModular` - checked and proved, the refinement
   included, except `Ends`.
6. `Values`, `Calculator`, `Expressions` - checked and proved, except `Ends`.
7. `Inference`: the propagation of labels in `db.lisp` (truep, mark+, clear)
   against reachability in the graph of visible facts, on top of `FactBase`.
8. `CoerceRel`: the conversion of expressions to words, against the free group.
9. `Labels`: the line counter, label lists and kill of `suprv1.lisp` and
   `macsys.lisp`.
10. Trace, hash arrays.
11. To prove besides: a measure for the rows and pairs of `ToddCoxeter`, as an action
    property like `LoopsEnd` of the arithmetic, which is the part of `Terminates` that a proof can
    carry.

**Not modelled, and not planned**: rewriting, polynomials, integration, special
functions and number theory (data without bounds: a model would be a
transliteration, and TLC would only sample it; their integer coefficients are in `Modular`);
the execute_fun of `archive/o/execute.c`, whose result is dropped and which nothing calls,
and the generated initialisation of GCL images in `archive/src`; parsing, display, translation
(code generation and formatting); files, plotting and front ends (I/O).
