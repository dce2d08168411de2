----------------------------- MODULE Calculator ------------------------------
(***************************************************************************)
(* The evaluation of a compiled expression by the archived calculator,     *)
(* archive/o/internal.c and standard.c, one operator at a step.            *)
(*                                                                         *)
(* Code is a sequence of actions.  The loop that runs it, and that reports *)
(* an error with int_error, is not in the repository; what they do follows *)
(* from the operators: a jump returns the distance to go, every other      *)
(* operator is followed by the next one, and nothing after int_error is    *)
(* executed.                                                               *)
(*                                                                         *)
(* The arguments of a user-defined function are not on the stack while it  *)
(* runs but in its entry, where a call of the same function overwrites     *)
(* them.  args (the arguments that a frame was entered with), base and     *)
(* stale are history.                                                      *)
(***************************************************************************)
EXTENDS Values, Sequences

CONSTANTS
    Functions,      \* the names of user-defined functions
    Arity,          \* udf->n_arg of each
    Code,           \* udf->at of each, or NoCode
    Variables,      \* the names of user-defined variables
    ValueOf,        \* udv->udv_value of each, or NoValue
    Programs,       \* the code that can be evaluated
    NoCode, NoValue

ASSUME ArityAssumption == Arity \in [Functions -> 1..4]
ASSUME VariablesAssumption == ValueOf \in [Variables -> AllValues \cup {NoValue}]
ASSUME NoValueAssumption == NoValue \notin AllValues

VARIABLES
    stack,          \* stack[0..s_p]
    undefined,
    dummies,        \* dummy_value to dummy_value3 of each function
    frames,         \* the code underway, the calling code first
    program,        \* the code that is evaluated
    status,         \* "running", "done" or "error"
    stale           \* history: was another call's argument read

vars == <<stack, undefined, dummies, frames, program, status, stale>>

-----------------------------------------------------------------------------
\* Code is typed by the number of values that it has on the stack in front of
\* each of its actions.
Needs(ins) ==
    CASE ins.op \in {"push", "pushc", "pushd", "jump", "rand"} -> 0
      [] ins.op \in BinaryOps -> 2
      [] ins.op = "call" -> Arity[ins.f]
      [] OTHER -> 1

\* How far an action can move on, and what it adds to the stack then.
Effects(ins) ==
    CASE ins.op \in {"push", "pushc", "pushd", "rand"} -> {<<1, 1>>}
      [] ins.op \in BinaryOps -> {<<1, -1>>}
      [] ins.op = "call" -> {<<1, 1 - Arity[ins.f]>>}
      [] ins.op = "jump" -> {<<ins.by, 0>>}
      [] ins.op = "jtern" -> {<<1, -1>>, <<ins.by, -1>>}
      [] ins.op \in {"jumpz", "jumpnz"} -> {<<1, -1>>, <<ins.by, 0>>}
      [] OTHER -> {<<1, 0>>}

End(code) == Len(code.actions) + 1

\* The four compositions of standard.c: a is the top of the stack.
Bessel == {"besj0", "besj1", "besy0", "besy1"}
Op(op) == [op |-> op]
Const(v) == [op |-> "pushc", v |-> v]

BesselCode(op, a) ==
    CASE op = "besj0" ->
             [actions |-> <<Op("sin"), Const(a), Op("div")>>,
              height  |-> <<1, 1, 2, 1>>]
      [] op = "besy0" ->
             [actions |-> <<Op("cos"), Const(a), Op("div"), Op("uminus")>>,
              height  |-> <<1, 1, 2, 1, 1>>]
      [] op = "besj1" ->
             [actions |-> <<Op("sin"), Const(a), Const(a), Op("mult"), Op("div"),
                            Const(a), Op("cos"), Const(a), Op("div"), Op("minus")>>,
              height  |-> <<1, 1, 2, 3, 2, 1, 2, 2, 3, 2, 1>>]
      [] op = "besy1" ->
             [actions |-> <<Op("cos"), Const(a), Const(a), Op("mult"), Op("div"),
                            Const(a), Op("sin"), Const(a), Op("div"), Op("plus"),
                            Op("uminus")>>,
              height  |-> <<1, 1, 2, 3, 2, 1, 2, 2, 3, 2, 1, 1>>]

Actions ==
    [op : UnaryOps \cup BinaryOps \cup Bessel \cup {"rand"}]
        \cup [op : {"push"}, name : Variables]
        \cup [op : {"pushc"}, v : AllValues]
        \cup [op : {"pushd"}, f : Functions, i : 1..4]
        \cup [op : {"call"}, f : Functions]
        \cup [op : {"jump", "jumpz", "jumpnz", "jtern"}, by : Int]

\* Code that leaves one value more than it found, entered with n values.
Typed(code, n) ==
    /\ code.actions \in Seq(Actions)
    /\ code.height \in [1..End(code) -> Nat]
    /\ code.height[1] = n /\ code.height[End(code)] = 1
    /\ \A i \in 1..Len(code.actions) :
           /\ Needs(code.actions[i]) <= code.height[i]
           /\ \A e \in Effects(code.actions[i]) :
                  /\ i + e[1] \in 1..End(code)
                  /\ code.height[i + e[1]] = code.height[i] + e[2]

\* The dummies that code reads: those of the function it is the body of.
Reads(code, fs) ==
    \A i \in 1..Len(code.actions) :
        code.actions[i].op = "pushd" =>
            code.actions[i].f \in fs /\ code.actions[i].i <= Arity[code.actions[i].f]

ASSUME CodeAssumption ==
    \A f \in Functions : Code[f] # NoCode => Typed(Code[f], 0) /\ Reads(Code[f], {f})
ASSUME ProgramsAssumption == \A code \in Programs : Typed(code, 0) /\ Reads(code, {})

-----------------------------------------------------------------------------
here == frames[Len(frames)]
ins == here.code.actions[here.pc]
Top == stack[Len(stack)]
Below(n) == SubSeq(stack, 1, Len(stack) - n)

Frame(code, base, args) == [code |-> code, pc |-> 1, base |-> base, args |-> args]

Init ==
    /\ stack = <<>> /\ undefined = FALSE
    /\ dummies = [f \in Functions |-> <<NoValue, NoValue, NoValue, NoValue>>]
    /\ program \in Programs /\ frames = <<Frame(program, 0, <<>>)>>
    /\ status = "running" /\ stale = FALSE

At(ops) ==
    /\ status = "running" /\ frames # <<>>
    /\ here.pc < End(here.code)
    /\ ins.op \in ops

GoOn(by) == [frames EXCEPT ![Len(frames)].pc = @ + by]

\* int_error: the stack is reset before the next evaluation.
Fail ==
    /\ stack' = <<>> /\ frames' = <<>> /\ status' = "error"
    /\ UNCHANGED <<undefined, dummies, program, stale>>

Give(values) ==
    /\ stack' = values
    /\ frames' = GoOn(1)
    /\ UNCHANGED <<undefined, dummies, status, program, stale>>

-----------------------------------------------------------------------------
Push ==
    /\ At({"push"})
    /\ IF ValueOf[ins.name] = NoValue THEN Fail
       ELSE Give(Append(stack, ValueOf[ins.name]))

PushConstant == At({"pushc"}) /\ Give(Append(stack, ins.v))

PushDummy ==
    /\ At({"pushd"})
    /\ stack' = Append(stack, dummies[ins.f][ins.i])
    /\ frames' = GoOn(1)
    /\ stale' = (stale \/ here.args[ins.i] # dummies[ins.f][ins.i])
    /\ UNCHANGED <<undefined, dummies, status, program>>

\* Mutant of Popped: the last argument goes to the first dummy.
PoppedReversed(f, n) ==
    [i \in 1..4 |-> IF i <= n THEN stack[Len(stack) + 1 - i] ELSE dummies[f][i]]

\* The values that f_call pops, in the order of the dummies; those that it does
\* not pop keep theirs.
Popped(f, n) ==
    [i \in 1..4 |-> IF i <= n THEN stack[Len(stack) - n + i] ELSE dummies[f][i]]

\* Mutant of Call: one set of dummies for all functions.
CallShared ==
    /\ At({"call"})
    /\ LET f == ins.f
           n == Arity[f]
           args == Popped(f, n)
       IN  IF Code[f] = NoCode THEN Fail
           ELSE /\ stack' = Below(n)
                /\ dummies' = [g \in Functions |-> args]
                /\ frames' = Append(GoOn(1), Frame(Code[f], Len(stack) - n, args))
                /\ UNCHANGED <<undefined, status, program, stale>>

Call ==
    /\ At({"call"})
    /\ LET f == ins.f
           n == Arity[f]
           args == Popped(f, n)
       IN  IF Code[f] = NoCode THEN Fail
           ELSE /\ stack' = Below(n)
                /\ dummies' = [dummies EXCEPT ![f] = args]
                /\ frames' = Append(GoOn(1), Frame(Code[f], Len(stack) - n, args))
                /\ UNCHANGED <<undefined, status, program, stale>>

\* An operator, with one of its outcomes.
Operate(outcomes, n) ==
    IF outcomes = {} THEN Fail
    ELSE \E o \in outcomes :
             /\ stack' = Append(Below(n), o.value)
             /\ undefined' = (undefined \/ o.undefined)
             /\ frames' = GoOn(1)
             /\ UNCHANGED <<dummies, status, program, stale>>

ApplyUnary == At(UnaryOps) /\ Operate(Unary(ins.op, Top), 1)
ApplyBinary == At(BinaryOps) /\ Operate(Binary(ins.op, stack[Len(stack) - 1], Top), 2)
PushRandom == At({"rand"}) /\ Operate(Rand, 0)

\* A call from one operator to others, with a in a variable of C.
ApplyBessel ==
    /\ At(Bessel)
    /\ frames' = Append(GoOn(1), Frame(BesselCode(ins.op, Top), Len(stack) - 1, <<>>))
    /\ UNCHANGED <<stack, undefined, dummies, status, program, stale>>

Goto(values, by) ==
    /\ stack' = values
    /\ frames' = GoOn(by)
    /\ UNCHANGED <<undefined, dummies, status, program, stale>>

\* Mutant of Jump: it stays.
JumpStays == At({"jump"}) /\ Goto(stack, 0)

Jump == At({"jump"}) /\ Goto(stack, ins.by)

\* Mutant of JumpZero: the argument does not stay for the operator behind.
JumpZeroPopped ==
    /\ At({"jumpz"})
    /\ IF ~IsInt(Top) THEN Fail
       ELSE IF Top.int_val # 0 THEN Goto(Below(1), 1) ELSE Goto(Below(1), ins.by)

\* jumpz leaves its argument when it jumps, and only then.
JumpZero ==
    /\ At({"jumpz"})
    /\ IF ~IsInt(Top) THEN Fail
       ELSE IF Top.int_val # 0 THEN Goto(Below(1), 1) ELSE Goto(stack, ins.by)

JumpNonZero ==
    /\ At({"jumpnz"})
    /\ IF ~IsInt(Top) THEN Fail
       ELSE IF Top.int_val # 0 THEN Goto(stack, ins.by) ELSE Goto(Below(1), 1)

JumpTernary ==
    /\ At({"jtern"})
    /\ IF ~IsInt(Top) THEN Fail
       ELSE Goto(Below(1), IF Top.int_val # 0 THEN 1 ELSE ins.by)

\* Mutant of Return: the stack is reset for the result.
ReturnReset ==
    /\ status = "running" /\ frames # <<>>
    /\ here.pc = End(here.code)
    /\ stack' = <<Top>>
    /\ frames' = SubSeq(frames, 1, Len(frames) - 1)
    /\ status' = IF Len(frames) = 1 THEN "done" ELSE "running"
    /\ UNCHANGED <<undefined, dummies, program, stale>>

\* The end of the code: of a function, or of the program, whose result is taken
\* from the stack.
Return ==
    /\ status = "running" /\ frames # <<>>
    /\ here.pc = End(here.code)
    /\ frames' = SubSeq(frames, 1, Len(frames) - 1)
    /\ status' = IF Len(frames) = 1 THEN "done" ELSE "running"
    /\ UNCHANGED <<stack, undefined, dummies, program, stale>>

Next ==
    \/ Push \/ PushConstant \/ PushDummy \/ PushRandom
    \/ ApplyUnary \/ ApplyBinary \/ ApplyBessel
    \/ Jump \/ JumpZero \/ JumpNonZero \/ JumpTernary
    \/ Call \/ Return

Spec == Init /\ [][Next]_vars /\ WF_vars(Next)

-----------------------------------------------------------------------------
TypeOK ==
    /\ stack \in Seq(AllValues) /\ undefined \in BOOLEAN /\ stale \in BOOLEAN
    /\ dummies \in [Functions -> [1..4 -> AllValues \cup {NoValue}]]
    /\ status \in {"running", "done", "error"}
    /\ frames = <<>> <=> status # "running"

\* The height of the stack is where the types of the codes say it is, through
\* jumps that leave or take their argument, calls and compositions; so nothing is
\* popped from an empty stack, which push and pop test in a DEBUG build only, and
\* at the end there is one value, the result: check_stack has nothing to warn of.
\* (archive/o/internal.c:36-65, 807-857; standard.c:247-301)
StackBalanced ==
    /\ \A k \in 1..Len(frames) :
           LET fr == frames[k]
               above == IF k = Len(frames) THEN Len(stack) ELSE frames[k + 1].base + 1
           IN  fr.pc \in 1..End(fr.code) /\ above = fr.base + fr.code.height[fr.pc]
    /\ frames # <<>> => frames[1].base = 0
    /\ status = "done" => Len(stack) = 1

\* No step touches what the callers have on the stack.
\* (archive/o/internal.c:44-65, 128-149)
CallersKept ==
    [][status' # "error" /\ frames # <<>> =>
           /\ Len(stack') >= here.base
           /\ SubSeq(stack', 1, here.base) = SubSeq(stack, 1, here.base)]_vars

\* Every evaluation ends, if its jumps lead forwards and its functions do not
\* call themselves without end.  (archive/o/internal.c:807-857)
Ends == <>(status # "running")

\* The functions that code calls; which function calls which; and which calls which
\* directly or through others: a function reaches those that are in every set that
\* has the ones it calls and is closed under calls.
Callees(code) ==
    {code.actions[i].f : i \in {j \in 1..Len(code.actions) : code.actions[j].op = "call"}}
Calling ==
    UNION {{<<f, g>> : g \in Callees(Code[f])} : f \in {h \in Functions : Code[h] # NoCode}}
Reaches ==
    {p \in Functions \X Functions :
        \A S \in SUBSET Functions :
            (\A c \in Calling : c[1] \in S \cup {p[1]} => c[2] \in S) => p[2] \in S}

\* The arguments of another call can only be read in a function that calls itself,
\* directly or through others: however calls are nested in arguments, the single
\* place that a function has for each argument is enough.
\* (archive/o/internal.c:95-149)
StaleNeedsRecursion ==
    stale => \E f \in Functions :
                 /\ <<f, f>> \in Reaches
                 /\ \E g \in Callees(program) : g = f \/ <<g, f>> \in Reaches
=============================================================================
