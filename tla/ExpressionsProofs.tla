------------------------- MODULE ExpressionsProofs --------------------------
(***************************************************************************)
(* The calculator gives the value of the expression that its program is    *)
(* the code of, for any width of ints, any sample of doubles, any          *)
(* functions and any depth of expressions and calls: the inductive         *)
(* invariant of Agrees says of every frame that it is on the way to what   *)
(* the frame below it waits for.                                           *)
(***************************************************************************)
EXTENDS MeaningProofs

-----------------------------------------------------------------------------
(* Frames that are on the way to an outcome.                               *)

\* The values from b to t of the stack.
Stretch(s, b, t) == [j \in 1..(t - b) |-> s[b + j]]

\* The frame fr has the code and the arguments of the run c.
Own(fr, c) ==
    /\ c.acts = fr.code.actions /\ c.env \in Seq(AllValues)
    /\ \A i \in 1..Len(c.acts) :
           c.acts[i].op = "pushd" =>
               c.acts[i].i \in 1..Len(c.env) /\ c.env[c.acts[i].i] = fr.args[c.acts[i].i]

\* Every outcome in R leads c on.
Waits(c, pc, seg, R) == \A o \in R : Lead(c, Good(c), pc, seg, FALSE, o)

\* A frame keeps its values above those of the frames below it.
Ordered(fs) == \A k \in 1..Len(fs) : \A m \in k..Len(fs) : fs[k].base <= fs[m].base

\* The frames fs are runs rs on the way to an outcome in A: the last is at a good point,
\* the others wait for what the one behind may give.
Explained(fs, rs, s, u, A) ==
    /\ Ordered(fs)
    /\ \A k \in 1..Len(fs) :
           /\ Own(fs[k], rs[k])
           /\ Failed \in rs[k].goal => Failed \in A
           /\ k = Len(fs) => <<fs[k].pc, Stretch(s, fs[k].base, Len(s)), u>> \in Good(rs[k])
           /\ k # Len(fs) =>
                  Waits(rs[k], fs[k].pc, Stretch(s, fs[k].base, fs[k + 1].base), rs[k + 1].goal)
    /\ 1 \in 1..Len(fs) => rs[1].goal = A

\* A stretch depends on the values in it only.
LEMMA SameStretch ==
    ASSUME NEW s, NEW t, NEW b \in Nat, NEW e \in Nat, \A i \in 1..e : t[i] = s[i]
    PROVE  Stretch(t, b, e) = Stretch(s, b, e)
<1>1. \A j \in 1..(e - b) : b + j \in 1..e
  OBVIOUS
<1>2. \A j \in 1..(e - b) : t[b + j] = s[b + j]
  BY <1>1
<1> QED
  BY <1>2 DEF Stretch

\* A stretch of the stack.
LEMMA StretchTyped ==
    ASSUME NEW s \in Seq(AllValues), NEW b \in Nat, NEW e \in Nat, b <= e, e <= Len(s)
    PROVE  /\ Stretch(s, b, e) \in Seq(AllValues) /\ Len(Stretch(s, b, e)) = e - b
           /\ \A j \in 1..(e - b) : Stretch(s, b, e)[j] = s[b + j]
<1>1. e - b \in Nat
  OBVIOUS
<1>2. \A j \in 1..(e - b) : b + j \in 1..Len(s)
  OBVIOUS
<1>3. \A j \in 1..(e - b) : s[b + j] \in AllValues
  BY <1>2
<1>4. Stretch(s, b, e) \in [1..(e - b) -> AllValues]
  BY <1>3 DEF Stretch
<1>5. \A j \in 1..(e - b) : Stretch(s, b, e)[j] = s[b + j]
  BY DEF Stretch
<1> QED
  BY <1>1, <1>4, <1>5, ListsAre

\* The stretch on top.
LEMMA StretchTop ==
    ASSUME NEW s \in Seq(AllValues), NEW b \in Nat, b <= Len(s)
    PROVE  /\ Stretch(s, b, Len(s)) \in Seq(AllValues) /\ Len(Stretch(s, b, Len(s))) = Len(s) - b
           /\ \A j \in 1..(Len(s) - b) : Stretch(s, b, Len(s))[j] = s[b + j]
<1>1. PICK e \in Nat : e = Len(s)
  OBVIOUS
<1>2. b <= e /\ e <= Len(s)
  BY <1>1
<1>3. /\ Stretch(s, b, e) \in Seq(AllValues) /\ Len(Stretch(s, b, e)) = e - b
      /\ \A j \in 1..(e - b) : Stretch(s, b, e)[j] = s[b + j]
  BY <1>2, StretchTyped
<1> QED
  BY <1>1, <1>3

\* The stretch on top, when m values are taken from it, and when one is put there.
LEMMA StretchTaken ==
    ASSUME NEW s \in Seq(AllValues), NEW t \in Seq(AllValues), NEW b \in Nat, NEW m \in Nat,
           b + m <= Len(s), Len(t) = Len(s) - m, \A i \in 1..(Len(s) - m) : t[i] = s[i]
    PROVE  Stretch(t, b, Len(t)) = Front(Stretch(s, b, Len(s)), m)
<1> DEFINE seg == Stretch(s, b, Len(s))
           new == Stretch(t, b, Len(t))
<1>1. Len(s) \in Nat /\ Len(t) \in Nat /\ b <= Len(s) /\ b <= Len(t)
  OBVIOUS
<1>2. /\ seg \in Seq(AllValues) /\ Len(seg) = Len(s) - b
      /\ \A j \in 1..(Len(s) - b) : seg[j] = s[b + j]
  BY <1>1, StretchTop
<1>3. /\ new \in Seq(AllValues) /\ Len(new) = Len(t) - b
      /\ \A j \in 1..(Len(t) - b) : new[j] = t[b + j]
  BY <1>1, StretchTop
<1> HIDE DEF seg, new
<1>4. m <= Len(seg)
  BY <1>1, <1>2
<1>5. /\ Front(seg, m) \in Seq(AllValues) /\ Len(Front(seg, m)) = Len(seg) - m
      /\ \A i \in 1..(Len(seg) - m) : Front(seg, m)[i] = seg[i]
  BY <1>2, <1>4, FrontTyped
<1>6. Len(new) = Len(Front(seg, m))
  BY <1>1, <1>2, <1>3, <1>5
<1>7. ASSUME NEW j \in 1..Len(new) PROVE new[j] = Front(seg, m)[j]
  <2>1. j \in 1..(Len(t) - b) /\ j \in 1..(Len(s) - b) /\ j \in 1..(Len(seg) - m)
        /\ b + j \in 1..(Len(s) - m)
    BY <1>1, <1>2, <1>3
  <2>2. new[j] = t[b + j] /\ t[b + j] = s[b + j] /\ seg[j] = s[b + j]
    BY <1>2, <1>3, <2>1
  <2> QED
    BY <1>5, <2>1, <2>2
<1>8. new = Front(seg, m)
  BY <1>3, <1>5, <1>6, <1>7, SameSeq
<1> QED
  BY <1>8 DEF seg, new

\* A value on top is on top of the stretch.
LEMMA StretchPut ==
    ASSUME NEW s \in Seq(AllValues), NEW b \in Nat, b <= Len(s), NEW v \in AllValues
    PROVE  Stretch(Append(s, v), b, Len(Append(s, v))) = Append(Stretch(s, b, Len(s)), v)
<1> DEFINE t == Append(s, v)
           seg == Stretch(s, b, Len(s))
           new == Stretch(t, b, Len(t))
           put == Append(seg, v)
<1>1. /\ t \in Seq(AllValues) /\ Len(t) = Len(s) + 1 /\ Len(s) \in Nat /\ t[Len(s) + 1] = v
      /\ \A i \in 1..Len(s) : t[i] = s[i]
  BY AppendParts
<1> HIDE DEF t
<1>2. /\ seg \in Seq(AllValues) /\ Len(seg) = Len(s) - b
      /\ \A j \in 1..(Len(s) - b) : seg[j] = s[b + j]
  BY <1>1, StretchTop
<1>3. /\ new \in Seq(AllValues) /\ Len(new) = Len(t) - b
      /\ \A j \in 1..(Len(t) - b) : new[j] = t[b + j]
  <2>1. Len(t) \in Nat /\ b <= Len(t)
    BY <1>1
  <2> QED
    BY <1>1, <2>1, StretchTop
<1> HIDE DEF seg, new
<1>4. /\ put \in Seq(AllValues) /\ Len(put) = Len(seg) + 1 /\ put[Len(seg) + 1] = v
      /\ \A i \in 1..Len(seg) : put[i] = seg[i]
  BY <1>2, AppendParts
<1> HIDE DEF put
<1>5. Len(new) = Len(put)
  BY <1>1, <1>2, <1>3, <1>4
<1>6. ASSUME NEW j \in 1..Len(new) PROVE new[j] = put[j]
  <2>1. new[j] = t[b + j]
    BY <1>3
  <2>2. CASE j = Len(seg) + 1
    <3>1. b + j = Len(s) + 1
      BY <1>1, <1>2, <2>2
    <3> QED
      BY <1>1, <1>4, <2>1, <2>2, <3>1
  <2>3. CASE j # Len(seg) + 1
    <3>1. j \in 1..Len(seg) /\ j \in 1..(Len(s) - b) /\ b + j \in 1..Len(s)
      BY <1>1, <1>2, <1>3, <2>3
    <3>2. seg[j] = s[b + j] /\ t[b + j] = s[b + j] /\ put[j] = seg[j]
      BY <1>1, <1>2, <1>4, <3>1
    <3> QED
      BY <2>1, <3>2
  <2> QED
    BY <2>2, <2>3
<1>7. new = put
  BY <1>3, <1>4, <1>5, <1>6, SameSeq
<1> QED
  BY <1>7 DEF new, put, seg, t

\* Another frame with the same code and arguments.
LEMMA OwnSame ==
    ASSUME NEW f, NEW g, f.code = g.code, f.args = g.args, NEW c, Own(f, c)
    PROVE  Own(g, c)
  BY DEF Own

\* The last frame moves to a good point.
LEMMA ExplainedMoves ==
    ASSUME NEW fs, NEW gs, Len(fs) \in Nat \ {0}, Len(gs) = Len(fs),
           \A k \in 1..Len(fs) : /\ fs[k].base \in Nat
                                 /\ gs[k].code = fs[k].code /\ gs[k].args = fs[k].args
                                 /\ gs[k].base = fs[k].base
                                 /\ k # Len(fs) => gs[k].pc = fs[k].pc,
           NEW rs, NEW s, NEW t, NEW u, NEW v, NEW A, Explained(fs, rs, s, u, A),
           \A i \in 1..fs[Len(fs)].base : t[i] = s[i],
           <<gs[Len(fs)].pc, Stretch(t, fs[Len(fs)].base, Len(t)), v>> \in Good(rs[Len(fs)])
    PROVE  Explained(gs, rs, t, v, A)
<1> DEFINE n == Len(fs)
<1>1. Ordered(gs)
  BY DEF Explained, Ordered
<1>2. ASSUME NEW k \in 1..n PROVE Own(gs[k], rs[k]) /\ (Failed \in rs[k].goal => Failed \in A)
  <2>1. Own(fs[k], rs[k]) /\ (Failed \in rs[k].goal => Failed \in A)
    BY DEF Explained
  <2>2. gs[k].code = fs[k].code /\ gs[k].args = fs[k].args
    OBVIOUS
  <2> QED
    BY <2>1, <2>2, OwnSame
<1>3. ASSUME NEW k \in 1..n, k # n
      PROVE  Waits(rs[k], gs[k].pc, Stretch(t, gs[k].base, gs[k + 1].base), rs[k + 1].goal)
  <2>1. Waits(rs[k], fs[k].pc, Stretch(s, fs[k].base, fs[k + 1].base), rs[k + 1].goal)
    BY <1>3 DEF Explained
  <2>2. k + 1 \in 1..n /\ n \in (k + 1)..n
    BY <1>3
  <2>3. fs[k + 1].base <= fs[n].base /\ fs[k].base \in Nat /\ fs[k + 1].base \in Nat /\ fs[n].base \in Nat
    BY <2>2 DEF Explained, Ordered
  <2>4. \A i \in 1..fs[k + 1].base : t[i] = s[i]
    BY <2>3
  <2>5. Stretch(t, fs[k].base, fs[k + 1].base) = Stretch(s, fs[k].base, fs[k + 1].base)
    <3>1. PICK b \in Nat, e \in Nat : b = fs[k].base /\ e = fs[k + 1].base
      BY <2>3
    <3>2. \A i \in 1..e : t[i] = s[i]
      BY <2>4, <3>1
    <3>3. Stretch(t, b, e) = Stretch(s, b, e)
      BY <3>2, SameStretch
    <3> QED
      BY <3>1, <3>3
  <2>6. gs[k].pc = fs[k].pc /\ gs[k].base = fs[k].base /\ gs[k + 1].base = fs[k + 1].base
    BY <1>3, <2>2
  <2> QED
    BY <2>1, <2>5, <2>6
<1>4. <<gs[n].pc, Stretch(t, gs[n].base, Len(t)), v>> \in Good(rs[n])
  OBVIOUS
<1>5. 1 \in 1..n => rs[1].goal = A
  BY DEF Explained
<1> QED
  BY <1>1, <1>2, <1>3, <1>4, <1>5 DEF Explained

\* A frame is put behind the others, and the last of them waits for it.
LEMMA ExplainedEnters ==
    ASSUME NEW fs, NEW gs, Len(fs) \in Nat \ {0}, Len(gs) = Len(fs) + 1,
           \A k \in 1..Len(fs) : /\ fs[k].base \in Nat
                                 /\ gs[k].code = fs[k].code /\ gs[k].args = fs[k].args
                                 /\ gs[k].base = fs[k].base
                                 /\ k # Len(fs) => gs[k].pc = fs[k].pc,
           gs[Len(gs)].base \in Nat, fs[Len(fs)].base <= gs[Len(gs)].base,
           NEW rs, NEW s, NEW t, NEW u, NEW v, NEW A, Explained(fs, rs, s, u, A),
           \A i \in 1..fs[Len(fs)].base : t[i] = s[i],
           NEW c, Own(gs[Len(gs)], c), Failed \in c.goal => Failed \in A,
           <<gs[Len(gs)].pc, Stretch(t, gs[Len(gs)].base, Len(t)), v>> \in Good(c),
           Waits(rs[Len(fs)], gs[Len(fs)].pc, Stretch(t, fs[Len(fs)].base, gs[Len(gs)].base), c.goal)
    PROVE  \E qs : Explained(gs, qs, t, v, A)
<1> DEFINE n == Len(fs)
           qs == [k \in 1..(n + 1) |-> IF k = n + 1 THEN c ELSE rs[k]]
<1>1. n \in Nat \ {0} /\ n \in 1..n /\ n + 1 \in 1..(n + 1)
  OBVIOUS
<1>2. qs[n + 1] = c /\ \A k \in 1..n : k \in 1..(n + 1) /\ qs[k] = rs[k]
  BY <1>1
<1> HIDE DEF qs
<1>3. Ordered(gs)
  <2>1. ASSUME NEW k \in 1..Len(gs), NEW m \in k..Len(gs) PROVE gs[k].base <= gs[m].base
    <3>1. CASE m # n + 1
      <4>1. k \in 1..n /\ m \in k..n /\ m \in 1..n
        BY <3>1
      <4>2. fs[k].base <= fs[m].base
        BY <4>1 DEF Explained, Ordered
      <4> QED
        BY <4>1, <4>2
    <3>2. CASE m = n + 1 /\ k # n + 1
      <4>1. k \in 1..n /\ n \in k..n
        BY <3>2
      <4>2. fs[k].base <= fs[n].base
        BY <4>1 DEF Explained, Ordered
      <4>3. gs[k].base = fs[k].base /\ fs[k].base \in Nat /\ fs[n].base \in Nat
        BY <4>1
      <4> QED
        BY <3>2, <4>2, <4>3
    <3>3. CASE m = n + 1 /\ k = n + 1
      BY <3>3
    <3> QED
      BY <3>1, <3>2, <3>3
  <2> QED
    BY <2>1 DEF Ordered
<1>4. ASSUME NEW k \in 1..n PROVE Own(gs[k], qs[k]) /\ (Failed \in qs[k].goal => Failed \in A)
  <2>1. Own(fs[k], rs[k]) /\ (Failed \in rs[k].goal => Failed \in A)
    BY DEF Explained
  <2>2. gs[k].code = fs[k].code /\ gs[k].args = fs[k].args
    OBVIOUS
  <2>3. Own(gs[k], rs[k])
    BY <2>1, <2>2, OwnSame
  <2> QED
    BY <1>2, <2>1, <2>3
<1>5. ASSUME NEW k \in 1..n, k # n
      PROVE  Waits(qs[k], gs[k].pc, Stretch(t, gs[k].base, gs[k + 1].base), qs[k + 1].goal)
  <2>1. Waits(rs[k], fs[k].pc, Stretch(s, fs[k].base, fs[k + 1].base), rs[k + 1].goal)
    BY <1>5 DEF Explained
  <2>2. k + 1 \in 1..n /\ n \in (k + 1)..n
    BY <1>5
  <2>3. fs[k + 1].base <= fs[n].base /\ fs[k].base \in Nat /\ fs[k + 1].base \in Nat /\ fs[n].base \in Nat
    BY <2>2 DEF Explained, Ordered
  <2>4. \A i \in 1..fs[k + 1].base : t[i] = s[i]
    BY <2>3
  <2>5. Stretch(t, fs[k].base, fs[k + 1].base) = Stretch(s, fs[k].base, fs[k + 1].base)
    <3>1. PICK b \in Nat, e \in Nat : b = fs[k].base /\ e = fs[k + 1].base
      BY <2>3
    <3>2. \A i \in 1..e : t[i] = s[i]
      BY <2>4, <3>1
    <3>3. Stretch(t, b, e) = Stretch(s, b, e)
      BY <3>2 DEF Stretch
    <3> QED
      BY <3>1, <3>3
  <2>6. gs[k].pc = fs[k].pc /\ gs[k].base = fs[k].base /\ gs[k + 1].base = fs[k + 1].base
    BY <1>5, <2>2
  <2>7. qs[k] = rs[k] /\ qs[k + 1] = rs[k + 1]
    BY <1>2, <2>2
  <2> QED
    BY <2>1, <2>5, <2>6, <2>7
<1>6. Waits(qs[n], gs[n].pc, Stretch(t, gs[n].base, gs[n + 1].base), qs[n + 1].goal)
  BY <1>1, <1>2
<1>7. Own(gs[n + 1], qs[n + 1]) /\ (Failed \in qs[n + 1].goal => Failed \in A)
  BY <1>2
<1>8. <<gs[n + 1].pc, Stretch(t, gs[n + 1].base, Len(t)), v>> \in Good(qs[n + 1])
  BY <1>2
<1>9. qs[1].goal = A
  BY <1>1, <1>2 DEF Explained
<1>10. ASSUME NEW k \in 1..Len(gs)
       PROVE  /\ Own(gs[k], qs[k])
              /\ Failed \in qs[k].goal => Failed \in A
              /\ k = Len(gs) => <<gs[k].pc, Stretch(t, gs[k].base, Len(t)), v>> \in Good(qs[k])
              /\ k # Len(gs) =>
                     Waits(qs[k], gs[k].pc, Stretch(t, gs[k].base, gs[k + 1].base), qs[k + 1].goal)
  <2>1. CASE k = n + 1
    BY <1>7, <1>8, <2>1
  <2>2. CASE k = n
    BY <1>1, <1>4, <1>6, <2>2
  <2>3. CASE k # n + 1 /\ k # n
    <3>1. k \in 1..n
      BY <2>3
    <3> QED
      BY <1>4, <1>5, <2>3, <3>1
  <2> QED
    BY <2>1, <2>2, <2>3
<1>11. Explained(gs, qs, t, v, A)
  BY <1>3, <1>9, <1>10 DEF Explained
<1> QED
  BY <1>11

\* The last frame is left with an outcome that is allowed, which is on top.
LEMMA ExplainedLeaves ==
    ASSUME NEW fs, NEW gs, Len(fs) \in Nat, Len(fs) > 1, Len(gs) = Len(fs) - 1,
           \A k \in 1..Len(gs) : gs[k] = fs[k],
           NEW rs, NEW s, NEW u \in BOOLEAN, NEW A, Explained(fs, rs, s, u, A), NEW v,
           [value |-> v, undefined |-> u] \in rs[Len(fs)].goal,
           [value |-> v, undefined |-> u] # Failed,
           Stretch(s, fs[Len(gs)].base, Len(s))
               = Append(Stretch(s, fs[Len(gs)].base, fs[Len(fs)].base), v)
    PROVE  Explained(gs, rs, s, u, A)
<1> DEFINE n == Len(fs)
           m == Len(gs)
           o == [value |-> v, undefined |-> u]
           seg == Stretch(s, fs[m].base, fs[n].base)
<1>1. m \in 1..n /\ m # n /\ m + 1 = n /\ m \in 1..m /\ 1 \in 1..n /\ m \in Nat
  OBVIOUS
<1>2. Waits(rs[m], fs[m].pc, seg, rs[n].goal)
  BY <1>1 DEF Explained
<1>3. Lead(rs[m], Good(rs[m]), fs[m].pc, seg, FALSE, o)
  BY <1>2 DEF Waits
<1>4. <<fs[m].pc, Append(seg, o.value), Either(FALSE, o.undefined)>> \in Good(rs[m])
  BY <1>3, LeadOn
<1>5. o.value = v /\ Either(FALSE, o.undefined) = u
  BY EitherFalse
<1>6. <<fs[m].pc, Stretch(s, fs[m].base, Len(s)), u>> \in Good(rs[m])
  BY <1>4, <1>5
<1>7. Ordered(gs)
  <2>1. ASSUME NEW k \in 1..m, NEW j \in k..m PROVE gs[k].base <= gs[j].base
    <3>1. k \in 1..n /\ j \in k..n /\ j \in 1..m
      BY <1>1
    <3> QED
      BY <3>1 DEF Explained, Ordered
  <2> QED
    BY <2>1 DEF Ordered
<1>8. ASSUME NEW k \in 1..m
      PROVE  /\ Own(gs[k], rs[k])
             /\ Failed \in rs[k].goal => Failed \in A
             /\ k # m => Waits(rs[k], gs[k].pc, Stretch(s, gs[k].base, gs[k + 1].base), rs[k + 1].goal)
  <2>1. k \in 1..n /\ k # n
    BY <1>1
  <2>2. k # m => k + 1 \in 1..m
    BY <1>1
  <2>3. gs[k] = fs[k] /\ (k # m => gs[k + 1] = fs[k + 1])
    BY <2>2
  <2> QED
    BY <2>1, <2>3 DEF Explained
<1>9. rs[1].goal = A
  BY <1>1 DEF Explained
<1>10. gs[m] = fs[m]
  BY <1>1
<1> QED
  BY <1>6, <1>7, <1>8, <1>9, <1>10 DEF Explained

-----------------------------------------------------------------------------
(* The frame underway.                                                     *)

\* What the frame underway has on the stack, and what the program may give.
Segment == Stretch(stack, here.base, Len(stack))

\* What the program may give.
Wanted == Value[<<program.source, <<>>>>]

\* The frames when the last one goes on.
LEMMA GoOnParts ==
    ASSUME CalculatorInv, frames # <<>>, NEW by \in Int
    PROVE  /\ Len(frames) \in Nat \ {0} /\ Len(GoOn(by)) = Len(frames)
           /\ GoOn(by)[Len(frames)].pc = here.pc + by
           /\ \A k \in 1..Len(frames) : /\ frames[k].base \in Nat
                                        /\ GoOn(by)[k].code = frames[k].code
                                        /\ GoOn(by)[k].args = frames[k].args
                                        /\ GoOn(by)[k].base = frames[k].base
                                        /\ k # Len(frames) => GoOn(by)[k].pc = frames[k].pc
<1>1. frames \in Seq(FrameRecords) /\ Len(frames) \in Nat \ {0} /\ Len(frames) \in 1..Len(frames)
  BY EmptySeq, LenProperties DEF CalculatorInv
<1>2. \A k \in 1..Len(frames) : frames[k] \in FrameRecords
  BY <1>1
<1>3. /\ Len(GoOn(by)) = Len(frames)
      /\ \A k \in 1..Len(frames) :
             GoOn(by)[k] = IF k = Len(frames) THEN [frames[k] EXCEPT !.pc = @ + by] ELSE frames[k]
  BY <1>1 DEF GoOn
<1>4. ASSUME NEW fr \in FrameRecords
      PROVE  LET g == [fr EXCEPT !.pc = @ + by] IN
             /\ g.pc = fr.pc + by /\ g.code = fr.code /\ g.args = fr.args /\ g.base = fr.base
             /\ fr.base \in Nat
  BY DEF FrameRecords
<1>5. GoOn(by)[Len(frames)].pc = here.pc + by
  BY <1>1, <1>2, <1>3, <1>4 DEF here
<1>6. ASSUME NEW k \in 1..Len(frames)
      PROVE  /\ frames[k].base \in Nat
             /\ GoOn(by)[k].code = frames[k].code
             /\ GoOn(by)[k].args = frames[k].args
             /\ GoOn(by)[k].base = frames[k].base
             /\ k # Len(frames) => GoOn(by)[k].pc = frames[k].pc
  <2>1. frames[k] \in FrameRecords
    BY <1>2
  <2>2. CASE k = Len(frames)
    BY <1>3, <1>4, <2>1, <2>2
  <2>3. CASE k # Len(frames)
    BY <1>3, <1>4, <2>1, <2>3
  <2> QED
    BY <2>2, <2>3
<1> QED
  BY <1>1, <1>3, <1>5, <1>6

\* The point of the frame underway.
LEMMA TopPoint ==
    ASSUME CalculatorInv, NEW ops, At(ops), NEW rs, NEW A,
           Explained(frames, rs, stack, undefined, A), NEW c, c = rs[Len(frames)]
    PROVE  /\ c.acts \in Seq(Actions) /\ here.pc \in 1..Len(c.acts) /\ here.pc \in Nat
           /\ c.acts[here.pc] = ins /\ ins \in Actions /\ ins.op \in ops
           /\ Segment \in Seq(AllValues) /\ Len(Segment) = Len(stack) - here.base
           /\ Len(stack) \in Nat /\ here.base \in Nat /\ here.base <= Len(stack)
           /\ Needs(ins) <= Len(Segment)
           /\ \A j \in 1..(Len(stack) - here.base) : Segment[j] = stack[here.base + j]
           /\ <<here.pc, Segment, undefined>> \in Good(c) /\ undefined \in BOOLEAN
           /\ Failed \in c.goal => Failed \in A
           /\ Own(here, c)
           /\ here.pc # Len(c.acts) + 1
<1>1. /\ frames # <<>> /\ Len(frames) \in Nat \ {0}
      /\ here.code \in Codes
      /\ here.pc \in 1..Len(here.code.actions) /\ ins \in Actions /\ ins.op \in ops
      /\ Len(stack) \in Nat
      /\ here.base \in Nat /\ here.code.height[here.pc] \in Nat
      /\ Len(stack) = here.base + here.code.height[here.pc]
      /\ Needs(ins) <= here.code.height[here.pc]
  BY Underway
<1>2. stack \in Seq(AllValues) /\ undefined \in BOOLEAN
  BY DEF CalculatorInv, TypeOK
<1>3. here.base <= Len(stack)
  BY <1>1
<1>4. /\ Segment \in Seq(AllValues) /\ Len(Segment) = Len(stack) - here.base
      /\ \A j \in 1..(Len(stack) - here.base) : Segment[j] = stack[here.base + j]
  BY <1>1, <1>2, <1>3, StretchTop DEF Segment
<1>5. Needs(ins) <= Len(Segment)
  <2>1. Len(Segment) = here.code.height[here.pc]
    BY <1>1, <1>4
  <2> QED
    BY <1>1, <2>1
<1>6. Len(frames) \in 1..Len(frames)
  BY <1>1
<1>7. /\ Own(here, c) /\ (Failed \in c.goal => Failed \in A)
      /\ <<here.pc, Segment, undefined>> \in Good(c)
  BY <1>6 DEF Explained, here, Segment
<1>8. c.acts = here.code.actions
  BY <1>7 DEF Own
<1>9. here.code.actions \in Seq(Actions) /\ Len(here.code.actions) \in Nat
  BY <1>1, CodesTyped
<1>10. here.pc \in Nat /\ here.pc # Len(c.acts) + 1
  BY <1>1, <1>8, <1>9
<1>11. c.acts[here.pc] = ins
  BY <1>8 DEF ins
<1> QED
  BY <1>1, <1>2, <1>3, <1>4, <1>5, <1>7, <1>8, <1>9, <1>10, <1>11

\* What the action underway gives leads on.
LEMMA TopGives ==
    ASSUME CalculatorInv, NEW ops, At(ops), NEW rs, NEW A,
           Explained(frames, rs, stack, undefined, A), NEW c, c = rs[Len(frames)],
           ins.op \notin JumpOps, NEW o \in Given(c.env, ins, Segment)
    PROVE  Lead(c, Good(c), here.pc + 1, Front(Segment, Needs(ins)), undefined, o)
<1>1. /\ <<here.pc, Segment, undefined>> \in Good(c) /\ here.pc # Len(c.acts) + 1
      /\ c.acts[here.pc] = ins
  BY TopPoint
<1>2. Ok(c, Good(c), here.pc, Segment, undefined)
  BY <1>1, GoodOk
<1>3. Leads(c, Good(c), here.pc, Segment, undefined)
  BY <1>1, <1>2 DEF Ok
<1> QED
  BY <1>1, <1>3 DEF Leads

\* When the action underway may fail, the program may.
LEMMA TopFails ==
    ASSUME CalculatorInv, NEW ops, At(ops), NEW rs, NEW A,
           Explained(frames, rs, stack, undefined, A), NEW c, c = rs[Len(frames)],
           ins.op \notin JumpOps, Failed \in Given(c.env, ins, Segment)
    PROVE  Failed \in A
<1>1. Lead(c, Good(c), here.pc + 1, Front(Segment, Needs(ins)), undefined, Failed)
  BY TopGives
<1>2. Failed \in c.goal => Failed \in A
  BY TopPoint
<1> QED
  BY <1>1, <1>2, LeadFailed

\* The action underway takes m values and gives the outcome o.
LEMMA TopMoves ==
    ASSUME CalculatorInv, NEW ops, At(ops), NEW rs, NEW A,
           Explained(frames, rs, stack, undefined, A), NEW c, c = rs[Len(frames)],
           ins.op \notin JumpOps, NEW m \in Nat, m = Needs(ins),
           NEW o \in Given(c.env, ins, Segment), o # Failed, o.value \in AllValues,
           frames' = GoOn(1), stack' = Append(Below(m), o.value),
           undefined' = Either(undefined, o.undefined)
    PROVE  Explained(frames', rs, stack', undefined', A)
<1>1. PICK gs, t, v : gs = frames' /\ t = stack' /\ v = undefined'
  OBVIOUS
<1>2. <<here.pc + 1, Append(Front(Segment, m), o.value), v>> \in Good(c)
  BY <1>1, TopGives, LeadOn
<1>3. /\ Segment \in Seq(AllValues) /\ Len(Segment) = Len(stack) - here.base
      /\ Len(stack) \in Nat /\ here.base \in Nat /\ here.base <= Len(stack)
      /\ m <= Len(Segment)
  BY TopPoint
<1>4. /\ m <= Len(stack)
      /\ Below(m) \in Seq(AllValues) /\ Len(Below(m)) = Len(stack) - m
      /\ \A i \in 1..(Len(stack) - m) : Below(m)[i] = stack[i]
  BY Taken
<1> DEFINE b == Below(m)
<1> HIDE DEF b
<1>5. /\ b \in Seq(AllValues) /\ Len(b) = Len(stack) - m
      /\ \A i \in 1..(Len(stack) - m) : b[i] = stack[i]
      /\ t = Append(b, o.value)
  BY <1>1, <1>4 DEF b
<1>6. stack \in Seq(AllValues)
  BY DEF CalculatorInv, TypeOK
<1>7. here.base + m <= Len(stack)
  BY <1>3
<1>8. Stretch(b, here.base, Len(b)) = Front(Segment, m)
  <2>1. PICK h \in Nat : h = here.base
    BY <1>3
  <2>2. h + m <= Len(stack)
    BY <1>7, <2>1
  <2>3. Stretch(b, h, Len(b)) = Front(Stretch(stack, h, Len(stack)), m)
    BY <1>5, <1>6, <2>2, StretchTaken
  <2> QED
    BY <2>1, <2>3 DEF Segment
<1>9. here.base <= Len(b)
  BY <1>3, <1>5, <1>7
<1>10. Stretch(t, here.base, Len(t)) = Append(Front(Segment, m), o.value)
  BY <1>3, <1>5, <1>8, <1>9, StretchPut
<1>11. \A i \in 1..here.base : t[i] = stack[i]
  <2>1. \A i \in 1..here.base : i \in 1..Len(b) /\ i \in 1..(Len(stack) - m)
    BY <1>3, <1>5, <1>9
  <2>2. \A i \in 1..Len(b) : t[i] = b[i]
    BY <1>5, AppendParts
  <2> QED
    BY <1>5, <2>1, <2>2
<1>12. frames # <<>>
  BY Underway
<1>13. /\ Len(frames) \in Nat \ {0} /\ Len(gs) = Len(frames)
       /\ gs[Len(frames)].pc = here.pc + 1
       /\ \A k \in 1..Len(frames) : /\ frames[k].base \in Nat
                                    /\ gs[k].code = frames[k].code
                                    /\ gs[k].args = frames[k].args
                                    /\ gs[k].base = frames[k].base
                                    /\ k # Len(frames) => gs[k].pc = frames[k].pc
  BY <1>1, <1>12, GoOnParts
<1>14. <<gs[Len(frames)].pc, Stretch(t, frames[Len(frames)].base, Len(t)), v>> \in Good(rs[Len(frames)])
  BY <1>2, <1>10, <1>13 DEF here
<1>15. \A i \in 1..frames[Len(frames)].base : t[i] = stack[i]
  BY <1>11 DEF here
<1>16. Explained(gs, rs, t, v, A)
  BY <1>13, <1>14, <1>15, ExplainedMoves
<1> QED
  BY <1>1, <1>16

\* The action underway takes m values and leads to a good point.
LEMMA TopTakes ==
    ASSUME CalculatorInv, NEW ops, At(ops), NEW rs, NEW A,
           Explained(frames, rs, stack, undefined, A), NEW c, c = rs[Len(frames)],
           NEW m \in Nat, m <= Needs(ins), NEW by \in Int,
           <<here.pc + by, Front(Segment, m), undefined>> \in Good(c),
           frames' = GoOn(by), stack' = Below(m), undefined' = undefined
    PROVE  Explained(frames', rs, stack', undefined', A)
<1>1. PICK gs, t : gs = frames' /\ t = stack'
  OBVIOUS
<1>2. /\ Segment \in Seq(AllValues) /\ Len(Segment) = Len(stack) - here.base
      /\ Len(stack) \in Nat /\ here.base \in Nat /\ here.base <= Len(stack)
      /\ m <= Len(Segment)
  <2>1. /\ Segment \in Seq(AllValues) /\ Len(Segment) = Len(stack) - here.base
        /\ Len(stack) \in Nat /\ here.base \in Nat /\ here.base <= Len(stack)
        /\ Needs(ins) <= Len(Segment) /\ ins \in Actions
    BY TopPoint
  <2>2. Needs(ins) \in Int
    BY <2>1, NeedsTyped
  <2> QED
    BY <2>1, <2>2
<1>3. /\ m <= Len(stack)
      /\ t \in Seq(AllValues) /\ Len(t) = Len(stack) - m
      /\ \A i \in 1..(Len(stack) - m) : t[i] = stack[i]
  BY <1>1, Taken
<1>4. stack \in Seq(AllValues)
  BY DEF CalculatorInv, TypeOK
<1>5. here.base + m <= Len(stack)
  BY <1>2
<1>6. Stretch(t, here.base, Len(t)) = Front(Segment, m)
  <2>1. PICK h \in Nat : h = here.base
    BY <1>2
  <2>2. h + m <= Len(stack)
    BY <1>5, <2>1
  <2>3. Stretch(t, h, Len(t)) = Front(Stretch(stack, h, Len(stack)), m)
    BY <1>3, <1>4, <2>2, StretchTaken
  <2> QED
    BY <2>1, <2>3 DEF Segment
<1>7. \A i \in 1..here.base : t[i] = stack[i]
  <2>1. \A i \in 1..here.base : i \in 1..(Len(stack) - m)
    BY <1>2, <1>3, <1>5
  <2> QED
    BY <1>3, <2>1
<1>8. frames # <<>>
  BY Underway
<1>9. /\ Len(frames) \in Nat \ {0} /\ Len(gs) = Len(frames)
      /\ gs[Len(frames)].pc = here.pc + by
      /\ \A k \in 1..Len(frames) : /\ frames[k].base \in Nat
                                   /\ gs[k].code = frames[k].code
                                   /\ gs[k].args = frames[k].args
                                   /\ gs[k].base = frames[k].base
                                   /\ k # Len(frames) => gs[k].pc = frames[k].pc
  BY <1>1, <1>8, GoOnParts
<1>10. <<gs[Len(frames)].pc, Stretch(t, frames[Len(frames)].base, Len(t)), undefined>>
           \in Good(rs[Len(frames)])
  BY <1>6, <1>9 DEF here
<1>11. \A i \in 1..frames[Len(frames)].base : t[i] = stack[i]
  BY <1>7 DEF here
<1>12. Explained(gs, rs, t, undefined, A)
  BY <1>9, <1>10, <1>11, ExplainedMoves
<1> QED
  BY <1>1, <1>12

\* Where the jumps lead.
LEMMA TopJumps ==
    ASSUME CalculatorInv, NEW ops, At(ops), NEW rs, NEW A,
           Explained(frames, rs, stack, undefined, A), NEW c, c = rs[Len(frames)], ins.op \in JumpOps
    PROVE  LET next == <<here.pc + 1, Front(Segment, 1), undefined>> \in Good(c)
               stay == <<here.pc + ins.by, Front(Segment, 0), undefined>> \in Good(c)
               take == <<here.pc + ins.by, Front(Segment, 1), undefined>> \in Good(c)
           IN  /\ ins.op = "jump" => stay
               /\ ins.op # "jump" =>
                      /\ ~IsInt(Top) => Failed \in A
                      /\ IsInt(Top) /\ Top.int_val # 0 =>
                             /\ ins.op \in {"jumpz", "jtern"} => next
                             /\ ins.op = "jumpnz" => stay
                      /\ IsInt(Top) /\ Top.int_val = 0 =>
                             /\ ins.op = "jumpz" => stay
                             /\ ins.op = "jumpnz" => next
                             /\ ins.op = "jtern" => take
<1> DEFINE next == <<here.pc + 1, Front(Segment, 1), undefined>> \in Good(c)
           stay == <<here.pc + ins.by, Front(Segment, 0), undefined>> \in Good(c)
           take == <<here.pc + ins.by, Front(Segment, 1), undefined>> \in Good(c)
<1>1. /\ <<here.pc, Segment, undefined>> \in Good(c) /\ here.pc # Len(c.acts) + 1
      /\ c.acts[here.pc] = ins /\ Segment \in Seq(AllValues)
      /\ Failed \in c.goal => Failed \in A
  BY TopPoint
<1>2. Ok(c, Good(c), here.pc, Segment, undefined)
  BY <1>1, GoodOk
<1>3. Front(Segment, 0) = Segment
  BY <1>1, FrontNone
<1>4. /\ ins.op = "jump" => stay
      /\ ins.op = "jumpz" => Turns(c, Segment, next, stay)
      /\ ins.op = "jumpnz" => Turns(c, Segment, stay, next)
      /\ ins.op = "jtern" => Turns(c, Segment, next, take)
  BY <1>1, <1>2, <1>3, Zenon DEF Ok
<1>5. ins.op # "jump" => Segment[Len(Segment)] = Top
  <2> SUFFICES ASSUME ins.op # "jump" PROVE Segment[Len(Segment)] = Top
    OBVIOUS
  <2>1. /\ ins \in Actions /\ Len(Segment) = Len(stack) - here.base
        /\ Len(stack) \in Nat /\ here.base \in Nat /\ here.base <= Len(stack)
        /\ Needs(ins) <= Len(Segment)
        /\ \A j \in 1..(Len(stack) - here.base) : Segment[j] = stack[here.base + j]
    BY TopPoint
  <2>2. Needs(ins) = 1
    BY <2>1, EffectParts DEF JumpOps
  <2>3. Len(Segment) \in 1..(Len(stack) - here.base) /\ here.base + Len(Segment) = Len(stack)
    BY <2>1, <2>2
  <2> QED
    BY <2>1, <2>3 DEF Top
<1>6. next \in BOOLEAN /\ stay \in BOOLEAN /\ take \in BOOLEAN
  OBVIOUS
<1> HIDE DEF next, stay, take
<1>7. ASSUME ins.op # "jump", NEW yes \in BOOLEAN, NEW no \in BOOLEAN
      PROVE  Turns(c, Segment, yes, no) <=>
                 IF ~IsInt(Top) THEN Failed \in c.goal ELSE IF Top.int_val # 0 THEN yes ELSE no
  BY <1>5, <1>7 DEF Turns
<1>8. /\ ins.op = "jump" => stay
      /\ ins.op # "jump" =>
             /\ ~IsInt(Top) => Failed \in A
             /\ IsInt(Top) /\ Top.int_val # 0 =>
                    /\ ins.op \in {"jumpz", "jtern"} => next
                    /\ ins.op = "jumpnz" => stay
             /\ IsInt(Top) /\ Top.int_val = 0 =>
                    /\ ins.op = "jumpz" => stay
                    /\ ins.op = "jumpnz" => next
                    /\ ins.op = "jtern" => take
  BY <1>1, <1>4, <1>6, <1>7 DEF JumpOps
<1> QED
  BY <1>8 DEF next, stay, take

-----------------------------------------------------------------------------
\* While no other call's arguments have been read, the frames are on the way to what the
\* program may give; and at the end the result is that.
AgreesInv ==
    /\ program \in Programs
    /\ ~stale =>
           /\ status = "running" => \E rs : Explained(frames, rs, stack, undefined, Wanted)
           /\ status = "done" => [value |-> stack[1], undefined |-> undefined] \in Wanted
           /\ status = "error" => Failed \in Wanted

\* The invariant while the program runs.
LEMMA AgreesOn ==
    ASSUME AgreesInv, UNCHANGED program, status' = "running",
           ~stale' => \E rs : Explained(frames', rs, stack', undefined', Wanted)
    PROVE  AgreesInv'
<1>1. Wanted' = Wanted
  BY DEF Wanted
<1> QED
  BY <1>1 DEF AgreesInv

\* The invariant when it fails.
LEMMA AgreesFails ==
    ASSUME AgreesInv, Fail, ~stale => Failed \in Wanted
    PROVE  AgreesInv'
<1>1. Wanted' = Wanted
  BY DEF Wanted, Fail
<1> QED
  BY <1>1 DEF AgreesInv, Fail

\* The invariant at a jump.
LEMMA AgreesGoto ==
    ASSUME CalculatorInv, AgreesInv, NEW ops, At(ops), NEW m \in Nat, m <= Needs(ins), NEW by \in Int,
           Goto(Below(m), by),
           \A rs : Explained(frames, rs, stack, undefined, Wanted) =>
                       <<here.pc + by, Front(Segment, m), undefined>> \in Good(rs[Len(frames)])
    PROVE  AgreesInv'
<1>1. /\ frames' = GoOn(by) /\ stack' = Below(m) /\ undefined' = undefined
      /\ UNCHANGED program /\ status' = "running" /\ stale' = stale /\ status = "running"
  BY DEF Goto, At
<1>2. ASSUME ~stale' PROVE \E rs : Explained(frames', rs, stack', undefined', Wanted)
  <2>1. PICK rs : Explained(frames, rs, stack, undefined, Wanted)
    BY <1>1, <1>2 DEF AgreesInv
  <2>2. PICK c : c = rs[Len(frames)]
    OBVIOUS
  <2>3. <<here.pc + by, Front(Segment, m), undefined>> \in Good(c)
    BY <2>1, <2>2
  <2>4. Explained(frames', rs, stack', undefined', Wanted)
    BY <1>1, <2>1, <2>2, <2>3, TopTakes
  <2> QED
    BY <2>4
<1> QED
  BY <1>1, <1>2, AgreesOn

\* Where a jump leads, for all ways to explain the frames.
LEMMA JumpsAre ==
    ASSUME CalculatorInv, AgreesInv, NEW ops, At(ops), ins.op \in JumpOps,
           NEW rs, Explained(frames, rs, stack, undefined, Wanted)
    PROVE  LET next == <<here.pc + 1, Front(Segment, 1), undefined>> \in Good(rs[Len(frames)])
               stay == <<here.pc + ins.by, Front(Segment, 0), undefined>> \in Good(rs[Len(frames)])
               take == <<here.pc + ins.by, Front(Segment, 1), undefined>> \in Good(rs[Len(frames)])
           IN  /\ ins.op = "jump" => stay
               /\ ins.op # "jump" =>
                      /\ ~IsInt(Top) => Failed \in Wanted
                      /\ IsInt(Top) /\ Top.int_val # 0 =>
                             /\ ins.op \in {"jumpz", "jtern"} => next
                             /\ ins.op = "jumpnz" => stay
                      /\ IsInt(Top) /\ Top.int_val = 0 =>
                             /\ ins.op = "jumpz" => stay
                             /\ ins.op = "jumpnz" => next
                             /\ ins.op = "jtern" => take
<1>1. PICK c : c = rs[Len(frames)]
  OBVIOUS
<1> QED
  BY <1>1, TopJumps

\* What a jump takes.
LEMMA JumpEffects ==
    ASSUME CalculatorInv, NEW ops, At(ops), ins.op \in JumpOps
    PROVE  /\ ins.by \in Int /\ 0 \in Nat /\ 0 <= Needs(ins)
           /\ ins.op # "jump" => 1 \in Nat /\ 1 <= Needs(ins)
           /\ status = "running"
<1>1. ins \in Actions /\ status = "running"
  BY Underway
<1>2. ins.op = "jump" => ins.by \in Int /\ Needs(ins) = 0
  <2>1. ins.op = "jump" => Needs(ins) = 0
    BY DEF Needs, BinaryOps, LogicalOps, BitwiseOps
  <2>2. ins.op = "jump" => ins.by \in Int
    BY <1>1, EffectParts
  <2> QED
    BY <2>1, <2>2
<1>3. ins.op # "jump" => ins.by \in Int /\ Needs(ins) = 1
  BY <1>1, EffectParts DEF JumpOps
<1> QED
  BY <1>1, <1>2, <1>3

\* The jump behind the second part of ?:.
LEMMA AgreesJump == ASSUME CalculatorInv, AgreesInv, Jump PROVE AgreesInv'
<1>1. At({"jump"}) /\ ins.op = "jump" /\ ins.op \in JumpOps /\ Goto(stack, ins.by)
  BY Underway DEF Jump, JumpOps
<1>2. ins.by \in Int /\ 0 <= Needs(ins) /\ Below(0) = stack
  BY <1>1, JumpEffects, BelowNone
<1>3. ASSUME NEW rs, Explained(frames, rs, stack, undefined, Wanted)
      PROVE  <<here.pc + ins.by, Front(Segment, 0), undefined>> \in Good(rs[Len(frames)])
  BY <1>1, <1>3, JumpsAre
<1>4. Goto(Below(0), ins.by)
  BY <1>1, <1>2
<1> QED
  BY <1>1, <1>2, <1>3, <1>4, AgreesGoto

\* A jump on the top: the failure, and the two ways to go on.
LEMMA AgreesTurns ==
    ASSUME CalculatorInv, AgreesInv, NEW ops, At(ops), ins.op \in {"jumpz", "jumpnz", "jtern"}
    PROVE  /\ ~IsInt(Top) /\ Fail => AgreesInv'
           /\ IsInt(Top) /\ Top.int_val # 0 =>
                  /\ ins.op \in {"jumpz", "jtern"} /\ Goto(Below(1), 1) => AgreesInv'
                  /\ ins.op = "jumpnz" /\ Goto(stack, ins.by) => AgreesInv'
           /\ IsInt(Top) /\ Top.int_val = 0 =>
                  /\ ins.op = "jumpnz" /\ Goto(Below(1), 1) => AgreesInv'
                  /\ ins.op = "jumpz" /\ Goto(stack, ins.by) => AgreesInv'
                  /\ ins.op = "jtern" /\ Goto(Below(1), ins.by) => AgreesInv'
<1>1. /\ ins.op \in JumpOps /\ ins.op # "jump" /\ ins.by \in Int /\ 0 <= Needs(ins) /\ 1 <= Needs(ins)
      /\ Below(0) = stack /\ status = "running" /\ 1 \in Int /\ 0 \in Nat /\ 1 \in Nat
  BY JumpEffects, BelowNone DEF JumpOps
<1>2. ASSUME ~IsInt(Top), Fail PROVE AgreesInv'
  <2>1. ASSUME ~stale PROVE Failed \in Wanted
    <3>1. PICK rs : Explained(frames, rs, stack, undefined, Wanted)
      BY <1>1, <2>1 DEF AgreesInv
    <3> QED
      BY <1>1, <1>2, <3>1, JumpsAre
  <2> QED
    BY <1>2, <2>1, AgreesFails
<1>3. ASSUME IsInt(Top), Goto(Below(1), 1),
             IF Top.int_val # 0 THEN ins.op \in {"jumpz", "jtern"} ELSE ins.op = "jumpnz"
      PROVE  AgreesInv'
  <2>1. ASSUME NEW rs, Explained(frames, rs, stack, undefined, Wanted)
        PROVE  <<here.pc + 1, Front(Segment, 1), undefined>> \in Good(rs[Len(frames)])
    BY <1>1, <1>3, <2>1, JumpsAre
  <2> QED
    BY <1>1, <1>3, <2>1, AgreesGoto
<1>4. ASSUME IsInt(Top), Goto(stack, ins.by),
             IF Top.int_val # 0 THEN ins.op = "jumpnz" ELSE ins.op = "jumpz"
      PROVE  AgreesInv'
  <2>1. ASSUME NEW rs, Explained(frames, rs, stack, undefined, Wanted)
        PROVE  <<here.pc + ins.by, Front(Segment, 0), undefined>> \in Good(rs[Len(frames)])
    BY <1>1, <1>4, <2>1, JumpsAre
  <2>2. Goto(Below(0), ins.by)
    BY <1>1, <1>4
  <2> QED
    BY <1>1, <2>1, <2>2, AgreesGoto
<1>5. ASSUME IsInt(Top), Goto(Below(1), ins.by), Top.int_val = 0, ins.op = "jtern"
      PROVE  AgreesInv'
  <2>1. ASSUME NEW rs, Explained(frames, rs, stack, undefined, Wanted)
        PROVE  <<here.pc + ins.by, Front(Segment, 1), undefined>> \in Good(rs[Len(frames)])
    BY <1>1, <1>5, <2>1, JumpsAre
  <2> QED
    BY <1>1, <1>5, <2>1, AgreesGoto
<1> QED
  BY <1>2, <1>3, <1>4, <1>5

\* All jumps keep the invariant.
LEMMA AgreesJumps ==
    ASSUME CalculatorInv, AgreesInv, Jump \/ JumpZero \/ JumpNonZero \/ JumpTernary
    PROVE  AgreesInv'
<1>1. CASE JumpZero
  <2>1. At({"jumpz"}) /\ ins.op = "jumpz"
    BY <1>1, Underway DEF JumpZero
  <2>2. /\ ~IsInt(Top) => Fail
        /\ IsInt(Top) /\ Top.int_val # 0 => Goto(Below(1), 1)
        /\ IsInt(Top) /\ Top.int_val = 0 => Goto(stack, ins.by)
    BY <1>1 DEF JumpZero
  <2> QED
    BY <2>1, <2>2, AgreesTurns
<1>2. CASE JumpNonZero
  <2>1. At({"jumpnz"}) /\ ins.op = "jumpnz"
    BY <1>2, Underway DEF JumpNonZero
  <2>2. /\ ~IsInt(Top) => Fail
        /\ IsInt(Top) /\ Top.int_val # 0 => Goto(stack, ins.by)
        /\ IsInt(Top) /\ Top.int_val = 0 => Goto(Below(1), 1)
    BY <1>2 DEF JumpNonZero
  <2> QED
    BY <2>1, <2>2, AgreesTurns
<1>3. CASE JumpTernary
  <2>1. At({"jtern"}) /\ ins.op = "jtern"
    BY <1>3, Underway DEF JumpTernary
  <2>2. /\ ~IsInt(Top) => Fail
        /\ IsInt(Top) /\ Top.int_val # 0 => Goto(Below(1), 1)
        /\ IsInt(Top) /\ Top.int_val = 0 => Goto(Below(1), ins.by)
    BY <1>3 DEF JumpTernary
  <2> QED
    BY <2>1, <2>2, AgreesTurns
<1> QED
  BY <1>1, <1>2, <1>3, AgreesJump

-----------------------------------------------------------------------------
(* The actions that give a value.                                          *)

\* An action that gives an outcome keeps the invariant.
LEMMA AgreesGives ==
    ASSUME CalculatorInv, AgreesInv, NEW ops, At(ops), ins.op \notin JumpOps,
           NEW m \in Nat, m = Needs(ins), NEW o \in Outcome,
           frames' = GoOn(1), stack' = Append(Below(m), o.value),
           undefined' = Either(undefined, o.undefined), UNCHANGED <<program, status>>,
           ~stale' => ~stale,
           ~stale' => \A rs : Explained(frames, rs, stack, undefined, Wanted) =>
                                  o \in Given(rs[Len(frames)].env, ins, Segment)
    PROVE  AgreesInv'
<1>1. status = "running" /\ status' = "running" /\ program' = program
  BY Underway
<1>2. o # Failed /\ o.value \in AllValues
  BY OutcomeParts
<1>3. ASSUME ~stale' PROVE \E rs : Explained(frames', rs, stack', undefined', Wanted)
  <2>1. PICK rs : Explained(frames, rs, stack, undefined, Wanted)
    BY <1>1, <1>3 DEF AgreesInv
  <2>2. PICK c : c = rs[Len(frames)]
    OBVIOUS
  <2>3. o \in Given(c.env, ins, Segment)
    BY <1>3, <2>1, <2>2
  <2>4. Explained(frames', rs, stack', undefined', Wanted)
    BY <1>2, <2>1, <2>2, <2>3, TopMoves
  <2> QED
    BY <2>4
<1> QED
  BY <1>1, <1>3, AgreesOn

\* So does one that fails.
LEMMA AgreesLoses ==
    ASSUME CalculatorInv, AgreesInv, NEW ops, At(ops), ins.op \notin JumpOps, Fail,
           \A rs : Explained(frames, rs, stack, undefined, Wanted) =>
                       Failed \in Given(rs[Len(frames)].env, ins, Segment)
    PROVE  AgreesInv'
<1>1. status = "running"
  BY Underway
<1>2. ASSUME ~stale PROVE Failed \in Wanted
  <2>1. PICK rs : Explained(frames, rs, stack, undefined, Wanted)
    BY <1>1, <1>2 DEF AgreesInv
  <2>2. PICK c : c = rs[Len(frames)]
    OBVIOUS
  <2>3. Failed \in Given(c.env, ins, Segment)
    BY <2>1, <2>2
  <2> QED
    BY <2>1, <2>2, <2>3, TopFails
<1> QED
  BY <1>2, AgreesFails

\* So does an operator, which does either.
LEMMA AgreesOperate ==
    ASSUME CalculatorInv, AgreesInv, NEW ops, At(ops), ins.op \notin JumpOps,
           NEW n \in Nat, n = Needs(ins), NEW outcomes \in SUBSET Outcome, Operate(outcomes, n),
           \A rs : Explained(frames, rs, stack, undefined, Wanted) =>
                       Given(rs[Len(frames)].env, ins, Segment) = Answer(outcomes)
    PROVE  AgreesInv'
<1>1. CASE outcomes = {}
  <2>1. Fail
    BY <1>1 DEF Operate
  <2>2. Failed \in Answer(outcomes)
    BY <1>1 DEF Answer
  <2> QED
    BY <2>1, <2>2, AgreesLoses
<1>2. CASE outcomes # {}
  <2>1. PICK o \in outcomes : /\ stack' = Append(Below(n), o.value)
                              /\ undefined' = (undefined \/ o.undefined)
                              /\ frames' = GoOn(1)
                              /\ UNCHANGED <<dummies, status, program, stale>>
    BY <1>2 DEF Operate
  <2>2. o \in Outcome
    OBVIOUS
  <2>3. o \in Answer(outcomes)
    BY <1>2 DEF Answer
  <2>4. undefined' = Either(undefined, o.undefined)
    BY <2>1, Zenon DEF Either
  <2>5. UNCHANGED <<program, status>> /\ (~stale' => ~stale)
    BY <2>1
  <2>6. stack' = Append(Below(n), o.value) /\ frames' = GoOn(1)
    BY <2>1
  <2> QED
    BY <2>2, <2>3, <2>4, <2>5, <2>6, AgreesGives
<1> QED
  BY <1>1, <1>2

\* There is a random number.
LEMMA RandHas == Rand # {}
<1>1. 0 \in 0..(Half - 1)
  BY WidthAssumption
<1>2. [value |-> Integer(0), undefined |-> FALSE] \in Rand
  BY <1>1 DEF Rand, Defined
<1> QED
  BY <1>2

\* The operands are the values on top.
LEMMA TopIs ==
    ASSUME CalculatorInv, NEW ops, At(ops), NEW rs, NEW A,
           Explained(frames, rs, stack, undefined, A)
    PROVE  /\ Needs(ins) >= 1 => Segment[Len(Segment)] = Top
           /\ Needs(ins) >= 2 => Segment[Len(Segment) - 1] = stack[Len(stack) - 1]
<1>1. PICK c : c = rs[Len(frames)]
  OBVIOUS
<1>2. /\ ins \in Actions /\ Len(Segment) = Len(stack) - here.base
      /\ Len(stack) \in Nat /\ here.base \in Nat /\ here.base <= Len(stack)
      /\ Needs(ins) <= Len(Segment)
      /\ \A j \in 1..(Len(stack) - here.base) : Segment[j] = stack[here.base + j]
  BY <1>1, TopPoint
<1>3. Needs(ins) \in Int
  BY <1>2, NeedsTyped
<1>4. ASSUME Needs(ins) >= 1 PROVE Segment[Len(Segment)] = Top
  <2>1. Len(Segment) \in 1..(Len(stack) - here.base) /\ here.base + Len(Segment) = Len(stack)
    BY <1>2, <1>3, <1>4
  <2> QED
    BY <1>2, <2>1 DEF Top
<1>5. ASSUME Needs(ins) >= 2 PROVE Segment[Len(Segment) - 1] = stack[Len(stack) - 1]
  <2>1. /\ Len(Segment) - 1 \in 1..(Len(stack) - here.base)
        /\ here.base + (Len(Segment) - 1) = Len(stack) - 1
    BY <1>2, <1>3, <1>5
  <2> QED
    BY <1>2, <2>1
<1> QED
  BY <1>4, <1>5

\* The operators.
LEMMA AgreesApplies ==
    ASSUME CalculatorInv, AgreesInv, ApplyUnary \/ ApplyBinary \/ PushRandom
    PROVE  AgreesInv'
<1>1. CASE ApplyUnary
  <2>1. At(UnaryOps) /\ ins.op \in UnaryOps /\ ins \in Actions
    BY <1>1, Underway DEF ApplyUnary
  <2>2. /\ \A env, seg : Given(env, ins, seg) = Answer(Unary(ins.op, seg[Len(seg)]))
        /\ ins.op \notin JumpOps /\ Needs(ins) = 1 /\ 1 \in Nat /\ 1 >= 1
    BY <2>1, GivenUnary
  <2>3. PICK outcomes : outcomes = Unary(ins.op, Top)
    OBVIOUS
  <2>4. Top \in AllValues
    <3>1. 1 <= Len(stack)
      BY <2>1, <2>2, Taken
    <3> QED
      BY <3>1, TopTyped DEF CalculatorInv, TypeOK
  <2>5. outcomes \in SUBSET Outcome /\ Operate(outcomes, 1)
    BY <1>1, <2>1, <2>3, <2>4, UnaryTyped DEF ApplyUnary
  <2>6. ASSUME NEW rs, Explained(frames, rs, stack, undefined, Wanted)
        PROVE  Given(rs[Len(frames)].env, ins, Segment) = Answer(outcomes)
    <3>1. Segment[Len(Segment)] = Top
      BY <2>1, <2>2, <2>6, TopIs
    <3> QED
      BY <2>2, <2>3, <3>1
  <2> QED
    BY <2>1, <2>2, <2>5, <2>6, AgreesOperate
<1>2. CASE ApplyBinary
  <2>1. At(BinaryOps) /\ ins.op \in BinaryOps /\ ins \in Actions
    BY <1>2, Underway DEF ApplyBinary
  <2>2. /\ \A env, seg : Given(env, ins, seg) = Answer(Binary(ins.op, seg[Len(seg) - 1], seg[Len(seg)]))
        /\ ins.op \notin JumpOps /\ Needs(ins) = 2 /\ 2 \in Nat /\ 2 >= 1 /\ 2 >= 2
    BY <2>1, GivenBinary
  <2>3. PICK outcomes : outcomes = Binary(ins.op, stack[Len(stack) - 1], Top)
    OBVIOUS
  <2>4. Top \in AllValues /\ stack[Len(stack) - 1] \in AllValues
    <3>1. 2 <= Len(stack) /\ Len(stack) \in Nat
      BY <2>1, <2>2, Taken
    <3>2. stack \in Seq(AllValues)
      BY DEF CalculatorInv, TypeOK
    <3> QED
      BY <3>1, <3>2 DEF Top
  <2>5. outcomes \in SUBSET Outcome /\ Operate(outcomes, 2)
    BY <1>2, <2>1, <2>3, <2>4, BinaryTyped DEF ApplyBinary
  <2>6. ASSUME NEW rs, Explained(frames, rs, stack, undefined, Wanted)
        PROVE  Given(rs[Len(frames)].env, ins, Segment) = Answer(outcomes)
    <3>1. Segment[Len(Segment)] = Top /\ Segment[Len(Segment) - 1] = stack[Len(stack) - 1]
      BY <2>1, <2>2, <2>6, TopIs
    <3> QED
      BY <2>2, <2>3, <3>1
  <2> QED
    BY <2>1, <2>2, <2>5, <2>6, AgreesOperate
<1>3. CASE PushRandom
  <2>1. At({"rand"}) /\ ins.op = "rand"
    BY <1>3, Underway DEF PushRandom
  <2>2. /\ \A env, seg : Given(env, ins, seg) = Rand
        /\ ins.op \notin JumpOps /\ Needs(ins) = 0 /\ 0 \in Nat
    BY <2>1, GivenRandom
  <2>3. Rand \in SUBSET Outcome /\ Operate(Rand, 0) /\ Answer(Rand) = Rand
    BY <1>3, RandTyped, RandHas DEF PushRandom, Answer
  <2> QED
    BY <2>1, <2>2, <2>3, AgreesOperate
<1> QED
  BY <1>1, <1>2, <1>3

\* The outcome of an action that is not undefined.
LEMMA DefinedIs ==
    ASSUME NEW v \in AllValues
    PROVE  /\ [value |-> v, undefined |-> FALSE] \in Outcome
           /\ [value |-> v, undefined |-> FALSE].value = v
           /\ \A u \in BOOLEAN : Either(u, [value |-> v, undefined |-> FALSE].undefined) = u
  BY OutcomeOf, EitherFalse

\* A value is put on the stack.
LEMMA AgreesPuts ==
    ASSUME CalculatorInv, AgreesInv, NEW ops, At(ops), ins.op \notin JumpOps, Needs(ins) = 0,
           NEW v \in AllValues, frames' = GoOn(1), stack' = Append(stack, v),
           UNCHANGED <<undefined, program, status>>, ~stale' => ~stale,
           ~stale' => \A rs : Explained(frames, rs, stack, undefined, Wanted) =>
                                  Given(rs[Len(frames)].env, ins, Segment) = Defined({v})
    PROVE  AgreesInv'
<1>1. PICK o : o = [value |-> v, undefined |-> FALSE]
  OBVIOUS
<1>2. undefined \in BOOLEAN
  BY DEF CalculatorInv, TypeOK
<1>3. o \in Outcome /\ o.value = v /\ Either(undefined, o.undefined) = undefined
  BY <1>1, <1>2, DefinedIs
<1>4. o \in Defined({v})
  BY <1>1, DefinedOne
<1>5. stack' = Append(Below(0), o.value) /\ undefined' = Either(undefined, o.undefined) /\ 0 \in Nat
  BY <1>3, BelowNone
<1>6. UNCHANGED <<program, status>>
  OBVIOUS
<1> QED
  BY <1>3, <1>4, <1>5, <1>6, AgreesGives

\* The variable and the constant keep the invariant.
LEMMA AgreesPushes ==
    ASSUME CalculatorInv, AgreesInv, Push \/ PushConstant
    PROVE  AgreesInv'
<1>1. CASE Push
  <2>1. At({"push"}) /\ ins.op = "push" /\ ins \in Actions
    BY <1>1, Underway DEF Push
  <2>2. /\ \A env, seg : Given(env, ins, seg) =
               IF ValueOf[ins.name] = NoValue THEN {Failed} ELSE Defined({ValueOf[ins.name]})
        /\ ins.op \notin JumpOps /\ Needs(ins) = 0
    BY <2>1, GivenPush
  <2>3. CASE ValueOf[ins.name] = NoValue
    <3>1. Fail
      BY <1>1, <2>3 DEF Push
    <3>2. \A env, seg : Failed \in Given(env, ins, seg)
      BY <2>2, <2>3
    <3> QED
      BY <2>1, <2>2, <3>1, <3>2, AgreesLoses
  <2>4. CASE ValueOf[ins.name] # NoValue
    <3>1. PICK v : v = ValueOf[ins.name]
      OBVIOUS
    <3>2. v \in AllValues
      BY <2>1, <2>4, <3>1, ActionParts, VariablesAssumption
    <3>3. /\ stack' = Append(stack, v) /\ frames' = GoOn(1)
          /\ UNCHANGED <<undefined, program, status>> /\ (~stale' => ~stale)
      BY <1>1, <2>4, <3>1 DEF Push, Give
    <3>4. \A env, seg : Given(env, ins, seg) = Defined({v})
      BY <2>2, <2>4, <3>1
    <3> QED
      BY <2>1, <2>2, <3>2, <3>3, <3>4, AgreesPuts
  <2> QED
    BY <2>3, <2>4
<1>2. CASE PushConstant
  <2>1. At({"pushc"}) /\ ins.op = "pushc" /\ ins \in Actions
    BY <1>2, Underway DEF PushConstant
  <2>2. /\ \A env, seg : Given(env, ins, seg) = Defined({ins.v})
        /\ ins.op \notin JumpOps /\ Needs(ins) = 0
    BY <2>1, GivenConst
  <2>3. PICK v : v = ins.v
    OBVIOUS
  <2>4. v \in AllValues
    BY <2>1, <2>3, ActionParts
  <2>5. /\ stack' = Append(stack, v) /\ frames' = GoOn(1)
        /\ UNCHANGED <<undefined, program, status>> /\ (~stale' => ~stale)
    BY <1>2, <2>3 DEF PushConstant, Give
  <2> QED
    BY <2>1, <2>2, <2>3, <2>4, <2>5, AgreesPuts
<1> QED
  BY <1>1, <1>2

\* What is read is the argument of the frame, unless it is stale.
LEMMA AgreesReads ==
    ASSUME CalculatorInv, AgreesInv, PushDummy
    PROVE  AgreesInv'
<1>1. At({"pushd"}) /\ ins.op = "pushd" /\ ins \in Actions
  BY Underway DEF PushDummy
<1>2. /\ \A env, seg : Given(env, ins, seg) =
             IF ins.i \in 1..Len(env) THEN Defined({env[ins.i]}) ELSE {Failed}
      /\ ins.op \notin JumpOps /\ Needs(ins) = 0
  BY <1>1, GivenDummy
<1>3. PICK v : v = dummies[ins.f][ins.i]
  OBVIOUS
<1>4. v \in AllValues
  <2>1. Len(frames) \in Nat \ {0} /\ here.pc \in 1..Len(here.code.actions)
    BY <1>1, Underway
  <2>2. Len(frames) \in 1..Len(frames) /\ Ready(frames, dummies)
    BY <2>1 DEF CalculatorInv
  <2>3. \A i \in 1..Len(here.code.actions) : here.code.actions[i].op = "pushd" =>
            dummies[here.code.actions[i].f][here.code.actions[i].i] \in AllValues
    BY <2>2 DEF Ready, here
  <2> QED
    BY <1>1, <1>3, <2>1, <2>3 DEF ins
<1>5. /\ stack' = Append(stack, v) /\ frames' = GoOn(1)
      /\ UNCHANGED <<undefined, program, status>>
      /\ ~stale' => ~stale /\ here.args[ins.i] = v
  BY <1>3 DEF PushDummy
<1>6. ASSUME ~stale', NEW rs, Explained(frames, rs, stack, undefined, Wanted)
      PROVE  Given(rs[Len(frames)].env, ins, Segment) = Defined({v})
  <2>1. PICK c : c = rs[Len(frames)]
    OBVIOUS
  <2>2. Own(here, c) /\ here.pc \in 1..Len(c.acts) /\ c.acts[here.pc] = ins
    BY <1>1, <1>6, <2>1, TopPoint
  <2>3. ins.i \in 1..Len(c.env) /\ c.env[ins.i] = here.args[ins.i]
    BY <1>1, <2>2 DEF Own
  <2> QED
    BY <1>2, <1>5, <1>6, <2>1, <2>3
<1> QED
  BY <1>1, <1>2, <1>4, <1>5, <1>6, AgreesPuts

-----------------------------------------------------------------------------
(* Calls.                                                                  *)

\* The frames when another one is entered.
LEMMA EnteredParts ==
    ASSUME CalculatorInv, frames # <<>>, NEW fr
    PROVE  LET gs == Append(GoOn(1), fr) IN
           /\ Len(gs) = Len(frames) + 1 /\ gs[Len(gs)] = fr
           /\ gs[Len(frames)].pc = here.pc + 1
           /\ \A k \in 1..Len(frames) : /\ frames[k].base \in Nat
                                        /\ gs[k].code = frames[k].code
                                        /\ gs[k].args = frames[k].args
                                        /\ gs[k].base = frames[k].base
                                        /\ k # Len(frames) => gs[k].pc = frames[k].pc
<1> DEFINE n == Len(frames)
           gs == Append(GoOn(1), fr)
<1>1. /\ n \in Nat \ {0} /\ Len(GoOn(1)) = n /\ n \in 1..n
      /\ GoOn(1)[n].pc = here.pc + 1
      /\ \A k \in 1..n : /\ frames[k].base \in Nat
                         /\ GoOn(1)[k].code = frames[k].code
                         /\ GoOn(1)[k].args = frames[k].args
                         /\ GoOn(1)[k].base = frames[k].base
                         /\ k # n => GoOn(1)[k].pc = frames[k].pc
  BY GoOnParts
<1>2. Len(gs) = n + 1 /\ gs[n + 1] = fr /\ \A k \in 1..n : gs[k] = GoOn(1)[k]
  <2>1. frames \in Seq(FrameRecords)
    BY DEF CalculatorInv
  <2>2. PICK S : S = {GoOn(1)[k] : k \in 1..n}
    OBVIOUS
  <2>3. GoOn(1) \in Seq(S)
    <3>1. DOMAIN GoOn(1) = 1..n
      BY <2>1 DEF GoOn
    <3>2. GoOn(1) = [k \in 1..n |-> GoOn(1)[k]]
      BY <3>1 DEF GoOn
    <3> QED
      BY <1>1, <2>2, <3>2
  <2>4. PICK gg \in Seq(S) : gg = GoOn(1)
    BY <2>3
  <2>5. /\ Len(Append(gg, fr)) = Len(gg) + 1 /\ Append(gg, fr)[Len(gg) + 1] = fr
        /\ \A k \in 1..Len(gg) : Append(gg, fr)[k] = gg[k]
    BY <2>4
  <2> QED
    BY <1>1, <2>4, <2>5
<1> HIDE DEF gs
<1>3. \A k \in 1..n : /\ frames[k].base \in Nat
                      /\ gs[k].code = frames[k].code
                      /\ gs[k].args = frames[k].args
                      /\ gs[k].base = frames[k].base
                      /\ k # n => gs[k].pc = frames[k].pc
  BY <1>1, <1>2
<1>4. gs[n].pc = here.pc + 1
  BY <1>1, <1>2
<1> QED
  BY <1>2, <1>3, <1>4 DEF gs

\* What is below the values that the action underway takes.
LEMMA TopFront ==
    ASSUME CalculatorInv, NEW ops, At(ops), NEW rs, NEW A,
           Explained(frames, rs, stack, undefined, A), NEW n \in Nat, n = Needs(ins)
    PROVE  /\ Len(stack) - n \in Nat /\ here.base <= Len(stack) - n /\ n <= Len(Segment)
           /\ Stretch(stack, here.base, Len(stack) - n) = Front(Segment, n)
<1>1. PICK c : c = rs[Len(frames)]
  OBVIOUS
<1>2. /\ Segment \in Seq(AllValues) /\ Len(Segment) = Len(stack) - here.base
      /\ Len(stack) \in Nat /\ here.base \in Nat /\ here.base <= Len(stack)
      /\ n <= Len(Segment)
      /\ \A j \in 1..(Len(stack) - here.base) : Segment[j] = stack[here.base + j]
  BY <1>1, TopPoint
<1>3. PICK h \in Nat, e \in Nat : h = here.base /\ e = Len(stack) - n
  <2>1. Len(stack) - n \in Nat
    BY <1>2
  <2> QED
    BY <1>2, <2>1
<1>4. h <= e /\ e <= Len(stack) /\ stack \in Seq(AllValues) /\ e - h = Len(Segment) - n
  <2>1. stack \in Seq(AllValues)
    BY DEF CalculatorInv, TypeOK
  <2>2. h <= e /\ e <= Len(stack) /\ e - h = Len(Segment) - n
    BY <1>2, <1>3
  <2> QED
    BY <2>1, <2>2
<1>5. /\ Stretch(stack, h, e) \in Seq(AllValues) /\ Len(Stretch(stack, h, e)) = e - h
      /\ \A j \in 1..(e - h) : Stretch(stack, h, e)[j] = stack[h + j]
  BY <1>4, StretchTyped
<1>6. /\ Front(Segment, n) \in Seq(AllValues) /\ Len(Front(Segment, n)) = Len(Segment) - n
      /\ \A i \in 1..(Len(Segment) - n) : Front(Segment, n)[i] = Segment[i]
  BY <1>2, FrontTyped
<1>7. ASSUME NEW j \in 1..(e - h) PROVE Stretch(stack, h, e)[j] = Front(Segment, n)[j]
  <2>1. j \in 1..(Len(Segment) - n) /\ j \in 1..(Len(stack) - here.base)
    BY <1>2, <1>3, <1>4
  <2> QED
    BY <1>2, <1>3, <1>5, <1>6, <2>1
<1>8. Stretch(stack, h, e) = Front(Segment, n)
  BY <1>4, <1>5, <1>6, <1>7, SameSeq
<1> QED
  BY <1>2, <1>3, <1>4, <1>8

\* The results in R behind the flag u.
Flags(u, R) == {Flag(u, r) : r \in R}

\* The action underway enters code that computes what it is to give.
LEMMA TopEnters ==
    ASSUME CalculatorInv, NEW ops, At(ops), NEW rs, NEW A,
           Explained(frames, rs, stack, undefined, A), ins.op \notin JumpOps,
           NEW n \in Nat, n = Needs(ins), NEW R \in SUBSET Results,
           Given(rs[Len(frames)].env, ins, Segment) = R,
           NEW code, NEW args, NEW c, c.goal = Flags(undefined, R),
           Own(Frame(code, Len(stack) - n, args), c),
           frames' = Append(GoOn(1), Frame(code, Len(stack) - n, args)), undefined' = undefined,
           \A i \in 1..(Len(stack) - n) : stack'[i] = stack[i],
           <<1, Stretch(stack', Len(stack) - n, Len(stack')), undefined>> \in Good(c)
    PROVE  \E qs : Explained(frames', qs, stack', undefined', A)
<1>1. PICK gs, t, e, fr, cc : /\ gs = frames' /\ t = stack' /\ e = Len(stack) - n
                              /\ fr = Frame(code, e, args) /\ cc = rs[Len(frames)]
  OBVIOUS
<1>2. e \in Nat /\ here.base <= e /\ Stretch(stack, here.base, e) = Front(Segment, n) /\ here.base \in Nat
  BY <1>1, TopFront, TopPoint
<1>3. fr.pc = 1 /\ fr.base = e
  BY <1>1 DEF Frame
<1>4. /\ frames # <<>> /\ Len(frames) \in Nat \ {0}
      /\ Len(gs) = Len(frames) + 1 /\ gs[Len(gs)] = fr
      /\ gs[Len(frames)].pc = here.pc + 1
      /\ \A k \in 1..Len(frames) : /\ frames[k].base \in Nat
                                   /\ gs[k].code = frames[k].code
                                   /\ gs[k].args = frames[k].args
                                   /\ gs[k].base = frames[k].base
                                   /\ k # Len(frames) => gs[k].pc = frames[k].pc
  <2>1. frames # <<>> /\ Len(frames) \in Nat \ {0}
    BY Underway
  <2> QED
    BY <1>1, <2>1, EnteredParts
<1>5. undefined \in BOOLEAN
  BY DEF CalculatorInv, TypeOK
<1>6. ASSUME NEW r \in R
      PROVE  Lead(cc, Good(cc), here.pc + 1, Front(Segment, n), FALSE, Flag(undefined, r))
  <2>1. Lead(cc, Good(cc), here.pc + 1, Front(Segment, n), undefined, r)
    BY <1>1, <1>6, TopGives
  <2>2. Either(FALSE, undefined) = undefined
    BY <1>5, EitherFalse
  <2> QED
    BY <1>5, <2>1, <2>2, LeadFlag
<1>7. Waits(cc, here.pc + 1, Front(Segment, n), c.goal)
  BY <1>6 DEF Waits, Flags
<1>8. ASSUME Failed \in c.goal PROVE Failed \in A
  <2>1. PICK r \in R : Failed = Flag(undefined, r)
    BY <1>8 DEF Flags
  <2>2. r = Failed
    BY <1>5, <2>1, FlagTyped
  <2>3. Failed \in Given(cc.env, ins, Segment)
    BY <1>1, <2>2
  <2> QED
    BY <1>1, <2>3, TopFails
<1>9. Stretch(t, here.base, e) = Front(Segment, n)
  <2>1. PICK h \in Nat : h = here.base
    BY <1>2
  <2>2. e \in Nat /\ \A i \in 1..e : t[i] = stack[i]
    BY <1>1, <1>2
  <2>3. Stretch(t, h, e) = Stretch(stack, h, e)
    BY <2>2, SameStretch
  <2> QED
    BY <1>2, <2>1, <2>3
<1>10. \A i \in 1..frames[Len(frames)].base : t[i] = stack[i]
  <2>1. \A i \in 1..here.base : i \in 1..e
    BY <1>2
  <2> QED
    BY <1>1, <2>1 DEF here
<1>11. Own(gs[Len(gs)], c) /\ gs[Len(gs)].base = e /\ gs[Len(gs)].base \in Nat
       /\ frames[Len(frames)].base <= gs[Len(gs)].base
  BY <1>1, <1>2, <1>3, <1>4 DEF here
<1>12. <<gs[Len(gs)].pc, Stretch(t, gs[Len(gs)].base, Len(t)), undefined>> \in Good(c)
  BY <1>1, <1>3, <1>4
<1>13. Waits(rs[Len(frames)], gs[Len(frames)].pc,
             Stretch(t, frames[Len(frames)].base, gs[Len(gs)].base), c.goal)
  BY <1>1, <1>4, <1>7, <1>9, <1>11 DEF here
<1>14. \E qs : Explained(gs, qs, t, undefined, A)
  BY <1>4, <1>8, <1>10, <1>11, <1>12, <1>13, ExplainedEnters
<1> QED
  BY <1>1, <1>14

\* The values on top of a segment.
LEMMA BackTyped ==
    ASSUME NEW seg \in Seq(AllValues), NEW n \in Nat, n <= Len(seg)
    PROVE  /\ Back(seg, n) \in Seq(AllValues) /\ Len(Back(seg, n)) = n
           /\ \A i \in 1..n : Back(seg, n)[i] = seg[Len(seg) - n + i]
<1>1. \A i \in 1..n : Len(seg) - n + i \in 1..Len(seg)
  OBVIOUS
<1>2. Back(seg, n) \in [1..n -> AllValues]
  BY <1>1 DEF Back
<1>3. \A i \in 1..n : Back(seg, n)[i] = seg[Len(seg) - n + i]
  BY DEF Back
<1> QED
  BY <1>2, <1>3, ListsAre

\* A stretch of no values.
LEMMA StretchNone == ASSUME NEW s, NEW b \in Nat PROVE Stretch(s, b, b) = <<>>
  BY DEF Stretch

\* A stretch of one.
LEMMA StretchOne ==
    ASSUME NEW s \in Seq(AllValues), Len(s) >= 1
    PROVE  Stretch(s, Len(s) - 1, Len(s)) = <<s[Len(s)]>> /\ s[Len(s)] \in AllValues
<1>1. PICK b \in Nat, e \in Nat : e = Len(s) /\ b = e - 1
  OBVIOUS
<1>2. b <= e /\ e <= Len(s) /\ e - b = 1 /\ b + 1 = Len(s)
  BY <1>1
<1>3. /\ Stretch(s, b, e) \in Seq(AllValues) /\ Len(Stretch(s, b, e)) = 1
      /\ Stretch(s, b, e)[1] = s[Len(s)]
  <2>1. /\ Stretch(s, b, e) \in Seq(AllValues) /\ Len(Stretch(s, b, e)) = e - b
        /\ \A j \in 1..(e - b) : Stretch(s, b, e)[j] = s[b + j]
    BY <1>2, StretchTyped
  <2>2. 1 \in 1..(e - b)
    BY <1>2
  <2> QED
    BY <1>2, <2>1, <2>2
<1>4. s[Len(s)] \in AllValues
  OBVIOUS
<1>5. PICK v \in AllValues : v = s[Len(s)]
  BY <1>4
<1>6. <<v>> \in Seq(AllValues) /\ Len(<<v>>) = 1 /\ <<v>>[1] = v
  OBVIOUS
<1>7. Stretch(s, b, e) = <<v>>
  BY <1>3, <1>5, <1>6, SameSeq
<1> QED
  BY <1>1, <1>4, <1>5, <1>7

\* A frame of code that reads no dummies.
LEMMA OwnNone ==
    ASSUME NEW code, Reads(code, {}), NEW base, NEW args, NEW c, c.acts = code.actions,
           c.env \in Seq(AllValues)
    PROVE  Own(Frame(code, base, args), c)
<1>1. \A i \in 1..Len(c.acts) : c.acts[i].op # "pushd"
  BY DEF Reads
<1> QED
  BY <1>1 DEF Own, Frame

\* A run of code from its parts.
RunOf(acts, env, goal) == [acts |-> acts, env |-> env, goal |-> goal]

\* The parts of a run.
LEMMA RunParts ==
    ASSUME NEW acts, NEW env, NEW goal
    PROVE  /\ RunOf(acts, env, goal).acts = acts /\ RunOf(acts, env, goal).env = env
           /\ RunOf(acts, env, goal).goal = goal
  BY DEF RunOf

\* A call enters the function with the values that it takes as arguments.
LEMMA TopCalls ==
    ASSUME CalculatorInv, At({"call"}), NEW rs, NEW A,
           Explained(frames, rs, stack, undefined, A),
           NEW f, f = ins.f, NEW n, n = Arity[f], Code[f] # NoCode, NEW args, args = Popped(f, n),
           stack' = Below(n), undefined' = undefined,
           frames' = Append(GoOn(1), Frame(Code[f], Len(stack) - n, args))
    PROVE  \E qs : Explained(frames', qs, stack', undefined', A)
<1>1. ins \in Actions /\ ins.op = "call" /\ f \in Functions /\ n \in 1..4 /\ n \in Nat
  <2>1. ins \in Actions /\ ins.op = "call"
    BY Underway
  <2>2. f \in Functions
    BY <2>1, ActionParts
  <2> QED
    BY <2>1, <2>2, ArityAssumption
<1>2. /\ Given(rs[Len(frames)].env, ins, Segment) = Value[<<Code[f].source, Back(Segment, n)>>]
      /\ ins.op \notin JumpOps /\ Needs(ins) = n
  BY <1>1, GivenCall
<1>3. /\ Segment \in Seq(AllValues) /\ Len(Segment) = Len(stack) - here.base
      /\ Len(stack) \in Nat /\ here.base \in Nat /\ here.base <= Len(stack)
      /\ n <= Len(Segment)
      /\ \A j \in 1..(Len(stack) - here.base) : Segment[j] = stack[here.base + j]
      /\ undefined \in BOOLEAN
  <2>1. PICK c : c = rs[Len(frames)]
    OBVIOUS
  <2> QED
    BY <1>2, <2>1, TopPoint
<1>4. PICK env : env = Back(Segment, n)
  OBVIOUS
<1>5. env \in Seq(AllValues) /\ Len(env) = n /\ \A i \in 1..n : env[i] = Segment[Len(Segment) - n + i]
  BY <1>1, <1>3, <1>4, BackTyped
<1>6. \A i \in 1..n : env[i] = stack[Len(stack) - n + i]
  <2>1. ASSUME NEW i \in 1..n PROVE env[i] = stack[Len(stack) - n + i]
    <3>1. /\ Len(Segment) - n + i \in 1..(Len(stack) - here.base)
          /\ here.base + (Len(Segment) - n + i) = Len(stack) - n + i
      <4>1. \A l, k, h, m, j \in Int :
                l = k - h /\ m <= l /\ j \in 1..m =>
                    l - m + j \in 1..(k - h) /\ h + (l - m + j) = k - m + j
        OBVIOUS
      <4>2. PICK l \in Int, k \in Int, h \in Int, m \in Int, j \in Int :
                l = Len(Segment) /\ k = Len(stack) /\ h = here.base /\ m = n /\ j = i
        BY <1>1, <1>3
      <4>3. l = k - h /\ m <= l /\ j \in 1..m
        BY <1>3, <4>2
      <4>4. l - m + j \in 1..(k - h) /\ h + (l - m + j) = k - m + j
        BY <4>1, <4>3
      <4> QED
        BY <4>2, <4>4
    <3> QED
      BY <1>3, <1>5, <3>1
  <2> QED
    BY <2>1
<1>7. Code[f].source \in Exprs /\ Code[f].actions = Acts(Code[f].source)
  BY <1>1, SourceIs
<1>8. PICK R : R = Value[<<Code[f].source, env>>]
  OBVIOUS
<1>9. R \in SUBSET Results
  BY <1>5, <1>7, <1>8, ValueTyped DEF TypedEval, Asked
<1>10. PICK goal : goal = Flags(undefined, R)
  OBVIOUS
<1>11. PICK c : c.acts = Code[f].actions /\ c.env = env /\ c.goal = goal
  <2>1. PICK c : c = RunOf(Code[f].actions, env, goal)
    OBVIOUS
  <2>2. c.acts = Code[f].actions /\ c.env = env /\ c.goal = goal
    BY <2>1, RunParts
  <2> QED
    BY <2>2
<1>12. <<1, <<>>, undefined>> \in Good(c)
  BY <1>3, <1>5, <1>7, <1>8, <1>10, <1>11, WholeGood DEF Flags
<1>13. Own(Frame(Code[f], Len(stack) - n, args), c)
  <2>1. Code[f].actions \in Seq(Actions) /\ Reads(Code[f], {f})
    BY <1>1, CodeAssumption DEF Typed
  <2>2. ASSUME NEW i \in 1..Len(c.acts), c.acts[i].op = "pushd"
        PROVE  c.acts[i].i \in 1..Len(c.env) /\ c.env[c.acts[i].i] = args[c.acts[i].i]
    <3>1. c.acts[i] \in Actions /\ c.acts[i].f = f /\ c.acts[i].i <= n
      BY <1>11, <2>1, <2>2 DEF Reads
    <3>2. c.acts[i].i \in 1..4
      BY <2>2, <3>1, ActionParts
    <3>3. c.acts[i].i \in 1..n
      BY <1>1, <3>1, <3>2
    <3>4. args[c.acts[i].i] = stack[Len(stack) - n + c.acts[i].i]
      BY <3>1, <3>2 DEF Popped
    <3> QED
      BY <1>5, <1>6, <1>11, <3>3, <3>4
  <2> QED
    BY <1>5, <1>11, <2>2 DEF Own, Frame
<1>14. /\ Len(stack') = Len(stack) - n /\ Len(stack) - n \in Nat
       /\ \A i \in 1..(Len(stack) - n) : stack'[i] = stack[i]
  <2>1. n <= Needs(ins)
    BY <1>1, <1>2
  <2>2. n <= Len(stack) /\ Len(Below(n)) = Len(stack) - n
        /\ \A i \in 1..(Len(stack) - n) : Below(n)[i] = stack[i]
    BY <1>1, <2>1, Taken
  <2> QED
    BY <1>1, <1>3, <2>2
<1>15. <<1, Stretch(stack', Len(stack) - n, Len(stack')), undefined>> \in Good(c)
  <2>1. Stretch(stack', Len(stack) - n, Len(stack')) = <<>>
    <3>1. PICK b \in Nat : b = Len(stack) - n
      BY <1>14
    <3> QED
      BY <1>14, <3>1, StretchNone
  <2> QED
    BY <1>12, <2>1
<1>16. /\ Given(rs[Len(frames)].env, ins, Segment) = R
       /\ c.goal = Flags(undefined, R)
  BY <1>2, <1>4, <1>8, <1>10, <1>11
<1> QED
  BY <1>1, <1>2, <1>9, <1>13, <1>14, <1>15, <1>16, TopEnters

\* A call keeps the invariant.
LEMMA AgreesCalls == ASSUME CalculatorInv, AgreesInv, Call PROVE AgreesInv'
<1>1. PICK f, n, args : f = ins.f /\ n = Arity[f] /\ args = Popped(f, n)
  OBVIOUS
<1>2. At({"call"}) /\ ins.op = "call" /\ status = "running"
  BY Underway DEF Call
<1>3. CASE Code[f] = NoCode
  <2>1. Fail
    BY <1>1, <1>3 DEF Call
  <2>2. /\ \A env, seg : Failed \in Given(env, ins, seg)
        /\ ins.op \notin JumpOps
    BY <1>1, <1>2, <1>3, GivenCall
  <2> QED
    BY <1>2, <2>1, <2>2, AgreesLoses
<1>4. CASE Code[f] # NoCode
  <2>1. /\ stack' = Below(n) /\ undefined' = undefined
        /\ frames' = Append(GoOn(1), Frame(Code[f], Len(stack) - n, args))
        /\ UNCHANGED <<program, status, stale>>
    BY <1>1, <1>4 DEF Call
  <2>2. ASSUME ~stale' PROVE \E qs : Explained(frames', qs, stack', undefined', Wanted)
    <3>1. PICK rs : Explained(frames, rs, stack, undefined, Wanted)
      BY <1>2, <2>1, <2>2 DEF AgreesInv
    <3> QED
      BY <1>1, <1>2, <1>4, <2>1, <3>1, TopCalls
  <2> QED
    BY <1>2, <2>1, <2>2, AgreesOn
<1> QED
  BY <1>3, <1>4

-----------------------------------------------------------------------------
(* Compositions, returns, and the theorem.                                 *)

\* A composition enters its operators with the value on top.
LEMMA TopComposes ==
    ASSUME CalculatorInv, At(Bessel), NEW rs, NEW A,
           Explained(frames, rs, stack, undefined, A),
           stack' = stack, undefined' = undefined,
           frames' = Append(GoOn(1), Frame(BesselCode(ins.op, Top), Len(stack) - 1, <<>>))
    PROVE  \E qs : Explained(frames', qs, stack', undefined', A)
<1>1. ins \in Actions /\ ins.op \in Bessel
  BY Underway
<1>2. /\ Given(rs[Len(frames)].env, ins, Segment) = BesselOf(ins.op, Segment[Len(Segment)])
      /\ ins.op \notin JumpOps /\ Needs(ins) = 1
  BY <1>1, GivenBessel
<1>3. Segment[Len(Segment)] = Top
  <2>1. 1 >= 1
    OBVIOUS
  <2> QED
    BY <1>2, <2>1, TopIs
<1>4. stack \in Seq(AllValues) /\ undefined \in BOOLEAN
  BY DEF CalculatorInv, TypeOK
<1>5. Len(stack) >= 1 /\ Len(stack) \in Nat
  <2>1. 1 <= Needs(ins) /\ 1 \in Nat
    BY <1>2
  <2> QED
    BY <2>1, Taken
<1>6. Stretch(stack, Len(stack) - 1, Len(stack)) = <<Top>> /\ Top \in AllValues
  BY <1>4, <1>5, StretchOne DEF Top
<1>7. PICK a \in AllValues, op \in Bessel, code \in {BesselCode(ins.op, Top)} :
          a = Top /\ op = ins.op /\ code = BesselCode(op, a)
  BY <1>1, <1>6
<1>8. Reads(code, {})
  BY <1>7, BesselTyped
<1>9. PICK R : R = BesselOf(op, a)
  OBVIOUS
<1>10. R \in SUBSET Results
  BY <1>9, BesselResults
<1>11. PICK c : c.acts = code.actions /\ c.env = <<>> /\ c.goal = Flags(undefined, R)
  <2>1. PICK c : c = RunOf(code.actions, <<>>, Flags(undefined, R))
    OBVIOUS
  <2>2. c.acts = code.actions /\ c.env = <<>> /\ c.goal = Flags(undefined, R)
    BY <2>1, RunParts
  <2> QED
    BY <2>2
<1>12. <<1, <<a>>, undefined>> \in Good(c)
  <2>1. c.acts = BesselCode(op, a).actions
    BY <1>7, <1>11
  <2>2. c.goal = {Flag(undefined, r) : r \in BesselOf(op, a)}
    BY <1>9, <1>11 DEF Flags
  <2> QED
    BY <1>4, <2>1, <2>2, BesselGood
<1>13. Own(Frame(code, Len(stack) - 1, <<>>), c)
  <2>1. c.env \in Seq(AllValues)
    BY <1>11
  <2> QED
    BY <1>8, <1>11, <2>1, OwnNone
<1>14. <<1, Stretch(stack', Len(stack) - 1, Len(stack')), undefined>> \in Good(c)
  BY <1>6, <1>7, <1>12
<1>15. frames' = Append(GoOn(1), Frame(code, Len(stack) - 1, <<>>))
  BY <1>7
<1>16. Given(rs[Len(frames)].env, ins, Segment) = R
  BY <1>2, <1>3, <1>7, <1>9
<1>17. \A i \in 1..(Len(stack) - 1) : stack'[i] = stack[i]
  OBVIOUS
<1>18. 1 \in Nat /\ 1 = Needs(ins)
  BY <1>2
<1> QED
  BY <1>2, <1>10, <1>11, <1>13, <1>14, <1>15, <1>16, <1>17, <1>18, TopEnters

\* A composition keeps the invariant.
LEMMA AgreesComposes == ASSUME CalculatorInv, AgreesInv, ApplyBessel PROVE AgreesInv'
<1>1. At(Bessel) /\ status = "running"
  BY Underway DEF ApplyBessel
<1>2. /\ stack' = stack /\ undefined' = undefined
      /\ frames' = Append(GoOn(1), Frame(BesselCode(ins.op, Top), Len(stack) - 1, <<>>))
      /\ UNCHANGED <<program, status, stale>>
  BY DEF ApplyBessel
<1>3. ASSUME ~stale' PROVE \E qs : Explained(frames', qs, stack', undefined', Wanted)
  <2>1. PICK rs : Explained(frames, rs, stack, undefined, Wanted)
    BY <1>1, <1>2, <1>3 DEF AgreesInv
  <2> QED
    BY <1>1, <1>2, <2>1, TopComposes
<1> QED
  BY <1>1, <1>2, <1>3, AgreesOn

\* The value on top of a stretch.
LEMMA StretchLast ==
    ASSUME NEW s \in Seq(AllValues), NEW b \in Nat, NEW e \in Nat, b <= e, Len(s) = e + 1
    PROVE  Stretch(s, b, Len(s)) = Append(Stretch(s, b, e), s[Len(s)])
<1>1. b <= Len(s) /\ e <= Len(s) /\ s[Len(s)] \in AllValues
  OBVIOUS
<1>2. PICK r, t, v : r = Stretch(s, b, e) /\ t = Stretch(s, b, Len(s)) /\ v = s[Len(s)]
  OBVIOUS
<1>3. /\ r \in Seq(AllValues) /\ Len(r) = e - b
      /\ \A j \in 1..(e - b) : r[j] = s[b + j]
  BY <1>1, <1>2, StretchTyped
<1>4. /\ t \in Seq(AllValues) /\ Len(t) = Len(s) - b
      /\ \A j \in 1..(Len(s) - b) : t[j] = s[b + j]
  BY <1>1, <1>2, StretchTop
<1>5. v \in AllValues
  BY <1>1, <1>2
<1>6. PICK p : p = Append(r, v)
  OBVIOUS
<1>7. /\ p \in Seq(AllValues) /\ Len(p) = Len(r) + 1 /\ p[Len(r) + 1] = v
      /\ \A i \in 1..Len(r) : p[i] = r[i]
  BY <1>3, <1>5, <1>6, AppendParts
<1>8. ASSUME NEW j \in 1..Len(t) PROVE t[j] = p[j]
  <2>1. t[j] = s[b + j] /\ (j \in 1..(e - b) \/ (j = e - b + 1 /\ b + j = Len(s)))
    BY <1>4
  <2> QED
    BY <1>2, <1>3, <1>7, <2>1
<1>9. t = p
  BY <1>3, <1>4, <1>7, <1>8, SameSeq
<1> QED
  BY <1>2, <1>6, <1>9

\* At the end of the code an outcome that is allowed is on top.
LEMMA TopEnds ==
    ASSUME CalculatorInv, status = "running", frames # <<>>, here.pc = End(here.code),
           NEW rs, NEW A, Explained(frames, rs, stack, undefined, A)
    PROVE  /\ Len(stack) = here.base + 1 /\ here.base \in Nat /\ Top \in AllValues
           /\ undefined \in BOOLEAN
           /\ [value |-> Top, undefined |-> undefined] \in rs[Len(frames)].goal
           /\ [value |-> Top, undefined |-> undefined] # Failed
           /\ Stretch(stack, here.base, Len(stack)) = <<Top>>
<1>1. /\ frames \in Seq(FrameRecords) /\ Len(frames) \in Nat \ {0} /\ Len(frames) \in 1..Len(frames)
      /\ stack \in Seq(AllValues) /\ undefined \in BOOLEAN
  BY EmptySeq, LenProperties DEF CalculatorInv, TypeOK
<1>2. here \in FrameRecords /\ here.base \in Nat /\ here.code \in Codes
  <2>1. here \in FrameRecords
    BY <1>1 DEF here
  <2> QED
    BY <2>1 DEF FrameRecords
<1>3. Len(stack) = here.base + 1
  <2>1. frames # <<>> /\ Len(stack) \in Nat /\ Balanced(frames, Len(stack))
        /\ frames[Len(frames)].pc = End(frames[Len(frames)].code)
    BY <1>1 DEF CalculatorInv, here
  <2> QED
    BY <1>1, <2>1, LeftBalanced DEF here
<1>4. Len(stack) >= 1 /\ here.base = Len(stack) - 1
  BY <1>2, <1>3
<1>5. Stretch(stack, here.base, Len(stack)) = <<Top>> /\ Top \in AllValues
  BY <1>1, <1>4, StretchOne DEF Top
<1>6. PICK c : c = rs[Len(frames)]
  OBVIOUS
<1>7. Own(here, c) /\ <<here.pc, <<Top>>, undefined>> \in Good(c)
  BY <1>1, <1>5, <1>6 DEF Explained, here
<1>8. here.pc = Len(c.acts) + 1
  BY <1>7 DEF Own, End
<1>9. Ok(c, Good(c), here.pc, <<Top>>, undefined)
  BY <1>7, GoodOk
<1>10. <<Top>>[Len(<<Top>>)] = Top
  OBVIOUS
<1>11. [value |-> Top, undefined |-> undefined] \in c.goal
  BY <1>8, <1>9, <1>10 DEF Ok
<1>12. [value |-> Top, undefined |-> undefined] # Failed
  BY <1>1, <1>5, OutcomeOf, OutcomeParts
<1> QED
  BY <1>1, <1>2, <1>3, <1>5, <1>6, <1>11, <1>12

\* The return of a function, and the end of the program, keep the invariant.
LEMMA AgreesReturns == ASSUME CalculatorInv, AgreesInv, Return PROVE AgreesInv'
<1>1. /\ status = "running" /\ frames # <<>> /\ here.pc = End(here.code)
      /\ frames' = SubSeq(frames, 1, Len(frames) - 1)
      /\ status' = IF Len(frames) = 1 THEN "done" ELSE "running"
      /\ UNCHANGED <<stack, undefined, dummies, program, stale>>
  BY DEF Return
<1>2. Wanted' = Wanted
  BY <1>1 DEF Wanted
<1>3. /\ frames \in Seq(FrameRecords) /\ Len(frames) \in Nat \ {0} /\ Len(frames) \in 1..Len(frames)
      /\ stack \in Seq(AllValues)
  BY <1>1, EmptySeq, LenProperties DEF CalculatorInv, TypeOK
<1>4. CASE Len(frames) = 1
  <2>1. ASSUME ~stale' PROVE [value |-> stack'[1], undefined |-> undefined'] \in Wanted'
    <3>1. PICK rs : Explained(frames, rs, stack, undefined, Wanted)
      BY <1>1, <2>1 DEF AgreesInv
    <3>2. /\ Len(stack) = here.base + 1
          /\ [value |-> Top, undefined |-> undefined] \in rs[Len(frames)].goal
      BY <1>1, <3>1, TopEnds
    <3>3. here.base = 0
      BY <1>1, <1>4 DEF CalculatorInv, here
    <3>4. Top = stack[1]
      BY <3>2, <3>3 DEF Top
    <3>5. rs[Len(frames)].goal = Wanted
      BY <1>3, <1>4, <3>1 DEF Explained
    <3> QED
      BY <1>1, <1>2, <3>2, <3>4, <3>5
  <2>2. status' = "done" /\ program' = program
    BY <1>1, <1>4
  <2> QED
    BY <2>1, <2>2 DEF AgreesInv
<1>5. CASE Len(frames) # 1
  <2>1. status' = "running" /\ UNCHANGED program
    BY <1>1, <1>5
  <2>2. ASSUME ~stale' PROVE \E rs : Explained(frames', rs, stack', undefined', Wanted)
    <3>1. PICK rs : Explained(frames, rs, stack, undefined, Wanted)
      BY <1>1, <2>2 DEF AgreesInv
    <3>2. /\ Len(stack) = here.base + 1 /\ here.base \in Nat /\ Top \in AllValues
          /\ undefined \in BOOLEAN
          /\ [value |-> Top, undefined |-> undefined] \in rs[Len(frames)].goal
          /\ [value |-> Top, undefined |-> undefined] # Failed
      BY <1>1, <3>1, TopEnds
    <3>3. PICK gs : gs = frames'
      OBVIOUS
    <3>4. Len(gs) = Len(frames) - 1 /\ \A k \in 1..Len(gs) : gs[k] = frames[k]
      <4>1. Balanced(frames, Len(stack)) /\ Len(stack) \in Nat
            /\ frames[Len(frames)].pc = End(frames[Len(frames)].code)
        BY <1>1, <1>3 DEF CalculatorInv, here
      <4>2. LET hs == SubSeq(frames, 1, Len(frames) - 1) IN
            Len(hs) = Len(frames) - 1 /\ \A k \in 1..Len(hs) : hs[k] = frames[k]
        BY <1>1, <1>3, <4>1, LeftBalanced
      <4> QED
        BY <1>1, <3>3, <4>2
    <3>5. Len(frames) \in Nat /\ Len(frames) > 1 /\ Len(gs) \in 1..Len(frames)
      BY <1>3, <1>5, <3>4
    <3>6. Stretch(stack, frames[Len(gs)].base, Len(stack))
              = Append(Stretch(stack, frames[Len(gs)].base, frames[Len(frames)].base), Top)
      <4>1. PICK b, e : b = frames[Len(gs)].base /\ e = here.base
        OBVIOUS
      <4>2. b \in Nat /\ e \in Nat /\ b <= e /\ frames[Len(frames)].base = e
        <5>1. frames[Len(gs)] \in FrameRecords
          BY <1>3, <3>5
        <5>2. Len(frames) \in Len(gs)..Len(frames)
          BY <3>5
        <5> QED
          BY <3>1, <3>2, <3>5, <4>1, <5>1, <5>2 DEF Explained, Ordered, FrameRecords, here
      <4>3. Len(stack) = e + 1
        BY <3>2, <4>1
      <4>4. Stretch(stack, b, Len(stack)) = Append(Stretch(stack, b, e), stack[Len(stack)])
        BY <1>3, <4>2, <4>3, StretchLast
      <4> QED
        BY <4>1, <4>2, <4>4 DEF Top
    <3>7. Explained(gs, rs, stack, undefined, Wanted)
      BY <3>1, <3>2, <3>4, <3>5, <3>6, ExplainedLeaves
    <3> QED
      BY <1>1, <3>3, <3>7
  <2> QED
    BY <2>1, <2>2, AgreesOn
<1> QED
  BY <1>4, <1>5

\* The program starts on the way to what it may give.
LEMMA AgreesStarts == Init => AgreesInv
<1> SUFFICES ASSUME Init PROVE AgreesInv
  OBVIOUS
<1>1. /\ stack = <<>> /\ undefined = FALSE /\ program \in Programs /\ status = "running"
      /\ frames = <<Frame(program, 0, <<>>)>>
  BY DEF Init
<1>2. Reads(program, {})
  BY <1>1, ProgramsAssumption
<1>3. program.source \in Exprs /\ program.actions = Acts(program.source)
  <2>1. program.source \in Exprs /\ program = Compile(program.source)
    BY <1>1, CompiledAssumption
  <2> QED
    BY <2>1 DEF Compile, Acts
<1>4. PICK c : c.acts = program.actions /\ c.env = <<>> /\ c.goal = Wanted
  <2>1. PICK c : c = RunOf(program.actions, <<>>, Wanted)
    OBVIOUS
  <2>2. c.acts = program.actions /\ c.env = <<>> /\ c.goal = Wanted
    BY <2>1, RunParts
  <2> QED
    BY <2>2
<1>5. c.env \in Seq(AllValues)
  BY <1>4
<1>6. Wanted = {Flag(FALSE, r) : r \in Wanted}
  <2>1. \A r \in Wanted : r \in Results
    BY <1>3, <1>4, <1>5, ValueTyped DEF Wanted, Asked
  <2>2. ASSUME NEW r \in Results PROVE Flag(FALSE, r) = r
    <3>1. CASE r = Failed
      BY <3>1, FlagTyped
    <3>2. CASE r # Failed
      <4>1. r \in Outcome /\ r = [value |-> r.value, undefined |-> r.undefined] /\ r.undefined \in BOOLEAN
        BY <3>2, ResultParts, OutcomeParts
      <4>2. Either(FALSE, r.undefined) = r.undefined
        BY <4>1, EitherFalse
      <4> QED
        BY <3>2, <4>1, <4>2 DEF Flag
    <3> QED
      BY <3>1, <3>2
  <2> QED
    BY <2>1, <2>2
<1>7. <<1, <<>>, FALSE>> \in Good(c)
  <2>1. c.acts = Acts(program.source)
    BY <1>3, <1>4
  <2>2. c.goal = {Flag(FALSE, r) : r \in Value[<<program.source, c.env>>]}
    BY <1>4, <1>6 DEF Wanted
  <2> QED
    BY <1>3, <1>5, <2>1, <2>2, WholeGood
<1>8. PICK rs : rs[1] = c
  <2>1. [k \in {1} |-> c][1] = c
    OBVIOUS
  <2> QED
    BY <2>1
<1>9. Len(frames) = 1 /\ frames[1] = Frame(program, 0, <<>>)
  BY <1>1
<1>10. frames[1].base = 0 /\ frames[1].pc = 1
  BY <1>9 DEF Frame
<1>11. Own(frames[1], rs[1])
  BY <1>2, <1>4, <1>5, <1>8, <1>9, OwnNone
<1>12. Stretch(stack, 0, Len(stack)) = <<>>
  BY <1>1, StretchNone
<1>13. Ordered(frames)
  BY <1>9, <1>10 DEF Ordered
<1>14. \A k \in 1..Len(frames) : k = 1
  BY <1>9
<1>15. Explained(frames, rs, stack, undefined, Wanted)
  BY <1>1, <1>4, <1>7, <1>8, <1>9, <1>10, <1>11, <1>12, <1>13, <1>14 DEF Explained
<1> QED
  BY <1>1, <1>15 DEF AgreesInv

\* Every step of the calculator keeps the invariant.
LEMMA AgreesSteps ==
    ASSUME CalculatorInv, AgreesInv, Next
    PROVE  AgreesInv'
  BY AgreesPushes, AgreesReads, AgreesApplies, AgreesComposes, AgreesJumps, AgreesCalls,
     AgreesReturns DEF Next

\* The calculator gives the value of the expression: whatever the expression, the functions
\* that it calls, the values and the way in which they are rounded, what is on the stack at
\* the end is an outcome of the expression, with undefined set when a part that was evaluated
\* is undefined, and it fails only where such a part fails, unless it has read the arguments
\* of another call.  (archive/o/internal.c, standard.c:247-301)
THEOREM CalculatorAgrees == Spec => []Agrees
<1>1. ASSUME CalculatorInv, AgreesInv, [Next]_vars PROVE AgreesInv'
  <2>1. CASE UNCHANGED vars
    <3>1. /\ Wanted' = Wanted /\ frames' = frames /\ stack' = stack /\ undefined' = undefined
          /\ status' = status /\ stale' = stale /\ program' = program
      BY <2>1 DEF vars, Wanted
    <3> QED
      BY <1>1, <3>1 DEF AgreesInv
  <2> QED
    BY <1>1, <2>1, AgreesSteps
<1>2. CalculatorInv /\ AgreesInv /\ [Next]_vars => AgreesInv'
  BY <1>1
<1>3. AgreesInv => Agrees
  <2> SUFFICES ASSUME AgreesInv PROVE Agrees
    OBVIOUS
  <2>1. <<program.source, <<>>>> \in Asked
    <3>1. program.source \in Exprs
      BY CompiledAssumption DEF AgreesInv
    <3>2. PICK env \in Seq(AllValues) : env = <<>>
      <4>1. <<>> \in Seq(AllValues)
        OBVIOUS
      <4> QED
        BY <4>1
    <3> QED
      BY <3>1, <3>2 DEF Asked
  <2>2. Wanted \subseteq Eval[<<program.source, <<>>>>]
    BY <2>1, ValueTyped DEF Wanted
  <2> QED
    BY <2>2 DEF AgreesInv, Agrees
<1> QED
  BY <1>2, <1>3, AgreesStarts, CalculatorInvariant, PTL DEF Spec

=============================================================================
